----------------------------- MODULE MemoryNode -----------------------------
(***************************************************************************)
(* The /memory node (src/bin/of/memory.c): its "claim" and "release"       *)
(* methods work on the allocator of Alloc, and after each of them          *)
(* make_available writes the free list into the "available" property.      *)
(*                                                                         *)
(* Property values come from a pool that is never given back to            *)
(* (prop_alloc in table.c moves a break), so make_available can fail, and  *)
(* once it has failed for good the property is no longer kept up.          *)
(***************************************************************************)
EXTENDS Alloc

CONSTANTS
    Region,     \* [addr, size] of the machine's memory
    Pool,       \* [addr, size] install_memory claims for malloc()
    Aligns,     \* the non-zero alignments of claim
    PropMem     \* ints in the property pool

ASSUME NodeAssumption ==
    /\ Region \in Block /\ Region.size # 0
    /\ Pool \in Block /\ Pool.size # 0
    /\ Aligns \subseteq 1 .. AddrMod
    /\ PropMem \in Nat

VARIABLES
    phase,      \* how far install_memory has come
    avail,      \* value of the "available" property
    proplen,    \* break of the property pool, in ints
    base,       \* what claim left on the stack
    ret         \* what the last method returned

nodeVars == <<phase, avail, proplen, base, ret>>
allVars == <<list, res, phase, avail, proplen, base, ret>>

Phases == {"install", "reserve", "up", "failed"}

NodeTypeOK == /\ TypeOK
              /\ phase \in Phases
              /\ avail \in Seq(Block)
              /\ proplen \in 0 .. PropMem
              /\ base \in Addr
              /\ ret \in Retcodes

-----------------------------------------------------------------------------
\* Ints that make_available asks the pool for: enough for one address cell and
\* one size cell for each block.
Reserved(n) == 2 * (n + 1)

\* Mutant: the break of the property pool is moved unchecked.
make_available_unchecked(r) ==
    /\ proplen' = proplen + Reserved(Len(list'))
    /\ avail' = list'
    /\ ret' = r

\* Mutant: the failure of make_available is not returned.
make_available_silent(r) ==
    LET need == Reserved(Len(list')) IN
    /\ ret' = r
    /\ IF proplen + need >= PropMem THEN UNCHANGED <<avail, proplen>>
       ELSE proplen' = proplen + need /\ avail' = list'

\* make_available, after an allocator call that returned r; its own failure is
\* what the method returns only if that call succeeded.
make_available(r) ==
    LET need == Reserved(Len(list')) IN
    \/ /\ proplen + need >= PropMem
       /\ UNCHANGED <<avail, proplen>>
       /\ ret' = IF r # "NO_ERROR" THEN r ELSE "E_OUT_OF_MEMORY"
    \/ /\ proplen + need < PropMem
       /\ proplen' = proplen + need
       /\ avail' = list'
       /\ ret' = r

f_memory_claim(align, addr, size) ==
    /\ \/ align = 0 /\ alloc_fixed(addr, size)
       \/ align # 0 /\ alloc_aligned(align, size)
    /\ base' = IF res'.ret = "NO_ERROR" THEN res'.addr ELSE 0
    /\ make_available(res'.ret)

f_memory_release(addr, size) ==
    /\ free_block(addr, size)
    /\ make_available(res'.ret)
    /\ UNCHANGED base

-----------------------------------------------------------------------------
(* install_memory: all memory becomes free, then the part that the malloc   *)
(* pool occupies is claimed at its fixed address.                           *)

NodeInit == /\ Init
            /\ phase = "install"
            /\ avail = <<>>
            /\ proplen = 0
            /\ base = 0
            /\ ret = "NO_ERROR"

InstallRegion ==
    /\ phase = "install"
    /\ free_block(Region.addr, Region.size)
    /\ IF res'.ret = "NO_ERROR"
       THEN make_available("NO_ERROR")
       ELSE ret' = res'.ret /\ UNCHANGED <<avail, proplen>>
    /\ phase' = IF ret' = "NO_ERROR" THEN "reserve" ELSE "failed"
    /\ UNCHANGED base

\* Mutant: the offset of the pool in the memory is forgotten.
reserve_at_region ==
    /\ phase = "reserve"
    /\ f_memory_claim(0, Region.addr, Pool.size)
    /\ phase' = IF ret' = "NO_ERROR" /\ base' = Region.addr THEN "up" ELSE "failed"

ReservePool ==
    /\ phase = "reserve"
    /\ f_memory_claim(0, Pool.addr, Pool.size)
    /\ phase' = IF ret' = "NO_ERROR" /\ base' = Pool.addr THEN "up" ELSE "failed"

-----------------------------------------------------------------------------
\* Clients of the node: the firmware and the programs it loads.
ClaimFixed == \E r \in FixedReqs : f_memory_claim(0, r.addr, r.size)
ClaimAligned ==
    \E al \in Aligns, size \in SizeReqs : f_memory_claim(al, 0, size)
ReleaseSpan ==
    \E r \in FreeReqs :
        /\ CarefulCallers => Span(r.addr, r.size) \cap FreeAddrs = {}
        /\ f_memory_release(r.addr, r.size)

NodeNext == \/ InstallRegion
            \/ ReservePool
            \/ /\ phase = "up"
               /\ ClaimFixed \/ ClaimAligned \/ ReleaseSpan
               /\ UNCHANGED phase

NodeSpec == NodeInit /\ [][NodeNext]_allVars

-----------------------------------------------------------------------------
(* Properties. *)

\* The memory malloc() lives in is never free, and so never claimed, once the
\* node is up: no client gives that memory back, and no sequence of splits and
\* merges of the free list reaches into it.
PoolReserved ==
    phase = "up" => Span(Pool.addr, Pool.size) \cap FreeAddrs = {}

\* The addresses that "available" says are free.
Advertised == {x \in Addr : \E i \in 1 .. Len(avail) :
                               x \in Span(avail[i].addr, avail[i].size)}

\* A method that reports success has published its effect: what claim handed
\* out is not advertised, what release took is, and nothing else differs from
\* the free list.
SuccessIsPublished ==
    ret = "NO_ERROR" /\ phase = "up" =>
        /\ avail = list
        /\ res.op \in {"fixed", "constrained"} =>
              Span(base, res.size) \cap Advertised = {}
        /\ res.op = "free" => Span(res.addr, res.size) \subseteq Advertised

=============================================================================
