------------------------------ MODULE Deblock ------------------------------
(***************************************************************************)
(* The "deblocker" package of SmartFirmware (src/bin/of/deblock.c), which  *)
(* makes a byte stream of a block device.  It keeps one buffer of          *)
(* XferBlocks blocks, reads into it what a request needs, and writes it    *)
(* back when something else is to be buffered.                             *)
(*                                                                         *)
(* One step of do_io is one turn of its loop: a flush, a read into the     *)
(* buffer and a copy.  The device below is external: it transfers the      *)
(* blocks it has, and a faulty one may also fail.                          *)
(***************************************************************************)
EXTENDS Integers, Sequences

CONSTANTS
    BlockSize,      \* bytes in a block of the device
    XferBlocks,     \* blocks in the buffer
    DevBlocks,      \* blocks of the device
    Uses,           \* kinds of callers and devices, one of which a machine has:
                    \*   seeks   positions that are sought
                    \*   lens    lengths that are read and written
                    \*   reach   reads and writes stay below this position
                    \*   faulty  the device may fail
    Clobbers,       \* a failed read leaves something else in the buffer
    Followed        \* calls go on after one that spoilt the buffer

ASSUME DeblockAssumption ==
    /\ {BlockSize, XferBlocks, DevBlocks} \subseteq Nat \ {0}
    /\ Uses \subseteq [seeks : SUBSET Nat, lens : SUBSET Nat, reach : Nat,
                       faulty : BOOLEAN]
    /\ {Clobbers, Followed} \subseteq BOOLEAN

VARIABLES
    use,            \* which of Uses it is; never changes
    dev,            \* the bytes of the device
    self,           \* the instance is open
    blocknum,       \* next block number
    offset,         \* offset within block
    currblock,      \* first block in the buffer
    buf,            \* the buffer, "block" in the code
    modified,       \* the buffer is to be written
    call,           \* the call of do_io under way
    res,            \* the result of the last operation
    spoilt          \* a history: the buffer was once taken for what it is not

vars == <<use, dev, self, blocknum, offset, currblock, buf, modified, call, res, spoilt>>

DevBytes == DevBlocks * BlockSize
BufBytes == XferBlocks * BlockSize
NoBlock == -1                       \* (uInt)-1
Fill == DevBytes                    \* a byte no device starts with
Junk == DevBytes + 1                \* what memory holds that nobody filled
Byte == 0 .. Junk

Idle == [op |-> "none", left |-> 0, total |-> 0, data |-> <<>>]
Retcodes == {"NO_ERROR", "E_WRITE_ERROR", "E_DEVICE"}

NotPushed == -2     \* the operation left no number on the stack

Result(op, ret, actual, data) ==
    res' = [op |-> op, ret |-> ret, actual |-> actual, data |-> data]

TypeOK == /\ use \in Uses
          /\ dev \in [0 .. DevBytes - 1 -> Byte]
          /\ self \in BOOLEAN
          /\ blocknum \in Nat /\ offset \in 0 .. BufBytes
          /\ currblock \in Nat \union {NoBlock}
          /\ buf \in [0 .. BufBytes - 1 -> Byte]
          /\ modified \in BOOLEAN
          /\ call.op \in {"none", "read", "write"}
          /\ res.ret \in Retcodes
          /\ spoilt \in BOOLEAN

-----------------------------------------------------------------------------
(* The device. *)

\* Blocks it can transfer of those asked for.
Available(b) == IF b = NoBlock \/ b >= DevBlocks THEN 0
                ELSE IF DevBlocks - b < XferBlocks THEN DevBlocks - b
                ELSE XferBlocks

\* The buffer after n blocks from b on were read from d, the device after n were written.
ReadBlocks(d, b, n) == [i \in DOMAIN buf |->
    IF i < n * BlockSize THEN d[b * BlockSize + i] ELSE buf[i]]
WriteBlocks(n) == [i \in DOMAIN dev |->
    LET k == i - currblock * BlockSize IN
    IF 0 <= k /\ k < n * BlockSize THEN buf[k] ELSE dev[i]]

-----------------------------------------------------------------------------
Init == /\ use \in Uses
        /\ dev = [i \in 0 .. DevBytes - 1 |-> i]
        /\ self = FALSE
        /\ blocknum = 0 /\ offset = 0 /\ currblock = NoBlock
        /\ buf = [i \in 0 .. BufBytes - 1 |-> Junk]
        /\ modified = FALSE
        /\ call = Idle
        /\ res = [op |-> "none", ret |-> "NO_ERROR", actual |-> 0, data |-> <<>>]
        /\ spoilt = FALSE

\* f_deblock_open, when "block-size", "max-transfer" and "dma-alloc" succeed.
f_deblock_open ==
    /\ ~self
    /\ self' = TRUE
    /\ blocknum' = 0 /\ offset' = 0 /\ currblock' = NoBlock
    /\ modified' = FALSE
    /\ buf' = [i \in DOMAIN buf |-> Junk]
    /\ Result("open", "NO_ERROR", 0, <<>>)
    /\ UNCHANGED <<dev, call, spoilt>>

\* What flushbuf may do: a write of fewer blocks than the buffer has is an
\* error and leaves the buffer marked.
flushbuf ==
    IF ~modified THEN {[dev |-> dev, modified |-> FALSE, ret |-> "NO_ERROR"]}
    ELSE LET n == Available(currblock) IN
         {[dev |-> WriteBlocks(n), modified |-> n # XferBlocks,
           ret |-> IF n = XferBlocks THEN "NO_ERROR" ELSE "E_WRITE_ERROR"]}
         \union
         IF use.faulty THEN {[dev |-> dev, modified |-> TRUE, ret |-> "E_DEVICE"]} ELSE {}

\* f_deblock_close returns NO_ERROR whatever flushbuf returned.
f_deblock_close ==
    /\ self /\ call = Idle
    /\ \E fl \in flushbuf : dev' = fl.dev
    /\ self' = FALSE
    /\ modified' = FALSE
    /\ Result("close", "NO_ERROR", 0, <<>>)
    /\ UNCHANGED <<blocknum, offset, currblock, buf, call, spoilt>>

\* Mutant: the block after the buffer counts as buffered.
OutsideByOne(b) == currblock = NoBlock \/ b < currblock \/ b > currblock + XferBlocks

Outside(b) == currblock = NoBlock \/ b < currblock \/ b >= currblock + XferBlocks

\* f_deblock_seek: after a flush it returns without pushing a status.
f_deblock_seek(p) ==
    /\ self /\ call = Idle
    /\ blocknum' = p \div BlockSize
    /\ offset' = p % BlockSize
    /\ \/ /\ modified /\ Outside(blocknum')
          /\ \E fl \in flushbuf : /\ dev' = fl.dev
                                  /\ modified' = fl.modified
                                  /\ Result("seek", fl.ret, NotPushed, <<>>)
       \/ /\ ~(modified /\ Outside(blocknum'))
          /\ Result("seek", "NO_ERROR", 0, <<>>)
          /\ UNCHANGED <<dev, modified>>
    /\ UNCHANGED <<self, currblock, buf, call, spoilt>>

\* A position of more than 64 bits; -1 is the status.
seek_too_far == /\ self /\ call = Idle
                /\ Result("seek", "NO_ERROR", -1, <<>>)
                /\ UNCHANGED <<dev, self, blocknum, offset, currblock, buf,
                               modified, call, spoilt>>

-----------------------------------------------------------------------------
(* do_io. *)

Pos == blocknum * BlockSize + offset

\* A call that asks for nothing never ends: neither branch at the end of the
\* loop is for it.
Start(op, len) ==
    /\ self /\ call = Idle
    /\ Pos + len <= use.reach
    /\ call' = [op |-> op, left |-> len, total |-> 0, data |-> <<>>]
    /\ spoilt' = (spoilt \/ len = 0)
    /\ UNCHANGED <<dev, self, blocknum, offset, currblock, buf, modified, res>>

InMemory == currblock # NoBlock /\ ~Outside(blocknum)

\* "read the chunk only if it will not be completely overwritten"
NeedsRead == call.op = "read" \/ offset # 0 \/ call.left % BlockSize # 0

\* The call ends after an error or at the end of the device.
GiveUp(ret, actual) == /\ call' = Idle
                       /\ Result(call.op, ret, actual, call.data)
                       /\ UNCHANGED <<blocknum, offset>>

\* Bytes k .. k + n - 1 of buffer b after a write; what falls outside of the
\* buffer goes to somebody else's memory.
Overwritten(b, k, n) ==
    [i \in DOMAIN b |-> IF k <= i /\ i < k + n THEN Fill ELSE b[i]]
Copied(b, k, n) ==
    [i \in 1 .. n |-> IF k + i - 1 \in DOMAIN b THEN b[k + i - 1] ELSE Junk]

\* Mutant: the offset is kept when the next buffer is begun.
transfer_keeps_offset(actual, cur, b, dirty) ==
    LET l == actual * BlockSize - offset
        k == (blocknum - cur) * BlockSize + offset
        n == IF call.left > l THEN l ELSE call.left
        got == IF call.op = "read" THEN call.data \o Copied(b, k, n) ELSE <<>>
    IN
    /\ currblock' = cur
    /\ buf' = IF call.op = "write" THEN Overwritten(b, k, n) ELSE b
    /\ modified' = (dirty \/ (call.op = "write" /\ call.left > 0))
    /\ \/ /\ call.left > l
          /\ UNCHANGED offset
          /\ blocknum' = cur + XferBlocks
          /\ call' = [call EXCEPT !.left = @ - l, !.total = @ + l, !.data = got]
          /\ UNCHANGED res
       \/ /\ call.left <= l /\ call.left > 0
          /\ offset' = offset + call.left
          /\ call' = Idle
          /\ Result(call.op, "NO_ERROR", call.total + call.left, got)
          /\ UNCHANGED blocknum
       \/ /\ call.left = 0
          /\ UNCHANGED <<blocknum, offset, call, res>>

\* The copy between the caller and buffer b, whose first block is cur and of
\* which "actual" blocks from blocknum on may be used.
Transfer(actual, cur, b, dirty) ==
    LET l == actual * BlockSize - offset
        k == (blocknum - cur) * BlockSize + offset
        n == IF call.left > l THEN l ELSE call.left
        got == IF call.op = "read" THEN call.data \o Copied(b, k, n) ELSE <<>>
    IN
    /\ currblock' = cur
    /\ buf' = IF call.op = "write" THEN Overwritten(b, k, n) ELSE b
    /\ modified' = (dirty \/ (call.op = "write" /\ call.left > 0))
    /\ \/ /\ call.left > l
          /\ offset' = 0
          /\ blocknum' = cur + XferBlocks
          /\ call' = [call EXCEPT !.left = @ - l, !.total = @ + l, !.data = got]
          /\ UNCHANGED res
       \/ /\ call.left <= l /\ call.left > 0
          /\ offset' = offset + call.left
          /\ call' = Idle
          /\ Result(call.op, "NO_ERROR", call.total + call.left, got)
          /\ UNCHANGED blocknum
       \/ /\ call.left = 0
          /\ UNCHANGED <<blocknum, offset, call, res>>

\* Mutant: the buffer is named before it is known to be filled.
name_then_read(d) ==
    LET n == Available(blocknum) IN
    \/ /\ n > 0
       /\ Transfer(n, blocknum, ReadBlocks(d, blocknum, n), FALSE)
       /\ spoilt' = (spoilt \/ n < XferBlocks)
    \/ /\ n = 0
       /\ GiveUp("NO_ERROR", call.total)
       /\ currblock' = blocknum
       /\ modified' = FALSE
       /\ UNCHANGED <<buf, spoilt>>
    \/ /\ use.faulty
       /\ \E ret \in {"NO_ERROR", "E_DEVICE"} : GiveUp(ret, call.total)
       /\ currblock' = blocknum
       /\ modified' = FALSE
       /\ buf' = IF Clobbers THEN [buf EXCEPT ![0] = Junk] ELSE buf
       /\ spoilt' = (spoilt \/ Clobbers)

\* read-blocks from d, and the copy after it.  Fewer blocks than asked for
\* count as a buffer full of them; a failed read may have changed a buffer
\* that keeps its number.
ReadAndCopy(d) ==
    LET n == Available(blocknum) IN
    \/ /\ n > 0
       /\ Transfer(n, blocknum, ReadBlocks(d, blocknum, n), FALSE)
       /\ spoilt' = (spoilt \/ n < XferBlocks)
    \/ /\ n = 0
       /\ GiveUp("NO_ERROR", call.total)
       /\ modified' = FALSE
       /\ UNCHANGED <<currblock, buf, spoilt>>
    \/ /\ use.faulty
       /\ \E ret \in {"NO_ERROR", "E_DEVICE"} : GiveUp(ret, call.total)
       /\ modified' = FALSE
       /\ buf' = IF Clobbers THEN [buf EXCEPT ![0] = Junk] ELSE buf
       /\ spoilt' = (spoilt \/ Clobbers)
       /\ UNCHANGED currblock

\* One turn of the loop.  Whole blocks are written without a read before them,
\* into the buffer of an earlier block.
do_io ==
    /\ call # Idle
    /\ \/ /\ InMemory
          /\ Transfer(XferBlocks - (blocknum - currblock), currblock, buf, modified)
          /\ UNCHANGED <<dev, spoilt>>
       \/ /\ ~InMemory
          /\ \E fl \in flushbuf :
                /\ dev' = fl.dev
                /\ \/ /\ fl.ret # "NO_ERROR"
                      /\ GiveUp(fl.ret, NotPushed)
                      /\ modified' = fl.modified
                      /\ UNCHANGED <<currblock, buf, spoilt>>
                   \/ /\ fl.ret = "NO_ERROR"
                      /\ \/ NeedsRead /\ ReadAndCopy(fl.dev)
                         \/ /\ ~NeedsRead
                            /\ Transfer(XferBlocks, currblock, buf, FALSE)
                            /\ spoilt' = TRUE
    /\ UNCHANGED self

\* Next without Followed: the call that spoilt the buffer is the last one.
Next == /\ spoilt => Followed \/ call # Idle
        /\ \/ f_deblock_open
           \/ f_deblock_close
           \/ \E p \in use.seeks : f_deblock_seek(p)
           \/ seek_too_far
           \/ \E op \in {"read", "write"}, len \in use.lens : Start(op, len)
           \/ do_io
        /\ UNCHANGED use

Spec == Init /\ [][Next]_vars
LiveSpec == Spec /\ WF_vars(do_io /\ UNCHANGED use)

-----------------------------------------------------------------------------
(* Properties. *)

\* What a reader would get: the buffer over the device.
Content == [i \in DOMAIN dev |->
    LET k == i - currblock * BlockSize IN
    IF modified /\ currblock # NoBlock /\ k \in DOMAIN buf THEN buf[k] ELSE dev[i]]

\* A buffer that is not to be written holds what the device holds, so a later
\* request may be served from it, as long as the buffer was never taken for
\* what it is not (do_io, flushbuf and f_deblock_seek).
CacheCoherent ==
    ~spoilt =>
        /\ TypeOK
        /\ self /\ ~modified /\ currblock # NoBlock =>
              \A k \in DOMAIN buf : LET i == currblock * BlockSize + k IN
                  i \in DOMAIN dev /\ buf[k] = dev[i]

\* The byte stream of ByteFile: every byte is read from where it was written,
\* through buffering, faults and flushes.  From the first write of whole blocks
\* that are not in memory, short transfer, changed buffer or call for nothing
\* on (do_io), nothing is promised.
Abstract == INSTANCE ByteFile
            WITH Bytes <- DevBytes, faulty <- use.faulty,
                 SeekTo <- UNION {u.seeks : u \in Uses},
                 Lens <- UNION {u.lens : u \in Uses},
                 content <- Content, durable <- dev, pos <- Pos
ImplementsByteFile == Abstract!Init /\ [][Abstract!Next \/ spoilt']_(Abstract!vars)

\* A read or a write comes back.
IoReturns == call # Idle ~> call = Idle

\* After a write has returned, the bytes it says it took are in the file, right
\* before the position.
WriteIsSeen ==
    self /\ call = Idle /\ res.op = "write" /\ res.ret = "NO_ERROR" =>
        \A i \in DOMAIN dev : Pos - res.actual <= i /\ i < Pos => Content[i] = Fill

=============================================================================
