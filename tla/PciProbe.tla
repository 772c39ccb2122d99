------------------------------ MODULE PciProbe ------------------------------
(***************************************************************************)
(* Probing a tree of PCI buses and assigning memory addresses and bus      *)
(* numbers (src/bin/of/pci: pci.c, ppb.c, pcialloc.c).                     *)
(*                                                                         *)
(* Behind a bridge the probe goes on with a pool of its own, a copy of the *)
(* largest block of the pool it comes from; meanwhile the bridge forwards  *)
(* all of it.  When the bus behind it is done, its window is cut down to   *)
(* what was used there, and only that is taken from the pool above.        *)
(*                                                                         *)
(* A bridge whose probe fails when it forwards already is given up: it and *)
(* what is behind it go on decoding what they were given, but the pools    *)
(* above have all of that still, and the probe goes on (ppb.c:609-697).    *)
(*                                                                         *)
(* Which devices there are is the choice of each step.  A device has one   *)
(* memory BAR.  I/O space is handled by the same code with other bounds.   *)
(***************************************************************************)
EXTENDS PciAlloc, FiniteSets

CONSTANTS
    Granule,        \* the unit of a bridge's window
    MemPool,        \* the memory blocks of the host bridge
    MaxBus,         \* the last bus number
    BarSizes,       \* sizes of BARs
    RomSizes,       \* sizes of expansion ROMs; 0 for none
    MaxDevices,     \* bound: devices and bridges
    MaxFailures,    \* bound: steps in which something fails
    MaxDamage       \* bound: steps that may damage the pools

ASSUME PciProbeAssumption ==
    /\ Granule \in Nat \ {0}
    /\ MaxBus \in Nat
    /\ BarSizes \subseteq Nat \ {0} /\ RomSizes \subseteq Nat
    /\ MaxDevices \in Nat /\ MaxFailures \in Nat /\ MaxDamage \in Nat

VARIABLES
    buses,      \* the buses being probed, each behind the one before it
    claims,     \* what devices and bridges decode: [id, part, bus, lo, hi]
    routes,     \* the bus numbers a bridge forwards: [id, bus, sec, sub]
    devices,    \* how many have been found
    stranded,   \* bridges whose probe has failed, and those behind them
    abandoned,  \* what bridges that are given up and what is behind them decode
    failures,   \* steps in which malloc() or a probe has failed
    damage      \* empty bridges closed, and devices whose FCode had their
                \* addresses assigned while the ROM had some

pciVars == <<buses, claims, routes, devices, stranded, abandoned, failures, damage>>

Window == [base : 0 .. Top, limit : 0 .. Top, size : -Top .. Top]
NoWindow == [base |-> 0, limit |-> 0, size |-> 0]

\* ppb_set_window
WindowOn(b) == IF b.size = 0 THEN NoWindow
               ELSE [base |-> b.base, limit |-> Limit(b), size |-> b.size]

Blocks == Seq([base : 0 .. Top, size : 1 .. Top])

\* Sizes turn negative when there is damage.
PciTypeOK ==
    /\ devices \in 0 .. MaxDevices
    /\ failures \in 0 .. MaxFailures /\ damage \in 0 .. MaxDamage
    /\ damage = 0 =>
          /\ \A i \in DOMAIN buses :
                /\ buses[i].mem \in Blocks /\ buses[i].numbers \in Blocks
                /\ buses[i].window \in Window /\ buses[i].range \in Window
                /\ buses[i].todo \in Seq([id : 1 .. MaxDevices, size : BarSizes])
                /\ buses[i].bus \in 0 .. MaxBus /\ buses[i].id \in 0 .. MaxDevices
          /\ claims \union abandoned \subseteq
                [id : 1 .. MaxDevices, part : {"bar", "window"},
                 bus : 0 .. MaxBus, lo : 0 .. Top, hi : 0 .. Top]
          /\ routes \subseteq [id : 1 .. MaxDevices, bus : 0 .. MaxBus,
                               sec : 0 .. MaxBus, sub : 0 .. MaxBus]
          /\ stranded \subseteq 1 .. MaxDevices

\* The bus of the host bridge, with the numbers it can give away.
HostBus == [bus |-> 0, id |-> 0, mem |-> MemPool,
            numbers |-> <<Block(1, MaxBus)>>,
            window |-> NoWindow, range |-> NoWindow, todo |-> <<>>]

PciInit == /\ buses = <<HostBus>>
           /\ claims = {} /\ routes = {}
           /\ devices = 0 /\ stranded = {} /\ abandoned = {}
           /\ failures = 0 /\ damage = 0

here == Last(buses)
WithHere(b) == Front(buses) \o <<b>>

-----------------------------------------------------------------------------
(* Assigning an address to a BAR.  Without one the BAR is zero and decodes  *)
(* nothing.                                                                 *)

Assigned(bus, bar, r) ==
    IF r.ok THEN {[id |-> bar.id, part |-> "bar", bus |-> bus,
                   lo |-> r.base, hi |-> r.base + bar.size - 1]}
    ELSE {}

\* pci_assign_address_space for the first n BARs left on a bus, the last device
\* found first.
AssignFirst(b, n, mem) ==
    LET done[k \in 0 .. n] ==
            IF k = 0 THEN [mem |-> b.mem, claims |-> {}]
            ELSE LET bar == b.todo[k]
                     r == pci_allocate_mem32(done[k - 1].mem, bar.size, mem)
                 IN [mem |-> r.blocks,
                     claims |-> done[k - 1].claims \union Assigned(b.bus, bar, r)]
    IN done[n]

AssignAll(b, mem) == AssignFirst(b, Len(b.todo), mem)

\* Who has a device's addresses assigned.
Assigners == {"driver", "bus", "fcode"}

\* Whether all goes well in this step: with "mem", calls of malloc() do.
Memory(well) == /\ ~well => failures < MaxFailures
                /\ failures' = IF well THEN failures ELSE failures + 1

\* Whether this step may damage the pools.
Harm(harm) == /\ harm => damage < MaxDamage
              /\ damage' = IF harm THEN damage + 1 ELSE damage

\* pci_load_expansion_rom: a device gets addresses for its ROM and gives them
\* back.  The FCode in it can have the device's own addresses assigned.
LoadRom(bar, rom, by, mem) ==
    LET r == IF rom = 0 THEN Refused(here.mem)
             ELSE pci_allocate_mem32(here.mem, rom, mem)
        own == pci_allocate_mem32(r.blocks, bar.size, mem)
        rest == IF by = "fcode" THEN own.blocks ELSE r.blocks
    IN [ran |-> r.ok, own |-> own,
        blocks |-> IF r.ok THEN pci_free_block(rest, r.base, rom, mem) ELSE rest]

\* The install routine of a driver can have the addresses assigned, too;
\* otherwise that is done with the bus.
ProbeDevice(size, rom, by, mem) ==
    LET bar == [id |-> devices + 1, size |-> size]
        loaded == LoadRom(bar, rom, by, mem)
        d == pci_allocate_mem32(loaded.blocks, size, mem)
    IN
    /\ devices < MaxDevices
    /\ devices' = devices + 1
    /\ Memory(mem) /\ Harm(by = "fcode")
    /\ UNCHANGED <<routes, stranded, abandoned>>
    /\ \/ /\ by = "fcode" /\ loaded.ran
          /\ buses' = WithHere([here EXCEPT !.mem = loaded.blocks])
          /\ claims' = claims \union Assigned(here.bus, bar, loaded.own)
       \/ /\ by = "driver"
          /\ buses' = WithHere([here EXCEPT !.mem = d.blocks])
          /\ claims' = claims \union Assigned(here.bus, bar, d)
       \/ /\ by = "bus"
          /\ buses' = WithHere([here EXCEPT !.mem = loaded.blocks, !.todo = <<bar>> \o @])
          /\ claims' = claims

-----------------------------------------------------------------------------
(* Bridges. *)

\* ppb_program_windows: what a bridge on a bus forwards through its window, in
\* whole granules.
Forwarded(id, bus, w) ==
    LET lo == (w.base \div Granule) * Granule
        hi == ((w.limit - 1) \div Granule) * Granule + Granule - 1
    IN IF w.size = 0 \/ hi < lo THEN {}
       ELSE {[id |-> id, part |-> "window", bus |-> bus, lo |-> lo, hi |-> hi]}

\* The bus numbers are eight bits wide.
Route(id, bus, w) == [id |-> id, bus |-> bus, sec |-> w.base,
                      sub |-> (w.limit - 1) % (MaxBus + 1)]

\* ppb_probe_pci_bridge, up to the probe of the bus behind the bridge.  bar is
\* the size of the bridge's own BAR, or 0.
EnterBridge(bar, mem) ==
    LET id == devices + 1
        own == IF bar = 0 THEN Refused(here.mem)
               ELSE pci_allocate_mem32(here.mem, bar, mem)
        w == WindowOn(pci_find_largest_block(own.blocks, Granule, Low, Top - 1))
        n == WindowOn(pci_find_largest_block(here.numbers, 1, 0, MaxBus + 1))
        sec == pci_allocate_buses(pci_free_block(<<>>, n.base, n.size, mem), MaxBus, mem)
        ownClaim == Assigned(here.bus, [id |-> id, size |-> bar], own)
        after == WithHere([here EXCEPT !.mem = own.blocks])
    IN
    /\ devices < MaxDevices
    /\ devices' = id
    /\ Memory(mem)
    /\ UNCHANGED <<abandoned, damage>>
    /\ routes' = routes \union {Route(id, here.bus, n)}
    /\ IF sec.ok
       THEN /\ claims' = claims \union ownClaim \union Forwarded(id, here.bus, w)
            /\ buses' = after \o
                  <<[bus |-> sec.base, id |-> id, numbers |-> sec.blocks,
                     mem |-> pci_free_block(<<>>, w.base, w.size, mem),
                     window |-> w, range |-> n, todo |-> <<>>]>>
            /\ UNCHANGED stranded
       ELSE \* no number for the bus: the bridge stays disabled
            /\ claims' = claims \union ownClaim
            /\ buses' = after
            /\ stranded' = stranded \union {id}

\* Mutant: a window is cut at a free block inside it.
update_at_first_hole(w, blocks) ==
    IF blocks = <<>> THEN w ELSE [w EXCEPT !.limit = Head(blocks).base]

\* ppb_update_windows: free blocks at either end of the window are cut off.  No
\* two blocks of a list begin or end at the same address.
BeginAt(blocks, a) == {i \in DOMAIN blocks : blocks[i].base = a}
EndAt(blocks, a) == {i \in DOMAIN blocks : Limit(blocks[i]) = a}

ppb_update_windows(w, blocks) ==
    LET first == BeginAt(blocks, w.base)
        last == EndAt(blocks, w.limit)
    IN [w EXCEPT !.base = IF first = {} THEN @ ELSE Limit(blocks[Earliest(first)]),
                 !.limit = IF last = {} THEN @ ELSE blocks[Earliest(last)].base]

\* The bus numbers are cut off from above only.
ppb_update_range(n, blocks) ==
    LET last == EndAt(blocks, n.limit)
    IN [n EXCEPT !.limit = IF last = {} THEN @ ELSE blocks[Earliest(last)].base]

\* Mutant: the size is not rounded up to the granule.
window_size_exact(w, granule) == [w EXCEPT !.size = w.limit - w.base]

ppb_set_window_size(w, granule) ==
    LET size == w.limit - w.base
    IN [w EXCEPT !.size = IF size < 0 THEN size ELSE RoundUp(size, granule)]

ppb_allocate_window(blocks, w, mem) ==
    IF w.size = 0 THEN blocks
    ELSE pci_allocate_fixed_block(blocks, w.base, w.size, mem).blocks

\* Nothing behind the bridge has taken memory, though it has a window.
Unused(b, blocks) ==
    b.window.size # 0 /\ Covered(blocks) = b.window.base .. b.window.limit - 1

\* The end of pci_probe_bus for a bus behind a bridge, and the rest of
\* ppb_probe_pci_bridge.
LeaveBridge(mem) ==
    LET a == AssignAll(here, mem)
        w == ppb_set_window_size(ppb_update_windows(here.window, a.mem), Granule)
        n == ppb_set_window_size(ppb_update_range(here.range, here.numbers), 1)
        parent == buses[Len(buses) - 1]
    IN
    /\ Len(buses) > 1
    /\ buses' = SubSeq(buses, 1, Len(buses) - 2) \o
          <<[parent EXCEPT !.mem = ppb_allocate_window(@, w, mem),
                           !.numbers = ppb_allocate_window(@, n, mem)]>>
    /\ claims' = {c \in claims : ~(c.id = here.id /\ c.part = "window")}
                    \union a.claims \union Forwarded(here.id, parent.bus, w)
    /\ routes' = {r \in routes : r.id # here.id} \union {Route(here.id, parent.bus, n)}
    /\ Memory(mem) /\ Harm(Unused(here, a.mem))
    /\ UNCHANGED <<devices, stranded, abandoned>>

\* ppb_probe_pci_bridge returns early when the bridge forwards: a property of
\* the bridge cannot be set before the bus is probed (nothing is found on it,
\* then) or after its window has been cut, or the probe of the bus has failed
\* after n BARs.  Nothing is taken from the pools above, and pci_probe_bus goes
\* on with the next device there.
AbandonBridge(n, mem) ==
    LET a == AssignFirst(here, n, mem)
        behind == here.range.base .. here.range.limit - 1
        lost == {c \in claims : c.bus \in behind \/ (c.id = here.id /\ c.part = "window")}
        cut == ppb_set_window_size(ppb_update_windows(here.window, a.mem), Granule)
        numbers == ppb_set_window_size(ppb_update_range(here.range, here.numbers), 1)
        bus == buses[Len(buses) - 1].bus
    IN
    /\ Len(buses) > 1
    /\ buses' = Front(buses)
    /\ claims' = claims \ lost
    /\ stranded' = stranded \union {r.id : r \in {q \in routes : q.sec \in behind}}
    /\ \/ /\ abandoned' = abandoned \union lost \union a.claims
          /\ Harm(FALSE)
          /\ UNCHANGED routes
       \/ /\ n = Len(here.todo)
          /\ abandoned' = abandoned \union a.claims \union Forwarded(here.id, bus, cut)
                \union {c \in lost : c.bus \in behind}
          /\ routes' = {r \in routes : r.id # here.id} \union {Route(here.id, bus, numbers)}
          /\ Harm(Unused(here, a.mem))
    /\ Memory(FALSE)
    /\ UNCHANGED devices

\* The end of pci_probe_bus for the bus of the host bridge, with an error if not
\* all BARs are assigned, and of f_probe_pci.
Finish(n, mem) ==
    LET a == AssignFirst(here, n, mem) IN
    /\ Len(buses) = 1
    /\ here.todo # <<>>
    /\ buses' = WithHere([here EXCEPT !.mem = a.mem, !.todo = <<>>])
    /\ claims' = claims \union a.claims
    /\ devices' = MaxDevices        \* nothing more is found
    /\ Memory(mem /\ n = Len(here.todo))
    /\ UNCHANGED <<routes, stranded, abandoned, damage>>

PciNext ==
    \E mem \in BOOLEAN :
        \/ \E size \in BarSizes, rom \in RomSizes, by \in Assigners :
              ProbeDevice(size, rom, by, mem)
        \/ \E bar \in BarSizes \union {0} : EnterBridge(bar, mem)
        \/ LeaveBridge(mem)
        \/ \E n \in 0 .. Len(here.todo) : AbandonBridge(n, mem) \/ Finish(n, mem)

PciSpec == PciInit /\ [][PciNext]_pciVars

-----------------------------------------------------------------------------
(* Properties.  They are about what the firmware has not given up, and hold  *)
(* until it does damage: when a bridge with nothing behind it is closed, its *)
(* base and limit cross and a negative size reaches the allocator; when a    *)
(* window begins with what a ROM had, it can be cut inside a granule.        *)

Span(c) == c.lo .. c.hi

ConflictFreeIn(C) ==
    \A c, d \in C : c.bus = d.bus /\ c # d => Span(c) \cap Span(d) = {}

\* No two devices on a bus answer to the same address, the windows of bridges
\* included: not while a bus is probed with a window as large as can be, not
\* after the windows have been cut down, and not when bridges are given up in
\* between, but for those.
NoConflict == damage = 0 => ConflictFreeIn(claims)

\* Not so for what is given up: TLC finds a device with addresses that such a
\* bridge forwards still.
NoConflictAtAll == damage = 0 => ConflictFreeIn(claims \union abandoned)

\* Configuration cycles find their bus: the bridges on a bus forward disjoint
\* ranges of bus numbers, inside the range of the bridge above.
BusesNest ==
    \A r, q \in {x \in routes : x.id \notin stranded} :
        /\ r.bus = q.bus /\ r # q => r.sub < q.sec \/ q.sub < r.sec
        /\ q.bus = r.sec => r.sec < q.sec /\ q.sub <= r.sub
        /\ r.sec <= r.sub

\* What has an address behind a bridge is reached through the bridges above it,
\* in configuration cycles as in all others (ppb_update_range, ppb_set_window).
Reachable == damage = 0 =>
    /\ BusesNest
    /\ \A c \in claims, r \in routes :
          r.id \notin stranded /\ c.bus = r.sec =>
              \E w \in claims : /\ w.id = r.id /\ w.part = "window"
                                /\ Span(c) \subseteq Span(w)

\* The blocks of a pool are in the space and not empty, they do not overlap,
\* and they are free: nothing on the bus
\* they are meant for has any of their addresses, but for the bridge that is
\* being probed, whose window is not taken from the pool yet.
PoolIsFree ==
    /\ PciTypeOK
    /\ damage = 0 => \A k \in DOMAIN buses :
          LET pool == buses[k].mem IN
          /\ \A i, j \in DOMAIN pool : i < j => Limit(pool[i]) <= pool[j].base
          /\ \A c \in claims :
                c.bus = buses[k].bus
                    /\ ~(k < Len(buses) /\ c.id = buses[k + 1].id /\ c.part = "window") =>
                Span(c) \cap Covered(pool) = {}

\* An address that nothing on the first bus has is in its pool again, unless
\* memory ran out: nothing that ROMs and windows took for a time is lost.
NothingLost ==
    Len(buses) = 1 /\ failures = 0 /\ damage = 0 =>
        Covered(MemPool) \ Covered(here.mem) \subseteq
            UNION {Span(c) : c \in {x \in claims : x.bus = 0}}
=============================================================================
