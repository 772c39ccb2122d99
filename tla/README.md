# SmartFirmware in TLA+

SmartFirmware is an Open Firmware (IEEE 1275) boot firmware in C.  This
directory holds TLA+ models of the parts of it whose correctness is not
apparent from reading one function, TLC configurations that check them, and
TLAPS proofs.  Paths below are relative to `src/bin/of` unless they start
with `src/`.

Contents: [system](#the-system) · [modules](#the-modules) · [runs](#the-runs) ·
[left out of the runs](#what-the-runs-leave-out-and-what-happens-there) ·
[fairness](#fairness) · [proofs](#the-proofs) · [not modelled](#not-modelled) ·
[plan](#plan)

## The system

The firmware is a single-threaded Forth engine with a tree of packages.  It
has no threads and takes no interrupts for its own work: devices are polled.
What makes it hard is not preemption but the world outside (networks and disks
that lose, repeat, delay and fail), long sequences of calls on structures that
live as long as the machine, arithmetic on addresses at the ends of their
range, and operations that fail half way.

| Component | Keeps | Operations | Hard | Correct when |
|---|---|---|---|---|
| allocator (`alloc.c`) | a sorted list of free blocks | fixed, first-fit, aligned, constrained allocation; free | wrapping multi-cell arithmetic, size 0 for "everything", splits and merges, `malloc` failing in the middle | the list always is the set of free addresses; each call takes or gives exactly the span it reports; nothing that fits is refused |
| `/memory` (`memory.c`) | an allocator and the property `available` | claim, release, installation | publishing may fail after the allocator has changed; the property pool is never given back to | what it reports as done is published; the firmware's own memory is never handed out |
| address configuration (`obptftp.c`) | our and the server's addresses, retry counts, DHCP state | BOOTP, DHCP, RARP, ARP, ping | lost, late, repeated answers of several servers; state left by a call that failed | a load asks the server of the lease it agreed on, at its Ethernet address; every wait ends |
| file transfer (`obptftp.c`) | current block, server port, retries | TFTP read | lost, repeated, reordered, late packets; acknowledging before copying | memory holds a prefix of the right file from one transfer; success means all of it; a load ends |
| deblocker (`deblock.c`) | one buffer, which blocks it holds, a position | open, close, read, write, seek | partial transfers, write-back, failing device | it behaves as a file of bytes |
| disk label (`disklbl.c`) | partition offset, child instance | open, load, close, offset | the device's error paths, freed state | the partition's offset is added exactly once |
| PCI address allocator (`pci/pcialloc.c`) | two-word free lists | allocate, allocate at, free, find the largest | alignment inside of blocks, two words | as the allocator |
| PCI and PPB enumeration (`pci/pci.c`, `pci/ppb.c`) | pools, bus numbers, windows of bridges | probing, assignment of addresses | bridges within bridges, whose windows are cut to size after the fact; pools that run out | no two devices overlap; each is reachable through the bridges above it and no others; nothing is lost |
| MMU nodes (`edb7312/cpu-arm.c`, `edb7312/mmu.c`, `amd64/`) | a list of translations, page tables | claim, map, unmap, release | the same mapping kept twice; regions that cut others; sections converted into pages; failures in between | both describe the same mapping; a call changes its own region only |
| device tree, packages, instances (`device.c`, `packages.c`, `table.c`) | the tree, current instance | open and close of chains, properties | opening half of a chain | what was opened is closed, in reverse order |
| Forth engine (`exec.c`, `control.c`, `forth.c`, …) | stacks, dictionary, exception frames | execute, compile, catch, throw | errors through nested calls | stacks and input are what they were at the catch |
| client interface (`client.c`) | callbacks | services | calls into the client and back | arguments are checked before use |
| NVRAM (`nvram.c`, `admin.c`, `edb7312/flash.c`) | configuration variables, an image of them, a log in flash | setenv, set-defaults, boot | power failure, refused writes, the end of the log | what was set is there after a boot; a crash leaves the old or the new settings |
| flash (`gflash.c`, `flash_*.c`) | command state of the chip | erase, program | time-outs | what verify accepts was written |
| console (`display.c`, `fb.c`, `cmdio.c`) | terminal state, history | output, editing | escape sequences in pieces | the cursor stays on the screen |
| USB (`usb/`) | hub and transfer state | enumeration, transfers | devices that go away | no transfer outlives its device |
| network drivers (`isa/ne2000.c`, `pci/decether.c`, …) | rings and descriptors shared with a card | open, read, write, close | the card works on the same registers and memory | a packet is read whole, in order and once; what is reported sent was sent |
| other drivers, loaders, file systems, boards, tools | | | | |

How they interact.  A boot over the network opens an obp-tftp instance on top
of a network driver, configures addresses, loads the file to an address
claimed from `/memory` (and the MMU node), and starts it; the program calls
back through the client interface and claims and releases memory itself.  A
boot from disk goes through disk-label and a file system to the deblocker,
which calls the disk driver's `read-blocks` and `write-blocks`.  `/memory`, the
MMU nodes rest on allocators; PCI has one of its own.  Calls between packages are method
calls by name, synchronous; shared state is the device tree.

## The modules

| Module | Models | Role |
|---|---|---|
| `FreeSpace` | – | abstract specification: a set of free addresses that calls take from and give to |
| `Alloc` | `alloc.c` | the allocator, implements `FreeSpace` |
| `AllocBelowTop` | – | the assumption about `Alloc` that its proofs rest on |
| `MemoryNode` | `memory.c` | composes `Alloc` with the property `available` and the property pool |
| `AllocProofs` | – | theorems about `Alloc`: its invariant, the refinement, what is refused and what is handed out; and, on those, about `MemoryNode` |
| `NetConfig` | `obptftp.c` 790–1771, 2027–2513 | who we are and whom to load from |
| `NetConfigProofs` | – | theorems about `NetConfig` |
| `Tftp` | `obptftp.c` 1775–2022 | the transfer that follows |
| `TftpProofs` | – | theorems about `Tftp` |
| `ByteFile` | – | abstract specification: a file of bytes with a position |
| `Deblock` | `deblock.c` | the deblocker, implements `ByteFile` |
| `Mapping` | – | abstract specification: what each virtual page is mapped to |
| `PageTables` | `edb7312/mmu.c` 206–577 | sections, tables of pages and the walk over them, as operators |
| `Mmu` | `edb7312/cpu-arm.c` 353–709, `edb7312/mmu.c` 685–858 | map and unmap: the list of translations and the page tables, implements `Mapping` |
| `MmuProofs` | – | theorems about `Mmu` |
| `PciAlloc` | `pci/pcialloc.c` | the free lists of PCI addresses, as operators |
| `PciProbe` | `pci/pci.c` 970–1183, 1797–2342, `pci/ppb.c` | probing of a tree of buses, on `PciAlloc` |
| `PciProbeProofs` | – | theorems about `PciProbe` and, for that, about the lists of `PciAlloc` |
| `EtherLink` | – | abstract specification: what an Ethernet device promises the packages above |
| `Ne2000` | `isa/ne2000.c` 898–1204 | the NE2000 driver and its card, implements `EtherLink` |
| `DecEther` | `pci/decether.c` 605–1021 | the DEC 2104x driver and its chip, implements `EtherLink` |
| `Ether` | – | composes them: a station with either card |
| `EtherProofs` | – | theorems about `Ether`, the refinement among them |
| `Nvram` | `nvram.c`, `admin.c`, `table.c` 1083–1129, `edb7312/flash.c` 603–744 | configuration variables and the log in flash |
| `StorageProofs` | – | theorems about `Deblock`, the refinement among them, and about `Nvram` |
| `Instances` | `device.c` 1031–1786, `packages.c` 132–215, `table.c` 475–537, `isa/atadisk.c` 702–815 | opening and closing chains of instances |
| `InstancesProofs` | – | theorems about `Instances` |
| `MCAlloc`, `MCAllocBelowTop`, `MCMemoryNode`, `MCNetConfig`, `MCTftp`, `MCDeblock`, `MCDeblockWholeBlock`, `MCMmu`, `MCPciProbe`, `MCEther`, `MCNvram`, `MCInstances` | – | instances for TLC |

Names of operators and variables are those of the code where TLA+ allows.
An operator whose comment begins with "Mutant" or "Mistake" is a wrong version
of the definition after it, of a kind that is easily made.  Putting it in the
place of the right one makes a property of the runs fail, which shows that the
property depends on that code; no specification uses it.

### Alloc

`list` is `a->list`, a sequence of blocks `[addr, size]`; `res` is the call
that returned last, with its arguments and result.  Each call of the interface
is one action: `alloc_fixed`, `alloc_block`, `alloc_constrained` (of which
`alloc_aligned` is a case) and `free_block`.  The three searching calls end in
`alloc_fixed`, as in the code.  Addresses and sizes have `acells` and `scells`
32-bit cells in the code; here they are numbers below `AddrMod` and `SizeMod`,
and every addition, subtraction and comparison wraps where the cell arithmetic
does.  A size of 0 is the full size, as documented in `alloc.c:53`.  A
`malloc` that fails is a second outcome wherever the code calls it.
`StopsAt` is the walk over the list; `AllocAtStart` and `AllocInside` are the
two halves of `alloc_fixed`; `MoveUp` and the operators around it are the
window that `alloc_constrained` moves up by the minimum and the alignment.

`FreeSpace` knows only which addresses are free.  `ImplementsFreeSpace` says
that every call of `Alloc` maps to taking a free span, giving a span that was
not free, or changing nothing.

### MemoryNode

Adds `avail` (the property), `proplen` (the break of the property pool, which
`prop_alloc` in `table.c` only moves up), and `base` and `ret`, what a method
leaves and returns.  `install_memory` is two actions, since other code runs in
between: all memory becomes free (`InstallRegion`), then the part `malloc`
works in is claimed (`ReservePool`).  A client's `claim` or `release` is the
allocator call *and* `make_available`, which fails when the pool is used up.

### NetConfig

`pc` names the loop that is reading packets: `bootp` and `rarp`, `arp`
(`get_arp_info` within `get_bootp_info`), `ping` (within `do_ping`) and
`echo`; `loading` is where `Tftp` takes over.  Variables are the fields of
`struct self`, and the static `dhcp_state`, which survives a close.  `sent` is
the set of all packets ever sent, and any answer that the protocol lets a
server give to any of them may arrive at any later time, again and again, or
never.  Each action is what one packet, one time-out or one error does in the
loop that sees it.  `process_arp` runs in all of them, so a late ARP reply may
arrive anywhere.  A call that fails leaves the addresses as far as it came,
and the next starts from there.  Transaction numbers come from `rand()` in the
code and are taken to be distinct.

### Tftp

One step of the client is one turn of the loop of `get_tftp_file`: a packet, a
time-out or an error from `tftp_get_reply`, and all that is done about it.
Only the block that is wanted takes two: `take_block` counts and acknowledges
it (`obptftp.c:1980`), `copy_block` copies it to memory (1994), and the server
may act on the acknowledgement in between, or it may not get out at all.
`stored` records where each block copied to memory came from.  The server and
the network are external.  A server answers each request it sees on a new port
and then works in lock step.  `network` says
which of the `Networks` of the instance the client is on: a `hostile` one
repeats and reorders packets and need not deliver them, and the interface may
fail; with `strangers` other hosts send to our port; on any other network
packets arrive before a timer runs out, but for `losses` of them.  ACK packets go only to `port`, so they do not say which
request they are for.

### Deblock

`dev` is the device, `buf`, `currblock` and `modified` the buffer, `blocknum`
and `offset` the position.  `do_io` is one turn of the loop of the code:
flush, read and copy, for as much as the buffer holds.  Bytes are the numbers
of their places, `Fill` for what was written and `Junk` for what nobody filled,
so a byte from a wrong place is seen.  `spoilt` remembers that the buffer has
once been taken for what it is not: whole blocks were written without a read
before them, a transfer was short, a failed read changed the buffer, or a call
asked for nothing.  The model goes on to the end of the call that did it, and
with `Followed` beyond.  `use` says which of the `Uses` of the
instance the callers make: where they seek to, how much they transfer, and
whether the device, which transfers the blocks it has, may refuse at any time.

`ByteFile` has the bytes a reader would get and those on the device, and lets
the first reach the second at any time and at the latest at close.

### Mmu

`translations` is `g_translations`, `tables` the page tables.  `f_mmu_map` and
`f_mmu_unmap` change the list first, by `remove_translation` and
`add_translation`, and then the tables, by `map_region` and `unmap_region`, in
one action: nothing runs in between.  A failing `malloc` of the list is a
second outcome, which the code does not look at; `lost` remembers the pages for
which the list may be wrong since then.  Callers may map and unmap any region,
also one that reaches past the end of a translation that starts in it, which
`remove_translation` does not foresee; `damage` counts the calls from the first
such on.  Regions are counted in pages, a
section is `SectionPages` of them, and sums wrap where those of the code do.
Once the loaded program has set a callback that answers, both calls go to it.

`Mapping` is a function from pages to frame and mode.  `ImplementsMapping`
says that the tables change as a map or unmap of one region says.

### PciProbe

`buses` is the recursion of `pci_probe_bus` written as a stack: the pools that
are left, the devices that wait for addresses, and the window and bus numbers
of the bridge in front.  `claims` is what is decoded on which bus, `routes`
which bus numbers a bridge forwards.  Finding a device, a bridge, or nothing
more are actions, so every arrangement of devices is met.  A bridge gets the
largest window there is, its bus is probed, and the window is then cut to what
was used (`LeaveBridge`).  `PciAlloc` has the free lists, with `malloc` failing
in any step.

`ppb_probe_pci_bridge` can also return early, with the bridge enabled:
`AbandonBridge` is its error returns at `ppb.c:610`, 617, 626, 645 (the window
is whole still) and 697 (it has been cut).  The pool above keeps what the bridge
forwards, `pci_probe_bus` goes on with the next device, and what the bridge and
the devices behind it decode goes from `claims` to `abandoned`.  `stranded` is
those bridges and the ones that got no bus number.  `damage` counts two things
from which the pools do not recover: a bridge with nothing behind it that is
closed, and FCode that has its device's addresses assigned while the ROM it is
in has some.

### Ether

`EtherLink` has what was `heard` on the wire and `got` by the caller, what was
put on the `wire`, `told` to be sent, and `wanted`.  In `Ne2000` each access to
the registers between which the card can do something is a step, and so is
each thing the card does: it receives page by page, and the ring, its pointers
`bnry` and `curr`, and the interrupt bits are its own.  The reset of the ring is
four steps (`StopCard`, `SetBoundary`, `SetCurrent`, `Restart`), during which a
packet that has begun to come in goes on doing so.  `astray` remembers that the
pointers have once not told what the ring holds: a packet was coming in when
`curr` was set, or ended at the boundary.  In `DecEther` the chip
takes its descriptor, works on the buffer, and gives it back, while the driver
polls.  `Ether` has a station with one card or the other.

### Nvram

`options` is `/options`, `image` the copy of NVRAM in memory, `log` the records
in flash.  `setenv` changes the first two and then goes through
`machine_nvram_write`: find the place, erase if there is none, write.  Some
commands save two variables, and `pending` is the one whose turn comes next:
after `security-mode`, whatever became of it, `$setenv` sets
`security-#badlogins` to 0 (`admin.c:195`), and `password` does so before it
saves `security-password`, which is not kept in `/options`.  The board is one
whose defaults have these variables (as `coldfire/machdep.c`).  Power fails
between and within these steps (`Crash`), writes fail (`WriteFails`), and memory
for a property of `/options` may be missing (`Fails`), half-way through
`set-defaults` too.  What `store_nvram` does not look at, nobody else does.
`refused` is the variables whose value is in `/options` and not in the image.

### Instances

`insts` is every instance ever made, numbered in that order, with 0 for NULL.
`phase` is what became of it: its `open` may have succeeded or failed, its
`close` may have been run; `live` says whether its memory is still allocated.
A deleted instance remembers only its phase.  `currinst` and `currpkg` are
`my-self` and the active package.

`call` is the activation of `resolve_path` or of `f_close_dev`: where in it we
are, the rest of the path, the nodes the path has skipped that are still to be
opened, and `my-self` and the active package as they were.  A turn of its
loops is an action.  `NewAndOpen` is `create_new_inst` and the `open` method,
whose result is the step's choice; a disk's method opens `/packages/deblocker`
and `/packages/disk-label` in turn and closes the first when the second fails.
A method may ask for an interposer, `Interpose` puts it on top.  `CleanExit`
and `CloseParent` are the way back when something fails.  `end-package` and
`close-dev` walk down a chain by `CloseNext`; `prompt` is what callers outside
have set `my-self` and the active package to.

`begin-package` opens a device and runs `new-device`, which makes a node below
it: `my-self` is then an instance that the new node has before it is opened
(`InitInst`), with the opened device as its parent (`packages.c:957`).
`finish-device` makes that parent `my-self` again and `end-package` closes it.
`node` has what the two parents are.  `f_close_dev` compares only `my-self`
with what it closes, so a caller can close the device in between; `misused`
remembers that one has.

`mishap` is what may go wrong besides `open` methods of nodes named in a path:
`missing`, no node has the name; `chain`, a skipped node fails; `memory`;
`interpose`, a method asks for an interposer and then fails.  It is chosen at
the beginning, so that each property can say which of them it holds under.

## The runs

| Run | Checks | Shows | Distinct states |
|---|---|---|---|
| `AllocBelowTop` | `TypeOK` `ListOK` `HonestRefusal` `LowestFit` `ImplementsFreeSpace` | five addresses, all spans, the full size, minimum, maximum, alignment and mask, callers who free what is free | 3 140 |
| `MemoryNode` | `NodeTypeOK` `PoolReserved` `SuccessIsPublished` | installation, then any calls until the property pool is used up | 30 989 |
| `NetConfig` | `TypeOK` `LeaseIsAgreed` `OneSource` `RightMac` `Terminates` | two openings, two calls, two servers, one that loads from elsewhere and one behind a router, all protocols | 132 239 |
| `Tftp` | `TypeOK` `StoredIsPrefix` `OneTransfer` `AckedIsStored` `EofIsComplete` `Terminates` `Delivers` | two loads, two files, late packets of the first in the second; or a network that answers in time with three packets lost and two repeated | 77 936 |
| `Deblock` | `CacheCoherent` `ImplementsByteFile` `IoReturns` | calls up to and past the end of a sound device; positions inside of blocks and buffers on one that fails at any time and then may have changed the buffer | 551 902 |
| `Mmu` | `ListInOrder` `ListMatchesTables` `ImplementsMapping` | any maps and unmaps of regions over sections and pages, those included that swallow a translation, an allocation failing, the callback | 129 794 |
| `PciProbe` | `NoConflict` `Reachable` `PoolIsFree` `NothingLost` | every arrangement of up to four devices and bridges, bridges given up, pools that run out or are damaged | 110 013 |
| `Ether` | `EtherTypeOK` `ImplementsEther` `SendReturns` | either card, four packets heard at any step, two sent, errors, two openings | 550 558 |
| `Nvram` | `Kept` `OldOrNew` | three variables, a log of four records, two losses of power and two failures | 803 854 |
| `Instances` | `UsedIsLive` `NothingLeft` `WellFormed` `SelfRestored` `CloseInOrder` | paths that name, skip or miss nodes above a disk, interposers, failing methods and every mishap, nodes being made, three calls | 2 427 407 |
| `DeblockWholeBlock` | `WriteIsSeen`, fails | a write that covers whole blocks | |
| `NvramFull` | `Kept`, fails | a log that ends close to the end of NVRAM | |

A type invariant that no row names is a conjunct of the first or the widest
property of its row (`CacheCoherent`, `ListInOrder`, `PoolIsFree`, `OldOrNew`,
`WellFormed`).

Two runs fail, because the code does not do what it or the manual says:

* `DeblockWholeBlock`.  The read is skipped when the request covers whole
  blocks, and with it the update of `currblock` (`deblock.c:292`–`321`).  The
  bytes then go to the wrong place, or out of the buffer.
* `NvramFull`.  `nvram_offset` looks for the next record by reading six bytes
  after the last one (`edb7312/flash.c:616`).  When a record ends less than six
  bytes before the end of NVRAM, that read fails, and so does every later
  `machine_nvram_read`: all settings are back at their defaults.

### Bounds, and why they are enough

* Allocator: a request depends on at most two neighbouring blocks.  Five
  addresses allow three blocks with gaps, so each of the four ways to split and
  the four to merge happens at the beginning, in the middle and at the end of
  the list; alignments 1, 2 and 4 and a minimum inside a block make each
  branch of the walk happen.  The proofs do away with the bounds.
* `MemoryNode`: a pool of 30 ints runs out after some six calls.
* `NetConfig`: two servers are what mixing takes; two calls, with a failure of
  the first possible at every point, are what stale state takes; a second
  opening makes answers to the first arrive in it.  Two retries let a time-out
  be followed by both an answer and the end.
* `Tftp`: three blocks have a first, a middle and a last; two loads let
  packets of the first arrive in the second; four sessions let a request be
  answered twice in each.  `BlockMod` stands for 65536 and is larger than any
  file here.
* `Deblock`: two bytes a block, two blocks a buffer and four on the device let
  a request begin and end anywhere in a block, span two buffers, and meet the
  end of the device.
* `Mmu`: a region over sections of two pages begins and ends at a section
  or inside one, covers whole sections, and finds them unmapped, mapped as a
  section or as a table.  `MaxDamage` lets one call follow the one that has
  swallowed a translation.  Two modes and two distances of frame and page make
  neighbours that may and may not be merged.
* `PciProbe`: four devices allow a bridge behind a bridge with devices before,
  behind or after them; 24 addresses in granules of four and three bus
  numbers let each pool run out.  One step that fails and one that does damage
  can come at any place among them.  With five devices the run passes too, on
  1 055 462 states.
* `Ether`: packets of two and three pages fill a ring of seven exactly, but for
  a rest, or find no room; a second opening finds what the first left.
* `Nvram`: four records fill the log, so that a change meets an empty, a
  partly filled and a full one; the second loss of power comes after a
  recovery from the first.  The three variables are those that commands save
  together, and the one that is not kept in `/options`.
* `Instances`: a disk two nodes below a child of the root, so that a path may
  skip none or two of them, and a skipped node may fail below another; an
  interposer named in the path and one that a method asks for; three calls, so
  that a second chain shares nodes with the first and a third finds what a
  failed call has left.  Twelve instances are what two whole chains with their
  helpers take.

Deadlock checking is off: calls are bounded, and the firmware may be idle.

## What the runs leave out, and what happens there

The code goes wrong on some inputs that it accepts.  The runs and the proofs
exclude these by an assumption on the callers, or they let them happen and the
properties speak of what comes before (`spoilt`, `damage`, `astray`,
`misused`): from there on nothing is shown.  Each case can be seen by changing
a few lines of a configuration:

| Change | Fails | Because |
|---|---|---|
| `AllocBelowTop.cfg` with `MCAlloc`: `Base = 0`, `Limit = 8`, `CarefulCallers = TRUE` | `ListOK`, `ImplementsFreeSpace`, `HonestRefusal` | `alloc_fixed` compares ends of spans after the addition has wrapped (`alloc.c:463`): a request that ends at the last address is taken from a block that does not hold it, and one inside a block that ends there is refused.  The virtual allocators of ARM and amd64 have such blocks |
| the same, and `FixedReqs <- Block` | `ImplementsFreeSpace` | `alloc_fixed` of the full size at address 0, where a smaller block starts, subtracts 0, succeeds and takes nothing (`alloc.c:428`) |
| `AllocBelowTop.cfg` with `MCAlloc`: `AddrMod = 16`, `SizeMod = 4`, sizes up to 3, `CarefulCallers = TRUE` | `ImplementsFreeSpace` | merging adds sizes in `scells` cells; where that is fewer than `acells`, the sum of two large blocks wraps (`alloc.c:772`) |
| `NetConfig.cfg`: `LoadAfterPing = TRUE`, `MCNetConfig` extending `NetConfig` | `RightMac` | `ping` leaves the pinged host as the server; a later load on that instance does not configure itself again (`obptftp.c:2066`) |
| `NetConfig.cfg`: `INVARIANT AskedIsHeard` | it | `send_arp` asks for the gateway when there is one (`obptftp.c:854`), `process_arp` accepts only the server's reply (914): a load through a gateway never gets past ARP |
| `Tftp.cfg`: `Networks <- OneNetwork`, `INVARIANT SuccessIsComplete` | it | a packet that is not wanted counts as a retry and leaves `r` at `PKT_TFTP` (`obptftp.c:1940`); if it uses up the last retry, `load` reports part of the file as all of it |
| the same with `Prompt` without losses, `BlockMod = 3`, `MCTftp` extending `Tftp` | `SuccessIsComplete` | the block number of a packet has 16 bits, `currblock` has 32; a file of 65536 blocks or more ends early as a success (1925) |
| `MCNetConfig`: `MCNextServer == (a :> b) @@ (b :> f)`, `NetConfig.cfg`: `Relay <- NoRelay`, `Silent = {}`, `MCNetConfig` extending `NetConfig` | `RightMac` | servers that send on to servers: a load that has failed is repeated at the server the first one named; its late ARP reply sets `server_mac` (911), its answer another `server_ip`, and the Ethernet address, being known, is kept (1461) |
| `MCDeblock`: 0 among the `lens` of `ToTheEnd` | `IoReturns` | neither branch of the loop ends it when nothing is left (`deblock.c:352`–`376`) |
| `Deblock.cfg`: `Followed = TRUE`, and `CacheCoherent` without `~spoilt` | it | after a short transfer at the end of the device the in-memory path takes the whole buffer to be filled (281), a failed read that has changed the buffer leaves `currblock` as it was (303), and a write of whole blocks does, too (320) |
| `Mmu.cfg`: `INVARIANT RemovedIsGone` | it | a region that begins before a translation and ends behind it: the translation's size underflows (`cpu-arm.c:384`), against "reduce the size of t so that it no longer intersects" (382) |
| `PciProbe`: `damage` not looked at in `PoolIsFree` | it | a bridge with nothing behind it: `ppb_update_windows` cuts free blocks off both ends of a window, and when all of it is one free block, base and limit cross (`ppb.c:382`–`390`); `pci_allocate_fixed_block` is asked for a negative size, and the region goes back to the pool that has it already |
| the same, and `~Unused(here, a.mem)` a guard of `LeaveBridge` and `AbandonBridge` | it | FCode that has its device's addresses assigned while the ROM it is in occupies some: the hole the ROM leaves at the front of a window is cut off (`ppb.c:382`), and the bridge, which forwards whole granules, also answers to addresses that are back in the pool |
| `PciProbe.cfg`: `INVARIANT NoConflictAtAll` | it | a bridge is probed and given up (`ppb.c:610`–`697`); it forwards its window still, the pool above has all of it, and the next device gets an address in it |
| `Ether.cfg`: `PROPERTY LinkSpec` for `ImplementsEther` | it | a packet that fills the ring exactly makes it look empty (`ne2000.c:1104`), and the next is written over what is being copied: it is read garbled |
| the same, and `Sizes = {2, 4}` | it | a packet that is coming in when `curr` is set (1137) ends where `curr` was before, and the ring is found with an old packet in front, which is delivered again; the comment at 174–180 warns of it |
| `Nvram.cfg`: `Torn = TRUE` | `OldOrNew`, `OnlyWholeRecords` | a header that was written without what follows it is taken for a record; against the comment at `nvram.c:66`, by which the magic bytes are written last; `store_nvram` puts them in front (101), and the checksum is never compared |
| `Instances.cfg`: `INVARIANT UsedIsLiveAtAll` | it | `begin-package`, `close-dev` of the device it opened, and `my-self` has a parent that is freed (`device.c:1728` compares `my-self` only); `finish-device` makes that `my-self`, and `end-package` closes it again (1773–1783) |
| `Instances`: `mishap` not looked at in `NothingLeft` | it | a path that names no node, or whose skipped nodes do not open, or that runs out of memory, has its innermost instance deleted without being closed, though it is open (`device.c:1499`, `1513`); against "clean up any open instances" (1573) |
| the same in `AllAncestors` and `CloseInOrder` | `WellFormed`, `CloseInOrder` | a skipped node that fails is NULL for the next, which is opened on top of nothing (1316): `open-dev` returns a device without the nodes above it; the failed instance is closed, or left |
| the same in `SelfRestored` | it | without memory for an instance, `resolve_path` returns at once (1417) and leaves `my-self` and the active package where it was |
| the same in `InterposedWhereAsked` | `WellFormed` | an interposer that was asked for by a method that then failed stays scheduled and gets on top of the next instance (1207) |

The models also contain, without a property that forbids it:

* A seek that flushes returns without pushing its status (`deblock.c:243`), and
  close ignores that the device has not taken the data (181).
* When the property pool is used up, `claim` and `release` return
  `E_OUT_OF_MEMORY` although the allocator has changed, and `available` stays
  behind for good (`memory.c:85`).  `SuccessIsPublished` speaks of success only.
* `make_available` reserves two ints for each block but writes
  `cells + scells` (`memory.c:81`, `91`); with two of each, as on amd64, it
  writes past what it reserved.
* `ping` without an address uses the server's before it is known
  (`obptftp.c:2142`); the server is taken from `siaddr` even when that is zero
  (1449); an ERROR packet from any host ends a load (1930).
* A bridge that gets no bus number keeps those its registers were given
  (`ppb.c:592`).  One that is given up keeps its bus numbers as well as its
  window, and the next bridge on its bus gets the same ones: configuration
  cycles for the second reach both.
* `f_ne2000_read` drops all packets but the first (`ne2000.c:1133`), and leaves
  the card stopped when the ring looks empty (1104).
* The wait of the DEC driver ends on trouble with the link while the chip still
  owns the descriptor (`decether.c:1000`): the packet is reported as not sent,
  and may be sent twice.
* `f_open_package` never deletes an instance whose `open` failed, pops a result
  even if the method threw, and returns `NO_ERROR` (`packages.c:173`–`181`).
  NAND's `open` leaves the deblocker open when the label fails
  (`edb7312/nand.c:239`); the IDE disk's closes it, and `NothingLeft` rests on that.
* Changing a variable that does not fit into NVRAM fails after `/options` has
  the new value (`table.c:1123`).  After a boot that skips NVRAM a single
  `setenv` stores an image without all other settings.

## Fairness

* `Tftp`: weak fairness of the client.  `tftp_get_reply` polls until a packet
  comes or its time is over by `get_msecs`, so the loop of `get_tftp_file`
  always takes a further step.  On a network that answers in time the server does too, and
  the interface discards what nobody reads.  Nothing is assumed of the
  hostile network.
* `NetConfig`: weak fairness of the client, for the same reason: time-outs are
  measured from the last request that a *time-out* sent, and answers, refusals
  included, do not restart them.  Nothing is assumed of the servers.
* `Deblock`: weak fairness of `do_io`, a loop that simply runs.
* `Ether`: weak fairness of the drivers' loops, and of the cards for what they
  have begun: a transmission or a reception ends, with or without an error.
  That a card begins to receive is not assumed.  The code relies on this, as
  its loops have no time-out.
* `Mmu`, `PciProbe`, `Nvram`, `Instances`, `MemoryNode`: safety only; every call is a bounded
  number of steps.

## The proofs

`AllocProofs` proves, for any `AddrMod`, any requests and any length of
history:

* `TypeCorrect`: `Spec => []TypeOK`
* `Canonical`: `Spec => []ListOK`, the list is sorted, disjoint, merged and
  within the space
* `Refinement`: `Spec => ImplementsFreeSpace`

They assume `BelowTop`: as many sizes as addresses (`SizeMod = AddrMod`), no
request that ends at the last address, and none that is empty, that is, of the
full size, but for fixed requests of the full size above address 0, which are
refused.  This is how `/memory` uses the allocator on 32-bit boards; the table
above shows what happens otherwise.  The instance of `AllocBelowTop` meets the
assumption, and TLC evaluates it there.

The argument.  `ListOK` by itself is not inductive: free blocks of size 0 would
have length `AddrMod`, and the ends of blocks that touch the last address
wrap.  The invariant `IInv` therefore says that the list is `Good`: every
block has a positive size, ends below the last address, and ends before the
next one starts; and that `res` is well typed.  In a good list no addition
wraps, so:

1. `FitFacts` and `MoveUpFacts`: a window that `alloc_constrained` accepts lies
   inside its block.
2. `AllocAtEffect`, `FreeEffect`, and from them `ConstrainedEffect` and
   `BlockEffect`: each call keeps the list good and changes the set of free
   addresses by exactly the span it reports, or changes nothing.  Each way to
   split or merge is a case.
3. `StepEffect` collects the calls; `IInvInit` and `IInvNext` give the
   invariant, and `AbstractInit` and `AbstractNext` the refinement.

From the same invariant follow

* `RefusalsAreHonest`: `Spec => []HonestRefusal`
* `FitIsLowest`: `Spec => []LowestFit`

A span of free addresses lies inside one block, since blocks that touch are
merged; so a suitable span lies in a block that the search looks at.  In a
block, the window `alloc_constrained` arrives at is the lowest multiple of the
alignment above the minimum and the block's beginning, and a block is given up
only when no such window is in it.  The first block that fits exists because a
non-empty set of naturals has a least element (`Least`), and blocks before it
lie below it.

Its second part proves of `MemoryNode` `NodeTypeCorrect`, `PoolStaysReserved` and
`SuccessPublished`, which are `NodeTypeOK`, `PoolReserved` and
`SuccessIsPublished` for any memory.  They assume, with `BelowTop`,
`ClientsKeepOff`: memory and pool end below the last address, and nobody
releases the memory of `malloc()`.  The invariant `NodeInv` adds to `IInv` that
no address of the pool is free, and, in `Published`, what the last method that
succeeded did to the list; each method is taken apart into the effect of the
allocator's call, from the first part, and `make_available`.

`TftpProofs` proves, for any files, any network and any number of loads,

* `TransferTyped`, `PrefixStored`, `FromOneTransfer`, `AckedAreStored` and
  `EofMeansComplete`: `TypeOK`, `StoredIsPrefix`, `OneTransfer`, `AckedIsStored`
  and `EofIsComplete`

from `ShortFiles`: no file has as many blocks as there are block numbers (the
table above shows the need).  None of these is inductive, because they do not
speak of packets on their way.  `TftpInv` does: a DATA packet belongs to a
session and is of a block that session has come to; an ACK for our port names
the session that `port` names, and a block that is stored or is being copied
(`Received`); a session with our port is for the file asked for, and one block
further than that at most.
Packets of earlier loads carry other ports, which are never used again, so they
satisfy this by their port alone.  Given it, the only DATA packet that
`get_tftp_file` can accept is the next block of that one session.

`NetConfigProofs` proves, for any servers, any arguments of `open` and any
number of calls,

* `ConfigurationTyped`, `LeasesAgreed`, `FromOneSource` and `MacIsRight`:
  `TypeOK`, `LeaseIsAgreed`, `OneSource` and `RightMac`

from `Settled`: callers open the package again after a ping; a server that
another one sends us to does not send us further; a server given to `open` that
answers BOOTP itself names itself.  The first two are needed, as the table
above shows.  The invariant `NetInv` says what a call may have left behind:
either nothing (`Fresh`), or what the caller gave (`ByUser`), or what one
answer said (`ByBootp`, `ByRarp`), the Ethernet address being unknown or that
of the server in each case (`Sources`).  A BOOTP call that finds something from
an answer asks that server only, and not by broadcast; the answers it can then
get in its transaction are of that server, so what they change agrees with what
is there (`OnlyThatServer`).  Packets carry the transaction number of their
call, which keeps answers to earlier calls out (`Transactions`); `Leases` is
what is known of our address once it has been agreed on.

`StorageProofs` proves of the deblocker, for any sizes of block, buffer and device and any
callers,

* `BufferCoherent`: `Spec => []CacheCoherent`
* `FileOfBytes`: `Spec => ImplementsByteFile`

without any assumption on the callers, but only until the buffer is spoilt:
`CacheCoherent` begins with `~spoilt`, and `ImplementsByteFile` lets the step
that spoils it, and those after it, be anything.  The table above and
`DeblockWholeBlock` show that each of the four things that spoil the buffer does
break the properties.  The invariant `DInv`, which holds as long as `spoilt` is
false (`Sound`), says where the position may be: inside of a block, or further
on but then inside of the buffer (`Placed`), which is how the code leaves it
after a short transfer; and that what is buffered and not to be written is what
the device holds (`Coherent`).  `FlushFacts` says that a flush writes the whole
buffer or nothing.  One lemma, `TransferStep`, covers the copy, whether the
buffer was there or has just been read (`CachedStep`, `ReadStep`): a turn of the
loop moves as many bytes as the file of bytes does in one `Move`, and what is
buffered goes on to hold what a reader would get.

Of the configuration variables `StorageProofs` proves, for any variables, any
lengths of their values, any size of NVRAM from 8 bytes on and any number of
failures and losses of power,

* `KeptInSight`: `NvramSpec => [](InSight => Kept)`
* `OldOrNewInSight`: `NvramSpec => [](NvramTypeOK /\ (InSight => OldOrNew))`,
  when no header is torn (`~Torn`)

where `InSight` says that `nvram_offset` finds the last record again: the log
is empty, or it ends where another header would still fit.  It is a condition
on the state and not on the lengths, so the theorems are about all logs;
`NvramFull` shows one that is not `InSight`, on which `Kept` fails.  `KeptInv`
says that `/options` and the image disagree only where a value has not got into
the image, for want of room or of memory (`OptionsAgree`), and that what a restart reads when the machine is idle is the
image, unless a write has failed (`LastIsImage`); neither needs the lengths, so
that torn headers are allowed.  `LogInv` adds that each record is the record of
an image (`LogWhole`), so that what is read is one, and that a record that is to
be written fits (`Fits`), for which the lengths are added up: `TotalEquation`
shows that the recursion of `Total` has a solution, and `TotalAppend` what a
further record adds.  `BeforeOrAfter` is the rest of `OldOrNew`; it is kept by
each step alone, since the log only changes to the empty one or by a whole
record.

`EtherProofs` proves, for any size of ring and any number of packets, errors
and openings,

* `EtherTyped`: `EtherSpec => []EtherTypeOK`
* `EtherPromised`: `EtherSpec => ImplementsEther`

The first holds whatever arrives, also while the ring is reset.  The second
promises what is sent for good, and what is read until the pointers of the ring
go `astray`: a packet was coming in when the driver set `curr`, or ended at the
boundary.  The table above shows that the code does not keep the promise beyond.
The invariant rests on an observation about the driver: since it resets the ring
after each packet, the boundary never moves and nothing in the ring ever wraps.
So, until the pointers go astray, the ring holds the packet to be read from its
first page on, newer than all that were read (`Ring`), and behind it the one
that is coming in (`Incoming`).  After that only the types and what is known of
the sending side are kept (`Sound`): the
transmitter's interrupt bits can only be those of the packet that `write` waits
for (`Outgoing`).  Of the DEC chip, a descriptor that has been handed back holds
a whole frame not yet read (`Received`), and the frame being sent is the one in
the descriptor (`Sent`), which is why a wait that ends early, on the link bit,
does no more harm than a duplicate.

`InstancesProofs` proves, for any device tree, any paths and any number of
instances and calls,

* `UsedStaysLive`, `NothingIsLeft`, `IsWellFormed` and `SelfIsRestored`:
  `UsedIsLive`, `NothingLeft`, `WellFormed` and `SelfRestored`
* `ClosedInOrder`: `InstSpec => CloseInOrder`

from `ProperTree`: the tree is finite, no node is above itself, and nodes,
interposers and the two helper packages are different things.  All five are
said until a caller closes the instance below which it makes a node
(`misused`), and each until one of the mishaps that the code does not survive:
`NothingLeft` where every name is found, no skipped node fails and memory
suffices; `WellFormed` where no skipped node fails, memory suffices and no
method asks for an interposer and then fails; `SelfRestored` where memory
suffices; `CloseInOrder` where no skipped node fails and memory suffices.  The
table above shows each of these exceptions.  The invariant
`InstInv` has a part for each thing that could go wrong.  `Shape` is what an
instance knows of others: its parent is older, its helpers came right after it.
`ChainsOK` says which instances belong to which ihandle and which to the call
that is under way, that no two of these chains meet, and that everything on them
is open, but for the one instance that a failed open leaves for `clean_exit`.
`LineOK` says that nothing is open on top of the instance that is built upon or
closed next, `OwnedOK` that nothing is open elsewhere, `AncestorsOK` which nodes
a chain has so far, `SelfOK` and `PromptOK` what my-self is now and what the
call will make it when it returns, and `NodeOK` that the instance below which a
node is made is one that callers have.  Not one of the five properties is inductive
without most of these.  Every action is a case of one of a few kinds of step
(`Step`): an instance is put on top of the last (`OnTopKeeps`) or on top of a
node that the path skipped (`InChainKeeps`), one is taken away (`TakingKeeps`),
or only the call changes (`BeginKeeps`, `MoveKeeps`, `EndKeeps`, `ClosingKeeps`,
`BetweenKeeps`).  `Grown` and `Removed` say what the first three do to the list,
`OpenEffect` and `CloseEffect` that the code of `open` and `close`, with the
helpers of a disk, does just that.

`Chain` and `Above` are recursive functions, and TLA+ gives those their value by
`CHOOSE`.  That there is a value with the equation that is written, for a list or
a tree of any size, is `ChainEquation` and `AboveEquation`.  The prover cannot
use the library's theorem on recursive definitions, so each names a function
that solves the equation (the chain of an instance is what lies in every set that
has the instance and the parents of its members), and inductions over them
argue from the least counterexample, by `Least`: a non-empty set of
naturals has a least element.

`MmuProofs` proves, for address spaces, sections and frames of any number, any
regions and any number of calls and of failures of `malloc`,

* `Refinement`: `MmuSpec => ImplementsMapping`
* `ListOrder` and `ListTruth`: `MmuSpec` implies `[]ListInOrder` and
  `[]ListMatchesTables`

from two assumptions, which TLC evaluates in the instance of `Mmu`.
`RegionsFit`: the regions of the calls lie in both address spaces and end below
the last page, as sums of an address and a size wrap there.  `BoardTables`: in
the tables that a board starts with, sections map frames that exist, the last
page is unmapped, and pages that map consecutive frames do so in one mode.
`init_virtual` unmaps the end of the space (`edb7312/mmu.c:157`), and
`read_mapping` needs the rest, since it lets a page join a run whatever its mode
is.  The calls may map and unmap what they like.  Both properties of the list
speak of what comes before the first call that reaches past the end of a
translation that starts in its region (`damage = 0`), since from then on sizes
have wrapped, as the table above shows; the refinement holds after it, too.

The argument for the tables is by the kinds of entries: `Meaning` is what an
entry says of a page, `MapEffect` and `UnmapEffect` that the loops over the
sections of a region change the pages of the region and no others, whichever of
them are whole sections and which are parts.  The argument for the list has a
notion of its own, `Shows(l, x)`: the set of what the translations of list `l`
say of page `x`.  In a list that is in order this has one element or none, and
it can be computed part by part (`Joined`, `Parted`), while the list is cut,
split, merged and joined.  `RemoveEffect` says that `remove_translation` leaves a
proper list that shows nothing in the region and the same elsewhere, or, when
there is no memory, the same everywhere; `AddEffect` that `add_translation` then
shows the new translation there, merged with its neighbours or not.  A merge
keeps what is shown because it asks for the same mode and consecutive frames
(`MergeEffect`).  `InitEffect` says that the first list, which is made of the
runs of pages in the tables (`AllRunsEffect`), shows what the tables say.

The invariant `MmuInv` is, until there is damage: the list is `Proper` (in order, no overlaps, no
empty translation, each below the last page), and what it shows is what the
tables say of each page that is not `lost`.  `ListInOrder` alone is not
inductive: that ends do not wrap is part of `Proper`, and that a removal works
needs the elements' sizes.  As in `InstancesProofs`, the three recursive functions of
the model (`NonEmpty`, `AllRuns`, `mmu_init_translations`) are shown to have the
value that their equations say (`NonEmptyEquation`, `AllRunsEquation`,
`InitEquation`).

`PciProbeProofs` proves, for pools, granules, BARs and ROMs of any size, any
number of buses and devices, and `malloc()` failing in any step,

* `ConflictFree`, `EverythingReachable`, `PoolsAreFree` and `NoAddressIsLost`:
  `NoConflict`, `Reachable`, `PoolIsFree` and `NothingLost`

until the pools are damaged (`damage = 0`): by a bridge that is closed with
nothing behind it that needs memory, or by FCode that has its device's addresses
assigned while the ROM has some.  In both cases `PoolIsFree` is false
afterwards, as the table above shows.  Bridges may be given up at any time.
The four speak of what is not given up; what is, goes on decoding, and may
conflict with what is found later (`NoConflictAtAll`).  They
assume `PoolsFit`.  The blocks of the host bridge are in order and do not
touch; there are bus numbers to give away; memory and its part below 1 MB end
with a granule; and of the granule
and the size of a BAR or ROM one divides the other, as both are powers of two.
`PciProbe.cfg` meets this, and TLC evaluates it there.

The argument begins with lists.  `Canon(P)` says that the blocks of `P` are in
order and do not touch, `InPool(P, x)` that `x` is in one of them.  What an
operator of `PciAlloc` does is said with these two: that the result is `Canon`
again, and which addresses are in it.  That they do not touch is what makes
`pci_free_block` find both neighbours, and what makes the one look that
`ppb_update_windows` takes at the list enough: behind the block that is cut off
an address follows that is in use.

The invariant `PciInv` has, until there is damage, five parts, each over the
whole stack of buses:

* `MemInv`: the pool of a bus lies in the window of its bridge; that window is
  in the pool above, still, and the bridge forwards all of it; nothing on a bus
  has an address of its pool, but for that bridge.  `Cuttable` says of what is
  free at the beginning of the window that it ends at a granule or is all of it.  From this follows that
  cutting the window leaves what is used in it, and that the addresses cut off,
  though the bridge forwards whole granules, are none that it still answers to.
* `NumInv`: the same for bus numbers, which are cut from above only; the
  numbers a bus can give away are inside the ranges of all bridges above it,
  and none of them is in use.
* `ReachInv`: what has an address is on a bus in use, and inside the window of
  the bridge in front.
* `BehindInv`: what is behind the number of a bus has its own numbers below the
  end of that bus's range, so that what is given up with a bus is all there is
  behind it.
* `LostInv`, unless something has failed: each address of the host bridge is
  in its pool or somebody on its bus has it.

`NoConflict` is not inductive by itself: two devices get different addresses
because the pool has none that is in use, and it has none because of where the
window lies that is given back at the end.  The steps `DeviceStep`, `EnterStep`,
`LeaveStep`, `AbandonStep` and `FinishStep` each show the five parts.  `LeaveStep` is the long
one: the devices that wait get their addresses (`AssignAll`, by induction on
their number), the window is cut, and it is taken from the pool above.  The
steps of the induction are lemmas about the function `done` of `AssignAll`.

Only model-checked: of `Nvram`, that its instance never loses sight of the last
record.  Only shown by variations of the instances, which fail: what the table
above lists.  All liveness stays with TLC, since the prover has no rules for
fairness.

## Not modelled

* Drivers: of the NE2000 and the DEC 2104x, detection, media selection and
  statistics; of the IDE disk, everything but `open` and `close`; the other
  network chips, SCSI, NAND, USB, serial lines, graphics.  They are register
  protocols of particular hardware, and appear as external devices.
* Program loaders and file systems: sequential decoders of file formats,
  without state between calls that other code relies on.
* Board support and FCode drivers: start-up code, and drivers of BSD origin.
* The tools (`src/bin/cc`, `wacco`, `domail`, `ccgen`) and their libraries:
  batch programs that are no part of the firmware.
* MMU nodes: `modify`, `translate`, `claim` and `release` of the ARM board's,
  and the amd64 copies of the list; memory for a table of pages that is not
  there (`edb7312/mmu.c:258`, 398), or for a property (`cpu-arm.c:571`), where
  the code writes through NULL.  PCI: an error between the assignment of a
  device's addresses and their publication (`pci.c:1855`), after which they are
  assigned a second time; a bridge whose own BARs cannot be assigned; CardBus, I/O, prefetchable and 64-bit
  windows, which are the same code on other lists; the table of device names.
  NVRAM: the editor, the printing and parsing of variables, aliases that follow
  a variable (`admin.c:187`), and running out of memory at boot.  Flash: the
  chips' command sequences.  Device tree: aliases and relative paths, matching
  of names and unit addresses, deleting nodes, properties.  Of nodes that are
  being made: one within another, opening them, `set-args`, an interposer on top
  of the device that `begin-package` opens, `finish-device` without a node
  (through NULL), and `new-device` with a `my-self` that running out of memory
  has left; the
  `disk-label` package itself.
* Of the modelled files: `alloc_fini`, `find_constrained` (nobody calls them),
  `alloc_info`, `alloc_print`; selftest of `/memory`; parsing of the arguments
  of `open`, checksums and answers to other hosts' ARP requests in
  `obptftp.c`; the paths of the deblocker's `open` that fail.
* The rest of the table of components, as planned below.

By lines, most of the repository is outside of these models and will stay
there: of its 250 000 lines the greater part is compilers and tools, generated
tables, FCode and BSD drivers of particular cards, register definitions and
decoders, in which there is no state that two parties share or that outlives a
call.  The models cover the part of the firmware in which there is.

## Plan

Done, in this order, which is that of how much rests on each part: `Alloc`
with `FreeSpace` and its proofs, `MemoryNode`, `Tftp`, `Deblock` with
`ByteFile`, `NetConfig`; then `Mmu` with `Mapping`, `PciProbe` on `PciAlloc`,
`Ne2000` and `DecEther` with `EtherLink`, `Nvram`, `Instances`; the proofs of
what `Alloc` refuses and hands out, of `MemoryNode`, and of `TftpProofs`,
`NetConfigProofs`, `StorageProofs`, `EtherProofs`, `InstancesProofs`, `MmuProofs`
and `PciProbeProofs`.

Models to come:

1. `DiskLabel` on top of `Deblock`: the partition's offset, and the entry
   `disk-label-self` that each open adds with a token of its own
   (`disklbl.c:255`).
2. `Exec`: the execution loop with catch and throw over nested calls, and
   alarms that run in between.
3. `Flash`: `program_flash` and its time-outs, in the place of the one step
   that `Nvram` takes.
4. `claim` of the MMU node over a physical and a virtual allocator, composed of
   two instances of `Alloc`.  Invariant: a failed claim leaves neither taken.
5. `NetConfig` over a prompt network, so that a load must succeed, and its
   composition with `Tftp` into a whole `load`.
6. The terminal emulator and the line editor of the console.
