------------------------------- MODULE Ne2000 -------------------------------
(***************************************************************************)
(* The NE2000 driver (src/bin/of/isa/ne2000.c) and its card.  The card     *)
(* puts what it receives into a ring of pages at CURR and stops short of   *)
(* BNRY, while the driver works on the same registers: it takes the first  *)
(* packet out of the ring and then resets the ring, whatever else is in    *)
(* it.  The memory of the card keeps what was there.                       *)
(*                                                                         *)
(* The card is external: what it does is taken from the comments that      *)
(* describe its registers (ne2000.c:160-300, 535-580).  A reception that   *)
(* is going on when the card is stopped "will continue to completion".     *)
(***************************************************************************)
EXTENDS EtherLink

CONSTANTS
    RingPages,      \* ED_REC_PAGE_STOP - ED_REC_PAGE_START
    Sizes,          \* pages that a packet takes
    NeOpens,        \* bound: times the device is opened
    NeErrors        \* bound: transmissions that fail

ASSUME NeAssumption ==
    /\ RingPages \in Nat \ {0} /\ Sizes \subseteq 1 .. RingPages
    /\ NeOpens \in Nat /\ NeErrors \in Nat

VARIABLES
    nepc,           \* where the driver is
    seen,           \* read's isr
    hdr,            \* read's hdr
    ne,             \* the card's registers
    head,           \* headers in the ring: number of pages and of the packet
    data,           \* the packet of which each page holds a part, and which part
    rx,             \* the packet that is being received
    tx,             \* the packet that is being sent, 0 for none
    txbuf,          \* what is in the transmit buffer
    neleft,         \* opens and errors that are left
    astray          \* a history: CURR was once not behind what is in the ring

neVars == <<nepc, seen, hdr, ne, head, data, rx, tx, txbuf, neleft, astray>>

Pages == 0 .. RingPages - 1
After(p, n) == (p + n) % RingPages
Headers == [pkt : 0 .. MaxHeard, size : Sizes \union {0}]
NoHeader == [pkt |-> 0, size |-> 0]
Bits == {"PRX", "PTX", "TXE"}
NoRx == [pkt |-> 0, at |-> 0, size |-> 0]

NeTypeOK ==
    /\ nepc \in {"closed", "idle", "ack", "look", "header", "copy", "stop",
                 "boundary", "current", "restart", "xmit", "wait"}
    /\ seen \subseteq Bits
    /\ ne \in [on : BOOLEAN, isr : SUBSET Bits, bnry : Pages, curr : Pages]
    /\ head \in [Pages -> Headers] /\ hdr \in Headers
    /\ data \in [Pages -> (0 .. MaxHeard) \X (0 .. RingPages)]
    /\ rx \in [pkt : 0 .. MaxHeard, at : Pages, size : Sizes \union {0}]
    /\ tx \in 0 .. MaxSends /\ txbuf \in 0 .. MaxSends
    /\ neleft \in [opens : 0 .. NeOpens, errors : 0 .. NeErrors]
    /\ astray \in BOOLEAN

NeInit ==
    /\ nepc = "closed" /\ seen = {}
    /\ ne = [on |-> FALSE, isr |-> {}, bnry |-> 0, curr |-> 0]
    /\ head = [p \in Pages |-> NoHeader] /\ hdr = NoHeader
    /\ data = [p \in Pages |-> <<0, 0>>]
    /\ rx = NoRx /\ tx = 0 /\ txbuf = 0
    /\ neleft = [opens |-> NeOpens, errors |-> NeErrors]
    /\ astray = FALSE

-----------------------------------------------------------------------------
(* open and close.  open resets the board, which ends what was going on.    *)

f_ne2000_open ==
    /\ nepc = "closed" /\ neleft.opens > 0
    /\ nepc' = "idle"
    /\ ne' = [on |-> TRUE, isr |-> {}, bnry |-> 0, curr |-> 0]
    /\ rx' = NoRx /\ tx' = 0
    /\ neleft' = [neleft EXCEPT !.opens = @ - 1]
    /\ UNCHANGED <<seen, hdr, head, data, txbuf, astray, linkVars>>

f_ne2000_close ==
    /\ nepc = "idle" /\ ~Sending
    /\ nepc' = "closed"
    /\ ne' = [ne EXCEPT !.on = FALSE]
    /\ UNCHANGED <<seen, hdr, head, data, rx, tx, txbuf, neleft, astray, linkVars>>

-----------------------------------------------------------------------------
(* read *)

PollStatus ==
    /\ nepc = "idle" /\ ~Sending
    /\ nepc' = "ack"
    /\ ne' = [ne EXCEPT !.on = TRUE]
    /\ seen' = ne.isr
    /\ UNCHANGED <<hdr, head, data, rx, tx, txbuf, neleft, astray, linkVars>>

AckStatus ==
    /\ nepc = "ack"
    /\ ne' = [ne EXCEPT !.isr = @ \ seen]
    /\ nepc' = IF "PRX" \in seen THEN "look" ELSE "idle"
    /\ seen' = {}
    /\ UNCHANGED <<hdr, head, data, rx, tx, txbuf, neleft, astray, linkVars>>

\* A card whose ring looks empty is left stopped, until it is used again.
CompareRing ==
    /\ nepc = "look"
    /\ ne' = [ne EXCEPT !.on = FALSE]
    /\ nepc' = IF ne.bnry = ne.curr THEN "idle" ELSE "header"
    /\ UNCHANGED <<seen, hdr, head, data, rx, tx, txbuf, neleft, astray, linkVars>>

\* pio_read selects page 0 with the start bit, and the card receives again.
ReadHeader ==
    /\ nepc = "header"
    /\ ne' = [ne EXCEPT !.on = TRUE]
    /\ hdr' = head[ne.bnry]
    /\ nepc' = "copy"
    /\ UNCHANGED <<seen, head, data, rx, tx, txbuf, neleft, astray, linkVars>>

Whole == \A i \in 0 .. hdr.size - 1 : data[After(ne.bnry, i)] = <<hdr.pkt, i>>

CopyPacket ==
    /\ nepc = "copy"
    /\ got' = Append(got, IF Whole THEN hdr.pkt ELSE Garbled)
    /\ nepc' = "stop"
    /\ hdr' = NoHeader
    /\ UNCHANGED <<seen, ne, head, data, rx, tx, txbuf, neleft, astray, heard, wire, told, wanted>>

\* The ring is reset: with the card stopped, which ends what it is receiving
\* all the same, first the boundary and then CURR are set to the first page.
StopCard ==
    /\ nepc = "stop"
    /\ ne' = [ne EXCEPT !.on = FALSE]
    /\ nepc' = "boundary"
    /\ UNCHANGED <<seen, hdr, head, data, rx, tx, txbuf, neleft, astray, linkVars>>

PutBoundary(page) ==
    /\ nepc = "boundary"
    /\ ne' = [ne EXCEPT !.bnry = page]
    /\ nepc' = "current"
    /\ UNCHANGED <<seen, hdr, head, data, rx, tx, txbuf, neleft, astray, linkVars>>

\* Mutant: the boundary is set to the page after the ring.
put_boundary_at_stop == PutBoundary(RingPages)
SetBoundary == PutBoundary(0)

\* The packet that is coming in at this moment ends where CURR was before.
PutCurrent(page) ==
    /\ nepc = "current"
    /\ ne' = [ne EXCEPT !.curr = page]
    /\ nepc' = "restart"
    /\ astray' = (astray \/ rx # NoRx)
    /\ UNCHANGED <<seen, hdr, head, data, rx, tx, txbuf, neleft, linkVars>>

\* Mutant: CURR stays where it is.
keep_current == PutCurrent(ne.curr)
SetCurrent == PutCurrent(0)

Restart ==
    /\ nepc = "restart"
    /\ ne' = [ne EXCEPT !.on = TRUE]
    /\ nepc' = "idle"
    /\ UNCHANGED <<seen, hdr, head, data, rx, tx, txbuf, neleft, astray, linkVars>>

-----------------------------------------------------------------------------
(* write, which send_mac_pkt repeats until it reports the whole packet.     *)

Ask ==
    /\ nepc = "idle" /\ ~Sending /\ wanted < MaxSends
    /\ Want
    /\ UNCHANGED neVars

LoadBuffer ==
    /\ nepc = "idle" /\ Sending
    /\ nepc' = "xmit"
    /\ ne' = [ne EXCEPT !.on = TRUE]
    /\ txbuf' = wanted
    /\ UNCHANGED <<seen, hdr, head, data, rx, tx, neleft, astray, linkVars>>

StartTransmit ==
    /\ nepc = "xmit"
    /\ nepc' = "wait"
    /\ tx' = IF tx = 0 THEN txbuf ELSE tx
    /\ UNCHANGED <<seen, hdr, ne, head, data, rx, txbuf, neleft, astray, linkVars>>

TakeResult(ends, acked) ==
    /\ nepc = "wait" /\ ne.isr \intersect ends # {}
    /\ told' = IF "PTX" \in ne.isr THEN told \union {wanted} ELSE told
    /\ ne' = [ne EXCEPT !.isr = @ \ acked]
    /\ nepc' = "idle"
    /\ UNCHANGED <<seen, hdr, head, data, rx, tx, txbuf, neleft, astray, heard, got, wire, wanted>>

\* Mutant: a transmission that failed is waited for, too.
wait_for_success == TakeResult({"PTX"}, {"PTX", "TXE"})
WaitForResult == TakeResult({"PTX", "TXE"}, {"PTX", "TXE"})

-----------------------------------------------------------------------------
(* The card.  A packet that would reach the boundary is missed; one that    *)
(* ends there leaves a ring that looks empty.                               *)

HasRoom(n) == \A i \in 1 .. n - 1 : After(ne.curr, i) # ne.bnry

ReceiveStart ==
    /\ ne.on /\ rx = NoRx /\ heard < MaxHeard
    /\ Hear
    /\ \E n \in Sizes :
          /\ HasRoom(n)
          /\ rx' = [pkt |-> heard + 1, at |-> ne.curr, size |-> n]
          /\ data' = [p \in Pages |->
                        IF \E i \in 0 .. n - 1 : p = After(ne.curr, i)
                        THEN <<heard + 1, (p - ne.curr) % RingPages>> ELSE data[p]]
    /\ UNCHANGED <<nepc, seen, hdr, ne, head, tx, txbuf, neleft, astray>>

ReceiveEnd ==
    /\ rx # NoRx
    /\ head' = [head EXCEPT ![rx.at] = [pkt |-> rx.pkt, size |-> rx.size]]
    /\ ne' = [ne EXCEPT !.curr = After(rx.at, rx.size), !.isr = @ \union {"PRX"}]
    /\ rx' = NoRx
    /\ astray' = (astray \/ After(rx.at, rx.size) = ne.bnry)
    /\ UNCHANGED <<nepc, seen, hdr, data, tx, txbuf, neleft, linkVars>>

\* A packet with an error is not kept.
ReceiveError ==
    /\ rx # NoRx
    /\ rx' = NoRx
    /\ UNCHANGED <<nepc, seen, hdr, ne, head, data, tx, txbuf, neleft, astray, linkVars>>

TransmitEnd ==
    /\ tx # 0
    /\ wire' = wire \union {IF txbuf = tx THEN tx ELSE Garbled}
    /\ ne' = [ne EXCEPT !.isr = @ \union {"PTX"}]
    /\ tx' = 0
    /\ UNCHANGED <<nepc, seen, hdr, head, data, rx, txbuf, neleft, astray, heard, got, told, wanted>>

TransmitError ==
    /\ tx # 0 /\ neleft.errors > 0
    /\ ne' = [ne EXCEPT !.isr = @ \union {"TXE"}]
    /\ tx' = 0
    /\ neleft' = [neleft EXCEPT !.errors = @ - 1]
    /\ UNCHANGED <<nepc, seen, hdr, head, data, rx, txbuf, astray, linkVars>>

-----------------------------------------------------------------------------
ResetRing == StopCard \/ SetBoundary \/ SetCurrent \/ Restart
NeRead == PollStatus \/ AckStatus \/ CompareRing \/ ReadHeader \/ CopyPacket \/ ResetRing
NeWrite == LoadBuffer \/ StartTransmit \/ WaitForResult
NeCard == ReceiveStart \/ ReceiveEnd \/ ReceiveError \/ TransmitEnd \/ TransmitError

NeNext == f_ne2000_open \/ f_ne2000_close \/ NeRead \/ Ask \/ NeWrite \/ NeCard

\* The driver does not wait but for the card, and the card ends what it began.
NeFairness ==
    /\ WF_<<neVars, linkVars>>(NeRead)
    /\ WF_<<neVars, linkVars>>(NeWrite)
    /\ WF_<<neVars, linkVars>>(TransmitEnd \/ TransmitError)
    /\ WF_<<neVars, linkVars>>(ReceiveEnd)
=============================================================================
