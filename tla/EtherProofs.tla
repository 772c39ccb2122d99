----------------------------- MODULE EtherProofs -----------------------------
(***************************************************************************)
(* What is proved of the two Ethernet drivers, for any ring, any packets,  *)
(* errors and openings: until the pointers of the NE2000's ring go astray, *)
(* they promise what EtherLink does.                                       *)
(***************************************************************************)
EXTENDS Ether, TLAPS

-----------------------------------------------------------------------------
(* The inductive invariant.                                                  *)

GotOK == got \in Seq(Nat) /\ Last \in 0 .. heard

\* What lies in the ring from page p on is all of packet k, of n pages.
Lies(p, k, n) == \A i \in 0 .. n - 1 : data[p + i] = <<k, i>>

\* The boundary never moves, so packets lie in the ring from its first page on
\* and do not wrap.  What the driver reads is the first of them.
Ring ==
    /\ ne.bnry = 0 /\ ne.curr \in Pages
    /\ ne.curr # 0 =>
          /\ head[0].size \in 1 .. ne.curr /\ head[0].pkt \in 1 .. heard
          /\ Lies(0, head[0].pkt, head[0].size)
          /\ nepc \notin {"stop", "boundary", "current"} => head[0].pkt > Last
    /\ nepc \in {"header", "copy", "stop", "boundary", "current"} => ne.curr # 0
    /\ nepc = "copy" => hdr = head[0]

\* The packet that is coming in lies behind them and is newer.
Incoming ==
    rx # NoRx =>
        /\ rx.at = ne.curr /\ rx.size \in Sizes /\ rx.at + rx.size <= RingPages
        /\ rx.pkt \in Last + 1 .. heard
        /\ Lies(rx.at, rx.pkt, rx.size)
        /\ ne.curr # 0 => rx.pkt > head[0].pkt

\* The interrupt bits of the transmitter are those of the packet just sent.
Outgoing ==
    /\ nepc \in {"xmit", "wait"} => txbuf = wanted /\ wanted > 0
    /\ tx # 0 => nepc = "wait" /\ tx = txbuf
    /\ ne.isr \intersect {"PTX", "TXE"} # {} => nepc = "wait" /\ tx = 0
    /\ "PTX" \in ne.isr => wanted \in wire
    /\ seen \subseteq {"PRX"}

NeUnused == /\ nepc = "closed" /\ ~ne.on /\ rx = NoRx /\ tx = 0 /\ ne.isr = {}
            /\ ne.curr = 0 /\ ne.bnry = 0 /\ seen = {}
DecUnused == decpc = "closed" /\ rxing = None /\ txing = None

NeInv == Ring /\ Incoming /\ Outgoing

\* A descriptor that has been handed back holds a whole packet, not read yet.
Received ==
    /\ recv.own \/ decpc \in {"closed", "copied"} \/ recv.error
       \/ recv.buf \in Last + 1 .. heard
    /\ rxing # None => recv.own /\ rxing \in Last + 1 .. heard

Sent ==
    /\ txing # None => send.own /\ txing = send.buf
    /\ send.own => send.buf \in 1 .. wanted \union {Setup}
    /\ decpc \in {"sending", "result"} =>
          /\ send.buf = wanted /\ wanted > 0
          /\ ~send.own /\ ~send.error => wanted \in wire

DecInv == Received /\ Sent

EInv == /\ EtherTypeOK /\ GotOK
        /\ NeInv /\ DecInv
        /\ neleft.opens = NeOpens => NeUnused
        /\ decleft.opens = DecOpens => DecUnused

-----------------------------------------------------------------------------
LEMMA Constants ==
    /\ MaxHeard \in Nat /\ MaxSends \in Nat
    /\ RingPages \in Nat \ {0} /\ Sizes \subseteq 1 .. RingPages
    /\ NeOpens \in Nat /\ NeErrors \in Nat /\ DecOpens \in Nat /\ DecErrors \in Nat
    /\ 0 \in Pages
<1>1. 0 \in Pages
    BY NeAssumption DEF Pages
<1> QED
    BY <1>1, EtherAssumption, NeAssumption, DecAssumption

LEMMA Remainder ==
    ASSUME NEW m \in Nat \ {0}, NEW x \in Int
    PROVE  x % m \in 0 .. m
OBVIOUS

\* A packet for which there is room ends before the end of the ring.
LEMMA NoWrap ==
    ASSUME Ring, NEW n \in Sizes, HasRoom(n)
    PROVE  /\ ne.curr + n <= RingPages
           /\ \A i \in 0 .. n - 1 : /\ After(ne.curr, i) = ne.curr + i
                                    /\ ((ne.curr + i) - ne.curr) % RingPages = i
<1>1. /\ ne.curr \in 0 .. RingPages - 1 /\ RingPages \in Nat \ {0}
      /\ n \in 1 .. RingPages /\ ne.bnry = 0
    BY Constants DEF Ring, Pages
<1> DEFINE c == ne.curr
<1>2. c \in 0 .. RingPages - 1
    BY <1>1
<1>3. c + n <= RingPages
  <2> SUFFICES ASSUME c + n > RingPages
               PROVE  FALSE
    BY <1>1, <1>2
  <2>1. RingPages - c \in 1 .. n - 1
    BY <1>1, <1>2
  <2>2. c + (RingPages - c) = RingPages /\ RingPages % RingPages = 0
    BY <1>1, <1>2
  <2>3. After(c, RingPages - c) = 0
    BY <2>2 DEF After
  <2> QED
    BY <1>1, <2>1, <2>3 DEF HasRoom
<1>6. \A x \in 0 .. RingPages - 1 : x % RingPages = x
    BY <1>1
<1>7. \A i \in 0 .. n - 1 : c + i \in 0 .. RingPages - 1 /\ (c + i) - c = i
                            /\ i \in 0 .. RingPages - 1
    BY <1>1, <1>2, <1>3
<1> QED
    BY <1>3, <1>6, <1>7 DEF After

LinkOK == /\ LinkTypeOK' /\ GotOK' /\ wanted' >= wanted
          /\ [LinkNext]_linkVars

LEMMA LinkStays ==
    ASSUME EInv, UNCHANGED linkVars
    PROVE  LinkOK /\ Last' = Last
    BY DEF LinkOK, EInv, EtherTypeOK, LinkTypeOK, GotOK, Last, linkVars

\* A newer packet is delivered.
LEMMA Delivers ==
    ASSUME EInv, NEW p \in Last + 1 .. heard, got' = Append(got, p),
           UNCHANGED <<heard, wire, told, wanted>>
    PROVE  LinkOK /\ Last' = p
<1>1. /\ got \in Seq(Nat) /\ Last \in 0 .. heard /\ heard \in 0 .. MaxHeard
      /\ MaxHeard \in Nat /\ got \in Seq((0 .. MaxHeard) \union {Garbled})
      /\ wanted \in 0 .. MaxSends /\ MaxSends \in Nat
    BY Constants DEF EInv, EtherTypeOK, LinkTypeOK, GotOK
<1>2. p \in Nat /\ p \in 0 .. MaxHeard
    BY <1>1
<1>3. /\ got' \in Seq(Nat) /\ got' \in Seq((0 .. MaxHeard) \union {Garbled})
      /\ Len(got') = Len(got) + 1 /\ got'[Len(got')] = p /\ Len(got) \in Nat
    BY <1>1, <1>2
<1>4. got' # <<>>
    BY <1>3
<1>5. Last' = p
    BY <1>3, <1>4 DEF Last
<1>6. Deliver
    BY DEF Deliver
<1> QED
    BY <1>1, <1>3, <1>5, <1>6
    DEF LinkOK, EInv, EtherTypeOK, LinkTypeOK, GotOK, LinkNext

\* One more packet is on its way to the station.
LEMMA Hears ==
    ASSUME EInv, Hear, heard < MaxHeard
    PROVE  /\ LinkOK /\ Last' = Last /\ heard' = heard + 1
           /\ heard' \in Last + 1 .. heard' /\ heard' \in 0 .. MaxHeard
           /\ UNCHANGED <<got, wire, told, wanted>>
    BY Constants DEF EInv, EtherTypeOK, LinkTypeOK, GotOK, LinkOK, LinkNext, Hear, Last

\* The station is asked to send one more.
LEMMA Wants ==
    ASSUME EInv, Want, wanted < MaxSends
    PROVE  LinkOK /\ Last' = Last /\ UNCHANGED <<heard, got, wire, told>>
    BY Constants DEF EInv, EtherTypeOK, LinkTypeOK, GotOK, LinkOK, LinkNext, Want, Last

\* What is sent has been asked for.
LEMMA Transmits ==
    ASSUME EInv, NEW m \in 1 .. wanted, wire' = wire \union {m},
           UNCHANGED <<heard, got, told, wanted>>
    PROVE  LinkOK /\ Last' = Last
<1>1. Transmit
    BY DEF Transmit
<1>2. m \in Sends
    BY Constants DEF Sends, EInv, EtherTypeOK, LinkTypeOK
<1> QED
    BY <1>1, <1>2, Constants
    DEF EInv, EtherTypeOK, LinkTypeOK, GotOK, LinkOK, LinkNext, Last

\* What is reported sent has been on the wire.
LEMMA Tells ==
    ASSUME EInv, wanted > 0, NEW sent, sent => wanted \in wire,
           told' = IF sent THEN told \union {wanted} ELSE told,
           UNCHANGED <<heard, got, wire, wanted>>
    PROVE  LinkOK /\ Last' = Last
<1>1. wanted \in Sends
    BY Constants DEF Sends, EInv, EtherTypeOK, LinkTypeOK
<1>2. CASE sent
  <2>1. Tell
    BY <1>2 DEF Tell
  <2> QED
    BY <1>1, <1>2, <2>1 DEF EInv, EtherTypeOK, LinkTypeOK, GotOK, LinkOK, LinkNext, Last
<1>3. CASE ~sent
    BY <1>3, LinkStays DEF linkVars
<1> QED
    BY <1>2, <1>3

-----------------------------------------------------------------------------
(* The steps of the NE2000 and its driver.                                   *)

NeKeeps == NeTypeOK' /\ NeInv' /\ (neleft'.opens = NeOpens => NeUnused')

LEMMA NeRests ==
    ASSUME EInv, NeUnused, UNCHANGED neVars, astray' = FALSE
    PROVE  NeKeeps
<1>1. /\ UNCHANGED <<nepc, seen, hdr, ne, head, data, rx, tx, txbuf, neleft>>
    BY DEF neVars
<1>2. NeTypeOK'
    BY <1>1 DEF EInv, EtherTypeOK, NeTypeOK
<1>3. Ring' /\ Incoming' /\ Outgoing' /\ NeUnused'
    BY <1>1, Constants DEF NeUnused, Ring, Incoming, Outgoing
<1> QED
    BY <1>2, <1>3 DEF NeKeeps, NeInv

\* The ring is left alone: by the driver but for its own state, and by the card.
RingStays == /\ UNCHANGED <<head, data, rx, heard>> /\ ne'.bnry = ne.bnry /\ ne'.curr = ne.curr
             /\ Last' = Last

LEMMA RingKept ==
    ASSUME EInv, RingStays,
           nepc' \in {"header", "copy", "stop", "boundary", "current"} => ne.curr # 0,
           nepc' = "copy" => hdr' = head[0],
           nepc \in {"stop", "boundary", "current"} => nepc' \in {"stop", "boundary", "current"}
    PROVE  Ring' /\ Incoming'
    BY DEF EInv, NeInv, RingStays, Ring, Incoming, Lies

\* The transmitter is left alone.
SenderStays == /\ UNCHANGED <<tx, txbuf, wanted, wire>>
               /\ ne'.isr \intersect {"PTX", "TXE"} = ne.isr \intersect {"PTX", "TXE"}

LEMMA SenderKept ==
    ASSUME EInv, SenderStays, seen' \subseteq {"PRX"},
           nepc' \in {"xmit", "wait"} => nepc' = nepc,
           nepc = "wait" => nepc' = "wait"
    PROVE  Outgoing'
<1>1. "PTX" \in ne'.isr <=> "PTX" \in ne.isr
    BY DEF SenderStays
<1> QED
    BY <1>1 DEF EInv, NeInv, SenderStays, Outgoing

LEMMA NeOpenStep ==
    ASSUME EInv, f_ne2000_open, astray' = FALSE
    PROVE  LinkOK /\ NeKeeps
<1>1. LinkOK
    BY LinkStays DEF f_ne2000_open
<1>2. /\ nepc' = "idle" /\ ne' = [on |-> TRUE, isr |-> {}, bnry |-> 0, curr |-> 0]
      /\ rx' = NoRx /\ tx' = 0
      /\ neleft.opens > 0 /\ neleft' = [neleft EXCEPT !.opens = @ - 1]
      /\ UNCHANGED <<seen, hdr, head, data, txbuf>>
    BY DEF f_ne2000_open
<1>3. NeTypeOK'
  <2>1. /\ ne' \in [on : BOOLEAN, isr : SUBSET Bits, bnry : Pages, curr : Pages]
        /\ rx' \in [pkt : 0 .. MaxHeard, at : Pages, size : Sizes \union {0}]
        /\ tx' \in 0 .. MaxSends
    BY <1>2, Constants DEF NoRx
  <2>2. neleft' \in [opens : 0 .. NeOpens, errors : 0 .. NeErrors]
    BY <1>2, Constants DEF EInv, EtherTypeOK, NeTypeOK
  <2> QED
    BY <1>2, <2>1, <2>2 DEF EInv, EtherTypeOK, NeTypeOK
<1>4. Ring' /\ Incoming' /\ Outgoing'
    BY <1>2, Constants DEF EInv, NeInv, Ring, Incoming, Outgoing
<1>5. neleft'.opens # NeOpens
    BY <1>2, Constants DEF EInv, EtherTypeOK, NeTypeOK
<1> QED
    BY <1>1, <1>3, <1>4, <1>5 DEF NeKeeps, NeInv

LEMMA NeCloseStep ==
    ASSUME EInv, f_ne2000_close, astray' = FALSE
    PROVE  LinkOK /\ NeKeeps
<1>1. LinkOK /\ Last' = Last
    BY LinkStays DEF f_ne2000_close
<1>2. /\ nepc = "idle" /\ nepc' = "closed" /\ ne' = [ne EXCEPT !.on = FALSE]
      /\ UNCHANGED <<seen, hdr, head, data, rx, tx, txbuf, neleft, heard, wire, wanted>>
    BY DEF f_ne2000_close, linkVars
<1>3. NeTypeOK'
    BY <1>2 DEF EInv, EtherTypeOK, NeTypeOK
<1>4. RingStays /\ SenderStays
    BY <1>1, <1>2 DEF EInv, EtherTypeOK, NeTypeOK, RingStays, SenderStays
<1>5. Ring' /\ Incoming' /\ Outgoing'
    BY <1>2, <1>4, RingKept, SenderKept DEF EInv, NeInv, Outgoing
<1>6. neleft'.opens # NeOpens
    BY <1>2 DEF EInv, NeUnused
<1> QED
    BY <1>1, <1>3, <1>5, <1>6 DEF NeKeeps, NeInv

LEMMA PollStep ==
    ASSUME EInv, PollStatus, astray' = FALSE
    PROVE  LinkOK /\ NeKeeps
<1>1. LinkOK /\ Last' = Last
    BY LinkStays DEF PollStatus
<1>2. /\ nepc = "idle" /\ nepc' = "ack" /\ ne' = [ne EXCEPT !.on = TRUE] /\ seen' = ne.isr
      /\ UNCHANGED <<hdr, head, data, rx, tx, txbuf, neleft, heard, wire, wanted>>
    BY DEF PollStatus, linkVars
<1>3. NeTypeOK' /\ seen' \subseteq {"PRX"}
    BY <1>2 DEF EInv, EtherTypeOK, NeTypeOK, NeInv, Outgoing, Bits
<1>4. RingStays /\ SenderStays
    BY <1>1, <1>2 DEF EInv, EtherTypeOK, NeTypeOK, RingStays, SenderStays
<1>5. Ring' /\ Incoming' /\ Outgoing'
    BY <1>2, <1>3, <1>4, RingKept, SenderKept
<1>6. neleft'.opens # NeOpens
    BY <1>2 DEF EInv, NeUnused
<1> QED
    BY <1>1, <1>3, <1>5, <1>6 DEF NeKeeps, NeInv

LEMMA AckStep ==
    ASSUME EInv, AckStatus, astray' = FALSE
    PROVE  LinkOK /\ NeKeeps
<1>1. LinkOK /\ Last' = Last
    BY LinkStays DEF AckStatus
<1>2. /\ nepc = "ack" /\ nepc' \in {"look", "idle"} /\ seen' = {}
      /\ ne' = [ne EXCEPT !.isr = @ \ seen]
      /\ UNCHANGED <<hdr, head, data, rx, tx, txbuf, neleft, heard, wire, wanted>>
    BY DEF AckStatus, linkVars
<1>3. NeTypeOK'
    BY <1>2 DEF EInv, EtherTypeOK, NeTypeOK
<1>4. RingStays /\ SenderStays
    BY <1>1, <1>2 DEF EInv, EtherTypeOK, NeTypeOK, NeInv, Outgoing, RingStays, SenderStays
<1>5. Ring' /\ Incoming' /\ Outgoing'
    BY <1>2, <1>4, RingKept, SenderKept
<1>6. neleft'.opens # NeOpens
    BY <1>2 DEF EInv, NeUnused
<1> QED
    BY <1>1, <1>3, <1>5, <1>6 DEF NeKeeps, NeInv

LEMMA CompareStep ==
    ASSUME EInv, CompareRing, astray' = FALSE
    PROVE  LinkOK /\ NeKeeps
<1>1. LinkOK /\ Last' = Last
    BY LinkStays DEF CompareRing
<1>2. /\ nepc = "look" /\ nepc' = IF ne.bnry = ne.curr THEN "idle" ELSE "header"
      /\ ne' = [ne EXCEPT !.on = FALSE]
      /\ UNCHANGED <<seen, hdr, head, data, rx, tx, txbuf, neleft, heard, wire, wanted>>
    BY DEF CompareRing, linkVars
<1>3. NeTypeOK'
    BY <1>2 DEF EInv, EtherTypeOK, NeTypeOK
<1>4. RingStays /\ SenderStays
    BY <1>1, <1>2 DEF EInv, EtherTypeOK, NeTypeOK, RingStays, SenderStays
<1>5. Ring' /\ Incoming' /\ Outgoing'
    BY <1>2, <1>4, RingKept, SenderKept DEF EInv, NeInv, Outgoing, Ring
<1>6. neleft'.opens # NeOpens
    BY <1>2 DEF EInv, NeUnused
<1> QED
    BY <1>1, <1>3, <1>5, <1>6 DEF NeKeeps, NeInv

LEMMA HeaderStep ==
    ASSUME EInv, ReadHeader, astray' = FALSE
    PROVE  LinkOK /\ NeKeeps
<1>1. LinkOK /\ Last' = Last
    BY LinkStays DEF ReadHeader
<1>2. /\ nepc = "header" /\ nepc' = "copy" /\ hdr' = head[ne.bnry]
      /\ ne' = [ne EXCEPT !.on = TRUE]
      /\ UNCHANGED <<seen, head, data, rx, tx, txbuf, neleft, heard, wire, wanted>>
    BY DEF ReadHeader, linkVars
<1>3. NeTypeOK'
    BY <1>2 DEF EInv, EtherTypeOK, NeTypeOK
<1>4. RingStays /\ SenderStays
    BY <1>1, <1>2 DEF EInv, EtherTypeOK, NeTypeOK, RingStays, SenderStays
<1>5. Ring' /\ Incoming' /\ Outgoing'
    BY <1>2, <1>4, RingKept, SenderKept DEF EInv, NeInv, Outgoing, Ring
<1>6. neleft'.opens # NeOpens
    BY <1>2 DEF EInv, NeUnused
<1> QED
    BY <1>1, <1>3, <1>5, <1>6 DEF NeKeeps, NeInv

\* What is copied is the first packet in the ring, whole, and not read before.
LEMMA CopyStep ==
    ASSUME EInv, CopyPacket, astray' = FALSE
    PROVE  LinkOK /\ NeKeeps
<1>1. /\ nepc = "copy" /\ nepc' = "stop" /\ hdr' = NoHeader
      /\ got' = Append(got, IF Whole THEN hdr.pkt ELSE Garbled)
      /\ UNCHANGED <<seen, ne, head, data, rx, tx, txbuf, neleft, heard, wire, told, wanted>>
    BY DEF CopyPacket
<1>2. /\ ne.bnry = 0 /\ ne.curr # 0 /\ ne.curr \in 0 .. RingPages - 1 /\ hdr = head[0]
      /\ hdr.size \in 1 .. ne.curr /\ hdr.pkt \in 1 .. heard /\ hdr.pkt > Last
      /\ Lies(0, hdr.pkt, hdr.size)
      /\ RingPages \in Nat \ {0} /\ Last \in Nat /\ heard \in Nat
  <2>1. RingPages \in Nat \ {0} /\ Last \in Nat /\ heard \in Nat
    BY Constants DEF EInv, GotOK, EtherTypeOK, LinkTypeOK
  <2>2. ne.curr \in 0 .. RingPages - 1
    BY Constants DEF EInv, NeInv, Ring, Pages
  <2> QED
    BY <1>1, <2>1, <2>2 DEF EInv, NeInv, Ring
<1>3. Whole
  <2>1. \A i \in 0 .. hdr.size - 1 : After(0, i) = 0 + i
    <3>1. \A i \in 0 .. hdr.size - 1 : i \in 0 .. RingPages - 1 /\ 0 + i = i
        BY <1>2
    <3>2. \A x \in 0 .. RingPages - 1 : x % RingPages = x
        BY <1>2
    <3> QED
        BY <3>1, <3>2 DEF After
  <2> QED
    BY <1>2, <2>1 DEF Whole, Lies
<1>4. hdr.pkt \in Last + 1 .. heard /\ got' = Append(got, hdr.pkt)
    BY <1>1, <1>2, <1>3
<1>5. LinkOK /\ Last' = hdr.pkt
    BY <1>1, <1>4, Delivers
<1>6. NeTypeOK'
  <2>1. NoHeader \in Headers
    BY Constants DEF NoHeader, Headers
  <2> QED
    BY <1>1, <2>1 DEF EInv, EtherTypeOK, NeTypeOK
<1>7. Ring'
    BY <1>1, <1>2 DEF EInv, NeInv, Ring, Lies
<1>8. Incoming'
  <2> SUFFICES ASSUME rx # NoRx
               PROVE  Incoming'
    BY <1>1 DEF Incoming
  <2>1. rx.pkt \in Last + 1 .. heard /\ rx.pkt > hdr.pkt
    BY <1>2 DEF EInv, NeInv, Incoming
  <2>2. rx.pkt \in Last' + 1 .. heard'
    BY <1>1, <1>2, <1>5, <2>1
  <2> QED
    BY <1>1, <2>2 DEF EInv, NeInv, Incoming, Lies
<1>9. Outgoing'
    BY <1>1 DEF EInv, NeInv, Outgoing
<1>10. neleft'.opens # NeOpens
    BY <1>1 DEF EInv, NeUnused
<1> QED
    BY <1>5, <1>6, <1>7, <1>8, <1>9, <1>10 DEF NeKeeps, NeInv

LEMMA StopStep ==
    ASSUME EInv, StopCard, astray' = FALSE
    PROVE  LinkOK /\ NeKeeps
<1>1. LinkOK /\ Last' = Last
    BY LinkStays DEF StopCard
<1>2. /\ nepc = "stop" /\ nepc' = "boundary" /\ ne' = [ne EXCEPT !.on = FALSE]
      /\ UNCHANGED <<seen, hdr, head, data, rx, tx, txbuf, neleft, heard, wire, wanted>>
    BY DEF StopCard, linkVars
<1>3. NeTypeOK'
    BY <1>2 DEF EInv, EtherTypeOK, NeTypeOK
<1>4. RingStays /\ SenderStays
    BY <1>1, <1>2 DEF EInv, EtherTypeOK, NeTypeOK, RingStays, SenderStays
<1>5. Ring' /\ Incoming' /\ Outgoing'
    BY <1>2, <1>4, RingKept, SenderKept DEF EInv, NeInv, Outgoing, Ring
<1>6. neleft'.opens # NeOpens
    BY <1>2 DEF EInv, NeUnused
<1> QED
    BY <1>1, <1>3, <1>5, <1>6 DEF NeKeeps, NeInv

\* The boundary was there already.
LEMMA BoundaryStep ==
    ASSUME EInv, SetBoundary, astray' = FALSE
    PROVE  LinkOK /\ NeKeeps
<1>1. LinkOK /\ Last' = Last
    BY LinkStays DEF SetBoundary, PutBoundary
<1>2. /\ nepc = "boundary" /\ nepc' = "current" /\ ne' = [ne EXCEPT !.bnry = 0]
      /\ UNCHANGED <<seen, hdr, head, data, rx, tx, txbuf, neleft, heard, wire, wanted>>
    BY DEF SetBoundary, PutBoundary, linkVars
<1>3. NeTypeOK'
    BY <1>2, Constants DEF EInv, EtherTypeOK, NeTypeOK
<1>4. RingStays /\ SenderStays
    BY <1>1, <1>2 DEF EInv, EtherTypeOK, NeTypeOK, RingStays, SenderStays, NeInv, Ring
<1>5. Ring' /\ Incoming' /\ Outgoing'
    BY <1>2, <1>4, RingKept, SenderKept DEF EInv, NeInv, Outgoing, Ring
<1>6. neleft'.opens # NeOpens
    BY <1>2 DEF EInv, NeUnused
<1> QED
    BY <1>1, <1>3, <1>5, <1>6 DEF NeKeeps, NeInv

\* The ring is empty again, when nothing was coming in.
LEMMA CurrentStep ==
    ASSUME EInv, SetCurrent, astray' = FALSE
    PROVE  LinkOK /\ NeKeeps
<1>1. LinkOK
    BY LinkStays DEF SetCurrent, PutCurrent
<1>2. /\ nepc = "current" /\ nepc' = "restart" /\ rx = NoRx
      /\ ne' = [ne EXCEPT !.curr = 0]
      /\ UNCHANGED <<seen, hdr, head, data, rx, tx, txbuf, neleft, heard, wire, wanted>>
    BY DEF SetCurrent, PutCurrent, linkVars
<1>3. NeTypeOK'
    BY <1>2, Constants DEF EInv, EtherTypeOK, NeTypeOK
<1>4. ne'.curr = 0 /\ ne'.bnry = 0 /\ ne'.isr = ne.isr
    BY <1>2 DEF EInv, EtherTypeOK, NeTypeOK, NeInv, Ring
<1>5. Ring' /\ Incoming'
    BY <1>2, <1>4, Constants DEF Ring, Incoming
<1>6. Outgoing'
    BY <1>2, <1>4, SenderKept DEF SenderStays, EInv, NeInv, Outgoing
<1>7. neleft'.opens # NeOpens
    BY <1>2 DEF EInv, NeUnused
<1> QED
    BY <1>1, <1>3, <1>5, <1>6, <1>7 DEF NeKeeps, NeInv

LEMMA RestartStep ==
    ASSUME EInv, Restart, astray' = FALSE
    PROVE  LinkOK /\ NeKeeps
<1>1. LinkOK /\ Last' = Last
    BY LinkStays DEF Restart
<1>2. /\ nepc = "restart" /\ nepc' = "idle" /\ ne' = [ne EXCEPT !.on = TRUE]
      /\ UNCHANGED <<seen, hdr, head, data, rx, tx, txbuf, neleft, heard, wire, wanted>>
    BY DEF Restart, linkVars
<1>3. NeTypeOK'
    BY <1>2 DEF EInv, EtherTypeOK, NeTypeOK
<1>4. RingStays /\ SenderStays
    BY <1>1, <1>2 DEF EInv, EtherTypeOK, NeTypeOK, RingStays, SenderStays
<1>5. Ring' /\ Incoming' /\ Outgoing'
    BY <1>2, <1>4, RingKept, SenderKept DEF EInv, NeInv, Outgoing, Ring
<1>6. neleft'.opens # NeOpens
    BY <1>2 DEF EInv, NeUnused
<1> QED
    BY <1>1, <1>3, <1>5, <1>6 DEF NeKeeps, NeInv

LEMMA AskStep ==
    ASSUME EInv, Ask, astray' = FALSE
    PROVE  LinkOK /\ NeKeeps
<1>1. /\ nepc = "idle" /\ Want /\ wanted < MaxSends
      /\ UNCHANGED <<nepc, seen, hdr, ne, head, data, rx, tx, txbuf, neleft>>
    BY DEF Ask, neVars
<1>2. LinkOK /\ Last' = Last /\ UNCHANGED <<heard, got, wire, told>>
    BY <1>1, Wants
<1>3. NeTypeOK'
    BY <1>1 DEF EInv, EtherTypeOK, NeTypeOK
<1>4. Ring' /\ Incoming'
    BY <1>1, <1>2, RingKept DEF RingStays
<1>5. Outgoing'
    BY <1>1, <1>2 DEF EInv, NeInv, Outgoing
<1>6. neleft'.opens # NeOpens
    BY <1>1 DEF EInv, NeUnused
<1> QED
    BY <1>2, <1>3, <1>4, <1>5, <1>6 DEF NeKeeps, NeInv

LEMMA LoadStep ==
    ASSUME EInv, LoadBuffer, astray' = FALSE
    PROVE  LinkOK /\ NeKeeps
<1>1. LinkOK /\ Last' = Last
    BY LinkStays DEF LoadBuffer
<1>2. /\ nepc = "idle" /\ nepc' = "xmit" /\ wanted > 0 /\ txbuf' = wanted
      /\ ne' = [ne EXCEPT !.on = TRUE]
      /\ UNCHANGED <<seen, hdr, head, data, rx, tx, neleft, heard, wire, wanted>>
    BY DEF LoadBuffer, Sending, linkVars
<1>3. NeTypeOK'
    BY <1>2 DEF EInv, EtherTypeOK, NeTypeOK, LinkTypeOK
<1>4. RingStays /\ ne'.isr = ne.isr
    BY <1>1, <1>2 DEF EInv, EtherTypeOK, NeTypeOK, RingStays
<1>5. Ring' /\ Incoming'
    BY <1>2, <1>4, RingKept
<1>6. Outgoing'
    BY <1>2, <1>4 DEF EInv, NeInv, Outgoing
<1>7. neleft'.opens # NeOpens
    BY <1>2 DEF EInv, NeUnused
<1> QED
    BY <1>1, <1>3, <1>5, <1>6, <1>7 DEF NeKeeps, NeInv

LEMMA StartTransmitStep ==
    ASSUME EInv, StartTransmit, astray' = FALSE
    PROVE  LinkOK /\ NeKeeps
<1>1. LinkOK /\ Last' = Last
    BY LinkStays DEF StartTransmit
<1>2. /\ nepc = "xmit" /\ nepc' = "wait" /\ tx' = IF tx = 0 THEN txbuf ELSE tx
      /\ UNCHANGED <<seen, hdr, ne, head, data, rx, txbuf, neleft, heard, wire, wanted>>
    BY DEF StartTransmit, linkVars
<1>3. NeTypeOK'
    BY <1>2 DEF EInv, EtherTypeOK, NeTypeOK
<1>4. Ring' /\ Incoming'
    BY <1>1, <1>2, RingKept DEF RingStays
<1>5. tx = 0 /\ ne.isr \intersect {"PTX", "TXE"} = {} /\ "PTX" \notin ne.isr
    BY <1>2 DEF EInv, NeInv, Outgoing
<1>6. Outgoing'
    BY <1>2, <1>5 DEF EInv, NeInv, Outgoing
<1>7. neleft'.opens # NeOpens
    BY <1>2 DEF EInv, NeUnused
<1> QED
    BY <1>1, <1>3, <1>4, <1>6, <1>7 DEF NeKeeps, NeInv

\* PTX can only be that of the packet that write is waiting for.
LEMMA ResultStep ==
    ASSUME EInv, WaitForResult, astray' = FALSE
    PROVE  LinkOK /\ NeKeeps
<1>1. /\ nepc = "wait" /\ nepc' = "idle"
      /\ ne.isr \intersect {"PTX", "TXE"} # {}
      /\ ne' = [ne EXCEPT !.isr = @ \ {"PTX", "TXE"}]
      /\ told' = IF "PTX" \in ne.isr THEN told \union {wanted} ELSE told
      /\ UNCHANGED <<seen, hdr, head, data, rx, tx, txbuf, neleft, heard, got, wire, wanted>>
    BY DEF WaitForResult, TakeResult
<1>2. tx = 0 /\ wanted > 0 /\ ("PTX" \in ne.isr => wanted \in wire)
    BY <1>1 DEF EInv, NeInv, Outgoing
<1>3. LinkOK /\ Last' = Last
    BY <1>1, <1>2, Tells
<1>4. NeTypeOK'
    BY <1>1 DEF EInv, EtherTypeOK, NeTypeOK
<1>5. RingStays /\ ne'.isr = ne.isr \ {"PTX", "TXE"}
    BY <1>1, <1>3 DEF EInv, EtherTypeOK, NeTypeOK, RingStays
<1>6. Ring' /\ Incoming'
    BY <1>1, <1>5, RingKept
<1>7. Outgoing'
    BY <1>1, <1>2, <1>5 DEF EInv, NeInv, Outgoing
<1>8. neleft'.opens # NeOpens
    BY <1>1 DEF EInv, NeUnused
<1> QED
    BY <1>3, <1>4, <1>6, <1>7, <1>8 DEF NeKeeps, NeInv

\* A packet is put behind those that are in the ring.
LEMMA ReceiveStartStep ==
    ASSUME EInv, ReceiveStart, astray' = FALSE
    PROVE  LinkOK /\ NeKeeps
<1>1. PICK n \in Sizes :
          /\ HasRoom(n)
          /\ rx' = [pkt |-> heard + 1, at |-> ne.curr, size |-> n]
          /\ data' = [p \in Pages |->
                        IF \E i \in 0 .. n - 1 : p = After(ne.curr, i)
                        THEN <<heard + 1, (p - ne.curr) % RingPages>> ELSE data[p]]
    BY DEF ReceiveStart
<1>2. /\ ne.on
      /\ UNCHANGED <<nepc, seen, hdr, ne, head, tx, txbuf, neleft>>
    BY DEF ReceiveStart
<1>3. Hear /\ heard < MaxHeard
    BY DEF ReceiveStart
<1>4. /\ LinkOK /\ Last' = Last /\ heard' = heard + 1
      /\ heard' \in Last + 1 .. heard' /\ heard' \in 0 .. MaxHeard
      /\ UNCHANGED <<got, wire, told, wanted>>
    BY <1>3, Hears
<1>5. /\ n \in Nat /\ n >= 1 /\ RingPages \in Nat \ {0} /\ Pages = 0 .. RingPages - 1
      /\ ne.curr \in 0 .. RingPages - 1 /\ ne.bnry = 0
      /\ heard \in Nat
  <2>1. n \in Nat /\ n >= 1 /\ RingPages \in Nat \ {0} /\ Pages = 0 .. RingPages - 1
    BY Constants DEF Pages
  <2>2. ne.curr \in 0 .. RingPages - 1 /\ ne.bnry = 0
    BY Constants DEF EInv, NeInv, Ring, Pages
  <2> QED
    BY <2>1, <2>2, Constants DEF EInv, EtherTypeOK, LinkTypeOK
<1>6. /\ ne.curr + n <= RingPages
      /\ \A i \in 0 .. n - 1 : /\ After(ne.curr, i) = ne.curr + i
                               /\ ((ne.curr + i) - ne.curr) % RingPages = i
    BY <1>1, NoWrap DEF EInv, NeInv
<1>7. \A i \in 0 .. n - 1 : data'[ne.curr + i] = <<heard + 1, i>>
  <2> SUFFICES ASSUME NEW i \in 0 .. n - 1
               PROVE  data'[ne.curr + i] = <<heard + 1, i>>
    OBVIOUS
  <2>1. ne.curr + i \in Pages
    <3>1. ne.curr + n <= RingPages
        BY <1>6
    <3>2. ne.curr \in Nat /\ n \in Nat /\ i \in Nat /\ i < n
        BY <1>5
    <3>3. ne.curr + i \in Nat /\ ne.curr + i < RingPages
        BY <1>5, <3>1, <3>2
    <3> QED
        BY <1>5, <3>3
  <2>2. \E j \in 0 .. n - 1 : ne.curr + i = After(ne.curr, j)
    BY <1>6
  <2>3. data'[ne.curr + i] = <<heard + 1, ((ne.curr + i) - ne.curr) % RingPages>>
    BY <1>1, <2>1, <2>2
  <2> QED
    BY <1>6, <2>3
<1>8. \A p \in Pages : p < ne.curr => data'[p] = data[p]
  <2> SUFFICES ASSUME NEW p \in Pages, p < ne.curr
               PROVE  data'[p] = data[p]
    OBVIOUS
  <2>1. \A i \in 0 .. n - 1 : p # After(ne.curr, i)
    BY <1>5, <1>6
  <2> QED
    BY <1>1, <2>1
<1>9. data' \in [Pages -> (0 .. MaxHeard) \X (0 .. RingPages)]
  <2>1. \A x \in Int : x % RingPages \in 0 .. RingPages
    BY <1>5, Remainder
  <2>2. \A p \in Pages : (p - ne.curr) % RingPages \in 0 .. RingPages
    <3> SUFFICES ASSUME NEW p \in Pages
                 PROVE  (p - ne.curr) % RingPages \in 0 .. RingPages
        OBVIOUS
    <3>1. p \in Int /\ ne.curr \in Int
        BY <1>5
    <3>2. p - ne.curr \in Int
        BY <3>1
    <3> QED
        BY <2>1, <3>2
  <2>3. data \in [Pages -> (0 .. MaxHeard) \X (0 .. RingPages)]
    BY DEF EInv, EtherTypeOK, NeTypeOK
  <2>4. heard + 1 \in 0 .. MaxHeard
    BY <1>4
  <2> QED
    BY <1>1, <2>2, <2>3, <2>4
<1>10. NeTypeOK'
  <2>1. rx' \in [pkt : 0 .. MaxHeard, at : Pages, size : Sizes \union {0}]
    BY <1>1, <1>4, <1>5
  <2> QED
    BY <1>2, <1>9, <2>1 DEF EInv, EtherTypeOK, NeTypeOK
<1>11. Ring'
  <2>1. ne.curr # 0 => \A i \in 0 .. head[0].size - 1 : 0 + i \in Pages /\ 0 + i < ne.curr
    BY <1>5 DEF EInv, NeInv, Ring
  <2>2. ne.curr # 0 => Lies(0, head[0].pkt, head[0].size)'
    BY <1>2, <1>8, <2>1 DEF EInv, NeInv, Ring, Lies
  <2>3. ne.curr # 0 => head[0].pkt \in 1 .. heard'
    BY <1>4, <1>5 DEF EInv, NeInv, Ring
  <2> QED
    BY <1>2, <1>4, <2>2, <2>3 DEF EInv, NeInv, Ring
<1>12. Incoming'
  <2>1. ne.curr # 0 => heard + 1 > head[0].pkt
    BY <1>5 DEF EInv, NeInv, Ring
  <2>2. rx'.at = ne.curr /\ rx'.size = n /\ rx'.pkt = heard + 1
    BY <1>1
  <2> QED
    BY <1>2, <1>4, <1>6, <1>7, <2>1, <2>2 DEF Incoming, Lies
<1>13. Outgoing'
    BY <1>2, <1>4 DEF EInv, NeInv, Outgoing
<1>14. neleft'.opens # NeOpens
    BY <1>2 DEF EInv, NeUnused
<1> QED
    BY <1>4, <1>10, <1>11, <1>12, <1>13, <1>14 DEF NeKeeps, NeInv

\* CURR is moved behind the packet, and does not come round to the boundary.
LEMMA ReceiveEndStep ==
    ASSUME EInv, ReceiveEnd, astray' = FALSE
    PROVE  LinkOK /\ NeKeeps
<1>1. LinkOK /\ Last' = Last
    BY LinkStays DEF ReceiveEnd
<1>2. /\ rx # NoRx /\ rx' = NoRx
      /\ head' = [head EXCEPT ![rx.at] = [pkt |-> rx.pkt, size |-> rx.size]]
      /\ ne' = [ne EXCEPT !.curr = After(rx.at, rx.size), !.isr = @ \union {"PRX"}]
      /\ UNCHANGED <<nepc, seen, hdr, data, tx, txbuf, neleft, heard, wire, wanted>>
    BY DEF ReceiveEnd, linkVars
<1>3. /\ rx.at = ne.curr /\ rx.size \in Sizes /\ rx.at + rx.size <= RingPages
      /\ rx.pkt \in Last + 1 .. heard
      /\ Lies(rx.at, rx.pkt, rx.size)
      /\ ne.curr # 0 => rx.pkt > head[0].pkt
    BY <1>2 DEF EInv, NeInv, Incoming
<1>4. /\ RingPages \in Nat \ {0} /\ Pages = 0 .. RingPages - 1
      /\ rx.size \in Nat /\ rx.size >= 1 /\ ne.curr \in 0 .. RingPages - 1
      /\ rx.at + rx.size \in 0 .. RingPages - 1
      /\ Last \in Nat /\ heard \in 0 .. MaxHeard /\ MaxHeard \in Nat
  <2>1. RingPages \in Nat \ {0} /\ Pages = 0 .. RingPages - 1
    BY Constants DEF Pages
  <2>3. ne.curr \in 0 .. RingPages - 1 /\ ne.bnry = 0
    BY Constants DEF EInv, NeInv, Ring, Pages
  <2>5. rx.size \in 1 .. RingPages
    BY <1>3, Constants
  <2>6. After(rx.at, rx.size) # 0
    BY <2>3 DEF ReceiveEnd
  <2>7. rx.at + rx.size # RingPages
    <3>1. RingPages % RingPages = 0
        BY <2>1
    <3> QED
        BY <2>6, <3>1 DEF After
  <2>2. rx.size \in 1 .. RingPages /\ rx.at + rx.size \in 0 .. RingPages - 1
    BY <1>3, <2>1, <2>3, <2>5, <2>7
  <2>4. Last \in Nat /\ heard \in 0 .. MaxHeard /\ MaxHeard \in Nat
    BY Constants DEF EInv, GotOK, EtherTypeOK, LinkTypeOK
  <2> QED
    BY <2>1, <2>2, <2>3, <2>4
<1>5. After(rx.at, rx.size) = rx.at + rx.size
  <2>1. \A x \in 0 .. RingPages - 1 : x % RingPages = x
    BY <1>4
  <2> QED
    BY <1>4, <2>1 DEF After
<1>6. /\ ne'.curr = ne.curr + rx.size /\ ne'.bnry = ne.bnry
      /\ ne'.isr = ne.isr \union {"PRX"}
    BY <1>2, <1>3, <1>5 DEF EInv, EtherTypeOK, NeTypeOK
<1>7. NeTypeOK'
  <2>1. [pkt |-> rx.pkt, size |-> rx.size] \in Headers
    BY DEF EInv, EtherTypeOK, NeTypeOK, Headers
  <2>2. head' \in [Pages -> Headers]
    BY <1>2, <2>1 DEF EInv, EtherTypeOK, NeTypeOK
  <2>3. ne' \in [on : BOOLEAN, isr : SUBSET Bits, bnry : Pages, curr : Pages]
    BY <1>2, <1>4, <1>5 DEF EInv, EtherTypeOK, NeTypeOK, Bits
  <2>4. rx' \in [pkt : 0 .. MaxHeard, at : Pages, size : Sizes \union {0}]
    BY <1>2, Constants DEF NoRx
  <2> QED
    BY <1>2, <2>2, <2>3, <2>4 DEF EInv, EtherTypeOK, NeTypeOK
<1>8. head'[0] = IF ne.curr = 0 THEN [pkt |-> rx.pkt, size |-> rx.size] ELSE head[0]
    BY <1>2, <1>3, <1>4, Constants DEF EInv, EtherTypeOK, NeTypeOK
<1>9. Ring'
  <2>1. ne'.bnry = 0 /\ ne'.curr \in Pages
    BY <1>3, <1>4, <1>6 DEF EInv, NeInv, Ring
  <2>2. ne'.curr # 0
    BY <1>4, <1>6
  <2>3. CASE ne.curr = 0
    <3>1. head'[0].size = rx.size /\ head'[0].pkt = rx.pkt
        BY <1>8, <2>3
    <3>2. /\ head'[0].size \in 1 .. ne'.curr /\ head'[0].pkt \in 1 .. heard'
          /\ head'[0].pkt > Last'
        BY <1>1, <1>2, <1>3, <1>4, <1>6, <2>3, <3>1
    <3>3. Lies(0, head[0].pkt, head[0].size)'
        BY <1>2, <1>3, <2>3, <3>1 DEF Lies
    <3>4. nepc' \notin {"header", "copy", "stop", "boundary", "current"}
        BY <1>2, <2>3 DEF EInv, NeInv, Ring
    <3> QED
        BY <2>1, <2>2, <3>2, <3>3, <3>4 DEF Ring
  <2>4. CASE ne.curr # 0
    <3>1. head'[0] = head[0]
        BY <1>8, <2>4
    <3>2. head'[0].size \in 1 .. ne'.curr
        BY <1>4, <1>6, <2>4, <3>1 DEF EInv, NeInv, Ring
    <3> QED
        BY <1>1, <1>2, <2>1, <2>2, <2>4, <3>1, <3>2 DEF EInv, NeInv, Ring, Lies
  <2> QED
    BY <2>3, <2>4
<1>10. Incoming'
    BY <1>2 DEF Incoming
<1>11. Outgoing'
    BY <1>2, <1>6 DEF EInv, NeInv, Outgoing
<1>12. neleft'.opens # NeOpens
    BY <1>2 DEF EInv, NeUnused
<1> QED
    BY <1>1, <1>7, <1>9, <1>10, <1>11, <1>12 DEF NeKeeps, NeInv

LEMMA ReceiveErrorStep ==
    ASSUME EInv, ReceiveError, astray' = FALSE
    PROVE  LinkOK /\ NeKeeps
<1>1. LinkOK /\ Last' = Last
    BY LinkStays DEF ReceiveError
<1>2. /\ rx # NoRx /\ rx' = NoRx
      /\ UNCHANGED <<nepc, seen, hdr, ne, head, data, tx, txbuf, neleft, heard, wire, wanted>>
    BY DEF ReceiveError, linkVars
<1>3. NeTypeOK'
  <2>1. rx' \in [pkt : 0 .. MaxHeard, at : Pages, size : Sizes \union {0}]
    BY <1>2, Constants DEF NoRx
  <2> QED
    BY <1>2, <2>1 DEF EInv, EtherTypeOK, NeTypeOK
<1>4. Ring' /\ Incoming' /\ Outgoing'
    BY <1>1, <1>2 DEF EInv, NeInv, Ring, Incoming, Outgoing, Lies
<1>5. neleft'.opens # NeOpens
    BY <1>2 DEF EInv, NeUnused
<1> QED
    BY <1>1, <1>3, <1>4, <1>5 DEF NeKeeps, NeInv

\* The card sends what write has been given.
LEMMA TransmitEndStep ==
    ASSUME EInv, TransmitEnd, astray' = FALSE
    PROVE  LinkOK /\ NeKeeps
<1>1. /\ tx # 0 /\ tx' = 0
      /\ wire' = wire \union {IF txbuf = tx THEN tx ELSE Garbled}
      /\ ne' = [ne EXCEPT !.isr = @ \union {"PTX"}]
      /\ UNCHANGED <<nepc, seen, hdr, head, data, rx, txbuf, neleft, heard, got, told, wanted>>
    BY DEF TransmitEnd
<1>2. nepc = "wait" /\ tx = txbuf /\ txbuf = wanted /\ wanted > 0
    BY <1>1 DEF EInv, NeInv, Outgoing
<1>3. wire' = wire \union {wanted} /\ wanted \in 1 .. wanted
    BY <1>1, <1>2, Constants DEF EInv, EtherTypeOK, LinkTypeOK
<1>4. LinkOK /\ Last' = Last
    BY <1>1, <1>3, Transmits
<1>5. NeTypeOK'
  <2>1. ne' \in [on : BOOLEAN, isr : SUBSET Bits, bnry : Pages, curr : Pages]
    BY <1>1 DEF EInv, EtherTypeOK, NeTypeOK, Bits
  <2>2. tx' \in 0 .. MaxSends
    BY <1>1, Constants
  <2> QED
    BY <1>1, <2>1, <2>2 DEF EInv, EtherTypeOK, NeTypeOK
<1>6. RingStays /\ ne'.isr = ne.isr \union {"PTX"}
    BY <1>1, <1>4 DEF EInv, EtherTypeOK, NeTypeOK, RingStays
<1>7. Ring' /\ Incoming'
    BY <1>1, <1>2, <1>6, RingKept
<1>8. Outgoing'
    BY <1>1, <1>2, <1>3, <1>6 DEF EInv, NeInv, Outgoing
<1>9. neleft'.opens # NeOpens
    BY <1>1 DEF EInv, NeUnused
<1> QED
    BY <1>4, <1>5, <1>7, <1>8, <1>9 DEF NeKeeps, NeInv

LEMMA TransmitErrorStep ==
    ASSUME EInv, TransmitError, astray' = FALSE
    PROVE  LinkOK /\ NeKeeps
<1>1. LinkOK /\ Last' = Last
    BY LinkStays DEF TransmitError
<1>2. /\ tx # 0 /\ tx' = 0
      /\ ne' = [ne EXCEPT !.isr = @ \union {"TXE"}]
      /\ neleft.errors > 0 /\ neleft' = [neleft EXCEPT !.errors = @ - 1]
      /\ UNCHANGED <<nepc, seen, hdr, head, data, rx, txbuf, heard, wire, wanted>>
    BY DEF TransmitError, linkVars
<1>3. nepc = "wait"
    BY <1>2 DEF EInv, NeInv, Outgoing
<1>4. NeTypeOK'
  <2>1. neleft' \in [opens : 0 .. NeOpens, errors : 0 .. NeErrors]
    BY <1>2, Constants DEF EInv, EtherTypeOK, NeTypeOK
  <2>2. ne' \in [on : BOOLEAN, isr : SUBSET Bits, bnry : Pages, curr : Pages]
    BY <1>2 DEF EInv, EtherTypeOK, NeTypeOK, Bits
  <2>3. tx' \in 0 .. MaxSends
    BY <1>2, Constants
  <2> QED
    BY <1>2, <2>1, <2>2, <2>3 DEF EInv, EtherTypeOK, NeTypeOK
<1>5. RingStays /\ ne'.isr = ne.isr \union {"TXE"} /\ neleft'.opens = neleft.opens
    BY <1>1, <1>2 DEF EInv, EtherTypeOK, NeTypeOK, RingStays
<1>6. Ring' /\ Incoming'
    BY <1>2, <1>3, <1>5, RingKept
<1>7. Outgoing'
    BY <1>2, <1>3, <1>5 DEF EInv, NeInv, Outgoing
<1>8. neleft'.opens # NeOpens
    BY <1>2, <1>5 DEF EInv, NeUnused
<1> QED
    BY <1>1, <1>4, <1>6, <1>7, <1>8 DEF NeKeeps, NeInv

LEMMA NeStep ==
    ASSUME EInv, NeNext, astray' = FALSE
    PROVE  LinkOK /\ NeKeeps
<1>1. CASE NeRead
    BY <1>1, PollStep, AckStep, CompareStep, HeaderStep, CopyStep,
       StopStep, BoundaryStep, CurrentStep, RestartStep DEF NeRead, ResetRing
<1>2. CASE NeWrite
    BY <1>2, LoadStep, StartTransmitStep, ResultStep DEF NeWrite
<1>3. CASE NeCard
    BY <1>3, ReceiveStartStep, ReceiveEndStep, ReceiveErrorStep, TransmitEndStep,
       TransmitErrorStep DEF NeCard
<1> QED
    BY <1>1, <1>2, <1>3, NeOpenStep, NeCloseStep, AskStep DEF NeNext

-----------------------------------------------------------------------------
(* The steps of the DEC 2104x and its driver.                                *)

DecKeeps == DecTypeOK' /\ DecInv' /\ (decleft'.opens = DecOpens => DecUnused')

LEMMA DecTypes ==
    ASSUME EInv
    PROVE  /\ recv.own \in BOOLEAN /\ recv.error \in BOOLEAN
           /\ recv.buf \in (0 .. MaxHeard) \union {Partly}
           /\ recv = [own |-> recv.own, error |-> recv.error, buf |-> recv.buf]
           /\ send.own \in BOOLEAN /\ send.error \in BOOLEAN /\ send.buf \in 0 .. Setup
           /\ send = [own |-> send.own, error |-> send.error, buf |-> send.buf]
           /\ csr \in BOOLEAN /\ rxing \in 0 .. MaxHeard /\ txing \in 0 .. Setup
           /\ wanted \in 0 .. MaxSends /\ Setup \in Nat /\ Setup > MaxSends
           /\ Last \in Nat /\ heard \in 0 .. MaxHeard
           /\ decleft.opens \in 0 .. DecOpens /\ decleft.errors \in 0 .. DecErrors
           /\ 0 \in 0 .. MaxHeard /\ Setup \in 0 .. Setup
           /\ None \in 0 .. MaxHeard /\ None \in 0 .. Setup
<1>1. EtherTypeOK /\ GotOK
    BY DEF EInv
<1>2. heard \in 0 .. MaxHeard /\ wanted \in 0 .. MaxSends /\ Last \in Nat
    BY <1>1, Constants DEF EtherTypeOK, LinkTypeOK, GotOK
<1>3. Setup \in Nat /\ Setup > MaxSends
    BY Constants DEF Setup
<1>4. /\ 0 \in 0 .. MaxHeard /\ Setup \in 0 .. Setup
      /\ None \in 0 .. MaxHeard /\ None \in 0 .. Setup
    BY <1>3, Constants DEF None
<1> QED
    BY <1>1, <1>2, <1>3, <1>4 DEF EtherTypeOK, DecTypeOK

LEMMA DecRests ==
    ASSUME EInv, DecUnused, UNCHANGED decVars, LinkOK
    PROVE  DecKeeps
<1>1. UNCHANGED <<decpc, recv, send, csr, rxing, txing, decleft>>
    BY DEF decVars
<1>2. wanted' \in Nat /\ wanted' >= wanted
    BY Constants DEF LinkOK, LinkTypeOK
<1>3. DecTypeOK'
    BY <1>1 DEF EInv, EtherTypeOK, DecTypeOK
<1>4. Received'
    BY <1>1 DEF DecUnused, Received
<1>5. Sent'
  <2>1. send.own => send.buf \in 1 .. wanted' \union {Setup}
    BY <1>2, DecTypes DEF EInv, DecInv, Sent
  <2> QED
    BY <1>1, <2>1 DEF DecUnused, Sent
<1>6. DecUnused'
    BY <1>1 DEF DecUnused
<1> QED
    BY <1>3, <1>4, <1>5, <1>6 DEF DecKeeps, DecInv

\* What is received, and what is sent, is left alone.
ReceivedKept == /\ UNCHANGED <<recv, rxing, heard>> /\ Last' = Last
                /\ decpc' \in {"closed", "copied"} <=> decpc \in {"closed", "copied"}
SentKept == /\ UNCHANGED <<send, txing, wanted, wire>>
            /\ decpc' \in {"sending", "result"} => decpc \in {"sending", "result"}

LEMMA DecKept ==
    ASSUME EInv
    PROVE  /\ ReceivedKept => Received'
           /\ SentKept => Sent'
<1>1. ASSUME ReceivedKept
      PROVE  Received'
    BY <1>1 DEF EInv, DecInv, ReceivedKept, Received
<1>2. ASSUME SentKept
      PROVE  Sent'
    BY <1>2 DEF EInv, DecInv, SentKept, Sent
<1> QED
    BY <1>1, <1>2

LEMMA DecOpenStep ==
    ASSUME EInv, f_ether_open
    PROVE  LinkOK /\ DecKeeps
<1>1. LinkOK
    BY LinkStays DEF f_ether_open
<1>2. /\ decpc = "closed" /\ decleft.opens > 0 /\ decpc' = "setup"
      /\ recv' = [own |-> TRUE, error |-> FALSE, buf |-> 0]
      /\ send' = [own |-> TRUE, error |-> FALSE, buf |-> Setup]
      /\ csr' = FALSE /\ rxing' = None /\ txing' = None
      /\ decleft' = [decleft EXCEPT !.opens = @ - 1]
    BY DEF f_ether_open, NoDescriptor
<1>3. decleft' \in [opens : 0 .. DecOpens, errors : 0 .. DecErrors]
      /\ decleft'.opens # DecOpens
    BY <1>2, Constants DEF EInv, EtherTypeOK, DecTypeOK
<1>4. DecTypeOK'
  <2>1. /\ recv' \in [own : BOOLEAN, error : BOOLEAN, buf : (0 .. MaxHeard) \union {Partly}]
        /\ send' \in [own : BOOLEAN, error : BOOLEAN, buf : 0 .. Setup]
    BY <1>2, DecTypes
  <2> QED
    BY <1>2, <1>3, <2>1, DecTypes DEF DecTypeOK
<1>5. Received'
    BY <1>2 DEF Received
<1>6. Sent'
    BY <1>2 DEF Sent
<1> QED
    BY <1>1, <1>3, <1>4, <1>5, <1>6 DEF DecKeeps, DecInv

LEMMA OpenDoneStep ==
    ASSUME EInv, OpenDone
    PROVE  LinkOK /\ DecKeeps
<1>1. LinkOK /\ Last' = Last
    BY LinkStays DEF OpenDone
<1>2. /\ decpc = "setup" /\ decpc' = "idle" /\ csr' = FALSE
      /\ UNCHANGED <<recv, send, rxing, txing, decleft, heard, wire, wanted>>
    BY DEF OpenDone, linkVars
<1>3. DecTypeOK' /\ decleft'.opens # DecOpens
    BY <1>2 DEF EInv, EtherTypeOK, DecTypeOK, DecUnused
<1>4. Received' /\ Sent'
    BY <1>1, <1>2, DecKept DEF ReceivedKept, SentKept
<1> QED
    BY <1>1, <1>3, <1>4 DEF DecKeeps, DecInv

LEMMA DecCloseStep ==
    ASSUME EInv, f_ether_close
    PROVE  LinkOK /\ DecKeeps
<1>1. LinkOK /\ Last' = Last
    BY LinkStays DEF f_ether_close
<1>2. /\ decpc = "idle" /\ decpc' = "closed" /\ csr' = FALSE
      /\ rxing' = None /\ txing' = None
      /\ UNCHANGED <<recv, send, decleft, heard, wire, wanted>>
    BY DEF f_ether_close, linkVars
<1>3. DecTypeOK' /\ decleft'.opens # DecOpens
    BY <1>2, DecTypes DEF EInv, EtherTypeOK, DecTypeOK, DecUnused
<1>4. Received' /\ Sent'
    BY <1>2 DEF EInv, DecInv, Received, Sent
<1> QED
    BY <1>1, <1>3, <1>4 DEF DecKeeps, DecInv

\* The frame that is copied is whole, and newer than all that were read.
LEMMA CopyFrameStep ==
    ASSUME EInv, CopyFrame
    PROVE  LinkOK /\ DecKeeps
<1>1. /\ decpc = "idle" /\ ~recv.own /\ decpc' = "copied"
      /\ got' = IF recv.error THEN got
                ELSE Append(got, IF recv.buf = Partly THEN Garbled ELSE recv.buf)
      /\ UNCHANGED <<recv, send, csr, rxing, txing, decleft, heard, wire, told, wanted>>
    BY DEF CopyFrame, Copy
<1>2. rxing = None
    BY <1>1 DEF EInv, DecInv, Received
<1>3. LinkOK
  <2>1. CASE recv.error
    BY <1>1, <2>1, LinkStays DEF linkVars
  <2>2. CASE ~recv.error
    <3>1. recv.buf \in Last + 1 .. heard
        BY <1>1, <2>2 DEF EInv, DecInv, Received
    <3>2. recv.buf # Partly
        BY <3>1, DecTypes DEF Partly
    <3> QED
        BY <1>1, <2>2, <3>1, <3>2, Delivers
  <2> QED
    BY <2>1, <2>2
<1>4. DecTypeOK' /\ decleft'.opens # DecOpens
    BY <1>1 DEF EInv, EtherTypeOK, DecTypeOK, DecUnused
<1>5. Received'
    BY <1>1, <1>2 DEF Received
<1>6. Sent'
    BY <1>1, DecKept DEF SentKept
<1> QED
    BY <1>3, <1>4, <1>5, <1>6 DEF DecKeeps, DecInv

LEMMA GiveBackStep ==
    ASSUME EInv, GiveBack
    PROVE  LinkOK /\ DecKeeps
<1>1. LinkOK /\ Last' = Last
    BY LinkStays DEF GiveBack
<1>2. /\ decpc = "copied" /\ decpc' = "idle" /\ csr' = FALSE
      /\ recv' = [recv EXCEPT !.own = TRUE, !.error = FALSE]
      /\ UNCHANGED <<send, rxing, txing, decleft, heard, wire, wanted>>
    BY DEF GiveBack, linkVars
<1>3. DecTypeOK' /\ decleft'.opens # DecOpens
    BY <1>2 DEF EInv, EtherTypeOK, DecTypeOK, DecUnused
<1>4. Received'
  <2>1. recv'.own = TRUE
    BY <1>2, DecTypes
  <2> QED
    BY <1>1, <1>2, <2>1 DEF EInv, DecInv, Received
<1>5. Sent'
    BY <1>2, DecKept DEF SentKept
<1> QED
    BY <1>1, <1>3, <1>4, <1>5 DEF DecKeeps, DecInv

LEMMA DecAskStep ==
    ASSUME EInv, DecAsk
    PROVE  LinkOK /\ DecKeeps
<1>1. /\ decpc = "idle" /\ Want /\ wanted < MaxSends
      /\ UNCHANGED <<decpc, recv, send, csr, rxing, txing, decleft>>
    BY DEF DecAsk, decVars
<1>2. LinkOK /\ Last' = Last /\ UNCHANGED <<heard, got, wire, told>> /\ wanted' = wanted + 1
    BY <1>1, Wants DEF Want
<1>3. DecTypeOK' /\ decleft'.opens # DecOpens
    BY <1>1 DEF EInv, EtherTypeOK, DecTypeOK, DecUnused
<1>4. Received'
    BY <1>1, <1>2, DecKept DEF ReceivedKept
<1>5. Sent'
  <2>1. send.own => send.buf \in 1 .. wanted + 1 \union {Setup}
    BY DecTypes, Constants DEF EInv, DecInv, Sent
  <2> QED
    BY <1>1, <1>2, <2>1 DEF EInv, DecInv, Sent
<1> QED
    BY <1>2, <1>3, <1>4, <1>5 DEF DecKeeps, DecInv

LEMMA FillStep ==
    ASSUME EInv, FillBuffer
    PROVE  LinkOK /\ DecKeeps
<1>1. LinkOK /\ Last' = Last
    BY LinkStays DEF FillBuffer
<1>2. /\ decpc = "idle" /\ decpc' = "sending" /\ wanted > 0 /\ ~send.own /\ csr' = FALSE
      /\ send' = [own |-> TRUE, error |-> FALSE, buf |-> wanted]
      /\ UNCHANGED <<recv, rxing, txing, decleft, heard, wire, wanted>>
    BY DEF FillBuffer, Sending, linkVars
<1>3. wanted \in 1 .. wanted /\ wanted \in 0 .. Setup /\ txing = None
    BY <1>2, DecTypes, Constants DEF EInv, DecInv, Sent
<1>4. DecTypeOK' /\ decleft'.opens # DecOpens
    BY <1>2, <1>3 DEF EInv, EtherTypeOK, DecTypeOK, DecUnused
<1>5. Received'
    BY <1>1, <1>2, DecKept DEF ReceivedKept
<1>6. Sent'
    BY <1>2, <1>3 DEF Sent
<1> QED
    BY <1>1, <1>4, <1>5, <1>6 DEF DecKeeps, DecInv

LEMMA WaitStep ==
    ASSUME EInv, WaitForChip
    PROVE  LinkOK /\ DecKeeps
<1>1. LinkOK /\ Last' = Last
    BY LinkStays DEF WaitForChip
<1>2. /\ decpc = "sending" /\ decpc' = "result"
      /\ UNCHANGED <<recv, send, csr, rxing, txing, decleft, heard, wire, wanted>>
    BY DEF WaitForChip, linkVars
<1>3. DecTypeOK' /\ decleft'.opens # DecOpens
    BY <1>2 DEF EInv, EtherTypeOK, DecTypeOK, DecUnused
<1>4. Received' /\ Sent'
    BY <1>1, <1>2, DecKept DEF ReceivedKept, SentKept
<1> QED
    BY <1>1, <1>3, <1>4 DEF DecKeeps, DecInv

\* A frame is reported sent only when the chip has sent that very frame.
LEMMA ReportStep ==
    ASSUME EInv, ReportResult
    PROVE  LinkOK /\ DecKeeps
<1> DEFINE sent == ~send.own /\ ~send.error /\ ~csr
<1>1. /\ decpc = "result" /\ decpc' = "idle" /\ csr' = FALSE
      /\ told' = IF sent THEN told \union {wanted} ELSE told
      /\ UNCHANGED <<recv, send, rxing, txing, decleft, heard, got, wire, wanted>>
    BY DEF ReportResult, Report
<1>2. wanted > 0 /\ (sent => wanted \in wire)
    BY <1>1 DEF EInv, DecInv, Sent
<1> HIDE DEF sent
<1>3. LinkOK /\ Last' = Last
    BY <1>1, <1>2, Tells
<1>4. DecTypeOK' /\ decleft'.opens # DecOpens
    BY <1>1 DEF EInv, EtherTypeOK, DecTypeOK, DecUnused
<1>5. Received' /\ Sent'
    BY <1>1, <1>3, DecKept DEF ReceivedKept, SentKept
<1> QED
    BY <1>3, <1>4, <1>5 DEF DecKeeps, DecInv

LEMMA FrameStartStep ==
    ASSUME EInv, FrameStart
    PROVE  LinkOK /\ DecKeeps
<1>1. /\ decpc # "closed" /\ recv.own /\ Hear /\ heard < MaxHeard
      /\ rxing' = heard + 1 /\ recv' = [recv EXCEPT !.buf = Partly]
      /\ UNCHANGED <<decpc, send, csr, txing, decleft>>
    BY DEF FrameStart
<1>2. /\ LinkOK /\ Last' = Last /\ heard' = heard + 1
      /\ heard' \in Last + 1 .. heard' /\ heard' \in 0 .. MaxHeard
      /\ UNCHANGED <<got, wire, told, wanted>>
    BY <1>1, Hears
<1>3. DecTypeOK' /\ decleft'.opens # DecOpens
    BY <1>1, <1>2 DEF EInv, EtherTypeOK, DecTypeOK, DecUnused
<1>4. Received'
  <2>1. recv'.own = TRUE
    BY <1>1, DecTypes
  <2> QED
    BY <1>1, <1>2, <2>1 DEF Received
<1>5. Sent'
    BY <1>1, <1>2, DecKept DEF SentKept
<1> QED
    BY <1>2, <1>3, <1>4, <1>5 DEF DecKeeps, DecInv

LEMMA FrameEndStep ==
    ASSUME EInv, NEW bad \in BOOLEAN, FrameEnd(bad)
    PROVE  LinkOK /\ DecKeeps
<1>1. LinkOK /\ Last' = Last
    BY LinkStays DEF FrameEnd
<1>2. /\ rxing # None /\ rxing' = None
      /\ recv' = [own |-> FALSE, error |-> bad, buf |-> rxing]
      /\ UNCHANGED <<decpc, send, csr, txing, decleft, heard, wire, wanted>>
    BY DEF FrameEnd, linkVars
<1>3. DecTypeOK' /\ decleft'.opens # DecOpens
  <2>1. recv' \in [own : BOOLEAN, error : BOOLEAN, buf : (0 .. MaxHeard) \union {Partly}]
    BY <1>2, DecTypes
  <2> QED
    BY <1>2, <2>1, DecTypes DEF EInv, EtherTypeOK, DecTypeOK, DecUnused
<1>4. Received'
  <2>1. rxing \in Last + 1 .. heard
    BY <1>2 DEF EInv, DecInv, Received
  <2> QED
    BY <1>1, <1>2, <2>1 DEF Received
<1>5. Sent'
    BY <1>2, DecKept DEF SentKept
<1> QED
    BY <1>1, <1>3, <1>4, <1>5 DEF DecKeeps, DecInv

LEMMA FetchStep ==
    ASSUME EInv, Fetch
    PROVE  LinkOK /\ DecKeeps
<1>1. LinkOK /\ Last' = Last
    BY LinkStays DEF Fetch
<1>2. /\ decpc # "closed" /\ send.own /\ txing' = send.buf
      /\ UNCHANGED <<decpc, recv, send, csr, rxing, decleft, heard, wire, wanted>>
    BY DEF Fetch, linkVars
<1>3. DecTypeOK' /\ decleft'.opens # DecOpens
    BY <1>2, DecTypes DEF EInv, EtherTypeOK, DecTypeOK, DecUnused
<1>4. Received'
    BY <1>1, <1>2, DecKept DEF ReceivedKept
<1>5. Sent'
    BY <1>2 DEF EInv, DecInv, Sent
<1> QED
    BY <1>1, <1>3, <1>4, <1>5 DEF DecKeeps, DecInv

\* The chip sends what write has been given, and the setup frame not at all.
LEMMA FrameSentStep ==
    ASSUME EInv, FrameSent
    PROVE  LinkOK /\ DecKeeps
<1>1. /\ txing # None /\ txing' = None
      /\ wire' = wire \union (IF txing # send.buf THEN {Garbled} ELSE {txing} \ {Setup})
      /\ send' = [send EXCEPT !.own = FALSE]
      /\ UNCHANGED <<decpc, recv, csr, rxing, decleft, heard, got, told, wanted>>
    BY DEF FrameSent
<1>2. txing = send.buf /\ send.own /\ send.buf \in 1 .. wanted \union {Setup}
    BY <1>1 DEF EInv, DecInv, Sent
<1>3. /\ LinkOK /\ Last' = Last
      /\ send.buf # Setup => wire' = wire \union {send.buf}
  <2>1. CASE send.buf = Setup
    <3>1. wire' = wire
        BY <1>1, <1>2, <2>1
    <3> QED
        BY <1>1, <2>1, <3>1, LinkStays DEF linkVars
  <2>2. CASE send.buf # Setup
    <3>1. wire' = wire \union {send.buf} /\ send.buf \in 1 .. wanted
        BY <1>1, <1>2, <2>2
    <3> QED
        BY <1>1, <3>1, Transmits
  <2> QED
    BY <2>1, <2>2
<1>4. DecTypeOK' /\ decleft'.opens # DecOpens
    BY <1>1, DecTypes DEF EInv, EtherTypeOK, DecTypeOK, DecUnused
<1>5. Received'
    BY <1>1, <1>3, DecKept DEF ReceivedKept
<1>6. Sent'
  <2>1. send'.own = FALSE /\ send'.buf = send.buf /\ wanted # Setup
    BY <1>1, DecTypes, Constants
  <2> QED
    BY <1>1, <1>3, <2>1 DEF EInv, DecInv, Sent
<1> QED
    BY <1>3, <1>4, <1>5, <1>6 DEF DecKeeps, DecInv

LEMMA FrameFailedStep ==
    ASSUME EInv, FrameFailed
    PROVE  LinkOK /\ DecKeeps
<1>1. LinkOK /\ Last' = Last
    BY LinkStays DEF FrameFailed
<1>2. /\ txing # None /\ txing' = None
      /\ send' = [send EXCEPT !.own = FALSE, !.error = TRUE]
      /\ decleft.errors > 0 /\ decleft' = [decleft EXCEPT !.errors = @ - 1]
      /\ UNCHANGED <<decpc, recv, csr, rxing, heard, wire, wanted>>
    BY DEF FrameFailed, linkVars
<1>3. /\ decleft' \in [opens : 0 .. DecOpens, errors : 0 .. DecErrors]
      /\ decleft'.opens = decleft.opens
    BY <1>2, Constants DEF EInv, EtherTypeOK, DecTypeOK
<1>4. DecTypeOK' /\ decleft'.opens # DecOpens
    BY <1>2, <1>3, DecTypes DEF EInv, EtherTypeOK, DecTypeOK, DecUnused
<1>5. Received'
    BY <1>1, <1>2, DecKept DEF ReceivedKept
<1>6. Sent'
  <2>1. send'.own = FALSE /\ send'.error = TRUE /\ send'.buf = send.buf
    BY <1>2, DecTypes
  <2> QED
    BY <1>2, <2>1 DEF EInv, DecInv, Sent
<1> QED
    BY <1>1, <1>4, <1>5, <1>6 DEF DecKeeps, DecInv

LEMMA TroubleStep ==
    ASSUME EInv, LinkTrouble
    PROVE  LinkOK /\ DecKeeps
<1>1. LinkOK /\ Last' = Last
    BY LinkStays DEF LinkTrouble
<1>2. /\ decpc # "closed" /\ csr' = TRUE
      /\ decleft.errors > 0 /\ decleft' = [decleft EXCEPT !.errors = @ - 1]
      /\ UNCHANGED <<decpc, recv, send, rxing, txing, heard, wire, wanted>>
    BY DEF LinkTrouble, linkVars
<1>3. /\ decleft' \in [opens : 0 .. DecOpens, errors : 0 .. DecErrors]
      /\ decleft'.opens = decleft.opens
    BY <1>2, Constants DEF EInv, EtherTypeOK, DecTypeOK
<1>4. DecTypeOK' /\ decleft'.opens # DecOpens
    BY <1>2, <1>3 DEF EInv, EtherTypeOK, DecTypeOK, DecUnused
<1>5. Received' /\ Sent'
    BY <1>1, <1>2, DecKept DEF ReceivedKept, SentKept
<1> QED
    BY <1>1, <1>4, <1>5 DEF DecKeeps, DecInv

LEMMA DecStep ==
    ASSUME EInv, DecNext
    PROVE  LinkOK /\ DecKeeps
<1>1. CASE DecRead
    BY <1>1, CopyFrameStep, GiveBackStep DEF DecRead
<1>2. CASE DecWrite
    BY <1>2, FillStep, WaitStep, ReportStep DEF DecWrite
<1>3. CASE DecReceives
    BY <1>3, FrameEndStep DEF DecReceives
<1>4. CASE DecSends
    BY <1>4, FetchStep, FrameSentStep, FrameFailedStep DEF DecSends
<1> QED
    BY <1>1, <1>2, <1>3, <1>4, DecOpenStep, OpenDoneStep, DecCloseStep, DecAskStep,
       FrameStartStep, TroubleStep DEF DecNext

-----------------------------------------------------------------------------
(* A station with either card.                                               *)

LEMMA MissStep ==
    ASSUME EInv, Miss, UNCHANGED <<neVars, decVars>>, astray' = FALSE
    PROVE  LinkOK /\ NeKeeps /\ DecKeeps
<1>1. /\ LinkOK /\ Last' = Last /\ heard' = heard + 1 /\ heard \in Nat
      /\ UNCHANGED <<got, wire, told, wanted>>
    BY Hears, DecTypes DEF Miss
<1>2. /\ UNCHANGED <<nepc, seen, hdr, ne, head, data, rx, tx, txbuf, neleft>>
      /\ UNCHANGED <<decpc, recv, send, csr, rxing, txing, decleft>>
    BY DEF neVars, decVars
<1>3. NeTypeOK' /\ DecTypeOK'
  <2>1. NeTypeOK'
    BY <1>2 DEF EInv, EtherTypeOK, NeTypeOK
  <2>2. DecTypeOK'
    BY <1>2 DEF EInv, EtherTypeOK, DecTypeOK
  <2> QED
    BY <2>1, <2>2
<1>4. Ring' /\ Outgoing' /\ Sent'
    BY <1>1, <1>2 DEF EInv, NeInv, DecInv, Ring, Lies, Outgoing, Sent
<1>5. Incoming'
    BY <1>1, <1>2, DecTypes DEF EInv, NeInv, Incoming, Lies
<1>6. Received'
    BY <1>1, <1>2, DecTypes DEF EInv, DecInv, Received
<1>7. /\ neleft'.opens = NeOpens => NeUnused'
      /\ decleft'.opens = DecOpens => DecUnused'
    BY <1>2 DEF EInv, NeUnused, DecUnused
<1> QED
    BY <1>1, <1>3, <1>4, <1>5, <1>6, <1>7 DEF NeKeeps, DecKeeps, NeInv, DecInv

LEMMA EtherInvInit ==
    ASSUME EtherInit
    PROVE  EInv
<1>1. /\ heard = 0 /\ got = <<>> /\ wire = {} /\ told = {} /\ wanted = 0
    BY DEF EtherInit, LinkInit
<1>2. LinkTypeOK /\ GotOK
    BY <1>1, Constants DEF LinkTypeOK, GotOK, Last
<1>3. /\ nepc = "closed" /\ seen = {} /\ rx = NoRx /\ tx = 0 /\ txbuf = 0
      /\ ne = [on |-> FALSE, isr |-> {}, bnry |-> 0, curr |-> 0]
      /\ head = [p \in Pages |-> NoHeader] /\ hdr = NoHeader
      /\ data = [p \in Pages |-> <<0, 0>>]
      /\ neleft = [opens |-> NeOpens, errors |-> NeErrors] /\ astray = FALSE
    BY DEF EtherInit, NeInit
<1>4. NeTypeOK
  <2>1. NoHeader \in Headers /\ NoRx \in [pkt : 0 .. MaxHeard, at : Pages, size : Sizes \union {0}]
    BY Constants DEF NoHeader, Headers, NoRx
  <2>2. data \in [Pages -> (0 .. MaxHeard) \X (0 .. RingPages)]
    BY <1>3, Constants
  <2>3. neleft \in [opens : 0 .. NeOpens, errors : 0 .. NeErrors]
    BY <1>3, Constants
  <2>4. ne \in [on : BOOLEAN, isr : SUBSET Bits, bnry : Pages, curr : Pages]
    BY <1>3, Constants
  <2>5. tx \in 0 .. MaxSends /\ txbuf \in 0 .. MaxSends
    BY <1>3, Constants
  <2> QED
    BY <1>3, <2>1, <2>2, <2>3, <2>4, <2>5 DEF NeTypeOK
<1>5. NeInv /\ NeUnused
    BY <1>3, Constants DEF NeInv, NeUnused, Ring, Incoming, Outgoing
<1>6. /\ decpc = "closed" /\ recv = NoDescriptor /\ send = NoDescriptor
      /\ csr = FALSE /\ rxing = None /\ txing = None
      /\ decleft = [opens |-> DecOpens, errors |-> DecErrors]
    BY DEF EtherInit, DecInit
<1>7. DecTypeOK
  <2>1. Setup \in Nat /\ 0 \in 0 .. Setup /\ None \in 0 .. Setup /\ None \in 0 .. MaxHeard
        /\ 0 \in 0 .. MaxHeard
    BY Constants DEF Setup, None
  <2>2. NoDescriptor \in [own : BOOLEAN, error : BOOLEAN, buf : (0 .. MaxHeard) \union {Partly}]
    BY <2>1 DEF NoDescriptor
  <2>3. NoDescriptor \in [own : BOOLEAN, error : BOOLEAN, buf : 0 .. Setup]
    BY <2>1 DEF NoDescriptor
  <2>4. decleft \in [opens : 0 .. DecOpens, errors : 0 .. DecErrors]
    BY <1>6, Constants
  <2> QED
    BY <1>6, <2>1, <2>2, <2>3, <2>4 DEF DecTypeOK
<1>8. DecInv /\ DecUnused
    BY <1>6 DEF DecInv, DecUnused, Received, Sent, NoDescriptor
<1> QED
    BY <1>2, <1>4, <1>5, <1>7, <1>8 DEF EInv, EtherTypeOK

LEMMA EtherInvNext ==
    ASSUME EInv, [EtherNext]_<<linkVars, neVars, decVars>>, astray' = FALSE
    PROVE  EInv' /\ [LinkNext]_linkVars
<1>1. CASE decleft.opens = DecOpens /\ NeNext /\ UNCHANGED decVars
  <2>1. LinkOK /\ NeKeeps
    BY <1>1, NeStep
  <2>2. DecKeeps
    BY <1>1, <2>1, DecRests DEF EInv
  <2> QED
    BY <2>1, <2>2 DEF LinkOK, NeKeeps, DecKeeps, EInv, EtherTypeOK
<1>2. CASE neleft.opens = NeOpens /\ DecNext /\ UNCHANGED neVars
  <2>1. LinkOK /\ DecKeeps
    BY <1>2, DecStep
  <2>2. NeKeeps
    BY <1>2, NeRests DEF EInv
  <2> QED
    BY <2>1, <2>2 DEF LinkOK, NeKeeps, DecKeeps, EInv, EtherTypeOK
<1>3. CASE Miss /\ UNCHANGED <<neVars, decVars>>
    BY <1>3, MissStep DEF LinkOK, NeKeeps, DecKeeps, EInv, EtherTypeOK
<1>4. CASE UNCHANGED <<linkVars, neVars, decVars>>
  <2>1. LinkOK /\ Last' = Last /\ UNCHANGED <<heard, wire, wanted>>
    BY <1>4, LinkStays DEF linkVars
  <2>2. /\ UNCHANGED <<nepc, seen, hdr, ne, head, data, rx, tx, txbuf, neleft>>
        /\ UNCHANGED <<decpc, recv, send, csr, rxing, txing, decleft>>
    BY <1>4 DEF neVars, decVars
  <2>3. NeTypeOK' /\ DecTypeOK'
    <3>1. NeTypeOK'
        BY <2>2 DEF EInv, EtherTypeOK, NeTypeOK
    <3>2. DecTypeOK'
        BY <2>2 DEF EInv, EtherTypeOK, DecTypeOK
    <3> QED
        BY <3>1, <3>2
  <2>4. Ring' /\ Incoming' /\ Outgoing'
    BY <2>1, <2>2 DEF EInv, NeInv, Ring, Incoming, Outgoing, Lies
  <2>5. Received' /\ Sent'
    BY <2>1, <2>2 DEF EInv, DecInv, Received, Sent
  <2>6. /\ neleft'.opens = NeOpens => NeUnused'
        /\ decleft'.opens = DecOpens => DecUnused'
    BY <2>2 DEF EInv, NeUnused, DecUnused
  <2> QED
    BY <2>1, <2>3, <2>4, <2>5, <2>6 DEF LinkOK, EInv, EtherTypeOK, NeInv, DecInv
<1> QED
    BY <1>1, <1>2, <1>3, <1>4 DEF EtherNext

\* The steps of the driver and of the card that change it.
LEMMA OnlyAstray ==
    ASSUME NeNext, ~(SetCurrent \/ ReceiveEnd)
    PROVE  astray' = astray
<1>1. CASE f_ne2000_open \/ f_ne2000_close \/ Ask \/ NeWrite
    BY <1>1, Zenon DEF f_ne2000_open, f_ne2000_close, Ask, NeWrite, LoadBuffer, StartTransmit,
       WaitForResult, TakeResult, neVars
<1>2. CASE NeRead
    BY <1>2, Zenon DEF NeRead, PollStatus, AckStatus, CompareRing, ReadHeader,
       CopyPacket, ResetRing, StopCard, SetBoundary, PutBoundary, Restart
<1>3. CASE NeCard
    BY <1>3, Zenon DEF NeCard, ReceiveStart, ReceiveError, TransmitEnd, TransmitError
<1> QED
    BY <1>1, <1>2, <1>3 DEF NeNext

\* The history: once set it stays.
LEMMA AstrayStays ==
    ASSUME astray \in BOOLEAN, [EtherNext]_<<linkVars, neVars, decVars>>
    PROVE  astray' \in BOOLEAN /\ (astray => astray')
<1>1. ASSUME astray' = astray
      PROVE  astray' \in BOOLEAN /\ (astray => astray')
    BY <1>1
<1>2. ASSUME NEW b, astray' = (astray \/ b)
      PROVE  astray' \in BOOLEAN /\ (astray => astray')
    BY <1>2, Zenon
<1>3. CASE SetCurrent \/ ReceiveEnd
  <2>1. \/ astray' = (astray \/ rx # NoRx)
        \/ astray' = (astray \/ After(rx.at, rx.size) = ne.bnry)
    BY <1>3, Zenon DEF SetCurrent, PutCurrent, ReceiveEnd
  <2> QED
    BY <1>2, <2>1
<1>4. CASE NeNext /\ ~(SetCurrent \/ ReceiveEnd)
    BY <1>1, <1>4, OnlyAstray
<1>5. CASE UNCHANGED neVars
    BY <1>1, <1>5 DEF neVars
<1> QED
    BY <1>3, <1>4, <1>5 DEF EtherNext

\* What does not rest on the pointers of the ring: the types, and what is sent.
SendingKept ==
    /\ LinkTypeOK' /\ NeTypeOK' /\ Outgoing'
    /\ [LinkNext \/ UNCHANGED <<heard, wire, told, wanted>>]_linkVars

LEMMA SendingStep ==
    ASSUME LinkTypeOK, NeTypeOK, Outgoing, NeNext, astray' \in BOOLEAN
    PROVE  SendingKept
<1>1. CASE f_ne2000_open
  <2>1. neleft' \in [opens : 0 .. NeOpens, errors : 0 .. NeErrors]
    BY <1>1, Constants DEF f_ne2000_open, NeTypeOK
  <2>2. ne' \in [on : BOOLEAN, isr : SUBSET Bits, bnry : Pages, curr : Pages]
    BY <1>1, Constants DEF f_ne2000_open
  <2>3. rx' \in [pkt : 0 .. MaxHeard, at : Pages, size : Sizes \union {0}] /\ tx' \in 0 .. MaxSends
    BY <1>1, Constants DEF f_ne2000_open, NoRx
  <2>4. NeTypeOK' /\ LinkTypeOK' /\ UNCHANGED linkVars
    BY <1>1, <2>1, <2>2, <2>3 DEF f_ne2000_open, NeTypeOK, LinkTypeOK, linkVars
  <2>5. Outgoing'
    BY <1>1 DEF f_ne2000_open, Outgoing
  <2> QED
    BY <2>4, <2>5 DEF SendingKept
<1>2. CASE f_ne2000_close
  <2>1. NeTypeOK' /\ LinkTypeOK' /\ UNCHANGED linkVars
    BY <1>2 DEF f_ne2000_close, NeTypeOK, LinkTypeOK, linkVars
  <2>2. Outgoing'
    BY <1>2 DEF f_ne2000_close, NeTypeOK, Outgoing, linkVars
  <2> QED
    BY <2>1, <2>2 DEF SendingKept
<1>3. CASE PollStatus
  <2>1. NeTypeOK' /\ LinkTypeOK' /\ UNCHANGED linkVars
    BY <1>3 DEF PollStatus, NeTypeOK, LinkTypeOK, linkVars
  <2>2. Outgoing'
    BY <1>3 DEF PollStatus, NeTypeOK, Outgoing, linkVars, Bits
  <2> QED
    BY <2>1, <2>2 DEF SendingKept
<1>4. CASE AckStatus
  <2>1. NeTypeOK' /\ LinkTypeOK' /\ UNCHANGED linkVars
    BY <1>4 DEF AckStatus, NeTypeOK, LinkTypeOK, linkVars
  <2>2. Outgoing'
    BY <1>4 DEF AckStatus, NeTypeOK, Outgoing, linkVars
  <2> QED
    BY <2>1, <2>2 DEF SendingKept
<1>5. CASE CompareRing
  <2>1. NeTypeOK' /\ LinkTypeOK' /\ UNCHANGED linkVars
    BY <1>5 DEF CompareRing, NeTypeOK, LinkTypeOK, linkVars
  <2>2. Outgoing'
    BY <1>5 DEF CompareRing, NeTypeOK, Outgoing, linkVars
  <2> QED
    BY <2>1, <2>2 DEF SendingKept
<1>6. CASE ReadHeader
  <2>1. NeTypeOK' /\ LinkTypeOK' /\ UNCHANGED linkVars
    BY <1>6 DEF ReadHeader, NeTypeOK, LinkTypeOK, linkVars
  <2>2. Outgoing'
    BY <1>6 DEF ReadHeader, NeTypeOK, Outgoing, linkVars
  <2> QED
    BY <2>1, <2>2 DEF SendingKept
<1>7. CASE CopyPacket
  <2>1. hdr' \in Headers
    BY <1>7, Constants DEF CopyPacket, NoHeader, Headers
  <2>2. hdr.pkt \in 0 .. MaxHeard
    BY DEF NeTypeOK, Headers
  <2>3. got' \in Seq((0 .. MaxHeard) \union {Garbled})
    BY <1>7, <2>2 DEF CopyPacket, LinkTypeOK
  <2>4. NeTypeOK' /\ LinkTypeOK'
    BY <1>7, <2>1, <2>3 DEF CopyPacket, NeTypeOK, LinkTypeOK
  <2>5. Outgoing' /\ UNCHANGED <<heard, wire, told, wanted>>
    BY <1>7 DEF CopyPacket, Outgoing
  <2> QED
    BY <2>4, <2>5 DEF SendingKept
<1>8. CASE StopCard
  <2>1. NeTypeOK' /\ LinkTypeOK' /\ UNCHANGED linkVars
    BY <1>8 DEF StopCard, NeTypeOK, LinkTypeOK, linkVars
  <2>2. Outgoing'
    BY <1>8 DEF StopCard, NeTypeOK, Outgoing, linkVars
  <2> QED
    BY <2>1, <2>2 DEF SendingKept
<1>9. CASE SetBoundary
  <2>1. NeTypeOK' /\ LinkTypeOK' /\ UNCHANGED linkVars
    BY <1>9, Constants DEF SetBoundary, PutBoundary, NeTypeOK, LinkTypeOK, linkVars
  <2>2. Outgoing'
    BY <1>9 DEF SetBoundary, PutBoundary, NeTypeOK, Outgoing, linkVars
  <2> QED
    BY <2>1, <2>2 DEF SendingKept
<1>10. CASE SetCurrent
  <2>1. NeTypeOK' /\ LinkTypeOK' /\ UNCHANGED linkVars
    BY <1>10, Constants DEF SetCurrent, PutCurrent, NeTypeOK, LinkTypeOK, linkVars
  <2>2. Outgoing'
    BY <1>10 DEF SetCurrent, PutCurrent, NeTypeOK, Outgoing, linkVars
  <2> QED
    BY <2>1, <2>2 DEF SendingKept
<1>11. CASE Restart
  <2>1. NeTypeOK' /\ LinkTypeOK' /\ UNCHANGED linkVars
    BY <1>11 DEF Restart, NeTypeOK, LinkTypeOK, linkVars
  <2>2. Outgoing'
    BY <1>11 DEF Restart, NeTypeOK, Outgoing, linkVars
  <2> QED
    BY <2>1, <2>2 DEF SendingKept
<1>12. CASE Ask
  <2>1. wanted' \in 0 .. MaxSends
    BY <1>12, Constants DEF Ask, Want, LinkTypeOK
  <2>2. NeTypeOK' /\ LinkTypeOK'
    BY <1>12, <2>1 DEF Ask, Want, NeTypeOK, LinkTypeOK, neVars
  <2>3. Outgoing' /\ LinkNext
    BY <1>12 DEF Ask, Want, Outgoing, neVars, LinkNext
  <2> QED
    BY <2>2, <2>3 DEF SendingKept
<1>13. CASE LoadBuffer
  <2>1. NeTypeOK' /\ LinkTypeOK' /\ UNCHANGED linkVars
    BY <1>13 DEF LoadBuffer, NeTypeOK, LinkTypeOK, linkVars
  <2>2. Outgoing'
    BY <1>13 DEF LoadBuffer, Sending, NeTypeOK, LinkTypeOK, Outgoing, linkVars
  <2> QED
    BY <2>1, <2>2 DEF SendingKept
<1>14. CASE StartTransmit
  <2>1. NeTypeOK' /\ LinkTypeOK' /\ UNCHANGED linkVars
    BY <1>14 DEF StartTransmit, NeTypeOK, LinkTypeOK, linkVars
  <2>2. tx = 0 /\ ne.isr \intersect {"PTX", "TXE"} = {} /\ "PTX" \notin ne.isr
    BY <1>14 DEF StartTransmit, Outgoing
  <2>3. Outgoing'
    BY <1>14, <2>2 DEF StartTransmit, Outgoing, linkVars
  <2> QED
    BY <2>1, <2>3 DEF SendingKept
<1>15. CASE WaitForResult
  <2>1. tx = 0 /\ wanted > 0 /\ wanted \in Sends /\ ("PTX" \in ne.isr => wanted \in wire)
    BY <1>15 DEF WaitForResult, TakeResult, Outgoing, LinkTypeOK, Sends
  <2>2. told' \subseteq Sends
    BY <1>15, <2>1 DEF WaitForResult, TakeResult, LinkTypeOK
  <2>3. NeTypeOK' /\ LinkTypeOK'
    BY <1>15, <2>2 DEF WaitForResult, TakeResult, NeTypeOK, LinkTypeOK
  <2>4. Outgoing'
    BY <1>15, <2>1 DEF WaitForResult, TakeResult, NeTypeOK, Outgoing
  <2>5. Tell \/ UNCHANGED linkVars
    BY <1>15, <2>1 DEF WaitForResult, TakeResult, Tell, linkVars
  <2> QED
    BY <2>3, <2>4, <2>5 DEF SendingKept, LinkNext
<1>16. CASE ReceiveStart
  <2>1. PICK n \in Sizes :
            /\ rx' = [pkt |-> heard + 1, at |-> ne.curr, size |-> n]
            /\ data' = [p \in Pages |->
                          IF \E i \in 0 .. n - 1 : p = After(ne.curr, i)
                          THEN <<heard + 1, (p - ne.curr) % RingPages>> ELSE data[p]]
    BY <1>16 DEF ReceiveStart
  <2>2. heard + 1 \in 0 .. MaxHeard /\ heard' = heard + 1
    BY <1>16, Constants DEF ReceiveStart, Hear, LinkTypeOK
  <2>3. rx' \in [pkt : 0 .. MaxHeard, at : Pages, size : Sizes \union {0}]
    BY <2>1, <2>2 DEF NeTypeOK
  <2>4. \A p \in Pages : (p - ne.curr) % RingPages \in 0 .. RingPages
    <3> SUFFICES ASSUME NEW p \in Pages
                 PROVE  (p - ne.curr) % RingPages \in 0 .. RingPages
        OBVIOUS
    <3>1. p - ne.curr \in Int
        BY Constants DEF NeTypeOK, Pages
    <3> QED
        BY <3>1, Constants, Remainder
  <2>5. data' \in [Pages -> (0 .. MaxHeard) \X (0 .. RingPages)]
    BY <2>1, <2>2, <2>4 DEF NeTypeOK
  <2>6. NeTypeOK' /\ LinkTypeOK'
    BY <1>16, <2>2, <2>3, <2>5 DEF ReceiveStart, Hear, NeTypeOK, LinkTypeOK
  <2>7. Outgoing' /\ LinkNext
    BY <1>16 DEF ReceiveStart, Hear, Outgoing, LinkNext
  <2> QED
    BY <2>6, <2>7 DEF SendingKept
<1>17. CASE ReceiveEnd
  <2>1. After(rx.at, rx.size) \in Pages
    <3>0. rx.at \in Pages /\ rx.size \in Sizes \union {0}
        BY DEF NeTypeOK
    <3>1. rx.at \in 0 .. RingPages - 1 /\ RingPages \in Nat \ {0}
        BY <3>0, NeAssumption DEF Pages
    <3>3. rx.size \in Nat
      <4>1. Sizes \union {0} \subseteq Nat
        BY NeAssumption
      <4> QED
        BY <3>0, <4>1, Zenon
    <3>4. rx.at + rx.size \in Nat
        BY <3>1, <3>3
    <3> QED
        BY <3>1, <3>4 DEF After, Pages
  <2>2. head' \in [Pages -> Headers]
    BY <1>17 DEF ReceiveEnd, NeTypeOK, Headers
  <2>3. /\ ne' \in [on : BOOLEAN, isr : SUBSET Bits, bnry : Pages, curr : Pages]
        /\ ne'.isr = ne.isr \union {"PRX"}
    BY <1>17, <2>1 DEF ReceiveEnd, NeTypeOK, Bits
  <2>4. rx' \in [pkt : 0 .. MaxHeard, at : Pages, size : Sizes \union {0}]
    BY <1>17, Constants DEF ReceiveEnd, NoRx
  <2>5. NeTypeOK' /\ LinkTypeOK' /\ UNCHANGED linkVars
    BY <1>17, <2>2, <2>3, <2>4 DEF ReceiveEnd, NeTypeOK, LinkTypeOK, linkVars
  <2>6. Outgoing'
    BY <1>17, <2>3 DEF ReceiveEnd, Outgoing, linkVars
  <2> QED
    BY <2>5, <2>6 DEF SendingKept
<1>18. CASE ReceiveError
  <2>1. rx' \in [pkt : 0 .. MaxHeard, at : Pages, size : Sizes \union {0}]
    BY <1>18, Constants DEF ReceiveError, NoRx
  <2>2. NeTypeOK' /\ LinkTypeOK' /\ UNCHANGED linkVars
    BY <1>18, <2>1 DEF ReceiveError, NeTypeOK, LinkTypeOK, linkVars
  <2>3. Outgoing'
    BY <1>18 DEF ReceiveError, Outgoing, linkVars
  <2> QED
    BY <2>2, <2>3 DEF SendingKept
<1>19. CASE TransmitEnd
  <2>1. nepc = "wait" /\ tx = txbuf /\ txbuf = wanted /\ wanted > 0
    BY <1>19 DEF TransmitEnd, Outgoing
  <2>2. wire' = wire \union {wanted} /\ wanted \in 1 .. wanted /\ wanted \in Sends
    BY <1>19, <2>1, Constants DEF TransmitEnd, LinkTypeOK, Sends
  <2>3. /\ ne' \in [on : BOOLEAN, isr : SUBSET Bits, bnry : Pages, curr : Pages]
        /\ ne'.isr = ne.isr \union {"PTX"}
    BY <1>19 DEF TransmitEnd, NeTypeOK, Bits
  <2>4. tx' \in 0 .. MaxSends
    BY <1>19, Constants DEF TransmitEnd
  <2>5. NeTypeOK' /\ LinkTypeOK'
    BY <1>19, <2>2, <2>3, <2>4 DEF TransmitEnd, NeTypeOK, LinkTypeOK
  <2>6. Outgoing'
    BY <1>19, <2>1, <2>2, <2>3 DEF TransmitEnd, Outgoing
  <2>7. Transmit
    BY <1>19, <2>2 DEF TransmitEnd, Transmit
  <2> QED
    BY <2>5, <2>6, <2>7 DEF SendingKept, LinkNext
<1>20. CASE TransmitError
  <2>1. nepc = "wait"
    BY <1>20 DEF TransmitError, Outgoing
  <2>2. neleft' \in [opens : 0 .. NeOpens, errors : 0 .. NeErrors]
    BY <1>20, Constants DEF TransmitError, NeTypeOK
  <2>3. /\ ne' \in [on : BOOLEAN, isr : SUBSET Bits, bnry : Pages, curr : Pages]
        /\ ne'.isr = ne.isr \union {"TXE"}
    BY <1>20 DEF TransmitError, NeTypeOK, Bits
  <2>4. tx' \in 0 .. MaxSends
    BY <1>20, Constants DEF TransmitError
  <2>5. NeTypeOK' /\ LinkTypeOK' /\ UNCHANGED linkVars
    BY <1>20, <2>2, <2>3, <2>4 DEF TransmitError, NeTypeOK, LinkTypeOK, linkVars
  <2>6. Outgoing'
    BY <1>20, <2>1, <2>3 DEF TransmitError, Outgoing, linkVars
  <2> QED
    BY <2>5, <2>6 DEF SendingKept
<1> QED
    BY <1>1, <1>2, <1>3, <1>4, <1>5, <1>6, <1>7, <1>8, <1>9, <1>10, <1>11, <1>12, <1>13,
       <1>14, <1>15, <1>16, <1>17, <1>18, <1>19, <1>20
    DEF NeNext, NeRead, ResetRing, NeWrite, NeCard

\* The NE2000 is not opened anew, and is open when its pointers go astray.
LEMMA OpensFall ==
    ASSUME NeTypeOK, NeNext
    PROVE  neleft'.opens <= neleft.opens
<1>1. neleft.opens \in Nat
    BY Constants DEF NeTypeOK
<1>2. CASE neleft' = [neleft EXCEPT !.opens = @ - 1]
    BY <1>1, <1>2 DEF NeTypeOK
<1>3. CASE neleft' = [neleft EXCEPT !.errors = @ - 1]
    BY <1>1, <1>3 DEF NeTypeOK
<1>4. CASE neleft' = neleft
    BY <1>1, <1>4
<1> QED
    BY <1>2, <1>3, <1>4, Zenon
    DEF NeNext, f_ne2000_open, f_ne2000_close, NeRead, PollStatus, AckStatus, CompareRing,
        ReadHeader, CopyPacket, ResetRing, StopCard, SetBoundary, PutBoundary, SetCurrent,
        PutCurrent, Restart, Ask, NeWrite, LoadBuffer, StartTransmit, WaitForResult, TakeResult,
        NeCard, ReceiveStart, ReceiveEnd, ReceiveError, TransmitEnd, TransmitError, neVars

\* Until the pointers of the ring go astray the invariant holds; after that what
\* does not rest on them.
Sound == /\ astray \in BOOLEAN
         /\ EtherTypeOK /\ Outgoing
         /\ astray => neleft.opens # NeOpens /\ decleft.opens = DecOpens
         /\ astray \/ EInv

\* A step that promises nothing of what is read.
Promised == [LinkNext \/ (astray' /\ UNCHANGED <<heard, wire, told, wanted>>)]_linkVars

LEMMA SoundSteps ==
    ASSUME Sound, [EtherNext]_<<linkVars, neVars, decVars>>
    PROVE  Sound' /\ Promised
<1>1. astray' \in BOOLEAN /\ (astray => astray')
    BY AstrayStays DEF Sound
<1>2. CASE ~astray'
  <2>1. astray' = FALSE /\ EInv
    BY <1>1, <1>2 DEF Sound
  <2>2. EInv' /\ [LinkNext]_linkVars
    BY <2>1, EtherInvNext
  <2> QED
    BY <1>1, <1>2, <2>2 DEF Sound, Promised, EInv, NeInv
<1>3. CASE astray' /\ decleft.opens = DecOpens /\ NeNext /\ UNCHANGED decVars
  <2>1. SendingKept
    BY <1>1, <1>3, SendingStep DEF Sound, EtherTypeOK
  <2>2. DecTypeOK' /\ decleft'.opens = DecOpens
    BY <1>3 DEF Sound, EtherTypeOK, DecTypeOK, decVars
  <2>3. neleft.opens # NeOpens
    <3>1. CASE astray
        BY <3>1 DEF Sound
    <3>2. CASE ~astray
      <4>1. EInv
        BY <3>2 DEF Sound
      <4>2. SetCurrent \/ ReceiveEnd
        BY <1>3, <3>2, OnlyAstray
      <4>3. nepc = "current" \/ rx # NoRx
        BY <4>2 DEF SetCurrent, PutCurrent, ReceiveEnd
      <4> QED
        BY <4>1, <4>3 DEF EInv, NeUnused
    <3> QED
        BY <3>1, <3>2
  <2>4. neleft'.opens # NeOpens
    <3>1. neleft'.opens <= neleft.opens /\ neleft.opens \in 0 .. NeOpens
        BY <1>3, OpensFall DEF Sound, EtherTypeOK, NeTypeOK
    <3>2. neleft'.opens \in 0 .. NeOpens
        BY <2>1 DEF SendingKept, NeTypeOK
    <3> QED
        BY <2>3, <3>1, <3>2, Constants
  <2>5. Promised
    BY <1>3, <2>1 DEF SendingKept, Promised
  <2> QED
    BY <1>1, <1>3, <2>1, <2>2, <2>4, <2>5 DEF Sound, SendingKept, EtherTypeOK
<1>4. CASE astray' /\ neleft.opens = NeOpens /\ DecNext /\ UNCHANGED neVars
  <2>1. astray
    BY <1>4 DEF neVars
  <2> QED
    BY <1>4, <2>1 DEF Sound
<1>5. CASE astray' /\ Miss /\ UNCHANGED <<neVars, decVars>>
  <2>1. /\ UNCHANGED <<nepc, seen, hdr, ne, head, data, rx, tx, txbuf, neleft>>
        /\ UNCHANGED <<decpc, recv, send, csr, rxing, txing, decleft>> /\ astray
    BY <1>5 DEF neVars, decVars
  <2>2. heard' \in 0 .. MaxHeard /\ UNCHANGED <<got, wire, told, wanted>> /\ LinkNext
    BY <1>5, Constants DEF Miss, Hear, LinkNext, Sound, EtherTypeOK, LinkTypeOK
  <2>3. LinkTypeOK'
    BY <2>2 DEF Sound, EtherTypeOK, LinkTypeOK
  <2>4. NeTypeOK'
    BY <1>1, <2>1 DEF Sound, EtherTypeOK, NeTypeOK
  <2>5. DecTypeOK'
    BY <2>1 DEF Sound, EtherTypeOK, DecTypeOK
  <2>6. Outgoing'
    BY <2>1, <2>2 DEF Sound, Outgoing
  <2>7. Promised
    BY <2>2 DEF Promised
  <2> QED
    BY <1>1, <1>5, <2>1, <2>3, <2>4, <2>5, <2>6, <2>7 DEF Sound, EtherTypeOK
<1>6. CASE astray' /\ UNCHANGED <<linkVars, neVars, decVars>>
  <2>1. /\ UNCHANGED <<nepc, seen, hdr, ne, head, data, rx, tx, txbuf, neleft>>
        /\ UNCHANGED <<decpc, recv, send, csr, rxing, txing, decleft>> /\ astray
        /\ UNCHANGED <<heard, got, wire, told, wanted>>
    BY <1>6 DEF neVars, decVars, linkVars
  <2>3. LinkTypeOK'
    BY <2>1 DEF Sound, EtherTypeOK, LinkTypeOK
  <2>4. NeTypeOK'
    BY <1>1, <2>1 DEF Sound, EtherTypeOK, NeTypeOK
  <2>5. DecTypeOK'
    BY <2>1 DEF Sound, EtherTypeOK, DecTypeOK
  <2>6. Outgoing'
    BY <2>1 DEF Sound, Outgoing
  <2>7. Promised
    BY <1>6 DEF Promised
  <2> QED
    BY <1>1, <1>6, <2>1, <2>3, <2>4, <2>5, <2>6, <2>7 DEF Sound, EtherTypeOK
<1> QED
    BY <1>1, <1>2, <1>3, <1>4, <1>5, <1>6 DEF EtherNext

LEMMA SoundStart == EtherInit => Sound /\ LinkInit
<1> SUFFICES ASSUME EtherInit
             PROVE  Sound /\ LinkInit
    OBVIOUS
<1>1. astray = FALSE /\ LinkInit
    BY DEF EtherInit, NeInit
<1> QED
    BY <1>1, EtherInvInit DEF Sound, EInv, NeInv

\* The descriptors, the ring and its registers hold what they should: no pointer
\* leaves the ring, whatever comes in while it is reset (ne2000.c:1133, 1104;
\* decether.c:605-1021).
THEOREM EtherTyped == EtherSpec => []EtherTypeOK
<1>1. EtherInit => Sound
    BY SoundStart
<1>2. Sound /\ [EtherNext]_<<linkVars, neVars, decVars>> => Sound'
    BY SoundSteps
<1>3. Sound => EtherTypeOK
    BY DEF Sound
<1> QED
    BY <1>1, <1>2, <1>3, PTL DEF EtherSpec

\* What f_ne2000_read and f_ether_read give to the caller is whole, in order and
\* read once, until packets of the NE2000 fill the ring exactly, or one is
\* coming in when the driver sets CURR; what f_ne2000_write and f_ether_write
\* report sent has been sent as it was given, after that too.
THEOREM EtherPromised == EtherSpec => ImplementsEther
<1>1. EtherInit => Sound /\ LinkInit
    BY SoundStart
<1>2. Sound /\ [EtherNext]_<<linkVars, neVars, decVars>> => Sound' /\ Promised
    BY SoundSteps
<1>3. Promised
      => [LinkNext \/ (astray' /\ UNCHANGED <<heard, wire, told, wanted>>)]_linkVars
    BY DEF Promised
<1> QED
    BY <1>1, <1>2, <1>3, PTL DEF EtherSpec, ImplementsEther

=============================================================================
