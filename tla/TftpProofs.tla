----------------------------- MODULE TftpProofs -----------------------------
(***************************************************************************)
(* What is proved of the file transfer for any files, any networks and any *)
(* number of loads: of the packets that are still on their way when a load *)
(* begins, or that come twice or out of turn, none gets into memory.       *)
(***************************************************************************)
EXTENDS Tftp, TLAPS

\* No file has as many blocks as there are block numbers.
ASSUME ShortFiles == \A f \in Files : Blocks[f] < BlockMod

-----------------------------------------------------------------------------
(* The inductive invariant.  It says of each packet on the network which     *)
(* session it belongs to and how far that session has come, and of each      *)
(* session how far the client has come.                                      *)

Session == [cport : 1 .. tftp_recv_port, file : Files, block : Nat \ {0}]
Serves(t) == t \in Tids /\ session[t] \in Session
Ours(cp) == cp = tftp_recv_port

RequestOK(m) ==
    m.op = "RRQ" =>
        /\ m.cport \in 1 .. tftp_recv_port
        /\ m.data[1] \in Files
        /\ Ours(m.cport) => m.data[1] = file

DataOK(m) ==
    m.op = "DATA" =>
        /\ Serves(m.tid)
        /\ m.cport = session[m.tid].cport
        /\ m.data = <<session[m.tid].file, m.block, m.tid>>
        /\ m.block \in 1 .. session[m.tid].block
        /\ m.block <= Blocks[session[m.tid].file]

AckOK(m) ==
    m.op = "ACK" =>
        /\ Serves(m.tid)
        /\ m.cport = session[m.tid].cport
        /\ m.block \in Nat \ {0}
        /\ Ours(m.cport) => m.tid = port /\ m.block <= Received

PacketOK(m) == RequestOK(m) /\ DataOK(m) /\ AckOK(m)
NetOK == \A m \in DOMAIN net : PacketOK(m)

SessionOK ==
    \A t \in Tids : session[t] # NoSession =>
        /\ Serves(t)
        /\ session[t].block <= Blocks[session[t].file] + 1
        /\ Ours(session[t].cport) =>
              session[t].file = file /\ session[t].block - 1 <= Received

ClientOK ==
    /\ stored \in Seq(Files \X Nat \X Tids)
    /\ \A i \in DOMAIN stored : stored[i] = <<file, i, port>>
    /\ Len(stored) <= currblock /\ currblock <= Blocks[file]
    /\ currblock > 0 => Serves(port) /\ Ours(session[port].cport)
    /\ pc \in {"loop", "copy"} => retry < Retries /\ tftp_recv_port > 0
    /\ pc = "loop" => Len(stored) = currblock
    /\ pc = "copy" => Len(stored) + 1 = currblock /\ recvbuf = <<file, currblock, port>>

TftpInv ==
    /\ TypeOK /\ session \in [Tids -> {NoSession} \union Session]
    /\ ClientOK /\ SessionOK /\ NetOK
    /\ EofIsComplete

-----------------------------------------------------------------------------
(* Constants, and what a bag is to the network: a set of packets.           *)

LEMMA NoWrap ==
    ASSUME NEW n \in Nat, n < BlockMod
    PROVE  n % BlockMod = n
BY TftpAssumption, SMT

LEMMA FileFacts ==
    ASSUME NEW f \in Files
    PROVE  Blocks[f] \in Nat \ {0} /\ Blocks[f] < BlockMod /\ BlockMod \in Nat
BY TftpAssumption, ShortFiles

LEMMA NetworkFacts ==
    ASSUME TypeOK
    PROVE  Retries \in Nat /\ network.sessions \in Nat /\ Hostile \in BOOLEAN
BY TftpAssumption DEF TypeOK, Retries, Hostile

LEMMA SentPackets ==
    ASSUME NEW n, NEW m
    PROVE  DOMAIN Sent(n, m) \subseteq DOMAIN n \union {m}
BY DEF Sent, BagAdd

LEMMA DeliveredPackets ==
    ASSUME NEW m
    PROVE  /\ DOMAIN Delivered(net, m) \subseteq DOMAIN net
           /\ DOMAIN BagRemove(net, m) \subseteq DOMAIN net
BY DEF Delivered, BagRemove

-----------------------------------------------------------------------------
(* Sending.  What is on the network stays as it should be when a client in   *)
(* the loop goes on: it fixes the server's port with the first block, when   *)
(* nothing of its load has been acknowledged, and then only receives more.     *)

LEMMA Goes ==
    ASSUME TftpInv, UNCHANGED <<network, file, tftp_recv_port, session>>,
           port' = port \/ currblock = 0,
           Received \in Nat, Received' \in Nat, Received <= Received'
    PROVE  /\ SessionOK'
           /\ session' \in [Tids -> {NoSession} \union Session]'
           /\ \A m \in DOMAIN net : PacketOK(m)'
<1>1. currblock = 0 => Received = 0
    BY DEF TftpInv, ClientOK, TypeOK, Received
<1>2. Tids' = Tids /\ Session' = Session /\ \A t : Serves(t)' <=> Serves(t)
    BY DEF Tids, Session, Serves
<1>3. SessionOK'
  <2> SUFFICES ASSUME NEW t \in Tids, session[t] # NoSession
               PROVE  /\ Serves(t)
                      /\ session[t].block <= Blocks[session[t].file] + 1
                      /\ Ours(session[t].cport) =>
                            session[t].file = file /\ session[t].block - 1 <= Received'
    BY <1>2 DEF SessionOK, Ours, NoSession
  <2>1. /\ Serves(t)
        /\ session[t].block <= Blocks[session[t].file] + 1
        /\ Ours(session[t].cport) =>
              session[t].file = file /\ session[t].block - 1 <= Received
    BY DEF TftpInv, SessionOK
  <2>2. session[t].block \in Nat
    BY <2>1 DEF Serves, Session
  <2> QED
    BY <1>1, <2>1, <2>2
<1>4. ASSUME NEW m \in DOMAIN net PROVE PacketOK(m)'
  <2>1. RequestOK(m) /\ DataOK(m) /\ AckOK(m)
    BY DEF TftpInv, NetOK, PacketOK
  <2>2. RequestOK(m)'
    BY <2>1 DEF RequestOK, Ours
  <2>3. DataOK(m)'
    BY <1>2, <2>1 DEF DataOK
  <2>4. AckOK(m)'
    BY <1>1, <1>2, <2>1 DEF AckOK, Ours
  <2> QED
    BY <2>2, <2>3, <2>4 DEF PacketOK
<1> QED
    BY <1>2, <1>3, <1>4 DEF TftpInv

LEMMA ReceivedFacts ==
    ASSUME TftpInv
    PROVE  /\ Received \in Nat /\ Len(stored) <= Received
           /\ pc # "copy" => Received = Len(stored)
           /\ pc = "copy" => Received = Len(stored) + 1
BY DEF TftpInv, ClientOK, Received

LEMMA NetSends ==
    ASSUME NEW n, DOMAIN n \subseteq DOMAIN net, \A m \in DOMAIN net : PacketOK(m)',
           NEW p, PacketOK(p)', net' = Sent(n, p)
    PROVE  NetOK'
BY SentPackets DEF NetOK

LEMMA NetShrinks ==
    ASSUME DOMAIN net' \subseteq DOMAIN net, \A m \in DOMAIN net : PacketOK(m)'
    PROVE  NetOK'
BY DEF NetOK

-----------------------------------------------------------------------------
(* The client's turns of the loop, on what is left of the network once the   *)
(* packet of this turn is delivered.                                         *)

Turn == /\ pc = "loop"
        /\ UNCHANGED <<network, file, tftp_recv_port, session>>

\* What the client sends belongs to its load.
LEMMA OwnPackets ==
    ASSUME TftpInv, pc = "loop"
    PROVE  /\ PacketOK(RRQ(file, tftp_recv_port))
           /\ currblock > 0 => PacketOK(ACK(port, tftp_recv_port, currblock))
<1>1. /\ Len(stored) = currblock /\ currblock \in Nat /\ file \in Files
      /\ tftp_recv_port \in 1 .. tftp_recv_port
      /\ currblock > 0 => Serves(port) /\ Ours(session[port].cport)
      /\ currblock % BlockMod = currblock
  <2>1. currblock \in Nat /\ file \in Files /\ currblock <= Blocks[file]
    BY DEF TftpInv, TypeOK, ClientOK
  <2> QED
    BY <2>1, NoWrap, FileFacts, TftpAssumption DEF TftpInv, TypeOK, ClientOK
<1>2. PacketOK(RRQ(file, tftp_recv_port))
    BY <1>1 DEF PacketOK, RequestOK, DataOK, AckOK, RRQ
<1>3. ASSUME currblock > 0 PROVE PacketOK(ACK(port, tftp_recv_port, currblock))
    BY <1>1, <1>3 DEF PacketOK, RequestOK, DataOK, AckOK, ACK, Ours, Received
<1> QED
    BY <1>2, <1>3

LEMMA StopInv ==
    ASSUME TftpInv, Turn, NEW n, DOMAIN n \subseteq DOMAIN net,
           NEW result \in Results \ {"PKT_TFTP"}, Stop(n, result)
    PROVE  TftpInv'
<1>1. /\ stored' = stored /\ port' = port /\ currblock' = currblock /\ retry' = retry
      /\ recvbuf' = recvbuf /\ Received' = Received
      /\ pc' = "done" /\ r' = result /\ net' = n
    BY DEF Stop, Received, Turn
<1>2. TypeOK'
    BY <1>1 DEF TftpInv, TypeOK, Turn, Retries, Tids
<1>3. ClientOK'
    BY <1>1 DEF TftpInv, ClientOK, Turn, Serves, Session, Ours, Tids
<1>4. SessionOK' /\ (session \in [Tids -> {NoSession} \union Session])' /\ NetOK'
    BY <1>1, Goes, ReceivedFacts, NetShrinks DEF Turn
<1>5. EofIsComplete'
    BY <1>1 DEF EofIsComplete
<1> QED
    BY <1>2, <1>3, <1>4, <1>5 DEF TftpInv

LEMMA RetransmitInv ==
    ASSUME TftpInv, Turn, NEW n, DOMAIN n \subseteq DOMAIN net,
           NEW reply \in Results, retransmit(n, reply)
    PROVE  TftpInv'
<1>1. /\ stored' = stored /\ port' = port /\ currblock' = currblock
      /\ recvbuf' = recvbuf /\ Received' = Received
      /\ retry' = retry + 1 /\ retry < Retries /\ Retries' = Retries
    BY DEF retransmit, Turn, TftpInv, ClientOK, Retries, Received
<1>2. /\ Retries \in Nat /\ retry \in Nat
      /\ r' \in Results /\ pc' \in {"loop", "done"}
      /\ pc' = "loop" => retry' < Retries
      /\ pc' = "done" => r' = "E_NET_ERROR" \/ ~(retry' < Retries)
    BY <1>1, NetworkFacts DEF retransmit, TftpInv, TypeOK, Results
<1>3. TypeOK'
    BY <1>1, <1>2 DEF TftpInv, TypeOK, Turn, Tids
<1>4. ClientOK'
    BY <1>1, <1>2 DEF TftpInv, ClientOK, Turn, Serves, Session, Ours, Tids
<1>5. /\ SessionOK' /\ (session \in [Tids -> {NoSession} \union Session])'
      /\ \A m \in DOMAIN net : PacketOK(m)'
    BY <1>1, Goes, ReceivedFacts DEF Turn
<1>6. NetOK'
  <2>1. CASE net' = n
    BY <1>5, <2>1, NetShrinks
  <2>2. CASE net' # n
    <3>1. PICK p : /\ net' = Sent(n, p)
                   /\ p = IF currblock = 0 THEN RRQ(file, tftp_recv_port)
                          ELSE ACK(port, tftp_recv_port, currblock)
        BY <2>2 DEF retransmit
    <3>2. PacketOK(p)
        BY <3>1, OwnPackets DEF Turn, TftpInv, TypeOK
    <3>3. PacketOK(p)'
        BY <1>1, <3>2 DEF PacketOK, RequestOK, DataOK, AckOK, Turn, Serves, Session,
                          Ours, Tids
    <3> QED
        BY <1>5, <3>1, <3>3, NetSends
  <2> QED
    BY <2>1, <2>2
<1>7. EofIsComplete'
    BY <1>1, <1>2 DEF EofIsComplete
<1> QED
    BY <1>3, <1>4, <1>5, <1>6, <1>7 DEF TftpInv

\* The block that is taken is the next one of our file, from the port that
\* sent those before it.
LEMMA TakeBlockInv ==
    ASSUME TftpInv, Turn, NEW n, DOMAIN n \subseteq DOMAIN net,
           NEW m \in DOMAIN net, m.op = "DATA", m.cport = tftp_recv_port, ~Unwanted(m),
           take_block(n, m)
    PROVE  TftpInv'
<1>1. /\ Serves(m.tid) /\ m.tid \in Tids /\ Ours(session[m.tid].cport)
      /\ m.data = <<file, currblock + 1, m.tid>>
      /\ currblock \in Nat /\ currblock + 1 <= Blocks[file]
      /\ currblock > 0 => port = m.tid
      /\ file \in Files /\ Len(stored) = currblock
  <2>1. DataOK(m) /\ m.block = currblock + 1 /\ (currblock > 0 => port = m.tid)
    BY DEF TftpInv, NetOK, PacketOK, Unwanted
  <2>2. /\ currblock \in Nat /\ Len(stored) = currblock /\ file \in Files
    BY DEF TftpInv, TypeOK, ClientOK, Turn
  <2>3. Serves(m.tid) /\ m.tid \in Tids /\ session[m.tid].cport = tftp_recv_port
    BY <2>1 DEF DataOK, Serves
  <2>4. session[m.tid].file = file
    BY <2>3 DEF TftpInv, SessionOK, Serves, Session, NoSession, Ours
  <2> QED
    BY <2>1, <2>2, <2>3, <2>4 DEF DataOK, Ours
<1>2. /\ port' = m.tid /\ currblock' = currblock + 1
  <2>1. currblock # 0 => currblock > 0
    BY <1>1
  <2> QED
    BY <1>1, <2>1 DEF take_block
<1>3. stored \in Seq(Files \X Nat \X Tids) /\ (currblock = 0 => stored = <<>>)
    BY <1>1 DEF TftpInv, ClientOK
<1>4. /\ stored' = stored /\ retry' = retry
      /\ \/ /\ net' = Sent(n, ACK(m.tid, tftp_recv_port, currblock + 1))
            /\ r' = "PKT_TFTP" /\ pc' = "copy" /\ recvbuf' = m.data
         \/ net' = n /\ r' = "E_NET_ERROR" /\ pc' = "done" /\ recvbuf' = recvbuf
    BY <1>2 DEF take_block
<1>5. /\ Received = currblock /\ Received' \in Nat
      /\ pc' = "copy" => Received' = currblock + 1
      /\ Received <= Received'
    BY <1>1, <1>4 DEF Received, Turn
<1>6. TypeOK'
  <2>1. r' \in Results /\ pc' \in {"idle", "loop", "copy", "done"}
    BY <1>4 DEF Results
  <2>2. m.tid \in 0 .. network.sessions
    BY <1>1, NetworkFacts DEF TftpInv, Tids
  <2>3. recvbuf' # <<>> => recvbuf' \in Files \X Nat \X Tids
    BY <1>1, <1>4 DEF TftpInv, TypeOK
  <2> QED
    BY <1>1, <1>2, <1>4, <2>1, <2>2, <2>3 DEF TftpInv, TypeOK, Turn, Tids, Retries
<1>7. ClientOK'
  <2>1. Serves(port)' /\ Ours(session[port].cport)'
    BY <1>1, <1>2 DEF Turn, Serves, Session, Ours, Tids
  <2>2. \A i \in DOMAIN stored : stored[i] = <<file, i, m.tid>>
    BY <1>1, <1>3 DEF TftpInv, ClientOK
  <2>3. retry < Retries /\ tftp_recv_port > 0
    BY DEF TftpInv, ClientOK, Turn
  <2> QED
    BY <1>1, <1>2, <1>3, <1>4, <2>1, <2>2, <2>3 DEF ClientOK, Turn, Tids, Retries
<1>8. /\ SessionOK' /\ (session \in [Tids -> {NoSession} \union Session])'
      /\ \A p \in DOMAIN net : PacketOK(p)'
  <2>1. Received \in Nat
    BY <1>1, <1>5
  <2>2. port' = port \/ currblock = 0
    BY <1>1, <1>2
  <2> QED
    BY <1>5, <2>1, <2>2, Goes DEF Turn
<1>9. NetOK'
  <2>1. CASE net' = n
    BY <1>8, <2>1, NetShrinks
  <2>2. CASE net' # n
    <3>1. PICK p : net' = Sent(n, p) /\ p = ACK(m.tid, tftp_recv_port, currblock + 1)
        BY <1>4, <2>2
    <3>2. (currblock + 1) % BlockMod = currblock + 1 /\ pc' = "copy"
        BY <1>1, <1>4, <2>2, NoWrap, FileFacts
    <3>3. /\ p.op = "ACK" /\ p.tid = m.tid /\ p.cport = tftp_recv_port
          /\ p.block = currblock + 1
        BY <3>1, <3>2 DEF ACK
    <3>4. Serves(m.tid)' /\ session'[m.tid].cport = tftp_recv_port
        BY <1>1 DEF Turn, Serves, Session, Ours, Tids
    <3>5. PacketOK(p)'
      <4>1. AckOK(p)'
        BY <1>1, <1>2, <1>5, <3>2, <3>3, <3>4 DEF AckOK, Ours
      <4> QED
        BY <3>3, <4>1 DEF PacketOK, RequestOK, DataOK
    <3> QED
        BY <1>8, <3>1, <3>5, NetSends
  <2> QED
    BY <2>1, <2>2
<1>10. EofIsComplete'
    BY <1>4 DEF EofIsComplete
<1> QED
    BY <1>6, <1>7, <1>8, <1>9, <1>10 DEF TftpInv

\* The block that is copied is the next one: nothing comes in meanwhile.
LEMMA CopyBlockInv ==
    ASSUME TftpInv, UNCHANGED network, copy_block
    PROVE  TftpInv'
<1>1. /\ UNCHANGED <<network, file, tftp_recv_port, port, currblock, r, session, net>>
      /\ pc = "copy" /\ stored' = Append(stored, recvbuf) /\ recvbuf' = <<>>
      /\ \/ Short(recvbuf) /\ pc' = "done" /\ retry' = retry
         \/ pc' = "loop" /\ retry' = 0
    BY DEF copy_block, server
<1>2. /\ stored \in Seq(Files \X Nat \X Tids) /\ Len(stored) + 1 = currblock
      /\ \A i \in DOMAIN stored : stored[i] = <<file, i, port>>
      /\ recvbuf = <<file, currblock, port>> /\ currblock <= Blocks[file]
      /\ currblock > 0 => Serves(port) /\ Ours(session[port].cport)
      /\ file \in Files /\ currblock \in Nat /\ currblock > 0
      /\ retry \in Nat /\ Retries \in Nat /\ retry < Retries /\ tftp_recv_port > 0
    BY <1>1, NetworkFacts DEF TftpInv, ClientOK, TypeOK
<1>3. recvbuf \in Files \X Nat \X Tids
    BY <1>2 DEF Serves
<1>4. /\ stored' \in Seq(Files \X Nat \X Tids) /\ Len(stored') = currblock
      /\ \A i \in DOMAIN stored' : stored'[i] = <<file, i, port>>
    BY <1>1, <1>2, <1>3
<1>5. TypeOK'
  <2>1. retry' \in 0 .. Retries /\ pc' \in {"idle", "loop", "copy", "done"}
    BY <1>1, <1>2
  <2>2. \A i \in DOMAIN stored' : stored'[i] \in Files \X Nat \X Tids
    BY <1>4
  <2> QED
    BY <1>1, <2>1, <2>2 DEF TftpInv, TypeOK, Tids, Retries
<1>6. ClientOK'
  <2>1. Serves(port)' /\ Ours(session[port].cport)'
    BY <1>1, <1>2 DEF Serves, Session, Ours, Tids
  <2>2. Tids' = Tids /\ Retries' = Retries
    BY <1>1 DEF Tids, Retries
  <2>3. retry' < Retries
    BY <1>1, <1>2
  <2> QED
    BY <1>1, <1>2, <1>4, <2>1, <2>2, <2>3 DEF ClientOK
<1>7. Received' = Received /\ Received \in Nat
    BY <1>1, <1>2, <1>4 DEF Received
<1>8. SessionOK' /\ (session \in [Tids -> {NoSession} \union Session])' /\ NetOK'
    BY <1>1, <1>7, Goes, NetShrinks
<1>9. EofIsComplete'
    BY <1>1, <1>2, <1>4 DEF EofIsComplete, Complete, Short
<1> QED
    BY <1>5, <1>6, <1>8, <1>9 DEF TftpInv

LEMMA ClientInv ==
    ASSUME TftpInv, Client, UNCHANGED network
    PROVE  TftpInv'
<1>1. CASE \E m \in DOMAIN net \union Strays : Receive(m)
  <2>1. PICK m \in DOMAIN net \union Strays : Receive(m)
    BY <1>1
  <2>2. Turn /\ m.cport = tftp_recv_port /\ DOMAIN Delivered(net, m) \subseteq DOMAIN net
    BY <2>1, DeliveredPackets DEF Receive, Turn, server
  <2>3. CASE Stop(Delivered(net, m), "E_NET_PROTOCOL_ERROR")
    BY <2>2, <2>3, StopInv DEF Results
  <2>4. CASE retransmit(Delivered(net, m), "PKT_TFTP")
    BY <2>2, <2>4, RetransmitInv DEF Results
  <2>5. CASE m.op = "DATA" /\ ~Unwanted(m) /\ take_block(Delivered(net, m), m)
    <3>1. m \in DOMAIN net
        BY <2>5 DEF Strays, Unwanted, FromServer
    <3> QED
        BY <2>2, <2>5, <3>1, TakeBlockInv
  <2> QED
    BY <2>1, <2>3, <2>4, <2>5 DEF Receive
<1>2. CASE Timeout
    BY <1>2, RetransmitInv DEF Timeout, Turn, server, Results
<1>3. CASE Broken
    BY <1>3, StopInv DEF Broken, Turn, server, Results
<1> QED
    BY <1>1, <1>2, <1>3, CopyBlockInv DEF Client

-----------------------------------------------------------------------------
(* A new load: its port is new, so that nothing on the network is for it.    *)

LEMMA NewLoadInv ==
    ASSUME TftpInv, UNCHANGED network, NEW f \in Files, get_tftp_file(f)
    PROVE  TftpInv'
<1>1. /\ tftp_recv_port' = tftp_recv_port + 1 /\ file' = f /\ session' = session
      /\ port' = 0 /\ currblock' = 0 /\ retry' = 0 /\ stored' = <<>>
      /\ r' = "E_NET_ERROR" /\ recvbuf' = recvbuf
      /\ net' = Sent(net, RRQ(f, tftp_recv_port')) \/ net' = net
      /\ pc' = "done" \/ (pc' = "loop" /\ Retries > 0)
    BY DEF get_tftp_file, server
<1>2. /\ tftp_recv_port \in 0 .. Loads /\ tftp_recv_port < Loads /\ Loads \in Nat
      /\ network.sessions \in Nat /\ Retries \in Nat /\ Blocks[f] \in Nat
    BY NetworkFacts, FileFacts, TftpAssumption DEF get_tftp_file, TftpInv, TypeOK
<1>3. TypeOK'
    BY <1>1, <1>2 DEF TftpInv, TypeOK, Retries, Results, Tids
<1>4. ClientOK'
    BY <1>1, <1>2 DEF ClientOK, Retries
<1>5. Session \subseteq Session' /\ \A t : Serves(t) => Serves(t)' /\ session[t] \in Session
    BY <1>1, <1>2 DEF Session, Serves, Tids
<1>6. \A t : Serves(t) => ~Ours(session[t].cport)'
    BY <1>1, <1>2 DEF Session, Serves, Ours
<1>7. SessionOK' /\ session' \in [Tids -> {NoSession} \union Session]'
  <2>1. Tids' = Tids /\ session \in [Tids -> {NoSession} \union Session] /\ SessionOK
    BY DEF TftpInv, Tids
  <2>2. session' \in [Tids -> {NoSession} \union Session]'
    BY <1>1, <1>5, <2>1 DEF NoSession
  <2>3. SessionOK'
    BY <1>1, <1>5, <1>6, <2>1 DEF SessionOK, NoSession
  <2> QED
    BY <2>2, <2>3
<1>8. ASSUME NEW m \in DOMAIN net PROVE PacketOK(m)'
  <2>1. RequestOK(m) /\ DataOK(m) /\ AckOK(m)
    BY DEF TftpInv, NetOK, PacketOK
  <2>2. RequestOK(m)'
    BY <1>1, <1>2, <2>1 DEF RequestOK, Ours
  <2>3. DataOK(m)' /\ AckOK(m)'
    BY <1>1, <1>5, <1>6, <2>1 DEF DataOK, AckOK
  <2> QED
    BY <2>2, <2>3 DEF PacketOK
<1>9. NetOK'
  <2>1. CASE net' = net
    BY <1>8, <2>1, NetShrinks
  <2>2. CASE net' # net
    <3>1. PICK p : p = RRQ(f, tftp_recv_port') /\ net' = Sent(net, p)
        BY <1>1, <2>2
    <3>2. PacketOK(p)'
        BY <1>1, <1>2, <3>1 DEF RRQ, PacketOK, RequestOK, DataOK, AckOK
    <3> QED
        BY <1>8, <3>1, <3>2, NetSends
  <2> QED
    BY <2>1, <2>2
<1>10. EofIsComplete'
    BY <1>1 DEF EofIsComplete
<1> QED
    BY <1>3, <1>4, <1>7, <1>9, <1>10 DEF TftpInv

-----------------------------------------------------------------------------
(* The server.  A session begins for a request and goes on by one block for  *)
(* each acknowledgement of the block before.                                 *)

Later(t) == /\ Serves(t) /\ session'[t] \in Session
            /\ session'[t].cport = session[t].cport
            /\ session'[t].file = session[t].file
            /\ session[t].block <= session'[t].block

LEMMA ServerKeeps ==
    ASSUME TftpInv, UNCHANGED <<network, client>>,
           \A t \in Tids : Serves(t) => Later(t)
    PROVE  /\ TypeOK' /\ ClientOK' /\ EofIsComplete'
           /\ \A m \in DOMAIN net : PacketOK(m)'
<1>1. TypeOK' /\ EofIsComplete'
    BY DEF TftpInv, TypeOK, EofIsComplete, Complete, client, Retries, Tids
<1>2. \A t \in Tids : Serves(t) => Serves(t)'
    BY DEF Later, Serves, Session, Tids, client
<1>3. ClientOK'
    BY <1>2 DEF TftpInv, ClientOK, Later, Serves, Ours, client, Tids, Retries
<1>4. ASSUME NEW m \in DOMAIN net PROVE PacketOK(m)'
  <2>1. RequestOK(m) /\ DataOK(m) /\ AckOK(m)
    BY DEF TftpInv, NetOK, PacketOK
  <2>2. RequestOK(m)'
    BY <2>1 DEF RequestOK, Ours, client
  <2>3. DataOK(m)'
    <3> SUFFICES ASSUME m.op = "DATA"
                 PROVE  m.block \in 1 .. session'[m.tid].block /\ Serves(m.tid)'
                        /\ Later(m.tid)
        BY <2>1 DEF DataOK, Later
    <3>1. Serves(m.tid) /\ m.tid \in Tids /\ m.block \in 1 .. session[m.tid].block
        BY <2>1 DEF DataOK, Serves
    <3>2. session[m.tid].block \in Nat /\ session'[m.tid].block \in Nat /\ Later(m.tid)
        BY <3>1 DEF Later, Session, Serves
    <3> QED
        BY <1>2, <3>1, <3>2 DEF Later
  <2>4. AckOK(m)'
    BY <1>2, <2>1 DEF AckOK, Later, Serves, Ours, client, Received
  <2> QED
    BY <2>2, <2>3, <2>4 DEF PacketOK
<1> QED
    BY <1>1, <1>3, <1>4

\* The packet with the block a session has come to.
LEMMA DataPacket ==
    ASSUME TftpInv, UNCHANGED <<network, client>>, NEW t \in Tids, Serves(t)',
           session'[t].block <= Blocks[session'[t].file]
    PROVE  PacketOK(DATA(t, session[t]))'
<1>1. /\ session'[t].block \in Nat \ {0} /\ session'[t].file \in Files
    BY DEF Serves, Session
<1>2. session'[t].block % BlockMod = session'[t].block
    BY <1>1, NoWrap, FileFacts
<1>3. PICK p : p = DATA(t, session[t])'
    OBVIOUS
<1>4. DataOK(p)'
    BY <1>1, <1>2, <1>3 DEF DATA, DataOK
<1> QED
    BY <1>3, <1>4 DEF DATA, PacketOK, RequestOK, AckOK

LEMMA ServeRequestInv ==
    ASSUME TftpInv, UNCHANGED network, NEW m \in DOMAIN net, ServeRequest(m)
    PROVE  TftpInv'
<1>1. PICK t \in Tids, s \in {[cport |-> m.cport, file |-> m.data[1], block |-> 1]} :
          /\ m.op = "RRQ" /\ session[t] = NoSession
          /\ session' = [session EXCEPT ![t] = s]
          /\ net' = Sent(Delivered(net, m), DATA(t, s))
    BY DEF ServeRequest
<1>2. UNCHANGED <<network, client>>
    BY DEF ServeRequest
<1>3. /\ m.cport \in 1 .. tftp_recv_port /\ m.data[1] \in Files
      /\ Ours(m.cport) => m.data[1] = file
      /\ session \in [Tids -> {NoSession} \union Session]
    BY <1>1 DEF TftpInv, NetOK, PacketOK, RequestOK
<1>4. s \in Session /\ Session' = Session /\ Tids' = Tids /\ session'[t] = s
    BY <1>1, <1>2, <1>3 DEF Session, client, Tids
<1>5. \A u \in Tids : Serves(u) => Later(u)
    BY <1>1, <1>3, <1>4 DEF Serves, Later, Session, NoSession
<1>6. Blocks[s.file] \in Nat \ {0} /\ s.block = 1
    BY <1>1, <1>3, FileFacts
<1>7. SessionOK'
  <2> SUFFICES ASSUME NEW u \in Tids, session'[u] # NoSession
               PROVE  (/\ Serves(u)
                       /\ session[u].block <= Blocks[session[u].file] + 1
                       /\ Ours(session[u].cport) =>
                             session[u].file = file /\ session[u].block - 1 <= Received)'
    BY <1>4 DEF SessionOK, NoSession
  <2>1. CASE u = t
    <3>1. Received \in Nat
        BY ReceivedFacts
    <3> QED
        BY <1>1, <1>2, <1>3, <1>4, <1>6, <2>1, <3>1 DEF Serves, Ours, client, Received
  <2>2. CASE u # t
    <3>1. session'[u] = session[u]
        BY <1>1, <1>3, <2>2
    <3> QED
        BY <1>2, <1>4, <3>1 DEF TftpInv, SessionOK, Serves, Ours, client, Received
  <2> QED
    BY <2>1, <2>2
<1>8. NetOK'
  <2>1. PICK p : p = DATA(t, s) /\ net' = Sent(Delivered(net, m), p)
    BY <1>1
  <2>2. PacketOK(DATA(t, session[t]))'
    BY <1>2, <1>4, <1>6, DataPacket DEF Serves
  <2>3. PacketOK(p)'
    BY <1>4, <2>1, <2>2
  <2> QED
    BY <1>2, <1>5, <2>1, <2>3, ServerKeeps, DeliveredPackets, NetSends
<1>9. session' \in [Tids -> {NoSession} \union Session]'
    BY <1>1, <1>3, <1>4 DEF NoSession
<1> QED
    BY <1>2, <1>5, <1>7, <1>8, <1>9, ServerKeeps DEF TftpInv

\* What a session has come to without its client's doing stays.
LEMMA SameSessions ==
    ASSUME TftpInv, UNCHANGED <<network, client, session>>
    PROVE  /\ SessionOK' /\ session' \in [Tids -> {NoSession} \union Session]'
           /\ \A t \in Tids : Serves(t) => Later(t)
<1>1. Tids' = Tids /\ Session' = Session
    BY DEF Tids, Session, client
<1>2. SessionOK' /\ session' \in [Tids -> {NoSession} \union Session]'
    BY <1>1 DEF TftpInv, SessionOK, Serves, Ours, NoSession, client, Received
<1>3. \A t \in Tids : Serves(t) => Later(t)
    BY DEF Later, Serves, Session
<1> QED
    BY <1>2, <1>3

LEMMA ServeAckInv ==
    ASSUME TftpInv, UNCHANGED network, NEW m \in DOMAIN net, ServeAck(m)
    PROVE  TftpInv'
<1>1. UNCHANGED <<network, client>> /\ Tids' = Tids /\ Session' = Session
    BY DEF ServeAck, client, Tids, Session
<1>2. PICK t \in Tids, s \in Session :
          /\ t = m.tid /\ s = session[t] /\ Serves(t)
          /\ m.block \in Nat /\ m.cport = s.cport
          /\ Ours(s.cport) => m.block <= Received
          /\ session \in [Tids -> {NoSession} \union Session]
  <2>1. AckOK(m) /\ m.op = "ACK" /\ m.cport = session[m.tid].cport
    BY DEF ServeAck, TftpInv, NetOK, PacketOK
  <2> QED
    BY <2>1 DEF AckOK, Serves, TftpInv
<1>3. /\ s.block \in Nat \ {0} /\ Blocks[s.file] \in Nat \ {0} /\ Received \in Nat
      /\ s.block <= Blocks[s.file] => s.block % BlockMod = s.block
    BY NoWrap, FileFacts, ReceivedFacts DEF Session
<1>4. CASE /\ session' = session
           /\ \/ DOMAIN net' \subseteq DOMAIN net
              \/ /\ net' = Sent(Delivered(net, m), DATA(t, s))
                 /\ s.block <= Blocks[s.file]
  <2>2. CASE DOMAIN net' \subseteq DOMAIN net
    BY <1>1, <1>4, <2>2, SameSessions, ServerKeeps, NetShrinks DEF TftpInv
  <2>3. CASE /\ net' = Sent(Delivered(net, m), DATA(t, s))
             /\ s.block <= Blocks[s.file]
    <3>1. PICK p : p = DATA(t, s) /\ net' = Sent(Delivered(net, m), p)
        BY <2>3
    <3>2. session' = session /\ Serves(t)'
        BY <1>1, <1>2, <1>4 DEF Serves
    <3>3. PacketOK(DATA(t, session[t]))'
        BY <1>1, <1>2, <2>3, <3>2, DataPacket
    <3>4. PacketOK(p)'
        BY <1>2, <3>1, <3>2, <3>3
    <3> QED
        BY <1>1, <1>4, <3>1, <3>4, SameSessions, ServerKeeps, DeliveredPackets, NetSends
        DEF TftpInv
  <2> QED
    BY <1>4, <2>2, <2>3
<1>5. CASE \E next \in {[s EXCEPT !.block = @ + 1]} :
               /\ m.block = s.block % BlockMod /\ s.block <= Blocks[s.file]
               /\ session' = [session EXCEPT ![t] = next]
               /\ net' = IF next.block <= Blocks[s.file]
                         THEN Sent(Delivered(net, m), DATA(t, next))
                         ELSE Delivered(net, m)
  <2>1. PICK next :
            /\ next = [s EXCEPT !.block = @ + 1]
            /\ m.block = s.block /\ s.block <= Blocks[s.file]
            /\ session' = [session EXCEPT ![t] = next]
            /\ net' = IF next.block <= Blocks[s.file]
                      THEN Sent(Delivered(net, m), DATA(t, next)) ELSE Delivered(net, m)
    BY <1>3, <1>5
  <2>2. /\ next \in Session /\ next.block = s.block + 1
        /\ next.cport = s.cport /\ next.file = s.file /\ session'[t] = next
    BY <1>2, <1>3, <2>1 DEF Session
  <2>3. \A u \in Tids : u # t => session'[u] = session[u]
    BY <1>2, <2>1
  <2>4. \A u \in Tids : Serves(u) => Later(u)
    <3>1. TAKE u \in Tids
    <3>2. CASE u = t
        BY <1>2, <1>3, <2>2, <3>2 DEF Serves, Later
    <3>3. CASE u # t
        BY <2>3, <3>3 DEF Serves, Later, Session
    <3> QED
        BY <3>2, <3>3
  <2>5. SessionOK'
    <3> SUFFICES ASSUME NEW u \in Tids, session'[u] # NoSession
                 PROVE  (/\ Serves(u)
                         /\ session[u].block <= Blocks[session[u].file] + 1
                         /\ Ours(session[u].cport) =>
                               session[u].file = file /\ session[u].block - 1 <= Received)'
        BY <1>1 DEF SessionOK, NoSession
    <3>1. session[t] # NoSession
        BY <1>2 DEF Session, NoSession
    <3>2. Ours(s.cport) => s.file = file /\ s.block <= Received
      <4>1. Ours(s.cport) => s.file = file
        BY <1>2, <3>1 DEF TftpInv, SessionOK
      <4> QED
        BY <1>2, <2>1, <4>1
    <3>3. CASE u = t
      <4>1. Serves(u)' /\ session'[u] = next
        BY <1>1, <2>2, <3>3 DEF Serves
      <4>2. next.block <= Blocks[next.file] + 1
        BY <1>3, <2>1, <2>2
      <4>3. Ours(next.cport)' => next.file = file' /\ next.block - 1 <= Received'
        BY <1>1, <1>3, <2>1, <2>2, <3>2 DEF Ours, client, Received
      <4> QED
        BY <4>1, <4>2, <4>3 DEF Ours
    <3>4. CASE u # t
        BY <1>1, <2>3, <3>4 DEF TftpInv, SessionOK, Serves, Ours, client, Received
    <3> QED
        BY <3>3, <3>4
  <2>6. NetOK'
    <3>1. CASE next.block > Blocks[s.file]
      <4>1. net' = Delivered(net, m)
        BY <1>3, <2>1, <2>2, <3>1
      <4> QED
        BY <1>1, <2>4, <4>1, DeliveredPackets, ServerKeeps, NetShrinks
    <3>2. CASE next.block <= Blocks[s.file]
      <4>1. PICK p : p = DATA(t, next) /\ net' = Sent(Delivered(net, m), p)
        BY <2>1, <3>2
      <4>2. PacketOK(DATA(t, session[t]))'
        BY <1>1, <2>2, <3>2, DataPacket DEF Serves
      <4>3. PacketOK(p)'
        BY <2>2, <4>1, <4>2
      <4> QED
        BY <1>1, <2>4, <4>1, <4>3, ServerKeeps, DeliveredPackets, NetSends
    <3> QED
        BY <1>3, <2>2, <3>1, <3>2
  <2>7. session' \in [Tids -> {NoSession} \union Session]'
    BY <1>1, <1>2, <2>1, <2>2 DEF NoSession
  <2> QED
    BY <1>1, <2>4, <2>5, <2>6, <2>7, ServerKeeps DEF TftpInv
<1> QED
  <2>1. \/ /\ session' = session
           /\ net' \in {Delivered(net, m), Sent(Delivered(net, m), DATA(t, s))}
           /\ net' # Delivered(net, m) => s.block <= Blocks[s.file]
        \/ /\ m.block = s.block % BlockMod /\ s.block <= Blocks[s.file]
           /\ session' = [session EXCEPT ![t] = [s EXCEPT !.block = @ + 1]]
           /\ net' = IF [s EXCEPT !.block = @ + 1].block <= Blocks[s.file]
                     THEN Sent(Delivered(net, m), DATA(t, [s EXCEPT !.block = @ + 1]))
                     ELSE Delivered(net, m)
    <3>1. [s EXCEPT !.block = @ + 1].file = s.file
        BY DEF Session
    <3> QED
        BY <1>2, <3>1 DEF ServeAck
  <2> QED
    BY <1>4, <1>5, <2>1, DeliveredPackets

LEMMA ResendInv ==
    ASSUME TftpInv, UNCHANGED network, NEW t \in Tids, Resend(t)
    PROVE  TftpInv'
<1>1. /\ UNCHANGED <<network, client, session>> /\ session[t] # NoSession
      /\ session[t].block <= Blocks[session[t].file]
      /\ net' = Sent(net, DATA(t, session[t]))
    BY DEF Resend
<1>2. Serves(t)'
    BY <1>1 DEF TftpInv, SessionOK, Serves, Session, Tids, client
<1>3. PICK p : p = DATA(t, session[t]) /\ net' = Sent(net, p)
    BY <1>1
<1>4. PacketOK(DATA(t, session[t]))'
    BY <1>1, <1>2, DataPacket
<1>5. PacketOK(p)'
    BY <1>1, <1>3, <1>4
<1> QED
    BY <1>1, <1>3, <1>5, SameSessions, ServerKeeps, NetSends DEF TftpInv

LEMMA LossInv ==
    ASSUME TftpInv, UNCHANGED network, NEW m \in DOMAIN net, Lose(m) \/ Drop(m)
    PROVE  TftpInv'
<1>1. UNCHANGED <<network, client, session>> /\ net' = BagRemove(net, m)
    BY DEF Lose, Drop, server
<1> QED
    BY <1>1, DeliveredPackets, SameSessions, ServerKeeps, NetShrinks DEF TftpInv

-----------------------------------------------------------------------------
LEMMA TftpInvInit == Init => TftpInv
<1> SUFFICES ASSUME Init PROVE TftpInv
    OBVIOUS
<1>1. TypeOK
    BY TftpAssumption DEF Init, TypeOK, Retries, Results
<1>2. ClientOK
    BY <1>1, FileFacts DEF Init, ClientOK, TypeOK
<1>3. session \in [Tids -> {NoSession} \union Session] /\ SessionOK
    BY DEF Init, SessionOK, NoSession
<1>4. NetOK
    BY DEF Init, NetOK, EmptyBag, SetToBag
<1> QED
    BY <1>1, <1>2, <1>3, <1>4 DEF TftpInv, Init, EofIsComplete

LEMMA TftpInvNext == TftpInv /\ [Next]_vars => TftpInv'
<1> SUFFICES ASSUME TftpInv, [Next]_vars PROVE TftpInv'
    OBVIOUS
<1>1. CASE UNCHANGED vars
  <2>1. UNCHANGED <<network, client, session, net>>
    BY <1>1 DEF vars, server
  <2> QED
    BY <2>1, SameSessions, ServerKeeps, NetShrinks DEF TftpInv
<1>2. CASE Next
  <2>1. UNCHANGED network
    BY <1>2 DEF Next
  <2>2. CASE \E f \in Files : get_tftp_file(f)
    BY <2>1, <2>2, NewLoadInv
  <2>3. CASE Client
    BY <2>1, <2>3, ClientInv
  <2>4. CASE Server
    BY <2>1, <2>4, ServeRequestInv, ServeAckInv, ResendInv DEF Server
  <2>5. CASE \E m \in DOMAIN net : Lose(m) \/ Drop(m)
    BY <2>1, <2>5, LossInv
  <2> QED
    BY <1>2, <2>2, <2>3, <2>4, <2>5 DEF Next
<1> QED
    BY <1>1, <1>2

\* The state is well typed: in particular retries are never exceeded, and no
\* port is the server's but those it answered from (get_tftp_file).
THEOREM TransferTyped == Spec => []TypeOK
<1>1. TftpInv => TypeOK
    BY DEF TftpInv
<1> QED
    BY <1>1, TftpInvInit, TftpInvNext, PTL DEF Spec

\* What get_tftp_file copies to memory is the beginning of the file asked for,
\* each block once and in order, over any network.
THEOREM PrefixStored == Spec => []StoredIsPrefix
<1>1. TftpInv => StoredIsPrefix
    BY DEF TftpInv, ClientOK, StoredIsPrefix
<1> QED
    BY <1>1, TftpInvInit, TftpInvNext, PTL DEF Spec

\* All of it comes from one port of the server, the one kept in s->port.
THEOREM FromOneTransfer == Spec => []OneTransfer
<1>1. TftpInv => OneTransfer
    BY DEF TftpInv, ClientOK, OneTransfer
<1> QED
    BY <1>1, TftpInvInit, TftpInvNext, PTL DEF Spec

\* tftp_send_ack comes before the copy: the server can take a block for arrived
\* that is not in memory, but only the one the client copies before it waits for
\* another packet or returns.
THEOREM AckedAreStored == Spec => []AckedIsStored
<1>1. TftpInv => AckedIsStored
    BY DEF TftpInv, SessionOK, AckedIsStored, Ours
<1> QED
    BY <1>1, TftpInvInit, TftpInvNext, PTL DEF Spec

\* A load that ends with a short block has all of the file.
THEOREM EofMeansComplete == Spec => []EofIsComplete
<1>1. TftpInv => EofIsComplete
    BY DEF TftpInv
<1> QED
    BY <1>1, TftpInvInit, TftpInvNext, PTL DEF Spec
=============================================================================
