-------------------------------- MODULE Tftp --------------------------------
(***************************************************************************)
(* Network booting in SmartFirmware: get_tftp_file of the obp-tftp package *)
(* (src/bin/of/obptftp.c), which "load" calls once the addresses are       *)
(* known.  The server and the network are external: a server in the style  *)
(* of RFC 1350 with one port ("tid") for each request it answers, and a    *)
(* network that loses, repeats and reorders packets.                       *)
(*                                                                         *)
(* One step of the client is one turn of the loop in get_tftp_file: what   *)
(* tftp_get_reply came back with, and everything that is done about it, up *)
(* to the acknowledgement of a block; to copy the block is a step of its   *)
(* own, for the server may have the acknowledgement by then.               *)
(***************************************************************************)
EXTENDS Integers, Sequences, Bags, BagsExt

CONSTANTS
    Files,          \* files on the server
    Blocks,         \* [Files -> Nat]: data packets of each, the last one short
    BlockMod,       \* 2^16, the range of the block number in a packet
    Loads,          \* calls of get_tftp_file
    Networks        \* where the loads are made:
                    \*   hostile    packets may come at any time and any number of
                    \*              times, or never, and the interface may fail
                    \*   strangers  other hosts send packets to our port
                    \*   retries    s->tftp_retries
                    \*   sessions   requests that the server answers
                    \*   resends    times the server repeats a packet unasked
                    \*   losses     packets that a network that is not hostile loses

ASSUME TftpAssumption ==
    /\ Blocks \in [Files -> Nat \ {0}]
    /\ BlockMod \in Nat \ {0, 1}
    /\ Loads \in Nat
    /\ Networks \subseteq [hostile : BOOLEAN, strangers : BOOLEAN, retries : Nat,
                           sessions : Nat, resends : Nat, losses : Nat]

VARIABLES
    network,        \* which of Networks it is; never changes
    \* the client
    pc,             \* where get_tftp_file is
    file,           \* s->file_name
    tftp_recv_port, \* our UDP port
    port,           \* s->port, the server's UDP port; 0 is none yet
    currblock, retry,
    recvbuf,        \* the block in it that is still to be copied, or <<>>
    r,              \* what get_tftp_file returns
    stored,         \* the blocks copied to addr: file, place in it, server port
    \* the server and the network
    session, resent, net, lost

client == <<pc, file, tftp_recv_port, port, currblock, retry, recvbuf, r, stored>>
server == <<session, resent>>
vars == <<network, client, server, net, lost>>

Tids == 1 .. network.sessions
Hostile == network.hostile
Retries == network.retries
NoSession == [cport |-> 0]
Results == {"PKT_TFTP", "E_NET_ERROR", "E_NET_TIMEOUT", "E_NET_PROTOCOL_ERROR"}

-----------------------------------------------------------------------------
(* Packets.  "cport" is the client's port and "tid" the server's. *)

RRQ(f, cp) == [op |-> "RRQ", cport |-> cp, tid |-> 0, block |-> 0, data |-> <<f>>]
ACK(t, cp, n) == [op |-> "ACK", cport |-> cp, tid |-> t, block |-> n % BlockMod,
                  data |-> <<>>]
DATA(t, s) == [op |-> "DATA", cport |-> s.cport, tid |-> t,
               block |-> s.block % BlockMod, data |-> <<s.file, s.block, t>>]

\* Packets to our port that are no part of the transfer: another host's, and
\* from the server any that carry neither data nor an error.
Strays ==
    IF ~network.strangers THEN {}
    ELSE [op : {"DATA", "ERROR"}, host : {"other"}, cport : {tftp_recv_port},
          tid : {port}, block : {currblock, currblock + 1}, data : {<<>>}]
         \union
         [op : {"ACK"}, host : {"server"}, cport : {tftp_recv_port},
          tid : {port}, block : {currblock, currblock + 1}, data : {<<>>}]

FromServer(m) == m \notin Strays \/ m.host = "server"

\* Mistake: a full packet taken for a short one (<= for <).
ShortOrFull(d) == d[2] >= Blocks[d[1]] - 1

\* recvlen < TFTP_XFER_SIZE
Short(d) == d[2] = Blocks[d[1]]

\* The network n after a packet was sent, or was delivered.
Sent(n, m) == IF Hostile /\ m \in DOMAIN n THEN n ELSE BagAdd(n, m)
Delivered(n, m) == IF Hostile THEN n ELSE BagRemove(n, m)

\* A prompt network answers before anybody's timer runs out.
Quiet == Hostile \/ net = EmptyBag

-----------------------------------------------------------------------------
Init == /\ network \in Networks
        /\ pc = "idle"
        /\ file \in Files
        /\ tftp_recv_port = 0 /\ port = 0
        /\ currblock = 0 /\ retry = 0
        /\ recvbuf = <<>>
        /\ r = "E_NET_ERROR"
        /\ stored = <<>>
        /\ session = [t \in Tids |-> NoSession]
        /\ resent = 0
        /\ net = EmptyBag
        /\ lost = 0

\* get_tftp_file up to the loop: a new port of ours, no port of the server's.
get_tftp_file(f) ==
    /\ pc \in {"idle", "done"}
    /\ tftp_recv_port < Loads
    /\ file' = f
    /\ tftp_recv_port' = tftp_recv_port + 1
    /\ port' = 0 /\ currblock' = 0 /\ retry' = 0 /\ stored' = <<>>
    /\ r' = "E_NET_ERROR"
    /\ \/ /\ net' = Sent(net, RRQ(f, tftp_recv_port'))
          /\ pc' = IF Retries > 0 THEN "loop" ELSE "done"
       \/ Hostile /\ pc' = "done" /\ UNCHANGED net
    /\ UNCHANGED <<server, recvbuf, lost>>

\* Mistake: one turn of the loop too many.
retransmit_once_more(n, reply) ==
    /\ retry' = retry + 1
    /\ net' = Sent(n, IF currblock = 0 THEN RRQ(file, tftp_recv_port)
                      ELSE ACK(port, tftp_recv_port, currblock))
    /\ r' = reply
    /\ pc' = IF retry' <= Retries THEN "loop" ELSE "done"
    /\ UNCHANGED <<port, currblock, recvbuf, stored>>

\* Mistake: any answer starts the retries again.
retransmit_afresh(n, reply) ==
    /\ retry' = IF reply = "PKT_TFTP" THEN 0 ELSE retry + 1
    /\ net' = Sent(n, IF currblock = 0 THEN RRQ(file, tftp_recv_port)
                      ELSE ACK(port, tftp_recv_port, currblock))
    /\ r' = reply
    /\ pc' = IF retry' < Retries THEN "loop" ELSE "done"
    /\ UNCHANGED <<port, currblock, recvbuf, stored>>

\* Mistake: acknowledges the block that is still to come.
retransmit_next(n, reply) ==
    /\ retry' = retry + 1
    /\ net' = Sent(n, IF currblock = 0 THEN RRQ(file, tftp_recv_port)
                      ELSE ACK(port, tftp_recv_port, currblock + 1))
    /\ r' = reply
    /\ pc' = IF retry' < Retries THEN "loop" ELSE "done"
    /\ UNCHANGED <<port, currblock, recvbuf, stored>>

\* The last packet again, whatever it was; reply is what this turn of the loop
\* got, and what the function returns if the retries are used up.
retransmit(n, reply) ==
    /\ retry' = retry + 1
    /\ \/ /\ net' = Sent(n, IF currblock = 0 THEN RRQ(file, tftp_recv_port)
                            ELSE ACK(port, tftp_recv_port, currblock))
          /\ r' = reply
          /\ pc' = IF retry' < Retries THEN "loop" ELSE "done"
       \/ /\ Hostile
          /\ net' = n
          /\ r' = "E_NET_ERROR"
          /\ pc' = "done"
    /\ UNCHANGED <<port, currblock, recvbuf, stored>>

Stop(n, result) ==
    /\ r' = result
    /\ pc' = "done"
    /\ net' = n
    /\ UNCHANGED <<port, currblock, retry, recvbuf, stored>>

\* Mistake: the block number is not looked at.
UnwantedAnyBlock(m) == ~FromServer(m) \/ (currblock > 0 /\ port # m.tid)

Unwanted(m) == \/ currblock + 1 # m.block
               \/ ~FromServer(m)
               \/ currblock > 0 /\ port # m.tid

\* The next block is acknowledged,
take_block(n, m) ==
    /\ port' = IF currblock = 0 THEN m.tid ELSE port
    /\ currblock' = currblock + 1
    /\ \/ /\ net' = Sent(n, ACK(port', tftp_recv_port, currblock'))
          /\ r' = "PKT_TFTP"
          /\ pc' = "copy"
          /\ recvbuf' = m.data
       \/ /\ Hostile
          /\ net' = n
          /\ r' = "E_NET_ERROR"
          /\ pc' = "done"
          /\ UNCHANGED recvbuf
    /\ UNCHANGED <<retry, stored>>

\* and copied then.
copy_block ==
    /\ pc = "copy"
    /\ stored' = Append(stored, recvbuf)
    /\ recvbuf' = <<>>
    /\ \/ Short(recvbuf) /\ pc' = "done" /\ UNCHANGED retry
       \/ ~Short(recvbuf) /\ pc' = "loop" /\ retry' = 0
    /\ UNCHANGED <<file, tftp_recv_port, port, currblock, r, server, net, lost>>

\* Mistake: s->port follows every packet from the server.
ReceiveFollowing(m) ==
    LET n == Delivered(net, m) IN
    /\ pc = "loop"
    /\ m.op = "DATA" /\ m.cport = tftp_recv_port /\ m \notin Strays
    /\ \/ /\ currblock + 1 # m.block /\ currblock > 0
          /\ port' = m.tid
          /\ retry' = retry + 1
          /\ net' = Sent(n, ACK(m.tid, tftp_recv_port, currblock))
          /\ r' = "PKT_TFTP"
          /\ pc' = IF retry' < Retries THEN "loop" ELSE "done"
          /\ UNCHANGED <<currblock, recvbuf, stored>>
       \/ currblock + 1 = m.block /\ take_block(n, m)
    /\ UNCHANGED <<file, tftp_recv_port, server, lost>>

\* tftp_get_reply returned PKT_TFTP.
Receive(m) ==
    LET n == Delivered(net, m) IN
    /\ pc = "loop"
    /\ m.op # "RRQ" /\ m.cport = tftp_recv_port
    /\ m.op = "ACK" => m \in Strays
    /\ \/ m.op = "ERROR" /\ Stop(n, "E_NET_PROTOCOL_ERROR")
       \/ m.op # "ERROR" /\ Unwanted(m) /\ retransmit(n, "PKT_TFTP")
       \/ m.op = "ACK" /\ ~Unwanted(m) /\ Stop(n, "E_NET_PROTOCOL_ERROR")
       \/ m.op = "DATA" /\ ~Unwanted(m) /\ take_block(n, m)
    /\ UNCHANGED <<file, tftp_recv_port, server, lost>>

\* Mistake: a timeout is returned as any other error is.
TimeoutReturned ==
    /\ pc = "loop" /\ Quiet
    /\ Stop(net, "E_NET_TIMEOUT")
    /\ UNCHANGED <<file, tftp_recv_port, server, lost>>

\* tftp_get_reply returned E_NET_TIMEOUT.
Timeout ==
    /\ pc = "loop" /\ Quiet
    /\ retransmit(net, "E_NET_TIMEOUT")
    /\ UNCHANGED <<file, tftp_recv_port, server, lost>>

\* tftp_get_reply returned the error of the network interface.
Broken ==
    /\ pc = "loop" /\ Hostile
    /\ Stop(net, "E_NET_ERROR")
    /\ UNCHANGED <<file, tftp_recv_port, server, lost>>

Client == \/ \E m \in DOMAIN net \union Strays : Receive(m)
          \/ copy_block
          \/ Timeout
          \/ Broken

-----------------------------------------------------------------------------
(* The server: a session for each request, in lock step with its client. *)

ServeRequest(m) ==
    \E t \in Tids :
       /\ m.op = "RRQ"
       /\ session[t] = NoSession
       /\ \A u \in 1 .. t - 1 : session[u] # NoSession
       /\ LET s == [cport |-> m.cport, file |-> m.data[1], block |-> 1] IN
             /\ session' = [session EXCEPT ![t] = s]
             /\ net' = Sent(Delivered(net, m), DATA(t, s))
       /\ UNCHANGED <<client, resent, lost>>

ServeAck(m) ==
    LET s == session[m.tid]
        next == [s EXCEPT !.block = @ + 1]
        n == Delivered(net, m)
    IN
    /\ m.op = "ACK" /\ m.cport = s.cport
    /\ \/ /\ m.block = s.block % BlockMod
          /\ s.block <= Blocks[s.file]
          /\ session' = [session EXCEPT ![m.tid] = next]
          /\ net' = IF next.block <= Blocks[s.file]
                    THEN Sent(n, DATA(m.tid, next)) ELSE n
       \/ /\ m.block = (s.block - 1) % BlockMod
          /\ s.block <= Blocks[s.file]
          /\ net' = Sent(n, DATA(m.tid, s))
          /\ UNCHANGED session
       \/ /\ s.block > Blocks[s.file] \/ m.block \notin {s.block % BlockMod, (s.block - 1) % BlockMod}
          /\ net' = n
          /\ UNCHANGED session
    /\ UNCHANGED <<client, resent, lost>>

\* The server's own timer.
Resend(t) ==
    LET s == session[t] IN
    /\ Quiet
    /\ resent < network.resends
    /\ s # NoSession
    /\ s.block <= Blocks[s.file]
    /\ resent' = resent + 1
    /\ net' = Sent(net, DATA(t, s))
    /\ UNCHANGED <<client, session, lost>>

Server == \/ \E m \in DOMAIN net : ServeRequest(m) \/ ServeAck(m)
          \/ \E t \in Tids : Resend(t)

-----------------------------------------------------------------------------
\* A prompt network loses some packets, and the interface drops what comes for
\* a port of an earlier file or for nobody.
Lose(m) == /\ ~Hostile
           /\ lost < network.losses
           /\ lost' = lost + 1
           /\ net' = BagRemove(net, m)
           /\ UNCHANGED <<client, server>>

Drop(m) == /\ ~Hostile
           /\ m.op = "DATA"
           /\ pc \in {"idle", "done"} \/ m.cport # tftp_recv_port
           /\ net' = BagRemove(net, m)
           /\ UNCHANGED <<client, server, lost>>

Next == /\ \/ \E f \in Files : get_tftp_file(f)
           \/ Client
           \/ Server
           \/ \E m \in DOMAIN net : Lose(m) \/ Drop(m)
        /\ UNCHANGED network

Spec == Init /\ [][Next]_vars

\* The loop of get_tftp_file runs and its timer runs out; a prompt network and
\* its server do answer.
LiveSpec == /\ Spec
            /\ WF_vars(Client /\ UNCHANGED network)
            /\ WF_vars(/\ ~Hostile
                       /\ Server \/ \E m \in DOMAIN net : Drop(m)
                       /\ UNCHANGED network)

-----------------------------------------------------------------------------
(* Properties. *)

TypeOK ==
    /\ network \in Networks
    /\ pc \in {"idle", "loop", "copy", "done"}
    /\ file \in Files
    /\ tftp_recv_port \in 0 .. Loads
    /\ port \in 0 .. network.sessions
    /\ currblock \in Nat /\ retry \in 0 .. Retries
    /\ r \in Results
    /\ recvbuf # <<>> => recvbuf \in Files \X Nat \X Tids
    /\ \A i \in DOMAIN stored : stored[i] \in Files \X Nat \X Tids

\* What is in memory is the beginning of the file that was asked for, block by
\* block: no block twice, none left out, none of another load, whatever packets
\* were repeated, delayed or sent for an earlier file.
StoredIsPrefix ==
    /\ Len(stored) <= currblock
    /\ \A i \in DOMAIN stored : stored[i][1] = file /\ stored[i][2] = i

\* All of it came from one server port: a request that was answered twice is
\* not put together from two transfers.
OneTransfer == \A i, j \in DOMAIN stored : stored[i][3] = stored[j][3]

\* The blocks in memory, with the one that is being copied.
Received == Len(stored) + (IF pc = "copy" THEN 1 ELSE 0)

\* The acknowledgement goes out before the copy, so the server may believe that
\* a block has arrived which is not in memory.  It is never more than that one,
\* the one the client is about to copy: when the client waits for a packet, or
\* has returned, all that the server was told of is in memory.
AckedIsStored ==
    \A t \in Tids : session[t] # NoSession /\ session[t].cport = tftp_recv_port
        => session[t].block - 1 <= Received

Complete == Len(stored) = Blocks[file]

\* A load that stopped for a short block has the whole file.
EofIsComplete ==
    pc = "done" /\ r = "PKT_TFTP" /\ retry < Retries => Complete

\* get_tftp_file returns PKT_TFTP "if we got a TFTP file".
SuccessIsComplete == pc = "done" /\ r = "PKT_TFTP" => Complete

\* A load ends, whatever the network does: each turn of the loop stores a block
\* or uses up a retry.
Terminates == pc = "loop" ~> pc = "done"

\* A load over a network that answers in time and loses fewer packets than
\* there are retries ends with the whole file.
Delivers == ~Hostile /\ pc = "loop" ~> pc = "done" /\ r = "PKT_TFTP" /\ Complete

=============================================================================
