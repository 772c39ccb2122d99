----------------------------- MODULE NetConfig -----------------------------
(***************************************************************************)
(* How the obp-tftp package of SmartFirmware (src/bin/of/obptftp.c) finds  *)
(* out who it is and whom to load from, before "load" starts the transfer  *)
(* that module Tftp describes: get_bootp_info with BOOTP and DHCP, RARP    *)
(* and ARP, and "ping", which shares its state.                            *)
(*                                                                         *)
(* The servers and the network are external.  "sent" is all that the       *)
(* client has ever sent; any answer that a server may give to any of it    *)
(* may arrive at any time, any number of times, or never.  So answers are  *)
(* lost, repeated, reordered and late, and servers do as they like within  *)
(* their protocol.  A host is named by one value that stands for its IP    *)
(* and its Ethernet address; our own address is named by the server that   *)
(* gave it to us.                                                          *)
(***************************************************************************)
EXTENDS Integers

CONSTANTS
    Servers,        \* hosts that answer BOOTP, DHCP and RARP requests
    DhcpServers,    \* those of them that speak DHCP
    Silent,         \* those whose answers leave out the server's own address
    NextServer,     \* [Servers -> host or Zero]: siaddr, whom to load from
    Relay,          \* [Servers -> host or Zero]: whose frames the answers are
    PingTargets,    \* hosts that "ping" is called with
    Protocols,      \* what callers open the package with, "boot-protocol"
    UserArgs,       \* [ip, server, gateway]: what else they open it with
    BootpRetries,   \* s->bootp_retries
    ArpRetries,     \* RETRIES
    LoadAfterPing,  \* callers load after a ping without opening it again
    Opens, Calls    \* how often callers open it, and load and ping

Zero == "0.0.0.0"
Broadcast == "broadcast"
User == "user"      \* our address, when the arguments of open give it

Hosts == Servers \union {NextServer[s] : s \in Servers}
                 \union {Relay[s] : s \in Servers}
                 \union PingTargets
                 \union {u.server : u \in UserArgs} \union {u.gateway : u \in UserArgs}

ASSUME NetConfigAssumption ==
    /\ DhcpServers \subseteq Servers /\ Silent \subseteq Servers
    /\ DOMAIN NextServer = Servers /\ DOMAIN Relay = Servers
    /\ Protocols \subseteq {"bootp", "dhcp", "rarp"}
    /\ {BootpRetries, ArpRetries, Opens, Calls} \subseteq Nat
    /\ BootpRetries > 0 /\ ArpRetries > 0
    /\ \A u \in UserArgs : u.ip \in {Zero, User}
    /\ LoadAfterPing \in BOOLEAN

VARIABLES
    pc,             \* which loop the package is in, or "loading", "resolved"
    call,           \* "load" or "ping"
    target,         \* whom ping was asked to find
    user,           \* s->user_ip_addr, user_server_ip, user_gateway_ip
    bootp, rarp, dhcp,
    ip_addr, server_ip, server_mac, gateway_ip,
    dhcp_state, xid,
    i,              \* turns of the loop
    sent,           \* all packets sent
    opens, calls

flags == <<bootp, rarp, dhcp, user>>
addrs == <<ip_addr, server_ip, server_mac, gateway_ip>>
counts == <<opens, calls>>
vars == <<pc, call, target, flags, addrs, dhcp_state, xid, i, sent, counts>>

-----------------------------------------------------------------------------
(* Packets.  "to" is the host an IP packet is sent to, or the one an ARP    *)
(* request asks for; "id" is the server that a DHCP request names, or the   *)
(* address that an ARP request comes from.                                  *)

Packet(op, x, to, id) == [op |-> op, xid |-> x, to |-> to, id |-> id]

Discover(x, to) == Packet(IF dhcp THEN "DISCOVER" ELSE "BOOTREQUEST", x, to, Zero)
Request(x, id) == Packet("REQUEST", x, id, id)
ArpRequest(to, from) == Packet("ARP", 0, to, from)
RarpRequest == Packet("RARP", 0, Broadcast, Zero)

Hears(s, m) == m.to \in {Broadcast, s}
SourceOf(s) == IF Relay[s] = Zero THEN s ELSE Relay[s]

\* What a server may answer to a request.
AnswersTo(s, m) ==
    IF ~Hears(s, m) THEN {}
    ELSE IF s \notin DhcpServers
         THEN IF m.op \in {"DISCOVER", "BOOTREQUEST"} THEN {"REPLY"} ELSE {}
         ELSE CASE m.op = "DISCOVER" -> {"OFFER"}
                [] m.op = "BOOTREQUEST" -> {"REPLY"}
                [] m.op = "REQUEST" /\ m.id = s -> {"ACK", "NAK"}
                [] OTHER -> {}

Answers == UNION {UNION {[op : AnswersTo(s, m), xid : {m.xid}, from : {s}] :
                           m \in {n \in sent : n.op # "ARP"}} : s \in Servers}

\* The hosts that an ARP or a RARP request of ours makes answer us; those
\* beyond a relay do not hear an ARP request.
Remote == {s \in Servers : Relay[s] # Zero}
ArpAnswers == {m.to : m \in {n \in sent : n.op = "ARP" /\ n.id = ip_addr}}
                 \ (Remote \union {Zero, Broadcast})
RarpAnswers == IF RarpRequest \in sent THEN Servers ELSE {}

\* The server that an OFFER makes us ask: the one it names, else the one to
\* load from, else the sender.
Named(s) == IF s \notin Silent THEN s
            ELSE IF NextServer[s] # Zero THEN NextServer[s] ELSE SourceOf(s)

-----------------------------------------------------------------------------
Unknown(mac) == mac = Broadcast

Init == /\ pc = "closed" /\ call = "load" /\ target = Zero
        /\ user \in UserArgs
        /\ bootp = FALSE /\ rarp = FALSE /\ dhcp = FALSE
        /\ ip_addr = Zero /\ server_ip = Zero /\ gateway_ip = Zero
        /\ server_mac = Broadcast
        /\ dhcp_state = 0 /\ xid = 0 /\ i = 0
        /\ sent = {}
        /\ opens = 0 /\ calls = 0

f_obptftp_open(p, u) ==
    /\ pc = "closed" /\ opens < Opens
    /\ opens' = opens + 1
    /\ pc' = "idle"
    /\ user' = u
    /\ rarp' = (p = "rarp") /\ bootp' = (p # "rarp") /\ dhcp' = (p = "dhcp")
    /\ ip_addr' = Zero /\ server_ip' = Zero /\ gateway_ip' = Zero
    /\ server_mac' = Broadcast
    /\ call' = "load"
    /\ UNCHANGED <<target, dhcp_state, xid, i, sent, calls>>

f_obptftp_close ==
    /\ pc = "idle"
    /\ pc' = "closed"
    /\ UNCHANGED <<call, target, flags, addrs, dhcp_state, xid, i, sent, counts>>

\* The call under way ends with an error.
Fail == pc' = "idle" /\ UNCHANGED <<bootp, rarp, sent, i>>

\* get_bootp_info has succeeded; load goes on to the file, ping to its host.
Configured(c) == /\ bootp' = FALSE /\ rarp' = FALSE
                 /\ pc' = IF c = "load" THEN "loading" ELSE "resolved"

\* "we may need to send an ARP to get the server's MAC address", for the
\* gateway if there is one.
ArpTarget == IF gateway_ip' \notin {Zero, Broadcast} THEN gateway_ip' ELSE server_ip'

ArpIfNeeded(c, out) ==
    \/ /\ ~Unknown(server_mac')
       /\ Configured(c)
       /\ sent' = out
       /\ i' = 0
    \/ /\ Unknown(server_mac')
       /\ pc' = "arp"
       /\ sent' = out \union {ArpRequest(ArpTarget, ip_addr')}
       /\ i' = 0
       /\ UNCHANGED <<bootp, rarp>>

-----------------------------------------------------------------------------
(* The beginning of get_bootp_info. *)

UserKnowsAll == user.ip # Zero /\ user.server # Zero

UseArguments(c) ==
    /\ UserKnowsAll
    /\ ip_addr' = user.ip /\ server_ip' = user.server
    /\ UNCHANGED <<server_mac, gateway_ip, dhcp_state, xid>>
    /\ \/ /\ ~Unknown(server_mac)
          /\ Configured(c) /\ i' = 0 /\ UNCHANGED sent
       \/ /\ Unknown(server_mac)
          /\ bootp' = FALSE /\ rarp' = FALSE
          /\ pc' = "arp" /\ i' = 0
          /\ sent' = sent \union {ArpRequest(ArpTarget, ip_addr')}

StartBootp ==
    /\ ~UserKnowsAll /\ bootp
    /\ server_ip' = IF server_ip = Zero THEN Broadcast ELSE server_ip
    /\ server_mac' = IF server_ip = Zero THEN Broadcast ELSE server_mac
    /\ xid' = xid + 1
    /\ dhcp_state' = 0
    /\ sent' = sent \union {Discover(xid', server_ip')}
    /\ pc' = "bootp" /\ i' = 0
    /\ UNCHANGED <<ip_addr, gateway_ip, bootp, rarp>>

StartRarp ==
    /\ ~UserKnowsAll /\ ~bootp /\ rarp
    /\ sent' = sent \union {RarpRequest}
    /\ pc' = "rarp" /\ i' = 0
    /\ UNCHANGED <<addrs, dhcp_state, xid, bootp, rarp>>

StayConfigured(c) ==
    /\ ~UserKnowsAll /\ ~bootp /\ ~rarp
    /\ UNCHANGED <<addrs, dhcp_state, xid>>
    /\ ArpIfNeeded(c, sent)

get_bootp_info(c) ==
    /\ UseArguments(c) \/ StartBootp \/ StartRarp \/ StayConfigured(c)
    /\ UNCHANGED <<user, dhcp>>

f_obptftp_load ==
    /\ pc = "idle" /\ calls < Calls
    /\ call = "ping" => LoadAfterPing
    /\ calls' = calls + 1
    /\ call' = "load"
    /\ get_bootp_info("load")
    /\ UNCHANGED <<target, opens>>

\* do_ping asks for our own address only if there is none; without an argument
\* it looks for the server, whose address is read before it is known.
do_ping(h) ==
    /\ pc = "idle" /\ calls < Calls
    /\ calls' = calls + 1
    /\ call' = "ping"
    /\ target' = IF h = Zero THEN server_ip ELSE h
    /\ \/ /\ ip_addr # Zero
          /\ pc' = "resolved"
          /\ UNCHANGED <<flags, addrs, dhcp_state, xid, i, sent>>
       \/ /\ ip_addr = Zero /\ rarp
          /\ sent' = sent \union {RarpRequest}
          /\ pc' = "rarp" /\ i' = 0
          /\ UNCHANGED <<flags, addrs, dhcp_state, xid>>
       \/ /\ ip_addr = Zero /\ ~rarp /\ bootp
          /\ get_bootp_info("ping")
       \/ /\ ip_addr = Zero /\ ~rarp /\ ~bootp
          /\ Fail /\ UNCHANGED <<user, dhcp, addrs, dhcp_state, xid>>
    /\ UNCHANGED opens

-----------------------------------------------------------------------------
(* What arrives.  process_arp runs in every loop that reads packets; what   *)
(* it does not want, like all other packets, has no effect.                 *)

Reading == pc \in {"bootp", "rarp", "arp", "ping", "echo", "loading"}

\* Only the server's reply counts, whomever the request was for.
ArpReply(h) ==
    /\ Reading
    /\ h \in ArpAnswers /\ ip_addr # Zero
    /\ h = server_ip
    /\ server_mac' = h
    /\ \/ /\ pc = "arp" /\ Configured(call)
       \/ /\ pc = "ping" /\ pc' = "echo" /\ UNCHANGED <<bootp, rarp>>
       \/ /\ pc \notin {"arp", "ping"} /\ UNCHANGED <<pc, bootp, rarp>>
    /\ UNCHANGED <<call, target, user, dhcp, ip_addr, server_ip, gateway_ip,
                   dhcp_state, xid, i, sent, counts>>

RarpReply(s) ==
    /\ Reading /\ rarp
    /\ s \in RarpAnswers
    /\ ip_addr' = IF ip_addr = Zero THEN s ELSE ip_addr
    /\ IF server_ip \in {Zero, Broadcast, s}
       THEN server_ip' = s /\ server_mac' = s
       ELSE UNCHANGED <<server_ip, server_mac>>
    /\ UNCHANGED gateway_ip
    /\ \/ /\ pc = "rarp" /\ call = "load"
          /\ ArpIfNeeded(call, sent)
       \/ /\ pc = "rarp" /\ call = "ping"
          /\ pc' = "resolved"
          /\ UNCHANGED <<bootp, rarp, sent, i>>
       \/ /\ pc # "rarp"
          /\ UNCHANGED <<pc, bootp, rarp, sent, i>>
    /\ UNCHANGED <<call, target, user, dhcp, dhcp_state, xid, counts>>

\* Mutant: a server that is known already is not replaced.
server_kept(s) == IF user.server # Zero THEN user.server
                  ELSE IF server_ip \notin {Zero, Broadcast} THEN server_ip
                  ELSE NextServer[s]

ServerFrom(s) == IF user.server # Zero THEN user.server ELSE NextServer[s]

\* Mutant: the sender's Ethernet address is taken for the server's.
mac_of_sender(s) == IF Unknown(server_mac) THEN SourceOf(s) ELSE server_mac

MacFrom(s) == IF Unknown(server_mac) /\ SourceOf(s) = ServerFrom(s)
              THEN SourceOf(s) ELSE server_mac

\* The end of get_bootp_reply: what the answer of server s says, or what the
\* arguments of open say instead.  The answer then becomes a property of
\* /chosen, which may fail.
Accept(s) ==
    /\ ip_addr' = IF user.ip # Zero THEN user.ip ELSE s
    /\ server_ip' = ServerFrom(s)
    /\ gateway_ip' = IF user.gateway # Zero THEN user.gateway ELSE Relay[s]
    /\ server_mac' = MacFrom(s)
    /\ ArpIfNeeded(call, sent) \/ Fail

send_bootp_request == /\ sent' = sent \union {Discover(xid, server_ip)}
                      /\ dhcp_state' = 0

send_dhcp_request(s) == /\ server_ip' = Named(s)
                        /\ sent' = sent \union {Request(xid, Named(s))}
                        /\ dhcp_state' = 1

\* Mutant: a further OFFER is taken for the server's consent.
ack_or_offer(m) == m.op \in {"ACK", "OFFER"}

Agrees(m) == m.op = "ACK"

\* get_bootp_reply, for an answer to one of our requests.  Any server's answer
\* without DHCP options is taken at once.
get_bootp_reply(m) ==
    /\ pc = "bootp"
    /\ m \in Answers /\ m.xid = xid
    /\ \/ /\ m.op = "OFFER" /\ dhcp_state = 0
          /\ send_dhcp_request(m.from)
          /\ UNCHANGED <<pc, bootp, rarp, ip_addr, server_mac, gateway_ip, i>>
       \/ /\ m.op = "NAK" /\ dhcp_state = 1
          /\ send_bootp_request
          /\ UNCHANGED <<pc, bootp, rarp, addrs, i>>
       \/ /\ Agrees(m) /\ dhcp_state = 1
          /\ dhcp_state' = 0
          /\ Accept(m.from)
       \/ /\ m.op = "REPLY"
          /\ Accept(m.from)
          /\ UNCHANGED dhcp_state
    /\ UNCHANGED <<call, target, user, dhcp, xid, counts>>

-----------------------------------------------------------------------------
(* What else may happen. *)

\* Mutants: the loop is left one turn late; the turns are not counted.
bootp_once_more ==
    /\ pc = "bootp"
    /\ send_bootp_request
    /\ i' = i + 1
    /\ pc' = IF i' <= BootpRetries THEN pc ELSE "idle"
bootp_uncounted ==
    /\ pc = "bootp"
    /\ send_bootp_request
    /\ UNCHANGED <<i, pc>>

\* The timer of a loop runs out: the request again, or the end of the retries.
\* BOOTP sends even after the last wait.
BootpTimeout ==
    /\ pc = "bootp"
    /\ send_bootp_request
    /\ i' = i + 1
    /\ pc' = IF i' < BootpRetries THEN pc ELSE "idle"

ArpTimeout ==
    /\ pc \in {"rarp", "arp", "ping"}
    /\ i' = i + 1
    /\ pc' = IF i' < ArpRetries THEN pc ELSE "idle"
    /\ UNCHANGED <<sent, dhcp_state>>

Timeout == /\ BootpTimeout \/ ArpTimeout
           /\ UNCHANGED <<call, target, flags, addrs, xid, counts>>

\* The network interface fails.
Broken == /\ Reading
          /\ Fail
          /\ UNCHANGED <<call, target, user, dhcp, addrs, dhcp_state, xid, counts>>

\* do_ping, now that we have an address.
PingHost ==
    /\ pc = "resolved"
    /\ server_ip' = target
    /\ UNCHANGED <<ip_addr, server_mac, gateway_ip>>
    /\ sent' = sent \union {ArpRequest(ArpTarget, ip_addr)}
    /\ pc' = "ping" /\ i' = 0
    /\ UNCHANGED <<call, target, flags, dhcp_state, xid, counts>>

\* The file (module Tftp) or the echo has come, or has not.
Finish == /\ pc \in {"loading", "echo"}
          /\ pc' = "idle"
          /\ UNCHANGED <<call, target, flags, addrs, dhcp_state, xid, i, sent, counts>>

Client == \/ Timeout
          \/ Broken
          \/ PingHost
          \/ Finish

Next == \/ \E p \in Protocols, u \in UserArgs : f_obptftp_open(p, u)
        \/ f_obptftp_close
        \/ f_obptftp_load
        \/ \E h \in PingTargets \union {Zero} : do_ping(h)
        \/ \E h \in ArpAnswers : ArpReply(h)
        \/ \E s \in RarpAnswers : RarpReply(s)
        \/ \E m \in Answers : get_bootp_reply(m)
        \/ Client

Spec == Init /\ [][Next]_vars

\* The clock of every loop goes on, whatever arrives.
LiveSpec == Spec /\ WF_vars(Client)

-----------------------------------------------------------------------------
(* Properties. *)

TypeOK ==
    /\ pc \in {"closed", "idle", "bootp", "rarp", "arp", "resolved", "ping",
               "echo", "loading"}
    /\ call \in {"load", "ping"}
    /\ user \in UserArgs
    /\ {bootp, rarp, dhcp} \subseteq BOOLEAN /\ ~(bootp /\ rarp)
    /\ ip_addr \in Servers \union {Zero, User}
    /\ {server_ip, server_mac, gateway_ip} \subseteq Hosts \union {Zero, Broadcast}
    /\ dhcp_state \in {0, 1}
    /\ i \in 0 .. (IF BootpRetries > ArpRetries THEN BootpRetries ELSE ArpRetries)

\* The address a load uses was agreed on: a DHCP server that leased it has been
\* sent a request that names it, in this call's transaction.
LeaseIsAgreed ==
    pc = "loading" /\ dhcp /\ ip_addr \in DhcpServers =>
        \E m \in sent : m.op = "REQUEST" /\ m.xid = xid /\ m.id = ip_addr

\* Our address and whom to load from come from one server, or from the caller:
\* answers of two servers, or of two calls, are never mixed.
OneSource ==
    pc = "loading" =>
        \/ server_ip = user.server
        \/ \E s \in Servers : /\ ip_addr \in {s, user.ip}
                              /\ \/ server_ip = NextServer[s]
                                 \/ ~dhcp /\ server_ip = s

\* The frames of a load go to the host its packets are for, or to the gateway.
RightMac == pc = "loading" => server_mac \in {server_ip, gateway_ip}

\* The reply that get_arp_info waits for is that of the host it asks.
AskedIsHeard ==
    pc = "arp" => ArpRequest(server_ip, ip_addr) \in sent

\* A load or a ping comes to its end, whatever arrives.
Terminates == Reading ~> pc \in {"idle", "loading", "echo"}

=============================================================================
