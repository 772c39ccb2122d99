--------------------------- MODULE NetConfigProofs ---------------------------
(***************************************************************************)
(* What is proved of the configuration of addresses for any servers and    *)
(* any number of calls: which answers, of which call, a load relies on.    *)
(***************************************************************************)
EXTENDS NetConfig, TLAPS

\* Callers who want to load after a ping open the package again.  A server that
\* another one sends us to does not send us further: it would be asked when the
\* call is repeated, and the Ethernet address of the first be kept.
ASSUME Settled ==
    /\ ~LoadAfterPing
    /\ {Zero, Broadcast, User} \cap Servers = {}
    /\ \A s \in Servers :
          /\ NextServer[s] \notin {Zero, Broadcast}
          /\ NextServer[s] \in Servers => NextServer[NextServer[s]] = NextServer[s]
    /\ \A u \in UserArgs :
          /\ u.server # Broadcast
          /\ u.server \in Servers => Named(u.server) = u.server

-----------------------------------------------------------------------------
(* The inductive invariant.  Where our address and the server's come from    *)
(* decides what the next call starts from, and what may still arrive in it.  *)

Names == Hosts \union {Zero, Broadcast}

\* Packets of earlier calls have other transaction numbers.
Transactions ==
    /\ xid \in Nat
    /\ \A m \in sent : m.xid \in 0 .. xid
    /\ pc = "bootp" => xid > 0 /\ bootp /\ ~UserKnowsAll
    /\ pc = "bootp" /\ dhcp => \A m \in sent : m.op = "BOOTREQUEST" => m.xid # xid

Control ==
    /\ pc = "bootp" => i < BootpRetries
    /\ pc \in {"rarp", "arp", "ping"} => i < ArpRetries
    /\ pc \in {"resolved", "ping", "echo"} => call = "ping"
    /\ pc = "loading" => call = "load" /\ ~Unknown(server_mac)
    /\ rarp => ~dhcp
    /\ rarp /\ call = "load" /\ Reading => ~UserKnowsAll

MacFollows == server_mac \in {Broadcast, server_ip}

Fresh == ip_addr = Zero /\ server_mac = Broadcast /\ (rarp => server_ip = Zero)

ByUser == /\ UserKnowsAll /\ ~bootp /\ ~rarp /\ MacFollows
          /\ ip_addr = user.ip /\ server_ip = user.server

\* A repeated call asks only the server that the one before it had found.
ByBootp == /\ ~UserKnowsAll /\ ~rarp /\ MacFollows /\ ip_addr # Zero
           /\ \E s \in Servers : ip_addr \in {s, user.ip} /\ server_ip = ServerFrom(s)
           /\ pc = "bootp" => \A m \in sent : m.xid = xid => m.to = server_ip

ByRarp == /\ ~UserKnowsAll /\ ~bootp /\ ~dhcp /\ MacFollows
          /\ ip_addr \in Servers /\ server_ip = ip_addr

Sources == call = "load" /\ pc # "closed" => Fresh \/ ByUser \/ ByBootp \/ ByRarp

Agreed == ip_addr \in DhcpServers =>
              \E m \in sent : m.op = "REQUEST" /\ m.xid = xid /\ m.id = ip_addr

Leases == dhcp /\ call = "load" /\ (pc \in {"arp", "loading"} \/ ~bootp) => Agreed

NetInv == /\ TypeOK /\ target \in Names
          /\ Transactions /\ Control /\ Sources /\ Leases

-----------------------------------------------------------------------------
(* What answers say. *)

LEMMA HostFacts ==
    /\ \A s \in Servers : /\ s \in Names /\ NextServer[s] \in Names /\ Relay[s] \in Names
                          /\ SourceOf(s) \in Names /\ Named(s) \in Names
    /\ \A u \in UserArgs : u.server \in Names /\ u.gateway \in Names
    /\ PingTargets \subseteq Names
BY DEF Names, Hosts, SourceOf, Named

LEMMA AnswerFacts ==
    ASSUME NEW m \in Answers
    PROVE  /\ m.from \in Servers
           /\ \E n \in sent :
                 /\ m.xid = n.xid /\ n.to \in {Broadcast, m.from}
                 /\ m.op \in {"REPLY", "OFFER", "ACK", "NAK"}
                 /\ m.op = "ACK" => n.op = "REQUEST" /\ n.id = m.from
                 /\ m.op = "REPLY" /\ m.from \in DhcpServers => n.op = "BOOTREQUEST"
<1>1. PICK s \in Servers, n \in sent :
          m \in [op : AnswersTo(s, n), xid : {n.xid}, from : {s}]
    BY DEF Answers
<1>2. m.op \in AnswersTo(s, n) /\ m.xid = n.xid /\ m.from = s
    BY <1>1
<1>3. Hears(s, n)
    BY <1>2 DEF AnswersTo
<1>4. CASE s \notin DhcpServers
    BY <1>2, <1>3, <1>4 DEF AnswersTo, Hears
<1>5. CASE s \in DhcpServers
  <2>1. AnswersTo(s, n) = CASE n.op = "DISCOVER" -> {"OFFER"}
                            [] n.op = "BOOTREQUEST" -> {"REPLY"}
                            [] n.op = "REQUEST" /\ n.id = s -> {"ACK", "NAK"}
                            [] OTHER -> {}
    BY <1>3, <1>5 DEF AnswersTo
  <2> QED
    BY <1>2, <1>3, <2>1 DEF Hears
<1> QED
    BY <1>4, <1>5

LEMMA Constants ==
    /\ BootpRetries \in Nat \ {0} /\ ArpRetries \in Nat \ {0}
    /\ Opens \in Nat /\ Calls \in Nat
    /\ \A u \in UserArgs : u.ip \in {Zero, User}
BY NetConfigAssumption

LEMMA Types ==
    ASSUME NetInv
    PROVE  /\ bootp \in BOOLEAN /\ rarp \in BOOLEAN /\ dhcp \in BOOLEAN
           /\ user \in UserArgs /\ i \in Nat /\ xid \in Nat
           /\ ip_addr \in Servers \union {Zero, User}
           /\ server_ip \in Names /\ server_mac \in Names /\ gateway_ip \in Names
           /\ dhcp_state \in {0, 1}
BY Constants DEF NetInv, TypeOK, Transactions, Names

\* What the next state must be for its types to be right, a fact for each variable.
LEMMA TypedNext ==
    ASSUME NetInv,
           pc' \in {"closed", "idle", "bootp", "rarp", "arp", "resolved", "ping",
                    "echo", "loading"},
           call' \in {"load", "ping"}, user' = user, dhcp' = dhcp,
           (bootp' = bootp \/ bootp' = FALSE), (rarp' = rarp \/ rarp' = FALSE),
           ip_addr' \in Servers \union {Zero, User},
           server_ip' \in Names, server_mac' \in Names, gateway_ip' \in Names,
           dhcp_state' \in {0, 1},
           i' \in Nat, i' <= BootpRetries \/ i' <= ArpRetries
    PROVE  TypeOK'
<1>1. bootp' \in BOOLEAN /\ rarp' \in BOOLEAN /\ dhcp' \in BOOLEAN
    BY Types, Zenon
<1>4. ~(bootp' /\ rarp')
  <2>1. ~(bootp /\ rarp)
    BY DEF NetInv, TypeOK
  <2> QED
    BY <2>1, Zenon
<1>2. i' \in 0 .. (IF BootpRetries > ArpRetries THEN BootpRetries ELSE ArpRetries)
    BY Constants
<1>3. user' \in UserArgs
    BY Types
<1> QED
    BY <1>1, <1>2, <1>3, <1>4 DEF TypeOK, Names

-----------------------------------------------------------------------------
(* Opening and closing. *)

LEMMA OpenInv ==
    ASSUME NetInv, NEW p \in Protocols, NEW u \in UserArgs, f_obptftp_open(p, u)
    PROVE  NetInv'
<1>1. TypeOK' /\ (target \in Names)'
    BY Types, HostFacts DEF f_obptftp_open, NetInv, TypeOK, Names, Hosts
<1>2. Transactions'
    BY DEF f_obptftp_open, NetInv, Transactions
<1>3. Control'
    BY DEF f_obptftp_open, Control, Reading
<1>4. Sources' /\ Leases'
    BY DEF f_obptftp_open, Sources, Fresh, Leases
<1> QED
    BY <1>1, <1>2, <1>3, <1>4 DEF NetInv

LEMMA CloseInv ==
    ASSUME NetInv, f_obptftp_close
    PROVE  NetInv'
<1>1. TypeOK' /\ (target \in Names)'
    BY DEF f_obptftp_close, NetInv, TypeOK, flags, addrs
<1>2. Transactions'
    BY DEF f_obptftp_close, NetInv, Transactions, flags
<1>3. Control'
    BY DEF f_obptftp_close, NetInv, Control, Reading, flags
<1>4. Sources' /\ Leases'
    BY DEF f_obptftp_close, NetInv, Sources, Leases, Agreed, flags, addrs
<1> QED
    BY <1>1, <1>2, <1>3, <1>4 DEF NetInv

-----------------------------------------------------------------------------
(* The beginning of a call. *)

LEMMA BeginTyped ==
    ASSUME NetInv, pc = "idle", NEW c \in {"load", "ping"}, call' = c,
           get_bootp_info(c)
    PROVE  TypeOK'
<1>1. user' = user /\ dhcp' = dhcp
    BY DEF get_bootp_info
<1>2. CASE UseArguments(c)
  <2>1. ip_addr' = user.ip /\ server_ip' = user.server /\ i' = 0
        /\ bootp' = FALSE /\ rarp' = FALSE
        /\ pc' \in {"arp", "loading", "resolved"}
    BY <1>2 DEF UseArguments, Configured
  <2>2. server_mac' = server_mac /\ gateway_ip' = gateway_ip /\ dhcp_state' = dhcp_state
    BY <1>2 DEF UseArguments
  <2>3. /\ ip_addr' \in Servers \union {Zero, User}
        /\ server_ip' \in Names /\ server_mac' \in Names /\ gateway_ip' \in Names
        /\ dhcp_state' \in {0, 1}
        /\ i' \in Nat /\ i' <= BootpRetries
    BY <2>1, <2>2, Types, HostFacts, Constants
  <2> QED
    BY <1>1, <2>1, <2>3, TypedNext, Zenon
<1>3. CASE StartBootp
    BY <1>1, <1>3, Types, HostFacts, Constants
    DEF StartBootp, NetInv, TypeOK, Names
<1>4. CASE StartRarp
    BY <1>1, <1>4, Types, Constants, TypedNext DEF StartRarp, addrs
<1>5. CASE StayConfigured(c)
  <2>1. i' = 0 /\ (bootp' = bootp \/ bootp' = FALSE) /\ (rarp' = rarp \/ rarp' = FALSE)
        /\ pc' \in {"arp", "loading", "resolved"}
    BY <1>5, Types DEF StayConfigured, ArpIfNeeded, Configured
  <2>2. UNCHANGED <<addrs, dhcp_state>>
    BY <1>5 DEF StayConfigured
  <2>3. /\ ip_addr' \in Servers \union {Zero, User}
        /\ server_ip' \in Names /\ server_mac' \in Names /\ gateway_ip' \in Names
        /\ dhcp_state' \in {0, 1}
        /\ i' \in Nat /\ i' <= BootpRetries
    BY <2>1, <2>2, Types, Constants DEF addrs
  <2> QED
    BY <1>1, <2>1, <2>3, TypedNext, Zenon
<1> QED
    BY <1>2, <1>3, <1>4, <1>5 DEF get_bootp_info

\* Only the BOOTP loop uses transaction numbers; a request of ours has this one.
LEMMA BeginTransactions ==
    ASSUME NetInv, pc = "idle", NEW c \in {"load", "ping"}, get_bootp_info(c)
    PROVE  Transactions'
<1>1. user' = user /\ dhcp' = dhcp
    BY DEF get_bootp_info
<1>2. CASE UseArguments(c)
    BY <1>1, <1>2 DEF UseArguments, Configured, ArpRequest, Packet, NetInv, Transactions
<1>3. CASE StartBootp
  <2>1. xid' = xid + 1 /\ pc' = "bootp" /\ bootp' = bootp /\ bootp /\ ~UserKnowsAll
    BY <1>3 DEF StartBootp
  <2> DEFINE d == Discover(xid', server_ip')
  <2>2. d.xid = xid' /\ (dhcp => d.op = "DISCOVER")
    BY DEF Discover, Packet
  <2>3. sent' = sent \union {d}
    BY <1>3 DEF StartBootp
  <2> HIDE DEF d
  <2>4. xid \in Nat /\ \A m \in sent : m.xid \in 0 .. xid
    BY DEF NetInv, Transactions
  <2>5. ~UserKnowsAll'
    BY <1>1, <2>1 DEF UserKnowsAll
  <2> QED
    BY <1>1, <2>1, <2>2, <2>3, <2>4, <2>5 DEF Transactions
<1>4. CASE StartRarp
    BY <1>1, <1>4 DEF StartRarp, RarpRequest, Packet, NetInv, Transactions
<1>5. CASE StayConfigured(c)
    BY <1>1, <1>5
    DEF StayConfigured, ArpIfNeeded, Configured, ArpRequest, Packet, NetInv, Transactions
<1> QED
    BY <1>2, <1>3, <1>4, <1>5 DEF get_bootp_info

LEMMA BeginControl ==
    ASSUME NetInv, pc = "idle", NEW c \in {"load", "ping"}, call' = c,
           get_bootp_info(c)
    PROVE  Control'
<1>1. user' = user /\ dhcp' = dhcp
    BY DEF get_bootp_info
<1>2. CASE UseArguments(c)
    BY <1>1, <1>2, Constants
    DEF UseArguments, Configured, Unknown, Reading, Control
<1>3. CASE StartBootp
    BY <1>1, <1>3, Constants DEF StartBootp, NetInv, TypeOK, Control
<1>4. CASE StartRarp
    BY <1>1, <1>4, Constants DEF StartRarp, NetInv, Control, UserKnowsAll
<1>5. CASE StayConfigured(c)
    BY <1>1, <1>5, Constants
    DEF StayConfigured, ArpIfNeeded, Configured, Unknown, Reading, Control
<1> QED
    BY <1>2, <1>3, <1>4, <1>5 DEF get_bootp_info

\* A later call starts from what the one before it has left.
LEMMA BeginSources ==
    ASSUME NetInv, pc = "idle", call = "load", call' = "load", get_bootp_info("load")
    PROVE  Sources'
<1>1. user' = user /\ dhcp' = dhcp
    BY DEF get_bootp_info
<1>2. Fresh \/ ByUser \/ ByBootp \/ ByRarp
    BY DEF NetInv, Sources
<1>3. CASE UseArguments("load")
  <2>1. MacFollows' /\ bootp' = FALSE /\ rarp' = FALSE
    BY <1>2, <1>3
    DEF UseArguments, Configured, Fresh, ByUser, ByBootp, ByRarp, MacFollows
  <2>2. ByUser'
    BY <1>1, <1>3, <2>1 DEF UseArguments, ByUser, UserKnowsAll
  <2> QED
    BY <2>2 DEF Sources
<1>4. CASE StartBootp
  <2>1. ~rarp' /\ pc' = "bootp" /\ ip_addr' = ip_addr /\ ~UserKnowsAll'
    BY <1>1, <1>4 DEF StartBootp, NetInv, TypeOK, UserKnowsAll
  <2>2. CASE Fresh
    BY <1>4, <2>1, <2>2 DEF StartBootp, Fresh, Sources
  <2>3. CASE ByBootp
    <3>1. PICK s \in Servers : ip_addr \in {s, user.ip} /\ server_ip = ServerFrom(s)
        BY <2>3 DEF ByBootp
    <3>2. server_ip # Zero
        BY <3>1, Settled DEF ServerFrom
    <3>3. server_ip' = server_ip /\ server_mac' = server_mac
        BY <1>4, <3>2 DEF StartBootp
    <3>4. \A m \in sent' : m.xid = xid' => m.to = server_ip'
        BY <1>4 DEF StartBootp, Discover, Packet, NetInv, Transactions
    <3>5. ByBootp'
        BY <1>1, <2>1, <2>3, <3>1, <3>3, <3>4 DEF ByBootp, MacFollows, ServerFrom
    <3> QED
        BY <3>5 DEF Sources
  <2> QED
    BY <1>2, <1>4, <2>2, <2>3 DEF StartBootp, ByUser, ByRarp
<1>5. CASE StartRarp \/ StayConfigured("load")
  <2>1. UNCHANGED addrs /\ ~UserKnowsAll /\ ~bootp /\ pc' # "bootp"
    BY <1>5 DEF StartRarp, StayConfigured, ArpIfNeeded, Configured
  <2>2. bootp' = FALSE /\ (rarp' = rarp \/ rarp' = FALSE)
    BY <1>5, <2>1, Types DEF StartRarp, StayConfigured, ArpIfNeeded, Configured
  <2>3. CASE Fresh
    BY <2>1, <2>2, <2>3, Types DEF Fresh, Sources, addrs
  <2>4. CASE ByBootp
    BY <1>1, <2>1, <2>2, <2>4 DEF ByBootp, MacFollows, ServerFrom, UserKnowsAll,
                                  Sources, addrs
  <2>5. CASE ByRarp
    BY <1>1, <2>1, <2>2, <2>5 DEF ByRarp, MacFollows, UserKnowsAll, Sources, addrs
  <2> QED
    BY <1>2, <2>1, <2>3, <2>4, <2>5 DEF ByUser
<1> QED
    BY <1>3, <1>4, <1>5 DEF get_bootp_info

LEMMA BeginLeases ==
    ASSUME NetInv, pc = "idle", call = "load", call' = "load", get_bootp_info("load")
    PROVE  Leases'
<1>1. dhcp' = dhcp
    BY DEF get_bootp_info
<1>2. CASE UseArguments("load")
  <2>1. ip_addr' = User
    BY <1>2, Types, Constants DEF UseArguments, UserKnowsAll
  <2> QED
    BY <2>1, Settled, NetConfigAssumption DEF Leases, Agreed
<1>3. CASE StartBootp
    BY <1>3 DEF StartBootp, Leases
<1>4. CASE StartRarp
    BY <1>1, <1>4 DEF StartRarp, NetInv, Control, Leases
<1>5. CASE StayConfigured("load")
  <2>1. ~bootp /\ UNCHANGED <<ip_addr, xid>> /\ sent \subseteq sent'
    BY <1>5 DEF StayConfigured, ArpIfNeeded, addrs
  <2>2. dhcp => Agreed
    BY <2>1 DEF NetInv, Leases
  <2> QED
    BY <1>1, <2>1, <2>2 DEF Leases, Agreed
<1> QED
    BY <1>2, <1>3, <1>4, <1>5 DEF get_bootp_info

LEMMA LoadInv ==
    ASSUME NetInv, f_obptftp_load
    PROVE  NetInv'
<1>1. pc = "idle" /\ call = "load" /\ call' = "load" /\ get_bootp_info("load")
    BY Settled DEF f_obptftp_load, NetInv, TypeOK
<1>2. target' = target
    BY DEF f_obptftp_load
<1>3. TypeOK' /\ Transactions' /\ Control'
    BY <1>1, BeginTyped, BeginTransactions, BeginControl
<1>4. Sources' /\ Leases'
    BY <1>1, BeginSources, BeginLeases
<1> QED
    BY <1>2, <1>3, <1>4 DEF NetInv, Names

LEMMA PingInv ==
    ASSUME NetInv, NEW h \in PingTargets \union {Zero}, do_ping(h)
    PROVE  NetInv'
<1>1. pc = "idle" /\ call' = "ping"
    BY DEF do_ping
<1>2. target' \in Names
    BY HostFacts, Types DEF do_ping, Names
<1>3. Sources' /\ Leases'
    BY <1>1 DEF Sources, Leases
<1>4. CASE /\ pc' = "resolved"
           /\ UNCHANGED <<flags, addrs, dhcp_state, xid, i, sent>>
  <2>1. TypeOK'
    BY <1>1, <1>4 DEF NetInv, TypeOK, flags, addrs
  <2>2. Transactions' /\ Control'
    BY <1>1, <1>4 DEF NetInv, Transactions, Control, Reading, flags
  <2> QED
    BY <1>2, <1>3, <2>1, <2>2 DEF NetInv, Names
<1>5. CASE /\ sent' = sent \union {RarpRequest} /\ pc' = "rarp" /\ i' = 0
           /\ UNCHANGED <<flags, addrs, dhcp_state, xid>>
  <2>1. TypeOK'
    BY <1>1, <1>5, Constants DEF NetInv, TypeOK, flags, addrs
  <2>2. Transactions' /\ Control'
    BY <1>1, <1>5, Constants
    DEF NetInv, Transactions, Control, Reading, flags, RarpRequest, Packet
  <2> QED
    BY <1>2, <1>3, <2>1, <2>2 DEF NetInv, Names
<1>6. CASE get_bootp_info("ping")
    BY <1>1, <1>2, <1>3, <1>6, BeginTyped, BeginTransactions, BeginControl
    DEF NetInv, Names
<1>7. CASE Fail /\ UNCHANGED <<user, dhcp, addrs, dhcp_state, xid>>
  <2>1. TypeOK'
    BY <1>1, <1>7 DEF Fail, NetInv, TypeOK, addrs
  <2>2. Transactions' /\ Control'
    BY <1>1, <1>7 DEF Fail, NetInv, Transactions, Control, Reading
  <2> QED
    BY <1>2, <1>3, <2>1, <2>2 DEF NetInv, Names
<1> QED
    BY <1>4, <1>5, <1>6, <1>7 DEF do_ping

-----------------------------------------------------------------------------
(* ARP and RARP replies. *)

LEMMA ArpInv ==
    ASSUME NetInv, NEW h \in ArpAnswers, ArpReply(h)
    PROVE  NetInv'
<1>1. h = server_ip /\ h # Broadcast /\ ip_addr # Zero /\ server_mac' = h
    BY DEF ArpReply, ArpAnswers
<1>2. UNCHANGED <<call, target, user, dhcp, ip_addr, server_ip, gateway_ip,
                  dhcp_state, xid, i, sent, counts>>
    BY DEF ArpReply
<1>3. \/ /\ pc = "arp" /\ bootp' = FALSE /\ rarp' = FALSE
         /\ pc' = IF call = "load" THEN "loading" ELSE "resolved"
      \/ pc = "ping" /\ pc' = "echo" /\ bootp' = bootp /\ rarp' = rarp
      \/ pc' = pc /\ bootp' = bootp /\ rarp' = rarp
    BY DEF ArpReply, Configured
<1>4. Reading
    BY DEF ArpReply
<1>5. TypeOK'
  <2>1. (bootp' = bootp \/ bootp' = FALSE) /\ (rarp' = rarp \/ rarp' = FALSE)
    BY <1>3
  <2>2. pc' \in {"closed", "idle", "bootp", "rarp", "arp", "resolved", "ping",
                 "echo", "loading"}
    BY <1>3 DEF NetInv, TypeOK
  <2>3. call' \in {"load", "ping"} /\ i' \in Nat /\ (i' <= BootpRetries \/ i' <= ArpRetries)
    BY <1>2, Constants DEF NetInv, TypeOK
  <2>4. /\ ip_addr' \in Servers \union {Zero, User}
        /\ server_ip' \in Names /\ server_mac' \in Names /\ gateway_ip' \in Names
        /\ dhcp_state' \in {0, 1}
    BY <1>1, <1>2, Types
  <2> QED
    BY <1>2, <2>1, <2>2, <2>3, <2>4, TypedNext, Zenon
<1>6. Transactions'
    BY <1>2, <1>3 DEF NetInv, Transactions, UserKnowsAll
<1>7. Control'
    BY <1>1, <1>2, <1>3, <1>4 DEF NetInv, TypeOK, Control, Unknown, Reading, UserKnowsAll
<1>8. Sources'
  <2> SUFFICES ASSUME call = "load"
               PROVE  ByUser' \/ ByBootp' \/ ByRarp'
    BY <1>2 DEF Sources
  <2>1. ByUser \/ ByBootp \/ ByRarp
    BY <1>1, <1>4 DEF NetInv, Sources, Reading, Fresh
  <2>2. MacFollows' /\ (~bootp => ~bootp') /\ (~rarp => ~rarp')
        /\ (pc' = "bootp" => pc = "bootp")
    BY <1>1, <1>2, <1>3 DEF MacFollows
  <2>3. CASE ByUser
    BY <1>2, <2>2, <2>3 DEF ByUser, UserKnowsAll
  <2>4. CASE ByBootp
    BY <1>2, <2>2, <2>4 DEF ByBootp, UserKnowsAll, ServerFrom
  <2>5. CASE ByRarp
    BY <1>2, <2>2, <2>5 DEF ByRarp, UserKnowsAll
  <2> QED
    BY <2>1, <2>3, <2>4, <2>5
<1>9. Leases'
    BY <1>2, <1>3 DEF NetInv, Leases, Agreed, Control
<1> QED
    BY <1>2, <1>5, <1>6, <1>7, <1>8, <1>9 DEF NetInv, Names

LEMMA RarpInv ==
    ASSUME NetInv, NEW s \in RarpAnswers, RarpReply(s)
    PROVE  NetInv'
<1>1. s \in Servers /\ s # Broadcast /\ s # Zero /\ rarp /\ ~bootp /\ ~dhcp /\ Reading
    BY Settled, Types DEF RarpAnswers, RarpReply, NetInv, TypeOK, Control
<1>2. UNCHANGED <<call, target, user, dhcp, gateway_ip, dhcp_state, xid, counts>>
    BY DEF RarpReply
<1>3. ip_addr' = IF ip_addr = Zero THEN s ELSE ip_addr
    BY DEF RarpReply
<1>4. IF server_ip \in {Zero, Broadcast, s}
      THEN server_ip' = s /\ server_mac' = s
      ELSE server_ip' = server_ip /\ server_mac' = server_mac
    BY DEF RarpReply
<1>5. \/ /\ pc = "rarp" /\ call = "load" /\ pc' = "loading" /\ ~Unknown(server_mac')
         /\ bootp' = FALSE /\ rarp' = FALSE /\ sent' = sent /\ i' = 0
      \/ /\ pc = "rarp" /\ call = "load" /\ pc' = "arp"
         /\ bootp' = bootp /\ rarp' = rarp /\ i' = 0
         /\ sent' = sent \union {ArpRequest(ArpTarget, ip_addr')}
      \/ /\ pc = "rarp" /\ call = "ping" /\ pc' = "resolved"
         /\ bootp' = bootp /\ rarp' = rarp /\ sent' = sent /\ i' = i
      \/ /\ pc # "rarp" /\ pc' = pc
         /\ bootp' = bootp /\ rarp' = rarp /\ sent' = sent /\ i' = i
    BY DEF RarpReply, ArpIfNeeded, Configured
<1>6. TypeOK'
  <2>1. (bootp' = bootp \/ bootp' = FALSE) /\ (rarp' = rarp \/ rarp' = FALSE)
    BY <1>5
  <2>2. pc' \in {"closed", "idle", "bootp", "rarp", "arp", "resolved", "ping",
                 "echo", "loading"}
    BY <1>5 DEF NetInv, TypeOK
  <2>3. call' \in {"load", "ping"} /\ i' \in Nat /\ (i' <= BootpRetries \/ i' <= ArpRetries)
    BY <1>2, <1>5, Constants DEF NetInv, TypeOK
  <2>4. /\ ip_addr' \in Servers \union {Zero, User}
        /\ server_ip' \in Names /\ server_mac' \in Names /\ gateway_ip' \in Names
        /\ dhcp_state' \in {0, 1}
    BY <1>1, <1>2, <1>3, <1>4, Types, HostFacts
  <2> QED
    BY <1>2, <2>1, <2>2, <2>3, <2>4, TypedNext, Zenon
<1>7. Transactions'
  <2>1. \A m \in sent' : m \in sent \/ m.xid = 0
    BY <1>5 DEF ArpRequest, Packet
  <2>2. pc' = "bootp" => pc = "bootp" /\ sent' = sent /\ bootp' = bootp
    BY <1>5
  <2> QED
    BY <1>2, <2>1, <2>2 DEF NetInv, Transactions, UserKnowsAll
<1>8. Control'
  <2>1. pc' = "bootp" => i' < BootpRetries
    BY <1>5 DEF NetInv, Control
  <2>2. pc' \in {"rarp", "arp", "ping"} => i' < ArpRetries
    BY <1>5, Constants DEF NetInv, Control
  <2>3. pc' \in {"resolved", "ping", "echo"} => call' = "ping"
    BY <1>2, <1>5 DEF NetInv, Control
  <2>4. pc' = "loading" => call' = "load" /\ ~Unknown(server_mac')
    BY <1>1, <1>2, <1>4, <1>5 DEF NetInv, Control, Unknown
  <2>5. rarp' => ~dhcp'
    BY <1>1, <1>2
  <2>6. call' = "load" => ~UserKnowsAll'
    BY <1>1, <1>2 DEF NetInv, Control, UserKnowsAll
  <2> QED
    BY <2>1, <2>2, <2>3, <2>4, <2>5, <2>6 DEF Control, Unknown
<1>9. Sources'
  <2> SUFFICES ASSUME call = "load"
               PROVE  ByRarp'
    BY <1>2 DEF Sources
  <2>1. Fresh \/ ByRarp
    BY <1>1 DEF NetInv, Sources, Reading, ByUser, ByBootp
  <2>2. ip_addr' \in Servers /\ server_ip' = ip_addr' /\ MacFollows'
    BY <1>1, <1>3, <1>4, <2>1, Settled DEF Fresh, ByRarp, MacFollows
  <2>3. ~UserKnowsAll' /\ ~dhcp'
    BY <1>1, <1>2 DEF NetInv, Control, UserKnowsAll
  <2>4. ~bootp'
    BY <1>1, <1>5
  <2> QED
    BY <2>2, <2>3, <2>4 DEF ByRarp
<1>10. Leases'
    BY <1>1, <1>2 DEF Leases
<1> QED
    BY <1>2, <1>6, <1>7, <1>8, <1>9, <1>10 DEF NetInv, Names

-----------------------------------------------------------------------------
(* BOOTP and DHCP replies. *)

\* A call that repeats an earlier one hears only the server that one had found,
\* which names itself.
LEMMA OnlyThatServer ==
    ASSUME NetInv, pc = "bootp", ByBootp, NEW m \in Answers, m.xid = xid
    PROVE  m.from = server_ip /\ Named(m.from) = m.from /\ ServerFrom(m.from) = m.from
<1>1. m.from \in Servers
    BY AnswerFacts
<1>2. PICK n \in sent : m.xid = n.xid /\ n.to \in {Broadcast, m.from}
    BY AnswerFacts
<1>3. n.to = server_ip
    BY <1>2 DEF ByBootp
<1>4. PICK s \in Servers : server_ip = ServerFrom(s)
    BY DEF ByBootp
<1>5. user \in UserArgs
    BY Types
<1>6. server_ip # Broadcast
    BY <1>4, <1>5, Settled DEF ServerFrom
<1>7. m.from = server_ip
    BY <1>2, <1>3, <1>6
<1>8. CASE user.server # Zero
  <2>1. m.from = user.server
    BY <1>4, <1>7, <1>8 DEF ServerFrom
  <2> QED
    BY <1>1, <1>5, <1>7, <1>8, <2>1, Settled DEF ServerFrom
<1>9. CASE user.server = Zero
  <2>1. m.from = NextServer[s]
    BY <1>4, <1>7, <1>9 DEF ServerFrom
  <2>2. NextServer[m.from] = m.from /\ m.from # Zero
    BY <1>1, <2>1, Settled
  <2> QED
    BY <1>7, <1>9, <2>2 DEF ServerFrom, Named
<1> QED
    BY <1>8, <1>9

\* Another request in the same transaction.
LEMMA AskedAgain ==
    ASSUME NetInv, pc = "bootp", pc' \in {"bootp", "idle"},
           UNCHANGED <<call, target, flags, ip_addr, server_mac, gateway_ip, xid>>,
           i' \in Nat, i' <= BootpRetries, pc' = "bootp" => i' < BootpRetries,
           server_ip' \in Names, dhcp_state' \in {0, 1},
           ByBootp => server_ip' = server_ip,
           NEW again, sent' = sent \union {again}, again.xid = xid, again.to = server_ip',
           dhcp => again.op # "BOOTREQUEST"
    PROVE  NetInv'
<1>1. bootp /\ ~rarp /\ ~UserKnowsAll /\ xid > 0
    BY DEF NetInv, TypeOK, Transactions
<1>2. UNCHANGED <<user, bootp, rarp, dhcp>>
    BY DEF flags
<1>3. TypeOK'
  <2>1. (bootp' = bootp \/ bootp' = FALSE) /\ (rarp' = rarp \/ rarp' = FALSE)
    BY <1>2
  <2>2. call' \in {"load", "ping"} /\ ip_addr' \in Servers \union {Zero, User}
        /\ server_mac' \in Names /\ gateway_ip' \in Names
        /\ pc' \in {"closed", "idle", "bootp", "rarp", "arp", "resolved", "ping",
                    "echo", "loading"}
    BY Types DEF NetInv, TypeOK
  <2> QED
    BY <1>2, <2>1, <2>2, TypedNext, Zenon
<1>4. Transactions'
    BY <1>1, <1>2 DEF NetInv, Transactions, UserKnowsAll
<1>5. Control'
    BY <1>1, <1>2 DEF NetInv, Control
<1>6. Sources'
  <2>1. CASE Fresh
    BY <1>1, <1>2, <2>1 DEF Sources, Fresh
  <2>2. CASE ByBootp
    BY <1>1, <1>2, <2>2 DEF Sources, ByBootp, MacFollows, UserKnowsAll, ServerFrom
  <2> QED
    BY <1>1, <2>1, <2>2 DEF NetInv, Sources, ByUser, ByRarp
<1>7. Leases'
    BY <1>1, <1>2 DEF Leases
<1> QED
    BY <1>3, <1>4, <1>5, <1>6, <1>7 DEF NetInv, Names

\* An answer is accepted.
LEMMA AcceptInv ==
    ASSUME NetInv, pc = "bootp", NEW m \in Answers, m.xid = xid,
           m.op \in {"ACK", "REPLY"}, Accept(m.from), dhcp_state' \in {0, 1},
           UNCHANGED <<call, target, user, dhcp, xid, counts>>
    PROVE  NetInv'
<1>1. bootp /\ ~rarp /\ ~UserKnowsAll /\ xid > 0 /\ bootp \in BOOLEAN /\ rarp \in BOOLEAN
    BY DEF NetInv, TypeOK, Transactions
<1>2. m.from \in Servers
    BY AnswerFacts
<1>3. /\ ip_addr' = IF user.ip # Zero THEN user.ip ELSE m.from
      /\ server_ip' = ServerFrom(m.from)
      /\ gateway_ip' = IF user.gateway # Zero THEN user.gateway ELSE Relay[m.from]
      /\ server_mac' = MacFrom(m.from)
    BY DEF Accept
<1>4. \/ /\ pc' = (IF call = "load" THEN "loading" ELSE "resolved") /\ ~Unknown(server_mac')
         /\ bootp' = FALSE /\ rarp' = FALSE /\ sent' = sent /\ i' = 0
      \/ /\ pc' = "arp" /\ bootp' = bootp /\ rarp' = rarp /\ i' = 0
         /\ sent' = sent \union {ArpRequest(ArpTarget, ip_addr')}
      \/ /\ pc' = "idle" /\ bootp' = bootp /\ rarp' = rarp /\ sent' = sent /\ i' = i
    BY DEF Accept, ArpIfNeeded, Configured, Fail
<1>5. TypeOK'
  <2>1. (bootp' = bootp \/ bootp' = FALSE) /\ (rarp' = rarp \/ rarp' = FALSE)
    BY <1>4
  <2>2. pc' \in {"closed", "idle", "bootp", "rarp", "arp", "resolved", "ping",
                 "echo", "loading"}
    BY <1>4
  <2>3. call' \in {"load", "ping"} /\ i' \in Nat /\ (i' <= BootpRetries \/ i' <= ArpRetries)
    BY <1>4, Constants DEF NetInv, TypeOK
  <2>4. /\ ip_addr' \in Servers \union {Zero, User}
        /\ server_ip' \in Names /\ server_mac' \in Names /\ gateway_ip' \in Names
    BY <1>2, <1>3, Types, Constants, HostFacts DEF ServerFrom, MacFrom
  <2> QED
    BY <2>1, <2>2, <2>3, <2>4, TypedNext, Zenon
<1>6. Transactions'
  <2>1. \A p \in sent' : p \in sent \/ p.xid = 0
    BY <1>4 DEF ArpRequest, Packet
  <2>2. pc' # "bootp"
    BY <1>4
  <2> QED
    BY <2>1, <2>2 DEF NetInv, Transactions
<1>7. Control'
  <2>1. rarp = FALSE
    BY <1>1
  <2>2. ~rarp'
    BY <1>4, <2>1, Zenon
  <2>3. call \in {"load", "ping"} /\ call' = call
    BY DEF NetInv, TypeOK
  <2> QED
    BY <1>4, <2>2, <2>3, Constants DEF Control, Unknown
<1>8. Sources'
  <2> SUFFICES ASSUME call = "load"
               PROVE  ByBootp'
    BY DEF Sources
  <2>1. Fresh \/ ByBootp
    BY <1>1 DEF NetInv, Sources, ByUser, ByRarp
  <2>2. MacFollows'
    <3>1. CASE Fresh
        BY <1>3, <3>1 DEF Fresh, MacFollows, MacFrom, Unknown
    <3>2. CASE ByBootp
        <4>1. ServerFrom(m.from) = server_ip
            BY <3>2, OnlyThatServer
        <4> QED
            BY <1>3, <3>2, <4>1 DEF ByBootp, MacFollows, MacFrom
    <3> QED
        BY <2>1, <3>1, <3>2
  <2>3. ~UserKnowsAll' /\ pc' # "bootp"
    BY <1>1, <1>4 DEF UserKnowsAll
  <2>6. rarp = FALSE
    BY <1>1
  <2>7. ~rarp'
    BY <1>4, <2>6, Zenon
  <2>4. ip_addr' # Zero /\ (ip_addr' = m.from \/ ip_addr' = user.ip) /\ user' = user
    BY <1>2, <1>3, Settled
  <2>5. server_ip' = ServerFrom(m.from)'
    BY <1>3 DEF ServerFrom
  <2> QED
    BY <1>2, <2>2, <2>3, <2>4, <2>5, <2>7 DEF ByBootp
<1>9. Leases'
  <2> SUFFICES ASSUME dhcp, ip_addr' \in DhcpServers
               PROVE  \E p \in sent : p.op = "REQUEST" /\ p.xid = xid /\ p.id = ip_addr'
    BY <1>4 DEF Leases, Agreed
  <2>1. ip_addr' = m.from
    BY <1>3, Types, Constants, Settled, NetConfigAssumption
  <2>2. PICK p \in sent : /\ m.xid = p.xid
                          /\ m.op = "ACK" => p.op = "REQUEST" /\ p.id = m.from
                          /\ m.op = "REPLY" /\ m.from \in DhcpServers => p.op = "BOOTREQUEST"
    BY AnswerFacts
  <2>3. p.op # "BOOTREQUEST"
    BY <2>2 DEF NetInv, Transactions
  <2> QED
    BY <2>1, <2>2, <2>3
<1> QED
    BY <1>5, <1>6, <1>7, <1>8, <1>9 DEF NetInv, Names

LEMMA BootpReplyInv ==
    ASSUME NetInv, NEW m \in Answers, get_bootp_reply(m)
    PROVE  NetInv'
<1>1. pc = "bootp" /\ m.xid = xid /\ m.from \in Servers
      /\ UNCHANGED <<call, target, user, dhcp, xid, counts>>
    BY AnswerFacts DEF get_bootp_reply
<1>2. i \in Nat /\ i <= BootpRetries /\ i < BootpRetries
    BY <1>1, Types, Constants DEF NetInv, Control
<1>3. CASE /\ m.op = "OFFER" /\ dhcp_state = 0
           /\ send_dhcp_request(m.from)
           /\ UNCHANGED <<pc, bootp, rarp, ip_addr, server_mac, gateway_ip, i>>
  <2> DEFINE again == Request(xid, Named(m.from))
  <2>1. sent' = sent \union {again} /\ server_ip' = Named(m.from) /\ dhcp_state' = 1
    BY <1>3 DEF send_dhcp_request
  <2>2. again.xid = xid /\ again.to = Named(m.from) /\ again.op = "REQUEST"
    BY DEF Request, Packet
  <2>3. ByBootp => server_ip' = server_ip
    BY <1>1, <2>1, OnlyThatServer
  <2>4. UNCHANGED flags /\ pc' = pc /\ i' = i
    BY <1>1, <1>3 DEF flags
  <2>5. server_ip' \in Names
    BY <1>1, <2>1, HostFacts
  <2> HIDE DEF again
  <2> QED
    BY <1>1, <1>2, <1>3, <2>1, <2>2, <2>3, <2>4, <2>5, AskedAgain
<1>4. CASE /\ m.op = "NAK" /\ dhcp_state = 1
           /\ send_bootp_request
           /\ UNCHANGED <<pc, bootp, rarp, addrs, i>>
  <2> DEFINE again == Discover(xid, server_ip)
  <2>1. sent' = sent \union {again} /\ dhcp_state' = 0
    BY <1>4 DEF send_bootp_request
  <2>2. again.xid = xid /\ again.to = server_ip /\ (dhcp => again.op # "BOOTREQUEST")
    BY DEF Discover, Packet
  <2>3. UNCHANGED <<flags, ip_addr, server_ip, server_mac, gateway_ip>> /\ pc' = pc /\ i' = i
    BY <1>1, <1>4 DEF flags, addrs
  <2>4. server_ip' \in Names
    BY <2>3, Types
  <2> HIDE DEF again
  <2> QED
    BY <1>1, <1>2, <2>1, <2>2, <2>3, <2>4, AskedAgain
<1>5. CASE Agrees(m) /\ dhcp_state = 1 /\ dhcp_state' = 0 /\ Accept(m.from)
    BY <1>1, <1>5, AcceptInv DEF Agrees
<1>6. CASE m.op = "REPLY" /\ Accept(m.from) /\ UNCHANGED dhcp_state
    BY <1>1, <1>6, Types, AcceptInv
<1> QED
    BY <1>3, <1>4, <1>5, <1>6 DEF get_bootp_reply

-----------------------------------------------------------------------------
(* Time-outs and the rest. *)

LEMMA TimeoutInv ==
    ASSUME NetInv, Timeout
    PROVE  NetInv'
<1>1. UNCHANGED <<call, target, flags, addrs, xid>>
    BY DEF Timeout
<1>2. CASE BootpTimeout
  <2> DEFINE again == Discover(xid, server_ip)
  <2>1. sent' = sent \union {again} /\ dhcp_state' = 0 /\ pc = "bootp" /\ i' = i + 1
        /\ pc' = IF i' < BootpRetries THEN pc ELSE "idle"
    BY <1>2 DEF BootpTimeout, send_bootp_request
  <2>2. again.xid = xid /\ again.to = server_ip /\ (dhcp => again.op # "BOOTREQUEST")
    BY DEF Discover, Packet
  <2>3. UNCHANGED <<flags, ip_addr, server_ip, server_mac, gateway_ip>>
    BY <1>1 DEF addrs
  <2>4. i' \in Nat /\ i' <= BootpRetries
    BY <2>1, Types, Constants DEF NetInv, Control
  <2>5. server_ip' \in Names
    BY <2>3, Types
  <2> HIDE DEF again
  <2> QED
    BY <1>1, <2>1, <2>2, <2>3, <2>4, <2>5, AskedAgain
<1>3. CASE ArpTimeout
  <2>1. pc \in {"rarp", "arp", "ping"} /\ i' = i + 1 /\ UNCHANGED <<sent, dhcp_state>>
        /\ pc' = IF i' < ArpRetries THEN pc ELSE "idle"
    BY <1>3 DEF ArpTimeout
  <2>2. UNCHANGED <<user, bootp, rarp, dhcp, ip_addr, server_ip, server_mac, gateway_ip>>
    BY <1>1 DEF flags, addrs
  <2>3. TypeOK'
    BY <1>1, <2>1, <2>2, Types, Constants DEF NetInv, TypeOK, Control
  <2>4. Transactions' /\ Control'
    BY <1>1, <2>1, <2>2 DEF NetInv, Transactions, Control, Reading, UserKnowsAll
  <2>5. Sources'
    BY <1>1, <2>1, <2>2 DEF NetInv, Sources, Fresh, ByUser, ByBootp, ByRarp, MacFollows,
                            UserKnowsAll, ServerFrom
  <2>6. Leases'
    BY <1>1, <2>1, <2>2 DEF NetInv, Leases, Agreed
  <2> QED
    BY <1>1, <2>3, <2>4, <2>5, <2>6 DEF NetInv, Names
<1> QED
    BY <1>2, <1>3 DEF Timeout

LEMMA BrokenInv ==
    ASSUME NetInv, Broken
    PROVE  NetInv'
<1>1. Reading /\ pc' = "idle"
      /\ UNCHANGED <<call, target, user, bootp, rarp, dhcp, ip_addr, server_ip, server_mac,
                     gateway_ip, dhcp_state, xid, sent, i>>
    BY DEF Broken, Fail, addrs
<1>2. TypeOK'
    BY <1>1 DEF NetInv, TypeOK
<1>3. Transactions' /\ Control'
    BY <1>1 DEF NetInv, Transactions, Control, Reading
<1>4. Sources'
    BY <1>1 DEF NetInv, Sources, Fresh, ByUser, ByBootp, ByRarp, MacFollows,
                UserKnowsAll, ServerFrom, Reading
<1>5. Leases'
    BY <1>1 DEF NetInv, Leases, Agreed
<1> QED
    BY <1>1, <1>2, <1>3, <1>4, <1>5 DEF NetInv, Names

LEMMA PingHostInv ==
    ASSUME NetInv, PingHost
    PROVE  NetInv'
<1>1. /\ pc = "resolved" /\ pc' = "ping" /\ i' = 0 /\ server_ip' = target
      /\ UNCHANGED <<call, target, user, bootp, rarp, dhcp, ip_addr, server_mac,
                     gateway_ip, dhcp_state, xid>>
      /\ sent' = sent \union {ArpRequest(ArpTarget, ip_addr)}
    BY DEF PingHost, flags
<1>2. call = "ping"
    BY <1>1 DEF NetInv, Control
<1>3. TypeOK'
    BY <1>1, Constants DEF NetInv, TypeOK, Names
<1>4. Transactions'
    BY <1>1 DEF NetInv, Transactions, ArpRequest, Packet
<1>5. Control'
    BY <1>1, <1>2, Constants DEF NetInv, Control
<1>6. Sources' /\ Leases'
    BY <1>1, <1>2 DEF Sources, Leases
<1> QED
    BY <1>1, <1>3, <1>4, <1>5, <1>6 DEF NetInv, Names

LEMMA FinishInv ==
    ASSUME NetInv, Finish
    PROVE  NetInv'
<1>1. /\ pc \in {"loading", "echo"} /\ pc' = "idle"
      /\ UNCHANGED <<call, target, user, bootp, rarp, dhcp, ip_addr, server_ip, server_mac,
                     gateway_ip, dhcp_state, xid, sent, i>>
    BY DEF Finish, flags, addrs
<1>2. TypeOK'
    BY <1>1 DEF NetInv, TypeOK
<1>3. Transactions' /\ Control'
    BY <1>1 DEF NetInv, Transactions, Control, Reading
<1>4. Sources'
    BY <1>1 DEF NetInv, Sources, Fresh, ByUser, ByBootp, ByRarp, MacFollows,
                UserKnowsAll, ServerFrom
<1>5. Leases'
    BY <1>1 DEF NetInv, Leases, Agreed
<1> QED
    BY <1>1, <1>2, <1>3, <1>4, <1>5 DEF NetInv, Names

-----------------------------------------------------------------------------
(* The theorems. *)

LEMMA NetInvInit == Init => NetInv
<1> SUFFICES ASSUME Init
             PROVE  NetInv
    OBVIOUS
<1>1. TypeOK /\ target \in Names
  <2>1. bootp = FALSE /\ rarp = FALSE /\ dhcp = FALSE
    BY DEF Init
  <2>2. {bootp, rarp, dhcp} \subseteq BOOLEAN /\ ~(bootp /\ rarp)
    BY <2>1
  <2>3. i \in 0 .. (IF BootpRetries > ArpRetries THEN BootpRetries ELSE ArpRetries)
    BY Constants DEF Init
  <2> QED
    BY <2>2, <2>3 DEF Init, TypeOK, Names
<1>2. Transactions /\ Control
    BY DEF Init, Transactions, Control, Reading
<1>3. Sources /\ Leases
    BY DEF Init, Sources, Leases
<1> QED
    BY <1>1, <1>2, <1>3 DEF NetInv

LEMMA NetInvNext == NetInv /\ [Next]_vars => NetInv'
<1> SUFFICES ASSUME NetInv, [Next]_vars
             PROVE  NetInv'
    OBVIOUS
<1>1. ASSUME NEW p \in Protocols, NEW u \in UserArgs, f_obptftp_open(p, u)
      PROVE  NetInv'
    BY <1>1, OpenInv
<1>2. CASE f_obptftp_close
    BY <1>2, CloseInv
<1>3. CASE f_obptftp_load
    BY <1>3, LoadInv
<1>4. ASSUME NEW h \in PingTargets \union {Zero}, do_ping(h)
      PROVE  NetInv'
    BY <1>4, PingInv
<1>5. ASSUME NEW h \in ArpAnswers, ArpReply(h)
      PROVE  NetInv'
    BY <1>5, ArpInv
<1>6. ASSUME NEW s \in RarpAnswers, RarpReply(s)
      PROVE  NetInv'
    BY <1>6, RarpInv
<1>7. ASSUME NEW m \in Answers, get_bootp_reply(m)
      PROVE  NetInv'
    BY <1>7, BootpReplyInv
<1>8. CASE Client
    BY <1>8, TimeoutInv, BrokenInv, PingHostInv, FinishInv DEF Client
<1>9. CASE UNCHANGED vars
  <2>1. UNCHANGED <<pc, call, target, user, bootp, rarp, dhcp, ip_addr, server_ip,
                    server_mac, gateway_ip, dhcp_state, xid, i, sent>>
    BY <1>9 DEF vars, flags, addrs
  <2>2. TypeOK' /\ (target \in Names)'
    BY <2>1 DEF NetInv, TypeOK, Names
  <2>3. Transactions' /\ Control'
    BY <2>1 DEF NetInv, Transactions, Control, Reading, UserKnowsAll
  <2>4. Sources'
    BY <2>1 DEF NetInv, Sources, Fresh, ByUser, ByBootp, ByRarp, MacFollows,
                UserKnowsAll, ServerFrom
  <2>5. Leases'
    BY <2>1 DEF NetInv, Leases, Agreed
  <2> QED
    BY <2>2, <2>3, <2>4, <2>5 DEF NetInv
<1> QED
    BY <1>1, <1>2, <1>3, <1>4, <1>5, <1>6, <1>7, <1>8, <1>9 DEF Next

\* The package's state is well typed: retries are never exceeded, and BOOTP and
\* RARP are never both pending (f_obptftp_open, get_bootp_info).
THEOREM ConfigurationTyped == Spec => []TypeOK
<1>1. NetInv => TypeOK
    BY DEF NetInv
<1> QED
    BY <1>1, NetInvInit, NetInvNext, PTL DEF Spec

\* A load uses an address leased by DHCP only after a REQUEST that names the
\* server of the lease, in this call's transaction (get_bootp_reply).
THEOREM LeasesAgreed == Spec => []LeaseIsAgreed
<1>1. NetInv => LeaseIsAgreed
    BY DEF NetInv, TypeOK, Control, Leases, Agreed, LeaseIsAgreed
<1> QED
    BY <1>1, NetInvInit, NetInvNext, PTL DEF Spec

\* Our address and the server that a load asks come from one answer, or from
\* the caller, whatever an earlier call has left (get_bootp_info, process_rarp).
THEOREM FromOneSource == Spec => []OneSource
<1>1. ASSUME NetInv, pc = "loading"
      PROVE  OneSource
  <2>1. ByUser \/ ByBootp \/ ByRarp
    BY <1>1 DEF NetInv, Control, Sources, Fresh, Unknown
  <2> QED
    BY <2>1 DEF OneSource, ByUser, ByBootp, ByRarp, ServerFrom
<1>2. NetInv => OneSource
    BY <1>1 DEF OneSource
<1> QED
    BY <1>2, NetInvInit, NetInvNext, PTL DEF Spec

\* The Ethernet address that a load sends to is that of the server it asks
\* (get_bootp_reply, process_arp).
THEOREM MacIsRight == Spec => []RightMac
<1>1. NetInv => RightMac
    BY DEF NetInv, Control, Sources, Fresh, ByUser, ByBootp, ByRarp, MacFollows, Unknown,
           RightMac
<1> QED
    BY <1>1, NetInvInit, NetInvNext, PTL DEF Spec
=============================================================================
