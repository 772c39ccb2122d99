----------------------------- MODULE EtherLink -----------------------------
(***************************************************************************)
(* What an Ethernet device promises the packages above it.  Packets of the *)
(* network may be missed, but those that are read come whole, in the order *)
(* they were sent, and each of them once; a packet that is reported sent   *)
(* has been on the wire, and nothing has that no one asked to send.        *)
(*                                                                         *)
(* Ne2000 and DecEther are shown to implement this specification.          *)
(***************************************************************************)
EXTENDS Integers, Sequences

CONSTANTS MaxHeard,     \* bound: packets of the network for this station
          MaxSends      \* bound: packets the station is asked to send

ASSUME EtherAssumption == MaxHeard \in Nat /\ MaxSends \in Nat

VARIABLES
    heard,              \* packets sent to the station, numbered from 1
    got,                \* those that were read, in order
    wire,               \* what the station has put on the wire
    told,               \* what has been reported sent
    wanted              \* packets that the station has been asked to send

linkVars == <<heard, got, wire, told, wanted>>

Garbled == -1
Sends == 1 .. MaxSends

LinkTypeOK ==
    /\ heard \in 0 .. MaxHeard
    /\ got \in Seq((0 .. MaxHeard) \union {Garbled})
    /\ wire \subseteq Sends \union {Garbled}
    /\ told \subseteq Sends
    /\ wanted \in 0 .. MaxSends

LinkInit == heard = 0 /\ got = <<>> /\ wire = {} /\ told = {} /\ wanted = 0

Hear == heard' = heard + 1 /\ UNCHANGED <<got, wire, told, wanted>>
Last == IF got = <<>> THEN 0 ELSE got[Len(got)]
Deliver == \E p \in Last + 1 .. heard : /\ got' = Append(got, p)
                                        /\ UNCHANGED <<heard, wire, told, wanted>>
Want == wanted' = wanted + 1 /\ UNCHANGED <<heard, got, wire, told>>
Transmit == \E m \in 1 .. wanted : /\ wire' = wire \union {m}
                                   /\ UNCHANGED <<heard, got, told, wanted>>
Tell == \E m \in wire : /\ told' = told \union {m}
                        /\ UNCHANGED <<heard, got, wire, wanted>>

LinkNext == Hear \/ Deliver \/ Want \/ Transmit \/ Tell
LinkSpec == LinkInit /\ [][LinkNext]_linkVars

-----------------------------------------------------------------------------
\* A packet for the station that no card takes in.
Miss == heard < MaxHeard /\ Hear

\* The caller of send_mac_pkt: one packet after the other, the next one when
\* the last has been reported sent.
Sending == wanted > 0 /\ wanted \notin told
=============================================================================
