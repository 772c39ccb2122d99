-------------------------------- MODULE Ether --------------------------------
(***************************************************************************)
(* A station with either card, driven by Ne2000 or by DecEther.            *)
(***************************************************************************)
EXTENDS Ne2000, DecEther

EtherInit == LinkInit /\ NeInit /\ DecInit
EtherNext ==
    \/ /\ decleft.opens = DecOpens
       /\ NeNext
       /\ UNCHANGED decVars
    \/ /\ neleft.opens = NeOpens
       /\ DecNext
       /\ UNCHANGED neVars
    \/ /\ Miss
       /\ UNCHANGED <<neVars, decVars>>

EtherSpec == EtherInit /\ [][EtherNext]_<<linkVars, neVars, decVars>>
EtherLiveSpec == EtherSpec /\ NeFairness /\ DecFairness

EtherTypeOK == LinkTypeOK /\ NeTypeOK /\ DecTypeOK

\* The two drivers promise what EtherLink does (f_ne2000_read, f_ne2000_write,
\* f_ether_read, f_ether_write): what is read is whole, in order and read
\* once, what is reported sent has been sent as it was given.  Once packets of
\* the NE2000 have filled the ring exactly, or one was coming in when the driver
\* set CURR, nothing is promised of what is read.
ImplementsEther ==
    LinkInit /\ [][LinkNext \/ (astray' /\ UNCHANGED <<heard, wire, told, wanted>>)]_linkVars

\* send_mac_pkt, which calls write until it reports the whole packet,
\* returns (obptftp.c:590), as long as the cards end what they began.
SendReturns == Sending ~> ~Sending
=============================================================================
