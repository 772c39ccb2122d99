------------------------------- MODULE MCTftp -------------------------------
(* Instances of Tftp for TLC. *)
EXTENDS TftpProofs, TLC

CONSTANTS f, g

\* A file of three blocks and one of two; one of three.
TwoFiles == (f :> 3) @@ (g :> 2)
OneFile == (f :> 3)

\* A network that does as it likes, with other hosts on it; one that answers in
\* time and loses up to three packets; one that only repeats and delays.
Hostiles == [hostile |-> TRUE, strangers |-> TRUE, retries |-> 3, sessions |-> 4,
             resends |-> 0, losses |-> 0]
Prompt == [hostile |-> FALSE, strangers |-> FALSE, retries |-> 6, sessions |-> 5,
           resends |-> 2, losses |-> 3]
Repeating == [hostile |-> TRUE, strangers |-> FALSE, retries |-> 3, sessions |-> 2,
              resends |-> 0, losses |-> 0]
BothNetworks == {Hostiles, Prompt}
OneNetwork == {Repeating}

=============================================================================
