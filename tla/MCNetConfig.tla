---------------------------- MODULE MCNetConfig ----------------------------
(* Instances of NetConfig for TLC. *)
EXTENDS NetConfigProofs, TLC

CONSTANTS a, b, f, r, h     \* servers a and b, a file server, a router, a host

\* Server a has the files elsewhere, b has them itself.
MCNextServer == (a :> f) @@ (b :> b)
NoRelay == (a :> Zero) @@ (b :> Zero)
ThroughRouter == (a :> Zero) @@ (b :> r)

NoArgs == [ip |-> Zero, server |-> Zero, gateway |-> Zero]
MCUserArgs == {NoArgs,
               [NoArgs EXCEPT !.server = f],
               [NoArgs EXCEPT !.ip = User, !.server = f]}
OnlyNoArgs == {NoArgs}

=============================================================================
