--------------------------- MODULE MCConnections ---------------------------
(* Instances of Connections for TLC. *)
EXTENDS Connections, TLC

CONSTANTS alice, bob, a1, a2

\* Two sockets of alice.
TwoOfAlice == (a1 :> alice) @@ (a2 :> alice)
=============================================================================
