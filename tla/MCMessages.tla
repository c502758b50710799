----------------------------- MODULE MCMessages -----------------------------
(* Instances of Messages for TLC. *)
EXTENDS Messages, TLC

CONSTANTS alice, bob, a1, a2, b1

\* Message ids and request slots are interchangeable.
Symmetry == Permutations(MsgIds) \cup Permutations(Requests)

AliceAndBob == (a1 :> alice) @@ (a2 :> alice) @@ (b1 :> bob)
OnePerUser == (a1 :> alice) @@ (b1 :> bob)
=============================================================================
