------------------------------ MODULE MCGroups ------------------------------
(* Instances of Groups for TLC. *)
EXTENDS Groups, TLC

CONSTANTS alice, bob, carol, b1, c1

\* The devices of bob and carol; alice's own is not needed.
BobAndCarol == (b1 :> bob) @@ (c1 :> carol)

\* Request slots are interchangeable.
Symmetry == Permutations(Requests)
=============================================================================
