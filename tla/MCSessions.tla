----------------------------- MODULE MCSessions -----------------------------
(* Instances of Sessions for TLC. *)
EXTENDS Sessions, TLC

CONSTANTS alice, phone, laptop

\* Request slots are interchangeable, and so are the two devices of alice.
Symmetry == Permutations(Requests) \cup Permutations(Devices)

AllAlices == (phone :> alice) @@ (laptop :> alice)
=============================================================================
