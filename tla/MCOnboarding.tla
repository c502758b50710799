---------------------------- MODULE MCOnboarding ----------------------------
(* Instances of Onboarding for TLC. *)
EXTENDS Onboarding, TLC

CONSTANTS alice, bob, f1, f2

Symmetry == Permutations(Users) \cup Permutations(Attempts)
=============================================================================
