----------------------------- MODULE MCNewChats -----------------------------
(* Instances of NewChats for TLC: alice at two clients, bob at one. *)
EXTENDS NewChats, TLC

CONSTANTS alice, bob, carol, alicesWeb, bobsWeb, alicesPhone

Logins == alicesWeb :> alice @@ bobsWeb :> bob @@ alicesPhone :> alice

Both == {alicesWeb, bobsWeb}

Cases ==
  {[clients |-> Both, dialogues |-> {"direct"}, incidents |-> {"leave"}],
   [clients |-> Both, dialogues |-> {"direct"}, incidents |-> {"loss"}],
   [clients |-> {alicesWeb}, dialogues |-> {"direct", "group"}, incidents |-> {"loss", "news"}],
   [clients |-> {alicesPhone, bobsWeb}, dialogues |-> {"direct"}, incidents |-> {}],
   [clients |-> {alicesPhone}, dialogues |-> {"direct", "group"}, incidents |-> {"loss"}]}
=============================================================================
