------------------------------ MODULE MCOutbox ------------------------------
(* Instances of Outbox for TLC. *)
EXTENDS Outbox, TLC

CONSTANTS e1, e2, u1, u2, w1, w2

\* A message for two members, and a chat event (SMEMBERS finds nobody).
MessageAndChat == (e1 :> "message") @@ (e2 :> "chat")

BothUsers == (e1 :> <<u1, u2>>) @@ (e2 :> <<u1>>)
=============================================================================
