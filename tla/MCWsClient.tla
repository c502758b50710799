----------------------------- MODULE MCWsClient -----------------------------
(* Instances of WsClient for TLC. *)
EXTENDS WsClient

CONSTANTS s1, s2, s3
=============================================================================
