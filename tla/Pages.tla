-------------------------------- MODULE Pages --------------------------------
(***************************************************************************)
(* What the pages of a client are about: the chats.                        *)
(***************************************************************************)
EXTENDS Clients

CONSTANT Chats

ASSUME ChatsAssumption == None \notin Chats
=============================================================================
