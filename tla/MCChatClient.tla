---------------------------- MODULE MCChatClient ----------------------------
(* Instances of ChatClient for TLC. *)
EXTENDS ChatClient, TLC

CONSTANTS c1, c2

\* One chat has all messages; the other one is what the user leaves it for.
MCChatOf == [m \in Messages |-> c1]

\* The messages with what can go wrong about them in turn, and the signs apart
\* from the messages, whose state they do not touch.
MCFeeds == {{"message.new", "age", "loss"}, {"message.new", "twice"}, {"message.new", "deletion"},
            {"status"}, {"typing", "loss"}}
=============================================================================
