----------------------------- MODULE MCComposer -----------------------------
(* Instances of Composer for TLC. *)
EXTENDS Composer, TLC

CONSTANTS c1, c2, g1, f1, f2

\* Each set of chats below is closed under it.
Symmetry == Permutations(Direct)

\* Drafts with a file, in the clear, in two chats; keys with a file for the
\* message, in every kind of chat; two files; and a draft under a key with a
\* third message, for a request made before the last one.
MCUses == {[text |-> TRUE, keys |-> FALSE, chats |-> Direct, files |-> {f1}, sends |-> 2],
           [text |-> FALSE, keys |-> TRUE, chats |-> Chats, files |-> {f1}, sends |-> 2],
           [text |-> FALSE, keys |-> FALSE, chats |-> Direct, files |-> {f1, f2}, sends |-> 2]}
          \cup {[text |-> TRUE, keys |-> TRUE, chats |-> {c}, files |-> {}, sends |-> 3] : c \in Direct}
=============================================================================
