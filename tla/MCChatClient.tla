---------------------------- MODULE MCChatClient ----------------------------
(* Instances of ChatClient for TLC. *)
EXTENDS ChatClient

Say(c, n) == [cmd |-> c, size |-> n]

\* Short lines, lines that just fit and lines that do not.
AnyLines == {Say("QUIT", 2), Say("ASK", 2), Say("SKIP", 1), Say("JOIN_ROOM", LineCap + 1),
             Say("MSG", LineCap), Say("MSG", LineCap + 1)}
FewLines == {Say("QUIT", 2), Say("ASK", 2)}
=============================================================================
