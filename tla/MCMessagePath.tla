--------------------------- MODULE MCMessagePath ----------------------------
(* An instance of MessagePath for TLC. *)
EXTENDS MessagePath

CONSTANTS h1, h2, n1, n2, main, sentinel, lobby, den, null

Handlers == {h1, h2}
Threads == Handlers \cup {main}
Nodes == {n1, n2}
Rooms == {lobby, den}
Entries == 1..MaxMsgs
Messages == Entries \cup {sentinel}
=============================================================================
