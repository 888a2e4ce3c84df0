---------------------------- MODULE MCWireFormat ----------------------------
(* Instances of WireFormat for TLC. *)
EXTENDS WireFormat

Texts(S, n) == UNION {[1..k -> S] : k \in 0..n}

Chars == {"x", "y", "t", " "}

\* Every text a little longer than a message, and texts about as long as a line,
\* with a space somewhere or without.
Long == {[i \in 1..n |-> IF i = j THEN " " ELSE "x"] : n \in (LineCap - 4)..LineCap, j \in 0..3}
SomeTexts == Texts({"x", " "}, MsgCap + 3) \cup Long

SomeInputs == [type : {"JOIN_ROOM", "KICK", "MSG", "PM"}, text : SomeTexts]
              \cup [type : {"LIST", "HISTORY", "QUIT"}, text : {<<>>}]

Words1 == Texts({"x"}, NameCap) \ {<<>>}
Rooms == Texts({"x", " "}, RoomCap) \ {<<>>}
Times == {[i \in 1..n |-> "t"] : n \in {1, TimeCap}}
Msgs == Texts({"y", " "}, MsgCap) \ {<<>>}

SomeResponses ==
    {[type |-> "BROADCAST", fields |-> <<u, t, r, m>>] :
        u \in Words1, t \in Times, r \in Rooms, m \in Msgs}
    \cup {[type |-> "PM", fields |-> <<u, t, m>>] : u \in Words1, t \in Times, m \in Msgs}
    \cup {[type |-> k, fields |-> <<u, r>>] :
             k \in {"USER_JOIN", "USER_LEFT"}, u \in Words1, r \in Rooms}
    \cup {[type |-> "WELCOME", fields |-> <<u>>] : u \in Words1}
    \cup {[type |-> "ROOM_JOINED", fields |-> <<r>>] : r \in Rooms}
    \cup {[type |-> k, fields |-> <<m>>] :
             k \in {"OK", "ERR", "KICKED", "LIST"}, m \in Msgs}
    \* No history, and histories up to the size of their buffer.
    \cup {[type |-> "HISTORY", fields |-> <<m>>] : m \in {<<>>} \cup Msgs \cup Long}
=============================================================================
