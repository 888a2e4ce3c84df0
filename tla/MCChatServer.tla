---------------------------- MODULE MCChatServer ----------------------------
(* Instances of ChatServer for TLC. *)
EXTENDS ChatServer, TLC

CONSTANTS c1, c2, c3, alice, bob, lobby, den, none

TwoConn == {c1, c2}
ThreeConn == {c1, c2, c3}
TwoFd == {0, 1}
Both == {alice, bob}
TwoRooms == {lobby, den}

Auth(u) == [cmd |-> "AUTH", who |-> u, room |-> None]
To(cmd, u) == [cmd |-> cmd, who |-> u, room |-> None]
Plain(cmd) == [cmd |-> cmd, who |-> None, room |-> None]
Join(r) == [cmd |-> "JOIN_ROOM", who |-> None, room |-> r]

Logins == {Auth(u) : u \in User}

\* The same lines from every peer: logins and departures; logins, messages and
\* room changes.
SessionInputs == [c \in Conn |-> Logins \cup {Plain("QUIT")}]
ChatInputs    == [c \in Conn |-> Logins \cup {Plain("MSG"), Join(den)}]

\* Two peers for one account, of whom one leaves again, and one for another.
RivalInputs ==
    [c \in Conn |-> IF c = c1 THEN {Auth(alice), Plain("MSG"), Plain("QUIT")}
                    ELSE IF c = c2 THEN {Auth(alice)} ELSE {Auth(bob)}]
RivalLines == [c \in Conn |-> IF c = c1 THEN 2 ELSE 1]
TwoLines == [c \in Conn |-> 2]
ThreeLines == [c \in Conn |-> 3]

\* One peer writes, changes rooms and leaves; the other follows it from room to
\* room, under its own name or the same.
FollowInputs ==
    [c \in Conn |-> IF c = c1 THEN {Auth(alice), Join(den), Plain("MSG"), Plain("QUIT")}
                    ELSE {Auth(alice), Auth(bob), Join(den)}]

\* An administrator against a user.
AdminInputs ==
    [c \in Conn |-> IF c = c1 THEN {Auth(alice), To("KICK", bob), To("PM", bob)}
                    ELSE {Auth(bob), Plain("AUTHBAD"), Plain("HISTORY")}]

\* An administrator against users who come and go.
KickQuitInputs ==
    [c \in Conn |-> {Auth(alice), Auth(bob), To("KICK", bob), Plain("QUIT")}]

Symmetry == Permutations(Conn) \cup Permutations(User)
=============================================================================
