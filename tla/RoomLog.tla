------------------------------ MODULE RoomLog -------------------------------
(***************************************************************************)
(* What the room manager promises: every room remembers its last           *)
(* MaxHistory messages in the order they were stored.  ChatServer works    *)
(* with histories of this kind; RoomManager implements them.               *)
(***************************************************************************)
EXTENDS Integers, Sequences

CONSTANTS Room, Lobby, Msg, MaxHistory

VARIABLES
    known,       \* the rooms that exist
    log          \* what each room remembers, oldest first

logVars == <<known, log>>

Latest(s) == IF Len(s) > MaxHistory THEN Tail(s) ELSE s

Store(r, m) ==
    /\ known' = known \cup {r}
    /\ log' = [log EXCEPT ![r] = Latest(Append(@, m))]

\* The rooms are destroyed with the server.
Forget ==
    /\ known' = {}
    /\ log' = [r \in Room |-> <<>>]

RLInit == known = {Lobby} /\ log = [r \in Room |-> <<>>]
RLNext == (\E r \in Room, m \in Msg : Store(r, m)) \/ Forget
RLSpec == RLInit /\ [][RLNext]_logVars
=============================================================================
