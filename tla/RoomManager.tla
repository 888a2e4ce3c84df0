---------------------------- MODULE RoomManager -----------------------------
(***************************************************************************)
(* room_manager.c: the rooms and the ring buffer of messages each keeps.   *)
(* Every function holds the manager's lock from its first access to its    *)
(* last, so each is one step.                                              *)
(***************************************************************************)
EXTENDS Integers, Sequences, FiniteSets

CONSTANTS
    Room,        \* room names
    Lobby,       \* DEFAULT_ROOM
    Entry,       \* the messages rooms keep
    Blank,       \* a history entry as calloc() leaves it
    MaxRooms,    \* MAX_ROOMS
    MaxHistory   \* MAX_ROOM_HISTORY

ASSUME RoomAssumption ==
    /\ Lobby \in Room
    /\ MaxRooms \in Nat \ {0}
    /\ MaxHistory \in Nat \ {0}
    /\ Blank \notin Entry

VARIABLES
    rooms,       \* the rooms in the manager's list
    entries,     \* rn->history
    filled,      \* rn->count
    start        \* rn->start

rmVars == <<rooms, entries, filled, start>>

Slot == 0..(MaxHistory - 1)
Fresh == [i \in Slot |-> Blank]

\* room_find_or_create() finds a room, or makes one below MAX_ROOMS.
\* Mutant: one room too many.
CanCreateOneMore(r) == r \in rooms \/ Cardinality(rooms) <= MaxRooms
CanCreate(r) == r \in rooms \/ Cardinality(rooms) < MaxRooms

\* Mutant: a full ring overwrites its oldest entry and start stays.
room_history_add_Stuck(r, m) ==
    LET idx == IF filled[r] < MaxHistory THEN filled[r] ELSE start[r]
    IN  /\ CanCreate(r)
        /\ rooms' = rooms \cup {r}
        /\ entries' = [entries EXCEPT ![r][idx] = m]
        /\ filled' = [filled EXCEPT ![r] = IF @ < MaxHistory THEN @ + 1 ELSE @]
        /\ start' = start

\* Mutant: the test for a full ring is off by one.
room_history_add_Overruns(r, m) ==
    LET idx == IF filled[r] <= MaxHistory THEN filled[r] ELSE start[r]
    IN  /\ CanCreate(r)
        /\ rooms' = rooms \cup {r}
        /\ entries' = [entries EXCEPT ![r] = [i \in Slot |-> IF i = idx THEN m ELSE @[i]]]
        /\ filled' = [filled EXCEPT ![r] = IF @ <= MaxHistory THEN @ + 1 ELSE @]
        /\ start' = [start EXCEPT ![r] =
               IF filled[r] <= MaxHistory THEN @ ELSE (@ + 1) % MaxHistory]

room_history_add(r, m) ==
    LET idx == IF filled[r] < MaxHistory THEN filled[r] ELSE start[r]
    IN  /\ CanCreate(r)
        /\ rooms' = rooms \cup {r}
        /\ entries' = [entries EXCEPT ![r][idx] = m]
        /\ filled' = [filled EXCEPT ![r] = IF @ < MaxHistory THEN @ + 1 ELSE @]
        /\ start' = [start EXCEPT ![r] =
               IF filled[r] < MaxHistory THEN @ ELSE (@ + 1) % MaxHistory]

\* room_find_or_create() returned NULL, at MAX_ROOMS or because calloc() failed,
\* as it may at any time: CHAT_ERR_FULL.
room_history_add_fails(r) ==
    /\ r \notin rooms
    /\ UNCHANGED rmVars

\* The entries in the order room_history_format() prints them; nothing for a
\* room that is not there.
room_history_format(r) ==
    [i \in 1..filled[r] |-> entries[r][(start[r] + i - 1) % MaxHistory]]

room_manager_destroy ==
    /\ rooms' = {}
    /\ entries' = [r \in Room |-> Fresh]
    /\ filled' = [r \in Room |-> 0]
    /\ start' = [r \in Room |-> 0]

\* room_manager_init(): the lobby is there from the start.
RMInit ==
    /\ rooms = {Lobby}
    /\ entries = [r \in Room |-> Fresh]
    /\ filled = [r \in Room |-> 0]
    /\ start = [r \in Room |-> 0]

-----------------------------------------------------------------------------
(* Correctness.                                                            *)

RMTypeOK ==
    /\ rooms \subseteq Room
    /\ entries \in [Room -> [Slot -> Entry \cup {Blank}]]
    /\ filled \in [Room -> 0..MaxHistory]
    /\ start \in [Room -> Slot]

\* A room that is not in the list is as calloc() will make it; the ring wraps
\* only once it is full, and no blank entry is ever shown.
RingSound ==
    /\ Cardinality(rooms) <= MaxRooms
    /\ \A r \in Room :
           /\ r \notin rooms => filled[r] = 0
           /\ filled[r] < MaxHistory => start[r] = 0
           /\ \A i \in 1..filled[r] : room_history_format(r)[i] # Blank

RL == INSTANCE RoomLog WITH Msg <- Entry, known <- rooms,
                            log <- [r \in Room |-> room_history_format(r)]

\* The ring buffers implement the histories that the rest of the server relies
\* on: a room shows its last MaxHistory messages, oldest first, and a full
\* table of rooms or a failed calloc() costs no other room anything.
HistoryImplements == RL!RLSpec
=============================================================================
