-------------------------- MODULE RoomManagerProofs --------------------------
(***************************************************************************)
(* Proofs about the ring buffers of RoomManager, for any number of rooms   *)
(* and any capacity: the inductive invariant RMInv, and that every step    *)
(* does to the entries a room shows what RoomLog says of its log.          *)
(***************************************************************************)
EXTENDS RoomManager, SequenceTheorems, FiniteSetTheorems, TLAPS

RMInv == RMTypeOK /\ IsFiniteSet(rooms) /\ RingSound

\* The histories, all rooms at once.
Logs == [r \in Room |-> room_history_format(r)]

\* The remainders that indices into a ring take.
LEMMA RingIndex ==
    ASSUME NEW N \in Nat \ {0}
    PROVE  /\ \A a \in 0..(N - 1) : a % N = a
           /\ \A a \in N..(2 * N - 1) : a % N = a - N
<1>1. \A a \in 0..(N - 1) : a % N = a
  BY SMT
<1>2. ASSUME NEW a \in N..(2 * N - 1)
      PROVE  a % N = a - N
  BY SMT
<1> QED BY <1>1, <1>2

\* What a room shows is a sequence of messages, at most MaxHistory of them.
LEMMA FormatType ==
    ASSUME RMInv, NEW r \in Room
    PROVE  /\ room_history_format(r) \in Seq(Entry)
           /\ Len(room_history_format(r)) = filled[r]
           /\ filled[r] \in 0..MaxHistory /\ filled[r] \in Nat
           /\ \A i \in 1..filled[r] :
                  room_history_format(r)[i] = entries[r][(start[r] + i - 1) % MaxHistory]
<1>1. filled[r] \in 0..MaxHistory /\ start[r] \in Slot /\ filled[r] \in Nat
  BY RoomAssumption DEF RMInv, RMTypeOK
<1>2. ASSUME NEW i \in 1..filled[r]
      PROVE  room_history_format(r)[i] \in Entry
  <2>1. (start[r] + i - 1) % MaxHistory \in Slot
    BY <1>1, RingIndex, RoomAssumption DEF Slot
  <2>2. room_history_format(r)[i] \in Entry \cup {Blank}
    BY <2>1 DEF room_history_format, RMInv, RMTypeOK
  <2> QED BY <2>2 DEF RMInv, RingSound
<1>3. room_history_format(r) \in [1..filled[r] -> Entry]
  BY <1>2 DEF room_history_format
<1>4. room_history_format(r) \in Seq(Entry)
  BY <1>1, <1>3, SeqDef
<1>5. Len(room_history_format(r)) = filled[r]
  BY <1>1, <1>3, <1>4, LenProperties
<1> QED BY <1>1, <1>4, <1>5 DEF room_history_format

-----------------------------------------------------------------------------
(* room_history_add().                                                     *)

\* The room's new history is its old one with the message at its end, and
\* without its oldest message when it was full.
LEMMA AddShows ==
    ASSUME RMInv, NEW r \in Room, NEW m \in Entry, room_history_add(r, m)
    PROVE  /\ filled' = [filled EXCEPT ![r] = IF @ < MaxHistory THEN @ + 1 ELSE @]
           /\ filled'[r] \in 1..MaxHistory
           /\ start'[r] \in Slot /\ (filled'[r] < MaxHistory => start'[r] = 0)
           /\ room_history_format(r)' = RL!Latest(Append(room_history_format(r), m))
<1> DEFINE N == MaxHistory
           f == filled[r]
           s == start[r]
           old == room_history_format(r)
           new == Append(old, m)
           idx == IF f < N THEN f ELSE s
<1>1. /\ N \in Nat \ {0} /\ f \in 0..N /\ s \in 0..(N - 1) /\ (f < N => s = 0)
      /\ f \in Nat /\ s \in Nat
  BY RoomAssumption DEF RMInv, RMTypeOK, RingSound, Slot
<1>2. /\ entries' = [entries EXCEPT ![r][idx] = m]
      /\ filled' = [filled EXCEPT ![r] = IF @ < MaxHistory THEN @ + 1 ELSE @]
      /\ start' = [start EXCEPT ![r] = IF f < N THEN @ ELSE (@ + 1) % N]
  BY DEF room_history_add
<1>3. /\ filled'[r] = (IF f < N THEN f + 1 ELSE f)
      /\ start'[r] = (IF f < N THEN s ELSE (s + 1) % N)
      /\ \A k \in 0..(N - 1) : entries'[r][k] = IF k = idx THEN m ELSE entries[r][k]
  BY <1>2 DEF RMInv, RMTypeOK, Slot
<1>4. /\ \A a \in 0..(N - 1) : a % N = a
      /\ \A a \in N..(2 * N - 1) : a % N = a - N
  BY <1>1, RingIndex
<1>5. /\ old \in Seq(Entry) /\ Len(old) = f
      /\ \A i \in 1..f : old[i] = entries[r][(s + i - 1) % N]
  BY FormatType
<1>6. /\ new \in Seq(Entry) /\ new # <<>> /\ Len(new) = f + 1
      /\ \A i \in 1..f : new[i] = old[i]
      /\ new[f + 1] = m
  BY <1>5, AppendProperties
<1>7. room_history_format(r)'
        = [i \in 1..filled'[r] |-> entries'[r][(start'[r] + i - 1) % N]]
  BY DEF room_history_format
<1>8. start'[r] \in 0..(N - 1)
  BY <1>1, <1>3, <1>4
<1> HIDE DEF N, f, s, old, new, idx
<1>9. CASE f < N
  <2>1. filled'[r] = f + 1 /\ start'[r] = 0 /\ s = 0 /\ idx = f
    BY <1>1, <1>3, <1>9 DEF idx
  <2>2. ASSUME NEW i \in 1..(f + 1)
        PROVE  entries'[r][(start'[r] + i - 1) % N] = new[i]
    <3>1. (0 + i - 1) % N = i - 1 /\ i - 1 \in 0..(N - 1)
      BY <1>1, <1>4, <1>9
    <3>2. CASE i = f + 1
      <4>1. (start'[r] + i - 1) % N = idx /\ idx \in 0..(N - 1)
        BY <1>1, <1>9, <2>1, <3>1, <3>2
      <4> QED BY <1>3, <1>6, <3>2, <4>1
    <3>3. CASE i # f + 1
      <4>1. i \in 1..f /\ i - 1 # idx
        BY <1>1, <2>1, <3>3
      <4> QED BY <1>3, <1>5, <1>6, <2>1, <3>1, <4>1
    <3> QED BY <3>2, <3>3
  <2>3. new \in [1..(f + 1) -> Entry]
    BY <1>6, LenProperties
  <2>4. room_history_format(r)' = new
    BY <1>7, <2>1, <2>2, <2>3
  <2>5. RL!Latest(new) = new
    BY <1>1, <1>6, <1>9 DEF RL!Latest, N
  <2> QED BY <1>1, <1>2, <1>8, <1>9, <2>1, <2>4, <2>5 DEF N, new, old, Slot
<1>10. CASE ~(f < N)
  <2>1. f = N /\ filled'[r] = N /\ idx = s /\ start'[r] = (s + 1) % N
    BY <1>1, <1>3, <1>10 DEF idx
  <2>2. /\ Tail(new) \in Seq(Entry) /\ Len(Tail(new)) = N
        /\ \A i \in 1..N : Tail(new)[i] = new[i + 1]
    <3>1. Tail(new) \in Seq(Entry) /\ Len(Tail(new)) = Len(new) - 1
      BY <1>6, HeadTailProperties
    <3>2. Len(Tail(new)) = N
      BY <1>1, <1>6, <2>1, <3>1
    <3> QED BY <1>6, <3>1, <3>2, HeadTailProperties
  <2>3. ASSUME NEW i \in 1..N
        PROVE  entries'[r][(start'[r] + i - 1) % N] = new[i + 1]
    <3>1. (start'[r] + i - 1) % N = (s + i) % N
      <4>1. CASE s + 1 < N
        BY <1>1, <1>4, <2>1, <4>1
      <4>2. CASE s + 1 = N
        <5>1. start'[r] = 0
          BY <1>1, <1>4, <2>1, <4>2
        <5>2. (i - 1) % N = i - 1 /\ (s + i) % N = s + i - N
          BY <1>1, <1>4, <4>2
        <5> QED BY <1>1, <4>2, <5>1, <5>2
      <4> QED BY <1>1, <4>1, <4>2
    <3>2. CASE i = N
      <4>1. (s + N) % N = s
        BY <1>1, <1>4
      <4> QED BY <1>1, <1>3, <1>6, <2>1, <3>1, <3>2, <4>1
    <3>3. CASE i # N
      <4>1. i + 1 \in 1..f /\ s + (i + 1) - 1 = s + i
        BY <1>1, <2>1, <3>3
      <4>2. (s + i) % N \in 0..(N - 1) /\ (s + i) % N # s
        <5>1. CASE s + i < N
          BY <1>1, <1>4, <5>1
        <5>2. CASE ~(s + i < N)
          <6>1. (s + i) % N = s + i - N
            BY <1>1, <1>4, <5>2
          <6> QED BY <1>1, <3>3, <5>2, <6>1
        <5> QED BY <5>1, <5>2
      <4>3. new[i + 1] = entries[r][(s + i) % N]
        BY <1>5, <1>6, <4>1
      <4> QED BY <1>3, <2>1, <3>1, <4>2, <4>3
    <3> QED BY <3>2, <3>3
  <2>4. Tail(new) \in [1..N -> Entry]
    BY <2>2, LenProperties
  <2>5. room_history_format(r)' = Tail(new)
    BY <1>7, <2>1, <2>2, <2>3, <2>4
  <2>6. RL!Latest(new) = Tail(new)
    BY <1>1, <1>6, <2>1 DEF RL!Latest, N
  <2> QED BY <1>1, <1>2, <1>8, <2>1, <2>5, <2>6 DEF N, new, old, Slot
<1> QED BY <1>9, <1>10

\* The step does to the histories what RoomLog says, touches no other room and
\* keeps the invariant.
LEMMA RoomAddStep ==
    ASSUME RMInv, NEW r \in Room, NEW m \in Entry, room_history_add(r, m)
    PROVE  RMInv' /\ RL!Store(r, m)
<1> DEFINE old == room_history_format(r)
           idx == IF filled[r] < MaxHistory THEN filled[r] ELSE start[r]
<1>1. /\ filled' = [filled EXCEPT ![r] = IF @ < MaxHistory THEN @ + 1 ELSE @]
      /\ filled'[r] \in 1..MaxHistory
      /\ start'[r] \in Slot /\ (filled'[r] < MaxHistory => start'[r] = 0)
      /\ room_history_format(r)' = RL!Latest(Append(old, m))
  BY AddShows
<1>2. /\ r \in rooms \/ Cardinality(rooms) < MaxRooms
      /\ rooms' = rooms \cup {r}
      /\ entries' = [entries EXCEPT ![r][idx] = m]
      /\ start' = [start EXCEPT ![r] = IF filled[r] < MaxHistory THEN @ ELSE (@ + 1) % MaxHistory]
  BY DEF room_history_add, CanCreate
<1>3. idx \in Slot /\ filled[r] \in Nat
  BY RoomAssumption DEF RMInv, RMTypeOK, Slot
<1>4. \A q \in Room \ {r} : /\ entries'[q] = entries[q] /\ filled'[q] = filled[q]
                            /\ start'[q] = start[q]
  BY <1>1, <1>2 DEF RMInv, RMTypeOK
<1>5. \A q \in Room \ {r} : room_history_format(q)' = room_history_format(q)
  BY <1>4 DEF room_history_format
<1>6. /\ old \in Seq(Entry) /\ RL!Latest(Append(old, m)) \in Seq(Entry)
  <2>1. old \in Seq(Entry) /\ Append(old, m) \in Seq(Entry) /\ Append(old, m) # <<>>
    BY FormatType, AppendProperties
  <2>2. Tail(Append(old, m)) \in Seq(Entry)
    BY <2>1, HeadTailProperties
  <2> QED BY <2>1, <2>2 DEF RL!Latest
<1> HIDE DEF idx, old
<1>7. RMTypeOK'
  <2>1. rooms' \subseteq Room
    BY <1>2 DEF RMInv, RMTypeOK
  <2>2. entries' \in [Room -> [Slot -> Entry \cup {Blank}]]
    BY <1>2, <1>3 DEF RMInv, RMTypeOK
  <2>3. filled' \in [Room -> 0..MaxHistory]
    <3>1. DOMAIN filled' = Room /\ filled' = [q \in Room |-> filled'[q]]
      BY <1>1 DEF RMInv, RMTypeOK
    <3>2. \A q \in Room : filled'[q] \in 0..MaxHistory
      BY <1>1, <1>4, RoomAssumption DEF RMInv, RMTypeOK
    <3> QED BY <3>1, <3>2
  <2>4. start' \in [Room -> Slot]
    <3>1. start' = [q \in Room |-> start'[q]]
      BY <1>2 DEF RMInv, RMTypeOK
    <3>2. \A q \in Room : start'[q] \in Slot
      BY <1>1, <1>4 DEF RMInv, RMTypeOK
    <3> QED BY <3>1, <3>2
  <2> QED BY <2>1, <2>2, <2>3, <2>4 DEF RMTypeOK
<1>8. IsFiniteSet(rooms') /\ Cardinality(rooms') <= MaxRooms
  <2>1. IsFiniteSet(rooms) /\ Cardinality(rooms) <= MaxRooms
    BY DEF RMInv, RingSound
  <2>2. CASE r \in rooms
    BY <1>2, <2>1, <2>2
  <2>3. CASE r \notin rooms
    <3>1. Cardinality(rooms) \in Nat /\ Cardinality(rooms) + 1 <= MaxRooms
      BY <1>2, <2>1, <2>3, FS_CardinalityType, RoomAssumption
    <3>2. IsFiniteSet(rooms \cup {r}) /\ Cardinality(rooms \cup {r}) = Cardinality(rooms) + 1
      BY <2>1, <2>3, FS_AddElement
    <3> QED BY <1>2, <3>1, <3>2
  <2> QED BY <2>2, <2>3
<1>9. ASSUME NEW q \in Room
      PROVE  /\ q \notin rooms' => filled'[q] = 0
             /\ filled'[q] < MaxHistory => start'[q] = 0
             /\ \A i \in 1..filled'[q] : room_history_format(q)'[i] # Blank
  <2>1. CASE q = r
    <3>1. room_history_format(r)' = [i \in 1..filled'[r] |->
                                       entries'[r][(start'[r] + i - 1) % MaxHistory]]
      BY DEF room_history_format
    <3>2. Len(room_history_format(r)') = filled'[r]
      BY <1>1, <1>6, <3>1, LenProperties
    <3>3. \A i \in 1..filled'[r] : room_history_format(r)'[i] \in Entry
      BY <1>1, <1>6, <3>2, ElementOfSeq
    <3> QED BY <1>1, <1>2, <2>1, <3>3, RoomAssumption
  <2>2. CASE q # r
    BY <1>2, <1>4, <1>5, <2>2 DEF RMInv, RingSound
  <2> QED BY <2>1, <2>2
<1>10. RMInv'
  BY <1>7, <1>8, <1>9 DEF RMInv, RingSound
<1>11. RL!Store(r, m)
  <2>1. Logs' = [Logs EXCEPT ![r] = RL!Latest(Append(Logs[r], m))]
    BY <1>1, <1>5 DEF Logs, old
  <2> QED BY <1>2, <2>1 DEF RL!Store, Logs
<1> QED BY <1>10, <1>11

-----------------------------------------------------------------------------
(* The other steps.                                                        *)

\* Nothing of the rooms changes; a failed room_history_add() is such a step.
LEMMA RMStutter ==
    ASSUME RMInv, UNCHANGED rmVars
    PROVE  RMInv' /\ UNCHANGED <<rooms, Logs>>
<1>1. RMTypeOK' /\ IsFiniteSet(rooms)'
  BY DEF rmVars, RMInv, RMTypeOK
<1>2. RingSound'
  BY DEF rmVars, RMInv, RingSound, room_history_format
<1> QED BY <1>1, <1>2 DEF rmVars, RMInv, Logs, room_history_format

\* A room without messages shows nothing, and its ring starts at 0.
LEMMA EmptyRings ==
    ASSUME entries = [r \in Room |-> Fresh], filled = [r \in Room |-> 0],
           start = [r \in Room |-> 0]
    PROVE  /\ entries \in [Room -> [Slot -> Entry \cup {Blank}]]
           /\ filled \in [Room -> 0..MaxHistory] /\ start \in [Room -> Slot]
           /\ \A r \in Room : filled[r] = 0 /\ start[r] = 0
           /\ Logs = [r \in Room |-> <<>>]
<1>1. 0 \in Slot /\ 0 \in 0..MaxHistory
  BY RoomAssumption DEF Slot
<1>2. Fresh \in [Slot -> Entry \cup {Blank}]
  BY DEF Fresh
<1>3. \A r \in Room : room_history_format(r) = <<>>
  BY DEF room_history_format
<1> QED BY <1>1, <1>2, <1>3 DEF Logs

\* room_manager_destroy() leaves no room.
LEMMA RoomDestroyStep ==
    ASSUME RMInv, room_manager_destroy
    PROVE  RMInv' /\ RL!Forget
<1>1. /\ rooms' = {} /\ entries' = [r \in Room |-> Fresh]
      /\ filled' = [r \in Room |-> 0] /\ start' = [r \in Room |-> 0]
  BY DEF room_manager_destroy
<1>2. 0 \in Slot /\ 0 \in 0..MaxHistory /\ Fresh \in [Slot -> Entry \cup {Blank}]
  BY RoomAssumption DEF Slot, Fresh
<1>3. RMTypeOK'
  BY <1>1, <1>2 DEF RMTypeOK
<1>4. IsFiniteSet(rooms') /\ Cardinality(rooms') <= MaxRooms
  BY <1>1, FS_EmptySet, RoomAssumption
<1>5. RingSound'
  BY <1>1, <1>4 DEF RingSound
<1>6. \A r \in Room : room_history_format(r)' = <<>>
  BY <1>1 DEF room_history_format
<1> QED BY <1>1, <1>3, <1>4, <1>5, <1>6 DEF RMInv, RL!Forget

\* room_manager_init() makes the lobby.
LEMMA RMInitStep ==
    ASSUME RMInit
    PROVE  RMInv /\ RL!RLInit
<1>1. /\ entries \in [Room -> [Slot -> Entry \cup {Blank}]]
      /\ filled \in [Room -> 0..MaxHistory] /\ start \in [Room -> Slot]
      /\ \A r \in Room : filled[r] = 0 /\ start[r] = 0
      /\ Logs = [r \in Room |-> <<>>]
  BY EmptyRings DEF RMInit
<1>2. rooms = {Lobby} /\ IsFiniteSet(rooms) /\ Cardinality(rooms) <= MaxRooms
  <2>1. IsFiniteSet({Lobby}) /\ Cardinality({Lobby}) = 1
    BY FS_Singleton
  <2> QED BY <2>1, RoomAssumption DEF RMInit
<1>3. RMTypeOK /\ RingSound
  BY <1>1, <1>2, RoomAssumption DEF RMTypeOK, RingSound
<1> QED BY <1>1, <1>2, <1>3 DEF RMInv, RL!RLInit, Logs
=============================================================================
