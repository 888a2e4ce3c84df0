-------------------------- MODULE MessagePathProofs --------------------------
(***************************************************************************)
(* Proofs about the way of a message, for any number of handlers, rooms,   *)
(* messages and heap blocks: the threads of MessagePath use the linked     *)
(* list and the ring buffers only as MessageQueueProofs and                *)
(* RoomManagerProofs allow, so that both implement what ChatServer works   *)
(* with, and no client sees two messages against the order of their calls. *)
(***************************************************************************)
EXTENDS MessagePath, MessageQueueProofs, RoomManagerProofs

\* The flags agree with where the main thread and the broadcaster are, and the
\* broadcaster has a message whenever it is about to fan one out.
FlagsAgree ==
    /\ shutdown => ~running
    /\ mpc # "run" => shutdown
    /\ bpc = "done" => ~running
    /\ bpc = "fan" => got # <<>>

\* Each handler at work has a message of its own, that arrived and is not over
\* yet, and it is that one which its node carries.
HandlersOwn ==
    \A h \in Handler :
        /\ hpc[h] = "push" => cur[h] \in (1..arrived) \ done
        /\ hpc[h] # "push" => ppc[h] = "out"
        /\ ppc[h] = "link" => msg[node[h]] = cur[h]
        /\ \A g \in Handler : hpc[h] = "push" /\ hpc[g] = "push" /\ cur[h] = cur[g] => h = g

\* What is handed out, queued, remembered or over has arrived: nothing is
\* invented, and the sentinel is in no queue.
OnlyArrived ==
    /\ got \in Seq(1..arrived)
    /\ Contents \in Seq(1..arrived)
    /\ \A r \in Room : room_history_format(r) \in Seq(1..arrived)
    /\ done \subseteq 1..arrived
    /\ \A p \in before : p[1] \in done /\ p[2] \in 1..arrived

\* OrderedByCalls, and of every room whether it exists or not.
Ordered ==
    \A p \in before :
        /\ ~Precedes(got \o Contents, p[2], p[1])
        /\ \A r \in Room : ~Precedes(room_history_format(r), p[2], p[1])

PathInv ==
    /\ MQInv /\ RMInv /\ TypeOK
    /\ FlagsAgree /\ HandlersOwn /\ OnlyArrived /\ Ordered

USE DEF listVars, nodeVars, pushVars, popVars, mqVars, rmVars, pathVars

-----------------------------------------------------------------------------
(* The order of two messages in a sequence.                                *)

\* A message appended to a sequence comes before nothing in it.
LEMMA PrecedesAppend ==
    ASSUME NEW X, NEW s \in Seq(X), NEW m \in X, NEW a, NEW b,
           ~Precedes(s, a, b), m # b
    PROVE  ~Precedes(Append(s, m), a, b)
<1>1. /\ Len(s) \in Nat /\ Len(Append(s, m)) = Len(s) + 1
      /\ \A i \in 1..Len(s) : Append(s, m)[i] = s[i]
      /\ Append(s, m)[Len(s) + 1] = m
  BY AppendProperties, LenProperties
<1>2. ASSUME NEW i \in 1..(Len(s) + 1), NEW j \in 1..(Len(s) + 1), i < j,
             Append(s, m)[i] = a, Append(s, m)[j] = b
      PROVE  FALSE
  <2>1. j # Len(s) + 1
    BY <1>1, <1>2
  <2>2. i \in 1..Len(s) /\ j \in 1..Len(s)
    BY <1>1, <1>2, <2>1
  <2> QED BY <1>1, <1>2, <2>2 DEF Precedes
<1> QED BY <1>1, <1>2 DEF Precedes

LEMMA PrecedesTail ==
    ASSUME NEW X, NEW s \in Seq(X), s # <<>>, NEW a, NEW b, ~Precedes(s, a, b)
    PROVE  ~Precedes(Tail(s), a, b)
<1>1. /\ Len(s) \in Nat \ {0} /\ Len(Tail(s)) = Len(s) - 1
      /\ \A i \in 1..(Len(s) - 1) : Tail(s)[i] = s[i + 1]
  BY HeadTailProperties, EmptySeq
<1>2. ASSUME NEW i \in 1..(Len(s) - 1), NEW j \in 1..(Len(s) - 1), i < j,
             Tail(s)[i] = a, Tail(s)[j] = b
      PROVE  FALSE
  <2>1. i + 1 \in 1..Len(s) /\ j + 1 \in 1..Len(s) /\ i + 1 < j + 1
    BY <1>1, <1>2
  <2>2. s[i + 1] = a /\ s[j + 1] = b
    BY <1>1, <1>2
  <2> QED BY <2>1, <2>2 DEF Precedes
<1> QED BY <1>1, <1>2 DEF Precedes

LEMMA PrecedesPrefix ==
    ASSUME NEW X, NEW s \in Seq(X), NEW t \in Seq(X), NEW a, NEW b, ~Precedes(s \o t, a, b)
    PROVE  ~Precedes(s, a, b)
<1>1. /\ Len(s) \in Nat /\ Len(t) \in Nat /\ Len(s \o t) = Len(s) + Len(t)
      /\ \A i \in 1..(Len(s) + Len(t)) : (s \o t)[i] = IF i <= Len(s) THEN s[i] ELSE t[i - Len(s)]
  BY ConcatProperties, LenProperties
<1>2. \A i \in 1..Len(s) : i \in 1..Len(s \o t) /\ (s \o t)[i] = s[i]
  BY <1>1
<1> QED BY <1>2 DEF Precedes

\* What is not in a sequence comes before nothing in it.
LEMMA PrecedesAbsent ==
    ASSUME NEW X, NEW s \in Seq(X), NEW a, NEW b, a \notin X
    PROVE  ~Precedes(s, a, b)
<1>1. \A i \in 1..Len(s) : s[i] # a
  BY ElementOfSeq
<1> QED BY <1>1 DEF Precedes

\* Taking the first message of a queue and handing it out leaves the sequence of
\* both as it is; so does nothing else that a step does to the two but Append.
LEMMA TakeConcat ==
    ASSUME NEW X, NEW g \in Seq(X), NEW c \in Seq(X), c # <<>>
    PROVE  Append(g, Head(c)) \o Tail(c) = g \o c
<1> DEFINE h == Head(c)
           u == Append(g, h)
           v == Tail(c)
<1>1. /\ h \in X /\ h = c[1] /\ v \in Seq(X) /\ Len(v) = Len(c) - 1
      /\ \A i \in 1..Len(v) : v[i] = c[i + 1]
      /\ Len(c) \in Nat \ {0} /\ Len(g) \in Nat
  BY HeadTailProperties, EmptySeq, LenProperties
<1>2. /\ u \in Seq(X) /\ Len(u) = Len(g) + 1 /\ u[Len(g) + 1] = h
      /\ \A i \in 1..Len(g) : u[i] = g[i]
  BY <1>1, AppendProperties
<1> HIDE DEF h, u, v
<1>3. /\ u \o v \in Seq(X) /\ Len(u \o v) = Len(u) + Len(v)
      /\ \A i \in 1..(Len(u) + Len(v)) : (u \o v)[i] = IF i <= Len(u) THEN u[i] ELSE v[i - Len(u)]
  BY <1>1, <1>2, ConcatProperties
<1>4. /\ g \o c \in Seq(X) /\ Len(g \o c) = Len(g) + Len(c)
      /\ \A i \in 1..(Len(g) + Len(c)) : (g \o c)[i] = IF i <= Len(g) THEN g[i] ELSE c[i - Len(g)]
  BY ConcatProperties
<1>5. Len(u \o v) = Len(g \o c) /\ Len(u) + Len(v) = Len(g) + Len(c)
  BY <1>1, <1>2, <1>3, <1>4
<1>6. ASSUME NEW i \in 1..(Len(g) + Len(c))
      PROVE  (u \o v)[i] = (g \o c)[i]
  <2>1. CASE i <= Len(g)
    BY <1>1, <1>2, <1>3, <1>4, <1>5, <2>1
  <2>2. CASE i = Len(g) + 1
    BY <1>1, <1>2, <1>3, <1>4, <1>5, <2>2
  <2>3. CASE i > Len(g) + 1
    <3>1. i - Len(u) \in 1..Len(v) /\ i - Len(u) + 1 = i - Len(g)
      <4>1. Len(u) = Len(g) + 1 /\ Len(v) = Len(c) - 1 /\ Len(c) \in Nat /\ Len(g) \in Nat
        BY <1>1, <1>2
      <4> QED BY <2>3, <4>1
    <3>2. (u \o v)[i] = v[i - Len(u)]
      BY <1>1, <1>2, <1>3, <1>5, <2>3
    <3>3. v[i - Len(u)] = c[(i - Len(u)) + 1]
      BY <1>1, <3>1
    <3>4. (g \o c)[i] = c[i - Len(g)]
      BY <1>1, <1>4, <2>3
    <3> QED BY <3>1, <3>2, <3>3, <3>4
  <2>4. i <= Len(g) \/ i = Len(g) + 1 \/ i > Len(g) + 1
    BY <1>1
  <2> QED BY <2>1, <2>2, <2>3, <2>4
<1>7. u \o v = g \o c
  BY <1>3, <1>4, <1>5, <1>6, SeqEqual
<1> QED BY <1>7 DEF u, v, h

LEMMA PushConcat ==
    ASSUME NEW X, NEW g \in Seq(X), NEW c \in Seq(X), NEW m \in X
    PROVE  g \o Append(c, m) = Append(g \o c, m)
<1>1. <<m>> \in Seq(X) /\ g \o c \in Seq(X)
  BY ConcatProperties
<1>2. Append(c, m) = c \o <<m>> /\ Append(g \o c, m) = (g \o c) \o <<m>>
  BY <1>1, AppendIsConcat
<1>3. (g \o c) \o <<m>> = g \o (c \o <<m>>)
  BY <1>1, ConcatAssociative
<1> QED BY <1>2, <1>3

-----------------------------------------------------------------------------
(* What a step leaves alone.                                               *)

\* Thread u is where it was, and a node it is about to push carries what it did.
Undisturbed(u) == ppc'[u] = ppc[u] /\ (ppc[u] = "link" => msg'[node'[u]] = msg[node[u]])

\* A thread in mq_push() disturbs no other.
LEMMA PushLocal ==
    ASSUME MQInv, NEW t \in Thread,
           (\E m \in Msg : PushAlloc(t, m)) \/ PushFails(t) \/ PushLink(t) \/ PushRefused(t)
               \/ PushFree(t)
    PROVE  \A u \in Thread \ {t} : Undisturbed(u)
<1> SUFFICES ASSUME NEW u \in Thread \ {t}
             PROVE  Undisturbed(u)
  OBVIOUS
<1>1. ppc[u] # "out" => node[u] \in Node /\ node[u] \in heap
  BY ListFacts
<1>2. ASSUME NEW m \in Msg, PushAlloc(t, m)
      PROVE  Undisturbed(u)
  <2> DEFINE n == CHOOSE b \in Node : b \notin heap
  <2>1. n \in Node /\ n \notin heap
    BY <1>2 DEF MQInv, MQTypeOK, PushAlloc
  <2>2. /\ msg' = [msg EXCEPT ![n] = m] /\ node' = [node EXCEPT ![t] = n]
        /\ ppc' = [ppc EXCEPT ![t] = "link"]
    BY <1>2 DEF PushAlloc
  <2> HIDE DEF n
  <2> QED BY <1>1, <2>1, <2>2 DEF MQInv, MQTypeOK, Undisturbed
<1>3. CASE PushFails(t)
  BY <1>3 DEF PushFails, Undisturbed
<1>4. CASE PushLink(t) \/ PushRefused(t)
  BY <1>4 DEF PushLink, PushRefused, MQInv, MQTypeOK, Undisturbed
<1>5. CASE PushFree(t)
  <2>1. /\ ppc[t] = "refused" /\ Free({node[t]})
        /\ node' = [node EXCEPT ![t] = Null] /\ ppc' = [ppc EXCEPT ![t] = "out"]
    BY <1>5 DEF PushFree
  <2>2. ppc[u] # "out" => node[u] # node[t]
    BY DEF MQInv, NodesOwned
  <2>3. \A k \in Node : k # node[t] => msg'[k] = msg[k]
    BY <2>1 DEF Free
  <2> QED BY <1>1, <2>1, <2>2, <2>3 DEF MQInv, MQTypeOK, Undisturbed
<1> QED BY <1>2, <1>3, <1>4, <1>5

\* Neither do the broadcaster, the shutdown and the end.
LEMMA PopLocal ==
    ASSUME MQInv,
           PopCall \/ PopWait \/ PopSpurious \/ PopTake \/ PopFree \/ PopFails
               \/ mq_signal_shutdown \/ mq_destroy \/ UNCHANGED mqVars
    PROVE  \A u \in Thread : Undisturbed(u)
<1> SUFFICES ASSUME NEW u \in Thread
             PROVE  Undisturbed(u)
  OBVIOUS
<1>1. ppc[u] # "out" => node[u] \in Node /\ node[u] \notin Linked /\ node[u] # cnode
  BY ListFacts DEF MQInv, NodesOwned
<1>2. node' = node /\ ppc' = ppc
  BY DEF PopCall, PopWait, PopSpurious, PopTake, PopFree, PopFails, mq_signal_shutdown, mq_destroy
<1>3. CASE PopFree
  <2>1. \A k \in Node : k # cnode => msg'[k] = msg[k]
    BY <1>3 DEF PopFree, Free
  <2> QED BY <1>1, <1>2, <2>1 DEF Undisturbed
<1>4. CASE mq_destroy
  <2>1. \A k \in Node : k \notin Linked => msg'[k] = msg[k]
    BY <1>4 DEF mq_destroy, Free, Linked
  <2> QED BY <1>1, <1>2, <2>1 DEF Undisturbed
<1>5. CASE PopCall \/ PopWait \/ PopSpurious \/ PopTake \/ PopFails \/ mq_signal_shutdown
               \/ UNCHANGED mqVars
  <2>1. msg' = msg
    BY <1>5 DEF PopCall, PopWait, PopSpurious, PopTake, PopFails, mq_signal_shutdown
  <2> QED BY <1>2, <2>1 DEF Undisturbed
<1> QED BY <1>3, <1>4, <1>5

\* Nothing is pushed: the two sequences keep their messages, one of them moves
\* from the queue to what was handed out, or the queue is emptied.
NothingPushed ==
    \/ Contents' = Contents /\ got' = got
    \/ Contents # <<>> /\ Contents' = Tail(Contents) /\ got' = Append(got, Head(Contents))
    \/ Contents' = <<>> /\ got' = got

\* No history changes, or all are lost.
NothingStored ==
    \/ \A r \in Room : room_history_format(r)' = room_history_format(r)
    \/ \A r \in Room : room_history_format(r)' = <<>>

\* A step that neither pushes nor stores a message keeps the order of those that
\* were, whatever command it ends.
LEMMA NothingNew ==
    ASSUME PathInv, NothingPushed, NothingStored, UNCHANGED <<arrived, before>>,
           done \subseteq done', done' \subseteq 1..arrived
    PROVE  OnlyArrived' /\ Ordered'
<1> DEFINE X == 1..arrived
<1>1. /\ got \in Seq(X) /\ Contents \in Seq(X) /\ <<>> \in Seq(X)
      /\ \A r \in Room : room_history_format(r) \in Seq(X)
      /\ \A p \in before : p[1] \in done /\ p[2] \in X
  BY EmptySeq DEF PathInv, OnlyArrived
<1>2. /\ \A p \in before : ~Precedes(got \o Contents, p[2], p[1])
      /\ \A p \in before : \A r \in Room : ~Precedes(room_history_format(r), p[2], p[1])
  BY DEF PathInv, Ordered
<1>3. /\ Contents' \in Seq(X) /\ got' \in Seq(X)
      /\ \A p \in before : ~Precedes(got' \o Contents', p[2], p[1])
  <2>1. CASE Contents' = Contents /\ got' = got
    BY <1>1, <1>2, <2>1
  <2>2. CASE Contents # <<>> /\ Contents' = Tail(Contents) /\ got' = Append(got, Head(Contents))
    <3>1. Head(Contents) \in X /\ Tail(Contents) \in Seq(X)
      BY <1>1, <2>2, HeadTailProperties
    <3>2. got' \in Seq(X)
      BY <1>1, <2>2, <3>1, AppendProperties
    <3>3. got' \o Contents' = got \o Contents
      BY <1>1, <2>2, TakeConcat
    <3> QED BY <1>2, <2>2, <3>1, <3>2, <3>3
  <2>3. CASE Contents' = <<>> /\ got' = got
    <3>1. got' \o Contents' = got
      BY <1>1, <2>3, ConcatEmptySeq
    <3>2. \A p \in before : ~Precedes(got, p[2], p[1])
      BY <1>1, <1>2, PrecedesPrefix
    <3> QED BY <1>1, <2>3, <3>1, <3>2
  <2> QED BY <2>1, <2>2, <2>3 DEF NothingPushed
<1>4. \A r \in Room : /\ room_history_format(r)' \in Seq(X)
                      /\ \A p \in before : ~Precedes(room_history_format(r)', p[2], p[1])
  <2>1. \A a, b : ~Precedes(<<>>, a, b)
    BY DEF Precedes
  <2> QED BY <1>1, <1>2, <2>1 DEF NothingStored
<1>6. OnlyArrived'
  BY <1>1, <1>3, <1>4 DEF OnlyArrived
<1>7. Ordered'
  BY <1>3, <1>4 DEF Ordered, Precedes
<1> QED BY <1>6, <1>7

-----------------------------------------------------------------------------
(* The steps of the handlers.                                              *)

\* What a step is to the two abstract specifications.
QueueStep == BQ!BQNext \/ UNCHANGED BQ!bqVars
LogStep == RL!RLNext \/ UNCHANGED RL!logVars

LEMMA Threads ==
    /\ Handler \subseteq Thread /\ MainThread \in Thread /\ MainThread \notin Handler
    /\ Entry \subseteq Msg /\ Sentinel \in Msg /\ Sentinel \notin Entry /\ Null \notin Entry
    /\ MaxMsgs \in Nat /\ Entry = 1..MaxMsgs
BY PathAssumption, NullAssumption

\* The rooms stay as they are.
LEMMA RoomsKept ==
    ASSUME PathInv, UNCHANGED rmVars
    PROVE  RMInv' /\ NothingStored /\ LogStep
<1>1. RMInv' /\ UNCHANGED <<rooms, Logs>>
  BY RMStutter DEF PathInv
<1>2. \A r \in Room : room_history_format(r)' = room_history_format(r)
  BY DEF room_history_format
<1> QED BY <1>1, <1>2 DEF NothingStored, LogStep, RL!logVars, Logs

\* A step that moves no handler.
LEMMA HandlersKept ==
    ASSUME PathInv, UNCHANGED <<hpc, cur, arrived, done>>, \A h \in Handler : Undisturbed(h)
    PROVE  HandlersOwn'
<1>1. \A h \in Handler : /\ ppc'[h] = ppc[h]
                         /\ ppc[h] = "link" => msg'[node'[h]] = msg[node[h]]
  BY DEF Undisturbed
<1> QED BY <1>1 DEF PathInv, HandlersOwn

\* A command that ends.
LEMMA ReturnStep ==
    ASSUME PathInv, NEW h \in Handler, Return(h), ppc'[h] = "out",
           \A u \in Thread \ {h} : Undisturbed(u)
    PROVE  /\ HandlersOwn'
           /\ done' \subseteq 1..arrived /\ done \subseteq done' /\ done' \subseteq Entry
           /\ hpc' \in [Handler -> {"recv", "push", "end"}]
           /\ cur' \in [Handler -> Entry \cup {Null}]
           /\ UNCHANGED <<rmVars, running, arrived, bpc, mpc, before>>
<1>1. /\ hpc[h] = "push" /\ hpc' = [hpc EXCEPT ![h] = IF running THEN "recv" ELSE "end"]
      /\ done' = done \cup {cur[h]} /\ cur' = [cur EXCEPT ![h] = Null]
      /\ UNCHANGED <<rmVars, running, arrived, bpc, mpc, before>>
  BY DEF Return
<1>2. /\ hpc \in [Handler -> {"recv", "push", "end"}] /\ cur \in [Handler -> Entry \cup {Null}]
      /\ arrived \in 0..MaxMsgs /\ done \subseteq Entry
  BY DEF PathInv, TypeOK
<1>3. hpc'[h] # "push" /\ cur[h] \in (1..arrived) \ done
  BY <1>1, <1>2 DEF PathInv, HandlersOwn
<1>4. /\ done' \subseteq 1..arrived /\ done \subseteq done' /\ done' \subseteq Entry
      /\ hpc' \in [Handler -> {"recv", "push", "end"}]
      /\ cur' \in [Handler -> Entry \cup {Null}]
  <2>1. done \subseteq 1..arrived /\ 1..arrived \subseteq Entry
    BY <1>2, Threads DEF PathInv, OnlyArrived
  <2>2. done' \subseteq 1..arrived /\ done \subseteq done' /\ done' \subseteq Entry
    BY <1>1, <1>3, <2>1
  <2>3. hpc' \in [Handler -> {"recv", "push", "end"}]
    BY <1>1, <1>2
  <2>4. cur' \in [Handler -> Entry \cup {Null}]
    BY <1>1, <1>2
  <2> QED BY <2>2, <2>3, <2>4
<1>5. ASSUME NEW g \in Handler, g # h
      PROVE  /\ hpc'[g] = hpc[g] /\ cur'[g] = cur[g] /\ ppc'[g] = ppc[g]
             /\ ppc[g] = "link" => msg'[node'[g]] = msg[node[g]]
             /\ hpc[g] = "push" => cur[g] # cur[h]
  <2>1. Undisturbed(g)
    BY <1>5, Threads
  <2> QED BY <1>1, <1>2, <1>5, <2>1 DEF Undisturbed, PathInv, HandlersOwn
<1>6. HandlersOwn'
  <2>1. \A g \in Handler : g # h =>
           /\ hpc'[g] = "push" => cur'[g] \in (1..arrived') \ done'
           /\ hpc'[g] # "push" => ppc'[g] = "out"
           /\ ppc'[g] = "link" => msg'[node'[g]] = cur'[g]
    BY <1>1, <1>5 DEF PathInv, HandlersOwn
  <2>2. \A f, g \in Handler :
           hpc'[f] = "push" /\ hpc'[g] = "push" /\ cur'[f] = cur'[g] => f = g
    BY <1>3, <1>5 DEF PathInv, HandlersOwn
  <2> QED BY <1>3, <2>1, <2>2 DEF HandlersOwn
<1> QED BY <1>1, <1>4, <1>6

\* cmd_handle_msg() begins: the message goes into the history of a room.
LEMMA MsgStoreStep ==
    ASSUME PathInv, NEW h \in Handler, MsgStore(h)
    PROVE  PathInv' /\ QueueStep /\ LogStep
<1> DEFINE new == arrived + 1
           X == 1..arrived
           Y == 1..new
<1>1. /\ hpc[h] = "recv" /\ arrived < MaxMsgs /\ arrived' = new
      /\ cur' = [cur EXCEPT ![h] = new] /\ hpc' = [hpc EXCEPT ![h] = "push"]
      /\ before' = before \cup (done \X {new})
      /\ UNCHANGED <<mqVars, running, bpc, mpc, done>>
  BY DEF MsgStore
<1>2. PICK r \in Room : room_history_add(r, new) \/ room_history_add_fails(r)
  BY DEF MsgStore
<1>3. TypeOK /\ MQInv /\ RMInv /\ FlagsAgree /\ HandlersOwn /\ OnlyArrived /\ Ordered
  BY DEF PathInv
<1>4. /\ arrived \in Nat /\ new \in Nat /\ new \in Entry /\ new \in Y /\ new \notin X
      /\ X \subseteq Y /\ Y \subseteq Entry
  BY <1>1, <1>3, Threads DEF TypeOK
<1> HIDE DEF new, X, Y
<1>5. MQInv' /\ SameQueue
  BY <1>1, <1>3, MQStutter
<1>6. RMInv' /\ LogStep
  BY <1>2, <1>3, <1>4, RoomAddStep, RMStutter
     DEF room_history_add_fails, LogStep, RL!RLNext, RL!logVars, Logs
<1>7. X = 1..arrived /\ Y = 1..arrived'
  BY <1>1 DEF X, Y, new
<1>8. \A q \in Room : \/ room_history_format(q)' = room_history_format(q)
                      \/ room_history_format(q)' = Append(room_history_format(q), new)
                      \/ room_history_format(q)' = Tail(Append(room_history_format(q), new))
  <2>1. CASE room_history_add(r, new)
    <3>1. RL!Store(r, new)
      BY <1>3, <1>4, <2>1, RoomAddStep
    <3>2. Logs' = [Logs EXCEPT ![r] = RL!Latest(Append(Logs[r], new))]
      BY <3>1 DEF RL!Store, Logs
    <3>3. \A q \in Room : Logs[q] = room_history_format(q) /\ Logs'[q] = room_history_format(q)'
      BY DEF Logs
    <3>4. \A q \in Room :
             Logs'[q] = IF q = r THEN RL!Latest(Append(Logs[r], new)) ELSE Logs[q]
      BY <3>2 DEF Logs
    <3> QED BY <3>3, <3>4 DEF RL!Latest
  <2>2. CASE room_history_add_fails(r)
    BY <2>2 DEF room_history_add_fails, room_history_format
  <2> QED BY <1>2, <2>1, <2>2
<1>9. OnlyArrived' /\ Ordered'
  <2>1. /\ got \in Seq(X) /\ Contents \in Seq(X) /\ got \o Contents \in Seq(X)
        /\ \A q \in Room : room_history_format(q) \in Seq(X)
    BY <1>3, <1>7, ConcatProperties DEF OnlyArrived
  <2>2. /\ got \in Seq(Y) /\ Contents \in Seq(Y)
        /\ \A q \in Room : room_history_format(q) \in Seq(Y)
    BY <1>4, <2>1, SeqMonotonic
  <2>3. \A p \in before' : p[1] \in done /\ p[2] \in Y /\ p[1] # new /\ p[1] \in X
    BY <1>1, <1>3, <1>4, <1>7 DEF OnlyArrived
  <2>4. ASSUME NEW p \in before'
        PROVE  /\ ~Precedes(got \o Contents, p[2], p[1])
               /\ \A q \in Room : ~Precedes(room_history_format(q), p[2], p[1])
    <3>1. CASE p \in before
      BY <1>3, <3>1 DEF Ordered
    <3>2. CASE p \notin before
      <4>1. p[2] = new
        BY <1>1, <3>2
      <4> QED BY <1>4, <2>1, <4>1, PrecedesAbsent
    <3> QED BY <3>1, <3>2
  <2>5. ASSUME NEW q \in Room
        PROVE  /\ room_history_format(q)' \in Seq(Y)
               /\ \A p \in before' : ~Precedes(room_history_format(q)', p[2], p[1])
    <3> DEFINE old == room_history_format(q)
    <3>1. /\ old \in Seq(Y) /\ Append(old, new) \in Seq(Y) /\ Append(old, new) # <<>>
          /\ Tail(Append(old, new)) \in Seq(Y)
      BY <1>4, <2>2, AppendProperties, HeadTailProperties
    <3>2. ASSUME NEW p \in before'
          PROVE  /\ ~Precedes(old, p[2], p[1])
                 /\ ~Precedes(Append(old, new), p[2], p[1])
                 /\ ~Precedes(Tail(Append(old, new)), p[2], p[1])
      <4>1. ~Precedes(old, p[2], p[1]) /\ p[1] # new
        BY <2>3, <2>4
      <4>2. ~Precedes(Append(old, new), p[2], p[1])
        BY <1>4, <3>1, <4>1, PrecedesAppend
      <4> QED BY <3>1, <4>1, <4>2, PrecedesTail
    <3> QED BY <1>8, <3>1, <3>2
  <2>6. OnlyArrived'
    BY <1>1, <1>3, <1>4, <1>5, <1>7, <2>2, <2>3, <2>5 DEF OnlyArrived, SameQueue
  <2>7. Ordered'
    BY <1>5, <2>4, <2>5 DEF Ordered, Precedes, SameQueue
  <2> QED BY <2>6, <2>7
<1>10. HandlersOwn'
  <2>1. \A g \in Handler : /\ hpc'[g] = (IF g = h THEN "push" ELSE hpc[g])
                           /\ cur'[g] = (IF g = h THEN new ELSE cur[g])
    BY <1>1, <1>3 DEF TypeOK
  <2>2. \A g \in Handler : hpc[g] = "push" => cur[g] \in X \ done
    BY <1>3, <1>7 DEF HandlersOwn
  <2>3. new \in Y \ done
    BY <1>3, <1>4, <1>7 DEF OnlyArrived
  <2>4. ppc[h] = "out"
    BY <1>1, <1>3 DEF HandlersOwn
  <2> QED BY <1>1, <1>3, <1>4, <1>7, <2>1, <2>2, <2>3, <2>4 DEF HandlersOwn
<1>11. TypeOK'
  <2>1. before' \subseteq Entry \X Entry
    BY <1>1, <1>3, <1>4 DEF TypeOK
  <2>2. arrived' \in 0..MaxMsgs
    BY <1>1, <1>4, Threads
  <2>3. hpc' \in [Handler -> {"recv", "push", "end"}] /\ cur' \in [Handler -> Entry \cup {Null}]
    BY <1>1, <1>3, <1>4 DEF TypeOK
  <2> QED BY <1>1, <1>3, <1>5, <1>6, <2>1, <2>2, <2>3 DEF TypeOK, MQInv, RMInv
<1>12. FlagsAgree'
  BY <1>1, <1>3 DEF FlagsAgree
<1>13. QueueStep
  BY <1>5 DEF QueueStep, SameQueue, BQ!bqVars
<1> QED BY <1>5, <1>6, <1>9, <1>10, <1>11, <1>12, <1>13 DEF PathInv

\* The steps of mq_push() that leave the list as it is: malloc() for the node,
\* with success or without, the refusal, and free() of the refused node.
LEMMA MsgQuietStep ==
    ASSUME PathInv, NEW h \in Handler,
           MsgAlloc(h) \/ MsgNoMemory(h) \/ MsgRefused(h) \/ MsgFreed(h)
    PROVE  PathInv' /\ QueueStep /\ LogStep
<1>1. TypeOK /\ MQInv /\ RMInv /\ FlagsAgree /\ HandlersOwn /\ OnlyArrived
  BY DEF PathInv
<1>2. h \in Thread
  BY Threads
<1>3. /\ MQInv' /\ SameQueue
      /\ \A u \in Thread \ {h} : Undisturbed(u)
  <2>1. CASE MsgAlloc(h)
    <3>1. cur[h] \in Msg /\ PushAlloc(h, cur[h])
      BY <1>1, <2>1, Threads DEF MsgAlloc, HandlersOwn, TypeOK, OnlyArrived
    <3> QED BY <1>1, <1>2, <3>1, PushAllocStep, PushLocal
  <2>2. CASE MsgNoMemory(h)
    <3>1. PushFails(h)
      BY <2>2 DEF MsgNoMemory
    <3> QED BY <1>1, <1>2, <3>1, MQStutter, PushLocal DEF PushFails
  <2>3. CASE MsgRefused(h)
    <3>1. PushRefused(h)
      BY <2>3 DEF MsgRefused
    <3> QED BY <1>1, <1>2, <3>1, PushRefusedStep, PushLocal
  <2>4. CASE MsgFreed(h)
    <3>1. PushFree(h)
      BY <2>4 DEF MsgFreed
    <3> QED BY <1>1, <1>2, <3>1, PushFreeStep, PushLocal
  <2> QED BY <2>1, <2>2, <2>3, <2>4
<1>4. /\ UNCHANGED <<rmVars, running, arrived, bpc, mpc, before>>
      /\ done \subseteq done' /\ done' \subseteq 1..arrived /\ done' \subseteq Entry
      /\ hpc' \in [Handler -> {"recv", "push", "end"}] /\ cur' \in [Handler -> Entry \cup {Null}]
      /\ HandlersOwn'
  <2>1. CASE MsgAlloc(h) \/ MsgRefused(h)
    <3>1. UNCHANGED <<rmVars, running, hpc, cur, arrived, bpc, mpc, done, before>> /\ hpc[h] = "push"
      BY <2>1 DEF MsgAlloc, MsgRefused
    <3>2. HandlersOwn'
      <4>1. \A g \in Handler \ {h} : ppc'[g] = ppc[g] /\ (ppc[g] = "link" => msg'[node'[g]] = msg[node[g]])
        BY <1>3, Threads DEF Undisturbed
      <4>2. ppc'[h] = "link" => msg'[node'[h]] = cur[h]
        <5>1. CASE MsgAlloc(h)
          <6>1. PushAlloc(h, cur[h])
            BY <5>1 DEF MsgAlloc
          <6> DEFINE n == CHOOSE b \in Node : b \notin heap
          <6>2. n \in Node /\ msg' = [msg EXCEPT ![n] = cur[h]] /\ node' = [node EXCEPT ![h] = n]
            BY <1>1, <6>1 DEF PushAlloc, MQInv, MQTypeOK
          <6> HIDE DEF n
          <6> QED BY <1>1, <1>2, <6>2 DEF MQInv, MQTypeOK
        <5>2. CASE MsgRefused(h)
          BY <1>1, <1>2, <5>2 DEF MsgRefused, PushRefused, MQInv, MQTypeOK
        <5> QED BY <2>1, <5>1, <5>2
      <4> QED BY <1>1, <3>1, <4>1, <4>2 DEF HandlersOwn
    <3>3. done \subseteq 1..arrived
      BY <1>1 DEF OnlyArrived
    <3> QED BY <1>1, <3>1, <3>2, <3>3 DEF TypeOK
  <2>2. CASE MsgNoMemory(h) \/ MsgFreed(h)
    <3>1. Return(h) /\ ppc'[h] = "out"
      BY <1>1, <1>2, <2>2 DEF MsgNoMemory, PushFails, MsgFreed, PushFree, MQInv, MQTypeOK
    <3> QED BY <1>3, <3>1, ReturnStep
  <2> QED BY <2>1, <2>2
<1>5. RMInv' /\ NothingStored /\ LogStep
  BY <1>4, RoomsKept
<1>6. OnlyArrived' /\ Ordered'
  BY <1>3, <1>4, <1>5, NothingNew DEF NothingPushed, SameQueue
<1>7. TypeOK'
  BY <1>1, <1>3, <1>4, <1>5 DEF TypeOK, MQInv, RMInv
<1>8. FlagsAgree'
  BY <1>1, <1>3, <1>4 DEF FlagsAgree, SameQueue
<1>9. QueueStep
  BY <1>3 DEF QueueStep, SameQueue, BQ!bqVars
<1> QED BY <1>3, <1>4, <1>5, <1>6, <1>7, <1>8, <1>9 DEF PathInv

\* The critical section of mq_push(): the message of the command joins the queue
\* and the command ends.  It is not over yet when it does, so no message that
\* came after a finished one passes it.
LEMMA MsgQueuedStep ==
    ASSUME PathInv, NEW h \in Handler, MsgQueued(h)
    PROVE  PathInv' /\ QueueStep /\ LogStep
<1> DEFINE m == cur[h]
           X == 1..arrived
<1>1. TypeOK /\ MQInv /\ RMInv /\ FlagsAgree /\ HandlersOwn /\ OnlyArrived /\ Ordered
  BY DEF PathInv
<1>2. h \in Thread /\ PushLink(h) /\ Return(h)
  BY Threads DEF MsgQueued
<1>3. /\ MQInv' /\ ~shutdown /\ got' = got /\ shutdown' = shutdown
      /\ Contents' = Append(Contents, msg[node[h]]) /\ msg[node[h]] \in Msg
  BY <1>1, <1>2, PushLinkStep
<1>4. ppc[h] = "link" /\ ppc'[h] = "out" /\ hpc[h] = "push"
  BY <1>1, <1>2 DEF PushLink, Return, MQInv, MQTypeOK
<1>5. msg[node[h]] = m /\ m \in X /\ m \notin done /\ m \in Entry
  <2>1. msg[node[h]] = m /\ m \in X \ done
    BY <1>1, <1>4 DEF HandlersOwn
  <2> QED BY <1>1, <2>1, Threads DEF TypeOK
<1>6. \A u \in Thread \ {h} : Undisturbed(u)
  BY <1>1, <1>2, PushLocal
<1>7. /\ UNCHANGED <<rmVars, running, arrived, bpc, mpc, before>>
      /\ done \subseteq done' /\ done' \subseteq X /\ done' \subseteq Entry
      /\ hpc' \in [Handler -> {"recv", "push", "end"}] /\ cur' \in [Handler -> Entry \cup {Null}]
      /\ HandlersOwn'
  BY <1>2, <1>4, <1>6, ReturnStep
<1>8. RMInv' /\ NothingStored /\ LogStep
  BY <1>7, RoomsKept
<1>9. \A r \in Room : room_history_format(r)' = room_history_format(r)
  BY <1>7 DEF room_history_format
<1> HIDE DEF m, X
<1>10. OnlyArrived' /\ Ordered'
  <2>1. /\ got \in Seq(X) /\ Contents \in Seq(X) /\ got \o Contents \in Seq(X)
        /\ \A r \in Room : room_history_format(r) \in Seq(X)
        /\ \A p \in before : p[1] \in done /\ p[2] \in X
    BY <1>1, ConcatProperties DEF OnlyArrived, X
  <2>2. /\ Contents' \in Seq(X)
        /\ got' \o Contents' = Append(got \o Contents, m)
    BY <1>3, <1>5, <2>1, AppendProperties, PushConcat
  <2>3. ASSUME NEW p \in before
        PROVE  ~Precedes(got' \o Contents', p[2], p[1])
    <3>1. ~Precedes(got \o Contents, p[2], p[1]) /\ p[1] # m
      BY <1>1, <1>5, <2>1 DEF Ordered
    <3> QED BY <1>5, <2>1, <2>2, <3>1, PrecedesAppend
  <2>4. OnlyArrived'
    BY <1>3, <1>7, <1>9, <2>1, <2>2 DEF OnlyArrived, X
  <2>5. Ordered'
    BY <1>1, <1>7, <1>9, <2>3 DEF Ordered, Precedes
  <2> QED BY <2>4, <2>5
<1>11. TypeOK'
  BY <1>1, <1>3, <1>7, <1>8 DEF TypeOK, MQInv, RMInv
<1>12. FlagsAgree'
  BY <1>1, <1>3, <1>7 DEF FlagsAgree
<1>13. QueueStep
  BY <1>3, <1>5 DEF QueueStep, BQ!BQNext, BQ!Push
<1> QED BY <1>3, <1>7, <1>8, <1>10, <1>11, <1>12, <1>13 DEF PathInv

-----------------------------------------------------------------------------
(* The steps of the broadcaster and of the main thread.                    *)

\* A step in which no message is stored or pushed and no command begins or ends
\* keeps the invariant, if it keeps that of the queue and the agreement of flags.
LEMMA ServiceStep ==
    ASSUME PathInv, UNCHANGED <<hpc, cur, arrived, done, before>>,
           MQInv', RMInv', NothingPushed, NothingStored, FlagsAgree',
           \A u \in Thread : u # MainThread => Undisturbed(u),
           running' \in BOOLEAN, bpc' \in {"loop", "mq_pop", "fan", "done"},
           mpc' \in {"run", "sentinel", "push", "join", "rooms", "end"}
    PROVE  PathInv'
<1>1. OnlyArrived' /\ Ordered'
  <2>1. done' \subseteq 1..arrived
    BY DEF PathInv, OnlyArrived
  <2> QED BY <2>1, NothingNew
<1>2. HandlersOwn'
  BY HandlersKept, Threads
<1>3. TypeOK'
  BY DEF PathInv, TypeOK, MQInv, RMInv
<1> QED BY <1>1, <1>2, <1>3 DEF PathInv

\* Only the queue and the two service threads move.
LEMMA BroadcasterStep ==
    ASSUME PathInv, Broadcaster \/ Spurious
    PROVE  PathInv' /\ QueueStep /\ LogStep
<1>1. TypeOK /\ MQInv /\ FlagsAgree /\ OnlyArrived
  BY DEF PathInv
<1>2. UNCHANGED <<rmVars, running, hpc, cur, arrived, mpc, done, before>>
  BY DEF Broadcaster, FanLoop, FanPops, FanOut, OnlyBroadcasts, Spurious
<1>3. RMInv' /\ NothingStored /\ LogStep
  BY <1>2, RoomsKept
<1>4. CASE UNCHANGED mqVars /\ (FanLoop \/ FanOut)
  <2>1. MQInv' /\ SameQueue /\ \A u \in Thread : Undisturbed(u)
    BY <1>1, <1>4, MQStutter, PopLocal
  <2>2. FlagsAgree' /\ bpc' \in {"loop", "mq_pop", "fan", "done"}
    <3>1. CASE FanLoop
      BY <1>1, <1>2, <1>4, <3>1, <2>1 DEF FanLoop, PopCall, FlagsAgree, SameQueue
    <3>2. CASE FanOut
      <4>1. got # <<>> /\ got[Len(got)] \in 1..arrived
        <5>1. got # <<>> /\ got \in Seq(1..arrived)
          BY <1>1, <3>2 DEF FanOut, FlagsAgree, OnlyArrived
        <5>2. Len(got) \in 1..Len(got)
          BY <5>1, EmptySeq
        <5> QED BY <5>1, <5>2, ElementOfSeq
      <4>2. got[Len(got)] # Sentinel
        BY <1>1, <4>1, Threads DEF TypeOK
      <4>3. bpc' = "loop"
        BY <3>2, <4>2 DEF FanOut
      <4> QED BY <1>1, <1>2, <1>4, <4>3 DEF FlagsAgree
    <3> QED BY <1>4, <3>1, <3>2
  <2>3. NothingPushed /\ QueueStep
    BY <2>1 DEF SameQueue, NothingPushed, QueueStep, BQ!bqVars
  <2>4. running' \in BOOLEAN /\ mpc' \in {"run", "sentinel", "push", "join", "rooms", "end"}
    BY <1>1, <1>2 DEF TypeOK
  <2> QED BY <1>2, <1>3, <2>1, <2>2, <2>3, <2>4, ServiceStep
<1>5. CASE PopTake /\ FanPops
  <2>1. /\ MQInv' /\ Contents # <<>> /\ Contents' = Tail(Contents)
        /\ got' = Append(got, Head(Contents)) /\ shutdown' = shutdown
        /\ \A u \in Thread : Undisturbed(u)
    BY <1>1, <1>5, PopTakeStep, PopLocal
  <2>2. bpc = "mq_pop" /\ bpc' = bpc
    BY <1>5 DEF FanPops, PopTake, PopWait, PopFree, PopFails, Holding, MustWait
  <2>3. NothingPushed /\ QueueStep
    BY <2>1 DEF NothingPushed, QueueStep, BQ!BQNext, BQ!Pop
  <2>4. FlagsAgree'
    BY <1>1, <1>2, <2>1, <2>2 DEF FlagsAgree
  <2>5. running' \in BOOLEAN /\ mpc' \in {"run", "sentinel", "push", "join", "rooms", "end"}
    BY <1>1, <1>2 DEF TypeOK
  <2> QED BY <1>2, <1>3, <2>1, <2>2, <2>3, <2>4, <2>5, ServiceStep
<1>6. CASE \/ PopCall /\ FanLoop
           \/ PopWait /\ FanPops /\ bpc' = bpc
           \/ PopFree /\ FanPops /\ bpc' = "fan"
           \/ PopFails /\ FanPops /\ bpc' = "done"
           \/ Spurious
  <2>1. MQInv' /\ SameQueue /\ \A u \in Thread : Undisturbed(u)
    BY <1>1, <1>6, PopQuietStep, PopFreeStep, PopLocal DEF Spurious
  <2>2. PopFree => got # <<>>
    BY <1>1 DEF PopFree, MQInv, Held
  <2>3. PopFails => shutdown
    BY <1>1 DEF PopFails, MustWait, MQInv, MQTypeOK
  <2>4. PopCall /\ FanLoop => bpc' = "mq_pop"
    BY DEF FanLoop, PopCall
  <2>5. PopWait /\ FanPops => bpc = "mq_pop"
    BY DEF FanPops
  <2>6. bpc' \in {"loop", "mq_pop", "fan", "done"}
    BY <1>1, <1>6, <2>4 DEF Spurious, TypeOK
  <2>7. FlagsAgree'
    BY <1>1, <1>2, <1>6, <2>1, <2>2, <2>3, <2>4 DEF FlagsAgree, SameQueue, Spurious
  <2>8. NothingPushed /\ QueueStep
    BY <2>1 DEF SameQueue, NothingPushed, QueueStep, BQ!bqVars
  <2>9. running' \in BOOLEAN /\ mpc' \in {"run", "sentinel", "push", "join", "rooms", "end"}
    BY <1>1, <1>2 DEF TypeOK
  <2> QED BY <1>2, <1>3, <2>1, <2>6, <2>7, <2>8, <2>9, ServiceStep
<1> QED BY <1>1, <1>4, <1>5, <1>6 DEF Broadcaster, FanLoop, FanPops, FanOut

\* Between the signal and the end of main().
LEMMA MainThreadStep ==
    ASSUME PathInv, Signal \/ MainStep
    PROVE  PathInv' /\ QueueStep /\ LogStep
<1>1. TypeOK /\ MQInv /\ RMInv /\ FlagsAgree
  BY DEF PathInv
<1>2. UNCHANGED <<hpc, cur, arrived, done, before>>
  BY DEF Signal, MainStep, ShutdownFlag, ShutdownSentinel, DestroyQueue, DestroyRooms, OnlyMain
<1>3. running' \in BOOLEAN /\ bpc' = bpc /\ bpc' \in {"loop", "mq_pop", "fan", "done"}
  BY <1>1 DEF Signal, MainStep, ShutdownFlag, ShutdownSentinel, DestroyQueue, DestroyRooms, OnlyMain,
              TypeOK
<1>4. mpc' \in {"run", "sentinel", "push", "join", "rooms", "end"}
  BY <1>1 DEF Signal, MainStep, ShutdownFlag, ShutdownSentinel, DestroyQueue, DestroyRooms, TypeOK
<1>5. CASE Signal
  <2>1. MQInv' /\ SameQueue /\ \A u \in Thread : Undisturbed(u)
    BY <1>1, <1>5, MQStutter, PopLocal DEF Signal
  <2>2. RMInv' /\ NothingStored /\ LogStep
    BY <1>5, RoomsKept DEF Signal
  <2>3. FlagsAgree'
    BY <1>1, <1>5, <2>1 DEF Signal, FlagsAgree, SameQueue
  <2>4. NothingPushed /\ QueueStep
    BY <2>1 DEF SameQueue, NothingPushed, QueueStep, BQ!bqVars
  <2> QED BY <1>2, <1>3, <1>4, <2>1, <2>2, <2>3, <2>4, ServiceStep
<1>6. CASE ShutdownFlag
  <2>1. MQInv' /\ Contents' = Contents /\ got' = got /\ shutdown' /\ \A u \in Thread : Undisturbed(u)
    BY <1>1, <1>6, SignalShutdownStep, PopLocal DEF ShutdownFlag
  <2>2. RMInv' /\ NothingStored /\ LogStep
    BY <1>6, RoomsKept DEF ShutdownFlag
  <2>3. FlagsAgree'
    BY <1>1, <1>6, <2>1 DEF ShutdownFlag, OnlyMain, FlagsAgree
  <2>4. shutdown' = TRUE
    BY <1>6 DEF ShutdownFlag, mq_signal_shutdown
  <2>5. NothingPushed /\ QueueStep
    BY <2>1, <2>4 DEF NothingPushed, QueueStep, BQ!BQNext, BQ!Close
  <2> QED BY <1>2, <1>3, <1>4, <2>1, <2>2, <2>3, <2>5, ServiceStep
<1>7. CASE ShutdownSentinel
  <2>1. \/ PushAlloc(MainThread, Sentinel)
        \/ PushFails(MainThread)
        \/ PushRefused(MainThread)
        \/ PushFree(MainThread)
    BY <1>7 DEF ShutdownSentinel
  <2>2. MQInv' /\ SameQueue
    BY <1>1, <2>1, Threads, PushAllocStep, PushRefusedStep, PushFreeStep, MQStutter DEF PushFails
  <2>3. \A u \in Thread : u # MainThread => Undisturbed(u)
    <3>1. \A u \in Thread \ {MainThread} : Undisturbed(u)
      BY <1>1, <2>1, Threads, PushLocal
    <3> QED BY <3>1
  <2>4. RMInv' /\ NothingStored /\ LogStep
    BY <1>7, RoomsKept DEF ShutdownSentinel
  <2>5. FlagsAgree'
    BY <1>1, <1>7, <2>2 DEF ShutdownSentinel, OnlyMain, FlagsAgree, SameQueue
  <2>6. NothingPushed /\ QueueStep
    BY <2>2 DEF SameQueue, NothingPushed, QueueStep, BQ!bqVars
  <2> QED BY <1>2, <1>3, <1>4, <2>2, <2>3, <2>4, <2>5, <2>6, ServiceStep
<1>8. CASE DestroyQueue
  <2>1. /\ MQInv' /\ Contents' = <<>> /\ got' = got /\ shutdown' = shutdown
        /\ \A u \in Thread : Undisturbed(u)
    BY <1>1, <1>8, DestroyStep, PopLocal DEF DestroyQueue
  <2>2. RMInv' /\ NothingStored /\ LogStep
    BY <1>8, RoomsKept DEF DestroyQueue
  <2>3. FlagsAgree' /\ shutdown
    BY <1>1, <1>8, <2>1 DEF DestroyQueue, OnlyMain, FlagsAgree
  <2>4. NothingPushed /\ QueueStep
    BY <2>1, <2>3 DEF NothingPushed, QueueStep, BQ!BQNext, BQ!Discard
  <2> QED BY <1>2, <1>3, <1>4, <2>1, <2>2, <2>3, <2>4, ServiceStep
<1>9. CASE DestroyRooms
  <2>1. MQInv' /\ SameQueue /\ \A u \in Thread : Undisturbed(u)
    BY <1>1, <1>9, MQStutter, PopLocal DEF DestroyRooms
  <2>2. RMInv' /\ RL!Forget
    BY <1>1, <1>9, RoomDestroyStep DEF DestroyRooms
  <2>3. \A r \in Room : room_history_format(r)' = <<>>
    BY <1>9 DEF DestroyRooms, room_manager_destroy, room_history_format
  <2>4. NothingStored /\ LogStep
    BY <2>2, <2>3 DEF NothingStored, LogStep, RL!RLNext
  <2>5. FlagsAgree'
    BY <1>1, <1>9, <2>1 DEF DestroyRooms, OnlyMain, FlagsAgree, SameQueue
  <2>6. NothingPushed /\ QueueStep
    BY <2>1 DEF SameQueue, NothingPushed, QueueStep, BQ!bqVars
  <2> QED BY <1>2, <1>3, <1>4, <2>1, <2>2, <2>4, <2>5, <2>6, ServiceStep
<1> QED BY <1>5, <1>6, <1>7, <1>8, <1>9 DEF MainStep

-----------------------------------------------------------------------------
(* The theorems.                                                           *)

LEMMA PathInit ==
    ASSUME Init
    PROVE  PathInv /\ BQ!BQInit /\ RL!RLInit
<1>1. MQInv /\ Contents = <<>> /\ got = <<>> /\ shutdown = FALSE
  BY MQInitStep DEF Init
<1>2. RMInv /\ RL!RLInit
  BY RMInitStep DEF Init
<1>3. TypeOK
  BY <1>1, <1>2, Threads DEF Init, TypeOK, MQInv, RMInv
<1>4. FlagsAgree
  BY <1>1 DEF Init, FlagsAgree
<1>5. HandlersOwn
  BY Threads DEF Init, HandlersOwn, MQInit
<1>6. \A r \in Room : room_history_format(r) = <<>>
  BY DEF Init, RMInit, room_history_format
<1>7. OnlyArrived /\ Ordered
  BY <1>1, <1>6, EmptySeq DEF Init, OnlyArrived, Ordered
<1> QED BY <1>1, <1>2, <1>3, <1>4, <1>5, <1>7 DEF PathInv, BQ!BQInit

LEMMA PathStep ==
    ASSUME PathInv, [Next]_vars
    PROVE  PathInv' /\ QueueStep /\ LogStep
<1>1. CASE UNCHANGED vars
  <2>1. UNCHANGED <<mqVars, rmVars, pathVars>>
    BY <1>1 DEF vars
  <2>2. MQInv' /\ SameQueue /\ \A u \in Thread : Undisturbed(u)
    BY <2>1, MQStutter, PopLocal DEF PathInv
  <2>3. RMInv' /\ NothingStored /\ LogStep
    BY <2>1, RoomsKept
  <2>4. FlagsAgree'
    BY <2>1 DEF PathInv, FlagsAgree
  <2>5. NothingPushed /\ QueueStep
    BY <2>2 DEF SameQueue, NothingPushed, QueueStep, BQ!bqVars
  <2>6. /\ running' \in BOOLEAN /\ bpc' \in {"loop", "mq_pop", "fan", "done"}
        /\ mpc' \in {"run", "sentinel", "push", "join", "rooms", "end"}
    BY <2>1 DEF PathInv, TypeOK
  <2> QED BY <2>1, <2>2, <2>3, <2>4, <2>5, <2>6, ServiceStep
<1>2. ASSUME NEW h \in Handler, MsgStore(h) \/ HandlerStep(h)
      PROVE  PathInv' /\ QueueStep /\ LogStep
  BY <1>2, MsgStoreStep, MsgQuietStep, MsgQueuedStep DEF HandlerStep
<1>3. CASE Broadcaster \/ Spurious
  BY <1>3, BroadcasterStep
<1>4. CASE Signal \/ MainStep
  BY <1>4, MainThreadStep
<1> QED BY <1>1, <1>2, <1>3, <1>4 DEF Next

\* The inductive invariant holds in every state.
THEOREM PathInvariant == Spec => []PathInv
<1>1. Init => PathInv
  BY PathInit
<1>2. PathInv /\ [Next]_vars => PathInv'
  BY PathStep
<1> QED BY <1>1, <1>2, PTL DEF Spec

\* The variables of the queue, the rooms and the threads keep their types: the
\* ring's indices stay in the ring, pointers point to nodes or nowhere.
THEOREM TypeCorrect == Spec => []TypeOK
<1>1. PathInv => TypeOK
  BY DEF PathInv
<1> QED BY <1>1, PathInvariant, PTL

\* However the handlers, the broadcaster and the main thread interleave, every
\* node mq_push() allocates has one owner until it is freed.
THEOREM NodesAlwaysOwned == Spec => []NodesOwned
<1>1. PathInv => NodesOwned
  BY DEF PathInv, MQInv
<1> QED BY <1>1, PathInvariant, PTL

\* head, tail, count and the next pointers of message_queue.c always describe
\* one list.
THEOREM AlwaysWellLinked == Spec => []WellLinked
<1>1. PathInv => WellLinked
  BY DEF PathInv, MQInv
<1> QED BY <1>1, PathInvariant, PTL

\* The ring buffers of room_manager.c never show a blank entry and wrap only
\* when full, and there are never more rooms than MAX_ROOMS.
THEOREM RingsAlwaysSound == Spec => []RingSound
<1>1. PathInv => RingSound
  BY DEF PathInv, RMInv
<1> QED BY <1>1, PathInvariant, PTL

\* broadcaster_thread() ends only once the server was told to stop.
THEOREM BroadcasterAlwaysStays == Spec => []BroadcasterStays
<1>1. PathInv => BroadcasterStays
  BY DEF PathInv, FlagsAgree, BroadcasterStays
<1> QED BY <1>1, PathInvariant, PTL

\* cmd_handle_msg() stores and pushes in two critical sections, but calls that
\* do not overlap are seen in their order, in the histories and by the clients.
THEOREM CallsOrdered == Spec => []OrderedByCalls
<1>1. PathInv => OrderedByCalls
  BY DEF PathInv, Ordered, OrderedByCalls, TypeOK, RMTypeOK
<1> QED BY <1>1, PathInvariant, PTL

\* The linked list of message_queue.c is the first-in first-out queue that
\* ChatServer works with: each step of it is one of the queue or none.
THEOREM ListIsQueue == Spec => QueueImplements
<1>1. Init => BQ!BQInit
  BY PathInit
<1>2. PathInv /\ [Next]_vars => [BQ!BQNext]_BQ!bqVars
  BY PathStep DEF QueueStep
<1> QED BY <1>1, <1>2, PathInvariant, PTL DEF Spec, QueueImplements, BQ!BQSpec

\* The ring buffers of room_manager.c are the histories that ChatServer works
\* with: a room shows its last MAX_ROOM_HISTORY messages, oldest first.
THEOREM RingIsLog == Spec => HistoryImplements
<1>1. Init => RL!RLInit
  BY PathInit
<1>2. PathInv /\ [Next]_vars => [RL!RLNext]_RL!logVars
  BY PathStep DEF LogStep
<1> QED BY <1>1, <1>2, PathInvariant, PTL DEF Spec, HistoryImplements, RL!RLSpec
=============================================================================
