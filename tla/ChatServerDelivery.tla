------------------------- MODULE ChatServerDelivery -------------------------
(***************************************************************************)
(* The proof that a session which was sent the history of its room misses  *)
(* nothing between that history and the broadcasts that follow it.         *)
(***************************************************************************)
EXTENDS ChatServerProofs

-----------------------------------------------------------------------------
(* The inductive invariant.                                                *)

\* The handler of m's author has read another line since, or is at none of P
\* with the line that m came on.
Past(m, P) ==
    \/ m[2] < lines[m[1]]
    \/ m[2] = lines[m[1]] /\ pc[m[1]] \notin P

\* A message is kept once it was stored, in the room it is about to be posted to.
EntryOK(m, r) ==
    /\ Past(m, {"store"})
    /\ \A c \in Conn : (pc[c] = "post" /\ m = MyMsg(c)) => lroom[c] = r
KeptInv == \A r \in Room : \A m \in Entries(history[r]) : EntryOK(m, r)

\* It is queued and fanned out once it was posted, and kept in no room other
\* than the one it is posted to.
EventOK(e) ==
    e.kind = "CHAT" =>
        /\ Past(e.id, {"store", "post"})
        /\ \A r \in Room : e.id \in Entries(history[r]) => r = e.room
Fanning == bpc \in {"start", "send", "next"}
PostedInv == /\ \A i \in 1..Len(queue) : EventOK(queue[i])
             /\ Fanning => EventOK(bmsg)

\* No session was sent a history before its login is complete but for the OK.
SyncedOK(c) == c \in synced => auth[c] \/ pc[c] \in {"ok", "announce"}

\* Where a message is between the history and its walk: Pending, but for the
\* broadcaster that has left its loop.
OnItsWay(m, c) ==
    \/ \E d \in Conn : pc[d] = "post" /\ m = MyMsg(d)
    \/ \E i \in 1..Len(queue) : queue[i].id = m
    \/ /\ bpc \in {"start", "send", "next"}
       /\ bmsg.id = m
       /\ bpc = "start" \/ c \in btodo \/ (bpc = "send" /\ bcur = c)

\* The session has m, or m is on its way: with the history that its handler is
\* about to send, or with the broadcast.
Has(c, m) ==
    \/ m \in seen[c] \/ m \in lost \/ OnItsWay(m, c)
    \/ c \notin synced /\ m \in payload[c]
Follows(c) == c \in online /\ (c \in synced \/ pc[c] = "history")
Covered(c) == \A m \in Entries(history[room[c]]) : Has(c, m)
CoverInv == \A c \in Conn : Follows(c) => Covered(c)

DeliveryInv == /\ KeptInv
               /\ PostedInv
               /\ \A c \in Conn : SyncedOK(c)
               /\ CoverInv

USE DEF mainVars, handlerVars, socketVars, registryVars, roomVars, fanVars, ghostVars,
        At, Goto


-----------------------------------------------------------------------------
(* Steps of a handler that neither store nor post a message.               *)

\* Handler c posts nothing, and comes to a store only with a new line.
Steady(c) ==
    /\ \A d \in Conn \ {c} : /\ pc'[d] = pc[d] /\ lines'[d] = lines[d]
                             /\ lroom'[d] = lroom[d] /\ auth'[d] = auth[d]
    /\ pc[c] # "post" /\ pc'[c] # "post"
    /\ \/ lines'[c] = lines[c] + 1
       \/ lines'[c] = lines[c] /\ pc'[c] # "store"

\* No message is queued; a JOIN or LEAVE may be.
QueuesNoMessage ==
    \/ queue' = queue
    \/ \E e \in Event : e.kind # "CHAT" /\ queue' = Append(queue, e)

\* What a longer queue holds.
LEMMA LongerQueue ==
    ASSUME queue \in Seq(Event), NEW e \in Event, queue' = Append(queue, e)
    PROVE  /\ \A i \in 1..Len(queue) : i \in 1..Len(queue') /\ queue'[i] = queue[i]
           /\ \A i \in 1..Len(queue') : i \in 1..Len(queue) \/ queue'[i] = e
           /\ \E i \in 1..Len(queue') : queue'[i] = e
<1>1. Len(queue) \in Nat /\ Len(queue') = Len(queue) + 1
  BY LenProperties, AppendProperties
<1>2. queue'[Len(queue) + 1] = e /\ \A i \in 1..Len(queue) : queue'[i] = queue[i]
  BY AppendProperties
<1> QED BY <1>1, <1>2

\* Entries are messages, and so are the ids of CHAT events.
LEMMA MessagesAreIds ==
    ASSUME SessionInv
    PROVE  /\ \A r \in Room : Entries(history[r]) \subseteq MsgId
           /\ \A i \in 1..Len(queue) : queue[i] \in Event
           /\ \A e \in Event : e.kind = "CHAT" => e.id \in MsgId
           /\ \A e \in Event : e.id \in MsgId => e.kind = "CHAT"
<1>1. ASSUME NEW r \in Room PROVE Entries(history[r]) \subseteq MsgId
  <2>1. history[r] \in Seq(MsgId)
    BY DEF SessionInv, TypeOK
  <2> QED BY <2>1, ElementOfSeq DEF Entries
<1>2. \A i \in 1..Len(queue) : queue[i] \in Event
  BY ElementOfSeq DEF SessionInv, TypeOK
<1>3. \A e \in Event : e.kind = "CHAT" => e.id \in MsgId
  BY DEF Event
<1>4. \A e \in Event : e.kind # "CHAT" => e.id = None
  BY DEF Event
<1> QED BY <1>1, <1>2, <1>3, <1>4, MessageAssumption

\* What is past stays past.
LEMMA StaysPast ==
    ASSUME SessionInv, NEW c \in Conn, Steady(c), NEW m \in MsgId,
           NEW P \in SUBSET {"store", "post"}, Past(m, P)
    PROVE  Past(m, P)'
<1>1. m[1] \in Conn /\ m[2] \in Nat /\ lines[m[1]] \in Nat
  BY DEF MsgId, SessionInv, TypeOK
<1>2. CASE m[1] = c
  BY <1>1, <1>2 DEF Past, Steady
<1>3. CASE m[1] # c
  BY <1>1, <1>3 DEF Past, Steady
<1> QED BY <1>2, <1>3

\* What is kept and what is posted stays so.
LEMMA SteadyLedger ==
    ASSUME SessionInv, KeptInv, PostedInv, NEW c \in Conn, Steady(c), QueuesNoMessage,
           UNCHANGED <<history, fanVars>>
    PROVE  KeptInv' /\ PostedInv'
<1>1. KeptInv'
  <2> SUFFICES ASSUME NEW r \in Room, NEW m \in Entries(history[r])
               PROVE  EntryOK(m, r)'
    BY DEF KeptInv, Entries
  <2>1. EntryOK(m, r) /\ m \in MsgId
    BY MessagesAreIds DEF KeptInv
  <2>2. Past(m, {"store"})'
    BY <2>1, StaysPast DEF EntryOK
  <2>3. ASSUME NEW d \in Conn, pc'[d] = "post", m = MyMsg(d)' PROVE lroom'[d] = r
    BY <2>1, <2>3 DEF EntryOK, Steady, MyMsg
  <2> QED BY <2>2, <2>3 DEF EntryOK
<1>2. ASSUME NEW e \in Event, EventOK(e) PROVE EventOK(e)'
  <2>1. CASE e.kind = "CHAT"
    <3>1. e.id \in MsgId /\ Past(e.id, {"store", "post"})
      BY <1>2, <2>1, MessagesAreIds DEF EventOK
    <3>2. Past(e.id, {"store", "post"})'
      BY <3>1, StaysPast
    <3> QED BY <1>2, <3>2 DEF EventOK, Entries
  <2> QED BY <2>1 DEF EventOK
<1>3. ASSUME NEW i \in 1..Len(queue') PROVE EventOK(queue[i])'
  <2>1. \A k \in 1..Len(queue) : EventOK(queue[k]) /\ queue[k] \in Event
    BY MessagesAreIds DEF PostedInv
  <2>2. \E e \in Event : e = queue'[i] /\ EventOK(e)'
    <3>1. CASE i \in 1..Len(queue) /\ queue'[i] = queue[i]
      BY <1>2, <2>1, <3>1
    <3>2. ASSUME NEW e \in Event, e.kind # "CHAT", queue'[i] = e
          PROVE  EventOK(e)'
      BY <3>2 DEF EventOK
    <3> QED BY <3>1, <3>2, LongerQueue DEF QueuesNoMessage, SessionInv, TypeOK
  <2> QED BY <2>2 DEF EventOK
<1>4. Fanning' => EventOK(bmsg)'
  <2> SUFFICES ASSUME Fanning' PROVE EventOK(bmsg)'
    OBVIOUS
  <2>1. EventOK(bmsg) /\ bmsg \in Event
    BY DEF PostedInv, Fanning, SessionInv, FanOK
  <2>2. \E e \in Event : e = bmsg' /\ EventOK(e)'
    BY <1>2, <2>1
  <2> QED BY <2>2 DEF EventOK
<1> QED BY <1>1, <1>3, <1>4 DEF PostedInv

\* What is on its way stays on its way.
LEMMA StaysOnItsWay ==
    ASSUME SessionInv, NEW c \in Conn, Steady(c), QueuesNoMessage, UNCHANGED fanVars,
           NEW d, NEW m, OnItsWay(m, d)
    PROVE  OnItsWay(m, d)'
<1>1. CASE \E a \in Conn : pc[a] = "post" /\ m = MyMsg(a)
  <2>1. \E a \in Conn : pc'[a] = "post" /\ m = MyMsg(a)'
    BY <1>1 DEF Steady, MyMsg
  <2> QED BY <2>1 DEF OnItsWay
<1>2. CASE \E i \in 1..Len(queue) : queue[i].id = m
  <2>1. \E i \in 1..Len(queue') : queue'[i].id = m
    BY <1>2, LongerQueue DEF QueuesNoMessage, SessionInv, TypeOK
  <2> QED BY <2>1 DEF OnItsWay
<1>3. CASE /\ bpc \in {"start", "send", "next"} /\ bmsg.id = m
           /\ bpc = "start" \/ d \in btodo \/ (bpc = "send" /\ bcur = d)
  BY <1>3 DEF OnItsWay
<1> QED BY <1>1, <1>2, <1>3 DEF OnItsWay

\* Such a step keeps the invariant if nobody comes to follow a room by it.
LEMMA SteadyDelivery ==
    ASSUME SessionInv, DeliveryInv, NEW c \in Conn, Steady(c), QueuesNoMessage,
           UNCHANGED <<history, payload, fanVars, lost>>,
           synced' \subseteq synced, SyncedOK(c)',
           \A d \in Conn : Follows(d)' =>
               Follows(d) /\ room'[d] = room[d] /\ seen[d] \subseteq seen'[d]
    PROVE  DeliveryInv'
<1>1. KeptInv' /\ PostedInv'
  BY SteadyLedger DEF DeliveryInv
<1>2. \A d \in Conn : SyncedOK(d)'
  BY DEF DeliveryInv, SyncedOK, Steady
<1>3. ASSUME NEW d \in Conn, Follows(d)' PROVE Covered(d)'
  <2>1. Follows(d) /\ room'[d] = room[d] /\ seen[d] \subseteq seen'[d]
    BY <1>3
  <2> SUFFICES ASSUME NEW m \in Entries(history[room[d]]) PROVE Has(d, m)'
    BY <2>1 DEF Covered, Entries
  <2>2. Has(d, m)
    BY <2>1 DEF DeliveryInv, CoverInv, Covered
  <2>3. OnItsWay(m, d) => OnItsWay(m, d)'
    BY StaysOnItsWay
  <2> QED BY <2>1, <2>2, <2>3 DEF Has
<1> QED BY <1>1, <1>2, <1>3 DEF DeliveryInv, CoverInv

\* In particular if it leaves everybody in place, and c does not follow by it.
LEMMA SteadyInPlace ==
    ASSUME SessionInv, DeliveryInv, NEW c \in Conn, Steady(c), QueuesNoMessage,
           UNCHANGED <<history, payload, fanVars, lost, online, room, seen, synced>>,
           pc'[c] # "history", SyncedOK(c)'
    PROVE  DeliveryInv'
<1>1. ASSUME NEW d \in Conn, Follows(d)' PROVE Follows(d)
  BY <1>1 DEF Follows, Steady
<1> QED BY <1>1, SteadyDelivery

\* Announcing an arrival or a departure queues no message.
LEMMA AnnouncesNoMessage ==
    ASSUME NEW k \in {"JOIN", "LEAVE"}, NEW u \in User, NEW r \in Room,
           enqueue_room_event(k, u, r)
    PROVE  QueuesNoMessage
<1> DEFINE e == [kind |-> k, user |-> u, room |-> r, id |-> None]
<1>1. e \in Event /\ e.kind # "CHAT"
  BY DEF Event
<1>2. mq_push(e) \/ mq_push_fails
  BY DEF enqueue_room_event
<1> HIDE DEF e
<1> QED BY <1>1, <1>2 DEF QueuesNoMessage, mq_push, mq_push_fails

\* Reading a line.
LEMMA ReadsDelivery ==
    ASSUME SessionInv, DeliveryInv, NEW c \in Conn, HandlerReads(c)
    PROVE  DeliveryInv'
<1>0. pc \in [Conn -> PC] /\ lines \in [Conn -> Nat] /\ lroom \in [Conn -> Room]
  BY DEF SessionInv, TypeOK
<1>1. Read(c)
  BY DEF HandlerReads, HandleOther, HandleQuit, HandleAuth, HandleJoinRoom, HandleMsg,
         HandleHistory, HandlePm, HandleKick, Command
<1>2. PICK q \in {"reply", "disc", "exists", "bye", "leave", "store", "format",
                  "whisper", "notify"} : Goto(c, q)
  BY DEF HandlerReads, HandleOther, HandleQuit, HandleAuth, HandleJoinRoom,
         HandleMsg, HandleHistory, HandlePm, HandleKick, OwnRoom, Target
<1>3. \A d \in Conn \ {c} : lroom'[d] = lroom[d]
  BY <1>0 DEF HandlerReads, HandleOther, HandleQuit, HandleAuth, HandleJoinRoom,
              HandleMsg, HandleHistory, HandlePm, HandleKick, OwnRoom, Target
<1>4. Steady(c) /\ QueuesNoMessage /\ pc'[c] = q /\ pc[c] = "recv"
  BY <1>0, <1>1, <1>2, <1>3 DEF Read, Steady, QueuesNoMessage
<1>5. SyncedOK(c)'
  BY <1>1, <1>4 DEF Read, DeliveryInv, SyncedOK
<1> QED BY <1>1, <1>2, <1>4, <1>5, SteadyInPlace DEF Read

\* What a handler does between two lines without touching its node, the history
\* of its room or a message.
LEMMA QuietDelivery ==
    ASSUME SessionInv, PresenceInv, DeliveryInv, NEW c \in Conn,
           \/ RecvEof(c) \/ Reply(c) \/ Refuse(c) \/ AuthExists(c) \/ AuthAddFails(c)
           \/ AuthWelcome(c) \/ RoomJoined(c) \/ AuthOk(c) \/ AuthAnnounce(c)
           \/ JoinLeave(c) \/ JoinArrive(c) \/ PmSend(c) \/ KickNotify(c) \/ KickCut(c)
           \/ DiscLeave(c) \/ DiscRelease(c)
    PROVE  DeliveryInv'
<1>0. /\ pc \in [Conn -> PC] /\ lines \in [Conn -> Nat] /\ lroom \in [Conn -> Room]
      /\ auth \in [Conn -> BOOLEAN] /\ room \in [Conn -> Room] /\ SessionOK(c)
      /\ online \subseteq Conn
      /\ \A d \in online : uname[d] \in User
  BY DEF SessionInv, TypeOK, SessionOK
<1>1. SyncedOK(c)
  BY DEF DeliveryInv
<1>2. ASSUME NEW q \in PC \ {"history", "post", "store"}, Goto(c, q),
             UNCHANGED <<lines, history, payload, fanVars, lost, online, room, seen, synced>>,
             \A d \in Conn \ {c} : lroom'[d] = lroom[d] /\ auth'[d] = auth[d],
             pc[c] # "post", QueuesNoMessage, SyncedOK(c)'
      PROVE  DeliveryInv'
  <2>1. Steady(c) /\ pc'[c] # "history"
    BY <1>0, <1>2 DEF Steady
  <2> QED BY <1>2, <2>1, SteadyInPlace
<1>3. CASE RecvEof(c) \/ AuthExists(c) \/ AuthAddFails(c)
  <2>1. PICK q \in {"disc", "bye", "add", "full"} : Goto(c, q)
    BY <1>3 DEF RecvEof, AuthExists, AuthAddFails
  <2>2. pc[c] \in {"recv", "exists", "add"} /\ OnlyMoves
    BY <1>3 DEF RecvEof, AuthExists, AuthAddFails
  <2>3. SyncedOK(c)' /\ QueuesNoMessage
    BY <1>1, <2>2 DEF SyncedOK, OnlyMoves, OnlyQueues, QueuesNoMessage
  <2> QED BY <1>2, <2>1, <2>2, <2>3 DEF PC, OnlyMoves, OnlyQueues
<1>4. CASE Reply(c) \/ Refuse(c) \/ AuthWelcome(c) \/ RoomJoined(c) \/ AuthOk(c)
           \/ PmSend(c) \/ KickNotify(c)
  <2>1. PICK q \in {"recv", "disc", "joined", "undo", "format", "announce", "reply",
                    "cut"} : Goto(c, q)
    BY <1>4 DEF Reply, Refuse, AuthWelcome, RoomJoined, AuthOk, PmSend, KickNotify, Loop
  <2>2. /\ pc[c] \in {"reply", "bye", "full", "welcome", "joined", "ok", "whisper",
                      "notify"}
        /\ pc[c] = "ok" => q = "announce"
        /\ OnlySends /\ UNCHANGED ghostVars /\ (Return(c) \/ UNCHANGED lroom)
    BY <1>0, <1>4, <2>1 DEF Reply, Refuse, AuthWelcome, RoomJoined, AuthOk, PmSend, KickNotify
  <2>3. pc'[c] = q /\ \A d \in Conn \ {c} : lroom'[d] = lroom[d]
    BY <1>0, <2>1, <2>2 DEF Return
  <2>4. SyncedOK(c)' /\ QueuesNoMessage
    BY <1>1, <2>2, <2>3 DEF SyncedOK, OnlySends, QueuesNoMessage
  <2> QED BY <1>2, <2>1, <2>2, <2>3, <2>4 DEF PC, OnlySends
<1>5. CASE AuthAnnounce(c)
  <2>1. PICK q \in {"recv", "disc"} : Goto(c, q)
    BY <1>5 DEF AuthAnnounce, Loop
  <2>2. c \in online /\ pc[c] = "announce"
    BY <1>0, <1>5 DEF AuthAnnounce, SessionOK, Registered
  <2>3. QueuesNoMessage
    BY <1>0, <1>5, <2>2, LobbyAssumption, AnnouncesNoMessage DEF AuthAnnounce
  <2>4. auth'[c] /\ \A d \in Conn \ {c} : lroom'[d] = lroom[d] /\ auth'[d] = auth[d]
    BY <1>0, <1>5 DEF AuthAnnounce, Return
  <2>5. SyncedOK(c)'
    BY <2>4 DEF SyncedOK
  <2> QED BY <1>2, <1>5, <2>1, <2>2, <2>3, <2>4, <2>5 DEF AuthAnnounce, OnlyQueues, PC
<1>6. CASE JoinLeave(c) \/ JoinArrive(c)
  <2>1. PICK q \in {"move", "reply"} : Goto(c, q)
    BY <1>6 DEF JoinLeave, JoinArrive
  <2>2. c \in online /\ pc[c] \in {"leave", "arrive"}
    BY <1>0, <1>6 DEF JoinLeave, JoinArrive, SessionOK, Registered
  <2>3. QueuesNoMessage
    BY <1>0, <1>6, <2>2, AnnouncesNoMessage DEF JoinLeave, JoinArrive
  <2>4. SyncedOK(c)'
    BY <1>1, <1>6, <2>2 DEF JoinLeave, JoinArrive, OnlyQueues, SyncedOK
  <2> QED BY <1>2, <1>6, <2>1, <2>2, <2>3, <2>4 DEF JoinLeave, JoinArrive, OnlyQueues, PC
<1>7. CASE DiscLeave(c)
  <2>1. PICK q \in {"remove", "close"} : Goto(c, q)
    BY <1>7 DEF DiscLeave
  <2>2. QueuesNoMessage
    <3>1. CASE auth[c]
      <4>1. c \in online
        BY <1>0, <1>7, <3>1 DEF DiscLeave, SessionOK, Registered
      <4>2. enqueue_room_event("LEAVE", uname[c], room[c])
        BY <1>7, <3>1, <4>1, OwnNode DEF DiscLeave
      <4> QED BY <1>0, <4>1, <4>2, AnnouncesNoMessage
    <3>2. CASE ~auth[c]
      BY <1>7, <3>2 DEF DiscLeave, QueuesNoMessage
    <3> QED BY <3>1, <3>2
  <2>3. SyncedOK(c)' /\ pc[c] = "disc"
    BY <1>1, <1>7 DEF DiscLeave, OnlyQueues, SyncedOK
  <2> QED BY <1>2, <1>7, <2>1, <2>2, <2>3 DEF DiscLeave, OnlyQueues, PC
<1>8. CASE KickCut(c) \/ DiscRelease(c)
  <2>1. PICK q \in {"reply", "gone"} : Goto(c, q)
    BY <1>8 DEF KickCut, DiscRelease
  <2>2. pc[c] \in {"cut", "release"} /\ QueuesNoMessage
    BY <1>8 DEF KickCut, DiscRelease, QueuesNoMessage
  <2>3. SyncedOK(c)'
    BY <1>1, <1>8, <2>2 DEF KickCut, DiscRelease, SyncedOK
  <2> QED BY <1>2, <1>8, <2>1, <2>2, <2>3 DEF KickCut, DiscRelease, PC
<1> QED BY <1>3, <1>4, <1>5, <1>6, <1>7, <1>8

\* The steps that add, move and remove the handler's node and forget the
\* connection: nobody comes to follow a room by them.
LEMMA RegistryDelivery ==
    ASSUME SessionInv, DeliveryInv, NEW c \in Conn,
           AuthAdd(c) \/ JoinMove(c) \/ AuthUndo(c) \/ DiscRemove(c) \/ DiscClose(c)
    PROVE  DeliveryInv'
<1>0. /\ pc \in [Conn -> PC] /\ lines \in [Conn -> Nat] /\ lroom \in [Conn -> Room]
      /\ room \in [Conn -> Room] /\ seen \in [Conn -> SUBSET MsgId]
      /\ online \subseteq Conn /\ SessionOK(c)
  BY DEF SessionInv, TypeOK
<1>1. SyncedOK(c)
  BY DEF DeliveryInv
<1>2. PICK q \in {"welcome", "joined", "disc", "close", "release"} : Goto(c, q)
  BY DEF AuthAdd, JoinMove, AuthUndo, DiscRemove, DiscClose
<1>3. pc'[c] = q /\ \A d \in Conn \ {c} : pc'[d] = pc[d]
  BY <1>0, <1>2
<1>4. /\ pc[c] \in {"add", "move", "undo", "remove", "close"}
      /\ UNCHANGED <<lines, auth, queue, history, payload, fanVars, lost>>
      /\ \A d \in Conn \ {c} : lroom'[d] = lroom[d]
  BY <1>0 DEF AuthAdd, JoinMove, AuthUndo, DiscRemove, DiscClose, Return
<1>5. Steady(c) /\ QueuesNoMessage
  BY <1>0, <1>3, <1>4 DEF Steady, QueuesNoMessage
<1>6. synced' \subseteq synced /\ SyncedOK(c)'
  BY <1>0, <1>1, <1>3, <1>4
     DEF AuthAdd, JoinMove, AuthUndo, DiscRemove, DiscClose, SyncedOK, SessionOK
<1>7. ASSUME NEW d \in Conn \ {c}
      PROVE  /\ d \in online' <=> d \in online
             /\ room'[d] = room[d] /\ seen'[d] = seen[d]
             /\ d \in synced' <=> d \in synced
  <2>1. pc[c] # "close" /\ pc[c] # "add" => ByFd(fd[c]) = {c}
    BY <1>0, <1>4, OwnNode DEF SessionOK, Registered
  <2>2. CASE AuthAdd(c)
    BY <1>0, <2>2 DEF AuthAdd
  <2>3. CASE JoinMove(c)
    BY <1>0, <2>1, <2>3 DEF JoinMove, registry_set_room
  <2>4. CASE AuthUndo(c) \/ DiscRemove(c)
    BY <1>0, <2>1, <2>4 DEF AuthUndo, DiscRemove, registry_remove
  <2>5. CASE DiscClose(c)
    BY <1>0, <2>5 DEF DiscClose
  <2> QED BY <2>2, <2>3, <2>4, <2>5
<1>8. ~Follows(c)'
  <2>1. pc'[c] # "history"
    BY <1>3
  <2>2. c \notin online' \/ c \notin synced'
    <3>1. CASE AuthAdd(c)
      BY <1>0, <1>1, <3>1 DEF AuthAdd, SyncedOK, SessionOK
    <3>2. CASE JoinMove(c) \/ DiscClose(c)
      BY <3>2 DEF JoinMove, DiscClose
    <3>3. CASE AuthUndo(c) \/ DiscRemove(c)
      <4>1. ByFd(fd[c]) = {c}
        BY <1>0, <3>3, OwnNode DEF AuthUndo, DiscRemove, SessionOK, Registered
      <4> QED BY <3>3, <4>1 DEF AuthUndo, DiscRemove, registry_remove
    <3> QED BY <3>1, <3>2, <3>3
  <2> QED BY <2>1, <2>2 DEF Follows
<1>9. ASSUME NEW d \in Conn, Follows(d)'
      PROVE  Follows(d) /\ room'[d] = room[d] /\ seen[d] \subseteq seen'[d]
  BY <1>3, <1>7, <1>8, <1>9 DEF Follows
<1> QED BY <1>4, <1>5, <1>6, <1>9, SteadyDelivery

-----------------------------------------------------------------------------
(* Steps of a handler that send a history, and that store or post.         *)

\* The history is copied and sent: whoever comes to follow its room by that has
\* all of it.
LEMMA HistoryDelivery ==
    ASSUME SessionInv, PresenceInv, DeliveryInv, NEW c \in Conn,
           FormatHistory(c) \/ SendHistory(c)
    PROVE  DeliveryInv'
<1>0. /\ pc \in [Conn -> PC] /\ payload \in [Conn -> SUBSET MsgId] /\ SessionOK(c)
      /\ seen \in [Conn -> SUBSET MsgId] /\ online \subseteq Conn /\ synced \subseteq Conn
  BY DEF SessionInv, TypeOK
<1>1. PICK q \in {"history", "ok", "arrive", "reply"} :
          Goto(c, q) /\ (q # "history" => q = AfterHistory(c))
  BY DEF FormatHistory, SendHistory, AfterHistory
<1>2. /\ pc[c] \in {"format", "history"} /\ pc'[c] = q
      /\ \A d \in Conn \ {c} : pc'[d] = pc[d]
      /\ UNCHANGED <<lines, lroom, auth, queue, history, fanVars, online, room, lost>>
  BY <1>0, <1>1 DEF FormatHistory, SendHistory
<1>3. Steady(c) /\ QueuesNoMessage
  BY <1>0, <1>2 DEF Steady, QueuesNoMessage
<1>4. KeptInv' /\ PostedInv'
  BY <1>2, <1>3, SteadyLedger DEF DeliveryInv
<1>5. \A d \in Conn \ {c} : d \in synced' <=> d \in synced
  BY <1>0 DEF FormatHistory, SendHistory
<1>6. SyncedOK(c)'
  <2>1. auth[c] \/ arg[c].cmd = "AUTH"
    BY <1>0, <1>2 DEF SessionOK
  <2>2. CASE q = "history"
    <3>1. synced' = synced /\ pc[c] = "format"
      BY <1>0, <1>2, <2>2 DEF FormatHistory, SendHistory, AfterHistory
    <3> QED BY <1>2, <3>1 DEF DeliveryInv, SyncedOK
  <2>3. CASE q # "history"
    BY <1>1, <1>2, <2>1, <2>3 DEF SyncedOK, AfterHistory
  <2> QED BY <2>2, <2>3
<1>7. \A d \in Conn : SyncedOK(d)'
  BY <1>2, <1>5, <1>6 DEF DeliveryInv, SyncedOK
<1>8. ASSUME NEW d, NEW m, OnItsWay(m, d) PROVE OnItsWay(m, d)'
  BY <1>2, <1>3, <1>8, StaysOnItsWay
<1>9. ASSUME NEW d \in Conn \ {c}, Follows(d)' PROVE Covered(d)'
  <2>1. Follows(d) /\ payload'[d] = payload[d] /\ seen'[d] = seen[d]
    BY <1>0, <1>2, <1>5, <1>9 DEF Follows, FormatHistory, SendHistory
  <2> SUFFICES ASSUME NEW m \in Entries(history[room[d]]) PROVE Has(d, m)'
    BY <1>2 DEF Covered, Entries
  <2>2. Has(d, m)
    BY <2>1 DEF DeliveryInv, CoverInv, Covered
  <2> QED BY <1>2, <1>5, <1>8, <2>1, <2>2 DEF Has
<1>10. ASSUME Follows(c)' PROVE Covered(c)'
  <2> SUFFICES ASSUME NEW m \in Entries(history[room[c]]) PROVE Has(c, m)'
    BY <1>2 DEF Covered, Entries
  <2>1. CASE FormatHistory(c)
    <3>1. UNCHANGED <<seen, synced>> /\ pc[c] = "format"
      BY <2>1 DEF FormatHistory
    <3>2. CASE c \in synced
      <4>1. Has(c, m)
        BY <1>2, <1>10, <3>1, <3>2 DEF Follows, DeliveryInv, CoverInv, Covered
      <4> QED BY <1>2, <1>8, <3>1, <3>2, <4>1 DEF Has
    <3>3. CASE c \notin synced
      <4>1. pc'[c] = "history"
        BY <1>10, <3>1, <3>3 DEF Follows
      <4>2. payload'[c] = Entries(history[lroom[c]]) /\ lroom[c] = room[c]
        BY <1>0, <1>2, <2>1, <3>1, <4>1
        DEF FormatHistory, AfterHistory, PresenceInv, RoomNameOK
      <4> QED BY <3>1, <3>3, <4>2 DEF Has
    <3> QED BY <3>2, <3>3
  <2>2. CASE SendHistory(c)
    <3>1. pc[c] = "history" /\ pc'[c] # "history"
      BY <1>0, <2>2 DEF SendHistory, AfterHistory
    <3>2. Has(c, m)
      BY <1>2, <1>10, <3>1 DEF Follows, DeliveryInv, CoverInv, Covered
    <3>3. CASE synced' = synced \cup {c} /\ seen' = [seen EXCEPT ![c] = @ \cup payload[c]]
      BY <1>0, <1>2, <1>8, <3>2, <3>3 DEF Has
    <3>4. CASE UNCHANGED <<seen, synced>>
      BY <1>2, <1>8, <1>10, <3>1, <3>2, <3>4 DEF Has, Follows
    <3> QED BY <2>2, <3>3, <3>4 DEF SendHistory
  <2> QED BY <2>1, <2>2
<1> QED BY <1>4, <1>7, <1>9, <1>10 DEF DeliveryInv, CoverInv

\* Storing m in r adds m to r and nothing else to any room.
LEMMA StoredEntries ==
    ASSUME SessionInv, NEW r \in Room, NEW m \in MsgId,
           room_history_add(r, m) \/ room_history_add_fails(r)
    PROVE  \A s \in Room : \A x \in Entries(history'[s]) :
               x \in Entries(history[s]) \/ (s = r /\ x = m)
<1>0. /\ history \in [Room -> Seq(MsgId)] /\ history[r] \in Seq(MsgId)
      /\ Len(history[r]) \in Nat /\ MaxHistory \in Nat \ {0}
  BY LenProperties, BoundAssumption DEF SessionInv, TypeOK
<1>1. \A q \in Seq(MsgId) : \A x \in Entries(Append(q, m)) : x \in Entries(q) \/ x = m
  <2> SUFFICES ASSUME NEW q \in Seq(MsgId), NEW i \in 1..Len(Append(q, m))
               PROVE  Append(q, m)[i] \in Entries(q) \/ Append(q, m)[i] = m
    BY DEF Entries
  <2>1. /\ Len(q) \in Nat /\ Len(Append(q, m)) = Len(q) + 1
        /\ Append(q, m)[Len(q) + 1] = m
        /\ \A j \in 1..Len(q) : Append(q, m)[j] = q[j]
    BY LenProperties, AppendProperties
  <2>2. CASE i \in 1..Len(q)
    BY <2>1, <2>2 DEF Entries
  <2>3. CASE i \notin 1..Len(q)
    <3>1. i = Len(q) + 1
      BY <2>1, <2>3
    <3> QED BY <2>1, <3>1
  <2> QED BY <2>2, <2>3
<1>2. ASSUME Len(history[r]) >= MaxHistory
      PROVE  /\ Tail(history[r]) \in Seq(MsgId)
             /\ Entries(Tail(history[r])) \subseteq Entries(history[r])
  <2> DEFINE q == history[r]
  <2>1. q \in Seq(MsgId) /\ q # <<>> /\ Len(q) \in Nat
    BY <1>0, <1>2, EmptySeq
  <2> HIDE DEF q
  <2>2. /\ Tail(q) \in Seq(MsgId) /\ Len(Tail(q)) = Len(q) - 1
        /\ \A i \in 1..Len(Tail(q)) : Tail(q)[i] = q[i + 1]
    BY <2>1, HeadTailProperties
  <2>3. Entries(Tail(q)) \subseteq Entries(q)
    BY <2>1, <2>2 DEF Entries
  <2> QED BY <2>2, <2>3 DEF q
<1>3. CASE room_history_add(r, m) /\ (r \in rooms \/ Cardinality(rooms) < MaxRooms)
  <2>1. /\ \A s \in Room \ {r} : history'[s] = history[s]
        /\ history'[r] = IF Len(history[r]) < MaxHistory THEN Append(history[r], m)
                         ELSE Append(Tail(history[r]), m)
    BY <1>0, <1>3 DEF room_history_add
  <2>2. CASE Len(history[r]) < MaxHistory
    BY <1>0, <1>1, <2>1, <2>2
  <2>3. CASE Len(history[r]) >= MaxHistory
    <3>1. history'[r] = Append(Tail(history[r]), m)
      BY <1>0, <2>1, <2>3
    <3>2. \A x \in Entries(history'[r]) : x \in Entries(history[r]) \/ x = m
      BY <1>1, <1>2, <2>3, <3>1
    <3> QED BY <2>1, <3>2
  <2> QED BY <1>0, <2>2, <2>3
<1>4. CASE history' = history
  BY <1>4
<1> QED BY <1>3, <1>4 DEF room_history_add, room_history_add_fails

\* A message is stored once, and is on its way from then on.
LEMMA StoreDelivery ==
    ASSUME SessionInv, DeliveryInv, NEW c \in Conn, MsgStore(c)
    PROVE  DeliveryInv'
<1>0. /\ pc \in [Conn -> PC] /\ lines \in [Conn -> Nat] /\ lroom \in [Conn -> Room]
      /\ room \in [Conn -> Room] /\ lines[c] \in Nat \ {0}
  BY DEF SessionInv, TypeOK, MsgStore, SessionOK
<1>1. /\ pc[c] = "store" /\ pc'[c] = "post" /\ \A d \in Conn \ {c} : pc'[d] = pc[d]
      /\ UNCHANGED <<lines, lroom, auth, queue, payload, fanVars, online, room, ghostVars>>
  BY <1>0 DEF MsgStore
<1>2. \A r \in Room : \A m \in Entries(history'[r]) :
          m \in Entries(history[r]) \/ (r = lroom[c] /\ m = MyMsg(c))
  <2>1. lroom[c] \in Room /\ MyMsg(c) \in MsgId
    BY <1>0 DEF MyMsg, MsgId
  <2> QED BY <2>1, StoredEntries DEF MsgStore
<1>3. ASSUME NEW m \in MsgId, NEW P \in {{"store"}, {"store", "post"}}, Past(m, P)
      PROVE  Past(m, P)' /\ m # MyMsg(c)
  <2>1. m[1] \in Conn /\ m[2] \in Nat
    BY DEF MsgId
  <2> QED BY <1>0, <1>1, <1>3, <2>1 DEF Past, MyMsg
<1>4. KeptInv'
  <2> SUFFICES ASSUME NEW r \in Room, NEW m \in Entries(history'[r])
               PROVE  EntryOK(m, r)'
    BY DEF KeptInv, Entries
  <2>1. CASE m \in Entries(history[r])
    <3>1. EntryOK(m, r) /\ m \in MsgId
      BY <2>1, MessagesAreIds DEF DeliveryInv, KeptInv
    <3>2. Past(m, {"store"})' /\ m # MyMsg(c)
      BY <1>3, <3>1 DEF EntryOK
    <3> QED BY <1>1, <3>1, <3>2 DEF EntryOK, MyMsg
  <2>2. CASE r = lroom[c] /\ m = MyMsg(c)
    BY <1>0, <1>1, <2>2 DEF EntryOK, Past, MyMsg
  <2> QED BY <1>2, <2>1, <2>2
<1>5. ASSUME NEW e \in Event, EventOK(e) PROVE EventOK(e)'
  <2>1. CASE e.kind = "CHAT"
    <3>1. e.id \in MsgId /\ Past(e.id, {"store", "post"})
      BY <1>5, <2>1, MessagesAreIds DEF EventOK
    <3>2. Past(e.id, {"store", "post"})' /\ e.id # MyMsg(c)
      BY <1>3, <3>1
    <3>3. \A r \in Room : e.id \in Entries(history'[r]) => r = e.room
      BY <1>2, <1>5, <2>1, <3>2 DEF EventOK
    <3> QED BY <3>2, <3>3 DEF EventOK, Entries
  <2> QED BY <2>1 DEF EventOK
<1>6. PostedInv'
  <2>1. \A i \in 1..Len(queue) : queue[i] \in Event /\ EventOK(queue[i])
    BY MessagesAreIds DEF DeliveryInv, PostedInv
  <2>2. ASSUME NEW i \in 1..Len(queue') PROVE EventOK(queue[i])'
    <3>1. \E e \in Event : e = queue'[i] /\ EventOK(e)'
      BY <1>1, <1>5, <2>1
    <3> QED BY <3>1 DEF EventOK
  <2>3. ASSUME Fanning' PROVE EventOK(bmsg)'
    <3>1. EventOK(bmsg) /\ bmsg \in Event
      BY <1>1, <2>3 DEF DeliveryInv, PostedInv, Fanning, SessionInv, FanOK
    <3>2. \E e \in Event : e = bmsg' /\ EventOK(e)'
      BY <1>1, <1>5, <3>1
    <3> QED BY <3>2 DEF EventOK
  <2> QED BY <2>2, <2>3 DEF PostedInv
<1>7. \A d \in Conn : SyncedOK(d)'
  BY <1>1 DEF DeliveryInv, SyncedOK
<1>8. ASSUME NEW d \in Conn, Follows(d)' PROVE Covered(d)'
  <2>1. Follows(d) /\ room[d] \in Room
    BY <1>0, <1>1, <1>8 DEF Follows
  <2> SUFFICES ASSUME NEW m \in Entries(history'[room[d]]) PROVE Has(d, m)'
    BY <1>1 DEF Covered, Entries
  <2>2. CASE m \in Entries(history[room[d]])
    <3>1. Has(d, m)
      BY <2>1, <2>2 DEF DeliveryInv, CoverInv, Covered
    <3>2. OnItsWay(m, d) => OnItsWay(m, d)'
      BY <1>1 DEF OnItsWay, MyMsg
    <3> QED BY <1>1, <3>1, <3>2 DEF Has
  <2>3. CASE m = MyMsg(c)
    <3>1. OnItsWay(m, d)'
      BY <1>1, <2>3 DEF OnItsWay, MyMsg
    <3> QED BY <3>1 DEF Has
  <2> QED BY <1>2, <2>1, <2>2, <2>3
<1> QED BY <1>4, <1>6, <1>7, <1>8 DEF DeliveryInv, CoverInv

\* A message is posted once, to the room it is kept in, or lost.
LEMMA PostDelivery ==
    ASSUME SessionInv, DeliveryInv, NEW c \in Conn, MsgPost(c)
    PROVE  DeliveryInv'
<1> DEFINE e == [kind |-> "CHAT", user |-> uname[c], room |-> lroom[c], id |-> MyMsg(c)]
<1>0. /\ pc \in [Conn -> PC] /\ lines \in [Conn -> Nat] /\ lroom \in [Conn -> Room]
      /\ room \in [Conn -> Room] /\ queue \in Seq(Event)
  BY DEF SessionInv, TypeOK
<1>1. /\ pc[c] = "post" /\ pc'[c] = "reply" /\ \A d \in Conn \ {c} : pc'[d] = pc[d]
      /\ UNCHANGED <<lines, lroom, auth, history, payload, fanVars, online, room, seen,
                     synced>>
  BY <1>0 DEF MsgPost
<1>2. e \in Event /\ e.id = MyMsg(c) /\ e.room = lroom[c]
  <2>1. uname[c] \in User /\ lines[c] \in Nat \ {0}
    BY <1>0, <1>1 DEF SessionInv, SessionOK, Registered
  <2> QED BY <1>0, <2>1 DEF Event, MyMsg, MsgId
<1>3. \/ queue' = Append(queue, e) /\ lost' = lost
      \/ queue' = queue /\ lost' = lost \cup {MyMsg(c)}
  BY DEF MsgPost, mq_push, mq_push_fails
<1>4. ASSUME NEW m \in MsgId, NEW P \in {{"store"}, {"store", "post"}}, Past(m, P)
      PROVE  Past(m, P)'
  <2>1. m[1] \in Conn /\ m[2] \in Nat
    BY DEF MsgId
  <2> QED BY <1>0, <1>1, <1>4, <2>1 DEF Past
<1>5. KeptInv'
  <2> SUFFICES ASSUME NEW r \in Room, NEW m \in Entries(history[r])
               PROVE  EntryOK(m, r)'
    BY <1>1 DEF KeptInv, Entries
  <2>1. EntryOK(m, r) /\ m \in MsgId
    BY MessagesAreIds DEF DeliveryInv, KeptInv
  <2>2. Past(m, {"store"})'
    BY <1>4, <2>1 DEF EntryOK
  <2> QED BY <1>1, <2>1, <2>2 DEF EntryOK, MyMsg
<1>6. ASSUME NEW f \in Event, EventOK(f) PROVE EventOK(f)'
  <2>1. CASE f.kind = "CHAT"
    <3>1. f.id \in MsgId /\ Past(f.id, {"store", "post"})
      BY <1>6, <2>1, MessagesAreIds DEF EventOK
    <3>2. Past(f.id, {"store", "post"})'
      BY <1>4, <3>1
    <3> QED BY <1>1, <1>6, <3>2 DEF EventOK, Entries
  <2> QED BY <2>1 DEF EventOK
<1> HIDE DEF e
<1>7. ASSUME NEW f \in Event, f = e PROVE EventOK(f)'
  <2>1. f.id = MyMsg(c) /\ f.room = lroom[c]
    BY <1>2, <1>7
  <2>2. Past(f.id, {"store", "post"})'
    BY <1>0, <1>1, <2>1 DEF Past, MyMsg
  <2>3. \A r \in Room : f.id \in Entries(history[r]) => r = f.room
    BY <1>1, <2>1 DEF DeliveryInv, KeptInv, EntryOK
  <2> QED BY <1>1, <2>2, <2>3 DEF EventOK, Entries
<1>8. PostedInv'
  <2>1. \A i \in 1..Len(queue) : queue[i] \in Event /\ EventOK(queue[i])
    BY MessagesAreIds DEF DeliveryInv, PostedInv
  <2>2. ASSUME NEW i \in 1..Len(queue') PROVE EventOK(queue[i])'
    <3>1. queue'[i] = e \/ (i \in 1..Len(queue) /\ queue'[i] = queue[i])
      BY <1>0, <1>2, <1>3, LongerQueue
    <3>2. \E f \in Event : f = queue'[i] /\ EventOK(f)'
      BY <1>2, <1>6, <1>7, <2>1, <3>1
    <3> QED BY <3>2 DEF EventOK
  <2>3. ASSUME Fanning' PROVE EventOK(bmsg)'
    <3>1. EventOK(bmsg) /\ bmsg \in Event
      BY <1>1, <2>3 DEF DeliveryInv, PostedInv, Fanning, SessionInv, FanOK
    <3>2. \E f \in Event : f = bmsg' /\ EventOK(f)'
      BY <1>1, <1>6, <3>1
    <3> QED BY <3>2 DEF EventOK
  <2> QED BY <2>2, <2>3 DEF PostedInv
<1>9. \A d \in Conn : SyncedOK(d)'
  BY <1>1 DEF DeliveryInv, SyncedOK
<1>10. ASSUME NEW d \in Conn, Follows(d)' PROVE Covered(d)'
  <2>1. Follows(d)
    BY <1>1, <1>10 DEF Follows
  <2> SUFFICES ASSUME NEW m \in Entries(history[room[d]]) PROVE Has(d, m)'
    BY <1>1 DEF Covered, Entries
  <2>2. Has(d, m)
    BY <2>1 DEF DeliveryInv, CoverInv, Covered
  <2>3. ASSUME NEW i \in 1..Len(queue), queue[i].id = m PROVE OnItsWay(m, d)'
    <3>1. i \in 1..Len(queue') /\ queue'[i] = queue[i]
      BY <1>0, <1>2, <1>3, LongerQueue
    <3> QED BY <2>3, <3>1 DEF OnItsWay
  <2>4. ASSUME NEW a \in Conn, pc[a] = "post", m = MyMsg(a)
        PROVE  OnItsWay(m, d)' \/ m \in lost'
    <3>1. CASE a = c
      <4>1. CASE queue' = Append(queue, e)
        <5>1. \E i \in 1..Len(queue') : queue'[i].id = m
          BY <1>0, <1>2, <2>4, <3>1, <4>1, LongerQueue
        <5> QED BY <5>1 DEF OnItsWay
      <4>2. CASE lost' = lost \cup {MyMsg(c)}
        BY <2>4, <3>1, <4>2
      <4> QED BY <1>3, <4>1, <4>2
    <3>2. CASE a # c
      BY <1>1, <2>4, <3>2 DEF OnItsWay, MyMsg
    <3> QED BY <3>1, <3>2
  <2>5. OnItsWay(m, d) => OnItsWay(m, d)' \/ m \in lost'
    <3>1. ASSUME bpc \in {"start", "send", "next"}, bmsg.id = m,
                 bpc = "start" \/ d \in btodo \/ (bpc = "send" /\ bcur = d)
          PROVE  OnItsWay(m, d)'
      BY <1>1, <3>1 DEF OnItsWay
    <3> QED BY <2>3, <2>4, <3>1 DEF OnItsWay
  <2>6. lost \subseteq lost'
    BY <1>3
  <2> QED BY <1>1, <2>2, <2>5, <2>6 DEF Has
<1> QED BY <1>5, <1>8, <1>9, <1>10 DEF DeliveryInv, CoverInv

-----------------------------------------------------------------------------
(* Steps of the other threads.                                             *)

\* The two places of a posted message, of which OnItsWay speaks.
Queued(m) == \E i \in 1..Len(queue) : queue[i].id = m
InFan(m, c) == /\ Fanning
               /\ bmsg.id = m
               /\ bpc = "start" \/ c \in btodo \/ (bpc = "send" /\ bcur = c)

\* A step that leaves handlers and rooms alone keeps the invariant if it takes
\* events from the queue only and drops no message on the way to a session of
\* its room without delivering it or counting it as lost.
LEMMA FanDelivery ==
    ASSUME SessionInv, DeliveryInv,
           UNCHANGED <<pc, lines, lroom, auth, history, payload, online, room, synced>>,
           \A d \in Conn : seen[d] \subseteq seen'[d],
           lost \subseteq lost',
           \A i \in 1..Len(queue') : \E k \in 1..Len(queue) : queue'[i] = queue[k],
           Fanning' => \/ Fanning /\ bmsg' = bmsg
                       \/ \E k \in 1..Len(queue) : bmsg' = queue[k],
           \A d \in online : \A m \in Entries(history[room[d]]) :
               Queued(m) \/ InFan(m, d) =>
                   m \in seen'[d] \/ m \in lost' \/ Queued(m)' \/ InFan(m, d)'
    PROVE  DeliveryInv'
<1>1. KeptInv'
  BY DEF DeliveryInv, KeptInv, EntryOK, Past, MyMsg, Entries
<1>2. ASSUME NEW e \in Event, EventOK(e) PROVE EventOK(e)'
  BY <1>2 DEF EventOK, Past, Entries
<1>3. \A k \in 1..Len(queue) : queue[k] \in Event /\ EventOK(queue[k])
  BY MessagesAreIds DEF DeliveryInv, PostedInv
<1>4. ASSUME NEW i \in 1..Len(queue') PROVE EventOK(queue[i])'
  <2>1. \E e \in Event : e = queue'[i] /\ EventOK(e)'
    BY <1>2, <1>3
  <2> QED BY <2>1 DEF EventOK
<1>5. ASSUME Fanning' PROVE EventOK(bmsg)'
  <2>1. Fanning => bmsg \in Event /\ EventOK(bmsg)
    BY DEF DeliveryInv, PostedInv, Fanning, SessionInv, FanOK
  <2>2. \E e \in Event : e = bmsg' /\ EventOK(e)'
    BY <1>2, <1>3, <1>5, <2>1
  <2> QED BY <2>2 DEF EventOK
<1>6. PostedInv'
  BY <1>4, <1>5 DEF PostedInv
<1>7. \A d \in Conn : SyncedOK(d)'
  BY DEF DeliveryInv, SyncedOK
<1>8. ASSUME NEW d \in Conn, Follows(d)' PROVE Covered(d)'
  <2>1. Follows(d) /\ d \in online
    BY <1>8 DEF Follows
  <2> SUFFICES ASSUME NEW m \in Entries(history[room[d]]) PROVE Has(d, m)'
    BY DEF Covered, Entries
  <2>2. Has(d, m)
    BY <2>1 DEF DeliveryInv, CoverInv, Covered
  <2>3. CASE Queued(m) \/ InFan(m, d)
    <3>1. m \in seen'[d] \/ m \in lost' \/ Queued(m)' \/ InFan(m, d)'
      BY <2>1, <2>3
    <3> QED BY <3>1 DEF Has, OnItsWay, Queued, InFan, Fanning
  <2>4. CASE \E a \in Conn : pc[a] = "post" /\ m = MyMsg(a)
    BY <2>4 DEF Has, OnItsWay, MyMsg
  <2>5. CASE m \in seen[d] \/ m \in lost \/ (d \notin synced /\ m \in payload[d])
    BY <2>5 DEF Has
  <2> QED BY <2>2, <2>3, <2>4, <2>5 DEF Has, OnItsWay, Queued, InFan, Fanning
<1> QED BY <1>1, <1>6, <1>7, <1>8 DEF DeliveryInv, CoverInv

\* In particular a step that touches none of it.
LEMMA AsideDelivery ==
    ASSUME SessionInv, DeliveryInv,
           UNCHANGED <<pc, lines, lroom, auth, queue, history, payload, fanVars, online,
                       room, ghostVars>>
    PROVE  DeliveryInv'
<1>1. Fanning' <=> Fanning
  BY DEF Fanning
<1>2. \A m, d : (Queued(m)' <=> Queued(m)) /\ (InFan(m, d)' <=> InFan(m, d))
  BY DEF Queued, InFan, Fanning
<1> QED BY <1>1, <1>2, FanDelivery

\* A kept message is fanned out to the sessions of its room.
LEMMA FanRoom ==
    ASSUME SessionInv, DeliveryInv, NEW d \in online, Fanning,
           bmsg.id \in Entries(history[room[d]])
    PROVE  bmsg \in Event /\ bmsg.kind = "CHAT" /\ bmsg.room = room[d]
<1>1. bmsg \in Event /\ room[d] \in Room
  BY DEF SessionInv, FanOK, TypeOK, Fanning
<1>2. bmsg.kind = "CHAT"
  BY <1>1, MessagesAreIds
<1>3. EventOK(bmsg)
  BY DEF DeliveryInv, PostedInv
<1> QED BY <1>1, <1>2, <1>3 DEF EventOK

\* The walk comes to every node that was ahead of it.
LEMMA VisitReaches ==
    ASSUME NEW S \in SUBSET online, Visit(S), NEW d \in S, room[d] = bmsg.room,
           NEW m, bmsg.id = m
    PROVE  InFan(m, d)'
<1>1. PICK x \in S : /\ bmsg' = bmsg /\ bcur' = x /\ btodo' = S \ {x}
                     /\ bpc' = IF room[x] = bmsg.room THEN "send" ELSE "next"
  BY DEF Visit
<1>2. CASE d = x
  BY <1>1, <1>2 DEF InFan, Fanning
<1>3. CASE d # x
  BY <1>1, <1>3 DEF InFan, Fanning
<1> QED BY <1>2, <1>3

\* The broadcaster.
LEMMA BroadcasterDelivery ==
    ASSUME SessionInv, DeliveryInv, Broadcaster
    PROVE  DeliveryInv'
<1>0. /\ queue \in Seq(Event) /\ Len(queue) \in Nat /\ seen \in [Conn -> SUBSET MsgId]
      /\ online \subseteq Conn
  BY LenProperties DEF SessionInv, TypeOK
<1>1. ASSUME OnlyFans
      PROVE  UNCHANGED <<pc, lines, lroom, auth, history, payload, online, room, synced>>
  BY <1>1 DEF OnlyFans
<1>2. ASSUME NEW S \in SUBSET online, Visit(S)
      PROVE  Fanning' => bmsg' = bmsg
  BY <1>2 DEF Visit, FanEnd, Fanning
<1>3. ASSUME NEW d \in online, NEW m \in Entries(history[room[d]]), InFan(m, d),
             lost' = LostNow
      PROVE  m \in lost'
  BY <1>3, FanRoom DEF InFan, LostNow
<1>4. lost' = LostNow => lost \subseteq lost'
  BY DEF LostNow
<1>5. CASE BroadcasterPop
  <2>1. /\ queue # <<>> /\ bpc = "pop" /\ bpc' = "start" /\ bmsg' = Head(queue)
        /\ queue' = Tail(queue) /\ UNCHANGED <<seen, lost>>
    BY <1>5 DEF BroadcasterPop
  <2>2. /\ Len(queue) > 0 /\ bmsg' = queue[1] /\ Len(queue') = Len(queue) - 1
        /\ \A i \in 1..Len(queue') : queue'[i] = queue[i + 1]
    BY <1>0, <2>1, HeadTailProperties, EmptySeq
  <2>3. \A i \in 1..Len(queue') : \E k \in 1..Len(queue) : queue'[i] = queue[k]
    BY <1>0, <2>2
  <2>4. ASSUME NEW m, NEW i \in 1..Len(queue), queue[i].id = m, NEW d
        PROVE  Queued(m)' \/ InFan(m, d)'
    <3>1. CASE i = 1
      BY <2>1, <2>2, <2>4, <3>1 DEF InFan, Fanning
    <3>2. CASE i # 1
      <4>1. i - 1 \in 1..Len(queue') /\ (i - 1) + 1 = i
        BY <1>0, <2>2, <3>2
      <4>2. queue'[i - 1].id = m
        BY <2>2, <2>4, <4>1
      <4> QED BY <4>1, <4>2 DEF Queued
    <3> QED BY <3>1, <3>2
  <2>5. \A m, d : ~InFan(m, d)
    BY <2>1 DEF InFan, Fanning
  <2>6. \A m, d : Queued(m) => Queued(m)' \/ InFan(m, d)'
    BY <2>4 DEF Queued
  <2>7. \E k \in 1..Len(queue) : bmsg' = queue[k]
    BY <1>0, <2>2
  <2> QED BY <1>1, <1>5, <2>1, <2>3, <2>5, <2>6, <2>7, FanDelivery DEF BroadcasterPop
<1>6. ASSUME OnlyFans, queue' = queue, lost \subseteq lost',
             \A d \in Conn : seen[d] \subseteq seen'[d],
             Fanning' => Fanning /\ bmsg' = bmsg,
             \A d \in online : \A m \in Entries(history[room[d]]) :
                 InFan(m, d) => m \in seen'[d] \/ m \in lost' \/ InFan(m, d)'
      PROVE  DeliveryInv'
  <2>1. \A m : Queued(m) => Queued(m)'
    BY <1>6 DEF Queued
  <2>2. \A d \in online : \A m \in Entries(history[room[d]]) :
            Queued(m) \/ InFan(m, d) =>
                m \in seen'[d] \/ m \in lost' \/ Queued(m)' \/ InFan(m, d)'
    BY <1>6, <2>1
  <2>3. \A i \in 1..Len(queue') : \E k \in 1..Len(queue) : queue'[i] = queue[k]
    BY <1>6
  <2> QED BY <1>1, <1>6, <2>2, <2>3, FanDelivery
<1>7. CASE BroadcasterStop
  <2>1. ~Fanning /\ ~Fanning'
    BY <1>7 DEF BroadcasterStop, Fanning
  <2> QED BY <1>6, <1>7, <2>1 DEF BroadcasterStop, InFan
<1>8. CASE FanStart \/ FanNext
  <2>1. PICK S \in SUBSET online :
            Visit(S) /\ S = IF bpc = "start" THEN online ELSE btodo \cap online
    BY <1>8 DEF FanStart, FanNext
  <2>2. bpc \in {"start", "next"} /\ OnlyFans /\ UNCHANGED <<queue, seen, lost>>
    BY <1>8 DEF FanStart, FanNext
  <2>3. ASSUME NEW d \in online, NEW m \in Entries(history[room[d]]), InFan(m, d)
        PROVE  InFan(m, d)'
    <3>1. d \in S /\ bmsg.id = m /\ Fanning
      BY <2>1, <2>2, <2>3 DEF InFan
    <3>2. room[d] = bmsg.room
      BY <2>3, <3>1, FanRoom
    <3> QED BY <2>1, <3>1, <3>2, VisitReaches
  <2>4. Fanning' => Fanning /\ bmsg' = bmsg
    BY <1>2, <2>1, <2>2 DEF Fanning
  <2> QED BY <1>6, <2>2, <2>3, <2>4
<1>9. CASE FanFreed
  <2>1. PICK S \in SUBSET online : Visit(S)
    BY <1>9 DEF FanFreed
  <2>2. Fanning' => Fanning /\ bmsg' = bmsg
    BY <1>2, <1>9, <2>1 DEF FanFreed, Fanning
  <2> QED BY <1>3, <1>4, <1>6, <1>9, <2>2 DEF FanFreed
<1>10. CASE FanSend
  <2>1. /\ bpc = "send" /\ bpc' = "next" /\ OnlyFans
        /\ UNCHANGED <<queue, bmsg, bcur, btodo, lost>>
        /\ seen' = [d \in Conn |-> IF d \in Owner(fd[bcur]) /\ bmsg.kind = "CHAT"
                                   THEN seen[d] \cup {bmsg.id} ELSE seen[d]]
    BY <1>10 DEF FanSend
  <2>2. ASSUME NEW d \in online, NEW m \in Entries(history[room[d]]), InFan(m, d)
        PROVE  m \in seen'[d] \/ InFan(m, d)'
    <3>1. CASE d \in btodo
      BY <2>1, <2>2, <3>1 DEF InFan, Fanning
    <3>2. CASE bcur = d
      <4>1. d \in Conn /\ d \in open
        BY <1>0 DEF SessionInv, SessionOK, Registered
      <4>2. d \in Owner(fd[bcur]) /\ bmsg.kind = "CHAT" /\ bmsg.id = m
        BY <2>2, <3>2, <4>1, FanRoom DEF Owner, InFan
      <4> QED BY <2>1, <4>1, <4>2
    <3> QED BY <2>1, <2>2, <3>1, <3>2 DEF InFan
  <2>3. \A d \in Conn : seen[d] \subseteq seen'[d]
    BY <2>1
  <2>4. Fanning
    BY <2>1 DEF Fanning
  <2> QED BY <1>6, <2>1, <2>2, <2>3, <2>4
<1>11. CASE FanFails
  <2>1. ~Fanning'
    BY <1>11 DEF FanFails, FanEnd, Fanning
  <2> QED BY <1>3, <1>4, <1>6, <1>11, <2>1 DEF FanFails
<1>12. CASE FanFreedKilled \/ FanKilled
  BY <1>12, AsideDelivery DEF FanFreedKilled, FanKilled, Killed, threadVars
<1> QED BY <1>5, <1>7, <1>8, <1>9, <1>10, <1>11, <1>12 DEF Broadcaster

-----------------------------------------------------------------------------
(* The theorems.                                                           *)

\* Every step of the system keeps the invariant.
LEMMA DeliveryStep ==
    ASSUME SessionInv, PresenceInv, DeliveryInv, [Next]_vars
    PROVE  DeliveryInv'
<1>0. pc \in [Conn -> PC]
  BY DEF SessionInv, TypeOK
<1>1. ASSUME NEW c \in Conn, Handler(c) PROVE DeliveryInv'
  <2>1. CASE HandlerKilled(c)
    BY <2>1, AsideDelivery DEF HandlerKilled, Killed, threadVars
  <2> QED BY <1>1, <2>1, ReadsDelivery, QuietDelivery, RegistryDelivery, HistoryDelivery,
             StoreDelivery, PostDelivery DEF Handler, HandlerWorks
<1>2. ASSUME NEW c \in Conn, Accept(c) \/ Start(c) \/ StartFails(c) \/ Reject(c)
      PROVE  DeliveryInv'
  <2>1. PICK q \in {"start", "recv", "disc", "gone"} : Goto(c, q)
    BY <1>2 DEF Accept, Start, StartFails, StartUnwinds, Reject, Loop
  <2>2. /\ pc[c] \in {"new", "start"} /\ pc'[c] = q /\ \A d \in Conn \ {c} : pc'[d] = pc[d]
        /\ UNCHANGED <<lines, lroom, auth, queue, history, payload, fanVars, lost, online,
                       room, seen, synced>>
    BY <1>0, <1>2, <2>1 DEF Accept, Start, StartFails, StartUnwinds, Reject
  <2>3. Steady(c) /\ QueuesNoMessage
    BY <2>2 DEF Steady, QueuesNoMessage
  <2>4. SyncedOK(c)'
    BY <2>2 DEF DeliveryInv, SyncedOK
  <2> QED BY <2>2, <2>3, <2>4, SteadyInPlace
<1>3. CASE AcceptInterrupted \/ ShutdownQueue \/ Exit \/ Signal
  BY <1>3, AsideDelivery DEF AcceptInterrupted, ShutdownQueue, Exit, Signal, threadVars
<1>4. ASSUME NEW c \in Conn, PeerClose(c) PROVE DeliveryInv'
  BY <1>4, AsideDelivery DEF PeerClose
<1>5. CASE UNCHANGED vars
  BY <1>5, AsideDelivery DEF vars
<1> QED BY <1>1, <1>2, <1>3, <1>4, <1>5, BroadcasterDelivery DEF Next, Main

\* The invariant holds in every state of every behaviour.
THEOREM DeliveryInvariant == Spec => []DeliveryInv
<1>1. Init => DeliveryInv
  <2> SUFFICES ASSUME Init PROVE DeliveryInv
    OBVIOUS
  <2>1. KeptInv
    BY DEF Init, KeptInv, Entries
  <2>2. PostedInv
    BY DEF Init, PostedInv, Fanning
  <2> QED BY <2>1, <2>2 DEF Init, DeliveryInv, SyncedOK, CoverInv, Follows
<1>2. SessionInv /\ PresenceInv /\ DeliveryInv /\ [Next]_vars => DeliveryInv'
  BY DeliveryStep
<1> QED BY <1>1, <1>2, SessionInvariant, PresenceInvariant, PTL DEF Spec

\* The broadcaster has left its loop only if the server was told to stop.
StaysInv == running => bpc # "done" /\ ~closed /\ mpc \in {"accept", "start"}

\* Only a signal ends it, and what the threads do once they have seen it.
LEMMA StaysStep ==
    ASSUME StaysInv, [Next]_vars
    PROVE  StaysInv'
<1> USE DEF StaysInv
<1>1. CASE Main
  <2>1. CASE ShutdownQueue \/ Exit \/ AcceptInterrupted
    BY <2>1 DEF ShutdownQueue, Exit, AcceptInterrupted, threadVars
  <2>2. ASSUME NEW c \in Conn, Accept(c) \/ Start(c) \/ StartFails(c) \/ Reject(c)
        PROVE  StaysInv'
    BY <2>2 DEF Accept, Start, StartFails, StartUnwinds, Reject, AcceptLoop
  <2> QED BY <1>1, <2>1, <2>2 DEF Main
<1>2. CASE Signal
  BY <1>2 DEF Signal
<1>3. CASE Broadcaster
  BY <1>3 DEF Broadcaster, BroadcasterPop, BroadcasterStop, FanStart, FanNext, FanFreed,
              FanFreedKilled, FanSend, FanFails, FanKilled, Killed, threadVars, OnlyFans,
              Visit, FanEnd
<1>4. ASSUME NEW c \in Conn, Handler(c) PROVE StaysInv'
  <2>1. UNCHANGED <<running, closed, mpc, bpc>>
    BY <1>4 DEF Handler, HandlerReads, HandlerWorks, HandleOther, HandleQuit, HandleAuth,
                HandleJoinRoom, HandleMsg, HandleHistory, HandlePm, HandleKick, Command, Read,
                RecvEof, Reply, Refuse, AuthExists, AuthAdd, AuthAddFails, AuthWelcome,
                AuthUndo, RoomJoined, FormatHistory, SendHistory, AuthOk, AuthAnnounce,
                JoinLeave, JoinMove, JoinArrive, MsgStore, MsgPost, PmSend, KickNotify,
                KickCut, DiscLeave, DiscRemove, DiscClose, DiscRelease, HandlerKilled,
                Killed, threadVars, OnlyMoves, OnlyQueues, OnlySends
  <2> QED BY <2>1
<1>5. ASSUME NEW c \in Conn, PeerClose(c) PROVE StaysInv'
  BY <1>5 DEF PeerClose
<1>6. CASE UNCHANGED vars
  BY <1>6 DEF vars
<1> QED BY <1>1, <1>2, <1>3, <1>4, <1>5, <1>6 DEF Next

\* As long as no signal has arrived, the broadcaster is in its loop, the queue is
\* open and the main thread accepts connections.
THEOREM StaysInvariant == Spec => []StaysInv
<1>1. Init => StaysInv
  BY DEF Init, StaysInv
<1>2. StaysInv /\ [Next]_vars => StaysInv'
  BY StaysStep
<1> QED BY <1>1, <1>2, PTL DEF Spec

\* A session that was sent the history of its room misses no message that the
\* room keeps, whatever handlers store and post between the copy of the history
\* and its sending, and between the history and the walks of the broadcaster.
THEOREM NothingMissed == Spec => []NoGap
<1>1. SessionInv /\ DeliveryInv /\ StaysInv => NoGap
  BY DEF SessionInv, TypeOK, DeliveryInv, CoverInv, Follows, Covered, Has, OnItsWay,
         StaysInv, Pending, NoGap
<1> QED BY <1>1, SessionInvariant, DeliveryInvariant, StaysInvariant, PTL
=============================================================================
