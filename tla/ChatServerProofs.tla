-------------------------- MODULE ChatServerProofs --------------------------
(***************************************************************************)
(* Proofs about ChatServer, for any number of connections, descriptors,    *)
(* users and rooms: its types, that sessions, descriptors and registry     *)
(* nodes stay matched one to one, that connections are counted right, and  *)
(* that the events the server queues tell a coherent story about every     *)
(* user, across room changes, disconnects and new logins.                  *)
(***************************************************************************)
EXTENDS ChatServer, SequenceTheorems, FiniteSetTheorems, TLAPS

-----------------------------------------------------------------------------
(* The inductive invariant.                                                *)

\* What the position of a handler says about its session: its command, whether
\* it is authenticated, that its descriptor is open exactly until it closes it,
\* and that its node is in the registry exactly from adding to removing it.
SessionOK(c) ==
    /\ pc[c] \in {"exists", "add", "welcome"} => arg[c] \in Line /\ arg[c].cmd = "AUTH"
    /\ pc[c] \in {"leave", "move"} => arg[c] \in Line /\ arg[c].cmd = "JOIN_ROOM"
    /\ pc[c] \in {"joined", "format", "history"} =>
           arg[c] \in Line /\ (auth[c] <=> arg[c].cmd # "AUTH")
    /\ pc[c] \in {"store", "post"} => lines[c] # 0
    /\ pc[c] \in {"new", "start", "bye", "full", "exists", "add", "welcome", "undo", "ok",
                  "announce"} => ~auth[c]
    /\ pc[c] \in {"leave", "move", "arrive", "store", "post", "whisper", "notify",
                  "cut", "remove"} => auth[c]
    /\ c \in open <=> pc[c] \notin {"new", "release", "gone"}
    /\ c \in open => fd[c] \in Fd
    /\ c \in online <=> Registered(c)
    /\ c \in online => uname[c] \in User

\* The broadcaster has a message while it fans out, and a node while it sends.
FanOK == /\ bpc \in {"start", "send", "next"} => bmsg \in Event
         /\ bpc \in {"send", "next"} => bcur \in Conn

FdsUnique == \A c, d \in open : fd[c] = fd[d] => c = d

SessionInv == /\ TypeOK
              /\ FanOK
              /\ \A c \in Conn : SessionOK(c)
              /\ FdsUnique
              /\ NamesUnique

USE DEF mainVars, handlerVars, socketVars, registryVars, roomVars, fanVars, ghostVars,
        At, Goto

-----------------------------------------------------------------------------
(* What the shared operations preserve.                                    *)

\* Pushing an event keeps the queue a sequence of events.
LEMMA PushType ==
    ASSUME TypeOK, NEW e \in Event, mq_push(e) \/ mq_push_fails
    PROVE  queue' \in Seq(Event) /\ presence' \in [User -> Room \cup {None}]
<1>1. e.user \in User /\ Announced(e) \in Room \cup {None}
  BY DEF Event, Announced
<1>2. Append(queue, e) \in Seq(Event)
  BY AppendProperties DEF TypeOK
<1> QED BY <1>1, <1>2 DEF TypeOK, mq_push, mq_push_fails

\* So does announcing a user's arrival or departure.
LEMMA RoomEventType ==
    ASSUME TypeOK, NEW k \in {"JOIN", "LEAVE"}, NEW u \in User, NEW r \in Room,
           enqueue_room_event(k, u, r)
    PROVE  queue' \in Seq(Event) /\ presence' \in [User -> Room \cup {None}]
<1> DEFINE e == [kind |-> k, user |-> u, room |-> r, id |-> None]
<1>1. e \in Event
  BY DEF Event
<1>2. mq_push(e) \/ mq_push_fails
  BY DEF enqueue_room_event
<1> QED BY <1>1, <1>2, PushType

\* Storing a message keeps the histories sequences of messages.
LEMMA HistoryType ==
    ASSUME TypeOK, NEW r \in Room, NEW m \in MsgId,
           room_history_add(r, m) \/ room_history_add_fails(r)
    PROVE  history' \in [Room -> Seq(MsgId)] /\ rooms' \subseteq Room
<1> DEFINE S == Seq(MsgId)
           v == IF Len(history[r]) < MaxHistory
                THEN Append(history[r], m) ELSE Append(Tail(history[r]), m)
<1>1. history[r] \in Seq(MsgId) /\ Len(history[r]) \in Nat /\ MaxHistory \in Nat \ {0}
  BY LenProperties, BoundAssumption DEF TypeOK
<1>2. v \in S
  <2>1. CASE Len(history[r]) < MaxHistory
    BY <1>1, <2>1, AppendProperties
  <2>2. CASE ~(Len(history[r]) < MaxHistory)
    <3>1. history[r] # <<>>
      BY <1>1, <2>2, EmptySeq
    <3>2. Tail(history[r]) \in Seq(MsgId)
      BY <1>1, <3>1, HeadTailProperties
    <3> QED BY <2>2, <3>2, AppendProperties
  <2> QED BY <2>1, <2>2
<1>3. \/ history' = [history EXCEPT ![r] = v] /\ rooms' = rooms \cup {r}
      \/ history' = history /\ rooms' = rooms
  BY DEF TypeOK, room_history_add, room_history_add_fails
<1>4. history \in [Room -> S] /\ rooms \subseteq Room
  BY DEF TypeOK
<1> HIDE DEF v, S
<1>5. history' \in [Room -> S] /\ rooms' \subseteq Room
  BY <1>2, <1>3, <1>4
<1> QED BY <1>5 DEF S

\* A send() changes at most what is known of the peer it goes to.
LEMMA SendType ==
    ASSUME TypeOK, NEW f, SendOk(f) \/ SendErr(f)
    PROVE  peer' \in [Conn -> {"open", "closed", "reset"}]
BY DEF TypeOK, SendOk, SendErr, Owner

\* A node's descriptor is open and no other node has it.
LEMMA OwnNode ==
    ASSUME SessionInv, NEW c \in online
    PROVE  ByFd(fd[c]) = {c}
<1>1. \A d \in online : d \in open
  BY DEF SessionInv, TypeOK, SessionOK, Registered
<1> QED BY <1>1 DEF SessionInv, FdsUnique, ByFd

-----------------------------------------------------------------------------
(* A step of one handler that opens and closes no descriptor and leaves    *)
(* the registry's nodes where they are.                                    *)

\* Such a step keeps the invariant if it keeps it for the handler's session.
LEMMA QuietStep ==
    ASSUME SessionInv, TypeOK', UNCHANGED fanVars, NEW c \in Conn,
           UNCHANGED <<open, fd, online, uname>>,
           \A d \in Conn \ {c} : /\ pc'[d] = pc[d] /\ auth'[d] = auth[d]
                                 /\ arg'[d] = arg[d] /\ lines'[d] = lines[d],
           SessionOK(c)'
    PROVE  SessionInv'
<1>1. FanOK' /\ FdsUnique' /\ NamesUnique'
  BY DEF SessionInv, FanOK, FdsUnique, NamesUnique
<1>2. ASSUME NEW d \in Conn \ {c} PROVE SessionOK(d)'
  <2>1. SessionOK(d)
    BY DEF SessionInv
  <2> QED BY <2>1 DEF SessionOK, Registered
<1> QED BY <1>1, <1>2 DEF SessionInv

\* In particular a step that reads a line and goes on at q.
LEMMA ReadStep ==
    ASSUME SessionInv, NEW c \in Conn, Read(c), NEW q \in PC, Goto(c, q),
           arg' \in [Conn -> Line \cup {None}], \A d \in Conn \ {c} : arg'[d] = arg[d],
           lroom' \in [Conn -> Room], tfd' \in [Conn -> Fd \cup {None}],
           q \in {"reply", "disc"} \/ SessionOK(c)'
    PROVE  SessionInv'
<1>1. SessionOK(c)
  BY DEF SessionInv
<1>2. lines' \in [Conn -> Nat]
  BY BoundAssumption DEF SessionInv, TypeOK, Read
<1>3. TypeOK'
  BY <1>2 DEF SessionInv, TypeOK, Read
<1>4. pc[c] = "recv" /\ pc'[c] = q /\ UNCHANGED <<auth, open, fd, online, uname>>
  BY DEF Read, SessionInv, TypeOK
<1>5. SessionOK(c)'
  BY <1>1, <1>4 DEF SessionOK, Registered
<1>6. \A d \in Conn \ {c} : /\ pc'[d] = pc[d] /\ auth'[d] = auth[d]
                            /\ arg'[d] = arg[d] /\ lines'[d] = lines[d]
  BY DEF Read, SessionInv, TypeOK
<1> QED BY <1>3, <1>4, <1>5, <1>6, QuietStep DEF Read

\* Reading any line keeps the invariant.
LEMMA HandlerReadsStep ==
    ASSUME SessionInv, NEW c \in Conn, HandlerReads(c)
    PROVE  SessionInv'
<1> USE DEF SessionInv
<1>0. /\ pc \in [Conn -> PC] /\ arg \in [Conn -> Line \cup {None}]
      /\ lroom \in [Conn -> Room] /\ room \in [Conn -> Room]
      /\ tfd \in [Conn -> Fd \cup {None}] /\ fd \in [Conn -> Fd \cup {None}]
      /\ online \subseteq Conn
  BY DEF TypeOK
<1>1. CASE HandleOther(c)
  <2>1. Read(c) /\ Goto(c, "reply") /\ UNCHANGED <<arg, lroom, tfd>>
    BY <1>1 DEF HandleOther
  <2> QED BY <1>0, <2>1, ReadStep DEF PC
<1>2. CASE HandleQuit(c)
  <2>1. Read(c) /\ Goto(c, "disc") /\ UNCHANGED <<arg, lroom, tfd>>
    BY <1>2 DEF HandleQuit
  <2> QED BY <1>0, <2>1, ReadStep DEF PC
<1>3. CASE HandleAuth(c)
  <2>1. PICK l \in Line :
            /\ Read(c) /\ ~auth[c] /\ arg' = [arg EXCEPT ![c] = l]
            /\ UNCHANGED <<lroom, tfd>>
            /\ \/ l.cmd = "AUTH" /\ Goto(c, "exists")
               \/ Goto(c, "bye")
    BY <1>3, InputsAssumption DEF HandleAuth
  <2>2. /\ arg' \in [Conn -> Line \cup {None}] /\ \A d \in Conn \ {c} : arg'[d] = arg[d]
        /\ arg'[c] = l
    BY <1>0, <2>1
  <2>3. SessionOK(c)'
    <3>1. SessionOK(c)
      OBVIOUS
    <3> QED BY <1>0, <2>1, <2>2, <3>1 DEF SessionOK, Registered, Read
  <2> QED BY <1>0, <2>1, <2>2, <2>3, ReadStep DEF PC
<1>4. ASSUME NEW l \in Line, NEW k, Command(c, l, k), NEW S \in SUBSET Conn,
             NEW next, OwnRoom(c, S, next),
             \/ next = "leave" /\ k = "JOIN_ROOM"
             \/ next = "store"
             \/ next = "format" /\ k # "AUTH"
      PROVE  SessionInv'
  <2>1. /\ arg' \in [Conn -> Line \cup {None}] /\ \A d \in Conn \ {c} : arg'[d] = arg[d]
        /\ arg'[c] = l
    BY <1>0, <1>4 DEF Command
  <2>2. lroom' \in [Conn -> Room] /\ tfd' = tfd
    BY <1>0, <1>4 DEF OwnRoom
  <2>3. Read(c) /\ auth[c] /\ l.cmd = k
    BY <1>4 DEF Command
  <2>4. Goto(c, "reply") \/ Goto(c, next)
    BY <1>4 DEF OwnRoom
  <2>5. Goto(c, next) => SessionOK(c)'
    <3>1. SessionOK(c)
      OBVIOUS
    <3>2. lines'[c] \in Nat \ {0}
      BY <2>3, BoundAssumption DEF Read, TypeOK
    <3> QED BY <1>0, <1>4, <2>1, <2>3, <3>1, <3>2 DEF SessionOK, Registered, Read
  <2> QED BY <1>0, <1>4, <2>1, <2>2, <2>3, <2>4, <2>5, ReadStep DEF PC
<1>5. CASE HandleJoinRoom(c)
  <2>1. PICK l \in Line :
            /\ Command(c, l, "JOIN_ROOM")
            /\ OwnRoom(c, {d \in ByFd(fd[c]) : room[d] # l.room}, "leave")
    BY <1>5, InputsAssumption DEF HandleJoinRoom
  <2> QED BY <1>0, <1>4, <2>1 DEF ByFd
<1>6. CASE HandleMsg(c)
  <2>1. PICK l \in Line : Command(c, l, "MSG") /\ OwnRoom(c, ByFd(fd[c]), "store")
    BY <1>6, InputsAssumption DEF HandleMsg
  <2> QED BY <1>0, <1>4, <2>1 DEF ByFd
<1>7. CASE HandleHistory(c)
  <2>1. PICK l \in Line : Command(c, l, "HISTORY") /\ OwnRoom(c, ByFd(fd[c]), "format")
    BY <1>7, InputsAssumption DEF HandleHistory
  <2> QED BY <1>0, <1>4, <2>1 DEF ByFd
<1>8. ASSUME NEW l \in Line, NEW k, Command(c, l, k), NEW ok \in BOOLEAN,
             NEW next \in {"whisper", "notify"}, Target(c, l, ok, next)
      PROVE  SessionInv'
  <2>1. /\ arg' \in [Conn -> Line \cup {None}] /\ \A d \in Conn \ {c} : arg'[d] = arg[d]
    BY <1>0, <1>8 DEF Command
  <2>2. tfd' \in [Conn -> Fd \cup {None}] /\ lroom' = lroom
    BY <1>0, <1>8 DEF Target, ByName
  <2>3. Read(c) /\ auth[c]
    BY <1>8 DEF Command
  <2>4. Goto(c, "reply") \/ Goto(c, next)
    BY <1>8 DEF Target
  <2>5. Goto(c, next) => SessionOK(c)'
    <3>1. SessionOK(c)
      OBVIOUS
    <3> QED BY <1>0, <1>8, <2>3, <3>1 DEF SessionOK, Registered, Read
  <2> QED BY <1>0, <1>8, <2>1, <2>2, <2>3, <2>4, <2>5, ReadStep DEF PC
<1>9. CASE HandlePm(c)
  <2>1. PICK l \in Line :
            Command(c, l, "PM") /\ Target(c, l, ByFd(fd[c]) # {}, "whisper")
    BY <1>9, InputsAssumption DEF HandlePm
  <2> QED BY <1>8, <2>1
<1>10. CASE HandleKick(c)
  <2>1. PICK l \in Line :
            Command(c, l, "KICK") /\ Target(c, l, IsAdmin(fd[c]), "notify")
    BY <1>10, InputsAssumption DEF HandleKick
  <2>2. IsAdmin(fd[c]) \in BOOLEAN
    BY DEF IsAdmin
  <2> QED BY <1>8, <2>1, <2>2
<1> QED BY <1>1, <1>2, <1>3, <1>5, <1>6, <1>7, <1>9, <1>10 DEF HandlerReads

\* A step whose only effect is to move the handler from p to q, its locals
\* aside, and that leaves everything else typed.
LEMMA MoveStep ==
    ASSUME SessionInv, TypeOK', UNCHANGED fanVars, NEW c \in Conn,
           UNCHANGED <<open, fd, online, uname, lines>>,
           NEW q \in PC, Goto(c, q),
           \A d \in Conn \ {c} : auth'[d] = auth[d] /\ arg'[d] = arg[d],
           SessionOK(c)'
    PROVE  SessionInv'
<1>1. \A d \in Conn \ {c} : pc'[d] = pc[d] /\ lines'[d] = lines[d]
  BY DEF SessionInv, TypeOK
<1> QED BY <1>1, QuietStep

\* A step that sends, moves the handler and sets its locals to typed values
\* leaves everything typed.
LEMMA SendTypes ==
    ASSUME TypeOK, NEW c \in Conn, NEW q \in PC, Goto(c, q), OnlySends, UNCHANGED ghostVars,
           peer' \in [Conn -> {"open", "closed", "reset"}],
           arg' \in [Conn -> Line \cup {None}],
           lroom' \in [Conn -> Room], tfd' \in [Conn -> Fd \cup {None}]
    PROVE  TypeOK'
<1>1. pc' \in [Conn -> PC]
  BY DEF TypeOK
<1>2. UNCHANGED <<proc, running, closed, mpc, active, fd, auth, lines, open, shut, online,
                  uname, room>>
  BY DEF OnlySends
<1>3. UNCHANGED <<queue, rooms, history, payload, bpc, bmsg, bcur, btodo, seen, synced,
                  lost, presence>>
  BY DEF OnlySends
<1> QED BY <1>1, <1>2, <1>3 DEF TypeOK

\* Everything a handler does between two lines, but for adding and removing
\* its node and closing its descriptor.
LEMMA HandlerQuietStep ==
    ASSUME SessionInv, NEW c \in Conn,
           \/ RecvEof(c) \/ Reply(c) \/ Refuse(c) \/ AuthExists(c) \/ AuthAddFails(c)
           \/ AuthWelcome(c) \/ RoomJoined(c) \/ FormatHistory(c) \/ SendHistory(c)
           \/ AuthOk(c) \/ AuthAnnounce(c) \/ JoinLeave(c) \/ JoinMove(c) \/ JoinArrive(c)
           \/ MsgStore(c) \/ MsgPost(c) \/ PmSend(c) \/ KickNotify(c) \/ KickCut(c)
           \/ DiscLeave(c)
    PROVE  SessionInv'
<1> USE DEF SessionInv
<1>0. SessionOK(c) /\ pc \in [Conn -> PC] /\ auth \in [Conn -> BOOLEAN]
      /\ arg \in [Conn -> Line \cup {None}]
  BY DEF TypeOK
<1>1. ASSUME NEW q \in PC, Goto(c, q), OnlyMoves, SessionOK(c)' PROVE SessionInv'
  <2>1. TypeOK'
    BY <1>1 DEF TypeOK, OnlyMoves, OnlyQueues
  <2> QED BY <1>1, <2>1, MoveStep DEF OnlyMoves, OnlyQueues
<1>2. CASE RecvEof(c)
  <2>1. SessionOK(c)'
    BY <1>0, <1>2 DEF RecvEof, OnlyMoves, OnlyQueues, SessionOK, Registered
  <2> QED BY <1>1, <1>2, <2>1 DEF RecvEof, PC
<1>3. CASE AuthExists(c)
  <2>1. PICK q \in {"bye", "add"} : Goto(c, q)
    BY <1>3 DEF AuthExists
  <2>2. SessionOK(c)'
    BY <1>0, <1>3, <2>1 DEF AuthExists, OnlyMoves, OnlyQueues, SessionOK, Registered
  <2> QED BY <1>1, <1>3, <2>1, <2>2 DEF AuthExists, PC
<1>4. CASE AuthAddFails(c)
  <2>1. SessionOK(c)'
    BY <1>0, <1>4 DEF AuthAddFails, OnlyMoves, OnlyQueues, SessionOK, Registered
  <2> QED BY <1>1, <1>4, <2>1 DEF AuthAddFails, PC
<1>5. ASSUME NEW q \in PC, Goto(c, q), NEW f, SendOk(f) \/ SendErr(f),
             UNCHANGED <<arg, lroom, tfd>> \/ Return(c), OnlySends, UNCHANGED ghostVars,
             SessionOK(c)'
      PROVE  SessionInv'
  <2>1. peer' \in [Conn -> {"open", "closed", "reset"}]
    BY <1>5, SendType
  <2>2. /\ arg' \in [Conn -> Line \cup {None}] /\ \A d \in Conn \ {c} : arg'[d] = arg[d]
        /\ lroom' \in [Conn -> Room] /\ tfd' \in [Conn -> Fd \cup {None}]
    <3>1. CASE UNCHANGED <<arg, lroom, tfd>>
      BY <3>1 DEF TypeOK
    <3>2. CASE Return(c)
      BY <3>2, LobbyAssumption DEF TypeOK, Return
    <3> QED BY <1>5, <3>1, <3>2
  <2>3. TypeOK'
    BY <1>5, <2>1, <2>2, SendTypes
  <2> QED BY <1>5, <2>2, <2>3, MoveStep DEF OnlySends
<1>6. CASE Reply(c)
  <2>1. PICK q \in {"recv", "disc"} : Goto(c, q)
    BY <1>6 DEF Reply, Loop
  <2>2. SessionOK(c)'
    BY <1>0, <1>6, <2>1 DEF Reply, OnlySends, SessionOK, Registered
  <2> QED BY <1>5, <1>6, <2>1, <2>2 DEF Reply, PC
<1>7. CASE Refuse(c)
  <2>1. SessionOK(c)'
    BY <1>0, <1>7 DEF Refuse, OnlySends, SessionOK, Registered
  <2> QED BY <1>5, <1>7, <2>1 DEF Refuse, Send, PC
<1>8. CASE AuthWelcome(c)
  <2>1. PICK q \in {"joined", "undo"} :
            Goto(c, q) /\ (q = "joined" => arg[c] \in Line /\ arg[c].cmd = "AUTH")
    BY <1>0, <1>8 DEF AuthWelcome, SessionOK
  <2>2. SessionOK(c)'
    BY <1>0, <1>8, <2>1 DEF AuthWelcome, OnlySends, SessionOK, Registered
  <2> QED BY <1>5, <1>8, <2>1, <2>2 DEF AuthWelcome, PC
<1>9. CASE RoomJoined(c)
  <2>1. SessionOK(c)'
    BY <1>0, <1>9 DEF RoomJoined, OnlySends, SessionOK, Registered
  <2> QED BY <1>5, <1>9, <2>1 DEF RoomJoined, Send, PC
<1>10. CASE AuthOk(c)
  <2>1. SessionOK(c)'
    BY <1>0, <1>10 DEF AuthOk, OnlySends, SessionOK, Registered
  <2> QED BY <1>5, <1>10, <2>1 DEF AuthOk, Send, PC
<1>11. CASE PmSend(c)
  <2>1. SessionOK(c)'
    BY <1>0, <1>11 DEF PmSend, OnlySends, SessionOK, Registered
  <2> QED BY <1>5, <1>11, <2>1 DEF PmSend, Send, PC
<1>12. CASE KickNotify(c)
  <2>1. SessionOK(c)'
    BY <1>0, <1>12 DEF KickNotify, OnlySends, SessionOK, Registered
  <2> QED BY <1>5, <1>12, <2>1 DEF KickNotify, Send, PC
<1>13. CASE SendHistory(c)
  <2>1. PICK q \in {"ok", "arrive", "reply"} :
            /\ Goto(c, q)
            /\ q = "ok" => arg[c].cmd = "AUTH"
            /\ q # "ok" => arg[c].cmd # "AUTH"
    BY <1>13 DEF SendHistory, AfterHistory
  <2>2. SessionOK(c)'
    BY <1>0, <1>13, <2>1 DEF SendHistory, SessionOK, Registered
  <2>3. peer' \in [Conn -> {"open", "closed", "reset"}]
    BY <1>13, SendType DEF SendHistory
  <2>4. /\ seen' \in [Conn -> SUBSET MsgId] /\ synced' \subseteq Conn
        /\ payload' \in [Conn -> SUBSET MsgId]
    <3>1. /\ payload' = [payload EXCEPT ![c] = {}]
          /\ \/ seen' = [seen EXCEPT ![c] = @ \cup payload[c]] /\ synced' = synced \cup {c}
             \/ UNCHANGED <<seen, synced>>
      BY <1>13 DEF SendHistory
    <3>2. /\ seen \in [Conn -> SUBSET MsgId] /\ synced \subseteq Conn
          /\ payload \in [Conn -> SUBSET MsgId]
      BY DEF TypeOK
    <3> QED BY <3>1, <3>2
  <2>5. pc' \in [Conn -> PC]
    BY <1>0, <2>1 DEF PC
  <2>6. TypeOK'
    BY <1>13, <2>3, <2>4, <2>5 DEF SendHistory, TypeOK
  <2> QED BY <1>13, <2>1, <2>2, <2>6, MoveStep DEF SendHistory, PC
<1>23. CASE FormatHistory(c)
  <2>1. PICK q \in {"history", "ok", "arrive", "reply"} :
            /\ Goto(c, q)
            /\ q = "ok" => arg[c].cmd = "AUTH"
            /\ q \in {"arrive", "reply"} => arg[c].cmd # "AUTH"
    BY <1>23 DEF FormatHistory, AfterHistory
  <2>2. SessionOK(c)'
    BY <1>0, <1>23, <2>1 DEF FormatHistory, SessionOK, Registered
  <2>3. Entries(history[lroom[c]]) \subseteq MsgId
    BY DEF TypeOK, Entries
  <2>4. payload' \in [Conn -> SUBSET MsgId]
    BY <1>23, <2>3 DEF FormatHistory, TypeOK
  <2>5. pc' \in [Conn -> PC]
    BY <1>0, <2>1 DEF PC
  <2>6. TypeOK'
    BY <1>23, <2>4, <2>5 DEF FormatHistory, TypeOK
  <2> QED BY <1>23, <2>1, <2>2, <2>6, MoveStep DEF FormatHistory, PC
<1>14. ASSUME NEW q \in PC, Goto(c, q), NEW k \in {"JOIN", "LEAVE"}, NEW r \in Room,
              uname[c] \in User,
              enqueue_room_event(k, uname[c], r) \/ UNCHANGED <<queue, presence>>,
              OnlyQueues, UNCHANGED handlerVars, SessionOK(c)'
       PROVE  SessionInv'
  <2>1. queue' \in Seq(Event) /\ presence' \in [User -> Room \cup {None}]
    BY <1>14, RoomEventType DEF TypeOK
  <2>2. TypeOK'
    BY <1>14, <2>1 DEF TypeOK, OnlyQueues
  <2> QED BY <1>14, <2>2, MoveStep DEF OnlyQueues
<1>15. CASE JoinLeave(c)
  <2>1. SessionOK(c)' /\ uname[c] \in User
    BY <1>0, <1>15 DEF JoinLeave, OnlyQueues, SessionOK, Registered
  <2>2. lroom[c] \in Room
    BY DEF TypeOK
  <2> QED BY <1>14, <1>15, <2>1, <2>2 DEF JoinLeave, PC
<1>16. CASE JoinArrive(c)
  <2>1. SessionOK(c)' /\ uname[c] \in User
    BY <1>0, <1>16 DEF JoinArrive, OnlyQueues, SessionOK, Registered
  <2>2. lroom[c] \in Room
    BY DEF TypeOK
  <2> QED BY <1>14, <1>16, <2>1, <2>2 DEF JoinArrive, PC
<1>17. CASE DiscLeave(c)
  <2>1. PICK q \in {"remove", "close"} : Goto(c, q) /\ (q = "remove" <=> auth[c])
    BY <1>17 DEF DiscLeave
  <2>2. SessionOK(c)'
    BY <1>0, <1>17, <2>1 DEF DiscLeave, OnlyQueues, SessionOK, Registered
  <2>3. CASE auth[c] /\ ByFd(fd[c]) # {}
    <3>1. PICK d \in ByFd(fd[c]) : enqueue_room_event("LEAVE", uname[c], room[d])
      BY <1>17, <2>3 DEF DiscLeave
    <3>2. room[d] \in Room /\ uname[c] \in User
      BY <1>0, <1>17, <2>3, <3>1 DEF TypeOK, ByFd, DiscLeave, SessionOK, Registered
    <3> QED BY <1>14, <1>17, <2>1, <2>2, <3>1, <3>2 DEF DiscLeave, PC
  <2>4. CASE ~(auth[c] /\ ByFd(fd[c]) # {})
    <3>1. UNCHANGED <<queue, presence>>
      BY <1>17, <2>4 DEF DiscLeave
    <3> QED BY <1>1, <1>17, <2>1, <2>2, <3>1 DEF DiscLeave, OnlyMoves, PC
  <2> QED BY <2>3, <2>4
<1>18. CASE AuthAnnounce(c)
  <2>1. PICK q \in {"recv", "disc"} : Goto(c, q)
    BY <1>18 DEF AuthAnnounce, Loop
  <2>2. SessionOK(c)' /\ uname[c] \in User
    BY <1>0, <1>18, <2>1 DEF AuthAnnounce, OnlyQueues, SessionOK, Registered
  <2>3. queue' \in Seq(Event) /\ presence' \in [User -> Room \cup {None}]
    BY <1>18, <2>2, LobbyAssumption, RoomEventType DEF AuthAnnounce
  <2>4. /\ arg' \in [Conn -> Line \cup {None}] /\ \A d \in Conn \ {c} : arg'[d] = arg[d]
        /\ auth' \in [Conn -> BOOLEAN] /\ \A d \in Conn \ {c} : auth'[d] = auth[d]
        /\ lroom' \in [Conn -> Room] /\ tfd' \in [Conn -> Fd \cup {None}]
    BY <1>18, LobbyAssumption DEF AuthAnnounce, TypeOK, Return
  <2>5. TypeOK'
    BY <1>18, <2>1, <2>3, <2>4 DEF AuthAnnounce, TypeOK, OnlyQueues, PC
  <2> QED BY <1>18, <2>1, <2>2, <2>4, <2>5, MoveStep DEF AuthAnnounce, OnlyQueues, PC
<1>19. CASE JoinMove(c)
  <2>1. SessionOK(c)'
    BY <1>0, <1>19 DEF JoinMove, SessionOK, Registered
  <2>2. arg[c].room \in Room
    BY <1>0, <1>19 DEF JoinMove, SessionOK, Line
  <2>3. room' \in [Conn -> Room] /\ lroom' \in [Conn -> Room]
    BY <1>19, <2>2 DEF JoinMove, TypeOK, registry_set_room
  <2>4. TypeOK'
    BY <1>19, <2>3 DEF JoinMove, TypeOK, PC
  <2> QED BY <1>19, <2>1, <2>4, MoveStep DEF JoinMove, PC
<1>20. CASE MsgStore(c)
  <2>1. SessionOK(c)'
    BY <1>0, <1>20 DEF MsgStore, SessionOK, Registered
  <2>2. MyMsg(c) \in MsgId /\ lroom[c] \in Room
    BY <1>0, <1>20 DEF MsgStore, MyMsg, MsgId, SessionOK, TypeOK
  <2>3. history' \in [Room -> Seq(MsgId)] /\ rooms' \subseteq Room
    BY <1>20, <2>2, HistoryType DEF MsgStore
  <2>4. TypeOK'
    BY <1>20, <2>3 DEF MsgStore, TypeOK, PC
  <2> QED BY <1>20, <2>1, <2>4, MoveStep DEF MsgStore, PC
<1>21. CASE MsgPost(c)
  <2>1. SessionOK(c)' /\ uname[c] \in User
    BY <1>0, <1>21 DEF MsgPost, SessionOK, Registered
  <2>2. MyMsg(c) \in MsgId /\ lroom[c] \in Room
    BY <1>0, <1>21 DEF MsgPost, MyMsg, MsgId, SessionOK, TypeOK
  <2> DEFINE e == [kind |-> "CHAT", user |-> uname[c], room |-> lroom[c], id |-> MyMsg(c)]
  <2>3. e \in Event
    BY <2>1, <2>2 DEF Event
  <2>4. mq_push(e) \/ mq_push_fails
    BY <1>21 DEF MsgPost
  <2>5. queue' \in Seq(Event) /\ presence' \in [User -> Room \cup {None}]
    BY <2>3, <2>4, PushType
  <2>6. lost' \subseteq MsgId
    BY <1>21, <2>2 DEF MsgPost, TypeOK
  <2>7. TypeOK'
    BY <1>21, <2>5, <2>6 DEF MsgPost, TypeOK, PC
  <2> QED BY <1>21, <2>1, <2>7, MoveStep DEF MsgPost, PC
<1>22. CASE KickCut(c)
  <2>1. SessionOK(c)'
    BY <1>0, <1>22 DEF KickCut, SessionOK, Registered
  <2>2. TypeOK'
    BY <1>22 DEF KickCut, Owner, TypeOK, PC
  <2> QED BY <1>22, <2>1, <2>2, MoveStep DEF KickCut, PC
<1> QED BY <1>2, <1>3, <1>4, <1>6, <1>7, <1>8, <1>9, <1>10, <1>11, <1>12, <1>13, <1>15,
           <1>16, <1>17, <1>18, <1>19, <1>20, <1>21, <1>22, <1>23

\* Adding and removing the node, and closing the descriptor.
LEMMA HandlerRegistryStep ==
    ASSUME SessionInv, NEW c \in Conn,
           \/ AuthAdd(c) \/ AuthUndo(c) \/ DiscRemove(c) \/ DiscClose(c) \/ DiscRelease(c)
    PROVE  SessionInv'
<1> USE DEF SessionInv
<1>0. SessionOK(c) /\ pc \in [Conn -> PC] /\ arg \in [Conn -> Line \cup {None}]
      /\ uname \in [Conn -> User \cup {None}] /\ online \subseteq Conn /\ open \subseteq Conn
  BY DEF TypeOK
<1>1. FanOK'
  BY DEF FanOK, AuthAdd, AuthUndo, DiscRemove, DiscClose, DiscRelease
<1>2. c \in online => ByFd(fd[c]) = {c}
  BY OwnNode
<1>3. ASSUME NEW d \in Conn \ {c},
             pc'[d] = pc[d], auth'[d] = auth[d], arg'[d] = arg[d], lines'[d] = lines[d],
             fd'[d] = fd[d], uname'[d] = uname[d],
             d \in open' <=> d \in open, d \in online' <=> d \in online
      PROVE  SessionOK(d)'
  <2>1. SessionOK(d)
    OBVIOUS
  <2> QED BY <1>3, <2>1 DEF SessionOK, Registered
<1>4. CASE AuthAdd(c)
  <2>1. arg[c].who \in User
    BY <1>0, <1>4 DEF AuthAdd, SessionOK, Line
  <2>2. TypeOK'
    BY <1>4, <2>1, LobbyAssumption DEF AuthAdd, TypeOK, PC
  <2>3. SessionOK(c)'
    BY <1>0, <1>4, <2>1 DEF AuthAdd, SessionOK, Registered
  <2>4. \A d \in Conn \ {c} : SessionOK(d)'
    BY <1>0, <1>3, <1>4 DEF AuthAdd
  <2>5. NamesUnique'
    BY <1>0, <1>4 DEF AuthAdd, CanAdd, registry_username_exists, ByName, NamesUnique
  <2> QED BY <1>1, <1>4, <2>2, <2>3, <2>4, <2>5 DEF AuthAdd, FdsUnique
<1>5. ASSUME NEW q \in {"disc", "close"}, pc[c] \in {"undo", "remove"}, Goto(c, q),
             q = "disc" <=> pc[c] = "undo", registry_remove(fd[c]), TypeOK',
             UNCHANGED <<auth, lines, fd, uname, open>>,
             \A d \in Conn \ {c} : arg'[d] = arg[d]
      PROVE  SessionInv'
  <2>1. online' = online \ {c}
    BY <1>0, <1>2, <1>5 DEF registry_remove, SessionOK, Registered
  <2>2. SessionOK(c)'
    BY <1>0, <1>5, <2>1 DEF SessionOK, Registered
  <2>3. \A d \in Conn \ {c} : SessionOK(d)'
    BY <1>0, <1>3, <1>5, <2>1
  <2>4. NamesUnique' /\ FdsUnique'
    BY <1>5, <2>1 DEF NamesUnique, FdsUnique
  <2> QED BY <1>1, <1>5, <2>2, <2>3, <2>4
<1>6. CASE AuthUndo(c)
  <2>1. /\ arg' \in [Conn -> Line \cup {None}] /\ \A d \in Conn \ {c} : arg'[d] = arg[d]
        /\ lroom' \in [Conn -> Room] /\ tfd' \in [Conn -> Fd \cup {None}]
    BY <1>6, LobbyAssumption DEF AuthUndo, TypeOK, Return
  <2>2. TypeOK'
    BY <1>6, <2>1 DEF AuthUndo, TypeOK, PC, registry_remove
  <2> QED BY <1>5, <1>6, <2>1, <2>2 DEF AuthUndo
<1>7. CASE DiscRemove(c)
  <2>1. TypeOK'
    BY <1>7 DEF DiscRemove, TypeOK, PC, registry_remove
  <2> QED BY <1>5, <1>7, <2>1 DEF DiscRemove
<1>8. CASE DiscClose(c)
  <2>1. TypeOK'
    BY <1>8 DEF DiscClose, TypeOK, PC
  <2>2. SessionOK(c)'
    BY <1>0, <1>8 DEF DiscClose, SessionOK, Registered
  <2>3. \A d \in Conn \ {c} : SessionOK(d)'
    BY <1>0, <1>3, <1>8 DEF DiscClose
  <2>4. NamesUnique' /\ FdsUnique'
    BY <1>8 DEF DiscClose, NamesUnique, FdsUnique
  <2> QED BY <1>1, <2>1, <2>2, <2>3, <2>4
<1>9. CASE DiscRelease(c)
  <2>1. active' \in Nat
    BY <1>9 DEF DiscRelease, conn_track_decrement, TypeOK
  <2>2. TypeOK'
    BY <1>9, <2>1 DEF DiscRelease, TypeOK, PC
  <2>3. SessionOK(c)'
    BY <1>0, <1>9 DEF DiscRelease, SessionOK, Registered
  <2>4. \A d \in Conn \ {c} : SessionOK(d)'
    BY <1>0, <1>3, <1>9 DEF DiscRelease
  <2> QED BY <1>1, <1>9, <2>2, <2>3, <2>4 DEF DiscRelease, NamesUnique, FdsUnique
<1> QED BY <1>4, <1>6, <1>7, <1>8, <1>9

\* A step that leaves sessions, descriptors and nodes alone keeps the invariant
\* if it keeps the types and the broadcaster's part.
LEMMA AsideStep ==
    ASSUME SessionInv, TypeOK', FanOK',
           UNCHANGED <<pc, arg, auth, lines, open, fd, online, uname>>
    PROVE  SessionInv'
<1>1. ASSUME NEW c \in Conn PROVE SessionOK(c)'
  BY DEF SessionInv, SessionOK, Registered
<1> QED BY <1>1 DEF SessionInv, FdsUnique, NamesUnique

\* All a handler does.
LEMMA HandlerStep ==
    ASSUME SessionInv, NEW c \in Conn, Handler(c)
    PROVE  SessionInv'
<1>1. CASE HandlerKilled(c)
  BY <1>1, AsideStep DEF HandlerKilled, Killed, threadVars, SessionInv, TypeOK, FanOK
<1> QED BY <1>1, HandlerReadsStep, HandlerQuietStep, HandlerRegistryStep
        DEF Handler, HandlerWorks

\* The main thread, signals and peers.
LEMMA MainStep ==
    ASSUME SessionInv, Main \/ Signal \/ \E c \in Conn : PeerClose(c)
    PROVE  SessionInv'
<1> USE DEF SessionInv
<1>1. ASSUME NEW c \in Conn, Accept(c) PROVE SessionInv'
  <2>0. SessionOK(c) /\ pc \in [Conn -> PC] /\ fd \in [Conn -> Fd \cup {None}]
        /\ open \subseteq Conn
    BY DEF TypeOK
  <2>1. PICK f \in FreeFds : fd' = [fd EXCEPT ![c] = f]
    BY <1>1 DEF Accept
  <2>2. f \in Fd /\ \A d \in open : fd[d] # f
    BY DEF FreeFds
  <2>3. pc[c] = "new" /\ Goto(c, "start")
    BY <1>1 DEF Accept
  <2>4. active' \in Nat /\ mpc' = "start"
    BY <1>1 DEF Accept, conn_track_increment, TypeOK
  <2>5. fd' \in [Conn -> Fd \cup {None}] /\ pc' \in [Conn -> PC] /\ open' \subseteq Conn
    BY <1>1, <2>0, <2>1, <2>2, <2>3 DEF Accept, PC
  <2>6. TypeOK'
    BY <1>1, <2>4, <2>5 DEF Accept, TypeOK
  <2>7. SessionOK(c)'
    BY <1>1, <2>0, <2>1, <2>2, <2>3 DEF Accept, SessionOK, Registered
  <2>8. ASSUME NEW d \in Conn \ {c} PROVE SessionOK(d)'
    <3>1. SessionOK(d)
      OBVIOUS
    <3> QED BY <1>1, <2>0, <2>1, <2>3, <3>1 DEF Accept, SessionOK, Registered
  <2>9. FdsUnique'
    BY <1>1, <2>0, <2>1, <2>2 DEF Accept, FdsUnique
  <2>10. NamesUnique' /\ FanOK'
    BY <1>1 DEF Accept, NamesUnique, FanOK
  <2> QED BY <2>6, <2>7, <2>8, <2>9, <2>10
<1>2. ASSUME NEW c \in Conn, Reject(c) PROVE SessionInv'
  <2>0. SessionOK(c) /\ pc \in [Conn -> PC]
    BY DEF TypeOK
  <2>1. mpc' \in {"accept", "stop"}
    BY <1>2 DEF Reject, AcceptLoop
  <2>2. TypeOK'
    BY <1>2, <2>1 DEF Reject, TypeOK, PC
  <2>3. SessionOK(c)'
    BY <1>2, <2>0 DEF Reject, SessionOK, Registered
  <2> QED BY <1>2, <2>0, <2>2, <2>3, MoveStep DEF Reject, PC
<1>5. ASSUME NEW c \in Conn, Start(c) PROVE SessionInv'
  <2>0. SessionOK(c) /\ pc \in [Conn -> PC]
    BY DEF TypeOK
  <2>1. mpc' \in {"accept", "stop"}
    BY <1>5 DEF Start, AcceptLoop
  <2>2. PICK q \in {"recv", "disc"} : Goto(c, q)
    BY <1>5 DEF Start, Loop
  <2>3. TypeOK'
    BY <1>5, <2>1, <2>2 DEF Start, TypeOK, PC
  <2>4. SessionOK(c)'
    BY <1>5, <2>0, <2>2 DEF Start, SessionOK, Registered
  <2> QED BY <1>5, <2>0, <2>2, <2>3, <2>4, MoveStep DEF Start, PC
<1>6. ASSUME NEW c \in Conn, StartFails(c) PROVE SessionInv'
  <2>0. SessionOK(c) /\ pc \in [Conn -> PC]
    BY DEF TypeOK
  <2>1. mpc' \in {"accept", "stop"} /\ active' \in Nat
    BY <1>6 DEF StartFails, StartUnwinds, AcceptLoop, conn_track_decrement, TypeOK
  <2>2. TypeOK'
    BY <1>6, <2>1 DEF StartFails, StartUnwinds, TypeOK, PC
  <2>3. SessionOK(c)'
    BY <1>6, <2>0 DEF StartFails, StartUnwinds, SessionOK, Registered
  <2>4. ASSUME NEW d \in Conn \ {c} PROVE SessionOK(d)'
    <3>1. SessionOK(d)
      OBVIOUS
    <3> QED BY <1>6, <2>0, <3>1 DEF StartFails, StartUnwinds, SessionOK, Registered
  <2>5. FdsUnique' /\ NamesUnique' /\ FanOK'
    BY <1>6 DEF StartFails, StartUnwinds, FdsUnique, NamesUnique, FanOK
  <2> QED BY <2>2, <2>3, <2>4, <2>5
<1>3. CASE AcceptInterrupted \/ ShutdownQueue \/ Exit \/ Signal
  <2>1. TypeOK' /\ FanOK'
    BY <1>3 DEF AcceptInterrupted, ShutdownQueue, Exit, Signal, threadVars, TypeOK, FanOK
  <2> QED BY <1>3, <2>1, AsideStep
          DEF AcceptInterrupted, ShutdownQueue, Exit, Signal, threadVars
<1>4. ASSUME NEW c \in Conn, PeerClose(c) PROVE SessionInv'
  <2>1. TypeOK' /\ FanOK'
    BY <1>4 DEF PeerClose, TypeOK, FanOK
  <2> QED BY <1>4, <2>1, AsideStep DEF PeerClose
<1> QED BY <1>1, <1>2, <1>3, <1>4, <1>5, <1>6 DEF Main

\* The broadcaster.
LEMMA BroadcasterStep ==
    ASSUME SessionInv, Broadcaster
    PROVE  SessionInv'
<1> USE DEF SessionInv
<1>0. online \subseteq Conn /\ btodo \subseteq Conn /\ bmsg \in Event \cup {None}
  BY DEF TypeOK
<1>1. ASSUME NEW S \in SUBSET Conn, Visit(S), bmsg \in Event
      PROVE  /\ bpc' \in {"pop", "start", "send", "next", "done"}
             /\ bmsg' \in Event \cup {None} /\ bcur' \in Conn \cup {None}
             /\ btodo' \subseteq Conn /\ FanOK'
  BY <1>1 DEF Visit, FanEnd, FanOK
<1>2. lost' = LostNow /\ bmsg \in Event => lost' \subseteq MsgId
  <2>1. bmsg \in Event /\ bmsg.kind = "CHAT" => bmsg.id \in MsgId
    BY DEF Event
  <2> QED BY <2>1 DEF LostNow, TypeOK
<1>3. CASE BroadcasterPop
  <2>1. Head(queue) \in Event /\ Tail(queue) \in Seq(Event)
    BY <1>3, HeadTailProperties DEF BroadcasterPop, TypeOK
  <2>2. TypeOK' /\ FanOK'
    BY <1>3, <2>1 DEF BroadcasterPop, OnlyFans, TypeOK, FanOK
  <2> QED BY <1>3, <2>2, AsideStep DEF BroadcasterPop, OnlyFans
<1>4. CASE BroadcasterStop
  <2>1. TypeOK' /\ FanOK'
    BY <1>4 DEF BroadcasterStop, OnlyFans, TypeOK, FanOK
  <2> QED BY <1>4, <2>1, AsideStep DEF BroadcasterStop, OnlyFans
<1>5. CASE FanStart
  <2>1. TypeOK' /\ FanOK'
    BY <1>0, <1>1, <1>5 DEF FanStart, OnlyFans, TypeOK, FanOK
  <2> QED BY <1>5, <2>1, AsideStep DEF FanStart, OnlyFans
<1>6. CASE FanNext
  <2>1. bmsg \in Event /\ btodo \cap online \subseteq Conn
    BY <1>0, <1>6 DEF FanNext, FanOK
  <2>2. TypeOK' /\ FanOK'
    BY <1>1, <1>6, <2>1 DEF FanNext, OnlyFans, TypeOK
  <2> QED BY <1>6, <2>2, AsideStep DEF FanNext, OnlyFans
<1>7. CASE FanFreed
  <2>1. PICK S \in SUBSET online : Visit(S)
    BY <1>7 DEF FanFreed
  <2>2. bmsg \in Event /\ S \subseteq Conn
    BY <1>0, <1>7 DEF FanFreed, FanOK
  <2>3. TypeOK' /\ FanOK'
    BY <1>1, <1>2, <1>7, <2>1, <2>2 DEF FanFreed, OnlyFans, TypeOK
  <2> QED BY <1>7, <2>3, AsideStep DEF FanFreed, OnlyFans
<1>8. CASE FanSend
  <2>1. bmsg \in Event /\ peer' \in [Conn -> {"open", "closed", "reset"}]
    BY <1>8, SendType DEF FanSend, FanOK
  <2>2. bmsg.kind = "CHAT" => bmsg.id \in MsgId
    BY <1>8, <2>1 DEF FanSend, Event
  <2>3. seen' \in [Conn -> SUBSET MsgId]
    BY <1>8, <2>2 DEF FanSend, TypeOK
  <2>4. TypeOK' /\ FanOK'
    BY <1>8, <2>1, <2>3 DEF FanSend, OnlyFans, TypeOK, FanOK
  <2> QED BY <1>8, <2>4, AsideStep DEF FanSend, OnlyFans
<1>9. CASE FanFails
  <2>1. bmsg \in Event /\ peer' \in [Conn -> {"open", "closed", "reset"}]
    BY <1>9, SendType DEF FanFails, FanOK
  <2>2. TypeOK' /\ FanOK'
    BY <1>2, <1>9, <2>1 DEF FanFails, FanEnd, OnlyFans, TypeOK, FanOK
  <2> QED BY <1>9, <2>2, AsideStep DEF FanFails, OnlyFans
<1>10. CASE FanFreedKilled \/ FanKilled
  <2>1. TypeOK' /\ FanOK'
    BY <1>10 DEF FanFreedKilled, FanKilled, Killed, threadVars, TypeOK, FanOK
  <2> QED BY <1>10, <2>1, AsideStep DEF FanFreedKilled, FanKilled, Killed, threadVars
<1> QED BY <1>3, <1>4, <1>5, <1>6, <1>7, <1>8, <1>9, <1>10 DEF Broadcaster

-----------------------------------------------------------------------------
(* The theorems.                                                           *)

\* The invariant holds in every state of every behaviour.
THEOREM SessionInvariant == Spec => []SessionInv
<1>1. Init => SessionInv
  <2> SUFFICES ASSUME Init PROVE SessionInv
    OBVIOUS
  <2>1. TypeOK
    <3>1. queue \in Seq(Event) /\ history \in [Room -> Seq(MsgId)]
      BY EmptySeq DEF Init
    <3>2. /\ pc \in [Conn -> PC] /\ fd \in [Conn -> Fd \cup {None}]
          /\ auth \in [Conn -> BOOLEAN] /\ arg \in [Conn -> Line \cup {None}]
          /\ tfd \in [Conn -> Fd \cup {None}] /\ uname \in [Conn -> User \cup {None}]
      BY DEF Init, PC
    <3>3. lines \in [Conn -> Nat]
      BY BoundAssumption DEF Init
    <3>4. /\ lroom \in [Conn -> Room] /\ room \in [Conn -> Room] /\ rooms \subseteq Room
          /\ peer \in [Conn -> {"open", "closed", "reset"}]
          /\ seen \in [Conn -> SUBSET MsgId] /\ payload \in [Conn -> SUBSET MsgId]
          /\ presence \in [User -> Room \cup {None}]
      BY LobbyAssumption DEF Init
    <3> QED BY <3>1, <3>2, <3>3, <3>4 DEF Init, TypeOK
  <2>2. \A c \in Conn : SessionOK(c)
    BY DEF Init, SessionOK, Registered
  <2> QED BY <2>1, <2>2 DEF Init, SessionInv, FanOK, FdsUnique, NamesUnique
<1>2. SessionInv /\ [Next]_vars => SessionInv'
  <2> SUFFICES ASSUME SessionInv, [Next]_vars PROVE SessionInv'
    OBVIOUS
  <2>1. CASE UNCHANGED vars
    BY <2>1, AsideStep DEF vars, SessionInv, TypeOK, FanOK
  <2> QED BY <2>1, HandlerStep, MainStep, BroadcasterStep DEF Next
<1> QED BY <1>1, <1>2, PTL DEF Spec

\* Every variable keeps its type.
THEOREM TypeCorrect == Spec => []TypeOK
<1>1. SessionInv => TypeOK
  BY DEF SessionInv
<1> QED BY <1>1, SessionInvariant, PTL

\* A session that looks itself up by descriptor finds its own node only.
THEOREM OwnLookup == Spec => []LookupFindsOwnNode
<1>1. SessionInv => LookupFindsOwnNode
  <2> SUFFICES ASSUME SessionInv, NEW c \in Conn, Registered(c)
               PROVE  ByFd(fd[c]) = {c}
    BY DEF LookupFindsOwnNode
  <2>1. c \in online
    BY DEF SessionInv, SessionOK
  <2> QED BY <2>1, OwnNode
<1> QED BY <1>1, SessionInvariant, PTL

\* No node outlives its session, and none belongs to a closed descriptor.
THEOREM NoOrphans == Spec => []NoOrphanNode
<1>1. SessionInv => NoOrphanNode
  BY DEF SessionInv, TypeOK, SessionOK, Registered, NoOrphanNode
<1> QED BY <1>1, SessionInvariant, PTL

\* No user is online twice.
THEOREM OneSessionPerName == Spec => []NamesUnique
<1>1. SessionInv => NamesUnique
  BY DEF SessionInv
<1> QED BY <1>1, SessionInvariant, PTL

-----------------------------------------------------------------------------
(* Capacity: the connection counter counts the handler threads, and the    *)
(* registry is never full when a handler adds its node.                    *)

LiveSet == {c \in Conn : Live(c)}

\* The inductive invariant: CounterExact, and that the sessions are finitely
\* many at any time although Conn may not be.
CounterInv == IsFiniteSet(LiveSet) /\ CounterExact

\* A step of the handler of c other than its last keeps the session live.
LEMMA HandlerStaysLive ==
    ASSUME SessionInv, NEW c \in Conn, Handler(c), ~DiscRelease(c)
    PROVE  active' = active /\ \A d \in Conn : Live(d)' <=> Live(d)
<1>0. pc \in [Conn -> PC]
  BY DEF SessionInv, TypeOK
<1>1. ASSUME active' = active, pc[c] \notin {"new", "gone"},
             NEW q \in PC \ {"new", "gone"}, Goto(c, q)
      PROVE  active' = active /\ \A d \in Conn : Live(d)' <=> Live(d)
  BY <1>0, <1>1 DEF Live
<1>2. CASE HandlerReads(c)
  <2>1. active' = active /\ pc[c] = "recv"
    BY <1>2 DEF HandlerReads, HandleOther, HandleQuit, HandleAuth, HandleJoinRoom,
                HandleMsg, HandleHistory, HandlePm, HandleKick, Command, Read
  <2>2. PICK q \in {"reply", "disc", "exists", "bye", "leave", "store", "format",
                    "whisper", "notify"} : Goto(c, q)
    BY <1>2 DEF HandlerReads, HandleOther, HandleQuit, HandleAuth, HandleJoinRoom,
                HandleMsg, HandleHistory, HandlePm, HandleKick, OwnRoom, Target
  <2> QED BY <1>1, <2>1, <2>2 DEF PC
<1>3. CASE RecvEof(c) \/ Reply(c) \/ Refuse(c) \/ AuthExists(c) \/ AuthAdd(c)
           \/ AuthAddFails(c) \/ AuthWelcome(c) \/ AuthUndo(c)
  <2>1. active' = active /\ pc[c] \notin {"new", "gone"}
    BY <1>3 DEF RecvEof, Reply, Refuse, AuthExists, AuthAdd, AuthAddFails, AuthWelcome,
                AuthUndo, OnlyMoves, OnlyQueues, OnlySends
  <2>2. PICK q \in {"recv", "disc", "bye", "add", "welcome", "full", "joined", "undo"} :
            Goto(c, q)
    BY <1>3 DEF RecvEof, Reply, Refuse, AuthExists, AuthAdd, AuthAddFails, AuthWelcome,
                AuthUndo, Loop
  <2> QED BY <1>1, <2>1, <2>2 DEF PC
<1>4. CASE RoomJoined(c) \/ FormatHistory(c) \/ SendHistory(c) \/ AuthOk(c)
           \/ AuthAnnounce(c) \/ JoinLeave(c) \/ JoinMove(c) \/ JoinArrive(c)
  <2>1. active' = active /\ pc[c] \notin {"new", "gone"}
    BY <1>4 DEF RoomJoined, FormatHistory, SendHistory, AuthOk, AuthAnnounce,
                JoinLeave, JoinMove, JoinArrive, OnlyQueues, OnlySends
  <2>2. PICK q \in {"format", "history", "ok", "arrive", "reply", "announce", "recv",
                    "disc", "move", "joined"} : Goto(c, q)
    BY <1>4 DEF RoomJoined, FormatHistory, SendHistory, AfterHistory, AuthOk,
                AuthAnnounce, JoinLeave, JoinMove, JoinArrive, Loop
  <2> QED BY <1>1, <2>1, <2>2 DEF PC
<1>5. CASE MsgStore(c) \/ MsgPost(c) \/ PmSend(c) \/ KickNotify(c) \/ KickCut(c)
           \/ DiscLeave(c) \/ DiscRemove(c) \/ DiscClose(c)
  <2>1. active' = active /\ pc[c] \notin {"new", "gone"}
    BY <1>5 DEF MsgStore, MsgPost, PmSend, KickNotify, KickCut, DiscLeave, DiscRemove,
                DiscClose, OnlyQueues, OnlySends
  <2>2. PICK q \in {"post", "reply", "cut", "remove", "close", "release"} : Goto(c, q)
    BY <1>5 DEF MsgStore, MsgPost, PmSend, KickNotify, KickCut, DiscLeave, DiscRemove,
                DiscClose
  <2> QED BY <1>1, <2>1, <2>2 DEF PC
<1>6. CASE HandlerKilled(c)
  BY <1>6 DEF HandlerKilled, Killed, threadVars, Live
<1> QED BY <1>2, <1>3, <1>4, <1>5, <1>6 DEF Handler, HandlerWorks

\* Every step keeps the invariant.
LEMMA CounterStep ==
    ASSUME SessionInv, CounterInv, [Next]_vars
    PROVE  CounterInv'
<1>0. pc \in [Conn -> PC] /\ active \in Nat /\ MaxClients \in Nat
  BY BoundAssumption DEF SessionInv, TypeOK
<1>1. ASSUME active' = active, \A d \in Conn : Live(d)' <=> Live(d) PROVE CounterInv'
  <2>1. LiveSet' = LiveSet
    BY <1>1 DEF LiveSet
  <2> QED BY <1>1, <2>1 DEF CounterInv, CounterExact, LiveSet
<1>2. ASSUME NEW c \in Conn, pc[c] \notin {"new", "gone"}, conn_track_decrement,
             \A d \in Conn : pc'[d] = IF d = c THEN "gone" ELSE pc[d]
      PROVE  CounterInv'
  <2>1. c \in LiveSet /\ LiveSet' = LiveSet \ {c}
    BY <1>2 DEF LiveSet, Live
  <2>2. IsFiniteSet(LiveSet') /\ Cardinality(LiveSet') = Cardinality(LiveSet) - 1
    BY <2>1, FS_RemoveElement DEF CounterInv
  <2>3. active = Cardinality(LiveSet) /\ active <= MaxClients
    BY DEF CounterInv, CounterExact, LiveSet
  <2>4. active > 0
    BY <1>0, <2>1, <2>3, FS_EmptySet DEF CounterInv
  <2>5. active' = Cardinality(LiveSet') /\ active' <= MaxClients
    BY <1>0, <1>2, <2>2, <2>3, <2>4 DEF conn_track_decrement
  <2> QED BY <2>2, <2>5 DEF CounterInv, CounterExact, LiveSet
<1>3. ASSUME NEW c \in Conn, Accept(c) PROVE CounterInv'
  <2>2. pc[c] = "new" /\ \A d \in Conn : pc'[d] = IF d = c THEN "start" ELSE pc[d]
    BY <1>0, <1>3 DEF Accept
  <2>3. c \notin LiveSet /\ LiveSet' = LiveSet \cup {c}
    BY <2>2 DEF LiveSet, Live
  <2>4. IsFiniteSet(LiveSet') /\ Cardinality(LiveSet') = Cardinality(LiveSet) + 1
    BY <2>3, FS_AddElement DEF CounterInv
  <2>5. active' = Cardinality(LiveSet') /\ active' <= MaxClients
    BY <1>0, <1>3, <2>4 DEF Accept, conn_at_capacity, conn_track_increment, CounterInv,
                             CounterExact, LiveSet
  <2> QED BY <2>4, <2>5 DEF CounterInv, CounterExact, LiveSet
<1>4. ASSUME NEW c \in Conn, Reject(c) PROVE CounterInv'
  <2>1. active' = active /\ \A d \in Conn : Live(d)' <=> Live(d)
    BY <1>0, <1>4 DEF Reject, Live
  <2> QED BY <1>1, <2>1
<1>10. ASSUME NEW c \in Conn, Start(c) PROVE CounterInv'
  <2>1. active' = active /\ \A d \in Conn : Live(d)' <=> Live(d)
    BY <1>0, <1>10 DEF Start, Loop, Live
  <2> QED BY <1>1, <2>1
<1>11. ASSUME NEW c \in Conn, StartFails(c) PROVE CounterInv'
  <2>1. pc[c] = "start" /\ \A d \in Conn : pc'[d] = IF d = c THEN "gone" ELSE pc[d]
    BY <1>0, <1>11 DEF StartFails, StartUnwinds
  <2> QED BY <1>2, <1>11, <2>1 DEF StartFails
<1>5. CASE AcceptInterrupted \/ ShutdownQueue \/ Exit \/ Signal
  <2>1. active' = active /\ \A d \in Conn : Live(d)' <=> Live(d)
    BY <1>5 DEF AcceptInterrupted, ShutdownQueue, Exit, Signal, threadVars, Live
  <2> QED BY <1>1, <2>1
<1>6. CASE Broadcaster
  <2>1. active' = active /\ \A d \in Conn : Live(d)' <=> Live(d)
    BY <1>6 DEF Broadcaster, BroadcasterPop, BroadcasterStop, FanStart, FanNext,
                FanFreed, FanFreedKilled, FanSend, FanFails, FanKilled, Killed,
                threadVars, OnlyFans, Live
  <2> QED BY <1>1, <2>1
<1>7. ASSUME NEW c \in Conn, PeerClose(c) PROVE CounterInv'
  <2>1. active' = active /\ \A d \in Conn : Live(d)' <=> Live(d)
    BY <1>7 DEF PeerClose, Live
  <2> QED BY <1>1, <2>1
<1>8. CASE UNCHANGED vars
  <2>1. active' = active /\ \A d \in Conn : Live(d)' <=> Live(d)
    BY <1>8 DEF vars, Live
  <2> QED BY <1>1, <2>1
<1>9. ASSUME NEW c \in Conn, Handler(c) PROVE CounterInv'
  <2>1. CASE DiscRelease(c)
    BY <1>0, <1>2, <2>1 DEF DiscRelease
  <2>2. CASE ~DiscRelease(c)
    BY <1>1, <1>9, <2>2, HandlerStaysLive
  <2> QED BY <2>1, <2>2
<1> QED BY <1>3, <1>4, <1>5, <1>6, <1>7, <1>8, <1>9, <1>10, <1>11 DEF Next, Main

\* The invariant holds in every state of every behaviour.
THEOREM CounterInvariant == Spec => []CounterInv
<1>1. Init => CounterInv
  <2> SUFFICES ASSUME Init PROVE CounterInv
    OBVIOUS
  <2>1. LiveSet = {}
    BY DEF Init, LiveSet, Live
  <2>2. IsFiniteSet(LiveSet) /\ Cardinality(LiveSet) = 0
    BY <2>1, FS_EmptySet
  <2>3. active = 0 /\ active <= MaxClients
    BY BoundAssumption DEF Init
  <2> QED BY <2>2, <2>3 DEF CounterInv, CounterExact, LiveSet
<1>2. SessionInv /\ CounterInv /\ [Next]_vars => CounterInv'
  BY CounterStep
<1> QED BY <1>1, <1>2, SessionInvariant, PTL DEF Spec

\* active_connections is exactly the number of handler threads and never more
\* than MAX_CLIENTS, over any history of connects, failures and disconnects.
THEOREM ExactCounter == Spec => []CounterExact
<1>1. CounterInv => CounterExact
  BY DEF CounterInv
<1> QED BY <1>1, CounterInvariant, PTL

\* registry_add() never finds the registry full: the "server full" it makes
\* cmd_handle_auth() answer has other causes.
THEOREM NeverFull == Spec => []RegistryNeverFull
<1>1. SessionInv /\ CounterInv => RegistryNeverFull
  <2> SUFFICES ASSUME SessionInv, CounterInv, NEW c \in Conn, pc[c] = "add"
               PROVE  Cardinality(online) < MaxClients
    BY DEF RegistryNeverFull
  <2>0. online \subseteq Conn /\ \A d \in Conn : SessionOK(d)
    BY DEF SessionInv, TypeOK
  <2>1. c \in LiveSet /\ online \subseteq LiveSet \ {c}
    BY <2>0 DEF LiveSet, Live, SessionOK, Registered
  <2>2. /\ IsFiniteSet(LiveSet \ {c})
        /\ Cardinality(LiveSet \ {c}) = Cardinality(LiveSet) - 1
    BY <2>1, FS_RemoveElement DEF CounterInv
  <2>3. Cardinality(online) <= Cardinality(LiveSet \ {c}) /\ IsFiniteSet(online)
    BY <2>1, <2>2, FS_Subset
  <2>4. Cardinality(LiveSet) <= MaxClients /\ Cardinality(LiveSet) \in Nat
        /\ Cardinality(online) \in Nat
    BY <2>3, FS_CardinalityType DEF CounterInv, CounterExact, LiveSet
  <2> QED BY <2>2, <2>3, <2>4, BoundAssumption
<1> QED BY <1>1, SessionInvariant, CounterInvariant, PTL

-----------------------------------------------------------------------------
(* Presence: the inductive invariant.                                      *)

\* A registered session is in its room, as far as the queue has told, except
\* between its login and the JOIN, from the LEAVE of a room change to the JOIN
\* that follows, and from the LEAVE of its disconnect on.
InRoom(c) ==
    \/ pc[c] \in {"recv", "reply", "disc", "leave", "store", "post", "whisper",
                  "notify", "cut"}
    \/ pc[c] \in {"format", "history"} /\ arg[c].cmd \notin {"AUTH", "JOIN_ROOM"}

\* The room name a command works with is the room of its session.
RoomNameOK(c) ==
    /\ pc[c] \in {"joined", "format", "history", "leave", "arrive", "store", "post"} =>
           lroom[c] = room[c]
    /\ pc[c] \in {"welcome", "ok", "announce"} => room[c] = Lobby /\ lroom[c] = Lobby
    /\ pc[c] \in {"joined", "format", "history"} /\ arg[c].cmd = "AUTH" => room[c] = Lobby
    /\ pc[c] = "joined" => arg[c].cmd \in {"AUTH", "JOIN_ROOM"}

Told(c) == presence[uname[c]] = IF InRoom(c) THEN room[c] ELSE None

PresenceInv ==
    /\ \A c \in Conn : RoomNameOK(c)
    /\ (~OutOfMemory /\ ~closed) =>
           /\ \A c \in online : Told(c)
           /\ \A u \in User : (\A c \in online : uname[c] # u) => presence[u] = None

\* The action of PresenceCoherent.
CoherentStep ==
    (~OutOfMemory /\ Len(queue') > Len(queue)) =>
        LET e == queue'[Len(queue')]
        IN  presence[e.user] = IF e.kind = "JOIN" THEN None ELSE e.room

-----------------------------------------------------------------------------
(* Three kinds of steps.                                                   *)

\* A step that queues nothing tells nothing.
LEMMA SilentCoherent ==
    ASSUME SessionInv, UNCHANGED queue
    PROVE  CoherentStep
<1>1. Len(queue) \in Nat
  BY LenProperties DEF SessionInv, TypeOK
<1> QED BY <1>1 DEF CoherentStep

\* A step of handler c that queues nothing and leaves the registry alone.
LEMMA SilentStep ==
    ASSUME SessionInv, PresenceInv, NEW c \in Conn,
           UNCHANGED <<closed, presence, online, uname, room>>,
           \A d \in Conn \ {c} :
               pc'[d] = pc[d] /\ arg'[d] = arg[d] /\ lroom'[d] = lroom[d],
           RoomNameOK(c)',
           c \in online => (InRoom(c)' <=> InRoom(c))
    PROVE  PresenceInv'
<1>1. ASSUME NEW d \in Conn PROVE RoomNameOK(d)'
  <2>1. CASE d = c
    BY <2>1
  <2>2. CASE d # c
    BY <2>2 DEF PresenceInv, RoomNameOK
  <2> QED BY <2>1, <2>2
<1>2. ASSUME ~OutOfMemory, ~closed, NEW d \in online PROVE Told(d)'
  <2>1. d \in Conn /\ Told(d)
    BY <1>2 DEF SessionInv, TypeOK, PresenceInv
  <2>2. InRoom(d)' <=> InRoom(d)
    BY <1>2, <2>1 DEF InRoom
  <2> QED BY <2>1, <2>2 DEF Told
<1>3. (~OutOfMemory /\ ~closed) =>
          \A u \in User : (\A d \in online : uname[d] # u) => presence[u] = None
  BY DEF PresenceInv
<1> QED BY <1>1, <1>2, <1>3 DEF PresenceInv

\* A step of handler c that queues event e about its user, coherently, and
\* brings the handler where the queue has told what e says.
LEMMA PushStep ==
    ASSUME SessionInv, PresenceInv, NEW c \in Conn, c \in online,
           UNCHANGED <<closed, online, uname, room>>,
           \A d \in Conn \ {c} :
               pc'[d] = pc[d] /\ arg'[d] = arg[d] /\ lroom'[d] = lroom[d],
           NEW e \in Event, mq_push(e) \/ mq_push_fails,
           e.user = uname[c],
           IF InRoom(c) THEN e.kind # "JOIN" /\ e.room = room[c] ELSE e.kind = "JOIN",
           Announced(e) = IF InRoom(c)' THEN room[c] ELSE None,
           RoomNameOK(c)'
    PROVE  PresenceInv' /\ CoherentStep
<1>0. uname[c] \in User /\ online \subseteq Conn /\ queue \in Seq(Event)
      /\ presence \in [User -> Room \cup {None}]
  BY DEF SessionInv, TypeOK, SessionOK
<1>1. ASSUME NEW d \in Conn PROVE RoomNameOK(d)'
  <2>1. CASE d = c
    BY <2>1
  <2>2. CASE d # c
    BY <2>2 DEF PresenceInv, RoomNameOK
  <2> QED BY <2>1, <2>2
<1>2. CASE closed
  <2>1. queue' = queue
    BY <1>2 DEF mq_push, mq_push_fails
  <2> QED BY <1>1, <1>2, <2>1, SilentCoherent DEF PresenceInv
<1>3. CASE OutOfMemory
  BY <1>1, <1>3 DEF PresenceInv, CoherentStep
<1>4. CASE ~closed /\ ~OutOfMemory
  <2>1. /\ queue' = Append(queue, e)
        /\ presence' = [presence EXCEPT ![uname[c]] = Announced(e)]
    BY <1>4 DEF mq_push, mq_push_fails
  <2>2. Told(c)
    BY <1>4 DEF PresenceInv
  <2>3. CoherentStep
    <3>1. queue'[Len(queue')] = e
      BY <1>0, <2>1, AppendProperties, LenProperties
    <3> QED BY <2>2, <3>1 DEF CoherentStep, Told
  <2>4. ASSUME NEW d \in online PROVE Told(d)'
    <3>1. CASE d = c
      BY <1>0, <2>1, <3>1 DEF Told
    <3>2. CASE d # c
      <4>1. Told(d) /\ uname[d] # uname[c] /\ uname[d] \in User /\ d \in Conn
        BY <1>0, <1>4, <3>2 DEF PresenceInv, SessionInv, NamesUnique, SessionOK
      <4>2. InRoom(d)' <=> InRoom(d)
        BY <3>2, <4>1 DEF InRoom
      <4> QED BY <1>0, <2>1, <4>1, <4>2 DEF Told
    <3> QED BY <3>1, <3>2
  <2>5. ASSUME NEW u \in User, \A d \in online : uname[d] # u PROVE presence'[u] = None
    BY <1>0, <1>4, <2>1, <2>5 DEF PresenceInv
  <2> QED BY <1>1, <2>3, <2>4, <2>5 DEF PresenceInv
<1> QED BY <1>2, <1>3, <1>4

-----------------------------------------------------------------------------
(* The steps of a handler.                                                 *)

\* Reading a line tells nothing; a command starts from the room of its session.
LEMMA ReadsPresence ==
    ASSUME SessionInv, PresenceInv, NEW c \in Conn, HandlerReads(c)
    PROVE  PresenceInv' /\ CoherentStep
<1>0. /\ pc \in [Conn -> PC] /\ arg \in [Conn -> Line \cup {None}]
      /\ lroom \in [Conn -> Room] /\ room \in [Conn -> Room] /\ SessionOK(c)
  BY DEF SessionInv, TypeOK
<1>1. ASSUME Read(c), NEW q \in {"reply", "disc", "leave", "store", "whisper", "notify"},
             Goto(c, q),
             \A d \in Conn \ {c} : arg'[d] = arg[d] /\ lroom'[d] = lroom[d],
             q \in {"leave", "store"} => lroom'[c] = room[c]
      PROVE  PresenceInv' /\ CoherentStep
  <2>1. UNCHANGED <<closed, presence, online, uname, room, queue>> /\ pc[c] = "recv"
    BY <1>1 DEF Read
  <2>2. pc'[c] = q /\ \A d \in Conn \ {c} : pc'[d] = pc[d]
    BY <1>0, <1>1
  <2>3. InRoom(c)' /\ InRoom(c)
    BY <2>1, <2>2 DEF InRoom
  <2>4. RoomNameOK(c)'
    BY <1>1, <2>1, <2>2 DEF RoomNameOK
  <2> QED BY <1>1, <2>1, <2>2, <2>3, <2>4, SilentStep, SilentCoherent
<1>2. CASE HandleOther(c) \/ HandleQuit(c)
  BY <1>1, <1>2 DEF HandleOther, HandleQuit
<1>3. CASE HandleAuth(c)
  <2>1. PICK l \in Line, q \in {"exists", "bye"} :
            /\ Read(c) /\ ~auth[c] /\ Goto(c, q)
            /\ arg' = [arg EXCEPT ![c] = l] /\ lroom' = lroom
    BY <1>3, InputsAssumption DEF HandleAuth
  <2>2. UNCHANGED <<closed, presence, online, uname, room, queue>> /\ pc[c] = "recv"
    BY <2>1 DEF Read
  <2>3. pc'[c] = q /\ \A d \in Conn \ {c} : pc'[d] = pc[d] /\ arg'[d] = arg[d]
    BY <1>0, <2>1
  <2>4. c \notin online
    BY <1>0, <2>1, <2>2 DEF SessionOK, Registered
  <2>5. RoomNameOK(c)'
    BY <2>3 DEF RoomNameOK
  <2> QED BY <2>1, <2>2, <2>3, <2>4, <2>5, SilentStep, SilentCoherent
<1>4. ASSUME NEW l \in Line, NEW k, Command(c, l, k), NEW next,
             NEW S \in SUBSET ByFd(fd[c]), OwnRoom(c, S, next)
      PROVE  /\ Read(c) /\ arg'[c] = l /\ l.cmd = k
             /\ \A d \in Conn \ {c} : arg'[d] = arg[d] /\ lroom'[d] = lroom[d]
             /\ Goto(c, "reply") \/ (Goto(c, next) /\ lroom'[c] = room[c])
  <2>1. Read(c) /\ auth[c] /\ l.cmd = k /\ arg' = [arg EXCEPT ![c] = l]
    BY <1>4 DEF Command
  <2>2. S \subseteq {c}
    <3>1. c \in online
      BY <1>0, <2>1 DEF Read, SessionOK, Registered
    <3> QED BY <3>1, OwnNode
  <2> QED BY <1>0, <1>4, <2>1, <2>2 DEF OwnRoom
<1>5. CASE HandleJoinRoom(c)
  <2>1. PICK l \in Line :
            /\ Command(c, l, "JOIN_ROOM")
            /\ OwnRoom(c, {d \in ByFd(fd[c]) : room[d] # l.room}, "leave")
    BY <1>5, InputsAssumption DEF HandleJoinRoom
  <2>2. /\ Read(c) /\ \A d \in Conn \ {c} : arg'[d] = arg[d] /\ lroom'[d] = lroom[d]
        /\ Goto(c, "reply") \/ (Goto(c, "leave") /\ lroom'[c] = room[c])
    BY <1>4, <2>1
  <2> QED BY <1>1, <2>2
<1>6. CASE HandleMsg(c)
  <2>1. PICK l \in Line : Command(c, l, "MSG") /\ OwnRoom(c, ByFd(fd[c]), "store")
    BY <1>6, InputsAssumption DEF HandleMsg
  <2>2. /\ Read(c) /\ \A d \in Conn \ {c} : arg'[d] = arg[d] /\ lroom'[d] = lroom[d]
        /\ Goto(c, "reply") \/ (Goto(c, "store") /\ lroom'[c] = room[c])
    BY <1>4, <2>1
  <2> QED BY <1>1, <2>2
<1>7. CASE HandleHistory(c)
  <2>1. PICK l \in Line : Command(c, l, "HISTORY") /\ OwnRoom(c, ByFd(fd[c]), "format")
    BY <1>7, InputsAssumption DEF HandleHistory
  <2>2. /\ Read(c) /\ \A d \in Conn \ {c} : arg'[d] = arg[d] /\ lroom'[d] = lroom[d]
        /\ Goto(c, "reply") \/ (Goto(c, "format") /\ lroom'[c] = room[c])
        /\ arg'[c].cmd = "HISTORY"
    BY <1>4, <2>1
  <2>3. CASE Goto(c, "reply")
    BY <1>1, <2>2, <2>3
  <2>4. CASE Goto(c, "format") /\ lroom'[c] = room[c]
    <3>1. UNCHANGED <<closed, presence, online, uname, room, queue>> /\ pc[c] = "recv"
      BY <2>2 DEF Read
    <3>2. pc'[c] = "format" /\ \A d \in Conn \ {c} : pc'[d] = pc[d]
      BY <1>0, <2>4
    <3>3. InRoom(c)' /\ InRoom(c) /\ RoomNameOK(c)'
      BY <2>2, <2>4, <3>1, <3>2 DEF InRoom, RoomNameOK
    <3> QED BY <2>2, <3>1, <3>2, <3>3, SilentStep, SilentCoherent
  <2> QED BY <2>2, <2>3, <2>4
<1>8. ASSUME NEW l \in Line, NEW k, Command(c, l, k), NEW ok \in BOOLEAN,
             NEW next \in {"whisper", "notify"}, Target(c, l, ok, next)
      PROVE  PresenceInv' /\ CoherentStep
  <2>1. /\ Read(c) /\ \A d \in Conn \ {c} : arg'[d] = arg[d] /\ lroom'[d] = lroom[d]
        /\ Goto(c, "reply") \/ Goto(c, next)
    BY <1>0, <1>8 DEF Command, Target
  <2> QED BY <1>1, <1>8, <2>1
<1>9. CASE HandlePm(c)
  BY <1>8, <1>9, InputsAssumption DEF HandlePm
<1>10. CASE HandleKick(c)
  <2>1. IsAdmin(fd[c]) \in BOOLEAN
    BY DEF IsAdmin
  <2> QED BY <1>8, <1>10, <2>1, InputsAssumption DEF HandleKick
<1> QED BY <1>2, <1>3, <1>5, <1>6, <1>7, <1>9, <1>10 DEF HandlerReads

\* What a handler does between two lines without queueing an event or touching
\* the registry.
LEMMA QuietPresence ==
    ASSUME SessionInv, PresenceInv, NEW c \in Conn,
           \/ RecvEof(c) \/ Reply(c) \/ Refuse(c) \/ AuthExists(c) \/ AuthAddFails(c)
           \/ AuthWelcome(c) \/ RoomJoined(c) \/ FormatHistory(c) \/ SendHistory(c)
           \/ AuthOk(c)
           \/ MsgStore(c) \/ PmSend(c) \/ KickNotify(c) \/ KickCut(c)
           \/ DiscClose(c) \/ DiscRelease(c)
    PROVE  PresenceInv' /\ CoherentStep
<1>0. /\ pc \in [Conn -> PC] /\ arg \in [Conn -> Line \cup {None}]
      /\ lroom \in [Conn -> Room] /\ SessionOK(c) /\ RoomNameOK(c)
  BY DEF SessionInv, TypeOK, PresenceInv
<1>1. ASSUME UNCHANGED <<closed, presence, online, uname, room, queue>>,
             NEW q \in PC, Goto(c, q), UNCHANGED <<arg, lroom>> \/ Return(c),
             RoomNameOK(c)', c \in online => (InRoom(c)' <=> InRoom(c))
      PROVE  PresenceInv' /\ CoherentStep
  <2>1. \A d \in Conn \ {c} : pc'[d] = pc[d] /\ arg'[d] = arg[d] /\ lroom'[d] = lroom[d]
    BY <1>0, <1>1 DEF Return
  <2> QED BY <1>1, <2>1, SilentStep, SilentCoherent
<1>2. CASE RecvEof(c)
  <2>1. /\ UNCHANGED <<closed, presence, online, uname, room, queue, arg, lroom>>
        /\ pc[c] = "recv" /\ pc'[c] = "disc" /\ Goto(c, "disc")
    BY <1>0, <1>2 DEF RecvEof, OnlyMoves, OnlyQueues
  <2>2. RoomNameOK(c)' /\ InRoom(c)' /\ InRoom(c)
    BY <2>1 DEF RoomNameOK, InRoom
  <2> QED BY <1>1, <2>1, <2>2 DEF PC
<1>3. CASE Reply(c)
  <2>1. PICK q \in {"recv", "disc"} : Goto(c, q)
    BY <1>3 DEF Reply, Loop
  <2>2. /\ UNCHANGED <<closed, presence, online, uname, room, queue>> /\ Return(c)
        /\ pc[c] = "reply" /\ pc'[c] = q
    BY <1>0, <1>3, <2>1 DEF Reply, OnlySends
  <2>3. RoomNameOK(c)' /\ InRoom(c)' /\ InRoom(c)
    BY <2>2 DEF RoomNameOK, InRoom
  <2> QED BY <1>1, <2>1, <2>2, <2>3 DEF PC
<1>4. CASE Refuse(c)
  <2>1. /\ UNCHANGED <<closed, presence, online, uname, room, queue>> /\ Return(c)
        /\ pc[c] \in {"bye", "full"} /\ pc'[c] = "disc" /\ Goto(c, "disc")
    BY <1>0, <1>4 DEF Refuse, OnlySends
  <2>2. RoomNameOK(c)' /\ c \notin online
    BY <1>0, <2>1 DEF RoomNameOK, SessionOK, Registered
  <2> QED BY <1>1, <2>1, <2>2 DEF PC
<1>5. CASE AuthExists(c) \/ AuthAddFails(c)
  <2>1. PICK q \in {"bye", "add", "full"} : Goto(c, q)
    BY <1>5 DEF AuthExists, AuthAddFails
  <2>2. /\ UNCHANGED <<closed, presence, online, uname, room, queue, arg, lroom>>
        /\ pc[c] \in {"exists", "add"} /\ pc'[c] = q
    BY <1>0, <1>5, <2>1 DEF AuthExists, AuthAddFails, OnlyMoves, OnlyQueues
  <2>3. RoomNameOK(c)' /\ c \notin online
    BY <1>0, <2>2 DEF RoomNameOK, SessionOK, Registered
  <2> QED BY <1>1, <2>1, <2>2, <2>3 DEF PC
<1>6. CASE AuthWelcome(c)
  <2>1. PICK q \in {"joined", "undo"} : Goto(c, q)
    BY <1>6 DEF AuthWelcome
  <2>2. /\ UNCHANGED <<closed, presence, online, uname, room, queue, arg, lroom>>
        /\ pc[c] = "welcome" /\ pc'[c] = q /\ arg[c].cmd = "AUTH"
    BY <1>0, <1>6, <2>1 DEF AuthWelcome, OnlySends, SessionOK
  <2>3. RoomNameOK(c)' /\ ~InRoom(c)' /\ ~InRoom(c)
    BY <1>0, <2>2 DEF RoomNameOK, InRoom
  <2> QED BY <1>1, <2>1, <2>2, <2>3 DEF PC
<1>7. CASE RoomJoined(c)
  <2>1. /\ UNCHANGED <<closed, presence, online, uname, room, queue, arg, lroom>>
        /\ pc[c] = "joined" /\ pc'[c] = "format" /\ Goto(c, "format")
    BY <1>0, <1>7 DEF RoomJoined, OnlySends
  <2>2. RoomNameOK(c)' /\ ~InRoom(c)' /\ ~InRoom(c)
    BY <1>0, <2>1 DEF RoomNameOK, InRoom
  <2> QED BY <1>1, <2>1, <2>2 DEF PC
<1>8. CASE FormatHistory(c) \/ SendHistory(c)
  <2>1. PICK q \in {"history", "ok", "arrive", "reply"} :
            /\ Goto(c, q)
            /\ q # "history" =>
                   /\ q = "ok" <=> arg[c].cmd = "AUTH"
                   /\ q = "arrive" <=> arg[c].cmd = "JOIN_ROOM"
    BY <1>8 DEF FormatHistory, SendHistory, AfterHistory
  <2>2. /\ UNCHANGED <<closed, presence, online, uname, room, queue, arg, lroom>>
        /\ pc[c] \in {"format", "history"} /\ pc'[c] = q
    BY <1>0, <1>8, <2>1 DEF FormatHistory, SendHistory
  <2>3. RoomNameOK(c)' /\ (InRoom(c)' <=> InRoom(c))
    BY <1>0, <2>1, <2>2 DEF RoomNameOK, InRoom
  <2> QED BY <1>1, <2>1, <2>2, <2>3 DEF PC
<1>9. CASE AuthOk(c)
  <2>1. /\ UNCHANGED <<closed, presence, online, uname, room, queue, arg, lroom>>
        /\ pc[c] = "ok" /\ pc'[c] = "announce" /\ Goto(c, "announce")
    BY <1>0, <1>9 DEF AuthOk, OnlySends
  <2>2. RoomNameOK(c)' /\ ~InRoom(c)' /\ ~InRoom(c)
    BY <1>0, <2>1 DEF RoomNameOK, InRoom
  <2> QED BY <1>1, <2>1, <2>2 DEF PC
<1>10. CASE MsgStore(c)
  <2>1. /\ UNCHANGED <<closed, presence, online, uname, room, queue, arg, lroom>>
        /\ pc[c] = "store" /\ pc'[c] = "post" /\ Goto(c, "post")
    BY <1>0, <1>10 DEF MsgStore
  <2>2. RoomNameOK(c)' /\ InRoom(c)' /\ InRoom(c)
    BY <1>0, <2>1 DEF RoomNameOK, InRoom
  <2> QED BY <1>1, <2>1, <2>2 DEF PC
<1>11. CASE PmSend(c) \/ KickNotify(c) \/ KickCut(c)
  <2>1. PICK q \in {"reply", "cut"} : Goto(c, q)
    BY <1>11 DEF PmSend, KickNotify, KickCut
  <2>2. /\ UNCHANGED <<closed, presence, online, uname, room, queue, arg, lroom>>
        /\ pc[c] \in {"whisper", "notify", "cut"} /\ pc'[c] = q
    BY <1>0, <1>11, <2>1 DEF PmSend, KickNotify, KickCut, OnlySends
  <2>3. RoomNameOK(c)' /\ InRoom(c)' /\ InRoom(c)
    BY <2>2 DEF RoomNameOK, InRoom
  <2> QED BY <1>1, <2>1, <2>2, <2>3 DEF PC
<1>12. CASE DiscClose(c) \/ DiscRelease(c)
  <2>1. PICK q \in {"release", "gone"} : Goto(c, q)
    BY <1>12 DEF DiscClose, DiscRelease
  <2>2. /\ UNCHANGED <<closed, presence, online, uname, room, queue, arg, lroom>>
        /\ pc[c] \in {"close", "release"} /\ pc'[c] = q
    BY <1>0, <1>12, <2>1 DEF DiscClose, DiscRelease
  <2>3. RoomNameOK(c)' /\ c \notin online
    BY <1>0, <2>2 DEF RoomNameOK, SessionOK, Registered
  <2> QED BY <1>1, <2>1, <2>2, <2>3 DEF PC
<1> QED BY <1>2, <1>3, <1>4, <1>5, <1>6, <1>7, <1>8, <1>9, <1>10, <1>11, <1>12

\* The steps that queue an event, each about the handler's own user.
LEMMA EventPresence ==
    ASSUME SessionInv, PresenceInv, NEW c \in Conn,
           AuthAnnounce(c) \/ JoinLeave(c) \/ JoinArrive(c) \/ MsgPost(c) \/ DiscLeave(c)
    PROVE  PresenceInv' /\ CoherentStep
<1>0. /\ pc \in [Conn -> PC] /\ arg \in [Conn -> Line \cup {None}]
      /\ lroom \in [Conn -> Room] /\ room \in [Conn -> Room]
      /\ SessionOK(c) /\ RoomNameOK(c)
  BY DEF SessionInv, TypeOK, PresenceInv
<1>1. ASSUME c \in online, UNCHANGED <<closed, online, uname, room>>,
             NEW q \in PC, Goto(c, q), UNCHANGED <<arg, lroom>> \/ Return(c),
             NEW e \in Event, mq_push(e) \/ mq_push_fails, e.user = uname[c],
             IF InRoom(c) THEN e.kind # "JOIN" /\ e.room = room[c] ELSE e.kind = "JOIN",
             Announced(e) = IF InRoom(c)' THEN room[c] ELSE None,
             RoomNameOK(c)'
      PROVE  PresenceInv' /\ CoherentStep
  <2>1. \A d \in Conn \ {c} : pc'[d] = pc[d] /\ arg'[d] = arg[d] /\ lroom'[d] = lroom[d]
    BY <1>0, <1>1 DEF Return
  <2> QED BY <1>1, <2>1, PushStep
\* The same for an arrival or a departure announced by enqueue_room_event().
<1>2. ASSUME c \in online, UNCHANGED <<closed, online, uname, room>>,
             NEW q \in PC, Goto(c, q), UNCHANGED <<arg, lroom>> \/ Return(c),
             NEW k \in {"JOIN", "LEAVE"}, enqueue_room_event(k, uname[c], room[c]),
             k = "JOIN" => ~InRoom(c) /\ InRoom(c)',
             k = "LEAVE" => InRoom(c) /\ ~InRoom(c)',
             RoomNameOK(c)'
      PROVE  PresenceInv' /\ CoherentStep
  <2> DEFINE e == [kind |-> k, user |-> uname[c], room |-> room[c], id |-> None]
  <2>1. e \in Event
    BY <1>0, <1>2 DEF Event, SessionOK
  <2>2. e.user = uname[c] /\ e.kind = k /\ e.room = room[c]
    OBVIOUS
  <2>3. mq_push(e) \/ mq_push_fails
    BY <1>2 DEF enqueue_room_event
  <2> HIDE DEF e
  <2>4. Announced(e) = IF InRoom(c)' THEN room[c] ELSE None
    BY <1>2, <2>2 DEF Announced
  <2>5. IF InRoom(c) THEN e.kind # "JOIN" /\ e.room = room[c] ELSE e.kind = "JOIN"
    BY <1>2, <2>2
  <2> QED BY <1>1, <1>2, <2>1, <2>2, <2>3, <2>4, <2>5
<1>3. CASE AuthAnnounce(c)
  <2>1. PICK q \in {"recv", "disc"} : Goto(c, q)
    BY <1>3 DEF AuthAnnounce, Loop
  <2>2. /\ UNCHANGED <<closed, online, uname, room>> /\ Return(c)
        /\ pc[c] = "announce" /\ pc'[c] = q
        /\ enqueue_room_event("JOIN", uname[c], Lobby)
    BY <1>0, <1>3, <2>1 DEF AuthAnnounce, OnlyQueues
  <2>3. c \in online /\ room[c] = Lobby
    BY <1>0, <2>2 DEF SessionOK, Registered, RoomNameOK
  <2>4. RoomNameOK(c)' /\ ~InRoom(c) /\ InRoom(c)'
    BY <2>2 DEF RoomNameOK, InRoom
  <2> QED BY <1>2, <2>1, <2>2, <2>3, <2>4 DEF PC
<1>4. CASE JoinLeave(c)
  <2>1. /\ UNCHANGED <<closed, online, uname, room, arg, lroom>> /\ Goto(c, "move")
        /\ pc[c] = "leave" /\ pc'[c] = "move"
        /\ enqueue_room_event("LEAVE", uname[c], lroom[c])
    BY <1>0, <1>4 DEF JoinLeave, OnlyQueues
  <2>2. c \in online /\ lroom[c] = room[c]
    BY <1>0, <2>1 DEF SessionOK, Registered, RoomNameOK
  <2>3. RoomNameOK(c)' /\ InRoom(c) /\ ~InRoom(c)'
    BY <2>1 DEF RoomNameOK, InRoom
  <2> QED BY <1>2, <2>1, <2>2, <2>3 DEF PC
<1>5. CASE JoinArrive(c)
  <2>1. /\ UNCHANGED <<closed, online, uname, room, arg, lroom>> /\ Goto(c, "reply")
        /\ pc[c] = "arrive" /\ pc'[c] = "reply"
        /\ enqueue_room_event("JOIN", uname[c], lroom[c])
    BY <1>0, <1>5 DEF JoinArrive, OnlyQueues
  <2>2. c \in online /\ lroom[c] = room[c]
    BY <1>0, <2>1 DEF SessionOK, Registered, RoomNameOK
  <2>3. RoomNameOK(c)' /\ ~InRoom(c) /\ InRoom(c)'
    BY <2>1 DEF RoomNameOK, InRoom
  <2> QED BY <1>2, <2>1, <2>2, <2>3 DEF PC
<1>6. CASE MsgPost(c)
  <2> DEFINE e == [kind |-> "CHAT", user |-> uname[c], room |-> lroom[c], id |-> MyMsg(c)]
  <2>1. /\ UNCHANGED <<closed, online, uname, room, arg, lroom>> /\ Goto(c, "reply")
        /\ pc[c] = "post" /\ pc'[c] = "reply" /\ (mq_push(e) \/ mq_push_fails)
    BY <1>0, <1>6 DEF MsgPost
  <2>2. c \in online /\ lroom[c] = room[c]
    BY <1>0, <2>1 DEF SessionOK, Registered, RoomNameOK
  <2>3. e \in Event
    <3>1. lines[c] \in Nat \ {0}
      BY <1>0, <2>1 DEF SessionInv, TypeOK, SessionOK
    <3> QED BY <1>0, <2>1, <2>2, <3>1 DEF Event, SessionOK, MyMsg, MsgId
  <2>4. e.user = uname[c] /\ e.kind = "CHAT" /\ e.room = room[c]
    BY <2>2
  <2> HIDE DEF e
  <2>5. RoomNameOK(c)' /\ InRoom(c) /\ InRoom(c)' /\ Announced(e) = room[c]
    BY <2>1, <2>4 DEF RoomNameOK, InRoom, Announced
  <2> QED BY <1>1, <2>1, <2>2, <2>3, <2>4, <2>5 DEF PC
<1>7. CASE DiscLeave(c)
  <2>1. PICK q \in {"remove", "close"} :
            Goto(c, q) /\ q = IF auth[c] THEN "remove" ELSE "close"
    BY <1>7 DEF DiscLeave
  <2>2. /\ UNCHANGED <<closed, online, uname, room, arg, lroom>>
        /\ pc[c] = "disc" /\ pc'[c] = q
    BY <1>0, <1>7, <2>1 DEF DiscLeave, OnlyQueues
  <2>3. RoomNameOK(c)' /\ InRoom(c) /\ ~InRoom(c)'
    BY <2>2 DEF RoomNameOK, InRoom
  <2>4. CASE auth[c]
    <3>1. c \in online
      BY <1>0, <2>2, <2>4 DEF SessionOK, Registered
    <3>2. ByFd(fd[c]) = {c}
      BY <3>1, OwnNode
    <3>3. enqueue_room_event("LEAVE", uname[c], room[c])
      BY <1>7, <2>4, <3>2 DEF DiscLeave
    <3> QED BY <1>2, <2>1, <2>2, <2>3, <3>1, <3>3 DEF PC
  <2>5. CASE ~auth[c]
    <3>1. c \notin online
      BY <1>0, <2>2, <2>5 DEF SessionOK, Registered
    <3>2. UNCHANGED <<queue, presence>>
      BY <1>7, <2>5 DEF DiscLeave
    <3>3. \A d \in Conn \ {c} : pc'[d] = pc[d]
      BY <1>0, <2>1
    <3> QED BY <2>2, <2>3, <3>1, <3>2, <3>3, SilentStep, SilentCoherent
  <2> QED BY <2>4, <2>5
<1> QED BY <1>3, <1>4, <1>5, <1>6, <1>7

\* The steps that add, move and remove the handler's node tell nothing: the
\* user is in no room at that time.
LEMMA RegistryPresence ==
    ASSUME SessionInv, PresenceInv, NEW c \in Conn,
           AuthAdd(c) \/ JoinMove(c) \/ AuthUndo(c) \/ DiscRemove(c)
    PROVE  PresenceInv' /\ CoherentStep
<1>0. /\ pc \in [Conn -> PC] /\ arg \in [Conn -> Line \cup {None}]
      /\ lroom \in [Conn -> Room] /\ room \in [Conn -> Room]
      /\ uname \in [Conn -> User \cup {None}] /\ online \subseteq Conn
      /\ SessionOK(c) /\ RoomNameOK(c)
  BY DEF SessionInv, TypeOK, PresenceInv
<1>1. UNCHANGED <<closed, presence, queue>>
  BY DEF AuthAdd, JoinMove, AuthUndo, DiscRemove
<1>2. ASSUME NEW d \in Conn \ {c}
      PROVE  /\ pc'[d] = pc[d] /\ arg'[d] = arg[d] /\ lroom'[d] = lroom[d]
             /\ uname'[d] = uname[d] /\ room'[d] = room[d]
  <2>1. CASE AuthAdd(c)
    BY <1>0, <2>1 DEF AuthAdd
  <2>2. CASE JoinMove(c)
    <3>1. ByFd(fd[c]) = {c}
      BY <1>0, <2>2, OwnNode DEF JoinMove, SessionOK, Registered
    <3> QED BY <1>0, <2>2, <3>1 DEF JoinMove, registry_set_room
  <2>3. CASE AuthUndo(c) \/ DiscRemove(c)
    BY <1>0, <2>3 DEF AuthUndo, DiscRemove, Return
  <2> QED BY <2>1, <2>2, <2>3
<1>3. ASSUME NEW d \in Conn \ {c}
      PROVE  RoomNameOK(d)' /\ (Told(d) => Told(d)')
  <2>1. RoomNameOK(d)
    BY DEF PresenceInv
  <2>2. RoomNameOK(d)'
    BY <1>2, <2>1 DEF RoomNameOK
  <2>3. InRoom(d)' <=> InRoom(d)
    BY <1>2 DEF InRoom
  <2> QED BY <1>1, <1>2, <2>2, <2>3 DEF Told
<1>4. CASE AuthAdd(c)
  <2>1. /\ online' = online \cup {c} /\ pc'[c] = "welcome" /\ room'[c] = Lobby
        /\ lroom'[c] = Lobby /\ uname'[c] = arg[c].who /\ c \notin online
        /\ \A d \in online : uname[d] # arg[c].who
    BY <1>0, <1>4 DEF AuthAdd, CanAdd, registry_username_exists, ByName,
                      SessionOK, Registered
  <2>2. arg[c].who \in User
    BY <1>0, <1>4 DEF AuthAdd, SessionOK, Line
  <2>3. RoomNameOK(c)' /\ ~InRoom(c)'
    BY <2>1 DEF RoomNameOK, InRoom
  <2>4. ASSUME ~OutOfMemory, ~closed
        PROVE  /\ \A d \in online' : Told(d)'
               /\ \A u \in User : (\A d \in online' : uname'[d] # u) => presence[u] = None
    <3>1. Told(c)'
      BY <1>1, <2>1, <2>2, <2>3, <2>4 DEF Told, PresenceInv
    <3>2. \A d \in online : Told(d)'
      BY <1>0, <1>3, <2>1, <2>4 DEF PresenceInv
    <3>3. \A d \in online : uname'[d] = uname[d]
      BY <1>0, <1>2, <2>1
    <3> QED BY <2>1, <2>4, <3>1, <3>2, <3>3 DEF PresenceInv
  <2> QED BY <1>1, <1>3, <2>3, <2>4, SilentCoherent DEF PresenceInv
<1>5. CASE JoinMove(c)
  <2>1. c \in online /\ ByFd(fd[c]) = {c} /\ arg[c].cmd = "JOIN_ROOM" /\ arg'[c] = arg[c]
    BY <1>0, <1>5, OwnNode DEF JoinMove, SessionOK, Registered
  <2>2. /\ UNCHANGED <<online, uname>> /\ pc[c] = "move" /\ pc'[c] = "joined"
        /\ room'[c] = lroom'[c]
    BY <1>0, <1>5, <2>1 DEF JoinMove, registry_set_room
  <2>3. RoomNameOK(c)' /\ ~InRoom(c) /\ ~InRoom(c)'
    BY <2>1, <2>2 DEF RoomNameOK, InRoom
  <2>4. Told(c) => Told(c)'
    BY <1>1, <2>2, <2>3 DEF Told
  <2>5. (~OutOfMemory /\ ~closed) => \A d \in online' : Told(d)'
    BY <1>0, <1>3, <2>2, <2>4 DEF PresenceInv
  <2> QED BY <1>1, <1>3, <2>2, <2>3, <2>5, SilentCoherent DEF PresenceInv
<1>6. CASE AuthUndo(c) \/ DiscRemove(c)
  <2>1. c \in online /\ ByFd(fd[c]) = {c}
    BY <1>0, <1>6, OwnNode DEF AuthUndo, DiscRemove, SessionOK, Registered
  <2>2. /\ online' = online \ {c} /\ UNCHANGED <<uname, room>>
        /\ pc[c] \in {"undo", "remove"} /\ pc'[c] \in {"disc", "close"}
    BY <1>0, <1>6, <2>1 DEF AuthUndo, DiscRemove, registry_remove
  <2>3. RoomNameOK(c)' /\ ~InRoom(c)
    BY <2>2 DEF RoomNameOK, InRoom
  <2>4. (~OutOfMemory /\ ~closed) => \A d \in online' : Told(d)'
    BY <1>0, <1>3, <2>2 DEF PresenceInv
  <2>5. (~OutOfMemory /\ ~closed) =>
            \A u \in User : (\A d \in online' : uname'[d] # u) => presence[u] = None
    <3> SUFFICES ASSUME ~OutOfMemory, ~closed, NEW u \in User,
                        \A d \in online' : uname'[d] # u
                 PROVE  presence[u] = None
      OBVIOUS
    <3>1. CASE u = uname[c]
      BY <2>1, <2>3, <3>1 DEF PresenceInv, Told
    <3>2. CASE u # uname[c]
      BY <2>2, <3>2 DEF PresenceInv
    <3> QED BY <3>1, <3>2
  <2> QED BY <1>1, <1>3, <2>3, <2>4, <2>5, SilentCoherent DEF PresenceInv
<1> QED BY <1>4, <1>5, <1>6

-----------------------------------------------------------------------------
(* The other threads.                                                      *)

\* A step that leaves handlers, registry and announcements alone, and does not
\* reopen or lengthen the queue.
LEMMA AsidePresence ==
    ASSUME SessionInv, PresenceInv,
           UNCHANGED <<pc, arg, lroom, online, uname, room, presence>>,
           closed => closed', Len(queue') <= Len(queue)
    PROVE  PresenceInv' /\ CoherentStep
<1>1. \A c \in Conn : RoomNameOK(c)'
  BY DEF PresenceInv, RoomNameOK
<1>2. (~OutOfMemory /\ ~closed) => \A c \in online : Told(c)'
  BY DEF PresenceInv, Told, InRoom
<1>3. CoherentStep
  BY DEF CoherentStep
<1> QED BY <1>1, <1>2, <1>3 DEF PresenceInv

\* Every step of the system is coherent and keeps the invariant.
LEMMA PresenceStep ==
    ASSUME SessionInv, PresenceInv, [Next]_vars
    PROVE  PresenceInv' /\ CoherentStep
<1>0. Len(queue) \in Nat /\ queue \in Seq(Event) /\ pc \in [Conn -> PC]
  BY LenProperties DEF SessionInv, TypeOK
<1>1. ASSUME NEW c \in Conn, Handler(c) PROVE PresenceInv' /\ CoherentStep
  <2>1. CASE HandlerKilled(c)
    BY <1>0, <2>1, AsidePresence DEF HandlerKilled, Killed, threadVars
  <2> QED BY <1>1, <2>1, ReadsPresence, QuietPresence, EventPresence, RegistryPresence
          DEF Handler, HandlerWorks
<1>2. ASSUME NEW c \in Conn, Accept(c) \/ Start(c) \/ StartFails(c) \/ Reject(c)
      PROVE  PresenceInv' /\ CoherentStep
  <2>1. PICK q \in {"start", "recv", "disc", "gone"} : Goto(c, q)
    BY <1>2 DEF Accept, Start, StartFails, StartUnwinds, Reject, Loop
  <2>2. /\ UNCHANGED <<closed, presence, online, uname, room, queue, arg, lroom>>
        /\ pc[c] \in {"new", "start"} /\ pc'[c] = q
        /\ \A d \in Conn \ {c} : pc'[d] = pc[d]
    BY <1>0, <1>2, <2>1 DEF Accept, Start, StartFails, StartUnwinds, Reject
  <2>3. c \notin online
    BY <2>2 DEF SessionInv, SessionOK, Registered
  <2>4. RoomNameOK(c)'
    BY <2>2 DEF RoomNameOK
  <2> QED BY <2>2, <2>3, <2>4, SilentStep, SilentCoherent
<1>3. CASE AcceptInterrupted \/ ShutdownQueue \/ Exit \/ Signal
  BY <1>0, <1>3, AsidePresence
  DEF AcceptInterrupted, ShutdownQueue, Exit, Signal, threadVars
<1>4. CASE Broadcaster
  <2>1. BroadcasterPop => Len(queue') <= Len(queue)
    BY <1>0, HeadTailProperties DEF BroadcasterPop
  <2>2. ~BroadcasterPop => queue' = queue
    BY <1>4 DEF Broadcaster, BroadcasterStop, FanStart, FanNext, FanFreed,
                FanFreedKilled, FanSend, FanFails, FanKilled, Killed, threadVars
  <2>3. UNCHANGED <<pc, arg, lroom, online, uname, room, presence, closed>>
    BY <1>4 DEF Broadcaster, BroadcasterPop, BroadcasterStop, FanStart, FanNext,
                FanFreed, FanFreedKilled, FanSend, FanFails, FanKilled, Killed,
                threadVars, OnlyFans
  <2> QED BY <1>0, <2>1, <2>2, <2>3, AsidePresence
<1>5. ASSUME NEW c \in Conn, PeerClose(c) PROVE PresenceInv' /\ CoherentStep
  BY <1>0, <1>5, AsidePresence DEF PeerClose
<1>6. CASE UNCHANGED vars
  BY <1>0, <1>6, AsidePresence DEF vars
<1> QED BY <1>1, <1>2, <1>3, <1>4, <1>5, <1>6 DEF Next, Main

\* The invariant holds in every state of every behaviour.
THEOREM PresenceInvariant == Spec => []PresenceInv
<1>1. Init => PresenceInv
  BY DEF Init, PresenceInv, RoomNameOK
<1>2. SessionInv /\ PresenceInv /\ [Next]_vars => PresenceInv'
  BY PresenceStep
<1> QED BY <1>1, <1>2, SessionInvariant, PTL DEF Spec

\* The events queued about a user are coherent, in every behaviour.
THEOREM PresenceStory == Spec => PresenceCoherent
<1>1. SessionInv /\ PresenceInv /\ [Next]_vars => [CoherentStep]_vars
  BY PresenceStep
<1>2. [CoherentStep]_vars =>
          [(~OutOfMemory /\ Len(queue') > Len(queue)) =>
              LET e == queue'[Len(queue')]
              IN  presence[e.user] = IF e.kind = "JOIN" THEN None ELSE e.room]_vars
  BY DEF CoherentStep
<1> QED BY <1>1, <1>2, SessionInvariant, PresenceInvariant, PTL DEF Spec, PresenceCoherent

=============================================================================
