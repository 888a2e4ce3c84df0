----------------------------- MODULE ChatServer -----------------------------
(***************************************************************************)
(* The chat server as a whole: the accept loop, one handler thread per     *)
(* connection, the broadcaster thread, and what they share: the registry   *)
(* of online users, the broadcast queue, the room histories and the file   *)
(* descriptors of the connections.                                         *)
(*                                                                         *)
(* Every critical section of the code (a call on the registry, the queue   *)
(* or the rooms) and every send() is one step.  What a thread does on its  *)
(* own data is merged into the next such step.  A session is one TCP       *)
(* connection, from accept() to the end of its handler thread; the kernel  *)
(* may give its descriptor to another session as soon as it is closed.     *)
(***************************************************************************)
EXTENDS Integers, Sequences, FiniteSets

CONSTANTS
    Conn,        \* the connections peers may open
    Fickle,      \* the connections whose peer may go away without QUIT
    Fd,          \* descriptor numbers available for connections
    User,        \* accounts of the user database
    Admin,       \* the accounts with the admin flag
    Room,        \* room names
    Lobby,       \* DEFAULT_ROOM
    None,        \* "no value"
    Inputs,      \* the lines the peer of each connection may send
    MaxLines,    \* bound: lines the peer of each connection sends
    MaxClients,  \* MAX_CLIENTS
    MaxRooms,    \* MAX_ROOMS
    MaxHistory,  \* MAX_ROOM_HISTORY
    PayloadCap,  \* history entries that fit one HISTORY line
    OutOfMemory, \* whether malloc may fail
    NoThread,    \* whether pthread_create may fail
    Stoppable    \* whether SIGINT or SIGTERM may arrive

\* parsed_cmd_t: AUTH with the right password, AUTHBAD with a wrong one, BAD a
\* line that the parser or the command's first check refuses.
Line == [cmd : {"AUTH", "PM", "KICK"}, who : User, room : {None}]
        \cup [cmd : {"JOIN_ROOM"}, who : {None}, room : Room]
        \cup [cmd : {"AUTHBAD", "MSG", "LIST", "HISTORY", "QUIT", "BAD"},
              who : {None}, room : {None}]

ASSUME FickleAssumption == Fickle \subseteq Conn
ASSUME NoneAssumption == None \notin Conn \cup Fd \cup User \cup Room
ASSUME FdAssumption == Fd \subseteq Nat
ASSUME AdminAssumption == Admin \subseteq User
ASSUME LobbyAssumption == Lobby \in Room
ASSUME BoundAssumption ==
    /\ MaxLines \in [Conn -> Nat]
    /\ MaxClients \in Nat
    /\ MaxRooms \in Nat \ {0}
    /\ MaxHistory \in Nat \ {0}
    /\ PayloadCap \in Nat
    /\ OutOfMemory \in BOOLEAN
    /\ NoThread \in BOOLEAN
    /\ Stoppable \in BOOLEAN
ASSUME InputsAssumption == Inputs \in [Conn -> SUBSET Line]

VARIABLES
    proc,      \* the process: "up", "killed" by a signal, "exited"
    running,   \* srv->running
    closed,    \* broadcast_queue.shutdown
    mpc,       \* main thread: "accept", "start", "stop", "join", "end"
    active,    \* srv->active_connections
    pc,        \* where the handler thread of a session is
    fd,        \* its client_fd
    auth,      \* its `authenticated`
    lines,     \* lines it has read
    arg,       \* the command being executed
    lroom,     \* the room name the command works with
    tfd,       \* target_fd of PM and KICK
    open,      \* sessions whose descriptor is not closed
    peer,      \* the other end: "open", "closed", "reset"
    shut,      \* sessions whose socket had shutdown(SHUT_RDWR)
    online,    \* the nodes of the registry, by the session that added them
    uname,     \* node->username
    room,      \* node->room
    queue,     \* broadcast_queue
    rooms,     \* the rooms of the room manager
    history,   \* the messages a room keeps
    payload,   \* those in the HISTORY line a handler is about to send
    bpc,       \* broadcaster: "pop", "start", "send", "next", "done"
    bmsg,      \* the message it fans out
    bcur,      \* the node it is at
    btodo,     \* the nodes after it
    seen,      \* history variable: messages a session received
    synced,    \* history variable: sessions that were sent their room's history
    lost,      \* history variable: messages whose fan-out failed or was cut
    presence   \* history variable: the room a user's queued events put it in

mainVars     == <<proc, running, closed, mpc, active>>
handlerVars  == <<fd, auth, lines, arg, lroom, tfd>>
socketVars   == <<open, peer, shut>>
registryVars == <<online, uname, room>>
roomVars     == <<rooms, history, payload>>
fanVars      == <<bpc, bmsg, bcur, btodo>>
ghostVars    == <<seen, synced, lost>>

vars == <<mainVars, pc, handlerVars, socketVars, registryVars, queue, roomVars,
          fanVars, ghostVars, presence>>

PC == {"new", "start", "recv", "reply", "bye", "full", "exists", "add", "welcome", "undo",
       "joined", "format", "history", "ok", "announce", "leave", "move", "arrive",
       "store", "post", "whisper", "notify", "cut", "disc", "remove", "close",
       "release", "gone"}

\* A message is named by its author and the number of the line it came on.
MsgId == Conn \X (Nat \ {0})
ASSUME MessageAssumption == None \notin MsgId
Event == [kind : {"CHAT"}, user : User, room : Room, id : MsgId]
         \cup [kind : {"JOIN", "LEAVE"}, user : User, room : Room, id : {None}]

MyMsg(c) == <<c, lines[c]>>
Entries(s) == {s[i] : i \in 1..Len(s)}

-----------------------------------------------------------------------------
(* Sockets: what send() and the kernel do.                                 *)

\* The session a descriptor number stands for now; none if it is closed.
Owner(f) == {d \in open : fd[d] = f}
FreeFds == Fd \ {fd[d] : d \in open}

\* The kernel takes the data.  It also does so after the peer has gone, until
\* the peer's RST is in.
SendOk(f) ==
    \E d \in Owner(f) :
        /\ d \notin shut
        /\ peer' = [peer EXCEPT ![d] = IF @ = "open" THEN "open" ELSE "reset"]

\* send_all() returns CHAT_ERR_IO: EBADF, or ECONNRESET reported once.
SendErr(f) ==
    \/ Owner(f) = {} /\ peer' = peer
    \/ \E d \in Owner(f) :
           /\ d \notin shut
           /\ peer[d] = "closed"
           /\ peer' = [peer EXCEPT ![d] = "reset"]

Send(f) == SendOk(f) \/ SendErr(f)

\* What is not the main thread's.
threadVars == <<pc, handlerVars, socketVars, registryVars, queue, roomVars, fanVars,
                ghostVars, presence>>

\* A signal with the default action ends the process.
Killed == /\ proc' = "killed"
          /\ UNCHANGED <<running, closed, mpc, active, threadVars>>

\* EPIPE.  The code neither ignores SIGPIPE nor passes MSG_NOSIGNAL, so the
\* signal that comes with it ends the process.
SendKills(f) == \E d \in Owner(f) : d \in shut \/ peer[d] = "reset"

-----------------------------------------------------------------------------
(* The broadcast queue, the registry and the rooms, as their callers see   *)
(* them.                                                                   *)

\* The room the user is in once the event is announced.
Announced(e) == IF e.kind = "LEAVE" THEN None ELSE e.room

mq_push(e) ==
    /\ ~closed
    /\ queue' = Append(queue, e)
    /\ presence' = [presence EXCEPT ![e.user] = Announced(e)]

mq_push_fails ==
    /\ closed \/ OutOfMemory
    /\ UNCHANGED <<queue, presence>>

\* enqueue_room_event(): its callers ignore the result.
enqueue_room_event(kind, u, r) ==
    \/ mq_push([kind |-> kind, user |-> u, room |-> r, id |-> None])
    \/ mq_push_fails

\* The nodes a search by descriptor, or by name, finds.
ByFd(f) == {d \in online : fd[d] = f}
ByName(u) == {d \in online : uname[d] = u}

registry_username_exists(u) == ByName(u) # {}

\* Mutant: the node is not found.
registry_remove_Misses(f) == online' = online

registry_remove(f) == online' = online \ ByFd(f)
registry_set_room(f, r) ==
    room' = [d \in Conn |-> IF d \in ByFd(f) THEN r ELSE room[d]]

\* The connection counter.  A new connection is refused at capacity.
conn_at_capacity == active >= MaxClients

conn_track_increment == active' = active + 1

\* Mutant: a slot is released both by the disconnect and by the end of the thread.
conn_track_decrement_Twice == active' = active - 2
conn_track_decrement == active' = IF active > 0 THEN active - 1 ELSE active

\* room_history_add(): creates the room unless there are MAX_ROOMS, and drops
\* the oldest entry when the ring is full.
room_history_add(r, m) ==
    IF r \in rooms \/ Cardinality(rooms) < MaxRooms
    THEN /\ rooms' = rooms \cup {r}
         /\ history' = [history EXCEPT ![r] =
                IF Len(@) < MaxHistory THEN Append(@, m) ELSE Append(Tail(@), m)]
    ELSE UNCHANGED <<rooms, history>>

\* room_find_or_create() found no room and no memory for one.
room_history_add_fails(r) ==
    OutOfMemory /\ r \notin rooms /\ UNCHANGED <<rooms, history>>

\* room_history_format() refuses a history that does not fit the line.
Fits(r) == Len(history[r]) <= PayloadCap

-----------------------------------------------------------------------------
(* The handler thread of session c: client_handler() and the commands.     *)

At(c, p) == proc = "up" /\ pc[c] = p
Goto(c, p) == pc' = [pc EXCEPT ![c] = p]

\* What a step that only moves the handler on, or only queues an event, leaves.
OnlyQueues ==
    UNCHANGED <<mainVars, socketVars, registryVars, roomVars, fanVars, ghostVars>>
OnlyMoves == OnlyQueues /\ UNCHANGED <<handlerVars, queue, presence>>

\* The test of the handler's `while (srv->running)`.
Loop(c) == Goto(c, IF running THEN "recv" ELSE "disc")

\* server_recv_line() returned a line.  Bytes already received are still read
\* after the peer has gone or the socket was shut down.
Read(c) ==
    /\ At(c, "recv")
    /\ lines[c] < MaxLines[c]
    /\ lines' = [lines EXCEPT ![c] = @ + 1]
    /\ UNCHANGED <<mainVars, fd, auth, socketVars, registryVars, queue, roomVars,
                   fanVars, ghostVars, presence>>

\* Mutant: the handler tries again.
RecvEofRetries(c) ==
    /\ At(c, "recv")
    /\ peer[c] # "open" \/ c \in shut
    /\ Goto(c, "recv")
    /\ OnlyMoves

\* server_recv_line() failed: end of file, or the connection was reset.
RecvEof(c) ==
    /\ At(c, "recv")
    /\ peer[c] # "open" \/ c \in shut
    /\ Goto(c, "disc")
    /\ OnlyMoves

\* A command of an authenticated session, as the parser returns it.
Command(c, l, k) ==
    /\ Read(c)
    /\ auth[c]
    /\ l.cmd = k
    /\ arg' = [arg EXCEPT ![c] = l]

\* The commands the dispatch answers with one line and no other effect: a line
\* the parser refuses, anything but AUTH before authentication, AUTH after it,
\* and LIST.
HandleOther(c) ==
    \E l \in Inputs[c] :
        /\ Read(c)
        /\ \/ l.cmd = "BAD"
           \/ ~auth[c] /\ l.cmd \notin {"AUTH", "AUTHBAD"}
           \/ auth[c] /\ l.cmd \in {"AUTH", "AUTHBAD", "LIST"}
        /\ Goto(c, "reply")
        /\ UNCHANGED <<arg, lroom, tfd>>

HandleQuit(c) ==
    \E l \in Inputs[c] :
        /\ Read(c)
        /\ auth[c]
        /\ l.cmd = "QUIT"
        /\ Goto(c, "disc")
        /\ UNCHANGED <<arg, lroom, tfd>>

\* cmd_handle_auth() up to auth_verify().
HandleAuth(c) ==
    \E l \in Inputs[c] :
        /\ Read(c)
        /\ ~auth[c]
        /\ arg' = [arg EXCEPT ![c] = l]
        /\ \/ l.cmd = "AUTH" /\ Goto(c, "exists")
           \/ l.cmd = "AUTHBAD" /\ Goto(c, "bye")
        /\ UNCHANGED <<lroom, tfd>>

\* A command looks its own session up by descriptor (registry_get_username(),
\* registry_get_room()); if that finds nothing it answers "authenticate first".
OwnRoom(c, S, next) ==
    /\ IF S # {}
       THEN /\ \E d \in S : lroom' = [lroom EXCEPT ![c] = room[d]]
            /\ Goto(c, next)
       ELSE Goto(c, "reply") /\ lroom' = lroom
    /\ tfd' = tfd

\* JOIN_ROOM of the room one is in is refused.
HandleJoinRoom(c) ==
    \E l \in Inputs[c] :
        /\ Command(c, l, "JOIN_ROOM")
        /\ OwnRoom(c, {d \in ByFd(fd[c]) : room[d] # l.room}, "leave")

HandleMsg(c) ==
    \E l \in Inputs[c] : Command(c, l, "MSG") /\ OwnRoom(c, ByFd(fd[c]), "store")

HandleHistory(c) ==
    \E l \in Inputs[c] : Command(c, l, "HISTORY") /\ OwnRoom(c, ByFd(fd[c]), "format")

\* PM and KICK, when the sender may use them: the target is not the sender,
\* and its descriptor is looked up by name and kept in a local variable.
Target(c, l, allowed, next) ==
    /\ IF allowed /\ ByName(l.who) # {} /\ \A d \in ByFd(fd[c]) : uname[d] # l.who
       THEN /\ \E d \in ByName(l.who) : tfd' = [tfd EXCEPT ![c] = fd[d]]
            /\ Goto(c, next)
       ELSE Goto(c, "reply") /\ tfd' = tfd
    /\ lroom' = lroom

HandlePm(c) ==
    \E l \in Inputs[c] :
        Command(c, l, "PM") /\ Target(c, l, ByFd(fd[c]) # {}, "whisper")

\* registry_is_admin()
IsAdmin(f) == \E d \in ByFd(f) : uname[d] \in Admin

HandleKick(c) ==
    \E l \in Inputs[c] :
        Command(c, l, "KICK") /\ Target(c, l, IsAdmin(fd[c]), "notify")

\* A step that is one send() and what the handler does with its result.
OnlySends ==
    UNCHANGED <<mainVars, fd, auth, lines, open, shut, registryVars, queue, roomVars,
                fanVars, presence>>

\* The command returns: its local variables are gone.
Return(c) == /\ arg' = [arg EXCEPT ![c] = None]
             /\ lroom' = [lroom EXCEPT ![c] = Lobby]
             /\ tfd' = [tfd EXCEPT ![c] = None]

\* The last line of every command; the handler stops when it cannot be sent.
Reply(c) ==
    /\ At(c, "reply")
    /\ \/ SendOk(fd[c]) /\ Loop(c)
       \/ SendErr(fd[c]) /\ Goto(c, "disc")
    /\ Return(c)
    /\ OnlySends
    /\ UNCHANGED ghostVars

\* A failed AUTH: the ERR line, then the handler stops whatever became of it.
\* "full" is the ERR that says "server full".
Refuse(c) ==
    /\ At(c, "bye") \/ At(c, "full")
    /\ Send(fd[c])
    /\ Goto(c, "disc")
    /\ Return(c)
    /\ OnlySends
    /\ UNCHANGED ghostVars

\* cmd_handle_auth(), step by step.
AuthExists(c) ==
    /\ At(c, "exists")
    /\ Goto(c, IF registry_username_exists(arg[c].who) THEN "bye" ELSE "add")
    /\ OnlyMoves

\* Mutant: a name that came online meanwhile is not looked for.
CanAddDuplicate(u) == Cardinality(online) < MaxClients

\* registry_add(): CHAT_ERR_FULL and CHAT_ERR_DUPLICATE.
CanAdd(u) == Cardinality(online) < MaxClients /\ ~registry_username_exists(u)

AuthAdd(c) ==
    /\ At(c, "add")
    /\ CanAdd(arg[c].who)
    /\ online' = online \cup {c}
    /\ uname' = [uname EXCEPT ![c] = arg[c].who]
    /\ room' = [room EXCEPT ![c] = Lobby]
    /\ lroom' = [lroom EXCEPT ![c] = Lobby]
    /\ Goto(c, "welcome")
    /\ UNCHANGED <<mainVars, fd, auth, lines, arg, tfd, socketVars, queue, roomVars,
                   fanVars, ghostVars, presence>>

AuthAddFails(c) ==
    /\ At(c, "add")
    /\ OutOfMemory \/ ~CanAdd(arg[c].who)
    /\ Goto(c, "full")
    /\ OnlyMoves

AuthWelcome(c) ==
    /\ At(c, "welcome")
    /\ \/ SendOk(fd[c]) /\ Goto(c, "joined")
       \/ SendErr(fd[c]) /\ Goto(c, "undo")
    /\ UNCHANGED <<arg, lroom, tfd>>
    /\ OnlySends
    /\ UNCHANGED ghostVars

AuthUndo(c) ==
    /\ At(c, "undo")
    /\ registry_remove(fd[c])
    /\ Goto(c, "disc")
    /\ Return(c)
    /\ UNCHANGED <<mainVars, fd, auth, lines, socketVars, uname, room, queue, roomVars,
                   fanVars, ghostVars, presence>>

\* ROOM_JOINED, of AUTH and of JOIN_ROOM.
RoomJoined(c) ==
    /\ At(c, "joined")
    /\ Send(fd[c])
    /\ Goto(c, "format")
    /\ UNCHANGED <<arg, lroom, tfd>>
    /\ OnlySends
    /\ UNCHANGED ghostVars

\* room_history_send_to_client(), of AUTH, JOIN_ROOM and HISTORY: the line is
\* built under the lock of the rooms and sent after it is released.
AfterHistory(c) == CASE arg[c].cmd = "AUTH" -> "ok"
                     [] arg[c].cmd = "JOIN_ROOM" -> "arrive"
                     [] OTHER -> "reply"

FormatHistory(c) ==
    /\ At(c, "format")
    /\ IF Fits(lroom[c])
       THEN /\ payload' = [payload EXCEPT ![c] = Entries(history[lroom[c]])]
            /\ Goto(c, "history")
       ELSE payload' = payload /\ Goto(c, AfterHistory(c))
    /\ UNCHANGED <<mainVars, handlerVars, socketVars, registryVars, queue, rooms, history,
                   fanVars, ghostVars, presence>>

SendHistory(c) ==
    /\ At(c, "history")
    /\ \/ /\ SendOk(fd[c])
          /\ seen' = [seen EXCEPT ![c] = @ \cup payload[c]]
          /\ synced' = synced \cup {c}
       \/ /\ SendErr(fd[c])
          /\ UNCHANGED <<seen, synced>>
    /\ payload' = [payload EXCEPT ![c] = {}]
    /\ Goto(c, AfterHistory(c))
    /\ UNCHANGED <<mainVars, handlerVars, open, shut, registryVars, queue, rooms, history,
                   fanVars, lost, presence>>

AuthOk(c) ==
    /\ At(c, "ok")
    /\ Send(fd[c])
    /\ Goto(c, "announce")
    /\ UNCHANGED <<arg, lroom, tfd>>
    /\ OnlySends
    /\ UNCHANGED ghostVars

AuthAnnounce(c) ==
    /\ At(c, "announce")
    /\ enqueue_room_event("JOIN", uname[c], Lobby)
    /\ auth' = [auth EXCEPT ![c] = TRUE]
    /\ Loop(c)
    /\ Return(c)
    /\ OnlyQueues
    /\ UNCHANGED <<fd, lines>>

\* Mutant: the room announced as left is the new one.
JoinLeaveNewRoom(c) ==
    /\ At(c, "leave")
    /\ enqueue_room_event("LEAVE", uname[c], arg[c].room)
    /\ Goto(c, "move")
    /\ OnlyQueues
    /\ UNCHANGED handlerVars

\* cmd_handle_join_room(), after its checks.
JoinLeave(c) ==
    /\ At(c, "leave")
    /\ enqueue_room_event("LEAVE", uname[c], lroom[c])
    /\ Goto(c, "move")
    /\ OnlyQueues
    /\ UNCHANGED handlerVars

\* Mutant: ROOM_JOINED and the history are those of the old room.
JoinMoveStale(c) ==
    /\ At(c, "move")
    /\ registry_set_room(fd[c], arg[c].room)
    /\ synced' = synced \ {c}
    /\ Goto(c, "joined")
    /\ UNCHANGED <<mainVars, handlerVars, socketVars, online, uname, queue, roomVars,
                   fanVars, seen, lost, presence>>

JoinMove(c) ==
    /\ At(c, "move")
    /\ registry_set_room(fd[c], arg[c].room)
    /\ lroom' = [lroom EXCEPT ![c] = arg[c].room]
    /\ synced' = synced \ {c}
    /\ Goto(c, "joined")
    /\ UNCHANGED <<mainVars, fd, auth, lines, arg, tfd, socketVars, online, uname,
                   queue, roomVars, fanVars, seen, lost, presence>>

JoinArrive(c) ==
    /\ At(c, "arrive")
    /\ enqueue_room_event("JOIN", uname[c], lroom[c])
    /\ Goto(c, "reply")
    /\ OnlyQueues
    /\ UNCHANGED handlerVars

\* cmd_handle_msg(): the history first, then the queue.
MsgStore(c) ==
    /\ At(c, "store")
    /\ room_history_add(lroom[c], MyMsg(c)) \/ room_history_add_fails(lroom[c])
    /\ Goto(c, "post")
    /\ UNCHANGED <<mainVars, handlerVars, socketVars, registryVars, queue, payload,
                   fanVars, ghostVars, presence>>

MsgPost(c) ==
    /\ At(c, "post")
    /\ \/ /\ mq_push([kind |-> "CHAT", user |-> uname[c], room |-> lroom[c],
                      id |-> MyMsg(c)])
          /\ lost' = lost
       \/ /\ mq_push_fails
          /\ lost' = lost \cup {MyMsg(c)}
    /\ Goto(c, "reply")
    /\ UNCHANGED <<mainVars, handlerVars, socketVars, registryVars, roomVars, fanVars,
                   seen, synced>>

\* cmd_handle_pm(): the PM line to the descriptor found earlier.
PmSend(c) ==
    /\ At(c, "whisper")
    /\ Send(tfd[c])
    /\ Goto(c, "reply")
    /\ UNCHANGED <<arg, lroom, tfd>>
    /\ OnlySends
    /\ UNCHANGED ghostVars

\* cmd_handle_kick(): KICKED, then shutdown() of the descriptor found earlier.
KickNotify(c) ==
    /\ At(c, "notify")
    /\ Send(tfd[c])
    /\ Goto(c, "cut")
    /\ UNCHANGED <<arg, lroom, tfd>>
    /\ OnlySends
    /\ UNCHANGED ghostVars

\* Mutant: the target is told and not cut off.
KickCutSkipped(c) ==
    /\ At(c, "cut")
    /\ Goto(c, "reply")
    /\ UNCHANGED <<mainVars, handlerVars, socketVars, registryVars, queue, roomVars,
                   fanVars, ghostVars, presence>>

KickCut(c) ==
    /\ At(c, "cut")
    /\ shut' = shut \cup Owner(tfd[c])
    /\ Goto(c, "reply")
    /\ UNCHANGED <<mainVars, handlerVars, open, peer, registryVars, queue, roomVars,
                   fanVars, ghostVars, presence>>

\* A send() of the handler raised SIGPIPE.
SendTo(c) == IF pc[c] \in {"whisper", "notify"} THEN tfd[c] ELSE fd[c]

HandlerKilled(c) ==
    /\ proc = "up"
    /\ pc[c] \in {"reply", "bye", "full", "welcome", "joined", "history", "ok", "whisper",
                 "notify"}
    /\ SendKills(SendTo(c))
    /\ Killed

\* Mutant: close() comes before registry_remove().
DiscLeaveCloses(c) ==
    /\ At(c, "disc")
    /\ enqueue_room_event("LEAVE", uname[c], room[c])
    /\ open' = open \ {c}
    /\ Goto(c, IF auth[c] THEN "remove" ELSE "close")
    /\ UNCHANGED <<mainVars, handlerVars, peer, shut, registryVars, roomVars, fanVars,
                   ghostVars>>

\* disconnect_client(): LEAVE, registry_remove(), close(), and only then the
\* connection counter.
DiscLeave(c) ==
    /\ At(c, "disc")
    /\ IF auth[c] /\ ByFd(fd[c]) # {}
       THEN \E d \in ByFd(fd[c]) : enqueue_room_event("LEAVE", uname[c], room[d])
       ELSE UNCHANGED <<queue, presence>>
    /\ Goto(c, IF auth[c] THEN "remove" ELSE "close")
    /\ OnlyQueues
    /\ UNCHANGED handlerVars

DiscRemove(c) ==
    /\ At(c, "remove")
    /\ registry_remove(fd[c])
    /\ Goto(c, "close")
    /\ UNCHANGED <<mainVars, handlerVars, socketVars, uname, room, queue, roomVars,
                   fanVars, ghostVars, presence>>

\* The kernel forgets the connection; so do the history variables.
DiscClose(c) ==
    /\ At(c, "close")
    /\ open' = open \ {c}
    /\ shut' = shut \ {c}
    /\ peer' = [peer EXCEPT ![c] = "closed"]
    /\ seen' = [seen EXCEPT ![c] = {}]
    /\ synced' = synced \ {c}
    /\ Goto(c, "release")
    /\ UNCHANGED <<mainVars, handlerVars, registryVars, queue, roomVars, fanVars, lost,
                   presence>>

DiscRelease(c) ==
    /\ At(c, "release")
    /\ conn_track_decrement
    /\ Goto(c, "gone")
    /\ UNCHANGED <<proc, running, closed, mpc, handlerVars, socketVars, registryVars,
                   queue, roomVars, fanVars, ghostVars, presence>>

\* A line arrives; everything else the thread does without waiting for its peer.
HandlerReads(c) ==
    \/ HandleOther(c) \/ HandleQuit(c) \/ HandleAuth(c) \/ HandleJoinRoom(c)
    \/ HandleMsg(c) \/ HandleHistory(c) \/ HandlePm(c) \/ HandleKick(c)

HandlerWorks(c) ==
    \/ RecvEof(c) \/ Reply(c) \/ Refuse(c)
    \/ AuthExists(c) \/ AuthAdd(c) \/ AuthAddFails(c) \/ AuthWelcome(c)
    \/ AuthUndo(c) \/ RoomJoined(c) \/ FormatHistory(c) \/ SendHistory(c)
    \/ AuthOk(c) \/ AuthAnnounce(c)
    \/ JoinLeave(c) \/ JoinMove(c) \/ JoinArrive(c)
    \/ MsgStore(c) \/ MsgPost(c) \/ PmSend(c) \/ KickNotify(c) \/ KickCut(c)
    \/ DiscLeave(c) \/ DiscRemove(c) \/ DiscClose(c) \/ DiscRelease(c)
    \/ HandlerKilled(c)

Handler(c) == HandlerReads(c) \/ HandlerWorks(c)

-----------------------------------------------------------------------------
(* The main thread: the accept loop of server_run(), server_shutdown() and *)
(* the return from main().                                                 *)

\* The test of the accept loop's `while (srv->running)`.
AcceptLoop == mpc' = IF running THEN "accept" ELSE "stop"

\* accept() takes the lowest free descriptor, and the connection is counted.
\* Only this thread increments the counter, so that the capacity it has read
\* still holds.
Accept(c) ==
    /\ proc = "up"
    /\ mpc = "accept"
    /\ pc[c] = "new"
    /\ ~conn_at_capacity
    /\ \E f \in FreeFds :
           /\ \A g \in FreeFds : f <= g
           /\ fd' = [fd EXCEPT ![c] = f]
    /\ open' = open \cup {c}
    /\ conn_track_increment
    /\ Goto(c, "start")
    /\ mpc' = "start"
    /\ UNCHANGED <<proc, running, closed, auth, lines, arg, lroom, tfd, peer, shut,
                   registryVars, queue, roomVars, fanVars, ghostVars, presence>>

\* Its handler thread is started.
Start(c) ==
    /\ At(c, "start")
    /\ Loop(c)
    /\ AcceptLoop
    /\ UNCHANGED <<proc, running, closed, active, handlerVars, socketVars, registryVars,
                   queue, roomVars, fanVars, ghostVars, presence>>

\* What both ways to fail leave alone.
StartUnwinds(c) ==
    /\ At(c, "start")
    /\ OutOfMemory \/ NoThread
    /\ open' = open \ {c}
    /\ shut' = shut \ {c}
    /\ peer' = [peer EXCEPT ![c] = "closed"]
    /\ Goto(c, "gone")
    /\ AcceptLoop
    /\ UNCHANGED <<proc, running, closed, handlerVars, registryVars, queue, roomVars,
                   fanVars, ghostVars, presence>>

\* Mutant: the branch closes the connection and forgets that it was counted.
StartFailsForgets(c) == StartUnwinds(c) /\ active' = active

\* No memory for the thread's argument, or no thread: the descriptor is closed
\* and the counter goes down again.  Nobody but this thread can tell the two
\* apart.
StartFails(c) == StartUnwinds(c) /\ conn_track_decrement

\* At capacity the connection is told so and closed again.
Reject(c) ==
    /\ proc = "up"
    /\ mpc = "accept"
    /\ pc[c] = "new"
    /\ FreeFds # {}
    /\ conn_at_capacity
    /\ Goto(c, "gone")
    /\ AcceptLoop
    /\ UNCHANGED <<proc, running, closed, active, handlerVars, socketVars, registryVars,
                   queue, roomVars, fanVars, ghostVars, presence>>

\* signal_handler(), on SIGINT or SIGTERM.
Signal ==
    /\ Stoppable
    /\ proc = "up"
    /\ running
    /\ running' = FALSE
    /\ UNCHANGED <<proc, closed, mpc, active, threadVars>>

\* accept() returned EINTR, and the loop sees that running is cleared.
AcceptInterrupted ==
    /\ proc = "up"
    /\ mpc = "accept"
    /\ ~running
    /\ mpc' = "stop"
    /\ UNCHANGED <<proc, running, closed, active, threadVars>>

\* server_shutdown() up to pthread_join(): mq_signal_shutdown(), after which
\* the push of the MQ_SHUTDOWN sentinel is refused.
ShutdownQueue ==
    /\ proc = "up"
    /\ mpc = "stop"
    /\ closed' = TRUE
    /\ mpc' = "join"
    /\ UNCHANGED <<proc, running, active, threadVars>>

\* The broadcaster is joined, server_destroy() runs and main() returns, which
\* ends every thread.
Exit ==
    /\ proc = "up"
    /\ mpc = "join"
    /\ bpc = "done"
    /\ proc' = "exited"
    /\ mpc' = "end"
    /\ UNCHANGED <<running, closed, active, threadVars>>

Main == \/ \E c \in Conn : Accept(c) \/ Start(c) \/ StartFails(c) \/ Reject(c)
        \/ AcceptInterrupted \/ ShutdownQueue \/ Exit

-----------------------------------------------------------------------------
(* The broadcaster thread and registry_foreach().                          *)

\* The broadcaster's `while (srv->running)` after a message.
FanEnd == /\ bpc' = IF running THEN "pop" ELSE "done"
          /\ bmsg' = None
          /\ bcur' = None
          /\ btodo' = {}

\* registry_foreach() holds the lock at a node of S, the rest of the list:
\* it copies the node and unlocks; send_to_client() skips other rooms.  A node
\* added meanwhile is linked in at the head and never in the rest.
Visit(S) ==
    \/ S = {} /\ FanEnd
    \/ \E d \in S :
           /\ bmsg' = bmsg
           /\ bcur' = d
           /\ btodo' = S \ {d}
           /\ bpc' = IF room[d] = bmsg.room THEN "send" ELSE "next"

OnlyFans ==
    UNCHANGED <<mainVars, pc, handlerVars, open, shut, registryVars, roomVars, synced,
                presence>>

\* mq_pop() returned a message.
BroadcasterPop ==
    /\ proc = "up"
    /\ bpc = "pop"
    /\ queue # <<>>
    /\ bmsg' = Head(queue)
    /\ queue' = Tail(queue)
    /\ bpc' = "start"
    /\ OnlyFans
    /\ UNCHANGED <<peer, bcur, btodo, seen, lost>>

\* mq_pop() returned CHAT_ERR: shut down and empty.
BroadcasterStop ==
    /\ proc = "up"
    /\ bpc = "pop"
    /\ queue = <<>>
    /\ closed
    /\ bpc' = "done"
    /\ OnlyFans
    /\ UNCHANGED <<peer, queue, bmsg, bcur, btodo, seen, lost>>

FanStart ==
    /\ proc = "up"
    /\ bpc = "start"
    /\ Visit(online)
    /\ OnlyFans
    /\ UNCHANGED <<peer, queue, seen, lost>>

FanNext ==
    /\ proc = "up"
    /\ bpc = "next"
    /\ bcur \in online
    /\ Visit(btodo \cap online)
    /\ OnlyFans
    /\ UNCHANGED <<peer, queue, seen, lost>>

LostNow == IF bmsg.kind = "CHAT" THEN lost \cup {bmsg.id} ELSE lost

\* `cur = cur->next` after registry_remove() has freed cur: undefined.  The
\* walk may go on anywhere in the list or end.
FanFreed ==
    /\ proc = "up"
    /\ bpc = "next"
    /\ bcur \notin online
    /\ \E S \in SUBSET online : Visit(S)
    /\ lost' = LostNow
    /\ OnlyFans
    /\ UNCHANGED <<peer, queue, seen>>

\* The other outcome of the same read: the process is killed (SIGSEGV).
FanFreedKilled ==
    /\ proc = "up"
    /\ bpc = "next"
    /\ bcur \notin online
    /\ Killed

\* send_to_client(): the line goes to the copied descriptor.
FanSend ==
    /\ proc = "up"
    /\ bpc = "send"
    /\ SendOk(fd[bcur])
    /\ seen' = [d \in Conn |-> IF d \in Owner(fd[bcur]) /\ bmsg.kind = "CHAT"
                               THEN seen[d] \cup {bmsg.id} ELSE seen[d]]
    /\ bpc' = "next"
    /\ OnlyFans
    /\ UNCHANGED <<queue, bmsg, bcur, btodo, lost>>

\* It failed: registry_foreach() returns at once.
FanFails ==
    /\ proc = "up"
    /\ bpc = "send"
    /\ SendErr(fd[bcur])
    /\ lost' = LostNow
    /\ FanEnd
    /\ OnlyFans
    /\ UNCHANGED <<queue, seen>>

FanKilled ==
    /\ proc = "up"
    /\ bpc = "send"
    /\ SendKills(fd[bcur])
    /\ Killed

Broadcaster == \/ BroadcasterPop \/ BroadcasterStop \/ FanStart \/ FanNext
               \/ FanFreed \/ FanFreedKilled \/ FanSend \/ FanFails \/ FanKilled

-----------------------------------------------------------------------------
\* A peer closes or resets its connection.
PeerClose(c) ==
    /\ proc = "up"
    /\ c \in open \cap Fickle
    /\ peer[c] = "open"
    /\ peer' = [peer EXCEPT ![c] = "closed"]
    /\ UNCHANGED <<mainVars, pc, handlerVars, open, shut, registryVars, queue, roomVars,
                   fanVars, ghostVars, presence>>

Init ==
    /\ proc = "up" /\ running = TRUE /\ closed = FALSE /\ mpc = "accept" /\ active = 0
    /\ pc = [c \in Conn |-> "new"]
    /\ fd = [c \in Conn |-> None]
    /\ auth = [c \in Conn |-> FALSE]
    /\ lines = [c \in Conn |-> 0]
    /\ arg = [c \in Conn |-> None]
    /\ lroom = [c \in Conn |-> Lobby]
    /\ tfd = [c \in Conn |-> None]
    /\ open = {} /\ shut = {}
    /\ peer = [c \in Conn |-> "open"]
    /\ online = {}
    /\ uname = [c \in Conn |-> None]
    /\ room = [c \in Conn |-> Lobby]
    /\ queue = <<>>
    /\ rooms = {Lobby}
    /\ history = [r \in Room |-> <<>>]
    /\ payload = [c \in Conn |-> {}]
    /\ bpc = "pop" /\ bmsg = None /\ bcur = None /\ btodo = {}
    /\ seen = [c \in Conn |-> {}] /\ synced = {} /\ lost = {}
    /\ presence = [u \in User |-> None]

Next ==
    \/ \E c \in Conn : Handler(c)
    \/ Main
    \/ Broadcaster
    \/ Signal
    \/ \E c \in Conn : PeerClose(c)

Spec == Init /\ [][Next]_vars

\* Every handler thread that can take a step of its own takes one, and so does
\* the main thread between accept() and the next accept(): the threads are
\* scheduled, and peers that are there keep reading.  Nothing makes a peer send
\* a line, hang up or connect, or a signal arrive.
FairSpec == /\ Spec
            /\ \A c \in Conn : /\ WF_vars(HandlerWorks(c))
                              /\ WF_vars(Start(c) \/ StartFails(c))

-----------------------------------------------------------------------------
(* Correctness.                                                            *)

TypeOK ==
    /\ proc \in {"up", "killed", "exited"}
    /\ running \in BOOLEAN
    /\ closed \in BOOLEAN
    /\ mpc \in {"accept", "start", "stop", "join", "end"}
    /\ active \in Nat
    /\ pc \in [Conn -> PC]
    /\ fd \in [Conn -> Fd \cup {None}]
    /\ auth \in [Conn -> BOOLEAN]
    /\ lines \in [Conn -> Nat]
    /\ arg \in [Conn -> Line \cup {None}]
    /\ lroom \in [Conn -> Room]
    /\ tfd \in [Conn -> Fd \cup {None}]
    /\ open \subseteq Conn
    /\ peer \in [Conn -> {"open", "closed", "reset"}]
    /\ shut \subseteq Conn
    /\ online \subseteq Conn
    /\ uname \in [Conn -> User \cup {None}]
    /\ room \in [Conn -> Room]
    /\ queue \in Seq(Event)
    /\ rooms \subseteq Room
    /\ history \in [Room -> Seq(MsgId)]
    /\ payload \in [Conn -> SUBSET MsgId]
    /\ bpc \in {"pop", "start", "send", "next", "done"}
    /\ bmsg \in Event \cup {None}
    /\ bcur \in Conn \cup {None}
    /\ btodo \subseteq Conn
    /\ seen \in [Conn -> SUBSET MsgId]
    /\ synced \subseteq Conn
    /\ lost \subseteq MsgId
    /\ presence \in [User -> Room \cup {None}]

\* Where a handler is while its session has a node in the registry, and while
\* it holds its descriptor.
Registered(c) ==
    \/ pc[c] \in {"welcome", "undo", "joined", "format", "history", "ok", "announce",
                  "leave", "move", "arrive", "store", "post", "whisper", "notify", "cut",
                  "remove"}
    \/ auth[c] /\ pc[c] \in {"recv", "reply", "disc"}

Live(c) == pc[c] \notin {"new", "gone"}

\* A registered session that looks itself up by descriptor finds its own node
\* and nobody else's, although descriptors are reused: the lookups, the change
\* of room and the removal, all by descriptor, concern the right user, and the
\* "authenticate first" answers of the commands are never given.
LookupFindsOwnNode == \A c \in Conn : Registered(c) => ByFd(fd[c]) = {c}

\* Every node belongs to a session whose handler is still to remove it and
\* whose descriptor is still open: no node outlives its session.
NoOrphanNode == \A c \in online : Registered(c) /\ c \in open

\* No two sessions are online under one name, although the handler tests the
\* name and adds the node in two critical sections.
NamesUnique == \A c, d \in online : uname[c] = uname[d] => c = d

\* active_connections counts the handler threads, so that capacity is neither
\* exceeded nor leaked over any history of connects, failures and disconnects.
CounterExact ==
    /\ active = Cardinality({c \in Conn : Live(c)})
    /\ active <= MaxClients

\* The CHAT_ERR_FULL branch of registry_add() is unreachable: a handler that
\* gets there was counted, and nobody is in the registry without being counted.
RegistryNeverFull == \A c \in Conn : pc[c] = "add" => Cardinality(online) < MaxClients

\* What the queue tells about a user always fits what it told before, across
\* room changes, disconnects and new logins under the same name: JOIN only of
\* a user who is nowhere, CHAT and LEAVE only in the room joined last.  (When
\* memory runs out an announcement may be missing.)
PresenceCoherent ==
    [][(~OutOfMemory /\ Len(queue') > Len(queue)) =>
          LET e == queue'[Len(queue')]
          IN  presence[e.user] = IF e.kind = "JOIN" THEN None ELSE e.room]_vars

\* m is still on its way to session c: the broadcaster is there to pop it.
Pending(m, c) ==
    /\ bpc # "done"
    /\ \/ \E d \in Conn : pc[d] = "post" /\ m = MyMsg(d)
       \/ \E i \in 1..Len(queue) : queue[i].id = m
       \/ /\ bpc \in {"start", "send", "next"}
          /\ bmsg.id = m
          /\ bpc = "start" \/ c \in btodo \/ (bpc = "send" /\ bcur = c)

\* A session that was sent the history of its room misses no message between
\* that history and the broadcasts that follow it: what the room's history
\* holds now, the session has received or will receive, unless the fan-out of
\* that message failed.  Once a signal has told the server to stop, nothing is
\* promised: the broadcaster leaves its loop with messages still queued.
NoGap ==
    running => \A c \in online \cap synced :
                   \A m \in Entries(history[room[c]]) :
                       m \in seen[c] \/ m \in lost \/ Pending(m, c)

\* A kick ends the session it cuts, whatever that session is doing: its thread
\* finishes and the name and the descriptor are free again.
KickEndsSession ==
    \A c, d \in Conn :
        (At(c, "cut") /\ d \in Owner(tfd[c])) ~> (pc[d] = "gone" \/ proc # "up")

\* So does a peer that goes away.
HangupEndsSession ==
    \A c \in Conn : (c \in open /\ peer[c] # "open") ~> (pc[c] = "gone" \/ proc # "up")

-----------------------------------------------------------------------------
(* What the documentation says of the server and the code does not do.     *)

\* registry_foreach() only reads nodes that are in the list.
NoUseAfterFree == (proc = "up" /\ bpc = "next") => bcur \in online

\* Whom the server acts on is whom it means: a private message goes to, and KICK
\* shuts down, the connection of the user the command names, and a message is
\* broadcast to clients in the room it is for.
RightRecipient ==
    /\ \A c \in Conn : At(c, "whisper") \/ At(c, "notify") \/ At(c, "cut") =>
          \A d \in Owner(tfd[c]) : uname[d] = arg[c].who
    /\ (proc = "up" /\ bpc = "send" /\ bmsg.kind = "CHAT") =>
          \A d \in Owner(fd[bcur]) : d \in online /\ room[d] = bmsg.room

\* The loss of one peer is that peer's alone: the server goes on, and a message
\* reaches every client of its room whose own connection is up.
PeerLossContained ==
    /\ proc # "killed"
    /\ \A c \in online \cap synced :
          peer[c] = "open" =>
              \A m \in Entries(history[room[c]]) : m \in seen[c] \/ Pending(m, c)

=============================================================================
