-------------------------- MODULE ServerLifecycle ---------------------------
(***************************************************************************)
(* The life of the server process: main(), server_init() with the clean-up *)
(* of a failed start, server_run() up to and around its accept loop, the   *)
(* signals, server_shutdown() and server_destroy(), against the threads    *)
(* that use what is created and destroyed.                                 *)
(*                                                                         *)
(* The parts of chat_server_t are only ready or not here (the other        *)
(* modules say what they do), a handler thread is the sequence of parts    *)
(* its command uses, and the broadcaster is its loop.                      *)
(***************************************************************************)
EXTENDS UserDb

CONSTANTS
    Conn,        \* the connections peers may open
    Commands,    \* the commands they may send
    MaxSignals,  \* bound: signals that arrive
    Files        \* the contents users.db may have

\* In the order in which server_init() creates them, and server_destroy()
\* destroys them.
InitOrder == <<"conn_lock", "registry", "queue", "rooms", "auth">>
DestroyOrder == <<"queue", "registry", "rooms", "auth", "conn_lock">>
Part == {InitOrder[i] : i \in 1..Len(InitOrder)}

\* The parts a command uses, in order; each is one critical section of it or a
\* run of them on one part.  "END" is what the handler of an authenticated
\* session does last, "EOF" that of another.
Uses(cmd) ==
    CASE cmd = "AUTH"      -> <<"auth", "registry", "auth", "registry", "rooms", "queue">>
      [] cmd = "JOIN_ROOM" -> <<"registry", "queue", "registry", "rooms", "queue">>
      [] cmd = "MSG"       -> <<"registry", "rooms", "queue">>
      [] cmd = "HISTORY"   -> <<"registry", "rooms">>
      [] cmd = "LOOKUP"    -> <<"registry">>      \* PM, LIST and KICK
      [] cmd = "END"       -> <<"registry", "queue", "registry", "conn_lock">>
      [] cmd = "EOF"       -> <<"conn_lock">>

Command == {"AUTH", "JOIN_ROOM", "MSG", "HISTORY", "LOOKUP"}

ASSUME LifecycleAssumption ==
    /\ Commands \subseteq Command
    /\ MaxSignals \in Nat
    /\ Files \subseteq Seq(UserLine \cup {Skipped})

VARIABLES
    proc,        \* "up", "exited" with success, "failed", "killed"
    mpc,         \* where the main thread is; in server_destroy(), the part it is at
    part,        \* each part: "raw", "ready", "destroyed", "leaked", "undefined"
    file,        \* the content of users.db
    line,        \* the lines of it that auth_init() has read
    db,          \* srv->auth.head: the records, from the head of the list
    caught,      \* whether the signal handlers are installed
    signals,     \* the number of signals so far
    running,     \* srv->running
    listening,   \* whether srv->listen_fd >= 0
    tid,         \* srv->broadcaster_tid: 0, "thread" or "undefined"
    bpc,         \* the broadcaster: "none", "test", "pop", "fan", "done"
    queued,      \* whether the queue holds a message
    closed,      \* broadcast_queue.shutdown
    hpc,         \* a handler: "none", "recv", "cmd", "end", "gone"
    todo         \* the parts its command has still to use

dbVars == <<file, line, db>>
runVars == <<caught, signals, running, listening>>
fanVars == <<tid, bpc, queued, closed>>
handlerVars == <<hpc, todo>>
vars == <<proc, mpc, part, dbVars, runVars, fanVars, handlerVars>>

Up(p) == proc = "up" /\ mpc = p
End(how) == proc' = how /\ mpc' = "over"
MainGoes(p) == mpc' = p /\ proc' = proc

-----------------------------------------------------------------------------
(* server_init().  The process has one thread here.                        *)

\* main(): too many arguments, or parse_port() refuses the port.
BadArguments ==
    /\ Up("start")
    /\ End("failed")
    /\ UNCHANGED <<part, dbVars, runVars, fanVars, handlerVars>>

InitStarts ==
    /\ Up("start")
    /\ MainGoes("init")
    /\ UNCHANGED <<part, dbVars, runVars, fanVars, handlerVars>>

\* The part server_init() is at: the first that is not there yet.
At(p) ==
    /\ Up("init")
    /\ \E i \in 1..Len(InitOrder) :
           /\ InitOrder[i] = p
           /\ part[p] = "raw"
           /\ \A j \in 1..(i - 1) : part[InitOrder[j]] # "raw"

InitPart ==
    /\ \E p \in Part \ {"auth"} : At(p) /\ part' = [part EXCEPT ![p] = "ready"]
    /\ MainGoes("init")
    /\ UNCHANGED <<dbVars, runVars, fanVars, handlerVars>>

\* A turn of the loop of auth_init().
InitReads ==
    /\ At("auth")
    /\ line < Len(file)
    /\ line' = line + 1
    /\ db' = Read(db, file[line'])
    /\ MainGoes("init")
    /\ UNCHANGED <<part, file, runVars, fanVars, handlerVars>>

\* The end of the file, after at least one user.
InitAuth ==
    /\ At("auth")
    /\ line = Len(file)
    /\ db # <<>>
    /\ part' = [part EXCEPT !["auth"] = "ready"]
    /\ MainGoes("install")
    /\ UNCHANGED <<dbVars, runVars, fanVars, handlerVars>>

\* The states a failing initialisation of p leaves p in.  A part whose lock
\* cannot be created stays raw, and mq_init() takes its mutex back.
\* room_manager_init() without memory for the lobby and auth_init() without a
\* users.db leave a mutex behind; auth_init() destroys what it has when there is
\* no memory for the record of a line or no user on any line.
Left(p) ==
    CASE p = "rooms" -> {"raw", "leaked"}
      [] p = "auth"  -> {x \in {"raw", "leaked"} : line = 0}
                        \cup {x \in {"destroyed"} :
                                  \/ line < Len(file) /\ file[line + 1] # Skipped
                                  \/ line = Len(file) /\ db = <<>>}
      [] OTHER       -> {"raw"}

\* A part is destroyed.  Locking and destroying a mutex that was never created
\* or is gone already is undefined.
Destroyed(x) == IF x \in {"ready", "leaked"} THEN "destroyed" ELSE "undefined"

\* Mutant: the branch of the queue destroys the queue too.
Undone_Itself(p) ==
    CASE p = "conn_lock" -> {}
      [] p = "registry"  -> {"conn_lock"}
      [] p = "queue"     -> {"queue", "registry", "conn_lock"}
      [] p = "rooms"     -> {"queue", "registry", "conn_lock"}
      [] p = "auth"      -> {"rooms", "queue", "registry", "conn_lock"}

\* Mutant: the branch of the rooms forgets the queue.
Undone_Forgets(p) ==
    CASE p = "conn_lock" -> {}
      [] p = "registry"  -> {"conn_lock"}
      [] p = "queue"     -> {"registry", "conn_lock"}
      [] p = "rooms"     -> {"registry", "conn_lock"}
      [] p = "auth"      -> {"rooms", "queue", "registry", "conn_lock"}

\* The parts server_init() destroys in the branch in which p fails.
Undone(p) ==
    CASE p = "conn_lock" -> {}
      [] p = "registry"  -> {"conn_lock"}
      [] p = "queue"     -> {"registry", "conn_lock"}
      [] p = "rooms"     -> {"queue", "registry", "conn_lock"}
      [] p = "auth"      -> {"rooms", "queue", "registry", "conn_lock"}

\* A part fails, and with it the start.  main() returns without server_destroy().
InitFails ==
    /\ \E p \in Part :
           /\ At(p)
           /\ \E left \in Left(p) :
                  part' = [q \in Part |-> IF q \in Undone(p) THEN Destroyed(part[q])
                                         ELSE IF q = p THEN left ELSE part[q]]
    /\ db' = <<>>
    /\ End("failed")
    /\ UNCHANGED <<file, line, runVars, fanVars, handlerVars>>

-----------------------------------------------------------------------------
(* server_install_signal_handlers(), server_run().                         *)

InstallHandlers ==
    /\ Up("install")
    /\ caught' = TRUE
    /\ MainGoes("socket")
    /\ UNCHANGED <<part, dbVars, signals, running, listening, fanVars, handlerVars>>

RunSocket ==
    /\ Up("socket")
    /\ \/ listening' = TRUE /\ MainGoes("bind")
       \/ listening' = FALSE /\ MainGoes("shutdown")
    /\ UNCHANGED <<part, dbVars, caught, signals, running, fanVars, handlerVars>>

\* setsockopt(), bind() and listen(): after a failure the socket is closed.
RunBind ==
    /\ Up("bind")
    /\ \/ listening' = TRUE /\ MainGoes("create")
       \/ listening' = FALSE /\ MainGoes("shutdown")
    /\ UNCHANGED <<part, dbVars, caught, signals, running, fanVars, handlerVars>>

\* pthread_create() of the broadcaster.  When it fails, what it leaves in
\* broadcaster_tid is undefined.
RunCreate ==
    /\ Up("create")
    /\ \/ tid' = "thread" /\ bpc' = "test" /\ listening' = TRUE /\ MainGoes("test")
       \/ tid' \in {"0", "undefined"} /\ bpc' = bpc /\ listening' = FALSE
          /\ MainGoes("shutdown")
    /\ UNCHANGED <<part, dbVars, caught, signals, running, queued, closed, handlerVars>>

\* `while (srv->running)`, and a little later accept() blocks.
AcceptTest ==
    /\ Up("test")
    /\ MainGoes(IF running THEN "enter" ELSE "shutdown")
    /\ UNCHANGED <<part, dbVars, runVars, fanVars, handlerVars>>

AcceptBlocks ==
    /\ Up("enter")
    /\ MainGoes("accept")
    /\ UNCHANGED <<part, dbVars, runVars, fanVars, handlerVars>>

\* accept() fails, with ECONNABORTED or for want of descriptors: the loop goes on.
AcceptFails ==
    /\ Up("accept")
    /\ MainGoes("test")
    /\ UNCHANGED <<part, dbVars, runVars, fanVars, handlerVars>>

\* A connection is accepted, and gets a handler thread or is closed again.
Accept(c) ==
    /\ Up("accept")
    /\ hpc[c] = "none"
    /\ \/ hpc' = [hpc EXCEPT ![c] = IF running THEN "recv" ELSE "end"]
          /\ todo' = [todo EXCEPT ![c] = IF running THEN <<>> ELSE Uses("EOF")]
       \/ hpc' = [hpc EXCEPT ![c] = "gone"] /\ todo' = todo
    /\ MainGoes("test")
    /\ UNCHANGED <<part, dbVars, runVars, fanVars>>

\* SIGINT or SIGTERM.  Linux hands it to the main thread, which blocks neither.
\* Before the handlers are installed it ends the process; afterwards it clears
\* running, and a blocked accept() returns EINTR.
Signal ==
    /\ proc = "up"
    /\ signals < MaxSignals
    /\ signals' = signals + 1
    /\ IF caught
       THEN running' = FALSE /\ MainGoes(IF mpc = "accept" THEN "test" ELSE mpc)
       ELSE running' = running /\ End("killed")
    /\ UNCHANGED <<part, dbVars, caught, listening, fanVars, handlerVars>>

-----------------------------------------------------------------------------
(* server_shutdown(), server_destroy() and the return from main().         *)

\* Mutant: the queue is not shut down.
ServerShutdown_NoWake ==
    /\ Up("shutdown")
    /\ running' = FALSE
    /\ listening' = FALSE
    /\ MainGoes("join")
    /\ UNCHANGED <<part, dbVars, caught, signals, fanVars, handlerVars>>

\* The listening socket is closed, the queue shut down; its push of the
\* MQ_SHUTDOWN message is refused.
ServerShutdown ==
    /\ Up("shutdown")
    /\ running' = FALSE
    /\ listening' = FALSE
    /\ closed' = TRUE
    /\ MainGoes("join")
    /\ UNCHANGED <<part, dbVars, caught, signals, tid, bpc, queued, handlerVars>>

\* Mutant: the broadcaster is not waited for.
Joined_NoWait == TRUE

\* `if (broadcaster_tid) pthread_join()`: of an undefined thread it fails.
Joined == tid = "thread" => bpc = "done"

ServerJoin ==
    /\ Up("join")
    /\ Joined
    /\ MainGoes(DestroyOrder[1])
    /\ UNCHANGED <<part, dbVars, runVars, fanVars, handlerVars>>

\* ... or takes the process down.
ServerJoinKilled ==
    /\ Up("join")
    /\ tid = "undefined"
    /\ End("killed")
    /\ UNCHANGED <<part, dbVars, runVars, fanVars, handlerVars>>

\* server_destroy() takes its parts one after the other and asks of none
\* whether it is there.
DestroyPart ==
    /\ \E i \in 1..Len(DestroyOrder) :
           /\ Up(DestroyOrder[i])
           /\ part' = [part EXCEPT ![DestroyOrder[i]] = Destroyed(@)]
           /\ db' = IF DestroyOrder[i] = "auth" THEN <<>> ELSE db
           /\ MainGoes(IF i < Len(DestroyOrder) THEN DestroyOrder[i + 1] ELSE "return")
    /\ UNCHANGED <<file, line, runVars, fanVars, handlerVars>>

\* server_destroy() closes the listening socket if it is still open, and main()
\* returns, which ends every thread.
MainReturns ==
    /\ Up("return")
    /\ listening' = FALSE
    /\ End(IF tid = "thread" THEN "exited" ELSE "failed")
    /\ UNCHANGED <<part, dbVars, caught, signals, running, fanVars, handlerVars>>

\* The main thread's own steps.
Main ==
    \/ BadArguments \/ InitStarts \/ InitPart \/ InitReads \/ InitAuth \/ InitFails
    \/ InstallHandlers \/ RunSocket \/ RunBind \/ RunCreate
    \/ AcceptTest \/ AcceptBlocks
    \/ ServerShutdown \/ ServerJoin \/ ServerJoinKilled \/ DestroyPart \/ MainReturns

-----------------------------------------------------------------------------
(* broadcaster_thread(): it waits in mq_pop() for a message or the         *)
(* shutdown, and walks the registry for each message.                      *)

FanStep ==
    /\ proc = "up"
    /\ \/ bpc = "test" /\ bpc' = (IF running THEN "pop" ELSE "done") /\ queued' = queued
       \/ bpc = "pop" /\ queued /\ bpc' = "fan" /\ queued' \in BOOLEAN
       \/ bpc = "pop" /\ ~queued /\ closed /\ bpc' = "done" /\ queued' = queued
       \/ bpc = "fan" /\ bpc' = "test" /\ queued' = queued
    /\ UNCHANGED <<proc, mpc, part, dbVars, runVars, tid, closed, handlerVars>>

-----------------------------------------------------------------------------
(* The handler thread of connection c.                                     *)

HandlerReads(c) ==
    /\ proc = "up"
    /\ hpc[c] = "recv"
    /\ \E cmd \in Commands :
           /\ todo' = [todo EXCEPT ![c] = Uses(cmd)]
           /\ hpc' = [hpc EXCEPT ![c] = "cmd"]
    /\ UNCHANGED <<proc, mpc, part, dbVars, runVars, fanVars>>

\* disconnect_client(), of an authenticated session or of another.
Disconnect(c) ==
    /\ hpc' = [hpc EXCEPT ![c] = "end"]
    /\ \E last \in {"END", "EOF"} : todo' = [todo EXCEPT ![c] = Uses(last)]

\* QUIT, or the peer is gone.
HandlerLeaves(c) ==
    /\ proc = "up"
    /\ hpc[c] = "recv"
    /\ Disconnect(c)
    /\ UNCHANGED <<proc, mpc, part, dbVars, runVars, fanVars>>

\* A command uses its next part.  After a refused login or lookup it returns
\* early; a push only queues something while the queue is open.
HandlerUses(c) ==
    /\ proc = "up"
    /\ todo[c] # <<>>
    /\ LET p == Head(todo[c])
       IN  /\ \/ todo' = [todo EXCEPT ![c] = Tail(@)]
              \/ /\ hpc[c] = "cmd"
                 /\ p \in {"auth", "registry"}
                 /\ todo' = [todo EXCEPT ![c] = <<>>]
           /\ queued' = (queued \/ (p = "queue" /\ ~closed))
    /\ UNCHANGED <<proc, mpc, part, dbVars, runVars, tid, bpc, closed, hpc>>

\* The lock or the list it needs was destroyed: undefined.  It goes on as if
\* nothing were wrong (the step above), or the process is killed.
HandlerKilled(c) ==
    /\ proc = "up"
    /\ todo[c] # <<>>
    /\ part[Head(todo[c])] = "destroyed"
    /\ End("killed")
    /\ UNCHANGED <<part, dbVars, runVars, fanVars, handlerVars>>

\* The command is over: the handler tests running, or it disconnects because
\* the login was refused or the reply failed.  After that the thread ends.
HandlerReturns(c) ==
    /\ proc = "up"
    /\ todo[c] = <<>>
    /\ \/ hpc[c] = "cmd" /\ Disconnect(c)
       \/ hpc[c] = "cmd" /\ running /\ hpc' = [hpc EXCEPT ![c] = "recv"] /\ todo' = todo
       \/ /\ hpc[c] = "end"
          /\ hpc' = [hpc EXCEPT ![c] = "gone"]
          /\ todo' = todo
    /\ UNCHANGED <<proc, mpc, part, dbVars, runVars, fanVars>>

Handler(c) == \/ HandlerReads(c) \/ HandlerLeaves(c) \/ HandlerUses(c)
              \/ HandlerKilled(c) \/ HandlerReturns(c)

-----------------------------------------------------------------------------
Init ==
    /\ proc = "up" /\ mpc = "start"
    /\ part = [p \in Part |-> "raw"]
    /\ file \in Files /\ line = 0 /\ db = <<>>
    /\ caught = FALSE /\ signals = 0 /\ running = TRUE /\ listening = FALSE
    /\ tid = "0" /\ bpc = "none" /\ queued = FALSE /\ closed = FALSE
    /\ hpc = [c \in Conn |-> "none"]
    /\ todo = [c \in Conn |-> <<>>]

Next ==
    \/ Main
    \/ Signal
    \/ FanStep
    \/ AcceptFails
    \/ \E c \in Conn : Accept(c) \/ Handler(c)

Spec == Init /\ [][Next]_vars

\* The main thread and the broadcaster are scheduled, and the peers the
\* broadcaster writes to keep reading.  Nothing makes a peer connect or send,
\* or a signal arrive.
FairSpec == Spec /\ WF_vars(Main) /\ WF_vars(FanStep)

-----------------------------------------------------------------------------
(* Correctness.                                                            *)

TypeOK ==
    /\ proc \in {"up", "exited", "failed", "killed"}
    /\ mpc \in {"start", "init", "install", "socket", "bind", "create", "test", "enter",
                "accept", "shutdown", "join", "return", "over"} \cup Part
    /\ part \in [Part -> {"raw", "ready", "destroyed", "leaked", "undefined"}]
    /\ file \in Files
    /\ line \in 0..Len(file)
    /\ db \in Seq(UserRecord)
    /\ caught \in BOOLEAN
    /\ signals \in 0..MaxSignals
    /\ running \in BOOLEAN
    /\ listening \in BOOLEAN
    /\ tid \in {"0", "thread", "undefined"}
    /\ bpc \in {"none", "test", "pop", "fan", "done"}
    /\ queued \in BOOLEAN
    /\ closed \in BOOLEAN
    /\ hpc \in [Conn -> {"none", "recv", "cmd", "end", "gone"}]
    /\ todo \in [Conn -> Seq(Part)]

\* The broadcaster finds the queue and the registry ready whenever it may use
\* them: server_shutdown() has joined it before anything is destroyed, however
\* the start failed and whenever the signal came.
BroadcasterSafe ==
    (proc = "up" /\ bpc \in {"test", "pop", "fan"}) =>
        part["queue"] = "ready" /\ part["registry"] = "ready"

\* Every destruction finds its part there: the list of no branch of
\* server_init() names a part that was not created before it or that has cleaned
\* up after itself, and main() calls server_destroy(), which asks nothing, only
\* when all of them are there, once.
DestroyedOnce == \A p \in Part : part[p] # "undefined"

\* A process that ends by itself leaves nothing behind but, after a failed
\* start, the mutex of the part that failed, and only of the rooms or the user
\* database: no part is ready, the port is free and the broadcaster is over.
EndsClean ==
    proc \in {"exited", "failed"} =>
        /\ \A p \in Part : part[p] # "ready"
        /\ \A p \in Part : part[p] = "leaked" => p \in {"rooms", "auth"} /\ ~caught
        /\ ~listening
        /\ bpc \in {"none", "done"}

\* When users.db names a user on several lines, the last one alone counts, for
\* the password and for the administrator flag alike.
LastLineCounts ==
    part["auth"] = "ready" =>
        \A u \in Account :
            /\ \A p \in Password :
                   auth_verify(db, u, p) <=>
                       \E i \in LastLine(file, u) : file[i].hash = Hash(p)
            /\ auth_is_admin(db, u) <=>
                   \E i \in LastLine(file, u) : file[i].flag \in AdminFlag

\* Once the accept loop is left, or could not be entered, the process ends.
ShutdownEnds == (mpc = "shutdown") ~> (proc # "up")

-----------------------------------------------------------------------------
(* What the documentation says of the shutdown and the code does not do.   *)

\* A signal that finds the server in its accept loop ends the loop, and then
\* the process.
GracefulShutdown ==
    (proc = "up" /\ ~running /\ mpc \in {"test", "enter", "accept"}) ~> (proc # "up")
=============================================================================
