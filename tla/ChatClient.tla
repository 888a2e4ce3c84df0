----------------------------- MODULE ChatClient -----------------------------
(***************************************************************************)
(* The chat client (client.c and its main.c): the main thread that reads   *)
(* the terminal and sends lines, the receiver thread that shows what the   *)
(* server sends, the lock they share, and the socket between them and the  *)
(* handler thread of the server, whose server_recv_line() cuts the byte    *)
(* stream into lines again.                                                *)
(*                                                                         *)
(* The way up is a stream of units (runs of bytes); a line is as many      *)
(* units as its size, the last one its newline.  The way down is a         *)
(* sequence of lines.  Both socket buffers are bounded.                    *)
(***************************************************************************)
EXTENDS Integers, Sequences, SequencesExt

CONSTANTS
    LineCap,    \* MAX_LINE_LEN - 1, in units
    UpCap,      \* units the socket holds on the way to the server
    DownCap,    \* lines it holds on the way to the client
    Typed,      \* the lines the user may type: [cmd, size]
    MaxTyped,   \* bound: lines the user types
    MaxPushed   \* bound: lines other threads of the server send to this client

\* What becomes of a typed line: QUIT is /quit or /exit; ASK is /users,
\* /history, /kick or a private message (always short enough, and the result of
\* sending is ignored); JOIN_ROOM may be too long for its buffer; MSG is any
\* other text; SKIP is an empty line or an @ line that parse_at_pm() refuses.
Command == {"QUIT", "ASK", "JOIN_ROOM", "MSG", "SKIP"}
Login == [cmd |-> "AUTH", size |-> 2]
ClientLine == [cmd : Command \cup {"AUTH"}, size : 1..(LineCap + 1)]

Response == {"WELCOME", "ROOM_JOINED", "KICKED", "OTHER"}

ASSUME ClientAssumption ==
    /\ LineCap \in Nat \ {0, 1} /\ UpCap \in Nat \ {0} /\ DownCap \in Nat \ {0}
    /\ MaxTyped \in Nat /\ MaxPushed \in Nat
    /\ Typed \subseteq {l \in ClientLine : l.cmd # "AUTH"}

VARIABLES
    status,     \* the process: "up", "ok" or "failed" at exit, "sigpipe", "killed"
    mpc,        \* where the main thread is
    result,     \* what client_run() and client_connect() returned to main()
    cur,        \* the line in out[]
    typed,      \* how many lines the user has typed
    out,        \* the units client_send_all() has still to send
    lock,       \* cli->lock across client_send_all(): "free" or "main"
    sockfd,     \* whether cli->sockfd >= 0
    running,    \* cli->running
    started,    \* cli->receiver_started
    authenticated, joined,  \* cli->authenticated, cli->joined
    rpc,        \* where the receiver thread is
    resp,       \* the line it has received and not yet shown ("OTHER" at rest)
    shut,       \* whether the client has shut its socket down
    reset,      \* whether the server's end has answered, or will, with a reset
    up, down,   \* the two directions of the connection
    hpc,        \* the server's handler: "recv", "reply", "done"
    buf, pos,   \* its line[] buffer and server_recv_line()'s position in it
    todo,       \* the responses it has still to send
    ends,       \* whether it ends the session after them
    member,     \* whether the session is in the server's registry
    pushed,     \* how many lines other threads have sent, KICKED included
    kick,       \* an administrator's KICK: "no", "told", "cut"
    sent,       \* ghost: the lines handed to client_send_all()
    heard       \* ghost: the texts that server_recv_line() returned

mainVars == <<status, mpc, result, cur, typed, out>>
cliVars == <<lock, sockfd, running, started>>
recvVars == <<authenticated, joined, rpc, resp>>
handlerVars == <<hpc, buf, pos, todo, ends, member>>
adminVars == <<pushed, kick>>
vars == <<mainVars, cliVars, recvVars, shut, reset, up, down, handlerVars, adminVars, sent, heard>>

ServerSide == <<handlerVars, adminVars, heard>>
MainKeeps == UNCHANGED <<recvVars, ServerSide>>

-----------------------------------------------------------------------------
(* The text of a line.                                                     *)

Newline(u) == u[1] > 0 /\ u[2] = 0
Nul == <<0, 0>>
Junk == <<0, 1>>     \* what line[] holds before anything was written there
Blank == [i \in 1..(LineCap + 1) |-> Junk]

\* The n-th line sent: protocol_build_client_*() cuts a line that does not fit
\* and thereby loses its newline.
Text(n, l) == [k \in 1..(IF l.size > LineCap THEN LineCap ELSE l.size) |->
                  <<n, IF k = l.size THEN 0 ELSE k>>]

\* The line as trim_newline() leaves it; only its last unit can be a newline.
Trimmed(s) == IF s # <<>> /\ Newline(s[Len(s)]) THEN SubSeq(s, 1, Len(s) - 1) ELSE s

\* The C string in a buffer.
CString(b) ==
    LET ends0 == {i \in 1..Len(b) : b[i] = Nul}
    IN  IF ends0 = {} THEN b
        ELSE SubSeq(b, 1, (CHOOSE i \in ends0 : \A j \in ends0 : i <= j) - 1)

-----------------------------------------------------------------------------
(* main() and client_run() up to the loop.  The process has one thread.    *)

Up(p) == status = "up" /\ mpc = p
Go(p) == mpc' = p /\ UNCHANGED <<status, result>>
Fail == mpc' = "disc" /\ result' = "failed" /\ status' = status

\* Bad arguments, or client_init() cannot create a mutex.
client_init_fails ==
    /\ Up("start")
    /\ status' = "failed" /\ mpc' = "over"
    /\ UNCHANGED <<result, cur, typed, out, cliVars, shut, reset, up, down, sent>>
    /\ MainKeeps

client_init ==
    /\ Up("start")
    /\ running' = TRUE
    /\ Go("connect")
    /\ UNCHANGED <<cur, typed, out, lock, sockfd, started, shut, reset, up, down, sent>>
    /\ MainKeeps

client_connect ==
    /\ Up("connect")
    /\ \/ sockfd' = TRUE /\ Go("creds")
       \/ sockfd' = FALSE /\ Fail
    /\ UNCHANGED <<cur, typed, out, lock, running, started, shut, reset, up, down, sent>>
    /\ MainKeeps

\* End of file or an empty name or password: client_run() returns.
resolve_credentials ==
    /\ Up("creds")
    /\ \/ cur' = Login /\ Go("line")
       \/ cur' = cur /\ Fail
    /\ UNCHANGED <<typed, out, cliVars, shut, reset, up, down, sent>>
    /\ MainKeeps

\* When it fails nobody has shut the socket down, and there is no thread to join.
StartReceiver ==
    /\ Up("create")
    /\ \/ rpc' = "test" /\ started' = TRUE /\ Go("test")
       \/ UNCHANGED <<rpc, started>> /\ Fail
    /\ UNCHANGED <<cur, typed, out, lock, sockfd, running, authenticated, joined, resp,
                   shut, reset, up, down, sent, ServerSide>>

-----------------------------------------------------------------------------
(* Sending.                                                                *)

\* What the caller of client_send_line() does with its result: only AUTH and
\* MSG look at it.
AfterSend(ok) ==
    CASE cur.cmd = "AUTH" -> IF ok THEN Go("create") ELSE Fail
      [] cur.cmd = "QUIT" -> Go("stop")
      [] cur.cmd = "MSG" -> Go(IF ok THEN "test" ELSE "stop")
      [] OTHER -> Go("test")

\* Mutant: the lock is released after the flags are tested.
SendStarts_Unlocked ==
    /\ Up("line") /\ lock = "free"
    /\ sockfd /\ running
    /\ sent' = Append(sent, cur)
    /\ out' = Text(Len(sent) + 1, cur)
    /\ Go("send")
    /\ UNCHANGED <<cur, typed, cliVars, shut, reset, up, down>>
    /\ MainKeeps

\* The lock is taken, the flags are tested, and the lock is kept to send.
SendStarts ==
    /\ Up("line") /\ lock = "free"
    /\ sockfd /\ running
    /\ lock' = "main"
    /\ sent' = Append(sent, cur)
    /\ out' = Text(Len(sent) + 1, cur)
    /\ Go("send")
    /\ UNCHANGED <<cur, typed, sockfd, running, started, shut, reset, up, down>>
    /\ MainKeeps

SendRefused ==
    /\ Up("line") /\ lock = "free"
    /\ ~(sockfd /\ running)
    /\ AfterSend(FALSE)
    /\ UNCHANGED <<cur, typed, out, cliVars, shut, reset, up, down, sent>>
    /\ MainKeeps

\* The server has closed the connection, or cut it.
Gone == hpc = "done" \/ kick = "cut"

\* send() takes one more unit: client_send_all() returns after the last.
\* What is sent to a server that is gone is received by nobody and answered by a
\* reset; until that arrives send() goes on taking it.
Takes ==
    /\ out' = Tail(out)
    /\ \/ Len(out) > 1 /\ lock' = lock /\ Go("send")
       \/ Len(out) = 1 /\ lock' = "free" /\ AfterSend(TRUE)

client_send_all ==
    /\ Up("send")
    /\ \/ ~Gone /\ Len(up) < UpCap /\ up' = Append(up, Head(out)) /\ reset' = reset
       \/ Gone /\ up' = up /\ reset' = TRUE
    /\ Takes
    /\ UNCHANGED <<cur, typed, sockfd, running, started, shut, down, sent>>
    /\ MainKeeps

SendFails ==
    /\ Up("send") /\ reset
    /\ out' = <<>> /\ lock' = "free" /\ AfterSend(FALSE)
    /\ UNCHANGED <<cur, typed, sockfd, running, started, shut, reset, up, down, sent>>
    /\ MainKeeps

\* The process ends without a word: SIGPIPE, whose default action nobody has
\* changed, or a signal from outside at any moment.
Die(how) ==
    /\ status' = how /\ mpc' = "over" /\ rpc' = "done" /\ shut' = TRUE
    /\ out' = <<>> /\ lock' = "free" /\ down' = <<>> /\ resp' = "OTHER"
    /\ UNCHANGED <<result, cur, typed, sockfd, running, started, authenticated, joined,
                   reset, up, sent, ServerSide>>

SendKilled == Up("send") /\ reset /\ Die("sigpipe")
ClientKilled == status = "up" /\ mpc # "start" /\ Die("killed")

-----------------------------------------------------------------------------
(* The loop of client_run() and the end.                                   *)

LoopTest ==
    /\ Up("test")
    /\ Go(IF running THEN "fgets" ELSE "shut")
    /\ UNCHANGED <<cur, typed, out, cliVars, shut, reset, up, down, sent>>
    /\ MainKeeps

\* Nothing is sent for a SKIP line and for a message that does not fit.
UserTypes(l) ==
    /\ Up("fgets")
    /\ typed < MaxTyped /\ typed' = typed + 1
    /\ IF l.cmd = "SKIP" \/ (l.cmd = "MSG" /\ l.size > LineCap)
       THEN cur' = cur /\ Go("test")
       ELSE cur' = l /\ Go("line")
    /\ UNCHANGED <<out, cliVars, shut, reset, up, down, sent>>
    /\ MainKeeps

\* fgets() returns NULL; running stays set.
UserEof ==
    /\ Up("fgets")
    /\ Go("shut")
    /\ UNCHANGED <<cur, typed, out, cliVars, shut, reset, up, down, sent>>
    /\ MainKeeps

\* client_set_running(cli, 0) after /quit or a message that could not be sent.
StopRunning ==
    /\ Up("stop") /\ lock = "free"
    /\ running' = FALSE
    /\ Go("shut")
    /\ UNCHANGED <<cur, typed, out, lock, sockfd, started, shut, reset, up, down, sent>>
    /\ MainKeeps

\* Mutant: the socket is left as it is.
ShutSocket_Forgets ==
    /\ Up("shut") /\ lock = "free"
    /\ Go("join")
    /\ UNCHANGED <<cur, typed, out, cliVars, shut, reset, up, down, sent>>
    /\ MainKeeps

ShutSocket ==
    /\ Up("shut") /\ lock = "free"
    /\ shut' = (shut \/ sockfd)
    /\ Go("join")
    /\ UNCHANGED <<cur, typed, out, cliVars, reset, up, down, sent>>
    /\ MainKeeps

\* Mutant: the thread is not waited for.
Joined_NoWait == TRUE

Joined == ~started \/ rpc = "done"

JoinReceiver ==
    /\ Up("join") /\ Joined
    /\ started' = FALSE
    /\ Go("disc")
    /\ UNCHANGED <<cur, typed, out, lock, sockfd, running, shut, reset, up, down, sent>>
    /\ MainKeeps

\* client_destroy() from main(): the socket is closed, then the mutexes go.
client_disconnect ==
    /\ Up("disc") /\ lock = "free"
    /\ running' = FALSE /\ sockfd' = FALSE /\ shut' = (shut \/ sockfd)
    /\ Go("destroy")
    /\ UNCHANGED <<cur, typed, out, lock, started, reset, up, down, sent>>
    /\ MainKeeps

client_destroy ==
    /\ Up("destroy")
    /\ status' = result /\ mpc' = "over" /\ result' = result
    /\ UNCHANGED <<cur, typed, out, cliVars, shut, reset, up, down, sent>>
    /\ MainKeeps

Main == \/ client_init_fails \/ client_init \/ client_connect \/ resolve_credentials
        \/ StartReceiver \/ SendStarts \/ SendRefused \/ client_send_all \/ SendFails
        \/ SendKilled \/ LoopTest \/ StopRunning \/ ShutSocket \/ JoinReceiver
        \/ client_disconnect \/ client_destroy

-----------------------------------------------------------------------------
(* receiver_thread().                                                      *)

At(p) == status = "up" /\ rpc = p
ReceiverKeeps ==
    UNCHANGED <<mainVars, lock, sockfd, started, shut, reset, up, ServerSide, sent>>

\* client_is_running(), then client_get_sockfd(): each waits for the lock.
ReceiverTest ==
    /\ At("test") /\ lock = "free"
    /\ rpc' = IF running THEN "fd" ELSE "done"
    /\ ReceiverKeeps /\ UNCHANGED <<running, authenticated, joined, resp, down>>

ReceiverFd ==
    /\ At("fd") /\ lock = "free"
    /\ rpc' = IF sockfd THEN "recv" ELSE "lost"
    /\ ReceiverKeeps /\ UNCHANGED <<running, authenticated, joined, resp, down>>

client_recv_line ==
    /\ At("recv") /\ down # <<>>
    /\ resp' = Head(down) /\ down' = Tail(down)
    /\ rpc' = "show"
    /\ ReceiverKeeps /\ UNCHANGED <<running, authenticated, joined>>

\* End of file or an error: after a reset, what is still unread may be lost.
RecvFails ==
    /\ At("recv")
    /\ reset \/ (down = <<>> /\ (shut \/ Gone))
    /\ rpc' = "lost"
    /\ ReceiverKeeps /\ UNCHANGED <<running, authenticated, joined, resp, down>>

\* "Server disconnected": client_set_running(cli, 0), and the thread ends.
ReceiverStops ==
    /\ At("lost") /\ lock = "free"
    /\ running' = FALSE /\ rpc' = "done"
    /\ ReceiverKeeps /\ UNCHANGED <<authenticated, joined, resp, down>>

\* Only these three responses change the client and need the lock.
display_server_message ==
    /\ At("show")
    /\ resp # "OTHER" => lock = "free"
    /\ running' = (running /\ resp # "KICKED")
    /\ authenticated' = (authenticated \/ resp = "WELCOME")
    /\ joined' = (joined \/ resp = "ROOM_JOINED")
    /\ rpc' = "test" /\ resp' = "OTHER"
    /\ ReceiverKeeps /\ UNCHANGED down

Receiver == \/ ReceiverTest \/ ReceiverFd \/ client_recv_line \/ RecvFails
            \/ ReceiverStops \/ display_server_message

-----------------------------------------------------------------------------
(* The handler thread at the other end, and the rest of the server.  What  *)
(* is sent to a process that has ended is received by nobody.              *)

ServerKeeps == UNCHANGED <<mainVars, cliVars, recvVars, shut, sent>>

\* What a text that the handler executes may be taken for: the command of its
\* line, and anything when it is not whole.
Whole(s) == s # <<>> /\ s[1][1] \in 1..Len(sent) /\ s = Trimmed(Text(s[1][1], sent[s[1][1]]))
TakenFor(s) == IF Whole(s) THEN {sent[s[1][1]].cmd} ELSE {"AUTH", "QUIT", "JOIN_ROOM", "ASK"}

\* What the handler answers and whether it then ends the session; an answer, OK
\* or an error, is an OTHER line, and so is a run of lines that change nothing in
\* the client.  A first line that is not a login is refused, and a failed login
\* ends the session.
Answers(cmd) ==
    CASE ~member -> {<<<<"OTHER">>, cmd = "AUTH">>}
                       \cup (IF cmd = "AUTH" THEN {<<<<"WELCOME", "ROOM_JOINED", "OTHER">>, FALSE>>}
                             ELSE {})
      [] cmd = "QUIT" -> {<<<<>>, TRUE>>}
      [] cmd = "JOIN_ROOM" -> {<<<<"ROOM_JOINED", "OTHER">>, FALSE>>, <<<<"OTHER">>, FALSE>>}
      [] OTHER -> {<<<<"OTHER">>, FALSE>>}

\* server_recv_line() has returned the string in b.
Execute(b) ==
    /\ buf' = b /\ pos' = 0
    /\ heard' = Append(heard, CString(b))
    /\ \E cmd \in TakenFor(CString(b)) : \E a \in Answers(cmd) :
          /\ todo' = a[1] /\ ends' = a[2]
          /\ member' = (member \/ "WELCOME" \in Range(a[1]))
    /\ hpc' = "reply"

\* The handler leaves its loop: disconnect_client(), and its stack is gone.
\* close() with bytes unread resets the connection.
HandlerCloses ==
    /\ hpc' = "done" /\ member' = FALSE
    /\ reset' = (reset \/ up # <<>>)
    /\ up' = <<>> /\ buf' = Blank /\ pos' = 0 /\ todo' = <<>> /\ ends' = FALSE
    /\ ServerKeeps /\ UNCHANGED <<down, adminVars, heard>>

\* When the line is complete, or the buffer is full, a NUL is written after it
\* and trim_newline() writes one over the newline.
\* Mutants: the limit of the loop is one more, or one less.
LineDone_Late(p, u) == Newline(u) \/ p > LineCap
LineDone_Early(p, u) == Newline(u) \/ p >= LineCap - 1

LineDone(p, u) == Newline(u) \/ p = LineCap
Terminated(b, p, u) == [b EXCEPT ![p] = IF Newline(u) THEN Nul ELSE u, ![p + 1] = Nul]

server_recv_line ==
    /\ hpc = "recv" /\ up # <<>>
    /\ up' = Tail(up)
    /\ LET p == pos + 1
           u == Head(up)
       IN  IF LineDone(p, u)
           THEN Execute(Terminated(buf, p, u))
           ELSE /\ buf' = [buf EXCEPT ![p] = u]
                /\ pos' = p
                /\ UNCHANGED <<hpc, todo, ends, member, heard>>
    /\ ServerKeeps /\ UNCHANGED <<reset, down, adminVars>>

\* recv() returns 0: with part of a line read, that is returned as a line, and
\* nothing is written after it.
RecvEof ==
    /\ hpc = "recv" /\ up = <<>>
    /\ shut \/ kick = "cut"
    /\ \/ pos = 0 /\ HandlerCloses
       \/ /\ pos > 0 /\ Execute(buf)
          /\ ServerKeeps /\ UNCHANGED <<reset, up, down, adminVars>>

\* recv() fails: the client's end was closed, or its process died, with lines
\* unread, and a reset came.  What was read of a line is dropped.
RecvError ==
    /\ hpc = "recv" /\ shut
    /\ ~sockfd \/ status # "up"
    /\ HandlerCloses

\* One response after the other; send() waits while the client does not read.
Reply ==
    /\ hpc = "reply" /\ todo # <<>>
    /\ status = "up" /\ Len(down) < DownCap
    /\ down' = Append(down, Head(todo)) /\ todo' = Tail(todo)
    /\ ServerKeeps /\ UNCHANGED <<reset, up, hpc, buf, pos, ends, member, adminVars, heard>>

ReplyFails ==
    /\ hpc = "reply" /\ todo # <<>>
    /\ ~sockfd \/ status # "up" \/ kick = "cut"
    /\ HandlerCloses

HandlerNext ==
    /\ hpc = "reply" /\ todo = <<>>
    /\ \/ ends /\ HandlerCloses
       \/ /\ ~ends
          /\ hpc' = "recv"
          /\ ServerKeeps
          /\ UNCHANGED <<reset, up, down, buf, pos, todo, ends, member, adminVars, heard>>

ServerHandler == \/ server_recv_line \/ RecvEof \/ RecvError
                 \/ Reply \/ ReplyFails \/ HandlerNext

\* The broadcaster, or a handler with a private message.
Push ==
    /\ member /\ kick # "cut"
    /\ pushed < MaxPushed /\ pushed' = pushed + 1
    /\ status = "up" /\ Len(down) < DownCap
    /\ down' = Append(down, "OTHER")
    /\ ServerKeeps /\ UNCHANGED <<reset, up, handlerVars, kick, heard>>

\* cmd_handle_kick() in an administrator's handler: the notice, then shutdown().
KickTells ==
    /\ member /\ kick = "no"
    /\ pushed < MaxPushed /\ pushed' = pushed + 1
    /\ status = "up" /\ Len(down) < DownCap
    /\ down' = Append(down, "KICKED") /\ kick' = "told"
    /\ ServerKeeps /\ UNCHANGED <<reset, up, handlerVars, heard>>

KickCuts ==
    /\ kick = "told" /\ hpc # "done"
    /\ kick' = "cut"
    /\ ServerKeeps /\ UNCHANGED <<reset, up, down, handlerVars, pushed, heard>>

\* The server process ends.
ServerEnds == status = "up" /\ sockfd /\ hpc # "done" /\ HandlerCloses

-----------------------------------------------------------------------------
Init ==
    /\ status = "up" /\ mpc = "start" /\ result = "ok" /\ cur = Login /\ typed = 0
    /\ out = <<>> /\ lock = "free" /\ sockfd = FALSE /\ running = FALSE /\ started = FALSE
    /\ authenticated = FALSE /\ joined = FALSE /\ rpc = "none" /\ resp = "OTHER"
    /\ shut = FALSE /\ reset = FALSE /\ up = <<>> /\ down = <<>>
    /\ hpc = "recv" /\ buf = Blank /\ pos = 0
    /\ todo = <<>> /\ ends = FALSE /\ member = FALSE
    /\ pushed = 0 /\ kick = "no"
    /\ sent = <<>> /\ heard = <<>>

Next ==
    \/ Main
    \/ \E l \in Typed : UserTypes(l)
    \/ UserEof
    \/ ClientKilled
    \/ Receiver
    \/ ServerHandler
    \/ Push \/ KickTells \/ KickCuts
    \/ ServerEnds

Spec == Init /\ [][Next]_vars

\* Each thread that can take a step takes one.  Nothing makes the user type,
\* an administrator act, or the server end.
FairSpec == Spec /\ WF_vars(Main) /\ WF_vars(Receiver) /\ WF_vars(ServerHandler)

-----------------------------------------------------------------------------
(* Correctness.                                                            *)

Unit == (0..(MaxTyped + 1)) \X (0..(LineCap + 1))

TypeOK ==
    /\ status \in {"up", "ok", "failed", "sigpipe", "killed"}
    /\ mpc \in {"start", "connect", "creds", "create", "line", "send", "test", "fgets",
                "stop", "shut", "join", "disc", "destroy", "over"}
    /\ result \in {"ok", "failed"}
    /\ cur \in ClientLine /\ typed \in 0..MaxTyped
    /\ out \in Seq(Unit) /\ Len(out) <= LineCap
    /\ lock \in {"free", "main"}
    /\ {sockfd, running, started, authenticated, joined, shut, reset, ends, member} \subseteq BOOLEAN
    /\ rpc \in {"none", "test", "fd", "recv", "show", "lost", "done"}
    /\ resp \in Response
    /\ up \in Seq(Unit) /\ Len(up) <= UpCap
    /\ down \in Seq(Response) /\ Len(down) <= DownCap
    /\ hpc \in {"recv", "reply", "done"}
    /\ buf \in [1..(LineCap + 1) -> Unit] /\ pos \in 0..(LineCap - 1)
    /\ todo \in Seq(Response)
    /\ pushed \in 0..MaxPushed /\ kick \in {"no", "told", "cut"}
    /\ sent \in Seq(ClientLine) /\ heard \in Seq(Seq(Unit))

\* The descriptor is closed and the mutexes are destroyed only when no receiver
\* thread can still use them, on every path out of client_run().
TeardownSafe ==
    /\ (rpc \notin {"none", "done"}) => sockfd /\ mpc \notin {"disc", "destroy"}
    /\ status \in {"ok", "failed"} => rpc \in {"none", "done"} /\ ~sockfd

\* The server executes the lines that the client sends, whole and in order,
\* however send() and recv() divide the stream: an oversized line, which is sent
\* without its newline, still ends where the server's buffer is full.  Only the
\* last line of a connection that was cut in the middle of it may be executed in
\* part, and then what it starts with is what was sent.
LinesKept ==
    /\ Len(heard) <= Len(sent)
    /\ \A i \in 1..Len(heard) :
          LET whole == Trimmed(Text(i, sent[i]))
          IN  \/ heard[i] = whole
              \/ /\ i = Len(heard) /\ up = <<>> /\ (status \in {"sigpipe", "killed"} \/ kick = "cut")
                 /\ \E k \in 1..Len(whole) :
                       Len(heard[i]) >= k /\ SubSeq(heard[i], 1, k) = SubSeq(whole, 1, k)

\* Once running is cleared, by KICKED, a lost server or /quit, nothing more is
\* sent, not even the rest of a line: the receiver cannot clear it between the
\* test and the send.
QuietAfterStop == [][~running => sent' = sent /\ Len(up') <= Len(up)]_vars

\* client_send_line() holds the lock while it sends.  When both ways are full
\* the handler waits for the receiver to read, the receiver for the lock, and
\* the holder of the lock for the handler to read.
Stuck ==
    /\ status = "up" /\ mpc = "send" /\ Len(up) = UpCap /\ ~Gone /\ ~reset
    /\ rpc \in {"test", "fd"} \/ (rpc = "show" /\ resp # "OTHER")
    /\ hpc = "reply" /\ todo # <<>> /\ Len(down) = DownCap

\* End of file at the terminal and /quit end the process, whatever the server and
\* the receiver are doing; the line that tells the server of /quit is sent first,
\* and there is no other way to hang there than for ever in the deadlock above.
QuitEndsClient ==
    (mpc = "shut" \/ (mpc = "line" /\ cur.cmd = "QUIT")) ~> (status # "up" \/ []Stuck)

-----------------------------------------------------------------------------
(* What the documentation says of the client and the code does not do.     *)

\* A failed recv() or send() ends the client, and cleanly (unless somebody kills
\* it first).
IOFailureEndsClient ==
    (rpc = "lost" \/ status = "sigpipe") ~> (status \in {"ok", "failed", "killed"})

=============================================================================
