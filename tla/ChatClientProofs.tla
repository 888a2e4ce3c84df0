-------------------------- MODULE ChatClientProofs --------------------------
(***************************************************************************)
(* Proofs about ChatClient: the types of its state, that client_destroy()  *)
(* never takes the socket and the mutexes from under the receiver thread,  *)
(* that nothing is sent once cli->running has been cleared, and that the   *)
(* server executes the lines that the client has sent.                     *)
(*                                                                         *)
(* None of them is inductive.  TeardownSafe needs to know when there       *)
(* is a receiver thread at all: client_run() has five ways out and only    *)
(* the one that has started it waits for it.  QuietAfterStop needs the     *)
(* lock: running can be cleared by either thread, but only with the lock   *)
(* free, and client_send_line() holds the lock while it sends.  LinesKept  *)
(* needs the place of every unit between out[] of the client and line[] of *)
(* the server (LineInv, in the second half of the module).                 *)
(***************************************************************************)
EXTENDS ChatClient, SequenceTheorems, WellFoundedInduction, TLAPS

\* The main thread has made the connection and not yet closed it.
Connected == mpc \in {"creds", "create", "line", "send", "test", "fgets", "stop", "shut", "join"}

\* The main thread has not yet come to start_receiver_thread().
BeforeReceiver ==
    \/ mpc \in {"start", "connect", "creds", "create"}
    \/ mpc \in {"line", "send"} /\ cur.cmd = "AUTH"

\* The process is up until main() is over; what main() returns then is what it
\* had on its way out, after the descriptor was closed.
ProcessByPhase ==
    /\ status = "up" <=> mpc # "over"
    /\ Connected => sockfd
    /\ mpc \in {"start", "connect", "destroy"} => ~sockfd
    /\ status \in {"ok", "failed"} => ~sockfd

\* There is a receiver thread from its start until it has been joined.
ReceiverByPhase ==
    /\ mpc \notin {"disc", "destroy", "over"} => (started <=> rpc # "none")
    /\ BeforeReceiver => rpc = "none"
    /\ mpc \in {"disc", "destroy"} => rpc \in {"none", "done"}
    /\ status # "up" => rpc \in {"none", "done"}

\* client_send_line() holds the lock while it sends, and it has seen running set.
LockBySender ==
    /\ lock = "main" <=> mpc = "send"
    /\ mpc = "send" => running

\* Each line sent is the login or one that the user has typed.
LinesCounted ==
    /\ Len(sent) <= typed + 1
    /\ mpc \in {"start", "connect", "creds", "line"} => Len(sent) <= typed

ClientInv ==
    /\ TypeOK
    /\ ProcessByPhase
    /\ ReceiverByPhase
    /\ LockBySender
    /\ LinesCounted


USE DEF mainVars, cliVars, recvVars, handlerVars, adminVars, ServerSide, MainKeeps,
        ReceiverKeeps, ServerKeeps

-----------------------------------------------------------------------------
(* The operators on lines and buffers.                                     *)

LEMMA Caps == /\ LineCap \in Nat /\ LineCap >= 2 /\ UpCap \in Nat /\ UpCap >= 1
              /\ DownCap \in Nat /\ DownCap >= 1 /\ MaxTyped \in Nat /\ MaxPushed \in Nat
BY ClientAssumption

\* A line that is sent fills at least one unit and no more than the server's
\* buffer holds.
LEMMA TextFits ==
    ASSUME NEW n \in 0..(MaxTyped + 1), NEW l \in ClientLine
    PROVE  Text(n, l) \in Seq(Unit) /\ Len(Text(n, l)) \in 1..LineCap
<1> DEFINE size == IF l.size > LineCap THEN LineCap ELSE l.size
<1>1. size \in 1..LineCap /\ l.size \in Nat
  BY Caps DEF ClientLine
<1>2. \A k \in 1..size : <<n, IF k = l.size THEN 0 ELSE k>> \in Unit
  BY <1>1, Caps DEF Unit
<1>3. Text(n, l) = [k \in 1..size |-> <<n, IF k = l.size THEN 0 ELSE k>>]
  BY DEF Text
<1>4. Text(n, l) \in [1..size -> Unit]
  BY <1>2, <1>3
<1> HIDE DEF size
<1>5. Text(n, l) \in Seq(Unit) /\ Len(Text(n, l)) = size
  BY <1>1, <1>4
<1> QED BY <1>1, <1>5

\* The two places where server_recv_line() writes are inside line[].
LEMMA TerminatedFits ==
    ASSUME NEW b \in [1..(LineCap + 1) -> Unit], NEW p \in 1..LineCap, NEW u \in Unit
    PROVE  Terminated(b, p, u) \in [1..(LineCap + 1) -> Unit]
<1>1. Nul \in Unit
  BY Caps DEF Nul, Unit
<1> QED BY <1>1, Caps DEF Terminated

LEMMA BlankFits == Blank \in [1..(LineCap + 1) -> Unit]
<1>1. Junk \in Unit
  BY Caps DEF Junk, Unit
<1> QED BY <1>1 DEF Blank

\* A set of numbers that is not empty has a least one.
LEMMA LeastNat ==
    ASSUME NEW S \in SUBSET Nat, S # {}
    PROVE  \E i \in S : \A j \in S : i <= j
<1> DEFINE R == OpToRel(<, Nat)
<1>1. IsWellFoundedOn(R, Nat)
  BY NatLessThanWellFounded
<1>2. R = {ss \in Nat \X Nat : ss[1] < ss[2]}
  BY DEF OpToRel
<1> HIDE DEF R
<1>3. PICK x \in S : \A y \in S : ~(<<y, x>> \in R)
  BY <1>1, WFMin
<1>4. ASSUME NEW y \in S, y < x
      PROVE  FALSE
  <2>1. <<y, x>> \in Nat \X Nat /\ <<y, x>>[1] < <<y, x>>[2]
    BY <1>4
  <2> QED BY <1>2, <1>3, <2>1
<1> QED BY <1>4

LEMMA CStringFits ==
    ASSUME NEW b \in [1..(LineCap + 1) -> Unit]
    PROVE  CString(b) \in Seq(Unit)
<1> DEFINE ends0 == {i \in 1..Len(b) : b[i] = Nul}
           m == CHOOSE i \in ends0 : \A j \in ends0 : i <= j
<1>1. b \in Seq(Unit) /\ Len(b) = LineCap + 1
  BY Caps
<1>2. CASE ends0 = {}
  BY <1>1, <1>2 DEF CString
<1>3. CASE ends0 # {}
  <2>1. ends0 \subseteq Nat
    BY <1>1
  <2>2. \E i \in ends0 : \A j \in ends0 : i <= j
    BY <1>3, <2>1, LeastNat
  <2>3. m \in ends0
    BY <2>2
  <2>4. m - 1 \in 0..Len(b)
    BY <1>1, <2>3
  <2>5. CString(b) = SubSeq(b, 1, m - 1)
    BY <1>3 DEF CString
  <2> HIDE DEF m
  <2>6. SubSeq(b, 1, m - 1) \in Seq(Unit)
    BY <1>1, <2>4
  <2> QED BY <2>5, <2>6
<1> QED BY <1>2, <1>3

LEMMA AnswersFit ==
    ASSUME NEW cmd, NEW a \in Answers(cmd)
    PROVE  a[1] \in Seq(Response) /\ a[2] \in BOOLEAN
<1>1. /\ <<"OTHER">> \in Seq(Response) /\ <<>> \in Seq(Response)
      /\ <<"WELCOME", "ROOM_JOINED", "OTHER">> \in Seq(Response)
      /\ <<"ROOM_JOINED", "OTHER">> \in Seq(Response)
  BY DEF Response
<1>2. \/ \E b \in BOOLEAN : a = <<<<"OTHER">>, b>>
      \/ \E b \in BOOLEAN : a = <<<<>>, b>>
      \/ a = <<<<"WELCOME", "ROOM_JOINED", "OTHER">>, FALSE>>
      \/ a = <<<<"ROOM_JOINED", "OTHER">>, FALSE>>
  <2>1. CASE ~member
    <3>1. (cmd = "AUTH") \in BOOLEAN
      OBVIOUS
    <3> QED BY <2>1, <3>1 DEF Answers
  <2>2. CASE member
    BY <2>2 DEF Answers
  <2> QED BY <2>1, <2>2
<1>3. ASSUME NEW s \in Seq(Response), NEW b \in BOOLEAN, a = <<s, b>>
      PROVE  a[1] \in Seq(Response) /\ a[2] \in BOOLEAN
  BY <1>3
<1> QED BY <1>1, <1>2, <1>3

-----------------------------------------------------------------------------
(* The types.                                                              *)

\* What the client's threads, and what the server's, have in their variables.
ClientTypes ==
    /\ status \in {"up", "ok", "failed", "sigpipe", "killed"}
    /\ mpc \in {"start", "connect", "creds", "create", "line", "send", "test", "fgets",
                "stop", "shut", "join", "disc", "destroy", "over"}
    /\ result \in {"ok", "failed"}
    /\ cur \in ClientLine /\ typed \in 0..MaxTyped
    /\ out \in Seq(Unit) /\ Len(out) <= LineCap
    /\ lock \in {"free", "main"}
    /\ rpc \in {"none", "test", "fd", "recv", "show", "lost", "done"}
    /\ resp \in Response
    /\ sent \in Seq(ClientLine)

ServerTypes ==
    /\ up \in Seq(Unit) /\ Len(up) <= UpCap
    /\ down \in Seq(Response) /\ Len(down) <= DownCap
    /\ hpc \in {"recv", "reply", "done"}
    /\ buf \in [1..(LineCap + 1) -> Unit] /\ pos \in 0..(LineCap - 1)
    /\ todo \in Seq(Response)
    /\ pushed \in 0..MaxPushed /\ kick \in {"no", "told", "cut"}
    /\ heard \in Seq(Seq(Unit))

FlagTypes ==
    /\ sockfd \in BOOLEAN /\ running \in BOOLEAN /\ started \in BOOLEAN
    /\ authenticated \in BOOLEAN /\ joined \in BOOLEAN /\ shut \in BOOLEAN
    /\ reset \in BOOLEAN /\ ends \in BOOLEAN /\ member \in BOOLEAN

LEMMA TypesSplit == TypeOK <=> ClientTypes /\ ServerTypes /\ FlagTypes
BY DEF TypeOK, ClientTypes, ServerTypes, FlagTypes

LEMMA TypesInit == Init => TypeOK
<1> SUFFICES ASSUME Init PROVE TypeOK
  OBVIOUS
<1>1. FlagTypes
  BY DEF Init, FlagTypes
<1>2. cur \in ClientLine
  BY Caps DEF Init, ClientLine, Login
<1>3. ClientTypes
  BY <1>2, Caps DEF Init, ClientTypes, Response
<1>4. ServerTypes
  BY BlankFits, Caps DEF Init, ServerTypes
<1> QED BY <1>1, <1>3, <1>4, TypesSplit

LEMMA ServerFrame ==
    ASSUME ServerTypes, UNCHANGED <<up, down, ServerSide>>
    PROVE  ServerTypes'
BY DEF ServerTypes


\* The steps of the main thread.
LEMMA MainFlags ==
    ASSUME FlagTypes,
           Main \/ (\E l \in Typed : UserTypes(l)) \/ UserEof \/ ClientKilled
    PROVE  FlagTypes'
<1> USE DEF FlagTypes
<1>1. CASE client_init_fails \/ client_init
  BY <1>1 DEF client_init_fails, client_init
<1>2. CASE client_connect \/ resolve_credentials \/ StartReceiver
  BY <1>2 DEF client_connect, resolve_credentials, StartReceiver
<1>3. CASE SendStarts \/ SendRefused \/ SendFails
  BY <1>3 DEF SendStarts, SendRefused, SendFails
<1>4. CASE client_send_all
  BY <1>4 DEF client_send_all
<1>5. CASE SendKilled \/ ClientKilled
  BY <1>5 DEF SendKilled, ClientKilled, Die
<1>6. CASE LoopTest \/ StopRunning \/ JoinReceiver \/ client_destroy
  BY <1>6 DEF LoopTest, StopRunning, JoinReceiver, client_destroy
<1>7. CASE ShutSocket \/ client_disconnect
  <2>1. shut' = (shut \/ sockfd)
    BY <1>7 DEF ShutSocket, client_disconnect
  <2>2. shut' \in BOOLEAN
    BY <2>1
  <2> QED BY <1>7, <2>2 DEF ShutSocket, client_disconnect
<1>8. CASE (\E l \in Typed : UserTypes(l)) \/ UserEof
  BY <1>8 DEF UserTypes, UserEof
<1> QED BY <1>1, <1>2, <1>3, <1>4, <1>5, <1>6, <1>7, <1>8 DEF Main

\* What client_send_all() takes is the next unit of the line.
LEMMA TakesFromOut ==
    ASSUME out \in Seq(Unit), Takes
    PROVE  Len(out) >= 1 /\ Head(out) \in Unit /\ out' = Tail(out)
<1>1. out' = Tail(out) /\ (Len(out) > 1 \/ Len(out) = 1)
  BY DEF Takes, AfterSend, Go, Fail
<1> QED BY <1>1

LEMMA MainTypes ==
    ASSUME ClientInv,
           Main \/ (\E l \in Typed : UserTypes(l)) \/ UserEof \/ ClientKilled
    PROVE  ClientTypes'
<1> USE DEF ClientInv, Up, Go, Fail
<1>t. ClientTypes /\ ServerTypes
  BY TypesSplit
<1>l. Login \in ClientLine
  BY Caps DEF Login, ClientLine
<1>1. CASE client_init_fails
  BY <1>1, <1>t DEF client_init_fails, ClientTypes
<1>2. CASE client_init
  BY <1>2, <1>t DEF client_init, ClientTypes
<1>3. CASE client_connect
  BY <1>3, <1>t DEF client_connect, ClientTypes
<1>4. CASE resolve_credentials
  BY <1>4, <1>t, <1>l DEF resolve_credentials, ClientTypes
<1>5. CASE StartReceiver
  BY <1>5, <1>t DEF StartReceiver, ClientTypes
<1>6. CASE SendStarts
  <2>1. Len(sent) + 1 \in 0..(MaxTyped + 1)
    BY <1>6, <1>t, Caps DEF SendStarts, LinesCounted, ClientTypes
  <2>2. out' \in Seq(Unit) /\ Len(out') <= LineCap
    BY <1>6, <1>t, <2>1, TextFits, Caps DEF SendStarts, ClientTypes
  <2>3. sent' \in Seq(ClientLine)
    BY <1>6, <1>t DEF SendStarts, ClientTypes
  <2> QED BY <1>6, <1>t, <2>2, <2>3 DEF SendStarts, ClientTypes
<1>7. CASE SendRefused
  BY <1>7, <1>t DEF SendRefused, AfterSend, ClientTypes
<1>8. CASE client_send_all
  <2>1. Len(out) >= 1 /\ out \in Seq(Unit) /\ out' = Tail(out)
    BY <1>8, <1>t, TakesFromOut DEF client_send_all, ClientTypes
  <2>2. Tail(out) \in Seq(Unit) /\ Len(Tail(out)) = Len(out) - 1
    BY <2>1
  <2>3. out' \in Seq(Unit) /\ Len(out') <= LineCap
    BY <1>t, <2>1, <2>2, Caps DEF ClientTypes
  <2> QED BY <1>8, <1>t, <2>3 DEF client_send_all, Takes, AfterSend, ClientTypes
<1>9. CASE SendFails
  BY <1>9, <1>t, Caps DEF SendFails, AfterSend, ClientTypes
<1>10. CASE SendKilled \/ ClientKilled
  <2>1. PICK how \in {"sigpipe", "killed"} : Die(how)
    BY <1>10 DEF SendKilled, ClientKilled
  <2> QED BY <1>t, <2>1, Caps DEF Die, ClientTypes, Response
<1>11. CASE LoopTest
  BY <1>11, <1>t DEF LoopTest, ClientTypes
<1>12. CASE StopRunning
  BY <1>12, <1>t DEF StopRunning, ClientTypes
<1>13. CASE ShutSocket
  BY <1>13, <1>t DEF ShutSocket, ClientTypes
<1>14. CASE JoinReceiver
  BY <1>14, <1>t DEF JoinReceiver, ClientTypes
<1>15. CASE client_disconnect
  BY <1>15, <1>t DEF client_disconnect, ClientTypes
<1>16. CASE client_destroy
  BY <1>16, <1>t DEF client_destroy, ClientTypes
<1>17. ASSUME NEW l \in Typed, UserTypes(l)
       PROVE  ClientTypes'
  <2>1. l \in ClientLine
    BY ClientAssumption
  <2> QED BY <1>17, <1>t, <2>1, Caps DEF UserTypes, ClientTypes
<1>18. CASE UserEof
  BY <1>18, <1>t DEF UserEof, ClientTypes
<1> QED BY <1>1, <1>2, <1>3, <1>4, <1>5, <1>6, <1>7, <1>8, <1>9, <1>10, <1>11, <1>12,
           <1>13, <1>14, <1>15, <1>16, <1>17, <1>18 DEF Main

\* What they leave of the server's side: only client_send_all() adds to it, and
\* what is on its way to a client is lost when that dies.
LEMMA MainKeepsServer ==
    ASSUME ClientInv,
           Main \/ (\E l \in Typed : UserTypes(l)) \/ UserEof \/ ClientKilled
    PROVE  ServerTypes'
<1> USE DEF ClientInv
<1>t. ClientTypes /\ ServerTypes
  BY TypesSplit
<1>1. CASE client_send_all
  <2>1. Head(out) \in Unit
    BY <1>1, <1>t, TakesFromOut DEF client_send_all, ClientTypes
  <2>3. up' = up \/ (up' = Append(up, Head(out)) /\ Len(up) < UpCap)
    BY <1>1 DEF client_send_all
  <2>2. up' \in Seq(Unit) /\ Len(up') <= UpCap
    <3>1. up \in Seq(Unit) /\ Len(up) <= UpCap
      BY <1>t DEF ServerTypes
    <3>2. CASE up' = Append(up, Head(out)) /\ Len(up) < UpCap
      BY <2>1, <3>1, <3>2, Caps
    <3> QED BY <2>3, <3>1, <3>2
  <2> QED BY <1>1, <1>t, <2>2 DEF client_send_all, ServerTypes
<1>2. CASE SendKilled \/ ClientKilled
  <2>1. PICK how \in {"sigpipe", "killed"} : Die(how)
    BY <1>2 DEF SendKilled, ClientKilled
  <2> QED BY <1>t, <2>1, Caps DEF Die, ServerTypes
<1>3. CASE UNCHANGED <<up, down, ServerSide>>
  BY <1>3, <1>t, ServerFrame
<1> QED BY <1>1, <1>2, <1>3
        DEF Main, client_init_fails, client_init, client_connect, resolve_credentials,
            StartReceiver, SendStarts, SendRefused, SendFails, LoopTest, StopRunning,
            ShutSocket, JoinReceiver, client_disconnect, client_destroy, UserTypes, UserEof

\* The steps of the receiver thread.
LEMMA ReceiverKeepsTypes ==
    ASSUME ClientInv, Receiver
    PROVE  TypeOK'
<1> USE DEF ClientInv, At
<1>t. ClientTypes /\ ServerTypes /\ FlagTypes
  BY TypesSplit
<1>1. FlagTypes'
  <2>1. CASE display_server_message
    <3>1. /\ running' = (running /\ resp # "KICKED")
          /\ authenticated' = (authenticated \/ resp = "WELCOME")
          /\ joined' = (joined \/ resp = "ROOM_JOINED")
      BY <2>1 DEF display_server_message
    <3>2. running' \in BOOLEAN /\ authenticated' \in BOOLEAN /\ joined' \in BOOLEAN
      BY <3>1
    <3> QED BY <1>t, <2>1, <3>2 DEF display_server_message, FlagTypes
  <2>2. CASE ReceiverStops
    BY <1>t, <2>2 DEF ReceiverStops, FlagTypes
  <2>3. CASE ReceiverTest \/ ReceiverFd \/ client_recv_line \/ RecvFails
    BY <1>t, <2>3 DEF ReceiverTest, ReceiverFd, client_recv_line, RecvFails, FlagTypes
  <2> QED BY <2>1, <2>2, <2>3 DEF Receiver
<1>2. ClientTypes' /\ ServerTypes'
  <2>1. CASE ReceiverTest
    BY <2>1, <1>t DEF ReceiverTest, ClientTypes, ServerTypes
  <2>2. CASE ReceiverFd
    BY <2>2, <1>t DEF ReceiverFd, ClientTypes, ServerTypes
  <2>3. CASE client_recv_line
    <3>1. down \in Seq(Response) /\ down # <<>>
      BY <2>3, <1>t DEF client_recv_line, ServerTypes
    <3>2. /\ Head(down) \in Response /\ Tail(down) \in Seq(Response)
          /\ Len(Tail(down)) <= Len(down)
      BY <3>1
    <3>3. resp' \in Response /\ down' \in Seq(Response) /\ Len(down') <= DownCap
      BY <2>3, <1>t, <3>1, <3>2, Caps DEF client_recv_line, ServerTypes
    <3> QED BY <2>3, <1>t, <3>3 DEF client_recv_line, ClientTypes, ServerTypes
  <2>4. CASE RecvFails
    BY <2>4, <1>t DEF RecvFails, ClientTypes, ServerTypes
  <2>5. CASE ReceiverStops
    BY <2>5, <1>t DEF ReceiverStops, ClientTypes, ServerTypes
  <2>6. CASE display_server_message
    BY <2>6, <1>t DEF display_server_message, ClientTypes, ServerTypes, Response
  <2> QED BY <2>1, <2>2, <2>3, <2>4, <2>5, <2>6 DEF Receiver
<1> QED BY <1>1, <1>2 DEF TypeOK, ClientTypes, ServerTypes, FlagTypes

\* The handler thread of the server: a step that executes a text, and one that
\* ends the session.
LEMMA ExecuteTypes ==
    ASSUME ServerTypes, FlagTypes,
           NEW b \in [1..(LineCap + 1) -> Unit], Execute(b)
    PROVE  /\ buf' \in [1..(LineCap + 1) -> Unit] /\ pos' \in 0..(LineCap - 1)
           /\ heard' \in Seq(Seq(Unit)) /\ hpc' \in {"recv", "reply", "done"}
           /\ todo' \in Seq(Response) /\ ends' \in BOOLEAN /\ member' \in BOOLEAN
<1>1. buf' = b /\ pos' = 0 /\ heard' = Append(heard, CString(b)) /\ hpc' = "reply"
  BY DEF Execute
<1>2. CString(b) \in Seq(Unit)
  BY CStringFits
<1>3. PICK cmd \in TakenFor(CString(b)) : \E a \in Answers(cmd) :
          /\ todo' = a[1] /\ ends' = a[2]
          /\ member' = (member \/ "WELCOME" \in Range(a[1]))
  BY DEF Execute
<1>4. PICK a \in Answers(cmd) :
          /\ todo' = a[1] /\ ends' = a[2]
          /\ member' = (member \/ "WELCOME" \in Range(a[1]))
  BY <1>3
<1>5. todo' \in Seq(Response) /\ ends' \in BOOLEAN
  BY <1>4, AnswersFit
<1>6. member' \in BOOLEAN
  BY <1>4
<1>7. heard' \in Seq(Seq(Unit))
  BY <1>1, <1>2 DEF ServerTypes
<1> QED BY <1>1, <1>5, <1>6, <1>7, Caps

LEMMA ClosesTypes ==
    ASSUME ClientTypes, ServerTypes, FlagTypes, HandlerCloses
    PROVE  ClientTypes' /\ ServerTypes' /\ FlagTypes'
<1>1. ClientTypes'
  BY DEF HandlerCloses, ClientTypes
<1>2. ServerTypes'
  BY BlankFits, Caps DEF HandlerCloses, ServerTypes
<1>3. FlagTypes'
  <2>1. reset' = (reset \/ up # <<>>)
    BY DEF HandlerCloses
  <2>2. reset' \in BOOLEAN
    BY <2>1
  <2> QED BY <2>2 DEF HandlerCloses, FlagTypes
<1> QED BY <1>1, <1>2, <1>3

LEMMA HandlerTypes ==
    ASSUME ClientTypes, ServerTypes, FlagTypes, ServerHandler
    PROVE  ClientTypes' /\ ServerTypes' /\ FlagTypes'
<1>1. CASE server_recv_line
  <2> DEFINE p == pos + 1
             u == Head(up)
  <2>1. /\ hpc = "recv" /\ up # <<>> /\ up' = Tail(up)
        /\ ServerKeeps /\ UNCHANGED <<reset, down, adminVars>>
    BY <1>1 DEF server_recv_line
  <2>2. IF LineDone(p, u)
        THEN Execute(Terminated(buf, p, u))
        ELSE /\ buf' = [buf EXCEPT ![p] = u]
             /\ pos' = p
             /\ UNCHANGED <<hpc, todo, ends, member, heard>>
    BY <1>1 DEF server_recv_line
  <2>3. /\ u \in Unit /\ Tail(up) \in Seq(Unit) /\ Len(Tail(up)) = Len(up) - 1
        /\ up \in Seq(Unit) /\ Len(up) <= UpCap
    BY <2>1 DEF ServerTypes
  <2>4. p \in 1..LineCap /\ buf \in [1..(LineCap + 1) -> Unit]
    BY Caps DEF ServerTypes
  <2>5. ClientTypes'
    BY <2>1 DEF ClientTypes
  <2>6. up' \in Seq(Unit) /\ Len(up') <= UpCap
    BY <2>1, <2>3, Caps
  <2>7. CASE LineDone(p, u)
    <3>1. Terminated(buf, p, u) \in [1..(LineCap + 1) -> Unit]
      BY <2>3, <2>4, TerminatedFits
    <3>2. /\ buf' \in [1..(LineCap + 1) -> Unit] /\ pos' \in 0..(LineCap - 1)
          /\ heard' \in Seq(Seq(Unit)) /\ hpc' \in {"recv", "reply", "done"}
          /\ todo' \in Seq(Response) /\ ends' \in BOOLEAN /\ member' \in BOOLEAN
      BY <2>2, <2>7, <3>1, ExecuteTypes
    <3>3. ServerTypes'
      BY <2>1, <2>6, <3>2 DEF ServerTypes
    <3>4. FlagTypes'
      BY <2>1, <3>2 DEF FlagTypes
    <3> QED BY <2>5, <3>3, <3>4
  <2>8. CASE ~LineDone(p, u)
    <3>1. p # LineCap
      BY <2>8 DEF LineDone
    <3>2. pos' \in 0..(LineCap - 1) /\ buf' \in [1..(LineCap + 1) -> Unit]
      BY <2>2, <2>3, <2>4, <2>8, <3>1, Caps
    <3>3. ServerTypes'
      BY <2>1, <2>2, <2>6, <2>8, <3>2 DEF ServerTypes
    <3>4. FlagTypes'
      BY <2>1, <2>2, <2>8 DEF FlagTypes
    <3> QED BY <2>5, <3>3, <3>4
  <2> QED BY <2>7, <2>8
<1>2. CASE RecvEof
  <2>1. CASE HandlerCloses
    BY <2>1, ClosesTypes
  <2>2. CASE Execute(buf) /\ ServerKeeps /\ UNCHANGED <<reset, up, down, adminVars>>
    <3>1. /\ buf' \in [1..(LineCap + 1) -> Unit] /\ pos' \in 0..(LineCap - 1)
          /\ heard' \in Seq(Seq(Unit)) /\ hpc' \in {"recv", "reply", "done"}
          /\ todo' \in Seq(Response) /\ ends' \in BOOLEAN /\ member' \in BOOLEAN
      BY <2>2, ExecuteTypes DEF ServerTypes
    <3>2. ClientTypes'
      BY <2>2 DEF ClientTypes
    <3>3. ServerTypes'
      BY <2>2, <3>1 DEF ServerTypes
    <3>4. FlagTypes'
      BY <2>2, <3>1 DEF FlagTypes
    <3> QED BY <3>2, <3>3, <3>4
  <2> QED BY <1>2, <2>1, <2>2 DEF RecvEof
<1>3. CASE Reply
  <2>1. todo \in Seq(Response) /\ todo # <<>>
    BY <1>3 DEF Reply, ServerTypes
  <2>2. Head(todo) \in Response /\ Tail(todo) \in Seq(Response)
    BY <2>1
  <2>3. down' \in Seq(Response) /\ Len(down') <= DownCap /\ todo' \in Seq(Response)
    BY <1>3, <2>2, Caps DEF Reply, ServerTypes
  <2>4. ServerTypes'
    BY <1>3, <2>3 DEF Reply, ServerTypes
  <2>5. ClientTypes' /\ FlagTypes'
    BY <1>3 DEF Reply, ClientTypes, FlagTypes
  <2> QED BY <2>4, <2>5
<1>4. CASE HandlerNext
  <2>1. CASE HandlerCloses
    BY <2>1, ClosesTypes
  <2>2. CASE hpc' = "recv" /\ ServerKeeps
             /\ UNCHANGED <<reset, up, down, buf, pos, todo, ends, member, adminVars, heard>>
    BY <2>2 DEF ClientTypes, ServerTypes, FlagTypes
  <2> QED BY <1>4, <2>1, <2>2 DEF HandlerNext
<1>5. CASE ReplyFails
  BY <1>5, ClosesTypes DEF ReplyFails
<1>6. CASE RecvError
  BY <1>6, ClosesTypes DEF RecvError
<1> QED BY <1>1, <1>2, <1>3, <1>4, <1>5, <1>6 DEF ServerHandler

\* The other threads of the server.
LEMMA OthersTypes ==
    ASSUME ClientTypes, ServerTypes, FlagTypes,
           Push \/ KickTells \/ KickCuts \/ ServerEnds
    PROVE  ClientTypes' /\ ServerTypes' /\ FlagTypes'
<1>1. CASE ServerEnds
  BY <1>1, ClosesTypes DEF ServerEnds
<1>2. CASE Push \/ KickTells
  <2>1. PICK r \in Response : down' = Append(down, r) /\ Len(down) < DownCap
    BY <1>2 DEF Push, KickTells, Response
  <2>2. down' \in Seq(Response) /\ Len(down') <= DownCap
    BY <2>1, Caps DEF ServerTypes
  <2>3. pushed' \in 0..MaxPushed /\ kick' \in {"no", "told", "cut"}
    BY <1>2, Caps DEF Push, KickTells, ServerTypes
  <2>4. ServerTypes'
    BY <1>2, <2>2, <2>3 DEF Push, KickTells, ServerTypes
  <2>5. ClientTypes' /\ FlagTypes'
    BY <1>2 DEF Push, KickTells, ClientTypes, FlagTypes
  <2> QED BY <2>4, <2>5
<1>3. CASE KickCuts
  BY <1>3 DEF KickCuts, ClientTypes, ServerTypes, FlagTypes
<1> QED BY <1>1, <1>2, <1>3

LEMMA TypeStep == ClientInv /\ [Next]_vars => TypeOK'
<1> SUFFICES ASSUME ClientInv, [Next]_vars PROVE TypeOK'
  OBVIOUS
<1>t. ClientTypes /\ ServerTypes /\ FlagTypes
  BY TypesSplit DEF ClientInv
<1>1. CASE Main \/ (\E l \in Typed : UserTypes(l)) \/ UserEof \/ ClientKilled
  <2>1. ClientTypes' /\ ServerTypes' /\ FlagTypes'
    BY <1>1, <1>t, MainTypes, MainKeepsServer, MainFlags
  <2> QED BY <2>1 DEF TypeOK, ClientTypes, ServerTypes, FlagTypes
<1>2. CASE Receiver
  BY <1>2, ReceiverKeepsTypes
<1>3. CASE ServerHandler \/ Push \/ KickTells \/ KickCuts \/ ServerEnds
  <2>1. ClientTypes' /\ ServerTypes' /\ FlagTypes'
    BY <1>3, <1>t, HandlerTypes, OthersTypes
  <2> QED BY <2>1 DEF TypeOK, ClientTypes, ServerTypes, FlagTypes
<1>4. CASE UNCHANGED vars
  BY <1>t, <1>4 DEF TypeOK, ClientTypes, ServerTypes, FlagTypes, vars
<1> QED BY <1>1, <1>2, <1>3, <1>4 DEF Next

-----------------------------------------------------------------------------
(* The phases of the client, the lock and the number of lines.             *)

\* Nothing that the server does touches the client's variables.
LEMMA ServerLeavesClient ==
    ASSUME ServerHandler \/ Push \/ KickTells \/ KickCuts \/ ServerEnds
    PROVE  UNCHANGED <<mainVars, cliVars, recvVars, shut, sent>>
BY DEF ServerHandler, server_recv_line, RecvEof, RecvError, Reply, ReplyFails, HandlerNext,
       HandlerCloses, Push, KickTells, KickCuts, ServerEnds

LEMMA PhasesInit == Init => ClientInv
BY TypesInit, Caps
   DEF Init, ClientInv, ProcessByPhase, Connected, ReceiverByPhase, BeforeReceiver,
       LockBySender, LinesCounted

LEMMA PhaseFrame ==
    ASSUME ClientInv, UNCHANGED <<mainVars, cliVars, recvVars, shut, sent>>
    PROVE  /\ ProcessByPhase' /\ ReceiverByPhase' /\ LockBySender' /\ LinesCounted'
BY DEF ClientInv, ProcessByPhase, Connected, ReceiverByPhase, BeforeReceiver,
       LockBySender, LinesCounted

\* The receiver runs only while the main thread has not yet joined it, and does
\* not clear running in the middle of a send.
LEMMA ReceiverPhases ==
    ASSUME ClientInv, Receiver
    PROVE  /\ ProcessByPhase' /\ ReceiverByPhase' /\ LockBySender' /\ LinesCounted'
<1> USE DEF ClientInv, At
<1>1. /\ UNCHANGED <<status, mpc, result, cur, typed, out, lock, sockfd, started, sent>>
      /\ rpc \notin {"none", "done"} /\ rpc' # "none" /\ status = "up"
  BY DEF Receiver, ReceiverTest, ReceiverFd, client_recv_line, RecvFails, ReceiverStops,
         display_server_message
<1>2. ProcessByPhase' /\ LinesCounted'
  BY <1>1 DEF ProcessByPhase, Connected, LinesCounted
<1>3. ReceiverByPhase'
  BY <1>1 DEF ReceiverByPhase, BeforeReceiver, ProcessByPhase
<1>4. LockBySender'
  <2>1. CASE lock = "free"
    BY <1>1, <2>1 DEF LockBySender
  <2>2. CASE lock # "free"
    <3>1. running' = running
      <4>1. CASE display_server_message
        <5>1. resp = "OTHER" /\ running' = (running /\ resp # "KICKED")
          BY <2>2, <4>1 DEF display_server_message
        <5>2. running \in BOOLEAN
          BY TypesSplit DEF FlagTypes
        <5> QED BY <5>1, <5>2
      <4> QED BY <2>2, <4>1 DEF Receiver, ReceiverTest, ReceiverFd, client_recv_line,
                               RecvFails, ReceiverStops
    <3> QED BY <1>1, <3>1 DEF LockBySender
  <2> QED BY <2>1, <2>2
<1> QED BY <1>2, <1>3, <1>4

\* The main thread.
LEMMA MainPhases ==
    ASSUME ClientInv,
           Main \/ (\E l \in Typed : UserTypes(l)) \/ UserEof \/ ClientKilled
    PROVE  /\ ProcessByPhase' /\ ReceiverByPhase' /\ LockBySender' /\ LinesCounted'
<1> USE DEF ClientInv, Up, Go, Fail, ProcessByPhase, Connected, ReceiverByPhase,
            BeforeReceiver, LockBySender, LinesCounted
<1>t. ClientTypes
  BY TypesSplit
<1>n. typed \in Nat /\ Len(sent) \in Nat
  BY <1>t, Caps DEF ClientTypes
<1>c. cur.cmd \in {"AUTH", "QUIT", "ASK", "JOIN_ROOM", "MSG", "SKIP"}
  BY <1>t DEF ClientTypes, ClientLine, Command
<1>1. CASE client_init_fails \/ client_init
  BY <1>1, <1>n DEF client_init_fails, client_init
<1>2. CASE client_connect
  BY <1>2, <1>n DEF client_connect
<1>3. CASE resolve_credentials
  BY <1>3, <1>n DEF resolve_credentials
<1>4. CASE StartReceiver
  BY <1>4, <1>n DEF StartReceiver
<1>5. CASE SendStarts
  <2>1. Len(sent') = Len(sent) + 1
    BY <1>5, <1>t DEF SendStarts, ClientTypes
  <2> QED BY <1>5, <1>n, <2>1 DEF SendStarts
<1>6. CASE SendRefused
  BY <1>6, <1>n, <1>c DEF SendRefused, AfterSend
<1>7. CASE client_send_all
  BY <1>7, <1>n, <1>c DEF client_send_all, Takes, AfterSend
<1>8. CASE SendFails
  BY <1>8, <1>n, <1>c DEF SendFails, AfterSend
<1>9. CASE SendKilled \/ ClientKilled
  <2>1. PICK how \in {"sigpipe", "killed"} : Die(how)
    BY <1>9 DEF SendKilled, ClientKilled
  <2> QED BY <1>n, <2>1 DEF Die
<1>10. CASE LoopTest
  BY <1>10, <1>n DEF LoopTest
<1>11. CASE StopRunning \/ ShutSocket
  BY <1>11, <1>n DEF StopRunning, ShutSocket
<1>12. CASE JoinReceiver
  BY <1>12, <1>n DEF JoinReceiver, Joined
<1>13. CASE client_disconnect
  BY <1>13, <1>n DEF client_disconnect
<1>14. CASE client_destroy
  BY <1>14, <1>n, <1>t DEF client_destroy, ClientTypes
<1>15. ASSUME NEW l \in Typed, UserTypes(l)
       PROVE  /\ ProcessByPhase' /\ ReceiverByPhase' /\ LockBySender' /\ LinesCounted'
  <2>1. l.cmd # "AUTH"
    BY ClientAssumption
  <2> QED BY <1>15, <1>n, <2>1 DEF UserTypes
<1>16. CASE UserEof
  BY <1>16, <1>n DEF UserEof
<1> QED BY <1>1, <1>2, <1>3, <1>4, <1>5, <1>6, <1>7, <1>8, <1>9, <1>10, <1>11, <1>12,
           <1>13, <1>14, <1>15, <1>16 DEF Main

LEMMA ClientStep == ClientInv /\ [Next]_vars => ClientInv'
<1> SUFFICES ASSUME ClientInv, [Next]_vars PROVE ClientInv'
  OBVIOUS
<1>1. TypeOK'
  BY TypeStep
<1>2. ProcessByPhase' /\ ReceiverByPhase' /\ LockBySender' /\ LinesCounted'
  <2>1. CASE ServerHandler \/ Push \/ KickTells \/ KickCuts \/ ServerEnds
    BY <2>1, ServerLeavesClient, PhaseFrame
  <2>2. CASE UNCHANGED vars
    BY <2>2, PhaseFrame DEF vars
  <2> QED BY <2>1, <2>2, ReceiverPhases, MainPhases DEF Next
<1> QED BY <1>1, <1>2 DEF ClientInv

-----------------------------------------------------------------------------
(* The theorems.                                                           *)

\* Whatever the user, the server and whoever kills processes do.
THEOREM ClientInvariant == Spec => []ClientInv
<1>1. Init => ClientInv
  BY PhasesInit
<1>2. ClientInv /\ [Next]_vars => ClientInv'
  BY ClientStep
<1> QED BY <1>1, <1>2, PTL DEF Spec

\* The state keeps its types: no text in line[], in a socket buffer or in out[]
\* is ever longer than its array.
THEOREM ClientTypeCorrect == Spec => []TypeOK
<1>1. ClientInv => TypeOK
  BY DEF ClientInv
<1> QED BY <1>1, ClientInvariant, PTL

\* client_destroy() never closes the socket or destroys a mutex that the receiver
\* thread may still use, on any of the ways out of client_run().
THEOREM TeardownAlwaysSafe == Spec => []TeardownSafe
<1>1. ClientInv => TeardownSafe
  <2> SUFFICES ASSUME ClientInv PROVE TeardownSafe
    OBVIOUS
  <2>t. ClientTypes
    BY TypesSplit DEF ClientInv
  <2>1. ASSUME rpc \notin {"none", "done"}
        PROVE  sockfd /\ mpc \notin {"disc", "destroy"}
    BY <2>1, <2>t DEF ClientInv, ClientTypes, ProcessByPhase, Connected, ReceiverByPhase,
                      BeforeReceiver
  <2>2. status \in {"ok", "failed"} => rpc \in {"none", "done"} /\ ~sockfd
    BY DEF ClientInv, ProcessByPhase, ReceiverByPhase
  <2> QED BY <2>1, <2>2 DEF TeardownSafe
<1> QED BY <1>1, ClientInvariant, PTL

\* After running has been cleared, no line is begun and no unit of one is sent.
THEOREM AlwaysQuietAfterStop == Spec => QuietAfterStop
<1>1. ClientInv /\ [Next]_vars => [~running => sent' = sent /\ Len(up') <= Len(up)]_vars
  <2> SUFFICES ASSUME ClientInv, Next, ~running
               PROVE  sent' = sent /\ Len(up') <= Len(up)
    BY DEF vars
  <2>1. up \in Seq(Unit)
    BY TypesSplit DEF ClientInv, ServerTypes
  <2>2. mpc # "send"
    BY DEF ClientInv, LockBySender
  <2>3. sent' = sent
    <3>1. CASE Main \/ (\E l \in Typed : UserTypes(l)) \/ UserEof \/ ClientKilled
      BY <3>1, <2>2
         DEF Main, client_init_fails, client_init, client_connect, resolve_credentials,
             StartReceiver, SendStarts, SendRefused, client_send_all, SendFails, SendKilled,
             ClientKilled, Die, LoopTest, StopRunning, ShutSocket, JoinReceiver,
             client_disconnect, client_destroy, UserTypes, UserEof
    <3>2. CASE Receiver
      BY <3>2 DEF Receiver, ReceiverTest, ReceiverFd, client_recv_line, RecvFails,
                  ReceiverStops, display_server_message
    <3>3. CASE ServerHandler \/ Push \/ KickTells \/ KickCuts \/ ServerEnds
      BY <3>3, ServerLeavesClient
    <3> QED BY <3>1, <3>2, <3>3 DEF Next
  <2>4. up' = up \/ up' = <<>> \/ (up # <<>> /\ up' = Tail(up))
    <3>1. CASE Main \/ (\E l \in Typed : UserTypes(l)) \/ UserEof \/ ClientKilled
      BY <3>1, <2>2
         DEF Main, client_init_fails, client_init, client_connect, resolve_credentials,
             StartReceiver, SendStarts, SendRefused, client_send_all, Up, SendFails, SendKilled,
             ClientKilled, Die, LoopTest, StopRunning, ShutSocket, JoinReceiver,
             client_disconnect, client_destroy, UserTypes, UserEof
    <3>2. CASE Receiver
      BY <3>2 DEF Receiver, ReceiverTest, ReceiverFd, client_recv_line, RecvFails,
                  ReceiverStops, display_server_message
    <3>3. CASE ServerHandler \/ Push \/ KickTells \/ KickCuts \/ ServerEnds
      BY <3>3 DEF ServerHandler, server_recv_line, RecvEof, RecvError, Reply, ReplyFails, HandlerNext,
                  HandlerCloses, Push, KickTells, KickCuts, ServerEnds
    <3> QED BY <3>1, <3>2, <3>3 DEF Next
  <2>5. Len(up') <= Len(up)
    BY <2>1, <2>4
  <2> QED BY <2>3, <2>5
<1> QED BY <1>1, ClientInvariant, PTL DEF Spec, QuietAfterStop

-----------------------------------------------------------------------------
(* The lines.  Every unit that is under way has its place: the stream,     *)
(* what is in the socket and then what the sender still has of its line,   *)
(* begins where the server has come to, goes on unit by unit and line by   *)
(* line, and ends where the next line will begin.                          *)

\* The n-th line of S and the place, line and position in it, of a unit.
LineOf(S, n) == Text(n, S[n])
PosIn(S, u) == IF u[2] = 0 THEN S[u[1]].size ELSE u[2]
Place(S, u) == <<u[1], PosIn(S, u)>>

\* The place after a unit: in its line, or where the next line begins.
After(S, u) ==
    IF PosIn(S, u) < Len(LineOf(S, u[1])) THEN <<u[1], PosIn(S, u) + 1>> ELSE <<u[1] + 1, 1>>

UnitOf(S, u) ==
    /\ u[1] \in 1..Len(S)
    /\ PosIn(S, u) \in 1..Len(LineOf(S, u[1]))
    /\ u = LineOf(S, u[1])[PosIn(S, u)]

\* The units s of lines in S follow each other from place a on.
Chain(s, S, a) ==
    \A i \in 1..Len(s) :
       /\ UnitOf(S, s[i])
       /\ Place(S, s[i]) = IF i = 1 THEN a ELSE After(S, s[i - 1])

\* They end where a line after those of S would begin.
Complete(s, S, a) ==
    IF s = <<>> THEN a = <<Len(S) + 1, 1>> ELSE After(S, s[Len(s)]) = <<Len(S) + 1, 1>>

\* Nothing more can come through: the server has ended the session, or the client
\* has died.
Broken == status \in {"sigpipe", "killed"} \/ kick = "cut"
Severed == Broken \/ hpc = "done"

Stream == IF Severed THEN up ELSE up \o out
Reached == <<Len(heard) + 1, pos + 1>>

StreamRight ==
    /\ Chain(Stream, sent, Reached)
    /\ ~Severed => Complete(Stream, sent, Reached)

\* line[] holds the first part of the next line.
BufferRight ==
    pos > 0 =>
       /\ Len(heard) < Len(sent)
       /\ pos < Len(LineOf(sent, Len(heard) + 1))
       /\ \A k \in 1..pos : buf[k] = LineOf(sent, Len(heard) + 1)[k]

\* One text that the server has executed.
HeardRight(i) ==
    LET whole == Trimmed(LineOf(sent, i))
    IN  \/ heard[i] = whole
        \/ /\ i = Len(heard) /\ up = <<>> /\ pos = 0 /\ Broken
           /\ \E k \in 1..Len(whole) :
                 Len(heard[i]) >= k /\ SubSeq(heard[i], 1, k) = SubSeq(whole, 1, k)

HeardInv ==
    /\ Len(heard) <= Len(sent)
    /\ \A i \in 1..Len(heard) : HeardRight(i)

\* A line is in out[] only while it is sent; the socket is shut after the last
\* send; and only a server that is gone answers with a reset.
SenderPhase ==
    /\ mpc # "send" => out = <<>>
    /\ shut /\ ~Broken => mpc \in {"join", "disc", "destroy", "over"}
    /\ reset => Severed

LineInv ==
    /\ StreamRight
    /\ BufferRight
    /\ HeardInv
    /\ SenderPhase

\* The n-th line as it is sent has one unit for each of its size that fits.
LEMMA LineUnits ==
    ASSUME NEW n \in Nat, NEW l \in ClientLine
    PROVE  /\ Len(Text(n, l)) = IF l.size > LineCap THEN LineCap ELSE l.size
           /\ Len(Text(n, l)) \in 1..LineCap
           /\ l.size \in Nat \ {0}
           /\ \A k \in 1..Len(Text(n, l)) : Text(n, l)[k] = <<n, IF k = l.size THEN 0 ELSE k>>
<1> DEFINE size == IF l.size > LineCap THEN LineCap ELSE l.size
<1>1. size \in 1..LineCap /\ l.size \in Nat \ {0}
  BY Caps DEF ClientLine
<1>2. Text(n, l) = [k \in 1..size |-> <<n, IF k = l.size THEN 0 ELSE k>>]
  BY DEF Text
<1> HIDE DEF size
<1>3. Len(Text(n, l)) = size
  BY <1>1, <1>2
<1>4. \A k \in 1..size : Text(n, l)[k] = <<n, IF k = l.size THEN 0 ELSE k>>
  BY <1>2
<1> QED BY <1>1, <1>3, <1>4 DEF size

\* A unit of a line tells its place.
LEMMA UnitAt ==
    ASSUME NEW S \in Seq(ClientLine), NEW n \in 1..Len(S), NEW k \in 1..Len(LineOf(S, n))
    PROVE  /\ LineOf(S, n)[k] = <<n, IF k = S[n].size THEN 0 ELSE k>>
           /\ UnitOf(S, LineOf(S, n)[k])
           /\ Place(S, LineOf(S, n)[k]) = <<n, k>>
           /\ PosIn(S, LineOf(S, n)[k]) = k
<1> DEFINE u == LineOf(S, n)[k]
<1>1. S[n] \in ClientLine /\ n \in Nat
  OBVIOUS
<1>2. u = <<n, IF k = S[n].size THEN 0 ELSE k>>
  BY <1>1, LineUnits DEF LineOf
<1>3. k \in Nat \ {0}
  BY <1>1, LineUnits DEF LineOf
<1>4. u[1] = n /\ u[2] = IF k = S[n].size THEN 0 ELSE k
  BY <1>2
<1>5. PosIn(S, u) = k
  BY <1>3, <1>4 DEF PosIn
<1>6. UnitOf(S, u)
  BY <1>4, <1>5 DEF UnitOf
<1>7. Place(S, u) = <<n, k>>
  BY <1>4, <1>5 DEF Place
<1> QED BY <1>2, <1>5, <1>6, <1>7

\* A further line changes nothing for those before it.
LEMMA UnitKept ==
    ASSUME NEW S \in Seq(ClientLine), NEW l \in ClientLine, NEW u, UnitOf(S, u)
    PROVE  /\ UnitOf(Append(S, l), u)
           /\ Place(Append(S, l), u) = Place(S, u)
           /\ After(Append(S, l), u) = After(S, u)
<1>1. u[1] \in 1..Len(S)
  BY DEF UnitOf
<1>2. /\ Append(S, l)[u[1]] = S[u[1]]
      /\ u[1] \in 1..Len(Append(S, l))
  BY <1>1
<1> QED BY <1>2 DEF UnitOf, Place, PosIn, After, LineOf

LEMMA ChainKept ==
    ASSUME NEW S \in Seq(ClientLine), NEW l \in ClientLine,
           NEW s \in Seq(Unit), NEW a, Chain(s, S, a)
    PROVE  Chain(s, Append(S, l), a)
<1> SUFFICES ASSUME NEW i \in 1..Len(s)
             PROVE  /\ UnitOf(Append(S, l), s[i])
                    /\ Place(Append(S, l), s[i]) =
                          IF i = 1 THEN a ELSE After(Append(S, l), s[i - 1])
  BY DEF Chain
<1>1. /\ UnitOf(S, s[i])
      /\ Place(S, s[i]) = IF i = 1 THEN a ELSE After(S, s[i - 1])
  BY DEF Chain
<1>2. CASE i = 1
  BY <1>1, <1>2, UnitKept
<1>3. CASE i # 1
  <2>1. i - 1 \in 1..Len(s)
    BY <1>3
  <2>2. UnitOf(S, s[i - 1])
    BY <2>1 DEF Chain
  <2> QED BY <1>1, <1>3, <2>2, UnitKept
<1> QED BY <1>2, <1>3

\* The first part of a chain is one.
LEMMA ChainPrefix ==
    ASSUME NEW S, NEW s \in Seq(Unit), NEW t \in Seq(Unit), NEW a, Chain(s \o t, S, a)
    PROVE  Chain(s, S, a)
<1> SUFFICES ASSUME NEW i \in 1..Len(s)
             PROVE  /\ UnitOf(S, s[i])
                    /\ Place(S, s[i]) = IF i = 1 THEN a ELSE After(S, s[i - 1])
  BY DEF Chain
<1>1. i \in 1..Len(s \o t) /\ (s \o t)[i] = s[i]
  OBVIOUS
<1>2. i # 1 => (s \o t)[i - 1] = s[i - 1]
  OBVIOUS
<1> QED BY <1>1, <1>2 DEF Chain

\* The server takes the first unit.
LEMMA ChainTail ==
    ASSUME NEW S, NEW s \in Seq(Unit), s # <<>>, NEW a, Chain(s, S, a)
    PROVE  /\ Chain(Tail(s), S, After(S, Head(s)))
           /\ UnitOf(S, Head(s)) /\ Place(S, Head(s)) = a
           /\ Complete(s, S, a) => Complete(Tail(s), S, After(S, Head(s)))
<1>1. 1 \in 1..Len(s) /\ Head(s) = s[1]
  OBVIOUS
<1>2. UnitOf(S, Head(s)) /\ Place(S, Head(s)) = a
  BY <1>1 DEF Chain
<1>t. /\ Tail(s) \in Seq(Unit) /\ Len(Tail(s)) = Len(s) - 1
      /\ \A i \in 1..Len(Tail(s)) : Tail(s)[i] = s[i + 1]
  OBVIOUS
<1>3. Chain(Tail(s), S, After(S, Head(s)))
  <2> SUFFICES ASSUME NEW i \in 1..Len(Tail(s))
               PROVE  /\ UnitOf(S, Tail(s)[i])
                      /\ Place(S, Tail(s)[i]) =
                            IF i = 1 THEN After(S, Head(s)) ELSE After(S, Tail(s)[i - 1])
    BY DEF Chain
  <2>1. i + 1 \in 1..Len(s) /\ i + 1 # 1 /\ (i + 1) - 1 = i
    BY <1>t
  <2>2. /\ UnitOf(S, s[i + 1])
        /\ Place(S, s[i + 1]) = After(S, s[i])
    BY <2>1 DEF Chain
  <2>3. Tail(s)[i] = s[i + 1]
    BY <1>t
  <2>4. i # 1 => Tail(s)[i - 1] = s[i]
    <3> SUFFICES ASSUME i # 1 PROVE Tail(s)[i - 1] = s[i]
      OBVIOUS
    <3>1. i - 1 \in 1..Len(Tail(s)) /\ (i - 1) + 1 = i
      OBVIOUS
    <3> QED BY <1>t, <3>1
  <2> QED BY <1>1, <2>2, <2>3, <2>4
<1>4. ASSUME Complete(s, S, a)
      PROVE  Complete(Tail(s), S, After(S, Head(s)))
  <2>1. After(S, s[Len(s)]) = <<Len(S) + 1, 1>>
    BY <1>4 DEF Complete
  <2>2. CASE Len(s) = 1
    <3>1. Tail(s) = <<>>
      <4>1. Len(Tail(s)) = 0
        BY <1>t, <2>2
      <4> QED BY <1>t, <4>1, EmptySeq
    <3>2. s[Len(s)] = Head(s)
      BY <1>1, <2>2
    <3> QED BY <2>1, <3>1, <3>2 DEF Complete
  <2>3. CASE Len(s) # 1
    <3>1. Len(Tail(s)) \in 1..Len(Tail(s)) /\ Len(Tail(s)) + 1 = Len(s)
      <4>1. Len(s) \in Nat /\ Len(s) # 0
        BY EmptySeq
      <4> QED BY <1>t, <2>3, <4>1
    <3>2. Tail(s)[Len(Tail(s))] = s[Len(s)]
      BY <1>t, <3>1
    <3>3. Tail(s) # <<>>
      <4> SUFFICES ASSUME Tail(s) = <<>> PROVE FALSE
        OBVIOUS
      <4>1. Len(Tail(s)) = 0
        BY EmptySeq
      <4>2. 0 \in 1..0
        BY <3>1, <4>1, Zenon
      <4> QED BY <4>2
    <3> QED BY <2>1, <3>2, <3>3 DEF Complete
  <2> QED BY <2>2, <2>3
<1> QED BY <1>2, <1>3, <1>4

\* A new line is put behind a complete chain.
LEMMA ChainGrows ==
    ASSUME NEW S \in Seq(ClientLine), Len(S) <= MaxTyped, NEW l \in ClientLine,
           NEW s \in Seq(Unit), NEW a, Chain(s, S, a), Complete(s, S, a)
    PROVE  /\ Chain(s \o Text(Len(S) + 1, l), Append(S, l), a)
           /\ Complete(s \o Text(Len(S) + 1, l), Append(S, l), a)
<1> DEFINE n == Len(S) + 1
           t == Text(n, l)
           R == Append(S, l)
           L == Len(t)
           st == s \o t
<1>1. n \in 0..(MaxTyped + 1) /\ n \in Nat
  BY Caps
<1>2. t \in Seq(Unit) /\ L \in 1..LineCap
  BY <1>1, TextFits
<1>3. R \in Seq(ClientLine) /\ Len(R) = n /\ R[n] = l /\ n \in 1..Len(R)
  OBVIOUS
<1>4. LineOf(R, n) = t
  BY <1>3 DEF LineOf
<1>5. \A k \in 1..L : UnitOf(R, t[k]) /\ Place(R, t[k]) = <<n, k>> /\ PosIn(R, t[k]) = k
                      /\ t[k][1] = n
  <2> SUFFICES ASSUME NEW k \in 1..L
               PROVE  UnitOf(R, t[k]) /\ Place(R, t[k]) = <<n, k>> /\ PosIn(R, t[k]) = k
                      /\ t[k][1] = n
    OBVIOUS
  <2> HIDE DEF t, R, n
  <2>1. k \in 1..Len(LineOf(R, n))
    BY <1>4
  <2>2. /\ UnitOf(R, LineOf(R, n)[k]) /\ Place(R, LineOf(R, n)[k]) = <<n, k>>
        /\ PosIn(R, LineOf(R, n)[k]) = k
        /\ LineOf(R, n)[k] = <<n, IF k = R[n].size THEN 0 ELSE k>>
    BY <1>3, <2>1, UnitAt
  <2> QED BY <1>4, <2>2
<1>6. \A k \in 1..L : After(R, t[k]) = IF k < L THEN <<n, k + 1>> ELSE <<n + 1, 1>>
  <2> HIDE DEF t, R, n
  <2> QED BY <1>4, <1>5 DEF After
<1>7. Chain(s, R, a)
  BY ChainKept
<1> HIDE DEF t, R, L
<1>8. /\ Len(st) = Len(s) + L
      /\ \A i \in 1..Len(s) : st[i] = s[i]
      /\ \A k \in 1..L : st[Len(s) + k] = t[k]
  BY <1>2 DEF L
<1>9. CASE s = <<>>
  <2>0. Len(s) = 0
    BY <1>9
  <2>s. \A k \in 1..L : st[k] = t[k]
    <3> SUFFICES ASSUME NEW k \in 1..L PROVE st[k] = t[k]
      OBVIOUS
    <3> HIDE DEF st
    <3>1. Len(s) + k = k
      BY <2>0
    <3> QED BY <1>8, <3>1
  <2>1. a = <<n, 1>>
    BY <1>9 DEF Complete
  <2>2. Chain(st, R, a)
    <3> SUFFICES ASSUME NEW i \in 1..Len(st)
                 PROVE  /\ UnitOf(R, st[i])
                        /\ Place(R, st[i]) = IF i = 1 THEN a ELSE After(R, st[i - 1])
      BY DEF Chain
    <3> HIDE DEF st
    <3>0. i \in 1..L
      BY <1>2, <1>8, <2>0
    <3>1. CASE i = 1
      BY <1>5, <2>1, <2>s, <3>0, <3>1
    <3>2. CASE i # 1
      <4>1. i - 1 \in 1..L /\ i - 1 < L /\ (i - 1) + 1 = i
        BY <1>2, <3>0, <3>2
      <4>2. After(R, t[i - 1]) = <<n, i>>
        BY <1>6, <4>1
      <4> QED BY <1>5, <2>s, <3>0, <3>2, <4>1, <4>2
    <3> QED BY <3>1, <3>2
  <2>3. Complete(st, R, a)
    <3> HIDE DEF st
    <3>1. Len(st) = L /\ L \in 1..L /\ st[L] = t[L]
      BY <1>2, <1>8, <2>0, <2>s
    <3>2. st # <<>>
      BY <1>2, <3>1
    <3>3. After(R, st[Len(st)]) = <<n + 1, 1>>
      <4>1. ~(L < L)
        BY <1>2, Caps
      <4>2. After(R, t[L]) = IF L < L THEN <<n, L + 1>> ELSE <<n + 1, 1>>
        BY <1>6, <3>1
      <4> QED BY <3>1, <4>1, <4>2
    <3> QED BY <1>3, <3>2, <3>3 DEF Complete
  <2> QED BY <2>2, <2>3 DEF t, R
<1>10. CASE s # <<>>
  <2>0. Len(s) \in 1..Len(s)
    BY <1>10
  <2>1. After(S, s[Len(s)]) = <<n, 1>> /\ UnitOf(S, s[Len(s)])
    BY <1>10, <2>0 DEF Complete, Chain
  <2>2. After(R, s[Len(s)]) = <<n, 1>>
    BY <2>1, UnitKept DEF R
  <2>3. Chain(st, R, a)
    <3> SUFFICES ASSUME NEW i \in 1..Len(st)
                 PROVE  /\ UnitOf(R, st[i])
                        /\ Place(R, st[i]) = IF i = 1 THEN a ELSE After(R, st[i - 1])
      BY DEF Chain
    <3>1. CASE i <= Len(s)
      <4>1. i \in 1..Len(s) /\ st[i] = s[i] /\ (i # 1 => st[i - 1] = s[i - 1])
        BY <1>8, <3>1
      <4> QED BY <1>7, <4>1 DEF Chain
    <3>2. CASE i = Len(s) + 1
      <4>1. st[i] = t[1] /\ st[i - 1] = s[Len(s)] /\ i # 1 /\ 1 \in 1..L
        BY <1>2, <1>8, <2>0, <3>2
      <4> QED BY <1>5, <2>2, <4>1
    <3>3. CASE i > Len(s) + 1
      <4> DEFINE k == i - Len(s)
      <4>1. k \in 1..L /\ k - 1 \in 1..L /\ i = Len(s) + k /\ i - 1 = Len(s) + (k - 1) /\ i # 1
        BY <1>2, <1>8, <3>3
      <4>2. st[i] = t[k] /\ st[i - 1] = t[k - 1]
        BY <1>8, <4>1
      <4> HIDE DEF k
      <4>3. Place(R, t[k]) = <<n, k>>
        BY <1>5, <4>1
      <4>4. After(R, t[k - 1]) = <<n, k>>
        <5>1. k - 1 < L /\ (k - 1) + 1 = k
          BY <1>2, <4>1
        <5> QED BY <1>6, <4>1, <5>1
      <4> QED BY <1>5, <4>1, <4>2, <4>3, <4>4
    <3> QED BY <3>1, <3>2, <3>3
  <2>4. Complete(st, R, a)
    <3> HIDE DEF st
    <3>1. Len(st) = Len(s) + L /\ L \in 1..L /\ st[Len(st)] = t[L]
      BY <1>2, <1>8
    <3>2. st # <<>>
      BY <1>2, <3>1
    <3>3. After(R, st[Len(st)]) = <<n + 1, 1>>
      <4>1. ~(L < L)
        BY <1>2, Caps
      <4>2. After(R, t[L]) = IF L < L THEN <<n, L + 1>> ELSE <<n + 1, 1>>
        BY <1>6, <3>1
      <4> QED BY <3>1, <4>1, <4>2
    <3> QED BY <1>3, <3>2, <3>3 DEF Complete
  <2> QED BY <2>3, <2>4 DEF t, R
<1> QED BY <1>9, <1>10

\* server_recv_line() ends a line exactly where it ended when it was sent.
LEMMA DoneAtEnd ==
    ASSUME NEW S \in Seq(ClientLine), NEW n \in 1..Len(S), NEW p \in 1..Len(LineOf(S, n))
    PROVE  LineDone(p, LineOf(S, n)[p]) <=> p = Len(LineOf(S, n))
<1> DEFINE u == LineOf(S, n)[p]
           L == Len(LineOf(S, n))
<1>1. S[n] \in ClientLine /\ n \in Nat /\ n > 0
  OBVIOUS
<1>2. /\ L = IF S[n].size > LineCap THEN LineCap ELSE S[n].size
      /\ L \in 1..LineCap /\ S[n].size \in Nat \ {0}
  BY <1>1, LineUnits DEF LineOf
<1>3. u = <<n, IF p = S[n].size THEN 0 ELSE p>>
  BY UnitAt
<1>4. u[1] = n /\ u[2] = IF p = S[n].size THEN 0 ELSE p
  BY <1>3
<1> HIDE DEF u, L
<1>5. p \in 1..L
  BY DEF L
<1>6. Newline(u) <=> p = S[n].size
  BY <1>1, <1>2, <1>4, <1>5, Caps DEF Newline
<1>7. LineDone(p, u) <=> p = L
  BY <1>2, <1>5, <1>6, Caps DEF LineDone
<1> QED BY <1>7 DEF u, L

\* Where the string in a buffer ends.
LEMMA CStringEnds ==
    ASSUME NEW b \in [1..(LineCap + 1) -> Unit], NEW m \in 1..(LineCap + 1),
           b[m] = Nul, \A k \in 1..(m - 1) : b[k] # Nul
    PROVE  CString(b) = SubSeq(b, 1, m - 1)
<1> DEFINE ends0 == {i \in 1..Len(b) : b[i] = Nul}
           least == CHOOSE i \in ends0 : \A j \in ends0 : i <= j
<1>1. Len(b) = LineCap + 1 /\ LineCap \in Nat
  BY Caps
<1>2. m \in ends0
  BY <1>1
<1>3. \A j \in ends0 : m <= j
  <2> SUFFICES ASSUME NEW j \in ends0 PROVE m <= j
    OBVIOUS
  <2>1. j \in 1..(LineCap + 1) /\ b[j] = Nul
    BY <1>1
  <2>2. ~(j \in 1..(m - 1))
    BY <2>1
  <2> QED BY <1>1, <2>1, <2>2
<1>4. least \in ends0 /\ \A j \in ends0 : least <= j
  BY <1>2, <1>3
<1>5. ends0 \subseteq Nat
  BY <1>1
<1>6. CString(b) = SubSeq(b, 1, least - 1)
  BY <1>2 DEF CString
<1> HIDE DEF ends0, least
<1>7. least = m
  <2>1. least \in Nat /\ m \in Nat /\ least <= m /\ m <= least
    BY <1>2, <1>3, <1>4, <1>5
  <2> QED BY <2>1
<1> QED BY <1>6, <1>7

\* The text of a line that has been received whole.
LEMMA WholeString ==
    ASSUME NEW b \in [1..(LineCap + 1) -> Unit],
           NEW S \in Seq(ClientLine), Len(S) <= MaxTyped + 1, NEW n \in 1..Len(S),
           NEW p \in 1..LineCap, p = Len(LineOf(S, n)),
           \A k \in 1..(p - 1) : b[k] = LineOf(S, n)[k]
    PROVE  CString(Terminated(b, p, LineOf(S, n)[p])) = Trimmed(LineOf(S, n))
<1> DEFINE t == LineOf(S, n)
           u == t[p]
           c == Terminated(b, p, u)
<1>1. n \in 0..(MaxTyped + 1) /\ S[n] \in ClientLine /\ n > 0
  BY Caps
<1>2. t \in Seq(Unit) /\ Len(t) = p /\ u \in Unit
  <2>1. t \in Seq(Unit)
    BY <1>1, TextFits DEF LineOf
  <2> QED BY <2>1
<1>3. \A k \in 1..p : t[k][1] = n /\ t[k] # Nul
  <2> SUFFICES ASSUME NEW k \in 1..p PROVE t[k][1] = n /\ t[k] # Nul
    OBVIOUS
  <2>1. t[k] = <<n, IF k = S[n].size THEN 0 ELSE k>>
    BY UnitAt
  <2>2. t[k][1] = n
    BY <2>1
  <2>3. Nul[1] = 0
    BY DEF Nul
  <2> QED BY <1>1, <2>2, <2>3
<1> HIDE DEF t, u, c
<1>4. c \in [1..(LineCap + 1) -> Unit]
  BY <1>2, TerminatedFits DEF c
<1>5. /\ \A k \in 1..(p - 1) : c[k] = b[k]
      /\ c[p] = IF Newline(u) THEN Nul ELSE u
      /\ c[p + 1] = Nul
  BY <1>2, Caps DEF c, Terminated
<1>6. \A k \in 1..(p - 1) : c[k] = t[k] /\ c[k] # Nul
  BY <1>3, <1>5 DEF t
<1>c. c \in Seq(Unit) /\ Len(c) = LineCap + 1 /\ LineCap \in Nat /\ p <= LineCap /\ p >= 1
  BY <1>4, Caps
<1>t. t # <<>> /\ t[Len(t)] = u
  <2>1. Len(t) >= 1
    BY <1>2, <1>c
  <2> QED BY <1>2, <2>1, EmptySeq DEF u
<1>7. CASE Newline(u)
  <2>1. CString(c) = SubSeq(c, 1, p - 1)
    <3>1. p \in 1..(LineCap + 1) /\ c[p] = Nul
      BY <1>5, <1>7, <1>c
    <3> QED BY <1>4, <1>6, <3>1, CStringEnds
  <2>2. Trimmed(t) = SubSeq(t, 1, p - 1)
    BY <1>2, <1>7, <1>t DEF Trimmed
  <2>3. SubSeq(c, 1, p - 1) = SubSeq(t, 1, p - 1)
    BY <1>2, <1>6, <1>c
  <2> QED BY <2>1, <2>2, <2>3 DEF c, t, u
<1>8. CASE ~Newline(u)
  <2>0. c[p] = t[p] /\ t[p] # Nul
    BY <1>3, <1>5, <1>8, <1>c DEF u
  <2>1. CString(c) = SubSeq(c, 1, p)
    <3>1. p + 1 \in 1..(LineCap + 1) /\ c[p + 1] = Nul
      BY <1>5, <1>c
    <3>2. \A k \in 1..((p + 1) - 1) : c[k] # Nul
      <4> SUFFICES ASSUME NEW k \in 1..((p + 1) - 1) PROVE c[k] # Nul
        OBVIOUS
      <4>1. k = p \/ k \in 1..(p - 1)
        BY <1>c
      <4> QED BY <1>6, <2>0, <4>1
    <3>3. CString(c) = SubSeq(c, 1, (p + 1) - 1)
      BY <1>4, <3>1, <3>2, CStringEnds
    <3>4. (p + 1) - 1 = p
      BY <1>c
    <3> QED BY <3>3, <3>4
  <2>2. Trimmed(t) = t
    BY <1>8, <1>t DEF Trimmed
  <2>3. SubSeq(c, 1, p) = t
    <3>1. \A k \in 1..p : c[k] = t[k]
      <4> SUFFICES ASSUME NEW k \in 1..p PROVE c[k] = t[k]
        OBVIOUS
      <4>1. k = p \/ k \in 1..(p - 1)
        BY <1>c
      <4> QED BY <1>6, <2>0, <4>1
    <3>2. /\ SubSeq(c, 1, p) \in Seq(Unit) /\ Len(SubSeq(c, 1, p)) = p
          /\ \A k \in 1..p : SubSeq(c, 1, p)[k] = c[k]
      BY <1>c
    <3> DEFINE x == SubSeq(c, 1, p)
    <3> HIDE DEF x
    <3>3. x \in Seq(Unit) /\ Len(x) = p /\ \A k \in 1..p : x[k] = t[k]
      BY <3>1, <3>2 DEF x
    <3>4. x = t
      BY <1>2, <3>3, SeqEqual
    <3> QED BY <3>4 DEF x
  <2> QED BY <2>1, <2>2, <2>3 DEF c, t, u
<1> QED BY <1>7, <1>8

\* The text of a line of which the server has received the first p units starts as
\* the line does, whatever else line[] still holds.
LEMMA PartString ==
    ASSUME NEW b \in [1..(LineCap + 1) -> Unit],
           NEW S \in Seq(ClientLine), Len(S) <= MaxTyped + 1, NEW n \in 1..Len(S),
           NEW p \in 1..LineCap, p < Len(LineOf(S, n)),
           \A k \in 1..p : b[k] = LineOf(S, n)[k]
    PROVE  \E k \in 1..Len(Trimmed(LineOf(S, n))) :
              /\ Len(CString(b)) >= k
              /\ SubSeq(CString(b), 1, k) = SubSeq(Trimmed(LineOf(S, n)), 1, k)
<1> DEFINE t == LineOf(S, n)
           w == Trimmed(t)
           x == CString(b)
           ends0 == {i \in 1..Len(b) : b[i] = Nul}
           least == CHOOSE i \in ends0 : \A j \in ends0 : i <= j
<1>1. n \in 0..(MaxTyped + 1) /\ S[n] \in ClientLine /\ n > 0
  BY Caps
<1>2. t \in Seq(Unit) /\ Len(t) \in 2..LineCap
  <2>1. t \in Seq(Unit) /\ Len(t) \in 1..LineCap
    BY <1>1, TextFits DEF LineOf
  <2> QED BY <2>1, Caps
<1>3. b[1] = t[1] /\ t[1] # Nul
  <2>1. t[1] = <<n, IF 1 = S[n].size THEN 0 ELSE 1>>
    BY <1>2, UnitAt
  <2>2. t[1][1] = n
    BY <2>1
  <2>3. Nul[1] = 0
    BY DEF Nul
  <2> QED BY <1>1, <2>2, <2>3
<1>b. b \in Seq(Unit) /\ Len(b) = LineCap + 1 /\ LineCap \in Nat /\ LineCap >= 2
  BY Caps
<1>4. w \in Seq(Unit) /\ Len(w) >= 1 /\ w[1] = t[1]
  <2>1. CASE w = t
    BY <1>2, <2>1
  <2>2. CASE w = SubSeq(t, 1, Len(t) - 1)
    <3>1. Len(t) - 1 \in 1..Len(t)
      BY <1>2
    <3> HIDE DEF t, w
    <3> QED BY <1>2, <2>2, <3>1
  <2> QED BY <2>1, <2>2 DEF Trimmed
<1>5. x \in Seq(Unit) /\ Len(x) >= 1 /\ x[1] = b[1]
  <2>1. CASE ends0 = {}
    BY <1>b, <2>1 DEF CString
  <2>2. CASE ends0 # {}
    <3>1. ends0 \subseteq Nat
      BY <1>b
    <3>2. least \in ends0
      BY <2>2, <3>1, LeastNat
    <3>3. least \in 1..(LineCap + 1) /\ b[least] = Nul
      BY <1>b, <3>2
    <3>4. x = SubSeq(b, 1, least - 1)
      BY <2>2 DEF CString
    <3> HIDE DEF least, ends0, x, t
    <3>5. least # 1
      BY <1>3, <3>3
    <3>6. least - 1 \in 1..Len(b)
      BY <1>b, <3>3, <3>5
    <3> QED BY <1>b, <3>4, <3>6
  <2> QED BY <2>1, <2>2
<1> HIDE DEF t, w, x
<1>6. ASSUME NEW s \in Seq(Unit), Len(s) >= 1
      PROVE  SubSeq(s, 1, 1) \in Seq(Unit) /\ Len(SubSeq(s, 1, 1)) = 1 /\ SubSeq(s, 1, 1)[1] = s[1]
  BY <1>6
<1>7. SubSeq(x, 1, 1) = SubSeq(w, 1, 1)
  <2> DEFINE y == SubSeq(x, 1, 1)
             z == SubSeq(w, 1, 1)
  <2>1. /\ y \in Seq(Unit) /\ Len(y) = 1 /\ y[1] = t[1]
        /\ z \in Seq(Unit) /\ Len(z) = 1 /\ z[1] = t[1]
    BY <1>3, <1>4, <1>5, <1>6
  <2> HIDE DEF y, z
  <2>2. \A i \in 1..1 : i = 1
    OBVIOUS
  <2>3. y = z
    BY <2>1, <2>2, SeqEqual
  <2> QED BY <2>3 DEF y, z
<1>8. 1 \in 1..Len(w) /\ Len(x) >= 1
  BY <1>4, <1>5
<1> QED BY <1>7, <1>8 DEF t, w, x

-----------------------------------------------------------------------------
(* Every step keeps the lines.                                             *)

\* What the proofs below use of the types.
LEMMA LineTypes ==
    ASSUME ClientInv
    PROVE  /\ up \in Seq(Unit) /\ out \in Seq(Unit) /\ sent \in Seq(ClientLine)
           /\ Len(sent) <= MaxTyped + 1 /\ heard \in Seq(Seq(Unit))
           /\ pos \in 0..(LineCap - 1) /\ buf \in [1..(LineCap + 1) -> Unit]
<1>1. ClientTypes /\ ServerTypes /\ LinesCounted
  BY TypesSplit DEF ClientInv
<1>2. Len(sent) <= MaxTyped + 1
  BY <1>1, Caps DEF ClientTypes, LinesCounted
<1> QED BY <1>1, <1>2 DEF ClientTypes, ServerTypes

LEMMA LineInit == Init => LineInv
<1> SUFFICES ASSUME Init PROVE LineInv
  OBVIOUS
<1>1. Stream = <<>> /\ Reached = <<1, 1>> /\ ~Severed /\ ~Broken
  BY DEF Init, Stream, Reached, Severed, Broken
<1>2. StreamRight
  <2>1. Chain(<<>>, sent, Reached)
    BY DEF Chain
  <2>2. Complete(<<>>, sent, Reached)
    BY <1>1 DEF Complete, Init
  <2> QED BY <1>1, <2>1, <2>2 DEF StreamRight
<1> QED BY <1>2 DEF LineInv, BufferRight, HeardInv, SenderPhase, Init

\* The stream does not change, or what the sender has of it is lost.
LEMMA StreamFrame ==
    ASSUME ClientInv, LineInv, UNCHANGED <<up, sent, heard, buf, pos>>,
           Broken => Broken', Severed => Severed', Severed' \/ out' = out
    PROVE  StreamRight' /\ BufferRight' /\ HeardInv'
<1>1. BufferRight'
  BY DEF LineInv, BufferRight
<1>2. HeardInv'
  BY DEF LineInv, HeardInv, HeardRight
<1>3. StreamRight'
  <2>1. Reached' = Reached
    BY DEF Reached
  <2>2. Chain(Stream, sent, Reached) /\ (~Severed => Complete(Stream, sent, Reached))
    BY DEF LineInv, StreamRight
  <2>3. CASE Severed'
    <3>1. Chain(up, sent, Reached)
      <4>1. CASE Severed
        BY <2>2, <4>1 DEF Stream
      <4>2. CASE ~Severed
        <5>1. Chain(up \o out, sent, Reached)
          BY <2>2, <4>2 DEF Stream
        <5> QED BY <5>1, LineTypes, ChainPrefix
      <4> QED BY <4>1, <4>2
    <3>2. Stream' = up
      BY <2>3 DEF Stream
    <3> QED BY <2>1, <2>3, <3>1, <3>2 DEF StreamRight
  <2>4. CASE ~Severed'
    <3>1. Stream' = Stream /\ ~Severed
      BY <2>4 DEF Stream
    <3> QED BY <2>1, <2>2, <3>1 DEF StreamRight
  <2> QED BY <2>3, <2>4
<1> QED BY <1>1, <1>2, <1>3

\* The main thread begins a line.
LEMMA BeginsLine ==
    ASSUME ClientInv, LineInv, SendStarts
    PROVE  StreamRight' /\ BufferRight' /\ HeardInv'
<1>t. /\ up \in Seq(Unit) /\ sent \in Seq(ClientLine) /\ cur \in ClientLine
      /\ heard \in Seq(Seq(Unit)) /\ pos \in Nat /\ Len(sent) <= MaxTyped
  <2>1. ClientTypes /\ ServerTypes /\ LinesCounted
    BY TypesSplit DEF ClientInv
  <2>2. typed <= MaxTyped /\ typed \in Nat
    BY <2>1, Caps DEF ClientTypes
  <2>3. Len(sent) <= typed
    BY <2>1 DEF SendStarts, Up, LinesCounted
  <2>4. Len(sent) <= MaxTyped
    BY <2>1, <2>2, <2>3, Caps DEF ClientTypes
  <2> QED BY <2>1, <2>4, LineTypes DEF ClientTypes
<1>1. /\ sent' = Append(sent, cur) /\ out' = Text(Len(sent) + 1, cur) /\ out = <<>>
      /\ UNCHANGED <<up, heard, buf, pos, status, kick, hpc>>
  BY DEF SendStarts, Up, Go, LineInv, SenderPhase
<1>2. Broken' = Broken /\ Severed' = Severed /\ Reached' = Reached
  BY <1>1 DEF Broken, Severed, Reached
<1>3. Stream = up
  <2>1. up \o <<>> = up
    BY <1>t, ConcatEmptySeq
  <2> QED BY <1>1, <2>1 DEF Stream
<1>4. Chain(up, sent, Reached) /\ (~Severed => Complete(up, sent, Reached))
  BY <1>3 DEF LineInv, StreamRight
<1>5. StreamRight'
  <2>1. CASE Severed
    <3>1. Chain(up, sent', Reached)
      BY <1>t, <1>1, <1>4, ChainKept
    <3>2. Stream' = up
      BY <1>1, <1>2, <2>1 DEF Stream
    <3> QED BY <1>2, <2>1, <3>1, <3>2 DEF StreamRight
  <2>2. CASE ~Severed
    <3>1. /\ Chain(up \o out', sent', Reached) /\ Complete(up \o out', sent', Reached)
      BY <1>t, <1>1, <1>4, <2>2, ChainGrows
    <3>2. Stream' = up \o out'
      BY <1>1, <1>2, <2>2 DEF Stream
    <3> QED BY <1>2, <3>1, <3>2 DEF StreamRight
  <2> QED BY <2>1, <2>2
<1>6. \A i \in 1..Len(sent) : LineOf(sent', i) = LineOf(sent, i)
  BY <1>t, <1>1 DEF LineOf
<1>7. Len(sent') = Len(sent) + 1 /\ Len(heard) \in Nat /\ Len(sent) \in Nat
  BY <1>t, <1>1
<1>8. BufferRight'
  <2> SUFFICES ASSUME pos > 0
               PROVE  /\ Len(heard) < Len(sent')
                      /\ pos < Len(LineOf(sent', Len(heard) + 1))
                      /\ \A k \in 1..pos : buf[k] = LineOf(sent', Len(heard) + 1)[k]
    BY <1>1 DEF BufferRight
  <2>1. Len(heard) < Len(sent)
    BY DEF LineInv, BufferRight
  <2>2. LineOf(sent', Len(heard) + 1) = LineOf(sent, Len(heard) + 1)
    BY <1>6, <1>7, <2>1
  <2> QED BY <1>7, <2>1, <2>2 DEF LineInv, BufferRight
<1>9. HeardInv'
  <2>1. Len(heard) <= Len(sent) /\ \A i \in 1..Len(heard) : HeardRight(i)
    BY DEF LineInv, HeardInv
  <2>2. ASSUME NEW i \in 1..Len(heard)
        PROVE  HeardRight(i)'
    <3>1. LineOf(sent', i) = LineOf(sent, i)
      BY <1>6, <1>7, <2>1
    <3>2. HeardRight(i)
      BY <2>1
    <3> QED BY <1>1, <1>2, <3>1, <3>2 DEF HeardRight
  <2>3. Len(heard') <= Len(sent')
    BY <1>1, <1>7, <2>1
  <2> QED BY <1>1, <2>2, <2>3 DEF HeardInv
<1> QED BY <1>5, <1>8, <1>9

\* send() takes a unit: it moves on in the stream.
LEMMA TakesUnit ==
    ASSUME ClientInv, LineInv, client_send_all, ~Gone
    PROVE  StreamRight' /\ BufferRight' /\ HeardInv'
<1>1. /\ status = "up" /\ up' = Append(up, Head(out)) /\ out' = Tail(out) /\ Len(out) >= 1
      /\ UNCHANGED <<sent, heard, buf, pos, kick, hpc>>
  <2>1. out \in Seq(Unit)
    BY LineTypes
  <2>2. Takes
    BY DEF client_send_all
  <2>3. Len(out) >= 1 /\ out' = Tail(out)
    BY <2>1, <2>2, TakesFromOut
  <2> QED BY <2>3 DEF client_send_all, Up
<1>2. ~Severed /\ ~Broken
  BY <1>1 DEF Severed, Broken, Gone
<1>3. Append(up, Head(out)) \o Tail(out) = up \o out
  <2>1. up \in Seq(Unit) /\ out \in Seq(Unit) /\ out # <<>>
    BY <1>1, LineTypes
  <2> DEFINE x == Append(up, Head(out)) \o Tail(out)
             y == up \o out
  <2>2. /\ x \in Seq(Unit) /\ y \in Seq(Unit)
        /\ Len(x) = Len(up) + Len(out) /\ Len(y) = Len(up) + Len(out)
    BY <2>1
  <2>3. \A i \in 1..(Len(up) + Len(out)) : x[i] = y[i]
    BY <2>1
  <2> HIDE DEF x, y
  <2>4. x = y
    BY <2>2, <2>3, SeqEqual
  <2> QED BY <2>4 DEF x, y
<1>4. StreamRight'
  <2>1. Chain(up \o out, sent, Reached) /\ Complete(up \o out, sent, Reached)
    BY <1>2 DEF LineInv, StreamRight, Stream
  <2>2. CASE Severed'
    <3>1. Stream' = up' /\ Reached' = Reached
      BY <1>1, <2>2 DEF Stream, Reached
    <3>2. Chain(up' \o out', sent, Reached)
      BY <1>1, <1>3, <2>1
    <3>3. up' \in Seq(Unit) /\ out' \in Seq(Unit)
      BY <1>1, LineTypes
    <3>4. Chain(up', sent, Reached)
      BY <3>2, <3>3, ChainPrefix
    <3> QED BY <1>1, <2>2, <3>1, <3>4 DEF StreamRight
  <2>3. CASE ~Severed'
    <3>1. Stream' = up \o out /\ Reached' = Reached
      BY <1>1, <1>3, <2>3 DEF Stream, Reached
    <3> QED BY <1>1, <2>1, <3>1 DEF StreamRight
  <2> QED BY <2>2, <2>3
<1>5. BufferRight'
  BY <1>1 DEF LineInv, BufferRight
<1>6. HeardInv'
  <2>1. \A i \in 1..Len(heard) : heard[i] = Trimmed(LineOf(sent, i))
    BY <1>2 DEF LineInv, HeardInv, HeardRight
  <2> QED BY <1>1, <2>1 DEF LineInv, HeardInv, HeardRight
<1> QED BY <1>4, <1>5, <1>6

\* The session is over: what is left of the stream is thrown away.
LEMMA SessionEnds ==
    ASSUME ClientInv, LineInv, HandlerCloses
    PROVE  StreamRight' /\ BufferRight' /\ HeardInv'
<1>1. /\ up' = <<>> /\ pos' = 0 /\ hpc' = "done"
      /\ UNCHANGED <<heard, sent, out, status, kick>>
  BY DEF HandlerCloses
<1>2. Severed' /\ Broken' = Broken
  BY <1>1 DEF Severed, Broken
<1>3. StreamRight'
  <2>1. Stream' = <<>>
    BY <1>1, <1>2 DEF Stream
  <2>2. Chain(<<>>, sent', Reached')
    BY DEF Chain
  <2> QED BY <1>2, <2>1, <2>2 DEF StreamRight
<1>4. BufferRight'
  BY <1>1 DEF BufferRight
<1>5. HeardInv'
  BY <1>1, <1>2 DEF LineInv, HeardInv, HeardRight
<1> QED BY <1>3, <1>4, <1>5

\* The server takes a unit: it is the one that continues its line, and the line
\* is executed when it was the last.
LEMMA TakesNext ==
    ASSUME ClientInv, LineInv, server_recv_line
    PROVE  StreamRight' /\ BufferRight' /\ HeardInv'
<1> DEFINE u == Head(up)
           p == pos + 1
           n == Len(heard) + 1
           L == Len(LineOf(sent, n))
<1>1. /\ hpc = "recv" /\ up # <<>> /\ up' = Tail(up)
      /\ UNCHANGED <<sent, out, status, kick>>
      /\ IF LineDone(p, u)
         THEN Execute(Terminated(buf, p, u))
         ELSE buf' = [buf EXCEPT ![p] = u] /\ pos' = p /\ UNCHANGED <<hpc, heard>>
  BY DEF server_recv_line
<1>t. /\ up \in Seq(Unit) /\ out \in Seq(Unit) /\ sent \in Seq(ClientLine)
      /\ heard \in Seq(Seq(Unit)) /\ p \in 1..LineCap /\ n \in Nat
      /\ buf \in [1..(LineCap + 1) -> Unit] /\ Len(sent) <= MaxTyped + 1
  BY LineTypes, Caps
<1>2. Broken' = Broken /\ Severed' = Severed
  BY <1>1 DEF Broken, Severed, Execute
<1>3. Stream \in Seq(Unit) /\ Stream # <<>> /\ Head(Stream) = u /\ Stream' = Tail(Stream)
  <2>1. CASE Severed
    <3>1. Stream = up /\ Stream' = Tail(up)
      BY <1>1, <1>2, <2>1 DEF Stream
    <3> QED BY <1>1, <1>t, <3>1
  <2>2. CASE ~Severed
    <3>1. Stream = up \o out /\ Stream' = Tail(up) \o out
      BY <1>1, <1>2, <2>2 DEF Stream
    <3>2. /\ up \o out \in Seq(Unit) /\ up \o out # <<>>
          /\ Head(up \o out) = Head(up) /\ Tail(up \o out) = Tail(up) \o out
      BY <1>1, <1>t, ConcatSimplifications, HeadTailProperties, ConcatProperties
    <3> QED BY <3>1, <3>2
  <2> QED BY <2>1, <2>2
<1>4. /\ Chain(Stream', sent, After(sent, u))
      /\ UnitOf(sent, u) /\ Place(sent, u) = <<n, p>>
      /\ ~Severed => Complete(Stream', sent, After(sent, u))
  BY <1>3, ChainTail DEF LineInv, StreamRight, Reached
<1>5. u[1] = n /\ PosIn(sent, u) = p
  BY <1>4 DEF Place
<1>6. n \in 1..Len(sent) /\ p \in 1..L /\ u = LineOf(sent, n)[p]
  BY <1>4, <1>5 DEF UnitOf
<1>7. LineDone(p, u) <=> p = L
  BY <1>t, <1>6, DoneAtEnd
<1>8. \A i \in 1..Len(heard) : heard[i] = Trimmed(LineOf(sent, i))
  BY <1>1 DEF LineInv, HeardInv, HeardRight
<1>9. \A k \in 1..(p - 1) : buf[k] = LineOf(sent, n)[k]
  <2>1. CASE pos > 0
    <3>1. \A k \in 1..pos : buf[k] = LineOf(sent, n)[k]
      BY <2>1 DEF LineInv, BufferRight
    <3>2. p - 1 = pos
      BY LineTypes, Caps
    <3> QED BY <3>1, <3>2
  <2>2. CASE ~(pos > 0)
    <3>1. pos = 0
      BY <2>2, LineTypes, Caps
    <3> QED BY <3>1
  <2> QED BY <2>1, <2>2
<1>10. CASE ~LineDone(p, u)
  <2> HIDE DEF u, n
  <2>1. buf' = [buf EXCEPT ![p] = u] /\ pos' = p /\ heard' = heard
    BY <1>1, <1>10
  <2>2. p < L
    <3>1. L \in Nat
      BY <1>t, <1>6, LineUnits DEF LineOf
    <3>2. p # L /\ p \in 1..L
      BY <1>6, <1>7, <1>10
    <3> HIDE DEF p, L
    <3> QED BY <3>1, <3>2
  <2>3. After(sent, u) = <<n, p + 1>>
    BY <1>5, <2>2 DEF After
  <2>4. Reached' = <<n, p + 1>>
    BY <2>1 DEF Reached, n
  <2>5. StreamRight'
    BY <1>1, <1>2, <1>4, <2>3, <2>4 DEF StreamRight
  <2>6. BufferRight'
    <3>1. Len(heard) < Len(sent)
      BY <1>6, <1>t DEF n
    <3>2. \A k \in 1..p : buf'[k] = LineOf(sent, n)[k]
      <4> SUFFICES ASSUME NEW k \in 1..p PROVE buf'[k] = LineOf(sent, n)[k]
        OBVIOUS
      <4> HIDE DEF p, L
      <4>1. CASE k = p
        <5>1. buf'[p] = u
          BY <1>t, <2>1, Caps
        <5> QED BY <1>6, <4>1, <5>1
      <4>2. CASE k # p
        <5>1. k \in 1..(p - 1)
          BY <1>t, <4>2, Caps
        <5>2. buf'[k] = buf[k]
          BY <1>t, <2>1, <4>2, <5>1, Caps
        <5> QED BY <1>9, <5>1, <5>2
      <4> QED BY <4>1, <4>2
    <3> QED BY <1>1, <2>1, <2>2, <3>1, <3>2 DEF BufferRight, n
  <2>7. HeardInv'
    BY <1>1, <1>8, <2>1 DEF LineInv, HeardInv, HeardRight
  <2> QED BY <2>5, <2>6, <2>7
<1>11. CASE LineDone(p, u)
  <2>1. /\ pos' = 0 /\ heard' = Append(heard, CString(Terminated(buf, p, u)))
    BY <1>1, <1>11 DEF Execute
  <2>2. p = L
    BY <1>7, <1>11
  <2> HIDE DEF u, n, p, L
  <2>3. CString(Terminated(buf, p, u)) = Trimmed(LineOf(sent, n))
    <3>1. p = Len(LineOf(sent, n))
      BY <2>2 DEF L
    <3> QED BY <1>t, <1>6, <1>9, <3>1, WholeString
  <2>4. Len(heard') = n
    BY <1>t, <2>1 DEF n
  <2>5. After(sent, u) = <<n + 1, 1>>
    <3>1. ~(p < Len(LineOf(sent, n)))
      BY <1>t, <2>2, Caps DEF L
    <3> QED BY <1>5, <3>1 DEF After
  <2>6. Reached' = <<n + 1, 1>>
    BY <2>1, <2>4 DEF Reached
  <2>7. StreamRight'
    BY <1>1, <1>2, <1>4, <2>5, <2>6 DEF StreamRight
  <2>8. BufferRight'
    BY <2>1 DEF BufferRight
  <2>9. HeardInv'
    <3>1. Len(heard') <= Len(sent')
      BY <1>1, <1>6, <1>t, <2>4
    <3>2. ASSUME NEW i \in 1..Len(heard')
          PROVE  heard'[i] = Trimmed(LineOf(sent, i))
      <4>1. CASE i = n
        <5>1. heard'[n] = CString(Terminated(buf, p, u))
          BY <1>t, <2>1 DEF n
        <5> QED BY <2>3, <4>1, <5>1
      <4>2. CASE i # n
        <5>1. i \in 1..Len(heard)
          BY <1>t, <2>4, <4>2 DEF n
        <5>2. heard'[i] = heard[i]
          BY <1>t, <2>1, <5>1
        <5> QED BY <1>8, <5>1, <5>2
      <4> QED BY <4>1, <4>2
    <3>3. \A i \in 1..Len(heard') : HeardRight(i)'
      BY <1>1, <3>2 DEF HeardRight
    <3> QED BY <3>1, <3>3 DEF HeardInv
  <2> QED BY <2>7, <2>8, <2>9
<1> QED BY <1>10, <1>11

\* recv() returns 0 in the middle of a line: then the connection was cut, by KICK
\* or by the death of the client, and nothing more comes.
LEMMA CutShort ==
    ASSUME ClientInv, LineInv, RecvEof, pos > 0, Execute(buf),
           UNCHANGED <<status, out, sent, up, kick>>
    PROVE  StreamRight' /\ BufferRight' /\ HeardInv'
<1> DEFINE n == Len(heard) + 1
<1>1. hpc = "recv" /\ up = <<>> /\ (shut \/ kick = "cut")
  BY DEF RecvEof
<1>t. /\ up \in Seq(Unit) /\ out \in Seq(Unit) /\ sent \in Seq(ClientLine)
      /\ heard \in Seq(Seq(Unit)) /\ pos \in 1..LineCap
      /\ buf \in [1..(LineCap + 1) -> Unit] /\ Len(sent) <= MaxTyped + 1
      /\ Len(heard) \in Nat /\ Len(sent) \in Nat
  BY LineTypes, Caps
<1>2. Broken
  <2> SUFFICES ASSUME ~Broken PROVE FALSE
    OBVIOUS
  <2>1. ~Severed
    BY <1>1 DEF Severed
  <2>2. out = <<>>
    BY <1>1 DEF LineInv, SenderPhase, Broken
  <2>3. Stream = <<>>
    <3>1. <<>> \o <<>> = <<>>
      BY <1>t, <1>1, ConcatEmptySeq
    <3> QED BY <1>1, <2>1, <2>2, <3>1 DEF Stream
  <2>4. Reached = <<Len(sent) + 1, 1>>
    BY <2>1, <2>3 DEF LineInv, StreamRight, Complete
  <2>5. pos + 1 = 1
    BY <2>4 DEF Reached
  <2> QED BY <1>t, <2>5
<1>3. Broken' /\ Severed' /\ Severed
  BY <1>2 DEF Broken, Severed
<1>4. pos' = 0 /\ heard' = Append(heard, CString(buf))
  BY DEF Execute
<1>n. Len(heard') = n
  BY <1>t, <1>4
<1>5. StreamRight'
  <2>1. Stream' = <<>>
    BY <1>1, <1>3 DEF Stream
  <2>2. Chain(<<>>, sent', Reached')
    BY DEF Chain
  <2> QED BY <1>3, <2>1, <2>2 DEF StreamRight
<1>6. BufferRight'
  BY <1>4 DEF BufferRight
<1>7. HeardInv'
  <2>1. /\ n \in 1..Len(sent) /\ pos < Len(LineOf(sent, n))
        /\ \A k \in 1..pos : buf[k] = LineOf(sent, n)[k]
    BY <1>t DEF LineInv, BufferRight
  <2> HIDE DEF n
  <2>2. \E k \in 1..Len(Trimmed(LineOf(sent, n))) :
           /\ Len(CString(buf)) >= k
           /\ SubSeq(CString(buf), 1, k) = SubSeq(Trimmed(LineOf(sent, n)), 1, k)
    BY <1>t, <2>1, PartString
  <2>3. ASSUME NEW i \in 1..Len(heard')
        PROVE  HeardRight(i)'
    <3>1. CASE i = n
      <4>1. heard'[n] = CString(buf)
        BY <1>t, <1>4 DEF n
      <4>2. i = Len(heard') /\ up' = <<>> /\ pos' = 0
        BY <1>1, <1>4, <1>n, <3>1
      <4> QED BY <1>3, <2>2, <3>1, <4>1, <4>2 DEF HeardRight
    <3>2. CASE i # n
      <4>0. i \in 1..n
        BY <1>n
      <4>1. i \in 1..Len(heard)
        BY <1>t, <3>2, <4>0 DEF n
      <4>2. heard'[i] = heard[i]
        BY <1>t, <1>4, <4>1
      <4>3. heard[i] = Trimmed(LineOf(sent, i))
        BY <1>t, <4>1 DEF LineInv, HeardInv, HeardRight
      <4> QED BY <4>2, <4>3 DEF HeardRight
    <3> QED BY <3>1, <3>2
  <2>4. Len(heard') <= Len(sent')
    BY <1>n, <1>t, <2>1
  <2> QED BY <2>3, <2>4 DEF HeardInv
<1> QED BY <1>5, <1>6, <1>7

\* The steps that only one of the threads of the client can take.
LEMMA MainLines ==
    ASSUME ClientInv, LineInv,
           Main \/ (\E l \in Typed : UserTypes(l)) \/ UserEof \/ ClientKilled
    PROVE  StreamRight' /\ BufferRight' /\ HeardInv'
<1>1. CASE SendStarts
  BY <1>1, BeginsLine
<1>2. CASE client_send_all
  <2>1. CASE ~Gone
    BY <1>2, <2>1, TakesUnit
  <2>2. CASE Gone
    <3>1. UNCHANGED <<up, sent, heard, buf, pos, kick, hpc, status>>
      BY <1>2, <2>2 DEF client_send_all, Takes, AfterSend, Go, Fail
    <3>2. Severed /\ Severed' /\ Broken' = Broken
      BY <2>2, <3>1 DEF Gone, Severed, Broken
    <3> QED BY <3>1, <3>2, StreamFrame
  <2> QED BY <2>1, <2>2
<1>3. CASE SendFails
  <2>1. UNCHANGED <<up, sent, heard, buf, pos, kick, hpc, status>> /\ reset
    BY <1>3 DEF SendFails, AfterSend, Go, Fail
  <2>2. Severed
    BY <2>1 DEF LineInv, SenderPhase
  <2>3. Severed' /\ Broken' = Broken
    BY <2>1, <2>2 DEF Severed, Broken
  <2> QED BY <2>1, <2>2, <2>3, StreamFrame
<1>4. CASE SendKilled \/ ClientKilled
  <2>1. PICK how \in {"sigpipe", "killed"} : Die(how)
    BY <1>4 DEF SendKilled, ClientKilled
  <2>2. UNCHANGED <<up, sent, heard, buf, pos>> /\ status' \in {"sigpipe", "killed"}
    BY <2>1 DEF Die
  <2>3. Severed' /\ Broken'
    BY <2>2 DEF Severed, Broken
  <2> QED BY <2>2, <2>3, StreamFrame
<1>5. CASE client_destroy \/ client_init_fails
  <2>1. UNCHANGED <<up, sent, heard, buf, pos, out, kick, hpc>> /\ status = "up"
    BY <1>5 DEF client_destroy, client_init_fails, Up
  <2>2. (Broken => Broken') /\ (Severed => Severed')
    BY <2>1 DEF Severed, Broken
  <2> QED BY <2>1, <2>2, StreamFrame
<1>6. CASE UNCHANGED <<up, sent, heard, buf, pos, out, kick, hpc, status>>
  <2>1. Broken' = Broken /\ Severed' = Severed
    BY <1>6 DEF Severed, Broken
  <2> QED BY <1>6, <2>1, StreamFrame
<1> QED BY <1>1, <1>2, <1>3, <1>4, <1>5, <1>6
        DEF Main, client_init, client_connect, resolve_credentials, StartReceiver, SendRefused,
            AfterSend, LoopTest, StopRunning, ShutSocket, JoinReceiver, client_disconnect,
            UserTypes, UserEof, Go, Fail

LEMMA ServerLines ==
    ASSUME ClientInv, LineInv, ServerHandler \/ Push \/ KickTells \/ KickCuts \/ ServerEnds
    PROVE  StreamRight' /\ BufferRight' /\ HeardInv'
<1>1. CASE server_recv_line
  BY <1>1, TakesNext
<1>2. CASE HandlerCloses
  BY <1>2, SessionEnds
<1>3. CASE RecvEof /\ pos > 0 /\ Execute(buf) /\ ServerKeeps /\ UNCHANGED <<reset, up, down, adminVars>>
  BY <1>3, CutShort
<1>4. CASE KickCuts
  <2>1. UNCHANGED <<up, sent, heard, buf, pos, out, hpc, status>> /\ kick' = "cut"
    BY <1>4 DEF KickCuts
  <2>2. Broken' /\ Severed'
    BY <2>1 DEF Severed, Broken
  <2> QED BY <2>1, <2>2, StreamFrame
<1>5. CASE KickTells
  <2>1. UNCHANGED <<up, sent, heard, buf, pos, out, hpc, status>> /\ kick = "no"
    BY <1>5 DEF KickTells
  <2>2. (Broken => Broken') /\ (Severed => Severed')
    BY <2>1 DEF Severed, Broken
  <2> QED BY <2>1, <2>2, StreamFrame
<1>6. CASE /\ UNCHANGED <<up, sent, heard, buf, pos, out, kick, status>>
           /\ hpc = "done" => hpc' = "done"
  <2>1. Broken' = Broken /\ (Severed => Severed')
    BY <1>6 DEF Severed, Broken
  <2> QED BY <1>6, <2>1, StreamFrame
<1> QED BY <1>1, <1>2, <1>3, <1>4, <1>5, <1>6
        DEF ServerHandler, RecvEof, RecvError, Reply, ReplyFails, HandlerNext, Push, ServerEnds

\* The phase of the sender.
LEMMA SenderStep ==
    ASSUME ClientInv, LineInv, [Next]_vars
    PROVE  SenderPhase'
<1> USE DEF LineInv
<1>0. SenderPhase
  OBVIOUS
<1>1. CASE Main \/ (\E l \in Typed : UserTypes(l)) \/ UserEof \/ ClientKilled
  <2> USE DEF Up, Go, Fail
  <2>k. UNCHANGED <<kick, hpc>>
    BY <1>1 DEF Main, client_init_fails, client_init, client_connect, resolve_credentials,
           StartReceiver, SendStarts, SendRefused, client_send_all, SendFails, SendKilled,
           ClientKilled, Die, LoopTest, StopRunning, ShutSocket, JoinReceiver,
           client_disconnect, client_destroy, UserTypes, UserEof
  <2>1. CASE SendKilled \/ ClientKilled
    <3>1. PICK how \in {"sigpipe", "killed"} : Die(how)
      BY <2>1 DEF SendKilled, ClientKilled
    <3>2. out' = <<>> /\ status' \in {"sigpipe", "killed"}
      BY <3>1 DEF Die
    <3> QED BY <3>2 DEF SenderPhase, Severed, Broken
  <2>2. CASE client_send_all
    <3>1. /\ status = "up" /\ mpc = "send" /\ UNCHANGED <<shut, status>>
          /\ reset' => reset \/ Gone
      BY <2>2 DEF client_send_all, Takes, AfterSend
    <3>2. mpc' # "send" => out' = <<>>
      <4> SUFFICES ASSUME mpc' # "send" PROVE out' = <<>>
        OBVIOUS
      <4>1. Takes /\ out \in Seq(Unit)
        BY <2>2, LineTypes DEF client_send_all
      <4>2. Len(out) = 1 /\ out' = Tail(out)
        BY <4>1 DEF Takes
      <4>3. Tail(out) \in Seq(Unit) /\ Len(Tail(out)) = 0
        BY <4>1, <4>2
      <4> QED BY <4>2, <4>3, EmptySeq
    <3>3. shut /\ ~Broken => FALSE
      BY <1>0, <3>1 DEF SenderPhase
    <3>4. (Severed => Severed') /\ (Gone => Severed') /\ (Broken => Broken')
      BY <2>k, <3>1 DEF Severed, Broken, Gone
    <3> QED BY <1>0, <3>1, <3>2, <3>3, <3>4 DEF SenderPhase
  <2>3. CASE SendStarts
    <3>1. mpc = "line" /\ mpc' = "send" /\ UNCHANGED <<shut, status, reset>>
      BY <2>3 DEF SendStarts
    <3> QED BY <1>0, <2>k, <3>1 DEF SenderPhase, Severed, Broken
  <2>4. CASE SendFails
    <3>1. mpc = "send" /\ out' = <<>> /\ UNCHANGED <<shut, status, reset>>
      BY <2>4 DEF SendFails, AfterSend
    <3> QED BY <1>0, <2>k, <3>1 DEF SenderPhase, Severed, Broken
  <2>5. CASE ShutSocket \/ JoinReceiver \/ client_disconnect \/ client_destroy
    <3>1. /\ mpc \in {"shut", "join", "disc", "destroy"}
          /\ mpc' \in {"join", "disc", "destroy", "over"} /\ UNCHANGED <<out, reset>>
          /\ status = "up"
      BY <2>5 DEF ShutSocket, JoinReceiver, client_disconnect, client_destroy
    <3>2. Severed => Severed'
      BY <2>k, <3>1 DEF Severed, Broken
    <3> QED BY <1>0, <3>1, <3>2 DEF SenderPhase
  <2>6. CASE /\ mpc \notin {"send", "join", "disc", "destroy", "over"} /\ mpc' # "send"
             /\ UNCHANGED <<out, reset, shut>> /\ status = "up"
    <3>1. (Severed => Severed') /\ (Broken => Broken')
      BY <2>k, <2>6 DEF Severed, Broken
    <3> QED BY <1>0, <2>6, <3>1 DEF SenderPhase
  <2> QED BY <1>1, <2>1, <2>2, <2>3, <2>4, <2>5, <2>6
          DEF Main, client_init_fails, client_init, client_connect, resolve_credentials,
              StartReceiver, SendRefused, AfterSend, LoopTest, StopRunning, UserTypes, UserEof
<1>2. CASE Receiver \/ UNCHANGED vars
  <2>1. UNCHANGED <<status, mpc, out, shut, reset, kick, hpc>>
    BY <1>2 DEF Receiver, ReceiverTest, ReceiverFd, client_recv_line, RecvFails,
                ReceiverStops, display_server_message, vars
  <2> QED BY <1>0, <2>1 DEF SenderPhase, Severed, Broken
<1>3. CASE ServerHandler \/ Push \/ KickTells \/ KickCuts \/ ServerEnds
  <2>1. UNCHANGED <<status, mpc, out, shut>>
    BY <1>3, ServerLeavesClient
  <2>2. kick = "cut" => kick' = "cut"
    BY <1>3 DEF ServerHandler, server_recv_line, RecvEof, RecvError, Reply, ReplyFails, HandlerNext,
                HandlerCloses, Push, KickTells, KickCuts, ServerEnds
  <2>3. (hpc = "done" => hpc' = "done") /\ (reset' => reset \/ hpc' = "done")
    BY <1>3 DEF ServerHandler, server_recv_line, RecvEof, RecvError, Reply, ReplyFails, HandlerNext,
                HandlerCloses, Push, KickTells, KickCuts, ServerEnds
  <2>4. (Severed => Severed') /\ (Broken => Broken')
    BY <2>1, <2>2, <2>3 DEF Severed, Broken
  <2>5. reset' => Severed'
    BY <1>0, <2>3, <2>4 DEF SenderPhase, Severed
  <2> QED BY <1>0, <2>1, <2>4, <2>5 DEF SenderPhase
<1> QED BY <1>1, <1>2, <1>3 DEF Next

LEMMA LineStep == ClientInv /\ LineInv /\ [Next]_vars => LineInv'
<1> SUFFICES ASSUME ClientInv, LineInv, [Next]_vars PROVE LineInv'
  OBVIOUS
<1>1. SenderPhase'
  BY SenderStep
<1>2. StreamRight' /\ BufferRight' /\ HeardInv'
  <2>1. CASE Receiver \/ UNCHANGED vars
    <3>1. UNCHANGED <<up, sent, heard, buf, pos, out, kick, hpc, status>>
      BY <2>1 DEF Receiver, ReceiverTest, ReceiverFd, client_recv_line, RecvFails,
                  ReceiverStops, display_server_message, vars
    <3>2. Broken' = Broken /\ Severed' = Severed
      BY <3>1 DEF Severed, Broken
    <3> QED BY <3>1, <3>2, StreamFrame
  <2> QED BY <2>1, MainLines, ServerLines DEF Next
<1> QED BY <1>1, <1>2 DEF LineInv

\* Whatever the buffers hold, wherever send() and recv() divide the stream, and
\* whenever one of the two ends stops.
THEOREM LineInvariant == Spec => []LineInv
<1>1. Init => LineInv
  BY LineInit
<1>2. ClientInv /\ LineInv /\ [Next]_vars => LineInv'
  BY LineStep
<1> QED BY <1>1, <1>2, ClientInvariant, PTL DEF Spec

\* The server executes what the client has sent, line by line and in order, and
\* at most the last line of a connection that was cut is not whole.
THEOREM LinesAlwaysKept == Spec => []LinesKept
<1>1. LineInv => LinesKept
  BY DEF LineInv, HeardInv, HeardRight, LineOf, Broken, LinesKept
<1> QED BY <1>1, LineInvariant, PTL
=============================================================================
