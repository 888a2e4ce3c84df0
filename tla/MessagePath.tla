---------------------------- MODULE MessagePath -----------------------------
(***************************************************************************)
(* The way of a message through the server: the handler threads store it   *)
(* in its room and push it, the broadcaster pops it and fans it out, and   *)
(* the main thread shuts the queue down and destroys it.  The linked list  *)
(* of MessageQueue and the ring buffers of RoomManager run side by side    *)
(* here, under the threads that ChatServer models with the queue and the   *)
(* histories they implement.                                               *)
(***************************************************************************)
EXTENDS MessageQueue, RoomManager

CONSTANTS
    Handler,     \* the handler threads
    MainThread,  \* the main thread
    Sentinel,    \* the MQ_SHUTDOWN message
    MaxMsgs      \* bound: MSG lines that arrive

\* A message is named by the number of its arrival; the sentinel differs from
\* all of them by its type.
ASSUME PathAssumption ==
    /\ MaxMsgs \in Nat
    /\ MainThread \notin Handler
    /\ Thread = Handler \cup {MainThread}
    /\ Entry = 1..MaxMsgs
    /\ Msg = Entry \cup {Sentinel}
    /\ Sentinel \notin Entry

VARIABLES
    running,     \* srv->running
    hpc,         \* a handler: "recv", "push", "end"
    cur,         \* the message it handles
    arrived,     \* the number of MSG lines so far
    bpc,         \* the broadcaster: "loop", "mq_pop", "fan", "done"
    mpc,         \* the main thread: "run", "sentinel", "push", "join", "rooms", "end"
    done,        \* history variable: the messages whose cmd_handle_msg() is over
    before       \* history variable: <<a, b>> when a was over before b began

pathVars == <<running, hpc, cur, arrived, bpc, mpc, done, before>>
vars == <<mqVars, rmVars, pathVars>>

Up == mpc # "end"

-----------------------------------------------------------------------------
(* cmd_handle_msg() of handler h.                                          *)

\* A MSG line arrives; the message goes into the history of the room.
MsgStore(h) ==
    /\ Up
    /\ hpc[h] = "recv"
    /\ arrived < MaxMsgs
    /\ arrived' = arrived + 1
    /\ cur' = [cur EXCEPT ![h] = arrived']
    /\ \E r \in Room :
           room_history_add(r, arrived') \/ room_history_add_fails(r)
    /\ hpc' = [hpc EXCEPT ![h] = "push"]
    /\ before' = before \cup (done \X {arrived'})
    /\ UNCHANGED <<mqVars, running, bpc, mpc, done>>

MsgAlloc(h) ==
    /\ Up
    /\ hpc[h] = "push"
    /\ PushAlloc(h, cur[h])
    /\ UNCHANGED <<rmVars, pathVars>>

\* The command is over, and so is the handler once running is cleared.
Return(h) ==
    /\ Up
    /\ hpc[h] = "push"
    /\ hpc' = [hpc EXCEPT ![h] = IF running THEN "recv" ELSE "end"]
    /\ done' = done \cup {cur[h]}
    /\ cur' = [cur EXCEPT ![h] = Null]
    /\ UNCHANGED <<rmVars, running, arrived, bpc, mpc, before>>

MsgNoMemory(h) == PushFails(h) /\ Return(h)
MsgQueued(h)   == PushLink(h) /\ Return(h)
MsgFreed(h)    == PushFree(h) /\ Return(h)
MsgRefused(h)  == Up /\ hpc[h] = "push" /\ PushRefused(h) /\ UNCHANGED <<rmVars, pathVars>>

HandlerStep(h) ==
    MsgAlloc(h) \/ MsgNoMemory(h) \/ MsgQueued(h) \/ MsgRefused(h) \/ MsgFreed(h)

-----------------------------------------------------------------------------
(* broadcaster_thread().                                                   *)

OnlyBroadcasts == UNCHANGED <<rmVars, running, hpc, cur, arrived, mpc, done, before>>

FanLoop ==
    /\ Up
    /\ bpc = "loop"
    /\ IF running THEN PopCall /\ bpc' = "mq_pop"
                  ELSE bpc' = "done" /\ UNCHANGED mqVars
    /\ OnlyBroadcasts

FanPops ==
    /\ Up
    /\ bpc = "mq_pop"
    /\ \/ (PopWait \/ PopTake) /\ bpc' = bpc
       \/ PopFree /\ bpc' = "fan"
       \/ PopFails /\ bpc' = "done"
    /\ OnlyBroadcasts

\* The message is formatted and sent to its room (ChatServer has the sends);
\* MQ_SHUTDOWN ends the loop.
FanOut ==
    /\ Up
    /\ bpc = "fan"
    /\ bpc' = IF got[Len(got)] = Sentinel THEN "done" ELSE "loop"
    /\ OnlyBroadcasts
    /\ UNCHANGED mqVars

Broadcaster == FanLoop \/ FanPops \/ FanOut

Spurious == Up /\ PopSpurious /\ UNCHANGED <<rmVars, pathVars>>

-----------------------------------------------------------------------------
(* The main thread after the accept loop.                                  *)

Signal ==
    /\ Up
    /\ running
    /\ running' = FALSE
    /\ UNCHANGED <<mqVars, rmVars, hpc, cur, arrived, bpc, mpc, done, before>>

OnlyMain == UNCHANGED <<running, hpc, cur, arrived, bpc, done, before>>

\* server_shutdown(): the flag, and then the sentinel, which the queue refuses.
ShutdownFlag ==
    /\ mpc = "run"
    /\ ~running
    /\ mq_signal_shutdown
    /\ mpc' = "sentinel"
    /\ OnlyMain /\ UNCHANGED rmVars

ShutdownSentinel ==
    /\ \/ mpc = "sentinel" /\ PushAlloc(MainThread, Sentinel) /\ mpc' = "push"
       \/ mpc = "sentinel" /\ PushFails(MainThread) /\ mpc' = "join"
       \/ mpc = "push" /\ PushRefused(MainThread) /\ mpc' = mpc
       \/ mpc = "push" /\ PushFree(MainThread) /\ mpc' = "join"
    /\ OnlyMain /\ UNCHANGED rmVars

\* server_destroy(), and the end of the process with main().
DestroyQueue ==
    /\ mpc = "join"
    /\ bpc = "done"
    /\ mq_destroy
    /\ mpc' = "rooms"
    /\ OnlyMain /\ UNCHANGED rmVars

DestroyRooms ==
    /\ mpc = "rooms"
    /\ room_manager_destroy
    /\ mpc' = "end"
    /\ OnlyMain /\ UNCHANGED mqVars

MainStep == ShutdownFlag \/ ShutdownSentinel \/ DestroyQueue \/ DestroyRooms

-----------------------------------------------------------------------------
Init ==
    /\ MQInit
    /\ RMInit
    /\ running = TRUE
    /\ hpc = [h \in Handler |-> "recv"]
    /\ cur = [h \in Handler |-> Null]
    /\ arrived = 0
    /\ bpc = "loop"
    /\ mpc = "run"
    /\ done = {}
    /\ before = {}

Next ==
    \/ \E h \in Handler : MsgStore(h) \/ HandlerStep(h)
    \/ Broadcaster
    \/ Spurious
    \/ Signal
    \/ MainStep

Spec == Init /\ [][Next]_vars

\* The threads are scheduled.  Nothing makes a peer send a message, a signal
\* arrive or a wait end without a signal.
FairSpec ==
    /\ Spec
    /\ WF_vars(Broadcaster)
    /\ WF_vars(MainStep)
    /\ \A h \in Handler : WF_vars(HandlerStep(h))

-----------------------------------------------------------------------------
(* Correctness.                                                            *)

TypeOK ==
    /\ MQTypeOK
    /\ RMTypeOK
    /\ running \in BOOLEAN
    /\ hpc \in [Handler -> {"recv", "push", "end"}]
    /\ cur \in [Handler -> Entry \cup {Null}]
    /\ arrived \in 0..MaxMsgs
    /\ bpc \in {"loop", "mq_pop", "fan", "done"}
    /\ mpc \in {"run", "sentinel", "push", "join", "rooms", "end"}
    /\ done \subseteq Entry
    /\ before \subseteq Entry \X Entry

Precedes(s, a, b) == \E i, j \in 1..Len(s) : i < j /\ s[i] = a /\ s[j] = b

\* Two handlers may store their messages in one order and queue them in the
\* other, but only while both are at it: when the command of one message is
\* over before that of another begins, no client ever finds the second before
\* the first, neither in a history nor among the broadcasts.
OrderedByCalls ==
    \A p \in before :
        /\ ~Precedes(got \o Contents, p[2], p[1])
        /\ \A r \in rooms : ~Precedes(room_history_format(r), p[2], p[1])

\* The broadcaster stays until the server is told to stop: no wakeup without a
\* message makes mq_pop() fail and ends it.
BroadcasterStays == bpc = "done" => ~running

\* What is pushed while the server runs is fanned out: no wakeup is lost
\* between the broadcaster's test and its wait.
EveryMessagePopped ==
    \A m \in Entry :
        (running /\ \E i \in 1..Len(chain) : Contents[i] = m)
            ~> (~running \/ \E i \in 1..Len(got) : got[i] = m)

\* A shutdown ends the broadcaster wherever it is, although the sentinel that
\* is pushed after the flag never reaches it, and main() returns.
ShutdownCompletes == shutdown ~> mpc = "end"
=============================================================================
