# A TLA+ model of the chat server

The repository is a multi-threaded TCP chat in C: a server with one thread per
client, a broadcaster thread, rooms with a history, private messages and an
administrator's kick; and a terminal client. This directory holds TLA+
specifications of the server, its queue, rooms, user database and lifecycle, of
the client and of the protocol between them, the TLC configurations that check
them on small instances, and TLAPS proofs of the server's main invariants for
every instance.

    tlc -config sessions.cfg MCChatServer        # a run
    tlapm ChatServerProofs.tla                   # a proof

## 1. Inventory

| Component | Source (under `src/`) | State | Operations |
|---|---|---|---|
| Accept loop, connection counter | `server/server.c` | `running`, `active_connections` | accept, refuse at `MAX_CLIENTS`, start a detached thread |
| Client handler, one thread per connection | `server/server.c` | `client_fd`, `authenticated` | read a line, dispatch, disconnect |
| Commands | `server/commands.c` | local variables | AUTH, JOIN_ROOM, MSG, PM, LIST, HISTORY, KICK, QUIT, `disconnect_client` |
| Client registry | `server/client_registry.c` | linked list of nodes (descriptor, name, room, admin) | add, remove, set_room, lookups by descriptor or name, foreach |
| Broadcast queue | `common/message_queue.c` | linked list, `shutdown` | push, pop (blocking), signal_shutdown |
| Broadcaster thread | `server/broadcaster.c` | the message in hand | pop, send to every node of the message's room |
| Room manager | `server/room_manager.c` | up to `MAX_ROOMS` rooms, each with a ring of `MAX_ROOM_HISTORY` messages | add, format for one line |
| Signals, start, shutdown, destruction | `server/server.c`, `server/main.c` | `running`, the queue's `shutdown`, which parts are initialised | server_init with its clean-up, signal handler, server_shutdown, server_destroy |
| Socket I/O | `common/utils.c`, `server/server.c` | kernel state of a connection | send_all, recv_line |
| User database | `server/auth.c` | a list of records, read-only after start | load, verify, is_admin |
| Wire protocol | `common/protocol.c` | none | parse, format |
| Chat client | `client/*.c` | socket, lock, `running`, `receiver_started` | a main thread that prompts and sends, a receiver thread that shows |

How they interact. The main thread accepts and starts handlers. A handler calls
the registry, the queue and the rooms, each behind a mutex of its own that is
never held over two calls, and sends its answers to its own socket, PM and KICK
also to that of somebody else. The broadcaster pops from the queue and walks
the registry, letting the lock go around every `send()`. A signal only clears
`running`; the loops see it when they next look.

What is hard. A node, a descriptor number or a room that was read in one
critical section is used after it. The kernel gives a descriptor number to the
next connection as soon as it is closed, and the registry is searched by
descriptor number. A condition variable may wake late, early or for nothing. A
signal may come between a test and the call it should have prevented. What one
thread creates and destroys is used by others in between, and after. The byte
stream between client and server has no boundaries but the newlines. Logging in, changing rooms, posting and leaving are
sequences of five to ten steps, any of which may fail, run by threads that race
with each other and with the broadcaster. Peers go away at any point, and so
does memory. The full list, each at its line, is under "hazards" in
`PROJECT.json`.

What makes the parts correct:

* counter: it counts the handler threads exactly, over every error path;
* registry: a session finds its own node, only its own, as long as it runs; no
  node outlives its session; no name is there twice;
* queue: first in, first out, whatever is interleaved; no wakeup lost, no node
  lost or freed twice; a shutdown always gets through;
* commands: the announcements about a user fit each other;
* rooms and broadcaster: nothing falls between the history a client is sent
  and the broadcasts that follow; messages stay in their room and reach all of it;
* handler: a session that is kicked, or whose peer has gone, comes to an end;
* lifecycle: what was created is destroyed once, after its users, on every path;
* client: its lines arrive whole and in order; its threads agree on the end;
* protocol: the two ends agree on every text.

## 2. Modules

| Module | Content |
|---|---|
| `ChatServer` | the running server: sessions, registry, counter, commands, broadcaster |
| `MessageQueue` | `message_queue.c`: linked list, mutex, condition variable |
| `BroadcastQueue` | what a queue promises; `MessageQueue` implements it (`QueueImplements`) |
| `RoomManager` | `room_manager.c`: rooms and ring buffers |
| `RoomLog` | what the histories promise; `RoomManager` implements it (`HistoryImplements`) |
| `MessagePath` | composes `MessageQueue` and `RoomManager` with handlers, broadcaster and main thread |
| `UserDb` | `auth.c`: users.db, the list it becomes, the lookups |
| `ServerLifecycle` | extends `UserDb`: `main()`, `server_init` to `server_destroy`, signals |
| `ChatClient` | the client's two threads, the connection, the handler at the other end |
| `WireFormat` | the builders and parsers of `protocol.c`, and the client's dispatch |
| `MC...` | sets and inputs for TLC |
| `ChatServerProofs` | types, that sessions, descriptors and nodes match (`SessionInv`), the counter and the registry's limit (`CounterInv`), that the announcements are coherent (`PresenceInv`) |
| `ChatServerDelivery` | that no message falls between a history and the broadcasts (`DeliveryInv`) |
| `MessageQueueProofs` | what each step of the linked list does to the queue it stands for (`MQInv`) |
| `RoomManagerProofs` | what a message does to the ring it is stored in (`RMInv`) |
| `MessagePathProofs` | ownership, order, and both refinements (`PathInv`) |
| `ServerLifecycleProofs` | parts, threads and user list through the process's life (`LifeInv`) |
| `ChatClientProofs` | the client's two threads, its socket and its lock (`ClientInv`), and its lines up to their execution in the server (`LineInv`) |
| `WireFormatProofs` | that commands and responses arrive as they were meant (`WireInv`) |

`ChatServer` uses a queue and histories that are sequences, one step per call.
That is justified by `MessagePath`: there the linked list and the rings run step
by step, and it is proved that they implement `BroadcastQueue` and `RoomLog`, the
sequences that `ChatServer` has. `ChatServer` starts when the server runs and ends
it in one step; `ServerLifecycle` has what comes before and after, and knows of
the handlers only which part they use next. `ChatClient` has one session of the
server, with the bytes of its lines, which `ChatServer` leaves out.

### How `ChatServer` corresponds to the code

A *session* `c \in Conn` is one TCP connection from `accept()` to the end of its
thread. Its thread stands at `pc[c]`; its `client_fd`, `authenticated`, parsed
command, room name and `target_fd` are `fd`, `auth`, `arg`, `lroom` and `tfd`.

* **The accept loop.** `Accept` takes the connection and counts it, `Start` creates
  its thread, `StartFails` is the branch without memory (`OutOfMemory`) or without a
  thread (`NoThread`), which closes the connection and counts it down again; `Reject`
  is the refusal at capacity, before it is counted. The main thread is at `"start"`
  in between, and accepts nothing else.
* **One step per critical section and per `send()`.** Between two of them a
  thread touches only its own data, so nothing another thread does can be told
  apart from happening at the step. Each command is therefore a chain of
  actions in the order of the code: `cmd_handle_auth` is
  `HandleAuth`, `AuthExists`, `AuthAdd`, `AuthWelcome`, `RoomJoined`,
  `FormatHistory`, `SendHistory`, `AuthOk`, `AuthAnnounce`, with its error exits
  `Refuse`, `AuthAddFails` and `AuthUndo`; `disconnect_client` and the end of the
  thread are `DiscLeave`, `DiscRemove`, `DiscClose`, `DiscRelease`.
* **Merged lookups.** Consecutive lookups of a session about itself
  (`registry_get_username`, then `registry_get_room`) are one step with the
  `recv`: only the session's own thread changes its node, which theorem
  `OwnLookup` confirms. The lookups about others (`registry_username_exists`,
  the target's descriptor) are kept apart from their use.
* **Registry.** `online` is the set of nodes, each named by the session that
  added it, so that a freed node is one that is no longer in `online`. Every
  search goes by descriptor or by name (`ByFd`, `ByName`) as in the code, never by
  session; that it finds the right node is a theorem and not an assumption.
  Where the order of the list matters the model lets the walk visit the rest of
  it in any order.
* **`registry_foreach`** copies a node and unlocks (`Visit`), sends (`FanSend`,
  `FanFails`), locks and reads `cur->next` (`FanNext`). When the node is freed that
  read is undefined behaviour: `FanFreed` goes on with any part of the list, or
  ends, and `FanFreedKilled` is the crash.
* **Sockets.** `open` are the sessions whose descriptor is not closed; `accept()`
  takes the lowest free number. `send()` succeeds; or fails with `EBADF`, or
  once with `ECONNRESET`; or meets `EPIPE` on a connection that was reset or shut
  down, and then kills the process, because the code neither ignores `SIGPIPE`
  nor passes `MSG_NOSIGNAL`. A session of `Fickle` may lose its peer at any time.
* **Queue, rooms.** `queue` and `history[r]` are sequences; `mq_push` fails when the
  queue is shut down or memory is short; the oldest entry of a full history is
  dropped; a history longer than `PayloadCap` is not sent at all.
* **History variables** that the code does not have: `seen` (messages delivered to
  a session), `synced` (sessions that were sent the history of their room), `lost`
  (messages whose push or fan-out failed), `presence` (the room the queued events
  put a user in).

### `MessageQueue`, `RoomManager`, `MessagePath`

`mq_push` is `PushAlloc` (or `PushFails`), then `PushLink` under the lock, or
`PushRefused` and `PushFree` when the queue is shut down: `malloc` and `free` are
outside the critical section in the code. `mq_pop` is `PopCall`, `PopWait` as often
as the `while` says, `PopTake` under the lock, `PopFree`; or `PopFails`. A waiting
thread is woken by `Wake` or by nothing at all (`PopSpurious`). The list is `head`,
`tail`, `next` on a heap of `Node`s; `chain` is a history variable that lists its
nodes in order, and `WellLinked` says that pointers and `chain` agree. The
refinement maps `items` to the messages along `chain` and `closed` to `shutdown`.

A room's ring is `entries`, `filled` (`count` in the code) and `start`. The
refinement maps a room's log to what `room_history_format` would print.

`MessagePath` runs `cmd_handle_msg`'s two effects (`MsgStore`, then the push), the
broadcaster's loop, and the main thread's shutdown up to the destruction of
queue and rooms. `before` is a history variable: which messages were handled
before which others began.

### `UserDb`, `ServerLifecycle`

A line of users.db is a record of its three fields or `Skipped`; `Read` is a turn
of the loop of `auth_init`, which puts a record at the head, and the lookups take
the first. SHA-256 is an injective function. The file is read line by line
(`InitReads`, `line`), so `auth_init` may run out of memory in the middle of it.

The five parts of `chat_server_t` are `"raw"`, `"ready"` or `"destroyed"`; `"leaked"` when
their own failed initialisation left a mutex behind; `"undefined"` when something
was destroyed that was not there. `InitPart`, `InitReads`, `InitAuth` and `InitFails`
walk through them in the order of `server_init`. `Left` is how a part that fails leaves
itself, and `Undone` transcribes, branch by branch, which parts `server_init` then
destroys. Neither that nor `DestroyPart`, a line of `server_destroy`, asks whether the part
is there, as the code does not. `AcceptTest` and `AcceptBlocks` are apart,
because a signal may fall between them. `Signal` is delivered to the main thread,
as Linux does with a process-directed signal the main thread does not block;
before `server_install_signal_handlers` it kills. A handler thread is the list of
parts its command has still to use (`Uses`); when that part is already destroyed
it goes on or the process is killed (`HandlerKilled`).

### `ChatClient`

The main thread stands at `mpc`, the receiver at `rpc`, the server's handler at
`hpc`. The client's `lock` is a variable only where it is held over a step, which
is `client_send_all`: `SendStarts` takes it, every unit that `send()` takes is a
step, and the last one or a failure releases it. Everything else that needs the
lock waits for `lock = "free"`.

The way up is a sequence of units; a unit stands for a run of bytes. A line of
size *n* is *n* units and the last is its newline; a line longer than
`LineCap` loses what does not fit, newline included, as `snprintf` does.
`server_recv_line` puts units into `buf` until a newline or until the buffer is
full; `CString` reads the buffer as the parser does, up to the first NUL, so what
an earlier line left behind is visible when the end is missing. The way down
is a bounded sequence of lines. `reset` stands for the RST that answers data sent
to a closed socket; a `send()` after it fails or kills the client (`SendKilled`).
The handler's `recv()` ends with the end of file (`RecvEof`) or with an error
(`RecvError`), which drops what it had of a line.

### `WireFormat`

A text is a sequence of characters of which only the space counts; a line is its
keyword and the rest. `Build` joins the fields with spaces and cuts to the size of the
buffer. `strchr` is the place of the first space, `Word` and `Rest` what is before and
behind it, `Fields` a text cut at its first spaces as the parsers do it. `Strict` is the
common form of `parse_two_tokens`, `parse_three_fields_msg` and
`parse_four_fields_rest_msg`: a field that is missing is empty and so refused. A
behaviour picks something to say, builds it and parses it at the other end.

`ServerSays` describes what the server may have in its buffers when it builds a line: a
user's name has come through `parse_two_tokens` and has no space, a timestamp is
written as `%Y-%m-%dT%H:%M:%S` into a buffer of `TimeCap + 1` and has none either, a room's name is whatever a JOIN_ROOM may hold, and a
history may be as long as the buffer it is formatted in. `ServerBuilds` sends
nothing when a broadcast, an announcement or a history does not fit, which is where the
server looks at the builder's result.

Definitions with a suffix (`StartFailsForgets`, `JoinMoveStale`,
`PushLinkSilent`, ...) are mutants: versions of the definition that follows them
with a plausible bug, none of them part of a `Next`. Each property is checked to
fail under one of them.

## 3. Runs

Every run explores all interleavings of its threads. Deadlock is not checked
anywhere: a session is used once, and peers, users and signals are bounded, so
that each behaviour of an instance comes to rest, and processes end.

| Run | Instance | Distinct states | Checks |
|---|---|---|---|
| `sessions` | 3 connections, 2 descriptors, capacity 2; two of them one account, one with 2 lines (login, MSG, QUIT), the others with their login; threads that cannot be created; a signal at any time | 1.7 million | `TypeOK`, `LookupFindsOwnNode`, `NoOrphanNode`, `NamesUnique`, `CounterExact`, `RegistryNeverFull` |
| `nogap` | a writer, and a follower under its own name or the writer's; 2 rooms, 3 lines each | 1.4 million | `NoGap`, `PresenceCoherent` |
| `departures` | an administrator and a user whose peer may go away; KICK, PM, HISTORY, wrong password; failing allocations; `FairSpec` | 0.2 million | `KickEndsSession`, `HangupEndsSession` |
| `path` | 2 handlers, 3 messages, 2 heap nodes, 2 rooms of which 1 fits, rings of 2; `FairSpec` | 0.24 million | `TypeOK`, `NodesOwned`, `WellLinked`, `RingSound`, `OrderedByCalls`, `BroadcasterStays`, `QueueImplements`, `HistoryImplements`, `EveryMessagePopped`, `ShutdownCompletes` |
| `lifecycle` | every users.db of at most two lines, 2 signals, 1 handler with any command; `FairSpec` | 0.15 million | `TypeOK`, `BroadcasterSafe`, `DestroyedOnce`, `EndsClean`, `LastLineCounts`, `ShutdownEnds` |
| `client` | 2 typed lines that are short, just fit or do not fit; both socket buffers of 2; KICK, PM, end of the server, kill; `FairSpec` | 0.3 million | `TypeOK`, `TeardownSafe`, `LinesKept`, `QuietAfterStop`, `QuitEndsClient` |
| `wire` | all texts up to three characters longer than a message, and commands and histories as long as a line; one-character and longest timestamps | 2973 | `CommandsKept`, `ResponsesKept` |

Why the bounds are enough for the questions asked.

* `sessions`: descriptor reuse needs a connection that ends and another that
  starts: three connections over two descriptors give a session that stays, one
  that goes and one that takes its number; at capacity 2 the third is also
  refused, or let in after a release. A race for a name needs two logins. The
  counter goes up and down again in the accept loop while the other two are at work
  or leaving; one decrement too few there is seen at the next release.
* `nogap`: a gap between history and broadcast needs a writer, and a reader that
  registers or moves between two of the writer's steps; two messages fill a
  history of two, and with `PayloadCap = 1` also make it too long for its line.
  `PresenceCoherent` needs a user who changes rooms, leaves and comes back while the
  events of the first session may still be queued.
* `path`: three messages overwrite a ring of two; two nodes for two handlers and
  the sentinel make `malloc` fail too; a list of two distinguishes head from tail.
* `lifecycle`: two lines of users.db give a duplicate, and a line that is skipped
  before or after one that counts; a second signal may come after the first.
* `client`: sizes are 2, `LineCap` = 3 and `LineCap + 1`, in a way up that holds 2
  units, so that every line but the shortest is sent in parts. Two typed lines
  and the login are three lines in one buffer. The way down holds two lines, fewer
  than the server's answers and pushes, so that both ways fill.
* `wire`: the limits of name, room and message are all passed by one or more, and
  the four kinds of limit have values that differ where the order matters.

Fairness. All fairness is weak, and of threads only.

* `ChatServer`: `HandlerWorks(c)`, a handler thread that can take a step without
  waiting for its peer's next line, and the main thread from `accept()` to the next
  (`Start`, `StartFails`). It includes the assumption that a peer that
  is there reads what it is sent, as `send()` blocks otherwise. Nothing is assumed of
  peers, `accept()`, the broadcaster or signals.
* `MessagePath`: each handler inside a command, the broadcaster, the main thread.
  Not spurious wakeups, messages or signals: every message must be popped by the
  wakeup its push gave.
* `ServerLifecycle`: the main thread (whose `accept()` needs a connection or a
  signal, and is not a step of it) and the broadcaster. No handler: the shutdown
  does not wait for them.
* `ChatClient`: the main thread, the receiver and the server's handler; not the user,
  the administrator or the end of the server.

Four observations that properties carry as exceptions.

* `QuitEndsClient`: the client holds its lock in a blocked `send()`, its receiver waits
  for the lock, and the server's handler waits in `send()` for the receiver to read
  (`Stuck`). The run reaches this deadlock (`client.c:90`), from which `/quit` does not
  lead out; without the exception TLC shows it, after two lines that the server answers
  and a KICK or PM. `docs/LAB_REPORT.md:38` asks for connections without deadlock. The
  property says that this is the only way in which `/quit` hangs: the exception is
  `[]Stuck`, for ever in that state.
* `ResponsesKept`: a room whose name has a space, which `JOIN_ROOM` accepts, is cut at
  the space by the client's parser of BROADCAST, and what is cut off becomes the
  beginning of the message (`RoomSplit`).
* `LinesKept`: the last line of a connection that was cut in the middle of it
  (`server.c:230`) is executed without its end, with whatever an earlier line left in
  the buffer behind it; of that line only the beginning is claimed.
* `CommandsKept`: a login name with a space, which the client's prompt accepts, is read
  as another name. Whatever is accepted is within the limits of the fields.

Two things the properties leave out on purpose. `NoGap` speaks of the time before a
signal, since the broadcaster then leaves its loop with messages still queued, and not
of messages whose push or fan-out failed (`lost`): that is the subject of `peer_loss`.
`EndsClean` allows the mutex that `room_manager_init` (`room_manager.c:52-54`) or
`auth_init` (`auth.c:82-86`) leaves behind when it fails.

Runs that find a violation, each of something the documentation says:

| Run | Property | What the code does |
|---|---|---|
| `use_after_free` | `NoUseAfterFree` | `registry_foreach` reads `cur->next` after the lock was away during the callback; a handler that disconnects meanwhile frees `cur`. `docs/DESIGN.md` lists foreach among the operations the lock protects. |
| `stale_target` | `RightRecipient` | The descriptor of the target of PM or KICK is used after the lookup; the target quits, a new connection has its number, and is acted on. The same holds of the copy of a node that the fan-out tests the room of: a client that moved in between gets a message of the room it left. |
| `peer_loss` | `PeerLossContained` | A `send()` to a peer that has gone kills the server with `SIGPIPE`, or, failing, ends the walk so that clients further on never get the message. The document says that the handler cleans up and that every client gets the message. |
| `graceful_shutdown` | `GracefulShutdown` | A signal between the test of `running` and `accept()` clears the flag, and `accept()` blocks all the same until somebody connects. |
| `client_end` | `IOFailureEndsClient` | When the server is gone the client waits in `fgets()` until the user types; what is then sent may kill it with `SIGPIPE`. The document says that it exits cleanly. |

## 4. Proofs

Every theorem is about `Spec` of its component, for any value of the constants
that the named assumptions admit; TLC evaluates these on every run. They are:

* `ChatServer`: `None` is none of the values and no message; descriptors are natural numbers; the
  default room is a room, administrators are users; limits are natural numbers,
  those of rooms and history positive; the inputs are well-formed lines. The
  sets, that of the connections included, may be infinite.
* `MessageQueue`, `RoomManager`, `MessagePath`: `Null`, the blank entry and the sentinel
  are no messages (in the code a null pointer, a zeroed entry and another
  `mq_msg_type_t`); the main thread is no handler; there is room for one room and
  one message at least.
* `UserDb`, `ServerLifecycle`: no user name begins a comment; users.db is any
  sequence of lines.
* `ChatClient`: a buffer holds two units of a line, a socket buffer one; nobody
  types an AUTH line, as the loop of `client_run` builds none.
* `WireFormat`: a line has room for a name, a timestamp, a room and a message of the
  sizes of their buffers together, and a password is no longer than a message (in the
  code 31, 31, 31 and 511 characters, and 63, in a line of 2047); what the server says is as `ServerSays` has it.
  What is typed is any text of any length.

| Theorem | Statement |
|---|---|
| `SessionInvariant` | `Spec => []SessionInv` |
| `TypeCorrect`, `OwnLookup`, `NoOrphans`, `OneSessionPerName` | `TypeOK`, `LookupFindsOwnNode`, `NoOrphanNode`, `NamesUnique` of `ChatServer` always hold |
| `ExactCounter`, `NeverFull` | `CounterExact`, `RegistryNeverFull` always hold |
| `PresenceInvariant`, `PresenceStory` | `Spec => []PresenceInv`, `Spec => PresenceCoherent` |
| `DeliveryInvariant`, `StaysInvariant`, `NothingMissed` | `Spec => []DeliveryInv`, `Spec => []StaysInv`, `NoGap` always holds |
| `PathInvariant` | `Spec => []PathInv` of `MessagePath` |
| `TypeCorrect`, `NodesAlwaysOwned`, `AlwaysWellLinked`, `RingsAlwaysSound`, `BroadcasterAlwaysStays`, `CallsOrdered` | `TypeOK`, `NodesOwned`, `WellLinked`, `RingSound`, `BroadcasterStays`, `OrderedByCalls` always hold |
| `ListIsQueue`, `RingIsLog` | `MessagePath` implements `BroadcastQueue` and `RoomLog` (`QueueImplements`, `HistoryImplements`) |
| `LifeInvariant` | `Spec => []LifeInv` of `ServerLifecycle` |
| `LifecycleTypes`, `BroadcasterAlwaysSafe`, `AlwaysEndsClean`, `LastLineAlwaysCounts`, `AlwaysDestroyedOnce` | `TypeOK`, `BroadcasterSafe`, `EndsClean`, `LastLineCounts`, `DestroyedOnce` always hold |
| `ClientInvariant`, `LineInvariant` | `Spec => []ClientInv`, `Spec => []LineInv` of `ChatClient` |
| `ClientTypeCorrect`, `TeardownAlwaysSafe`, `LinesAlwaysKept`, `AlwaysQuietAfterStop` | `TypeOK`, `TeardownSafe`, `LinesKept` always hold, and `QuietAfterStop` of every step |
| `WireInvariant` | `Spec => []WireInv` of `WireFormat` |
| `CommandsAlwaysKept`, `ResponsesAlwaysKept` | `CommandsKept`, `ResponsesKept` always hold |

Each inductive invariant was an invariant of its component's run before it was
proved.

**Sessions.** `LookupFindsOwnNode` is not inductive: it does not say why the node
is there. `SessionInv` ties each position of a handler to its session: the
descriptor is open exactly from `accept()` to `close()`, the node is registered
exactly from `registry_add()` to `registry_remove()`, and open descriptors are
distinct. `close()` comes after `registry_remove()` in the code, so a registered
session's descriptor is open, hence its own, hence a search by it finds one
node. The proof has one case per action; `QuietStep` treats, once, all those that
leave descriptors and registry alone.

**Counter.** `CounterInv` adds that the live sessions are finitely many, without
which their cardinality means nothing. Three steps change that set, `Accept`,
`StartFails` and `DiscRelease`, and only they change the counter. `NeverFull` follows: a handler at
`registry_add()` is live and not registered, so the registered sessions are a
proper subset of at most `MAX_CLIENTS` live ones.

**Presence.** `PresenceInv` says which room the queue has told of each registered
session at each position of its handler (none from a LEAVE to the next JOIN),
and that a user who is not registered has been told to be nowhere. The latter
carries the story over to the next login under the name, and needs
`NamesUnique`. It is claimed only while the queue accepts pushes: once it is shut
down nothing is queued and nothing is told.

**Delivery.** `NoGap` needs an account of where a message can be. `DeliveryInv` has four
parts. `KeptInv`: what a history holds was stored by its author's handler and, while
that is about to post it, is posted to the same room. `PostedInv`: what is queued or
fanned out was posted, and no room other than the one it is for keeps it. So every
message is stored once and posted once, and when the walk passes over a node because
its room differs, no session whose history holds the message is passed over
(`FanRoom`). `SyncedOK`: a session that is about to be registered was sent no history,
so that it may be missing from the rest of a walk. `CoverInv`: the claim itself, also
for a session whose handler has copied the history and not sent it; such a session has
what the copy holds, and what was stored since the copy is on its way. The claim holds
in the process as it is: what a failed send or a freed node cuts off goes to `lost`.
One lemma (`SteadyDelivery`) treats the handler's steps that move no message, one
(`FanDelivery`) the other threads'; storing, posting, copying and sending a history
have their own. `NoGap` then needs that a message on its way will be popped: until a
signal comes the broadcaster is in its loop (`StaysInv`).

**The list and the queue.** `MessageQueueProofs` proves, operation by operation, that
the step keeps `MQInv` and what it does to `Contents`, the messages of the list in
order: `PushLink` appends one, `PopTake` removes the first, all others leave it
alone. `NodesOwned` and `WellLinked` are not inductive: `PushLink` writes through
`tail`, and to know that this damages no other node one needs that the node it
links is in nobody else's hands, points nowhere and carries its message (`Held`).
These facts are about any threads that keep to the protocol; `MessagePathProofs`
shows that handlers, broadcaster and main thread do, and concludes the refinement:
the initial queue is empty, and every step is a step of `BroadcastQueue` or
leaves its variables alone.

**The ring and the log.** `room_history_add` either writes the slot after the last
and counts one more, or overwrites the oldest and advances `start`. `AddShows` proves that
what `room_history_format` shows before and after differs by the new message at
the end and, when the ring was full, the oldest at the front. It needs that a ring
that is not full starts at 0 (`RingSound`) and what `%` does to indices below twice
the capacity (`RingIndex`).

**Order.** `OrderedByCalls` speaks of pairs in `before`, of the rooms that exist, and of
queue and handed-out messages as one sequence. To be inductive it needs that nothing
is in them that did not arrive (`OnlyArrived`), that the messages of two handlers at
work differ, and that what a handler is about to link is its own (`HandlersOwn`):
then a message whose command begins after another's end is appended behind it,
and appending, popping and overwriting keep the order of two messages
(`PrecedesAppend`, `PrecedesTail`, `TakeConcat`).

**The process.** `LifeInv` says of each position of `main()` which parts are ready,
whether there can be a broadcaster and whether there is a listening socket. The
join before the destruction then makes `BroadcasterSafe`. `DestroyedOnce` is proved
branch by branch: while `server_init` runs, the parts that are ready are a prefix of
`InitOrder`, and each list of `Undone` is that prefix, without the part that failed; and
when `server_destroy` is at a part, that one and those after it in its own order are still
ready. That no part is missing from the lists gives `EndsClean`.
`DbDescribes` is the invariant of the loop of `auth_init`: after any number of lines, the
records that a lookup finds (the first of their user) are those of the lines that
count (the last so far of their user). At the end of the file that is
`LastLineCounts`.

**The client.** `TeardownSafe` does not say when there is a receiver. `ReceiverByPhase`
does: none before `start_receiver_thread`, which three of the failing ways out never reach,
then exactly while `started` is set, which only the join resets. `QuietAfterStop`
holds because `running` is cleared with the lock free, by either thread, and
the lock is held from the test of `running` to the last unit (`LockBySender`): no
unit is sent in a state where `running` is clear. With the test outside the lock
(mutant `SendStarts_Unlocked`) exactly that step of the proof fails.

**The lines.** `LinesKept` speaks of the texts that have been executed, and not of
what is under way. `LineInv` follows every unit from `out[]` through the socket to
`line[]`. A unit tells its place, its line and its position in that. `StreamRight` says
that the units in the socket, and behind them those still in `out[]`, begin at the
place the server has come to (`Reached`), that each is followed by the unit after it
or the first of the next line (`Chain`), and that they end where the next line will begin
(`Complete`). Sending a unit then changes nothing, beginning a line appends it
(`ChainGrows`), receiving takes the first unit and moves `Reached` (`ChainTail`).
`DoneAtEnd` is the heart of it: `server_recv_line` ends a line, by its newline or by
its limit, exactly at the last unit that was sent, also of a line that
`protocol_build_client_*` cut. The string it leaves is then the line without its newline
(`WholeString`), whatever the buffer held before. Once the connection is cut, `out[]`
is lost and the chain no longer complete; that a text executed at end of file with part
of a line is due to a KICK or a dead client needs `SenderPhase`: on its own way out the client
shuts the socket down only after its last line.

**The protocol.** `WireInv` says of a line what it was built from, and of a result that it
is what the parser made of that line; neither property mentions the line, so neither is
inductive. The rest is about texts. `strchrFinds` and `strchrIs`: there is exactly one
first space. `JoinSplits`: what is joined to a word with a space comes apart there again;
from it `TwoFields` to `FourFields`, in which every field but the last must be one word.
`ParsedKept` and `ParsedRefused`: the fields are kept when all are there and within their
limits, and otherwise the whole line is refused. `CommandsKept` then has three cases. A
command of two arguments is sent only when it fits as a whole (`NamedKept`). One of a single
argument may be cut by `snprintf`, but what the cut leaves is still longer than any
argument may be, and is refused (`SingleKept`): here the proof needs that a line is longer
than a message. `ResponsesKept` needs the sizes of all fields together, as the server
looks at the results of only some builders (`PmKept`, `PresenceKept`, `FieldKept`), and for a
history that it is not sent when it does not fit. When the room of a BROADCAST has a space the
parser's third field is its first word, and the fourth what is left of the room joined to
the message (`SplitJoins`, `BroadcastSplit`); that can be too long, and the line is refused,
or the line is taken with the text cut in the other place. That what is accepted is within
its limits needs no assumption on what was sent (`TwoTokens`, `LoginAccepted`).

Left to TLC: the liveness properties, as fairness and `ENABLED` are out of the prover's
reach, and the runs that find a violation. Every invariant and action property of the
passing runs, and both refinements, are proved.

No module uses `RECURSIVE` operators. Where a proof needs the least element of a set
of numbers (the end of a C string, the first space), it takes it from the
well-foundedness of `<` (`LeastNat`).

## 5. Not modelled

* **Bytes on the way down.** The server's lines are sent whole, so the mixing of
  two threads' lines on one socket after a partial `send()` (`utils.c:59`) does not
  show. Names that fill their buffer in `mq_message_t` without a NUL
  (`commands.c:23`) are below the models' level.
* **A peer that never reads** would stop the broadcaster (`broadcaster.c:23`). Only
  `ChatClient` bounds socket buffers, between one client and its handler.
* **Text.** Colours, prompts, logging, the wording of answers, timestamps, LIST's
  contents, port parsing. This includes the display of a history, where
  `strtok_r(buf, "||", ...)` (`client.c:140`) takes its argument as a set of
  characters and so finds no entry with three fields.
* **The bytes of users.db**: comments, empty lines and malformed lines are all
  `Skipped`; SHA-256 is injective.
* **Detached handlers after the shutdown** may use what is destroyed; the models
  have the outcomes (`HandlerKilled`, or nothing) and no property forbids them,
  as the code says only that sessions drain.
* `registry_foreach_in_room()`, `recv_line()` and `set_socket_nonblocking()` are
  never called.

## 6. Plan

Done: all components, at the level said above, with their runs; the proofs of
section 4, with a theorem for every safety invariant, action property and refinement
that the passing runs check. What would extend it: partial sends on the way down, where
two threads write to one socket, and peers that do not read.
