--------------------------- MODULE BroadcastQueue ---------------------------
(***************************************************************************)
(* What the broadcast queue promises the handlers and the broadcaster: one *)
(* first-in first-out queue that takes messages until it is shut down and  *)
(* still hands out what it holds afterwards.  ChatServer works with a      *)
(* queue of this kind; MessageQueue implements it.                         *)
(***************************************************************************)
EXTENDS Sequences

CONSTANT Msg     \* the messages

VARIABLES
    items,       \* the messages in the queue, oldest first
    closed,      \* whether it was shut down
    got          \* the messages handed out, oldest first

bqVars == <<items, closed, got>>

Push(m) ==
    /\ ~closed
    /\ items' = Append(items, m)
    /\ UNCHANGED <<closed, got>>

Pop ==
    /\ items # <<>>
    /\ items' = Tail(items)
    /\ got' = Append(got, Head(items))
    /\ closed' = closed

Close ==
    /\ closed' = TRUE
    /\ UNCHANGED <<items, got>>

\* What is left is thrown away, after the shutdown only.
Discard ==
    /\ closed
    /\ items' = <<>>
    /\ UNCHANGED <<closed, got>>

BQInit == items = <<>> /\ closed = FALSE /\ got = <<>>
BQNext == (\E m \in Msg : Push(m)) \/ Pop \/ Close \/ Discard
BQSpec == BQInit /\ [][BQNext]_bqVars
=============================================================================
