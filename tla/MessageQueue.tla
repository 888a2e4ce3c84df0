---------------------------- MODULE MessageQueue ----------------------------
(***************************************************************************)
(* message_queue.c: the broadcast queue as a linked list of heap nodes     *)
(* with a mutex and a condition variable.                                  *)
(*                                                                         *)
(* A critical section is one step.  malloc() and free() happen outside of  *)
(* it and are steps of their own, and so is what follows                   *)
(* pthread_cond_wait(), which gives the mutex up.  One thread pops (the    *)
(* broadcaster), any number push.                                          *)
(***************************************************************************)
EXTENDS Integers, Sequences

CONSTANTS
    Thread,      \* the threads that push
    Node,        \* the heap blocks a queue node may occupy
    Msg,         \* the messages
    Null         \* the null pointer, "no message"

ASSUME NullAssumption == Null \notin Node \cup Msg

VARIABLES
    head, tail,  \* q->head, q->tail
    count,       \* q->count
    shutdown,    \* q->shutdown
    heap,        \* the blocks that are allocated
    next, msg,   \* node->next, node->msg
    node,        \* the local `node` of each thread in mq_push()
    ppc,         \* where the thread is in it: "out", "link", "refused"
    cpc,         \* where the broadcaster is: "out", "pop", "wait", "woken", "free"
    cnode,       \* the local `node` of mq_pop()
    chain,       \* history variable: the nodes of the list, first to last
    got          \* history variable: the messages mq_pop() has returned

listVars == <<head, tail, count, shutdown, chain>>
nodeVars == <<heap, next, msg>>
pushVars == <<node, ppc>>
popVars  == <<cpc, cnode, got>>
mqVars   == <<listVars, nodeVars, pushVars, popVars>>

\* free(): what is in a block that is not allocated does not matter.
Free(S) == /\ heap' = heap \ S
           /\ next' = [n \in Node |-> IF n \in S THEN Null ELSE next[n]]
           /\ msg' = [n \in Node |-> IF n \in S THEN Null ELSE msg[n]]

-----------------------------------------------------------------------------
(* mq_push(), of thread t.                                                 *)

\* malloc(), which gives some free block, and the assignments to the new node.
PushAlloc(t, m) ==
    /\ ppc[t] = "out"
    /\ heap # Node
    /\ LET n == CHOOSE b \in Node : b \notin heap
       IN  /\ heap' = heap \cup {n}
           /\ next' = [next EXCEPT ![n] = Null]
           /\ msg' = [msg EXCEPT ![n] = m]
           /\ node' = [node EXCEPT ![t] = n]
    /\ ppc' = [ppc EXCEPT ![t] = "link"]
    /\ UNCHANGED <<head, tail, count, shutdown, chain, popVars>>

\* No memory is left: CHAT_ERR_NOMEM.
PushFails(t) ==
    /\ ppc[t] = "out"
    /\ heap = Node
    /\ UNCHANGED mqVars

\* The thread that waits on not_empty becomes ready to take the mutex again.
Wake == cpc' = IF cpc = "wait" THEN "woken" ELSE cpc

\* Mutants of the critical section: no signal; the node put in front.
PushLinkSilent(t) ==
    /\ ppc[t] = "link"
    /\ ~shutdown
    /\ head' = IF tail = Null THEN node[t] ELSE head
    /\ next' = IF tail = Null THEN next ELSE [next EXCEPT ![tail] = node[t]]
    /\ tail' = node[t]
    /\ count' = count + 1
    /\ chain' = Append(chain, node[t])
    /\ node' = [node EXCEPT ![t] = Null]
    /\ ppc' = [ppc EXCEPT ![t] = "out"]
    /\ UNCHANGED <<shutdown, heap, msg, popVars>>

PushLinkInFront(t) ==
    /\ ppc[t] = "link"
    /\ ~shutdown
    /\ head' = node[t]
    /\ next' = [next EXCEPT ![node[t]] = head]
    /\ tail' = IF tail = Null THEN node[t] ELSE tail
    /\ count' = count + 1
    /\ chain' = <<node[t]>> \o chain
    /\ node' = [node EXCEPT ![t] = Null]
    /\ Wake
    /\ ppc' = [ppc EXCEPT ![t] = "out"]
    /\ UNCHANGED <<shutdown, heap, msg, cnode, got>>

\* The critical section: the node goes to the end of the list and the
\* broadcaster is signalled.
PushLink(t) ==
    /\ ppc[t] = "link"
    /\ ~shutdown
    /\ head' = IF tail = Null THEN node[t] ELSE head
    /\ next' = IF tail = Null THEN next ELSE [next EXCEPT ![tail] = node[t]]
    /\ tail' = node[t]
    /\ count' = count + 1
    /\ chain' = Append(chain, node[t])
    /\ Wake
    /\ node' = [node EXCEPT ![t] = Null]
    /\ ppc' = [ppc EXCEPT ![t] = "out"]
    /\ UNCHANGED <<shutdown, heap, msg, cnode, got>>

\* The queue was shut down: the node is freed again after the unlock.
PushRefused(t) ==
    /\ ppc[t] = "link"
    /\ shutdown
    /\ ppc' = [ppc EXCEPT ![t] = "refused"]
    /\ UNCHANGED <<listVars, nodeVars, node, popVars>>

\* Mutant: the refused node is not freed.
PushFreeForgotten(t) ==
    /\ ppc[t] = "refused"
    /\ node' = [node EXCEPT ![t] = Null]
    /\ ppc' = [ppc EXCEPT ![t] = "out"]
    /\ UNCHANGED <<listVars, nodeVars, popVars>>

PushFree(t) ==
    /\ ppc[t] = "refused"
    /\ Free({node[t]})
    /\ node' = [node EXCEPT ![t] = Null]
    /\ ppc' = [ppc EXCEPT ![t] = "out"]
    /\ UNCHANGED <<listVars, popVars>>

-----------------------------------------------------------------------------
(* mq_pop(), of the broadcaster.                                           *)

PopCall ==
    /\ cpc = "out"
    /\ cpc' = "pop"
    /\ UNCHANGED <<listVars, nodeVars, pushVars, cnode, got>>

\* The mutex is held: on entry, and again after a wakeup.
Holding == cpc \in {"pop", "woken"}

\* The condition of the loop around pthread_cond_wait().
\* Mutant: `if` instead of `while`.
MustWaitOnce == cpc = "pop" /\ head = Null /\ ~shutdown
MustWait == Holding /\ head = Null /\ ~shutdown

PopWait ==
    /\ MustWait
    /\ cpc' = "wait"
    /\ UNCHANGED <<listVars, nodeVars, pushVars, cnode, got>>

\* pthread_cond_wait() may return without a signal.
PopSpurious ==
    /\ cpc = "wait"
    /\ cpc' = "woken"
    /\ UNCHANGED <<listVars, nodeVars, pushVars, cnode, got>>

\* Mutant: tail is left pointing to the node taken out.
PopTakeKeepsTail ==
    /\ Holding
    /\ head # Null
    /\ cnode' = head
    /\ head' = next[head]
    /\ count' = count - 1
    /\ chain' = Tail(chain)
    /\ got' = Append(got, msg[head])
    /\ cpc' = "free"
    /\ UNCHANGED <<tail, shutdown, heap, next, msg, pushVars>>

PopTake ==
    /\ Holding
    /\ head # Null
    /\ cnode' = head
    /\ head' = next[head]
    /\ tail' = IF next[head] = Null THEN Null ELSE tail
    /\ count' = count - 1
    /\ chain' = Tail(chain)
    /\ got' = Append(got, msg[head])
    /\ cpc' = "free"
    /\ UNCHANGED <<shutdown, heap, next, msg, pushVars>>

\* The node is freed after the unlock, and mq_pop() returns CHAT_OK.
PopFree ==
    /\ cpc = "free"
    /\ Free({cnode})
    /\ cnode' = Null
    /\ cpc' = "out"
    /\ UNCHANGED <<listVars, pushVars, got>>

\* Still empty after the loop, so shut down: CHAT_ERR.
PopFails ==
    /\ Holding
    /\ ~MustWait
    /\ head = Null
    /\ cpc' = "out"
    /\ UNCHANGED <<listVars, nodeVars, pushVars, cnode, got>>

-----------------------------------------------------------------------------
\* Mutant: nobody is woken.
mq_signal_shutdown_Silent ==
    /\ shutdown' = TRUE
    /\ UNCHANGED <<head, tail, count, chain, nodeVars, pushVars, popVars>>

mq_signal_shutdown ==
    /\ shutdown' = TRUE
    /\ Wake
    /\ UNCHANGED <<head, tail, count, chain, nodeVars, pushVars, cnode, got>>

\* mq_free_nodes() walks the list from the head.  The flag is left set, so a
\* thread still on its way into the queue is refused: on this platform the
\* lock of a destroyed mutex fails, and mq_push() does not look at its result.
mq_destroy ==
    /\ Free({chain[i] : i \in 1..Len(chain)})
    /\ head' = Null
    /\ tail' = Null
    /\ count' = 0
    /\ chain' = <<>>
    /\ UNCHANGED <<shutdown, pushVars, popVars>>

mq_init ==
    /\ head = Null
    /\ tail = Null
    /\ count = 0
    /\ shutdown = FALSE

MQInit ==
    /\ mq_init
    /\ heap = {}
    /\ next = [n \in Node |-> Null]
    /\ msg = [n \in Node |-> Null]
    /\ node = [t \in Thread |-> Null]
    /\ ppc = [t \in Thread |-> "out"]
    /\ cpc = "out"
    /\ cnode = Null
    /\ chain = <<>>
    /\ got = <<>>

-----------------------------------------------------------------------------
(* Correctness.                                                            *)

MQTypeOK ==
    /\ {head, tail, cnode} \subseteq Node \cup {Null}
    /\ count \in Nat
    /\ shutdown \in BOOLEAN
    /\ heap \subseteq Node
    /\ next \in [Node -> Node \cup {Null}]
    /\ msg \in [Node -> Msg \cup {Null}]
    /\ node \in [Thread -> Node \cup {Null}]
    /\ ppc \in [Thread -> {"out", "link", "refused"}]
    /\ cpc \in {"out", "pop", "wait", "woken", "free"}
    /\ chain \in Seq(Node)
    /\ got \in Seq(Msg)

Linked == {chain[i] : i \in 1..Len(chain)}

\* Every allocated node has exactly one owner: the list, a thread that has not
\* linked it yet or was refused, or the broadcaster that took it out.  So none
\* is leaked, freed twice or read after its free, whatever the interleaving.
NodesOwned ==
    /\ \A i, j \in 1..Len(chain) : chain[i] = chain[j] => i = j
    /\ \A t \in Thread :
           /\ ppc[t] # "out" => node[t] \in heap \ Linked /\ node[t] # cnode
           /\ \A u \in Thread : ppc[t] # "out" /\ node[t] = node[u] => t = u
    /\ cpc = "free" => cnode \in heap \ Linked
    /\ heap = Linked \cup {node[t] : t \in {u \in Thread : ppc[u] # "out"}}
                     \cup (IF cpc = "free" THEN {cnode} ELSE {})

\* The pointers describe the list: following next from head visits its nodes
\* in order and ends at tail, and count is its length.
WellLinked ==
    /\ count = Len(chain)
    /\ head = IF chain = <<>> THEN Null ELSE chain[1]
    /\ tail = IF chain = <<>> THEN Null ELSE chain[Len(chain)]
    /\ \A i \in 1..Len(chain) :
           next[chain[i]] = IF i = Len(chain) THEN Null ELSE chain[i + 1]

\* The queue the list stands for.
Contents == [i \in 1..Len(chain) |-> msg[chain[i]]]

BQ == INSTANCE BroadcastQueue WITH items <- Contents, closed <- shutdown

\* The linked list implements the first-in first-out queue that the rest of
\* the server relies on: nothing is lost, invented, repeated or reordered.
QueueImplements == BQ!BQSpec
=============================================================================
