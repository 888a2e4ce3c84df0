------------------------- MODULE MessageQueueProofs -------------------------
(***************************************************************************)
(* Proofs about the linked list of MessageQueue, for any number of         *)
(* threads, heap blocks and messages: the inductive invariant MQInv, that  *)
(* every step of the queue keeps it, and what the step does to the         *)
(* first-in first-out queue that the list stands for.                      *)
(***************************************************************************)
EXTENDS MessageQueue, SequenceTheorems, TLAPS

\* What the variables hold between the steps of an operation: a thread outside
\* of mq_push() has no node, the broadcaster has one only between the unlock and
\* free(), and a node on its way to the list carries a message
\* and points nowhere.
Held ==
    /\ \A t \in Thread : ppc[t] = "out" => node[t] = Null
    /\ \A t \in Thread : ppc[t] = "link" => msg[node[t]] \in Msg /\ next[node[t]] = Null
    /\ \A i \in 1..Len(chain) : msg[chain[i]] \in Msg
    /\ cpc # "free" => cnode = Null
    /\ cpc = "free" => got # <<>>

MQInv == MQTypeOK /\ NodesOwned /\ WellLinked /\ Held

\* The queue the list stands for, and the messages handed out, keep their value.
SameQueue == Contents' = Contents /\ got' = got /\ shutdown' = shutdown

USE DEF listVars, nodeVars, pushVars, popVars, mqVars

-----------------------------------------------------------------------------
(* The invariant and the list, seen from a step.                           *)

\* Some facts about the list that every step needs.
LEMMA ListFacts ==
    ASSUME MQInv
    PROVE  /\ Len(chain) \in Nat
           /\ \A i \in 1..Len(chain) : chain[i] \in Node /\ chain[i] \in heap /\ chain[i] # Null
           /\ \A t \in Thread : ppc[t] # "out" => node[t] \in Node /\ node[t] \in heap
           /\ Null \notin Node /\ Null \notin Msg
           /\ cpc = "free" => cnode \in Node /\ cnode \in heap
<1>1. Len(chain) \in Nat /\ \A i \in 1..Len(chain) : chain[i] \in Node
  BY LenProperties, ElementOfSeq DEF MQInv, MQTypeOK
<1> QED BY <1>1, NullAssumption DEF MQInv, MQTypeOK, NodesOwned, Linked

\* The list as a sequence of messages.
LEMMA ContentsType ==
    ASSUME MQInv
    PROVE  /\ Contents \in Seq(Msg)
           /\ Len(Contents) = Len(chain)
           /\ \A i \in 1..Len(chain) : Contents[i] = msg[chain[i]]
<1>1. Len(chain) \in Nat
  BY ListFacts
<1>2. \A i \in 1..Len(chain) : msg[chain[i]] \in Msg
  BY DEF MQInv, Held
<1>3. Contents \in [1..Len(chain) -> Msg]
  BY <1>2 DEF Contents
<1>4. Contents \in Seq(Msg)
  BY <1>1, <1>3, SeqDef
<1>5. DOMAIN Contents = 1..Len(chain) /\ DOMAIN Contents = 1..Len(Contents)
  BY <1>4, LenProperties DEF Contents
<1>6. Len(Contents) = Len(chain)
  BY <1>1, <1>4, <1>5, LenProperties
<1> QED BY <1>4, <1>6 DEF Contents

\* A step that neither touches a node, nor the list, nor what a thread owns.
LEMMA QuietStep ==
    ASSUME MQInv, UNCHANGED <<head, tail, count, chain, nodeVars, pushVars, cnode, got>>,
           shutdown' \in BOOLEAN,
           cpc' \in {"out", "pop", "wait", "woken", "free"}, cpc' = "free" <=> cpc = "free"
    PROVE  MQInv' /\ Contents' = Contents
<1>1. MQTypeOK'
  BY DEF MQInv, MQTypeOK
<1>2. NodesOwned'
  BY DEF MQInv, NodesOwned, Linked
<1>3. WellLinked' /\ Held' /\ Contents' = Contents
  BY DEF MQInv, WellLinked, Held, Contents
<1> QED BY <1>1, <1>2, <1>3 DEF MQInv

\* A node is freed that is on its way neither into the list nor out of it.
LEMMA FreeStep ==
    ASSUME MQInv, NEW n \in Node, n \notin Linked, Free({n})
    PROVE  /\ heap' = heap \ {n}
           /\ next' \in [Node -> Node \cup {Null}] /\ msg' \in [Node -> Msg \cup {Null}]
           /\ \A k \in Node \ {n} : next'[k] = next[k] /\ msg'[k] = msg[k]
BY DEF MQInv, MQTypeOK, Free

-----------------------------------------------------------------------------
(* The steps of mq_push().                                                 *)

LEMMA PushAllocStep ==
    ASSUME MQInv, NEW t \in Thread, NEW m \in Msg, PushAlloc(t, m)
    PROVE  MQInv' /\ SameQueue
<1> DEFINE n == CHOOSE b \in Node : b \notin heap
<1>1. n \in Node /\ n \notin heap
  BY DEF MQInv, MQTypeOK, PushAlloc
<1>2. /\ heap' = heap \cup {n}
      /\ next' = [next EXCEPT ![n] = Null]
      /\ msg' = [msg EXCEPT ![n] = m]
      /\ node' = [node EXCEPT ![t] = n]
      /\ ppc[t] = "out" /\ ppc' = [ppc EXCEPT ![t] = "link"]
      /\ UNCHANGED <<head, tail, count, shutdown, chain, popVars>>
  BY DEF PushAlloc
<1> HIDE DEF n
<1>3. MQTypeOK'
  BY <1>1, <1>2 DEF MQInv, MQTypeOK
<1>4. \A i \in 1..Len(chain) : chain[i] # n /\ chain[i] \in Node
  BY <1>1, ListFacts
<1>5. \A u \in Thread : ppc[u] # "out" => u # t /\ node[u] # n /\ node'[u] = node[u]
  BY <1>1, <1>2, ListFacts DEF MQInv, MQTypeOK
<1>6. NodesOwned'
  <2>1. Linked' = Linked /\ n \notin Linked /\ n # cnode
    BY <1>1, <1>2, <1>4, ListFacts DEF Linked, MQInv, Held
  <2>2. /\ ppc'[t] = "link" /\ node'[t] = n
        /\ \A u \in Thread \ {t} : ppc'[u] = ppc[u] /\ node'[u] = node[u]
    BY <1>2 DEF MQInv, MQTypeOK
  <2>3. \A i, j \in 1..Len(chain') : chain'[i] = chain'[j] => i = j
    BY <1>2 DEF MQInv, NodesOwned
  <2>4. \A u \in Thread : ppc'[u] # "out" => node'[u] \in heap' \ Linked' /\ node'[u] # cnode'
    BY <1>1, <1>2, <2>1, <2>2 DEF MQInv, NodesOwned
  <2>5. ASSUME NEW u \in Thread, NEW v \in Thread, ppc'[u] # "out", node'[u] = node'[v]
        PROVE  u = v
    BY <1>5, <2>2, <2>5, ListFacts, <1>1 DEF MQInv, NodesOwned, Held
  <2>6. heap' = Linked' \cup {node'[u] : u \in {v \in Thread : ppc'[v] # "out"}}
                       \cup (IF cpc' = "free" THEN {cnode'} ELSE {})
    <3>1. {node'[u] : u \in {v \in Thread : ppc'[v] # "out"}}
              = {node[u] : u \in {v \in Thread : ppc[v] # "out"}} \cup {n}
      BY <1>2, <1>5, <2>2
    <3> QED BY <1>2, <2>1, <3>1 DEF MQInv, NodesOwned
  <2>7. cpc' = "free" => cnode' \in heap' \ Linked'
    BY <1>2, <2>1 DEF MQInv, NodesOwned
  <2> QED BY <2>3, <2>4, <2>5, <2>6, <2>7 DEF NodesOwned
<1>7. WellLinked'
  BY <1>1, <1>2, <1>4 DEF MQInv, MQTypeOK, WellLinked
<1>8. Held'
  BY <1>1, <1>2, <1>4, <1>5 DEF MQInv, MQTypeOK, Held
<1>9. Contents' = Contents
  BY <1>1, <1>2, <1>4 DEF MQInv, MQTypeOK, Contents
<1> QED BY <1>2, <1>3, <1>6, <1>7, <1>8, <1>9 DEF MQInv, SameQueue

LEMMA PushRefusedStep ==
    ASSUME MQInv, NEW t \in Thread, PushRefused(t)
    PROVE  MQInv' /\ SameQueue
<1>1. \A u \in Thread : ppc'[u] # "out" <=> ppc[u] # "out"
  BY DEF MQInv, MQTypeOK, PushRefused
<1>2. MQTypeOK'
  BY DEF MQInv, MQTypeOK, PushRefused
<1>3. NodesOwned'
  BY <1>1 DEF MQInv, NodesOwned, Linked, PushRefused
<1>4. WellLinked' /\ Held'
  BY <1>1 DEF MQInv, MQTypeOK, WellLinked, Held, PushRefused
<1>5. SameQueue
  BY DEF SameQueue, Contents, PushRefused
<1> QED BY <1>2, <1>3, <1>4, <1>5 DEF MQInv

\* The node becomes the last of the list, and its message that of the queue.
LEMMA PushLinkStep ==
    ASSUME MQInv, NEW t \in Thread, PushLink(t)
    PROVE  /\ MQInv'
           /\ Contents' = Append(Contents, msg[node[t]])
           /\ msg[node[t]] \in Msg /\ ~shutdown /\ got' = got /\ shutdown' = shutdown
<1> DEFINE k == node[t]
           N == Len(chain)
<1>1. k \in Node /\ k \in heap /\ k \notin Linked /\ k # cnode /\ k # Null
  BY ListFacts DEF PushLink, MQInv, NodesOwned
<1>2. msg[k] \in Msg /\ next[k] = Null /\ ~shutdown
  BY DEF PushLink, MQInv, Held
<1>3. /\ N \in Nat /\ chain \in Seq(Node)
      /\ \A i \in 1..N : chain[i] \in Node /\ chain[i] # Null /\ chain[i] # k
  BY <1>1, ListFacts DEF MQInv, MQTypeOK, Linked
<1>4. /\ chain' = Append(chain, k) /\ chain' \in Seq(Node) /\ Len(chain') = N + 1
      /\ \A i \in 1..N : chain'[i] = chain[i]
      /\ chain'[N + 1] = k
  BY <1>1, <1>3, AppendProperties DEF PushLink
<1>5. Linked' = Linked \cup {k}
  <2>1. 1..(N + 1) = (1..N) \cup {N + 1}
    BY <1>3
  <2> QED BY <1>4, <2>1 DEF Linked
<1>6. (tail = Null) <=> (chain = <<>>)
  BY <1>3 DEF MQInv, WellLinked
<1>7. chain # <<>> => N \in 1..N /\ tail = chain[N] /\ tail \in Node /\ N >= 1
  BY <1>3, EmptySeq DEF MQInv, WellLinked
<1>8. /\ node' = [node EXCEPT ![t] = Null] /\ ppc[t] = "link" /\ ppc' = [ppc EXCEPT ![t] = "out"]
      /\ UNCHANGED <<shutdown, heap, msg, cnode, got>>
      /\ cpc' = (IF cpc = "wait" THEN "woken" ELSE cpc)
      /\ count' = count + 1 /\ tail' = k
      /\ head' = (IF tail = Null THEN k ELSE head)
      /\ next' = (IF tail = Null THEN next ELSE [next EXCEPT ![tail] = k])
  BY DEF PushLink, Wake
<1> HIDE DEF k, N
<1>9. /\ node'[t] = Null /\ ppc'[t] = "out"
      /\ \A u \in Thread \ {t} : node'[u] = node[u] /\ ppc'[u] = ppc[u]
  BY <1>8 DEF MQInv, MQTypeOK
<1>10. k = node[t] /\ N = Len(chain)
  BY DEF k, N
<1>11. MQTypeOK'
  BY <1>1, <1>4, <1>8 DEF MQInv, MQTypeOK
<1>12. NodesOwned'
  <2>1. \A i, j \in 1..Len(chain') : chain'[i] = chain'[j] => i = j
    BY <1>3, <1>4, <1>10 DEF MQInv, NodesOwned
  <2>2. ASSUME NEW u \in Thread, ppc'[u] # "out"
        PROVE  node'[u] \in heap' \ Linked' /\ node'[u] # cnode'
    BY <1>5, <1>8, <1>9, <1>10, <2>2 DEF MQInv, NodesOwned
  <2>3. ASSUME NEW u \in Thread, NEW v \in Thread, ppc'[u] # "out", node'[u] = node'[v]
        PROVE  u = v
    BY <1>9, <2>3, ListFacts DEF MQInv, NodesOwned
  <2>4. cpc' = "free" => cnode' \in heap' \ Linked'
    BY <1>1, <1>5, <1>8 DEF MQInv, NodesOwned
  <2>5. heap' = Linked' \cup {node'[u] : u \in {v \in Thread : ppc'[v] # "out"}}
                       \cup (IF cpc' = "free" THEN {cnode'} ELSE {})
    <3>1. {node[u] : u \in {v \in Thread : ppc[v] # "out"}}
             = {node'[u] : u \in {v \in Thread : ppc'[v] # "out"}} \cup {k}
      BY <1>8, <1>9, <1>10
    <3>2. (cpc' = "free") <=> (cpc = "free")
      BY <1>8
    <3> QED BY <1>1, <1>5, <1>8, <3>1, <3>2 DEF MQInv, NodesOwned
  <2> QED BY <2>1, <2>2, <2>3, <2>4, <2>5 DEF NodesOwned
<1>13. WellLinked'
  <2>1. count' = Len(chain') /\ chain' # <<>> /\ tail' = chain'[Len(chain')]
    BY <1>3, <1>4, <1>8, <1>10, EmptySeq DEF MQInv, WellLinked
  <2>2. head' = chain'[1]
    BY <1>3, <1>4, <1>6, <1>7, <1>8, <1>10 DEF MQInv, WellLinked
  <2>3. \A x \in Node : next'[x] = IF tail # Null /\ x = tail THEN k ELSE next[x]
    BY <1>8 DEF MQInv, MQTypeOK
  <2>4. ASSUME NEW i \in 1..N
        PROVE  next'[chain'[i]] = chain'[i + 1]
    <3>1. chain # <<>>
      BY <1>3, <1>10, EmptySeq
    <3>2. tail = chain[N] /\ tail # Null /\ N \in 1..N
      BY <1>6, <1>7, <3>1
    <3>3. CASE i = N
      BY <1>3, <1>4, <2>3, <3>2, <3>3
    <3>4. CASE i # N
      <4>1. i + 1 \in 1..N
        BY <1>3, <3>4
      <4>2. \A j \in 1..N : chain[i] = chain[j] => i = j
        BY <1>10 DEF MQInv, NodesOwned
      <4>3. chain[i] # chain[N]
        BY <3>2, <3>4, <4>2
      <4>4. next[chain[i]] = chain[i + 1]
        BY <1>10, <3>4 DEF MQInv, WellLinked
      <4> QED BY <1>3, <1>4, <2>3, <3>2, <4>1, <4>3, <4>4
    <3> QED BY <3>3, <3>4
  <2>5. next'[chain'[N + 1]] = Null
    <3>1. ~(tail # Null /\ k = tail)
      BY <1>3, <1>6, <1>7
    <3> QED BY <1>1, <1>2, <1>4, <2>3, <3>1
  <2> QED BY <1>3, <1>4, <2>1, <2>2, <2>4, <2>5 DEF WellLinked
<1>14. Held'
  <2>1. \A u \in Thread : ppc'[u] = "out" => node'[u] = Null
    BY <1>8, <1>9 DEF MQInv, Held
  <2>2. ASSUME NEW u \in Thread, ppc'[u] = "link"
        PROVE  msg'[node'[u]] \in Msg /\ next'[node'[u]] = Null
    <3>1. u # t /\ node'[u] = node[u] /\ ppc[u] = "link" /\ node[u] \notin Linked /\ node[u] \in Node
      BY <1>9, <2>2, ListFacts DEF MQInv, NodesOwned
    <3>2. chain # <<>> => node[u] # tail
      BY <1>7, <1>10, <3>1 DEF Linked
    <3> QED BY <1>6, <1>7, <1>8, <3>1, <3>2 DEF MQInv, MQTypeOK, Held
  <2>3. \A i \in 1..Len(chain') : msg'[chain'[i]] \in Msg
    BY <1>2, <1>3, <1>4, <1>8, <1>10 DEF MQInv, Held
  <2>4. (cpc' # "free" => cnode' = Null) /\ (cpc' = "free" => got' # <<>>)
    BY <1>8 DEF MQInv, Held
  <2> QED BY <2>1, <2>2, <2>3, <2>4 DEF Held
<1>15. Contents' = Append(Contents, msg[k])
  <2>1. Contents \in Seq(Msg) /\ Len(Contents) = N /\ \A i \in 1..N : Contents[i] = msg[chain[i]]
    BY <1>10, ContentsType
  <2>2. MQInv' 
    BY <1>11, <1>12, <1>13, <1>14 DEF MQInv
  <2>3. /\ Contents' \in Seq(Msg) /\ Len(Contents') = N + 1
        /\ \A i \in 1..(N + 1) : Contents'[i] = msg[chain'[i]]
    <3>1. Contents' = [i \in 1..(N + 1) |-> msg[chain'[i]]]
      BY <1>4, <1>8 DEF Contents
    <3>2. \A i \in 1..(N + 1) : msg[chain'[i]] \in Msg
      BY <1>4, <1>8, <2>2 DEF MQInv, Held
    <3> HIDE DEF Contents
    <3>3. Contents' \in [1..(N + 1) -> Msg]
      BY <3>1, <3>2
    <3>4. Contents' \in Seq(Msg)
      BY <1>3, <3>3, SeqDef
    <3>5. Len(Contents') = N + 1
      BY <1>3, <3>1, <3>4, LenProperties
    <3> QED BY <3>1, <3>4, <3>5
  <2>4. /\ Append(Contents, msg[k]) \in Seq(Msg) /\ Len(Append(Contents, msg[k])) = N + 1
        /\ \A i \in 1..N : Append(Contents, msg[k])[i] = Contents[i]
        /\ Append(Contents, msg[k])[N + 1] = msg[k]
    BY <1>2, <2>1, AppendProperties
  <2>5. \A i \in 1..(N + 1) : Contents'[i] = Append(Contents, msg[k])[i]
    BY <1>3, <1>4, <2>1, <2>3, <2>4
  <2> HIDE DEF Contents
  <2> QED BY <2>3, <2>4, <2>5, SeqEqual
<1> QED BY <1>2, <1>8, <1>10, <1>11, <1>12, <1>13, <1>14, <1>15 DEF MQInv

LEMMA PushFreeStep ==
    ASSUME MQInv, NEW t \in Thread, PushFree(t)
    PROVE  MQInv' /\ SameQueue
<1> DEFINE k == node[t]
<1>1. k \in Node /\ k \in heap /\ k \notin Linked /\ k # cnode
  BY ListFacts DEF PushFree, MQInv, NodesOwned
<1>2. /\ heap' = heap \ {k}
      /\ next' \in [Node -> Node \cup {Null}] /\ msg' \in [Node -> Msg \cup {Null}]
      /\ \A n \in Node \ {k} : next'[n] = next[n] /\ msg'[n] = msg[n]
  BY <1>1, FreeStep DEF PushFree
<1>3. /\ node' = [node EXCEPT ![t] = Null] /\ ppc[t] = "refused"
      /\ ppc' = [ppc EXCEPT ![t] = "out"]
      /\ UNCHANGED <<head, tail, count, shutdown, chain, cpc, cnode, got>>
  BY DEF PushFree
<1>4. /\ node'[t] = Null /\ ppc'[t] = "out" /\ k = node[t]
      /\ \A u \in Thread \ {t} : node'[u] = node[u] /\ ppc'[u] = ppc[u]
  BY <1>3 DEF MQInv, MQTypeOK
<1> HIDE DEF k
<1>5. \A i \in 1..Len(chain) : chain[i] \in Node \ {k}
  BY <1>1, ListFacts DEF Linked
<1>6. \A u \in Thread \ {t} : ppc[u] # "out" => node[u] \in Node \ {k}
  BY <1>3, <1>4, ListFacts DEF MQInv, NodesOwned
<1>7. MQTypeOK'
  BY <1>2, <1>3 DEF MQInv, MQTypeOK
<1>8. NodesOwned'
  <2>1. Linked' = Linked
    BY <1>3 DEF Linked
  <2>2. \A i, j \in 1..Len(chain') : chain'[i] = chain'[j] => i = j
    BY <1>3 DEF MQInv, NodesOwned
  <2>3. \A u \in Thread : ppc'[u] # "out" => node'[u] \in heap' \ Linked' /\ node'[u] # cnode'
    BY <1>2, <1>3, <1>4, <1>6, <2>1 DEF MQInv, NodesOwned
  <2>4. ASSUME NEW u \in Thread, NEW v \in Thread, ppc'[u] # "out", node'[u] = node'[v]
        PROVE  u = v
    BY <1>4, <2>4, ListFacts DEF MQInv, NodesOwned
  <2>5. cpc' = "free" => cnode' \in heap' \ Linked'
    BY <1>1, <1>2, <1>3, <2>1 DEF MQInv, NodesOwned
  <2>6. heap' = Linked' \cup {node'[u] : u \in {v \in Thread : ppc'[v] # "out"}}
                       \cup (IF cpc' = "free" THEN {cnode'} ELSE {})
    <3>1. {node'[u] : u \in {v \in Thread : ppc'[v] # "out"}}
             = {node[u] : u \in {v \in Thread : ppc[v] # "out"}} \ {k}
      BY <1>3, <1>4, <1>6
    <3> QED BY <1>1, <1>2, <1>3, <2>1, <3>1 DEF MQInv, NodesOwned
  <2> QED BY <2>2, <2>3, <2>4, <2>5, <2>6 DEF NodesOwned
<1>9. WellLinked'
  BY <1>2, <1>3, <1>5 DEF MQInv, WellLinked
<1>10. Held'
  BY <1>2, <1>3, <1>4, <1>5, <1>6 DEF MQInv, Held
<1>11. Contents' = Contents
  BY <1>2, <1>3, <1>5 DEF Contents
<1> QED BY <1>3, <1>7, <1>8, <1>9, <1>10, <1>11 DEF MQInv, SameQueue

-----------------------------------------------------------------------------
(* The steps of mq_pop().                                                  *)

LEMMA PopQuietStep ==
    ASSUME MQInv, PopCall \/ PopWait \/ PopSpurious \/ PopFails
    PROVE  MQInv' /\ SameQueue
<1>1. UNCHANGED <<head, tail, count, shutdown, chain, nodeVars, pushVars, cnode, got>>
  BY DEF PopCall, PopWait, PopSpurious, PopFails
<1>2. cpc' \in {"out", "pop", "wait", "woken", "free"} /\ (cpc' = "free" <=> cpc = "free")
  BY DEF PopCall, PopWait, PopSpurious, PopFails, Holding, MustWait
<1>3. shutdown' \in BOOLEAN
  BY <1>1 DEF MQInv, MQTypeOK
<1> QED BY <1>1, <1>2, <1>3, QuietStep DEF SameQueue

\* The first node leaves the list and its message is handed out.
LEMMA PopTakeStep ==
    ASSUME MQInv, PopTake
    PROVE  /\ MQInv'
           /\ Contents # <<>> /\ Contents' = Tail(Contents)
           /\ got' = Append(got, Head(Contents)) /\ shutdown' = shutdown
<1> DEFINE N == Len(chain)
<1>1. /\ cpc \in {"pop", "woken"} /\ head # Null /\ cnode' = head /\ head' = next[head]
      /\ tail' = (IF next[head] = Null THEN Null ELSE tail)
      /\ count' = count - 1 /\ chain' = Tail(chain) /\ got' = Append(got, msg[head])
      /\ cpc' = "free"
      /\ UNCHANGED <<shutdown, heap, next, msg, node, ppc>>
  BY DEF PopTake, Holding
<1>2. chain # <<>> /\ head = chain[1] /\ chain \in Seq(Node)
  BY <1>1 DEF MQInv, MQTypeOK, WellLinked
<1>3. N \in Nat \ {0} /\ 1 \in 1..N /\ N \in 1..N
  BY <1>2, EmptySeq
<1>4. /\ chain' \in Seq(Node) /\ Len(chain') = N - 1
      /\ \A i \in 1..(N - 1) : chain'[i] = chain[i + 1] /\ i + 1 \in 1..N
  BY <1>1, <1>2, <1>3, HeadTailProperties
<1>5. \A i \in 1..N : chain[i] \in Node /\ chain[i] \in heap /\ chain[i] # Null
  BY ListFacts
<1>6. \A i, j \in 1..N : chain[i] = chain[j] => i = j
  BY DEF MQInv, NodesOwned
<1>7. next[head] = (IF N = 1 THEN Null ELSE chain[2])
  BY <1>2, <1>3 DEF MQInv, WellLinked
<1> HIDE DEF N
<1>8. N = Len(chain)
  BY DEF N
<1>9. Linked = Linked' \cup {head} /\ head \notin Linked' /\ head \in Node /\ head \in heap
  <2>1. \A i \in 1..N : i = 1 \/ (i - 1 \in 1..(N - 1) /\ chain[i] = chain'[i - 1])
    BY <1>3, <1>4
  <2>2. Linked = {chain[i] : i \in 1..N} /\ Linked' = {chain'[i] : i \in 1..(N - 1)}
    BY <1>4, <1>8 DEF Linked
  <2>3. head \notin Linked'
    BY <1>2, <1>3, <1>4, <1>6, <2>2
  <2>4. Linked = Linked' \cup {head}
    <3>1. ASSUME NEW n \in Linked
          PROVE  n = head \/ n \in Linked'
      BY <1>2, <2>1, <2>2, <3>1
    <3>2. \A n \in Linked' : n \in Linked
      BY <1>4, <2>2
    <3> QED BY <1>2, <1>3, <2>2, <3>1, <3>2
  <2> QED BY <1>2, <1>3, <1>5, <2>3, <2>4
<1>10. msg[head] \in Msg
  BY <1>2, <1>3, <1>8 DEF MQInv, Held
<1>11. /\ got' \in Seq(Msg) /\ got' # <<>>
  BY <1>1, <1>10, AppendProperties DEF MQInv, MQTypeOK
<1>12. MQTypeOK'
  <2>1. count' \in Nat
    BY <1>1, <1>3, <1>8 DEF MQInv, WellLinked
  <2> QED BY <1>1, <1>4, <1>9, <1>11, <2>1 DEF MQInv, MQTypeOK
<1>13. NodesOwned'
  <2>1. \A i, j \in 1..Len(chain') : chain'[i] = chain'[j] => i = j
    BY <1>3, <1>4, <1>6
  <2>2. \A u \in Thread : ppc'[u] # "out" => node'[u] \in heap' \ Linked' /\ node'[u] # cnode'
    BY <1>1, <1>9 DEF MQInv, NodesOwned
  <2>3. \A u, v \in Thread : ppc'[u] # "out" /\ node'[u] = node'[v] => u = v
    BY <1>1 DEF MQInv, NodesOwned
  <2>4. cnode' \in heap' \ Linked'
    BY <1>1, <1>9
  <2>5. heap' = Linked' \cup {node'[u] : u \in {v \in Thread : ppc'[v] # "out"}}
                       \cup (IF cpc' = "free" THEN {cnode'} ELSE {})
    BY <1>1, <1>9 DEF MQInv, NodesOwned
  <2> QED BY <2>1, <2>2, <2>3, <2>4, <2>5 DEF NodesOwned
<1>14. WellLinked'
  <2>1. count' = Len(chain')
    BY <1>1, <1>4, <1>8 DEF MQInv, WellLinked
  <2>2. (chain' = <<>>) <=> (N = 1)
    BY <1>3, <1>4, EmptySeq
  <2>3. head' = IF chain' = <<>> THEN Null ELSE chain'[1]
    BY <1>1, <1>3, <1>4, <1>7, <2>2
  <2>4. tail' = IF chain' = <<>> THEN Null ELSE chain'[Len(chain')]
    <3>1. tail = chain[N]
      BY <1>2, <1>8 DEF MQInv, WellLinked
    <3> QED BY <1>1, <1>3, <1>4, <1>5, <1>7, <2>2, <3>1
  <2>5. ASSUME NEW i \in 1..(N - 1)
        PROVE  next'[chain'[i]] = IF i = N - 1 THEN Null ELSE chain'[i + 1]
    <3>1. i + 1 \in 1..N /\ chain'[i] = chain[i + 1]
      BY <1>4
    <3>2. next[chain[i + 1]] = IF i + 1 = N THEN Null ELSE chain[(i + 1) + 1]
      BY <1>8, <3>1 DEF MQInv, WellLinked
    <3> QED BY <1>1, <1>3, <1>4, <3>1, <3>2
  <2> QED BY <1>4, <2>1, <2>3, <2>4, <2>5 DEF WellLinked
<1>15. Held'
  <2>1. \A i \in 1..Len(chain') : msg'[chain'[i]] \in Msg
    BY <1>1, <1>4, <1>8 DEF MQInv, Held
  <2> QED BY <1>1, <1>11, <2>1 DEF MQInv, Held
<1>16. Contents # <<>> /\ Head(Contents) = msg[head] /\ Contents' = Tail(Contents)
  <2>1. Contents \in Seq(Msg) /\ Len(Contents) = N /\ \A i \in 1..N : Contents[i] = msg[chain[i]]
    BY <1>8, ContentsType
  <2>2. Contents' = [i \in 1..(N - 1) |-> msg[chain'[i]]]
    BY <1>1, <1>4 DEF Contents
  <2> HIDE DEF Contents
  <2>3. Contents # <<>> /\ Head(Contents) = Contents[1]
    BY <1>3, <2>1, EmptySeq
  <2>4. /\ Tail(Contents) \in Seq(Msg) /\ Len(Tail(Contents)) = N - 1
        /\ \A i \in 1..(N - 1) : Tail(Contents)[i] = Contents[i + 1]
    BY <2>1, <2>3, HeadTailProperties
  <2>5. Tail(Contents) \in [1..(N - 1) -> Msg]
    BY <2>4, LenProperties
  <2>6. \A i \in 1..(N - 1) : Tail(Contents)[i] = msg[chain'[i]]
    BY <1>4, <2>1, <2>4
  <2> QED BY <1>2, <1>3, <2>1, <2>2, <2>3, <2>5, <2>6
<1> QED BY <1>1, <1>12, <1>13, <1>14, <1>15, <1>16 DEF MQInv

LEMMA PopFreeStep ==
    ASSUME MQInv, PopFree
    PROVE  MQInv' /\ SameQueue
<1>1. cnode \in Node /\ cnode \in heap /\ cnode \notin Linked /\ cpc = "free"
  BY ListFacts DEF PopFree, MQInv, NodesOwned
<1>2. /\ heap' = heap \ {cnode}
      /\ next' \in [Node -> Node \cup {Null}] /\ msg' \in [Node -> Msg \cup {Null}]
      /\ \A n \in Node \ {cnode} : next'[n] = next[n] /\ msg'[n] = msg[n]
  BY <1>1, FreeStep DEF PopFree
<1>3. /\ cnode' = Null /\ cpc' = "out"
      /\ UNCHANGED <<head, tail, count, shutdown, chain, node, ppc, got>>
  BY DEF PopFree
<1>4. \A i \in 1..Len(chain) : chain[i] \in Node \ {cnode}
  BY <1>1, ListFacts DEF Linked
<1>5. \A u \in Thread : ppc[u] # "out" => node[u] \in Node \ {cnode}
  BY ListFacts DEF MQInv, NodesOwned
<1>6. MQTypeOK'
  BY <1>2, <1>3 DEF MQInv, MQTypeOK
<1>7. NodesOwned'
  <2>1. Linked' = Linked
    BY <1>3 DEF Linked
  <2>2. \A i, j \in 1..Len(chain') : chain'[i] = chain'[j] => i = j
    BY <1>3 DEF MQInv, NodesOwned
  <2>3. \A u \in Thread : ppc'[u] # "out" => node'[u] \in heap' \ Linked' /\ node'[u] # cnode'
    BY <1>2, <1>3, <1>5, <2>1, NullAssumption DEF MQInv, NodesOwned
  <2>4. \A u, v \in Thread : ppc'[u] # "out" /\ node'[u] = node'[v] => u = v
    BY <1>3 DEF MQInv, NodesOwned
  <2>5. heap' = Linked' \cup {node'[u] : u \in {v \in Thread : ppc'[v] # "out"}}
    <3>1. cnode \notin {node[u] : u \in {v \in Thread : ppc[v] # "out"}}
      BY <1>5
    <3> QED BY <1>1, <1>2, <1>3, <2>1, <3>1 DEF MQInv, NodesOwned
  <2> QED BY <1>3, <2>2, <2>3, <2>4, <2>5 DEF NodesOwned
<1>8. WellLinked'
  BY <1>2, <1>3, <1>4 DEF MQInv, WellLinked
<1>9. Held'
  BY <1>2, <1>3, <1>4, <1>5 DEF MQInv, Held
<1>10. Contents' = Contents
  BY <1>2, <1>3, <1>4 DEF Contents
<1> QED BY <1>3, <1>6, <1>7, <1>8, <1>9, <1>10 DEF MQInv, SameQueue

-----------------------------------------------------------------------------
(* The shutdown and the end.                                               *)

LEMMA SignalShutdownStep ==
    ASSUME MQInv, mq_signal_shutdown
    PROVE  MQInv' /\ Contents' = Contents /\ got' = got /\ shutdown'
<1>1. /\ UNCHANGED <<head, tail, count, chain, nodeVars, pushVars, cnode, got>>
      /\ shutdown' = TRUE /\ cpc' = (IF cpc = "wait" THEN "woken" ELSE cpc)
  BY DEF mq_signal_shutdown, Wake
<1>2. cpc' \in {"out", "pop", "wait", "woken", "free"} /\ (cpc' = "free" <=> cpc = "free")
  BY <1>1 DEF MQInv, MQTypeOK
<1>3. shutdown' \in BOOLEAN
  BY <1>1
<1> QED BY <1>1, <1>2, <1>3, QuietStep

\* The nodes of the list are freed; what threads are about to push stays theirs.
LEMMA DestroyStep ==
    ASSUME MQInv, mq_destroy
    PROVE  MQInv' /\ Contents' = <<>> /\ got' = got /\ shutdown' = shutdown
<1>1. /\ heap' = heap \ Linked
      /\ next' \in [Node -> Node \cup {Null}] /\ msg' \in [Node -> Msg \cup {Null}]
      /\ \A n \in Node \ Linked : next'[n] = next[n] /\ msg'[n] = msg[n]
  BY DEF mq_destroy, Free, Linked, MQInv, MQTypeOK
<1>2. /\ head' = Null /\ tail' = Null /\ count' = 0 /\ chain' = <<>>
      /\ UNCHANGED <<shutdown, node, ppc, cpc, cnode, got>>
  BY DEF mq_destroy
<1>3. Linked' = {} /\ Len(chain') = 0 /\ 1..Len(chain') = {}
  BY <1>2 DEF Linked
<1>4. \A u \in Thread : ppc[u] # "out" => node[u] \in Node \ Linked
  BY ListFacts DEF MQInv, NodesOwned
<1>5. MQTypeOK'
  BY <1>1, <1>2 DEF MQInv, MQTypeOK
<1>6. NodesOwned'
  <2>1. \A u \in Thread : ppc'[u] # "out" => node'[u] \in heap' \ Linked' /\ node'[u] # cnode'
    BY <1>1, <1>2, <1>3, <1>4 DEF MQInv, NodesOwned
  <2>2. \A u, v \in Thread : ppc'[u] # "out" /\ node'[u] = node'[v] => u = v
    BY <1>2 DEF MQInv, NodesOwned
  <2>3. cpc' = "free" => cnode' \in heap' \ Linked'
    BY <1>1, <1>2, <1>3 DEF MQInv, NodesOwned
  <2>4. heap' = Linked' \cup {node'[u] : u \in {v \in Thread : ppc'[v] # "out"}}
                       \cup (IF cpc' = "free" THEN {cnode'} ELSE {})
    <3>1. \A n \in {node[u] : u \in {v \in Thread : ppc[v] # "out"}} : n \notin Linked
      BY <1>4
    <3>2. cpc = "free" => cnode \notin Linked
      BY DEF MQInv, NodesOwned
    <3> QED BY <1>1, <1>2, <1>3, <3>1, <3>2 DEF MQInv, NodesOwned
  <2> QED BY <1>3, <2>1, <2>2, <2>3, <2>4 DEF NodesOwned
<1>7. WellLinked'
  BY <1>2, <1>3 DEF WellLinked
<1>8. Held'
  BY <1>1, <1>2, <1>3, <1>4 DEF MQInv, Held
<1>9. Contents' = <<>>
  BY <1>3 DEF Contents
<1> QED BY <1>2, <1>5, <1>6, <1>7, <1>8, <1>9 DEF MQInv

\* mq_init() makes an empty queue.
LEMMA MQInitStep ==
    ASSUME MQInit
    PROVE  MQInv /\ Contents = <<>> /\ got = <<>> /\ shutdown = FALSE
<1>1. Len(chain) = 0 /\ 1..Len(chain) = {} /\ chain \in Seq(Node) /\ got \in Seq(Msg)
  BY EmptySeq DEF MQInit
<1>2. MQTypeOK
  BY <1>1 DEF MQInit, mq_init, MQTypeOK
<1>3. NodesOwned
  BY <1>1 DEF MQInit, NodesOwned, Linked
<1>4. WellLinked /\ Held
  BY <1>1 DEF MQInit, mq_init, WellLinked, Held
<1>5. Contents = <<>>
  BY <1>1 DEF Contents
<1> QED BY <1>2, <1>3, <1>4, <1>5 DEF MQInv, MQInit, mq_init

\* Nothing of the queue changes.
LEMMA MQStutter ==
    ASSUME MQInv, UNCHANGED mqVars
    PROVE  MQInv' /\ SameQueue
<1>1. shutdown' \in BOOLEAN /\ cpc' \in {"out", "pop", "wait", "woken", "free"}
  BY DEF MQInv, MQTypeOK
<1> QED BY <1>1, QuietStep DEF SameQueue
=============================================================================
