------------------------ MODULE ServerLifecycleProofs ------------------------
(***************************************************************************)
(* Proofs about the life of the server process, for any number of          *)
(* connections and signals and any content of users.db: what the parts,    *)
(* the broadcaster and the listening socket are like wherever the main     *)
(* thread is, and that the list of users describes what auth_init() has    *)
(* read of the file.                                                       *)
(***************************************************************************)
EXTENDS ServerLifecycle, SequenceTheorems, TLAPS

State == {"raw", "ready", "destroyed", "leaked", "undefined"}

\* What server_destroy() has destroyed when it comes to part m.
Gone(m) ==
    CASE m = "queue"     -> {}
      [] m = "registry"  -> {"queue"}
      [] m = "rooms"     -> {"queue", "registry"}
      [] m = "auth"      -> {"queue", "registry", "rooms"}
      [] m = "conn_lock" -> {"queue", "registry", "rooms", "auth"}
      [] m = "return"    -> Part

\* server_init() creates the parts in its order, one after the other.
Created ==
    /\ \A p \in Part : part[p] \in {"raw", "ready"}
    /\ part["registry"] = "ready" => part["conn_lock"] = "ready"
    /\ part["queue"] = "ready" => part["registry"] = "ready"
    /\ part["rooms"] = "ready" => part["queue"] = "ready"
    /\ part["auth"] = "raw"

\* The parts, by where the main thread is: they are created one after the other
\* before the handlers are installed, and destroyed one after the other after
\* the join.
PartsByPhase ==
    /\ proc = "up" <=> mpc # "over"
    /\ mpc = "start" => \A p \in Part : part[p] = "raw"
    /\ mpc \in {"start", "init"} => Created /\ ~caught
    /\ mpc \in {"install", "socket", "bind", "create", "test", "enter", "accept",
                "shutdown", "join"} =>
           \A p \in Part : part[p] = "ready"
    /\ mpc \in Part \cup {"return"} =>
           \A p \in Part : part[p] = IF p \in Gone(mpc) THEN "destroyed" ELSE "ready"
    /\ proc \in {"exited", "failed"} => \A p \in Part : part[p] # "ready"
    /\ \A p \in Part : part[p] = "leaked" => p \in {"rooms", "auth"} /\ ~caught /\ mpc = "over"
    /\ DestroyedOnce

\* The broadcaster exists once pthread_create() has succeeded, and is over when
\* the join has returned.
FanByPhase ==
    /\ bpc # "none" <=> tid = "thread"
    /\ mpc \in {"start", "init", "install", "socket", "bind", "create"} => bpc = "none"
    /\ mpc \in Part \cup {"return"} => bpc \in {"none", "done"}
    /\ proc \in {"exited", "failed"} => bpc \in {"none", "done"}

\* There is no listening socket before server_run() and none after main().
ListenByPhase ==
    /\ mpc \in {"start", "init", "install", "socket"} => ~listening
    /\ proc \in {"exited", "failed"} => ~listening

\* The k-th record is the one a lookup of its user finds.
First(k) == \A j \in 1..(k - 1) : db[j].user # db[k].user

\* The i-th line is the last so far that names its user.
LastSoFar(i) == \A j \in (i + 1)..line : file[j].user # file[i].user

\* What auth_init() has read: the records that lookups find are those of the
\* lines that count.
DbDescribes ==
    /\ \A k \in 1..Len(db) : First(k) =>
           \E i \in 1..line : file[i] # Skipped /\ LastSoFar(i) /\ db[k] = Record(file[i])
    /\ \A i \in 1..line : file[i] # Skipped /\ LastSoFar(i) =>
           \E k \in 1..Len(db) : First(k) /\ db[k] = Record(file[i])

DbByPhase ==
    /\ mpc = "start" => line = 0 /\ db = <<>>
    /\ mpc = "init" \/ part["auth"] = "ready" => DbDescribes
    /\ part["auth"] = "ready" => line = Len(file)

LifeInv == TypeOK /\ PartsByPhase /\ FanByPhase /\ ListenByPhase /\ DbByPhase

USE DEF dbVars, runVars, fanVars, handlerVars, State

-----------------------------------------------------------------------------
(* The parts.                                                              *)

LEMMA Parts ==
    /\ Part = {"conn_lock", "registry", "queue", "rooms", "auth"}
    /\ \A p \in Part : \E i \in 1..Len(InitOrder) : InitOrder[i] = p
    /\ \A i \in 1..Len(InitOrder) : InitOrder[i] \in Part
    /\ \A i \in 1..Len(DestroyOrder) : DestroyOrder[i] \in Part
<1>1. /\ Len(InitOrder) = 5 /\ InitOrder[1] = "conn_lock" /\ InitOrder[2] = "registry"
      /\ InitOrder[3] = "queue" /\ InitOrder[4] = "rooms" /\ InitOrder[5] = "auth"
  BY DEF InitOrder
<1>2. /\ Len(DestroyOrder) = 5 /\ DestroyOrder[1] = "queue" /\ DestroyOrder[2] = "registry"
      /\ DestroyOrder[3] = "rooms" /\ DestroyOrder[4] = "auth" /\ DestroyOrder[5] = "conn_lock"
  BY DEF DestroyOrder
<1>3. \A i \in 1..5 : i = 1 \/ i = 2 \/ i = 3 \/ i = 4 \/ i = 5
  OBVIOUS
<1>4. Part = {"conn_lock", "registry", "queue", "rooms", "auth"}
  BY <1>1, <1>3 DEF Part
<1>5. \A i \in 1..5 : InitOrder[i] \in Part /\ DestroyOrder[i] \in Part
  BY <1>1, <1>2, <1>3, <1>4
<1> QED BY <1>1, <1>2, <1>4, <1>5

\* What a command uses are parts.
LEMMA UsesParts == \A cmd \in Command \cup {"END", "EOF"} : Uses(cmd) \in Seq(Part)
<1>1. {"registry", "queue", "rooms", "auth", "conn_lock"} \subseteq Part
  BY Parts
<1>2. Uses("AUTH") \in Seq(Part)
  BY <1>1 DEF Uses
<1>3. Uses("JOIN_ROOM") \in Seq(Part)
  BY <1>1 DEF Uses
<1>4. Uses("MSG") \in Seq(Part) /\ Uses("HISTORY") \in Seq(Part) /\ Uses("LOOKUP") \in Seq(Part)
  BY <1>1 DEF Uses
<1>5. Uses("END") \in Seq(Part) /\ Uses("EOF") \in Seq(Part)
  BY <1>1 DEF Uses
<1> QED BY <1>2, <1>3, <1>4, <1>5 DEF Command

\* server_destroy() has destroyed nothing when it starts, and everything when it
\* returns.
LEMMA GoneAtEnds == Gone("queue") = {} /\ Gone("return") = Part
BY DEF Gone

\* server_destroy() goes through the parts in this order.
LEMMA DestroySteps ==
    ASSUME NEW i \in 1..Len(DestroyOrder)
    PROVE  LET next == IF i < Len(DestroyOrder) THEN DestroyOrder[i + 1] ELSE "return"
           IN  /\ DestroyOrder[i] \in Part /\ next \in (Part \ {"queue"}) \cup {"return"}
               /\ DestroyOrder[i] \notin Gone(DestroyOrder[i])
               /\ \A p \in Part : p \in Gone(next) <=>
                                      p = DestroyOrder[i] \/ p \in Gone(DestroyOrder[i])
<1>1. /\ Len(DestroyOrder) = 5 /\ DestroyOrder[1] = "queue" /\ DestroyOrder[2] = "registry"
      /\ DestroyOrder[3] = "rooms" /\ DestroyOrder[4] = "auth" /\ DestroyOrder[5] = "conn_lock"
  BY DEF DestroyOrder
<1>2. i = 1 \/ i = 2 \/ i = 3 \/ i = 4 \/ i = 5
  BY <1>1
<1>3. /\ Gone("queue") = {} /\ Gone("registry") = {"queue"}
      /\ Gone("rooms") = {"queue", "registry"} /\ Gone("auth") = {"queue", "registry", "rooms"}
      /\ Gone("conn_lock") = {"queue", "registry", "rooms", "auth"} /\ Gone("return") = Part
  BY DEF Gone
<1> DEFINE next == IF i < Len(DestroyOrder) THEN DestroyOrder[i + 1] ELSE "return"
<1>4. \/ DestroyOrder[i] = "queue" /\ next = "registry"
      \/ DestroyOrder[i] = "registry" /\ next = "rooms"
      \/ DestroyOrder[i] = "rooms" /\ next = "auth"
      \/ DestroyOrder[i] = "auth" /\ next = "conn_lock"
      \/ DestroyOrder[i] = "conn_lock" /\ next = "return"
  BY <1>1, <1>2
<1> HIDE DEF next
<1>5. /\ DestroyOrder[i] \in Part /\ next \in (Part \ {"queue"}) \cup {"return"}
      /\ DestroyOrder[i] \notin Gone(DestroyOrder[i])
      /\ \A p \in Part : p \in Gone(next) <=>
                             p = DestroyOrder[i] \/ p \in Gone(DestroyOrder[i])
  BY <1>3, <1>4, Parts
<1> QED BY <1>5 DEF next

\* The part server_init() is at: what the branch of its failure destroys has
\* been created.
LEMMA AtPart ==
    ASSUME TypeOK, NEW p, At(p)
    PROVE  /\ proc = "up" /\ mpc = "init" /\ p \in Part /\ part[p] = "raw"
           /\ \A q \in Undone(p) : part[q] # "raw" /\ q \in Part /\ q # p
<1>1. /\ Len(InitOrder) = 5 /\ InitOrder[1] = "conn_lock" /\ InitOrder[2] = "registry"
      /\ InitOrder[3] = "queue" /\ InitOrder[4] = "rooms" /\ InitOrder[5] = "auth"
  BY DEF InitOrder
<1>2. PICK i \in 1..Len(InitOrder) :
         /\ InitOrder[i] = p /\ part[p] = "raw"
         /\ \A j \in 1..(i - 1) : part[InitOrder[j]] # "raw"
  BY DEF At
<1>3. i = 1 \/ i = 2 \/ i = 3 \/ i = 4 \/ i = 5
  BY <1>1, <1>2
<1>4. \A j \in 1..5 : j < i => part[InitOrder[j]] # "raw"
  BY <1>1, <1>2
<1>5. \A q \in Undone(p) : part[q] # "raw" /\ q \in Part /\ q # p
  BY <1>1, <1>2, <1>3, <1>4, Parts DEF Undone
<1> QED BY <1>2, <1>5, Parts DEF At, Up

-----------------------------------------------------------------------------
(* The list of users.                                                      *)

\* One turn of the loop of auth_init() keeps the list true to what was read.
LEMMA ReadDescribes ==
    ASSUME TypeOK, DbDescribes, line < Len(file), line' = line + 1, file' = file,
           db' = Read(db, file[line'])
    PROVE  DbDescribes' /\ db' \in Seq(UserRecord) /\ line' \in 0..Len(file)
<1>0. PICK n : n = line + 1
  OBVIOUS
<1> DEFINE l == file[n]
<1>1. /\ n = line + 1 /\ line \in Nat /\ Len(file) \in Nat /\ n \in 1..Len(file) /\ file' = file
      /\ \A i \in 1..Len(file) : file[i] \in UserLine \cup {Skipped}
      /\ db \in Seq(UserRecord) /\ Len(db) \in Nat
      /\ \A k \in 1..Len(db) : db[k] \in UserRecord
  <2>1. file \in Seq(UserLine \cup {Skipped}) /\ line \in 0..Len(file) /\ db \in Seq(UserRecord)
    BY LifecycleAssumption DEF TypeOK
  <2>2. Len(file) \in Nat /\ Len(db) \in Nat
    BY <2>1, LenProperties
  <2>3. \A i \in 1..Len(file) : file[i] \in UserLine \cup {Skipped}
    BY <2>1, ElementOfSeq
  <2>4. \A k \in 1..Len(db) : db[k] \in UserRecord
    BY <2>1, ElementOfSeq
  <2> QED BY <1>0, <2>1, <2>2, <2>3, <2>4
<1>2. l \in UserLine \cup {Skipped} /\ db' = Read(db, l) /\ line' = n
  BY <1>1
<1> HIDE DEF l
<1>3. l = file[n]
  BY DEF l
<1>4. \A k \in 1..Len(db) : db[k].user # Skipped.user
  BY <1>1, UserDbAssumption DEF UserRecord, Skipped
<1>5. \A i \in 1..n : LastSoFar(i)' <=> \A j \in (i + 1)..n : file[j].user # file[i].user
  BY <1>1, <1>2 DEF LastSoFar
<1>6. \A i \in 1..line : LastSoFar(i) /\ l.user # file[i].user => LastSoFar(i)'
  <2>1. \A i \in 1..line : \A j \in (i + 1)..n : j \in (i + 1)..line \/ j = n
    BY <1>1
  <2>2. \A i \in 1..line : i \in 1..n
    BY <1>1
  <2> QED BY <1>3, <1>5, <2>1, <2>2 DEF LastSoFar
<1>7. CASE l = Skipped
  <2>1. db' = db
    BY <1>2, <1>7 DEF Read
  <2>2. ASSUME NEW k \in 1..Len(db), First(k)'
        PROVE  \E i \in 1..n : file[i] # Skipped /\ LastSoFar(i)' /\ db[k] = Record(file[i])
    <3>1. First(k)
      BY <2>1, <2>2 DEF First
    <3>2. PICK i \in 1..line : file[i] # Skipped /\ LastSoFar(i) /\ db[k] = Record(file[i])
      BY <3>1 DEF DbDescribes
    <3>3. file[i].user = db[k].user
      BY <3>2 DEF Record
    <3>4. LastSoFar(i)'
      BY <1>4, <1>6, <1>7, <3>2, <3>3
    <3> QED BY <1>1, <3>2, <3>4
  <2>3. ASSUME NEW i \in 1..n, file[i] # Skipped, LastSoFar(i)'
        PROVE  \E k \in 1..Len(db) : First(k)' /\ db[k] = Record(file[i])
    <3>1. i \in 1..line
      <4>1. i # n
        BY <1>3, <1>7, <2>3
      <4> QED BY <1>1, <4>1
    <3>2. LastSoFar(i)
      BY <1>1, <1>2, <2>3 DEF LastSoFar
    <3>3. PICK k \in 1..Len(db) : First(k) /\ db[k] = Record(file[i])
      BY <2>3, <3>1, <3>2 DEF DbDescribes
    <3> QED BY <2>1, <3>3 DEF First
  <2> QED BY <1>1, <1>2, <2>1, <2>2, <2>3 DEF DbDescribes
<1>8. CASE l # Skipped
  <2> DEFINE r == Record(l)
  <2>1. l \in UserLine /\ r \in UserRecord /\ r.user = l.user
    BY <1>2, <1>8 DEF UserLine, Record, UserRecord
  <2> HIDE DEF r
  <2>2. db' = <<r>> \o db
    BY <1>2, <1>8 DEF Read, r
  <2>3. /\ db' \in Seq(UserRecord) /\ Len(db') = Len(db) + 1 /\ db'[1] = r
        /\ \A k \in 1..Len(db) : db'[k + 1] = db[k]
    <3>1. <<r>> \in Seq(UserRecord) /\ Len(<<r>>) = 1 /\ <<r>>[1] = r
      BY <2>1
    <3>2. /\ db' \in Seq(UserRecord) /\ Len(db') = 1 + Len(db)
          /\ \A k \in 1..(1 + Len(db)) : db'[k] = IF k <= 1 THEN <<r>>[k] ELSE db[k - 1]
      BY <1>1, <2>2, <3>1, ConcatProperties
    <3>3. \A k \in 1..Len(db) : k + 1 \in 1..(1 + Len(db)) /\ ~(k + 1 <= 1) /\ (k + 1) - 1 = k
      BY <1>1
    <3>4. db'[1] = r /\ Len(db') = Len(db) + 1
      BY <1>1, <3>1, <3>2
    <3>5. \A k \in 1..Len(db) : db'[k + 1] = db[k]
      BY <3>2, <3>3
    <3> QED BY <3>2, <3>4, <3>5
  <2>4. ASSUME NEW k \in 1..Len(db'), First(k)'
        PROVE  \E i \in 1..n : file[i] # Skipped /\ LastSoFar(i)' /\ db'[k] = Record(file[i])
    <3>1. CASE k = 1
      <4>1. LastSoFar(n)'
        BY <1>1, <1>2 DEF LastSoFar
      <4>2. db'[k] = Record(file[n]) /\ n \in 1..n
        BY <1>1, <1>3, <2>3, <3>1 DEF r
      <4> QED BY <1>3, <1>8, <4>1, <4>2
    <3>2. CASE k # 1
      <4>1. k - 1 \in 1..Len(db) /\ db'[k] = db[k - 1]
        <5>1. Len(db) \in Nat /\ k \in 1..(Len(db) + 1)
          BY <1>1, <2>3
        <5>2. k - 1 \in 1..Len(db) /\ (k - 1) + 1 = k
          BY <3>2, <5>1
        <5>3. db'[(k - 1) + 1] = db[k - 1]
          BY <2>3, <5>2
        <5> QED BY <5>2, <5>3
      <4>2. First(k - 1) /\ db[k - 1].user # l.user
        <5>1. 1 \in 1..(k - 1) /\ db'[1].user # db'[k].user
          BY <1>1, <2>4, <3>2 DEF First
        <5>2. ASSUME NEW j \in 1..((k - 1) - 1)
              PROVE  db[j].user # db[k - 1].user
          <6>1. j + 1 \in 1..(k - 1) /\ j \in 1..Len(db)
            BY <1>1, <4>1
          <6>2. db'[j + 1].user # db'[k].user
            BY <2>4, <6>1 DEF First
          <6> QED BY <2>3, <4>1, <6>1, <6>2
        <5> QED BY <2>1, <2>3, <4>1, <5>1, <5>2 DEF First
      <4>3. PICK i \in 1..line :
               file[i] # Skipped /\ LastSoFar(i) /\ db[k - 1] = Record(file[i])
        BY <4>1, <4>2 DEF DbDescribes
      <4>4. file[i].user = db[k - 1].user
        BY <4>3 DEF Record
      <4>5. LastSoFar(i)'
        BY <1>6, <4>2, <4>3, <4>4
      <4> QED BY <1>1, <4>1, <4>3, <4>5
    <3> QED BY <3>1, <3>2
  <2>5. ASSUME NEW i \in 1..n, file[i] # Skipped, LastSoFar(i)'
        PROVE  \E k \in 1..Len(db') : First(k)' /\ db'[k] = Record(file[i])
    <3>1. CASE i = n
      <4>1. First(1)'
        BY DEF First
      <4> QED BY <1>1, <1>3, <2>3, <3>1, <4>1 DEF r
    <3>2. CASE i # n
      <4>1. i \in 1..line /\ LastSoFar(i) /\ l.user # file[i].user
        BY <1>1, <1>2, <1>3, <2>5, <3>2 DEF LastSoFar
      <4>2. PICK k \in 1..Len(db) : First(k) /\ db[k] = Record(file[i])
        BY <2>5, <4>1 DEF DbDescribes
      <4>3. k + 1 \in 1..Len(db') /\ db'[k + 1] = db[k] /\ db[k].user = file[i].user
        BY <1>1, <2>3, <4>2 DEF Record
      <4>4. First(k + 1)'
        <5>1. ASSUME NEW j \in 1..((k + 1) - 1)
              PROVE  db'[j].user # db'[k + 1].user
          <6>1. CASE j = 1
            BY <2>1, <2>3, <4>1, <4>3, <6>1
          <6>2. CASE j # 1
            <7>1. j - 1 \in 1..(k - 1) /\ j - 1 \in 1..Len(db) /\ (j - 1) + 1 = j
              BY <1>1, <6>2
            <7>2. db'[j] = db[j - 1]
              BY <2>3, <7>1
            <7> QED BY <4>2, <4>3, <7>1, <7>2 DEF First
          <6> QED BY <6>1, <6>2
        <5> QED BY <5>1 DEF First
      <4> QED BY <4>2, <4>3, <4>4
    <3> QED BY <3>1, <3>2
  <2> QED BY <1>1, <1>2, <2>3, <2>4, <2>5 DEF DbDescribes
<1> QED BY <1>7, <1>8

\* A list that describes the whole file answers the lookups by its last lines.
LEMMA DescribedLastLine ==
    ASSUME TypeOK, DbDescribes, line = Len(file), NEW u \in Account
    PROVE  /\ \A r \in Found(db, u) : \E i \in LastLine(file, u) : r = Record(file[i])
           /\ \A i \in LastLine(file, u) : \E r \in Found(db, u) : r = Record(file[i])
<1>1. ASSUME NEW r \in Found(db, u)
      PROVE  \E i \in LastLine(file, u) : r = Record(file[i])
  <2>1. PICK k \in 1..Len(db) :
           r = db[k] /\ db[k].user = u /\ \A j \in 1..(k - 1) : db[j].user # u
    BY DEF Found
  <2>2. First(k)
    BY <2>1 DEF First
  <2>3. PICK i \in 1..line : file[i] # Skipped /\ LastSoFar(i) /\ db[k] = Record(file[i])
    BY <2>2 DEF DbDescribes
  <2>4. file[i].user = u
    BY <2>1, <2>3 DEF Record
  <2> QED BY <2>1, <2>3, <2>4 DEF LastLine, LastSoFar
<1>2. ASSUME NEW i \in LastLine(file, u)
      PROVE  \E r \in Found(db, u) : r = Record(file[i])
  <2>1. i \in 1..line /\ file[i].user = u /\ LastSoFar(i)
    BY DEF LastLine, LastSoFar
  <2>2. file[i] # Skipped
    <3>1. Skipped.user = "#"
      BY DEF Skipped
    <3> QED BY <2>1, <3>1, UserDbAssumption
  <2>3. PICK k \in 1..Len(db) : First(k) /\ db[k] = Record(file[i])
    BY <2>1, <2>2 DEF DbDescribes
  <2>4. db[k].user = u
    BY <2>1, <2>3 DEF Record
  <2> QED BY <2>3, <2>4 DEF Found, First
<1> QED BY <1>1, <1>2

-----------------------------------------------------------------------------
(* The steps.                                                              *)

\* A list of no line describes nothing.
LEMMA NothingRead ==
    ASSUME line = 0, db = <<>>
    PROVE  DbDescribes
BY DEF DbDescribes

\* A step that leaves the users alone.
LEMMA DbKept ==
    ASSUME LifeInv, UNCHANGED dbVars, mpc' = "start" => mpc = "start",
           mpc' = "init" => mpc \in {"start", "init"},
           part'["auth"] = "ready" => part["auth"] = "ready"
    PROVE  DbByPhase'
<1>1. DbDescribes' <=> DbDescribes
  BY DEF DbDescribes, First, LastSoFar
<1> QED BY <1>1, NothingRead DEF LifeInv, DbByPhase

LEMMA LifeInit ==
    ASSUME Init
    PROVE  LifeInv
<1>1. Len(file) \in Nat
  BY LifecycleAssumption, LenProperties DEF Init
<1>2. TypeOK
  <2>1. <<>> \in Seq(UserRecord) /\ <<>> \in Seq(Part) /\ 0 \in 0..Len(file)
    BY <1>1, EmptySeq
  <2>2. part \in [Part -> State] /\ todo \in [Conn -> Seq(Part)]
        /\ hpc \in [Conn -> {"none", "recv", "cmd", "end", "gone"}] /\ signals \in 0..MaxSignals
    BY <2>1, LifecycleAssumption DEF Init
  <2> QED BY <2>1, <2>2 DEF Init, TypeOK
<1>3. "auth" \in Part
  BY Parts
<1>4. PartsByPhase /\ FanByPhase /\ ListenByPhase
  BY <1>3, Parts DEF Init, PartsByPhase, Created, DestroyedOnce, FanByPhase, ListenByPhase
<1>5. DbByPhase
  BY <1>3, NothingRead DEF Init, DbByPhase
<1> QED BY <1>2, <1>4, <1>5 DEF LifeInv

\* main() and server_init().
LEMMA StartStep ==
    ASSUME LifeInv,
           BadArguments \/ InitStarts \/ InitPart \/ InitReads \/ InitAuth \/ InitFails
    PROVE  LifeInv'
<1>1. TypeOK /\ PartsByPhase /\ FanByPhase /\ ListenByPhase /\ DbByPhase
  BY DEF LifeInv
<1>2. "auth" \in Part /\ part \in [Part -> State]
  BY <1>1, Parts DEF TypeOK
<1>3. CASE BadArguments
  <2>1. /\ proc = "up" /\ mpc = "start" /\ proc' = "failed" /\ mpc' = "over"
        /\ UNCHANGED <<part, dbVars, runVars, fanVars, handlerVars>>
    BY <1>3 DEF BadArguments, Up, End
  <2>2. DbByPhase'
    BY <2>1, DbKept
  <2>3. TypeOK'
    BY <1>1, <2>1 DEF TypeOK
  <2>4. PartsByPhase' /\ FanByPhase' /\ ListenByPhase'
    BY <1>1, <2>1, Parts DEF PartsByPhase, Created, DestroyedOnce, FanByPhase, ListenByPhase
  <2> QED BY <2>2, <2>3, <2>4 DEF LifeInv
<1>4. CASE InitStarts
  <2>1. /\ proc = "up" /\ mpc = "start" /\ proc' = "up" /\ mpc' = "init"
        /\ UNCHANGED <<part, dbVars, runVars, fanVars, handlerVars>>
    BY <1>4 DEF InitStarts, Up, MainGoes
  <2>2. DbByPhase'
    BY <2>1, DbKept
  <2>3. TypeOK'
    BY <1>1, <2>1 DEF TypeOK
  <2>4. PartsByPhase' /\ FanByPhase' /\ ListenByPhase'
    BY <1>1, <2>1, Parts DEF PartsByPhase, Created, DestroyedOnce, FanByPhase, ListenByPhase
  <2> QED BY <2>2, <2>3, <2>4 DEF LifeInv
<1>5. CASE InitPart
  <2>1. PICK p \in Part \ {"auth"} : At(p) /\ part' = [part EXCEPT ![p] = "ready"]
    BY <1>5 DEF InitPart
  <2>2. /\ proc = "up" /\ mpc = "init" /\ mpc' = "init" /\ proc' = "up"
        /\ UNCHANGED <<dbVars, runVars, fanVars, handlerVars>>
    BY <1>1, <1>5, <2>1, AtPart DEF InitPart, MainGoes
  <2>3. DbByPhase'
    BY <1>2, <2>1, <2>2, DbKept
  <2>4. TypeOK'
    BY <1>1, <2>1, <2>2 DEF TypeOK
  <2>5. \A q \in Undone(p) : part[q] = "ready"
    BY <1>1, <2>1, <2>2, AtPart DEF PartsByPhase, Created
  <2>6. Created'
    <3>1. \A q \in Part : part'[q] = IF q = p THEN "ready" ELSE part[q]
      BY <1>2, <2>1
    <3> QED BY <1>1, <2>1, <2>2, <2>5, <3>1, Parts DEF PartsByPhase, Created, Undone
  <2>7. PartsByPhase'
    BY <1>1, <2>2, <2>6, Parts DEF PartsByPhase, Created, DestroyedOnce
  <2>8. FanByPhase' /\ ListenByPhase'
    BY <1>1, <2>2, Parts DEF FanByPhase, ListenByPhase
  <2> QED BY <2>3, <2>4, <2>7, <2>8 DEF LifeInv
<1>6. CASE InitReads
  <2>1. /\ proc = "up" /\ mpc = "init" /\ part["auth"] = "raw" /\ mpc' = "init" /\ proc' = "up"
        /\ line < Len(file) /\ line' = line + 1 /\ db' = Read(db, file[line'])
        /\ UNCHANGED <<part, file, runVars, fanVars, handlerVars>>
    BY <1>1, <1>6, AtPart DEF InitReads, MainGoes
  <2>2. DbDescribes' /\ db' \in Seq(UserRecord) /\ line' \in 0..Len(file)
    BY <1>1, <2>1, ReadDescribes DEF DbByPhase
  <2>3. DbByPhase'
    BY <2>1, <2>2 DEF DbByPhase
  <2>4. TypeOK'
    BY <1>1, <2>1, <2>2 DEF TypeOK
  <2>5. PartsByPhase' /\ FanByPhase' /\ ListenByPhase'
    BY <1>1, <2>1, Parts DEF PartsByPhase, Created, DestroyedOnce, FanByPhase, ListenByPhase
  <2> QED BY <2>3, <2>4, <2>5 DEF LifeInv
<1>7. CASE InitAuth
  <2>1. /\ proc = "up" /\ mpc = "init" /\ \A q \in Undone("auth") : part[q] # "raw"
        /\ mpc' = "install" /\ proc' = "up" /\ line = Len(file)
        /\ part' = [part EXCEPT !["auth"] = "ready"]
        /\ UNCHANGED <<dbVars, runVars, fanVars, handlerVars>>
    BY <1>1, <1>7, AtPart DEF InitAuth, MainGoes
  <2>2. \A p \in Part : part'[p] = "ready"
    <3>1. \A p \in Part \ {"auth"} : part[p] = "ready"
      BY <1>1, <1>2, <2>1, Parts DEF PartsByPhase, Created, Undone
    <3> QED BY <1>2, <2>1, <3>1
  <2>3. DbByPhase'
    <3>1. DbDescribes' <=> DbDescribes
      BY <2>1 DEF DbDescribes, First, LastSoFar
    <3> QED BY <1>1, <2>1, <3>1 DEF DbByPhase
  <2>4. TypeOK'
    BY <1>1, <2>1 DEF TypeOK
  <2>5. PartsByPhase' /\ FanByPhase' /\ ListenByPhase'
    BY <1>1, <2>1, <2>2, Parts DEF PartsByPhase, Created, DestroyedOnce, FanByPhase, ListenByPhase
  <2> QED BY <2>3, <2>4, <2>5 DEF LifeInv
<1>8. CASE InitFails
  <2> DEFINE Fails(p, left) ==
                 part' = [q \in Part |-> IF q \in Undone(p) THEN Destroyed(part[q])
                                         ELSE IF q = p THEN left ELSE part[q]]
  <2>0. PICK p \in Part : At(p) /\ \E left \in Left(p) : Fails(p, left)
    BY <1>8 DEF InitFails
  <2>1. PICK left \in Left(p) : Fails(p, left)
    BY <2>0
  <2>2. /\ proc = "up" /\ mpc = "init" /\ mpc' = "over" /\ proc' = "failed" /\ db' = <<>>
        /\ UNCHANGED <<file, line, runVars, fanVars, handlerVars>>
    BY <1>1, <1>8, <2>0, AtPart DEF InitFails, End
  <2>3. /\ part[p] = "raw" /\ Created /\ ~caught
        /\ \A q \in Undone(p) : part[q] = "ready" /\ Destroyed(part[q]) = "destroyed"
    BY <1>1, <2>0, <2>2, AtPart DEF PartsByPhase, Created, Destroyed
  <2>4. left \in {"raw", "leaked", "destroyed"} /\ (left = "leaked" => p \in {"rooms", "auth"})
    BY <2>1 DEF Left
  <2>5. \A q \in Part : q \notin Undone(p) => part[q] = "raw"
    BY <2>1, <2>3, Parts DEF Created, Undone
  <2>6. \A q \in Part : /\ part'[q] \in {"raw", "leaked", "destroyed"}
                        /\ part'[q] = "leaked" => q \in {"rooms", "auth"}
    BY <2>1, <2>3, <2>4, <2>5
  <2>7. part' \in [Part -> State]
    BY <2>1, <2>6 DEF State
  <2>8. DbByPhase'
    BY <1>2, <2>2, <2>6 DEF DbByPhase
  <2>9. TypeOK'
    BY <1>1, <2>2, <2>7, EmptySeq DEF TypeOK, State
  <2>10. PartsByPhase'
    BY <1>1, <2>2, <2>3, <2>6, Parts DEF PartsByPhase, DestroyedOnce
  <2>11. FanByPhase' /\ ListenByPhase'
    BY <1>1, <2>2, Parts DEF FanByPhase, ListenByPhase
  <2> QED BY <2>8, <2>9, <2>10, <2>11 DEF LifeInv
<1> QED BY <1>3, <1>4, <1>5, <1>6, <1>7, <1>8

\* server_run() and the signals.
LEMMA RunStep ==
    ASSUME LifeInv,
           InstallHandlers \/ RunSocket \/ RunBind \/ RunCreate \/ AcceptTest \/ AcceptBlocks
               \/ AcceptFails \/ \E c \in Conn : Accept(c)
    PROVE  LifeInv'
<1>1. TypeOK /\ PartsByPhase /\ FanByPhase /\ ListenByPhase
  BY DEF LifeInv
<1> DEFINE Running == {"install", "socket", "bind", "create", "test", "enter", "accept"}
           After == {"socket", "bind", "create", "test", "enter", "accept", "shutdown"}
<1>2. /\ mpc \in Running /\ mpc' \in After /\ proc = "up" /\ proc' = "up" /\ part' = part
      /\ UNCHANGED <<dbVars, queued, closed>>
  BY DEF InstallHandlers, RunSocket, RunBind, RunCreate, AcceptTest, AcceptBlocks, AcceptFails,
         Accept, Up, MainGoes
<1>3. /\ tid' \in {"0", "thread", "undefined"} /\ bpc' \in {"none", "test", "pop", "fan", "done"}
      /\ caught' \in BOOLEAN /\ signals' = signals /\ running' = running /\ listening' \in BOOLEAN
      /\ bpc' # "none" <=> tid' = "thread"
      /\ mpc' \in {"socket", "bind", "create"} => bpc' = "none"
      /\ mpc' = "socket" => ~listening'
  <2>1. CASE InstallHandlers
    BY <1>1, <2>1 DEF InstallHandlers, Up, MainGoes, TypeOK, FanByPhase, ListenByPhase
  <2>2. CASE RunSocket \/ RunBind
    BY <1>1, <2>2 DEF RunSocket, RunBind, Up, MainGoes, TypeOK, FanByPhase
  <2>3. CASE RunCreate
    <3>1. mpc = "create" /\ bpc = "none" /\ mpc' \in {"test", "shutdown"}
      BY <1>1, <2>3 DEF RunCreate, Up, MainGoes, FanByPhase
    <3> QED BY <1>1, <2>3, <3>1 DEF RunCreate, TypeOK
  <2>4. CASE AcceptTest \/ AcceptBlocks \/ AcceptFails \/ \E c \in Conn : Accept(c)
    <3>1. UNCHANGED <<runVars, fanVars>> /\ mpc' \in {"enter", "shutdown", "accept", "test"}
      BY <2>4 DEF AcceptTest, AcceptBlocks, AcceptFails, Accept, MainGoes
    <3> QED BY <1>1, <3>1 DEF TypeOK, FanByPhase
  <2> QED BY <2>1, <2>2, <2>3, <2>4
<1>4. hpc' \in [Conn -> {"none", "recv", "cmd", "end", "gone"}] /\ todo' \in [Conn -> Seq(Part)]
  <2>1. CASE UNCHANGED handlerVars
    BY <1>1, <2>1 DEF TypeOK
  <2>2. CASE \E c \in Conn : Accept(c)
    <3>1. Uses("EOF") \in Seq(Part) /\ <<>> \in Seq(Part)
      BY UsesParts, EmptySeq
    <3>2. PICK c \in Conn :
             \/ /\ hpc' = [hpc EXCEPT ![c] = IF running THEN "recv" ELSE "end"]
                /\ todo' = [todo EXCEPT ![c] = IF running THEN <<>> ELSE Uses("EOF")]
             \/ hpc' = [hpc EXCEPT ![c] = "gone"] /\ todo' = todo
      BY <2>2 DEF Accept
    <3> QED BY <1>1, <3>1, <3>2 DEF TypeOK
  <2> QED BY <2>1, <2>2 DEF InstallHandlers, RunSocket, RunBind, RunCreate, AcceptTest,
                            AcceptBlocks, AcceptFails
<1>5. DbByPhase'
  BY <1>2, DbKept
<1>6. TypeOK'
  BY <1>1, <1>2, <1>3, <1>4 DEF TypeOK
<1>7. PartsByPhase' /\ FanByPhase' /\ ListenByPhase'
  BY <1>1, <1>2, <1>3, Parts DEF PartsByPhase, Created, DestroyedOnce, FanByPhase, ListenByPhase
<1> QED BY <1>5, <1>6, <1>7 DEF LifeInv

LEMMA SignalStep ==
    ASSUME LifeInv, Signal
    PROVE  LifeInv'
<1>1. TypeOK /\ PartsByPhase /\ FanByPhase /\ ListenByPhase
  BY DEF LifeInv
<1>2. /\ proc = "up" /\ signals < MaxSignals /\ signals' = signals + 1 /\ running' \in BOOLEAN
      /\ \/ proc' = "up" /\ mpc' = (IF mpc = "accept" THEN "test" ELSE mpc)
         \/ proc' = "killed" /\ mpc' = "over"
      /\ UNCHANGED <<part, dbVars, caught, listening, fanVars, handlerVars>>
  BY <1>1 DEF Signal, MainGoes, End, TypeOK
<1>3. DbByPhase'
  BY <1>2, DbKept
<1>4. TypeOK'
  <2>1. signals' \in 0..MaxSignals
    BY <1>1, <1>2, LifecycleAssumption DEF TypeOK
  <2> QED BY <1>1, <1>2, <2>1 DEF TypeOK
<1>5. PartsByPhase' /\ FanByPhase' /\ ListenByPhase'
  BY <1>1, <1>2, Parts DEF PartsByPhase, Created, DestroyedOnce, FanByPhase, ListenByPhase
<1> QED BY <1>3, <1>4, <1>5 DEF LifeInv

\* server_shutdown(), server_destroy() and the return from main().
LEMMA EndStep ==
    ASSUME LifeInv,
           ServerShutdown \/ ServerJoin \/ ServerJoinKilled \/ DestroyPart \/ MainReturns
    PROVE  LifeInv'
<1>1. TypeOK /\ PartsByPhase /\ FanByPhase /\ ListenByPhase /\ DbByPhase
  BY DEF LifeInv
<1>2. CASE ServerShutdown
  <2>1. /\ proc = "up" /\ mpc = "shutdown" /\ mpc' = "join" /\ proc' = "up"
        /\ running' = FALSE /\ listening' = FALSE /\ closed' = TRUE
        /\ UNCHANGED <<part, dbVars, caught, signals, tid, bpc, queued, handlerVars>>
    BY <1>2 DEF ServerShutdown, Up, MainGoes
  <2>2. DbByPhase'
    BY <2>1, DbKept
  <2>3. TypeOK'
    BY <1>1, <2>1 DEF TypeOK
  <2>4. PartsByPhase' /\ FanByPhase' /\ ListenByPhase'
    BY <1>1, <2>1, Parts DEF PartsByPhase, Created, DestroyedOnce, FanByPhase, ListenByPhase
  <2> QED BY <2>2, <2>3, <2>4 DEF LifeInv
<1>3. CASE ServerJoin
  <2>1. /\ proc = "up" /\ mpc = "join" /\ mpc' = "queue" /\ proc' = "up"
        /\ tid = "thread" => bpc = "done"
        /\ UNCHANGED <<part, dbVars, runVars, fanVars, handlerVars>>
    BY <1>3 DEF ServerJoin, Joined, Up, MainGoes, DestroyOrder
  <2>2. DbByPhase'
    BY <2>1, DbKept
  <2>3. TypeOK'
    BY <1>1, <2>1, Parts DEF TypeOK
  <2>4. PartsByPhase' /\ FanByPhase' /\ ListenByPhase'
    BY <1>1, <2>1, GoneAtEnds, Parts DEF PartsByPhase, Created, DestroyedOnce, FanByPhase, ListenByPhase
  <2> QED BY <2>2, <2>3, <2>4 DEF LifeInv
<1>4. CASE ServerJoinKilled
  <2>1. /\ proc = "up" /\ mpc = "join" /\ mpc' = "over" /\ proc' = "killed"
        /\ UNCHANGED <<part, dbVars, runVars, fanVars, handlerVars>>
    BY <1>4 DEF ServerJoinKilled, Up, End
  <2>2. DbByPhase'
    BY <2>1, DbKept
  <2>3. TypeOK'
    BY <1>1, <2>1 DEF TypeOK
  <2>4. PartsByPhase' /\ FanByPhase' /\ ListenByPhase'
    BY <1>1, <2>1, Parts DEF PartsByPhase, Created, DestroyedOnce, FanByPhase, ListenByPhase
  <2> QED BY <2>2, <2>3, <2>4 DEF LifeInv
<1>5. CASE DestroyPart
  <2>1. PICK i \in 1..Len(DestroyOrder) :
           /\ Up(DestroyOrder[i])
           /\ part' = [part EXCEPT ![DestroyOrder[i]] = Destroyed(@)]
           /\ db' = IF DestroyOrder[i] = "auth" THEN <<>> ELSE db
           /\ MainGoes(IF i < Len(DestroyOrder) THEN DestroyOrder[i + 1] ELSE "return")
    BY <1>5 DEF DestroyPart
  <2> DEFINE p == DestroyOrder[i]
             next == IF i < Len(DestroyOrder) THEN DestroyOrder[i + 1] ELSE "return"
  <2>2. /\ proc = "up" /\ mpc = p /\ mpc' = next /\ proc' = "up"
        /\ UNCHANGED <<file, line, runVars, fanVars, handlerVars>>
    BY <1>5, <2>1 DEF DestroyPart, Up, MainGoes
  <2>3. /\ p \in Part /\ next \in (Part \ {"queue"}) \cup {"return"} /\ p \notin Gone(p)
        /\ \A q \in Part : q \in Gone(next) <=> q = p \/ q \in Gone(p)
    BY DestroySteps
  <2>4. db' = IF p = "auth" THEN <<>> ELSE db
    BY <2>1
  <2>5. part' = [part EXCEPT ![p] = Destroyed(part[p])]
    BY <2>1
  <2> HIDE DEF p, next
  <2>6. part[p] = "ready" /\ Destroyed(part[p]) = "destroyed"
    BY <1>1, <2>2, <2>3 DEF PartsByPhase, Destroyed
  <2>7. \A q \in Part : part'[q] = IF q = p THEN "destroyed" ELSE part[q]
    BY <1>1, <2>3, <2>5, <2>6 DEF TypeOK
  <2>8. \A q \in Part : part'[q] = IF q \in Gone(next) THEN "destroyed" ELSE "ready"
    BY <1>1, <2>2, <2>3, <2>7 DEF PartsByPhase
  <2>9. TypeOK'
    <3>1. part' \in [Part -> State]
      BY <1>1, <2>3, <2>5, <2>6 DEF TypeOK, State
    <3> QED BY <1>1, <2>2, <2>3, <2>4, <3>1, EmptySeq DEF TypeOK, State
  <2>10. PartsByPhase'
    BY <1>1, <2>2, <2>3, <2>8, Parts DEF PartsByPhase, DestroyedOnce
  <2>11. FanByPhase' /\ ListenByPhase'
    BY <1>1, <2>2, <2>3, Parts DEF FanByPhase, ListenByPhase
  <2>12. DbByPhase'
    <3>1. "auth" \in Part
      BY Parts
    <3>2. CASE p = "auth"
      BY <2>2, <2>3, <2>7, <3>1, <3>2, Parts DEF DbByPhase
    <3>3. CASE p # "auth"
      BY <2>2, <2>3, <2>4, <2>7, <3>1, <3>3, DbKept, Parts
    <3> QED BY <3>2, <3>3
  <2> QED BY <2>9, <2>10, <2>11, <2>12 DEF LifeInv
<1>6. CASE MainReturns
  <2>1. /\ proc = "up" /\ mpc = "return" /\ mpc' = "over" /\ proc' \in {"exited", "failed"}
        /\ listening' = FALSE
        /\ UNCHANGED <<part, dbVars, caught, signals, running, fanVars, handlerVars>>
    BY <1>6 DEF MainReturns, Up, End
  <2>2. DbByPhase'
    BY <2>1, DbKept
  <2>3. TypeOK'
    BY <1>1, <2>1, Parts DEF TypeOK
  <2>4. PartsByPhase' /\ FanByPhase' /\ ListenByPhase'
    BY <1>1, <2>1, GoneAtEnds, Parts DEF PartsByPhase, Created, DestroyedOnce, FanByPhase, ListenByPhase
  <2> QED BY <2>2, <2>3, <2>4 DEF LifeInv
<1> QED BY <1>2, <1>3, <1>4, <1>5, <1>6

\* The broadcaster and the handlers: they find the main thread where it is.
LEMMA ThreadStep ==
    ASSUME LifeInv, FanStep \/ \E c \in Conn : Handler(c)
    PROVE  LifeInv'
<1>1. TypeOK /\ PartsByPhase /\ FanByPhase /\ ListenByPhase
  BY DEF LifeInv
<1>2. CASE FanStep
  <2>1. /\ proc = "up" /\ bpc \in {"test", "pop", "fan"} /\ bpc' \in {"test", "pop", "fan", "done"}
        /\ queued' \in BOOLEAN
        /\ UNCHANGED <<proc, mpc, part, dbVars, runVars, tid, closed, handlerVars>>
    BY <1>1, <1>2 DEF FanStep, TypeOK
  <2>2. DbByPhase'
    BY <2>1, DbKept
  <2>3. TypeOK'
    BY <1>1, <2>1 DEF TypeOK
  <2>4. PartsByPhase' /\ FanByPhase' /\ ListenByPhase'
    BY <1>1, <2>1, Parts DEF PartsByPhase, Created, DestroyedOnce, FanByPhase, ListenByPhase
  <2> QED BY <2>2, <2>3, <2>4 DEF LifeInv
<1>3. ASSUME NEW c \in Conn, Handler(c)
      PROVE  LifeInv'
  <2>1. /\ proc = "up"
        /\ \/ proc' = "up" /\ mpc' = mpc
           \/ proc' = "killed" /\ mpc' = "over"
        /\ UNCHANGED <<part, dbVars, runVars, tid, bpc, closed>>
    BY <1>3 DEF Handler, HandlerReads, HandlerLeaves, HandlerUses, HandlerKilled, HandlerReturns, End
  <2>2. queued' \in BOOLEAN
    BY <1>1, <1>3 DEF Handler, HandlerReads, HandlerLeaves, HandlerUses, HandlerKilled,
                      HandlerReturns, TypeOK
  <2>3. hpc' \in [Conn -> {"none", "recv", "cmd", "end", "gone"}] /\ todo' \in [Conn -> Seq(Part)]
    <3>1. /\ hpc \in [Conn -> {"none", "recv", "cmd", "end", "gone"}]
          /\ todo \in [Conn -> Seq(Part)]
      BY <1>1 DEF TypeOK
    <3>2. /\ \A cmd \in Commands \cup {"END", "EOF"} : Uses(cmd) \in Seq(Part)
          /\ <<>> \in Seq(Part)
          /\ todo[c] # <<>> => Tail(todo[c]) \in Seq(Part)
      BY <3>1, UsesParts, LifecycleAssumption, EmptySeq, HeadTailProperties
    <3>3. CASE Disconnect(c)
      BY <3>1, <3>2, <3>3 DEF Disconnect
    <3>4. CASE HandlerReads(c)
      <4>1. PICK cmd \in Commands :
               todo' = [todo EXCEPT ![c] = Uses(cmd)] /\ hpc' = [hpc EXCEPT ![c] = "cmd"]
        BY <3>4 DEF HandlerReads
      <4> QED BY <3>1, <3>2, <4>1
    <3>5. CASE HandlerUses(c)
      <4>1. /\ hpc' = hpc /\ todo[c] # <<>>
            /\ todo' = [todo EXCEPT ![c] = Tail(@)] \/ todo' = [todo EXCEPT ![c] = <<>>]
        BY <3>5 DEF HandlerUses
      <4> QED BY <3>1, <3>2, <4>1
    <3>6. CASE HandlerKilled(c)
      BY <3>1, <3>6 DEF HandlerKilled
    <3>7. CASE HandlerReturns(c) /\ ~Disconnect(c)
      BY <3>1, <3>7 DEF HandlerReturns
    <3> QED BY <1>3, <3>3, <3>4, <3>5, <3>6, <3>7 DEF Handler, HandlerLeaves
  <2>4. DbByPhase'
    BY <2>1, DbKept
  <2>5. TypeOK'
    BY <1>1, <2>1, <2>2, <2>3 DEF TypeOK
  <2>6. PartsByPhase' /\ FanByPhase' /\ ListenByPhase'
    BY <1>1, <2>1, Parts DEF PartsByPhase, Created, DestroyedOnce, FanByPhase, ListenByPhase
  <2> QED BY <2>4, <2>5, <2>6 DEF LifeInv
<1> QED BY <1>2, <1>3

LEMMA LifeStep ==
    ASSUME LifeInv, [Next]_vars
    PROVE  LifeInv'
<1>1. CASE UNCHANGED vars
  <2>1. UNCHANGED <<proc, mpc, part, dbVars, runVars, fanVars, handlerVars>>
    BY <1>1 DEF vars
  <2>2. DbByPhase'
    BY <2>1, DbKept
  <2>3. TypeOK' /\ PartsByPhase' /\ FanByPhase' /\ ListenByPhase'
    BY <2>1 DEF LifeInv, TypeOK, PartsByPhase, Created, DestroyedOnce, FanByPhase, ListenByPhase
  <2> QED BY <2>2, <2>3 DEF LifeInv
<1>2. CASE Main
  BY <1>2, StartStep, RunStep, EndStep DEF Main
<1>3. CASE Signal
  BY <1>3, SignalStep
<1>4. CASE AcceptFails \/ \E c \in Conn : Accept(c)
  BY <1>4, RunStep
<1>5. CASE FanStep \/ \E c \in Conn : Handler(c)
  BY <1>5, ThreadStep
<1> QED BY <1>1, <1>2, <1>3, <1>4, <1>5 DEF Next

-----------------------------------------------------------------------------
(* The theorems.                                                           *)

\* The inductive invariant holds in every state.
THEOREM LifeInvariant == Spec => []LifeInv
<1>1. Init => LifeInv
  BY LifeInit
<1>2. LifeInv /\ [Next]_vars => LifeInv'
  BY LifeStep
<1> QED BY <1>1, <1>2, PTL DEF Spec

\* The variables keep their types, with any number of connections and signals.
THEOREM LifecycleTypes == Spec => []TypeOK
<1>1. LifeInv => TypeOK
  BY DEF LifeInv
<1> QED BY <1>1, LifeInvariant, PTL

\* server_shutdown() joins the broadcaster before server_destroy() takes the
\* queue and the registry away from it.
THEOREM BroadcasterAlwaysSafe == Spec => []BroadcasterSafe
<1>1. LifeInv => BroadcasterSafe
  <2> SUFFICES ASSUME LifeInv, proc = "up", bpc \in {"test", "pop", "fan"}
               PROVE  part["queue"] = "ready" /\ part["registry"] = "ready"
    BY DEF BroadcasterSafe
  <2>1. mpc \in {"test", "enter", "accept", "shutdown", "join"}
    BY DEF LifeInv, TypeOK, PartsByPhase, FanByPhase
  <2> QED BY <2>1, Parts DEF LifeInv, PartsByPhase
<1> QED BY <1>1, LifeInvariant, PTL

\* A process that ends by itself has destroyed what it had created, but perhaps
\* the mutex of the rooms or the user database that failed to start, closed its
\* listening socket and ended the broadcaster, whatever failed on the way.
THEOREM AlwaysEndsClean == Spec => []EndsClean
<1>1. LifeInv => EndsClean
  BY DEF LifeInv, PartsByPhase, FanByPhase, ListenByPhase, EndsClean
<1> QED BY <1>1, LifeInvariant, PTL

\* auth_verify() and auth_is_admin() answer by the last line of users.db that
\* names the user, whatever lines the file has.
THEOREM LastLineAlwaysCounts == Spec => []LastLineCounts
<1>1. LifeInv => LastLineCounts
  <2> SUFFICES ASSUME LifeInv, part["auth"] = "ready", NEW u \in Account
               PROVE  /\ \A p \in Password :
                             auth_verify(db, u, p) <=>
                                 \E i \in LastLine(file, u) : file[i].hash = Hash(p)
                      /\ auth_is_admin(db, u) <=>
                             \E i \in LastLine(file, u) : file[i].flag \in AdminFlag
    BY DEF LastLineCounts
  <2>1. /\ \A r \in Found(db, u) : \E i \in LastLine(file, u) : r = Record(file[i])
        /\ \A i \in LastLine(file, u) : \E r \in Found(db, u) : r = Record(file[i])
    BY DescribedLastLine DEF LifeInv, DbByPhase
  <2>2. \A i \in LastLine(file, u) :
           /\ Record(file[i]).hash = file[i].hash
           /\ Record(file[i]).admin <=> file[i].flag \in AdminFlag
    BY DEF Record
  <2>3. \A p \in Password : auth_verify(db, u, p) <=>
                               \E i \in LastLine(file, u) : file[i].hash = Hash(p)
    BY <2>1, <2>2 DEF auth_verify
  <2>4. auth_is_admin(db, u) <=> \E i \in LastLine(file, u) : file[i].flag \in AdminFlag
    BY <2>1, <2>2 DEF auth_is_admin
  <2> QED BY <2>3, <2>4
<1> QED BY <1>1, LifeInvariant, PTL

\* No branch of a failed start and no step of server_destroy() destroys a part
\* that is not there, wherever server_init() failed and whatever came after it.
THEOREM AlwaysDestroyedOnce == Spec => []DestroyedOnce
<1>1. LifeInv => DestroyedOnce
  BY DEF LifeInv, PartsByPhase
<1> QED BY <1>1, LifeInvariant, PTL
=============================================================================
