------------------------- MODULE WalPipelineProofs -------------------------
(***************************************************************************)
(* Theorems about WalPipeline, for any cluster, WAL, cap and faults.       *)
(***************************************************************************)
EXTENDS WalPipeline, FiniteSetTheorems, TLAPS

LEMMA WalFacts ==
    /\ Wal \in Seq(Seq(Tables)) /\ Len(Wal) \in Nat
    /\ \A l \in 1 .. Len(Wal) : Wal[l] \in Seq(Tables) /\ Len(Wal[l]) \in Nat /\ Len(Wal[l]) >= 1
<1>1. Wal \in Seq(Seq(Tables)) /\ \A l \in DOMAIN Wal : Wal[l] # <<>> BY WalAssumption
<1>2. Len(Wal) \in Nat /\ DOMAIN Wal = 1 .. Len(Wal) BY <1>1
<1>3. ASSUME NEW l \in 1 .. Len(Wal)
      PROVE  Wal[l] \in Seq(Tables) /\ Len(Wal[l]) \in Nat /\ Len(Wal[l]) >= 1
  <2>1. Wal[l] \in Seq(Tables) BY <1>1, <1>2
  <2>2. Wal[l] # <<>> BY <1>1, <1>2
  <2> QED BY <2>1, <2>2
<1> QED BY <1>1, <1>2, <1>3

LEMMA EventFacts ==
    ASSUME NEW e \in Events
    PROVE  /\ e[1] \in 1 .. Len(Wal) /\ e[1] \in Lsns /\ e \in Nat \X Nat
           /\ e[2] \in 1 .. Len(Wal[e[1]]) /\ e = <<e[1], e[2]>>
           /\ TableOf(e) \in Tables
           /\ NextRow(e) \in Nat \X Nat
<1>1. PICK l \in DOMAIN Wal : e \in {l} \X DOMAIN Wal[l] BY DEF Events
<1>2. l \in 1 .. Len(Wal) /\ Wal[l] \in Seq(Tables) BY WalFacts
<1>3. e[1] = l /\ e[2] \in 1 .. Len(Wal[l]) /\ e = <<e[1], e[2]>> BY <1>1, <1>2
<1>4. Wal[l][e[2]] \in Tables BY <1>2, <1>3
<1> QED BY <1>2, <1>3, <1>4, WalFacts DEF Lsns, TableOf, NextRow

-----------------------------------------------------------------------------
(***************************************************************************)
(* Types and the semaphore, which need each other: a semaphore that counts *)
(* the running workers never goes below zero.                              *)
(***************************************************************************)
Metered(n) == {i \in Tasks : task[n][i] # Free /\ task[n][i].metered}
SemInv == TypeOK /\ SemaphoreExact

LEMMA MeteredFinite ==
    ASSUME NEW n \in Nodes
    PROVE  IsFiniteSet(Metered(n)) /\ Cardinality(Metered(n)) \in Nat
<1>1. IsFiniteSet(Tasks) BY WalAssumption
<1>2. Metered(n) \subseteq Tasks BY DEF Metered
<1>3. IsFiniteSet(Metered(n)) BY <1>1, <1>2, FS_Subset
<1> QED BY <1>3, FS_CardinalityType

LEMMA FreeFacts == Free \notin Worker /\ Free.pc = "free" /\ Free.metered = FALSE
BY DEF Free, Worker

\* A step that leaves tasks and semaphore alone.
LEMMA SemFrame ==
    ASSUME SemaphoreExact, UNCHANGED <<task, sem>>
    PROVE  SemaphoreExact'
BY DEF SemaphoreExact

\* A busy place is a worker; a worker past "free" is busy.
LEMMA Busy ==
    ASSUME TypeOK, NEW n \in Nodes, NEW i \in Tasks
    PROVE  /\ task[n][i] \in Worker \cup {Free}
           /\ task[n][i].pc # "free" => task[n][i] \in Worker
BY FreeFacts DEF TypeOK

Tasking == [Nodes -> [Tasks -> Worker \cup {Free}]]

\* What one worker's step from label to label does to the places.
LEMMA Advance ==
    ASSUME task \in Tasking, NEW n \in Nodes, NEW i \in Tasks, task[n][i] \in Worker,
           NEW p \in {"apply", "ack", "cas", "release"}, task' = [task EXCEPT ![n][i].pc = p]
    PROVE  /\ task' \in Tasking
           /\ task'[n][i] \in Worker /\ task'[n][i].pc = p
           /\ task'[n][i].ev = task[n][i].ev /\ task'[n][i].metered = task[n][i].metered
           /\ \A m \in Nodes, j \in Tasks : <<m, j>> # <<n, i>> => task'[m][j] = task[m][j]
<1> DEFINE w == [task[n][i] EXCEPT !.pc = p]
<1>1. w \in Worker /\ w.pc = p /\ w.ev = task[n][i].ev /\ w.metered = task[n][i].metered BY DEF Worker
<1>2. task' = [task EXCEPT ![n][i] = w] BY DEF Tasking
<1> HIDE DEF w
<1>3. \A m \in Nodes, j \in Tasks : task'[m][j] = IF m = n /\ j = i THEN w ELSE task[m][j]
    BY <1>2 DEF Tasking
<1>4. task' \in Tasking BY <1>1, <1>2 DEF Tasking
<1>5. task'[n][i] = w BY <1>3
<1>6. \A m \in Nodes, j \in Tasks : <<m, j>> # <<n, i>> => task'[m][j] = task[m][j] BY <1>3
<1> QED BY <1>1, <1>4, <1>5, <1>6

LEMMA AdvanceToCas ==
    ASSUME task \in Tasking, NEW n \in Nodes, NEW i \in Tasks, task[n][i] \in Worker,
           NEW l \in Lsns, task' = [task EXCEPT ![n][i].pc = "cas", ![n][i].current = l]
    PROVE  /\ task' \in Tasking
           /\ task'[n][i] \in Worker /\ task'[n][i].pc = "cas" /\ task'[n][i].current = l
           /\ task'[n][i].ev = task[n][i].ev /\ task'[n][i].metered = task[n][i].metered
           /\ \A m \in Nodes, j \in Tasks : <<m, j>> # <<n, i>> => task'[m][j] = task[m][j]
<1> DEFINE w == [task[n][i] EXCEPT !.pc = "cas", !.current = l]
<1>1. /\ w \in Worker /\ w.pc = "cas" /\ w.current = l
      /\ w.ev = task[n][i].ev /\ w.metered = task[n][i].metered
    BY DEF Worker
<1>2. task' = [task EXCEPT ![n][i] = w] BY DEF Tasking
<1> HIDE DEF w
<1>3. \A m \in Nodes, j \in Tasks : task'[m][j] = IF m = n /\ j = i THEN w ELSE task[m][j]
    BY <1>2 DEF Tasking
<1>4. task' \in Tasking BY <1>1, <1>2 DEF Tasking
<1>5. task'[n][i] = w BY <1>3
<1>6. \A m \in Nodes, j \in Tasks : <<m, j>> # <<n, i>> => task'[m][j] = task[m][j]
  BY ONLY <1>3
<1> QED BY <1>1, <1>4, <1>5, <1>6

\* A step of one worker that keeps its place.
LEMMA SemKeep ==
    ASSUME SemInv, NEW n \in Nodes, NEW i \in Tasks,
           task[n][i] \in Worker, task'[n][i] \in Worker,
           task'[n][i].metered = task[n][i].metered,
           \A m \in Nodes, j \in Tasks : <<m, j>> # <<n, i>> => task'[m][j] = task[m][j],
           sem' = sem
    PROVE  SemaphoreExact'
<1>1. ASSUME NEW m \in Nodes PROVE Metered(m)' = Metered(m)
  <2>1. ASSUME NEW j \in Tasks
        PROVE  task'[m][j] # Free /\ task'[m][j].metered
               <=> task[m][j] # Free /\ task[m][j].metered
    BY FreeFacts
  <2> QED BY <2>1 DEF Metered
<1> QED BY <1>1 DEF SemaphoreExact, SemInv, Metered

LEMMA AdvanceSem ==
    ASSUME SemInv, NEW n \in Nodes, NEW i \in Tasks, task[n][i] \in Worker,
           NEW p \in {"apply", "ack", "cas", "release"}, task' = [task EXCEPT ![n][i].pc = p],
           sem' = sem
    PROVE  SemaphoreExact' /\ task' \in Tasking
<1>1. task \in Tasking BY DEF SemInv, TypeOK, Tasking
<1>2. /\ task' \in Tasking
      /\ task'[n][i] \in Worker /\ task'[n][i].metered = task[n][i].metered
      /\ \A m \in Nodes, j \in Tasks : <<m, j>> # <<n, i>> => task'[m][j] = task[m][j]
    BY <1>1, Advance
<1> QED BY <1>2, SemKeep

-----------------------------------------------------------------------------
\* The steps of the stream, of Postgres and of the checkpoint row.
LEMMA StreamTypes ==
    ASSUME SemInv,
           \/ \E n \in Nodes : Connect(n) \/ Persist(n)
           \/ Disconnect \/ Send \/ KeepAlive
    PROVE  SemInv'
<1> USE DEF SemInv
<1>1. ASSUME NEW n \in Nodes, Connect(n) PROVE SemInv'
  <2>1. PICK l \in ReadCheckpoint : cursor' = <<Larger(slot, l), 1>> BY <1>1 DEF Connect
  <2>2. l \in Nat BY DEF ReadCheckpoint, TypeOK, Lsns
  <2>3. cursor' \in Nat \X Nat BY <2>1, <2>2 DEF Larger, TypeOK
  <2>4. connects' \in 0 .. MaxConnects /\ owner' \in Nodes \cup {None}
    BY <1>1, WalAssumption DEF Connect, TypeOK
  <2>5. SemaphoreExact' BY <1>1, SemFrame DEF Connect, node
  <2> QED BY <1>1, <2>3, <2>4, <2>5 DEF Connect, TypeOK, node, ghosts
<1>2. ASSUME NEW n \in Nodes, Persist(n) PROVE SemInv'
  <2>1. SemaphoreExact' BY <1>2, SemFrame DEF Persist
  <2>2. TypeOK' BY <1>2 DEF Persist, TypeOK, stream, ghosts
  <2> QED BY <2>1, <2>2
<1>3. CASE Disconnect
  <2>1. SemaphoreExact' BY <1>3, SemFrame DEF Disconnect, node
  <2> QED BY <1>3, <2>1 DEF Disconnect, TypeOK, node, ghosts
<1>4. CASE Send
  <2>1. SemaphoreExact' BY <1>4, SemFrame DEF Send
  <2>2. cursor' \in Nat \X Nat BY <1>4, EventFacts DEF Send
  <2>3. mailbox' \in [Nodes -> Seq(Events)] BY <1>4 DEF Send, TypeOK
  <2>4. sent' \subseteq Events BY <1>4 DEF Send, TypeOK
  <2> QED BY <1>4, <2>1, <2>2, <2>3, <2>4 DEF Send, TypeOK
<1>5. CASE KeepAlive
  <2>1. SemaphoreExact' BY <1>5, SemFrame DEF KeepAlive, node
  <2>2. applied[owner] \in Lsns BY <1>5 DEF KeepAlive, TypeOK
  <2>3. slot' \in 1 .. Len(Wal) + 1
    BY <1>5, <2>2, WalFacts DEF KeepAlive, Larger, Lsns, TypeOK
  <2> QED BY <1>5, <2>1, <2>3 DEF KeepAlive, TypeOK, node, ghosts
<1> QED BY <1>1, <1>2, <1>3, <1>4, <1>5

-----------------------------------------------------------------------------
\* Receiving: a worker that is started takes a free place and raises the
\* semaphore; one that cannot be started leaves both alone.
LEMMA SpawnSem ==
    ASSUME SemInv, NEW n \in Nodes, NEW e \in Events, NEW b \in BOOLEAN, Spawn(n, e, b)
    PROVE  task' \in Tasking /\ sem' \in [Nodes -> Nat] /\ SemaphoreExact'
<1> USE DEF SemInv
<1>1. CASE UNCHANGED <<task, sem>> BY <1>1, SemFrame DEF TypeOK, Tasking
<1>2. ASSUME NEW i \in Tasks, task[n][i] = Free,
             task' = [task EXCEPT ![n][i] = [pc |-> "apply", ev |-> e, metered |-> b, current |-> 0]],
             sem' = IF b THEN [sem EXCEPT ![n] = @ + 1] ELSE sem
      PROVE  task' \in Tasking /\ sem' \in [Nodes -> Nat] /\ SemaphoreExact'
  <2> DEFINE w == [pc |-> "apply", ev |-> e, metered |-> b, current |-> 0]
  <2>1. w \in Worker /\ w.metered = b BY WalFacts DEF Worker, Lsns
  <2>2. task' = [task EXCEPT ![n][i] = w] BY <1>2
  <2> HIDE DEF w
  <2>3. task' \in Tasking BY <2>1, <2>2 DEF Tasking, TypeOK
  <2>4. sem' \in [Nodes -> Nat] BY <1>2 DEF TypeOK
  <2>5. \A m \in Nodes, j \in Tasks : task'[m][j] = IF m = n /\ j = i THEN w ELSE task[m][j]
    BY <2>2 DEF TypeOK
  <2>6. ASSUME NEW m \in Nodes PROVE sem'[m] = Cardinality(Metered(m)')
    <3>1. sem[m] = Cardinality(Metered(m)) BY DEF SemaphoreExact, Metered
    <3>2. CASE m # n \/ ~b
      <4>1. Metered(m)' = Metered(m) BY <3>2, <2>1, <2>5, <1>2, FreeFacts DEF Metered
      <4>2. sem'[m] = sem[m] BY <3>2, <1>2 DEF TypeOK
      <4> QED BY <3>1, <4>1, <4>2
    <3>3. CASE m = n /\ b
      <4>1. Metered(m)' = Metered(m) \cup {i} BY <3>3, <2>1, <2>5, FreeFacts DEF Metered
      <4>2. i \notin Metered(m) BY <3>3, <1>2 DEF Metered
      <4>3. sem'[m] = sem[m] + 1 BY <3>3, <1>2 DEF TypeOK
      <4> QED BY <3>1, <4>1, <4>2, <4>3, MeteredFinite, FS_AddElement
    <3> QED BY <3>2, <3>3
  <2> QED BY <2>3, <2>4, <2>6 DEF SemaphoreExact, Metered
<1> QED BY <1>1, <1>2 DEF Spawn

LEMMA ReceiveTypes ==
    ASSUME SemInv, NEW n \in Nodes, Receive(n)
    PROVE  SemInv'
<1> USE DEF SemInv
<1> DEFINE e == Head(mailbox[n])
<1>1. e \in Events /\ mailbox' \in [Nodes -> Seq(Events)] BY DEF Receive, TypeOK
<1>2. UNCHANGED <<stream, checkpoint, up, sweep, persisted, sent>> BY DEF Receive
<1>3. \/ ReceiveUnconfigured(n, e) \/ ReceiveInfra(n, e) \/ ReceiveMetered(n, e)
      \/ Coalesce(n, e) \/ LookupFails(n, e)
    BY DEF Receive
<1> HIDE DEF e
<1>4. /\ task' \in Tasking /\ sem' \in [Nodes -> Nat] /\ SemaphoreExact'
      /\ coalesced' \in [Nodes -> [Tables -> Int]]
      /\ applied' \in [Nodes -> Lsns]
      /\ handled' \in [Nodes -> SUBSET Events] /\ owed' \in [Nodes -> SUBSET Events]
      /\ acked' \in [Nodes -> SUBSET Lsns]
  <2>1. CASE ReceiveUnconfigured(n, e)
    <3>1. e[1] \in Lsns BY <1>1, EventFacts
    <3>2. applied' \in [Nodes -> Lsns] /\ acked' \in [Nodes -> SUBSET Lsns]
      BY <2>1, <3>1 DEF ReceiveUnconfigured, Acknowledge, TypeOK, Larger
    <3>3. SemaphoreExact' BY <2>1, SemFrame DEF ReceiveUnconfigured
    <3> QED BY <1>1, <2>1, <3>2, <3>3 DEF ReceiveUnconfigured, TypeOK, Tasking
  <2>2. CASE ReceiveInfra(n, e)
    BY <1>1, <2>2, SpawnSem DEF ReceiveInfra, TypeOK
  <2>3. CASE ReceiveMetered(n, e)
    BY <1>1, <2>3, SpawnSem DEF ReceiveMetered, TypeOK
  <2>4. CASE Coalesce(n, e)
    <3>1. TableOf(e) \in Tables BY <1>1, EventFacts
    <3>2. SemaphoreExact' BY <2>4, SemFrame DEF Coalesce
    <3> QED BY <1>1, <2>4, <3>1, <3>2 DEF Coalesce, TypeOK, Tasking
  <2>5. CASE LookupFails(n, e)
    <3>1. SemaphoreExact' BY <2>5, SemFrame DEF LookupFails
    <3> QED BY <2>5, <3>1 DEF LookupFails, TypeOK, Tasking
  <2> QED BY <1>3, <2>1, <2>2, <2>3, <2>4, <2>5
<1> QED BY <1>1, <1>2, <1>4 DEF TypeOK, stream, Tasking

LEMMA WorkerTypes ==
    ASSUME SemInv, NEW n \in Nodes, NEW i \in Tasks, WorkerStep(n, i) \/ WorkerFails(n, i)
    PROVE  SemInv'
<1> USE DEF SemInv
<1>1. task \in Tasking BY DEF TypeOK, Tasking
<1>2. task[n][i] \in Worker
  <2>1. task[n][i].pc # "free"
    BY DEF WorkerStep, WorkerFails, Apply, AckRead, AckCas, Release
  <2> QED BY <2>1, Busy
<1>3. task[n][i].ev \in Events /\ task[n][i].ev[1] \in Lsns BY <1>2, EventFacts DEF Worker
<1>4. CASE Apply(n, i)
  <2>1. SemaphoreExact' /\ task' \in Tasking BY <1>2, <1>4, AdvanceSem DEF Apply
  <2> QED BY <1>3, <1>4, <2>1 DEF Apply, TypeOK, stream, Tasking
<1>5. CASE AckRead(n, i)
  <2>1. applied[n] \in Lsns BY DEF TypeOK
  <2>2. SemaphoreExact' /\ task' \in Tasking
    <3>1. CASE task' = [task EXCEPT ![n][i].pc = "release"]
      BY <1>2, <1>5, <3>1, AdvanceSem DEF AckRead
    <3>2. CASE task' = [task EXCEPT ![n][i].pc = "cas", ![n][i].current = applied[n]]
      <4>1. /\ task' \in Tasking
            /\ task'[n][i] \in Worker /\ task'[n][i].metered = task[n][i].metered
            /\ \A m \in Nodes, j \in Tasks : <<m, j>> # <<n, i>> => task'[m][j] = task[m][j]
        BY <1>1, <1>2, <2>1, <3>2, AdvanceToCas
      <4>2. sem' = sem BY <1>5 DEF AckRead
      <4> QED BY <1>2, <4>1, <4>2, SemKeep
    <3> QED BY <1>5, <3>1, <3>2 DEF AckRead
  <2>3. acked' \in [Nodes -> SUBSET Lsns] BY <1>3, <1>5 DEF AckRead, TypeOK
  <2> QED BY <1>5, <2>2, <2>3 DEF AckRead, TypeOK, stream, Tasking
<1>6. CASE AckCas(n, i)
  <2>1. SemaphoreExact' /\ task' \in Tasking BY <1>2, <1>6, AdvanceSem DEF AckCas
  <2>2. \/ UNCHANGED <<applied, acked>>
        \/ /\ applied' = [applied EXCEPT ![n] = task[n][i].ev[1]]
           /\ acked' = [acked EXCEPT ![n] = @ \cup {task[n][i].ev[1]}]
    BY <1>6 DEF AckCas
  <2>3. applied' \in [Nodes -> Lsns] /\ acked' \in [Nodes -> SUBSET Lsns]
    <3>1. CASE UNCHANGED <<applied, acked>> BY <3>1 DEF TypeOK
    <3>2. ASSUME applied' = [applied EXCEPT ![n] = task[n][i].ev[1]],
                 acked' = [acked EXCEPT ![n] = @ \cup {task[n][i].ev[1]}]
          PROVE  applied' \in [Nodes -> Lsns] /\ acked' \in [Nodes -> SUBSET Lsns]
      <4>1. acked[n] \cup {task[n][i].ev[1]} \in SUBSET Lsns BY <1>3 DEF TypeOK
      <4> QED BY <1>3, <3>2, <4>1 DEF TypeOK
    <3> QED BY <2>2, <3>1, <3>2
  <2> QED BY <1>6, <2>1, <2>3 DEF AckCas, TypeOK, stream, Tasking
<1>7. CASE WorkerFails(n, i)
  <2>1. SemaphoreExact' /\ task' \in Tasking BY <1>2, <1>7, AdvanceSem DEF WorkerFails
  <2> QED BY <1>7, <2>1 DEF WorkerFails, TypeOK, stream, ghosts, Tasking
<1>8. CASE Release(n, i)
  <2>1. task' = [task EXCEPT ![n][i] = Free] BY <1>8 DEF Release
  <2>2. task' \in Tasking BY <1>1, <2>1 DEF Tasking
  <2>3. \A m \in Nodes, j \in Tasks : task'[m][j] = IF m = n /\ j = i THEN Free ELSE task[m][j]
    BY <1>1, <2>1 DEF Tasking
  <2>4. ASSUME NEW m \in Nodes PROVE sem'[m] = Cardinality(Metered(m)') /\ sem'[m] \in Nat
    <3>1. sem[m] = Cardinality(Metered(m)) BY DEF SemaphoreExact, Metered
    <3>2. CASE m # n \/ ~task[n][i].metered
      <4>1. Metered(m)' = Metered(m) BY <3>2, <2>3 DEF Metered
      <4>2. sem'[m] = sem[m] BY <3>2, <1>8 DEF Release, TypeOK
      <4> QED BY <3>1, <4>1, <4>2, MeteredFinite
    <3>3. CASE m = n /\ task[n][i].metered
      <4>1. Metered(m)' = Metered(m) \ {i} BY <3>3, <2>3 DEF Metered
      <4>2. i \in Metered(m) BY <3>3, <1>2, FreeFacts DEF Metered
      <4>3. sem'[m] = sem[m] - 1 BY <3>3, <1>8 DEF Release, TypeOK
      <4>4. Cardinality(Metered(m)') = Cardinality(Metered(m)) - 1 /\ IsFiniteSet(Metered(m)')
        BY <4>1, <4>2, MeteredFinite, FS_RemoveElement
      <4>5. Cardinality(Metered(m)') \in Nat BY <4>4, FS_CardinalityType
      <4> QED BY <3>1, <4>3, <4>4, <4>5
    <3> QED BY <3>2, <3>3
  <2>5. SemaphoreExact' BY <2>4 DEF SemaphoreExact, Metered
  <2>6. sem' = [m \in Nodes |-> sem'[m]] BY <1>8 DEF Release, TypeOK
  <2>7. sem' \in [Nodes -> Nat] BY <2>4, <2>6
  <2> QED BY <1>8, <2>2, <2>5, <2>7 DEF Release, TypeOK, stream, ghosts, Tasking
<1> QED BY <1>4, <1>5, <1>6, <1>7, <1>8 DEF WorkerStep

LEMMA SweepTypes ==
    ASSUME SemInv, NEW n \in Nodes, SweepStep(n) \/ SweepFails(n)
    PROVE  SemInv'
<1> USE DEF SemInv
<1>1. UNCHANGED <<task, sem>>
    BY DEF SweepStep, SweepRead, SweepTake, SweepFlush, SweepFails
<1>2. SemaphoreExact' BY <1>1, SemFrame
<1>3. CASE SweepRead(n)
  <2>1. PICK t \in Tables :
           /\ coalesced[n][t] > 0
           /\ sweep' = [sweep EXCEPT ![n] = [table |-> t, count |-> coalesced[n][t], taken |-> FALSE]]
    BY <1>3 DEF SweepRead
  <2>2. coalesced[n][t] \in Nat BY <2>1 DEF TypeOK
  <2>3. sweep' \in [Nodes -> Sweep \cup {None}] BY <2>1, <2>2 DEF TypeOK, Sweep
  <2> QED BY <1>2, <1>3, <2>3 DEF SweepRead, TypeOK, stream, ghosts
<1>4. CASE SweepTake(n)
  <2>1. sweep[n] \in Sweep BY <1>4 DEF SweepTake, TypeOK
  <2>2. sweep' \in [Nodes -> Sweep \cup {None}]
    <3>1. [sweep[n] EXCEPT !.taken = TRUE] \in Sweep BY <2>1 DEF Sweep
    <3>2. sweep' = [sweep EXCEPT ![n] = [sweep[n] EXCEPT !.taken = TRUE]] BY <1>4 DEF SweepTake, TypeOK
    <3> QED BY <3>1, <3>2 DEF TypeOK
  <2>3. coalesced' \in [Nodes -> [Tables -> Int]] BY <1>4, <2>1 DEF SweepTake, Sweep, TypeOK
  <2> QED BY <1>2, <1>4, <2>2, <2>3 DEF SweepTake, TypeOK, stream, ghosts
<1>5. CASE SweepFlush(n)
  <2>1. sweep' \in [Nodes -> Sweep \cup {None}] BY <1>5 DEF SweepFlush, TypeOK
  <2>2. handled' \in [Nodes -> SUBSET Events] /\ owed' \in [Nodes -> SUBSET Events]
    BY <1>5 DEF SweepFlush, TypeOK
  <2> QED BY <1>2, <1>5, <2>1, <2>2 DEF SweepFlush, TypeOK, stream
<1>6. CASE SweepFails(n)
  <2>1. sweep' \in [Nodes -> Sweep \cup {None}] BY <1>6 DEF SweepFails, TypeOK
  <2> QED BY <1>2, <1>6, <2>1 DEF SweepFails, TypeOK, stream, ghosts
<1> QED BY <1>3, <1>4, <1>5, <1>6 DEF SweepStep

\* When all the workers of a node are gone, its semaphore is new as well.
LEMMA SemReset ==
    ASSUME SemInv, NEW n \in Nodes,
           task' = [task EXCEPT ![n] = [i \in Tasks |-> Free]], sem' = [sem EXCEPT ![n] = 0]
    PROVE  task' \in Tasking /\ sem' \in [Nodes -> Nat] /\ SemaphoreExact'
<1> USE DEF SemInv
<1>1. task' \in Tasking /\ sem' \in [Nodes -> Nat] BY DEF TypeOK, Tasking
<1>2. ASSUME NEW m \in Nodes PROVE sem'[m] = Cardinality(Metered(m)')
  <2>1. CASE m = n
    <3>1. Metered(m)' = {} BY <2>1 DEF Metered, TypeOK
    <3> QED BY <2>1, <3>1, FS_EmptySet DEF TypeOK
  <2>2. CASE m # n
    <3>1. Metered(m)' = Metered(m) BY <2>2 DEF Metered, TypeOK
    <3> QED BY <2>2, <3>1 DEF SemaphoreExact, Metered, TypeOK
  <2> QED BY <2>1, <2>2
<1> QED BY <1>1, <1>2 DEF SemaphoreExact, Metered

LEMMA CrashTypes ==
    ASSUME SemInv, NEW n \in Nodes, SupervisorCrash(n) \/ NodeDown(n) \/ NodeUp(n)
    PROVE  SemInv'
<1> USE DEF SemInv
<1>1. CASE SupervisorCrash(n)
  <2>1. task' \in Tasking /\ sem' \in [Nodes -> Nat] /\ SemaphoreExact'
    BY <1>1, SemReset DEF SupervisorCrash
  <2>2. coalesced' \in [Nodes -> [Tables -> Int]] BY <1>1 DEF SupervisorCrash, TypeOK
  <2>3. sweep' \in [Nodes -> Sweep \cup {None}] BY <1>1 DEF SupervisorCrash, TypeOK
  <2> QED BY <1>1, <2>1, <2>2, <2>3 DEF SupervisorCrash, TypeOK, stream, ghosts, Tasking
<1>2. CASE NodeDown(n)
  <2>1. task' \in Tasking /\ sem' \in [Nodes -> Nat] /\ SemaphoreExact'
    BY <1>2, SemReset DEF NodeDown
  <2>2. coalesced' \in [Nodes -> [Tables -> Int]] BY <1>2 DEF NodeDown, TypeOK
  <2>3. sweep' \in [Nodes -> Sweep \cup {None}] BY <1>2 DEF NodeDown, TypeOK
  <2>4. mailbox' \in [Nodes -> Seq(Events)] BY <1>2 DEF NodeDown, TypeOK
  <2>5. owner' \in Nodes \cup {None} /\ up' \subseteq Nodes BY <1>2 DEF NodeDown, TypeOK
  <2>6. acked' \in [Nodes -> SUBSET Lsns] BY <1>2 DEF NodeDown, TypeOK
  <2> QED BY <1>2, <2>1, <2>2, <2>3, <2>4, <2>5, <2>6 DEF NodeDown, TypeOK, Tasking
<1>3. CASE NodeUp(n)
  <2>1. SemaphoreExact' BY <1>3, SemFrame DEF NodeUp
  <2>2. PICK l \in ReadCheckpoint : /\ applied' = [applied EXCEPT ![n] = l]
                                    /\ persisted' = [persisted EXCEPT ![n] = l]
    BY <1>3 DEF NodeUp
  <2>3. l \in Lsns BY WalFacts DEF ReadCheckpoint, TypeOK, Lsns
  <2>4. applied' \in [Nodes -> Lsns] /\ persisted' \in [Nodes -> Lsns] BY <2>2, <2>3 DEF TypeOK
  <2> QED BY <1>3, <2>1, <2>4 DEF NodeUp, TypeOK, stream, ghosts
<1> QED BY <1>1, <1>2, <1>3

LEMMA SemInit == Init => SemInv
<1> SUFFICES ASSUME Init PROVE SemInv OBVIOUS
<1>1. TypeOK BY WalFacts, WalAssumption DEF Init, TypeOK, Lsns
<1>2. ASSUME NEW n \in Nodes PROVE sem[n] = Cardinality(Metered(n))
  <2>1. Metered(n) = {} BY DEF Init, Metered
  <2> QED BY <2>1, FS_EmptySet DEF Init
<1> QED BY <1>1, <1>2 DEF SemInv, SemaphoreExact, Metered

LEMMA SemNext == SemInv /\ [Next]_vars => SemInv'
<1> SUFFICES ASSUME SemInv, [Next]_vars PROVE SemInv' OBVIOUS
<1>1. CASE UNCHANGED vars
    BY <1>1 DEF SemInv, TypeOK, SemaphoreExact, vars, stream, node, ghosts
<1>2. CASE Next
    BY <1>2, StreamTypes, ReceiveTypes, WorkerTypes, SweepTypes, CrashTypes DEF Next
<1> QED BY <1>1, <1>2

LEMMA SemInvariant == Spec => []SemInv
BY SemInit, SemNext, PTL DEF Spec

\* The pipeline's state keeps its types, for every cluster, WAL, cap and set of
\* faults: in particular no semaphore goes below zero and no slot past the WAL.
THEOREM TypeCorrect == Spec => []TypeOK
<1>1. SemInv => TypeOK BY DEF SemInv
<1> QED BY <1>1, SemInvariant, PTL

\* The tenant's semaphore counts the workers that run, whatever interleaves and
\* whatever crashes (Worker.Supervisor.try_acquire and release).
THEOREM SemaphoreCounts == Spec => []SemaphoreExact
<1>1. SemInv => SemaphoreExact BY DEF SemInv
<1> QED BY <1>1, SemInvariant, PTL

-----------------------------------------------------------------------------
(***************************************************************************)
(* Acknowledgements.  A worker about to compare and swap has read an older *)
(* LSN than its own; a node that is down has neither workers nor           *)
(* acknowledgements to keep.                                               *)
(***************************************************************************)
CasOlder == \A n \in Nodes, i \in Tasks :
                task[n][i].pc = "cas" => task[n][i].current < task[n][i].ev[1]
DownIdle == \A n \in Nodes : n \notin up => acked[n] = {} /\ \A i \in Tasks : task[n][i] = Free
AckKept == CasOlder /\ DownIdle /\ AcksKept
AckInv == SemInv /\ AckKept

\* A step that acknowledges nothing and in which a place is left alone, given
\* free, or taken or moved on by a running node short of its swap.
LEMMA AckFrame ==
    ASSUME AckInv, UNCHANGED <<up, applied, acked>>,
           \A n \in Nodes, i \in Tasks :
              \/ task'[n][i] = task[n][i] \/ task'[n][i] = Free
              \/ n \in up /\ task'[n][i].pc # "cas"
    PROVE  AckKept'
BY FreeFacts DEF AckInv, AckKept, CasOlder, DownIdle, AcksKept

\* Only a running node has workers.
LEMMA BusyUp ==
    ASSUME AckInv, NEW n \in Nodes, NEW i \in Tasks, task[n][i].pc # "free"
    PROVE  n \in up /\ task[n][i] \in Worker /\ task[n][i].ev \in Events
           /\ task[n][i].ev[1] \in Nat /\ applied[n] \in Nat
<1>1. n \in up BY FreeFacts DEF AckInv, AckKept, DownIdle
<1>2. task[n][i] \in Worker BY Busy DEF AckInv, SemInv
<1>3. task[n][i].ev \in Events BY <1>2 DEF Worker
<1>4. applied[n] \in Nat BY WalFacts DEF AckInv, SemInv, TypeOK, Lsns
<1> QED BY <1>1, <1>2, <1>3, <1>4, EventFacts

LEMMA AckReceive ==
    ASSUME AckInv, NEW n \in Nodes, Receive(n)
    PROVE  AckKept'
<1> USE DEF AckInv, SemInv
<1> DEFINE e == Head(mailbox[n])
<1>1. e \in Events /\ n \in up /\ up' = up BY DEF Receive, TypeOK
<1>2. \/ ReceiveUnconfigured(n, e) \/ ReceiveInfra(n, e) \/ ReceiveMetered(n, e)
      \/ Coalesce(n, e) \/ LookupFails(n, e)
    BY DEF Receive
<1> HIDE DEF e
<1>3. CASE ReceiveUnconfigured(n, e)
  <2>1. e[1] \in Nat /\ \A m \in Nodes : applied[m] \in Nat
    BY <1>1, EventFacts, WalFacts DEF TypeOK, Lsns
  <2>2. applied'[n] >= e[1] /\ applied'[n] >= applied[n] /\ acked'[n] = acked[n] \cup {e[1]}
    BY <1>3, <2>1 DEF ReceiveUnconfigured, Acknowledge, Larger, TypeOK
  <2>3. \A m \in Nodes : m # n => applied'[m] = applied[m] /\ acked'[m] = acked[m]
    BY <1>3 DEF ReceiveUnconfigured, Acknowledge, TypeOK
  <2>4. applied'[n] \in Nat BY <1>3, <2>1 DEF ReceiveUnconfigured, Acknowledge, Larger, TypeOK
  <2>5. ASSUME NEW l \in acked'[n] PROVE l <= applied'[n]
    <3>1. l \in Nat BY <2>1, <2>2 DEF TypeOK, Lsns
    <3>2. l \in acked[n] => l <= applied[n] BY <1>1 DEF AckKept, AcksKept
    <3> QED BY <2>1, <2>2, <2>4, <3>1, <3>2
  <2>6. AcksKept' BY <1>1, <2>3, <2>5 DEF AckKept, AcksKept, TypeOK
  <2>7. task' = task BY <1>3 DEF ReceiveUnconfigured
  <2> QED BY <1>1, <2>3, <2>6, <2>7 DEF AckKept, CasOlder, DownIdle
<1>4. CASE ReceiveInfra(n, e) \/ ReceiveMetered(n, e)
  <2>1. PICK b \in BOOLEAN : Spawn(n, e, b) BY <1>4 DEF ReceiveInfra, ReceiveMetered
  <2>2. UNCHANGED <<applied, acked>> BY <1>4 DEF ReceiveInfra, ReceiveMetered
  <2>3. \A m \in Nodes, j \in Tasks : task'[m][j] = task[m][j] \/ (m \in up /\ task'[m][j].pc # "cas")
    <3>1. CASE task' = task BY <3>1
    <3>2. ASSUME NEW i \in Tasks,
                 task' = [task EXCEPT ![n][i] = [pc |-> "apply", ev |-> e, metered |-> b, current |-> 0]]
          PROVE  \A m \in Nodes, j \in Tasks :
                     task'[m][j] = task[m][j] \/ (m \in up /\ task'[m][j].pc # "cas")
      <4> DEFINE w == [pc |-> "apply", ev |-> e, metered |-> b, current |-> 0]
      <4>1. \A m \in Nodes, j \in Tasks : task'[m][j] = IF m = n /\ j = i THEN w ELSE task[m][j]
        BY <3>2 DEF TypeOK
      <4> QED BY <1>1, <4>1
    <3> QED BY <2>1, <3>1, <3>2 DEF Spawn
  <2> QED BY <1>1, <2>2, <2>3, AckFrame
<1>5. CASE Coalesce(n, e) \/ LookupFails(n, e)
    BY <1>1, <1>5, AckFrame DEF Coalesce, LookupFails
<1> QED BY <1>2, <1>3, <1>4, <1>5

LEMMA AckWorker ==
    ASSUME AckInv, NEW n \in Nodes, NEW i \in Tasks, WorkerStep(n, i) \/ WorkerFails(n, i)
    PROVE  AckKept'
<1> USE DEF AckInv, SemInv
<1>1. task[n][i].pc # "free" BY DEF WorkerStep, WorkerFails, Apply, AckRead, AckCas, Release
<1>2. /\ n \in up /\ task[n][i] \in Worker /\ task[n][i].ev \in Events
      /\ task[n][i].ev[1] \in Nat /\ applied[n] \in Nat
    BY <1>1, BusyUp
<1>3. task \in Tasking BY DEF TypeOK, Tasking
<1>4. CASE Apply(n, i) \/ WorkerFails(n, i)
  <2>1. PICK p \in {"ack", "release"} : task' = [task EXCEPT ![n][i].pc = p]
    BY <1>4 DEF Apply, WorkerFails
  <2>2. task'[n][i].pc # "cas"
        /\ \A m \in Nodes, j \in Tasks : <<m, j>> # <<n, i>> => task'[m][j] = task[m][j]
    BY <1>2, <1>3, <2>1, Advance
  <2>3. UNCHANGED <<up, applied, acked>> BY <1>4 DEF Apply, WorkerFails, ghosts
  <2> QED BY <1>2, <2>2, <2>3, AckFrame
<1>5. CASE Release(n, i)
  <2>1. \A m \in Nodes, j \in Tasks : task'[m][j] = task[m][j] \/ task'[m][j] = Free
    BY <1>5 DEF Release, TypeOK
  <2> QED BY <1>5, <2>1, AckFrame DEF Release, ghosts
<1>6. CASE AckRead(n, i)
  <2>1. CASE task[n][i].ev[1] <= applied[n]
    <3>1. task' = [task EXCEPT ![n][i].pc = "release"]
          /\ acked' = [acked EXCEPT ![n] = @ \cup {task[n][i].ev[1]}] /\ up' = up /\ applied' = applied
      BY <1>2, <1>6, <2>1 DEF AckRead
    <3>2. task'[n][i].pc = "release"
          /\ \A m \in Nodes, j \in Tasks : <<m, j>> # <<n, i>> => task'[m][j] = task[m][j]
      BY <1>2, <1>3, <3>1, Advance
    <3>3. CasOlder' BY <3>2 DEF AckKept, CasOlder
    <3>4. DownIdle' BY <1>2, <3>1, <3>2 DEF AckKept, DownIdle, TypeOK
    <3>5. AcksKept' BY <2>1, <3>1 DEF AckKept, AcksKept, TypeOK
    <3> QED BY <3>3, <3>4, <3>5 DEF AckKept
  <2>2. CASE task[n][i].ev[1] > applied[n]
    <3>1. task' = [task EXCEPT ![n][i].pc = "cas", ![n][i].current = applied[n]]
          /\ UNCHANGED <<up, applied, acked>>
      BY <1>2, <1>6, <2>2 DEF AckRead
    <3>2. applied[n] \in Lsns BY DEF TypeOK
    <3>3. /\ task' \in Tasking
          /\ task'[n][i] \in Worker /\ task'[n][i].pc = "cas" /\ task'[n][i].current = applied[n]
          /\ task'[n][i].ev = task[n][i].ev /\ task'[n][i].metered = task[n][i].metered
          /\ \A m \in Nodes, j \in Tasks : <<m, j>> # <<n, i>> => task'[m][j] = task[m][j]
      BY <1>2, <1>3, <3>1, <3>2, AdvanceToCas
    <3>4. CasOlder'
      <4>1. applied[n] < task[n][i].ev[1] BY <1>2, <2>2
      <4>2. task'[n][i].current < task'[n][i].ev[1] BY <3>3, <4>1
      <4>3. \A m \in Nodes, j \in Tasks :
               task[m][j].pc = "cas" => task[m][j].current < task[m][j].ev[1]
        BY DEF AckKept, CasOlder
      <4> HIDE DEF AckInv, SemInv
      <4>4. ASSUME NEW m \in Nodes, NEW j \in Tasks, task'[m][j].pc = "cas"
            PROVE  task'[m][j].current < task'[m][j].ev[1]
        <5>1. CASE m = n /\ j = i BY ONLY <4>2, <5>1
        <5>2. CASE <<m, j>> # <<n, i>>
          <6>1. task'[m][j] = task[m][j] BY <3>3, <5>2
          <6> QED BY <4>3, <4>4, <6>1
        <5> QED BY <5>1, <5>2
      <4> QED BY <4>4 DEF CasOlder
    <3>5. DownIdle'
      <4>1. ASSUME NEW m \in Nodes, m \notin up PROVE acked[m] = {} /\ \A j \in Tasks : task'[m][j] = Free
        <5>1. m # n BY <1>2, <4>1
        <5>2. \A j \in Tasks : task'[m][j] = task[m][j] BY <3>3, <5>1
        <5> QED BY <4>1, <5>2 DEF AckKept, DownIdle
      <4> QED BY <3>1, <4>1 DEF DownIdle
    <3>6. AcksKept' BY <3>1 DEF AckKept, AcksKept
    <3> QED BY <3>4, <3>5, <3>6 DEF AckKept
  <2> QED BY <1>2, <2>1, <2>2
<1>7. CASE AckCas(n, i)
  <2>1. CASE applied[n] = task[n][i].current
    <3>1. /\ task' = [task EXCEPT ![n][i].pc = "release"]
          /\ applied' = [applied EXCEPT ![n] = task[n][i].ev[1]]
          /\ acked' = [acked EXCEPT ![n] = @ \cup {task[n][i].ev[1]}] /\ up' = up
      BY <1>7, <2>1 DEF AckCas
    <3>2. task'[n][i].pc = "release"
          /\ \A m \in Nodes, j \in Tasks : <<m, j>> # <<n, i>> => task'[m][j] = task[m][j]
      BY <1>2, <1>3, <3>1, Advance
    <3>3. applied[n] < task[n][i].ev[1] BY <1>7, <2>1 DEF AckCas, AckKept, CasOlder
    <3>4. CasOlder' BY <3>2 DEF AckKept, CasOlder
    <3>5. DownIdle' BY <1>2, <3>1, <3>2 DEF AckKept, DownIdle, TypeOK
    <3>6. ASSUME NEW l \in acked'[n] PROVE l <= applied'[n]
      <4>1. applied'[n] = task[n][i].ev[1] BY <3>1 DEF TypeOK
      <4>2. l \in acked[n] \/ l = task[n][i].ev[1] BY <3>1 DEF TypeOK
      <4>3. l \in acked[n] => l \in Nat /\ l <= applied[n] BY <1>2 DEF AckKept, AcksKept, TypeOK, Lsns
      <4> QED BY <1>2, <3>3, <4>1, <4>2, <4>3
    <3>7. AcksKept' BY <3>1, <3>6 DEF AckKept, AcksKept, TypeOK
    <3> QED BY <3>4, <3>5, <3>7 DEF AckKept
  <2>2. CASE applied[n] # task[n][i].current
    <3>1. task' = [task EXCEPT ![n][i].pc = "ack"] /\ UNCHANGED <<up, applied, acked>>
      BY <1>7, <2>2 DEF AckCas
    <3>2. task'[n][i].pc # "cas"
          /\ \A m \in Nodes, j \in Tasks : <<m, j>> # <<n, i>> => task'[m][j] = task[m][j]
      BY <1>2, <1>3, <3>1, Advance
    <3> QED BY <1>2, <3>1, <3>2, AckFrame
  <2> QED BY <2>1, <2>2
<1> QED BY <1>4, <1>5, <1>6, <1>7 DEF WorkerStep

LEMMA AckCrash ==
    ASSUME AckInv, NEW n \in Nodes, SupervisorCrash(n) \/ NodeDown(n) \/ NodeUp(n)
    PROVE  AckKept'
<1> USE DEF AckInv, SemInv
<1>1. CASE SupervisorCrash(n)
  <2>1. \A m \in Nodes, j \in Tasks : task'[m][j] = task[m][j] \/ task'[m][j] = Free
    BY <1>1 DEF SupervisorCrash, TypeOK
  <2> QED BY <1>1, <2>1, AckFrame DEF SupervisorCrash, ghosts
<1>2. CASE NodeDown(n)
  <2>1. \A m \in Nodes, j \in Tasks : task'[m][j] = IF m = n THEN Free ELSE task[m][j]
    BY <1>2 DEF NodeDown, TypeOK
  <2>2. \A m \in Nodes : acked'[m] = IF m = n THEN {} ELSE acked[m] BY <1>2 DEF NodeDown, TypeOK
  <2>3. up' = up \ {n} /\ applied' = applied BY <1>2 DEF NodeDown
  <2>4. CasOlder' BY <2>1, FreeFacts DEF AckKept, CasOlder
  <2>5. DownIdle' BY <2>1, <2>2, <2>3 DEF AckKept, DownIdle
  <2>6. AcksKept' BY <2>2, <2>3 DEF AckKept, AcksKept, TypeOK
  <2> QED BY <2>4, <2>5, <2>6 DEF AckKept
<1>3. CASE NodeUp(n)
  <2>1. acked[n] = {} BY <1>3 DEF NodeUp, AckKept, DownIdle
  <2>2. \A m \in Nodes : m # n => applied'[m] = applied[m] BY <1>3 DEF NodeUp, TypeOK
  <2>3. UNCHANGED <<task, acked>> /\ up' = up \cup {n} BY <1>3 DEF NodeUp, ghosts
  <2>4. AcksKept' BY <2>1, <2>2, <2>3 DEF AckKept, AcksKept, TypeOK
  <2> QED BY <2>3, <2>4 DEF AckKept, CasOlder, DownIdle
<1> QED BY <1>1, <1>2, <1>3

LEMMA AckNext == AckInv /\ [Next]_vars => AckInv'
<1> SUFFICES ASSUME AckInv, [Next]_vars PROVE AckKept' BY SemNext DEF AckInv
<1>1. CASE UNCHANGED vars
    BY <1>1 DEF AckInv, AckKept, CasOlder, DownIdle, AcksKept, vars, stream, node, ghosts
<1>2. ASSUME NEW n \in Nodes, Connect(n) \/ Persist(n) \/ SweepStep(n) \/ SweepFails(n) PROVE AckKept'
  <2>1. UNCHANGED <<task, up, applied, acked>>
    BY <1>2 DEF Connect, Persist, SweepStep, SweepRead, SweepTake, SweepFlush, SweepFails, node, ghosts
  <2> QED BY <2>1, AckFrame
<1>3. CASE Disconnect \/ Send \/ KeepAlive
  <2>1. UNCHANGED <<task, up, applied, acked>> BY <1>3 DEF Disconnect, Send, KeepAlive, node, ghosts
  <2> QED BY <2>1, AckFrame
<1>4. CASE Next BY <1>2, <1>3, <1>4, AckReceive, AckWorker, AckCrash DEF Next
<1> QED BY <1>1, <1>4

\* However the compare and swaps of concurrent workers meet, no LSN a running
\* node has acknowledged is taken back (LsnStore.bump).
THEOREM AcksNeverLost == Spec => []AcksKept
<1>1. Init => AckInv
  <2> SUFFICES ASSUME Init PROVE AckKept BY SemInit DEF AckInv
  <2> QED BY FreeFacts DEF Init, AckKept, CasOlder, DownIdle, AcksKept
<1>2. AckInv => AcksKept BY DEF AckInv, AckKept
<1> QED BY <1>1, <1>2, AckNext, PTL DEF Spec

-----------------------------------------------------------------------------
(***************************************************************************)
(* No change is forgotten as long as nothing but the tailer and the        *)
(* checkpoint's database fails, and there are at least as many places for  *)
(* workers as the semaphore admits.  The invariant says where a published  *)
(* change is, and that a bucket is never emptied by more than it holds.    *)
(***************************************************************************)
CalmFaults == Faults \subseteq {"tailer_crash", "db_error"}
RoomForAll == Infra = {} /\ Cap <= Cardinality(Tasks)

AllMetered == \A n \in Nodes, i \in Tasks : task[n][i] # Free => task[n][i].metered
BucketsSound ==
    \A n \in Nodes :
       /\ \A t \in Tables : coalesced[n][t] >= 0
       /\ sweep[n] # None /\ ~sweep[n].taken => sweep[n].count <= coalesced[n][sweep[n].table]
FlowKept == up = Nodes /\ AllMetered /\ BucketsSound /\ NothingForgotten
FlowInv == SemInv /\ FlowKept

Safe(n, e) == e \in handled[n] \/ Waiting(n, e) \/ Working(n, e) \/ ToBeFlushed(n, e)

LEMMA SafeMeans == up = Nodes => (NothingForgotten <=> \A n \in Nodes, e \in sent : Safe(n, e))
BY DEF NothingForgotten, Safe

\* Below the cap there is a free place.
LEMMA FreePlace ==
    ASSUME FlowInv, RoomForAll, NEW n \in Nodes, sem[n] + 1 <= Cap
    PROVE  \E i \in Tasks : task[n][i] = Free
<1> SUFFICES ASSUME \A i \in Tasks : task[n][i] # Free PROVE FALSE OBVIOUS
<1>1. Metered(n) = Tasks BY DEF Metered, FlowInv, FlowKept, AllMetered
<1>2. sem[n] = Cardinality(Tasks) BY <1>1 DEF FlowInv, SemInv, SemaphoreExact, Metered
<1>3. Cap \in Nat /\ sem[n] \in Nat BY WalAssumption DEF FlowInv, SemInv, TypeOK
<1> QED BY <1>2, <1>3 DEF RoomForAll

\* The stream and the checkpoint row.
LEMMA FlowStream ==
    ASSUME FlowInv, CalmFaults,
           \/ \E n \in Nodes : Connect(n) \/ Persist(n)
           \/ Disconnect \/ KeepAlive
    PROVE  FlowKept'
<1>1. UNCHANGED <<up, task, sem, mailbox, coalesced, sweep, sent, handled, owed>>
    BY DEF Connect, Persist, Disconnect, KeepAlive, node, ghosts
<1> QED BY <1>1 DEF FlowInv, FlowKept, AllMetered, BucketsSound, NothingForgotten, Waiting, Working,
                    ToBeFlushed

LEMMA FlowSend ==
    ASSUME FlowInv, Send
    PROVE  FlowKept'
<1> USE DEF FlowInv, SemInv
<1>1. /\ UNCHANGED <<up, task, sem, coalesced, sweep, handled, owed>>
      /\ cursor \in Events /\ sent' = sent \cup {cursor}
      /\ mailbox' = [n \in Nodes |-> IF n \in up THEN Append(mailbox[n], cursor) ELSE mailbox[n]]
    BY DEF Send
<1>2. ASSUME NEW n \in Nodes
      PROVE  /\ \A e : Waiting(n, e) => Waiting(n, e)'
             /\ \E k \in DOMAIN mailbox'[n] : mailbox'[n][k] = cursor
  <2>1. mailbox'[n] = Append(mailbox[n], cursor) /\ mailbox[n] \in Seq(Events)
    BY <1>1 DEF FlowKept, TypeOK
  <2>2. \A k \in DOMAIN mailbox[n] : k \in DOMAIN mailbox'[n] /\ mailbox'[n][k] = mailbox[n][k]
    BY <1>1, <2>1
  <2>3. Len(mailbox[n]) + 1 \in DOMAIN mailbox'[n] /\ mailbox'[n][Len(mailbox[n]) + 1] = cursor
    BY <1>1, <2>1
  <2> QED BY <2>2, <2>3 DEF Waiting
<1>3. NothingForgotten'
  <2> SUFFICES ASSUME NEW n \in Nodes, NEW e \in sent'
               PROVE  e \in handled'[n] \/ Waiting(n, e)' \/ Working(n, e)' \/ ToBeFlushed(n, e)'
    BY <1>1 DEF FlowKept, NothingForgotten
  <2>1. CASE e \in sent
    <3>1. e \in handled[n] \/ Waiting(n, e) \/ Working(n, e) \/ ToBeFlushed(n, e)
      BY <2>1 DEF FlowKept, NothingForgotten
    <3> QED BY <1>1, <1>2, <3>1 DEF Working, ToBeFlushed
  <2>2. CASE e = cursor
    <3>1. \E k \in DOMAIN mailbox'[n] : mailbox'[n][k] = e BY <1>2, <2>2
    <3> QED BY <3>1 DEF Waiting
  <2> QED BY <1>1, <2>1, <2>2
<1> QED BY <1>1, <1>3 DEF FlowKept, AllMetered, BucketsSound

\* Taking the first message leaves the others waiting.
LEMMA TailWaits ==
    ASSUME NEW S, NEW s \in Seq(S), s # <<>>, NEW k \in DOMAIN s
    PROVE  s[k] = Head(s) \/ \E j \in DOMAIN Tail(s) : Tail(s)[j] = s[k]
<1>1. CASE k = 1 BY <1>1
<1>2. CASE k # 1
  <2>1. k - 1 \in DOMAIN Tail(s) /\ Tail(s)[k - 1] = s[k] BY <1>2
  <2> QED BY <2>1
<1> QED BY <1>1, <1>2

LEMMA FlowReceive ==
    ASSUME FlowInv, CalmFaults, RoomForAll, NEW n \in Nodes, Receive(n)
    PROVE  FlowKept'
<1> USE DEF FlowInv, SemInv
<1>0. PICK e \in Events : e = Head(mailbox[n]) BY DEF Receive, TypeOK
<1>1. /\ mailbox[n] # <<>> /\ mailbox[n] \in Seq(Events)
      /\ mailbox' = [mailbox EXCEPT ![n] = Tail(@)]
      /\ up' = up /\ sweep' = sweep /\ sent' = sent
    BY DEF Receive, TypeOK
<1>2. \/ ReceiveUnconfigured(n, e) \/ ReceiveInfra(n, e) \/ ReceiveMetered(n, e)
      \/ Coalesce(n, e) \/ LookupFails(n, e)
    BY <1>0 DEF Receive
<1>3. ASSUME NEW m \in Nodes, NEW f, Waiting(m, f), ~(m = n /\ f = e)
      PROVE  Waiting(m, f)'
  <2>1. CASE m = n
    <3>1. PICK k \in DOMAIN mailbox[n] : mailbox[n][k] = f BY <1>3, <2>1 DEF Waiting
    <3>2. \E j \in DOMAIN Tail(mailbox[n]) : Tail(mailbox[n])[j] = f
      BY <1>0, <1>1, <1>3, <2>1, <3>1, TailWaits
    <3>3. mailbox'[m] = Tail(mailbox[n]) BY <1>1, <2>1 DEF TypeOK
    <3> QED BY <3>2, <3>3 DEF Waiting
  <2>2. CASE m # n
    <3>1. mailbox'[m] = mailbox[m] BY <1>1, <2>2 DEF TypeOK
    <3> QED BY <1>3, <3>1 DEF Waiting
  <2> QED BY <2>1, <2>2
\* what remains is to follow the other three places, and e
<1>4. SUFFICES /\ AllMetered' /\ BucketsSound'
               /\ \A m \in Nodes, f \in sent :
                     /\ f \in handled[m] \/ Working(m, f) \/ ToBeFlushed(m, f) =>
                           f \in handled'[m] \/ Working(m, f)' \/ ToBeFlushed(m, f)'
                     /\ m = n /\ f = e =>
                           f \in handled'[m] \/ Working(m, f)' \/ ToBeFlushed(m, f)'
  <2>1. ASSUME NEW m \in Nodes, NEW f \in sent,
               f \in handled[m] \/ Working(m, f) \/ ToBeFlushed(m, f) =>
                  f \in handled'[m] \/ Working(m, f)' \/ ToBeFlushed(m, f)',
               m = n /\ f = e => f \in handled'[m] \/ Working(m, f)' \/ ToBeFlushed(m, f)'
        PROVE  f \in handled'[m] \/ Waiting(m, f)' \/ Working(m, f)' \/ ToBeFlushed(m, f)'
    BY <1>3, <2>1 DEF FlowKept, NothingForgotten
  <2> QED BY <1>1, <2>1 DEF FlowKept, NothingForgotten
<1>5. CASE ReceiveUnconfigured(n, e)
  <2>1. UNCHANGED <<task, coalesced, owed>> /\ handled' = [handled EXCEPT ![n] = @ \cup {e}]
    BY <1>5 DEF ReceiveUnconfigured
  <2>2. \A m \in Nodes : handled[m] \subseteq handled'[m] BY <2>1 DEF TypeOK
  <2>3. e \in handled'[n] BY <2>1 DEF TypeOK
  <2> QED BY <1>1, <2>1, <2>2, <2>3
          DEF FlowKept, AllMetered, BucketsSound, Working, ToBeFlushed
<1>6. ~ReceiveInfra(n, e) BY DEF ReceiveInfra, RoomForAll
<1>7. ~LookupFails(n, e) BY DEF LookupFails, CalmFaults
<1>8. CASE ReceiveMetered(n, e)
  <2>1. /\ sem[n] + 1 <= Cap /\ Spawn(n, e, TRUE) /\ UNCHANGED <<coalesced, handled, owed>>
    BY <1>8 DEF ReceiveMetered
  <2>2. \E i \in Tasks : task[n][i] = Free BY <2>1, FreePlace
  <2> DEFINE w == [pc |-> "apply", ev |-> e, metered |-> TRUE, current |-> 0]
  <2>3. PICK i \in Tasks : task[n][i] = Free /\ task' = [task EXCEPT ![n][i] = w]
    BY <2>1, <2>2 DEF Spawn
  <2>4. \A m \in Nodes, j \in Tasks : task'[m][j] = IF m = n /\ j = i THEN w ELSE task[m][j]
    BY <2>3 DEF TypeOK
  <2>5. w.pc = "apply" /\ w.ev = e /\ w.metered OBVIOUS
  <2> HIDE DEF w
  <2>6. Working(n, e)' BY <2>4, <2>5 DEF Working
  <2>7. \A m \in Nodes : \A f : Working(m, f) => Working(m, f)'
    <3>1. ASSUME NEW m \in Nodes, NEW f, NEW j \in Tasks, task[m][j].ev = f, task[m][j].pc = "apply"
          PROVE  task'[m][j] = task[m][j]
      BY <2>3, <2>4, <3>1, FreeFacts
    <3> QED BY <3>1 DEF Working
  <2>8. AllMetered' BY <2>4, <2>5 DEF FlowKept, AllMetered
  <2> QED BY <1>1, <2>1, <2>6, <2>7, <2>8 DEF FlowKept, BucketsSound, ToBeFlushed
<1>9. CASE Coalesce(n, e)
  <2>1. /\ UNCHANGED <<task, handled>>
        /\ coalesced' = [coalesced EXCEPT ![n][TableOf(e)] = @ + 1]
        /\ owed' = [owed EXCEPT ![n] = @ \cup {e}]
    BY <1>9 DEF Coalesce
  <2>2. TableOf(e) \in Tables BY EventFacts
  <2>3. \A m \in Nodes, t \in Tables :
           /\ coalesced[m][t] \in Int /\ coalesced[m][t] >= 0
           /\ coalesced'[m][t] = IF m = n /\ t = TableOf(e) THEN coalesced[m][t] + 1
                                                            ELSE coalesced[m][t]
    BY <2>1, <2>2 DEF TypeOK, FlowKept, BucketsSound
  <2>4. \A m \in Nodes : owed[m] \subseteq owed'[m] BY <2>1 DEF TypeOK
  <2>5. e \in owed'[n] BY <2>1 DEF TypeOK
  <2>6. BucketsSound'
    <3>1. ASSUME NEW m \in Nodes, sweep[m] # None, ~sweep[m].taken
          PROVE  sweep[m].count <= coalesced'[m][sweep[m].table]
      <4>1. sweep[m] \in Sweep BY <3>1 DEF TypeOK
      <4>2. sweep[m].table \in Tables /\ sweep[m].count \in Nat BY <4>1 DEF Sweep
      <4>3. sweep[m].count <= coalesced[m][sweep[m].table] BY <3>1 DEF FlowKept, BucketsSound
      <4> QED BY <2>3, <4>2, <4>3
    <3> QED BY <1>1, <2>3, <3>1 DEF BucketsSound
  <2>7. ASSUME NEW m \in Nodes, NEW f \in Events, ToBeFlushed(m, f) PROVE ToBeFlushed(m, f)'
    <3>1. TableOf(f) \in Tables BY EventFacts
    <3>2. f \in owed'[m] BY <2>4, <2>7 DEF ToBeFlushed
    <3>3. coalesced[m][TableOf(f)] > 0 => coalesced'[m][TableOf(f)] > 0 BY <2>3, <3>1
    <3> QED BY <1>1, <2>7, <3>2, <3>3 DEF ToBeFlushed
  <2>8. ToBeFlushed(n, e)'
    <3>1. coalesced'[n][TableOf(e)] > 0 BY <2>2, <2>3
    <3> QED BY <2>5, <3>1 DEF ToBeFlushed
  <2>9. sent \subseteq Events BY DEF TypeOK
  <2>10. AllMetered' BY <2>1 DEF FlowKept, AllMetered
  <2> QED BY <2>1, <2>6, <2>7, <2>8, <2>9, <2>10 DEF Working
<1> QED BY <1>2, <1>5, <1>6, <1>7, <1>8, <1>9

LEMMA FlowWorker ==
    ASSUME FlowInv, CalmFaults, NEW n \in Nodes, NEW i \in Tasks, WorkerStep(n, i) \/ WorkerFails(n, i)
    PROVE  FlowKept'
<1> USE DEF FlowInv, SemInv
<1>1. task \in Tasking /\ task[n][i] \in Worker
  <2>1. task[n][i].pc # "free" BY DEF WorkerStep, WorkerFails, Apply, AckRead, AckCas, Release
  <2> QED BY <2>1, Busy DEF TypeOK, Tasking
<1>2. UNCHANGED <<up, mailbox, coalesced, sweep, sent, owed>>
    BY DEF WorkerStep, WorkerFails, Apply, AckRead, AckCas, Release, ghosts
<1>3. ~WorkerFails(n, i) BY DEF WorkerFails, CalmFaults
<1>4. task[n][i].metered BY <1>1, FreeFacts DEF FlowKept, AllMetered
\* the place keeps its semaphore or is given free, and its change is not being applied
<1>5. /\ \A m \in Nodes, j \in Tasks : <<m, j>> # <<n, i>> => task'[m][j] = task[m][j]
      /\ task'[n][i] = Free \/ task'[n][i].metered
  <2>1. CASE Release(n, i)
    <3>1. task' = [task EXCEPT ![n][i] = Free] BY <2>1 DEF Release
    <3> QED BY <1>1, <3>1 DEF Tasking
  <2>2. CASE Apply(n, i) \/ AckRead(n, i) \/ AckCas(n, i)
    <3>1. \/ \E p \in {"ack", "release"} : task' = [task EXCEPT ![n][i].pc = p]
          \/ task' = [task EXCEPT ![n][i].pc = "cas", ![n][i].current = applied[n]]
      BY <2>2 DEF Apply, AckRead, AckCas
    <3>2. applied[n] \in Lsns BY DEF TypeOK
    <3>3. CASE \E p \in {"ack", "release"} : task' = [task EXCEPT ![n][i].pc = p]
      <4>1. PICK p \in {"ack", "release"} : task' = [task EXCEPT ![n][i].pc = p] BY <3>3
      <4>2. /\ task'[n][i].metered = task[n][i].metered
            /\ \A m \in Nodes, j \in Tasks : <<m, j>> # <<n, i>> => task'[m][j] = task[m][j]
        BY <1>1, <4>1, Advance
      <4> QED BY <1>4, <4>2
    <3>4. CASE task' = [task EXCEPT ![n][i].pc = "cas", ![n][i].current = applied[n]]
      <4>1. /\ task' \in Tasking
            /\ task'[n][i] \in Worker /\ task'[n][i].pc = "cas" /\ task'[n][i].current = applied[n]
            /\ task'[n][i].ev = task[n][i].ev /\ task'[n][i].metered = task[n][i].metered
            /\ \A m \in Nodes, j \in Tasks : <<m, j>> # <<n, i>> => task'[m][j] = task[m][j]
        BY <1>1, <3>2, <3>4, AdvanceToCas
      <4> QED BY <1>4, <4>1
    <3> QED BY <3>1, <3>3, <3>4
  <2> QED BY <1>3, <2>1, <2>2 DEF WorkerStep
<1>6. AllMetered'
  <2>1. \A m \in Nodes, j \in Tasks : task[m][j] # Free => task[m][j].metered
    BY DEF FlowKept, AllMetered
  <2>2. ASSUME NEW m \in Nodes, NEW j \in Tasks, task'[m][j] # Free PROVE task'[m][j].metered
    <3>1. CASE <<m, j>> = <<n, i>>
      <4>1. m = n /\ j = i BY <3>1
      <4> QED BY <1>5, <2>2, <4>1
    <3>2. CASE <<m, j>> # <<n, i>>
      <4>1. task'[m][j] = task[m][j] BY <1>5, <3>2
      <4> QED BY <2>1, <2>2, <4>1
    <3> QED BY <3>1, <3>2
  <2> QED BY <2>2 DEF AllMetered
<1>7. \A m \in Nodes : handled[m] \subseteq handled'[m]
    BY <1>3 DEF WorkerStep, Apply, AckRead, AckCas, Release, ghosts, TypeOK
<1>8. ASSUME NEW m \in Nodes, NEW f, Working(m, f) PROVE f \in handled'[m] \/ Working(m, f)'
  <2>1. PICK j \in Tasks : task[m][j].ev = f /\ task[m][j].pc = "apply" BY <1>8 DEF Working
  <2>2. CASE <<m, j>> = <<n, i>>
    <3>1. m = n /\ j = i BY <2>2
    <3>2. Apply(n, i) BY <1>3, <2>1, <3>1 DEF WorkerStep, AckRead, AckCas, Release
    <3>3. handled' = [handled EXCEPT ![n] = @ \cup {task[n][i].ev}] BY <3>2 DEF Apply
    <3> QED BY <2>1, <3>1, <3>3 DEF TypeOK
  <2>3. CASE <<m, j>> # <<n, i>>
    <3>1. task'[m][j] = task[m][j] BY <1>5, <2>3
    <3> QED BY <2>1, <3>1 DEF Working
  <2> QED BY <2>2, <2>3
<1>9. NothingForgotten'
  <2>1. ASSUME NEW m \in Nodes, NEW f \in sent
        PROVE  f \in handled'[m] \/ Waiting(m, f)' \/ Working(m, f)' \/ ToBeFlushed(m, f)'
    <3>1. f \in handled[m] \/ Waiting(m, f) \/ Working(m, f) \/ ToBeFlushed(m, f)
      BY DEF FlowKept, NothingForgotten
    <3>2. Waiting(m, f) => Waiting(m, f)' BY <1>2 DEF Waiting
    <3>3. ToBeFlushed(m, f) => ToBeFlushed(m, f)' BY <1>2 DEF ToBeFlushed
    <3> QED BY <1>7, <1>8, <3>1, <3>2, <3>3
  <2> QED BY <1>2, <2>1 DEF FlowKept, NothingForgotten
<1> QED BY <1>2, <1>6, <1>9 DEF FlowKept, BucketsSound

LEMMA FlowSweep ==
    ASSUME FlowInv, CalmFaults, NEW n \in Nodes, SweepStep(n) \/ SweepFails(n)
    PROVE  FlowKept'
<1> USE DEF FlowInv, SemInv
<1>1. UNCHANGED <<up, mailbox, task, sent>>
    BY DEF SweepStep, SweepFails, SweepRead, SweepTake, SweepFlush, stream, ghosts
<1>2. ~SweepFails(n) BY DEF SweepFails, CalmFaults
<1>3. AllMetered' BY <1>1 DEF FlowKept, AllMetered
\* it is enough that the buckets stay sound and each owed change is safe
<1>4. SUFFICES /\ BucketsSound'
               /\ \A m \in Nodes : handled[m] \subseteq handled'[m]
               /\ \A m \in Nodes, f \in Events :
                     ToBeFlushed(m, f) => f \in handled'[m] \/ ToBeFlushed(m, f)'
  <2>1. ASSUME NEW m \in Nodes, NEW f \in sent,
               \A g \in Events : ToBeFlushed(m, g) => g \in handled'[m] \/ ToBeFlushed(m, g)',
               handled[m] \subseteq handled'[m]
        PROVE  f \in handled'[m] \/ Waiting(m, f)' \/ Working(m, f)' \/ ToBeFlushed(m, f)'
    <3>1. f \in handled[m] \/ Waiting(m, f) \/ Working(m, f) \/ ToBeFlushed(m, f)
      BY DEF FlowKept, NothingForgotten
    <3>2. f \in Events BY DEF TypeOK
    <3>3. Waiting(m, f) => Waiting(m, f)' BY <1>1 DEF Waiting
    <3>4. Working(m, f) => Working(m, f)' BY <1>1 DEF Working
    <3> QED BY <2>1, <3>1, <3>2, <3>3, <3>4
  <2> QED BY <1>1, <1>3, <2>1 DEF FlowKept, NothingForgotten
<1>5. CASE SweepRead(n)
  <2>1. PICK t \in Tables :
           /\ coalesced[n][t] > 0
           /\ sweep' = [sweep EXCEPT ![n] = [table |-> t, count |-> coalesced[n][t], taken |-> FALSE]]
    BY <1>5 DEF SweepRead
  <2>2. sweep[n] = None /\ UNCHANGED <<coalesced, handled, owed>> BY <1>5 DEF SweepRead, ghosts
  <2>3. \A m \in Nodes : m # n => sweep'[m] = sweep[m] BY <2>1 DEF TypeOK
  <2>4. sweep'[n] = [table |-> t, count |-> coalesced[n][t], taken |-> FALSE] BY <2>1 DEF TypeOK
  <2>5. coalesced[n][t] \in Int BY DEF TypeOK
  <2>6. BucketsSound'
    <3>1. ASSUME NEW m \in Nodes, sweep'[m] # None, ~sweep'[m].taken
          PROVE  sweep'[m].count <= coalesced[m][sweep'[m].table]
      BY <2>3, <2>4, <2>5, <3>1 DEF FlowKept, BucketsSound
    <3> QED BY <2>2, <3>1 DEF FlowKept, BucketsSound
  <2>7. \A m \in Nodes, f \in Events : ToBeFlushed(m, f) => ToBeFlushed(m, f)'
    BY <2>2, <2>3 DEF ToBeFlushed
  <2> QED BY <2>2, <2>6, <2>7
<1>6. CASE SweepTake(n)
  <2>1. /\ sweep[n] # None /\ ~sweep[n].taken /\ UNCHANGED <<handled, owed>>
        /\ coalesced' = [coalesced EXCEPT ![n][sweep[n].table] = @ - sweep[n].count]
        /\ sweep' = [sweep EXCEPT ![n].taken = TRUE]
    BY <1>6 DEF SweepTake, ghosts
  <2>2. sweep[n] \in Sweep BY <2>1 DEF TypeOK
  <2>3. sweep[n].table \in Tables /\ sweep[n].count \in Nat BY <2>2 DEF Sweep
  <2>4. sweep'[n].taken /\ sweep'[n].table = sweep[n].table /\ sweep'[n] # None
    <3>1. sweep'[n] = [sweep[n] EXCEPT !.taken = TRUE] BY <2>1 DEF TypeOK
    <3>2. [sweep[n] EXCEPT !.taken = TRUE].taken
          /\ [sweep[n] EXCEPT !.taken = TRUE].table = sweep[n].table
      BY <2>2 DEF Sweep
    <3>3. sweep'[n] \in Sweep BY <2>2, <3>1 DEF Sweep
    <3>4. None \notin Sweep BY WalAssumption DEF Sweep
    <3> QED BY <3>1, <3>2, <3>3, <3>4
  <2>5. \A m \in Nodes : m # n => sweep'[m] = sweep[m] BY <2>1 DEF TypeOK
  <2>6. \A m \in Nodes, t \in Tables :
           coalesced'[m][t] = IF m = n /\ t = sweep[n].table THEN coalesced[m][t] - sweep[n].count
                                                             ELSE coalesced[m][t]
    BY <2>1, <2>3 DEF TypeOK
  <2>7. sweep[n].count <= coalesced[n][sweep[n].table] BY <2>1 DEF FlowKept, BucketsSound
  <2>8. BucketsSound'
    <3>1. ASSUME NEW m \in Nodes, NEW t \in Tables PROVE coalesced'[m][t] >= 0
      <4>1. coalesced[m][t] \in Int /\ coalesced[m][t] >= 0 BY DEF TypeOK, FlowKept, BucketsSound
      <4> QED BY <2>3, <2>6, <2>7, <4>1
    <3>2. ASSUME NEW m \in Nodes, sweep'[m] # None, ~sweep'[m].taken
          PROVE  sweep'[m].count <= coalesced'[m][sweep'[m].table]
      <4>1. m # n BY <2>4, <3>2
      <4>2. sweep'[m] = sweep[m] BY <2>5, <4>1
      <4>3. sweep[m] \in Sweep BY <3>2, <4>2 DEF TypeOK
      <4>4. coalesced'[m][sweep[m].table] = coalesced[m][sweep[m].table]
        BY <2>6, <4>1, <4>3 DEF Sweep
      <4>5. sweep[m].count <= coalesced[m][sweep[m].table]
        BY <3>2, <4>2 DEF FlowKept, BucketsSound
      <4> QED BY <4>2, <4>4, <4>5
    <3> QED BY <3>1, <3>2 DEF BucketsSound
  <2>9. ASSUME NEW m \in Nodes, NEW f \in Events, ToBeFlushed(m, f) PROVE ToBeFlushed(m, f)'
    <3>1. TableOf(f) \in Tables BY EventFacts
    <3>2. f \in owed'[m] BY <2>1, <2>9 DEF ToBeFlushed
    <3>3. CASE m = n /\ TableOf(f) = sweep[n].table BY <2>4, <3>2, <3>3 DEF ToBeFlushed
    <3>4. CASE m # n
      <4>1. coalesced'[m][TableOf(f)] = coalesced[m][TableOf(f)] /\ sweep'[m] = sweep[m]
        BY <2>5, <2>6, <3>1, <3>4
      <4> QED BY <2>9, <3>2, <4>1 DEF ToBeFlushed
    <3>5. CASE m = n /\ TableOf(f) # sweep[n].table
      <4>1. coalesced'[m][TableOf(f)] = coalesced[m][TableOf(f)] BY <2>6, <3>1, <3>5
      <4> QED BY <2>9, <3>2, <3>5, <4>1 DEF ToBeFlushed
    <3> QED BY <3>3, <3>4, <3>5
  <2> QED BY <2>1, <2>8, <2>9
<1>7. CASE SweepFlush(n)
  <2> DEFINE covered == {e \in owed[n] : TableOf(e) = sweep[n].table}
  <2>1. /\ sweep[n] # None /\ sweep[n].taken /\ coalesced' = coalesced
        /\ handled' = [handled EXCEPT ![n] = @ \cup covered]
        /\ owed' = [owed EXCEPT ![n] = @ \ covered]
        /\ sweep' = [sweep EXCEPT ![n] = None]
    BY <1>7 DEF SweepFlush
  <2>2. \A m \in Nodes : sweep'[m] = IF m = n THEN None ELSE sweep[m] BY <2>1 DEF TypeOK
  <2>3. BucketsSound' BY <2>1, <2>2 DEF FlowKept, BucketsSound
  <2>4. \A m \in Nodes : handled[m] \subseteq handled'[m] BY <2>1 DEF TypeOK
  <2>5. ASSUME NEW m \in Nodes, NEW f \in Events, ToBeFlushed(m, f)
        PROVE  f \in handled'[m] \/ ToBeFlushed(m, f)'
    <3>1. CASE m = n /\ TableOf(f) = sweep[n].table
      BY <2>1, <2>5, <3>1 DEF ToBeFlushed, TypeOK
    <3>2. CASE m = n /\ TableOf(f) # sweep[n].table
      <4>1. f \in owed'[m] BY <2>1, <2>5, <3>2 DEF ToBeFlushed, TypeOK
      <4>2. coalesced'[m][TableOf(f)] > 0 BY <2>1, <2>5, <3>2 DEF ToBeFlushed
      <4> QED BY <4>1, <4>2 DEF ToBeFlushed
    <3>3. CASE m # n
      <4>1. owed'[m] = owed[m] BY <2>1, <3>3 DEF TypeOK
      <4> QED BY <2>1, <2>2, <2>5, <3>3, <4>1 DEF ToBeFlushed
    <3> QED BY <3>1, <3>2, <3>3
  <2> QED BY <2>3, <2>4, <2>5
<1> QED BY <1>2, <1>5, <1>6, <1>7 DEF SweepStep

LEMMA FlowInit == Init => FlowInv
<1> SUFFICES ASSUME Init PROVE FlowKept BY SemInit DEF FlowInv
<1> QED BY FreeFacts DEF Init, FlowKept, AllMetered, BucketsSound, NothingForgotten

LEMMA FlowNext == ASSUME CalmFaults, RoomForAll PROVE FlowInv /\ [Next]_vars => FlowInv'
<1> SUFFICES ASSUME FlowInv, [Next]_vars PROVE FlowKept' BY SemNext DEF FlowInv
<1>1. CASE UNCHANGED vars
    BY <1>1 DEF FlowInv, FlowKept, AllMetered, BucketsSound, NothingForgotten, Waiting, Working,
                ToBeFlushed, vars, stream, node, ghosts
<1>2. \A n \in Nodes : ~SupervisorCrash(n) /\ ~NodeDown(n) /\ ~NodeUp(n)
    BY CalmFaults DEF SupervisorCrash, NodeDown, NodeUp, CalmFaults, FlowInv, FlowKept
<1>3. CASE Next
    BY <1>2, <1>3, CalmFaults, RoomForAll, FlowStream, FlowSend, FlowReceive, FlowWorker, FlowSweep
       DEF Next
<1> QED BY <1>1, <1>3

\* While only the tailer and the checkpoint's database fail, no published
\* change is forgotten: it waits, is being applied, is in a bucket that will
\* be flushed, or has reached the cache, on every node, however subscriber,
\* workers and sweeper interleave.
THEOREM NoChangeForgotten == ASSUME CalmFaults, RoomForAll PROVE Spec => []NothingForgotten
<1>1. FlowInv => NothingForgotten BY DEF FlowInv, FlowKept
<1> QED BY <1>1, CalmFaults, RoomForAll, FlowInit, FlowNext, PTL DEF Spec

-----------------------------------------------------------------------------
(***************************************************************************)
(* The stream has no gap, whatever fails, when every transaction changes   *)
(* one row.  The invariant says that whatever carries an LSN towards the   *)
(* slot or the checkpoint carries one up to which all has been published.  *)
(***************************************************************************)
SingleRows == \A l \in DOMAIN Wal : Len(Wal[l]) = 1

SentUpTo(l) == \A e \in Events : e[1] <= l => e \in sent
GapKept ==
    /\ ResumesWithoutGap
    /\ SentUpTo(slot - 1) /\ SentUpTo(checkpoint)
    /\ \A n \in Nodes : SentUpTo(applied[n])
    /\ \A n \in Nodes : \A k \in DOMAIN mailbox[n] : SentUpTo(mailbox[n][k][1])
    /\ \A n \in Nodes, i \in Tasks : task[n][i].pc # "free" => SentUpTo(task[n][i].ev[1])
GapInv == SemInv /\ GapKept

LEMMA OneRow == ASSUME SingleRows, NEW e \in Events PROVE e[1] \in Nat /\ e[2] = 1 /\ e = <<e[1], 1>>
BY EventFacts, WalFacts DEF SingleRows

\* A step that publishes nothing and in which LSNs are only passed on.
LEMMA GapFrame ==
    ASSUME GapInv, UNCHANGED <<cursor, sent>>,
           slot' = slot \/ SentUpTo(slot' - 1), checkpoint' = checkpoint \/ SentUpTo(checkpoint'),
           \A n \in Nodes : applied'[n] = applied[n] \/ SentUpTo(applied'[n]),
           \A n \in Nodes : \A k \in DOMAIN mailbox'[n] : SentUpTo(mailbox'[n][k][1]),
           \A n \in Nodes, i \in Tasks :
              \/ task'[n][i] = task[n][i] \/ task'[n][i].pc = "free"
              \/ SentUpTo(task'[n][i].ev[1])
    PROVE  GapKept'
<1>1. SentUpTo(slot - 1)' /\ SentUpTo(checkpoint)' BY DEF GapInv, GapKept, SentUpTo
<1>2. \A n \in Nodes : SentUpTo(applied[n])' BY DEF GapInv, GapKept, SentUpTo
<1>3. \A n \in Nodes : \A k \in DOMAIN mailbox'[n] : SentUpTo(mailbox[n][k][1])' BY DEF SentUpTo
<1>4. \A n \in Nodes, i \in Tasks : task'[n][i].pc # "free" => SentUpTo(task[n][i].ev[1])'
  <2>1. ASSUME NEW n \in Nodes, NEW i \in Tasks, task'[n][i].pc # "free"
        PROVE  SentUpTo(task'[n][i].ev[1])
    BY <2>1 DEF GapInv, GapKept
  <2> QED BY <2>1 DEF SentUpTo
<1>5. ResumesWithoutGap' BY DEF GapInv, GapKept, ResumesWithoutGap, Precedes
<1> QED BY <1>1, <1>2, <1>3, <1>4, <1>5 DEF GapKept

LEMMA GapConnect ==
    ASSUME GapInv, SingleRows, NEW n \in Nodes, Connect(n)
    PROVE  GapKept'
<1> USE DEF GapInv, SemInv
<1>1. PICK l \in ReadCheckpoint : cursor' = <<Larger(slot, l), 1>> BY DEF Connect
<1>2. l \in Nat /\ slot \in Nat BY DEF ReadCheckpoint, TypeOK, Lsns
<1>3. SentUpTo(l)
  <2>1. CASE l = checkpoint BY <2>1 DEF GapKept
  <2>2. CASE l = 0 BY <2>2, EventFacts, WalFacts DEF SentUpTo
  <2> QED BY <2>1, <2>2 DEF ReadCheckpoint
<1>4. ASSUME NEW e \in Events, Precedes(e, cursor') PROVE e \in sent
  <2>1. e[1] \in Nat /\ e[2] = 1 BY OneRow
  <2>2. e[1] < Larger(slot, l) BY <1>1, <1>2, <1>4, <2>1 DEF Precedes, Larger
  <2>3. e[1] <= slot - 1 \/ e[1] <= l BY <1>2, <2>1, <2>2 DEF Larger
  <2> QED BY <1>3, <2>3 DEF GapKept, SentUpTo
<1>5. UNCHANGED <<slot, checkpoint, applied, mailbox, task, sent>> BY DEF Connect, node, ghosts
<1> QED BY <1>4, <1>5 DEF GapKept, ResumesWithoutGap, SentUpTo

LEMMA GapSend ==
    ASSUME GapInv, SingleRows, Send
    PROVE  GapKept'
<1> USE DEF GapInv, SemInv
<1>1. PICK c \in Events : c = cursor BY DEF Send
<1>2. /\ sent' = sent \cup {c} /\ cursor' = NextRow(c)
      /\ mailbox' = [n \in Nodes |-> IF n \in up THEN Append(mailbox[n], c) ELSE mailbox[n]]
      /\ UNCHANGED <<slot, checkpoint, applied, task>>
    BY <1>1 DEF Send
<1>3. c[1] \in Nat /\ c[2] = 1 /\ cursor' = <<c[1] + 1, 1>>
    BY <1>2, OneRow, EventFacts DEF NextRow, SingleRows
<1>4. ASSUME NEW e \in Events, e[1] <= c[1] PROVE e \in sent'
  <2>1. e[1] \in Nat /\ e[2] = 1 /\ e = <<e[1], 1>> /\ c = <<c[1], 1>> BY OneRow
  <2>2. CASE e[1] = c[1]
    <3>1. e = c BY <2>1, <2>2
    <3> QED BY <1>2, <3>1
  <2>3. CASE e[1] < c[1] BY <1>1, <1>2, <2>3 DEF GapKept, ResumesWithoutGap, Precedes
  <2> QED BY <1>3, <1>4, <2>1, <2>2, <2>3
<1>5. ResumesWithoutGap'
  <2>1. ASSUME NEW e \in Events, Precedes(e, cursor') PROVE e \in sent'
    <3>1. e[1] \in Nat /\ e[2] = 1 BY OneRow
    <3>2. e[1] <= c[1] BY <1>3, <2>1, <3>1 DEF Precedes
    <3> QED BY <1>4, <3>2
  <2> QED BY <2>1 DEF ResumesWithoutGap, Precedes
<1>6. \A l : SentUpTo(l) => \A e \in Events : e[1] <= l => e \in sent' BY <1>2 DEF SentUpTo
<1>7. ASSUME NEW n \in Nodes, NEW k \in DOMAIN mailbox'[n]
      PROVE  \A e \in Events : e[1] <= mailbox'[n][k][1] => e \in sent'
  <2>1. mailbox[n] \in Seq(Events) BY DEF TypeOK
  <2>2. mailbox'[n] = Append(mailbox[n], c) \/ mailbox'[n] = mailbox[n] BY <1>2
  <2>3. (k \in DOMAIN mailbox[n] /\ mailbox'[n][k] = mailbox[n][k]) \/ mailbox'[n][k] = c
    BY <2>1, <2>2
  <2>4. CASE mailbox'[n][k] = c BY <1>4, <2>4
  <2>5. CASE k \in DOMAIN mailbox[n] /\ mailbox'[n][k] = mailbox[n][k]
    <3>1. SentUpTo(mailbox'[n][k][1]) BY <2>5 DEF GapKept
    <3> QED BY <1>6, <3>1
  <2> QED BY <2>3, <2>4, <2>5
<1>8. SentUpTo(slot - 1)' /\ SentUpTo(checkpoint)' /\ \A n \in Nodes : SentUpTo(applied[n])'
    BY <1>2, <1>6 DEF GapKept, SentUpTo
<1>9. \A n \in Nodes, i \in Tasks : task'[n][i].pc # "free" => SentUpTo(task[n][i].ev[1])'
    BY <1>2, <1>6 DEF GapKept, SentUpTo
<1>10. \A n \in Nodes : \A k \in DOMAIN mailbox'[n] : SentUpTo(mailbox[n][k][1])'
    BY <1>7 DEF SentUpTo
<1> QED BY <1>5, <1>8, <1>9, <1>10 DEF GapKept

LEMMA GapReport ==
    ASSUME GapInv, Disconnect \/ KeepAlive \/ \E n \in Nodes : Persist(n)
    PROVE  GapKept'
<1> USE DEF GapInv, SemInv
<1>1. UNCHANGED <<cursor, sent, applied, mailbox, task>>
    BY DEF Disconnect, KeepAlive, Persist, stream, node, ghosts
<1>2. \A n \in Nodes : applied[n] \in Nat BY WalFacts DEF TypeOK, Lsns
<1>3. slot' = slot \/ SentUpTo(slot' - 1)
  <2>1. CASE KeepAlive
    <3>1. owner \in Nodes /\ slot' = Larger(slot, applied[owner] + 1) BY <2>1 DEF KeepAlive, TypeOK
    <3>2. slot' = slot \/ slot' = applied[owner] + 1 BY <3>1 DEF Larger
    <3>3. (applied[owner] + 1) - 1 = applied[owner] BY <1>2, <3>1
    <3>4. SentUpTo(applied[owner]) BY <3>1 DEF GapKept
    <3> QED BY <3>2, <3>3, <3>4
  <2> QED BY <2>1 DEF Disconnect, Persist, stream
<1>4. checkpoint' = checkpoint \/ SentUpTo(checkpoint') BY DEF Disconnect, KeepAlive, Persist, GapKept
<1>5. \A n \in Nodes : \A k \in DOMAIN mailbox'[n] : SentUpTo(mailbox'[n][k][1])
    BY <1>1 DEF GapKept
<1> QED BY <1>1, <1>3, <1>4, <1>5, GapFrame

LEMMA GapReceive ==
    ASSUME GapInv, NEW n \in Nodes, Receive(n)
    PROVE  GapKept'
<1> USE DEF GapInv, SemInv
<1>1. /\ mailbox[n] # <<>> /\ mailbox[n] \in Seq(Events)
      /\ mailbox' = [mailbox EXCEPT ![n] = Tail(@)]
      /\ UNCHANGED <<cursor, slot, checkpoint, sent>>
    BY DEF Receive, TypeOK, stream
<1>2. PICK e \in Events : e = Head(mailbox[n]) BY DEF Receive, TypeOK
<1>3. \/ ReceiveUnconfigured(n, e) \/ ReceiveInfra(n, e) \/ ReceiveMetered(n, e)
      \/ Coalesce(n, e) \/ LookupFails(n, e)
    BY <1>2 DEF Receive
<1>4. SentUpTo(e[1])
  <2>1. 1 \in DOMAIN mailbox[n] /\ mailbox[n][1] = e BY <1>1, <1>2
  <2> QED BY <2>1 DEF GapKept
<1>5. ASSUME NEW m \in Nodes, NEW k \in DOMAIN mailbox'[m] PROVE SentUpTo(mailbox'[m][k][1])
  <2>1. CASE m = n
    <3>1. mailbox'[m] = Tail(mailbox[n]) BY <1>1, <2>1 DEF TypeOK
    <3>2. k + 1 \in DOMAIN mailbox[n] /\ mailbox'[m][k] = mailbox[n][k + 1]
      <4>1. k \in DOMAIN Tail(mailbox[n]) BY <3>1
      <4>2. \A q \in Seq(Events) :
               q # <<>> => \A j \in DOMAIN Tail(q) : j + 1 \in DOMAIN q /\ Tail(q)[j] = q[j + 1]
        OBVIOUS
      <4> QED BY <1>1, <3>1, <4>1, <4>2
    <3>3. SentUpTo(mailbox[n][k + 1][1]) BY <3>2 DEF GapKept
    <3> QED BY <3>2, <3>3
  <2>2. CASE m # n
    <3>1. mailbox'[m] = mailbox[m] BY <1>1, <2>2 DEF TypeOK
    <3> QED BY <1>5, <3>1 DEF GapKept
  <2> QED BY <2>1, <2>2
<1>6. /\ \A m \in Nodes : applied'[m] = applied[m] \/ SentUpTo(applied'[m])
      /\ \A m \in Nodes, i \in Tasks : \/ task'[m][i] = task[m][i] \/ SentUpTo(task'[m][i].ev[1])
  <2>1. CASE ReceiveUnconfigured(n, e)
    <3>1. task' = task /\ applied' = [applied EXCEPT ![n] = Larger(applied[n], e[1])]
      BY <2>1 DEF ReceiveUnconfigured, Acknowledge
    <3>2. \A m \in Nodes : applied'[m] = applied[m] \/ applied'[m] = e[1]
      BY <3>1 DEF Larger, TypeOK
    <3> QED BY <1>4, <3>1, <3>2
  <2>2. CASE ReceiveInfra(n, e) \/ ReceiveMetered(n, e)
    <3>1. PICK b \in BOOLEAN : Spawn(n, e, b) BY <2>2 DEF ReceiveInfra, ReceiveMetered
    <3>2. applied' = applied BY <2>2 DEF ReceiveInfra, ReceiveMetered
    <3>3. CASE task' = task BY <3>2, <3>3
    <3>4. ASSUME NEW i \in Tasks,
                 task' = [task EXCEPT ![n][i] = [pc |-> "apply", ev |-> e, metered |-> b, current |-> 0]]
          PROVE  \A m \in Nodes, j \in Tasks : task'[m][j] = task[m][j] \/ SentUpTo(task'[m][j].ev[1])
      <4> DEFINE w == [pc |-> "apply", ev |-> e, metered |-> b, current |-> 0]
      <4>1. \A m \in Nodes, j \in Tasks : task'[m][j] = IF m = n /\ j = i THEN w ELSE task[m][j]
        BY <3>4 DEF TypeOK
      <4>2. w.ev = e OBVIOUS
      <4> HIDE DEF w
      <4> QED BY <1>4, <4>1, <4>2
    <3> QED BY <3>1, <3>2, <3>3, <3>4 DEF Spawn
  <2>3. CASE Coalesce(n, e) \/ LookupFails(n, e) BY <2>3 DEF Coalesce, LookupFails
  <2> QED BY <1>3, <2>1, <2>2, <2>3
<1> QED BY <1>1, <1>5, <1>6, GapFrame

LEMMA GapWorker ==
    ASSUME GapInv, NEW n \in Nodes, NEW i \in Tasks, WorkerStep(n, i) \/ WorkerFails(n, i)
    PROVE  GapKept'
<1> USE DEF GapInv, SemInv
<1>1. task[n][i].pc # "free" BY DEF WorkerStep, WorkerFails, Apply, AckRead, AckCas, Release
<1>2. task \in Tasking /\ task[n][i] \in Worker BY <1>1, Busy DEF TypeOK, Tasking
<1>3. SentUpTo(task[n][i].ev[1]) BY <1>1 DEF GapKept
<1>4. UNCHANGED <<cursor, slot, checkpoint, mailbox, sent>>
    BY DEF WorkerStep, WorkerFails, Apply, AckRead, AckCas, Release, stream, ghosts
<1>5. \A m \in Nodes : applied'[m] = applied[m] \/ SentUpTo(applied'[m])
  <2>1. applied' = applied \/ applied' = [applied EXCEPT ![n] = task[n][i].ev[1]]
    BY DEF WorkerStep, WorkerFails, Apply, AckRead, AckCas, Release
  <2> QED BY <1>3, <2>1 DEF TypeOK
<1>6. ASSUME NEW m \in Nodes, NEW j \in Tasks
      PROVE  task'[m][j] = task[m][j] \/ task'[m][j].pc = "free" \/ SentUpTo(task'[m][j].ev[1])
  <2>1. CASE Release(n, i)
    <3>1. task'[m][j] = task[m][j] \/ task'[m][j] = Free BY <1>2, <2>1 DEF Release, Tasking
    <3> QED BY <3>1, FreeFacts
  <2>2. CASE ~Release(n, i)
    <3>1. applied[n] \in Lsns BY DEF TypeOK
    <3>2. \/ \E p \in {"ack", "release"} : task' = [task EXCEPT ![n][i].pc = p]
          \/ task' = [task EXCEPT ![n][i].pc = "cas", ![n][i].current = applied[n]]
      BY <2>2 DEF WorkerStep, WorkerFails, Apply, AckRead, AckCas
    <3>3. /\ \A k \in Nodes, l \in Tasks : <<k, l>> # <<n, i>> => task'[k][l] = task[k][l]
          /\ task'[n][i].ev = task[n][i].ev
      <4>1. CASE \E p \in {"ack", "release"} : task' = [task EXCEPT ![n][i].pc = p]
        BY <1>2, <4>1, Advance
      <4>2. CASE task' = [task EXCEPT ![n][i].pc = "cas", ![n][i].current = applied[n]]
        <5>1. /\ task' \in Tasking
              /\ task'[n][i] \in Worker /\ task'[n][i].pc = "cas" /\ task'[n][i].current = applied[n]
              /\ task'[n][i].ev = task[n][i].ev /\ task'[n][i].metered = task[n][i].metered
              /\ \A k \in Nodes, l \in Tasks : <<k, l>> # <<n, i>> => task'[k][l] = task[k][l]
          BY <1>2, <3>1, <4>2, AdvanceToCas
        <5> QED BY <5>1
      <4> QED BY <3>2, <4>1, <4>2
    <3>4. CASE m = n /\ j = i BY <1>3, <3>3, <3>4
    <3>5. CASE <<m, j>> # <<n, i>> BY <3>3, <3>5
    <3> QED BY <3>4, <3>5
  <2> QED BY <2>1, <2>2
<1>7. \A m \in Nodes : \A k \in DOMAIN mailbox'[m] : SentUpTo(mailbox'[m][k][1])
    BY <1>4 DEF GapKept
<1> QED BY <1>4, <1>5, <1>6, <1>7, GapFrame

LEMMA GapCrash ==
    ASSUME GapInv, NEW n \in Nodes, SupervisorCrash(n) \/ NodeDown(n) \/ NodeUp(n)
    PROVE  GapKept'
<1> USE DEF GapInv, SemInv
<1>1. UNCHANGED <<cursor, slot, checkpoint, sent>>
    BY DEF SupervisorCrash, NodeDown, NodeUp, stream, ghosts
<1>2. \A m \in Nodes, j \in Tasks : task'[m][j] = task[m][j] \/ task'[m][j].pc = "free"
  <2>1. task' = task \/ task' = [task EXCEPT ![n] = [j \in Tasks |-> Free]]
    BY DEF SupervisorCrash, NodeDown, NodeUp
  <2>2. ASSUME NEW m \in Nodes, NEW j \in Tasks PROVE task'[m][j] = task[m][j] \/ task'[m][j] = Free
    <3> DEFINE none == [k \in Tasks |-> Free]
    <3>1. none[j] = Free OBVIOUS
    <3> HIDE DEF none
    <3>2. DOMAIN task = Nodes BY DEF TypeOK
    <3>3. task' = task \/ task' = [task EXCEPT ![n] = none] BY <2>1 DEF none
    <3>4. task'[m] = task[m] \/ task'[m] = none BY <3>2, <3>3
    <3> QED BY <3>1, <3>4
  <2>3. Free.pc = "free" BY DEF Free
  <2> QED BY <2>2, <2>3
<1>3. ASSUME NEW m \in Nodes, NEW k \in DOMAIN mailbox'[m] PROVE SentUpTo(mailbox'[m][k][1])
  <2>1. mailbox' = mailbox \/ mailbox' = [mailbox EXCEPT ![n] = <<>>]
    BY DEF SupervisorCrash, NodeDown, NodeUp
  <2>2. mailbox'[m] = mailbox[m] BY <1>3, <2>1 DEF TypeOK
  <2> QED BY <1>3, <2>2 DEF GapKept
<1>4. \A m \in Nodes : applied'[m] = applied[m] \/ SentUpTo(applied'[m])
  <2>1. CASE NodeUp(n)
    <3>1. PICK l \in ReadCheckpoint : applied' = [applied EXCEPT ![n] = l] BY <2>1 DEF NodeUp
    <3>2. SentUpTo(l) BY EventFacts, WalFacts DEF ReadCheckpoint, GapKept, SentUpTo
    <3> QED BY <3>1, <3>2 DEF TypeOK
  <2> QED BY <2>1 DEF SupervisorCrash, NodeDown
<1> QED BY <1>1, <1>2, <1>3, <1>4, GapFrame

LEMMA GapNext == ASSUME SingleRows PROVE GapInv /\ [Next]_vars => GapInv'
<1> SUFFICES ASSUME GapInv, [Next]_vars PROVE GapKept' BY SemNext DEF GapInv
<1>1. CASE UNCHANGED vars
  <2>1. UNCHANGED <<cursor, slot, checkpoint, applied, mailbox, task, sent>>
    BY <1>1 DEF vars, stream, node, ghosts
  <2> QED BY <2>1, GapFrame DEF GapInv, GapKept
<1>2. ASSUME NEW n \in Nodes, SweepStep(n) \/ SweepFails(n) PROVE GapKept'
  <2>1. UNCHANGED <<cursor, slot, checkpoint, applied, mailbox, task, sent>>
    BY <1>2 DEF SweepStep, SweepRead, SweepTake, SweepFlush, SweepFails, stream, ghosts
  <2> QED BY <2>1, GapFrame DEF GapInv, GapKept
<1>3. CASE Next
    BY <1>2, <1>3, SingleRows, GapConnect, GapSend, GapReport, GapReceive, GapWorker, GapCrash DEF Next
<1> QED BY <1>1, <1>3

\* Whatever fails, the stream resumes no later than where it broke off, when
\* no transaction changes more than one row (Tailer, LsnStore).  The run
\* wal_gap shows that the hypothesis is needed.
THEOREM ResumesAlways == ASSUME SingleRows PROVE Spec => []ResumesWithoutGap
<1>1. Init => GapInv
  <2> SUFFICES ASSUME Init PROVE GapKept BY SemInit DEF GapInv
  <2>1. \A e \in Events : e[1] \in Nat /\ e[1] >= 1 /\ e[2] = 1 BY SingleRows, OneRow, EventFacts, WalFacts
  <2>2. ResumesWithoutGap BY <2>1 DEF Init, ResumesWithoutGap, Precedes
  <2>3. SentUpTo(0) BY <2>1 DEF SentUpTo
  <2>4. slot - 1 = 0 /\ checkpoint = 0 BY DEF Init
  <2> QED BY <2>2, <2>3, <2>4, FreeFacts DEF Init, GapKept
<1>2. GapInv => ResumesWithoutGap BY DEF GapInv, GapKept
<1> QED BY <1>1, <1>2, SingleRows, GapNext, PTL DEF Spec
=============================================================================
