-------------------------- MODULE TursoSyncProofs --------------------------
(***************************************************************************)
(* Nobody waits in a shape's log that holds something for him, for every   *)
(* set of rows, requests and handles, and whatever fails.  A request comes *)
(* to wait only in Log.await, which looks before it registers the waiter,  *)
(* and whoever changes a log wakes or dismisses those who wait in it.      *)
(*                                                                         *)
(* Then the lemmas TursoReplicaProofs rests on: what the operators of the  *)
(* model return, what its steps do to the logs and requests, and that      *)
(* they keep the types.                                                    *)
(***************************************************************************)
EXTENDS TursoReplica, FiniteSetTheorems, SequenceTheorems, TLAPS

\* Requests are records of these fields.
Formed == DOMAIN req = Requests /\ \A c \in Requests : DOMAIN req[c] = Fields

\* What a request that waits may count on.
Safe(r) == r.pc = "waiting" => r.handle \in DOMAIN log /\ ~(r.from < log[r.handle].last)

WInv == Formed /\ \A c \in Requests : Safe(req[c])

\* The step changes no request but into one that does not wait, and no log
\* in which one waits.
Quietly ==
    /\ DOMAIN req' = Requests
    /\ \A c \in Requests :
          /\ DOMAIN req'[c] = Fields
          /\ req'[c].pc = "waiting" =>
                /\ req'[c] = req[c]
                /\ req[c].handle \in DOMAIN log =>
                      req[c].handle \in DOMAIN log' /\ log'[req[c].handle] = log[req[c].handle]

LEMMA QuietSteps == WInv /\ Quietly => WInv'
  BY DEF WInv, Quietly, Formed, Safe

LEMMA IdleForm == DOMAIN Idle = Fields /\ Idle.pc = "idle"
  BY DEF Idle, Fields

LEMMA AnsweredForm == \A a : DOMAIN Answered(a) = Fields /\ Answered(a).pc = "answered"
  BY DEF Answered, Idle, Fields

\* Log.await's notification: whoever waited behind the new end is answered.
LEMMA AppendKeeps ==
  ASSUME WInv, NEW h, NEW l, log' = With(h, l),
         NEW c \in Requests, req'[c] = Woken(req[c], h, l)
  PROVE  DOMAIN req'[c] = Fields /\ Safe(req[c])'
<1>1. DOMAIN req'[c] = Fields
  BY AnsweredForm DEF WInv, Formed, Woken
<1>2. Safe(req[c])'
  <2>1. CASE req'[c] = req[c]
    BY <2>1, AnsweredForm DEF WInv, Safe, With, Woken
  <2>2. CASE req'[c] # req[c]
    BY <2>2, AnsweredForm DEF Safe, Woken
  <2> QED BY <2>1, <2>2
<1> QED BY <1>1, <1>2

\* A request may be given any form that does not wait, if no log is touched.
LEMMA OneRequest ==
  ASSUME WInv, NEW c \in Requests, NEW r, DOMAIN r = Fields, r.pc # "waiting",
         req' = [req EXCEPT ![c] = r], log' = log
  PROVE  WInv'
BY QuietSteps DEF Quietly, WInv, Formed

LEMMA GotoKeeps ==
  ASSUME WInv, NEW c \in Requests, NEW pc, pc # "waiting", Goto(c, pc), log' = log
  PROVE  WInv'
<1> DEFINE r == [req[c] EXCEPT !.pc = pc]
<1>1. DOMAIN r = Fields /\ r.pc = pc
  BY DEF WInv, Formed, Fields
<1>2. req' = [req EXCEPT ![c] = r]
  BY DEF Goto
<1> QED BY <1>1, <1>2, OneRequest

\* send_live_or_settled answers or goes on to Log.await.
LEMMA ReplyForm ==
  ASSUME NEW r, DOMAIN r = Fields, NEW a
  PROVE  DOMAIN Reply(r, a) = Fields /\ Reply(r, a).pc # "waiting"
<1>1. CASE a.messages = <<>> /\ r.live
  BY <1>1 DEF Reply, Fields
<1>2. CASE ~(a.messages = <<>> /\ r.live)
  BY <1>2, AnsweredForm DEF Reply
<1> QED BY <1>1, <1>2

LEMMA RefetchKeeps ==
  ASSUME WInv, NEW c \in Requests, Refetch(c), log' = log
  PROVE  WInv'
BY OneRequest, AnsweredForm DEF Refetch

(***************************************************************************)
(* The steps of the node.                                                  *)
(***************************************************************************)
LEMMA ApplyKeeps ==
  ASSUME WInv, NEW w \in work, NEW h \in w.todo, Apply(w, h)
  PROVE  WInv'
<1> DEFINE message == MessageFor(w, h)
           l == Appended(Read(h), <<message>>)
<1>1. CASE message = None
  BY <1>1, QuietSteps DEF Apply, Quietly, WInv, Formed
<1>2. CASE message # None
  <2>1. log' = With(h, l) /\ req' = [c \in Requests |-> Woken(req[c], h, l)]
    BY <1>2 DEF Apply, AppendTo
  <2> HIDE DEF l
  <2>2. ASSUME NEW c \in Requests PROVE DOMAIN req'[c] = Fields /\ Safe(req[c])'
    BY <2>1, AppendKeeps
  <2> QED BY <2>1, <2>2 DEF WInv, Formed
<1> QED BY <1>1, <1>2

LEMMA AppendPageKeeps ==
  ASSUME WInv, NEW c \in Requests, AppendPage(c)
  PROVE  WInv'
<1> DEFINE h == req[c].handle
           new == SnapshotMessages(c)
           l == Appended(Read(h), new)
           mine == [req[c] EXCEPT !.pc = IF Cardinality(DOMAIN req[c].rows) < PageSize THEN "settle" ELSE "fetch",
                                  !.count = @ + Len(new), !.rows = None]
<1>1. /\ log' = IF new = <<>> THEN log ELSE With(h, l)
      /\ req' = [x \in Requests |->
                    IF x = c THEN mine
                    ELSE IF new = <<>> THEN req[x] ELSE Woken(req[x], h, l)]
  BY DEF AppendPage
<1>2. DOMAIN mine = Fields /\ mine.pc # "waiting"
  BY DEF WInv, Formed, Fields
<1> HIDE DEF l, mine, new
<1>3. CASE new = <<>>
  BY <1>1, <1>2, <1>3, QuietSteps DEF Quietly, WInv, Formed
<1>4. CASE new # <<>>
  <2>1. ASSUME NEW x \in Requests PROVE DOMAIN req'[x] = Fields /\ Safe(req[x])'
    <3>1. CASE x = c
      BY <1>1, <1>2, <3>1 DEF Safe
    <3>2. CASE x # c
      BY <1>1, <1>4, <3>2, AppendKeeps
    <3> QED BY <3>1, <3>2
  <2> QED BY <1>1, <2>1 DEF WInv, Formed
<1> QED BY <1>3, <1>4

LEMMA AwaitLogKeeps ==
  ASSUME WInv, NEW c \in Requests, AwaitLog(c)
  PROVE  WInv'
<1> DEFINE h == req[c].handle
           l == Read(h)
           waiting == [req[c] EXCEPT !.pc = "waiting"]
           answered == Answered(Ok(h, After(l.messages, req[c].from), l.last, TRUE))
<1>1. /\ log' = With(h, l)
      /\ req' = [req EXCEPT ![c] = IF req[c].from < l.last THEN answered ELSE waiting]
  BY DEF AwaitLog
<1>2. /\ DOMAIN waiting = Fields /\ waiting.handle = h /\ waiting.from = req[c].from
      /\ DOMAIN answered = Fields /\ answered.pc # "waiting"
  BY AnsweredForm DEF WInv, Formed, Fields
<1>3. \A x \in DOMAIN log : x \in DOMAIN log' /\ log'[x] = log[x]
  BY <1>1 DEF With, Read
<1>4. h \in DOMAIN log' /\ log'[h] = l
  BY <1>1 DEF With
<1> HIDE DEF l, waiting, answered
<1>5. ASSUME NEW x \in Requests PROVE DOMAIN req'[x] = Fields /\ Safe(req[x])'
  <2>1. CASE x # c
    BY <1>1, <1>3, <2>1 DEF WInv, Formed, Safe
  <2>2. CASE x = c /\ req[c].from < l.last
    BY <1>1, <1>2, <2>2 DEF WInv, Formed, Safe
  <2>3. CASE x = c /\ ~(req[c].from < l.last)
    BY <1>1, <1>2, <1>4, <2>3 DEF WInv, Formed, Safe
  <2> QED BY <2>1, <2>2, <2>3
<1> QED BY <1>1, <1>5 DEF WInv, Formed

\* Whoever waits in a log that is deleted is dismissed.
Dismissing(h) ==
    /\ log' = [x \in DOMAIN log \ {h} |-> log[x]]
    /\ DOMAIN req' = Requests
    /\ \A c \in Requests :
          \/ DOMAIN req'[c] = Fields /\ req'[c].pc # "waiting"
          \/ req'[c] = req[c] /\ ~(req[c].pc = "waiting" /\ req[c].handle = h)

LEMMA DismissedKeeps ==
  ASSUME WInv, NEW h, Dismissing(h)
  PROVE  WInv'
BY QuietSteps DEF Dismissing, Quietly, WInv, Formed

LEMMA RestartKeeps == WInv /\ Restart => WInv'
<1> SUFFICES ASSUME WInv, Restart PROVE WInv'
  OBVIOUS
<1>1. req' = [c \in Requests |-> IF req[c].pc \in {"idle", "answered"} THEN req[c] ELSE Answered(Failed)]
  BY DEF Restart
<1>2. ASSUME NEW c \in Requests PROVE DOMAIN req'[c] = Fields /\ req'[c].pc # "waiting"
  BY <1>1, AnsweredForm DEF WInv, Formed
<1> QED BY <1>1, <1>2 DEF WInv, Formed, Safe

LEMMA GetsPageKeeps ==
  ASSUME WInv, NEW c \in Requests, NEW base, GetsPage(c, base), log' = log
  PROVE  WInv'
<1> DEFINE rows == Page(base, req[c].page)
           r == [req[c] EXCEPT !.base = IF Direct THEN base ELSE None,
                               !.rows = rows, !.page = @ + PageSize,
                               !.pc = IF DOMAIN rows = {} THEN "settle" ELSE "append"]
<1>1. DOMAIN r = Fields /\ r.pc # "waiting"
  BY DEF WInv, Formed, Fields
<1>2. req' = [req EXCEPT ![c] = r]
  BY DEF GetsPage
<1> HIDE DEF r
<1> QED BY <1>1, <1>2, OneRequest

LEMMA ReadingKeeps ==
  ASSUME WInv, NEW c \in Requests, Reading(c)
  PROVE  WInv'
<1>1. CASE Ensure(c)
  <2> DEFINE h == IF req[c].handle = None THEN given + 1 ELSE req[c].handle
             r == [req[c] EXCEPT !.handle = h, !.pc = IF Read(h).messages = <<>> THEN "new" ELSE "rejoin"]
  <2>1. DOMAIN r = Fields /\ r.pc # "waiting"
    BY DEF WInv, Formed, Fields
  <2>2. req' = [req EXCEPT ![c] = r] /\ log' = log
    BY <1>1 DEF Ensure, shapes
  <2> HIDE DEF r
  <2> QED BY <2>1, <2>2, OneRequest
<1>2. CASE StartSnapshot(c)
  BY <1>2, GotoKeeps DEF StartSnapshot
<1>3. CASE Rejoin(c)
  BY <1>3, GotoKeeps DEF Rejoin
<1>4. CASE FetchPage(c)
  BY <1>4, GetsPageKeeps DEF FetchPage, shapes
<1>5. CASE AppendPage(c)
  BY <1>5, AppendPageKeeps
<1>6. CASE Settle(c)
  <2> DEFINE r == Reply(req[c], Settled(req[c].handle))
  <2>1. req' = [req EXCEPT ![c] = r] /\ log' = log
    BY <1>6 DEF Settle, shapes
  <2>2. DOMAIN r = Fields /\ r.pc # "waiting"
    BY ReplyForm DEF WInv, Formed
  <2> HIDE DEF r
  <2> QED BY <2>1, <2>2, OneRequest
<1>7. CASE Resume(c)
  <2>1. log' = log /\ (Refetch(c) \/ Goto(c, "read"))
    BY <1>7 DEF Resume
  <2> QED BY <2>1, RefetchKeeps, GotoKeeps
<1>8. CASE ReadLog(c)
  <2> DEFINE h == req[c].handle
             r == Reply(req[c], Ok(h, After(log[h].messages, req[c].from), Later(req[c].from, log[h].last), TRUE))
  <2>1. log' = log /\ (Refetch(c) \/ req' = [req EXCEPT ![c] = r])
    BY <1>8 DEF ReadLog, shapes
  <2>2. DOMAIN r = Fields /\ r.pc # "waiting"
    BY ReplyForm DEF WInv, Formed
  <2> HIDE DEF r
  <2> QED BY <2>1, <2>2, RefetchKeeps, OneRequest
<1>9. CASE AwaitLog(c)
  BY <1>9, AwaitLogKeeps
<1> QED BY <1>1, <1>2, <1>3, <1>4, <1>5, <1>6, <1>7, <1>8, <1>9 DEF Reading

LEMMA ServerKeeps ==
  ASSUME WInv, ServerStep
  PROVE  WInv'
<1>1. CASE Receive \/ Coalesce
  BY <1>1, QuietSteps DEF Receive, Coalesce, shapes, Quietly, WInv, Formed
<1>2. CASE ApplyStep
  BY <1>2, ApplyKeeps DEF ApplyStep
<1>3. ASSUME NEW c \in Requests, Reading(c) PROVE WInv'
  BY <1>3, ReadingKeeps
<1>4. ASSUME NEW c \in Requests, Timeout(c) PROVE WInv'
  BY <1>4, OneRequest, AnsweredForm DEF Timeout, shapes
<1>5. ASSUME NEW c \in Requests, SnapshotFails(c) PROVE WInv'
  <2>1. Dismissing(req[c].handle)
    BY <1>5, AnsweredForm DEF SnapshotFails, DeleteShape, StopsWaiting, At, Dismissing, WInv, Formed
  <2> QED BY <2>1, DismissedKeeps
<1>6. ASSUME NEW h \in Handles, Delete(h) PROVE WInv'
  <2>1. Dismissing(h)
    BY <1>6, AnsweredForm DEF Delete, Deleted, DeleteShape, StopsWaiting, At, Dismissing, WInv, Formed
  <2> QED BY <2>1, DismissedKeeps
<1>7. CASE Restart
  BY <1>7, RestartKeeps
<1>8. ASSUME NEW c \in Requests, FetchReplica(c) PROVE WInv'
  BY <1>8, GetsPageKeeps DEF FetchReplica, shapes
<1> QED BY <1>1, <1>2, <1>3, <1>4, <1>5, <1>6, <1>7, <1>8 DEF ServerStep

(***************************************************************************)
(* The steps of the library and of the sync process.                       *)
(***************************************************************************)
LEMMA AskKeeps == WInv /\ Ask(Sync) => WInv'
<1> SUFFICES ASSUME WInv, Ask(Sync) PROVE WInv'
  OBVIOUS
<1> DEFINE s == stream[Sync]
           free == {r \in Requests : At(r, "idle")}
           c == CHOOSE x \in free : TRUE
           r == [Idle EXCEPT !.pc = IF s.offset = Beginning THEN "ensure" ELSE "resume",
                             !.handle = s.handle, !.from = s.offset, !.live = s.upToDate]
<1>1. c \in Requests /\ Submit(c, s.handle, s.offset, s.upToDate) /\ log' = log
  BY DEF Ask, shapes
<1>2. DOMAIN r = Fields /\ r.pc # "waiting"
  BY DEF Idle, Fields
<1>3. req' = [req EXCEPT ![c] = r]
  BY <1>1 DEF Submit
<1> HIDE DEF c, r
<1> QED BY <1>1, <1>2, <1>3, OneRequest

LEMMA NextKeeps == WInv /\ [Next]_vars => WInv'
<1> SUFFICES ASSUME WInv, [Next]_vars PROVE WInv'
  OBVIOUS
<1>1. CASE WriteStep
  BY <1>1, QuietSteps DEF WriteStep, Write, shapes, Quietly, WInv, Formed
<1>2. CASE ServerStep
  BY <1>2, ServerKeeps
<1>3. CASE Ask(Sync)
  BY <1>3, AskKeeps
<1>4. CASE Take(Sync)
  BY <1>4, QuietSteps, IdleForm DEF Take, shapes, Quietly, WInv, Formed
<1>5. ASSUME NEW r \in Requests, Abandoned(r) PROVE WInv'
  BY <1>5, OneRequest, IdleForm DEF Abandoned, shapes
<1>6. CASE SyncStep
  BY <1>6, QuietSteps
     DEF SyncStep, Clear, Commit, SaveCursor, serverVars, shapes, Quietly, WInv, Formed
<1>7. ASSUME NEW resume \in BOOLEAN, Start(resume) PROVE WInv'
  BY <1>7, QuietSteps DEF Start, serverVars, shapes, Quietly, WInv, Formed
<1>8. CASE Crash
  BY <1>8, QuietSteps, IdleForm DEF Crash, Hangup, Dropped, shapes, Quietly, WInv, Formed
<1>9. CASE Disconnect(Sync)
  BY <1>9, QuietSteps, IdleForm DEF Disconnect, Dropped, shapes, Quietly, WInv, Formed
<1>10. CASE UNCHANGED vars
  BY <1>10, QuietSteps DEF vars, serverVars, shapes, Quietly, WInv, Formed
<1> QED BY <1>1, <1>2, <1>3, <1>4, <1>5, <1>6, <1>7, <1>8, <1>9, <1>10 DEF Next

\* However requests, snapshots, changes, deletions and restarts meet, a
\* request that waits in Log.await has been given all the log held when it
\* came, and all that was appended since.
THEOREM WaitersAreWoken == Spec => []NoLostWakeup
<1>1. Init => WInv
  BY IdleForm DEF Init, ServerInit, WInv, Formed, Safe
<1>2. WInv /\ [Next]_vars => WInv'
  BY NextKeeps
<1>3. WInv => NoLostWakeup
  BY DEF WInv, Safe, NoLostWakeup, At
<1> QED BY <1>1, <1>2, <1>3, PTL DEF Spec

(***************************************************************************)
(* The operators: sets in order, parts of a log, and the replay of         *)
(* messages into a copy.                                                   *)
(***************************************************************************)
\* The places of the members of a finite set of numbers.
LEMMA RankMeans ==
    ASSUME NEW S \in SUBSET Int, IsFiniteSet(S)
    PROVE  /\ Cardinality(S) \in Nat
           /\ \A r \in S : Rank(S, r) \in 1 .. Cardinality(S)
           /\ \A r, s \in S : r < s => Rank(S, r) < Rank(S, s)
           /\ \A i \in 1 .. Cardinality(S) : \E r \in S : Rank(S, r) = i
<1> DEFINE n == Cardinality(S)
           below(r) == {q \in S : q <= r}
<1>1. n \in Nat BY FS_CardinalityType
<1>2. ASSUME NEW r \in S PROVE IsFiniteSet(below(r)) /\ Rank(S, r) \in 1 .. n
  <2>1. below(r) \in SUBSET S /\ r \in below(r) OBVIOUS
  <2>2. IsFiniteSet(below(r)) /\ Cardinality(below(r)) <= n BY <2>1, FS_Subset
  <2>3. Cardinality(below(r)) \in Nat BY <2>2, FS_CardinalityType
  <2>4. Cardinality(below(r)) # 0 BY <2>1, <2>2, FS_EmptySet
  <2> QED BY <1>1, <2>2, <2>3, <2>4 DEF Rank
<1>3. ASSUME NEW r \in S, NEW s \in S, r < s PROVE Rank(S, r) < Rank(S, s)
  <2>0. S \subseteq Int /\ r \in Int /\ s \in Int OBVIOUS
  <2>1. below(r) \in SUBSET below(s) /\ s \in below(s) /\ s \notin below(r)
    <3>1. \A q \in S : q \in Int OBVIOUS
    <3>2. \A q \in S : q <= r => q <= s BY <2>0, <3>1, <1>3
    <3>3. s <= s /\ ~(s <= r) BY <2>0, <1>3
    <3>4. below(r) \subseteq below(s) BY <3>2
    <3> QED BY <3>3, <3>4
  <2>2. IsFiniteSet(below(s)) BY <1>2
  <2>3. Cardinality(below(r)) <= Cardinality(below(s)) /\ Cardinality(below(r)) # Cardinality(below(s))
    BY <2>1, <2>2, FS_Subset
  <2>4. Cardinality(below(r)) \in Nat /\ Cardinality(below(s)) \in Nat BY <1>2, FS_CardinalityType
  <2> QED BY <2>3, <2>4 DEF Rank
<1>4. ASSUME NEW i \in 1 .. n PROVE \E r \in S : Rank(S, r) = i
  <2> DEFINE rank == [r \in S |-> Rank(S, r)]
  <2>1. rank \in Injection(S, 1 .. n)
    <3>1. rank \in [S -> 1 .. n] BY <1>2
    <3>2. \A r, s \in S : r # s => rank[r] # rank[s]
      <4>1. \A r \in S : Rank(S, r) \in Int /\ rank[r] = Rank(S, r)
        <5>1. \A r \in S : Rank(S, r) \in 1 .. n BY <1>2
        <5> HIDE DEF n
        <5> QED BY <1>1, <5>1
      <4>2. \A r \in S : r \in Int OBVIOUS
      <4>3. \A r, s \in S : r # s => r < s \/ s < r BY <4>2
      <4>4. \A r, s \in S : r < s => rank[r] < rank[s] BY <1>3, <4>1
      <4>5. \A r \in S : rank[r] \in Int BY <4>1
      <4> HIDE DEF rank
      <4> QED BY <4>3, <4>4, <4>5
    <3> QED BY <3>1, <3>2 DEF Injection, IsInjective
  <2>2. IsFiniteSet(1 .. n) /\ Cardinality(1 .. n) = n BY <1>1, FS_Interval
  <2>3. rank \in Surjection(S, 1 .. n) BY <2>1, <2>2, FS_Injection
  <2>4. \E r \in S : rank[r] = i BY <2>3 DEF Surjection
  <2> QED BY <2>4
<1> QED BY <1>1, <1>2, <1>3, <1>4

\* InOrder lists a finite set of numbers, smallest first.
LEMMA InOrderMeans ==
    ASSUME NEW S \in SUBSET Int, IsFiniteSet(S)
    PROVE  /\ Cardinality(S) \in Nat /\ DOMAIN InOrder(S) = 1 .. Cardinality(S)
           /\ \A i \in 1 .. Cardinality(S) : InOrder(S)[i] \in S /\ Rank(S, InOrder(S)[i]) = i
           /\ \A i, j \in 1 .. Cardinality(S) : i < j => InOrder(S)[i] < InOrder(S)[j]
           /\ \A r \in S : \E i \in 1 .. Cardinality(S) : InOrder(S)[i] = r
<1> DEFINE n == Cardinality(S)
<1>1. n \in Nat /\ DOMAIN InOrder(S) = 1 .. n BY RankMeans DEF InOrder
<1>2. ASSUME NEW i \in 1 .. n PROVE InOrder(S)[i] \in S /\ Rank(S, InOrder(S)[i]) = i
  <2>1. InOrder(S)[i] = CHOOSE r \in S : Rank(S, r) = i BY <1>1 DEF InOrder, Rank
  <2>2. \E r \in S : Rank(S, r) = i BY RankMeans
  <2> QED BY <2>1, <2>2
<1>3. ASSUME NEW i \in 1 .. n, NEW j \in 1 .. n, i < j PROVE InOrder(S)[i] < InOrder(S)[j]
  <2> DEFINE r == InOrder(S)[i]
             s == InOrder(S)[j]
  <2>1. r \in S /\ s \in S /\ Rank(S, r) = i /\ Rank(S, s) = j BY <1>2
  <2>2. r \in Int /\ s \in Int BY <2>1
  <2> HIDE DEF r, s
  <2>3. ~(s < r) /\ s # r BY <1>3, <2>1, RankMeans
  <2> QED BY <2>2, <2>3 DEF r, s
<1>4. ASSUME NEW r \in S PROVE \E i \in 1 .. n : InOrder(S)[i] = r
  <2> DEFINE i == Rank(S, r)
             s == InOrder(S)[i]
  <2>1. i \in 1 .. n BY RankMeans
  <2>2. s \in S /\ Rank(S, s) = i BY <1>2, <2>1
  <2>3. s \in Int /\ r \in Int BY <2>2
  <2> HIDE DEF s
  <2>4. ~(s < r) /\ ~(r < s)
    <3>1. i \in Int BY <2>1
    <3> HIDE DEF i
    <3>2. s < r => Rank(S, s) < i BY <2>2, RankMeans DEF i
    <3>3. r < s => i < Rank(S, s) BY <2>2, RankMeans DEF i
    <3> QED BY <2>2, <3>1, <3>2, <3>3
  <2>5. s = r BY <2>3, <2>4
  <2> QED BY <2>1, <2>5 DEF s
<1> QED BY <1>1, <1>2, <1>3, <1>4

\* A finite set of numbers has a greatest one.
LEMMA Greatest ==
    ASSUME NEW S \in SUBSET Int, IsFiniteSet(S), S # {}
    PROVE  /\ \E m \in S : \A x \in S : x <= m
           /\ Max(S) \in S /\ \A x \in S : x <= Max(S)
<1>1. Cardinality(S) \in Nat /\ Cardinality(S) # 0 BY FS_CardinalityType, FS_EmptySet
<1>2. PICK m \in S : Rank(S, m) = Cardinality(S)
  <2>1. Cardinality(S) \in 1 .. Cardinality(S) BY <1>1
  <2> QED BY <2>1, RankMeans
<1>3. ASSUME NEW x \in S PROVE x <= m
  <2>1. m \in Int /\ x \in Int OBVIOUS
  <2>2. Rank(S, x) \in 1 .. Cardinality(S) BY RankMeans
  <2>3. m < x => Rank(S, m) < Rank(S, x) BY RankMeans
  <2> HIDE DEF Rank
  <2> QED BY <1>1, <1>2, <2>1, <2>2, <2>3
<1>4. \A x \in S : m >= x BY <1>3
<1>5. Max(S) \in S /\ \A x \in S : Max(S) >= x BY <1>4 DEF Max
<1>6. \A x \in S : x <= Max(S)
  <2> DEFINE g == Max(S)
  <2>1. g \in Int /\ \A x \in S : x \in Int /\ g >= x BY <1>5
  <2> HIDE DEF g
  <2>2. \A x \in S : x <= g BY <2>1
  <2> QED BY <2>2 DEF g
<1> QED BY <1>3, <1>5, <1>6

\* Picked takes the messages at its places, in their order.
LEMMA PickedMeans ==
    ASSUME NEW T, NEW ms \in Seq(T), NEW P \in SUBSET DOMAIN ms
    PROVE  /\ Picked(ms, P) \in Seq(T)
           /\ Cardinality(P) \in Nat /\ Len(Picked(ms, P)) = Cardinality(P)
           /\ DOMAIN Picked(ms, P) = 1 .. Cardinality(P)
           /\ \A k \in DOMAIN Picked(ms, P) : InOrder(P)[k] \in P /\ Picked(ms, P)[k] = ms[InOrder(P)[k]]
           /\ \A k, l \in DOMAIN Picked(ms, P) : k < l => InOrder(P)[k] < InOrder(P)[l]
           /\ \A i \in P : \E k \in DOMAIN Picked(ms, P) : InOrder(P)[k] = i
<1> DEFINE n == Cardinality(P)
<1>1. DOMAIN ms = 1 .. Len(ms) /\ Len(ms) \in Nat BY LenProperties
<1>2. P \in SUBSET Int /\ IsFiniteSet(P)
  <2>1. IsFiniteSet(1 .. Len(ms)) BY <1>1, FS_Interval
  <2>2. IsFiniteSet(P) BY <1>1, <2>1, FS_Subset
  <2> QED BY <1>1, <2>2
<1>3. /\ n \in Nat /\ DOMAIN InOrder(P) = 1 .. n
      /\ \A i \in 1 .. n : InOrder(P)[i] \in P
      /\ \A i, j \in 1 .. n : i < j => InOrder(P)[i] < InOrder(P)[j]
      /\ \A r \in P : \E i \in 1 .. n : InOrder(P)[i] = r
  BY <1>2, InOrderMeans
<1>4. Picked(ms, P) = [i \in 1 .. n |-> ms[InOrder(P)[i]]] BY <1>3 DEF Picked
<1>5. \A i \in 1 .. n : ms[InOrder(P)[i]] \in T BY <1>1, <1>3, ElementOfSeq
<1>6. Picked(ms, P) \in Seq(T)
  <2> HIDE DEF n
  <2>1. Picked(ms, P) \in [1 .. n -> T] BY <1>4, <1>5
  <2> QED BY <1>3, <2>1
<1>7. DOMAIN Picked(ms, P) = 1 .. n BY <1>4
<1>8. Len(Picked(ms, P)) = n
  <2>1. Len(Picked(ms, P)) \in Nat /\ DOMAIN Picked(ms, P) = 1 .. Len(Picked(ms, P)) BY <1>6, LenProperties
  <2> HIDE DEF n
  <2> QED BY <1>3, <1>7, <2>1
<1> QED BY <1>3, <1>4, <1>6, <1>7, <1>8

\* Replay leaves a row alone that no message is about.
LEMMA ReplayNone ==
    ASSUME NEW ms, NEW R, NEW r \in Rows, \A i \in DOMAIN ms : ms[i].row # r
    PROVE  Replay(R, ms)[r] = R[r]
BY DEF Replay

\* What Replay makes of a row is the last message about it.
LEMMA ReplayLast ==
    ASSUME NEW T, NEW ms \in Seq(T), NEW R, NEW r \in Rows, NEW i \in DOMAIN ms, ms[i].row = r,
           \A j \in DOMAIN ms : ms[j].row = r => j <= i
    PROVE  Replay(R, ms)[r] = Eff(ms[i])
<1> DEFINE about == {k \in DOMAIN ms : ms[k].row = r}
           last == CHOOSE k \in about : \A j \in about : j <= k
<1>1. DOMAIN ms = 1 .. Len(ms) /\ Len(ms) \in Nat BY LenProperties
<1>2. i \in about /\ \A j \in about : j <= i OBVIOUS
<1>3. last \in about /\ \A j \in about : j <= last
  <2> HIDE DEF about
  <2> QED BY <1>2
<1>4. last = i
  <2>1. last \in Int /\ i \in Int /\ last <= i /\ i <= last
    <3>1. \A k \in about : k \in Int BY <1>1
    <3> HIDE DEF about, last
    <3> QED BY <1>2, <1>3, <3>1
  <2> HIDE DEF last
  <2> QED BY <2>1
<1>5. Replay(R, ms)[r] = LET m == ms[last] IN IF m.op = "delete" THEN None ELSE m.value
  <2>1. about # {} BY <1>2
  <2> QED BY <2>1 DEF Replay
<1> QED BY <1>4, <1>5 DEF Eff

\* The last message about a row, if there is one.
LEMMA LastAbout ==
    ASSUME NEW T, NEW ms \in Seq(T), NEW P \in SUBSET DOMAIN ms, NEW r, \E i \in P : ms[i].row = r
    PROVE  \E i \in P : ms[i].row = r /\ \A j \in P : ms[j].row = r => j <= i
<1> DEFINE about == {k \in P : ms[k].row = r}
<1>1. DOMAIN ms = 1 .. Len(ms) /\ Len(ms) \in Nat BY LenProperties
<1>2. IsFiniteSet(about) /\ about \in SUBSET Int /\ about # {}
  <2>1. IsFiniteSet(1 .. Len(ms)) BY <1>1, FS_Interval
  <2>2. about \in SUBSET (1 .. Len(ms)) BY <1>1
  <2>3. IsFiniteSet(about) BY <2>1, <2>2, FS_Subset
  <2> QED BY <2>2, <2>3
<1>3. PICK i \in about : \A x \in about : x <= i
  <2> HIDE DEF about
  <2> QED BY <1>2, Greatest
<1> QED BY <1>3

\* The same for a part of a log.
LEMMA ReplayPicked ==
    ASSUME NEW T, NEW ms \in Seq(T), NEW P \in SUBSET DOMAIN ms, NEW R, NEW r \in Rows
    PROVE  /\ (\A i \in P : ms[i].row # r) => Replay(R, Picked(ms, P))[r] = R[r]
           /\ (\E i \in P : ms[i].row = r) =>
                 \E i \in P : /\ ms[i].row = r /\ \A j \in P : ms[j].row = r => j <= i
                             /\ Replay(R, Picked(ms, P))[r] = Eff(ms[i])
<1> DEFINE p == Picked(ms, P)
           at == InOrder(P)
<1>0. /\ p \in Seq(T) /\ \A k \in DOMAIN p : at[k] \in P /\ p[k] = ms[at[k]]
      /\ \A k, l \in DOMAIN p : k < l => at[k] < at[l]
      /\ \A i \in P : \E k \in DOMAIN p : at[k] = i
  BY PickedMeans
<1> HIDE DEF p, at
<1>1. ASSUME \A i \in P : ms[i].row # r PROVE Replay(R, p)[r] = R[r]
  BY <1>0, <1>1, ReplayNone
<1>2. ASSUME \E i \in P : ms[i].row = r
      PROVE  \E i \in P : /\ ms[i].row = r /\ \A j \in P : ms[j].row = r => j <= i
                          /\ Replay(R, p)[r] = Eff(ms[i])
  <2>0. \E i \in P : ms[i].row = r /\ \A j \in P : ms[j].row = r => j <= i BY <1>2, LastAbout, ZenonT(30)
  <2>1. PICK i \in P : ms[i].row = r /\ \A j \in P : ms[j].row = r => j <= i BY <2>0
  <2>2. PICK k \in DOMAIN p : at[k] = i BY <1>0
  <2>3. DOMAIN p \subseteq Int /\ P \subseteq Int
    <3>1. DOMAIN p = 1 .. Len(p) /\ Len(p) \in Nat BY <1>0, LenProperties
    <3>2. DOMAIN ms = 1 .. Len(ms) /\ Len(ms) \in Nat BY LenProperties
    <3> QED BY <3>1, <3>2
  <2>4. ASSUME NEW l \in DOMAIN p, p[l].row = r PROVE l <= k
    <3>1. at[l] \in P /\ ms[at[l]].row = r BY <1>0, <2>4
    <3>2. at[l] <= i BY <2>1, <3>1
    <3>3. at[l] \in Int /\ i \in Int /\ l \in Int /\ k \in Int BY <2>3, <3>1
    <3>4. k < l => at[k] < at[l] BY <1>0
    <3> QED BY <2>2, <3>2, <3>3, <3>4
  <2>5. p[k] = ms[i] BY <1>0, <2>2
  <2>6. Replay(R, p)[r] = Eff(p[k]) BY <1>0, <2>1, <2>4, <2>5, ReplayLast
  <2> QED BY <2>1, <2>5, <2>6
<1> QED BY <1>1, <1>2 DEF p

(***************************************************************************)
(* What an append makes of a log.                                          *)
(***************************************************************************)
\* What may be appended to a log.
NewOk(new) ==
    /\ new \in Seq(Message) /\ new # <<>>
    /\ \A i \in DOMAIN new : 0 <= new[i].offset /\ new[i].offset # SnapshotEnd

\* A log with what is appended, and how many of its messages are dropped then.
All(l, new) == l.messages \o new

Excess(l, new) ==
    IF Retention > 0 /\ Len(All(l, new)) > Retention THEN Len(All(l, new)) - Retention ELSE 0

LEMMA SnapshotEndNat == SnapshotEnd \in Nat
BY ShapeAssumption, FS_CardinalityType DEF SnapshotEnd

\* Old and new messages of an append.
LEMMA AllMeans ==
    ASSUME NEW l, LogOk(l), NEW new, NewOk(new)
    PROVE  /\ All(l, new) \in Seq(Message) /\ DOMAIN All(l, new) = 1 .. Len(All(l, new))
           /\ Len(l.messages) \in Nat /\ Len(new) \in Nat \ {0}
           /\ DOMAIN l.messages = 1 .. Len(l.messages) /\ DOMAIN new = 1 .. Len(new)
           /\ Len(All(l, new)) = Len(l.messages) + Len(new)
           /\ \A i \in DOMAIN l.messages : i \in DOMAIN All(l, new) /\ All(l, new)[i] = l.messages[i]
           /\ \A i \in DOMAIN new : Len(l.messages) + i \in DOMAIN All(l, new)
                                    /\ All(l, new)[Len(l.messages) + i] = new[i]
           /\ \A i \in DOMAIN All(l, new) :
                 \/ i \in DOMAIN l.messages
                 \/ i - Len(l.messages) \in DOMAIN new /\ All(l, new)[i] = new[i - Len(l.messages)]
<1> DEFINE m == l.messages
<1>1. m \in Seq(Message) /\ new \in Seq(Message) BY DEF LogOk, Log, NewOk
<1> HIDE DEF m
<1>2. Len(m) \in Nat /\ Len(new) \in Nat /\ DOMAIN m = 1 .. Len(m) /\ DOMAIN new = 1 .. Len(new)
  BY <1>1, LenProperties
<1>3. Len(new) # 0
  <2>1. new # <<>> BY DEF NewOk
  <2> QED BY <1>1, <2>1, EmptySeq
<1>4. /\ m \o new \in Seq(Message) /\ Len(m \o new) = Len(m) + Len(new)
      /\ \A i \in 1 .. Len(m) + Len(new) : (m \o new)[i] = IF i <= Len(m) THEN m[i] ELSE new[i - Len(m)]
  BY <1>1, ConcatProperties
<1>5. DOMAIN (m \o new) = 1 .. Len(m \o new) BY <1>4, LenProperties
<1>6. \A i \in 1 .. Len(m) : i \in 1 .. Len(m) + Len(new) /\ (m \o new)[i] = m[i] BY <1>2, <1>4
<1>7. \A i \in 1 .. Len(new) : Len(m) + i \in 1 .. Len(m) + Len(new) /\ (m \o new)[Len(m) + i] = new[i]
  <2> TAKE i \in 1 .. Len(new)
  <2>1. Len(m) + i \in 1 .. Len(m) + Len(new) /\ ~(Len(m) + i <= Len(m)) /\ Len(m) + i - Len(m) = i BY <1>2
  <2> QED BY <1>4, <2>1
<1>8. \A i \in 1 .. Len(m) + Len(new) :
         \/ i \in 1 .. Len(m)
         \/ i - Len(m) \in 1 .. Len(new) /\ (m \o new)[i] = new[i - Len(m)]
  BY <1>2, <1>4
<1> QED BY <1>2, <1>3, <1>4, <1>5, <1>6, <1>7, <1>8 DEF All, m

\* What an append drops is not all it has.
LEMMA ExcessMeans ==
    ASSUME NEW l, LogOk(l), NEW new, NewOk(new)
    PROVE  /\ Excess(l, new) \in Nat /\ Excess(l, new) < Len(All(l, new))
           /\ LET a == Appended(l, new) IN
                 /\ a.messages \in Seq(Message) /\ DOMAIN a.messages = 1 .. Len(a.messages)
                 /\ Len(a.messages) = Len(All(l, new)) - Excess(l, new) /\ a.messages # <<>>
                 /\ Retention > 0 => Len(a.messages) <= Retention
                 /\ \A i \in DOMAIN a.messages :
                       i + Excess(l, new) \in DOMAIN All(l, new) /\ a.messages[i] = All(l, new)[i + Excess(l, new)]
                 /\ \A i \in DOMAIN All(l, new) : Excess(l, new) < i => i - Excess(l, new) \in DOMAIN a.messages
           /\ Len(new) = 1 => Excess(l, new) \in {0, 1}
<1> DEFINE all == All(l, new)
           d == Excess(l, new)
           am == SubSeq(all, d + 1, Len(all))
<1>1. /\ all \in Seq(Message) /\ Len(all) \in Nat \ {0} /\ DOMAIN all = 1 .. Len(all)
      /\ Len(all) = Len(l.messages) + Len(new) /\ Len(l.messages) \in Nat
  BY AllMeans
<1>2. d \in Nat /\ d < Len(all) /\ (Retention > 0 => Len(all) - d <= Retention)
  <2> HIDE DEF all
  <2> QED BY <1>1, ShapeAssumption DEF Excess, all
<1>3. Len(new) = 1 => d \in {0, 1}
  <2>1. Retention > 0 => Len(l.messages) <= Retention BY DEF LogOk
  <2> HIDE DEF all
  <2> QED BY <1>1, <2>1, ShapeAssumption DEF Excess, all
<1>4. Appended(l, new).messages = am BY DEF Appended, Excess, All
<1> HIDE DEF all, d
<1>5. /\ am \in Seq(Message) /\ Len(am) = Len(all) - d
      /\ \A i \in 1 .. Len(all) - d : am[i] = all[i + d]
  <2>1. \A i \in d + 1 .. Len(all) : all[i] \in Message
    <3>1. \A i \in 1 .. Len(all) : all[i] \in Message BY <1>1, ElementOfSeq
    <3> QED BY <1>1, <1>2, <3>1
  <2>2. d + 1 \in Int /\ Len(all) \in Int BY <1>1, <1>2
  <2>3. /\ am \in Seq(Message) /\ Len(am) = IF d + 1 <= Len(all) THEN Len(all) - (d + 1) + 1 ELSE 0
        /\ \A i \in 1 .. Len(all) - (d + 1) + 1 : am[i] = all[d + 1 + i - 1]
    BY <2>1, <2>2, SubSeqProperties
  <2>4. Len(all) - (d + 1) + 1 = Len(all) - d /\ d + 1 <= Len(all) BY <1>1, <1>2
  <2>5. \A i \in 1 .. Len(all) - d : d + 1 + i - 1 = i + d BY <1>1, <1>2
  <2> HIDE DEF am
  <2> QED BY <2>3, <2>4, <2>5
<1> HIDE DEF am
<1>6. DOMAIN am = 1 .. Len(am) BY <1>5, LenProperties
<1>7. am # <<>>
  <2>1. Len(am) # 0 BY <1>1, <1>2, <1>5
  <2> QED BY <2>1, EmptySeq
<1>8. \A i \in DOMAIN am : i + d \in DOMAIN all /\ am[i] = all[i + d] BY <1>1, <1>2, <1>5, <1>6
<1>9. \A i \in DOMAIN all : d < i => i - d \in DOMAIN am BY <1>1, <1>2, <1>5, <1>6
<1> QED BY <1>2, <1>3, <1>4, <1>5, <1>6, <1>7, <1>8, <1>9 DEF all, d

\* The ends of a log after an append.
LEMMA LastMeans ==
    ASSUME NEW l, LogOk(l), NEW new, NewOk(new)
    PROVE  LET a == Appended(l, new) IN
           /\ a.last \in Int /\ l.last <= a.last /\ \A i \in DOMAIN new : new[i].offset <= a.last
           /\ a.last = l.last \/ \E i \in DOMAIN new : a.last = new[i].offset
           /\ a.cut = IF Excess(l, new) = 0 THEN l.cut ELSE Later(l.cut, All(l, new)[Excess(l, new)].offset)
<1> DEFINE a == Appended(l, new)
           ends == {l.last} \cup {new[i].offset : i \in DOMAIN new}
<1>1. Len(new) \in Nat \ {0} /\ DOMAIN new = 1 .. Len(new) BY AllMeans
<1>2. \A i \in DOMAIN new : new[i] \in Message /\ new[i].offset \in Int
  <2>1. new \in Seq(Message) BY DEF NewOk
  <2>2. \A i \in DOMAIN new : new[i] \in Message BY <1>1, <2>1, ElementOfSeq
  <2> QED BY <2>2 DEF Message
<1>3. l.last \in Int BY DEF LogOk, Log
<1>4. /\ a.last = Max(ends)
      /\ a.cut = IF Excess(l, new) = 0 THEN l.cut ELSE Later(l.cut, All(l, new)[Excess(l, new)].offset)
  BY DEF Appended, Excess, All
<1>5. Max(ends) \in ends /\ \A x \in ends : x <= Max(ends)
  <2>1. IsFiniteSet(DOMAIN new) BY <1>1, FS_Interval
  <2>2. IsFiniteSet({new[i].offset : i \in DOMAIN new})
    <3> DEFINE f == [i \in DOMAIN new |-> new[i].offset]
               image == {new[i].offset : i \in DOMAIN new}
    <3>1. f \in Surjection(DOMAIN new, image) BY DEF Surjection
    <3> HIDE DEF f, image
    <3> QED BY <2>1, <3>1, FS_Surjection DEF image
  <2>3. IsFiniteSet({l.last}) BY FS_Singleton
  <2>4. IsFiniteSet(ends) BY <2>2, <2>3, FS_Union
  <2>5. ends \in SUBSET Int /\ ends # {} BY <1>2, <1>3
  <2> HIDE DEF ends
  <2> QED BY <2>4, <2>5, Greatest
<1>6. a.last \in Int /\ l.last <= a.last /\ \A i \in DOMAIN new : new[i].offset <= a.last
  <2>1. a.last = Max(ends) BY <1>4
  <2>2. Max(ends) \in Int BY <1>2, <1>3, <1>5
  <2>3. l.last \in ends /\ \A i \in DOMAIN new : new[i].offset \in ends OBVIOUS
  <2> HIDE DEF ends, a
  <2> QED BY <1>5, <2>1, <2>2, <2>3
<1>7. a.last = l.last \/ \E i \in DOMAIN new : a.last = new[i].offset
  <2>1. \A x \in ends : x = l.last \/ \E i \in DOMAIN new : x = new[i].offset OBVIOUS
  <2>2. a.last \in ends BY <1>4, <1>5
  <2> HIDE DEF ends, a
  <2> QED BY <2>1, <2>2
<1> QED BY <1>4, <1>6, <1>7

\* What is appended to a log leaves it a log.
LEMMA AppendedMeans ==
    ASSUME NEW l, LogOk(l), NEW new, NewOk(new)
    PROVE  LET a == Appended(l, new) IN
           /\ LogOk(a)
           /\ l.last <= a.last /\ \A i \in DOMAIN new : new[i].offset <= a.last
           /\ l.cut <= a.cut
           /\ Excess(l, new) = 0 => a.cut = l.cut
           /\ Excess(l, new) > 0 => 0 <= a.cut /\ All(l, new)[Excess(l, new)].offset <= a.cut
<1> DEFINE a == Appended(l, new)
           all == All(l, new)
           d == Excess(l, new)
           ends == {l.last} \cup {new[i].offset : i \in DOMAIN new}
<1>1. /\ all \in Seq(Message) /\ DOMAIN all = 1 .. Len(all) /\ Len(new) \in Nat \ {0}
      /\ DOMAIN new = 1 .. Len(new)
  BY AllMeans
<1>2. \A i \in DOMAIN new : new[i] \in Message /\ new[i].offset \in Int
  <2>1. new \in Seq(Message) BY DEF NewOk
  <2>2. \A i \in DOMAIN new : new[i] \in Message BY <1>1, <2>1, ElementOfSeq
  <2> QED BY <2>2 DEF Message
<1>3. l.last \in Int /\ l.cut \in Int BY DEF LogOk, Log
<1>4. a = [messages |-> a.messages, last |-> Max(ends), cut |-> IF d = 0 THEN l.cut ELSE Later(l.cut, all[d].offset)]
  BY DEF Appended, Excess, All
<1>6. a.last \in Int /\ l.last <= a.last /\ \A i \in DOMAIN new : new[i].offset <= a.last BY LastMeans
<1>7. 0 <= a.last
  <2>1. 1 \in DOMAIN new BY <1>1
  <2>2. 0 <= new[1].offset /\ new[1].offset <= a.last /\ new[1].offset \in Int BY <1>2, <1>6, <2>1 DEF NewOk
  <2> HIDE DEF a
  <2> QED BY <1>6, <2>2
<1>8. \A i \in DOMAIN all : /\ all[i].offset \in Int /\ 0 <= all[i].offset /\ all[i].offset <= a.last
                            /\ all[i].offset # SnapshotEnd
  <2> TAKE i \in DOMAIN all
  <2>1. CASE i \in DOMAIN l.messages
    <3>1. all[i] = l.messages[i] BY <2>1, AllMeans
    <3>2. l.messages[i] \in Message
      <4>1. l.messages \in Seq(Message) BY DEF LogOk, Log
      <4> QED BY <2>1, <4>1, ElementOfSeq, LenProperties
    <3>3. all[i].offset \in Int BY <3>1, <3>2 DEF Message
    <3>4. 0 <= all[i].offset /\ all[i].offset <= l.last /\ all[i].offset # SnapshotEnd BY <2>1, <3>1 DEF LogOk
    <3> HIDE DEF all, a
    <3> QED BY <1>3, <1>6, <3>3, <3>4
  <2>2. CASE i \notin DOMAIN l.messages
    <3>1. i - Len(l.messages) \in DOMAIN new /\ all[i] = new[i - Len(l.messages)] BY <2>2, AllMeans
    <3> HIDE DEF all, a
    <3> QED BY <1>2, <1>6, <3>1 DEF NewOk
  <2> QED BY <2>1, <2>2
<1>9. /\ a.cut \in Int /\ l.cut <= a.cut /\ Beginning <= a.cut /\ a.cut <= a.last
      /\ d = 0 => a.cut = l.cut
      /\ d > 0 => 0 <= a.cut /\ all[d].offset <= a.cut
  <2>1. Beginning <= l.cut /\ l.cut <= l.last BY DEF LogOk
  <2>2. a.cut = IF d = 0 THEN l.cut ELSE Later(l.cut, all[d].offset) BY <1>4
  <2>3. d \in Nat BY ExcessMeans
  <2>4. CASE d = 0
    <3> HIDE DEF a, d, all
    <3> QED BY <1>3, <1>6, <2>1, <2>2, <2>4 DEF Beginning
  <2>5. CASE d # 0
    <3>1. d \in DOMAIN all
      <4>1. d < Len(all) BY ExcessMeans
      <4> HIDE DEF d, all
      <4> QED BY <1>1, <2>3, <2>5, <4>1
    <3> HIDE DEF a, d, all
    <3> QED BY <1>3, <1>6, <1>8, <2>1, <2>2, <2>5, <3>1 DEF Later, Beginning
  <2> QED BY <2>4, <2>5
<1>10. /\ a.messages \in Seq(Message) /\ a.messages # <<>> /\ (Retention > 0 => Len(a.messages) <= Retention)
       /\ \A i \in DOMAIN a.messages : i + d \in DOMAIN all /\ a.messages[i] = all[i + d]
  BY ExcessMeans
<1>11. \A i \in DOMAIN a.messages : 0 <= a.messages[i].offset /\ a.messages[i].offset <= a.last
                                  /\ a.messages[i].offset # SnapshotEnd
  <2> HIDE DEF a, d, all
  <2> QED BY <1>8, <1>10
<1>12. a \in Log
  <2>1. a = [messages |-> a.messages, last |-> a.last, cut |-> a.cut] BY <1>4
  <2> HIDE DEF a
  <2> QED BY <1>6, <1>9, <1>10, <2>1 DEF Log
<1>13. LogOk(a)
  <2> HIDE DEF a
  <2> QED BY <1>7, <1>9, <1>10, <1>11, <1>12 DEF LogOk
<1> QED BY <1>6, <1>9, <1>13

(***************************************************************************)
(* Pages, changes and the messages made of them.                           *)
(***************************************************************************)
\* A page of the snapshot: its rows, how many they are, and which rows are left for later.
LEMMA PageMeans ==
    ASSUME NEW t, NEW from \in Nat
    PROVE  /\ DOMAIN Page(t, from) \subseteq Present(t)
           /\ \A r \in DOMAIN Page(t, from) : Page(t, from)[r] = t[r]
           /\ \A r \in Present(t) : Place(t, r) \in Nat \ {0}
           /\ \A r \in Present(t) : Place(t, r) <= from + PageSize => Place(t, r) <= from \/ r \in DOMAIN Page(t, from)
           /\ IsFiniteSet(DOMAIN Page(t, from)) /\ Cardinality(DOMAIN Page(t, from)) \in Nat
           /\ Cardinality(DOMAIN Page(t, from)) <= PageSize
           /\ DOMAIN Page(t, from) # {} => from + Cardinality(DOMAIN Page(t, from)) <= SnapshotEnd
           /\ Cardinality(DOMAIN Page(t, from)) < PageSize =>
                 \A r \in Present(t) : Place(t, r) <= from \/ r \in DOMAIN Page(t, from)
<1> DEFINE S == Present(t)
           n == Cardinality(S)
           to == from + PageSize
           rows == {x \in S : from < Rank(S, x) /\ Rank(S, x) <= to}
           m == IF n <= to THEN n ELSE to
           place == [x \in rows |-> Rank(S, x)]
<1>1. S \in SUBSET Int /\ IsFiniteSet(S) /\ n <= SnapshotEnd
  <2>1. S \in SUBSET Rows BY DEF Present
  <2> QED BY <2>1, ShapeAssumption, FS_Subset DEF SnapshotEnd
<1>2. DOMAIN Page(t, from) = rows /\ \A r \in rows : Page(t, from)[r] = t[r]
  BY DEF Page, Place, Present, Rank
<1>3. /\ n \in Nat /\ \A r \in S : Rank(S, r) \in 1 .. n
      /\ \A r, s \in S : r < s => Rank(S, r) < Rank(S, s)
      /\ \A i \in 1 .. n : \E r \in S : Rank(S, r) = i
  BY <1>1, RankMeans
<1>4. PageSize \in Nat \ {0} BY ShapeAssumption
<1> HIDE DEF S
<1>5. rows \in SUBSET S OBVIOUS
<1>6. IsFiniteSet(rows) /\ Cardinality(rows) \in Nat BY <1>1, <1>5, FS_Subset, FS_CardinalityType
<1>7. \A r \in S : Rank(S, r) \in Nat \ {0} /\ Rank(S, r) <= n
  <2> HIDE DEF n
  <2> QED BY <1>3
<1>8. m \in Nat /\ m <= n /\ m <= to /\ to \in Nat
  <2> HIDE DEF n
  <2> QED BY <1>3, <1>4
<1>9. place \in Injection(rows, from + 1 .. m)
  <2>1. place \in [rows -> from + 1 .. m]
    <3> SUFFICES ASSUME NEW x \in rows PROVE Rank(S, x) \in from + 1 .. m
      OBVIOUS
    <3>1. x \in S /\ from < Rank(S, x) /\ Rank(S, x) <= to OBVIOUS
    <3>2. Rank(S, x) \in Nat /\ Rank(S, x) <= n BY <1>7, <3>1
    <3> HIDE DEF n, rows
    <3> QED BY <1>3, <1>4, <3>1, <3>2
  <2>2. \A r, s \in rows : r # s => place[r] # place[s]
    <3>1. \A r, s \in S : r # s => r < s \/ s < r
      <4>1. \A r \in S : r \in Int BY <1>1
      <4> QED BY <4>1
    <3>2. \A r, s \in S : r # s => Rank(S, r) # Rank(S, s)
      <4> TAKE r, s \in S
      <4>1. Rank(S, r) \in Nat /\ Rank(S, s) \in Nat BY <1>7
      <4> QED BY <1>3, <3>1, <4>1
    <3>3. \A r \in rows : place[r] = Rank(S, r) OBVIOUS
    <3> HIDE DEF place
    <3> QED BY <1>5, <3>2, <3>3
  <2> HIDE DEF place
  <2> QED BY <2>1, <2>2 DEF Injection, IsInjective
<1>10. Cardinality(rows) <= (IF from + 1 > m THEN 0 ELSE m - (from + 1) + 1)
  <2> HIDE DEF rows, m, place
  <2>1. from + 1 \in Int /\ m \in Int BY <1>8
  <2>2. IsFiniteSet(from + 1 .. m) /\ Cardinality(from + 1 .. m) = IF from + 1 > m THEN 0 ELSE m - (from + 1) + 1
    BY <2>1, FS_Interval
  <2>3. Cardinality(rows) <= Cardinality(from + 1 .. m) BY <1>9, <2>2, FS_Injection
  <2> QED BY <2>2, <2>3
<1>11. Cardinality(rows) <= PageSize /\ (rows # {} => from + Cardinality(rows) <= SnapshotEnd)
  <2>1. rows # {} => Cardinality(rows) # 0 BY <1>6, FS_EmptySet
  <2> HIDE DEF rows, n
  <2> QED BY <1>1, <1>3, <1>4, <1>6, <1>8, <1>10, <2>1, SnapshotEndNat
<1>12. ASSUME Cardinality(rows) < PageSize, NEW r \in S, ~(Rank(S, r) <= from), r \notin rows PROVE FALSE
  <2>1. to < Rank(S, r) /\ Rank(S, r) <= n /\ Rank(S, r) \in Nat
    <3>1. Rank(S, r) \in Nat /\ Rank(S, r) <= n BY <1>7
    <3>2. ~(from < Rank(S, r) /\ Rank(S, r) <= to) BY <1>12
    <3> HIDE DEF rows, n
    <3> QED BY <1>8, <1>12, <3>1, <3>2
  <2>2. place \in Surjection(rows, from + 1 .. to)
    <3>1. m = to /\ to \in Nat
      <4> HIDE DEF n, rows
      <4> QED BY <1>3, <1>8, <2>1
    <3>2. place \in [rows -> from + 1 .. to] BY <1>9, <3>1 DEF Injection
    <3>3. ASSUME NEW i \in from + 1 .. to PROVE \E x \in rows : place[x] = i
      <4>1. i \in 1 .. n
        <5> HIDE DEF n, rows
        <5> QED BY <1>3, <2>1, <3>1
      <4>2. PICK x \in S : Rank(S, x) = i BY <1>3, <4>1
      <4>3. from < i /\ i <= to BY <3>1
      <4> QED BY <4>2, <4>3
    <3> HIDE DEF place, rows
    <3> QED BY <3>2, <3>3 DEF Surjection
  <2>3. Cardinality(from + 1 .. to) = PageSize
    <3>1. from + 1 \in Int /\ to \in Int BY <1>8
    <3>2. Cardinality(from + 1 .. to) = IF from + 1 > to THEN 0 ELSE to - (from + 1) + 1 BY <3>1, FS_Interval
    <3> QED BY <1>4, <3>2
  <2>4. PageSize <= Cardinality(rows)
    <3> HIDE DEF rows, place
    <3> QED BY <1>6, <2>2, <2>3, FS_Surjection
  <2> HIDE DEF rows
  <2> QED BY <1>4, <1>6, <1>12, <2>4
<1>13. \A r \in S : Rank(S, r) <= to => Rank(S, r) <= from \/ r \in rows
  <2> TAKE r \in S
  <2>1. Rank(S, r) \in Nat BY <1>7
  <2>2. ~(Rank(S, r) <= from) => from < Rank(S, r) BY <2>1
  <2> QED BY <2>2
<1> HIDE DEF rows
<1> QED BY <1>2, <1>5, <1>6, <1>7, <1>11, <1>12, <1>13 DEF Place, S

\* The shape of sync.mjs is the whole table.
LEMMA OrdersMeans ==
    /\ Orders.where = NoFilter.where /\ Orders.columns = NoFilter.columns /\ Orders.full = TRUE
    /\ \A content : Project(Orders, content) = Project(NoFilter, content)
    /\ \A r \in Rows, content \in Contents \cup {None} :
          /\ Matches(Orders, r, content) <=> content # None
          /\ Matches(NoFilter, r, content) <=> content # None
<1>1. Orders.where = NoFilter.where /\ Orders.columns = NoFilter.columns /\ Orders.full = TRUE
  BY DEF Orders, NoFilter
<1>2. \A content : Project(Orders, content) = Project(NoFilter, content)
  BY <1>1 DEF Project
<1>3. NoFilter.where = Rows \X Contents BY DEF NoFilter
<1>4. None \notin Contents BY ShapeAssumption
<1> QED BY <1>1, <1>2, <1>3, <1>4 DEF Matches

LEMMA ViewMeans ==
    ASSUME shape = Orders, table \in [Rows -> Contents \cup {None}], NEW r \in Rows
    PROVE  View[r] = Seen(table[r])
<1>1. table[r] \in Contents \cup {None} OBVIOUS
<1>2. View[r] = IF Matches(shape, r, table[r]) THEN Project(shape, table[r]) ELSE None BY DEF View
<1> QED BY <1>1, <1>2, OrdersMeans DEF Seen

\* The message a change of the table is given to the logs as.
LEMMA ChangeMeans ==
    ASSUME NEW d \in {Orders, NoFilter}, NEW offset \in Int, NEW change \in Change, change.old # change.new
    PROVE  LET m == ChangeMessage(d, offset, change) IN
           m \in Message /\ m # None /\ m.offset = offset /\ m.row = change.row /\ Eff(m) = Seen(change.new)
<1> DEFINE before == Matches(d, change.row, change.old)
           after == Matches(d, change.row, change.new)
           op == LoggedOperation(before, after)
           value == IF op = "delete" THEN change.old ELSE change.new
           old == IF d.full /\ op # "insert" THEN Project(d, change.old) ELSE None
           m == [offset |-> offset, op |-> op, row |-> change.row, value |-> Project(d, value), old |-> old]
<1>1. /\ change.row \in Rows /\ change.old \in Contents \cup {None} /\ change.new \in Contents \cup {None}
  BY DEF Change
<1>2. (before <=> change.old # None) /\ (after <=> change.new # None) BY <1>1, OrdersMeans
<1>3. /\ op \in {"insert", "update", "delete"} /\ (op = "delete" <=> change.new = None)
      /\ op = "delete" => change.old # None
      /\ op # "insert" => change.old # None
  <2>1. before \in BOOLEAN /\ after \in BOOLEAN BY DEF Matches
  <2> QED BY <1>2, <2>1 DEF LoggedOperation
<1>4. op # None BY <1>3, NoneAssumption
<1>5. ChangeMessage(d, offset, change) = m BY <1>4 DEF ChangeMessage
<1>6. \A content \in Contents : Project(d, content) \in Values /\ Project(d, content) = Project(NoFilter, content)
  BY OrdersMeans DEF Values
<1> HIDE DEF op
<1>7. Project(d, value) \in Values
  <2>1. value \in Contents BY <1>1, <1>3
  <2> HIDE DEF value
  <2> QED BY <1>6, <2>1
<1>8. old \in Values \cup {None}
  <2>1. op # "insert" => change.old \in Contents BY <1>1, <1>3
  <2> QED BY <1>6, <2>1
<1>9. m \in Message
  <2> HIDE DEF value, old
  <2> QED BY <1>1, <1>3, <1>7, <1>8 DEF Message
<1>10. m # None
  <2> HIDE DEF m
  <2> QED BY <1>9, NoneAssumption
<1>11. Eff(m) = Seen(change.new)
  <2>1. CASE change.new = None BY <1>3, <2>1 DEF Eff, Seen
  <2>2. CASE change.new # None
    <3>1. value = change.new /\ op # "delete" BY <1>3, <2>2
    <3>2. change.new \in Contents BY <1>1, <2>2
    <3>3. Eff(m) = Project(d, change.new) BY <3>1 DEF Eff
    <3> QED BY <1>6, <2>2, <3>2, <3>3 DEF Seen
  <2> QED BY <2>1, <2>2
<1> QED BY <1>5, <1>9, <1>10, <1>11

\* The messages of a page: one for each of its rows, in front of the end of the snapshot.
LEMMA SnapshotMessagesMean ==
    ASSUME NEW c, shape = Orders, DOMAIN req[c].rows \subseteq Rows, \A r \in DOMAIN req[c].rows : req[c].rows[r] \in Contents,
           req[c].count \in Nat, req[c].count + Cardinality(DOMAIN req[c].rows) <= SnapshotEnd
    PROVE  LET new == SnapshotMessages(c)
               rows == req[c].rows
           IN /\ new \in Seq(Message) /\ Len(new) = Cardinality(DOMAIN rows) /\ DOMAIN new = 1 .. Len(new)
              /\ \A i \in DOMAIN new : /\ 0 <= new[i].offset /\ new[i].offset < SnapshotEnd
                                       /\ new[i].row \in DOMAIN rows /\ Eff(new[i]) = Seen(rows[new[i].row])
              /\ \A r \in DOMAIN rows : \E i \in DOMAIN new : new[i].row = r
              /\ new # <<>> => NewOk(new)
<1> DEFINE rows == req[c].rows
           S == DOMAIN rows
           n == Cardinality(S)
           new == SnapshotMessages(c)
           count == req[c].count
           at == InOrder(S)
<1>1. S \in SUBSET Int /\ IsFiniteSet(S) BY ShapeAssumption, FS_Subset
<1>2. {r \in S : Matches(shape, r, rows[r])} = S
  <2>1. \A r \in S : Matches(shape, r, rows[r])
    <3> TAKE r \in S
    <3>1. rows[r] \in Contents /\ r \in Rows OBVIOUS
    <3>2. rows[r] # None BY <3>1, ShapeAssumption
    <3> QED BY <3>1, <3>2, OrdersMeans
  <2> HIDE DEF rows
  <2> QED BY <2>1
<1>3. /\ n \in Nat /\ DOMAIN at = 1 .. n
      /\ \A i \in 1 .. n : at[i] \in S
      /\ \A r \in S : \E i \in 1 .. n : at[i] = r
  <2> HIDE DEF S
  <2> QED BY <1>1, InOrderMeans
<1>4. new = [i \in 1 .. n |-> [offset |-> count + i - 1, op |-> "insert", row |-> at[i],
                              value |-> Project(shape, rows[at[i]]), old |-> None]]
  BY <1>2, <1>3 DEF SnapshotMessages
<1>5. \A i \in 1 .. n : rows[at[i]] \in Contents /\ at[i] \in Rows /\ at[i] \in S
  BY <1>3
<1>6. count \in Nat /\ count + n <= SnapshotEnd OBVIOUS
<1> HIDE DEF S, n, new, at, count, rows
<1>7. \A i \in 1 .. n : new[i].offset = count + i - 1 /\ new[i].row = at[i]
                        /\ new[i].op = "insert" /\ new[i].value = Project(Orders, rows[at[i]]) /\ new[i].old = None
  BY <1>4
<1>8. DOMAIN new = 1 .. n BY <1>4
<1>9. ASSUME NEW i \in 1 .. n
      PROVE  /\ new[i] \in Message /\ 0 <= new[i].offset /\ new[i].offset < SnapshotEnd
             /\ Eff(new[i]) = Seen(rows[new[i].row])
  <2>1. Project(Orders, rows[at[i]]) \in Values /\ Project(Orders, rows[at[i]]) = Project(NoFilter, rows[at[i]])
    BY <1>5, OrdersMeans DEF Values
  <2>2. new[i] = [offset |-> count + i - 1, op |-> "insert", row |-> at[i],
                              value |-> Project(Orders, rows[at[i]]), old |-> None]
    BY <1>4
  <2>3. count + i - 1 \in Int /\ 0 <= count + i - 1 /\ count + i - 1 < SnapshotEnd BY <1>3, <1>6, SnapshotEndNat
  <2>4. new[i] \in Message BY <1>5, <2>1, <2>2, <2>3 DEF Message
  <2>5. Eff(new[i]) = Seen(rows[at[i]])
    <3>1. rows[at[i]] # None BY <1>5, ShapeAssumption
    <3> QED BY <1>7, <2>1, <3>1 DEF Eff, Seen
  <2> QED BY <1>7, <2>3, <2>4, <2>5
<1>10. new \in Seq(Message)
  <2>1. new \in [1 .. n -> Message] BY <1>4, <1>8, <1>9
  <2> QED BY <1>3, <2>1
<1>11. Len(new) = n
  <2>1. DOMAIN new = 1 .. Len(new) /\ Len(new) \in Nat BY <1>10, LenProperties
  <2> QED BY <1>3, <1>8, <2>1
<1>12. \A i \in DOMAIN new : 0 <= new[i].offset /\ new[i].offset < SnapshotEnd /\ new[i].offset \in Int
  <2>1. \A i \in DOMAIN new : new[i].offset \in Int BY <1>8, <1>9 DEF Message
  <2> QED BY <1>8, <1>9, <2>1
<1>13. new # <<>> => NewOk(new)
  <2>1. \A i \in DOMAIN new : new[i].offset # SnapshotEnd BY <1>12, SnapshotEndNat
  <2> QED BY <1>10, <1>12, <2>1 DEF NewOk
<1>14. \A i \in DOMAIN new : new[i].row \in S BY <1>5, <1>7, <1>8
<1>15. \A r \in S : \E i \in DOMAIN new : new[i].row = r BY <1>3, <1>7, <1>8
<1>16. DOMAIN new = 1 .. Len(new) BY <1>8, <1>11
<1>17. \A i \in DOMAIN new : Eff(new[i]) = Seen(rows[new[i].row]) BY <1>8, <1>9
<1> QED BY <1>10, <1>11, <1>12, <1>13, <1>14, <1>15, <1>16, <1>17 DEF S, n, new, rows

(***************************************************************************)
(* Answers and requests.                                                   *)
(***************************************************************************)
LEMMA EmptyLogOk == LogOk(EmptyLog)
<1>1. EmptyLog.messages = <<>> /\ EmptyLog.last = Beginning /\ EmptyLog.cut = Beginning BY DEF EmptyLog
<1>2. <<>> \in Seq(Message) /\ Len(<<>>) = 0 /\ DOMAIN <<>> = {} BY EmptySeq
<1>3. EmptyLog \in Log BY <1>2 DEF EmptyLog, Log, Beginning
<1> QED BY <1>1, <1>2, <1>3, ShapeAssumption DEF LogOk, Beginning

LEMMA ReadOk ==
    ASSUME NodeInv, NEW h
    PROVE  LogOk(Read(h))
BY EmptyLogOk DEF NodeInv, LogFits, Read

\* What LogOk says, piece by piece.
LEMMA LogFacts ==
    ASSUME NEW l, LogOk(l)
    PROVE  /\ l.messages \in Seq(Message) /\ l.last \in Int /\ l.cut \in Int
           /\ Beginning <= l.cut /\ l.cut <= l.last /\ Beginning <= l.last
           /\ DOMAIN l.messages = 1 .. Len(l.messages) /\ Len(l.messages) \in Nat
           /\ \A i \in DOMAIN l.messages :
                 /\ l.messages[i] \in Message /\ l.messages[i].offset \in Int /\ l.messages[i].row \in Rows
                 /\ 0 <= l.messages[i].offset /\ l.messages[i].offset <= l.last
                 /\ l.messages[i].offset # SnapshotEnd
<1>1. l.messages \in Seq(Message) /\ l.last \in Int /\ l.cut \in Int BY DEF LogOk, Log
<1>2. Beginning <= l.cut /\ l.cut <= l.last BY DEF LogOk
<1>3. Beginning <= l.last BY <1>1, <1>2 DEF Beginning
<1>4. DOMAIN l.messages = 1 .. Len(l.messages) /\ Len(l.messages) \in Nat BY <1>1, LenProperties
<1>5. \A i \in DOMAIN l.messages : l.messages[i] \in Message BY <1>1, <1>4, ElementOfSeq
<1>6. \A i \in DOMAIN l.messages : l.messages[i].offset \in Int /\ l.messages[i].row \in Rows BY <1>5 DEF Message
<1> QED BY <1>1, <1>2, <1>3, <1>4, <1>5, <1>6 DEF LogOk

LEMMA PartTypes ==
    ASSUME NEW l, LogOk(l), NEW from
    PROVE  After(l.messages, from) \in Seq(Message) /\ SnapshotPart(l.messages) \in Seq(Message)
<1>1. l.messages \in Seq(Message) BY LogFacts
<1> QED BY <1>1, PickedMeans DEF After, SnapshotPart

\* The requests and answers the node makes have their types.
LEMMA IdleOk == ReqOk(Idle) /\ Idle.pc = "idle"
BY DEF ReqOk, Idle, Fields, Busy, Beginning

LEMMA AnsweredOk ==
    ASSUME NEW a, AnswerOk(a)
    PROVE  ReqOk(Answered(a)) /\ Answered(a).pc = "answered" /\ Answered(a).answer = a
BY DEF ReqOk, Answered, Idle, Fields, Busy, Beginning

LEMMA FailedOk == AnswerOk(Failed) /\ Failed.status = "error"
<1>1. <<>> \in Seq(Message) BY EmptySeq
<1> QED BY <1>1 DEF AnswerOk, Failed, Answer, Beginning

LEMMA MustRefetchOk ==
    ASSUME NEW h \in Handles
    PROVE  AnswerOk(MustRefetch(h)) /\ MustRefetch(h).status = "must-refetch"
<1>1. <<>> \in Seq(Message) BY EmptySeq
<1> QED BY <1>1 DEF AnswerOk, MustRefetch, Answer, Beginning

LEMMA OkOk ==
    ASSUME NEW h \in Handles, NEW ms \in Seq(Message), NEW o \in Int, Beginning <= o, NEW u \in BOOLEAN
    PROVE  /\ AnswerOk(Ok(h, ms, o, u)) /\ Ok(h, ms, o, u).status = "ok" /\ Ok(h, ms, o, u).handle = h
           /\ Ok(h, ms, o, u).messages = ms /\ Ok(h, ms, o, u).offset = o /\ Ok(h, ms, o, u).upToDate = u
BY DEF AnswerOk, Ok, Answer

LEMMA SettledOk ==
    ASSUME NEW h \in Handles, LogOk(Read(h))
    PROVE  /\ AnswerOk(Settled(h)) /\ Settled(h).status = "ok" /\ Settled(h).handle = h
           /\ Settled(h).messages = SnapshotPart(Messages(h))
           /\ Settled(h).offset = IF Len(SnapshotPart(Messages(h))) = Len(Messages(h)) THEN Read(h).last ELSE SnapshotEnd
<1> DEFINE part == SnapshotPart(Messages(h))
<1>1. part \in Seq(Message) BY PartTypes DEF Messages
<1>2. Read(h).last \in Int /\ Beginning <= Read(h).last BY LogFacts
<1>3. SnapshotEnd \in Int /\ Beginning <= SnapshotEnd BY SnapshotEndNat DEF Beginning
<1>4. Settled(h) = IF Len(part) = Len(Messages(h)) THEN Ok(h, part, Read(h).last, TRUE) ELSE Ok(h, part, SnapshotEnd, FALSE)
  BY DEF Settled, Messages
<1> DEFINE o == IF Len(part) = Len(Messages(h)) THEN Read(h).last ELSE SnapshotEnd
<1>5. PICK u \in BOOLEAN : Settled(h) = Ok(h, part, o, u)
  <2>1. CASE Len(part) = Len(Messages(h)) BY <1>4, <2>1
  <2>2. CASE Len(part) # Len(Messages(h)) BY <1>4, <2>2
  <2> QED BY <2>1, <2>2
<1>6. o \in Int /\ Beginning <= o BY <1>2, <1>3
<1> HIDE DEF part, o
<1>7. /\ AnswerOk(Ok(h, part, o, u)) /\ Ok(h, part, o, u).status = "ok" /\ Ok(h, part, o, u).handle = h
      /\ Ok(h, part, o, u).messages = part /\ Ok(h, part, o, u).offset = o
  BY <1>1, <1>6, OkOk
<1> QED BY <1>5, <1>7 DEF part, o

LEMMA ReplyOk ==
    ASSUME NEW q, ReqOk(q), NEW a, AnswerOk(a), q.handle \in Handles
    PROVE  ReqOk(Reply(q, a))
<1>1. CASE a.messages = <<>> /\ q.live
  <2> DEFINE w == [q EXCEPT !.pc = "await", !.from = a.offset, !.page = 0, !.count = 0, !.base = None]
  <2>1. Reply(q, a) = w BY <1>1 DEF Reply
  <2>2. /\ DOMAIN w = Fields /\ w.pc = "await" /\ w.from = a.offset /\ w.page = 0 /\ w.count = 0 /\ w.base = None
        /\ w.handle = q.handle
    BY DEF ReqOk, Fields
  <2>3. a.offset \in Int /\ Beginning <= a.offset BY DEF AnswerOk
  <2> HIDE DEF w
  <2>4. ReqOk(w) BY <2>2, <2>3 DEF ReqOk, Busy
  <2> QED BY <2>1, <2>4
<1>2. CASE ~(a.messages = <<>> /\ q.live)
  BY <1>2, AnsweredOk DEF Reply
<1> QED BY <1>1, <1>2

LEMMA WokenOk ==
    ASSUME NEW q, ReqOk(q), NEW h \in Handles, NEW l, LogOk(l)
    PROVE  ReqOk(Woken(q, h, l))
<1>1. AnswerOk(Ok(h, After(l.messages, q.from), l.last, TRUE))
  <2>1. After(l.messages, q.from) \in Seq(Message) /\ l.last \in Int /\ Beginning <= l.last BY LogFacts, PartTypes
  <2> QED BY <2>1, OkOk
<1> QED BY <1>1, AnsweredOk DEF Woken

\* A step that replaces one request.
LEMMA OneRequestOk ==
    ASSUME ReqsOk, NEW c \in Requests, NEW q, ReqOk(q), req' = [req EXCEPT ![c] = q]
    PROVE  ReqsOk' /\ req'[c] = q /\ \A x \in Requests : x # c => req'[x] = req[x]
BY DEF ReqsOk

LEMMA GotoMeans ==
    ASSUME ReqsOk, NEW c \in Requests, NEW pc, Goto(c, pc)
    PROVE  /\ req' = [req EXCEPT ![c] = [req[c] EXCEPT !.pc = pc]]
           /\ DOMAIN req' = Requests
           /\ \A x \in Requests : x # c => req'[x] = req[x]
           /\ DOMAIN req'[c] = Fields /\ req'[c].pc = pc
           /\ \A f \in Fields \ {"pc"} : req'[c][f] = req[c][f]
BY DEF Goto, ReqsOk, ReqOk, Fields

(***************************************************************************)
(* What the steps do, in terms of the invariant.                           *)
(***************************************************************************)
\* The step changes no request but c.
Mine(c) == DOMAIN req' = Requests /\ \A x \in Requests : x # c => req'[x] = req[x]

LEMMA MineOk ==
    ASSUME ReqsOk, NEW c \in Requests, Mine(c), ReqOk(req'[c])
    PROVE  ReqsOk'
BY DEF ReqsOk, Mine

\* What each call of a request does to it.
LEMMA EnsureMeans ==
    ASSUME Types, NEW c \in Requests, Ensure(c)
    PROVE  LET h == IF req[c].handle = None THEN given + 1 ELSE req[c].handle IN
           /\ h \in Handles /\ given' \in Nat /\ given' <= MaxHandles
           /\ Mine(c) /\ ReqOk(req'[c])
           /\ req'[c].pc = IF Read(h).messages = <<>> THEN "new" ELSE "rejoin"
           /\ req'[c].handle = h /\ \A f \in Fields \ {"pc", "handle"} : req'[c][f] = req[c][f]
           /\ req[c].pc = "ensure"
<1> DEFINE h == IF req[c].handle = None THEN given + 1 ELSE req[c].handle
           pc == IF Read(h).messages = <<>> THEN "new" ELSE "rejoin"
           q == [req[c] EXCEPT !.handle = h, !.pc = pc]
<1>1. h \in Handles /\ given' = Later(given, h) /\ req' = [req EXCEPT ![c].handle = h, ![c].pc = pc] /\ req[c].pc = "ensure"
  BY DEF Ensure, At
<1>2. ReqOk(req[c]) /\ DOMAIN req[c] = Fields /\ DOMAIN req = Requests BY DEF Types, ReqsOk, ReqOk
<1>3. given' \in Nat /\ given' <= MaxHandles
  <2> HIDE DEF h
  <2> QED BY <1>1 DEF Types, NodeOk, Handles, Later
<1>4. Mine(c) /\ req'[c] = q
  <2> HIDE DEF h, pc
  <2> QED BY <1>1, <1>2 DEF Mine, Fields
<1>5. /\ q.pc = pc /\ q.handle = h /\ DOMAIN q = Fields
      /\ \A f \in Fields \ {"pc", "handle"} : q[f] = req[c][f]
  <2> HIDE DEF h, pc
  <2> QED BY <1>2 DEF Fields
<1> HIDE DEF q
<1>6. ReqOk(q)
  <2>1. pc \in {"new", "rejoin"} OBVIOUS
  <2> HIDE DEF h, pc
  <2> QED BY <1>1, <1>2, <1>5, <2>1 DEF ReqOk, Fields, Busy
<1> QED BY <1>1, <1>3, <1>4, <1>5, <1>6

\* Going on to another call keeps the rest of a request.
LEMMA GotoOk ==
    ASSUME Types, NEW c \in Requests, NEW pc, Goto(c, pc), req[c].handle \in Handles,
           \/ pc = "fetch" /\ req[c].pc = "new"
           \/ pc = "settle" /\ req[c].pc = "rejoin"
           \/ pc = "read" /\ req[c].pc = "resume"
    PROVE  /\ Mine(c) /\ ReqOk(req'[c])
           /\ req'[c].pc = pc /\ \A f \in Fields \ {"pc"} : req'[c][f] = req[c][f]
<1>1. ReqOk(req[c]) /\ ReqsOk BY DEF Types, ReqsOk
<1>2. /\ DOMAIN req' = Requests /\ \A x \in Requests : x # c => req'[x] = req[x]
      /\ DOMAIN req'[c] = Fields /\ req'[c].pc = pc
      /\ \A f \in Fields \ {"pc"} : req'[c][f] = req[c][f]
  BY <1>1, GotoMeans
<1>3. ReqOk(req'[c]) BY <1>1, <1>2 DEF ReqOk, Fields, Busy
<1> QED BY <1>2, <1>3 DEF Mine

\* A table of the past is one.
LEMMA Smallest ==
    ASSUME NEW S \in SUBSET Int, IsFiniteSet(S), S # {}
    PROVE  Min(S) \in S
<1>1. Cardinality(S) \in Nat /\ Cardinality(S) # 0 BY FS_CardinalityType, FS_EmptySet
<1>2. PICK m \in S : Rank(S, m) = 1
  <2>1. 1 \in 1 .. Cardinality(S) BY <1>1
  <2> QED BY <2>1, RankMeans
<1>3. ASSUME NEW x \in S PROVE m <= x
  <2>1. m \in Int /\ x \in Int OBVIOUS
  <2>2. Rank(S, x) \in 1 .. Cardinality(S) BY RankMeans
  <2>3. x < m => Rank(S, x) < Rank(S, m) BY RankMeans
  <2> HIDE DEF Rank
  <2> QED BY <1>1, <1>2, <2>1, <2>2, <2>3
<1> QED BY <1>2, <1>3 DEF Min

LEMMA PastIsTable ==
    ASSUME Types, NEW k \in Nat
    PROVE  AsOf(k) \in Tables
<1>1. /\ table \in Tables /\ wal \in Seq(Change) /\ DOMAIN wal = 1 .. Len(wal) /\ Len(wal) \in Nat
  BY LenProperties DEF Types, OriginOk
<1> SUFFICES ASSUME NEW r \in Rows PROVE AsOf(k)[r] \in Contents \cup {None}
  BY DEF AsOf, Tables
<1> DEFINE later == {n \in DOMAIN wal : k < n /\ wal[n].row = r}
<1>2. AsOf(k)[r] = IF later = {} THEN table[r] ELSE wal[Min(later)].old BY DEF AsOf
<1>3. later \in SUBSET (1 .. Len(wal)) BY <1>1
<1>4. later \in SUBSET Int /\ IsFiniteSet(later)
  <2> HIDE DEF later
  <2>1. IsFiniteSet(1 .. Len(wal)) BY <1>1, FS_Interval
  <2>2. later \in SUBSET Int BY <1>1, <1>3
  <2>3. IsFiniteSet(later) BY <1>3, <2>1, FS_Subset
  <2> QED BY <2>2, <2>3
<1>5. CASE later = {} BY <1>1, <1>2, <1>5 DEF Tables
<1>6. CASE later # {}
  <2> HIDE DEF later
  <2>1. Min(later) \in DOMAIN wal BY <1>1, <1>3, <1>4, <1>6, Smallest
  <2>2. wal[Min(later)] \in Change BY <1>1, <2>1, ElementOfSeq
  <2> QED BY <1>2, <1>6, <2>2 DEF Change
<1> QED BY <1>5, <1>6

LEMMA GetsPageMeans ==
    ASSUME Types, NEW c \in Requests, NEW base \in Tables, GetsPage(c, base)
    PROVE  LET rows == Page(base, req[c].page)
           IN /\ Mine(c) /\ ReqOk(req'[c])
              /\ req'[c].base = (IF Direct THEN base ELSE None) /\ req'[c].rows = rows
              /\ req'[c].page = req[c].page + PageSize
              /\ req'[c].pc = IF DOMAIN rows = {} THEN "settle" ELSE "append"
              /\ req'[c].handle = req[c].handle /\ req'[c].from = req[c].from /\ req'[c].live = req[c].live
              /\ req[c].pc = "fetch" /\ req[c].handle \in Handles
<1> DEFINE rows == Page(base, req[c].page)
           pc == IF DOMAIN rows = {} THEN "settle" ELSE "append"
           newBase == IF Direct THEN base ELSE None
           q == [req[c] EXCEPT !.base = newBase, !.rows = rows, !.page = @ + PageSize, !.pc = pc]
<1>1. /\ req[c].pc = "fetch"
      /\ req' = [req EXCEPT ![c].base = newBase, ![c].rows = rows, ![c].page = @ + PageSize, ![c].pc = pc]
  BY DEF GetsPage, At
<1>2. ReqOk(req[c]) /\ DOMAIN req[c] = Fields /\ DOMAIN req = Requests BY DEF Types, ReqsOk, ReqOk
<1>3. req[c].handle \in Handles /\ req[c].page \in Nat BY <1>1, <1>2 DEF ReqOk, Busy
<1>4. base \in Tables OBVIOUS
<1>5. /\ IsFiniteSet(DOMAIN rows) /\ Cardinality(DOMAIN rows) \in Nat /\ Cardinality(DOMAIN rows) <= PageSize
      /\ DOMAIN rows # {} => req[c].page + Cardinality(DOMAIN rows) <= SnapshotEnd
      /\ DOMAIN rows \subseteq Rows /\ \A r \in DOMAIN rows : rows[r] \in Contents
  <2>1. DOMAIN rows \subseteq Present(base) /\ \A r \in DOMAIN rows : rows[r] = base[r] BY <1>3, PageMeans
  <2>2. \A r \in Present(base) : r \in Rows /\ base[r] \in Contents BY <1>4 DEF Present, Tables
  <2>3. /\ IsFiniteSet(DOMAIN rows) /\ Cardinality(DOMAIN rows) \in Nat /\ Cardinality(DOMAIN rows) <= PageSize
        /\ DOMAIN rows # {} => req[c].page + Cardinality(DOMAIN rows) <= SnapshotEnd
    BY <1>3, PageMeans
  <2> HIDE DEF rows
  <2> QED BY <2>1, <2>2, <2>3
<1>6. Mine(c) /\ req'[c] = q
  <2> HIDE DEF newBase, rows, pc
  <2> QED BY <1>1, <1>2 DEF Mine, Fields
<1>7. /\ q.pc = pc /\ q.base = newBase /\ q.rows = rows /\ q.page = req[c].page + PageSize /\ DOMAIN q = Fields
      /\ \A f \in Fields \ {"pc", "base", "rows", "page"} : q[f] = req[c][f]
  <2> HIDE DEF newBase, rows, pc
  <2> QED BY <1>2 DEF Fields
<1> HIDE DEF q
<1>8. ReqOk(q)
  <2>1. newBase = None \/ newBase \in Tables BY <1>4
  <2>2. Direct => newBase # None
    <3>1. None \notin Tables BY NoneAssumption DEF Tables
    <3> QED BY <1>4, <3>1
  <2>3. pc = "append" => DOMAIN rows # {} OBVIOUS
  <2>4. pc \in {"settle", "append"} OBVIOUS
  <2>5. /\ q.handle = req[c].handle /\ q.from = req[c].from /\ q.count = req[c].count BY <1>7 DEF Fields
  <2> HIDE DEF newBase, rows, pc
  <2>6. PageSize \in Nat \ {0} BY ShapeAssumption
  <2>7. req[c].count \in Nat /\ req[c].count <= req[c].page /\ req[c].from = Beginning BY <1>1, <1>2 DEF ReqOk
  <2>8. pc = "append" => RowsOk(q)
    <3> SUFFICES ASSUME pc = "append" PROVE RowsOk(q)
      OBVIOUS
    <3>1. req[c].count + Cardinality(DOMAIN rows) <= req[c].page + PageSize BY <1>3, <1>5, <2>6, <2>7
    <3>2. req[c].count + Cardinality(DOMAIN rows) <= SnapshotEnd
      BY <1>3, <1>5, <2>3, <2>7, SnapshotEndNat
    <3> QED BY <1>5, <1>7, <2>5, <3>1, <3>2 DEF RowsOk
  <2>9. q.page \in Nat /\ q.count \in Nat /\ q.count <= q.page BY <1>3, <1>7, <2>5, <2>6, <2>7
  <2>10. q.pc = "append" => q.rows = rows BY <1>7
  <2> QED BY <1>3, <1>7, <2>1, <2>2, <2>4, <2>5, <2>7, <2>8, <2>9 DEF ReqOk, Busy, Beginning
<1> QED BY <1>1, <1>3, <1>4, <1>6, <1>7, <1>8 DEF Fields

LEMMA FetchPageMeans ==
    ASSUME Types, NEW c \in Requests, FetchPage(c)
    PROVE  LET base == IF Direct /\ req[c].base # None THEN req[c].base ELSE table
           IN base \in Tables /\ GetsPage(c, base)
<1>1. ReqOk(req[c]) BY DEF Types, ReqsOk
<1> QED BY <1>1 DEF FetchPage, ReqOk, Types, OriginOk

LEMMA FetchReplicaMeans ==
    ASSUME Types, NEW c \in Requests, FetchReplica(c)
    PROVE  \E k \in Nat : /\ ~Direct /\ AsOf(k) \in Tables /\ GetsPage(c, AsOf(k))
                          /\ LET h == req[c].handle IN
                             flawed' = flawed \cup IF Misses(h, AsOf(k), req[c].page) THEN {h} ELSE {}
<1>1. PICK k \in 0 .. Len(wal) - 1 :
          /\ GetsPage(c, AsOf(k))
          /\ flawed' = flawed \cup IF Misses(req[c].handle, AsOf(k), req[c].page) THEN {req[c].handle} ELSE {}
  BY DEF FetchReplica
<1>2. k \in Nat OBVIOUS
<1> QED BY <1>1, <1>2, PastIsTable DEF FetchReplica

\* A page read at whatever database.
Fetches(c) == FetchPage(c) \/ FetchReplica(c)

LEMMA FetchesMeans ==
    ASSUME Types, NEW c \in Requests, Fetches(c)
    PROVE  /\ \E base \in Tables : GetsPage(c, base)
           /\ Mine(c) /\ ReqOk(req'[c])
           /\ req'[c].pc \in {"settle", "append"} /\ req'[c].page = req[c].page + PageSize
           /\ req'[c].handle = req[c].handle /\ req'[c].from = req[c].from /\ req'[c].live = req[c].live
           /\ req[c].pc = "fetch" /\ req[c].handle \in Handles
           /\ UNCHANGED <<origin, stream_, shapes, given, gone>>
<1>1. PICK base \in Tables : GetsPage(c, base)
  BY FetchPageMeans, FetchReplicaMeans DEF Fetches
<1>2. UNCHANGED <<origin, stream_, shapes, given, gone>> BY DEF Fetches, FetchPage, FetchReplica, ghosts
<1> QED BY <1>1, <1>2, GetsPageMeans

LEMMA AppendPageMeans ==
    ASSUME Types, NodeInv, NEW c \in Requests, AppendPage(c)
    PROVE  LET h == req[c].handle
               new == SnapshotMessages(c)
               rows == req[c].rows
               l == Appended(Read(h), new)
           IN /\ req[c].pc = "append" /\ h \in Handles
              /\ new \in Seq(Message) /\ Len(new) = Cardinality(DOMAIN rows) /\ DOMAIN new = 1 .. Len(new)
              /\ \A i \in DOMAIN new : /\ 0 <= new[i].offset /\ new[i].offset < SnapshotEnd
                                       /\ new[i].row \in DOMAIN rows /\ Eff(new[i]) = Seen(rows[new[i].row])
              /\ \A r \in DOMAIN rows : \E i \in DOMAIN new : new[i].row = r
              /\ new # <<>> => NewOk(new) /\ log' = With(h, l) /\ LogOk(l)
              /\ new # <<>> => flawed' = flawed \cup Back(h) \cup Followed(h) \cup Hidden(h, new)
              /\ new = <<>> => log' = log /\ flawed' = flawed
              /\ DOMAIN req' = Requests /\ ReqOk(req'[c]) /\ req'[c].handle = h
              /\ req'[c].pc = IF Cardinality(DOMAIN rows) < PageSize THEN "settle" ELSE "fetch"
              /\ req'[c].base = req[c].base /\ req'[c].page = req[c].page /\ req'[c].live = req[c].live
              /\ req'[c].from = req[c].from
              /\ \A x \in Requests : x # c =>
                    ReqOk(req'[x]) /\ req'[x] = IF new = <<>> THEN req[x] ELSE Woken(req[x], h, l)
<1> DEFINE h == req[c].handle
           new == SnapshotMessages(c)
           rows == req[c].rows
           l == Appended(Read(h), new)
           pc == IF Cardinality(DOMAIN rows) < PageSize THEN "settle" ELSE "fetch"
           q == [req[c] EXCEPT !.pc = pc, !.count = @ + Len(new), !.rows = None]
<1>1. ReqOk(req[c]) /\ DOMAIN req[c] = Fields /\ DOMAIN req = Requests /\ shape = Orders
  BY DEF Types, ReqsOk, ReqOk, OriginOk
<1>2. /\ req[c].pc = "append"
      /\ log' = IF new = <<>> THEN log ELSE With(h, l)
      /\ req' = [x \in Requests |-> IF x = c THEN q
                                    ELSE IF new = <<>> THEN req[x] ELSE Woken(req[x], h, l)]
      /\ flawed' = IF new = <<>> THEN flawed ELSE flawed \cup Back(h) \cup Followed(h) \cup Hidden(h, new)
  BY DEF AppendPage, At
<1>3. h \in Handles /\ RowsOk(req[c]) BY <1>1, <1>2 DEF ReqOk, Busy
<1>4. /\ new \in Seq(Message) /\ Len(new) = Cardinality(DOMAIN rows) /\ DOMAIN new = 1 .. Len(new)
      /\ \A i \in DOMAIN new : /\ 0 <= new[i].offset /\ new[i].offset < SnapshotEnd
                               /\ new[i].row \in DOMAIN rows /\ Eff(new[i]) = Seen(rows[new[i].row])
      /\ \A r \in DOMAIN rows : \E i \in DOMAIN new : new[i].row = r
      /\ new # <<>> => NewOk(new)
  <2>1. req[c].count \in Nat BY <1>1 DEF ReqOk
  <2> QED BY <1>1, <1>3, <2>1, SnapshotMessagesMean DEF RowsOk
<1>5. new # <<>> => LogOk(l)
  <2>1. LogOk(Read(h)) BY ReadOk
  <2> HIDE DEF new, h
  <2> QED BY <1>4, <2>1, AppendedMeans
<1>6. /\ q.pc = pc /\ q.count = req[c].count + Len(new) /\ q.rows = None /\ DOMAIN q = Fields
      /\ \A f \in Fields \ {"pc", "count", "rows"} : q[f] = req[c][f]
  <2> HIDE DEF new, pc
  <2> QED BY <1>1 DEF Fields
<1>7. ReqOk(q) /\ q.handle = h /\ q.base = req[c].base /\ q.page = req[c].page /\ q.live = req[c].live /\ q.from = req[c].from
  <2>1. /\ q.handle = h /\ q.base = req[c].base /\ q.page = req[c].page /\ q.live = req[c].live
        /\ q.from = req[c].from
    <3> HIDE DEF q
    <3> QED BY <1>6 DEF Fields
  <2>2. q.count \in Nat /\ q.count <= q.page
    <3>1. Len(new) \in Nat BY <1>4, LenProperties
    <3>2. req[c].count + Len(new) <= req[c].page BY <1>3, <1>4 DEF RowsOk
    <3>3. req[c].count \in Nat BY <1>1 DEF ReqOk
    <3> HIDE DEF q, new
    <3> QED BY <1>6, <2>1, <3>1, <3>2, <3>3
  <2>3. pc \in {"settle", "fetch"} OBVIOUS
  <2> HIDE DEF q, pc, h
  <2> QED BY <1>1, <1>2, <1>3, <1>6, <2>1, <2>2, <2>3 DEF ReqOk, Busy
<1>8. ASSUME NEW x \in Requests, x # c
      PROVE  ReqOk(req'[x]) /\ req'[x] = IF new = <<>> THEN req[x] ELSE Woken(req[x], h, l)
  <2>1. req'[x] = IF new = <<>> THEN req[x] ELSE Woken(req[x], h, l) BY <1>2, <1>8
  <2>2. ReqOk(req[x]) BY DEF Types, ReqsOk
  <2> HIDE DEF new, h, l
  <2>3. new # <<>> => ReqOk(Woken(req[x], h, l)) BY <1>3, <1>5, <2>2, WokenOk
  <2> QED BY <2>1, <2>2, <2>3
<1>9. DOMAIN req' = Requests /\ req'[c] = q BY <1>2
<1> HIDE DEF q, l, new, h, pc, rows
<1>10. new # <<>> => /\ log' = With(h, l) /\ LogOk(l) /\ NewOk(new)
                     /\ flawed' = flawed \cup Back(h) \cup Followed(h) \cup Hidden(h, new)
  BY <1>2, <1>4, <1>5
<1>11. new = <<>> => log' = log /\ flawed' = flawed BY <1>2
<1>12. /\ ReqOk(req'[c]) /\ req'[c].handle = h /\ req'[c].pc = pc
       /\ req'[c].base = req[c].base /\ req'[c].page = req[c].page /\ req'[c].live = req[c].live
       /\ req'[c].from = req[c].from
  BY <1>6, <1>7, <1>9
<1> QED BY <1>2, <1>3, <1>4, <1>8, <1>9, <1>10, <1>11, <1>12 DEF l, new, h, pc, rows

LEMMA SettleMeans ==
    ASSUME Types, NodeInv, NEW c \in Requests, Settle(c)
    PROVE  LET h == req[c].handle IN
           /\ req[c].pc = "settle" /\ h \in Handles /\ req[c].from = Beginning
           /\ Mine(c) /\ ReqOk(req'[c]) /\ req'[c] = Reply(req[c], Settled(h))
           /\ flawed' = flawed \cup Gap(h, Beginning) \cup Half(h)
<1> DEFINE h == req[c].handle
           q == Reply(req[c], Settled(h))
<1>1. ReqOk(req[c]) /\ DOMAIN req = Requests BY DEF Types, ReqsOk
<1>2. req[c].pc = "settle" /\ req' = [req EXCEPT ![c] = q] /\ flawed' = flawed \cup Gap(h, Beginning) \cup Half(h)
  BY DEF Settle, At
<1>3. h \in Handles /\ req[c].from = Beginning BY <1>1, <1>2 DEF ReqOk, Busy
<1>4. AnswerOk(Settled(h)) BY <1>3, ReadOk, SettledOk
<1>5. ReqOk(q) BY <1>1, <1>3, <1>4, ReplyOk
<1> HIDE DEF q
<1>6. Mine(c) /\ req'[c] = q BY <1>1, <1>2 DEF Mine
<1> QED BY <1>2, <1>3, <1>5, <1>6 DEF q

LEMMA RefetchMeans ==
    ASSUME Types, NEW c \in Requests, Refetch(c)
    PROVE  /\ Mine(c) /\ ReqOk(req'[c]) /\ req'[c].pc = "answered" /\ req'[c].answer.status = "must-refetch"
           /\ given' \in Nat /\ given' <= MaxHandles
<1> DEFINE a == MustRefetch(given + 1)
<1>1. given \in Nat /\ given < MaxHandles /\ given' = given + 1 /\ req' = [req EXCEPT ![c] = Answered(a)]
  BY DEF Refetch, Types, NodeOk
<1>2. given + 1 \in Handles BY <1>1, ShapeAssumption DEF Handles
<1>3. AnswerOk(a) /\ a.status = "must-refetch" BY <1>2, MustRefetchOk
<1> HIDE DEF a
<1>4. ReqOk(Answered(a)) /\ Answered(a).pc = "answered" /\ Answered(a).answer = a BY <1>3, AnsweredOk
<1>5. DOMAIN req = Requests BY DEF Types, ReqsOk
<1>6. Mine(c) /\ req'[c] = Answered(a) BY <1>1, <1>5 DEF Mine
<1>7. given' \in Nat /\ given' <= MaxHandles BY <1>1, ShapeAssumption
<1> QED BY <1>3, <1>4, <1>6, <1>7

LEMMA ResumeMeans ==
    ASSUME Types, NEW c \in Requests, Resume(c)
    PROVE  /\ req[c].pc = "resume" /\ req[c].handle \in Handles /\ 0 <= req[c].from
           /\ Mine(c) /\ ReqOk(req'[c]) /\ given' \in Nat /\ given' <= MaxHandles
           /\ \/ req'[c].pc = "answered" /\ req'[c].answer.status = "must-refetch" /\ Gap(req[c].handle, req[c].from) # {}
              \/ req'[c].pc = "read" /\ \A f \in Fields \ {"pc"} : req'[c][f] = req[c][f]
<1>1. ReqOk(req[c]) BY DEF Types, ReqsOk
<1>2. req[c].pc = "resume" BY DEF Resume, At
<1>3. req[c].handle \in Handles /\ 0 <= req[c].from BY <1>1, <1>2 DEF ReqOk, Busy
<1>4. CASE Gap(req[c].handle, req[c].from) # {} BY <1>2, <1>3, <1>4, RefetchMeans DEF Resume
<1>5. CASE Gap(req[c].handle, req[c].from) = {}
  <2>1. Goto(c, "read") /\ given' = given BY <1>5 DEF Resume
  <2> QED BY <1>2, <1>3, <2>1, GotoOk DEF Types, NodeOk
<1> QED BY <1>4, <1>5

LEMMA ReadLogMeans ==
    ASSUME Types, NodeInv, NEW c \in Requests, ReadLog(c)
    PROVE  LET h == req[c].handle
               from == req[c].from
               a == Ok(h, After(Messages(h), from), Later(from, Read(h).last), TRUE)
           IN /\ req[c].pc = "read" /\ h \in Handles /\ 0 <= from /\ from \in Int
              /\ Mine(c) /\ ReqOk(req'[c]) /\ given' \in Nat /\ given' <= MaxHandles
              /\ \/ h \notin DOMAIN log /\ req'[c].pc = "answered" /\ req'[c].answer.status = "must-refetch"
                    /\ flawed' = flawed
                 \/ h \in DOMAIN log /\ req'[c] = Reply(req[c], a) /\ flawed' = flawed \cup Gap(h, from)
<1> DEFINE h == req[c].handle
           from == req[c].from
           a == Ok(h, After(Messages(h), from), Later(from, Read(h).last), TRUE)
<1>1. ReqOk(req[c]) /\ DOMAIN req = Requests BY DEF Types, ReqsOk
<1>2. req[c].pc = "read" BY DEF ReadLog, At
<1>3. h \in Handles /\ 0 <= from /\ from \in Int BY <1>1, <1>2 DEF ReqOk, Busy
<1>4. CASE h \notin DOMAIN log
  <2>1. Refetch(c) /\ flawed' = flawed BY <1>4 DEF ReadLog
  <2> QED BY <1>2, <1>3, <1>4, <2>1, RefetchMeans
<1>5. CASE h \in DOMAIN log
  <2>1. Read(h) = log[h] BY <1>5 DEF Read
  <2>2. req' = [req EXCEPT ![c] = Reply(req[c], a)] /\ flawed' = flawed \cup Gap(h, from) /\ given' = given
    BY <1>5, <2>1 DEF ReadLog, Messages
  <2>3. AnswerOk(a)
    <3>1. LogOk(Read(h)) BY ReadOk
    <3>2. After(Messages(h), from) \in Seq(Message) BY <3>1, PartTypes DEF Messages
    <3>3. Read(h).last \in Int /\ Beginning <= Read(h).last BY <3>1, LogFacts
    <3>4. Later(from, Read(h).last) \in Int /\ Beginning <= Later(from, Read(h).last)
      BY <1>3, <3>3 DEF Later, Beginning
    <3> QED BY <1>3, <3>2, <3>4, OkOk
  <2> HIDE DEF a
  <2>4. ReqOk(Reply(req[c], a)) BY <1>1, <1>3, <2>3, ReplyOk
  <2>5. Mine(c) /\ req'[c] = Reply(req[c], a) BY <1>1, <2>2 DEF Mine
  <2> QED BY <1>2, <1>3, <1>5, <2>2, <2>4, <2>5 DEF a, Types, NodeOk
<1> QED BY <1>4, <1>5

LEMMA AwaitLogMeans ==
    ASSUME Types, NodeInv, NEW c \in Requests, AwaitLog(c)
    PROVE  LET h == req[c].handle
               from == req[c].from
               a == Ok(h, After(Messages(h), from), Read(h).last, TRUE)
           IN /\ req[c].pc = "await" /\ h \in Handles /\ from \in Int
              /\ Mine(c) /\ ReqOk(req'[c])
              /\ log' = With(h, Read(h)) /\ flawed' = flawed \cup Gap(h, from) \cup Back(h)
              /\ \/ from < Read(h).last /\ req'[c] = Answered(a)
                 \/ ~(from < Read(h).last) /\ req'[c].pc = "waiting"
                    /\ \A f \in Fields \ {"pc"} : req'[c][f] = req[c][f]
<1> DEFINE h == req[c].handle
           from == req[c].from
           a == Ok(h, After(Messages(h), from), Read(h).last, TRUE)
           w == [req[c] EXCEPT !.pc = "waiting"]
<1>1. ReqOk(req[c]) /\ DOMAIN req = Requests /\ DOMAIN req[c] = Fields BY DEF Types, ReqsOk, ReqOk
<1>2. /\ req[c].pc = "await" /\ log' = With(h, Read(h)) /\ flawed' = flawed \cup Gap(h, from) \cup Back(h)
      /\ req' = [req EXCEPT ![c] = IF from < Read(h).last THEN Answered(a) ELSE w]
  BY DEF AwaitLog, At, Messages
<1>3. h \in Handles /\ from \in Int BY <1>1, <1>2 DEF ReqOk, Busy
<1>4. AnswerOk(a)
  <2>1. LogOk(Read(h)) BY ReadOk
  <2>2. After(Messages(h), from) \in Seq(Message) BY <2>1, PartTypes DEF Messages
  <2>3. Read(h).last \in Int /\ Beginning <= Read(h).last BY <2>1, LogFacts
  <2> QED BY <1>3, <2>2, <2>3, OkOk
<1> HIDE DEF a
<1>5. ReqOk(Answered(a)) BY <1>4, AnsweredOk
<1>6. w.pc = "waiting" /\ DOMAIN w = Fields /\ \A f \in Fields \ {"pc"} : w[f] = req[c][f]
  BY <1>1 DEF Fields
<1> HIDE DEF w
<1>7. ReqOk(w) BY <1>1, <1>2, <1>3, <1>6 DEF ReqOk, Busy, Fields
<1>8. Mine(c) /\ req'[c] = IF from < Read(h).last THEN Answered(a) ELSE w BY <1>1, <1>2 DEF Mine
<1>9. ReqOk(req'[c]) BY <1>5, <1>7, <1>8
<1> QED BY <1>2, <1>3, <1>6, <1>8, <1>9 DEF a

LEMMA TimeoutMeans ==
    ASSUME Types, NEW c \in Requests, Timeout(c)
    PROVE  LET a == Ok(req[c].handle, <<>>, req[c].from, TRUE) IN
           /\ req[c].pc = "waiting" /\ req[c].handle \in Handles /\ req[c].from \in Int
           /\ Mine(c) /\ ReqOk(req'[c]) /\ req'[c] = Answered(a) /\ AnswerOk(a)
<1> DEFINE a == Ok(req[c].handle, <<>>, req[c].from, TRUE)
<1>1. ReqOk(req[c]) /\ DOMAIN req = Requests BY DEF Types, ReqsOk
<1>2. req[c].pc = "waiting" /\ req' = [req EXCEPT ![c] = Answered(a)] BY DEF Timeout, At
<1>3. req[c].handle \in Handles /\ req[c].from \in Int /\ Beginning <= req[c].from BY <1>1, <1>2 DEF ReqOk, Busy
<1>4. AnswerOk(a)
  <2>1. <<>> \in Seq(Message) BY EmptySeq
  <2> QED BY <1>3, <2>1, OkOk
<1> HIDE DEF a
<1>5. ReqOk(Answered(a)) BY <1>4, AnsweredOk
<1>6. Mine(c) /\ req'[c] = Answered(a) BY <1>1, <1>2 DEF Mine
<1> QED BY <1>2, <1>3, <1>4, <1>5, <1>6 DEF a

\* What a worker has in hand, and the message it makes of it.
LEMMA WorkFacts ==
    ASSUME Types, NodeInv, NEW w \in work
    PROVE  /\ w.lsn \in Nat /\ w.offset \in Int /\ w.todo \subseteq Handles /\ w = [lsn |-> w.lsn, offset |-> w.offset, todo |-> w.todo]
           /\ w.lsn \in DOMAIN wal /\ wal[w.lsn] \in Change /\ wal[w.lsn].row \in Rows
           /\ SnapshotEnd < w.offset /\ w.lsn < next
<1>1. w \in [lsn : Nat, offset : Int, todo : SUBSET Handles] BY DEF Types, NodeOk
<1>2. WorkFits(w) BY DEF NodeInv
<1>3. wal \in Seq(Change) /\ DOMAIN wal = 1 .. Len(wal) /\ Len(wal) \in Nat BY LenProperties DEF Types, OriginOk
<1>4. next \in Nat /\ next <= Len(wal) + 1 BY DEF Types, NodeOk
<1>5. w.lsn \in DOMAIN wal /\ w.lsn < next BY <1>1, <1>2, <1>3, <1>4 DEF WorkFits
<1>6. wal[w.lsn] \in Change BY <1>3, <1>5, ElementOfSeq
<1>7. wal[w.lsn].row \in Rows BY <1>6 DEF Change
<1>8. SnapshotEnd < w.offset BY <1>1, <1>2, SnapshotEndNat DEF WorkFits
<1> QED BY <1>1, <1>5, <1>6, <1>7, <1>8

LEMMA OneMessage ==
    ASSUME NEW m \in Message
    PROVE  <<m>> \in Seq(Message) /\ Len(<<m>>) = 1 /\ DOMAIN <<m>> = {1} /\ <<m>>[1] = m /\ <<m>> # <<>>
OBVIOUS

\* A worker either skips the handle or appends one message to its log.
LEMMA ApplyMeans ==
    ASSUME Types, NodeInv, NEW w \in work, NEW h \in w.todo, Apply(w, h)
    PROVE  /\ ReqsOk' /\ h \in Handles
           /\ work' = (work \ {w}) \cup IF w.todo \ {h} = {} THEN {} ELSE {[w EXCEPT !.todo = w.todo \ {h}]}
           /\ work' \subseteq [lsn : Nat, offset : Int, todo : SUBSET Handles]
           /\ \E m \in Message : LET l == Appended(Read(h), <<m>>) IN
                 /\ m.offset = w.offset /\ m.row = wal[w.lsn].row /\ Eff(m) = Seen(wal[w.lsn].new)
                 /\ NewOk(<<m>>) /\ LogOk(l) /\ log' = With(h, l)
                 /\ req' = [c \in Requests |-> Woken(req[c], h, l)]
                 /\ flawed' = flawed \cup Back(h) \cup IF Read(h).last < w.offset THEN {} ELSE {h}
<1>1. /\ w.lsn \in Nat /\ w.offset \in Int /\ w.todo \subseteq Handles
      /\ w.lsn \in DOMAIN wal /\ wal[w.lsn] \in Change /\ SnapshotEnd < w.offset
      /\ w = [lsn |-> w.lsn, offset |-> w.offset, todo |-> w.todo]
  BY WorkFacts
<1>2. h \in Handles BY <1>1
<1> DEFINE m == MessageFor(w, h)
           l == Appended(Read(h), <<m>>)
<1>3. m \in Message /\ m # None /\ m.offset = w.offset /\ m.row = wal[w.lsn].row /\ Eff(m) = Seen(wal[w.lsn].new)
  <2>1. DefinitionFor(h) \in {Orders, NoFilter} BY DEF DefinitionFor, Types, OriginOk
  <2>2. wal[w.lsn].old # wal[w.lsn].new BY <1>1 DEF Types, OriginOk
  <2> QED BY <1>1, <2>1, <2>2, ChangeMeans DEF MessageFor
<1>4. /\ work' = (work \ {w}) \cup IF w.todo \ {h} = {} THEN {} ELSE {[w EXCEPT !.todo = w.todo \ {h}]}
      /\ log' = With(h, l) /\ req' = [c \in Requests |-> Woken(req[c], h, l)]
      /\ flawed' = flawed \cup Back(h) \cup IF Read(h).last < w.offset THEN {} ELSE {h}
  BY <1>3 DEF Apply, AppendTo
<1> HIDE DEF m
<1>5. NewOk(<<m>>)
  <2>1. m.offset \in Int /\ 0 <= m.offset /\ m.offset # SnapshotEnd BY <1>1, <1>3, SnapshotEndNat
  <2> QED BY <1>3, <2>1, OneMessage DEF NewOk
<1>6. LogOk(l) BY <1>5, ReadOk, AppendedMeans
<1> HIDE DEF l
<1>7. ReqsOk'
  <2>1. ASSUME NEW c \in Requests PROVE ReqOk(req'[c])
    <3>1. ReqOk(req[c]) BY DEF Types, ReqsOk
    <3> QED BY <1>2, <1>4, <1>6, <3>1, WokenOk
  <2> QED BY <1>4, <2>1 DEF ReqsOk
<1>8. work' \subseteq [lsn : Nat, offset : Int, todo : SUBSET Handles]
  <2>1. [w EXCEPT !.todo = w.todo \ {h}] \in [lsn : Nat, offset : Int, todo : SUBSET Handles] BY <1>1
  <2>2. work \subseteq [lsn : Nat, offset : Int, todo : SUBSET Handles] BY DEF Types, NodeOk
  <2> QED BY <1>4, <2>1, <2>2
<1> QED BY <1>2, <1>3, <1>4, <1>5, <1>6, <1>7, <1>8 DEF l

\* Requests that are dismissed.
LEMMA DismissedOk ==
    ASSUME ReqsOk, NEW P, req' = [x \in Requests |-> IF x \in P THEN Answered(Failed) ELSE req[x]]
    PROVE  ReqsOk'
BY FailedOk, AnsweredOk DEF ReqsOk

\* The workers that exit with the log of h leave their other handles flawed.
Exits(h) ==
    /\ work' \subseteq work /\ flawed \subseteq flawed'
    /\ \A w \in work \ work' : w.todo \ {h} \subseteq flawed'
    /\ UNCHANGED <<table, wal, next, high, given>>

LEMMA DeletedMeans ==
    ASSUME Types, NEW h, Deleted(h)
    PROVE  /\ Exits(h)
           /\ ReqsOk' /\ \A x \in Requests : req'[x] = IF StopsWaiting(x, h) THEN Answered(Failed) ELSE req[x]
           /\ registry' = registry \ {h} /\ log' = [x \in DOMAIN log \ {h} |-> log[x]] /\ gone' = gone \cup {h}
<1>1. /\ req' = [x \in Requests |-> IF StopsWaiting(x, h) THEN Answered(Failed) ELSE req[x]]
      /\ registry' = registry \ {h} /\ log' = [x \in DOMAIN log \ {h} |-> log[x]] /\ gone' = gone \cup {h}
  BY DEF Deleted, DeleteShape
<1> DEFINE P == {x \in Requests : StopsWaiting(x, h)}
<1>2. req' = [x \in Requests |-> IF x \in P THEN Answered(Failed) ELSE req[x]] BY <1>1
<1> HIDE DEF P
<1>3. ReqsOk' BY <1>2, DismissedOk DEF Types
<1>4. Exits(h) BY DEF Deleted, DeleteShape, Exits, origin
<1> QED BY <1>1, <1>3, <1>4

LEMMA SnapshotFailsMeans ==
    ASSUME Types, NEW c \in Requests, SnapshotFails(c)
    PROVE  LET h == req[c].handle IN
           /\ Exits(h)
           /\ ReqsOk' /\ \A x \in Requests : req'[x] = IF x = c \/ StopsWaiting(x, h) THEN Answered(Failed) ELSE req[x]
           /\ registry' = registry \ {h} /\ log' = [x \in DOMAIN log \ {h} |-> log[x]] /\ gone' = gone \cup {h}
<1> DEFINE h == req[c].handle
           P == {x \in Requests : x = c \/ StopsWaiting(x, h)}
<1>1. /\ req' = [x \in Requests |-> IF x = c \/ StopsWaiting(x, h) THEN Answered(Failed) ELSE req[x]]
      /\ registry' = registry \ {h} /\ log' = [x \in DOMAIN log \ {h} |-> log[x]] /\ gone' = gone \cup {h}
  BY DEF SnapshotFails, DeleteShape
<1>2. req' = [x \in Requests |-> IF x \in P THEN Answered(Failed) ELSE req[x]] BY <1>1
<1> HIDE DEF P
<1>3. ReqsOk' BY <1>2, DismissedOk DEF Types
<1>4. Exits(h)
  <2> HIDE DEF h
  <2>1. DeleteShape(h) /\ UNCHANGED <<origin, next, high, given>> BY DEF SnapshotFails, h
  <2> QED BY <2>1 DEF DeleteShape, Exits, origin
<1> QED BY <1>1, <1>3, <1>4

LEMMA RestartMeans ==
    ASSUME Types, Restart
    PROVE  /\ ReqsOk'
           /\ \A c \in Requests : req'[c] = IF req[c].pc \in {"idle", "answered"} THEN req[c] ELSE Answered(Failed)
           /\ next' \in 1 .. next
           /\ \A w \in work : \A h \in w.todo : h \notin flawed' => next' <= w.lsn
           /\ work' = {} /\ registry' = {}
           /\ log' = [h \in {x \in DOMAIN log : log[x] # EmptyLog} |-> log[h]]
           /\ flawed' = flawed \cup {h \in DOMAIN log : Snapshotting(h) # {}} \cup Passed(next')
<1> DEFINE P == {c \in Requests : req[c].pc \notin {"idle", "answered"}}
<1>1. /\ req' = [c \in Requests |-> IF req[c].pc \in {"idle", "answered"} THEN req[c] ELSE Answered(Failed)]
      /\ next' \in 1 .. next
      /\ work' = {} /\ registry' = {}
      /\ log' = [h \in {x \in DOMAIN log : log[x] # EmptyLog} |-> log[h]]
      /\ flawed' = flawed \cup {h \in DOMAIN log : Snapshotting(h) # {}} \cup Passed(next')
  BY DEF Restart
<1>2. req' = [c \in Requests |-> IF c \in P THEN Answered(Failed) ELSE req[c]] BY <1>1
<1> HIDE DEF P
<1>3. ReqsOk' BY <1>2, DismissedOk DEF Types
<1>4. ASSUME NEW h, NEW w \in work, h \in w.todo, h \notin flawed' PROVE next' <= w.lsn
  <2>1. ~(w.lsn < next') BY <1>1, <1>4 DEF Passed
  <2>2. w.lsn \in Nat /\ next \in Nat BY DEF Types, NodeOk
  <2> QED BY <1>1, <2>1, <2>2
<1> QED BY <1>1, <1>3, <1>4

\* A write puts one change behind the WAL.
LEMMA WriteMeans ==
    ASSUME Types, NEW r \in Rows, NEW content \in Contents \cup {None}, Write(r, content)
    PROVE  /\ OriginOk' /\ DOMAIN wal = 1 .. Len(wal) /\ Len(wal) \in Nat
           /\ Len(wal') = Len(wal) + 1 /\ DOMAIN wal' = 1 .. Len(wal) + 1
           /\ \A n \in DOMAIN wal : wal'[n] = wal[n]
           /\ wal'[Len(wal) + 1].row = r /\ table'[r] = content /\ \A q \in Rows : q # r => table'[q] = table[q]
<1> DEFINE change == [row |-> r, old |-> table[r], new |-> content]
           n == Len(wal) + 1
<1>1. /\ table[r] # content /\ table' = [table EXCEPT ![r] = content] /\ wal' = Append(wal, change) /\ shape' = shape
  BY DEF Write
<1>2. /\ table \in Tables /\ wal \in Seq(Change) /\ shape = Orders
      /\ \A k \in DOMAIN wal : wal[k].old # wal[k].new
      /\ \A q \in Rows, k \in DOMAIN wal : Newest(k, q) => wal[k].new = table[q]
  BY DEF Types, OriginOk
<1>3. change \in Change BY <1>2 DEF Change, Tables
<1> HIDE DEF change
<1>4. /\ wal' \in Seq(Change) /\ Len(wal') = n /\ Len(wal) \in Nat /\ DOMAIN wal = 1 .. Len(wal) /\ DOMAIN wal' = 1 .. n
      /\ \A k \in DOMAIN wal : wal'[k] = wal[k]
      /\ wal'[n] = change
  <2>1. Len(wal) \in Nat /\ DOMAIN wal = 1 .. Len(wal) BY <1>2, LenProperties
  <2>2. wal' \in Seq(Change) /\ Len(wal') = n BY <1>1, <1>2, <1>3
  <2>3. DOMAIN wal' = 1 .. n BY <2>2, LenProperties
  <2>4. \A k \in 1 .. Len(wal) : wal'[k] = wal[k] BY <1>1, <1>2, <1>3, <2>1
  <2>5. wal'[n] = change BY <1>1, <1>2, <1>3, <2>1
  <2> QED BY <2>1, <2>2, <2>3, <2>4, <2>5
<1>5. table' \in Tables /\ table'[r] = content /\ \A q \in Rows : q # r => table'[q] = table[q]
  BY <1>1, <1>2 DEF Tables
<1>6. change.row = r /\ change.old # change.new /\ change.new = content BY <1>1 DEF change
<1>7. \A k \in DOMAIN wal' : wal'[k].old # wal'[k].new
  <2>1. \A k \in 1 .. n : k \in 1 .. Len(wal) \/ k = n BY <1>4
  <2> QED BY <1>2, <1>4, <1>6, <2>1
<1>8. ASSUME NEW q \in Rows, NEW k \in DOMAIN wal', Newest(k, q)' PROVE wal'[k].new = table'[q]
  <2>1. /\ k \in 1 .. n /\ wal'[k].row = q /\ \A m \in 1 .. n : k < m => wal'[m].row # q
    BY <1>4, <1>8 DEF Newest
  <2>2. CASE k = n
    <3>1. q = r BY <1>4, <1>6, <2>1, <2>2
    <3> QED BY <1>4, <1>5, <1>6, <2>2, <3>1
  <2>3. CASE k # n
    <3>1. k \in 1 .. Len(wal) /\ k < n BY <1>4, <2>1, <2>3
    <3>2. q # r BY <1>4, <1>6, <2>1, <3>1
    <3>3. Newest(k, q) BY <1>4, <2>1, <3>1 DEF Newest
    <3>4. wal[k].new = table[q] BY <1>2, <1>4, <3>1, <3>3
    <3> QED BY <1>4, <1>5, <3>1, <3>2, <3>4
  <2> QED BY <2>2, <2>3
<1>9. OriginOk'
  <2>1. shape' = Orders' BY <1>1, <1>2 DEF Orders, NoFilter
  <2> QED BY <1>4, <1>5, <1>7, <1>8, <2>1 DEF OriginOk
<1> QED BY <1>4, <1>5, <1>6, <1>9

\* What the client does to its requests.
LEMMA AskMeans ==
    ASSUME Types, ClientOk, StreamFits, Ask(Sync)
    PROVE  /\ stream[Sync] # None /\ batch[Sync] = None /\ stream[Sync].request = None
           /\ \E c \in Requests :
                 /\ req[c].pc = "idle" /\ Mine(c) /\ ReqOk(req'[c])
                 /\ stream' = [stream EXCEPT ![Sync].request = c]
                 /\ req'[c].pc = (IF stream[Sync].offset = Beginning THEN "ensure" ELSE "resume")
                 /\ req'[c].handle = stream[Sync].handle /\ req'[c].from = stream[Sync].offset
                 /\ req'[c].live = stream[Sync].upToDate
<1> DEFINE s == stream[Sync]
           free == {r \in Requests : At(r, "idle")}
           c == CHOOSE x \in free : TRUE
           pc == IF s.offset = Beginning THEN "ensure" ELSE "resume"
           q == [Idle EXCEPT !.pc = pc, !.handle = s.handle, !.from = s.offset, !.live = s.upToDate]
<1>1. /\ s # None /\ batch[Sync] = None /\ s.request = None
      /\ free # {} /\ req' = [req EXCEPT ![c] = q]
      /\ stream' = [stream EXCEPT ![Sync].request = c]
  BY DEF Ask, Pending, Submit
<1>2. c \in Requests /\ req[c].pc = "idle"
  <2>1. c \in free BY <1>1
  <2> HIDE DEF c
  <2> QED BY <2>1 DEF At
<1>3. StreamOk(s) BY <1>1 DEF StreamFits
<1>4. /\ q.pc = pc /\ q.handle = s.handle /\ q.from = s.offset /\ q.live = s.upToDate /\ DOMAIN q = Fields
      /\ q.page = 0 /\ q.count = 0 /\ q.base = None
  <2> HIDE DEF pc, s
  <2> QED BY DEF Idle, Fields
<1>5. pc \in {"ensure", "resume"} /\ (pc = "ensure" <=> s.offset = Beginning) OBVIOUS
<1> HIDE DEF q, pc, c, s
<1>6. ReqOk(q) BY <1>3, <1>4, <1>5 DEF ReqOk, StreamOk, Busy, Beginning
<1>7. Mine(c) /\ req'[c] = q BY <1>1, <1>2 DEF Mine, Types, ReqsOk
<1>8. q.pc = IF s.offset = Beginning THEN "ensure" ELSE "resume" BY <1>4 DEF pc
<1> QED BY <1>1, <1>2, <1>4, <1>6, <1>7, <1>8 DEF s

LEMMA TakeMeans ==
    ASSUME Types, ClientOk, StreamFits, Take(Sync)
    PROVE  LET s == stream[Sync]
               c == s.request
               a == req[c].answer
           IN /\ s # None /\ c \in Requests /\ req[c].pc = "answered" /\ AnswerOk(a) /\ batch[Sync] = None
              /\ Mine(c) /\ req'[c] = Idle
              /\ stream' = [stream EXCEPT ![Sync] = Moved(s, a)]
              /\ batch' = [batch EXCEPT ![Sync] = Batch(a)]
<1> DEFINE s == stream[Sync]
           c == s.request
           a == req[c].answer
<1>1. /\ s # None /\ c # None /\ req[c].pc = "answered"
      /\ req' = [req EXCEPT ![c] = Idle]
      /\ stream' = [stream EXCEPT ![Sync] = Moved(s, a)]
      /\ batch' = [batch EXCEPT ![Sync] = Batch(a)]
  BY DEF Take, Pending, At
<1>2. c \in Requests BY <1>1 DEF StreamFits, StreamOk
<1>3. AnswerOk(a) BY <1>1, <1>2 DEF Types, ReqsOk, ReqOk
<1>4. batch[Sync] = None BY <1>1 DEF StreamFits, BatchFits
<1>5. Mine(c) /\ req'[c] = Idle
  <2> HIDE DEF c
  <2> QED BY <1>1, <1>2 DEF Mine, Types, ReqsOk
<1> QED BY <1>1, <1>2, <1>3, <1>4, <1>5

\* Requests are given up, or go on as they are.
Freed(x) == req'[x] = req[x] \/ (req'[x] = Idle /\ req[x].pc \in {"await", "waiting", "answered"})

LEMMA DroppedMeans ==
    ASSUME Types, NEW c, req' = Dropped(c)
    PROVE  ReqsOk' /\ \A x \in Requests : Freed(x)
<1>1. /\ DOMAIN req' = Requests
      /\ \A x \in Requests : req'[x] = req[x] \/ (req'[x] = Idle /\ req[x].pc \in {"waiting", "answered"})
  BY DEF Dropped, Types, ReqsOk
<1>2. ReqsOk' BY <1>1, IdleOk DEF Types, ReqsOk
<1> QED BY <1>1, <1>2 DEF Freed

LEMMA AbandonedMeans ==
    ASSUME Types, NEW r \in Requests, Abandoned(r)
    PROVE  ReqsOk' /\ \A x \in Requests : Freed(x)
<1>1. /\ DOMAIN req' = Requests
      /\ \A x \in Requests : req'[x] = req[x] \/ (req'[x] = Idle /\ req[x].pc \in {"await", "waiting", "answered"})
  BY DEF Abandoned, Types, ReqsOk
<1>2. ReqsOk' BY <1>1, IdleOk DEF Types, ReqsOk
<1> QED BY <1>1, <1>2 DEF Freed

\* The WAL hands the next change to a worker for every registered handle.
LEMMA ReceiveMeans ==
    ASSUME Types, Receive
    PROVE  /\ next \in DOMAIN wal /\ next' = next + 1 /\ flawed' = flawed \cup (DOMAIN log \ registry)
           /\ \E w : /\ w.lsn = next /\ w.todo = registry /\ w \in [lsn : Nat, offset : Int, todo : SUBSET Handles]
                     /\ SnapshotEnd + 3 * next - 1 <= w.offset /\ w.offset <= SnapshotEnd + 3 * next + 1
                     /\ work' = IF registry = {} THEN work ELSE work \cup {w}
<1>1. /\ next <= Len(wal) /\ next' = next + 1 /\ flawed' = flawed \cup (DOMAIN log \ registry)
      /\ \E offset \in ChangeOffsets(next) :
            work' = IF registry = {} THEN work ELSE work \cup {[lsn |-> next, offset |-> offset, todo |-> registry]}
  BY DEF Receive, Unregistered
<1>2. PICK offset \in ChangeOffsets(next) :
            work' = IF registry = {} THEN work ELSE work \cup {[lsn |-> next, offset |-> offset, todo |-> registry]}
  BY <1>1
<1>3. next \in Nat \ {0} /\ registry \subseteq Handles BY DEF Types, NodeOk
<1>4. next \in DOMAIN wal
  <2>1. wal \in Seq(Change) BY DEF Types, OriginOk
  <2> QED BY <1>1, <1>3, <2>1, LenProperties
<1>5. offset \in Int /\ SnapshotEnd + 3 * next - 1 <= offset /\ offset <= SnapshotEnd + 3 * next + 1
  <2>1. PICK k \in {-1, 0, 1} : offset = SnapshotEnd + 3 * next + k BY DEF ChangeOffsets
  <2> QED BY <1>3, <2>1, SnapshotEndNat
<1> DEFINE w == [lsn |-> next, offset |-> offset, todo |-> registry]
<1>6. w.lsn = next /\ w.todo = registry /\ w.offset = offset /\ w \in [lsn : Nat, offset : Int, todo : SUBSET Handles]
  BY <1>3, <1>5
<1> QED BY <1>1, <1>2, <1>4, <1>5, <1>6

LEMMA CoalesceMeans ==
    ASSUME Types, Coalesce
    PROVE  next \in DOMAIN wal /\ next' = next + 1 /\ flawed' = flawed \cup registry \cup (DOMAIN log \ registry)
<1>1. next <= Len(wal) /\ next' = next + 1 /\ flawed' = flawed \cup registry \cup (DOMAIN log \ registry)
  BY DEF Coalesce, Unregistered
<1>2. next \in Nat \ {0} /\ wal \in Seq(Change) BY DEF Types, NodeOk, OriginOk
<1> QED BY <1>1, <1>2, LenProperties

(***************************************************************************)
(* The types.                                                              *)
(***************************************************************************)
\* Steps that leave the table, or the node, alone.
LEMMA SameOrigin ==
    ASSUME Types, UNCHANGED origin
    PROVE  OriginOk' /\ shape' = shape /\ table' = table /\ wal' = wal
<1>1. shape' = shape /\ table' = table /\ wal' = wal BY DEF origin
<1>2. OriginOk BY DEF Types
<1>3. \A r, n : Newest(n, r)' <=> Newest(n, r) BY <1>1 DEF Newest
<1>4. Orders' = Orders BY DEF Orders, NoFilter
<1> QED BY <1>1, <1>2, <1>3, <1>4 DEF OriginOk

LEMMA SameNode ==
    ASSUME Types, UNCHANGED <<wal, next, work, registry, log, given>>
    PROVE  NodeOk'
BY DEF Types, NodeOk

LEMMA RegistersOk ==
    ASSUME Types, NEW h \in Handles, Registers(h), UNCHANGED <<wal, next, work, log>>, given' \in Nat, given' <= MaxHandles
    PROVE  NodeOk'
BY DEF Types, NodeOk, Registers

LEMMA WithMeans ==
    ASSUME NEW h, NEW l, log' = With(h, l)
    PROVE  /\ DOMAIN log' = DOMAIN log \cup {h} /\ Read(h)' = l
           /\ \A x : x # h => Read(x)' = Read(x)
<1>1. DOMAIN log' = DOMAIN log \cup {h} /\ log'[h] = l /\ \A x \in DOMAIN log : x # h => log'[x] = log[x]
  BY DEF With
<1>2. EmptyLog' = EmptyLog BY DEF EmptyLog, Beginning
<1>3. Read(h)' = l BY <1>1 DEF Read
<1>4. ASSUME NEW x, x # h PROVE Read(x)' = Read(x)
  <2>1. x \in DOMAIN log' <=> x \in DOMAIN log BY <1>1, <1>4
  <2> QED BY <1>1, <1>2, <1>4, <2>1 DEF Read
<1> QED BY <1>1, <1>3, <1>4

\* Every step keeps the types.
LEMMA FetchesTypes ==
    ASSUME Types, NEW c \in Requests, Fetches(c)
    PROVE  Types'
<1>1. UNCHANGED <<origin, stream_, shapes, given, gone>> /\ Mine(c) /\ ReqOk(req'[c]) BY FetchesMeans
<1>2. OriginOk' BY <1>1, SameOrigin
<1>3. ReqsOk' BY <1>1, MineOk DEF Types
<1>4. NodeOk' BY <1>1, SameOrigin, SameNode DEF stream_, shapes
<1> QED BY <1>2, <1>3, <1>4 DEF Types

LEMMA ReadingTypes ==
    ASSUME Types, NodeInv, NEW c \in Requests, Reading(c)
    PROVE  Types'
<1> USE DEF stream_, shapes, serverVars, ghosts
<1>1. CASE Ensure(c)
  <2>1. OriginOk' BY <1>1, SameOrigin DEF Ensure
  <2>2. Mine(c) /\ ReqOk(req'[c]) /\ given' \in Nat /\ given' <= MaxHandles BY <1>1, EnsureMeans
  <2>3. ReqsOk' BY <2>2, MineOk DEF Types
  <2>4. UNCHANGED <<wal, next, work, registry, log>> BY <1>1, SameOrigin DEF Ensure
  <2>5. NodeOk' BY <2>2, <2>4 DEF Types, NodeOk
  <2> QED BY <2>1, <2>3, <2>5 DEF Types
<1>2. CASE StartSnapshot(c) \/ Rejoin(c)
  <2>1. OriginOk' BY <1>2, SameOrigin DEF StartSnapshot, Rejoin
  <2>2. req[c].handle \in Handles BY <1>2 DEF StartSnapshot, Rejoin, At, Types, ReqsOk, ReqOk, Busy
  <2>3. Mine(c) /\ ReqOk(req'[c])
    <3>1. CASE StartSnapshot(c) BY <2>2, <3>1, GotoOk DEF StartSnapshot, At
    <3>2. CASE Rejoin(c) BY <2>2, <3>2, GotoOk DEF Rejoin, At
    <3> QED BY <1>2, <3>1, <3>2
  <2>4. ReqsOk' BY <2>3, MineOk DEF Types
  <2>5. Registers(req[c].handle) /\ UNCHANGED <<wal, next, work, log, given>>
    BY <1>2, SameOrigin DEF StartSnapshot, Rejoin
  <2>6. NodeOk' BY <2>2, <2>5, RegistersOk DEF Types, NodeOk
  <2> QED BY <2>1, <2>4, <2>6 DEF Types
<1>3. CASE FetchPage(c) BY <1>3, FetchesTypes DEF Fetches
<1>4. CASE AppendPage(c)
  <2>1. OriginOk' BY <1>4, SameOrigin DEF AppendPage
  <2>2. ReqsOk'
    <3>1. DOMAIN req' = Requests /\ ReqOk(req'[c]) /\ \A x \in Requests : x # c => ReqOk(req'[x])
      BY <1>4, AppendPageMeans
    <3> QED BY <3>1 DEF ReqsOk
  <2>3. NodeOk'
    <3> DEFINE h == req[c].handle
               l == Appended(Read(h), SnapshotMessages(c))
    <3>1. h \in Handles /\ (log' = log \/ log' = With(h, l)) BY <1>4, AppendPageMeans
    <3> HIDE DEF h, l
    <3>2. DOMAIN log' \subseteq DOMAIN log \cup {h} BY <3>1, WithMeans
    <3>3. UNCHANGED <<wal, next, work, registry, given>> BY <1>4, SameOrigin DEF AppendPage
    <3> QED BY <3>1, <3>2, <3>3 DEF Types, NodeOk
  <2> QED BY <2>1, <2>2, <2>3 DEF Types
<1>5. CASE Settle(c)
  <2>1. OriginOk' BY <1>5, SameOrigin DEF Settle
  <2>2. ReqsOk' BY <1>5, SettleMeans, MineOk DEF Types
  <2>3. NodeOk' BY <1>5, SameOrigin, SameNode DEF Settle
  <2> QED BY <2>1, <2>2, <2>3 DEF Types
<1>6. CASE Resume(c)
  <2>1. OriginOk' BY <1>6, SameOrigin DEF Resume
  <2>2. Mine(c) /\ ReqOk(req'[c]) /\ given' \in Nat /\ given' <= MaxHandles /\ req[c].handle \in Handles BY <1>6, ResumeMeans
  <2>3. ReqsOk' BY <2>2, MineOk DEF Types
  <2>4. Registers(req[c].handle) /\ UNCHANGED <<wal, next, work, log>> BY <1>6, SameOrigin DEF Resume
  <2>5. NodeOk' BY <2>2, <2>4, RegistersOk
  <2> QED BY <2>1, <2>3, <2>5 DEF Types
<1>7. CASE ReadLog(c)
  <2>1. OriginOk' BY <1>7, SameOrigin DEF ReadLog
  <2>2. Mine(c) /\ ReqOk(req'[c]) /\ given' \in Nat /\ given' <= MaxHandles BY <1>7, ReadLogMeans
  <2>3. ReqsOk' BY <2>2, MineOk DEF Types
  <2>4. UNCHANGED <<wal, next, work, registry, log>> BY <1>7, SameOrigin DEF ReadLog
  <2>5. NodeOk' BY <2>2, <2>4 DEF Types, NodeOk
  <2> QED BY <2>1, <2>3, <2>5 DEF Types
<1>8. CASE AwaitLog(c)
  <2>1. OriginOk' BY <1>8, SameOrigin DEF AwaitLog
  <2>2. Mine(c) /\ ReqOk(req'[c]) /\ req[c].handle \in Handles /\ log' = With(req[c].handle, Read(req[c].handle))
    BY <1>8, AwaitLogMeans
  <2>3. ReqsOk' BY <2>2, MineOk DEF Types
  <2>4. UNCHANGED <<wal, next, work, registry, given>> BY <1>8, SameOrigin DEF AwaitLog
  <2>5. DOMAIN log' = DOMAIN log \cup {req[c].handle} BY <2>2, WithMeans
  <2>6. NodeOk' BY <2>2, <2>4, <2>5 DEF Types, NodeOk
  <2> QED BY <2>1, <2>3, <2>6 DEF Types
<1> QED BY <1>1, <1>2, <1>3, <1>4, <1>5, <1>6, <1>7, <1>8 DEF Reading

LEMMA ServerTypes ==
    ASSUME Types, NodeInv, WriteStep \/ ServerStep
    PROVE  Types'
<1> USE DEF stream_, shapes, serverVars, ghosts
<1>1. CASE WriteStep
  <2>1. PICK r \in Rows : \E content \in Contents \cup {None} : Write(r, content) BY <1>1 DEF WriteStep
  <2>2. PICK content \in Contents \cup {None} : Write(r, content) BY <2>1
  <2>3. OriginOk' /\ Len(wal') = Len(wal) + 1 /\ Len(wal) \in Nat BY <2>2, WriteMeans
  <2>4. UNCHANGED <<next, work, registry, log, given, req>> BY <2>2 DEF Write
  <2>5. ReqsOk' BY <2>4 DEF Types, ReqsOk
  <2>6. NodeOk' BY <2>3, <2>4 DEF Types, NodeOk
  <2> QED BY <2>3, <2>5, <2>6 DEF Types
<1>2. CASE Receive
  <2>1. OriginOk' BY <1>2, SameOrigin DEF Receive
  <2>2. UNCHANGED <<wal, registry, log, given, req>> BY <1>2, SameOrigin DEF Receive
  <2>3. ReqsOk' BY <2>2 DEF Types, ReqsOk
  <2>4. next \in DOMAIN wal /\ next' = next + 1 BY <1>2, ReceiveMeans
  <2>5. PICK w : w \in [lsn : Nat, offset : Int, todo : SUBSET Handles] /\ work' = IF registry = {} THEN work ELSE work \cup {w}
    BY <1>2, ReceiveMeans
  <2>6. next' <= Len(wal) + 1 /\ next' \in Nat \ {0}
    <3>1. wal \in Seq(Change) /\ next \in Nat BY DEF Types, OriginOk, NodeOk
    <3>2. next <= Len(wal) /\ Len(wal) \in Nat BY <2>4, <3>1, LenProperties
    <3> QED BY <2>4, <3>1, <3>2
  <2>7. work' \subseteq [lsn : Nat, offset : Int, todo : SUBSET Handles] BY <2>5 DEF Types, NodeOk
  <2>8. NodeOk' BY <2>2, <2>6, <2>7 DEF Types, NodeOk
  <2> QED BY <2>1, <2>3, <2>8 DEF Types
<1>3. CASE Coalesce
  <2>1. OriginOk' BY <1>3, SameOrigin DEF Coalesce
  <2>2. UNCHANGED <<wal, work, registry, log, given, req>> BY <1>3, SameOrigin DEF Coalesce
  <2>3. ReqsOk' BY <2>2 DEF Types, ReqsOk
  <2>4. next' <= Len(wal) + 1 /\ next' \in Nat \ {0}
    <3>1. wal \in Seq(Change) /\ next \in Nat BY DEF Types, OriginOk, NodeOk
    <3>2. next \in DOMAIN wal /\ next' = next + 1 BY <1>3, CoalesceMeans
    <3>3. next <= Len(wal) /\ Len(wal) \in Nat BY <3>1, <3>2, LenProperties
    <3> QED BY <3>1, <3>2, <3>3
  <2>5. NodeOk' BY <2>2, <2>4 DEF Types, NodeOk
  <2> QED BY <2>1, <2>3, <2>5 DEF Types
<1>4. CASE ApplyStep
  <2>1. PICK w \in work : \E h \in w.todo : Apply(w, h) BY <1>4 DEF ApplyStep
  <2>2. PICK h \in w.todo : Apply(w, h) BY <2>1
  <2>3. OriginOk' /\ UNCHANGED <<wal, next, registry, given>> BY <2>2, SameOrigin DEF Apply
  <2>4. ReqsOk' /\ h \in Handles /\ work' \subseteq [lsn : Nat, offset : Int, todo : SUBSET Handles] BY <2>2, ApplyMeans
  <2>5. DOMAIN log' \subseteq DOMAIN log \cup {h}
    <3>1. \E l : log' = With(h, l) BY <2>2, ApplyMeans
    <3> QED BY <3>1, WithMeans
  <2>6. NodeOk' BY <2>3, <2>4, <2>5 DEF Types, NodeOk
  <2> QED BY <2>3, <2>4, <2>6 DEF Types
<1>5. ASSUME NEW c \in Requests, Timeout(c) PROVE Types'
  <2>1. OriginOk' BY <1>5, SameOrigin DEF Timeout
  <2>2. ReqsOk' BY <1>5, TimeoutMeans, MineOk DEF Types
  <2>3. NodeOk' BY <1>5, SameOrigin, SameNode DEF Timeout
  <2> QED BY <2>1, <2>2, <2>3 DEF Types
<1>6. ASSUME NEW h, ReqsOk', registry' = registry \ {h}, log' = [x \in DOMAIN log \ {h} |-> log[x]],
             UNCHANGED <<origin, next, given>>, work' \subseteq work
      PROVE Types'
  <2>1. OriginOk' /\ wal' = wal BY <1>6, SameOrigin
  <2>2. registry' \subseteq registry /\ DOMAIN log' \subseteq DOMAIN log BY <1>6
  <2>3. NodeOk' BY <1>6, <2>1, <2>2 DEF Types, NodeOk
  <2> QED BY <1>6, <2>1, <2>3 DEF Types
<1>7. ASSUME NEW c \in Requests, SnapshotFails(c) PROVE Types'
  BY <1>6, <1>7, SnapshotFailsMeans DEF SnapshotFails, Exits
<1>8. ASSUME NEW h \in Handles, Delete(h) PROVE Types'
  <2>1. Deleted(h) BY <1>8 DEF Delete
  <2> QED BY <1>6, <2>1, DeletedMeans DEF Deleted, Exits
<1>9. CASE Restart
  <2>1. OriginOk' /\ UNCHANGED <<wal, given>> BY <1>9, SameOrigin DEF Restart
  <2>2. ReqsOk' /\ next' \in 1 .. next /\ work' = {} /\ registry' = {} BY <1>9, RestartMeans
  <2>3. DOMAIN log' \subseteq DOMAIN log BY <1>9, RestartMeans
  <2>4. NodeOk' BY <2>1, <2>2, <2>3 DEF Types, NodeOk
  <2> QED BY <2>1, <2>2, <2>4 DEF Types
<1>10. ASSUME NEW c \in Requests, Reading(c) PROVE Types' BY <1>10, ReadingTypes
<1>11. ASSUME NEW c \in Requests, FetchReplica(c) PROVE Types' BY <1>11, FetchesTypes DEF Fetches
<1> QED BY <1>11, <1>1, <1>2, <1>3, <1>4, <1>5, <1>7, <1>8, <1>9, <1>10 DEF ServerStep

LEMMA OnlyRequests ==
    ASSUME Types, ReqsOk', UNCHANGED <<origin, stream_, shapes, given>>
    PROVE  Types'
BY SameOrigin, SameNode DEF Types, stream_, shapes

LEMMA TypesKept ==
    ASSUME ReplicaInv, Next
    PROVE  Types'
<1> USE DEF ReplicaInv
<1>1. CASE (WriteStep \/ ServerStep) /\ UNCHANGED <<streamVars, file>> BY <1>1, ServerTypes
<1>2. CASE Ask(Sync)
  <2>1. ReqsOk' BY <1>2, AskMeans, MineOk DEF Types
  <2> QED BY <1>2, <2>1, OnlyRequests DEF Ask
<1>3. CASE Take(Sync)
  <2>1. ReqsOk' BY <1>3, TakeMeans, MineOk, IdleOk DEF Types
  <2> QED BY <1>3, <2>1, OnlyRequests DEF Take
<1>4. CASE Disconnect(Sync) BY <1>4, DroppedMeans, OnlyRequests DEF Disconnect
<1>5. ASSUME NEW r \in Requests, Abandoned(r) PROVE Types' BY <1>5, AbandonedMeans, OnlyRequests DEF Abandoned
<1>6. CASE UNCHANGED serverVars
  <2>1. UNCHANGED <<origin, stream_, shapes, given, req>> BY <1>6 DEF serverVars
  <2>2. ReqsOk' BY <2>1 DEF Types, ReqsOk
  <2> QED BY <2>1, <2>2, OnlyRequests
<1>7. CASE SyncStep BY <1>6, <1>7 DEF SyncStep, Clear, Commit, SaveCursor
<1>8. ASSUME NEW resume \in BOOLEAN, Start(resume) PROVE Types' BY <1>6, <1>8 DEF Start
<1>9. CASE Crash BY <1>9, DroppedMeans, OnlyRequests DEF Crash, Hangup
<1> QED BY <1>1, <1>2, <1>3, <1>4, <1>5, <1>7, <1>8, <1>9 DEF Next
=============================================================================
