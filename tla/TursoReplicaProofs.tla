------------------------- MODULE TursoReplicaProofs -------------------------
(***************************************************************************)
(* ReplicaInv is inductive, and with it the copy of the sync process is    *)
(* the table when it waits for more, and its cursor is safe to go on from. *)
(***************************************************************************)
EXTENDS TursoSyncProofs

(***************************************************************************)
(* What a step may do to what a log tells.                                 *)
(***************************************************************************)
\* What a step may never do to a log without the log being flawed.
Holds(h) ==
    /\ Good(h) /\ LogOk(Read(h)')
    /\ Read(h).cut <= (Read(h)').cut /\ Read(h).last <= (Read(h)').last
    /\ Messages(h) # <<>> => Messages(h)' # <<>>
    /\ \A r \in Rows, o \in Int : Has(h, r, o) /\ (Read(h)').cut <= o => Has(h, r, o)'

\* What happens to a row is told: on its way, put behind the log, or nothing has happened.
Tells(h, r) == \/ Coming(h, r)'
               \/ \E o \in Int : Read(h).last <= o /\ SnapshotEnd <= o /\ Has(h, r, o)'
               \/ ~Coming(h, r) /\ table'[r] = table[r]

\* A step keeps what a log tells, unless the handle goes bad.
Steady(h) == Good(h)' => Holds(h) /\ (h \in registry \cup DOMAIN log => \A r \in Rows : Tells(h, r))

\* A log that a step leaves alone.
LEMMA StillMeans ==
    ASSUME NEW h, Read(h)' = Read(h)
    PROVE  /\ Messages(h)' = Messages(h)
           /\ \A r, o : Has(h, r, o)' <=> Has(h, r, o)
           /\ \A o : NoRows(h, o)' <=> NoRows(h, o)
<1>1. Messages(h)' = Messages(h) BY DEF Messages
<1>2. SnapshotEnd' = SnapshotEnd BY DEF SnapshotEnd
<1> QED BY <1>1, <1>2 DEF Has, NoRows

LEMMA StillHolds ==
    ASSUME NodeInv, NEW h, Read(h)' = Read(h), Good(h)
    PROVE  Holds(h)
<1>1. LogOk(Read(h)) BY ReadOk
<1>2. Read(h).cut \in Int /\ Read(h).last \in Int BY <1>1, LogFacts
<1>3. Read(h).cut <= Read(h).cut /\ Read(h).last <= Read(h).last BY <1>2
<1>4. LogOk(Read(h)') BY <1>1
<1>5. /\ Messages(h)' = Messages(h) /\ \A r, o : Has(h, r, o)' <=> Has(h, r, o) BY StillMeans
<1>6. Read(h).cut <= (Read(h)').cut /\ Read(h).last <= (Read(h)').last BY <1>3
<1> QED BY <1>4, <1>5, <1>6 DEF Holds

LEMMA SameComing ==
    ASSUME UNCHANGED <<wal, next, work>>
    PROVE  \A h, r : Coming(h, r)' <=> Coming(h, r)
BY DEF Coming, Newest, Carried

LEMMA SameTells ==
    ASSUME UNCHANGED <<table, wal, next, work>>, NEW h
    PROVE  \A r \in Rows : Tells(h, r)
BY SameComing DEF Tells

\* What a log holds after an append that drops nothing above its new boundary.
LEMMA GrowMeans ==
    ASSUME NEW h, LogOk(Read(h)), NEW new, NewOk(new), Read(h)' = Appended(Read(h), new), Good(h),
           \A i \in 1 .. Excess(Read(h), new) : All(Read(h), new)[i].offset <= (Read(h)').cut
    PROVE  /\ Holds(h) /\ LogOk(Read(h)')
           /\ \A i \in DOMAIN new : (Read(h)').cut < new[i].offset => Has(h, new[i].row, new[i].offset - 1)'
<1> DEFINE l == Read(h)
           a == Appended(l, new)
           d == Excess(l, new)
           all == All(l, new)
<1>1. /\ LogOk(a) /\ l.last <= a.last /\ l.cut <= a.cut BY AppendedMeans
<1>2. /\ a.messages # <<>> /\ d \in Nat
      /\ \A i \in DOMAIN a.messages : i + d \in DOMAIN all /\ a.messages[i] = all[i + d]
      /\ \A i \in DOMAIN all : d < i => i - d \in DOMAIN a.messages
  BY ExcessMeans
<1>3. /\ DOMAIN all = 1 .. Len(all)
      /\ \A i \in DOMAIN l.messages : i \in DOMAIN all /\ all[i] = l.messages[i]
      /\ Len(l.messages) \in Nat /\ DOMAIN new = 1 .. Len(new)
      /\ \A i \in DOMAIN new : Len(l.messages) + i \in DOMAIN all /\ all[Len(l.messages) + i] = new[i]
  BY AllMeans
<1>4. Messages(h) = l.messages /\ Messages(h)' = a.messages BY DEF Messages
<1>5. \A i \in DOMAIN a.messages : a.messages[i].offset \in Int BY <1>1, LogFacts
<1>6. a.cut \in Int BY <1>1, LogFacts
<1>7. \A i \in 1 .. d : all[i].offset <= a.cut OBVIOUS
<1>8. \A i \in DOMAIN new : new[i] \in Message /\ new[i].offset \in Int
  <2>1. new \in Seq(Message) BY DEF NewOk
  <2>2. \A i \in DOMAIN new : new[i] \in Message BY <1>3, <2>1, ElementOfSeq
  <2> QED BY <2>2 DEF Message
<1>9. \A i \in DOMAIN l.messages : l.messages[i].offset \in Int BY LogFacts
<1> HIDE DEF a, d, all
<1>10. ASSUME NEW i \in DOMAIN all, NEW o \in Int, a.cut <= o, o < all[i].offset, all[i].offset \in Int
       PROVE  i - d \in DOMAIN a.messages /\ a.messages[i - d] = all[i]
  <2>1. d < i
    <3>1. i \in 1 .. Len(all) BY <1>3
    <3>2. SUFFICES ASSUME i <= d PROVE FALSE BY <1>2, <3>1
    <3>3. i \in 1 .. d BY <1>2, <3>1, <3>2
    <3>4. all[i].offset <= a.cut BY <1>7, <3>3
    <3> QED BY <1>6, <1>10, <3>4
  <2>2. i - d \in DOMAIN a.messages BY <1>2, <2>1
  <2>3. i - d + d = i
    <3>1. i \in Int BY <1>3
    <3> QED BY <1>2, <3>1
  <2> QED BY <1>2, <2>2, <2>3
<1>11. ASSUME NEW r \in Rows, NEW o \in Int, Has(h, r, o), a.cut <= o
       PROVE  Has(h, r, o)'
  <2>1. PICK i \in DOMAIN l.messages : l.messages[i].row = r /\ o < l.messages[i].offset BY <1>4, <1>11 DEF Has
  <2>2. i \in DOMAIN all /\ all[i] = l.messages[i] /\ all[i].offset \in Int BY <1>3, <1>9, <2>1
  <2>3. i - d \in DOMAIN a.messages /\ a.messages[i - d] = all[i] BY <1>10, <1>11, <2>1, <2>2
  <2> QED BY <1>4, <2>1, <2>2, <2>3 DEF Has
<1>12. ASSUME NEW i \in DOMAIN new, a.cut < new[i].offset
       PROVE  Has(h, new[i].row, new[i].offset - 1)'
  <2> DEFINE j == Len(l.messages) + i
             row == new[i].row
             offset == new[i].offset
  <2>1. j \in DOMAIN all /\ all[j] = new[i] BY <1>3
  <2>2. a.cut <= offset - 1 /\ offset - 1 < offset /\ offset - 1 \in Int BY <1>6, <1>8, <1>12
  <2> HIDE DEF j
  <2>3. j - d \in DOMAIN a.messages /\ a.messages[j - d] = all[j] BY <1>8, <1>10, <2>1, <2>2
  <2>4. \E k \in DOMAIN a.messages : a.messages[k].row = row /\ offset - 1 < a.messages[k].offset
    BY <2>1, <2>2, <2>3
  <2>5. new' = new OBVIOUS
  <2> QED BY <1>4, <2>4 DEF Has
<1>13. Messages(h) # <<>> => Messages(h)' # <<>> BY <1>2, <1>4
<1>14. Holds(h)
  <2>1. Read(h)' = a BY DEF a
  <2> QED BY <1>1, <1>11, <1>13, <2>1 DEF Holds
<1>15. Read(h)' = a BY DEF a
<1> QED BY <1>1, <1>12, <1>14, <1>15

\* The steps that change neither table, WAL nor the content of a log.
Calls(c) ==
    \/ Ensure(c) \/ StartSnapshot(c) \/ Rejoin(c) \/ Fetches(c) \/ Settle(c) \/ Resume(c) \/ ReadLog(c)
    \/ AwaitLog(c) \/ Timeout(c)

ClientStep ==
    \/ Ask(Sync) \/ Take(Sync) \/ Disconnect(Sync) \/ (\E r \in Requests : Abandoned(r)) \/ SyncStep
    \/ (\E resume \in BOOLEAN : Start(resume)) \/ Crash

Quiet ==
    /\ UNCHANGED <<table, wal, next, work, gone>>
    /\ \A h : Read(h)' = Read(h)
    /\ flawed \subseteq flawed' /\ registry \subseteq registry' /\ DOMAIN log \subseteq DOMAIN log'
    /\ \A h \in DOMAIN log' \ DOMAIN log : (h \in gone => h \in flawed') /\ (Good(h)' => h \in registry)

LEMMA SameReads ==
    ASSUME UNCHANGED log
    PROVE  \A h : Read(h)' = Read(h)
BY DEF Read, EmptyLog, Beginning

LEMMA CallsQuiet ==
    ASSUME ReplicaInv, NEW c \in Requests, Calls(c)
    PROVE  Quiet
<1> USE DEF ReplicaInv
<1>1. UNCHANGED <<table, wal, next, work, gone>> /\ flawed \subseteq flawed' /\ registry \subseteq registry'
  BY DEF Calls, Ensure, StartSnapshot, Rejoin, Fetches, FetchPage, FetchReplica, Settle, Resume, ReadLog, AwaitLog, Timeout, Registers,
         origin, stream_, shapes, ghosts, serverVars, Refetch
<1>2. CASE log' = log
  <2>1. \A h : Read(h)' = Read(h) BY <1>2, SameReads
  <2> QED BY <1>1, <1>2, <2>1 DEF Quiet
<1>3. CASE AwaitLog(c)
  <2>0. PICK h : h = req[c].handle OBVIOUS
  <2>1. log' = With(h, Read(h)) /\ flawed' = flawed \cup Gap(h, req[c].from) \cup Back(h) /\ req[c].pc = "await"
    BY <1>3, <2>0, AwaitLogMeans
  <2>2. ReqFits(c) BY DEF NodeInv
  <2>3. Good(h) => h \in registry BY <2>0, <2>1, <2>2 DEF ReqFits
  <2>4. DOMAIN log' = DOMAIN log \cup {h} /\ \A x : Read(x)' = Read(x) BY <2>1, WithMeans
  <2>5. h \in gone => h \in flawed' BY <2>1 DEF Back
  <2>6. Good(h)' => Good(h) BY <1>1 DEF Good
  <2> QED BY <1>1, <2>3, <2>4, <2>5, <2>6 DEF Quiet
<1>4. log' = log \/ AwaitLog(c)
  BY DEF Calls, Ensure, StartSnapshot, Rejoin, Fetches, FetchPage, FetchReplica, Settle, Resume, ReadLog, Timeout, shapes, serverVars
<1> QED BY <1>2, <1>3, <1>4

LEMMA ClientQuiet ==
    ASSUME ClientStep
    PROVE  Quiet /\ UNCHANGED <<log, registry, flawed, given>>
<1> USE DEF origin, stream_, shapes, ghosts, serverVars
<1>1. UNCHANGED <<table, wal, next, work, gone, flawed, registry, log, given>>
  <2>1. CASE Ask(Sync) BY <2>1 DEF Ask
  <2>2. CASE Take(Sync) BY <2>2 DEF Take
  <2>3. CASE Disconnect(Sync) BY <2>3 DEF Disconnect
  <2>4. CASE \E r \in Requests : Abandoned(r) BY <2>4 DEF Abandoned
  <2>5. CASE SyncStep BY <2>5 DEF SyncStep, Clear, Commit, SaveCursor
  <2>6. CASE \E resume \in BOOLEAN : Start(resume) BY <2>6 DEF Start
  <2>7. CASE Crash BY <2>7 DEF Crash
  <2> QED BY <2>1, <2>2, <2>3, <2>4, <2>5, <2>6, <2>7 DEF ClientStep
<1>2. \A h : Read(h)' = Read(h) BY <1>1, SameReads
<1> QED BY <1>1, <1>2 DEF Quiet

LEMMA QuietSteady ==
    ASSUME NodeInv, Quiet, NEW h
    PROVE  Steady(h)
<1>1. Good(h)' => Good(h) BY DEF Quiet, Good
<1>2. Read(h)' = Read(h) /\ UNCHANGED <<table, wal, next, work>> BY DEF Quiet
<1>3. Good(h) => Holds(h) BY <1>2, StillHolds
<1>4. \A r \in Rows : Tells(h, r) BY <1>2, SameTells
<1> QED BY <1>1, <1>3, <1>4 DEF Steady

\* The steps that do.
LEMMA WriteSteady ==
    ASSUME ReplicaInv, NEW r \in Rows, NEW content \in Contents \cup {None}, Write(r, content), NEW h
    PROVE  Steady(h) /\ Read(h)' = Read(h)
<1> USE DEF ReplicaInv
<1>1. UNCHANGED <<next, work, log, gone, registry>> /\ flawed \subseteq flawed'
  BY DEF Write, stream_, shapes
<1>2. Read(h)' = Read(h) BY <1>1, SameReads
<1>3. Good(h)' => Good(h) BY <1>1 DEF Good
<1>4. Good(h) => Holds(h) BY <1>2, StillHolds
<1>5. ASSUME NEW q \in Rows PROVE Tells(h, q)
  <2>1. /\ DOMAIN wal = 1 .. Len(wal) /\ Len(wal) \in Nat /\ DOMAIN wal' = 1 .. Len(wal) + 1
        /\ \A n \in DOMAIN wal : wal'[n] = wal[n]
        /\ wal'[Len(wal) + 1].row = r /\ \A x \in Rows : x # r => table'[x] = table[x]
    BY WriteMeans
  <2>2. next \in Nat /\ next <= Len(wal) + 1 BY DEF Types, NodeOk
  <2>3. CASE q = r
    <3> DEFINE n == Len(wal) + 1
    <3>1. n \in DOMAIN wal' /\ \A m \in DOMAIN wal' : ~(n < m) BY <2>1
    <3>2. next' <= n BY <1>1, <2>2
    <3>4. PICK k : k = n OBVIOUS
    <3>5. k \in DOMAIN wal' /\ next' <= k BY <3>1, <3>2, <3>4
    <3>6. Newest(k, r)' BY <2>1, <3>1, <3>4 DEF Newest
    <3>7. Coming(h, r)' BY <3>5, <3>6 DEF Coming, Carried
    <3> QED BY <2>3, <3>7 DEF Tells
  <2>4. CASE q # r
    <3>1. ASSUME Coming(h, q) PROVE Coming(h, q)'
      <4>1. PICK n \in DOMAIN wal : Newest(n, q) /\ Carried(h, n) BY <3>1 DEF Coming
      <4>2. n \in DOMAIN wal' BY <2>1
      <4>3. Newest(n, q)'
        <5>1. \A m \in DOMAIN wal' : n < m => wal'[m].row # q
          <6>1. ASSUME NEW m \in DOMAIN wal', n < m PROVE wal'[m].row # q
            <7>1. CASE m \in DOMAIN wal BY <2>1, <4>1, <6>1, <7>1 DEF Newest
            <7>2. CASE m \notin DOMAIN wal
              <8>1. m = Len(wal) + 1 BY <2>1, <6>1, <7>2
              <8> QED BY <2>1, <2>4, <8>1
            <7> QED BY <7>1, <7>2
          <6> QED BY <6>1
        <5> QED BY <2>1, <4>1, <4>2, <5>1 DEF Newest
      <4>4. Carried(h, n)' BY <1>1, <4>1 DEF Carried
      <4> QED BY <4>2, <4>3, <4>4 DEF Coming
    <3>2. table'[q] = table[q] BY <2>1, <2>4
    <3> QED BY <3>1, <3>2 DEF Tells
  <2> QED BY <2>3, <2>4
<1> QED BY <1>2, <1>3, <1>4, <1>5 DEF Steady

LEMMA ReceiveSteady ==
    ASSUME ReplicaInv, Receive, NEW h
    PROVE  Steady(h) /\ Read(h)' = Read(h)
<1> USE DEF ReplicaInv
<1>1. UNCHANGED <<table, wal, log, gone, registry>> BY DEF Receive, origin, shapes
<1>2. Read(h)' = Read(h) BY <1>1, SameReads
<1>3. next' = next + 1 /\ next \in Nat /\ flawed' = flawed \cup (DOMAIN log \ registry)
  BY ReceiveMeans DEF Types, NodeOk
<1>4. PICK w : w.lsn = next /\ w.todo = registry /\ work' = IF registry = {} THEN work ELSE work \cup {w}
  BY ReceiveMeans
<1>5. Good(h)' => Good(h) /\ (h \in registry \cup DOMAIN log => h \in registry) BY <1>1, <1>3 DEF Good
<1>6. Good(h) => Holds(h) BY <1>2, StillHolds
<1>7. ASSUME NEW q \in Rows, h \in registry PROVE Tells(h, q)
  <2>1. ASSUME Coming(h, q) PROVE Coming(h, q)'
    <3>1. PICK n \in DOMAIN wal : Newest(n, q) /\ Carried(h, n) BY <2>1 DEF Coming
    <3>2. Newest(n, q)' BY <1>1, <3>1 DEF Newest
    <3>3. n \in Nat
      <4>1. DOMAIN wal = 1 .. Len(wal) BY LenProperties DEF Types, OriginOk
      <4> QED BY <3>1, <4>1
    <3>4. Carried(h, n)'
      <4>1. work' = work \cup {w} BY <1>4, <1>7
      <4>2. next <= n => next = n \/ next' <= n BY <1>3, <3>3
      <4>3. CASE next = n
        <5>1. w \in work' /\ w.lsn = n /\ h \in w.todo BY <1>4, <1>7, <4>1, <4>3
        <5> QED BY <5>1 DEF Carried
      <4> QED BY <3>1, <4>1, <4>2, <4>3 DEF Carried
    <3> QED BY <1>1, <3>1, <3>2, <3>4 DEF Coming
  <2> QED BY <1>1, <2>1 DEF Tells
<1> QED BY <1>2, <1>5, <1>6, <1>7 DEF Steady

LEMMA CoalesceSteady ==
    ASSUME ReplicaInv, Coalesce, NEW h
    PROVE  Steady(h) /\ Read(h)' = Read(h) /\ (Good(h)' => h \notin registry \cup DOMAIN log)
<1> USE DEF ReplicaInv
<1>1. UNCHANGED <<log, gone>> BY DEF Coalesce, shapes
<1>2. Read(h)' = Read(h) BY <1>1, SameReads
<1>3. flawed' = flawed \cup registry \cup (DOMAIN log \ registry) BY CoalesceMeans
<1>4. Good(h)' => Good(h) /\ h \notin registry \cup DOMAIN log BY <1>1, <1>3 DEF Good
<1>5. Good(h) => Holds(h) BY <1>2, StillHolds
<1> QED BY <1>2, <1>4, <1>5 DEF Steady

\* A handle that is deleted is not good any more; the others are left alone.
LEMMA DeleteSteady ==
    ASSUME ReplicaInv, NEW d, gone' = gone \cup {d}, log' = [x \in DOMAIN log \ {d} |-> log[x]], Exits(d), NEW h
    PROVE  Steady(h) /\ (Good(h)' => h # d /\ Read(h)' = Read(h))
<1> USE DEF ReplicaInv
<1>1. Good(h)' => Good(h) /\ h # d BY DEF Good, Exits
<1>2. h # d => Read(h)' = Read(h)
  <2>1. EmptyLog' = EmptyLog BY DEF EmptyLog, Beginning
  <2> QED BY <2>1 DEF Read
<1>3. Good(h)' => Holds(h) BY <1>1, <1>2, StillHolds
<1>4. ASSUME Good(h)', NEW r \in Rows PROVE Tells(h, r)
  <2>1. ASSUME Coming(h, r) PROVE Coming(h, r)'
    <3>1. PICK n \in DOMAIN wal : Newest(n, r) /\ Carried(h, n) BY <2>1 DEF Coming
    <3>2. ASSUME NEW w \in work, h \in w.todo PROVE w \in work'
      BY <1>1, <1>4, <3>2 DEF Exits, Good
    <3>3. Carried(h, n)' BY <3>1, <3>2 DEF Carried, Exits
    <3>4. Newest(n, r)' BY <3>1 DEF Newest, Exits
    <3> QED BY <3>3, <3>4 DEF Coming, Exits
  <2> QED BY <2>1 DEF Tells, Exits
<1> QED BY <1>1, <1>2, <1>3, <1>4 DEF Steady

LEMMA RestartSteady ==
    ASSUME ReplicaInv, Restart, NEW h
    PROVE  Steady(h) /\ Read(h)' = Read(h)
<1> USE DEF ReplicaInv
<1>1. /\ next' \in 1 .. next /\ \A w \in work : \A x \in w.todo : x \notin flawed' => next' <= w.lsn
      /\ log' = [x \in {y \in DOMAIN log : log[y] # EmptyLog} |-> log[x]] /\ flawed \subseteq flawed'
  BY RestartMeans
<1>2. UNCHANGED <<table, wal, gone>> BY DEF Restart, origin
<1>3. Read(h)' = Read(h)
  <2>1. EmptyLog' = EmptyLog BY DEF EmptyLog, Beginning
  <2> QED BY <1>1, <2>1 DEF Read
<1>4. Good(h)' => Good(h) BY <1>1, <1>2 DEF Good
<1>5. Good(h) => Holds(h) BY <1>3, StillHolds
<1>6. ASSUME Good(h)', NEW r \in Rows PROVE Tells(h, r)
  <2>1. ASSUME Coming(h, r) PROVE Coming(h, r)'
    <3>1. PICK n \in DOMAIN wal : Newest(n, r) /\ Carried(h, n) BY <2>1 DEF Coming
    <3>2. n \in Int
      <4>1. DOMAIN wal = 1 .. Len(wal) BY LenProperties DEF Types, OriginOk
      <4> QED BY <3>1, <4>1
    <3>3. next' <= n BY <1>1, <1>6, <3>1, <3>2 DEF Carried, Types, NodeOk, Good
    <3>4. Newest(n, r)' BY <1>2, <3>1 DEF Newest
    <3> QED BY <1>2, <3>1, <3>3, <3>4 DEF Coming, Carried
  <2> QED BY <1>2, <2>1 DEF Tells
<1> QED BY <1>3, <1>4, <1>5, <1>6 DEF Steady

\* The last message of an append is never dropped.
LEMMA LastStays ==
    ASSUME NEW l, LogOk(l), NEW m \in Message, NewOk(<<m>>)
    PROVE  LET a == Appended(l, <<m>>) IN
           /\ Len(a.messages) \in DOMAIN a.messages /\ a.messages[Len(a.messages)] = m
           /\ \A i \in 1 .. Excess(l, <<m>>) : All(l, <<m>>)[i].offset <= a.cut
<1> DEFINE a == Appended(l, <<m>>)
           d == Excess(l, <<m>>)
           all == All(l, <<m>>)
           n == Len(l.messages)
<1>1. /\ DOMAIN <<m>> = {1} /\ <<m>>[1] = m /\ Len(<<m>>) = 1 BY OneMessage
<1>2. /\ DOMAIN all = 1 .. Len(all) /\ Len(all) = n + 1 /\ n \in Nat /\ all[n + 1] = m
  <2>1. 1 \in DOMAIN <<m>> BY <1>1
  <2>2. all[n + 1] = <<m>>[1] BY <2>1, AllMeans
  <2>3. /\ DOMAIN all = 1 .. Len(all) /\ Len(all) = n + 1 /\ n \in Nat BY <1>1, AllMeans
  <2> QED BY <1>1, <2>2, <2>3
<1>3. /\ d \in Nat /\ d < Len(all) /\ Len(a.messages) = Len(all) - d /\ d \in {0, 1}
      /\ \A i \in DOMAIN a.messages : i + d \in DOMAIN all /\ a.messages[i] = all[i + d]
      /\ DOMAIN a.messages = 1 .. Len(a.messages)
  BY <1>1, ExcessMeans
<1>4. d > 0 => all[d].offset <= a.cut BY AppendedMeans
<1> HIDE DEF a, d, all, n
<1>5. Len(a.messages) \in DOMAIN a.messages BY <1>2, <1>3
<1>6. a.messages[Len(a.messages)] = m
  <2>1. Len(a.messages) + d = n + 1 BY <1>2, <1>3
  <2> QED BY <1>2, <1>3, <1>5, <2>1
<1>7. \A i \in 1 .. d : all[i].offset <= a.cut
  <2>1. ASSUME NEW i \in 1 .. d PROVE all[i].offset <= a.cut
    <3>1. i = d /\ d > 0 BY <1>3, <2>1
    <3> QED BY <1>4, <3>1
  <2> QED BY <2>1
<1> QED BY <1>5, <1>6, <1>7 DEF a, d, all

LEMMA ApplySteady ==
    ASSUME ReplicaInv, NEW w \in work, NEW h \in w.todo, Apply(w, h), NEW x
    PROVE  /\ Steady(x) /\ (x # h => Read(x)' = Read(x))
           /\ UNCHANGED <<table, wal, next, registry, gone>> /\ flawed \subseteq flawed'
           /\ Good(h)' => h \notin gone /\ Read(h).last < w.offset
<1> USE DEF ReplicaInv
<1>1. PICK m \in Message :
         LET l == Appended(Read(h), <<m>>) IN
                 /\ m.offset = w.offset /\ m.row = wal[w.lsn].row
                 /\ NewOk(<<m>>) /\ LogOk(l) /\ log' = With(h, l)
                 /\ flawed' = flawed \cup Back(h) \cup IF Read(h).last < w.offset THEN {} ELSE {h}
  BY ApplyMeans
<1>2. UNCHANGED <<table, wal, next, registry, gone>> BY DEF Apply, origin
<1>3. work' = (work \ {w}) \cup IF w.todo \ {h} = {} THEN {} ELSE {[w EXCEPT !.todo = w.todo \ {h}]}
  BY ApplyMeans
<1>4. Read(h)' = Appended(Read(h), <<m>>) /\ \A y : y # h => Read(y)' = Read(y) BY <1>1, WithMeans
<1>5. Good(x)' => Good(x) BY <1>1, <1>2 DEF Good
<1>6. Good(h)' => Good(h) /\ h \notin gone /\ Read(h).last < w.offset
  <2>1. Good(h)' => Good(h) BY <1>1, <1>2 DEF Good
  <2>2. ~(Read(h).last < w.offset) => h \in flawed' BY <1>1
  <2> QED BY <1>2, <2>1, <2>2 DEF Good
<1>7. LogOk(Read(h)) BY ReadOk
<1>8. w.lsn \in DOMAIN wal /\ SnapshotEnd < w.offset /\ w.offset \in Int /\ w = [lsn |-> w.lsn, offset |-> w.offset, todo |-> w.todo]
  BY WorkFacts
<1>9. Good(x)' => Holds(x)
  <2>1. CASE x # h BY <1>4, <1>5, <2>1, StillHolds
  <2>2. CASE x = h
    <3>1. \A i \in 1 .. Excess(Read(h), <<m>>) : All(Read(h), <<m>>)[i].offset <= (Read(h)').cut
      BY <1>1, <1>4, <1>7, LastStays
    <3>2. Good(h) => Holds(h) BY <1>1, <1>4, <1>7, <3>1, GrowMeans
    <3> QED BY <1>5, <2>2, <3>2
  <2> QED BY <2>1, <2>2
<1>10. ASSUME NEW q \in Rows, Good(x)' PROVE Tells(x, q)
  <2>1. CASE ~Coming(x, q) BY <1>2, <2>1 DEF Tells
  <2>2. CASE Coming(x, q)
    <3>1. PICK n \in DOMAIN wal : Newest(n, q) /\ Carried(x, n) BY <2>2 DEF Coming
    <3>2. n \in DOMAIN wal' /\ Newest(n, q)' BY <1>2, <3>1 DEF Newest
    <3>3. CASE Carried(x, n)' BY <3>2, <3>3 DEF Coming, Tells
    <3>4. CASE ~Carried(x, n)'
      <4>1. PICK v \in work : v.lsn = n /\ x \in v.todo BY <1>2, <3>1, <3>4 DEF Carried
      <4>2. v = w BY <1>3, <3>4, <4>1 DEF Carried
      <4>3. x = h
        <5>1. SUFFICES ASSUME x # h PROVE FALSE OBVIOUS
        <5>2. x \in w.todo \ {h} BY <4>1, <4>2, <5>1
        <5> DEFINE u == [w EXCEPT !.todo = w.todo \ {h}]
        <5>3. u.todo = w.todo \ {h} /\ u.lsn = w.lsn BY <1>8
        <5>4. u \in work' BY <1>3, <5>2
        <5> HIDE DEF u
        <5> QED BY <3>4, <4>1, <4>2, <5>2, <5>3, <5>4 DEF Carried
      <4>4. q = m.row BY <1>1, <3>1, <4>1, <4>2 DEF Newest
      <4> DEFINE a == Appended(Read(h), <<m>>)
      <4>5. Len(a.messages) \in DOMAIN a.messages /\ a.messages[Len(a.messages)] = m BY <1>1, <1>7, LastStays
      <4>6. Messages(h)' = a.messages BY <1>4 DEF Messages
      <4> HIDE DEF a
      <4>7. PICK o \in Int : o = w.offset - 1 BY <1>8
      <4>8. o < m.offset /\ SnapshotEnd <= o BY <1>1, <1>8, <4>7, SnapshotEndNat
      <4>9. Read(h).last <= o
        <5>1. Read(h).last \in Int /\ Read(h).last < w.offset BY <1>6, <1>7, <1>10, <4>3, LogFacts
        <5> QED BY <1>8, <4>7, <5>1
      <4>10. Has(h, q, o)' BY <4>4, <4>5, <4>6, <4>8 DEF Has
      <4> QED BY <4>3, <4>8, <4>9, <4>10 DEF Tells
    <3> QED BY <3>3, <3>4
  <2> QED BY <2>1, <2>2
<1> QED BY <1>1, <1>2, <1>4, <1>6, <1>9, <1>10 DEF Steady

LEMMA AppendPageSteady ==
    ASSUME ReplicaInv, NEW c \in Requests, AppendPage(c), NEW x
    PROVE  /\ Steady(x) /\ (x # req[c].handle => Read(x)' = Read(x))
           /\ UNCHANGED <<table, wal, next, work, registry, gone>> /\ flawed \subseteq flawed'
<1> USE DEF ReplicaInv
<1> DEFINE new == SnapshotMessages(c)
<1>1. PICK h : h = req[c].handle OBVIOUS
<1>2. UNCHANGED <<table, wal, next, work, registry, gone>> BY DEF AppendPage, origin, stream_
<1>3. /\ new # <<>> => /\ NewOk(new) /\ log' = With(h, Appended(Read(h), new))
                       /\ flawed' = flawed \cup Back(h) \cup Followed(h) \cup Hidden(h, new)
      /\ new = <<>> => log' = log /\ flawed' = flawed
  BY <1>1, AppendPageMeans
<1> HIDE DEF new
<1>4. flawed \subseteq flawed' BY <1>3
<1>5. Good(x)' => Good(x) BY <1>2, <1>4 DEF Good
<1>6. \A r \in Rows : Tells(x, r) BY <1>2, SameTells
<1>7. x # h => Read(x)' = Read(x)
  <2>1. CASE new = <<>> BY <1>3, <2>1, SameReads
  <2>2. CASE new # <<>> BY <1>3, <2>2, WithMeans
  <2> QED BY <2>1, <2>2
<1>8. Good(x)' => Holds(x)
  <2>1. CASE x # h BY <1>5, <1>7, <2>1, StillHolds
  <2>2. CASE new = <<>>
    <3>1. Read(x)' = Read(x) BY <1>3, <2>2, SameReads
    <3> QED BY <1>5, <3>1, StillHolds
  <2>3. CASE new # <<>> /\ x = h
    <3>1. LogOk(Read(h)) BY ReadOk
    <3>2. Read(h)' = Appended(Read(h), new) BY <1>3, <2>3, WithMeans
    <3>3. ASSUME Good(h)', NEW i \in 1 .. Excess(Read(h), new)
          PROVE  All(Read(h), new)[i].offset <= (Read(h)').cut
      <4> DEFINE all == All(Read(h), new)
                 l == Appended(Read(h), new)
      <4>1. h \notin Hidden(h, new) BY <1>3, <2>3, <3>3 DEF Good
      <4>2. \A k \in 1 .. Len(all) - Len(l.messages) : ~(l.cut < all[k].offset)
        BY <4>1 DEF Hidden, All
      <4>3. /\ Excess(Read(h), new) \in Nat /\ Len(l.messages) = Len(all) - Excess(Read(h), new)
            /\ Excess(Read(h), new) < Len(all)
        BY <1>3, <2>3, <3>1, ExcessMeans
      <4>4. all \in Seq(Message) /\ DOMAIN all = 1 .. Len(all) /\ Len(all) \in Nat
        BY <1>3, <2>3, <3>1, AllMeans, LenProperties
      <4>5. l.cut \in Int
        <5>1. LogOk(l) BY <1>3, <2>3, <3>1, AppendedMeans
        <5> QED BY <5>1, LogFacts
      <4> HIDE DEF all, l
      <4>6. i \in DOMAIN all /\ i \in 1 .. Len(all) - Len(l.messages) BY <3>3, <4>3, <4>4
      <4>7. all[i].offset \in Int
        <5>1. all[i] \in Message BY <4>4, <4>6, ElementOfSeq
        <5> QED BY <5>1 DEF Message
      <4>8. all[i].offset <= l.cut BY <4>2, <4>5, <4>6, <4>7
      <4> QED BY <3>2, <4>8 DEF all, l
    <3>4. Good(h)' => Holds(h)
      <4>1. SUFFICES ASSUME Good(h)' PROVE Holds(h) OBVIOUS
      <4>2. Good(h) BY <1>5, <2>3, <4>1
      <4>3. \A i \in 1 .. Excess(Read(h), new) : All(Read(h), new)[i].offset <= (Read(h)').cut BY <3>3, <4>1
      <4> QED BY <1>3, <2>3, <3>1, <3>2, <4>2, <4>3, GrowMeans
    <3> QED BY <2>3, <3>4
  <2> QED BY <2>1, <2>2, <2>3
<1> QED BY <1>1, <1>2, <1>4, <1>6, <1>7, <1>8 DEF Steady

\* The steps of the specification, one by one.
LEMMA NextCases ==
    ASSUME Next
    PROVE  \/ \E r \in Rows : \E content \in Contents \cup {None} : Write(r, content) /\ UNCHANGED <<streamVars, file>>
           \/ Receive /\ UNCHANGED <<streamVars, file>>
           \/ Coalesce /\ UNCHANGED <<streamVars, file>>
           \/ \E w \in work : \E h \in w.todo : Apply(w, h) /\ UNCHANGED <<streamVars, file>>
           \/ \E c \in Requests : AppendPage(c) /\ UNCHANGED <<streamVars, file>>
           \/ \E c \in Requests : SnapshotFails(c) /\ UNCHANGED <<streamVars, file>>
           \/ \E h \in Handles : Delete(h) /\ UNCHANGED <<streamVars, file>>
           \/ Restart /\ UNCHANGED <<streamVars, file>>
           \/ \E c \in Requests : Calls(c) /\ UNCHANGED <<streamVars, file>>
           \/ ClientStep
<1>1. CASE WriteStep /\ UNCHANGED <<streamVars, file>> BY <1>1 DEF WriteStep
<1>2. CASE ServerStep /\ UNCHANGED <<streamVars, file>>
  BY <1>2, Zenon DEF ServerStep, ApplyStep, Reading, Calls, Fetches
<1>3. CASE ~((WriteStep \/ ServerStep) /\ UNCHANGED <<streamVars, file>>) BY <1>3 DEF Next, ClientStep
<1> QED BY <1>1, <1>2, <1>3

\* Every step keeps what a log tells.
LEMMA SteadyAll ==
    ASSUME ReplicaInv, Next, NEW h
    PROVE  Steady(h)
<1>1. CASE \E r \in Rows : \E content \in Contents \cup {None} : Write(r, content) BY <1>1, WriteSteady
<1>2. CASE Receive BY <1>2, ReceiveSteady
<1>3. CASE Coalesce BY <1>3, CoalesceSteady
<1>4. CASE \E w \in work : \E x \in w.todo : Apply(w, x) BY <1>4, ApplySteady
<1>5. CASE \E c \in Requests : AppendPage(c) BY <1>5, AppendPageSteady
<1>6. ASSUME NEW c \in Requests, SnapshotFails(c) PROVE Steady(h)
  <2>1. PICK d : d = req[c].handle OBVIOUS
  <2>2. gone' = gone \cup {d} /\ log' = [x \in DOMAIN log \ {d} |-> log[x]]
    BY <1>6, <2>1, SnapshotFailsMeans DEF ReplicaInv
  <2>3. Exits(d) BY <1>6, <2>1, SnapshotFailsMeans DEF ReplicaInv
  <2> QED BY <2>2, <2>3, DeleteSteady
<1>7. ASSUME NEW d \in Handles, Delete(d) PROVE Steady(h)
  <2>1. Deleted(d) BY <1>7 DEF Delete
  <2>2. gone' = gone \cup {d} /\ log' = [x \in DOMAIN log \ {d} |-> log[x]]
    BY <2>1, DeletedMeans DEF ReplicaInv
  <2>3. Exits(d) BY <2>1, DeletedMeans DEF ReplicaInv
  <2> QED BY <2>2, <2>3, DeleteSteady
<1>8. CASE Restart BY <1>8, RestartSteady
<1>9. CASE \E c \in Requests : Calls(c) BY <1>9, CallsQuiet, QuietSteady DEF ReplicaInv
<1>10. CASE ClientStep BY <1>10, ClientQuiet, QuietSteady DEF ReplicaInv
<1> QED BY <1>1, <1>2, <1>3, <1>4, <1>5, <1>6, <1>7, <1>8, <1>9, <1>10, NextCases

\* What follows from that for the parts of the invariant.
LEMMA SteadyMeans ==
    ASSUME NodeInv, NEW h, Steady(h)
    PROVE  /\ \A o \in Int : Lost(h, o) => Lost(h, o)'
           /\ Good(h)' => Good(h)
           /\ Whole(h)' => Whole(h)
<1>1. Read(h).cut \in Int /\ Beginning <= Read(h).cut
  <2>1. LogOk(Read(h)) BY ReadOk
  <2> QED BY <2>1, LogFacts
<1>2. Good(h)' => Good(h) /\ Read(h).cut <= (Read(h)').cut BY DEF Steady, Holds
<1>3. ASSUME NEW o \in Int, Lost(h, o) PROVE Lost(h, o)'
  <2>1. CASE ~Good(h)' BY <2>1 DEF Lost
  <2>2. CASE Good(h)'
    <3>1. Good(h) /\ Read(h).cut <= (Read(h)').cut BY <1>2, <2>2
    <3>2. o < Read(h).cut BY <1>3, <3>1 DEF Lost
    <3>3. (Read(h)').cut \in Int BY <2>2, LogFacts DEF Steady, Holds
    <3>4. o < (Read(h)').cut BY <1>1, <3>1, <3>2, <3>3
    <3> QED BY <3>4 DEF Lost
  <2> QED BY <2>1, <2>2
<1>4. Whole(h)' => Whole(h)
  <2>1. SUFFICES ASSUME Whole(h)' PROVE Whole(h) OBVIOUS
  <2>2. Good(h)' /\ (Read(h)').cut = Beginning BY <2>1 DEF Whole, Beginning
  <2>3. Good(h) /\ Read(h).cut <= Beginning BY <1>2, <2>2
  <2> QED BY <1>1, <2>3 DEF Whole, Beginning
<1> QED BY <1>2, <1>3, <1>4

(***************************************************************************)
(* What has been said of a row, a copy or an offset stays true.            *)
(***************************************************************************)
LEMMA SeenNext == \A r : Seen(table[r])' = Seen(table'[r])
BY DEF Seen, Project, NoFilter

\* What is known, told or claimed of a row stays so.
LEMMA KnownKept ==
    ASSUME NodeInv, NEW h, Steady(h), Whole(h)', h \in registry \cup DOMAIN log, NEW r \in Rows
    PROVE  /\ Told(h, r) => Told(h, r)'
           /\ Known(h, r) => Known(h, r)'
           /\ table'[r] = table[r] \/ Told(h, r)'
<1>1. Good(h)' /\ (Read(h)').cut = Beginning BY DEF Whole, Beginning
<1>2. Holds(h) /\ Tells(h, r) BY <1>1 DEF Steady
<1>3. SnapshotEnd \in Nat /\ SnapshotEnd' = SnapshotEnd /\ Beginning' = Beginning
  BY SnapshotEndNat DEF SnapshotEnd, Beginning
<1>4. \A i \in DOMAIN Messages(h)' : Messages(h)'[i].offset \in Int
  BY <1>2, LogFacts DEF Holds, Messages
<1>5. ASSUME NEW o \in Int, SnapshotEnd <= o, Has(h, r, o)' PROVE Has(h, r, SnapshotEnd)'
  <2>1. PICK i \in DOMAIN Messages(h)' : Messages(h)'[i].row = r /\ o < Messages(h)'[i].offset BY <1>5 DEF Has
  <2>2. Messages(h)'[i].offset \in Int BY <1>4
  <2>3. SnapshotEnd < Messages(h)'[i].offset BY <1>3, <1>5, <2>1, <2>2
  <2> QED BY <1>3, <2>1, <2>3 DEF Has
<1>6. Has(h, r, SnapshotEnd)' => Has(h, r, Beginning)'
  <2>1. SUFFICES ASSUME Has(h, r, SnapshotEnd)' PROVE Has(h, r, Beginning)' OBVIOUS
  <2>2. PICK i \in DOMAIN Messages(h)' : Messages(h)'[i].row = r /\ SnapshotEnd < Messages(h)'[i].offset
    BY <1>3, <2>1 DEF Has
  <2>3. Beginning < Messages(h)'[i].offset BY <1>3, <1>4, <2>2 DEF Beginning
  <2> QED BY <1>3, <2>2, <2>3 DEF Has
<1>7. Has(h, r, SnapshotEnd) => Has(h, r, SnapshotEnd)'
  <2>1. SnapshotEnd \in Int /\ Beginning <= SnapshotEnd BY <1>3 DEF Beginning
  <2>2. \A o \in Int : Beginning <= o /\ Has(h, r, o) => Has(h, r, o)' BY <1>1, <1>2 DEF Holds
  <2>3. PICK o : o = SnapshotEnd OBVIOUS
  <2>4. Has(h, r, o) => Has(h, r, o)' BY <2>1, <2>2, <2>3
  <2>5. Has(h, r, SnapshotEnd) => Has(h, r, o) BY <2>3
  <2>6. Has(h, r, o)' => Has(h, r, SnapshotEnd)' BY <1>3, <2>3 DEF Has
  <2> QED BY <2>4, <2>5, <2>6
<1>8. Has(h, r, Beginning) => Has(h, r, Beginning)'
  <2>1. \A o \in Int : Beginning <= o /\ Has(h, r, o) => Has(h, r, o)' BY <1>1, <1>2 DEF Holds
  <2>2. Beginning \in Int /\ Beginning <= Beginning BY DEF Beginning
  <2>3. PICK o : o = Beginning OBVIOUS
  <2>4. Has(h, r, o) => Has(h, r, o)' BY <2>1, <2>2, <2>3
  <2>5. Has(h, r, Beginning) => Has(h, r, o) BY <2>3
  <2>6. Has(h, r, o)' => Has(h, r, Beginning)' BY <1>3, <2>3 DEF Has
  <2> QED BY <2>4, <2>5, <2>6
<1>9. Told(h, r)' \/ (~Coming(h, r) /\ table'[r] = table[r])
  <2>1. CASE Coming(h, r)' BY <2>1 DEF Told
  <2>2. CASE \E o \in Int : Read(h).last <= o /\ SnapshotEnd <= o /\ Has(h, r, o)'
    BY <1>5, <2>2 DEF Told
  <2> QED BY <1>2, <2>1, <2>2 DEF Tells
<1>10. Told(h, r) => Told(h, r)' BY <1>7, <1>9 DEF Told
<1>11. Told(h, r)' => Known(h, r)' BY <1>6 DEF Told, Known
<1>12. Known(h, r) => Known(h, r)'
  <2>1. CASE Told(h, r)' BY <1>11, <2>1
  <2>2. CASE ~Told(h, r)'
    <3>1. ~Coming(h, r) /\ table'[r] = table[r] BY <1>9, <2>2
    <3> QED BY <1>8, <3>1 DEF Known
  <2> QED BY <2>1, <2>2
<1> QED BY <1>9, <1>10, <1>12

LEMMA HasKept ==
    ASSUME NodeInv, NEW h, Steady(h), NEW o \in Int, ~Lost(h, o)', NEW r \in Rows, Has(h, r, o)
    PROVE  Has(h, r, o)'
<1>1. Good(h)' /\ ~(o < (Read(h)').cut) BY DEF Lost
<1>2. Holds(h) BY <1>1 DEF Steady
<1>3. (Read(h)').cut \in Int BY <1>2, LogFacts DEF Holds
<1>4. (Read(h)').cut <= o BY <1>1, <1>3
<1> QED BY <1>2, <1>4 DEF Holds

LEMMA FreshKept ==
    ASSUME NodeInv, NEW h, Steady(h), ~Lost(h, Beginning)', NEW R, Fresh(h, R), leftover' = leftover
    PROVE  Fresh(h, R)'
<1>1. PICK o \in Int : o = Beginning BY DEF Beginning
<1>2. Beginning' = Beginning BY DEF Beginning
<1>3. ~Lost(h, o)' BY <1>1, <1>2 DEF Lost
<1>4. ASSUME NEW r \in Rows, R[r] # None, ~leftover PROVE Has(h, r, Beginning)'
  <2>1. Has(h, r, o) BY <1>1, <1>4 DEF Fresh
  <2>2. Has(h, r, o)' BY <1>3, <2>1, HasKept
  <2> QED BY <1>1, <1>2, <2>2 DEF Has
<1> QED BY <1>4 DEF Fresh

LEMMA ClaimKept ==
    ASSUME NodeInv, NEW h, Steady(h), NEW o \in Int, ~Lost(h, o)', o <= Read(h).last,
           h \in registry \cup DOMAIN log, NEW R, Claim(h, o, R), leftover' = leftover
    PROVE  Claim(h, o, R)'
<1>1. Good(h)' BY DEF Lost
<1>2. Holds(h) /\ \A r \in Rows : Tells(h, r) BY <1>1 DEF Steady
<1>3. Read(h).last \in Int
  <2>1. LogOk(Read(h)) BY ReadOk
  <2> QED BY <2>1, LogFacts
<1>4. ASSUME NEW r \in Rows, ~Has(h, r, o)', ~Coming(h, r)'
      PROVE  R[r] = Seen(table[r])' \/ (leftover' /\ R[r] # None)
  <2>1. ~Has(h, r, o) BY <1>4, HasKept
  <2>2. ~Coming(h, r) /\ table'[r] = table[r]
    <3>1. SUFFICES ASSUME NEW p \in Int, Read(h).last <= p, Has(h, r, p)' PROVE FALSE
      BY <1>2, <1>4 DEF Tells
    <3>2. PICK i \in DOMAIN Messages(h)' : Messages(h)'[i].row = r /\ p < Messages(h)'[i].offset BY <3>1 DEF Has
    <3>3. Messages(h)'[i].offset \in Int BY <1>2, LogFacts DEF Holds, Messages
    <3>4. o < Messages(h)'[i].offset BY <1>3, <3>1, <3>2, <3>3
    <3> QED BY <1>4, <3>2, <3>4 DEF Has
  <2>3. R[r] = Seen(table[r]) \/ (leftover /\ R[r] # None) BY <2>1, <2>2 DEF Claim
  <2> QED BY <2>2, <2>3, SeenNext
<1> QED BY <1>4 DEF Claim

LEMMA PositionKept ==
    ASSUME NodeInv, NEW h, Steady(h), NEW o \in Int, Beginning <= o, Beyond(h, o), NEW R, Position(h, o, R),
           leftover' = leftover
    PROVE  Position(h, o, R)'
<1>1. CASE Lost(h, o)' BY <1>1 DEF Position
<1>2. CASE ~Lost(h, o)'
  <2>1. ~Lost(h, o) /\ Good(h) BY <1>2, SteadyMeans DEF Lost
  <2>2. Beginning' = Beginning BY DEF Beginning
  <2>3. CASE o = Beginning
    <3>1. Fresh(h, R) BY <2>1, <2>3 DEF Position
    <3>2. ~Lost(h, Beginning)' BY <1>2, <2>2, <2>3 DEF Lost
    <3>3. Fresh(h, R)' BY <3>1, <3>2, FreshKept
    <3> QED BY <2>2, <2>3, <3>3 DEF Position
  <2>4. CASE o # Beginning
    <3>1. Claim(h, o, R) BY <2>1, <2>4 DEF Position
    <3>2. 0 <= o BY <2>4 DEF Beginning
    <3>3. Messages(h) # <<>> /\ o <= Read(h).last BY <2>1, <3>2 DEF Beyond
    <3>4. h \in DOMAIN log BY <3>3 DEF Messages, Read, EmptyLog
    <3>5. Claim(h, o, R)' BY <1>2, <3>1, <3>3, <3>4, ClaimKept
    <3> QED BY <2>2, <2>4, <3>5 DEF Position
  <2> QED BY <2>3, <2>4
<1> QED BY <1>1, <1>2

\* The calls that read the table.
Reads(q) == q.pc \in {"new", "fetch", "append"}

\* Nobody begins to read the table for a handle whose log holds something.
SnapsKept ==
    \A x \in Requests : Reads(req'[x]) =>
       (Reads(req[x]) /\ req'[x].handle = req[x].handle) \/ Messages(req'[x].handle) = <<>>

LEMMA SnapsMeans ==
    ASSUME SnapsKept, NEW h, Messages(h) # <<>>, Snapshotting(h) = {}
    PROVE  Snapshotting(h)' = {}
BY DEF Snapshotting, SnapsKept, Reads

LEMMA WokenMeans ==
    ASSUME NEW q, NEW h, NEW l
    PROVE  \/ Woken(q, h, l) = q
           \/ /\ q.pc = "waiting" /\ q.handle = h /\ q.from < l.last
              /\ Woken(q, h, l) = Answered(Ok(h, After(l.messages, q.from), l.last, TRUE))
              /\ Woken(q, h, l).pc = "answered"
BY DEF Woken, Answered, Idle

LEMMA MineSnaps ==
    ASSUME NEW c \in Requests, Mine(c),
           Reads(req'[c]) => (Reads(req[c]) /\ req'[c].handle = req[c].handle) \/ Messages(req'[c].handle) = <<>>
    PROVE  SnapsKept
BY DEF SnapsKept, Mine

\* A reply is an answer or a wait.
LEMMA ReplyPc ==
    ASSUME NEW q, DOMAIN q = Fields, NEW a
    PROVE  Reply(q, a).pc \in {"await", "answered"}
<1>1. CASE a.messages = <<>> /\ q.live
  <2>1. Reply(q, a).pc = "await" BY <1>1 DEF Reply, Fields
  <2> QED BY <2>1
<1>2. CASE ~(a.messages = <<>> /\ q.live)
  <2>1. Reply(q, a).pc = "answered" BY <1>2 DEF Reply, Answered, Idle
  <2> QED BY <2>1
<1> QED BY <1>1, <1>2

LEMMA CallsSnaps ==
    ASSUME ReplicaInv, NEW c \in Requests, Calls(c)
    PROVE  SnapsKept
<1> USE DEF ReplicaInv
<1>1. CASE Ensure(c)
  <2>1. /\ Mine(c) /\ req'[c].pc = (IF Messages(req'[c].handle) = <<>> THEN "new" ELSE "rejoin")
    BY <1>1, EnsureMeans DEF Messages
  <2> QED BY <2>1, MineSnaps DEF Reads
<1>2. CASE StartSnapshot(c) \/ Rejoin(c)
  <2>1. req[c].handle \in Handles BY <1>2 DEF StartSnapshot, Rejoin, At, Types, ReqsOk, ReqOk, Busy
  <2>2. CASE StartSnapshot(c)
    <3>1. Goto(c, "fetch") /\ req[c].pc = "new" BY <2>2 DEF StartSnapshot, At
    <3>2. Mine(c) /\ req'[c].handle = req[c].handle BY <2>1, <3>1, GotoOk DEF Fields
    <3> QED BY <3>1, <3>2, MineSnaps DEF Reads
  <2>3. CASE Rejoin(c)
    <3>1. Goto(c, "settle") /\ req[c].pc = "rejoin" BY <2>3 DEF Rejoin, At
    <3>2. Mine(c) /\ req'[c].pc = "settle" BY <2>1, <3>1, GotoOk
    <3> QED BY <3>2, MineSnaps DEF Reads
  <2> QED BY <1>2, <2>2, <2>3
<1>3. CASE Fetches(c)
  <2>1. Mine(c) /\ req[c].pc = "fetch" /\ req'[c].handle = req[c].handle BY <1>3, FetchesMeans
  <2> QED BY <2>1, MineSnaps DEF Reads
<1>4. CASE Settle(c)
  <2>1. Mine(c) /\ req'[c] = Reply(req[c], Settled(req[c].handle)) /\ ReqOk(req[c]) /\ req[c].pc = "settle"
    BY <1>4, SettleMeans DEF Types, ReqsOk
  <2>2. DOMAIN req[c] = Fields BY <2>1 DEF ReqOk
  <2>3. PICK q, a : req'[c] = Reply(q, a) /\ DOMAIN q = Fields BY <2>1, <2>2
  <2>4. Reply(q, a).pc \in {"await", "answered"} BY <2>3, ReplyPc
  <2>5. req'[c].pc \in {"await", "answered"} BY <2>3, <2>4
  <2> QED BY <2>1, <2>5, MineSnaps DEF Reads
<1>5. CASE Resume(c)
  <2>1. Mine(c) /\ req'[c].pc \in {"answered", "read"} BY <1>5, ResumeMeans
  <2> QED BY <2>1, MineSnaps DEF Reads
<1>6. CASE ReadLog(c)
  <2>1. Mine(c) /\ ReqOk(req[c]) /\ req[c].pc = "read" BY <1>6, ReadLogMeans DEF Types, ReqsOk
  <2>2. req'[c].pc \in {"await", "answered"}
    <3>1. req'[c].pc = "answered" \/ \E a : req'[c] = Reply(req[c], a) BY <1>6, ReadLogMeans
    <3>2. DOMAIN req[c] = Fields BY <2>1 DEF ReqOk
    <3>3. CASE \E a : req'[c] = Reply(req[c], a)
      <4>1. PICK q, a : req'[c] = Reply(q, a) /\ DOMAIN q = Fields BY <3>2, <3>3
      <4>2. Reply(q, a).pc \in {"await", "answered"} BY <4>1, ReplyPc
      <4> QED BY <4>1, <4>2
    <3> QED BY <3>1, <3>3
  <2> QED BY <2>1, <2>2, MineSnaps DEF Reads
<1>7. CASE AwaitLog(c)
  <2>1. Mine(c) /\ req'[c].pc \in {"answered", "waiting"} BY <1>7, AwaitLogMeans DEF Answered, Idle
  <2> QED BY <2>1, MineSnaps DEF Reads
<1>8. CASE Timeout(c)
  <2>1. Mine(c) /\ req'[c].pc = "answered" BY <1>8, TimeoutMeans DEF Answered, Idle
  <2> QED BY <2>1, MineSnaps DEF Reads
<1> QED BY <1>1, <1>2, <1>3, <1>4, <1>5, <1>6, <1>7, <1>8 DEF Calls

LEMMA SnapsAll ==
    ASSUME ReplicaInv, Next
    PROVE  SnapsKept
<1> USE DEF ReplicaInv
<1>1. ASSUME req' = req PROVE SnapsKept BY <1>1 DEF SnapsKept
<1>2. CASE \E r \in Rows : \E content \in Contents \cup {None} : Write(r, content)
  BY <1>1, <1>2 DEF Write
<1>3. CASE Receive BY <1>1, <1>3 DEF Receive
<1>4. CASE Coalesce BY <1>1, <1>4 DEF Coalesce
<1>5. ASSUME NEW w \in work, NEW h \in w.todo, Apply(w, h) PROVE SnapsKept
  <2>0. PICK m \in Message : LET l == Appended(Read(h), <<m>>) IN
           log' = With(h, l) /\ req' = [c \in Requests |-> Woken(req[c], h, l)]
    BY <1>5, ApplyMeans
  <2>1. req' = [c \in Requests |-> Woken(req[c], h, Appended(Read(h), <<m>>))] BY <2>0
  <2>2. PICK l : req' = [c \in Requests |-> Woken(req[c], h, l)] BY <2>1
  <2>3. \A x \in Requests : req'[x] = req[x] \/ req'[x].pc = "answered" BY <2>2, WokenMeans
  <2> QED BY <2>3 DEF SnapsKept, Reads
<1>6. ASSUME NEW c \in Requests, AppendPage(c) PROVE SnapsKept
  <2> DEFINE h == req[c].handle
             l == Appended(Read(h), SnapshotMessages(c))
  <2>1. req[c].pc = "append" /\ req'[c].handle = req[c].handle
        /\ \A x \in Requests : x # c => req'[x] = req[x] \/ req'[x] = Woken(req[x], h, l)
    BY <1>6, AppendPageMeans
  <2> HIDE DEF h, l
  <2>2. ASSUME NEW x \in Requests, x # c PROVE req'[x] = req[x] \/ req'[x].pc = "answered"
    <3>1. req'[x] = req[x] \/ req'[x] = Woken(req[x], h, l) BY <2>1, <2>2
    <3>2. Woken(req[x], h, l) = req[x] \/ Woken(req[x], h, l).pc = "answered" BY WokenMeans
    <3> QED BY <3>1, <3>2
  <2> QED BY <2>1, <2>2 DEF SnapsKept, Reads
<1>7. ASSUME NEW c \in Requests, SnapshotFails(c) PROVE SnapsKept
  <2>1. \A x \in Requests : req'[x] \in {req[x], Answered(Failed)} BY <1>7, SnapshotFailsMeans
  <2> QED BY <2>1 DEF SnapsKept, Reads, Answered, Idle
<1>8. ASSUME NEW h \in Handles, Delete(h) PROVE SnapsKept
  <2>1. Deleted(h) BY <1>8 DEF Delete
  <2>2. \A x \in Requests : req'[x] \in {req[x], Answered(Failed)} BY <2>1, DeletedMeans
  <2> QED BY <2>2 DEF SnapsKept, Reads, Answered, Idle
<1>9. CASE Restart
  <2>1. \A x \in Requests : req'[x] \in {req[x], Answered(Failed)} BY <1>9, RestartMeans
  <2> QED BY <2>1 DEF SnapsKept, Reads, Answered, Idle
<1>10. CASE \E c \in Requests : Calls(c) BY <1>10, CallsSnaps
<1>11. CASE ClientStep
  <2>1. ASSUME \A x \in Requests : Freed(x) PROVE SnapsKept
    BY <2>1 DEF Freed, SnapsKept, Reads, Idle
  <2>2. CASE Ask(Sync)
    <3>1. \E c \in Requests : Mine(c) /\ req'[c].pc \in {"ensure", "resume"} BY <2>2, AskMeans
    <3> QED BY <3>1, MineSnaps DEF Reads
  <2>3. CASE Take(Sync)
    <3>1. \E c \in Requests : Mine(c) /\ req'[c] = Idle BY <2>3, TakeMeans
    <3> QED BY <3>1, MineSnaps DEF Reads, Idle
  <2>4. CASE Disconnect(Sync) BY <2>1, <2>4, DroppedMeans DEF Disconnect
  <2>5. CASE \E r \in Requests : Abandoned(r) BY <2>1, <2>5, AbandonedMeans
  <2>6. CASE SyncStep BY <1>1, <2>6 DEF SyncStep, Clear, Commit, SaveCursor, serverVars
  <2>7. CASE \E resume \in BOOLEAN : Start(resume) BY <1>1, <2>7 DEF Start, serverVars
  <2>8. CASE Crash BY <2>1, <2>8, DroppedMeans DEF Crash, Hangup
  <2> QED BY <1>11, <2>2, <2>3, <2>4, <2>5, <2>6, <2>7, <2>8 DEF ClientStep
<1> QED BY <1>2, <1>3, <1>4, <1>5, <1>6, <1>7, <1>8, <1>9, <1>10, <1>11, NextCases

\* Rows of the snapshot come only while it is taken, and not under those who wait.
RowsKept(h) ==
    Good(h)' => \A o \in Int : (Snapshotting(h) = {} \/ (o = Beginning /\ Followed(h) # {})) /\ NoRows(h, o)
                                  => NoRows(h, o)'

\* What may happen to the log of a good handle.
LEMMA LogSteps ==
    ASSUME ReplicaInv, Next, NEW h, Good(h)'
    PROVE  \/ Read(h)' = Read(h)
           \/ \E w \in work : h \in w.todo /\ Apply(w, h)
           \/ \E c \in Requests : AppendPage(c) /\ req[c].handle = h
<1>1. CASE \E r \in Rows : \E content \in Contents \cup {None} : Write(r, content) BY <1>1, WriteSteady
<1>2. CASE Receive BY <1>2, ReceiveSteady
<1>3. CASE Coalesce BY <1>3, CoalesceSteady
<1>4. CASE \E w \in work : \E x \in w.todo : Apply(w, x) BY <1>4, ApplySteady
<1>5. CASE \E c \in Requests : AppendPage(c)
  <2>1. PICK c \in Requests : AppendPage(c) BY <1>5
  <2>2. h # req[c].handle => Read(h)' = Read(h) BY <2>1, AppendPageSteady
  <2> QED BY <2>1, <2>2
<1>6. ASSUME NEW c \in Requests, SnapshotFails(c) PROVE Read(h)' = Read(h)
  <2>1. PICK d : d = req[c].handle OBVIOUS
  <2>2. gone' = gone \cup {d} /\ log' = [x \in DOMAIN log \ {d} |-> log[x]]
    BY <1>6, <2>1, SnapshotFailsMeans DEF ReplicaInv
  <2>3. Exits(d) BY <1>6, <2>1, SnapshotFailsMeans DEF ReplicaInv
  <2> QED BY <2>2, <2>3, DeleteSteady
<1>7. ASSUME NEW d \in Handles, Delete(d) PROVE Read(h)' = Read(h)
  <2>1. Deleted(d) BY <1>7 DEF Delete
  <2>2. gone' = gone \cup {d} /\ log' = [x \in DOMAIN log \ {d} |-> log[x]]
    BY <2>1, DeletedMeans DEF ReplicaInv
  <2>3. Exits(d) BY <2>1, DeletedMeans DEF ReplicaInv
  <2> QED BY <2>2, <2>3, DeleteSteady
<1>8. CASE Restart BY <1>8, RestartSteady
<1>9. CASE \E c \in Requests : Calls(c) BY <1>9, CallsQuiet DEF Quiet
<1>10. CASE ClientStep BY <1>10, ClientQuiet DEF Quiet
<1> QED BY <1>1, <1>2, <1>3, <1>4, <1>5, <1>6, <1>7, <1>8, <1>9, <1>10, NextCases

LEMMA NoRowsAppended ==
    ASSUME NEW h, LogOk(Read(h)), NEW new, NewOk(new), Read(h)' = Appended(Read(h), new), NEW o,
           NoRows(h, o), \A i \in DOMAIN new : SnapshotEnd < new[i].offset
    PROVE  NoRows(h, o)'
<1> DEFINE l == Read(h)
           a == Appended(l, new)
           d == Excess(l, new)
           all == All(l, new)
<1>1. \A i \in DOMAIN a.messages : i + d \in DOMAIN all /\ a.messages[i] = all[i + d] BY ExcessMeans
<1>2. /\ \A i \in DOMAIN l.messages : all[i] = l.messages[i]
      /\ \A i \in DOMAIN all : \/ i \in DOMAIN l.messages
                               \/ i - Len(l.messages) \in DOMAIN new /\ all[i] = new[i - Len(l.messages)]
  BY AllMeans
<1>3. Messages(h) = l.messages /\ Messages(h)' = a.messages BY DEF Messages
<1>4. SnapshotEnd' = SnapshotEnd BY DEF SnapshotEnd
<1> HIDE DEF a, d, all
<1>5. \A i \in DOMAIN all : all[i].offset <= o \/ SnapshotEnd < all[i].offset BY <1>2, <1>3 DEF NoRows
<1> QED BY <1>1, <1>3, <1>4, <1>5 DEF NoRows

LEMMA RowsAll ==
    ASSUME ReplicaInv, Next, NEW h
    PROVE  RowsKept(h)
<1> USE DEF ReplicaInv
<1> SUFFICES ASSUME Good(h)', NEW o \in Int, Snapshotting(h) = {} \/ (o = Beginning /\ Followed(h) # {}), NoRows(h, o)
             PROVE  NoRows(h, o)'
  BY DEF RowsKept
<1>0. LogOk(Read(h)) BY ReadOk
<1>1. CASE Read(h)' = Read(h) BY <1>1, StillMeans
<1>2. ASSUME NEW w \in work, h \in w.todo, Apply(w, h) PROVE NoRows(h, o)'
  <2>1. PICK m \in Message : LET l == Appended(Read(h), <<m>>) IN
           m.offset = w.offset /\ NewOk(<<m>>) /\ log' = With(h, l)
    BY <1>2, ApplyMeans
  <2>2. Read(h)' = Appended(Read(h), <<m>>) BY <2>1, WithMeans
  <2>3. \A i \in DOMAIN <<m>> : SnapshotEnd < <<m>>[i].offset
    <3>1. SnapshotEnd < w.offset BY WorkFacts
    <3> QED BY <2>1, <3>1, OneMessage
  <2> QED BY <1>0, <2>1, <2>2, <2>3, NoRowsAppended
<1>3. ASSUME NEW c \in Requests, AppendPage(c), req[c].handle = h PROVE NoRows(h, o)'
  <2> DEFINE new == SnapshotMessages(c)
  <2>1. req[c].pc = "append" /\ (new = <<>> => log' = log)
        /\ (new # <<>> => flawed' = flawed \cup Back(h) \cup Followed(h) \cup Hidden(h, new))
    BY <1>3, AppendPageMeans
  <2> HIDE DEF new
  <2>2. c \in Snapshotting(h) BY <1>3, <2>1 DEF Snapshotting
  <2>3. Followed(h) # {} BY <2>2
  <2>4. Followed(h) \subseteq {h} BY DEF Followed
  <2>5. new = <<>> BY <2>1, <2>3, <2>4 DEF Good
  <2>6. Read(h)' = Read(h) BY <2>1, <2>5, SameReads
  <2> QED BY <2>6, StillMeans
<1> QED BY <1>1, <1>2, <1>3, LogSteps

\* An offset that has been given out stays in the log.
LEMMA BeyondKept ==
    ASSUME NodeInv, NEW h, Steady(h), SnapsKept, RowsKept(h), NEW o \in Int, Beyond(h, o)
    PROVE  Beyond(h, o)'
<1> SUFFICES ASSUME Good(h)', 0 <= o
             PROVE  Messages(h)' # <<>> /\ o <= (Read(h)').last
                    /\ (o < SnapshotEnd' => Snapshotting(h)' = {} /\ NoRows(h, o)')
  BY DEF Beyond
<1>1. Holds(h) /\ Good(h) BY DEF Steady, Holds
<1>2. Messages(h) # <<>> /\ o <= Read(h).last /\ (o < SnapshotEnd => Snapshotting(h) = {} /\ NoRows(h, o))
  BY <1>1 DEF Beyond
<1>3. Messages(h)' # <<>> BY <1>1, <1>2 DEF Holds
<1>4. o <= (Read(h)').last
  <2>1. Read(h).last \in Int
    <3>1. LogOk(Read(h)) BY ReadOk
    <3> QED BY <3>1, LogFacts
  <2>2. (Read(h)').last \in Int BY <1>1, LogFacts DEF Holds
  <2>3. Read(h).last <= (Read(h)').last BY <1>1 DEF Holds
  <2> QED BY <1>2, <2>1, <2>2, <2>3
<1>5. SnapshotEnd' = SnapshotEnd BY DEF SnapshotEnd
<1>6. ASSUME o < SnapshotEnd PROVE Snapshotting(h)' = {} /\ NoRows(h, o)'
  <2>1. Snapshotting(h) = {} /\ NoRows(h, o) BY <1>2, <1>6
  <2>2. Snapshotting(h)' = {} BY <1>2, <2>1, SnapsMeans
  <2> QED BY <2>1, <2>2 DEF RowsKept
<1> QED BY <1>3, <1>4, <1>5, <1>6

(***************************************************************************)
(* Logs: their changes and the rows of their snapshots are right.          *)
(***************************************************************************)
\* The newest change of a row that has one.
LEMMA NewestExists ==
    ASSUME Types, NEW n \in DOMAIN wal
    PROVE  \E k \in DOMAIN wal : n <= k /\ Newest(k, wal[n].row)
<1> DEFINE S == {k \in DOMAIN wal : wal[k].row = wal[n].row}
<1>1. DOMAIN wal = 1 .. Len(wal) /\ Len(wal) \in Nat BY LenProperties DEF Types, OriginOk
<1>2. S \in SUBSET Int BY <1>1
<1>3. IsFiniteSet(S)
  <2>1. IsFiniteSet(1 .. Len(wal)) BY <1>1, FS_Interval
  <2>2. S \subseteq 1 .. Len(wal) BY <1>1
  <2> QED BY <2>1, <2>2, FS_Subset
<1>4. n \in S OBVIOUS
<1> HIDE DEF S
<1>5. PICK k \in S : \A x \in S : x <= k BY <1>2, <1>3, <1>4, Greatest
<1>6. k \in DOMAIN wal /\ wal[k].row = wal[n].row BY DEF S
<1>7. \A m \in DOMAIN wal : k < m => wal[m].row # wal[n].row
  <2>1. SUFFICES ASSUME NEW m \in DOMAIN wal, k < m, wal[m].row = wal[n].row PROVE FALSE OBVIOUS
  <2>2. m \in S BY <2>1 DEF S
  <2>3. m <= k BY <1>5, <2>2
  <2>4. k \in 1 .. Len(wal) /\ m \in 1 .. Len(wal) BY <1>1, <1>6, <2>1
  <2> QED BY <1>1, <2>1, <2>3, <2>4
<1>8. n <= k BY <1>4, <1>5
<1>9. Newest(k, wal[n].row) BY <1>6, <1>7 DEF Newest
<1> QED BY <1>6, <1>8, <1>9

LEMMA InLog == ASSUME NEW h, Messages(h) # <<>> PROVE h \in DOMAIN log
BY DEF Messages, Read, EmptyLog

\* A change that stays the last about its row goes on to tell of the row.
LEMMA ChangeStays ==
    ASSUME NodeInv, NEW h \in Handles, Steady(h), Good(h)', NEW i \in DOMAIN Messages(h), NEW r \in Rows,
           Messages(h)[i].row = r, SnapshotEnd < Messages(h)[i].offset,
           \A j \in DOMAIN Messages(h) : Messages(h)[j].row = r /\ SnapshotEnd < Messages(h)[j].offset => j <= i,
           \A o \in Int : Read(h).last <= o /\ SnapshotEnd <= o => ~Has(h, r, o)'
    PROVE  Eff(Messages(h)[i]) = Seen(table'[r]) \/ Coming(h, r)'
<1>1. Good(h) /\ (h \in registry \cup DOMAIN log => Tells(h, r)) BY DEF Steady, Holds
<1>2. Messages(h) # <<>>
  <2>1. LogOk(Read(h)) BY ReadOk
  <2>2. DOMAIN Messages(h) = 1 .. Len(Messages(h)) BY <2>1, LogFacts DEF Messages
  <2>3. Len(<<>>) = 0 OBVIOUS
  <2> QED BY <2>2, <2>3
<1>3. Tells(h, r) BY <1>1, <1>2, InLog
<1>4. Eff(Messages(h)[i]) = Seen(table[r]) \/ Coming(h, r)
  <2>1. ChangesRight(h) BY DEF NodeInv
  <2> QED BY <1>1, <2>1 DEF ChangesRight
<1> QED BY <1>3, <1>4 DEF Tells

\* The last changes of a log stay right over an append.
LEMMA OldChanges ==
    ASSUME NodeInv, NEW h \in Handles, Steady(h), Good(h)', NEW new, NewOk(new), Read(h)' = Appended(Read(h), new),
           NEW i \in DOMAIN Messages(h)', i + Excess(Read(h), new) \in DOMAIN Messages(h), NEW r \in Rows,
           Messages(h)'[i].row = r, SnapshotEnd < Messages(h)'[i].offset,
           \A j \in DOMAIN Messages(h)' : Messages(h)'[j].row = r /\ SnapshotEnd < Messages(h)'[j].offset => j <= i
    PROVE  Eff(Messages(h)'[i]) = Seen(table'[r]) \/ Coming(h, r)'
<1> DEFINE l == Read(h)
           a == Appended(l, new)
           d == Excess(l, new)
           all == All(l, new)
           k == i + d
<1>0. LogOk(l) BY ReadOk
<1>1. /\ \A j \in DOMAIN a.messages : j + d \in DOMAIN all /\ a.messages[j] = all[j + d]
      /\ \A j \in DOMAIN all : d < j => j - d \in DOMAIN a.messages
      /\ d \in Nat /\ DOMAIN a.messages = 1 .. Len(a.messages)
  BY <1>0, ExcessMeans
<1>2. \A j \in DOMAIN l.messages : j \in DOMAIN all /\ all[j] = l.messages[j] BY <1>0, AllMeans
<1>3. /\ DOMAIN l.messages = 1 .. Len(l.messages) /\ Len(l.messages) \in Nat /\ l.last \in Int
      /\ \A j \in DOMAIN l.messages : l.messages[j].offset \in Int /\ l.messages[j].offset <= l.last
  BY <1>0, LogFacts
<1>4. Messages(h) = l.messages /\ Messages(h)' = a.messages BY DEF Messages
<1>5. k \in DOMAIN l.messages BY <1>4
<1> HIDE DEF a, d, all, l
<1>6. i \in 1 .. Len(a.messages) BY <1>1, <1>4
<1>7. a.messages[i] = l.messages[k] BY <1>1, <1>2, <1>4, <1>5
<1>8. ASSUME NEW j \in DOMAIN l.messages, l.messages[j].row = r, SnapshotEnd < l.messages[j].offset PROVE j <= k
  <2>1. CASE d < j
    <3>1. j - d \in DOMAIN a.messages /\ j - d + d = j BY <1>1, <1>2, <1>3, <2>1
    <3>2. a.messages[j - d] = l.messages[j] BY <1>1, <1>2, <3>1
    <3>3. j - d <= i BY <1>4, <1>8, <3>1, <3>2
    <3> QED BY <1>1, <1>3, <1>6, <3>3
  <2>2. CASE ~(d < j) BY <1>1, <1>3, <1>6, <2>2
  <2> QED BY <2>1, <2>2
<1>9. ASSUME NEW o \in Int, l.last <= o, SnapshotEnd <= o PROVE ~Has(h, r, o)'
  <2>1. SUFFICES ASSUME NEW j \in DOMAIN a.messages, a.messages[j].row = r, o < a.messages[j].offset PROVE FALSE
    BY <1>4 DEF Has
  <2>2. (Read(h)').messages = a.messages BY DEF a, l
  <2>3. a.messages[j].offset \in Int
    <3>1. Holds(h) BY DEF Steady
    <3> QED BY <2>2, <3>1, LogFacts DEF Holds
  <2>4. SnapshotEnd < a.messages[j].offset BY <1>9, <2>1, <2>3, SnapshotEndNat
  <2>5. j <= i BY <1>4, <2>1, <2>4
  <2>6. j + d \in DOMAIN l.messages
    <3>1. j \in Nat /\ 1 <= j /\ j + d <= i + d BY <1>1, <1>6, <2>5
    <3> QED BY <1>1, <1>3, <1>5, <3>1
  <2>7. a.messages[j] = l.messages[j + d] BY <1>1, <1>2, <2>6
  <2> QED BY <1>3, <1>9, <2>1, <2>6, <2>7
<1> HIDE DEF k
<1>10. Eff(l.messages[k]) = Seen(table'[r]) \/ Coming(h, r)'
  <2>1. \A o \in Int : Read(h).last <= o /\ SnapshotEnd <= o => ~Has(h, r, o)' BY <1>9 DEF l
  <2>2. Messages(h)[k].row = r /\ SnapshotEnd < Messages(h)[k].offset BY <1>4, <1>7
  <2>3. \A j \in DOMAIN Messages(h) : Messages(h)[j].row = r /\ SnapshotEnd < Messages(h)[j].offset => j <= k
    BY <1>4, <1>8
  <2>4. k \in DOMAIN Messages(h) BY <1>4, <1>5
  <2>5. Eff(Messages(h)[k]) = Seen(table'[r]) \/ Coming(h, r)' BY <2>1, <2>2, <2>3, <2>4, ChangeStays
  <2> QED BY <1>4, <2>5
<1> QED BY <1>4, <1>7, <1>10

LEMMA RowsOfNext ==
    ASSUME NEW h, Steady(h), Good(h)'
    PROVE  \A i \in DOMAIN Messages(h)' : Messages(h)'[i].row \in Rows /\ Messages(h)'[i].offset \in Int
BY LogFacts DEF Steady, Holds, Messages

\* Where a message of a log after an append comes from.
LEMMA AppendedEntry ==
    ASSUME NEW l, LogOk(l), NEW new, NewOk(new), NEW i \in DOMAIN Appended(l, new).messages
    PROVE  \/ /\ i + Excess(l, new) \in DOMAIN l.messages
              /\ Appended(l, new).messages[i] = l.messages[i + Excess(l, new)]
           \/ \E j \in DOMAIN new : Appended(l, new).messages[i] = new[j]
<1> DEFINE k == i + Excess(l, new)
           all == All(l, new)
<1>1. k \in DOMAIN all /\ Appended(l, new).messages[i] = all[k] BY ExcessMeans
<1>2. /\ \A j \in DOMAIN l.messages : all[j] = l.messages[j]
      /\ \A j \in DOMAIN all : \/ j \in DOMAIN l.messages
                               \/ j - Len(l.messages) \in DOMAIN new /\ all[j] = new[j - Len(l.messages)]
  BY AllMeans
<1> HIDE DEF k, all
<1>3. \/ k \in DOMAIN l.messages /\ all[k] = l.messages[k]
      \/ k - Len(l.messages) \in DOMAIN new /\ all[k] = new[k - Len(l.messages)]
  BY <1>1, <1>2
<1> QED BY <1>1, <1>3 DEF k

\* Every step keeps the changes of the logs right.
LEMMA ChangesAll ==
    ASSUME ReplicaInv, Next, NEW h \in Handles
    PROVE  ChangesRight(h)'
<1> USE DEF ReplicaInv
<1>0. SnapshotEnd' = SnapshotEnd BY DEF SnapshotEnd
<1>1. SUFFICES ASSUME Good(h)',
                      NEW i \in DOMAIN Messages(h)', NEW r \in Rows, r = Messages(h)'[i].row,
                      SnapshotEnd < Messages(h)'[i].offset,
                      \A j \in DOMAIN Messages(h)' : Messages(h)'[j].row = r /\ SnapshotEnd < Messages(h)'[j].offset => j <= i
               PROVE  Eff(Messages(h)'[i]) = Seen(table'[r]) \/ Coming(h, r)'
  <2>1. SUFFICES ASSUME Good(h)', NEW i \in DOMAIN Messages(h)', SnapshotEnd < Messages(h)'[i].offset,
                   \A j \in DOMAIN Messages(h)' :
                     Messages(h)'[j].row = Messages(h)'[i].row /\ SnapshotEnd < Messages(h)'[j].offset => j <= i
                 PROVE Eff(Messages(h)'[i]) = Seen(table'[Messages(h)'[i].row]) \/ Coming(h, Messages(h)[i].row)'
    BY <1>0 DEF ChangesRight, Eff, Seen, Project, NoFilter
  <2>2. Steady(h) BY SteadyAll
  <2>3. PICK r \in Rows : r = Messages(h)'[i].row BY <2>1, <2>2, RowsOfNext
  <2>4. Eff(Messages(h)'[i]) = Seen(table'[r]) \/ Coming(h, r)' BY <1>1, <2>1, <2>3
  <2> QED BY <2>3, <2>4 DEF Coming, Newest
<1>2. Steady(h) BY SteadyAll
<1>3. LogOk(Read(h)) BY ReadOk
<1>4. CASE Read(h)' = Read(h)
  <2>1. Messages(h)' = Messages(h) BY <1>4, StillMeans
  <2>2. ASSUME NEW o \in Int, Read(h).last <= o PROVE ~Has(h, r, o)'
    <3>1. SUFFICES ASSUME NEW j \in DOMAIN Messages(h), o < Messages(h)[j].offset PROVE FALSE
      BY <2>1 DEF Has
    <3>2. Messages(h)[j].offset \in Int /\ Messages(h)[j].offset <= Read(h).last /\ Read(h).last \in Int
      BY <1>3, LogFacts DEF Messages
    <3> QED BY <2>2, <3>1, <3>2
  <2> QED BY <1>1, <1>2, <2>1, <2>2, ChangeStays
<1>5. ASSUME NEW w \in work, h \in w.todo, Apply(w, h) PROVE Eff(Messages(h)'[i]) = Seen(table'[r]) \/ Coming(h, r)'
  <2>1. PICK m \in Message : LET l == Appended(Read(h), <<m>>) IN
           /\ m.offset = w.offset /\ m.row = wal[w.lsn].row /\ Eff(m) = Seen(wal[w.lsn].new)
           /\ NewOk(<<m>>) /\ log' = With(h, l)
    BY <1>5, ApplyMeans
  <2>2. Read(h)' = Appended(Read(h), <<m>>) BY <2>1, WithMeans
  <2> DEFINE d == Excess(Read(h), <<m>>)
  <2>3. Messages(h)' = Appended(Read(h), <<m>>).messages /\ Messages(h) = Read(h).messages BY <2>2 DEF Messages
  <2>4. \/ i + d \in DOMAIN Messages(h)
        \/ \E j \in DOMAIN <<m>> : Messages(h)'[i] = <<m>>[j]
    BY <1>1, <1>3, <2>1, <2>3, AppendedEntry
  <2>5. CASE i + d \in DOMAIN Messages(h) BY <1>1, <1>2, <2>1, <2>2, <2>5, OldChanges
  <2>6. CASE i + d \notin DOMAIN Messages(h)
    <3>1. Messages(h)'[i] = m BY <2>4, <2>6, OneMessage
    <3>2. w.lsn \in DOMAIN wal /\ w.lsn < next /\ w.lsn \in Nat BY WorkFacts
    <3>3. /\ UNCHANGED <<table, wal, next>> /\ Read(h).last < w.offset BY <1>1, <1>5, ApplySteady
    <3>4. PICK k \in DOMAIN wal : w.lsn <= k /\ Newest(k, r) BY <1>1, <2>1, <3>1, <3>2, NewestExists
    <3>5. CASE k = w.lsn
      <4>1. wal[k].new = table[r] BY <3>4 DEF Types, OriginOk
      <4> QED BY <2>1, <3>1, <3>3, <3>5, <4>1
    <3>6. CASE k # w.lsn
      <4>1. k \in Nat /\ next \in Nat /\ 1 <= k
        <5>1. DOMAIN wal = 1 .. Len(wal) BY LenProperties DEF Types, OriginOk
        <5> QED BY <5>1 DEF Types, NodeOk
      <4>2. w.lsn < k BY <3>2, <3>4, <3>6, <4>1
      <4>3. Carried(h, k)
        <5>1. CASE next <= k BY <5>1 DEF Carried
        <5>2. CASE ~(next <= k)
          <6>1. k \in 1 .. next - 1 BY <4>1, <5>2
          <6>2. WorkFits(w) /\ Good(h) BY <1>1, <1>2 DEF NodeInv, Steady, Holds
          <6>3. w.offset <= Read(h).last \/ Carried(h, k) BY <1>5, <4>2, <6>1, <6>2 DEF WorkFits
          <6>4. w.offset \in Int /\ Read(h).last \in Int BY <1>3, WorkFacts, LogFacts
          <6> QED BY <3>3, <6>3, <6>4
        <5> QED BY <5>1, <5>2
      <4>4. Carried(h, k)'
        <5>1. \A v \in work : v # w => v \in work' BY <1>5, ApplyMeans
        <5> QED BY <3>3, <3>6, <4>3, <5>1 DEF Carried
      <4>5. Newest(k, r)' BY <3>3, <3>4 DEF Newest
      <4> QED BY <3>3, <4>4, <4>5 DEF Coming
    <3> QED BY <3>5, <3>6
  <2> QED BY <2>5, <2>6
<1>6. ASSUME NEW c \in Requests, AppendPage(c), req[c].handle = h PROVE Eff(Messages(h)'[i]) = Seen(table'[r]) \/ Coming(h, r)'
  <2>0. PICK new : new = SnapshotMessages(c) OBVIOUS
  <2>1. /\ new # <<>> => NewOk(new) /\ log' = With(h, Appended(Read(h), new))
        /\ \A k \in DOMAIN new : new[k].offset < SnapshotEnd /\ new[k] \in Message
        /\ new = <<>> => log' = log
    <3>1. /\ new # <<>> => NewOk(new) /\ log' = With(h, Appended(Read(h), new))
          /\ \A k \in DOMAIN new : new[k].offset < SnapshotEnd
          /\ new = <<>> => log' = log
          /\ new \in Seq(Message)
      BY <1>6, <2>0, AppendPageMeans
    <3> QED BY <3>1, ElementOfSeq, LenProperties
  <2>2. CASE new = <<>> BY <1>4, <2>1, <2>2, SameReads
  <2>3. CASE new # <<>>
    <3>1. Read(h)' = Appended(Read(h), new) BY <2>1, <2>3, WithMeans
    <3> DEFINE d == Excess(Read(h), new)
    <3>2. Messages(h)' = Appended(Read(h), new).messages /\ Messages(h) = Read(h).messages BY <3>1 DEF Messages
    <3>3. i + d \in DOMAIN Messages(h) \/ \E j \in DOMAIN new : Messages(h)'[i] = new[j]
      BY <1>1, <1>3, <2>1, <2>3, <3>2, AppendedEntry
    <3>4. i + d \in DOMAIN Messages(h)
      <4>1. SUFFICES ASSUME NEW k \in DOMAIN new, Messages(h)'[i] = new[k] PROVE FALSE BY <3>3
      <4>2. new[k].offset < SnapshotEnd /\ new[k].offset \in Int BY <2>1 DEF Message
      <4> QED BY <1>1, <4>1, <4>2, SnapshotEndNat
    <3> QED BY <1>1, <1>2, <2>1, <2>3, <3>1, <3>4, OldChanges
  <2> QED BY <2>2, <2>3
<1> QED BY <1>1, <1>4, <1>5, <1>6, LogSteps

\* Every step keeps the rows of the snapshots right.
LEMMA SnapshotAll ==
    ASSUME ReplicaInv, Next, NEW h \in Handles
    PROVE  SnapshotRight(h)'
<1> USE DEF ReplicaInv
<1>0. SnapshotEnd' = SnapshotEnd BY DEF SnapshotEnd
<1>1. Steady(h) BY SteadyAll
<1>2. SUFFICES ASSUME Whole(h)', NEW i \in DOMAIN Messages(h)', NEW r \in Rows, r = Messages(h)'[i].row,
                      Messages(h)'[i].offset < SnapshotEnd
               PROVE  Eff(Messages(h)'[i]) = Seen(table'[r]) \/ Told(h, r)'
  <2>1. SUFFICES ASSUME Whole(h)', NEW i \in DOMAIN Messages(h)', Messages(h)'[i].offset < SnapshotEnd
                 PROVE Eff(Messages(h)'[i]) = Seen(table'[Messages(h)'[i].row]) \/ Told(h, Messages(h)[i].row)'
    BY <1>0 DEF SnapshotRight, Eff, Seen, Project, NoFilter
  <2>2. Good(h)' BY <2>1 DEF Whole
  <2>3. PICK r \in Rows : r = Messages(h)'[i].row BY <1>1, <2>1, <2>2, RowsOfNext
  <2>4. Eff(Messages(h)'[i]) = Seen(table'[r]) \/ Told(h, r)' BY <1>2, <2>1, <2>3
  <2> QED BY <2>3, <2>4 DEF Told, Coming, Newest, Has
<1>3. LogOk(Read(h)) BY ReadOk
<1>4. Good(h)' /\ Good(h) /\ Whole(h) BY <1>1, <1>2, SteadyMeans DEF Whole
<1>5. ASSUME NEW k \in DOMAIN Messages(h), Messages(h)'[i] = Messages(h)[k]
      PROVE  Eff(Messages(h)'[i]) = Seen(table'[r]) \/ Told(h, r)'
  <2>1. h \in registry \cup DOMAIN log
    <3>1. DOMAIN Messages(h) = 1 .. Len(Messages(h)) BY <1>3, LogFacts DEF Messages
    <3>2. Messages(h) # <<>>
      <4>1. Len(<<>>) = 0 OBVIOUS
      <4> QED BY <3>1, <4>1
    <3> QED BY <3>2, InLog
  <2>2. SnapshotRight(h) BY DEF NodeInv
  <2>3. Eff(Messages(h)[k]) = Seen(table[r]) \/ Told(h, r) BY <1>2, <1>4, <1>5, <2>2 DEF SnapshotRight
  <2>4. (Told(h, r) => Told(h, r)') /\ (table'[r] = table[r] \/ Told(h, r)') BY <1>1, <1>2, <2>1, KnownKept
  <2> QED BY <1>5, <2>3, <2>4
<1>6. CASE Read(h)' = Read(h)
  <2>1. Messages(h)' = Messages(h) BY <1>6, StillMeans
  <2> QED BY <1>2, <1>5, <2>1
<1>7. ASSUME NEW new, NewOk(new), Read(h)' = Appended(Read(h), new)
      PROVE (\E k \in DOMAIN Messages(h) : Messages(h)'[i] = Messages(h)[k]) \/ (\E j \in DOMAIN new : Messages(h)'[i] = new[j])
  <2>1. Messages(h)' = Appended(Read(h), new).messages /\ Messages(h) = Read(h).messages BY <1>7 DEF Messages
  <2> QED BY <1>2, <1>3, <1>7, <2>1, AppendedEntry
<1>8. ASSUME NEW w \in work, h \in w.todo, Apply(w, h) PROVE Eff(Messages(h)'[i]) = Seen(table'[r]) \/ Told(h, r)'
  <2>1. PICK m \in Message : LET l == Appended(Read(h), <<m>>) IN
           m.offset = w.offset /\ NewOk(<<m>>) /\ log' = With(h, l)
    BY <1>8, ApplyMeans
  <2>2. Read(h)' = Appended(Read(h), <<m>>) BY <2>1, WithMeans
  <2>3. CASE \E k \in DOMAIN Messages(h) : Messages(h)'[i] = Messages(h)[k] BY <1>5, <2>3
  <2>4. CASE \E j \in DOMAIN <<m>> : Messages(h)'[i] = <<m>>[j]
    <3>1. Messages(h)'[i].offset = w.offset BY <2>1, <2>4, OneMessage
    <3>2. SnapshotEnd < w.offset /\ w.offset \in Int BY WorkFacts
    <3> QED BY <1>2, <3>1, <3>2, SnapshotEndNat
  <2> QED BY <1>7, <2>1, <2>2, <2>3, <2>4
<1>9. ASSUME NEW c \in Requests, AppendPage(c), req[c].handle = h PROVE Eff(Messages(h)'[i]) = Seen(table'[r]) \/ Told(h, r)'
  <2>0. PICK new : new = SnapshotMessages(c) OBVIOUS
  <2>1. /\ new # <<>> => NewOk(new) /\ log' = With(h, Appended(Read(h), new))
        /\ \A k \in DOMAIN new : new[k].row \in DOMAIN req[c].rows /\ Eff(new[k]) = Seen(req[c].rows[new[k].row])
        /\ new = <<>> => log' = log
        /\ req[c].pc = "append"
    BY <1>9, <2>0, AppendPageMeans
  <2>2. CASE new = <<>> BY <1>6, <2>1, <2>2, SameReads
  <2>3. CASE new # <<>>
    <3>1. Read(h)' = Appended(Read(h), new) BY <2>1, <2>3, WithMeans
    <3>2. CASE \E k \in DOMAIN Messages(h) : Messages(h)'[i] = Messages(h)[k] BY <1>5, <3>2
    <3>3. ASSUME NEW j \in DOMAIN new, Messages(h)'[i] = new[j] PROVE Eff(Messages(h)'[i]) = Seen(table'[r]) \/ Told(h, r)'
      <4>1. r \in DOMAIN req[c].rows /\ Eff(new[j]) = Seen(req[c].rows[r]) BY <1>2, <2>1, <3>3
      <4>2. SnapFits(c) /\ ReqFits(c) BY DEF NodeInv
      <4>3. req[c].rows[r] = table[r] \/ Told(h, r) BY <1>4, <1>9, <2>1, <4>1, <4>2 DEF SnapFits
      <4>4. h \in registry BY <1>4, <1>9, <2>1, <4>2 DEF ReqFits
      <4>5. (Told(h, r) => Told(h, r)') /\ (table'[r] = table[r] \/ Told(h, r)') BY <1>1, <1>2, <4>4, KnownKept
      <4> QED BY <3>3, <4>1, <4>3, <4>5
    <3> QED BY <1>7, <2>1, <2>3, <3>1, <3>2, <3>3
  <2> QED BY <2>2, <2>3
<1> QED BY <1>4, <1>6, <1>8, <1>9, LogSteps

(***************************************************************************)
(* The changes in hand, and the order of a log.                            *)
(***************************************************************************)
LEMMA LastGrows ==
    ASSUME NodeInv, NEW h, Steady(h), Good(h)'
    PROVE  /\ Good(h) /\ Read(h).last \in Int /\ (Read(h)').last \in Int /\ Read(h).last <= (Read(h)').last
<1>1. Holds(h) BY DEF Steady
<1>2. LogOk(Read(h)) BY ReadOk
<1> QED BY <1>1, <1>2, LogFacts DEF Holds

\* Work that is kept fits as before.
LEMMA WorkKept ==
    ASSUME ReplicaInv, Next, UNCHANGED <<work, next>>, \A h : Good(h)' /\ h \in registry => h \in registry'
    PROVE  \A w \in work' : WorkFits(w)'
<1> USE DEF ReplicaInv
<1> SUFFICES ASSUME NEW w \in work PROVE WorkFits(w)' OBVIOUS
<1>0. SnapshotEnd' = SnapshotEnd BY DEF SnapshotEnd
<1>1. WorkFits(w) /\ w.offset \in Int BY WorkFacts DEF NodeInv
<1>2. ASSUME NEW h \in w.todo, Good(h)'
      PROVE  h \in registry' /\ \A m \in 1 .. next - 1 : w.lsn < m => w.offset <= (Read(h)').last \/ Carried(h, m)'
  <2>1. Steady(h) BY SteadyAll
  <2>2. Good(h) /\ Read(h).last \in Int /\ (Read(h)').last \in Int /\ Read(h).last <= (Read(h)').last
    BY <1>2, <2>1, LastGrows
  <2>3. h \in registry /\ \A m \in 1 .. next - 1 : w.lsn < m => w.offset <= Read(h).last \/ Carried(h, m)
    BY <1>1, <2>2 DEF WorkFits
  <2>4. \A m : Carried(h, m)' <=> Carried(h, m) BY DEF Carried
  <2>5. w.offset <= Read(h).last => w.offset <= (Read(h)').last BY <1>1, <2>2
  <2> QED BY <1>2, <2>3, <2>4, <2>5
<1> QED BY <1>0, <1>1, <1>2 DEF WorkFits

LEMMA ReceiveWork ==
    ASSUME ReplicaInv, Next, Receive
    PROVE  \A w \in work' : WorkFits(w)'
<1> USE DEF ReplicaInv
<1>0. SnapshotEnd' = SnapshotEnd BY DEF SnapshotEnd
<1>1. PICK v : /\ v.lsn = next /\ v.todo = registry /\ v \in [lsn : Nat, offset : Int, todo : SUBSET Handles]
               /\ SnapshotEnd + 3 * next - 1 <= v.offset /\ v.offset <= SnapshotEnd + 3 * next + 1
               /\ work' = IF registry = {} THEN work ELSE work \cup {v}
  BY ReceiveMeans
<1>2. next' = next + 1 /\ next \in Nat \ {0} BY ReceiveMeans DEF Types, NodeOk
<1>3. UNCHANGED <<registry, log>> BY DEF Receive, shapes
<1>4. ASSUME NEW w \in work PROVE WorkFits(w)'
  <2>1. WorkFits(w) /\ w.offset \in Int /\ w.lsn \in Nat BY WorkFacts DEF NodeInv
  <2>2. ASSUME NEW h \in w.todo, Good(h)'
        PROVE  h \in registry' /\ \A m \in 1 .. next' - 1 : w.lsn < m => w.offset <= (Read(h)').last \/ Carried(h, m)'
    <3>1. Steady(h) /\ Read(h)' = Read(h) BY ReceiveSteady
    <3>2. Good(h) BY <2>2, <3>1, LastGrows
    <3>3. h \in registry /\ \A m \in 1 .. next - 1 : w.lsn < m => w.offset <= Read(h).last \/ Carried(h, m)
      BY <2>1, <3>2 DEF WorkFits
    <3>4. work' = work \cup {v} BY <1>1, <3>3
    <3>5. ASSUME NEW m \in 1 .. next' - 1, w.lsn < m PROVE w.offset <= (Read(h)').last \/ Carried(h, m)'
      <4>1. CASE m = next
        <5>1. v \in work' /\ v.lsn = m /\ h \in v.todo BY <1>1, <3>3, <3>4, <4>1
        <5> QED BY <5>1 DEF Carried
      <4>2. CASE m # next
        <5>1. m \in 1 .. next - 1 BY <1>2, <4>2
        <5>2. Carried(h, m) => Carried(h, m)'
          <6>1. ~(next <= m) BY <1>2, <5>1
          <6> QED BY <3>4, <6>1 DEF Carried
        <5> QED BY <3>1, <3>3, <3>5, <5>1, <5>2
      <4> QED BY <4>1, <4>2
    <3> QED BY <1>3, <3>3, <3>5
  <2>3. w.lsn < next' BY <1>2, <2>1 DEF WorkFits
  <2> QED BY <1>0, <2>1, <2>2, <2>3 DEF WorkFits
<1>5. WorkFits(v)'
  <2>1. 1 <= v.lsn /\ v.lsn < next' BY <1>1, <1>2
  <2>2. \A m \in 1 .. next' - 1 : ~(v.lsn < m) BY <1>1, <1>2
  <2> QED BY <1>0, <1>1, <1>3, <2>1, <2>2 DEF WorkFits
<1> QED BY <1>1, <1>4, <1>5

LEMMA CoalesceWork ==
    ASSUME ReplicaInv, Next, Coalesce
    PROVE  \A w \in work' : WorkFits(w)'
<1> USE DEF ReplicaInv
<1>0. SnapshotEnd' = SnapshotEnd BY DEF SnapshotEnd
<1>1. UNCHANGED <<work>> BY DEF Coalesce
<1>2. next' = next + 1 /\ next \in Nat BY CoalesceMeans DEF Types, NodeOk
<1>3. ASSUME NEW w \in work PROVE WorkFits(w)'
  <2>1. WorkFits(w) /\ w.lsn \in Nat BY WorkFacts DEF NodeInv
  <2>2. ASSUME NEW h \in w.todo PROVE ~Good(h)'
    <3>1. Good(h)' => Good(h) /\ h \notin registry BY CoalesceSteady, LastGrows
    <3>2. Good(h) => h \in registry BY <2>1 DEF WorkFits
    <3> QED BY <3>1, <3>2
  <2>3. w.lsn < next' BY <1>2, <2>1 DEF WorkFits
  <2> QED BY <1>0, <2>1, <2>2, <2>3 DEF WorkFits
<1> QED BY <1>1, <1>3

LEMMA ApplyWork ==
    ASSUME ReplicaInv, Next, NEW w \in work, NEW h \in w.todo, Apply(w, h)
    PROVE  \A v \in work' : WorkFits(v)'
<1> USE DEF ReplicaInv
<1>0. SnapshotEnd' = SnapshotEnd BY DEF SnapshotEnd
<1>1. work' = (work \ {w}) \cup IF w.todo \ {h} = {} THEN {} ELSE {[w EXCEPT !.todo = w.todo \ {h}]} BY ApplyMeans
<1>2. UNCHANGED <<next, registry>> BY ApplySteady
<1>3. PICK m \in Message : LET l == Appended(Read(h), <<m>>) IN
         m.offset = w.offset /\ NewOk(<<m>>) /\ log' = With(h, l)
  BY ApplyMeans
<1>4. Read(h)' = Appended(Read(h), <<m>>) BY <1>3, WithMeans
<1>5. w.offset <= (Read(h)').last
  <2>1. LogOk(Read(h)) BY ReadOk
  <2>2. 1 \in DOMAIN <<m>> /\ <<m>>[1] = m BY OneMessage
  <2>3. <<m>>[1].offset <= Appended(Read(h), <<m>>).last BY <1>3, <2>1, <2>2, AppendedMeans
  <2> QED BY <1>3, <1>4, <2>2, <2>3
<1>6. w.offset \in Int /\ w.lsn \in Nat /\ w = [lsn |-> w.lsn, offset |-> w.offset, todo |-> w.todo] /\ WorkFits(w)
  BY WorkFacts DEF NodeInv
<1>7. \A x : Steady(x) BY SteadyAll
\* What v promises, v in hand before the step, is still so of the handles that v has left.
<1>8. ASSUME NEW v \in work, NEW x \in v.todo, v # w \/ x # h, Good(x)', NEW n \in 1 .. next - 1, v.lsn < n
      PROVE  v.offset <= (Read(x)').last \/ Carried(x, n)'
  <2>1. Good(x) /\ Read(x).last \in Int /\ (Read(x)').last \in Int /\ Read(x).last <= (Read(x)').last
    BY <1>7, <1>8, LastGrows
  <2>2. WorkFits(v) /\ v.offset \in Int /\ v.lsn \in Nat BY WorkFacts DEF NodeInv
  <2>3. v.offset <= Read(x).last \/ Carried(x, n) BY <1>8, <2>1, <2>2 DEF WorkFits
  <2>4. CASE v.offset <= Read(x).last BY <2>1, <2>2, <2>4
  <2>5. CASE Carried(x, n)
    <3>1. CASE next <= n BY <1>2, <3>1 DEF Carried
    <3>2. CASE ~(next <= n)
      <4>1. PICK u \in work : u.lsn = n /\ x \in u.todo BY <2>5, <3>2 DEF Carried
      <4>2. CASE u # w
        <5>1. u \in work' BY <1>1, <4>2
        <5> QED BY <4>1, <5>1 DEF Carried
      <4>3. CASE u = w /\ x # h
        <5> DEFINE z == [w EXCEPT !.todo = w.todo \ {h}]
        <5>1. z.todo = w.todo \ {h} /\ z.lsn = w.lsn BY <1>6
        <5>2. z \in work' BY <1>1, <4>1, <4>3
        <5> HIDE DEF z
        <5> QED BY <4>1, <4>3, <5>1, <5>2 DEF Carried
      <4>4. CASE u = w /\ x = h
        <5>1. v.lsn < w.lsn BY <1>8, <4>1, <4>4
        <5>2. v.offset <= SnapshotEnd + 3 * v.lsn + 1 /\ SnapshotEnd + 3 * w.lsn - 1 <= w.offset BY <1>6, <2>2 DEF WorkFits
        <5>3. v.offset <= w.offset BY <1>6, <2>2, <5>1, <5>2, SnapshotEndNat
        <5>4. (Read(h)').last \in Int BY <2>1, <4>4
        <5>5. v.offset <= (Read(h)').last BY <1>5, <1>6, <2>2, <5>3, <5>4
        <5> QED BY <4>4, <5>5
      <4> QED BY <4>2, <4>3, <4>4
    <3> QED BY <3>1, <3>2
  <2> QED BY <2>3, <2>4, <2>5
<1>9. ASSUME NEW v \in work, NEW x \in v.todo, Good(x)' PROVE x \in registry'
  <2>1. WorkFits(v) BY DEF NodeInv
  <2>2. Good(x) BY <1>7, <1>9, LastGrows
  <2> QED BY <1>2, <2>1, <2>2 DEF WorkFits
<1>10. ASSUME NEW v \in work, v # w PROVE WorkFits(v)'
  <2>1. WorkFits(v) BY DEF NodeInv
  <2> QED BY <1>0, <1>2, <1>8, <1>9, <1>10, <2>1 DEF WorkFits
<1>11. WorkFits([w EXCEPT !.todo = w.todo \ {h}])'
  <2>1. PICK z : z = [w EXCEPT !.todo = w.todo \ {h}] OBVIOUS
  <2>2. z.lsn = w.lsn /\ z.offset = w.offset /\ z.todo = w.todo \ {h} BY <1>6, <2>1
  <2>3. ASSUME NEW x \in z.todo, Good(x)'
        PROVE  x \in registry' /\ \A n \in 1 .. next - 1 : z.lsn < n => z.offset <= (Read(x)').last \/ Carried(x, n)'
    BY <1>8, <1>9, <2>2, <2>3
  <2>4. WorkFits(z)' BY <1>0, <1>2, <1>6, <2>2, <2>3 DEF WorkFits
  <2> QED BY <2>1, <2>4
<1> QED BY <1>1, <1>10, <1>11

\* Every step keeps the work in hand fitting.
\* A worker that exits with a deleted log.
LEMMA ExitWork ==
    ASSUME ReplicaInv, Next, NEW d, registry' = registry \ {d}, gone' = gone \cup {d}, Exits(d)
    PROVE  \A w \in work' : WorkFits(w)'
<1> USE DEF ReplicaInv
<1> SUFFICES ASSUME NEW w \in work' PROVE WorkFits(w)'
  OBVIOUS
<1>0. SnapshotEnd' = SnapshotEnd BY DEF SnapshotEnd
<1>1. w \in work /\ next' = next BY DEF Exits
<1>2. WorkFits(w) /\ w.offset \in Int BY <1>1, WorkFacts DEF NodeInv
<1>3. ASSUME NEW h \in w.todo, Good(h)'
      PROVE  h \in registry' /\ \A m \in 1 .. next - 1 : w.lsn < m => w.offset <= (Read(h)').last \/ Carried(h, m)'
  <2>1. Steady(h) BY SteadyAll
  <2>2. Good(h) /\ Read(h).last \in Int /\ (Read(h)').last \in Int /\ Read(h).last <= (Read(h)').last
    BY <1>3, <2>1, LastGrows
  <2>3. h \in registry /\ \A m \in 1 .. next - 1 : w.lsn < m => w.offset <= Read(h).last \/ Carried(h, m)
    BY <1>2, <2>2 DEF WorkFits
  <2>4. h # d /\ h \notin flawed' BY <1>3 DEF Good
  <2>5. ASSUME NEW m, Carried(h, m) PROVE Carried(h, m)'
    <3>1. CASE next <= m BY <1>1, <3>1 DEF Carried
    <3>2. CASE \E u \in work : u.lsn = m /\ h \in u.todo
      <4>1. PICK u \in work : u.lsn = m /\ h \in u.todo BY <3>2
      <4>2. u \in work' BY <2>4, <4>1 DEF Exits
      <4> QED BY <4>1, <4>2 DEF Carried
    <3> QED BY <2>5, <3>1, <3>2 DEF Carried
  <2>6. w.offset <= Read(h).last => w.offset <= (Read(h)').last BY <1>2, <2>2
  <2> QED BY <2>3, <2>4, <2>5, <2>6
<1> QED BY <1>0, <1>1, <1>2, <1>3 DEF WorkFits

LEMMA WorkAll ==
    ASSUME ReplicaInv, Next
    PROVE  \A w \in work' : WorkFits(w)'
<1> USE DEF ReplicaInv
<1>1. ASSUME NEW r \in Rows, NEW content \in Contents \cup {None}, Write(r, content) PROVE \A w \in work' : WorkFits(w)'
  <2>1. UNCHANGED <<work, next, registry>> BY <1>1 DEF Write, stream_, shapes
  <2> QED BY <2>1, WorkKept
<1>2. ASSUME NEW c \in Requests, AppendPage(c) PROVE \A w \in work' : WorkFits(w)'
  <2>1. UNCHANGED <<work, next, registry>> BY <1>2 DEF AppendPage, stream_
  <2> QED BY <2>1, WorkKept
<1>3. ASSUME NEW c \in Requests, SnapshotFails(c) PROVE \A w \in work' : WorkFits(w)'
  <2>1. PICK d : d = req[c].handle OBVIOUS
  <2>2. registry' = registry \ {d} /\ gone' = gone \cup {d} /\ Exits(d) BY <1>3, <2>1, SnapshotFailsMeans
  <2> QED BY <2>2, ExitWork
<1>4. ASSUME NEW d \in Handles, Delete(d) PROVE \A w \in work' : WorkFits(w)'
  <2>1. Deleted(d) BY <1>4 DEF Delete
  <2>2. registry' = registry \ {d} /\ gone' = gone \cup {d} /\ Exits(d) BY <2>1, DeletedMeans
  <2> QED BY <2>2, ExitWork
<1>5. CASE Restart BY <1>5, RestartMeans
<1>6. CASE Quiet BY <1>6, WorkKept DEF Quiet
<1>7. CASE \E c \in Requests : Calls(c) BY <1>6, <1>7, CallsQuiet
<1>8. CASE ClientStep BY <1>6, <1>8, ClientQuiet
<1> QED BY <1>1, <1>2, <1>3, <1>4, <1>5, <1>7, <1>8, ReceiveWork, CoalesceWork, ApplyWork, NextCases

\* The changes of a log are in the order of their offsets.
Ascending(h) == \A i, j \in DOMAIN Messages(h) :
                   i < j /\ SnapshotEnd < Messages(h)[i].offset /\ SnapshotEnd < Messages(h)[j].offset
                      => Messages(h)[i].offset < Messages(h)[j].offset

\* A log that a step leaves alone.
LEMMA LogKept ==
    ASSUME NodeInv, NEW h \in DOMAIN log, h \in DOMAIN log', Read(h)' = Read(h), Steady(h),
           h \in gone' => h \in gone, flawed \subseteq flawed',
           Good(h)' /\ Messages(h) = <<>> /\ h \in registry => h \in registry'
    PROVE  LogFits(h)'
<1>0. SnapshotEnd' = SnapshotEnd BY DEF SnapshotEnd
<1>1. LogFits(h) BY DEF NodeInv
<1>2. Messages(h)' = Messages(h) BY StillMeans
<1>3. LogOk(log'[h])
  <2>1. LogOk(log[h]) BY <1>1 DEF LogFits
  <2> QED BY <2>1 DEF Read
<1>4. Good(h)' => Good(h) BY DEF Steady, Holds
<1> QED BY <1>0, <1>1, <1>2, <1>3, <1>4 DEF LogFits

LEMMA LogGrown ==
    ASSUME NodeInv, NEW h \in DOMAIN log', NEW new, NewOk(new), Read(h)' = Appended(Read(h), new), Steady(h),
           h \in gone' => h \in flawed',
           \/ \A i \in DOMAIN new : new[i].offset < SnapshotEnd
           \/ Len(new) = 1 /\ (Good(h)' => Read(h).last < new[1].offset)
    PROVE  LogFits(h)'
<1> DEFINE l == Read(h)
           a == Appended(l, new)
           d == Excess(l, new)
           all == All(l, new)
<1>0. LogOk(l) BY ReadOk
<1>1. /\ \A j \in DOMAIN a.messages : j + d \in DOMAIN all /\ a.messages[j] = all[j + d]
      /\ d \in Nat /\ DOMAIN a.messages = 1 .. Len(a.messages) /\ Len(a.messages) = Len(all) - d /\ a.messages # <<>>
  BY <1>0, ExcessMeans
<1>2. /\ \A j \in DOMAIN l.messages : j \in DOMAIN all /\ all[j] = l.messages[j]
      /\ DOMAIN all = 1 .. Len(all) /\ Len(all) = Len(l.messages) + Len(new) /\ Len(new) \in Nat
      /\ DOMAIN new = 1 .. Len(new)
      /\ \A j \in DOMAIN all : \/ j \in DOMAIN l.messages
                               \/ j - Len(l.messages) \in DOMAIN new /\ all[j] = new[j - Len(l.messages)]
  BY <1>0, AllMeans
<1>3. /\ DOMAIN l.messages = 1 .. Len(l.messages) /\ Len(l.messages) \in Nat /\ l.last \in Int
      /\ \A j \in DOMAIN l.messages : l.messages[j].offset \in Int /\ l.messages[j].offset <= l.last
  BY <1>0, LogFacts
<1>4. Messages(h) = l.messages /\ Messages(h)' = a.messages BY DEF Messages
<1>5. LogOk(log'[h])
  <2>1. LogOk(a) BY <1>0, AppendedMeans
  <2>2. log'[h] = Read(h)' BY DEF Read
  <2> QED BY <2>1, <2>2
<1>6. SnapshotEnd' = SnapshotEnd BY DEF SnapshotEnd
<1>7. \A i \in DOMAIN new : new[i].offset \in Int
  <2>1. new \in Seq(Message) BY DEF NewOk
  <2>2. \A i \in DOMAIN new : new[i] \in Message BY <1>2, <2>1, ElementOfSeq
  <2> QED BY <2>2 DEF Message
<1>8. \A j \in DOMAIN a.messages : a.messages[j].offset \in Int
  <2>1. \A j \in DOMAIN all : all[j].offset \in Int
    <3> HIDE DEF all, l
    <3> QED BY <1>2, <1>3, <1>7
  <2> HIDE DEF all, a
  <2> QED BY <1>1, <2>1
<1> HIDE DEF a, d, all, l
<1>9. ASSUME Good(h)', NEW i \in DOMAIN a.messages, NEW j \in DOMAIN a.messages, i < j,
             SnapshotEnd < a.messages[i].offset, SnapshotEnd < a.messages[j].offset
      PROVE  a.messages[i].offset < a.messages[j].offset
  <2>1. i + d \in DOMAIN all /\ j + d \in DOMAIN all /\ i + d < j + d /\ i \in Nat /\ j \in Nat BY <1>1, <1>9
  <2>2. a.messages[i] = all[i + d] /\ a.messages[j] = all[j + d] BY <1>1
  <2>3. CASE i + d \in DOMAIN l.messages /\ j + d \in DOMAIN l.messages
    <3>1. a.messages[i] = l.messages[i + d] /\ a.messages[j] = l.messages[j + d] BY <1>2, <2>2, <2>3
    <3>2. LogFits(h) /\ Good(h)
      <4>1. l.messages # <<>>
        <5>1. Len(<<>>) = 0 OBVIOUS
        <5> QED BY <1>3, <2>3, <5>1
      <4>2. h \in DOMAIN log BY <1>4, <4>1, InLog
      <4> QED BY <1>9, <4>2 DEF NodeInv, Steady, Holds
    <3> QED BY <1>4, <1>9, <2>1, <2>3, <3>1, <3>2 DEF LogFits
  <2>4. CASE ~(i + d \in DOMAIN l.messages /\ j + d \in DOMAIN l.messages)
    <3>1. j + d \notin DOMAIN l.messages BY <1>2, <1>3, <2>1, <2>4
    <3>11. PICK e : e = j + d OBVIOUS
    <3>12. e - Len(l.messages) \in DOMAIN new /\ all[e] = new[e - Len(l.messages)] BY <1>2, <2>1, <3>1, <3>11
    <3>13. PICK k : k = e - Len(l.messages) OBVIOUS
    <3>14. k \in DOMAIN new BY <3>12, <3>13
    <3>15. k + Len(l.messages) = j + d BY <1>1, <1>3, <2>1, <3>11, <3>13
    <3>16. all[e] = new[k] BY <3>12, <3>13
    <3>17. a.messages[j] = all[e] BY <2>2, <3>11
    <3>2. k \in DOMAIN new /\ k + Len(l.messages) = j + d /\ a.messages[j] = new[k] BY <3>14, <3>15, <3>16, <3>17
    <3>3. CASE \A x \in DOMAIN new : new[x].offset < SnapshotEnd
      <4>1. new[k].offset < SnapshotEnd /\ SnapshotEnd < new[k].offset /\ new[k].offset \in Int BY <1>7, <1>9, <3>2, <3>3
      <4> QED BY <4>1, SnapshotEndNat
    <3>4. CASE Len(new) = 1 /\ l.last < new[1].offset
      <4>1. k = 1
        <5>1. DOMAIN new = 1 .. 1 BY <1>2, <3>4
        <5> QED BY <3>2, <5>1
      <4>2. i + d \in DOMAIN l.messages
        <5>1. j + d = Len(l.messages) + 1 BY <1>1, <1>3, <2>1, <3>2, <4>1
        <5>2. i + d <= Len(l.messages) /\ 1 <= i + d /\ i + d \in Nat BY <1>1, <1>2, <1>3, <2>1, <5>1
        <5> QED BY <1>3, <5>2
      <4>3. a.messages[i] = l.messages[i + d] BY <1>2, <2>2, <4>2
      <4>4. a.messages[i].offset <= l.last /\ a.messages[i].offset \in Int /\ new[1].offset \in Int
        BY <1>3, <1>7, <3>2, <4>1, <4>2, <4>3
      <4> QED BY <1>3, <3>2, <3>4, <4>1, <4>4
    <3> QED BY <1>9, <3>3, <3>4 DEF l
  <2> QED BY <2>3, <2>4
<1>10. Messages(h)' # <<>> BY <1>1, <1>4
<1> QED BY <1>4, <1>5, <1>6, <1>9, <1>10 DEF LogFits

\* Every step keeps the logs.
LEMMA LogsAll ==
    ASSUME ReplicaInv, Next
    PROVE  \A h \in DOMAIN log' : LogFits(h)'
<1> USE DEF ReplicaInv
<1> SUFFICES ASSUME NEW h \in DOMAIN log' PROVE LogFits(h)' OBVIOUS
<1>0. Steady(h) BY SteadyAll
<1>1. ASSUME Quiet PROVE LogFits(h)'
  <2>1. Read(h)' = Read(h) /\ gone' = gone /\ flawed \subseteq flawed' /\ registry \subseteq registry' BY <1>1 DEF Quiet
  <2>2. CASE h \in DOMAIN log BY <1>0, <2>1, <2>2, LogKept
  <2>3. CASE h \notin DOMAIN log
    <3>1. Messages(h) = <<>> /\ Read(h) = EmptyLog BY <2>3 DEF Messages, Read, EmptyLog
    <3>2. Messages(h)' = <<>> BY <2>1, <3>1, StillMeans
    <3>3. (h \in gone => h \in flawed') /\ (Good(h)' => h \in registry) BY <1>1, <2>3 DEF Quiet
    <3>4. LogOk(log'[h]) BY <2>1, <3>1, EmptyLogOk DEF Read
    <3>5. DOMAIN <<>> = {} OBVIOUS
    <3> QED BY <2>1, <3>2, <3>3, <3>4, <3>5 DEF LogFits
  <2> QED BY <2>2, <2>3
<1>2. ASSUME NEW r \in Rows, NEW content \in Contents \cup {None}, Write(r, content) PROVE LogFits(h)'
  <2>1. UNCHANGED <<log, registry, gone>> /\ flawed \subseteq flawed' /\ Read(h)' = Read(h)
    BY <1>2, WriteSteady DEF Write, shapes
  <2> QED BY <1>0, <2>1, LogKept
<1>3. CASE Receive
  <2>1. UNCHANGED <<log, registry, gone>> /\ flawed \subseteq flawed' /\ Read(h)' = Read(h)
    BY <1>3, ReceiveSteady DEF Receive, shapes
  <2> QED BY <1>0, <2>1, LogKept
<1>4. CASE Coalesce
  <2>1. UNCHANGED <<log, registry, gone>> /\ flawed \subseteq flawed' /\ Read(h)' = Read(h)
    BY <1>4, CoalesceSteady DEF Coalesce, shapes
  <2> QED BY <1>0, <2>1, LogKept
<1>5. ASSUME NEW w \in work, NEW d \in w.todo, Apply(w, d) PROVE LogFits(h)'
  <2>1. UNCHANGED <<registry, gone>> /\ flawed \subseteq flawed' /\ (h # d => Read(h)' = Read(h))
        /\ (Good(d)' => Read(d).last < w.offset)
    BY <1>5, ApplySteady
  <2>2. PICK m \in Message : LET l == Appended(Read(d), <<m>>) IN
           /\ m.offset = w.offset /\ NewOk(<<m>>) /\ log' = With(d, l)
           /\ flawed' = flawed \cup Back(d) \cup IF Read(d).last < w.offset THEN {} ELSE {d}
    BY <1>5, ApplyMeans
  <2>3. CASE h # d
    <3>1. h \in DOMAIN log BY <2>2, <2>3, WithMeans
    <3> QED BY <1>0, <2>1, <2>3, <3>1, LogKept
  <2>4. CASE h = d
    <3>1. Read(h)' = Appended(Read(h), <<m>>) BY <2>2, <2>4, WithMeans
    <3>2. h \in gone' => h \in flawed' BY <2>1, <2>2, <2>4 DEF Back
    <3>3. Len(<<m>>) = 1 /\ <<m>>[1] = m OBVIOUS
    <3>4. Good(h)' => Read(h).last < <<m>>[1].offset BY <2>1, <2>2, <2>4, <3>3
    <3> QED BY <1>0, <2>2, <3>1, <3>2, <3>3, <3>4, LogGrown
  <2> QED BY <2>3, <2>4
<1>6. ASSUME NEW c \in Requests, AppendPage(c) PROVE LogFits(h)'
  <2>0. PICK new : new = SnapshotMessages(c) OBVIOUS
  <2>1. PICK d : d = req[c].handle OBVIOUS
  <2>2. UNCHANGED <<registry, gone>> /\ flawed \subseteq flawed' /\ (h # d => Read(h)' = Read(h))
    BY <1>6, <2>1, AppendPageSteady
  <2>3. /\ new # <<>> => NewOk(new) /\ log' = With(d, Appended(Read(d), new))
        /\ \A k \in DOMAIN new : new[k].offset < SnapshotEnd
        /\ new = <<>> => log' = log
        /\ new # <<>> => flawed' = flawed \cup Back(d) \cup Followed(d) \cup Hidden(d, new)
    BY <1>6, <2>0, <2>1, AppendPageMeans
  <2>4. CASE new = <<>> \/ h # d
    <3>1. h \in DOMAIN log
      <4>1. CASE new = <<>> BY <2>3, <4>1
      <4>2. CASE new # <<>>
        <5>1. DOMAIN log' = DOMAIN log \cup {d} BY <2>3, <4>2, WithMeans
        <5> QED BY <2>4, <4>2, <5>1
      <4> QED BY <4>1, <4>2
    <3>2. Read(h)' = Read(h) BY <2>2, <2>3, <2>4, SameReads
    <3> QED BY <1>0, <2>2, <3>1, <3>2, LogKept
  <2>5. CASE new # <<>> /\ h = d
    <3>1. Read(h)' = Appended(Read(h), new) BY <2>3, <2>5, WithMeans
    <3>2. h \in gone' => h \in flawed' BY <2>2, <2>3, <2>5 DEF Back
    <3> QED BY <1>0, <2>3, <2>5, <3>1, <3>2, LogGrown
  <2> QED BY <2>4, <2>5
<1>7. ASSUME NEW d, gone' = gone \cup {d}, log' = [x \in DOMAIN log \ {d} |-> log[x]], registry' = registry \ {d},
             flawed \subseteq flawed'
      PROVE LogFits(h)'
  <2>1. h \in DOMAIN log /\ h # d BY <1>7
  <2>2. EmptyLog' = EmptyLog BY DEF EmptyLog, Beginning
  <2>3. Read(h)' = Read(h) BY <1>7, <2>1 DEF Read
  <2>4. (h \in gone' => h \in gone) /\ (h \in registry => h \in registry') BY <1>7, <2>1
  <2> QED BY <1>0, <1>7, <2>1, <2>3, <2>4, LogKept
<1>8. ASSUME NEW c \in Requests, SnapshotFails(c) PROVE LogFits(h)'
  <2>1. PICK d : d = req[c].handle OBVIOUS
  <2>2. gone' = gone \cup {d} /\ log' = [x \in DOMAIN log \ {d} |-> log[x]] /\ registry' = registry \ {d}
    BY <1>8, <2>1, SnapshotFailsMeans
  <2>3. flawed \subseteq flawed' BY <1>8, <2>1, SnapshotFailsMeans DEF Exits
  <2> QED BY <1>7, <2>2, <2>3
<1>9. ASSUME NEW d \in Handles, Delete(d) PROVE LogFits(h)'
  <2>1. Deleted(d) BY <1>9 DEF Delete
  <2>2. gone' = gone \cup {d} /\ log' = [x \in DOMAIN log \ {d} |-> log[x]] /\ registry' = registry \ {d}
    BY <2>1, DeletedMeans
  <2>3. flawed \subseteq flawed' BY <2>1, DeletedMeans DEF Exits
  <2> QED BY <1>7, <2>2, <2>3
<1>10. CASE Restart
  <2>1. h \in DOMAIN log /\ log[h] # EmptyLog /\ flawed \subseteq flawed' BY <1>10, RestartMeans
  <2>2. gone' = gone BY <1>10 DEF Restart
  <2>3. Read(h)' = Read(h) BY <1>10, RestartSteady
  <2>4. Messages(h) # <<>>
    <3>1. SUFFICES ASSUME Messages(h) = <<>> PROVE FALSE OBVIOUS
    <3>2. LogOk(log[h]) /\ log[h].messages = <<>> BY <2>1, <3>1 DEF NodeInv, LogFits, Messages, Read
    <3>3. log[h].last = Beginning /\ log[h].cut \in Int /\ Beginning <= log[h].cut /\ log[h].cut <= log[h].last
      BY <3>2, LogFacts DEF LogOk
    <3>4. log[h].cut = Beginning BY <3>3 DEF Beginning
    <3>5. log[h] = EmptyLog BY <3>2, <3>3, <3>4 DEF LogOk, Log, EmptyLog
    <3> QED BY <2>1, <3>5
  <2> QED BY <1>0, <2>1, <2>2, <2>3, <2>4, LogKept
<1>11. CASE \E c \in Requests : Calls(c) BY <1>1, <1>11, CallsQuiet
<1>12. CASE ClientStep BY <1>1, <1>12, ClientQuiet
<1> QED BY <1>2, <1>3, <1>4, <1>5, <1>6, <1>8, <1>9, <1>10, <1>11, <1>12, NextCases

(***************************************************************************)
(* When nobody reads the table any more, the log has every row.            *)
(***************************************************************************)
LEMMA WokenAnswers ==
    ASSUME NEW q, NEW h, NEW l
    PROVE  Woken(q, h, l) = q \/ (q.pc = "waiting" /\ Woken(q, h, l).pc = "answered")
BY DEF Woken, Answered, Idle

\* Who reads the table for a handle goes on.
Continues(x) == Reads(req[x]) => Reads(req'[x]) /\ req'[x].handle = req[x].handle

LEMMA ContinuesMeans ==
    ASSUME NEW h, \A x \in Requests : req[x].handle = h => Continues(x), Snapshotting(h)' = {}
    PROVE  Snapshotting(h) = {}
BY DEF Continues, Snapshotting, Reads

\* A log stays complete when nobody is new to it.
LEMMA CompleteKept ==
    ASSUME NodeInv, NEW h \in Handles, Steady(h),
           Whole(h)' /\ h \in registry' \cup DOMAIN log' /\ Snapshotting(h)' = {}
             => h \in registry \cup DOMAIN log /\ \A r \in Rows : Known(h, r) \/ Known(h, r)'
    PROVE  Complete(h)'
BY KnownKept DEF Complete

LEMMA CompleteBefore ==
    ASSUME NodeInv, NEW h \in Handles, Steady(h),
           Whole(h)' /\ h \in registry' \cup DOMAIN log' /\ Snapshotting(h)' = {}
             => h \in registry \cup DOMAIN log /\ Snapshotting(h) = {}
    PROVE  Complete(h)'
<1>1. Complete(h) BY DEF NodeInv
<1>2. Whole(h)' => Whole(h) BY SteadyMeans
<1>3. Whole(h)' /\ h \in registry' \cup DOMAIN log' /\ Snapshotting(h)' = {}
        => h \in registry \cup DOMAIN log /\ \A r \in Rows : Known(h, r)
  BY <1>1, <1>2 DEF Complete
<1> QED BY <1>3, CompleteKept

LEMMA MineContinues ==
    ASSUME NEW c \in Requests, Mine(c), Continues(c)
    PROVE  \A x \in Requests : Continues(x)
BY DEF Mine, Continues

LEMMA ToldKnown ==
    ASSUME NodeInv, NEW h, NEW r, Told(h, r)
    PROVE  Known(h, r)
<1>1. LogOk(Read(h)) BY ReadOk
<1>2. \A i \in DOMAIN Messages(h) : Messages(h)[i].offset \in Int /\ 0 <= Messages(h)[i].offset
  BY <1>1, LogFacts DEF Messages
<1>3. SnapshotEnd \in Nat BY SnapshotEndNat
<1>4. Has(h, r, SnapshotEnd) => Has(h, r, Beginning) BY <1>2, <1>3 DEF Has, Beginning
<1> QED BY <1>4 DEF Told, Known

\* A page of the table has the rows that are due on it; a page of a replica
\* has them, or a change tells of the others: else the handle is flawed.
LEMMA FetchedRows ==
    ASSUME ReplicaInv, Next, NEW c \in Requests, Fetches(c), NEW h, h = req[c].handle, Whole(h)',
           NEW t, t = Base(c), NEW q, q = req'[c]
    PROVE  /\ \A r \in Rows : t[r] = table[r] \/ Told(h, r)
           /\ DOMAIN q.rows \subseteq Rows /\ q.pc = (IF DOMAIN q.rows = {} THEN "settle" ELSE "append")
           /\ \A r \in DOMAIN q.rows : q.rows[r] = table[r] \/ Told(h, r)
           /\ \A r \in Present(t) : Place(t, r) <= q.page => Known(h, r) \/ r \in DOMAIN q.rows
           /\ Cardinality(DOMAIN q.rows) < PageSize => \A r \in Present(t) : Known(h, r) \/ r \in DOMAIN q.rows
<1> USE DEF ReplicaInv
<1>1. PICK from : from = req[c].page OBVIOUS
<1>2. Whole(h) /\ Good(h)'
  <2>1. Steady(h) BY SteadyAll
  <2> QED BY <2>1, SteadyMeans DEF Whole
<1>3. req[c].pc = "fetch" /\ SnapFits(c) /\ ReqOk(req[c]) BY FetchesMeans DEF NodeInv, Types, ReqsOk
<1>4. from \in Nat BY <1>1, <1>3 DEF ReqOk
<1>5. q.page = from + PageSize BY <1>1, FetchesMeans
<1>6. /\ \A r \in Rows : t[r] = table[r] \/ Told(h, r)
      /\ \A r \in Present(t) : Place(t, r) <= from => Known(h, r)
  BY <1>1, <1>2, <1>3 DEF SnapFits
<1>7. \A u \in Tables : GetsPage(c, u) =>
         q.rows = Page(u, from) /\ q.pc = (IF DOMAIN Page(u, from) = {} THEN "settle" ELSE "append")
  BY <1>1, GetsPageMeans
<1>8. \A u : Present(u) \subseteq Rows BY DEF Present
<1>9. CASE FetchPage(c)
  <2>1. t \in Tables /\ GetsPage(c, t) BY <1>9, FetchPageMeans DEF Base
  <2>2. PICK rows : rows = Page(t, from) OBVIOUS
  <2>3. q.rows = rows /\ q.pc = (IF DOMAIN rows = {} THEN "settle" ELSE "append") BY <1>7, <2>1, <2>2
  <2>4. /\ DOMAIN rows \subseteq Present(t) /\ \A r \in DOMAIN rows : rows[r] = t[r]
        /\ \A r \in Present(t) : Place(t, r) <= from + PageSize => Place(t, r) <= from \/ r \in DOMAIN rows
        /\ Cardinality(DOMAIN rows) < PageSize => \A r \in Present(t) : Place(t, r) <= from \/ r \in DOMAIN rows
    BY <1>4, <2>2, PageMeans
  <2>5. \A r \in DOMAIN rows : r \in Rows /\ (rows[r] = table[r] \/ Told(h, r)) BY <1>6, <1>8, <2>4
  <2> QED BY <1>5, <1>6, <2>3, <2>4, <2>5
<1>10. CASE FetchReplica(c)
  <2>1. PICK k \in Nat : /\ ~Direct /\ AsOf(k) \in Tables /\ GetsPage(c, AsOf(k))
                         /\ flawed' = flawed \cup IF Misses(h, AsOf(k), from) THEN {h} ELSE {}
    BY <1>1, <1>10, FetchReplicaMeans
  <2>2. PICK u : u = AsOf(k) OBVIOUS
  <2>3. PICK rows : rows = Page(u, from) OBVIOUS
  <2>4. q.rows = rows /\ q.pc = (IF DOMAIN rows = {} THEN "settle" ELSE "append") BY <1>7, <2>1, <2>2, <2>3
  <2>5. DOMAIN rows \subseteq Present(u) /\ \A r \in DOMAIN rows : rows[r] = u[r] BY <1>4, <2>3, PageMeans
  <2>6. t = table BY <2>1 DEF Base
  <2>7. ~Misses(h, u, from) BY <1>2, <2>1, <2>2 DEF Good
  <2>8. ASSUME NEW r \in Rows, ~Told(h, r)
        PROVE  /\ r \in DOMAIN rows => u[r] = table[r]
               /\ r \in Present(table) /\ from < Place(table, r)
                     /\ (Place(table, r) <= from + PageSize \/ Cardinality(DOMAIN rows) < PageSize)
                  => r \in DOMAIN rows
    BY <2>3, <2>7, <2>8 DEF Misses
  <2>9. \A r \in DOMAIN rows : r \in Rows /\ (rows[r] = table[r] \/ Told(h, r)) BY <1>8, <2>5, <2>8
  <2>10. ASSUME NEW r \in Present(t), Place(t, r) <= from + PageSize \/ Cardinality(DOMAIN rows) < PageSize
         PROVE  Known(h, r) \/ r \in DOMAIN rows
    <3>1. Place(t, r) \in Nat BY PageMeans, 0 \in Nat
    <3>2. Place(t, r) <= from \/ from < Place(t, r) BY <1>4, <3>1
    <3>3. r \in Rows BY <1>8
    <3>4. Told(h, r) => Known(h, r) BY ToldKnown
    <3> QED BY <1>6, <2>6, <2>8, <2>10, <3>2, <3>3, <3>4
  <2> QED BY <1>5, <1>6, <2>4, <2>9, <2>10
<1> QED BY <1>9, <1>10 DEF Fetches

\* After the last page every row is known.
LEMMA FetchComplete ==
    ASSUME ReplicaInv, Next, NEW c \in Requests, Fetches(c), NEW h \in Handles
    PROVE  Complete(h)'
<1> USE DEF ReplicaInv
<1>0. Steady(h) BY SteadyAll
<1>1. Mine(c) /\ req'[c].handle = req[c].handle /\ UNCHANGED <<registry, log>> BY FetchesMeans DEF shapes
<1>2. SUFFICES ASSUME Whole(h)', h \in registry' \cup DOMAIN log', Snapshotting(h)' = {}
               PROVE  h \in registry \cup DOMAIN log /\ \A r \in Rows : Known(h, r) \/ Known(h, r)'
  BY <1>0, CompleteKept
<1>3. Whole(h) BY <1>0, <1>2, SteadyMeans
<1>4. CASE req[c].handle # h
  <2>1. \A x \in Requests : req[x].handle = h => Continues(x) BY <1>1, <1>4 DEF Mine, Continues
  <2>2. Snapshotting(h) = {} BY <1>2, <2>1, ContinuesMeans
  <2>3. Complete(h) BY DEF NodeInv
  <2> QED BY <1>1, <1>2, <1>3, <2>2, <2>3 DEF Complete
<1>5. CASE req[c].handle = h
  <2>1. PICK q, t : q = req'[c] /\ t = Base(c) OBVIOUS
  <2>2. /\ \A r \in Rows : t[r] = table[r] \/ Told(h, r)
        /\ q.pc = (IF DOMAIN q.rows = {} THEN "settle" ELSE "append")
        /\ Cardinality(DOMAIN q.rows) < PageSize => \A r \in Present(t) : Known(h, r) \/ r \in DOMAIN q.rows
    BY <1>2, <1>5, <2>1, FetchedRows
  <2>3. DOMAIN q.rows = {} BY <1>1, <1>2, <1>5, <2>1, <2>2 DEF Snapshotting
  <2>4. Cardinality(DOMAIN q.rows) < PageSize
    <3>1. Cardinality(DOMAIN q.rows) = 0 BY <2>3, FS_EmptySet
    <3> QED BY <3>1, ShapeAssumption
  <2>5. ASSUME NEW r \in Rows PROVE Known(h, r)
    <3>1. CASE r \in Present(t) BY <2>2, <2>3, <2>4, <3>1
    <3>2. CASE r \notin Present(t)
      <4>1. t[r] = None BY <3>2 DEF Present
      <4>2. Told(h, r) => Known(h, r) BY ToldKnown
      <4> QED BY <2>2, <4>1, <4>2 DEF Known
    <3> QED BY <3>1, <3>2
  <2> QED BY <1>1, <1>2, <2>5
<1> QED BY <1>4, <1>5

\* The rows of the page are in the log when nothing of it has been cut.
LEMMA AppendedRows ==
    ASSUME ReplicaInv, Next, NEW c \in Requests, AppendPage(c), NEW h \in Handles, h = req[c].handle, Whole(h)'
    PROVE  \A r \in DOMAIN req[c].rows : Has(h, r, Beginning)'
<1> USE DEF ReplicaInv
<1>0. Steady(h) BY SteadyAll
<1>4. Whole(h)' OBVIOUS
<1> DEFINE rows == req[c].rows
<1>1. PICK new : new = SnapshotMessages(c) OBVIOUS
<1>a. PICK d : d = req[c].handle OBVIOUS
<1>9. d = h BY <1>a
<1>2. /\ req[c].pc = "append" /\ d \in Handles
      /\ \A i \in DOMAIN new : 0 <= new[i].offset /\ new[i] \in Message
      /\ \A r \in DOMAIN rows : \E i \in DOMAIN new : new[i].row = r
      /\ new # <<>> => NewOk(new) /\ log' = With(d, Appended(Read(d), new))
      /\ new = <<>> => log' = log
      /\ req'[c].handle = d
      /\ req'[c].pc = IF Cardinality(DOMAIN rows) < PageSize THEN "settle" ELSE "fetch"
  <2>1. /\ new \in Seq(Message) /\ \A i \in DOMAIN new : 0 <= new[i].offset
        /\ req[c].pc = "append" /\ d \in Handles
        /\ \A r \in DOMAIN rows : \E i \in DOMAIN new : new[i].row = r
        /\ new # <<>> => NewOk(new) /\ log' = With(d, Appended(Read(d), new))
        /\ new = <<>> => log' = log
        /\ req'[c].handle = d
        /\ req'[c].pc = IF Cardinality(DOMAIN rows) < PageSize THEN "settle" ELSE "fetch"
    BY <1>1, <1>a, AppendPageMeans
  <2> QED BY <2>1, ElementOfSeq, LenProperties
<1>5. Whole(h) /\ Good(h) /\ Good(h)' BY <1>0, <1>4, SteadyMeans DEF Whole
<1>3. ASSUME NEW r \in DOMAIN rows PROVE Has(h, r, Beginning)'
  <2>1. PICK i \in DOMAIN new : new[i].row = r BY <1>2, <1>3
  <2>2. new # <<>>
    <3>1. DOMAIN <<>> = {} OBVIOUS
    <3> QED BY <2>1, <3>1
  <2>3. Read(h)' = Appended(Read(h), new) BY <1>2, <1>9, <2>2, WithMeans
  <2>4. (Read(h)').cut = Beginning BY <1>4 DEF Whole, Beginning
  <2>5. LogOk(Read(h)) BY ReadOk
  <2>6. Excess(Read(h), new) = 0
    <3>1. Excess(Read(h), new) \in Nat BY <1>2, <2>2, <2>5, ExcessMeans
    <3>2. Excess(Read(h), new) > 0 => 0 <= (Read(h)').cut BY <1>2, <2>2, <2>3, <2>5, AppendedMeans
    <3> QED BY <2>4, <3>1, <3>2 DEF Beginning
  <2>7. Excess(Read(h), new) < 1 /\ 1 .. Excess(Read(h), new) = {} BY <2>6
  <2>8. (Read(h)').cut < new[i].offset => Has(h, new[i].row, new[i].offset - 1)'
    BY <1>2, <1>5, <2>2, <2>3, <2>5, <2>7, GrowMeans
  <2>9. new[i].offset \in Int /\ 0 <= new[i].offset BY <1>2 DEF Message
  <2>10. (Read(h)').cut < new[i].offset BY <2>4, <2>9 DEF Beginning
  <2>11. PICK j \in DOMAIN Messages(h)' : Messages(h)'[j].row = r /\ new[i].offset - 1 < Messages(h)'[j].offset
    BY <2>1, <2>8, <2>10 DEF Has
  <2>12. Messages(h)'[j].offset \in Int BY <1>0, <1>5, RowsOfNext
  <2>13. Beginning < Messages(h)'[j].offset /\ Beginning' = Beginning BY <2>9, <2>11, <2>12 DEF Beginning
  <2> QED BY <2>11, <2>13 DEF Has
<1> QED BY <1>3

LEMMA AppendPageComplete ==
    ASSUME ReplicaInv, Next, NEW c \in Requests, AppendPage(c), NEW h \in Handles
    PROVE  Complete(h)'
<1> USE DEF ReplicaInv
<1>0. Steady(h) BY SteadyAll
<1> DEFINE rows == req[c].rows
<1>1. PICK new : new = SnapshotMessages(c) OBVIOUS
<1>a. PICK d : d = req[c].handle OBVIOUS
<1>2. /\ req[c].pc = "append" /\ d \in Handles
      /\ \A i \in DOMAIN new : 0 <= new[i].offset /\ new[i] \in Message
      /\ \A r \in DOMAIN rows : \E i \in DOMAIN new : new[i].row = r
      /\ new # <<>> => NewOk(new) /\ log' = With(d, Appended(Read(d), new))
      /\ new = <<>> => log' = log
      /\ req'[c].handle = d
      /\ req'[c].pc = IF Cardinality(DOMAIN rows) < PageSize THEN "settle" ELSE "fetch"
  <2>1. /\ new \in Seq(Message) /\ \A i \in DOMAIN new : 0 <= new[i].offset
        /\ req[c].pc = "append" /\ d \in Handles
        /\ \A r \in DOMAIN rows : \E i \in DOMAIN new : new[i].row = r
        /\ new # <<>> => NewOk(new) /\ log' = With(d, Appended(Read(d), new))
        /\ new = <<>> => log' = log
        /\ req'[c].handle = d
        /\ req'[c].pc = IF Cardinality(DOMAIN rows) < PageSize THEN "settle" ELSE "fetch"
    BY <1>1, <1>a, AppendPageMeans
  <2> QED BY <2>1, ElementOfSeq, LenProperties
<1>3. ASSUME NEW x \in Requests, x # c PROVE req'[x] = req[x] \/ (req[x].pc = "waiting" /\ req'[x].pc = "answered")
  <2>1. PICK l : l = Appended(Read(d), new) OBVIOUS
  <2>2. req'[x] = req[x] \/ req'[x] = Woken(req[x], d, l) BY <1>1, <1>3, <1>a, <2>1, AppendPageMeans
  <2>3. Woken(req[x], d, l) = req[x] \/ (req[x].pc = "waiting" /\ Woken(req[x], d, l).pc = "answered") BY WokenAnswers
  <2> QED BY <2>2, <2>3
<1>4. SUFFICES ASSUME Whole(h)', h \in registry' \cup DOMAIN log', Snapshotting(h)' = {}
               PROVE  h \in registry \cup DOMAIN log /\ \A r \in Rows : Known(h, r) \/ Known(h, r)'
  BY <1>0, CompleteKept
<1>5. Whole(h) /\ Good(h) /\ Good(h)' BY <1>0, <1>4, SteadyMeans DEF Whole
<1>6. SnapFits(c) /\ ReqFits(c) /\ ReqOk(req[c]) BY DEF NodeInv, Types, ReqsOk
<1>7. h \in registry \cup DOMAIN log
  <2>1. registry' = registry BY DEF AppendPage
  <2>2. h = d => h \in registry BY <1>2, <1>5, <1>6, <1>a DEF ReqFits
  <2>3. h # d => (h \in DOMAIN log' => h \in DOMAIN log)
    <3>1. new # <<>> => DOMAIN log' = DOMAIN log \cup {d} BY <1>2, WithMeans
    <3> QED BY <1>2, <3>1
  <2> QED BY <1>4, <2>1, <2>2, <2>3
<1>8. CASE d # h
  <2>1. \A x \in Requests : req[x].handle = h => Continues(x) BY <1>3, <1>8, <1>a DEF Continues, Reads
  <2>2. Snapshotting(h) = {} BY <1>4, <2>1, ContinuesMeans
  <2>3. Complete(h) BY DEF NodeInv
  <2> QED BY <1>5, <1>7, <2>2, <2>3 DEF Complete
<1>9. CASE d = h
  <2>1. Cardinality(DOMAIN rows) < PageSize BY <1>2, <1>4, <1>9 DEF Snapshotting
  <2>2. /\ \A r \in Rows : Base(c)[r] = table[r] \/ Told(h, r)
        /\ \A r \in Present(Base(c)) : Known(h, r) \/ r \in DOMAIN rows
    BY <1>2, <1>5, <1>6, <1>9, <1>a, <2>1 DEF SnapFits
  <2>3. \A r \in DOMAIN rows : Has(h, r, Beginning)' BY <1>4, <1>9, <1>a, AppendedRows
  <2>4. ASSUME NEW r \in Rows PROVE Known(h, r) \/ Known(h, r)'
    <3>1. CASE r \in Present(Base(c))
      <4>1. CASE Known(h, r) BY <4>1
      <4>2. CASE r \in DOMAIN rows BY <2>3, <4>2 DEF Known
      <4> QED BY <2>2, <3>1, <4>1, <4>2
    <3>2. CASE r \notin Present(Base(c))
      <4>1. Base(c)[r] = None BY <3>2 DEF Present
      <4>2. Told(h, r) => Known(h, r)
        <5>1. LogOk(Read(h)) BY ReadOk
        <5>2. \A i \in DOMAIN Messages(h) : Messages(h)[i].offset \in Int /\ 0 <= Messages(h)[i].offset
          BY <5>1, LogFacts DEF Messages
        <5>3. Has(h, r, SnapshotEnd) => Has(h, r, Beginning) BY <5>2 DEF Has, Beginning
        <5> QED BY <5>3 DEF Told, Known
      <4> QED BY <2>2, <4>1, <4>2 DEF Known
    <3> QED BY <3>1, <3>2
  <2> QED BY <1>7, <2>4
<1> QED BY <1>8, <1>9

LEMMA CallsComplete ==
    ASSUME ReplicaInv, Next, NEW c \in Requests, Calls(c), NEW h \in Handles
    PROVE  Complete(h)'
<1> USE DEF ReplicaInv
<1>1. Steady(h) BY SteadyAll
<1>2. (Whole(h)' => Whole(h)) /\ (Whole(h) => Good(h)) BY <1>1, SteadyMeans DEF Whole
<1>3. ASSUME Mine(c), ~Reads(req[c]) PROVE \A x \in Requests : Continues(x)
  BY <1>3, MineContinues DEF Continues
<1>4. ASSUME \A x \in Requests : Continues(x),
             Whole(h)' /\ h \in registry' \cup DOMAIN log' /\ Snapshotting(h)' = {} => h \in registry \cup DOMAIN log
      PROVE  Complete(h)'
  BY <1>1, <1>4, CompleteBefore, ContinuesMeans
<1>5. ReqFits(c) /\ req[c] = req[c] BY DEF NodeInv
<1>6. CASE Ensure(c)
  <2>1. Mine(c) /\ req[c].pc = "ensure" BY <1>6, EnsureMeans
  <2>2. UNCHANGED <<registry, log>> BY <1>6 DEF Ensure, shapes
  <2> QED BY <1>3, <1>4, <2>1, <2>2 DEF Reads
<1>7. CASE StartSnapshot(c)
  <2>1. req[c].handle \in Handles BY <1>7 DEF StartSnapshot, At, Types, ReqsOk, ReqOk, Busy
  <2>2. Goto(c, "fetch") /\ req[c].pc = "new" /\ log' = log /\ registry' = registry \cup {req[c].handle}
    BY <1>7 DEF StartSnapshot, At, Registers
  <2>3. Mine(c) /\ req'[c].pc = "fetch" /\ req'[c].handle = req[c].handle BY <2>1, <2>2, GotoOk DEF Fields
  <2>4. \A x \in Requests : Continues(x) BY <2>3, MineContinues DEF Continues, Reads
  <2>5. Snapshotting(h)' = {} => h # req[c].handle BY <2>3 DEF Snapshotting
  <2> QED BY <1>4, <2>2, <2>4, <2>5
<1>8. CASE Rejoin(c)
  <2>1. req[c].handle \in Handles BY <1>8 DEF Rejoin, At, Types, ReqsOk, ReqOk, Busy
  <2>2. Goto(c, "settle") /\ req[c].pc = "rejoin" /\ log' = log /\ registry' = registry \cup {req[c].handle}
    BY <1>8 DEF Rejoin, At, Registers
  <2>3. Mine(c) BY <2>1, <2>2, GotoOk
  <2>4. h = req[c].handle /\ Good(h) => h \in DOMAIN log BY <1>5, <2>2, InLog DEF ReqFits
  <2> QED BY <1>2, <1>3, <1>4, <2>2, <2>3, <2>4 DEF Reads
<1>9. CASE Fetches(c) BY <1>9, FetchComplete
<1>10. CASE Settle(c)
  <2>1. Mine(c) /\ req[c].pc = "settle" BY <1>10, SettleMeans
  <2>2. UNCHANGED <<registry, log>> BY <1>10 DEF Settle, shapes
  <2> QED BY <1>3, <1>4, <2>1, <2>2 DEF Reads
<1>11. CASE Resume(c)
  <2>1. Mine(c) /\ req[c].pc = "resume" /\ 0 <= req[c].from BY <1>11, ResumeMeans
  <2>2. log' = log /\ registry' = registry \cup {req[c].handle} BY <1>11 DEF Resume, Registers
  <2>3. Beyond(req[c].handle, req[c].from) BY <1>5, <2>1 DEF ReqFits
  <2>4. h = req[c].handle /\ Good(h) => h \in DOMAIN log BY <2>1, <2>3, InLog DEF Beyond
  <2> QED BY <1>2, <1>3, <1>4, <2>1, <2>2, <2>4 DEF Reads
<1>12. CASE ReadLog(c)
  <2>1. Mine(c) /\ req[c].pc = "read" BY <1>12, ReadLogMeans
  <2>2. UNCHANGED <<registry, log>> BY <1>12 DEF ReadLog, shapes
  <2> QED BY <1>3, <1>4, <2>1, <2>2 DEF Reads
<1>13. CASE AwaitLog(c)
  <2>0. PICK l : l = Read(req[c].handle) OBVIOUS
  <2>1. Mine(c) /\ req[c].pc = "await" /\ log' = With(req[c].handle, l) BY <1>13, <2>0, AwaitLogMeans
  <2>2. registry' = registry BY <1>13 DEF AwaitLog
  <2>3. DOMAIN log' = DOMAIN log \cup {req[c].handle} BY <2>1, WithMeans
  <2>4. h = req[c].handle /\ Good(h) => h \in registry BY <1>5, <2>1 DEF ReqFits
  <2> QED BY <1>2, <1>3, <1>4, <2>1, <2>2, <2>3, <2>4 DEF Reads
<1>14. CASE Timeout(c)
  <2>1. Mine(c) /\ req[c].pc = "waiting" BY <1>14, TimeoutMeans
  <2>2. UNCHANGED <<registry, log>> BY <1>14 DEF Timeout, shapes
  <2> QED BY <1>3, <1>4, <2>1, <2>2 DEF Reads
<1> QED BY <1>6, <1>7, <1>8, <1>9, <1>10, <1>11, <1>12, <1>13, <1>14 DEF Calls

LEMMA ClientContinues ==
    ASSUME ReplicaInv, ClientStep
    PROVE  \A x \in Requests : Continues(x)
<1> USE DEF ReplicaInv
<1>1. ASSUME \A x \in Requests : Freed(x) PROVE \A x \in Requests : Continues(x)
  BY <1>1 DEF Freed, Continues, Reads, Idle
<1>2. ASSUME req' = req PROVE \A x \in Requests : Continues(x) BY <1>2 DEF Continues
<1>3. CASE Ask(Sync)
  <2>1. PICK c \in Requests : req[c].pc = "idle" /\ Mine(c) BY <1>3, AskMeans
  <2> QED BY <2>1, MineContinues DEF Continues, Reads
<1>4. CASE Take(Sync)
  <2>1. \E c \in Requests : req[c].pc = "answered" /\ Mine(c) BY <1>4, TakeMeans
  <2>2. PICK c \in Requests : req[c].pc = "answered" /\ Mine(c) BY <2>1
  <2> QED BY <2>2, MineContinues DEF Continues, Reads
<1>5. CASE Disconnect(Sync) BY <1>1, <1>5, DroppedMeans DEF Disconnect
<1>6. CASE \E r \in Requests : Abandoned(r) BY <1>1, <1>6, AbandonedMeans
<1>7. CASE SyncStep BY <1>2, <1>7 DEF SyncStep, Clear, Commit, SaveCursor, serverVars
<1>8. CASE \E resume \in BOOLEAN : Start(resume) BY <1>2, <1>8 DEF Start, serverVars
<1>9. CASE Crash BY <1>1, <1>9, DroppedMeans DEF Crash, Hangup
<1> QED BY <1>3, <1>4, <1>5, <1>6, <1>7, <1>8, <1>9 DEF ClientStep

\* Every step keeps the logs complete.
LEMMA CompleteAll ==
    ASSUME ReplicaInv, Next, NEW h \in Handles
    PROVE  Complete(h)'
<1> USE DEF ReplicaInv
<1>1. Steady(h) BY SteadyAll
<1>2. (Whole(h)' => Whole(h)) /\ (Whole(h) => Good(h)) /\ (Whole(h)' => Good(h)') BY <1>1, SteadyMeans DEF Whole
<1>3. ASSUME Whole(h)' => \A x \in Requests : req[x].handle = h => Continues(x),
             Whole(h)' /\ h \in registry' \cup DOMAIN log' => h \in registry \cup DOMAIN log
      PROVE  Complete(h)'
  BY <1>1, <1>3, CompleteBefore, ContinuesMeans
<1>4. ASSUME UNCHANGED <<registry, log, req>> PROVE Complete(h)'
  <2>1. \A x \in Requests : Continues(x) BY <1>4 DEF Continues
  <2> QED BY <1>3, <1>4, <2>1
<1>5. CASE \E r \in Rows : \E content \in Contents \cup {None} : Write(r, content)
  BY <1>4, <1>5 DEF Write, shapes
<1>6. CASE Receive BY <1>4, <1>6 DEF Receive, shapes
<1>7. CASE Coalesce BY <1>4, <1>7 DEF Coalesce, shapes
<1>8. ASSUME NEW w \in work, NEW d \in w.todo, Apply(w, d) PROVE Complete(h)'
  <2>0. PICK m \in Message : LET l == Appended(Read(d), <<m>>) IN
           log' = With(d, l) /\ req' = [c \in Requests |-> Woken(req[c], d, l)]
    BY <1>8, ApplyMeans
  <2>1. log' = With(d, Appended(Read(d), <<m>>))
        /\ req' = [c \in Requests |-> Woken(req[c], d, Appended(Read(d), <<m>>))] BY <2>0
  <2>2. PICK l : log' = With(d, l) /\ req' = [c \in Requests |-> Woken(req[c], d, l)] BY <2>1
  <2>3. \A x \in Requests : Continues(x)
    <3>1. ASSUME NEW x \in Requests PROVE Continues(x)
      <4>1. req'[x] = Woken(req[x], d, l) BY <2>2
      <4>2. Woken(req[x], d, l) = req[x] \/ (req[x].pc = "waiting" /\ Woken(req[x], d, l).pc = "answered")
        BY WokenAnswers
      <4> QED BY <4>1, <4>2 DEF Continues, Reads
    <3> QED BY <3>1
  <2>4. DOMAIN log' = DOMAIN log \cup {d} BY <2>2, WithMeans
  <2>5. Good(d) => d \in registry BY <1>8 DEF NodeInv, WorkFits
  <2>6. registry' = registry BY <1>8, ApplySteady
  <2> QED BY <1>2, <1>3, <2>3, <2>4, <2>5, <2>6
<1>9. CASE \E c \in Requests : AppendPage(c) BY <1>9, AppendPageComplete
<1>10. ASSUME NEW c \in Requests, SnapshotFails(c) PROVE Complete(h)'
  <2>0. PICK d : d = req[c].handle OBVIOUS
  <2>1. /\ \A x \in Requests : req'[x] = IF x = c \/ StopsWaiting(x, d) THEN Answered(Failed) ELSE req[x]
        /\ registry' = registry \ {d} /\ log' = [x \in DOMAIN log \ {d} |-> log[x]] /\ gone' = gone \cup {d}
    BY <1>10, <2>0, SnapshotFailsMeans
  <2>2. Good(h)' => h # d BY <2>1 DEF Good
  <2>3. h # d => \A x \in Requests : req[x].handle = h => Continues(x)
    BY <2>0, <2>1 DEF Continues, Reads, StopsWaiting, At
  <2> QED BY <1>2, <1>3, <2>1, <2>2, <2>3
<1>11. ASSUME NEW d \in Handles, Delete(d) PROVE Complete(h)'
  <2>1. Deleted(d) BY <1>11 DEF Delete
  <2>2. /\ \A x \in Requests : req'[x] = IF StopsWaiting(x, d) THEN Answered(Failed) ELSE req[x]
        /\ registry' = registry \ {d} /\ log' = [x \in DOMAIN log \ {d} |-> log[x]]
    BY <2>1, DeletedMeans
  <2>3. \A x \in Requests : Continues(x) BY <2>2 DEF Continues, Reads, StopsWaiting, At
  <2> QED BY <1>3, <2>2, <2>3
<1>12. CASE Restart
  <2>1. /\ registry' = {} /\ flawed' = flawed \cup {x \in DOMAIN log : Snapshotting(x) # {}} \cup Passed(next')
        /\ DOMAIN log' \subseteq DOMAIN log
    BY <1>12, RestartMeans
  <2>2. Good(h)' /\ h \in DOMAIN log => Snapshotting(h) = {} BY <2>1 DEF Good
  <2> QED BY <1>1, <1>2, <2>1, <2>2, CompleteBefore
<1>13. CASE \E c \in Requests : Calls(c) BY <1>13, CallsComplete
<1>14. CASE ClientStep BY <1>3, <1>14, ClientContinues, ClientQuiet
<1> QED BY <1>5, <1>6, <1>7, <1>8, <1>9, <1>10, <1>11, <1>12, <1>13, <1>14, NextCases

(***************************************************************************)
(* Requests: what wakes them, and the snapshots under way.                 *)
(***************************************************************************)
\* A request that waited in the log of h is answered with what has come.
Notified(x, h) ==
    /\ req[x].pc = "waiting" /\ req[x].handle = h /\ req[x].from < (Read(h)').last
    /\ req'[x] = Answered(Ok(h, After(Messages(h)', req[x].from), (Read(h)').last, TRUE))
    /\ UNCHANGED <<streamVars, file>>

LEMMA NotifiedMeans ==
    ASSUME NEW h, NEW l, log' = With(h, l), NEW x, req'[x] = Woken(req[x], h, l), UNCHANGED <<streamVars, file>>
    PROVE  req'[x] = req[x] \/ Notified(x, h)
<1>1. Read(h)' = l BY WithMeans
<1>2. Messages(h)' = l.messages BY <1>1 DEF Messages
<1>3. CASE req[x].pc = "waiting" /\ req[x].handle = h /\ req[x].from < l.last
  <2>1. req'[x] = Answered(Ok(h, After(l.messages, req[x].from), l.last, TRUE)) BY <1>3 DEF Woken
  <2> QED BY <1>1, <1>2, <1>3, <2>1 DEF Notified
<1>4. CASE ~(req[x].pc = "waiting" /\ req[x].handle = h /\ req[x].from < l.last) BY <1>4 DEF Woken
<1> QED BY <1>3, <1>4

LEMMA ApplyWakes ==
    ASSUME Types, NodeInv, NEW w \in work, NEW h \in w.todo, Apply(w, h)
    PROVE  \E l : log' = With(h, l) /\ req' = [c \in Requests |-> Woken(req[c], h, l)]
<1>1. PICK m \in Message : LET l == Appended(Read(h), <<m>>) IN
                 /\ m.offset = w.offset /\ m.row = wal[w.lsn].row /\ Eff(m) = Seen(wal[w.lsn].new)
                 /\ NewOk(<<m>>) /\ LogOk(l) /\ log' = With(h, l)
                 /\ req' = [c \in Requests |-> Woken(req[c], h, l)]
                 /\ flawed' = flawed \cup Back(h) \cup IF Read(h).last < w.offset THEN {} ELSE {h}
  BY ApplyMeans
<1>2. log' = With(h, Appended(Read(h), <<m>>))
      /\ req' = [c \in Requests |-> Woken(req[c], h, Appended(Read(h), <<m>>))] BY <1>1
<1> QED BY <1>2

\* What a step may do to a request.
LEMMA ReqSteps ==
    ASSUME ReplicaInv, Next, NEW x \in Requests
    PROVE  \/ req'[x] = req[x]
           \/ (Calls(x) \/ AppendPage(x)) /\ UNCHANGED <<streamVars, file>>
           \/ req'[x] = Answered(Failed) /\ UNCHANGED <<streamVars, file>>
           \/ \E h \in Handles : Notified(x, h)
           \/ ClientStep /\ req'[x] = Idle /\ req[x].pc \in {"await", "waiting", "answered"}
           \/ Ask(Sync) /\ req[x].pc = "idle" /\ stream' = [stream EXCEPT ![Sync].request = x]
              /\ req'[x].pc = (IF stream[Sync].offset = Beginning THEN "ensure" ELSE "resume")
              /\ req'[x].handle = stream[Sync].handle /\ req'[x].from = stream[Sync].offset
              /\ req'[x].live = stream[Sync].upToDate
<1> USE DEF ReplicaInv
<1> DEFINE Goal ==
           \/ req'[x] = req[x]
           \/ (Calls(x) \/ AppendPage(x)) /\ UNCHANGED <<streamVars, file>>
           \/ req'[x] = Answered(Failed) /\ UNCHANGED <<streamVars, file>>
           \/ \E h \in Handles : Notified(x, h)
           \/ ClientStep /\ req'[x] = Idle /\ req[x].pc \in {"await", "waiting", "answered"}
           \/ Ask(Sync) /\ req[x].pc = "idle" /\ stream' = [stream EXCEPT ![Sync].request = x]
              /\ req'[x].pc = (IF stream[Sync].offset = Beginning THEN "ensure" ELSE "resume")
              /\ req'[x].handle = stream[Sync].handle /\ req'[x].from = stream[Sync].offset
              /\ req'[x].live = stream[Sync].upToDate
<1>0. SUFFICES Goal OBVIOUS
<1>1. ASSUME req' = req PROVE Goal BY <1>1
<1>2. ASSUME NEW r \in Rows, NEW content \in Contents \cup {None}, Write(r, content) PROVE Goal
  BY <1>1, <1>2 DEF Write
<1>3. CASE Receive BY <1>1, <1>3 DEF Receive
<1>4. CASE Coalesce BY <1>1, <1>4 DEF Coalesce
<1>5. ASSUME NEW w \in work, NEW h \in w.todo, Apply(w, h), UNCHANGED <<streamVars, file>> PROVE Goal
  <2>1. Apply(w, h) BY <1>5
  <2>2. PICK l : log' = With(h, l) /\ req' = [c \in Requests |-> Woken(req[c], h, l)] BY <2>1, ApplyWakes
  <2>3. req'[x] = Woken(req[x], h, l) BY <2>2
  <2>4. h \in Handles BY <1>5, ApplyMeans
  <2>5. req'[x] = req[x] \/ Notified(x, h) BY <1>5, <2>2, <2>3, NotifiedMeans
  <2> QED BY <2>4, <2>5
<1>6. ASSUME NEW c \in Requests, AppendPage(c), UNCHANGED <<streamVars, file>> PROVE Goal
  <2>1. CASE x = c BY <1>6, <2>1
  <2>2. CASE x # c
    <3>0. PICK h, new : h = req[c].handle /\ new = SnapshotMessages(c) OBVIOUS
    <3>1. PICK l : l = Appended(Read(h), new) OBVIOUS
    <3>2. /\ h \in Handles /\ (new # <<>> => log' = With(h, l))
          /\ req'[x] = IF new = <<>> THEN req[x] ELSE Woken(req[x], h, l)
      BY <1>6, <2>2, <3>0, <3>1, AppendPageMeans
    <3>3. new # <<>> => req'[x] = req[x] \/ Notified(x, h) BY <1>6, <3>2, NotifiedMeans
    <3> QED BY <3>2, <3>3
  <2> QED BY <2>1, <2>2
<1>7. ASSUME NEW c \in Requests, SnapshotFails(c), UNCHANGED <<streamVars, file>> PROVE Goal
  <2>1. req'[x] \in {req[x], Answered(Failed)} BY <1>7, SnapshotFailsMeans
  <2> QED BY <1>7, <2>1
<1>8. ASSUME NEW h \in Handles, Delete(h), UNCHANGED <<streamVars, file>> PROVE Goal
  <2>1. Deleted(h) BY <1>8 DEF Delete
  <2>2. req'[x] \in {req[x], Answered(Failed)} BY <2>1, DeletedMeans
  <2> QED BY <1>8, <2>2
<1>9. ASSUME Restart, UNCHANGED <<streamVars, file>> PROVE Goal
  <2>1. req'[x] \in {req[x], Answered(Failed)} BY <1>9, RestartMeans
  <2> QED BY <1>9, <2>1
<1>10. ASSUME NEW c \in Requests, Calls(c), UNCHANGED <<streamVars, file>> PROVE Goal
  <2>1. CASE x = c BY <1>10, <2>1
  <2>2. CASE x # c
    <3>1. Mine(c)
      <4>1. CASE Ensure(c) BY <4>1, EnsureMeans
      <4>2. CASE StartSnapshot(c)
        <5>1. req[c].handle \in Handles BY <4>2 DEF StartSnapshot, At, Types, ReqsOk, ReqOk, Busy
        <5> QED BY <4>2, <5>1, GotoOk DEF StartSnapshot, At
      <4>3. CASE Rejoin(c)
        <5>1. req[c].handle \in Handles BY <4>3 DEF Rejoin, At, Types, ReqsOk, ReqOk, Busy
        <5> QED BY <4>3, <5>1, GotoOk DEF Rejoin, At
      <4>4. CASE Fetches(c) BY <4>4, FetchesMeans
      <4>5. CASE Settle(c) BY <4>5, SettleMeans
      <4>6. CASE Resume(c) BY <4>6, ResumeMeans
      <4>7. CASE ReadLog(c) BY <4>7, ReadLogMeans
      <4>8. CASE AwaitLog(c) BY <4>8, AwaitLogMeans
      <4>9. CASE Timeout(c) BY <4>9, TimeoutMeans
      <4> QED BY <1>10, <4>1, <4>2, <4>3, <4>4, <4>5, <4>6, <4>7, <4>8, <4>9 DEF Calls
    <3> QED BY <2>2, <3>1 DEF Mine
  <2> QED BY <2>1, <2>2
<1>11. CASE ClientStep
  <2>1. ASSUME Freed(x) PROVE Goal BY <1>11, <2>1 DEF Freed
  <2>2. CASE Ask(Sync)
    <3>1. PICK c \in Requests :
                 /\ req[c].pc = "idle" /\ Mine(c)
                 /\ stream' = [stream EXCEPT ![Sync].request = c]
                 /\ req'[c].pc = (IF stream[Sync].offset = Beginning THEN "ensure" ELSE "resume")
                 /\ req'[c].handle = stream[Sync].handle /\ req'[c].from = stream[Sync].offset
                 /\ req'[c].live = stream[Sync].upToDate
      BY <2>2, AskMeans
    <3>2. CASE x = c BY <2>2, <3>1, <3>2
    <3>3. CASE x # c BY <3>1, <3>3 DEF Mine
    <3> QED BY <3>2, <3>3
  <2>3. CASE Take(Sync)
    <3>1. PICK c \in Requests : Mine(c) /\ req'[c] = Idle /\ req[c].pc = "answered"
      <4>1. \E c \in Requests : Mine(c) /\ req'[c] = Idle /\ req[c].pc = "answered" BY <2>3, TakeMeans
      <4> QED BY <4>1
    <3>2. CASE x = c BY <1>11, <3>1, <3>2
    <3>3. CASE x # c BY <3>1, <3>3 DEF Mine
    <3> QED BY <3>2, <3>3
  <2>4. CASE Disconnect(Sync) BY <2>1, <2>4, DroppedMeans DEF Disconnect
  <2>5. CASE \E r \in Requests : Abandoned(r) BY <2>1, <2>5, AbandonedMeans
  <2>6. CASE SyncStep BY <1>1, <2>6 DEF SyncStep, Clear, Commit, SaveCursor, serverVars
  <2>7. CASE \E resume \in BOOLEAN : Start(resume) BY <1>1, <2>7 DEF Start, serverVars
  <2>8. CASE Crash BY <2>1, <2>8, DroppedMeans DEF Crash, Hangup
  <2> QED BY <1>11, <2>2, <2>3, <2>4, <2>5, <2>6, <2>7, <2>8 DEF ClientStep
<1> HIDE DEF Goal
<1> QED BY <1>2, <1>3, <1>4, <1>5, <1>6, <1>7, <1>8, <1>9, <1>10, <1>11, NextCases

\* The table changes with a write only.
LEMMA TableSteps ==
    ASSUME ReplicaInv, Next
    PROVE  table' = table \/ \E r \in Rows : \E content \in Contents \cup {None} : Write(r, content)
<1>1. ASSUME UNCHANGED origin PROVE table' = table BY <1>1 DEF origin
<1>2. CASE ClientStep BY <1>2, ClientQuiet DEF Quiet
<1>3. ASSUME NEW c \in Requests, Calls(c) PROVE table' = table BY <1>3, CallsQuiet DEF Quiet
<1>4. ASSUME NEW w \in work, NEW h \in w.todo, Apply(w, h) PROVE table' = table BY <1>4, ApplySteady
<1>5. ASSUME NEW c \in Requests, AppendPage(c) PROVE table' = table BY <1>1, <1>5 DEF AppendPage
<1>6. CASE Receive BY <1>1, <1>6 DEF Receive
<1>7. CASE Coalesce BY <1>1, <1>7 DEF Coalesce
<1>8. ASSUME NEW c \in Requests, SnapshotFails(c) PROVE table' = table BY <1>1, <1>8 DEF SnapshotFails
<1>9. ASSUME NEW h \in Handles, Delete(h) PROVE table' = table BY <1>1, <1>9 DEF Delete, Deleted
<1>10. CASE Restart BY <1>1, <1>10 DEF Restart
<1> DEFINE Writes == \E r \in Rows : \E content \in Contents \cup {None} : Write(r, content)
<1>12. ASSUME NEW r \in Rows, NEW content \in Contents \cup {None}, Write(r, content) PROVE Writes BY <1>12
<1> HIDE DEF Writes
<1>13. table' = table \/ Writes BY <1>12, <1>2, <1>3, <1>4, <1>5, <1>6, <1>7, <1>8, <1>9, <1>10, NextCases
<1> QED BY <1>13 DEF Writes

\* SnapFits with the handle h and the copy t the snapshot reads.
Snap(q, h, t) ==
    /\ q.pc \in {"fetch", "append"} /\ Whole(h) =>
         /\ \A r \in Rows : t[r] = table[r] \/ Told(h, r)
         /\ \A r \in Present(t) : Place(t, r) <= q.page => Known(h, r) \/ (q.pc = "append" /\ r \in DOMAIN q.rows)
    /\ q.pc = "append" /\ Whole(h) =>
         /\ \A r \in DOMAIN q.rows : q.rows[r] = table[r] \/ Told(h, r)
         /\ Cardinality(DOMAIN q.rows) < PageSize => \A r \in Present(t) : Known(h, r) \/ r \in DOMAIN q.rows

LEMMA SnapMeans == \A c : SnapFits(c) <=> Snap(req[c], req[c].handle, Base(c))
BY DEF SnapFits, Snap

LEMMA SnapMeansNext ==
    ASSUME NEW c, NEW q, NEW h, NEW t, q = req'[c], h = q.handle, t = Base(c)', Snap(q, h, t)'
    PROVE  SnapFits(c)'
BY DEF SnapFits, Snap

\* A row that goes moves the rows behind it forward by one at most; the others only back.
LEMMA PlaceShrinks ==
    ASSUME NEW t, NEW u, Present(t) \subseteq Present(u), NEW r \in Present(t), NEW n \in Nat, Place(u, r) <= n
    PROVE  Place(t, r) <= n
<1>1. IsFiniteSet(Present(u)) /\ IsFiniteSet(Present(t)) BY FS_Subset, ShapeAssumption DEF Present
<1> DEFINE S == {q \in Present(t) : q <= r}
           T == {q \in Present(u) : q <= r}
<1>2. IsFiniteSet(T) /\ S \subseteq T BY <1>1, FS_Subset
<1> HIDE DEF S, T
<1>3. Cardinality(S) \in Nat /\ Cardinality(T) \in Nat /\ Cardinality(S) <= Cardinality(T)
  BY <1>2, FS_Subset, FS_CardinalityType
<1>4. Cardinality(T) <= n BY DEF T, Place, Rank
<1>5. Cardinality(S) <= n BY <1>3, <1>4
<1> QED BY <1>5 DEF S, Place, Rank

\* What is known and told of the rows of a snapshot stays so.
LEMMA SnapStays ==
    ASSUME NodeInv, NEW h, Steady(h), Good(h) => h \in registry, NEW q, NEW t, Snap(q, h, t),
           q.pc = "append" => DOMAIN q.rows \subseteq Rows
    PROVE  Snap(q, h, t)'
<1>1. SUFFICES ASSUME Whole(h)' PROVE Snap(q, h, t)'
  BY DEF Snap
<1>2. Whole(h) /\ Good(h) BY <1>1, SteadyMeans DEF Whole
<1>3. \A r \in Rows : (Told(h, r) => Told(h, r)') /\ (Known(h, r) => Known(h, r)') /\ (table'[r] = table[r] \/ Told(h, r)')
  BY <1>1, <1>2, KnownKept
<1>4. Present(t)' = Present(t) /\ Present(t) \subseteq Rows BY DEF Present
<1>5. \A r : Place(t, r)' = Place(t, r) BY DEF Place, Rank, Present
<1>6. q.pc = "append" => \A r \in DOMAIN q.rows : r \in Rows OBVIOUS
<1>7. q.pc \in {"fetch", "append"} =>
         /\ \A r \in Rows : t[r] = table'[r] \/ Told(h, r)'
         /\ \A r \in Present(t) : Place(t, r) <= q.page => Known(h, r)' \/ (q.pc = "append" /\ r \in DOMAIN q.rows)
  BY <1>2, <1>3, <1>4 DEF Snap
<1>8. q.pc = "append" =>
         /\ \A r \in DOMAIN q.rows : q.rows[r] = table'[r] \/ Told(h, r)'
         /\ Cardinality(DOMAIN q.rows) < PageSize => \A r \in Present(t) : Known(h, r)' \/ r \in DOMAIN q.rows
  BY <1>2, <1>3, <1>4, <1>6 DEF Snap
<1> QED BY <1>4, <1>5, <1>7, <1>8 DEF Snap

LEMMA WriteSnap ==
    ASSUME ReplicaInv, Next, NEW r0 \in Rows, NEW content \in Contents \cup {None}, Write(r0, content), NEW c \in Requests
    PROVE  SnapFits(c)'
<1> USE DEF ReplicaInv
<1>1. PICK q, h, t : q = req[c] /\ h = q.handle /\ t = Base(c) OBVIOUS
<1>2. req' = req /\ q = req'[c] BY <1>1 DEF Write
<1>3. Steady(h) /\ Snap(q, h, t) /\ ReqOk(q) /\ ReqFits(c) BY <1>1, SteadyAll, SnapMeans DEF NodeInv, Types, ReqsOk
<1>4. CASE ~(q.pc \in {"fetch", "append"})
  <2>1. PICK u : u = Base(c)' OBVIOUS
  <2>2. Snap(q, h, u)' BY <1>4 DEF Snap
  <2> QED BY <1>1, <1>2, <2>1, <2>2, SnapMeansNext
<1>5. CASE q.pc \in {"fetch", "append"} /\ Direct /\ q.base # None
  <2>1. Base(c)' = t BY <1>1, <1>2, <1>5 DEF Base
  <2>2. Good(h) => h \in registry BY <1>1, <1>3, <1>5 DEF ReqFits
  <2>3. q.pc = "append" => DOMAIN q.rows \subseteq Rows BY <1>3 DEF ReqOk, RowsOk
  <2>4. Snap(q, h, t)' BY <1>3, <2>2, <2>3, SnapStays
  <2> QED BY <1>1, <1>2, <2>1, <2>4, SnapMeansNext
<1>6. CASE q.pc \in {"fetch", "append"} /\ ~(Direct /\ q.base # None)
  <2>1. PICK u : u = table' OBVIOUS
  <2>2. t = table /\ Base(c)' = u BY <1>1, <1>2, <1>6, <2>1 DEF Base
  <2>3. SUFFICES ASSUME Whole(h)' PROVE Snap(q, h, u)'
    <3>1. Snap(q, h, u)' BY <2>3 DEF Snap
    <3> QED BY <1>1, <1>2, <2>2, <3>1, SnapMeansNext
  <2>4. Whole(h) /\ Good(h) /\ Good(h)' BY <1>3, <2>3, SteadyMeans DEF Whole
  <2>5. h \in registry BY <1>1, <1>3, <1>6, <2>4 DEF ReqFits
  <2>6. \A r \in Rows : (Told(h, r) => Told(h, r)') /\ (Known(h, r) => Known(h, r)') /\ (table'[r] = table[r] \/ Told(h, r)')
    BY <1>3, <2>3, <2>5, KnownKept
  <2>7. Known(h, r0)'
    <3>1. PICK n : n = Len(wal) + 1 OBVIOUS
    <3>2. /\ n \in DOMAIN wal' /\ wal'[n].row = r0 /\ DOMAIN wal' = 1 .. n /\ n \in Nat BY <3>1, WriteMeans
    <3>3. Newest(n, r0)' BY <3>2 DEF Newest
    <3>4. next' = next /\ next <= n BY <3>1 DEF Write, stream_, Types, NodeOk
    <3> QED BY <3>2, <3>3, <3>4 DEF Known, Coming, Carried
  <2>8. u[r0] = content /\ \A r \in Rows : r # r0 => u[r] = table[r] BY <2>1, WriteMeans
  <2>9. \A r \in Present(u) : r \in Rows /\ (r # r0 => r \in Present(t)) BY <2>2, <2>8 DEF Present
  <2>10. q.page \in Nat BY <1>3 DEF ReqOk
  <2>11. ASSUME NEW r \in Present(u), r # r0, Place(u, r) <= q.page
         PROVE  Place(t, r) <= q.page
    <3>1. CASE content # None
      <4>1. Present(t) \subseteq Present(u) BY <2>2, <2>8, <3>1 DEF Present
      <4> QED BY <2>9, <2>10, <2>11, <4>1, PlaceShrinks
    <3>2. CASE content = None
      <4>1. Place(u, r) \in Nat \ {0} BY PageMeans, 0 \in Nat
      <4>2. q.page > 0 BY <2>10, <2>11, <4>1
      <4>3. ~Direct BY <1>3, <1>6, <4>2 DEF ReqOk
      <4>4. flawed' = flawed \cup Shifted(r0) BY <3>2 DEF Write
      <4>5. h \in Shifted(r0) BY <1>1, <1>6, <4>2, <4>3 DEF Shifted
      <4> QED BY <2>4, <4>4, <4>5 DEF Good
    <3> QED BY <3>1, <3>2
  <2>12. Present(u)' = Present(u) /\ \A r : Place(u, r)' = Place(u, r) BY DEF Present, Place, Rank
  <2>13. \A r \in Present(u) : Place(u, r) <= q.page => Known(h, r)' \/ (q.pc = "append" /\ r \in DOMAIN q.rows)
    BY <1>3, <1>6, <2>4, <2>6, <2>7, <2>9, <2>11 DEF Snap
  <2>14. q.pc = "append" =>
           /\ \A r \in DOMAIN q.rows : q.rows[r] = table'[r] \/ Told(h, r)'
           /\ Cardinality(DOMAIN q.rows) < PageSize => \A r \in Present(u) : Known(h, r)' \/ r \in DOMAIN q.rows
    <3>1. q.pc = "append" => \A r \in DOMAIN q.rows : r \in Rows BY <1>3 DEF ReqOk, RowsOk
    <3> QED BY <1>3, <2>4, <2>6, <2>7, <2>9, <3>1 DEF Snap
  <2> QED BY <2>1, <2>12, <2>13, <2>14 DEF Snap
<1> QED BY <1>4, <1>5, <1>6

LEMMA StartSnap ==
    ASSUME ReplicaInv, Next, NEW c \in Requests, StartSnapshot(c)
    PROVE  SnapFits(c)'
<1> USE DEF ReplicaInv
<1>1. /\ Goto(c, "fetch") /\ req[c].pc = "new" /\ table' = table
      /\ req[c].handle \in Handles /\ req[c].page = 0 /\ req[c].base = None
  BY DEF StartSnapshot, At, origin, Types, ReqsOk, ReqOk, Busy
<1>2. req'[c].pc = "fetch" /\ req'[c].page = 0 /\ req'[c].base = None BY <1>1, GotoOk DEF Fields
<1>3. PICK q, h, t : q = req'[c] /\ h = q.handle /\ t = table OBVIOUS
<1>4. Base(c)' = t BY <1>1, <1>2, <1>3 DEF Base
<1>5. \A r \in Present(t) : ~(Place(t, r) <= q.page)
  <2>1. \A r \in Present(t) : Place(t, r) \in Nat \ {0} BY PageMeans, 0 \in Nat
  <2> QED BY <1>2, <1>3, <2>1
<1>6. Present(t)' = Present(t) /\ \A r : Place(t, r)' = Place(t, r) BY DEF Present, Place, Rank
<1>7. Snap(q, h, t)' BY <1>1, <1>2, <1>3, <1>5, <1>6 DEF Snap
<1> QED BY <1>3, <1>4, <1>7, SnapMeansNext

LEMMA FetchSnap ==
    ASSUME ReplicaInv, Next, NEW c \in Requests, Fetches(c)
    PROVE  SnapFits(c)'
<1> USE DEF ReplicaInv
<1>1. PICK p, q, h, t : p = req[c] /\ q = req'[c] /\ h = q.handle /\ t = Base(c) OBVIOUS
<1>2. p.pc = "fetch" /\ q.handle = p.handle /\ q.pc \in {"settle", "append"} BY <1>1, FetchesMeans
<1>3. ReqOk(p) /\ ReqFits(c) /\ Steady(h) BY <1>1, SteadyAll DEF NodeInv, Types, ReqsOk
<1>4. table' = table BY FetchesMeans DEF origin
<1>5. Base(c)' = t
  <2>1. PICK u \in Tables : GetsPage(c, u) BY FetchesMeans
  <2>2. q.base = IF Direct THEN u ELSE None BY <1>1, <2>1, GetsPageMeans
  <2>3. CASE ~Direct BY <1>1, <1>4, <2>3 DEF Base
  <2>4. CASE Direct
    <3>1. FetchPage(c) BY <2>4 DEF Fetches, FetchReplica
    <3>2. t \in Tables /\ GetsPage(c, t) BY <1>1, <3>1, FetchPageMeans DEF Base
    <3>3. q.base = t BY <1>1, <2>4, <3>2, GetsPageMeans
    <3>4. t # None BY <3>2, NoneAssumption DEF Tables
    <3> QED BY <1>1, <2>4, <3>3, <3>4 DEF Base
  <2> QED BY <2>3, <2>4
<1>6. CASE ~Whole(h)'
  <2>1. Snap(q, h, t)' BY <1>6 DEF Snap
  <2> QED BY <1>1, <1>5, <2>1, SnapMeansNext
<1>7. CASE Whole(h)'
  <2>1. /\ \A r \in Rows : t[r] = table[r] \/ Told(h, r)
        /\ DOMAIN q.rows \subseteq Rows
        /\ \A r \in DOMAIN q.rows : q.rows[r] = table[r] \/ Told(h, r)
        /\ \A r \in Present(t) : Place(t, r) <= q.page => Known(h, r) \/ r \in DOMAIN q.rows
        /\ Cardinality(DOMAIN q.rows) < PageSize => \A r \in Present(t) : Known(h, r) \/ r \in DOMAIN q.rows
    BY <1>1, <1>2, <1>7, FetchedRows
  <2>2. CASE q.pc = "settle"
    <3>1. Snap(q, h, t)' BY <2>2 DEF Snap
    <3> QED BY <1>1, <1>5, <3>1, SnapMeansNext
  <2>3. CASE q.pc = "append"
    <3>1. Snap(q, h, t) BY <2>1, <2>3 DEF Snap
    <3>2. Good(h) => h \in registry BY <1>1, <1>2, <1>3 DEF ReqFits
    <3>3. Snap(q, h, t)' BY <1>3, <2>1, <3>1, <3>2, SnapStays
    <3> QED BY <1>1, <1>5, <3>3, SnapMeansNext
  <2> QED BY <1>2, <2>2, <2>3
<1> QED BY <1>6, <1>7

LEMMA AppendSnap ==
    ASSUME ReplicaInv, Next, NEW c \in Requests, AppendPage(c)
    PROVE  SnapFits(c)'
<1> USE DEF ReplicaInv
<1>1. PICK p, q, h, t : p = req[c] /\ q = req'[c] /\ h = p.handle /\ t = Base(c) OBVIOUS
<1>2. /\ p.pc = "append" /\ q.handle = h /\ h \in Handles
      /\ q.pc \in {"settle", "fetch"} /\ q.base = p.base /\ q.page = p.page
  BY <1>1, AppendPageMeans
<1>3. ReqOk(p) /\ Snap(p, h, t) /\ ReqFits(c) /\ Steady(h)
  BY <1>1, <1>2, SteadyAll, SnapMeans DEF NodeInv, Types, ReqsOk
<1>4. table' = table BY DEF AppendPage, origin
<1>5. Base(c)' = t BY <1>1, <1>2, <1>4 DEF Base
<1>6. Good(h) => h \in registry BY <1>1, <1>2, <1>3 DEF ReqFits
<1>7. DOMAIN p.rows \subseteq Rows BY <1>2, <1>3 DEF ReqOk, RowsOk
<1>8. Snap(p, h, t)' BY <1>3, <1>6, <1>7, SnapStays
<1>9. Snap(q, h, t)'
  <2>1. CASE ~Whole(h)' BY <2>1 DEF Snap
  <2>2. CASE Whole(h)'
    <3>1. \A r \in DOMAIN p.rows : Has(h, r, Beginning)' BY <1>1, <1>2, <2>2, AppendedRows
    <3>2. \A r \in DOMAIN p.rows : Known(h, r)' BY <3>1 DEF Known
    <3>3. /\ \A r \in Rows : t[r] = table'[r] \/ Told(h, r)'
          /\ \A r \in Present(t)' : Place(t, r)' <= p.page => Known(h, r)'
      BY <1>2, <1>8, <2>2, <3>2 DEF Snap
    <3> QED BY <1>2, <3>3 DEF Snap
  <2> QED BY <2>1, <2>2
<1> QED BY <1>1, <1>2, <1>5, <1>9, SnapMeansNext

\* Every step keeps the snapshots under way.
LEMMA SnapAll ==
    ASSUME ReplicaInv, Next, NEW c \in Requests
    PROVE  SnapFits(c)'
<1> USE DEF ReplicaInv
<1>1. CASE ~(req'[c].pc \in {"fetch", "append"})
  BY <1>1 DEF SnapFits
<1>2. CASE req'[c] = req[c] /\ req[c].pc \in {"fetch", "append"}
  <2>1. CASE \E r \in Rows : \E content \in Contents \cup {None} : Write(r, content) BY <2>1, WriteSnap
  <2>2. CASE table' = table
    <3>1. PICK q, h, t : q = req[c] /\ h = q.handle /\ t = Base(c) OBVIOUS
    <3>2. Steady(h) /\ Snap(q, h, t) /\ ReqOk(q) /\ ReqFits(c) BY <3>1, SteadyAll, SnapMeans DEF NodeInv, Types, ReqsOk
    <3>3. Base(c)' = t BY <1>2, <2>2, <3>1 DEF Base
    <3>4. Good(h) => h \in registry BY <1>2, <3>1, <3>2 DEF ReqFits
    <3>5. q.pc = "append" => DOMAIN q.rows \subseteq Rows BY <3>2 DEF ReqOk, RowsOk
    <3>6. Snap(q, h, t)' BY <3>2, <3>4, <3>5, SnapStays
    <3> QED BY <1>2, <3>1, <3>3, <3>6, SnapMeansNext
  <2> QED BY <2>1, <2>2, TableSteps
<1>3. CASE Calls(c) /\ req'[c].pc \in {"fetch", "append"}
  <2>1. CASE Ensure(c) BY <1>3, <2>1, EnsureMeans
  <2>2. CASE StartSnapshot(c) BY <2>2, StartSnap
  <2>3. CASE Rejoin(c)
    <3>1. req[c].handle \in Handles BY <2>3 DEF Rejoin, At, Types, ReqsOk, ReqOk, Busy
    <3>2. req'[c].pc = "settle" BY <2>3, <3>1, GotoOk DEF Rejoin, At
    <3> QED BY <1>3, <3>2
  <2>4. CASE Fetches(c) BY <2>4, FetchSnap
  <2>5. CASE Settle(c)
    <3>1. req'[c] = Reply(req[c], Settled(req[c].handle)) /\ ReqOk(req[c]) BY <2>5, SettleMeans DEF Types, ReqsOk
    <3>2. DOMAIN req[c] = Fields BY <3>1 DEF ReqOk
    <3>3. PICK q, a : req'[c] = Reply(q, a) /\ DOMAIN q = Fields BY <3>1, <3>2
    <3>4. Reply(q, a).pc \in {"await", "answered"} BY <3>3, ReplyPc
    <3>5. req'[c].pc \in {"await", "answered"} BY <3>3, <3>4
    <3> QED BY <1>3, <3>5
  <2>6. CASE Resume(c) BY <1>3, <2>6, ResumeMeans
  <2>7. CASE ReadLog(c)
    <3>1. ReqOk(req[c]) BY DEF Types, ReqsOk
    <3>2. req'[c].pc = "answered" \/ \E a : req'[c] = Reply(req[c], a) BY <2>7, ReadLogMeans
    <3>3. ASSUME NEW a PROVE Reply(req[c], a).pc \in {"await", "answered"}
      <4>1. PICK q : q = req[c] OBVIOUS
      <4>2. DOMAIN q = Fields BY <3>1, <4>1 DEF ReqOk
      <4>3. Reply(q, a).pc \in {"await", "answered"} BY <4>2, ReplyPc
      <4> QED BY <4>1, <4>3
    <3>4. req'[c].pc \in {"await", "answered"} BY <3>2, <3>3
    <3> QED BY <1>3, <3>4
  <2>8. CASE AwaitLog(c) BY <1>3, <2>8, AwaitLogMeans DEF Answered, Idle
  <2>9. CASE Timeout(c) BY <1>3, <2>9, TimeoutMeans DEF Answered, Idle
  <2> QED BY <1>3, <2>1, <2>2, <2>3, <2>4, <2>5, <2>6, <2>7, <2>8, <2>9 DEF Calls
<1>4. CASE AppendPage(c) BY <1>4, AppendSnap
<1>5. ASSUME NEW h \in Handles, Notified(c, h) PROVE req'[c].pc = "answered"
  BY <1>5 DEF Notified, Answered, Idle
<1>6. Answered(Failed).pc = "answered" /\ Idle.pc = "idle" BY DEF Answered, Idle
<1>7. CASE Calls(c) BY <1>1, <1>3, <1>7
<1>8. CASE req'[c] = req[c] BY <1>1, <1>2, <1>8
<1>9. CASE req'[c].pc \in {"answered", "idle", "ensure", "resume"} BY <1>1, <1>9
<1>10. req'[c] = req[c] \/ Calls(c) \/ AppendPage(c) \/ req'[c].pc \in {"answered", "idle", "ensure", "resume"}
  <2>1. \/ req'[c] = req[c]
        \/ Calls(c) \/ AppendPage(c)
        \/ req'[c] = Answered(Failed)
        \/ \E h \in Handles : Notified(c, h)
        \/ req'[c] = Idle
        \/ req'[c].pc = (IF stream[Sync].offset = Beginning THEN "ensure" ELSE "resume")
    BY ReqSteps
  <2> QED BY <1>5, <1>6, <2>1
<1> QED BY <1>4, <1>7, <1>8, <1>9, <1>10

(***************************************************************************)
(* What requests rely on; the node.                                        *)
(***************************************************************************)
\* A good handle is unregistered by a restart only.
LEMMA RegistryKept ==
    ASSUME ReplicaInv, Next, NEW h, Good(h)', h \in registry
    PROVE  h \in registry' \/ Restart
<1> USE DEF ReplicaInv
<1>1. CASE \E r \in Rows : \E content \in Contents \cup {None} : Write(r, content) BY <1>1 DEF Write, shapes
<1>2. CASE Receive BY <1>2 DEF Receive, shapes
<1>3. CASE Coalesce BY <1>3 DEF Coalesce, shapes
<1>4. ASSUME NEW w \in work, NEW d \in w.todo, Apply(w, d) PROVE h \in registry' BY <1>4 DEF Apply
<1>5. ASSUME NEW c \in Requests, AppendPage(c) PROVE h \in registry' BY <1>5 DEF AppendPage
<1>6. ASSUME NEW c \in Requests, SnapshotFails(c) PROVE h \in registry'
  <2>1. registry' = registry \ {req[c].handle} /\ gone' = gone \cup {req[c].handle} BY <1>6, SnapshotFailsMeans
  <2> QED BY <2>1 DEF Good
<1>7. ASSUME NEW d \in Handles, Delete(d) PROVE h \in registry'
  <2>1. Deleted(d) BY <1>7 DEF Delete
  <2>2. registry' = registry \ {d} /\ gone' = gone \cup {d} BY <2>1, DeletedMeans
  <2> QED BY <2>2 DEF Good
<1>8. ASSUME NEW c \in Requests, Calls(c) PROVE h \in registry' BY <1>8, CallsQuiet DEF Quiet
<1>9. CASE ClientStep BY <1>9, ClientQuiet
<1> QED BY <1>1, <1>2, <1>3, <1>4, <1>5, <1>6, <1>7, <1>8, <1>9, NextCases

\* Beyond of a handle that is good or not, its log and who reads the table for it.
BeyondOf(good, l, readers, o) == good /\ 0 <= o =>
    /\ l.messages # <<>> /\ o <= l.last
    /\ o < SnapshotEnd => readers = {} /\ \A i \in DOMAIN l.messages : l.messages[i].offset <= o \/ SnapshotEnd < l.messages[i].offset

LEMMA BeyondMeans ==
    ASSUME NEW h, NEW o
    PROVE  /\ Beyond(h, o) <=> BeyondOf(Good(h), Read(h), Snapshotting(h), o)
           /\ Beyond(h, o)' <=> BeyondOf(Good(h)', Read(h)', Snapshotting(h)', o)
BY DEF Beyond, BeyondOf, NoRows, Messages, SnapshotEnd

\* Who has got past the snapshot gets to the end of the log.
LEMMA EndBeyond ==
    ASSUME NEW good, NEW l, LogOk(l), NEW readers, NEW from \in Int, Beginning <= from, BeyondOf(good, l, readers, from),
           \/ good => 0 <= from
           \/ /\ from < l.last
              /\ good /\ from = Beginning => \A i \in DOMAIN l.messages : l.messages[i].offset <= Beginning \/ SnapshotEnd < l.messages[i].offset
    PROVE  BeyondOf(good, l, readers, l.last)
<1>1. SUFFICES ASSUME good, 0 <= l.last PROVE BeyondOf(good, l, readers, l.last) BY DEF BeyondOf
<1>2. /\ l.messages \in Seq(Message) /\ l.last \in Int /\ DOMAIN l.messages = 1 .. Len(l.messages) /\ Len(l.messages) \in Nat
      /\ \A i \in DOMAIN l.messages : l.messages[i].offset \in Int /\ 0 <= l.messages[i].offset /\ l.messages[i].offset <= l.last
  BY LogFacts
<1>3. l.messages # <<>>
  <2>1. l.messages = <<>> => l.last = -1 BY DEF LogOk, Beginning
  <2> QED BY <1>1, <2>1
<1>4. SUFFICES ASSUME l.last < SnapshotEnd PROVE readers = {} BY <1>2, <1>3 DEF BeyondOf
<1>5. CASE 0 <= from
  <2>1. from <= l.last BY <1>1, <1>5 DEF BeyondOf
  <2>2. from < SnapshotEnd BY <1>2, <1>4, <2>1, SnapshotEndNat
  <2> QED BY <1>1, <1>5, <2>2 DEF BeyondOf
<1>6. CASE ~(0 <= from)
  <2>1. from = Beginning BY <1>6 DEF Beginning
  <2>2. 1 \in DOMAIN l.messages
    <3>1. Len(l.messages) # 0 BY <1>2, <1>3, EmptySeq
    <3> QED BY <1>2, <3>1
  <2>3. SnapshotEnd < l.messages[1].offset
    <3>1. l.messages[1].offset <= Beginning \/ SnapshotEnd < l.messages[1].offset BY <1>1, <1>6, <2>1, <2>2
    <3> QED BY <1>2, <2>2, <3>1 DEF Beginning
  <2> QED BY <1>2, <1>4, <2>2, <2>3, SnapshotEndNat
<1> QED BY <1>5, <1>6

\* ReqFits for the request q of the handle h.
Fit(q, h) ==
    /\ q.pc \in {"fetch", "append", "settle", "await", "waiting", "read"} /\ Good(h) => h \in registry
    /\ q.pc = "rejoin" /\ Good(h) => Messages(h) # <<>>
    /\ q.pc \in {"resume", "read", "await", "waiting"} => Beyond(h, q.from)
    /\ q.pc \in {"await", "waiting"} /\ q.from = Beginning /\ Good(h) => NoRows(h, Beginning)
    /\ q.pc = "answered" /\ q.answer.status = "ok" => Beyond(q.answer.handle, q.answer.offset)

LEMMA FitMeans == \A c : ReqFits(c) <=> Fit(req[c], req[c].handle)
BY DEF ReqFits, Fit

LEMMA FitMeansNext ==
    ASSUME NEW c, NEW q, NEW h, q = req'[c], h = q.handle, Fit(q, h)'
    PROVE  ReqFits(c)'
BY DEF ReqFits, Fit

\* A request that is left alone still fits.
LEMMA FitStays ==
    ASSUME ReplicaInv, Next, NEW c \in Requests, req'[c] = req[c]
    PROVE  ReqFits(c)'
<1> USE DEF ReplicaInv
<1>1. PICK q, h : q = req[c] /\ h = q.handle OBVIOUS
<1>2. ReqOk(q) /\ Fit(q, h) /\ Steady(h) /\ SnapsKept /\ RowsKept(h)
  BY <1>1, FitMeans, SteadyAll, SnapsAll, RowsAll DEF NodeInv, Types, ReqsOk
<1>3. Good(h)' => Good(h) BY <1>2, SteadyMeans
<1>4. q.pc \in {"fetch", "append", "settle", "await", "waiting", "read"} /\ Good(h)' => h \in registry'
  <2>1. q.pc \in {"fetch", "append", "settle", "await", "waiting", "read"} => ~Restart
    <3>1. Restart => q = (IF q.pc \in {"idle", "answered"} THEN q ELSE Answered(Failed)) BY <1>1, RestartMeans
    <3>2. Answered(Failed).pc = "answered" BY DEF Answered, Idle
    <3> QED BY <3>1, <3>2
  <2> QED BY <1>2, <1>3, <2>1, RegistryKept DEF Fit
<1>5. q.pc = "rejoin" /\ Good(h)' => Messages(h)' # <<>> BY <1>2, <1>3 DEF Fit, Steady, Holds
<1>6. q.from \in Int BY <1>2 DEF ReqOk
<1>7. q.pc \in {"resume", "read", "await", "waiting"} => Beyond(h, q.from)' BY <1>2, <1>6, BeyondKept DEF Fit
<1>8. q.pc \in {"await", "waiting"} /\ q.from = Beginning /\ Good(h)' => NoRows(h, Beginning)'
  <2>1. q.pc \in {"await", "waiting"} /\ q.from = Beginning => h \in Followed(h) BY <1>1 DEF Followed
  <2>2. PICK o \in Int : o = Beginning /\ Beginning' = Beginning BY DEF Beginning
  <2>3. q.pc \in {"await", "waiting"} /\ q.from = Beginning /\ Good(h)' => NoRows(h, o)'
    BY <1>2, <1>3, <2>1, <2>2 DEF Fit, RowsKept
  <2> QED BY <2>2, <2>3
<1>9. q.pc = "answered" /\ q.answer.status = "ok" => Beyond(q.answer.handle, q.answer.offset)'
  <2>1. SUFFICES ASSUME q.pc = "answered", q.answer.status = "ok" PROVE Beyond(q.answer.handle, q.answer.offset)'
    OBVIOUS
  <2>2. PICK d, o : d = q.answer.handle /\ o = q.answer.offset OBVIOUS
  <2>3. o \in Int /\ Beyond(d, o) BY <1>2, <2>1, <2>2 DEF ReqOk, AnswerOk, Fit
  <2>4. Steady(d) /\ RowsKept(d) BY SteadyAll, RowsAll
  <2>5. Beyond(d, o)' BY <1>2, <2>3, <2>4, BeyondKept
  <2> QED BY <2>2, <2>5
<1>10. Fit(q, h)' BY <1>4, <1>5, <1>7, <1>8, <1>9 DEF Fit
<1> QED BY <1>1, <1>10, FitMeansNext

LEMMA ReplyMeans ==
    ASSUME NEW q, ReqOk(q), NEW a
    PROVE  \/ /\ Reply(q, a).pc = "await" /\ Reply(q, a).handle = q.handle /\ Reply(q, a).from = a.offset
              /\ a.messages = <<>> /\ q.live = TRUE
           \/ Reply(q, a) = Answered(a) /\ Reply(q, a).pc = "answered" /\ Reply(q, a).answer = a
<1>1. DOMAIN q = Fields BY DEF ReqOk
<1>2. CASE a.messages = <<>> /\ q.live
  <2>1. /\ Reply(q, a).pc = "await" /\ Reply(q, a).handle = q.handle /\ Reply(q, a).from = a.offset
    BY <1>1, <1>2 DEF Reply, Fields
  <2> QED BY <1>2, <2>1
<1>3. CASE ~(a.messages = <<>> /\ q.live) BY <1>3 DEF Reply, Answered, Idle
<1> QED BY <1>2, <1>3

\* The state after a reply: the answer is as far as a request may be.
LEMMA ReplyFits ==
    ASSUME NEW c, NEW p, ReqOk(p), NEW h, h = p.handle, NEW a, a.handle = h, req'[c] = Reply(p, a), Good(h)' => h \in registry',
           Beyond(h, a.offset)', a.offset = Beginning /\ Good(h)' => Messages(h)' = <<>>
    PROVE  ReqFits(c)'
<1>1. PICK q, o : q = req'[c] /\ o = a.offset OBVIOUS
<1>2. CASE /\ q.pc = "await" /\ q.handle = h /\ q.from = o
  <2>1. o = Beginning /\ Good(h)' => NoRows(h, Beginning)'
    <3>1. DOMAIN <<>> = {} OBVIOUS
    <3> QED BY <1>1, <3>1 DEF NoRows
  <2>2. Fit(q, h)' BY <1>1, <1>2, <2>1 DEF Fit, Beginning
  <2> QED BY <1>1, <1>2, <2>2, FitMeansNext
<1>3. CASE q.pc = "answered" /\ q.answer = a
  <2>1. PICK d : d = q.handle OBVIOUS
  <2>2. Fit(q, d)' BY <1>1, <1>3 DEF Fit
  <2> QED BY <1>1, <2>1, <2>2, FitMeansNext
<1>4. q = Reply(p, a) BY <1>1
<1>5. \/ Reply(p, a).pc = "await" /\ Reply(p, a).handle = p.handle /\ Reply(p, a).from = a.offset
      \/ Reply(p, a).pc = "answered" /\ Reply(p, a).answer = a
  BY ReplyMeans
<1>6. \/ q.pc = "await" /\ q.handle = h /\ q.from = o
      \/ q.pc = "answered" /\ q.answer = a
  BY <1>1, <1>4, <1>5
<1> QED BY <1>2, <1>3, <1>6

LEMMA SettleFit ==
    ASSUME ReplicaInv, Next, NEW c \in Requests, Settle(c)
    PROVE  ReqFits(c)'
<1> USE DEF ReplicaInv
<1>1. PICK p, h, l : p = req[c] /\ h = p.handle /\ l = Read(h) OBVIOUS
<1>2. PICK a : a = Settled(h) OBVIOUS
<1>3. /\ p.pc = "settle" /\ h \in Handles /\ Mine(c) /\ req'[c] = Reply(p, a) /\ p.from = Beginning
      /\ flawed' = flawed \cup Gap(h, Beginning) \cup Half(h)
  BY <1>1, <1>2, SettleMeans
<1>4. ReqOk(p) /\ Fit(p, h) /\ Steady(h) /\ LogOk(l) BY <1>1, SteadyAll, FitMeans, ReadOk DEF NodeInv, Types, ReqsOk
<1>5. UNCHANGED <<log, registry>> BY DEF Settle, shapes
<1>6. Read(h)' = l BY <1>1, <1>5, SameReads
<1>7. Good(h)' => Good(h) BY <1>4, SteadyMeans
<1>8. Good(h)' => h \in registry' BY <1>3, <1>4, <1>5, <1>7 DEF Fit
<1>9. Good(h)' => Snapshotting(h)' = {}
  <2>1. Good(h)' => Snapshotting(h) = {} BY <1>3 DEF Good, Half
  <2>2. req'[c].pc \in {"await", "answered"} 
    <3>1. Reply(p, a).pc \in {"await", "answered"} BY <1>4, ReplyMeans
    <3> QED BY <1>3, <3>1
  <2> QED BY <1>3, <2>1, <2>2 DEF Mine, Snapshotting
<1>10. /\ a.handle = h /\ a.messages = SnapshotPart(l.messages)
       /\ a.offset = IF Len(SnapshotPart(l.messages)) = Len(l.messages) THEN l.last ELSE SnapshotEnd
  BY <1>1, <1>2, <1>3, <1>4, SettledOk DEF Messages
<1>11. /\ l.messages \in Seq(Message) /\ l.last \in Int /\ DOMAIN l.messages = 1 .. Len(l.messages) /\ Len(l.messages) \in Nat
       /\ \A i \in DOMAIN l.messages : l.messages[i].offset \in Int /\ 0 <= l.messages[i].offset /\ l.messages[i].offset <= l.last
       /\ Beginning <= l.last
  BY <1>4, LogFacts
<1>12. l.messages = <<>> => l.last = Beginning BY <1>4 DEF LogOk
<1>13. Beyond(h, a.offset)' /\ (a.offset = Beginning => l.messages = <<>>)
  <2>1. PICK good, readers : good = Good(h)' /\ readers = Snapshotting(h)' OBVIOUS
  <2>2. good => readers = {} BY <1>9, <2>1
  <2>3. CASE a.offset = l.last
    <3>1. BeyondOf(good, l, readers, l.last) BY <1>11, <1>12, <2>2 DEF BeyondOf, Beginning
    <3>2. l.last = Beginning => l.messages = <<>> BY <1>4 DEF LogOk, Beginning
    <3> QED BY <1>6, <2>1, <2>3, <3>1, <3>2, BeyondMeans
  <2>4. CASE a.offset = SnapshotEnd /\ Len(SnapshotPart(l.messages)) # Len(l.messages)
    <3>1. PICK i \in DOMAIN l.messages : SnapshotEnd < l.messages[i].offset
      <4>1. SUFFICES ASSUME \A i \in DOMAIN l.messages : l.messages[i].offset <= SnapshotEnd PROVE FALSE
        BY <1>11, SnapshotEndNat
      <4>2. {i \in DOMAIN l.messages : l.messages[i].offset <= SnapshotEnd} = 1 .. Len(l.messages) BY <1>11, <4>1
      <4>3. Cardinality(1 .. Len(l.messages)) = Len(l.messages) BY <1>11, FS_Interval
      <4>4. Len(SnapshotPart(l.messages)) = Cardinality({i \in DOMAIN l.messages : l.messages[i].offset <= SnapshotEnd})
        BY <1>11, PickedMeans DEF SnapshotPart
      <4> QED BY <2>4, <4>2, <4>3, <4>4
    <3>2. l.messages # <<>> /\ SnapshotEnd <= l.last
      <4>1. DOMAIN <<>> = {} OBVIOUS
      <4> QED BY <1>11, <3>1, <4>1, SnapshotEndNat
    <3>3. BeyondOf(good, l, readers, SnapshotEnd) BY <2>2, <3>2, SnapshotEndNat DEF BeyondOf
    <3>4. SnapshotEnd # Beginning BY SnapshotEndNat DEF Beginning
    <3>5. Beyond(h, SnapshotEnd)' <=> BeyondOf(Good(h)', Read(h)', Snapshotting(h)', SnapshotEnd) BY BeyondMeans
    <3> QED BY <1>6, <2>1, <2>4, <3>3, <3>4, BeyondMeans
  <2> QED BY <1>10, <2>3, <2>4
<1>14. Messages(h)' = l.messages BY <1>6 DEF Messages
<1> QED BY <1>1, <1>3, <1>4, <1>8, <1>10, <1>13, <1>14, ReplyFits

LEMMA ReadLogFit ==
    ASSUME ReplicaInv, Next, NEW c \in Requests, ReadLog(c)
    PROVE  ReqFits(c)'
<1> USE DEF ReplicaInv
<1>1. PICK p, h, l : p = req[c] /\ h = p.handle /\ l = Read(h) OBVIOUS
<1>2. PICK a : a = Ok(h, After(l.messages, p.from), Later(p.from, l.last), TRUE) OBVIOUS
<1>3. /\ p.pc = "read" /\ h \in Handles /\ Mine(c) /\ 0 <= p.from /\ p.from \in Int
      /\ \/ req'[c].pc = "answered" /\ req'[c].answer.status = "must-refetch"
         \/ req'[c] = Reply(p, a)
  BY <1>1, <1>2, ReadLogMeans DEF Messages
<1>4. ReqOk(p) /\ Fit(p, h) /\ Steady(h) /\ LogOk(l) BY <1>1, SteadyAll, FitMeans, ReadOk DEF NodeInv, Types, ReqsOk
<1>5. UNCHANGED <<log, registry>> BY DEF ReadLog, shapes
<1>6. Read(h)' = l BY <1>1, <1>5, SameReads
<1>7. Good(h)' => Good(h) BY <1>4, SteadyMeans
<1>8. Good(h)' => h \in registry' BY <1>3, <1>4, <1>5, <1>7 DEF Fit
<1>9. CASE req'[c].pc = "answered" /\ req'[c].answer.status = "must-refetch"
  <2>1. PICK q, d : q = req'[c] /\ d = q.handle OBVIOUS
  <2>2. Fit(q, d)' BY <1>9, <2>1 DEF Fit
  <2> QED BY <2>1, <2>2, FitMeansNext
<1>10. CASE req'[c] = Reply(p, a)
  <2>1. a.handle = h /\ a.offset = Later(p.from, l.last) BY <1>2 DEF Ok, Answer
  <2>2. Beyond(h, p.from)' BY <1>3, <1>4, SnapsAll, RowsAll, BeyondKept DEF Fit
  <2>3. PICK good, readers : good = Good(h)' /\ readers = Snapshotting(h)' OBVIOUS
  <2>4. BeyondOf(good, l, readers, p.from) BY <1>6, <2>2, <2>3, BeyondMeans
  <2>z. Beginning <= p.from /\ 0 <= p.from /\ p.from \in Int BY <1>3 DEF Beginning
  <2>y. LogOk(l) BY <1>4
  <2>5. BeyondOf(good, l, readers, l.last) BY <2>4, <2>y, <2>z, EndBeyond
  <2>6. BeyondOf(good, l, readers, a.offset) BY <2>1, <2>4, <2>5 DEF Later
  <2>7. Beyond(h, a.offset)' BY <1>6, <2>3, <2>6, BeyondMeans
  <2>8. a.offset # Beginning BY <1>3, <2>1 DEF Later, Beginning
  <2> QED BY <1>1, <1>4, <1>8, <1>10, <2>1, <2>7, <2>8, ReplyFits
<1> QED BY <1>3, <1>9, <1>10

LEMMA AwaitLogFit ==
    ASSUME ReplicaInv, Next, NEW c \in Requests, AwaitLog(c)
    PROVE  ReqFits(c)'
<1> USE DEF ReplicaInv
<1>1. PICK p, h, l : p = req[c] /\ h = p.handle /\ l = Read(h) OBVIOUS
<1>2. PICK a : a = Ok(h, After(l.messages, p.from), l.last, TRUE) OBVIOUS
<1>3. /\ p.pc = "await" /\ h \in Handles /\ p.from \in Int /\ Mine(c) /\ log' = With(h, l)
      /\ \/ p.from < l.last /\ req'[c] = Answered(a)
         \/ ~(p.from < l.last) /\ req'[c].pc = "waiting"
            /\ \A f \in Fields \ {"pc"} : req'[c][f] = p[f]
  BY <1>1, <1>2, AwaitLogMeans DEF Messages
<1>4. ReqOk(p) /\ Fit(p, h) /\ Steady(h) /\ LogOk(l) BY <1>1, SteadyAll, FitMeans, ReadOk DEF NodeInv, Types, ReqsOk
<1>5. registry' = registry BY DEF AwaitLog
<1>6. Read(h)' = l BY <1>3, WithMeans
<1>7. Good(h)' => Good(h) BY <1>4, SteadyMeans
<1>8. Good(h)' => h \in registry' BY <1>3, <1>4, <1>5, <1>7 DEF Fit
<1>9. Beyond(h, p.from)' BY <1>3, <1>4, SnapsAll, RowsAll, BeyondKept DEF Fit
<1>10. p.from = Beginning /\ Good(h)' => NoRows(h, Beginning)'
  <2>1. Messages(h)' = Messages(h) BY <1>1, <1>6, StillMeans
  <2>2. p.from = Beginning /\ Good(h)' => NoRows(h, Beginning) BY <1>3, <1>4, <1>7 DEF Fit
  <2> QED BY <2>1, <2>2 DEF NoRows, Beginning, SnapshotEnd
<1>11. PICK q : q = req'[c] OBVIOUS
<1>12. CASE p.from < l.last /\ req'[c] = Answered(a)
  <2>1. q.pc = "answered" /\ q.answer = a BY <1>11, <1>12 DEF Answered, Idle
  <2>2. a.handle = h /\ a.offset = l.last BY <1>2 DEF Ok, Answer
  <2>3. PICK good, readers : good = Good(h)' /\ readers = Snapshotting(h)' OBVIOUS
  <2>4. BeyondOf(good, l, readers, p.from) BY <1>6, <1>9, <2>3, BeyondMeans
  <2>5. Messages(h)' = l.messages BY <1>6 DEF Messages
  <2>6. good /\ p.from = Beginning => \A i \in DOMAIN l.messages : l.messages[i].offset <= Beginning \/ SnapshotEnd < l.messages[i].offset
    BY <1>10, <2>3, <2>5 DEF NoRows, Beginning, SnapshotEnd
  <2>7. Beginning <= p.from BY <1>4 DEF ReqOk
  <2>8. BeyondOf(good, l, readers, l.last) BY <1>3, <1>4, <1>12, <2>4, <2>6, <2>7, EndBeyond
  <2>9. Beyond(h, a.offset)' BY <1>6, <2>2, <2>3, <2>8, BeyondMeans
  <2>10. PICK d : d = q.handle OBVIOUS
  <2>11. Fit(q, d)' BY <2>1, <2>2, <2>9 DEF Fit
  <2> QED BY <1>11, <2>10, <2>11, FitMeansNext
<1>13. CASE req'[c].pc = "waiting" /\ \A f \in Fields \ {"pc"} : req'[c][f] = p[f]
  <2>1. q.pc = "waiting" /\ q.handle = h /\ q.from = p.from BY <1>1, <1>11, <1>13 DEF Fields
  <2>2. Fit(q, h)' BY <1>8, <1>9, <1>10, <2>1 DEF Fit
  <2> QED BY <1>11, <2>1, <2>2, FitMeansNext
<1> QED BY <1>3, <1>12, <1>13

LEMMA NotifiedFit ==
    ASSUME ReplicaInv, Next, NEW c \in Requests, NEW h \in Handles, Notified(c, h)
    PROVE  ReqFits(c)'
<1> USE DEF ReplicaInv
<1>1. PICK p, q, l : p = req[c] /\ q = req'[c] /\ l = Read(h)' OBVIOUS
<1>2. /\ p.pc = "waiting" /\ p.handle = h /\ p.from < l.last
      /\ q = Answered(Ok(h, After(l.messages, p.from), l.last, TRUE))
  BY <1>1 DEF Notified, Messages
<1>3. ReqOk(p) /\ Fit(p, h) /\ Steady(h) BY <1>1, <1>2, SteadyAll, FitMeans DEF NodeInv, Types, ReqsOk
<1>4. p.from \in Int /\ Beginning <= p.from BY <1>3 DEF ReqOk
<1>5. Beyond(h, p.from)' BY <1>2, <1>3, <1>4, SnapsAll, RowsAll, BeyondKept DEF Fit
<1>6. p.from = Beginning /\ Good(h)' => NoRows(h, Beginning)'
  <2>1. p.from = Beginning => h \in Followed(h) BY <1>1, <1>2 DEF Followed
  <2>2. PICK o \in Int : o = Beginning /\ Beginning' = Beginning BY DEF Beginning
  <2>3. Good(h)' => Good(h) BY <1>3, SteadyMeans
  <2>4. p.from = Beginning /\ Good(h)' => NoRows(h, o)' BY <1>2, <1>3, <2>1, <2>2, <2>3, RowsAll DEF Fit, RowsKept
  <2> QED BY <2>2, <2>4
<1>7. PICK good, readers : good = Good(h)' /\ readers = Snapshotting(h)' OBVIOUS
<1>8. BeyondOf(good, l, readers, p.from) BY <1>1, <1>5, <1>7, BeyondMeans
<1>9. Messages(h)' = l.messages BY <1>1 DEF Messages
<1>10. good /\ p.from = Beginning => \A i \in DOMAIN l.messages : l.messages[i].offset <= Beginning \/ SnapshotEnd < l.messages[i].offset
  BY <1>6, <1>7, <1>9 DEF NoRows, Beginning, SnapshotEnd
<1>11. good => LogOk(l) BY <1>1, <1>3, <1>7 DEF Steady, Holds
<1>12. BeyondOf(good, l, readers, l.last)
  <2>1. CASE ~good BY <2>1 DEF BeyondOf
  <2>2. CASE LogOk(l) BY <1>2, <1>4, <1>8, <1>10, <2>2, EndBeyond
  <2> QED BY <1>11, <2>1, <2>2
<1>13. Beyond(h, l.last)' BY <1>1, <1>7, <1>12, BeyondMeans
<1>14. q.pc = "answered" /\ q.answer.handle = h /\ q.answer.offset = l.last BY <1>2 DEF Answered, Idle, Ok, Answer
<1>15. PICK d : d = q.handle OBVIOUS
<1>16. Fit(q, d)' BY <1>13, <1>14 DEF Fit
<1> QED BY <1>1, <1>15, <1>16, FitMeansNext

LEMMA CallsFit ==
    ASSUME ReplicaInv, Next, NEW c \in Requests, Calls(c)
    PROVE  ReqFits(c)'
<1> USE DEF ReplicaInv
<1>1. PICK p, q, h, d : p = req[c] /\ q = req'[c] /\ h = p.handle /\ d = q.handle OBVIOUS
<1>2. ReqOk(p) /\ Fit(p, h) /\ Steady(h) BY <1>1, SteadyAll, FitMeans DEF NodeInv, Types, ReqsOk
<1>3. Good(h)' => Good(h) BY <1>2, SteadyMeans
<1>4. ASSUME q.pc \in {"fetch", "settle", "append", "new"}, q.pc = "new" \/ (Good(d)' => d \in registry') PROVE ReqFits(c)'
  <2>1. Fit(q, d)' BY <1>4 DEF Fit
  <2> QED BY <1>1, <2>1, FitMeansNext
<1>5. CASE Ensure(c)
  <2>1. q.pc = IF Read(d).messages = <<>> THEN "new" ELSE "rejoin" BY <1>1, <1>5, EnsureMeans
  <2>2. Read(d)' = Read(d) BY CallsQuiet DEF Quiet
  <2>3. q.pc = "rejoin" => Messages(d)' # <<>> BY <2>1, <2>2 DEF Messages
  <2>4. Fit(q, d)' BY <2>1, <2>3 DEF Fit
  <2> QED BY <1>1, <2>4, FitMeansNext
<1>6. CASE StartSnapshot(c)
  <2>1. h \in Handles BY <1>1, <1>6 DEF StartSnapshot, At, Types, ReqsOk, ReqOk, Busy
  <2>2. q.pc = "fetch" /\ d = h BY <1>1, <1>6, <2>1, GotoOk DEF StartSnapshot, At, Fields
  <2>3. h \in registry' BY <1>1, <1>6 DEF StartSnapshot, Registers
  <2> QED BY <1>4, <2>2, <2>3
<1>7. CASE Rejoin(c)
  <2>1. h \in Handles BY <1>1, <1>7 DEF Rejoin, At, Types, ReqsOk, ReqOk, Busy
  <2>2. q.pc = "settle" /\ d = h BY <1>1, <1>7, <2>1, GotoOk DEF Rejoin, At, Fields
  <2>3. h \in registry' BY <1>1, <1>7 DEF Rejoin, Registers
  <2> QED BY <1>4, <2>2, <2>3
<1>8. CASE Fetches(c)
  <2>1. p.pc = "fetch" /\ q.pc \in {"settle", "append"} /\ d = h BY <1>1, <1>8, FetchesMeans
  <2>2. registry' = registry BY <1>1, <1>8, FetchesMeans DEF shapes
  <2>3. Good(h)' => h \in registry' BY <1>2, <1>3, <2>1, <2>2 DEF Fit
  <2> QED BY <1>4, <2>1, <2>3
<1>9. CASE Settle(c) BY <1>9, SettleFit
<1>10. CASE Resume(c)
  <2>1. /\ p.pc = "resume" /\ h \in Handles
        /\ \/ q.pc = "answered" /\ q.answer.status = "must-refetch"
           \/ q.pc = "read" /\ \A f \in Fields \ {"pc"} : q[f] = p[f]
    BY <1>1, <1>10, ResumeMeans
  <2>2. CASE q.pc = "answered" /\ q.answer.status = "must-refetch"
    <3>1. Fit(q, d)' BY <2>2 DEF Fit
    <3> QED BY <1>1, <3>1, FitMeansNext
  <2>3. CASE q.pc = "read" /\ \A f \in Fields \ {"pc"} : q[f] = p[f]
    <3>1. d = h /\ q.from = p.from BY <1>1, <2>3 DEF Fields
    <3>2. p.from \in Int BY <1>2 DEF ReqOk
    <3>3. Beyond(h, p.from)' BY <1>2, <2>1, <3>2, SnapsAll, RowsAll, BeyondKept DEF Fit
    <3>4. h \in registry' BY <1>1, <1>10 DEF Resume, Registers
    <3>5. Fit(q, d)' BY <2>3, <3>1, <3>3, <3>4 DEF Fit
    <3> QED BY <1>1, <3>5, FitMeansNext
  <2> QED BY <2>1, <2>2, <2>3
<1>11. CASE ReadLog(c) BY <1>11, ReadLogFit
<1>12. CASE AwaitLog(c) BY <1>12, AwaitLogFit
<1>13. CASE Timeout(c)
  <2>1. p.pc = "waiting" /\ p.from \in Int /\ q = Answered(Ok(h, <<>>, p.from, TRUE)) BY <1>1, <1>13, TimeoutMeans
  <2>2. q.pc = "answered" /\ q.answer.handle = h /\ q.answer.offset = p.from BY <2>1 DEF Answered, Idle, Ok, Answer
  <2>3. Beyond(h, p.from)' BY <1>2, <2>1, SnapsAll, RowsAll, BeyondKept DEF Fit
  <2>4. Fit(q, d)' BY <2>2, <2>3 DEF Fit
  <2> QED BY <1>1, <2>4, FitMeansNext
<1> QED BY <1>5, <1>6, <1>7, <1>8, <1>9, <1>10, <1>11, <1>12, <1>13 DEF Calls

LEMMA AppendFit ==
    ASSUME ReplicaInv, Next, NEW c \in Requests, AppendPage(c)
    PROVE  ReqFits(c)'
<1> USE DEF ReplicaInv
<1>1. PICK p, q, h : p = req[c] /\ q = req'[c] /\ h = p.handle OBVIOUS
<1>2. Fit(p, h) /\ Steady(h) BY <1>1, SteadyAll, FitMeans DEF NodeInv
<1>3. Good(h)' => Good(h) BY <1>2, SteadyMeans
<1>4. p.pc = "append" /\ q.pc \in {"settle", "fetch"} /\ q.handle = h BY <1>1, AppendPageMeans
<1>5. registry' = registry BY DEF AppendPage
<1>6. Fit(q, h)' BY <1>2, <1>3, <1>4, <1>5 DEF Fit
<1> QED BY <1>1, <1>4, <1>6, FitMeansNext

\* Every step keeps what requests rely on.
LEMMA ReqFitsAll ==
    ASSUME ReplicaInv, Next, NEW c \in Requests
    PROVE  ReqFits(c)'
<1> USE DEF ReplicaInv
<1>1. PICK q, d : q = req'[c] /\ d = q.handle OBVIOUS
<1>2. CASE Calls(c) BY <1>2, CallsFit
<1>3. CASE AppendPage(c) BY <1>3, AppendFit
<1>4. CASE req'[c] = req[c] BY <1>4, FitStays
<1>5. CASE \E h \in Handles : Notified(c, h) BY <1>5, NotifiedFit
<1>6. CASE q \in {Idle, Answered(Failed)}
  <2>1. q.pc = "idle" \/ (q.pc = "answered" /\ q.answer.status = "error")
    BY <1>6, IdleOk, FailedOk, AnsweredOk
  <2>2. Fit(q, d)' BY <2>1 DEF Fit
  <2> QED BY <1>1, <2>2, FitMeansNext
<1>7. ASSUME Ask(Sync), q.pc = (IF stream[Sync].offset = Beginning THEN "ensure" ELSE "resume"),
             q.handle = stream[Sync].handle, q.from = stream[Sync].offset
      PROVE  ReqFits(c)'
  <2>1. PICK h, o : h = stream[Sync].handle /\ o = stream[Sync].offset OBVIOUS
  <2>2. stream[Sync] # None BY <1>7, AskMeans
  <2>3. Beyond(h, o) /\ o \in Int BY <2>1, <2>2 DEF StreamFits, StreamOk
  <2>4. Beyond(h, o)' BY <2>3, SteadyAll, SnapsAll, RowsAll, BeyondKept
  <2>5. Fit(q, h)' BY <1>7, <2>1, <2>4 DEF Fit
  <2> QED BY <1>1, <1>7, <2>1, <2>5, FitMeansNext
<1>8. \/ req'[c] = req[c]
      \/ Calls(c) \/ AppendPage(c)
      \/ req'[c] \in {Idle, Answered(Failed)}
      \/ \E h \in Handles : Notified(c, h)
      \/ /\ Ask(Sync) /\ req'[c].pc = (IF stream[Sync].offset = Beginning THEN "ensure" ELSE "resume")
         /\ req'[c].handle = stream[Sync].handle /\ req'[c].from = stream[Sync].offset
  BY ReqSteps
<1> QED BY <1>1, <1>2, <1>3, <1>4, <1>5, <1>6, <1>7, <1>8

\* The invariant of the node is inductive.
LEMMA NodeKept ==
    ASSUME ReplicaInv, Next
    PROVE  NodeInv'
<1>1. \A h \in Handles : (ChangesRight(h) /\ SnapshotRight(h) /\ Complete(h))' BY ChangesAll, SnapshotAll, CompleteAll
<1>2. \A c \in Requests : (SnapFits(c) /\ ReqFits(c))' BY SnapAll, ReqFitsAll
<1> QED BY <1>1, <1>2, LogsAll, WorkAll DEF NodeInv, Handles

(***************************************************************************)
(* The client: what it makes of the parts of a log.                        *)
(***************************************************************************)
\* Replay of nothing is the copy.
LEMMA ReplayNothing ==
    ASSUME NEW R
    PROVE  /\ \A r \in Rows : Replay(R, <<>>)[r] = R[r]
           /\ \A X : R \in [Rows -> X] => Replay(R, <<>>) = R
<1>1. DOMAIN <<>> = {} OBVIOUS
<1>2. \A r \in Rows : Replay(R, <<>>)[r] = R[r] BY <1>1, ReplayNone
<1>3. DOMAIN Replay(R, <<>>) = Rows /\ Replay(R, <<>>) = [r \in Rows |-> Replay(R, <<>>)[r]] BY DEF Replay
<1> QED BY <1>2, <1>3

LEMMA ReplayTypes ==
    ASSUME NEW R \in [Rows -> Values \cup {None}], NEW ms \in Seq(Message)
    PROVE  Replay(R, ms) \in [Rows -> Values \cup {None}]
<1>1. DOMAIN Replay(R, ms) = Rows /\ Replay(R, ms) = [r \in Rows |-> Replay(R, ms)[r]] BY DEF Replay
<1>2. ASSUME NEW r \in Rows PROVE Replay(R, ms)[r] \in Values \cup {None}
  <2>1. CASE \A i \in DOMAIN ms : ms[i].row # r
    <3>1. Replay(R, ms)[r] = R[r] BY <2>1, ReplayNone
    <3> QED BY <3>1
  <2>2. CASE \E i \in DOMAIN ms : ms[i].row = r
    <3>0. PICK S : S = {i \in DOMAIN ms : ms[i].row = r} OBVIOUS
    <3>a. DOMAIN ms = 1 .. Len(ms) /\ Len(ms) \in Nat BY LenProperties
    <3>b. IsFiniteSet(DOMAIN ms) BY <3>a, FS_Interval
    <3>c. S \in SUBSET Int /\ IsFiniteSet(S) /\ S # {} BY <2>2, <3>0, <3>a, <3>b, FS_Subset
    <3>d. \E m \in S : \A x \in S : x <= m BY <3>c, Greatest
    <3>1. PICK i \in DOMAIN ms : ms[i].row = r /\ \A j \in DOMAIN ms : ms[j].row = r => j <= i BY <3>0, <3>d
    <3>2. Replay(R, ms)[r] = Eff(ms[i]) BY <3>1, ReplayLast
    <3>3. ms[i] \in Message BY ElementOfSeq, LenProperties
    <3> QED BY <3>2, <3>3 DEF Eff, Message
  <2> QED BY <2>1, <2>2
<1> QED BY <1>1, <1>2

\* The messages after an offset turn a copy that is right up to it into the table,
\* but for the rows of which a newer change is still to come (C).
TailFacts(l, from, R, T, C, left, r) ==
    /\ \A i, j \in DOMAIN l.messages :
          i < j /\ SnapshotEnd < l.messages[i].offset /\ SnapshotEnd < l.messages[j].offset
             => l.messages[i].offset < l.messages[j].offset
    /\ from < SnapshotEnd => \A i \in DOMAIN l.messages : l.messages[i].offset <= from \/ SnapshotEnd < l.messages[i].offset
    /\ \A i \in DOMAIN l.messages :
          /\ SnapshotEnd < l.messages[i].offset
          /\ \A j \in DOMAIN l.messages : l.messages[j].row = l.messages[i].row /\ SnapshotEnd < l.messages[j].offset => j <= i
          => Eff(l.messages[i]) = Seen(T[l.messages[i].row]) \/ l.messages[i].row \in C
    /\ (\A i \in DOMAIN l.messages : l.messages[i].row = r => ~(from < l.messages[i].offset))
          => R[r] = Seen(T[r]) \/ (left /\ R[r] # None)

LEMMA TailRight ==
    ASSUME NEW l, LogOk(l), NEW from \in Int, NEW R, NEW T, NEW C, NEW left, NEW r \in Rows, r \notin C,
           TailFacts(l, from, R, T, C, left, r)
    PROVE  LET S == Replay(R, After(l.messages, from)) IN S[r] = Seen(T[r]) \/ (left /\ S[r] # None)
<1> DEFINE ms == l.messages
<1> USE DEF TailFacts
<1>0. PICK P \in SUBSET DOMAIN ms : P = {i \in DOMAIN ms : from < ms[i].offset} OBVIOUS
<1>s. PICK S : S = Replay(R, Picked(ms, P)) OBVIOUS
<1>1. /\ ms \in Seq(Message) /\ DOMAIN ms = 1 .. Len(ms) /\ Len(ms) \in Nat
      /\ \A i \in DOMAIN ms : ms[i].offset \in Int
  BY LogFacts
<1>2. After(ms, from) = Picked(ms, P) BY <1>0 DEF After
<1>3. \A i \in DOMAIN ms : i \in P <=> from < ms[i].offset BY <1>0
<1>4. CASE \A i \in P : ms[i].row # r
  <2>1. S[r] = R[r] BY <1>1, <1>s, <1>4, ReplayPicked
  <2> QED BY <1>2, <1>3, <1>4, <1>s, <2>1
<1>5. CASE \E i \in P : ms[i].row = r
  <2>1. \E i \in P : ms[i].row = r /\ (\A j \in P : ms[j].row = r => j <= i) /\ S[r] = Eff(ms[i])
    <3>1. /\ ms \in Seq(Message) /\ P \in SUBSET DOMAIN ms /\ S = Replay(R, Picked(ms, P))
          /\ \E i \in P : ms[i].row = r
      BY <1>1, <1>0, <1>5, <1>s
    <3> HIDE DEF ms
    <3> QED BY <3>1, ReplayPicked
  <2>2. PICK i \in P : ms[i].row = r /\ (\A j \in P : ms[j].row = r => j <= i) /\ S[r] = Eff(ms[i]) BY <2>1
  <2>3. i \in DOMAIN ms /\ from < ms[i].offset BY <1>3
  <2>4. SnapshotEnd < ms[i].offset BY <1>1, <2>3, SnapshotEndNat
  <2>5. ASSUME NEW j \in DOMAIN ms, ms[j].row = r, SnapshotEnd < ms[j].offset PROVE j <= i
    <3>1. CASE from < ms[j].offset BY <1>3, <2>2, <2>5, <3>1
    <3>2. CASE ~(from < ms[j].offset)
      <4>1. ~(ms[i].offset < ms[j].offset) BY <1>1, <2>3, <3>2
      <4>2. ~(i < j) BY <2>3, <2>4, <2>5, <4>1
      <4> QED BY <1>1, <2>3, <4>2
    <3> QED BY <3>1, <3>2
  <2>6. Eff(ms[i]) = Seen(T[r]) BY <2>2, <2>3, <2>4, <2>5
  <2> QED BY <1>2, <1>s, <2>2, <2>6
<1> QED BY <1>4, <1>5

\* The snapshot part of a log turns a copy of nothing, or of what is left from another
\* snapshot, into the table.
SnapshotFacts(l, R, T, C, left, r) ==
    /\ \A i \in DOMAIN l.messages : l.messages[i].offset < SnapshotEnd =>
          \/ Eff(l.messages[i]) = Seen(T[l.messages[i].row])
          \/ l.messages[i].row \in C
          \/ \E j \in DOMAIN l.messages : l.messages[j].row = l.messages[i].row /\ SnapshotEnd < l.messages[j].offset
    /\ T[r] = None \/ \E i \in DOMAIN l.messages : l.messages[i].row = r
    /\ R[r] # None => left \/ \E i \in DOMAIN l.messages : l.messages[i].row = r
    /\ \A i \in DOMAIN l.messages : l.messages[i].row = r => ~(SnapshotEnd < l.messages[i].offset)

LEMMA SnapshotTells ==
    ASSUME NEW l, LogOk(l), NEW R, NEW T, NEW C, NEW left, NEW r \in Rows, r \notin C,
           SnapshotFacts(l, R, T, C, left, r)
    PROVE  LET S == Replay(R, SnapshotPart(l.messages)) IN S[r] = Seen(T[r]) \/ (left /\ S[r] # None)
<1> DEFINE ms == l.messages
<1> USE DEF SnapshotFacts
<1>0. PICK P \in SUBSET DOMAIN ms : P = {i \in DOMAIN ms : ms[i].offset <= SnapshotEnd} OBVIOUS
<1>s. PICK S : S = Replay(R, Picked(ms, P)) OBVIOUS
<1>1. /\ ms \in Seq(Message)
      /\ \A i \in DOMAIN ms : ms[i].offset \in Int /\ ms[i].offset # SnapshotEnd
  BY LogFacts
<1>2. SnapshotPart(ms) = Picked(ms, P) BY <1>0 DEF SnapshotPart
<1>3. \A i \in DOMAIN ms : i \in P <=> ms[i].offset <= SnapshotEnd BY <1>0
<1>4. CASE \A i \in P : ms[i].row # r
  <2>1. S[r] = R[r] BY <1>1, <1>s, <1>4, ReplayPicked
  <2>2. \A i \in DOMAIN ms : ms[i].row # r BY <1>1, <1>3, <1>4, SnapshotEndNat
  <2>3. Seen(T[r]) = None BY <2>2 DEF Seen
  <2> QED BY <1>2, <1>s, <2>1, <2>2, <2>3
<1>5. CASE \E i \in P : ms[i].row = r
  <2>1. \E i \in P : ms[i].row = r /\ S[r] = Eff(ms[i]) BY <1>1, <1>5, <1>s, ReplayPicked
  <2>2. PICK i \in P : ms[i].row = r /\ S[r] = Eff(ms[i]) BY <2>1
  <2>3. i \in DOMAIN ms /\ ms[i].offset < SnapshotEnd BY <1>1, <1>3, SnapshotEndNat
  <2>4. Eff(ms[i]) = Seen(T[r]) BY <2>2, <2>3
  <2> QED BY <1>2, <1>s, <2>2, <2>4
<1> QED BY <1>4, <1>5

LEMMA ClaimMeans ==
    ASSUME NEW h, NEW o, NEW R
    PROVE  Claim(h, o, R)' <=>
             \A r \in Rows : ~Has(h, r, o)' /\ ~Coming(h, r)' => R[r] = Seen(table'[r]) \/ (leftover' /\ R[r] # None)
BY SeenNext DEF Claim

\* The copy of a client that has been sent the log from an offset it was right up to.
LEMMA TailClaims ==
    ASSUME NodeInv', NEW h \in Handles, Good(h)', NEW l, l = Read(h)', LogOk(l), NEW from \in Int,
           from < SnapshotEnd => NoRows(h, from)', NEW R, Claim(h, from, R)', NEW o
    PROVE  Claim(h, o, Replay(R, After(l.messages, from)))'
<1>1. PICK C, T, left : C = {r \in Rows : Coming(h, r)'} /\ T = table' /\ left = leftover' OBVIOUS
<1>2. Messages(h)' = l.messages BY DEF Messages
<1>3. \A i, j \in DOMAIN l.messages :
              i < j /\ SnapshotEnd < l.messages[i].offset /\ SnapshotEnd < l.messages[j].offset
                 => l.messages[i].offset < l.messages[j].offset
  <2>1. CASE h \in DOMAIN log'
    <3>1. LogFits(h)' BY <2>1 DEF NodeInv
    <3> QED BY <1>2, <3>1 DEF LogFits, SnapshotEnd
  <2>2. CASE h \notin DOMAIN log'
    <3>1. l.messages = <<>> BY <2>2 DEF Read, EmptyLog
    <3>2. DOMAIN <<>> = {} OBVIOUS
    <3> QED BY <3>1, <3>2
  <2> QED BY <2>1, <2>2
<1>4. from < SnapshotEnd => \A i \in DOMAIN l.messages : l.messages[i].offset <= from \/ SnapshotEnd < l.messages[i].offset
  BY <1>2 DEF NoRows, SnapshotEnd
<1>5. ASSUME NEW i \in DOMAIN l.messages, SnapshotEnd < l.messages[i].offset,
             \A j \in DOMAIN l.messages : l.messages[j].row = l.messages[i].row /\ SnapshotEnd < l.messages[j].offset => j <= i
      PROVE  Eff(l.messages[i]) = Seen(T[l.messages[i].row]) \/ l.messages[i].row \in C
  <2>1. ChangesRight(h)' BY DEF NodeInv
  <2>2. l.messages[i].row \in Rows BY LogFacts
  <2>3. PICK r \in Rows : r = l.messages[i].row BY <2>2
  <2>4. PICK m : m = l.messages[i] OBVIOUS
  <2>5. Eff(m)' = Eff(m) BY DEF Eff
  <2>6. Eff(m)' = Seen(table[r])' \/ Coming(h, r)'
    <3>1. \A j \in DOMAIN Messages(h)' : Messages(h)'[j].row = Messages(h)'[i].row /\ SnapshotEnd < Messages(h)'[j].offset => j <= i
      BY <1>2, <1>5
    <3>2. i \in DOMAIN Messages(h)' /\ SnapshotEnd < Messages(h)'[i].offset /\ Messages(h)'[i] = m /\ m.row = r
      BY <1>2, <1>5, <2>3, <2>4
    <3>3. \/ Eff(Messages(h)'[i]) = Seen(table'[Messages(h)'[i].row])
          \/ Coming(h, Messages(h)[i].row)'
      BY <2>1, <3>1, <3>2 DEF ChangesRight, SnapshotEnd, Eff, Seen, Project, NoFilter
    <3>4. Coming(h, Messages(h)[i].row)' => Coming(h, r)' BY <3>2 DEF Coming, Newest
    <3> QED BY <2>5, <3>2, <3>3, <3>4, SeenNext
  <2> QED BY <1>1, <2>3, <2>4, <2>5, <2>6, SeenNext
<1>6. SUFFICES ASSUME NEW r \in Rows, ~Coming(h, r)'
               PROVE  LET S == Replay(R, After(l.messages, from)) IN S[r] = Seen(T[r]) \/ (left /\ S[r] # None)
  <2>1. PICK S : S = Replay(R, After(l.messages, from)) OBVIOUS
  <2>2. \A r \in Rows : ~Has(h, r, o)' /\ ~Coming(h, r)' => S[r] = Seen(table'[r]) \/ (leftover' /\ S[r] # None)
    BY <1>1, <1>6, <2>1
  <2>3. Claim(h, o, S)' BY <2>2, ClaimMeans
  <2>4. Claim(h, o, S)' => Claim(h, o, Replay(R, After(l.messages, from)))'
    <3>1. S = Replay(R, After(l.messages, from))' BY <2>1 DEF Replay, After, SnapshotPart, SnapshotEnd
    <3> QED BY <3>1 DEF Claim
  <2> QED BY <2>3, <2>4
<1>7. (\A i \in DOMAIN l.messages : l.messages[i].row = r => ~(from < l.messages[i].offset))
              => R[r] = Seen(T[r]) \/ (left /\ R[r] # None)
  BY <1>1, <1>2, <1>6, ClaimMeans DEF Has
<1>8. r \notin C BY <1>1, <1>6
<1>9. TailFacts(l, from, R, T, C, left, r) BY <1>3, <1>4, <1>5, <1>7 DEF TailFacts
<1> QED BY <1>6, <1>8, <1>9, TailRight

\* The copy of a client that has been sent the snapshot.
LEMMA SnapshotClaims ==
    ASSUME NodeInv', NEW h \in Handles, Whole(h)', h \in registry', Snapshotting(h)' = {}, NEW l, l = Read(h)', LogOk(l),
           NEW R, Fresh(h, R)', NEW o \in Int,
           o <= SnapshotEnd \/ \A i \in DOMAIN l.messages : l.messages[i].offset <= SnapshotEnd
    PROVE  Claim(h, o, Replay(R, SnapshotPart(l.messages)))'
<1>1. PICK C, T, left : C = {r \in Rows : Coming(h, r)'} /\ T = table' /\ left = leftover' OBVIOUS
<1>2. Messages(h)' = l.messages BY DEF Messages
<1>3. \A i \in DOMAIN l.messages : l.messages[i].row \in Rows /\ l.messages[i].offset \in Int BY LogFacts
<1>4. ASSUME NEW i \in DOMAIN l.messages, l.messages[i].offset < SnapshotEnd
      PROVE  \/ Eff(l.messages[i]) = Seen(T[l.messages[i].row])
             \/ l.messages[i].row \in C
             \/ \E j \in DOMAIN l.messages : l.messages[j].row = l.messages[i].row /\ SnapshotEnd < l.messages[j].offset
  <2>1. SnapshotRight(h)' BY DEF NodeInv
  <2>2. PICK r \in Rows : r = l.messages[i].row BY <1>3
  <2>3. i \in DOMAIN Messages(h)' /\ Messages(h)'[i].offset < SnapshotEnd /\ Messages(h)'[i].row = r BY <1>2, <1>4, <2>2
  <2>4. \/ Eff(Messages(h)'[i]) = Seen(table'[Messages(h)'[i].row])
        \/ Told(h, Messages(h)[i].row)'
    BY <2>1, <2>3 DEF SnapshotRight, SnapshotEnd, Eff, Seen, Project, NoFilter
  <2>5. Told(h, Messages(h)[i].row)' => Told(h, r)' BY <2>3 DEF Told, Coming, Newest, Has
  <2>6. Told(h, r)' => r \in C \/ Has(h, r, SnapshotEnd)' BY <1>1 DEF Told
  <2>7. Has(h, r, SnapshotEnd)' => \E j \in DOMAIN l.messages : l.messages[j].row = r /\ SnapshotEnd < l.messages[j].offset
    BY <1>2 DEF Has, SnapshotEnd
  <2> QED BY <1>1, <1>2, <2>2, <2>3, <2>4, <2>5, <2>6, <2>7
<1>5. SUFFICES ASSUME NEW r \in Rows, ~Has(h, r, o)', ~Coming(h, r)'
               PROVE  LET S == Replay(R, SnapshotPart(l.messages)) IN S[r] = Seen(T[r]) \/ (left /\ S[r] # None)
  <2>1. PICK S : S = Replay(R, SnapshotPart(l.messages)) OBVIOUS
  <2>2. \A r \in Rows : ~Has(h, r, o)' /\ ~Coming(h, r)' => S[r] = Seen(table'[r]) \/ (leftover' /\ S[r] # None)
    BY <1>1, <1>5, <2>1
  <2>3. Claim(h, o, S)' BY <2>2, ClaimMeans
  <2>4. Claim(h, o, S)' => Claim(h, o, Replay(R, SnapshotPart(l.messages)))'
    <3>1. S = Replay(R, SnapshotPart(l.messages))' BY <2>1 DEF Replay, After, SnapshotPart, SnapshotEnd
    <3> QED BY <3>1 DEF Claim
  <2> QED BY <2>3, <2>4
<1>6. Complete(h)' BY DEF NodeInv
<1>7. Known(h, r)' BY <1>6 DEF Complete
<1>8. Has(h, r, Beginning)' => \E i \in DOMAIN l.messages : l.messages[i].row = r BY <1>2 DEF Has
<1>9. T[r] = None \/ \E i \in DOMAIN l.messages : l.messages[i].row = r BY <1>1, <1>5, <1>7, <1>8 DEF Known
<1>10. R[r] # None => left \/ \E i \in DOMAIN l.messages : l.messages[i].row = r BY <1>1, <1>8 DEF Fresh
<1>11. ASSUME NEW i \in DOMAIN l.messages, l.messages[i].row = r PROVE ~(SnapshotEnd < l.messages[i].offset)
  <2>1. ~(o < l.messages[i].offset) BY <1>2, <1>5, <1>11 DEF Has
  <2> QED BY <1>3, <2>1, SnapshotEndNat
<1>12. r \notin C BY <1>1, <1>5
<1>13. SnapshotFacts(l, R, T, C, left, r) BY <1>4, <1>9, <1>10, <1>11 DEF SnapshotFacts
<1> QED BY <1>5, <1>12, <1>13, SnapshotTells

(***************************************************************************)
(* What its copy and cursor are worth, and what its request serves.        *)
(***************************************************************************)
\* What a copy and a cursor are worth is kept by every step.
LEMMA StandingKept ==
    ASSUME ReplicaInv, Next, NEW h, NEW o \in Int, Beginning <= o, h # None => Beyond(h, o), NEW R, Standing(h, o, R),
           leftover' = leftover
    PROVE  Standing(h, o, R)'
<1> USE DEF ReplicaInv
<1>1. CASE h = None BY <1>1 DEF Standing, New
<1>2. CASE h # None
  <2>1. Position(h, o, R) BY <1>2 DEF Standing
  <2>2. Beyond(h, o) /\ Steady(h) BY <1>2, SteadyAll
  <2>3. Position(h, o, R)' BY <2>1, <2>2, PositionKept
  <2> QED BY <1>2, <2>3 DEF Standing
<1> QED BY <1>1, <1>2

LEMMA GoneKept ==
    ASSUME ReplicaInv, Next, cursor' = cursor, CursorGone
    PROVE  CursorGone'
<1> USE DEF ReplicaInv
<1>1. CASE cursor = None BY <1>1 DEF CursorGone
<1>2. CASE cursor # None
  <2>1. PICK h, o : h = cursor.handle /\ o = cursor.offset OBVIOUS
  <2>2. o \in Int BY <1>2, <2>1 DEF CursorFits
  <2>3. Lost(h, o) BY <1>2, <2>1 DEF CursorGone
  <2>4. Steady(h) BY SteadyAll
  <2>5. Lost(h, o)' BY <2>2, <2>3, <2>4, SteadyMeans
  <2>6. Lost(cursor.handle, cursor.offset)' BY <2>1, <2>5 DEF Lost
  <2> QED BY <2>6 DEF CursorGone
<1> QED BY <1>1, <1>2

LEMMA BehindKept ==
    ASSUME ReplicaInv, Next, cursor' = cursor, NEW h, NEW o, Behind(h, o)
    PROVE  Behind(h, o)'
<1>1. CASE CursorGone BY <1>1, GoneKept DEF Behind
<1>2. CASE ~CursorGone BY <1>2 DEF Behind
<1> QED BY <1>1, <1>2

LEMMA AheadMeans ==
    ASSUME NEW h, NEW o, cursor' = cursor, h = cursor.handle, o = cursor.offset, NEW ms \in Seq(Message)
    PROVE  /\ Ahead(ms) <=> CursorGone \/ \A i \in DOMAIN ms : Has(h, ms[i].row, o)
           /\ Ahead(ms)' <=> CursorGone' \/ \A i \in DOMAIN ms : Has(h, ms[i].row, o)'
<1>1. \A i \in DOMAIN ms : Has(cursor.handle, ms[i].row, cursor.offset)' <=> Has(h, ms[i].row, o)'
  BY DEF Has, Messages, Read, EmptyLog, Beginning
<1>2. \A i \in DOMAIN ms : Has(cursor.handle, ms[i].row, cursor.offset) <=> Has(h, ms[i].row, o)
  OBVIOUS
<1> QED BY <1>1, <1>2 DEF Ahead

LEMMA AheadKept ==
    ASSUME ReplicaInv, Next, cursor' = cursor, NEW ms \in Seq(Message), Ahead(ms)
    PROVE  Ahead(ms)'
<1> USE DEF ReplicaInv
<1>1. CASE CursorGone BY <1>1, GoneKept DEF Ahead
<1>2. CASE ~CursorGone
  <2>1. PICK h, o : h = cursor.handle /\ o = cursor.offset OBVIOUS
  <2>2. cursor # None BY <1>2 DEF CursorGone
  <2>3. o \in Int BY <2>1, <2>2 DEF CursorFits
  <2>4. \A i \in DOMAIN ms : ms[i].row \in Rows /\ Has(h, ms[i].row, o)
    <3>1. \A i \in DOMAIN ms : ms[i] \in Message BY ElementOfSeq, LenProperties
    <3> QED BY <1>2, <2>1, <3>1 DEF Ahead, Message
  <2>5. Steady(h) BY SteadyAll
  <2>6. CASE Lost(h, o)'
    <3>1. Lost(cursor.handle, cursor.offset)' BY <2>1, <2>6 DEF Lost
    <3>2. CursorGone' BY <3>1 DEF CursorGone
    <3> QED BY <3>2 DEF Ahead
  <2>7. CASE ~Lost(h, o)'
    <3>1. ASSUME NEW i \in DOMAIN ms PROVE Has(h, ms[i].row, o)'
      <4>1. PICK r \in Rows : r = ms[i].row BY <2>4
      <4>2. Has(h, r, o) BY <2>4, <4>1
      <4>3. Has(h, r, o)' BY <2>3, <2>5, <2>7, <4>2, HasKept
      <4> QED BY <4>1, <4>3 DEF Has
    <3> QED BY <2>1, <3>1, AheadMeans
  <2> QED BY <2>6, <2>7
<1> QED BY <1>1, <1>2

\* The cursor of a client that is left alone.
LEMMA CursorFitsKept ==
    ASSUME ReplicaInv, Next, UNCHANGED file
    PROVE  CursorFits'
<1> USE DEF ReplicaInv
<1>0. UNCHANGED <<replica, cursor, leftover>> BY DEF file
<1>1. SUFFICES ASSUME cursor # None
               PROVE  Beyond(cursor.handle, cursor.offset)' /\ Position(cursor.handle, cursor.offset, replica)'
  <2>1. cursor # None => cursor.handle \in Handles /\ cursor.offset \in Int /\ Beginning <= cursor.offset BY DEF CursorFits
  <2> QED BY <1>0, <2>1 DEF CursorFits, Handles, Beginning
<1>2. PICK h, o, R : h = cursor.handle /\ o = cursor.offset /\ R = replica OBVIOUS
<1>3. o \in Int /\ Beginning <= o /\ Beyond(h, o) /\ Position(h, o, R) BY <1>1, <1>2 DEF CursorFits
<1>4. Steady(h) /\ SnapsKept /\ RowsKept(h) BY SteadyAll, SnapsAll, RowsAll
<1>5. Beyond(h, o)' BY <1>3, <1>4, BeyondKept
<1>6. Position(h, o, R)' BY <1>0, <1>3, <1>4, PositionKept
<1>7. h = cursor.handle' /\ o = cursor.offset' /\ R = replica' BY <1>0, <1>2
<1> QED BY <1>5, <1>6, <1>7

\* What a request serves in the next state, put together from its parts.
LEMMA ServesMeansNext ==
    ASSUME NEW q, NEW s,
           q.pc # "idle",
           q.pc \in {"ensure", "new", "rejoin", "fetch", "append", "settle"} =>
              \E h, live, R : h = q.handle /\ live = q.live /\ R = replica' /\ Early(h, s, live, R)',
           q.pc \in {"resume", "read"} => q.handle = s.handle /\ q.from = s.offset,
           q.pc \in {"await", "waiting"} =>
              \E h, o, R : h = q.handle /\ o = q.from /\ R = replica' /\ Waits(h, o, s, R)',
           q.pc = "answered" /\ q.answer.status = "ok" =>
              \E h, o, ms, R : /\ h = q.answer.handle /\ o = q.answer.offset /\ ms = q.answer.messages
                               /\ R = Replay(replica', ms) /\ Answers(h, o, ms, R)',
           q.pc = "answered" /\ q.answer.status = "must-refetch" => CursorGone'
    PROVE  Serves(q, s)'
<1>1. q.pc \in {"ensure", "new", "rejoin", "fetch", "append", "settle"} => Early(q.handle, s, q.live, replica)'
  <2>1. SUFFICES ASSUME q.pc \in {"ensure", "new", "rejoin", "fetch", "append", "settle"}
                 PROVE  Early(q.handle, s, q.live, replica)'
    OBVIOUS
  <2>2. PICK h, live, R : h = q.handle /\ live = q.live /\ R = replica' /\ Early(h, s, live, R)' BY <2>1
  <2> QED BY <2>2
<1>2. q.pc \in {"await", "waiting"} => Waits(q.handle, q.from, s, replica)'
  <2>1. SUFFICES ASSUME q.pc \in {"await", "waiting"} PROVE Waits(q.handle, q.from, s, replica)' OBVIOUS
  <2>2. PICK h, o, R : h = q.handle /\ o = q.from /\ R = replica' /\ Waits(h, o, s, R)' BY <2>1
  <2> QED BY <2>2
<1>3. q.pc = "answered" /\ q.answer.status = "ok" =>
        Answers(q.answer.handle, q.answer.offset, q.answer.messages, Replay(replica, q.answer.messages))'
  <2>1. SUFFICES ASSUME q.pc = "answered", q.answer.status = "ok"
                 PROVE  Answers(q.answer.handle, q.answer.offset, q.answer.messages, Replay(replica, q.answer.messages))'
    OBVIOUS
  <2>2. PICK h, o, ms, R : /\ h = q.answer.handle /\ o = q.answer.offset /\ ms = q.answer.messages
                           /\ R = Replay(replica', ms) /\ Answers(h, o, ms, R)'
    BY <2>1
  <2>3. R = Replay(replica', q.answer.messages) BY <2>2
  <2>4. R = Replay(replica, q.answer.messages)' BY <2>3 DEF Replay
  <2> QED BY <2>2, <2>4
<1> QED BY <1>1, <1>2, <1>3 DEF Serves

\* What a request serves is kept while it is left alone.
LEMMA EarlyKept ==
    ASSUME ReplicaInv, Next, cursor' = cursor, leftover' = leftover, NEW h, NEW s, NEW live, NEW R, Early(h, s, live, R)
    PROVE  Early(h, s, live, R)'
<1>1. PICK o \in Int : o = Beginning /\ Beginning <= o /\ ~(0 <= o) BY DEF Beginning
<1>2. Beginning' = Beginning BY DEF Beginning
<1>3. Standing(h, o, R) /\ Beyond(h, o) BY <1>1 DEF Early, Beyond
<1>4. Standing(h, o, R)' BY <1>1, <1>3, StandingKept
<1>5. Standing(h, Beginning, R)' BY <1>1, <1>2, <1>4
<1>6. CursorGone => CursorGone' BY GoneKept
<1> QED BY <1>2, <1>5, <1>6 DEF Early

LEMMA WaitsKept ==
    ASSUME ReplicaInv, Next, leftover' = leftover, NEW h, NEW o \in Int, Beginning <= o, Beyond(h, o), Good(h) => h \in registry,
           NEW s, NEW R, Waits(h, o, s, R)
    PROVE  Waits(h, o, s, R)'
<1> USE DEF ReplicaInv
<1>1. CASE Lost(h, o)' BY <1>1 DEF Waits
<1>2. CASE ~Lost(h, o)'
  <2>1. Steady(h) BY SteadyAll
  <2>2. ~Lost(h, o) BY <1>2, <2>1, SteadyMeans
  <2>3. Good(h) /\ Claim(h, o, R) BY <2>2 DEF Lost, Waits
  <2>4. LogOk(Read(h)) BY ReadOk
  <2>5. o <= Read(h).last
    <3>1. CASE 0 <= o BY <2>3, <3>1 DEF Beyond
    <3>2. CASE ~(0 <= o)
      <4>1. o = Beginning BY <3>2 DEF Beginning
      <4> QED BY <2>4, <4>1, LogFacts
    <3> QED BY <3>1, <3>2
  <2>6. Claim(h, o, R)' BY <1>2, <2>1, <2>3, <2>5, ClaimKept
  <2> QED BY <2>6 DEF Waits
<1> QED BY <1>1, <1>2

LEMMA AnswersKept ==
    ASSUME ReplicaInv, Next, cursor' = cursor, leftover' = leftover, NEW h, NEW o \in Int, Beginning <= o, Beyond(h, o),
           NEW ms \in Seq(Message), NEW R, Answers(h, o, ms, R)
    PROVE  Answers(h, o, ms, R)'
<1> USE DEF ReplicaInv
<1>1. Position(h, o, R)' BY SteadyAll, PositionKept DEF Answers
<1>2. Behind(h, o)' BY BehindKept DEF Answers
<1>3. Ahead(ms)' BY AheadKept DEF Answers
<1>4. Beginning' = Beginning BY DEF Beginning
<1> QED BY <1>1, <1>2, <1>3, <1>4 DEF Answers

\* A request that is left alone serves its client as before.
LEMMA ServesStays ==
    ASSUME ReplicaInv, Next, UNCHANGED file, NEW q, ReqOk(q), NEW h, h = q.handle, Fit(q, h), NEW s, Serves(q, s)
    PROVE  Serves(q, s)'
<1>1. replica' = replica /\ cursor' = cursor /\ leftover' = leftover BY DEF file
<1>2. PICK R : R = replica OBVIOUS
<1>3. q.pc # "idle" BY DEF Serves
<1>4. ASSUME q.pc \in {"ensure", "new", "rejoin", "fetch", "append", "settle"}
      PROVE  \E g, live, P : g = q.handle /\ live = q.live /\ P = replica' /\ Early(g, s, live, P)'
  <2>1. PICK live : live = q.live OBVIOUS
  <2>2. Early(h, s, live, R) BY <1>2, <1>4, <2>1 DEF Serves
  <2>3. Early(h, s, live, R)' BY <1>1, <2>2, EarlyKept
  <2> QED BY <1>1, <1>2, <2>1, <2>3
<1>5. q.pc \in {"resume", "read"} => q.handle = s.handle /\ q.from = s.offset BY DEF Serves
<1>6. ASSUME q.pc \in {"await", "waiting"}
      PROVE  \E g, o, P : g = q.handle /\ o = q.from /\ P = replica' /\ Waits(g, o, s, P)'
  <2>1. PICK o : o = q.from OBVIOUS
  <2>2. Waits(h, o, s, R) BY <1>2, <1>6, <2>1 DEF Serves
  <2>3. o \in Int /\ Beginning <= o /\ Beyond(h, o) /\ (Good(h) => h \in registry) BY <1>6, <2>1 DEF ReqOk, Fit
  <2>4. Waits(h, o, s, R)' BY <1>1, <2>2, <2>3, WaitsKept
  <2> QED BY <1>1, <1>2, <2>1, <2>4
<1>7. ASSUME q.pc = "answered", q.answer.status = "ok"
      PROVE  \E g, o, ms, P : /\ g = q.answer.handle /\ o = q.answer.offset /\ ms = q.answer.messages
                              /\ P = Replay(replica', ms) /\ Answers(g, o, ms, P)'
  <2>1. PICK g, o, ms : g = q.answer.handle /\ o = q.answer.offset /\ ms = q.answer.messages OBVIOUS
  <2>2. PICK P : P = Replay(R, ms) OBVIOUS
  <2>3. Answers(g, o, ms, P) BY <1>2, <1>7, <2>1, <2>2 DEF Serves
  <2>4. o \in Int /\ Beginning <= o /\ ms \in Seq(Message) /\ Beyond(g, o) BY <1>7, <2>1 DEF ReqOk, AnswerOk, Fit
  <2>5. Answers(g, o, ms, P)' BY <1>1, <2>3, <2>4, AnswersKept
  <2> QED BY <1>1, <1>2, <2>1, <2>2, <2>5
<1>8. q.pc = "answered" /\ q.answer.status = "must-refetch" => CursorGone' BY <1>1, GoneKept DEF Serves
<1> QED BY <1>3, <1>4, <1>5, <1>6, <1>7, <1>8, ServesMeansNext

LEMMA BehindLater ==
    ASSUME CursorFits, NEW h, NEW from \in Int, NEW o \in Int, from <= o, Behind(h, from)
    PROVE  Behind(h, o)
<1>1. CASE CursorGone BY <1>1 DEF Behind
<1>2. CASE ~CursorGone
  <2>1. cursor # None /\ cursor.offset \in Int BY <1>2 DEF CursorGone, CursorFits
  <2> QED BY <1>2, <2>1 DEF Behind
<1> QED BY <1>1, <1>2

\* The messages of a log after an offset no smaller than the cursor's.
LEMMA PartAhead ==
    ASSUME NEW l, LogOk(l), NEW h, l = Read(h)', NEW g, NEW p, g = cursor', cursor' # None => p = g.offset /\ p \in Int,
           CursorGone' \/ h = g.handle,
           NEW P \in SUBSET DOMAIN l.messages, NEW ms, ms = Picked(l.messages, P),
           CursorGone' \/ \A i \in P : p < l.messages[i].offset
    PROVE  Ahead(ms)'
<1>1. CASE CursorGone' BY <1>1 DEF Ahead
<1>2. CASE ~CursorGone'
  <2>1. cursor' # None BY <1>2 DEF CursorGone
  <2>2. h = g.handle /\ p = g.offset BY <1>2, <2>1
  <2>3. l.messages \in Seq(Message) BY LogFacts
  <2>4. ASSUME NEW i \in DOMAIN ms PROVE Has(cursor.handle, ms[i].row, cursor.offset)'
    <3>1. PICK k : k = InOrder(P)[i] OBVIOUS
    <3>2. k \in P /\ ms[i] = l.messages[k] BY <2>3, <3>1, PickedMeans
    <3>3. k \in DOMAIN l.messages /\ p < l.messages[k].offset BY <1>2, <3>2
    <3>4. Messages(h)' = l.messages BY DEF Messages
    <3>5. PICK r : r = ms[i].row OBVIOUS
    <3>6. Has(h, r, p)' BY <3>2, <3>3, <3>4, <3>5 DEF Has
    <3>7. h = cursor.handle' /\ p = cursor.offset' BY <2>2
    <3> QED BY <3>5, <3>6, <3>7 DEF Has
  <2> QED BY <2>4 DEF Ahead
<1> QED BY <1>1, <1>2

\* An answer with the log from an offset on.
LEMMA TailAnswers ==
    ASSUME ReplicaInv, Next, cursor' = cursor, leftover' = leftover, NEW h \in Handles, NEW from \in Int,
           NEW l, l = Read(h)', LogOk(l), NEW R,
           Good(h)' => ~(from < l.cut), Lost(h, from)' \/ Claim(h, from, R)',
           Good(h)' /\ from < SnapshotEnd => NoRows(h, from)',
           NEW o \in Int, from <= o, o # Beginning, Behind(h, from),
           NEW ms, ms = After(l.messages, from)
    PROVE  Answers(h, o, ms, Replay(R, ms))' /\ (Lost(h, o) \/ Claim(h, o, Replay(R, ms)))'
<1> USE DEF ReplicaInv
<1>1. NodeInv' BY NodeKept
<1>2. Beginning' = Beginning BY DEF Beginning
<1>3. PICK S : S = Replay(R, ms) OBVIOUS
<1>4. Lost(h, o)' \/ Claim(h, o, S)'
  <2>1. CASE ~Good(h)' BY <2>1 DEF Lost
  <2>2. CASE Good(h)'
    <3>1. Claim(h, from, R)' BY <2>2 DEF Lost
    <3>2. from < SnapshotEnd => NoRows(h, from)' BY <2>2
    <3>3. Claim(h, o, Replay(R, After(l.messages, from)))' BY <1>1, <2>2, <3>1, <3>2, TailClaims
    <3>4. S = Replay(R, After(l.messages, from)) BY <1>3
    <3>5. Replay(R, After(l.messages, from)) = Replay(R, After(l.messages, from))' BY DEF Replay, After, Picked, InOrder
    <3>6. S = Replay(R, After(l.messages, from))' BY <3>4, <3>5
    <3> QED BY <3>3, <3>6 DEF Claim
  <2> QED BY <2>1, <2>2
<1>5. Position(h, o, S)' BY <1>2, <1>4 DEF Position
<1>6. Behind(h, o)'
  <2>1. Behind(h, o) BY BehindLater
  <2> QED BY <2>1, BehindKept
<1>7. Ahead(ms)'
  <2>1. PICK g, p : g = cursor' /\ p = g.offset OBVIOUS
  <2>2. cursor # None => p \in Int BY <2>1 DEF CursorFits
  <2>3. Behind(h, from)' BY BehindKept
  <2>4. CursorGone' \/ (h = g.handle /\ p <= from) BY <2>1, <2>3 DEF Behind
  <2>5. CursorGone' => cursor' = None \/ cursor' # None OBVIOUS
  <2>6. PICK P \in SUBSET DOMAIN l.messages : P = {i \in DOMAIN l.messages : from < l.messages[i].offset} OBVIOUS
  <2>7. ms = Picked(l.messages, P) BY <2>6 DEF After
  <2>8. \A i \in DOMAIN l.messages : l.messages[i].offset \in Int BY LogFacts
  <2>9. CursorGone' \/ \A i \in P : p < l.messages[i].offset
    <3>1. SUFFICES ASSUME ~CursorGone', NEW i \in P PROVE p < l.messages[i].offset OBVIOUS
    <3>2. cursor # None BY <3>1 DEF CursorGone
    <3>3. p \in Int /\ p <= from /\ from < l.messages[i].offset /\ l.messages[i].offset \in Int
      BY <2>2, <2>4, <2>6, <2>8, <3>1, <3>2
    <3> QED BY <3>3
  <2> QED BY <2>1, <2>2, <2>4, <2>7, <2>9, PartAhead
<1>8. Answers(h, o, ms, S)' BY <1>2, <1>5, <1>6, <1>7 DEF Answers
<1>9. S = Replay(R, ms)' BY <1>3 DEF Replay
<1>10. Answers(h, o, ms, Replay(R, ms))' BY <1>8, <1>9
<1>11. Lost(h, o)' \/ Claim(h, o, Replay(R, ms))' BY <1>4, <1>9 DEF Claim
<1> QED BY <1>10, <1>11

\* The state after a reply.
LEMMA ReplyServes ==
    ASSUME NEW q, ReqOk(q), NEW a, AnswerOk(a), a.status = "ok", NEW s, NEW p, p = Reply(q, a),
           NEW h, NEW o, NEW ms, NEW R, NEW S, h = a.handle, o = a.offset, ms = a.messages, R = replica', S = Replay(R, ms),
           h = q.handle, q.live => h = s.handle, s.offset <= o,
           Answers(h, o, ms, S)', ms = <<>> => Lost(h, o)' \/ Claim(h, o, R)'
    PROVE  Serves(p, s)'
<1>1. CASE p.pc = "await" /\ p.handle = h /\ p.from = o /\ ms = <<>> /\ q.live = TRUE
  <2>1. Waits(h, o, s, R)' BY <1>1 DEF Waits
  <2> QED BY <1>1, <2>1, ServesMeansNext
<1>2. CASE p.pc = "answered" /\ p.answer = a BY <1>2, ServesMeansNext
<1>3. \/ /\ Reply(q, a).pc = "await" /\ Reply(q, a).handle = q.handle /\ Reply(q, a).from = a.offset
         /\ a.messages = <<>> /\ q.live = TRUE
      \/ Reply(q, a) = Answered(a) /\ Reply(q, a).pc = "answered" /\ Reply(q, a).answer = a
  BY ReplyMeans, Zenon
<1> QED BY <1>1, <1>2, <1>3

(***************************************************************************)
(* The calls serve the client.                                             *)
(***************************************************************************)
\* A part of a log that is as long as the log is the log.
LEMMA WholePart ==
    ASSUME NEW l, LogOk(l), Len(SnapshotPart(l.messages)) = Len(l.messages)
    PROVE  \A i \in DOMAIN l.messages : l.messages[i].offset <= SnapshotEnd
<1>1. l.messages \in Seq(Message) /\ DOMAIN l.messages = 1 .. Len(l.messages) /\ Len(l.messages) \in Nat BY LogFacts
<1>2. PICK P \in SUBSET DOMAIN l.messages : P = {i \in DOMAIN l.messages : l.messages[i].offset <= SnapshotEnd} OBVIOUS
<1>3. Cardinality(P) = Len(l.messages) BY <1>1, <1>2, PickedMeans DEF SnapshotPart
<1>4. IsFiniteSet(DOMAIN l.messages) /\ Cardinality(DOMAIN l.messages) = Len(l.messages) BY <1>1, FS_Interval
<1>5. P = DOMAIN l.messages BY <1>3, <1>4, FS_Subset
<1> QED BY <1>2, <1>5

\* Settle serves the snapshot.
LEMMA SettleServes ==
    ASSUME ReplicaInv, Next, NEW c \in Requests, Settle(c), UNCHANGED file,
           NEW s, StreamOk(s), Behind(s.handle, s.offset), Serves(req[c], s), NEW t, t = req'[c]
    PROVE  Serves(t, s)'
<1> USE DEF ReplicaInv
<1>1. PICK p, h, l, R : p = req[c] /\ h = p.handle /\ l = Read(h) /\ R = replica OBVIOUS
<1>2. PICK a, o, ms : a = Settled(h) /\ o = a.offset /\ ms = a.messages OBVIOUS
<1>3. /\ p.pc = "settle" /\ h \in Handles /\ Mine(c) /\ t = Reply(p, a) /\ ReqOk(p)
      /\ flawed' = flawed \cup Gap(h, Beginning) \cup Half(h)
  BY <1>1, <1>2, SettleMeans DEF Types, ReqsOk
<1>4. Fit(p, h) /\ Steady(h) /\ LogOk(l) BY <1>1, SteadyAll, FitMeans, ReadOk DEF NodeInv
<1>5. UNCHANGED <<log, registry>> BY DEF Settle, shapes
<1>6. Read(h)' = l BY <1>1, <1>5, SameReads
<1>7. replica' = replica /\ cursor' = cursor /\ leftover' = leftover BY DEF file
<1>8. /\ AnswerOk(a) /\ a.status = "ok" /\ a.handle = h /\ ms = SnapshotPart(l.messages)
      /\ o = IF Len(SnapshotPart(l.messages)) = Len(l.messages) THEN l.last ELSE SnapshotEnd
  BY <1>1, <1>2, <1>3, <1>4, SettledOk DEF Messages
<1>9. o \in Int /\ Beginning <= o /\ ms \in Seq(Message) BY <1>2, <1>8 DEF AnswerOk
<1>10. ASSUME Good(h)' PROVE Whole(h)' /\ h \in registry' /\ Snapshotting(h)' = {}
  <2>1. Good(h) BY <1>4, <1>10, SteadyMeans
  <2>2. h \in registry' BY <1>3, <1>4, <1>5, <2>1 DEF Fit
  <2>3. Snapshotting(h) = {} BY <1>3, <1>10 DEF Good, Half
  <2>4. t.pc \in {"await", "answered"}
    <3>1. Reply(p, a).pc \in {"await", "answered"} BY <1>3, ReplyMeans
    <3> QED BY <1>3, <3>1
  <2>5. Snapshotting(h)' = {} BY <1>3, <2>3, <2>4 DEF Mine, Snapshotting
  <2>6. ~(Beginning < l.cut)
    <3>1. CASE h \in DOMAIN log
      <4>1. l = log[h] BY <1>1, <3>1 DEF Read
      <4> QED BY <1>3, <1>10, <3>1, <4>1 DEF Good, Gap
    <3>2. CASE h \notin DOMAIN log BY <1>1, <3>2 DEF Read, EmptyLog, Beginning
    <3> QED BY <3>1, <3>2
  <2>7. l.cut = Beginning BY <1>4, <2>6, LogFacts DEF Beginning
  <2> QED BY <1>6, <1>10, <2>2, <2>5, <2>7 DEF Whole, Beginning
<1>11. PICK live : live = p.live OBVIOUS
<1>12. Early(h, s, live, R) BY <1>1, <1>3, <1>11 DEF Serves
<1>13. Early(h, s, live, R)' BY <1>7, <1>12, EarlyKept
<1>14. ASSUME Good(h)' PROVE Fresh(h, R)'
  <2>1. h # None BY <1>3, ShapeAssumption DEF Handles
  <2>2. ~Lost(h, Beginning)'
    <3>1. (Read(h)').cut = Beginning' BY <1>10, <1>14 DEF Whole
    <3> QED BY <1>14, <3>1 DEF Lost, Beginning
  <2>3. Position(h, Beginning, R)' BY <1>13, <2>1 DEF Early, Standing
  <2> QED BY <2>2, <2>3 DEF Position
<1>15. PICK S : S = Replay(R, ms) OBVIOUS
<1>16. ASSUME Good(h)' PROVE Claim(h, o, S)'
  <2>1. o <= SnapshotEnd \/ \A i \in DOMAIN l.messages : l.messages[i].offset <= SnapshotEnd
    BY <1>4, <1>8, WholePart, SnapshotEndNat
  <2>2. Claim(h, o, Replay(R, SnapshotPart(l.messages)))'
    BY <1>3, <1>4, <1>6, <1>9, <1>10, <1>14, <1>16, <2>1, NodeKept, SnapshotClaims
  <2>3. S = Replay(R, SnapshotPart(l.messages)) BY <1>8, <1>15
  <2>4. Replay(R, SnapshotPart(l.messages)) = Replay(R, SnapshotPart(l.messages))'
    BY DEF Replay, SnapshotPart, Picked, InOrder, SnapshotEnd
  <2> QED BY <2>2, <2>3, <2>4 DEF Claim
<1>17. o = Beginning => ms = <<>>
  <2>1. o = Beginning => o = l.last BY <1>8, SnapshotEndNat DEF Beginning
  <2>2. o = Beginning => l.messages = <<>> BY <1>4, <2>1 DEF LogOk, Beginning
  <2>3. o = Beginning => Len(ms) = 0
    <3>1. Len(<<>>) = 0 OBVIOUS
    <3> QED BY <1>8, <2>1, <2>2, <3>1, SnapshotEndNat DEF Beginning
  <2> QED BY <1>9, <2>3, EmptySeq
<1>18. Position(h, o, S)'
  <2>1. CASE ~Good(h)' BY <2>1 DEF Position, Lost
  <2>2. CASE Good(h)' /\ o # Beginning BY <1>16, <2>2 DEF Position, Beginning
  <2>3. CASE Good(h)' /\ o = Beginning
    <3>1. \A r \in Rows : S[r] = R[r] BY <1>15, <1>17, <2>3, ReplayNothing
    <3>2. Fresh(h, S)' BY <1>14, <2>3, <3>1 DEF Fresh
    <3> QED BY <2>3, <3>2 DEF Position, Beginning
  <2> QED BY <2>1, <2>2, <2>3
<1>19. Behind(h, Beginning)
  <2>1. s.offset = Beginning /\ (h # s.handle => CursorGone) BY <1>12 DEF Early
  <2> QED BY <2>1 DEF Behind
<1>20. Behind(h, o)'
  <2>1. Beginning \in Int BY DEF Beginning
  <2>2. Behind(h, o) BY <1>9, <1>19, <2>1, BehindLater
  <2> QED BY <1>7, <2>2, BehindKept
<1>21. Ahead(ms)'
  <2>1. PICK g, q : g = cursor' /\ q = g.offset OBVIOUS
  <2>2. cursor # None => q \in Int BY <1>7, <2>1 DEF CursorFits
  <2>3. CursorGone' \/ (h = g.handle /\ q <= Beginning)
    <3>1. CursorGone => CursorGone' BY <1>7, GoneKept
    <3> QED BY <1>7, <1>19, <2>1, <3>1 DEF Behind
  <2>4. PICK P \in SUBSET DOMAIN l.messages : P = {i \in DOMAIN l.messages : l.messages[i].offset <= SnapshotEnd} OBVIOUS
  <2>5. ms = Picked(l.messages, P) BY <1>8, <2>4 DEF SnapshotPart
  <2>6. \A i \in DOMAIN l.messages : l.messages[i].offset \in Int /\ 0 <= l.messages[i].offset BY <1>4, LogFacts
  <2>7. CursorGone' \/ \A i \in P : q < l.messages[i].offset
    <3>1. SUFFICES ASSUME ~CursorGone', NEW i \in P PROVE q < l.messages[i].offset OBVIOUS
    <3>2. cursor' # None BY <3>1 DEF CursorGone
    <3>3. q \in Int /\ q <= Beginning /\ 0 <= l.messages[i].offset /\ l.messages[i].offset \in Int
      BY <1>7, <2>2, <2>3, <2>6, <3>1, <3>2
    <3> QED BY <3>3 DEF Beginning
  <2> QED BY <1>4, <1>6, <1>7, <2>1, <2>2, <2>3, <2>5, <2>7, PartAhead
<1>22. Answers(h, o, ms, S)' BY <1>17, <1>18, <1>20, <1>21 DEF Answers, Beginning
<1>23. ms = <<>> => Lost(h, o)' \/ Claim(h, o, R)'
  <2>1. CASE ~Good(h)' BY <2>1 DEF Lost
  <2>2. CASE Good(h)' /\ ms = <<>>
    <3>1. S = R BY <1>1, <1>15, <2>2, ReplayNothing DEF ClientOk
    <3> QED BY <1>16, <2>2, <3>1 DEF Claim
  <2> QED BY <2>1, <2>2
<1>24. s.offset <= o /\ (p.live => h = s.handle) BY <1>9, <1>11, <1>12 DEF Early, Beginning
<1> QED BY <1>1, <1>2, <1>3, <1>7, <1>8, <1>15, <1>22, <1>23, <1>24, ReplyServes

\* The calls of a request from the beginning.
Starting == {"ensure", "new", "rejoin", "fetch", "append", "settle"}

LEMMA EarlyServes ==
    ASSUME ReplicaInv, Next, UNCHANGED file, NEW p, NEW s, Serves(p, s), NEW t,
           p.pc \in Starting, t.pc \in Starting, t.handle = p.handle, t.live = p.live
    PROVE  Serves(t, s)'
<1>1. replica' = replica /\ cursor' = cursor /\ leftover' = leftover BY DEF file
<1>2. PICK h, live, R : h = p.handle /\ live = p.live /\ R = replica OBVIOUS
<1>3. Early(h, s, live, R) BY <1>2 DEF Serves, Starting
<1>4. Early(h, s, live, R)' BY <1>1, <1>3, EarlyKept
<1>5. /\ t.pc # "idle" /\ t.pc \notin {"resume", "read"} /\ t.pc \notin {"await", "waiting"} /\ t.pc # "answered"
      /\ h = t.handle /\ live = t.live /\ R = replica'
  BY <1>1, <1>2 DEF Starting
<1> QED BY <1>4, <1>5, ServesMeansNext

LEMMA EnsureServes ==
    ASSUME ReplicaInv, Next, NEW c \in Requests, Ensure(c), UNCHANGED file,
           NEW s, StreamOk(s), Behind(s.handle, s.offset), Serves(req[c], s), NEW t, t = req'[c]
    PROVE  Serves(t, s)'
<1> USE DEF ReplicaInv
<1>1. PICK p : p = req[c] OBVIOUS
<1>2. PICK h : h = IF p.handle = None THEN given + 1 ELSE p.handle OBVIOUS
<1>3. /\ h \in Handles /\ Mine(c) /\ t.pc = (IF Read(h).messages = <<>> THEN "new" ELSE "rejoin")
      /\ t.handle = h /\ (\A f \in Fields \ {"pc", "handle"} : t[f] = p[f]) /\ p.pc = "ensure"
  BY <1>1, <1>2, EnsureMeans
<1>4. t.live = p.live BY <1>3 DEF Fields
<1>5. t.pc \in Starting BY <1>3 DEF Starting
<1>6. CASE p.handle # None
  <2>1. h = p.handle BY <1>2, <1>6
  <2>2. p.pc \in Starting /\ t.handle = p.handle BY <1>3, <2>1 DEF Starting
  <2>3. Serves(p, s) BY <1>1
  <2> QED BY <1>4, <1>5, <2>2, <2>3, EarlyServes
<1>7. CASE p.handle = None
  <2>1. replica' = replica /\ cursor' = cursor /\ leftover' = leftover BY DEF file
  <2>2. PICK g, live, R : g = p.handle /\ live = p.live /\ R = replica OBVIOUS
  <2>3. Early(g, s, live, R) BY <1>1, <1>3, <2>2 DEF Serves
  <2>4. s.offset = Beginning /\ New(R) /\ s.handle = None /\ (live => s.handle # None)
    BY <1>7, <2>2, <2>3 DEF Early, Standing
  <2>5. h # None BY <1>3, ShapeAssumption DEF Handles
  <2>6. Fresh(h, R)' BY <2>1, <2>4 DEF New, Fresh
  <2>7. Standing(h, Beginning, R)' BY <2>5, <2>6 DEF Standing, Position
  <2>8. CursorGone
    <3>1. cursor # None => cursor.handle # None BY ShapeAssumption DEF CursorFits, Handles
    <3> QED BY <2>4, <3>1 DEF Behind, CursorGone
  <2>9. CursorGone' BY <2>1, <2>8, GoneKept
  <2>10. Early(h, s, live, R)' BY <2>4, <2>7, <2>9 DEF Early, Beginning
  <2>11. /\ t.pc # "idle" /\ t.pc \notin {"resume", "read"} /\ t.pc \notin {"await", "waiting"} /\ t.pc # "answered"
         /\ h = t.handle /\ live = t.live /\ R = replica'
    BY <1>3, <1>4, <2>1, <2>2
  <2> QED BY <2>10, <2>11, ServesMeansNext
<1> QED BY <1>6, <1>7

\* A request that is told to refetch.
LEMMA GoneServes ==
    ASSUME NEW t, NEW s, t.pc = "answered", t.answer.status = "must-refetch", CursorGone'
    PROVE  Serves(t, s)'
BY ServesMeansNext

LEMMA ResumeServes ==
    ASSUME ReplicaInv, Next, NEW c \in Requests, Resume(c), UNCHANGED file,
           NEW s, StreamOk(s), Behind(s.handle, s.offset), Serves(req[c], s), NEW t, t = req'[c]
    PROVE  Serves(t, s)'
<1> USE DEF ReplicaInv
<1>1. PICK p, h, o : p = req[c] /\ h = p.handle /\ o = p.from OBVIOUS
<1>2. /\ p.pc = "resume"
      /\ \/ t.pc = "answered" /\ t.answer.status = "must-refetch" /\ Gap(h, o) # {}
         \/ t.pc = "read" /\ \A f \in Fields \ {"pc"} : t[f] = p[f]
  BY <1>1, ResumeMeans
<1>3. cursor' = cursor BY DEF file
<1>4. h = s.handle /\ o = s.offset /\ o \in Int BY <1>1, <1>2 DEF Serves, StreamOk
<1>5. CASE t.pc = "answered" /\ t.answer.status = "must-refetch" /\ Gap(h, o) # {}
  <2>1. h \in DOMAIN log /\ o < log[h].cut BY <1>5 DEF Gap
  <2>2. Read(h).cut = log[h].cut BY <2>1 DEF Read
  <2>3. Read(h).cut \in Int
    <3>1. LogOk(Read(h)) BY ReadOk
    <3> QED BY <3>1, LogFacts
  <2>4. Behind(h, o) BY <1>4
  <2>5. CursorGone
    <3>1. SUFFICES ASSUME cursor # None, h = cursor.handle, cursor.offset <= o PROVE CursorGone
      BY <2>4 DEF Behind, CursorGone
    <3>2. cursor.offset \in Int BY <3>1 DEF CursorFits
    <3>3. cursor.offset < Read(h).cut BY <1>4, <2>1, <2>2, <2>3, <3>1, <3>2
    <3> QED BY <3>1, <3>3 DEF CursorGone, Lost
  <2>6. CursorGone' BY <1>3, <2>5, GoneKept
  <2> QED BY <1>5, <2>6, GoneServes
<1>6. CASE t.pc = "read" /\ \A f \in Fields \ {"pc"} : t[f] = p[f]
  <2>1. t.handle = s.handle /\ t.from = s.offset BY <1>1, <1>4, <1>6 DEF Fields
  <2> QED BY <1>6, <2>1, ServesMeansNext
<1> QED BY <1>2, <1>5, <1>6

LEMMA TimeoutServes ==
    ASSUME ReplicaInv, Next, NEW c \in Requests, Timeout(c), UNCHANGED file,
           NEW s, StreamOk(s), Standing(s.handle, s.offset, replica), Behind(s.handle, s.offset), Serves(req[c], s),
           NEW t, t = req'[c]
    PROVE  Serves(t, s)'
<1> USE DEF ReplicaInv
<1>1. PICK p, h, o, R : p = req[c] /\ h = p.handle /\ o = p.from /\ R = replica OBVIOUS
<1>2. PICK a, ms : a = Ok(h, <<>>, o, TRUE) /\ ms = <<>> OBVIOUS
<1>3. p.pc = "waiting" /\ h \in Handles /\ o \in Int /\ t = Answered(a) /\ AnswerOk(a) BY <1>1, <1>2, TimeoutMeans
<1>4. /\ t.pc = "answered" /\ t.answer = a /\ a.status = "ok" /\ a.handle = h /\ a.offset = o /\ a.messages = ms
  BY <1>2, <1>3, AnsweredOk DEF Ok, Answer
<1>5. replica' = replica /\ cursor' = cursor /\ leftover' = leftover BY DEF file
<1>6. Waits(h, o, s, R) BY <1>1, <1>3 DEF Serves
<1>7. h = s.handle /\ s.offset <= o /\ s.offset \in Int /\ Beginning <= s.offset BY <1>6 DEF Waits, StreamOk
<1>8. h # None BY <1>3, ShapeAssumption DEF Handles
<1>9. Position(h, o, R)
  <2>1. CASE o # Beginning BY <1>6, <2>1 DEF Waits, Position
  <2>2. CASE o = Beginning
    <3>1. s.offset = Beginning BY <1>3, <1>7, <2>2 DEF Beginning
    <3> QED BY <1>1, <1>7, <1>8, <2>2, <3>1 DEF Standing
  <2> QED BY <2>1, <2>2
<1>10. Beginning <= o BY <1>3, <1>7 DEF Beginning
<1>11. Beyond(h, o)
  <2>1. Fit(p, h) BY <1>1, FitMeans DEF NodeInv
  <2> QED BY <1>1, <1>3, <2>1 DEF Fit
<1>12. Position(h, o, R)' BY <1>3, <1>5, <1>9, <1>10, <1>11, SteadyAll, PositionKept
<1>13. Behind(h, o)'
  <2>1. Behind(h, o) BY <1>3, <1>7, BehindLater
  <2> QED BY <1>5, <2>1, BehindKept
<1>14. Ahead(ms)'
  <2>1. DOMAIN ms = {} BY <1>2
  <2> QED BY <2>1 DEF Ahead
<1>15. Answers(h, o, ms, R)' BY <1>2, <1>12, <1>13, <1>14 DEF Answers
<1>16. Replay(replica', ms) = R BY <1>1, <1>2, <1>5, ReplayNothing DEF ClientOk
<1> QED BY <1>4, <1>15, <1>16, ServesMeansNext

\* What a client that is sent the rest of a log is told.
LEMMA RestServes ==
    ASSUME ReplicaInv, Next, UNCHANGED file, NEW p, ReqOk(p), NEW h \in Handles, h = p.handle, NEW from \in Int,
           NEW l, l = Read(h)', LogOk(l), NEW R, R = replica,
           Good(h)' => ~(from < l.cut), Lost(h, from)' \/ Claim(h, from, R)',
           Good(h)' /\ from < SnapshotEnd => NoRows(h, from)',
           NEW s, s.offset \in Int, s.offset <= from, h = s.handle, Behind(h, from),
           NEW o \in Int, from <= o, o # Beginning,
           NEW a, a = Ok(h, After(l.messages, from), o, TRUE), AnswerOk(a),
           NEW t, t = Reply(p, a) \/ t = Answered(a)
    PROVE  Serves(t, s)'
<1> USE DEF ReplicaInv
<1>1. PICK ms, S : ms = After(l.messages, from) /\ S = Replay(R, ms) OBVIOUS
<1>2. replica' = replica /\ cursor' = cursor /\ leftover' = leftover BY DEF file
<1>3. Answers(h, o, ms, Replay(R, ms))' /\ (Lost(h, o) \/ Claim(h, o, Replay(R, ms)))'
  BY <1>1, <1>2, TailAnswers
<1>4. S = Replay(R, ms)' BY <1>1 DEF Replay
<1>5. Answers(h, o, ms, S)' BY <1>3, <1>4
<1>6. ms = <<>> => Lost(h, o)' \/ Claim(h, o, R)'
  <2>1. ms = <<>> => S = R BY <1>1, ReplayNothing DEF ClientOk
  <2>2. Lost(h, o)' \/ Claim(h, o, S)' BY <1>3, <1>4 DEF Claim
  <2> QED BY <2>1, <2>2 DEF Claim
<1>7. a.status = "ok" /\ a.handle = h /\ a.offset = o /\ a.messages = ms BY <1>1 DEF Ok, Answer
<1>8. R = replica' /\ s.offset <= o BY <1>2
<1>9. CASE t = Reply(p, a) BY <1>1, <1>5, <1>6, <1>7, <1>8, <1>9, ReplyServes
<1>10. CASE t = Answered(a)
  <2>1. t.pc = "answered" /\ t.answer = a BY <1>10, AnsweredOk
  <2> QED BY <1>1, <1>5, <1>7, <1>8, <2>1, ServesMeansNext
<1> QED BY <1>9, <1>10

LEMMA ReadLogServes ==
    ASSUME ReplicaInv, Next, NEW c \in Requests, ReadLog(c), UNCHANGED file,
           NEW s, StreamOk(s), Standing(s.handle, s.offset, replica), Behind(s.handle, s.offset), Serves(req[c], s),
           NEW t, t = req'[c]
    PROVE  Serves(t, s)'
<1> USE DEF ReplicaInv
<1>1. PICK p, h, from, l, R : p = req[c] /\ h = p.handle /\ from = p.from /\ l = Read(h) /\ R = replica OBVIOUS
<1>2. PICK o, a : o = Later(from, l.last) /\ a = Ok(h, After(l.messages, from), o, TRUE) OBVIOUS
<1>3. /\ p.pc = "read" /\ h \in Handles /\ 0 <= from /\ from \in Int
      /\ \/ h \notin DOMAIN log /\ t.pc = "answered" /\ t.answer.status = "must-refetch"
         \/ h \in DOMAIN log /\ t = Reply(p, a) /\ flawed' = flawed \cup Gap(h, from)
  BY <1>1, <1>2, ReadLogMeans DEF Messages
<1>4. ReqOk(p) /\ Fit(p, h) /\ Steady(h) /\ LogOk(l) BY <1>1, SteadyAll, FitMeans, ReadOk DEF NodeInv, Types, ReqsOk
<1>5. UNCHANGED <<log, registry>> BY DEF ReadLog, shapes
<1>6. Read(h)' = l BY <1>1, <1>5, SameReads
<1>7. replica' = replica /\ cursor' = cursor /\ leftover' = leftover BY DEF file
<1>8. h = s.handle /\ from = s.offset BY <1>1, <1>3 DEF Serves
<1>9. Beyond(h, from) BY <1>1, <1>3, <1>4 DEF Fit
<1>10. CASE h \notin DOMAIN log /\ t.pc = "answered" /\ t.answer.status = "must-refetch"
  <2>1. ~Good(h) BY <1>3, <1>9, <1>10, InLog DEF Beyond
  <2>2. CursorGone BY <1>8, <2>1 DEF Behind, CursorGone, Lost
  <2>3. CursorGone' BY <1>7, <2>2, GoneKept
  <2> QED BY <1>10, <2>3, GoneServes
<1>11. CASE h \in DOMAIN log /\ t = Reply(p, a) /\ flawed' = flawed \cup Gap(h, from)
  <2>1. l = log[h] BY <1>1, <1>11 DEF Read
  <2>2. Good(h)' => ~(from < l.cut) BY <1>11, <2>1 DEF Good, Gap
  <2>3. h # None BY <1>3, ShapeAssumption DEF Handles
  <2>4. Position(h, from, R) BY <1>1, <1>8, <2>3 DEF Standing
  <2>5. Beginning <= from /\ from # Beginning BY <1>3 DEF Beginning
  <2>6. Position(h, from, R)' BY <1>3, <1>4, <1>7, <1>9, <2>4, <2>5, PositionKept
  <2>7. Lost(h, from)' \/ Claim(h, from, R)' BY <2>5, <2>6 DEF Position, Beginning
  <2>8. Beyond(h, from)' BY <1>3, <1>4, <1>9, SnapsAll, RowsAll, BeyondKept
  <2>9. Good(h)' /\ from < SnapshotEnd => NoRows(h, from)' BY <1>3, <2>8 DEF Beyond, SnapshotEnd
  <2>10. Behind(h, from) BY <1>8
  <2>11. o \in Int /\ from <= o /\ o # Beginning
    <3>1. l.last \in Int BY <1>4, LogFacts
    <3> QED BY <1>2, <1>3, <3>1 DEF Later, Beginning
  <2>12. AnswerOk(a)
    <3>1. After(l.messages, from) \in Seq(Message) BY <1>4, PartTypes
    <3>2. Beginning <= o BY <2>5, <2>11, <1>3 DEF Beginning
    <3> QED BY <1>2, <1>3, <2>11, <3>1, <3>2, OkOk
  <2>13. s.offset \in Int /\ s.offset <= from BY <1>3, <1>8
  <2> QED BY <1>1, <1>2, <1>3, <1>4, <1>6, <1>8, <1>11, <2>2, <2>7, <2>9, <2>10, <2>11, <2>12, <2>13, RestServes
<1> QED BY <1>3, <1>10, <1>11

LEMMA AwaitLogServes ==
    ASSUME ReplicaInv, Next, NEW c \in Requests, AwaitLog(c), UNCHANGED file,
           NEW s, StreamOk(s), Behind(s.handle, s.offset), Serves(req[c], s), NEW t, t = req'[c]
    PROVE  Serves(t, s)'
<1> USE DEF ReplicaInv
<1>1. PICK p, h, from, l, R : p = req[c] /\ h = p.handle /\ from = p.from /\ l = Read(h) /\ R = replica OBVIOUS
<1>2. PICK a, o : a = Ok(h, After(l.messages, from), l.last, TRUE) /\ o = l.last OBVIOUS
<1>3. /\ p.pc = "await" /\ h \in Handles /\ from \in Int
      /\ log' = With(h, l) /\ flawed' = flawed \cup Gap(h, from) \cup Back(h)
      /\ \/ from < l.last /\ t = Answered(a)
         \/ t.pc = "waiting" /\ \A f \in Fields \ {"pc"} : t[f] = p[f]
  BY <1>1, <1>2, AwaitLogMeans DEF Messages
<1>4. ReqOk(p) /\ Fit(p, h) /\ Steady(h) /\ LogOk(l) BY <1>1, SteadyAll, FitMeans, ReadOk DEF NodeInv, Types, ReqsOk
<1>5. Beginning <= from BY <1>1, <1>4 DEF ReqOk
<1>6. Read(h)' = l BY <1>3, WithMeans
<1>7. replica' = replica /\ cursor' = cursor /\ leftover' = leftover BY DEF file
<1>8. Waits(h, from, s, R) BY <1>1, <1>3 DEF Serves
<1>9. Beyond(h, from) /\ (Good(h) => h \in registry) BY <1>1, <1>3, <1>4 DEF Fit
<1>10. Waits(h, from, s, R)' BY <1>3, <1>5, <1>7, <1>8, <1>9, WaitsKept
<1>11. CASE t.pc = "waiting" /\ \A f \in Fields \ {"pc"} : t[f] = p[f]
  <2>1. t.handle = h /\ t.from = from BY <1>1, <1>11 DEF Fields
  <2> QED BY <1>1, <1>7, <1>10, <1>11, <2>1, ServesMeansNext
<1>12. CASE from < l.last /\ t = Answered(a)
  <2>1. Good(h)' => ~(from < l.cut)
    <3>1. CASE h \in DOMAIN log
      <4>1. l = log[h] BY <1>1, <3>1 DEF Read
      <4> QED BY <1>3, <3>1, <4>1 DEF Good, Gap
    <3>2. CASE h \notin DOMAIN log
      <4>1. l.cut = Beginning BY <1>1, <3>2 DEF Read, EmptyLog
      <4> QED BY <1>3, <1>5, <4>1 DEF Beginning
    <3> QED BY <3>1, <3>2
  <2>2. Lost(h, from)' \/ Claim(h, from, R)' BY <1>10 DEF Waits
  <2>3. Good(h)' /\ from < SnapshotEnd => NoRows(h, from)'
    <3>1. CASE from = Beginning
      <4>1. Good(h)' => Good(h) BY <1>4, SteadyMeans
      <4>2. Good(h) => NoRows(h, Beginning) BY <1>1, <1>3, <1>4, <3>1 DEF Fit
      <4>3. Messages(h)' = Messages(h) BY <1>1, <1>6, StillMeans
      <4> QED BY <3>1, <4>1, <4>2, <4>3 DEF NoRows, SnapshotEnd
    <3>2. CASE from # Beginning
      <4>1. Beyond(h, from)' BY <1>3, <1>4, <1>9, SnapsAll, RowsAll, BeyondKept
      <4> QED BY <1>3, <1>5, <3>2, <4>1 DEF Beyond, SnapshotEnd, Beginning
    <3> QED BY <3>1, <3>2
  <2>4. h = s.handle /\ s.offset \in Int /\ s.offset <= from BY <1>8 DEF Waits, StreamOk
  <2>5. Behind(h, from) BY <1>3, <2>4, BehindLater
  <2>6. o \in Int /\ from <= o /\ o # Beginning
    <3>1. l.last \in Int BY <1>4, LogFacts
    <3> QED BY <1>2, <1>3, <1>5, <1>12, <3>1 DEF Beginning
  <2>7. AnswerOk(a)
    <3>1. After(l.messages, from) \in Seq(Message) BY <1>4, PartTypes
    <3>2. Beginning <= o BY <1>2, <1>4, LogFacts
    <3> QED BY <1>2, <1>3, <2>6, <3>1, <3>2, OkOk
  <2>8. a = Ok(h, After(l.messages, from), o, TRUE) BY <1>2
  <2>9. t = Reply(p, a) \/ t = Answered(a) BY <1>12
  <2>10. ReqOk(p) /\ h \in Handles /\ h = p.handle /\ from \in Int /\ l = Read(h)' /\ LogOk(l) /\ R = replica
    BY <1>1, <1>3, <1>4, <1>6
  <2> QED BY <2>1, <2>2, <2>3, <2>4, <2>5, <2>6, <2>7, <2>8, <2>9, <2>10, RestServes
<1> QED BY <1>3, <1>11, <1>12

\* What wakes a waiting request has been put behind all it has been sent.
LEMMA WakerIsNew ==
    ASSUME ReplicaInv, NoLostWakeup, Next, NEW c \in Requests, NEW h \in Handles, req[c].pc = "waiting", req[c].handle = h,
           NEW from, from = req[c].from, NEW l, l = Read(h)', from < l.last, Good(h)'
    PROVE  ~(from < l.cut)
<1> USE DEF ReplicaInv
<1>1. PICK p, k : p = req[c] /\ k = Read(h) OBVIOUS
<1>2. ReqOk(p) /\ Fit(p, h) /\ Steady(h) /\ LogOk(k) BY <1>1, SteadyAll, FitMeans, ReadOk DEF NodeInv, Types, ReqsOk
<1>3. from \in Int /\ Beginning <= from BY <1>1, <1>2 DEF ReqOk
<1>4. Good(h) BY <1>2, SteadyMeans
<1>5. Beyond(h, from) BY <1>1, <1>2 DEF Fit
<1>6. /\ k.last \in Int /\ k.cut \in Int /\ k.cut <= k.last
      /\ k.messages \in Seq(Message) /\ DOMAIN k.messages = 1 .. Len(k.messages) /\ Len(k.messages) \in Nat
      /\ \A i \in DOMAIN k.messages : k.messages[i].offset \in Int /\ k.messages[i].offset <= k.last
  BY <1>2, LogFacts
<1>7. ~(from < k.last) /\ h \in DOMAIN log BY <1>1 DEF NoLostWakeup, At, Read
<1>8. CASE l = k BY <1>3, <1>6, <1>7, <1>8
<1>9. ASSUME NEW w \in work, h \in w.todo, Apply(w, h) PROVE ~(from < l.cut)
  <2>1. PICK m \in Message : /\ NewOk(<<m>>) /\ log' = With(h, Appended(k, <<m>>))
    <3>1. \E m \in Message : LET a == Appended(Read(h), <<m>>) IN NewOk(<<m>>) /\ log' = With(h, a) BY <1>9, ApplyMeans
    <3> QED BY <1>1, <3>1
  <2>2. PICK new : new = <<m>> OBVIOUS
  <2>3. NewOk(new) /\ Len(new) = 1 BY <2>1, <2>2
  <2>4. l = Appended(k, new) BY <2>1, <2>2, WithMeans
  <2>5. PICK d, all : d = Excess(k, new) /\ all = All(k, new) OBVIOUS
  <2>6. l.cut = IF d = 0 THEN k.cut ELSE Later(k.cut, all[d].offset) BY <1>2, <2>3, <2>4, <2>5, LastMeans
  <2>7. d \in {0, 1} /\ d < Len(all) BY <1>2, <2>3, <2>5, ExcessMeans
  <2>8. Len(all) = Len(k.messages) + Len(new) /\ \A i \in DOMAIN k.messages : all[i] = k.messages[i]
    <3>1. LogOk(k) /\ NewOk(new) /\ all = All(k, new) BY <1>2, <2>3, <2>5
    <3> QED BY <3>1, AllMeans
  <2>9. CASE d = 0 BY <1>3, <1>6, <1>7, <2>6, <2>9
  <2>10. CASE d = 1
    <3>1. 1 \in DOMAIN k.messages BY <1>6, <2>3, <2>7, <2>8, <2>10
    <3>2. all[1].offset \in Int /\ all[1].offset <= k.last BY <1>6, <2>8, <3>1
    <3> QED BY <1>3, <1>6, <1>7, <2>6, <2>10, <3>2 DEF Later
  <2> QED BY <2>7, <2>9, <2>10
<1>10. ASSUME NEW x \in Requests, AppendPage(x), req[x].handle = h PROVE l = k
  <2>1. PICK new : new = SnapshotMessages(x) OBVIOUS
  <2>2. /\ req[x].pc = "append"
        /\ \A i \in DOMAIN new : new[i].offset < SnapshotEnd
        /\ new # <<>> => NewOk(new) /\ log' = With(h, Appended(k, new)) /\ Followed(h) \subseteq flawed'
        /\ new = <<>> => log' = log
    BY <1>1, <1>10, <2>1, AppendPageMeans
  <2>3. CASE new = <<>> BY <1>1, <2>2, <2>3, SameReads
  <2>4. CASE new # <<>>
    <3>1. from # Beginning
      <4>1. from = Beginning => h \in Followed(h) BY DEF Followed
      <4> QED BY <2>2, <2>4, <4>1 DEF Good
    <3>2. ~(from < SnapshotEnd)
      <4>1. x \in Snapshotting(h) BY <1>10, <2>2 DEF Snapshotting
      <4> QED BY <1>3, <1>4, <1>5, <3>1, <4>1 DEF Beyond, Beginning
    <3>3. l = Appended(k, new) BY <2>2, <2>4, WithMeans
    <3>4. l.last = k.last \/ \E i \in DOMAIN new : l.last = new[i].offset BY <1>2, <2>2, <2>4, <3>3, LastMeans
    <3>5. l.last \in Int BY <1>2, <2>2, <2>4, <3>3, LastMeans
    <3>6. l.last < SnapshotEnd BY <1>7, <2>2, <3>4
    <3> QED BY <1>3, <3>2, <3>5, <3>6, SnapshotEndNat
  <2> QED BY <2>3, <2>4
<1> QED BY <1>1, <1>8, <1>9, <1>10, LogSteps

\* A request that is woken is served what it waited for.
LEMMA NotifiedServes ==
    ASSUME ReplicaInv, NoLostWakeup, Next, NEW c \in Requests, NEW h \in Handles, Notified(c, h),
           NEW s, StreamOk(s), Behind(s.handle, s.offset), Serves(req[c], s), NEW t, t = req'[c]
    PROVE  Serves(t, s)'
<1> USE DEF ReplicaInv
<1>1. PICK p, from, l, R : p = req[c] /\ from = p.from /\ l = Read(h)' /\ R = replica OBVIOUS
<1>2. PICK a, o, ms : a = Ok(h, After(l.messages, from), l.last, TRUE) /\ o = l.last /\ ms = After(l.messages, from) OBVIOUS
<1>3. UNCHANGED file BY DEF Notified
<1>4. replica' = replica /\ cursor' = cursor /\ leftover' = leftover BY <1>3 DEF file
<1>5. p.pc = "waiting" /\ p.handle = h /\ from < l.last /\ t = Answered(a) BY <1>1, <1>2 DEF Notified, Messages
<1>6. ReqOk(p) /\ Fit(p, h) /\ Steady(h) BY <1>1, <1>5, SteadyAll, FitMeans DEF NodeInv, Types, ReqsOk
<1>7. from \in Int /\ Beginning <= from BY <1>1, <1>6 DEF ReqOk
<1>8. t.pc = "answered" /\ t.answer = a BY <1>5 DEF Answered, Idle
<1>9. AnswerOk(a)
  <2>1. ReqOk(t) BY TypesKept DEF Types, ReqsOk
  <2> QED BY <1>8, <2>1 DEF ReqOk
<1>10. a.status = "ok" /\ a.handle = h /\ a.offset = o /\ a.messages = ms BY <1>2 DEF Ok, Answer
<1>11. o \in Int /\ ms \in Seq(Message) BY <1>9, <1>10 DEF AnswerOk
<1>12. from <= o /\ o # Beginning BY <1>2, <1>5, <1>7, <1>11 DEF Beginning
<1>13. Waits(h, from, s, R) BY <1>1, <1>5 DEF Serves
<1>14. Beyond(h, from) /\ (Good(h) => h \in registry) BY <1>1, <1>5, <1>6 DEF Fit
<1>15. Waits(h, from, s, R)' BY <1>4, <1>7, <1>13, <1>14, WaitsKept
<1>16. h = s.handle /\ s.offset \in Int /\ s.offset <= from BY <1>13 DEF Waits, StreamOk
<1>17. Behind(h, from) BY <1>7, <1>16, BehindLater
<1>18. CASE Good(h)'
  <2>1. LogOk(l) BY <1>1, <1>6, <1>18 DEF Steady, Holds
  <2>2. ~(from < l.cut) BY <1>1, <1>5, <1>18, WakerIsNew
  <2>3. Lost(h, from)' \/ Claim(h, from, R)' BY <1>15 DEF Waits
  <2>4. Good(h)' /\ from < SnapshotEnd => NoRows(h, from)'
    <3>1. CASE from = Beginning
      <4>1. h \in Followed(h) BY <1>1, <1>5, <3>1 DEF Followed
      <4>2. PICK b \in Int : b = Beginning /\ Beginning' = Beginning BY DEF Beginning
      <4>3. Good(h) BY <1>6, <1>18, SteadyMeans
      <4>4. NoRows(h, b) BY <1>1, <1>5, <1>6, <3>1, <4>2, <4>3 DEF Fit
      <4>5. NoRows(h, b)' BY <1>18, <4>1, <4>2, <4>4, RowsAll DEF RowsKept
      <4> QED BY <3>1, <4>2, <4>5
    <3>2. CASE from # Beginning
      <4>1. Beyond(h, from)' BY <1>6, <1>7, <1>14, SnapsAll, RowsAll, BeyondKept
      <4> QED BY <1>7, <3>2, <4>1 DEF Beyond, SnapshotEnd, Beginning
    <3> QED BY <3>1, <3>2
  <2>5. t = Reply(p, a) \/ t = Answered(a) BY <1>5
  <2>6. ReqOk(p) /\ h = p.handle /\ l = Read(h)' /\ R = replica /\ a = Ok(h, After(l.messages, from), o, TRUE)
    BY <1>1, <1>2, <1>5, <1>6
  <2> QED BY <1>3, <1>7, <1>9, <1>11, <1>12, <1>16, <1>17, <2>1, <2>2, <2>3, <2>4, <2>5, <2>6, RestServes
<1>19. CASE ~Good(h)'
  <2>1. PICK S : S = Replay(R, ms) OBVIOUS
  <2>2. Position(h, o, S)' BY <1>19 DEF Position, Lost
  <2>3. Behind(h, o)'
    <3>1. Behind(h, o) BY <1>7, <1>11, <1>12, <1>17, BehindLater
    <3> QED BY <1>4, <3>1, BehindKept
  <2>4. CursorGone' BY <1>19, <2>3 DEF Behind, CursorGone, Lost
  <2>5. Answers(h, o, ms, S)' BY <1>12, <2>2, <2>3, <2>4 DEF Answers, Ahead, Beginning
  <2>6. S = Replay(replica', ms) BY <1>1, <1>4, <2>1
  <2> QED BY <1>8, <1>10, <2>5, <2>6, ServesMeansNext
<1> QED BY <1>18, <1>19

\* Every step of the node serves the client whose request is under way.
LEMMA CallsServe ==
    ASSUME ReplicaInv, Next, NEW c \in Requests, Calls(c) \/ AppendPage(c), UNCHANGED file,
           NEW s, StreamOk(s), Standing(s.handle, s.offset, replica), Behind(s.handle, s.offset), Serves(req[c], s),
           NEW t, t = req'[c]
    PROVE  Serves(t, s)'
<1> USE DEF ReplicaInv
<1>1. PICK p : p = req[c] OBVIOUS
<1>2. ReqOk(p) /\ Serves(p, s) BY <1>1 DEF Types, ReqsOk
<1>3. CASE Ensure(c) BY <1>3, EnsureServes
<1>4. CASE StartSnapshot(c)
  <2>1. p.pc = "new" /\ p.handle \in Handles BY <1>1, <1>2, <1>4 DEF StartSnapshot, At, ReqOk, Busy
  <2>2. t.pc = "fetch" /\ \A f \in Fields \ {"pc"} : t[f] = p[f] BY <1>1, <1>4, <2>1, GotoOk DEF StartSnapshot
  <2>3. t.handle = p.handle /\ t.live = p.live BY <2>2 DEF Fields
  <2>4. p.pc \in Starting /\ t.pc \in Starting BY <2>1, <2>2 DEF Starting
  <2> QED BY <1>2, <2>3, <2>4, EarlyServes
<1>5. CASE Rejoin(c)
  <2>1. p.pc = "rejoin" /\ p.handle \in Handles BY <1>1, <1>2, <1>5 DEF Rejoin, At, ReqOk, Busy
  <2>2. t.pc = "settle" /\ \A f \in Fields \ {"pc"} : t[f] = p[f] BY <1>1, <1>5, <2>1, GotoOk DEF Rejoin
  <2>3. t.handle = p.handle /\ t.live = p.live BY <2>2 DEF Fields
  <2>4. p.pc \in Starting /\ t.pc \in Starting BY <2>1, <2>2 DEF Starting
  <2> QED BY <1>2, <2>3, <2>4, EarlyServes
<1>6. CASE Fetches(c)
  <2>1. /\ p.pc = "fetch" /\ t.pc \in {"settle", "append"} /\ t.handle = p.handle /\ t.live = p.live
    BY <1>1, <1>6, FetchesMeans
  <2>2. p.pc \in Starting /\ t.pc \in Starting BY <2>1 DEF Starting
  <2> QED BY <1>2, <2>1, <2>2, EarlyServes
<1>7. CASE AppendPage(c)
  <2>1. /\ p.pc = "append" /\ t.pc \in {"settle", "fetch"} /\ t.handle = p.handle /\ t.live = p.live
    BY <1>1, <1>7, AppendPageMeans
  <2>2. p.pc \in Starting /\ t.pc \in Starting BY <2>1 DEF Starting
  <2> QED BY <1>2, <2>1, <2>2, EarlyServes
<1>8. CASE Settle(c) BY <1>8, SettleServes
<1>9. CASE Resume(c) BY <1>9, ResumeServes
<1>10. CASE ReadLog(c) BY <1>10, ReadLogServes
<1>11. CASE AwaitLog(c) BY <1>11, AwaitLogServes
<1>12. CASE Timeout(c) BY <1>12, TimeoutServes
<1> QED BY <1>3, <1>4, <1>5, <1>6, <1>7, <1>8, <1>9, <1>10, <1>11, <1>12 DEF Calls

\* Whatever the node does, the request of the client is served on.
LEMMA ServedOn ==
    ASSUME ReplicaInv, NoLostWakeup, Next, ~ClientStep, NEW s, s = stream[Sync], s # None, NEW c, c = s.request, c # None,
           NEW t, t = req'[c]
    PROVE  Serves(t, s)'
<1> USE DEF ReplicaInv
<1>1. UNCHANGED file
  <2>1. UNCHANGED <<streamVars, file>> BY NextCases
  <2> QED BY <2>1
<1>2. StreamOk(s) /\ Standing(s.handle, s.offset, Hand) /\ Behind(s.handle, s.offset) /\ Serves(req[c], s) /\ batch[Sync] = None
  BY DEF StreamFits, BatchFits
<1>3. Standing(s.handle, s.offset, replica) BY <1>2 DEF Hand
<1>4. c \in Requests BY <1>2 DEF StreamOk
<1>5. CASE req'[c] = req[c]
  <2>1. PICK h : h = t.handle OBVIOUS
  <2>2. t = req[c] BY <1>5
  <2>3. ReqOk(t) /\ Fit(t, h) /\ Serves(t, s) BY <1>2, <1>4, <2>1, <2>2, FitMeans DEF NodeInv, Types, ReqsOk
  <2> QED BY <1>1, <2>1, <2>3, ServesStays
<1>6. CASE Calls(c) \/ AppendPage(c) BY <1>1, <1>2, <1>3, <1>4, <1>6, CallsServe
<1>7. CASE req'[c] = Answered(Failed)
  <2>1. t.pc = "answered" /\ t.answer.status = "error" BY <1>7, FailedOk, AnsweredOk
  <2> QED BY <2>1, ServesMeansNext
<1>8. CASE \E h \in Handles : Notified(c, h) BY <1>2, <1>4, <1>8, NotifiedServes
<1>9. \/ req'[c] = req[c]
      \/ Calls(c) \/ AppendPage(c)
      \/ req'[c] = Answered(Failed)
      \/ \E h \in Handles : Notified(c, h)
      \/ ClientStep \/ Ask(Sync)
  BY <1>4, ReqSteps
<1> QED BY <1>5, <1>6, <1>7, <1>8, <1>9 DEF ClientStep

\* The state of the client after a step.
LEMMA StreamFitsNext ==
    ASSUME NEW s, s = stream'[Sync], s # None, StreamOk(s), NEW h, NEW o, NEW R, NEW b,
           h = s.handle, o = s.offset, R = Hand', b = batch'[Sync],
           Beyond(h, o)', Standing(h, o, R)', Behind(h, o)', b # None => BatchFits(b)',
           s.request # None => \E t : t = req'[s.request] /\ Serves(t, s)'
    PROVE  StreamFits'
<1>1. s = stream[Sync]' /\ b = batch[Sync]' OBVIOUS
<1>2. StreamOk(stream[Sync])' BY <1>1 DEF StreamOk, Handles, Beginning
<1>3. Beyond(stream[Sync].handle, stream[Sync].offset)' BY <1>1
<1>4. Standing(stream[Sync].handle, stream[Sync].offset, Hand)' BY <1>1
<1>5. Behind(stream[Sync].handle, stream[Sync].offset)' BY <1>1
<1>6. (batch[Sync] # None)' => BatchFits(batch[Sync])' BY <1>1
<1>7. (stream[Sync].request # None)' => Serves(req[stream[Sync].request], stream[Sync])'
  <2>1. SUFFICES ASSUME s.request # None PROVE Serves(req[stream[Sync].request], stream[Sync])' BY <1>1
  <2>2. PICK t : t = req'[s.request] /\ Serves(t, s)' BY <2>1
  <2>3. t = req[stream[Sync].request]' BY <1>1, <2>2
  <2> QED BY <1>1, <2>2, <2>3
<1> QED BY <1>1, <1>2, <1>3, <1>4, <1>5, <1>6, <1>7 DEF StreamFits

LEMMA BatchFitsKept ==
    ASSUME ReplicaInv, Next, cursor' = cursor, NEW b, BatchFits(b), stream'[Sync] = stream[Sync]
    PROVE  BatchFits(b)'
<1>1. PICK ms : ms = b.changes OBVIOUS
<1>2. ms \in Seq(Message) /\ Ahead(ms) BY <1>1 DEF BatchFits, Batches
<1>3. Ahead(ms)' BY <1>2, AheadKept
<1>4. CursorGone => CursorGone' BY GoneKept
<1>5. b \in Batches <=> (b \in Batches)' BY DEF Batches, Message, Values, Project, NoFilter
<1> QED BY <1>1, <1>3, <1>4 DEF BatchFits, Batches

\* The node leaves the client as it is.
LEMMA NodeKeepsClient ==
    ASSUME ReplicaInv, NoLostWakeup, Next, ~ClientStep
    PROVE  ClientOk' /\ CursorFits' /\ StreamFits'
<1> USE DEF ReplicaInv
<1>1. UNCHANGED <<stream, batch, replica, cursor, leftover>> /\ UNCHANGED file
  <2>1. UNCHANGED <<streamVars, file>> BY NextCases
  <2> QED BY <2>1 DEF streamVars, file
<1>2. ClientOk' BY <1>1 DEF ClientOk, Values, Project, NoFilter, Streams, Handles
<1>3. CursorFits' BY <1>1, CursorFitsKept
<1>4. CASE stream[Sync] = None BY <1>1, <1>2, <1>3, <1>4 DEF StreamFits
<1>5. CASE stream[Sync] # None
  <2>1. PICK s, h, o, R, b : s = stream[Sync] /\ h = s.handle /\ o = s.offset /\ R = Hand /\ b = batch[Sync] OBVIOUS
  <2>2. /\ StreamOk(s) /\ Beyond(h, o) /\ Standing(h, o, R) /\ Behind(h, o)
        /\ b # None => BatchFits(b)
    BY <1>5, <2>1 DEF StreamFits
  <2>3. o \in Int /\ Beginning <= o BY <2>1, <2>2 DEF StreamOk
  <2>4. R = Hand' BY <1>1, <2>1 DEF Hand, Replay, Empty
  <2>5. Beyond(h, o)' BY <2>2, <2>3, SteadyAll, SnapsAll, RowsAll, BeyondKept
  <2>6. Standing(h, o, R)' BY <1>1, <2>2, <2>3, StandingKept
  <2>7. Behind(h, o)' BY <1>1, <2>2, BehindKept
  <2>8. b # None => BatchFits(b)' BY <1>1, <2>2, BatchFitsKept
  <2>9. s.request # None => \E t : t = req'[s.request] /\ Serves(t, s)'
    <3>1. SUFFICES ASSUME s.request # None PROVE \E t : t = req'[s.request] /\ Serves(t, s)' OBVIOUS
    <3>2. PICK c, t : c = s.request /\ t = req'[c] OBVIOUS
    <3>3. Serves(t, s)' BY <1>5, <2>1, <3>1, <3>2, ServedOn
    <3> QED BY <3>2, <3>3
  <2>10. s = stream'[Sync] /\ s # None /\ b = batch'[Sync] BY <1>1, <1>5, <2>1
  <2>11. StreamFits' BY <2>1, <2>2, <2>4, <2>5, <2>6, <2>7, <2>8, <2>9, <2>10, StreamFitsNext
  <2> QED BY <1>2, <1>3, <2>11
<1> QED BY <1>4, <1>5

(***************************************************************************)
(* The steps of the client.                                                *)
(***************************************************************************)
\* A step of the client leaves the logs and the table alone.
LEMMA ClientSame ==
    ASSUME ClientStep, NEW h
    PROVE  /\ \A o : Lost(h, o)' <=> Lost(h, o)
           /\ \A r, o : Has(h, r, o)' <=> Has(h, r, o)
           /\ \A r : Coming(h, r)' <=> Coming(h, r)
           /\ table' = table
<1>1. /\ UNCHANGED <<log, registry, flawed>> /\ UNCHANGED <<table, wal, next, work, gone>>
      /\ Read(h)' = Read(h)
  BY ClientQuiet DEF Quiet
<1>2. \A o : Lost(h, o)' <=> Lost(h, o) BY <1>1 DEF Lost, Good
<1>3. \A r, o : Has(h, r, o)' <=> Has(h, r, o) BY <1>1, StillMeans
<1>4. \A r : Coming(h, r)' <=> Coming(h, r) BY <1>1, SameComing
<1> QED BY <1>1, <1>2, <1>3, <1>4

\* A copy that differs only where the log still tells the row.
LEMMA PositionMoves ==
    ASSUME ClientStep, NEW h, NEW o, NEW R, NEW P, Position(h, o, R),
           \A r \in Rows : Has(h, r, o) \/ (P[r] = R[r] /\ (leftover /\ R[r] # None => leftover'))
    PROVE  Position(h, o, P)'
<1>1. /\ Lost(h, o)' <=> Lost(h, o)
      /\ \A r, p : Has(h, r, p)' <=> Has(h, r, p)
      /\ \A r : Coming(h, r)' <=> Coming(h, r)
      /\ table' = table
  BY ClientSame
<1>2. Beginning' = Beginning BY DEF Beginning
<1>3. CASE Lost(h, o) BY <1>1, <1>3 DEF Position
<1>4. CASE ~Lost(h, o) /\ o = Beginning
  <2>1. Fresh(h, R) BY <1>4 DEF Position
  <2>2. PICK b : b = Beginning /\ b = Beginning' BY <1>2
  <2>3. ASSUME NEW r \in Rows, P[r] # None PROVE leftover' \/ Has(h, r, b)'
    <3>1. CASE Has(h, r, o) BY <1>1, <1>4, <2>2, <3>1
    <3>2. CASE ~Has(h, r, o)
      <4>1. P[r] = R[r] /\ (leftover /\ R[r] # None => leftover') BY <3>2
      <4>2. leftover BY <1>4, <2>1, <2>3, <3>2, <4>1 DEF Fresh
      <4> QED BY <2>3, <4>1, <4>2
    <3> QED BY <3>1, <3>2
  <2>4. Fresh(h, P)' BY <2>2, <2>3 DEF Fresh
  <2> QED BY <1>2, <1>4, <2>4 DEF Position
<1>5. CASE ~Lost(h, o) /\ o # Beginning
  <2>1. Claim(h, o, R) BY <1>5 DEF Position
  <2>2. ASSUME NEW r \in Rows, ~Has(h, r, o)', ~Coming(h, r)'
        PROVE  P[r] = Seen(table'[r]) \/ (leftover' /\ P[r] # None)
    <3>1. ~Has(h, r, o) /\ ~Coming(h, r) BY <1>1, <2>2
    <3>2. P[r] = R[r] /\ (leftover /\ R[r] # None => leftover') BY <3>1
    <3>3. R[r] = Seen(table[r]) \/ (leftover /\ R[r] # None) BY <2>1, <3>1 DEF Claim
    <3> QED BY <1>1, <3>2, <3>3
  <2>3. Claim(h, o, P)' BY <2>2, ClaimMeans
  <2> QED BY <1>2, <1>5, <2>3 DEF Position
<1> QED BY <1>3, <1>4, <1>5

\* Every step of the client keeps what it relies on: a request is sent.
LEMMA AskKeepsClient ==
    ASSUME ReplicaInv, Next, Ask(Sync), UNCHANGED file
    PROVE  ClientOk' /\ StreamFits'
<1> USE DEF ReplicaInv
<1>1. PICK s, h, o, live, R : s = stream[Sync] /\ h = s.handle /\ o = s.offset /\ live = s.upToDate /\ R = replica OBVIOUS
<1>2. s # None /\ batch[Sync] = None /\ s.request = None BY <1>1, AskMeans
<1>3. PICK c \in Requests :
         /\ stream' = [stream EXCEPT ![Sync].request = c]
         /\ req'[c].pc = (IF o = Beginning THEN "ensure" ELSE "resume")
         /\ req'[c].handle = h /\ req'[c].from = o /\ req'[c].live = live
  BY <1>1, AskMeans
<1>4. replica' = replica /\ cursor' = cursor /\ leftover' = leftover /\ batch' = batch BY DEF file, Ask
<1>5. s \in Streams BY <1>1, <1>2 DEF ClientOk
<1>6. PICK n : n = [s EXCEPT !.request = c] OBVIOUS
<1>7. n \in Streams /\ n.handle = h /\ n.offset = o /\ n.upToDate = live /\ n.request = c BY <1>1, <1>5, <1>6 DEF Streams
<1>8. stream'[Sync] = n /\ DOMAIN stream' = Clients BY <1>1, <1>3, <1>6, SyncAssumption DEF ClientOk
<1>9. ClientOk' BY <1>4, <1>7, <1>8 DEF ClientOk, Values, Project, NoFilter, Streams, Handles
<1>10. StreamOk(s) /\ Beyond(h, o) /\ Standing(h, o, R) /\ Behind(h, o) BY <1>1, <1>2 DEF StreamFits, Hand
<1>11. o \in Int /\ Beginning <= o BY <1>1, <1>10 DEF StreamOk
<1>12. StreamOk(n) BY <1>1, <1>7, <1>10 DEF StreamOk
<1>13. Beyond(h, o)' BY <1>10, <1>11, SteadyAll, SnapsAll, RowsAll, BeyondKept
<1>14. Standing(h, o, R)' BY <1>4, <1>10, <1>11, StandingKept
<1>15. Behind(h, o)' BY <1>4, <1>10, BehindKept
<1>16. PICK t : t = req'[c] OBVIOUS
<1>17. Serves(t, n)'
  <2>1. CASE o = Beginning
    <3>1. t.pc = "ensure" /\ h = t.handle /\ live = t.live /\ R = replica' BY <1>1, <1>3, <1>4, <1>16, <2>1
    <3>2. live => h # None BY <1>1, <1>10 DEF StreamOk
    <3>3. Early(h, n, live, R)' BY <1>7, <1>14, <2>1, <3>2 DEF Early, Beginning
    <3> QED BY <3>1, <3>3, ServesMeansNext
  <2>2. CASE o # Beginning
    <3>1. t.pc = "resume" /\ t.handle = n.handle /\ t.from = n.offset BY <1>3, <1>7, <1>16, <2>2
    <3> QED BY <3>1, ServesMeansNext
  <2> QED BY <2>1, <2>2
<1>18. Hand' = R BY <1>1, <1>2, <1>4 DEF Hand
<1>19. n # None BY <1>7, StreamAssumption
<1>20. batch'[Sync] = None BY <1>2, <1>4
<1>21. StreamFits' BY <1>7, <1>8, <1>12, <1>13, <1>14, <1>15, <1>16, <1>17, <1>18, <1>19, <1>20, StreamFitsNext
<1> QED BY <1>9, <1>21

LEMMA ClientOkNext ==
    ASSUME DOMAIN stream' = Clients, DOMAIN batch' = Clients, replica' \in [Rows -> Values \cup {None}],
           stream'[Sync] \in Streams \cup {None}
    PROVE  ClientOk'
BY DEF ClientOk, Values, Project, NoFilter, Streams, Handles

LEMMA BatchFitsNext ==
    ASSUME NEW b \in Batches, stream'[Sync].handle # None, stream'[Sync].request = None,
           NEW ms, ms = b.changes, Ahead(ms)',
           "must-refetch" \in b.control => b.changes = <<>> /\ "up-to-date" \notin b.control /\ CursorGone'
    PROVE  BatchFits(b)'
<1>1. (b \in Batches)' BY DEF Batches, Message, Values, Project, NoFilter
<1>2. Ahead(b.changes)' OBVIOUS
<1> QED BY <1>1, <1>2 DEF BatchFits

\* What the subscriber gets of an answer, and where the stream moves.
LEMMA BatchMeans ==
    ASSUME NEW a, AnswerOk(a)
    PROVE  /\ a.status = "error" => Batch(a) = None
           /\ a.status = "must-refetch" =>
                /\ Batch(a) \in Batches /\ Batch(a).changes = <<>> /\ Batch(a).control = {"must-refetch"}
           /\ a.status = "ok" =>
                \/ Batch(a) = None /\ a.messages = <<>>
                \/ Batch(a) \in Batches /\ Batch(a).changes = a.messages /\ "must-refetch" \notin Batch(a).control
<1>1. a.messages \in Seq(Message) /\ a.upToDate \in BOOLEAN BY DEF AnswerOk
<1>2. <<>> \in Seq(Message) BY EmptySeq
<1>3. CASE a.status = "error" BY <1>3 DEF Batch
<1>4. CASE a.status = "must-refetch"
  <2>1. Batch(a) = [control |-> {"must-refetch"}, changes |-> <<>>] BY <1>4 DEF Batch
  <2>2. Batch(a) \in Batches BY <1>2, <2>1 DEF Batches
  <2> QED BY <1>4, <2>1, <2>2
<1>5. CASE a.status = "ok" /\ a.upToDate
  <2>1. Batch(a) = [control |-> {"up-to-date"}, changes |-> a.messages] BY <1>5 DEF Batch
  <2>2. Batch(a) \in Batches BY <1>1, <2>1 DEF Batches
  <2> QED BY <1>5, <2>1, <2>2
<1>6. CASE a.status = "ok" /\ ~a.upToDate
  <2>1. CASE a.messages = <<>>
    <3>1. Batch(a) = None BY <1>6, <2>1 DEF Batch
    <3> QED BY <1>6, <2>1, <3>1
  <2>2. CASE a.messages # <<>>
    <3>1. Batch(a) = [control |-> {}, changes |-> a.messages] BY <1>6, <2>2 DEF Batch
    <3>2. Batch(a) \in Batches BY <1>1, <3>1 DEF Batches
    <3> QED BY <1>6, <3>1, <3>2
  <2> QED BY <2>1, <2>2
<1> QED BY <1>3, <1>4, <1>5, <1>6 DEF AnswerOk

LEMMA MovedMeans ==
    ASSUME NEW a, AnswerOk(a), NEW s \in Streams, StreamOk(s), NEW n, n = Moved(s, a)
    PROVE  /\ n \in Streams /\ StreamOk(n) /\ n.request = None
           /\ a.status = "error" => n.handle = s.handle /\ n.offset = s.offset
           /\ a.status # "error" => n.handle = a.handle /\ n.offset = a.offset /\ n.handle # None
<1>1. CASE a.status = "error"
  <2>1. n = [s EXCEPT !.request = None] BY <1>1 DEF Moved
  <2>2. /\ n \in Streams /\ n.request = None /\ n.handle = s.handle /\ n.offset = s.offset /\ n.upToDate = s.upToDate
    BY <2>1 DEF Streams
  <2> QED BY <1>1, <2>2 DEF StreamOk
<1>2. CASE a.status # "error"
  <2>1. n = [handle |-> a.handle, offset |-> a.offset, upToDate |-> a.upToDate, request |-> None] BY <1>2 DEF Moved
  <2>2. a.handle \in Handles /\ a.offset \in Int /\ Beginning <= a.offset /\ a.upToDate \in BOOLEAN
    BY <1>2 DEF AnswerOk
  <2>3. a.handle # None BY <2>2, ShapeAssumption DEF Handles
  <2>4. n \in Streams BY <2>1, <2>2 DEF Streams
  <2>5. StreamOk(n) BY <2>1, <2>2, <2>3 DEF StreamOk
  <2> QED BY <1>2, <2>1, <2>3, <2>4, <2>5
<1> QED BY <1>1, <1>2

\* An answer is taken.
LEMMA TakeKeepsClient ==
    ASSUME ReplicaInv, Next, Take(Sync), UNCHANGED file
    PROVE  ClientOk' /\ StreamFits'
<1> USE DEF ReplicaInv
<1>1. PICK s, c, a, R : s = stream[Sync] /\ c = s.request /\ a = req[c].answer /\ R = replica OBVIOUS
<1>2. /\ s # None /\ c \in Requests /\ req[c].pc = "answered" /\ AnswerOk(a) /\ batch[Sync] = None
      /\ stream' = [stream EXCEPT ![Sync] = Moved(s, a)]
      /\ batch' = [batch EXCEPT ![Sync] = Batch(a)]
  BY <1>1, TakeMeans
<1>3. replica' = R /\ cursor' = cursor /\ leftover' = leftover BY <1>1 DEF file
<1>4. s \in Streams BY <1>1, <1>2 DEF ClientOk
<1>5. c # None BY <1>2, StreamAssumption
<1>6. StreamOk(s) /\ Serves(req[c], s) /\ Standing(s.handle, s.offset, R) /\ Behind(s.handle, s.offset)
      /\ Beyond(s.handle, s.offset)
  BY <1>1, <1>2, <1>5 DEF StreamFits, Hand
<1>7. PICK n, b, h, o : n = Moved(s, a) /\ b = Batch(a) /\ h = n.handle /\ o = n.offset OBVIOUS
<1>8. n \in Streams /\ StreamOk(n) /\ n.request = None BY <1>2, <1>4, <1>6, <1>7, MovedMeans
<1>9. n # None BY <1>8, StreamAssumption
<1>10. stream'[Sync] = n /\ batch'[Sync] = b /\ DOMAIN stream' = Clients /\ DOMAIN batch' = Clients
  BY <1>2, <1>7, SyncAssumption DEF ClientOk
<1>11. R \in [Rows -> Values \cup {None}] BY <1>1 DEF ClientOk
<1>12. ClientOk' BY <1>3, <1>8, <1>10, <1>11, ClientOkNext
<1>13. o \in Int /\ Beginning <= o BY <1>7, <1>8 DEF StreamOk
<1>14. CASE a.status = "error"
  <2>1. b = None /\ h = s.handle /\ o = s.offset BY <1>2, <1>4, <1>6, <1>7, <1>14, BatchMeans, MovedMeans
  <2>2. Hand' = R BY <1>3, <1>10, <2>1 DEF Hand
  <2>3. Beyond(h, o) /\ Standing(h, o, R) /\ Behind(h, o) BY <1>6, <2>1
  <2>4. Beyond(h, o)' BY <1>13, <2>3, SteadyAll, SnapsAll, RowsAll, BeyondKept
  <2>5. Standing(h, o, R)' BY <1>3, <1>13, <2>3, StandingKept
  <2>6. Behind(h, o)' BY <1>3, <2>3, BehindKept
  <2> QED BY <1>7, <1>8, <1>9, <1>10, <2>1, <2>2, <2>4, <2>5, <2>6, <1>12, StreamFitsNext
<1>15. CASE a.status = "must-refetch"
  <2>1. /\ b \in Batches /\ b.changes = <<>> /\ b.control = {"must-refetch"} /\ b # None
        /\ h = a.handle /\ o = a.offset /\ h # None /\ o = Beginning
    BY <1>2, <1>4, <1>6, <1>7, <1>15, BatchMeans, MovedMeans, StreamAssumption DEF AnswerOk
  <2>2. PICK E : E = Empty /\ Empty' = E BY DEF Empty
  <2>3. Hand' = E BY <1>10, <2>1, <2>2 DEF Hand
  <2>4. CursorGone' BY <1>2, <1>3, <1>6, <1>15, GoneKept, <1>1 DEF Serves
  <2>5. Beyond(h, o)' BY <2>1 DEF Beyond, Beginning
  <2>6. Behind(h, o)' BY <2>4 DEF Behind
  <2>7. Fresh(h, E)' BY <2>2 DEF Fresh, Empty
  <2>8. o = Beginning' BY <2>1 DEF Beginning
  <2>9. Standing(h, o, E)' BY <2>1, <2>7, <2>8 DEF Standing, Position
  <2>10. PICK ms : ms = b.changes OBVIOUS
  <2>11. Ahead(ms)' BY <2>4 DEF Ahead
  <2>12. BatchFits(b)' BY <1>7, <1>8, <1>10, <2>1, <2>4, <2>10, <2>11, BatchFitsNext
  <2> QED BY <1>7, <1>8, <1>9, <1>10, <2>3, <2>5, <2>6, <2>9, <2>12, <1>12, StreamFitsNext
<1>16. CASE a.status = "ok"
  <2>1. PICK ms, S : ms = a.messages /\ S = Replay(R, ms) OBVIOUS
  <2>2. ms \in Seq(Message) BY <1>2, <2>1 DEF AnswerOk
  <2>3. /\ h = a.handle /\ o = a.offset /\ h # None
        /\ \/ b = None /\ ms = <<>>
           \/ b \in Batches /\ b.changes = ms /\ "must-refetch" \notin b.control /\ b # None
    BY <1>2, <1>4, <1>6, <1>7, <1>16, <2>1, BatchMeans, MovedMeans, StreamAssumption
  <2>4. Answers(a.handle, a.offset, a.messages, Replay(replica, a.messages)) BY <1>1, <1>2, <1>6, <1>16 DEF Serves
  <2>5. Replay(replica, a.messages) = S BY <1>1, <2>1
  <2>6. Answers(h, o, ms, S) BY <2>1, <2>3, <2>4, <2>5
  <2>7. Beyond(h, o) BY <1>1, <1>2, <1>16, <2>3 DEF NodeInv, ReqFits
  <2>8. Answers(h, o, ms, S)' BY <1>3, <1>13, <2>2, <2>6, <2>7, AnswersKept
  <2>9. Beyond(h, o)' BY <1>13, <2>7, SteadyAll, SnapsAll, RowsAll, BeyondKept
  <2>10. Position(h, o, S)' /\ Behind(h, o)' /\ Ahead(ms)' BY <2>8 DEF Answers
  <2>11. Standing(h, o, S)' BY <2>3, <2>10 DEF Standing
  <2>12. Hand' = S
    <3>1. CASE b = None
      <4>1. ms = <<>> BY <2>3, <3>1, StreamAssumption
      <4>2. S = R BY <1>11, <2>1, <4>1, ReplayNothing
      <4>3. Hand' = replica' BY <1>10, <3>1 DEF Hand
      <4> QED BY <1>3, <4>2, <4>3
    <3>2. CASE b # None
      <4>1. b.changes = ms /\ "must-refetch" \notin b.control BY <2>3, <3>2
      <4>2. Hand' = Replay(replica, batch[Sync].changes)' BY <1>10, <3>2, <4>1 DEF Hand
      <4>3. batch'[Sync].changes = ms /\ replica' = R BY <1>3, <1>10, <4>1
      <4>4. Replay(replica, batch[Sync].changes)' = Replay(R, ms) BY <4>3 DEF Replay
      <4> QED BY <2>1, <4>2, <4>4
    <3> QED BY <3>1, <3>2
  <2>13. ASSUME b # None PROVE BatchFits(b)'
    <3>1. b \in Batches /\ ms = b.changes /\ "must-refetch" \notin b.control BY <2>3, <2>13
    <3>2. stream'[Sync].handle # None /\ stream'[Sync].request = None BY <1>7, <1>8, <1>10, <2>3
    <3> QED BY <2>10, <3>1, <3>2, BatchFitsNext
  <2> QED BY <1>7, <1>8, <1>9, <1>10, <2>9, <2>10, <2>11, <2>12, <2>13, <1>12, StreamFitsNext
<1> QED BY <1>2, <1>14, <1>15, <1>16 DEF AnswerOk

\* A client that keeps its place in the stream.
LEMMA PlaceKept ==
    ASSUME ReplicaInv, Next, UNCHANGED file, NEW s, s = stream[Sync], s # None, NEW h, NEW o, NEW R,
           h = s.handle, o = s.offset, R = Hand, NEW n, n = stream'[Sync],
           n = s \/ n = [s EXCEPT !.request = None], NEW b, b = batch[Sync], b = batch'[Sync],
           n.request # None => \E t : t = req'[n.request] /\ Serves(t, n)',
           b # None => n = s, DOMAIN stream' = Clients, DOMAIN batch' = Clients
    PROVE  ClientOk' /\ StreamFits'
<1> USE DEF ReplicaInv
<1>1. replica' = replica /\ cursor' = cursor /\ leftover' = leftover BY DEF file
<1>2. s \in Streams BY DEF ClientOk
<1>3. /\ StreamOk(s) /\ Beyond(h, o) /\ Standing(h, o, R) /\ Behind(h, o)
      /\ b # None => BatchFits(b)
  BY DEF StreamFits
<1>4. n \in Streams /\ n.handle = h /\ n.offset = o /\ n.upToDate = s.upToDate /\ n.request \in {s.request, None}
  BY <1>2 DEF Streams
<1>5. n # None BY <1>4, StreamAssumption
<1>6. StreamOk(n) BY <1>3, <1>4 DEF StreamOk
<1>7. o \in Int /\ Beginning <= o BY <1>3 DEF StreamOk
<1>8. ClientOk'
  <2>1. replica' \in [Rows -> Values \cup {None}] BY <1>1 DEF ClientOk
  <2> QED BY <1>4, <2>1, ClientOkNext
<1>9. R = Hand' BY <1>1 DEF Hand, Replay, Empty
<1>10. Beyond(h, o)' BY <1>3, <1>7, SteadyAll, SnapsAll, RowsAll, BeyondKept
<1>11. Standing(h, o, R)' BY <1>1, <1>3, <1>7, StandingKept
<1>12. Behind(h, o)' BY <1>1, <1>3, BehindKept
<1>13. b # None => BatchFits(b)' BY <1>1, <1>3, BatchFitsKept
<1>14. StreamFits' BY <1>4, <1>5, <1>6, <1>9, <1>10, <1>11, <1>12, <1>13, StreamFitsNext
<1> QED BY <1>8, <1>14

\* The connection is lost.
LEMMA DisconnectKeepsClient ==
    ASSUME ReplicaInv, Next, Disconnect(Sync), UNCHANGED file
    PROVE  ClientOk' /\ StreamFits'
<1> USE DEF ReplicaInv
<1>1. PICK s, h, o, R, b : s = stream[Sync] /\ h = s.handle /\ o = s.offset /\ R = Hand /\ b = batch[Sync] OBVIOUS
<1>2. /\ s # None /\ s.request # None /\ stream' = [stream EXCEPT ![Sync].request = None] /\ batch' = batch
  BY <1>1 DEF Disconnect, Pending
<1>3. b = None BY <1>1, <1>2 DEF StreamFits, BatchFits
<1>4. PICK n : n = stream'[Sync] OBVIOUS
<1>5. n = [s EXCEPT !.request = None] BY <1>1, <1>2, <1>4, SyncAssumption DEF ClientOk
<1>6. s \in Streams BY <1>1, <1>2 DEF ClientOk
<1>7. n.request = None BY <1>5, <1>6 DEF Streams
<1>8. DOMAIN stream' = Clients /\ DOMAIN batch' = Clients /\ b = batch'[Sync] BY <1>1, <1>2 DEF ClientOk
<1> QED BY <1>1, <1>2, <1>3, <1>4, <1>5, <1>7, <1>8, PlaceKept

\* The node finds a connection gone.
LEMMA AbandonKeepsClient ==
    ASSUME ReplicaInv, Next, NEW r \in Requests, Abandoned(r), UNCHANGED file
    PROVE  ClientOk' /\ StreamFits'
<1> USE DEF ReplicaInv
<1>1. UNCHANGED <<stream, batch>> /\ req' = [req EXCEPT ![r] = Idle] BY DEF Abandoned, streamVars
<1>2. DOMAIN stream' = Clients /\ DOMAIN batch' = Clients BY <1>1 DEF ClientOk
<1>3. CASE stream[Sync] = None
  <2>1. UNCHANGED <<replica, cursor, leftover>> BY DEF file
  <2>2. ClientOk' BY <1>1, <2>1 DEF ClientOk, Values, Project, NoFilter, Streams, Handles
  <2> QED BY <1>1, <1>3, <2>2 DEF StreamFits
<1>4. CASE stream[Sync] # None
  <2>1. PICK s, h, o, R, b : s = stream[Sync] /\ h = s.handle /\ o = s.offset /\ R = Hand /\ b = batch[Sync] OBVIOUS
  <2>2. s = stream'[Sync] /\ b = batch'[Sync] /\ s # None BY <1>1, <1>4, <2>1
  <2>3. s.request # None => \E t : t = req'[s.request] /\ Serves(t, s)'
    <3>1. SUFFICES ASSUME s.request # None PROVE \E t : t = req'[s.request] /\ Serves(t, s)' OBVIOUS
    <3>2. PICK c, t : c = s.request /\ t = req[c] OBVIOUS
    <3>3. c # r BY <2>1, <2>2, <3>1, <3>2, SyncAssumption DEF Abandoned, Pending
    <3>4. StreamOk(s) /\ Serves(t, s) BY <2>1, <2>2, <3>1, <3>2 DEF StreamFits
    <3>5. c \in Requests BY <3>1, <3>2, <3>4 DEF StreamOk
    <3>6. req'[c] = t BY <1>1, <3>2, <3>3, <3>5 DEF Types, ReqsOk
    <3>7. PICK d : d = t.handle OBVIOUS
    <3>8. ReqOk(t) /\ Fit(t, d) BY <3>2, <3>5, <3>7, FitMeans DEF NodeInv, Types, ReqsOk
    <3>9. Serves(t, s)' BY <3>4, <3>7, <3>8, ServesStays
    <3> QED BY <3>2, <3>6, <3>9
  <2> QED BY <1>2, <2>1, <2>2, <2>3, PlaceKept
<1> QED BY <1>3, <1>4

\* The process stops, and keeps its file.
LEMMA CrashKeepsClient ==
    ASSUME ReplicaInv, Next, Crash
    PROVE  ClientOk' /\ StreamFits' /\ CursorFits'
<1> USE DEF ReplicaInv
<1>1. stream' = [stream EXCEPT ![Sync] = None] /\ batch' = [batch EXCEPT ![Sync] = None] /\ UNCHANGED file
  BY DEF Crash, Hangup
<1>2. stream'[Sync] = None /\ batch'[Sync] = None /\ DOMAIN stream' = Clients /\ DOMAIN batch' = Clients
  BY <1>1, SyncAssumption DEF ClientOk
<1>3. replica' \in [Rows -> Values \cup {None}] BY <1>1 DEF file, ClientOk
<1>4. ClientOk' BY <1>2, <1>3, ClientOkNext
<1>5. StreamFits' BY <1>2 DEF StreamFits
<1> QED BY <1>1, <1>4, <1>5, CursorFitsKept

LEMMA CursorFitsNext ==
    ASSUME NEW h \in Handles, NEW o \in Int, Beginning <= o, NEW R, h = cursor'.handle, o = cursor'.offset, R = replica',
           Beyond(h, o)', Position(h, o, R)'
    PROVE  CursorFits'
<1>1. cursor'.handle \in Handles' /\ cursor'.offset \in Int /\ (Beginning <= cursor.offset)' BY DEF Handles, Beginning
<1>2. Beyond(cursor.handle, cursor.offset)' /\ Position(cursor.handle, cursor.offset, replica)' OBVIOUS
<1> QED BY <1>1, <1>2 DEF CursorFits

\* The copy is emptied after a must-refetch.
LEMMA ClearKeepsClient ==
    ASSUME ReplicaInv, Next, Clear
    PROVE  ClientOk' /\ StreamFits' /\ CursorFits'
<1> USE DEF ReplicaInv
<1>0. ClientStep BY DEF ClientStep, SyncStep
<1>1. PICK s, h, o, b, E : s = stream[Sync] /\ h = s.handle /\ o = s.offset /\ b = batch[Sync] /\ E = Empty OBVIOUS
<1>2. /\ b # None /\ "must-refetch" \in b.control /\ replica' = E /\ leftover' = FALSE
      /\ batch' = [batch EXCEPT ![Sync] = None] /\ stream' = stream /\ cursor' = cursor
  BY <1>1 DEF Clear, Got, Done
<1>3. s # None BY <1>1, <1>2 DEF StreamFits
<1>4. /\ s.handle # None /\ s.request = None /\ CursorGone /\ Hand = E
      /\ StreamOk(s) /\ Beyond(h, o) /\ Standing(h, o, E) /\ Behind(h, o)
  BY <1>1, <1>2, <1>3 DEF StreamFits, BatchFits, Hand
<1>5. o \in Int /\ Beginning <= o BY <1>1, <1>4 DEF StreamOk
<1>6. /\ stream'[Sync] = s /\ batch'[Sync] = None /\ DOMAIN stream' = Clients /\ DOMAIN batch' = Clients
      /\ s \in Streams \cup {None}
  BY <1>1, <1>2, SyncAssumption DEF ClientOk
<1>7. replica' \in [Rows -> Values \cup {None}] BY <1>1, <1>2 DEF Empty
<1>8. ClientOk' BY <1>6, <1>7, ClientOkNext
<1>9. E = Hand' BY <1>2, <1>6 DEF Hand
<1>10. Beyond(h, o)' BY <1>4, <1>5, SteadyAll, SnapsAll, RowsAll, BeyondKept
<1>11. Standing(h, o, E)'
  <2>1. Position(h, o, E) BY <1>1, <1>4 DEF Standing
  <2>2. \A r \in Rows : E[r] = None BY <1>1 DEF Empty
  <2>3. Position(h, o, E)' BY <1>0, <2>1, <2>2, PositionMoves
  <2> QED BY <1>1, <1>4, <2>3 DEF Standing
<1>12. Behind(h, o)' BY <1>2, <1>4, BehindKept
<1>13. StreamFits'
  <2>1. PICK x : x = batch'[Sync] OBVIOUS
  <2>2. x # None => BatchFits(x)' BY <1>6, <2>1
  <2> QED BY <1>1, <1>3, <1>4, <1>6, <1>9, <1>10, <1>11, <1>12, <2>1, <2>2, StreamFitsNext
<1>14. CursorGone' BY <1>2, <1>4, GoneKept
<1>15. CursorFits'
  <2>1. CASE cursor = None BY <1>2, <2>1 DEF CursorFits
  <2>2. CASE cursor # None
    <3>1. PICK g, p, R : g = cursor.handle /\ p = cursor.offset /\ R = replica' OBVIOUS
    <3>2. g \in Handles /\ p \in Int /\ Beginning <= p /\ Beyond(g, p) BY <2>2, <3>1 DEF CursorFits
    <3>3. Beyond(g, p)' BY <3>2, SteadyAll, SnapsAll, RowsAll, BeyondKept
    <3>4. Lost(cursor.handle, cursor.offset)' BY <1>2, <1>14, <2>2 DEF CursorGone
    <3>5. g = cursor'.handle /\ p = cursor'.offset BY <1>2, <3>1
    <3>6. Lost(g, p)' BY <3>4, <3>5
    <3>7. Position(g, p, R)' BY <3>6 DEF Position
    <3> QED BY <3>1, <3>2, <3>3, <3>5, <3>7, CursorFitsNext
  <2> QED BY <2>1, <2>2
<1> QED BY <1>8, <1>13, <1>15

\* The changes are committed, the cursor is still the old one.
LEMMA CommitKeepsClient ==
    ASSUME ReplicaInv, Next, Commit
    PROVE  ClientOk' /\ StreamFits' /\ CursorFits'
<1> USE DEF ReplicaInv
<1>0. ClientStep BY DEF ClientStep, SyncStep
<1>1. PICK s, h, o, b, R, ms, S : /\ s = stream[Sync] /\ h = s.handle /\ o = s.offset /\ b = batch[Sync] /\ R = replica
                                  /\ ms = b.changes /\ S = Replay(R, ms)
  OBVIOUS
<1>2. /\ b # None /\ ms # <<>> /\ stream' = stream /\ cursor' = cursor /\ leftover' = leftover
      /\ batch' = [batch EXCEPT ![Sync] = IF Got("up-to-date") THEN [b EXCEPT !.changes = <<>>] ELSE None]
  BY <1>1 DEF Commit
<1>3. replica' = S
  <2>1. replica' = Replay(replica, batch[Sync].changes) BY DEF Commit
  <2> QED BY <1>1, <2>1
<1>4. s # None BY <1>1, <1>2 DEF StreamFits
<1>5. /\ BatchFits(b) /\ StreamOk(s) /\ Beyond(h, o) /\ Standing(h, o, Hand) /\ Behind(h, o)
  BY <1>1, <1>2, <1>4 DEF StreamFits
<1>6. /\ b \in Batches /\ s.handle # None /\ s.request = None /\ Ahead(ms) /\ "must-refetch" \notin b.control
      /\ ms \in Seq(Message)
  BY <1>1, <1>2, <1>5 DEF BatchFits, Batches
<1>7. Hand = S
  <2>1. Hand = Replay(replica, batch[Sync].changes) BY <1>1, <1>2, <1>6 DEF Hand
  <2> QED BY <1>1, <2>1
<1>8. Standing(h, o, S) BY <1>5, <1>7
<1>9. o \in Int /\ Beginning <= o BY <1>1, <1>5 DEF StreamOk
<1>10. PICK x : x = IF Got("up-to-date") THEN [b EXCEPT !.changes = <<>>] ELSE None OBVIOUS
<1>11. /\ stream'[Sync] = s /\ batch'[Sync] = x /\ DOMAIN stream' = Clients /\ DOMAIN batch' = Clients
       /\ s \in Streams \cup {None}
  BY <1>1, <1>2, <1>10, SyncAssumption DEF ClientOk
<1>12. S \in [Rows -> Values \cup {None}]
  <2>1. R \in [Rows -> Values \cup {None}] BY <1>1 DEF ClientOk
  <2> QED BY <1>1, <1>6, <2>1, ReplayTypes
<1>13. ClientOk' BY <1>3, <1>11, <1>12, ClientOkNext
<1>14. x # None => x \in Batches /\ x.changes = <<>> /\ "must-refetch" \notin x.control
  <2>1. <<>> \in Seq(Message) BY EmptySeq
  <2> QED BY <1>6, <1>10, <2>1 DEF Batches
<1>15. Hand' = S
  <2>1. CASE x = None BY <1>3, <1>11, <2>1 DEF Hand
  <2>2. CASE x # None
    <3>1. Hand' = Replay(replica, batch[Sync].changes)' BY <1>11, <1>14, <2>2 DEF Hand
    <3>2. Replay(replica, batch[Sync].changes)' = Replay(S, <<>>)
      <4>1. replica' = S /\ batch'[Sync].changes = <<>> BY <1>3, <1>11, <1>14, <2>2
      <4> QED BY <4>1 DEF Replay
    <3>3. Replay(S, <<>>) = S BY <1>12, ReplayNothing
    <3> QED BY <3>1, <3>2, <3>3
  <2> QED BY <2>1, <2>2
<1>16. Beyond(h, o)' BY <1>5, <1>9, SteadyAll, SnapsAll, RowsAll, BeyondKept
<1>17. Standing(h, o, S)' BY <1>2, <1>5, <1>8, <1>9, StandingKept
<1>18. Behind(h, o)' BY <1>2, <1>5, BehindKept
<1>19. ASSUME x # None PROVE BatchFits(x)'
  <2>1. PICK none : none = <<>> OBVIOUS
  <2>2. Ahead(none)' BY <2>1 DEF Ahead
  <2>3. x \in Batches /\ none = x.changes /\ "must-refetch" \notin x.control BY <1>14, <1>19, <2>1
  <2>4. stream'[Sync].handle # None /\ stream'[Sync].request = None BY <1>6, <1>11
  <2> QED BY <2>2, <2>3, <2>4, BatchFitsNext
<1>20. StreamFits'
  BY <1>1, <1>4, <1>5, <1>6, <1>11, <1>15, <1>16, <1>17, <1>18, <1>19, StreamFitsNext
<1>21. CursorFits'
  <2>1. CASE cursor = None BY <1>2, <2>1 DEF CursorFits
  <2>2. CASE cursor # None
    <3>1. PICK g, p : g = cursor.handle /\ p = cursor.offset OBVIOUS
    <3>2. g \in Handles /\ p \in Int /\ Beginning <= p /\ Beyond(g, p) /\ Position(g, p, R)
      BY <1>1, <2>2, <3>1 DEF CursorFits
    <3>3. Beyond(g, p)' BY <3>2, SteadyAll, SnapsAll, RowsAll, BeyondKept
    <3>4. g = cursor'.handle /\ p = cursor'.offset BY <1>2, <3>1
    <3>5. Position(g, p, S)'
      <4>1. CASE CursorGone
        <5>1. CursorGone' BY <1>2, <4>1, GoneKept
        <5>2. Lost(cursor.handle, cursor.offset)' BY <1>2, <2>2, <5>1 DEF CursorGone
        <5>3. Lost(g, p)' BY <3>4, <5>2
        <5> QED BY <5>3 DEF Position
      <4>2. CASE ~CursorGone
        <5>1. \A i \in DOMAIN ms : Has(g, ms[i].row, p) BY <1>6, <3>1, <4>2 DEF Ahead
        <5>2. ASSUME NEW r \in Rows PROVE Has(g, r, p) \/ (S[r] = R[r] /\ (leftover /\ R[r] # None => leftover'))
          <6>1. CASE \E i \in DOMAIN ms : ms[i].row = r BY <5>1, <6>1
          <6>2. CASE \A i \in DOMAIN ms : ms[i].row # r
            <7>1. S[r] = R[r] BY <1>1, <6>2, ReplayNone
            <7> QED BY <1>2, <7>1
          <6> QED BY <6>1, <6>2
        <5> QED BY <1>0, <3>2, <5>2, PositionMoves
      <4> QED BY <4>1, <4>2
    <3> QED BY <1>3, <3>2, <3>3, <3>4, <3>5, CursorFitsNext
  <2> QED BY <2>1, <2>2
<1> QED BY <1>13, <1>20, <1>21

\* The cursor is saved when the changes have been.
LEMMA SaveKeepsClient ==
    ASSUME ReplicaInv, Next, SaveCursor
    PROVE  ClientOk' /\ StreamFits' /\ CursorFits'
<1> USE DEF ReplicaInv
<1>1. PICK s, h, o, b, R : s = stream[Sync] /\ h = s.handle /\ o = s.offset /\ b = batch[Sync] /\ R = replica OBVIOUS
<1>2. /\ b # None /\ "up-to-date" \in b.control /\ b.changes = <<>>
      /\ stream' = stream /\ replica' = R /\ leftover' = leftover
      /\ batch' = [batch EXCEPT ![Sync] = None]
      /\ cursor' = [handle |-> h, offset |-> o]
  BY <1>1 DEF SaveCursor, Got, Done
<1>3. s # None BY <1>1, <1>2 DEF StreamFits
<1>4. /\ BatchFits(b) /\ StreamOk(s) /\ Beyond(h, o) /\ Standing(h, o, Hand)
  BY <1>1, <1>2, <1>3 DEF StreamFits
<1>5. s.handle # None /\ s.request = None /\ "must-refetch" \notin b.control BY <1>1, <1>2, <1>4 DEF BatchFits
<1>6. R \in [Rows -> Values \cup {None}] BY <1>1 DEF ClientOk
<1>7. Hand = R
  <2>1. Hand = Replay(replica, batch[Sync].changes) BY <1>1, <1>2, <1>5 DEF Hand
  <2>2. Hand = Replay(R, <<>>) BY <1>1, <1>2, <2>1
  <2> QED BY <1>6, <2>2, ReplayNothing
<1>8. /\ stream'[Sync] = s /\ batch'[Sync] = None /\ DOMAIN stream' = Clients /\ DOMAIN batch' = Clients
      /\ s \in Streams \cup {None}
  BY <1>1, <1>2, SyncAssumption DEF ClientOk
<1>9. ClientOk' BY <1>2, <1>6, <1>8, ClientOkNext
<1>10. o \in Int /\ Beginning <= o /\ h \in Handles BY <1>1, <1>4, <1>5 DEF StreamOk
<1>11. Hand' = R BY <1>2, <1>8 DEF Hand
<1>12. Beyond(h, o)' BY <1>4, <1>10, SteadyAll, SnapsAll, RowsAll, BeyondKept
<1>13. Standing(h, o, R)' BY <1>2, <1>4, <1>7, <1>10, StandingKept
<1>14. h = cursor'.handle /\ o = cursor'.offset BY <1>2
<1>15. Behind(h, o)' BY <1>10, <1>14 DEF Behind
<1>16. StreamFits'
  <2>1. PICK x : x = batch'[Sync] OBVIOUS
  <2>2. x # None => BatchFits(x)' BY <1>8, <2>1
  <2> QED BY <1>1, <1>3, <1>4, <1>5, <1>8, <1>11, <1>12, <1>13, <1>15, <2>1, <2>2, StreamFitsNext
<1>17. Position(h, o, R)' BY <1>1, <1>5, <1>13 DEF Standing
<1>18. CursorFits' BY <1>2, <1>10, <1>12, <1>14, <1>17, CursorFitsNext
<1> QED BY <1>9, <1>16, <1>18

LEMMA OpenMeans ==
    ASSUME NEW h \in Handles \cup {None}, NEW o \in Int, Beginning <= o, h = None => o = Beginning
    PROVE  /\ Open(h, o) \in Streams /\ StreamOk(Open(h, o)) /\ Open(h, o) # None
           /\ Open(h, o).handle = h /\ Open(h, o).offset = o /\ Open(h, o).request = None
<1>1. /\ Open(h, o).handle = h /\ Open(h, o).offset = o /\ Open(h, o).request = None /\ Open(h, o).upToDate = FALSE
      /\ Open(h, o) \in Streams
  BY DEF Open, Streams
<1>2. StreamOk(Open(h, o)) BY <1>1 DEF StreamOk
<1> QED BY <1>1, <1>2, StreamAssumption

\* The process starts, with its file or without.
LEMMA StartKeepsClient ==
    ASSUME ReplicaInv, Next, NEW resume \in BOOLEAN, Start(resume)
    PROVE  ClientOk' /\ StreamFits' /\ CursorFits'
<1> USE DEF ReplicaInv
<1>0. ClientStep BY DEF ClientStep
<1>1. /\ stream[Sync] = None /\ batch[Sync] = None /\ batch' = batch
      /\ stream' = [stream EXCEPT ![Sync] = OpenAt(cursor')]
      /\ leftover' = (replica' # Empty /\ (leftover \/ cursor' = None))
      /\ replica' = IF resume THEN replica ELSE Empty
      /\ cursor' = IF resume THEN cursor ELSE None
  BY DEF Start, Running, StreamFits
<1>2. PICK R, n, h, o : /\ R = replica' /\ n = OpenAt(cursor')
                        /\ h = (IF cursor' = None THEN None ELSE cursor'.handle)
                        /\ o = (IF cursor' = None THEN Beginning ELSE cursor'.offset)
  OBVIOUS
<1>3. Empty \in [Rows -> Values \cup {None}] /\ \A r \in Rows : Empty[r] = None BY DEF Empty
<1>4. R \in [Rows -> Values \cup {None}] BY <1>1, <1>2, <1>3 DEF ClientOk
<1>5. o \in Int /\ Beginning <= o /\ h \in Handles \cup {None} /\ (h = None => o = Beginning) /\ (cursor' # None => h # None)
  <2>1. CASE cursor' = None BY <1>2, <2>1 DEF Beginning
  <2>2. CASE cursor' # None
    <3>1. cursor' = cursor BY <1>1, <2>2
    <3>2. h \in Handles /\ o \in Int /\ Beginning <= o BY <1>2, <2>2, <3>1 DEF CursorFits
    <3> QED BY <3>2, ShapeAssumption DEF Handles
  <2> QED BY <2>1, <2>2
<1>6. n = Open(h, o) BY <1>2 DEF OpenAt
<1>7. n \in Streams /\ StreamOk(n) /\ n # None /\ n.handle = h /\ n.offset = o /\ n.request = None BY <1>5, <1>6, OpenMeans
<1>8. /\ stream'[Sync] = n /\ batch'[Sync] = None /\ DOMAIN stream' = Clients /\ DOMAIN batch' = Clients
  BY <1>1, <1>2, SyncAssumption DEF ClientOk
<1>9. ClientOk' BY <1>2, <1>4, <1>7, <1>8, ClientOkNext
<1>10. Hand' = R BY <1>2, <1>8 DEF Hand
<1>11. \A r \in Rows : R[r] # None => replica' # Empty BY <1>2, <1>3
<1>12. Beyond(h, o)' /\ Standing(h, o, R)' /\ Behind(h, o)' /\ (cursor' # None => Position(h, o, R)')
  <2>1. CASE cursor' = None
    <3>1. h = None /\ o = Beginning BY <1>2, <2>1
    <3>2. Beyond(h, o)' BY <3>1 DEF Beyond, Beginning
    <3>3. Behind(h, o)' BY <2>1 DEF Behind, CursorGone
    <3>4. New(R)' BY <1>1, <1>11, <2>1 DEF New
    <3>5. Standing(h, o, R)' BY <3>1, <3>4 DEF Standing
    <3> QED BY <2>1, <3>2, <3>3, <3>5
  <2>2. CASE cursor' # None
    <3>1. cursor' = cursor /\ replica' = replica BY <1>1, <2>2
    <3>2. h = cursor.handle /\ o = cursor.offset /\ R = replica BY <1>2, <2>2, <3>1
    <3>3. Beyond(h, o) /\ Position(h, o, R) BY <2>2, <3>1, <3>2 DEF CursorFits
    <3>4. Beyond(h, o)' BY <1>5, <3>3, SteadyAll, SnapsAll, RowsAll, BeyondKept
    <3>5. \A r \in Rows : leftover /\ R[r] # None => leftover' BY <1>1, <1>11
    <3>6. Position(h, o, R)' BY <1>0, <3>3, <3>5, PositionMoves
    <3>7. Standing(h, o, R)' BY <1>5, <2>2, <3>6 DEF Standing
    <3>8. h = cursor'.handle /\ o = cursor'.offset BY <1>2, <2>2
    <3>9. Behind(h, o)' BY <1>5, <3>8 DEF Behind
    <3> QED BY <3>4, <3>6, <3>7, <3>9
  <2> QED BY <2>1, <2>2
<1>13. StreamFits'
  <2>1. PICK x : x = batch'[Sync] OBVIOUS
  <2>2. x # None => BatchFits(x)' BY <1>8, <2>1
  <2> QED BY <1>7, <1>8, <1>10, <1>12, <2>1, <2>2, StreamFitsNext
<1>14. CursorFits'
  <2>1. CASE cursor' = None BY <2>1 DEF CursorFits
  <2>2. CASE cursor' # None
    <3>1. h = cursor'.handle /\ o = cursor'.offset BY <1>2, <2>2
    <3>2. h \in Handles BY <1>5, <2>2
    <3> QED BY <1>2, <1>5, <1>12, <2>2, <3>1, <3>2, CursorFitsNext
  <2> QED BY <2>1, <2>2
<1> QED BY <1>9, <1>13, <1>14

(***************************************************************************)
(* The invariant and what follows from it.                                 *)
(***************************************************************************)
\* Nothing happens.
LEMMA StutterKeeps ==
    ASSUME ReplicaInv, UNCHANGED vars
    PROVE  ReplicaInv'
<1> USE DEF ReplicaInv
<1>1. /\ UNCHANGED <<shape, table, wal, next, high, work, registry, log, given, req, gone, flawed>>
      /\ UNCHANGED <<stream, batch, replica, cursor, leftover>>
  BY DEF vars, serverVars, streamVars, file, origin, stream_, shapes, ghosts
<1>2. Types'
  <2>1. UNCHANGED <<origin, stream_, shapes, given, req>> BY <1>1 DEF origin, stream_, shapes
  <2>2. ReqsOk' BY <2>1 DEF Types, ReqsOk
  <2> QED BY <2>1, <2>2, OnlyRequests
<1>3. \A h : /\ Read(h)' = Read(h) /\ Messages(h)' = Messages(h) /\ (Good(h)' <=> Good(h))
             /\ (Whole(h)' <=> Whole(h)) /\ Snapshotting(h)' = Snapshotting(h)
  BY <1>1 DEF Messages, Read, EmptyLog, Good, Whole, Beginning, Snapshotting
<1>4. \A h, r, o : Has(h, r, o)' <=> Has(h, r, o) BY <1>3 DEF Has
<1>5. \A h, r : /\ Coming(h, r)' <=> Coming(h, r)
                /\ Told(h, r)' <=> Told(h, r)
                /\ Known(h, r)' <=> Known(h, r)
  <2>1. \A h, r : Coming(h, r)' <=> Coming(h, r) BY <1>1, SameComing
  <2>2. Beginning' = Beginning /\ SnapshotEnd' = SnapshotEnd BY DEF Beginning, SnapshotEnd
  <2>3. \A h, r : Has(h, r, SnapshotEnd)' <=> Has(h, r, SnapshotEnd) BY <1>3 DEF Has, SnapshotEnd
  <2>4. \A h, r : Has(h, r, Beginning)' <=> Has(h, r, Beginning) BY <1>3 DEF Has, Beginning
  <2> QED BY <1>1, <2>1, <2>3, <2>4 DEF Told, Known
<1>6. NodeInv'
  <2>1. \A h : h \in DOMAIN log => LogFits(h)'
    <3>1. SUFFICES ASSUME NEW h, h \in DOMAIN log PROVE LogFits(h)' OBVIOUS
    <3>2. LogFits(h) BY <3>1 DEF NodeInv
    <3>3. LogOk(log[h])' BY <1>1, <3>2 DEF LogFits, LogOk, Log, Message, Values, Project, NoFilter, Beginning, SnapshotEnd
    <3>4. PICK ms : ms = Messages(h) /\ ms = Messages(h)' BY <1>3
    <3>5. h \in gone' => h \in flawed' BY <1>1, <3>2 DEF LogFits
    <3>6. Good(h)' => \A i, j \in DOMAIN ms :
             i < j /\ SnapshotEnd < ms[i].offset /\ SnapshotEnd < ms[j].offset => ms[i].offset < ms[j].offset
      BY <1>3, <3>2, <3>4 DEF LogFits
    <3>7. Good(h)' /\ ms = <<>> => h \in registry' BY <1>1, <1>3, <3>2, <3>4 DEF LogFits
    <3> QED BY <3>3, <3>4, <3>5, <3>6, <3>7 DEF LogFits, SnapshotEnd
  <2>2. \A w \in work : WorkFits(w)'
    <3>1. SUFFICES ASSUME NEW w \in work PROVE WorkFits(w)' OBVIOUS
    <3>2. WorkFits(w) BY DEF NodeInv
    <3>3. \A h, n : Carried(h, n)' <=> Carried(h, n) BY <1>1 DEF Carried
    <3> QED BY <1>1, <1>3, <3>2, <3>3 DEF WorkFits, SnapshotEnd
  <2>3. \A h \in Handles : ChangesRight(h)' /\ SnapshotRight(h)' /\ Complete(h)'
    <3>1. SUFFICES ASSUME NEW h \in Handles PROVE ChangesRight(h)' /\ SnapshotRight(h)' /\ Complete(h)' OBVIOUS
    <3>2. ChangesRight(h) /\ SnapshotRight(h) /\ Complete(h) BY DEF NodeInv
    <3>3. ChangesRight(h)' BY <1>1, <1>3, <1>5, <3>2 DEF ChangesRight, SnapshotEnd, Eff, Seen, Project, NoFilter
    <3>4. SnapshotRight(h)' BY <1>1, <1>3, <1>5, <3>2 DEF SnapshotRight, SnapshotEnd, Eff, Seen, Project, NoFilter
    <3>5. Complete(h)' BY <1>1, <1>3, <1>5, <3>2 DEF Complete
    <3> QED BY <3>3, <3>4, <3>5
  <2>4. \A c \in Requests : SnapFits(c)' /\ ReqFits(c)'
    <3>1. SUFFICES ASSUME NEW c \in Requests PROVE SnapFits(c)' /\ ReqFits(c)' OBVIOUS
    <3>2. SnapFits(c) /\ ReqFits(c) BY DEF NodeInv
    <3>3. PICK q, h : q = req[c] /\ h = q.handle OBVIOUS
    <3>4. SnapFits(c)'
      <4>1. Base(c)' = Base(c) BY <1>1 DEF Base
      <4>2. \A t, r : (Place(t, r))' = Place(t, r) /\ Present(t)' = Present(t) BY DEF Place, Rank, Present
      <4>3. \A r : Told(req[c].handle, r)' <=> Told(req[c].handle, r)
        <5>1. \A r : Told(h, r)' <=> Told(h, r) BY <1>5
        <5> QED BY <1>1, <3>3, <5>1
      <4>4. \A r : Known(req[c].handle, r)' <=> Known(req[c].handle, r)
        <5>1. \A r : Known(h, r)' <=> Known(h, r) BY <1>5
        <5> QED BY <1>1, <3>3, <5>1
      <4>5. Whole(req[c].handle)' <=> Whole(req[c].handle)
        <5>1. Whole(h)' <=> Whole(h) BY <1>3
        <5> QED BY <1>1, <3>3, <5>1
      <4> QED BY <1>1, <3>2, <4>1, <4>2, <4>3, <4>4, <4>5 DEF SnapFits, Present, Place, Rank
    <3>5. ReqFits(c)'
      <4>1. Fit(q, h) BY <3>2, <3>3, FitMeans
      <4>2. \A d, o : (NoRows(d, o)' <=> NoRows(d, o)) BY <1>3 DEF NoRows, SnapshotEnd
      <4>3. \A d, o : (Beyond(d, o)' <=> Beyond(d, o)) BY <1>3, <4>2 DEF Beyond, SnapshotEnd
      <4>4. Fit(q, h)' BY <1>1, <1>3, <4>1, <4>2, <4>3 DEF Fit, Beginning
      <4> QED BY <1>1, <3>3, <4>4, FitMeansNext
    <3> QED BY <3>4, <3>5
  <2>5. \A h \in DOMAIN log' : LogFits(h)' BY <1>1, <2>1
  <2>6. \A w \in work' : WorkFits(w)' BY <1>1, <2>2
  <2>7. \A h \in Handles' : ChangesRight(h)' /\ SnapshotRight(h)' /\ Complete(h)' BY <2>3 DEF Handles
  <2> QED BY <2>4, <2>5, <2>6, <2>7 DEF NodeInv
<1>7. \A h, o : Lost(h, o)' <=> Lost(h, o) BY <1>3 DEF Lost
<1>8. \A h, o : Beyond(h, o)' <=> Beyond(h, o)
  <2>1. \A d, o : (NoRows(d, o)' <=> NoRows(d, o)) BY <1>3 DEF NoRows, SnapshotEnd
  <2> QED BY <1>3, <2>1 DEF Beyond, SnapshotEnd
<1>9. \A h, o, R : Standing(h, o, R)' <=> Standing(h, o, R)
  <2>1. \A h, o, R : Claim(h, o, R)' <=> Claim(h, o, R) BY <1>1, <1>4, <1>5, ClaimMeans DEF Claim
  <2>2. \A h, R : Fresh(h, R)' <=> Fresh(h, R)
    <3>1. \A h, r : Has(h, r, Beginning)' <=> Has(h, r, Beginning) BY <1>3 DEF Has, Beginning
    <3> QED BY <1>1, <3>1 DEF Fresh
  <2>3. \A h, o, R : Position(h, o, R)' <=> Position(h, o, R) BY <1>7, <2>1, <2>2 DEF Position, Beginning
  <2> QED BY <1>1, <2>3 DEF Standing, New
<1>10. CursorGone' <=> CursorGone
  <2>1. PICK h, o : h = cursor.handle /\ o = cursor.offset OBVIOUS
  <2> QED BY <1>1, <1>7, <2>1 DEF CursorGone
<1>11. \A h, o : Behind(h, o)' <=> Behind(h, o) BY <1>1, <1>10 DEF Behind
<1>12. ClientOk' BY <1>1 DEF ClientOk, Values, Project, NoFilter, Streams, Handles
<1>13. CursorFits'
  <2>1. CASE cursor = None BY <1>1, <2>1 DEF CursorFits
  <2>2. CASE cursor # None
    <3>1. PICK h, o, R : h = cursor.handle /\ o = cursor.offset /\ R = replica OBVIOUS
    <3>2. /\ h \in Handles /\ o \in Int /\ Beginning <= o /\ Beyond(h, o) /\ Position(h, o, R)
      BY <2>2, <3>1 DEF CursorFits
    <3>3. h # None BY <3>2, ShapeAssumption DEF Handles
    <3>4. Position(h, o, R)' BY <1>9, <3>2, <3>3 DEF Standing
    <3>5. Beyond(h, o)' BY <1>8, <3>2
    <3> QED BY <1>1, <3>1, <3>2, <3>4, <3>5, CursorFitsNext
  <2> QED BY <2>1, <2>2
<1>14. StreamFits'
  <2>1. CASE stream[Sync] = None BY <1>1, <2>1 DEF StreamFits
  <2>2. CASE stream[Sync] # None
    <3>1. PICK s, h, o, R, b : s = stream[Sync] /\ h = s.handle /\ o = s.offset /\ R = Hand /\ b = batch[Sync] OBVIOUS
    <3>2. /\ StreamOk(s) /\ Beyond(h, o) /\ Standing(h, o, R) /\ Behind(h, o)
          /\ b # None => BatchFits(b)
          /\ s.request # None => Serves(req[s.request], s)
      BY <2>2, <3>1 DEF StreamFits
    <3>3. Beyond(h, o)' /\ Standing(h, o, R)' /\ Behind(h, o)' BY <1>8, <1>9, <1>11, <3>2
    <3>4. \A ms \in Seq(Message) : Ahead(ms) => Ahead(ms)'
      <4>1. PICK d, p : d = cursor.handle /\ p = cursor.offset OBVIOUS
      <4>2. SUFFICES ASSUME NEW ms \in Seq(Message), Ahead(ms) PROVE Ahead(ms)' OBVIOUS
      <4> QED BY <1>1, <1>4, <1>10, <4>1, <4>2, AheadMeans
    <3>5. b # None => BatchFits(b)'
      <4>1. SUFFICES ASSUME b # None PROVE BatchFits(b)' OBVIOUS
      <4>2. PICK ms : ms = b.changes OBVIOUS
      <4>3. BatchFits(b) BY <3>2, <4>1
      <4>4. b \in Batches /\ ms \in Seq(Message) /\ Ahead(ms) BY <4>2, <4>3 DEF BatchFits, Batches
      <4>5. Ahead(ms)' BY <3>4, <4>4
      <4> QED BY <1>1, <1>10, <4>2, <4>3, <4>4, <4>5, BatchFitsNext DEF BatchFits
    <3>6. s.request # None => \E t : t = req'[s.request] /\ Serves(t, s)'
      <4>1. SUFFICES ASSUME s.request # None PROVE \E t : t = req'[s.request] /\ Serves(t, s)' OBVIOUS
      <4>2. PICK t : t = req[s.request] OBVIOUS
      <4>3. Serves(t, s) BY <3>2, <4>1, <4>2
      <4>4. Serves(t, s)'
        <5>1. t.pc # "idle" BY <4>3 DEF Serves
        <5>2. t.pc \in {"ensure", "new", "rejoin", "fetch", "append", "settle"} =>
                 \E d, live, S : d = t.handle /\ live = t.live /\ S = replica' /\ Early(d, s, live, S)'
          <6>1. SUFFICES ASSUME t.pc \in {"ensure", "new", "rejoin", "fetch", "append", "settle"}
                         PROVE  \E d, live, S : d = t.handle /\ live = t.live /\ S = replica' /\ Early(d, s, live, S)'
            OBVIOUS
          <6>2. PICK d, live, S : d = t.handle /\ live = t.live /\ S = replica OBVIOUS
          <6>3. Early(d, s, live, S) BY <4>3, <6>1, <6>2 DEF Serves
          <6>4. PICK p : p = Beginning /\ p = Beginning' BY DEF Beginning
          <6>5. Early(d, s, live, S)' BY <1>9, <1>10, <6>3, <6>4 DEF Early
          <6> QED BY <1>1, <6>2, <6>5
        <5>3. t.pc \in {"resume", "read"} => t.handle = s.handle /\ t.from = s.offset BY <4>3 DEF Serves
        <5>4. t.pc \in {"await", "waiting"} =>
                 \E d, p, S : d = t.handle /\ p = t.from /\ S = replica' /\ Waits(d, p, s, S)'
          <6>1. SUFFICES ASSUME t.pc \in {"await", "waiting"}
                         PROVE  \E d, p, S : d = t.handle /\ p = t.from /\ S = replica' /\ Waits(d, p, s, S)'
            OBVIOUS
          <6>2. PICK d, p, S : d = t.handle /\ p = t.from /\ S = replica OBVIOUS
          <6>3. Waits(d, p, s, S) BY <4>3, <6>1, <6>2 DEF Serves
          <6>4. \A x, y, z : Claim(x, y, z)' <=> Claim(x, y, z) BY <1>1, <1>4, <1>5, ClaimMeans DEF Claim
          <6>5. Waits(d, p, s, S)' BY <1>7, <6>3, <6>4 DEF Waits
          <6> QED BY <1>1, <6>2, <6>5
        <5>5. t.pc = "answered" /\ t.answer.status = "ok" =>
                 \E d, p, ms, S : /\ d = t.answer.handle /\ p = t.answer.offset /\ ms = t.answer.messages
                                  /\ S = Replay(replica', ms) /\ Answers(d, p, ms, S)'
          <6>1. SUFFICES ASSUME t.pc = "answered", t.answer.status = "ok"
                         PROVE  \E d, p, ms, S : /\ d = t.answer.handle /\ p = t.answer.offset /\ ms = t.answer.messages
                                                 /\ S = Replay(replica', ms) /\ Answers(d, p, ms, S)'
            OBVIOUS
          <6>2. PICK d, p, ms, S : d = t.answer.handle /\ p = t.answer.offset /\ ms = t.answer.messages /\ S = Replay(replica, ms)
            OBVIOUS
          <6>3. Answers(t.answer.handle, t.answer.offset, t.answer.messages, Replay(replica, t.answer.messages))
            BY <4>3, <6>1 DEF Serves
          <6>4. Answers(d, p, ms, S)
            <7>1. Replay(replica, t.answer.messages) = S BY <6>2
            <7> QED BY <6>2, <6>3, <7>1
          <6>5. ms \in Seq(Message) /\ d # None
            <7>1. s.request \in Requests BY <3>2, <4>1 DEF StreamOk
            <7>2. AnswerOk(t.answer) BY <4>2, <6>1, <7>1 DEF Types, ReqsOk, ReqOk
            <7>3. ms \in Seq(Message) /\ d \in Handles BY <6>1, <6>2, <7>2 DEF AnswerOk
            <7> QED BY <7>3, ShapeAssumption DEF Handles
          <6>6. Position(d, p, S)' BY <1>9, <6>4, <6>5 DEF Answers, Standing
          <6>7. Behind(d, p)' BY <1>11, <6>4 DEF Answers
          <6>8. Ahead(ms)' BY <3>4, <6>4, <6>5 DEF Answers
          <6>9. PICK x : x = Beginning /\ x = Beginning' BY DEF Beginning
          <6>10. Answers(d, p, ms, S)' BY <6>4, <6>6, <6>7, <6>8, <6>9 DEF Answers
          <6>11. S = Replay(replica', ms)
            <7>1. replica' = replica BY <1>1
            <7> QED BY <6>2, <7>1
          <6> QED BY <6>2, <6>10, <6>11
        <5>6. t.pc = "answered" /\ t.answer.status = "must-refetch" => CursorGone' BY <1>10, <4>3 DEF Serves
        <5> QED BY <5>1, <5>2, <5>3, <5>4, <5>5, <5>6, ServesMeansNext
      <4> QED BY <1>1, <4>2, <4>4
    <3>7. R = Hand' BY <1>1, <3>1 DEF Hand, Replay, Empty
    <3> QED BY <1>1, <2>2, <3>1, <3>2, <3>3, <3>5, <3>6, <3>7, StreamFitsNext
  <2> QED BY <2>1, <2>2
<1> QED BY <1>2, <1>6, <1>12, <1>13, <1>14

\* The invariant is inductive, with NoLostWakeup beside it.
LEMMA ReplicaKept ==
    ASSUME ReplicaInv, NoLostWakeup, Next
    PROVE  ReplicaInv'
<1>1. Types' /\ NodeInv' BY TypesKept, NodeKept
<1>2. ClientOk' /\ CursorFits' /\ StreamFits'
  <2>1. CASE ~ClientStep BY <2>1, NodeKeepsClient
  <2>2. CASE ClientStep
    <3>1. UNCHANGED file => CursorFits' BY CursorFitsKept
    <3>2. CASE Ask(Sync) /\ UNCHANGED file BY <3>1, <3>2, AskKeepsClient
    <3>3. CASE Take(Sync) /\ UNCHANGED file BY <3>1, <3>3, TakeKeepsClient
    <3>4. CASE Disconnect(Sync) /\ UNCHANGED file BY <3>1, <3>4, DisconnectKeepsClient
    <3>5. CASE (\E r \in Requests : Abandoned(r)) /\ UNCHANGED file BY <3>1, <3>5, AbandonKeepsClient
    <3>6. CASE Clear BY <3>6, ClearKeepsClient
    <3>7. CASE Commit BY <3>7, CommitKeepsClient
    <3>8. CASE SaveCursor BY <3>8, SaveKeepsClient
    <3>9. CASE \E resume \in BOOLEAN : Start(resume) BY <3>9, StartKeepsClient
    <3>10. CASE Crash BY <3>10, CrashKeepsClient
    <3>11. (WriteStep \/ ServerStep) /\ UNCHANGED <<streamVars, file>> => UNCHANGED file OBVIOUS
    <3> QED BY <2>2, <3>2, <3>3, <3>4, <3>5, <3>6, <3>7, <3>8, <3>9, <3>10, <3>11, Zenon DEF Next, SyncStep, ClientStep
  <2> QED BY <2>1, <2>2
<1> QED BY <1>1, <1>2 DEF ReplicaInv

LEMMA ReplicaStart == Init => ReplicaInv
<1>1. SUFFICES ASSUME Init PROVE ReplicaInv OBVIOUS
<1>2. /\ shape = Orders /\ table \in Tables /\ wal = <<>> /\ next = 1 /\ high = 0 /\ work = {}
      /\ registry = {} /\ log = NoLogs /\ given = 0 /\ req = [c \in Requests |-> Idle] /\ gone = {} /\ flawed = {}
      /\ stream = [c \in Clients |-> None] /\ batch = [c \in Clients |-> None]
      /\ replica = Empty /\ cursor = None /\ leftover = FALSE
  BY <1>1 DEF Init, ServerInit, StreamInit, Tables
<1>3. wal \in Seq(Change) /\ DOMAIN wal = {} /\ Len(wal) = 0 BY <1>2, EmptySeq
<1>4. DOMAIN log = {} BY <1>2 DEF NoLogs
<1>5. \A h : Read(h) = EmptyLog BY <1>4 DEF Read
<1>6. \A h : Messages(h) = <<>> BY <1>5 DEF Messages, EmptyLog
<1>7. \A c \in Requests : req[c] = Idle /\ req[c].pc = "idle" BY <1>2 DEF Idle
<1>8. Types
  <2>1. OriginOk BY <1>2, <1>3 DEF OriginOk, Newest
  <2>2. NodeOk BY <1>2, <1>3, <1>4, ShapeAssumption DEF NodeOk
  <2>3. ReqsOk BY <1>2, <1>7, IdleOk DEF ReqsOk
  <2> QED BY <2>1, <2>2, <2>3 DEF Types
<1>9. NodeInv
  <2>1. \A h \in Handles : ChangesRight(h) /\ SnapshotRight(h) BY <1>6 DEF ChangesRight, SnapshotRight
  <2>2. \A h \in Handles : Complete(h) BY <1>2, <1>4 DEF Complete
  <2>3. \A c \in Requests : SnapFits(c) /\ ReqFits(c) BY <1>7 DEF SnapFits, ReqFits
  <2> QED BY <1>2, <1>4, <2>1, <2>2, <2>3 DEF NodeInv
<1>10. stream[Sync] = None /\ batch[Sync] = None BY <1>2, SyncAssumption
<1>11. ClientOk BY <1>2, <1>10 DEF ClientOk, Empty
<1>12. CursorFits BY <1>2 DEF CursorFits
<1>13. StreamFits BY <1>10 DEF StreamFits
<1> QED BY <1>8, <1>9, <1>11, <1>12, <1>13 DEF ReplicaInv

LEMMA LastOne ==
    ASSUME NEW ms \in Seq(Message), NEW r, \E i \in DOMAIN ms : ms[i].row = r
    PROVE  \E i \in DOMAIN ms : ms[i].row = r /\ \A j \in DOMAIN ms : ms[j].row = r => j <= i
<1>1. PICK S : S = {i \in DOMAIN ms : ms[i].row = r} OBVIOUS
<1>2. DOMAIN ms = 1 .. Len(ms) /\ Len(ms) \in Nat BY LenProperties
<1>3. IsFiniteSet(DOMAIN ms) BY <1>2, FS_Interval
<1>4. S \in SUBSET Int /\ IsFiniteSet(S) /\ S # {} BY <1>1, <1>2, <1>3, FS_Subset
<1>5. \E m \in S : \A x \in S : x <= m BY <1>4, Greatest
<1> QED BY <1>1, <1>5

\* Replay of two parts is the replay of one after the other.
LEMMA ReplayConcat ==
    ASSUME NEW a \in Seq(Message), NEW b \in Seq(Message), NEW R, NEW S, S = Replay(R, a), NEW r \in Rows
    PROVE  Replay(R, a \o b)[r] = Replay(S, b)[r]
<1>1. PICK all : all = a \o b OBVIOUS
<1>2. /\ all \in Seq(Message) /\ Len(a) \in Nat /\ Len(b) \in Nat /\ Len(all) = Len(a) + Len(b)
      /\ DOMAIN a = 1 .. Len(a) /\ DOMAIN b = 1 .. Len(b) /\ DOMAIN all = 1 .. Len(all)
      /\ \A i \in DOMAIN all : all[i] = IF i <= Len(a) THEN a[i] ELSE b[i - Len(a)]
  BY <1>1, ConcatProperties, LenProperties
<1>3. \A i \in DOMAIN a : i \in DOMAIN all /\ all[i] = a[i]
  <2>1. SUFFICES ASSUME NEW i \in DOMAIN a PROVE i \in DOMAIN all /\ all[i] = a[i] OBVIOUS
  <2>2. i \in 1 .. Len(a) /\ i \in 1 .. Len(all) BY <1>2
  <2> QED BY <1>2, <2>2
<1>4. \A i \in DOMAIN b : Len(a) + i \in DOMAIN all /\ all[Len(a) + i] = b[i]
  <2>1. SUFFICES ASSUME NEW i \in DOMAIN b PROVE Len(a) + i \in DOMAIN all /\ all[Len(a) + i] = b[i] OBVIOUS
  <2>2. i \in 1 .. Len(b) BY <1>2
  <2>3. PICK k : k = Len(a) + i OBVIOUS
  <2>4. k \in 1 .. Len(all) /\ ~(k <= Len(a)) /\ k - Len(a) = i BY <1>2, <2>2, <2>3
  <2>5. k \in DOMAIN all BY <1>2, <2>4
  <2>6. all[k] = b[k - Len(a)] BY <1>2, <2>4, <2>5
  <2> QED BY <2>3, <2>4, <2>5, <2>6
<1>5. \A i \in DOMAIN all : \/ i \in DOMAIN a /\ all[i] = a[i]
                            \/ i - Len(a) \in DOMAIN b /\ all[i] = b[i - Len(a)]
  <2>1. SUFFICES ASSUME NEW i \in DOMAIN all
                   PROVE  (i \in DOMAIN a /\ all[i] = a[i]) \/ (i - Len(a) \in DOMAIN b /\ all[i] = b[i - Len(a)])
    OBVIOUS
  <2>2. i \in 1 .. Len(all) BY <1>2
  <2>3. CASE i <= Len(a)
    <3>1. i \in DOMAIN a BY <1>2, <2>2, <2>3
    <3> QED BY <1>2, <2>3, <3>1
  <2>4. CASE ~(i <= Len(a))
    <3>1. i - Len(a) \in 1 .. Len(b) BY <1>2, <2>2, <2>4
    <3>2. i - Len(a) \in DOMAIN b BY <1>2, <3>1
    <3> QED BY <1>2, <2>4, <3>2
  <2> QED BY <2>3, <2>4
<1>6. CASE \E i \in DOMAIN b : b[i].row = r
  <2>1. PICK i \in DOMAIN b : b[i].row = r /\ \A j \in DOMAIN b : b[j].row = r => j <= i BY <1>6, LastOne
  <2>2. Replay(S, b)[r] = Eff(b[i]) BY <2>1, ReplayLast
  <2>3. PICK k \in DOMAIN all : k = Len(a) + i BY <1>4
  <2>4. all[k] = b[i] BY <1>4, <2>3
  <2>5. \A j \in DOMAIN all : all[j].row = r => j <= k
    <3>1. SUFFICES ASSUME NEW j \in DOMAIN all, all[j].row = r PROVE j <= k OBVIOUS
    <3>2. CASE j \in DOMAIN a BY <1>2, <2>3, <3>2
    <3>3. CASE j - Len(a) \in DOMAIN b /\ all[j] = b[j - Len(a)]
      <4>1. j - Len(a) <= i BY <2>1, <3>1, <3>3
      <4> QED BY <1>2, <2>3, <4>1
    <3> QED BY <1>5, <3>1, <3>2, <3>3
  <2>6. Replay(R, all)[r] = Eff(all[k]) BY <1>2, <2>1, <2>4, <2>5, ReplayLast
  <2> QED BY <1>1, <2>2, <2>4, <2>6
<1>7. CASE (\A i \in DOMAIN b : b[i].row # r) /\ \E i \in DOMAIN a : a[i].row = r
  <2>1. PICK i \in DOMAIN a : a[i].row = r /\ \A j \in DOMAIN a : a[j].row = r => j <= i BY <1>7, LastOne
  <2>2. S[r] = Eff(a[i]) BY <2>1, ReplayLast
  <2>3. Replay(S, b)[r] = S[r] BY <1>7, ReplayNone
  <2>4. \A j \in DOMAIN all : all[j].row = r => j <= i BY <1>5, <1>7, <2>1
  <2>5. i \in DOMAIN all /\ all[i] = a[i] BY <1>3
  <2>6. Replay(R, all)[r] = Eff(all[i]) BY <1>2, <2>1, <2>4, <2>5, ReplayLast
  <2> QED BY <1>1, <2>2, <2>3, <2>5, <2>6
<1>8. CASE (\A i \in DOMAIN b : b[i].row # r) /\ \A i \in DOMAIN a : a[i].row # r
  <2>1. Replay(S, b)[r] = S[r] BY <1>8, ReplayNone
  <2>2. S[r] = R[r] BY <1>8, ReplayNone
  <2>3. \A i \in DOMAIN all : all[i].row # r BY <1>5, <1>8
  <2>4. Replay(R, all)[r] = R[r] BY <2>3, ReplayNone
  <2> QED BY <1>1, <2>1, <2>2, <2>4
<1> QED BY <1>6, <1>7, <1>8

\* With the WAL delivered nothing is coming.
LEMMA NothingComing ==
    ASSUME Types, Delivered, NEW h, NEW r
    PROVE  ~Coming(h, r)
<1>1. wal \in Seq(Change) /\ next \in Nat /\ next > Len(wal) /\ work = {} BY DEF Types, OriginOk, NodeOk, Delivered
<1>2. \A n \in DOMAIN wal : ~(next <= n) BY <1>1, LenProperties
<1> QED BY <1>1, <1>2 DEF Coming, Carried

\* A copy that a log's tail brings up to date.
LEMMA TailTells ==
    ASSUME NodeInv, NEW h \in Handles, Good(h), NEW l, l = Read(h), LogOk(l), NEW from \in Int,
           from < SnapshotEnd => NoRows(h, from), NEW R, NEW r \in Rows, ~Coming(h, r),
           ~Has(h, r, from) => R[r] = Seen(table[r]), NEW S, S = Replay(R, After(l.messages, from))
    PROVE  S[r] = Seen(table[r])
<1>1. PICK C : C = {x \in Rows : Coming(h, x)} OBVIOUS
<1>2. Messages(h) = l.messages BY DEF Messages
<1>3. \A i, j \in DOMAIN l.messages :
              i < j /\ SnapshotEnd < l.messages[i].offset /\ SnapshotEnd < l.messages[j].offset
                 => l.messages[i].offset < l.messages[j].offset
  <2>1. CASE h \in DOMAIN log BY <1>2, <2>1 DEF NodeInv, LogFits
  <2>2. CASE h \notin DOMAIN log
    <3>1. l.messages = <<>> BY <2>2 DEF Read, EmptyLog
    <3>2. DOMAIN <<>> = {} OBVIOUS
    <3> QED BY <3>1, <3>2
  <2> QED BY <2>1, <2>2
<1>4. from < SnapshotEnd => \A i \in DOMAIN l.messages : l.messages[i].offset <= from \/ SnapshotEnd < l.messages[i].offset
  BY <1>2 DEF NoRows
<1>5. \A i \in DOMAIN l.messages :
         /\ SnapshotEnd < l.messages[i].offset
         /\ \A j \in DOMAIN l.messages : l.messages[j].row = l.messages[i].row /\ SnapshotEnd < l.messages[j].offset => j <= i
         => Eff(l.messages[i]) = Seen(table[l.messages[i].row]) \/ l.messages[i].row \in C
  <2>1. ChangesRight(h) BY DEF NodeInv
  <2>2. \A i \in DOMAIN l.messages : l.messages[i].row \in Rows BY LogFacts
  <2> QED BY <1>1, <1>2, <2>1, <2>2 DEF ChangesRight
<1>6. (\A i \in DOMAIN l.messages : l.messages[i].row = r => ~(from < l.messages[i].offset))
         => R[r] = Seen(table[r]) \/ (FALSE /\ R[r] # None)
  BY <1>2 DEF Has
<1>7. PICK T, left : T = table /\ left = FALSE OBVIOUS
<1>8. TailFacts(l, from, R, T, C, left, r) BY <1>3, <1>4, <1>5, <1>6, <1>7 DEF TailFacts
<1>9. r \notin C BY <1>1
<1>10. S[r] = Seen(T[r]) \/ (left /\ S[r] # None) BY <1>8, <1>9, TailRight
<1> QED BY <1>7, <1>10

\* What the snapshot alone makes of the rows the log does not tell of afterwards.
LEMMA PartTells ==
    ASSUME NodeInv, NEW h \in Handles, Whole(h), h \in DOMAIN log, Snapshotting(h) = {}, NEW l, l = Read(h), LogOk(l),
           NEW R, NEW r \in Rows, ~Coming(h, r), ~Has(h, r, SnapshotEnd), R[r] # None => Has(h, r, Beginning),
           NEW S, S = Replay(R, SnapshotPart(l.messages))
    PROVE  S[r] = Seen(table[r])
<1>1. PICK C : C = {x \in Rows : Coming(h, x)} OBVIOUS
<1>2. Messages(h) = l.messages BY DEF Messages
<1>3. \A i \in DOMAIN l.messages : l.messages[i].row \in Rows BY LogFacts
<1>4. \A i \in DOMAIN l.messages : l.messages[i].offset < SnapshotEnd =>
         \/ Eff(l.messages[i]) = Seen(table[l.messages[i].row])
         \/ l.messages[i].row \in C
         \/ \E j \in DOMAIN l.messages : l.messages[j].row = l.messages[i].row /\ SnapshotEnd < l.messages[j].offset
  BY <1>1, <1>2, <1>3 DEF NodeInv, SnapshotRight, Told, Has
<1>5. table[r] = None \/ \E i \in DOMAIN l.messages : l.messages[i].row = r
  BY <1>2 DEF NodeInv, Complete, Known, Has
<1>6. R[r] # None => \E i \in DOMAIN l.messages : l.messages[i].row = r BY <1>2 DEF Has
<1>7. \A i \in DOMAIN l.messages : l.messages[i].row = r => ~(SnapshotEnd < l.messages[i].offset) BY <1>2 DEF Has
<1>8. PICK T, left : T = table /\ left = FALSE OBVIOUS
<1>9. SnapshotFacts(l, R, T, C, left, r) BY <1>4, <1>5, <1>6, <1>7, <1>8 DEF SnapshotFacts
<1>10. r \notin C BY <1>1
<1>11. S[r] = Seen(T[r]) \/ (left /\ S[r] # None) BY <1>9, <1>10, SnapshotTells
<1> QED BY <1>8, <1>11

\* What the invariant says of a client that waits, and of a cursor that is saved.
LEMMA StaleOnlyByFlaw == ReplicaInv /\ NoLostWakeup => ReplicaStaleOnlyByFlaw
<1> USE DEF ReplicaInv
<1>1. SUFFICES ASSUME ReplicaInv, NoLostWakeup, Delivered, CaughtUp, ~Flawed(stream[Sync].handle), ~leftover
               PROVE  replica = View
  BY DEF ReplicaStaleOnlyByFlaw
<1>2. PICK s, c, q, h, from : s = stream[Sync] /\ c = s.request /\ q = req[c] /\ h = s.handle /\ from = q.from OBVIOUS
<1>3. s # None /\ c # None /\ q.pc = "waiting" BY <1>1, <1>2 DEF CaughtUp, Pending, At
<1>4. StreamOk(s) /\ Serves(q, s) BY <1>1, <1>2, <1>3 DEF StreamFits
<1>5. Waits(q.handle, q.from, s, replica) BY <1>3, <1>4 DEF Serves
<1>6. c \in Requests BY <1>2, <1>3, <1>4 DEF StreamOk
<1>7. q.handle = h /\ (Lost(h, from) \/ Claim(h, from, replica)) BY <1>2, <1>5 DEF Waits
<1>8. h \in DOMAIN log /\ ~(from < log[h].last) BY <1>1, <1>2, <1>3, <1>6, <1>7 DEF NoLostWakeup, At
<1>9. PICK l : l = Read(h) OBVIOUS
<1>10. l = log[h] /\ LogOk(l) BY <1>1, <1>8, <1>9, ReadOk DEF Read
<1>11. ReqOk(q) /\ from \in Int BY <1>1, <1>2, <1>6 DEF Types, ReqsOk, ReqOk
<1>12. Good(h) BY <1>1, <1>2, <1>8 DEF Flawed, Good, NodeInv, LogFits
<1>13. /\ l.cut \in Int /\ l.last \in Int /\ l.cut <= l.last
       /\ \A i \in DOMAIN l.messages : l.messages[i].offset \in Int /\ l.messages[i].offset <= l.last
  BY <1>10, LogFacts
<1>14. ~Lost(h, from) BY <1>8, <1>9, <1>10, <1>11, <1>12, <1>13 DEF Lost
<1>15. ASSUME NEW r \in Rows PROVE replica[r] = View[r]
  <2>1. ~Has(h, r, from) BY <1>8, <1>9, <1>10, <1>11, <1>13 DEF Has, Messages
  <2>2. ~Coming(h, r) BY <1>1, NothingComing
  <2>3. replica[r] = Seen(table[r]) BY <1>1, <1>7, <1>14, <2>1, <2>2 DEF Claim
  <2>4. View[r] = Seen(table[r]) BY <1>1, ViewMeans DEF Types, OriginOk, Tables
  <2> QED BY <2>3, <2>4
<1>16. replica = [r \in Rows |-> replica[r]] BY <1>1 DEF ClientOk
<1>17. View = [r \in Rows |-> View[r]] BY DEF View
<1> QED BY <1>15, <1>16, <1>17

LEMMA CursorIsSafe == ReplicaInv => CursorSafe
<1> USE DEF ReplicaInv
<1>1. PICK h, o, l, R : h = cursor.handle /\ o = cursor.offset /\ l = Read(h) /\ R = replica OBVIOUS
<1>2. SUFFICES ASSUME ReplicaInv, Delivered, cursor # None, Snapshotting(h) = {}, h \in DOMAIN log, ~(o < log[h].cut),
                      ~Flawed(h), ~leftover
               PROVE  Replay(R, Owed(h, o)) = View
  <2>1. ReplicaInv /\ Delivered /\ cursor # None =>
           \/ Snapshotting(h) # {} \/ h \notin DOMAIN log \/ o < log[h].cut \/ Flawed(h) \/ leftover
           \/ Replay(R, Owed(h, o)) = View
    OBVIOUS
  <2> QED BY <1>1, <2>1 DEF CursorSafe
<1>3. h \in Handles /\ o \in Int /\ Beginning <= o /\ Beyond(h, o) /\ Position(h, o, R)
  BY <1>1, <1>2 DEF CursorFits
<1>4. l = log[h] /\ LogOk(l) /\ Messages(h) = l.messages BY <1>1, <1>2, ReadOk DEF Read, Messages
<1>5. Good(h) BY <1>2 DEF Flawed, Good, NodeInv, LogFits
<1>6. ~Lost(h, o) BY <1>1, <1>2, <1>4, <1>5 DEF Lost
<1>7. \A r : ~Coming(h, r) BY <1>2, NothingComing
<1>8. View = [r \in Rows |-> View[r]] /\ \A r \in Rows : View[r] = Seen(table[r])
  BY <1>2, ViewMeans DEF View, Types, OriginOk, Tables
<1>9. \A ms : Replay(R, ms) = [r \in Rows |-> Replay(R, ms)[r]] BY DEF Replay
<1>10. PICK owed : owed = Owed(h, o) OBVIOUS
<1>11. SUFFICES ASSUME NEW r \in Rows PROVE Replay(R, owed)[r] = Seen(table[r])
  <2>1. \A r \in Rows : Replay(R, owed)[r] = View[r] BY <1>8, <1>11
  <2>2. Replay(R, owed) = [r \in Rows |-> Replay(R, owed)[r]] BY <1>9
  <2>3. Replay(R, owed) = View BY <1>8, <2>1, <2>2
  <2> QED BY <1>10, <2>3
<1>12. CASE o > Beginning
  <2>1. owed = After(l.messages, o) BY <1>4, <1>10, <1>12 DEF Owed
  <2>2. Claim(h, o, R) BY <1>6, <1>3, <1>12 DEF Position, Beginning
  <2>3. o < SnapshotEnd => NoRows(h, o) BY <1>3, <1>5, <1>12 DEF Beyond, Beginning
  <2>4. ~Has(h, r, o) => R[r] = Seen(table[r]) BY <1>2, <1>7, <2>2 DEF Claim
  <2>5. PICK S : S = Replay(R, After(l.messages, o)) OBVIOUS
  <2>6. S[r] = Seen(table[r])
    <3>1. NodeInv /\ h \in Handles /\ Good(h) /\ l = Read(h) /\ LogOk(l) /\ o \in Int /\ ~Coming(h, r)
      BY <1>1, <1>2, <1>3, <1>4, <1>5, <1>7
    <3> QED BY <2>3, <2>4, <2>5, <3>1, TailTells
  <2> QED BY <2>1, <2>5, <2>6
<1>13. CASE ~(o > Beginning)
  <2>1. o = Beginning BY <1>3, <1>13 DEF Beginning
  <2>2. Fresh(h, R) BY <1>6, <1>3, <2>1 DEF Position
  <2>3. l.cut = Beginning
    <3>1. l.cut \in Int /\ Beginning <= l.cut BY <1>4, LogFacts
    <3> QED BY <1>2, <1>4, <2>1, <3>1 DEF Beginning
  <2>4. Whole(h) BY <1>1, <1>5, <2>3 DEF Whole
  <2>5. PICK a, b, P : /\ a = SnapshotPart(l.messages) /\ b = After(l.messages, SnapshotEnd)
                       /\ P = Replay(R, a)
    OBVIOUS
  <2>6. a \in Seq(Message) /\ b \in Seq(Message) BY <1>4, <2>5, PartTypes
  <2>7. owed = a \o b
    <3>1. Settled(h).messages = a BY <1>3, <1>4, <2>5, <1>1, SettledOk
    <3> QED BY <1>4, <1>10, <1>13, <2>5, <3>1 DEF Owed
  <2>8. Replay(R, owed)[r] = Replay(P, b)[r] BY <2>5, <2>6, <2>7, ReplayConcat
  <2>9. ~Has(h, r, SnapshotEnd) => P[r] = Seen(table[r])
    <3>1. SUFFICES ASSUME ~Has(h, r, SnapshotEnd) PROVE P[r] = Seen(table[r]) OBVIOUS
    <3>2. R[r] # None => Has(h, r, Beginning) BY <1>2, <2>2 DEF Fresh
    <3>3. ~Coming(h, r) BY <1>7
    <3>4. P = Replay(R, SnapshotPart(l.messages)) BY <2>5
    <3>5. /\ NodeInv /\ h \in Handles /\ Whole(h) /\ h \in DOMAIN log /\ Snapshotting(h) = {} /\ l = Read(h)
          /\ LogOk(l) /\ ~Coming(h, r) /\ ~Has(h, r, SnapshotEnd) /\ (R[r] # None => Has(h, r, Beginning))
      BY <1>1, <1>2, <1>3, <1>4, <2>4, <3>1, <3>2, <3>3
    <3> QED BY <3>4, <3>5, PartTells
  <2>10. PICK e : e = SnapshotEnd /\ e \in Int BY SnapshotEndNat
  <2>11. e < SnapshotEnd => NoRows(h, e) BY <2>10
  <2>12. PICK S : S = Replay(P, After(l.messages, e)) OBVIOUS
  <2>13. ~Has(h, r, e) => P[r] = Seen(table[r]) BY <2>9, <2>10
  <2>14. S[r] = Seen(table[r])
    <3>1. NodeInv /\ h \in Handles /\ Good(h) /\ l = Read(h) /\ LogOk(l) /\ ~Coming(h, r)
      BY <1>1, <1>2, <1>3, <1>4, <1>5, <1>7
    <3> QED BY <2>10, <2>11, <2>12, <2>13, <3>1, TailTells
  <2>15. S = Replay(P, b) BY <2>5, <2>10, <2>12
  <2> QED BY <2>8, <2>14, <2>15
<1> QED BY <1>12, <1>13

\* The inductive invariant holds in every state: whatever order writes, WAL
\* deliveries, snapshots, requests, deletions, restarts and stops come in, the
\* logs of good handles tell all that copies, answers and cursors lack
\* (Handler, Snapshotter, Log and sync.mjs together).
THEOREM ReplicaAlwaysFits == Spec => []ReplicaInv
<1>1. Init => ReplicaInv BY ReplicaStart
<1>2. ReplicaInv /\ NoLostWakeup /\ [Next]_vars => ReplicaInv' BY ReplicaKept, StutterKeeps
<1> QED BY <1>1, <1>2, WaitersAreWoken, PTL DEF Spec

\* A sync process (demos/turso/sync.mjs) that waits for the next change when
\* the WAL has been delivered has the table in its file, unless its handle is
\* one the node is known to have lost changes of, or it was stopped in the
\* middle of its first snapshot.
THEOREM ReplicaIsCurrent == Spec => []ReplicaStaleOnlyByFlaw
<1>1. ReplicaInv /\ NoLostWakeup => ReplicaStaleOnlyByFlaw BY StaleOnlyByFlaw
<1> QED BY <1>1, ReplicaAlwaysFits, WaitersAreWoken, PTL

\* The cursor saved in the file is never ahead of the copy: with what the log
\* holds after it the copy becomes the table, wherever the process stopped
\* between the transactions of the subscriber.
THEOREM CursorAlwaysSafe == Spec => []CursorSafe
<1>1. ReplicaInv => CursorSafe BY CursorIsSafe
<1> QED BY <1>1, ReplicaAlwaysFits, PTL
=============================================================================
