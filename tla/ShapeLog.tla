------------------------------ MODULE ShapeLog ------------------------------
(***************************************************************************)
(* restdis_electric: the shapes of one table.  A shape is a filtered table *)
(* whose changes clients follow by offset.  A request from offset -1 gives *)
(* the shape a log: it registers the handle, reads the table page by page  *)
(* and appends the rows; meanwhile workers append the WAL changes of every *)
(* registered handle.  Later requests read the log after their offset, or  *)
(* wait in it for the next append.  The log is kept on disk, the registry  *)
(* in memory only.                                                         *)
(*                                                                         *)
(* Offsets are numbers here, in the order of Offset.before?: -1, then the  *)
(* rows of the snapshot, 0_inf, and the changes.                           *)
(*                                                                         *)
(* A request runs call by call in req[c].  What a client does with the     *)
(* answers is in ShapeStream and the modules that use it.  A definition    *)
(* named Faulty<X> is <X> with a plausible bug in it; nothing here uses    *)
(* it.                                                                     *)
(***************************************************************************)
EXTENDS Integers, Sequences, FiniteSetsExt

CONSTANTS
    Rows,       \* primary keys of the table, numbers
    Contents,   \* what a row may hold: functions from columns to values
    Requests,   \* places for the requests under way
    MaxHandles, \* bound: how many handles are given out
    MaxWrites,  \* bound: how many changes are committed
    MaxFaults,  \* bound: how many of the faults below happen
    Faults,     \* which faults this instance has
    PageSize,   \* Snapshotter.page_size
    Direct,     \* the snapshot is read in one transaction (DirectPostgres)
    Workers,    \* how many WAL changes are applied at a time
    Retention,  \* max_log_operations, 0 for no limit
    None        \* no row, no handle

FaultNames == {"restart", "delete", "snapshot", "lag", "coalesce", "crash", "disconnect"}

ASSUME ShapeAssumption ==
    /\ Rows \subseteq Int /\ IsFiniteSet(Rows)
    /\ MaxHandles \in Nat /\ MaxWrites \in Nat /\ MaxFaults \in Nat /\ Retention \in Nat
    /\ PageSize \in Nat \ {0} /\ Workers \in Nat \ {0} /\ Direct \in BOOLEAN
    /\ Faults \subseteq FaultNames /\ None \notin Contents /\ None \notin Int

Handles == 1 .. MaxHandles

VARIABLES
    shape,     \* the definition the requests carry
    table,     \* Postgres: the rows of the table
    wal,       \* its changes in commit order; a change's place is its LSN
    next,      \* the LSN the WAL stream delivers next
    high,      \* the highest LSN delivered so far
    work,      \* the changes workers have in hand
    registry,  \* ShapeRegistry: the registered handles
    log,       \* the log of each handle that has one
    given,     \* how many handles have been given out
    req,       \* req[c]: how far request c has come
    faults,    \* how many faults have happened
    gone,      \* ghost: the handles that have been deleted
    flawed     \* ghost: handles for which the code is known to lose or mix up changes

origin == <<shape, table, wal>>
stream_ == <<next, high, work>>
shapes == <<registry, log>>
ghosts == <<gone, flawed>>
serverVars == <<origin, stream_, shapes, given, req, faults, ghosts>>

(***************************************************************************)
(* Offsets and messages.                                                   *)
(***************************************************************************)
Beginning == -1
SnapshotEnd == Cardinality(Rows)

\* {lsn, unique_integer}: a change that is delivered again may get a smaller
\* or a larger second part, for the numbers start anew with the VM.
ChangeOffsets(lsn) ==
    {SnapshotEnd + 3 * lsn + k : k \in IF lsn > high THEN {0} ELSE {-1, 1}}

Later(a, b) == IF a < b THEN b ELSE a

\* The members of a set of numbers, smallest first.
InOrder(S) == [i \in 1 .. Cardinality(S) |-> CHOOSE r \in S : Cardinality({q \in S : q <= r}) = i]

\* The messages at these places, in their order.
Picked(messages, places) ==
    LET at == InOrder(places) IN [i \in DOMAIN at |-> messages[at[i]]]

After(messages, from) == Picked(messages, {i \in DOMAIN messages : from < messages[i].offset})

SnapshotPart(messages) == Picked(messages, {i \in DOMAIN messages : messages[i].offset <= SnapshotEnd})

\* The definition of a handle that is not registered.
NoFilter == [where |-> Rows \X Contents, columns |-> UNION {DOMAIN c : c \in Contents}, full |-> FALSE]

DefinitionFor(h) == IF h \in registry THEN shape ELSE NoFilter

Matches(d, row, content) == content # None /\ <<row, content>> \in d.where

Project(d, content) == [f \in DOMAIN content \cap d.columns |-> content[f]]

\* a row that leaves the shape is not reported
FaultyLoggedOperation(before, after) ==
    CASE after /\ ~before -> "insert"
      [] after /\ before  -> "update"
      [] OTHER            -> None

\* What a change means to the shape: a row may enter and leave it.
LoggedOperation(before, after) ==
    CASE after /\ ~before -> "insert"
      [] after /\ before  -> "update"
      [] ~after /\ before -> "delete"
      [] OTHER            -> None

ChangeMessage(d, offset, change) ==
    LET op == LoggedOperation(Matches(d, change.row, change.old), Matches(d, change.row, change.new))
        value == IF op = "delete" THEN change.old ELSE change.new
    IN IF op = None THEN None
       ELSE [offset |-> offset, op |-> op, row |-> change.row, value |-> Project(d, value),
             old |-> IF d.full /\ op # "insert" THEN Project(d, change.old) ELSE None]

\* A message of a log: the row's columns of the shape, after the change or before it.
Values == {Project(NoFilter, content) : content \in Contents}
Message == [offset : Int, op : {"insert", "update", "delete"}, row : Rows, value : Values,
            old : Values \cup {None}]

\* None, the nil of the code, is apart from everything it could be instead of.
ASSUME NoneAssumption ==
    None \notin {"insert", "update", "delete"} /\ None \notin Message /\ None \notin [Rows -> Contents \cup {None}]

(***************************************************************************)
(* Logs and requests.                                                      *)
(***************************************************************************)
EmptyLog == [messages |-> <<>>, last |-> Beginning, cut |-> Beginning]

NoLogs == [h \in {} |-> EmptyLog]

Read(h) == IF h \in DOMAIN log THEN log[h] ELSE EmptyLog

With(h, l) == [x \in DOMAIN log \cup {h} |-> IF x = h THEN l ELSE log[x]]

\* do_append: the front goes when the log exceeds its retention.
Appended(l, new) ==
    LET all == l.messages \o new
        drop == IF Retention > 0 /\ Len(all) > Retention THEN Len(all) - Retention ELSE 0
    IN [messages |-> SubSeq(all, drop + 1, Len(all)),
        last |-> Max({l.last} \cup {new[i].offset : i \in DOMAIN new}),
        cut |-> IF drop = 0 THEN l.cut ELSE Later(l.cut, all[drop].offset)]

Idle == [pc |-> "idle", handle |-> None, from |-> Beginning, live |-> FALSE, page |-> 0,
         count |-> 0, rows |-> None, base |-> None, answer |-> None]

Answer(status, h, messages, offset, upToDate) ==
    [status |-> status, handle |-> h, messages |-> messages, offset |-> offset, upToDate |-> upToDate]

Ok(h, messages, offset, upToDate) == Answer("ok", h, messages, offset, upToDate)
MustRefetch(h) == Answer("must-refetch", h, <<>>, Beginning, FALSE)
Failed == Answer("error", None, <<>>, Beginning, FALSE)

Answered(a) == [Idle EXCEPT !.pc = "answered", !.answer = a]

At(c, pc) == req[c].pc = pc
Goto(c, pc) == req' = [req EXCEPT ![c].pc = pc]

\* The log of h as of now: whoever waits for what has come is answered.
Woken(r, h, l) ==
    IF r.pc = "waiting" /\ r.handle = h /\ r.from < l.last
    THEN Answered(Ok(h, After(l.messages, r.from), l.last, TRUE))
    ELSE r

AppendTo(h, new) ==
    LET l == Appended(Read(h), new)
    IN /\ log' = With(h, l)
       /\ req' = [c \in Requests |-> Woken(req[c], h, l)]

\* A deleted shape comes back when a change, a request or a client that has
\* got past the registry, or the registry itself, makes its log anew.
Back(h) == gone \cap {h}

\* The requests that read the table for h.
Snapshotting(h) == {c \in Requests : req[c].handle = h /\ req[c].pc \in {"new", "fetch", "append"}}

(***************************************************************************)
(* What a log tells, and will still tell, of a row.                        *)
(***************************************************************************)
Messages(h) == Read(h).messages

\* The log of h has a message about row r after offset o.
Has(h, r, o) == \E i \in DOMAIN Messages(h) : Messages(h)[i].row = r /\ o < Messages(h)[i].offset

\* The last change of row r is n, and a worker has it or will get it for h.
Newest(n, r) == n \in DOMAIN wal /\ wal[n].row = r /\ \A m \in DOMAIN wal : n < m => wal[m].row # r

Carried(h, n) == next <= n \/ \E w \in work : w.lsn = n /\ h \in w.todo

Coming(h, r) == \E n \in DOMAIN wal : Newest(n, r) /\ Carried(h, n)

\* A change about the row is in the log behind the snapshot, or on its way.
Told(h, r) == Coming(h, r) \/ Has(h, r, SnapshotEnd)

(***************************************************************************)
(* Postgres.  A row deleted between two pages shifts the rows behind it by *)
(* one: the page read next, by its offset, begins one row too late.        *)
(***************************************************************************)
Shifted(r) ==
    {req[c].handle : c \in {x \in Requests : ~Direct /\ req[x].page > 0
                                            /\ req[x].pc \in {"fetch", "append"}}}

Write(r, content) ==
    /\ Len(wal) < MaxWrites /\ table[r] # content
    /\ table' = [table EXCEPT ![r] = content]
    /\ wal' = Append(wal, [row |-> r, old |-> table[r], new |-> content])
    /\ flawed' = IF content = None THEN flawed \cup Shifted(r) ELSE flawed
    /\ UNCHANGED <<shape, stream_, shapes, given, req, faults, gone>>

(***************************************************************************)
(* The WAL.  A worker looks up the handles a change concerns and applies   *)
(* it to one after the other.  Over its cap the tenant's change is counted *)
(* instead, for the sweeper, which clears caches and knows no shapes.      *)
(***************************************************************************)
\* Logs a restart has unregistered: they miss what is delivered now.
Unregistered == DOMAIN log \ registry

Receive ==
    /\ next <= Len(wal) /\ Cardinality(work) < Workers
    /\ \E offset \in ChangeOffsets(next) :
          work' = IF registry = {} THEN work
                  ELSE work \cup {[lsn |-> next, offset |-> offset, todo |-> registry]}
    /\ next' = next + 1 /\ high' = Later(high, next)
    /\ flawed' = flawed \cup Unregistered
    /\ UNCHANGED <<origin, shapes, given, req, faults, gone>>

Fault(name) == name \in Faults /\ faults < MaxFaults /\ faults' = faults + 1

Coalesce ==
    /\ Fault("coalesce")
    /\ next <= Len(wal) /\ Cardinality(work) = Workers
    /\ next' = next + 1 /\ high' = Later(high, next)
    /\ flawed' = flawed \cup registry \cup Unregistered
    /\ UNCHANGED <<origin, work, shapes, given, req, gone>>

MessageFor(w, h) == ChangeMessage(DefinitionFor(h), w.offset, wal[w.lsn])

Apply(w, h) ==
    LET message == MessageFor(w, h)
        rest == w.todo \ {h}
    IN /\ work' = (work \ {w}) \cup IF rest = {} THEN {} ELSE {[w EXCEPT !.todo = rest]}
       /\ IF message = None THEN UNCHANGED <<log, req, flawed>>
          ELSE /\ AppendTo(h, <<message>>)
               /\ flawed' = flawed \cup Back(h) \cup IF Read(h).last < w.offset THEN {} ELSE {h}
       /\ UNCHANGED <<origin, next, high, registry, given, faults, gone>>

ApplyStep == \E w \in work : \E h \in w.todo : Apply(w, h)

(***************************************************************************)
(* A request from -1: ensure_snapshot, from_beginning.                     *)
(***************************************************************************)
Submit(c, h, from, live) ==
    req' = [req EXCEPT ![c] = [Idle EXCEPT !.pc = IF from = Beginning THEN "ensure" ELSE "resume",
                                           !.handle = h, !.from = from, !.live = live]]

\* A request without a handle gets a new one.
Ensure(c) ==
    LET h == IF req[c].handle = None THEN given + 1 ELSE req[c].handle IN
    /\ At(c, "ensure") /\ h \in Handles
    /\ given' = Later(given, h)
    /\ req' = [req EXCEPT ![c].handle = h, ![c].pc = IF Read(h).messages = <<>> THEN "new" ELSE "rejoin"]
    /\ UNCHANGED <<origin, stream_, shapes, faults, ghosts>>

Registers(h) == registry' = registry \cup {h}

\* the registration is left to the first change
FaultyStartSnapshot(c) ==
    /\ At(c, "new")
    /\ Goto(c, "fetch")
    /\ UNCHANGED <<origin, stream_, shapes, given, faults, ghosts>>

\* finish_new_shape registers before the first page is read.
StartSnapshot(c) ==
    /\ At(c, "new")
    /\ Registers(req[c].handle)
    /\ Goto(c, "fetch")
    /\ UNCHANGED <<origin, stream_, log, given, faults, ghosts>>

\* A log that holds anything is taken for a complete one.
Rejoin(c) ==
    LET h == req[c].handle IN
    /\ At(c, "rejoin")
    /\ Registers(h)
    /\ Goto(c, "settle")
    /\ UNCHANGED <<origin, stream_, log, given, faults, ghosts>>

\* The rows of a table in the order of their keys: who there is, and its place.
Present(t) == {q \in Rows : t[q] # None}

Rank(S, r) == Cardinality({q \in S : q <= r})

Place(t, r) == Rank(Present(t), r)

\* The rows from place from + 1 on.
Page(t, from) ==
    [r \in {x \in Present(t) : from < Place(t, x) /\ Place(t, x) <= from + PageSize} |-> t[r]]

GetsPage(c, base) ==
    LET rows == Page(base, req[c].page) IN
    /\ At(c, "fetch")
    /\ req' = [req EXCEPT ![c].base = IF Direct THEN base ELSE None,
                          ![c].rows = rows, ![c].page = @ + PageSize,
                          ![c].pc = IF DOMAIN rows = {} THEN "settle" ELSE "append"]

FetchPage(c) ==
    /\ GetsPage(c, IF Direct /\ req[c].base # None THEN req[c].base ELSE table)
    /\ UNCHANGED <<origin, stream_, shapes, given, faults, ghosts>>

\* The table after its first k changes.
AsOf(k) ==
    [r \in Rows |-> LET later == {n \in DOMAIN wal : k < n /\ wal[n].row = r}
                    IN IF later = {} THEN table[r] ELSE wal[Min(later)].old]

\* The page the table would have given holds a row that is another or is not on
\* the page from t, and no change will tell it.
Misses(h, t, from) ==
    LET rows == DOMAIN Page(t, from) IN
    \E r \in Rows :
       /\ ~Told(h, r)
       /\ \/ r \in rows /\ t[r] # table[r]
          \/ /\ r \in Present(table) \ rows /\ from < Place(table, r)
             /\ Place(table, r) <= from + PageSize \/ Cardinality(rows) < PageSize

\* PostgREST may be asked at a replica (replica_url) that has not got so far.
FetchReplica(c) ==
    LET h == req[c].handle IN
    /\ ~Direct /\ Fault("lag")
    /\ \E k \in 0 .. Len(wal) - 1 :
          /\ GetsPage(c, AsOf(k))
          /\ flawed' = flawed \cup IF Misses(h, AsOf(k), req[c].page) THEN {h} ELSE {}
    /\ UNCHANGED <<origin, stream_, shapes, given, gone>>

\* The matching rows of a page, numbered on from the pages before.
SnapshotMessages(c) ==
    LET rows == req[c].rows
        matching == InOrder({r \in DOMAIN rows : Matches(shape, r, rows[r])})
    IN [i \in DOMAIN matching |->
          [offset |-> req[c].count + i - 1, op |-> "insert", row |-> matching[i],
           value |-> Project(shape, rows[matching[i]]), old |-> None]]

\* An empty shape takes its snapshot again, also under a request that waits
\* for its first change: what that is answered with, in the order of the log,
\* may have a row of the snapshot behind a newer change.
Followed(h) ==
    {req[c].handle : c \in {x \in Requests : req[x].handle = h /\ req[x].from = Beginning
                                            /\ req[x].pc \in {"await", "waiting"}}}

\* The boundary of a cut is the offset of the last message dropped, and a row
\* of the snapshot may stand behind a change: one above the boundary is gone.
Hidden(h, new) ==
    LET all == Read(h).messages \o new
        l == Appended(Read(h), new)
    IN IF \E i \in 1 .. Len(all) - Len(l.messages) : l.cut < all[i].offset THEN {h} ELSE {}

AppendPage(c) ==
    LET h == req[c].handle
        new == SnapshotMessages(c)
        l == Appended(Read(h), new)
        last == Cardinality(DOMAIN req[c].rows) < PageSize
    IN /\ At(c, "append")
       /\ log' = IF new = <<>> THEN log ELSE With(h, l)
       /\ req' = [x \in Requests |->
                    IF x = c THEN [req[c] EXCEPT !.pc = IF last THEN "settle" ELSE "fetch",
                                                 !.count = @ + Len(new), !.rows = None]
                    ELSE IF new = <<>> THEN req[x] ELSE Woken(req[x], h, l)]
       /\ flawed' = IF new = <<>> THEN flawed
                    ELSE flawed \cup Back(h) \cup Followed(h) \cup Hidden(h, new)
       /\ UNCHANGED <<origin, stream_, registry, given, faults, gone>>

\* send_live_or_settled: a live request with nothing to send waits.
Reply(r, a) ==
    IF a.messages = <<>> /\ r.live
    THEN [r EXCEPT !.pc = "await", !.from = a.offset, !.page = 0, !.count = 0, !.base = None]
    ELSE Answered(a)

\* everything behind the snapshot is skipped
FaultySettled(h) ==
    Ok(h, SnapshotPart(Read(h).messages), Read(h).last, TRUE)

\* Snapshot first: what comes after it is left to the next request.
Settled(h) ==
    LET snapshot == SnapshotPart(Read(h).messages)
    IN IF Len(snapshot) = Len(Read(h).messages)
       THEN Ok(h, snapshot, Read(h).last, TRUE)
       ELSE Ok(h, snapshot, SnapshotEnd, FALSE)

\* What is read while another request still reads the table for h is half a
\* snapshot, and the other half comes behind its reader.
Half(h) == IF Snapshotting(h) = {} THEN {} ELSE {h}

\* Only resume asks whether the log still reaches back to the offset.
Gap(h, from) == IF h \in DOMAIN log /\ from < log[h].cut THEN {h} ELSE {}

Settle(c) ==
    LET h == req[c].handle IN
    /\ At(c, "settle")
    /\ req' = [req EXCEPT ![c] = Reply(@, Settled(h))]
    /\ flawed' = flawed \cup Gap(h, Beginning) \cup Half(h)
    /\ UNCHANGED <<origin, stream_, shapes, given, faults, gone>>

(***************************************************************************)
(* A request from any other offset: resume, Log.read, Log.await.           *)
(***************************************************************************)
Refetch(c) ==
    /\ given < MaxHandles
    /\ given' = given + 1
    /\ req' = [req EXCEPT ![c] = Answered(MustRefetch(given + 1))]

Resume(c) ==
    LET h == req[c].handle IN
    /\ At(c, "resume")
    /\ Registers(h)
    /\ IF Gap(h, req[c].from) # {} THEN Refetch(c) ELSE Goto(c, "read") /\ UNCHANGED given
    /\ UNCHANGED <<origin, stream_, log, faults, ghosts>>

ReadLog(c) ==
    LET h == req[c].handle
        from == req[c].from
    IN /\ At(c, "read")
       /\ IF h \notin DOMAIN log THEN Refetch(c) /\ UNCHANGED flawed
          ELSE /\ req' = [req EXCEPT ![c] = Reply(@, Ok(h, After(log[h].messages, from),
                                                        Later(from, log[h].last), TRUE))]
               /\ flawed' = flawed \cup Gap(h, from)
               /\ UNCHANGED given
       /\ UNCHANGED <<origin, stream_, shapes, faults, gone>>

\* the log is not asked whether there is something already
FaultyAwaitLog(c) ==
    /\ At(c, "await")
    /\ log' = With(req[c].handle, Read(req[c].handle))
    /\ Goto(c, "waiting")
    /\ UNCHANGED <<origin, stream_, registry, given, faults, ghosts>>

\* ensure_started makes a log where there is none.
AwaitLog(c) ==
    LET h == req[c].handle
        from == req[c].from
        l == Read(h)
    IN /\ At(c, "await")
       /\ log' = With(h, l)
       /\ req' = [req EXCEPT ![c] = IF from < l.last THEN Answered(Ok(h, After(l.messages, from), l.last, TRUE))
                                    ELSE [@ EXCEPT !.pc = "waiting"]]
       /\ flawed' = flawed \cup Gap(h, from) \cup Back(h)
       /\ UNCHANGED <<origin, stream_, registry, given, faults, gone>>

Timeout(c) ==
    /\ At(c, "waiting")
    /\ req' = [req EXCEPT ![c] = Answered(Ok(@.handle, <<>>, @.from, TRUE))]
    /\ UNCHANGED <<origin, stream_, shapes, given, faults, ghosts>>

(***************************************************************************)
(* delete_shape, by request or because a snapshot failed.  The process of  *)
(* the log stops under whoever waits in it, and under the workers that are *)
(* calling it: they exit, and leave out the handles they still had.        *)
(***************************************************************************)
Calling(h) == {w \in work : h \in DOMAIN log /\ h \in w.todo /\ MessageFor(w, h) # None}

DeleteShape(h) ==
    /\ registry' = registry \ {h}
    /\ log' = [x \in DOMAIN log \ {h} |-> log[x]]
    /\ gone' = gone \cup {h}
    /\ \E exits \in SUBSET Calling(h) :
          /\ work' = work \ exits
          /\ flawed' = flawed \cup UNION {w.todo \ {h} : w \in exits}

StopsWaiting(c, h) == At(c, "waiting") /\ req[c].handle = h

Deleted(h) ==
    /\ DeleteShape(h)
    /\ req' = [c \in Requests |-> IF StopsWaiting(c, h) THEN Answered(Failed) ELSE req[c]]
    /\ UNCHANGED <<origin, next, high, given>>

Delete(h) == Fault("delete") /\ h <= given /\ Deleted(h)

SnapshotFails(c) ==
    LET h == req[c].handle IN
    /\ Fault("snapshot") /\ At(c, "fetch")
    /\ DeleteShape(h)
    /\ req' = [x \in Requests |-> IF x = c \/ StopsWaiting(x, h) THEN Answered(Failed) ELSE req[x]]
    /\ UNCHANGED <<origin, next, high, given>>

(***************************************************************************)
(* The node restarts: logs are on disk, the registry is empty, requests    *)
(* and workers are gone.  The WAL is sent again from behind the highest    *)
(* LSN that was acknowledged and saved in time.  Workers acknowledge in    *)
(* any order, those of other tables too: what a worker had in hand before  *)
(* that LSN is not sent again.                                             *)
(***************************************************************************)
Passed(l) == UNION {w.todo : w \in {x \in work : x.lsn < l}}

Restart ==
    /\ Fault("restart")
    /\ \E l \in 1 .. next :
          /\ next' = l
          /\ flawed' = flawed \cup {h \in DOMAIN log : Snapshotting(h) # {}} \cup Passed(l)
    /\ work' = {}
    /\ registry' = {}
    /\ log' = [h \in {x \in DOMAIN log : log[x] # EmptyLog} |-> log[h]]
    /\ req' = [c \in Requests |-> IF req[c].pc \in {"idle", "answered"} THEN req[c] ELSE Answered(Failed)]
    /\ UNCHANGED <<origin, high, given, gone>>

ServerInit ==
    /\ table \in [Rows -> Contents \cup {None}] /\ wal = <<>>
    /\ next = 1 /\ high = 0 /\ work = {}
    /\ registry = {} /\ log = NoLogs /\ given = 0
    /\ req = [c \in Requests |-> Idle]
    /\ faults = 0
    /\ gone = {} /\ flawed = {}

\* What a request does by itself until it is answered or has to wait.
Reading(c) ==
    \/ Ensure(c) \/ StartSnapshot(c) \/ Rejoin(c) \/ FetchPage(c) \/ AppendPage(c) \/ Settle(c)
    \/ Resume(c) \/ ReadLog(c) \/ AwaitLog(c)

ServerStep ==
    \/ Receive \/ Coalesce \/ ApplyStep
    \/ \E c \in Requests : Reading(c) \/ Timeout(c) \/ FetchReplica(c) \/ SnapshotFails(c)
    \/ \E h \in Handles : Delete(h)
    \/ Restart
=============================================================================
