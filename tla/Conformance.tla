---------------------------- MODULE Conformance ----------------------------
(***************************************************************************)
(* demos/electric/conformance: scenarios that drive Restdis through the    *)
(* published client and compare what they get with what the protocol       *)
(* promises.  run.mjs runs them one after the other and counts those that  *)
(* fail.  A scenario is a program of the steps below; the rows 1 and 2 are *)
(* the rows it is about, in the window of keys no other scenario writes.   *)
(* So a scenario begins with a shape, a log and a table of its own.        *)
(*                                                                         *)
(* Scenario 12 is about subqueries, which are not modelled.                *)
(***************************************************************************)
EXTENDS ShapeStream

VARIABLES
    current,  \* the scenario that runs
    step,     \* the place in its program
    seen,     \* seen[c]: what collect has gathered from client c
    saved,    \* the handle and the offset the scenario has put aside
    fetch,    \* the request of a fetch without the library, or None
    verdict,  \* whether the scenario before has passed, or None
    failed    \* whether one has failed: the exit status

runner == <<current, step, seen, saved, fetch, verdict, failed>>
vars == <<serverVars, streamVars, runner>>

(***************************************************************************)
(* The table conformance_items, and the shapes that are asked for.         *)
(***************************************************************************)
Item(name, status, price) == [name |-> name, status |-> status, price |-> price]

Items == [name : {"row", "renamed"}, status : {"active", "inactive"}, price : {1, 2}]

Row == Item("row", "active", 1)
Inactive == Item("row", "inactive", 1)

Shape(where, columns, full) == [where |-> where, columns |-> columns, full |-> full]

All == Rows \X Contents
Columns == {"name", "status", "price"}
Active == {p \in All : p[2].status = "active"}

(***************************************************************************)
(* Conditions on what a client has seen.                                   *)
(***************************************************************************)
Some(c, op, row) == [is |-> "some", client |-> c, op |-> op, row |-> row]
No(c, op, row) == [is |-> "no", client |-> c, op |-> op, row |-> row]
Once(c, op, row) == [is |-> "once", client |-> c, op |-> op, row |-> row]
First(c, op, row, value, old) ==
    [is |-> "first", client |-> c, op |-> op, row |-> row, value |-> value, old |-> old]
RowIs(c, row, value) == [is |-> "has", client |-> c, row |-> row, value |-> value]
SeenUpToDate(c) == [is |-> "seen up-to-date", client |-> c]
IsUpToDate(c) == [is |-> "is up-to-date", client |-> c]
Rotated(c) == [is |-> "rotated", client |-> c]

Found(c, op, row) ==
    SelectSeq(seen[c].changes, LAMBDA m : m.op = op /\ m.row = row)

\* Shape.currentRows
Materialised(c) == Replay([r \in Rows |-> None], seen[c].changes)

Holds(cond) ==
    CASE cond.is = "some" -> Found(cond.client, cond.op, cond.row) # <<>>
      [] cond.is = "no"   -> Found(cond.client, cond.op, cond.row) = <<>>
      [] cond.is = "once" -> Len(Found(cond.client, cond.op, cond.row)) = 1
      [] cond.is = "first" -> LET m == Found(cond.client, cond.op, cond.row)[1]
                              IN m.value = cond.value /\ m.old = cond.old
      [] cond.is = "has" -> Materialised(cond.client)[cond.row] = cond.value
      [] cond.is = "seen up-to-date" -> seen[cond.client].upToDate
      [] cond.is = "is up-to-date"   -> stream[cond.client].upToDate
      [] cond.is = "rotated" -> stream[cond.client].handle # saved.handle

(***************************************************************************)
(* Bare requests.  The tenants: an open one, one with a shared secret, one *)
(* that names its shapes.                                                  *)
(***************************************************************************)
NoParams == [method |-> "GET", secret |-> None, shape |-> None, table |-> None, where |-> None,
             columns |-> None, offset |-> None, handle |-> None]

Subscription(tenant) == [NoParams EXCEPT !.offset = "-1",
                                         !.table = IF tenant = "gatekeeper" THEN None ELSE "items",
                                         !.shape = IF tenant = "gatekeeper" THEN "active_items" ELSE None,
                                         !.secret = IF tenant = "secret" THEN "right" ELSE None]

\* RestdisElectric.subscribe and do_subscribe, check by check, and before
\* them what a DELETE asks for; None when the
\* request gets past them.
Refusal(tenant, p) ==
    CASE p.method = "DELETE" /\ p.handle = None -> 400
      [] tenant = "secret" /\ p.secret # "right" -> 401
      [] p.offset \notin {"-1", "saved", "0_0"} -> 400
      [] tenant = "gatekeeper" /\ \E key \in {"table", "where", "columns"} : p[key] # None -> 400
      [] tenant = "gatekeeper" /\ p.shape # "active_items" -> 400
      [] tenant # "gatekeeper" /\ p.table # "items" -> 400
      [] p.where \notin {None, "window"} -> 400
      [] p.columns \notin {None, "id,name"} -> 400
      [] p.offset # "-1" /\ p.handle = None -> 400
      [] p.offset # "-1" /\ p.handle # "saved" -> 409
      [] OTHER -> None

Status(a) ==
    CASE a.status = "ok" -> 200 [] a.status = "must-refetch" -> 409 [] OTHER -> 502

(***************************************************************************)
(* Steps and scenarios.                                                    *)
(***************************************************************************)
Subscribe(c) == [do |-> "subscribe", client |-> c]
Resubscribe(c) == [do |-> "resubscribe", client |-> c]
Unsubscribe(c) == [do |-> "unsubscribe", client |-> c]
Query(row, content) == [do |-> "query", row |-> row, content |-> content]
SaveFrom(c) == [do |-> "save", client |-> c]
DeleteSaved == [do |-> "delete"]

\* What is asserted in the same turn of the event loop goes with the step.
Wait(cond, asserted) == [do |-> "wait", cond |-> cond, asserted |-> asserted]
Fetch(params, status) == [do |-> "fetch", params |-> params, status |-> status, rows |-> None]

Scenario(tenant, definition, rows, steps) ==
    [tenant |-> tenant, shape |-> definition, rows |-> rows, steps |-> steps, xfail |-> FALSE]

NoRows == [r \in Rows |-> None]

SnapshotAndLiveInsert ==
    Scenario("open", Shape(All, Columns, FALSE), [NoRows EXCEPT ![1] = Row], <<
        Subscribe("a"),
        Wait(Some("a", "insert", 1), {First("a", "insert", 1, Row, None)}),
        Query(2, Row),
        Wait(Some("a", "insert", 2), {First("a", "insert", 2, Row, None)})>>)

UpdateAndDelete ==
    LET renamed == [Row EXCEPT !.name = "renamed"] IN
    Scenario("open", Shape(All, Columns, FALSE), NoRows, <<
        Subscribe("a"),
        Query(1, Row),
        Wait(Some("a", "insert", 1), {First("a", "insert", 1, Row, None)}),
        Query(1, renamed),
        Wait(Some("a", "update", 1), {First("a", "update", 1, renamed, None)}),
        Query(1, None),
        Wait(Some("a", "delete", 1), {})>>)

WhereClause ==
    Scenario("open", Shape(Active, Columns, FALSE), NoRows, <<
        Subscribe("a"),
        Wait(SeenUpToDate("a"), {}),
        Query(1, Inactive), Query(2, Row),
        Wait(Some("a", "insert", 2), {No("a", "insert", 1)}),
        Query(2, Inactive),
        Wait(Some("a", "delete", 2), {No("a", "update", 2)}),
        Query(1, Row),
        Wait(Some("a", "insert", 1), {First("a", "insert", 1, Row, None)})>>)

ColumnsSelection ==
    Scenario("open", Shape(All, {"name"}, FALSE), NoRows, <<
        Subscribe("a"),
        Query(1, Row),
        Wait(Some("a", "insert", 1), {First("a", "insert", 1, [name |-> "row"], None)})>>)

ReplicaFullOldValue ==
    LET dearer == [Row EXCEPT !.price = 2] IN
    Scenario("open", Shape(All, Columns, TRUE), NoRows, <<
        Subscribe("a"),
        Query(1, Row),
        Wait(Some("a", "insert", 1), {}),
        Query(1, dearer),
        Wait(Some("a", "update", 1), {First("a", "update", 1, dearer, Row)}),
        Query(1, None),
        Wait(Some("a", "delete", 1), {First("a", "delete", 1, dearer, dearer)})>>)

ResumeOffsetAndHandle ==
    Scenario("open", Shape(All, Columns, FALSE), NoRows, <<
        Subscribe("a"),
        Wait(IsUpToDate("a"), {}), SaveFrom("a"),
        Query(1, Row),
        Wait(Some("a", "insert", 1), {}), Unsubscribe("a"),
        Resubscribe("b"),
        Wait(Some("b", "insert", 1), {First("b", "insert", 1, Row, None), Once("b", "insert", 1)})>>)

MustRefetches ==
    Scenario("open", Shape(All, Columns, FALSE), NoRows, <<
        Query(1, Row),
        Subscribe("a"),
        Wait(IsUpToDate("a"), {}), SaveFrom("a"), Unsubscribe("a"),
        DeleteSaved,
        Fetch([Subscription("open") EXCEPT !.where = "window", !.handle = "saved", !.offset = "saved"], 409),
        Resubscribe("b"),
        Wait(IsUpToDate("b"), {Rotated("b")})>>)

ShapeClass ==
    Scenario("open", Shape(All, Columns, FALSE), NoRows, <<
        Subscribe("a"),
        Wait(SeenUpToDate("a"), {}),
        Query(1, Row),
        Wait(RowIs("a", 1, Row), {}),
        Query(1, None),
        Wait(RowIs("a", 1, None), {})>>)

\* Only the fifth and the sixth request carry an offset.
ErrorResponses ==
    LET items == [NoParams EXCEPT !.table = "items"] IN
    Scenario("open", Shape(All, Columns, FALSE), NoRows, <<
        Fetch(NoParams, 400),
        Fetch([NoParams EXCEPT !.table = "no_such_table"], 400),
        Fetch([items EXCEPT !.columns = "name"], 400),
        Fetch([items EXCEPT !.where = "unsupported"], 400),
        Fetch([items EXCEPT !.offset = "not-an-offset"], 400),
        Fetch([items EXCEPT !.handle = "does-not-exist", !.offset = "0_0"], 409),
        Fetch([NoParams EXCEPT !.method = "DELETE"], 400)>>)

GatekeeperMode ==
    LET named == Subscription("gatekeeper") IN
    Scenario("gatekeeper", Shape(Active, Columns, FALSE), [NoRows EXCEPT ![1] = Row, ![2] = Inactive], <<
        [Fetch(named, 200) EXCEPT !.rows = {Row}],
        Fetch([named EXCEPT !.shape = None], 400),
        Fetch([named EXCEPT !.shape = "does-not-exist"], 400),
        Fetch([named EXCEPT !.table = "items"], 400),
        Fetch([named EXCEPT !.where = "1=1"], 400)>>)

SharedSecret ==
    LET right == Subscription("secret") IN
    Scenario("secret", Shape(All, Columns, FALSE), [NoRows EXCEPT ![1] = Row], <<
        Fetch([right EXCEPT !.secret = None], 401),
        Fetch([right EXCEPT !.secret = "wrong"], 401),
        Fetch(right, 200)>>)

Suite == <<SnapshotAndLiveInsert, UpdateAndDelete, WhereClause, ColumnsSelection,
           ReplicaFullOldValue, ResumeOffsetAndHandle, MustRefetches, ShapeClass,
           ErrorResponses, GatekeeperMode, SharedSecret>>

Running == current <= Len(Suite)
Finished == Running /\ step > Len(Suite[current].steps)
Now == Suite[current].steps[step]
Doing(what) == Running /\ ~Finished /\ Now.do = what

(***************************************************************************)
(* The steps of a scenario.                                                *)
(***************************************************************************)
Advance == step' = step + 1 /\ verdict' = None /\ UNCHANGED <<current, failed>>

Opened(c, s) ==
    /\ stream' = [stream EXCEPT ![c] = s]
    /\ Advance
    /\ UNCHANGED <<serverVars, batch, seen, saved, fetch>>

Subscribing == Doing("subscribe") /\ Opened(Now.client, Open(None, Beginning))

Resubscribing == Doing("resubscribe") /\ Opened(Now.client, Open(saved.handle, saved.offset))

\* Nobody listens any more; the stream itself goes on.
Unsubscribing ==
    /\ Doing("unsubscribe")
    /\ seen' = [seen EXCEPT ![Now.client].listening = FALSE]
    /\ Advance
    /\ UNCHANGED <<serverVars, streamVars, saved, fetch>>

Querying ==
    /\ Doing("query")
    /\ Write(Now.row, Now.content)
    /\ Advance
    /\ UNCHANGED <<streamVars, seen, saved, fetch>>

Saving ==
    /\ Doing("save")
    /\ saved' = [handle |-> stream[Now.client].handle, offset |-> stream[Now.client].offset]
    /\ Advance
    /\ UNCHANGED <<serverVars, streamVars, seen, fetch>>

Deleting ==
    /\ Doing("delete")
    /\ Deleted(saved.handle)
    /\ Advance
    /\ UNCHANGED <<faults, streamVars, seen, saved, fetch>>

Asserted == \A cond \in Now.asserted : Holds(cond)

Waited ==
    /\ Doing("wait") /\ Holds(Now.cond) /\ Asserted
    /\ Advance
    /\ UNCHANGED <<serverVars, streamVars, seen, saved, fetch>>

Refused ==
    /\ Doing("fetch") /\ Refusal(Suite[current].tenant, Now.params) = Now.status
    /\ Advance
    /\ UNCHANGED <<serverVars, streamVars, seen, saved, fetch>>

Fetching ==
    /\ Doing("fetch") /\ fetch = None /\ Refusal(Suite[current].tenant, Now.params) = None
    /\ LET free == {r \in Requests : At(r, "idle")}
           r == CHOOSE x \in free : TRUE
           again == Now.params.handle = "saved"
       IN /\ free # {}
          /\ Submit(r, IF again THEN saved.handle ELSE None, IF again THEN saved.offset ELSE Beginning, FALSE)
          /\ fetch' = r
    /\ UNCHANGED <<origin, stream_, shapes, given, faults, ghosts, streamVars,
                   current, step, seen, saved, verdict, failed>>

\* The answer has come: its status and, of a scenario that looks at them,
\* its rows are as expected.
Expected(a) ==
    /\ Status(a) = Now.status
    /\ Now.rows # None => \A i \in DOMAIN a.messages : a.messages[i].value \in Now.rows

Arrived == Doing("fetch") /\ fetch # None /\ At(fetch, "answered")

Fetched ==
    /\ Arrived /\ Expected(req[fetch].answer)
    /\ req' = [req EXCEPT ![fetch] = Idle]
    /\ fetch' = None
    /\ Advance
    /\ UNCHANGED <<origin, stream_, shapes, given, faults, ghosts, streamVars, seen, saved>>

\* The callback of collect.
Collect(c) ==
    /\ batch[c] # None
    /\ seen' = [seen EXCEPT ![c] =
                  IF ~@.listening THEN @
                  ELSE [@ EXCEPT !.changes = @ \o batch[c].changes,
                                 !.upToDate = @ \/ "up-to-date" \in batch[c].control]]
    /\ batch' = [batch EXCEPT ![c] = None]
    /\ UNCHANGED <<serverVars, stream, current, step, saved, fetch, verdict, failed>>

(***************************************************************************)
(* The end of a scenario, and the next one.                                *)
(***************************************************************************)
Unseen == [changes |-> <<>>, upToDate |-> FALSE, listening |-> TRUE]

Begin(i) ==
    LET scenario == Suite[IF i \in DOMAIN Suite THEN i ELSE 1] IN
    /\ shape' = scenario.shape /\ table' = scenario.rows /\ wal' = <<>>
    /\ next' = 1 /\ high' = 0 /\ work' = {}
    /\ registry' = {} /\ log' = NoLogs /\ given' = 0
    /\ req' = [r \in Requests |-> Idle]
    /\ gone' = {} /\ flawed' = {}
    /\ stream' = [c \in Clients |-> None] /\ batch' = [c \in Clients |-> None]
    /\ current' = i /\ step' = 1
    /\ seen' = [c \in Clients |-> Unseen]
    /\ saved' = None /\ fetch' = None
    /\ faults' = 0

\* A scenario that was expected to fail and passes is a failure too.
Verdict(passed) ==
    /\ verdict' = (passed # Suite[current].xfail)
    /\ failed' = (failed \/ ~verdict')
    /\ Begin(current + 1)

Ends == Finished /\ Verdict(TRUE)

\* Nothing more will come: all there is has been delivered, and whoever
\* asks is waiting.
Quiet ==
    /\ next > Len(wal) /\ work = {}
    /\ \A r \in Requests : req[r].pc \in {"idle", "waiting"}
    /\ \A c \in Clients : stream[c] # None => Pending(c) /\ batch[c] = None

\* The deadline of a wait is long: it finds a scenario that has nothing more
\* to wait for.
DeadlinePassed == Doing("wait") /\ ~Holds(Now.cond) /\ Quiet

\* nobody looks at the clock
FaultyTimesOut == FALSE /\ Verdict(FALSE)

TimesOut == DeadlinePassed /\ Verdict(FALSE)

AssertionFails ==
    /\ \/ Doing("wait") /\ Holds(Now.cond) /\ ~Asserted
       \/ Doing("fetch") /\ Refusal(Suite[current].tenant, Now.params) \notin {None, Now.status}
       \/ Arrived /\ ~Expected(req[fetch].answer)
    /\ Verdict(FALSE)

Init ==
    /\ shape = Suite[1].shape /\ ServerInit /\ table = Suite[1].rows
    /\ StreamInit
    /\ current = 1 /\ step = 1 /\ seen = [c \in Clients |-> Unseen]
    /\ saved = None /\ fetch = None
    /\ verdict = None /\ failed = FALSE

\* A stream of the library, and the callback it calls.
Stream(c) == Collect(c) \/ ((Ask(c) \/ Take(c)) /\ UNCHANGED runner)

Serves == Running /\ ServerStep /\ UNCHANGED <<streamVars, runner>>

Runs ==
    \/ Subscribing \/ Resubscribing \/ Unsubscribing \/ Querying \/ Saving \/ Deleting
    \/ Waited \/ Refused \/ Fetching \/ Fetched
    \/ Ends \/ AssertionFails

Next == Runs \/ TimesOut \/ Serves \/ \E c \in Clients : Stream(c)

Spec == Init /\ [][Next]_vars

(***************************************************************************)
(* Fairness: the event loop serves the scenario and every stream, the node *)
(* works on what it has begun.  A deadline passes whatever the streams do, *)
(* also while idle long polls end and begin again: strong fairness.        *)
(***************************************************************************)
FairSpec ==
    /\ Spec
    /\ WF_vars(Runs) /\ SF_vars(TimesOut)
    /\ \A c \in Clients : WF_vars(Stream(c))
    /\ WF_vars((Receive \/ ApplyStep) /\ UNCHANGED <<streamVars, runner>>)
    /\ \A r \in Requests : WF_vars(Reading(r) /\ UNCHANGED <<streamVars, runner>>)

(***************************************************************************)
(* Properties.                                                             *)
(***************************************************************************)
\* A row that was inserted while the snapshot of its shape was taken is in
\* the log twice, as a row of the snapshot and as a change.
Twice ==
    \E h \in DOMAIN log : \E i, j \in DOMAIN log[h].messages :
        /\ i < j
        /\ log[h].messages[i].row = log[h].messages[j].row
        /\ log[h].messages[i].op = "insert" /\ log[h].messages[j].op = "insert"

\* However the steps of the scenario, the library, the node and the WAL are
\* interleaved, a scenario fails only where the node has lost a change or a
\* deleted shape has come back (flawed), and the one that resumes also when
\* the insert is in the log twice.
FailsOnlyByFlaw ==
    [][verdict' = FALSE => flawed # {} \/ (Twice /\ Suite[current] = ResumeOffsetAndHandle)]_vars

\* A change that is lost or a stream that hangs fails its scenario and
\* never keeps the others from running.
SuiteEnds == <>(current > Len(Suite))
=============================================================================
