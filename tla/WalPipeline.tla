---------------------------- MODULE WalPipeline ----------------------------
(***************************************************************************)
(* restdis_buster: from the logical replication slot to the caches of the  *)
(* nodes.  One node's Tailer streams the slot and publishes every row      *)
(* change to the FanoutSubscriber of each node; the subscriber starts a    *)
(* worker for it or, when the tenant has too many workers, counts it in a  *)
(* coalesce bucket the CoalesceSweeper later turns into a flush of the     *)
(* table.  A worker that has applied its change acknowledges the change's  *)
(* LSN in the node's LsnStore, from where it reaches the checkpoint row    *)
(* and, through the Tailer's standby status, the slot.                     *)
(*                                                                         *)
(* The WAL is a constant: a sequence of transactions, each a sequence of   *)
(* the tables its row changes belong to; a transaction's place is its LSN. *)
(* All tables belong to one tenant.  What a worker does to the cache is    *)
(* the operation "invalidate" of module TenantCache; here it is one step.  *)
(*                                                                         *)
(* A definition named Faulty<X> is <X> with a plausible bug in it: the     *)
(* README says which property each of them breaks.  Nothing here uses it.  *)
(***************************************************************************)
EXTENDS Integers, Sequences, FiniteSets

CONSTANTS
    Nodes,        \* the nodes of the cluster
    Wal,          \* the transactions, in commit order
    Tables,       \* the tables of the publication
    Infra,        \* restdis' own tables, whose workers are not metered
    Unconfigured, \* tables no tenant has configured
    Cap,          \* worker_per_tenant_cap
    Tasks,        \* places for workers: as many as max_children
    Faults,       \* which faults this instance has
    MaxConnects,  \* bound: how often a tailer starts to stream
    None          \* "no node", "no event", "no sweep"

FaultNames == {"tailer_crash", "node_crash", "supervisor_crash", "worker_error", "sweep_error",
               "lookup_error", "db_error"}

ASSUME WalAssumption ==
    /\ Wal \in Seq(Seq(Tables)) /\ \A l \in DOMAIN Wal : Wal[l] # <<>>
    /\ Infra \subseteq Tables /\ Unconfigured \subseteq Tables
    /\ Cap \in Nat /\ MaxConnects \in Nat /\ Faults \subseteq FaultNames
    /\ IsFiniteSet(Tasks)
    /\ None \notin Nodes /\ None \notin [table : Tables, count : Nat, taken : BOOLEAN]

\* A row change: its transaction's LSN and its place in the transaction.
Events == UNION {{l} \X DOMAIN Wal[l] : l \in DOMAIN Wal}
Lsns == 0 .. Len(Wal)
TableOf(e) == Wal[e[1]][e[2]]
NextRow(e) == IF e[2] < Len(Wal[e[1]]) THEN <<e[1], e[2] + 1>> ELSE <<e[1] + 1, 1>>
Precedes(e, f) == e[1] < f[1] \/ (e[1] = f[1] /\ e[2] < f[2])

VARIABLES
    owner,      \* the node whose Tailer streams the slot, or None
    cursor,     \* the row change the stream delivers next
    connects,   \* how often a tailer has started to stream
    slot,       \* Postgres: transactions before it are not sent again
    checkpoint, \* the row of wal_checkpoint
    up,         \* the nodes that run
    mailbox,    \* mailbox[n]: what n's FanoutSubscriber has not yet received
    task,       \* task[n][i]: the worker in place i of n
    sem,        \* sem[n]: the tenant's semaphore
    coalesced,  \* coalesced[n][t]: the coalesce bucket of table t
    sweep,      \* sweep[n]: the bucket n's sweeper is working on
    applied,    \* applied[n]: the LSN in n's LsnStore
    persisted,  \* persisted[n]: the LSN n last wrote to the checkpoint row
    sent,       \* ghost: every row change ever published
    handled,    \* ghost, handled[n]: row changes whose effect n's cache has seen
    owed,       \* ghost, owed[n]: row changes coalesced and not flushed since
    acked       \* ghost, acked[n]: LSNs acknowledged since n started

stream == <<owner, cursor, connects, slot>>
node == <<mailbox, task, sem, coalesced, sweep, applied, persisted>>
ghosts == <<sent, handled, owed, acked>>
vars == <<stream, checkpoint, up, node, ghosts>>

Free == [pc |-> "free", ev |-> None, metered |-> FALSE, current |-> 0]
Worker == [pc : {"apply", "ack", "cas", "release"}, ev : Events, metered : BOOLEAN, current : Lsns]
Sweep == [table : Tables, count : Nat, taken : BOOLEAN]

TypeOK ==
    /\ owner \in Nodes \cup {None} /\ cursor \in Nat \X Nat /\ connects \in 0 .. MaxConnects
    /\ slot \in 1 .. Len(Wal) + 1 /\ checkpoint \in Lsns /\ up \subseteq Nodes
    /\ mailbox \in [Nodes -> Seq(Events)]
    /\ task \in [Nodes -> [Tasks -> Worker \cup {Free}]]
    /\ sem \in [Nodes -> Nat]
    /\ coalesced \in [Nodes -> [Tables -> Int]]
    /\ sweep \in [Nodes -> Sweep \cup {None}]
    /\ applied \in [Nodes -> Lsns] /\ persisted \in [Nodes -> Lsns]
    /\ sent \subseteq Events
    /\ handled \in [Nodes -> SUBSET Events] /\ owed \in [Nodes -> SUBSET Events]
    /\ acked \in [Nodes -> SUBSET Lsns]

Init ==
    /\ owner = None /\ cursor = <<1, 1>> /\ connects = 0 /\ slot = 1
    /\ checkpoint = 0 /\ up = Nodes
    /\ mailbox = [n \in Nodes |-> <<>>]
    /\ task = [n \in Nodes |-> [i \in Tasks |-> Free]]
    /\ sem = [n \in Nodes |-> 0]
    /\ coalesced = [n \in Nodes |-> [t \in Tables |-> 0]]
    /\ sweep = [n \in Nodes |-> None]
    /\ applied = [n \in Nodes |-> 0] /\ persisted = [n \in Nodes |-> 0]
    /\ sent = {} /\ handled = [n \in Nodes |-> {}] /\ owed = [n \in Nodes |-> {}]
    /\ acked = [n \in Nodes |-> {}]

Larger(a, b) == IF a > b THEN a ELSE b

\* What reading the checkpoint row gives: 0 when the database does not answer.
ReadCheckpoint == {checkpoint} \cup {l \in {0} : "db_error" \in Faults}

(***************************************************************************)
(* The Tailer.  Postgres lets one connection stream the slot and starts at *)
(* the later of the position it was asked for and the one it holds; a      *)
(* stream begins at the first row of a transaction.                        *)
(***************************************************************************)
Connect(n) ==
    /\ owner = None /\ n \in up /\ connects < MaxConnects
    /\ owner' = n /\ connects' = connects + 1
    /\ \E l \in ReadCheckpoint : cursor' = <<Larger(slot, l), 1>>
    /\ UNCHANGED <<slot, checkpoint, up, node, ghosts>>

Disconnect ==
    /\ "tailer_crash" \in Faults /\ owner # None /\ connects < MaxConnects
    /\ owner' = None
    /\ UNCHANGED <<cursor, connects, slot, checkpoint, up, node, ghosts>>

\* Dispatcher.dispatch publishes to the subscribers of every zone.
Send ==
    /\ owner # None /\ cursor \in Events
    /\ mailbox' = [n \in Nodes |-> IF n \in up THEN Append(mailbox[n], cursor) ELSE mailbox[n]]
    /\ cursor' = NextRow(cursor)
    /\ sent' = sent \cup {cursor}
    /\ UNCHANGED <<owner, connects, slot, checkpoint, up, task, sem, coalesced, sweep, applied,
                   persisted, handled, owed, acked>>

\* the position after the one that is one past the LSN
FaultyKeepAlive ==
    /\ owner # None /\ applied[owner] > 0
    /\ slot' = Larger(slot, applied[owner] + 2)
    /\ UNCHANGED <<owner, cursor, connects, checkpoint, up, node, ghosts>>

\* The answer to a keepalive: the flushed position is one past the LSN this
\* node has applied.  Postgres never moves the slot back.
KeepAlive ==
    /\ owner # None /\ applied[owner] > 0
    /\ slot' = Larger(slot, applied[owner] + 1)
    /\ UNCHANGED <<owner, cursor, connects, checkpoint, up, node, ghosts>>

(***************************************************************************)
(* The FanoutSubscriber: Worker.Supervisor.start_worker.                   *)
(***************************************************************************)
\* A child that cannot be started is dropped, its place released again.
Spawn(n, e, metered) ==
    \/ \E i \in Tasks :
          /\ task[n][i] = Free
          /\ task' = [task EXCEPT ![n][i] = [pc |-> "apply", ev |-> e, metered |-> metered,
                                             current |-> 0]]
          /\ sem' = IF metered THEN [sem EXCEPT ![n] = @ + 1] ELSE sem
    \/ (\A i \in Tasks : task[n][i] # Free) /\ UNCHANGED <<task, sem>>

Acknowledge(n, l) ==
    /\ applied' = [applied EXCEPT ![n] = Larger(@, l)]
    /\ acked' = [acked EXCEPT ![n] = @ \cup {l}]

\* :not_found: there is nothing to invalidate, and the LSN is acknowledged.
ReceiveUnconfigured(n, e) ==
    /\ TableOf(e) \in Unconfigured \ Infra
    /\ Acknowledge(n, e[1])
    /\ handled' = [handled EXCEPT ![n] = @ \cup {e}]
    /\ UNCHANGED <<task, sem, coalesced, owed>>

ReceiveInfra(n, e) ==
    /\ TableOf(e) \in Infra
    /\ Spawn(n, e, FALSE)
    /\ UNCHANGED <<coalesced, applied, handled, owed, acked>>

\* try_acquire raises the semaphore and lowers it again when over the cap.
ReceiveMetered(n, e) ==
    /\ TableOf(e) \notin Infra \cup Unconfigured
    /\ sem[n] + 1 <= Cap
    /\ Spawn(n, e, TRUE)
    /\ UNCHANGED <<coalesced, applied, handled, owed, acked>>

Coalesce(n, e) ==
    /\ TableOf(e) \notin Infra \cup Unconfigured
    /\ sem[n] + 1 > Cap
    /\ coalesced' = [coalesced EXCEPT ![n][TableOf(e)] = @ + 1]
    /\ owed' = [owed EXCEPT ![n] = @ \cup {e}]
    /\ UNCHANGED <<task, sem, applied, handled, acked>>

\* The configuration lookup raised: the event is logged and skipped.
LookupFails(n, e) ==
    /\ "lookup_error" \in Faults /\ TableOf(e) \notin Infra
    /\ UNCHANGED <<task, sem, coalesced, applied, handled, owed, acked>>

Receive(n) ==
    /\ n \in up /\ mailbox[n] # <<>>
    /\ LET e == Head(mailbox[n]) IN
          \/ ReceiveUnconfigured(n, e) \/ ReceiveInfra(n, e) \/ ReceiveMetered(n, e)
          \/ Coalesce(n, e) \/ LookupFails(n, e)
    /\ mailbox' = [mailbox EXCEPT ![n] = Tail(@)]
    /\ UNCHANGED <<stream, checkpoint, up, sweep, persisted, sent>>

(***************************************************************************)
(* A worker.                                                               *)
(***************************************************************************)
Apply(n, i) ==
    /\ task[n][i].pc = "apply"
    /\ handled' = [handled EXCEPT ![n] = @ \cup {task[n][i].ev}]
    /\ task' = [task EXCEPT ![n][i].pc = "ack"]
    /\ UNCHANGED <<stream, checkpoint, up, mailbox, sem, coalesced, sweep, applied, persisted, sent,
                   owed, acked>>

\* a worker that crashes keeps its place
FaultyWorkerFails(n, i) ==
    /\ "worker_error" \in Faults /\ task[n][i].pc = "apply"
    /\ task' = [task EXCEPT ![n][i] = Free]
    /\ UNCHANGED <<stream, checkpoint, up, mailbox, sem, coalesced, sweep, applied, persisted, ghosts>>

\* The handler or the shape log raised: nothing is acknowledged, and the place
\* is released by the `after` clause.
WorkerFails(n, i) ==
    /\ "worker_error" \in Faults /\ task[n][i].pc = "apply"
    /\ task' = [task EXCEPT ![n][i].pc = "release"]
    /\ UNCHANGED <<stream, checkpoint, up, mailbox, sem, coalesced, sweep, applied, persisted, ghosts>>

\* LsnStore.bump: an LSN that is not newer is done; otherwise compare and swap.
AckRead(n, i) ==
    LET l == task[n][i].ev[1] IN
    /\ task[n][i].pc = "ack"
    /\ \/ /\ l <= applied[n]
          /\ task' = [task EXCEPT ![n][i].pc = "release"]
          /\ acked' = [acked EXCEPT ![n] = @ \cup {l}]
       \/ /\ l > applied[n]
          /\ task' = [task EXCEPT ![n][i].pc = "cas", ![n][i].current = applied[n]]
          /\ UNCHANGED acked
    /\ UNCHANGED <<stream, checkpoint, up, mailbox, sem, coalesced, sweep, applied, persisted, sent,
                   handled, owed>>

\* the new LSN is written whatever the atomic holds by now
FaultyAckCas(n, i) ==
    LET l == task[n][i].ev[1] IN
    /\ task[n][i].pc = "cas"
    /\ applied' = [applied EXCEPT ![n] = l]
    /\ acked' = [acked EXCEPT ![n] = @ \cup {l}]
    /\ task' = [task EXCEPT ![n][i].pc = "release"]
    /\ UNCHANGED <<stream, checkpoint, up, mailbox, sem, coalesced, sweep, persisted, sent, handled,
                   owed>>

\* a compare and swap that fails is not tried again
FaultyRetry(n, i) ==
    LET l == task[n][i].ev[1] IN
    /\ task[n][i].pc = "cas"
    /\ IF applied[n] = task[n][i].current
       THEN applied' = [applied EXCEPT ![n] = l] /\ acked' = [acked EXCEPT ![n] = @ \cup {l}]
       ELSE UNCHANGED <<applied, acked>>
    /\ task' = [task EXCEPT ![n][i].pc = "release"]
    /\ UNCHANGED <<stream, checkpoint, up, mailbox, sem, coalesced, sweep, persisted, sent, handled,
                   owed>>

AckCas(n, i) ==
    LET l == task[n][i].ev[1] IN
    /\ task[n][i].pc = "cas"
    /\ \/ /\ applied[n] = task[n][i].current
          /\ applied' = [applied EXCEPT ![n] = l]
          /\ acked' = [acked EXCEPT ![n] = @ \cup {l}]
          /\ task' = [task EXCEPT ![n][i].pc = "release"]
       \/ /\ applied[n] # task[n][i].current
          /\ task' = [task EXCEPT ![n][i].pc = "ack"]
          /\ UNCHANGED <<applied, acked>>
    /\ UNCHANGED <<stream, checkpoint, up, mailbox, sem, coalesced, sweep, persisted, sent, handled,
                   owed>>

Release(n, i) ==
    /\ task[n][i].pc = "release"
    /\ sem' = IF task[n][i].metered THEN [sem EXCEPT ![n] = @ - 1] ELSE sem
    /\ task' = [task EXCEPT ![n][i] = Free]
    /\ UNCHANGED <<stream, checkpoint, up, mailbox, coalesced, sweep, applied, persisted, ghosts>>

WorkerStep(n, i) == Apply(n, i) \/ AckRead(n, i) \/ AckCas(n, i) \/ Release(n, i)

(***************************************************************************)
(* The CoalesceSweeper: the count of a bucket is read, subtracted, and the *)
(* table flushed; workers keep counting in between.                        *)
(***************************************************************************)
\* buckets that hold a single event are not worth a flush
FaultySweepRead(n) ==
    /\ n \in up /\ sweep[n] = None
    /\ \E t \in Tables :
          /\ coalesced[n][t] > 1
          /\ sweep' = [sweep EXCEPT ![n] = [table |-> t, count |-> coalesced[n][t], taken |-> FALSE]]
    /\ UNCHANGED <<stream, checkpoint, up, mailbox, task, sem, coalesced, applied, persisted, ghosts>>

SweepRead(n) ==
    /\ n \in up /\ sweep[n] = None
    /\ \E t \in Tables :
          /\ coalesced[n][t] > 0
          /\ sweep' = [sweep EXCEPT ![n] = [table |-> t, count |-> coalesced[n][t], taken |-> FALSE]]
    /\ UNCHANGED <<stream, checkpoint, up, mailbox, task, sem, coalesced, applied, persisted, ghosts>>

SweepTake(n) ==
    /\ sweep[n] # None /\ ~sweep[n].taken
    /\ coalesced' = [coalesced EXCEPT ![n][sweep[n].table] = @ - sweep[n].count]
    /\ sweep' = [sweep EXCEPT ![n].taken = TRUE]
    /\ UNCHANGED <<stream, checkpoint, up, mailbox, task, sem, applied, persisted, ghosts>>

\* the sweep ends by clearing the buckets it has gone through
FaultySweepFlush(n) ==
    /\ sweep[n] # None /\ sweep[n].taken
    /\ LET covered == {e \in owed[n] : TableOf(e) = sweep[n].table} IN
          /\ handled' = [handled EXCEPT ![n] = @ \cup covered]
          /\ owed' = [owed EXCEPT ![n] = @ \ covered]
    /\ coalesced' = [coalesced EXCEPT ![n] = [t \in Tables |-> 0]]
    /\ sweep' = [sweep EXCEPT ![n] = None]
    /\ UNCHANGED <<stream, checkpoint, up, mailbox, task, sem, applied, persisted, sent, acked>>

SweepFlush(n) ==
    /\ sweep[n] # None /\ sweep[n].taken
    /\ LET covered == {e \in owed[n] : TableOf(e) = sweep[n].table} IN
          /\ handled' = [handled EXCEPT ![n] = @ \cup covered]
          /\ owed' = [owed EXCEPT ![n] = @ \ covered]
    /\ sweep' = [sweep EXCEPT ![n] = None]
    /\ UNCHANGED <<stream, checkpoint, up, mailbox, task, sem, coalesced, applied, persisted, sent, acked>>

\* The flush raised: the sweeper is restarted without its bucket.
SweepFails(n) ==
    /\ "sweep_error" \in Faults /\ sweep[n] # None /\ sweep[n].taken
    /\ sweep' = [sweep EXCEPT ![n] = None]
    /\ UNCHANGED <<stream, checkpoint, up, mailbox, task, sem, coalesced, applied, persisted, ghosts>>

SweepStep(n) == SweepRead(n) \/ SweepTake(n) \/ SweepFlush(n)

\* LsnStore's tick writes the checkpoint row if this node has something newer
\* than what it wrote itself.
Persist(n) ==
    /\ n \in up /\ applied[n] > persisted[n]
    /\ checkpoint' = applied[n]
    /\ persisted' = [persisted EXCEPT ![n] = applied[n]]
    /\ UNCHANGED <<stream, up, mailbox, task, sem, coalesced, sweep, applied, ghosts>>

(***************************************************************************)
(* Crashes of more than one process.                                       *)
(***************************************************************************)
\* The worker supervisor takes its workers and both of its tables with it.  A
\* sweep finds no table and crashes, or goes on: the count it has read is then
\* subtracted from an empty bucket.
SupervisorCrash(n) ==
    /\ "supervisor_crash" \in Faults /\ n \in up
    /\ task' = [task EXCEPT ![n] = [i \in Tasks |-> Free]]
    /\ sem' = [sem EXCEPT ![n] = 0]
    /\ coalesced' = [coalesced EXCEPT ![n] = [t \in Tables |-> 0]]
    /\ sweep' \in {sweep, [sweep EXCEPT ![n] = None]}
    /\ UNCHANGED <<stream, checkpoint, up, mailbox, applied, persisted, ghosts>>

NodeDown(n) ==
    /\ "node_crash" \in Faults /\ n \in up
    /\ up' = up \ {n}
    /\ owner' = IF owner = n THEN None ELSE owner
    /\ mailbox' = [mailbox EXCEPT ![n] = <<>>]
    /\ task' = [task EXCEPT ![n] = [i \in Tasks |-> Free]]
    /\ sem' = [sem EXCEPT ![n] = 0]
    /\ coalesced' = [coalesced EXCEPT ![n] = [t \in Tables |-> 0]]
    /\ sweep' = [sweep EXCEPT ![n] = None]
    /\ acked' = [acked EXCEPT ![n] = {}]
    /\ UNCHANGED <<cursor, connects, slot, checkpoint, applied, persisted, sent, handled, owed>>

\* LsnStore.init reads the checkpoint row.
NodeUp(n) ==
    /\ n \notin up
    /\ up' = up \cup {n}
    /\ \E l \in ReadCheckpoint :
          /\ applied' = [applied EXCEPT ![n] = l]
          /\ persisted' = [persisted EXCEPT ![n] = l]
    /\ UNCHANGED <<stream, checkpoint, mailbox, task, sem, coalesced, sweep, ghosts>>

-----------------------------------------------------------------------------
Next == \/ \E n \in Nodes : \/ Connect(n) \/ Receive(n) \/ SweepStep(n) \/ SweepFails(n) \/ Persist(n)
                            \/ SupervisorCrash(n) \/ NodeDown(n) \/ NodeUp(n)
                            \/ \E i \in Tasks : WorkerStep(n, i) \/ WorkerFails(n, i)
        \/ Disconnect \/ Send \/ KeepAlive

Spec == Init /\ [][Next]_vars

\* Every process gets its turn, the sweeper's timer fires, Postgres keeps
\* sending, and some node connects when none is connected.
Fairness ==
    /\ WF_vars(Send) /\ WF_vars(KeepAlive) /\ WF_vars(\E n \in Nodes : Connect(n))
    /\ \A n \in Nodes : WF_vars(Receive(n)) /\ WF_vars(SweepStep(n))
    /\ \A n \in Nodes : \A i \in Tasks : WF_vars(WorkerStep(n, i))

FairSpec == Spec /\ Fairness
-----------------------------------------------------------------------------
(***************************************************************************)
(* Properties.                                                             *)
(***************************************************************************)
Waiting(n, e) == \E k \in DOMAIN mailbox[n] : mailbox[n][k] = e
Working(n, e) == \E i \in Tasks : task[n][i].ev = e /\ task[n][i].pc = "apply"

\* A coalesced change is still counted, or a sweep is about to flush its table.
ToBeFlushed(n, e) ==
    /\ e \in owed[n]
    /\ \/ coalesced[n][TableOf(e)] > 0
       \/ sweep[n] # None /\ sweep[n].table = TableOf(e)

\* However subscriber, workers and sweeper interleave, and however often the
\* Tailer reconnects, a published change is on its way on every node until that
\* node's cache has seen it: in the mailbox, with a worker, or in a bucket that
\* will be flushed.  (README: "sends it to every node ... Each node then
\* invalidates".)
NothingForgotten ==
    \A n \in up : \A e \in sent :
        e \in handled[n] \/ Waiting(n, e) \/ Working(n, e) \/ ToBeFlushed(n, e)

\* The stream resumes, after any crash, no later than where it broke off.
\* (wal_invalidation_test.exs: "Tailer crash + restart resumes from last
\* applied LSN (no event loss)".)
ResumesWithoutGap == \A e \in Events : Precedes(e, cursor) => e \in sent

\* Whatever workers acknowledge concurrently, the LSN a node reports is never
\* below one it has acknowledged.
AcksKept == \A n \in up : \A l \in acked[n] : l <= applied[n]

\* The semaphore counts the workers that run, whatever crashed: a leak would
\* sooner or later turn every change of the tenant into a table flush.
SemaphoreExact ==
    \A n \in Nodes : sem[n] = Cardinality({i \in Tasks : task[n][i] # Free /\ task[n][i].metered})

\* An LSN is confirmed only when every change up to it has been handled.
\* (ELECTRIC_PRD.md: "an LSN is confirmed back to Postgres only after every
\* active shape has durably written every change up to that LSN".)
ConfirmedAreHandled == \A n \in Nodes : \A e \in Events : e[1] < slot => e \in handled[n]

\* Every change reaches every node's cache, with backpressure and with a Tailer
\* that crashes now and then.
EventuallyHandled == \A n \in Nodes : <>(\A e \in Events : e \in handled[n])

\* When the WAL ends with a change that is never coalesced, Postgres is told in
\* the end that all of it has been consumed, and can recycle it, however the
\* acknowledgements of concurrent workers meet.  (A coalesced change is never
\* acknowledged: behind it the slot waits for a later one.)
EventuallyConfirmed == <>(slot = Len(Wal) + 1)
=============================================================================
