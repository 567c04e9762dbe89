----------------------------- MODULE TursoSync -----------------------------
(***************************************************************************)
(* demos/turso/sync.mjs: a process that follows the shape of a Postgres    *)
(* table and keeps a copy of it in an embedded database.  The copy and the *)
(* cursor, handle and offset of the last answer that was up to date, are   *)
(* in one file: a process that starts again goes on from the cursor, and   *)
(* takes a snapshot when there is none.  demos/videos/stage.mjs starts and *)
(* stops it, and record.mjs compares copy and table in the end.            *)
(***************************************************************************)
EXTENDS ShapeStream

CONSTANT Sync   \* the client that is the sync process

\* The process is one of the clients of the node.
ASSUME SyncAssumption == Sync \in Clients

VARIABLES
    replica,   \* the table in the file
    cursor,    \* the row of _restdis_sync, or None
    leftover   \* ghost: a snapshot is taken into a copy that holds rows already

file == <<replica, cursor, leftover>>
vars == <<serverVars, streamVars, file>>

Empty == [r \in Rows |-> None]

Running == stream[Sync] # None

\* Every row of the table belongs to the shape, with all its columns.
Orders == [NoFilter EXCEPT !.full = TRUE]

Init ==
    /\ shape = Orders
    /\ ServerInit /\ StreamInit
    /\ replica = Empty /\ cursor = None /\ leftover = FALSE

(***************************************************************************)
(* Starting and stopping.  stage.mjs removes the file unless it is asked   *)
(* to resume; the process reads the cursor before it opens the stream.     *)
(***************************************************************************)
OpenAt(saved) == IF saved = None THEN Open(None, Beginning) ELSE Open(saved.handle, saved.offset)

Start(resume) ==
    /\ ~Running
    /\ replica' = IF resume THEN replica ELSE Empty
    /\ cursor' = IF resume THEN cursor ELSE None
    /\ leftover' = (replica' # Empty /\ (leftover \/ cursor' = None))
    /\ stream' = [stream EXCEPT ![Sync] = OpenAt(cursor')]
    /\ UNCHANGED <<serverVars, batch>>

Crash ==
    /\ Running /\ Fault("crash")
    /\ Hangup(Sync)
    /\ UNCHANGED <<origin, stream_, shapes, given, ghosts, file>>

(***************************************************************************)
(* The subscriber: one answer in three parts, each its own transaction.    *)
(***************************************************************************)
Got(control) == batch[Sync] # None /\ control \in batch[Sync].control

Done == batch' = [batch EXCEPT ![Sync] = None]

Clear ==
    /\ Got("must-refetch")
    /\ replica' = Empty /\ leftover' = FALSE
    /\ Done
    /\ UNCHANGED <<serverVars, stream, cursor>>

\* BEGIN ... COMMIT
Commit ==
    /\ batch[Sync] # None /\ batch[Sync].changes # <<>>
    /\ replica' = Replay(replica, batch[Sync].changes)
    /\ batch' = [batch EXCEPT ![Sync] = IF Got("up-to-date") THEN [@ EXCEPT !.changes = <<>>] ELSE None]
    /\ UNCHANGED <<serverVars, stream, cursor, leftover>>

\* the cursor is saved before the changes are
FaultySaveCursor ==
    /\ Got("up-to-date")
    /\ cursor' = [handle |-> stream[Sync].handle, offset |-> stream[Sync].offset]
    /\ batch' = [batch EXCEPT ![Sync] = IF batch[Sync].changes = <<>> THEN None ELSE [@ EXCEPT !.control = {}]]
    /\ UNCHANGED <<serverVars, stream, replica, leftover>>

SaveCursor ==
    /\ Got("up-to-date") /\ batch[Sync].changes = <<>>
    /\ cursor' = [handle |-> stream[Sync].handle, offset |-> stream[Sync].offset]
    /\ Done
    /\ UNCHANGED <<serverVars, stream, replica, leftover>>

WriteStep == \E r \in Rows : \E content \in Contents \cup {None} : Write(r, content)

SyncStep == Clear \/ Commit \/ SaveCursor

Next ==
    \/ (WriteStep \/ ServerStep) /\ UNCHANGED <<streamVars, file>>
    \/ Ask(Sync) /\ UNCHANGED file
    \/ Take(Sync) /\ UNCHANGED file
    \/ Disconnect(Sync) /\ UNCHANGED file
    \/ (\E r \in Requests : Abandoned(r)) /\ UNCHANGED file
    \/ SyncStep
    \/ \E resume \in BOOLEAN : Start(resume)
    \/ Crash

Spec == Init /\ [][Next]_vars

(***************************************************************************)
(* Fairness: the node, the WAL and the library go on with what they have   *)
(* begun, and somebody starts the process again with its file.  Nobody has *)
(* to write, and nothing has to fail.                                      *)
(***************************************************************************)
FairSpec ==
    /\ Spec
    /\ WF_vars((Receive \/ ApplyStep) /\ UNCHANGED <<streamVars, file>>)
    /\ \A r \in Requests : WF_vars(Reading(r) /\ UNCHANGED <<streamVars, file>>)
    /\ WF_vars(SyncStep \/ ((Ask(Sync) \/ Take(Sync)) /\ UNCHANGED file))
    /\ WF_vars(Start(TRUE))

(***************************************************************************)
(* Properties.                                                             *)
(***************************************************************************)
Delivered == next > Len(wal) /\ work = {}

\* The client has nothing in hand and waits for the next change.
CaughtUp == Pending(Sync) /\ At(stream[Sync].request, "waiting")

Flawed(h) == h \in flawed

\* When the WAL has been delivered and the process waits for more, its copy
\* is the table.  What can keep it from that is named: the log of its
\* handle misses something (flawed), or the process was stopped in the
\* middle of its first snapshot and started again with what it had copied.
ReplicaStaleOnlyByFlaw ==
    Delivered /\ CaughtUp => replica = View \/ Flawed(stream[Sync].handle) \/ leftover

\* The same without the escape, as the registry and the snapshotter promise.
UpToDateMeansCurrent == Delivered /\ CaughtUp => replica = View

\* What the log of h has for a client that goes on from there: from the
\* beginning the snapshot is sent first.
Owed(h, from) ==
    IF from > Beginning THEN After(log[h].messages, from)
    ELSE Settled(h).messages \o After(log[h].messages, SnapshotEnd)

\* The cursor is never ahead of the copy: what the log holds after it turns
\* the copy into the table, whatever of the answers since had been applied.
CursorSafe ==
    (Delivered /\ cursor # None /\ batch[Sync] = None) =>
        LET h == cursor.handle IN
        \/ Snapshotting(h) # {} \/ h \notin DOMAIN log \/ cursor.offset < log[h].cut \/ Flawed(h) \/ leftover
        \/ Replay(replica, Owed(h, cursor.offset)) = View

\* Nobody waits in a log that holds something for him.
NoLostWakeup ==
    \A r \in Requests :
        LET h == req[r].handle
        IN At(r, "waiting") => h \in DOMAIN log /\ ~(req[r].from < log[h].last)

\* In the end the copy is the table and stays it.
Converges ==
    <>[](replica = View \/ leftover \/ (Running /\ Flawed(stream[Sync].handle)))
=============================================================================
