---------------------------- MODULE TursoReplica ----------------------------
(***************************************************************************)
(* The inductive invariant of TursoSync: what holds between the table, the *)
(* WAL, the logs, the requests under way and the copy of the sync process  *)
(* in every state, and makes that the copy and the cursor can be trusted.  *)
(* TLC checks it on an instance; TursoReplicaProofs shows that every step  *)
(* keeps it.                                                               *)
(*                                                                         *)
(* Most parts say what a log still tells.  A client of handle h that has   *)
(* read up to offset o may be wrong about a row only when the log has a    *)
(* later message about it (Has) or will get one (Coming).  All of it is    *)
(* said of handles nothing has gone wrong with (Good): the others are in   *)
(* gone or flawed, which the properties let through.                       *)
(***************************************************************************)
EXTENDS TursoSync

(***************************************************************************)
(* Logs and what they tell.                                                *)
(***************************************************************************)
Log == [messages : Seq(Message), last : Int, cut : Int]

\* No message has the offset of the end of the snapshot, which is between its rows and the changes.
LogOk(l) ==
    /\ l \in Log
    /\ l.messages = <<>> => l.last = Beginning
    /\ l.messages # <<>> => 0 <= l.last
    /\ Beginning <= l.cut /\ l.cut <= l.last
    /\ Retention > 0 => Len(l.messages) <= Retention
    /\ \A i \in DOMAIN l.messages :
          0 <= l.messages[i].offset /\ l.messages[i].offset <= l.last /\ l.messages[i].offset # SnapshotEnd

\* What a message makes of its row.
Eff(m) == IF m.op = "delete" THEN None ELSE m.value

\* What a client of the whole table sees of a row.
Seen(content) == IF content = None THEN None ELSE Project(NoFilter, content)

Good(h) == h \notin flawed /\ h \notin gone

\* Nothing has been cut from the log.
Whole(h) == Good(h) /\ Read(h).cut = Beginning

\* A client that has read up to o cannot be served from the log of h any more.
Lost(h, o) == ~Good(h) \/ o < Read(h).cut

\* Whoever reads the log from the beginning hears of the row, if there is one.
Known(h, r) == table[r] = None \/ Coming(h, r) \/ Has(h, r, Beginning)

\* The log of h has no row of the snapshot after o.
NoRows(h, o) == \A i \in DOMAIN Messages(h) : Messages(h)[i].offset <= o \/ SnapshotEnd < Messages(h)[i].offset

(***************************************************************************)
(* Types, and what the fields of a request hold at each of its calls.      *)
(***************************************************************************)
Change == [row : Rows, old : Contents \cup {None}, new : Contents \cup {None}]

Tables == [Rows -> Contents \cup {None}]

\* The calls that need a handle.
Busy == {"new", "rejoin", "fetch", "append", "settle", "resume", "read", "await", "waiting"}

Fields == {"pc", "handle", "from", "live", "page", "count", "rows", "base", "answer"}

\* The table is what its WAL has made of it.
OriginOk == /\ shape = Orders /\ table \in Tables /\ wal \in Seq(Change)
            /\ \A n \in DOMAIN wal : wal[n].old # wal[n].new
            /\ \A r \in Rows, n \in DOMAIN wal : Newest(n, r) => wal[n].new = table[r]

NodeOk == /\ next \in Nat \ {0} /\ next <= Len(wal) + 1
          /\ work \subseteq [lsn : Nat, offset : Int, todo : SUBSET Handles]
          /\ registry \subseteq Handles /\ DOMAIN log \subseteq Handles
          /\ given \in Nat /\ given <= MaxHandles

AnswerOk(a) ==
    /\ a.status \in {"ok", "must-refetch", "error"}
    /\ a.status # "error" => a.handle \in Handles
    /\ a.messages \in Seq(Message) /\ a.offset \in Int /\ Beginning <= a.offset /\ a.upToDate \in BOOLEAN
    /\ a.status = "must-refetch" => a.messages = <<>> /\ a.offset = Beginning

\* The rows of a page fit between those appended before and the end of the snapshot.
RowsOk(q) ==
    /\ DOMAIN q.rows \subseteq Rows /\ \A r \in DOMAIN q.rows : q.rows[r] \in Contents
    /\ q.count + Cardinality(DOMAIN q.rows) <= q.page
    /\ q.count + Cardinality(DOMAIN q.rows) <= SnapshotEnd

ReqOk(q) ==
    /\ DOMAIN q = Fields
    /\ q.pc \in Busy \cup {"idle", "ensure", "answered"}
    /\ q.handle \in Handles \cup {None} /\ (q.pc \in Busy => q.handle \in Handles)
    /\ q.from \in Int /\ Beginning <= q.from
    /\ q.page \in Nat /\ q.count \in Nat /\ q.count <= q.page
    /\ q.base = None \/ q.base \in Tables
    /\ q.pc \in {"ensure", "new"} => q.page = 0 /\ q.base = None
    /\ q.pc \in {"ensure", "new", "rejoin", "fetch", "append", "settle"} => q.from = Beginning
    /\ q.pc \in {"resume", "read"} => 0 <= q.from
    /\ q.pc \in {"fetch", "append"} /\ Direct /\ q.base = None => q.page = 0
    /\ q.pc = "append" => RowsOk(q)
    /\ q.pc = "answered" => AnswerOk(q.answer)

ReqsOk == DOMAIN req = Requests /\ \A c \in Requests : ReqOk(req[c])

Types == OriginOk /\ NodeOk /\ ReqsOk

(***************************************************************************)
(* The node.                                                               *)
(***************************************************************************)
\* The changes of a log are in the order of their offsets; an empty log is a
\* registered one.
LogFits(h) ==
    /\ LogOk(log[h])
    /\ h \in gone => h \in flawed
    /\ Good(h) => \A i, j \in DOMAIN Messages(h) :
          i < j /\ SnapshotEnd < Messages(h)[i].offset /\ SnapshotEnd < Messages(h)[j].offset
             => Messages(h)[i].offset < Messages(h)[j].offset
    /\ Good(h) /\ Messages(h) = <<>> => h \in registry

\* Every change delivered after one a worker has in hand is still to be
\* appended, or the log ends past the one in hand already: then the append
\* marks the handle as flawed.
WorkFits(w) ==
    /\ 1 <= w.lsn /\ w.lsn < next
    /\ SnapshotEnd + 3 * w.lsn - 1 <= w.offset /\ w.offset <= SnapshotEnd + 3 * w.lsn + 1
    /\ \A h \in w.todo : Good(h) =>
          /\ h \in registry
          /\ \A m \in 1 .. next - 1 : w.lsn < m => w.offset <= Read(h).last \/ Carried(h, m)

\* The last change about a row in the log is the row as it is, or a newer
\* one is coming.
ChangesRight(h) == Good(h) =>
    \A i \in DOMAIN Messages(h) :
       /\ SnapshotEnd < Messages(h)[i].offset
       /\ \A j \in DOMAIN Messages(h) :
             Messages(h)[j].row = Messages(h)[i].row /\ SnapshotEnd < Messages(h)[j].offset => j <= i
       => Eff(Messages(h)[i]) = Seen(table[Messages(h)[i].row]) \/ Coming(h, Messages(h)[i].row)

\* So is a row of the snapshot, or a change corrects it.
SnapshotRight(h) == Whole(h) =>
    \A i \in DOMAIN Messages(h) : Messages(h)[i].offset < SnapshotEnd =>
       Eff(Messages(h)[i]) = Seen(table[Messages(h)[i].row]) \/ Told(h, Messages(h)[i].row)

\* The log has every row when nobody reads the table for it.
Complete(h) ==
    Whole(h) /\ (h \in registry \/ h \in DOMAIN log) /\ Snapshotting(h) = {} => \A r \in Rows : Known(h, r)

\* The table as the snapshot of request c reads it, its rows by their order.
Base(c) == IF Direct /\ req[c].base # None THEN req[c].base ELSE table

\* A snapshot under way: what it has read or will read is the row, or a
\* change corrects it, and the pages read so far leave no row out.
SnapFits(c) == LET h == req[c].handle IN
    /\ req[c].pc \in {"fetch", "append"} /\ Whole(h) =>
         /\ \A r \in Rows : Base(c)[r] = table[r] \/ Told(h, r)
         /\ \A r \in Present(Base(c)) : Place(Base(c), r) <= req[c].page =>
               Known(h, r) \/ (req[c].pc = "append" /\ r \in DOMAIN req[c].rows)
    /\ req[c].pc = "append" /\ Whole(h) =>
         /\ \A r \in DOMAIN req[c].rows : req[c].rows[r] = table[r] \/ Told(h, r)
         /\ Cardinality(DOMAIN req[c].rows) < PageSize =>
               \A r \in Present(Base(c)) : Known(h, r) \/ r \in DOMAIN req[c].rows

\* Offset o has been given out for h: it is in the log, and nothing will be
\* put into the log in front of it.
Beyond(h, o) == Good(h) /\ 0 <= o =>
    /\ Messages(h) # <<>> /\ o <= Read(h).last
    /\ o < SnapshotEnd => Snapshotting(h) = {} /\ NoRows(h, o)

\* What a request may rely on at its next call.
ReqFits(c) == LET q == req[c]
                  h == q.handle IN
    /\ q.pc \in {"fetch", "append", "settle", "await", "waiting", "read"} /\ Good(h) => h \in registry
    /\ q.pc = "rejoin" /\ Good(h) => Messages(h) # <<>>
    /\ q.pc \in {"resume", "read", "await", "waiting"} => Beyond(h, q.from)
    /\ q.pc \in {"await", "waiting"} /\ q.from = Beginning /\ Good(h) => NoRows(h, Beginning)
    /\ q.pc = "answered" /\ q.answer.status = "ok" => Beyond(q.answer.handle, q.answer.offset)

NodeInv ==
    /\ \A h \in DOMAIN log : LogFits(h)
    /\ \A w \in work : WorkFits(w)
    /\ \A h \in Handles : ChangesRight(h) /\ SnapshotRight(h) /\ Complete(h)
    /\ \A c \in Requests : SnapFits(c) /\ ReqFits(c)

(***************************************************************************)
(* The client.                                                             *)
(***************************************************************************)
\* A copy R that is right up to offset o of h: the log tells the other rows.
Claim(h, o, R) == \A r \in Rows : ~Has(h, r, o) /\ ~Coming(h, r) => R[r] = Seen(table[r]) \/ (leftover /\ R[r] # None)

\* A copy into which the snapshot of h may be put.
Fresh(h, R) == \A r \in Rows : R[r] # None => leftover \/ Has(h, r, Beginning)

Position(h, o, R) == Lost(h, o) \/ IF o = Beginning THEN Fresh(h, R) ELSE Claim(h, o, R)

\* A copy before there is a handle.
New(R) == \A r \in Rows : R[r] # None => leftover

Standing(h, o, R) == IF h = None THEN New(R) ELSE Position(h, o, R)

\* The cursor is of no use any more: whoever goes on from it is told to refetch.
CursorGone == cursor = None \/ Lost(cursor.handle, cursor.offset)

\* The cursor is behind these messages, and behind this offset.
Ahead(ms) == CursorGone \/ \A i \in DOMAIN ms : Has(cursor.handle, ms[i].row, cursor.offset)

Behind(h, o) == CursorGone \/ (h = cursor.handle /\ cursor.offset <= o)

(***************************************************************************)
(* What a request serves to its client: of a stream s with the copy R, by  *)
(* a request from the beginning, by one that waits at offset o, and with   *)
(* an answer of the messages ms, R being the copy with them applied.       *)
(***************************************************************************)
Early(h, s, live, R) ==
    /\ s.offset = Beginning
    /\ Standing(h, Beginning, R)
    /\ s.handle = None \/ h = s.handle
    /\ live => s.handle # None
    /\ h # s.handle => CursorGone

Waits(h, o, s, R) == h = s.handle /\ s.offset <= o /\ (Lost(h, o) \/ Claim(h, o, R))

Answers(h, o, ms, R) ==
    /\ Position(h, o, R)
    /\ o = Beginning => ms = <<>>
    /\ Behind(h, o) /\ Ahead(ms)

Serves(q, s) ==
    /\ q.pc # "idle"
    /\ q.pc \in {"ensure", "new", "rejoin", "fetch", "append", "settle"} => Early(q.handle, s, q.live, replica)
    /\ q.pc \in {"resume", "read"} => q.handle = s.handle /\ q.from = s.offset
    /\ q.pc \in {"await", "waiting"} => Waits(q.handle, q.from, s, replica)
    /\ q.pc = "answered" /\ q.answer.status = "ok" =>
          Answers(q.answer.handle, q.answer.offset, q.answer.messages, Replay(replica, q.answer.messages))
    /\ q.pc = "answered" /\ q.answer.status = "must-refetch" => CursorGone

\* The copy with what the subscriber still has in hand.
Hand == IF batch[Sync] = None THEN replica
        ELSE IF "must-refetch" \in batch[Sync].control THEN Empty ELSE Replay(replica, batch[Sync].changes)

\* The saved cursor never claims more than the file holds.
CursorFits == cursor # None =>
    /\ cursor.handle \in Handles /\ cursor.offset \in Int /\ Beginning <= cursor.offset
    /\ Beyond(cursor.handle, cursor.offset)
    /\ Position(cursor.handle, cursor.offset, replica)

StreamOk(s) ==
    /\ s.handle \in Handles \cup {None} /\ s.offset \in Int /\ Beginning <= s.offset
    /\ s.handle = None => s.offset = Beginning /\ s.upToDate = FALSE
    /\ s.request \in Requests \cup {None}

BatchFits(b) ==
    /\ b \in Batches /\ stream[Sync].handle # None /\ stream[Sync].request = None
    /\ Ahead(b.changes)
    /\ "must-refetch" \in b.control => b.changes = <<>> /\ "up-to-date" \notin b.control /\ CursorGone

\* The stream is where the copy and the answer in hand have got to.
StreamFits == LET s == stream[Sync] IN
    IF s = None THEN batch[Sync] = None
    ELSE /\ StreamOk(s)
         /\ Beyond(s.handle, s.offset)
         /\ Standing(s.handle, s.offset, Hand)
         /\ Behind(s.handle, s.offset)
         /\ batch[Sync] # None => BatchFits(batch[Sync])
         /\ s.request # None => Serves(req[s.request], s)

ClientOk == /\ DOMAIN stream = Clients /\ DOMAIN batch = Clients
            /\ replica \in [Rows -> Values \cup {None}]
            /\ stream[Sync] \in Streams \cup {None}

(***************************************************************************)
(* Every log nothing has gone wrong with tells what it should (ShapeLog),  *)
(* every request under way has it from the log, and copy, cursor and       *)
(* stream of sync.mjs are never ahead of each other.                       *)
(***************************************************************************)
ReplicaInv == Types /\ NodeInv /\ ClientOk /\ CursorFits /\ StreamFits
=============================================================================
