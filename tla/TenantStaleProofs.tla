------------------------- MODULE TenantStaleProofs -------------------------
(***************************************************************************)
(* Theorems about what TenantCache promises of stale values: what is older *)
(* than a finished invalidation survives only where a race on its very key *)
(* is on record, first on disk, then in the query cache and the hot layer. *)
(***************************************************************************)
EXTENDS TenantCacheProofs

(***************************************************************************)
(* By themselves the properties are not inductive.  They speak of changes  *)
(* whose invalidation has finished; an invalidation that has claimed its   *)
(* keys and not finished will leave the same obligation behind.  And the   *)
(* value in a tier came from a client that held it first.                  *)
(***************************************************************************)
InvLabels == {"inv_qc", "inv_disk", "inv_hot"}
FillLabels == {"meta", "count", "cap", "refund", "uncount", "qc_put", "disk_put", "disk_write"}
ReadLabels == {"promote", "ttl", "observe", "observe_dead"}

\* v is older than a change of k whose invalidation has at least claimed its keys.
Old(k, v) ==
    \E t \in DependsOn(k) :
        \/ v < seen[t]
        \/ \E c \in Clients : pc[c] \in InvLabels /\ loc[c].topic = t /\ v < loc[c].ver

Claimed(k) == k \in excused \/ \E c \in Clients : Deleting(c, k)
Fills(c) == pc[c] \in FillLabels /\ loc[c].op \in {"get", "put"}

DiskFresh == \A k \in Keys : disk[k] # None /\ Old(k, disk[k].ver) => Claimed(k)
FlagFresh ==
    \A c \in Clients :
        pc[c] = "sp_write" /\ Old(loc[c].key, loc[c].ver) => Claimed(loc[c].key)
FillFresh ==
    \A c \in Clients : Fills(c) /\ Old(loc[c].key, loc[c].ver) => loc[c].key \in excused

\* A change is no newer than the database.
NoFuture ==
    /\ \A ch \in changes : ch.ver <= version
    /\ \A t \in Topics : seen[t] <= version
    /\ \A c \in Clients : loc[c].op = "invalidate" => loc[c].ver <= version

\* Which operation a client is in, as far as its label tells.
OpFits(c) ==
    /\ pc[c] \in ReadLabels \cup (FillLabels \ {"refund"}) \cup {"fetch", "index"} =>
          loc[c].op \in {"get", "put"}
    /\ pc[c] \in {"hot_get", "qc_get", "disk_get"} => loc[c].op = "get"
    /\ pc[c] \in {"purge", "purge_table"} \cup InvLabels =>
          loc[c].op = "invalidate" /\ loc[c].topic \in Topics
    /\ pc[c] = "purge_table" => "flush" \in Ops
    /\ pc[c] \in FlagLabels => loc[c].op = "set_persist"

Fresh ==
    /\ NoFuture /\ (\A c \in Clients : OpFits(c))
    /\ DiskFresh /\ FlagFresh /\ FillFresh
StaleInv == CoverInv /\ Fresh

\* A change skipped while the tenant is down, or coalesced for a list that
\* holds no row, is not invalidated at all (README, divergences).
NoSkippedChange ==
    /\ "stop" \in Ops => ListKeys = {} /\ "flush" \notin Ops
    /\ "flush" \in Ops => \A k \in ListKeys : RowsOf[k] # {}

(***************************************************************************)
(* The copies.  Without restarts, a copy that nobody is about to remove is *)
(* found through the index by every row, at the latest once the fills that *)
(* are on their way have recorded their rows.                              *)
(***************************************************************************)
Filling(c, k, t) ==
    /\ loc[c].key = k
    /\ pc[c] \in {"disk_put", "disk_write"} \/ (pc[c] = "index" /\ t \in loc[c].todo)
Safe(k) == \A t \in DependsOn(k) : <<t, k>> \in index \/ \E c \in Clients : Filling(c, k, t)

\* Client c will still remove k from the query cache.
QcPending(c, k) == Deleting(c, k) /\ ~(pc[c] = "inv_disk" /\ loc[c].key = k)
QcClaimed(k) == k \in excused \/ \E c \in Clients : QcPending(c, k)

CopiesSafe ==
    \A k \in Keys :
        /\ qc[k] # None => Safe(k) \/ QcClaimed(k)
        /\ hot[k] # None => Safe(k) \/ RaceOn(k)
CopiesFresh ==
    \A k \in Keys :
        /\ qc[k] # None /\ Old(k, qc[k]) => QcClaimed(k)
        /\ hot[k] # None /\ Old(k, hot[k]) => RaceOn(k)
Reads(c) == pc[c] \in ReadLabels \cup {"index"}
ReadsSafe == \A c \in Clients : Reads(c) => Safe(loc[c].key) \/ loc[c].key \in excused
HeldFresh ==
    \A c \in Clients, k \in Keys : Holding(c, k) /\ Old(k, loc[c].ver) => k \in excused

CopyParts == CopiesSafe /\ CopiesFresh /\ ReadsSafe /\ HeldFresh
CopyInv == StaleInv /\ CopyParts
-----------------------------------------------------------------------------
\* No step makes a version old but the two that move an invalidation on.
LEMMA OldShrinks ==
    ASSUME seen' = seen,
           \A d \in Clients : pc'[d] \in InvLabels =>
              pc[d] \in InvLabels /\ loc'[d].topic = loc[d].topic /\ loc'[d].ver = loc[d].ver
    PROVE  \A k, v : Old(k, v)' => Old(k, v)
BY DEF Old, DependsOn

\* The database's own version is never old, and what is old is not None.
LEMMA NewestNotOld ==
    ASSUME NoFuture, TypeInv, \A c \in Clients : OpFits(c), NEW k \in Keys
    PROVE  ~Old(k, version)
<1>1. version \in Int /\ \A t \in Topics : seen[t] \in Int
  BY ConstantsAssumption DEF TypeInv, TypeOK, Versions
<1>2. \A c \in Clients : loc[c].ver \in Int
  BY ConstantsAssumption DEF TypeInv, TypeOK, Versions, Locals
<1>3. ASSUME NEW t \in DependsOn(k), version < seen[t] PROVE FALSE
  BY <1>1, <1>3, DependsOnType DEF NoFuture
<1>4. ASSUME NEW c \in Clients, pc[c] \in InvLabels, version < loc[c].ver PROVE FALSE
  BY <1>1, <1>2, <1>4 DEF NoFuture, OpFits
<1> QED BY <1>3, <1>4 DEF Old

\* What a step of a client other than an invalidation does to the values: it
\* puts on disk what it holds, and what it holds it had before, read from the
\* database, or took from the disk to write it back.
Flow(c) ==
    /\ OthersKeep(c)
    /\ UNCHANGED <<version, seen>> /\ changes' \subseteq changes /\ excused \subseteq excused'
    /\ loc[c].keys = {} /\ pc'[c] \notin InvLabels /\ OpFits(c)'
    /\ loc'[c].op = "invalidate" => loc'[c].ver <= version
    /\ \A k \in Keys :
          \/ disk'[k] = None \/ disk'[k] = disk[k]
          \/ pc[c] \in {"disk_write", "sp_write"} /\ k = loc[c].key /\ disk'[k].ver = loc[c].ver
    /\ pc'[c] = "sp_write" =>
          /\ loc'[c].key \in Keys /\ disk[loc'[c].key] # None
          /\ loc'[c].ver = disk[loc'[c].key].ver
    /\ Fills(c)' => /\ loc'[c].key \in Keys
                    /\ \/ loc'[c].ver = version
                       \/ Fills(c) /\ loc'[c].key = loc[c].key /\ loc'[c].ver = loc[c].ver

\* Such a step leaves nothing stale behind that was not.
LEMMA FlowFresh ==
    ASSUME StaleInv, NEW c \in Clients, Flow(c)
    PROVE  Fresh'
<1>1. TypeInv /\ Fresh BY DEF StaleInv, CoverInv
<1>2. \A k, v : Old(k, v)' => Old(k, v)
  <2>1. \A d \in Clients : pc'[d] \in InvLabels =>
              pc[d] \in InvLabels /\ loc'[d].topic = loc[d].topic /\ loc'[d].ver = loc[d].ver
    BY DEF Flow, OthersKeep
  <2> QED BY <2>1, OldShrinks DEF Flow
<1>3. \A k \in Keys : Claimed(k) => Claimed(k)'
  BY DEF Claimed, Deleting, Flow, OthersKeep
<1>4. NoFuture'
  <2>1. \A d \in Clients : loc'[d].op = "invalidate" => loc'[d].ver <= version
    BY <1>1 DEF Flow, OthersKeep, Fresh, NoFuture
  <2> QED BY <1>1, <2>1 DEF Flow, Fresh, NoFuture
<1>5. \A d \in Clients : OpFits(d)'
  BY <1>1 DEF Fresh, Flow, OthersKeep, OpFits
<1>6. DiskFresh'
  <2> SUFFICES ASSUME NEW k \in Keys, disk'[k] # None, Old(k, disk[k].ver)'
               PROVE  Claimed(k)'
    BY DEF DiskFresh
  <2>1. Old(k, disk'[k].ver) BY <1>2
  <2>2. CASE disk'[k] = disk[k] BY <1>1, <1>3, <2>1, <2>2 DEF Fresh, DiskFresh
  <2>3. CASE pc[c] \in {"disk_write", "sp_write"} /\ k = loc[c].key /\ disk'[k].ver = loc[c].ver
    <3>1. Old(loc[c].key, loc[c].ver) BY <2>1, <2>3
    <3>2. Claimed(k)
      BY <1>1, <2>3, <3>1 DEF Fresh, FlagFresh, FillFresh, Fills, FillLabels, OpFits, Claimed
    <3> QED BY <1>3, <3>2
  <2> QED BY <2>2, <2>3 DEF Flow
<1>7. FlagFresh'
  <2> SUFFICES ASSUME NEW d \in Clients, pc'[d] = "sp_write", Old(loc[d].key, loc[d].ver)'
               PROVE  Claimed(loc[d].key)'
    BY DEF FlagFresh
  <2>1. Old(loc'[d].key, loc'[d].ver) BY <1>2
  <2>2. loc'[d].key \in Keys
    BY <1>1 DEF Flow, OthersKeep, TypeInv, HasKey, Keyless
  <2>3. Claimed(loc'[d].key)
    <3>1. CASE d = c BY <1>1, <2>1, <3>1 DEF Flow, Fresh, DiskFresh
    <3>2. CASE d # c BY <1>1, <2>1, <3>2 DEF Flow, OthersKeep, Fresh, FlagFresh
    <3> QED BY <3>1, <3>2
  <2> QED BY <1>3, <2>2, <2>3
<1>8. FillFresh'
  <2> SUFFICES ASSUME NEW d \in Clients, Fills(d)', Old(loc[d].key, loc[d].ver)'
               PROVE  loc'[d].key \in excused'
    BY DEF FillFresh
  <2>1. Old(loc'[d].key, loc'[d].ver) BY <1>2
  <2>2. CASE d = c
    <3>1. loc'[c].ver # version
      BY <1>1, <2>1, <2>2, NewestNotOld DEF Flow, Fresh
    <3> QED BY <1>1, <2>1, <2>2, <3>1 DEF Flow, Fresh, FillFresh
  <2>3. CASE d # c
    BY <1>1, <2>1, <2>3 DEF Flow, OthersKeep, Fresh, FillFresh, Fills
  <2> QED BY <2>2, <2>3
<1> QED BY <1>4, <1>5, <1>6, <1>7, <1>8 DEF Fresh

LEMMA NoLocalsIdle == NoLocals.op \notin {"get", "put", "invalidate"}
BY ConstantsAssumption DEF NoLocals, OpNames

\* Where the copies come from: a reader or a filler writes what it holds to the
\* query cache, a reader to the hot layer, a filler completes the index.
CopyFlow(c) ==
    /\ index \subseteq index' /\ pc[c] \notin InvLabels
    /\ \A k \in Keys :
          \/ qc'[k] = qc[k]
          \/ /\ Holding(c, k) /\ qc'[k] = loc[c].ver
             /\ pc[c] = "promote" \/ (pc'[c] = "disk_put" /\ loc'[c].key = k)
    /\ \A k \in Keys :
          \/ hot'[k] = None \/ hot'[k] = hot[k]
          \/ pc[c] = "observe" /\ loc[c].key = k /\ hot'[k] = loc[c].ver
    /\ \A k \in Keys : \A t \in DependsOn(k) :
          Filling(c, k, t) => <<t, k>> \in index' \/ Filling(c, k, t)'
    /\ Reads(c)' =>
          /\ loc'[c].key = loc[c].key /\ loc[c].key \in Keys
          /\ \/ Reads(c) \/ pc[c] = "disk_write"
             \/ qc[loc[c].key] # None /\ excused' = ReadOverlaps(loc[c].key)
             \/ disk[loc[c].key] # None /\ excused' = ReadOverlaps(loc[c].key)
    /\ \A k \in Keys : Holding(c, k)' =>
          \/ Holding(c, k) /\ loc'[c].ver = loc[c].ver
          \/ loc'[c].ver = version
          \/ qc[k] # None /\ loc'[c].ver = qc[k] /\ excused' = ReadOverlaps(k)
          \/ disk[k] # None /\ loc'[c].ver = disk[k].ver /\ excused' = ReadOverlaps(k)

\* What the invariants say of one client.
ClientFacts(c) ==
    /\ TypeInv /\ loc[c] \in Locals /\ loc[c].op # "delete" /\ OpFits(c)
    /\ pc[c] \notin InvLabels => loc[c].keys = {}
    /\ pc[c] \notin Keyless => loc[c].key \in Keys

LEMMA ClientFactsHold == ASSUME StaleInv, NEW c \in Clients PROVE ClientFacts(c)
BY DEF ClientFacts, InvLabels, StaleInv, Fresh, CoverInv, Kept, NoDeletes, ClaimsHeld, TypeInv,
       TypeOK, HasKey

\* A step of the read path moves values only in this way.
LEMMA GetFlows ==
    ASSUME StaleInv, NEW c \in Clients, GetStep(c)
    PROVE  Flow(c) /\ CopyFlow(c)
<1> USE GotoKeeps, RunAsKeeps, FinishKeeps
    DEF At, tiers, database, InvLabels, FillLabels, ReadLabels, FlagLabels, Keyless, Fills, Reads,
        Holding, Filling, OpFits
<1>1. ClientFacts(c) BY ClientFactsHold
<1> USE DEF ClientFacts
<1>2. CASE HotGet(c)
  <2>1. Flow(c) BY <1>1, <1>2, NoLocalsIdle DEF HotGet, Flow
  <2>2. CopyFlow(c) BY <1>1, <1>2 DEF HotGet, CopyFlow, NoLocals
  <2> QED BY <2>1, <2>2
<1>3. CASE QcGet(c)
  <2>1. CASE qc[loc[c].key] # None
    <3>1. loc'[c] = [loc[c] EXCEPT !.ver = qc[loc[c].key]] /\ pc'[c] = "ttl"
      BY <1>1, <1>3, <2>1 DEF QcGet
    <3>2. loc'[c].op = loc[c].op /\ loc'[c].key = loc[c].key /\ loc'[c].ver = qc[loc[c].key]
          /\ loc'[c].topic = loc[c].topic
      BY <1>1, <3>1 DEF Locals
    <3>3. Flow(c) BY <1>1, <1>3, <2>1, <3>1, <3>2 DEF QcGet, Flow, ReadOverlaps
    <3>4. CopyFlow(c) BY <1>1, <1>3, <2>1, <3>1, <3>2 DEF QcGet, CopyFlow
    <3> QED BY <3>3, <3>4
  <2>2. CASE qc[loc[c].key] = None
    <3>3. Flow(c) BY <1>1, <1>3, <2>2 DEF QcGet, Flow
    <3>4. CopyFlow(c) BY <1>1, <1>3, <2>2 DEF QcGet, CopyFlow
    <3> QED BY <3>3, <3>4
  <2> QED BY <2>1, <2>2
<1>4. CASE DiskGet(c)
  <2>1. CASE disk[loc[c].key] # None
    <3>1. loc'[c] = [loc[c] EXCEPT !.ver = disk[loc[c].key].ver] /\ pc'[c] = "promote"
      BY <1>1, <1>4, <2>1 DEF DiskGet
    <3>2. loc'[c].op = loc[c].op /\ loc'[c].key = loc[c].key /\ loc'[c].ver = disk[loc[c].key].ver
          /\ loc'[c].topic = loc[c].topic
      BY <1>1, <3>1 DEF Locals
    <3>3. Flow(c) BY <1>1, <1>4, <2>1, <3>1, <3>2 DEF DiskGet, Flow, ReadOverlaps
    <3>4. CopyFlow(c) BY <1>1, <1>4, <2>1, <3>1, <3>2 DEF DiskGet, CopyFlow
    <3> QED BY <3>3, <3>4
  <2>2. CASE disk[loc[c].key] = None
    <3>3. Flow(c) BY <1>1, <1>4, <2>2 DEF DiskGet, Flow
    <3>4. CopyFlow(c) BY <1>1, <1>4, <2>2 DEF DiskGet, CopyFlow
    <3> QED BY <3>3, <3>4
  <2> QED BY <2>1, <2>2
<1>5. CASE Promote(c)
  <2>1. Flow(c) BY <1>1, <1>5 DEF Promote, Flow
  <2>2. CopyFlow(c)
    <3>1. \A k \in Keys : qc'[k] = qc[k] \/ (k = loc[c].key /\ qc'[k] = loc[c].ver)
      BY <1>1, <1>5 DEF Promote, TypeInv, TypeOK
    <3> QED BY <1>1, <1>5, <3>1 DEF Promote, CopyFlow
  <2> QED BY <2>1, <2>2
<1>6. CASE ReadTtl(c)
  <2>1. Flow(c) BY <1>1, <1>6 DEF ReadTtl, Flow
  <2>2. CopyFlow(c) BY <1>1, <1>6 DEF ReadTtl, CopyFlow
  <2> QED BY <2>1, <2>2
<1>7. CASE Observe(c)
  <2>1. Flow(c) BY <1>1, <1>7, NoLocalsIdle DEF Observe, Flow
  <2>2. CopyFlow(c)
    <3>1. \A k \in Keys : \/ hot'[k] = hot[k] \/ hot'[k] = None
                          \/ k = loc[c].key /\ pc[c] = "observe" /\ hot'[k] = loc[c].ver
      BY <1>1, <1>7 DEF Observe, TypeInv, TypeOK
    <3> QED BY <1>1, <1>7, <3>1 DEF Observe, CopyFlow, NoLocals
  <2> QED BY <2>1, <2>2
<1> QED BY <1>2, <1>3, <1>4, <1>5, <1>6, <1>7 DEF GetStep

\* Nor does a step of a fill.
LEMMA PutFlows ==
    ASSUME StaleInv, NEW c \in Clients, PutStep(c)
    PROVE  Flow(c) /\ CopyFlow(c)
<1> USE GotoKeeps, RunAsKeeps, FinishKeeps, NoLocalsIdle
    DEF At, tiers, database, InvLabels, FillLabels, ReadLabels, FlagLabels, Keyless, Fills, Reads,
        Holding, Filling, OpFits
<1>1. ClientFacts(c) BY ClientFactsHold
<1> USE DEF ClientFacts
<1>2. CASE Fetch(c)
  <2>1. CASE RunAs(c, "meta", [loc[c] EXCEPT !.ver = version])
    <3>1. loc'[c] = [loc[c] EXCEPT !.ver = version] /\ pc'[c] = "meta" BY <1>1, <2>1
    <3>2. loc'[c].op = loc[c].op /\ loc'[c].key = loc[c].key /\ loc'[c].ver = version
      BY <1>1, <3>1 DEF Locals
    <3>3. Flow(c) BY <1>1, <1>2, <2>1, <3>1, <3>2 DEF Fetch, Flow
    <3>4. CopyFlow(c) BY <1>1, <1>2, <2>1, <3>1, <3>2 DEF Fetch, CopyFlow
    <3> QED BY <3>3, <3>4
  <2>2. CASE Finish(c)
    <3>1. Flow(c) BY <1>1, <1>2, <2>2 DEF Fetch, Flow
    <3>2. CopyFlow(c) BY <1>1, <1>2, <2>2 DEF Fetch, CopyFlow
    <3> QED BY <3>1, <3>2
  <2> QED BY <1>2, <2>1, <2>2 DEF Fetch
<1>3. CASE PutMeta(c)
  <2>1. Flow(c) BY <1>1, <1>3 DEF PutMeta, Flow
  <2>2. CopyFlow(c) BY <1>1, <1>3 DEF PutMeta, CopyFlow
  <2> QED BY <2>1, <2>2
<1>4. CASE PutCount(c)
  <2>1. Flow(c) BY <1>1, <1>4 DEF PutCount, Flow
  <2>2. CopyFlow(c) BY <1>1, <1>4 DEF PutCount, CopyFlow
  <2> QED BY <2>1, <2>2
<1>5. CASE PutCap(c)
  <2>1. Flow(c) BY <1>1, <1>5 DEF PutCap, Flow
  <2>2. CopyFlow(c) BY <1>1, <1>5 DEF PutCap, CopyFlow
  <2> QED BY <2>1, <2>2
<1>6. CASE PutRefund(c)
  <2>1. Flow(c) BY <1>1, <1>6 DEF PutRefund, Flow
  <2>2. CopyFlow(c) BY <1>1, <1>6 DEF PutRefund, CopyFlow
  <2> QED BY <2>1, <2>2
<1>7. CASE PutUncount(c)
  <2>1. Flow(c) BY <1>1, <1>7 DEF PutUncount, Flow
  <2>2. CopyFlow(c) BY <1>1, <1>7 DEF PutUncount, CopyFlow
  <2> QED BY <2>1, <2>2
<1>8. CASE PutIndexed(c)
  <2>1. Flow(c) BY <1>1, <1>8 DEF PutIndexed, Flow
  <2>2. CopyFlow(c) BY <1>1, <1>8 DEF PutIndexed, CopyFlow
  <2> QED BY <2>1, <2>2
<1>9. CASE PutQc(c)
  <2>1. Flow(c) BY <1>1, <1>9 DEF PutQc, Flow
  <2>2. CopyFlow(c)
    <3>1. \A k \in Keys : qc'[k] = qc[k] \/ (k = loc[c].key /\ qc'[k] = loc[c].ver)
      BY <1>1, <1>9 DEF PutQc, TypeInv, TypeOK
    <3> QED BY <1>1, <1>9, <3>1 DEF PutQc, CopyFlow
  <2> QED BY <2>1, <2>2
<1>10. CASE PutDrop(c)
  <2>1. Flow(c)
    <3>1. \A k \in Keys : disk'[k] = disk[k] \/ disk'[k] = None
      BY <1>1, <1>10 DEF PutDrop, TypeInv, TypeOK
    <3> QED BY <1>1, <1>10, <3>1 DEF PutDrop, Flow
  <2>2. CopyFlow(c) BY <1>1, <1>10 DEF PutDrop, CopyFlow
  <2> QED BY <2>1, <2>2
<1>11. CASE PutDisk(c)
  <2>1. loc'[c] = [loc[c] EXCEPT !.todo = DependsOn(loc[c].key)] /\ pc'[c] = "index"
    BY <1>1, <1>11 DEF PutDisk
  <2>2. /\ loc'[c].op = loc[c].op /\ loc'[c].key = loc[c].key /\ loc'[c].ver = loc[c].ver
        /\ loc'[c].todo = DependsOn(loc[c].key)
    BY <1>1, <2>1 DEF Locals
  <2>3. Flow(c)
    <3>1. \A k \in Keys : \/ disk'[k] = disk[k] \/ disk'[k] = None
                          \/ k = loc[c].key /\ disk'[k].ver = loc[c].ver
      BY <1>1, <1>11 DEF PutDisk, TypeInv, TypeOK
    <3> QED BY <1>1, <1>11, <2>1, <2>2, <3>1 DEF PutDisk, Flow
  <2>4. CopyFlow(c) BY <1>1, <1>11, <2>1, <2>2 DEF PutDisk, CopyFlow
  <2> QED BY <2>3, <2>4
<1>12. CASE PutIndex(c)
  <2>1. PICK t \in loc[c].todo : /\ index' = index \cup {<<t, loc[c].key>>}
                                /\ loc' = [loc EXCEPT ![c].todo = @ \ {t}]
    BY <1>12 DEF PutIndex
  <2>2. /\ loc'[c].op = loc[c].op /\ loc'[c].key = loc[c].key /\ loc'[c].ver = loc[c].ver
        /\ loc'[c].todo = loc[c].todo \ {t} /\ \A d \in Clients \ {c} : loc'[d] = loc[d]
    BY <1>1, <2>1 DEF Locals, TypeInv, TypeOK
  <2>3. Flow(c) BY <1>1, <1>12, <2>2 DEF PutIndex, Flow, OthersKeep
  <2>4. CopyFlow(c) BY <1>1, <1>12, <2>1, <2>2 DEF PutIndex, CopyFlow
  <2> QED BY <2>3, <2>4
<1>13. CASE PutHot(c)
  <2>1. Flow(c) BY <1>1, <1>13 DEF PutHot, Flow
  <2>2. CopyFlow(c)
    <3>1. \A k \in Keys : hot'[k] = hot[k] \/ hot'[k] = None
      BY <1>1, <1>13 DEF PutHot, TypeInv, TypeOK
    <3> QED BY <1>1, <1>13, <3>1 DEF PutHot, CopyFlow
  <2> QED BY <2>1, <2>2
<1> QED BY <1>2, <1>3, <1>4, <1>5, <1>6, <1>7, <1>8, <1>9, <1>10, <1>11, <1>12, <1>13 DEF PutStep

\* Nor does set_persist, which takes an entry off the disk and writes it back.
LEMMA SetPersistFlows ==
    ASSUME StaleInv, NEW c \in Clients, SetPersistStep(c)
    PROVE  Flow(c) /\ CopyFlow(c)
<1> USE GotoKeeps, RunAsKeeps, FinishKeeps, NoLocalsIdle
    DEF At, tiers, database, InvLabels, FillLabels, ReadLabels, FlagLabels, Keyless, Fills, Reads,
        Holding, Filling, OpFits
<1>1. ClientFacts(c) BY ClientFactsHold
<1> USE DEF ClientFacts
<1>2. CASE SetPersistMeta(c)
  <2>1. Flow(c) BY <1>1, <1>2 DEF SetPersistMeta, Flow
  <2>2. CopyFlow(c) BY <1>1, <1>2 DEF SetPersistMeta, CopyFlow
  <2> QED BY <2>1, <2>2
<1>3. CASE SetPersistCount(c)
  <2>1. Flow(c) BY <1>1, <1>3 DEF SetPersistCount, Flow
  <2>2. CopyFlow(c) BY <1>1, <1>3 DEF SetPersistCount, CopyFlow
  <2> QED BY <2>1, <2>2
<1>4. CASE SetPersistCap(c)
  <2>1. Flow(c) BY <1>1, <1>4 DEF SetPersistCap, Flow
  <2>2. CopyFlow(c) BY <1>1, <1>4 DEF SetPersistCap, CopyFlow
  <2> QED BY <2>1, <2>2
<1>5. CASE SetPersistUncount(c)
  <2>1. Flow(c) BY <1>1, <1>5 DEF SetPersistUncount, Flow
  <2>2. CopyFlow(c) BY <1>1, <1>5 DEF SetPersistUncount, CopyFlow
  <2> QED BY <2>1, <2>2
<1>6. CASE SetPersistDrop(c)
  <2>1. CASE disk[loc[c].key] = None
    <3>1. Flow(c) BY <1>1, <1>6, <2>1 DEF SetPersistDrop, Flow
    <3>2. CopyFlow(c) BY <1>1, <1>6, <2>1 DEF SetPersistDrop, CopyFlow
    <3> QED BY <3>1, <3>2
  <2>2. CASE disk[loc[c].key] # None
    <3>1. /\ loc'[c] = [loc[c] EXCEPT !.ver = disk[loc[c].key].ver] /\ pc'[c] = "sp_write"
          /\ disk' = [disk EXCEPT ![loc[c].key] = None]
      BY <1>1, <1>6, <2>2 DEF SetPersistDrop
    <3>2. /\ loc'[c].op = loc[c].op /\ loc'[c].key = loc[c].key
          /\ loc'[c].ver = disk[loc[c].key].ver
          /\ \A k \in Keys : disk'[k] = disk[k] \/ disk'[k] = None
      BY <1>1, <3>1 DEF Locals, TypeInv, TypeOK
    <3>3. Flow(c) BY <1>1, <1>6, <2>2, <3>1, <3>2 DEF SetPersistDrop, Flow
    <3>4. CopyFlow(c) BY <1>1, <1>6, <2>2, <3>1, <3>2 DEF SetPersistDrop, CopyFlow
    <3> QED BY <3>3, <3>4
  <2> QED BY <2>1, <2>2
<1>7. CASE SetPersistDisk(c)
  <2>1. Flow(c)
    <3>1. \A k \in Keys : disk'[k] = disk[k] \/ (k = loc[c].key /\ disk'[k].ver = loc[c].ver)
      BY <1>1, <1>7 DEF SetPersistDisk, TypeInv, TypeOK
    <3> QED BY <1>1, <1>7, <3>1 DEF SetPersistDisk, Flow
  <2>2. CopyFlow(c) BY <1>1, <1>7 DEF SetPersistDisk, CopyFlow
  <2> QED BY <2>1, <2>2
<1> QED BY <1>2, <1>3, <1>4, <1>5, <1>6, <1>7 DEF SetPersistStep

\* A client that starts an operation holds nothing, or a change taken from the WAL.
LEMMA CallFlows ==
    ASSUME StaleInv, NoDeleteNoFlagRace, NEW c \in Clients, Call(c)
    PROVE  Flow(c) /\ CopyFlow(c)
<1> USE GotoKeeps, RunAsKeeps, FinishKeeps, NoLocalsIdle
    DEF At, tiers, database, InvLabels, FillLabels, ReadLabels, FlagLabels, Keyless, Fills, Reads,
        Holding, Filling, OpFits
<1>1. ClientFacts(c) BY ClientFactsHold
<1> USE DEF ClientFacts
<1> USE DEF Begin
<1>2. CASE Invalidate(c)
  <2>1. PICK ch \in changes, label \in {"purge", "purge_table"} :
           /\ changes' = changes \ {ch}
           /\ label = "purge_table" => "flush" \in Ops
           /\ RunAs(c, label, [NoLocals EXCEPT !.op = "invalidate", !.topic = ch.topic,
                                               !.ver = ch.ver])
    BY <1>2 DEF Invalidate
  <2>2. loc'[c] = [NoLocals EXCEPT !.op = "invalidate", !.topic = ch.topic, !.ver = ch.ver]
    BY <1>1, <2>1
  <2>3. /\ loc'[c].op = "invalidate" /\ loc'[c].topic = ch.topic /\ loc'[c].ver = ch.ver
        /\ ch.topic \in Topics /\ ch.ver <= version
    BY <1>1, <2>2 DEF NoLocals, TypeInv, TypeOK, StaleInv, Fresh, NoFuture
  <2>4. Flow(c) BY <1>1, <1>2, <2>1, <2>3 DEF Invalidate, Flow
  <2>5. CopyFlow(c) BY <1>1, <1>2, <2>1, <2>3 DEF Invalidate, CopyFlow
  <2> QED BY <2>4, <2>5
<1>3. ASSUME NEW k \in Keys, Get(c, k) PROVE Flow(c) /\ CopyFlow(c)
  <2>1. loc'[c] = [NoLocals EXCEPT !.op = "get", !.key = k] BY <1>1, <1>3 DEF Get
  <2>2. loc'[c].op = "get" BY <2>1 DEF NoLocals
  <2>3. Flow(c) BY <1>1, <1>3, <2>2 DEF Get, Flow
  <2>4. CopyFlow(c) BY <1>1, <1>3, <2>2 DEF Get, CopyFlow
  <2> QED BY <2>3, <2>4
<1>4. ASSUME NEW k \in Keys, Put(c, k) PROVE Flow(c) /\ CopyFlow(c)
  <2>1. PICK b : RunAs(c, "fetch", [NoLocals EXCEPT !.op = "put", !.key = k, !.persist = b])
    BY <1>4 DEF Put
  <2>2. loc'[c] = [NoLocals EXCEPT !.op = "put", !.key = k, !.persist = b] BY <1>1, <2>1
  <2>3. loc'[c].op = "put" BY <2>2 DEF NoLocals
  <2>4. Flow(c) BY <1>1, <1>4, <2>1, <2>3 DEF Put, Flow
  <2>5. CopyFlow(c) BY <1>1, <1>4, <2>1, <2>3 DEF Put, CopyFlow
  <2> QED BY <2>4, <2>5
<1>5. ASSUME NEW k \in Keys, SetPersist(c, k) PROVE Flow(c) /\ CopyFlow(c)
  <2>1. PICK b :
           RunAs(c, "sp_meta", [NoLocals EXCEPT !.op = "set_persist", !.key = k, !.persist = b])
    BY <1>5 DEF SetPersist
  <2>2. loc'[c] = [NoLocals EXCEPT !.op = "set_persist", !.key = k, !.persist = b]
    BY <1>1, <2>1
  <2>3. loc'[c].op = "set_persist" BY <2>2 DEF NoLocals
  <2>4. Flow(c) BY <1>1, <1>5, <2>1, <2>3 DEF SetPersist, Flow
  <2>5. CopyFlow(c) BY <1>1, <1>5, <2>1, <2>3 DEF SetPersist, CopyFlow
  <2> QED BY <2>4, <2>5
<1> QED BY <1>2, <1>3, <1>4, <1>5 DEF Call, Delete, NoDeleteNoFlagRace

\* A purge, and what it makes old: the entries of the keys that depend on its
\* topic.  Such a key, once it is indexed, is claimed by the purge, or it is being
\* filled by a client the ghost has seen.
LEMMA PurgeReaches ==
    ASSUME StaleInv, NoSkippedChange, NEW c \in Clients, Purge(c),
           NEW k \in Keys, loc[c].topic \in DependsOn(k), \A t \in DependsOn(k) : Indexed(k, t)
    PROVE  k \in PurgedKeys(c) \/ k \in excused'
<1>1. /\ scan = {} /\ tenant = "up"
      /\ \A d \in Clients : Holding(d, k) => k \in excused'
  BY DEF Purge, At, IndexReady, PurgeOverlaps
<1>2. ASSUME NEW d \in Clients, pc[d] = "index", loc[d].key = k PROVE k \in excused'
  <2>1. Holding(d, k) BY <1>2 DEF StaleInv, Fresh, OpFits, Holding
  <2> QED BY <1>1, <2>1
<1>3. CASE k \notin excused'
  <2>1. \A t \in DependsOn(k) : <<t, k>> \in index BY <1>1, <1>2, <1>3 DEF Indexed
  <2>2. CASE pc[c] = "purge" BY <2>1, <2>2 DEF PurgedKeys, RowKeys
  <2>3. CASE pc[c] = "purge_table"
    <3>1. "flush" \in Ops BY <2>3 DEF StaleInv, Fresh, OpFits
    <3>2. PICK t \in DependsOn(k) : t \in Rows
      <4>1. CASE k \in ListKeys
        BY <3>1, <4>1, ConstantsAssumption DEF NoSkippedChange, DependsOn
      <4>2. CASE k \notin ListKeys BY <4>2, ConstantsAssumption DEF DependsOn
      <4> QED BY <4>1, <4>2
    <3> QED BY <2>1, <2>3, <3>2 DEF PurgedKeys, RowKeys
  <2> QED BY <2>2, <2>3 DEF Purge, At
<1> QED BY <1>3

\* What a purge makes old is of its topic.
LEMMA PurgeAges ==
    ASSUME TypeInv, NEW c \in Clients, Purge(c)
    PROVE  /\ OthersKeep(c) /\ excused \subseteq excused'
           /\ \A k \in Keys, d \in Clients :
                 Holding(d, k) /\ loc[c].topic \in DependsOn(k) => k \in excused'
           /\ \A k \in PurgedKeys(c), d \in Clients : Holding(d, k) => k \in excused'
           /\ loc'[c].op \in {None, loc[c].op} /\ loc'[c].topic \in {None, loc[c].topic}
           /\ loc'[c].ver \in {0, loc[c].ver}
           /\ pc'[c] = "idle" => loc'[c] = NoLocals /\ PurgedKeys(c) = {}
           /\ pc'[c] # "idle" => /\ pc'[c] = "inv_qc" /\ loc'[c].keys = PurgedKeys(c)
                                 /\ loc'[c].op = loc[c].op /\ loc'[c].topic = loc[c].topic
                                 /\ loc'[c].ver = loc[c].ver /\ loc'[c].key \in PurgedKeys(c)
           /\ \A t \in Topics : seen'[t] \in {seen[t]} \cup
                 (IF t = loc[c].topic THEN {loc[c].ver} ELSE {})
           /\ \A k, v : Old(k, v)' => Old(k, v) \/ loc[c].topic \in DependsOn(k)
<1> DEFINE found == PurgedKeys(c)
<1>0. loc[c] \in Locals /\ pc[c] \in {"purge", "purge_table"} BY DEF TypeInv, TypeOK, Purge, At
<1>1. /\ excused \subseteq excused'
      /\ \A k \in Keys, d \in Clients :
            Holding(d, k) /\ loc[c].topic \in DependsOn(k) => k \in excused'
      /\ \A k \in found, d \in Clients : Holding(d, k) => k \in excused'
  BY DEF Purge, PurgeOverlaps
<1>2. CASE found = {} /\ MarkSeen(loc[c].topic, loc[c].ver) /\ Finish(c)
  <2>1. OthersKeep(c) /\ pc'[c] = "idle" /\ loc'[c] = NoLocals BY <1>2, FinishKeeps
  <2>2. \A t \in Topics : seen'[t] \in {seen[t]} \cup
                 (IF t = loc[c].topic THEN {loc[c].ver} ELSE {})
    BY <1>2 DEF MarkSeen, TypeInv, TypeOK
  <2>3. NoLocals.op = None /\ NoLocals.topic = None /\ NoLocals.ver = 0 BY DEF NoLocals
  <2>4. ASSUME NEW k, NEW v, Old(k, v)' PROVE Old(k, v) \/ loc[c].topic \in DependsOn(k)
    <3>1. PICK t \in DependsOn(k) :
             \/ v < seen'[t]
             \/ \E d \in Clients : pc'[d] \in InvLabels /\ loc'[d].topic = t /\ v < loc'[d].ver
      BY <2>4 DEF Old, DependsOn
    <3>2. ASSUME v < seen'[t], t # loc[c].topic PROVE Old(k, v)
      <4>1. seen'[t] = seen[t] BY <1>2, <3>2 DEF MarkSeen, TypeInv, TypeOK
      <4> QED BY <3>2, <4>1 DEF Old
    <3>3. ASSUME NEW d \in Clients, pc'[d] \in InvLabels, loc'[d].topic = t, v < loc'[d].ver
          PROVE  Old(k, v)
      BY <2>1, <3>3 DEF Old, OthersKeep, InvLabels
    <3> QED BY <3>1, <3>2, <3>3
  <2> QED BY <1>1, <1>2, <2>1, <2>2, <2>3, <2>4
<1>3. CASE \E k \in found : /\ RunAs(c, "inv_qc", [loc[c] EXCEPT !.key = k, !.keys = found])
                            /\ UNCHANGED seen
  <2>1. PICK k0 \in found : RunAs(c, "inv_qc", [loc[c] EXCEPT !.key = k0, !.keys = found])
    BY <1>3
  <2>2. /\ OthersKeep(c) /\ pc'[c] = "inv_qc"
        /\ loc'[c] = [loc[c] EXCEPT !.key = k0, !.keys = found]
    BY <2>1, RunAsKeeps
  <2>3. /\ loc'[c].op = loc[c].op /\ loc'[c].topic = loc[c].topic /\ loc'[c].ver = loc[c].ver
        /\ loc'[c].keys = found /\ loc'[c].key = k0
    BY <1>0, <2>2 DEF Locals
  <2>4. ASSUME NEW k, NEW v, Old(k, v)' PROVE Old(k, v) \/ loc[c].topic \in DependsOn(k)
    <3>1. PICK t \in DependsOn(k) :
             \/ v < seen'[t]
             \/ \E d \in Clients : pc'[d] \in InvLabels /\ loc'[d].topic = t /\ v < loc'[d].ver
      BY <2>4 DEF Old, DependsOn
    <3>2. ASSUME v < seen'[t] PROVE Old(k, v) BY <1>3, <3>2 DEF Old
    <3>3. ASSUME NEW d \in Clients, pc'[d] \in InvLabels, loc'[d].topic = t, v < loc'[d].ver
          PROVE  Old(k, v) \/ loc[c].topic \in DependsOn(k)
      <4>1. CASE d = c BY <2>3, <3>3, <4>1
      <4>2. CASE d # c BY <2>2, <3>3, <4>2 DEF Old, OthersKeep
      <4> QED BY <4>1, <4>2
    <3> QED BY <3>1, <3>2, <3>3
  <2> QED BY <1>1, <1>3, <2>1, <2>2, <2>3, <2>4
<1> QED BY <1>2, <1>3 DEF Purge

\* A purge leaves what it makes old claimed.
LEMMA PurgeFresh ==
    ASSUME StaleInv, NoSkippedChange, NEW c \in Clients, Purge(c)
    PROVE  Fresh'
<1>1. TypeInv /\ Fresh /\ ClientFacts(c) /\ pc[c] \in {"purge", "purge_table"}
  BY ClientFactsHold DEF StaleInv, CoverInv, Purge, At
<1>2. /\ loc[c].op = "invalidate" /\ loc[c].topic \in Topics /\ loc[c].keys = {}
      /\ version' = version /\ changes' = changes /\ disk' = disk
  BY <1>1 DEF ClientFacts, OpFits, InvLabels, Purge, tiers, database
<1>3. NoFuture'
  <2>1. \A d \in Clients : loc'[d].op = "invalidate" => loc'[d].ver <= version
    BY <1>1, <1>2, PurgeAges, NoLocalsIdle DEF OthersKeep, Fresh, NoFuture
  <2>2. \A t \in Topics : seen'[t] <= version
    BY <1>1, <1>2, PurgeAges DEF Fresh, NoFuture
  <2> QED BY <1>1, <1>2, <2>1, <2>2 DEF Fresh, NoFuture
<1>4. \A d \in Clients : OpFits(d)'
  <2>1. OpFits(c)'
    <3>1. pc'[c] \in {"idle", "inv_qc"} /\ (pc'[c] # "idle" => /\ loc'[c].op = loc[c].op
                                                              /\ loc'[c].topic = loc[c].topic)
      BY <1>1, PurgeAges
    <3> QED BY <1>2, <3>1 DEF OpFits, InvLabels, ReadLabels, FillLabels, FlagLabels
  <2> QED BY <1>1, <2>1, PurgeAges DEF Fresh, OthersKeep, OpFits
<1>5. \A k \in Keys : Claimed(k) => Claimed(k)'
  BY <1>1, <1>2, PurgeAges DEF Claimed, Deleting, OthersKeep
<1>6. ASSUME NEW k \in Keys, loc[c].topic \in DependsOn(k), Present(k) PROVE Claimed(k)'
  <2>1. CASE Claimed(k) BY <1>5, <2>1
  <2>2. CASE ~Claimed(k)
    <3>1. \A t \in DependsOn(k) : Indexed(k, t)
      BY <1>6, <2>2 DEF StaleInv, CoverInv, Kept, Covered, Claimed
    <3>2. k \in PurgedKeys(c) \/ k \in excused' BY <1>6, <3>1, PurgeReaches
    <3> QED BY <1>1, <3>2, PurgeAges DEF Claimed, Deleting
  <2> QED BY <2>1, <2>2
<1>7. DiskFresh'
  <2> SUFFICES ASSUME NEW k \in Keys, disk'[k] # None, Old(k, disk[k].ver)'
               PROVE  Claimed(k)'
    BY DEF DiskFresh
  <2>1. Old(k, disk'[k].ver) \/ loc[c].topic \in DependsOn(k) BY <1>1, PurgeAges
  <2> QED BY <1>1, <1>2, <1>5, <1>6, <2>1 DEF Fresh, DiskFresh, Present
<1>8. FlagFresh'
  <2> SUFFICES ASSUME NEW d \in Clients, pc'[d] = "sp_write", Old(loc[d].key, loc[d].ver)'
               PROVE  Claimed(loc[d].key)'
    BY DEF FlagFresh
  <2>1. d # c /\ pc[d] = "sp_write" /\ loc'[d] = loc[d] BY <1>1, PurgeAges DEF OthersKeep
  <2>2. Old(loc'[d].key, loc'[d].ver) \/ loc[c].topic \in DependsOn(loc'[d].key)
    BY <1>1, PurgeAges
  <2>3. loc[d].key \in Keys BY <1>1, <2>1 DEF TypeInv, HasKey, Keyless
  <2> QED BY <1>1, <1>5, <1>6, <2>1, <2>2, <2>3 DEF Fresh, FlagFresh, Present
<1>9. FillFresh'
  <2> SUFFICES ASSUME NEW d \in Clients, Fills(d)', Old(loc[d].key, loc[d].ver)'
               PROVE  loc'[d].key \in excused'
    BY DEF FillFresh
  <2>1. d # c /\ Fills(d) /\ loc'[d] = loc[d]
    BY <1>1, PurgeAges DEF OthersKeep, Fills, FillLabels
  <2>2. Old(loc'[d].key, loc'[d].ver) \/ loc[c].topic \in DependsOn(loc'[d].key)
    BY <1>1, PurgeAges
  <2>3. loc[d].key \in Keys BY <1>1, <2>1 DEF TypeInv, HasKey, Keyless, Fills, FillLabels
  <2>4. Holding(d, loc[d].key) BY <2>1 DEF Holding, Fills, FillLabels
  <2>5. CASE Old(loc'[d].key, loc'[d].ver)
    <3>1. loc[d].key \in excused BY <1>1, <2>1, <2>5 DEF Fresh, FillFresh
    <3> QED BY <1>1, <2>1, <3>1, PurgeAges
  <2>6. CASE loc[c].topic \in DependsOn(loc'[d].key)
    BY <1>1, <2>1, <2>3, <2>4, <2>6, PurgeAges
  <2> QED BY <2>2, <2>5, <2>6
<1> QED BY <1>3, <1>4, <1>7, <1>8, <1>9 DEF Fresh

\* The other steps of an invalidation make nothing old, and give up a claim
\* only on what they remove.
InvalidateMoves(c) ==
    /\ OthersKeep(c) /\ excused' = excused
    /\ \A k, v : Old(k, v)' => Old(k, v)
    /\ loc[c].op = "invalidate"
    /\ pc'[c] \in {"idle"} \cup InvLabels
    /\ pc'[c] = "idle" => loc'[c] = NoLocals /\ loc[c].keys = {}
    /\ pc'[c] # "idle" => /\ loc'[c].op = loc[c].op /\ loc'[c].topic = loc[c].topic
                          /\ loc'[c].ver = loc[c].ver
    /\ \A t \in Topics : seen'[t] \in {seen[t], loc[c].ver}
    /\ version' = version /\ changes' = changes

LEMMA InvalidateMovesOn ==
    ASSUME StaleInv, NEW c \in Clients, InvalidateQc(c) \/ InvalidateDisk(c) \/ InvalidateHot(c)
    PROVE  InvalidateMoves(c)
<1> USE GotoKeeps, RunAsKeeps, FinishKeeps DEF At, tiers, database, InvLabels
<1>1. ClientFacts(c) /\ TypeInv BY ClientFactsHold DEF ClientFacts
<1> USE DEF ClientFacts, OpFits
<1>2. CASE InvalidateQc(c)
  <2>1. OthersKeep(c) /\ pc[c] = "inv_qc" /\ pc'[c] = "inv_disk" /\ loc'[c] = loc[c]
    BY <1>1, <1>2 DEF InvalidateQc
  <2>2. \A k, v : Old(k, v)' => Old(k, v) BY <1>2, <2>1, OldShrinks DEF InvalidateQc, OthersKeep
  <2> QED BY <1>1, <1>2, <2>1, <2>2 DEF InvalidateQc, InvalidateMoves
<1>3. CASE InvalidateDisk(c)
  <2>1. /\ OthersKeep(c) /\ pc[c] = "inv_disk" /\ pc'[c] = "inv_hot"
        /\ loc'[c].op = loc[c].op /\ loc'[c].topic = loc[c].topic /\ loc'[c].ver = loc[c].ver
    BY <1>1, <1>3 DEF InvalidateDisk, Locals
  <2>2. \A k, v : Old(k, v)' => Old(k, v) BY <1>3, <2>1, OldShrinks DEF InvalidateDisk, OthersKeep
  <2> QED BY <1>1, <1>3, <2>1, <2>2 DEF InvalidateDisk, InvalidateMoves
<1>4. CASE InvalidateHot(c)
  <2>1. pc[c] = "inv_hot" /\ loc[c].op = "invalidate" BY <1>1, <1>4 DEF InvalidateHot
  <2>2. CASE loc[c].keys = {} /\ MarkSeen(loc[c].topic, loc[c].ver) /\ Finish(c)
    <3>1. OthersKeep(c) /\ pc'[c] = "idle" /\ loc'[c] = NoLocals BY <1>1, <2>2
    <3>2. ASSUME NEW k, NEW v, Old(k, v)' PROVE Old(k, v)
      <4>1. PICK t \in DependsOn(k) :
               \/ v < seen'[t]
               \/ \E d \in Clients : pc'[d] \in InvLabels /\ loc'[d].topic = t /\ v < loc'[d].ver
        BY <3>2 DEF Old, DependsOn
      <4>2. CASE v < seen'[t]
        <5>1. CASE seen'[t] = seen[t] BY <4>2, <5>1 DEF Old
        <5>2. CASE t = loc[c].topic /\ seen'[t] = loc[c].ver BY <2>1, <4>2, <5>2 DEF Old
        <5> QED BY <1>1, <2>2, <5>1, <5>2 DEF MarkSeen, TypeInv, TypeOK
      <4>3. CASE ~(v < seen'[t]) BY <3>1, <4>1, <4>3 DEF Old, OthersKeep
      <4> QED BY <4>2, <4>3
    <3>3. \A t \in Topics : seen'[t] \in {seen[t], loc[c].ver}
      BY <1>1, <2>2 DEF MarkSeen, TypeInv, TypeOK
    <3> QED BY <1>4, <2>1, <2>2, <3>1, <3>2, <3>3 DEF InvalidateHot, InvalidateMoves
  <2>3. CASE (\E k \in loc[c].keys : RunAs(c, "inv_qc", [loc[c] EXCEPT !.key = k])) /\ UNCHANGED seen
    <3>1. PICK k0 \in loc[c].keys : RunAs(c, "inv_qc", [loc[c] EXCEPT !.key = k0]) BY <2>3
    <3>2. /\ OthersKeep(c) /\ pc'[c] = "inv_qc" /\ loc'[c].op = loc[c].op
          /\ loc'[c].topic = loc[c].topic /\ loc'[c].ver = loc[c].ver
      BY <1>1, <3>1 DEF Locals
    <3>3. \A k, v : Old(k, v)' => Old(k, v) BY <2>1, <2>3, <3>2, OldShrinks DEF OthersKeep
    <3> QED BY <1>4, <2>1, <2>3, <3>2, <3>3 DEF InvalidateHot, InvalidateMoves
  <2> QED BY <1>1, <1>4, <2>1, <2>2, <2>3 DEF InvalidateHot
<1> QED BY <1>2, <1>3, <1>4

LEMMA InvalidateFresh ==
    ASSUME StaleInv, NEW c \in Clients, InvalidateQc(c) \/ InvalidateDisk(c) \/ InvalidateHot(c)
    PROVE  Fresh'
<1>1. TypeInv /\ Fresh /\ ClientFacts(c) /\ InvalidateMoves(c)
  BY ClientFactsHold, InvalidateMovesOn DEF StaleInv, CoverInv
<1>2. NoFuture'
  <2>1. \A d \in Clients : loc'[d].op = "invalidate" => loc'[d].ver <= version
    BY <1>1, NoLocalsIdle DEF InvalidateMoves, OthersKeep, InvLabels, Fresh, NoFuture
  <2> QED BY <1>1, <2>1 DEF InvalidateMoves, Fresh, NoFuture
<1>3. \A d \in Clients : OpFits(d)'
  <2>1. OpFits(c)'
    <3>1. loc[c].topic \in Topics
      BY <1>1 DEF InvalidateQc, InvalidateDisk, InvalidateHot, At, ClientFacts, OpFits, InvLabels
    <3> QED BY <1>1, <3>1 DEF InvalidateMoves, OpFits, InvLabels, ReadLabels, FillLabels, FlagLabels
  <2> QED BY <1>1, <2>1 DEF Fresh, InvalidateMoves, OthersKeep, OpFits
<1>4. \A k \in Keys : disk'[k] # None => disk'[k] = disk[k]
  BY <1>1 DEF InvalidateQc, InvalidateDisk, InvalidateHot, tiers, TypeInv, TypeOK
<1>5. ASSUME NEW k \in Keys, Claimed(k), ~Claimed(k)'
      PROVE  disk'[k] = None /\ \A d \in Clients : pc[d] # "sp_write"
  <2>1. PICK d \in Clients : k \in loc[d].keys
    BY <1>1, <1>5 DEF Claimed, Deleting, InvalidateMoves
  <2>2. d = c /\ k \notin loc'[c].keys
    BY <1>1, <1>5, <2>1 DEF Claimed, Deleting, InvalidateMoves, OthersKeep
  <2>3. InvalidateDisk(c) /\ k = loc[c].key
    <3>1. CASE InvalidateQc(c)
      BY <1>1, <2>1, <2>2, <3>1 DEF InvalidateQc
    <3>2. CASE InvalidateDisk(c)
      <4>1. loc'[c] = [loc[c] EXCEPT !.keys = @ \ {loc[c].key}]
        BY <1>1, <3>2, RunAsKeeps DEF InvalidateDisk
      <4>2. loc'[c].keys = loc[c].keys \ {loc[c].key} BY <1>1, <4>1 DEF ClientFacts, Locals
      <4> QED BY <2>1, <2>2, <3>2, <4>2
    <3>3. CASE InvalidateHot(c)
      <4>1. loc[c].keys # {} /\ loc[c].op = "invalidate" BY <1>1, <2>1, <2>2 DEF InvalidateMoves
      <4>2. PICK k0 : loc'[c] = [loc[c] EXCEPT !.key = k0]
        BY <1>1, <3>3, <4>1, RunAsKeeps DEF InvalidateHot
      <4> QED BY <1>1, <2>1, <2>2, <4>2 DEF ClientFacts, Locals
    <3> QED BY <3>1, <3>2, <3>3
  <2> QED BY <1>1, <2>3 DEF InvalidateDisk, DiskBusy, TypeInv, TypeOK
<1>6. DiskFresh' BY <1>1, <1>4, <1>5 DEF Fresh, DiskFresh, InvalidateMoves
<1>7. FlagFresh'
  <2> SUFFICES ASSUME NEW d \in Clients, pc'[d] = "sp_write", Old(loc[d].key, loc[d].ver)'
               PROVE  Claimed(loc[d].key)'
    BY DEF FlagFresh
  <2>1. d # c /\ pc[d] = "sp_write" /\ loc'[d] = loc[d]
    BY <1>1 DEF InvalidateMoves, OthersKeep, InvLabels
  <2>2. Old(loc'[d].key, loc'[d].ver) BY <1>1 DEF InvalidateMoves
  <2>3. loc[d].key \in Keys BY <1>1, <2>1 DEF TypeInv, HasKey, Keyless
  <2> QED BY <1>1, <1>5, <2>1, <2>2, <2>3 DEF Fresh, FlagFresh
<1>8. FillFresh'
  <2> SUFFICES ASSUME NEW d \in Clients, Fills(d)', Old(loc[d].key, loc[d].ver)'
               PROVE  loc'[d].key \in excused'
    BY DEF FillFresh
  <2>1. d # c /\ Fills(d) /\ loc'[d] = loc[d]
    BY <1>1 DEF InvalidateMoves, OthersKeep, InvLabels, Fills, FillLabels
  <2>2. Old(loc'[d].key, loc'[d].ver) BY <1>1 DEF InvalidateMoves
  <2> QED BY <1>1, <2>1, <2>2 DEF Fresh, FillFresh, InvalidateMoves
<1> QED BY <1>2, <1>3, <1>6, <1>7, <1>8 DEF Fresh

\* A change that is dropped makes nothing old that is on disk, where none can be
\* dropped but a coalesced one or an insert.
LEMMA SkipFresh ==
    ASSUME StaleInv, NoSkippedChange, NEW c \in Clients, SkipPurge(c)
    PROVE  Fresh'
<1>1. TypeInv /\ Fresh /\ ClientFacts(c) /\ "stop" \in Ops
  BY ClientFactsHold DEF StaleInv, CoverInv, Kept, OpsHeld, SkipPurge
<1>2. loc[c].op = "invalidate" /\ loc[c].topic = Inserted /\ pc[c] = "purge" /\ loc[c].keys = {}
  BY <1>1 DEF SkipPurge, ClientFacts, OpFits, NoSkippedChange, InvLabels
<1>3. /\ OthersKeep(c) /\ pc'[c] = "idle" /\ loc'[c] = NoLocals
      /\ UNCHANGED <<version, changes, disk, excused>>
  BY <1>1, FinishKeeps DEF SkipPurge, database, tiers
<1>4. \A t \in Topics : /\ seen'[t] \in {seen[t], loc[c].ver}
                        /\ t # Inserted => seen'[t] = seen[t]
  BY <1>1, <1>2 DEF SkipPurge, MarkSeen, TypeInv, TypeOK
<1>5. \A k \in Keys : Inserted \notin DependsOn(k)
  BY <1>1, ConstantsAssumption DEF NoSkippedChange, DependsOn
<1>6. ASSUME NEW k \in Keys, NEW v, Old(k, v)' PROVE Old(k, v)
  <2>1. PICK t \in DependsOn(k) :
           \/ v < seen'[t]
           \/ \E d \in Clients : pc'[d] \in InvLabels /\ loc'[d].topic = t /\ v < loc'[d].ver
    BY <1>6 DEF Old, DependsOn
  <2>2. seen'[t] = seen[t] BY <1>4, <1>5, DependsOnType
  <2> QED BY <1>3, <2>1, <2>2 DEF Old, OthersKeep, InvLabels
<1>7. \A k \in Keys : Claimed(k) => Claimed(k)'
  BY <1>2, <1>3 DEF Claimed, Deleting, OthersKeep
<1>8. NoFuture'
  <2>1. \A d \in Clients : loc'[d].op = "invalidate" => loc'[d].ver <= version
    BY <1>1, <1>3, NoLocalsIdle DEF OthersKeep, Fresh, NoFuture
  <2> QED BY <1>1, <1>2, <1>3, <1>4, <2>1 DEF Fresh, NoFuture
<1>9. \A d \in Clients : OpFits(d)'
  BY <1>1, <1>3 DEF Fresh, OthersKeep, OpFits, InvLabels, ReadLabels, FillLabels, FlagLabels
<1>10. DiskFresh' BY <1>1, <1>3, <1>6, <1>7 DEF Fresh, DiskFresh
<1>11. FlagFresh'
  <2> SUFFICES ASSUME NEW d \in Clients, pc'[d] = "sp_write", Old(loc[d].key, loc[d].ver)'
               PROVE  Claimed(loc[d].key)'
    BY DEF FlagFresh
  <2>1. d # c /\ pc[d] = "sp_write" /\ loc'[d] = loc[d] BY <1>3 DEF OthersKeep
  <2>2. loc[d].key \in Keys BY <1>1, <2>1 DEF TypeInv, HasKey, Keyless
  <2> QED BY <1>1, <1>6, <1>7, <2>1, <2>2 DEF Fresh, FlagFresh
<1>12. FillFresh'
  <2> SUFFICES ASSUME NEW d \in Clients, Fills(d)', Old(loc[d].key, loc[d].ver)'
               PROVE  loc'[d].key \in excused'
    BY DEF FillFresh
  <2>1. d # c /\ Fills(d) /\ loc'[d] = loc[d] BY <1>3 DEF OthersKeep, Fills, FillLabels
  <2>2. loc[d].key \in Keys BY <1>1, <2>1 DEF TypeInv, HasKey, Keyless, Fills, FillLabels
  <2> QED BY <1>1, <1>3, <1>6, <2>1, <2>2 DEF Fresh, FillFresh
<1> QED BY <1>8, <1>9, <1>10, <1>11, <1>12 DEF Fresh

\* A commit and the tenant's background work make nothing old; what a dying
\* client had claimed is excused.
LEMMA BackgroundFresh ==
    ASSUME StaleInv, Background \/ (\E t \in Topics : Commit(t)) \/ UNCHANGED vars
    PROVE  Fresh'
<1>1. TypeInv /\ Fresh BY DEF StaleInv, CoverInv
<1>2. CASE TenantDown
  <2>1. PICK dead \in SUBSET {c \in Clients : pc[c] # "idle"} :
          /\ {c \in Clients : pc[c] \in {"refund", "disk_write", "sp_write"}} \subseteq dead
          /\ pc' = [c \in Clients |-> IF c \in dead THEN "idle" ELSE AfterRestart(pc[c])]
          /\ loc' = [c \in Clients |-> IF c \in dead THEN NoLocals ELSE loc[c]]
          /\ excused' = excused \cup UNION {loc[c].keys \cup ({loc[c].key} \cap Keys) : c \in dead}
    BY <1>2 DEF TenantDown
  <2>2. UNCHANGED <<version, changes, seen, disk>> BY <1>2 DEF TenantDown, database
  <2>3. ASSUME NEW d \in Clients
        PROVE  \/ pc'[d] = "idle" /\ loc'[d] = NoLocals /\ loc[d].keys \subseteq excused'
               \/ pc'[d] = AfterRestart(pc[d]) /\ loc'[d] = loc[d] /\ pc[d] # "sp_write"
    BY <2>1, <2>3
  <2>4. \A k, v : Old(k, v)' => Old(k, v)
    <3>1. \A d \in Clients : pc'[d] \in InvLabels =>
              pc[d] \in InvLabels /\ loc'[d].topic = loc[d].topic /\ loc'[d].ver = loc[d].ver
      BY <2>3 DEF InvLabels, AfterRestart
    <3> QED BY <2>2, <3>1, OldShrinks
  <2>5. \A k \in Keys : Claimed(k) => Claimed(k)'
    <3>1. excused \subseteq excused' BY <2>1
    <3> QED BY <2>3, <3>1 DEF Claimed, Deleting
  <2>6. NoFuture' BY <1>1, <2>2, <2>3, NoLocalsIdle DEF Fresh, NoFuture
  <2>7. ASSUME NEW d \in Clients PROVE OpFits(d)'
    <3>1. OpFits(d) BY <1>1 DEF Fresh
    <3> QED BY <2>3, <3>1 DEF OpFits, AfterRestart, InvLabels, ReadLabels, FillLabels, FlagLabels
  <2>8. DiskFresh' BY <1>1, <2>2, <2>4, <2>5 DEF Fresh, DiskFresh
  <2>9. FlagFresh' BY <2>3 DEF FlagFresh, AfterRestart
  <2>10. FillFresh'
    <3> SUFFICES ASSUME NEW d \in Clients, Fills(d)', Old(loc[d].key, loc[d].ver)'
                 PROVE  loc'[d].key \in excused'
      BY DEF FillFresh
    <3>1. Fills(d) /\ loc'[d] = loc[d] BY <2>3 DEF Fills, FillLabels, AfterRestart
    <3>2. excused \subseteq excused' BY <2>1
    <3> QED BY <1>1, <2>4, <3>1, <3>2 DEF Fresh, FillFresh
  <2> QED BY <2>6, <2>7, <2>8, <2>9, <2>10 DEF Fresh
<1>3. CASE ~TenantDown
  <2>1. /\ UNCHANGED <<pc, loc, seen, excused>>
        /\ \A k \in Keys : disk'[k] # None => disk'[k] = disk[k]
        /\ \/ version' = version /\ changes' = changes
           \/ version' = version + 1
              /\ \E t \in Topics : changes' = changes \cup {[topic |-> t, ver |-> version + 1]}
    BY <1>1, <1>3
    DEF Background, QcDrop, DiskDrop, HotDrop, Rebuild, TenantUp, Commit, vars, tiers, database,
        TypeInv, TypeOK
  <2>2. \A k, v : Old(k, v)' => Old(k, v) BY <2>1, OldShrinks
  <2>3. NoFuture'
    <3>1. version \in Int /\ (\A t \in Topics : seen[t] \in Int)
          /\ (\A ch \in changes : ch.ver \in Int) /\ (\A d \in Clients : loc[d].ver \in Int)
      BY <1>1, ConstantsAssumption DEF TypeInv, TypeOK, Versions, Locals
    <3> QED BY <1>1, <2>1, <3>1 DEF Fresh, NoFuture
  <2>4. \A d \in Clients : OpFits(d)' BY <1>1, <2>1 DEF Fresh, OpFits
  <2>5. DiskFresh' BY <1>1, <2>1, <2>2 DEF Fresh, DiskFresh, Claimed, Deleting
  <2>6. FlagFresh' BY <1>1, <2>1, <2>2 DEF Fresh, FlagFresh, Claimed, Deleting
  <2>7. FillFresh' BY <1>1, <2>1, <2>2 DEF Fresh, FillFresh, Fills
  <2> QED BY <2>3, <2>4, <2>5, <2>6, <2>7 DEF Fresh
<1> QED BY <1>2, <1>3

LEMMA StaleInvariant ==
    ASSUME NoDeleteNoFlagRace, NoSkippedChange
    PROVE  Spec => []StaleInv
<1>1. Init /\ CoverInv => StaleInv
  <2> SUFFICES ASSUME Init PROVE Fresh BY DEF StaleInv
  <2>1. \A c \in Clients : pc[c] = "idle" /\ loc[c] = NoLocals BY DEF Init
  <2>2. NoFuture BY <2>1, NoLocalsIdle DEF Init, NoFuture
  <2>3. \A c \in Clients : OpFits(c)
    BY <2>1 DEF OpFits, InvLabels, ReadLabels, FillLabels, FlagLabels
  <2>4. DiskFresh BY DEF Init, DiskFresh
  <2> QED BY <2>1, <2>2, <2>3, <2>4 DEF Fresh, FlagFresh, FillFresh, Fills, FillLabels
<1>2. StaleInv /\ CoverInv' /\ [Next]_vars => StaleInv'
  <2> SUFFICES ASSUME StaleInv, [Next]_vars PROVE Fresh' BY DEF StaleInv
  <2>1. ASSUME NEW c \in Clients, Call(c) PROVE Fresh' BY <2>1, CallFlows, FlowFresh
  <2>2. ASSUME NEW c \in Clients, Step(c) PROVE Fresh'
    <3>1. ~DeleteStep(c)
      BY DEF StaleInv, CoverInv, Kept, NoDeletes, DeleteStep, DeleteMeta, DeleteCount, PurgeKey, At
    <3>2. CASE GetStep(c) \/ PutStep(c) \/ SetPersistStep(c)
      BY <3>2, GetFlows, PutFlows, SetPersistFlows, FlowFresh
    <3>3. CASE InvalidateStep(c)
      BY <3>3, PurgeFresh, SkipFresh, InvalidateFresh DEF InvalidateStep
    <3> QED BY <2>2, <3>1, <3>2, <3>3 DEF Step
  <2> QED BY <2>1, <2>2, BackgroundFresh DEF Next
<1> QED BY <1>1, <1>2, CoverInvariant, PTL DEF Spec

\* Reads, fills, WAL invalidations, evictions and failing disk writes, together
\* with either changes of persist flags or crashes of the tenant's processes,
\* for any keys, rows and number of clients: an entry on disk older than a
\* change whose invalidation has finished is left over from a race on that very
\* key.  Where the tenant may crash there are no lists and no coalesced changes,
\* and a list that meets coalesced changes holds a row: the code skips the
\* others (README, divergences).
THEOREM StaleOnDiskOnlyByRace ==
    ASSUME NoDeleteNoFlagRace, NoSkippedChange
    PROVE  Spec => []DiskStaleOnlyByRace
<1>1. StaleInv => DiskStaleOnlyByRace
  <2> SUFFICES ASSUME StaleInv, NEW k \in Keys, Outdated(DiskVersion(k), k) PROVE RaceOn(k)
    BY DEF DiskStaleOnlyByRace
  <2>1. disk[k] # None /\ Old(k, disk[k].ver) BY DEF Outdated, DiskVersion, Old
  <2> QED BY <2>1 DEF StaleInv, Fresh, DiskFresh, Claimed, RaceOn, Invalidating
<1> QED BY <1>1, StaleInvariant, PTL

-----------------------------------------------------------------------------
\* What is on disk is found through the index, or claimed.
LEMMA DiskSafe ==
    ASSUME StaleInv, "stop" \notin Ops, NEW k \in Keys, disk[k] # None
    PROVE  Safe(k) \/ \E d \in Clients : Deleting(d, k)
<1>1. tenant = "up" /\ scan = {} BY DEF StaleInv, CoverInv, Kept, OpsHeld
<1>2. \A t \in DependsOn(k) : Indexed(k, t) \/ \E d \in Clients : Deleting(d, k)
  BY DEF StaleInv, CoverInv, Kept, Covered, Present
<1> QED BY <1>1, <1>2 DEF Safe, Indexed, Filling

\* A step that is not part of an invalidation keeps a copy within reach of the
\* next one, and copies nothing stale but where a race is on record.
LEMMA FlowCopies ==
    ASSUME CopyInv, "stop" \notin Ops, NEW c \in Clients, Flow(c), CopyFlow(c)
    PROVE  CopyParts'
<1>1. TypeInv /\ Fresh /\ StaleInv /\ CopyParts /\ \A d \in Clients : OpFits(d)
  BY DEF CopyInv, StaleInv, CoverInv, Fresh
<1>2. \A k, v : Old(k, v)' => Old(k, v)
  <2>1. \A d \in Clients : pc'[d] \in InvLabels =>
              pc[d] \in InvLabels /\ loc'[d].topic = loc[d].topic /\ loc'[d].ver = loc[d].ver
    BY DEF Flow, OthersKeep
  <2> QED BY <2>1, OldShrinks DEF Flow
<1>3. ASSUME NEW k \in Keys, Safe(k) PROVE Safe(k)'
  <2> SUFFICES ASSUME NEW t \in DependsOn(k)
               PROVE  <<t, k>> \in index' \/ \E d \in Clients : Filling(d, k, t)'
    BY DEF Safe, DependsOn
  <2>1. CASE <<t, k>> \in index BY <2>1 DEF CopyFlow
  <2>2. ASSUME NEW d \in Clients, Filling(d, k, t)
        PROVE  <<t, k>> \in index' \/ Filling(d, k, t)'
    <3>1. CASE d = c BY <2>2, <3>1 DEF CopyFlow
    <3>2. CASE d # c BY <2>2, <3>2 DEF Flow, OthersKeep, Filling
    <3> QED BY <3>1, <3>2
  <2> QED BY <1>3, <2>1, <2>2 DEF Safe
<1>4. /\ \A k \in Keys : QcClaimed(k) => QcClaimed(k)'
      /\ \A k \in Keys : RaceOn(k) => RaceOn(k)'
      /\ excused \subseteq excused'
  BY DEF QcClaimed, QcPending, RaceOn, Invalidating, Deleting, Flow, CopyFlow, OthersKeep, InvLabels
<1>5. CopiesSafe'
  <2>1. ASSUME NEW k \in Keys, qc'[k] # None PROVE Safe(k)' \/ QcClaimed(k)'
    <3>1. CASE qc'[k] = qc[k]
      BY <1>1, <1>3, <1>4, <2>1, <3>1 DEF CopyParts, CopiesSafe
    <3>2. CASE Holding(c, k) /\ pc[c] = "promote"
      <4>1. Safe(k) \/ k \in excused
        BY <1>1, <3>2 DEF CopyParts, ReadsSafe, Reads, ReadLabels, Holding
      <4> QED BY <1>3, <1>4, <4>1 DEF QcClaimed
    <3>3. CASE pc'[c] = "disk_put" /\ loc'[c].key = k BY <3>3 DEF Safe, Filling
    <3> QED BY <3>1, <3>2, <3>3 DEF CopyFlow
  <2>2. ASSUME NEW k \in Keys, hot'[k] # None PROVE Safe(k)' \/ RaceOn(k)'
    <3>1. CASE hot'[k] = hot[k]
      BY <1>1, <1>3, <1>4, <2>2, <3>1 DEF CopyParts, CopiesSafe
    <3>2. CASE pc[c] = "observe" /\ loc[c].key = k
      <4>1. Safe(k) \/ k \in excused
        BY <1>1, <3>2 DEF CopyParts, ReadsSafe, Reads, ReadLabels
      <4> QED BY <1>3, <1>4, <4>1 DEF RaceOn
    <3> QED BY <2>2, <3>1, <3>2 DEF CopyFlow
  <2> QED BY <2>1, <2>2 DEF CopiesSafe
<1>6. CopiesFresh'
  <2>1. ASSUME NEW k \in Keys, qc'[k] # None, Old(k, qc[k])' PROVE QcClaimed(k)'
    <3>0. Old(k, qc'[k]) BY <1>2, <2>1
    <3>1. CASE qc'[k] = qc[k]
      BY <1>1, <1>4, <2>1, <3>0, <3>1 DEF CopyParts, CopiesFresh
    <3>2. CASE Holding(c, k) /\ qc'[k] = loc[c].ver
      <4>1. k \in excused BY <1>1, <3>0, <3>2 DEF CopyParts, HeldFresh
      <4> QED BY <1>4, <4>1 DEF QcClaimed
    <3> QED BY <3>1, <3>2 DEF CopyFlow
  <2>2. ASSUME NEW k \in Keys, hot'[k] # None, Old(k, hot[k])' PROVE RaceOn(k)'
    <3>0. Old(k, hot'[k]) BY <1>2, <2>2
    <3>1. CASE hot'[k] = hot[k]
      BY <1>1, <1>4, <2>2, <3>0, <3>1 DEF CopyParts, CopiesFresh
    <3>2. CASE pc[c] = "observe" /\ loc[c].key = k /\ hot'[k] = loc[c].ver
      <4>1. Holding(c, k) BY <1>1, <3>2 DEF OpFits, ReadLabels, Holding
      <4>2. k \in excused BY <1>1, <3>0, <3>2, <4>1 DEF CopyParts, HeldFresh
      <4> QED BY <1>4, <4>2 DEF RaceOn
    <3> QED BY <2>2, <3>1, <3>2 DEF CopyFlow
  <2> QED BY <2>1, <2>2 DEF CopiesFresh
<1>7. ReadsSafe'
  <2> SUFFICES ASSUME NEW d \in Clients, Reads(d)'
               PROVE  Safe(loc[d].key)' \/ loc'[d].key \in excused'
    BY DEF ReadsSafe
  <2>1. CASE d # c
    <3>1. Reads(d) /\ loc'[d] = loc[d] BY <2>1 DEF Flow, OthersKeep, Reads
    <3>2. loc[d].key \in Keys BY <1>1, <3>1 DEF TypeInv, HasKey, Keyless, Reads, ReadLabels
    <3>3. Safe(loc[d].key) \/ loc[d].key \in excused BY <1>1, <3>1 DEF CopyParts, ReadsSafe
    <3> QED BY <1>3, <1>4, <3>1, <3>2, <3>3 DEF Safe, DependsOn, Filling
  <2>2. CASE d = c
    <3> DEFINE k == loc[c].key
    <3>0. loc'[c].key = k /\ k \in Keys BY <2>2 DEF CopyFlow
    <3> HIDE DEF k
    <3>1. CASE Safe(k) BY <1>3, <2>2, <3>0, <3>1 DEF Safe, DependsOn, Filling
    <3>2. CASE k \in excused' BY <2>2, <3>0, <3>2
    <3>3. CASE Reads(c)
      <4>1. Safe(k) \/ k \in excused BY <1>1, <3>3 DEF CopyParts, ReadsSafe, k
      <4> QED BY <1>4, <3>1, <3>2, <4>1
    <3>4. CASE pc[c] = "disk_write"
      <4>1. Safe(k) BY <3>4 DEF Safe, Filling, k
      <4> QED BY <3>1, <4>1
    <3>5. CASE qc[k] # None /\ excused' = ReadOverlaps(k)
      <4>1. Safe(k) \/ QcClaimed(k) BY <1>1, <3>0, <3>5 DEF CopyParts, CopiesSafe
      <4>2. QcClaimed(k) => k \in excused'
        BY <3>5 DEF QcClaimed, QcPending, ReadOverlaps, Invalidating
      <4> QED BY <3>1, <3>2, <4>1, <4>2
    <3>6. CASE disk[k] # None /\ excused' = ReadOverlaps(k)
      <4>1. Safe(k) \/ \E e \in Clients : Deleting(e, k) BY <1>1, <3>0, <3>6, DiskSafe
      <4>2. (\E e \in Clients : Deleting(e, k)) => k \in excused'
        BY <3>6 DEF ReadOverlaps, Invalidating
      <4> QED BY <3>1, <3>2, <4>1, <4>2
    <3> QED BY <2>2, <3>3, <3>4, <3>5, <3>6 DEF CopyFlow, k
  <2> QED BY <2>1, <2>2
<1>8. HeldFresh'
  <2> SUFFICES ASSUME NEW d \in Clients, NEW k \in Keys, Holding(d, k)', Old(k, loc[d].ver)'
               PROVE  k \in excused'
    BY DEF HeldFresh
  <2>0. Old(k, loc'[d].ver) BY <1>2
  <2>1. CASE d # c
    <3>1. Holding(d, k) /\ loc'[d] = loc[d] BY <2>1 DEF Flow, OthersKeep, Holding
    <3> QED BY <1>1, <1>4, <2>0, <3>1 DEF CopyParts, HeldFresh
  <2>2. CASE d = c
    <3>1. CASE Holding(c, k) /\ loc'[c].ver = loc[c].ver
      BY <1>1, <1>4, <2>0, <2>2, <3>1 DEF CopyParts, HeldFresh
    <3>2. CASE loc'[c].ver = version BY <1>1, <2>0, <2>2, <3>2, NewestNotOld DEF Fresh
    <3>3. CASE qc[k] # None /\ loc'[c].ver = qc[k] /\ excused' = ReadOverlaps(k)
      <4>1. QcClaimed(k) BY <1>1, <2>0, <2>2, <3>3 DEF CopyParts, CopiesFresh
      <4> QED BY <3>3, <4>1 DEF QcClaimed, QcPending, ReadOverlaps, Invalidating
    <3>4. CASE disk[k] # None /\ loc'[c].ver = disk[k].ver /\ excused' = ReadOverlaps(k)
      <4>1. Claimed(k) BY <1>1, <2>0, <2>2, <3>4 DEF Fresh, DiskFresh
      <4> QED BY <3>4, <4>1 DEF Claimed, ReadOverlaps, Invalidating
    <3> QED BY <2>2, <3>1, <3>2, <3>3, <3>4 DEF CopyFlow
  <2> QED BY <2>1, <2>2
<1> QED BY <1>5, <1>6, <1>7, <1>8 DEF CopyParts

\* A purge takes from the index only what leads to keys it claims.
LEMMA PurgeCopies ==
    ASSUME CopyInv, NoSkippedChange, NEW c \in Clients, Purge(c)
    PROVE  CopyParts'
<1>1. TypeInv /\ Fresh /\ StaleInv /\ CopyParts /\ ClientFacts(c) /\ \A d \in Clients : OpFits(d)
  BY ClientFactsHold DEF CopyInv, StaleInv, CoverInv, Fresh
<1>2. /\ pc[c] \in {"purge", "purge_table"} /\ loc[c].op = "invalidate" /\ loc[c].keys = {}
      /\ UNCHANGED <<qc, hot>>
  BY <1>1 DEF ClientFacts, OpFits, InvLabels, Purge, At, tiers
<1>3. /\ OthersKeep(c) /\ excused \subseteq excused' /\ pc'[c] \in {"idle", "inv_qc"}
      /\ loc'[c].op \notin {"get", "put"}
      /\ \A k, v : Old(k, v)' => Old(k, v) \/ loc[c].topic \in DependsOn(k)
  BY <1>1, <1>2, PurgeAges, NoLocalsIdle
<1>4. ASSUME NEW k \in PurgedKeys(c) PROVE QcClaimed(k)' /\ RaceOn(k)'
  <2>1. pc'[c] = "inv_qc" /\ loc'[c].keys = PurgedKeys(c) BY <1>1, <1>3, <1>4, PurgeAges
  <2> QED BY <1>4, <2>1 DEF QcClaimed, QcPending, RaceOn, Invalidating, Deleting
<1>5. /\ \A k \in Keys : QcClaimed(k) => QcClaimed(k)'
      /\ \A k \in Keys : RaceOn(k) => RaceOn(k)'
  BY <1>2, <1>3 DEF QcClaimed, QcPending, RaceOn, Invalidating, Deleting, OthersKeep
<1>6. ASSUME NEW k \in Keys, Safe(k), k \notin PurgedKeys(c) PROVE Safe(k)'
  <2>1. \A t : <<t, k>> \in index => <<t, k>> \in index'
    BY <1>6 DEF Purge, PurgedPairs, PurgedKeys, RowKeys
  <2>2. \A t, d : d \in Clients /\ Filling(d, k, t) => Filling(d, k, t)'
    BY <1>2, <1>3 DEF Filling, OthersKeep
  <2> QED BY <1>6, <2>1, <2>2 DEF Safe, DependsOn
<1>7. ASSUME NEW k \in Keys, loc[c].topic \in DependsOn(k), Safe(k)
      PROVE  k \in PurgedKeys(c) \/ k \in excused'
  <2>1. CASE \E t \in DependsOn(k), d \in Clients : Filling(d, k, t)
    <3>1. PICK t \in DependsOn(k), d \in Clients : Filling(d, k, t) BY <2>1
    <3>2. Holding(d, k) BY <1>1, <3>1 DEF Filling, Holding, OpFits, FillLabels
    <3> QED BY <1>1, <1>7, <3>2, PurgeAges
  <2>2. CASE ~\E t \in DependsOn(k), d \in Clients : Filling(d, k, t)
    <3>1. \A t \in DependsOn(k) : Indexed(k, t) BY <1>7, <2>2 DEF Safe, Indexed
    <3> QED BY <1>1, <1>7, <3>1, PurgeReaches
  <2> QED BY <2>1, <2>2
<1>8. CopiesSafe' BY <1>1, <1>2, <1>4, <1>5, <1>6 DEF CopyParts, CopiesSafe
<1>9. CopiesFresh'
  <2>1. \A k \in excused' : QcClaimed(k)' /\ RaceOn(k)' BY DEF QcClaimed, RaceOn
  <2>2. ASSUME NEW k \in Keys, qc'[k] # None, Old(k, qc[k])' PROVE QcClaimed(k)'
    <3>1. Old(k, qc'[k]) \/ loc[c].topic \in DependsOn(k) BY <1>3, <2>2
    <3>2. CASE Old(k, qc'[k]) BY <1>1, <1>2, <1>5, <2>2, <3>2 DEF CopyParts, CopiesFresh
    <3>3. CASE loc[c].topic \in DependsOn(k)
      BY <1>1, <1>2, <1>4, <1>5, <1>7, <2>1, <2>2, <3>3 DEF CopyParts, CopiesSafe
    <3> QED BY <3>1, <3>2, <3>3
  <2>3. ASSUME NEW k \in Keys, hot'[k] # None, Old(k, hot[k])' PROVE RaceOn(k)'
    <3>1. Old(k, hot'[k]) \/ loc[c].topic \in DependsOn(k) BY <1>3, <2>3
    <3>2. CASE Old(k, hot'[k]) BY <1>1, <1>2, <1>5, <2>3, <3>2 DEF CopyParts, CopiesFresh
    <3>3. CASE loc[c].topic \in DependsOn(k)
      BY <1>1, <1>2, <1>4, <1>5, <1>7, <2>1, <2>3, <3>3 DEF CopyParts, CopiesSafe
    <3> QED BY <3>1, <3>2, <3>3
  <2> QED BY <2>2, <2>3 DEF CopiesFresh
<1>10. ReadsSafe'
  <2> SUFFICES ASSUME NEW d \in Clients, Reads(d)'
               PROVE  Safe(loc[d].key)' \/ loc'[d].key \in excused'
    BY DEF ReadsSafe
  <2>1. d # c /\ Reads(d) /\ loc'[d] = loc[d]
    BY <1>3 DEF OthersKeep, Reads, ReadLabels
  <2>2. loc[d].key \in Keys BY <1>1, <2>1 DEF TypeInv, HasKey, Keyless, Reads, ReadLabels
  <2>3. Holding(d, loc[d].key) BY <1>1, <2>1 DEF Reads, ReadLabels, OpFits, Holding
  <2>4. Safe(loc[d].key) \/ loc[d].key \in excused BY <1>1, <2>1 DEF CopyParts, ReadsSafe
  <2>5. CASE loc[d].key \in PurgedKeys(c) BY <1>1, <2>1, <2>3, <2>5, PurgeAges
  <2>6. CASE loc[d].key \notin PurgedKeys(c)
    BY <1>3, <1>6, <2>1, <2>2, <2>4, <2>6 DEF Safe, DependsOn, Filling
  <2> QED BY <2>5, <2>6
<1>11. HeldFresh'
  <2> SUFFICES ASSUME NEW d \in Clients, NEW k \in Keys, Holding(d, k)', Old(k, loc[d].ver)'
               PROVE  k \in excused'
    BY DEF HeldFresh
  <2>1. d # c /\ Holding(d, k) /\ loc'[d] = loc[d] BY <1>3 DEF OthersKeep, Holding
  <2>2. Old(k, loc[d].ver) \/ loc[c].topic \in DependsOn(k) BY <1>3, <2>1
  <2>3. CASE Old(k, loc[d].ver) BY <1>1, <1>3, <2>1, <2>3 DEF CopyParts, HeldFresh
  <2>4. CASE loc[c].topic \in DependsOn(k) BY <1>1, <2>1, <2>4, PurgeAges
  <2> QED BY <2>2, <2>3, <2>4
<1> QED BY <1>8, <1>9, <1>10, <1>11 DEF CopyParts

\* The other steps of an invalidation give up a key of the query cache, or of
\* the hot layer, when they have removed it there.
LEMMA InvalidateCopies ==
    ASSUME CopyInv, NEW c \in Clients, InvalidateQc(c) \/ InvalidateDisk(c) \/ InvalidateHot(c)
    PROVE  CopyParts'
<1>1. TypeInv /\ Fresh /\ CopyParts /\ ClientFacts(c) /\ InvalidateMoves(c)
  BY ClientFactsHold, InvalidateMovesOn DEF CopyInv, StaleInv, CoverInv
<1>2. pc[c] \in InvLabels /\ index' = index
  BY DEF InvalidateQc, InvalidateDisk, InvalidateHot, At, InvLabels
<1>3. \A k : Safe(k) => Safe(k)'
  BY <1>1, <1>2 DEF Safe, DependsOn, Filling, InvalidateMoves, OthersKeep, InvLabels
<1>4. ASSUME NEW k \in Keys
      PROVE  /\ qc'[k] # None => qc'[k] = qc[k] /\ (QcClaimed(k) => QcClaimed(k)')
             /\ hot'[k] # None => hot'[k] = hot[k] /\ (RaceOn(k) => RaceOn(k)')
  <2>0. \A d \in Clients \ {c} : /\ QcPending(d, k) => QcPending(d, k)'
                                 /\ Invalidating(d, k) => Invalidating(d, k)'
    BY <1>1 DEF InvalidateMoves, OthersKeep, QcPending, Invalidating, Deleting
  <2>1. CASE InvalidateQc(c)
    <3>1. pc[c] = "inv_qc" /\ pc'[c] = "inv_disk" /\ loc'[c] = loc[c]
      BY <1>1, <2>1, GotoKeeps DEF InvalidateQc, At
    <3>2. /\ qc'[k] = IF k = loc[c].key THEN None ELSE qc[k]
          /\ hot' = hot
      BY <1>1, <2>1 DEF InvalidateQc, TypeInv, TypeOK
    <3>3. /\ k # loc[c].key /\ QcPending(c, k) => QcPending(c, k)'
          /\ Invalidating(c, k) => Invalidating(c, k)'
      BY <3>1 DEF QcPending, Invalidating, Deleting
    <3> QED BY <1>1, <2>0, <3>2, <3>3 DEF InvalidateMoves, QcClaimed, RaceOn
  <2>2. CASE InvalidateDisk(c)
    <3>1. /\ pc[c] = "inv_disk" /\ pc'[c] = "inv_hot"
          /\ loc'[c] = [loc[c] EXCEPT !.keys = @ \ {loc[c].key}]
      BY <1>1, <2>2, RunAsKeeps DEF InvalidateDisk, At
    <3>2. loc'[c].key = loc[c].key /\ loc'[c].keys = loc[c].keys \ {loc[c].key}
      BY <1>1, <3>1 DEF ClientFacts, Locals
    <3>3. /\ QcPending(c, k) => QcPending(c, k)'
          /\ Invalidating(c, k) => Invalidating(c, k)'
      BY <3>1, <3>2 DEF QcPending, Invalidating, Deleting
    <3> QED BY <1>1, <2>0, <2>2, <3>3 DEF InvalidateDisk, InvalidateMoves, QcClaimed, RaceOn
  <2>3. CASE InvalidateHot(c)
    <3>1. /\ pc[c] = "inv_hot" /\ pc'[c] \in {"idle", "inv_qc"} /\ loc'[c].keys = loc[c].keys
      <4>1. loc[c].op = "invalidate" BY <1>1 DEF InvalidateMoves
      <4>2. CASE loc[c].keys = {} /\ Finish(c)
        <5>1. pc'[c] = "idle" /\ loc'[c] = NoLocals BY <1>1, <4>2, FinishKeeps
        <5> QED BY <2>3, <4>2, <5>1 DEF InvalidateHot, At, NoLocals
      <4>3. CASE \E x \in loc[c].keys : RunAs(c, "inv_qc", [loc[c] EXCEPT !.key = x])
        <5>1. PICK x : pc'[c] = "inv_qc" /\ loc'[c] = [loc[c] EXCEPT !.key = x]
          BY <1>1, <4>3, RunAsKeeps
        <5>2. loc'[c].keys = loc[c].keys BY <1>1, <5>1 DEF ClientFacts, Locals
        <5> QED BY <2>3, <5>1, <5>2 DEF InvalidateHot, At
      <4> QED BY <2>3, <4>1, <4>2, <4>3 DEF InvalidateHot
    <3>2. /\ hot'[k] = IF k = loc[c].key THEN None ELSE hot[k]
          /\ qc' = qc
      BY <1>1, <2>3 DEF InvalidateHot, TypeInv, TypeOK
    <3>3. /\ QcPending(c, k) => QcPending(c, k)'
          /\ k # loc[c].key /\ Invalidating(c, k) => Invalidating(c, k)'
      BY <3>1 DEF QcPending, Invalidating, Deleting
    <3> QED BY <1>1, <2>0, <3>2, <3>3 DEF InvalidateMoves, QcClaimed, RaceOn
  <2> QED BY <2>1, <2>2, <2>3
<1>5. CopiesSafe' BY <1>1, <1>3, <1>4 DEF CopyParts, CopiesSafe
<1>6. CopiesFresh'
  <2>1. \A k, v : Old(k, v)' => Old(k, v) BY <1>1 DEF InvalidateMoves
  <2>2. ASSUME NEW k \in Keys, qc'[k] # None, Old(k, qc[k])' PROVE QcClaimed(k)'
    <3>1. Old(k, qc'[k]) /\ qc'[k] = qc[k] BY <1>4, <2>1, <2>2
    <3> QED BY <1>1, <1>4, <2>2, <3>1 DEF CopyParts, CopiesFresh
  <2>3. ASSUME NEW k \in Keys, hot'[k] # None, Old(k, hot[k])' PROVE RaceOn(k)'
    <3>1. Old(k, hot'[k]) /\ hot'[k] = hot[k] BY <1>4, <2>1, <2>3
    <3> QED BY <1>1, <1>4, <2>3, <3>1 DEF CopyParts, CopiesFresh
  <2> QED BY <2>2, <2>3 DEF CopiesFresh
<1>7. ReadsSafe'
  <2> SUFFICES ASSUME NEW d \in Clients, Reads(d)'
               PROVE  Safe(loc[d].key)' \/ loc'[d].key \in excused'
    BY DEF ReadsSafe
  <2>1. d # c /\ Reads(d) /\ loc'[d] = loc[d]
    BY <1>1 DEF InvalidateMoves, OthersKeep, Reads, ReadLabels, InvLabels
  <2>2. Safe(loc[d].key) \/ loc[d].key \in excused BY <1>1, <2>1 DEF CopyParts, ReadsSafe
  <2> QED BY <1>1, <1>3, <2>1, <2>2 DEF InvalidateMoves, Safe, DependsOn, Filling
<1>8. HeldFresh'
  <2> SUFFICES ASSUME NEW d \in Clients, NEW k \in Keys, Holding(d, k)', Old(k, loc[d].ver)'
               PROVE  k \in excused'
    BY DEF HeldFresh
  <2>1. d # c /\ Holding(d, k) /\ loc'[d] = loc[d]
    BY <1>1, NoLocalsIdle DEF InvalidateMoves, OthersKeep, Holding, InvLabels
  <2>2. Old(k, loc[d].ver) BY <1>1, <2>1 DEF InvalidateMoves
  <2> QED BY <1>1, <2>1, <2>2 DEF CopyParts, HeldFresh, InvalidateMoves
<1> QED BY <1>5, <1>6, <1>7, <1>8 DEF CopyParts

\* Expiry and eviction only remove copies, and a commit is not seen by any.
LEMMA BackgroundCopies ==
    ASSUME CopyInv, "stop" \notin Ops, Background \/ (\E t \in Topics : Commit(t)) \/ UNCHANGED vars
    PROVE  CopyParts'
<1>1. TypeInv /\ CopyParts /\ scan = {} /\ tenant = "up"
  BY DEF CopyInv, StaleInv, CoverInv, Kept, OpsHeld
<1>2. /\ UNCHANGED <<pc, loc, seen, excused, index>>
      /\ \A k \in Keys : /\ qc'[k] # None => qc'[k] = qc[k]
                         /\ hot'[k] # None => hot'[k] = hot[k]
  BY <1>1
  DEF Background, QcDrop, DiskDrop, HotDrop, Rebuild, TenantUp, TenantDown, Commit, vars, tiers,
      database, TypeInv, TypeOK
<1>3. \A k, v : Old(k, v)' => Old(k, v) BY <1>2, OldShrinks
<1>4. /\ \A k : (Safe(k) => Safe(k)') /\ (QcClaimed(k) => QcClaimed(k)') /\ (RaceOn(k) => RaceOn(k)')
      /\ \A d, k : Holding(d, k)' => Holding(d, k)
  BY <1>2 DEF Safe, DependsOn, Filling, QcClaimed, QcPending, RaceOn, Invalidating, Deleting, Holding
<1>5. CopiesSafe' BY <1>1, <1>2, <1>4 DEF CopyParts, CopiesSafe
<1>6. CopiesFresh'
  <2>1. ASSUME NEW k \in Keys, qc'[k] # None, Old(k, qc[k])' PROVE QcClaimed(k)'
    <3>1. Old(k, qc'[k]) /\ qc'[k] = qc[k] BY <1>2, <1>3, <2>1
    <3> QED BY <1>1, <1>4, <2>1, <3>1 DEF CopyParts, CopiesFresh
  <2>2. ASSUME NEW k \in Keys, hot'[k] # None, Old(k, hot[k])' PROVE RaceOn(k)'
    <3>1. Old(k, hot'[k]) /\ hot'[k] = hot[k] BY <1>2, <1>3, <2>2
    <3> QED BY <1>1, <1>4, <2>2, <3>1 DEF CopyParts, CopiesFresh
  <2> QED BY <2>1, <2>2 DEF CopiesFresh
<1>7. ReadsSafe' BY <1>1, <1>2, <1>4 DEF CopyParts, ReadsSafe, Reads
<1>8. HeldFresh' BY <1>1, <1>2, <1>3, <1>4 DEF CopyParts, HeldFresh
<1> QED BY <1>5, <1>6, <1>7, <1>8 DEF CopyParts

LEMMA CopyInvariant ==
    ASSUME NoDeleteNoFlagRace, NoSkippedChange, "stop" \notin Ops
    PROVE  Spec => []CopyInv
<1>1. Init /\ StaleInv => CopyInv
  <2> SUFFICES ASSUME Init PROVE CopyParts BY DEF CopyInv
  <2> QED BY DEF Init, CopyParts, CopiesSafe, CopiesFresh, ReadsSafe, Reads, ReadLabels, HeldFresh, Holding
<1>2. CopyInv /\ StaleInv' /\ [Next]_vars => CopyInv'
  <2> SUFFICES ASSUME CopyInv, [Next]_vars PROVE CopyParts' BY DEF CopyInv
  <2>0. StaleInv BY DEF CopyInv
  <2>1. ASSUME NEW c \in Clients, Call(c) PROVE CopyParts' BY <2>0, <2>1, CallFlows, FlowCopies
  <2>2. ASSUME NEW c \in Clients, Step(c) PROVE CopyParts'
    <3>1. ~DeleteStep(c) /\ ~SkipPurge(c)
      BY <2>0 DEF StaleInv, CoverInv, Kept, NoDeletes, OpsHeld, DeleteStep, DeleteMeta, DeleteCount,
                  PurgeKey, At, SkipPurge
    <3>2. CASE GetStep(c) \/ PutStep(c) \/ SetPersistStep(c)
      BY <2>0, <3>2, GetFlows, PutFlows, SetPersistFlows, FlowCopies
    <3>3. CASE InvalidateStep(c)
      BY <3>1, <3>3, PurgeCopies, InvalidateCopies DEF InvalidateStep
    <3> QED BY <2>2, <3>1, <3>2, <3>3 DEF Step
  <2> QED BY <2>1, <2>2, BackgroundCopies DEF Next
<1> QED BY <1>1, <1>2, StaleInvariant, PTL DEF Spec

\* While the tenant stays up, the same holds of the copies in front of the disk,
\* which readers fill after they have read: an entry of the query cache or of the
\* hot layer older than a change whose invalidation has finished is left over
\* from a race on that very key, for any keys, rows and number of clients.
THEOREM StaleCopiesOnlyByRace ==
    ASSUME NoDeleteNoFlagRace, NoSkippedChange, "stop" \notin Ops
    PROVE  Spec => []CopiesStaleOnlyByRace
<1>1. CopyInv => CopiesStaleOnlyByRace
  <2> SUFFICES ASSUME CopyInv, NEW k \in Keys, Outdated(qc[k], k) \/ Outdated(hot[k], k)
               PROVE  RaceOn(k)
    BY DEF CopiesStaleOnlyByRace
  <2>1. CASE Outdated(qc[k], k)
    <3>1. qc[k] # None /\ Old(k, qc[k]) BY <2>1 DEF Outdated, Old
    <3> QED BY <3>1 DEF CopyInv, CopyParts, CopiesFresh, QcClaimed, QcPending, RaceOn, Invalidating
  <2>2. CASE Outdated(hot[k], k)
    <3>1. hot[k] # None /\ Old(k, hot[k]) BY <2>2 DEF Outdated, Old
    <3> QED BY <3>1 DEF CopyInv, CopyParts, CopiesFresh
  <2> QED BY <2>1, <2>2
<1> QED BY <1>1, CopyInvariant, PTL
=============================================================================
