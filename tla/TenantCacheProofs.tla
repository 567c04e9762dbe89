------------------------- MODULE TenantCacheProofs -------------------------
(***************************************************************************)
(* Theorems about TenantCache, for any keys, rows, clients and bounds.     *)
(***************************************************************************)
EXTENDS TenantCache, FiniteSetTheorems, TLAPS

\* A client past the choice of its key has one.
Keyless == {"idle", "purge", "purge_table"}
HasKey == \A c \in Clients : pc[c] \notin Keyless => loc[c].key \in Keys

TypeInv == TypeOK /\ HasKey

\* The two halves of TypeInv: the clients' own state, and the state they share.
ClientTypes == pc \in [Clients -> Labels] /\ loc \in [Clients -> Locals] /\ HasKey
SharedTypes ==
    /\ version \in Versions
    /\ changes \subseteq [topic : Topics, ver : Versions]
    /\ seen \in [Topics -> Versions]
    /\ qc \in [Keys -> Versions \cup {None}]
    /\ disk \in [Keys -> Entry \cup {None}]
    /\ hot \in [Keys -> Versions \cup {None}]
    /\ index \subseteq Topics \X Keys
    /\ scan \subseteq Keys
    /\ tenant \in {"up", "down"}
    /\ count \in Int
    /\ excused \subseteq Keys

LEMMA Halves ==
    /\ TypeInv <=> ClientTypes /\ SharedTypes
    /\ TypeInv' <=> ClientTypes' /\ SharedTypes'
BY DEF TypeInv, TypeOK, ClientTypes, SharedTypes

LEMMA NoLocalsType == NoLocals \in Locals
BY ConstantsAssumption DEF NoLocals, Locals, Versions

LEMMA DependsOnType == ASSUME NEW k \in Keys PROVE DependsOn(k) \subseteq Topics
BY ConstantsAssumption DEF DependsOn, Topics

LEMMA GotoTypes ==
    ASSUME ClientTypes, NEW c \in Clients, NEW label \in Labels, Goto(c, label), UNCHANGED loc,
           label \in Keyless \/ loc[c].key \in Keys
    PROVE  ClientTypes'
BY DEF ClientTypes, HasKey, Goto

LEMMA RunAsTypes ==
    ASSUME ClientTypes, NEW c \in Clients, NEW label \in Labels, NEW l \in Locals,
           RunAs(c, label, l), label \in Keyless \/ l.key \in Keys
    PROVE  ClientTypes'
BY DEF ClientTypes, HasKey, RunAs, Goto

LEMMA FinishTypes ==
    ASSUME ClientTypes, NEW c \in Clients, Finish(c)
    PROVE  ClientTypes'
<1>1. "idle" \in Labels /\ "idle" \in Keyless BY DEF Labels, Keyless
<1> QED BY <1>1, NoLocalsType, RunAsTypes DEF Finish, RunAs

LEMMA ActiveKey ==
    ASSUME ClientTypes, NEW c \in Clients, pc[c] \notin Keyless
    PROVE  loc[c].key \in Keys
BY DEF ClientTypes, HasKey

\* Changing one local of a client.
LEMMA LocalsUpdate ==
    ASSUME NEW l \in Locals
    PROVE  /\ \A v \in Versions : /\ [l EXCEPT !.ver = v] \in Locals
                                /\ [l EXCEPT !.ver = v].key = l.key
           /\ \A k \in Keys : /\ [l EXCEPT !.key = k] \in Locals
                            /\ [l EXCEPT !.key = k].key = k
           /\ \A S \in SUBSET Topics : /\ [l EXCEPT !.todo = S] \in Locals
                                     /\ [l EXCEPT !.todo = S].key = l.key
           /\ \A S \in SUBSET Keys : /\ [l EXCEPT !.keys = S] \in Locals
                                   /\ [l EXCEPT !.keys = S].key = l.key
<1>1. ASSUME NEW v \in Versions
      PROVE  [l EXCEPT !.ver = v] \in Locals /\ [l EXCEPT !.ver = v].key = l.key
  BY DEF Locals
<1>2. ASSUME NEW k \in Keys
      PROVE  [l EXCEPT !.key = k] \in Locals /\ [l EXCEPT !.key = k].key = k
  BY DEF Locals
<1>3. ASSUME NEW S \in SUBSET Topics
      PROVE  [l EXCEPT !.todo = S] \in Locals /\ [l EXCEPT !.todo = S].key = l.key
  BY DEF Locals
<1>4. ASSUME NEW S \in SUBSET Keys
      PROVE  [l EXCEPT !.keys = S] \in Locals /\ [l EXCEPT !.keys = S].key = l.key
  BY DEF Locals
<1> QED BY <1>1, <1>2, <1>3, <1>4

\* Every step of the read path keeps the types.
LEMMA GetTypes ==
    ASSUME ClientTypes, SharedTypes, NEW c \in Clients, GetStep(c)
    PROVE  ClientTypes' /\ SharedTypes'
<1> USE ActiveKey, GotoTypes, RunAsTypes, FinishTypes DEF At, Labels, Keyless
<1>1. CASE HotGet(c)
  <2>1. ClientTypes' BY <1>1 DEF HotGet
  <2>2. SharedTypes' BY <1>1 DEF HotGet, SharedTypes, tiers, database
  <2> QED BY <2>1, <2>2
<1>2. CASE QcGet(c)
  <2>1. ClientTypes'
    <3>1. CASE qc[loc[c].key] # None
      <4>1. qc[loc[c].key] \in Versions BY <1>2, <3>1 DEF QcGet, SharedTypes
      <4>2. loc[c] \in Locals BY DEF ClientTypes
      <4> QED BY <1>2, <3>1, <4>1, <4>2, LocalsUpdate DEF QcGet
    <3>2. CASE qc[loc[c].key] = None BY <1>2, <3>2 DEF QcGet
    <3> QED BY <3>1, <3>2
  <2>2. SharedTypes' BY <1>2 DEF QcGet, SharedTypes, tiers, database, ReadOverlaps
  <2> QED BY <2>1, <2>2
<1>3. CASE DiskGet(c)
  <2>1. ClientTypes'
    <3>1. CASE disk[loc[c].key] # None
      <4>1. disk[loc[c].key].ver \in Versions BY <1>3, <3>1 DEF DiskGet, SharedTypes, Entry
      <4>2. loc[c] \in Locals BY DEF ClientTypes
      <4> QED BY <1>3, <3>1, <4>1, <4>2, LocalsUpdate DEF DiskGet
    <3>2. CASE disk[loc[c].key] = None BY <1>3, <3>2 DEF DiskGet
    <3> QED BY <3>1, <3>2
  <2>2. SharedTypes' BY <1>3 DEF DiskGet, SharedTypes, tiers, database, ReadOverlaps
  <2> QED BY <2>1, <2>2
<1>4. CASE Promote(c)
  <2>1. ClientTypes' BY <1>4 DEF Promote
  <2>2. SharedTypes' BY <1>4 DEF Promote, SharedTypes, tiers, database, ClientTypes, Locals
  <2> QED BY <2>1, <2>2
<1>5. CASE ReadTtl(c)
  <2>1. ClientTypes' BY <1>5 DEF ReadTtl
  <2>2. SharedTypes' BY <1>5 DEF ReadTtl, SharedTypes, tiers, database
  <2> QED BY <2>1, <2>2
<1>6. CASE Observe(c)
  <2>1. ClientTypes' BY <1>6 DEF Observe
  <2>2. SharedTypes' BY <1>6 DEF Observe, SharedTypes, tiers, database, ClientTypes, Locals
  <2> QED BY <2>1, <2>2
<1> QED BY <1>1, <1>2, <1>3, <1>4, <1>5, <1>6 DEF GetStep

\* Every step of a fill keeps the types.
LEMMA PutTypes ==
    ASSUME ClientTypes, SharedTypes, NEW c \in Clients, PutStep(c)
    PROVE  ClientTypes' /\ SharedTypes'
<1> USE ActiveKey, GotoTypes, RunAsTypes, FinishTypes DEF At, Labels, Keyless
<1>1. CASE Fetch(c)
  <2>1. ClientTypes' BY <1>1 DEF Fetch, SharedTypes, ClientTypes, Locals
  <2>2. SharedTypes' BY <1>1 DEF Fetch, SharedTypes, tiers, database
  <2> QED BY <2>1, <2>2
<1>2. CASE PutMeta(c)
  <2>1. ClientTypes' BY <1>2 DEF PutMeta
  <2>2. SharedTypes' BY <1>2 DEF PutMeta, SharedTypes, tiers, database
  <2> QED BY <2>1, <2>2
<1>3. CASE PutCount(c)
  <2>1. ClientTypes' BY <1>3 DEF PutCount
  <2>2. SharedTypes' BY <1>3 DEF PutCount, SharedTypes, tiers, database
  <2> QED BY <2>1, <2>2
<1>4. CASE PutCap(c)
  <2>1. ClientTypes' BY <1>4 DEF PutCap
  <2>2. SharedTypes' BY <1>4 DEF PutCap, SharedTypes, tiers, database
  <2> QED BY <2>1, <2>2
<1>5. CASE PutRefund(c)
  <2>1. ClientTypes' BY <1>5 DEF PutRefund
  <2>2. SharedTypes' BY <1>5 DEF PutRefund, SharedTypes, tiers, database
  <2> QED BY <2>1, <2>2
<1>6. CASE PutUncount(c)
  <2>1. ClientTypes' BY <1>6 DEF PutUncount
  <2>2. SharedTypes' BY <1>6 DEF PutUncount, SharedTypes, tiers, database
  <2> QED BY <2>1, <2>2
<1>7. CASE PutQc(c)
  <2>1. ClientTypes' BY <1>7 DEF PutQc
  <2>2. SharedTypes' BY <1>7 DEF PutQc, SharedTypes, tiers, database, ClientTypes, Locals
  <2> QED BY <2>1, <2>2
<1>8. CASE PutDisk(c)
  <2>a. loc[c].key \in Keys /\ loc[c] \in Locals BY <1>8 DEF PutDisk, ClientTypes
  <2>1. ClientTypes' BY <1>8, <2>a, LocalsUpdate, DependsOnType DEF PutDisk
  <2>2. SharedTypes'
    <3>1. [ver |-> loc[c].ver, persist |-> loc[c].persist] \in Entry BY <2>a DEF Locals, Entry
    <3>2. disk' \in [Keys -> Entry \cup {None}] BY <1>8, <3>1 DEF PutDisk, SharedTypes
    <3> QED BY <1>8, <3>2 DEF PutDisk, SharedTypes, tiers, database
  <2> QED BY <2>1, <2>2
<1>9. CASE PutIndex(c)
  <2>a. loc[c].key \in Keys /\ loc[c] \in Locals BY <1>9 DEF PutIndex, ClientTypes
  <2>b. PICK t \in loc[c].todo : /\ index' = index \cup {<<t, loc[c].key>>}
                                 /\ loc' = [loc EXCEPT ![c].todo = @ \ {t}]
    BY <1>9 DEF PutIndex
  <2>c. loc[c].todo \subseteq Topics BY <2>a DEF Locals
  <2>1. ClientTypes'
    <3>1. [loc[c] EXCEPT !.todo = @ \ {t}] \in Locals BY <2>a, <2>c DEF Locals
    <3>2. loc' = [loc EXCEPT ![c] = [loc[c] EXCEPT !.todo = @ \ {t}]] BY <2>b
    <3>3. \A d \in Clients : loc'[d] \in Locals /\ loc'[d].key = loc[d].key
      BY <2>a, <3>1, <3>2 DEF ClientTypes, Locals
    <3>4. pc' = pc BY <1>9 DEF PutIndex
    <3> QED BY <3>2, <3>3, <3>4 DEF ClientTypes, HasKey
  <2>2. SharedTypes'
    <3>1. index' \subseteq Topics \X Keys BY <2>a, <2>b, <2>c DEF SharedTypes
    <3> QED BY <1>9, <3>1 DEF PutIndex, SharedTypes, tiers, database
  <2> QED BY <2>1, <2>2
<1>10. CASE PutIndexed(c)
  <2>1. ClientTypes' BY <1>10 DEF PutIndexed
  <2>2. SharedTypes' BY <1>10 DEF PutIndexed, SharedTypes, tiers, database
  <2> QED BY <2>1, <2>2
<1>11. CASE PutHot(c)
  <2>1. ClientTypes' BY <1>11 DEF PutHot
  <2>2. SharedTypes' BY <1>11 DEF PutHot, SharedTypes, tiers, database
  <2> QED BY <2>1, <2>2
<1>12. CASE PutDrop(c)
  <2>1. ClientTypes' BY <1>12 DEF PutDrop
  <2>2. SharedTypes' BY <1>12 DEF PutDrop, SharedTypes, tiers, database
  <2> QED BY <2>1, <2>2
<1> QED BY <1>1, <1>2, <1>3, <1>4, <1>5, <1>6, <1>7, <1>8, <1>9, <1>10, <1>11, <1>12 DEF PutStep

\* Every step of set_persist keeps the types.
LEMMA SetPersistTypes ==
    ASSUME ClientTypes, SharedTypes, NEW c \in Clients, SetPersistStep(c)
    PROVE  ClientTypes' /\ SharedTypes'
<1> USE ActiveKey, GotoTypes, RunAsTypes, FinishTypes DEF At, Labels, Keyless
<1>1. CASE SetPersistMeta(c)
  <2>1. ClientTypes' BY <1>1 DEF SetPersistMeta
  <2>2. SharedTypes' BY <1>1 DEF SetPersistMeta, SharedTypes, tiers, database
  <2> QED BY <2>1, <2>2
<1>2. CASE SetPersistCount(c)
  <2>1. ClientTypes' BY <1>2 DEF SetPersistCount
  <2>2. SharedTypes' BY <1>2 DEF SetPersistCount, SharedTypes, tiers, database
  <2> QED BY <2>1, <2>2
<1>3. CASE SetPersistCap(c)
  <2>1. ClientTypes' BY <1>3 DEF SetPersistCap
  <2>2. SharedTypes' BY <1>3 DEF SetPersistCap, SharedTypes, tiers, database
  <2> QED BY <2>1, <2>2
<1>4. CASE SetPersistDrop(c)
  <2>a. loc[c] \in Locals BY DEF ClientTypes
  <2>1. ClientTypes'
    <3>1. CASE Finish(c) BY <3>1
    <3>2. CASE disk[loc[c].key] # None /\ ~Finish(c)
      <4>1. disk[loc[c].key].ver \in Versions
        BY <1>4, <3>2 DEF SetPersistDrop, SharedTypes, Entry
      <4> QED BY <1>4, <2>a, <3>2, <4>1, LocalsUpdate DEF SetPersistDrop
    <3> QED BY <1>4, <3>1, <3>2 DEF SetPersistDrop
  <2>2. SharedTypes' BY <1>4 DEF SetPersistDrop, SharedTypes, tiers, database
  <2> QED BY <2>1, <2>2
<1>6. CASE SetPersistDisk(c)
  <2>a. loc[c].key \in Keys /\ loc[c] \in Locals BY <1>6 DEF SetPersistDisk, ClientTypes
  <2>1. ClientTypes' BY <1>6 DEF SetPersistDisk
  <2>2. SharedTypes'
    <3>1. [ver |-> loc[c].ver, persist |-> loc[c].persist] \in Entry BY <2>a DEF Locals, Entry
    <3>2. disk' \in [Keys -> Entry \cup {None}] BY <1>6, <3>1 DEF SetPersistDisk, SharedTypes
    <3> QED BY <1>6, <3>2 DEF SetPersistDisk, SharedTypes, tiers, database
  <2> QED BY <2>1, <2>2
<1>5. CASE SetPersistUncount(c)
  <2>1. ClientTypes' BY <1>5 DEF SetPersistUncount
  <2>2. SharedTypes' BY <1>5 DEF SetPersistUncount, SharedTypes, tiers, database
  <2> QED BY <2>1, <2>2
<1> QED BY <1>1, <1>2, <1>3, <1>4, <1>5, <1>6 DEF SetPersistStep

\* Every step of a delete keeps the types.
LEMMA DeleteTypes ==
    ASSUME ClientTypes, SharedTypes, NEW c \in Clients, DeleteStep(c)
    PROVE  ClientTypes' /\ SharedTypes'
<1> USE ActiveKey, GotoTypes, RunAsTypes, FinishTypes DEF At, Labels, Keyless
<1>1. CASE DeleteMeta(c)
  <2>1. ClientTypes' BY <1>1 DEF DeleteMeta
  <2>2. SharedTypes' BY <1>1 DEF DeleteMeta, SharedTypes, tiers, database
  <2> QED BY <2>1, <2>2
<1>2. CASE DeleteCount(c)
  <2>1. ClientTypes' BY <1>2 DEF DeleteCount
  <2>2. SharedTypes' BY <1>2 DEF DeleteCount, SharedTypes, tiers, database
  <2> QED BY <2>1, <2>2
<1>3. CASE PurgeKey(c)
  <2>1. ClientTypes' BY <1>3 DEF PurgeKey
  <2>2. SharedTypes' BY <1>3 DEF PurgeKey, SharedTypes, tiers, database
  <2> QED BY <2>1, <2>2
<1> QED BY <1>1, <1>2, <1>3 DEF DeleteStep

\* Every step of an invalidation keeps the types.
LEMMA InvalidateTypes ==
    ASSUME ClientTypes, SharedTypes, NEW c \in Clients, InvalidateStep(c)
    PROVE  ClientTypes' /\ SharedTypes'
<1> USE ActiveKey, GotoTypes, RunAsTypes, FinishTypes DEF At, Labels, Keyless
<1>1. CASE Purge(c)
  <2> DEFINE found == PurgedKeys(c)
  <2>1. ClientTypes'
    <3>1. CASE Finish(c) BY <3>1
    <3>2. CASE \E k \in found : RunAs(c, "inv_qc", [loc[c] EXCEPT !.key = k, !.keys = found])
      <4>1. PICK k \in found : RunAs(c, "inv_qc", [loc[c] EXCEPT !.key = k, !.keys = found])
        BY <3>2
      <4>2. found \subseteq Keys BY DEF PurgedKeys, RowKeys
      <4>3. /\ [loc[c] EXCEPT !.key = k, !.keys = found] \in Locals
            /\ [loc[c] EXCEPT !.key = k, !.keys = found].key = k
        BY <4>1, <4>2 DEF ClientTypes, Locals
      <4> HIDE DEF found
      <4> QED BY <4>1, <4>2, <4>3
    <3> QED BY <1>1, <3>1, <3>2 DEF Purge
  <2>2. SharedTypes'
    <3>1. excused' \subseteq Keys
      BY <1>1 DEF Purge, SharedTypes, PurgeOverlaps, PurgedKeys, RowKeys
    <3> QED
      BY <1>1, <3>1 DEF Purge, SharedTypes, tiers, database, MarkSeen, ClientTypes, Locals
  <2> QED BY <2>1, <2>2
<1>2. CASE SkipPurge(c)
  <2>1. ClientTypes' BY <1>2 DEF SkipPurge
  <2>2. SharedTypes' BY <1>2 DEF SkipPurge, SharedTypes, tiers, database, MarkSeen, ClientTypes, Locals
  <2> QED BY <2>1, <2>2
<1>3. CASE InvalidateQc(c)
  <2>1. ClientTypes' BY <1>3 DEF InvalidateQc
  <2>2. SharedTypes' BY <1>3 DEF InvalidateQc, SharedTypes, tiers, database
  <2> QED BY <2>1, <2>2
<1>4. CASE InvalidateDisk(c)
  <2>1. ClientTypes'
    <3>1. loc[c] \in Locals /\ loc[c].keys \ {loc[c].key} \subseteq Keys
      BY DEF ClientTypes, Locals
    <3>2. /\ [loc[c] EXCEPT !.keys = @ \ {loc[c].key}] \in Locals
          /\ [loc[c] EXCEPT !.keys = @ \ {loc[c].key}].key = loc[c].key
      BY <3>1 DEF Locals
    <3>3. RunAs(c, "inv_hot", [loc[c] EXCEPT !.keys = @ \ {loc[c].key}])
      BY <1>4 DEF InvalidateDisk
    <3> QED BY <1>4, <3>2, <3>3 DEF InvalidateDisk
  <2>2. SharedTypes' BY <1>4 DEF InvalidateDisk, SharedTypes, tiers, database
  <2> QED BY <2>1, <2>2
<1>5. CASE InvalidateHot(c)
  <2>1. ClientTypes'
    <3>1. loc[c] \in Locals /\ loc[c].keys \subseteq Keys BY DEF ClientTypes, Locals
    <3> QED BY <1>5, <3>1, LocalsUpdate DEF InvalidateHot
  <2>2. SharedTypes' BY <1>5 DEF InvalidateHot, SharedTypes, tiers, database, MarkSeen, ClientTypes, Locals
  <2> QED BY <2>1, <2>2
<1> QED BY <1>1, <1>2, <1>3, <1>4, <1>5 DEF InvalidateStep

\* Starting an operation keeps the types.
LEMMA CallTypes ==
    ASSUME ClientTypes, SharedTypes, NEW c \in Clients, Call(c)
    PROVE  ClientTypes' /\ SharedTypes'
<1> USE RunAsTypes, NoLocalsType DEF Labels, Keyless, Begin
<1>1. CASE Invalidate(c)
  <2>1. PICK ch \in changes, label \in {"purge", "purge_table"} :
           /\ changes' = changes \ {ch}
           /\ RunAs(c, label, [NoLocals EXCEPT !.op = "invalidate", !.topic = ch.topic,
                                               !.ver = ch.ver])
    BY <1>1 DEF Invalidate
  <2>2. [NoLocals EXCEPT !.op = "invalidate", !.topic = ch.topic, !.ver = ch.ver] \in Locals
    BY NoLocalsType DEF SharedTypes, Locals, OpNames
  <2>3. ClientTypes' BY <2>1, <2>2
  <2>4. SharedTypes' BY <1>1, <2>1 DEF Invalidate, SharedTypes, tiers
  <2> QED BY <2>3, <2>4
<1>2. ASSUME NEW k \in Keys, Get(c, k) PROVE ClientTypes' /\ SharedTypes'
  <2>1. [NoLocals EXCEPT !.op = "get", !.key = k] \in Locals
    BY NoLocalsType DEF Locals, OpNames
  <2>2. [NoLocals EXCEPT !.op = "get", !.key = k].key = k BY DEF NoLocals
  <2>3. ClientTypes' BY <1>2, <2>1, <2>2 DEF Get
  <2>4. SharedTypes' BY <1>2 DEF Get, SharedTypes, tiers, database
  <2> QED BY <2>3, <2>4
<1>3. ASSUME NEW k \in Keys, Put(c, k) PROVE ClientTypes' /\ SharedTypes'
  <2>1. PICK b \in Persist :
           RunAs(c, "fetch", [NoLocals EXCEPT !.op = "put", !.key = k, !.persist = b])
    BY <1>3 DEF Put
  <2>2. [NoLocals EXCEPT !.op = "put", !.key = k, !.persist = b] \in Locals
    BY NoLocalsType, ConstantsAssumption DEF Locals, OpNames
  <2>3. [NoLocals EXCEPT !.op = "put", !.key = k, !.persist = b].key = k BY DEF NoLocals
  <2>4. ClientTypes' BY <2>1, <2>2, <2>3
  <2>5. SharedTypes' BY <1>3 DEF Put, SharedTypes, tiers, database
  <2> QED BY <2>4, <2>5
<1>4. ASSUME NEW k \in Keys, SetPersist(c, k) PROVE ClientTypes' /\ SharedTypes'
  <2>1. PICK b \in BOOLEAN :
           RunAs(c, "sp_meta", [NoLocals EXCEPT !.op = "set_persist", !.key = k, !.persist = b])
    BY <1>4 DEF SetPersist
  <2>2. [NoLocals EXCEPT !.op = "set_persist", !.key = k, !.persist = b] \in Locals
    BY NoLocalsType DEF Locals, OpNames
  <2>3. [NoLocals EXCEPT !.op = "set_persist", !.key = k, !.persist = b].key = k BY DEF NoLocals
  <2>4. ClientTypes' BY <2>1, <2>2, <2>3
  <2>5. SharedTypes' BY <1>4 DEF SetPersist, SharedTypes, tiers, database
  <2> QED BY <2>4, <2>5
<1>5. ASSUME NEW k \in Keys, Delete(c, k) PROVE ClientTypes' /\ SharedTypes'
  <2>1. [NoLocals EXCEPT !.op = "delete", !.key = k, !.keys = {k}] \in Locals
    BY NoLocalsType DEF Locals, OpNames
  <2>2. [NoLocals EXCEPT !.op = "delete", !.key = k, !.keys = {k}].key = k BY DEF NoLocals
  <2>3. ClientTypes' BY <1>5, <2>1, <2>2 DEF Delete
  <2>4. SharedTypes' BY <1>5 DEF Delete, SharedTypes, tiers, database
  <2> QED BY <2>3, <2>4
<1> QED BY <1>1, <1>2, <1>3, <1>4, <1>5 DEF Call

\* So do the database and the tenant's background work.
LEMMA CommitTypes ==
    ASSUME ClientTypes, SharedTypes, NEW t \in Topics, Commit(t)
    PROVE  ClientTypes' /\ SharedTypes'
<1>1. ClientTypes' BY DEF Commit, ClientTypes, HasKey
<1>2. version + 1 \in Versions BY ConstantsAssumption DEF Commit, SharedTypes, Versions
<1>3. SharedTypes' BY <1>2 DEF Commit, SharedTypes, tiers
<1> QED BY <1>1, <1>3

LEMMA BackgroundTypes ==
    ASSUME ClientTypes, SharedTypes, Background
    PROVE  ClientTypes' /\ SharedTypes'
<1>1. ASSUME NEW k \in Keys, QcDrop(k) \/ DiskDrop(k) \/ HotDrop(k) \/ Rebuild(k)
      PROVE  ClientTypes' /\ SharedTypes'
  <2>1. ClientTypes' BY <1>1 DEF QcDrop, DiskDrop, HotDrop, Rebuild, ClientTypes, HasKey
  <2>2. CASE QcDrop(k) BY <2>1, <2>2 DEF QcDrop, SharedTypes, database
  <2>3. CASE DiskDrop(k) BY <2>1, <2>3 DEF DiskDrop, SharedTypes, database
  <2>4. CASE HotDrop(k) BY <2>1, <2>4 DEF HotDrop, SharedTypes, database
  <2>5. CASE Rebuild(k) BY <2>1, <2>5, DependsOnType DEF Rebuild, SharedTypes, database, tiers
  <2> QED BY <1>1, <2>2, <2>3, <2>4, <2>5
<1>2. CASE TenantDown
  <2>1. PICK dead \in SUBSET {c \in Clients : pc[c] # "idle"} :
          /\ pc' = [c \in Clients |-> IF c \in dead THEN "idle" ELSE AfterRestart(pc[c])]
          /\ loc' = [c \in Clients |-> IF c \in dead THEN NoLocals ELSE loc[c]]
          /\ excused' = excused \cup UNION {loc[c].keys \cup ({loc[c].key} \cap Keys) : c \in dead}
    BY <1>2 DEF TenantDown
  <2>3. "idle" \in Labels /\ "idle" \in Keyless BY DEF Labels, Keyless
  <2>4. ClientTypes'
    <3>1. pc' \in [Clients -> Labels]
      <4>1. \A c \in Clients : AfterRestart(pc[c]) \in Labels
        <5>1. \A c \in Clients : pc[c] \in Labels BY DEF ClientTypes
        <5> QED BY <5>1 DEF AfterRestart, Labels
      <4> QED BY <2>1, <2>3, <4>1
    <3>2. loc' \in [Clients -> Locals] BY <2>1, NoLocalsType DEF ClientTypes
    <3>3. ASSUME NEW c \in Clients, pc'[c] \notin Keyless PROVE loc'[c].key \in Keys
      <4>1. c \notin dead BY <2>1, <2>3, <3>3
      <4>2. pc[c] \notin Keyless
        BY <2>1, <3>3, <4>1 DEF AfterRestart, Keyless
      <4> QED BY <2>1, <4>1, <4>2 DEF ClientTypes, HasKey
    <3> QED BY <3>1, <3>2, <3>3 DEF ClientTypes, HasKey
  <2>5. \A c \in dead : loc[c].keys \subseteq Keys BY DEF ClientTypes, Locals
  <2>6. excused' \subseteq Keys BY <2>1, <2>5 DEF SharedTypes
  <2>7. SharedTypes' BY <1>2, <2>6 DEF TenantDown, SharedTypes, database
  <2> QED BY <2>4, <2>7
<1>3. CASE TenantUp
  <2>1. ClientTypes' BY <1>3 DEF TenantUp, ClientTypes, HasKey
  <2>2. count' \in Int
    <3>1. IsFiniteSet({k \in Keys : IsPersisted(k)}) BY ConstantsAssumption, FS_Subset
    <3> QED BY <1>3, <3>1, FS_CardinalityType DEF TenantUp
  <2> QED BY <1>3, <2>1, <2>2 DEF TenantUp, SharedTypes, database, tiers
<1> QED BY <1>1, <1>2, <1>3 DEF Background

LEMMA TypeInvariant == Spec => []TypeInv
<1>1. Init => TypeInv
  <2> SUFFICES ASSUME Init PROVE TypeInv OBVIOUS
  <2> USE ConstantsAssumption, NoLocalsType
  <2>1. ClientTypes BY DEF Init, ClientTypes, HasKey, Keyless, Labels
  <2>2. SharedTypes BY DEF Init, SharedTypes, Versions
  <2> QED BY <2>1, <2>2, Halves
<1>2. TypeInv /\ [Next]_vars => TypeInv'
  <2> SUFFICES ASSUME TypeInv, [Next]_vars PROVE TypeInv' OBVIOUS
  <2>0. ClientTypes /\ SharedTypes BY Halves
  <2>1. ASSUME NEW c \in Clients, Call(c) PROVE ClientTypes' /\ SharedTypes'
    BY <2>0, <2>1, CallTypes
  <2>2. ASSUME NEW c \in Clients, Step(c) PROVE ClientTypes' /\ SharedTypes'
    BY <2>0, <2>2, GetTypes, PutTypes, SetPersistTypes, DeleteTypes, InvalidateTypes DEF Step
  <2>3. ASSUME NEW t \in Topics, Commit(t) PROVE ClientTypes' /\ SharedTypes'
    BY <2>0, <2>3, CommitTypes
  <2>4. CASE Background BY <2>0, <2>4, BackgroundTypes, Halves
  <2>5. CASE UNCHANGED vars
    BY <2>0, <2>5, Halves DEF vars, database, tiers, ClientTypes, SharedTypes, HasKey
  <2> QED BY <2>1, <2>2, <2>3, <2>4, <2>5, Halves DEF Next
<1> QED BY <1>1, <1>2, PTL DEF Spec
\* Every variable holds a value of its type in every reachable state: no step
\* stores a missing version or key, a label that no action handles, or a pair
\* of an unknown key.
THEOREM TypeCorrect == Spec => []TypeOK
BY TypeInvariant, PTL DEF TypeInv

-----------------------------------------------------------------------------
(***************************************************************************)
(* DiskCovered, for instances in which no client deletes (the last step of *)
(* a delete drops the pairs of a key another client may just have cached), *)
(* and in which the tenant is not restarted while clients change persist   *)
(* flags (a rebuild that reads past an entry while its flag is rewritten   *)
(* misses it).  By itself DiskCovered is not inductive: a client could     *)
(* finish while it holds claimed keys, and an entry is off the disk while  *)
(* set_persist rewrites it, only to come back.                             *)
(***************************************************************************)
NoDeletes ==
    \A c \in Clients : loc[c].op # "delete" /\ pc[c] \notin {"del_meta", "del_count", "purge_key"}
ClaimsHeld ==
    \A c \in Clients : loc[c].keys # {} => pc[c] \in {"inv_qc", "inv_disk", "inv_hot"}

FlagLabels == {"sp_meta", "sp_count", "sp_cap", "sp_set", "sp_clear", "sp_write", "sp_uncount"}
OpsHeld ==
    /\ "set_persist" \notin Ops => \A c \in Clients : pc[c] \notin FlagLabels
    /\ "stop" \notin Ops => scan = {} /\ tenant = "up"

\* On disk, or dropped from it for the moment it takes to rewrite the flag.
Present(k) == disk[k] # None \/ \E c \in Clients : pc[c] = "sp_write" /\ loc[c].key = k
Covered ==
    \A k \in Keys : Present(k) =>
        \A t \in DependsOn(k) : Indexed(k, t) \/ \E c \in Clients : Deleting(c, k)

Kept == NoDeletes /\ ClaimsHeld /\ OpsHeld /\ Covered
CoverInv == TypeInv /\ Kept

NoDeleteNoFlagRace == "delete" \notin Ops /\ ("stop" \notin Ops \/ "set_persist" \notin Ops)

OthersKeep(c) == \A d \in Clients \ {c} : pc'[d] = pc[d] /\ loc'[d] = loc[d]

LEMMA GotoKeeps ==
    ASSUME TypeInv, NEW c \in Clients, NEW label, Goto(c, label), UNCHANGED loc
    PROVE  OthersKeep(c) /\ pc'[c] = label /\ loc'[c] = loc[c]
BY DEF TypeInv, TypeOK, Goto, OthersKeep

LEMMA RunAsKeeps ==
    ASSUME TypeInv, NEW c \in Clients, NEW label, NEW l, RunAs(c, label, l)
    PROVE  OthersKeep(c) /\ pc'[c] = label /\ loc'[c] = l
BY DEF TypeInv, TypeOK, Goto, RunAs, OthersKeep

LEMMA FinishKeeps ==
    ASSUME TypeInv, NEW c \in Clients, Finish(c)
    PROVE  OthersKeep(c) /\ pc'[c] = "idle" /\ loc'[c] = NoLocals
BY RunAsKeeps DEF Finish, RunAs

\* Changing one local keeps the others.
LEMMA LocalsKeep ==
    ASSUME NEW l \in Locals
    PROVE  /\ \A v : [l EXCEPT !.ver = v].op = l.op /\ [l EXCEPT !.ver = v].keys = l.keys
           /\ \A v : [l EXCEPT !.todo = v].op = l.op /\ [l EXCEPT !.todo = v].keys = l.keys
           /\ \A v : [l EXCEPT !.key = v].op = l.op /\ [l EXCEPT !.key = v].keys = l.keys
BY DEF Locals

LEMMA NoLocalsModest == NoLocals.op # "delete" /\ NoLocals.keys = {}
BY ConstantsAssumption DEF NoLocals, OpNames

\* Client c's new state keeps what Kept says of the clients, and it is not c
\* that covers a key, by a claim or by a fill that is still being indexed.
Modest(c) ==
    /\ OthersKeep(c)
    /\ loc'[c].op # "delete" /\ pc'[c] \notin {"del_meta", "del_count", "purge_key"}
    /\ loc[c].keys = {} /\ loc'[c].keys = {}
    /\ pc[c] = "index" => loc[c].todo = {}
    /\ pc'[c] \in FlagLabels => "set_persist" \in Ops

\* A step that leaves the index alone and brings no key to the disk keeps
\* every key covered, whoever covered it.
LEMMA FrameFlag ==
    ASSUME CoverInv, NEW c \in Clients, Modest(c), UNCHANGED <<index, scan, tenant>>,
           \A k \in Keys : Present(k)' => Present(k)
    PROVE  Kept'
<1>1. NoDeletes' /\ ClaimsHeld'
  BY DEF CoverInv, Kept, NoDeletes, ClaimsHeld, Modest, OthersKeep
<1>2. OpsHeld' BY DEF CoverInv, Kept, OpsHeld, Modest, OthersKeep
<1>3. Covered'
  <2> SUFFICES ASSUME NEW k \in Keys, Present(k)', NEW t \in DependsOn(k)
               PROVE  Indexed(k, t)' \/ \E d \in Clients : Deleting(d, k)'
    BY DEF Covered, DependsOn
  <2>1. Indexed(k, t) \/ \E d \in Clients : Deleting(d, k) BY DEF CoverInv, Kept, Covered
  <2>2. ASSUME NEW d \in Clients, Deleting(d, k) PROVE Deleting(d, k)'
    BY <2>2 DEF Deleting, Modest, OthersKeep
  <2>3. ASSUME Indexed(k, t) PROVE Indexed(k, t)'
    BY <2>3 DEF Indexed, Modest, OthersKeep
  <2> QED BY <2>1, <2>2, <2>3
<1> QED BY <1>1, <1>2, <1>3 DEF Kept

LEMMA Frame ==
    ASSUME CoverInv, NEW c \in Clients, Modest(c), UNCHANGED <<index, scan, tenant>>,
           pc'[c] # "sp_write", \A k \in Keys : disk'[k] # None => disk[k] # None
    PROVE  Kept'
<1>1. \A k \in Keys : Present(k)' => Present(k) BY DEF Present, Modest, OthersKeep
<1> QED BY <1>1, FrameFlag

\* No step of the read path uncovers a key.
LEMMA GetCovers ==
    ASSUME CoverInv, NEW c \in Clients, GetStep(c)
    PROVE  Kept'
<1> USE GotoKeeps, RunAsKeeps, FinishKeeps, LocalsKeep, NoLocalsModest DEF At, FlagLabels
<1>1. /\ TypeInv /\ loc[c] \in Locals /\ loc[c].op # "delete"
      /\ pc[c] \notin {"inv_qc", "inv_disk", "inv_hot"} => loc[c].keys = {}
      /\ pc[c] \in FlagLabels => "set_persist" \in Ops
  BY DEF CoverInv, Kept, NoDeletes, ClaimsHeld, OpsHeld, TypeInv, TypeOK
<1>2. CASE HotGet(c)
  <2>1. Modest(c) /\ pc'[c] # "sp_write" BY <1>1, <1>2 DEF HotGet, Modest
  <2> QED BY <2>1, <1>2, Frame DEF HotGet, tiers
<1>3. CASE QcGet(c)
  <2>1. Modest(c) /\ pc'[c] # "sp_write"
    <3>1. CASE qc[loc[c].key] # None
      <4>1. PICK v : RunAs(c, "ttl", [loc[c] EXCEPT !.ver = v]) BY <1>3, <3>1 DEF QcGet
      <4>2. loc'[c] = [loc[c] EXCEPT !.ver = v] BY <1>1, <4>1
      <4> QED BY <1>1, <1>3, <4>1, <4>2 DEF QcGet, Modest
    <3>2. CASE qc[loc[c].key] = None BY <1>1, <1>3, <3>2 DEF QcGet, Modest
    <3> QED BY <3>1, <3>2
  <2> QED BY <2>1, <1>3, Frame DEF QcGet, tiers
<1>4. CASE DiskGet(c)
  <2>1. Modest(c) /\ pc'[c] # "sp_write"
    <3>1. CASE disk[loc[c].key] # None
      <4>1. PICK v : RunAs(c, "promote", [loc[c] EXCEPT !.ver = v]) BY <1>4, <3>1 DEF DiskGet
      <4>2. loc'[c] = [loc[c] EXCEPT !.ver = v] BY <1>1, <4>1
      <4> QED BY <1>1, <1>4, <4>1, <4>2 DEF DiskGet, Modest
    <3>2. CASE disk[loc[c].key] = None BY <1>1, <1>4, <3>2 DEF DiskGet, Modest
    <3> QED BY <3>1, <3>2
  <2> QED BY <2>1, <1>4, Frame DEF DiskGet, tiers
<1>5. CASE Promote(c)
  <2>1. Modest(c) /\ pc'[c] # "sp_write" BY <1>1, <1>5 DEF Promote, Modest
  <2> QED BY <2>1, <1>5, Frame DEF Promote, tiers
<1>6. CASE ReadTtl(c)
  <2>1. Modest(c) /\ pc'[c] # "sp_write" BY <1>1, <1>6 DEF ReadTtl, Modest
  <2> QED BY <2>1, <1>6, Frame DEF ReadTtl, tiers
<1>7. CASE Observe(c)
  <2>1. Modest(c) /\ pc'[c] # "sp_write" BY <1>1, <1>7 DEF Observe, Modest
  <2> QED BY <2>1, <1>7, Frame DEF Observe, tiers
<1> QED BY <1>2, <1>3, <1>4, <1>5, <1>6, <1>7 DEF GetStep

\* Neither does a step of a fill.
LEMMA FillCovers ==
    ASSUME CoverInv, NEW c \in Clients, PutStep(c)
    PROVE  Kept'
<1> USE GotoKeeps, RunAsKeeps, FinishKeeps, LocalsKeep, NoLocalsModest DEF At, FlagLabels
<1>1. /\ TypeInv /\ loc[c] \in Locals /\ loc[c].op # "delete"
      /\ pc[c] \notin {"inv_qc", "inv_disk", "inv_hot"} => loc[c].keys = {}
      /\ pc[c] \in FlagLabels => "set_persist" \in Ops
  BY DEF CoverInv, Kept, NoDeletes, ClaimsHeld, OpsHeld, TypeInv, TypeOK
<1>2. CASE Fetch(c)
  <2>1. Modest(c) /\ pc'[c] # "sp_write"
    <3>1. CASE RunAs(c, "meta", [loc[c] EXCEPT !.ver = version])
      <4>1. loc'[c] = [loc[c] EXCEPT !.ver = version] BY <1>1, <3>1
      <4> QED BY <1>1, <1>2, <3>1, <4>1 DEF Fetch, Modest
    <3>2. CASE Finish(c) BY <1>1, <1>2, <3>2 DEF Fetch, Modest
    <3> QED BY <1>2, <3>1, <3>2 DEF Fetch
  <2> QED BY <2>1, <1>2, Frame DEF Fetch, tiers
<1>3. CASE PutMeta(c)
  <2>1. Modest(c) /\ pc'[c] # "sp_write" BY <1>1, <1>3 DEF PutMeta, Modest
  <2> QED BY <2>1, <1>3, Frame DEF PutMeta, tiers
<1>4. CASE PutCount(c)
  <2>1. Modest(c) /\ pc'[c] # "sp_write" BY <1>1, <1>4 DEF PutCount, Modest
  <2> QED BY <2>1, <1>4, Frame DEF PutCount, tiers
<1>5. CASE PutCap(c)
  <2>1. Modest(c) /\ pc'[c] # "sp_write" BY <1>1, <1>5 DEF PutCap, Modest
  <2> QED BY <2>1, <1>5, Frame DEF PutCap, tiers
<1>6. CASE PutRefund(c)
  <2>1. Modest(c) /\ pc'[c] # "sp_write" BY <1>1, <1>6 DEF PutRefund, Modest
  <2> QED BY <2>1, <1>6, Frame DEF PutRefund, tiers
<1>7. CASE PutUncount(c)
  <2>1. Modest(c) /\ pc'[c] # "sp_write" BY <1>1, <1>7 DEF PutUncount, Modest
  <2> QED BY <2>1, <1>7, Frame DEF PutUncount, tiers
<1>8. CASE PutQc(c)
  <2>1. Modest(c) /\ pc'[c] # "sp_write" BY <1>1, <1>8 DEF PutQc, Modest
  <2> QED BY <2>1, <1>8, Frame DEF PutQc, tiers
<1>9. CASE PutIndexed(c)
  <2>1. Modest(c) /\ pc'[c] # "sp_write" BY <1>1, <1>9 DEF PutIndexed, Modest
  <2> QED BY <2>1, <1>9, Frame DEF PutIndexed, tiers
<1>10. CASE PutHot(c)
  <2>1. Modest(c) /\ pc'[c] # "sp_write" BY <1>1, <1>10 DEF PutHot, Modest
  <2> QED BY <2>1, <1>10, Frame DEF PutHot, tiers
<1>11. CASE PutDisk(c)
  <2>1. /\ OthersKeep(c) /\ pc'[c] = "index"
        /\ loc'[c].op = loc[c].op /\ loc'[c].keys = {} /\ loc'[c].key = loc[c].key
        /\ loc'[c].todo = DependsOn(loc[c].key)
    BY <1>1, <1>11 DEF PutDisk, Locals
  <2>2. NoDeletes' /\ ClaimsHeld' /\ OpsHeld'
    BY <1>1, <1>11, <2>1 DEF PutDisk, CoverInv, Kept, NoDeletes, ClaimsHeld, OpsHeld, OthersKeep
  <2>3. Covered'
    <3> SUFFICES ASSUME NEW k \in Keys, Present(k)', NEW t \in DependsOn(k)
                 PROVE  Indexed(k, t)' \/ \E d \in Clients : Deleting(d, k)'
      BY DEF Covered, DependsOn
    <3>1. CASE k = loc[c].key
      <4>1. /\ pc'[c] = "index" /\ loc'[c].key = k /\ t \in loc'[c].todo
        BY <2>1, <3>1
      <4> QED BY <4>1 DEF Indexed
    <3>2. CASE k # loc[c].key
      <4>1. Present(k)
        BY <1>11, <2>1, <3>2 DEF PutDisk, Present, OthersKeep, CoverInv, TypeInv, TypeOK
      <4>2. Indexed(k, t) \/ \E d \in Clients : Deleting(d, k)
        BY <4>1 DEF CoverInv, Kept, Covered
      <4>3. ASSUME NEW d \in Clients, Deleting(d, k) PROVE Deleting(d, k)'
        BY <1>1, <1>11, <2>1, <4>3 DEF PutDisk, Deleting, OthersKeep
      <4>4. ASSUME Indexed(k, t) PROVE Indexed(k, t)'
        BY <1>11, <2>1, <4>4 DEF PutDisk, Indexed, OthersKeep
      <4> QED BY <4>2, <4>3, <4>4
    <3> QED BY <3>1, <3>2
  <2> QED BY <2>2, <2>3 DEF Kept
<1>12. CASE PutIndex(c)
  <2>1. PICK t0 \in loc[c].todo : /\ index' = index \cup {<<t0, loc[c].key>>}
                                 /\ loc' = [loc EXCEPT ![c].todo = @ \ {t0}]
    BY <1>12 DEF PutIndex
  <2>2. /\ UNCHANGED <<disk, scan, tenant, pc>> /\ pc[c] = "index"
        /\ \A d \in Clients \ {c} : loc'[d] = loc[d]
        /\ loc'[c].op = loc[c].op /\ loc'[c].keys = loc[c].keys /\ loc'[c].key = loc[c].key
        /\ loc'[c].todo = loc[c].todo \ {t0}
    BY <1>1, <1>12, <2>1 DEF PutIndex, tiers, TypeInv, TypeOK, Locals
  <2>3. NoDeletes' /\ ClaimsHeld' /\ OpsHeld'
    BY <2>2 DEF CoverInv, Kept, NoDeletes, ClaimsHeld, OpsHeld
  <2>4. Covered'
    <3> SUFFICES ASSUME NEW k \in Keys, Present(k)', NEW t \in DependsOn(k)
                 PROVE  Indexed(k, t)' \/ \E d \in Clients : Deleting(d, k)'
      BY DEF Covered, DependsOn
    <3>0. Present(k) BY <2>2 DEF Present
    <3>1. Indexed(k, t) \/ \E d \in Clients : Deleting(d, k)
      BY <3>0 DEF CoverInv, Kept, Covered
    <3>2. ASSUME NEW d \in Clients, Deleting(d, k) PROVE Deleting(d, k)'
      BY <2>2, <3>2 DEF Deleting
    <3>3. ASSUME Indexed(k, t) PROVE Indexed(k, t)'
      <4>1. CASE t = t0 /\ k = loc[c].key BY <2>1, <4>1 DEF Indexed
      <4>2. CASE ~(t = t0 /\ k = loc[c].key) BY <2>1, <2>2, <3>3, <4>2 DEF Indexed
      <4> QED BY <4>1, <4>2
    <3> QED BY <3>1, <3>2, <3>3
  <2> QED BY <2>3, <2>4 DEF Kept
<1>13. CASE PutDrop(c)
  <2>1. Modest(c) /\ pc'[c] # "sp_write" BY <1>1, <1>13 DEF PutDrop, Modest
  <2>2. \A k \in Keys : disk'[k] # None => disk[k] # None
    BY <1>1, <1>13 DEF PutDrop, TypeInv, TypeOK
  <2> QED BY <2>1, <2>2, <1>13, Frame DEF PutDrop
<1> QED BY <1>2, <1>3, <1>4, <1>5, <1>6, <1>7, <1>8, <1>9, <1>10, <1>11, <1>12, <1>13 DEF PutStep

\* Neither does a step of set_persist, which keeps every key on disk.
LEMMA SetPersistCovers ==
    ASSUME CoverInv, NEW c \in Clients, SetPersistStep(c)
    PROVE  Kept'
<1> USE GotoKeeps, RunAsKeeps, FinishKeeps, LocalsKeep, NoLocalsModest DEF At, FlagLabels
<1>1. /\ TypeInv /\ loc[c] \in Locals /\ loc[c].op # "delete"
      /\ pc[c] \notin {"inv_qc", "inv_disk", "inv_hot"} => loc[c].keys = {}
      /\ pc[c] \in FlagLabels => "set_persist" \in Ops
  BY DEF CoverInv, Kept, NoDeletes, ClaimsHeld, OpsHeld, TypeInv, TypeOK
<1>2. CASE SetPersistMeta(c)
  <2>1. Modest(c) /\ pc'[c] # "sp_write" BY <1>1, <1>2 DEF SetPersistMeta, Modest
  <2> QED BY <2>1, <1>2, Frame DEF SetPersistMeta, tiers
<1>3. CASE SetPersistCount(c)
  <2>1. Modest(c) /\ pc'[c] # "sp_write" BY <1>1, <1>3 DEF SetPersistCount, Modest
  <2> QED BY <2>1, <1>3, Frame DEF SetPersistCount, tiers
<1>4. CASE SetPersistCap(c)
  <2>1. Modest(c) /\ pc'[c] # "sp_write" BY <1>1, <1>4 DEF SetPersistCap, Modest
  <2> QED BY <2>1, <1>4, Frame DEF SetPersistCap, tiers
<1>5. CASE SetPersistDrop(c)
  <2>1. Modest(c)
    <3>1. CASE Finish(c) BY <1>1, <1>5, <3>1 DEF SetPersistDrop, Modest
    <3>2. CASE RunAs(c, "sp_write", [loc[c] EXCEPT !.ver = disk[loc[c].key].ver])
      <4>1. loc'[c] = [loc[c] EXCEPT !.ver = disk[loc[c].key].ver] BY <1>1, <3>2
      <4> QED BY <1>1, <1>5, <3>2, <4>1 DEF SetPersistDrop, Modest
    <3> QED BY <1>5, <3>1, <3>2 DEF SetPersistDrop
  <2>2. ASSUME NEW k \in Keys, Present(k)' PROVE Present(k)
    <3>1. disk'[k] # None => disk[k] # None
      BY <1>1, <1>5 DEF SetPersistDrop, TypeInv, TypeOK
    <3>2. CASE pc'[c] = "sp_write" /\ loc'[c].key = k
      <4>1. /\ loc'[c] = [loc[c] EXCEPT !.ver = disk[loc[c].key].ver]
            /\ disk[loc[c].key] # None
        BY <1>1, <1>5, <3>2 DEF SetPersistDrop
      <4>2. loc[c].key = k BY <1>1, <3>2, <4>1 DEF Locals
      <4> QED BY <4>1, <4>2 DEF Present
    <3>3. CASE ~(pc'[c] = "sp_write" /\ loc'[c].key = k)
      BY <2>1, <2>2, <3>1, <3>3 DEF Present, Modest, OthersKeep
    <3> QED BY <3>2, <3>3
  <2> QED BY <2>1, <2>2, <1>5, FrameFlag DEF SetPersistDrop
<1>7. CASE SetPersistDisk(c)
  <2>1. Modest(c) /\ pc'[c] # "sp_write" BY <1>1, <1>7 DEF SetPersistDisk, Modest
  <2>2. ASSUME NEW k \in Keys, Present(k)' PROVE Present(k)
    <3>1. CASE k = loc[c].key BY <1>7, <3>1 DEF SetPersistDisk, Present
    <3>2. CASE k # loc[c].key
      <4>1. disk'[k] = disk[k] BY <1>1, <1>7, <3>2 DEF SetPersistDisk, TypeInv, TypeOK
      <4> QED BY <2>1, <2>2, <4>1 DEF Present, Modest, OthersKeep
    <3> QED BY <3>1, <3>2
  <2> QED BY <2>1, <2>2, <1>7, FrameFlag DEF SetPersistDisk
<1>6. CASE SetPersistUncount(c)
  <2>1. Modest(c) /\ pc'[c] # "sp_write" BY <1>1, <1>6 DEF SetPersistUncount, Modest
  <2> QED BY <2>1, <1>6, Frame DEF SetPersistUncount, tiers
<1> QED BY <1>2, <1>3, <1>4, <1>5, <1>6, <1>7 DEF SetPersistStep

\* Neither does a step of an invalidation: the pairs a purge drops belong to
\* keys it claims, and it keeps its claim on a key until the key is off the disk.
LEMMA InvalidateCovers ==
    ASSUME CoverInv, NEW c \in Clients, InvalidateStep(c)
    PROVE  Kept'
<1> USE GotoKeeps, RunAsKeeps, FinishKeeps, LocalsKeep, NoLocalsModest DEF At, FlagLabels
<1>1. /\ TypeInv /\ loc[c] \in Locals /\ loc[c].op # "delete"
      /\ pc[c] \notin {"inv_qc", "inv_disk", "inv_hot"} => loc[c].keys = {}
  BY DEF CoverInv, Kept, NoDeletes, ClaimsHeld, TypeInv, TypeOK
<1>2. CASE SkipPurge(c)
  <2>1. Modest(c) /\ pc'[c] # "sp_write" BY <1>1, <1>2 DEF SkipPurge, Modest
  <2> QED BY <2>1, <1>2, Frame DEF SkipPurge, tiers
<1>3. CASE Purge(c)
  <2> DEFINE found == PurgedKeys(c)
  <2>1. /\ OthersKeep(c) /\ loc'[c].op # "delete" /\ loc'[c].keys = found
        /\ pc[c] \in {"purge", "purge_table"} /\ pc'[c] \in {"idle", "inv_qc"}
        /\ found # {} => pc'[c] = "inv_qc"
        /\ UNCHANGED <<disk, scan, tenant>>
    <3>1. CASE found = {} /\ Finish(c) BY <1>1, <1>3, <3>1 DEF Purge, tiers
    <3>2. CASE \E k \in found : RunAs(c, "inv_qc", [loc[c] EXCEPT !.key = k, !.keys = found])
      <4>1. PICK k \in found : RunAs(c, "inv_qc", [loc[c] EXCEPT !.key = k, !.keys = found])
        BY <3>2
      <4>2. loc'[c] = [loc[c] EXCEPT !.key = k, !.keys = found] BY <1>1, <4>1
      <4>3. loc'[c].op = loc[c].op /\ loc'[c].keys = found BY <1>1, <4>2 DEF Locals
      <4> QED BY <1>1, <1>3, <4>1, <4>3 DEF Purge, tiers
    <3> QED BY <1>3, <3>1, <3>2 DEF Purge
  <2>2. NoDeletes' /\ ClaimsHeld' /\ OpsHeld'
    BY <2>1 DEF CoverInv, Kept, NoDeletes, ClaimsHeld, OpsHeld, OthersKeep
  <2>3. ASSUME NEW t, NEW k \in Keys, <<t, k>> \in index, <<t, k>> \notin index'
        PROVE  k \in found
    BY <1>3, <2>3 DEF Purge, PurgedPairs, PurgedKeys, RowKeys
  <2>4. Covered'
    <3> SUFFICES ASSUME NEW k \in Keys, Present(k)', NEW t \in DependsOn(k)
                 PROVE  Indexed(k, t)' \/ \E d \in Clients : Deleting(d, k)'
      BY DEF Covered, DependsOn
    <3>0. Present(k) BY <2>1 DEF Present, OthersKeep
    <3>1. Indexed(k, t) \/ \E d \in Clients : Deleting(d, k)
      BY <3>0 DEF CoverInv, Kept, Covered
    <3>2. CASE k \in found BY <2>1, <3>2 DEF Deleting
    <3>3. CASE k \notin found
      <4>1. ASSUME NEW d \in Clients, Deleting(d, k) PROVE Deleting(d, k)'
        BY <1>1, <2>1, <4>1 DEF Deleting, OthersKeep
      <4>2. ASSUME Indexed(k, t) PROVE Indexed(k, t)'
        BY <1>3, <2>1, <2>3, <3>3, <4>2 DEF Purge, Indexed, OthersKeep
      <4> QED BY <3>1, <4>1, <4>2
    <3> QED BY <3>2, <3>3
  <2> QED BY <2>2, <2>4 DEF Kept
<1>4. CASE InvalidateQc(c)
  <2>1. /\ OthersKeep(c) /\ pc[c] = "inv_qc" /\ pc'[c] = "inv_disk" /\ loc'[c] = loc[c]
        /\ UNCHANGED <<disk, index, scan, tenant>>
    BY <1>1, <1>4 DEF InvalidateQc
  <2>2. NoDeletes' /\ ClaimsHeld' /\ OpsHeld' BY <2>1 DEF CoverInv, Kept, NoDeletes, ClaimsHeld, OpsHeld, OthersKeep
  <2>3. \A k \in Keys : Present(k)' => Present(k) BY <2>1 DEF Present, OthersKeep
  <2>4. Covered' BY <2>1, <2>3 DEF CoverInv, Kept, Covered, Indexed, Deleting, OthersKeep, DependsOn
  <2> QED BY <2>2, <2>4 DEF Kept
<1>5. CASE InvalidateDisk(c)
  <2>1. /\ OthersKeep(c) /\ pc[c] = "inv_disk" /\ pc'[c] = "inv_hot"
        /\ loc'[c].op = loc[c].op /\ loc'[c].keys = loc[c].keys \ {loc[c].key}
        /\ UNCHANGED <<index, scan, tenant>>
    BY <1>1, <1>5 DEF InvalidateDisk, Locals
  <2>2. NoDeletes' /\ ClaimsHeld' /\ OpsHeld' BY <2>1 DEF CoverInv, Kept, NoDeletes, ClaimsHeld, OpsHeld, OthersKeep
  <2>3. \A k \in Keys : Present(k)' => Present(k) /\ k # loc[c].key
    BY <1>1, <1>5, <2>1 DEF InvalidateDisk, DiskBusy, Present, OthersKeep, TypeInv, TypeOK
  <2>4. Covered'
    <3> SUFFICES ASSUME NEW k \in Keys, Present(k)', NEW t \in DependsOn(k)
                 PROVE  Indexed(k, t)' \/ \E d \in Clients : Deleting(d, k)'
      BY DEF Covered, DependsOn
    <3>1. Indexed(k, t) \/ \E d \in Clients : Deleting(d, k)
      BY <2>3 DEF CoverInv, Kept, Covered
    <3>2. ASSUME NEW d \in Clients, Deleting(d, k) PROVE Deleting(d, k)'
      BY <2>1, <2>3, <3>2 DEF Deleting, OthersKeep
    <3>3. ASSUME Indexed(k, t) PROVE Indexed(k, t)'
      BY <2>1, <3>3 DEF Indexed, OthersKeep
    <3> QED BY <3>1, <3>2, <3>3
  <2> QED BY <2>2, <2>4 DEF Kept
<1>6. CASE InvalidateHot(c)
  <2>1. /\ OthersKeep(c) /\ pc[c] = "inv_hot" /\ pc'[c] \in {"idle", "inv_qc"}
        /\ loc'[c].op # "delete" /\ loc'[c].keys = loc[c].keys
        /\ loc[c].keys # {} => pc'[c] = "inv_qc"
        /\ UNCHANGED <<disk, index, scan, tenant>>
    <3>1. CASE loc[c].keys = {} /\ Finish(c) BY <1>1, <1>6, <3>1 DEF InvalidateHot
    <3>2. CASE \E k \in loc[c].keys : RunAs(c, "inv_qc", [loc[c] EXCEPT !.key = k])
      <4>1. PICK k \in loc[c].keys : RunAs(c, "inv_qc", [loc[c] EXCEPT !.key = k])
        BY <3>2
      <4>2. loc'[c] = [loc[c] EXCEPT !.key = k] BY <1>1, <4>1
      <4> QED BY <1>1, <1>6, <4>1, <4>2 DEF InvalidateHot
    <3> QED BY <1>1, <1>6, <3>1, <3>2 DEF InvalidateHot
  <2>2. NoDeletes' /\ ClaimsHeld' /\ OpsHeld' BY <2>1 DEF CoverInv, Kept, NoDeletes, ClaimsHeld, OpsHeld, OthersKeep
  <2>3. \A k \in Keys : Present(k)' => Present(k) BY <2>1 DEF Present, OthersKeep
  <2>4. Covered' BY <2>1, <2>3 DEF CoverInv, Kept, Covered, Indexed, Deleting, OthersKeep, DependsOn
  <2> QED BY <2>2, <2>4 DEF Kept
<1> QED BY <1>2, <1>3, <1>4, <1>5, <1>6 DEF InvalidateStep

\* Starting an operation other than a delete uncovers nothing.
LEMMA CallCovers ==
    ASSUME CoverInv, NoDeleteNoFlagRace, NEW c \in Clients, Call(c)
    PROVE  Kept'
<1> USE RunAsKeeps DEF Begin, FlagLabels
<1>1. TypeInv /\ (pc[c] \notin {"inv_qc", "inv_disk", "inv_hot"} => loc[c].keys = {})
  BY DEF CoverInv, Kept, ClaimsHeld
<1>2. CASE Invalidate(c)
  <2>1. PICK ch \in changes, label \in {"purge", "purge_table"} :
           RunAs(c, label, [NoLocals EXCEPT !.op = "invalidate", !.topic = ch.topic,
                                            !.ver = ch.ver])
    BY <1>2 DEF Invalidate
  <2>2. loc'[c] = [NoLocals EXCEPT !.op = "invalidate", !.topic = ch.topic, !.ver = ch.ver]
    BY <1>1, <2>1
  <2>3. loc'[c].op # "delete" /\ loc'[c].keys = {} BY <2>2 DEF NoLocals
  <2>4. Modest(c) /\ pc'[c] # "sp_write" BY <1>1, <1>2, <2>1, <2>3 DEF Invalidate, Modest
  <2> QED BY <2>4, <1>2, Frame DEF Invalidate, tiers
<1>3. ASSUME NEW k \in Keys, Get(c, k) PROVE Kept'
  <2>1. loc'[c] = [NoLocals EXCEPT !.op = "get", !.key = k] BY <1>1, <1>3 DEF Get
  <2>2. loc'[c].op # "delete" /\ loc'[c].keys = {} BY <2>1 DEF NoLocals
  <2>3. Modest(c) /\ pc'[c] # "sp_write" BY <1>1, <1>3, <2>2 DEF Get, Modest
  <2> QED BY <2>3, <1>3, Frame DEF Get, tiers
<1>4. ASSUME NEW k \in Keys, Put(c, k) PROVE Kept'
  <2>1. PICK b : RunAs(c, "fetch", [NoLocals EXCEPT !.op = "put", !.key = k, !.persist = b])
    BY <1>4 DEF Put
  <2>2. loc'[c] = [NoLocals EXCEPT !.op = "put", !.key = k, !.persist = b] BY <1>1, <2>1
  <2>3. loc'[c].op # "delete" /\ loc'[c].keys = {} BY <2>2 DEF NoLocals
  <2>4. Modest(c) /\ pc'[c] # "sp_write" BY <1>1, <1>4, <2>1, <2>3 DEF Put, Modest
  <2> QED BY <2>4, <1>4, Frame DEF Put, tiers
<1>5. ASSUME NEW k \in Keys, SetPersist(c, k) PROVE Kept'
  <2>1. PICK b :
           RunAs(c, "sp_meta", [NoLocals EXCEPT !.op = "set_persist", !.key = k, !.persist = b])
    BY <1>5 DEF SetPersist
  <2>2. loc'[c] = [NoLocals EXCEPT !.op = "set_persist", !.key = k, !.persist = b]
    BY <1>1, <2>1
  <2>3. loc'[c].op # "delete" /\ loc'[c].keys = {} BY <2>2 DEF NoLocals
  <2>4. Modest(c) /\ pc'[c] # "sp_write" BY <1>1, <1>5, <2>1, <2>3 DEF SetPersist, Modest
  <2> QED BY <2>4, <1>5, Frame DEF SetPersist, tiers
<1> QED BY <1>2, <1>3, <1>4, <1>5 DEF Call, Delete, NoDeleteNoFlagRace

\* Nor does the tenant's background work: a crash empties the index but marks
\* the tenant down, a start puts every key on disk on the list of keys to scan,
\* and the scan of a key records all it depends on.
LEMMA BackgroundCovers ==
    ASSUME CoverInv, NoDeleteNoFlagRace, Background
    PROVE  Kept'
<1>1. ASSUME NEW x \in Keys, QcDrop(x) \/ DiskDrop(x) \/ HotDrop(x)
      PROVE  Kept'
  <2>1. /\ UNCHANGED <<pc, loc, index, scan, tenant>>
        /\ \A k \in Keys : disk'[k] # None => disk[k] # None
    BY <1>1 DEF QcDrop, DiskDrop, HotDrop, CoverInv, TypeInv, TypeOK
  <2>2. NoDeletes' /\ ClaimsHeld' /\ OpsHeld'
    BY <2>1 DEF CoverInv, Kept, NoDeletes, ClaimsHeld, OpsHeld
  <2>3. \A k \in Keys : Present(k)' => Present(k) BY <2>1 DEF Present
  <2>4. Covered' BY <2>1, <2>3 DEF CoverInv, Kept, Covered, Indexed, Deleting, DependsOn
  <2> QED BY <2>2, <2>4 DEF Kept
<1>2. ASSUME NEW x \in Keys, Rebuild(x) PROVE Kept'
  <2>1. NoDeletes' /\ ClaimsHeld' /\ OpsHeld'
    BY <1>2 DEF Rebuild, CoverInv, Kept, NoDeletes, ClaimsHeld, OpsHeld
  <2>2. Covered'
    <3> SUFFICES ASSUME NEW k \in Keys, Present(k)', NEW t \in DependsOn(k)
                 PROVE  Indexed(k, t)' \/ \E d \in Clients : Deleting(d, k)'
      BY DEF Covered, DependsOn
    <3>0. Present(k) BY <1>2 DEF Rebuild, tiers, Present
    <3>1. Indexed(k, t) \/ \E d \in Clients : Deleting(d, k)
      BY <3>0 DEF CoverInv, Kept, Covered
    <3>2. CASE k = x
      <4>1. "stop" \in Ops BY <1>2 DEF Rebuild, CoverInv, Kept, OpsHeld
      <4>2. \A c \in Clients : pc[c] # "sp_write"
        BY <4>1 DEF NoDeleteNoFlagRace, CoverInv, Kept, OpsHeld, FlagLabels
      <4>3. disk[k] # None BY <3>0, <4>2 DEF Present
      <4> QED BY <1>2, <3>2, <4>3 DEF Rebuild, Indexed
    <3>3. CASE k # x BY <1>2, <3>1, <3>3 DEF Rebuild, Indexed, Deleting
    <3> QED BY <3>2, <3>3
  <2> QED BY <2>1, <2>2 DEF Kept
<1>3. CASE TenantDown
  <2>1. PICK dead \in SUBSET {c \in Clients : pc[c] # "idle"} :
          /\ pc' = [c \in Clients |-> IF c \in dead THEN "idle" ELSE AfterRestart(pc[c])]
          /\ loc' = [c \in Clients |-> IF c \in dead THEN NoLocals ELSE loc[c]]
    BY <1>3 DEF TenantDown
  <2>2. ASSUME NEW c \in Clients
        PROVE  /\ loc'[c].op # "delete" /\ pc'[c] \notin {"del_meta", "del_count", "purge_key"}
               /\ loc'[c].keys # {} => pc'[c] \in {"inv_qc", "inv_disk", "inv_hot"}
               /\ pc'[c] \in FlagLabels => "set_persist" \in Ops
    <3>1. CASE c \in dead BY <2>1, <3>1, NoLocalsModest DEF FlagLabels
    <3>2. CASE c \notin dead
      BY <2>1, <3>2 DEF CoverInv, Kept, NoDeletes, ClaimsHeld, OpsHeld, AfterRestart, FlagLabels
    <3> QED BY <3>1, <3>2
  <2>3. NoDeletes' /\ ClaimsHeld' /\ OpsHeld'
    BY <1>3, <2>2 DEF TenantDown, NoDeletes, ClaimsHeld, OpsHeld
  <2>4. Covered' BY <1>3 DEF TenantDown, Covered, Indexed
  <2> QED BY <2>3, <2>4 DEF Kept
<1>4. CASE TenantUp
  <2>1. "stop" \in Ops BY <1>4 DEF TenantUp, CoverInv, Kept, OpsHeld
  <2>2. NoDeletes' /\ ClaimsHeld' /\ OpsHeld'
    BY <1>4, <2>1 DEF TenantUp, CoverInv, Kept, NoDeletes, ClaimsHeld, OpsHeld
  <2>3. \A c \in Clients : pc'[c] # "sp_write"
    BY <1>4, <2>1 DEF TenantUp, NoDeleteNoFlagRace, CoverInv, Kept, OpsHeld, FlagLabels
  <2>4. Covered' BY <1>4, <2>3 DEF TenantUp, tiers, Covered, Present, Indexed
  <2> QED BY <2>2, <2>4 DEF Kept
<1> QED BY <1>1, <1>2, <1>3, <1>4 DEF Background

\* So CoverInv holds throughout.
LEMMA CoverInvariant == ASSUME NoDeleteNoFlagRace PROVE Spec => []CoverInv
<1>1. Init /\ TypeInv => CoverInv
  BY NoLocalsModest
  DEF Init, CoverInv, Kept, NoDeletes, ClaimsHeld, OpsHeld, FlagLabels, Covered, Present
<1>2. CoverInv /\ TypeInv' /\ [Next]_vars => CoverInv'
  <2> SUFFICES ASSUME CoverInv, TypeInv', [Next]_vars PROVE Kept'
    BY DEF CoverInv
  <2>1. ASSUME NEW c \in Clients, Call(c) PROVE Kept'
    BY <2>1, CallCovers
  <2>2. ASSUME NEW c \in Clients, Step(c) PROVE Kept'
    <3>1. ~DeleteStep(c)
      BY DEF CoverInv, Kept, NoDeletes, DeleteStep, DeleteMeta, DeleteCount, PurgeKey, At
    <3> QED BY <2>2, <3>1, GetCovers, FillCovers, SetPersistCovers, InvalidateCovers DEF Step
  <2>3. ASSUME NEW t \in Topics, Commit(t) PROVE Kept'
    <3>1. UNCHANGED <<disk, index, scan, tenant, pc, loc>> BY <2>3 DEF Commit, tiers
    <3> QED BY <3>1 DEF CoverInv, Kept, NoDeletes, ClaimsHeld, OpsHeld, Covered, Present, Indexed,
                        Deleting, DependsOn
  <2>4. CASE Background BY <2>4, BackgroundCovers
  <2>5. CASE UNCHANGED vars
    <3>1. UNCHANGED <<disk, index, scan, tenant, pc, loc>> BY <2>5 DEF vars, tiers
    <3> QED BY <3>1 DEF CoverInv, Kept, NoDeletes, ClaimsHeld, OpsHeld, Covered, Present, Indexed,
                        Deleting, DependsOn
  <2> QED BY <2>1, <2>2, <2>3, <2>4, <2>5 DEF Next
<1> QED BY <1>1, <1>2, TypeInvariant, PTL DEF Spec

\* Reads, fills, WAL invalidations, evictions and failed writes, together with
\* either crashes of the tenant's processes or changes of persist flags, in any
\* number and interleaving, never leave an entry on disk that the reverse index
\* cannot find by one of the rows it depends on, unless its fill is still
\* recording them or an invalidation that claimed the key has not removed it
\* yet.  (With both at once it fails: README, divergences.)
THEOREM DiskAlwaysCovered == ASSUME NoDeleteNoFlagRace PROVE Spec => []DiskCovered
<1>1. CoverInv => DiskCovered BY DEF CoverInv, Kept, Covered, Present, DiskCovered
<1> QED BY <1>1, CoverInvariant, PTL
=============================================================================
