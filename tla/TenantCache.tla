---------------------------- MODULE TenantCache ----------------------------
(***************************************************************************)
(* One tenant's cache on its owning node: the ETS query cache, the FeoxDB  *)
(* disk cache, the node's hot layer, the reverse index from rows to cache  *)
(* keys, and the counter behind the persist cap (Restdis.Cache and the     *)
(* processes it calls).  Every public operation of Restdis.Cache runs in   *)
(* its caller's process and touches the tiers one call at a time, so an    *)
(* operation is a sequence of actions of one client and the operations of  *)
(* different clients interleave between any two calls.                     *)
(*                                                                         *)
(* A cached value is the version of the database it was read at.  A write  *)
(* committed to the database becomes a WAL change that some client (a      *)
(* worker of restdis_buster) later handles with an "invalidate" operation. *)
(*                                                                         *)
(* A definition named Faulty<X> is <X> with a plausible bug in it: the     *)
(* README says which property each of them breaks.  Nothing here uses it.  *)
(***************************************************************************)
EXTENDS Integers, FiniteSets

CONSTANTS
    Keys,       \* cache keys of one table of the tenant
    Rows,       \* rows of that table
    Inserted,   \* the topic of the changes that insert a row
    RowsOf,     \* RowsOf[k]: the rows whose primary keys the response of k holds
    ListKeys,   \* the keys whose response is a JSON array
    TtlKeys,    \* the keys cached with a TTL
    Clients,    \* the processes that call Restdis.Cache
    KeysOf,     \* KeysOf[c]: the keys client c works on
    Ops,        \* the operations and events of this instance
    Persist,    \* the values of the :persist option clients pass
    PutCaps,    \* the caps callers of put pass: the tenant's, or the default of who passes none
    InstanceCap,\* the persist_cap of the instance, for all its tenants
    MaxVersion, \* bound: how many writes the database commits
    CountSlack, \* bound: no operation starts with the persist count at or below its negation
    None        \* "no entry"

Topics == Rows \cup {Inserted}
OpNames == {"get", "put", "delete", "set_persist", "invalidate", "flush", "evict",
            "stop", "disk_error"}

ASSUME ConstantsAssumption ==
    /\ Inserted \notin Rows
    /\ IsFiniteSet(Keys) /\ ListKeys \subseteq Keys /\ TtlKeys \subseteq Keys
    /\ RowsOf \in [Keys -> SUBSET Rows]
    /\ KeysOf \in [Clients -> SUBSET Keys]
    /\ Ops \subseteq OpNames
    /\ Persist \subseteq BOOLEAN
    /\ PutCaps \subseteq Nat /\ PutCaps # {} /\ InstanceCap \in Nat
    /\ MaxVersion \in Nat /\ CountSlack \in Nat
    /\ None \notin Nat /\ None \notin OpNames
    /\ None \notin [ver : Nat, persist : BOOLEAN]

\* ReverseIndexMeta.derive: a response is indexed under the rows it holds and,
\* when it is an array, under the table's list keys.
DependsOn(k) == RowsOf[k] \cup (IF k \in ListKeys THEN {Inserted} ELSE {})

VARIABLES
    version,  \* the database: how many writes have committed
    changes,  \* committed WAL changes no worker has taken yet
    seen,     \* seen[t]: the newest change of topic t whose invalidation finished
    qc,       \* the query cache (ETS)
    disk,     \* the disk cache (FeoxDB)
    hot,      \* this node's hot layer
    index,    \* the reverse index: pairs <<topic, key>>
    scan,     \* keys the reverse index's rebuild has still to read
    tenant,   \* whether the tenant's processes are running
    count,    \* the atomic counter behind persist_count/2
    pc,       \* pc[c]: the call client c makes next
    loc,      \* loc[c]: what client c holds in its own variables
    excused   \* ghost: keys on which a read or fill overlapped an invalidation

tiers == <<qc, disk, hot>>
database == <<version, changes>>
vars == <<version, changes, seen, qc, disk, hot, index, scan, tenant, count, pc, loc, excused>>

Versions == 0 .. MaxVersion
Entry == [ver : Versions, persist : BOOLEAN]
Labels == {"idle", "hot_get", "qc_get", "disk_get", "promote", "fetch", "ttl", "observe",
           "observe_dead", "meta", "count", "cap", "refund", "uncount", "qc_put", "disk_put", "disk_write",
           "index", "hot_delete", "del_meta", "del_count", "inv_qc", "inv_disk", "inv_hot",
           "purge", "purge_table", "purge_key", "sp_meta", "sp_count", "sp_cap", "sp_set", "sp_clear",
           "sp_write", "sp_uncount"}
Locals == [op : OpNames \cup {None}, key : Keys \cup {None}, ver : Versions, persist : BOOLEAN,
           todo : SUBSET Topics, keys : SUBSET Keys, topic : Topics \cup {None}]

NoLocals == [op |-> None, key |-> None, ver |-> 0, persist |-> FALSE,
             todo |-> {}, keys |-> {}, topic |-> None]

TypeOK ==
    /\ version \in Versions
    /\ changes \subseteq [topic : Topics, ver : Versions]
    /\ seen \in [Topics -> Versions]
    /\ qc \in [Keys -> Versions \cup {None}]
    /\ disk \in [Keys -> Entry \cup {None}]
    /\ hot \in [Keys -> Versions \cup {None}]
    /\ index \subseteq Topics \X Keys
    /\ scan \subseteq Keys
    /\ tenant \in {"up", "down"}
    /\ count \in Int
    /\ pc \in [Clients -> Labels]
    /\ loc \in [Clients -> Locals]
    /\ excused \subseteq Keys

Init ==
    /\ version = 0 /\ changes = {} /\ seen = [t \in Topics |-> 0]
    /\ qc = [k \in Keys |-> None] /\ hot = [k \in Keys |-> None]
    /\ disk = [k \in Keys |-> None]
    /\ index = {} /\ scan = {} /\ tenant = "up" /\ count = 0
    /\ pc = [c \in Clients |-> "idle"] /\ loc = [c \in Clients |-> NoLocals]
    /\ excused = {}

\* What a reader of the store sees: peek_meta does not go through the process.
IsPersisted(k) == disk[k] # None /\ disk[k].persist

(***************************************************************************)
(* Control of a client.                                                    *)
(***************************************************************************)
At(c, label) == pc[c] = label /\ tenant = "up"
Goto(c, label) == pc' = [pc EXCEPT ![c] = label]
Finish(c) == Goto(c, "idle") /\ loc' = [loc EXCEPT ![c] = NoLocals]
RunAs(c, label, l) == Goto(c, label) /\ loc' = [loc EXCEPT ![c] = l]

\* The client holds a value it read before now and will still write to a tier.
Holding(c, k) ==
    /\ loc[c].op \in {"get", "put"} /\ loc[c].key = k
    /\ pc[c] \notin {"idle", "hot_get", "qc_get", "disk_get", "fetch"}

\* The disk cache's process is overwriting an entry, which it first drops; its
\* other callers wait.
DiskBusy == \E c \in Clients : pc[c] \in {"disk_write", "sp_write"}

\* Client c is in the middle of removing k from the tiers.
Deleting(c, k) == k \in loc[c].keys
Invalidating(c, k) == Deleting(c, k) \/ (pc[c] = "inv_hot" /\ loc[c].key = k)

\* Ghost bookkeeping, at both ends of an overlap: a purge claims keys some
\* client is reading or filling; a client reads a key being invalidated.
PurgeOverlaps(S) == excused \cup {k \in S : \E d \in Clients : Holding(d, k)}
ReadOverlaps(k) == excused \cup {x \in {k} : \E d \in Clients : Invalidating(d, k)}

\* messages handled before the rebuild has run
FaultyIndexReady == scan \subseteq Keys

\* reverse index messages wait behind handle_continue(:rebuild)
IndexReady == scan = {}

Begin(c, op, k) ==
    /\ op \in Ops /\ pc[c] = "idle" /\ tenant = "up" /\ k \in KeysOf[c]
    /\ count > -CountSlack
    /\ UNCHANGED <<database, seen, tiers, index, scan, tenant, count, excused>>

(***************************************************************************)
(* Router.get on the owner: the hot layer, then Restdis.Cache.get_with_ttl *)
(* (query cache, disk cache with promotion, origin), then observe.         *)
(***************************************************************************)
Get(c, k) ==
    /\ Begin(c, "get", k)
    /\ RunAs(c, "hot_get", [NoLocals EXCEPT !.op = "get", !.key = k])

HotGet(c) ==
    /\ At(c, "hot_get")
    /\ \/ hot[loc[c].key] # None /\ Finish(c)
       \/ hot[loc[c].key] = None /\ Goto(c, "qc_get") /\ UNCHANGED loc
    /\ UNCHANGED <<database, seen, tiers, index, scan, tenant, count, excused>>

QcGet(c) ==
    LET k == loc[c].key IN
    /\ At(c, "qc_get")
    /\ \/ /\ qc[k] # None
          /\ RunAs(c, "ttl", [loc[c] EXCEPT !.ver = qc[k]])
          /\ excused' = ReadOverlaps(k)
       \/ qc[k] = None /\ Goto(c, "disk_get") /\ UNCHANGED <<loc, excused>>
    /\ UNCHANGED <<database, seen, tiers, index, scan, tenant, count>>

DiskGet(c) ==
    LET k == loc[c].key IN
    /\ At(c, "disk_get") /\ ~DiskBusy
    /\ \/ /\ disk[k] # None
          /\ RunAs(c, "promote", [loc[c] EXCEPT !.ver = disk[k].ver])
          /\ excused' = ReadOverlaps(k)
       \/ disk[k] = None /\ Goto(c, "fetch") /\ UNCHANGED <<loc, excused>>
    /\ UNCHANGED <<database, seen, tiers, index, scan, tenant, count>>

\* disk_get_and_promote copies the value read from disk into the query cache.
Promote(c) ==
    /\ At(c, "promote")
    /\ qc' = [qc EXCEPT ![loc[c].key] = loc[c].ver]
    /\ Goto(c, "ttl")
    /\ UNCHANGED <<database, seen, disk, hot, index, scan, tenant, count, loc, excused>>

\* The remaining TTL is read after the value: an entry gone by then counts as TTL 0.
ReadTtl(c) ==
    /\ At(c, "ttl")
    /\ Goto(c, IF qc[loc[c].key] = None THEN "observe_dead" ELSE "observe")
    /\ UNCHANGED <<database, seen, tiers, index, scan, tenant, count, loc, excused>>

\* HotCache.observe; a copy stored with TTL 0 is never served.
Observe(c) ==
    /\ At(c, "observe") \/ At(c, "observe_dead")
    /\ hot' = [hot EXCEPT ![loc[c].key] = IF pc[c] = "observe" THEN loc[c].ver ELSE None]
    /\ Finish(c)
    /\ UNCHANGED <<database, seen, qc, disk, index, scan, tenant, count, excused>>

\* the failure of the origin is cached as if it were a response
FaultyFetch(c) ==
    /\ At(c, "fetch")
    /\ \E v \in {version, None} : RunAs(c, "meta", [loc[c] EXCEPT !.ver = v])
    /\ UNCHANGED <<database, seen, tiers, index, scan, tenant, count, excused>>

\* The origin is read in the caller's process, outside every lock; an error of
\* the origin ends the operation.
Fetch(c) ==
    /\ At(c, "fetch")
    /\ RunAs(c, "meta", [loc[c] EXCEPT !.ver = version]) \/ Finish(c)
    /\ UNCHANGED <<database, seen, tiers, index, scan, tenant, count, excused>>

(***************************************************************************)
(* A fill: PGRST.QUERY after a miss and a rewarm both read the origin and  *)
(* then call Restdis.Cache.put.                                            *)
(***************************************************************************)
Put(c, k) ==
    /\ Begin(c, "put", k)
    /\ \E b \in Persist :
          RunAs(c, "fetch", [NoLocals EXCEPT !.op = "put", !.key = k, !.persist = b])

\* do_put peeks at the entry it replaces and picks one of four branches.
PutMeta(c) ==
    /\ At(c, "meta")
    /\ LET had == IsPersisted(loc[c].key) IN
       \/ loc[c].persist /\ ~had /\ Goto(c, "count")
       \/ ~loc[c].persist /\ had /\ Goto(c, "uncount")
       \/ (loc[c].persist <=> had) /\ Goto(c, "qc_put")
    /\ UNCHANGED <<database, seen, tiers, index, scan, tenant, count, loc, excused>>

PutCount(c) ==
    /\ At(c, "count")
    /\ count' = count + 1 /\ Goto(c, "cap")
    /\ UNCHANGED <<database, seen, tiers, index, scan, tenant, loc, excused>>

\* the cap is compared with the count before this reservation
FaultyPutCap(c) ==
    /\ At(c, "cap")
    /\ \E cap \in PutCaps : Goto(c, IF count - 1 > cap THEN "refund" ELSE "qc_put")
    /\ UNCHANGED <<database, seen, tiers, index, scan, tenant, count, loc, excused>>

\* do_put compares with opts[:persist_cap].
PutCap(c) ==
    /\ At(c, "cap")
    /\ \E cap \in PutCaps : Goto(c, IF count > cap THEN "refund" ELSE "qc_put")
    /\ UNCHANGED <<database, seen, tiers, index, scan, tenant, count, loc, excused>>

\* {:error, :persist_cap}: the reservation is returned and nothing is written.
PutRefund(c) ==
    /\ At(c, "refund")
    /\ count' = count - 1 /\ Finish(c)
    /\ UNCHANGED <<database, seen, tiers, index, scan, tenant, excused>>

PutUncount(c) ==
    /\ At(c, "uncount")
    /\ count' = count - 1 /\ Goto(c, "qc_put")
    /\ UNCHANGED <<database, seen, tiers, index, scan, tenant, loc, excused>>

PutQc(c) ==
    /\ At(c, "qc_put")
    /\ qc' = [qc EXCEPT ![loc[c].key] = loc[c].ver]
    /\ Goto(c, "disk_put")
    /\ UNCHANGED <<database, seen, disk, hot, index, scan, tenant, count, loc, excused>>

\* the list keys of the table are not recorded
FaultyPutDisk(c) ==
    LET k == loc[c].key IN
    /\ At(c, "disk_write")
    /\ disk' = [disk EXCEPT ![k] = [ver |-> loc[c].ver, persist |-> loc[c].persist]]
    /\ RunAs(c, "index", [loc[c] EXCEPT !.todo = RowsOf[k]])
    /\ UNCHANGED <<database, seen, qc, hot, index, scan, tenant, count, excused>>

\* write_entry drops the old entry, then writes the new one.  A failed write
\* leaves the key dropped; do_put ignores the result either way.
PutDrop(c) ==
    /\ At(c, "disk_put") /\ ~DiskBusy
    /\ disk' = [disk EXCEPT ![loc[c].key] = None]
    /\ Goto(c, "disk_write")
    /\ UNCHANGED <<database, seen, qc, hot, index, scan, tenant, count, loc, excused>>

PutDisk(c) ==
    LET k == loc[c].key IN
    /\ At(c, "disk_write")
    /\ \/ disk' = [disk EXCEPT ![k] = [ver |-> loc[c].ver, persist |-> loc[c].persist]]
       \/ "disk_error" \in Ops /\ disk' = [disk EXCEPT ![k] = None]
    /\ RunAs(c, "index", [loc[c] EXCEPT !.todo = DependsOn(k)])
    /\ UNCHANGED <<database, seen, qc, hot, index, scan, tenant, count, excused>>

\* index_value: one call per row, then the cast that records a list key.
PutIndex(c) ==
    /\ At(c, "index") /\ IndexReady
    /\ \E t \in loc[c].todo :
          /\ t = Inserted => loc[c].todo = {Inserted}
          /\ index' = index \cup {<<t, loc[c].key>>}
          /\ loc' = [loc EXCEPT ![c].todo = @ \ {t}]
    /\ UNCHANGED <<database, seen, tiers, scan, tenant, count, pc, excused>>

PutIndexed(c) ==
    /\ At(c, "index") /\ loc[c].todo = {}
    /\ Goto(c, IF loc[c].op = "put" THEN "hot_delete" ELSE "ttl")
    /\ UNCHANGED <<database, seen, tiers, index, scan, tenant, count, loc, excused>>

PutHot(c) ==
    /\ At(c, "hot_delete")
    /\ hot' = [hot EXCEPT ![loc[c].key] = None]
    /\ Finish(c)
    /\ UNCHANGED <<database, seen, qc, disk, index, scan, tenant, count, excused>>

(***************************************************************************)
(* Restdis.Cache.set_persist.                                              *)
(***************************************************************************)
SetPersist(c, k) ==
    /\ Begin(c, "set_persist", k)
    /\ \E b \in BOOLEAN :
          RunAs(c, "sp_meta", [NoLocals EXCEPT !.op = "set_persist", !.key = k, !.persist = b])

SetPersistMeta(c) ==
    LET k == loc[c].key IN
    /\ At(c, "sp_meta")
    /\ \/ (disk[k] = None \/ IsPersisted(k) = loc[c].persist) /\ Finish(c)
       \/ /\ disk[k] # None /\ IsPersisted(k) # loc[c].persist
          /\ Goto(c, IF loc[c].persist THEN "sp_count" ELSE "sp_clear")
          /\ UNCHANGED loc
    /\ UNCHANGED <<database, seen, tiers, index, scan, tenant, count, excused>>

SetPersistCount(c) ==
    /\ At(c, "sp_count")
    /\ count' = count + 1 /\ Goto(c, "sp_cap")
    /\ UNCHANGED <<database, seen, tiers, index, scan, tenant, loc, excused>>

\* The caller's opts are not asked here: whoever the tenant is, the entry has
\* to fit under the cap of the instance.
SetPersistCap(c) ==
    /\ At(c, "sp_cap")
    /\ Goto(c, IF count > InstanceCap THEN "refund" ELSE "sp_set")
    /\ UNCHANGED <<database, seen, tiers, index, scan, tenant, count, loc, excused>>

\* `:ok = DiskCache.set_persist(...)`: an entry that vanished since the peek
\* crashes the caller, after the counter was raised.
SetPersistDrop(c) ==
    LET k == loc[c].key IN
    /\ At(c, "sp_set") \/ At(c, "sp_clear")
    /\ ~DiskBusy
    /\ \/ disk[k] = None /\ Finish(c) /\ UNCHANGED disk
       \/ /\ disk[k] # None
          /\ RunAs(c, "sp_write", [loc[c] EXCEPT !.ver = disk[k].ver])
          /\ disk' = [disk EXCEPT ![k] = None]
    /\ UNCHANGED <<database, seen, qc, hot, index, scan, tenant, count, excused>>

\* The entry is written back with the other flag; a failed write crashes the
\* caller too.
SetPersistDisk(c) ==
    LET k == loc[c].key IN
    /\ At(c, "sp_write")
    /\ \/ /\ disk' = [disk EXCEPT ![k] = [ver |-> loc[c].ver, persist |-> loc[c].persist]]
          /\ \/ loc[c].persist /\ Finish(c)
             \/ ~loc[c].persist /\ Goto(c, "sp_uncount") /\ UNCHANGED loc
       \/ "disk_error" \in Ops /\ Finish(c) /\ UNCHANGED disk
    /\ UNCHANGED <<database, seen, qc, hot, index, scan, tenant, count, excused>>

SetPersistUncount(c) ==
    /\ At(c, "sp_uncount")
    /\ count' = count - 1 /\ Finish(c)
    /\ UNCHANGED <<database, seen, tiers, index, scan, tenant, excused>>

(***************************************************************************)
(* Restdis.Cache.delete.                                                   *)
(***************************************************************************)
Delete(c, k) ==
    /\ Begin(c, "delete", k)
    /\ RunAs(c, "del_meta", [NoLocals EXCEPT !.op = "delete", !.key = k, !.keys = {k}])

\* every delete gives back a place under the cap
FaultyDeleteMeta(c) ==
    /\ At(c, "del_meta")
    /\ Goto(c, "del_count")
    /\ UNCHANGED <<database, seen, tiers, index, scan, tenant, count, loc, excused>>

DeleteMeta(c) ==
    /\ At(c, "del_meta")
    /\ Goto(c, IF IsPersisted(loc[c].key) THEN "del_count" ELSE "inv_qc")
    /\ UNCHANGED <<database, seen, tiers, index, scan, tenant, count, loc, excused>>

DeleteCount(c) ==
    /\ At(c, "del_count")
    /\ count' = count - 1 /\ Goto(c, "inv_qc")
    /\ UNCHANGED <<database, seen, tiers, index, scan, tenant, loc, excused>>

\* ReverseIndex.purge_key follows the rows of the key; list keys are not touched.
PurgeKey(c) ==
    /\ At(c, "purge_key") /\ IndexReady
    /\ index' = index \ (Rows \X {loc[c].key})
    /\ Finish(c)
    /\ UNCHANGED <<database, seen, tiers, scan, tenant, count, excused>>

(***************************************************************************)
(* The database commits a write of row t, or an insert; a worker takes the *)
(* change and calls invalidate_by_row or invalidate_lists.  When its       *)
(* tenant's workers are all busy the change is coalesced instead: a sweep  *)
(* calls flush_table for it.                                               *)
(***************************************************************************)
Commit(t) ==
    /\ version < MaxVersion
    /\ version' = version + 1
    /\ changes' = changes \cup {[topic |-> t, ver |-> version + 1]}
    /\ UNCHANGED <<seen, tiers, index, scan, tenant, count, pc, loc, excused>>

Invalidate(c) ==
    /\ "invalidate" \in Ops /\ pc[c] = "idle"
    /\ \E ch \in changes :
          /\ changes' = changes \ {ch}
          /\ \E label \in {"purge"} \cup (IF "flush" \in Ops THEN {"purge_table"} ELSE {}) :
                RunAs(c, label, [NoLocals EXCEPT !.op = "invalidate", !.topic = ch.topic,
                                                 !.ver = ch.ver])
    /\ UNCHANGED <<version, seen, tiers, index, scan, tenant, count, excused>>

MarkSeen(t, v) == seen' = [seen EXCEPT ![t] = IF v > @ THEN v ELSE @]

\* invalidate_lists and flush_table return at once while no reverse index is
\* registered (invalidate_by_row starts the tenant instead).
SkipPurge(c) ==
    /\ tenant = "down"
    /\ pc[c] = "purge_table" \/ (pc[c] = "purge" /\ loc[c].topic = Inserted)
    /\ MarkSeen(loc[c].topic, loc[c].ver)
    /\ Finish(c)
    /\ UNCHANGED <<database, tiers, index, scan, tenant, count, excused>>

\* The keys a purge claims and the pairs it drops from the index: purge_row
\* those of the row, purge_list_keys every pair of the list keys, purge_table
\* the row pairs of the table (a list key that holds no row is not found).
RowKeys(topics) == {k \in Keys : \E t \in topics : <<t, k>> \in index}

\* an insert is looked up as a row, and the row was never indexed
FaultyPurgedKeys(c) == RowKeys(IF pc[c] = "purge_table" THEN Rows ELSE {loc[c].topic} \cap Rows)

PurgedKeys(c) == RowKeys(IF pc[c] = "purge_table" THEN Rows ELSE {loc[c].topic})
PurgedPairs(c) ==
    CASE pc[c] = "purge_table"     -> Rows \X Keys
      [] loc[c].topic = Inserted   -> Topics \X PurgedKeys(c)
      [] OTHER                     -> {loc[c].topic} \X Keys

Purge(c) ==
    LET found == PurgedKeys(c) IN
    /\ At(c, "purge") \/ At(c, "purge_table")
    /\ IndexReady
    /\ index' = index \ PurgedPairs(c)
    /\ \/ found = {} /\ MarkSeen(loc[c].topic, loc[c].ver) /\ Finish(c)
       \/ \E k \in found :
             /\ RunAs(c, "inv_qc", [loc[c] EXCEPT !.key = k, !.keys = found])
             /\ UNCHANGED seen
    /\ excused' = PurgeOverlaps(found \cup {k \in Keys : loc[c].topic \in DependsOn(k)})
    /\ UNCHANGED <<database, tiers, scan, tenant, count>>

(***************************************************************************)
(* invalidate_key: query cache, disk cache, hot layer.                     *)
(***************************************************************************)
InvalidateQc(c) ==
    /\ At(c, "inv_qc")
    /\ qc' = [qc EXCEPT ![loc[c].key] = None]
    /\ Goto(c, "inv_disk")
    /\ UNCHANGED <<database, seen, disk, hot, index, scan, tenant, count, loc, excused>>

InvalidateDisk(c) ==
    /\ At(c, "inv_disk") /\ ~DiskBusy
    /\ disk' = [disk EXCEPT ![loc[c].key] = None]
    /\ RunAs(c, "inv_hot", [loc[c] EXCEPT !.keys = @ \ {loc[c].key}])
    /\ UNCHANGED <<database, seen, qc, hot, index, scan, tenant, count, excused>>

\* the hot layer is left to expire
FaultyInvalidateHot(c) ==
    /\ At(c, "inv_hot")
    /\ \/ loc[c].op = "delete" /\ Goto(c, "purge_key") /\ UNCHANGED <<loc, seen>>
       \/ /\ loc[c].op = "invalidate" /\ loc[c].keys = {}
          /\ MarkSeen(loc[c].topic, loc[c].ver) /\ Finish(c)
       \/ /\ loc[c].op = "invalidate"
          /\ \E k \in loc[c].keys : RunAs(c, "inv_qc", [loc[c] EXCEPT !.key = k])
          /\ UNCHANGED seen
    /\ UNCHANGED <<database, tiers, index, scan, tenant, count, excused>>

InvalidateHot(c) ==
    /\ At(c, "inv_hot")
    /\ hot' = [hot EXCEPT ![loc[c].key] = None]
    /\ \/ loc[c].op = "delete" /\ Goto(c, "purge_key") /\ UNCHANGED <<loc, seen>>
       \/ /\ loc[c].op = "invalidate" /\ loc[c].keys = {}
          /\ MarkSeen(loc[c].topic, loc[c].ver) /\ Finish(c)
       \/ /\ loc[c].op = "invalidate"
          /\ \E k \in loc[c].keys : RunAs(c, "inv_qc", [loc[c] EXCEPT !.key = k])
          /\ UNCHANGED seen
    /\ UNCHANGED <<database, qc, disk, index, scan, tenant, count, excused>>

(***************************************************************************)
(* Expiry and eviction, which run on behalf of some other call or a sweep. *)
(***************************************************************************)
QcDrop(k) ==
    /\ "evict" \in Ops /\ qc[k] # None /\ tenant = "up"
    /\ qc' = [qc EXCEPT ![k] = None] /\ hot' = [hot EXCEPT ![k] = None]
    /\ UNCHANGED <<database, seen, disk, index, scan, tenant, count, pc, loc, excused>>

\* evict_over_cap takes only entries that are not persisted; expiry takes any.
DiskDrop(k) ==
    /\ "evict" \in Ops /\ disk[k] # None /\ tenant = "up" /\ ~DiskBusy
    /\ ~disk[k].persist \/ k \in TtlKeys
    /\ disk' = [disk EXCEPT ![k] = None] /\ hot' = [hot EXCEPT ![k] = None]
    /\ UNCHANGED <<database, seen, qc, index, scan, tenant, count, pc, loc, excused>>

HotDrop(k) ==
    /\ "evict" \in Ops /\ hot[k] # None
    /\ hot' = [hot EXCEPT ![k] = None]
    /\ UNCHANGED <<database, seen, qc, disk, index, scan, tenant, count, pc, loc, excused>>

(***************************************************************************)
(* The tenant's processes: a crash of one takes all three down; a client   *)
(* whose call was in progress dies with it.  The supervisor, or            *)
(* ensure_started, starts them again: the query cache is empty, the disk   *)
(* cache counts its persisted entries, the reverse index is rebuilt from   *)
(* the disk entry by entry.                                                *)
(***************************************************************************)
\* A client that outlives the restart keeps the counter it fetched before: its
\* cap check and its refund act on the old counter, nobody's any more.
AfterRestart(label) ==
    CASE label = "cap"    -> "qc_put"
      [] label = "sp_cap" -> "sp_set"
      [] OTHER            -> label

TenantDown ==
    /\ "stop" \in Ops /\ tenant = "up"
    /\ tenant' = "down"
    /\ qc' = [k \in Keys |-> None] /\ index' = {} /\ scan' = {}
    /\ \E dead \in SUBSET {c \in Clients : pc[c] # "idle"} :
          /\ {c \in Clients : pc[c] \in {"refund", "disk_write", "sp_write"}} \subseteq dead
          /\ pc' = [c \in Clients |-> IF c \in dead THEN "idle" ELSE AfterRestart(pc[c])]
          /\ loc' = [c \in Clients |-> IF c \in dead THEN NoLocals ELSE loc[c]]
          /\ excused' = excused \cup UNION {loc[c].keys \cup ({loc[c].key} \cap Keys) : c \in dead}
    /\ UNCHANGED <<database, seen, disk, hot, count>>

\* the processes start without reading the disk back
FaultyTenantUp ==
    /\ tenant = "down"
    /\ tenant' = "up" /\ scan' = {}
    /\ count' = Cardinality({k \in Keys : IsPersisted(k)})
    /\ UNCHANGED <<database, seen, tiers, index, pc, loc, excused>>

TenantUp ==
    /\ tenant = "down"
    /\ tenant' = "up"
    /\ scan' = {k \in Keys : disk[k] # None}
    /\ count' = Cardinality({k \in Keys : IsPersisted(k)})
    /\ UNCHANGED <<database, seen, tiers, index, pc, loc, excused>>

Rebuild(k) ==
    /\ tenant = "up" /\ k \in scan
    /\ scan' = scan \ {k}
    /\ index' = IF disk[k] = None THEN index ELSE index \cup (DependsOn(k) \X {k})
    /\ UNCHANGED <<database, seen, tiers, tenant, count, pc, loc, excused>>

-----------------------------------------------------------------------------
GetStep(c) == HotGet(c) \/ QcGet(c) \/ DiskGet(c) \/ Promote(c) \/ ReadTtl(c) \/ Observe(c)
PutStep(c) == \/ Fetch(c) \/ PutMeta(c) \/ PutCount(c) \/ PutCap(c) \/ PutRefund(c)
              \/ PutUncount(c) \/ PutQc(c) \/ PutDrop(c) \/ PutDisk(c) \/ PutIndex(c) \/ PutIndexed(c)
              \/ PutHot(c)
SetPersistStep(c) == \/ SetPersistMeta(c) \/ SetPersistCount(c) \/ SetPersistCap(c)
                     \/ SetPersistDrop(c) \/ SetPersistDisk(c) \/ SetPersistUncount(c)
DeleteStep(c) == DeleteMeta(c) \/ DeleteCount(c) \/ PurgeKey(c)
InvalidateStep(c) == \/ Purge(c) \/ SkipPurge(c) \/ InvalidateQc(c) \/ InvalidateDisk(c)
                     \/ InvalidateHot(c)
Step(c) == GetStep(c) \/ PutStep(c) \/ SetPersistStep(c) \/ DeleteStep(c) \/ InvalidateStep(c)

Call(c) == Invalidate(c) \/ \E k \in Keys : Get(c, k) \/ Put(c, k) \/ SetPersist(c, k) \/ Delete(c, k)
Background == \/ \E k \in Keys : QcDrop(k) \/ DiskDrop(k) \/ HotDrop(k) \/ Rebuild(k)
              \/ TenantDown \/ TenantUp

Next == \/ \E c \in Clients : Call(c) \/ Step(c)
        \/ \E t \in Topics : Commit(t)
        \/ Background

Spec == Init /\ [][Next]_vars
-----------------------------------------------------------------------------
(***************************************************************************)
(* Properties.                                                             *)
(***************************************************************************)
\* The reverse index knows, or is about to be told, that k depends on t.
Indexed(k, t) ==
    \/ <<t, k>> \in index
    \/ tenant = "down" \/ k \in scan
    \/ \E c \in Clients : /\ pc[c] = "index" /\ loc[c].key = k /\ t \in loc[c].todo

\* Whatever the interleaving of reads, fills, WAL invalidations and tenant
\* restarts, every entry on disk can be found through the reverse index by
\* every row it depends on, unless its own fill is still recording the rows
\* or an invalidation is already on its way to remove it.  (README: "the
\* reverse index maps the row's table and primary key to every cache key".)
DiskCovered ==
    \A k \in Keys : disk[k] # None =>
        \A t \in DependsOn(k) : Indexed(k, t) \/ \E c \in Clients : Deleting(c, k)

\* The same claim about the query cache.
QueryCacheCovered ==
    \A k \in Keys : qc[k] # None =>
        \A t \in DependsOn(k) :
            \/ Indexed(k, t)
            \/ \E c \in Clients : Invalidating(c, k) \/ Holding(c, k)

\* v, if it is a version, is older than a change of k whose invalidation finished.
Outdated(v, k) == v # None /\ \E t \in DependsOn(k) : v < seen[t]
DiskVersion(k) == IF disk[k] = None THEN None ELSE disk[k].ver

\* A read or fill of k overlapped an invalidation of it, a client died half-way
\* through an operation on k, or an invalidation that has claimed k still runs.
RaceOn(k) == k \in excused \/ \E c \in Clients : Invalidating(c, k)

\* Once the invalidation for a change has finished, an entry older than the
\* change survives on disk only because of a race on that very key: nothing
\* that depends on the row escapes the reverse index otherwise, not even when
\* the tenant's processes crashed in between and rebuilt it.
DiskStaleOnlyByRace == \A k \in Keys : Outdated(DiskVersion(k), k) => RaceOn(k)

\* The same for the copies in front of the disk: the query cache and the
\* node's hot layer, which readers fill after they have read.
CopiesStaleOnlyByRace ==
    \A k \in Keys : Outdated(qc[k], k) \/ Outdated(hot[k], k) => RaceOn(k)

\* An insert clears the cached lists of its table.  (README: "an insert clears
\* the table's cached lists instead".)
InsertClearsLists ==
    \A k \in ListKeys : DiskVersion(k) # None /\ DiskVersion(k) < seen[Inserted] => RaceOn(k)

Quiet == \A c \in Clients : pc[c] = "idle"

Persisted == {k \in Keys : IsPersisted(k)}

\* A client that has given back k's place under the cap is about to overwrite
\* or remove k.
Released(c, k) ==
    /\ loc[c].key = k
    /\ \/ loc[c].op = "delete" /\ pc[c] \in {"inv_qc", "inv_disk"}
       \/ loc[c].op \in {"get", "put"} /\ ~loc[c].persist /\ pc[c] \in {"qc_put", "disk_put"}

\* The caps the counter is compared with: those of put and, where anybody calls
\* set_persist, the instance's.
Caps == PutCaps \cup IF "set_persist" \in Ops THEN {InstanceCap} ELSE {}

\* The entries marked persist are never more than the largest of those caps
\* allows, however the reservations of clients working on different keys
\* interleave, and whatever WAL invalidations and evictions remove under them:
\* the tenant's own cap where every caller passes it and set_persist is not
\* called, but not otherwise (README, divergences).
PersistWithinCap ==
    \E cap \in Caps : Cardinality({k \in Persisted : \A c \in Clients : ~Released(c, k)}) <= cap

\* With no operation running the counter errs on the safe side only.
CountCoversPersisted == Quiet /\ tenant = "up" => count >= Cardinality(Persisted)

\* With no operation running, persist_count/2 is the number of persisted
\* entries.  (cache.ex: "Returns the number of persisted entries held".)
CountExact == Quiet /\ tenant = "up" => count = Cardinality(Persisted)
=============================================================================
