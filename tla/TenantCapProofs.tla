-------------------------- MODULE TenantCapProofs --------------------------
(***************************************************************************)
(* Theorems about the persist cap of TenantCache: however many clients     *)
(* reserve and return places at once, the cap holds and the counter errs   *)
(* on the safe side only.                                                  *)
(***************************************************************************)
EXTENDS TenantCacheProofs

\* Two clients never work on the same key at the same time, and the tenant is
\* not restarted (README, divergences: either makes the counter drift).
KeysApart ==
    /\ "stop" \notin Ops
    /\ \A c, d \in Clients : c # d => KeysOf[c] \cap KeysOf[d] = {}

(***************************************************************************)
(* The counter is raised before an entry is marked and lowered before or   *)
(* after one is cleared, so it counts keys in three different states:      *)
(* those whose entry is marked and not given up, those whose place a       *)
(* client holds in its own hands, and those a client has asked a place for *)
(* and not been refused or granted one.  Keys invalidated or evicted in    *)
(* the meantime are counted too: the inequality is all that holds.         *)
(***************************************************************************)
Marked(k) == IsPersisted(k) /\ \A c \in Clients : ~Released(c, k)
HasPlace(c, k) ==
    /\ loc[c].key = k
    /\ \/ pc[c] \in {"qc_put", "disk_put", "disk_write"} /\ loc[c].persist
       \/ pc[c] \in {"uncount", "del_count", "sp_set", "sp_write", "sp_uncount"}
Asks(c, k) == loc[c].key = k /\ pc[c] \in {"cap", "refund", "sp_cap"}

Confirmed == {k \in Keys : Marked(k) \/ \E c \in Clients : HasPlace(c, k)}
Held == {k \in Keys : k \in Confirmed \/ \E c \in Clients : Asks(c, k)}

\* A client in an operation of its own works on a key of its own.
Own(c) == loc[c].op \in {"get", "put", "set_persist", "delete"}
Works(c) == pc[c] \notin {"idle", "purge", "purge_table", "inv_qc", "inv_disk", "inv_hot"}
Owned(c) == (Works(c) => Own(c)) /\ (Own(c) => loc[c].key \in KeysOf[c])

\* What a client's label tells of its operation and of the entry of its key.
PlaceFits(c) ==
    /\ pc[c] \in {"hot_get", "qc_get", "disk_get", "fetch", "meta", "count", "cap", "uncount",
                  "qc_put", "disk_put", "disk_write"} => loc[c].op \in {"get", "put"}
    /\ pc[c] \in {"del_meta", "del_count"} => loc[c].op = "delete"
    /\ pc[c] \in {"purge", "purge_table"} => loc[c].op = "invalidate"
    /\ pc[c] = "uncount" => ~loc[c].persist
    /\ pc[c] \in {"count", "cap", "refund", "sp_count", "sp_cap", "sp_uncount"} =>
          ~IsPersisted(loc[c].key)
    /\ pc[c] = "sp_clear" /\ disk[loc[c].key] # None => disk[loc[c].key].persist
    /\ pc[c] \in {"sp_meta", "sp_count", "sp_cap"} => "set_persist" \in Ops

WellPlaced == \A c \in Clients : Owned(c) /\ PlaceFits(c)
CountHolds == Cardinality(Held) <= count
CapHolds == \E cap \in Caps : Cardinality(Confirmed) <= cap
Running == tenant = "up" /\ scan = {}

CapInv == TypeInv /\ Running /\ WellPlaced /\ CountHolds /\ CapHolds

-----------------------------------------------------------------------------
\* What a step of a client may do to the entries and to what it has given up.
Moves(c) ==
    /\ OthersKeep(c) /\ Owned(c)' /\ PlaceFits(c)' /\ UNCHANGED <<scan, tenant>>
    /\ \A j \in Keys :
          \/ disk'[j] = None \/ disk'[j] = disk[j]
          \/ Own(c) /\ j = loc[c].key /\ (disk'[j].persist => HasPlace(c, j))
    /\ \A j \in Keys : Released(c, j) => Released(c, j)' \/ ~IsPersisted(j)'

\* Such a step disturbs no other client, and the only keys it can add are those
\* it has a place for, or asks a place for, itself.
LEMMA MovesKeep ==
    ASSUME CapInv, KeysApart, NEW c \in Clients, Moves(c)
    PROVE  /\ Running' /\ WellPlaced'
           /\ \A j \in Confirmed' : j \in Confirmed \/ HasPlace(c, j)'
           /\ \A j \in Held' : j \in Held \/ HasPlace(c, j)' \/ Asks(c, j)'
<1>1. Running' BY DEF CapInv, Moves, Running
<1>2. ASSUME NEW d \in Clients PROVE Owned(d)' /\ PlaceFits(d)'
  <2>1. CASE d = c BY <2>1 DEF Moves
  <2>2. CASE d # c
    <3>1. Owned(d) /\ PlaceFits(d) /\ pc'[d] = pc[d] /\ loc'[d] = loc[d]
      BY <2>2 DEF CapInv, WellPlaced, Moves, OthersKeep
    <3>2. Owned(d)' BY <3>1 DEF Owned, Works, Own
    <3>3. ASSUME Works(d)
          PROVE  disk'[loc[d].key] = None \/ disk'[loc[d].key] = disk[loc[d].key]
      <4>1. loc[d].key \in Keys /\ loc[d].key \in KeysOf[d]
        BY <3>1, <3>3 DEF Owned, CapInv, TypeInv, HasKey, Works, Keyless
      <4>2. Own(c) => loc[c].key # loc[d].key
        BY <2>2, <4>1 DEF KeysApart, CapInv, WellPlaced, Owned
      <4> QED BY <4>1, <4>2 DEF Moves
    <3>4. PlaceFits(d)' BY <3>1, <3>3 DEF PlaceFits, IsPersisted, Works
    <3> QED BY <3>2, <3>4
  <2> QED BY <2>1, <2>2
<1>3. ASSUME NEW j \in Confirmed' PROVE j \in Confirmed \/ HasPlace(c, j)'
  <2>1. j \in Keys BY DEF Confirmed
  <2>2. CASE Marked(j)'
    <3>1. CASE disk'[j] = disk[j]
      <4>1. IsPersisted(j) BY <2>2, <3>1 DEF Marked, IsPersisted
      <4>2. ASSUME NEW d \in Clients PROVE ~Released(d, j)
        <5>1. ~Released(d, j)' /\ IsPersisted(j)' BY <2>2 DEF Marked
        <5>2. CASE d = c BY <2>1, <5>1, <5>2 DEF Moves
        <5>3. CASE d # c BY <5>1, <5>3 DEF Moves, OthersKeep, Released
        <5> QED BY <5>2, <5>3
      <4> QED BY <2>1, <4>1, <4>2 DEF Confirmed, Marked
    <3>2. CASE disk'[j] # disk[j]
      <4>1. HasPlace(c, j) BY <2>1, <2>2, <3>2 DEF Moves, Marked, IsPersisted
      <4> QED BY <2>1, <4>1 DEF Confirmed
    <3> QED BY <3>1, <3>2
  <2>3. ASSUME NEW d \in Clients, HasPlace(d, j)', d # c PROVE j \in Confirmed
    <3>1. HasPlace(d, j) BY <2>3 DEF Moves, OthersKeep, HasPlace
    <3> QED BY <2>1, <3>1 DEF Confirmed
  <2> QED BY <2>2, <2>3 DEF Confirmed
<1>4. ASSUME NEW j \in Held' PROVE j \in Held \/ HasPlace(c, j)' \/ Asks(c, j)'
  <2>1. j \in Keys BY DEF Held
  <2>2. CASE j \in Confirmed' BY <1>3, <2>1, <2>2 DEF Held
  <2>3. ASSUME NEW d \in Clients, Asks(d, j)', d # c PROVE j \in Held
    <3>1. Asks(d, j) BY <2>3 DEF Moves, OthersKeep, Asks
    <3> QED BY <2>1, <3>1 DEF Held
  <2> QED BY <2>2, <2>3 DEF Held
<1> QED BY <1>1, <1>2, <1>3, <1>4 DEF WellPlaced

\* The sets that are counted are finite.
LEMMA Counted ==
    ASSUME NEW S \in SUBSET Keys
    PROVE  /\ IsFiniteSet(S) /\ Cardinality(S) \in Nat
           /\ \A T \in SUBSET S : Cardinality(T) <= Cardinality(S)
           /\ \A k \in Keys : Cardinality(S \cup {k}) <= Cardinality(S) + 1
           /\ \A k \in S : Cardinality(S \ {k}) = Cardinality(S) - 1
<1>1. IsFiniteSet(S) BY ConstantsAssumption, FS_Subset
<1>2. Cardinality(S) \in Nat BY <1>1, FS_CardinalityType
<1>3. \A T \in SUBSET S : Cardinality(T) <= Cardinality(S) BY <1>1, FS_Subset
<1>4. ASSUME NEW k \in Keys PROVE Cardinality(S \cup {k}) <= Cardinality(S) + 1
  <2>1. CASE k \in S
    <3>1. S \cup {k} = S BY <2>1
    <3> QED BY <1>2, <3>1
  <2>2. CASE k \notin S
    <3>1. Cardinality(S \cup {k}) = Cardinality(S) + 1 BY <1>1, <2>2, FS_AddElement
    <3> QED BY <1>2, <3>1
  <2> QED BY <2>1, <2>2
<1>5. \A k \in S : Cardinality(S \ {k}) = Cardinality(S) - 1 BY <1>1, FS_RemoveElement
<1> QED BY <1>1, <1>2, <1>3, <1>4, <1>5

\* The four ways a step can bear on the count.
Neutral(c) ==
    /\ count' = count
    /\ \A j \in Keys : (HasPlace(c, j)' => j \in Confirmed) /\ (Asks(c, j)' => j \in Held)
Reserves(c) ==
    /\ count' = count + 1
    /\ \A j \in Keys : ~HasPlace(c, j)' /\ (Asks(c, j)' => j = loc[c].key)
Grants(c) ==
    /\ count' = count /\ \E cap \in Caps : count <= cap
    /\ \A j \in Keys : (HasPlace(c, j)' => j \in Held) /\ ~Asks(c, j)'
Returns(c) ==
    /\ count' = count - 1 /\ loc[c].key \in Held \ Held'
    /\ \A j \in Keys : ~HasPlace(c, j)' /\ ~Asks(c, j)'

LEMMA Accounts ==
    ASSUME CapInv, KeysApart, NEW c \in Clients, Moves(c), loc[c].key \in Keys \/ Neutral(c),
           Neutral(c) \/ Reserves(c) \/ Grants(c) \/ Returns(c)
    PROVE  Running' /\ WellPlaced' /\ CountHolds' /\ CapHolds'
<1>1. /\ count \in Int /\ Cardinality(Held) <= count /\ CapHolds
      /\ Caps \subseteq Nat
  BY ConstantsAssumption DEF CapInv, TypeInv, TypeOK, CountHolds, Caps
<1>2. /\ Held \in SUBSET Keys /\ Confirmed \in SUBSET Held /\ Confirmed \in SUBSET Keys
      /\ Held' \in SUBSET Keys /\ Confirmed' \in SUBSET Keys
  BY DEF Held, Confirmed
<1>3. /\ Cardinality(Held) \in Nat /\ Cardinality(Confirmed) \in Nat
      /\ Cardinality(Held') \in Nat /\ Cardinality(Confirmed') \in Nat
  BY <1>2, Counted
<1>4. CASE Neutral(c)
  <2>1. Confirmed' \in SUBSET Confirmed /\ Held' \in SUBSET Held
    BY <1>2, <1>4, MovesKeep DEF Neutral
  <2>2. Cardinality(Confirmed') <= Cardinality(Confirmed) /\ Cardinality(Held') <= Cardinality(Held)
    BY <1>2, <2>1, Counted
  <2> QED BY <1>1, <1>3, <1>4, <2>2, MovesKeep DEF Neutral, CountHolds, CapHolds
<1>5. CASE Reserves(c) /\ loc[c].key \in Keys
  <2>1. Confirmed' \in SUBSET Confirmed /\ Held' \in SUBSET (Held \cup {loc[c].key})
    BY <1>2, <1>5, MovesKeep DEF Reserves
  <2>2. Cardinality(Confirmed') <= Cardinality(Confirmed) BY <1>2, <2>1, Counted
  <2>3. Cardinality(Held \cup {loc[c].key}) <= Cardinality(Held) + 1 BY <1>2, <1>5, Counted
  <2>4. Held \cup {loc[c].key} \in SUBSET Keys BY <1>2, <1>5
  <2>5. /\ Cardinality(Held') <= Cardinality(Held \cup {loc[c].key})
        /\ Cardinality(Held \cup {loc[c].key}) \in Nat
    BY <2>1, <2>4, Counted
  <2> QED BY <1>1, <1>3, <1>5, <2>2, <2>3, <2>5, MovesKeep DEF Reserves, CountHolds, CapHolds
<1>6. CASE Grants(c)
  <2>1. Confirmed' \in SUBSET Held /\ Held' \in SUBSET Held
    BY <1>2, <1>6, MovesKeep DEF Grants
  <2>2. Cardinality(Confirmed') <= Cardinality(Held) /\ Cardinality(Held') <= Cardinality(Held)
    BY <1>2, <2>1, Counted
  <2>3. PICK cap \in Caps : count <= cap /\ cap \in Nat BY <1>1, <1>6 DEF Grants
  <2>4. Cardinality(Confirmed') <= cap BY <1>1, <1>3, <2>2, <2>3
  <2>5. CapHolds' BY <2>3, <2>4 DEF CapHolds, Caps
  <2>6. CountHolds' BY <1>1, <1>3, <1>6, <2>2 DEF Grants, CountHolds
  <2> QED BY <2>5, <2>6, MovesKeep
<1>7. CASE Returns(c)
  <2>1. Confirmed' \in SUBSET Confirmed /\ Held' \in SUBSET (Held \ {loc[c].key})
    BY <1>2, <1>7, MovesKeep DEF Returns
  <2>2. Cardinality(Confirmed') <= Cardinality(Confirmed) BY <1>2, <2>1, Counted
  <2>3. Cardinality(Held \ {loc[c].key}) = Cardinality(Held) - 1 BY <1>2, <1>7, Counted DEF Returns
  <2>4. Held \ {loc[c].key} \in SUBSET Keys BY <1>2
  <2>5. Cardinality(Held') <= Cardinality(Held \ {loc[c].key}) BY <2>1, <2>4, Counted
  <2> QED BY <1>1, <1>3, <1>7, <2>2, <2>3, <2>5, MovesKeep DEF Returns, CountHolds, CapHolds
<1> QED BY <1>4, <1>5, <1>6, <1>7

-----------------------------------------------------------------------------
\* What CapInv says of one client, and what a client that has finished holds.
LEMMA ClientHas ==
    ASSUME CapInv, NEW c \in Clients
    PROVE  /\ Owned(c) /\ PlaceFits(c) /\ loc[c] \in Locals /\ pc[c] \in Labels
           /\ disk \in [Keys -> Entry \cup {None}] /\ tenant = "up" /\ count \in Int
           /\ pc[c] \notin Keyless => loc[c].key \in Keys
           /\ NoLocals.op \notin {"get", "put", "set_persist", "delete"}
BY ConstantsAssumption
DEF CapInv, WellPlaced, Running, TypeInv, TypeOK, HasKey, Keyless, NoLocals, OpNames

\* Labels at which a client has no place, asks for none and has given none up.
Plain == {"idle", "hot_get", "qc_get", "disk_get", "promote", "fetch", "ttl", "observe",
          "observe_dead", "meta", "index", "hot_delete", "purge", "purge_table", "purge_key",
          "sp_meta", "del_meta"}

\* A step that leaves the entries alone and ends at such a label.
LEMMA PlainStep ==
    ASSUME NEW c \in Clients, OthersKeep(c), UNCHANGED <<disk, scan, tenant, count>>,
           pc'[c] \in Plain, Owned(c)', PlaceFits(c)',
           \A j \in Keys : Released(c, j) => ~IsPersisted(j)
    PROVE  Moves(c) /\ Neutral(c)
<1>1. Moves(c) BY DEF Moves, IsPersisted
<1>2. Neutral(c) BY DEF Neutral, Plain, HasPlace, Asks
<1> QED BY <1>1, <1>2

\* A client that finishes.
LEMMA FinishStep ==
    ASSUME CapInv, NEW c \in Clients, Finish(c), UNCHANGED <<disk, scan, tenant, count>>,
           \A j \in Keys : Released(c, j) => ~IsPersisted(j)
    PROVE  Moves(c) /\ Neutral(c)
<1>1. OthersKeep(c) /\ pc'[c] = "idle" /\ loc'[c] = NoLocals BY FinishKeeps DEF CapInv
<1>2. Owned(c)' BY <1>1, ClientHas DEF Owned, Works, Own
<1>3. PlaceFits(c)' BY <1>1 DEF PlaceFits
<1> QED BY <1>1, <1>2, <1>3, PlainStep DEF Plain

\* A client that goes on with the same work, at such a label.
SameWork(c) == loc'[c].op = loc[c].op /\ loc'[c].key = loc[c].key /\ loc'[c].persist = loc[c].persist

LEMMA OnStep ==
    ASSUME CapInv, NEW c \in Clients, OthersKeep(c), UNCHANGED <<disk, scan, tenant, count>>,
           SameWork(c), pc'[c] \in Plain, Own(c),
           \A j \in Keys : Released(c, j) => ~IsPersisted(j),
           pc'[c] \in {"hot_get", "qc_get", "disk_get", "fetch", "meta"} => loc[c].op \in {"get", "put"},
           pc'[c] \notin {"del_meta", "purge", "purge_table", "sp_meta"}
    PROVE  Moves(c) /\ Neutral(c)
<1>1. Owned(c)' BY ClientHas DEF SameWork, Owned, Own
<1>2. PlaceFits(c)' BY DEF SameWork, PlaceFits, Plain
<1> QED BY <1>1, <1>2, PlainStep

LEMMA GetPlaces ==
    ASSUME CapInv, NEW c \in Clients, GetStep(c)
    PROVE  Moves(c) /\ Neutral(c)
<1> USE ClientHas
<1>0. tenant = "up" BY DEF CapInv, Running
<1>1. pc[c] \in {"hot_get", "qc_get", "disk_get", "promote", "ttl", "observe", "observe_dead"}
  BY DEF GetStep, HotGet, QcGet, DiskGet, Promote, ReadTtl, Observe, At
<1>2. Own(c) /\ \A j \in Keys : ~Released(c, j) BY <1>1 DEF Owned, Works, Released
<1>3. UNCHANGED <<scan, tenant, count, disk>>
  BY DEF GetStep, HotGet, QcGet, DiskGet, Promote, ReadTtl, Observe, tiers
<1>4. CASE Finish(c) BY <1>2, <1>3, <1>4, FinishStep
<1>5. CASE HotGet(c) /\ ~Finish(c)
  <2>1. Goto(c, "qc_get") /\ UNCHANGED loc BY <1>5 DEF HotGet
  <2>2. OthersKeep(c) /\ pc'[c] = "qc_get" /\ SameWork(c) BY <2>1, GotoKeeps DEF CapInv, SameWork
  <2> QED BY <1>2, <1>3, <1>5, <2>2, OnStep DEF HotGet, At, Plain, PlaceFits
<1>6. CASE QcGet(c)
  <2>1. \/ RunAs(c, "ttl", [loc[c] EXCEPT !.ver = qc[loc[c].key]])
        \/ Goto(c, "disk_get") /\ UNCHANGED loc
    BY <1>6 DEF QcGet
  <2>2. OthersKeep(c) /\ pc'[c] \in {"ttl", "disk_get"} /\ SameWork(c)
    BY <2>1, GotoKeeps, RunAsKeeps DEF CapInv, SameWork, Locals
  <2> QED BY <1>2, <1>3, <1>6, <2>2, OnStep DEF QcGet, At, Plain, PlaceFits
<1>7. CASE DiskGet(c)
  <2>1. \/ RunAs(c, "promote", [loc[c] EXCEPT !.ver = disk[loc[c].key].ver])
        \/ Goto(c, "fetch") /\ UNCHANGED loc
    BY <1>7 DEF DiskGet
  <2>2. OthersKeep(c) /\ pc'[c] \in {"promote", "fetch"} /\ SameWork(c)
    BY <2>1, GotoKeeps, RunAsKeeps DEF CapInv, SameWork, Locals
  <2> QED BY <1>2, <1>3, <1>7, <2>2, OnStep DEF DiskGet, At, Plain, PlaceFits
<1>8. CASE Promote(c) \/ ReadTtl(c)
  <2>1. UNCHANGED loc /\ \E label \in {"ttl", "observe", "observe_dead"} : Goto(c, label)
    BY <1>8 DEF Promote, ReadTtl
  <2>2. OthersKeep(c) /\ pc'[c] \in {"ttl", "observe", "observe_dead"} /\ SameWork(c)
    BY <2>1, GotoKeeps DEF CapInv, SameWork
  <2> QED BY <1>2, <1>3, <2>2, OnStep DEF Plain
<1>9. CASE Observe(c) BY <1>4, <1>9 DEF Observe
<1> QED BY <1>4, <1>5, <1>6, <1>7, <1>8, <1>9 DEF GetStep

\* Nobody else has, asks for or has given up a place for the key of a client in
\* an operation of its own.
LEMMA OnlyOwner ==
    ASSUME CapInv, KeysApart, NEW c \in Clients, Own(c), NEW d \in Clients, d # c
    PROVE  LET k == loc[c].key IN ~Released(d, k) /\ ~HasPlace(d, k) /\ ~Asks(d, k)
<1>1. Owned(c) /\ Owned(d) BY ClientHas
<1>2. ASSUME Own(d) PROVE loc[d].key # loc[c].key BY <1>1, <1>2 DEF Owned, KeysApart
<1>3. ASSUME ~Own(d) PROVE ~Works(d) BY <1>1, <1>3 DEF Owned
<1>4. ~Released(d, loc[c].key) BY <1>2, <1>3 DEF Released, Works, Own
<1>5. ~HasPlace(d, loc[c].key) BY <1>2, <1>3 DEF HasPlace, Works
<1>6. ~Asks(d, loc[c].key) BY <1>2, <1>3 DEF Asks, Works
<1> QED BY <1>4, <1>5, <1>6

\* So its key is in nobody's hands but its own, and the entry counts for it.
LEMMA OwnKey ==
    ASSUME CapInv, KeysApart, NEW c \in Clients, Own(c), NEW k \in Keys, k = loc[c].key
    PROVE  /\ IsPersisted(k) /\ ~Released(c, k) => k \in Confirmed
           /\ OthersKeep(c) /\ ~HasPlace(c, k)' /\ ~Asks(c, k)' /\ (~IsPersisted(k)' \/ Released(c, k)')
                 => k \notin Held'
<1>1. ASSUME IsPersisted(k), ~Released(c, k) PROVE k \in Confirmed
  <2>1. \A d \in Clients : ~Released(d, k) BY <1>1, OnlyOwner
  <2> QED BY <1>1, <2>1 DEF Confirmed, Marked
<1>2. ASSUME OthersKeep(c), ~HasPlace(c, k)', ~Asks(c, k)', ~IsPersisted(k)' \/ Released(c, k)'
      PROVE  k \notin Held'
  <2>1. \A d \in Clients \ {c} : ~HasPlace(d, k)' /\ ~Asks(d, k)'
    BY <1>2, OnlyOwner DEF OthersKeep, HasPlace, Asks
  <2>2. ~Marked(k)' BY <1>2 DEF Marked
  <2> QED BY <1>2, <2>1, <2>2 DEF Held, Confirmed
<1> QED BY <1>1, <1>2

LEMMA PutPlaces ==
    ASSUME CapInv, KeysApart, NEW c \in Clients, PutStep(c)
    PROVE  /\ Moves(c) /\ loc[c].key \in Keys
           /\ Neutral(c) \/ Reserves(c) \/ Grants(c) \/ Returns(c)
<1>f. /\ Owned(c) /\ PlaceFits(c) /\ loc[c] \in Locals /\ tenant = "up" /\ TypeInv
      /\ disk \in [Keys -> Entry \cup {None}]
  BY ClientHas DEF CapInv
<1>1. /\ pc[c] \in {"fetch", "meta", "count", "cap", "refund", "uncount", "qc_put", "disk_put",
                    "disk_write", "index", "hot_delete"}
      /\ Own(c) /\ loc[c].key \in Keys
  <2>1. pc[c] \in {"fetch", "meta", "count", "cap", "refund", "uncount", "qc_put", "disk_put",
                   "disk_write", "index", "hot_delete"}
    BY DEF PutStep, Fetch, PutMeta, PutCount, PutCap, PutRefund, PutUncount, PutQc, PutDrop, PutDisk,
           PutIndex, PutIndexed, PutHot, At
  <2> QED BY <1>f, <2>1, ClientHas DEF Owned, Works, Keyless
<1>k. PICK k \in Keys : k = loc[c].key BY <1>1
<1> USE <1>k
<1>2. UNCHANGED <<scan, tenant>>
  BY DEF PutStep, Fetch, PutMeta, PutCount, PutCap, PutRefund, PutUncount, PutQc, PutDrop, PutDisk,
         PutIndex, PutIndexed, PutHot
<1>3. CASE Fetch(c)
  <2>1. pc[c] = "fetch" /\ UNCHANGED <<disk, count>> BY <1>3 DEF Fetch, At, tiers
  <2>2. \A j \in Keys : ~Released(c, j) BY <2>1 DEF Released
  <2>3. CASE Finish(c) BY <1>1, <1>2, <2>1, <2>2, <2>3, FinishStep
  <2>4. CASE RunAs(c, "meta", [loc[c] EXCEPT !.ver = version])
    <3>1. OthersKeep(c) /\ pc'[c] = "meta" /\ SameWork(c)
      BY <1>f, <2>4, RunAsKeeps DEF SameWork, Locals
    <3> QED BY <1>f, <1>1, <1>2, <2>1, <2>2, <3>1, OnStep DEF Plain, PlaceFits
  <2> QED BY <1>3, <2>3, <2>4 DEF Fetch
<1>4. CASE PutMeta(c)
  <2>1. pc[c] = "meta" /\ UNCHANGED <<disk, count, loc>> BY <1>4 DEF PutMeta, At, tiers
  <2>2. \A j \in Keys : ~Released(c, j) BY <2>1 DEF Released
  <2>3. \/ pc'[c] = "count" /\ ~IsPersisted(k)
        \/ pc'[c] = "uncount" /\ IsPersisted(k) /\ ~loc[c].persist
        \/ pc'[c] = "qc_put" /\ (loc[c].persist => IsPersisted(k))
    BY <1>f, <1>4, GotoKeeps DEF PutMeta
  <2>4. OthersKeep(c) /\ loc'[c] = loc[c] BY <1>f, <1>4, GotoKeeps DEF PutMeta
  <2>5. Moves(c)
    <3>1. Owned(c)' BY <1>f, <1>1, <2>4 DEF Owned, Own
    <3>2. PlaceFits(c)' BY <1>f, <2>1, <2>3, <2>4 DEF PlaceFits, IsPersisted
    <3> QED BY <1>2, <2>1, <2>2, <2>4, <3>1, <3>2 DEF Moves
  <2>6. Neutral(c)
    <3>1. IsPersisted(k) => k \in Confirmed BY <1>1, <2>2, OwnKey
    <3> QED BY <1>1, <2>1, <2>3, <2>4, <3>1 DEF Neutral, HasPlace, Asks
  <2> QED BY <1>1, <2>5, <2>6
<1>5. CASE PutCount(c)
  <2>1. /\ pc[c] = "count" /\ UNCHANGED <<disk, loc>> /\ count' = count + 1
        /\ OthersKeep(c) /\ pc'[c] = "cap" /\ loc'[c] = loc[c]
    BY <1>f, <1>5, GotoKeeps DEF PutCount, At, tiers
  <2>2. \A j \in Keys : ~Released(c, j) BY <2>1 DEF Released
  <2>3. Moves(c)
    <3>1. Owned(c)' BY <1>f, <1>1, <2>1 DEF Owned, Own
    <3>2. PlaceFits(c)' BY <1>f, <2>1 DEF PlaceFits, IsPersisted
    <3> QED BY <1>2, <2>1, <2>2, <3>1, <3>2 DEF Moves
  <2>4. Reserves(c) BY <2>1 DEF Reserves, HasPlace, Asks
  <2> QED BY <1>1, <2>3, <2>4
<1>6. CASE PutCap(c)
  <2>1. /\ pc[c] = "cap" /\ UNCHANGED <<disk, loc, count>> /\ OthersKeep(c) /\ loc'[c] = loc[c]
    BY <1>f, <1>6, GotoKeeps DEF PutCap, At, tiers
  <2>c. PICK cap \in PutCaps : pc'[c] = IF count > cap THEN "refund" ELSE "qc_put"
    BY <1>f, <1>6, GotoKeeps DEF PutCap
  <2>2. \A j \in Keys : ~Released(c, j) BY <2>1 DEF Released
  <2>3. Moves(c)
    <3>1. Owned(c)' BY <1>f, <1>1, <2>1 DEF Owned, Own
    <3>2. PlaceFits(c)' BY <1>f, <2>1, <2>c DEF PlaceFits, IsPersisted
    <3> QED BY <1>2, <2>1, <2>2, <3>1, <3>2 DEF Moves
  <2>4. k \in Held BY <1>1, <2>1 DEF Held, Asks
  <2>5. CASE count > cap
    <3>1. Neutral(c) BY <1>1, <2>1, <2>4, <2>5, <2>c DEF Neutral, HasPlace, Asks
    <3> QED BY <1>1, <2>3, <3>1
  <2>6. CASE ~(count > cap)
    <3>1. cap \in Caps /\ count <= cap BY <2>6, ClientHas, ConstantsAssumption DEF Caps
    <3>2. Grants(c) BY <1>1, <2>1, <2>4, <2>6, <2>c, <3>1 DEF Grants, HasPlace, Asks
    <3> QED BY <1>1, <2>3, <3>2
  <2> QED BY <2>5, <2>6
<1>7. CASE PutRefund(c)
  <2>1. /\ pc[c] = "refund" /\ disk' = disk /\ count' = count - 1
        /\ OthersKeep(c) /\ pc'[c] = "idle" /\ loc'[c] = NoLocals
    BY <1>f, <1>7, FinishKeeps DEF PutRefund, At, tiers
  <2>2. \A j \in Keys : ~Released(c, j) BY <2>1 DEF Released
  <2>3. Moves(c)
    <3>1. Owned(c)' BY <2>1, ClientHas DEF Owned, Works, Own
    <3>2. PlaceFits(c)' BY <2>1 DEF PlaceFits
    <3> QED BY <1>2, <2>1, <2>2, <3>1, <3>2 DEF Moves
  <2>4. k \in Held BY <1>1, <2>1 DEF Held, Asks
  <2>5. \A j \in Keys : ~HasPlace(c, j)' /\ ~Asks(c, j)' BY <2>1 DEF HasPlace, Asks
  <2>6. ~IsPersisted(k)' BY <1>f, <2>1 DEF PlaceFits, IsPersisted
  <2>7. k \notin Held' BY <1>1, <2>1, <2>5, <2>6, OwnKey
  <2>8. Returns(c) BY <2>1, <2>4, <2>5, <2>7 DEF Returns
  <2> QED BY <1>1, <2>3, <2>8
<1>8. CASE PutUncount(c)
  <2>1. /\ pc[c] = "uncount" /\ disk' = disk /\ count' = count - 1
        /\ OthersKeep(c) /\ pc'[c] = "qc_put" /\ loc'[c] = loc[c]
    BY <1>f, <1>8, GotoKeeps DEF PutUncount, At, tiers
  <2>2. \A j \in Keys : ~Released(c, j) BY <2>1 DEF Released
  <2>3. Moves(c)
    <3>1. Owned(c)' BY <1>f, <1>1, <2>1 DEF Owned, Own
    <3>2. PlaceFits(c)' BY <1>f, <2>1 DEF PlaceFits, IsPersisted
    <3> QED BY <1>2, <2>1, <2>2, <3>1, <3>2 DEF Moves
  <2>4. k \in Held BY <1>1, <2>1 DEF Held, Confirmed, HasPlace
  <2>5. ~loc[c].persist /\ loc[c].op \in {"get", "put"} BY <1>f, <2>1 DEF PlaceFits
  <2>6. \A j \in Keys : ~HasPlace(c, j)' /\ ~Asks(c, j)' BY <2>1, <2>5 DEF HasPlace, Asks
  <2>7. Released(c, k)' BY <2>1, <2>5 DEF Released
  <2>8. k \notin Held' BY <1>1, <2>1, <2>6, <2>7, OwnKey
  <2>9. Returns(c) BY <2>1, <2>4, <2>6, <2>8 DEF Returns
  <2> QED BY <1>1, <2>3, <2>9
<1>9. CASE PutQc(c)
  <2>1. /\ pc[c] = "qc_put" /\ UNCHANGED <<disk, count>>
        /\ OthersKeep(c) /\ pc'[c] = "disk_put" /\ loc'[c] = loc[c]
    BY <1>f, <1>9, GotoKeeps DEF PutQc, At
  <2>2. Moves(c)
    <3>1. Owned(c)' BY <1>f, <1>1, <2>1 DEF Owned, Own
    <3>2. PlaceFits(c)' BY <1>f, <2>1 DEF PlaceFits
    <3>3. \A j \in Keys : Released(c, j) => Released(c, j)' BY <2>1 DEF Released
    <3> QED BY <1>2, <2>1, <3>1, <3>2, <3>3 DEF Moves
  <2>3. Neutral(c) BY <2>1 DEF Neutral, HasPlace, Asks, Confirmed
  <2> QED BY <1>1, <2>2, <2>3
<1>10. CASE PutDrop(c)
  <2>1. /\ pc[c] = "disk_put" /\ disk' = [disk EXCEPT ![k] = None] /\ count' = count
        /\ OthersKeep(c) /\ pc'[c] = "disk_write" /\ loc'[c] = loc[c]
    BY <1>f, <1>10, GotoKeeps DEF PutDrop, At
  <2>a. disk'[k] = None /\ \A j \in Keys : disk'[j] = None \/ disk'[j] = disk[j]
    BY <1>f, <1>1, <2>1
  <2>2. Moves(c)
    <3>1. Owned(c)' BY <1>f, <1>1, <2>1 DEF Owned, Own
    <3>2. PlaceFits(c)' BY <1>f, <2>1 DEF PlaceFits
    <3>3. \A j \in Keys : Released(c, j) => ~IsPersisted(j)' BY <2>a DEF Released, IsPersisted
    <3> QED BY <1>2, <2>1, <2>a, <3>1, <3>2, <3>3 DEF Moves
  <2>3. Neutral(c) BY <2>1 DEF Neutral, HasPlace, Asks, Confirmed
  <2> QED BY <1>1, <2>2, <2>3
<1>11. CASE PutDisk(c)
  <2>1. pc[c] = "disk_write" /\ count' = count BY <1>11 DEF PutDisk, At
  <2>2. OthersKeep(c) /\ pc'[c] = "index" /\ SameWork(c)
    BY <1>f, <1>11, RunAsKeeps DEF PutDisk, SameWork, Locals
  <2>3. \A j \in Keys : ~Released(c, j) BY <2>1 DEF Released
  <2>4. \A j \in Keys : \/ disk'[j] = disk[j] \/ disk'[j] = None
                        \/ j = k /\ disk'[j].persist = loc[c].persist
    BY <1>f, <1>1, <1>11 DEF PutDisk
  <2>5. Moves(c)
    <3>1. Owned(c)' BY <1>f, <1>1, <2>2 DEF Owned, Own, SameWork
    <3>2. PlaceFits(c)' BY <2>2 DEF PlaceFits
    <3>3. loc[c].persist => HasPlace(c, k) BY <2>1 DEF HasPlace
    <3> QED BY <1>1, <1>2, <2>2, <2>3, <2>4, <3>1, <3>2, <3>3 DEF Moves
  <2>6. Neutral(c) BY <2>1, <2>2 DEF Neutral, HasPlace, Asks
  <2> QED BY <1>1, <2>5, <2>6
<1>12. CASE PutIndex(c)
  <2>1. pc[c] = "index" /\ UNCHANGED <<disk, count, pc>> BY <1>12 DEF PutIndex, At, tiers
  <2>2. PICK t \in loc[c].todo : loc' = [loc EXCEPT ![c].todo = @ \ {t}] BY <1>12 DEF PutIndex
  <2>3. OthersKeep(c) /\ SameWork(c)
    BY <1>f, <2>1, <2>2 DEF TypeInv, TypeOK, Locals, OthersKeep, SameWork
  <2>4. \A j \in Keys : ~Released(c, j) BY <2>1 DEF Released
  <2> QED BY <1>1, <1>2, <2>1, <2>3, <2>4, OnStep DEF Plain
<1>13. CASE PutIndexed(c)
  <2>1. /\ pc[c] = "index" /\ UNCHANGED <<disk, count>>
        /\ OthersKeep(c) /\ pc'[c] \in {"hot_delete", "ttl"} /\ SameWork(c)
    BY <1>f, <1>13, GotoKeeps DEF PutIndexed, At, tiers, SameWork
  <2>4. \A j \in Keys : ~Released(c, j) BY <2>1 DEF Released
  <2> QED BY <1>1, <1>2, <2>1, <2>4, OnStep DEF Plain
<1>14. CASE PutHot(c)
  <2>1. pc[c] = "hot_delete" /\ UNCHANGED <<disk, count>> /\ Finish(c) BY <1>14 DEF PutHot, At
  <2>2. \A j \in Keys : ~Released(c, j) BY <2>1 DEF Released
  <2> QED BY <1>1, <1>2, <2>1, <2>2, FinishStep
<1> QED
  BY <1>3, <1>4, <1>5, <1>6, <1>7, <1>8, <1>9, <1>10, <1>11, <1>12, <1>13, <1>14 DEF PutStep

LEMMA SetPersistPlaces ==
    ASSUME CapInv, KeysApart, NEW c \in Clients, SetPersistStep(c)
    PROVE  /\ Moves(c) /\ loc[c].key \in Keys
           /\ Neutral(c) \/ Reserves(c) \/ Grants(c) \/ Returns(c)
<1>f. /\ Owned(c) /\ PlaceFits(c) /\ loc[c] \in Locals /\ tenant = "up" /\ TypeInv
      /\ disk \in [Keys -> Entry \cup {None}]
  BY ClientHas DEF CapInv
<1>1. /\ pc[c] \in {"sp_meta", "sp_count", "sp_cap", "sp_set", "sp_clear", "sp_write", "sp_uncount"}
      /\ Own(c) /\ loc[c].key \in Keys
  <2>1. pc[c] \in {"sp_meta", "sp_count", "sp_cap", "sp_set", "sp_clear", "sp_write", "sp_uncount"}
    BY DEF SetPersistStep, SetPersistMeta, SetPersistCount, SetPersistCap, SetPersistDrop,
           SetPersistDisk, SetPersistUncount, At
  <2> QED BY <1>f, <2>1, ClientHas DEF Owned, Works, Keyless
<1>k. PICK k \in Keys : k = loc[c].key BY <1>1
<1> USE <1>k
<1>2. UNCHANGED <<scan, tenant>>
  BY DEF SetPersistStep, SetPersistMeta, SetPersistCount, SetPersistCap, SetPersistDrop,
         SetPersistDisk, SetPersistUncount
<1>3. \A j \in Keys : ~Released(c, j) BY <1>1 DEF Released
<1>4. CASE SetPersistMeta(c)
  <2>1. UNCHANGED <<disk, count>> /\ pc[c] = "sp_meta" BY <1>4 DEF SetPersistMeta, At, tiers
  <2>2. CASE Finish(c) BY <1>1, <1>2, <1>3, <2>1, <2>2, FinishStep
  <2>3. CASE ~Finish(c)
    <3>1. /\ UNCHANGED loc /\ disk[k] # None /\ IsPersisted(k) # loc[c].persist
          /\ Goto(c, IF loc[c].persist THEN "sp_count" ELSE "sp_clear")
      BY <1>4, <2>3 DEF SetPersistMeta
    <3>2. OthersKeep(c) /\ loc'[c] = loc[c] BY <1>f, <3>1, GotoKeeps
    <3>3. \/ pc'[c] = "sp_count" /\ ~IsPersisted(k)
          \/ pc'[c] = "sp_clear" /\ IsPersisted(k)
      <4>1. loc[c].persist \in BOOLEAN /\ IsPersisted(k) \in BOOLEAN BY <1>f DEF Locals, IsPersisted
      <4>2. pc'[c] = IF loc[c].persist THEN "sp_count" ELSE "sp_clear" BY <1>f, <3>1, GotoKeeps
      <4> QED BY <3>1, <4>1, <4>2
    <3>4. Owned(c)' BY <1>f, <1>1, <3>2 DEF Owned, Own
    <3>5. PlaceFits(c)' BY <1>f, <2>1, <3>2, <3>3 DEF PlaceFits, IsPersisted
    <3>6. Moves(c) BY <1>2, <1>3, <2>1, <3>2, <3>4, <3>5 DEF Moves
    <3>7. Neutral(c) BY <2>1, <3>3 DEF Neutral, HasPlace, Asks
    <3> QED BY <1>1, <3>6, <3>7
  <2> QED BY <2>2, <2>3
<1>5. CASE SetPersistCount(c)
  <2>1. /\ pc[c] = "sp_count" /\ disk' = disk /\ count' = count + 1
        /\ OthersKeep(c) /\ pc'[c] = "sp_cap" /\ loc'[c] = loc[c]
    BY <1>f, <1>5, GotoKeeps DEF SetPersistCount, At, tiers
  <2>2. Owned(c)' BY <1>f, <1>1, <2>1 DEF Owned, Own
  <2>3. PlaceFits(c)' BY <1>f, <2>1 DEF PlaceFits, IsPersisted
  <2>4. Moves(c) BY <1>2, <1>3, <2>1, <2>2, <2>3 DEF Moves
  <2>5. Reserves(c) BY <2>1 DEF Reserves, HasPlace, Asks
  <2> QED BY <1>1, <2>4, <2>5
<1>6. CASE SetPersistCap(c)
  <2>1. /\ pc[c] = "sp_cap" /\ UNCHANGED <<disk, count>> /\ OthersKeep(c) /\ loc'[c] = loc[c]
        /\ pc'[c] = IF count > InstanceCap THEN "refund" ELSE "sp_set"
    BY <1>f, <1>6, GotoKeeps DEF SetPersistCap, At, tiers
  <2>2. Owned(c)' BY <1>f, <1>1, <2>1 DEF Owned, Own
  <2>3. PlaceFits(c)' BY <1>f, <2>1 DEF PlaceFits, IsPersisted
  <2>4. Moves(c) BY <1>2, <1>3, <2>1, <2>2, <2>3 DEF Moves
  <2>5. k \in Held BY <2>1 DEF Held, Asks
  <2>6. CASE count > InstanceCap
    <3>1. Neutral(c) BY <2>1, <2>5, <2>6 DEF Neutral, HasPlace, Asks
    <3> QED BY <1>1, <2>4, <3>1
  <2>7. CASE ~(count > InstanceCap)
    <3>1. InstanceCap \in Caps /\ count <= InstanceCap
      BY <1>f, <2>1, <2>7, ClientHas, ConstantsAssumption DEF PlaceFits, Caps
    <3>2. Grants(c) BY <2>1, <2>5, <2>7, <3>1 DEF Grants, HasPlace, Asks
    <3> QED BY <1>1, <2>4, <3>2
  <2> QED BY <2>6, <2>7
<1>7. CASE SetPersistDrop(c)
  <2>1. pc[c] \in {"sp_set", "sp_clear"} /\ count' = count BY <1>7 DEF SetPersistDrop, At
  <2>2. CASE Finish(c) /\ UNCHANGED disk BY <1>1, <1>2, <1>3, <2>1, <2>2, FinishStep
  <2>3. CASE /\ disk[k] # None /\ disk' = [disk EXCEPT ![k] = None]
             /\ RunAs(c, "sp_write", [loc[c] EXCEPT !.ver = disk[k].ver])
    <3>1. OthersKeep(c) /\ pc'[c] = "sp_write" /\ SameWork(c)
      BY <1>f, <2>3, RunAsKeeps DEF SameWork, Locals
    <3>2. Owned(c)' BY <1>f, <1>1, <3>1 DEF Owned, Own, SameWork
    <3>3. PlaceFits(c)' BY <3>1 DEF PlaceFits
    <3>4. \A j \in Keys : disk'[j] = None \/ disk'[j] = disk[j] BY <1>f, <2>3
    <3>5. Moves(c) BY <1>2, <1>3, <3>1, <3>2, <3>3, <3>4 DEF Moves
    <3>6. k \in Confirmed
      <4>1. CASE pc[c] = "sp_set" BY <4>1 DEF Confirmed, HasPlace
      <4>2. CASE pc[c] = "sp_clear"
        <5>1. IsPersisted(k) BY <1>f, <2>3, <4>2 DEF PlaceFits, IsPersisted
        <5> QED BY <1>1, <1>3, <5>1, OwnKey
      <4> QED BY <2>1, <4>1, <4>2
    <3>7. Neutral(c) BY <2>1, <3>1, <3>6 DEF Neutral, HasPlace, Asks, SameWork
    <3> QED BY <1>1, <3>5, <3>7
  <2> QED BY <1>7, <2>2, <2>3 DEF SetPersistDrop
<1>8. CASE SetPersistDisk(c)
  <2>1. pc[c] = "sp_write" /\ count' = count BY <1>8 DEF SetPersistDisk, At
  <2>2. HasPlace(c, k) BY <2>1 DEF HasPlace
  <2>3. k \in Confirmed BY <2>2 DEF Confirmed
  <2>4. \/ Finish(c)
        \/ /\ Goto(c, "sp_uncount") /\ UNCHANGED loc /\ ~loc[c].persist
           /\ disk' = [disk EXCEPT ![k] = [ver |-> loc[c].ver, persist |-> loc[c].persist]]
    BY <1>8 DEF SetPersistDisk
  <2>5. \A j \in Keys : disk'[j] = disk[j] \/ j = k BY <1>f, <1>8 DEF SetPersistDisk
  <2>6. CASE Finish(c)
    <3>1. OthersKeep(c) /\ pc'[c] = "idle" /\ loc'[c] = NoLocals BY <1>f, <2>6, FinishKeeps
    <3>2. Owned(c)' BY <3>1, ClientHas DEF Owned, Works, Own
    <3>3. PlaceFits(c)' BY <3>1 DEF PlaceFits
    <3>4. Moves(c) BY <1>1, <1>2, <1>3, <2>2, <2>5, <3>1, <3>2, <3>3 DEF Moves
    <3>5. Neutral(c) BY <2>1, <3>1 DEF Neutral, HasPlace, Asks
    <3> QED BY <1>1, <3>4, <3>5
  <2>7. CASE ~Finish(c)
    <3>1. OthersKeep(c) /\ pc'[c] = "sp_uncount" /\ loc'[c] = loc[c]
      BY <1>f, <2>4, <2>7, GotoKeeps
    <3>2. Owned(c)' BY <1>f, <1>1, <3>1 DEF Owned, Own
    <3>3. ~disk'[k].persist BY <1>f, <2>4, <2>7
    <3>4. PlaceFits(c)' BY <3>1, <3>3 DEF PlaceFits, IsPersisted
    <3>5. Moves(c) BY <1>1, <1>2, <1>3, <2>2, <2>5, <3>1, <3>2, <3>4 DEF Moves
    <3>6. Neutral(c) BY <2>1, <2>3, <3>1 DEF Neutral, HasPlace, Asks
    <3> QED BY <1>1, <3>5, <3>6
  <2> QED BY <2>6, <2>7
<1>9. CASE SetPersistUncount(c)
  <2>1. /\ pc[c] = "sp_uncount" /\ disk' = disk /\ count' = count - 1
        /\ OthersKeep(c) /\ pc'[c] = "idle" /\ loc'[c] = NoLocals
    BY <1>f, <1>9, FinishKeeps DEF SetPersistUncount, At, tiers
  <2>2. Owned(c)' BY <2>1, ClientHas DEF Owned, Works, Own
  <2>3. PlaceFits(c)' BY <2>1 DEF PlaceFits
  <2>4. Moves(c) BY <1>2, <1>3, <2>1, <2>2, <2>3 DEF Moves
  <2>5. k \in Held BY <2>1 DEF Held, Confirmed, HasPlace
  <2>6. \A j \in Keys : ~HasPlace(c, j)' /\ ~Asks(c, j)' BY <2>1 DEF HasPlace, Asks
  <2>7. ~IsPersisted(k)' BY <1>f, <2>1 DEF PlaceFits, IsPersisted
  <2>8. k \notin Held' BY <1>1, <2>1, <2>6, <2>7, OwnKey
  <2>9. Returns(c) BY <2>1, <2>5, <2>6, <2>8 DEF Returns
  <2> QED BY <1>1, <2>4, <2>9
<1> QED BY <1>4, <1>5, <1>6, <1>7, <1>8, <1>9 DEF SetPersistStep

LEMMA DeletePlaces ==
    ASSUME CapInv, KeysApart, NEW c \in Clients, DeleteStep(c)
    PROVE  /\ Moves(c) /\ loc[c].key \in Keys
           /\ Neutral(c) \/ Reserves(c) \/ Grants(c) \/ Returns(c)
<1>f. Owned(c) /\ PlaceFits(c) /\ loc[c] \in Locals /\ tenant = "up" /\ TypeInv
  BY ClientHas DEF CapInv
<1>1. /\ pc[c] \in {"del_meta", "del_count", "purge_key"}
      /\ Own(c) /\ loc[c].key \in Keys
  <2>1. pc[c] \in {"del_meta", "del_count", "purge_key"}
    BY DEF DeleteStep, DeleteMeta, DeleteCount, PurgeKey, At
  <2> QED BY <1>f, <2>1, ClientHas DEF Owned, Works, Keyless
<1>k. PICK k \in Keys : k = loc[c].key BY <1>1
<1> USE <1>k
<1>2. UNCHANGED <<scan, tenant, disk>>
  BY DEF DeleteStep, DeleteMeta, DeleteCount, PurgeKey, tiers
<1>3. \A j \in Keys : ~Released(c, j) BY <1>1 DEF Released
<1>4. CASE DeleteMeta(c)
  <2>1. /\ pc[c] = "del_meta" /\ count' = count /\ OthersKeep(c) /\ loc'[c] = loc[c]
        /\ pc'[c] = IF IsPersisted(k) THEN "del_count" ELSE "inv_qc"
    BY <1>f, <1>4, GotoKeeps DEF DeleteMeta, At
  <2>2. Owned(c)' BY <1>f, <1>1, <2>1 DEF Owned, Own
  <2>3. PlaceFits(c)' BY <1>f, <2>1 DEF PlaceFits
  <2>4. Moves(c) BY <1>2, <1>3, <2>1, <2>2, <2>3 DEF Moves
  <2>5. IsPersisted(k) => k \in Confirmed BY <1>1, <1>3, OwnKey
  <2>6. Neutral(c) BY <2>1, <2>5 DEF Neutral, HasPlace, Asks
  <2> QED BY <1>1, <2>4, <2>6
<1>5. CASE DeleteCount(c)
  <2>1. /\ pc[c] = "del_count" /\ count' = count - 1 /\ OthersKeep(c) /\ loc'[c] = loc[c]
        /\ pc'[c] = "inv_qc"
    BY <1>f, <1>5, GotoKeeps DEF DeleteCount, At
  <2>2. Owned(c)' BY <1>f, <1>1, <2>1 DEF Owned, Own
  <2>3. PlaceFits(c)' BY <1>f, <2>1 DEF PlaceFits
  <2>4. Moves(c) BY <1>2, <1>3, <2>1, <2>2, <2>3 DEF Moves
  <2>5. k \in Held BY <2>1 DEF Held, Confirmed, HasPlace
  <2>6. \A j \in Keys : ~HasPlace(c, j)' /\ ~Asks(c, j)' BY <2>1 DEF HasPlace, Asks
  <2>7. Released(c, k)' BY <1>f, <2>1 DEF PlaceFits, Released
  <2>8. k \notin Held' BY <1>1, <2>1, <2>6, <2>7, OwnKey
  <2>9. Returns(c) BY <2>1, <2>5, <2>6, <2>8 DEF Returns
  <2> QED BY <1>1, <2>4, <2>9
<1>6. CASE PurgeKey(c)
  <2>1. Finish(c) /\ UNCHANGED count BY <1>6 DEF PurgeKey
  <2> QED BY <1>1, <1>2, <1>3, <2>1, FinishStep
<1> QED BY <1>4, <1>5, <1>6 DEF DeleteStep

LEMMA InvalidatePlaces ==
    ASSUME CapInv, NEW c \in Clients, InvalidateStep(c)
    PROVE  Moves(c) /\ Neutral(c)
<1>f. /\ Owned(c) /\ PlaceFits(c) /\ loc[c] \in Locals /\ tenant = "up" /\ TypeInv
      /\ disk \in [Keys -> Entry \cup {None}]
  BY ClientHas DEF CapInv
<1>1. UNCHANGED <<scan, tenant, count>>
  BY DEF InvalidateStep, Purge, SkipPurge, InvalidateQc, InvalidateDisk, InvalidateHot
<1>2. CASE Purge(c)
  <2>1. pc[c] \in {"purge", "purge_table"} /\ disk' = disk BY <1>2 DEF Purge, At, tiers
  <2>2. \A j \in Keys : ~Released(c, j) BY <2>1 DEF Released
  <2>3. CASE Finish(c) BY <1>1, <2>1, <2>2, <2>3, FinishStep
  <2>4. CASE ~Finish(c)
    <3>1. PICK x \in PurgedKeys(c) :
             RunAs(c, "inv_qc", [loc[c] EXCEPT !.key = x, !.keys = PurgedKeys(c)])
      BY <1>2, <2>4 DEF Purge
    <3>a. /\ OthersKeep(c) /\ pc'[c] = "inv_qc"
          /\ loc'[c] = [loc[c] EXCEPT !.key = x, !.keys = PurgedKeys(c)]
      BY <1>f, <3>1, RunAsKeeps
    <3>2. OthersKeep(c) /\ pc'[c] = "inv_qc" /\ loc'[c].op = "invalidate"
      BY <1>f, <2>1, <3>a DEF PlaceFits, Locals
    <3>3. Owned(c)' BY <3>2 DEF Owned, Works, Own
    <3>4. PlaceFits(c)' BY <3>2 DEF PlaceFits
    <3>5. Moves(c) BY <1>1, <2>1, <2>2, <3>2, <3>3, <3>4 DEF Moves
    <3>6. Neutral(c) BY <1>1, <3>2 DEF Neutral, HasPlace, Asks
    <3> QED BY <3>5, <3>6
  <2> QED BY <2>3, <2>4
<1>3. CASE SkipPurge(c) BY <1>f, <1>3 DEF SkipPurge
<1>4. CASE InvalidateQc(c)
  <2>1. /\ pc[c] = "inv_qc" /\ disk' = disk
        /\ OthersKeep(c) /\ pc'[c] = "inv_disk" /\ loc'[c] = loc[c]
    BY <1>f, <1>4, GotoKeeps DEF InvalidateQc, At
  <2>2. Owned(c)' BY <1>f, <2>1 DEF Owned, Works, Own
  <2>3. PlaceFits(c)' BY <2>1 DEF PlaceFits
  <2>4. \A j \in Keys : Released(c, j) => Released(c, j)' BY <2>1 DEF Released
  <2>5. Moves(c) BY <1>1, <2>1, <2>2, <2>3, <2>4 DEF Moves
  <2>6. Neutral(c) BY <1>1, <2>1 DEF Neutral, HasPlace, Asks
  <2> QED BY <2>5, <2>6
<1>5. CASE InvalidateDisk(c)
  <2>1. pc[c] = "inv_disk" /\ disk' = [disk EXCEPT ![loc[c].key] = None]
    BY <1>5 DEF InvalidateDisk, At
  <2>2. OthersKeep(c) /\ pc'[c] = "inv_hot" /\ SameWork(c)
    BY <1>f, <1>5, RunAsKeeps DEF InvalidateDisk, SameWork, Locals
  <2>3. \A j \in Keys : disk'[j] = disk[j] \/ disk'[j] = None BY <1>f, <2>1
  <2>4. \A j \in Keys : Released(c, j) => ~IsPersisted(j)' BY <1>f, <2>1 DEF Released, IsPersisted
  <2>5. Owned(c)' BY <1>f, <2>2 DEF Owned, Works, Own, SameWork
  <2>6. PlaceFits(c)' BY <2>2 DEF PlaceFits
  <2>7. Moves(c) BY <1>1, <2>2, <2>3, <2>4, <2>5, <2>6 DEF Moves
  <2>8. Neutral(c) BY <1>1, <2>2 DEF Neutral, HasPlace, Asks
  <2> QED BY <2>7, <2>8
<1>6. CASE InvalidateHot(c)
  <2>1. pc[c] = "inv_hot" /\ disk' = disk BY <1>6 DEF InvalidateHot, At
  <2>2. \A j \in Keys : ~Released(c, j) BY <2>1 DEF Released
  <2>3. CASE Finish(c) BY <1>1, <2>1, <2>2, <2>3, FinishStep
  <2>4. CASE ~Finish(c)
    <3>1. \/ Goto(c, "purge_key") /\ UNCHANGED loc /\ loc[c].op = "delete"
          \/ \E x \in Keys : /\ loc[c].op = "invalidate"
                             /\ RunAs(c, "inv_qc", [loc[c] EXCEPT !.key = x])
      BY <1>f, <1>6, <2>4 DEF InvalidateHot, Locals
    <3>2. /\ OthersKeep(c)
          /\ \/ pc'[c] = "purge_key" /\ loc'[c] = loc[c] /\ loc[c].op = "delete"
             \/ pc'[c] = "inv_qc" /\ loc'[c].op = "invalidate"
      <4>1. CASE Goto(c, "purge_key") /\ UNCHANGED loc /\ loc[c].op = "delete"
        BY <1>f, <4>1, GotoKeeps
      <4>2. ASSUME NEW x \in Keys, loc[c].op = "invalidate",
                   RunAs(c, "inv_qc", [loc[c] EXCEPT !.key = x])
            PROVE  OthersKeep(c) /\ pc'[c] = "inv_qc" /\ loc'[c].op = "invalidate"
        <5>1. OthersKeep(c) /\ pc'[c] = "inv_qc" /\ loc'[c] = [loc[c] EXCEPT !.key = x]
          BY <1>f, <4>2, RunAsKeeps
        <5> QED BY <1>f, <4>2, <5>1 DEF Locals
      <4> QED BY <3>1, <4>1, <4>2
    <3>3. Owned(c)' BY <1>f, <3>2 DEF Owned, Works, Own
    <3>4. PlaceFits(c)' BY <3>2 DEF PlaceFits
    <3>5. Moves(c) BY <1>1, <2>1, <2>2, <3>2, <3>3, <3>4 DEF Moves
    <3>6. Neutral(c) BY <1>1, <3>2 DEF Neutral, HasPlace, Asks
    <3> QED BY <3>5, <3>6
  <2> QED BY <2>3, <2>4
<1> QED BY <1>2, <1>3, <1>4, <1>5, <1>6 DEF InvalidateStep

\* How an operation starts.
Starts(c) ==
    /\ OthersKeep(c) /\ UNCHANGED <<disk, scan, tenant, count>> /\ pc[c] = "idle"
    /\ \/ /\ loc'[c].key \in KeysOf[c]
          /\ \/ pc'[c] = "hot_get" /\ loc'[c].op = "get"
             \/ pc'[c] = "fetch" /\ loc'[c].op = "put"
             \/ pc'[c] = "sp_meta" /\ loc'[c].op = "set_persist" /\ "set_persist" \in Ops
             \/ pc'[c] = "del_meta" /\ loc'[c].op = "delete"
       \/ pc'[c] \in {"purge", "purge_table"} /\ loc'[c].op = "invalidate"

LEMMA CallPlaces ==
    ASSUME CapInv, NEW c \in Clients, Call(c)
    PROVE  Moves(c) /\ Neutral(c)
<1>f. TypeInv BY DEF CapInv
<1>1. Starts(c)
  <2>1. CASE Invalidate(c)
    <3>1. PICK ch \in changes, label \in {"purge", "purge_table"} :
            RunAs(c, label, [NoLocals EXCEPT !.op = "invalidate", !.topic = ch.topic, !.ver = ch.ver])
      BY <2>1 DEF Invalidate
    <3>2. /\ OthersKeep(c) /\ pc'[c] = label
          /\ loc'[c] = [NoLocals EXCEPT !.op = "invalidate", !.topic = ch.topic, !.ver = ch.ver]
      BY <1>f, <3>1, RunAsKeeps
    <3>3. loc'[c].op = "invalidate" BY <3>2 DEF NoLocals
    <3> QED BY <2>1, <3>2, <3>3 DEF Invalidate, tiers, Starts
  <2>2. ASSUME NEW k \in Keys, Get(c, k) \/ Put(c, k) \/ SetPersist(c, k) \/ Delete(c, k)
        PROVE  Starts(c)
    <3>1. pc[c] = "idle" /\ k \in KeysOf[c] /\ UNCHANGED <<disk, scan, tenant, count>>
      BY <2>2 DEF Get, Put, SetPersist, Delete, Begin, tiers
    <3>2. CASE Get(c, k)
      <4>1. OthersKeep(c) /\ pc'[c] = "hot_get" /\ loc'[c] = [NoLocals EXCEPT !.op = "get", !.key = k]
        BY <1>f, <3>2, RunAsKeeps DEF Get
      <4> QED BY <3>1, <4>1 DEF NoLocals, Starts
    <3>3. CASE Put(c, k)
      <4>1. PICK b \in Persist :
               RunAs(c, "fetch", [NoLocals EXCEPT !.op = "put", !.key = k, !.persist = b])
        BY <3>3 DEF Put
      <4>2. /\ OthersKeep(c) /\ pc'[c] = "fetch"
            /\ loc'[c] = [NoLocals EXCEPT !.op = "put", !.key = k, !.persist = b]
        BY <1>f, <4>1, RunAsKeeps
      <4> QED BY <3>1, <4>2 DEF NoLocals, Starts
    <3>4. CASE SetPersist(c, k)
      <4>1. PICK b \in BOOLEAN :
               RunAs(c, "sp_meta", [NoLocals EXCEPT !.op = "set_persist", !.key = k, !.persist = b])
        BY <3>4 DEF SetPersist
      <4>2. /\ OthersKeep(c) /\ pc'[c] = "sp_meta"
            /\ loc'[c] = [NoLocals EXCEPT !.op = "set_persist", !.key = k, !.persist = b]
        BY <1>f, <4>1, RunAsKeeps
      <4>3. "set_persist" \in Ops BY <3>4 DEF SetPersist, Begin
      <4> QED BY <3>1, <4>2, <4>3 DEF NoLocals, Starts
    <3>5. CASE Delete(c, k)
      <4>1. /\ OthersKeep(c) /\ pc'[c] = "del_meta"
            /\ loc'[c] = [NoLocals EXCEPT !.op = "delete", !.key = k, !.keys = {k}]
        BY <1>f, <3>5, RunAsKeeps DEF Delete
      <4> QED BY <3>1, <4>1 DEF NoLocals, Starts
    <3> QED BY <2>2, <3>2, <3>3, <3>4, <3>5
  <2> QED BY <2>1, <2>2 DEF Call
<1>2. Owned(c)' BY <1>1 DEF Starts, Owned, Works, Own
<1>3. PlaceFits(c)' BY <1>1 DEF Starts, PlaceFits
<1>4. \A j \in Keys : ~Released(c, j) BY <1>1 DEF Starts, Released
<1> QED BY <1>1, <1>2, <1>3, <1>4, PlainStep DEF Starts, Plain

\* Evictions, commits and stuttering: entries can only go.
LEMMA StillPlaces ==
    ASSUME CapInv, UNCHANGED <<scan, tenant, count, pc, loc>>,
           \A j \in Keys : disk'[j] = None \/ disk'[j] = disk[j]
    PROVE  Running' /\ WellPlaced' /\ CountHolds' /\ CapHolds'
<1>1. Running' BY DEF CapInv, Running
<1>2. ASSUME NEW c \in Clients PROVE Owned(c)' /\ PlaceFits(c)'
  <2>1. Owned(c) /\ PlaceFits(c) /\ pc'[c] = pc[c] /\ loc'[c] = loc[c] BY ClientHas
  <2>2. Owned(c)' BY <2>1 DEF Owned, Works, Own
  <2>3. pc[c] \notin Keyless => loc[c].key \in Keys BY ClientHas
  <2>4. PlaceFits(c)' BY <2>1, <2>3 DEF PlaceFits, IsPersisted, Keyless
  <2> QED BY <2>2, <2>4
<1>3. \A c \in Clients, j \in Keys :
         /\ Released(c, j)' <=> Released(c, j)
         /\ HasPlace(c, j)' <=> HasPlace(c, j)
         /\ Asks(c, j)' <=> Asks(c, j)
  BY DEF Released, HasPlace, Asks
<1>4. \A j \in Keys : Marked(j)' => Marked(j) BY <1>3 DEF Marked, IsPersisted
<1>5. Confirmed' \in SUBSET Confirmed BY <1>3, <1>4 DEF Confirmed
<1>6. Held' \in SUBSET Held BY <1>3, <1>5 DEF Held
<1>7. Held \in SUBSET Keys /\ Confirmed \in SUBSET Keys /\ Held' \in SUBSET Keys
      /\ Confirmed' \in SUBSET Keys
  BY DEF Held, Confirmed
<1>8. /\ Cardinality(Held') <= Cardinality(Held) /\ Cardinality(Confirmed') <= Cardinality(Confirmed)
      /\ Cardinality(Held) \in Nat /\ Cardinality(Confirmed) \in Nat
      /\ Cardinality(Held') \in Nat /\ Cardinality(Confirmed') \in Nat
  BY <1>5, <1>6, <1>7, Counted
<1>9. count \in Int /\ Caps \subseteq Nat BY ConstantsAssumption DEF CapInv, TypeInv, TypeOK, Caps
<1> QED BY <1>1, <1>2, <1>8, <1>9 DEF CapInv, WellPlaced, CountHolds, CapHolds

LEMMA BackgroundPlaces ==
    ASSUME CapInv, KeysApart, Background
    PROVE  Running' /\ WellPlaced' /\ CountHolds' /\ CapHolds'
<1>1. PICK k \in Keys : QcDrop(k) \/ DiskDrop(k) \/ HotDrop(k)
  BY DEF Background, Rebuild, TenantDown, TenantUp, KeysApart, CapInv, Running
<1>2. UNCHANGED <<scan, tenant, count, pc, loc>> BY <1>1 DEF QcDrop, DiskDrop, HotDrop
<1>3. \A j \in Keys : disk'[j] = None \/ disk'[j] = disk[j]
  BY <1>1 DEF QcDrop, DiskDrop, HotDrop, CapInv, TypeInv, TypeOK
<1> QED BY <1>2, <1>3, StillPlaces

-----------------------------------------------------------------------------
\* So CapInv holds throughout.
LEMMA CapInvariant == ASSUME KeysApart PROVE Spec => []CapInv
<1>1. ASSUME Init, TypeInv PROVE CapInv
  <2>1. Running BY <1>1 DEF Init, Running
  <2>2. ASSUME NEW c \in Clients PROVE Owned(c) /\ PlaceFits(c)
    <3>1. pc[c] = "idle" /\ loc[c] = NoLocals BY <1>1 DEF Init
    <3>2. NoLocals.op \notin {"get", "put", "set_persist", "delete"}
      BY ConstantsAssumption DEF NoLocals, OpNames
    <3> QED BY <3>1, <3>2 DEF Owned, Works, Own, PlaceFits
  <2>3. Held = {} /\ Confirmed = {} BY <1>1 DEF Init, Held, Confirmed, Marked, IsPersisted, HasPlace, Asks
  <2>4. Cardinality({}) = 0 BY FS_EmptySet
  <2>5. CountHolds BY <1>1, <2>3, <2>4 DEF Init, CountHolds
  <2>6. CapHolds
    <3>1. PICK cap \in PutCaps : cap \in Nat BY ConstantsAssumption
    <3> QED BY <2>3, <2>4, <3>1 DEF CapHolds, Caps
  <2> QED BY <1>1, <2>1, <2>2, <2>5, <2>6 DEF CapInv, WellPlaced
<1>2. CapInv /\ TypeInv' /\ [Next]_vars => CapInv'
  <2> SUFFICES ASSUME CapInv, [Next]_vars PROVE Running' /\ WellPlaced' /\ CountHolds' /\ CapHolds'
    BY DEF CapInv
  <2>1. ASSUME NEW c \in Clients, Call(c) PROVE Running' /\ WellPlaced' /\ CountHolds' /\ CapHolds'
    BY <2>1, CallPlaces, Accounts
  <2>2. ASSUME NEW c \in Clients, Step(c) PROVE Running' /\ WellPlaced' /\ CountHolds' /\ CapHolds'
    <3>1. CASE GetStep(c) \/ InvalidateStep(c)
      <4>1. Moves(c) /\ Neutral(c) BY <3>1, GetPlaces, InvalidatePlaces
      <4> QED BY <4>1, Accounts
    <3>2. CASE PutStep(c) \/ SetPersistStep(c) \/ DeleteStep(c)
      <4>1. /\ Moves(c) /\ loc[c].key \in Keys
            /\ Neutral(c) \/ Reserves(c) \/ Grants(c) \/ Returns(c)
        BY <3>2, PutPlaces, SetPersistPlaces, DeletePlaces
      <4> QED BY <4>1, Accounts
    <3> QED BY <2>2, <3>1, <3>2 DEF Step
  <2>3. ASSUME NEW t \in Topics, Commit(t) PROVE Running' /\ WellPlaced' /\ CountHolds' /\ CapHolds'
    <3>1. UNCHANGED <<disk, scan, tenant, count, pc, loc>> BY <2>3 DEF Commit, tiers
    <3> QED BY <3>1, StillPlaces
  <2>4. CASE Background BY <2>4, BackgroundPlaces
  <2>5. CASE UNCHANGED vars
    <3>1. UNCHANGED <<disk, scan, tenant, count, pc, loc>> BY <2>5 DEF vars, tiers
    <3> QED BY <3>1, StillPlaces
  <2> QED BY <2>1, <2>2, <2>3, <2>4, <2>5 DEF Next
<1> QED BY <1>1, <1>2, TypeInvariant, PTL DEF Spec

\* However many fills, rewarms, set_persist calls and deletes of different keys
\* run at once, with WAL invalidations, evictions and failed writes among them:
\* the entries marked persist are never more than the largest cap the counter is
\* compared with.  That is the tenant's own cap in an instance where every put
\* passes it and nobody calls set_persist; where somebody does, the instance's
\* counts as well.  Every entry went through such a compare after its own
\* increment, and the counter never falls below the places that are taken.
THEOREM CapNeverExceeded == ASSUME KeysApart PROVE Spec => []PersistWithinCap
<1>1. ASSUME CapInv PROVE PersistWithinCap
  <2> DEFINE S == {k \in Persisted : \A c \in Clients : ~Released(c, k)}
  <2>1. S \in SUBSET Confirmed /\ Confirmed \in SUBSET Keys BY DEF Persisted, Confirmed, Marked
  <2>2. Cardinality(S) <= Cardinality(Confirmed) /\ Cardinality(S) \in Nat
        /\ Cardinality(Confirmed) \in Nat
    <3>1. S \in SUBSET Keys BY <2>1
    <3> HIDE DEF S
    <3> QED BY <2>1, <3>1, Counted
  <2>3. PICK cap \in Caps : Cardinality(Confirmed) <= cap /\ cap \in Nat
    BY <1>1, ConstantsAssumption DEF CapInv, CapHolds, Caps
  <2>4. Cardinality(S) <= cap
    <3> HIDE DEF S
    <3> QED BY <2>2, <2>3
  <2> QED BY <2>4 DEF PersistWithinCap
<1> QED BY <1>1, CapInvariant, PTL

\* What a tenant may rely on: its own cap, as long as every put passes it and
\* nobody calls set_persist, which does not ask for it (cache.ex:241).
THEOREM TenantCapHeld ==
    ASSUME KeysApart, "set_persist" \notin Ops, NEW CONSTANT cap, PutCaps = {cap}
    PROVE  Spec => [](Cardinality({k \in Persisted : \A c \in Clients : ~Released(c, k)}) <= cap)
<1>1. PersistWithinCap => Cardinality({k \in Persisted : \A c \in Clients : ~Released(c, k)}) <= cap
  BY DEF PersistWithinCap, Caps
<1> QED BY <1>1, CapNeverExceeded, PTL

\* Once the operations have ended, the counter behind persist_count/2 is never
\* below the number of persisted entries, whatever interleaved before: a place
\* under the cap can be lost to an invalidation, never given out twice.
THEOREM CountNeverShort == ASSUME KeysApart PROVE Spec => []CountCoversPersisted
<1>1. ASSUME CapInv, Quiet PROVE count >= Cardinality(Persisted)
  <2>1. \A c \in Clients, k \in Keys : ~Released(c, k) BY <1>1 DEF Quiet, Released
  <2>2. Persisted \in SUBSET Held /\ Held \in SUBSET Keys /\ Persisted \in SUBSET Keys
    BY <2>1 DEF Persisted, Held, Confirmed, Marked
  <2>3. /\ Cardinality(Persisted) <= Cardinality(Held)
        /\ Cardinality(Persisted) \in Nat /\ Cardinality(Held) \in Nat
    BY <2>2, Counted
  <2>4. Cardinality(Held) <= count /\ count \in Int
    BY <1>1 DEF CapInv, CountHolds, TypeInv, TypeOK
  <2> QED BY <2>3, <2>4
<1>2. CapInv => CountCoversPersisted BY <1>1 DEF CountCoversPersisted
<1> QED BY <1>2, CapInvariant, PTL
=============================================================================
