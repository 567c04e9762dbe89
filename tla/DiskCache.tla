----------------------------- MODULE DiskCache -----------------------------
(***************************************************************************)
(* The disk cache process of one tenant (Restdis.Cache.DiskCache): a       *)
(* FeoxDB store, and in the process's memory the eviction index ordered by *)
(* the time of writing, the set of persisted keys and the tally of bytes   *)
(* that is held against the tenant's cap.  Calls are served one at a time, *)
(* so each call is one action.                                             *)
(*                                                                         *)
(* The store reaches the disk in the background.  When the process stops   *)
(* it closes the store, which writes the rest; when the machine or the VM  *)
(* dies, each key is left with what had been written of it.  The time of   *)
(* writing is Erlang's monotonic clock, which starts over with the VM,     *)
(* and is stored with the entry.                                           *)
(*                                                                         *)
(* A definition named Faulty<X> is <X> with a plausible bug in it: the     *)
(* README says which property each of them breaks.  Nothing here uses it.  *)
(***************************************************************************)
EXTENDS Integers, FiniteSetsExt

CONSTANTS
    Keys,        \* cache keys
    KeyOrder,    \* KeyOrder[k]: k's place in the order of Erlang terms
    Sizes,       \* how many blocks an entry may take
    Cap,         \* the cap, in blocks
    Events,      \* the calls and events of this instance, besides put
    MaxWrites,   \* bound: how many puts there are
    None         \* "no entry"

EventNames == {"write_error", "set_persist", "delete", "flush", "ttl",
               "restart", "vm_restart", "vm_crash"}

Entry == [val : 1 .. MaxWrites, size : Sizes, persist : BOOLEAN, at : Nat, ttl : BOOLEAN]

ASSUME ConstantsAssumption ==
    /\ IsFiniteSet(Keys) /\ KeyOrder \in [Keys -> Int]
    /\ \A j, k \in Keys : KeyOrder[j] = KeyOrder[k] => j = k
    /\ Sizes \subseteq Nat /\ Cap \in Nat /\ MaxWrites \in Nat
    /\ Events \subseteq EventNames
    /\ None \notin Entry /\ None \notin [val : 1 .. MaxWrites, persist : BOOLEAN]

VARIABLES
    store,       \* what FeoxDB answers
    durable,     \* what of it is on disk
    evictIdx,    \* evict_idx: pairs <<inserted_at, key>>
    persistKeys, \* persist_keys
    bytes,       \* bytes
    mono,        \* the monotonic clock
    writes,      \* how many puts there have been: the value of the last one
    over         \* the puts whose TTL has run out

index == <<evictIdx, persistKeys, bytes>>
dcvars == <<store, durable, evictIdx, persistKeys, bytes, mono, writes, over>>

TypeOK ==
    /\ store \in [Keys -> Entry \cup {None}]
    /\ durable \in [Keys -> Entry \cup {None}]
    /\ evictIdx \subseteq Nat \X Keys
    /\ persistKeys \subseteq Keys
    /\ bytes \in Nat
    /\ mono \in Nat /\ writes \in 0 .. MaxWrites /\ over \subseteq 1 .. MaxWrites

\* What callers see of the entries of a store.
Items(s) == [k \in Keys |-> IF s[k] = None THEN None
                            ELSE [val |-> s[k].val, persist |-> s[k].persist]]

Init ==
    /\ store = [k \in Keys |-> None] /\ durable = store
    /\ evictIdx = {} /\ persistKeys = {} /\ bytes = 0
    /\ mono = 0 /\ writes = 0 /\ over = {}

Monus(a, b) == IF a > b THEN a - b ELSE 0

(***************************************************************************)
(* The process's memory as a record, so that drop_entry, write_entry and   *)
(* evict_over_cap are functions on it.                                     *)
(***************************************************************************)
State == [store |-> store, evictIdx |-> evictIdx, persistKeys |-> persistKeys, bytes |-> bytes]
Become(s) ==
    /\ store' = s.store /\ evictIdx' = s.evictIdx
    /\ persistKeys' = s.persistKeys /\ bytes' = s.bytes

\* the flag was changed in between: the pair of the old flag stays behind
FaultyDropEntry(s, k) ==
    LET e == s.store[k] IN
    IF e = None THEN s
    ELSE [store       |-> [s.store EXCEPT ![k] = None],
          evictIdx    |-> s.evictIdx,
          persistKeys |-> s.persistKeys \ {k},
          bytes       |-> Monus(s.bytes, e.size)]

\* remove_from_index takes the flag and the time of the entry found in the store.
DropEntry(s, k) ==
    LET e == s.store[k] IN
    IF e = None THEN s
    ELSE [store       |-> [s.store EXCEPT ![k] = None],
          evictIdx    |-> IF e.persist THEN s.evictIdx ELSE s.evictIdx \ {<<e.at, k>>},
          persistKeys |-> IF e.persist THEN s.persistKeys \ {k} ELSE s.persistKeys,
          bytes       |-> Monus(s.bytes, e.size)]

AddEntry(s, k, e) ==
    [store       |-> [s.store EXCEPT ![k] = e],
     evictIdx    |-> IF e.persist THEN s.evictIdx ELSE s.evictIdx \cup {<<e.at, k>>},
     persistKeys |-> IF e.persist THEN s.persistKeys \cup {k} ELSE s.persistKeys \ {k},
     bytes       |-> s.bytes + e.size]

WriteEntry(s, k, e) == AddEntry(DropEntry(s, k), k, e)

\* Order of evict_idx: by time of writing, then by key.
Before(p, q) == p[1] < q[1] \/ (p[1] = q[1] /\ KeyOrder[p[2]] < KeyOrder[q[2]])

SizeOf(s, E) == SumFunction([p \in E |-> IF s.store[p[2]] = None THEN 0 ELSE s.store[p[2]].size])

\* the most recent write goes first
FaultyEvicted(s, E) ==
    /\ E \subseteq s.evictIdx
    /\ \A p \in E, q \in s.evictIdx \ E : Before(q, p)
    /\ Monus(s.bytes, SizeOf(s, E)) <= Cap \/ E = s.evictIdx
    /\ \A p \in E : (\A q \in E : q = p \/ Before(p, q)) =>
          Monus(s.bytes, SizeOf(s, E \ {p})) > Cap

\* do_evict_over_cap takes the smallest pair for as long as the tally is over
\* the cap: E is the shortest prefix of the index whose removal is enough, or
\* the whole index.
Evicted(s, E) ==
    /\ E \subseteq s.evictIdx
    /\ \A p \in E, q \in s.evictIdx \ E : Before(p, q)
    /\ Monus(s.bytes, SizeOf(s, E)) <= Cap \/ E = s.evictIdx
    /\ \A p \in E : (\A q \in E : q = p \/ Before(q, p)) =>
          Monus(s.bytes, SizeOf(s, E \ {p})) > Cap

EvictOverCap(s, E) ==
    [store       |-> [k \in Keys |-> IF \E p \in E : p[2] = k THEN None ELSE s.store[k]],
     evictIdx    |-> s.evictIdx \ E,
     persistKeys |-> s.persistKeys,
     bytes       |-> Monus(s.bytes, SizeOf(s, E))]

(***************************************************************************)
(* The calls.                                                              *)
(***************************************************************************)
NewEntry(n, p, t) == [val |-> writes + 1, size |-> n, persist |-> p, at |-> mono, ttl |-> t]

\* room is made before the entry is written
FaultyPut(k) ==
    /\ writes < MaxWrites
    /\ writes' = writes + 1 /\ mono' = mono + 1
    /\ \E n \in Sizes, p \in BOOLEAN, t \in {b \in BOOLEAN : b => "ttl" \in Events} :
          \E E \in SUBSET evictIdx :
              /\ Evicted(State, E)
              /\ Become(WriteEntry(EvictOverCap(State, E), k, NewEntry(n, p, t)))
    /\ UNCHANGED <<durable, over>>

\* {:put, ...}: write_entry, then evict_over_cap.  No two puts are taken in the
\* same tick of the clock.
Put(k) ==
    /\ writes < MaxWrites
    /\ writes' = writes + 1 /\ mono' = mono + 1
    /\ \E n \in Sizes, p \in BOOLEAN, t \in {b \in BOOLEAN : b => "ttl" \in Events} :
          LET s == WriteEntry(State, k, NewEntry(n, p, t)) IN
          \E E \in SUBSET s.evictIdx : Evicted(s, E) /\ Become(EvictOverCap(s, E))
    /\ UNCHANGED <<durable, over>>

Delete(k) ==
    /\ "delete" \in Events
    /\ Become(DropEntry(State, k))
    /\ UNCHANGED <<durable, mono, writes, over>>

\* A put or a set_persist whose write fails has dropped the entry.
WriteFails(k) ==
    /\ "write_error" \in Events
    /\ Become(DropEntry(State, k))
    /\ UNCHANGED <<durable, mono, writes, over>>

\* {:set_persist, ...} rewrites the entry with the same time; it does not evict.
SetPersist(k) ==
    /\ "set_persist" \in Events /\ store[k] # None
    /\ \E p \in BOOLEAN : Become(WriteEntry(State, k, [store[k] EXCEPT !.persist = p]))
    /\ UNCHANGED <<durable, mono, writes, over>>

\* {:get, ...} of an entry past its TTL removes it.
Expire(k) ==
    /\ store[k] # None /\ store[k].val \in over
    /\ Become(DropEntry(State, k))
    /\ UNCHANGED <<durable, mono, writes, over>>

\* :flush drops every key the index knows, and clears the tally.
Indexed == {p[2] : p \in evictIdx} \cup persistKeys
Flush ==
    /\ "flush" \in Events
    /\ store' = [k \in Keys |-> IF k \in Indexed THEN None ELSE store[k]]
    /\ evictIdx' = {p \in evictIdx : store[p[2]] = None \/ store[p[2]].persist \/ p[1] # store[p[2]].at}
    /\ persistKeys' = {k \in persistKeys : store[k] = None \/ ~store[k].persist}
    /\ bytes' = 0
    /\ UNCHANGED <<durable, mono, writes, over>>

(***************************************************************************)
(* The clock, the background writer, and the ends of the process.          *)
(***************************************************************************)
TtlRunsOut(v) ==
    /\ v \notin over
    /\ \E k \in Keys : \E e \in {store[k], durable[k]} : e # None /\ e.ttl /\ e.val = v
    /\ over' = over \cup {v}
    /\ UNCHANGED <<store, index, durable, mono, writes>>

\* What is on disk matters to an instance with VM crashes only.
WriteBack(k) ==
    /\ "vm_crash" \in Events /\ durable[k] # store[k]
    /\ durable' = [durable EXCEPT ![k] = store[k]]
    /\ UNCHANGED <<store, index, mono, writes, over>>

\* expired entries are left out of the tally
FaultyOpen(s) ==
    /\ store' = s
    /\ evictIdx' = {<<s[k].at, k>> : k \in {x \in Keys : s[x] # None /\ ~s[x].persist}}
    /\ persistKeys' = {k \in Keys : s[k] # None /\ s[k].persist}
    /\ bytes' = SumFunction([k \in {x \in Keys : s[x] # None /\ s[x].val \notin over} |-> s[k].size])

\* rebuild_index, over what the store holds when it is opened
Open(s) ==
    /\ store' = s
    /\ evictIdx' = {<<s[k].at, k>> : k \in {x \in Keys : s[x] # None /\ ~s[x].persist}}
    /\ persistKeys' = {k \in Keys : s[k] # None /\ s[k].persist}
    /\ bytes' = SumFunction([k \in {x \in Keys : s[x] # None} |-> s[k].size])

\* terminate closes the store, a new process opens it
Reopen == durable' = (IF "vm_crash" \in Events THEN store ELSE durable) /\ Open(store)

Restart ==
    /\ "restart" \in Events /\ Reopen
    /\ UNCHANGED <<mono, writes, over>>

VmRestart ==
    /\ "vm_restart" \in Events /\ Reopen /\ mono' = 0
    /\ UNCHANGED <<writes, over>>

VmCrash ==
    /\ "vm_crash" \in Events
    /\ Open(durable) /\ mono' = 0
    /\ UNCHANGED <<durable, writes, over>>

Next == \/ \E k \in Keys : \/ Put(k) \/ Delete(k) \/ WriteFails(k) \/ SetPersist(k)
                           \/ Expire(k) \/ WriteBack(k)
        \/ Flush \/ Restart \/ VmRestart \/ VmCrash
        \/ \E v \in 1 .. MaxWrites : TtlRunsOut(v)

Spec == Init /\ [][Next]_dcvars
-----------------------------------------------------------------------------
(***************************************************************************)
(* Properties.                                                             *)
(***************************************************************************)
Unpersisted == {k \in Keys : store[k] # None /\ ~store[k].persist}
Persisted == {k \in Keys : store[k] # None /\ store[k].persist}

\* The index and the store agree after any sequence of puts, overwrites, flag
\* changes, failed writes, expiries, evictions and restarts: every entry is
\* either in the eviction index, once, at the time stored with it, or among
\* the persisted keys, and neither knows a key that is gone.  Otherwise an
\* entry could never be evicted or flushed, or one marked persist could be.
IndexAgrees ==
    /\ evictIdx = {<<store[k].at, k>> : k \in Unpersisted}
    /\ persistKeys = Persisted

\* The tally the cap is enforced with is the size of what the store holds.
BytesExact == bytes = SumFunction([k \in Unpersisted \cup Persisted |-> store[k].size])

\* A put leaves the tenant within its cap, unless nothing but persisted
\* entries is left.  (README: "Past 500 MB per tenant".)
PutKeepsCap == [][writes' # writes => bytes' <= Cap \/ evictIdx' = {}]_dcvars

\* What a put evicts was written before everything that is left and could have
\* been evicted.  (README: "oldest written goes first".)
EvictsOldest ==
    [][writes' # writes =>
          \A j \in Unpersisted : store'[j] = None =>
              \A k \in Unpersisted' : store[j].val < store'[k].val]_dcvars

\* The index, the cap and the restarts are invisible but for what DiskStore
\* allows: the disk cache implements it.
DS == INSTANCE DiskStore WITH content <- Items(store), saved <- Items(durable), Values <- 1 .. MaxWrites
ImplementsDiskStore == DS!Spec
=============================================================================
