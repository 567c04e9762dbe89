-------------------------- MODULE DiskCacheProofs --------------------------
(***************************************************************************)
(* Theorems about DiskCache, for any keys, sizes, cap and events.          *)
(***************************************************************************)
EXTENDS DiskCache, FiniteSums, TLAPS

Stores == [Keys -> Entry \cup {None}]

\* s is the memory of a process whose index agrees with its store.
Agree(s) ==
    /\ s.store \in Stores
    /\ s.evictIdx \subseteq Nat \X Keys
    /\ \A n \in Nat, k \in Keys :
          <<n, k>> \in s.evictIdx <=> s.store[k] # None /\ ~s.store[k].persist /\ s.store[k].at = n
    /\ s.persistKeys = {k \in Keys : s.store[k] # None /\ s.store[k].persist}

\* The inductive invariant.
DiskInv ==
    /\ Agree(State)
    /\ durable \in Stores
    /\ mono \in Nat /\ writes \in 0 .. MaxWrites

LEMMA StateFields ==
    /\ State.store = store /\ State.evictIdx = evictIdx
    /\ State.persistKeys = persistKeys /\ State.bytes = bytes
BY DEF State

LEMMA DropAgrees ==
    ASSUME NEW s, Agree(s), NEW k \in Keys
    PROVE  /\ Agree(DropEntry(s, k))
           /\ DropEntry(s, k).store = [s.store EXCEPT ![k] = None]
<1>1. CASE s.store[k] = None
  <2>1. [s.store EXCEPT ![k] = None] = s.store BY <1>1 DEF Agree, Stores
  <2> QED BY <1>1, <2>1 DEF DropEntry
<1>2. CASE s.store[k] # None
  <2> DEFINE d == DropEntry(s, k)
  <2>1. /\ d.store = [s.store EXCEPT ![k] = None]
        /\ d.evictIdx = IF s.store[k].persist THEN s.evictIdx
                        ELSE s.evictIdx \ {<<s.store[k].at, k>>}
        /\ d.persistKeys = IF s.store[k].persist THEN s.persistKeys \ {k} ELSE s.persistKeys
    BY <1>2 DEF DropEntry
  <2>2. s.store[k] \in Entry BY <1>2 DEF Agree, Stores
  <2> HIDE DEF d
  <2>3. d.store \in Stores BY <2>1 DEF Agree, Stores
  <2>4. d.evictIdx \subseteq Nat \X Keys BY <2>1 DEF Agree
  <2>5. ASSUME NEW n \in Nat, NEW x \in Keys
        PROVE  <<n, x>> \in d.evictIdx <=> d.store[x] # None /\ ~d.store[x].persist /\ d.store[x].at = n
    BY <2>1, <2>2 DEF Agree, Stores, Entry
  <2>6. d.persistKeys = {x \in Keys : d.store[x] # None /\ d.store[x].persist}
    BY <2>1, <2>2 DEF Agree, Stores, Entry
  <2> QED BY <2>1, <2>3, <2>4, <2>5, <2>6 DEF Agree, d
<1> QED BY <1>1, <1>2

LEMMA WriteAgrees ==
    ASSUME NEW s, Agree(s), NEW k \in Keys, NEW e \in Entry
    PROVE  /\ Agree(WriteEntry(s, k, e))
           /\ WriteEntry(s, k, e).store = [s.store EXCEPT ![k] = e]
<1> DEFINE d == DropEntry(s, k)
           w == WriteEntry(s, k, e)
<1>1. Agree(d) /\ d.store = [s.store EXCEPT ![k] = None] BY DropAgrees
<1>2. /\ w.store = [d.store EXCEPT ![k] = e]
      /\ w.evictIdx = IF e.persist THEN d.evictIdx ELSE d.evictIdx \cup {<<e.at, k>>}
      /\ w.persistKeys = IF e.persist THEN d.persistKeys \cup {k} ELSE d.persistKeys \ {k}
  BY DEF WriteEntry, AddEntry
<1> HIDE DEF d, w
<1>3. w.store = [s.store EXCEPT ![k] = e] BY <1>1, <1>2 DEF Agree, Stores
<1>4. w.store \in Stores BY <1>1, <1>2 DEF Agree, Stores
<1>5. e.at \in Nat /\ e # None /\ e.persist \in BOOLEAN BY ConstantsAssumption DEF Entry
<1>6. w.evictIdx \subseteq Nat \X Keys BY <1>1, <1>2, <1>5 DEF Agree
<1>7. ASSUME NEW n \in Nat, NEW x \in Keys
      PROVE  <<n, x>> \in w.evictIdx <=> w.store[x] # None /\ ~w.store[x].persist /\ w.store[x].at = n
  BY <1>1, <1>2, <1>5 DEF Agree, Stores
<1>8. w.persistKeys = {x \in Keys : w.store[x] # None /\ w.store[x].persist}
  BY <1>1, <1>2, <1>5 DEF Agree, Stores
<1> QED BY <1>3, <1>4, <1>6, <1>7, <1>8 DEF Agree, w

\* t is s with some entries evicted, none of them persisted.
WithoutSome(s, t) ==
    \E D \in SUBSET {k \in Keys : s.store[k] # None /\ ~s.store[k].persist} :
        t.store = [k \in Keys |-> IF k \in D THEN None ELSE s.store[k]]

LEMMA EvictAgrees ==
    ASSUME NEW s, Agree(s), NEW E, E \subseteq s.evictIdx
    PROVE  /\ Agree(EvictOverCap(s, E))
           /\ WithoutSome(s, EvictOverCap(s, E))
<1> DEFINE v == EvictOverCap(s, E)
           D == {k \in Keys : \E p \in E : p[2] = k}
<1>1. /\ v.store = [k \in Keys |-> IF k \in D THEN None ELSE s.store[k]]
      /\ v.evictIdx = s.evictIdx \ E
      /\ v.persistKeys = s.persistKeys
  BY DEF EvictOverCap
<1> HIDE DEF v
<1>2. \A k \in Keys : k \in D <=> \E n \in Nat : <<n, k>> \in E
  <2> TAKE k \in Keys
  <2>1. \A p \in E : p = <<p[1], p[2]>> /\ p[1] \in Nat BY DEF Agree
  <2>2. ASSUME NEW n \in Nat, <<n, k>> \in E PROVE k \in D
    <3>1. <<n, k>>[2] = k OBVIOUS
    <3> QED BY <2>2, <3>1
  <2> QED BY <2>1, <2>2
<1> HIDE DEF D
<1>3. \A k \in Keys : k \in D => s.store[k] # None /\ ~s.store[k].persist
  BY <1>2 DEF Agree
<1>4. v.store \in Stores BY <1>1 DEF Agree, Stores
<1>5. v.evictIdx \subseteq Nat \X Keys BY <1>1 DEF Agree
<1>6. ASSUME NEW n \in Nat, NEW x \in Keys
      PROVE  <<n, x>> \in v.evictIdx <=> v.store[x] # None /\ ~v.store[x].persist /\ v.store[x].at = n
  BY <1>1, <1>2 DEF Agree
<1>7. v.persistKeys = {x \in Keys : v.store[x] # None /\ v.store[x].persist}
  BY <1>1, <1>3 DEF Agree
<1>8. Agree(v) BY <1>4, <1>5, <1>6, <1>7 DEF Agree
<1>9. D \cap Keys \in SUBSET {k \in Keys : s.store[k] # None /\ ~s.store[k].persist} BY <1>3
<1>10. v.store = [k \in Keys |-> IF k \in D \cap Keys THEN None ELSE s.store[k]] BY <1>1
<1> QED BY <1>8, <1>9, <1>10 DEF v, WithoutSome

LEMMA AgreeMeans == Agree(State) <=>
    /\ store \in Stores
    /\ evictIdx \subseteq Nat \X Keys
    /\ \A n \in Nat, k \in Keys :
          <<n, k>> \in evictIdx <=> store[k] # None /\ ~store[k].persist /\ store[k].at = n
    /\ persistKeys = {k \in Keys : store[k] # None /\ store[k].persist}
BY StateFields DEF Agree

\* A process whose memory becomes s, or that opens the store s.
LEMMA BecomeAgrees == ASSUME NEW s, Agree(s), Become(s) PROVE Agree(State)'
<1>1. /\ State'.store = store' /\ State'.evictIdx = evictIdx'
      /\ State'.persistKeys = persistKeys' BY DEF State
<1> QED BY <1>1 DEF Become, Agree

LEMMA OpenAgrees == ASSUME NEW s \in Stores, Open(s) PROVE Agree(State)'
<1>1. /\ store' = s
      /\ evictIdx' = {<<s[k].at, k>> : k \in {x \in Keys : s[x] # None /\ ~s[x].persist}}
      /\ persistKeys' = {k \in Keys : s[k] # None /\ s[k].persist}
  BY DEF Open
<1>2. /\ State'.store = store' /\ State'.evictIdx = evictIdx'
      /\ State'.persistKeys = persistKeys' BY DEF State
<1>3. \A k \in Keys : s[k] # None => s[k].at \in Nat BY DEF Stores, Entry
<1>4. evictIdx' \subseteq Nat \X Keys BY <1>1, <1>3
<1>5. ASSUME NEW n \in Nat, NEW x \in Keys
      PROVE  <<n, x>> \in evictIdx' <=> s[x] # None /\ ~s[x].persist /\ s[x].at = n
  BY <1>1
<1> QED BY <1>1, <1>2, <1>4, <1>5 DEF Agree

-----------------------------------------------------------------------------
(***************************************************************************)
(* What each call does to the store, and that it keeps the invariant.      *)
(***************************************************************************)
PutStore(k, e) ==
    \E D \in SUBSET {x \in Keys : IF x = k THEN ~e.persist ELSE store[x] # None /\ ~store[x].persist} :
        store' = [x \in Keys |-> CASE x \in D -> None
                                   [] x \notin D /\ x = k -> e
                                   [] OTHER -> store[x]]

LEMMA NewEntryType ==
    ASSUME DiskInv, writes < MaxWrites, NEW n \in Sizes, NEW p \in BOOLEAN, NEW t \in BOOLEAN
    PROVE  NewEntry(n, p, t) \in Entry
BY ConstantsAssumption DEF DiskInv, NewEntry, Entry

LEMMA PutKeeps ==
    ASSUME DiskInv, NEW k \in Keys, Put(k)
    PROVE  DiskInv' /\ \E e \in Entry : PutStore(k, e)
<1>1. PICK n \in Sizes, p \in BOOLEAN, t \in BOOLEAN :
         \E E \in SUBSET WriteEntry(State, k, NewEntry(n, p, t)).evictIdx :
             Become(EvictOverCap(WriteEntry(State, k, NewEntry(n, p, t)), E))
  BY DEF Put
<1> DEFINE e == NewEntry(n, p, t)
           w == WriteEntry(State, k, e)
<1>2. writes < MaxWrites /\ writes' = writes + 1 /\ mono' = mono + 1 /\ durable' = durable
  BY DEF Put
<1>3. e \in Entry BY <1>2, NewEntryType
<1>4. Agree(w) /\ w.store = [store EXCEPT ![k] = e]
  BY <1>3, WriteAgrees, StateFields DEF DiskInv
<1>5. PICK E : E \subseteq w.evictIdx /\ Become(EvictOverCap(w, E)) BY <1>1
<1> HIDE DEF e, w
<1>6. /\ Agree(EvictOverCap(w, E))
      /\ WithoutSome(w, EvictOverCap(w, E))
  BY <1>4, <1>5, EvictAgrees
<1>7. Agree(State)' BY <1>5, <1>6, BecomeAgrees
<1>8. PICK D \in SUBSET {x \in Keys : w.store[x] # None /\ ~w.store[x].persist} :
         store' = [x \in Keys |-> IF x \in D THEN None ELSE w.store[x]]
  BY <1>5, <1>6 DEF Become, WithoutSome
<1>9. store \in Stores BY AgreeMeans DEF DiskInv
<1>10. /\ D \in SUBSET {x \in Keys : IF x = k THEN ~e.persist ELSE store[x] # None /\ ~store[x].persist}
       /\ store' = [x \in Keys |-> CASE x \in D -> None
                                     [] x \notin D /\ x = k -> e
                                     [] OTHER -> store[x]]
  BY <1>4, <1>8, <1>9 DEF Stores
<1>11. PutStore(k, e) BY <1>10 DEF PutStore
<1>12. DiskInv' BY <1>2, <1>7, ConstantsAssumption DEF DiskInv
<1> QED BY <1>3, <1>11, <1>12

LEMMA DropKeeps ==
    ASSUME DiskInv, NEW k \in Keys, Become(DropEntry(State, k)), UNCHANGED <<durable, mono, writes>>
    PROVE  DiskInv' /\ store' = [store EXCEPT ![k] = None]
<1>1. Agree(DropEntry(State, k)) /\ DropEntry(State, k).store = [store EXCEPT ![k] = None]
  BY DropAgrees, StateFields DEF DiskInv
<1>2. Agree(State)' BY <1>1, BecomeAgrees
<1> QED BY <1>1, <1>2 DEF Become, DiskInv

LEMMA SetPersistKeeps ==
    ASSUME DiskInv, NEW k \in Keys, SetPersist(k)
    PROVE  /\ DiskInv'
           /\ store[k] # None
           /\ \E p \in BOOLEAN : store' = [store EXCEPT ![k] = [store[k] EXCEPT !.persist = p]]
<1>1. PICK p \in BOOLEAN : Become(WriteEntry(State, k, [store[k] EXCEPT !.persist = p]))
  BY DEF SetPersist
<1> DEFINE e == [store[k] EXCEPT !.persist = p]
<1>2. store[k] # None /\ store[k] \in Entry BY AgreeMeans DEF SetPersist, DiskInv, Stores
<1>3. e \in Entry BY <1>2 DEF Entry
<1>4. Agree(WriteEntry(State, k, e)) /\ WriteEntry(State, k, e).store = [store EXCEPT ![k] = e]
  BY <1>3, WriteAgrees, StateFields DEF DiskInv
<1>5. Agree(State)' BY <1>1, <1>4, BecomeAgrees
<1>6. store' = [store EXCEPT ![k] = e] BY <1>1, <1>4 DEF Become
<1>7. DiskInv' BY <1>5 DEF DiskInv, SetPersist
<1> QED BY <1>2, <1>6, <1>7

LEMMA FlushKeeps ==
    ASSUME DiskInv, Flush
    PROVE  DiskInv' /\ store' = [k \in Keys |-> None]
<1>1. /\ store \in Stores
      /\ evictIdx \subseteq Nat \X Keys
      /\ \A n \in Nat, k \in Keys :
            <<n, k>> \in evictIdx <=> store[k] # None /\ ~store[k].persist /\ store[k].at = n
      /\ persistKeys = {k \in Keys : store[k] # None /\ store[k].persist}
  BY AgreeMeans DEF DiskInv
<1>2. ASSUME NEW k \in Keys, store[k] # None PROVE k \in Indexed
  <2>1. CASE store[k].persist BY <1>1, <1>2, <2>1 DEF Indexed
  <2>2. CASE ~store[k].persist
    <3>1. store[k].at \in Nat BY <1>1, <1>2 DEF Stores, Entry
    <3>2. <<store[k].at, k>> \in evictIdx BY <1>1, <1>2, <2>2, <3>1
    <3>3. <<store[k].at, k>>[2] = k OBVIOUS
    <3> QED BY <3>2, <3>3 DEF Indexed
  <2> QED BY <2>1, <2>2
<1>3. store' = [k \in Keys |-> None] BY <1>2 DEF Flush
<1>4. ASSUME NEW p \in evictIdx' PROVE FALSE
  <2>1. /\ p \in evictIdx
        /\ store[p[2]] = None \/ store[p[2]].persist \/ p[1] # store[p[2]].at
    BY <1>4 DEF Flush
  <2>2. p = <<p[1], p[2]>> /\ p[1] \in Nat /\ p[2] \in Keys BY <1>1, <2>1
  <2> QED BY <1>1, <2>1, <2>2
<1>5. persistKeys' = {} BY <1>1 DEF Flush
<1>6. /\ State'.store = store' /\ State'.evictIdx = evictIdx'
      /\ State'.persistKeys = persistKeys' BY DEF State
<1>7. Agree(State)' BY <1>3, <1>4, <1>5, <1>6 DEF Agree, Stores
<1> QED BY <1>3, <1>7 DEF DiskInv, Flush

LEMMA ReopenKeeps ==
    ASSUME DiskInv, Reopen, mono' \in Nat, UNCHANGED writes
    PROVE  DiskInv' /\ store' = store /\ (durable' = store \/ durable' = durable)
<1>1. store \in Stores /\ Open(store) BY AgreeMeans DEF DiskInv, Reopen
<1>2. Agree(State)' /\ store' = store BY <1>1, OpenAgrees DEF Open
<1>3. durable' = store \/ durable' = durable BY DEF Reopen
<1> QED BY <1>1, <1>2, <1>3 DEF DiskInv

LEMMA VmCrashKeeps ==
    ASSUME DiskInv, VmCrash
    PROVE  DiskInv' /\ store' = durable /\ durable' = durable
<1>1. durable \in Stores /\ Open(durable) BY DEF DiskInv, VmCrash
<1>2. Agree(State)' /\ store' = durable BY <1>1, OpenAgrees DEF Open
<1> QED BY <1>1, <1>2 DEF DiskInv, VmCrash

LEMMA WriteBackKeeps ==
    ASSUME DiskInv, NEW k \in Keys, WriteBack(k)
    PROVE  DiskInv' /\ store' = store /\ durable' = [durable EXCEPT ![k] = store[k]]
<1>1. State' = State BY DEF WriteBack, index, State
<1>2. Agree(State)' BY <1>1 DEF DiskInv
<1>3. durable' \in Stores BY AgreeMeans DEF DiskInv, WriteBack, Stores
<1> QED BY <1>2, <1>3 DEF DiskInv, WriteBack

LEMMA IdleKeeps ==
    ASSUME DiskInv, UNCHANGED <<store, index, durable, mono, writes>>
    PROVE  DiskInv'
<1>1. State' = State BY DEF index, State
<1> QED BY <1>1 DEF DiskInv

-----------------------------------------------------------------------------
LEMMA InvInit == Init => DiskInv
<1> SUFFICES ASSUME Init PROVE DiskInv OBVIOUS
<1>1. Agree(State) BY AgreeMeans DEF Init, Stores
<1> QED BY <1>1, ConstantsAssumption DEF Init, Stores, DiskInv

LEMMA InvNext == DiskInv /\ [Next]_dcvars => DiskInv'
<1> SUFFICES ASSUME DiskInv, [Next]_dcvars PROVE DiskInv' OBVIOUS
<1>1. ASSUME NEW k \in Keys, Put(k) PROVE DiskInv' BY <1>1, PutKeeps
<1>2. ASSUME NEW k \in Keys, Delete(k) PROVE DiskInv' BY <1>2, DropKeeps DEF Delete
<1>3. ASSUME NEW k \in Keys, WriteFails(k) PROVE DiskInv' BY <1>3, DropKeeps DEF WriteFails
<1>4. ASSUME NEW k \in Keys, SetPersist(k) PROVE DiskInv' BY <1>4, SetPersistKeeps
<1>5. ASSUME NEW k \in Keys, Expire(k) PROVE DiskInv' BY <1>5, DropKeeps DEF Expire
<1>6. ASSUME NEW k \in Keys, WriteBack(k) PROVE DiskInv' BY <1>6, WriteBackKeeps
<1>7. CASE Flush BY <1>7, FlushKeeps
<1>8. CASE Restart BY <1>8, ReopenKeeps DEF Restart, DiskInv
<1>9. CASE VmRestart BY <1>9, ReopenKeeps DEF VmRestart
<1>10. CASE VmCrash BY <1>10, VmCrashKeeps
<1>11. ASSUME NEW v \in 1 .. MaxWrites, TtlRunsOut(v) PROVE DiskInv'
  BY <1>11, IdleKeeps DEF TtlRunsOut
<1>12. CASE UNCHANGED dcvars BY <1>12, IdleKeeps DEF dcvars, index
<1> QED BY <1>1, <1>2, <1>3, <1>4, <1>5, <1>6, <1>7, <1>8, <1>9, <1>10, <1>11, <1>12 DEF Next

LEMMA Invariant == Spec => []DiskInv
BY InvInit, InvNext, PTL DEF Spec

LEMMA InvAgrees == DiskInv => IndexAgrees
<1> SUFFICES ASSUME DiskInv PROVE IndexAgrees OBVIOUS
<1>1. /\ store \in Stores
      /\ evictIdx \subseteq Nat \X Keys
      /\ \A n \in Nat, k \in Keys :
            <<n, k>> \in evictIdx <=> store[k] # None /\ ~store[k].persist /\ store[k].at = n
      /\ persistKeys = {k \in Keys : store[k] # None /\ store[k].persist}
  BY AgreeMeans DEF DiskInv
<1>2. \A k \in Keys : store[k] # None => store[k].at \in Nat BY <1>1 DEF Stores, Entry
<1>3. ASSUME NEW p \in evictIdx PROVE p \in {<<store[k].at, k>> : k \in Unpersisted}
  <2>1. p = <<p[1], p[2]>> /\ p[1] \in Nat /\ p[2] \in Keys BY <1>1
  <2> QED BY <1>1, <2>1 DEF Unpersisted
<1>4. {<<store[k].at, k>> : k \in Unpersisted} \subseteq evictIdx BY <1>1, <1>2 DEF Unpersisted
<1> QED BY <1>1, <1>3, <1>4 DEF IndexAgrees, Persisted

\* For any keys, sizes, cap and events: after any sequence of calls, failed
\* writes, restarts and crashes the index of the disk cache agrees with its
\* store.
THEOREM IndexAlwaysAgrees == Spec => []IndexAgrees
BY Invariant, InvAgrees, PTL

-----------------------------------------------------------------------------
(***************************************************************************)
(* The disk cache implements DiskStore.                                    *)
(***************************************************************************)
LEMMA ItemsType ==
    ASSUME NEW s \in Stores, NEW k \in Keys, s[k] # None
    PROVE  /\ Items(s)[k] = [val |-> s[k].val, persist |-> s[k].persist]
           /\ Items(s)[k] \in DS!Item /\ Items(s)[k] # None
BY ConstantsAssumption DEF Items, Stores, Entry, DS!Item

LEMMA PutMaps ==
    ASSUME DiskInv, NEW k \in Keys, NEW e \in Entry, PutStore(k, e), durable' = durable
    PROVE  DS!Next
<1> DEFINE i == [val |-> e.val, persist |-> e.persist]
<1>1. i \in DS!Item BY DEF Entry, DS!Item
<1>2. store \in Stores BY AgreeMeans DEF DiskInv
<1>3. PICK D \in SUBSET {x \in Keys : IF x = k THEN ~e.persist ELSE store[x] # None /\ ~store[x].persist} :
         store' = [x \in Keys |-> CASE x \in D -> None
                                    [] x \notin D /\ x = k -> e
                                    [] OTHER -> store[x]]
  BY DEF PutStore
<1>4. D \in SUBSET DS!Droppable(k, i)
  <2> SUFFICES ASSUME NEW x \in D PROVE x \in DS!Droppable(k, i) OBVIOUS
  <2>1. x \in Keys /\ IF x = k THEN ~e.persist ELSE store[x] # None /\ ~store[x].persist BY <1>3
  <2>2. ASSUME store[x] # None
        PROVE  Items(store)[x] # None /\ Items(store)[x].persist = store[x].persist
    <3>1. /\ Items(store)[x] = [val |-> store[x].val, persist |-> store[x].persist]
          /\ Items(store)[x] # None
      BY <1>2, <2>1, <2>2, ItemsType
    <3> QED BY <3>1
  <2>3. i.persist = e.persist OBVIOUS
  <2> QED BY <2>1, <2>2, <2>3 DEF DS!Droppable
<1>5. e # None BY ConstantsAssumption
<1>6. Items(store') = [x \in Keys |-> CASE x \in D -> None
                                       [] x \notin D /\ x = k -> i
                                       [] OTHER -> Items(store)[x]]
  BY <1>3, <1>5 DEF Items
<1>7. DS!Put(k, i) BY <1>4, <1>6 DEF DS!Put
<1> QED BY <1>1, <1>7 DEF DS!Next

LEMMA RemoveMaps ==
    ASSUME DiskInv, NEW k \in Keys, store' = [store EXCEPT ![k] = None], durable' = durable
    PROVE  DS!Next
<1>1. store \in Stores BY AgreeMeans DEF DiskInv
<1>2. Items(store') = [Items(store) EXCEPT ![k] = None] BY <1>1 DEF Items, Stores
<1> QED BY <1>2 DEF DS!Next, DS!Remove

LEMMA SetPersistMaps ==
    ASSUME DiskInv, NEW k \in Keys, SetPersist(k)
    PROVE  DS!Next
<1>1. PICK p \in BOOLEAN : store' = [store EXCEPT ![k] = [store[k] EXCEPT !.persist = p]]
  BY SetPersistKeeps
<1>2. store \in Stores /\ store[k] # None BY AgreeMeans, SetPersistKeeps DEF DiskInv
<1>3. store[k] \in Entry BY <1>2 DEF Stores
<1>4. [store[k] EXCEPT !.persist = p] \in Entry BY <1>3 DEF Entry
<1>5. [store[k] EXCEPT !.persist = p] # None BY <1>4, ConstantsAssumption
<1>6. Items(store)[k] = [val |-> store[k].val, persist |-> store[k].persist] BY <1>2, ItemsType
<1>7. [Items(store)[k] EXCEPT !.persist = p] = [val |-> store[k].val, persist |-> p] BY <1>6
<1>8. /\ [store[k] EXCEPT !.persist = p].val = store[k].val
      /\ [store[k] EXCEPT !.persist = p].persist = p
  BY <1>3 DEF Entry
<1>9. Items(store') = [Items(store) EXCEPT ![k] = [val |-> store[k].val, persist |-> p]]
  BY <1>1, <1>2, <1>5, <1>8 DEF Items, Stores
<1>10. [Items(store) EXCEPT ![k].persist = p] = [Items(store) EXCEPT ![k] = [val |-> store[k].val, persist |-> p]]
  BY <1>7
<1>11. Items(store)[k] # None BY <1>2, ItemsType
<1>12. durable' = durable BY DEF SetPersist
<1> QED BY <1>9, <1>10, <1>11, <1>12 DEF DS!Next, DS!SetPersist

LEMMA ReopenMaps ==
    ASSUME store' = store, durable' = store \/ durable' = durable
    PROVE  DS!Next \/ UNCHANGED DS!dsvars
<1>1. CASE durable' = store BY <1>1 DEF DS!Next, DS!Close
<1>2. CASE durable' = durable BY <1>2 DEF DS!dsvars
<1> QED BY <1>1, <1>2

LEMMA WriteBackMaps ==
    ASSUME DiskInv, NEW k \in Keys, WriteBack(k)
    PROVE  DS!Next
<1>1. durable \in Stores BY DEF DiskInv
<1>2. store' = store /\ durable' = [durable EXCEPT ![k] = store[k]] BY WriteBackKeeps
<1>3. Items(durable') = [Items(durable) EXCEPT ![k] = Items(store)[k]] BY <1>1, <1>2 DEF Items, Stores
<1> QED BY <1>2, <1>3 DEF DS!Next, DS!Save

LEMMA StepMaps == DiskInv /\ [Next]_dcvars => [DS!Next]_(DS!dsvars)
<1> SUFFICES ASSUME DiskInv, [Next]_dcvars PROVE DS!Next \/ UNCHANGED DS!dsvars OBVIOUS
<1>1. ASSUME NEW k \in Keys, Put(k) PROVE DS!Next
  BY <1>1, PutKeeps, PutMaps DEF Put
<1>2. ASSUME NEW k \in Keys, Delete(k) PROVE DS!Next BY <1>2, DropKeeps, RemoveMaps DEF Delete
<1>3. ASSUME NEW k \in Keys, WriteFails(k) PROVE DS!Next
  BY <1>3, DropKeeps, RemoveMaps DEF WriteFails
<1>4. ASSUME NEW k \in Keys, SetPersist(k) PROVE DS!Next BY <1>4, SetPersistMaps
<1>5. ASSUME NEW k \in Keys, Expire(k) PROVE DS!Next BY <1>5, DropKeeps, RemoveMaps DEF Expire
<1>6. ASSUME NEW k \in Keys, WriteBack(k) PROVE DS!Next BY <1>6, WriteBackMaps
<1>7. CASE Flush
  <2>1. store' = [k \in Keys |-> None] /\ durable' = durable BY <1>7, FlushKeeps DEF Flush
  <2> QED BY <2>1 DEF Items, DS!Next, DS!Flush
<1>8. CASE Restart BY <1>8, ReopenKeeps, ReopenMaps DEF Restart, DiskInv
<1>9. CASE VmRestart BY <1>9, ReopenKeeps, ReopenMaps DEF VmRestart
<1>10. CASE VmCrash BY <1>10, VmCrashKeeps DEF DS!Next, DS!Crash
<1>11. ASSUME NEW v \in 1 .. MaxWrites, TtlRunsOut(v) PROVE UNCHANGED DS!dsvars
  BY <1>11 DEF TtlRunsOut, DS!dsvars
<1>12. CASE UNCHANGED dcvars BY <1>12 DEF dcvars, DS!dsvars
<1> QED BY <1>1, <1>2, <1>3, <1>4, <1>5, <1>6, <1>7, <1>8, <1>9, <1>10, <1>11, <1>12 DEF Next

\* For any keys, sizes, cap and events: whatever the index, the cap and the
\* restarts do, callers see a store that behaves as DiskStore says.  In
\* particular no put ever evicts a persisted entry.
THEOREM Implements == Spec => ImplementsDiskStore
<1>1. Init => DS!Init BY DEF Init, DS!Init, Items
<1> QED BY <1>1, Invariant, StepMaps, PTL DEF Spec, ImplementsDiskStore, DS!Spec

-----------------------------------------------------------------------------
(***************************************************************************)
(* Oldest first, for as long as the clock does not start over.             *)
(***************************************************************************)
OneClock == "vm_restart" \notin Events /\ "vm_crash" \notin Events

\* Entries are stamped in the order they are put.
Stamped(s, n) ==
    /\ \A k \in Keys : s[k] # None => s[k].val = s[k].at + 1 /\ s[k].val <= n
    /\ \A j, k \in Keys : s[j] # None /\ s[k] # None /\ s[j].val = s[k].val => j = k

ClockInv == DiskInv /\ mono = writes /\ Stamped(store, writes)


\* The two halves of a put: the entry written, and the pairs evicted after it.
LEMMA PutDetail ==
    ASSUME DiskInv, NEW k \in Keys, Put(k)
    PROVE  \E e, w :
             /\ e \in Entry
             /\ e.at = mono /\ e.val = writes + 1
             /\ Agree(w) /\ w.store = [store EXCEPT ![k] = e]
             /\ \E E \in SUBSET w.evictIdx :
                   /\ Evicted(w, E)
                   /\ store' = [x \in Keys |-> IF \E p \in E : p[2] = x THEN None ELSE w.store[x]]
<1>1. PICK n \in Sizes, p \in BOOLEAN, t \in BOOLEAN :
         \E E \in SUBSET WriteEntry(State, k, NewEntry(n, p, t)).evictIdx :
             /\ Evicted(WriteEntry(State, k, NewEntry(n, p, t)), E)
             /\ Become(EvictOverCap(WriteEntry(State, k, NewEntry(n, p, t)), E))
  BY DEF Put
<1> DEFINE e == NewEntry(n, p, t)
           w == WriteEntry(State, k, e)
<1>2. writes < MaxWrites BY DEF Put
<1>3. e \in Entry BY <1>2, NewEntryType
<1>4. e.at = mono /\ e.val = writes + 1 BY DEF NewEntry
<1>5. Agree(w) /\ w.store = [store EXCEPT ![k] = e]
  BY <1>3, WriteAgrees, StateFields DEF DiskInv
<1>6. PICK E \in SUBSET w.evictIdx : Evicted(w, E) /\ Become(EvictOverCap(w, E)) BY <1>1
<1> HIDE DEF e, w
<1>7. store' = [x \in Keys |-> IF \E q \in E : q[2] = x THEN None ELSE w.store[x]]
  BY <1>6 DEF Become, EvictOverCap
<1> QED BY <1>3, <1>4, <1>5, <1>6, <1>7

LEMMA ClockPut ==
    ASSUME ClockInv, NEW k \in Keys, Put(k)
    PROVE  Stamped(store', writes')
<1>1. DiskInv /\ mono = writes /\ writes \in Nat /\ mono \in Nat
  BY ConstantsAssumption DEF ClockInv, DiskInv
<1>2. PICK e, w :
         /\ e \in Entry
         /\ e.at = mono /\ e.val = writes + 1
         /\ Agree(w) /\ w.store = [store EXCEPT ![k] = e]
         /\ \E E \in SUBSET w.evictIdx :
               /\ Evicted(w, E)
               /\ store' = [x \in Keys |-> IF \E p \in E : p[2] = x THEN None ELSE w.store[x]]
  BY <1>1, PutDetail
<1>3. writes' = writes + 1 BY DEF Put
<1>4. store \in Stores BY <1>1, AgreeMeans DEF DiskInv
<1>5. \A x \in Keys : store'[x] # None => store'[x] = w.store[x] BY <1>2
<1>6. \A x \in Keys : w.store[x] = IF x = k THEN e ELSE store[x] BY <1>2, <1>4 DEF Stores
<1>7. \A x \in Keys : store[x] # None => store[x].val \in Nat /\ store[x].val <= writes
  BY <1>4 DEF ClockInv, Stamped, Stores, Entry
<1>8. ASSUME NEW x \in Keys, store'[x] # None
      PROVE  store'[x].val = store'[x].at + 1 /\ store'[x].val <= writes'
  BY <1>1, <1>2, <1>3, <1>5, <1>6, <1>7, <1>8 DEF ClockInv, Stamped
<1>9. ASSUME NEW x \in Keys, NEW y \in Keys, store'[x] # None, store'[y] # None,
             store'[x].val = store'[y].val
      PROVE  x = y
  <2>1. CASE x = k BY <1>1, <1>2, <1>5, <1>6, <1>7, <1>9, <2>1 DEF ClockInv, Stamped
  <2>2. CASE y = k BY <1>1, <1>2, <1>5, <1>6, <1>7, <1>9, <2>2 DEF ClockInv, Stamped
  <2>3. CASE x # k /\ y # k BY <1>5, <1>6, <1>9, <2>3 DEF ClockInv, Stamped
  <2> QED BY <2>1, <2>2, <2>3
<1> QED BY <1>8, <1>9 DEF Stamped

LEMMA ClockDrop ==
    ASSUME NEW s \in Stores, NEW n, Stamped(s, n), NEW k \in Keys
    PROVE  Stamped([s EXCEPT ![k] = None], n)
BY DEF Stamped, Stores

LEMMA ClockNext == ASSUME OneClock PROVE ClockInv /\ [Next]_dcvars => ClockInv'
<1> SUFFICES ASSUME ClockInv, [Next]_dcvars PROVE ClockInv' OBVIOUS
<1>0. DiskInv /\ DiskInv' /\ mono = writes /\ Stamped(store, writes) BY InvNext DEF ClockInv
<1>1. store \in Stores BY <1>0, AgreeMeans DEF DiskInv
<1>2. ASSUME NEW k \in Keys, store' = [store EXCEPT ![k] = None], mono' = mono, writes' = writes
      PROVE  ClockInv'
  BY <1>0, <1>1, <1>2, ClockDrop DEF ClockInv
<1>3. ASSUME store' = store, mono' = mono, writes' = writes PROVE ClockInv'
  BY <1>0, <1>3 DEF ClockInv
<1>4. ASSUME NEW k \in Keys, Put(k) PROVE ClockInv'
  <2>1. Stamped(store', writes') BY <1>4, ClockPut
  <2>2. mono' = writes' BY <1>0, <1>4 DEF Put
  <2> QED BY <1>0, <2>1, <2>2 DEF ClockInv
<1>5. ASSUME NEW k \in Keys, Delete(k) \/ WriteFails(k) \/ Expire(k) PROVE ClockInv'
  BY <1>0, <1>2, <1>5, DropKeeps DEF Delete, WriteFails, Expire
<1>6. ASSUME NEW k \in Keys, SetPersist(k) PROVE ClockInv'
  <2>1. PICK p \in BOOLEAN : store' = [store EXCEPT ![k] = [store[k] EXCEPT !.persist = p]]
    BY <1>0, <1>6, SetPersistKeeps
  <2>2. store[k] # None BY <1>6 DEF SetPersist
  <2>3. store[k] \in Entry BY <1>1, <2>2 DEF Stores
  <2>4. store'[k].val = store[k].val /\ store'[k].at = store[k].at
    BY <1>1, <2>1, <2>3 DEF Stores, Entry
  <2>5. \A x \in Keys \ {k} : store'[x] = store[x] BY <1>1, <2>1 DEF Stores
  <2>6. Stamped(store', writes) BY <1>0, <2>2, <2>4, <2>5 DEF Stamped
  <2> QED BY <1>0, <1>6, <2>6 DEF ClockInv, SetPersist
<1>7. ASSUME NEW k \in Keys, WriteBack(k) PROVE ClockInv' BY <1>3, <1>7 DEF WriteBack
<1>8. CASE Flush
  <2>1. store' = [k \in Keys |-> None] BY <1>0, <1>8, FlushKeeps
  <2>2. Stamped(store', writes) BY <2>1 DEF Stamped
  <2> QED BY <1>0, <1>8, <2>2 DEF ClockInv, Flush
<1>9. CASE Restart BY <1>3, <1>9 DEF Restart, Reopen, Open
<1>10. ~VmRestart /\ ~VmCrash BY OneClock DEF OneClock, VmRestart, VmCrash
<1>11. ASSUME NEW v \in 1 .. MaxWrites, TtlRunsOut(v) PROVE ClockInv'
  BY <1>3, <1>11 DEF TtlRunsOut
<1>12. CASE UNCHANGED dcvars BY <1>3, <1>12 DEF dcvars
<1> QED BY <1>4, <1>5, <1>6, <1>7, <1>8, <1>9, <1>10, <1>11, <1>12 DEF Next

LEMMA ClockInit == Init => ClockInv
BY InvInit DEF Init, ClockInv, Stamped

LEMMA OldestNext == ClockInv /\ [Next]_dcvars /\ writes' # writes =>
    \A j \in Unpersisted : store'[j] = None => \A k \in Unpersisted' : store[j].val < store'[k].val
<1> SUFFICES ASSUME ClockInv, [Next]_dcvars, writes' # writes,
                    NEW j \in Unpersisted, store'[j] = None, NEW k \in Unpersisted'
             PROVE  store[j].val < store'[k].val
  OBVIOUS
<1>0. DiskInv /\ mono = writes /\ Stamped(store, writes) BY DEF ClockInv
<1>1. PICK x \in Keys : Put(x)
  BY DEF Next, Delete, WriteFails, SetPersist, Expire, WriteBack, Flush, Restart, VmRestart,
         VmCrash, TtlRunsOut, dcvars
<1>2. PICK e, w :
         /\ e \in Entry
         /\ e.at = mono /\ e.val = writes + 1
         /\ Agree(w) /\ w.store = [store EXCEPT ![x] = e]
         /\ \E E \in SUBSET w.evictIdx :
               /\ Evicted(w, E)
               /\ store' = [y \in Keys |-> IF \E p \in E : p[2] = y THEN None ELSE w.store[y]]
  BY <1>0, <1>1, PutDetail
<1>3. PICK E \in SUBSET w.evictIdx :
         /\ \A p \in E, q \in w.evictIdx \ E : Before(p, q)
         /\ store' = [y \in Keys |-> IF \E p \in E : p[2] = y THEN None ELSE w.store[y]]
  BY <1>2 DEF Evicted
<1>4. store \in Stores BY <1>0, AgreeMeans DEF DiskInv
<1>5. j \in Keys /\ store[j] # None /\ k \in Keys /\ store'[k] # None /\ ~store'[k].persist
  BY DEF Unpersisted
<1>6. /\ w.store \in Stores
      /\ \A y \in Keys : w.store[y] = IF y = x THEN e ELSE store[y]
  BY <1>2, <1>4 DEF Stores
<1>7. w.store[j] # None BY <1>2, <1>5, <1>6, ConstantsAssumption
<1>8. PICK p \in E : p[2] = j BY <1>3, <1>5, <1>7
<1>9. store'[k] = w.store[k] /\ ~\E q \in E : q[2] = k BY <1>3, <1>5
<1>10. w.store[k].at \in Nat BY <1>5, <1>6, <1>9 DEF Stores, Entry
<1>11. <<w.store[k].at, k>> \in w.evictIdx BY <1>2, <1>5, <1>9, <1>10 DEF Agree
<1>12. <<w.store[k].at, k>> \notin E
  <2>1. <<w.store[k].at, k>>[2] = k OBVIOUS
  <2> QED BY <1>9, <2>1
<1>13. Before(p, <<w.store[k].at, k>>) BY <1>3, <1>11, <1>12
<1>14. p = <<p[1], p[2]>> /\ p[1] \in Nat BY <1>2, <1>3, <1>8 DEF Agree
<1>15. p[1] = w.store[j].at BY <1>2, <1>3, <1>5, <1>8, <1>14 DEF Agree
<1>16. w.store[j].at <= w.store[k].at BY <1>10, <1>13, <1>14, <1>15 DEF Before
<1>17. \A y \in Keys : store[y] # None =>
          store[y].val \in Nat /\ store[y].at \in Nat /\ store[y].val = store[y].at + 1 /\ store[y].val <= writes
  BY <1>0, <1>4 DEF Stamped, Stores, Entry
<1>18. j # k BY <1>5
<1>19. writes \in Nat BY <1>0, ConstantsAssumption DEF DiskInv
<1>20. CASE k = x BY <1>2, <1>5, <1>6, <1>9, <1>17, <1>19, <1>20
<1>21. CASE k # x /\ j = x BY <1>0, <1>2, <1>5, <1>6, <1>9, <1>16, <1>17, <1>19, <1>21
<1>22. CASE k # x /\ j # x
  <2>1. store[j].at <= store[k].at /\ store'[k] = store[k] BY <1>6, <1>9, <1>16, <1>22, <1>5
  <2>2. store[j].val # store[k].val BY <1>0, <1>5, <1>18, <2>1 DEF Stamped
  <2> QED BY <1>5, <1>17, <2>1, <2>2
<1> QED BY <1>20, <1>21, <1>22

\* While the VM stays up: what a put evicts was written before everything that
\* is left and could have been evicted, whatever flags were set and unset and
\* however often the process was restarted in between.
THEOREM OldestFirst == ASSUME OneClock PROVE Spec => EvictsOldest
<1>1. Spec => []ClockInv BY OneClock, ClockInit, ClockNext, PTL DEF Spec
<1>2. ClockInv /\ [Next]_dcvars =>
      [writes' # writes => \A j \in Unpersisted : store'[j] = None =>
              \A k \in Unpersisted' : store[j].val < store'[k].val]_dcvars
  BY OldestNext
<1> QED BY <1>1, <1>2, PTL DEF Spec, EvictsOldest

-----------------------------------------------------------------------------
(***************************************************************************)
(* The tally of bytes.                                                     *)
(***************************************************************************)
Weights(s) == [k \in Keys |-> IF s[k] = None THEN 0 ELSE s[k].size]
Total(s) == SumFunctionOnSet(Weights(s), Keys)

\* The tally of a process whose memory is m is exact.
Exact(m) == Agree(m) /\ m.bytes = Total(m.store)

LEMMA WeightTypes ==
    ASSUME NEW s \in Stores
    PROVE  /\ IsFiniteSet(Keys) /\ \A k \in Keys : Weights(s)[k] \in Nat
           /\ \A T \in SUBSET Keys : SumFunctionOnSet(Weights(s), T) \in Nat
           /\ Total(s) \in Nat
<1>1. IsFiniteSet(Keys) BY ConstantsAssumption
<1>2. \A k \in Keys : Weights(s)[k] \in Nat BY ConstantsAssumption DEF Weights, Stores, Entry
<1>3. \A T \in SUBSET Keys : SumFunctionOnSet(Weights(s), T) \in Nat BY <1>1, <1>2, SumTakesOut
<1> QED BY <1>1, <1>2, <1>3 DEF Total

\* Changing one entry changes the total by the difference.
LEMMA TotalUpdates ==
    ASSUME NEW s \in Stores, NEW t \in Stores, NEW k \in Keys, \A x \in Keys \ {k} : t[x] = s[x]
    PROVE  /\ Total(s) >= Weights(s)[k] /\ Weights(s)[k] \in Nat /\ Weights(t)[k] \in Nat
           /\ Total(t) = Total(s) - Weights(s)[k] + Weights(t)[k]
<1> DEFINE R == Keys \ {k}
<1>1. /\ IsFiniteSet(Keys) /\ IsFiniteSet(R)
      /\ \A x \in Keys : Weights(s)[x] \in Nat /\ Weights(t)[x] \in Nat
  BY WeightTypes, FS_Subset
<1>2. /\ Total(s) = Weights(s)[k] + SumFunctionOnSet(Weights(s), R)
      /\ Total(t) = Weights(t)[k] + SumFunctionOnSet(Weights(t), R)
  BY <1>1, SumTakesOut DEF Total
<1>3. \A x \in R : Weights(t)[x] = Weights(s)[x] BY DEF Weights
<1>4. SumFunctionOnSet(Weights(s), R) = SumFunctionOnSet(Weights(t), R)
  <2> HIDE DEF R
  <2>1. \A x \in R : Weights(s)[x] \in Nat BY <1>1 DEF R
  <2> QED BY <1>1, <1>3, <2>1, SumSame
<1>5. SumFunctionOnSet(Weights(s), R) \in Nat BY WeightTypes
<1> QED BY <1>1, <1>2, <1>4, <1>5

\* Nothing weighs nothing, and what is not there weighs nothing.
LEMMA TotalEmpty ==
    ASSUME NEW s \in Stores, NEW D \in SUBSET Keys, \A k \in D : s[k] = None
    PROVE  SumFunctionOnSet(Weights(s), D) = 0
<1>1. \A k \in D : Weights(s)[k] = 0 BY DEF Weights
<1>2. IsFiniteSet(D) BY WeightTypes, FS_Subset
<1> QED BY <1>1, <1>2, SumZero

LEMMA TotalLive ==
    ASSUME NEW s \in Stores
    PROVE  SumFunction([k \in {x \in Keys : s[x] # None} |-> s[k].size]) = Total(s)
<1> DEFINE L == {x \in Keys : s[x] # None}
           f == [k \in L |-> s[k].size]
<1>1. SumFunction(f) = SumFunctionOnSet(f, L) BY DEF SumFunction
<1>2. IsFiniteSet(L) /\ L \in SUBSET Keys BY WeightTypes, FS_Subset
<1>3. \A x \in L : f[x] \in Nat /\ Weights(s)[x] = f[x]
  BY ConstantsAssumption DEF Weights, Stores, Entry
<1>4. \A k \in Keys \ L : s[k] = None OBVIOUS
<1> HIDE DEF f, L
<1>5. SumFunctionOnSet(f, L) = SumFunctionOnSet(Weights(s), L) BY <1>2, <1>3, SumSame
<1>6. SumFunctionOnSet(Weights(s), Keys \ L) = 0 BY <1>4, TotalEmpty
<1>7. Total(s) = SumFunctionOnSet(Weights(s), L) + SumFunctionOnSet(Weights(s), Keys \ L)
  BY <1>2, WeightTypes, SumSplits DEF Total
<1>8. SumFunctionOnSet(Weights(s), L) \in Nat BY <1>2, WeightTypes
<1> QED BY <1>1, <1>5, <1>6, <1>7, <1>8 DEF f, L

LEMMA DropExact == ASSUME NEW m, Exact(m), NEW k \in Keys PROVE Exact(DropEntry(m, k))
<1> DEFINE d == DropEntry(m, k)
<1>1. Agree(d) /\ d.store = [m.store EXCEPT ![k] = None] BY DropAgrees DEF Exact
<1>2. m.store \in Stores /\ d.store \in Stores BY <1>1 DEF Exact, Agree
<1>3. CASE m.store[k] = None BY <1>3 DEF DropEntry
<1>4. CASE m.store[k] # None
  <2>1. d.bytes = Monus(m.bytes, m.store[k].size) BY <1>4 DEF DropEntry
  <2> HIDE DEF d
  <2>2. Weights(m.store)[k] = m.store[k].size /\ Weights(d.store)[k] = 0
    BY <1>1, <1>2, <1>4 DEF Weights, Stores
  <2>3. /\ Total(d.store) = Total(m.store) - Weights(m.store)[k] + Weights(d.store)[k]
        /\ Total(m.store) >= Weights(m.store)[k] /\ Weights(m.store)[k] \in Nat
    BY <1>1, <1>2, TotalUpdates DEF Stores
  <2>4. Total(m.store) \in Nat BY <1>2, WeightTypes
  <2>5. d.bytes = Total(d.store) BY <2>1, <2>2, <2>3, <2>4 DEF Exact, Monus
  <2> QED BY <1>1, <2>5 DEF Exact, d
<1> QED BY <1>3, <1>4

LEMMA WriteExact ==
    ASSUME NEW m, Exact(m), NEW k \in Keys, NEW e \in Entry
    PROVE  Exact(WriteEntry(m, k, e))
<1> DEFINE d == DropEntry(m, k)
           w == WriteEntry(m, k, e)
<1>1. Exact(d) /\ d.store = [m.store EXCEPT ![k] = None] BY DropExact, DropAgrees DEF Exact
<1>2. Agree(w) /\ w.store = [m.store EXCEPT ![k] = e] BY WriteAgrees DEF Exact
<1>3. w.bytes = d.bytes + e.size BY DEF WriteEntry, AddEntry
<1> HIDE DEF d, w
<1>4. m.store \in Stores /\ d.store \in Stores /\ w.store \in Stores
  BY <1>1, <1>2 DEF Exact, Agree
<1>5. Weights(d.store)[k] = 0 /\ Weights(w.store)[k] = e.size
  BY <1>1, <1>2, <1>4, ConstantsAssumption DEF Weights, Stores
<1>6. Total(w.store) = Total(d.store) - Weights(d.store)[k] + Weights(w.store)[k]
  BY <1>1, <1>2, <1>4, TotalUpdates DEF Stores
<1>7. Total(d.store) \in Nat BY <1>4, WeightTypes
<1>8. e.size \in Nat BY ConstantsAssumption DEF Entry
<1>9. w.bytes = Total(w.store) BY <1>1, <1>3, <1>5, <1>6, <1>7, <1>8 DEF Exact
<1> QED BY <1>2, <1>9 DEF Exact, w

\* Pairs of the index stand for keys one to one, so what an eviction counts is
\* the size of what it removes.
LEMMA EvictExact ==
    ASSUME NEW m, Exact(m), NEW E, E \subseteq m.evictIdx
    PROVE  Exact(EvictOverCap(m, E))
<1> DEFINE v == EvictOverCap(m, E)
           D == {p[2] : p \in E}
           f == [p \in E |-> IF m.store[p[2]] = None THEN 0 ELSE m.store[p[2]].size]
           name == [p \in E |-> p[2]]
<1>1. Agree(m) /\ Agree(v) /\ m.store \in Stores /\ v.store \in Stores
  BY EvictAgrees DEF Exact, Agree
<1>2. ASSUME NEW p \in E
      PROVE  p = <<p[1], p[2]>> /\ p[2] \in Keys /\ m.store[p[2]] # None /\ m.store[p[2]].at = p[1]
  <2>1. p = <<p[1], p[2]>> /\ p[1] \in Nat /\ p[2] \in Keys BY <1>1 DEF Agree
  <2> QED BY <1>1, <2>1 DEF Agree
<1>3. \A p, q \in E : name[p] = name[q] => p = q
  <2> SUFFICES ASSUME NEW p \in E, NEW q \in E, p[2] = q[2] PROVE p = q OBVIOUS
  <2>1. p = <<p[1], p[2]>> /\ m.store[p[2]].at = p[1] BY <1>2
  <2>2. q = <<q[1], q[2]>> /\ m.store[q[2]].at = q[1] BY <1>2
  <2> QED BY <2>1, <2>2
<1>4. D \in SUBSET Keys /\ {name[p] : p \in E} = D BY <1>2
<1>5. IsFiniteSet(E)
  <2>1. name \in Injection(E, Keys) BY <1>2, <1>3 DEF Injection, IsInjective
  <2> HIDE DEF name
  <2> QED BY <2>1, WeightTypes, <1>1, FS_Injection
<1>6. \A p \in E : f[p] \in Nat /\ Weights(m.store)[name[p]] = f[p]
  <2> SUFFICES ASSUME NEW p \in E PROVE f[p] \in Nat /\ Weights(m.store)[name[p]] = f[p] OBVIOUS
  <2>1. Weights(m.store)[p[2]] \in Nat BY <1>1, <1>2, WeightTypes
  <2>2. Weights(m.store)[p[2]] = f[p] BY <1>2 DEF Weights
  <2> QED BY <2>1, <2>2
<1>7. SizeOf(m, E) = SumFunctionOnSet(f, E) BY DEF SizeOf, SumFunction
<1>8. /\ v.store = [k \in Keys |-> IF \E p \in E : p[2] = k THEN None ELSE m.store[k]]
      /\ v.bytes = Monus(m.bytes, SizeOf(m, E))
  BY DEF EvictOverCap
<1>9. \A k \in Keys : IF k \in D THEN v.store[k] = None ELSE v.store[k] = m.store[k] BY <1>8
<1> HIDE DEF v, D, f, name
<1>10. SizeOf(m, E) = SumFunctionOnSet(Weights(m.store), D)
  BY <1>3, <1>4, <1>5, <1>6, <1>7, SumRenames
<1> DEFINE R == Keys \ D
<1>11. SumFunctionOnSet(Weights(v.store), D) = 0 BY <1>1, <1>4, <1>9, TotalEmpty
<1>12. SumFunctionOnSet(Weights(m.store), R) = SumFunctionOnSet(Weights(v.store), R)
  <2>1. \A k \in R : Weights(m.store)[k] \in Nat /\ Weights(v.store)[k] = Weights(m.store)[k]
    BY <1>1, <1>9, WeightTypes DEF Weights
  <2>2. IsFiniteSet(R) BY <1>1, WeightTypes, FS_Subset
  <2> HIDE DEF R
  <2> QED BY <2>1, <2>2, SumSame
<1>13. /\ Total(m.store) = SumFunctionOnSet(Weights(m.store), D) + SumFunctionOnSet(Weights(m.store), R)
       /\ Total(v.store) = SumFunctionOnSet(Weights(v.store), D) + SumFunctionOnSet(Weights(v.store), R)
  BY <1>1, <1>4, WeightTypes, SumSplits DEF Total
<1>14. SumFunctionOnSet(Weights(m.store), D) \in Nat /\ SumFunctionOnSet(Weights(m.store), R) \in Nat
  BY <1>1, <1>4, WeightTypes
<1> HIDE DEF R
<1>15. v.bytes = Total(v.store)
  BY <1>8, <1>10, <1>11, <1>12, <1>13, <1>14 DEF Exact, Monus
<1> QED BY <1>1, <1>15 DEF Exact, v

LEMMA BecomeExact == ASSUME NEW m, Exact(m), Become(m) PROVE Exact(State)'
<1>1. Agree(State)' BY BecomeAgrees DEF Exact
<1>2. State'.store = m.store /\ State'.bytes = m.bytes BY DEF State, Become
<1> QED BY <1>1, <1>2 DEF Exact

LEMMA OpenExact == ASSUME NEW s \in Stores, Open(s) PROVE Exact(State)'
<1>1. Agree(State)' BY OpenAgrees
<1>2. State'.store = s /\ State'.bytes = bytes' BY DEF State, Open
<1>3. bytes' = SumFunction([k \in {x \in Keys : s[x] # None} |-> s[k].size]) BY DEF Open
<1>4. bytes' = Total(s) BY <1>3, TotalLive
<1> QED BY <1>1, <1>2, <1>4 DEF Exact

TallyInv == DiskInv /\ Exact(State)

LEMMA TallyInit == Init => TallyInv
<1> SUFFICES ASSUME Init PROVE TallyInv OBVIOUS
<1>1. DiskInv BY InvInit
<1>2. store \in Stores /\ Agree(State) BY <1>1, AgreeMeans DEF DiskInv
<1>3. \A k \in Keys : store[k] = None BY DEF Init
<1>4. Total(store) = 0 BY <1>2, <1>3, TotalEmpty DEF Total
<1>5. State.store = store /\ State.bytes = 0 BY DEF State, Init
<1> QED BY <1>1, <1>2, <1>4, <1>5 DEF TallyInv, Exact

LEMMA TallyNext == TallyInv /\ [Next]_dcvars => TallyInv'
<1> SUFFICES ASSUME TallyInv, [Next]_dcvars PROVE TallyInv' OBVIOUS
<1>0. DiskInv /\ DiskInv' /\ Exact(State) /\ store \in Stores /\ durable \in Stores
  BY InvNext, AgreeMeans DEF TallyInv, DiskInv
<1>1. SUFFICES Exact(State)' BY <1>0 DEF TallyInv
<1>2. ASSUME NEW k \in Keys, Put(k) PROVE Exact(State)'
  <2>1. PICK n \in Sizes, p \in BOOLEAN, t \in BOOLEAN :
           \E E \in SUBSET WriteEntry(State, k, NewEntry(n, p, t)).evictIdx :
               Become(EvictOverCap(WriteEntry(State, k, NewEntry(n, p, t)), E))
    BY <1>2 DEF Put
  <2>2. writes < MaxWrites BY <1>2 DEF Put
  <2>3. NewEntry(n, p, t) \in Entry BY <1>0, <2>2, NewEntryType
  <2> DEFINE w == WriteEntry(State, k, NewEntry(n, p, t))
  <2>4. PICK E : E \subseteq w.evictIdx /\ Become(EvictOverCap(w, E)) BY <2>1
  <2>5. Exact(w) BY <1>0, <2>3, WriteExact
  <2> HIDE DEF w
  <2>6. Exact(EvictOverCap(w, E)) BY <2>4, <2>5, EvictExact
  <2> QED BY <2>4, <2>6, BecomeExact
<1>3. ASSUME NEW k \in Keys, Become(DropEntry(State, k)) PROVE Exact(State)'
  BY <1>0, <1>3, DropExact, BecomeExact
<1>4. ASSUME NEW k \in Keys, SetPersist(k) PROVE Exact(State)'
  <2>1. PICK p \in BOOLEAN : Become(WriteEntry(State, k, [store[k] EXCEPT !.persist = p]))
    BY <1>4 DEF SetPersist
  <2>2. store[k] \in Entry BY <1>0, <1>4 DEF SetPersist, Stores
  <2>3. [store[k] EXCEPT !.persist = p] \in Entry BY <2>2 DEF Entry
  <2> QED BY <1>0, <2>1, <2>3, WriteExact, BecomeExact
<1>5. CASE Flush
  <2>1. store' = [k \in Keys |-> None] BY <1>0, <1>5, FlushKeeps
  <2>2. store' \in Stores /\ Agree(State)' BY <1>0, <2>1 DEF Stores, DiskInv
  <2>3. Total(store') = 0 BY <2>1, <2>2, TotalEmpty DEF Total
  <2>4. State'.store = store' /\ State'.bytes = 0 BY <1>5 DEF State, Flush
  <2> QED BY <2>2, <2>3, <2>4 DEF Exact
<1>6. CASE Restart \/ VmRestart BY <1>0, <1>6, OpenExact DEF Restart, VmRestart, Reopen
<1>7. CASE VmCrash BY <1>0, <1>7, OpenExact DEF VmCrash
<1>8. ASSUME UNCHANGED <<store, index>> PROVE Exact(State)'
  <2>1. State' = State BY <1>8 DEF State, index
  <2> QED BY <1>0, <2>1 DEF Exact, Agree
<1>9. ASSUME NEW k \in Keys, WriteBack(k) PROVE Exact(State)' BY <1>8, <1>9 DEF WriteBack
<1>10. ASSUME NEW x \in 1 .. MaxWrites, TtlRunsOut(x) PROVE Exact(State)'
  BY <1>8, <1>10 DEF TtlRunsOut
<1>11. CASE UNCHANGED dcvars
  <2>1. UNCHANGED <<store, index>> BY <1>11 DEF dcvars, index
  <2> QED BY <1>8, <2>1
<1>12. ASSUME NEW k \in Keys, Delete(k) \/ WriteFails(k) \/ Expire(k) PROVE Exact(State)'
  BY <1>3, <1>12 DEF Delete, WriteFails, Expire
<1> QED BY <1>2, <1>4, <1>5, <1>6, <1>7, <1>9, <1>10, <1>11, <1>12 DEF Next

LEMMA TallyInvariant == Spec => []TallyInv
BY TallyInit, TallyNext, PTL DEF Spec

LEMMA TallyTells == TallyInv => BytesExact /\ (evictIdx = {} => Unpersisted = {})
<1> SUFFICES ASSUME TallyInv PROVE BytesExact /\ (evictIdx = {} => Unpersisted = {}) OBVIOUS
<1>1. store \in Stores /\ bytes = Total(store) BY AgreeMeans DEF TallyInv, DiskInv, Exact, State
<1>2. Unpersisted \cup Persisted = {x \in Keys : store[x] # None} BY DEF Unpersisted, Persisted
<1>3. SumFunction([k \in {x \in Keys : store[x] # None} |-> store[k].size]) = Total(store)
  BY <1>1, TotalLive
<1>4. ASSUME evictIdx = {}, NEW k \in Unpersisted PROVE FALSE
  <2>1. <<store[k].at, k>> \in evictIdx
    BY <1>1, <1>4, AgreeMeans DEF TallyInv, DiskInv, Unpersisted, Stores, Entry
  <2> QED BY <1>4, <2>1
<1> QED BY <1>1, <1>2, <1>3, <1>4 DEF BytesExact

\* For any keys, sizes, cap and events: the tally the cap is enforced with is
\* the size of what the store holds, after any sequence of puts, overwrites,
\* flag changes, failed writes, expiries, evictions, flushes, restarts and
\* crashes.  The subtractions in it are cut off at zero and never need to be.
THEOREM TallyAlwaysExact == Spec => []BytesExact
BY TallyTells, TallyInvariant, PTL

\* Said of the store itself: after a put its entries fit under the cap, or all
\* of them are persisted.
StoreKeepsCap ==
    [][writes' # writes =>
          \/ SumFunction([k \in Unpersisted \cup Persisted |-> store[k].size])' <= Cap
          \/ Unpersisted' = {}]_dcvars

\* A put leaves the tenant within its cap by the tally, unless the eviction index
\* has run empty; and by the sizes in the store, unless every entry left is
\* persisted.  The second follows because tally and index are exact.
THEOREM PutsKeepCap == Spec => PutKeepsCap /\ StoreKeepsCap
<1>1. ASSUME [Next]_dcvars, writes' # writes PROVE bytes' <= Cap \/ evictIdx' = {}
  <2>1. PICK k \in Keys : Put(k)
    BY <1>1 DEF Next, Delete, WriteFails, SetPersist, Expire, WriteBack, Flush, Restart, VmRestart,
                VmCrash, TtlRunsOut, dcvars
  <2>2. PICK w, E : Evicted(w, E) /\ Become(EvictOverCap(w, E)) BY <2>1 DEF Put
  <2>3. bytes' = Monus(w.bytes, SizeOf(w, E)) /\ evictIdx' = w.evictIdx \ E
    BY <2>2 DEF Become, EvictOverCap
  <2> QED BY <2>2, <2>3 DEF Evicted
<1>2. ASSUME [Next]_dcvars, (BytesExact /\ (evictIdx = {} => Unpersisted = {}))', writes' # writes
      PROVE  \/ SumFunction([k \in Unpersisted \cup Persisted |-> store[k].size])' <= Cap
             \/ Unpersisted' = {}
  BY <1>1, <1>2 DEF BytesExact
<1>3. [Next]_dcvars /\ (BytesExact /\ (evictIdx = {} => Unpersisted = {}))'
      => [writes' # writes => bytes' <= Cap \/ evictIdx' = {}]_dcvars
         /\ [writes' # writes =>
                \/ SumFunction([k \in Unpersisted \cup Persisted |-> store[k].size])' <= Cap
                \/ Unpersisted' = {}]_dcvars
  BY <1>1, <1>2
<1> QED BY <1>3, TallyTells, TallyInvariant, PTL DEF Spec, PutKeepsCap, StoreKeepsCap
=============================================================================
