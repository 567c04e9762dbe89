----------------------------- MODULE DiskStore -----------------------------
(***************************************************************************)
(* What the disk cache of a tenant promises its callers.  A key holds what *)
(* was last put there, or nothing: an entry may be dropped to make room    *)
(* for a put, but one marked persist leaves only when it is itself         *)
(* replaced, deleted or expired, or the tenant is flushed.  A crash brings *)
(* back, for each key on its own, the last entry that was saved.           *)
(***************************************************************************)
EXTENDS Naturals

CONSTANTS
    Keys,   \* cache keys
    Values, \* what is put
    None    \* "no entry"

VARIABLES
    content,  \* content[k]: the entry readers find under k, or None
    saved     \* saved[k]: what of it would survive a crash

dsvars == <<content, saved>>

Item == [val : Values, persist : BOOLEAN]

Init == content = [k \in Keys |-> None] /\ saved = content

\* A put may drop entries that are not persisted, even the one it writes.
Droppable(k, e) ==
    {x \in Keys : IF x = k THEN ~e.persist ELSE content[x] # None /\ ~content[x].persist}

Put(k, e) ==
    /\ \E D \in SUBSET Droppable(k, e) :
          content' = [x \in Keys |-> CASE x \in D -> None
                                       [] x \notin D /\ x = k -> e
                                       [] OTHER -> content[x]]
    /\ saved' = saved

\* A delete, the expiry of an entry, a write that failed.
Remove(k) == content' = [content EXCEPT ![k] = None] /\ saved' = saved

SetPersist(k, b) ==
    /\ content[k] # None
    /\ content' = [content EXCEPT ![k].persist = b] /\ saved' = saved

Flush == content' = [k \in Keys |-> None] /\ saved' = saved

Save(k) == saved' = [saved EXCEPT ![k] = content[k]] /\ content' = content
Close == saved' = content /\ content' = content
Crash == content' = saved /\ saved' = saved

Next == \/ \E k \in Keys : \/ Remove(k) \/ Save(k)
                           \/ \E e \in Item : Put(k, e)
                           \/ \E b \in BOOLEAN : SetPersist(k, b)
        \/ Flush \/ Close \/ Crash

Spec == Init /\ [][Next]_dsvars
=============================================================================
