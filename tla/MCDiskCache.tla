---------------------------- MODULE MCDiskCache ----------------------------
(* Small instances of DiskCache. *)
EXTENDS DiskCache

CONSTANTS k1, k2, k3

Order2 == [k \in Keys |-> IF k = k1 THEN 1 ELSE 2]
Order3 == [k \in Keys |-> CASE k = k1 -> 1 [] k = k2 -> 2 [] OTHER -> 3]
=============================================================================
