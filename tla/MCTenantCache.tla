--------------------------- MODULE MCTenantCache ---------------------------
(* Small instances of TenantCache: which rows each key depends on, and      *)
(* which keys each client uses.                                             *)
EXTENDS TenantCache

CONSTANTS k1, k2, k3, r1, c1, c2

\* k1 is a list holding the only row, k2 a list that holds no row.
RowsOfLists == [k \in Keys |-> IF k = k1 THEN Rows ELSE {}]
\* every key is a response holding every row
RowsOfAll == [k \in Keys |-> Rows]
AllKeys == [c \in Clients |-> Keys]
\* each client has keys of its own
OwnKeys == [c \in Clients |-> IF c = c1 THEN Keys \ {k2} ELSE {k2}]
=============================================================================
