---------------------------- MODULE MCTursoSync ----------------------------
(* Small instances of TursoSync: orders with one column, told apart by it. *)
EXTENDS TursoReplica, TLC

CONSTANTS sync, r1, r2, pending, paid

Orders2 == {[status |-> s] : s \in {pending, paid}}

Orders1 == {[status |-> pending]}

Symmetry == Permutations({pending, paid})
=============================================================================
