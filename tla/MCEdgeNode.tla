------------------------------ MODULE MCEdgeNode ------------------------------
(* TLC instances of EdgeNode and of its refinement of TaskLedger. *)
EXTENDS EdgeNodeLedger

Symmetry == Permutations(Task)

===============================================================================
