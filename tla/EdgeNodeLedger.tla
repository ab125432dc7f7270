---------------------------- MODULE EdgeNodeLedger ----------------------------
(***************************************************************************)
(* The refinement mapping from EdgeNode to TaskLedger.                     *)
(***************************************************************************)
EXTENDS EdgeNode

(* Where a task of the node stands in the ledger. *)
OutcomeOf(t) ==
  CASE t \in succeeded -> "success"
    [] t \notin succeeded /\ reason[t] # "NONE" -> "failure"
    [] t \notin succeeded /\ reason[t] = "NONE" /\ pc[t] = "idle" -> "new"
    [] OTHER -> "open"

Ledger == INSTANCE TaskLedger WITH
  outcome   <- [t \in Task |-> OutcomeOf(t)],
  arrivals  <- taskArrivals,
  completed <- completedTasks

(* A node that is only brought back once its task processes have drained   *)
(* keeps the ledger: every task is closed once, and every open task is     *)
(* closed in the end.                                                      *)
ImplementsLedger == Ledger!Spec

===============================================================================
