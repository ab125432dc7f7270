------------------------------ MODULE TaskLedger ------------------------------
(***************************************************************************)
(* What a caller of EdgeNode is promised about the tasks it hands over:    *)
(* every task that arrives is opened or refused, every open task is closed *)
(* exactly once, as a success or as a failure, and a closed task never     *)
(* changes its mind.  The counters of the node are the tallies of the      *)
(* ledger.  EdgeNode is shown to implement this module when a node is only *)
(* brought back after the task processes of its crash have drained.        *)
(***************************************************************************)
EXTENDS Naturals, FiniteSets

CONSTANT Task    \* the tasks handed to the node, each handed over once

VARIABLES
  outcome,       \* outcome[t]: where task t stands in the ledger
  arrivals,      \* tasks that have arrived
  completed      \* tasks that have been closed

ledger == <<outcome, arrivals, completed>>

Outcome == {"new", "open", "success", "failure"}

Init ==
  /\ outcome = [t \in Task |-> "new"]
  /\ arrivals = 0
  /\ completed = 0

(* A task arrives and is admitted to the queue. *)
Open(t) ==
  /\ outcome[t] = "new"
  /\ outcome' = [outcome EXCEPT ![t] = "open"]
  /\ arrivals' = arrivals + 1
  /\ UNCHANGED completed

(* A task arrives and is turned away at once. *)
Refuse(t) ==
  /\ outcome[t] = "new"
  /\ outcome' = [outcome EXCEPT ![t] = "failure"]
  /\ arrivals' = arrivals + 1
  /\ completed' = completed + 1

(* An open task ends well. *)
Succeed(t) ==
  /\ outcome[t] = "open"
  /\ outcome' = [outcome EXCEPT ![t] = "success"]
  /\ completed' = completed + 1
  /\ UNCHANGED arrivals

(* Every open task is failed at once: the node has crashed. *)
FailAllOpen ==
  LET opened == {t \in Task : outcome[t] = "open"} IN
  /\ outcome' = [t \in Task |-> IF t \in opened THEN "failure" ELSE outcome[t]]
  /\ completed' = completed + Cardinality(opened)
  /\ UNCHANGED arrivals

Next ==
  \/ \E t \in Task : Open(t) \/ Refuse(t) \/ Succeed(t)
  \/ FailAllOpen

(* An open task does not stay open for ever. *)
Closes == \A t \in Task : outcome[t] = "open" ~> outcome[t] # "open"

Safety == Init /\ [][Next]_ledger
Spec   == Safety /\ Closes
===============================================================================
