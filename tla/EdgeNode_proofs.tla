---------------------------- MODULE EdgeNode_proofs ----------------------------
(***************************************************************************)
(* Proofs about EdgeNode: type correctness, the accounting of tasks, the   *)
(* tracking of tasks in flight, the reasons of failed tasks, the           *)
(* discipline of the slots and the refinement of TaskLedger, for any       *)
(* number of tasks, any capacity, any queue limit and any number of        *)
(* failovers.                                                              *)
(***************************************************************************)
EXTENDS EdgeNodeLedger, FiniteSetTheorems, SequenceTheorems, TLAPS

(* Tail and Append of queues of tasks are queues of tasks. *)
LEMMA QueueTypes ==
  ASSUME NEW q \in Seq(Task), NEW t \in Task
  PROVE  /\ Append(q, t) \in Seq(Task)
         /\ q # <<>> => Head(q) \in Task /\ Tail(q) \in Seq(Task)
  BY HeadTailProperties, AppendProperties

(* A trigger keeps queues and users well typed. *)
LEMMA TriggerTypes ==
  ASSUME TypeOK, NEW r \in Resource, NEW q \in Seq(Task), Trigger(r, q, users[r])
  PROVE  /\ queue' \in [Resource -> Seq(Task)]
         /\ users' \in [Resource -> SUBSET Task]
<1>1. q # <<>> => Head(q) \in Task /\ Tail(q) \in Seq(Task)
  BY HeadTailProperties
<1>2. /\ users[r] \in SUBSET Task
      /\ queue \in [Resource -> Seq(Task)]
      /\ users \in [Resource -> SUBSET Task]
  BY DEF TypeOK
<1>3. CASE q # <<>> /\ Cardinality(users[r]) < Concurrency
  <2>1. /\ queue' = [queue EXCEPT ![r] = Tail(q)]
        /\ users' = [users EXCEPT ![r] = users[r] \cup {Head(q)}]
    BY <1>3 DEF Trigger
  <2> QED BY <1>1, <1>2, <1>3, <2>1
<1>4. CASE ~(q # <<>> /\ Cardinality(users[r]) < Concurrency)
  <2>1. /\ queue' = [queue EXCEPT ![r] = q]
        /\ users' = [users EXCEPT ![r] = users[r]]
    BY <1>4 DEF Trigger
  <2> QED BY <1>2, <2>1
<1> QED BY <1>3, <1>4

(* Failing a set of tasks keeps reasons and counters well typed. *)
LEMMA MarkFailedTypes ==
  ASSUME TypeOK, NEW S \in SUBSET Task, NEW why \in Reason, MarkFailed(S, why)
  PROVE  /\ reason' \in [Task -> Reason]
         /\ failedTasks' \in Nat
         /\ completedTasks' \in Nat
<1>1. Cardinality(S) \in Nat
  BY NodeAssumption, FS_Subset, FS_CardinalityType
<1> QED BY <1>1 DEF TypeOK, MarkFailed

(* Every step keeps the state well typed. *)
LEMMA TypeStep == TypeOK /\ [Next]_vars => TypeOK'
<1> SUFFICES ASSUME TypeOK, [Next]_vars PROVE TypeOK'
  OBVIOUS
<1> USE DEF resources, tasks, health, counters
<1>a. Reason = {"NONE", "NODE_FAILED", "PACKET_LOSS_DROP", "QUEUE_FULL",
        "NODE_CRASH_ABORTED", "NODE_CRASH_IN_SERVICE", "NODE_CRASH_CRASH"}
  BY DEF Reason
<1>b. \A t \in Task : {t} \in SUBSET Task /\ {t} \ Failed \in SUBSET Task
  OBVIOUS
<1>1. CASE UNCHANGED vars
  BY <1>1 DEF TypeOK, vars
<1>2. ASSUME NEW t \in Task, NEW why \in Reason, TurnAway(t, why) PROVE TypeOK'
  <2>1. {t} \in SUBSET Task /\ MarkFailed({t}, why)
    BY <1>2 DEF TurnAway
  <2>2. /\ reason' \in [Task -> Reason]
        /\ failedTasks' \in Nat
        /\ completedTasks' \in Nat
    BY <2>1, MarkFailedTypes
  <2>3. pc' \in [Task -> PC]
    BY <1>2 DEF TypeOK, TurnAway, PC
  <2> QED BY <1>2, <2>2, <2>3 DEF TypeOK, TurnAway
<1>3. ASSUME NEW t \in Task, Enqueue(t) PROVE TypeOK'
  <2>1. Append(queue[current], t) \in Seq(Task)
    BY QueueTypes DEF TypeOK
  <2>2. /\ queue' \in [Resource -> Seq(Task)]
        /\ users' \in [Resource -> SUBSET Task]
    BY <1>3, <2>1, TriggerTypes DEF Enqueue, Request, TypeOK
  <2> QED BY <1>3, <2>2 DEF TypeOK, Enqueue, Request, PC
<1>4. ASSUME NEW t \in Task, StartService(t) PROVE TypeOK'
  BY <1>4 DEF TypeOK, StartService, PC
<1>5. ASSUME NEW t \in Task, AbortQueued(t) PROVE TypeOK'
  BY <1>5, <1>a, <1>b, MarkFailedTypes DEF TypeOK, AbortQueued, Release, PC
<1>6. ASSUME NEW t \in Task, FinishService(t) PROVE TypeOK'
  <2>1. /\ reason' \in [Task -> Reason]
        /\ failedTasks' \in Nat
        /\ completedTasks' \in Nat
        /\ successfulTasks' \in Nat
        /\ succeeded' \in SUBSET Task
    BY <1>6, <1>a, <1>b, MarkFailedTypes DEF TypeOK, FinishService, Reason
  <2>2. pc' \in [Task -> PC]
    BY <1>6 DEF TypeOK, FinishService, PC
  <2>3. /\ users' \in [Resource -> SUBSET Task]
        /\ releasing' \in [Resource -> SUBSET Task]
        /\ UNCHANGED <<current, queue>>
    BY <1>6 DEF TypeOK, FinishService, Release
  <2> QED BY <1>6, <2>1, <2>2, <2>3 DEF TypeOK, FinishService
<1>7. ASSUME NEW t \in Task, NEW r \in Resource, ProcessRelease(r, t)
      PROVE TypeOK'
  <2>1. /\ queue' \in [Resource -> Seq(Task)]
        /\ users' \in [Resource -> SUBSET Task]
    BY <1>7, TriggerTypes DEF ProcessRelease, TypeOK
  <2> QED BY <1>7, <2>1 DEF TypeOK, ProcessRelease
<1>8. ASSUME NEW c \in BOOLEAN, UpdateMetrics(c) PROVE TypeOK'
  BY <1>8 DEF TypeOK, UpdateMetrics, MetricsOf
<1>9. ASSUME NEW c \in BOOLEAN, Failover(c) PROVE TypeOK'
  <2>1. current' \in Resource
    BY <1>9, NodeAssumption DEF TypeOK, Failover, Resource
  <2>2. packetLoss' \in {"none", "some", "all"}
    BY <1>9 DEF Failover, MetricsOf
  <2> QED BY <1>9, <2>1, <2>2 DEF TypeOK, Failover
<1>10. CASE CrashNode
  <2>1. (activeTasks \ Failed) \ succeeded \in SUBSET Task
    BY DEF TypeOK
  <2> QED BY <1>10, <1>a, <2>1, MarkFailedTypes DEF TypeOK, CrashNode
<1>11. CASE InjectLossFault
  BY <1>11 DEF TypeOK, InjectLossFault
<1>12. CASE ClearFaults
  BY <1>12 DEF TypeOK, ClearFaults
<1> QED
  BY <1>1, <1>2, <1>3, <1>4, <1>5, <1>6, <1>7, <1>8, <1>9, <1>10, <1>11, <1>12,
     <1>a
  DEF Next, TaskStep, ArriveAtFailedNode, DropInTransit, ArriveAtFullQueue

(* A fresh node is well typed.                                             *)
LEMMA InitType == Init => TypeOK
<1> SUFFICES ASSUME Init PROVE TypeOK
  OBVIOUS
<1>1. 1 \in Resource /\ <<>> \in Seq(Task)
  BY NodeAssumption, EmptySeq DEF Resource
<1> QED BY <1>1 DEF Init, TypeOK, PC, Reason

(* Every reachable state of a node is well typed. *)
THEOREM TypeCorrect == Spec => []TypeOK
<1> QED BY InitType, TypeStep, PTL DEF Spec

-------------------------------------------------------------------------------
(* The strengthening.  Accounting and ActiveTasksExact are not inductive:  *)
(* a service that ends must not have succeeded before, an arrival must not *)
(* have failed before, and a process that ends must leave an outcome.      *)

OutcomeCoherent ==
  /\ \A t \in Task : pc[t] = "idle" => reason[t] = "NONE" /\ t \notin succeeded
  /\ \A t \in Task : pc[t] = "done" => reason[t] # "NONE" \/ t \in succeeded
  /\ \A t \in Task : pc[t] \in {"waiting", "service"} => t \notin succeeded

IInv ==
  /\ TypeOK
  /\ OutcomeCoherent
  /\ ActiveTasksExact
  /\ FailedNodeOwesNothing
  /\ Accounting

Arrived == {t \in Task : pc[t] # "idle"}

(* The tallies of the ledger are finite. *)
LEMMA FiniteTallies ==
  ASSUME TypeOK
  PROVE  /\ IsFiniteSet(Failed) /\ Cardinality(Failed) \in Nat
         /\ IsFiniteSet(succeeded) /\ Cardinality(succeeded) \in Nat
         /\ IsFiniteSet(Arrived) /\ Cardinality(Arrived) \in Nat
<1>1. \A S \in SUBSET Task : IsFiniteSet(S) /\ Cardinality(S) \in Nat
  BY NodeAssumption, FS_Subset, FS_CardinalityType
<1> QED BY <1>1 DEF TypeOK, Failed, Arrived

(* Failing tasks that have not failed yet moves the tally of failures and  *)
(* the counter of failures by the same amount.                             *)
LEMMA MarkFailedCounts ==
  ASSUME TypeOK, NEW S \in SUBSET Task, S \cap Failed = {},
         NEW why \in Reason \ {"NONE"}, MarkFailed(S, why),
         failedTasks = Cardinality(Failed)
  PROVE  /\ Failed' = Failed \cup S
         /\ failedTasks' = Cardinality(Failed')
         /\ Cardinality(S) \in Nat
         /\ completedTasks' = completedTasks + Cardinality(S)
         /\ failedTasks' = failedTasks + Cardinality(S)
<1>1. Failed' = Failed \cup S
  BY DEF MarkFailed, Failed, TypeOK
<1>2. IsFiniteSet(S) /\ Cardinality(S) \in Nat
  BY NodeAssumption, FS_Subset, FS_CardinalityType
<1>3. Cardinality(Failed \cup S) = Cardinality(Failed) + Cardinality(S)
  <2>1. Cardinality(Failed \cup S)
          = Cardinality(Failed) + Cardinality(S) - Cardinality(Failed \cap S)
    BY <1>2, FiniteTallies, FS_Union
  <2>2. Failed \cap S = {} /\ Cardinality({}) = 0
    BY FS_EmptySet
  <2>3. Cardinality(Failed \cap S) = 0
    BY <2>2
  <2> QED BY <2>1, <2>3, <1>2, FiniteTallies
<1> QED BY <1>1, <1>2, <1>3 DEF MarkFailed

(* An idle task that arrives is counted once. *)
LEMMA ArrivalCounts ==
  ASSUME TypeOK, NEW t \in Task, pc[t] = "idle", NEW v \in PC \ {"idle"},
         pc' = [pc EXCEPT ![t] = v], taskArrivals = Cardinality(Arrived),
         taskArrivals' = taskArrivals + 1
  PROVE  taskArrivals' = Cardinality(Arrived')
<1>1. Arrived' = Arrived \cup {t} /\ t \notin Arrived
  BY DEF Arrived, TypeOK, PC
<1>2. Cardinality(Arrived \cup {t}) = Cardinality(Arrived) + 1
  BY <1>1, FiniteTallies, FS_AddElement
<1> QED BY <1>1, <1>2

(* A process that was already counted stays counted. *)
LEMMA ArrivedUnchanged ==
  ASSUME TypeOK, NEW t \in Task, pc[t] # "idle", NEW v \in PC \ {"idle"},
         pc' = [pc EXCEPT ![t] = v]
  PROVE  Arrived' = Arrived
  BY DEF Arrived, TypeOK, PC

(* What the steps of handle_task do to IInv. *)

(* A task turned away on arrival is counted as one and failed at once.     *)
LEMMA TurnAwayStep ==
  ASSUME IInv, TypeOK', NEW t \in Task, NEW why \in Reason \ {"NONE"},
         TurnAway(t, why)
  PROVE  IInv'
<1> USE DEF IInv
<1>1. /\ pc[t] = "idle" /\ reason[t] = "NONE" /\ t \notin succeeded
      /\ pc' = [pc EXCEPT ![t] = "done"]
      /\ MarkFailed({t}, why)
      /\ taskArrivals' = taskArrivals + 1
      /\ UNCHANGED <<succeeded, activeTasks, successfulTasks, nodeFailed>>
  BY DEF TurnAway, OutcomeCoherent, health
<1>2. reason' = [reason EXCEPT ![t] = why]
  BY <1>1 DEF MarkFailed, TypeOK
<1>3. OutcomeCoherent'
  BY <1>1, <1>2 DEF OutcomeCoherent, TypeOK, PC
<1>4. InFlight' = InFlight
  BY <1>1 DEF InFlight, TypeOK
<1>5. /\ Failed' = Failed \cup {t}
      /\ failedTasks' = Cardinality(Failed')
      /\ completedTasks' = completedTasks + Cardinality({t})
      /\ failedTasks' = failedTasks + Cardinality({t})
      /\ Cardinality({t}) \in Nat
  <2>1. {t} \cap Failed = {} /\ {t} \in SUBSET Task
    BY <1>1 DEF Failed
  <2> QED BY <1>1, <2>1, MarkFailedCounts DEF Accounting
<1>6. t \notin InFlight
  BY <1>1 DEF InFlight
<1>7. ActiveTasksExact'
  BY <1>1, <1>4, <1>5, <1>6 DEF ActiveTasksExact
<1>8. FailedNodeOwesNothing'
  BY <1>1, <1>4, <1>5 DEF FailedNodeOwesNothing
<1>9. Accounting'
  <2>1. taskArrivals' = Cardinality(Arrived')
    BY <1>1, ArrivalCounts DEF Accounting, Arrived, PC
  <2>2. completedTasks' = successfulTasks' + failedTasks'
    <3>1. completedTasks = successfulTasks + failedTasks
      BY DEF Accounting
    <3>2. successfulTasks \in Nat /\ failedTasks \in Nat
      BY DEF TypeOK
    <3>3. successfulTasks' = successfulTasks
      BY <1>1
    <3> QED BY <1>5, <3>1, <3>2, <3>3
  <2> QED BY <1>1, <1>5, <2>1, <2>2 DEF Accounting, Arrived
<1> QED BY <1>3, <1>7, <1>8, <1>9

(* An accepted task: counted as an arrival and listed as active.           *)
LEMMA EnqueueStep ==
  ASSUME IInv, TypeOK', NEW t \in Task, Enqueue(t)
  PROVE  IInv'
<1> USE DEF IInv
<1>1. /\ pc[t] = "idle" /\ reason[t] = "NONE" /\ t \notin succeeded
      /\ ~nodeFailed
      /\ pc' = [pc EXCEPT ![t] = "waiting"]
      /\ activeTasks' = activeTasks \cup {t}
      /\ taskArrivals' = taskArrivals + 1
      /\ UNCHANGED <<reason, succeeded, completedTasks, successfulTasks,
                     failedTasks, nodeFailed>>
  BY DEF Enqueue, OutcomeCoherent, health
<1>2. OutcomeCoherent'
  BY <1>1 DEF OutcomeCoherent, TypeOK, PC
<1>3. InFlight' = InFlight \cup {t} /\ Failed' = Failed
  BY <1>1 DEF InFlight, Failed, TypeOK
<1>4. ActiveTasksExact'
  BY <1>1, <1>3 DEF ActiveTasksExact, Failed
<1>5. FailedNodeOwesNothing'
  BY <1>1 DEF FailedNodeOwesNothing
<1>6. Accounting'
  <2>1. taskArrivals' = Cardinality(Arrived')
    BY <1>1, ArrivalCounts DEF Accounting, Arrived, PC
  <2> QED BY <1>1, <1>3, <2>1 DEF Accounting, Arrived
<1> QED BY <1>2, <1>4, <1>5, <1>6

(* A task that gets its slot on a running node goes on without an outcome. *)
LEMMA StartServiceStep ==
  ASSUME IInv, TypeOK', NEW t \in Task, StartService(t)
  PROVE  IInv'
<1> USE DEF IInv
<1>1. /\ pc[t] = "waiting"
      /\ pc' = [pc EXCEPT ![t] = "service"]
      /\ UNCHANGED <<reason, succeeded, activeTasks, nodeFailed, taskArrivals,
                     completedTasks, successfulTasks, failedTasks>>
  BY DEF StartService, health, counters
<1>2. OutcomeCoherent'
  BY <1>1 DEF OutcomeCoherent, TypeOK, PC
<1>3. InFlight' = InFlight /\ Failed' = Failed
  BY <1>1 DEF InFlight, Failed, TypeOK
<1>4. Arrived' = Arrived
  BY <1>1, ArrivedUnchanged DEF PC
<1> QED BY <1>1, <1>2, <1>3, <1>4
     DEF ActiveTasksExact, FailedNodeOwesNothing, Accounting, Arrived

(* On a failed node a process that ends has been aborted already. *)
LEMMA AbortedAlready ==
  ASSUME IInv, nodeFailed, NEW t \in InFlight
  PROVE  {t} \ Failed = {}
  BY DEF IInv, FailedNodeOwesNothing

(* A process that finds its node failed ends; its task has failed already  *)
(* or fails now.                                                           *)
LEMMA EndOnFailedNode ==
  ASSUME IInv, TypeOK', NEW t \in Task, NEW why \in Reason \ {"NONE"},
         pc[t] \in {"waiting", "service"}, nodeFailed,
         pc' = [pc EXCEPT ![t] = "done"], MarkFailed({t} \ Failed, why),
         activeTasks' = activeTasks \ {t},
         UNCHANGED <<succeeded, nodeFailed, taskArrivals, successfulTasks>>
  PROVE  IInv'
<1> USE DEF IInv
<1>1. t \in Failed /\ {t} \ Failed = {}
  BY AbortedAlready DEF InFlight
<1>2. UNCHANGED reason
  BY <1>1 DEF MarkFailed, TypeOK
<1>3. UNCHANGED <<failedTasks, completedTasks>>
  <2>1. Cardinality({t} \ Failed) = 0
    BY <1>1, FS_EmptySet
  <2>2. /\ failedTasks' = failedTasks + Cardinality({t} \ Failed)
        /\ completedTasks' = completedTasks + Cardinality({t} \ Failed)
    BY DEF MarkFailed
  <2>3. failedTasks \in Nat /\ completedTasks \in Nat
    BY DEF TypeOK
  <2> QED BY <2>1, <2>2, <2>3
<1>4. OutcomeCoherent'
  BY <1>1, <1>2 DEF OutcomeCoherent, TypeOK, PC, Failed
<1>5. InFlight' = InFlight \ {t} /\ Failed' = Failed
  BY <1>2 DEF InFlight, Failed, TypeOK
<1>6. ActiveTasksExact'
  BY <1>5 DEF ActiveTasksExact
<1>7. FailedNodeOwesNothing'
  BY <1>5 DEF FailedNodeOwesNothing
<1>8. Arrived' = Arrived
  BY ArrivedUnchanged DEF PC
<1> QED BY <1>3, <1>4, <1>5, <1>6, <1>7, <1>8 DEF Accounting, Arrived

(* The end of a service: success on a running node, else EndOnFailedNode.  *)
LEMMA FinishServiceStep ==
  ASSUME IInv, TypeOK', NEW t \in Task, FinishService(t)
  PROVE  IInv'
<1> USE DEF IInv
<1>1. /\ pc[t] = "service" /\ t \notin succeeded
      /\ pc' = [pc EXCEPT ![t] = "done"]
      /\ activeTasks' = activeTasks \ {t}
      /\ UNCHANGED <<nodeFailed, taskArrivals>>
  BY DEF FinishService, OutcomeCoherent, health
<1>2. CASE nodeFailed
  <2>1. /\ MarkFailed({t} \ Failed, "NODE_CRASH_IN_SERVICE")
        /\ UNCHANGED <<succeeded, successfulTasks>>
    BY <1>2 DEF FinishService
  <2> QED BY <1>1, <1>2, <2>1, EndOnFailedNode DEF Reason
<1>3. CASE ~nodeFailed
  <2>1. /\ succeeded' = succeeded \cup {t}
        /\ successfulTasks' = successfulTasks + 1
        /\ completedTasks' = completedTasks + 1
        /\ UNCHANGED <<reason, failedTasks>>
    BY <1>3 DEF FinishService
  <2>2. OutcomeCoherent'
    BY <1>1, <2>1 DEF OutcomeCoherent, TypeOK, PC
  <2>3. InFlight' = InFlight \ {t} /\ Failed' = Failed
    BY <1>1, <2>1 DEF InFlight, Failed, TypeOK
  <2>4. ActiveTasksExact'
    BY <1>1, <2>1, <2>3 DEF ActiveTasksExact
  <2>5. FailedNodeOwesNothing'
    BY <1>1, <1>3 DEF FailedNodeOwesNothing
  <2>6. Arrived' = Arrived
    BY <1>1, ArrivedUnchanged DEF PC
  <2>7. successfulTasks' = Cardinality(succeeded')
    BY <1>1, <2>1, FiniteTallies, FS_AddElement DEF Accounting
  <2>8. completedTasks' = successfulTasks' + failedTasks'
    BY <2>1 DEF Accounting, TypeOK
  <2> QED BY <1>1, <2>1, <2>2, <2>3, <2>4, <2>5, <2>6, <2>7, <2>8
       DEF Accounting, Arrived
<1> QED BY <1>2, <1>3

(* A crash fails every listed task, once, and no other. *)
LEMMA CrashStep ==
  ASSUME IInv, TypeOK', CrashNode
  PROVE  IInv'
<1> USE DEF IInv
<1> DEFINE aborted == (activeTasks \ Failed) \ succeeded
<1>1. /\ nodeFailed' /\ activeTasks' = {}
      /\ MarkFailed(aborted, "NODE_CRASH_CRASH")
      /\ UNCHANGED <<pc, succeeded, taskArrivals, successfulTasks>>
  BY DEF CrashNode
<1>2. aborted \in SUBSET Task /\ aborted \cap Failed = {}
  BY DEF TypeOK
<1>3. aborted = InFlight \ (Failed \cup succeeded)
  BY DEF ActiveTasksExact
<1> HIDE DEF aborted
<1>4. /\ Failed' = Failed \cup aborted
      /\ failedTasks' = Cardinality(Failed')
      /\ Cardinality(aborted) \in Nat
      /\ completedTasks' = completedTasks + Cardinality(aborted)
      /\ failedTasks' = failedTasks + Cardinality(aborted)
  BY <1>1, <1>2, MarkFailedCounts DEF Accounting, Reason
<1>5. \A t \in Task : reason'[t] = IF t \in aborted THEN "NODE_CRASH_CRASH"
                                                    ELSE reason[t]
  BY <1>1 DEF MarkFailed
<1>6. OutcomeCoherent'
  <2>1. \A t \in aborted : pc[t] # "idle"
    BY <1>3 DEF InFlight
  <2> QED BY <1>1, <1>5, <2>1 DEF OutcomeCoherent
<1>7. InFlight' = InFlight
  BY <1>1 DEF InFlight
<1>8. InFlight \cap succeeded = {}
  BY DEF InFlight, OutcomeCoherent
<1>9. ActiveTasksExact'
  BY <1>1, <1>3, <1>4, <1>7 DEF ActiveTasksExact
<1>10. FailedNodeOwesNothing'
  BY <1>3, <1>4, <1>7, <1>8 DEF FailedNodeOwesNothing
<1>11. completedTasks' = successfulTasks' + failedTasks'
  <2>1. completedTasks = successfulTasks + failedTasks
    BY DEF Accounting
  <2>2. successfulTasks \in Nat /\ failedTasks \in Nat
    BY DEF TypeOK
  <2>3. successfulTasks' = successfulTasks
    BY <1>1
  <2> QED BY <1>4, <2>1, <2>2, <2>3
<1>12. Accounting'
  BY <1>1, <1>4, <1>11 DEF Accounting
<1> QED BY <1>6, <1>9, <1>10, <1>12

(* A step that leaves tasks and counters alone, and does not crash the     *)
(* node, keeps IInv.                                                       *)
LEMMA QuietStep ==
  ASSUME IInv, TypeOK', UNCHANGED <<tasks, counters>>,
         nodeFailed' \in {nodeFailed, FALSE}
  PROVE  IInv'
<1>1. /\ UNCHANGED <<pc, reason, succeeded, activeTasks>>
      /\ UNCHANGED <<taskArrivals, completedTasks, successfulTasks, failedTasks>>
  BY DEF tasks, counters
<1>2. InFlight' = InFlight /\ Failed' = Failed
  BY <1>1 DEF InFlight, Failed
<1>3. OutcomeCoherent'
  BY <1>1 DEF IInv, OutcomeCoherent
<1>4. ActiveTasksExact' /\ FailedNodeOwesNothing'
  <2>1. ActiveTasksExact'
    BY <1>1, <1>2 DEF IInv, ActiveTasksExact
  <2>2. nodeFailed' => nodeFailed
    BY Zenon
  <2>3. FailedNodeOwesNothing'
    BY <1>2, <2>2 DEF IInv, FailedNodeOwesNothing
  <2> QED BY <2>1, <2>3
<1>5. Accounting'
  <2>1. Arrived' = Arrived
    BY <1>1 DEF Arrived
  <2>2. /\ taskArrivals = Cardinality(Arrived)
        /\ failedTasks = Cardinality(Failed)
        /\ successfulTasks = Cardinality(succeeded)
        /\ completedTasks = successfulTasks + failedTasks
    BY DEF IInv, Accounting, Arrived
  <2> QED BY <1>1, <1>2, <2>1, <2>2 DEF Accounting, Arrived
<1> QED BY <1>3, <1>4, <1>5 DEF IInv

(* Every step of the node keeps the invariant.                             *)
LEMMA InvariantStep == IInv /\ [Next]_vars => IInv'
<1> SUFFICES ASSUME IInv, [Next]_vars PROVE IInv'
  OBVIOUS
<1>0. TypeOK'
  BY TypeStep DEF IInv
<1>1. CASE UNCHANGED vars
  BY <1>0, <1>1, QuietStep DEF vars, health
<1>2. ASSUME NEW t \in Task,
             ArriveAtFailedNode(t) \/ DropInTransit(t) \/ ArriveAtFullQueue(t)
      PROVE IInv'
  <2>1. PICK why \in Reason \ {"NONE"} : TurnAway(t, why)
    BY <1>2 DEF ArriveAtFailedNode, DropInTransit, ArriveAtFullQueue, Reason
  <2> QED BY <1>0, <2>1, TurnAwayStep
<1>3. ASSUME NEW t \in Task, Enqueue(t) PROVE IInv'
  BY <1>0, <1>3, EnqueueStep
<1>4. ASSUME NEW t \in Task, StartService(t) PROVE IInv'
  BY <1>0, <1>4, StartServiceStep
<1>5. ASSUME NEW t \in Task, AbortQueued(t) PROVE IInv'
  BY <1>0, <1>5, EndOnFailedNode DEF AbortQueued, Reason, health
<1>6. ASSUME NEW t \in Task, FinishService(t) PROVE IInv'
  BY <1>0, <1>6, FinishServiceStep
<1>7. ASSUME NEW t \in Task, NEW r \in Resource, ProcessRelease(r, t)
      PROVE IInv'
  BY <1>0, <1>7, QuietStep DEF ProcessRelease, health
<1>8. ASSUME NEW c \in BOOLEAN, UpdateMetrics(c) \/ Failover(c) PROVE IInv'
  BY <1>0, <1>8, QuietStep DEF UpdateMetrics, Failover
<1>9. CASE CrashNode
  BY <1>0, <1>9, CrashStep
<1>10. CASE InjectLossFault \/ ClearFaults
  BY <1>0, <1>10, QuietStep DEF InjectLossFault, ClearFaults
<1> QED
  BY <1>1, <1>2, <1>3, <1>4, <1>5, <1>6, <1>7, <1>8, <1>9, <1>10
  DEF Next, TaskStep

(* A fresh node satisfies the invariant.                                   *)
LEMMA InvariantInit == Init => IInv
<1> SUFFICES ASSUME Init PROVE IInv
  OBVIOUS
<1>1. Failed = {} /\ InFlight = {} /\ Arrived = {} /\ Cardinality({}) = 0
  BY FS_EmptySet DEF Init, Failed, InFlight, Arrived
<1>2. OutcomeCoherent
  BY DEF Init, OutcomeCoherent
<1>3. ActiveTasksExact /\ FailedNodeOwesNothing
  BY <1>1 DEF Init, ActiveTasksExact, FailedNodeOwesNothing
<1>4. Accounting
  <2>1. /\ taskArrivals = Cardinality(Arrived)
        /\ failedTasks = Cardinality(Failed)
        /\ successfulTasks = Cardinality(succeeded)
    BY <1>1 DEF Init
  <2>2. completedTasks = successfulTasks + failedTasks
    BY DEF Init
  <2> QED BY <2>1, <2>2 DEF Accounting, Arrived
<1> QED BY <1>2, <1>3, <1>4, InitType DEF IInv

(* What the first theorems below are drawn from.                           *)
LEMMA Invariance == Spec => []IInv
<1> QED BY InvariantInit, InvariantStep, PTL DEF Spec

(* The counters of a node are the tallies of its tasks, whatever the       *)
(* interleaving of task processes, crashes, expiries and failovers.        *)
THEOREM AccountingCorrect == Spec => []Accounting
<1>1. IInv => Accounting
  BY DEF IInv
<1> QED BY <1>1, Invariance, PTL

(* _active_tasks lists exactly the tasks in flight without an outcome.     *)
THEOREM ActiveTasksCorrect == Spec => []ActiveTasksExact
<1>1. IInv => ActiveTasksExact
  BY DEF IInv
<1> QED BY <1>1, Invariance, PTL

(* While a node is failed every task it accepted has an outcome: the       *)
(* branches that would fail a task as NODE_CRASH_ABORTED or as             *)
(* NODE_CRASH_IN_SERVICE never do.                                         *)
THEOREM FailedNodeCorrect == Spec => []FailedNodeOwesNothing
<1>1. IInv => FailedNodeOwesNothing
  BY DEF IInv
<1> QED BY <1>1, Invariance, PTL

-------------------------------------------------------------------------------
(* Why a task failed.  Of the reasons a task can carry while its process   *)
(* still runs only the crash of the node is possible, because a node that  *)
(* is failed has aborted every task it accepted (FailedNodeOwesNothing).   *)

ReasonsCoherent ==
  \A t \in Task :
    (pc[t] \in {"waiting", "service"} \/ t \in succeeded) =>
      reason[t] \in {"NONE", "NODE_CRASH_CRASH"}

-------------------------------------------------------------------------------
(* The strengthening of SlotDiscipline: a request belongs to a task that   *)
(* has arrived, a queued one to a task that waits; a resource that no      *)
(* failover has reached is empty; a Release event comes from a process     *)
(* that has ended, which is why a second one cannot be lost in the first.  *)

Held == [r \in Resource |-> ToSet(queue[r]) \cup users[r]]

NoRepeats(q) == \A i, j \in 1 .. Len(q) : q[i] = q[j] => i = j

QueuesCoherent ==
  \A r \in Resource :
    /\ NoRepeats(queue[r])
    /\ ToSet(queue[r]) \cap users[r] = {}
    /\ \A t \in ToSet(queue[r]) : pc[t] = "waiting"

RequestsCoherent ==
  /\ \A r \in Resource : users[r] \subseteq Arrived
  /\ \A r, s \in Resource : r # s => Held[r] \cap Held[s] = {}
  /\ \A t \in Task : pc[t] = "waiting" => \E r \in Resource : t \in Held[r]

UnreachedEmpty ==
  \A r \in Resource : r > current => queue[r] = <<>> /\ users[r] = {}

ReleasesEnded == \A r \in Resource : \A t \in releasing[r] : pc[t] = "done"

SInv ==
  /\ TypeOK
  /\ QueuesCoherent
  /\ RequestsCoherent
  /\ UnreachedEmpty
  /\ ReleasesEnded
  /\ NoLeakedSlot
  /\ WithinCapacity
  /\ NoIdleSlot

(* The set of a queue's entries, entry by entry. *)
LEMMA EntriesOf ==
  ASSUME NEW q \in Seq(Task)
  PROVE  /\ ToSet(q) \in SUBSET Task
         /\ \A t : t \in ToSet(q) <=> \E i \in 1 .. Len(q) : q[i] = t
         /\ q = <<>> <=> ToSet(q) = {}
         /\ q = <<>> <=> Len(q) = 0
<1>1. /\ Len(q) \in Nat
      /\ q \in [1 .. Len(q) -> Task]
      /\ DOMAIN q = 1 .. Len(q)
  BY LenProperties
<1>2. ToSet(q) = {q[i] : i \in 1 .. Len(q)}
  BY <1>1 DEF ToSet
<1>3. q = <<>> <=> Len(q) = 0
  BY EmptySeq
<1>4. Len(q) # 0 => 1 \in 1 .. Len(q)
  BY <1>1
<1> QED BY <1>1, <1>2, <1>3, <1>4

(* A queue without repetitions is as long as it has entries. *)
LEMMA NoRepeatsCount ==
  ASSUME NEW q \in Seq(Task), NoRepeats(q)
  PROVE  Cardinality(ToSet(q)) = Len(q)
<1>1. Len(q) \in Nat /\ q \in [1 .. Len(q) -> Task]
  BY LenProperties
<1>2. q \in Surjection(1 .. Len(q), ToSet(q))
  BY <1>1, EntriesOf DEF Surjection
<1>3. q \in Injection(1 .. Len(q), ToSet(q))
  BY <1>1, EntriesOf DEF Injection, IsInjective, NoRepeats
<1>4. IsFiniteSet(1 .. Len(q)) /\ Cardinality(1 .. Len(q)) = Len(q)
  BY <1>1, FS_Interval
<1> QED BY <1>2, <1>3, <1>4, FS_Surjection

(* A new entry at the end, and the first entry taken away. *)
LEMMA AppendEntries ==
  ASSUME NEW q \in Seq(Task), NEW t \in Task \ ToSet(q), NoRepeats(q)
  PROVE  /\ ToSet(Append(q, t)) = ToSet(q) \cup {t}
         /\ NoRepeats(Append(q, t))
         /\ Append(q, t) # <<>>
<1> DEFINE a == Append(q, t)
<1>1. /\ a \in Seq(Task) /\ a # <<>> /\ Len(a) = Len(q) + 1 /\ Len(q) \in Nat
      /\ \A i \in 1 .. Len(q) : a[i] = q[i]
      /\ a[Len(q) + 1] = t
  BY AppendProperties, LenProperties
<1> HIDE DEF a
<1>2. \A i \in 1 .. Len(a) : i \in 1 .. Len(q) \/ i = Len(q) + 1
  BY <1>1
<1>3. \A i \in 1 .. Len(q) : i \in 1 .. Len(a)
  BY <1>1
<1>4. Len(q) + 1 \in 1 .. Len(a)
  BY <1>1
<1>5. \A u : u \in ToSet(a) <=> u \in ToSet(q) \/ u = t
  BY <1>1, <1>2, <1>3, <1>4, EntriesOf
<1>6. NoRepeats(a)
  BY <1>1, <1>2, EntriesOf DEF NoRepeats
<1> QED BY <1>1, <1>5, <1>6 DEF a

(* Taking the head of a queue without repetitions removes just that task.  *)
LEMMA TailEntries ==
  ASSUME NEW q \in Seq(Task), NoRepeats(q), q # <<>>
  PROVE  /\ Head(q) \in Task /\ Tail(q) \in Seq(Task)
         /\ ToSet(q) = ToSet(Tail(q)) \cup {Head(q)}
         /\ Head(q) \notin ToSet(Tail(q))
         /\ NoRepeats(Tail(q))
<1> DEFINE a == Tail(q)
           n == Len(q)
<1>1. /\ Head(q) \in Task /\ a \in Seq(Task) /\ Len(a) = n - 1
      /\ n \in Nat \ {0}
      /\ \A i \in 1 .. Len(a) : a[i] = q[i + 1]
      /\ Head(q) = q[1]
  BY HeadTailProperties, EmptySeq DEF Head
<1> HIDE DEF a, n
<1>2. \A i \in 1 .. Len(a) : i + 1 \in 1 .. n /\ i + 1 # 1
  BY <1>1
<1>3. \A i \in 1 .. n : i = 1 \/ (i - 1 \in 1 .. Len(a) /\ (i - 1) + 1 = i)
  BY <1>1
<1>4. 1 \in 1 .. n
  BY <1>1
<1>5. \A u : u \in ToSet(q) <=> \E i \in 1 .. n : q[i] = u
  BY EntriesOf DEF n
<1>6. \A u : u \in ToSet(a) <=> \E i \in 1 .. Len(a) : a[i] = u
  BY <1>1, EntriesOf
<1>7. \A i, j \in 1 .. n : q[i] = q[j] => i = j
  BY DEF NoRepeats, n
<1>8. \A u \in ToSet(q) : u = Head(q) \/ u \in ToSet(a)
  <2> TAKE u \in ToSet(q)
  <2>1. PICK i \in 1 .. n : q[i] = u
    BY <1>5
  <2>2. CASE i = 1
    BY <1>1, <2>1, <2>2
  <2>3. CASE i # 1
    <3>1. i - 1 \in 1 .. Len(a) /\ (i - 1) + 1 = i
      BY <1>3, <2>3
    <3>2. a[i - 1] = q[(i - 1) + 1]
      BY <1>1, <3>1
    <3> QED BY <1>6, <2>1, <3>1, <3>2
  <2> QED BY <2>2, <2>3
<1>9. \A u \in ToSet(a) : u \in ToSet(q) /\ u # Head(q)
  BY <1>1, <1>2, <1>4, <1>5, <1>6, <1>7
<1>10. Head(q) \in ToSet(q)
  BY <1>1, <1>4, <1>5
<1>11. NoRepeats(a)
  <2> SUFFICES ASSUME NEW i \in 1 .. Len(a), NEW j \in 1 .. Len(a), a[i] = a[j]
               PROVE  i = j
    BY DEF NoRepeats
  <2>1. q[i + 1] = q[j + 1]
    BY <1>1
  <2>2. i + 1 = j + 1
    BY <1>2, <1>7, <2>1
  <2> QED BY <2>2, <1>1
<1> QED BY <1>1, <1>8, <1>9, <1>10, <1>11 DEF a

(* What one trigger does: it grants the oldest request or finds nothing to *)
(* grant; no request is lost, copied or moved elsewhere.                   *)
LEMMA TriggerEffect ==
  ASSUME TypeOK, NEW r \in Resource, NEW q \in Seq(Task), NoRepeats(q),
         ToSet(q) \cap users[r] = {}, Trigger(r, q, users[r])
  PROVE  /\ \A s \in Resource \ {r} : queue'[s] = queue[s] /\ users'[s] = users[s]
         /\ NoRepeats(queue'[r])
         /\ ToSet(queue'[r]) \cap users'[r] = {}
         /\ ToSet(queue'[r]) \cup users'[r] = ToSet(q) \cup users[r]
         /\ ToSet(queue'[r]) \subseteq ToSet(q)
         /\ users[r] \subseteq users'[r]
         /\ \/ /\ queue'[r] = q /\ users'[r] = users[r]
               /\ q = <<>> \/ Cardinality(users[r]) >= Concurrency
            \/ /\ Cardinality(users[r]) < Concurrency
               /\ Cardinality(users'[r]) = Cardinality(users[r]) + 1
               /\ queue'[r] = Tail(q) /\ q # <<>>
<1>1. /\ users[r] \in SUBSET Task /\ IsFiniteSet(users[r])
      /\ Cardinality(users[r]) \in Nat /\ Concurrency \in Nat
  BY NodeAssumption, FS_Subset, FS_CardinalityType DEF TypeOK
<1>2. /\ queue \in [Resource -> Seq(Task)]
      /\ users \in [Resource -> SUBSET Task]
  BY DEF TypeOK
<1>3. CASE q # <<>> /\ Cardinality(users[r]) < Concurrency
  <2>1. /\ queue' = [queue EXCEPT ![r] = Tail(q)]
        /\ users' = [users EXCEPT ![r] = users[r] \cup {Head(q)}]
    BY <1>3 DEF Trigger
  <2>2. /\ queue'[r] = Tail(q) /\ users'[r] = users[r] \cup {Head(q)}
        /\ \A s \in Resource \ {r} : queue'[s] = queue[s] /\ users'[s] = users[s]
    BY <1>2, <2>1
  <2>3. /\ ToSet(q) = ToSet(Tail(q)) \cup {Head(q)}
        /\ Head(q) \notin ToSet(Tail(q))
        /\ NoRepeats(Tail(q))
    BY <1>3, TailEntries
  <2>4. Head(q) \notin users[r]
    BY <2>3
  <2>5. Cardinality(users[r] \cup {Head(q)}) = Cardinality(users[r]) + 1
    BY <1>1, <2>4, FS_AddElement
  <2>6. ToSet(Tail(q)) \cap (users[r] \cup {Head(q)}) = {}
    BY <2>3
  <2>7. ToSet(Tail(q)) \cup (users[r] \cup {Head(q)}) = ToSet(q) \cup users[r]
    BY <2>3
  <2> QED BY <1>3, <2>2, <2>3, <2>5, <2>6, <2>7
<1>4. CASE ~(q # <<>> /\ Cardinality(users[r]) < Concurrency)
  <2>1. /\ queue' = [queue EXCEPT ![r] = q]
        /\ users' = [users EXCEPT ![r] = users[r]]
    BY <1>4 DEF Trigger
  <2>2. /\ queue'[r] = q /\ users'[r] = users[r]
        /\ \A s \in Resource \ {r} : queue'[s] = queue[s] /\ users'[s] = users[s]
    BY <1>2, <2>1
  <2>3. q = <<>> \/ Cardinality(users[r]) >= Concurrency
    BY <1>1, <1>4
  <2> QED BY <2>2, <2>3
<1> QED BY <1>3, <1>4

(* What the steps of a task process do to SInv. *)

(* What TypeOK says of the resources, as the slot lemmas need it.          *)
LEMMA SlotsTyped ==
  ASSUME TypeOK
  PROVE  /\ Concurrency \in Nat /\ current \in Resource
         /\ \A r \in Resource :
              /\ queue[r] \in Seq(Task)
              /\ users[r] \in SUBSET Task /\ IsFiniteSet(users[r])
              /\ releasing[r] \in SUBSET Task /\ IsFiniteSet(releasing[r])
              /\ Cardinality(users[r]) \in Nat /\ Cardinality(releasing[r]) \in Nat
  BY NodeAssumption, FS_Subset, FS_CardinalityType DEF TypeOK

(* A step that leaves the resources alone, starts no wait and wakes no     *)
(* queued task keeps SInv.                                                 *)
LEMMA ProcessMoves ==
  ASSUME SInv, TypeOK', UNCHANGED resources, NEW t \in Task, NEW v \in PC,
         pc' = [pc EXCEPT ![t] = v],
         \/ pc[t] = "idle" /\ v = "done"
         \/ pc[t] = "waiting" /\ v = "service" /\ Granted(t)
  PROVE  SInv'
<1> USE DEF SInv
<1>1. /\ \A u \in Task : u # t => pc'[u] = pc[u]
      /\ pc'[t] = v /\ pc \in [Task -> PC]
      /\ UNCHANGED <<current, queue, users, releasing>>
  BY DEF TypeOK, resources
<1>2. \A r \in Resource : t \notin ToSet(queue[r])
  <2>1. CASE pc[t] = "idle"
    BY <2>1 DEF QueuesCoherent
  <2>2. CASE Granted(t)
    <3>1. PICK r \in Resource : t \in users[r]
      BY <2>2 DEF Granted
    <3> QED BY <3>1 DEF QueuesCoherent, RequestsCoherent, Held
  <2> QED BY <2>1, <2>2
<1>3. /\ Arrived \subseteq Arrived'
      /\ pc[t] = "idle" => t \notin Arrived
      /\ pc[t] # "idle" => InFlight' = InFlight
      /\ pc[t] = "idle" => InFlight' = InFlight
  BY <1>1 DEF Arrived, InFlight
<1>4. QueuesCoherent'
  <2>1. \A r \in Resource : ToSet(queue[r]) \in SUBSET Task
    BY SlotsTyped, EntriesOf
  <2> QED BY <1>1, <1>2, <2>1 DEF QueuesCoherent
<1>5. RequestsCoherent'
  <2>1. \A r \in Resource : Held'[r] = Held[r]
    BY <1>1 DEF Held
  <2>2. \A r \in Resource : users'[r] \subseteq Arrived'
    BY <1>1, <1>3 DEF RequestsCoherent
  <2>3. \A u \in Task : pc'[u] = "waiting" => pc[u] = "waiting"
    BY <1>1
  <2> QED BY <2>1, <2>2, <2>3 DEF RequestsCoherent
<1>6. UnreachedEmpty' /\ WithinCapacity' /\ NoIdleSlot'
  BY <1>1 DEF UnreachedEmpty, WithinCapacity, NoIdleSlot
<1>7. ReleasesEnded'
  <2>1. \A r \in Resource : releasing[r] \subseteq Task
    BY SlotsTyped
  <2> QED BY <1>1, <2>1 DEF ReleasesEnded
<1>8. NoLeakedSlot'
  BY <1>1, <1>3 DEF NoLeakedSlot
<1> QED BY <1>4, <1>5, <1>6, <1>7, <1>8

(* A request takes a free slot or joins the queue of the current resource. *)
LEMMA EnqueueSlots ==
  ASSUME SInv, TypeOK', NEW t \in Task, Enqueue(t)
  PROVE  SInv'
<1> USE DEF SInv
<1> DEFINE c == current
           q == Append(queue[c], t)
<1>1. /\ pc[t] = "idle" /\ pc' = [pc EXCEPT ![t] = "waiting"]
      /\ Trigger(c, q, users[c])
      /\ UNCHANGED <<current, releasing>>
  BY DEF Enqueue, Request
<1>2. /\ \A u \in Task : u # t => pc'[u] = pc[u]
      /\ pc'[t] = "waiting"
      /\ Arrived' = Arrived \cup {t} /\ t \notin Arrived
      /\ InFlight \subseteq InFlight' /\ t \in InFlight'
  BY <1>1 DEF TypeOK, Arrived, InFlight
<1>3. /\ \A r \in Resource : t \notin Held[r]
      /\ \A r \in Resource : Held[r] \subseteq Arrived
  <2>1. \A r \in Resource : ToSet(queue[r]) \in SUBSET Task
    BY SlotsTyped, EntriesOf
  <2>2. \A r \in Resource : ToSet(queue[r]) \subseteq Arrived
    BY <2>1 DEF QueuesCoherent, Arrived
  <2> QED BY <1>2, <2>2 DEF Held, RequestsCoherent
<1>4. c \in Resource /\ queue[c] \in Seq(Task)
  BY SlotsTyped
<1>5. /\ ToSet(q) = ToSet(queue[c]) \cup {t}
      /\ NoRepeats(q) /\ q # <<>> /\ q \in Seq(Task)
  BY <1>3, <1>4, AppendEntries, QueueTypes DEF Held, QueuesCoherent
<1>6. ToSet(q) \cap users[c] = {}
  BY <1>3, <1>4, <1>5 DEF Held, QueuesCoherent
<1>7. queue[c] = <<>> => Tail(q) = <<>>
  BY <1>4, HeadTailAppend
<1> HIDE DEF q, c
<1>8. /\ \A s \in Resource \ {c} : queue'[s] = queue[s] /\ users'[s] = users[s]
      /\ NoRepeats(queue'[c])
      /\ ToSet(queue'[c]) \cap users'[c] = {}
      /\ ToSet(queue'[c]) \cup users'[c] = ToSet(q) \cup users[c]
      /\ ToSet(queue'[c]) \subseteq ToSet(q)
      /\ users[c] \subseteq users'[c]
      /\ \/ /\ queue'[c] = q /\ users'[c] = users[c]
            /\ q = <<>> \/ Cardinality(users[c]) >= Concurrency
         \/ /\ Cardinality(users[c]) < Concurrency
            /\ Cardinality(users'[c]) = Cardinality(users[c]) + 1
            /\ queue'[c] = Tail(q) /\ q # <<>>
  BY <1>1, <1>4, <1>5, <1>6, TriggerEffect
<1>9. /\ \A r \in Resource \ {c} : Held'[r] = Held[r]
      /\ Held'[c] = Held[c] \cup {t}
  BY <1>4, <1>5, <1>8 DEF Held
<1>10. QueuesCoherent'
  <2>1. \A u \in ToSet(queue[c]) : u \in Task /\ pc'[u] = "waiting"
    BY <1>2, <1>4, EntriesOf DEF QueuesCoherent
  <2>2. \A u \in ToSet(queue'[c]) : pc'[u] = "waiting"
    BY <1>2, <1>5, <1>8, <2>1
  <2>3. ASSUME NEW r \in Resource, r # c
        PROVE  \A u \in ToSet(queue[r]) : pc'[u] = "waiting"
    BY <1>2, <2>3, SlotsTyped, EntriesOf DEF QueuesCoherent
  <2> QED BY <1>8, <2>2, <2>3 DEF QueuesCoherent
<1>11. RequestsCoherent'
  <2>1. \A r \in Resource : users'[r] \subseteq Held'[r]
    BY DEF Held
  <2>2. \A r \in Resource : users'[r] \subseteq Arrived'
    BY <1>2, <1>3, <1>9, <2>1
  <2>3. \A r, s \in Resource : r # s => Held'[r] \cap Held'[s] = {}
    BY <1>3, <1>9 DEF RequestsCoherent
  <2>4. \A u \in Task : pc'[u] = "waiting" => \E r \in Resource : u \in Held'[r]
    <3> TAKE u \in Task
    <3>1. CASE u = t
      BY <1>4, <1>9, <3>1
    <3>2. CASE u # t
      BY <1>2, <1>9, <3>2 DEF RequestsCoherent
    <3> QED BY <3>1, <3>2
  <2> QED BY <2>2, <2>3, <2>4 DEF RequestsCoherent
<1>12. UnreachedEmpty'
  <2>1. \A r \in Resource : r > current => r # c
    BY DEF c, Resource
  <2> QED BY <1>1, <1>8, <2>1 DEF UnreachedEmpty
<1>13. ReleasesEnded'
  BY <1>1, <1>2, SlotsTyped DEF ReleasesEnded
<1>14. NoLeakedSlot'
  <2>1. users[c] \subseteq InFlight
    BY DEF NoLeakedSlot, c
  <2>2. \A u \in ToSet(queue[c]) : u \in InFlight
    BY <1>4, EntriesOf DEF QueuesCoherent, InFlight
  <2>3. users'[c] \subseteq InFlight'
    BY <1>2, <1>5, <1>8, <2>1, <2>2
  <2> QED BY <1>1, <2>3 DEF NoLeakedSlot, c
<1>15. WithinCapacity'
  <2>1. Cardinality(users'[c]) <= Concurrency
    BY <1>4, <1>8, SlotsTyped DEF WithinCapacity
  <2> QED BY <1>8, <2>1 DEF WithinCapacity
<1>16. NoIdleSlot'
  <2>1. ASSUME queue'[c] # <<>>
        PROVE  Cardinality(users'[c]) + Cardinality(releasing[c]) >= Concurrency
    <3>1. CASE queue'[c] = q /\ Cardinality(users[c]) >= Concurrency
               /\ users'[c] = users[c]
      BY <1>4, <3>1, SlotsTyped
    <3>2. CASE /\ Cardinality(users'[c]) = Cardinality(users[c]) + 1
               /\ queue'[c] = Tail(q)
      <4>1. queue[c] # <<>>
        BY <1>7, <2>1, <3>2
      <4>2. Cardinality(users[c]) + Cardinality(releasing[c]) >= Concurrency
        BY <1>4, <4>1 DEF NoIdleSlot
      <4> QED BY <1>4, <3>2, <4>2, SlotsTyped
    <3> QED BY <1>5, <1>8, <3>1, <3>2
  <2> QED BY <1>1, <1>8, <2>1 DEF NoIdleSlot
<1> QED BY <1>10, <1>11, <1>12, <1>13, <1>14, <1>15, <1>16

(* A process that ends gives its slot back to the resource in use now,     *)
(* which need not be the one that granted it.                              *)
LEMMA EndSlots ==
  ASSUME SInv, TypeOK', NEW t \in Task, Release(t),
         pc[t] = "service" \/ (pc[t] = "waiting" /\ Granted(t)),
         pc' = [pc EXCEPT ![t] = "done"]
  PROVE  SInv'
<1> USE DEF SInv
<1> DEFINE c == current
<1>1. /\ \A u \in Task : u # t => pc'[u] = pc[u]
      /\ pc'[t] = "done"
      /\ Arrived' = Arrived
      /\ InFlight' = InFlight \ {t}
      /\ t \in InFlight
  BY DEF TypeOK, Arrived, InFlight
<1>2. /\ UNCHANGED <<current, queue>>
      /\ c \in Resource
      /\ \A r \in Resource \ {c} : users'[r] = users[r] /\ releasing'[r] = releasing[r]
      /\ users'[c] = users[c] \ {t}
      /\ releasing'[c] = releasing[c] \cup {t}
  BY DEF Release, TypeOK
<1> HIDE DEF c
<1>3. \A r \in Resource : t \notin ToSet(queue[r])
  <2>1. CASE pc[t] = "service"
    BY <2>1 DEF QueuesCoherent
  <2>2. CASE Granted(t)
    <3>1. PICK r \in Resource : t \in users[r]
      BY <2>2 DEF Granted
    <3> QED BY <3>1 DEF QueuesCoherent, RequestsCoherent, Held
  <2> QED BY <2>1, <2>2
<1>4. QueuesCoherent'
  <2>1. \A r \in Resource : ToSet(queue[r]) \in SUBSET Task
    BY SlotsTyped, EntriesOf
  <2>2. \A r \in Resource : users'[r] \subseteq users[r]
    BY <1>2
  <2> QED BY <1>1, <1>2, <1>3, <2>1, <2>2 DEF QueuesCoherent
<1>5. RequestsCoherent'
  <2>1. \A r \in Resource : Held'[r] \subseteq Held[r]
    BY <1>2 DEF Held
  <2>2. \A u \in Task : u # t => \A r \in Resource : u \in Held[r] => u \in Held'[r]
    BY <1>2 DEF Held
  <2>3. \A r \in Resource : users'[r] \subseteq Arrived'
    BY <1>1, <1>2 DEF RequestsCoherent
  <2>4. \A u \in Task : pc'[u] = "waiting" => u # t /\ pc[u] = "waiting"
    BY <1>1
  <2> QED BY <2>1, <2>2, <2>3, <2>4 DEF RequestsCoherent
<1>6. UnreachedEmpty'
  BY <1>2 DEF UnreachedEmpty
<1>7. ReleasesEnded'
  BY <1>1, <1>2, SlotsTyped DEF ReleasesEnded
<1>8. NoLeakedSlot'
  <2>1. users'[c] \subseteq InFlight'
    BY <1>1, <1>2 DEF NoLeakedSlot, c
  <2> QED BY <1>2, <2>1 DEF NoLeakedSlot, c
<1>9. /\ Cardinality(users'[c]) <= Cardinality(users[c])
      /\ Cardinality(users'[c]) >= Cardinality(users[c]) - 1
      /\ Cardinality(releasing'[c]) = Cardinality(releasing[c]) + 1
      /\ Cardinality(users'[c]) \in Nat
  <2>1. t \notin releasing[c]
    BY <1>1, <1>2 DEF ReleasesEnded, InFlight
  <2>2. Cardinality(users[c] \ {t})
          = IF t \in users[c] THEN Cardinality(users[c]) - 1
                              ELSE Cardinality(users[c])
    BY <1>2, SlotsTyped, FS_RemoveElement
  <2>3. Cardinality(releasing[c] \cup {t}) = Cardinality(releasing[c]) + 1
    BY <1>2, <2>1, SlotsTyped, FS_AddElement
  <2>4. Cardinality(users'[c]) \in Nat
    BY <1>2, SlotsTyped, FS_RemoveElement, FS_CardinalityType
  <2>5. Cardinality(users[c]) \in Nat
    BY <1>2, SlotsTyped
  <2> QED BY <1>2, <2>2, <2>3, <2>4, <2>5
<1>10. WithinCapacity'
  <2>1. Cardinality(users'[c]) <= Concurrency
    BY <1>2, <1>9, SlotsTyped DEF WithinCapacity
  <2> QED BY <1>2, <2>1 DEF WithinCapacity
<1>11. NoIdleSlot'
  <2>1. queue[c] # <<>> =>
          Cardinality(users'[c]) + Cardinality(releasing'[c]) >= Concurrency
    BY <1>2, <1>9, SlotsTyped DEF NoIdleSlot
  <2> QED BY <1>2, <2>1 DEF NoIdleSlot
<1> QED BY <1>4, <1>5, <1>6, <1>7, <1>8, <1>10, <1>11

(* The event of a release grants the slot it freed to the head of the      *)
(* queue, if there is one.                                                 *)
LEMMA ReleaseProcessed ==
  ASSUME SInv, TypeOK', NEW t \in Task, NEW r \in Resource, ProcessRelease(r, t)
  PROVE  SInv'
<1> USE DEF SInv
<1>1. /\ Trigger(r, queue[r], users[r])
      /\ UNCHANGED <<current, pc>>
      /\ \A s \in Resource \ {r} : releasing'[s] = releasing[s]
      /\ releasing'[r] = releasing[r] \ {t} /\ t \in releasing[r]
  BY DEF ProcessRelease, tasks, TypeOK
<1>2. /\ \A s \in Resource \ {r} : queue'[s] = queue[s] /\ users'[s] = users[s]
      /\ NoRepeats(queue'[r])
      /\ ToSet(queue'[r]) \cap users'[r] = {}
      /\ ToSet(queue'[r]) \cup users'[r] = ToSet(queue[r]) \cup users[r]
      /\ ToSet(queue'[r]) \subseteq ToSet(queue[r])
      /\ users[r] \subseteq users'[r]
      /\ \/ /\ queue'[r] = queue[r] /\ users'[r] = users[r]
            /\ queue[r] = <<>> \/ Cardinality(users[r]) >= Concurrency
         \/ /\ Cardinality(users[r]) < Concurrency
            /\ Cardinality(users'[r]) = Cardinality(users[r]) + 1
            /\ queue'[r] = Tail(queue[r]) /\ queue[r] # <<>>
  BY <1>1, SlotsTyped, TriggerEffect DEF QueuesCoherent
<1>3. Held' = Held
  BY <1>2 DEF Held
<1>4. Arrived' = Arrived /\ InFlight' = InFlight
  BY <1>1 DEF Arrived, InFlight
<1>5. QueuesCoherent'
  BY <1>1, <1>2 DEF QueuesCoherent
<1>6. \A u \in ToSet(queue[r]) : u \in InFlight /\ u \in Arrived
  BY SlotsTyped, EntriesOf DEF QueuesCoherent, InFlight, Arrived
<1>7. users'[r] \subseteq users[r] \cup ToSet(queue[r])
  BY <1>2
<1>8. RequestsCoherent'
  <2>1. \A s \in Resource : users'[s] \subseteq Arrived'
    BY <1>2, <1>4, <1>6, <1>7 DEF RequestsCoherent
  <2> QED BY <1>1, <1>3, <2>1 DEF RequestsCoherent
<1>9. UnreachedEmpty'
  <2>1. queue[r] = <<>> /\ users[r] = {} => queue'[r] = <<>> /\ users'[r] = {}
    BY <1>2, EntriesOf, SlotsTyped
  <2> QED BY <1>1, <1>2, <2>1 DEF UnreachedEmpty
<1>10. ReleasesEnded'
  BY <1>1 DEF ReleasesEnded
<1>11. NoLeakedSlot'
  BY <1>1, <1>2, <1>4, <1>6, <1>7 DEF NoLeakedSlot, TypeOK
<1>12. WithinCapacity'
  <2>1. Cardinality(users'[r]) <= Concurrency
    BY <1>2, SlotsTyped DEF WithinCapacity
  <2> QED BY <1>2, <2>1 DEF WithinCapacity
<1>13. NoIdleSlot'
  <2>1. Cardinality(releasing[r] \ {t}) = Cardinality(releasing[r]) - 1
    BY <1>1, SlotsTyped, FS_RemoveElement
  <2>2. Cardinality(releasing'[r]) \in Nat
    BY <1>1, SlotsTyped, FS_RemoveElement, FS_CardinalityType
  <2>3. queue'[r] # <<>> =>
          Cardinality(users'[r]) + Cardinality(releasing'[r]) >= Concurrency
    <3>1. CASE queue'[r] = queue[r] /\ users'[r] = users[r]
               /\ (queue[r] = <<>> \/ Cardinality(users[r]) >= Concurrency)
      BY <2>2, <3>1, SlotsTyped
    <3>2. CASE /\ Cardinality(users'[r]) = Cardinality(users[r]) + 1
               /\ queue[r] # <<>>
      <4>1. Cardinality(users[r]) + Cardinality(releasing[r]) >= Concurrency
        BY <3>2 DEF NoIdleSlot
      <4> QED BY <1>1, <2>1, <3>2, <4>1, SlotsTyped
    <3> QED BY <1>2, <3>1, <3>2
  <2> QED BY <1>1, <1>2, <2>3 DEF NoIdleSlot
<1> QED BY <1>5, <1>8, <1>9, <1>10, <1>11, <1>12, <1>13

(* A failover leaves every request where it is; the new resource is empty. *)
LEMMA FailoverSlots ==
  ASSUME SInv, TypeOK', NEW g \in BOOLEAN, Failover(g)
  PROVE  SInv'
<1> USE DEF SInv
<1>1. /\ current' = current + 1 /\ current \in Nat /\ current' \in Resource
      /\ UNCHANGED <<queue, users, releasing, pc>>
  BY DEF Failover, tasks, TypeOK, Resource
<1>2. Held' = Held /\ Arrived' = Arrived /\ InFlight' = InFlight
  BY <1>1 DEF Held, Arrived, InFlight
<1>3. QueuesCoherent' /\ ReleasesEnded'
  BY <1>1 DEF QueuesCoherent, ReleasesEnded
<1>4. RequestsCoherent'
  BY <1>1, <1>2 DEF RequestsCoherent
<1>5. UnreachedEmpty'
  <2>1. \A r \in Resource : r > current' => r > current
    BY <1>1 DEF Resource
  <2> QED BY <1>1, <2>1 DEF UnreachedEmpty
<1>6. NoLeakedSlot'
  <2>1. users[current'] = {}
    BY <1>1 DEF UnreachedEmpty, Resource
  <2> QED BY <1>1, <2>1 DEF NoLeakedSlot
<1>7. WithinCapacity' /\ NoIdleSlot'
  BY <1>1 DEF WithinCapacity, NoIdleSlot
<1> QED BY <1>3, <1>4, <1>5, <1>6, <1>7

(* A step that touches neither resources nor processes.                    *)
LEMMA QuietSlots ==
  ASSUME SInv, TypeOK', UNCHANGED <<current, queue, users, releasing, pc>>
  PROVE  SInv'
<1> USE DEF SInv
<1>1. Held' = Held /\ Arrived' = Arrived /\ InFlight' = InFlight
  BY DEF Held, Arrived, InFlight
<1>2. QueuesCoherent' /\ ReleasesEnded'
  BY DEF QueuesCoherent, ReleasesEnded
<1>3. RequestsCoherent' /\ UnreachedEmpty'
  BY <1>1 DEF RequestsCoherent, UnreachedEmpty
<1>4. NoLeakedSlot' /\ WithinCapacity' /\ NoIdleSlot'
  BY <1>1 DEF NoLeakedSlot, WithinCapacity, NoIdleSlot
<1> QED BY <1>2, <1>3, <1>4

(* Every step of the node keeps the slot invariant.                        *)
LEMMA SlotStep == SInv /\ [Next]_vars => SInv'
<1> SUFFICES ASSUME SInv, [Next]_vars PROVE SInv'
  OBVIOUS
<1>0. TypeOK'
  BY TypeStep DEF SInv
<1>1. CASE UNCHANGED vars
  BY <1>0, <1>1, QuietSlots DEF vars, resources, tasks
<1>2. ASSUME NEW t \in Task, NEW why, TurnAway(t, why) PROVE SInv'
  BY <1>0, <1>2, ProcessMoves DEF TurnAway, PC
<1>3. ASSUME NEW t \in Task, Enqueue(t) PROVE SInv'
  BY <1>0, <1>3, EnqueueSlots
<1>4. ASSUME NEW t \in Task, StartService(t) PROVE SInv'
  BY <1>0, <1>4, ProcessMoves DEF StartService, PC
<1>5. ASSUME NEW t \in Task, AbortQueued(t) PROVE SInv'
  BY <1>0, <1>5, EndSlots DEF AbortQueued
<1>6. ASSUME NEW t \in Task, FinishService(t) PROVE SInv'
  BY <1>0, <1>6, EndSlots DEF FinishService
<1>7. ASSUME NEW t \in Task, NEW r \in Resource, ProcessRelease(r, t) PROVE SInv'
  BY <1>0, <1>7, ReleaseProcessed
<1>8. ASSUME NEW g \in BOOLEAN, Failover(g) PROVE SInv'
  BY <1>0, <1>8, FailoverSlots
<1>9. ASSUME NEW g \in BOOLEAN, UpdateMetrics(g) PROVE SInv'
  BY <1>0, <1>9, QuietSlots DEF UpdateMetrics, resources, tasks
<1>10. CASE CrashNode
  BY <1>0, <1>10, QuietSlots DEF CrashNode, resources
<1>11. CASE InjectLossFault \/ ClearFaults
  BY <1>0, <1>11, QuietSlots DEF InjectLossFault, ClearFaults, resources, tasks
<1> QED
  BY <1>1, <1>2, <1>3, <1>4, <1>5, <1>6, <1>7, <1>8, <1>9, <1>10, <1>11
  DEF Next, TaskStep, ArriveAtFailedNode, DropInTransit, ArriveAtFullQueue

(* The resources of a fresh node are empty.                                *)
LEMMA SlotInit == Init => SInv
<1> SUFFICES ASSUME Init PROVE SInv
  OBVIOUS
<1>1. /\ TypeOK
      /\ \A r \in Resource : queue[r] = <<>> /\ users[r] = {} /\ releasing[r] = {}
      /\ \A t \in Task : pc[t] = "idle"
  BY InitType DEF Init
<1>2. <<>> \in Seq(Task) /\ Len(<<>>) = 0 /\ ToSet(<<>>) = {}
  BY EntriesOf, EmptySeq
<1>3. Cardinality({}) = 0 /\ Concurrency \in Nat
  BY FS_EmptySet, NodeAssumption
<1>4. QueuesCoherent
  BY <1>1, <1>2 DEF QueuesCoherent, NoRepeats
<1>5. RequestsCoherent
  BY <1>1, <1>2 DEF RequestsCoherent, Held
<1>6. NoLeakedSlot
  BY <1>1 DEF NoLeakedSlot, TypeOK
<1>7. WithinCapacity
  <2>1. \A r \in Resource : Cardinality(users[r]) = 0
    BY <1>1, <1>3
  <2> QED BY <1>3, <2>1 DEF WithinCapacity
<1>8. NoIdleSlot /\ UnreachedEmpty /\ ReleasesEnded
  BY <1>1 DEF NoIdleSlot, UnreachedEmpty, ReleasesEnded
<1> QED BY <1>1, <1>4, <1>5, <1>6, <1>7, <1>8 DEF SInv

(* A task has one request at most, in one resource, old or new.            *)
LEMMA RequestsInOnePlace ==
  ASSUME SInv
  PROVE  RequestsUnique
<1> USE DEF SInv
<1>1. \A r \in Resource : /\ ToSet(queue[r]) \cap users[r] = {}
                          /\ Cardinality(ToSet(queue[r])) = Len(queue[r])
  BY SlotsTyped, NoRepeatsCount DEF QueuesCoherent
<1>2. ASSUME NEW t \in Task
      PROVE  Cardinality({r \in Resource : t \in ToSet(queue[r]) \cup users[r]}) <= 1
  <2> DEFINE S == {r \in Resource : t \in ToSet(queue[r]) \cup users[r]}
  <2>1. \A r, s \in S : r = s
    BY DEF RequestsCoherent, Held
  <2> HIDE DEF S
  <2>2. CASE S = {}
    <3>1. Cardinality(S) = 0
      BY <2>2, FS_EmptySet
    <3> QED BY <3>1 DEF S
  <2>3. CASE S # {}
    <3>1. PICK r \in S : TRUE
      BY <2>3
    <3>2. S = {r}
      BY <2>1, <3>1
    <3>3. Cardinality(S) = 1
      BY <3>2, FS_Singleton
    <3> QED BY <3>3 DEF S
  <2> QED BY <2>2, <2>3
<1>3. \A t \in Task : pc[t] = "waiting" =>
        \E r \in Resource : t \in ToSet(queue[r]) \cup users[r]
  BY DEF RequestsCoherent, Held
<1> QED BY <1>1, <1>2, <1>3 DEF RequestsUnique

(* Slots are handed on without loss, double grants, overbooking or idling, *)
(* whatever crashes, expiries and failovers come between the grant of a    *)
(* slot and its release.                                                   *)
THEOREM SlotsCorrect == Spec => []SlotDiscipline
<1>1. SInv => SlotDiscipline
  BY RequestsInOnePlace DEF SInv, SlotDiscipline
<1> QED BY <1>1, SlotInit, SlotStep, PTL DEF Spec

(* A task is rejected for a full queue in one action only, and then        *)
(* something waits: the queue of the resource in use is at its limit.      *)
LEMMA RejectionStep ==
  ASSUME SInv, [Next]_vars, MaxQueue # 0, NEW t \in Task,
         reason[t] # "QUEUE_FULL", reason'[t] = "QUEUE_FULL"
  PROVE  FullQueueIsBusy
<1> USE DEF SInv
<1>1. QueueFull
  <2>1. CASE \E u \in Task : ArriveAtFullQueue(u) BY <2>1 DEF ArriveAtFullQueue
  <2>2. CASE \E u \in Task : \/ ArriveAtFailedNode(u) \/ DropInTransit(u)
                              \/ AbortQueued(u) \/ FinishService(u)
    BY <2>2 DEF ArriveAtFailedNode, DropInTransit, TurnAway, AbortQueued, FinishService,
                MarkFailed
  <2>3. CASE CrashNode BY <2>3 DEF CrashNode, MarkFailed
  <2>4. CASE \/ \E u \in Task : \/ Enqueue(u) \/ StartService(u)
                                \/ \E r \in Resource : ProcessRelease(r, u)
             \/ \E c \in BOOLEAN : UpdateMetrics(c) \/ Failover(c)
             \/ InjectLossFault \/ ClearFaults \/ UNCHANGED vars
    BY <2>4 DEF Enqueue, StartService, ProcessRelease, UpdateMetrics, Failover,
                InjectLossFault, ClearFaults, vars, tasks
  <2> QED BY <2>1, <2>2, <2>3, <2>4 DEF Next, TaskStep
<1> DEFINE q == queue[current]
           W == {u \in Task : pc[u] = "waiting"}
<1>2. current \in Resource /\ q \in Seq(Task) /\ NoRepeats(q)
      /\ \A u \in ToSet(q) : pc[u] = "waiting"
  BY DEF TypeOK, QueuesCoherent
<1>3. MaxQueue \in Nat \ {0} /\ Len(q) >= MaxQueue BY <1>1, NodeAssumption DEF QueueFull
<1>4. Cardinality(W) >= MaxQueue
  <2>1. Cardinality(ToSet(q)) = Len(q) /\ ToSet(q) \subseteq Task
    BY <1>2, NoRepeatsCount, EntriesOf
  <2>2. ToSet(q) \subseteq W BY <1>2, <2>1
  <2>3. IsFiniteSet(W) BY NodeAssumption, FS_Subset
  <2>4. Cardinality(ToSet(q)) <= Cardinality(W) /\ Cardinality(W) \in Nat
    BY <2>2, <2>3, FS_Subset, FS_CardinalityType
  <2>5. Len(q) \in Nat BY <1>2
  <2> HIDE DEF q, W
  <2> QED BY <1>3, <2>1, <2>4, <2>5
<1>5. q # <<>> BY <1>2, <1>3
<1>6. Cardinality(users[current]) + Cardinality(releasing[current]) >= Concurrency
  BY <1>2, <1>5 DEF NoIdleSlot
<1> QED BY <1>4, <1>6 DEF FullQueueIsBusy

(* No task is turned away from a node with an idle slot, also not between  *)
(* a release and the grant that follows it (queue limit of one or more).   *)
THEOREM RejectionsCorrect == Spec => RejectedOnlyWhenBusy
<1>1. SInv /\ [Next]_vars =>
        [ \A t \in Task :
            MaxQueue # 0 /\ reason[t] # "QUEUE_FULL" /\ reason'[t] = "QUEUE_FULL"
              => FullQueueIsBusy ]_vars
  BY RejectionStep
<1> QED BY <1>1, SlotInit, SlotStep, PTL DEF Spec, RejectedOnlyWhenBusy

-------------------------------------------------------------------------------
(* Reasons. *)

(* Every step keeps the reasons in agreement with the outcomes.            *)
LEMMA ReasonStep == IInv /\ ReasonsCoherent /\ [Next]_vars => ReasonsCoherent'
<1> SUFFICES ASSUME IInv, ReasonsCoherent, [Next]_vars PROVE ReasonsCoherent'
  OBVIOUS
<1> USE DEF IInv
<1>0. pc \in [Task -> PC] /\ reason \in [Task -> Reason]
  BY DEF TypeOK
<1>1. CASE UNCHANGED <<pc, reason, succeeded>>
  BY <1>1 DEF ReasonsCoherent
<1>2. ASSUME NEW t \in Task, NEW why, TurnAway(t, why) PROVE ReasonsCoherent'
  <2>1. /\ pc[t] = "idle" /\ t \notin succeeded /\ UNCHANGED succeeded
        /\ \A u \in Task : u # t => pc'[u] = pc[u] /\ reason'[u] = reason[u]
        /\ pc'[t] = "done"
    BY <1>0, <1>2 DEF TurnAway, MarkFailed, OutcomeCoherent
  <2> QED BY <2>1 DEF ReasonsCoherent
<1>3. ASSUME NEW t \in Task, Enqueue(t) PROVE ReasonsCoherent'
  <2>1. /\ reason[t] = "NONE" /\ UNCHANGED <<reason, succeeded>>
        /\ \A u \in Task : u # t => pc'[u] = pc[u]
    BY <1>0, <1>3 DEF Enqueue, OutcomeCoherent
  <2> QED BY <2>1 DEF ReasonsCoherent
<1>4. ASSUME NEW t \in Task, StartService(t) PROVE ReasonsCoherent'
  <2>1. /\ pc[t] = "waiting" /\ UNCHANGED <<reason, succeeded>>
        /\ \A u \in Task : u # t => pc'[u] = pc[u]
    BY <1>0, <1>4 DEF StartService
  <2> QED BY <2>1 DEF ReasonsCoherent
<1>5. ASSUME NEW t \in Task, pc[t] \in {"waiting", "service"},
             pc' = [pc EXCEPT ![t] = "done"],
             UNCHANGED reason, succeeded' \in {succeeded, succeeded \cup {t}}
      PROVE ReasonsCoherent'
  BY <1>0, <1>5 DEF ReasonsCoherent
<1>6. ASSUME NEW t \in InFlight, nodeFailed, NEW why, MarkFailed({t} \ Failed, why)
      PROVE UNCHANGED reason
  <2>1. {t} \ Failed = {}
    BY <1>6, AbortedAlready
  <2> QED BY <1>0, <1>6, <2>1 DEF MarkFailed
<1>7. ASSUME NEW t \in Task, AbortQueued(t) PROVE ReasonsCoherent'
  BY <1>5, <1>6, <1>7 DEF AbortQueued, InFlight
<1>8. ASSUME NEW t \in Task, FinishService(t) PROVE ReasonsCoherent'
  BY <1>5, <1>6, <1>8 DEF FinishService, InFlight
<1>9. CASE CrashNode
  <2>1. /\ UNCHANGED <<pc, succeeded>>
        /\ \A u \in Task : reason'[u] \in {reason[u], "NODE_CRASH_CRASH"}
    BY <1>9 DEF CrashNode, MarkFailed
  <2> QED BY <2>1 DEF ReasonsCoherent
<1> QED
  BY <1>1, <1>2, <1>3, <1>4, <1>7, <1>8, <1>9
  DEF Next, vars, tasks, TaskStep, ArriveAtFailedNode, DropInTransit,
      ArriveAtFullQueue, ProcessRelease, UpdateMetrics, Failover,
      InjectLossFault, ClearFaults

(* A task that succeeds although it was failed was failed by the crash of  *)
(* the node: a task that was turned away or dropped never succeeds.        *)
THEOREM TwoOutcomesCorrect == Spec => []TwoOutcomesOnlyByAbort
<1>1. Init => ReasonsCoherent
  BY DEF Init, ReasonsCoherent
<1>2. TypeOK /\ ReasonsCoherent => TwoOutcomesOnlyByAbort
  BY DEF TypeOK, ReasonsCoherent, TwoOutcomesOnlyByAbort
<1>3. IInv => TypeOK
  BY DEF IInv
<1> QED BY <1>1, <1>2, <1>3, ReasonStep, Invariance, PTL DEF Spec

-------------------------------------------------------------------------------
(* EdgeNode implements the safety part of TaskLedger when the node is only *)
(* brought back after its task processes have drained.                     *)

(* Under this discipline a task that has failed is in flight only while    *)
(* the node is down, so no service that ends on a running node belongs to  *)
(* a failed task.                                                          *)
NoZombies == ~nodeFailed => InFlight \cap Failed = {}

DInv == IInv /\ NoZombies

outcome == [t \in Task |-> OutcomeOf(t)]

(* A fresh node has no zombies.                                            *)
LEMMA DrainedInit == Init => DInv
<1> SUFFICES ASSUME Init PROVE DInv
  OBVIOUS
<1>1. InFlight = {}
  BY DEF Init, InFlight
<1> QED BY <1>1, InvariantInit DEF DInv, NoZombies

(* Under the drained discipline no step makes a zombie.                    *)
LEMMA DrainedStep == DInv /\ [DrainedNext]_vars => DInv'
<1> SUFFICES ASSUME DInv, [DrainedNext]_vars PROVE NoZombies'
  BY InvariantStep DEF DInv, DrainedNext
<1> USE DEF DInv, IInv
<1>1. CASE UNCHANGED vars
  BY <1>1 DEF vars, tasks, health, NoZombies, InFlight, Failed
<1>2. ASSUME NEW t \in Task, NEW why \in Reason \ {"NONE"}, TurnAway(t, why)
      PROVE NoZombies'
  <2>1. InFlight' = InFlight /\ t \notin InFlight /\ UNCHANGED nodeFailed
    BY <1>2 DEF TurnAway, InFlight, TypeOK, health
  <2>2. Failed' = Failed \cup {t}
    BY <1>2 DEF TurnAway, MarkFailed, Failed, TypeOK
  <2> QED BY <2>1, <2>2 DEF NoZombies
<1>3. ASSUME NEW t \in Task, Enqueue(t) PROVE NoZombies'
  <2>1. InFlight' = InFlight \cup {t} /\ Failed' = Failed /\ ~nodeFailed
    BY <1>3 DEF Enqueue, InFlight, Failed, TypeOK
  <2>2. t \notin Failed
    BY <1>3 DEF Enqueue, OutcomeCoherent, Failed
  <2> QED BY <2>1, <2>2 DEF NoZombies
<1>4. ASSUME NEW t \in Task, StartService(t) PROVE NoZombies'
  <2>1. InFlight' = InFlight /\ Failed' = Failed /\ ~nodeFailed
    BY <1>4 DEF StartService, InFlight, Failed, TypeOK
  <2> QED BY <2>1 DEF NoZombies
<1>5. ASSUME NEW t \in Task, AbortQueued(t) PROVE NoZombies'
  BY <1>5 DEF AbortQueued, NoZombies, health
<1>6. ASSUME NEW t \in Task, FinishService(t) PROVE NoZombies'
  <2>1. UNCHANGED nodeFailed
    BY <1>6 DEF FinishService, health
  <2>2. CASE nodeFailed
    BY <2>1, <2>2 DEF NoZombies
  <2>3. CASE ~nodeFailed
    <3>1. InFlight' = InFlight \ {t} /\ Failed' = Failed
      BY <1>6, <2>3 DEF FinishService, InFlight, Failed, TypeOK
    <3> QED BY <2>3, <3>1 DEF NoZombies
  <2> QED BY <2>2, <2>3
<1>7. ASSUME NEW t \in Task, NEW r \in Resource, ProcessRelease(r, t)
      PROVE NoZombies'
  BY <1>7 DEF ProcessRelease, tasks, health, NoZombies, InFlight, Failed
<1>8. ASSUME UNCHANGED tasks, nodeFailed' => nodeFailed, BroughtBack => InFlight = {}
      PROVE NoZombies'
  <2>1. InFlight' = InFlight /\ Failed' = Failed
    BY <1>8 DEF tasks, InFlight, Failed
  <2>2. CASE nodeFailed' 
    BY <2>2 DEF NoZombies
  <2>3. CASE ~nodeFailed' /\ nodeFailed
    BY <1>8, <2>1, <2>3 DEF NoZombies, BroughtBack
  <2>4. CASE ~nodeFailed' /\ ~nodeFailed
    BY <2>1, <2>4 DEF NoZombies
  <2> QED BY <2>2, <2>3, <2>4
<1>9. ASSUME NEW c \in BOOLEAN, UpdateMetrics(c) \/ Failover(c), DrainedNext
      PROVE NoZombies'
  <2>1. BroughtBack => InFlight = {}
    BY <1>9 DEF DrainedNext
  <2>2. UNCHANGED tasks
    BY <1>9 DEF UpdateMetrics, Failover
  <2>3. nodeFailed' => nodeFailed
    BY <1>9 DEF UpdateMetrics, Failover
  <2> QED BY <1>8, <2>1, <2>2, <2>3
<1>10. CASE CrashNode
  BY <1>10 DEF CrashNode, NoZombies
<1>11. ASSUME InjectLossFault \/ ClearFaults, DrainedNext PROVE NoZombies'
  BY <1>8, <1>11 DEF InjectLossFault, ClearFaults, DrainedNext
<1>12. ASSUME NEW t \in Task,
              ArriveAtFailedNode(t) \/ DropInTransit(t) \/ ArriveAtFullQueue(t)
       PROVE NoZombies'
  BY <1>2, <1>12 DEF ArriveAtFailedNode, DropInTransit, ArriveAtFullQueue, Reason
<1> QED
  BY <1>1, <1>12, <1>3, <1>4, <1>5, <1>6, <1>7, <1>9, <1>10, <1>11
  DEF Next, DrainedNext, TaskStep

-------------------------------------------------------------------------------
(* What OutcomeOf says, state by state. *)
LEMMA OutcomeCases ==
  ASSUME OutcomeCoherent, NEW t \in Task
  PROVE  /\ OutcomeOf(t) \in {"new", "open", "success", "failure"}
         /\ OutcomeOf(t) = "success" <=> t \in succeeded
         /\ OutcomeOf(t) = "failure" <=> t \notin succeeded /\ reason[t] # "NONE"
         /\ OutcomeOf(t) = "new"     <=> pc[t] = "idle"
         /\ OutcomeOf(t) = "open"    <=> /\ pc[t] # "idle"
                                         /\ t \notin succeeded
                                         /\ reason[t] = "NONE"
  BY DEF OutcomeOf, OutcomeCoherent

(* A step that changes neither reason, nor succeeded, nor who is idle, is  *)
(* a stutter of the ledger.                                                *)
LEMMA QuietOutcome ==
  ASSUME UNCHANGED <<reason, succeeded, taskArrivals, completedTasks>>,
         \A t \in Task : (pc[t] = "idle") <=> (pc'[t] = "idle")
  PROVE  UNCHANGED Ledger!ledger
<1>1. \A t \in Task : OutcomeOf(t)' = OutcomeOf(t)
  BY DEF OutcomeOf
<1>2. UNCHANGED outcome
  BY <1>1 DEF outcome
<1> QED BY <1>2 DEF Ledger!ledger, outcome

(* A task that leaves the ledger's state for another, the others staying.  *)
LEMMA OneOutcomeMoves ==
  ASSUME NEW t \in Task, NEW v, OutcomeOf(t)' = v,
         \A u \in Task \ {t} : OutcomeOf(u)' = OutcomeOf(u)
  PROVE  outcome' = [outcome EXCEPT ![t] = v]
  BY DEF outcome

(* A step of one process leaves the outcomes of the other tasks alone.     *)
LEMMA OthersKeepOutcome ==
  ASSUME TypeOK, OutcomeCoherent, OutcomeCoherent', NEW t \in Task, NEW v,
         pc' = [pc EXCEPT ![t] = v],
         \A u \in Task \ {t} : /\ reason'[u] = reason[u]
                               /\ u \in succeeded' <=> u \in succeeded
  PROVE  \A u \in Task \ {t} : OutcomeOf(u)' = OutcomeOf(u)
<1>1. \A u \in Task \ {t} : pc'[u] = pc[u]
  BY DEF TypeOK
<1> QED BY <1>1 DEF OutcomeOf

(* The ledger counts as the node counts. *)
LEMMA SameCardinality == \A S : Ledger!Cardinality(S) = Cardinality(S)
  BY Zenon DEF Ledger!Cardinality, Cardinality

(* Every step of the drained node is a step of the ledger or a stutter. *)
LEMMA StepSimulates ==
  ASSUME DInv, DInv', [DrainedNext]_vars
  PROVE  [Ledger!Next]_(Ledger!ledger)
<1> USE DEF DInv, IInv
<1>a. \A t \in Task : outcome[t] = OutcomeOf(t)
  BY DEF outcome
<1>1. CASE UNCHANGED vars
  BY <1>1, QuietOutcome DEF vars, tasks, counters
<1>2. ASSUME NEW t \in Task, NEW why \in Reason \ {"NONE"}, TurnAway(t, why)
      PROVE  Ledger!Refuse(t)
  <2>1. /\ pc[t] = "idle" /\ pc' = [pc EXCEPT ![t] = "done"]
        /\ taskArrivals' = taskArrivals + 1
        /\ UNCHANGED succeeded
        /\ reason' = [reason EXCEPT ![t] = why]
    BY <1>2 DEF TurnAway, MarkFailed, TypeOK
  <2>2. completedTasks' = completedTasks + 1
    BY <1>2, FS_Singleton DEF TurnAway, MarkFailed
  <2>3. OutcomeOf(t) = "new" /\ OutcomeOf(t)' = "failure"
    <3>1. t \notin succeeded' /\ reason'[t] # "NONE"
      BY <2>1 DEF OutcomeCoherent, TypeOK
    <3> QED BY <2>1, <3>1, OutcomeCases DEF OutcomeOf
  <2>4. outcome' = [outcome EXCEPT ![t] = "failure"]
    BY <2>1, <2>3, OthersKeepOutcome, OneOutcomeMoves DEF TypeOK
  <2> QED BY <1>a, <2>1, <2>2, <2>3, <2>4 DEF Ledger!Refuse, outcome
<1>3. ASSUME NEW t \in Task, Enqueue(t) PROVE Ledger!Open(t)
  <2>1. /\ pc[t] = "idle" /\ pc' = [pc EXCEPT ![t] = "waiting"]
        /\ taskArrivals' = taskArrivals + 1
        /\ UNCHANGED <<reason, succeeded, completedTasks>>
    BY <1>3 DEF Enqueue
  <2>2. OutcomeOf(t) = "new" /\ OutcomeOf(t)' = "open"
    <3>1. t \notin succeeded' /\ reason'[t] = "NONE" /\ pc'[t] = "waiting"
      BY <2>1 DEF OutcomeCoherent, TypeOK
    <3> QED BY <2>1, <3>1, OutcomeCases DEF OutcomeOf
  <2>3. outcome' = [outcome EXCEPT ![t] = "open"]
    BY <2>1, <2>2, OthersKeepOutcome, OneOutcomeMoves
  <2> QED BY <1>a, <2>1, <2>2, <2>3 DEF Ledger!Open, outcome
<1>4. ASSUME NEW t \in Task, StartService(t) PROVE UNCHANGED Ledger!ledger
  BY <1>4, QuietOutcome DEF StartService, counters, TypeOK
<1>5. ASSUME NEW t \in Task, pc[t] \in {"waiting", "service"}, nodeFailed,
             NEW why, MarkFailed({t} \ Failed, why),
             UNCHANGED <<succeeded, taskArrivals>>,
             pc' = [pc EXCEPT ![t] = "done"]
      PROVE  UNCHANGED Ledger!ledger
  <2>1. {t} \ Failed = {} /\ Cardinality({t} \ Failed) = 0
    BY <1>5, AbortedAlready, FS_EmptySet DEF InFlight
  <2>2. UNCHANGED reason
    BY <1>5, <2>1 DEF MarkFailed, TypeOK
  <2>3. UNCHANGED completedTasks
    BY <1>5, <2>1 DEF MarkFailed, TypeOK
  <2> QED BY <1>5, <2>2, <2>3, QuietOutcome DEF TypeOK
<1>6. ASSUME NEW t \in Task, FinishService(t), ~nodeFailed
      PROVE  Ledger!Succeed(t)
  <2>1. /\ pc[t] = "service" /\ pc' = [pc EXCEPT ![t] = "done"]
        /\ succeeded' = succeeded \cup {t}
        /\ completedTasks' = completedTasks + 1
        /\ UNCHANGED <<reason, taskArrivals>>
    BY <1>6 DEF FinishService
  <2>2. t \in InFlight /\ t \notin Failed
    BY <1>6, <2>1 DEF NoZombies, InFlight
  <2>3. OutcomeOf(t) = "open" /\ OutcomeOf(t)' = "success"
    BY <2>1, <2>2, OutcomeCases DEF OutcomeOf, OutcomeCoherent, Failed
  <2>4. outcome' = [outcome EXCEPT ![t] = "success"]
    BY <2>1, <2>3, OthersKeepOutcome, OneOutcomeMoves
  <2> QED BY <1>a, <2>1, <2>3, <2>4 DEF Ledger!Succeed, outcome
<1>7. ASSUME UNCHANGED <<tasks, counters>> PROVE UNCHANGED Ledger!ledger
  BY <1>7, QuietOutcome DEF tasks, counters
<1>8. CASE CrashNode
  <2> DEFINE opened  == {t \in Task : outcome[t] = "open"}
             aborted == (activeTasks \ Failed) \ succeeded
  <2>1. opened = aborted
    <3>1. aborted = InFlight \ (Failed \cup succeeded)
      BY DEF ActiveTasksExact
    <3>2. \A t \in Task : t \in aborted <=> OutcomeOf(t) = "open"
      BY <3>1, OutcomeCases DEF InFlight, Failed, OutcomeCoherent, TypeOK, PC
    <3>3. aborted \in SUBSET Task
      BY DEF TypeOK
    <3> QED BY <1>a, <3>2, <3>3
  <2>2. /\ reason' = [t \in Task |-> IF t \in aborted THEN "NODE_CRASH_CRASH"
                                                      ELSE reason[t]]
        /\ completedTasks' = completedTasks + Cardinality(aborted)
        /\ UNCHANGED <<pc, succeeded, taskArrivals>>
    BY <1>8 DEF CrashNode, MarkFailed
  <2>3. \A t \in Task : OutcomeOf(t)' =
           IF t \in aborted THEN "failure" ELSE OutcomeOf(t)
    <3>1. TAKE t \in Task
    <3>2. CASE t \in aborted
      BY <2>2, <3>2 DEF OutcomeOf
    <3>3. CASE t \notin aborted
      BY <2>2, <3>3 DEF OutcomeOf
    <3> QED BY <3>2, <3>3
  <2> HIDE DEF aborted
  <2>4. outcome' = [t \in Task |-> IF t \in opened THEN "failure" ELSE outcome[t]]
    BY <1>a, <2>1, <2>3 DEF outcome
  <2>5. completedTasks' = completedTasks + Cardinality(opened)
    BY <2>1, <2>2
  <2>6. Ledger!FailAllOpen
    BY <2>2, <2>4, <2>5, SameCardinality DEF Ledger!FailAllOpen, outcome
  <2> QED BY <2>6 DEF Ledger!Next
<1> QED
  <2>1. ASSUME NEW t \in Task,
               ArriveAtFailedNode(t) \/ DropInTransit(t) \/ ArriveAtFullQueue(t)
        PROVE  Ledger!Refuse(t)
    BY <1>2, <2>1
    DEF ArriveAtFailedNode, DropInTransit, ArriveAtFullQueue, Reason
  <2>2. ASSUME NEW t \in Task, AbortQueued(t) PROVE UNCHANGED Ledger!ledger
    BY <1>5, <2>2 DEF AbortQueued
  <2>3. ASSUME NEW t \in Task, FinishService(t), nodeFailed
        PROVE  UNCHANGED Ledger!ledger
    BY <1>5, <2>3 DEF FinishService
  <2>4. ASSUME \/ \E t \in Task, r \in Resource : ProcessRelease(r, t)
               \/ \E c \in BOOLEAN : UpdateMetrics(c) \/ Failover(c)
               \/ InjectLossFault
               \/ ClearFaults
        PROVE  UNCHANGED Ledger!ledger
    BY <1>7, <2>4
    DEF ProcessRelease, UpdateMetrics, Failover, InjectLossFault, ClearFaults
  <2>5. ASSUME NEW t \in Task,
               \/ ArriveAtFailedNode(t) \/ DropInTransit(t) \/ ArriveAtFullQueue(t)
               \/ Enqueue(t) \/ TaskStep(t)
        PROVE  Ledger!Next \/ UNCHANGED Ledger!ledger
    BY <2>5, <2>1, <1>3, <1>4, <2>2, <1>6, <2>3 DEF TaskStep, Ledger!Next
  <2>6. CASE Next
    <3>1. CASE \E t \in Task :
                 \/ ArriveAtFailedNode(t) \/ DropInTransit(t)
                 \/ ArriveAtFullQueue(t) \/ Enqueue(t) \/ TaskStep(t)
      BY <2>5, <3>1
    <3>2. CASE \/ \E t \in Task, r \in Resource : ProcessRelease(r, t)
               \/ \E c \in BOOLEAN : UpdateMetrics(c) \/ Failover(c)
               \/ InjectLossFault
               \/ ClearFaults
      BY <2>4, <3>2
    <3> QED BY <2>6, <3>1, <3>2, <1>8 DEF Next
  <2> QED
    BY <1>1, <2>6 DEF DrainedNext

(* The drained node keeps the ledger: every task is closed at most once    *)
(* and the counters of the node are the tallies of the ledger.             *)
THEOREM DrainedNodeKeepsLedger == DrainedSpec => Ledger!Safety
<1>1. Init => Ledger!Init
  <2>1. ASSUME Init PROVE outcome = [t \in Task |-> "new"]
    BY <2>1 DEF Init, outcome, OutcomeOf
  <2> QED BY <2>1 DEF Init, Ledger!Init, outcome
<1> QED BY <1>1, DrainedInit, DrainedStep, StepSimulates, PTL
     DEF DrainedSpec, Ledger!Safety

===============================================================================
