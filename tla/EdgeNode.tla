------------------------------- MODULE EdgeNode -------------------------------
(***************************************************************************)
(* simulation/edge_nodes.py: the discrete task service of one EdgeNode.    *)
(*                                                                         *)
(* Every task is a SimPy process running handle_task: it is turned away on *)
(* arrival or it requests a slot of self.resource, waits, is served and    *)
(* releases.  Between the yields of these processes the experiment loop    *)
(* crashes the node, clears its faults or fails it over to a NEW           *)
(* simpy.Resource, while the old processes keep running: nothing in the    *)
(* repository interrupts them.                                             *)
(*                                                                         *)
(* Simulated time is abstracted: a service may end at any later step.      *)
(* EdgeNode.active is not a variable: the only assignments to it are the   *)
(* TRUE of the constructor and the TRUE of the failover.                   *)
(***************************************************************************)
EXTENDS Naturals, Sequences, FiniteSets, SequencesExt

CONSTANTS
  Task,           \* the tasks scheduled on the node, each handled once
  Concurrency,    \* EdgeNode.concurrency, the capacity of a resource
  MaxQueue,       \* EdgeNode.max_queue_size
  NoLimit,        \* the value of MaxQueue that stands for None
  MaxResources    \* bound: resource objects ever created (1 + failovers)

ASSUME NodeAssumption ==
  /\ IsFiniteSet(Task)
  /\ Concurrency \in Nat \ {0}
  /\ NoLimit \notin Nat
  /\ MaxQueue \in Nat \cup {NoLimit}
  /\ MaxResources \in Nat \ {0}

Resource == 1 .. MaxResources

VARIABLES
  current,        \* the resource self.resource points to
  queue,          \* queue[r]: resource.queue, requests not yet granted
  users,          \* users[r]: resource.users, granted requests
  releasing,      \* releasing[r]: Release events of r not yet processed
  pc,             \* where the process of a task stands
  reason,         \* Task.failure_reason; "NONE" iff Task.failed is False
  succeeded,      \* the tasks with Task.success
  activeTasks,    \* EdgeNode._active_tasks
  nodeFailed,     \* EdgeNode.node_failed
  lossFault,      \* EdgeNode.fault_loss_offset > 0
  packetLoss,     \* EdgeNode.packet_loss: 0, in between, or 100
  taskArrivals, completedTasks, successfulTasks, failedTasks, executedTasks

resources == <<current, queue, users, releasing>>
tasks     == <<pc, reason, succeeded, activeTasks>>
health    == <<nodeFailed, lossFault, packetLoss>>
counters  == <<taskArrivals, completedTasks, successfulTasks, failedTasks,
               executedTasks>>
vars      == <<resources, tasks, health, counters>>

Reason == {"NONE", "NODE_FAILED", "PACKET_LOSS_DROP", "QUEUE_FULL",
           "NODE_CRASH_ABORTED", "NODE_CRASH_IN_SERVICE", "NODE_CRASH_CRASH"}

PC == {"idle", "waiting", "service", "done"}

Failed   == {t \in Task : reason[t] # "NONE"}
InFlight == {t \in Task : pc[t] \in {"waiting", "service"}}

TypeOK ==
  /\ current \in Resource
  /\ queue \in [Resource -> Seq(Task)]
  /\ users \in [Resource -> SUBSET Task]
  /\ releasing \in [Resource -> SUBSET Task]
  /\ pc \in [Task -> PC]
  /\ reason \in [Task -> Reason]
  /\ succeeded \in SUBSET Task
  /\ activeTasks \in SUBSET Task
  /\ nodeFailed \in BOOLEAN
  /\ lossFault \in BOOLEAN
  /\ packetLoss \in {"none", "some", "all"}
  /\ taskArrivals \in Nat
  /\ completedTasks \in Nat
  /\ successfulTasks \in Nat
  /\ failedTasks \in Nat
  /\ executedTasks \in Nat

Init ==
  /\ current = 1
  /\ queue = [r \in Resource |-> <<>>]
  /\ users = [r \in Resource |-> {}]
  /\ releasing = [r \in Resource |-> {}]
  /\ pc = [t \in Task |-> "idle"]
  /\ reason = [t \in Task |-> "NONE"]
  /\ succeeded = {}
  /\ activeTasks = {}
  /\ nodeFailed = FALSE
  /\ lossFault = FALSE
  /\ packetLoss = "some"
  /\ taskArrivals = 0
  /\ completedTasks = 0
  /\ successfulTasks = 0
  /\ failedTasks = 0
  /\ executedTasks = 0

-------------------------------------------------------------------------------
(* simpy.Resource, as this code uses it.  A request joins the queue and    *)
(* triggers one grant; a release leaves the users at once and triggers one *)
(* grant later, when its event is processed.  Releasing a request that the *)
(* resource does not hold is silently accepted.                            *)

(* One trigger on resource r whose queue is q and whose users are u. *)
Trigger(r, q, u) ==
  IF q # <<>> /\ Cardinality(u) < Concurrency
    THEN /\ queue' = [queue EXCEPT ![r] = Tail(q)]
         /\ users' = [users EXCEPT ![r] = u \cup {Head(q)}]
    ELSE /\ queue' = [queue EXCEPT ![r] = q]
         /\ users' = [users EXCEPT ![r] = u]

Request(t) ==
  /\ Trigger(current, Append(queue[current], t), users[current])
  /\ UNCHANGED <<current, releasing>>

(* Mutant of Release: the slot is freed and nobody is told. *)
ReleaseSilently(t) ==
  /\ users' = [users EXCEPT ![current] = @ \ {t}]
  /\ UNCHANGED <<current, queue, releasing>>

Release(t) ==
  /\ users' = [users EXCEPT ![current] = @ \ {t}]
  /\ releasing' = [releasing EXCEPT ![current] = @ \cup {t}]
  /\ UNCHANGED <<current, queue>>

(* The Release event of t on r is processed and lets the next request in. *)
ProcessRelease(r, t) ==
  /\ t \in releasing[r]
  /\ releasing' = [releasing EXCEPT ![r] = @ \ {t}]
  /\ Trigger(r, queue[r], users[r])
  /\ UNCHANGED <<current, tasks, health, counters>>

Granted(t) == \E r \in Resource : t \in users[r]

-------------------------------------------------------------------------------
(* handle_task, from one yield to the next. *)

(* Mark the tasks of S failed for reason why, as the code does wherever it *)
(* fails a task: both counters go up once per task.                        *)
MarkFailed(S, why) ==
  /\ reason' = [t \in Task |-> IF t \in S THEN why ELSE reason[t]]
  /\ failedTasks' = failedTasks + Cardinality(S)
  /\ completedTasks' = completedTasks + Cardinality(S)

QueueFull == MaxQueue # NoLimit /\ Len(queue[current]) >= MaxQueue

(* A task that is turned away enters and leaves _active_tasks in one step. *)
TurnAway(t, why) ==
  /\ pc[t] = "idle"
  /\ pc' = [pc EXCEPT ![t] = "done"]
  /\ taskArrivals' = taskArrivals + 1
  /\ MarkFailed({t}, why)
  /\ UNCHANGED <<resources, health, succeeded, activeTasks, successfulTasks,
                 executedTasks>>

ArriveAtFailedNode(t) == nodeFailed /\ TurnAway(t, "NODE_FAILED")

(* Mutant of DropInTransit: the return after the drop is missing. *)
DropWithoutReturn(t) ==
  /\ pc[t] = "idle"
  /\ ~nodeFailed
  /\ packetLoss # "none"
  /\ pc' = [pc EXCEPT ![t] = "waiting"]
  /\ taskArrivals' = taskArrivals + 1
  /\ MarkFailed({t}, "PACKET_LOSS_DROP")
  /\ Request(t)
  /\ UNCHANGED <<health, succeeded, activeTasks, successfulTasks, executedTasks>>

(* random.random() * 100 < packet_loss: certain when packet_loss is 100. *)
DropInTransit(t) ==
  /\ ~nodeFailed
  /\ packetLoss # "none"
  /\ TurnAway(t, "PACKET_LOSS_DROP")

ArriveAtFullQueue(t) ==
  /\ ~nodeFailed
  /\ packetLoss # "all"
  /\ QueueFull
  /\ TurnAway(t, "QUEUE_FULL")

Enqueue(t) ==
  /\ pc[t] = "idle"
  /\ ~nodeFailed
  /\ packetLoss # "all"
  /\ ~QueueFull
  /\ pc' = [pc EXCEPT ![t] = "waiting"]
  /\ taskArrivals' = taskArrivals + 1
  /\ activeTasks' = activeTasks \cup {t}
  /\ Request(t)
  /\ UNCHANGED <<reason, succeeded, health, completedTasks, successfulTasks,
                 failedTasks, executedTasks>>

(* The task has its slot and the node is up: service begins. *)
StartService(t) ==
  /\ pc[t] = "waiting"
  /\ Granted(t)
  /\ ~nodeFailed
  /\ pc' = [pc EXCEPT ![t] = "service"]
  /\ UNCHANGED <<reason, succeeded, activeTasks, resources, health, counters>>

(* Mutant of AbortQueued: the slot is not given back. *)
AbortQueuedHoldsSlot(t) ==
  /\ pc[t] = "waiting"
  /\ Granted(t)
  /\ nodeFailed
  /\ pc' = [pc EXCEPT ![t] = "done"]
  /\ MarkFailed({t} \ Failed, "NODE_CRASH_ABORTED")
  /\ activeTasks' = activeTasks \ {t}
  /\ UNCHANGED <<resources, succeeded, health, taskArrivals, successfulTasks,
                 executedTasks>>

(* The task has its slot but the node is down: it gives the slot back. *)
AbortQueued(t) ==
  /\ pc[t] = "waiting"
  /\ Granted(t)
  /\ nodeFailed
  /\ pc' = [pc EXCEPT ![t] = "done"]
  /\ MarkFailed({t} \ Failed, "NODE_CRASH_ABORTED")
  /\ activeTasks' = activeTasks \ {t}
  /\ Release(t)
  /\ UNCHANGED <<succeeded, health, taskArrivals, successfulTasks,
                 executedTasks>>

(* Mutants of FinishService: a task that the crash has failed already is   *)
(* failed again; the task stays in _active_tasks; the node is not looked   *)
(* at and the task succeeds.                                               *)
FinishServiceRecounts(t) ==
  /\ pc[t] = "service"
  /\ pc' = [pc EXCEPT ![t] = "done"]
  /\ IF nodeFailed
       THEN /\ MarkFailed({t}, "NODE_CRASH_IN_SERVICE")
            /\ UNCHANGED <<succeeded, successfulTasks>>
       ELSE /\ succeeded' = succeeded \cup {t}
            /\ successfulTasks' = successfulTasks + 1
            /\ completedTasks' = completedTasks + 1
            /\ UNCHANGED <<reason, failedTasks>>
  /\ executedTasks' = executedTasks + 1
  /\ activeTasks' = activeTasks \ {t}
  /\ Release(t)
  /\ UNCHANGED <<health, taskArrivals>>

FinishServiceKeepsActive(t) ==
  /\ pc[t] = "service"
  /\ ~nodeFailed
  /\ pc' = [pc EXCEPT ![t] = "done"]
  /\ succeeded' = succeeded \cup {t}
  /\ successfulTasks' = successfulTasks + 1
  /\ completedTasks' = completedTasks + 1
  /\ executedTasks' = executedTasks + 1
  /\ Release(t)
  /\ UNCHANGED <<reason, failedTasks, activeTasks, health, taskArrivals>>

FinishServiceBlindly(t) ==
  /\ pc[t] = "service"
  /\ pc' = [pc EXCEPT ![t] = "done"]
  /\ succeeded' = succeeded \cup {t}
  /\ successfulTasks' = successfulTasks + 1
  /\ completedTasks' = completedTasks + 1
  /\ executedTasks' = executedTasks + 1
  /\ activeTasks' = activeTasks \ {t}
  /\ Release(t)
  /\ UNCHANGED <<reason, failedTasks, health, taskArrivals>>

(* The service time elapses.  Only the state of the node decides whether   *)
(* the task succeeds: the code does not look at task.failed here.          *)
FinishService(t) ==
  /\ pc[t] = "service"
  /\ pc' = [pc EXCEPT ![t] = "done"]
  /\ IF nodeFailed
       THEN /\ MarkFailed({t} \ Failed, "NODE_CRASH_IN_SERVICE")
            /\ UNCHANGED <<succeeded, successfulTasks>>
       ELSE /\ succeeded' = succeeded \cup {t}
            /\ successfulTasks' = successfulTasks + 1
            /\ completedTasks' = completedTasks + 1
            /\ UNCHANGED <<reason, failedTasks>>
  /\ executedTasks' = executedTasks + 1
  /\ activeTasks' = activeTasks \ {t}
  /\ Release(t)
  /\ UNCHANGED <<health, taskArrivals>>

-------------------------------------------------------------------------------
(* The experiment loop: metrics, faults, recovery. *)

(* update_metrics: packet loss comes from the loss offset and from network *)
(* utilisation above 75%, which the workload may or may not cause.         *)
MetricsOf(down, loss, congested) ==
  packetLoss' = IF down THEN "all"
                ELSE IF loss \/ congested THEN "some" ELSE "none"

UpdateMetrics(congested) ==
  /\ MetricsOf(nodeFailed, lossFault, congested)
  /\ UNCHANGED <<nodeFailed, lossFault, resources, tasks, counters>>

(* Mutant of CrashNode: _abort_active_tasks is not called. *)
CrashNodeForgetsTasks ==
  /\ nodeFailed' = TRUE
  /\ UNCHANGED <<resources, tasks, counters, lossFault, packetLoss>>

(* apply_fault("EDGE_NODE_FAILURE") and _abort_active_tasks: the listed    *)
(* tasks are failed, their processes and requests are left as they are.    *)
CrashNode ==
  /\ nodeFailed' = TRUE
  /\ MarkFailed((activeTasks \ Failed) \ succeeded, "NODE_CRASH_CRASH")
  /\ activeTasks' = {}
  /\ UNCHANGED <<resources, pc, succeeded, lossFault, packetLoss, taskArrivals,
                 successfulTasks, executedTasks>>

(* apply_fault of NETWORK_CONGESTION or PACKET_LOSS. *)
InjectLossFault ==
  /\ lossFault' = TRUE
  /\ UNCHANGED <<nodeFailed, packetLoss, resources, tasks, counters>>

(* clear_faults, when a fault expires: the metrics are not recomputed. *)
ClearFaults ==
  /\ nodeFailed' = FALSE
  /\ lossFault' = FALSE
  /\ UNCHANGED <<packetLoss, resources, tasks, counters>>

(* apply_recovery_action("EDGE_NODE_FAILOVER"): a new resource takes over  *)
(* and the requests of the old one are left behind.                        *)
Failover(congested) ==
  /\ current < MaxResources
  /\ current' = current + 1
  /\ nodeFailed' = FALSE
  /\ lossFault' = FALSE
  /\ MetricsOf(FALSE, FALSE, congested)
  /\ UNCHANGED <<queue, users, releasing, tasks, counters>>

TaskStep(t) == StartService(t) \/ AbortQueued(t) \/ FinishService(t)

Next ==
  \/ \E t \in Task :
       \/ ArriveAtFailedNode(t)
       \/ DropInTransit(t)
       \/ ArriveAtFullQueue(t)
       \/ Enqueue(t)
       \/ TaskStep(t)
       \/ \E r \in Resource : ProcessRelease(r, t)
  \/ \E congested \in BOOLEAN : UpdateMetrics(congested) \/ Failover(congested)
  \/ CrashNode
  \/ InjectLossFault
  \/ ClearFaults

(* env.run drains every event that is due, and the loop keeps calling it:  *)
(* a process that can be resumed is resumed, a service ends.  Nothing      *)
(* obliges a task to arrive, a fault to strike or a recovery to happen.    *)
Fairness ==
  \A t \in Task :
    /\ WF_vars(TaskStep(t))
    /\ \A r \in Resource : WF_vars(ProcessRelease(r, t))

Spec     == Init /\ [][Next]_vars
FairSpec == Spec /\ Fairness

(* The same node under a disciplined operator: it is brought back, or      *)
(* moved to a new resource, only when no task process is still in flight.  *)
BroughtBack == current' # current \/ (nodeFailed /\ ~nodeFailed')
DrainedNext == Next /\ (BroughtBack => InFlight = {})

DrainedSpec     == Init /\ [][DrainedNext]_vars
FairDrainedSpec == DrainedSpec /\ Fairness

-------------------------------------------------------------------------------
(* Properties. *)

(* The counters say what happened to the tasks: each is the number of      *)
(* tasks in the state it counts, whatever the interleaving of processes,   *)
(* crashes and failovers (test_discrete_task_processing.py checks the sum  *)
(* completed = successful + failed after a step).                          *)
Accounting ==
  /\ taskArrivals = Cardinality({t \in Task : pc[t] # "idle"})
  /\ failedTasks = Cardinality(Failed)
  /\ successfulTasks = Cardinality(succeeded)
  /\ completedTasks = successfulTasks + failedTasks

(* _active_tasks lists exactly the tasks in flight that have no outcome    *)
(* yet, so a crash aborts all of them and fails none a second time.        *)
ActiveTasksExact == activeTasks = InFlight \ (Failed \cup succeeded)

(* A failed node owes no answer: every task it accepted has an outcome.    *)
FailedNodeOwesNothing == nodeFailed => InFlight \subseteq Failed

(* A slot of the resource in use is never lost to a finished process.      *)
NoLeakedSlot == users[current] \subseteq InFlight

(* No resource serves more requests at once than its capacity.             *)
WithinCapacity == \A r \in Resource : Cardinality(users[r]) <= Concurrency

(* Work conservation: when a request waits, every slot is in use or a      *)
(* Release event that will grant it is still to be processed.              *)
NoIdleSlot ==
  \A r \in Resource :
    queue[r] # <<>> =>
      Cardinality(users[r]) + Cardinality(releasing[r]) >= Concurrency

(* A request is in one place only: queued once, or granted, in a single    *)
(* resource; and every process that waits has such a request.              *)
RequestsUnique ==
  /\ \A r \in Resource :
       /\ ToSet(queue[r]) \cap users[r] = {}
       /\ Cardinality(ToSet(queue[r])) = Len(queue[r])
  /\ \A t \in Task :
       /\ pc[t] = "waiting" => \E r \in Resource : t \in ToSet(queue[r]) \cup users[r]
       /\ Cardinality({r \in Resource : t \in ToSet(queue[r]) \cup users[r]}) <= 1

(* The slots are handed on without loss, double grants or overbooking,     *)
(* whatever crashes, failovers and aborts come between two events.         *)
SlotDiscipline == NoLeakedSlot /\ WithinCapacity /\ NoIdleSlot /\ RequestsUnique

(* A task turned away because the queue is full finds as many tasks        *)
(* waiting as the limit says and no idle slot: each is in use or on its    *)
(* way to one of them (test_discrete_task_processing.py:142, "T1 takes     *)
(* service, T2 enters queue, T3 dropped").                                 *)
FullQueueIsBusy ==
  /\ Cardinality({t \in Task : pc[t] = "waiting"}) >= MaxQueue
  /\ Cardinality(users[current]) + Cardinality(releasing[current]) >= Concurrency

RejectedOnlyWhenBusy ==
  [][ \A t \in Task :
        MaxQueue # 0 /\ reason[t] # "QUEUE_FULL" /\ reason'[t] = "QUEUE_FULL"
          => FullQueueIsBusy ]_vars

(* Only tasks whose abort was overtaken by a recovery end up with two      *)
(* outcomes: a task that was turned away or dropped never succeeds.        *)
TwoOutcomesOnlyByAbort ==
  \A t \in succeeded : reason[t] \in {"NONE", "NODE_CRASH_CRASH"}

(* Starvation freedom: a waiting task is eventually done, unless a         *)
(* failover has left its request in a resource nobody grants any more.     *)
Stranded(t) == \E r \in Resource \ {current} : t \in ToSet(queue[r])

ServedOrStranded ==
  \A t \in Task : pc[t] = "waiting" ~> (pc[t] = "done" \/ Stranded(t))

-------------------------------------------------------------------------------
(* Statements of the source that the code does not keep. *)

(* edge_nodes.py: "Abort all currently waiting or in-service tasks when    *)
(* node fails": an aborted task does not succeed later.                    *)
AbortedStaysAborted ==
  \A t \in Task : reason[t] = "NODE_CRASH_CRASH" => t \notin succeeded

===============================================================================
