------------------------------- MODULE CausalFT -------------------------------
(***************************************************************************)
(* algorithms/causal_ft: the closed loop of the proposed algorithm.        *)
(*                                                                         *)
(* A stream of records, possibly of several nodes, passes the detector;    *)
(* an anomalous one is diagnosed and AdaptiveCausalRecoveryPolicy decides  *)
(* an action from the fault class of the cause and from what it remembers  *)
(* of the node: a cooldown, counted in stream positions, and a count of    *)
(* faults that escalates to a migration.                                   *)
(*                                                                         *)
(* The pipeline and the policy hold a reference to the state object each.  *)
(* initialize with a window_size replaces the pipeline's, so that a later  *)
(* reset reaches another object than the one the policy decides on.        *)
(*                                                                         *)
(* Nondeterministic: the verdict of the detector and the class of the top  *)
(* root cause (numeric code).                                              *)
(***************************************************************************)
EXTENDS Naturals, Sequences, FiniteSets, FiniteSetsExt

CONSTANTS
  Node,           \* the node ids records come from
  Backup,         \* "edge_backup_node", which is one of state.nodes
  WindowSize,     \* CausalFTState.window_size, the maxlen of its deques
  MaxRecords,     \* bound: records over all streams
  MaxStreams      \* bound: streams, with a reset between two of them

ASSUME CausalFTAssumption ==
  /\ WindowSize \in Nat \ {0}
  /\ MaxRecords \in Nat
  /\ MaxStreams \in Nat \ {0}

Simulated  == Node \cup {Backup}
FaultClass == {"flood", "application", "generic"}
Status     == {"HEALTHY", "DEGRADED", "MIGRATING"}
Action     == {"RATE_LIMIT_TRAFFIC", "ISOLATE_PORT_FLOW",
               "CONTAINER_SERVICE_RESTART", "DYNAMIC_RESOURCE_SCALE",
               "PREEMPTIVE_TASK_MIGRATION"}
Nothing    == "NO_ACTION"

VARIABLES
  nodes,          \* nodes[n]: the SimulatedEdgeNode of the policy's state
  executed,       \* executed_actions of the policy's state
  detected,       \* len(detected_faults) of the pipeline's state
  shared,         \* are the two states the same object?
  lastMitigation, \* pipeline.last_mitigation, or NoMitigation
  position,       \* stream_position of the next record
  stream,         \* number of the stream
  records,        \* records of the earlier streams, for the bound
  spell           \* the anomalies a node is in (history variable)

vars == <<nodes, executed, detected, shared, lastMitigation, position, stream,
          records, spell>>

TasksPerNode == 10
NoMitigation == [action |-> "NONE"]

FreshNode ==
  [status |-> "HEALTHY", tasks |-> TasksPerNode, limited |-> FALSE,
   isolated |-> FALSE, faults |-> 0, last |-> "NONE", cooldownUntil |-> 0]

SimulatedEdgeNode ==
  [status : Status, tasks : {0, TasksPerNode}, limited : BOOLEAN,
   isolated : BOOLEAN, faults : Nat, last : Action \cup {"NONE"},
   cooldownUntil : Nat]

(* The anomalies of a node since its last normal record: there is none,    *)
(* the policy acted upon none of them, or it did.                          *)
Spell == {"none", "ignored", "acted"}

(* A decision, with the stream it belongs to and the spell it found.       *)
Decision == [node : Simulated, action : Action, at : Nat, tasks : Nat,
             stream : Nat, spell : Spell]

TypeOK ==
  /\ nodes \in [Simulated -> SimulatedEdgeNode]
  /\ executed \in Seq(Decision) /\ Len(executed) <= WindowSize
  /\ detected \in 0 .. WindowSize
  /\ shared \in BOOLEAN
  /\ \/ lastMitigation = NoMitigation
     \/ lastMitigation \in [node : Simulated, action : Action \cup {Nothing}]
  /\ position \in 0 .. MaxRecords
  /\ records \in 0 .. MaxRecords
  /\ stream \in 1 .. MaxStreams
  /\ spell \in [Node -> Spell]

Init ==
  /\ nodes = [n \in Simulated |-> FreshNode]
  /\ executed = <<>>
  /\ detected = 0
  /\ shared = TRUE
  /\ lastMitigation = NoMitigation
  /\ position = 0
  /\ stream = 1
  /\ records = 0
  /\ spell = [n \in Node |-> "none"]

-------------------------------------------------------------------------------
(* Append to a deque with maxlen WindowSize.                               *)
Push(s, x) ==
  IF Len(s) < WindowSize THEN Append(s, x) ELSE Append(Tail(s), x)

(* The length of detected_faults after one more anomaly.                   *)
Counted == IF detected < WindowSize THEN detected + 1 ELSE detected

InCooldown(n) == position < nodes[n].cooldownUntil

(* The action for the k-th fault of a node, of the given class.            *)
ChosenAction(k, class) ==
  CASE k >= 3 -> "PREEMPTIVE_TASK_MIGRATION"
    [] k < 3 /\ class = "flood" ->
         IF k = 1 THEN "RATE_LIMIT_TRAFFIC" ELSE "ISOLATE_PORT_FLOW"
    [] k < 3 /\ class = "application" -> "CONTAINER_SERVICE_RESTART"
    [] k < 3 /\ class = "generic" -> "DYNAMIC_RESOURCE_SCALE"

(* Records for which the node is left alone after an action.               *)
Cooldown(a) ==
  CASE a = "PREEMPTIVE_TASK_MIGRATION" -> 10
    [] a = "ISOLATE_PORT_FLOW" -> 8
    [] a = "CONTAINER_SERVICE_RESTART" -> 6
    [] OTHER -> 5

(* Mutant of Treated: a restart sets no cooldown. *)
TreatedWithoutCooldown(node, a) ==
  [ status |-> IF a = "PREEMPTIVE_TASK_MIGRATION" THEN "MIGRATING"
               ELSE "DEGRADED",
    tasks |-> IF a = "PREEMPTIVE_TASK_MIGRATION" THEN 0 ELSE node.tasks,
    limited |-> node.limited \/ a = "RATE_LIMIT_TRAFFIC",
    isolated |-> node.isolated \/ a = "ISOLATE_PORT_FLOW",
    faults |-> node.faults + 1,
    last |-> a,
    cooldownUntil |-> IF a = "CONTAINER_SERVICE_RESTART"
                        THEN node.cooldownUntil ELSE position + Cooldown(a) ]

(* The node after action a.                                                *)
Treated(node, a) ==
  [ status |-> IF a = "PREEMPTIVE_TASK_MIGRATION" THEN "MIGRATING"
               ELSE "DEGRADED",
    tasks |-> IF a = "PREEMPTIVE_TASK_MIGRATION" THEN 0 ELSE node.tasks,
    limited |-> node.limited \/ a = "RATE_LIMIT_TRAFFIC",
    isolated |-> node.isolated \/ a = "ISOLATE_PORT_FLOW",
    faults |-> node.faults + 1,
    last |-> a,
    cooldownUntil |-> position + Cooldown(a) ]

(* record_observation: only anomalies enter detected_faults.               *)
Advance ==
  /\ records + position < MaxRecords
  /\ position' = position + 1
  /\ UNCHANGED <<shared, stream, records>>

(* A record the detector finds normal.                                     *)
ProcessNormal(n) ==
  /\ Advance
  /\ spell' = [spell EXCEPT ![n] = "none"]
  /\ UNCHANGED <<nodes, executed, detected, lastMitigation>>

(* An anomaly on a node in its cooldown: no action, and no trace of it in  *)
(* the policy.                                                             *)
ProcessInCooldown(n) ==
  /\ Advance
  /\ InCooldown(n)
  /\ detected' = Counted
  /\ lastMitigation' = [node |-> n, action |-> Nothing]
  /\ spell' = [spell EXCEPT ![n] = IF @ = "none" THEN "ignored" ELSE @]
  /\ UNCHANGED <<nodes, executed>>

(* Mutant of ProcessFault: faults are counted in the cooldown as well. *)
ProcessFaultCountingAll(n, class) ==
  LET a == ChosenAction(nodes[n].faults + 1, class)
  IN  /\ Advance
      /\ spell' = [spell EXCEPT ![n] = "acted"]
      /\ nodes' = [nodes EXCEPT ![n] = IF InCooldown(n)
                     THEN [@ EXCEPT !.faults = @ + 1] ELSE Treated(@, a)]
      /\ executed' = IF InCooldown(n) THEN executed
                     ELSE Push(executed, [node |-> n, action |-> a,
                                 at |-> position, tasks |-> 0,
                                 stream |-> stream, spell |-> spell[n]])
      /\ detected' = Counted
      /\ lastMitigation' = [node |-> n, action |-> a]

(* An anomaly that decide_recovery acts upon.                              *)
ProcessFault(n, class) ==
  LET a == ChosenAction(nodes[n].faults + 1, class)
  IN  /\ Advance
      /\ ~ InCooldown(n)
      /\ spell' = [spell EXCEPT ![n] = "acted"]
      /\ nodes' = [nodes EXCEPT ![n] = Treated(@, a)]
      /\ executed' = Push(executed,
           [node |-> n, action |-> a, at |-> position,
            tasks |-> IF a = "PREEMPTIVE_TASK_MIGRATION"
                      THEN nodes[n].tasks ELSE 0,
            stream |-> stream, spell |-> spell[n]])
      /\ detected' = Counted
      /\ lastMitigation' = [node |-> n, action |-> a]

-------------------------------------------------------------------------------
(* Mutant of ResetNode: an evacuated node stays empty. *)
ResetNodeKeepsTasks(node) == [FreshNode EXCEPT !.tasks = node.tasks]

(* Mutant of ResetNode: a cooldown goes on in the next stream. *)
ResetNodeKeepsCooldown(node) ==
  [FreshNode EXCEPT !.cooldownUntil = node.cooldownUntil]

(* CausalFTState.reset, for one node.                                      *)
ResetNode(node) == FreshNode

(* reset: of the pipeline's state, which the policy may not share.         *)
ResetState ==
  /\ detected' = 0
  /\ lastMitigation' = NoMitigation
  /\ IF shared
       THEN /\ nodes' = [n \in Simulated |-> ResetNode(nodes[n])]
            /\ executed' = <<>>
       ELSE UNCHANGED <<nodes, executed>>

(* stop and reset after a stream, before another one.                      *)
Reset ==
  /\ stream < MaxStreams
  /\ ResetState
  /\ stream' = stream + 1
  /\ position' = 0
  /\ records' = records + position
  /\ spell' = [n \in Node |-> "none"]
  /\ UNCHANGED shared

(* initialize with a window_size, before a stream: a new state for the     *)
(* pipeline alone, reset at once.  Without one initialize is ResetState.   *)
InitializeWindow ==
  /\ position = 0
  /\ shared' = FALSE
  /\ detected' = 0
  /\ lastMitigation' = NoMitigation
  /\ UNCHANGED <<nodes, executed, position, stream, records, spell>>

Next ==
  \/ \E n \in Node : ProcessNormal(n)
  \/ \E n \in Node : ProcessInCooldown(n)
  \/ \E n \in Node, class \in FaultClass : ProcessFault(n, class)
  \/ Reset
  \/ InitializeWindow

Spec == Init /\ [][Next]_vars

-------------------------------------------------------------------------------
(* The decisions on n in the log, oldest first, by their index.            *)
DecisionsOn(n) == {i \in DOMAIN executed : executed[i].node = n}

Complete == Len(executed) < WindowSize

(* Two actions on a node are at least the cooldown of the first one apart, *)
(* whatever happens on other nodes in between.                             *)
CooldownHonoured ==
  \A n \in Simulated : \A i, j \in DecisionsOn(n) :
    i < j => executed[j].at >= executed[i].at + Cooldown(executed[i].action)

(* The decision before decision j on its node.                             *)
Previous(j) == Max({i \in DecisionsOn(executed[j].node) : i < j})

(* The ladder of actions is climbed in order: a node is evacuated only     *)
(* after two earlier actions on it and isolated only after one, and faults *)
(* in a row move it on: the second is not answered like a first one, and   *)
(* the third evacuates the node.  What faults that are not in a row do is  *)
(* left open here (ConsecutiveLadder).                                     *)
Ladder ==
  Complete =>
    \A n \in Simulated : \A j \in DecisionsOn(n) :
      LET before == Cardinality({i \in DecisionsOn(n) : i < j})
          second == executed[j].spell = "acted"
          third  == second /\ before >= 2 /\ executed[Previous(j)].spell = "acted"
      IN  /\ executed[j].action = "PREEMPTIVE_TASK_MIGRATION" => before >= 2
          /\ executed[j].action = "ISOLATE_PORT_FLOW" => before >= 1
          /\ second => before >= 1 /\ executed[j].action # "RATE_LIMIT_TRAFFIC"
          /\ third => executed[j].action = "PREEMPTIVE_TASK_MIGRATION"

(* Only consecutive faults evacuate a node, the third and later ones, as   *)
(* recovery_policy.py:101-103 has it; so the record of the node before is  *)
(* an anomaly as well.  The counter behind it is lowered by no normal      *)
(* record: three faults far apart evacuate the node too.                   *)
ConsecutiveLadder ==
  \A i \in DOMAIN executed :
    executed[i].action = "PREEMPTIVE_TASK_MIGRATION" => executed[i].spell # "none"

(* A node is left alone only because of an action on it in this stream: no *)
(* cooldown, which is a stream position, outlives the stream it is from.   *)
SilencedInStream ==
  Complete =>
    \A n \in Simulated :
      InCooldown(n) => \E i \in DecisionsOn(n) : executed[i].stream = stream

(* It is so as long as a reset of the pipeline reaches the policy.         *)
SilenceHasCause == shared => SilencedInStream

(* A node has lost its tasks only to a migration in the log, which says    *)
(* that it moved them: no node is empty without a decision that says so.   *)
TasksAccounted ==
  Complete =>
    \A n \in Simulated :
      nodes[n].tasks = TasksPerNode <=>
        \A i \in DecisionsOn(n) : executed[i].tasks = 0
===============================================================================
