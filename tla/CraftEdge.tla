------------------------------ MODULE CraftEdge ------------------------------
(***************************************************************************)
(* algorithms/craft_edge: the closed loop that learns which action helps.  *)
(*                                                                         *)
(* Every anomalous record is diagnosed, an action is chosen epsilon-       *)
(* greedily from a table of efficacies Q(cause, action), carried out on    *)
(* the simulator if the pipeline was given one and on a shadow node if     *)
(* not, measured, and the measured reward moves Q.  The first normal       *)
(* record after an anomalous one, of whatever node, ends the episode.      *)
(*                                                                         *)
(* Nondeterministic: the verdict of the detector, the cause the regression *)
(* ranks first, the raw demand a record carries (direct or estimated) and  *)
(* the random choice.  Efficacies, rewards and epsilon are integers in     *)
(* thousandths, metrics as in NodeHealth; divisions round down.            *)
(*                                                                         *)
(* An attached simulator is idle: whoever drives the pipeline does not run *)
(* it, so that its nodes change by recoveries alone.                       *)
(***************************************************************************)
EXTENDS Integers, FiniteSetsExt, Functions

CONSTANTS
  Node,         \* the node ids records come from
  Cause,        \* root-cause categories the diagnosis may yield
  Demand,       \* raw metrics a record may carry
  Setting,      \* configurations of the policy
  Alpha,        \* learning rate, in tenths
  BenefitWeight, CostWeight,   \* in tenths
  BaseLatency,  \* of a simulated node
  MaxCalls      \* bound: calls of process, initialize and reset

H == INSTANCE NodeHealth

Category == {"CPU_OVERLOAD", "MEMORY_OVERLOAD", "NETWORK_CONGESTION",
             "HIGH_LATENCY", "TRANSPORT_FLOOD", "APPLICATION_EXPLOIT",
             "NODE_FAILURE", "GENERIC_RESOURCE_FAULT"}
Action   == H!RecoveryAction \cup {"NO_ACTION"}
Metrics  == [H!Resource -> Nat]

Share    == 0 .. 1000   \* a probability or a factor, in thousandths

PolicySetting ==
  [epsilon : Share, min : Share, decay : Share,
   interval : Nat \ {0}, mode : {"interval", "episode", "other"}]

ASSUME CraftEdgeAssumption ==
  /\ Cause \subseteq Category
  /\ Demand \subseteq Metrics
  /\ Setting \subseteq PolicySetting
  /\ Alpha \in 0 .. 10 /\ BenefitWeight \in Nat /\ CostWeight \in Nat
  /\ BaseLatency \in Nat /\ MaxCalls \in Nat

VARIABLES
  setting,      \* of the policy; setting.epsilon is its initial_epsilon
  epsilon,      \* policy.epsilon
  table,        \* q_table and action_stats
  updates,      \* policy.update_count
  episodes,     \* policy.episode_count
  inEpisode,    \* pipeline.in_fault_episode
  recoveries,   \* recoveries_executed_count, and anomalies_detected_count
  last,         \* last_diagnosis, last_mitigation and last_outcome
  shadow,       \* mitigation factors of the shadow nodes
  attached,     \* was the pipeline given a simulator?
  simulator,    \* health of the nodes in that simulator
  calls         \* calls so far, for the bound

vars == <<setting, epsilon, table, updates, episodes, inEpisode, recoveries,
          last, shadow, attached, simulator, calls>>

-------------------------------------------------------------------------------
(* domain_priors, and default_q for the other pairs. *)
Prior(c, a) ==
  CASE <<c, a>> = <<"CPU_OVERLOAD", "WORKLOAD_REDISTRIBUTION">> -> 650
    [] <<c, a>> = <<"CPU_OVERLOAD", "RESOURCE_REBALANCING">> -> 550
    [] <<c, a>> = <<"MEMORY_OVERLOAD", "TASK_MIGRATION">> -> 650
    [] <<c, a>> = <<"NETWORK_CONGESTION", "TRAFFIC_REROUTING">> -> 650
    [] <<c, a>> = <<"TRANSPORT_FLOOD", "TRAFFIC_REROUTING">> -> 600
    [] <<c, a>> = <<"APPLICATION_EXPLOIT", "RESOURCE_REBALANCING">> -> 550
    [] <<c, a>> = <<"NODE_FAILURE", "EDGE_NODE_FAILOVER">> -> 700
    [] OTHER -> 500

(* ACTION_OPERATIONAL_COSTS. *)
Cost ==
  [ NO_ACTION |-> 0, RESOURCE_REBALANCING |-> 150,
    WORKLOAD_REDISTRIBUTION |-> 200, TRAFFIC_REROUTING |-> 250,
    TASK_MIGRATION |-> 500, EDGE_NODE_FAILOVER |-> 800 ]

Between(least, most, x) == Max({least, Min({most, x})})

(* Efficacies, benefits and rewards.                                       *)
Score == -1000 .. 1000

Clamp(x) == Between(-1000, 1000, x)

UntriedTable ==
  [p \in Cause \X Action |->
     [q |-> Prior(p[1], p[2]), attempts |-> 0, successes |-> 0]]

NoOutcome == [action |-> "NONE"]

Outcome ==
  [node : Node, cause : Cause, action : Action, applied : BOOLEAN,
   success : BOOLEAN, benefit : Score, reward : Score]

TypeOK ==
  /\ setting \in PolicySetting /\ epsilon \in Share
  /\ table \in [Cause \X Action ->
                  [q : Score, attempts : Nat, successes : Nat]]
  /\ updates \in Nat /\ episodes \in Nat /\ recoveries \in Nat
  /\ inEpisode \in BOOLEAN /\ attached \in BOOLEAN
  /\ last = NoOutcome \/ last \in Outcome
  /\ shadow \in [Node -> [H!Factor -> 1 .. 10]]
  /\ DOMAIN simulator \subseteq Node
  /\ simulator \in [DOMAIN simulator -> H!Health]
  /\ calls \in 0 .. MaxCalls

(* The constructor knows two decay modes and takes any other for the first. *)
Init ==
  /\ \E s \in Setting :
       setting = [s EXCEPT !.mode = IF @ = "episode" THEN @ ELSE "interval"]
  /\ epsilon = setting.epsilon
  /\ table = UntriedTable
  /\ updates = 0 /\ episodes = 0 /\ recoveries = 0 /\ calls = 0
  /\ inEpisode = FALSE
  /\ last = NoOutcome
  /\ shadow = [n \in Node |-> H!Unmitigated]
  /\ attached \in BOOLEAN
  /\ \E N \in SUBSET Node :
       /\ ~ attached => N = {}
       /\ simulator = [n \in N |-> H!InitialHealth]

-------------------------------------------------------------------------------
(* Shadow nodes. *)

(* update_from_telemetry: the metrics of a node with factors m under the   *)
(* raw demand d.                                                           *)
Ingest(d, m) ==
  [ cpu  |-> Between(500, 10000, (d.cpu * m["cpu"]) \div 10),
    mem  |-> Between(1000, 10000, (d.mem * m["mem"]) \div 10),
    net  |-> Between(500, 10000, (d.net * m["net"]) \div 10),
    lat  |-> Between(500, 50000, (d.lat * m["lat"]) \div 10),
    loss |-> Between(0, 10000, (d.loss * m["net"]) \div 10) ]

Scaled(v, tenths, least) == Max({least, (v * tenths) \div 10})

(* apply_recovery_action, the immediate effect on the metrics x.           *)
Relieve(x, a) ==
  CASE a = "WORKLOAD_REDISTRIBUTION" ->
         [x EXCEPT !["cpu"] = Scaled(@, 4, 500), !["lat"] = Scaled(@, 6, 500)]
    [] a = "TRAFFIC_REROUTING" ->
         [x EXCEPT !["net"] = Scaled(@, 3, 500), !["loss"] = Scaled(@, 2, 10),
                   !["lat"] = Scaled(@, 4, 500)]
    [] a = "TASK_MIGRATION" ->
         [x EXCEPT !["mem"] = Scaled(@, 3, 1000), !["cpu"] = Scaled(@, 5, 500)]
    [] a = "RESOURCE_REBALANCING" ->
         [x EXCEPT !["cpu"] = Scaled(@, 6, 500), !["mem"] = Scaled(@, 6, 1000),
                   !["lat"] = Scaled(@, 5, 500)]
    [] a = "EDGE_NODE_FAILOVER" ->
         [x EXCEPT !["lat"] = 1800, !["loss"] = 50, !["cpu"] = 2500]
    [] a = "NO_ACTION" -> x

(* apply_recovery_action, the factors: those EdgeNode sets.                *)
ShadowMitigate(m, a) ==
  IF a = "EDGE_NODE_FAILOVER" THEN H!Unmitigated ELSE H!Mitigate(m, a)

-------------------------------------------------------------------------------
(* Carrying out action a on node n. *)

Applied(n) == attached => n \in DOMAIN simulator

(* The metrics before and after, on the back end the pipeline has.         *)
Before(n, d) ==
  IF attached /\ Applied(n) THEN simulator[n].metric ELSE Ingest(d, shadow[n])

After(n, d, a) ==
  IF attached
    THEN IF Applied(n) THEN H!ApplyRecovery(simulator[n], a).metric
                       ELSE Before(n, d)
    ELSE Relieve(Before(n, d), a)

Execute(n, a) ==
  IF attached
    THEN /\ simulator' = [m \in DOMAIN simulator |->
              IF m = n THEN H!ApplyRecovery(simulator[m], a) ELSE simulator[m]]
         /\ UNCHANGED shadow
    ELSE /\ shadow' = [shadow EXCEPT ![n] = ShadowMitigate(@, a)]
         /\ UNCHANGED simulator

-------------------------------------------------------------------------------
(* Evaluating the outcome. *)

(* determine_target_metric: what action a against cause c should improve,  *)
(* given the metrics x before it.                                          *)
TargetMetric(c, a, x) ==
  IF c = "NODE_FAILURE" \/ a = "EDGE_NODE_FAILOVER" THEN "lat"
  ELSE IF c = "CPU_OVERLOAD" \/ a = "WORKLOAD_REDISTRIBUTION" THEN "cpu"
  ELSE IF c = "MEMORY_OVERLOAD" \/ a = "TASK_MIGRATION" THEN "mem"
  ELSE IF c \in {"NETWORK_CONGESTION", "TRANSPORT_FLOOD"}
          \/ a = "TRAFFIC_REROUTING"
         THEN IF x.loss > 500 THEN "loss" ELSE "lat"
  ELSE IF c = "HIGH_LATENCY" THEN "lat"
  ELSE IF x.cpu >= 7000 THEN "cpu"
  ELSE IF x.mem >= 7000 THEN "mem"
  ELSE IF x.lat >= 5000 THEN "lat" ELSE "cpu"

(* The benefit of a when its target metric went from b to v.               *)
Benefit(a, b, v) ==
  IF a = "NO_ACTION" THEN IF b > 7500 THEN -300 ELSE 0
  ELSE Clamp(((b - v) * 1000) \div Max({1, b}))

Reward(a, benefit) ==
  Clamp((BenefitWeight * benefit - CostWeight * Cost[a]) \div 10)

(* Mutant of Evaluate: a rejected action is measured like any other. *)
EvaluateRejected(n, d, c, a) ==
  LET x == Before(n, d)
      r == TargetMetric(c, a, x)
      benefit == Benefit(a, x[r], After(n, d, a)[r])
      reward  == Reward(a, benefit)
  IN  [ node |-> n, cause |-> c, action |-> a, applied |-> Applied(n),
        benefit |-> benefit, reward |-> reward,
        success |-> \/ benefit >= 80 /\ reward > -50
                    \/ a = "NO_ACTION" /\ x[r] < 5000 ]

Evaluate(n, d, c, a) ==
  LET x == Before(n, d)
      r == TargetMetric(c, a, x)
      benefit == IF Applied(n) THEN Benefit(a, x[r], After(n, d, a)[r])
                               ELSE -400
      reward  == Reward(a, benefit)
  IN  [ node |-> n, cause |-> c, action |-> a, applied |-> Applied(n),
        benefit |-> benefit, reward |-> reward,
        success |-> /\ Applied(n)
                    /\ \/ benefit >= 80 /\ reward > -50
                       \/ a = "NO_ACTION" /\ x[r] < 5000 ]

-------------------------------------------------------------------------------
(* The policy. *)

(* select_action: anything while epsilon is positive, else the best known. *)
Selectable(c) ==
  IF epsilon > 0
    THEN Action
    ELSE {a \in Action : \A b \in Action : table[<<c, a>>].q >= table[<<c, b>>].q}

DecayEpsilon(e) == Max({setting.min, (e * setting.decay) \div 1000})

(* update: the entry of (c, a) moves towards the reward of outcome o.      *)
Learned(e, o) ==
  [ q |-> Clamp(e.q + (Alpha * (o.reward - e.q)) \div 10),
    attempts |-> e.attempts + 1,
    successes |-> e.successes + (IF o.success THEN 1 ELSE 0) ]

UpdatePolicy(o) ==
  /\ table' = [table EXCEPT ![<<o.cause, o.action>>] = Learned(@, o)]
  /\ updates' = updates + 1
  /\ epsilon' = IF setting.mode = "interval"
                   /\ (updates + 1) % setting.interval = 0
                  THEN DecayEpsilon(epsilon) ELSE epsilon

StepEpisode ==
  /\ episodes' = episodes + 1
  /\ epsilon' = IF setting.mode = "episode"
                   /\ (episodes + 1) % setting.interval = 0
                  THEN DecayEpsilon(epsilon) ELSE epsilon

(* reset of the policy: the table is dropped, epsilon is the constructor's. *)
ResetPolicy ==
  /\ table' = UntriedTable
  /\ updates' = 0 /\ episodes' = 0
  /\ epsilon' = setting.epsilon

-------------------------------------------------------------------------------
Call == calls < MaxCalls /\ calls' = calls + 1

(* Mutant of ProcessNormal: the episode is not closed. *)
ProcessNormalKeepsEpisode(n) ==
  /\ Call
  /\ IF inEpisode THEN StepEpisode ELSE UNCHANGED <<episodes, epsilon>>
  /\ UNCHANGED <<setting, table, updates, inEpisode, recoveries, last, shadow,
                 attached, simulator>>

(* process, for a record the detector finds normal.                        *)
ProcessNormal(n) ==
  /\ Call
  /\ IF inEpisode THEN StepEpisode ELSE UNCHANGED <<episodes, epsilon>>
  /\ inEpisode' = FALSE
  /\ UNCHANGED <<setting, table, updates, recoveries, last, shadow, attached,
                 simulator>>

(* process, for an anomalous record with demand d, diagnosed as c.         *)
ProcessAnomaly(n, d, c, a) ==
  /\ Call
  /\ a \in Selectable(c)
  /\ inEpisode' = TRUE
  /\ recoveries' = recoveries + 1
  /\ Execute(n, a)
  /\ last' = Evaluate(n, d, c, a)
  /\ UpdatePolicy(last')
  /\ UNCHANGED <<setting, episodes, attached>>

(* Mutant of ResetPipeline: the policy keeps what it has learned. *)
ResetPipelineKeepsPolicy ==
  /\ shadow' = [n \in Node |-> H!Unmitigated]
  /\ last' = NoOutcome
  /\ inEpisode' = FALSE
  /\ recoveries' = 0
  /\ UNCHANGED <<table, updates, episodes, epsilon>>

(* Mutant of ResetPipeline: epsilon stays where it has decayed to. *)
ResetPipelineKeepsEpsilon ==
  /\ table' = UntriedTable
  /\ updates' = 0 /\ episodes' = 0 /\ recoveries' = 0
  /\ shadow' = [n \in Node |-> H!Unmitigated]
  /\ last' = NoOutcome
  /\ inEpisode' = FALSE
  /\ UNCHANGED epsilon

(* What reset and the end of initialize do; a simulator is left as it is.  *)
ResetPipeline ==
  /\ ResetPolicy
  /\ shadow' = [n \in Node |-> H!Unmitigated]
  /\ last' = NoOutcome
  /\ inEpisode' = FALSE
  /\ recoveries' = 0

Reset ==
  /\ Call
  /\ ResetPipeline
  /\ UNCHANGED <<setting, attached, simulator>>

(* initialize with the configuration s: the reset that follows replaces    *)
(* the epsilon in s by the constructor's; an unknown mode is kept.         *)
Initialize(s) ==
  /\ Call
  /\ setting' = [s EXCEPT !.epsilon = setting.epsilon]
  /\ ResetPipeline
  /\ UNCHANGED <<attached, simulator>>

Next ==
  \/ \E n \in Node : ProcessNormal(n)
  \/ \E n \in Node, d \in Demand, c \in Cause, a \in Action :
       ProcessAnomaly(n, d, c, a)
  \/ Reset
  \/ \E s \in Setting : Initialize(s)

Spec == Init /\ [][Next]_vars

-------------------------------------------------------------------------------
(* The counters of pipeline and policy count the same recoveries, and the  *)
(* last outcome is one of them: get_policy_stats, the pipeline's count and *)
(* execute_mitigation never speak of different histories.                  *)
StatsAgree ==
  /\ updates = recoveries
  /\ recoveries = FoldFunction(LAMBDA e, k : e.attempts + k, 0, table)
  /\ \A p \in DOMAIN table : table[p].successes <= table[p].attempts
  /\ last = NoOutcome <=> recoveries = 0
  /\ last # NoOutcome =>
       /\ table[<<last.cause, last.action>>].attempts > 0
       /\ last.success => table[<<last.cause, last.action>>].successes > 0

(* Every episode had a fault of its own: closing an episode takes an       *)
(* anomaly since the last one was closed.                                  *)
EpisodeHasFault == episodes + (IF inEpisode THEN 1 ELSE 0) <= recoveries

(* Between two resets epsilon falls once per interval of updates or of     *)
(* episodes, never per record of a burst in episode mode, and by nothing   *)
(* else; every reset, that of initialize too, puts it back.                *)
EpsilonSchedule ==
  LET decays == CASE setting.mode = "interval" -> updates \div setting.interval
                  [] setting.mode = "episode" -> episodes \div setting.interval
                  [] setting.mode = "other" -> 0
      value[k \in 0 .. decays] ==
        IF k = 0 THEN setting.epsilon
        ELSE Max({setting.min, (value[k - 1] * setting.decay) \div 1000})
  IN  epsilon = value[decays]

(* An action that was not carried out, on a node the simulator does not    *)
(* know, is no success and its reward is a penalty: the efficacy of a pair *)
(* never rises by it, save from below the penalty towards it, where only   *)
(* actions that made things worse can have driven it.                      *)
RejectedNeverCredited ==
  [][recoveries' > recoveries /\ ~ Applied(last'.node) =>
       /\ ~ last'.success /\ last'.reward <= 0
       /\ \A p \in DOMAIN table :
            /\ table'[p].successes = table[p].successes
            /\ table'[p].q <= Max({table[p].q, last'.reward})]_vars
===============================================================================
