----------------------------- MODULE RecoveryLoop -----------------------------
(***************************************************************************)
(* main.py run_experiment_pipeline: simulate, inject, detect, recover.     *)
(*                                                                         *)
(* One simulation step moves every node and samples one record per node;   *)
(* the loop then consumes these records one by one.  Every record first    *)
(* drives the fault schedule (whose effect the records of this step cannot *)
(* show any more), then the detector, then possibly a recovery of the node *)
(* it came from.  What the loop knows of a node is therefore always older  *)
(* than the node: that gap is what the properties are about.               *)
(*                                                                         *)
(* Nondeterministic: the verdict of the detector (a learned model), the    *)
(* root cause (a regression over the history) and the offered workload.    *)
(* fixed_recovery is one of these behaviours (always CPU_OVERLOAD's        *)
(* action); no_recovery, the control group, is the arm NONE of LoopReport. *)
(***************************************************************************)
EXTENDS NodeHealth, Naturals, Sequences, FiniteSets

CONSTANTS
  NumNodes,       \* nodes, numbered in the order of EdgeSimulation.nodes
  Schedules,      \* the fault schedules a run may be configured with
  PersistenceK,   \* config.persistence
  MaxSteps,       \* SimulatorAdapter.max_steps
  Workloads       \* offered workloads, hundredths of requests/s

Node  == 1 .. NumNodes
Cause == (FaultType \ {"EDGE_NODE_FAILURE"}) \cup {"UNKNOWN"}
Label == FaultType \cup {"NONE"}
Fault == [type : FaultType, node : Node, start : Nat, duration : Nat \ {0},
          severity : 1 .. 10]

ASSUME LoopAssumption ==
  /\ NumNodes \in Nat \ {0}
  /\ \A s \in Schedules : s \in Seq(Fault)
  /\ PersistenceK \in Nat \ {0}
  /\ MaxSteps \in Nat
  /\ Workloads \subseteq Nat

VARIABLES
  scheduled,      \* FaultGenerator.scheduled_faults, fixed at the start
  active,         \* active[i]: FaultRecord.active of the i-th fault
  health,         \* health[n]: the EdgeNode
  label,          \* label[n]: type of the last active_fault_records entry of n
  now,            \* env.now; the records being consumed are of now - 1
  record,         \* record[n]: the TelemetryRecord of n of the last step
  next,           \* the node whose record is consumed next; NumNodes + 1: none
  window,         \* node_anomaly_window
  recovered,      \* recovered_nodes
  episodes,       \* fault_episodes, as <<node, time>> pairs
  streak          \* history: anomalous verdicts on n in a row since the last
                  \* successful recovery of n, up to PersistenceK

generator == <<scheduled, active>>
plant     == <<health, label>>
stream    == <<now, record, next>>
loop      == <<window, recovered, episodes, streak>>
vars      == <<generator, plant, stream, loop>>

Index == DOMAIN scheduled
On(n) == {i \in Index : scheduled[i].node = n}

Record == [fault : BOOLEAN, type : Label, metric : [Resource -> Nat]]

TypeOK ==
  /\ scheduled \in Schedules
  /\ active \in [Index -> BOOLEAN]
  /\ health \in [Node -> Health]
  /\ label \in [Node -> Label]
  /\ now \in 0 .. MaxSteps
  /\ record \in [Node -> Record]
  /\ next \in 1 .. NumNodes + 1
  /\ window \in [Node -> Seq(BOOLEAN)]
  /\ \A n \in Node : Len(window[n]) <= PersistenceK + 2
  /\ recovered \subseteq Node
  /\ episodes \in Seq(Node \X Nat)
  /\ streak \in [Node -> 0 .. PersistenceK]

(* The record sampled from a node whose health is h.                       *)
Sample(h, l) ==
  [fault |-> Carries(h), type |-> IF Carries(h) THEN l ELSE "NONE",
   metric |-> h.metric]

Init ==
  /\ scheduled \in Schedules
  /\ active = [i \in Index |-> FALSE]
  /\ health = [n \in Node |-> InitialHealth]
  /\ label = [n \in Node |-> "NONE"]
  /\ now = 0
  /\ record = [n \in Node |-> Sample(InitialHealth, "NONE")]
  /\ next = NumNodes + 1
  /\ window = [n \in Node |-> <<>>]
  /\ recovered = {}
  /\ episodes = <<>>
  /\ streak = [n \in Node |-> 0]

-------------------------------------------------------------------------------
(* EdgeSimulation.step: every node re-evaluates its metrics under the      *)
(* workload of the step, then every node is sampled.                       *)
Step ==
  /\ next = NumNodes + 1
  /\ now < MaxSteps
  /\ \E w \in [Node -> Workloads] :
       health' = [n \in Node |-> UpdateMetrics(health[n], w[n])]
  /\ record' = [n \in Node |-> Sample(health'[n], label[n])]
  /\ now' = now + 1
  /\ next' = 1
  /\ UNCHANGED <<generator, label, loop>>

-------------------------------------------------------------------------------
(* Mutant of ActiveAt: the end of the window is included. *)
ActiveAtEnd(i, t) ==
  /\ scheduled[i].start <= t
  /\ t <= scheduled[i].start + scheduled[i].duration

(* FaultRecord.is_active_at.                                               *)
ActiveAt(i, t) ==
  /\ scheduled[i].start <= t
  /\ t < scheduled[i].start + scheduled[i].duration

(* Mutant of Injected: the flag of the fault is not consulted. *)
InjectedAgain(n, t) == {i \in On(n) : ActiveAt(i, t)}

(* The faults on n that update_simulation_faults injects, or clears, at t. *)
Injected(n, t) == {i \in On(n) : ActiveAt(i, t) /\ ~ active[i]}
Expired(n, t)  == {i \in On(n) : ~ ActiveAt(i, t) /\ active[i]}

(* The list is walked in order and a clearing wipes all of the node: what  *)
(* lasts is what is injected behind the last clearing.                     *)
Lasting(n, t) ==
  {i \in Injected(n, t) : \A j \in Expired(n, t) : j < i}

(* A node and its label after update_simulation_faults(t).                 *)
UpdatedHealth(n, t) ==
  ApplyFaults(IF Expired(n, t) = {} THEN health[n] ELSE ClearFaults(health[n]),
              scheduled, Lasting(n, t))

UpdatedLabel(n, t) ==
  CASE Lasting(n, t) # {} -> scheduled[Max(Lasting(n, t))].type
    [] Lasting(n, t) = {} /\ Expired(n, t) # {} -> "NONE"
    [] Lasting(n, t) = {} /\ Expired(n, t) = {} -> label[n]

(* Mutant of StillRecovered: a recovered node stays in the set for ever. *)
RecoveredForEver(t) == recovered

(* recovered_nodes without the nodes no active fault targets.              *)
StillRecovered(t) ==
  {n \in recovered : \E i \in On(n) : ActiveAt(i, t)}

-------------------------------------------------------------------------------
(* Append a verdict to a window, whose oldest entry goes beyond K + 2.     *)
Slide(w, v) ==
  LET x == Append(w, v) IN IF Len(x) > PersistenceK + 2 THEN Tail(x) ELSE x

(* Mutant of Persistent: K anomalies anywhere in the window. *)
PersistentAnywhere(w) ==
  Cardinality({i \in DOMAIN w : w[i]}) >= PersistenceK

(* persistent_anomaly: the last K entries of the window are anomalies.     *)
Persistent(w) ==
  /\ Len(w) >= PersistenceK
  /\ \A i \in Len(w) - PersistenceK + 1 .. Len(w) : w[i]

(* is_fault_confirmed, for the next record and verdict v.                  *)
Confirmed(v) ==
  /\ Persistent(Slide(window[next], v))
  /\ Degraded(record[next].metric)

(* Mutant of Attempts: an attempt already made is not remembered. *)
AttemptsAgain(v, t) == Confirmed(v)

(* The next record makes the loop recover its node.                        *)
Attempts(v, t) == Confirmed(v) /\ next \notin StillRecovered(t)

Streak(v) ==
  [streak EXCEPT ![next] = IF v THEN Min({@ + 1, PersistenceK}) ELSE 0]

(* What every consumed record does: the schedule first, then the stream.   *)
Consume ==
  /\ next \in Node
  /\ next' = next + 1
  /\ active' = [i \in Index |-> ActiveAt(i, now - 1)]
  /\ UNCHANGED <<scheduled, now, record>>

(* A record that does not lead to a recovery: it is not confirmed, or its  *)
(* node has been recovered from the fault already.                         *)
Observe(v) ==
  /\ Consume
  /\ ~ Attempts(v, now - 1)
  /\ health' = [n \in Node |-> UpdatedHealth(n, now - 1)]
  /\ label' = [n \in Node |-> UpdatedLabel(n, now - 1)]
  /\ window' = [window EXCEPT ![next] = Slide(@, v)]
  /\ recovered' = StillRecovered(now - 1)
  /\ streak' = Streak(v)
  /\ UNCHANGED episodes

(* A record that leads to one: select_recovery_action picks the action     *)
(* from the record, execute_recovery_in_simulation applies it to the node  *)
(* as it is now, drops the node's fault records and judges the outcome;    *)
(* only a success empties the window.                                      *)
Recover(v, cause) ==
  LET action == SelectAction(cause, record[next].type, record[next].metric)
      before == UpdatedHealth(next, now - 1)
      after  == ApplyRecovery(before, action)
      ok     == Success(action, before.metric, after.metric)
  IN  /\ Consume
      /\ Attempts(v, now - 1)
      /\ health' = [[n \in Node |-> UpdatedHealth(n, now - 1)]
                      EXCEPT ![next] = after]
      /\ label' = [[n \in Node |-> UpdatedLabel(n, now - 1)]
                     EXCEPT ![next] = "NONE"]
      /\ window' = [window EXCEPT ![next] = IF ok THEN <<>> ELSE Slide(@, v)]
      /\ recovered' = StillRecovered(now - 1) \cup {next}
      /\ episodes' = Append(episodes, <<next, now - 1>>)
      /\ streak' = IF ok THEN [streak EXCEPT ![next] = 0] ELSE Streak(v)

Next ==
  \/ Step
  \/ \E v \in BOOLEAN : Observe(v)
  \/ \E v \in BOOLEAN, cause \in Cause : Recover(v, cause)

Spec == Init /\ [][Next]_vars

-------------------------------------------------------------------------------
(* The schedule, as configured: some fault is due on n at time t.          *)
Due(n, t) ==
  \E i \in On(n) : /\ scheduled[i].start <= t
                   /\ t < scheduled[i].start + scheduled[i].duration

(* The time of the last record consumed, -1 before the first one.          *)
LastTime == IF next = 1 THEN now - 2 ELSE now - 1

Recoveries == episodes' # episodes

(* A node is recovered at most once per fault: between two recoveries of a *)
(* node there is a moment at which the schedule had no fault due on it,    *)
(* however the recovered_nodes set was pruned by records of other nodes.   *)
EpisodesSeparated ==
  \A i, j \in DOMAIN episodes :
    i < j /\ episodes[i][1] = episodes[j][1] =>
      \E t \in episodes[i][2] .. episodes[j][2] : ~ Due(episodes[i][1], t)

(* No fault outlives its window: once the schedule has been consulted, a   *)
(* node with a fault offset or a crash has a fault due on it, with         *)
(* overlapping and adjacent windows and recoveries in between too.         *)
NoLingeringFault ==
  \A n \in Node : Carries(health[n]) /\ LastTime >= 0 => Due(n, LastTime)

(* A recovery is never triggered by less than PersistenceK anomalous       *)
(* verdicts in a row, all of them later than the last successful recovery  *)
(* of the node, although the window keeps K + 2 of them.                   *)
RecoveryConfirmed ==
  [][Recoveries => /\ streak[next] >= PersistenceK - 1
                   /\ \/ window'[next] = <<>>
                      \/ window'[next][Len(window'[next])]]_vars

(* A confirmed fault is never ignored: if the last K verdicts on a node    *)
(* were anomalies and its last record is degraded, a recovery of the node  *)
(* was attempted and a fault has been due on it ever since.                *)
ConfirmedIsAttempted ==
  \A n \in Node :
    n < next /\ streak[n] = PersistenceK /\ Degraded(record[n].metric) =>
      \E i \in DOMAIN episodes :
        /\ episodes[i][1] = n
        /\ \A t \in episodes[i][2] + 1 .. now - 1 : Due(n, t)

(* A fault strikes once: a healthy node becomes faulty only in the step    *)
(* that raises the flag of a fault scheduled on it, so a failover is not   *)
(* undone by the next record of the same fault window.                     *)
FaultStrikesOnce ==
  [][\A n \in Node : ~ Carries(health[n]) /\ Carries(health'[n]) =>
       \E i \in On(n) : ~ active[i] /\ active'[i]]_vars

(* Mitigations do not survive the fault they answer: a node whose factors  *)
(* are not neutral was recovered after the end of every fault window on it *)
(* that has passed.                                                        *)
NoStaleMitigation ==
  \A n \in Node : health[n].mitigation # Unmitigated =>
    \E i \in DOMAIN episodes :
      /\ episodes[i][1] = n
      /\ \A f \in On(n) :
           scheduled[f].start + scheduled[f].duration <= LastTime =>
             episodes[i][2] >= scheduled[f].start + scheduled[f].duration
===============================================================================
