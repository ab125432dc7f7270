------------------------------ MODULE NodeHealth ------------------------------
(***************************************************************************)
(* simulation/edge_nodes.py: the physical side of one EdgeNode, as values. *)
(*                                                                         *)
(* A health record holds what the causal equations of update_metrics read  *)
(* (fault offsets, crash flag, mitigation factors) and the metrics they    *)
(* last produced.  Metrics are NOT a function of the rest: faults and      *)
(* clearings change the offsets without re-evaluating the equations, and   *)
(* the gap is what the recovery loop has to live with.                     *)
(*                                                                         *)
(* Percentages, milliseconds and requests/s are integers in hundredths,    *)
(* severities and mitigation factors integers in tenths; divisions round   *)
(* down to a hundredth, the precision of a TelemetryRecord.  Throughput is *)
(* left out: nothing in the control path reads it.                         *)
(***************************************************************************)
EXTENDS Integers, FiniteSetsExt

CONSTANT BaseLatency    \* EdgeNode.base_latency, hundredths of a ms

ASSUME BaseLatencyAssumption == BaseLatency \in Nat

FaultType == {"CPU_OVERLOAD", "MEMORY_OVERLOAD", "NETWORK_CONGESTION",
              "HIGH_LATENCY", "PACKET_LOSS", "EDGE_NODE_FAILURE"}

RecoveryAction == {"WORKLOAD_REDISTRIBUTION", "TRAFFIC_REROUTING",
                   "TASK_MIGRATION", "EDGE_NODE_FAILOVER",
                   "RESOURCE_REBALANCING"}

Resource == {"cpu", "mem", "net", "lat", "loss"}
Factor   == {"workload", "cpu", "mem", "net", "lat"}

NoFault   == [r \in Resource |-> 0]
Unmitigated == [f \in Factor |-> 10]

(* A node as constructed: idle metrics that no equation produced. *)
InitialHealth ==
  [ offset |-> NoFault, failed |-> FALSE, mitigation |-> Unmitigated,
    workload |-> 2000,
    metric |-> [cpu |-> 2500, mem |-> 3000, net |-> 2000,
                lat |-> BaseLatency, loss |-> 50] ]

Health ==
  [ offset : [Resource -> Nat], failed : BOOLEAN,
    mitigation : [Factor -> 1 .. 10], workload : Nat,
    metric : [Resource -> Nat] ]

Carries(h) == h.failed \/ \E r \in Resource : h.offset[r] > 0

-------------------------------------------------------------------------------
Percent(x) == Min({10000, x})

(* The causal equations: what update_metrics computes for an online node   *)
(* under offered workload w.                                               *)
OnlineMetrics(h, w) ==
  LET m    == h.mitigation
      load == (w * m["workload"]) \div 10
      cpu  == Percent(1500 + load \div 2 + (h.offset["cpu"] * m["cpu"]) \div 10)
      mem  == Percent(2000 + (2 * load) \div 5
                           + (h.offset["mem"] * m["mem"]) \div 10)
      net  == Percent(1500 + (9 * load) \div 20
                           + (h.offset["net"] * m["net"]) \div 10)
      loss == Percent(Max({0, ((net - 7500) * 8) \div 10})
                           + (h.offset["loss"] * m["net"]) \div 10)
      lat  == Max({100, BaseLatency + (cpu * cpu * 12) \div 100000 + 5 * loss
                           + (h.offset["lat"] * m["lat"]) \div 10})
  IN  [cpu |-> cpu, mem |-> mem, net |-> net, lat |-> lat, loss |-> loss]

Offline == [cpu |-> 0, mem |-> 0, net |-> 0, lat |-> 99900, loss |-> 10000]

UpdateMetrics(h, w) ==
  IF h.failed
    THEN [h EXCEPT !.workload = 0, !.metric = Offline]
    ELSE [h EXCEPT !.workload = (w * h.mitigation["workload"]) \div 10,
                   !.metric = OnlineMetrics(h, w)]

-------------------------------------------------------------------------------
(* apply_fault: the offsets a fault of type f and severity s sets.         *)
FaultOffset(f, s) ==
  CASE f = "CPU_OVERLOAD"       -> [NoFault EXCEPT !["cpu"] = 600 * s]
    [] f = "MEMORY_OVERLOAD"    -> [NoFault EXCEPT !["mem"] = 650 * s]
    [] f = "NETWORK_CONGESTION" -> [NoFault EXCEPT !["net"] = 600 * s,
                                                   !["loss"] = 150 * s]
    [] f = "HIGH_LATENCY"       -> [NoFault EXCEPT !["lat"] = 1500 * s]
    [] f = "PACKET_LOSS"        -> [NoFault EXCEPT !["loss"] = 350 * s]
    [] OTHER                    -> NoFault

(* The faults of the nonempty list of records fs, applied in list order:   *)
(* the last one that touches a resource sets its offset.                   *)
ApplyFaults(h, fs, I) ==
  LET Touching(r) ==
        {i \in I : FaultOffset(fs[i].type, fs[i].severity)[r] > 0}
      LastOffset(r) ==
        LET i == Max(Touching(r)) IN FaultOffset(fs[i].type, fs[i].severity)[r]
  IN  [h EXCEPT
        !.offset = [r \in Resource |->
                      IF Touching(r) = {} THEN h.offset[r] ELSE LastOffset(r)],
        !.failed = @ \/ \E i \in I : fs[i].type = "EDGE_NODE_FAILURE"]

(* Mutant of ClearFaults: the mitigation factors survive. *)
ClearKeepsMitigation(h) ==
  [h EXCEPT !.offset = NoFault, !.failed = FALSE]

(* clear_faults: offsets, crash and mitigations go; the metrics stay.      *)
ClearFaults(h) ==
  [h EXCEPT !.offset = NoFault, !.failed = FALSE, !.mitigation = Unmitigated]

(* The mitigation factors an action sets, the others left as they are.     *)
Mitigate(m, a) ==
  CASE a = "WORKLOAD_REDISTRIBUTION" ->
         [m EXCEPT !["workload"] = 4, !["cpu"] = 3]
    [] a = "TRAFFIC_REROUTING" -> [m EXCEPT !["net"] = 2, !["lat"] = 3]
    [] a = "TASK_MIGRATION" ->
         [m EXCEPT !["mem"] = 2, !["cpu"] = 4, !["workload"] = 5]
    [] a = "RESOURCE_REBALANCING" ->
         [m EXCEPT !["cpu"] = 5, !["mem"] = 5, !["lat"] = 4]
    [] OTHER -> m

(* apply_recovery_action, with the re-evaluation it ends in: the workload  *)
(* last measured is divided by the new factor and multiplied by it again.  *)
ApplyRecovery(h, a) ==
  LET g == IF a = "EDGE_NODE_FAILOVER"
             THEN ClearFaults(h)
             ELSE [h EXCEPT !.mitigation = Mitigate(@, a)]
  IN  UpdateMetrics(g, (g.workload * 10) \div g.mitigation["workload"])

-------------------------------------------------------------------------------
(* main.py is_system_state_degraded, on a set of metrics.                  *)
Degraded(m) ==
  \/ m.cpu >= 7000 \/ m.mem >= 7000 \/ m.net >= 7000
  \/ m.lat >= 5500 \/ m.loss >= 500

(* recovery_manager.py: cause_action_map, for what the simulation raises.  *)
CauseAction ==
  [ CPU_OVERLOAD |-> "WORKLOAD_REDISTRIBUTION",
    MEMORY_OVERLOAD |-> "TASK_MIGRATION",
    NETWORK_CONGESTION |-> "TRAFFIC_REROUTING",
    PACKET_LOSS |-> "TRAFFIC_REROUTING",
    HIGH_LATENCY |-> "RESOURCE_REBALANCING",
    EDGE_NODE_FAILURE |-> "EDGE_NODE_FAILOVER" ]

(* select_recovery_action: the cause decides, then the label of the        *)
(* record, then its metrics m.                                             *)
SelectAction(cause, label, m) ==
  CASE cause \in FaultType -> CauseAction[cause]
    [] cause \notin FaultType /\ label \in FaultType -> CauseAction[label]
    [] cause \notin FaultType /\ label \notin FaultType ->
         IF m.cpu > 7000 THEN "WORKLOAD_REDISTRIBUTION"
         ELSE IF m.net > 7000 THEN "TRAFFIC_REROUTING"
         ELSE "RESOURCE_REBALANCING"

(* execute_recovery_in_simulation: did action a, which took the metrics    *)
(* from b to m, improve its target metric enough to count as a success?    *)
Success(a, b, m) ==
  CASE a = "WORKLOAD_REDISTRIBUTION" -> b.cpu - m.cpu >= 1000
    [] a = "TRAFFIC_REROUTING" ->
         \/ b.lat - m.lat >= 1000 \/ b.loss - m.loss >= 500 \/ m.lat < 6000
    [] a = "TASK_MIGRATION" -> b.mem - m.mem >= 1000 \/ b.cpu - m.cpu >= 1000
    [] a = "EDGE_NODE_FAILOVER" -> m.lat < 5000
    [] a = "RESOURCE_REBALANCING" -> b.lat - m.lat >= 500
===============================================================================
