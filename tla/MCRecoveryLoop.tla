---------------------------- MODULE MCRecoveryLoop ----------------------------
(* Fault schedules for model checking: two faults, in either list order,   *)
(* whose windows are apart, adjacent, overlapping or nested.               *)
EXTENDS LoopReport

Entry(f, n, s, d) ==
  [type |-> f, node |-> n, start |-> s, duration |-> d, severity |-> 10]

(* Both faults on node 1. *)
OneNodeSchedules ==
  {<<Entry(f, 1, 1, 2), Entry(g, 1, s, 2)>> :
     f \in {"CPU_OVERLOAD", "EDGE_NODE_FAILURE"},
     g \in {"PACKET_LOSS", "EDGE_NODE_FAILURE"}, s \in {0, 2, 3, 5}}

(* One fault on each node. *)
TwoNodeSchedules ==
  {<<Entry(f, 1, 0, 3), Entry(g, 2, 2, 3)>> :
     f \in {"HIGH_LATENCY", "EDGE_NODE_FAILURE"},
     g \in {"MEMORY_OVERLOAD", "NETWORK_CONGESTION"}}

MCSchedules == OneNodeSchedules \cup TwoNodeSchedules
MCWorkloads == {4000}
===============================================================================
