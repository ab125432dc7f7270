----------------------------- MODULE CausalAnalysis -----------------------------
(***************************************************************************)
(* The causal analysis of a data set experiment: CausalAnalyzer of         *)
(* causal/causal_analysis.py in dataset mode, over the graphs of           *)
(* causal/causal_graph.py.  What the estimator (DoWhy) makes of a pair of  *)
(* columns is any effect, or a failure.                                    *)
(***************************************************************************)
EXTENDS DatasetAdapters, FiniteSetsExt, SequencesExt

CONSTANTS
  MinRecords,   \* records of a node an analysis needs (10)
  Effects       \* the effects the estimator may return, 0 among them

ASSUME AnalysisAssumption == MinRecords \in Nat /\ 0 \in Effects /\ Effects \subseteq Nat

(* _build_dataset_graph: cause and effect, in the order they are tried.    *)
GraphOf(device) ==
  CASE device = "IoT_Weather"      -> << <<"temperature", "humidity">>,
                                         <<"temperature", "pressure">> >>
    [] device = "IoT_Motion_Light" -> << <<"motion_status", "light_status_on">> >>
    [] device = "IoT_Fridge"       -> << <<"fridge_temperature", "temp_condition_high">> >>
    [] device = "IoT_Modbus"       ->
         << <<"FC1_Read_Input_Register", "FC3_Read_Holding_Register">>,
            <<"FC2_Read_Discrete_Value", "FC4_Read_Coil">> >>
    [] device = "IoT_GPS_Tracker"  -> << <<"latitude", "longitude">> >>
    [] device = "IoT_Garage_Door"  -> << <<"door_state_open", "sphone_signal_true">> >>
    [] OTHER                       -> <<>>

-------------------------------------------------------------------------------
(* The frame of a window of records: a column for every feature one of     *)
(* them has, 0 where a record lacks it.                                    *)
OfNode(history, node) ==
  FlattenSeq([i \in DOMAIN history |->
                IF history[i].node = node THEN <<history[i]>> ELSE <<>>])

Cells(records, column) ==
  {IF column \in DOMAIN r.features THEN r.features[column] ELSE 0 :
     r \in {records[i] : i \in DOMAIN records}}

Varies(records, column) ==
  /\ \E i \in DOMAIN records : column \in DOMAIN records[i].features
  /\ Cardinality(Cells(records, column)) > 1

Estimable(records, pair) == Varies(records, pair[1]) /\ Varies(records, pair[2])

-------------------------------------------------------------------------------
Insufficient(cause) ==
  [status |-> "INSUFFICIENT_EVIDENCE", pair |-> <<>>, effect |-> 0, cause |-> cause]

Inference(pair, effect) ==
  [ status |-> "CAUSAL_INFERENCE", pair |-> pair, effect |-> effect,
    cause |-> <<"SENSOR_DEV", pair[1]>> ]

(* The first pair of the graph with the largest effect.                    *)
Strongest(graph, effect) ==
  LET top   == Max({effect[p] : p \in DOMAIN effect})
      first == Min({i \in DOMAIN graph :
                      graph[i] \in DOMAIN effect /\ effect[graph[i]] = top})
  IN  Inference(graph[first], top)

Conclusion(graph, effect) ==
  IF \A p \in DOMAIN effect : effect[p] = 0 THEN Insufficient("INSUFFICIENT_VARIANCE")
  ELSE Strongest(graph, effect)

(* analyze_fault_cause(mode="dataset"): the results it may return.  An     *)
(* estimation that fails leaves its pair out.                              *)
Analyses(history, node) ==
  LET records == OfNode(history, node)
      graph   == GraphOf(Last(records).device)
      pairs   == {p \in {graph[i] : i \in DOMAIN graph} : Estimable(records, p)}
  IN  IF Len(records) < MinRecords THEN {Insufficient("UNKNOWN")}
      ELSE IF graph = <<>> THEN {Insufficient("SENSOR_ANOMALY")}
      ELSE {Conclusion(graph, effect) :
              effect \in UNION {[estimated -> Effects] : estimated \in SUBSET pairs}}
===============================================================================
