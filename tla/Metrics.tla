-------------------------------- MODULE Metrics --------------------------------
(***************************************************************************)
(* The metric formulas of evaluation/metrics.py, as pure functions of the  *)
(* series and counts an experiment leaves behind.                          *)
(*                                                                         *)
(* Ratios and percentages are in hundredths of a percent, means in         *)
(* thousandths of the unit of their values; divisions round down, where    *)
(* the code rounds to the nearest.  A verdict and a truth are Booleans.    *)
(***************************************************************************)
EXTENDS Integers, FiniteSetsExt, SequencesExt

CONSTANT NotApplicable \* reported of a metric that does not apply; also nan

(* None, nan and "N/A" are no numbers.                                      *)
ASSUME NotApplicableAssumption == NotApplicable \notin Int

Ratio(part, whole) == IF whole <= 0 THEN 0 ELSE (10000 * part) \div whole

Total(series) == FoldLeft(+, 0, series)

MeanOf(series) ==
  IF series = <<>> THEN 0 ELSE (1000 * Total(series)) \div Len(series)

-------------------------------------------------------------------------------
(* Statistics over runs.  A standard deviation is kept as its square.      *)

(* Mutant of Numbers: a missing value counts as zero. *)
NumbersOrZero(values) ==
  [i \in DOMAIN values |-> IF values[i] = NotApplicable THEN 0 ELSE values[i]]

(* The values that are numbers. *)
Numbers(values) ==
  FlattenSeq([i \in DOMAIN values |->
                IF values[i] = NotApplicable THEN <<>> ELSE <<values[i]>>])

(* calculate_mean_std, with one degree of freedom less than values.        *)
MeanAndVariance(values) ==
  LET clean == Numbers(values)
      n     == Len(clean)
      sum   == Total(clean)
      squares == Total([i \in 1 .. n |-> clean[i] * clean[i]])
  IN  <<MeanOf(clean),
        IF n < 2 THEN 0
        ELSE (n * squares - sum * sum) \div (n * (n - 1))>>

(* calculate_confidence_interval: the middle and the square of the margin, *)
(* 1.96 squared being 3.8.                                                 *)
ConfidenceInterval(values) ==
  LET clean == Numbers(values)
      stats == MeanAndVariance(values)
  IN  <<stats[1], IF Len(clean) < 2 THEN 0
                  ELSE (38 * (stats[2] \div 10)) \div Len(clean)>>

-------------------------------------------------------------------------------
(* Latencies.  The k-th time of one list is paired with the k-th of the    *)
(* other, whatever they belong to, and a pair in the wrong order is        *)
(* dropped.                                                                *)

LatencyOf(from, to) == IF to >= from THEN <<to - from>> ELSE <<>>

(* Mutant of PairedDelays: the lists are paired from their ends. *)
PairedFromEnd(from, to) ==
  LET n == Min({Len(from), Len(to)})
  IN  FlattenSeq([k \in 1 .. n |->
                    LatencyOf(from[Len(from) - n + k], to[Len(to) - n + k])])

PairedDelays(from, to) ==
  FlattenSeq([k \in 1 .. Min({Len(from), Len(to)}) |-> LatencyOf(from[k], to[k])])

DetectionLatency(onsets, detections)    == MeanOf(PairedDelays(onsets, detections))
DiagnosisLatency(detections, diagnoses) == MeanOf(PairedDelays(detections, diagnoses))
RecoveryLatency(diagnoses, recoveries)  == MeanOf(PairedDelays(diagnoses, recoveries))
EndToEndLatency(onsets, recoveries)     == MeanOf(PairedDelays(onsets, recoveries))

-------------------------------------------------------------------------------
(* Accuracy.                                                               *)

(* The records of a series of truths with a certain truth and verdict.     *)
Cell(truth, verdict, t, v) ==
  Cardinality({i \in DOMAIN truth : truth[i] = t /\ verdict[i] = v})

ConfusionOf(truth, verdict) ==
  [tp |-> Cell(truth, verdict, TRUE, TRUE), fp |-> Cell(truth, verdict, FALSE, TRUE),
   fn |-> Cell(truth, verdict, TRUE, FALSE), tn |-> Cell(truth, verdict, FALSE, FALSE)]

Precision(c) == Ratio(c.tp, c.tp + c.fp)
Recall(c)    == Ratio(c.tp, c.tp + c.fn)
F1Score(c)   == Ratio(2 * c.tp, 2 * c.tp + c.fp + c.fn)
Accuracy(c)  == Ratio(c.tp + c.tn, c.tp + c.tn + c.fp + c.fn)

DetectionAccuracy(truth, verdict) ==
  LET c == ConfusionOf(truth, verdict)
  IN  [precision |-> Precision(c), recall |-> Recall(c), f1 |-> F1Score(c),
       accuracy |-> Accuracy(c)]

-------------------------------------------------------------------------------
(* Rates, costs and availability.                                          *)

RecoverySuccessRate(actions, successful) == Ratio(successful, actions)
SloViolationRate(tasks, violated)        == Ratio(violated, tasks)

(* Weights 0.4, 0.4 and 0.2, the last one of an overhead given as a ratio. *)
OperationalRecoveryCost(actions, tasks, violations, overhead) ==
  (4 * Ratio(actions, Max({1, tasks})) + 4 * Ratio(violations, Max({1, tasks}))
     + 2 * overhead) \div 10

ServiceAvailability(operational, downtime) ==
  Ratio(Max({0, operational - downtime}), operational)

(* Mean times to failure and to repair.                                    *)
MttfMttr(healthy, repair, faults) ==
  IF faults <= 0 THEN <<healthy, 0>>
  ELSE <<healthy \div faults, repair \div faults>>

(* Per second of the given time in milliseconds.                           *)
Rate(amount, elapsed) ==
  IF elapsed <= 0 \/ amount = 0 THEN 0 ELSE (1000 * amount) \div elapsed

(* Millijoules over milliseconds: 2.7 W idle, 6.4 W at full load.          *)
Energy(cpu, elapsed) ==
  ((270 + (37 * Max({0, Min({100, cpu})})) \div 10) * elapsed) \div 100
===============================================================================
