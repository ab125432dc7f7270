----------------------------- MODULE CraftReport -----------------------------
(***************************************************************************)
(* main.py run_craft_edge_experiment: a stream of labelled records goes    *)
(* through the CRAFT-Edge pipeline, and what process returns is compared   *)
(* with the labels and summed up in one row of metrics and a list of       *)
(* recovery outcomes.                                                      *)
(*                                                                         *)
(* The experiment builds one pipeline, with a simulator in simulation mode *)
(* that it never runs, and neither resets nor initializes it.  The other   *)
(* callers of the pipeline (CraftEdge!Next) keep no report.                *)
(***************************************************************************)
EXTENDS CraftEdge

CONSTANT MaxStream    \* bound: records of an experiment

ASSUME StreamAssumption == MaxStream \in Nat

VARIABLE report \* the series of the experiment, summed; or NoReport

M == INSTANCE Metrics WITH NotApplicable <- "n/a"

NoReport == [recovery |-> "NONE"]

(* The counters over y_true and y_pred, and over recovery_outcomes.        *)
EmptyReport ==
  [tp |-> 0, fp |-> 0, fn |-> 0, tn |-> 0,
   attempts |-> 0, successes |-> 0, applied |-> 0,
   reward |-> 0, benefit |-> 0, cost |-> 0]

ExperimentInit ==
  /\ Init
  /\ report \in {NoReport, EmptyReport}

-------------------------------------------------------------------------------
(* A record with label truth and verdict of the detector.                  *)
Confront(r, truth, verdict) ==
  CASE truth /\ verdict     -> [r EXCEPT !.tp = @ + 1]
    [] ~ truth /\ verdict   -> [r EXCEPT !.fp = @ + 1]
    [] truth /\ ~ verdict   -> [r EXCEPT !.fn = @ + 1]
    [] ~ truth /\ ~ verdict -> [r EXCEPT !.tn = @ + 1]

(* Mutant of Record: an action counts if it was carried out. *)
RecordApplied(r, o) ==
  IF o.action = "NO_ACTION" \/ ~ o.applied THEN r
  ELSE [r EXCEPT !.attempts = @ + 1, !.applied = @ + 1,
                 !.successes = @ + (IF o.success THEN 1 ELSE 0),
                 !.reward = @ + o.reward, !.benefit = @ + o.benefit,
                 !.cost = @ + Cost[o.action]]

(* recovery_outcomes: every outcome but that of NO_ACTION, whether the     *)
(* action was carried out or not.                                          *)
Record(r, o) ==
  IF o.action = "NO_ACTION" THEN r
  ELSE [r EXCEPT !.attempts = @ + 1,
                 !.applied = @ + (IF o.applied THEN 1 ELSE 0),
                 !.successes = @ + (IF o.success THEN 1 ELSE 0),
                 !.reward = @ + o.reward, !.benefit = @ + o.benefit,
                 !.cost = @ + Cost[o.action]]

(* One record of the stream; its label is read after process.              *)
StreamNormal(n) ==
  /\ ProcessNormal(n)
  /\ \E truth \in BOOLEAN : report' = Confront(report, truth, FALSE)

StreamAnomaly(n, d, c, a) ==
  /\ ProcessAnomaly(n, d, c, a)
  /\ \E truth \in BOOLEAN :
       report' = Record(Confront(report, truth, TRUE), last')

StreamContext ==
  \/ \E n \in Node : StreamNormal(n)
  \/ \E n \in Node, d \in Demand, c \in Cause, a \in Action :
       StreamAnomaly(n, d, c, a)

ExperimentNext ==
  \/ report = NoReport /\ Next /\ UNCHANGED report
  \/ report # NoReport /\ calls < MaxStream /\ StreamContext

experimentVars == <<vars, report>>

ExperimentSpec == ExperimentInit /\ [][ExperimentNext]_experimentVars

-------------------------------------------------------------------------------
(* detection_row.  The means are in hundredths of a thousandth.            *)
DetectionRow ==
  LET alarms  == report.tp + report.fp
      attacks == report.tp + report.fn
      precision == M!Ratio(report.tp, Max({1, alarms}))
      recall    == M!Ratio(report.tp, Max({1, attacks}))
      Mean(total) == IF report.attempts = 0 THEN 0
                     ELSE (100 * total) \div report.attempts
  IN  [ accuracy |-> M!Accuracy(report),
        precision |-> precision,
        recall |-> recall,
        f1 |-> IF precision + recall = 0 THEN 0
               ELSE (2 * precision * recall) \div (precision + recall),
        falsePositiveRate |-> M!Ratio(report.fp, Max({1, report.fp + report.tn})),
        episodes |-> report.attempts,
        successful |-> report.successes,
        successRate |-> M!Ratio(report.successes, Max({1, report.attempts})),
        meanReward |-> Mean(report.reward),
        meanBenefit |-> Mean(report.benefit),
        meanCost |-> Mean(report.cost),
        measurement |-> IF attached THEN "PHYSICAL_SIMULATION"
                                    ELSE "SHADOW_SYNTHETIC_PROXY" ]

(* The successes in the file of outcomes: an empty list is written as one  *)
(* successful row of NO_ACTION.                                            *)
SuccessesOnFile == IF report.attempts = 0 THEN 1 ELSE report.successes

-------------------------------------------------------------------------------
(* Tries(f): the field f summed over the pairs of the policy's table whose *)
(* action does something.                                                  *)
Tries(Field(_)) ==
  FoldFunctionOnSet(LAMBDA e, k : Field(e) + k, 0, table,
                    {p \in DOMAIN table : p[2] # "NO_ACTION"})

(* A rate of one, in hundredths of a percent.                              *)
FullRate == 10000

(* The row says of the recoveries what the policy has learned from: every  *)
(* alarm is one of its updates, every episode of the row an attempt in its *)
(* table and every success one of its successes; a full success rate means *)
(* that no node was unknown to the simulator, and a row said to measure    *)
(* the physical simulation credits nothing to a simulator without nodes.   *)
(* The file of outcomes counts the same successes if there was an attempt. *)
ReportMatchesPolicy ==
  report # NoReport =>
    LET row == DetectionRow IN
    /\ report.tp + report.fp = updates
    /\ row.episodes = Tries(LAMBDA e : e.attempts)
    /\ row.successful = Tries(LAMBDA e : e.successes)
    /\ row.successRate = FullRate => report.applied = report.attempts
    /\ row.measurement = "PHYSICAL_SIMULATION" /\ row.successful > 0 =>
         DOMAIN simulator # {}
    /\ row.episodes > 0 => SuccessesOnFile = row.successful
===============================================================================
