-------------------------------- MODULE Campaign --------------------------------
(***************************************************************************)
(* The main programs of scripts/run_full_benchmark.py and of               *)
(* scripts/run_corrected_benchmark.py: one trial per seed of the same      *)
(* algorithm over the same files, and the aggregates of their reports.     *)
(*                                                                         *)
(* Every trial has an algorithm of its own.  The seed goes into the        *)
(* StreamConfig, whose records do not depend on it: all trials of a        *)
(* campaign see the same labels, with verdicts that may differ.            *)
(***************************************************************************)
EXTENDS TrialReport

CONSTANTS
  Seeds,          \* bound: trials of a campaign
  CampaignStream  \* bound: records of a trial that another one follows

ASSUME CampaignAssumption == Seeds \in Nat \ {0} /\ CampaignStream \in Nat

(* What stands for a missing number is no aggregate of numbers either.     *)
ASSUME AggregateAssumption ==
  NotApplicable \notin [mean : Int, variance : Int, margin : Int]

VARIABLES
  trials,         \* the reports of the earlier trials
  dataset         \* the labels, as the first trial has seen them

campaign == <<trials, dataset>>

CampaignInit == HInit /\ trials = <<>> /\ dataset = <<>>

Truths(history) == [i \in DOMAIN history |-> history[i].fault]

(* A later trial reads the same records, and as many of them.              *)
SameData ==
  /\ IsPrefix(Truths(delivered'), dataset)
  /\ phase' = "finished" => Len(delivered') = Len(dataset)

TrialStep ==
  /\ HNext
  /\ trials # <<>> => SameData
  /\ UNCHANGED campaign

Report == [full |-> FullReport, corrected |-> CorrectedReport]

(* A new algorithm, a new harness and a new instrumentation.               *)
NextSeed ==
  /\ phase = "finished"
  /\ Len(trials) + 1 < Seeds /\ Len(delivered) <= CampaignStream
  /\ trials' = Append(trials, Report)
  /\ dataset' = Truths(delivered)
  /\ phase' = "created"
  /\ position' = 0
  /\ yTrue' = <<>> /\ yPred' = <<>>
  /\ onsetTimes' = <<>> /\ detectTimes' = <<>> /\ recTimes' = <<>>
  /\ latencies' = <<>>
  /\ session' = FreshSession
  /\ delivered' = <<>>
  /\ ProactiveReset /\ ForestReset
  /\ UNCHANGED harnessVars

CampaignNext == TrialStep \/ NextSeed

CampaignSpec == CampaignInit /\ [][CampaignNext]_<<hvars, campaign>>

-------------------------------------------------------------------------------
(* Of the trials with a number the mean, the square of the deviation and   *)
(* of the margin of the interval.                                          *)
Aggregate(values) ==
  LET stats == MeanAndVariance(values)
  IN  IF \A i \in DOMAIN values : values[i] = NotApplicable
        THEN NotApplicable
        ELSE [mean |-> stats[1], variance |-> stats[2],
              margin |-> ConfidenceInterval(values)[2]]

(* aggregate_trials: the times and what follows from them are those of the *)
(* first trial.                                                            *)
FullAggregate(reports) ==
  LET Over(Field(_)) == Aggregate([i \in DOMAIN reports |-> Field(reports[i].full)])
      first == reports[1].full
  IN  [ precision |-> Over(LAMBDA r : r.precision),
        recall |-> Over(LAMBDA r : r.recall),
        f1 |-> Over(LAMBDA r : r.f1),
        mttd |-> first.mttd,
        diagnosisLatency |-> first.diagnosisLatency,
        recoveryLatency |-> first.recoveryLatency,
        endToEndLatency |-> first.endToEndLatency,
        availability |-> first.availability,
        mttfMttr |-> first.mttfMttr,
        migrationBandwidth |-> first.migrationBandwidth ]

(* The aggregates of the corrected runner and, over the rows of            *)
(* detection_confusion_metrics_by_seed.csv, the summary of the cells.      *)
CorrectedAggregate(reports) ==
  LET Over(Field(_)) ==
        Aggregate([i \in DOMAIN reports |-> Field(reports[i].corrected)])
      rows == SelectSeq(reports, LAMBDA r : r.corrected.confusion # NotApplicable)
      Cells(Field(_)) == MeanOf([i \in DOMAIN rows |-> Field(rows[i].corrected.confusion)])
  IN  [ f1 |-> Over(LAMBDA r : r.f1),
        falsePositiveRate |-> Over(LAMBDA r : r.falsePositiveRate),
        falseNegativeRate |-> Over(LAMBDA r : r.falseNegativeRate),
        mttd |-> Over(LAMBDA r : r.mttd),
        mttdSteps |-> Over(LAMBDA r : r.mttdSteps),
        coverage |-> Over(LAMBDA r : r.coverage),
        earlyWarning |-> Over(LAMBDA r : r.earlyWarning),
        recoverySuccess |-> Over(LAMBDA r : r.recoverySuccess),
        recoveryLatency |-> Over(LAMBDA r : r.recoveryLatency),
        availability |-> Over(LAMBDA r : r.availability),
        summary |-> IF rows = <<>> THEN NotApplicable
                    ELSE [tp |-> Cells(LAMBDA c : c.tp), fp |-> Cells(LAMBDA c : c.fp),
                          fn |-> Cells(LAMBDA c : c.fn), tn |-> Cells(LAMBDA c : c.tn)] ]

-------------------------------------------------------------------------------
(* aggregate_trials and the main program of the corrected runner: all      *)
(* trials of a campaign are scored on the same attacks; the corrected      *)
(* delay exists as soon as one trial has detected something and lies among *)
(* the delays of the trials that have (a trial that detects nothing does   *)
(* not shorten it); and the two runners disagree on whether there is a     *)
(* delay only when the first trial, which alone speaks for the full        *)
(* runner, has missed every attack and a later one has not.                *)
SeedsAggregated ==
  phase = "finished" =>
    LET reports   == Append(trials, Report)
        full      == FullAggregate(reports)
        corrected == CorrectedAggregate(reports)
        All(P(_)) == \A i \in DOMAIN reports : P(reports[i])
    IN  /\ Detects =>
             All(LAMBDA r : r.corrected.confusion.tp + r.corrected.confusion.fn
                              = Len(onsetTimes))
        /\ corrected.mttd = NotApplicable
             <=> All(LAMBDA r : r.corrected.mttd = NotApplicable)
        /\ corrected.mttd # NotApplicable =>
             LET delays == {r.corrected.mttd : r \in ToSet(reports)} \ {NotApplicable}
             IN  corrected.mttd.mean \in 1000 * Min(delays) .. 1000 * Max(delays)
        /\ full.mttd = NotApplicable /\ corrected.mttd # NotApplicable =>
             /\ reports[1].corrected.confusion.tp = 0
             /\ ~ All(LAMBDA r : r.corrected.confusion.tp = 0)
        /\ full.mttd # NotApplicable => corrected.mttd # NotApplicable
===============================================================================
