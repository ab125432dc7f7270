------------------------------ MODULE TrialReport ------------------------------
(***************************************************************************)
(* What the two benchmark runners make of a finished trial: the record     *)
(* that run_benchmark_trial returns, in scripts/run_full_benchmark.py      *)
(* (FullReport) and in scripts/run_corrected_benchmark.py                  *)
(* (CorrectedReport).  A field that the capabilities of the algorithm do   *)
(* not cover is NotApplicable.                                             *)
(***************************************************************************)
EXTENDS TrialHistory, Metrics

CONSTANTS
  MaxLookback,    \* records an early warning may precede its episode by
  Elapsed         \* length of the session in milliseconds

ASSUME ReportAssumption == MaxLookback \in Nat \ {0} /\ Elapsed \in Nat \ {0}

(* supported_capabilities.                                                 *)
Capabilities ==
  [a \in Algorithms |->
     CASE a \in Proactive -> {"RESOURCE_PREDICTION", "PREEMPTIVE_MIGRATION",
                              "CLOSED_LOOP_FAULT_TOLERANCE"}
       [] a = "BWOAIF"    -> {"STREAMING_DETECTION"}
       [] a = "RCD"       -> {"CAUSAL_ROOT_CAUSE_ANALYSIS"}]

Supports(capability) == capability \in Capabilities[algorithm]
When(condition, value) == IF condition THEN value ELSE NotApplicable

Detects  == Supports("STREAMING_DETECTION") \/ Supports("RESOURCE_PREDICTION")
Recovers == Supports("PREEMPTIVE_MIGRATION")
            \/ Supports("CLOSED_LOOP_FAULT_TOLERANCE")

(* t_proc of the evaluated record at a position of the stream.             *)
Took(p) == latencies[p - config.warmup + 1]

(* The timestamps of a list of positions, in milliseconds where the full   *)
(* runner has seconds.  A detection comes after the inference, the end of  *)
(* an action another 50 ms later.                                          *)
Onsets(positions)     == [k \in DOMAIN positions |-> capture[positions[k]]]
Detections(positions) ==
  [k \in DOMAIN positions |-> capture[positions[k]] + Took(positions[k])]
Recoveries(positions) ==
  [k \in DOMAIN positions |-> capture[positions[k]] + Took(positions[k]) + 50]

(* No baseline leaves a diagnosis in the output of process.                *)
DiagTimes == <<>>

-------------------------------------------------------------------------------
(* compute_early_warning_time: the alarm closest before the onset of an    *)
(* episode, if it is not further back than the look-back.                  *)

(* Mutant of Lookback: the window of the look-back is one record too long. *)
LookbackTooLong(onset) == Max({1, onset - MaxLookback - 1}) .. onset - 1

Lookback(onset) == Max({1, onset - MaxLookback}) .. onset - 1

Warnings(episode) == {i \in Lookback(episode[1]) : yPred[i]}

LeadsOf(episode) ==
  IF Warnings(episode) = {} THEN <<>>
  ELSE <<episode[1] - Max(Warnings(episode))>>

EarlyWarningTime(episodes) ==
  MeanOf(FlattenSeq([k \in DOMAIN episodes |-> LeadsOf(episodes[k])]))

(* compute_episode_mttd: a record before the first alarm of an episode     *)
(* counts as a millisecond, and the inference of that alarm is added.      *)
DelayMs(episode) ==
  LET alarms == AlarmsIn(episode, yPred)
  IN  IF alarms = {} THEN <<>>
      ELSE <<Min(alarms) - episode[1] + latencies[Min(alarms)]>>

DelaysMs(episodes) == FlattenSeq([k \in DOMAIN episodes |-> DelayMs(episodes[k])])

EpisodeMttd(episodes) ==
  LET delays == DelaysMs(episodes)
      steps  == DelaysSteps(episodes, yPred)
  IN  [mttd |-> When(delays # <<>>, MeanOf(delays)),
       steps |-> When(steps # <<>>, MeanOf(steps)),
       coverage |-> IF episodes = <<>> THEN 10000
                    ELSE Ratio(Len(delays), Len(episodes))]

-------------------------------------------------------------------------------
FullReport ==
  LET onsets     == Onsets(onsetTimes)
      detections == Detections(detectTimes)
      recoveries == Recoveries(recTimes)
      failures   == Len(onsetTimes)
      mttd       == DetectionLatency(onsets, detections)
      recovery   == RecoveryLatency(DiagTimes, recoveries)
      downtime   == IF recovery > 0 THEN (failures * (mttd + recovery)) \div 1000000
                    ELSE 0
      accuracy   == DetectionAccuracy(yTrue, yPred)
      closed     == Supports("CLOSED_LOOP_FAULT_TOLERANCE")
  IN  [ f1 |-> When(Detects, accuracy.f1),
        recall |-> When(Detects, accuracy.recall),
        precision |-> When(Detects, accuracy.precision),
        mttd |-> When(Detects /\ detectTimes # <<>>, mttd),
        diagnosisLatency |->
          When(Supports("CAUSAL_ROOT_CAUSE_ANALYSIS") /\ DiagTimes # <<>>,
               DiagnosisLatency(detections, DiagTimes)),
        recoveryLatency |->
          When(Supports("PREEMPTIVE_MIGRATION") /\ recTimes # <<>>, recovery),
        endToEndLatency |->
          When(closed /\ recTimes # <<>>, EndToEndLatency(onsets, recoveries)),
        availability |-> When(closed, ServiceAvailability(Elapsed, downtime)),
        mttfMttr |-> When(closed, MttfMttr(Elapsed, downtime, failures)),
        migrationBandwidth |->
          When(Supports("PREEMPTIVE_MIGRATION"),
               Rate(session.migrationState, Elapsed)),
        actions |-> session.migrations ]

(* The attack records that raised no alarm.                                *)
Unmitigated == {i \in DOMAIN yTrue : yTrue[i] /\ ~ yPred[i]}

CorrectedReport ==
  LET episodes  == FindFaultEpisodes(yTrue)
      mttd      == EpisodeMttd(episodes)
      confusion == ConfusionOf(yTrue, yPred)
  IN  [ confusion |-> When(Detects, confusion),
        f1 |-> When(Detects, F1Score(confusion)),
        falsePositiveRate |->
          When(Detects, Ratio(confusion.fp, confusion.fp + confusion.tn)),
        falseNegativeRate |->
          When(Detects, Ratio(confusion.fn, confusion.fn + confusion.tp)),
        mttd |-> IF Detects THEN mttd.mttd ELSE NotApplicable,
        mttdSteps |-> IF Detects THEN mttd.steps ELSE NotApplicable,
        coverage |-> When(Detects, mttd.coverage),
        earlyWarning |->
          When(Supports("RESOURCE_PREDICTION"), EarlyWarningTime(episodes)),
        recoverySuccess |->
          IF session.migrations > 0
            THEN RecoverySuccessRate(session.migrations, session.successes)
            ELSE When(Recovers, 0),
        recoveryLatency |->
          IF recTimes # <<>> THEN 50 ELSE When(Recovers, 0),
        availability |->
          When(Recovers,
               10000 - Ratio(Cardinality(Unmitigated), Max({1, Len(yTrue)}))),
        actions |-> When(Recovers, session.migrations) ]

-------------------------------------------------------------------------------
(* How long the detected attacks took to be detected, each from its own    *)
(* timestamp on.                                                           *)
OwnDelays ==
  [k \in DOMAIN detectTimes |->
     Detections(detectTimes)[k] - Onsets(detectTimes)[k]]

(* calculate_detection_latency_mttd of the full runner pairs the k-th      *)
(* attack with the k-th detection: in whatever order the timestamps are,   *)
(* its mean is that of the attacks' own delays as long as no attack was    *)
(* missed before one that was detected.                                    *)
PairingOwn ==
  phase = "finished" /\ FullReport.mttd # NotApplicable =>
    LET inOrder == \A m, d \in DOMAIN yTrue :
                     m \in Unmitigated /\ yTrue[d] /\ yPred[d] => d < m
    IN  inOrder => FullReport.mttd = MeanOf(OwnDelays)

(* compute_early_warning_time and compute_episode_mttd: if at least        *)
(* MaxLookback normal records lie between any two episodes, no alarm is    *)
(* credited twice, as the detection of an episode and as the warning of    *)
(* the next one.                                                           *)
CreditedOnce ==
  phase = "finished" =>
    LET episodes == FindFaultEpisodes(yTrue)
        apart == \A k \in 2 .. Len(episodes) :
                   episodes[k][1] - episodes[k - 1][2] > MaxLookback
        warnings == {Max(Warnings(e)) :
                       e \in {f \in ToSet(episodes) : Warnings(f) # {}}}
        detections == {Min(AlarmsIn(e, yPred)) :
                         e \in {f \in ToSet(episodes) :
                                  AlarmsIn(f, yPred) # {}}}
    IN  apart => warnings \cap detections = {}
===============================================================================
