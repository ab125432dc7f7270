----------------------------- MODULE DatasetStudy -----------------------------
(***************************************************************************)
(* The data set experiment of main.py (run_dataset_experiment): records    *)
(* stream from an adapter through the River detector and the persistence   *)
(* filter into counters, with a causal analysis now and then; then the     *)
(* report.  The scored records then serve as a validation set for the two  *)
(* threshold studies.                                                      *)
(*                                                                         *)
(* One program, one record at a time; a step is one record.  The score of  *)
(* a record and the effects the estimator finds are any of a few.          *)
(***************************************************************************)
EXTENDS CausalAnalysis, ThresholdStudy

CONSTANTS
  Experiment,     \* [dataset, files, limit, k]: a file is [device, rows]
  NoLimit,        \* --max-records is not given
  Scores,         \* scores a record may get, in hundredths
  WarmUp,         \* records with the higher threshold (30)
  WarmThreshold, Threshold,    \* 85 and 65
  HistoryLength,  \* records kept for the causal analysis (60)
  CausalPeriod, CausalFirst    \* when it runs (50000 and 1000)

(* A list of files, each with a row or more: a file without rows has no     *)
(* effect and is left out of an experiment.                                *)
FilesOf(files) ==
  /\ files \in Seq({files[i] : i \in DOMAIN files})
  /\ \A i \in DOMAIN files :
       LET rows == files[i].rows
       IN  /\ rows \in Seq({rows[j] : j \in DOMAIN rows}) /\ rows # <<>>
           /\ \A j \in DOMAIN rows :
                rows[j].label \in {0, 1, Missing, NormalWord, AttackWord}

ASSUME StudyAssumption ==
  /\ {WarmUp, WarmThreshold, Threshold, CausalFirst} \subseteq Nat
  /\ {HistoryLength, CausalPeriod} \subseteq Nat \ {0} /\ Scores \subseteq Nat
  /\ \A e \in Experiment :
       e.k \in Nat /\ e.limit \in Nat \cup {NoLimit} /\ FilesOf(e.files)

VARIABLES
  experiment,   \* what was asked for
  stage,        \* "stream", "report", "study", "done" or "failed"
  at,           \* file and row the adapter reads next
  last,         \* last_state of the adapter
  learned,      \* processed_count of the detector
  history,      \* sliding_history
  windows,      \* node_anomaly_window
  counts,       \* tp, fp, fn, tn and the other totals
  devices,      \* device_stats
  attacks,      \* attack_stats
  causal,       \* causal_results_list
  log,          \* every record with its score and verdicts (history variable)
  report,       \* the rows of the result files
  findings      \* what the threshold studies select

vars == <<experiment, stage, at, last, learned, history, windows, counts, devices,
          attacks, causal, log, report, findings>>

NoRecords == [total |-> 0, attack |-> 0, confirmed |-> 0,
              tp |-> 0, fp |-> 0, fn |-> 0, tn |-> 0]

NoneOfCategory == [total |-> 0, confirmed |-> 0]

NoCounts == [records |-> 0, raw |-> 0, confirmed |-> 0, inferences |-> 0,
             heuristics |-> 0, insufficient |-> 0, tp |-> 0, fp |-> 0, fn |-> 0, tn |-> 0]

Init ==
  /\ experiment \in Experiment
  /\ stage = IF experiment.dataset \in Constructible /\ experiment.files # <<>>
             THEN "stream" ELSE "failed"
  /\ at = <<1, 1>> /\ last = ClosedDoor
  /\ learned = 0 /\ history = <<>> /\ windows = <<>>
  /\ counts = NoCounts /\ devices = <<>> /\ attacks = <<>>
  /\ causal = <<>> /\ log = <<>> /\ report = <<>> /\ findings = <<>>

-------------------------------------------------------------------------------
(* The adapter (stream_telemetry): files in order, the limit looked at     *)
(* only after a record was handed out.                                     *)
File == experiment.files[at[1]]
LimitReached ==
  experiment.limit # NoLimit /\ counts.records >= experiment.limit /\ counts.records > 0
Exhausted == at[1] > Len(experiment.files)

NextAt == IF at[2] < Len(File.rows) THEN <<at[1], at[2] + 1>> ELSE <<at[1] + 1, 1>>

-------------------------------------------------------------------------------
(* RiverFaultDetector.process_record: a record is scored before the model  *)
(* learns it.                                                              *)
IsFault(score) ==
  score >= IF learned + 1 < WarmUp THEN WarmThreshold ELSE Threshold

(* A dictionary with one entry set.                                        *)
Put(dict, key, value) ==
  [x \in DOMAIN dict \cup {key} |-> IF x = key THEN value ELSE dict[x]]

(* The window of a node keeps its last k + 2 verdicts.                     *)
WindowOf(node) == IF node \in DOMAIN windows THEN windows[node] ELSE <<>>

LastOf(n, s) == SubSeq(s, Max({1, Len(s) - n + 1}), Len(s))

Pushed(window, verdict) == LastOf(experiment.k + 2, Append(window, verdict))

(* window[-k:], the whole window when k is 0.                              *)
Recent(window) == IF experiment.k = 0 THEN window ELSE LastOf(experiment.k, window)

(* Mutant of Confirmed: k anomalies anywhere in the window are enough. *)
ConfirmedInWindow(window) ==
  Cardinality({i \in DOMAIN window : window[i]}) >= experiment.k

Confirmed(window) ==
  LET recent == Recent(window)
  IN  Cardinality({i \in DOMAIN recent : recent[i]}) >= experiment.k

-------------------------------------------------------------------------------
(* The counters.                                                           *)
One(condition) == IF condition THEN 1 ELSE 0

CellOf(label, confirmed) ==
  CASE label = 1 /\ confirmed  -> "tp"
    [] label = 0 /\ confirmed  -> "fp"
    [] label = 1 /\ ~confirmed -> "fn"
    [] OTHER                   -> "tn"

Counted(stats, label, confirmed) ==
  [stats EXCEPT !.confirmed = @ + One(confirmed), ![CellOf(label, confirmed)] = @ + 1]

(* Mutant of CountRecord: an attack is counted when it is confirmed. *)
CountRecordSeen(stats, label, confirmed) ==
  [Counted(stats, label, confirmed) EXCEPT
     !.total = @ + 1, !.attack = @ + One(label = 1 /\ confirmed)]

CountRecord(stats, label, confirmed) ==
  [Counted(stats, label, confirmed) EXCEPT
     !.total = @ + 1, !.attack = @ + One(label = 1)]

(* The entry of a dictionary that a record counts in, updated or created.  *)
EntryOf(stats, key, none) == IF key \in DOMAIN stats THEN stats[key] ELSE none

DeviceCounted(key, label, confirmed) ==
  Put(devices, key, CountRecord(EntryOf(devices, key, NoRecords), label, confirmed))

(* Of a category only the records and the confirmed ones are counted.      *)
CategoryCounted(key, confirmed) ==
  LET old == EntryOf(attacks, key, NoneOfCategory)
  IN  Put(attacks, key, [total |-> old.total + 1, confirmed |-> old.confirmed + One(confirmed)])

(* The causal analysis runs on some of the confirmed records.              *)
AnalysisDue(confirmed) ==
  confirmed /\ (counts.records % CausalPeriod = 0 \/ counts.records = CausalFirst)

CausalRow(index, record, result) ==
  [ index |-> index, device |-> record.device, node |-> record.node,
    status |-> result.status, pair |-> result.pair, effect |-> result.effect,
    cause |-> result.cause ]

ProcessRecord(row, score) ==
  LET record    == RecordOf(experiment.dataset, row, File.device, last)
      raw       == IsFault(score)
      window    == Pushed(WindowOf(record.node), raw)
      confirmed == Confirmed(window)
      recent    == LastOf(HistoryLength, Append(history, record))
  IN  /\ at' = NextAt
      /\ last' = IF NextAt[2] = 1 THEN ClosedDoor
                 ELSE NextState(row, File.device, last)
      /\ learned' = learned + 1
      /\ history' = recent
      /\ windows' = Put(windows, record.node, window)
      /\ devices' = DeviceCounted(record.device, record.label, confirmed)
      /\ attacks' = CategoryCounted(record.category, confirmed)
      /\ log' = Append(log, [ node |-> record.node, label |-> record.label,
                              score |-> score, raw |-> raw, confirmed |-> confirmed,
                              seen |-> AvailableFeatures(record) ])
      /\ \E result \in IF AnalysisDue(confirmed) THEN Analyses(recent, record.node)
                       ELSE {<<>>} :
           /\ causal' = IF result = <<>> THEN causal
                        ELSE Append(causal, CausalRow(counts.records, record, result))
           /\ counts' =
                [Counted(counts, record.label, confirmed) EXCEPT
                   !.records = @ + 1, !.raw = @ + One(raw),
                   !.inferences = @ + One(result # <<>>
                                          /\ result.status = "CAUSAL_INFERENCE"),
                   !.insufficient = @ + One(result # <<>>
                                            /\ result.status = "INSUFFICIENT_EVIDENCE")]

(* One turn of the loop over stream_telemetry.                             *)
Stream ==
  /\ stage = "stream" /\ ~Exhausted /\ ~LimitReached
  /\ \E score \in Scores : ProcessRecord(File.rows[at[2]], score)
  /\ UNCHANGED <<experiment, stage, report, findings>>

EndOfStream ==
  /\ stage = "stream" /\ (Exhausted \/ LimitReached)
  /\ stage' = "report"
  /\ UNCHANGED <<experiment, at, last, learned, history, windows, counts, devices,
                 attacks, causal, log, report, findings>>

-------------------------------------------------------------------------------
(* The rows of dataset_detection_metrics.csv, dataset_device_metrics.csv   *)
(* and causal_results.csv, which has a placeholder when nothing was        *)
(* analysed, and of the attack plot.                                       *)
Placeholder ==
  CausalRow(0, [device |-> "TON_IoT", node |-> "none"], Insufficient("INSUFFICIENT_VARIANCE"))

DeviceRow(stats) ==
  [ total |-> stats.total, attack |-> stats.attack, confirmed |-> stats.confirmed,
    precision |-> Precision(stats), recall |-> Recall(stats), f1 |-> F1Score(stats) ]

AttackRow(stats) ==
  [ total |-> stats.total, confirmed |-> stats.confirmed,
    rate |-> Ratio(stats.confirmed, stats.total) ]

WriteReport ==
  /\ stage = "report" /\ stage' = "study"
  /\ report' = [ overall |-> [ precision |-> Precision(counts), recall |-> Recall(counts),
                               f1 |-> F1Score(counts),
                               accuracy |-> Ratio(counts.tp + counts.tn, counts.records),
                               fpr |-> Ratio(counts.fp, counts.fp + counts.tn),
                               totals |-> counts ],
                 devices |-> [d \in DOMAIN devices |-> DeviceRow(devices[d])],
                 attacks |-> [a \in DOMAIN attacks |-> AttackRow(attacks[a])],
                 causal  |-> IF causal = <<>> THEN <<Placeholder>> ELSE causal ]
  /\ UNCHANGED <<experiment, at, last, learned, history, windows, counts, devices,
                 attacks, causal, log, findings>>

(* The threshold studies on the scored records, two programs of their own. *)
(* The diagnosis may fail before it marks a threshold or before its table  *)
(* of configurations is complete.                                          *)
StudyThresholds ==
  /\ stage = "study" /\ stage' = "done"
  /\ \E curve \in CurveOutcomes(log) :
       findings' =
         [ selected |-> SweepThresholds(log),
           marked   |-> IF curve THEN {MarkedThreshold(log)} ELSE {},
           table    |-> IF curve /\ Tabulated(log) THEN Experiments(log) ELSE <<>> ]
  /\ UNCHANGED <<experiment, at, last, learned, history, windows, counts, devices,
                 attacks, causal, log, report>>

Next == Stream \/ EndOfStream \/ WriteReport \/ StudyThresholds

Spec == Init /\ [][Next]_vars

-------------------------------------------------------------------------------
(* For every node, the sliding windows of the experiment confirm exactly   *)
(* the records that the counter of the diagnosis (evaluate_persistence)    *)
(* confirms on the records of that node, however the nodes interleave, and *)
(* a longer persistence than the one in force would confirm fewer of them. *)
FiltersAgree ==
  experiment.k >= 1 =>
    \A n \in DOMAIN windows :
      LET own == OfNode(log, n)
          raw == [i \in DOMAIN own |-> own[i].raw]
          longer == Persistent(raw, experiment.k + 1)
      IN  /\ [i \in DOMAIN own |-> own[i].confirmed] = Persistent(raw, experiment.k)
          /\ \A i \in DOMAIN own : longer[i] => own[i].confirmed

SumOfField(stats, field) ==
  FoldSet(LAMBDA k, sum : stats[k][field] + sum, 0, DOMAIN stats)

(* Every record handed out ends up once in the confusion matrix, once      *)
(* under its device and once under its category; the attacks of a device   *)
(* are the ones found and the ones missed in it; all rows are handed out   *)
(* without a limit, and as many as a limit of one or more allows; and each *)
(* analysis left one row, whose cause and effect are columns that varied   *)
(* among enough records of the node.                                       *)
CountsBalance ==
  stage \in {"study", "done"} =>
    LET o == report.overall.totals
        rows == Len(FlattenSeq([f \in DOMAIN experiment.files |-> experiment.files[f].rows]))
    IN  /\ experiment.limit = NoLimit => o.records = rows
        /\ experiment.limit \notin {NoLimit, 0} => o.records = Min({rows, experiment.limit})
        /\ o.records = o.tp + o.fp + o.fn + o.tn
        /\ \A stats \in {devices, attacks} :
             /\ SumOfField(stats, "total") = o.records
             /\ SumOfField(stats, "confirmed") = o.tp + o.fp
        /\ SumOfField(devices, "attack") = o.tp + o.fn
        /\ \A d \in DOMAIN devices : devices[d].attack = devices[d].tp + devices[d].fn
        /\ o.inferences + o.insufficient = Len(causal) /\ Len(report.causal) >= 1
        /\ \A i \in DOMAIN causal :
             /\ log[causal[i].index + 1].confirmed
             /\ causal[i].status = "CAUSAL_INFERENCE" =>
                  LET seen == OfNode(SubSeq(log, 1, causal[i].index + 1), causal[i].node)
                  IN  /\ Len(seen) >= MinRecords
                      /\ \A c \in {causal[i].pair[1], causal[i].pair[2]} :
                           \E j, l \in DOMAIN seen :
                             /\ c \in DOMAIN seen[j].seen
                             /\ c \in DOMAIN seen[l].seen => seen[j].seen[c] # seen[l].seen[c]

(* The two studies sweep different ranges in different ways; when the      *)
(* threshold the calibration selects is within reach of the diagnosis,     *)
(* they mark the same one, and otherwise none within reach is as good.     *)
SweepsAgree ==
  stage = "done" =>
    \A marked \in findings.marked :
      IF findings.selected.tau \in DiagnosisGrid
      THEN marked = findings.selected.tau
      ELSE F1At(log, marked) < findings.selected.f1
===============================================================================
