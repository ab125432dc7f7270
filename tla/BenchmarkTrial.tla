----------------------------- MODULE BenchmarkTrial -----------------------------
(***************************************************************************)
(* run_benchmark_trial of scripts/run_full_benchmark.py and                *)
(* run_corrected_benchmark.py over one of the baselines: the life cycle of *)
(* the algorithm, the stream of CommonDataHarness with its warm-up and its *)
(* limit, and what is recorded of every evaluated record.                  *)
(*                                                                         *)
(* Where the scripts note the timestamp of a record the model notes its    *)
(* stream position; capture says which timestamp the record carries.  The  *)
(* two scripts keep different lists; the model keeps those of both.        *)
(***************************************************************************)
EXTENDS ProactiveBaseline, BilateralForest, FiniteSets

CONSTANTS
  Compared,       \* the algorithms of the benchmark plan
  Settings,       \* StreamConfigs: [warmup, limit], limit possibly NoLimit
  Captures,       \* the timestamp columns of a data set, in milliseconds
  Inference,      \* by stream position, the milliseconds process may take
  NoLimit,        \* max_records is None
  MaxStream       \* bound: records of the data set

Algorithms == {"IPFT", "PreGAN", "BWOAIF", "RCD"}

ASSUME TrialAssumption ==
  /\ Compared \subseteq Algorithms
  /\ NoLimit \notin Nat
  /\ Settings \subseteq [warmup : Nat, limit : Nat \cup {NoLimit}]
  /\ MaxStream \in Nat
  /\ Captures \subseteq [0 .. MaxStream - 1 -> Nat]
  /\ Inference \in [0 .. MaxStream - 1 -> SUBSET Nat]

VARIABLES
  algorithm,      \* the algorithm of this trial
  config,         \* StreamConfig of the harness
  capture,        \* the packet-capture times of its records, in any order
  phase,          \* of the trial
  position,       \* stream_contexts: position of the next record
  yTrue, yPred,   \* of the evaluated records
  onsetTimes,     \* of the evaluated attack records
  detectTimes,    \* of those among them that raised an alarm
  recTimes,       \* of the evaluated records that were acted upon
  latencies,      \* inference_latencies_ms, of the evaluated records
  session         \* the counters of the instrumentation

harnessVars == <<algorithm, config, capture>>
scoreVars   == <<yTrue, yPred, onsetTimes, detectTimes, recTimes, latencies, session>>
vars == <<harnessVars, phase, position, scoreVars, proactiveVars, forestVars>>

Proactive == {"IPFT", "PreGAN"}

(* Kilobytes of task state a migration transfers.                          *)
StateSize == [a \in Proactive |-> IF a = "IPFT" THEN 6 * 256 ELSE 8 * 512]

FreshSession == [observations |-> 0, migrations |-> 0, successes |-> 0,
                 migrationState |-> 0]

Init ==
  /\ algorithm \in Compared
  /\ config \in Settings
  /\ capture \in Captures
  /\ phase = "created"
  /\ position = 0
  /\ yTrue = <<>> /\ yPred = <<>>
  /\ onsetTimes = <<>> /\ detectTimes = <<>> /\ recTimes = <<>>
  /\ latencies = <<>>
  /\ session = FreshSession
  /\ ProactiveInit
  /\ ForestInit

TypeOK ==
  /\ algorithm \in Compared /\ config \in Settings /\ capture \in Captures
  /\ phase \in {"created", "streaming", "finished"}
  /\ position \in 0 .. MaxStream
  /\ yTrue \in Seq(BOOLEAN) /\ yPred \in Seq(BOOLEAN)
  /\ session \in [observations : Nat, migrations : Nat, successes : Nat,
                  migrationState : Nat]
  /\ window \in Seq(Nat) /\ Len(window) \in {0, SequenceLength}
  /\ cooldownUntil \in Nat
  /\ trees \in Seq(0 .. batchIndex) /\ Len(trees) \in {0, NumTrees}
  /\ buffered \in 0 .. BatchSize - 1

-------------------------------------------------------------------------------
(* initialize, fit, start and start_session.                               *)
Start ==
  /\ phase = "created"
  /\ phase' = "streaming"
  /\ ProactiveReset
  /\ IF algorithm = "BWOAIF" THEN Fit ELSE UNCHANGED forestVars
  /\ UNCHANGED <<harnessVars, position, scoreVars>>

(* stream_contexts has another record: the limit is compared after a       *)
(* record was yielded, never before the first one.                         *)
Delivers ==
  /\ phase = "streaming"
  /\ position < MaxStream
  /\ position > 0 /\ config.limit # NoLimit => position < config.limit

(* Mutant of IsWarmup: one record too many is warm-up. *)
IsWarmupInclusive == position <= config.warmup

IsWarmup == position < config.warmup

(* Mutant of Count: a mitigation result counts even if it is NO_ACTION. *)
CountEveryResult(alarm, moved) ==
  [ observations |-> session.observations + 1,
    migrations |-> session.migrations + (IF alarm THEN 1 ELSE 0),
    successes |-> session.successes + (IF alarm THEN 1 ELSE 0),
    migrationState |-> session.migrationState
                         + (IF moved THEN StateSize[algorithm] ELSE 0) ]

(* The counters after an evaluated record.                                 *)
Count(alarm, moved) ==
  [ observations |-> session.observations + 1,
    migrations |-> session.migrations + (IF moved THEN 1 ELSE 0),
    successes |-> session.successes + (IF moved THEN 1 ELSE 0),
    migrationState |-> session.migrationState
                         + (IF moved THEN StateSize[algorithm] ELSE 0) ]

(* x is added to the list if a condition holds.                            *)
Noted(list, x, condition) == IF condition THEN Append(list, x) ELSE list

(* What the trial records of the record at position, and the step of the   *)
(* stream to the next one.                                                 *)
Score(fault, alarm, moved) ==
  /\ Delivers
  /\ position' = position + 1
  /\ IF IsWarmup
       THEN UNCHANGED scoreVars
       ELSE /\ yTrue' = Append(yTrue, fault)
            /\ yPred' = Append(yPred, alarm)
            /\ onsetTimes' = Noted(onsetTimes, position, fault)
            /\ detectTimes' = Noted(detectTimes, position, fault /\ alarm)
            /\ recTimes' = Noted(recTimes, position, moved)
            /\ \E took \in Inference[position] : latencies' = Append(latencies, took)
            /\ session' = Count(alarm, moved)
  /\ UNCHANGED <<harnessVars, phase>>

(* process of IPFT or PreGAN on a record, with its three outcomes.         *)
ProactiveQuiet(fault) ==
  /\ algorithm \in Proactive
  /\ Score(fault, FALSE, FALSE)
  /\ PredictNothing(position)
  /\ UNCHANGED forestVars

ProactiveInCooldown(fault) ==
  /\ algorithm \in Proactive
  /\ Score(fault, TRUE, FALSE)
  /\ PredictInCooldown(position)
  /\ UNCHANGED forestVars

ProactiveMigration(fault) ==
  /\ algorithm \in Proactive
  /\ Score(fault, TRUE, TRUE)
  /\ PredictAndMigrate(position)
  /\ UNCHANGED forestVars

(* process of BWOAIF: a verdict, and the record enters the buffer.         *)
ForestRecord(fault, alarm) ==
  /\ algorithm = "BWOAIF"
  /\ Score(fault, alarm, FALSE)
  /\ Buffer \/ UpdateForest
  /\ UNCHANGED proactiveVars

(* process of RCD: never an alarm.                                         *)
RcdRecord(fault) ==
  /\ algorithm = "RCD"
  /\ Score(fault, FALSE, FALSE)
  /\ UNCHANGED <<proactiveVars, forestVars>>

(* The stream ends, at the limit or with the data: end_session, stop and   *)
(* reset.  The lists are what the report is computed from.                 *)
Finish ==
  /\ phase = "streaming"
  /\ phase' = "finished"
  /\ ProactiveReset
  /\ ForestReset
  /\ UNCHANGED <<harnessVars, position, scoreVars>>

Process(fault, alarm, moved) ==
  \/ ~ alarm /\ ~ moved /\ ProactiveQuiet(fault)
  \/ alarm /\ ~ moved /\ ProactiveInCooldown(fault)
  \/ alarm /\ moved /\ ProactiveMigration(fault)
  \/ ~ moved /\ ForestRecord(fault, alarm)
  \/ ~ alarm /\ ~ moved /\ RcdRecord(fault)

Next ==
  \/ Start
  \/ \E fault, alarm, moved \in BOOLEAN : Process(fault, alarm, moved)
  \/ Finish

Spec == Init /\ [][Next]_vars
===============================================================================
