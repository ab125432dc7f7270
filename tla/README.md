# Verification of the edge fault-tolerance code

TLA+ models, TLC runs and TLAPS proofs for the repository: a simulated edge
cluster with injected faults, a detect/diagnose/recover loop over it, the
fault-tolerance algorithms that are benchmarked on streams of telemetry, and
the programs that prepare the data, run the experiments and report them.

Paths below are relative to `src/`. Every definition that models code is listed
with its lines under `map` in `PROJECT.json`.

## 1. The system

| Component | State it keeps | Operations | Talks to |
|---|---|---|---|
| Task service of an `EdgeNode` (`simulation/edge_nodes.py`, `tasks.py`) | a `simpy.Resource` (replaced on failover), `_active_tasks`, five counters, `node_failed`, `packet_loss`, the `Task` objects | `handle_task` (one SimPy process per task), `update_metrics`, `apply_fault`, `clear_faults`, `apply_recovery_action`, `_abort_active_tasks` | resumed by `env.run`; crashed and recovered by the loop between runs |
| Physical state of a node (`edge_nodes.py`) | fault offsets, crash flag, mitigation factors, last metrics | the causal equations of `update_metrics`, faults, clearing, mitigation | read through telemetry, one step late |
| Fault schedule (`faults/`) | `FaultRecord.active` per scheduled fault | `update_simulation_faults(sim, t)` on every record | raises and clears faults of nodes, keeps `sim.active_fault_records` |
| Recovery loop (`main.py run_experiment_pipeline`, `recovery/recovery_manager.py`) | anomaly window per node, `recovered_nodes`, episodes, series of truths and verdicts | step, consume a record, confirm, recover, judge, report; three arms (proposed, fixed, no recovery) | simulation, schedule, detector, causal analysis, metrics |
| Causal FT (`algorithms/causal_ft/`) | simulated nodes with cooldowns and fault counts, bounded logs, stream position | `process`, `reset`, `initialize`, `stop` | pipeline and policy share one state object, until `initialize` replaces one of the two references |
| CRAFT-Edge (`algorithms/craft_edge/`, `main.py run_craft_edge_experiment`) | Q table, statistics, epsilon, shadow nodes, episode flag; the experiment's series and outcomes | `process`, `reset`, `initialize`; stream, confront with the label, report | an attached `EdgeSimulation`, or shadow nodes |
| Baselines (`algorithms/ipft`, `pregan`, `bwoaif`, `rcd`) | windows, cooldown, forest | `initialize`, `fit`, `process`, `reset` | the benchmark |
| Benchmark (`scripts/run_full_benchmark.py`, `run_corrected_benchmark.py`, `evaluation/`) | harness, one algorithm per trial, the reports of the trials of a campaign | life cycle of a trial, warm-up, record limit, report, aggregation over seeds | every algorithm through `algorithms/base.py` |
| Instrumentation (`evaluation/instrumentation.py`) | three timers, counters, `monitoring`, peak memory, samples | `start_session`, observations, `end_session`; a sampler *thread* | shares its fields with the sampler, without a lock |
| Data preparation (`scripts/preprocess_dataset.py`) | scaler, statistics; output files and artifacts on disk | sample verification, full pass (reset, fit, save, transform), chunk by chunk | works over what earlier processes left on disk |
| Dataset experiment (`main.py run_dataset_experiment`, `data/`, `causal/`, `detection/river_detector.py`) | window per node, history, counters in three places, carried cells | one record at a time: adapt, score, confirm, analyse, count; report | adapters, detector, causal analysis |
| Threshold studies (`scripts/calibrate_thresholds.py`, `diagnose_and_optimize_causal_ft.py`) | none (a scored set) | sweep, persistence filter, comparison of configurations | the scores of a validation set |
| Plots, sweeps over seeds, workload generators, configuration | files, settings | numeric code and I/O | inputs and outputs of the above |

What makes the behaviour hard:

* **interleaving**: SimPy processes stand at a yield while the loop crashes,
  clears or fails over their node; records of several nodes are interleaved in
  streams whose consumer keeps state for the stream as a whole; the sampler
  thread of the instrumentation reads, compares and stores a peak that the main
  thread resets, reads and stores too;
* **stale data**: the loop acts on records sampled before the fault schedule was
  consulted; a process releases a slot of `self.resource` after it was replaced;
  two objects hold a reference to what used to be the same state; the second
  session starts on timers that hold the time of the first;
* **crash and restart**: a preparation process may be killed between any two
  chunks, its files stay, and the next process (of either mode) works over them;
* **timeouts**: `stop` waits half a second for the sampler and goes on without it;
* **partial failure**: a recovery that did not succeed, or that named a node the
  simulator does not have, still updates counters and policies; a trial without
  a single detection still enters the means of its campaign;
* **sequences**: cooldowns, escalation, epsilon schedules and windows across
  resets and re-initialisation.

There is no other thread, and nothing else is persisted and read again. The
"crashes" of the other models are those of simulated nodes.

## 2. The modules

| Module | Models |
|---|---|
| `TaskLedger` | abstract: what a caller of a node is promised about its tasks |
| `EdgeNode` | the discrete task service of one node |
| `EdgeNodeLedger` | the refinement mapping from `EdgeNode` to `TaskLedger` |
| `NodeHealth` | the physical side of a node as pure operators on a record |
| `RecoveryLoop` | schedule, simulation step and record loop; extends `NodeHealth` |
| `LoopReport` | `RecoveryLoop` in one of its three arms, with the series it keeps and the report it returns |
| `CausalFT` | the closed loop of the proposed algorithm |
| `CraftEdge` | the closed loop that learns; instantiates `NodeHealth` for an attached simulator |
| `CraftReport` | `CraftEdge` driven by the experiment that streams labelled records through it and reports |
| `ProactiveBaseline` | the window and cooldown of IPFT and PreGAN |
| `BilateralForest` | batches and tree replacement of BWOAIF |
| `EpisodeMetrics` | episode metrics of a trial, as pure operators |
| `BenchmarkTrial` | a benchmark trial over one of the baselines |
| `TrialHistory` | `BenchmarkTrial` with a history of the delivered records |
| `TrialReport` | the reports that the two runners make of a finished trial |
| `Campaign` | one trial per seed over the same data, and the aggregates of the two runners |
| `Metrics` | the formulas of `evaluation/metrics.py` as pure operators |
| `Instrumentation` | the sessions, timers, counters and sampler threads |
| `DataPreparation` | processes that clean, fit, scale and write, killed anywhere |
| `DatasetAdapters` | how a row of a data set becomes a record, as pure operators |
| `CausalAnalysis` | the causal analysis of a window of records, as pure operators |
| `ThresholdStudy` | the two sweeps over a scored set, as pure operators |
| `DatasetStudy` | the dataset experiment composed with adapters, analysis and threshold studies |
| `MC*` | instances for TLC: schedules, demands, settings, data sets, symmetry sets |
| `*_proofs` | theorems about the module (and those that extend it) and the lemmas they rest on, checked by TLAPS; `DataPrograms_proofs` is about `DataPreparation` and `DatasetStudy` |
| `ProofLemmas` | lemmas about extrema, finite sums and folds, for all of them |

Compositions: `LoopReport` = `RecoveryLoop` + `NodeHealth` + `Metrics`;
`CraftReport` = `CraftEdge` + `NodeHealth` + `Metrics`; `Campaign` = trials of
`BenchmarkTrial` (harness, baselines, session) + `TrialReport` + `Metrics`;
`DatasetStudy` = `DatasetAdapters` + `CausalAnalysis` + `ThresholdStudy`.

### EdgeNode

One task is one process of `handle_task`; an action is the code between two of
its yields. The four ways to be turned away on arrival are actions
(`ArriveAtFailedNode`, `DropInTransit`, `ArriveAtFullQueue`, else `Enqueue`);
`StartService`, `AbortQueued` and `FinishService` are the resumptions.
`simpy.Resource` is modelled as this code uses it (a library, marked external):
a request is granted at once if there is room, a release takes effect at once
but its event, which grants the next request, is processed later
(`ProcessRelease`). A failover creates a new resource: `current` moves on, and
the requests in the old one stay where they are. Resources are numbered, so an
old process that releases *its* slot on the *new* resource does what SimPy does,
nothing. `CrashNode` is `apply_fault("EDGE_NODE_FAILURE")` with
`_abort_active_tasks`. `packet_loss` is kept as none / some / all, because
`random() * 100 < packet_loss` is certain at 100 and impossible at 0.

`ClearFaults` does not recompute the metrics, so a node can be up with a stale
packet loss of 100; that is in the code and in the model.

### NodeHealth

A health record holds offsets, crash flag, factors, the last workload and the
last metrics. Percentages, milliseconds and requests/s are integers in
hundredths (the rounding of a `TelemetryRecord`), factors are tenths. The
operators are the code's methods: `UpdateMetrics`, `ApplyFaults` (a list of
faults in list order), `ClearFaults`, `ApplyRecovery`, `SelectAction`,
`Success`. The metrics are a field of their own because they are *not* a
function of the rest: injecting and clearing leave them stale until the next
step.

### RecoveryLoop and LoopReport

`Step` is `EdgeSimulation.step`: all nodes re-evaluate their metrics and are
sampled. Then the records of the step are consumed one at a time
(`Observe`/`Recover`): each first runs the fault schedule for its timestamp,
prunes `recovered_nodes`, appends a verdict to the window of its node, and
recovers the node if the last K verdicts are anomalies, the *record* is
degraded and the node is not in `recovered_nodes`. The verdict, the root cause
and the offered workload are arbitrary.

`LoopReport` conjoins these actions with the accounting of
`run_experiment_pipeline`, for its three arms: `Pass` and `Answer` are the
recovering arms (`Answer` of the fixed arm recovers from a CPU overload whatever
the cause was), `Watch` the control group, which confirms and does nothing.
`Finish` makes the returned dictionary of the series; the formulas are those of
`Metrics`. `confirmedAt` is a history of all confirmations, of which the code
keeps the first of each node only; with it a fault has a detection of its own
(`Own`, a confirmation within its window), whatever the code pairs it with.

### CausalFT

One action per outcome of `process`: a normal record, an anomaly in a cooldown,
an anomaly acted upon. `shared` says whether pipeline and policy still hold the
same state; `Reset` and `InitializeWindow` are the calls around a stream.
`spell` is a history of the anomalies a node is in: the code counts the faults of
a node without it, its comments speak of consecutive ones.

### CraftEdge and CraftReport

One action for a normal and one for an anomalous record; the latter is diagnosis,
choice, execution, evaluation and Q update, in the order of `process`. Values are
integers in thousandths; divisions round down, so a model value can differ from
the code's by a thousandth, which no property depends on. `attached` with a
`simulator` whose domain lacks a node is a pipeline given a simulation that
does not know the record's node; the action is then rejected and the policy is
updated all the same.

`CraftReport` is `run_craft_edge_experiment`: a stream of labelled records
through one pipeline that is neither reset nor initialised again, the counters
over its series, and the rows of the two files it writes. A behaviour either is
such an experiment, or drives the pipeline through all of its operations and
keeps no report.

### BenchmarkTrial, TrialHistory, TrialReport, Campaign

A behaviour of `BenchmarkTrial` is one trial: the object of the algorithm is
created, `Start` is `initialize`, `fit`, `start` and `start_session`, one action
per record and outcome of `process`, and `Finish` is `end_session`, `stop` and
`reset`. Each record action is the algorithm's step conjoined with `Score`,
which is the body of the loop of `run_benchmark_trial`: nothing in the warm-up,
else the truth, the verdict, the times and the counters. `Delivers` is the
generator of the harness, which compares the limit only after it yielded. A
feature vector is named by the stream position of its record. Its timestamp is
the parsed capture time of a packet (`data_harness.py:148`), which nothing keeps
in order: a trial takes one of the columns `Captures`, and every evaluated record
one of the times that `Inference` has for its position, which the full runner adds
to the capture time of a detection. (It works in seconds and names the result
`mttd_ms`; the model has milliseconds throughout.) The two runner scripts keep different
lists; the model keeps those of both. The algorithms are the baselines; `CausalFT` and `CraftEdge` have models of their
own, with their own streams.

`TrialHistory` adds what the harness delivered, which the trial itself forgets
in part (nothing of the warm-up is recorded), and states the properties against
it. `TrialReport` makes of a finished trial the records that the two runners
return, with a field being not applicable where the algorithm's capabilities say
so. `Campaign` runs one trial per seed (`NextSeed`: new algorithm, new harness,
new instrumentation) and aggregates the reports as the two programs do. The
seed never reaches the data, so all trials of a campaign see the same labels.

### Metrics

The formulas as integer operators: rates in hundredths of a percent, times in
milliseconds, means in thousandths, the undefined ones with the value the code
substitutes. Every report above is made with them.

### Instrumentation

`main` is the thread that runs the benchmark, `sampler[s]` the thread of the
s-th session. Between two bytecodes that touch a shared field there is a step:
a sampler looks at the flag, reads the memory, compares, stores, sleeps; the
main thread does the same with its final sample. `Join` needs the sampler to
have ended, `JoinTimesOut` does not. `start_session` is five steps: the session
timer, the first reading of the memory, the launch of the sampler, the timer of
the throughput, that of the bandwidth; `end_session` stops the session timer
before the join and the other two after it. `clock` may advance at each of these
points, which is what makes the three timers differ. `mark` is a history of when
the records of the session came.

### DataPreparation

A process is a list of phases (`Programs`), the first of which is at work;
`--full` runs the sample verification first and then the full pass *with the same
object*. A phase handles one chunk per action, so that `Kill` can fall between
any two. What is on disk (`outputs`, `artifacts`) survives a kill, what is in
memory does not. A scaler is the bag of feature vectors it was fitted on, so two
scalers are equal when they have seen the same rows equally often; every row on
disk carries the scaler that scaled it.

### DatasetStudy, DatasetAdapters, CausalAnalysis, ThresholdStudy

`ProcessRecord` is one turn of the loop of `run_dataset_experiment`: the adapter
makes a record of a row (`RecordOf`), the detector's score is compared with its
threshold, the window of the node is pushed and evaluated, the causal analysis
runs when it is due, and the counters move in three places. `WriteReport` makes
the rows of the result files. `StudyThresholds` then takes the scored records for
the validation set of the two threshold studies; in the repository these are
programs of their own with scores of their own, and what they compute is a
function of any scored set, which the experiment supplies. The diagnosis may end
early: scikit-learn's `roc_auc_score` raises or warns on labels of one class, by
version (`CurveOutcomes`; `requirements.txt` pins none), and a confusion matrix of one
class has no four cells to take apart (`Tabulated`). Scores and estimated effects
are arbitrary, within small sets.

## 3. The runs

Every passing run finishes its state space. Symmetry is used for tasks and nodes
that are interchangeable, never in a run with a liveness property. The runs of
`CausalFT` identify states (`VIEW`) that differ in `last_mitigation` and the length
of `detected_faults` only, which no guard, no other variable and no property of the
runs depends on. A run marked
*violation* checks one statement of the repository's own text, which the code does
not keep; section 5 has the quotations.

### EdgeNode

| Run | Shows |
|---|---|
| `edge_node` | 4 tasks, 2 slots, unbounded queue, one failover: `Accounting`, `ActiveTasksExact`, `FailedNodeOwesNothing`, `SlotDiscipline`, `TwoOutcomesOnlyByAbort` |
| `edge_node_live` | 3 tasks, 1 slot, queue limit 1: under fairness a waiting task is done in the end, unless a failover has stranded it (`ServedOrStranded`); no task is turned away from a full queue while a slot is idle (`RejectedOnlyWhenBusy`) |
| `edge_node_ledger` | a node brought back only after its processes drained implements `TaskLedger`, with its liveness (`ImplementsLedger`) |
| `edge_node_aborted` | *violation*: a task that was aborted stays so (`AbortedStaysAborted`) |

Two slots and four tasks are the least with which both slots are taken, two
requests wait, and a release and a grant can overtake each other; one failover
gives an old and a new resource, and a further one would only add another old
one. In `edge_node` and `edge_node_live` the system does not deadlock:
`UpdateMetrics` is always possible.

**Fairness** (`Fairness`): weak fairness of the steps of every task process and of the
processing of every release event. `env.run(until=…)` drains every event that
is due, and the loop calls it once per step: a process that can be resumed is
resumed and a service time elapses. There is no fairness on arrivals, faults,
clearings or failovers: nothing obliges them to happen.

### Recovery loop

| Run | Shows |
|---|---|
| `recovery_loop` | 20 schedules of two faults, three arms, K = 2, 7 steps, every verdict and cause: `EpisodesSeparated`, `NoLingeringFault`, `ConfirmedAnswered`, `NoStaleMitigation`, `RecoveryConfirmed`, `FaultStrikesOnce`, and `ReportFaithful` for what is returned |

The schedules are chosen for what the loop cannot see from one record: windows
apart, adjacent, overlapping or identical on one node, in both list orders, and
on two nodes; crash and overload in each place. Seven steps let both windows
pass with a recovery after each. `ReportFaithful` sets the returned delay
against the detections of the faults themselves. The code has one time per node to
compute it from; the two agree where that time is a detection of each fault that
it is paired with (`TimesAreOwn`). Where it is not, they need not: section 5 says
what the code reports then.

### CausalFT

| Run | Shows |
|---|---|
| `causal_ft` | 2 nodes and the backup, 11 records over two streams, deques of 5: `CooldownHonoured`, `Ladder`, `SilenceHasCause`, `TasksAccounted` |
| `causal_ft_ladder` | *violation*: only consecutive faults evacuate a node (`ConsecutiveLadder`) |

Eleven records suffice for all three rungs of one node (positions 0, 5 and 10,
with cheap answers to the first two faults) with the other node and normal
records in between, and for a reset behind an action whose cooldown, were it
kept, would reach far into the next stream. A second evacuation of the same node
(ten positions later) is beyond the bound.

### CraftEdge

| Run | Shows |
|---|---|
| `craft_edge` | 2 nodes, 2 causes, 2 demands, 3 settings, 4 calls; experiments of 2 records: `StatsAgree`, `EpisodeHasFault`, `EpsilonSchedule`, `RejectedNeverCredited`, `ReportMatchesPolicy` |

Four calls contain every ordering of two anomalies with a normal record, a
reset or an `initialize` between or behind them. One cause has a domain prior
and one has none; one demand exceeds every threshold, the other none. Two
records of an experiment are enough for a success and a failure, an action
carried out and one rejected, or an action and none, in one report.

### Benchmark

| Run | Shows |
|---|---|
| `benchmark_trial` | each baseline, streams of up to 6 records, 4 settings of warm-up and limit, a second trial behind a first one of up to 4 records: of a trial `OverloadCovered`, `BuffersFresh`, `ScoresAligned`, `ActionsAccounted`, `MetricsAgree`; of its reports `CreditedOnce` and `PairingOwn`; of a campaign `SeedsAggregated` |

Window and cooldown of 3, batches of 2 and 2 trees: the window slides, a second
migration is possible, and the third batch replaces the tree of the
first. The warm-ups of 2 and 3 end within the first cooldown, so that a
migration nobody scores silences an overload that is scored. Limits are none, 0
(of which `ScoresAligned` says nothing, section 5 does) and 5; the data
may end at any point. The capture times stand still, go back and go up again, in
steps that are far longer than an inference; one of the inference times differs
from trial to trial. Six records
with arbitrary truth and verdicts contain every shape of up to three episodes,
at either end of the series and adjacent but for one record; a look-back of 2
can reach into an earlier episode when they are close and not when they are
apart. Two trials of four records contain every pair of results over the same
labels.

### Instrumentation

| Run | Shows |
|---|---|
| `instrumentation` | 2 sessions, 2 memory sizes, a record, up to 2 ticks at any point of the start, the stream and the end of a session: `PeakCovers`, `RatesBracketed`, `SamplersEnd` |

Two sessions are what a sampler that was given up on needs to meet a later
start, and what a timer needs to add up. A second size of memory is what makes a
lost update of the peak visible. Two ticks put time before and behind a
record, or on either side of the start or the stop of a timer, so that a rate can
lie above the records over the session's elapsed time (the timers of the rates
start later) and below (they stop later); what bounds it on either side is the time
of the records and the time of the whole call.

**Fairness**: weak fairness of each sampler, for the operating system runs every thread that can run; none of the main thread,
since nothing obliges the program to end a session. `SamplersEnd` is conditional
for that reason, and because a start raises the flag of the earlier sampler
again.

### Data preparation

| Run | Shows |
|---|---|
| `data_preparation` | 96 data sets, up to 3 processes of either mode, killed anywhere: `FilesHomogeneous`, `FullPassExact` |

Three processes are a full pass, a killed one and another one over what both
left. The data sets have one or two training files of one or two chunks, with
invalid rows, duplicates within a chunk and across chunks, a
chunk without a clean row, two rows with the same features, and a missing split.
`FullPassExact` compares rows and features as sets, so it says nothing of how
often one of them is written, fitted or counted; of that section 5 does.

### Dataset experiment

| Run | Shows |
|---|---|
| `dataset_study` | 96 experiments, four scores per record: `FiltersAgree`, `CountsBalance`, `SweepsAgree` |

The experiments are the product of the files with no limit, limits of 0 and 4,
and k of 0 to 3: packets of two hosts that interleave, labels as numbers, words
and gaps, three kinds of devices, a data set that cannot be constructed and one
without files. Of the records handed out `CountsBalance` asks all without a limit, as
many as a limit of one or more allows, and nothing for 0; `FiltersAgree` is about k
of one or more. The four scores lie below, between and above the two thresholds
of the detector. The constants of the source (a warm-up of 30 records, an
analysis every 50 000) are small in the instance, so that each boundary is
crossed.

## 4. What is proved

TLC looks at small instances; the theorems hold for every value of the constants
that satisfies the named assumptions of the modules (`NodeAssumption`,
`BaseLatencyAssumption`, `LoopAssumption`, `ArmsAssumption`,
`CausalFTAssumption`, `CraftEdgeAssumption`, `StreamAssumption`,
`TrialAssumption`, `ProactiveAssumption`, `ForestAssumption`,
`CampaignAssumption`, `ReportAssumption`, `InstrumentationAssumption`,
`DataAssumption`, `GridAssumption`, `StudyAssumption`, and
`NotApplicableAssumption` and `AggregateAssumption`: the value that stands for no
value is no number and no aggregate of numbers): any
finite set of tasks, any capacity and queue limit, any schedules, any
persistence, window, cooldown, stream, raw data set and number of sessions. TLC
evaluates each assumption on the instance of its run. Every inductive invariant
below was checked by TLC on the run of its component before it was proved.

**`EdgeNode_proofs`.** `TypeCorrect`, `AccountingCorrect`, `ActiveTasksCorrect`,
`FailedNodeCorrect`. `Accounting` is not inductive: if a task could succeed
twice, or an arrival could have failed before, a counter would move without its
set. `IInv` adds `OutcomeCoherent` (an idle task has no outcome, a finished one
has one, one in flight has not succeeded), `ActiveTasksExact` and
`FailedNodeOwesNothing`; together they make every call of `MarkFailed` name
tasks that have not failed, so that set and counter grow by the same number
(`MarkFailedCounts`). One lemma per action, put together in `InvariantStep`.

`SlotsCorrect` (`SlotDiscipline`) has an invariant of its own, `SInv`: queues are
without repetitions and hold waiting tasks only, a task has a request in one
resource at most, a resource no failover has reached is empty, and the events
of a release stem from processes that have ended. The last is why a second
release of a task cannot be lost in a set of pending ones. `RejectionsCorrect`
(`RejectedOnlyWhenBusy`), an action property, rests on it too: a queue at its limit
is not empty, and then the slots in use and those whose release is still to be
processed are all there are. `TwoOutcomesCorrect`
(`TwoOutcomesOnlyByAbort`) needs `ReasonsCoherent`: whoever waits, is served or has succeeded
was failed by nothing but a crash.

`DrainedNodeKeepsLedger` is the refinement: under the drained discipline
`EdgeNode` implements `TaskLedger!Safety`. It needs one more invariant,
`NoZombies` (on a running node no task in flight has failed), and maps every
action to a step of the ledger or a stutter (`StepSimulates`). Without the
discipline this is false; `edge_node_aborted` is the counterexample.

**`RecoveryLoop_proofs`.** The module begins with lemmas about the operators of
`NodeHealth`: which of them carry, drop or keep a fault, and their types, which
come down to no metric leaving its range (`MetricsType`); `CraftEdge_proofs`
instantiates them. All theorems are about `RecoveryLoop!Spec` and about
`LoopReport!ReportSpec`, the control group included: `LoopNext` is the loop with
a consumed record that may go unanswered, which covers both.
`FaultsEndInTime` (`NoLingeringFault`), `FaultsStrikeOnce`,
`RecoveredOncePerFault` (`EpisodesSeparated`): after a record of time t the flags
are exactly what the schedule says of t (`FlagsExact`); a node carries a fault
only if one of its flags is up (`FaultsFlagged`), because an expiry clears the
node and whatever is injected behind it in the list has its flag up; and a node
outside `recovered_nodes` has had a moment without a fault since each of its
episodes (`ReleasedWasFree`). `TypeCorrect` rests on the types of the causal
equations. `RecoveriesConfirmed` (`RecoveryConfirmed`) compares the window with
the history of the verdicts: a window ends with j anomalies exactly if the
streak is j or longer (`StreakExact`), up to the persistence. `MitigationsEnd`
(`NoStaleMitigation`) is inductive together with the rest.
`ConfirmedFaultsAnswered` (`ConfirmedAnswered`) is about the two arms that
recover and needs `RecoveredSince`: a node stays in `recovered_nodes` only while
a fault has been due on it at every record since one of its episodes.
`RecoveringArmsImplementLoop` is the refinement: a run of an arm that recovers
is a run of `RecoveryLoop!Spec`.
`ReportAlwaysFaithful` (`ReportFaithful`) compares what is returned with the
history of the confirmations; of the delay it says that it is the mean of the
faults' own, wherever the one time kept per node is a detection of the faults it is
set against (`TimesAreOwn`). What is counted on the way says of each prefix of
the stream what the report says of all of it: the records consumed are in one
cell each and no record is confirmed twice (`TallyInv`, by the order of the
stream), each episode answers a confirmation (`AttemptInv`), and the first
confirmation time of a node is its least one and was attempted (`FirstInv`). The
last rests on `RecoveredSince`: who is in `recovered_nodes` and hence not
attempted has had an episode, so it is not its first confirmation.

**`CausalFT_proofs`.** `TypeCorrect`, `CooldownRespected` (`CooldownHonoured`),
`LadderClimbed` (`Ladder`), `SilenceExplained` (`SilenceHasCause`), `TasksTraced`
(`TasksAccounted`). The state that the
policy decides on says of every node exactly what the log does: when its last
cooldown ends (`CooldownsLogged`), how often it was treated while the log is
complete (`FaultsLogged`), whether it was evacuated. A node whose anomalies were
acted upon since its last normal record has a fault to show for it
(`SpellsCounted`), which is what makes faults in a row climb. A node with a cooldown
was treated, and as long as a reset of the pipeline reaches the policy its log is of
the current stream (`SilenceTraced`). `PushProperties` says what a full deque keeps.

**`CraftEdge_proofs`.** `ExperimentDrivesPipeline`: `run_craft_edge_experiment`
refines the pipeline under arbitrary calls, so what follows holds of both.
`TypeCorrect` bounds efficacies, benefits, rewards and epsilon. `CountersAgree`
(`StatsAgree`) sums attempts over the table of any finite set of causes: an
anomaly moves one entry (`LearnsOne`), so it moves the sum by one (`SumsMove`).
`EpsilonScheduled` (`EpsilonSchedule`): the counter's quotient by the interval
grows by one exactly at the records that decay (`QuotientMoves`).
`EpisodesHaveFaults` (`EpisodeHasFault`). `RejectedPenalised`
(`RejectedNeverCredited`) is an action property. `ReportTellsPolicy`
(`ReportMatchesPolicy`) relates the counters of the experiment, which are those
of its outcomes, to the sums over the policy's table.

Attempting the last but one corrected the model. The benefit is the relief
relative to a severity of at least one (`evaluator.py:147`), not to any severity
there was; and a rejected action may raise an efficacy, from below its penalty
up to it. The property now says so.

**`Instrumentation_proofs`.** `TypeCorrect`; `PeakReported` (`PeakCovers`), for
any number of sessions: as long as every stop saw its sampler end, the one
thread that holds a reading has the largest memory there was, or the peak
already does (`PeakInv`), so that no store can lose one; `RatesStayBracketed`
(`RatesBracketed`): at every point of a session the timers of the rates hold at
least the time since the records began to come, and in the first session no more
than the time since `start_session` was called (`RateInv`), whatever passes between
two starts or two stops; what that says of a quotient rounded down is `RateBound`.

**`TrialHistory_proofs`.** All theorems are about every trial of a campaign as
well as a single trial. `OverloadAlwaysCovered` (`OverloadCovered`): the property
says nothing of `cooldownUntil`; `CooldownExact` adds that it is 0 or the end
of the cooldown of the last migration in the history. An alarm within it is
covered by that migration, and one that is not becomes a migration far enough
from it. `TypeCorrect`. `RecordsScoredOnce` (`ScoresAligned`) and
`MigrationsAccounted` (`ActionsAccounted`) follow from the lists being the
history without the warm-up. `BuffersAlwaysFresh` (`BuffersFresh`): the window
is the tail of the stream once full (`WindowInv`), and the trees are a rotation
of the last batches around the next to be replaced (`Rotation`), from which it
follows that one tree is left of each.

What a report says of a finished trial is no longer a matter of steps but of the
operators it is made with, and of every series of truths and verdicts.
`find_fault_episodes` is a fold over the truths with an invariant of its own
(`ScanInv`: behind record *k* the runs that ended before *k* are found, in order,
and the flag tells whether one is open), so its result is the list of the
maximal runs of attack records (`EpisodesFound`). `MetricsAlwaysAgree`
(`MetricsAgree`): the runs are disjoint, so the records each one loses before
its first alarm, or as a whole, are different false negatives
(`DelaysAmongMissed`, along the partial concatenations of `FlattenSeq` and the
partial sums of the delays, `FlattenParts` and `TotalParts`).

The full runner pairs the k-th attack with the k-th detection. `PairInv` says of
the two lists what a record does to them: a detection is never paired with a
later attack, the lists are equally long as long as nothing was missed, and they
agree exactly if nothing was missed before the last detection. `PairingAlwaysOwn`
(`PairingOwn`) takes this to the times: every evaluated record has one time of
processing (`TimesInv`), so a detection paired with its own attack lies that time
behind it, in whatever order the capture times are, and the filter of the runner
drops none of them (`OwnMean`).

`SeedsAlwaysAggregated` (`SeedsAggregated`) is about the aggregates of a campaign.
Not the reports of the earlier trials are kept in its invariant but what they were
bound to say (`Told`): the cells of a trial that detects add up to the attacks of
the data, and it has a delay exactly if it detected something. That all trials
are told of the *same* attacks is `CampaignInv`: the labels of the first trial and
the warm-up determine which attacks are scored (`Evaluated`), a later trial sees
the same labels (`SameData`), and `CountInv` says that the list of the attacks of a
trial has one time for each. The rest is about the statistics: a mean over the
trials that have a number lies between the least and the greatest of them
(`MeanWithin`, `MeanAmongValues`, by the partial sums), and exists as soon as one
trial has a number. Neither theorem has a hypothesis on the length of the stream or
the number of the seeds.

**`DataPrograms_proofs`.** The two programs that handle data.

*Preparation.* `OutputsHomogeneous` (`FilesHomogeneous`): what is on disk says
nothing of the process that runs, so `HInv` relates the two. Files that the phase
at work has opened (`written`) hold rows of the scaler in memory only, and only a
phase that transforms, and hence does not fit, has opened any (`OpenedBy`). The
first chunk of a file truncates it, whatever an earlier process left there; every
other chunk adds rows of the same scaler.

`FullPassesExact` (`FullPassExact`) needs to know, at each of the 18 phases of
`--full` and after each chunk of it, what is in memory and on disk (`FInv`,
`FullAt`): the scaler is the bag of the rows fitted so far on top of those of the
sample (`ScalerIs`), the sample being a prefix of the clean training rows that is
long enough or all of them; the counts are those of the chunks read
(`CountsAre`); a file of the split at work holds the clean rows of its own chunks
among them (`WrittenUpTo`), and files of the splits before it are complete. From this
the rows on disk, the features the scaler has seen and the counts of validation and
test follow as sets (`CleanRowsElements`, `ScaledElements`, `FeatureBagDomain`);
how often a row is among them is not claimed, since the code does not keep what its
text says of it. A
file none of whose chunks has a clean row is never opened, so what was left there
must have been empty before: that is why `FInv` says of *all* outputs, those of
killed processes included, that a file has rows only if its raw file does
(`Backed`). The rest is about lists: the chunks of a split, read one at a time
and cleaned, flatten to the clean rows of its files (`Read`, `FileRead`), and the
bag of a concatenation is the sum of the bags.

*Dataset experiment.* `FiltersAlwaysAgree` (`FiltersAgree`): by `WInv` the window
of a node holds the last k + 2 verdicts on its records, and a record is confirmed
exactly if the last k verdicts on its node, its own included, were anomalies
(`AllOf`). That the k-th youngest of k + 2 kept verdicts is the k-th youngest of
all is `RecentAllOf`; the counter of `evaluate_persistence`, which the last normal
record resets, says the same (`PersistentIs`). A record of one node leaves the
records, and so the verdicts, of the others alone (`OfNodeAppend`).

`SweepsAlwaysAgree` (`SweepsAgree`) is about the two sweeps over any scored
records. The calibration keeps, behind each candidate, the least of the best so
far (`Swept`); the diagnosis takes the least of the best of its grid, an initial
part of the other. Every F1 score is above the -1 the sweep starts from
(`F1AtNat`), so a candidate is selected.

`CountsAlwaysBalance` (`CountsBalance`) rests on four invariants. `TInv`: each of
the dictionaries kept by device and by category sums up to the counters of the
experiment, and the attacks of a device are those found and those missed in it
(`AttacksFound`); one record changes one entry, and so each sum by what it adds there
(`BalancedPut`, by `PutSum`, over `SumOver` of `ProofLemmas`). `PInv`: as many records were counted
as the adapter handed out on its way to the row it reads next (`HandedOut`, along
the partial concatenations of the files), and never more than a limit of one or
more (`HandedOutAtEnd`); of the limit of 0 nothing is claimed. `RInv`: what the analysis looks at, a window over the records of all
nodes, is what the detector was given of the last of them (`Matches`), so the
records of a node in the window are among all records of that node
(`MatchesPicks`), and a column that varies in its frame, gaps filled with zero,
has two of them that tell it (`VariesDiffer`); every row written so far keeps
what it rests on, for the records before it do not change (`GroundedKept`).
`OInv`: the report is made of these counters, and never without a row.

**`ProofLemmas`.** Facts about minima and maxima of sets of numbers and sums
over finite sets. Induction is done by the least counterexample
(`LeastNatural`), for the induction theorems of the library take an operator as
a parameter, which the installed provers cannot instantiate. A sum is
defined by its recursion equation, shown to have exactly one solution
(`SumRecUnique`, `SumRecExists`). A fold of the community modules is a `CHOOSE`
of a function on sets of positions; `FoldExists` shows for the ones used here
that there is such a function, which then has the recursion equation.

Model-checked only:

* liveness (`ServedOrStranded`, `SamplersEnd`, the fairness half of
  `ImplementsLedger`), which is out of the prover's reach;
* `CreditedOnce`. Its hypothesis, episodes further apart than the look-back,
  leaves out the case that goes wrong (section 5); a theorem would not say more
  than the run does.

Every other safety invariant and action property of the passing runs is stated by
a theorem.

`TypeOK` is proved for `EdgeNode`, `RecoveryLoop`, `CausalFT`, `CraftEdge`,
`Instrumentation` and `TrialHistory`; in the other modules it documents the
variables and is what a proof about them would begin with.

## 5. Where the code and its text disagree

| Run | The text | The code |
|---|---|---|
| `edge_node_aborted` | `edge_nodes.py:312` "Abort all currently waiting or in-service tasks" | marks the tasks; their processes go on, and one that ends after the recovery counts a second, successful completion |
| `causal_ft_ladder` | `recovery_policy.py:101-103` "2nd consecutive fault", "3+ consecutive faults" | `recovery_policy.py:97` counts all faults since the last reset; no normal record lowers the count |

Observed while modelling. The models do what the code does here, so no property
says the contrary, and there is no run for it:

* **Recovery loop.** `main.py:453` sets the first confirmation of a node against each
  of its faults: a fault that was missed gets the delay to a later one's detection,
  one behind an earlier alarm has none, and without any the delay is 3.0.
  `EXPERIMENTAL_METHODOLOGY.md:111` defines MTTD over onset and detection of the same
  fault.
* **CausalFT.** After `initialize` with a `window_size` (`pipeline.py:105`; no caller
  in the repository passes one) a reset does not reach the policy's state, whose
  cooldowns go on; `base.py:133` says of reset "Reset internal states, counters, and
  streaming windows". `recovery_policy.py:115` empties a node and gives its tasks to
  none; `:103` says "preemptive task migration to healthy backup node".
* **CRAFT-Edge.** One flag serves all nodes (`pipeline.py:328`), so the normal record
  of one node completes the "fault episode" (`policy.py:125`) of another and epsilon
  decays within the burst. `pipeline.py:184` stores the configured epsilon
  ("Initialize models, hyperparameters, and internal structures", `base.py:79`), and the
  reset at the end of `initialize` puts the constructor's back. "Direct physical
  simulation measurement." (`main.py:1238`) depends on the mode alone: recoveries that
  the simulation rejected are reported under it.
* **Benchmark.** `run_full_benchmark.py:193` pairs the k-th attack record with the
  k-th detected one; `EXPERIMENTAL_METHODOLOGY.md:110-111` has onset and detection of
  the same fault. The "predictive lead time (ms) before episode onset"
  (`run_corrected_benchmark.py:139`) is taken from the closest alarm within the look-back
  (`:145`), also when it is the detection of the episode before. Availability is uptime
  over runtime with "downtime intervals" that are logged
  (`EXPERIMENTAL_METHODOLOGY.md:247`, `:254`); `run_full_benchmark.py:201` has a downtime
  only if there are diagnoses, which IPFT and PreGAN leave none of: always 100 %.
  All outputs are mean and deviation (`EXPERIMENTAL_METHODOLOGY.md:322-323`);
  `run_full_benchmark.py:267` passes delays, availability and MTTR of the first trial
  on. Of "Total evaluation records per run" (`run_full_benchmark.py:278`) 0 evaluates
  one: `data_harness.py:208` compares after the record.
* **Data preparation.** "Duplicate rows are removed after missing and invalid row
  filtering" (`README.md:68`), but `preprocess_dataset.py:117` compares the rows of one
  chunk only. "Fitted StandardScaler on ... training rows" (`:219`), but `:402` resets the
  counts and not the scaler: the sampled rows are fitted twice. "retained rows, and
  dropped row breakdown" (`README.md:81`), but `:277` and `:213` add to the same counts:
  every training row counts twice.
* **Dataset experiment.** `edge_iiotset_adapter.py:111` stores the label as the workload,
  and the workload is a feature the detector is given; `main.py:600` says "UNSEEN
  EVALUATION - NO LABEL LEAKAGE". Of "Maximum records to process in dataset mode"
  (`main.py:187`) 0 processes one, and `:529` logs ALL for it. `main.py:173` offers
  `n_baiot`, and `:539` calls `NBaIoTAdapter` with a parameter it does not take. With
  `--persistence 0` `main.py:620` confirms every record; `:218` has "Consecutive anomaly
  observations required for fault confirmation".
* `shadow_state.py:127` "Exactly mirrors" `EdgeNode`, but `:139` scales metrics
  that carry the mitigation already, so repeating it measures as an improvement.
* `main.py:250` verifies the degradation of the record, which was sampled before
  the schedule cleared the node (`main.py:371`).
* With `--mode simulation` the CRAFT-Edge experiment attaches a simulator whose
  nodes are never those of the records: every recovery is rejected. Without a
  recovery its file of outcomes has one successful row of `NO_ACTION`.
* The seeds of a campaign do not change its stream. The times of the full runner are
  in seconds and its fields are named `_ms`.
* The diagnosis of the thresholds marks one configuration as
  "SELECTED (Optimal F1)" whatever the configurations score.
* `CausalFaultTolerancePipeline.fit` names the columns of an array `f_0`, `f_1`, …, so a
  diagnosis in a benchmark trial, which fits on `.values`, ranks names that no
  record has. `rcd/algorithm.py:147` speaks of conditioning sets up to a maximal
  size and tests single siblings.

## 6. What is not modelled, and why

* *Branches no execution reaches.* `NODE_CRASH_ABORTED` and
  `NODE_CRASH_IN_SERVICE` are modelled and never assigned (that is
  `FailedNodeCorrect`); the `simpy.Interrupt` handlers are left out because
  nothing interrupts a process. `EdgeNode.active` is never false. The row mapping
  of `NBaIoTAdapter` is unreachable from `main.py`.
* `reset_task_metrics`, throughput and `processed_records_count`: nothing in the
  control path reads them. `base_latency` is one constant for all nodes.
* In `CraftEdge`: the benefit of ±1 for a crashed node is unreachable with an
  idle simulator and a shadow that is always active; ties of Q values are exact
  where the code allows 1e-6; the shadow's own metrics are overwritten by every
  record before they are read.
* Learned and statistical code (river, PyTorch, DoWhy, the regressions, the
  trees of BWOAIF, RCD's tests on matrices) is replaced by an arbitrary result of
  the right kind. What it computes from numbers is not checked.
* Wall-clock latencies, mean loads, percentiles, areas under curves. The model
  counts ratios in hundredths of a percent and rounds down where the code rounds
  floats; no theorem compares two rounded ratios.
* The corrected runner takes the monotonic clock for its timestamps
  (`run_corrected_benchmark.py:108`), and no property of it depends on them; its
  delays count records, and the inference of the alarm.
* In `Instrumentation` the CPU samples are kept as taken or not; in
  `DataPreparation` a write of one chunk is one step, and a file cut short within
  a chunk is not a state of the model.
* Sweeps over seeds and values of k (`main.py`) call the modelled pipeline with
  other parameters; `run_small_benchmark.py` is a smaller trial.
* Plots, deliverables, configuration, the environment report, workload and device
  generators: files, wording and random numbers without control state.

## 7. Plan

1. Root-cause analysis: the ranking of `causal_engine.py` and RCD over abstract
   scores, and `scripts/evaluate_rca.py`.
2. Composition of `RecoveryLoop` with the task service, so that crashes and
   failovers come from the loop.
