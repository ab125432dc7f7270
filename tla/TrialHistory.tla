------------------------------ MODULE TrialHistory ------------------------------
(***************************************************************************)
(* A trial with a history of the records the harness delivered, and the    *)
(* properties that compare what the trial reports with that history.       *)
(***************************************************************************)
EXTENDS BenchmarkTrial, EpisodeMetrics

VARIABLE delivered \* per record: the truth, the verdict, and whether tasks moved

hvars == <<vars, delivered>>

HInit == Init /\ delivered = <<>>

HNext ==
  \/ (Start \/ Finish) /\ UNCHANGED delivered
  \/ \E fault, alarm, moved \in BOOLEAN :
       /\ Process(fault, alarm, moved)
       /\ delivered' = Append(delivered,
            [fault |-> fault, alarm |-> alarm, moved |-> moved])

HSpec == HInit /\ [][HNext]_hvars

-------------------------------------------------------------------------------
(* Records of the history by number; record i has stream position i - 1.   *)
Alarms == {i \in DOMAIN delivered : delivered[i].alarm}
Moves  == {i \in DOMAIN delivered : delivered[i].moved}
Scored == {i \in DOMAIN delivered : i > config.warmup}

(* recover of IPFT and PreGAN: every predicted overload falls within the   *)
(* cooldown of a migration, at or before it, and no two migrations do -    *)
(* also across the end of the warm-up, which the algorithm does not see.   *)
OverloadCovered ==
  algorithm \in Proactive =>
    /\ \A i \in Alarms : \E m \in Moves : m <= i /\ i < m + CooldownSteps
    /\ \A m, n \in Moves : m < n => n >= m + CooldownSteps

(* detect of IPFT and PreGAN: while the stream runs the window is its last *)
(* SequenceLength records, oldest first, the first record standing in for  *)
(* those before it.                                                        *)
WindowIsTail ==
  algorithm \in Proactive /\ phase = "streaming" /\ delivered # <<>> =>
    \A k \in 1 .. SequenceLength :
      window[k] = IF position + k <= SequenceLength THEN 0
                  ELSE (position + k - SequenceLength) - 1

(* _update_forest: the forest consists of the trees of the most recent     *)
(* batches, one of each, the rest being trees of the training data; no     *)
(* record of the stream is left out of the batches or counted twice.       *)
ForestFresh ==
  algorithm = "BWOAIF" /\ phase = "streaming" =>
    /\ Len(delivered) = batchIndex * BatchSize + buffered
    /\ \A b \in 1 .. batchIndex :
         Cardinality({i \in DOMAIN trees : trees[i] = b})
           = IF b + NumTrees > batchIndex THEN 1 ELSE 0

(* What the algorithms buffer is what the stream made of it, whatever      *)
(* came first: warm-up, alarms, migrations.                                *)
BuffersFresh == WindowIsTail /\ ForestFresh

(* run_benchmark_trial: exactly the records behind the warm-up are scored, *)
(* each against its own truth, and a limit of one or more is kept.         *)
ScoresAligned ==
  /\ Len(yTrue) = Cardinality(Scored) /\ Len(yPred) = Len(yTrue)
  /\ \A i \in DOMAIN yTrue :
       /\ yTrue[i] = delivered[config.warmup + i].fault
       /\ yPred[i] = delivered[config.warmup + i].alarm
  /\ ToSet(detectTimes) =
       {i - 1 : i \in {j \in Scored : delivered[j].fault
                                      /\ delivered[j].alarm}}
  /\ config.limit \notin {NoLimit, 0} => Len(delivered) <= config.limit

(* The instrumentation: the actions reported are the migrations of         *)
(* evaluated records, each with its time and the state it transferred; a   *)
(* result NO_ACTION and a migration in the warm-up are none of them.       *)
ActionsAccounted ==
  LET moved == Moves \cap Scored
  IN  /\ session.observations = Cardinality(Scored)
      /\ session.migrations = Cardinality(moved)
      /\ session.successes = session.migrations
      /\ ToSet(recTimes) = {i - 1 : i \in moved}
      /\ session.migrationState =
           IF algorithm \in Proactive
             THEN Cardinality(moved) * StateSize[algorithm] ELSE 0

(* find_fault_episodes: its result is the list of the maximal runs of      *)
(* attack records, in order.                                               *)
EpisodesExact ==
  LET found == FindFaultEpisodes(yTrue)
  IN  /\ ToSet(found) =
           {e \in (DOMAIN yTrue) \X (DOMAIN yTrue) :
              /\ e[1] <= e[2]
              /\ \A i \in e[1] .. e[2] : yTrue[i]
              /\ e[1] = 1 \/ ~ yTrue[e[1] - 1]
              /\ e[2] = Len(yTrue) \/ ~ yTrue[e[2] + 1]}
      /\ \A j, k \in DOMAIN found : j < k => found[j][2] < found[k][1]

(* The report of a trial agrees with itself and its episodes are those of  *)
(* the series: the attack records that delay a detection (MTTD), and all   *)
(* those of episodes never detected (coverage), are among the false        *)
(* negatives of the confusion matrix, and with no false negative every     *)
(* episode is detected at its first record.                                *)
MetricsAgree ==
  LET episodes   == FindFaultEpisodes(yTrue)
      delays     == DelaysSteps(episodes, yPred)
      undetected == {e \in ToSet(episodes) : DelaysOf(e, yPred) = <<>>}
      missed     == FalseNegatives(yTrue, yPred)
  IN  /\ EpisodesExact
      /\ FoldLeft(+, 0, delays)
           + Cardinality(UNION {e[1] .. e[2] : e \in undetected})
             <= Cardinality(missed)
      /\ missed = {} => delays = [k \in DOMAIN episodes |-> 0]
===============================================================================
