----------------------------- MODULE EpisodeMetrics -----------------------------
(***************************************************************************)
(* The episode metrics of scripts/run_corrected_benchmark.py: pure         *)
(* functions of the two series a trial leaves behind, the ground truth and *)
(* the verdicts of its evaluated records.                                  *)
(*                                                                         *)
(* The series are sequences of Booleans, numbered from 1; an episode is    *)
(* the pair of the numbers of its first and last record.                   *)
(***************************************************************************)
EXTENDS Naturals, SequencesExt

(* find_fault_episodes: one pass with a flag for being inside an episode.  *)
Outside == [inside |-> FALSE, start |-> 1, found |-> <<>>]

Scan(truth, s, i) ==
  CASE truth[i] /\ ~ s.inside -> [s EXCEPT !.inside = TRUE, !.start = i]
    [] ~ truth[i] /\ s.inside ->
         [s EXCEPT !.inside = FALSE, !.found = Append(@, <<s.start, i - 1>>)]
    [] OTHER -> s

Scanned(truth) ==
  FoldLeftDomain(LAMBDA s, i : Scan(truth, s, i), Outside, truth)

(* Mutant of FindFaultEpisodes: an episode still open at the end is lost. *)
FindClosedEpisodes(truth) == Scanned(truth).found

FindFaultEpisodes(truth) ==
  LET end == Scanned(truth)
  IN  IF end.inside THEN Append(end.found, <<end.start, Len(truth)>>)
                    ELSE end.found

(* The records of an episode that raised an alarm.                         *)
AlarmsIn(episode, verdict) == {i \in episode[1] .. episode[2] : verdict[i]}

(* The delay of the first alarm, in records; nothing if there is none.     *)
DelaysOf(episode, verdict) ==
  LET alarms == AlarmsIn(episode, verdict)
  IN  IF alarms = {} THEN <<>> ELSE <<Min(alarms) - episode[1]>>

(* compute_episode_mttd: the delays it takes the mean of.                  *)
DelaysSteps(episodes, verdict) ==
  FlattenSeq([k \in DOMAIN episodes |-> DelaysOf(episodes[k], verdict)])

(* compute_confusion_metrics: the false negatives.                         *)
FalseNegatives(truth, verdict) ==
  {i \in DOMAIN truth : truth[i] /\ ~ verdict[i]}
===============================================================================
