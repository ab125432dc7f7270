------------------------------ MODULE LoopReport ------------------------------
(***************************************************************************)
(* What main.py reports of a run of its recovery loop, for each of the     *)
(* three arms that run_experiment_pipeline compares: the proposed          *)
(* recovery, a fixed one, and none (the control group).  Wall-clock        *)
(* latencies of the detector and average loads are left out.               *)
(***************************************************************************)
EXTENDS RecoveryLoop, Metrics

CONSTANT Arms   \* the arms a run may be of

ASSUME ArmsAssumption == Arms \subseteq {"PROPOSED", "FIXED", "NONE"}

VARIABLES
  arm,              \* experiment_label, fixed_recovery and no_recovery
  tally,            \* confusion counts of y_true and y_pred, slow records
  firstConfirmed,   \* first_confirmation_times
  attempts,         \* successes and causes that had evidence, of fault_episodes
  confirmedAt,      \* every confirmation, as <<node, time>> (history variable)
  report            \* what run_experiment_pipeline returns

reporting  == <<arm, tally, firstConfirmed, attempts, confirmedAt, report>>
reportVars == <<vars, reporting>>

ReportInit ==
  /\ Init
  /\ arm \in Arms
  /\ tally = [tp |-> 0, fp |-> 0, fn |-> 0, tn |-> 0, slow |-> 0]
  /\ firstConfirmed = [n \in Node |-> NotApplicable]
  /\ attempts = [successes |-> 0, supported |-> 0, insufficient |-> 0]
  /\ confirmedAt = {} /\ report = <<>>

-------------------------------------------------------------------------------
One(condition) == IF condition THEN 1 ELSE 0

CellOf(fault, confirmed) ==
  IF fault THEN IF confirmed THEN "tp" ELSE "fn"
           ELSE IF confirmed THEN "fp" ELSE "tn"

(* A record is slow when its latency is over 200 ms.                       *)
Slow(metric) == metric.lat > 20000

Tallied(v) ==
  [tally EXCEPT ![CellOf(record[next].fault, Confirmed(v))] = @ + 1,
                !.slow = @ + One(Slow(record[next].metric))]

(* Mutant of FirstConfirmed: the last confirmation of a node is kept. *)
LastConfirmed(v) ==
  IF Confirmed(v) THEN [firstConfirmed EXCEPT ![next] = now - 1]
  ELSE firstConfirmed

FirstConfirmed(v) ==
  IF Confirmed(v) /\ firstConfirmed[next] = NotApplicable
  THEN [firstConfirmed EXCEPT ![next] = now - 1]
  ELSE firstConfirmed

Account(v) ==
  /\ tally' = Tallied(v)
  /\ firstConfirmed' = FirstConfirmed(v)
  /\ confirmedAt' = confirmedAt \cup (IF Confirmed(v) THEN {<<next, now - 1>>} ELSE {})
  /\ UNCHANGED <<arm, report>>

-------------------------------------------------------------------------------
Tick == Step /\ UNCHANGED reporting

(* A record of the control group: confirmed or not, nothing is done.       *)
Watch(v) ==
  /\ arm = "NONE"
  /\ Consume
  /\ health' = [n \in Node |-> UpdatedHealth(n, now - 1)]
  /\ label' = [n \in Node |-> UpdatedLabel(n, now - 1)]
  /\ window' = [window EXCEPT ![next] = Slide(@, v)]
  /\ recovered' = StillRecovered(now - 1)
  /\ streak' = Streak(v)
  /\ UNCHANGED <<episodes, attempts>>
  /\ Account(v)

Pass(v) ==
  /\ arm # "NONE"
  /\ Observe(v)
  /\ Account(v)
  /\ UNCHANGED attempts

(* fixed_recovery ignores the cause that was found.                        *)
Answer(v, cause) ==
  /\ arm # "NONE"
  /\ Recover(v, IF arm = "FIXED" THEN "CPU_OVERLOAD" ELSE cause)
  /\ Account(v)
  /\ attempts' = [attempts EXCEPT
                    !.successes = @ + One(window'[next] = <<>>),
                    ![IF cause = "UNKNOWN" THEN "insufficient" ELSE "supported"] = @ + 1]

-------------------------------------------------------------------------------
(* The faults of the schedule whose node was first confirmed at or after   *)
(* their start, and the delay of each; 3.0 steps when there is none.       *)
Measured == {i \in Index : /\ firstConfirmed[scheduled[i].node] # NotApplicable
                           /\ firstConfirmed[scheduled[i].node] >= scheduled[i].start}

Delay(i) == firstConfirmed[scheduled[i].node] - scheduled[i].start

AverageDelay ==
  IF Measured = {} THEN 3000
  ELSE (1000 * MapThenSumSet(Delay, Measured)) \div Cardinality(Measured)

Records == tally.tp + tally.fp + tally.fn + tally.tn

SuccessRate ==
  IF arm = "NONE" THEN NotApplicable ELSE Ratio(attempts.successes, Len(episodes))

(* The return value of run_experiment_pipeline.                            *)
Result ==
  [ records |-> Records, confirmed |-> tally.tp + tally.fp,
    attempts |-> IF arm = "NONE" THEN 0 ELSE Len(episodes),
    successes |-> attempts.successes, supported |-> attempts.supported,
    insufficient |-> attempts.insufficient, rate |-> SuccessRate,
    accuracy |-> Accuracy(tally), precision |-> Precision(tally),
    recall |-> Recall(tally), f1 |-> F1Score(tally),
    fpr |-> Ratio(tally.fp, tally.fp + tally.tn), delay |-> AverageDelay,
    availability |-> Ratio(Records - tally.slow, Records) ]

(* The run returns once the stream has ended.                              *)
Finish ==
  /\ next = NumNodes + 1 /\ now = MaxSteps /\ report = <<>>
  /\ report' = Result
  /\ UNCHANGED <<vars, arm, tally, firstConfirmed, attempts, confirmedAt>>

ReportNext ==
  \/ Tick
  \/ \E v \in BOOLEAN : Watch(v)
  \/ \E v \in BOOLEAN : Pass(v)
  \/ \E v \in BOOLEAN, cause \in Cause : Answer(v, cause)
  \/ Finish

ReportSpec == ReportInit /\ [][ReportNext]_reportVars

-------------------------------------------------------------------------------
(* The confirmations on the node of fault i since it started, before it,   *)
(* and in its own window: those that detect this fault and no other.       *)
Since(i) == {t \in scheduled[i].start .. now : <<scheduled[i].node, t>> \in confirmedAt}

Before(i) == {t \in 0 .. scheduled[i].start - 1 : <<scheduled[i].node, t>> \in confirmedAt}

Own(i) == {t \in Since(i) : t < scheduled[i].start + scheduled[i].duration}

Detected == {i \in Index : Own(i) # {}}

(* The one confirmation time kept for a node is that of each of its faults *)
(* that was detected, and of no other: no detected fault had an alarm on   *)
(* its node before, and no missed one has its first alarm after its end.   *)
TimesAreOwn ==
  /\ \A i \in Detected : Before(i) = {}
  /\ \A i \in Index \ Detected : Since(i) = {} \/ Before(i) # {}

(* The mean over the detected faults of their own first confirmation.      *)
OwnDelay ==
  (1000 * MapThenSumSet(LAMBDA i : Min(Own(i)) - scheduled[i].start, Detected))
    \div Cardinality(Detected)

(* Except in the control group a confirmed fault is never ignored: a node  *)
(* whose last K verdicts were anomalies and whose last record is degraded  *)
(* had a recovery attempted, and a fault due on it ever since.             *)
ConfirmedAnswered == arm # "NONE" => ConfirmedIsAttempted

(* What is reported is what happened: every record is in one cell of the   *)
(* confusion matrix and every confirmation in a positive one; each attempt *)
(* has a cause with or without evidence and succeeded or not, and only the *)
(* control group has no success rate; an arm that recovers attempts the    *)
(* first confirmation of every node; and the reported delay is the mean    *)
(* delay of the detected faults wherever one time per node can tell it     *)
(* (TimesAreOwn): a fault missed altogether, or one after an earlier alarm *)
(* on its node, is outside, and main.py:453-455 gives it a foreign delay   *)
(* or none.                                                                *)
ReportFaithful ==
  report # <<>> =>
    /\ report.records = NumNodes * MaxSteps
    /\ report.confirmed = Cardinality(confirmedAt)
    /\ report.successes <= report.attempts /\ report.attempts <= report.confirmed
    /\ report.attempts = report.supported + report.insufficient
    /\ report.rate = NotApplicable <=> arm = "NONE"
    /\ arm # "NONE" =>
         \A n \in Node : LET times == {p[2] : p \in {c \in confirmedAt : c[1] = n}}
                         IN  times # {} => \E k \in DOMAIN episodes :
                                             episodes[k] = <<n, Min(times)>>
    /\ Detected # {} /\ TimesAreOwn => report.delay = OwnDelay
===============================================================================
