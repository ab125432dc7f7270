----------------------------- MODULE ThresholdStudy -----------------------------
(***************************************************************************)
(* The two studies of detection thresholds and persistence on a scored     *)
(* validation set: scripts/calibrate_thresholds.py and                     *)
(* scripts/diagnose_and_optimize_causal_ft.py.  A scored set is a sequence *)
(* of [score, label]; scores and thresholds are in hundredths.  Curves,    *)
(* areas under them and plots are left out.                                *)
(***************************************************************************)
EXTENDS Metrics

CONSTANTS
  CalibrationGrid,  \* candidates of calibrate_thresholds.py (1 .. 99)
  DiagnosisGrid,    \* candidates of the diagnosis (1 .. 70)
  Operating,        \* the threshold of the frozen configuration (15)
  BuggyDefault,     \* the one it replaced (65)
  Persistences      \* the values of k the diagnosis tries (1 .. 5)

ASSUME GridAssumption ==
  /\ CalibrationGrid \cup DiagnosisGrid \cup {Operating, BuggyDefault} \subseteq Nat
  /\ IsFiniteSet(CalibrationGrid) /\ CalibrationGrid # {}
  /\ \E top \in CalibrationGrid : DiagnosisGrid = {c \in CalibrationGrid : c <= top}
  /\ Persistences \subseteq Nat

Truths(scored) == [i \in DOMAIN scored |-> scored[i].label = 1]
Raw(scored, tau) == [i \in DOMAIN scored |-> scored[i].score >= tau]

(* evaluate_persistence: the position of the last record below the         *)
(* threshold resets the count of consecutive anomalies.                    *)
Consecutive(raw, i) == i - Max({0} \cup {j \in 1 .. i : ~raw[j]})

Persistent(raw, k) ==
  IF k <= 1 THEN raw ELSE [i \in DOMAIN raw |-> Consecutive(raw, i) >= k]

Scored(scored, verdict) == ConfusionOf(Truths(scored), verdict)
F1At(scored, tau) == F1Score(Scored(scored, Raw(scored, tau)))

-------------------------------------------------------------------------------
(* sweep_thresholds: a candidate is taken when it is better than every     *)
(* candidate before it.                                                    *)

(* Mutant of Better: a candidate as good as the best one replaces it. *)
BetterOrEqual(f1, best) == f1 >= best

Better(f1, best) == f1 > best

(* The elements of a finite set of numbers in ascending order.             *)
Ascending(S) ==
  [i \in 1 .. Cardinality(S) |-> CHOOSE c \in S : Cardinality({d \in S : d < c}) = i - 1]

Candidate(scored, tau) ==
  LET c == Scored(scored, Raw(scored, tau))
  IN  [tau |-> tau, f1 |-> F1Score(c), p |-> Precision(c), r |-> Recall(c)]

TakeBetter(best, candidate) == IF Better(candidate.f1, best.f1) THEN candidate ELSE best

SweepThresholds(scored) ==
  FoldLeft(LAMBDA best, tau : TakeBetter(best, Candidate(scored, tau)),
           [tau |-> 50, f1 |-> -1, p |-> 0, r |-> 0], Ascending(CalibrationGrid))

-------------------------------------------------------------------------------
(* The diagnosis: the candidate np.argmax marks, and the table of the      *)
(* configurations, whose status does not depend on what they score.        *)
MarkedThreshold(scored) ==
  Min({tau \in DiagnosisGrid :
         \A other \in DiagnosisGrid : F1At(scored, tau) >= F1At(scored, other)})

Row(scored, tau, k, status) ==
  LET c == Scored(scored, Persistent(Raw(scored, tau), k))
  IN  [ threshold |-> tau, k |-> k, status |-> status,
        precision |-> Precision(c), recall |-> Recall(c), f1 |-> F1Score(c),
        accuracy |-> Accuracy(c),
        fpr |-> IF c.fp + c.tn = 0 THEN "nan" ELSE Ratio(c.fp, c.fp + c.tn) ]

Experiments(scored) ==
  <<Row(scored, BuggyDefault, 1, "REJECTED"), Row(scored, Operating, 1, "SELECTED")>>
  \o [i \in 1 .. Cardinality(Persistences) - 1 |->
        Row(scored, Operating, Ascending(Persistences)[i + 1], "EVALUATED")]

(* The area under the ROC curve is computed before the thresholds are      *)
(* swept.  With labels of one class roc_auc_score ends the diagnosis or    *)
(* only warns, as the version of scikit-learn has it.                      *)
CurveOutcomes(scored) ==
  IF {scored[i].label : i \in DOMAIN scored} = {0, 1} THEN {TRUE} ELSE BOOLEAN

(* What confusion_matrix(...).ravel() returns has four cells only when     *)
(* both classes occur among the labels or the verdicts; otherwise taking   *)
(* it apart ends the diagnosis.                                            *)
FourCells(scored, verdict) ==
  \E i, j \in DOMAIN scored :
    /\ scored[i].label = 1 \/ verdict[i]
    /\ scored[j].label = 0 \/ ~verdict[j]

(* Every configuration of the table could be scored.                       *)
Tabulated(scored) ==
  /\ FourCells(scored, Raw(scored, BuggyDefault))
  /\ \A k \in Persistences : FourCells(scored, Persistent(Raw(scored, Operating), k))
===============================================================================
