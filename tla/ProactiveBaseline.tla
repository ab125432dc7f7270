---------------------------- MODULE ProactiveBaseline ----------------------------
(***************************************************************************)
(* algorithms/ipft and algorithms/pregan: the control the two baselines    *)
(* share.  Every record enters a sliding window, a neural predictor looks  *)
(* at the window, and a predicted overload (or fault) moves tasks to the   *)
(* backup node unless the last migration is less than CooldownSteps        *)
(* stream positions ago.  Neither the window nor the cooldown knows nodes. *)
(*                                                                         *)
(* A feature vector is named by the stream position of its record.         *)
(* Nondeterministic: the verdict of the predictor.                         *)
(***************************************************************************)
EXTENDS Naturals, Sequences

CONSTANTS
  SequenceLength, \* config.sequence_length, the maxlen of the window
  CooldownSteps   \* config.cooldown_steps

ASSUME ProactiveAssumption ==
  /\ SequenceLength \in Nat \ {0}
  /\ CooldownSteps \in Nat \ {0}

VARIABLES
  window,         \* the deque of feature vectors
  cooldownUntil,  \* first position at which a migration is allowed again
  lastMitigation  \* position of the last migration, or NoMitigation

proactiveVars == <<window, cooldownUntil, lastMitigation>>

NoMitigation == "None"

(* The constructor, and reset.                                             *)
Fresh(w, c, m) == w = <<>> /\ c = 0 /\ m = NoMitigation

ProactiveInit  == Fresh(window, cooldownUntil, lastMitigation)
ProactiveReset == Fresh(window', cooldownUntil', lastMitigation')

(* Mutant of Observed: the padding is appended behind the new vector. *)
ObservedAhead(w, vec) ==
  IF Len(w) < SequenceLength
    THEN w \o [i \in 1 .. SequenceLength - Len(w) |-> vec]
    ELSE w

(* detect: the vector enters the window, which is padded on the left with  *)
(* copies of it while it is too short.                                     *)
Observed(w, vec) ==
  LET kept == IF Len(w) < SequenceLength THEN Append(w, vec)
                                         ELSE Append(Tail(w), vec)
  IN  [i \in 1 .. SequenceLength - Len(kept) |-> vec] \o kept

(* process, nothing predicted.                                             *)
PredictNothing(pos) ==
  /\ window' = Observed(window, pos)
  /\ UNCHANGED <<cooldownUntil, lastMitigation>>

(* Mutant of PredictInCooldown: an alarm in the cooldown prolongs it. *)
PredictProlonging(pos) ==
  /\ pos < cooldownUntil
  /\ window' = Observed(window, pos)
  /\ cooldownUntil' = pos + CooldownSteps
  /\ UNCHANGED lastMitigation

(* process, an overload predicted in the cooldown: NO_ACTION.              *)
PredictInCooldown(pos) ==
  /\ pos < cooldownUntil
  /\ window' = Observed(window, pos)
  /\ UNCHANGED <<cooldownUntil, lastMitigation>>

(* process, an overload predicted: PREEMPTIVE_TASK_MIGRATION.              *)
PredictAndMigrate(pos) ==
  /\ pos >= cooldownUntil
  /\ window' = Observed(window, pos)
  /\ cooldownUntil' = pos + CooldownSteps
  /\ lastMitigation' = pos
===============================================================================
