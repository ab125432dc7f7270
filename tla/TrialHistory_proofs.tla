--------------------------- MODULE TrialHistory_proofs ---------------------------
(***************************************************************************)
(* What a trial leaves behind, for every setting of it and in every trial  *)
(* of a campaign: any cooldown, warm-up, limit, window, forest and length  *)
(* of the stream.                                                          *)
(*                                                                         *)
(* OverloadCovered is not inductive: it says nothing of cooldownUntil.     *)
(* CooldownExact ties it to the last migration of the history while the    *)
(* stream runs.                                                            *)
(*                                                                         *)
(* ForestFresh does not say which tree has which age.  Rotation does: the  *)
(* trees are replaced in turn, since the first of the oldest is.           *)
(*                                                                         *)
(* What a report says follows from the lists of a trial by facts about the *)
(* operators: ScanInv is the invariant of the pass of find_fault_episodes. *)
(* PairInv relates the two lists that the full runner pairs record by      *)
(* record to the attacks that were missed.                                 *)
(*                                                                         *)
(* The aggregates over the trials are compared with what each trial was    *)
(* told to be (Told).  CampaignInv keeps that of the earlier trials, over  *)
(* the attacks that the labels of the data and the warm-up determine;      *)
(* CountInv ties the number of the attacks of a trial to its labels.       *)
(***************************************************************************)
EXTENDS Campaign, ProofLemmas, FiniteSetTheorems

Delivery == [fault : BOOLEAN, alarm : BOOLEAN, moved : BOOLEAN]

(* cooldownUntil is the end of the cooldown of the last migration.         *)
CooldownExact ==
  \/ Moves = {} /\ cooldownUntil = 0
  \/ \E m \in Moves :
       /\ \A n \in Moves : n <= m
       /\ cooldownUntil = (m - 1) + CooldownSteps

HistoryTyped ==
  /\ delivered \in Seq(Delivery)
  /\ Len(delivered) = position
  /\ cooldownUntil \in Nat
  /\ phase \in {"created", "streaming", "finished"}
  /\ phase = "created" => delivered = <<>>

IInv ==
  /\ HistoryTyped
  /\ algorithm \in Proactive /\ phase = "streaming" => CooldownExact
  /\ OverloadCovered

(* The lists and counters of the evaluated records, with their types.      *)
ScoreInv ==
  /\ position \in 0 .. MaxStream
  /\ yTrue \in Seq(BOOLEAN) /\ yPred \in Seq(BOOLEAN)
  /\ detectTimes \in Seq(Nat) /\ recTimes \in Seq(Nat)
  /\ session \in [observations : Nat, migrations : Nat, successes : Nat,
                  migrationState : Nat]
  /\ ScoresAligned /\ ActionsAccounted

(* The window is full from the first record on.                            *)
WindowInv ==
  /\ window \in Seq(Nat) /\ Len(window) \in {0, SequenceLength}
  /\ algorithm \in Proactive /\ phase = "streaming" =>
       (Len(window) = 0 <=> delivered = <<>>)
  /\ WindowIsTail

(* c is the next tree to be replaced: the trees before it are of the last  *)
(* c - 1 batches, the others of those before, or of the training data.     *)
Rotated(c) ==
  /\ batchIndex < NumTrees => c = batchIndex + 1
  /\ \A i \in 1 .. NumTrees :
       trees[i] = IF i < c THEN batchIndex - c + 1 + i
                  ELSE IF batchIndex < NumTrees THEN 0
                  ELSE batchIndex - c + 1 + i - NumTrees

Rotation == \E c \in 1 .. NumTrees : Rotated(c)

ForestInv ==
  /\ buffered \in 0 .. BatchSize - 1 /\ batchIndex \in Nat
  /\ trees \in Seq(0 .. batchIndex) /\ Len(trees) \in {0, NumTrees}
  /\ phase = "created" => buffered = 0 /\ batchIndex = 0
  /\ algorithm = "BWOAIF" /\ phase = "streaming" =>
       /\ Len(trees) = NumTrees /\ Rotation
       /\ Len(delivered) = batchIndex * BatchSize + buffered

TrialInv ==
  /\ algorithm \in Compared /\ config \in Settings /\ capture \in Captures
  /\ HistoryTyped /\ ScoreInv /\ WindowInv /\ ForestInv

-------------------------------------------------------------------------------
(* Appending to the history adds at most its own number to Alarms and      *)
(* Moves.                                                                  *)
LEMMA AppendToHistory ==
  ASSUME delivered \in Seq(Delivery), NEW r \in Delivery,
         delivered' = Append(delivered, r)
  PROVE  LET k == Len(delivered) + 1 IN
         /\ k \in Nat
         /\ Alarms \subseteq 1 .. Len(delivered)
         /\ Moves \subseteq 1 .. Len(delivered)
         /\ Alarms' = Alarms \cup (IF r.alarm THEN {k} ELSE {})
         /\ Moves' = Moves \cup (IF r.moved THEN {k} ELSE {})
         /\ delivered' \in Seq(Delivery)
         /\ Len(delivered') = k
<1> DEFINE k == Len(delivered) + 1
<1>1. /\ k \in Nat
      /\ DOMAIN delivered = 1 .. Len(delivered)
      /\ delivered' \in Seq(Delivery)
      /\ Len(delivered') = k
      /\ DOMAIN delivered' = 1 .. k
      /\ \A i \in 1 .. Len(delivered) : delivered'[i] = delivered[i]
      /\ delivered'[k] = r
  OBVIOUS
<1>2. 1 .. k = (1 .. Len(delivered)) \cup {k}
  BY <1>1
<1>3. Alarms' = Alarms \cup (IF r.alarm THEN {k} ELSE {})
  BY <1>1, <1>2 DEF Alarms
<1>4. Moves' = Moves \cup (IF r.moved THEN {k} ELSE {})
  BY <1>1, <1>2 DEF Moves
<1> QED
  BY <1>1, <1>3, <1>4 DEF Alarms, Moves

(* A fresh trial satisfies the cooldown invariant.                         *)
LEMMA InitEstablishes == HInit => IInv
<1> SUFFICES ASSUME HInit PROVE IInv
  OBVIOUS
<1>1. HistoryTyped
  BY DEF HInit, Init, ProactiveInit, Fresh, HistoryTyped
<1>2. Alarms = {} /\ Moves = {}
  BY DEF HInit, Alarms, Moves
<1> QED
  BY <1>1, <1>2 DEF IInv, OverloadCovered, HInit, Init

(* Start and Finish leave the history alone.                               *)
LEMMA LifeCycleStep ==
  ASSUME IInv, Start \/ Finish, UNCHANGED delivered
  PROVE  IInv'
<1>1. UNCHANGED <<Alarms, Moves>>
  BY DEF Alarms, Moves
<1>2. UNCHANGED <<algorithm, position>> /\ cooldownUntil' = 0
      /\ phase' \in {"streaming", "finished"}
  BY DEF Start, Finish, ProactiveReset, Fresh, harnessVars
<1>3. HistoryTyped'
  BY <1>2 DEF IInv, HistoryTyped
<1>4. OverloadCovered'
  BY <1>1, <1>2 DEF IInv, OverloadCovered
<1>5. CASE Start
  <2>1. Moves' = {}
    BY <1>1, <1>5 DEF IInv, HistoryTyped, Start, Moves
  <2> QED
    BY <1>2, <1>3, <1>4, <2>1 DEF IInv, CooldownExact
<1>6. CASE Finish
  BY <1>3, <1>4, <1>6 DEF IInv, Finish
<1> QED
  BY <1>5, <1>6

(* A record of a forest or of RCD is none of this property's business.     *)
LEMMA OtherStep ==
  ASSUME IInv, NEW r \in Delivery, delivered' = Append(delivered, r),
         NEW fault \in BOOLEAN, NEW alarm \in BOOLEAN,
         ForestRecord(fault, alarm) \/ RcdRecord(fault)
  PROVE  IInv'
<1>1. /\ algorithm' = algorithm /\ algorithm \notin Proactive
      /\ position' = position + 1 /\ phase' = phase /\ phase = "streaming"
      /\ cooldownUntil' = cooldownUntil
  BY DEF ForestRecord, RcdRecord, Score, Delivers, Proactive, harnessVars,
         proactiveVars
<1>2. HistoryTyped'
  BY <1>1, AppendToHistory DEF IInv, HistoryTyped
<1> QED
  BY <1>1, <1>2 DEF IInv, OverloadCovered

(* What the three outcomes of IPFT and PreGAN have in common.              *)
LEMMA ProactiveFrame ==
  ASSUME IInv, NEW r \in Delivery, delivered' = Append(delivered, r),
         NEW alarm \in BOOLEAN, NEW moved \in BOOLEAN, NEW fault \in BOOLEAN,
         Score(fault, alarm, moved), cooldownUntil' \in Nat
  PROVE  /\ HistoryTyped'
         /\ algorithm' = algorithm /\ phase' = phase /\ phase = "streaming"
         /\ position = Len(delivered)
<1>1. /\ algorithm' = algorithm
      /\ position' = position + 1 /\ phase' = phase /\ phase = "streaming"
  BY DEF Score, Delivers, harnessVars
<1> QED
  BY <1>1, AppendToHistory DEF IInv, HistoryTyped

(* A quiet record adds neither an alarm nor a migration.                   *)
LEMMA QuietStep ==
  ASSUME IInv, NEW fault \in BOOLEAN, ProactiveQuiet(fault),
         delivered' = Append(delivered,
           [fault |-> fault, alarm |-> FALSE, moved |-> FALSE])
  PROVE  IInv'
<1> DEFINE r == [fault |-> fault, alarm |-> FALSE, moved |-> FALSE]
<1>1. r \in Delivery /\ delivered \in Seq(Delivery)
  BY DEF Delivery, IInv, HistoryTyped
<1>2. cooldownUntil' = cooldownUntil /\ cooldownUntil \in Nat
      /\ Score(fault, FALSE, FALSE) /\ algorithm \in Proactive
  BY DEF ProactiveQuiet, PredictNothing, IInv, HistoryTyped
<1>3. /\ HistoryTyped'
      /\ algorithm' = algorithm /\ phase' = phase /\ phase = "streaming"
  BY <1>1, <1>2, ProactiveFrame
<1>4. Alarms' = Alarms /\ Moves' = Moves
  BY <1>1, AppendToHistory
<1> QED
  BY <1>2, <1>3, <1>4 DEF IInv, OverloadCovered, CooldownExact

(* In the cooldown: the new alarm is covered by the last migration.        *)
LEMMA InCooldownStep ==
  ASSUME IInv, NEW fault \in BOOLEAN, ProactiveInCooldown(fault),
         delivered' = Append(delivered,
           [fault |-> fault, alarm |-> TRUE, moved |-> FALSE])
  PROVE  IInv'
<1> DEFINE r == [fault |-> fault, alarm |-> TRUE, moved |-> FALSE]
           k == Len(delivered) + 1
<1>1. r \in Delivery /\ delivered \in Seq(Delivery)
  BY DEF Delivery, IInv, HistoryTyped
<1>2. cooldownUntil' = cooldownUntil /\ cooldownUntil \in Nat
      /\ Score(fault, TRUE, FALSE) /\ algorithm \in Proactive
      /\ position < cooldownUntil
  BY DEF ProactiveInCooldown, PredictInCooldown, IInv, HistoryTyped
<1>3. /\ HistoryTyped'
      /\ algorithm' = algorithm /\ phase' = phase /\ phase = "streaming"
      /\ position = Len(delivered)
  BY <1>1, <1>2, ProactiveFrame
<1>4. Alarms' = Alarms \cup {k} /\ Moves' = Moves
      /\ Moves \subseteq 1 .. Len(delivered) /\ k \in Nat
  BY <1>1, AppendToHistory
<1>5. CooldownExact /\ OverloadCovered
  BY <1>2, <1>3 DEF IInv
<1>6. \E m \in Moves : m <= k /\ k < m + CooldownSteps
  <2>1. PICK m \in Moves : cooldownUntil = (m - 1) + CooldownSteps
    BY <1>2, <1>3, <1>5 DEF CooldownExact
  <2> QED
    BY <1>2, <1>3, <1>4, <2>1, ProactiveAssumption
<1>7. OverloadCovered'
  BY <1>2, <1>3, <1>4, <1>5, <1>6 DEF OverloadCovered
<1> QED
  BY <1>2, <1>3, <1>4, <1>5, <1>7 DEF IInv, CooldownExact

(* A migration covers its own alarm, is out of the cooldown of the last    *)
(* one, and is the last one now.                                           *)
LEMMA MigrationStep ==
  ASSUME IInv, NEW fault \in BOOLEAN, ProactiveMigration(fault),
         delivered' = Append(delivered,
           [fault |-> fault, alarm |-> TRUE, moved |-> TRUE])
  PROVE  IInv'
<1> DEFINE r == [fault |-> fault, alarm |-> TRUE, moved |-> TRUE]
           k == Len(delivered) + 1
<1>1. r \in Delivery /\ delivered \in Seq(Delivery)
  BY DEF Delivery, IInv, HistoryTyped
<1>2. /\ cooldownUntil' = position + CooldownSteps
      /\ Score(fault, TRUE, TRUE) /\ algorithm \in Proactive
      /\ position >= cooldownUntil /\ cooldownUntil \in Nat
  BY DEF ProactiveMigration, PredictAndMigrate, IInv, HistoryTyped
<1>3. position = Len(delivered) /\ position \in Nat
  BY <1>1 DEF IInv, HistoryTyped
<1>4. cooldownUntil' \in Nat
  BY <1>2, <1>3, ProactiveAssumption
<1>5. /\ HistoryTyped'
      /\ algorithm' = algorithm /\ phase' = phase /\ phase = "streaming"
      /\ position = Len(delivered)
  BY <1>1, <1>2, <1>4, ProactiveFrame
<1>6. Alarms' = Alarms \cup {k} /\ Moves' = Moves \cup {k}
      /\ Moves \subseteq 1 .. Len(delivered) /\ k \in Nat
      /\ Alarms \subseteq 1 .. Len(delivered)
  BY <1>1, AppendToHistory
<1>7. CooldownExact /\ OverloadCovered
  BY <1>2, <1>5 DEF IInv
<1>8. CooldownExact'
  BY <1>2, <1>5, <1>6 DEF CooldownExact
<1>9. \A m \in Moves : k >= m + CooldownSteps /\ m < k
  <2> SUFFICES ASSUME NEW m \in Moves PROVE k >= m + CooldownSteps /\ m < k
    OBVIOUS
  <2>1. PICK l \in Moves : m <= l /\ cooldownUntil = (l - 1) + CooldownSteps
    BY <1>7 DEF CooldownExact
  <2> QED
    BY <1>2, <1>5, <1>6, <2>1, ProactiveAssumption
<1>10. OverloadCovered'
  <2>1. \A i \in Alarms' : \E m \in Moves' : m <= i /\ i < m + CooldownSteps
    BY <1>2, <1>6, <1>7, ProactiveAssumption DEF OverloadCovered
  <2>2. \A m, n \in Moves' : m < n => n >= m + CooldownSteps
    BY <1>2, <1>6, <1>7, <1>9 DEF OverloadCovered
  <2> QED
    BY <2>1, <2>2 DEF OverloadCovered
<1> QED
  BY <1>5, <1>8, <1>10 DEF IInv

(* The inductive step, one case per disjunct of HNext.                     *)
LEMMA InvariantStep == IInv /\ [HNext]_hvars => IInv'
<1> SUFFICES ASSUME IInv, [HNext]_hvars PROVE IInv'
  OBVIOUS
<1>1. CASE (Start \/ Finish) /\ UNCHANGED delivered
  BY <1>1, LifeCycleStep
<1>2. ASSUME NEW fault \in BOOLEAN, NEW alarm \in BOOLEAN,
             NEW moved \in BOOLEAN, Process(fault, alarm, moved),
             delivered' = Append(delivered,
               [fault |-> fault, alarm |-> alarm, moved |-> moved])
      PROVE  IInv'
  <2>1. [fault |-> fault, alarm |-> alarm, moved |-> moved] \in Delivery
    BY DEF Delivery
  <2>2. CASE ~ alarm /\ ~ moved /\ ProactiveQuiet(fault)
    <3>1. alarm = FALSE /\ moved = FALSE
      BY <2>2
    <3> QED
      BY <1>2, <2>2, <3>1, QuietStep
  <2>3. CASE alarm /\ ~ moved /\ ProactiveInCooldown(fault)
    <3>1. alarm = TRUE /\ moved = FALSE
      BY <2>3
    <3> QED
      BY <1>2, <2>3, <3>1, InCooldownStep
  <2>4. CASE alarm /\ moved /\ ProactiveMigration(fault)
    <3>1. alarm = TRUE /\ moved = TRUE
      BY <2>4
    <3> QED
      BY <1>2, <2>4, <3>1, MigrationStep
  <2>5. CASE ForestRecord(fault, alarm) \/ RcdRecord(fault)
    BY <1>2, <2>1, <2>5, OtherStep
  <2> QED
    BY <1>2, <2>2, <2>3, <2>4, <2>5 DEF Process
<1>3. CASE UNCHANGED hvars
  <2>1. UNCHANGED <<delivered, position, cooldownUntil, phase, algorithm>>
    BY <1>3 DEF hvars, vars, harnessVars, proactiveVars
  <2> QED
    BY <2>1 DEF IInv, HistoryTyped, CooldownExact, OverloadCovered, Alarms, Moves
<1> QED
  BY <1>1, <1>2, <1>3 DEF HNext

-------------------------------------------------------------------------------
(* The record of the history that Process adds, and its companions.        *)
LEMMA SettingTypes ==
  ASSUME config \in Settings
  PROVE  /\ config.warmup \in Nat /\ config.limit \in Nat \cup {NoLimit}
         /\ NoLimit \notin Nat
BY TrialAssumption

(* The scored records are those behind the warm-up.                        *)
LEMMA ScoredInterval ==
  ASSUME delivered \in Seq(Delivery), config \in Settings
  PROVE  /\ Scored = config.warmup + 1 .. Len(delivered)
         /\ IsFiniteSet(Scored)
         /\ Cardinality(Scored) = IF Len(delivered) > config.warmup
                                    THEN Len(delivered) - config.warmup ELSE 0
<1>1. config.warmup \in Nat /\ Len(delivered) \in Nat BY SettingTypes
<1>2. Scored = config.warmup + 1 .. Len(delivered) BY <1>1 DEF Scored
<1>3. /\ IsFiniteSet(config.warmup + 1 .. Len(delivered))
      /\ Cardinality(config.warmup + 1 .. Len(delivered))
           = IF config.warmup + 1 > Len(delivered) THEN 0
             ELSE Len(delivered) - (config.warmup + 1) + 1
  <2>1. config.warmup + 1 \in Int /\ Len(delivered) \in Int BY <1>1
  <2> QED BY <2>1, FS_Interval, Zenon
<1> QED BY <1>1, <1>2, <1>3

(* The members of a list with one more.                                    *)
LEMMA AppendedSet ==
  ASSUME NEW s \in Seq(Nat), NEW x \in Nat, NEW b \in BOOLEAN
  PROVE  /\ Noted(s, x, b) \in Seq(Nat)
         /\ ToSet(Noted(s, x, b)) = ToSet(s) \cup (IF b THEN {x} ELSE {})
<1>1. CASE b
  <2> DEFINE t == Append(s, x)
  <2>1. /\ t \in Seq(Nat) /\ DOMAIN t = 1 .. Len(s) + 1
        /\ DOMAIN s = 1 .. Len(s) /\ Len(s) \in Nat
        /\ \A i \in 1 .. Len(s) : t[i] = s[i]
        /\ t[Len(s) + 1] = x
    OBVIOUS
  <2>2. Noted(s, x, b) = t BY <1>1 DEF Noted
  <2> HIDE DEF t
  <2>3. 1 .. Len(s) + 1 = (1 .. Len(s)) \cup {Len(s) + 1} BY <2>1
  <2>4. ToSet(t) = ToSet(s) \cup {x} BY <2>1, <2>3 DEF ToSet
  <2> QED BY <1>1, <2>1, <2>2, <2>4
<1>2. CASE ~ b BY <1>2 DEF Noted
<1> QED BY <1>1, <1>2

(* A set of records behind the warm-up, with the new one.                  *)
LEMMA OneMore ==
  ASSUME NEW D, NEW E, NEW k \in Nat, NEW b \in BOOLEAN, NEW n \in Nat,
         D \subseteq 1 .. n, k = n + 1,
         E = D \cup (IF b THEN {k} ELSE {})
  PROVE  /\ IsFiniteSet(D) /\ Cardinality(D) \in Nat
         /\ Cardinality(E) = Cardinality(D) + (IF b THEN 1 ELSE 0)
         /\ {i - 1 : i \in E} = {i - 1 : i \in D} \cup (IF b THEN {n} ELSE {})
<1>1. IsFiniteSet(D)
  <2>1. IsFiniteSet(1 .. n) BY FS_Interval
  <2> QED BY <2>1, FS_Subset
<1>2. Cardinality(D) \in Nat BY <1>1, FS_CardinalityType
<1>3. CASE b
  <2>1. k \notin D BY <1>1
  <2>2. Cardinality(D \cup {k}) = Cardinality(D) + 1 BY <1>1, <2>1, FS_AddElement
  <2>3. {i - 1 : i \in E} = {i - 1 : i \in D} \cup {k - 1} BY <1>3
  <2> QED BY <1>1, <1>2, <1>3, <2>2, <2>3
<1>4. CASE ~ b BY <1>1, <1>2, <1>4
<1> QED BY <1>3, <1>4

(* What Score does to the lists and counters of a trial.                   *)
LEMMA ScoreKept ==
  ASSUME TrialInv, NEW fault \in BOOLEAN, NEW alarm \in BOOLEAN,
         NEW moved \in BOOLEAN, Score(fault, alarm, moved),
         moved => algorithm \in Proactive,
         delivered' = Append(delivered,
           [fault |-> fault, alarm |-> alarm, moved |-> moved])
  PROVE  ScoreInv'
<1> DEFINE n == Len(delivered)
           k == n + 1
           w == config.warmup
           r == [fault |-> fault, alarm |-> alarm, moved |-> moved]
<1>1. /\ delivered \in Seq(Delivery) /\ r \in Delivery /\ position = n /\ n \in Nat
      /\ config \in Settings /\ w \in Nat /\ ScoreInv
  BY SettingTypes DEF TrialInv, HistoryTyped, Delivery
<1>2. /\ k \in Nat /\ delivered' \in Seq(Delivery) /\ Len(delivered') = k
      /\ Moves \subseteq 1 .. n
      /\ Moves' = Moves \cup (IF moved THEN {k} ELSE {})
  BY <1>1, AppendToHistory
<1>3. /\ \A i \in 1 .. n : delivered'[i] = delivered[i]
      /\ delivered'[k].fault = fault /\ delivered'[k].alarm = alarm
  BY <1>1
<1>4. /\ Delivers /\ position' = position + 1
      /\ config' = config /\ algorithm' = algorithm
  BY DEF Score, harnessVars
<1>5. position' \in 0 .. MaxStream
  BY <1>1, <1>4, TrialAssumption DEF Delivers
<1>6. config.limit \notin {NoLimit, 0} => Len(delivered') <= config.limit
  BY <1>1, <1>2, <1>4, SettingTypes DEF Delivers
<1>7. /\ Scored = w + 1 .. n
      /\ Cardinality(Scored) = IF n > w THEN n - w ELSE 0
  BY <1>1, ScoredInterval
<1>8. /\ Scored' = w + 1 .. k
      /\ Cardinality(Scored)' = IF k > w THEN k - w ELSE 0
  <2>1. /\ Scored' = {i \in DOMAIN delivered' : i > w} BY <1>4 DEF Scored
  <2>2. Scored' = w + 1 .. k BY <1>1, <1>2, <2>1
  <2>3. /\ w + 1 \in Int /\ k \in Int BY <1>1, <1>2
  <2>4. Cardinality(w + 1 .. k) = IF w + 1 > k THEN 0 ELSE k - (w + 1) + 1
    BY <2>3, FS_Interval, Zenon
  <2>5. Cardinality(w + 1 .. k) = IF k > w THEN k - w ELSE 0 BY <1>1, <1>2, <2>4
  <2> QED BY <2>2, <2>5
<1> DEFINE D == {j \in Scored : delivered[j].fault /\ delivered[j].alarm}
           E == {j \in w + 1 .. k : delivered'[j].fault /\ delivered'[j].alarm}
           A == Moves \cap Scored
           B == Moves' \cap (w + 1 .. k)
<1>9. /\ D \subseteq 1 .. n /\ A \subseteq 1 .. n
      /\ k <= w => E = D /\ B = A
      /\ k > w => E = D \cup (IF fault /\ alarm THEN {k} ELSE {})
      /\ k > w => B = A \cup (IF moved THEN {k} ELSE {})
  <2>1. D \subseteq 1 .. n /\ A \subseteq 1 .. n BY <1>1, <1>2, <1>7
  <2>2. ASSUME k <= w PROVE E = D /\ B = A
    <3>1. w + 1 .. k = {} /\ w + 1 .. n = {} BY <1>1, <1>2, <2>2
    <3> QED BY <1>7, <3>1
  <2>3. ASSUME k > w
        PROVE  /\ E = D \cup (IF fault /\ alarm THEN {k} ELSE {})
               /\ B = A \cup (IF moved THEN {k} ELSE {})
    <3>1. w + 1 .. k = (w + 1 .. n) \cup {k} /\ k \notin 1 .. n
          /\ w + 1 .. n \subseteq 1 .. n
      BY <1>1, <1>2, <2>3
    <3>2. E = D \cup (IF fault /\ alarm THEN {k} ELSE {})
      BY <1>3, <1>7, <3>1
    <3>3. B = A \cup (IF moved THEN {k} ELSE {})
      BY <1>2, <1>7, <3>1
    <3> QED BY <3>2, <3>3
  <2> QED BY <2>1, <2>2, <2>3
<1>10. /\ D' = E /\ A' = B
  BY <1>8
<1>11. /\ yTrue \in Seq(BOOLEAN) /\ yPred \in Seq(BOOLEAN)
       /\ detectTimes \in Seq(Nat) /\ recTimes \in Seq(Nat)
       /\ session \in [observations : Nat, migrations : Nat, successes : Nat,
                       migrationState : Nat]
       /\ Len(yTrue) = (IF n > w THEN n - w ELSE 0) /\ Len(yPred) = Len(yTrue)
       /\ \A i \in DOMAIN yTrue : /\ yTrue[i] = delivered[w + i].fault
                                  /\ yPred[i] = delivered[w + i].alarm
       /\ ToSet(detectTimes) = {i - 1 : i \in D}
       /\ session.observations = (IF n > w THEN n - w ELSE 0)
       /\ session.migrations = Cardinality(A)
       /\ session.successes = session.migrations
       /\ ToSet(recTimes) = {i - 1 : i \in A}
       /\ session.migrationState =
            IF algorithm \in Proactive
              THEN Cardinality(A) * StateSize[algorithm] ELSE 0
  BY <1>1, <1>7 DEF ScoreInv, ScoresAligned, ActionsAccounted
<1>12. SUFFICES
       /\ yTrue' \in Seq(BOOLEAN) /\ yPred' \in Seq(BOOLEAN)
       /\ detectTimes' \in Seq(Nat) /\ recTimes' \in Seq(Nat)
       /\ session' \in [observations : Nat, migrations : Nat, successes : Nat,
                        migrationState : Nat]
       /\ Len(yTrue') = (IF k > w THEN k - w ELSE 0) /\ Len(yPred') = Len(yTrue')
       /\ \A i \in DOMAIN yTrue' : /\ yTrue'[i] = delivered'[w + i].fault
                                   /\ yPred'[i] = delivered'[w + i].alarm
       /\ ToSet(detectTimes') = {i - 1 : i \in E}
       /\ session'.observations = (IF k > w THEN k - w ELSE 0)
       /\ session'.migrations = Cardinality(B)
       /\ session'.successes = session'.migrations
       /\ ToSet(recTimes') = {i - 1 : i \in B}
       /\ session'.migrationState =
            IF algorithm \in Proactive
              THEN Cardinality(B) * StateSize[algorithm] ELSE 0
  <2>1. config'.warmup = w BY <1>4
  <2> HIDE DEF D, E, A, B, k, w
  <2>2. ScoresAligned'
    BY <1>4, <1>6, <1>8, <1>10, <1>12, <2>1 DEF ScoresAligned, D
  <2>3. ActionsAccounted'
    BY <1>4, <1>8, <1>10, <1>12, <2>1 DEF ActionsAccounted, A
  <2> QED BY <1>5, <1>12, <2>2, <2>3 DEF ScoreInv
<1>13. CASE position < w
  <2>1. UNCHANGED scoreVars BY <1>13 DEF Score, IsWarmup
  <2>2. k <= w /\ ~ n > w /\ ~ k > w BY <1>1, <1>2, <1>13
  <2>3. yTrue = <<>> /\ yPred = <<>> /\ DOMAIN yTrue = {}
    BY <1>11, <2>2
  <2> QED BY <1>9, <1>11, <2>1, <2>2, <2>3 DEF scoreVars
<1>14. CASE ~ position < w
  <2>1. /\ yTrue' = Append(yTrue, fault) /\ yPred' = Append(yPred, alarm)
        /\ detectTimes' = Noted(detectTimes, n, fault /\ alarm)
        /\ recTimes' = Noted(recTimes, n, moved)
        /\ session' = Count(alarm, moved)
    BY <1>1, <1>14 DEF Score, IsWarmup
  <2>2. k > w /\ n >= w /\ k - w = (n - w) + 1 /\ Len(yTrue) = n - w
        /\ Len(yPred) = n - w /\ n - w \in Nat
    <3>1. k = n + 1 /\ n \in Nat /\ w \in Nat /\ ~ n < w /\ position = n
      BY <1>1, <1>14
    <3> HIDE DEF k, n, w
    <3>2. k > w /\ n >= w /\ k - w = (n - w) + 1 /\ n - w \in Nat
          /\ (IF n > w THEN n - w ELSE 0) = n - w
      BY <3>1
    <3> QED BY <1>11, <3>2
  <2>3. /\ yTrue' \in Seq(BOOLEAN) /\ yPred' \in Seq(BOOLEAN)
        /\ Len(yTrue') = k - w /\ Len(yPred') = k - w
        /\ \A i \in DOMAIN yTrue' : /\ yTrue'[i] = delivered'[w + i].fault
                                    /\ yPred'[i] = delivered'[w + i].alarm
    <3>1. /\ yTrue' \in Seq(BOOLEAN) /\ yPred' \in Seq(BOOLEAN)
          /\ Len(yTrue') = k - w /\ Len(yPred') = k - w
      BY <1>11, <2>1, <2>2
    <3>2. ASSUME NEW i \in 1 .. k - w
          PROVE  /\ yTrue'[i] = delivered'[w + i].fault
                 /\ yPred'[i] = delivered'[w + i].alarm
      <4>1. CASE i = k - w
        <5>1. w + i = k /\ i = Len(yTrue) + 1 /\ i = Len(yPred) + 1
          BY <1>1, <1>2, <2>2, <4>1
        <5>2. yTrue'[i] = fault /\ yPred'[i] = alarm BY <1>11, <2>1, <5>1
        <5> QED BY <1>3, <5>1, <5>2
      <4>2. CASE i # k - w
        <5>1. i \in 1 .. n - w /\ w + i \in 1 .. n
          <6>1. n \in Nat /\ w \in Nat /\ k - w = (n - w) + 1 BY <1>1, <2>2
          <6> HIDE DEF n, w, k
          <6> QED BY <4>2, <6>1
        <5>2. /\ i \in DOMAIN yTrue
              /\ yTrue'[i] = yTrue[i] /\ yPred'[i] = yPred[i]
          BY <1>11, <2>1, <2>2, <5>1
        <5> QED BY <1>3, <1>11, <5>1, <5>2
      <4> QED BY <4>1, <4>2
    <3>3. DOMAIN yTrue' = 1 .. k - w BY <3>1
    <3> QED BY <3>1, <3>2, <3>3
  <2>4. /\ detectTimes' \in Seq(Nat)
        /\ ToSet(detectTimes') = ToSet(detectTimes)
             \cup (IF fault /\ alarm THEN {n} ELSE {})
        /\ recTimes' \in Seq(Nat)
        /\ ToSet(recTimes') = ToSet(recTimes) \cup (IF moved THEN {n} ELSE {})
    BY <1>1, <1>11, <2>1, AppendedSet
  <2>5. /\ E = D \cup (IF fault /\ alarm THEN {k} ELSE {})
        /\ B = A \cup (IF moved THEN {k} ELSE {})
    BY <1>9, <2>2
  <2> HIDE DEF D, E, A, B
  <2>6. /\ {i - 1 : i \in E} = {i - 1 : i \in D}
             \cup (IF fault /\ alarm THEN {n} ELSE {})
        /\ {i - 1 : i \in B} = {i - 1 : i \in A} \cup (IF moved THEN {n} ELSE {})
        /\ Cardinality(A) \in Nat
        /\ Cardinality(B) = Cardinality(A) + (IF moved THEN 1 ELSE 0)
    <3> HIDE DEF k, n
    <3>1. n \in Nat /\ k \in Nat /\ k = n + 1 BY <1>1, <1>2 DEF k
    <3>2. D \subseteq 1 .. n /\ A \subseteq 1 .. n BY <1>9
    <3> DEFINE b == fault /\ alarm
    <3>3. b \in BOOLEAN OBVIOUS
    <3>4. E = D \cup (IF b THEN {k} ELSE {}) BY <2>5
    <3> HIDE DEF b
    <3>5. {i - 1 : i \in E} = {i - 1 : i \in D} \cup (IF b THEN {n} ELSE {})
      BY <3>1, <3>2, <3>3, <3>4, OneMore
    <3>6. /\ {i - 1 : i \in B} = {i - 1 : i \in A} \cup (IF moved THEN {n} ELSE {})
          /\ Cardinality(A) \in Nat
          /\ Cardinality(B) = Cardinality(A) + (IF moved THEN 1 ELSE 0)
      <4> DEFINE m == moved
      <4>1. B = A \cup (IF m THEN {k} ELSE {}) /\ m \in BOOLEAN BY <2>5
      <4>2. A \subseteq 1 .. n BY <3>2
      <4> HIDE DEF m
      <4>3. /\ {i - 1 : i \in B} = {i - 1 : i \in A} \cup (IF m THEN {n} ELSE {})
            /\ Cardinality(A) \in Nat
            /\ Cardinality(B) = Cardinality(A) + (IF m THEN 1 ELSE 0)
        <5>1. {i - 1 : i \in B} = {i - 1 : i \in A} \cup (IF m THEN {n} ELSE {})
          BY <3>1, <4>1, <4>2, OneMore
        <5>2. Cardinality(A) \in Nat BY <3>1, <4>1, <4>2, OneMore
        <5>3. Cardinality(B) = Cardinality(A) + (IF m THEN 1 ELSE 0)
          BY <3>1, <4>1, <4>2, OneMore
        <5> QED BY <5>1, <5>2, <5>3
      <4> QED BY <4>3 DEF m
    <3> QED BY <3>5, <3>6 DEF b
  <2>7. /\ session'.observations = session.observations + 1
        /\ session'.migrations = session.migrations + (IF moved THEN 1 ELSE 0)
        /\ session'.successes = session.successes + (IF moved THEN 1 ELSE 0)
        /\ session'.migrationState = session.migrationState
             + (IF moved THEN StateSize[algorithm] ELSE 0)
        /\ session' = [observations |-> session'.observations,
                       migrations |-> session'.migrations,
                       successes |-> session'.successes,
                       migrationState |-> session'.migrationState]
    BY <2>1 DEF Count
  <2>8. algorithm \in Proactive => StateSize[algorithm] \in Nat
    BY DEF StateSize, Proactive
  <2>9. /\ session'.observations = k - w
        /\ session'.migrations = Cardinality(B)
        /\ session'.successes = session'.migrations
    BY <1>11, <2>2, <2>6, <2>7
  <2>10. session'.migrationState =
           IF algorithm \in Proactive
             THEN Cardinality(B) * StateSize[algorithm] ELSE 0
    <3> DEFINE z == StateSize[algorithm]
               c == Cardinality(A)
    <3>1. CASE algorithm \in Proactive
      <4>1. z \in Nat /\ c \in Nat /\ session.migrationState = c * z
        BY <1>11, <2>6, <2>8, <3>1
      <4> HIDE DEF z, c
      <4>2. c * z + z = (c + 1) * z BY <4>1
      <4>3. CASE moved
        <5>1. Cardinality(B) = c + 1 BY <2>6, <4>3 DEF c
        <5>2. session'.migrationState = c * z + z BY <2>7, <4>1, <4>3 DEF z
        <5> QED BY <3>1, <4>2, <5>1, <5>2 DEF z
      <4>4. CASE ~ moved
        <5>1. Cardinality(B) = c BY <2>6, <4>4 DEF c
        <5>2. session'.migrationState = c * z BY <2>7, <4>1, <4>4
        <5> QED BY <3>1, <5>1, <5>2 DEF z
      <4> QED BY <4>3, <4>4
    <3>2. CASE algorithm \notin Proactive BY <1>11, <2>7, <3>2
    <3> QED BY <3>1, <3>2
  <2>11. session' \in [observations : Nat, migrations : Nat, successes : Nat,
                       migrationState : Nat]
    <3>1. session'.observations \in Nat /\ session'.migrations \in Nat
          /\ session'.successes \in Nat
      BY <2>2, <2>6, <2>9
    <3>2. session'.migrationState \in Nat
      BY <1>11, <2>7, <2>8
    <3> QED BY <2>7, <3>1, <3>2
  <2> QED BY <1>11, <2>2, <2>3, <2>4, <2>6, <2>9, <2>10, <2>11
<1> QED BY <1>13, <1>14

(* Score leaves the setting of the trial alone.                            *)
LEMMA ScoreFrame ==
  ASSUME TrialInv, NEW r \in Delivery, delivered' = Append(delivered, r),
         NEW fault \in BOOLEAN, NEW alarm \in BOOLEAN, NEW moved \in BOOLEAN,
         Score(fault, alarm, moved)
  PROVE  /\ algorithm' = algorithm /\ config' = config /\ capture' = capture
         /\ phase' = phase /\ phase = "streaming"
         /\ position = Len(delivered) /\ position \in Nat
         /\ position' = position + 1 /\ Len(delivered') = position + 1
         /\ delivered' \in Seq(Delivery) /\ delivered' # <<>>
         /\ position < MaxStream
<1>1. /\ algorithm' = algorithm /\ config' = config /\ capture' = capture
      /\ position' = position + 1 /\ phase' = phase /\ phase = "streaming"
      /\ position < MaxStream
  BY DEF Score, Delivers, harnessVars
<1>2. delivered \in Seq(Delivery) /\ Len(delivered) = position
  BY DEF TrialInv, HistoryTyped
<1> QED BY <1>1, <1>2

(* A vector enters the window.                                             *)
LEMMA Observing ==
  ASSUME NEW w \in Seq(Nat), Len(w) \in {0, SequenceLength}, NEW x \in Nat
  PROVE  LET v == Observed(w, x) IN
         /\ v \in Seq(Nat) /\ Len(v) = SequenceLength
         /\ \A k \in 1 .. SequenceLength :
              v[k] = IF Len(w) = 0 \/ k = SequenceLength THEN x ELSE w[k + 1]
<1>1. SequenceLength \in Nat /\ SequenceLength > 0 BY ProactiveAssumption
<1> DEFINE kept == IF Len(w) < SequenceLength THEN Append(w, x)
                                              ELSE Append(Tail(w), x)
           pad == [i \in 1 .. SequenceLength - Len(kept) |-> x]
<1>2. Observed(w, x) = pad \o kept BY DEF Observed
<1>3. CASE Len(w) = 0
  <2>1. kept = <<x>> /\ Len(kept) = 1 BY <1>1, <1>3
  <2>2. pad = [i \in 1 .. SequenceLength - 1 |-> x] BY <2>1
  <2>3. pad \in Seq(Nat) /\ Len(pad) = SequenceLength - 1 BY <1>1, <2>2
  <2> HIDE DEF pad, kept
  <2>4. /\ pad \o kept \in Seq(Nat) /\ Len(pad \o kept) = SequenceLength
        /\ \A k \in 1 .. SequenceLength : (pad \o kept)[k] = x
    BY <1>1, <2>1, <2>2, <2>3
  <2> QED BY <1>2, <1>3, <2>4
<1>4. CASE Len(w) = SequenceLength
  <2>1. kept = Append(Tail(w), x) /\ Len(w) # 0 BY <1>1, <1>4
  <2>2. /\ kept \in Seq(Nat) /\ Len(kept) = SequenceLength
        /\ \A k \in 1 .. SequenceLength :
             kept[k] = IF k = SequenceLength THEN x ELSE w[k + 1]
    BY <1>1, <1>4, <2>1
  <2>3. pad \in Seq(Nat) /\ Len(pad) = 0 BY <1>1, <2>2
  <2> HIDE DEF pad, kept
  <2>4. /\ pad \o kept \in Seq(Nat) /\ Len(pad \o kept) = SequenceLength
        /\ \A k \in 1 .. SequenceLength : (pad \o kept)[k] = kept[k]
    BY <1>1, <2>2, <2>3
  <2> QED BY <1>2, <2>1, <2>2, <2>4
<1> QED BY <1>3, <1>4

(* A record of IPFT or PreGAN.                                             *)
LEMMA WindowKept ==
  ASSUME TrialInv, NEW r \in Delivery, delivered' = Append(delivered, r),
         NEW fault \in BOOLEAN, NEW alarm \in BOOLEAN, NEW moved \in BOOLEAN,
         Score(fault, alarm, moved), algorithm \in Proactive,
         window' = Observed(window, position)
  PROVE  WindowInv'
<1>1. /\ algorithm' = algorithm /\ phase' = phase /\ phase = "streaming"
      /\ position = Len(delivered) /\ position \in Nat
      /\ position' = position + 1 /\ delivered' # <<>>
  BY ScoreFrame
<1>2. /\ window \in Seq(Nat) /\ Len(window) \in {0, SequenceLength}
      /\ Len(window) = 0 <=> delivered = <<>>
      /\ WindowIsTail
  BY <1>1 DEF TrialInv, WindowInv
<1>3. /\ window' \in Seq(Nat) /\ Len(window') = SequenceLength
      /\ \A k \in 1 .. SequenceLength :
           window'[k] = IF Len(window) = 0 \/ k = SequenceLength THEN position
                        ELSE window[k + 1]
  BY <1>1, <1>2, Observing
<1>4. SequenceLength \in Nat /\ SequenceLength > 0 BY ProactiveAssumption
<1>5. ASSUME NEW k \in 1 .. SequenceLength
      PROVE  window'[k] = IF position' + k <= SequenceLength THEN 0
                          ELSE (position' + k - SequenceLength) - 1
  <2>1. CASE Len(window) = 0
    <3>1. position = 0 BY <1>1, <1>2, <2>1
    <3> QED BY <1>1, <1>3, <1>4, <2>1, <3>1
  <2>2. CASE Len(window) # 0 /\ k = SequenceLength
    BY <1>1, <1>3, <1>4, <2>2
  <2>3. CASE Len(window) # 0 /\ k # SequenceLength
    <3>1. k + 1 \in 1 .. SequenceLength BY <1>4, <2>3
    <3>2. window[k + 1] = IF position + (k + 1) <= SequenceLength THEN 0
                          ELSE (position + (k + 1) - SequenceLength) - 1
      BY <1>1, <1>2, <2>3, <3>1 DEF WindowIsTail
    <3>3. window'[k] = window[k + 1] BY <1>3, <2>3
    <3> QED BY <1>1, <1>4, <3>2, <3>3
  <2> QED BY <2>1, <2>2, <2>3
<1> QED BY <1>1, <1>3, <1>4, <1>5 DEF WindowInv, WindowIsTail

(* The first of the oldest trees is the one whose turn it is.              *)
LEMMA OldestIsNext ==
  ASSUME NEW c \in 1 .. NumTrees, Rotated(c), batchIndex \in Nat,
         trees \in Seq(0 .. batchIndex), Len(trees) = NumTrees
  PROVE  Oldest(trees) = c
<1>1. NumTrees \in Nat /\ NumTrees > 0 /\ c \in Nat BY ForestAssumption
<1>2. DOMAIN trees = 1 .. NumTrees /\ \A i \in 1 .. NumTrees : trees[i] \in Nat
  <2>1. \A i \in 1 .. NumTrees : trees[i] \in 0 .. batchIndex OBVIOUS
  <2>2. \A x \in 0 .. batchIndex : x \in Nat OBVIOUS
  <2> QED BY <2>1, <2>2
<1> DEFINE First(i) == \A j \in DOMAIN trees :
                         trees[i] < trees[j] \/ (trees[i] = trees[j] /\ i <= j)
<1>3. First(c)
  <2> SUFFICES ASSUME NEW j \in 1 .. NumTrees
               PROVE  trees[c] < trees[j] \/ (trees[c] = trees[j] /\ c <= j)
    BY <1>2
  <2>1. /\ trees[c] = IF batchIndex < NumTrees THEN 0
                      ELSE batchIndex - c + 1 + c - NumTrees
        /\ trees[j] = IF j < c THEN batchIndex - c + 1 + j
                      ELSE IF batchIndex < NumTrees THEN 0
                      ELSE batchIndex - c + 1 + j - NumTrees
        /\ batchIndex < NumTrees => c = batchIndex + 1
    BY <1>1 DEF Rotated
  <2>2. CASE j < c
    <3>1. trees[j] = batchIndex - c + 1 + j BY <2>1, <2>2
    <3> QED BY <1>1, <2>1, <2>2, <3>1
  <2>3. CASE j >= c BY <1>1, <2>1, <2>3
  <2> QED BY <1>1, <2>2, <2>3
<1>4. ASSUME NEW i \in DOMAIN trees, First(i) PROVE i = c
  <2>1. /\ trees[i] < trees[c] \/ (trees[i] = trees[c] /\ i <= c)
        /\ trees[c] < trees[i] \/ (trees[c] = trees[i] /\ c <= i)
    BY <1>2, <1>3, <1>4
  <2> QED BY <1>1, <1>2, <2>1
<1>5. c \in DOMAIN trees BY <1>2
<1> HIDE DEF First
<1>6. (CHOOSE i \in DOMAIN trees : First(i)) = c
  BY <1>3, <1>4, <1>5
<1> QED BY <1>6, Zenon DEF Oldest, First

(* A full buffer replaces the tree whose turn it is.                       *)
LEMMA Rotating ==
  ASSUME Rotation, batchIndex \in Nat, UpdateForest,
         trees \in Seq(0 .. batchIndex), Len(trees) = NumTrees
  PROVE  Rotation' /\ trees' \in Seq(0 .. batchIndex') /\ Len(trees') = NumTrees
<1>1. NumTrees \in Nat /\ NumTrees > 0 BY ForestAssumption
<1>2. PICK c \in 1 .. NumTrees : Rotated(c) BY DEF Rotation
<1>3. /\ trees' = [trees EXCEPT ![c] = batchIndex + 1]
      /\ batchIndex' = batchIndex + 1
  BY <1>2, OldestIsNext DEF UpdateForest
<1>4. /\ Len(trees') = NumTrees /\ DOMAIN trees' = 1 .. NumTrees
      /\ trees'[c] = batchIndex + 1
      /\ \A i \in 1 .. NumTrees : i # c => trees'[i] = trees[i]
  BY <1>3
<1>5. trees' \in Seq(0 .. batchIndex')
  <2>1. \A i \in 1 .. NumTrees : trees[i] \in 0 .. batchIndex OBVIOUS
  <2>2. 0 .. batchIndex \subseteq 0 .. batchIndex + 1
        /\ batchIndex + 1 \in 0 .. batchIndex + 1
    OBVIOUS
  <2>3. trees' \in [1 .. NumTrees -> 0 .. batchIndex + 1]
    BY <1>3, <1>4, <2>1, <2>2
  <2> QED BY <1>1, <1>3, <2>3
<1> DEFINE d == IF c = NumTrees THEN 1 ELSE c + 1
<1>6. d \in 1 .. NumTrees BY <1>1
<1>7. /\ batchIndex < NumTrees => c = batchIndex + 1
      /\ \A i \in 1 .. NumTrees :
           trees[i] = IF i < c THEN batchIndex - c + 1 + i
                      ELSE IF batchIndex < NumTrees THEN 0
                      ELSE batchIndex - c + 1 + i - NumTrees
  BY <1>2 DEF Rotated
<1>8. /\ batchIndex + 1 < NumTrees => d = (batchIndex + 1) + 1
      /\ \A i \in 1 .. NumTrees :
           trees'[i] = IF i < d THEN (batchIndex + 1) - d + 1 + i
                       ELSE IF batchIndex + 1 < NumTrees THEN 0
                       ELSE (batchIndex + 1) - d + 1 + i - NumTrees
  <2>1. batchIndex + 1 < NumTrees => d = (batchIndex + 1) + 1
    BY <1>1, <1>7
  <2>2. ASSUME NEW i \in 1 .. NumTrees
        PROVE  trees'[i] = IF i < d THEN (batchIndex + 1) - d + 1 + i
                           ELSE IF batchIndex + 1 < NumTrees THEN 0
                           ELSE (batchIndex + 1) - d + 1 + i - NumTrees
    <3>1. trees'[i] = IF i = c THEN batchIndex + 1 ELSE trees[i] BY <1>4
    <3>2. trees[i] = IF i < c THEN batchIndex - c + 1 + i
                     ELSE IF batchIndex < NumTrees THEN 0
                     ELSE batchIndex - c + 1 + i - NumTrees
      BY <1>7
    <3>3. batchIndex < NumTrees => c = batchIndex + 1 BY <1>7
    <3>4. CASE c = NumTrees
      <4>1. d = 1 /\ ~ i < d BY <1>1, <3>4
      <4>2. batchIndex + 1 >= NumTrees BY <1>1, <3>3, <3>4
      <4>3. trees'[i] = (batchIndex + 1) - 1 + 1 + i - NumTrees
        <5>1. CASE i = c BY <1>1, <3>1, <3>4, <5>1
        <5>2. CASE i # c
          <6>1. i < c BY <1>1, <3>4, <5>2
          <6> QED BY <1>1, <3>1, <3>2, <3>4, <5>2, <6>1
        <5> QED BY <5>1, <5>2
      <4> QED BY <1>1, <4>1, <4>2, <4>3
    <3>5. CASE c # NumTrees
      <4>1. d = c + 1 BY <3>5
      <4>2. CASE i <= c BY <1>1, <3>1, <3>2, <4>1, <4>2
      <4>3. CASE i > c
        <5>1. trees'[i] = IF batchIndex < NumTrees THEN 0
                          ELSE batchIndex - c + 1 + i - NumTrees
          BY <1>1, <3>1, <3>2, <4>3
        <5>2. batchIndex + 1 < NumTrees \/ batchIndex >= NumTrees
          BY <1>1, <3>3, <3>5
        <5> QED BY <1>1, <4>1, <4>3, <5>1, <5>2
      <4> QED BY <1>1, <4>2, <4>3
    <3> QED BY <3>4, <3>5
  <2> QED BY <2>1, <2>2
<1> HIDE DEF d
<1>9. Rotation' BY <1>3, <1>6, <1>8 DEF Rotation, Rotated
<1> QED BY <1>4, <1>5, <1>9

(* A record of BWOAIF.                                                     *)
LEMMA ForestKept ==
  ASSUME TrialInv, NEW r \in Delivery, delivered' = Append(delivered, r),
         NEW fault \in BOOLEAN, NEW alarm \in BOOLEAN,
         Score(fault, alarm, FALSE), algorithm = "BWOAIF", Buffer \/ UpdateForest
  PROVE  ForestInv'
<1>1. /\ algorithm' = algorithm /\ phase' = phase /\ phase = "streaming"
      /\ position = Len(delivered) /\ Len(delivered') = position + 1
  BY ScoreFrame
<1>2. /\ buffered \in 0 .. BatchSize - 1 /\ batchIndex \in Nat
      /\ trees \in Seq(0 .. batchIndex) /\ Len(trees) = NumTrees /\ Rotation
      /\ Len(delivered) = batchIndex * BatchSize + buffered
  BY <1>1 DEF TrialInv, ForestInv
<1>3. BatchSize \in Nat /\ BatchSize > 0 BY ForestAssumption
<1>4. CASE Buffer
  <2>1. /\ buffered + 1 < BatchSize /\ buffered' = buffered + 1
        /\ trees' = trees /\ batchIndex' = batchIndex
    BY <1>4 DEF Buffer
  <2>2. Rotation' BY <1>2, <2>1 DEF Rotation, Rotated
  <2>3. buffered' \in 0 .. BatchSize - 1 BY <1>2, <1>3, <2>1
  <2>4. Len(delivered') = batchIndex' * BatchSize + buffered'
    <3> DEFINE x == batchIndex * BatchSize
    <3>1. x \in Int BY <1>2, <1>3
    <3>2. Len(delivered) = x + buffered BY <1>2
    <3> HIDE DEF x
    <3>3. Len(delivered') = x + buffered' BY <1>1, <1>2, <2>1, <3>1, <3>2
    <3> QED BY <2>1, <3>3 DEF x
  <2> QED BY <1>1, <1>2, <2>1, <2>2, <2>3, <2>4 DEF ForestInv
<1>5. CASE UpdateForest
  <2>1. /\ buffered + 1 >= BatchSize /\ buffered' = 0
        /\ batchIndex' = batchIndex + 1
    BY <1>5 DEF UpdateForest
  <2>2. Rotation' /\ trees' \in Seq(0 .. batchIndex') /\ Len(trees') = NumTrees
    BY <1>2, <1>5, Rotating
  <2>3. Len(delivered') = batchIndex' * BatchSize + buffered'
    <3> DEFINE x == batchIndex * BatchSize
    <3>1. x \in Int /\ (batchIndex + 1) * BatchSize = x + BatchSize BY <1>2, <1>3
    <3>2. Len(delivered) = x + buffered BY <1>2
    <3>3. buffered + 1 = BatchSize BY <1>2, <1>3, <2>1
    <3> HIDE DEF x
    <3>4. Len(delivered') = x + BatchSize BY <1>1, <1>2, <3>1, <3>2, <3>3
    <3>5. batchIndex' * BatchSize = x + BatchSize BY <2>1, <3>1
    <3> QED BY <1>3, <2>1, <3>1, <3>4, <3>5
  <2>4. buffered' \in 0 .. BatchSize - 1 /\ batchIndex' \in Nat
    BY <1>2, <1>3, <2>1
  <2> QED BY <1>1, <2>2, <2>3, <2>4 DEF ForestInv
<1> QED BY <1>4, <1>5

(* Whatever the algorithm makes of a record, the trial scores it.          *)
LEMMA ProcessScores ==
  ASSUME NEW fault \in BOOLEAN, NEW alarm \in BOOLEAN, NEW moved \in BOOLEAN,
         Process(fault, alarm, moved)
  PROVE  Score(fault, alarm, moved) /\ (moved => algorithm \in Proactive)
<1>1. CASE ~ alarm /\ ~ moved /\ ProactiveQuiet(fault)
  <2>1. alarm = FALSE /\ moved = FALSE BY <1>1
  <2> QED BY <1>1, <2>1 DEF ProactiveQuiet
<1>2. CASE alarm /\ ~ moved /\ ProactiveInCooldown(fault)
  <2>1. alarm = TRUE /\ moved = FALSE BY <1>2
  <2> QED BY <1>2, <2>1 DEF ProactiveInCooldown
<1>3. CASE alarm /\ moved /\ ProactiveMigration(fault)
  <2>1. alarm = TRUE /\ moved = TRUE BY <1>3
  <2> QED BY <1>3, <2>1 DEF ProactiveMigration
<1>4. CASE ~ moved /\ ForestRecord(fault, alarm)
  <2>1. moved = FALSE BY <1>4
  <2> QED BY <1>4, <2>1 DEF ForestRecord
<1>5. CASE ~ alarm /\ ~ moved /\ RcdRecord(fault)
  <2>1. alarm = FALSE /\ moved = FALSE BY <1>5
  <2> QED BY <1>5, <2>1 DEF RcdRecord
<1> QED BY <1>1, <1>2, <1>3, <1>4, <1>5 DEF Process

(* A record, whatever the algorithm.                                       *)
LEMMA ProcessKept ==
  ASSUME TrialInv, HistoryTyped',
         NEW fault \in BOOLEAN, NEW alarm \in BOOLEAN, NEW moved \in BOOLEAN,
         Process(fault, alarm, moved),
         delivered' = Append(delivered,
           [fault |-> fault, alarm |-> alarm, moved |-> moved])
  PROVE  TrialInv'
<1> DEFINE r == [fault |-> fault, alarm |-> alarm, moved |-> moved]
<1>1. r \in Delivery BY DEF Delivery
<1>2. Score(fault, alarm, moved) /\ (moved => algorithm \in Proactive)
  BY ProcessScores
<1>3. ScoreInv' BY <1>2, ScoreKept
<1>4. /\ algorithm' = algorithm /\ config' = config /\ capture' = capture
      /\ phase' = phase /\ phase = "streaming"
      /\ position = Len(delivered) /\ position \in Nat
      /\ delivered' # <<>>
  BY <1>1, <1>2, ScoreFrame
<1>5. CASE algorithm \in Proactive
  <2>1. /\ window' = Observed(window, position)
        /\ UNCHANGED <<trees, buffered, batchIndex>>
    <3>1. ProactiveQuiet(fault) \/ ProactiveInCooldown(fault)
            \/ ProactiveMigration(fault)
      BY <1>5 DEF Process, ForestRecord, RcdRecord, Proactive
    <3> QED BY <3>1 DEF ProactiveQuiet, ProactiveInCooldown, ProactiveMigration,
               PredictNothing, PredictInCooldown, PredictAndMigrate, forestVars
  <2>2. WindowInv' BY <1>1, <1>2, <1>5, <2>1, WindowKept
  <2>3. algorithm # "BWOAIF" BY <1>5 DEF Proactive
  <2>4. ForestInv' BY <1>4, <2>1, <2>3 DEF TrialInv, ForestInv
  <2> QED BY <1>3, <1>4, <2>2, <2>4 DEF TrialInv
<1>6. CASE algorithm \notin Proactive
  <2>1. window' = window
        /\ \/ algorithm = "BWOAIF" /\ ~ moved /\ (Buffer \/ UpdateForest)
           \/ algorithm = "RCD" /\ UNCHANGED <<trees, buffered, batchIndex>>
    BY <1>6 DEF Process, ForestRecord, RcdRecord, ProactiveQuiet,
                ProactiveInCooldown, ProactiveMigration, proactiveVars, forestVars
  <2>2. WindowInv' BY <1>4, <1>6, <2>1 DEF TrialInv, WindowInv, WindowIsTail
  <2>3. ForestInv'
    <3>1. CASE algorithm = "BWOAIF" /\ ~ moved /\ (Buffer \/ UpdateForest)
      <4>1. moved = FALSE BY <3>1
      <4> QED BY <1>1, <1>2, <3>1, <4>1, ForestKept
    <3>2. CASE algorithm = "RCD" /\ UNCHANGED <<trees, buffered, batchIndex>>
      BY <1>4, <3>2 DEF TrialInv, ForestInv
    <3> QED BY <2>1, <3>1, <3>2
  <2> QED BY <1>3, <1>4, <2>2, <2>3 DEF TrialInv
<1> QED BY <1>5, <1>6

(* A fresh trial satisfies the invariants on scores, window and forest.    *)
LEMMA TrialInitial == HInit => TrialInv
<1> SUFFICES ASSUME HInit PROVE TrialInv
  OBVIOUS
<1>1. /\ algorithm \in Compared /\ config \in Settings /\ phase = "created"
      /\ capture \in Captures /\ position = 0 /\ yTrue = <<>> /\ yPred = <<>>
      /\ detectTimes = <<>> /\ recTimes = <<>> /\ session = FreshSession
      /\ window = <<>> /\ cooldownUntil = 0 /\ trees = <<>> /\ buffered = 0
      /\ batchIndex = 0 /\ delivered = <<>>
  BY DEF HInit, Init, ProactiveInit, Fresh, ForestInit, NoForest
<1>2. HistoryTyped BY <1>1 DEF HistoryTyped
<1>3. /\ Scored = {} /\ Moves = {} BY <1>1 DEF Scored, Moves
<1>4. Cardinality({}) = 0 BY FS_EmptySet
<1>5. ScoresAligned
  <2>1. Len(yTrue) = Cardinality(Scored) /\ Len(yPred) = Len(yTrue)
    BY <1>1, <1>3, <1>4
  <2>2. ToSet(detectTimes) = {} BY <1>1 DEF ToSet
  <2>3. Len(delivered) = 0 BY <1>1
  <2>4. config.limit \notin {NoLimit, 0} => 0 <= config.limit
    BY <1>1, SettingTypes
  <2> QED BY <1>1, <1>3, <2>1, <2>2, <2>3, <2>4 DEF ScoresAligned
<1>6. ActionsAccounted
  <2>1. Moves \cap Scored = {} BY <1>3
  <2>2. ToSet(recTimes) = {} BY <1>1 DEF ToSet
  <2>3. algorithm \in Proactive => 0 * StateSize[algorithm] = 0
    BY DEF StateSize, Proactive
  <2> QED BY <1>1, <1>3, <1>4, <2>1, <2>2, <2>3
          DEF ActionsAccounted, FreshSession
<1>7. ScoreInv
  BY <1>1, <1>5, <1>6, TrialAssumption DEF ScoreInv, FreshSession
<1>8. WindowInv BY <1>1 DEF WindowInv, WindowIsTail
<1>9. ForestInv BY <1>1, ForestAssumption DEF ForestInv
<1> QED BY <1>1, <1>2, <1>7, <1>8, <1>9 DEF TrialInv

(* Start and Finish leave the lists alone.                                 *)
LEMMA BoundaryKept ==
  ASSUME TrialInv, HistoryTyped', Start \/ Finish, UNCHANGED delivered
  PROVE  TrialInv'
<1>1. /\ UNCHANGED <<algorithm, config, capture, position, yTrue, yPred, detectTimes,
                     recTimes, session>>
      /\ phase' \in {"streaming", "finished"}
      /\ window' = <<>>
  BY DEF Start, Finish, ProactiveReset, Fresh, harnessVars, scoreVars
<1>2. ScoreInv'
  BY <1>1 DEF TrialInv, ScoreInv, ScoresAligned, ActionsAccounted, Scored, Moves
<1>3. CASE Start
  <2>1. delivered = <<>> /\ delivered' = <<>> /\ phase = "created"
        /\ phase' = "streaming"
    BY <1>3 DEF Start, TrialInv, HistoryTyped
  <2>2. WindowInv' BY <1>1, <2>1 DEF WindowInv, WindowIsTail
  <2>3. ForestInv'
    <3>1. /\ buffered = 0 /\ batchIndex = 0 /\ trees \in Seq(0 .. batchIndex)
          /\ Len(trees) \in {0, NumTrees}
      BY <2>1 DEF TrialInv, ForestInv
    <3>2. CASE algorithm = "BWOAIF"
      <4>1. /\ trees' = [i \in 1 .. NumTrees |-> 0]
            /\ buffered' = 0 /\ batchIndex' = 0
        BY <1>3, <3>1, <3>2 DEF Start, Fit
      <4>2. NumTrees \in Nat /\ NumTrees > 0 /\ BatchSize \in Nat /\ BatchSize > 0
        BY ForestAssumption
      <4>3. trees' \in Seq(0 .. 0) /\ Len(trees') = NumTrees BY <4>1, <4>2
      <4>4. Rotation'
        <5>1. 1 \in 1 .. NumTrees BY <4>2
        <5>2. \A i \in 1 .. NumTrees : trees'[i] = 0 /\ ~ i < 1 BY <4>1, <4>2
        <5> QED BY <4>1, <4>2, <5>1, <5>2 DEF Rotation, Rotated
      <4>5. Len(delivered') = batchIndex' * BatchSize + buffered'
        BY <2>1, <4>1, <4>2
      <4> QED BY <1>1, <2>1, <4>1, <4>2, <4>3, <4>4, <4>5 DEF ForestInv
    <3>3. CASE algorithm # "BWOAIF"
      <4>1. UNCHANGED <<trees, buffered, batchIndex>>
        BY <1>3, <3>3 DEF Start, forestVars
      <4> QED BY <1>1, <2>1, <3>3, <4>1 DEF TrialInv, ForestInv
    <3> QED BY <3>2, <3>3
  <2> QED BY <1>1, <1>2, <2>2, <2>3 DEF TrialInv
<1>4. CASE Finish
  <2>1. phase' = "finished" /\ trees' = <<>> /\ buffered' = 0 /\ batchIndex' = 0
    BY <1>4 DEF Finish, ForestReset, NoForest
  <2>2. WindowInv' BY <1>1, <2>1 DEF WindowInv, WindowIsTail
  <2>3. ForestInv' BY <2>1, ForestAssumption DEF ForestInv
  <2> QED BY <1>1, <1>2, <2>2, <2>3 DEF TrialInv
<1> QED BY <1>3, <1>4

(* Every step of a trial keeps the invariants on scores, window and        *)
(* forest.                                                                 *)
LEMMA TrialStepKept == IInv /\ TrialInv /\ [HNext]_hvars => TrialInv'
<1> SUFFICES ASSUME IInv, TrialInv, [HNext]_hvars PROVE TrialInv'
  OBVIOUS
<1>1. HistoryTyped' BY InvariantStep DEF IInv
<1>2. CASE (Start \/ Finish) /\ UNCHANGED delivered BY <1>1, <1>2, BoundaryKept
<1>3. ASSUME NEW fault \in BOOLEAN, NEW alarm \in BOOLEAN,
             NEW moved \in BOOLEAN, Process(fault, alarm, moved),
             delivered' = Append(delivered,
               [fault |-> fault, alarm |-> alarm, moved |-> moved])
      PROVE  TrialInv'
  BY <1>1, <1>3, ProcessKept
<1>4. CASE UNCHANGED hvars
  <2>1. UNCHANGED <<delivered, algorithm, config, capture, phase, position, yTrue, yPred,
                    detectTimes, recTimes, session, window, trees, buffered,
                    batchIndex>>
    BY <1>4 DEF hvars, vars, harnessVars, scoreVars, proactiveVars, forestVars
  <2>2. ScoreInv'
    BY <2>1 DEF TrialInv, ScoreInv, ScoresAligned, ActionsAccounted, Scored, Moves
  <2>3. WindowInv' BY <2>1 DEF TrialInv, WindowInv, WindowIsTail
  <2>4. ForestInv' BY <2>1 DEF TrialInv, ForestInv, Rotation, Rotated
  <2> QED BY <1>1, <2>1, <2>2, <2>3, <2>4 DEF TrialInv
<1> QED BY <1>2, <1>3, <1>4 DEF HNext

(* A campaign: every step is one of a trial, or the next trial begins      *)
(* where a first one would.                                                *)
LEMMA CampaignStep ==
  TrialInv /\ [CampaignNext]_<<hvars, campaign>> => [HNext]_hvars \/ HInit'
<1> SUFFICES ASSUME TrialInv, [CampaignNext]_<<hvars, campaign>>
             PROVE  [HNext]_hvars \/ HInit'
  OBVIOUS
<1>1. CASE TrialStep BY <1>1 DEF TrialStep
<1>2. CASE NextSeed
  <2>1. algorithm' \in Compared /\ config' \in Settings /\ capture' \in Captures
    BY <1>2 DEF NextSeed, harnessVars, TrialInv
  <2> QED BY <1>2, <2>1
          DEF NextSeed, HInit, Init, ProactiveReset, ProactiveInit, ForestReset,
              ForestInit
<1>3. CASE UNCHANGED <<hvars, campaign>> BY <1>3
<1> QED BY <1>1, <1>2, <1>3 DEF CampaignNext

(* The two invariants hold of a trial alone and of every trial of a        *)
(* campaign.                                                               *)
LEMMA Invariant == HSpec \/ CampaignSpec => [](IInv /\ TrialInv)
<1>1. HInit => IInv /\ TrialInv BY InitEstablishes, TrialInitial
<1>2. IInv /\ TrialInv /\ [HNext]_hvars => (IInv /\ TrialInv)'
  BY InvariantStep, TrialStepKept
<1>3. HSpec => [](IInv /\ TrialInv) BY <1>1, <1>2, PTL DEF HSpec
<1>4. CampaignSpec => [](IInv /\ TrialInv)
  BY <1>1, <1>2, CampaignStep, PTL DEF CampaignSpec, CampaignInit
<1> QED BY <1>3, <1>4

(* recover of IPFT and PreGAN: every predicted overload is covered by the  *)
(* cooldown of a migration and migrations keep their distance.             *)
THEOREM OverloadAlwaysCovered == HSpec \/ CampaignSpec => []OverloadCovered
<1>1. IInv => OverloadCovered BY DEF IInv
<1> QED BY <1>1, Invariant, PTL

(* The algorithm, the harness and the lists of a trial are well typed, the *)
(* window and the forest of their full size or empty.                      *)
THEOREM TypeCorrect == HSpec \/ CampaignSpec => []TypeOK
<1>1. IInv /\ TrialInv => TypeOK
  BY DEF TypeOK, TrialInv, HistoryTyped, ScoreInv, WindowInv, ForestInv
<1> QED BY <1>1, Invariant, PTL

(* run_benchmark_trial: exactly the records behind the warm-up are scored, *)
(* each against its own truth and verdict, and the limit is kept.          *)
THEOREM RecordsScoredOnce == HSpec \/ CampaignSpec => []ScoresAligned
<1>1. TrialInv => ScoresAligned BY DEF TrialInv, ScoreInv
<1> QED BY <1>1, Invariant, PTL

(* The counters of the instrumentation and the times of the recoveries are *)
(* those of the migrations of evaluated records.                           *)
THEOREM MigrationsAccounted == HSpec \/ CampaignSpec => []ActionsAccounted
<1>1. TrialInv => ActionsAccounted BY DEF TrialInv, ScoreInv
<1> QED BY <1>1, Invariant, PTL

(* Of the last NumTrees batches each has one tree in the forest, of the    *)
(* earlier ones none.                                                      *)
LEMMA OneTreePerBatch ==
  ASSUME Rotation, batchIndex \in Nat, trees \in Seq(0 .. batchIndex),
         Len(trees) = NumTrees, NEW b \in 1 .. batchIndex
  PROVE  Cardinality({i \in DOMAIN trees : trees[i] = b})
           = IF b + NumTrees > batchIndex THEN 1 ELSE 0
<1>1. NumTrees \in Nat /\ NumTrees > 0 /\ DOMAIN trees = 1 .. NumTrees
  BY ForestAssumption
<1>2. PICK c \in 1 .. NumTrees : Rotated(c) BY DEF Rotation
<1>3. /\ batchIndex < NumTrees => c = batchIndex + 1
      /\ \A i \in 1 .. NumTrees :
           trees[i] = IF i < c THEN batchIndex - c + 1 + i
                      ELSE IF batchIndex < NumTrees THEN 0
                      ELSE batchIndex - c + 1 + i - NumTrees
  BY <1>2 DEF Rotated
<1> DEFINE x == b - batchIndex + c - 1
           y == IF x >= 1 THEN x ELSE x + NumTrees
           S == {i \in DOMAIN trees : trees[i] = b}
<1>4. ASSUME NEW i \in 1 .. NumTrees
      PROVE  trees[i] = b <=> i = y /\ b + NumTrees > batchIndex
  <2>1. trees[i] = IF i < c THEN batchIndex - c + 1 + i
                   ELSE IF batchIndex < NumTrees THEN 0
                   ELSE batchIndex - c + 1 + i - NumTrees
    BY <1>3
  <2>2. x \in Int /\ x < c /\ b > 0 /\ b \in Int BY <1>1
  <2>3. CASE i < c
    <3>1. trees[i] = b <=> i = x BY <1>1, <2>1, <2>3
    <3>2. i = x => y = x /\ b + NumTrees > batchIndex BY <1>1, <2>2, <2>3
    <3>3. i = y /\ b + NumTrees > batchIndex => i = x
      BY <1>1, <2>2, <2>3
    <3> QED BY <3>1, <3>2, <3>3
  <2>4. CASE ~ i < c /\ batchIndex < NumTrees
    <3>1. trees[i] = 0 /\ c = batchIndex + 1 BY <1>3, <2>1, <2>4
    <3>2. x = b /\ y = b BY <1>1, <2>2, <3>1
    <3> QED BY <1>1, <2>2, <2>4, <3>1, <3>2
  <2>5. CASE ~ i < c /\ ~ batchIndex < NumTrees
    <3>1. trees[i] = b <=> i = x + NumTrees BY <1>1, <2>1, <2>5
    <3>2. i = x + NumTrees => y = i /\ b + NumTrees > batchIndex
      BY <1>1, <2>2, <2>5
    <3>3. i = y => i = x + NumTrees BY <1>1, <2>2, <2>5
    <3> QED BY <3>1, <3>2, <3>3
  <2> QED BY <2>3, <2>4, <2>5
<1>5. CASE b + NumTrees > batchIndex
  <2>1. y \in 1 .. NumTrees
    <3>1. CASE x >= 1 BY <1>1, <3>1
    <3>2. CASE ~ x >= 1 BY <1>1, <1>5, <3>2
    <3> QED BY <3>1, <3>2
  <2> HIDE DEF y
  <2>2. S = {y} BY <1>1, <1>4, <1>5, <2>1
  <2>3. Cardinality({y}) = 1 BY FS_Singleton
  <2> QED BY <1>5, <2>2, <2>3
<1>6. CASE ~ b + NumTrees > batchIndex
  <2>1. S = {} BY <1>1, <1>4, <1>6
  <2> QED BY <1>6, <2>1, FS_EmptySet
<1> QED BY <1>5, <1>6

(* The window of IPFT and PreGAN is the tail of the stream, and the forest *)
(* of BWOAIF has one tree of each of the most recent batches, whatever     *)
(* came first: warm-up, alarms, migrations.                                *)
THEOREM BuffersAlwaysFresh == HSpec \/ CampaignSpec => []BuffersFresh
<1>1. TrialInv => BuffersFresh
  <2> SUFFICES ASSUME TrialInv PROVE BuffersFresh
    OBVIOUS
  <2>1. WindowIsTail BY DEF TrialInv, WindowInv
  <2>2. ASSUME algorithm = "BWOAIF", phase = "streaming"
        PROVE  /\ Len(delivered) = batchIndex * BatchSize + buffered
               /\ \A b \in 1 .. batchIndex :
                    Cardinality({i \in DOMAIN trees : trees[i] = b})
                      = IF b + NumTrees > batchIndex THEN 1 ELSE 0
    BY <2>2, OneTreePerBatch DEF TrialInv, ForestInv
  <2> QED BY <2>1, <2>2, Zenon DEF BuffersFresh, ForestFresh
<1> QED BY <1>1, Invariant, PTL

-------------------------------------------------------------------------------
(* The episodes of a series: its maximal runs of attack records.           *)
MaximalRun(truth, e) ==
  /\ e \in (DOMAIN truth) \X (DOMAIN truth) /\ e[1] <= e[2]
  /\ \A i \in e[1] .. e[2] : truth[i]
  /\ e[1] = 1 \/ ~ truth[e[1] - 1]
  /\ e[2] = Len(truth) \/ ~ truth[e[2] + 1]

(* The pass of find_fault_episodes behind record k: the runs that ended    *)
(* before k are found, in order, and the flag tells whether one is open.   *)
OpenRun(truth, k, s) ==
  /\ s.start \in 1 .. k /\ \A i \in s.start .. k : truth[i]
  /\ s.start = 1 \/ ~ truth[s.start - 1]
  /\ \A j \in DOMAIN s.found : s.found[j][2] < s.start

ScanState == [inside : BOOLEAN, start : Nat, found : Seq(Nat \X Nat)]

ScanInv(truth, k, s) ==
  /\ s \in ScanState
  /\ s.inside <=> k # 0 /\ truth[k]
  /\ s.inside => OpenRun(truth, k, s)
  /\ \A j \in DOMAIN s.found : MaximalRun(truth, s.found[j]) /\ s.found[j][2] < k
  /\ \A e : MaximalRun(truth, e) /\ e[2] < k => \E j \in DOMAIN s.found : s.found[j] = e
  /\ \A i, j \in DOMAIN s.found : i < j => s.found[i][2] < s.found[j][1]

(* A run closed by a record without an attack is the one that was open.    *)
LEMMA RunsEndOnce ==
  ASSUME NEW truth \in Seq(BOOLEAN), NEW k \in 1 .. Len(truth), NEW s,
         s.start \in Nat, OpenRun(truth, k, s), NEW e, MaximalRun(truth, e), e[2] = k
  PROVE  e = <<s.start, k>>
<1> DEFINE a == s.start
           b == e[1]
<1>1. DOMAIN truth = 1 .. Len(truth) /\ Len(truth) \in Nat OBVIOUS
<1>2. /\ a \in Nat /\ 1 <= a /\ a <= k /\ \A i \in a .. k : truth[i]
      /\ a = 1 \/ ~ truth[a - 1]
  BY DEF OpenRun
<1>3. /\ b \in Nat /\ 1 <= b /\ b <= k /\ \A i \in b .. k : truth[i]
      /\ b = 1 \/ ~ truth[b - 1]
      /\ e = <<b, k>>
  <2>1. e \in (DOMAIN truth) \X (DOMAIN truth) BY DEF MaximalRun
  <2>2. e = <<b, k>> /\ b \in 1 .. Len(truth) BY <1>1, <2>1
  <2>3. b <= k /\ \A i \in b .. k : truth[i] BY DEF MaximalRun
  <2>4. b = 1 \/ ~ truth[b - 1] BY DEF MaximalRun
  <2> HIDE DEF b
  <2> QED BY <2>2, <2>3, <2>4
<1> HIDE DEF a, b
<1>4. ~ (a < b) BY <1>2, <1>3
<1>5. ~ (b < a) BY <1>2, <1>3
<1>6. a = b BY <1>2, <1>3, <1>4, <1>5
<1> QED BY <1>3, <1>6 DEF a

(* An episode appended behind the others.                                  *)
FoundOneMore(f, e, t) ==
  /\ \A j \in DOMAIN t : t[j] = e \/ \E i \in DOMAIN f : t[j] = f[i]
  /\ \A i \in DOMAIN f : \E j \in DOMAIN t : t[j] = f[i]
  /\ \E j \in DOMAIN t : t[j] = e
  /\ \A i, j \in DOMAIN t : i < j => t[i][2] < t[j][1]

LEMMA FoundAppended ==
  ASSUME NEW f \in Seq(Nat \X Nat), NEW e \in Nat \X Nat,
         \A i, j \in DOMAIN f : i < j => f[i][2] < f[j][1],
         \A j \in DOMAIN f : f[j][2] < e[1]
  PROVE  Append(f, e) \in Seq(Nat \X Nat) /\ FoundOneMore(f, e, Append(f, e))
<1> DEFINE n == Len(f)
           t == Append(f, e)
<1>1. /\ n \in Nat /\ DOMAIN f = 1 .. n /\ DOMAIN t = 1 .. n + 1
      /\ t \in Seq(Nat \X Nat) /\ t[n + 1] = e
      /\ \A i \in 1 .. n : t[i] = f[i]
  OBVIOUS
<1> HIDE DEF t, n
<1>2. \A j \in DOMAIN t : j = n + 1 \/ j \in DOMAIN f BY <1>1
<1>3. \A j \in DOMAIN t : t[j] = e \/ \E i \in DOMAIN f : t[j] = f[i]
  BY <1>1, <1>2
<1>4. \A i \in DOMAIN f : \E j \in DOMAIN t : t[j] = f[i]
  <2> TAKE i \in DOMAIN f
  <2>1. i \in DOMAIN t /\ t[i] = f[i] BY <1>1
  <2> QED BY <2>1
<1>5. \E j \in DOMAIN t : t[j] = e BY <1>1
<1>6. ASSUME NEW i \in DOMAIN t, NEW j \in DOMAIN t, i < j PROVE t[i][2] < t[j][1]
  <2>1. i \in DOMAIN f /\ t[i] = f[i] BY <1>1, <1>6
  <2>2. CASE j = n + 1 BY <1>1, <2>1, <2>2
  <2>3. CASE j \in DOMAIN f BY <1>1, <1>6, <2>1, <2>3
  <2> QED BY <1>2, <2>2, <2>3
<1> QED BY <1>1, <1>3, <1>4, <1>5, <1>6 DEF FoundOneMore, t

(* One record more.                                                        *)
LEMMA ScanKeeps ==
  ASSUME NEW truth \in Seq(BOOLEAN), NEW k \in Nat, k < Len(truth), NEW s,
         ScanInv(truth, k, s)
  PROVE  ScanInv(truth, k + 1, Scan(truth, s, k + 1))
<1> DEFINE m == k + 1
           t == Scan(truth, s, m)
<1> SUFFICES ScanInv(truth, m, t) OBVIOUS
<1>1. /\ DOMAIN truth = 1 .. Len(truth) /\ Len(truth) \in Nat /\ m \in 1 .. Len(truth)
      /\ \A i \in 1 .. Len(truth) : truth[i] \in BOOLEAN
  OBVIOUS
<1>2. /\ s \in ScanState /\ s.inside \in BOOLEAN /\ s.start \in Nat
      /\ s.found \in Seq(Nat \X Nat)
  BY DEF ScanInv, ScanState
<1>3. /\ s.inside <=> k # 0 /\ truth[k]
      /\ s.inside => OpenRun(truth, k, s)
      /\ \A j \in DOMAIN s.found : MaximalRun(truth, s.found[j]) /\ s.found[j][2] < k
      /\ \A e : MaximalRun(truth, e) /\ e[2] < k => \E j \in DOMAIN s.found : s.found[j] = e
      /\ \A i, j \in DOMAIN s.found : i < j => s.found[i][2] < s.found[j][1]
  BY DEF ScanInv
<1>4. /\ m # 0 /\ m \in Nat /\ m - 1 = k
      /\ \A x \in Nat : x < k => x < m
      /\ \A x \in Nat : x < m => x < k \/ x = k
  OBVIOUS
<1>5. \A e : MaximalRun(truth, e) => e[2] \in Nat /\ e[2] # 0 /\ truth[e[2]]
  <2> SUFFICES ASSUME NEW e, MaximalRun(truth, e)
               PROVE  e[2] \in Nat /\ e[2] # 0 /\ truth[e[2]]
    OBVIOUS
  <2>1. /\ e \in (DOMAIN truth) \X (DOMAIN truth) /\ e[1] <= e[2]
        /\ \A i \in e[1] .. e[2] : truth[i]
    BY DEF MaximalRun
  <2>2. e[1] \in Nat /\ e[2] \in Nat /\ e[2] # 0 BY <1>1, <2>1
  <2> QED BY <2>1, <2>2
<1>6. \A j \in DOMAIN s.found : s.found[j][2] \in Nat BY <1>2
<1>7. \A j \in DOMAIN s.found : MaximalRun(truth, s.found[j]) /\ s.found[j][2] < m
  BY <1>3, <1>4, <1>6
<1>a. s.inside <=> k # 0 /\ truth[k] BY <1>3
<1>b. \A i, j \in DOMAIN s.found : i < j => s.found[i][2] < s.found[j][1] BY <1>3
<1>c. m <= Len(truth) /\ m = k + 1 BY <1>1
<1>d. k \in Nat /\ k < Len(truth) /\ Len(truth) \in Nat OBVIOUS
<1> HIDE DEF m, t
<1>8. CASE truth[m] /\ ~ s.inside
  <2>1. t = [s EXCEPT !.inside = TRUE, !.start = m] BY <1>8 DEF Scan, t
  <2>2. t \in ScanState /\ t.inside /\ t.start = m /\ t.found = s.found
    BY <1>2, <1>4, <2>1 DEF ScanState
  <2>3. OpenRun(truth, m, t)
    <3>1. m \in 1 .. m /\ \A i \in m .. m : truth[i] BY <1>1, <1>8
    <3>2. m = 1 \/ ~ truth[m - 1] BY <1>3, <1>4, <1>8
    <3> QED BY <1>7, <2>2, <3>1, <3>2 DEF OpenRun
  <2>4. ASSUME NEW e, MaximalRun(truth, e), e[2] < m
        PROVE  \E j \in DOMAIN t.found : t.found[j] = e
    <3>1. e[2] # k
      <4> SUFFICES ASSUME e[2] = k PROVE FALSE OBVIOUS
      <4>1. truth[k] BY <1>5, <2>4
      <4> QED BY <1>3, <1>5, <1>8, <2>4, <4>1
    <3> QED BY <1>3, <1>4, <1>5, <2>2, <2>4, <3>1
  <2> QED BY <1>3, <1>4, <1>7, <1>8, <2>2, <2>3, <2>4 DEF ScanInv
<1>9. CASE ~ truth[m] /\ s.inside
  <2> DEFINE p == <<s.start, k>>
             f == Append(s.found, p)
  <2>1. t = [s EXCEPT !.inside = FALSE, !.found = Append(@, <<s.start, m - 1>>)]
    BY <1>9 DEF Scan, t
  <2>2. OpenRun(truth, k, s) BY <1>3, <1>9
  <2>3. k \in 1 .. Len(truth) /\ k # Len(truth) /\ m - 1 = k /\ m = k + 1
    <3> DEFINE n == Len(truth)
    <3>1. k # 0 BY <1>9, <1>a
    <3>2. k \in Nat /\ n \in Nat /\ k < n /\ m = k + 1 BY <1>c, <1>d
    <3> HIDE DEF n
    <3>3. k \in 1 .. n /\ k # n /\ m - 1 = k BY <3>1, <3>2
    <3> QED BY <3>2, <3>3 DEF n
  <2>4. p \in Nat \X Nat /\ p[1] = s.start /\ p[2] = k BY <1>2
  <2>5. MaximalRun(truth, p)
    <3>1. p \in (DOMAIN truth) \X (DOMAIN truth) /\ s.start <= k
      BY <1>1, <2>2, <2>3 DEF OpenRun
    <3> QED BY <1>9, <2>2, <2>3, <2>4, <3>1 DEF MaximalRun, OpenRun
  <2>6. \A j \in DOMAIN s.found : s.found[j][2] < p[1] BY <2>2, <2>4 DEF OpenRun
  <2> HIDE DEF p
  <2>7. t.found = f /\ ~ t.inside /\ t \in ScanState
    <3>1. f \in Seq(Nat \X Nat) BY <1>2, <2>4
    <3>2. t = [s EXCEPT !.inside = FALSE, !.found = f] BY <2>1, <2>3 DEF p
    <3> HIDE DEF f
    <3> QED BY <1>2, <3>1, <3>2 DEF ScanState
  <2>8. /\ \A j \in DOMAIN f : f[j] = p \/ \E i \in DOMAIN s.found : f[j] = s.found[i]
        /\ \A i \in DOMAIN s.found : \E j \in DOMAIN f : f[j] = s.found[i]
        /\ \E j \in DOMAIN f : f[j] = p
        /\ \A i, j \in DOMAIN f : i < j => f[i][2] < f[j][1]
    <3>1. FoundOneMore(s.found, p, f) BY <1>2, <1>b, <2>4, <2>6, FoundAppended
    <3> QED BY <3>1 DEF FoundOneMore
  <2> HIDE DEF f
  <2>9. p[2] < m BY <2>3, <2>4
  <2>10. ASSUME NEW e, MaximalRun(truth, e), e[2] < m
         PROVE  \E j \in DOMAIN f : f[j] = e
    <3>1. CASE e[2] = k
      <4>1. e = p BY <1>2, <2>2, <2>3, <2>10, <3>1, RunsEndOnce DEF p
      <4> QED BY <2>8, <4>1
    <3>2. CASE e[2] # k
      <4>1. \E j \in DOMAIN s.found : s.found[j] = e
        BY <1>3, <1>4, <1>5, <2>10, <3>2
      <4> QED BY <2>8, <4>1
    <3> QED BY <3>1, <3>2
  <2>11. \A j \in DOMAIN f : MaximalRun(truth, f[j]) /\ f[j][2] < m
    BY <1>7, <2>5, <2>8, <2>9
  <2> QED BY <1>4, <1>9, <2>7, <2>8, <2>10, <2>11 DEF ScanInv
<1>10. CASE truth[m] <=> s.inside
  <2>1. t = s BY <1>10 DEF Scan, t
  <2>2. s.inside => OpenRun(truth, m, s)
    <3> SUFFICES ASSUME s.inside PROVE OpenRun(truth, m, s) OBVIOUS
    <3>1. OpenRun(truth, k, s) BY <1>3
    <3>2. s.start \in 1 .. m /\ \A i \in s.start .. m : i \in s.start .. k \/ i = m
      BY <1>2, <3>1 DEF OpenRun, m
    <3> QED BY <1>10, <3>1, <3>2 DEF OpenRun
  <2>3. ASSUME NEW e, MaximalRun(truth, e), e[2] < m
        PROVE  \E j \in DOMAIN s.found : s.found[j] = e
    <3>1. e[2] # k
      <4> SUFFICES ASSUME e[2] = k PROVE FALSE OBVIOUS
      <4>1. truth[k] BY <1>5, <2>3
      <4>2. s.inside BY <1>3, <1>5, <2>3, <4>1
      <4>3. ~ truth[k + 1] BY <2>3 DEF MaximalRun
      <4> QED BY <1>10, <4>2, <4>3 DEF m
    <3> QED BY <1>3, <1>4, <1>5, <2>3, <3>1
  <2> QED BY <1>2, <1>3, <1>4, <1>7, <1>10, <2>1, <2>2, <2>3 DEF ScanInv
<1>11. truth[m] \in BOOLEAN BY <1>1
<1> QED BY <1>2, <1>8, <1>9, <1>10, <1>11 DEF m

LEMMA ScanTyped ==
  ASSUME NEW truth \in Seq(BOOLEAN), NEW s \in ScanState, NEW i \in DOMAIN truth
  PROVE  Scan(truth, s, i) \in ScanState
<1>1. /\ i \in Nat /\ i - 1 \in Nat /\ s.start \in Nat /\ s.inside \in BOOLEAN
      /\ s.found \in Seq(Nat \X Nat)
  BY DEF ScanState
<1>2. Append(s.found, <<s.start, i - 1>>) \in Seq(Nat \X Nat) BY <1>1
<1>3. [s EXCEPT !.inside = TRUE, !.start = i] \in ScanState BY <1>1 DEF ScanState
<1>4. [s EXCEPT !.inside = FALSE, !.found = Append(s.found, <<s.start, i - 1>>)]
        \in ScanState
  BY <1>1, <1>2 DEF ScanState
<1> QED BY <1>3, <1>4 DEF Scan

(* The pass over the whole series.                                         *)
LEMMA ScannedAll ==
  ASSUME NEW truth \in Seq(BOOLEAN)
  PROVE  ScanInv(truth, Len(truth), Scanned(truth))
<1> DEFINE n == Len(truth)
           Id == [i \in DOMAIN truth |-> i]
           P(g) == g = [s \in SUBSET (DOMAIN Id) |->
                          IF s = {} THEN Outside
                          ELSE Scan(truth, g[s \ {Max(s)}], Id[Max(s)])]
           h == [p \in ScanState \X (1 .. n) |-> Scan(truth, p[1], p[2])]
           G == CHOOSE g : P(g)
<1>1. Scanned(truth) = G[DOMAIN Id]
  BY Zenon DEF Scanned, FoldLeftDomain, FoldLeft, MapThenFoldSet
<1>2. /\ n \in Nat /\ DOMAIN truth = 1 .. n /\ DOMAIN Id = 1 .. n
      /\ \A i \in 1 .. n : Id[i] = i
  OBVIOUS
<1> HIDE DEF n, Id
<1>3. Outside \in ScanState BY DEF Outside, ScanState
<1>4. h \in [ScanState \X (1 .. n) -> ScanState] BY <1>2, ScanTyped
<1>5. PICK g \in [SUBSET (1 .. n) -> ScanState] : FoldStep(g, h, Outside, n)
  <2> HIDE DEF h
  <2> QED BY <1>2, <1>3, <1>4, FoldExists
<1>6. P(g)
  <2> DEFINE v(s) == IF s = {} THEN Outside
                     ELSE Scan(truth, g[s \ {Max(s)}], Id[Max(s)])
  <2>1. ASSUME NEW s \in SUBSET (1 .. n) PROVE g[s] = v(s)
    <3>1. CASE s = {} BY <1>5, <3>1 DEF FoldStep
    <3>2. CASE s # {}
      <4>1. Max(s) \in 1 .. n BY <1>2, <3>2, MaxPosition
      <4>2. g[s \ {Max(s)}] \in ScanState BY <1>5
      <4>3. g[s] = h[<<g[s \ {Max(s)}], Max(s)>>] BY <1>5, <3>2 DEF FoldStep
      <4>4. h[<<g[s \ {Max(s)}], Max(s)>>] = Scan(truth, g[s \ {Max(s)}], Max(s))
        BY <4>1, <4>2
      <4> QED BY <1>2, <3>2, <4>1, <4>3, <4>4
    <3> QED BY <3>1, <3>2
  <2> HIDE DEF v
  <2>2. g = [s \in SUBSET (1 .. n) |-> v(s)] BY <1>5, <2>1
  <2> QED BY <1>2, <2>2 DEF v
<1>7. P(G)
  <2> HIDE DEF P
  <2> QED BY <1>6, Zenon
<1> HIDE DEF G, h
<1>8. G[{}] = Outside BY <1>7
<1>9. ASSUME NEW k \in 1 .. n PROVE G[1 .. k] = Scan(truth, G[1 .. k - 1], k)
  <2>1. 1 .. k \in SUBSET (1 .. n) BY <1>2
  <2>2. 1 .. k # {} /\ Max(1 .. k) = k /\ (1 .. k) \ {k} = 1 .. k - 1
    <3>1. k \in Nat /\ k # 0 BY <1>2
    <3> QED BY <3>1, Positions
  <2>3. G[1 .. k] = IF 1 .. k = {} THEN Outside
                    ELSE Scan(truth, G[(1 .. k) \ {Max(1 .. k)}], Id[Max(1 .. k)])
    BY <1>2, <1>7, <2>1
  <2> QED BY <1>2, <2>2, <2>3
<1> HIDE DEF P
<1> DEFINE Bad == {k \in Nat : k <= n /\ ~ ScanInv(truth, k, G[1 .. k])}
<1>10. Bad = {}
  <2> SUFFICES ASSUME Bad # {} PROVE FALSE OBVIOUS
  <2>1. PICK k \in Bad : \A y \in Bad : k <= y
    <3>1. Bad \in SUBSET Nat OBVIOUS
    <3> HIDE DEF Bad
    <3> QED BY <3>1, LeastNatural
  <2>2. k \in Nat /\ k <= n /\ ~ ScanInv(truth, k, G[1 .. k]) OBVIOUS
  <2>3. CASE k = 0
    <3>1. G[1 .. 0] = Outside
      <4>1. 1 .. 0 = {} OBVIOUS
      <4> QED BY <1>8, <4>1
    <3>2. /\ ~ Outside.inside /\ Outside.found = <<>>
          /\ \A e : MaximalRun(truth, e) => ~ (e[2] < 0)
      <4>1. ~ Outside.inside /\ Outside.found = <<>> BY DEF Outside
      <4>2. \A e : MaximalRun(truth, e) => e[2] \in Nat BY <1>2 DEF MaximalRun
      <4> QED BY <4>1, <4>2
    <3>3. DOMAIN Outside.found = {} BY <3>2
    <3>4. ScanInv(truth, 0, Outside) BY <1>3, <3>2, <3>3 DEF ScanInv
    <3> QED BY <2>2, <2>3, <3>1, <3>4
  <2>4. CASE k # 0
    <3>1. /\ k - 1 \in Nat /\ k - 1 < n /\ k - 1 <= n /\ ~ (k <= k - 1)
          /\ k - 1 + 1 = k /\ k \in 1 .. n
      BY <1>2, <2>2, <2>4
    <3>2. k - 1 \notin Bad BY <2>1, <3>1
    <3>3. ScanInv(truth, k - 1, G[1 .. k - 1]) BY <3>1, <3>2
    <3>4. ScanInv(truth, k - 1 + 1, Scan(truth, G[1 .. k - 1], k - 1 + 1))
      BY <3>1, <3>3, ScanKeeps DEF n
    <3> QED BY <1>9, <2>2, <3>1, <3>4
  <2> QED BY <2>3, <2>4
<1>11. ScanInv(truth, n, G[1 .. n]) BY <1>2, <1>10
<1> QED BY <1>1, <1>2, <1>11 DEF n

(* find_fault_episodes returns the maximal runs, in order.                 *)
LEMMA EpisodesFound ==
  ASSUME NEW truth \in Seq(BOOLEAN)
  PROVE  LET found == FindFaultEpisodes(truth)
         IN  /\ found \in Seq(Nat \X Nat)
             /\ \A e : (\E j \in DOMAIN found : found[j] = e) <=> MaximalRun(truth, e)
             /\ \A i, j \in DOMAIN found : i < j => found[i][2] < found[j][1]
<1> DEFINE n == Len(truth)
           s == Scanned(truth)
           p == <<s.start, n>>
           f == Append(s.found, p)
<1>1. /\ n \in Nat /\ DOMAIN truth = 1 .. n
      /\ \A i \in 1 .. n : truth[i] \in BOOLEAN
  OBVIOUS
<1>2. ScanInv(truth, n, s) BY ScannedAll
<1> HIDE DEF n, s
<1>3. /\ s \in ScanState /\ s.inside \in BOOLEAN /\ s.start \in Nat
      /\ s.found \in Seq(Nat \X Nat)
      /\ \A j \in DOMAIN s.found : MaximalRun(truth, s.found[j])
  BY <1>2 DEF ScanInv, ScanState
<1>4. \A i, j \in DOMAIN s.found : i < j => s.found[i][2] < s.found[j][1]
  BY <1>2 DEF ScanInv
<1>5. s.inside <=> n # 0 /\ truth[n] BY <1>2 DEF ScanInv
<1>6. \A e : MaximalRun(truth, e) => e[2] \in 1 .. n /\ truth[e[2]]
  <2> SUFFICES ASSUME NEW e, MaximalRun(truth, e)
               PROVE  e[2] \in 1 .. n /\ truth[e[2]]
    OBVIOUS
  <2>1. /\ e \in (1 .. n) \X (1 .. n) /\ e[1] <= e[2]
        /\ \A i \in e[1] .. e[2] : truth[i]
    BY <1>1 DEF MaximalRun
  <2>2. e[1] \in Nat /\ e[2] \in 1 .. n BY <1>1, <2>1
  <2> QED BY <2>1, <2>2
<1>7. \A e : MaximalRun(truth, e) /\ e[2] # n => \E j \in DOMAIN s.found : s.found[j] = e
  <2>1. \A e : MaximalRun(truth, e) /\ e[2] # n => e[2] < n BY <1>1, <1>6
  <2> QED BY <1>2, <2>1 DEF ScanInv
<1>8. CASE s.inside
  <2>1. FindFaultEpisodes(truth) = f BY <1>8 DEF FindFaultEpisodes, s, n
  <2>2. OpenRun(truth, n, s) BY <1>2, <1>8 DEF ScanInv
  <2>3. n \in 1 .. n /\ n # 0 BY <1>1, <1>5, <1>8
  <2>4. p \in Nat \X Nat /\ p[1] = s.start /\ p[2] = n BY <1>1, <1>3
  <2>5. MaximalRun(truth, p)
    <3>1. p \in (DOMAIN truth) \X (DOMAIN truth) /\ s.start <= n
      BY <1>1, <2>2, <2>3 DEF OpenRun
    <3> QED BY <2>2, <2>4, <3>1 DEF MaximalRun, OpenRun, n
  <2>6. \A j \in DOMAIN s.found : s.found[j][2] < p[1] BY <2>2, <2>4 DEF OpenRun
  <2>7. ASSUME NEW e, MaximalRun(truth, e), e[2] = n PROVE e = p
    BY <1>3, <2>2, <2>3, <2>7, RunsEndOnce DEF n, p
  <2> HIDE DEF p
  <2>8. /\ f \in Seq(Nat \X Nat)
        /\ \A j \in DOMAIN f : f[j] = p \/ \E i \in DOMAIN s.found : f[j] = s.found[i]
        /\ \A i \in DOMAIN s.found : \E j \in DOMAIN f : f[j] = s.found[i]
        /\ \E j \in DOMAIN f : f[j] = p
        /\ \A i, j \in DOMAIN f : i < j => f[i][2] < f[j][1]
    <3>1. f \in Seq(Nat \X Nat) /\ FoundOneMore(s.found, p, f)
      BY <1>3, <1>4, <2>4, <2>6, FoundAppended
    <3> HIDE DEF f
    <3> QED BY <3>1 DEF FoundOneMore
  <2> HIDE DEF f
  <2>9. \A e : (\E j \in DOMAIN f : f[j] = e) => MaximalRun(truth, e)
    BY <1>3, <2>5, <2>8
  <2>10. \A e : MaximalRun(truth, e) => \E j \in DOMAIN f : f[j] = e
    BY <1>7, <2>7, <2>8
  <2> QED BY <2>1, <2>8, <2>9, <2>10
<1>9. CASE ~ s.inside
  <2>1. FindFaultEpisodes(truth) = s.found BY <1>9 DEF FindFaultEpisodes, s
  <2>2. \A e : MaximalRun(truth, e) => e[2] # n BY <1>5, <1>6, <1>9
  <2> QED BY <1>3, <1>4, <1>7, <2>1, <2>2
<1> QED BY <1>3, <1>8, <1>9

(* Partial sums: what Total has added up behind each element.              *)
Sums(seq, g) == /\ g[0] = 0
                /\ \A k \in 1 .. Len(seq) : g[k] = g[k - 1] + seq[k]

LEMMA TotalParts ==
  ASSUME NEW seq \in Seq(Int)
  PROVE  \E g : Sums(seq, g) /\ Total(seq) = g[Len(seq)]
<1> DEFINE n == Len(seq)
           P(g) == g = [s \in SUBSET (DOMAIN seq) |->
                          IF s = {} THEN 0 ELSE g[s \ {Max(s)}] + seq[Max(s)]]
           h == [p \in Int \X (1 .. n) |-> p[1] + seq[p[2]]]
           G == CHOOSE g : P(g)
<1>1. Total(seq) = G[DOMAIN seq] BY Zenon DEF Total, FoldLeft, MapThenFoldSet
<1>2. n \in Nat /\ DOMAIN seq = 1 .. n /\ \A i \in 1 .. n : seq[i] \in Int OBVIOUS
<1> HIDE DEF n
<1>3. h \in [Int \X (1 .. n) -> Int] BY <1>2
<1>4. PICK g \in [SUBSET (1 .. n) -> Int] : FoldStep(g, h, 0, n)
  <2> HIDE DEF h
  <2>1. 0 \in Int OBVIOUS
  <2> QED BY <1>2, <1>3, <2>1, FoldExists
<1>5. P(g)
  <2> DEFINE v(s) == IF s = {} THEN 0 ELSE g[s \ {Max(s)}] + seq[Max(s)]
  <2>1. ASSUME NEW s \in SUBSET (1 .. n) PROVE g[s] = v(s)
    <3>1. CASE s = {} BY <1>4, <3>1 DEF FoldStep
    <3>2. CASE s # {}
      <4>1. Max(s) \in 1 .. n BY <1>2, <3>2, MaxPosition
      <4>2. g[s \ {Max(s)}] \in Int BY <1>4
      <4>3. g[s] = h[<<g[s \ {Max(s)}], Max(s)>>] BY <1>4, <3>2 DEF FoldStep
      <4> QED BY <3>2, <4>1, <4>2, <4>3
    <3> QED BY <3>1, <3>2
  <2> HIDE DEF v
  <2>2. g = [s \in SUBSET (1 .. n) |-> v(s)] BY <1>4, <2>1
  <2> QED BY <1>2, <2>2 DEF v
<1>6. P(G)
  <2> HIDE DEF P
  <2> QED BY <1>5, Zenon
<1> HIDE DEF G, h
<1>7. G[1 .. 0] = 0
  <2>1. 1 .. 0 = {} OBVIOUS
  <2>2. G[{}] = 0 BY <1>6
  <2> QED BY <2>1, <2>2
<1>8. ASSUME NEW k \in 1 .. n PROVE G[1 .. k] = G[1 .. k - 1] + seq[k]
  <2>1. 1 .. k \in SUBSET (1 .. n) BY <1>2
  <2>2. 1 .. k # {} /\ Max(1 .. k) = k /\ (1 .. k) \ {k} = 1 .. k - 1
    <3>1. k \in Nat /\ k # 0 BY <1>2
    <3> QED BY <3>1, Positions
  <2>3. G[1 .. k] = IF 1 .. k = {} THEN 0
                    ELSE G[(1 .. k) \ {Max(1 .. k)}] + seq[Max(1 .. k)]
    BY <1>2, <1>6, <2>1
  <2> QED BY <2>2, <2>3
<1> HIDE DEF P
<1> DEFINE s == [k \in 0 .. n |-> G[1 .. k]]
<1>9. s[0] = 0 BY <1>2, <1>7
<1>10. ASSUME NEW k \in 1 .. n PROVE s[k] = s[k - 1] + seq[k]
  <2>1. k \in 0 .. n /\ k - 1 \in 0 .. n BY <1>2
  <2> QED BY <1>8, <2>1
<1>11. s[n] = Total(seq)
  <2>1. n \in 0 .. n BY <1>2
  <2> QED BY <1>1, <1>2, <2>1
<1> HIDE DEF s
<1> QED BY <1>9, <1>10, <1>11 DEF Sums, n

(* Partial sums are integers and depend on the elements they add only.     *)
LEMMA SumsAgree ==
  ASSUME NEW s \in Seq(Int), NEW t \in Seq(Int), Len(s) <= Len(t),
         \A k \in 1 .. Len(s) : t[k] = s[k],
         NEW f, Sums(s, f), NEW g, Sums(t, g)
  PROVE  \A k \in 0 .. Len(s) : g[k] = f[k] /\ f[k] \in Int
<1> DEFINE n == Len(s)
           Bad == {k \in Nat : k <= n /\ ~ (g[k] = f[k] /\ f[k] \in Int)}
<1>1. /\ n \in Nat /\ Len(t) \in Nat /\ n <= Len(t)
      /\ \A k \in 1 .. n : s[k] \in Int /\ t[k] = s[k]
  OBVIOUS
<1>2. /\ f[0] = 0 /\ \A k \in 1 .. n : f[k] = f[k - 1] + s[k]
      /\ g[0] = 0 /\ \A k \in 1 .. Len(t) : g[k] = g[k - 1] + t[k]
  BY DEF Sums
<1> HIDE DEF n
<1>3. Bad = {}
  <2> SUFFICES ASSUME Bad # {} PROVE FALSE OBVIOUS
  <2>1. PICK k \in Bad : \A y \in Bad : k <= y
    <3>1. Bad \in SUBSET Nat OBVIOUS
    <3> HIDE DEF Bad
    <3> QED BY <3>1, LeastNatural
  <2>2. k \in Nat /\ k <= n /\ ~ (g[k] = f[k] /\ f[k] \in Int) OBVIOUS
  <2>3. k # 0 BY <1>2, <2>2
  <2>4. /\ k \in 1 .. n /\ k \in 1 .. Len(t)
        /\ k - 1 \in Nat /\ k - 1 <= n /\ ~ (k <= k - 1)
    BY <1>1, <2>2, <2>3
  <2>5. k - 1 \notin Bad BY <2>1, <2>4
  <2>6. g[k - 1] = f[k - 1] /\ f[k - 1] \in Int BY <2>4, <2>5
  <2>7. f[k] = f[k - 1] + s[k] /\ g[k] = g[k - 1] + t[k] /\ t[k] = s[k] /\ s[k] \in Int
    BY <1>1, <1>2, <2>4
  <2> DEFINE x == f[k - 1]
             y == s[k]
  <2>8. f[k] \in Int
    <3>1. x \in Int /\ y \in Int /\ f[k] = x + y BY <2>6, <2>7
    <3> HIDE DEF x, y
    <3>2. x + y \in Int BY <3>1
    <3> QED BY <3>1, <3>2
  <2>9. g[k] = f[k] BY <2>6, <2>7
  <2> QED BY <2>2, <2>8, <2>9
<1> QED BY <1>1, <1>3 DEF n

(* The total of a list and of one element more.                            *)
LEMMA TotalAppended ==
  ASSUME NEW s \in Seq(Int), NEW d \in Int
  PROVE  Total(s) \in Int /\ Total(s \o <<d>>) = Total(s) + d
<1> DEFINE t == s \o <<d>>
           n == Len(s)
<1>1. /\ t \in Seq(Int) /\ n \in Nat /\ Len(t) = n + 1 /\ t[n + 1] = d
      /\ \A k \in 1 .. n : t[k] = s[k]
  OBVIOUS
<1> HIDE DEF t
<1>2. PICK f : Sums(s, f) /\ Total(s) = f[n] BY TotalParts
<1>3. PICK g : Sums(t, g) /\ Total(t) = g[n + 1] BY <1>1, TotalParts
<1>4. \A k \in 0 .. n : g[k] = f[k] /\ f[k] \in Int
  <2>1. n <= Len(t) BY <1>1
  <2> QED BY <1>1, <1>2, <1>3, <2>1, SumsAgree
<1>5. g[n] = f[n] /\ f[n] \in Int BY <1>1, <1>4
<1>6. g[n + 1] = g[n] + d
  <2>1. n + 1 \in 1 .. Len(t) /\ n + 1 - 1 = n BY <1>1
  <2>2. g[n + 1] = g[n + 1 - 1] + t[n + 1] BY <1>3, <2>1 DEF Sums
  <2> QED BY <1>1, <2>1, <2>2
<1> QED BY <1>2, <1>3, <1>5, <1>6 DEF t

LEMMA TotalEmpty == Total(<<>>) = 0
<1>1. <<>> \in Seq(Int) /\ Len(<<>>) = 0 OBVIOUS
<1>2. PICK g : Sums(<<>>, g) /\ Total(<<>>) = g[Len(<<>>)] BY <1>1, TotalParts
<1> QED BY <1>1, <1>2 DEF Sums

(* The records from its onset on that an episode cost: those before its    *)
(* first alarm, or all of them.                                            *)
LEMMA EpisodeDelay ==
  ASSUME NEW truth \in Seq(BOOLEAN), NEW verdict \in Seq(BOOLEAN),
         Len(verdict) = Len(truth), NEW e, MaximalRun(truth, e)
  PROVE  /\ DelaysOf(e, verdict) \in Seq(Nat)
         /\ \/ DelaysOf(e, verdict) = <<>>
               /\ e[1] .. e[2] \subseteq FalseNegatives(truth, verdict)
            \/ \E d \in Nat :
                 /\ DelaysOf(e, verdict) = <<d>>
                 /\ e[1] .. e[1] + d - 1 \subseteq
                      FalseNegatives(truth, verdict) \cap (e[1] .. e[2])
         /\ FalseNegatives(truth, verdict) = {} => DelaysOf(e, verdict) = <<0>>
<1> DEFINE n == Len(truth)
           a == e[1]
           b == e[2]
           alarms == AlarmsIn(e, verdict)
           missed == FalseNegatives(truth, verdict)
<1>1. n \in Nat /\ DOMAIN truth = 1 .. n OBVIOUS
<1>2. e \in (1 .. n) \X (1 .. n) /\ a <= b /\ \A i \in a .. b : truth[i]
  BY <1>1 DEF MaximalRun
<1>3. alarms = {i \in a .. b : verdict[i]} BY DEF AlarmsIn
<1>4. missed = {i \in 1 .. n : truth[i] /\ ~ verdict[i]}
  BY <1>1 DEF FalseNegatives
<1>5. DelaysOf(e, verdict) = IF alarms = {} THEN <<>> ELSE <<Min(alarms) - a>>
  BY DEF DelaysOf
<1> DEFINE D == DelaysOf(e, verdict)
<1>6. a \in Nat /\ b \in Nat /\ 1 <= a /\ b <= n BY <1>1, <1>2
<1> HIDE DEF n, a, b, alarms, missed, D
<1>7. CASE alarms = {}
  <2>1. D = <<>> BY <1>5, <1>7 DEF D
  <2>2. a .. b \subseteq missed
    <3> SUFFICES ASSUME NEW i \in a .. b PROVE i \in missed OBVIOUS
    <3>1. i \in 1 .. n BY <1>1, <1>6
    <3>2. truth[i] /\ ~ verdict[i] BY <1>2, <1>3, <1>7
    <3> QED BY <1>4, <3>1, <3>2
  <2>3. a \in missed BY <1>2, <1>6, <2>2
  <2>4. D \in Seq(Nat) BY <2>1
  <2> QED BY <2>1, <2>2, <2>3, <2>4 DEF D, missed, a, b
<1>8. CASE alarms # {}
  <2> DEFINE m == Min(alarms)
             d == m - a
  <2>1. m \in alarms /\ \A y \in alarms : m <= y
    <3>1. alarms \in SUBSET Nat BY <1>3, <1>6
    <3> QED BY <1>8, <3>1, MinOfNaturals
  <2>2. D = <<d>> BY <1>5, <1>8 DEF D
  <2> HIDE DEF m
  <2>3. m \in Nat /\ a <= m /\ m <= b BY <1>3, <1>6, <2>1
  <2>4. d \in Nat /\ a + d - 1 = m - 1 BY <1>6, <2>3
  <2>5. a .. m - 1 \subseteq missed \cap (a .. b)
    <3> SUFFICES ASSUME NEW i \in a .. m - 1 PROVE i \in missed \cap (a .. b) OBVIOUS
    <3>1. i \in a .. b /\ i \in 1 .. n /\ ~ (m <= i) BY <1>1, <1>6, <2>3
    <3>2. truth[i] /\ ~ verdict[i] BY <1>2, <1>3, <2>1, <3>1
    <3> QED BY <1>4, <3>1, <3>2
  <2>6. missed = {} => d = 0
    <3> SUFFICES ASSUME missed = {} PROVE d = 0 OBVIOUS
    <3>1. a .. m - 1 = {} BY <2>5
    <3> QED BY <1>6, <2>3, <3>1
  <2> HIDE DEF d
  <2>7. D \in Seq(Nat) BY <2>2, <2>4
  <2>8. a .. a + d - 1 \subseteq missed \cap (a .. b) BY <2>4, <2>5
  <2> QED BY <2>2, <2>4, <2>6, <2>7, <2>8 DEF D, missed, a, b
<1> QED BY <1>7, <1>8

LEMMA DisjointUnion ==
  ASSUME NEW S, IsFiniteSet(S), NEW T, IsFiniteSet(T), S \cap T = {}
  PROVE  IsFiniteSet(S \cup T) /\ Cardinality(S \cup T) = Cardinality(S) + Cardinality(T)
<1>1. Cardinality(S \cap T) = 0 BY FS_EmptySet
<1>2. IsFiniteSet(S \cup T)
      /\ Cardinality(S \cup T) = Cardinality(S) + Cardinality(T) - Cardinality(S \cap T)
  BY FS_Union
<1>3. Cardinality(S) \in Nat /\ Cardinality(T) \in Nat BY FS_CardinalityType
<1> QED BY <1>1, <1>2, <1>3

(* The records that a verdict lost, before the first alarm of an episode   *)
(* or in one without, are different false negatives.                       *)
LostRecordsCounted(truth, verdict, found) ==
  LET delays     == DelaysSteps(found, verdict)
      undetected == {e \in ToSet(found) : DelaysOf(e, verdict) = <<>>}
      missed     == FalseNegatives(truth, verdict)
  IN  /\ Total(delays)
           + Cardinality(UNION {e[1] .. e[2] : e \in undetected})
             <= Cardinality(missed)
      /\ missed = {} => delays = [k \in DOMAIN found |-> 0]

(* It is so of every list of disjoint episodes, in order.                  *)
LEMMA DelaysAmongMissed ==
  ASSUME NEW truth \in Seq(BOOLEAN), NEW verdict \in Seq(BOOLEAN),
         Len(verdict) = Len(truth), NEW found \in Seq(Nat \X Nat),
         \A j \in DOMAIN found : MaximalRun(truth, found[j]),
         \A i, j \in DOMAIN found : i < j => found[i][2] < found[j][1]
  PROVE  LostRecordsCounted(truth, verdict, found)
<1> DEFINE N == Len(found)
           n == Len(truth)
           missed == FalseNegatives(truth, verdict)
           D(k) == DelaysOf(found[k], verdict)
           seqs == [k \in DOMAIN found |-> D(k)]
           R(k) == found[k][1] .. found[k][2]
           U(k) == UNION {R(j) : j \in {i \in 1 .. k : D(i) = <<>>}}
           M(k) == missed \cap UNION {R(j) : j \in 1 .. k}
<1>1. /\ N \in Nat /\ DOMAIN found = 1 .. N /\ n \in Nat /\ DOMAIN truth = 1 .. n
      /\ \A j \in 1 .. N : found[j][1] \in Nat /\ found[j][2] \in Nat
  <2>1. N \in Nat /\ DOMAIN found = 1 .. N /\ n \in Nat /\ DOMAIN truth = 1 .. n OBVIOUS
  <2>2. \A j \in DOMAIN found : found[j] \in Nat \X Nat OBVIOUS
  <2> HIDE DEF N, n
  <2> QED BY <2>1, <2>2
<1>2. IsFiniteSet(missed) /\ missed \subseteq 1 .. n
  <2>1. missed \in SUBSET (1 .. n) BY <1>1 DEF FalseNegatives
  <2>2. 1 \in Int /\ n \in Int BY <1>1
  <2> HIDE DEF n, missed
  <2>3. IsFiniteSet(1 .. n) BY <2>2, FS_Interval
  <2> QED BY <2>1, <2>3, FS_Subset
<1>3. \A k \in 1 .. N :
        /\ D(k) \in Seq(Nat)
        /\ \/ D(k) = <<>> /\ R(k) \subseteq missed
           \/ \E d \in Nat : /\ D(k) = <<d>>
                             /\ found[k][1] .. found[k][1] + d - 1 \subseteq missed \cap R(k)
        /\ missed = {} => D(k) = <<0>>
  <2> TAKE k \in 1 .. N
  <2>1. MaximalRun(truth, found[k]) BY <1>1
  <2> QED BY <2>1, EpisodeDelay
<1>4. seqs \in Seq(Seq(Nat)) /\ Len(seqs) = N
  <2>1. \A k \in 1 .. N : D(k) \in Seq(Nat) BY <1>3
  <2> HIDE DEF D
  <2> QED BY <1>1, <2>1
<1>5. PICK f \in [0 .. N -> Seq(Nat)] :
        /\ f[0] = <<>>
        /\ \A k \in 1 .. N : f[k] = f[k - 1] \o seqs[k]
        /\ FlattenSeq(seqs) = f[N]
  <2> HIDE DEF seqs, N
  <2> QED BY <1>4, FlattenParts
<1>6. \A k \in 1 .. N : f[k] = f[k - 1] \o D(k)
  <2> HIDE DEF D
  <2> QED BY <1>1, <1>5
<1>7. DelaysSteps(found, verdict) = f[N] BY <1>5 DEF DelaysSteps
<1>8. UNION {e[1] .. e[2] : e \in {e \in ToSet(found) : DelaysOf(e, verdict) = <<>>}}
        = U(N)
  BY <1>1 DEF ToSet
<1>9. \A k \in 1 .. N : \A j \in 1 .. k - 1 : R(j) \cap R(k) = {}
  <2> TAKE k \in 1 .. N
  <2> TAKE j \in 1 .. k - 1
  <2>1. j \in 1 .. N /\ j < k BY <1>1
  <2> DEFINE a == found[j][1]
             b == found[j][2]
             c == found[k][1]
             d == found[k][2]
  <2>2. b < c /\ a \in Nat /\ b \in Nat /\ c \in Nat /\ d \in Nat BY <1>1, <2>1
  <2> HIDE DEF a, b, c, d
  <2>3. (a .. b) \cap (c .. d) = {} BY <2>2
  <2> QED BY <2>3 DEF a, b, c, d
<1>10. \A k \in 1 .. N : k \in Nat /\ k - 1 \in 0 .. N /\ 1 .. k = (1 .. k - 1) \cup {k}
  BY <1>1
<1>11. \A k \in 1 .. N :
         IsFiniteSet(R(k)) /\ \A d \in Nat :
           /\ IsFiniteSet(found[k][1] .. found[k][1] + d - 1)
           /\ Cardinality(found[k][1] .. found[k][1] + d - 1) = d
  <2> TAKE k \in 1 .. N
  <2> DEFINE a == found[k][1]
             b == found[k][2]
  <2>1. a \in Int /\ b \in Int BY <1>1
  <2> HIDE DEF a, b
  <2>2. IsFiniteSet(a .. b) BY <2>1, FS_Interval
  <2>3. ASSUME NEW d \in Nat
        PROVE  IsFiniteSet(a .. a + d - 1) /\ Cardinality(a .. a + d - 1) = d
    <3> DEFINE c == a + d - 1
    <3>1. c \in Int /\ c - a + 1 = d /\ (a > c => d = 0) BY <2>1
    <3> HIDE DEF c
    <3>2. IsFiniteSet(a .. c) /\ Cardinality(a .. c) = IF a > c THEN 0 ELSE c - a + 1
      BY <2>1, <3>1, FS_Interval
    <3> QED BY <3>1, <3>2 DEF c
  <2> QED BY <2>2, <2>3 DEF a, b
<1>12. ASSUME NEW k \in 1 .. N
       PROVE  /\ (U(k - 1) \cup M(k - 1)) \cap R(k) = {}
              /\ M(k - 1) \cup (missed \cap R(k)) = M(k)
              /\ U(k) = IF D(k) = <<>> THEN U(k - 1) \cup R(k) ELSE U(k - 1)
  <2> HIDE DEF D, missed
  <2>1. \A j \in 1 .. k - 1 : R(j) \cap R(k) = {} BY <1>9
  <2>2. 1 .. k = (1 .. k - 1) \cup {k} BY <1>10
  <2> HIDE DEF R
  <2>3. (U(k - 1) \cup M(k - 1)) \cap R(k) = {} BY <2>1
  <2>4. M(k - 1) \cup (missed \cap R(k)) = M(k) BY <2>2
  <2>5. U(k) = IF D(k) = <<>> THEN U(k - 1) \cup R(k) ELSE U(k - 1) BY <2>2
  <2> QED BY <2>3, <2>4, <2>5
<1>13. \A k \in 0 .. N : U(k) \subseteq missed /\ M(k) \subseteq missed
  <2>1. \A k \in 0 .. N : \A i \in 1 .. k : i \in 1 .. N BY <1>1
  <2>2. \A i \in 1 .. N : D(i) = <<>> => R(i) \subseteq missed
    <3> TAKE i \in 1 .. N
    <3>1. \A d : <<d>> # <<>> OBVIOUS
    <3> HIDE DEF D, missed, R
    <3> QED BY <1>3, <3>1
  <2> HIDE DEF D, missed, R
  <2> QED BY <2>1, <2>2
<1>14. \A S \in SUBSET missed : IsFiniteSet(S) /\ Cardinality(S) \in Nat
                               /\ Cardinality(S) <= Cardinality(missed)
  <2> HIDE DEF missed
  <2> QED BY <1>2, FS_Subset, FS_CardinalityType
<1>15. \A k \in 0 .. N : Total(f[k]) \in Int
  <2>1. \A s \in Seq(Nat) : s \in Seq(Int) OBVIOUS
  <2>2. 0 \in Int OBVIOUS
  <2>3. \A s \in Seq(Int) : Total(s) \in Int BY <2>2, TotalAppended
  <2> QED BY <1>5, <2>1, <2>3
<1> DEFINE Fits(k) == Total(f[k]) + Cardinality(U(k)) <= Cardinality(M(k))
           Zero(k) == missed = {} => f[k] = [j \in 1 .. k |-> 0]
<1>16. Fits(0) /\ Zero(0)
  <2>1. U(0) = {} /\ M(0) = {} OBVIOUS
  <2>2. f[0] = [j \in 1 .. 0 |-> 0] BY <1>5
  <2> HIDE DEF U, M
  <2>3. Fits(0) BY <1>5, <2>1, TotalEmpty, FS_EmptySet
  <2> QED BY <2>2, <2>3
<1>17. ASSUME NEW k \in 1 .. N, Fits(k - 1) PROVE Fits(k)
  <2>1. k - 1 \in 0 .. N BY <1>10
  <2>2. f[k - 1] \in Seq(Nat) /\ f[k - 1] \in Seq(Int)
    <3>1. f[k - 1] \in Seq(Nat) BY <1>5, <2>1
    <3>2. \A s \in Seq(Nat) : s \in Seq(Int) OBVIOUS
    <3> QED BY <3>1, <3>2
  <2>3. f[k] = f[k - 1] \o D(k) BY <1>6
  <2>4. /\ U(k - 1) \in SUBSET missed /\ M(k - 1) \in SUBSET missed
        /\ M(k) \in SUBSET missed
    BY <1>1, <1>13, <2>1
  <2>5. /\ IsFiniteSet(U(k - 1)) /\ Cardinality(U(k - 1)) \in Nat
        /\ IsFiniteSet(M(k - 1)) /\ Cardinality(M(k - 1)) \in Nat
        /\ IsFiniteSet(M(k)) /\ Cardinality(M(k)) \in Nat
    <3> HIDE DEF U, M, missed
    <3> QED BY <1>14, <2>4
  <2>6. Total(f[k - 1]) \in Int BY <1>15, <2>1
  <2>7. /\ U(k - 1) \cap R(k) = {} /\ M(k - 1) \cap R(k) = {}
        /\ M(k - 1) \cup (missed \cap R(k)) = M(k)
        /\ U(k) = IF D(k) = <<>> THEN U(k - 1) \cup R(k) ELSE U(k - 1)
    <3> HIDE DEF U, M, missed, D, R
    <3> QED BY <1>12
  <2>8. IsFiniteSet(R(k)) BY <1>11
  <2>9. CASE D(k) = <<>> /\ R(k) \subseteq missed
    <3>1. f[k] = f[k - 1]
      <4>1. \A s \in Seq(Nat) : s \o <<>> = s OBVIOUS
      <4> QED BY <2>2, <2>3, <2>9, <4>1
    <3> DEFINE u == U(k - 1)
               m == M(k - 1)
               r == R(k)
    <3>2. U(k) = u \cup r /\ M(k) = m \cup r /\ u \cap r = {} /\ m \cap r = {}
      BY <2>7, <2>9
    <3>3. /\ IsFiniteSet(u) /\ IsFiniteSet(m) /\ IsFiniteSet(r)
          /\ Cardinality(u) \in Nat /\ Cardinality(m) \in Nat
      BY <2>5, <2>8
    <3>4. Total(f[k - 1]) + Cardinality(u) <= Cardinality(m) BY <1>17
    <3> HIDE DEF u, m, r, U, M
    <3>5. /\ Cardinality(U(k)) = Cardinality(u) + Cardinality(r)
          /\ Cardinality(M(k)) = Cardinality(m) + Cardinality(r)
          /\ Cardinality(r) \in Nat
      BY <3>2, <3>3, DisjointUnion, FS_CardinalityType
    <3> QED BY <2>6, <3>1, <3>3, <3>4, <3>5
  <2>10. ASSUME NEW d \in Nat, D(k) = <<d>>,
                found[k][1] .. found[k][1] + d - 1 \subseteq missed \cap R(k)
         PROVE  Fits(k)
    <3> DEFINE u == U(k - 1)
               m == M(k - 1)
               x == found[k][1] .. found[k][1] + d - 1
    <3>1. Total(f[k]) = Total(f[k - 1]) + d
      <4>1. f[k] = f[k - 1] \o <<d>> BY <2>3, <2>10
      <4> QED BY <2>2, <4>1, TotalAppended
    <3>2. D(k) # <<>> BY <2>10
    <3>3. U(k) = u BY <2>7, <3>2
    <3>4. m \cup x \in SUBSET M(k) /\ m \cap x = {}
      <4> HIDE DEF M, R, missed
      <4> QED BY <2>7, <2>10
    <3>5. IsFiniteSet(x) /\ Cardinality(x) = d BY <1>11
    <3>6. IsFiniteSet(m) /\ Cardinality(m) \in Nat /\ Cardinality(u) \in Nat BY <2>5
    <3>7. Total(f[k - 1]) + Cardinality(u) <= Cardinality(m) BY <1>17
    <3> HIDE DEF u, m, x, U, M
    <3>8. Cardinality(m \cup x) = Cardinality(m) + d BY <3>4, <3>5, <3>6, DisjointUnion
    <3>9. Cardinality(m \cup x) <= Cardinality(M(k)) BY <2>5, <3>4, FS_Subset
    <3> DEFINE before == Total(f[k - 1])
               lost   == Cardinality(u)
               cost   == Cardinality(m)
               all    == Cardinality(M(k))
    <3>10. /\ before \in Int /\ lost \in Nat /\ cost \in Nat /\ all \in Nat
           /\ before + lost <= cost /\ cost + d <= all
      BY <2>5, <2>6, <3>6, <3>7, <3>8, <3>9
    <3> HIDE DEF before, lost, cost, all
    <3>11. before + d + lost <= all BY <3>10
    <3> QED BY <3>1, <3>3, <3>11 DEF before, lost, all
  <2> HIDE DEF Fits, D, R, missed
  <2> QED BY <1>3, <2>9, <2>10
<1>18. ASSUME NEW k \in 1 .. N, Zero(k - 1) PROVE Zero(k)
  <2> SUFFICES ASSUME missed = {} PROVE f[k] = [j \in 1 .. k |-> 0] OBVIOUS
  <2>1. f[k - 1] = [j \in 1 .. k - 1 |-> 0] BY <1>18
  <2>2. D(k) = <<0>> BY <1>3
  <2>3. f[k] = f[k - 1] \o <<0>> BY <1>6, <2>2
  <2>4. k \in Nat /\ k - 1 \in Nat BY <1>10
  <2> QED BY <2>1, <2>3, <2>4
<1> HIDE DEF Fits, Zero, N
<1> DEFINE Bad == {k \in Nat : k <= N /\ ~ (Fits(k) /\ Zero(k))}
<1>19. Bad = {}
  <2> SUFFICES ASSUME Bad # {} PROVE FALSE OBVIOUS
  <2>1. PICK k \in Bad : \A y \in Bad : k <= y
    <3>1. Bad \in SUBSET Nat OBVIOUS
    <3> HIDE DEF Bad
    <3> QED BY <3>1, LeastNatural
  <2>2. k \in Nat /\ k <= N /\ ~ (Fits(k) /\ Zero(k)) OBVIOUS
  <2>3. k # 0 BY <1>16, <2>2
  <2>4. k \in 1 .. N /\ k - 1 \in Nat /\ k - 1 <= N /\ ~ (k <= k - 1)
    BY <1>1, <2>2, <2>3
  <2>5. k - 1 \notin Bad BY <2>1, <2>4
  <2> QED BY <1>17, <1>18, <2>2, <2>4, <2>5
<1>20. Fits(N) /\ Zero(N)
  <2> SUFFICES ASSUME ~ (Fits(N) /\ Zero(N)) PROVE N \in Bad BY <1>19
  <2> QED BY <1>1
<1>21. M(N) \in SUBSET missed /\ N \in 0 .. N BY <1>1, <1>13
<1>22. Cardinality(M(N)) <= Cardinality(missed) /\ Cardinality(M(N)) \in Nat
       /\ Cardinality(missed) \in Nat
  <2>1. missed \in SUBSET missed OBVIOUS
  <2> HIDE DEF M, missed
  <2> QED BY <1>14, <1>21, <2>1
<1>23. Cardinality(U(N)) \in Nat
  <2> HIDE DEF missed, U
  <2> QED BY <1>13, <1>14, <1>21
<1>24. Total(f[N]) + Cardinality(U(N)) <= Cardinality(missed)
  <2>1. Total(f[N]) + Cardinality(U(N)) <= Cardinality(M(N)) BY <1>20 DEF Fits
  <2> DEFINE t == Total(f[N])
             u == Cardinality(U(N))
             m == Cardinality(M(N))
             a == Cardinality(missed)
  <2>2. t \in Int /\ u \in Nat /\ m \in Nat /\ a \in Nat /\ t + u <= m /\ m <= a
    <3> HIDE DEF M, U, missed
    <3> QED BY <1>15, <1>21, <1>22, <1>23, <2>1
  <2> HIDE DEF t, u, m, a
  <2>3. t + u <= a BY <2>2
  <2> QED BY <2>3 DEF t, u, a
<1>25. missed = {} => f[N] = [j \in DOMAIN found |-> 0] BY <1>1, <1>20 DEF Zero
<1> HIDE DEF U, missed
<1> QED BY <1>7, <1>8, <1>24, <1>25 DEF LostRecordsCounted, missed

(* For every stream: the report of a trial agrees with itself.  The        *)
(* episodes are the maximal runs of attack records; they are disjoint, so  *)
(* that the records lost before a first alarm or in an undetected episode  *)
(* are as many false negatives of the confusion matrix.                    *)
THEOREM MetricsAlwaysAgree == HSpec \/ CampaignSpec => []MetricsAgree
<1>1. IInv /\ TrialInv => MetricsAgree
  <2> DEFINE found == FindFaultEpisodes(yTrue)
  <2> SUFFICES ASSUME TrialInv PROVE MetricsAgree OBVIOUS
  <2>1. yTrue \in Seq(BOOLEAN) /\ yPred \in Seq(BOOLEAN) /\ Len(yPred) = Len(yTrue)
    BY DEF TrialInv, ScoreInv, ScoresAligned
  <2>2. /\ found \in Seq(Nat \X Nat)
        /\ \A x : (\E j \in DOMAIN found : found[j] = x) <=> MaximalRun(yTrue, x)
        /\ \A i, j \in DOMAIN found : i < j => found[i][2] < found[j][1]
    BY <2>1, EpisodesFound
  <2> HIDE DEF found
  <2>3. ToSet(found) = {e \in (DOMAIN yTrue) \X (DOMAIN yTrue) : MaximalRun(yTrue, e)}
    <3>1. ToSet(found) = {found[j] : j \in DOMAIN found} BY DEF ToSet
    <3>2. \A x : MaximalRun(yTrue, x) => x \in (DOMAIN yTrue) \X (DOMAIN yTrue)
      BY DEF MaximalRun
    <3> QED BY <2>2, <3>1, <3>2
  <2>4. EpisodesExact
    <3>1. {e \in (DOMAIN yTrue) \X (DOMAIN yTrue) : MaximalRun(yTrue, e)}
            = {e \in (DOMAIN yTrue) \X (DOMAIN yTrue) :
                 /\ e[1] <= e[2]
                 /\ \A i \in e[1] .. e[2] : yTrue[i]
                 /\ e[1] = 1 \/ ~ yTrue[e[1] - 1]
                 /\ e[2] = Len(yTrue) \/ ~ yTrue[e[2] + 1]}
      BY Zenon DEF MaximalRun
    <3> QED BY <2>2, <2>3, <3>1 DEF EpisodesExact, found
  <2> DEFINE delays == DelaysSteps(found, yPred)
  <2>5. LostRecordsCounted(yTrue, yPred, found)
    <3>1. \A j \in DOMAIN found : MaximalRun(yTrue, found[j]) BY <2>2
    <3> QED BY <2>1, <2>2, <3>1, DelaysAmongMissed
  <2>6. FoldLeft(+, 0, delays) = Total(delays) BY Zenon DEF Total
  <2> QED BY <2>4, <2>5, <2>6, Zenon DEF MetricsAgree, LostRecordsCounted, found
<1> QED BY <1>1, Invariant, PTL

(* The lists of the full runner: the attacks of the evaluated records and  *)
(* those among them that were detected, before record q.  A detection is   *)
(* never paired with a later attack, and every one with its own exactly if *)
(* no attack was missed before it.                                         *)
Paired(o, t, q, none, before) ==
  /\ o \in Seq(Nat) /\ t \in Seq(Nat) /\ Len(o) <= q
  /\ \A k \in DOMAIN o : o[k] < q
  /\ Len(t) <= Len(o)
  /\ Len(t) = Len(o) <=> none
  /\ \A k \in DOMAIN t : o[k] <= t[k]
  /\ (\A k \in DOMAIN t : o[k] = t[k]) <=> before

NoneMissedBefore ==
  \A m, d \in DOMAIN yTrue : m \in Unmitigated /\ yTrue[d] /\ yPred[d] => d < m

PairInv ==
  /\ Paired(onsetTimes, detectTimes, position, Unmitigated = {}, NoneMissedBefore)
  /\ onsetTimes = <<>> <=> \A i \in DOMAIN yTrue : ~ yTrue[i]

LEMMA OneTimeMore ==
  ASSUME NEW s \in Seq(Nat), NEW x \in Nat
  PROVE  /\ Len(s) \in Nat /\ DOMAIN s = 1 .. Len(s)
         /\ Append(s, x) \in Seq(Nat) /\ Len(Append(s, x)) = Len(s) + 1
         /\ DOMAIN Append(s, x) = 1 .. Len(s) + 1
         /\ Append(s, x)[Len(s) + 1] = x
         /\ \A k \in 1 .. Len(s) : Append(s, x)[k] = s[k] /\ s[k] \in Nat
OBVIOUS

(* A record without an attack, one whose attack is missed, and one whose   *)
(* attack is detected.                                                     *)
LEMMA PairedNormal ==
  ASSUME NEW o, NEW t, NEW q \in Nat, NEW none \in BOOLEAN, NEW before \in BOOLEAN,
         Paired(o, t, q, none, before)
  PROVE  Paired(o, t, q + 1, none, before)
<1>1. Len(o) \in Nat /\ Len(o) <= q /\ \A k \in DOMAIN o : o[k] \in Nat /\ o[k] < q
  BY DEF Paired
<1>2. Len(o) <= q + 1 /\ \A k \in DOMAIN o : o[k] < q + 1 BY <1>1
<1> QED BY <1>2 DEF Paired

LEMMA PairedMissed ==
  ASSUME NEW o, NEW t, NEW q \in Nat, NEW none \in BOOLEAN, NEW before \in BOOLEAN,
         Paired(o, t, q, none, before)
  PROVE  Paired(Append(o, q), t, q + 1, FALSE, before)
<1> DEFINE p == Append(o, q)
           n == Len(o)
           l == Len(t)
<1>1. /\ o \in Seq(Nat) /\ t \in Seq(Nat) /\ n <= q /\ l <= n
      /\ \A k \in DOMAIN o : o[k] < q
      /\ \A k \in DOMAIN t : o[k] <= t[k]
      /\ (\A k \in DOMAIN t : o[k] = t[k]) <=> before
  BY DEF Paired
<1>2. /\ n \in Nat /\ l \in Nat /\ DOMAIN t = 1 .. l /\ DOMAIN o = 1 .. n
      /\ p \in Seq(Nat) /\ Len(p) = n + 1 /\ DOMAIN p = 1 .. n + 1
      /\ p[n + 1] = q /\ \A k \in 1 .. n : p[k] = o[k] /\ o[k] \in Nat
  BY <1>1, OneTimeMore
<1> HIDE DEF p, n, l
<1>3. Len(p) <= q + 1 /\ l <= Len(p) /\ l # Len(p) BY <1>1, <1>2
<1>4. ASSUME NEW k \in DOMAIN p PROVE p[k] < q + 1
  <2>1. CASE k = n + 1 BY <1>2, <2>1
  <2>2. CASE k # n + 1
    <3>1. k \in 1 .. n BY <1>2, <2>2
    <3>2. p[k] = o[k] /\ o[k] \in Nat /\ o[k] < q BY <1>1, <1>2, <3>1
    <3> QED BY <3>2
  <2> QED BY <2>1, <2>2
<1>5. \A k \in DOMAIN t : p[k] = o[k]
  <2>1. \A k \in 1 .. l : k \in 1 .. n BY <1>1, <1>2
  <2> QED BY <1>2, <2>1
<1>6. \A k \in DOMAIN t : p[k] <= t[k] BY <1>1, <1>5
<1>7. (\A k \in DOMAIN t : p[k] = t[k]) <=> before BY <1>1, <1>5
<1>8. ~ (Len(t) = Len(p)) /\ Len(t) <= Len(p) BY <1>3 DEF l
<1> QED BY <1>1, <1>2, <1>3, <1>4, <1>6, <1>7, <1>8 DEF Paired, p

LEMMA PairedDetected ==
  ASSUME NEW o, NEW t, NEW q \in Nat, NEW none \in BOOLEAN, NEW before \in BOOLEAN,
         Paired(o, t, q, none, before), none => before
  PROVE  Paired(Append(o, q), Append(t, q), q + 1, none, none)
<1> DEFINE p == Append(o, q)
           r == Append(t, q)
           n == Len(o)
           l == Len(t)
           exact == \A k \in DOMAIN t : o[k] = t[k]
<1>1. /\ o \in Seq(Nat) /\ t \in Seq(Nat) /\ n <= q /\ l <= n
      /\ \A k \in DOMAIN o : o[k] < q
      /\ \A k \in DOMAIN t : o[k] <= t[k]
      /\ l = n <=> none
      /\ exact <=> before
  BY DEF Paired
<1>2. /\ n \in Nat /\ DOMAIN o = 1 .. n
      /\ p \in Seq(Nat) /\ Len(p) = n + 1 /\ DOMAIN p = 1 .. n + 1
      /\ p[n + 1] = q /\ \A k \in 1 .. n : p[k] = o[k] /\ o[k] \in Nat
  BY <1>1, OneTimeMore
<1>3. /\ l \in Nat /\ DOMAIN t = 1 .. l
      /\ r \in Seq(Nat) /\ Len(r) = l + 1 /\ DOMAIN r = 1 .. l + 1
      /\ r[l + 1] = q /\ \A k \in 1 .. l : r[k] = t[k] /\ t[k] \in Nat
  BY <1>1, OneTimeMore
<1> HIDE DEF p, r, n, l
<1>4. Len(p) <= q + 1 /\ Len(r) <= Len(p) /\ (Len(r) = Len(p) <=> none)
  BY <1>1, <1>2, <1>3
<1>5. ASSUME NEW k \in DOMAIN p PROVE p[k] < q + 1
  <2>1. CASE k = n + 1 BY <1>2, <2>1
  <2>2. CASE k # n + 1
    <3>1. k \in 1 .. n BY <1>2, <2>2
    <3>2. p[k] = o[k] /\ o[k] \in Nat /\ o[k] < q BY <1>1, <1>2, <3>1
    <3> QED BY <3>2
  <2> QED BY <2>1, <2>2
<1>6. p[l + 1] <= q /\ (p[l + 1] = q <=> l = n)
  <2>1. CASE l = n BY <1>2, <2>1
  <2>2. CASE l # n
    <3>1. l + 1 \in 1 .. n BY <1>1, <1>2, <1>3, <2>2
    <3>2. p[l + 1] = o[l + 1] /\ o[l + 1] \in Nat /\ o[l + 1] < q BY <1>1, <1>2, <3>1
    <3> QED BY <2>2, <3>2
  <2> QED BY <2>1, <2>2
<1>7. \A k \in 1 .. l : p[k] = o[k] /\ r[k] = t[k]
  <2>1. \A k \in 1 .. l : k \in 1 .. n BY <1>1, <1>2, <1>3
  <2> QED BY <1>2, <1>3, <2>1
<1>8. \A k : k \in DOMAIN r <=> k \in 1 .. l \/ k = l + 1 BY <1>3
<1>9. \A k \in DOMAIN r : p[k] <= r[k] BY <1>1, <1>3, <1>6, <1>7, <1>8
<1>10. (\A k \in DOMAIN r : p[k] = r[k]) <=> exact /\ l = n
  BY <1>3, <1>6, <1>7, <1>8
<1> HIDE DEF exact
<1>11. (\A k \in DOMAIN r : p[k] = r[k]) <=> none BY <1>1, <1>10
<1> QED BY <1>2, <1>3, <1>4, <1>5, <1>9, <1>11 DEF Paired, p, r

(* One evaluated record more.                                              *)
LEMMA PairScored ==
  ASSUME PairInv, yTrue \in Seq(BOOLEAN), yPred \in Seq(BOOLEAN),
         Len(yPred) = Len(yTrue), position \in Nat,
         NEW fault \in BOOLEAN, NEW alarm \in BOOLEAN,
         position' = position + 1,
         yTrue' = Append(yTrue, fault), yPred' = Append(yPred, alarm),
         onsetTimes' = Noted(onsetTimes, position, fault),
         detectTimes' = Noted(detectTimes, position, fault /\ alarm)
  PROVE  PairInv'
<1> DEFINE n == Len(yTrue)
           U == Unmitigated
           W == Unmitigated'
           none == U = {}
           before == NoneMissedBefore
<1>1. /\ n \in Nat /\ DOMAIN yTrue = 1 .. n /\ DOMAIN yTrue' = 1 .. n + 1
      /\ yTrue'[n + 1] = fault /\ yPred'[n + 1] = alarm
      /\ \A i \in 1 .. n : yTrue'[i] = yTrue[i] /\ yPred'[i] = yPred[i]
      /\ \A i \in 1 .. n : yTrue[i] \in BOOLEAN /\ yPred[i] \in BOOLEAN
  OBVIOUS
<1>4. U = {i \in 1 .. n : yTrue[i] /\ ~ yPred[i]}
      /\ W = {i \in 1 .. n + 1 : yTrue'[i] /\ ~ yPred'[i]}
  BY <1>1 DEF Unmitigated
<1>5. W = IF fault /\ ~ alarm THEN U \cup {n + 1} ELSE U
  <2>1. \A i : i \in 1 .. n + 1 <=> i \in 1 .. n \/ i = n + 1 BY <1>1
  <2>2. n + 1 \notin 1 .. n BY <1>1
  <2> QED BY <1>1, <1>4, <2>1, <2>2
<1>6. NoneMissedBefore' <=> \A m, d \in 1 .. n + 1 : m \in W /\ yTrue'[d] /\ yPred'[d] => d < m
  BY <1>1 DEF NoneMissedBefore
<1>7. before <=> \A m, d \in 1 .. n : m \in U /\ yTrue[d] /\ yPred[d] => d < m
  BY <1>1 DEF NoneMissedBefore
<1> HIDE DEF before
<1>8. NoneMissedBefore' <=> IF fault /\ alarm THEN U = {} ELSE before
  <2>1. U \subseteq 1 .. n BY <1>4
  <2>2. /\ n + 1 \in 1 .. n + 1 /\ \A i \in 1 .. n : i \in 1 .. n + 1 /\ i < n + 1 /\ ~ (n + 1 < i)
        /\ \A i \in 1 .. n + 1 : i \in 1 .. n \/ i = n + 1
    BY <1>1
  <2> HIDE DEF U, W, n
  <2>3. CASE fault /\ alarm
    <3>1. W = U BY <1>5, <2>3
    <3>2. NoneMissedBefore' => U = {}
      <4> SUFFICES ASSUME NoneMissedBefore', NEW m \in U PROVE FALSE OBVIOUS
      <4>1. m \in 1 .. n + 1 /\ ~ (n + 1 < m) BY <2>1, <2>2
      <4>2. yTrue'[n + 1] /\ yPred'[n + 1] BY <1>1, <2>3
      <4> QED BY <1>6, <2>2, <3>1, <4>1, <4>2
    <3>3. U = {} => NoneMissedBefore' BY <1>6, <3>1
    <3> QED BY <2>3, <3>2, <3>3
  <2>4. CASE ~ (fault /\ alarm)
    <3>1. ~ (yTrue'[n + 1] /\ yPred'[n + 1]) BY <1>1, <2>4
    <3>2. U \subseteq W /\ \A m \in W : m \in U \/ m = n + 1 BY <1>5
    <3>3. ASSUME NoneMissedBefore' PROVE before
      BY <1>1, <1>6, <1>7, <2>2, <3>2, <3>3
    <3>4. ASSUME before PROVE NoneMissedBefore'
      <4> SUFFICES ASSUME NEW m \in 1 .. n + 1, NEW d \in 1 .. n + 1,
                          m \in W, yTrue'[d], yPred'[d]
                   PROVE  d < m
        BY <1>6
      <4>1. d \in 1 .. n /\ yTrue[d] /\ yPred[d] BY <1>1, <2>2, <3>1
      <4>2. CASE m = n + 1 BY <2>2, <4>1, <4>2
      <4>3. CASE m # n + 1
        <5>1. m \in U /\ m \in 1 .. n BY <2>1, <3>2, <4>3
        <5> QED BY <1>7, <3>4, <4>1, <5>1
      <4> QED BY <4>2, <4>3
    <3> QED BY <2>4, <3>3, <3>4
  <2> QED BY <2>3, <2>4
<1>9. (\A i \in DOMAIN yTrue' : ~ yTrue'[i])
        <=> ~ fault /\ \A i \in DOMAIN yTrue : ~ yTrue[i]
  <2>1. /\ n + 1 \in 1 .. n + 1 /\ \A i \in 1 .. n : i \in 1 .. n + 1
        /\ \A i \in 1 .. n + 1 : i \in 1 .. n \/ i = n + 1
    BY <1>1
  <2> HIDE DEF n
  <2> QED BY <1>1, <2>1
<1>10. none => before BY <1>7
<1> HIDE DEF U, W, n, none
<1>11. /\ Paired(onsetTimes, detectTimes, position, none, before)
       /\ none \in BOOLEAN /\ before \in BOOLEAN
       /\ onsetTimes \in Seq(Nat)
  BY Zenon DEF PairInv, Paired, none, before, U, NoneMissedBefore
<1>12. CASE ~ fault
  <2>1. onsetTimes' = onsetTimes /\ detectTimes' = detectTimes /\ W = U
    BY <1>5, <1>12 DEF Noted
  <2>2. Paired(onsetTimes', detectTimes', position', none, before)
    BY <1>11, <2>1, PairedNormal
  <2>3. (NoneMissedBefore' <=> before) /\ (W = {} <=> none)
    BY <1>8, <1>12, <2>1 DEF none
  <2>4. Paired(onsetTimes', detectTimes', position', W = {}, NoneMissedBefore')
    BY <2>2, <2>3 DEF Paired
  <2>5. onsetTimes' = <<>> <=> \A i \in DOMAIN yTrue' : ~ yTrue'[i]
    BY <1>9, <1>12, <2>1 DEF PairInv
  <2> QED BY <2>4, <2>5 DEF PairInv, W
<1>13. CASE fault
  <2>1. onsetTimes' = Append(onsetTimes, position) BY <1>13 DEF Noted
  <2>2. onsetTimes' # <<>>
    <3>1. Len(onsetTimes') = Len(onsetTimes) + 1 /\ Len(onsetTimes) \in Nat
      BY <1>11, <2>1
    <3> QED BY <3>1
  <2>3. Paired(onsetTimes', detectTimes', position', W = {}, NoneMissedBefore')
    <3>1. CASE alarm
      <4>1. detectTimes' = Append(detectTimes, position) BY <1>13, <3>1 DEF Noted
      <4>2. Paired(onsetTimes', detectTimes', position', none, none)
        BY <1>10, <1>11, <2>1, <4>1, PairedDetected
      <4>3. (NoneMissedBefore' <=> none) /\ (W = {} <=> none)
        BY <1>5, <1>8, <1>13, <3>1 DEF none
      <4> QED BY <4>2, <4>3 DEF Paired
    <3>2. CASE ~ alarm
      <4>1. detectTimes' = detectTimes BY <3>2 DEF Noted
      <4>2. Paired(onsetTimes', detectTimes', position', FALSE, before)
        BY <1>11, <2>1, <4>1, PairedMissed
      <4>3. (NoneMissedBefore' <=> before) /\ W # {}
        BY <1>5, <1>8, <1>13, <3>2
      <4> QED BY <4>2, <4>3 DEF Paired
    <3> QED BY <3>1, <3>2
  <2> QED BY <1>9, <1>13, <2>2, <2>3 DEF PairInv, W
<1> QED BY <1>12, <1>13

(* Every step of a trial keeps the pairing.                                *)
LEMMA PairInitial == HInit => PairInv
<1> SUFFICES ASSUME HInit PROVE PairInv OBVIOUS
<1>1. onsetTimes = <<>> /\ detectTimes = <<>> /\ position = 0 /\ yTrue = <<>>
  BY DEF HInit, Init
<1>2. DOMAIN yTrue = {} BY <1>1
<1>3. Unmitigated = {} /\ NoneMissedBefore BY <1>2 DEF Unmitigated, NoneMissedBefore
<1>4. Paired(<<>>, <<>>, 0, TRUE, TRUE) BY DEF Paired
<1>5. Paired(onsetTimes, detectTimes, position, Unmitigated = {}, NoneMissedBefore)
  BY <1>1, <1>3, <1>4 DEF Paired
<1> QED BY <1>1, <1>2, <1>5 DEF PairInv

LEMMA PairKept == TrialInv /\ PairInv /\ [HNext]_hvars => PairInv'
<1> SUFFICES ASSUME TrialInv, PairInv, [HNext]_hvars PROVE PairInv'
  OBVIOUS
<1>1. /\ yTrue \in Seq(BOOLEAN) /\ yPred \in Seq(BOOLEAN) /\ Len(yPred) = Len(yTrue)
      /\ position \in Nat
  BY DEF TrialInv, ScoreInv, ScoresAligned
<1>2. CASE UNCHANGED <<yTrue, yPred, onsetTimes, detectTimes, position>>
  BY <1>2 DEF PairInv, NoneMissedBefore, Unmitigated
<1>3. ASSUME NEW fault \in BOOLEAN, NEW alarm \in BOOLEAN, NEW moved \in BOOLEAN,
             Process(fault, alarm, moved)
      PROVE  PairInv'
  <2>1. Score(fault, alarm, moved) BY <1>3, ProcessScores
  <2>2. CASE IsWarmup
    <3>1. /\ position' = position + 1
          /\ UNCHANGED <<yTrue, yPred, onsetTimes, detectTimes>>
      BY <2>1, <2>2 DEF Score, scoreVars
    <3>2. UNCHANGED <<Unmitigated, NoneMissedBefore>>
      BY <3>1 DEF Unmitigated, NoneMissedBefore
    <3> DEFINE none == Unmitigated = {}
               before == NoneMissedBefore
    <3>3. none \in BOOLEAN /\ before \in BOOLEAN BY DEF NoneMissedBefore
    <3>4. Paired(onsetTimes, detectTimes, position, none, before) BY DEF PairInv
    <3> HIDE DEF none, before
    <3>5. Paired(onsetTimes, detectTimes, position + 1, none, before)
      BY <1>1, <3>3, <3>4, PairedNormal
    <3>6. Paired(onsetTimes', detectTimes', position', none, before) BY <3>1, <3>5
    <3>7. (Unmitigated' = {} <=> none) /\ (NoneMissedBefore' <=> before)
      BY <3>2 DEF none, before
    <3>8. Paired(onsetTimes', detectTimes', position', Unmitigated' = {}, NoneMissedBefore')
      BY <3>6, <3>7 DEF Paired
    <3> QED BY <3>1, <3>8 DEF PairInv
  <2>3. CASE ~ IsWarmup
    <3>1. /\ position' = position + 1
          /\ yTrue' = Append(yTrue, fault) /\ yPred' = Append(yPred, alarm)
          /\ onsetTimes' = Noted(onsetTimes, position, fault)
          /\ detectTimes' = Noted(detectTimes, position, fault /\ alarm)
      BY <2>1, <2>3 DEF Score
    <3> QED BY <1>1, <3>1, PairScored
  <2> QED BY <2>2, <2>3
<1>4. CASE Start \/ Finish BY <1>2, <1>4 DEF Start, Finish, scoreVars
<1>5. CASE UNCHANGED hvars BY <1>2, <1>5 DEF hvars, vars, scoreVars
<1> QED BY <1>3, <1>4, <1>5 DEF HNext

(* inference_latencies_ms has an entry for each evaluated record.          *)
TimesInv == latencies \in Seq(Nat) /\ Len(latencies) = Len(yTrue)

LEMMA TimesInitial == HInit => TimesInv
BY DEF HInit, Init, TimesInv

LEMMA TimesKept == TrialInv /\ TimesInv /\ [HNext]_hvars => TimesInv'
<1> SUFFICES ASSUME TrialInv, TimesInv, [HNext]_hvars PROVE TimesInv'
  OBVIOUS
<1>1. yTrue \in Seq(BOOLEAN) BY DEF TrialInv, ScoreInv
<1>2. CASE UNCHANGED <<yTrue, latencies>> BY <1>2 DEF TimesInv
<1>3. ASSUME NEW fault \in BOOLEAN, NEW alarm \in BOOLEAN, NEW moved \in BOOLEAN,
             Process(fault, alarm, moved)
      PROVE  TimesInv'
  <2>1. Score(fault, alarm, moved) BY <1>3, ProcessScores
  <2>2. CASE IsWarmup BY <1>2, <2>1, <2>2 DEF Score, scoreVars
  <2>3. CASE ~ IsWarmup
    <3> position \in 0 .. MaxStream - 1 BY <2>1, TrialAssumption DEF Score, Delivers, TrialInv, HistoryTyped, ScoreInv
    <3>1. PICK took \in Inference[position] :
            yTrue' = Append(yTrue, fault) /\ latencies' = Append(latencies, took)
      BY <2>1, <2>3 DEF Score
    <3>2. took \in Nat BY TrialAssumption
    <3> QED BY <1>1, <3>1, <3>2 DEF TimesInv
  <2> QED BY <2>2, <2>3
<1>4. CASE Start \/ Finish BY <1>2, <1>4 DEF Start, Finish, scoreVars
<1>5. CASE UNCHANGED hvars BY <1>2, <1>5 DEF hvars, vars, scoreVars
<1> QED BY <1>3, <1>4, <1>5 DEF HNext

LEMMA PairInvariant == HSpec \/ CampaignSpec => [](TrialInv /\ PairInv /\ TimesInv)
<1>1. TrialInv /\ PairInv /\ TimesInv /\ [HNext]_hvars => PairInv' /\ TimesInv'
  BY PairKept, TimesKept
<1>2. HInit => PairInv /\ TimesInv BY PairInitial, TimesInitial
<1>3. HSpec => [](PairInv /\ TimesInv) BY <1>1, <1>2, Invariant, PTL DEF HSpec
<1>4. CampaignSpec => [](PairInv /\ TimesInv)
  BY <1>1, <1>2, Invariant, CampaignStep, PTL DEF CampaignSpec, CampaignInit
<1> QED BY <1>3, <1>4, Invariant, PTL

(* A list of lists of one element each is the list of the elements.        *)
LEMMA FlatSingles ==
  ASSUME NEW n \in Nat, NEW d \in [1 .. n -> Nat]
  PROVE  FlattenSeq([k \in 1 .. n |-> <<d[k]>>]) = d
<1> DEFINE g == [k \in 1 .. n |-> <<d[k]>>]
           part(k) == [i \in 1 .. k |-> d[i]]
           Bad == {k \in Nat : k <= n /\ Flat(g, k) # part(k)}
<1>1. g \in [1 .. n -> Seq(Nat)] /\ \A k \in 1 .. n : g[k] = <<d[k]>>
  <2>1. \A x \in Nat : <<x>> \in Seq(Nat) OBVIOUS
  <2>2. \A k \in 1 .. n : <<d[k]>> \in Seq(Nat) BY <2>1
  <2> QED BY <2>2
<1> HIDE DEF g
<1>2. /\ Flat(g, 0) = <<>>
      /\ \A k \in 1 .. n : Flat(g, k) = Flat(g, k - 1) \o <<d[k]>>
  BY <1>1, FlatStep
<1>3. Bad = {}
  <2> SUFFICES ASSUME Bad # {} PROVE FALSE OBVIOUS
  <2>1. PICK k \in Bad : \A y \in Bad : k <= y
    <3>1. Bad \in SUBSET Nat OBVIOUS
    <3> HIDE DEF Bad
    <3> QED BY <2>1, <3>1, LeastNatural
  <2>2. k \in Nat /\ k <= n /\ Flat(g, k) # part(k) OBVIOUS
  <2>3. k # 0
    <3>1. part(0) = <<>> OBVIOUS
    <3> HIDE DEF part
    <3> QED BY <1>2, <2>2, <3>1
  <2>4. k \in 1 .. n /\ k - 1 \in Nat /\ k - 1 <= n /\ ~ (k <= k - 1) BY <2>2, <2>3
  <2>5. Flat(g, k - 1) = part(k - 1) BY <2>1, <2>4
  <2>6. Flat(g, k) = part(k - 1) \o <<d[k]>> BY <1>2, <2>4, <2>5
  <2>7. part(k - 1) \o <<d[k]>> = part(k)
    <3>1. \A i \in 1 .. k : d[i] \in Nat BY <2>4
    <3> DEFINE s == part(k - 1)
               t == part(k)
    <3>2. s \in Seq(Nat) /\ Len(s) = k - 1 /\ \A i \in 1 .. k - 1 : s[i] = d[i]
      BY <2>4, <3>1
    <3>3. t = [i \in 1 .. k |-> d[i]] /\ t \in Seq(Nat) /\ Len(t) = k BY <2>4, <3>1
    <3> HIDE DEF s, t, part
    <3>4. d[k] \in Nat BY <2>4
    <3>5. /\ s \o <<d[k]>> \in Seq(Nat) /\ Len(s \o <<d[k]>>) = k
          /\ \A i \in 1 .. k : (s \o <<d[k]>>)[i] = IF i = k THEN d[k] ELSE s[i]
      BY <2>4, <3>2, <3>4
    <3>6. \A i \in 1 .. k : (s \o <<d[k]>>)[i] = t[i]
      <4>1. \A i \in 1 .. k : i = k \/ i \in 1 .. k - 1 BY <2>4
      <4> QED BY <3>2, <3>3, <3>5, <4>1
    <3> DEFINE c == s \o <<d[k]>>
    <3> HIDE DEF c
    <3>7. c \in [1 .. k -> Nat] /\ t \in [1 .. k -> Nat] BY <3>3, <3>5, SeqAsFunction DEF c
    <3>8. c = t BY <3>6, <3>7 DEF c
    <3> QED BY <3>8 DEF c, s, t
  <2> QED BY <2>2, <2>6, <2>7
<1>4. Flat(g, n) = part(n) BY <1>3
<1>5. part(n) = d OBVIOUS
<1>6. FlattenSeq(g) = Flat(g, n)
  <2>1. g = [k \in 1 .. n |-> g[k]] BY <1>1
  <2> QED BY <2>1 DEF Flat
<1> QED BY <1>4, <1>5, <1>6 DEF g

(* The timestamps of attacks and of detections exist.                      *)
LEMMA TimesTyped ==
  ASSUME TrialInv, PairInv, TimesInv
  PROVE  /\ \A k \in DOMAIN onsetTimes :
              onsetTimes[k] \in Nat /\ capture[onsetTimes[k]] \in Nat
         /\ \A k \in DOMAIN detectTimes :
              /\ detectTimes[k] \in Nat /\ capture[detectTimes[k]] \in Nat
              /\ Took(detectTimes[k]) \in Nat
<1> DEFINE w == config.warmup
           l == Len(delivered)
<1>1. /\ delivered \in Seq(Delivery) /\ config \in Settings
      /\ l = position /\ position \in 0 .. MaxStream
      /\ Len(yTrue) = Cardinality(Scored)
      /\ ToSet(detectTimes) = {i - 1 : i \in {j \in Scored : delivered[j].fault
                                                              /\ delivered[j].alarm}}
  BY DEF TrialInv, HistoryTyped, ScoreInv, ScoresAligned
<1>2. w \in Nat /\ MaxStream \in Nat BY <1>1, SettingTypes, TrialAssumption
<1>3. Scored = w + 1 .. l /\ Cardinality(Scored) = IF l > w THEN l - w ELSE 0
  BY <1>1, ScoredInterval
<1>4. capture \in [0 .. MaxStream - 1 -> Nat] BY TrialAssumption DEF TrialInv
<1>5. latencies \in Seq(Nat) /\ Len(latencies) = IF l > w THEN l - w ELSE 0
  BY <1>1, <1>3 DEF TimesInv
<1>6. /\ onsetTimes \in Seq(Nat) /\ detectTimes \in Seq(Nat)
      /\ \A k \in DOMAIN onsetTimes : onsetTimes[k] < position
  BY DEF PairInv, Paired
<1> HIDE DEF w, l
<1>7. ASSUME NEW k \in DOMAIN onsetTimes
      PROVE  onsetTimes[k] \in Nat /\ capture[onsetTimes[k]] \in Nat
  <2>1. onsetTimes[k] \in Nat /\ onsetTimes[k] < position BY <1>6
  <2>2. onsetTimes[k] \in 0 .. MaxStream - 1 BY <1>1, <1>2, <2>1
  <2> QED BY <1>4, <2>1, <2>2
<1>8. ASSUME NEW k \in DOMAIN detectTimes
      PROVE  /\ detectTimes[k] \in Nat /\ capture[detectTimes[k]] \in Nat
             /\ Took(detectTimes[k]) \in Nat
  <2> DEFINE p == detectTimes[k]
  <2>1. p \in Nat /\ p \in ToSet(detectTimes) BY <1>6 DEF ToSet
  <2>2. PICK i \in Scored : p = i - 1 BY <1>1, <2>1
  <2> HIDE DEF p
  <2>3. i \in w + 1 .. l BY <1>3, <2>2
  <2>4. p \in 0 .. MaxStream - 1 BY <1>1, <1>2, <2>1, <2>2, <2>3
  <2>5. p - w + 1 \in 1 .. Len(latencies) BY <1>1, <1>2, <1>5, <2>1, <2>2, <2>3
  <2>6. latencies[p - w + 1] \in Nat BY <1>5, <2>5
  <2>7. Took(p) = latencies[p - w + 1] BY DEF Took, w
  <2> QED BY <1>4, <2>1, <2>4, <2>6, <2>7 DEF p
<1> QED BY <1>7, <1>8

LEMMA MttdField ==
  FullReport.mttd = When(Detects /\ detectTimes # <<>>,
                         DetectionLatency(Onsets(onsetTimes), Detections(detectTimes)))
BY DEF FullReport

(* Attacks paired with their own detections have their own delays.         *)
LEMMA OwnMean ==
  ASSUME TrialInv, PairInv, TimesInv, NoneMissedBefore
  PROVE  DetectionLatency(Onsets(onsetTimes), Detections(detectTimes)) = MeanOf(OwnDelays)
<1> DEFINE n == Len(detectTimes)
           m == Len(onsetTimes)
           from == Onsets(onsetTimes)
           to == Detections(detectTimes)
           d == [k \in 1 .. n |-> Took(detectTimes[k])]
<1>1. /\ onsetTimes \in Seq(Nat) /\ detectTimes \in Seq(Nat) /\ n <= m
      /\ \A k \in DOMAIN detectTimes : onsetTimes[k] = detectTimes[k]
  BY DEF PairInv, Paired
<1>2. /\ n \in Nat /\ m \in Nat /\ DOMAIN detectTimes = 1 .. n /\ DOMAIN onsetTimes = 1 .. m
  BY <1>1, SeqAsFunction
<1>3. \A k \in 1 .. n : /\ detectTimes[k] \in Nat /\ capture[detectTimes[k]] \in Nat
                        /\ Took(detectTimes[k]) \in Nat
  BY <1>2, TimesTyped
<1>4. \A k \in 1 .. m : capture[onsetTimes[k]] \in Nat BY <1>2, TimesTyped
<1>5. /\ from = [k \in 1 .. m |-> capture[onsetTimes[k]]]
      /\ to = [k \in 1 .. n |-> capture[detectTimes[k]] + Took(detectTimes[k])]
  BY <1>2 DEF Onsets, Detections
<1>6. Len(from) = m /\ Len(to) = n
  <2>1. from \in [1 .. m -> Nat] BY <1>4, <1>5
  <2>2. to \in [1 .. n -> Nat]
    <3>1. \A a, b \in Nat : a + b \in Nat OBVIOUS
    <3> QED BY <1>3, <1>5, <3>1
  <2> HIDE DEF from, to, n, m
  <2> QED BY <1>2, <2>1, <2>2, FunctionAsSeq
<1>7. OwnDelays = d
  <2>1. Onsets(detectTimes) = [k \in 1 .. n |-> capture[detectTimes[k]]]
    BY <1>2 DEF Onsets
  <2>2. OwnDelays = [k \in 1 .. n |-> to[k] - Onsets(detectTimes)[k]]
    BY <1>2 DEF OwnDelays
  <2>3. \A a, b \in Nat : (a + b) - a = b OBVIOUS
  <2>4. \A k \in 1 .. n : to[k] - Onsets(detectTimes)[k] = Took(detectTimes[k])
    <3> TAKE k \in 1 .. n
    <3> DEFINE a == capture[detectTimes[k]]
               b == Took(detectTimes[k])
    <3>1. to[k] = a + b /\ Onsets(detectTimes)[k] = a BY <1>5, <2>1
    <3>2. a \in Nat /\ b \in Nat BY <1>3
    <3> HIDE DEF a, b
    <3>3. to[k] - Onsets(detectTimes)[k] = b BY <2>3, <3>1, <3>2
    <3> QED BY <3>3 DEF b
  <2> HIDE DEF n, to
  <2> QED BY <2>2, <2>4 DEF d
<1> HIDE DEF from, to, n, m
<1>8. \A k \in 1 .. n : LatencyOf(from[k], to[k]) = <<d[k]>>
  <2> TAKE k \in 1 .. n
  <2> DEFINE a == capture[detectTimes[k]]
             b == Took(detectTimes[k])
  <2>1. k \in 1 .. m /\ onsetTimes[k] = detectTimes[k] BY <1>1, <1>2
  <2>2. from[k] = a /\ to[k] = a + b /\ d[k] = b BY <1>5, <2>1
  <2>3. a \in Nat /\ b \in Nat BY <1>3
  <2> HIDE DEF a, b, d
  <2>4. to[k] >= from[k] /\ to[k] - from[k] = d[k] BY <2>2, <2>3
  <2> QED BY <2>4 DEF LatencyOf
<1>9. d \in [1 .. n -> Nat] BY <1>3
<1>10. Min({Len(from), Len(to)}) = n
  <2>1. m \in Int /\ n \in Int BY <1>2
  <2>2. Min({m, n}) \in {m, n} /\ Min({m, n}) <= m /\ Min({m, n}) <= n BY <2>1, MinOfTwo
  <2>3. Min({m, n}) = n BY <1>1, <2>1, <2>2 DEF m, n
  <2> QED BY <1>6, <2>3
<1>11. PairedDelays(from, to) = FlattenSeq([k \in 1 .. n |-> LatencyOf(from[k], to[k])])
  BY <1>10 DEF PairedDelays
<1> HIDE DEF d
<1>12. [k \in 1 .. n |-> LatencyOf(from[k], to[k])] = [k \in 1 .. n |-> <<d[k]>>] BY <1>8
<1>13. PairedDelays(from, to) = d BY <1>2, <1>9, <1>11, <1>12, FlatSingles
<1> QED BY <1>7, <1>13 DEF DetectionLatency, from, to

(* Whatever the timestamps of the records and however long the inference   *)
(* takes: as long as no attack was missed before a detected one, the delay *)
(* that the full runner reports is the mean of the attacks' own delays.    *)
THEOREM PairingAlwaysOwn == HSpec \/ CampaignSpec => []PairingOwn
<1>1. TrialInv /\ PairInv /\ TimesInv => PairingOwn
  <2> SUFFICES ASSUME TrialInv, PairInv, TimesInv,
                      FullReport.mttd # NotApplicable, NoneMissedBefore
               PROVE  FullReport.mttd = MeanOf(OwnDelays)
    BY Zenon DEF PairingOwn, NoneMissedBefore
  <2>1. FullReport.mttd
          = DetectionLatency(Onsets(onsetTimes), Detections(detectTimes))
    BY MttdField DEF When
  <2> QED BY <2>1, OwnMean
<1> QED BY <1>1, PairInvariant, PTL

-------------------------------------------------------------------------------
(* Sums over a list: bounded by what one or two of its elements add.       *)
LEMMA Monotone ==
  ASSUME NEW n \in Nat, NEW f, \A k \in 0 .. n : f[k] \in Int,
         \A k \in 1 .. n : f[k - 1] <= f[k], NEW i \in 0 .. n
  PROVE  \A j \in 0 .. n : i <= j => f[i] <= f[j]
<1> DEFINE Bad == {j \in Nat : i <= j /\ j <= n /\ ~ (f[i] <= f[j])}
<1>1. Bad = {}
  <2> SUFFICES ASSUME Bad # {} PROVE FALSE OBVIOUS
  <2>1. PICK j \in Bad : \A y \in Bad : j <= y
    <3>1. Bad \in SUBSET Nat OBVIOUS
    <3> HIDE DEF Bad
    <3> QED BY <2>1, <3>1, LeastNatural
  <2>2. j \in Nat /\ i <= j /\ j <= n /\ ~ (f[i] <= f[j]) OBVIOUS
  <2>3. j # i BY <2>2
  <2>4. j \in 1 .. n /\ j - 1 \in 0 .. n /\ j \in 0 .. n /\ i <= j - 1 /\ ~ (j <= j - 1)
    BY <2>2, <2>3
  <2>5. j - 1 \notin Bad BY <2>1, <2>4
  <2>6. f[i] <= f[j - 1] BY <2>4, <2>5
  <2>7. f[j - 1] <= f[j] /\ f[j - 1] \in Int /\ f[j] \in Int /\ f[i] \in Int BY <2>4
  <2> QED BY <2>2, <2>6, <2>7
<1> QED BY <1>1

(* A sum that starts at zero and never falls is at least what any two of   *)
(* its steps add.                                                          *)
LEMMA TwoSteps ==
  ASSUME NEW n \in Nat, NEW f, \A k \in 0 .. n : f[k] \in Int, f[0] = 0,
         \A k \in 1 .. n : f[k - 1] <= f[k], NEW a \in 1 .. n
  PROVE  /\ f[n] >= f[a] - f[a - 1]
         /\ \A b \in 1 .. n : a < b => f[n] >= (f[a] - f[a - 1]) + (f[b] - f[b - 1])
<1>1. \A i, j \in 0 .. n : i <= j => f[i] <= f[j] BY Monotone
<1>2. 0 \in 0 .. n /\ n \in 0 .. n /\ a \in 0 .. n /\ a - 1 \in 0 .. n /\ 0 <= a - 1 /\ a <= n
  OBVIOUS
<1>3. 0 <= f[a - 1] /\ f[a] <= f[n] /\ f[a - 1] \in Int /\ f[a] \in Int /\ f[n] \in Int
  BY <1>1, <1>2
<1>4. ASSUME NEW b \in 1 .. n, a < b
      PROVE  f[n] >= (f[a] - f[a - 1]) + (f[b] - f[b - 1])
  <2>1. b \in 0 .. n /\ b - 1 \in 0 .. n /\ a <= b - 1 /\ b <= n BY <1>4
  <2>2. /\ f[a] <= f[b - 1] /\ f[b] <= f[n] /\ f[b] \in Int /\ f[b - 1] \in Int
    BY <1>1, <1>2, <2>1
  <2> QED BY <1>3, <2>2
<1> QED BY <1>3, <1>4

LEMMA SumsTyped ==
  ASSUME NEW s \in Seq(Int), NEW g, Sums(s, g)
  PROVE  \A k \in 0 .. Len(s) : g[k] \in Int
<1>1. Len(s) \in Nat BY SeqAsFunction
<1>2. Len(s) <= Len(s) BY <1>1
<1> QED BY <1>2, SumsAgree

LEMMA TotalBetween ==
  ASSUME NEW s \in Seq(Int), NEW lo \in Int, NEW hi \in Int,
         \A i \in 1 .. Len(s) : lo <= s[i] /\ s[i] <= hi
  PROVE  /\ Total(s) \in Int
         /\ Len(s) * lo <= Total(s) /\ Total(s) <= Len(s) * hi
         /\ \A i \in 1 .. Len(s) : /\ Total(s) - Len(s) * lo >= s[i] - lo
                                   /\ Len(s) * hi - Total(s) >= hi - s[i]
<1> DEFINE n == Len(s)
<1>1. n \in Nat /\ \A i \in 1 .. n : s[i] \in Int BY SeqAsFunction, ElementOfSeq
<1>2. PICK g : Sums(s, g) /\ Total(s) = g[n] BY TotalParts
<1>3. g[0] = 0 /\ \A k \in 1 .. n : g[k] = g[k - 1] + s[k] BY <1>2 DEF Sums
<1>4. \A k \in 0 .. n : g[k] \in Int BY <1>2, SumsTyped
<1> HIDE DEF n
<1> DEFINE low  == [k \in 0 .. n |-> g[k] - k * lo]
           high == [k \in 0 .. n |-> k * hi - g[k]]
<1>5. \A k \in 1 .. n : k \in 0 .. n /\ k - 1 \in 0 .. n /\ k \in Int BY <1>1
<1>6. \A k \in Int : (k - 1) * lo = k * lo - lo /\ (k - 1) * hi = k * hi - hi
                     /\ k * lo \in Int /\ k * hi \in Int
  OBVIOUS
<1>7. \A k \in 1 .. n : low[k] - low[k - 1] = s[k] - lo /\ high[k] - high[k - 1] = hi - s[k]
  <2> TAKE k \in 1 .. n
  <2>1. low[k] = g[k] - k * lo /\ low[k - 1] = g[k - 1] - (k - 1) * lo BY <1>5
  <2>2. high[k] = k * hi - g[k] /\ high[k - 1] = (k - 1) * hi - g[k - 1] BY <1>5
  <2>3. g[k] \in Int /\ g[k - 1] \in Int /\ s[k] \in Int /\ g[k] = g[k - 1] + s[k]
    BY <1>1, <1>3, <1>4, <1>5
  <2>4. /\ (k - 1) * lo = k * lo - lo /\ (k - 1) * hi = k * hi - hi
        /\ k * lo \in Int /\ k * hi \in Int
    BY <1>5, <1>6
  <2> DEFINE a == k * lo
             b == k * hi
             c == (k - 1) * lo
             d == (k - 1) * hi
  <2>5. /\ low[k] = g[k] - a /\ low[k - 1] = g[k - 1] - c
        /\ high[k] = b - g[k] /\ high[k - 1] = d - g[k - 1]
        /\ c = a - lo /\ d = b - hi /\ a \in Int /\ b \in Int
    BY <2>1, <2>2, <2>4
  <2> DEFINE u == g[k]
             v == g[k - 1]
             x == s[k]
  <2>6. u \in Int /\ v \in Int /\ x \in Int /\ u = v + x BY <2>3
  <2>7. low[k] = u - a /\ low[k - 1] = v - c /\ high[k] = b - u /\ high[k - 1] = d - v
    BY <2>5
  <2>8. c = a - lo /\ d = b - hi /\ a \in Int /\ b \in Int BY <2>5
  <2> HIDE DEF a, b, c, d, u, v, x, low, high
  <2>9. (u - a) - (v - c) = x - lo /\ (b - u) - (d - v) = hi - x BY <2>6, <2>8
  <2> QED BY <2>7, <2>9 DEF x
<1>8. \A k \in 0 .. n : low[k] \in Int /\ high[k] \in Int
  <2> TAKE k \in 0 .. n
  <2>1. k \in Int /\ g[k] \in Int BY <1>4
  <2>2. k * lo \in Int /\ k * hi \in Int BY <1>6, <2>1
  <2> QED BY <2>1, <2>2
<1>9. low[0] = 0 /\ high[0] = 0
  <2>1. 0 \in 0 .. n /\ 0 * lo = 0 /\ 0 * hi = 0 BY <1>1
  <2> QED BY <1>3, <2>1
<1>10. low[n] = Total(s) - n * lo /\ high[n] = n * hi - Total(s) /\ Total(s) \in Int
  <2>1. n \in 0 .. n BY <1>1
  <2> QED BY <1>2, <1>4, <2>1
<1> HIDE DEF low, high
<1>11. \A k \in 1 .. n : low[k - 1] <= low[k] /\ high[k - 1] <= high[k]
  <2> TAKE k \in 1 .. n
  <2>1. lo <= s[k] /\ s[k] <= hi /\ s[k] \in Int BY <1>1 DEF n
  <2>2. /\ low[k] \in Int /\ low[k - 1] \in Int /\ high[k] \in Int /\ high[k - 1] \in Int
    BY <1>5, <1>8
  <2>3. low[k] - low[k - 1] = s[k] - lo /\ high[k] - high[k - 1] = hi - s[k] BY <1>7
  <2> DEFINE a == low[k - 1]
             b == low[k]
             c == high[k - 1]
             d == high[k]
             x == s[k]
  <2>4. /\ lo <= x /\ x <= hi /\ x \in Int /\ a \in Int /\ b \in Int /\ c \in Int /\ d \in Int
        /\ b - a = x - lo /\ d - c = hi - x
    BY <2>1, <2>2, <2>3
  <2> HIDE DEF a, b, c, d, x
  <2>5. a <= b BY <2>4
  <2>6. c <= d BY <2>4
  <2> QED BY <2>5, <2>6 DEF a, b, c, d
<1>12. 0 <= low[n] /\ 0 <= high[n]
  <2>1. 0 \in 0 .. n /\ n \in 0 .. n /\ 0 <= n BY <1>1
  <2>2. low[0] <= low[n] BY <1>1, <1>8, <1>11, <2>1, Monotone
  <2>3. high[0] <= high[n] BY <1>1, <1>8, <1>11, <2>1, Monotone
  <2> QED BY <1>9, <2>2, <2>3
<1>13. \A i \in 1 .. n : low[n] >= s[i] - lo
  <2> TAKE i \in 1 .. n
  <2>1. low[n] >= low[i] - low[i - 1] BY <1>1, <1>8, <1>9, <1>11, TwoSteps
  <2> QED BY <1>7, <2>1
<1>14. \A i \in 1 .. n : high[n] >= hi - s[i]
  <2> TAKE i \in 1 .. n
  <2>1. high[n] >= high[i] - high[i - 1] BY <1>1, <1>8, <1>9, <1>11, TwoSteps
  <2> QED BY <1>7, <2>1
<1>15. n * lo \in Int /\ n * hi \in Int BY <1>1, <1>6
<1>16. n * lo <= Total(s) /\ Total(s) <= n * hi BY <1>10, <1>12, <1>15
<1> QED BY <1>10, <1>13, <1>14, <1>16 DEF n

-------------------------------------------------------------------------------
(* s consists of the numbers among the first k of the values.              *)
Present(V, k, s) ==
  /\ s \in Seq(Int) /\ Len(s) <= k
  /\ \A j \in 1 .. Len(s) : \E i \in 1 .. k : V[i] # NotApplicable /\ s[j] = V[i]
  /\ \A i \in 1 .. k : V[i] # NotApplicable => \E j \in 1 .. Len(s) : s[j] = V[i]

LEMMA PresentAppended ==
  ASSUME NEW k \in Nat, NEW V, NEW s, Present(V, k, s), V[k + 1] \in Int
  PROVE  Present(V, k + 1, s \o <<V[k + 1]>>)
<1> DEFINE x == V[k + 1]
           t == s \o <<x>>
<1>1. s \in Seq(Int) /\ Len(s) <= k /\ Len(s) \in Nat
  BY SeqAsFunction DEF Present
<1>2. <<x>> \in Seq(Int) /\ Len(<<x>>) = 1 /\ <<x>>[1] = x OBVIOUS
<1>3. /\ t \in Seq(Int) /\ Len(t) = Len(s) + 1
      /\ \A i \in 1 .. Len(s) : t[i] = s[i]
      /\ \A i \in 1 .. 1 : t[Len(s) + i] = <<x>>[i]
  BY <1>1, <1>2, ConcatParts
<1>4. t[Len(s) + 1] = x BY <1>2, <1>3
<1>5. x # NotApplicable BY NotApplicableAssumption
<1> HIDE DEF t
<1>6. \A j \in 1 .. Len(t) : \E i \in 1 .. k + 1 : V[i] # NotApplicable /\ t[j] = V[i]
  <2> TAKE j \in 1 .. Len(t)
  <2>1. CASE j \in 1 .. Len(s)
    <3>1. PICK i \in 1 .. k : V[i] # NotApplicable /\ s[j] = V[i] BY <2>1 DEF Present
    <3>2. i \in 1 .. k + 1 /\ t[j] = s[j] BY <1>3, <2>1
    <3> QED BY <3>1, <3>2
  <2>2. CASE j \notin 1 .. Len(s)
    <3>1. j = Len(s) + 1 BY <1>1, <1>3, <2>2
    <3>2. k + 1 \in 1 .. k + 1 /\ t[j] = V[k + 1] BY <1>4, <3>1
    <3> QED BY <1>5, <3>2
  <2> QED BY <2>1, <2>2
<1>7. \A i \in 1 .. k + 1 : V[i] # NotApplicable => \E j \in 1 .. Len(t) : t[j] = V[i]
  <2> SUFFICES ASSUME NEW i \in 1 .. k + 1, V[i] # NotApplicable
               PROVE  \E j \in 1 .. Len(t) : t[j] = V[i]
    OBVIOUS
  <2>1. CASE i \in 1 .. k
    <3>1. PICK j \in 1 .. Len(s) : s[j] = V[i] BY <2>1 DEF Present
    <3>2. j \in 1 .. Len(t) /\ t[j] = s[j] BY <1>1, <1>3
    <3> QED BY <3>1, <3>2
  <2>2. CASE i \notin 1 .. k
    <3>1. i = k + 1 BY <2>2
    <3>2. Len(s) + 1 \in 1 .. Len(t) BY <1>1, <1>3
    <3> QED BY <1>4, <3>1, <3>2
  <2> QED BY <2>1, <2>2
<1>8. Len(t) <= k + 1 BY <1>1, <1>3
<1>9. Present(V, k + 1, t) BY <1>3, <1>6, <1>7, <1>8 DEF Present
<1> QED BY <1>9 DEF t

LEMMA PresentSkipped ==
  ASSUME NEW k \in Nat, NEW V, NEW s, Present(V, k, s), V[k + 1] = NotApplicable
  PROVE  Present(V, k + 1, s)
<1>1. s \in Seq(Int) /\ Len(s) <= k + 1 /\ Len(s) \in Nat
  BY SeqAsFunction DEF Present
<1>2. \A j \in 1 .. Len(s) : \E i \in 1 .. k + 1 : V[i] # NotApplicable /\ s[j] = V[i]
  <2> TAKE j \in 1 .. Len(s)
  <2>1. PICK i \in 1 .. k : V[i] # NotApplicable /\ s[j] = V[i] BY DEF Present
  <2>2. i \in 1 .. k + 1 OBVIOUS
  <2> QED BY <2>1, <2>2
<1>3. \A i \in 1 .. k + 1 : V[i] # NotApplicable => \E j \in 1 .. Len(s) : s[j] = V[i]
  <2> SUFFICES ASSUME NEW i \in 1 .. k + 1, V[i] # NotApplicable
               PROVE  \E j \in 1 .. Len(s) : s[j] = V[i]
    OBVIOUS
  <2>1. i \in 1 .. k OBVIOUS
  <2> QED BY <2>1 DEF Present
<1> QED BY <1>1, <1>2, <1>3 DEF Present

(* Numbers leaves out what is missing and nothing else.                    *)
LEMMA NumbersAre ==
  ASSUME NEW V \in Seq(Int \cup {NotApplicable})
  PROVE  Present(V, Len(V), Numbers(V))
<1> DEFINE n == Len(V)
           g == [i \in 1 .. n |-> IF V[i] = NotApplicable THEN <<>> ELSE <<V[i]>>]
           Bad == {k \in Nat : k <= n /\ ~ Present(V, k, Flat(g, k))}
<1>1. n \in Nat /\ DOMAIN V = 1 .. n /\ \A i \in 1 .. n : V[i] \in Int \cup {NotApplicable}
  BY SeqAsFunction, ElementOfSeq
<1>2. g \in [1 .. n -> Seq(Int)]
  <2>1. \A i \in 1 .. n : (IF V[i] = NotApplicable THEN <<>> ELSE <<V[i]>>) \in Seq(Int)
    BY <1>1
  <2> QED BY <2>1
<1>3. \A i \in 1 .. n : g[i] = IF V[i] = NotApplicable THEN <<>> ELSE <<V[i]>> OBVIOUS
<1>4. g = [i \in 1 .. n |-> g[i]] OBVIOUS
<1>5. Numbers(V) = FlattenSeq(g) BY <1>1 DEF Numbers
<1> HIDE DEF g, n
<1>6. Numbers(V) = Flat(g, n) BY <1>4, <1>5 DEF Flat
<1>7. /\ \A k \in 0 .. n : Flat(g, k) \in Seq(Int)
      /\ Flat(g, 0) = <<>>
      /\ \A k \in 1 .. n : Flat(g, k) = Flat(g, k - 1) \o g[k]
  BY <1>1, <1>2, FlatStep
<1>8. Bad = {}
  <2> SUFFICES ASSUME Bad # {} PROVE FALSE OBVIOUS
  <2>1. PICK k \in Bad : \A y \in Bad : k <= y
    <3>1. Bad \in SUBSET Nat OBVIOUS
    <3> HIDE DEF Bad
    <3> QED BY <3>1, LeastNatural
  <2>2. k \in Nat /\ k <= n /\ ~ Present(V, k, Flat(g, k)) OBVIOUS
  <2>3. k # 0
    <3> SUFFICES ASSUME k = 0 PROVE FALSE OBVIOUS
    <3>1. <<>> \in Seq(Int) /\ Len(<<>>) = 0 OBVIOUS
    <3>2. Present(V, 0, <<>>) BY <3>1 DEF Present
    <3> QED BY <1>7, <2>2, <3>2
  <2>4. k - 1 \in Nat /\ k - 1 <= n /\ k \in 1 .. n /\ k - 1 < k /\ k = (k - 1) + 1
    BY <1>1, <2>2, <2>3
  <2>5. Present(V, k - 1, Flat(g, k - 1))
    <3>1. k - 1 \notin Bad BY <2>1, <2>4
    <3> QED BY <2>4, <3>1
  <2> DEFINE m == k - 1
             s == Flat(g, k - 1)
  <2>6. m \in Nat /\ k = m + 1 /\ Present(V, m, s) /\ Flat(g, k) = s \o g[k] /\ s \in Seq(Int)
    <3>1. k - 1 \in 0 .. n BY <1>1, <2>4
    <3> QED BY <1>7, <2>4, <2>5, <3>1
  <2> HIDE DEF m, s, Bad
  <2>7. CASE V[k] = NotApplicable
    <3>1. Flat(g, k) = s
      <4>1. g[k] = <<>> BY <1>3, <2>4, <2>7
      <4>2. s \o <<>> = s BY <2>6
      <4> QED BY <2>6, <4>1, <4>2
    <3>2. Present(V, m + 1, s) BY <2>6, <2>7, PresentSkipped
    <3> QED BY <2>2, <2>6, <3>1, <3>2
  <2>8. CASE V[k] # NotApplicable
    <3>1. V[k] \in Int BY <1>1, <2>4, <2>8
    <3>2. Flat(g, k) = s \o <<V[k]>> BY <1>3, <2>4, <2>6, <2>8
    <3>3. Present(V, m + 1, s \o <<V[m + 1]>>) BY <2>6, <3>1, PresentAppended
    <3> QED BY <2>2, <2>6, <3>2, <3>3
  <2> QED BY <2>7, <2>8
<1>9. Present(V, n, Flat(g, n)) BY <1>1, <1>8
<1> QED BY <1>6, <1>9 DEF n

-------------------------------------------------------------------------------
(* What the statistics of numbers within bounds are.                       *)
LEMMA Product == \A a, b \in Int : a * b \in Int
OBVIOUS

LEMMA MoreTimes == \A n, p, q \in Int : n >= 0 /\ p <= q => n * p <= n * q
OBVIOUS

LEMMA OneMoreTime == \A n, p \in Int : n * (p + 1) = n * p + n
OBVIOUS

LEMMA Divided ==
  \A a \in Int : \A n \in Nat \ {0} :
    a \div n \in Int /\ n * (a \div n) <= a /\ a < n * (a \div n) + n
OBVIOUS

LEMMA QuotientBounds ==
  ASSUME NEW a \in Int, NEW n \in Nat \ {0}, NEW q \in Int
  PROVE  /\ a \div n \in Int
         /\ n * q <= a => q <= a \div n
         /\ a < n * q => a \div n < q
         /\ a <= n * q => a \div n <= q
<1> DEFINE d == a \div n
<1>1. d \in Int /\ n * d <= a /\ a < n * d + n BY Divided
<1> HIDE DEF d
<1>2. n \in Int /\ n >= 0 /\ n * q \in Int /\ n * d \in Int BY <1>1, Product
<1>3. ASSUME n * q <= a PROVE q <= d
  <2> SUFFICES ASSUME d + 1 <= q PROVE FALSE BY <1>1
  <2>1. n * (d + 1) <= n * q BY <1>1, <1>2, MoreTimes
  <2>2. n * (d + 1) = n * d + n BY <1>1, <1>2, OneMoreTime
  <2> QED BY <1>1, <1>2, <1>3, <2>1, <2>2
<1>4. ASSUME a < n * q PROVE d < q
  <2> SUFFICES ASSUME q <= d PROVE FALSE BY <1>1
  <2>1. n * q <= n * d BY <1>1, <1>2, MoreTimes
  <2> QED BY <1>1, <1>2, <1>4, <2>1
<1>5. ASSUME a <= n * q PROVE d <= q
  <2> SUFFICES ASSUME q + 1 <= d PROVE FALSE BY <1>1
  <2>1. n * (q + 1) <= n * d BY <1>1, <1>2, MoreTimes
  <2>2. n * (q + 1) = n * q + n BY <1>2, OneMoreTime
  <2> QED BY <1>1, <1>2, <1>5, <2>1, <2>2
<1> QED BY <1>1, <1>3, <1>4, <1>5 DEF d

LEMMA MeanBetween ==
  ASSUME NEW s \in Seq(Int), s # <<>>, NEW lo \in Int, NEW hi \in Int,
         \A i \in 1 .. Len(s) : lo <= s[i] /\ s[i] <= hi
  PROVE  /\ MeanOf(s) \in 1000 * lo .. 1000 * hi
         /\ MeanOf(s) = 1000 * hi <=> \A i \in 1 .. Len(s) : s[i] = hi
         /\ lo = 0 /\ Len(s) <= 1000 /\ (\E i \in 1 .. Len(s) : s[i] > 0) => MeanOf(s) > 0
<1> DEFINE n == Len(s)
           c == Total(s)
<1>1. n \in Nat \ {0} /\ \A i \in 1 .. n : s[i] \in Int
  BY SeqAsFunction, ElementOfSeq, EmptySeq
<1>2. /\ c \in Int /\ n * lo <= c /\ c <= n * hi
      /\ \A i \in 1 .. n : c - n * lo >= s[i] - lo /\ n * hi - c >= hi - s[i]
  BY TotalBetween
<1>3. MeanOf(s) = (1000 * c) \div n BY DEF MeanOf
<1> HIDE DEF n, c
<1>4. /\ n * lo \in Int /\ n * hi \in Int
      /\ n * (1000 * lo) = 1000 * (n * lo) /\ n * (1000 * hi) = 1000 * (n * hi)
  BY <1>1
<1> DEFINE m == (1000 * c) \div n
<1>5. /\ m \in Int
      /\ \A q \in Int : /\ n * q <= 1000 * c => q <= m
                        /\ 1000 * c < n * q => m < q
                        /\ 1000 * c <= n * q => m <= q
  <2> DEFINE a == 1000 * c
  <2>1. a \in Int /\ m = a \div n BY <1>2
  <2> HIDE DEF a, m
  <2>2. \A q \in Int : /\ n * q <= a => q <= a \div n
                       /\ a < n * q => a \div n < q
                       /\ a <= n * q => a \div n <= q
    BY <1>1, <2>1, QuotientBounds
  <2>3. a \div n \in Int BY <1>1, <2>1, Divided
  <2>4. /\ m \in Int
        /\ \A q \in Int : /\ n * q <= a => q <= m
                          /\ a < n * q => m < q
                          /\ a <= n * q => m <= q
    BY <2>1, <2>2, <2>3
  <2> QED BY <2>4 DEF a
<1> HIDE DEF m
<1>6. 1000 * lo <= m /\ m <= 1000 * hi
  <2>1. n * (1000 * lo) <= 1000 * c /\ 1000 * c <= n * (1000 * hi) BY <1>2, <1>4
  <2>2. 1000 * lo \in Int /\ 1000 * hi \in Int OBVIOUS
  <2> QED BY <1>5, <2>1, <2>2
<1>7. ASSUME m = 1000 * hi, NEW i \in 1 .. n PROVE s[i] = hi
  <2>1. s[i] \in Int /\ s[i] <= hi BY <1>1 DEF n
  <2> SUFFICES ASSUME hi - s[i] >= 1 PROVE FALSE BY <2>1
  <2>2. n * hi - c >= 1
    <3> DEFINE slack == n * hi - c
    <3>1. slack >= hi - s[i] /\ slack \in Int BY <1>2, <1>4
    <3> HIDE DEF slack
    <3>2. slack >= 1 BY <2>1, <3>1
    <3> QED BY <3>2 DEF slack
  <2>3. 1000 * c < n * (1000 * hi) BY <1>2, <1>4, <2>2
  <2>4. 1000 * hi \in Int OBVIOUS
  <2> QED BY <1>5, <1>7, <2>3, <2>4
<1>8. ASSUME \A i \in 1 .. n : s[i] = hi PROVE m = 1000 * hi
  <2>1. \A i \in 1 .. Len(s) : hi <= s[i] /\ s[i] <= hi BY <1>8 DEF n
  <2>2. n * hi <= c BY <2>1, TotalBetween DEF n, c
  <2>3. n * (1000 * hi) <= 1000 * c BY <1>2, <1>4, <2>2
  <2>4. 1000 * hi \in Int OBVIOUS
  <2>5. 1000 * hi <= m BY <1>5, <2>3, <2>4
  <2> QED BY <1>5, <1>6, <2>5
<1>9. ASSUME lo = 0, n <= 1000, NEW i \in 1 .. n, s[i] > 0 PROVE m > 0
  <2>1. s[i] \in Int /\ n * 0 = 0 /\ n * 1 = n BY <1>1
  <2>2. c - n * 0 >= s[i] - 0 BY <1>2, <1>9
  <2>3. c >= 1 BY <1>2, <1>9, <2>1, <2>2
  <2>4. n * 1 <= 1000 * c BY <1>1, <1>2, <1>9, <2>1, <2>3
  <2>5. 1 <= m BY <1>5, <2>4
  <2> QED BY <1>5, <2>5
<1>10. m \in 1000 * lo .. 1000 * hi BY <1>5, <1>6
<1>11. MeanOf(s) = m BY <1>3 DEF m
<1> QED BY <1>7, <1>8, <1>9, <1>10, <1>11 DEF n

Within(s, lo, hi) == \A i \in 1 .. Len(s) : lo <= s[i] /\ s[i] <= hi

MeanFits(s, lo, hi) ==
  /\ MeanOf(s) \in 1000 * lo .. 1000 * hi
  /\ MeanOf(s) = 1000 * hi <=> \A i \in 1 .. Len(s) : s[i] = hi
  /\ lo = 0 /\ Len(s) <= 1000 /\ (\E i \in 1 .. Len(s) : s[i] > 0) => MeanOf(s) > 0

LEMMA MeanWithin ==
  \A s \in Seq(Int) : \A lo, hi \in Int :
    s # <<>> /\ Within(s, lo, hi) => MeanFits(s, lo, hi)
<1> SUFFICES ASSUME NEW s \in Seq(Int), NEW lo \in Int, NEW hi \in Int,
                    s # <<>>, Within(s, lo, hi)
             PROVE  MeanFits(s, lo, hi)
  OBVIOUS
<1>1. \A i \in 1 .. Len(s) : lo <= s[i] /\ s[i] <= hi BY DEF Within
<1> QED BY <1>1, MeanBetween DEF MeanFits

LEMMA TotalTyped ==
  ASSUME NEW s \in Seq(Int)
  PROVE  Total(s) \in Int
<1>1. 0 \in Int OBVIOUS
<1> QED BY <1>1, TotalAppended

LEMMA SquaresTyped ==
  ASSUME NEW s \in Seq(Int)
  PROVE  Total([i \in 1 .. Len(s) |-> s[i] * s[i]]) \in Int
<1> DEFINE n == Len(s)
           t == [i \in 1 .. n |-> s[i] * s[i]]
<1>1. n \in Nat /\ \A i \in 1 .. n : s[i] \in Int BY SeqAsFunction, ElementOfSeq
<1>2. \A i \in 1 .. n : s[i] * s[i] \in Int BY <1>1
<1>3. t \in [1 .. n -> Int] BY <1>2
<1> HIDE DEF n, t
<1>4. t \in Seq(Int) BY <1>1, <1>3, FunctionAsSeq
<1>5. Total(t) \in Int BY <1>4, TotalTyped
<1> QED BY <1>5 DEF t, n

(* The variance of a list of numbers.                                      *)
Spread(s) ==
  LET n       == Len(s)
      sum     == Total(s)
      squares == Total([i \in 1 .. n |-> s[i] * s[i]])
  IN  IF n < 2 THEN 0 ELSE (n * squares - sum * sum) \div (n * (n - 1))

LEMMA Pairs == \A n \in Nat : n >= 2 => n * (n - 1) \in Nat \ {0}
OBVIOUS

LEMMA SpreadTyped ==
  ASSUME NEW s \in Seq(Int)
  PROVE  Spread(s) \in Int
<1> DEFINE n == Len(s)
           q == Total([i \in 1 .. Len(s) |-> s[i] * s[i]])
           c == Total(s)
           w == n * q - c * c
           m == n * (n - 1)
<1>1. n \in Nat /\ q \in Int /\ c \in Int BY SeqAsFunction, SquaresTyped, TotalTyped
<1>2. Spread(s) = IF n < 2 THEN 0 ELSE w \div m BY DEF Spread
<1> HIDE DEF n, q, c
<1>3. w \in Int BY <1>1
<1>4. n >= 2 => m \in Nat \ {0} BY <1>1, Pairs
<1> HIDE DEF w, m
<1>5. n >= 2 => w \div m \in Int BY <1>3, <1>4, Divided
<1> QED BY <1>1, <1>2, <1>5

LEMMA AggregateOf ==
  ASSUME NEW V \in Seq(Int \cup {NotApplicable})
  PROVE  /\ (\A i \in 1 .. Len(V) : V[i] = NotApplicable) => Aggregate(V) = NotApplicable
         /\ \A k \in 1 .. Len(V) : V[k] # NotApplicable =>
              /\ Aggregate(V) # NotApplicable
              /\ Aggregate(V).mean = MeanOf(Numbers(V))
              /\ Aggregate(V).variance = Spread(Numbers(V))
              /\ Numbers(V) \in Seq(Int) /\ Numbers(V) # <<>>
<1>1. Len(V) \in Nat /\ DOMAIN V = 1 .. Len(V) BY SeqAsFunction
<1>2. Aggregate(V) = IF \A i \in 1 .. Len(V) : V[i] = NotApplicable THEN NotApplicable
                     ELSE [mean |-> MeanAndVariance(V)[1],
                           variance |-> MeanAndVariance(V)[2],
                           margin |-> ConfidenceInterval(V)[2]]
  BY <1>1 DEF Aggregate
<1>3. ASSUME NEW k \in 1 .. Len(V), V[k] # NotApplicable
      PROVE  /\ Aggregate(V) # NotApplicable
             /\ Aggregate(V).mean = MeanOf(Numbers(V))
             /\ Aggregate(V).variance = Spread(Numbers(V))
             /\ Numbers(V) \in Seq(Int) /\ Numbers(V) # <<>>
  <2> DEFINE s == Numbers(V)
             x == MeanOf(s)
             v == Spread(s)
             l == Len(s)
             r == IF l < 2 THEN 0 ELSE (38 * (v \div 10)) \div l
  <2>1. s \in Seq(Int) /\ \E j \in 1 .. l : s[j] = V[k]
    BY <1>3, NumbersAre DEF Present
  <2>2. l \in Nat BY <2>1, SeqAsFunction
  <2>3. s # <<>> /\ l \in Nat \ {0} BY <2>1, <2>2
  <2>4. MeanAndVariance(V) = <<x, v>> BY DEF MeanAndVariance, Spread
  <2>5. ConfidenceInterval(V)[2] = r
    BY <2>4 DEF ConfidenceInterval
  <2>6. x \in Int
    <3>1. x = (1000 * Total(s)) \div l BY <2>3 DEF MeanOf
    <3>2. Total(s) \in Int BY <2>1, TotalTyped
    <3> DEFINE a == 1000 * Total(s)
    <3>3. a \in Int BY <3>2
    <3> HIDE DEF a, l
    <3>4. a \div l \in Int BY <2>3, <3>3, Divided
    <3> QED BY <3>1, <3>4 DEF a, l
  <2>7. v \in Int BY <2>1, SpreadTyped
  <2>8. r \in Int
    <3> DEFINE a == 38 * (v \div 10)
    <3> HIDE DEF l, v
    <3>1. a \in Int BY <2>7
    <3> HIDE DEF a
    <3>2. a \div l \in Int BY <2>3, <3>1, Divided
    <3> QED BY <3>2 DEF a
  <2> HIDE DEF r, x, v
  <2>9. Aggregate(V) = [mean |-> x, variance |-> v, margin |-> r]
    <3>1. ~ \A i \in 1 .. Len(V) : V[i] = NotApplicable BY <1>3
    <3>2. MeanAndVariance(V)[1] = x /\ MeanAndVariance(V)[2] = v BY <2>4
    <3> QED BY <1>2, <2>5, <3>1, <3>2
  <2>10. Aggregate(V) \in [mean : Int, variance : Int, margin : Int]
    BY <2>6, <2>7, <2>8, <2>9
  <2>11. Aggregate(V) # NotApplicable BY <2>10, AggregateAssumption
  <2> QED BY <2>1, <2>3, <2>9, <2>11 DEF x, v
<1> QED BY <1>2, <1>3

-------------------------------------------------------------------------------
(* What an aggregate tells of the values it was made of.                   *)
LEMMA BoundedList ==
  ASSUME NEW V \in Seq(Nat \cup {NotApplicable})
  PROVE  \E m \in Nat : \A i \in 1 .. Len(V) : V[i] # NotApplicable => V[i] <= m
<1> DEFINE n == Len(V)
           Below(k) == \E m \in Nat : \A i \in 1 .. k : V[i] # NotApplicable => V[i] <= m
           Bad == {k \in Nat : k <= n /\ ~ Below(k)}
<1>1. n \in Nat /\ \A i \in 1 .. n : V[i] \in Nat \cup {NotApplicable}
  BY SeqAsFunction, ElementOfSeq
<1> HIDE DEF n
<1>2. Below(0)
  <2>1. 0 \in Nat /\ \A i \in 1 .. 0 : V[i] # NotApplicable => V[i] <= 0 OBVIOUS
  <2> QED BY <2>1
<1>3. ASSUME NEW k \in 1 .. n, Below(k - 1) PROVE Below(k)
  <2>1. PICK m \in Nat : \A i \in 1 .. k - 1 : V[i] # NotApplicable => V[i] <= m
    BY <1>3
  <2>2. V[k] \in Nat \cup {NotApplicable} BY <1>1
  <2> DEFINE b == IF V[k] # NotApplicable /\ V[k] > m THEN V[k] ELSE m
  <2>3. b \in Nat /\ m <= b /\ (V[k] # NotApplicable => V[k] <= b) BY <2>2
  <2>4. \A i \in 1 .. k : i = k \/ i \in 1 .. k - 1 BY <1>1
  <2> HIDE DEF b
  <2>5. \A i \in 1 .. k : V[i] # NotApplicable => V[i] <= b
    <3> SUFFICES ASSUME NEW i \in 1 .. k, V[i] # NotApplicable PROVE V[i] <= b OBVIOUS
    <3>1. CASE i = k BY <2>3, <3>1
    <3>2. CASE i \in 1 .. k - 1
      <4>1. i \in 1 .. n BY <1>1, <3>2
      <4>2. V[i] <= m /\ V[i] \in Nat BY <1>1, <2>1, <3>2, <4>1
      <4> QED BY <2>3, <4>2
    <3> QED BY <2>4, <3>1, <3>2
  <2> QED BY <2>3, <2>5
<1> HIDE DEF Below
<1>4. Bad = {}
  <2> SUFFICES ASSUME Bad # {} PROVE FALSE OBVIOUS
  <2>1. PICK k \in Bad : \A y \in Bad : k <= y
    <3>1. Bad \in SUBSET Nat OBVIOUS
    <3> HIDE DEF Bad
    <3> QED BY <3>1, LeastNatural
  <2>2. k \in Nat /\ k <= n /\ ~ Below(k) OBVIOUS
  <2>3. k # 0 BY <1>2, <2>2
  <2>4. k - 1 \in Nat /\ k - 1 <= n /\ k \in 1 .. n /\ ~ (k <= k - 1) BY <1>1, <2>2, <2>3
  <2>5. k - 1 \notin Bad BY <2>1, <2>4
  <2>6. Below(k - 1) BY <2>4, <2>5
  <2> QED BY <1>3, <2>2, <2>4, <2>6
<1>5. Below(n) BY <1>1, <1>4
<1> QED BY <1>5 DEF Below, n

LEMMA ListOfNumbers ==
  ASSUME NEW V \in Seq(Int)
  PROVE  /\ V \in Seq(Int \cup {NotApplicable})
         /\ \A i \in 1 .. Len(V) : V[i] \in Int /\ V[i] # NotApplicable
<1>1. Len(V) \in Nat /\ V \in [1 .. Len(V) -> Int] BY SeqAsFunction
<1>2. V \in [1 .. Len(V) -> Int \cup {NotApplicable}] BY <1>1
<1> QED BY <1>1, <1>2, FunctionAsSeq, NotApplicableAssumption

LEMMA ListOfNaturals ==
  ASSUME NEW V \in Seq(Nat)
  PROVE  V \in Seq(Int) /\ V \in Seq(Nat \cup {NotApplicable})
<1>1. Len(V) \in Nat /\ V \in [1 .. Len(V) -> Nat] BY SeqAsFunction
<1>2. V \in [1 .. Len(V) -> Int] /\ V \in [1 .. Len(V) -> Nat \cup {NotApplicable}] BY <1>1
<1> QED BY <1>1, <1>2, FunctionAsSeq

LEMMA MeanAmongValues ==
  ASSUME NEW V \in Seq(Nat \cup {NotApplicable}), NEW k \in 1 .. Len(V),
         V[k] # NotApplicable, NEW D, D = {V[i] : i \in 1 .. Len(V)} \ {NotApplicable}
  PROVE  Aggregate(V).mean \in 1000 * Min(D) .. 1000 * Max(D)
<1> DEFINE n == Len(V)
           s == Numbers(V)
<1>1. n \in Nat /\ V \in [1 .. n -> Nat \cup {NotApplicable}]
      /\ \A i \in 1 .. n : V[i] \in Nat \cup {NotApplicable}
  BY SeqAsFunction, ElementOfSeq
<1>2. V \in Seq(Int \cup {NotApplicable})
  <2>1. V \in [1 .. n -> Int \cup {NotApplicable}] BY <1>1
  <2> HIDE DEF n
  <2> QED BY <1>1, <2>1, FunctionAsSeq
<1>3. /\ Aggregate(V).mean = MeanOf(s) /\ s \in Seq(Int) /\ s # <<>>
      /\ \A j \in 1 .. Len(s) : \E i \in 1 .. n : V[i] # NotApplicable /\ s[j] = V[i]
  BY <1>2, AggregateOf, NumbersAre DEF Present
<1>4. PICK m \in Nat : \A i \in 1 .. n : V[i] # NotApplicable => V[i] <= m BY BoundedList
<1>5. D \in SUBSET (0 .. m) /\ D # {}
  <2>1. V[k] \in D OBVIOUS
  <2>2. ASSUME NEW x \in D PROVE x \in 0 .. m
    <3>1. PICK i \in 1 .. n : x = V[i] /\ x # NotApplicable OBVIOUS
    <3>2. x \in Nat /\ x <= m BY <1>1, <1>4, <3>1
    <3> QED BY <3>2
  <2> QED BY <2>1, <2>2
<1>6. D \in SUBSET Nat BY <1>5
<1>7. Min(D) \in D /\ \A y \in D : Min(D) <= y BY <1>5, <1>6, MinOfNaturals
<1>8. Max(D) \in D /\ \A y \in D : y <= Max(D) BY <1>5, MaxOfBounded
<1>9. \A j \in 1 .. Len(s) : Min(D) <= s[j] /\ s[j] <= Max(D)
  <2> TAKE j \in 1 .. Len(s)
  <2>1. PICK i \in 1 .. n : V[i] # NotApplicable /\ s[j] = V[i] BY <1>3
  <2>2. s[j] \in D BY <2>1
  <2> QED BY <1>7, <1>8, <2>2
<1>10. Min(D) \in Int /\ Max(D) \in Int BY <1>6, <1>7, <1>8
<1> HIDE DEF s
<1>11. Within(s, Min(D), Max(D)) BY <1>9 DEF Within
<1>12. MeanFits(s, Min(D), Max(D)) BY <1>3, <1>10, <1>11, MeanWithin, Zenon
<1> QED BY <1>3, <1>12 DEF MeanFits

-------------------------------------------------------------------------------
(* What a single report says: every attack record lies in a maximal run,   *)
(* and so an attack with an alarm has a delay.                             *)
LEMMA RunAround ==
  ASSUME NEW truth \in Seq(BOOLEAN), NEW i \in 1 .. Len(truth), truth[i]
  PROVE  \E e : MaximalRun(truth, e) /\ i \in e[1] .. e[2]
<1> DEFINE n == Len(truth)
           A == {a \in 1 .. i : \A j \in a .. i : truth[j]}
           B == {b \in i .. n : \A j \in i .. b : truth[j]}
<1>1. n \in Nat /\ DOMAIN truth = 1 .. n /\ i \in 1 .. n BY SeqAsFunction
<1> HIDE DEF n
<1>2. PICK a \in A : \A y \in A : a <= y
  <2>1. i \in A BY <1>1
  <2>2. A \in SUBSET Nat OBVIOUS
  <2> HIDE DEF A
  <2> QED BY <2>1, <2>2, LeastNatural
<1>3. PICK b \in B : \A y \in B : y <= b
  <2>1. i \in B BY <1>1
  <2>2. B \in SUBSET (0 .. n) BY <1>1
  <2> HIDE DEF B
  <2>3. Max(B) \in B /\ \A y \in B : y <= Max(B) BY <1>1, <2>1, <2>2, MaxOfBounded
  <2> QED BY <2>3
<1> DEFINE e == <<a, b>>
<1>4. a \in 1 .. n /\ b \in 1 .. n /\ a <= i /\ i <= b /\ a \in Nat /\ b \in Nat BY <1>1
<1>5. \A j \in a .. b : truth[j]
  <2> TAKE j \in a .. b
  <2>1. j \in a .. i \/ j \in i .. b BY <1>1, <1>4
  <2> QED BY <2>1
<1>6. a = 1 \/ ~ truth[a - 1]
  <2> SUFFICES ASSUME a # 1, truth[a - 1] PROVE FALSE OBVIOUS
  <2>1. a - 1 \in 1 .. i /\ ~ (a <= a - 1) BY <1>1, <1>4
  <2>2. \A j \in a - 1 .. i : j = a - 1 \/ j \in a .. i BY <1>1, <1>4
  <2>3. \A j \in a - 1 .. i : truth[j] BY <2>2
  <2>4. a - 1 \in A BY <2>1, <2>3
  <2> QED BY <1>2, <2>1, <2>4
<1>7. b = n \/ ~ truth[b + 1]
  <2> SUFFICES ASSUME b # n, truth[b + 1] PROVE FALSE OBVIOUS
  <2>1. b + 1 \in i .. n /\ ~ (b + 1 <= b) BY <1>1, <1>4
  <2>2. \A j \in i .. b + 1 : j = b + 1 \/ j \in i .. b BY <1>1, <1>4
  <2>3. \A j \in i .. b + 1 : truth[j] BY <2>2
  <2>4. b + 1 \in B BY <2>1, <2>3
  <2> QED BY <1>3, <2>1, <2>4
<1> HIDE DEF A, B
<1>8. e[1] = a /\ e[2] = b /\ e \in (1 .. n) \X (1 .. n) BY <1>4
<1> HIDE DEF e
<1>9. MaximalRun(truth, e)
  <2>1. e \in (DOMAIN truth) \X (DOMAIN truth) BY <1>1, <1>8
  <2>2. e[1] <= e[2] BY <1>1, <1>4, <1>8
  <2>3. \A j \in e[1] .. e[2] : truth[j] BY <1>5, <1>8
  <2>4. e[1] = 1 \/ ~ truth[e[1] - 1] BY <1>6, <1>8
  <2>5. e[2] = Len(truth) \/ ~ truth[e[2] + 1] BY <1>7, <1>8 DEF n
  <2> QED BY <2>1, <2>2, <2>3, <2>4, <2>5 DEF MaximalRun
<1>10. i \in e[1] .. e[2] BY <1>1, <1>4, <1>8
<1> QED BY <1>9, <1>10

(* The delays of the corrected runner, in milliseconds.                    *)
LEMMA DelayTyped ==
  ASSUME yTrue \in Seq(BOOLEAN), yPred \in Seq(BOOLEAN), Len(yPred) = Len(yTrue), TimesInv,
         NEW e, MaximalRun(yTrue, e)
  PROVE  DelayMs(e) \in Seq(Nat)
<1> DEFINE n == Len(yTrue)
           alarms == AlarmsIn(e, yPred)
           m == Min(alarms)
<1>1. n \in Nat /\ DOMAIN yTrue = 1 .. n BY SeqAsFunction
<1>2. e \in (1 .. n) \X (1 .. n) BY <1>1 DEF MaximalRun
<1>3. e[1] \in 1 .. n /\ e[2] \in 1 .. n BY <1>2
<1>4. alarms \subseteq e[1] .. e[2] BY DEF AlarmsIn
<1>5. latencies \in Seq(Nat) /\ Len(latencies) = n BY DEF TimesInv
<1>6. DelayMs(e) = IF alarms = {} THEN <<>> ELSE <<m - e[1] + latencies[m]>>
  BY DEF DelayMs
<1> HIDE DEF n, alarms
<1>7. CASE alarms = {} BY <1>6, <1>7
<1>8. CASE alarms # {}
  <2>1. m \in alarms
    <3>1. alarms \in SUBSET Nat BY <1>1, <1>3, <1>4
    <3> QED BY <1>8, <3>1, MinOfNaturals
  <2> HIDE DEF m
  <2>2. m \in 1 .. n /\ m - e[1] \in Nat BY <1>1, <1>3, <1>4, <2>1
  <2>3. latencies[m] \in Nat BY <1>5, <2>2
  <2> DEFINE x == m - e[1] + latencies[m]
  <2>4. x \in Nat BY <2>2, <2>3
  <2>5. DelayMs(e) = <<x>> BY <1>6, <1>8
  <2> HIDE DEF x
  <2> QED BY <2>4, <2>5
<1> QED BY <1>7, <1>8

LEMMA DelaysTell ==
  ASSUME yTrue \in Seq(BOOLEAN), yPred \in Seq(BOOLEAN), Len(yPred) = Len(yTrue), TimesInv
  PROVE  LET delays == DelaysMs(FindFaultEpisodes(yTrue))
         IN  /\ delays \in Seq(Nat)
             /\ delays # <<>> <=> \E i \in 1 .. Len(yTrue) : yTrue[i] /\ yPred[i]
<1> DEFINE found == FindFaultEpisodes(yTrue)
           delays == DelaysMs(found)
           m == Len(found)
           g == [k \in 1 .. m |-> DelayMs(found[k])]
<1>1. /\ found \in Seq(Nat \X Nat)
      /\ \A e : (\E j \in DOMAIN found : found[j] = e) <=> MaximalRun(yTrue, e)
  BY EpisodesFound
<1> HIDE DEF found
<1>2. m \in Nat /\ DOMAIN found = 1 .. m BY <1>1, SeqAsFunction
<1>3. \A k \in 1 .. m : MaximalRun(yTrue, found[k]) BY <1>1, <1>2
<1>4. \A k \in 1 .. m : DelayMs(found[k]) \in Seq(Nat) BY <1>3, DelayTyped
<1>5. delays = FlattenSeq(g) BY <1>2 DEF DelaysMs
<1> HIDE DEF m
<1>6. g \in [1 .. m -> Seq(Nat)] /\ g = [k \in 1 .. m |-> g[k]]
      /\ \A k \in 1 .. m : g[k] = DelayMs(found[k])
  BY <1>4
<1> HIDE DEF g, delays
<1>7. delays = Flat(g, m) BY <1>5, <1>6 DEF Flat
<1>8. delays \in Seq(Nat)
  <2>1. m \in 0 .. m BY <1>2
  <2> QED BY <1>2, <1>6, <1>7, <2>1, FlatStep
<1>9. Len(yTrue) \in Nat /\ DOMAIN yTrue = 1 .. Len(yTrue) BY SeqAsFunction
<1>10. ASSUME NEW i \in 1 .. Len(yTrue), yTrue[i], yPred[i] PROVE delays # <<>>
  <2>1. PICK e : MaximalRun(yTrue, e) /\ i \in e[1] .. e[2] BY <1>10, RunAround
  <2>2. PICK k \in 1 .. m : found[k] = e BY <1>1, <1>2, <2>1
  <2>3. i \in AlarmsIn(e, yPred) BY <1>10, <2>1 DEF AlarmsIn
  <2>4. DelayMs(e) # <<>>
    <3>1. DelayMs(e) = <<Min(AlarmsIn(e, yPred)) - e[1]
                           + latencies[Min(AlarmsIn(e, yPred))]>>
      BY <2>3 DEF DelayMs
    <3> QED BY <3>1
  <2>5. g[k] # <<>> BY <1>6, <2>2, <2>4
  <2> QED BY <1>2, <1>6, <1>7, <2>5, FlatSome
<1>11. ASSUME \A i \in 1 .. Len(yTrue) : ~ (yTrue[i] /\ yPred[i]) PROVE delays = <<>>
  <2>1. \A k \in 1 .. m : g[k] = <<>>
    <3> TAKE k \in 1 .. m
    <3> DEFINE e == found[k]
    <3>1. /\ e \in (1 .. Len(yTrue)) \X (1 .. Len(yTrue))
          /\ \A i \in e[1] .. e[2] : yTrue[i]
      BY <1>3, <1>9 DEF MaximalRun
    <3>2. \A i \in e[1] .. e[2] : i \in 1 .. Len(yTrue) BY <1>9, <3>1
    <3>3. AlarmsIn(e, yPred) = {} BY <1>11, <3>1, <3>2 DEF AlarmsIn
    <3>4. DelayMs(e) = <<>> BY <3>3 DEF DelayMs
    <3> QED BY <1>6, <3>4
  <2> QED BY <1>2, <1>7, <2>1, FlatEmpty
<1>12. delays # <<>> <=> \E i \in 1 .. Len(yTrue) : yTrue[i] /\ yPred[i] BY <1>10, <1>11
<1> QED BY <1>8, <1>12 DEF delays, found

LEMMA MeanOfNaturals ==
  ASSUME NEW s \in Seq(Nat)
  PROVE  MeanOf(s) \in Nat
<1>1. CASE s = <<>> BY <1>1 DEF MeanOf
<1>2. CASE s # <<>>
  <2>1. s \in Seq(Int) /\ s \in Seq(Nat \cup {NotApplicable})
        /\ \A i \in 1 .. Len(s) : s[i] \in Nat /\ s[i] # NotApplicable
    BY ListOfNaturals, ListOfNumbers, ElementOfSeq
  <2>2. PICK m \in Nat : \A i \in 1 .. Len(s) : s[i] # NotApplicable => s[i] <= m
    BY <2>1, BoundedList
  <2>3. Within(s, 0, m) BY <2>1, <2>2 DEF Within
  <2>4. 0 \in Int /\ m \in Int OBVIOUS
  <2>5. MeanFits(s, 0, m) BY <1>2, <2>1, <2>3, <2>4, MeanWithin, Zenon
  <2> QED BY <2>5 DEF MeanFits
<1> QED BY <1>1, <1>2

LEMMA LatencyTyped ==
  ASSUME TrialInv, PairInv, TimesInv
  PROVE  DetectionLatency(Onsets(onsetTimes), Detections(detectTimes)) \in Nat
<1> DEFINE from == Onsets(onsetTimes)
           to == Detections(detectTimes)
           p == Len(onsetTimes)
           q == Len(detectTimes)
           n == Min({Len(from), Len(to)})
           g == [k \in 1 .. n |-> LatencyOf(from[k], to[k])]
<1>1. /\ p \in Nat /\ q \in Nat /\ DOMAIN onsetTimes = 1 .. p /\ DOMAIN detectTimes = 1 .. q
  BY SeqAsFunction DEF PairInv, Paired
<1>2. from \in [1 .. p -> Nat] BY <1>1, TimesTyped DEF Onsets
<1>3. to \in [1 .. q -> Nat]
  <2>1. \A a, b \in Nat : a + b \in Nat OBVIOUS
  <2>2. \A k \in 1 .. q : capture[detectTimes[k]] \in Nat /\ Took(detectTimes[k]) \in Nat
    BY <1>1, TimesTyped
  <2>3. \A k \in 1 .. q : capture[detectTimes[k]] + Took(detectTimes[k]) \in Nat
    BY <2>1, <2>2
  <2> QED BY <1>1, <2>3 DEF Detections
<1> HIDE DEF from, to, p, q
<1>4. Len(from) = p /\ Len(to) = q BY <1>1, <1>2, <1>3, FunctionAsSeq
<1>5. n \in Nat /\ n <= p /\ n <= q
  <2>1. p \in Int /\ q \in Int BY <1>1
  <2> QED BY <1>1, <1>4, <2>1, MinOfTwo
<1>6. PairedDelays(from, to) = FlattenSeq(g) BY DEF PairedDelays
<1> HIDE DEF n
<1>7. \A k \in 1 .. n : LatencyOf(from[k], to[k]) \in Seq(Nat)
  <2> TAKE k \in 1 .. n
  <2>1. k \in 1 .. p /\ k \in 1 .. q BY <1>1, <1>5
  <2> DEFINE a == from[k]
             b == to[k]
  <2>2. a \in Nat /\ b \in Nat BY <1>2, <1>3, <2>1
  <2> HIDE DEF a, b
  <2>3. a \in Nat /\ b \in Nat => LatencyOf(a, b) \in Seq(Nat)
    <3>1. \A x \in Nat : <<x>> \in Seq(Nat) OBVIOUS
    <3>2. a \in Nat /\ b \in Nat /\ b >= a => b - a \in Nat OBVIOUS
    <3> QED BY <3>1, <3>2 DEF LatencyOf
  <2> QED BY <2>2, <2>3 DEF a, b
<1>8. g \in [1 .. n -> Seq(Nat)] /\ g = [k \in 1 .. n |-> g[k]] BY <1>7
<1> HIDE DEF g
<1>9. FlattenSeq(g) = Flat(g, n) BY <1>8 DEF Flat
<1>10. n \in 0 .. n BY <1>5
<1>11. FlattenSeq(g) \in Seq(Nat)
  <2>1. n \in Nat /\ g \in [1 .. n -> Seq(Nat)] BY <1>5, <1>8
  <2>2. \A k \in 0 .. n : Flat(g, k) \in Seq(Nat) BY <2>1, FlatStep
  <2> QED BY <1>9, <1>10, <2>2
<1>12. MeanOf(PairedDelays(from, to)) \in Nat BY <1>6, <1>11, MeanOfNaturals
<1> QED BY <1>12 DEF DetectionLatency, from, to

(* A report of a trial with as many attack records, by an algorithm that   *)
(* detects or does not.                                                    *)
Told(r, attacks, detects) ==
  LET c == r.corrected.confusion
  IN  /\ r.corrected.mttd \in Nat \cup {NotApplicable}
      /\ detects =>
           /\ c.tp \in Nat /\ c.fn \in Nat /\ c.tp + c.fn = attacks
           /\ r.corrected.mttd = NotApplicable <=> c.tp = 0
           /\ r.full.mttd = NotApplicable <=> c.tp = 0
      /\ ~ detects => r.corrected.mttd = NotApplicable /\ r.full.mttd = NotApplicable

(* The list of the attacks has one time of each.                           *)
Attacks(truth) == {i \in DOMAIN truth : truth[i]}

CountInv == Len(onsetTimes) = Cardinality(Attacks(yTrue))

LEMMA CountInitial == HInit => CountInv
<1> SUFFICES ASSUME HInit PROVE CountInv OBVIOUS
<1>1. onsetTimes = <<>> /\ yTrue = <<>> BY DEF HInit, Init
<1>2. DOMAIN yTrue = {} BY <1>1
<1>3. Attacks(yTrue) = {} BY <1>2 DEF Attacks
<1>4. Len(onsetTimes) = 0 BY <1>1
<1> QED BY <1>3, <1>4, FS_EmptySet DEF CountInv

LEMMA CountScored ==
  ASSUME NEW o \in Seq(Nat), NEW truth \in Seq(BOOLEAN), NEW p \in Nat, NEW fault \in BOOLEAN,
         Len(o) = Cardinality(Attacks(truth))
  PROVE  Len(Noted(o, p, fault)) = Cardinality(Attacks(Append(truth, fault)))
<1> DEFINE n == Len(truth)
           k == Len(truth) + 1
           D == Attacks(truth)
           t == Append(truth, fault)
           E == Attacks(t)
<1>1. n \in Nat /\ DOMAIN truth = 1 .. n /\ Len(o) \in Nat BY SeqAsFunction
<1>2. /\ DOMAIN t = 1 .. n + 1 /\ t[n + 1] = fault
      /\ \A i \in 1 .. n : t[i] = truth[i]
  BY <1>1
<1>3. D \subseteq 1 .. n BY <1>1 DEF Attacks
<1>4. k \in Nat /\ k = n + 1 BY <1>1
<1>5. E = D \cup (IF fault THEN {k} ELSE {})
  <2>1. \A i \in 1 .. n + 1 : i = n + 1 \/ i \in 1 .. n BY <1>1
  <2>2. \A i \in 1 .. n : i \in 1 .. n + 1 /\ i # n + 1 BY <1>1
  <2>3. n + 1 \in 1 .. n + 1 BY <1>1
  <2>4. D = {i \in 1 .. n : truth[i]} BY <1>1 DEF Attacks
  <2>5. E = {i \in 1 .. n + 1 : t[i]} BY <1>2 DEF Attacks
  <2> HIDE DEF n, t, D, E, k
  <2>6. CASE fault BY <1>2, <1>4, <2>1, <2>2, <2>3, <2>4, <2>5, <2>6
  <2>7. CASE ~ fault BY <1>2, <1>4, <2>1, <2>2, <2>3, <2>4, <2>5, <2>7
  <2> QED BY <2>6, <2>7
<1>6. Len(Noted(o, p, fault)) = Len(o) + (IF fault THEN 1 ELSE 0)
  <2>1. CASE fault BY <2>1, OneTimeMore DEF Noted
  <2>2. CASE ~ fault BY <1>1, <2>2 DEF Noted
  <2> QED BY <2>1, <2>2
<1> HIDE DEF n, k, D, E, t
<1>7. Cardinality(E) = Cardinality(D) + (IF fault THEN 1 ELSE 0)
  BY <1>1, <1>3, <1>4, <1>5, OneMore
<1> QED BY <1>6, <1>7 DEF D, E, t

LEMMA CountKept == TrialInv /\ PairInv /\ CountInv /\ [HNext]_hvars => CountInv'
<1> SUFFICES ASSUME TrialInv, PairInv, CountInv, [HNext]_hvars PROVE CountInv'
  OBVIOUS
<1>1. yTrue \in Seq(BOOLEAN) /\ onsetTimes \in Seq(Nat) /\ position \in Nat
  BY DEF TrialInv, ScoreInv, PairInv, Paired
<1>2. CASE UNCHANGED <<yTrue, onsetTimes>> BY <1>2 DEF CountInv
<1>3. ASSUME NEW fault \in BOOLEAN, NEW alarm \in BOOLEAN, NEW moved \in BOOLEAN,
             Process(fault, alarm, moved)
      PROVE  CountInv'
  <2>1. Score(fault, alarm, moved) BY <1>3, ProcessScores
  <2>2. CASE IsWarmup BY <1>2, <2>1, <2>2 DEF Score, scoreVars
  <2>3. CASE ~ IsWarmup
    <3>1. yTrue' = Append(yTrue, fault) /\ onsetTimes' = Noted(onsetTimes, position, fault)
      BY <2>1, <2>3 DEF Score
    <3>2. Len(Noted(onsetTimes, position, fault)) = Cardinality(Attacks(Append(yTrue, fault)))
      BY <1>1, CountScored DEF CountInv
    <3> QED BY <3>1, <3>2 DEF CountInv
  <2> QED BY <2>2, <2>3
<1>4. CASE Start \/ Finish BY <1>2, <1>4 DEF Start, Finish, scoreVars
<1>5. CASE UNCHANGED hvars BY <1>2, <1>5 DEF hvars, vars, scoreVars
<1> QED BY <1>3, <1>4, <1>5 DEF HNext

(* The attacks are those of the labels behind the warm-up, the same in     *)
(* every trial over the same data.                                         *)
Evaluated(labels) ==
  {i \in 1 .. Len(labels) : config.warmup + i <= Len(labels) /\ labels[config.warmup + i]}

LEMMA LabelsOf ==
  ASSUME NEW h \in Seq(Delivery)
  PROVE  /\ Truths(h) \in Seq(BOOLEAN) /\ Len(Truths(h)) = Len(h)
         /\ \A i \in 1 .. Len(h) : Truths(h)[i] = h[i].fault /\ h[i] \in Delivery
<1>1. /\ Len(h) \in Nat /\ DOMAIN h = 1 .. Len(h)
      /\ \A i \in 1 .. Len(h) : h[i] \in Delivery
  BY SeqAsFunction, ElementOfSeq
<1>2. \A i \in 1 .. Len(h) : h[i].fault \in BOOLEAN BY <1>1 DEF Delivery
<1>3. /\ Truths(h) \in [1 .. Len(h) -> BOOLEAN]
      /\ \A i \in 1 .. Len(h) : Truths(h)[i] = h[i].fault
  BY <1>1, <1>2 DEF Truths
<1> QED BY <1>1, <1>3, FunctionAsSeq

LEMMA AttacksOfLabels ==
  ASSUME TrialInv
  PROVE  Attacks(yTrue) = Evaluated(Truths(delivered))
<1> DEFINE l == Len(delivered)
           w == config.warmup
           n == Len(yTrue)
<1>1. /\ delivered \in Seq(Delivery) /\ config \in Settings /\ yTrue \in Seq(BOOLEAN)
      /\ Len(yTrue) = Cardinality(Scored)
      /\ \A i \in DOMAIN yTrue : yTrue[i] = delivered[config.warmup + i].fault
  BY DEF TrialInv, HistoryTyped, ScoreInv, ScoresAligned
<1>2. w \in Nat /\ l \in Nat /\ DOMAIN yTrue = 1 .. n /\ n = IF l > w THEN l - w ELSE 0
  BY <1>1, SettingTypes, ScoredInterval, SeqAsFunction
<1>3. /\ Len(Truths(delivered)) = l
      /\ \A i \in 1 .. l : Truths(delivered)[i] = delivered[i].fault
  BY <1>1, LabelsOf
<1> DEFINE labels == Truths(delivered)
<1>4. \A i \in 1 .. n : yTrue[i] = delivered[w + i].fault BY <1>1, <1>2
<1>5. Evaluated(labels) = {i \in 1 .. l : w + i <= l /\ labels[w + i]} BY <1>3 DEF Evaluated
<1>6. Attacks(yTrue) = {i \in 1 .. n : yTrue[i]} BY <1>2 DEF Attacks
<1> HIDE DEF l, w, n, labels
<1>7. \A i \in 1 .. n : i \in 1 .. l /\ w + i <= l /\ w + i \in 1 .. l BY <1>2
<1>8. \A i \in 1 .. l : w + i <= l => i \in 1 .. n /\ w + i \in 1 .. l BY <1>2
<1>9. \A i \in 1 .. l : labels[i] = delivered[i].fault BY <1>3 DEF labels
<1> QED BY <1>4, <1>5, <1>6, <1>7, <1>8, <1>9 DEF labels

LEMMA CorrectedFields ==
  /\ CorrectedReport.confusion = When(Detects, ConfusionOf(yTrue, yPred))
  /\ CorrectedReport.mttd
       = IF Detects THEN When(DelaysMs(FindFaultEpisodes(yTrue)) # <<>>,
                              MeanOf(DelaysMs(FindFaultEpisodes(yTrue))))
         ELSE NotApplicable
BY DEF CorrectedReport, EpisodeMttd

(* The attacks are the true positives and the false negatives.             *)
LEMMA AttacksSplit ==
  ASSUME yTrue \in Seq(BOOLEAN), yPred \in Seq(BOOLEAN), Len(yPred) = Len(yTrue)
  PROVE  LET c == ConfusionOf(yTrue, yPred)
         IN  /\ c.tp \in Nat /\ c.fn \in Nat
             /\ c.tp + c.fn = Cardinality(Attacks(yTrue))
             /\ c.tp = 0 <=> ~ \E i \in 1 .. Len(yTrue) : yTrue[i] /\ yPred[i]
<1> DEFINE n == Len(yTrue)
           A == {i \in DOMAIN yTrue : yTrue[i] = TRUE /\ yPred[i] = TRUE}
           B == {i \in DOMAIN yTrue : yTrue[i] = TRUE /\ yPred[i] = FALSE}
           c == ConfusionOf(yTrue, yPred)
<1>1. c.tp = Cardinality(A) /\ c.fn = Cardinality(B) BY DEF ConfusionOf, Cell
<1>2. /\ n \in Nat /\ DOMAIN yTrue = 1 .. n
      /\ \A i \in 1 .. n : yTrue[i] \in BOOLEAN /\ yPred[i] \in BOOLEAN
  BY SeqAsFunction, ElementOfSeq
<1>3. A \in SUBSET (1 .. n) /\ B \in SUBSET (1 .. n) BY <1>2
<1>4. A \cap B = {} OBVIOUS
<1>5. A \cup B = Attacks(yTrue) BY <1>2 DEF Attacks
<1>6. A = {} <=> ~ \E i \in 1 .. n : yTrue[i] /\ yPred[i] BY <1>2
<1> HIDE DEF A, B, n, c
<1>7. IsFiniteSet(1 .. n)
  <2>1. 1 \in Int /\ n \in Int BY <1>2
  <2> QED BY <2>1, FS_Interval
<1>8. IsFiniteSet(A) /\ IsFiniteSet(B) BY <1>3, <1>7, FS_Subset
<1>9. Cardinality(A) \in Nat /\ Cardinality(B) \in Nat BY <1>8, FS_CardinalityType
<1>10. Cardinality(A \cup B) = Cardinality(A) + Cardinality(B)
  BY <1>4, <1>8, DisjointUnion
<1>11. Cardinality(A) = 0 <=> A = {} BY <1>8, FS_EmptySet
<1> QED BY <1>1, <1>5, <1>6, <1>9, <1>10, <1>11 DEF n, c

(* The detections that the full runner pairs are the true positives.       *)
LEMMA DetectionsTell ==
  ASSUME TrialInv
  PROVE  detectTimes # <<>> <=> \E i \in 1 .. Len(yTrue) : yTrue[i] /\ yPred[i]
<1> DEFINE l == Len(delivered)
           w == config.warmup
           n == Len(yTrue)
           T == {j \in Scored : delivered[j].fault /\ delivered[j].alarm}
<1>1. /\ delivered \in Seq(Delivery) /\ config \in Settings /\ yTrue \in Seq(BOOLEAN)
      /\ detectTimes \in Seq(Nat)
      /\ Len(yTrue) = Cardinality(Scored)
      /\ \A i \in DOMAIN yTrue : /\ yTrue[i] = delivered[config.warmup + i].fault
                                 /\ yPred[i] = delivered[config.warmup + i].alarm
      /\ ToSet(detectTimes) = {i - 1 : i \in T}
  BY DEF TrialInv, HistoryTyped, ScoreInv, ScoresAligned
<1>2. /\ w \in Nat /\ l \in Nat /\ DOMAIN yTrue = 1 .. n /\ n = IF l > w THEN l - w ELSE 0
      /\ Scored = w + 1 .. l
  BY <1>1, SettingTypes, ScoredInterval, SeqAsFunction
<1>3. \A i \in 1 .. n : yTrue[i] = delivered[w + i].fault /\ yPred[i] = delivered[w + i].alarm
  BY <1>1, <1>2
<1>4. T = {j \in w + 1 .. l : delivered[j].fault /\ delivered[j].alarm} BY <1>2
<1> HIDE DEF l, w, n, T
<1>5. T # {} <=> \E i \in 1 .. n : yTrue[i] /\ yPred[i]
  <2>1. ASSUME NEW j \in T PROVE \E i \in 1 .. n : yTrue[i] /\ yPred[i]
    <3>1. j \in w + 1 .. l /\ delivered[j].fault /\ delivered[j].alarm BY <1>4
    <3>2. j - w \in 1 .. n /\ w + (j - w) = j BY <1>2, <3>1
    <3>3. /\ yTrue[j - w] = delivered[w + (j - w)].fault
          /\ yPred[j - w] = delivered[w + (j - w)].alarm
      BY <1>3, <3>2
    <3> QED BY <3>1, <3>2, <3>3
  <2>2. ASSUME NEW i \in 1 .. n, yTrue[i] /\ yPred[i] PROVE T # {}
    <3>1. w + i \in w + 1 .. l BY <1>2
    <3>2. delivered[w + i].fault /\ delivered[w + i].alarm BY <1>3, <2>2
    <3>3. w + i \in T BY <1>4, <3>1, <3>2
    <3> QED BY <3>3
  <2> QED BY <2>1, <2>2
<1>6. detectTimes # <<>> <=> T # {}
  <2>1. ToSet(detectTimes) = {detectTimes[k] : k \in 1 .. Len(detectTimes)}
        /\ Len(detectTimes) \in Nat
    BY <1>1, SeqAsFunction DEF ToSet
  <2>2. ASSUME T = {} PROVE detectTimes = <<>>
    <3>1. ToSet(detectTimes) = {} BY <1>1, <2>2
    <3>2. 1 \notin 1 .. Len(detectTimes) BY <2>1, <3>1
    <3>3. Len(detectTimes) = 0 BY <2>1, <3>2
    <3> QED BY <1>1, <3>3, EmptySeq
  <2>3. ASSUME detectTimes = <<>> PROVE T = {}
    <3>1. Len(detectTimes) = 0 BY <2>3
    <3>2. ToSet(detectTimes) = {} BY <2>1, <3>1
    <3> QED BY <1>1, <3>2
  <2> QED BY <2>2, <2>3
<1> QED BY <1>5, <1>6 DEF n

LEMMA ReportTold ==
  ASSUME TrialInv, PairInv, CountInv, TimesInv
  PROVE  Told(Report, Len(onsetTimes), Detects)
<1> DEFINE c == ConfusionOf(yTrue, yPred)
           some == \E i \in 1 .. Len(yTrue) : yTrue[i] /\ yPred[i]
           delays == DelaysMs(FindFaultEpisodes(yTrue))
           latency == DetectionLatency(Onsets(onsetTimes), Detections(detectTimes))
<1>1. yTrue \in Seq(BOOLEAN) /\ yPred \in Seq(BOOLEAN) /\ Len(yPred) = Len(yTrue)
  BY DEF TrialInv, ScoreInv, ScoresAligned
<1>2. /\ c.tp \in Nat /\ c.fn \in Nat /\ c.tp + c.fn = Len(onsetTimes)
      /\ c.tp = 0 <=> ~ some
  BY <1>1, AttacksSplit DEF CountInv
<1>3. delays \in Seq(Nat) /\ (delays # <<>> <=> some) BY <1>1, DelaysTell
<1>4. MeanOf(delays) \in Nat BY <1>3, MeanOfNaturals
<1>5. latency \in Nat BY LatencyTyped
<1>6. detectTimes # <<>> <=> some BY DetectionsTell
<1>7. \A x \in Nat : x # NotApplicable BY NotApplicableAssumption
<1>8. /\ Report.full.mttd = When(Detects /\ detectTimes # <<>>, latency)
      /\ Report.corrected.confusion = When(Detects, c)
      /\ Report.corrected.mttd
           = IF Detects THEN When(delays # <<>>, MeanOf(delays)) ELSE NotApplicable
  <2>1. Report.full = FullReport /\ Report.corrected = CorrectedReport BY DEF Report
  <2> QED BY <2>1, MttdField, CorrectedFields
<1> DEFINE r == Report
<1> HIDE DEF c, some, delays, latency, r
<1>9. r.corrected.mttd \in Nat \cup {NotApplicable} BY <1>4, <1>8 DEF When, r
<1>10. ASSUME Detects
       PROVE  /\ r.corrected.confusion.tp \in Nat /\ r.corrected.confusion.fn \in Nat
              /\ r.corrected.confusion.tp + r.corrected.confusion.fn = Len(onsetTimes)
              /\ r.corrected.mttd = NotApplicable <=> r.corrected.confusion.tp = 0
              /\ r.full.mttd = NotApplicable <=> r.corrected.confusion.tp = 0
  <2>1. r.corrected.confusion = c BY <1>8, <1>10 DEF When, r
  <2>2. r.corrected.mttd = IF some THEN MeanOf(delays) ELSE NotApplicable
    BY <1>3, <1>8, <1>10 DEF When, r
  <2>3. r.full.mttd = IF some THEN latency ELSE NotApplicable
    BY <1>6, <1>8, <1>10 DEF When, r
  <2>4. some \/ ~ some BY DEF some
  <2>5. /\ r.corrected.mttd = NotApplicable <=> c.tp = 0
        /\ r.full.mttd = NotApplicable <=> c.tp = 0
    BY <1>2, <1>4, <1>5, <1>7, <2>2, <2>3, <2>4
  <2> QED BY <1>2, <2>1, <2>5
<1>11. ASSUME ~ Detects
       PROVE  r.corrected.mttd = NotApplicable /\ r.full.mttd = NotApplicable
  BY <1>8, <1>11 DEF When, r
<1>12. Told(r, Len(onsetTimes), Detects)
  <2> HIDE DEF Detects
  <2> QED BY <1>9, <1>10, <1>11 DEF Told
<1> QED BY <1>12 DEF r

-------------------------------------------------------------------------------
(* What the earlier trials of a campaign have left: reports over the data  *)
(* of this one.                                                            *)
CampaignInv ==
  /\ Len(trials) \in Nat /\ Len(trials) < Seeds
  /\ trials \in Seq({trials[k] : k \in 1 .. Len(trials)})
  /\ trials # <<>> =>
       dataset \in Seq(BOOLEAN) /\ (phase = "finished" => Truths(delivered) = dataset)
  /\ \A k \in 1 .. Len(trials) :
       Told(trials[k], Cardinality(Evaluated(dataset)), Detects)

LEMMA ListAppended ==
  ASSUME NEW s, Len(s) \in Nat, s \in Seq({s[k] : k \in 1 .. Len(s)}), NEW x
  PROVE  LET t == Append(s, x)
         IN  /\ Len(t) = Len(s) + 1 /\ t[Len(s) + 1] = x
             /\ \A k \in 1 .. Len(s) : t[k] = s[k]
             /\ t \in Seq({t[k] : k \in 1 .. Len(t)})
             /\ DOMAIN t = 1 .. Len(t) /\ t # <<>>
<1> DEFINE n == Len(s)
           S == {s[k] : k \in 1 .. Len(s)} \cup {x}
           t == Append(s, x)
           T == {t[k] : k \in 1 .. Len(t)}
<1>1. s \in Seq(S) /\ x \in S /\ n \in Nat
  <2>1. s \in [1 .. Len(s) -> {s[k] : k \in 1 .. Len(s)}] BY SeqAsFunction
  <2>2. s \in [1 .. Len(s) -> S] BY <2>1
  <2>3. x \in S OBVIOUS
  <2> HIDE DEF S
  <2> QED BY <2>2, <2>3, SeqAsFunction, FunctionAsSeq
<1> HIDE DEF S
<1>2. /\ t \in Seq(S) /\ Len(t) = n + 1 /\ t[n + 1] = x
      /\ \A k \in 1 .. n : t[k] = s[k]
  BY <1>1
<1> HIDE DEF t
<1>3. DOMAIN t = 1 .. Len(t) /\ t = [k \in 1 .. Len(t) |-> t[k]] /\ Len(t) \in Nat
  BY <1>2, SeqAsFunction
<1>4. t \in [1 .. Len(t) -> T]
  <2>1. \A k \in 1 .. Len(t) : t[k] \in T OBVIOUS
  <2> HIDE DEF T
  <2> QED BY <1>3, <2>1
<1> HIDE DEF T
<1>5. t \in Seq(T) BY <1>3, <1>4, FunctionAsSeq
<1>6. t # <<>> BY <1>1, <1>2
<1> QED BY <1>2, <1>3, <1>5, <1>6 DEF t, T, n

LEMMA SamePrefix ==
  ASSUME NEW s \in Seq(BOOLEAN), NEW t \in Seq(BOOLEAN), IsPrefix(s, t), Len(s) = Len(t)
  PROVE  s = t
<1>1. /\ Len(s) \in Nat /\ s = [i \in 1 .. Len(s) |-> s[i]]
      /\ t = [i \in 1 .. Len(s) |-> t[i]]
  BY SeqAsFunction
<1>2. SubSeq(s, 1, Len(s)) = SubSeq(t, 1, Len(s)) BY DEF IsPrefix
<1>3. /\ SubSeq(s, 1, Len(s)) = [i \in 1 .. Len(s) |-> s[i]]
      /\ SubSeq(t, 1, Len(s)) = [i \in 1 .. Len(s) |-> t[i]]
  BY <1>1
<1> QED BY <1>1, <1>2, <1>3

LEMMA HarnessKept ==
  ASSUME [HNext]_hvars
  PROVE  algorithm' = algorithm /\ config' = config
<1>1. ASSUME NEW fault \in BOOLEAN, NEW alarm \in BOOLEAN, NEW moved \in BOOLEAN,
             Process(fault, alarm, moved)
      PROVE  algorithm' = algorithm /\ config' = config
  BY <1>1, ProcessScores DEF Score, harnessVars
<1>2. CASE Start \/ Finish BY <1>2 DEF Start, Finish, harnessVars
<1>3. CASE UNCHANGED hvars BY <1>3 DEF hvars, vars, harnessVars
<1> QED BY <1>1, <1>2, <1>3 DEF HNext

LEMMA CampaignInitial == CampaignInit => CampaignInv
<1> SUFFICES ASSUME CampaignInit PROVE CampaignInv OBVIOUS
<1>1. trials = <<>> BY DEF CampaignInit
<1>2. Len(trials) = 0 /\ 1 .. Len(trials) = {} BY <1>1
<1>3. \A S : <<>> \in Seq(S) OBVIOUS
<1>4. Len(trials) \in Nat /\ Len(trials) < Seeds BY <1>2, CampaignAssumption
<1> QED BY <1>1, <1>2, <1>3, <1>4 DEF CampaignInv

LEMMA TrialStepTold ==
  ASSUME TrialInv', CampaignInv, TrialStep
  PROVE  CampaignInv'
<1>1. HNext /\ trials' = trials /\ dataset' = dataset /\ (trials # <<>> => SameData)
  BY DEF TrialStep, campaign
<1>2. algorithm' = algorithm /\ config' = config BY <1>1, HarnessKept
<1>3. Detects' <=> Detects
  BY <1>2 DEF Detects, Supports
<1>4. Evaluated(dataset)' = Evaluated(dataset) BY <1>1, <1>2 DEF Evaluated
<1>5. \A k \in 1 .. Len(trials') :
        Told(trials'[k], Cardinality(Evaluated(dataset)'), Detects')
  BY <1>1, <1>3, <1>4 DEF CampaignInv, Told
<1>6. ASSUME trials # <<>>, phase' = "finished" PROVE Truths(delivered') = dataset
  <2>1. IsPrefix(Truths(delivered'), dataset) /\ Len(delivered') = Len(dataset)
    BY <1>1, <1>6 DEF SameData
  <2>2. delivered' \in Seq(Delivery) BY DEF TrialInv, HistoryTyped
  <2>3. Truths(delivered') \in Seq(BOOLEAN) /\ Len(Truths(delivered')) = Len(delivered')
    BY <2>2, LabelsOf
  <2>4. dataset \in Seq(BOOLEAN) BY <1>6 DEF CampaignInv
  <2> QED BY <2>1, <2>3, <2>4, SamePrefix
<1>7. /\ Len(trials') \in Nat /\ Len(trials') < Seeds
      /\ trials' \in Seq({trials'[k] : k \in 1 .. Len(trials')})
      /\ trials' # <<>> =>
           dataset' \in Seq(BOOLEAN) /\ (phase' = "finished" => Truths(delivered') = dataset')
  BY <1>1, <1>6 DEF CampaignInv
<1> QED BY <1>5, <1>7 DEF CampaignInv

(* At the end of a trial all reports are over the same attacks.            *)
LEMMA AllTold ==
  ASSUME TrialInv, PairInv, CountInv, TimesInv, CampaignInv, phase = "finished"
  PROVE  LET reports == Append(trials, Report)
         IN  /\ reports \in Seq({reports[k] : k \in 1 .. Len(reports)})
             /\ Len(reports) = Len(trials) + 1 /\ Len(reports) \in Nat
             /\ Len(reports) <= Seeds /\ DOMAIN reports = 1 .. Len(reports)
             /\ \A k \in 1 .. Len(reports) :
                  Told(reports[k], Len(onsetTimes), Detects)
             /\ Len(onsetTimes) = Cardinality(Evaluated(Truths(delivered)))
<1> DEFINE reports == Append(trials, Report)
           n == Len(trials)
           A == Len(onsetTimes)
<1>1. Told(Report, A, Detects) BY ReportTold
<1>2. A = Cardinality(Evaluated(Truths(delivered))) BY AttacksOfLabels DEF CountInv
<1>3. /\ n \in Nat /\ n < Seeds /\ trials \in Seq({trials[k] : k \in 1 .. n})
      /\ n # 0 => Truths(delivered) = dataset
      /\ \A k \in 1 .. n : Told(trials[k], Cardinality(Evaluated(dataset)), Detects)
  BY DEF CampaignInv
<1>4. /\ Len(reports) = n + 1 /\ reports[n + 1] = Report
      /\ \A k \in 1 .. n : reports[k] = trials[k]
      /\ reports \in Seq({reports[k] : k \in 1 .. Len(reports)})
      /\ DOMAIN reports = 1 .. Len(reports)
  BY <1>3, ListAppended
<1> HIDE DEF reports, n, A
<1>5. \A k \in 1 .. Len(reports) : Told(reports[k], A, Detects)
  <2> TAKE k \in 1 .. Len(reports)
  <2>1. k = n + 1 \/ k \in 1 .. n BY <1>3, <1>4
  <2>2. CASE k = n + 1 BY <1>1, <1>4, <2>2
  <2>3. CASE k \in 1 .. n
    <3>1. n # 0 BY <1>3, <2>3
    <3>2. Told(trials[k], A, Detects) BY <1>2, <1>3, <2>3, <3>1
    <3> QED BY <1>4, <2>3, <3>2
  <2> QED BY <2>1, <2>2, <2>3
<1>6. Len(reports) \in Nat /\ Len(reports) <= Seeds BY <1>3, <1>4, CampaignAssumption
<1> QED BY <1>2, <1>4, <1>5, <1>6 DEF reports, n, A

LEMMA NextSeedTold ==
  ASSUME TrialInv, PairInv, CountInv, TimesInv, CampaignInv, NextSeed
  PROVE  CampaignInv'
<1> DEFINE reports == Append(trials, Report)
<1>1. /\ phase = "finished" /\ Len(trials) + 1 < Seeds
      /\ trials' = reports /\ dataset' = Truths(delivered) /\ phase' = "created"
      /\ algorithm' = algorithm /\ config' = config
  BY DEF NextSeed, harnessVars
<1>2. /\ reports \in Seq({reports[k] : k \in 1 .. Len(reports)})
      /\ Len(reports) = Len(trials) + 1 /\ Len(reports) \in Nat
      /\ \A k \in 1 .. Len(reports) :
           Told(reports[k], Len(onsetTimes), Detects)
      /\ Len(onsetTimes) = Cardinality(Evaluated(Truths(delivered)))
  BY <1>1, AllTold
<1>3. Detects' <=> Detects
  BY <1>1 DEF Detects, Supports
<1>4. Evaluated(dataset)' = Evaluated(Truths(delivered)) BY <1>1 DEF Evaluated
<1>5. dataset' \in Seq(BOOLEAN)
  <2>1. delivered \in Seq(Delivery) BY DEF TrialInv, HistoryTyped
  <2> QED BY <1>1, <2>1, LabelsOf
<1> HIDE DEF reports
<1>6. \A k \in 1 .. Len(trials') :
        Told(trials'[k], Cardinality(Evaluated(dataset)'), Detects')
  BY <1>1, <1>2, <1>3, <1>4 DEF Told
<1>7. /\ Len(trials') \in Nat /\ Len(trials') < Seeds
      /\ trials' \in Seq({trials'[k] : k \in 1 .. Len(trials')})
      /\ phase' # "finished"
  BY <1>1, <1>2
<1> QED BY <1>5, <1>6, <1>7 DEF CampaignInv

-------------------------------------------------------------------------------
(* What the aggregates say of reports of trials over the same attacks.     *)
Comparable(reports, attacks, detects) ==
  /\ Len(reports) \in Nat \ {0} /\ DOMAIN reports = 1 .. Len(reports)
  /\ \A k \in 1 .. Len(reports) : Told(reports[k], attacks, detects)

LEMMA AggregatedFields ==
  ASSUME NEW reports
  PROVE  /\ FullAggregate(reports).mttd = reports[1].full.mttd
         /\ CorrectedAggregate(reports).mttd
              = Aggregate([i \in DOMAIN reports |-> reports[i].corrected.mttd])
BY DEF FullAggregate, CorrectedAggregate

(* The aggregate of the delays is one of the trials that have a delay.     *)
DelayAmong(reports) ==
  LET mttd == CorrectedAggregate(reports).mttd
      delays == {reports[k].corrected.mttd : k \in 1 .. Len(reports)} \ {NotApplicable}
  IN  /\ mttd = NotApplicable
           <=> \A k \in 1 .. Len(reports) : reports[k].corrected.mttd = NotApplicable
      /\ mttd # NotApplicable =>
           mttd.mean \in 1000 * Min(delays) .. 1000 * Max(delays)

LEMMA DelayTells ==
  ASSUME NEW reports, NEW attacks \in Nat, NEW detects \in BOOLEAN,
         Comparable(reports, attacks, detects)
  PROVE  DelayAmong(reports)
<1> DEFINE n == Len(reports)
           f(k) == reports[k].corrected.mttd
           V == [i \in 1 .. n |-> f(i)]
           delays == {f(k) : k \in 1 .. n} \ {NotApplicable}
<1>1. /\ n \in Nat \ {0} /\ DOMAIN reports = 1 .. n
      /\ \A k \in 1 .. n : f(k) \in Nat \cup {NotApplicable}
  BY DEF Comparable, Told
<1>2. CorrectedAggregate(reports).mttd = Aggregate(V) BY <1>1, AggregatedFields
<1> HIDE DEF f
<1>3. /\ V \in Seq(Nat \cup {NotApplicable}) /\ V \in Seq(Int \cup {NotApplicable})
      /\ Len(V) = n /\ \A i \in 1 .. n : V[i] = f(i)
  <2>1. n \in Nat BY <1>1
  <2> HIDE DEF n
  <2>2. /\ V \in [1 .. n -> Nat \cup {NotApplicable}]
        /\ V \in [1 .. n -> Int \cup {NotApplicable}]
        /\ \A i \in 1 .. n : V[i] = f(i)
    BY <1>1
  <2> HIDE DEF V
  <2> QED BY <2>1, <2>2, FunctionAsSeq
<1> HIDE DEF n, V
<1>4. Aggregate(V) = NotApplicable <=> \A k \in 1 .. n : f(k) = NotApplicable
  BY <1>3, AggregateOf
<1>5. delays = {V[i] : i \in 1 .. Len(V)} \ {NotApplicable} BY <1>3
<1> HIDE DEF delays
<1>6. ASSUME Aggregate(V) # NotApplicable
      PROVE  Aggregate(V).mean \in 1000 * Min(delays) .. 1000 * Max(delays)
  <2>1. PICK k \in 1 .. n : f(k) # NotApplicable BY <1>4, <1>6
  <2>2. k \in 1 .. Len(V) /\ V[k] # NotApplicable BY <1>3, <2>1
  <2>3. V \in Seq(Nat \cup {NotApplicable}) BY <1>3
  <2> DEFINE D == {V[i] : i \in 1 .. Len(V)} \ {NotApplicable}
             M == Aggregate(V).mean \in 1000 * Min(D) .. 1000 * Max(D)
  <2>4. M BY <2>2, <2>3, MeanAmongValues
  <2>5. delays = D BY <1>5
  <2> HIDE DEF D
  <2> QED BY <2>4, <2>5
<1> QED BY <1>2, <1>4, <1>6 DEF DelayAmong, n, f, delays

LEMMA AggregatesTell ==
  ASSUME TrialInv, PairInv, CountInv, TimesInv, CampaignInv
  PROVE  SeedsAggregated
<1> SUFFICES ASSUME phase = "finished" PROVE SeedsAggregated BY DEF SeedsAggregated
<1> DEFINE reports == Append(trials, Report)
           n == Len(reports)
           A == Len(onsetTimes)
           full == FullAggregate(reports)
           corrected == CorrectedAggregate(reports)
           delays == {r.corrected.mttd : r \in ToSet(reports)} \ {NotApplicable}
<1>1. /\ n \in Nat \ {0} /\ DOMAIN reports = 1 .. n
      /\ \A k \in 1 .. n : Told(reports[k], A, Detects)
  <2>1. /\ Len(reports) = Len(trials) + 1 /\ Len(reports) \in Nat
        /\ DOMAIN reports = 1 .. Len(reports)
        /\ \A k \in 1 .. Len(reports) : Told(reports[k], Len(onsetTimes), Detects)
    BY AllTold
  <2>2. Len(trials) \in Nat BY DEF CampaignInv
  <2> QED BY <2>1, <2>2
<1>2. A \in Nat BY SeqAsFunction DEF PairInv, Paired
<1>3. Detects \in BOOLEAN BY DEF Detects, Supports
<1> HIDE DEF reports, A
<1>4. Comparable(reports, A, Detects) BY <1>1 DEF Comparable
<1>5. /\ corrected.mttd = NotApplicable
           <=> \A k \in 1 .. n : reports[k].corrected.mttd = NotApplicable
      /\ corrected.mttd # NotApplicable =>
           corrected.mttd.mean \in 1000 * Min(delays) .. 1000 * Max(delays)
  <2>1. delays = {reports[k].corrected.mttd : k \in 1 .. n} \ {NotApplicable}
    BY <1>1 DEF ToSet
  <2> DEFINE S == {reports[k].corrected.mttd : k \in 1 .. n} \ {NotApplicable}
  <2>2. /\ corrected.mttd = NotApplicable
             <=> \A k \in 1 .. n : reports[k].corrected.mttd = NotApplicable
        /\ corrected.mttd # NotApplicable =>
             corrected.mttd.mean \in 1000 * Min(S) .. 1000 * Max(S)
    <3>1. DelayAmong(reports) BY <1>2, <1>3, <1>4, DelayTells
    <3> QED BY <3>1 DEF DelayAmong
  <2> HIDE DEF S, delays, corrected
  <2>3. delays = S BY <2>1 DEF S
  <2> QED BY <2>2, <2>3
<1>6. ASSUME Detects
      PROVE  \A k \in 1 .. n :
               /\ reports[k].corrected.confusion.tp + reports[k].corrected.confusion.fn = A
               /\ reports[k].corrected.mttd = NotApplicable
                    <=> reports[k].corrected.confusion.tp = 0
               /\ reports[k].full.mttd = NotApplicable
                    <=> reports[k].corrected.confusion.tp = 0
  BY <1>1, <1>6 DEF Told
<1>7. ASSUME ~ Detects
      PROVE  \A k \in 1 .. n : /\ reports[k].corrected.mttd = NotApplicable
                               /\ reports[k].full.mttd = NotApplicable
  BY <1>1, <1>7 DEF Told
<1>8. full.mttd = reports[1].full.mttd /\ 1 \in 1 .. n
  <2>1. full.mttd = reports[1].full.mttd BY AggregatedFields
  <2> QED BY <1>1, <2>1
<1> HIDE DEF n
<1>9. ASSUME full.mttd = NotApplicable, corrected.mttd # NotApplicable
      PROVE  /\ reports[1].corrected.confusion.tp = 0
             /\ ~ \A i \in 1 .. n : reports[i].corrected.confusion.tp = 0
  <2>1. PICK k \in 1 .. n : reports[k].corrected.mttd # NotApplicable BY <1>5, <1>9
  <2>2. Detects BY <1>7, <2>1
  <2>3. reports[k].corrected.confusion.tp # 0 BY <1>6, <2>1, <2>2
  <2>4. reports[1].corrected.confusion.tp = 0 BY <1>6, <1>8, <1>9, <2>2
  <2> QED BY <2>3, <2>4
<1>10. ASSUME full.mttd # NotApplicable PROVE corrected.mttd # NotApplicable
  <2>1. Detects BY <1>7, <1>8, <1>10
  <2>2. reports[1].corrected.mttd # NotApplicable BY <1>6, <1>8, <1>10, <2>1
  <2> QED BY <1>5, <1>8, <2>2
<1> HIDE DEF full, corrected, delays
<1>11. DOMAIN reports = 1 .. n BY <1>1
<1>12. Detects => \A i \in DOMAIN reports :
                    reports[i].corrected.confusion.tp + reports[i].corrected.confusion.fn
                      = Len(onsetTimes)
  BY <1>6, <1>11 DEF A
<1> DEFINE Agreed ==
             /\ Detects =>
                  \A i \in DOMAIN reports :
                    reports[i].corrected.confusion.tp + reports[i].corrected.confusion.fn
                      = Len(onsetTimes)
             /\ corrected.mttd = NotApplicable
                  <=> \A i \in DOMAIN reports : reports[i].corrected.mttd = NotApplicable
             /\ corrected.mttd # NotApplicable =>
                  corrected.mttd.mean \in 1000 * Min(delays) .. 1000 * Max(delays)
             /\ full.mttd = NotApplicable /\ corrected.mttd # NotApplicable =>
                  /\ reports[1].corrected.confusion.tp = 0
                  /\ ~ \A i \in DOMAIN reports : reports[i].corrected.confusion.tp = 0
             /\ full.mttd # NotApplicable => corrected.mttd # NotApplicable
<1>13. Agreed
  <2>1. corrected.mttd = NotApplicable
          <=> \A i \in DOMAIN reports : reports[i].corrected.mttd = NotApplicable
    BY <1>5, <1>11
  <2>2. full.mttd = NotApplicable /\ corrected.mttd # NotApplicable =>
          /\ reports[1].corrected.confusion.tp = 0
          /\ ~ \A i \in DOMAIN reports : reports[i].corrected.confusion.tp = 0
    BY <1>9, <1>11
  <2> QED BY <1>5, <1>10, <1>12, <2>1, <2>2
<1>14. Agreed => SeedsAggregated
  BY Zenon DEF SeedsAggregated, reports, full, corrected, delays
<1> QED BY <1>13, <1>14

LEMMA CampaignInvariant ==
  CampaignSpec => [](TrialInv /\ PairInv /\ CountInv /\ TimesInv /\ CampaignInv)
<1>1. CampaignInit => CountInv /\ CampaignInv
  BY CountInitial, CampaignInitial DEF CampaignInit
<1>2. /\ TrialInv /\ PairInv /\ CountInv /\ TimesInv /\ CampaignInv
      /\ [CampaignNext]_<<hvars, campaign>> /\ TrialInv'
      => CountInv' /\ CampaignInv'
  <2> SUFFICES ASSUME TrialInv, PairInv, CountInv, TimesInv, CampaignInv,
                      [CampaignNext]_<<hvars, campaign>>, TrialInv'
               PROVE  CountInv' /\ CampaignInv'
    OBVIOUS
  <2>1. CountInv'
    <3>1. CASE [HNext]_hvars BY <3>1, CountKept
    <3>2. CASE HInit'
      <4>1. onsetTimes' = <<>> /\ yTrue' = <<>> BY <3>2 DEF HInit, Init
      <4>2. Attacks(yTrue') = {} /\ Len(onsetTimes') = 0 BY <4>1 DEF Attacks
      <4> QED BY <4>2, FS_EmptySet DEF CountInv
    <3> QED BY <3>1, <3>2, CampaignStep
  <2>2. CampaignInv'
    <3>1. CASE TrialStep BY <3>1, TrialStepTold
    <3>2. CASE NextSeed BY <3>2, NextSeedTold
    <3>3. CASE UNCHANGED <<hvars, campaign>>
      <4>1. /\ algorithm' = algorithm /\ config' = config /\ phase' = phase
            /\ delivered' = delivered /\ trials' = trials /\ dataset' = dataset
        BY <3>3 DEF hvars, vars, harnessVars, campaign
      <4>2. Detects' <=> Detects
        BY <4>1 DEF Detects, Supports
      <4>3. Evaluated(dataset)' = Evaluated(dataset) BY <4>1 DEF Evaluated
      <4>4. Truths(delivered)' = Truths(delivered) BY <4>1 DEF Truths
      <4>5. \A k \in 1 .. Len(trials') :
              Told(trials'[k], Cardinality(Evaluated(dataset)'), Detects')
        BY <4>1, <4>2, <4>3 DEF CampaignInv, Told
      <4>6. /\ Len(trials') \in Nat /\ Len(trials') < Seeds
            /\ trials' \in Seq({trials'[k] : k \in 1 .. Len(trials')})
            /\ trials' # <<>> =>
                 dataset' \in Seq(BOOLEAN)
                 /\ (phase' = "finished" => Truths(delivered)' = dataset')
        BY <4>1, <4>4 DEF CampaignInv
      <4> QED BY <4>5, <4>6 DEF CampaignInv, Told
    <3> QED BY <3>1, <3>2, <3>3 DEF CampaignNext
  <2> QED BY <2>1, <2>2
<1>3. CampaignSpec => [](TrialInv /\ PairInv /\ TimesInv) BY PairInvariant, PTL
<1> QED BY <1>1, <1>2, <1>3, PTL DEF CampaignSpec

(* The aggregates over the seeds, for every number of seeds, length of the *)
(* stream, timestamps and inference times: the trials of a campaign are    *)
(* scored on the same attacks, the corrected delay lies among those of the *)
(* trials that have one, and the two runners disagree on whether there is  *)
(* a delay only if the first trial has missed every attack.                *)
THEOREM SeedsAlwaysAggregated == CampaignSpec => []SeedsAggregated
<1>1. TrialInv /\ PairInv /\ CountInv /\ TimesInv /\ CampaignInv => SeedsAggregated
  BY AggregatesTell
<1> QED BY <1>1, CampaignInvariant, PTL

===============================================================================
