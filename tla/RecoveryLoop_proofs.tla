------------------------- MODULE RecoveryLoop_proofs -------------------------
(***************************************************************************)
(* Proofs about RecoveryLoop, for every schedule, number of nodes and      *)
(* persistence.                                                            *)
(*                                                                         *)
(* What a node carries can be traced to a raised flag, and the flags are   *)
(* exactly what the schedule says of the time of the last record; a node   *)
(* that has left recovered_nodes has had a moment without a fault since    *)
(* each of its episodes.                                                   *)
(***************************************************************************)
EXTENDS LoopReport, ProofLemmas, SequenceTheorems

-------------------------------------------------------------------------------
(* What the operators of NodeHealth do to the fault a node carries and to  *)
(* its mitigation factors, and the types of their results.                 *)

(* A record with the fields of a health record.                            *)
Shaped(h) ==
  DOMAIN h = {"offset", "failed", "mitigation", "workload", "metric"}

(* Replacing the offsets and the crash flag of a health record.            *)
LEMMA ReplaceFaults ==
  ASSUME NEW h, Shaped(h), NEW x, NEW b \in BOOLEAN
  PROVE  LET g == [h EXCEPT !.offset = x, !.failed = b]
         IN  Shaped(g) /\ g.offset = x /\ g.failed = b
BY DEF Shaped

(* Re-evaluating the metrics changes no fault.                             *)
LEMMA UpdateMetricsKeepsFaults ==
  ASSUME NEW h, Shaped(h), NEW w
  PROVE  /\ Shaped(UpdateMetrics(h, w))
         /\ UpdateMetrics(h, w).offset = h.offset
         /\ UpdateMetrics(h, w).failed = h.failed
BY DEF Shaped, UpdateMetrics

(* A cleared node carries no fault.                                        *)
LEMMA ClearedIsClean ==
  ASSUME NEW h, Shaped(h)
  PROVE  Shaped(ClearFaults(h)) /\ ~ Carries(ClearFaults(h))
<1> DEFINE c == ClearFaults(h)
<1>1. c.offset = NoFault /\ c.failed = FALSE /\ Shaped(c)
  BY DEF Shaped, ClearFaults
<1> HIDE DEF c
<1>2. \A r \in Resource : ~ (c.offset[r] > 0) BY <1>1 DEF NoFault
<1>3. ~ Carries(c) BY <1>1, <1>2, Zenon DEF Carries
<1> QED BY <1>1, <1>3 DEF c

(* A node carries a fault after an injection only if it did before or if   *)
(* something was injected.                                                 *)
LEMMA InjectionCarries ==
  ASSUME NEW h, Shaped(h), NEW fs, NEW I
  PROVE  /\ Shaped(ApplyFaults(h, fs, I))
         /\ Carries(ApplyFaults(h, fs, I)) => Carries(h) \/ I # {}
<1> DEFINE b == h.failed \/ \E i \in I : fs[i].type = "EDGE_NODE_FAILURE"
<1>1. Shaped(ApplyFaults(h, fs, I)) /\ (ApplyFaults(h, fs, I).failed <=> b)
  <2>1. b \in BOOLEAN OBVIOUS
  <2> HIDE DEF b
  <2> QED BY <2>1, ReplaceFaults DEF ApplyFaults, b
<1>2. ASSUME I = {} PROVE Carries(ApplyFaults(h, fs, I)) => Carries(h)
  <2>1. ApplyFaults(h, fs, I).failed <=> h.failed
    BY <1>1, <1>2
  <2>2. \A r \in Resource : ApplyFaults(h, fs, I).offset[r] = h.offset[r]
    BY <1>2 DEF Shaped, ApplyFaults
  <2> QED BY <2>1, <2>2 DEF Carries
<1> QED BY <1>1, <1>2, Zenon

(* A recovery puts no fault on a node.                                     *)
LEMMA RecoveryCarries ==
  ASSUME NEW h, Shaped(h), NEW a
  PROVE  /\ Shaped(ApplyRecovery(h, a))
         /\ Carries(ApplyRecovery(h, a)) => Carries(h)
<1> DEFINE g == IF a = "EDGE_NODE_FAILOVER"
                  THEN ClearFaults(h)
                  ELSE [h EXCEPT !.mitigation = Mitigate(@, a)]
           w == (g.workload * 10) \div g.mitigation["workload"]
<1>1. Shaped(g) /\ (Carries(g) => Carries(h))
  <2>1. CASE a = "EDGE_NODE_FAILOVER" BY <2>1, ClearedIsClean
  <2>2. CASE a # "EDGE_NODE_FAILOVER" BY <2>2 DEF Shaped, Carries
  <2> QED BY <2>1, <2>2
<1>2. ApplyRecovery(h, a) = UpdateMetrics(g, w) BY DEF ApplyRecovery
<1> HIDE DEF g, w
<1>3. /\ Shaped(UpdateMetrics(g, w))
      /\ UpdateMetrics(g, w).offset = g.offset
      /\ UpdateMetrics(g, w).failed = g.failed
  BY <1>1, UpdateMetricsKeepsFaults
<1> QED BY <1>1, <1>2, <1>3 DEF Carries

-------------------------------------------------------------------------------
(* The types of what the causal equations, faults, clearings and recoveries *)
(* compute from a well typed node.                                         *)
LEMMA PercentType ==
  ASSUME NEW x \in Nat
  PROVE  Percent(x) \in Nat
<1>1. Min({10000, x}) \in {10000, x} BY MinOfTwo
<1> QED BY <1>1 DEF Percent

(* Scaling by tenths stays within the natural numbers.                     *)
LEMMA ScaledType ==
  ASSUME NEW x \in Nat, NEW y \in Nat
  PROVE  /\ (x * y) \div 10 \in Nat
         /\ x * y \in Nat
<1>1. x * y \in Nat OBVIOUS
<1> QED BY <1>1

(* The causal equations yield metrics: no term of them can be negative.    *)
LEMMA MetricsType ==
  ASSUME NEW h \in Health, NEW w \in Nat
  PROVE  OnlineMetrics(h, w) \in [Resource -> Nat]
<1> DEFINE m    == h.mitigation
           load == (w * m["workload"]) \div 10
           cpu  == Percent(1500 + load \div 2 + (h.offset["cpu"] * m["cpu"]) \div 10)
           mem  == Percent(2000 + (2 * load) \div 5
                                + (h.offset["mem"] * m["mem"]) \div 10)
           net  == Percent(1500 + (9 * load) \div 20
                                + (h.offset["net"] * m["net"]) \div 10)
           loss == Percent(Max({0, ((net - 7500) * 8) \div 10})
                                + (h.offset["loss"] * m["net"]) \div 10)
           lat  == Max({100, BaseLatency + (cpu * cpu * 12) \div 100000 + 5 * loss
                               + (h.offset["lat"] * m["lat"]) \div 10})
<1>1. /\ m \in [Factor -> 1 .. 10] /\ h.offset \in [Resource -> Nat]
  BY DEF Health
<1>2. \A f \in Factor : m[f] \in Nat
  BY <1>1
<1>3. \A r \in Resource : h.offset[r] \in Nat
  BY <1>1
<1> HIDE DEF m
<1>4. load \in Nat
  BY <1>2, ScaledType DEF Factor
<1>5. \A r \in Resource, f \in Factor : (h.offset[r] * m[f]) \div 10 \in Nat
  BY <1>2, <1>3, ScaledType
<1> HIDE DEF load
<1>6. cpu \in Nat
  BY <1>4, <1>5, PercentType DEF Resource, Factor
<1>7. mem \in Nat
  BY <1>4, <1>5, PercentType DEF Resource, Factor
<1>8. net \in Nat
  BY <1>4, <1>5, PercentType DEF Resource, Factor
<1> HIDE DEF cpu, mem, net
<1>9. loss \in Nat
  <2>1. ((net - 7500) * 8) \div 10 \in Int BY <1>8
  <2>2. ASSUME NEW x \in Int PROVE Max({0, x}) \in Nat
    <3>1. Max({0, x}) \in {0, x} /\ Max({0, x}) >= 0 BY MaxOfTwo
    <3> QED BY <3>1
  <2>3. Max({0, ((net - 7500) * 8) \div 10}) \in Nat BY <2>1, <2>2
  <2> QED BY <1>5, <2>3, PercentType DEF Resource, Factor
<1> HIDE DEF loss
<1>10. lat \in Nat
  <2>1. cpu * cpu \in Nat BY <1>6
  <2>2. (cpu * cpu * 12) \div 100000 \in Nat BY <2>1
  <2>3. (h.offset["lat"] * m["lat"]) \div 10 \in Nat BY <1>5 DEF Resource, Factor
  <2>4. BaseLatency + (cpu * cpu * 12) \div 100000 + 5 * loss
                               + (h.offset["lat"] * m["lat"]) \div 10 \in Nat
    BY <1>9, <2>2, <2>3, BaseLatencyAssumption
  <2>5. ASSUME NEW x \in Nat PROVE Max({100, x}) \in Nat
    <3>1. Max({100, x}) \in {100, x} BY MaxOfTwo
    <3> QED BY <3>1
  <2> QED BY <2>4, <2>5
<1> HIDE DEF lat
<1>11. OnlineMetrics(h, w) = [cpu |-> cpu, mem |-> mem, net |-> net, lat |-> lat, loss |-> loss]
  BY DEF OnlineMetrics, m, load, cpu, mem, net, loss, lat
<1> QED BY <1>6, <1>7, <1>8, <1>9, <1>10, <1>11 DEF Resource

(* Re-evaluating the metrics of a node changes no mitigation.              *)
LEMMA UpdateMetricsType ==
  ASSUME NEW h \in Health, NEW w \in Nat
  PROVE  /\ UpdateMetrics(h, w) \in Health
         /\ UpdateMetrics(h, w).mitigation = h.mitigation
<1>1. CASE h.failed
  <2>1. Offline \in [Resource -> Nat] BY DEF Offline, Resource
  <2> QED BY <1>1, <2>1 DEF UpdateMetrics, Health
<1>2. CASE ~ h.failed
  <2>1. h.mitigation["workload"] \in Nat BY DEF Health, Factor
  <2>2. (w * h.mitigation["workload"]) \div 10 \in Nat BY <2>1, ScaledType
  <2> QED BY <1>2, <2>2, MetricsType DEF UpdateMetrics, Health
<1> QED BY <1>1, <1>2

(* clear_faults resets the factors and keeps the type.                     *)
LEMMA ClearType ==
  ASSUME NEW h \in Health
  PROVE  /\ ClearFaults(h) \in Health
         /\ ClearFaults(h).mitigation = Unmitigated
<1>1. NoFault \in [Resource -> Nat] /\ Unmitigated \in [Factor -> 1 .. 10]
  BY DEF NoFault, Unmitigated
<1> QED BY <1>1 DEF ClearFaults, Health

(* A fresh node is well typed.                                             *)
LEMMA InitialType == InitialHealth \in Health
  BY BaseLatencyAssumption DEF InitialHealth, Health, NoFault, Unmitigated, Resource, Factor

(* Factors stay between a tenth and one under every action.                *)
LEMMA MitigateType ==
  ASSUME NEW m \in [Factor -> 1 .. 10], NEW a
  PROVE  Mitigate(m, a) \in [Factor -> 1 .. 10]
  BY DEF Mitigate, Factor

(* A recovery action keeps the type of a node.                             *)
LEMMA RecoveryType ==
  ASSUME NEW h \in Health, NEW a
  PROVE  ApplyRecovery(h, a) \in Health
<1> DEFINE g == IF a = "EDGE_NODE_FAILOVER"
                  THEN ClearFaults(h)
                  ELSE [h EXCEPT !.mitigation = Mitigate(@, a)]
           w == (g.workload * 10) \div g.mitigation["workload"]
<1>1. g \in Health
  <2>1. h.mitigation \in [Factor -> 1 .. 10] BY DEF Health
  <2> QED BY <2>1, ClearType, MitigateType DEF Health
<1> HIDE DEF g
<1>2. w \in Nat
  <2>1. g.workload \in Nat /\ g.mitigation["workload"] \in 1 .. 10
    BY <1>1 DEF Health, Factor
  <2>2. \A x \in Nat, d \in 1 .. 10 : (x * 10) \div d \in Nat
    OBVIOUS
  <2> QED BY <2>1, <2>2
<1> HIDE DEF w
<1> QED BY <1>1, <1>2, UpdateMetricsType DEF ApplyRecovery, g, w


(* The offset a fault of the schedule sets.                                *)
LEMMA OffsetType ==
  ASSUME NEW f \in FaultType, NEW s \in Nat, NEW r \in Resource
  PROVE  FaultOffset(f, s)[r] \in Nat
<1>1. NoFault \in [Resource -> Nat] BY DEF NoFault
<1>2. 600 * s \in Nat /\ 650 * s \in Nat /\ 150 * s \in Nat /\ 1500 * s \in Nat
      /\ 350 * s \in Nat
  OBVIOUS
<1>3. \A p, q \in Resource, x, y \in Nat :
        /\ [NoFault EXCEPT ![p] = x] \in [Resource -> Nat]
        /\ [NoFault EXCEPT ![p] = x, ![q] = y] \in [Resource -> Nat]
  BY <1>1
<1>4. FaultOffset(f, s) \in [Resource -> Nat]
  BY <1>1, <1>2, <1>3 DEF FaultOffset, FaultType, Resource
<1> QED BY <1>4

-------------------------------------------------------------------------------

(* What the loop does with a record that it does not answer by a recovery, *)
(* be it because of Attempts or because it is the loop of a control group. *)
Unanswered(v) ==
  /\ Consume
  /\ health' = [n \in Node |-> UpdatedHealth(n, now - 1)]
  /\ label' = [n \in Node |-> UpdatedLabel(n, now - 1)]
  /\ window' = [window EXCEPT ![next] = Slide(@, v)]
  /\ recovered' = StillRecovered(now - 1)
  /\ streak' = Streak(v)
  /\ UNCHANGED episodes

LoopNext ==
  \/ Step
  \/ \E v \in BOOLEAN : Unanswered(v)
  \/ \E v \in BOOLEAN, cause \in Cause : Recover(v, cause)

LoopSpec == Init /\ [][LoopNext]_vars

(* The recovery loop on its own and each of the three arms that main.py    *)
(* reports on are such loops: what they report of a run changes nothing.   *)
LEMMA ArmsAreLoops == Spec \/ ReportSpec => LoopSpec
<1>1. Next => LoopNext BY DEF Next, LoopNext, Observe, Unanswered
<1>2. [ReportNext]_reportVars => [LoopNext]_vars
  <2> SUFFICES ASSUME [ReportNext]_reportVars PROVE [LoopNext]_vars OBVIOUS
  <2>1. CASE Tick BY <2>1 DEF Tick, LoopNext
  <2>2. ASSUME NEW v \in BOOLEAN, Watch(v) PROVE LoopNext
    BY <2>2 DEF Watch, LoopNext, Unanswered
  <2>3. ASSUME NEW v \in BOOLEAN, Pass(v) PROVE LoopNext
    BY <2>3 DEF Pass, LoopNext, Observe, Unanswered
  <2>4. ASSUME NEW v \in BOOLEAN, NEW cause \in Cause, Answer(v, cause)
        PROVE  LoopNext
    <3>1. (IF arm = "FIXED" THEN "CPU_OVERLOAD" ELSE cause) \in Cause
      BY DEF Cause, FaultType
    <3> QED BY <2>4, <3>1 DEF Answer, LoopNext
  <2>5. CASE Finish BY <2>5 DEF Finish
  <2>6. CASE UNCHANGED reportVars BY <2>6 DEF reportVars
  <2> QED BY <2>1, <2>2, <2>3, <2>4, <2>5, <2>6 DEF ReportNext
<1>3. ReportInit => Init BY DEF ReportInit
<1> QED BY <1>1, <1>2, <1>3, PTL DEF Spec, ReportSpec, LoopSpec

-------------------------------------------------------------------------------
(* The flags say of every fault whether it is due at the last record.      *)
FlagsExact ==
  /\ active \in [Index -> BOOLEAN]
  /\ \A i \in Index : active[i] <=> ActiveAt(i, LastTime)

(* Whatever a node carries, a flag is up for it.                           *)
FaultsFlagged ==
  \A n \in Node : Carries(health[n]) => \E i \in On(n) : active[i]

(* A node that may be recovered again has been free of faults since each   *)
(* of its episodes.                                                        *)
ReleasedWasFree ==
  \A n \in Node \ recovered : \A i \in DOMAIN episodes :
    episodes[i][1] = n => \E t \in episodes[i][2] .. LastTime : ~ Due(n, t)

Basics ==
  /\ scheduled \in Seq(Fault)
  /\ now \in Nat
  /\ next \in 1 .. NumNodes + 1
  /\ recovered \subseteq Node
  /\ DOMAIN health = Node
  /\ \A n \in Node : Shaped(health[n])
  /\ episodes \in Seq(Node \X Int)
  /\ \A i \in DOMAIN episodes : episodes[i][2] <= LastTime

IInv == /\ Basics /\ FlagsExact /\ FaultsFlagged
        /\ ReleasedWasFree /\ EpisodesSeparated

(* The window of the model and the one of the properties are the same.     *)
LEMMA DueIsActive ==
  ASSUME NEW n, NEW t
  PROVE  Due(n, t) <=> \E i \in On(n) : ActiveAt(i, t)
BY DEF Due, ActiveAt

(* Before the first step no flag is up and no node is faulty.              *)
LEMMA InitInvariant == Init => IInv
<1> SUFFICES ASSUME Init PROVE IInv OBVIOUS
<1> USE LoopAssumption
<1>1. Basics
  <2>1. NumNodes \in Nat /\ next = NumNodes + 1 /\ now = 0 /\ episodes = <<>>
    BY DEF Init, LoopAssumption
  <2>2. scheduled \in Seq(Fault) BY DEF Init, LoopAssumption
  <2>3. \A n \in Node : Shaped(health[n])
    BY DEF Init, Shaped, InitialHealth
  <2>4. recovered \subseteq Node /\ DOMAIN health = Node BY DEF Init
  <2> QED BY <2>1, <2>2, <2>3, <2>4 DEF Basics
<1>2. FlagsExact
  <2>1. LastTime = -1
    <3>1. NumNodes \in Nat \ {0} BY DEF LoopAssumption
    <3>2. next = NumNodes + 1 /\ now = 0 BY DEF Init
    <3> QED BY <3>1, <3>2 DEF LastTime
  <2>2. \A i \in Index : scheduled[i].start \in Nat
    <3>1. \A i \in Index : scheduled[i] \in Fault BY <1>1 DEF Basics, Index
    <3> QED BY <3>1 DEF Fault
  <2>3. \A i \in Index : ~ ActiveAt(i, -1) BY <2>2 DEF ActiveAt
  <2> QED BY <2>1, <2>3 DEF Init, FlagsExact
<1>3. FaultsFlagged
  BY DEF Init, FaultsFlagged, Carries, InitialHealth, NoFault
<1>4. ReleasedWasFree /\ EpisodesSeparated
  BY DEF Init, ReleasedWasFree, EpisodesSeparated
<1> QED BY <1>1, <1>2, <1>3, <1>4 DEF IInv

-------------------------------------------------------------------------------
(* What a node carries once the schedule has been consulted for time t is  *)
(* due at t; what it did not carry before was injected just now.           *)
LEMMA UpdateTraced ==
  ASSUME IInv, NEW n \in Node, NEW t
  PROVE  /\ Shaped(UpdatedHealth(n, t))
         /\ Carries(UpdatedHealth(n, t)) => \E i \in On(n) : ActiveAt(i, t)
         /\ Carries(UpdatedHealth(n, t)) /\ ~ Carries(health[n]) =>
              \E i \in On(n) : ActiveAt(i, t) /\ ~ active[i]
<1> DEFINE h == IF Expired(n, t) = {} THEN health[n] ELSE ClearFaults(health[n])
<1>1. Shaped(health[n]) BY DEF IInv, Basics
<1>2. Shaped(h) /\ (Carries(h) => Expired(n, t) = {} /\ Carries(health[n]))
  <2>1. CASE Expired(n, t) = {} BY <1>1, <2>1
  <2>2. CASE Expired(n, t) # {} BY <1>1, <2>2, ClearedIsClean
  <2> QED BY <2>1, <2>2
<1>3. UpdatedHealth(n, t) = ApplyFaults(h, scheduled, Lasting(n, t))
  BY DEF UpdatedHealth
<1> HIDE DEF h
<1>4. /\ Shaped(UpdatedHealth(n, t))
      /\ Carries(UpdatedHealth(n, t)) => Carries(h) \/ Lasting(n, t) # {}
  BY <1>2, <1>3, InjectionCarries
<1>5. \A i \in Lasting(n, t) : i \in On(n) /\ ActiveAt(i, t) /\ ~ active[i]
  BY DEF Lasting, Injected
<1>6. Carries(h) => \E i \in On(n) : ActiveAt(i, t)
  <2>1. Carries(health[n]) => \E i \in On(n) : active[i]
    BY DEF IInv, FaultsFlagged
  <2>2. Expired(n, t) = {} => \A i \in On(n) : active[i] => ActiveAt(i, t)
    BY DEF Expired
  <2> QED BY <1>2, <2>1, <2>2
<1> QED BY <1>2, <1>4, <1>5, <1>6

(* Consuming a record moves the time of the last record to now - 1.        *)
LEMMA ConsumeTime ==
  ASSUME IInv, Consume
  PROVE  /\ LastTime \in Int /\ LastTime <= now - 1 /\ LastTime' = now - 1
         /\ next' \in 1 .. NumNodes + 1
<1>1. now \in Nat /\ next \in 1 .. NumNodes /\ next' = next + 1 /\ now' = now
  BY DEF IInv, Basics, Consume, Node
<1> QED BY <1>1, LoopAssumption DEF LastTime, LoopAssumption

(* Consuming a record keeps the flags exact.                               *)
LEMMA ConsumeFlags ==
  ASSUME IInv, Consume
  PROVE  FlagsExact'
<1>1. scheduled' = scheduled /\ Index' = Index BY DEF Consume, Index
<1>2. \A i, t : ActiveAt(i, t)' <=> ActiveAt(i, t) BY <1>1 DEF ActiveAt
<1>3. active' = [i \in Index |-> ActiveAt(i, now - 1)] BY DEF Consume
<1>4. \A i \in Index : ActiveAt(i, now - 1) \in BOOLEAN BY DEF ActiveAt
<1>5. active' \in [Index -> BOOLEAN] BY <1>3, <1>4, Zenon
<1>6. \A i \in Index : active'[i] <=> ActiveAt(i, now - 1) BY <1>3, <1>4, Zenon
<1>7. LastTime' = now - 1 BY ConsumeTime
<1>8. \A i \in Index : ActiveAt(i, LastTime)' <=> ActiveAt(i, now - 1)
  BY <1>1, <1>7 DEF ActiveAt
<1> QED BY <1>1, <1>5, <1>6, <1>8, Zenon DEF FlagsExact

(* A node outside recovered_nodes, as this record leaves it, has been free *)
(* since each of its episodes.                                             *)
LEMMA FreeSince ==
  ASSUME IInv, Consume, NEW n \in Node, n \notin StillRecovered(now - 1),
         NEW i \in DOMAIN episodes, episodes[i][1] = n
  PROVE  \E t \in episodes[i][2] .. now - 1 : ~ Due(n, t)
<1>1. LastTime \in Int /\ LastTime <= now - 1 /\ now \in Nat
  BY ConsumeTime DEF IInv, Basics
<1>2. episodes[i][2] \in Int /\ episodes[i][2] <= LastTime
  BY DEF IInv, Basics
<1>3. CASE n \notin recovered
  <2>1. PICK t \in episodes[i][2] .. LastTime : ~ Due(n, t)
    BY <1>3 DEF IInv, ReleasedWasFree
  <2> QED BY <1>1, <1>2, <2>1
<1>4. CASE n \in recovered
  <2>1. ~ Due(n, now - 1) BY <1>4, DueIsActive DEF StillRecovered
  <2> QED BY <1>1, <1>2, <2>1
<1> QED BY <1>3, <1>4

(* What is due does not change while the schedule does not.                *)
LEMMA DueConstant ==
  ASSUME scheduled' = scheduled
  PROVE  \A n, t : Due(n, t)' <=> Due(n, t)
BY DEF Due, On, Index

-------------------------------------------------------------------------------
(* EdgeSimulation.step re-evaluates metrics and touches neither flags nor  *)
(* faults.                                                                 *)
LEMMA StepKeeps == IInv /\ Step => IInv'
<1> SUFFICES ASSUME IInv, Step PROVE IInv' OBVIOUS
<1> USE LoopAssumption DEF LoopAssumption
<1>1. /\ scheduled' = scheduled /\ active' = active /\ recovered' = recovered
      /\ episodes' = episodes /\ next' = 1 /\ now' = now + 1
      /\ next = NumNodes + 1 /\ now \in Nat
  BY DEF Step, generator, loop, IInv, Basics
<1>2. LastTime' = LastTime BY <1>1 DEF LastTime
<1>3. \A n \in Node : /\ Shaped(health'[n])
                      /\ Carries(health'[n]) <=> Carries(health[n])
  <2> SUFFICES ASSUME NEW n \in Node
               PROVE  /\ Shaped(health'[n])
                      /\ Carries(health'[n]) <=> Carries(health[n])
    OBVIOUS
  <2>1. PICK w \in [Node -> Workloads] :
          health' = [m \in Node |-> UpdateMetrics(health[m], w[m])]
    BY DEF Step
  <2>2. health'[n] = UpdateMetrics(health[n], w[n]) BY <2>1
  <2>3. Shaped(health[n]) BY DEF IInv, Basics
  <2>4. /\ Shaped(UpdateMetrics(health[n], w[n]))
        /\ UpdateMetrics(health[n], w[n]).offset = health[n].offset
        /\ UpdateMetrics(health[n], w[n]).failed = health[n].failed
    BY <2>3, UpdateMetricsKeepsFaults
  <2> QED BY <2>2, <2>4 DEF Carries
<1>4. Basics'
  <2>1. DOMAIN health' = Node BY DEF Step
  <2>2. \A n \in Node : Shaped(health[n])' BY <1>3 DEF Shaped
  <2> QED BY <1>1, <1>2, <2>1, <2>2 DEF Basics, IInv
<1>5. FlagsExact'
  BY <1>1, <1>2 DEF FlagsExact, IInv, Index, ActiveAt
<1>6. FaultsFlagged'
  <2>1. \A n \in Node : Carries(health[n])' <=> Carries(health[n])
    BY <1>3 DEF Carries
  <2>2. \A n : On(n)' = On(n) BY <1>1 DEF On, Index
  <2> QED BY <1>1, <2>1, <2>2 DEF FaultsFlagged, IInv
<1>7. ReleasedWasFree' /\ EpisodesSeparated'
  BY <1>1, <1>2, DueConstant DEF ReleasedWasFree, EpisodesSeparated, IInv
<1> QED BY <1>4, <1>5, <1>6, <1>7 DEF IInv

(* Every consumed record: what the nodes carry stays traced to the flags.  *)
LEMMA ConsumeFaults ==
  ASSUME IInv, Consume, DOMAIN health' = Node,
         \A n \in Node : /\ Shaped(health'[n])
                         /\ Carries(health'[n]) =>
                              Carries(UpdatedHealth(n, now - 1))
  PROVE  FaultsFlagged'
<1>1. scheduled' = scheduled /\ Index' = Index BY DEF Consume, Index
<1>2. \A n : On(n)' = On(n) BY <1>1 DEF On
<1>3. \A n \in Node : On(n) \subseteq Index BY DEF On
<1>4. active' = [i \in Index |-> ActiveAt(i, now - 1)] BY DEF Consume
<1>5. \A n \in Node : Carries(health[n])' => \E i \in On(n) : active'[i]
  <2> SUFFICES ASSUME NEW n \in Node, Carries(health[n])'
               PROVE  \E i \in On(n) : active'[i]
    OBVIOUS
  <2>1. Carries(UpdatedHealth(n, now - 1)) BY DEF Carries
  <2>2. PICK i \in On(n) : ActiveAt(i, now - 1) BY <2>1, UpdateTraced
  <2>3. i \in Index BY <1>3
  <2>4. active'[i] = ActiveAt(i, now - 1) BY <1>4, <2>3, Zenon
  <2> QED BY <2>2, <2>4, Zenon
<1> QED BY <1>2, <1>5 DEF FaultsFlagged

(* A record that is consumed without a recovery.                           *)
LEMMA UnansweredKeeps ==
  ASSUME IInv, NEW v \in BOOLEAN, Unanswered(v)
  PROVE  IInv'
<1>1. Consume /\ episodes' = episodes /\ recovered' = StillRecovered(now - 1)
  BY DEF Unanswered
<1>2. scheduled' = scheduled /\ now' = now BY <1>1 DEF Consume
<1>3. /\ LastTime \in Int /\ LastTime <= now - 1 /\ LastTime' = now - 1
      /\ next' \in 1 .. NumNodes + 1 /\ now \in Nat
  BY <1>1, ConsumeTime DEF IInv, Basics
<1>4. health' = [n \in Node |-> UpdatedHealth(n, now - 1)] BY DEF Unanswered
<1>5. \A n \in Node : /\ health'[n] = UpdatedHealth(n, now - 1)
                      /\ Shaped(health'[n])
  BY <1>4, UpdateTraced
<1>6. Basics'
  <2>1. \A n \in Node : Shaped(health[n])' BY <1>5 DEF Shaped
  <2>2. \A i \in DOMAIN episodes : episodes[i][2] <= now - 1
    <3>1. \A i \in DOMAIN episodes : /\ episodes[i][2] \in Int
                                     /\ episodes[i][2] <= LastTime
      BY DEF IInv, Basics
    <3> QED BY <1>3, <3>1
  <2>3. recovered' \subseteq Node
    BY <1>1 DEF StillRecovered, IInv, Basics
  <2> QED BY <1>1, <1>2, <1>3, <1>4, <2>1, <2>2, <2>3 DEF Basics, IInv
<1>7. FlagsExact' BY <1>1, ConsumeFlags
<1>8. FaultsFlagged' BY <1>1, <1>4, <1>5, ConsumeFaults
<1>9. ReleasedWasFree'
  <2>1. \A n \in Node \ StillRecovered(now - 1) : \A i \in DOMAIN episodes :
          episodes[i][1] = n => \E t \in episodes[i][2] .. now - 1 : ~ Due(n, t)
    BY <1>1, FreeSince
  <2> QED BY <1>1, <1>2, <1>3, <2>1, DueConstant DEF ReleasedWasFree
<1>10. EpisodesSeparated'
  BY <1>1, <1>2, DueConstant DEF EpisodesSeparated, IInv
<1> QED BY <1>6, <1>7, <1>8, <1>9, <1>10 DEF IInv

(* What a recovery does to the nodes.                                      *)
LEMMA RecoverHealth ==
  ASSUME IInv, NEW v \in BOOLEAN, NEW cause \in Cause, Recover(v, cause)
  PROVE  /\ DOMAIN health' = Node
         /\ \A n \in Node : /\ Shaped(health'[n])
                            /\ Carries(health'[n]) =>
                                 Carries(UpdatedHealth(n, now - 1))
<1> DEFINE u == [n \in Node |-> UpdatedHealth(n, now - 1)]
           a == SelectAction(cause, record[next].type, record[next].metric)
           after == ApplyRecovery(UpdatedHealth(next, now - 1), a)
<1>1. next \in Node BY DEF Recover, Consume
<1>2. health' = [u EXCEPT ![next] = after] BY DEF Recover
<1>3. /\ Shaped(UpdatedHealth(next, now - 1))
      /\ Shaped(after)
      /\ Carries(after) => Carries(UpdatedHealth(next, now - 1))
  BY <1>1, UpdateTraced, RecoveryCarries
<1> HIDE DEF after
<1>4. DOMAIN health' = Node BY <1>2
<1>5. ASSUME NEW n \in Node
      PROVE  /\ Shaped(health'[n])
             /\ Carries(health'[n]) => Carries(UpdatedHealth(n, now - 1))
  <2>1. CASE n = next
    <3>1. health'[n] = after BY <1>2, <2>1
    <3> QED BY <1>3, <2>1, <3>1
  <2>2. CASE n # next
    <3>1. health'[n] = UpdatedHealth(n, now - 1) BY <1>2, <2>2
    <3> QED BY <3>1, UpdateTraced
  <2> QED BY <2>1, <2>2
<1> QED BY <1>4, <1>5

(* A record that ends in a recovery, of whatever cause.                    *)
LEMMA RecoverKeeps ==
  ASSUME IInv, NEW v \in BOOLEAN, NEW cause \in Cause, Recover(v, cause)
  PROVE  IInv'
<1> DEFINE e == <<next, now - 1>>
<1>1. /\ Consume /\ episodes' = Append(episodes, e)
      /\ recovered' = StillRecovered(now - 1) \cup {next}
      /\ next \in Node /\ next \notin StillRecovered(now - 1)
  BY DEF Recover, Consume, Attempts
<1>2. scheduled' = scheduled /\ now' = now BY <1>1 DEF Consume
<1>3. /\ LastTime \in Int /\ LastTime <= now - 1 /\ LastTime' = now - 1
      /\ next' \in 1 .. NumNodes + 1 /\ now \in Nat
  BY <1>1, ConsumeTime DEF IInv, Basics
<1>4. /\ DOMAIN health' = Node
      /\ \A n \in Node : Shaped(health'[n])
  BY RecoverHealth
<1>5. /\ episodes \in Seq(Node \X Int) /\ e \in Node \X Int
      /\ episodes' \in Seq(Node \X Int)
  BY <1>1, <1>3 DEF IInv, Basics
<1>6. /\ DOMAIN episodes' = 1 .. Len(episodes) + 1
      /\ DOMAIN episodes = 1 .. Len(episodes) /\ Len(episodes) \in Nat
      /\ \A i \in DOMAIN episodes : episodes'[i] = episodes[i]
      /\ episodes'[Len(episodes) + 1] = e
  BY <1>1, <1>5
<1>7. \A i \in DOMAIN episodes : /\ episodes[i][2] \in Int
                                 /\ episodes[i][2] <= now - 1
  <2>1. \A i \in DOMAIN episodes : /\ episodes[i][2] \in Int
                                   /\ episodes[i][2] <= LastTime
    BY DEF IInv, Basics
  <2> QED BY <1>3, <2>1
<1>8. e[1] = next /\ e[2] = now - 1 OBVIOUS
<1> HIDE DEF e
<1>9. Basics'
  <2>1. \A n \in Node : Shaped(health[n])' BY <1>4 DEF Shaped
  <2>2. \A i \in DOMAIN episodes' : episodes'[i][2] <= now - 1
    BY <1>3, <1>6, <1>7, <1>8
  <2>3. recovered' \subseteq Node
    BY <1>1 DEF StillRecovered, IInv, Basics
  <2> QED BY <1>2, <1>3, <1>4, <1>5, <2>1, <2>2, <2>3 DEF Basics, IInv
<1>10. FlagsExact' BY <1>1, ConsumeFlags
<1>11. FaultsFlagged' BY <1>1, RecoverHealth, ConsumeFaults
<1>12. \A n \in Node \ StillRecovered(now - 1) : \A i \in DOMAIN episodes :
         episodes[i][1] = n => \E t \in episodes[i][2] .. now - 1 : ~ Due(n, t)
  BY <1>1, FreeSince
<1>13. ReleasedWasFree'
  <2> SUFFICES ASSUME NEW n \in Node, n \notin recovered',
                      NEW i \in DOMAIN episodes', episodes'[i][1] = n
               PROVE  \E t \in episodes'[i][2] .. now - 1 : ~ Due(n, t)
    BY <1>2, <1>3, DueConstant DEF ReleasedWasFree
  <2>1. n # next /\ n \notin StillRecovered(now - 1) BY <1>1
  <2>2. i \in DOMAIN episodes BY <1>6, <1>8, <2>1
  <2> QED BY <1>6, <1>12, <2>1, <2>2
<1>14. EpisodesSeparated'
  <2> SUFFICES ASSUME NEW i \in DOMAIN episodes', NEW j \in DOMAIN episodes',
                      i < j, episodes'[i][1] = episodes'[j][1]
               PROVE  \E t \in episodes'[i][2] .. episodes'[j][2] :
                        ~ Due(episodes'[i][1], t)
    BY <1>2, DueConstant DEF EpisodesSeparated
  <2>1. i \in DOMAIN episodes /\ episodes'[i] = episodes[i] BY <1>6
  <2>2. CASE j \in DOMAIN episodes
    BY <1>6, <2>1, <2>2 DEF IInv, EpisodesSeparated
  <2>3. CASE j \notin DOMAIN episodes
    <3>1. episodes'[j] = e BY <1>6, <2>3
    <3> QED BY <1>1, <1>8, <1>12, <2>1, <3>1
  <2> QED BY <2>2, <2>3
<1> QED BY <1>9, <1>10, <1>11, <1>13, <1>14 DEF IInv

-------------------------------------------------------------------------------
(* Nothing happens, as when the report is made.                            *)
LEMMA StutterKeeps == IInv /\ UNCHANGED vars => IInv'
<1> SUFFICES ASSUME IInv, UNCHANGED vars PROVE IInv' OBVIOUS
<1> USE DEF vars, generator, plant, stream, loop
<1>1. Basics' BY DEF IInv, Basics, Shaped, LastTime
<1>2. FlagsExact' BY DEF IInv, FlagsExact, Index, ActiveAt, LastTime
<1>3. FaultsFlagged' BY DEF IInv, FaultsFlagged, Carries, On, Index
<1>4. LastTime' = LastTime BY DEF LastTime
<1>5. ReleasedWasFree' /\ EpisodesSeparated'
  BY <1>4, DueConstant DEF IInv, ReleasedWasFree, EpisodesSeparated
<1> QED BY <1>1, <1>2, <1>3, <1>5 DEF IInv

(* What the first three theorems below are drawn from.                     *)
LEMMA Invariant == Spec \/ ReportSpec => []IInv
<1>1. IInv /\ [LoopNext]_vars => IInv'
  BY StepKeeps, UnansweredKeeps, RecoverKeeps, StutterKeeps DEF LoopNext
<1> QED BY InitInvariant, ArmsAreLoops, <1>1, PTL DEF LoopSpec

(* A node is recovered at most once per fault, whatever the schedule: main *)
(* .py's recovered_nodes set does what it is there for.                    *)
THEOREM RecoveredOncePerFault == Spec \/ ReportSpec => []EpisodesSeparated
<1>1. IInv => EpisodesSeparated BY DEF IInv
<1> QED BY Invariant, <1>1, PTL

(* No fault outlives its window, although FaultGenerator clears by node    *)
(* and not by fault.                                                       *)
THEOREM FaultsEndInTime == Spec \/ ReportSpec => []NoLingeringFault
<1>1. IInv => NoLingeringFault
  <2> SUFFICES ASSUME IInv, NEW n \in Node, Carries(health[n])
               PROVE  Due(n, LastTime)
    BY DEF NoLingeringFault
  <2>1. PICK i \in On(n) : active[i] BY DEF IInv, FaultsFlagged
  <2>2. ActiveAt(i, LastTime) BY <2>1 DEF IInv, FlagsExact, On
  <2> QED BY <2>1, <2>2, DueIsActive
<1> QED BY Invariant, <1>1, PTL

(* A node becomes faulty only in the step that raises the flag of one of   *)
(* its faults: FaultRecord.active latches each injection.                  *)
THEOREM FaultsStrikeOnce == Spec \/ ReportSpec => FaultStrikesOnce
<1> DEFINE Strike == \A n \in Node : ~ Carries(health[n]) /\ Carries(health'[n])
                       => \E i \in On(n) : ~ active[i] /\ active'[i]
<1>1. ASSUME IInv, Consume, NEW n \in Node, ~ Carries(health[n]),
             Carries(UpdatedHealth(n, now - 1))
      PROVE  \E i \in On(n) : ~ active[i] /\ active'[i]
  <2>1. PICK i \in On(n) : ActiveAt(i, now - 1) /\ ~ active[i]
    BY <1>1, UpdateTraced
  <2>2. i \in Index BY DEF On
  <2>3. active' = [j \in Index |-> ActiveAt(j, now - 1)] BY <1>1 DEF Consume
  <2>4. active'[i] = ActiveAt(i, now - 1) BY <2>2, <2>3, Zenon
  <2> QED BY <2>1, <2>4, Zenon
<1>2. IInv /\ [LoopNext]_vars => [Strike]_vars
  <2> SUFFICES ASSUME IInv, LoopNext PROVE Strike BY DEF vars
  <2>1. CASE Step
    <3> SUFFICES ASSUME NEW n \in Node, Carries(health'[n])
                 PROVE  Carries(health[n])
      OBVIOUS
    <3>1. PICK w \in [Node -> Workloads] :
            health' = [m \in Node |-> UpdateMetrics(health[m], w[m])]
      BY <2>1 DEF Step
    <3>2. health'[n] = UpdateMetrics(health[n], w[n]) BY <3>1
    <3>3. Shaped(health[n]) BY DEF IInv, Basics
    <3>4. /\ UpdateMetrics(health[n], w[n]).offset = health[n].offset
          /\ UpdateMetrics(health[n], w[n]).failed = health[n].failed
      BY <3>3, UpdateMetricsKeepsFaults
    <3> QED BY <3>2, <3>4 DEF Carries
  <2>2. ASSUME NEW v \in BOOLEAN, Unanswered(v) PROVE Strike
    <3>1. /\ Consume
          /\ health' = [n \in Node |-> UpdatedHealth(n, now - 1)]
      BY <2>2 DEF Unanswered
    <3> QED BY <1>1, <3>1
  <2>3. ASSUME NEW v \in BOOLEAN, NEW cause \in Cause, Recover(v, cause)
        PROVE  Strike
    <3>1. Consume BY <2>3 DEF Recover
    <3>2. \A n \in Node : Carries(health'[n]) =>
            Carries(UpdatedHealth(n, now - 1))
      BY <2>3, RecoverHealth
    <3> QED BY <1>1, <3>1, <3>2
  <2> QED BY <2>1, <2>2, <2>3 DEF LoopNext
<1> QED BY Invariant, ArmsAreLoops, <1>2, PTL DEF LoopSpec, FaultStrikesOnce

-------------------------------------------------------------------------------
(* Injecting faults changes no mitigation.                                 *)
LEMMA InjectionType ==
  ASSUME NEW h \in Health, NEW fs \in Seq(Fault), NEW I \in SUBSET (DOMAIN fs)
  PROVE  /\ ApplyFaults(h, fs, I) \in Health
         /\ ApplyFaults(h, fs, I).mitigation = h.mitigation
<1> DEFINE Touching(r) ==
             {i \in I : FaultOffset(fs[i].type, fs[i].severity)[r] > 0}
           o == [r \in Resource |->
                  IF Touching(r) = {} THEN h.offset[r]
                  ELSE LET i == Max(Touching(r))
                       IN  FaultOffset(fs[i].type, fs[i].severity)[r]]
           b == h.failed \/ \E i \in I : fs[i].type = "EDGE_NODE_FAILURE"
<1>1. ApplyFaults(h, fs, I) = [h EXCEPT !.offset = o, !.failed = b]
  BY DEF ApplyFaults
<1>2. ASSUME NEW r \in Resource PROVE o[r] \in Nat
  <2>1. CASE Touching(r) = {}
    <3>1. o[r] = h.offset[r] BY <2>1
    <3> QED BY <3>1 DEF Health
  <2>2. CASE Touching(r) # {}
    <3>1. Len(fs) \in Nat /\ DOMAIN fs = 1 .. Len(fs) BY LenProperties
    <3>2. Touching(r) \in SUBSET (0 .. Len(fs)) BY <3>1
    <3>3. Max(Touching(r)) \in Touching(r) BY <2>2, <3>1, <3>2, MaxOfBounded
    <3>4. Max(Touching(r)) \in DOMAIN fs BY <3>3
    <3> DEFINE i == Max(Touching(r))
    <3>5. o[r] = FaultOffset(fs[i].type, fs[i].severity)[r] BY <2>2
    <3> HIDE DEF i, o
    <3>6. fs[i] \in Fault BY <3>1, <3>4, ElementOfSeq DEF i
    <3>7. fs[i].type \in FaultType /\ fs[i].severity \in Nat BY <3>6 DEF Fault
    <3> QED BY <3>5, <3>7, OffsetType
  <2> QED BY <2>1, <2>2
<1>3. o \in [Resource -> Nat] BY <1>2
<1>4. b \in BOOLEAN OBVIOUS
<1> HIDE DEF o, b
<1> QED BY <1>1, <1>3, <1>4 DEF Health

-------------------------------------------------------------------------------
(* Type correctness.  An episode is later than the start of the run because *)
(* there are no records to consume before the first step.                  *)
Typed == TypeOK /\ (now = 0 => next = NumNodes + 1)

(* The verdicts of a window and the streak count the same anomalies: for   *)
(* every j up to the persistence the last j verdicts are anomalies exactly *)
(* if the streak is at least j.  Sliding the window, which is longer than  *)
(* the persistence, loses none of them.                                    *)
Trail(w, j) == j <= Len(w) /\ \A i \in Len(w) - j + 1 .. Len(w) : w[i]

StreakExact ==
  \A n \in Node : \A j \in 0 .. PersistenceK :
    streak[n] >= j <=> Trail(window[n], j)

(* A node stays in recovered_nodes only while a fault has been due on it   *)
(* at every record since one of its episodes.                              *)
RecoveredSince ==
  \A n \in recovered : \E i \in DOMAIN episodes :
    /\ episodes[i][1] = n
    /\ \A t \in episodes[i][2] + 1 .. LastTime : Due(n, t)

LInv == IInv /\ Typed /\ StreakExact /\ RecoveredSince /\ NoStaleMitigation

(* The loop starts well typed.                                             *)
LEMMA InitTyped == Init => Typed
<1> SUFFICES ASSUME Init PROVE Typed OBVIOUS
<1>1. /\ NumNodes \in Nat \ {0} /\ PersistenceK \in Nat \ {0} /\ MaxSteps \in Nat
  BY LoopAssumption
<1>2. /\ health \in [Node -> Health] /\ label \in [Node -> Label]
      /\ active \in [Index -> BOOLEAN] /\ scheduled \in Schedules
  BY InitialType DEF Init, Label
<1>3. record \in [Node -> Record]
  <2>1. Carries(InitialHealth) \in BOOLEAN
    BY DEF Carries, InitialHealth, NoFault
  <2>2. InitialHealth.metric \in [Resource -> Nat] BY InitialType DEF Health
  <2>3. Sample(InitialHealth, "NONE") \in Record
    BY <2>1, <2>2 DEF Sample, Record, Label
  <2> QED BY <2>3 DEF Init
<1>4. window \in [Node -> Seq(BOOLEAN)] /\ \A n \in Node : Len(window[n]) = 0
  BY EmptySeq DEF Init
<1>5. streak \in [Node -> 0 .. PersistenceK] /\ recovered \subseteq Node
  BY <1>1 DEF Init
<1>6. episodes \in Seq(Node \X Nat) BY EmptySeq DEF Init
<1>7. next = NumNodes + 1 /\ now = 0 BY DEF Init
<1> QED BY <1>1, <1>2, <1>3, <1>4, <1>5, <1>6, <1>7 DEF Typed, TypeOK

(* A node and its label after the schedule has been consulted; a node that *)
(* had something cleared has lost its mitigations, the others keep theirs. *)
LEMMA UpdatedTyped ==
  ASSUME TypeOK, NEW n \in Node, NEW t
  PROVE  /\ UpdatedHealth(n, t) \in Health
         /\ UpdatedLabel(n, t) \in Label
         /\ Expired(n, t) = {} =>
              UpdatedHealth(n, t).mitigation = health[n].mitigation
         /\ Expired(n, t) # {} => UpdatedHealth(n, t).mitigation = Unmitigated
<1> DEFINE h == IF Expired(n, t) = {} THEN health[n] ELSE ClearFaults(health[n])
<1>1. scheduled \in Seq(Fault) /\ health[n] \in Health /\ label[n] \in Label
  BY LoopAssumption DEF TypeOK
<1>2. /\ h \in Health
      /\ Expired(n, t) = {} => h.mitigation = health[n].mitigation
      /\ Expired(n, t) # {} => h.mitigation = Unmitigated
  BY <1>1, ClearType
<1>3. Lasting(n, t) \in SUBSET (DOMAIN scheduled)
  BY DEF Lasting, Injected, On, Index
<1>4. UpdatedHealth(n, t) = ApplyFaults(h, scheduled, Lasting(n, t))
  BY DEF UpdatedHealth
<1> HIDE DEF h
<1>5. UpdatedLabel(n, t) \in Label
  <2>1. CASE Lasting(n, t) # {}
    <3>1. Len(scheduled) \in Nat /\ DOMAIN scheduled = 1 .. Len(scheduled)
      BY <1>1, LenProperties
    <3>2. Lasting(n, t) \in SUBSET (0 .. Len(scheduled)) BY <1>3, <3>1
    <3>3. Max(Lasting(n, t)) \in Lasting(n, t)
      BY <2>1, <3>1, <3>2, MaxOfBounded
    <3>4. scheduled[Max(Lasting(n, t))] \in Fault
      BY <1>1, <1>3, <3>1, <3>3, ElementOfSeq
    <3> QED BY <2>1, <3>4 DEF UpdatedLabel, Fault, Label
  <2>2. CASE Lasting(n, t) = {}
    BY <1>1, <2>2 DEF UpdatedLabel, Label
  <2> QED BY <2>1, <2>2
<1> QED BY <1>1, <1>2, <1>3, <1>4, <1>5, InjectionType

(* Sliding a window.                                                       *)
LEMMA SlideTyped ==
  ASSUME NEW w \in Seq(BOOLEAN), Len(w) <= PersistenceK + 2, NEW v \in BOOLEAN
  PROVE  /\ Slide(w, v) \in Seq(BOOLEAN)
         /\ Len(Slide(w, v)) \in 1 .. PersistenceK + 2
         /\ \A j \in 1 .. PersistenceK : Trail(Slide(w, v), j) <=> v /\ Trail(w, j - 1)
<1> DEFINE x == Append(w, v)
           s == Slide(w, v)
           K == PersistenceK
<1>1. K \in Nat \ {0} BY LoopAssumption
<1>2. /\ x \in Seq(BOOLEAN) /\ x # <<>> /\ Len(x) = Len(w) + 1 /\ Len(w) \in Nat
      /\ \A i \in 1 .. Len(w) : x[i] = w[i]
      /\ x[Len(w) + 1] = v
  BY AppendProperties, LenProperties
<1>3. s = IF Len(x) > K + 2 THEN Tail(x) ELSE x BY DEF Slide
<1> HIDE DEF x, s, K
<1>4. CASE ~ (Len(x) > K + 2)
  <2>1. s = x BY <1>3, <1>4
  <2>2. ASSUME NEW j \in 1 .. K PROVE Trail(s, j) <=> v /\ Trail(w, j - 1)
    <3>1. \A i \in Len(x) - j + 1 .. Len(x) :
            i = Len(w) + 1 \/ i \in Len(w) - (j - 1) + 1 .. Len(w)
      BY <1>1, <1>2
    <3>2. \A i \in Len(w) - (j - 1) + 1 .. Len(w) : i \in Len(x) - j + 1 .. Len(x)
      BY <1>1, <1>2
    <3>3. Len(w) + 1 \in Len(x) - j + 1 .. Len(x) BY <1>1, <1>2
    <3>4. j <= Len(x) <=> j - 1 <= Len(w) BY <1>1, <1>2
    <3>5. j <= Len(x) => \A i \in Len(w) - (j - 1) + 1 .. Len(w) : i \in 1 .. Len(w)
      BY <1>1, <1>2
    <3> QED BY <1>2, <2>1, <3>1, <3>2, <3>3, <3>4, <3>5 DEF Trail
  <2> QED BY <1>1, <1>2, <1>4, <2>1, <2>2 DEF s, K
<1>5. CASE Len(x) > K + 2
  <2>1. /\ s \in Seq(BOOLEAN) /\ Len(s) = Len(w) /\ Len(w) = K + 2
        /\ \A i \in 1 .. Len(s) : s[i] = x[i + 1]
    <3>1. s = Tail(x) BY <1>3, <1>5
    <3>2. Len(w) = K + 2 BY <1>1, <1>2, <1>5 DEF K
    <3> QED BY <1>2, <3>1, <3>2, HeadTailProperties
  <2>2. ASSUME NEW j \in 1 .. K PROVE Trail(s, j) <=> v /\ Trail(w, j - 1)
    <3>1. j <= Len(s) /\ j - 1 <= Len(w) BY <1>1, <2>1
    <3>2. \A i \in Len(s) - j + 1 .. Len(s) :
            /\ i \in 1 .. Len(s)
            /\ s[i] = x[i + 1]
            /\ i = Len(w) \/ (i + 1 \in Len(w) - (j - 1) + 1 .. Len(w)
                              /\ i + 1 \in 1 .. Len(w))
      BY <1>1, <1>2, <2>1
    <3>3. \A i \in Len(w) - (j - 1) + 1 .. Len(w) :
            /\ i - 1 \in Len(s) - j + 1 .. Len(s)
            /\ i - 1 \in 1 .. Len(s)
            /\ (i - 1) + 1 = i
            /\ i \in 1 .. Len(w)
      BY <1>1, <1>2, <2>1
    <3>4. Len(w) \in Len(s) - j + 1 .. Len(s) BY <1>1, <1>2, <2>1
    <3>5. ASSUME Trail(s, j) PROVE v /\ Trail(w, j - 1)
      <4>1. s[Len(w)] BY <3>4, <3>5 DEF Trail
      <4>2. v BY <1>2, <3>2, <3>4, <4>1
      <4>3. ASSUME NEW i \in Len(w) - (j - 1) + 1 .. Len(w) PROVE w[i]
        <5>1. s[i - 1] BY <3>3, <3>5 DEF Trail
        <5>2. s[i - 1] = x[(i - 1) + 1] BY <2>1, <3>3
        <5>3. x[i] = w[i] BY <1>2, <3>3
        <5> QED BY <3>3, <5>1, <5>2, <5>3
      <4> QED BY <3>1, <4>2, <4>3 DEF Trail
    <3>6. ASSUME v, Trail(w, j - 1) PROVE Trail(s, j)
      <4>1. ASSUME NEW i \in Len(s) - j + 1 .. Len(s) PROVE s[i]
        <5>1. CASE i = Len(w) BY <1>2, <3>2, <3>6, <5>1
        <5>2. CASE i # Len(w)
          <6>1. i + 1 \in Len(w) - (j - 1) + 1 .. Len(w) /\ i + 1 \in 1 .. Len(w)
            BY <3>2, <5>2
          <6>2. w[i + 1] BY <3>6, <6>1 DEF Trail
          <6> QED BY <1>2, <3>2, <6>1, <6>2
        <5> QED BY <5>1, <5>2
      <4> QED BY <3>1, <4>1 DEF Trail
    <3> QED BY <3>5, <3>6
  <2> QED BY <1>1, <2>1, <2>2 DEF s, K
<1> QED BY <1>4, <1>5

(* What every consumed record leaves well typed.                           *)
LEMMA ConsumeTyped ==
  ASSUME IInv, Typed, Consume, NEW v \in BOOLEAN
  PROVE  /\ next \in Node /\ now - 1 \in Nat /\ next' \in 1 .. NumNodes + 1
         /\ scheduled' \in Schedules /\ active' \in [Index' -> BOOLEAN]
         /\ now' \in 0 .. MaxSteps /\ record' \in [Node -> Record]
         /\ now' = 0 => next' = NumNodes + 1
         /\ StillRecovered(now - 1) \subseteq Node
         /\ Slide(window[next], v) \in Seq(BOOLEAN)
         /\ Len(Slide(window[next], v)) <= PersistenceK + 2
         /\ Streak(v) \in [Node -> 0 .. PersistenceK]
<1>1. next \in Node /\ next \in 1 .. NumNodes /\ NumNodes \in Nat
  BY LoopAssumption DEF Consume, Node
<1>2. now \in Nat /\ now # 0 /\ now' = now /\ next' = next + 1
  BY <1>1 DEF Typed, TypeOK, Consume
<1>3. active' \in [Index' -> BOOLEAN]
  BY ConsumeFlags DEF FlagsExact
<1>4. window[next] \in Seq(BOOLEAN) /\ Len(window[next]) <= PersistenceK + 2
  BY <1>1 DEF Typed, TypeOK
<1>5. Slide(window[next], v) \in Seq(BOOLEAN)
      /\ Len(Slide(window[next], v)) <= PersistenceK + 2
  <2>1. Len(Slide(window[next], v)) \in 1 .. PersistenceK + 2
    BY <1>4, SlideTyped
  <2> QED BY <1>4, <2>1, SlideTyped
<1>6. Streak(v) \in [Node -> 0 .. PersistenceK]
  <2>1. streak \in [Node -> 0 .. PersistenceK] /\ PersistenceK \in Nat
    BY LoopAssumption DEF Typed, TypeOK
  <2>2. ASSUME NEW k \in 0 .. PersistenceK
        PROVE  Min({k + 1, PersistenceK}) \in 0 .. PersistenceK
    <3>1. k + 1 \in Int /\ PersistenceK \in Int BY <2>1
    <3>2. Min({k + 1, PersistenceK}) \in {k + 1, PersistenceK}
          /\ Min({k + 1, PersistenceK}) <= PersistenceK
      BY <3>1, MinOfTwo
    <3> QED BY <2>1, <3>2
  <2> QED BY <1>1, <2>1, <2>2 DEF Streak
<1>7. StillRecovered(now - 1) \subseteq Node
  BY DEF StillRecovered, Typed, TypeOK
<1> QED BY <1>1, <1>2, <1>3, <1>5, <1>6, <1>7 DEF Consume, Typed, TypeOK

(* Every step of every arm keeps the types.                                *)
LEMMA TypedKept == IInv /\ Typed /\ [LoopNext]_vars => Typed'
<1> SUFFICES ASSUME IInv, Typed, [LoopNext]_vars PROVE Typed' OBVIOUS
<1>1. CASE UNCHANGED vars
  BY <1>1 DEF vars, generator, plant, stream, loop, Typed, TypeOK, Index
<1>2. CASE Step
  <2>1. /\ UNCHANGED <<scheduled, active, label, window, recovered, episodes, streak>>
        /\ now' = now + 1 /\ now < MaxSteps /\ next' = 1
    BY <1>2 DEF Step, generator, loop
  <2>2. PICK w \in [Node -> Workloads] :
          health' = [n \in Node |-> UpdateMetrics(health[n], w[n])]
    BY <1>2 DEF Step
  <2>3. \A n \in Node : w[n] \in Nat /\ health[n] \in Health
    BY LoopAssumption DEF Typed, TypeOK
  <2>4. health' \in [Node -> Health]
    BY <2>2, <2>3, UpdateMetricsType
  <2>5. record' \in [Node -> Record]
    <3>1. record' = [n \in Node |-> Sample(health'[n], label[n])]
      BY <1>2 DEF Step
    <3>2. \A n \in Node : health'[n] \in Health /\ label[n] \in Label
      BY <2>4 DEF Typed, TypeOK
    <3>3. ASSUME NEW h \in Health, NEW l \in Label PROVE Sample(h, l) \in Record
      BY DEF Sample, Record, Health, Label, Carries
    <3> QED BY <3>1, <3>2, <3>3
  <2>6. now' \in 0 .. MaxSteps /\ now' # 0 /\ next' \in 1 .. NumNodes + 1
    BY <2>1, LoopAssumption DEF Typed, TypeOK
  <2> QED BY <2>1, <2>4, <2>5, <2>6 DEF Typed, TypeOK, Index
<1>3. ASSUME NEW v \in BOOLEAN, Unanswered(v) PROVE Typed'
  <2>1. Consume BY <1>3 DEF Unanswered
  <2>2. /\ health' \in [Node -> Health] /\ label' \in [Node -> Label]
    BY <1>3, UpdatedTyped DEF Unanswered, Typed
  <2>3. /\ window' \in [Node -> Seq(BOOLEAN)]
        /\ \A n \in Node : Len(window'[n]) <= PersistenceK + 2
    BY <1>3, <2>1, ConsumeTyped DEF Unanswered, Typed, TypeOK
  <2>4. /\ recovered' \subseteq Node /\ streak' \in [Node -> 0 .. PersistenceK]
        /\ episodes' \in Seq(Node \X Nat)
    BY <1>3, <2>1, ConsumeTyped DEF Unanswered, Typed, TypeOK
  <2> QED BY <2>1, <2>2, <2>3, <2>4, ConsumeTyped DEF Typed, TypeOK
<1>4. ASSUME NEW v \in BOOLEAN, NEW cause \in Cause, Recover(v, cause)
      PROVE  Typed'
  <2> DEFINE u == [n \in Node |-> UpdatedHealth(n, now - 1)]
             a == SelectAction(cause, record[next].type, record[next].metric)
             after == ApplyRecovery(UpdatedHealth(next, now - 1), a)
             ok == Success(a, UpdatedHealth(next, now - 1).metric, after.metric)
  <2>1. Consume /\ next \in Node BY <1>4 DEF Recover, Consume
  <2>2. /\ health' = [u EXCEPT ![next] = after]
        /\ label' = [[n \in Node |-> UpdatedLabel(n, now - 1)] EXCEPT ![next] = "NONE"]
        /\ window' = [window EXCEPT ![next] = IF ok THEN <<>> ELSE Slide(@, v)]
        /\ recovered' = StillRecovered(now - 1) \cup {next}
        /\ episodes' = Append(episodes, <<next, now - 1>>)
        /\ streak' = IF ok THEN [streak EXCEPT ![next] = 0] ELSE Streak(v)
    BY <1>4 DEF Recover
  <2>3. u \in [Node -> Health] /\ after \in Health
    BY <2>1, UpdatedTyped, RecoveryType DEF Typed
  <2> HIDE DEF u, after, ok
  <2>4. health' \in [Node -> Health] BY <2>1, <2>2, <2>3
  <2>5. label' \in [Node -> Label]
    BY <2>1, <2>2, UpdatedTyped DEF Label, Typed
  <2>6. /\ window' \in [Node -> Seq(BOOLEAN)]
        /\ \A n \in Node : Len(window'[n]) <= PersistenceK + 2
    <3>1. /\ Slide(window[next], v) \in Seq(BOOLEAN) /\ <<>> \in Seq(BOOLEAN)
          /\ Len(Slide(window[next], v)) <= PersistenceK + 2
          /\ Len(<<>>) <= PersistenceK + 2
      BY <2>1, ConsumeTyped, EmptySeq, LoopAssumption
    <3> QED BY <2>1, <2>2, <3>1 DEF Typed, TypeOK
  <2>7. recovered' \subseteq Node BY <2>1, <2>2, ConsumeTyped
  <2>8. streak' \in [Node -> 0 .. PersistenceK]
    <3>1. [streak EXCEPT ![next] = 0] \in [Node -> 0 .. PersistenceK]
      <4>1. 0 \in 0 .. PersistenceK BY LoopAssumption
      <4> QED BY <4>1 DEF Typed, TypeOK
    <3>2. Streak(v) \in [Node -> 0 .. PersistenceK] BY <2>1, ConsumeTyped
    <3> QED BY <2>2, <3>1, <3>2
  <2>9. episodes' \in Seq(Node \X Nat)
    <3>1. <<next, now - 1>> \in Node \X Nat BY <2>1, ConsumeTyped
    <3> QED BY <2>2, <3>1, AppendProperties DEF Typed, TypeOK
  <2> QED BY <2>1, <2>4, <2>5, <2>6, <2>7, <2>8, <2>9, ConsumeTyped
       DEF Typed, TypeOK
<1> QED BY <1>1, <1>2, <1>3, <1>4 DEF LoopNext

(* Every reachable state of the loop is well typed, in every arm.          *)
THEOREM TypeCorrect == Spec \/ ReportSpec => []TypeOK
<1>1. Typed => TypeOK BY DEF Typed
<1> QED BY InitTyped, TypedKept, Invariant, ArmsAreLoops, <1>1, PTL DEF LoopSpec

-------------------------------------------------------------------------------
(* Appending an episode keeps the earlier ones and puts it behind them.    *)
LEMMA EpisodeAppended ==
  ASSUME Typed, NEW e \in Node \X Nat
  PROVE  /\ \A i \in DOMAIN episodes : /\ i \in DOMAIN Append(episodes, e)
                                       /\ Append(episodes, e)[i] = episodes[i]
         /\ \E i \in DOMAIN Append(episodes, e) : Append(episodes, e)[i] = e
<1>1. episodes \in Seq(Node \X Nat) BY DEF Typed, TypeOK
<1>2. /\ DOMAIN episodes = 1 .. Len(episodes) /\ Len(episodes) \in Nat
      /\ DOMAIN Append(episodes, e) = 1 .. Len(episodes) + 1
      /\ \A i \in 1 .. Len(episodes) : Append(episodes, e)[i] = episodes[i]
      /\ Append(episodes, e)[Len(episodes) + 1] = e
  BY <1>1, AppendProperties, LenProperties
<1>3. Len(episodes) + 1 \in 1 .. Len(episodes) + 1 BY <1>2
<1> QED BY <1>2, <1>3

(* What a consumed record does to the window and streak of its node.       *)
LEMMA StreakConsumed ==
  ASSUME Typed, StreakExact, NEW v \in BOOLEAN, next \in Node
  PROVE  \A j \in 0 .. PersistenceK :
           Streak(v)[next] >= j <=> Trail(Slide(window[next], v), j)
<1> DEFINE w == window[next]
           s == Slide(w, v)
           k == streak[next]
<1>1. /\ w \in Seq(BOOLEAN) /\ Len(w) <= PersistenceK + 2 /\ k \in 0 .. PersistenceK
      /\ PersistenceK \in Nat
  BY LoopAssumption DEF Typed, TypeOK
<1>2. /\ Len(s) \in 1 .. PersistenceK + 2
      /\ \A j \in 1 .. PersistenceK : Trail(s, j) <=> v /\ Trail(w, j - 1)
  BY <1>1, SlideTyped
<1>3. Streak(v)[next] = IF v THEN Min({k + 1, PersistenceK}) ELSE 0
  BY DEF Streak, Typed, TypeOK
<1>4. /\ Min({k + 1, PersistenceK}) \in {k + 1, PersistenceK}
      /\ Min({k + 1, PersistenceK}) <= k + 1
      /\ Min({k + 1, PersistenceK}) <= PersistenceK
  <2>1. k + 1 \in Int /\ PersistenceK \in Int BY <1>1
  <2> QED BY <2>1, MinOfTwo
<1>5. \A j \in 0 .. PersistenceK : k >= j <=> Trail(w, j)
  BY DEF StreakExact
<1> DEFINE u == Streak(v)[next]
<1> HIDE DEF w, s, k, u
<1>6. ASSUME NEW j \in 0 .. PersistenceK PROVE u >= j <=> Trail(s, j)
  <2>1. u = IF v THEN Min({k + 1, PersistenceK}) ELSE 0 BY <1>3 DEF u, k
  <2>2. u \in Nat BY <1>1, <1>4, <2>1
  <2>3. CASE j = 0
    <3>1. Trail(s, 0) BY <1>2 DEF Trail
    <3> QED BY <2>2, <2>3, <3>1
  <2>4. CASE j # 0
    <3>1. j \in 1 .. PersistenceK /\ j - 1 \in 0 .. PersistenceK BY <1>1, <2>4
    <3>2. Trail(s, j) <=> v /\ k >= j - 1 BY <1>2, <1>5, <3>1
    <3>3. u >= j <=> v /\ k >= j - 1 BY <1>1, <1>4, <2>1, <3>1
    <3> QED BY <3>2, <3>3
  <2> QED BY <2>3, <2>4
<1> QED BY <1>6 DEF u, s, w

(* Every step keeps the streaks equal to the trailing anomalies of the     *)
(* windows.                                                                *)
LEMMA StreakKept == Typed /\ StreakExact /\ LoopNext => StreakExact'
<1> SUFFICES ASSUME Typed, StreakExact, LoopNext PROVE StreakExact' OBVIOUS
<1>1. CASE Step BY <1>1 DEF Step, loop, StreakExact, Trail
<1>2. ASSUME NEW v \in BOOLEAN, next \in Node, streak' = Streak(v),
             window' = [window EXCEPT ![next] = Slide(@, v)]
      PROVE  StreakExact'
  <2> SUFFICES ASSUME NEW n \in Node, NEW j \in 0 .. PersistenceK
               PROVE  streak'[n] >= j <=> Trail(window'[n], j)
    BY DEF StreakExact, Trail
  <2>1. CASE n = next
    <3>1. window'[n] = Slide(window[next], v) BY <1>2, <2>1 DEF Typed, TypeOK
    <3> QED BY <1>2, <2>1, <3>1, StreakConsumed
  <2>2. CASE n # next
    <3>1. window'[n] = window[n] BY <1>2, <2>2 DEF Typed, TypeOK
    <3>2. streak'[n] = streak[n] BY <1>2, <2>2 DEF Streak, Typed, TypeOK
    <3> QED BY <3>1, <3>2 DEF StreakExact
  <2> QED BY <2>1, <2>2
<1>3. ASSUME next \in Node, streak' = [streak EXCEPT ![next] = 0],
             window' = [window EXCEPT ![next] = <<>>]
      PROVE  StreakExact'
  <2> SUFFICES ASSUME NEW n \in Node, NEW j \in 0 .. PersistenceK
               PROVE  streak'[n] >= j <=> Trail(window'[n], j)
    BY DEF StreakExact, Trail
  <2>1. CASE n = next
    <3>1. window'[n] = <<>> /\ streak'[n] = 0 BY <1>3, <2>1 DEF Typed, TypeOK
    <3>2. Trail(<<>>, j) <=> j = 0 BY LoopAssumption DEF Trail
    <3> QED BY <3>1, <3>2, LoopAssumption
  <2>2. CASE n # next
    <3>1. window'[n] = window[n] /\ streak'[n] = streak[n]
      BY <1>3, <2>2 DEF Typed, TypeOK
    <3> QED BY <3>1 DEF StreakExact
  <2> QED BY <2>1, <2>2
<1>4. ASSUME NEW v \in BOOLEAN, Unanswered(v) PROVE StreakExact'
  BY <1>2, <1>4 DEF Unanswered, Consume
<1>5. ASSUME NEW v \in BOOLEAN, NEW cause \in Cause, Recover(v, cause)
      PROVE  StreakExact'
  <2>1. next \in Node BY <1>5 DEF Recover, Consume
  <2>2. \/ /\ streak' = Streak(v)
           /\ window' = [window EXCEPT ![next] = Slide(@, v)]
        \/ /\ streak' = [streak EXCEPT ![next] = 0]
           /\ window' = [window EXCEPT ![next] = <<>>]
    BY <1>5, Zenon DEF Recover
  <2> QED BY <1>2, <1>3, <2>1, <2>2
<1> QED BY <1>1, <1>4, <1>5 DEF LoopNext

(* A node that stays in recovered_nodes has a fault due on it at this      *)
(* record too.                                                             *)
LEMMA StillSince ==
  ASSUME IInv, Typed, RecoveredSince, Consume, NEW n \in StillRecovered(now - 1)
  PROVE  \E i \in DOMAIN episodes :
           /\ episodes[i][1] = n
           /\ \A t \in episodes[i][2] + 1 .. now - 1 : Due(n, t)
<1>1. n \in recovered /\ Due(n, now - 1) BY DueIsActive DEF StillRecovered
<1>2. PICK i \in DOMAIN episodes :
        /\ episodes[i][1] = n
        /\ \A t \in episodes[i][2] + 1 .. LastTime : Due(n, t)
  BY <1>1 DEF RecoveredSince
<1>3. now \in Nat /\ (LastTime = now - 1 \/ LastTime = now - 2)
  BY DEF LastTime, IInv, Basics
<1>4. episodes[i][2] \in Int BY DEF IInv, Basics
<1>5. \A t \in episodes[i][2] + 1 .. now - 1 :
        t = now - 1 \/ t \in episodes[i][2] + 1 .. LastTime
  BY <1>3, <1>4
<1> QED BY <1>1, <1>2, <1>5

(* Every step keeps a fault due since the last recovery of each node in    *)
(* recovered_nodes.                                                        *)
LEMMA RecoveredKept == IInv /\ Typed /\ RecoveredSince /\ LoopNext => RecoveredSince'
<1> SUFFICES ASSUME IInv, Typed, RecoveredSince, LoopNext PROVE RecoveredSince'
  OBVIOUS
<1>1. CASE Step
  <2>1. LastTime' = LastTime
    <3>1. /\ next = NumNodes + 1 /\ next' = 1 /\ now' = now + 1 /\ now \in Nat
      BY <1>1 DEF Step, IInv, Basics
    <3> QED BY <3>1, LoopAssumption DEF LastTime
  <2>2. scheduled' = scheduled /\ recovered' = recovered /\ episodes' = episodes
    BY <1>1 DEF Step, generator, loop
  <2> QED BY <2>1, <2>2, DueConstant DEF RecoveredSince
<1>2. ASSUME NEW v \in BOOLEAN, Unanswered(v) PROVE RecoveredSince'
  <2>1. /\ Consume /\ recovered' = StillRecovered(now - 1) /\ episodes' = episodes
    BY <1>2 DEF Unanswered
  <2>2. scheduled' = scheduled /\ LastTime' = now - 1
    BY <2>1, ConsumeTime DEF Consume
  <2> QED BY <2>1, <2>2, StillSince, DueConstant DEF RecoveredSince
<1>3. ASSUME NEW v \in BOOLEAN, NEW cause \in Cause, Recover(v, cause)
      PROVE  RecoveredSince'
  <2> DEFINE e == <<next, now - 1>>
  <2>1. /\ Consume /\ recovered' = StillRecovered(now - 1) \cup {next}
        /\ episodes' = Append(episodes, e)
    BY <1>3 DEF Recover
  <2>2. scheduled' = scheduled /\ LastTime' = now - 1
    BY <2>1, ConsumeTime DEF Consume
  <2>3. e \in Node \X Nat /\ e[1] = next /\ e[2] = now - 1 /\ now - 1 \in Nat
    BY <2>1, ConsumeTyped
  <2> HIDE DEF e
  <2>4. ASSUME NEW n \in recovered'
        PROVE  \E i \in DOMAIN episodes' :
                 /\ episodes'[i][1] = n
                 /\ \A t \in episodes'[i][2] + 1 .. now - 1 : Due(n, t)
    <3>1. CASE n = next
      <4>1. PICK i \in DOMAIN episodes' : episodes'[i] = e
        BY <2>1, <2>3, EpisodeAppended
      <4>2. e[2] + 1 .. now - 1 = {} BY <2>3
      <4> QED BY <2>3, <3>1, <4>1, <4>2
    <3>2. CASE n # next
      BY <2>1, <2>3, <3>2, StillSince, EpisodeAppended
    <3> QED BY <3>1, <3>2
  <2> QED BY <2>2, <2>4, DueConstant DEF RecoveredSince
<1> QED BY <1>1, <1>2, <1>3 DEF LoopNext

(* A node that consulting the schedule leaves mitigated was recovered      *)
(* after the end of every window on it, the one that may just have passed  *)
(* included: the flag of that fault is still up, so it would be cleared.   *)
LEMMA MitigationAnswered ==
  ASSUME IInv, Typed, NoStaleMitigation, Consume, NEW n \in Node,
         UpdatedHealth(n, now - 1).mitigation # Unmitigated
  PROVE  \E i \in DOMAIN episodes :
           /\ episodes[i][1] = n
           /\ \A f \in On(n) :
                scheduled[f].start + scheduled[f].duration <= now - 1 =>
                  episodes[i][2] >= scheduled[f].start + scheduled[f].duration
<1>1. Expired(n, now - 1) = {} /\ health[n].mitigation # Unmitigated
  BY UpdatedTyped DEF Typed
<1>2. PICK i \in DOMAIN episodes :
        /\ episodes[i][1] = n
        /\ \A f \in On(n) :
             scheduled[f].start + scheduled[f].duration <= LastTime =>
               episodes[i][2] >= scheduled[f].start + scheduled[f].duration
  BY <1>1 DEF NoStaleMitigation
<1>3. now \in Nat /\ (LastTime = now - 1 \/ LastTime = now - 2)
  BY DEF LastTime, IInv, Basics
<1>4. ASSUME NEW f \in On(n), scheduled[f].start + scheduled[f].duration <= now - 1
      PROVE  scheduled[f].start + scheduled[f].duration <= LastTime
  <2>1. f \in Index /\ scheduled[f] \in Fault
    BY ElementOfSeq DEF On, Index, IInv, Basics
  <2>2. scheduled[f].start \in Nat /\ scheduled[f].duration \in Nat \ {0}
    BY <2>1 DEF Fault
  <2>3. ~ active[f] \/ ActiveAt(f, now - 1) BY <1>1 DEF Expired
  <2>4. active[f] <=> ActiveAt(f, LastTime) BY <2>1 DEF IInv, FlagsExact
  <2>5. ~ ActiveAt(f, LastTime) \/ ActiveAt(f, now - 1) BY <2>3, <2>4, Zenon
  <2> QED BY <1>3, <1>4, <2>2, <2>5 DEF ActiveAt
<1> QED BY <1>2, <1>4

(* Every step keeps the mitigations within the windows of their faults.    *)
LEMMA MitigationKept ==
  IInv /\ Typed /\ NoStaleMitigation /\ LoopNext => NoStaleMitigation'
<1> SUFFICES ASSUME IInv, Typed, NoStaleMitigation, LoopNext
             PROVE  NoStaleMitigation'
  OBVIOUS
<1>1. \A n : scheduled' = scheduled => On(n)' = On(n) BY DEF On, Index
<1>2. CASE Step
  <2>1. LastTime' = LastTime
    <3>1. /\ next = NumNodes + 1 /\ next' = 1 /\ now' = now + 1 /\ now \in Nat
      BY <1>2 DEF Step, IInv, Basics
    <3> QED BY <3>1, LoopAssumption DEF LastTime
  <2>2. scheduled' = scheduled /\ episodes' = episodes
    BY <1>2 DEF Step, generator, loop
  <2>3. \A n \in Node : health'[n].mitigation = health[n].mitigation
    <3> TAKE n \in Node
    <3>1. PICK w \in [Node -> Workloads] :
            health' = [m \in Node |-> UpdateMetrics(health[m], w[m])]
      BY <1>2 DEF Step
    <3>2. health[n] \in Health /\ w[n] \in Nat
      BY LoopAssumption DEF Typed, TypeOK
    <3> QED BY <3>1, <3>2, UpdateMetricsType
  <2> QED BY <1>1, <2>1, <2>2, <2>3 DEF NoStaleMitigation
<1>3. ASSUME NEW v \in BOOLEAN, Unanswered(v) PROVE NoStaleMitigation'
  <2>1. /\ Consume /\ episodes' = episodes
        /\ \A n \in Node : health'[n] = UpdatedHealth(n, now - 1)
    BY <1>3 DEF Unanswered
  <2>2. scheduled' = scheduled /\ LastTime' = now - 1
    BY <2>1, ConsumeTime DEF Consume
  <2> QED BY <1>1, <2>1, <2>2, MitigationAnswered DEF NoStaleMitigation
<1>4. ASSUME NEW v \in BOOLEAN, NEW cause \in Cause, Recover(v, cause)
      PROVE  NoStaleMitigation'
  <2> DEFINE e == <<next, now - 1>>
  <2>1. /\ Consume /\ episodes' = Append(episodes, e)
        /\ \A n \in Node : n # next => health'[n] = UpdatedHealth(n, now - 1)
    BY <1>4 DEF Recover
  <2>2. scheduled' = scheduled /\ LastTime' = now - 1
    BY <2>1, ConsumeTime DEF Consume
  <2>3. e \in Node \X Nat /\ e[1] = next /\ e[2] = now - 1 /\ now - 1 \in Nat
    BY <2>1, ConsumeTyped
  <2> HIDE DEF e
  <2>4. ASSUME NEW n \in Node, health'[n].mitigation # Unmitigated
        PROVE  \E i \in DOMAIN episodes' :
                 /\ episodes'[i][1] = n
                 /\ \A f \in On(n) :
                      scheduled[f].start + scheduled[f].duration <= now - 1 =>
                        episodes'[i][2] >= scheduled[f].start + scheduled[f].duration
    <3>1. CASE n = next
      <4>1. PICK i \in DOMAIN episodes' : episodes'[i] = e
        BY <2>1, <2>3, EpisodeAppended
      <4>2. \A f \in On(n) : scheduled[f] \in Fault
        BY ElementOfSeq DEF On, Index, IInv, Basics
      <4>3. \A f \in On(n) : scheduled[f].start + scheduled[f].duration \in Nat
        BY <4>2 DEF Fault
      <4> QED BY <2>3, <3>1, <4>1, <4>3
    <3>2. CASE n # next
      <4>1. UpdatedHealth(n, now - 1).mitigation # Unmitigated
        BY <2>1, <2>4, <3>2
      <4> QED BY <2>1, <2>3, <4>1, MitigationAnswered, EpisodeAppended
    <3> QED BY <3>1, <3>2
  <2> QED BY <1>1, <2>2, <2>4 DEF NoStaleMitigation
<1> QED BY <1>2, <1>3, <1>4 DEF LoopNext

-------------------------------------------------------------------------------
(* What the remaining theorems are drawn from.                             *)
LEMMA FullInvariant == Spec \/ ReportSpec => []LInv
<1>1. Init => LInv
  <2> SUFFICES ASSUME Init PROVE LInv OBVIOUS
  <2>1. IInv /\ Typed BY InitInvariant, InitTyped
  <2>2. StreakExact
    <3>1. \A j \in 0 .. PersistenceK : 0 >= j <=> Trail(<<>>, j)
      BY LoopAssumption DEF Trail
    <3> QED BY <3>1 DEF Init, StreakExact
  <2>3. RecoveredSince BY DEF Init, RecoveredSince
  <2>4. NoStaleMitigation BY DEF Init, NoStaleMitigation, InitialHealth
  <2> QED BY <2>1, <2>2, <2>3, <2>4 DEF LInv
<1>2. LInv /\ [LoopNext]_vars => LInv'
  <2> SUFFICES ASSUME LInv, [LoopNext]_vars PROVE LInv' OBVIOUS
  <2>1. IInv'
    BY StepKeeps, UnansweredKeeps, RecoverKeeps, StutterKeeps DEF LoopNext, LInv
  <2>2. Typed' BY TypedKept DEF LInv
  <2>3. StreakExact' /\ RecoveredSince' /\ NoStaleMitigation'
    <3>1. CASE LoopNext
      BY <3>1, StreakKept, RecoveredKept, MitigationKept DEF LInv
    <3>2. CASE UNCHANGED vars
      <4>1. UNCHANGED <<scheduled, health, now, next, window, recovered, episodes,
                        streak>>
        BY <3>2 DEF vars, generator, plant, stream, loop
      <4>2. LastTime' = LastTime /\ \A n : On(n)' = On(n)
        BY <4>1 DEF LastTime, On, Index
      <4>3. StreakExact' BY <4>1 DEF LInv, StreakExact, Trail
      <4>4. RecoveredSince'
        BY <4>1, <4>2, DueConstant DEF LInv, RecoveredSince
      <4>5. NoStaleMitigation' BY <4>1, <4>2 DEF LInv, NoStaleMitigation
      <4> QED BY <4>3, <4>4, <4>5
    <3> QED BY <3>1, <3>2
  <2> QED BY <2>1, <2>2, <2>3 DEF LInv
<1> QED BY ArmsAreLoops, <1>1, <1>2, PTL DEF LoopSpec

(* Mitigations end with the fault they answer, because clearing a fault    *)
(* resets the factors of its node and each fault is cleared at the first   *)
(* record behind its window.                                               *)
THEOREM MitigationsEnd == Spec \/ ReportSpec => []NoStaleMitigation
<1>1. LInv => NoStaleMitigation BY DEF LInv
<1> QED BY FullInvariant, <1>1, PTL

(* A recovery needs persistence anomalies in a row behind the last         *)
(* successful one: the window, emptied by it, holds what the streak counts. *)
THEOREM RecoveriesConfirmed == Spec \/ ReportSpec => RecoveryConfirmed
<1> DEFINE Backed == Recoveries => /\ streak[next] >= PersistenceK - 1
                                   /\ \/ window'[next] = <<>>
                                      \/ window'[next][Len(window'[next])]
<1>1. LInv /\ [LoopNext]_vars => [Backed]_vars
  <2> SUFFICES ASSUME LInv, LoopNext, Recoveries PROVE Backed BY DEF vars
  <2>1. PICK v \in BOOLEAN, cause \in Cause : Recover(v, cause)
    BY DEF LoopNext, Step, Unanswered, Recoveries, loop
  <2> DEFINE w == window[next]
             s == Slide(w, v)
  <2>2. next \in Node /\ Persistent(s)
    BY <2>1 DEF Recover, Consume, Attempts, Confirmed
  <2>3. /\ w \in Seq(BOOLEAN) /\ Len(w) <= PersistenceK + 2
        /\ PersistenceK \in Nat \ {0}
    BY <2>2, LoopAssumption DEF LInv, Typed, TypeOK
  <2>4. /\ Len(s) \in 1 .. PersistenceK + 2
        /\ Trail(s, PersistenceK) <=> v /\ Trail(w, PersistenceK - 1)
    BY <2>3, SlideTyped
  <2>5. window' = [window EXCEPT ![next] = <<>>] \/ window' = [window EXCEPT ![next] = s]
    BY <2>1, Zenon DEF Recover
  <2>6. window'[next] = <<>> \/ window'[next] = s
    BY <2>2, <2>5 DEF LInv, Typed, TypeOK
  <2> HIDE DEF w, s
  <2>7. Trail(s, PersistenceK) BY <2>2 DEF Persistent, Trail
  <2>8. s[Len(s)]
    <3>1. Len(s) \in Len(s) - PersistenceK + 1 .. Len(s) BY <2>3, <2>4
    <3> QED BY <2>7, <3>1 DEF Trail
  <2>9. streak[next] >= PersistenceK - 1
    <3>1. PersistenceK - 1 \in 0 .. PersistenceK BY <2>3
    <3> QED BY <2>2, <2>4, <2>7, <3>1 DEF LInv, StreakExact, w
  <2> QED BY <2>6, <2>8, <2>9
<1> QED BY FullInvariant, ArmsAreLoops, <1>1, PTL DEF LoopSpec, RecoveryConfirmed

-------------------------------------------------------------------------------
(* A run of an arm that recovers is a run of the loop; only the arm that   *)
(* watches without acting is not.                                          *)
THEOREM RecoveringArmsImplementLoop == ReportSpec => (arm # "NONE" => Spec)
<1>1. ReportInit => Init BY DEF ReportInit
<1>2. arm # "NONE" /\ [ReportNext]_reportVars => [Next]_vars /\ (arm # "NONE")'
  <2> SUFFICES ASSUME arm # "NONE", [ReportNext]_reportVars
               PROVE  [Next]_vars /\ arm' # "NONE"
    OBVIOUS
  <2>1. CASE Tick BY <2>1 DEF Tick, Next, reporting
  <2>2. ASSUME NEW v \in BOOLEAN, Watch(v) PROVE FALSE BY <2>2 DEF Watch
  <2>3. ASSUME NEW v \in BOOLEAN, Pass(v) PROVE Next /\ arm' # "NONE"
    BY <2>3 DEF Pass, Next, Account
  <2>4. ASSUME NEW v \in BOOLEAN, NEW cause \in Cause, Answer(v, cause)
        PROVE  Next /\ arm' # "NONE"
    <3>1. (IF arm = "FIXED" THEN "CPU_OVERLOAD" ELSE cause) \in Cause
      BY DEF Cause, FaultType
    <3> QED BY <2>4, <3>1 DEF Answer, Next, Account
  <2>5. CASE Finish BY <2>5 DEF Finish
  <2>6. CASE UNCHANGED reportVars BY <2>6 DEF reportVars, reporting
  <2> QED BY <2>1, <2>2, <2>3, <2>4, <2>5, <2>6 DEF ReportNext
<1> QED BY <1>1, <1>2, PTL DEF ReportSpec, Spec

(* The loop never ignores a confirmed fault: a confirmation is let pass    *)
(* only for a recovered node, and such a node has had a fault due on it at *)
(* every record since one of its episodes.                                 *)
LEMMA ConfirmedAttempted == Spec => []ConfirmedIsAttempted
<1>1. Init => ConfirmedIsAttempted
  BY LoopAssumption DEF Init, ConfirmedIsAttempted
<1>2. LInv /\ ConfirmedIsAttempted /\ [Next]_vars => ConfirmedIsAttempted'
  <2> SUFFICES ASSUME LInv, ConfirmedIsAttempted, [Next]_vars
               PROVE  ConfirmedIsAttempted'
    OBVIOUS
  <2>1. CASE UNCHANGED vars
    <3>1. UNCHANGED <<scheduled, next, streak, record, episodes, now>>
      BY <2>1 DEF vars, generator, stream, loop
    <3> QED BY <3>1, DueConstant DEF ConfirmedIsAttempted
  <2>2. CASE Step
    <3>1. next' = 1 BY <2>2 DEF Step
    <3>2. \A n \in Node : ~ (n < 1) BY LoopAssumption DEF Node
    <3> QED BY <3>1, <3>2 DEF ConfirmedIsAttempted
  <2> DEFINE Answered(n) ==
               \E i \in DOMAIN episodes :
                 /\ episodes[i][1] = n
                 /\ \A t \in episodes[i][2] + 1 .. now - 1 : Due(n, t)
  <2>3. ASSUME NEW n \in Node, n < next, streak[n] = PersistenceK,
               Degraded(record[n].metric)
        PROVE  Answered(n)
    BY <2>3 DEF ConfirmedIsAttempted
  <2>4. ASSUME Consume
        PROVE  /\ UNCHANGED <<scheduled, record, now>> /\ next' = next + 1
               /\ \A n \in Node : n < next' /\ n # next => n < next
    BY <2>4, LoopAssumption DEF Consume, Node
  <2>5. ASSUME NEW v \in BOOLEAN, Consume, Streak(v)[next] = PersistenceK
        PROVE  Persistent(Slide(window[next], v))
    <3>1. next \in Node BY <2>5 DEF Consume
    <3>2. PersistenceK \in 0 .. PersistenceK /\ PersistenceK >= PersistenceK
      BY LoopAssumption
    <3>3. Trail(Slide(window[next], v), PersistenceK)
      BY <2>5, <3>1, <3>2, StreakConsumed DEF LInv
    <3>4. Len(Slide(window[next], v)) \in Int
      BY <3>1, SlideTyped DEF LInv, Typed, TypeOK
    <3> QED BY <3>3, <3>4, LoopAssumption DEF Trail, Persistent
  <2>6. ASSUME NEW v \in BOOLEAN, Observe(v) PROVE ConfirmedIsAttempted'
    <3>1. /\ Consume /\ episodes' = episodes /\ streak' = Streak(v)
          /\ ~ Attempts(v, now - 1)
      BY <2>6 DEF Observe
    <3>2. ASSUME NEW n \in Node, n < next', streak'[n] = PersistenceK,
                 Degraded(record'[n].metric)
          PROVE  Answered(n)
      <4>1. CASE n = next
        <5>1. Persistent(Slide(window[next], v)) BY <2>5, <3>1, <3>2, <4>1
        <5>2. Confirmed(v) BY <2>4, <3>1, <3>2, <4>1, <5>1 DEF Confirmed
        <5>3. next \in StillRecovered(now - 1) BY <3>1, <5>2 DEF Attempts
        <5> QED BY <3>1, <4>1, <5>3, StillSince DEF LInv
      <4>2. CASE n # next
        <5>1. n < next /\ record' = record BY <2>4, <3>1, <3>2, <4>2
        <5>2. streak[n] = PersistenceK
          BY <3>1, <3>2, <4>2 DEF Streak, LInv, Typed, TypeOK
        <5> QED BY <2>3, <3>2, <5>1, <5>2
      <4> QED BY <4>1, <4>2
    <3> QED BY <2>4, <3>1, <3>2, DueConstant DEF ConfirmedIsAttempted
  <2>7. ASSUME NEW v \in BOOLEAN, NEW cause \in Cause, Recover(v, cause)
        PROVE  ConfirmedIsAttempted'
    <3> DEFINE e == <<next, now - 1>>
    <3>1. /\ Consume /\ episodes' = Append(episodes, e)
      BY <2>7 DEF Recover
    <3>2. \A n \in Node : n # next => streak'[n] = streak[n]
      BY <2>7 DEF Recover, Streak, LInv, Typed, TypeOK
    <3>3. e \in Node \X Nat /\ e[1] = next /\ e[2] = now - 1 /\ now - 1 \in Nat
      BY <3>1, ConsumeTyped DEF LInv
    <3> HIDE DEF e
    <3>4. ASSUME NEW n \in Node, n < next', streak'[n] = PersistenceK,
                 Degraded(record'[n].metric)
          PROVE  \E i \in DOMAIN episodes' :
                   /\ episodes'[i][1] = n
                   /\ \A t \in episodes'[i][2] + 1 .. now - 1 : Due(n, t)
      <4>1. CASE n = next
        <5>1. PICK i \in DOMAIN episodes' : episodes'[i] = e
          BY <3>1, <3>3, EpisodeAppended DEF LInv
        <5>2. e[2] + 1 .. now - 1 = {} BY <3>3
        <5> QED BY <3>3, <4>1, <5>1, <5>2
      <4>2. CASE n # next
        <5>1. n < next /\ record' = record BY <2>4, <3>1, <3>4, <4>2
        <5>2. Answered(n) BY <2>3, <3>2, <3>4, <4>2, <5>1
        <5> QED BY <3>1, <3>3, <5>2, EpisodeAppended DEF LInv
      <4> QED BY <4>1, <4>2
    <3> QED BY <2>4, <3>1, <3>4, DueConstant DEF ConfirmedIsAttempted
  <2> QED BY <2>1, <2>2, <2>6, <2>7 DEF Next
<1> QED BY FullInvariant, <1>1, <1>2, PTL DEF Spec

(* In every arm that recovers, for every schedule and verdict: a confirmed *)
(* fault was answered by an attempt and has been due ever since.           *)
THEOREM ConfirmedFaultsAnswered == ReportSpec => []ConfirmedAnswered
<1>1. arm = "NONE" /\ [ReportNext]_reportVars => (arm = "NONE")'
  BY DEF ReportNext, Tick, Watch, Pass, Answer, Account, Finish, reportVars, reporting
<1>2. arm = "NONE" \/ ConfirmedIsAttempted => ConfirmedAnswered
  BY DEF ConfirmedAnswered
<1>3. arm = "NONE" \/ arm # "NONE" OBVIOUS
<1> QED BY ConfirmedAttempted, RecoveringArmsImplementLoop, <1>1, <1>2, <1>3, PTL
     DEF ReportSpec

-------------------------------------------------------------------------------
(* The report.  The record of node n and time t has been consumed.         *)
Consumed(n, t) == t < now - 1 \/ (t = now - 1 /\ n < next)

(* Every record consumed is in one cell, every confirmation in a positive  *)
(* one, and no record is confirmed twice.                                  *)
Counters == [tp : Nat, fp : Nat, fn : Nat, tn : Nat, slow : Nat]

TallyInv ==
  /\ tally \in Counters
  /\ Records + NumNodes = NumNodes * now + (next - 1)
  /\ IsFiniteSet(confirmedAt) /\ confirmedAt \subseteq Node \X Nat
  /\ \A c \in confirmedAt : Consumed(c[1], c[2])
  /\ Cardinality(confirmedAt) = tally.tp + tally.fp

(* Every attempt answers a confirmation of its own, and the control group  *)
(* makes none.                                                             *)
AttemptCounts == [successes : Nat, supported : Nat, insufficient : Nat]

AttemptInv ==
  /\ attempts \in AttemptCounts
  /\ attempts.successes <= Len(episodes) /\ Len(episodes) <= tally.tp + tally.fp
  /\ attempts.supported + attempts.insufficient = Len(episodes)
  /\ \A k \in DOMAIN episodes : episodes[k] \in confirmedAt
  /\ arm = "NONE" => episodes = <<>>

(* first_confirmation_times is the earliest confirmation of each node, and *)
(* an arm that recovers attempted it.                                      *)
FirstInv ==
  \A n \in Node :
    \/ firstConfirmed[n] = NotApplicable /\ \A c \in confirmedAt : c[1] # n
    \/ /\ <<n, firstConfirmed[n]>> \in confirmedAt
       /\ \A c \in confirmedAt : c[1] = n => firstConfirmed[n] <= c[2]
       /\ arm # "NONE" => \E k \in DOMAIN episodes :
                            episodes[k] = <<n, firstConfirmed[n]>>

(* What is returned is taken at the end of the stream, after which nothing *)
(* changes it.                                                             *)
Ended == next = NumNodes + 1 /\ now = MaxSteps

RInv ==
  /\ TallyInv /\ AttemptInv
  /\ DOMAIN firstConfirmed = Node /\ FirstInv
  /\ report # <<>> => Ended /\ report = Result

(* One record more, in the cell of its truth and verdict.                  *)
LEMMA TalliedOnce ==
  ASSUME TypeOK, next \in Node, tally \in Counters, NEW v, tally' = Tallied(v)
  PROVE  /\ tally' \in Counters /\ Records' = Records + 1
         /\ Confirmed(v) => tally'.tp + tally'.fp = tally.tp + tally.fp + 1
         /\ ~ Confirmed(v) => tally'.tp + tally'.fp = tally.tp + tally.fp
<1> DEFINE f == record[next].fault
           s == One(Slow(record[next].metric))
<1>1. f \in BOOLEAN BY DEF TypeOK, Record
<1>2. s \in Nat BY DEF One
<1>3. /\ tally.tp \in Nat /\ tally.fp \in Nat /\ tally.fn \in Nat /\ tally.tn \in Nat
      /\ tally \in [{"tp", "fp", "fn", "tn", "slow"} -> Nat]
  BY DEF Counters
<1>4. ASSUME NEW k \in {"tp", "fp", "fn", "tn"}, CellOf(f, Confirmed(v)) = k
      PROVE  /\ tally' \in Counters
             /\ \A j \in {"tp", "fp", "fn", "tn"} :
                  tally'[j] = IF j = k THEN tally[j] + 1 ELSE tally[j]
  <2> DEFINE c == CellOf(f, Confirmed(v))
             x == tally[k] + 1
             y == tally.slow + s
             t == [tally EXCEPT ![k] = x]
  <2>1. tally' = [tally EXCEPT ![c] = tally[c] + 1, !.slow = tally.slow + s]
    BY Zenon DEF Tallied
  <2>2. c = k BY <1>4
  <2>3. x \in Nat /\ y \in Nat BY <1>2, <1>3
  <2> HIDE DEF c, s
  <2>4. tally' = [tally EXCEPT ![k] = x, !.slow = y] BY <2>1, <2>2, Zenon
  <2> HIDE DEF x, y
  <2>5. /\ t \in [{"tp", "fp", "fn", "tn", "slow"} -> Nat]
        /\ \A j \in {"tp", "fp", "fn", "tn"} : t[j] = IF j = k THEN x ELSE tally[j]
    BY <1>3, <2>3
  <2>6. tally' = [t EXCEPT !.slow = y] BY <2>4, Zenon
  <2> HIDE DEF t
  <2>7. /\ tally' \in [{"tp", "fp", "fn", "tn", "slow"} -> Nat]
        /\ \A j \in {"tp", "fp", "fn", "tn"} : tally'[j] = t[j]
    BY <2>3, <2>5, <2>6
  <2>8. tally' \in Counters BY <2>7 DEF Counters
  <2> QED BY <2>5, <2>7, <2>8 DEF x
<1> HIDE DEF s
<1>5. CASE f /\ Confirmed(v)
  <2>1. CellOf(f, Confirmed(v)) = "tp" BY <1>5 DEF CellOf
  <2> QED BY <1>3, <1>4, <1>5, <2>1 DEF Records
<1>6. CASE f /\ ~ Confirmed(v)
  <2>1. CellOf(f, Confirmed(v)) = "fn" BY <1>6 DEF CellOf
  <2> QED BY <1>3, <1>4, <1>6, <2>1 DEF Records
<1>7. CASE ~ f /\ Confirmed(v)
  <2>1. CellOf(f, Confirmed(v)) = "fp" BY <1>7 DEF CellOf
  <2> QED BY <1>3, <1>4, <1>7, <2>1 DEF Records
<1>8. CASE ~ f /\ ~ Confirmed(v)
  <2>1. CellOf(f, Confirmed(v)) = "tn" BY <1>8 DEF CellOf
  <2> QED BY <1>3, <1>4, <1>8, <2>1 DEF Records
<1> QED BY <1>1, <1>5, <1>6, <1>7, <1>8

(* A record accounted for is consumed once and, if confirmed, is a         *)
(* confirmation that was not there before.                                 *)
LEMMA TallyKept ==
  ASSUME Typed, TallyInv, NEW v, Consume, Account(v)
  PROVE  /\ TallyInv'
         /\ now - 1 \in Nat /\ <<next, now - 1>> \notin confirmedAt
         /\ \A c \in confirmedAt : c[1] = next => c[2] < now - 1
         /\ Confirmed(v) => confirmedAt' = confirmedAt \cup {<<next, now - 1>>}
         /\ ~ Confirmed(v) => confirmedAt' = confirmedAt
<1> DEFINE p == <<next, now - 1>>
<1>1. /\ next \in Node /\ next' = next + 1 /\ now' = now
      /\ NumNodes \in Nat \ {0} /\ now \in Nat /\ next \in Nat /\ now # 0
      /\ TypeOK
  BY LoopAssumption DEF Consume, Typed, TypeOK, Node
<1>2. /\ Confirmed(v) => confirmedAt' = confirmedAt \cup {p}
      /\ ~ Confirmed(v) => confirmedAt' = confirmedAt
  BY DEF Account
<1>3. /\ tally' \in Counters /\ Records' = Records + 1
      /\ Confirmed(v) => tally'.tp + tally'.fp = tally.tp + tally.fp + 1
      /\ ~ Confirmed(v) => tally'.tp + tally'.fp = tally.tp + tally.fp
  BY <1>1, TalliedOnce DEF TallyInv, Account
<1>4. \A c \in confirmedAt : /\ c[1] \in Nat /\ c[2] \in Nat
                             /\ Consumed(c[1], c[2])
  BY DEF TallyInv, Node
<1>5. p \notin confirmedAt /\ \A c \in confirmedAt : c[1] = next => c[2] < now - 1
  BY <1>1, <1>4 DEF Consumed
<1>6. Records' + NumNodes = NumNodes * now' + (next' - 1)
  <2>1. Records \in Nat BY DEF TallyInv, Records, Counters
  <2> DEFINE k == NumNodes * now
  <2>2. k \in Nat BY <1>1
  <2>3. Records + NumNodes = k + (next - 1) BY DEF TallyInv
  <2> HIDE DEF k
  <2>4. Records' + NumNodes = k + (next + 1 - 1) BY <1>1, <1>3, <2>1, <2>2, <2>3
  <2> QED BY <1>1, <2>4 DEF k
<1>7. p \in Node \X Nat BY <1>1
<1>8. \A c \in confirmedAt \cup {p} : Consumed(c[1], c[2])'
  <2>1. \A c \in confirmedAt : Consumed(c[1], c[2])' BY <1>1, <1>4 DEF Consumed
  <2>2. ASSUME NEW c, c = p PROVE Consumed(c[1], c[2])'
    BY <1>1, <2>2 DEF Consumed
  <2> QED BY <2>1, <2>2
<1>9. Cardinality(confirmedAt \cup {p}) = Cardinality(confirmedAt) + 1
      /\ IsFiniteSet(confirmedAt \cup {p})
  BY <1>5, FS_AddElement DEF TallyInv
<1>10. TallyInv'
  <2>1. CASE Confirmed(v)
    <3>1. confirmedAt' \subseteq Node \X Nat BY <1>2, <1>7, <2>1 DEF TallyInv
    <3> QED BY <1>2, <1>3, <1>6, <1>8, <1>9, <2>1, <3>1 DEF TallyInv
  <2>2. CASE ~ Confirmed(v)
    BY <1>2, <1>3, <1>6, <1>8, <2>2 DEF TallyInv
  <2> QED BY <2>1, <2>2
<1> QED BY <1>1, <1>2, <1>5, <1>10

(* An arm that recovers lets a first confirmation pass for no node: a node *)
(* in recovered_nodes has had one.                                         *)
LEMMA FirstIsAttempted ==
  ASSUME RecoveredSince, TallyInv, AttemptInv, FirstInv, next \in Node,
         NEW v, Confirmed(v), NEW t, ~ Attempts(v, t)
  PROVE  firstConfirmed[next] # NotApplicable
<1>1. next \in recovered BY DEF Attempts, StillRecovered
<1>2. PICK i \in DOMAIN episodes : episodes[i][1] = next
  BY <1>1 DEF RecoveredSince
<1>3. \E c \in confirmedAt : c[1] = next BY <1>2 DEF AttemptInv
<1>4. PICK c \in confirmedAt : c[1] = next BY <1>3
<1>5. <<next, firstConfirmed[next]>> \in confirmedAt BY <1>4 DEF FirstInv
<1>6. firstConfirmed[next] \in Int BY <1>5 DEF TallyInv
<1> QED BY <1>6, NotApplicableAssumption

(* The first confirmation of a node is kept, and attempted.                *)
LEMMA FirstKept ==
  ASSUME Typed, TallyInv, DOMAIN firstConfirmed = Node, FirstInv,
         NEW v, Consume, Account(v),
         \A k \in DOMAIN episodes :
            k \in DOMAIN episodes' /\ episodes'[k] = episodes[k],
         arm # "NONE" /\ Confirmed(v) /\ firstConfirmed[next] = NotApplicable =>
            \E k \in DOMAIN episodes' : episodes'[k] = <<next, now - 1>>
  PROVE  DOMAIN firstConfirmed' = Node /\ FirstInv'
<1> DEFINE p == <<next, now - 1>>
<1>1. /\ now - 1 \in Nat
      /\ \A c \in confirmedAt : c[1] = next => c[2] < now - 1
      /\ Confirmed(v) => confirmedAt' = confirmedAt \cup {p}
      /\ ~ Confirmed(v) => confirmedAt' = confirmedAt
  BY TallyKept
<1>2. arm' = arm /\ next \in Node BY DEF Account, Consume
<1>3. \A c \in confirmedAt : c[2] \in Nat /\ c = <<c[1], c[2]>>
  BY DEF TallyInv
<1> DEFINE Exact(n) ==
             \/ firstConfirmed[n] = NotApplicable /\ \A c \in confirmedAt : c[1] # n
             \/ /\ <<n, firstConfirmed[n]>> \in confirmedAt
                /\ \A c \in confirmedAt : c[1] = n => firstConfirmed[n] <= c[2]
                /\ arm # "NONE" => \E k \in DOMAIN episodes :
                                     episodes[k] = <<n, firstConfirmed[n]>>
<1>4. \A n \in Node : Exact(n) BY DEF FirstInv
<1>5. ASSUME NEW n \in Node, firstConfirmed'[n] = firstConfirmed[n],
             ~ (n = next /\ Confirmed(v) /\ firstConfirmed[n] = NotApplicable)
      PROVE  Exact(n)'
  <2>1. CASE firstConfirmed[n] = NotApplicable /\ \A c \in confirmedAt : c[1] # n
    <3>1. \A c \in confirmedAt' : c[1] # n BY <1>1, <1>5, <2>1
    <3> QED BY <1>5, <2>1, <3>1
  <2>2. CASE /\ <<n, firstConfirmed[n]>> \in confirmedAt
             /\ \A c \in confirmedAt : c[1] = n => firstConfirmed[n] <= c[2]
             /\ arm # "NONE" => \E k \in DOMAIN episodes :
                                  episodes[k] = <<n, firstConfirmed[n]>>
    <3>1. confirmedAt \subseteq confirmedAt' BY <1>1
    <3>2. n = next => firstConfirmed[n] <= now - 1 BY <1>1, <1>3, <2>2
    <3>3. \A c \in confirmedAt' : c[1] = n => firstConfirmed[n] <= c[2]
      BY <1>1, <2>2, <3>2
    <3>4. arm # "NONE" => \E k \in DOMAIN episodes' :
                            episodes'[k] = <<n, firstConfirmed[n]>>
      BY <2>2, Zenon
    <3> QED BY <1>2, <1>5, <2>2, <3>1, <3>3, <3>4
  <2> QED BY <1>4, <2>1, <2>2
<1>6. CASE Confirmed(v) /\ firstConfirmed[next] = NotApplicable
  <2>1. firstConfirmed' = [firstConfirmed EXCEPT ![next] = now - 1]
    BY <1>6 DEF Account, FirstConfirmed
  <2>2. firstConfirmed'[next] = now - 1 BY <1>2, <2>1
  <2>3. \A n \in Node : n # next => firstConfirmed'[n] = firstConfirmed[n]
    BY <2>1
  <2>4. confirmedAt' = confirmedAt \cup {p} BY <1>1, <1>6
  <2>5. \A c \in confirmedAt : c[1] # next
    <3> SUFFICES ASSUME NEW c \in confirmedAt, c[1] = next PROVE FALSE OBVIOUS
    <3>1. <<next, firstConfirmed[next]>> \in confirmedAt BY <1>2 DEF FirstInv
    <3>2. firstConfirmed[next] \in Int BY <3>1 DEF TallyInv
    <3> QED BY <1>6, <3>2, NotApplicableAssumption
  <2>6. \A n \in Node : n # next => Exact(n)' BY <1>5, <2>3
  <2>7. ASSUME NEW n, n = next PROVE Exact(n)'
    <3>1. p \in confirmedAt' /\ p = <<n, firstConfirmed'[n]>> BY <2>2, <2>4, <2>7
    <3>2. \A c \in confirmedAt' : c[1] = n => firstConfirmed'[n] <= c[2]
      BY <1>1, <2>2, <2>4, <2>5, <2>7
    <3>3. arm' # "NONE" => \E k \in DOMAIN episodes' :
                             episodes'[k] = <<n, firstConfirmed'[n]>>
      BY <1>2, <1>6, <3>1, Zenon
    <3> QED BY <3>1, <3>2, <3>3
  <2>8. DOMAIN firstConfirmed' = Node BY <2>1
  <2>9. \A n \in Node : Exact(n)' BY <2>6, <2>7, Zenon
  <2> QED BY <2>8, <2>9 DEF FirstInv
<1>7. CASE ~ (Confirmed(v) /\ firstConfirmed[next] = NotApplicable)
  <2>1. firstConfirmed' = firstConfirmed BY <1>7 DEF Account, FirstConfirmed
  <2>2. \A n \in Node : Exact(n)' BY <1>5, <1>7, <2>1
  <2> QED BY <2>1, <2>2 DEF FirstInv
<1> QED BY <1>6, <1>7

(* One more attempt with its kind of cause.                                *)
OneMore(b, a, s) ==
  /\ b \in AttemptCounts /\ b.successes = s
  /\ b.supported + b.insufficient = a.supported + a.insufficient + 1

LEMMA AttemptCounted ==
  ASSUME NEW a \in AttemptCounts,
         NEW s \in Nat, NEW k \in {"supported", "insufficient"}, NEW b,
         b = [a EXCEPT !.successes = s, ![k] = a[k] + 1]
  PROVE  OneMore(b, a, s)
<1> DEFINE F == {"successes", "supported", "insufficient"}
           y == a[k] + 1
           c == [a EXCEPT !["successes"] = s]
<1>1. a \in [F -> Nat] BY DEF AttemptCounts
<1>2. y \in Nat BY <1>1
<1> HIDE DEF y
<1>3. c \in [F -> Nat] /\ \A j \in F : c[j] = IF j = "successes" THEN s ELSE a[j]
  BY <1>1
<1>4. b = [c EXCEPT ![k] = y] BY DEF y
<1> HIDE DEF c
<1>5. b \in [F -> Nat] /\ \A j \in F : b[j] = IF j = k THEN y ELSE c[j]
  BY <1>2, <1>3, <1>4
<1>6. b \in AttemptCounts BY <1>5 DEF AttemptCounts
<1>7. /\ b["successes"] = s
      /\ k = "supported" => b["supported"] = y /\ b["insufficient"] = a["insufficient"]
      /\ k = "insufficient" => b["insufficient"] = y /\ b["supported"] = a["supported"]
  BY <1>3, <1>5
<1>8. a["supported"] \in Nat /\ a["insufficient"] \in Nat BY <1>1
<1>9. b["supported"] + b["insufficient"] = a["supported"] + a["insufficient"] + 1
  BY <1>7, <1>8 DEF y
<1> QED BY <1>6, <1>7, <1>9 DEF OneMore

(* An attempt is one more confirmation, of a cause with or without         *)
(* evidence.                                                               *)
LEMMA AttemptKept ==
  ASSUME Typed, TallyInv, AttemptInv, NEW v, NEW cause, Answer(v, cause)
  PROVE  /\ AttemptInv'
         /\ \A k \in DOMAIN episodes :
              k \in DOMAIN episodes' /\ episodes'[k] = episodes[k]
         /\ \E k \in DOMAIN episodes' : episodes'[k] = <<next, now - 1>>
<1> DEFINE p == <<next, now - 1>>
           a == attempts
           w == One(window'[next] = <<>>)
           s == a.successes + w
           k == IF cause = "UNKNOWN" THEN "insufficient" ELSE "supported"
<1>1. /\ Consume /\ Account(v) /\ Confirmed(v) /\ arm # "NONE" /\ arm' = arm
      /\ episodes' = Append(episodes, p)
  BY DEF Answer, Recover, Attempts, Account
<1>2. /\ now - 1 \in Nat /\ p \notin confirmedAt
      /\ confirmedAt' = confirmedAt \cup {p}
  BY <1>1, TallyKept
<1>3. next \in Node /\ TypeOK /\ tally \in Counters
  BY <1>1 DEF Consume, Typed, TallyInv
<1>4. tally' \in Counters /\ tally'.tp + tally'.fp = tally.tp + tally.fp + 1
  BY <1>1, <1>3, TalliedOnce DEF Account
<1>5. episodes \in Seq(Node \X Nat) /\ p \in Node \X Nat
  BY <1>2, <1>3 DEF TypeOK
<1>6. /\ Len(episodes) \in Nat /\ Len(episodes') = Len(episodes) + 1
      /\ DOMAIN episodes = 1 .. Len(episodes)
      /\ DOMAIN episodes' = 1 .. Len(episodes) + 1
      /\ \A j \in 1 .. Len(episodes) : episodes'[j] = episodes[j]
      /\ episodes'[Len(episodes) + 1] = p
  BY <1>1, <1>5, AppendProperties, LenProperties
<1>7. \A j \in DOMAIN episodes : j \in DOMAIN episodes' /\ episodes'[j] = episodes[j]
  BY <1>6
<1>8. \A j \in DOMAIN episodes' : episodes'[j] \in confirmedAt'
  <2> TAKE j \in DOMAIN episodes'
  <2>1. CASE j = Len(episodes) + 1 BY <1>2, <1>6, <2>1
  <2>2. CASE j # Len(episodes) + 1
    <3>1. j \in DOMAIN episodes BY <1>6, <2>2
    <3> QED BY <1>2, <1>6, <3>1 DEF AttemptInv
  <2> QED BY <2>1, <2>2
<1>9. a \in AttemptCounts BY DEF AttemptInv
<1>10. w \in {0, 1} BY DEF One
<1>11. attempts' = [a EXCEPT !.successes = s, ![k] = a[k] + 1]
  <2>1. attempts' = [attempts EXCEPT
                       !.successes = @ + One(window'[next] = <<>>),
                       ![IF cause = "UNKNOWN" THEN "insufficient"
                                              ELSE "supported"] = @ + 1]
    BY Zenon DEF Answer
  <2> QED BY <2>1
<1>12. OneMore(attempts', a, s)
  <2>1. s \in Nat BY <1>9, <1>10 DEF AttemptCounts
  <2>2. k \in {"supported", "insufficient"} OBVIOUS
  <2>3. attempts' = [a EXCEPT !.successes = s, ![k] = a[k] + 1] BY <1>11
  <2> HIDE DEF s, k, a
  <2> QED BY <1>9, <2>1, <2>2, <2>3, AttemptCounted, Zenon
<1> HIDE DEF w, k
<1>13. /\ attempts'.successes <= Len(episodes')
       /\ attempts'.supported + attempts'.insufficient = Len(episodes')
       /\ Len(episodes') <= tally'.tp + tally'.fp
  <2>1. /\ a.successes <= Len(episodes) /\ Len(episodes) <= tally.tp + tally.fp
        /\ a.supported + a.insufficient = Len(episodes)
    BY DEF AttemptInv
  <2>2. a.successes \in Nat /\ s = a.successes + w BY <1>9 DEF AttemptCounts
  <2>3. tally.tp + tally.fp \in Nat BY DEF TallyInv, Counters
  <2> HIDE DEF a, s
  <2> QED BY <1>4, <1>6, <1>10, <1>12, <2>1, <2>2, <2>3 DEF OneMore
<1> HIDE DEF s
<1>14. AttemptInv' BY <1>1, <1>8, <1>12, <1>13 DEF AttemptInv, OneMore
<1> QED BY <1>6, <1>7, <1>14

(* A run starts with nothing consumed and nothing counted.                 *)
LEMMA ReportStarts ==
  ReportInit => TallyInv /\ AttemptInv /\ DOMAIN firstConfirmed = Node /\ FirstInv
<1> SUFFICES ASSUME ReportInit
             PROVE  TallyInv /\ AttemptInv /\ DOMAIN firstConfirmed = Node /\ FirstInv
  OBVIOUS
<1>1. /\ next = NumNodes + 1 /\ now = 0 /\ NumNodes \in Nat /\ episodes = <<>>
      /\ tally = [tp |-> 0, fp |-> 0, fn |-> 0, tn |-> 0, slow |-> 0]
      /\ confirmedAt = {}
      /\ attempts = [successes |-> 0, supported |-> 0, insufficient |-> 0]
      /\ firstConfirmed = [n \in Node |-> NotApplicable]
  BY LoopAssumption, Zenon DEF ReportInit, Init
<1>2. tally \in Counters /\ tally.tp = 0 /\ tally.fp = 0 /\ Records = 0
  BY <1>1 DEF Counters, Records
<1>3. Cardinality(confirmedAt) = 0 /\ IsFiniteSet(confirmedAt)
  BY <1>1, FS_EmptySet
<1>4. NumNodes * now = 0 BY <1>1
<1>5. TallyInv
  <2>1. Records + NumNodes = NumNodes * now + (next - 1) BY <1>1, <1>2, <1>4
  <2>2. /\ confirmedAt \subseteq Node \X Nat
        /\ \A c \in confirmedAt : Consumed(c[1], c[2])
    BY <1>1
  <2> QED BY <1>2, <1>3, <2>1, <2>2 DEF TallyInv
<1>6. AttemptInv
  <2>1. /\ attempts \in AttemptCounts /\ attempts.successes = 0
        /\ attempts.supported + attempts.insufficient = 0
    BY <1>1 DEF AttemptCounts
  <2>2. Len(episodes) = 0 /\ DOMAIN episodes = {} BY <1>1
  <2> QED BY <1>1, <1>2, <2>1, <2>2 DEF AttemptInv
<1> QED BY <1>1, <1>5, <1>6 DEF FirstInv

(* A step of the simulator consumes nothing.                               *)
LEMMA TickKeeps ==
  ASSUME TallyInv, AttemptInv, DOMAIN firstConfirmed = Node, FirstInv, Tick,
         now \in Nat
  PROVE  TallyInv' /\ AttemptInv' /\ DOMAIN firstConfirmed' = Node /\ FirstInv'
<1>1. /\ next = NumNodes + 1 /\ next' = 1 /\ now' = now + 1 /\ NumNodes \in Nat
      /\ tally' = tally /\ confirmedAt' = confirmedAt /\ episodes' = episodes
      /\ attempts' = attempts /\ arm' = arm /\ firstConfirmed' = firstConfirmed
  BY LoopAssumption DEF Tick, Step, loop, reporting
<1>2. TallyInv'
  <2>1. Records' = Records /\ Records \in Nat
    BY <1>1 DEF Records, TallyInv, Counters
  <2>2. NumNodes * (now + 1) = NumNodes * now + NumNodes /\ NumNodes * now \in Nat
    BY <1>1
  <2>3. Records + NumNodes = NumNodes * now + (next - 1) BY DEF TallyInv
  <2>4. Records' + NumNodes = NumNodes * now' + (next' - 1)
    BY <1>1, <2>1, <2>2, <2>3
  <2>5. \A c \in confirmedAt : Consumed(c[1], c[2])'
    <3> SUFFICES ASSUME NEW c \in confirmedAt PROVE Consumed(c[1], c[2])' OBVIOUS
    <3>1. c[1] \in Node /\ c[2] \in Nat /\ Consumed(c[1], c[2]) BY DEF TallyInv
    <3>2. c[2] < now BY <3>1 DEF Consumed
    <3> QED BY <1>1, <3>1, <3>2 DEF Consumed
  <2> QED BY <1>1, <2>4, <2>5 DEF TallyInv
<1>3. AttemptInv' BY <1>1 DEF AttemptInv
<1>4. FirstInv' BY <1>1 DEF FirstInv
<1> QED BY <1>1, <1>2, <1>3, <1>4

(* Nor does a record that is not answered make an attempt.                 *)
LEMMA NoAttemptKept ==
  ASSUME Typed, TallyInv, AttemptInv, NEW v, Consume, Account(v),
         UNCHANGED <<episodes, attempts>>
  PROVE  AttemptInv'
<1>1. Confirmed(v) => confirmedAt' = confirmedAt \cup {<<next, now - 1>>} BY TallyKept
<1>2. ~ Confirmed(v) => confirmedAt' = confirmedAt BY TallyKept
<1>3. confirmedAt \subseteq confirmedAt' BY <1>1, <1>2
<1>4. next \in Node /\ TypeOK /\ tally \in Counters /\ arm' = arm
  BY DEF Consume, Typed, TallyInv, Account
<1>5. /\ tally' \in Counters
      /\ Confirmed(v) => tally'.tp + tally'.fp = tally.tp + tally.fp + 1
      /\ ~ Confirmed(v) => tally'.tp + tally'.fp = tally.tp + tally.fp
  BY <1>4, TalliedOnce DEF Account
<1>6. tally.tp + tally.fp \in Nat BY <1>4 DEF Counters
<1>7. tally.tp + tally.fp <= tally'.tp + tally'.fp BY <1>5, <1>6
<1>8. Len(episodes) \in Nat
  <2>1. episodes \in Seq(Node \X Nat) BY <1>4 DEF TypeOK
  <2> QED BY <2>1, LenProperties
<1>9. tally'.tp + tally'.fp \in Nat BY <1>5 DEF Counters
<1>10. Len(episodes') <= tally'.tp + tally'.fp
  <2>1. Len(episodes) <= tally.tp + tally.fp BY DEF AttemptInv
  <2> QED BY <1>6, <1>7, <1>8, <1>9, <2>1
<1> QED BY <1>3, <1>4, <1>10 DEF AttemptInv

(* A record consumed keeps the account, whatever is done about it.         *)
LEMMA RecordKeeps ==
  ASSUME Typed, RecoveredSince, TallyInv, AttemptInv,
         DOMAIN firstConfirmed = Node, FirstInv,
         NEW v, \/ Watch(v) \/ Pass(v)
                \/ \E cause \in Cause : Answer(v, cause)
  PROVE  TallyInv' /\ AttemptInv' /\ DOMAIN firstConfirmed' = Node /\ FirstInv'
<1>1. CASE Watch(v)
  <2>1. Consume /\ Account(v) /\ UNCHANGED <<episodes, attempts>> /\ arm = "NONE"
    BY <1>1 DEF Watch
  <2>2. TallyInv' BY <2>1, TallyKept
  <2>3. AttemptInv' BY <2>1, NoAttemptKept
  <2>4. \A k \in DOMAIN episodes : k \in DOMAIN episodes' /\ episodes'[k] = episodes[k]
    BY <2>1
  <2>5. DOMAIN firstConfirmed' = Node /\ FirstInv' BY <2>1, <2>4, FirstKept
  <2> QED BY <2>2, <2>3, <2>5
<1>2. CASE Pass(v)
  <2>1. /\ Consume /\ Account(v) /\ UNCHANGED <<episodes, attempts>>
        /\ ~ Attempts(v, now - 1) /\ next \in Node
    BY <1>2 DEF Pass, Observe, Consume
  <2>2. TallyInv' BY <2>1, TallyKept
  <2>3. AttemptInv' BY <2>1, NoAttemptKept
  <2>4. \A k \in DOMAIN episodes : k \in DOMAIN episodes' /\ episodes'[k] = episodes[k]
    BY <2>1
  <2>5. Confirmed(v) => firstConfirmed[next] # NotApplicable
    BY <2>1, FirstIsAttempted
  <2>6. DOMAIN firstConfirmed' = Node /\ FirstInv' BY <2>1, <2>4, <2>5, FirstKept
  <2> QED BY <2>2, <2>3, <2>6
<1>3. ASSUME NEW cause \in Cause, Answer(v, cause)
      PROVE  TallyInv' /\ AttemptInv' /\ DOMAIN firstConfirmed' = Node /\ FirstInv'
  <2>1. Consume /\ Account(v) BY <1>3, Zenon DEF Answer, Recover
  <2>2. TallyInv' BY <2>1, TallyKept
  <2>3. /\ AttemptInv'
        /\ \A k \in DOMAIN episodes :
             k \in DOMAIN episodes' /\ episodes'[k] = episodes[k]
        /\ \E k \in DOMAIN episodes' : episodes'[k] = <<next, now - 1>>
    BY <1>3, AttemptKept
  <2>4. DOMAIN firstConfirmed' = Node /\ FirstInv' BY <2>1, <2>3, FirstKept
  <2> QED BY <2>2, <2>3, <2>4
<1> QED BY <1>1, <1>2, <1>3

(* The mean delay, apart from the faults it is a mean over.                *)
MeasuredDelays(S) == MapThenSumSet(Delay, S)
MeanDelay(sum, S) == IF S = {} THEN 3000 ELSE (1000 * sum) \div Cardinality(S)

(* It depends on the schedule and the first confirmations only.            *)
LEMMA DelayUnchanged ==
  ASSUME UNCHANGED <<scheduled, firstConfirmed>> PROVE AverageDelay' = AverageDelay
<1> DEFINE D(f, s, S) ==
             (CHOOSE g : g = [T \in SUBSET S |->
                IF T = {} THEN 0
                ELSE f[s[CHOOSE x \in T : TRUE].node] - s[CHOOSE x \in T : TRUE].start
                       + g[T \ {CHOOSE x \in T : TRUE}]])[S]
           sum == MeasuredDelays(Measured)
<1>1. scheduled' = scheduled /\ firstConfirmed' = firstConfirmed OBVIOUS
<1>2. Measured' = Measured BY <1>1 DEF Measured, Index
<1>3. sum = D(firstConfirmed, scheduled, Measured)
  BY Zenon DEF MeasuredDelays, Delay, MapThenSumSet, MapThenFoldSet
<1>4. sum' = D(firstConfirmed', scheduled', Measured')
  BY Zenon DEF MeasuredDelays, Delay, MapThenSumSet, MapThenFoldSet
<1>5. AverageDelay = MeanDelay(sum, Measured)
  BY Zenon DEF AverageDelay, MeanDelay, MeasuredDelays
<1>6. AverageDelay' = MeanDelay(sum', Measured')
  BY Zenon DEF AverageDelay, MeanDelay, MeasuredDelays
<1> HIDE DEF D
<1>7. sum' = sum BY <1>1, <1>2, <1>3, <1>4, Zenon
<1> HIDE DEF sum
<1> QED BY <1>2, <1>5, <1>6, <1>7, Zenon

(* What is returned depends on what was counted only.                      *)
LEMMA ResultUnchanged ==
  ASSUME UNCHANGED <<scheduled, firstConfirmed, tally, attempts, episodes, arm>>
  PROVE  Result' = Result
<1>1. AverageDelay' = AverageDelay BY DelayUnchanged
<1>2. Records' = Records BY DEF Records
<1>3. SuccessRate' = SuccessRate BY DEF SuccessRate
<1> QED BY <1>1, <1>2, <1>3, Zenon DEF Result

LEMMA RInvInit == ReportInit => RInv
BY ReportStarts DEF RInv, ReportInit

LEMMA RInvKept == Typed /\ RecoveredSince /\ RInv /\ [ReportNext]_reportVars => RInv'
<1> SUFFICES ASSUME Typed, RecoveredSince, RInv, [ReportNext]_reportVars PROVE RInv'
  OBVIOUS
<1> DEFINE Kept == TallyInv /\ AttemptInv /\ DOMAIN firstConfirmed = Node /\ FirstInv
<1>1. Kept /\ (report # <<>> => Ended /\ report = Result) BY DEF RInv
<1>2. ~ Ended /\ report' = report /\ Kept' => RInv'
  BY <1>1 DEF RInv
<1>3. now \in Nat /\ NumNodes \in Nat BY LoopAssumption DEF Typed, TypeOK
<1>4. ASSUME NEW v, Watch(v) \/ Pass(v) \/ \E cause \in Cause : Answer(v, cause)
      PROVE  RInv'
  <2>1. Kept' BY <1>1, <1>4, RecordKeeps
  <2>2. next \in Node /\ report' = report
    BY <1>4, Zenon DEF Watch, Pass, Answer, Observe, Recover, Consume, Account
  <2>3. ~ Ended BY <1>3, <2>2 DEF Ended, Node
  <2> QED BY <1>2, <2>1, <2>2, <2>3
<1>5. CASE Tick
  <2>1. Kept' BY <1>1, <1>3, <1>5, TickKeeps
  <2>2. ~ Ended /\ report' = report
    BY <1>3, <1>5, LoopAssumption DEF Tick, Step, Ended, reporting
  <2> QED BY <1>2, <2>1, <2>2
<1>6. CASE Finish \/ UNCHANGED reportVars
  <2>1. UNCHANGED <<vars, arm, tally, firstConfirmed, attempts, confirmedAt>>
    BY <1>6 DEF Finish, reportVars, reporting
  <2>2. /\ next' = next /\ now' = now /\ episodes' = episodes
        /\ scheduled' = scheduled
        /\ UNCHANGED <<arm, tally, firstConfirmed, attempts, confirmedAt>>
    BY <2>1 DEF vars, generator, stream, loop
  <2>3. Kept'
    BY <1>1, <2>2
       DEF TallyInv, AttemptInv, FirstInv, Records, Consumed
  <2>4. Result' = Result /\ Ended' = Ended BY <2>2, ResultUnchanged DEF Ended
  <2>5. report' # <<>> => Ended /\ report' = Result
    BY <1>1, <1>6 DEF Finish, Ended, reportVars, reporting
  <2> QED BY <2>3, <2>4, <2>5 DEF RInv
<1> QED BY <1>4, <1>5, <1>6 DEF ReportNext

(* first_confirmation_times holds the least of the confirmation times.     *)
LEMMA FirstIsLeast ==
  ASSUME TallyInv, FirstInv, NEW n \in Node, NEW T \in SUBSET Nat, T # {},
         \A t \in T : <<n, t>> \in confirmedAt,
         <<n, firstConfirmed[n]>> \in confirmedAt => firstConfirmed[n] \in T
  PROVE  /\ firstConfirmed[n] = Min(T) /\ firstConfirmed[n] # NotApplicable
         /\ <<n, firstConfirmed[n]>> \in confirmedAt
         /\ arm # "NONE" => \E k \in DOMAIN episodes : episodes[k] = <<n, Min(T)>>
<1> DEFINE f == firstConfirmed[n]
<1>1. PICK t \in T : TRUE OBVIOUS
<1>2. <<n, t>> \in confirmedAt /\ <<n, t>>[1] = n BY <1>1
<1>3. /\ <<n, f>> \in confirmedAt
      /\ \A c \in confirmedAt : c[1] = n => f <= c[2]
      /\ arm # "NONE" => \E k \in DOMAIN episodes : episodes[k] = <<n, f>>
  BY <1>2 DEF FirstInv
<1>4. f \in Nat BY <1>3 DEF TallyInv
<1>5. Min(T) \in T /\ \A y \in T : Min(T) <= y BY MinOfNaturals
<1>6. f \in T BY <1>3
<1>7. \A y \in T : f <= y
  <2> TAKE y \in T
  <2>1. <<n, y>> \in confirmedAt /\ <<n, y>>[1] = n /\ <<n, y>>[2] = y OBVIOUS
  <2> QED BY <1>3, <2>1
<1>8. f = Min(T)
  <2>1. f <= Min(T) /\ Min(T) <= f BY <1>5, <1>6, <1>7
  <2>2. Min(T) \in Nat BY <1>5
  <2> QED BY <1>4, <2>1, <2>2
<1>9. f # NotApplicable BY <1>4, NotApplicableAssumption
<1> QED BY <1>3, <1>8, <1>9

(* The faults whose delay is measured are the ones first confirmed when    *)
(* they had started, and their delays are the true ones.                   *)
LEMMA MeasuredAreTimely ==
  ASSUME Typed, TallyInv, FirstInv
  PROVE  /\ Measured = {i \in Index : Before(i) = {} /\ Since(i) # {}}
         /\ \A i \in Measured : Delay(i) = Min(Since(i)) - scheduled[i].start
<1>1. \A i \in Index : scheduled[i].node \in Node /\ scheduled[i].start \in Nat
  <2>1. scheduled \in Seq(Fault) BY LoopAssumption DEF Typed, TypeOK
  <2>2. \A i \in Index : scheduled[i] \in Fault BY <2>1 DEF Index
  <2>3. \A x \in Fault : x.node \in Node /\ x.start \in Nat BY DEF Fault
  <2> QED BY <2>2, <2>3
<1>2. now \in Nat /\ \A n, t : <<n, t>> \in confirmedAt => t \in 0 .. now
  <2>1. now \in Nat BY LoopAssumption DEF Typed, TypeOK
  <2>2. ASSUME NEW n, NEW t, <<n, t>> \in confirmedAt PROVE t \in 0 .. now
    <3>1. n \in Node /\ t \in Nat /\ Consumed(n, t) BY <2>2 DEF TallyInv
    <3> QED BY <2>1, <3>1 DEF Consumed
  <2> QED BY <2>1, <2>2
<1>3. ASSUME NEW i \in Index
      PROVE  /\ i \in Measured <=> (Before(i) = {} /\ Since(i) # {})
             /\ i \in Measured => Delay(i) = Min(Since(i)) - scheduled[i].start
  <2> DEFINE n == scheduled[i].node
             s == scheduled[i].start
             f == firstConfirmed[n]
  <2>1. n \in Node /\ s \in Nat BY <1>1
  <2>2. Since(i) = {t \in s .. now : <<n, t>> \in confirmedAt} BY DEF Since
  <2>3. Before(i) = {t \in 0 .. s - 1 : <<n, t>> \in confirmedAt} BY DEF Before
  <2>4. i \in Measured <=> f # NotApplicable /\ f >= s BY DEF Measured
  <2>5. Delay(i) = f - s BY DEF Delay
  <2>6. Since(i) \in SUBSET Nat BY <1>2, <2>1, <2>2
  <2>7. CASE \E t : <<n, t>> \in confirmedAt
    <3> DEFINE T == {t \in 0 .. now : <<n, t>> \in confirmedAt}
    <3>1. T \in SUBSET Nat /\ T # {} BY <1>2, <2>7
    <3>2. \A t \in T : <<n, t>> \in confirmedAt OBVIOUS
    <3>3. <<n, f>> \in confirmedAt => f \in T BY <1>2
    <3> HIDE DEF T
    <3>4. f = Min(T) /\ f # NotApplicable /\ <<n, f>> \in confirmedAt
      BY <2>1, <3>1, <3>2, <3>3, FirstIsLeast
    <3>5. f \in T /\ \A y \in T : f <= y BY <3>1, <3>4, MinOfNaturals
    <3>6. \A t : <<n, t>> \in confirmedAt => t \in Nat /\ t <= now /\ f <= t
      BY <1>2, <3>5 DEF T
    <3>7. f \in Nat /\ f <= now BY <3>4, <3>6
    <3>8. CASE f >= s
      <4>1. f \in Since(i) BY <1>2, <2>1, <2>2, <3>4, <3>7, <3>8
      <4>2. Before(i) = {} BY <2>1, <2>3, <3>6, <3>7, <3>8
      <4>3. f = Min(Since(i))
        <5>1. Since(i) # {} BY <4>1
        <5>2. \A t \in Since(i) : <<n, t>> \in confirmedAt BY <2>2
        <5> QED BY <2>1, <2>6, <4>1, <5>1, <5>2, FirstIsLeast
      <4> QED BY <2>4, <2>5, <3>4, <3>8, <4>1, <4>2, <4>3
    <3>9. CASE ~ (f >= s)
      <4>1. f \in 0 .. s - 1 BY <2>1, <3>7, <3>9
      <4>2. f \in Before(i) BY <2>3, <3>4, <4>1
      <4> QED BY <2>4, <3>9, <4>2
    <3> QED BY <3>8, <3>9
  <2>8. CASE ~ \E t : <<n, t>> \in confirmedAt
    <3>1. Since(i) = {} BY <2>2, <2>8
    <3>2. <<n, f>> \notin confirmedAt BY <2>8
    <3>3. f = NotApplicable BY <2>1, <3>2 DEF FirstInv
    <3> QED BY <2>4, <3>1, <3>3
  <2> QED BY <2>7, <2>8
<1>4. Measured \subseteq Index BY DEF Measured
<1> QED BY <1>3, <1>4

(* Where the times are the faults' own, the delays measured are those of   *)
(* the detected faults.                                                    *)
LEMMA MeasuredAreOwn ==
  ASSUME Typed, TallyInv, FirstInv, TimesAreOwn
  PROVE  /\ Measured = Detected
         /\ \A i \in Detected : Delay(i) = Min(Own(i)) - scheduled[i].start
<1>1. /\ Measured = {i \in Index : Before(i) = {} /\ Since(i) # {}}
      /\ \A i \in Measured : Delay(i) = Min(Since(i)) - scheduled[i].start
  BY MeasuredAreTimely
<1>2. \A i : Own(i) \subseteq Since(i) BY DEF Own
<1>3. \A i \in Index : i \in Detected <=> Own(i) # {} BY DEF Detected
<1>4. \A i \in Index : i \in Measured <=> i \in Detected
  BY <1>1, <1>2, <1>3 DEF TimesAreOwn
<1>5. Measured = Detected BY <1>1, <1>4 DEF Detected
<1>6. now \in Nat /\ \A i \in Index : /\ scheduled[i].start \in Nat
                                      /\ scheduled[i].duration \in Nat
  <2>1. now \in Nat /\ scheduled \in Seq(Fault)
    BY LoopAssumption DEF Typed, TypeOK
  <2>2. \A i \in Index : scheduled[i] \in Fault BY <2>1 DEF Index
  <2>3. \A x \in Fault : x.start \in Nat /\ x.duration \in Nat BY DEF Fault
  <2> QED BY <2>1, <2>2, <2>3
<1>7. ASSUME NEW i \in Detected PROVE Min(Since(i)) = Min(Own(i))
  <2> DEFINE S == Since(i)
             O == Own(i)
             end == scheduled[i].start + scheduled[i].duration
  <2>1. i \in Index /\ O # {} BY DEF Detected
  <2>2. S \in SUBSET Nat BY <1>6, <2>1 DEF Since
  <2>3. O = {t \in S : t < end} /\ end \in Nat BY <1>6, <2>1 DEF Own
  <2> HIDE DEF S, O, end
  <2>4. S # {} /\ O \in SUBSET Nat BY <2>1, <2>2, <2>3
  <2>5. Min(S) \in S /\ \A y \in S : Min(S) <= y BY <2>2, <2>4, MinOfNaturals
  <2>6. Min(O) \in O /\ \A y \in O : Min(O) <= y BY <2>1, <2>4, MinOfNaturals
  <2>7. Min(S) \in Nat /\ Min(O) \in Nat /\ Min(O) \in S /\ Min(O) < end
    BY <2>2, <2>3, <2>5, <2>6
  <2>8. Min(S) \in O BY <2>3, <2>5, <2>7
  <2>9. Min(O) <= Min(S) /\ Min(S) <= Min(O) BY <2>5, <2>6, <2>7, <2>8
  <2> QED BY <2>7, <2>9 DEF S, O
<1> QED BY <1>1, <1>5, <1>7

(* Delays that agree fault by fault have the same sum.                     *)
TrueDelays(S) == MapThenSumSet(LAMBDA i : Min(Own(i)) - scheduled[i].start, S)

LEMMA TrueDelaySum ==
  ASSUME NEW S, \A i \in S : Delay(i) = Min(Own(i)) - scheduled[i].start
  PROVE  MeasuredDelays(S) = TrueDelays(S)
<1> DEFINE P(g) == g = [s \in SUBSET S |->
                          IF s = {} THEN 0
                          ELSE Delay(CHOOSE x \in s : TRUE)
                                 + g[s \ {CHOOSE x \in s : TRUE}]]
           Q(g) == g = [s \in SUBSET S |->
                          IF s = {} THEN 0
                          ELSE Min(Own(CHOOSE x \in s : TRUE))
                                 - scheduled[CHOOSE x \in s : TRUE].start
                                 + g[s \ {CHOOSE x \in s : TRUE}]]
<1>1. \A g : P(g) <=> Q(g)
  <2> TAKE g
  <2>1. ASSUME NEW s \in SUBSET S, s # {}
        PROVE  Delay(Pick(s)) = Min(Own(Pick(s))) - scheduled[Pick(s)].start
    BY <2>1, PickIn
  <2>2. [s \in SUBSET S |-> IF s = {} THEN 0
                            ELSE Delay(Pick(s)) + g[s \ {Pick(s)}]]
          = [s \in SUBSET S |-> IF s = {} THEN 0
                                ELSE Min(Own(Pick(s))) - scheduled[Pick(s)].start
                                       + g[s \ {Pick(s)}]]
    BY <2>1
  <2> QED BY <2>2, Zenon DEF Pick
<1>2. MeasuredDelays(S) = (CHOOSE g : P(g))[S]
  BY Zenon DEF MeasuredDelays, MapThenSumSet, MapThenFoldSet
<1>3. TrueDelays(S) = (CHOOSE g : Q(g))[S]
  BY Zenon DEF TrueDelays, MapThenSumSet, MapThenFoldSet
<1> HIDE DEF P, Q
<1>4. (CHOOSE g : P(g)) = (CHOOSE g : Q(g)) BY <1>1, Zenon
<1> QED BY <1>2, <1>3, <1>4

(* A ratio is a number, whatever it is a ratio of.                         *)
LEMMA RatioIsNumber ==
  ASSUME NEW x \in Nat, NEW y \in Nat PROVE Ratio(x, y) \in Int
<1> DEFINE p == 10000 * x
<1>1. p \in Int OBVIOUS
<1> HIDE DEF p
<1>2. y > 0 => p \div y \in Int BY <1>1
<1>3. Ratio(x, y) = IF y <= 0 THEN 0 ELSE p \div y BY DEF Ratio, p
<1> QED BY <1>2, <1>3

LEMMA AccountFaithful == Typed /\ RInv => ReportFaithful
<1> DEFINE Times(n) == {p[2] : p \in {c \in confirmedAt : c[1] = n}}
           Faithful ==
             /\ report.records = NumNodes * MaxSteps
             /\ report.confirmed = Cardinality(confirmedAt)
             /\ report.successes <= report.attempts
             /\ report.attempts <= report.confirmed
             /\ report.attempts = report.supported + report.insufficient
             /\ report.rate = NotApplicable <=> arm = "NONE"
             /\ arm # "NONE" =>
                  \A n \in Node : Times(n) # {} =>
                    \E k \in DOMAIN episodes : episodes[k] = <<n, Min(Times(n))>>
             /\ Detected # {} /\ TimesAreOwn => report.delay = OwnDelay
<1>0. ReportFaithful <=> (report # <<>> => Faithful)
  BY Zenon DEF ReportFaithful
<1> HIDE DEF Faithful
<1> SUFFICES ASSUME Typed, RInv, report # <<>> PROVE Faithful
  BY <1>0, Zenon
<1>1. /\ TallyInv /\ AttemptInv /\ FirstInv
      /\ next = NumNodes + 1 /\ now = MaxSteps /\ report = Result
  BY DEF RInv, Ended
<1>2. /\ NumNodes \in Nat /\ MaxSteps \in Nat /\ Len(episodes) \in Nat
      /\ tally.tp + tally.fp \in Nat /\ Records \in Nat
      /\ attempts.successes \in Nat
  <2>1. episodes \in Seq(Node \X Nat) BY DEF Typed, TypeOK
  <2>2. Len(episodes) \in Nat BY <2>1, LenProperties
  <2>3. NumNodes \in Nat /\ MaxSteps \in Nat BY LoopAssumption
  <2>4. tally.tp + tally.fp \in Nat /\ Records \in Nat
    BY <1>1, <2>3 DEF TallyInv, Counters, Records
  <2>5. attempts.successes \in Nat BY <1>1 DEF AttemptInv, AttemptCounts
  <2> QED BY <2>2, <2>3, <2>4, <2>5
<1>3. /\ report.records = Records /\ report.confirmed = tally.tp + tally.fp
      /\ report.attempts = IF arm = "NONE" THEN 0 ELSE Len(episodes)
      /\ report.successes = attempts.successes
      /\ report.supported = attempts.supported
      /\ report.insufficient = attempts.insufficient
      /\ report.rate = SuccessRate /\ report.delay = AverageDelay
  BY <1>1 DEF Result
<1>4. report.records = NumNodes * MaxSteps
  <2> DEFINE k == NumNodes * MaxSteps
  <2>1. k \in Nat BY <1>2
  <2>2. Records + NumNodes = NumNodes * now + (next - 1) BY <1>1 DEF TallyInv
  <2>3. NumNodes * now = k BY <1>1
  <2> HIDE DEF k
  <2>4. Records = k BY <1>1, <1>2, <2>1, <2>2, <2>3
  <2> QED BY <1>3, <2>4 DEF k
<1>5. report.confirmed = Cardinality(confirmedAt) BY <1>1, <1>3 DEF TallyInv
<1>6. report.attempts = Len(episodes)
  BY <1>1, <1>3 DEF AttemptInv
<1>7. /\ report.successes <= report.attempts /\ report.attempts <= report.confirmed
      /\ report.attempts = report.supported + report.insufficient
  BY <1>1, <1>3, <1>6 DEF AttemptInv
<1>8. report.rate = NotApplicable <=> arm = "NONE"
  <2>1. Ratio(attempts.successes, Len(episodes)) \in Int BY <1>2, RatioIsNumber
  <2> QED BY <1>3, <2>1, NotApplicableAssumption DEF SuccessRate
<1>9. ASSUME arm # "NONE", NEW n \in Node, Times(n) # {}
      PROVE  \E k \in DOMAIN episodes : episodes[k] = <<n, Min(Times(n))>>
  <2>1. confirmedAt \subseteq Node \X Nat BY <1>1 DEF TallyInv
  <2>2. \A c \in confirmedAt : c = <<c[1], c[2]>> /\ c[2] \in Nat BY <2>1
  <2>3. Times(n) \in SUBSET Nat BY <2>2
  <2>4. \A t \in Times(n) : <<n, t>> \in confirmedAt BY <2>2
  <2>5. <<n, firstConfirmed[n]>> \in confirmedAt => firstConfirmed[n] \in Times(n)
    <3> SUFFICES ASSUME <<n, firstConfirmed[n]>> \in confirmedAt
                 PROVE  firstConfirmed[n] \in Times(n)
      OBVIOUS
    <3>1. /\ <<n, firstConfirmed[n]>>[1] = n
          /\ <<n, firstConfirmed[n]>>[2] = firstConfirmed[n]
      OBVIOUS
    <3> QED BY <3>1
  <2> HIDE DEF Times
  <2> QED BY <1>1, <1>9, <2>3, <2>4, <2>5, FirstIsLeast
<1>10. ASSUME Detected # {}, TimesAreOwn PROVE report.delay = OwnDelay
  <2>1. /\ Measured = Detected
        /\ \A i \in Detected : Delay(i) = Min(Own(i)) - scheduled[i].start
    BY <1>1, <1>10, MeasuredAreOwn
  <2>2. MeasuredDelays(Detected) = TrueDelays(Detected) BY <2>1, TrueDelaySum
  <2>3. AverageDelay = MeanDelay(MeasuredDelays(Measured), Measured)
    BY Zenon DEF AverageDelay, MeanDelay, MeasuredDelays
  <2>4. report.delay = MeanDelay(TrueDelays(Detected), Detected)
    BY <1>3, <2>1, <2>2, <2>3, Zenon
  <2> DEFINE m == TrueDelays(Detected)
  <2>5. MeanDelay(m, Detected) = (1000 * m) \div Cardinality(Detected)
    <3> HIDE DEF m
    <3> QED BY <1>10 DEF MeanDelay
  <2>6. OwnDelay = (1000 * m) \div Cardinality(Detected)
    BY Zenon DEF OwnDelay, TrueDelays
  <2> QED BY <2>4, <2>5, <2>6, Zenon
<1> HIDE DEF Times
<1> QED BY <1>4, <1>5, <1>7, <1>8, <1>9, <1>10, Zenon DEF Faithful

(* For every schedule, verdict and arm the returned statistics are those of *)
(* the run: what run_experiment_pipeline counts on the way can be read off  *)
(* the confirmations and episodes themselves.                              *)
THEOREM ReportAlwaysFaithful == ReportSpec => []ReportFaithful
<1>1. ReportSpec => [](Typed /\ RecoveredSince)
  <2>1. LInv => Typed /\ RecoveredSince BY DEF LInv
  <2> QED BY FullInvariant, <2>1, PTL
<1> QED BY RInvInit, RInvKept, AccountFaithful, <1>1, PTL DEF ReportSpec

===============================================================================
