---------------------------- MODULE CraftEdge_proofs ----------------------------
(***************************************************************************)
(* Proofs about the CRAFT-Edge pipeline, alone and under the experiment of *)
(* main.py: what its counters, its table, its epsilon and its report have  *)
(* to do with each other, for every value of the constants and any number  *)
(* of calls.                                                               *)
(***************************************************************************)
EXTENDS CraftReport, ProofLemmas

-------------------------------------------------------------------------------
(* The pairs of the table are finitely many, so that sums over it exist.   *)
LEMMA PairsFinite ==
  /\ IsFiniteSet(Cause \X Action)
  /\ IsFiniteSet({p \in Cause \X Action : p[2] # "NO_ACTION"})
<1>1. \A S, x : IsFiniteSet(S) => IsFiniteSet(S \cup {x})
  BY FS_AddElement, Zenon
<1>2. IsFiniteSet(Category)
  <2>1. IsFiniteSet({"CPU_OVERLOAD"}) BY FS_Singleton
  <2> DEFINE C2 == {"CPU_OVERLOAD"} \cup {"MEMORY_OVERLOAD"}
             C3 == C2 \cup {"NETWORK_CONGESTION"}
             C4 == C3 \cup {"HIGH_LATENCY"}
             C5 == C4 \cup {"TRANSPORT_FLOOD"}
             C6 == C5 \cup {"APPLICATION_EXPLOIT"}
             C7 == C6 \cup {"NODE_FAILURE"}
             C8 == C7 \cup {"GENERIC_RESOURCE_FAULT"}
  <2>2. IsFiniteSet(C2) BY <1>1, <2>1, Zenon
  <2>3. IsFiniteSet(C3) BY <1>1, <2>2, Zenon
  <2>4. IsFiniteSet(C4) BY <1>1, <2>3, Zenon
  <2>5. IsFiniteSet(C5) BY <1>1, <2>4, Zenon
  <2>6. IsFiniteSet(C6) BY <1>1, <2>5, Zenon
  <2>7. IsFiniteSet(C7) BY <1>1, <2>6, Zenon
  <2>8. IsFiniteSet(C8) BY <1>1, <2>7, Zenon
  <2>9. Category = C8 BY DEF Category
  <2> HIDE DEF C8
  <2> QED BY <2>8, <2>9
<1>3. IsFiniteSet(Cause)
  <2>1. Cause \subseteq Category BY CraftEdgeAssumption
  <2> QED BY <1>2, <2>1, FS_Subset
<1>4. IsFiniteSet(Action)
  <2>1. IsFiniteSet({"WORKLOAD_REDISTRIBUTION"}) BY FS_Singleton
  <2> DEFINE C2 == {"WORKLOAD_REDISTRIBUTION"} \cup {"TRAFFIC_REROUTING"}
             C3 == C2 \cup {"TASK_MIGRATION"}
             C4 == C3 \cup {"EDGE_NODE_FAILOVER"}
             C5 == C4 \cup {"RESOURCE_REBALANCING"}
             C6 == C5 \cup {"NO_ACTION"}
  <2>2. IsFiniteSet(C2) BY <1>1, <2>1, Zenon
  <2>3. IsFiniteSet(C3) BY <1>1, <2>2, Zenon
  <2>4. IsFiniteSet(C4) BY <1>1, <2>3, Zenon
  <2>5. IsFiniteSet(C5) BY <1>1, <2>4, Zenon
  <2>6. IsFiniteSet(C6) BY <1>1, <2>5, Zenon
  <2>7. Action = C6 BY DEF Action, H!RecoveryAction
  <2> HIDE DEF C6
  <2> QED BY <2>6, <2>7
<1>5. IsFiniteSet(Cause \X Action) BY <1>3, <1>4, FS_Product
<1>6. {p \in Cause \X Action : p[2] # "NO_ACTION"} \subseteq Cause \X Action
  OBVIOUS
<1> QED BY <1>5, <1>6, FS_Subset

(* A value kept between two others.                                        *)
LEMMA BetweenType ==
  \A l, g, x \in Int :
    /\ Between(l, g, x) \in Int
    /\ l <= Between(l, g, x)
    /\ l <= g => Between(l, g, x) <= g
    /\ \A b \in Int : x <= b /\ l <= b => Between(l, g, x) <= b
<1> TAKE l, g, x \in Int
<1>1. /\ Min({g, x}) \in {g, x} /\ Min({g, x}) <= g /\ Min({g, x}) <= x
  BY MinOfTwo
<1> DEFINE m == Min({g, x})
<1>2. m \in Int BY <1>1
<1> HIDE DEF m
<1>3. Max({l, m}) \in {l, m} /\ Max({l, m}) >= l /\ Max({l, m}) >= m
  BY <1>2, MaxOfTwo
<1> QED BY <1>1, <1>2, <1>3 DEF Between, m

(* Clamping lands in the range of a score and lowers what is above one.    *)
LEMMA ClampType ==
  \A x \in Int : /\ Clamp(x) \in Score
                 /\ \A b \in Score : x <= b => Clamp(x) <= b
<1> TAKE x \in Int
<1> DEFINE lo == -1000
           hi == 1000
<1>1. lo \in Int /\ hi \in Int /\ lo <= hi OBVIOUS
<1>2. Clamp(x) = Between(lo, hi, x) BY DEF Clamp
<1> HIDE DEF lo, hi
<1>3. /\ Clamp(x) \in Int /\ lo <= Clamp(x) /\ Clamp(x) <= hi
      /\ \A b \in Int : x <= b /\ lo <= b => Clamp(x) <= b
  BY <1>1, <1>2, BetweenType
<1>4. Clamp(x) \in lo .. hi /\ \A b \in lo .. hi : x <= b => Clamp(x) <= b
  BY <1>1, <1>3
<1> QED BY <1>4 DEF lo, hi, Score

(* The quotient of integers by a positive number.                          *)
LEMMA Quotient ==
  \A x \in Int, y \in Nat : y > 0 => x \div y \in Int
OBVIOUS

(* The types of the constants and of the tables of policy.py, as facts.    *)
LEMMA ConstantTypes ==
  /\ Alpha \in 0 .. 10 /\ Alpha \in Nat /\ BenefitWeight \in Nat /\ CostWeight \in Nat
  /\ BaseLatency \in Nat
  /\ \A d \in Demand : d \in [H!Resource -> Nat]
  /\ \A s \in Setting : s \in PolicySetting
  /\ \A c \in Cause, a \in Action : Prior(c, a) \in 0 .. 1000
  /\ \A a \in Action : Cost[a] \in Nat
<1>1. \A c \in Cause, a \in Action : Prior(c, a) \in 0 .. 1000 BY DEF Prior
<1>2. \A a \in Action : Cost[a] \in Nat BY DEF Cost, Action, H!RecoveryAction
<1>3. \A d \in Demand : d \in [H!Resource -> Nat]
  BY CraftEdgeAssumption DEF Metrics
<1> QED BY <1>1, <1>2, <1>3, CraftEdgeAssumption

-------------------------------------------------------------------------------
(* The types of what the causal equations compute for a node of the        *)
(* attached simulator.                                                     *)
LEMMA HealthPercent ==
  ASSUME NEW x \in Nat
  PROVE  H!Percent(x) \in Nat
<1>1. Min({10000, x}) \in {10000, x} BY MinOfTwo
<1>2. H!Min({10000, x}) = Min({10000, x}) BY DEF H!Min, Min
<1> QED BY <1>1, <1>2 DEF H!Percent

(* Scaling by tenths stays within the natural numbers.                     *)
LEMMA HealthScaled ==
  ASSUME NEW x \in Nat, NEW y \in Nat
  PROVE  /\ (x * y) \div 10 \in Nat
         /\ x * y \in Nat
<1>1. x * y \in Nat OBVIOUS
<1> QED BY <1>1

(* The causal equations yield metrics: no term of them can be negative.    *)
LEMMA HealthMetrics ==
  ASSUME NEW h \in H!Health, NEW w \in Nat
  PROVE  H!OnlineMetrics(h, w) \in [H!Resource -> Nat]
<1>0. \A S : H!Max(S) = Max(S) BY DEF H!Max, Max
<1> DEFINE m    == h.mitigation
           load == (w * m["workload"]) \div 10
           cpu  == H!Percent(1500 + load \div 2 + (h.offset["cpu"] * m["cpu"]) \div 10)
           mem  == H!Percent(2000 + (2 * load) \div 5
                                + (h.offset["mem"] * m["mem"]) \div 10)
           net  == H!Percent(1500 + (9 * load) \div 20
                                + (h.offset["net"] * m["net"]) \div 10)
           loss == H!Percent(H!Max({0, ((net - 7500) * 8) \div 10})
                                + (h.offset["loss"] * m["net"]) \div 10)
           lat  == H!Max({100, BaseLatency + (cpu * cpu * 12) \div 100000 + 5 * loss
                               + (h.offset["lat"] * m["lat"]) \div 10})
<1>1. /\ m \in [H!Factor -> 1 .. 10] /\ h.offset \in [H!Resource -> Nat]
  BY DEF H!Health
<1>2. \A f \in H!Factor : m[f] \in Nat
  BY <1>1
<1>3. \A r \in H!Resource : h.offset[r] \in Nat
  BY <1>1
<1> HIDE DEF m
<1>4. load \in Nat
  BY <1>2, HealthScaled DEF H!Factor
<1>5. \A r \in H!Resource, f \in H!Factor : (h.offset[r] * m[f]) \div 10 \in Nat
  BY <1>2, <1>3, HealthScaled
<1> HIDE DEF load
<1>6. cpu \in Nat
  BY <1>4, <1>5, HealthPercent DEF H!Resource, H!Factor
<1>7. mem \in Nat
  BY <1>4, <1>5, HealthPercent DEF H!Resource, H!Factor
<1>8. net \in Nat
  BY <1>4, <1>5, HealthPercent DEF H!Resource, H!Factor
<1> HIDE DEF cpu, mem, net
<1>9. loss \in Nat
  <2>1. ((net - 7500) * 8) \div 10 \in Int BY <1>8
  <2>2. ASSUME NEW x \in Int PROVE H!Max({0, x}) \in Nat
    <3>1. Max({0, x}) \in {0, x} /\ Max({0, x}) >= 0 BY MaxOfTwo
    <3> QED BY <1>0, <3>1
  <2>3. H!Max({0, ((net - 7500) * 8) \div 10}) \in Nat BY <2>1, <2>2
  <2> QED BY <1>5, <2>3, HealthPercent DEF H!Resource, H!Factor
<1> HIDE DEF loss
<1>10. lat \in Nat
  <2>1. cpu * cpu \in Nat BY <1>6
  <2>2. (cpu * cpu * 12) \div 100000 \in Nat BY <2>1
  <2>3. (h.offset["lat"] * m["lat"]) \div 10 \in Nat BY <1>5 DEF H!Resource, H!Factor
  <2>4. BaseLatency + (cpu * cpu * 12) \div 100000 + 5 * loss
                               + (h.offset["lat"] * m["lat"]) \div 10 \in Nat
    BY <1>9, <2>2, <2>3, ConstantTypes
  <2>5. ASSUME NEW x \in Nat PROVE H!Max({100, x}) \in Nat
    <3>1. Max({100, x}) \in {100, x} BY MaxOfTwo
    <3> QED BY <1>0, <3>1
  <2> QED BY <2>4, <2>5
<1> HIDE DEF lat
<1>11. H!OnlineMetrics(h, w) = [cpu |-> cpu, mem |-> mem, net |-> net, lat |-> lat, loss |-> loss]
  BY DEF H!OnlineMetrics, m, load, cpu, mem, net, loss, lat
<1> QED BY <1>6, <1>7, <1>8, <1>9, <1>10, <1>11 DEF H!Resource

(* Re-evaluating the metrics of a node changes no mitigation.              *)
LEMMA HealthUpdated ==
  ASSUME NEW h \in H!Health, NEW w \in Nat
  PROVE  /\ H!UpdateMetrics(h, w) \in H!Health
         /\ H!UpdateMetrics(h, w).mitigation = h.mitigation
<1>1. CASE h.failed
  <2>1. H!Offline \in [H!Resource -> Nat] BY DEF H!Offline, H!Resource
  <2> QED BY <1>1, <2>1 DEF H!UpdateMetrics, H!Health
<1>2. CASE ~ h.failed
  <2>1. h.mitigation["workload"] \in Nat BY DEF H!Health, H!Factor
  <2>2. (w * h.mitigation["workload"]) \div 10 \in Nat BY <2>1, HealthScaled
  <2> QED BY <1>2, <2>2, HealthMetrics DEF H!UpdateMetrics, H!Health
<1> QED BY <1>1, <1>2

(* Factors stay between a tenth and one under every action.                *)
LEMMA HealthMitigated ==
  ASSUME NEW m \in [H!Factor -> 1 .. 10], NEW a
  PROVE  H!Mitigate(m, a) \in [H!Factor -> 1 .. 10]
BY DEF H!Mitigate, H!Factor

(* A recovery action keeps the type of a node.                             *)
LEMMA HealthRecovered ==
  ASSUME NEW h \in H!Health, NEW a
  PROVE  H!ApplyRecovery(h, a) \in H!Health
<1> DEFINE g == IF a = "EDGE_NODE_FAILOVER"
                  THEN H!ClearFaults(h)
                  ELSE [h EXCEPT !.mitigation = H!Mitigate(@, a)]
           w == (g.workload * 10) \div g.mitigation["workload"]
<1>1. g \in H!Health
  <2>1. h.mitigation \in [H!Factor -> 1 .. 10] BY DEF H!Health
  <2>2. H!Mitigate(h.mitigation, a) \in [H!Factor -> 1 .. 10] BY <2>1, HealthMitigated
  <2>3. H!NoFault \in [H!Resource -> Nat] /\ H!Unmitigated \in [H!Factor -> 1 .. 10]
    BY DEF H!NoFault, H!Unmitigated
  <2> QED BY <2>2, <2>3 DEF H!Health, H!ClearFaults
<1> HIDE DEF g
<1>2. w \in Nat
  <2>1. g.workload \in Nat /\ g.mitigation["workload"] \in 1 .. 10
    BY <1>1 DEF H!Health, H!Factor
  <2>2. \A x \in Nat, d \in 1 .. 10 : (x * 10) \div d \in Nat
    OBVIOUS
  <2> QED BY <2>1, <2>2
<1> HIDE DEF w
<1> QED BY <1>1, <1>2, HealthUpdated DEF H!ApplyRecovery, g, w

(* Nodes stay well typed, and so do the factors of the shadow state.       *)
LEMMA HealthTypes ==
  /\ H!InitialHealth \in H!Health
  /\ \A h \in H!Health : \A a : H!ApplyRecovery(h, a) \in H!Health
  /\ \A h \in H!Health : h.metric \in [H!Resource -> Nat]
  /\ H!Unmitigated \in [H!Factor -> 1 .. 10]
  /\ \A m \in [H!Factor -> 1 .. 10] : \A a : ShadowMitigate(m, a) \in [H!Factor -> 1 .. 10]
<1>1. H!InitialHealth \in H!Health
  BY ConstantTypes DEF H!InitialHealth, H!Health, H!NoFault, H!Unmitigated,
                       H!Resource, H!Factor
<1>2. \A h \in H!Health : \A a : H!ApplyRecovery(h, a) \in H!Health
  BY HealthRecovered
<1>3. \A h \in H!Health : h.metric \in [H!Resource -> Nat] BY DEF H!Health
<1>4. H!Unmitigated \in [H!Factor -> 1 .. 10] BY DEF H!Unmitigated
<1>5. \A m \in [H!Factor -> 1 .. 10] : \A a : H!Mitigate(m, a) \in [H!Factor -> 1 .. 10]
  BY HealthMitigated
<1>6. \A m \in [H!Factor -> 1 .. 10] : \A a : ShadowMitigate(m, a) \in [H!Factor -> 1 .. 10]
  BY <1>4, <1>5, Zenon DEF ShadowMitigate
<1> QED BY <1>1, <1>2, <1>3, <1>4, <1>6

-------------------------------------------------------------------------------
TypeInv ==
  /\ setting \in PolicySetting /\ epsilon \in Share
  /\ table \in [Cause \X Action ->
                  [q : Score, attempts : Nat, successes : Nat]]
  /\ shadow \in [Node -> [H!Factor -> 1 .. 10]]
  /\ attached \in BOOLEAN
  /\ simulator \in [DOMAIN simulator -> H!Health]

(* A scaled metric is an integer no smaller than its lower limit.          *)
LEMMA ScaledType ==
  \A v, t, l \in Int : Scaled(v, t, l) \in Int /\ l <= Scaled(v, t, l)
<1> TAKE v, t, l \in Int
<1> DEFINE k == (v * t) \div 10
<1>1. v * t \in Int OBVIOUS
<1>2. k \in Int BY <1>1
<1> HIDE DEF k
<1>3. Max({l, k}) \in {l, k} /\ Max({l, k}) >= l BY <1>2, MaxOfTwo
<1> QED BY <1>2, <1>3 DEF Scaled, k

(* What a record brings a node, and what an action makes of it, are never  *)
(* negative.                                                               *)
LEMMA IngestType ==
  ASSUME NEW d \in [H!Resource -> Nat], NEW m \in [H!Factor -> 1 .. 10]
  PROVE  Ingest(d, m) \in [H!Resource -> Nat]
<1>1. \A v \in Nat, t \in 1 .. 10 : (v * t) \div 10 \in Int
  <2> TAKE v \in Nat, t \in 1 .. 10
  <2>1. v * t \in Int OBVIOUS
  <2> QED BY <2>1
<1>2. /\ d.cpu \in Nat /\ d.mem \in Nat /\ d.net \in Nat /\ d.lat \in Nat
      /\ d.loss \in Nat
      /\ m["cpu"] \in 1 .. 10 /\ m["mem"] \in 1 .. 10 /\ m["net"] \in 1 .. 10
      /\ m["lat"] \in 1 .. 10
  BY DEF H!Resource, H!Factor
<1>3. \A x \in Int : /\ Between(500, 10000, x) \in Nat
                     /\ Between(1000, 10000, x) \in Nat
                     /\ Between(500, 50000, x) \in Nat
                     /\ Between(0, 10000, x) \in Nat
  <2> TAKE x \in Int
  <2>1. /\ 0 \in Int /\ 500 \in Int /\ 1000 \in Int /\ 10000 \in Int
        /\ 50000 \in Int
    OBVIOUS
  <2>2. /\ Between(500, 10000, x) \in Int /\ 500 <= Between(500, 10000, x)
        /\ Between(1000, 10000, x) \in Int /\ 1000 <= Between(1000, 10000, x)
        /\ Between(500, 50000, x) \in Int /\ 500 <= Between(500, 50000, x)
        /\ Between(0, 10000, x) \in Int /\ 0 <= Between(0, 10000, x)
    BY <2>1, BetweenType, SMT
  <2> QED BY <2>2
<1>4. /\ (d.cpu * m["cpu"]) \div 10 \in Int /\ (d.mem * m["mem"]) \div 10 \in Int
      /\ (d.net * m["net"]) \div 10 \in Int /\ (d.lat * m["lat"]) \div 10 \in Int
      /\ (d.loss * m["net"]) \div 10 \in Int
  BY <1>1, <1>2, Zenon
<1>5. \A a, b, c, e, f \in Nat :
        [cpu |-> a, mem |-> b, net |-> c, lat |-> e, loss |-> f]
          \in [H!Resource -> Nat]
  BY DEF H!Resource
<1>6. /\ Between(500, 10000, (d.cpu * m["cpu"]) \div 10) \in Nat
      /\ Between(1000, 10000, (d.mem * m["mem"]) \div 10) \in Nat
      /\ Between(500, 10000, (d.net * m["net"]) \div 10) \in Nat
      /\ Between(500, 50000, (d.lat * m["lat"]) \div 10) \in Nat
      /\ Between(0, 10000, (d.loss * m["net"]) \div 10) \in Nat
  BY <1>3, <1>4, SMT
<1> QED BY <1>6, SMT DEF Ingest, H!Resource

(* Mitigated metrics stay natural numbers.                                 *)
LEMMA RelieveType ==
  ASSUME NEW x \in [H!Resource -> Nat], NEW a \in Action
  PROVE  Relieve(x, a) \in [H!Resource -> Nat]
<1>1. \A v \in Int :
        /\ Scaled(v, 4, 500) \in Nat /\ Scaled(v, 6, 500) \in Nat
        /\ Scaled(v, 3, 500) \in Nat /\ Scaled(v, 5, 500) \in Nat
        /\ Scaled(v, 2, 10) \in Nat
        /\ Scaled(v, 3, 1000) \in Nat /\ Scaled(v, 6, 1000) \in Nat
  <2> TAKE v \in Int
  <2>1. /\ 2 \in Int /\ 3 \in Int /\ 4 \in Int /\ 5 \in Int /\ 6 \in Int
        /\ 10 \in Int /\ 500 \in Int /\ 1000 \in Int
    OBVIOUS
  <2>2. /\ Scaled(v, 4, 500) \in Int /\ 500 <= Scaled(v, 4, 500)
        /\ Scaled(v, 6, 500) \in Int /\ 500 <= Scaled(v, 6, 500)
        /\ Scaled(v, 3, 500) \in Int /\ 500 <= Scaled(v, 3, 500)
        /\ Scaled(v, 5, 500) \in Int /\ 500 <= Scaled(v, 5, 500)
        /\ Scaled(v, 2, 10) \in Int /\ 10 <= Scaled(v, 2, 10)
        /\ Scaled(v, 3, 1000) \in Int /\ 1000 <= Scaled(v, 3, 1000)
        /\ Scaled(v, 6, 1000) \in Int /\ 1000 <= Scaled(v, 6, 1000)
    BY <2>1, ScaledType, SMT
  <2> QED BY <2>2
<1>2. /\ x["cpu"] \in Int /\ x["mem"] \in Int /\ x["net"] \in Int
      /\ x["lat"] \in Int /\ x["loss"] \in Int
  BY DEF H!Resource
<1> QED BY <1>1, <1>2 DEF Relieve, Action, H!RecoveryAction, H!Resource

(* The metrics an outcome is measured from are never negative.             *)
LEMMA MeasuredTypes ==
  ASSUME TypeInv, NEW n \in Node, NEW d \in Demand, NEW a \in Action
  PROVE  /\ Before(n, d) \in [H!Resource -> Nat]
         /\ After(n, d, a) \in [H!Resource -> Nat]
<1>1. Ingest(d, shadow[n]) \in [H!Resource -> Nat]
  <2>1. shadow[n] \in [H!Factor -> 1 .. 10] BY DEF TypeInv
  <2> QED BY <2>1, ConstantTypes, IngestType
<1>2. ASSUME n \in DOMAIN simulator
      PROVE  /\ simulator[n].metric \in [H!Resource -> Nat]
             /\ H!ApplyRecovery(simulator[n], a).metric \in [H!Resource -> Nat]
  <2>1. simulator[n] \in H!Health BY <1>2 DEF TypeInv
  <2> QED BY <2>1, HealthTypes
<1>3. Before(n, d) \in [H!Resource -> Nat]
  BY <1>1, <1>2, Zenon DEF Before, Applied
<1>4. Relieve(Before(n, d), a) \in [H!Resource -> Nat] BY <1>3, RelieveType
<1>5. After(n, d, a) \in [H!Resource -> Nat]
  BY <1>2, <1>3, <1>4, Zenon DEF After, Applied
<1> QED BY <1>3, <1>5

(* What an outcome says of its action, and the penalty of a rejected one.  *)
LEMMA EvaluateType ==
  ASSUME TypeInv, NEW n \in Node, NEW d \in Demand, NEW c \in Cause, NEW a \in Action
  PROVE  LET o == Evaluate(n, d, c, a) IN
         /\ o \in Outcome
         /\ o.node = n /\ o.cause = c /\ o.action = a
         /\ o.applied = Applied(n)
         /\ o.success => Applied(n)
         /\ ~ Applied(n) => ~ o.success /\ o.reward <= 0
<1> DEFINE x == Before(n, d)
           r == TargetMetric(c, a, x)
           y == After(n, d, a)
           benefit == IF Applied(n) THEN Benefit(a, x[r], y[r]) ELSE -400
           reward == Reward(a, benefit)
           success == /\ Applied(n)
                      /\ \/ benefit >= 80 /\ reward > -50
                         \/ a = "NO_ACTION" /\ x[r] < 5000
<1>1. r \in H!Resource BY DEF TargetMetric, H!Resource
<1>2. x[r] \in Nat /\ y[r] \in Nat BY <1>1, MeasuredTypes
<1>3. \A b, v \in Nat : Benefit(a, b, v) \in Score
  <2> TAKE b, v \in Nat
  <2>1. Max({1, b}) \in Nat /\ Max({1, b}) > 0
    <3>1. Max({1, b}) \in {1, b} /\ Max({1, b}) >= 1 BY MaxOfTwo
    <3> QED BY <3>1
  <2>2. (b - v) * 1000 \in Int OBVIOUS
  <2> DEFINE k == ((b - v) * 1000) \div Max({1, b})
  <2>3. k \in Int BY <2>1, <2>2, Quotient
  <2> HIDE DEF k
  <2>4. Clamp(k) \in Score BY <2>3, ClampType
  <2>5. -300 \in Score /\ 0 \in Score BY DEF Score
  <2> QED BY <2>4, <2>5 DEF Benefit, k
<1> HIDE DEF x, r, y
<1>4. benefit \in Score
  <2>1. Benefit(a, x[r], y[r]) \in Score BY <1>2, <1>3
  <2>2. -400 \in Score BY DEF Score
  <2> QED BY <2>1, <2>2
<1>5. \A g \in Int : Reward(a, g) \in Score
  <2> TAKE g \in Int
  <2>1. Cost[a] \in Nat /\ BenefitWeight \in Nat /\ CostWeight \in Nat
    BY ConstantTypes
  <2>2. CostWeight * Cost[a] \in Int BY <2>1
  <2>3. BenefitWeight * g \in Int BY <2>1
  <2> DEFINE k == (BenefitWeight * g - CostWeight * Cost[a]) \div 10
  <2>4. k \in Int BY <2>2, <2>3
  <2> HIDE DEF k
  <2>5. Clamp(k) \in Score BY <2>4, ClampType
  <2> QED BY <2>5 DEF Reward, k
<1>6. reward \in Score
  <2>1. benefit \in Int BY <1>4 DEF Score
  <2> HIDE DEF benefit
  <2> QED BY <1>5, <2>1
<1>7. ASSUME ~ Applied(n) PROVE reward <= 0
  <2>1. benefit = -400 BY <1>7
  <2>2. Cost[a] \in Nat /\ BenefitWeight \in Nat /\ CostWeight \in Nat
    BY ConstantTypes
  <2>3. CostWeight * Cost[a] \in Nat BY <2>2
  <2>4. BenefitWeight * (-400) \in Int /\ BenefitWeight * (-400) <= 0 BY <2>2
  <2> DEFINE t == BenefitWeight * benefit - CostWeight * Cost[a]
  <2>5. t \in Int /\ t <= 0 BY <2>1, <2>3, <2>4
  <2> HIDE DEF t
  <2> DEFINE k == t \div 10
  <2>6. k \in Int /\ k <= 0 BY <2>5
  <2> HIDE DEF k
  <2>7. 0 \in Score BY DEF Score
  <2>8. Clamp(k) <= 0 BY <2>6, <2>7, ClampType
  <2> QED BY <2>8 DEF Reward, k, t
<1>8. Applied(n) \in BOOLEAN BY DEF Applied
<1>9. success \in BOOLEAN OBVIOUS
<1>10. Evaluate(n, d, c, a) =
         [ node |-> n, cause |-> c, action |-> a, applied |-> Applied(n),
           benefit |-> benefit, reward |-> reward, success |-> success ]
  BY Zenon DEF Evaluate, x, y, r
<1>11. success => Applied(n) OBVIOUS
<1> HIDE DEF benefit, reward, success
<1> QED BY <1>4, <1>6, <1>7, <1>8, <1>9, <1>10, <1>11 DEF Outcome

-------------------------------------------------------------------------------
(* The schedule of epsilon, as a function of the number of decays.         *)
DecayOnce(s, e) == Max({s.min, (e * s.decay) \div 1000})

DecayRec(s, n, g) ==
  g = [k \in 0 .. n |-> IF k = 0 THEN s.epsilon ELSE DecayOnce(s, g[k - 1])]

DecayFn(s, n) == CHOOSE g : DecayRec(s, n, g)

Decayed(s, n) == DecayFn(s, n)[n]

Decays == CASE setting.mode = "interval" -> updates \div setting.interval
            [] setting.mode = "episode" -> episodes \div setting.interval
            [] setting.mode = "other" -> 0

(* EpsilonSchedule counts decays by a recursive function; the proof counts *)
(* them by Decayed, which is the same function.                            *)
LEMMA ScheduleByDecays == EpsilonSchedule <=> epsilon = Decayed(setting, Decays)
BY Zenon DEF EpsilonSchedule, Decayed, DecayFn, DecayRec, DecayOnce, Decays

(* Two schedules agree as far as both go.                                  *)
LEMMA DecayRecUnique ==
  ASSUME NEW s, NEW n \in Nat, NEW m \in Nat, NEW g, NEW h,
         DecayRec(s, n, g), DecayRec(s, m, h)
  PROVE  \A k \in Nat : k <= n /\ k <= m => g[k] = h[k]
<1> DEFINE Bad == {k \in Nat : k <= n /\ k <= m /\ g[k] # h[k]}
<1>1. \A k \in 0 .. n : g[k] = IF k = 0 THEN s.epsilon ELSE DecayOnce(s, g[k - 1])
  BY DEF DecayRec
<1>2. \A k \in 0 .. m : h[k] = IF k = 0 THEN s.epsilon ELSE DecayOnce(s, h[k - 1])
  BY DEF DecayRec
<1>3. ASSUME Bad # {} PROVE FALSE
  <2>1. PICK k \in Bad : \A j \in Bad : k <= j BY <1>3, LeastNatural
  <2>2. k \in 0 .. n /\ k \in 0 .. m /\ k \in Nat /\ g[k] # h[k] BY <2>1
  <2>3. k # 0 BY <1>1, <1>2, <2>2
  <2>4. k - 1 \in Nat /\ k - 1 <= n /\ k - 1 <= m /\ ~ (k <= k - 1) BY <2>2, <2>3
  <2>5. g[k - 1] # h[k - 1] BY <1>1, <1>2, <2>2, <2>3
  <2> QED BY <2>1, <2>4, <2>5
<1> QED BY <1>3

(* There is a schedule of any length.                                      *)
LEMMA DecayRecExists ==
  ASSUME NEW s
  PROVE  \A n \in Nat : DecayRec(s, n, DecayFn(s, n))
<1> DEFINE Bad == {n \in Nat : ~ \E g : DecayRec(s, n, g)}
<1>1. ASSUME Bad # {} PROVE FALSE
  <2>1. PICK n \in Bad : \A j \in Bad : n <= j BY <1>1, LeastNatural
  <2>2. n \in Nat /\ ~ \E g : DecayRec(s, n, g) BY <2>1
  <2>3. n # 0
    <3> SUFFICES ASSUME n = 0 PROVE FALSE OBVIOUS
    <3> DEFINE g == [k \in 0 .. n |-> s.epsilon]
    <3>1. g = [k \in 0 .. n |-> IF k = 0 THEN s.epsilon ELSE DecayOnce(s, g[k - 1])]
      <4>1. \A k \in 0 .. n : k = 0 OBVIOUS
      <4> QED BY <4>1
    <3> HIDE DEF g
    <3>2. DecayRec(s, n, g) BY <3>1 DEF DecayRec
    <3> QED BY <2>2, <3>2
  <2>4. n - 1 \in Nat /\ ~ (n <= n - 1) BY <2>2, <2>3
  <2>5. n - 1 \notin Bad BY <2>1, <2>4
  <2>6. PICK g : DecayRec(s, n - 1, g) BY <2>4, <2>5
  <2>7. \A k \in 0 .. n - 1 : g[k] = IF k = 0 THEN s.epsilon ELSE DecayOnce(s, g[k - 1])
    BY <2>6 DEF DecayRec
  <2> DEFINE h == [k \in 0 .. n |-> IF k = n THEN DecayOnce(s, g[n - 1]) ELSE g[k]]
  <2>8. \A k \in 0 .. n : h[k] = IF k = 0 THEN s.epsilon ELSE DecayOnce(s, h[k - 1])
    <3> TAKE k \in 0 .. n
    <3>1. CASE k = n
      <4>1. h[k] = DecayOnce(s, g[n - 1]) BY <3>1
      <4>2. n - 1 \in 0 .. n /\ n - 1 # n BY <2>2, <2>3
      <4>3. h[n - 1] = g[n - 1] BY <4>2
      <4> HIDE DEF h
      <4> QED BY <2>3, <3>1, <4>1, <4>3
    <3>2. CASE k # n
      <4>1. k \in 0 .. n - 1 /\ h[k] = g[k] BY <2>2, <3>2
      <4>2. k # 0 => k - 1 \in 0 .. n /\ k - 1 # n BY <2>2
      <4>3. k # 0 => h[k - 1] = g[k - 1] BY <4>2
      <4> HIDE DEF h
      <4> QED BY <2>7, <4>1, <4>3
    <3> QED BY <3>1, <3>2
  <2>9. h = [k \in 0 .. n |-> h[k]] OBVIOUS
  <2> HIDE DEF h
  <2>10. h = [k \in 0 .. n |-> IF k = 0 THEN s.epsilon ELSE DecayOnce(s, h[k - 1])]
    BY <2>8, <2>9
  <2>11. DecayRec(s, n, h) BY <2>10 DEF DecayRec
  <2> QED BY <2>2, <2>11
<1>2. ASSUME NEW n \in Nat PROVE DecayRec(s, n, DecayFn(s, n))
  <2>1. \E g : DecayRec(s, n, g) BY <1>1
  <2> QED BY <2>1, Zenon DEF DecayFn
<1> QED BY <1>2

(* One more decay is DecayOnce of the ones before.                         *)
LEMMA DecayedNext ==
  ASSUME NEW s
  PROVE  /\ Decayed(s, 0) = s.epsilon
         /\ \A n \in Nat : Decayed(s, n + 1) = DecayOnce(s, Decayed(s, n))
<1>1. \A n \in Nat, k \in Nat : k <= n =>
        DecayFn(s, n)[k] = IF k = 0 THEN s.epsilon ELSE DecayOnce(s, DecayFn(s, n)[k - 1])
  <2> TAKE n \in Nat, k \in Nat
  <2>1. DecayRec(s, n, DecayFn(s, n)) BY DecayRecExists
  <2> DEFINE g == DecayFn(s, n)
  <2> HIDE DEF g
  <2>2. DecayRec(s, n, g) BY <2>1 DEF g
  <2>3. k <= n => g[k] = IF k = 0 THEN s.epsilon ELSE DecayOnce(s, g[k - 1])
    BY <2>2 DEF DecayRec
  <2> QED BY <2>3 DEF g
<1>2. Decayed(s, 0) = s.epsilon BY <1>1 DEF Decayed
<1>3. ASSUME NEW n \in Nat PROVE Decayed(s, n + 1) = DecayOnce(s, Decayed(s, n))
  <2>1. DecayFn(s, n + 1)[n + 1] = DecayOnce(s, DecayFn(s, n + 1)[n])
    <3>1. n + 1 \in Nat /\ n + 1 # 0 /\ (n + 1) - 1 = n /\ n + 1 <= n + 1 OBVIOUS
    <3> QED BY <1>1, <3>1
  <2>2. DecayFn(s, n + 1)[n] = DecayFn(s, n)[n]
    <3>1. DecayRec(s, n, DecayFn(s, n)) /\ DecayRec(s, n + 1, DecayFn(s, n + 1))
      BY DecayRecExists
    <3>2. n + 1 \in Nat /\ n <= n /\ n <= n + 1 OBVIOUS
    <3> QED BY <3>1, <3>2, DecayRecUnique
  <2> QED BY <2>1, <2>2 DEF Decayed
<1> QED BY <1>2, <1>3

(* A counter divided by an interval moves by one when it becomes a         *)
(* multiple, and by nothing else.                                          *)
LEMMA QuotientMoves ==
  \A u \in Nat, i \in Nat : i > 0 =>
    /\ u \div i \in Nat
    /\ (u + 1) \div i = IF (u + 1) % i = 0 THEN u \div i + 1 ELSE u \div i
<1> TAKE u \in Nat, i \in Nat
<1> SUFFICES ASSUME i > 0
             PROVE /\ u \div i \in Nat
                   /\ (u + 1) \div i = IF (u + 1) % i = 0 THEN u \div i + 1 ELSE u \div i
  OBVIOUS
<1> QED OBVIOUS

(* Sums over the table, as the folds of StatsAgree and Tries compute them. *)
LEMMA FoldAttempts ==
  ASSUME NEW t, NEW S, S \subseteq DOMAIN t
  PROVE  FoldFunctionOnSet(LAMBDA e, k : e.attempts + k, 0, t, S)
           = SumOver([p \in DOMAIN t |-> t[p].attempts], S)
<1> DEFINE f == [p \in DOMAIN t |-> t[p].attempts]
           P(g) == g = [s \in SUBSET S |->
                          IF s = {} THEN 0
                          ELSE t[CHOOSE x \in s : TRUE].attempts
                                 + g[s \ {CHOOSE x \in s : TRUE}]]
           Q(g) == SumRec(f, S, g)
<1>1. \A g : P(g) <=> Q(g)
  <2> TAKE g
  <2>1. ASSUME NEW s \in SUBSET S, s # {} PROVE f[Pick(s)] = t[Pick(s)].attempts
    BY <2>1, PickIn
  <2>2. [s \in SUBSET S |-> IF s = {} THEN 0 ELSE f[Pick(s)] + g[s \ {Pick(s)}]]
          = [s \in SUBSET S |-> IF s = {} THEN 0
                                ELSE t[Pick(s)].attempts + g[s \ {Pick(s)}]]
    BY <2>1
  <2> QED BY <2>2, Zenon DEF SumRec, Pick
<1>2. FoldFunctionOnSet(LAMBDA e, k : e.attempts + k, 0, t, S) = (CHOOSE g : P(g))[S]
  BY Zenon DEF FoldFunctionOnSet, MapThenFoldSet
<1>3. SumOver(f, S) = (CHOOSE g : Q(g))[S] BY Zenon DEF SumOver, SumFn
<1> HIDE DEF P, Q
<1>4. (CHOOSE g : P(g)) = (CHOOSE g : Q(g)) BY <1>1, Zenon
<1> QED BY <1>2, <1>3, <1>4

(* The library fold in StatsAgree is a sum over the entries of the table.  *)
LEMMA FoldSuccesses ==
  ASSUME NEW t, NEW S, S \subseteq DOMAIN t
  PROVE  FoldFunctionOnSet(LAMBDA e, k : e.successes + k, 0, t, S)
           = SumOver([p \in DOMAIN t |-> t[p].successes], S)
<1> DEFINE f == [p \in DOMAIN t |-> t[p].successes]
           P(g) == g = [s \in SUBSET S |->
                          IF s = {} THEN 0
                          ELSE t[CHOOSE x \in s : TRUE].successes
                                 + g[s \ {CHOOSE x \in s : TRUE}]]
           Q(g) == SumRec(f, S, g)
<1>1. \A g : P(g) <=> Q(g)
  <2> TAKE g
  <2>1. ASSUME NEW s \in SUBSET S, s # {} PROVE f[Pick(s)] = t[Pick(s)].successes
    BY <2>1, PickIn
  <2>2. [s \in SUBSET S |-> IF s = {} THEN 0 ELSE f[Pick(s)] + g[s \ {Pick(s)}]]
          = [s \in SUBSET S |-> IF s = {} THEN 0
                                ELSE t[Pick(s)].successes + g[s \ {Pick(s)}]]
    BY <2>1
  <2> QED BY <2>2, Zenon DEF SumRec, Pick
<1>2. FoldFunctionOnSet(LAMBDA e, k : e.successes + k, 0, t, S) = (CHOOSE g : P(g))[S]
  BY Zenon DEF FoldFunctionOnSet, MapThenFoldSet
<1>3. SumOver(f, S) = (CHOOSE g : Q(g))[S] BY Zenon DEF SumOver, SumFn
<1> HIDE DEF P, Q
<1>4. (CHOOSE g : P(g)) = (CHOOSE g : Q(g)) BY <1>1, Zenon
<1> QED BY <1>2, <1>3, <1>4

-------------------------------------------------------------------------------
Entry == [q : Score, attempts : Nat, successes : Nat]

(* Decaying keeps epsilon a share.                                         *)
LEMMA DecayType ==
  ASSUME NEW s \in PolicySetting, NEW e \in Share
  PROVE  DecayOnce(s, e) \in Share
<1>1. s.min \in Share /\ s.decay \in Share BY DEF PolicySetting
<1>2. \A a, b \in Share : (a * b) \div 1000 \in Share
  <2> TAKE a, b \in Share
  <2>1. a * b \in Nat /\ a * b <= 1000 * a BY SMT DEF Share
  <2> DEFINE x == a * b
  <2> HIDE DEF x
  <2>2. x \in Nat /\ x <= 1000 * a /\ a \in 0 .. 1000 BY <2>1 DEF x, Share
  <2>3. x \div 1000 \in 0 .. 1000 BY <2>2, SMT
  <2> QED BY <2>3 DEF Share, x
<1>3. \A x, y \in Share : Max({x, y}) \in Share
  <2> TAKE x, y \in Share
  <2>1. x \in Int /\ y \in Int BY DEF Share
  <2>2. Max({x, y}) \in {x, y} BY <2>1, MaxOfTwo
  <2> QED BY <2>2
<1>4. (e * s.decay) \div 1000 \in Share BY <1>1, <1>2
<1> QED BY <1>1, <1>3, <1>4 DEF DecayOnce

(* What an outcome o adds to an entry e: one attempt, a success if it was  *)
(* one, and an efficacy no larger than the one before or the reward.       *)
LEMMA LearnedType ==
  ASSUME NEW e \in Entry, NEW o \in Outcome
  PROVE  /\ Learned(e, o) \in Entry
         /\ Learned(e, o).attempts = e.attempts + 1
         /\ o.success => Learned(e, o).successes = e.successes + 1
         /\ ~ o.success => Learned(e, o).successes = e.successes
         /\ Learned(e, o).q <= Max({e.q, o.reward})
<1>1. /\ e.q \in Score /\ e.attempts \in Nat /\ e.successes \in Nat
      /\ o.reward \in Score /\ o.success \in BOOLEAN
  BY DEF Entry, Outcome
<1>2. e.q \in Int /\ o.reward \in Int
  <2>1. \A x \in Score : x \in Int BY DEF Score
  <2> QED BY <1>1, <2>1, Zenon
<1> DEFINE m == Max({e.q, o.reward})
           k == e.q + (Alpha * (o.reward - e.q)) \div 10
<1>3. /\ m \in {e.q, o.reward} /\ m >= e.q /\ m >= o.reward
  BY <1>2, MaxOfTwo
<1>4. m \in Score /\ m \in Int BY <1>1, <1>2, <1>3
<1>5. k \in Int /\ k <= m
  <2> DEFINE d == o.reward - e.q
  <2>1. d \in Int BY <1>2
  <2>2. \A x \in Int, a \in 0 .. 10 :
          /\ a * x \in Int
          /\ x <= 0 => a * x <= 0
          /\ x >= 0 => a * x <= 10 * x
    OBVIOUS
  <2>3. Alpha * d \in Int /\ (d <= 0 => Alpha * d <= 0)
        /\ (d >= 0 => Alpha * d <= 10 * d)
    BY <2>1, <2>2, ConstantTypes
  <2> DEFINE p == Alpha * d
  <2> HIDE DEF p, d
  <2>4. p \in Int /\ (d <= 0 => p <= 0) /\ (d >= 0 => p <= 10 * d) BY <2>3 DEF p
  <2>5. p \div 10 \in Int BY <2>4
  <2>6. d <= 0 => p \div 10 <= 0 BY <2>4
  <2>7. d >= 0 => p \div 10 <= d BY <2>1, <2>4
  <2>8. d = o.reward - e.q BY DEF d
  <2> HIDE DEF m
  <2>9. e.q + p \div 10 \in Int /\ e.q + p \div 10 <= m
    BY <1>2, <1>3, <1>4, <2>1, <2>5, <2>6, <2>7, <2>8
  <2> QED BY <2>9 DEF p, d
<1> HIDE DEF m, k
<1>6. Clamp(k) \in Score /\ Clamp(k) <= m BY <1>4, <1>5, ClampType
<1> DEFINE w == e.successes + (IF o.success THEN 1 ELSE 0)
<1>7. /\ w \in Nat /\ (o.success => w = e.successes + 1)
      /\ (~ o.success => w = e.successes)
  BY <1>1
<1>8. e.attempts + 1 \in Nat BY <1>1
<1>9. Learned(e, o) = [q |-> Clamp(k), attempts |-> e.attempts + 1, successes |-> w]
  BY Zenon DEF Learned, k
<1> HIDE DEF w
<1> QED BY <1>6, <1>7, <1>8, <1>9 DEF Entry, m

(* The table of a fresh policy is well typed and has no attempts.          *)
LEMMA UntriedType ==
  /\ UntriedTable \in [Cause \X Action -> Entry]
  /\ \A p \in Cause \X Action : UntriedTable[p].attempts = 0 /\ UntriedTable[p].successes = 0
<1>1. \A p \in Cause \X Action : Prior(p[1], p[2]) \in Score
  <2> TAKE p \in Cause \X Action
  <2>1. p[1] \in Cause /\ p[2] \in Action OBVIOUS
  <2>2. Prior(p[1], p[2]) \in 0 .. 1000 BY <2>1, ConstantTypes
  <2>3. \A x \in 0 .. 1000 : x \in Score BY DEF Score
  <2> QED BY <2>2, <2>3, Zenon
<1> QED BY <1>1 DEF UntriedTable, Entry

-------------------------------------------------------------------------------
(* What the calls keep true.                                               *)
AttemptsOf(t)  == [p \in DOMAIN t |-> t[p].attempts]
SuccessesOf(t) == [p \in DOMAIN t |-> t[p].successes]

CountInv ==
  /\ updates = recoveries
  /\ recoveries = SumOver(AttemptsOf(table), Cause \X Action)
  /\ \A p \in Cause \X Action : table[p].successes <= table[p].attempts
  /\ last = NoOutcome <=> recoveries = 0
  /\ last # NoOutcome =>
       /\ table[<<last.cause, last.action>>].attempts > 0
       /\ last.success => table[<<last.cause, last.action>>].successes > 0

KInv ==
  /\ TypeOK /\ CountInv /\ EpisodeHasFault
  /\ epsilon = Decayed(setting, Decays)

(* TypeOK in the form the action lemmas need.                              *)
LEMMA TypesAtHand ==
  ASSUME TypeOK
  PROVE  /\ TypeInv /\ table \in [Cause \X Action -> Entry]
         /\ updates \in Nat /\ episodes \in Nat /\ recoveries \in Nat
BY DEF TypeOK, TypeInv, Entry

(* An outcome is none of the outcomes before the first.                    *)
LEMMA OutcomesDiffer == \A o \in Outcome : o # NoOutcome
<1> TAKE o \in Outcome
<1>1. o.action \in Action BY DEF Outcome
<1>2. "NONE" \notin Action BY DEF Action, H!RecoveryAction
<1>3. NoOutcome.action = "NONE" BY DEF NoOutcome
<1> QED BY <1>1, <1>2, <1>3

(* An anomalous record of node n, diagnosed as c and answered by a, moves  *)
(* one entry p of the table, by its outcome.                               *)
MovesOne(n, c, a, p) ==
  /\ last' \in Outcome
  /\ last'.node = n /\ last'.cause = c /\ last'.action = a
  /\ last'.applied = Applied(n)
  /\ last'.success => Applied(n)
  /\ ~ Applied(n) => ~ last'.success /\ last'.reward <= 0
  /\ p \in Cause \X Action
  /\ table' \in [Cause \X Action -> Entry]
  /\ \A r \in Cause \X Action : r # p => table'[r] = table[r]
  /\ table'[p] = Learned(table[p], last')
  /\ table'[p].attempts = table[p].attempts + 1
  /\ last'.success => table'[p].successes = table[p].successes + 1
  /\ ~ last'.success => table'[p].successes = table[p].successes
  /\ table'[p].q <= Max({table[p].q, last'.reward})

(* process on an anomaly, as seen from the counters: one attempt at the    *)
(* pair it tried, one update, and a success at most there.                 *)
LEMMA LearnsOne ==
  ASSUME TypeOK, NEW n \in Node, NEW d \in Demand, NEW c \in Cause, NEW a \in Action,
         ProcessAnomaly(n, d, c, a)
  PROVE  MovesOne(n, c, a, <<c, a>>)
<1> DEFINE o == Evaluate(n, d, c, a)
<1>1. last' = o BY Zenon DEF ProcessAnomaly
<1>2. /\ o \in Outcome
      /\ o.node = n /\ o.cause = c /\ o.action = a
      /\ o.applied = Applied(n)
      /\ o.success => Applied(n)
      /\ ~ Applied(n) => ~ o.success /\ o.reward <= 0
  BY TypesAtHand, EvaluateType
<1> HIDE DEF o
<1> DEFINE p == <<c, a>>
<1>3. p \in Cause \X Action OBVIOUS
<1>4. table' = [table EXCEPT ![p] = Learned(@, o)]
  BY <1>1, <1>2, Zenon DEF ProcessAnomaly, UpdatePolicy
<1>5. table \in [Cause \X Action -> Entry] /\ table[p] \in Entry
  BY <1>3, TypesAtHand
<1> HIDE DEF p
<1>6. /\ Learned(table[p], o) \in Entry
      /\ Learned(table[p], o).attempts = table[p].attempts + 1
      /\ o.success => Learned(table[p], o).successes = table[p].successes + 1
      /\ ~ o.success => Learned(table[p], o).successes = table[p].successes
      /\ Learned(table[p], o).q <= Max({table[p].q, o.reward})
  BY <1>2, <1>5, LearnedType
<1>7. /\ table' \in [Cause \X Action -> Entry]
      /\ table'[p] = Learned(table[p], o)
      /\ \A r \in Cause \X Action : r # p => table'[r] = table[r]
  BY <1>3, <1>4, <1>5, <1>6
<1>8. MovesOne(n, c, a, p) BY <1>1, <1>2, <1>3, <1>6, <1>7, Zenon DEF MovesOne
<1> QED BY <1>8 DEF p

(* The types of the variables, call by call.                               *)
LEMMA EpsilonType ==
  ASSUME TypeOK, NEW e \in Share
  PROVE  DecayEpsilon(e) \in Share
<1>1. setting \in PolicySetting BY DEF TypeOK
<1> QED BY <1>1, DecayType DEF DecayEpsilon, DecayOnce

(* Every operation of the pipeline keeps the types.                        *)
LEMMA TypesKept == TypeOK /\ [Next]_vars => TypeOK'
<1> SUFFICES ASSUME TypeOK, [Next]_vars PROVE TypeOK' OBVIOUS
<1>0. ASSUME Call PROVE calls' \in 0 .. MaxCalls
  <2>1. calls \in 0 .. MaxCalls BY DEF TypeOK
  <2>2. MaxCalls \in Nat BY CraftEdgeAssumption
  <2>3. calls < MaxCalls /\ calls' = calls + 1 BY <1>0 DEF Call
  <2> QED BY <2>1, <2>2, <2>3
<1>1. ASSUME NEW n \in Node, ProcessNormal(n) PROVE TypeOK'
  <2>1. epsilon' \in Share /\ episodes' \in Nat
    <3>1. epsilon \in Share /\ episodes \in Nat BY DEF TypeOK
    <3> QED BY <1>1, <3>1, EpsilonType DEF ProcessNormal, StepEpisode
  <2>2. calls' \in 0 .. MaxCalls BY <1>0, <1>1 DEF ProcessNormal
  <2>3. UNCHANGED <<setting, table, updates, recoveries, last, shadow, attached,
                    simulator>> /\ inEpisode' = FALSE
    BY <1>1 DEF ProcessNormal
  <2> QED BY <2>1, <2>2, <2>3 DEF TypeOK
<1>2. ASSUME NEW n \in Node, NEW d \in Demand, NEW c \in Cause, NEW a \in Action,
             ProcessAnomaly(n, d, c, a)
      PROVE  TypeOK'
  <2>1. last' \in Outcome /\ table' \in [Cause \X Action -> Entry]
    BY <1>2, LearnsOne, Zenon DEF MovesOne
  <2>2. updates' = updates + 1 /\ recoveries' = recoveries + 1 /\ inEpisode' = TRUE
        /\ UNCHANGED <<setting, episodes, attached>>
    BY <1>2 DEF ProcessAnomaly, UpdatePolicy
  <2>3. epsilon' \in Share
    <3>1. epsilon \in Share BY DEF TypeOK
    <3>2. epsilon' = epsilon \/ epsilon' = DecayEpsilon(epsilon)
      BY <1>2, Zenon DEF ProcessAnomaly, UpdatePolicy
    <3> QED BY <3>1, <3>2, EpsilonType
  <2>4. calls' \in 0 .. MaxCalls BY <1>0, <1>2 DEF ProcessAnomaly
  <2>5. Execute(n, a) BY <1>2 DEF ProcessAnomaly
  <2>6. shadow' \in [Node -> [H!Factor -> 1 .. 10]]
    <3>1. shadow \in [Node -> [H!Factor -> 1 .. 10]] BY DEF TypeOK
    <3>2. ShadowMitigate(shadow[n], a) \in [H!Factor -> 1 .. 10]
      BY <3>1, HealthTypes
    <3>3. shadow' = shadow \/ shadow' = [shadow EXCEPT ![n] = ShadowMitigate(shadow[n], a)]
      BY <2>5, Zenon DEF Execute
    <3> QED BY <3>1, <3>2, <3>3
  <2>7. /\ DOMAIN simulator' = DOMAIN simulator
        /\ simulator' \in [DOMAIN simulator -> H!Health]
    <3>1. simulator \in [DOMAIN simulator -> H!Health] BY DEF TypeOK
    <3>2. \A m \in DOMAIN simulator : H!ApplyRecovery(simulator[m], a) \in H!Health
      BY <3>1, HealthTypes
    <3>3. \/ simulator' = simulator
          \/ simulator' = [m \in DOMAIN simulator |->
                IF m = n THEN H!ApplyRecovery(simulator[m], a) ELSE simulator[m]]
      BY <2>5, Zenon DEF Execute
    <3> QED BY <3>1, <3>2, <3>3
  <2> QED BY <2>1, <2>2, <2>3, <2>4, <2>6, <2>7 DEF TypeOK, Entry
<1>3. ASSUME ResetPipeline, Call, UNCHANGED <<attached, simulator>>,
             setting' \in PolicySetting
      PROVE  TypeOK'
  <2>1. table' \in [Cause \X Action -> Entry] BY <1>3, UntriedType DEF ResetPipeline, ResetPolicy
  <2>2. shadow' \in [Node -> [H!Factor -> 1 .. 10]]
    BY <1>3, HealthTypes DEF ResetPipeline
  <2>3. epsilon' \in Share
    <3>1. epsilon' = setting.epsilon BY <1>3 DEF ResetPipeline, ResetPolicy
    <3> QED BY <3>1 DEF TypeOK, PolicySetting
  <2>4. calls' \in 0 .. MaxCalls BY <1>0, <1>3
  <2>5. updates' = 0 /\ episodes' = 0 /\ recoveries' = 0 /\ inEpisode' = FALSE
        /\ last' = NoOutcome
    BY <1>3 DEF ResetPipeline, ResetPolicy
  <2>6. 0 \in Nat OBVIOUS
  <2> QED BY <1>3, <2>1, <2>2, <2>3, <2>4, <2>5 DEF TypeOK, Entry
<1>4. CASE Reset
  <2>1. setting' \in PolicySetting BY <1>4 DEF Reset, TypeOK
  <2> QED BY <1>3, <1>4, <2>1 DEF Reset
<1>5. ASSUME NEW s \in Setting, Initialize(s) PROVE TypeOK'
  <2>1. setting' \in PolicySetting
    <3>1. s \in PolicySetting /\ setting.epsilon \in Share
      BY ConstantTypes DEF TypeOK, PolicySetting
    <3>2. setting' = [s EXCEPT !.epsilon = setting.epsilon] BY <1>5 DEF Initialize
    <3> QED BY <3>1, <3>2 DEF PolicySetting
  <2> QED BY <1>3, <1>5, <2>1 DEF Initialize
<1>6. CASE UNCHANGED vars BY <1>6 DEF TypeOK, vars
<1> QED BY <1>1, <1>2, <1>4, <1>5, <1>6 DEF Next

(* A fresh pipeline is well typed.                                         *)
LEMMA InitTypes == Init => TypeOK
<1> SUFFICES ASSUME Init PROVE TypeOK OBVIOUS
<1>1. setting \in PolicySetting
  <2>1. PICK s \in Setting :
          setting = [s EXCEPT !.mode = IF @ = "episode" THEN @ ELSE "interval"]
    BY DEF Init
  <2>2. s \in PolicySetting BY ConstantTypes
  <2> QED BY <2>1, <2>2 DEF PolicySetting
<1>2. epsilon \in Share BY <1>1 DEF Init, PolicySetting
<1>3. table \in [Cause \X Action -> Entry] BY UntriedType DEF Init
<1>4. shadow \in [Node -> [H!Factor -> 1 .. 10]] BY HealthTypes DEF Init
<1>5. DOMAIN simulator \subseteq Node /\ simulator \in [DOMAIN simulator -> H!Health]
  <2>1. PICK S \in SUBSET Node : simulator = [n \in S |-> H!InitialHealth] BY DEF Init
  <2> QED BY <2>1, HealthTypes
<1>6. calls \in 0 .. MaxCalls BY CraftEdgeAssumption DEF Init
<1> QED BY <1>1, <1>2, <1>3, <1>4, <1>5, <1>6 DEF Init, TypeOK, Entry

-------------------------------------------------------------------------------
(* The sums over a fresh table are zero.                                   *)
LEMMA UntriedSums ==
  /\ SumOver(AttemptsOf(UntriedTable), Cause \X Action) = 0
  /\ \A S : S \subseteq Cause \X Action /\ IsFiniteSet(S) =>
       /\ SumOver(AttemptsOf(UntriedTable), S) = 0
       /\ SumOver(SuccessesOf(UntriedTable), S) = 0
<1>1. /\ \A p \in Cause \X Action : AttemptsOf(UntriedTable)[p] = 0
      /\ \A p \in Cause \X Action : SuccessesOf(UntriedTable)[p] = 0
  BY UntriedType DEF AttemptsOf, SuccessesOf
<1>2. \A S : S \subseteq Cause \X Action /\ IsFiniteSet(S) =>
        /\ SumOver(AttemptsOf(UntriedTable), S) = 0
        /\ SumOver(SuccessesOf(UntriedTable), S) = 0
  <2> TAKE S
  <2> SUFFICES ASSUME S \subseteq Cause \X Action, IsFiniteSet(S)
               PROVE  /\ SumOver(AttemptsOf(UntriedTable), S) = 0
                      /\ SumOver(SuccessesOf(UntriedTable), S) = 0
    OBVIOUS
  <2>1. /\ \A p \in S : AttemptsOf(UntriedTable)[p] = 0
        /\ \A p \in S : SuccessesOf(UntriedTable)[p] = 0
    BY <1>1
  <2> QED BY <2>1, SumZero
<1> QED BY <1>2, PairsFinite

(* What an anomalous record adds to the sums over a set of pairs.          *)
LEMMA SumsMove ==
  ASSUME TypeOK, NEW n \in Node, NEW d \in Demand, NEW c \in Cause, NEW a \in Action,
         ProcessAnomaly(n, d, c, a),
         NEW S, S \subseteq Cause \X Action, IsFiniteSet(S)
  PROVE  /\ SumOver(AttemptsOf(table), S) \in Int
         /\ SumOver(SuccessesOf(table), S) \in Int
         /\ SumOver(AttemptsOf(table'), S)
              = SumOver(AttemptsOf(table), S) + (IF <<c, a>> \in S THEN 1 ELSE 0)
         /\ SumOver(SuccessesOf(table'), S)
              = SumOver(SuccessesOf(table), S)
                  + (IF <<c, a>> \in S /\ last'.success THEN 1 ELSE 0)
<1> DEFINE p == <<c, a>>
           A == AttemptsOf(table)
           B == AttemptsOf(table')
           U == SuccessesOf(table)
           V == SuccessesOf(table')
           k == IF last'.success THEN 1 ELSE 0
<1>1. /\ p \in Cause \X Action
      /\ \A r \in Cause \X Action : /\ A[r] \in Int /\ B[r] \in Int
                                    /\ U[r] \in Int /\ V[r] \in Int
      /\ \A r \in Cause \X Action : r # p => A[r] = B[r] /\ U[r] = V[r]
      /\ B[p] = A[p] + 1 /\ V[p] = U[p] + k
  <2>1. table \in [Cause \X Action -> Entry] BY TypesAtHand
  <2>0. MovesOne(n, c, a, p) BY LearnsOne
  <2>2. /\ table' \in [Cause \X Action -> Entry]
        /\ \A r \in Cause \X Action : r # p => table'[r] = table[r]
        /\ table'[p].attempts = table[p].attempts + 1
        /\ last'.success => table'[p].successes = table[p].successes + 1
        /\ ~ last'.success => table'[p].successes = table[p].successes
        /\ p \in Cause \X Action
    BY <2>0, Zenon DEF MovesOne
  <2> HIDE DEF p
  <2>3. \A r \in Cause \X Action :
          /\ A[r] = table[r].attempts /\ B[r] = table'[r].attempts
          /\ U[r] = table[r].successes /\ V[r] = table'[r].successes
    BY <2>1, <2>2 DEF AttemptsOf, SuccessesOf
  <2>4. \A r \in Cause \X Action :
          /\ table[r].attempts \in Int /\ table'[r].attempts \in Int
          /\ table[r].successes \in Int /\ table'[r].successes \in Int
    BY <2>1, <2>2 DEF Entry
  <2> HIDE DEF A, B, U, V
  <2>5. V[p] = U[p] + k
    <3>1. U[p] = table[p].successes /\ V[p] = table'[p].successes /\ U[p] \in Int
      BY <2>2, <2>3, <2>4
    <3>2. CASE last'.success BY <2>2, <3>1, <3>2
    <3>3. CASE ~ last'.success BY <2>2, <3>1, <3>3
    <3> QED BY <3>2, <3>3
  <2> QED BY <2>2, <2>3, <2>4, <2>5
<1>2. k \in Int OBVIOUS
<1> HIDE DEF p, A, B, U, V, k
<1>3. /\ \A r \in S : A[r] \in Int /\ B[r] \in Int
      /\ \A r \in S : U[r] \in Int /\ V[r] \in Int
      /\ \A r \in S : r # p => A[r] = B[r]
      /\ \A r \in S : r # p => U[r] = V[r]
  BY <1>1
<1>4. SumOver(A, S) \in Int /\ SumOver(U, S) \in Int
  BY <1>3, SumType
<1>5. CASE p \in S
  <2>1. SumOver(B, S) = SumOver(A, S) + (B[p] - A[p]) BY <1>3, <1>5, SumChange
  <2>2. SumOver(V, S) = SumOver(U, S) + (V[p] - U[p]) BY <1>3, <1>5, SumChange
  <2>3. A[p] \in Int /\ U[p] \in Int BY <1>3, <1>5
  <2>4. B[p] - A[p] = 1 /\ V[p] - U[p] = k BY <1>1, <1>2, <2>3
  <2> QED BY <1>4, <1>5, <2>1, <2>2, <2>4 DEF p, A, B, U, V, k
<1>6. CASE p \notin S
  <2>1. \A r \in S : A[r] = B[r] /\ U[r] = V[r] BY <1>3, <1>6
  <2>2. SumOver(B, S) = SumOver(A, S) /\ SumOver(V, S) = SumOver(U, S)
    BY <2>1, SumSame
  <2> QED BY <1>4, <1>6, <2>2 DEF p, A, B, U, V
<1> QED BY <1>5, <1>6

(* The counters, call by call.                                             *)
LEMMA CountsKept == TypeOK /\ CountInv /\ [Next]_vars => CountInv'
<1> SUFFICES ASSUME TypeOK, CountInv, [Next]_vars PROVE CountInv' OBVIOUS
<1>1. ASSUME NEW n \in Node, ProcessNormal(n) PROVE CountInv'
  <2>1. UNCHANGED <<updates, recoveries, table, last>> BY <1>1 DEF ProcessNormal
  <2> QED BY <2>1 DEF CountInv
<1>2. ASSUME NEW n \in Node, NEW d \in Demand, NEW c \in Cause, NEW a \in Action,
             ProcessAnomaly(n, d, c, a)
      PROVE  CountInv'
  <2> DEFINE p == <<c, a>>
  <2>1. updates' = updates + 1 /\ recoveries' = recoveries + 1
    BY <1>2 DEF ProcessAnomaly, UpdatePolicy
  <2>2. recoveries' = SumOver(AttemptsOf(table'), Cause \X Action)
    <3>1. /\ SumOver(AttemptsOf(table), Cause \X Action) \in Int
          /\ SumOver(AttemptsOf(table'), Cause \X Action)
               = SumOver(AttemptsOf(table), Cause \X Action)
                   + (IF <<c, a>> \in Cause \X Action THEN 1 ELSE 0)
      BY <1>2, SumsMove, PairsFinite
    <3>2. <<c, a>> \in Cause \X Action OBVIOUS
    <3> QED BY <2>1, <3>1, <3>2 DEF CountInv
  <2>0. MovesOne(n, c, a, p) BY <1>2, LearnsOne
  <2>3. /\ last' \in Outcome /\ last'.cause = c /\ last'.action = a
        /\ p \in Cause \X Action
        /\ table' \in [Cause \X Action -> Entry]
        /\ \A r \in Cause \X Action : r # p => table'[r] = table[r]
        /\ table'[p].attempts = table[p].attempts + 1
        /\ last'.success => table'[p].successes = table[p].successes + 1
        /\ ~ last'.success => table'[p].successes = table[p].successes
    BY <2>0, Zenon DEF MovesOne
  <2> HIDE DEF p
  <2>4. /\ table[p].attempts \in Nat /\ table[p].successes \in Nat
        /\ table[p].successes <= table[p].attempts
    BY <2>3, TypesAtHand DEF Entry, CountInv
  <2>5. \A r \in Cause \X Action : table'[r].successes <= table'[r].attempts
    <3> TAKE r \in Cause \X Action
    <3>1. CASE r = p
      <4>1. CASE last'.success BY <2>3, <2>4, <3>1, <4>1
      <4>2. CASE ~ last'.success BY <2>3, <2>4, <3>1, <4>2
      <4> QED BY <4>1, <4>2
    <3>2. CASE r # p BY <2>3, <3>2 DEF CountInv
    <3> QED BY <3>1, <3>2
  <2>6. last' # NoOutcome BY <2>3, OutcomesDiffer
  <2>7. <<last'.cause, last'.action>> = p BY <2>3 DEF p
  <2>8. recoveries' # 0
    <3>1. recoveries \in Nat BY TypesAtHand
    <3> QED BY <2>1, <3>1
  <2>9. table'[p].attempts > 0 /\ (last'.success => table'[p].successes > 0)
    BY <2>3, <2>4
  <2>10. updates' = recoveries' BY <2>1 DEF CountInv
  <2> QED BY <2>2, <2>5, <2>6, <2>7, <2>8, <2>9, <2>10, Zenon DEF CountInv
<1>3. ASSUME ResetPipeline PROVE CountInv'
  <2>1. table' = UntriedTable /\ updates' = 0 /\ recoveries' = 0 /\ last' = NoOutcome
    BY <1>3 DEF ResetPipeline, ResetPolicy
  <2>2. \A p \in Cause \X Action : table'[p].successes <= table'[p].attempts
    BY <2>1, UntriedType
  <2>3. recoveries' = SumOver(AttemptsOf(table'), Cause \X Action)
    BY <2>1, UntriedSums
  <2> QED BY <2>1, <2>2, <2>3, Zenon DEF CountInv
<1>4. CASE Reset BY <1>3, <1>4 DEF Reset
<1>5. ASSUME NEW s \in Setting, Initialize(s) PROVE CountInv'
  BY <1>3, <1>5 DEF Initialize
<1>6. CASE UNCHANGED vars
  <2>1. UNCHANGED <<updates, recoveries, table, last>> BY <1>6 DEF vars
  <2> QED BY <2>1 DEF CountInv
<1> QED BY <1>1, <1>2, <1>4, <1>5, <1>6 DEF Next

(* An episode, when it is closed, had a recovery of its own.               *)
LEMMA EpisodesKept ==
  TypeOK /\ EpisodeHasFault /\ [Next]_vars => EpisodeHasFault'
<1> SUFFICES ASSUME TypeOK, EpisodeHasFault, [Next]_vars PROVE EpisodeHasFault'
  OBVIOUS
<1>0. /\ episodes \in Nat /\ recoveries \in Nat /\ inEpisode \in BOOLEAN
      /\ inEpisode => episodes + 1 <= recoveries
      /\ ~ inEpisode => episodes <= recoveries
  <2>1. episodes \in Nat /\ recoveries \in Nat BY TypesAtHand
  <2>2. inEpisode \in BOOLEAN BY DEF TypeOK
  <2>3. inEpisode => episodes + 1 <= recoveries BY DEF EpisodeHasFault
  <2>4. ~ inEpisode => episodes <= recoveries BY <2>1 DEF EpisodeHasFault
  <2> QED BY <2>1, <2>2, <2>3, <2>4
<1>1. ASSUME NEW n \in Node, ProcessNormal(n) PROVE EpisodeHasFault'
  <2>1. inEpisode' = FALSE /\ recoveries' = recoveries BY <1>1 DEF ProcessNormal
  <2>2. CASE inEpisode
    <3>1. episodes' = episodes + 1 BY <1>1, <2>2 DEF ProcessNormal, StepEpisode
    <3> QED BY <1>0, <2>1, <2>2, <3>1 DEF EpisodeHasFault
  <2>3. CASE ~ inEpisode
    <3>1. episodes' = episodes BY <1>1, <2>3 DEF ProcessNormal
    <3> QED BY <1>0, <2>1, <2>3, <3>1 DEF EpisodeHasFault
  <2> QED BY <2>2, <2>3
<1>2. ASSUME NEW n \in Node, NEW d \in Demand, NEW c \in Cause, NEW a \in Action,
             ProcessAnomaly(n, d, c, a)
      PROVE  EpisodeHasFault'
  <2>1. inEpisode' = TRUE /\ recoveries' = recoveries + 1 /\ episodes' = episodes
    BY <1>2 DEF ProcessAnomaly
  <2>2. episodes <= recoveries
    <3>1. CASE inEpisode BY <1>0, <3>1
    <3>2. CASE ~ inEpisode BY <1>0, <3>2
    <3> QED BY <3>1, <3>2
  <2> QED BY <1>0, <2>1, <2>2 DEF EpisodeHasFault
<1>3. ASSUME ResetPipeline PROVE EpisodeHasFault'
  BY <1>3 DEF EpisodeHasFault, ResetPipeline, ResetPolicy
<1>4. CASE Reset BY <1>3, <1>4 DEF Reset
<1>5. ASSUME NEW s \in Setting, Initialize(s) PROVE EpisodeHasFault'
  BY <1>3, <1>5 DEF Initialize
<1>6. CASE UNCHANGED vars
  <2>1. UNCHANGED <<episodes, recoveries, inEpisode>> BY <1>6 DEF vars
  <2> QED BY <2>1 DEF EpisodeHasFault
<1> QED BY <1>1, <1>2, <1>4, <1>5, <1>6 DEF Next

(* Epsilon is decayed when its counter reaches a multiple of the interval. *)
LEMMA ScheduleKept ==
  TypeOK /\ epsilon = Decayed(setting, Decays) /\ [Next]_vars
    => epsilon' = Decayed(setting', Decays')
<1> SUFFICES ASSUME TypeOK, epsilon = Decayed(setting, Decays), [Next]_vars
             PROVE  epsilon' = Decayed(setting', Decays')
  OBVIOUS
<1> DEFINE i == setting.interval
<1>0. /\ i \in Nat /\ i > 0 /\ updates \in Nat /\ episodes \in Nat
      /\ setting.mode \in {"interval", "episode", "other"}
  <2>1. setting \in PolicySetting BY DEF TypeOK
  <2>2. i \in Nat /\ i > 0 BY <2>1 DEF PolicySetting
  <2>3. setting.mode \in {"interval", "episode", "other"} BY <2>1 DEF PolicySetting
  <2> QED BY <2>2, <2>3, TypesAtHand
<1>a. /\ setting.mode = "interval" => Decays = updates \div i
      /\ setting.mode = "episode" => Decays = episodes \div i
      /\ setting.mode = "other" => Decays = 0
  BY DEF Decays
<1>b. setting' = setting =>
        /\ setting.mode = "interval" => Decays' = updates' \div i
        /\ setting.mode = "episode" => Decays' = episodes' \div i
        /\ setting.mode = "other" => Decays' = 0
  BY DEF Decays
<1>c. \A e : DecayEpsilon(e) = DecayOnce(setting, e) BY DEF DecayEpsilon, DecayOnce
<1>d. \A k \in Nat : Decayed(setting, k + 1) = DecayOnce(setting, Decayed(setting, k))
  BY DecayedNext
<1>e. \A u \in Nat : /\ u \div i \in Nat
                     /\ (u + 1) % i = 0 => (u + 1) \div i = u \div i + 1
                     /\ (u + 1) % i # 0 => (u + 1) \div i = u \div i
  <2> HIDE DEF i
  <2> QED BY <1>0, QuotientMoves
<1>1. ASSUME NEW n \in Node, ProcessNormal(n) PROVE epsilon' = Decayed(setting', Decays')
  <2>1. setting' = setting /\ updates' = updates BY <1>1 DEF ProcessNormal
  <2>2. CASE inEpisode
    <3>1. /\ episodes' = episodes + 1
          /\ epsilon' = IF setting.mode = "episode" /\ (episodes + 1) % i = 0
                        THEN DecayEpsilon(epsilon) ELSE epsilon
      BY <1>1, <2>2, Zenon DEF ProcessNormal, StepEpisode
    <3> HIDE DEF i
    <3>2. CASE setting.mode = "episode" /\ (episodes + 1) % i = 0
      <4>1. Decays = episodes \div i /\ Decays' = episodes \div i + 1 /\ Decays \in Nat
        BY <1>0, <1>a, <1>b, <1>e, <2>1, <3>1, <3>2
      <4>2. epsilon' = DecayOnce(setting, epsilon) BY <1>c, <3>1, <3>2
      <4>3. Decays' = Decays + 1 BY <4>1
      <4> QED BY <1>d, <2>1, <4>1, <4>2, <4>3
    <3>3. CASE ~ (setting.mode = "episode" /\ (episodes + 1) % i = 0)
      <4>1. Decays' = Decays
        <5>1. CASE setting.mode = "episode" BY <1>0, <1>a, <1>b, <1>e, <2>1, <3>1, <3>3, <5>1
        <5>2. CASE setting.mode # "episode" BY <1>0, <1>a, <1>b, <2>1, <5>2
        <5> QED BY <5>1, <5>2
      <4>2. epsilon' = epsilon BY <3>1, <3>3
      <4> QED BY <2>1, <4>1, <4>2
    <3> QED BY <3>2, <3>3
  <2>3. CASE ~ inEpisode
    <3>1. UNCHANGED <<episodes, epsilon>> BY <1>1, <2>3 DEF ProcessNormal
    <3>2. Decays' = Decays BY <2>1, <3>1 DEF Decays
    <3> QED BY <2>1, <3>1, <3>2
  <2> QED BY <2>2, <2>3
<1>2. ASSUME NEW n \in Node, NEW d \in Demand, NEW c \in Cause, NEW a \in Action,
             ProcessAnomaly(n, d, c, a)
      PROVE  epsilon' = Decayed(setting', Decays')
  <2>1. /\ setting' = setting /\ episodes' = episodes /\ updates' = updates + 1
        /\ epsilon' = IF setting.mode = "interval" /\ (updates + 1) % i = 0
                      THEN DecayEpsilon(epsilon) ELSE epsilon
    BY <1>2, Zenon DEF ProcessAnomaly, UpdatePolicy
  <2> HIDE DEF i
  <2>2. CASE setting.mode = "interval" /\ (updates + 1) % i = 0
    <3>1. Decays = updates \div i /\ Decays' = updates \div i + 1 /\ Decays \in Nat
      BY <1>0, <1>a, <1>b, <1>e, <2>1, <2>2
    <3>2. epsilon' = DecayOnce(setting, epsilon) BY <1>c, <2>1, <2>2
    <3>3. Decays' = Decays + 1 BY <3>1
    <3> QED BY <1>d, <2>1, <3>1, <3>2, <3>3
  <2>3. CASE ~ (setting.mode = "interval" /\ (updates + 1) % i = 0)
    <3>1. Decays' = Decays
      <4>1. CASE setting.mode = "interval" BY <1>0, <1>a, <1>b, <1>e, <2>1, <2>3, <4>1
      <4>2. CASE setting.mode # "interval" BY <1>0, <1>a, <1>b, <2>1, <4>2
      <4> QED BY <4>1, <4>2
    <3>2. epsilon' = epsilon BY <2>1, <2>3
    <3> QED BY <2>1, <3>1, <3>2
  <2> QED BY <2>2, <2>3
<1>3. ASSUME ResetPipeline, setting' \in PolicySetting, setting'.epsilon = setting.epsilon
      PROVE  epsilon' = Decayed(setting', Decays')
  <2>1. updates' = 0 /\ episodes' = 0 /\ epsilon' = setting.epsilon
    BY <1>3 DEF ResetPipeline, ResetPolicy
  <2>2. Decays' = 0
    <3>1. /\ setting'.mode \in {"interval", "episode", "other"}
          /\ setting'.interval \in Nat /\ setting'.interval > 0
      BY <1>3 DEF PolicySetting
    <3>2. 0 \div setting'.interval = 0 BY <3>1
    <3> QED BY <2>1, <3>1, <3>2 DEF Decays
  <2>3. Decayed(setting', 0) = setting'.epsilon BY DecayedNext
  <2> QED BY <1>3, <2>1, <2>2, <2>3
<1>4. CASE Reset
  <2>1. setting' = setting BY <1>4 DEF Reset
  <2> QED BY <1>3, <1>4, <2>1 DEF Reset, TypeOK
<1>5. ASSUME NEW s \in Setting, Initialize(s) PROVE epsilon' = Decayed(setting', Decays')
  <2>1. s \in PolicySetting /\ setting.epsilon \in Share
    BY ConstantTypes DEF TypeOK, PolicySetting
  <2>2. setting' = [s EXCEPT !.epsilon = setting.epsilon] BY <1>5 DEF Initialize
  <2>3. setting' \in PolicySetting /\ setting'.epsilon = setting.epsilon
    BY <2>1, <2>2 DEF PolicySetting
  <2> QED BY <1>3, <1>5, <2>3 DEF Initialize
<1>6. CASE UNCHANGED vars
  <2>1. UNCHANGED <<setting, epsilon, updates, episodes>> BY <1>6 DEF vars
  <2>2. Decays' = Decays BY <2>1 DEF Decays
  <2> QED BY <2>1, <2>2
<1> QED BY <1>1, <1>2, <1>4, <1>5, <1>6 DEF Next

-------------------------------------------------------------------------------
(* A fresh pipeline satisfies the invariant.                               *)
LEMMA InitialKInv == Init => KInv
<1> SUFFICES ASSUME Init PROVE KInv OBVIOUS
<1>1. TypeOK BY InitTypes
<1>2. table = UntriedTable /\ updates = 0 /\ episodes = 0 /\ recoveries = 0
      /\ inEpisode = FALSE /\ last = NoOutcome /\ epsilon = setting.epsilon
      /\ shadow = [n \in Node |-> H!Unmitigated]
  BY DEF Init
<1>3. CountInv
  <2>1. \A p \in Cause \X Action : table[p].successes <= table[p].attempts
    BY <1>2, UntriedType
  <2>2. recoveries = SumOver(AttemptsOf(table), Cause \X Action)
    BY <1>2, UntriedSums
  <2> QED BY <1>2, <2>1, <2>2, Zenon DEF CountInv
<1>4. EpisodeHasFault BY <1>2 DEF EpisodeHasFault
<1>6. epsilon = Decayed(setting, Decays)
  <2>1. /\ setting.mode \in {"interval", "episode", "other"}
        /\ setting.interval \in Nat /\ setting.interval > 0
    BY <1>1 DEF TypeOK, PolicySetting
  <2>2. 0 \div setting.interval = 0 BY <2>1
  <2>3. Decays = 0 BY <1>2, <2>1, <2>2 DEF Decays
  <2> QED BY <1>2, <2>3, DecayedNext
<1> QED BY <1>1, <1>3, <1>4, <1>6 DEF KInv

(* Every operation of the pipeline keeps the invariant.                    *)
LEMMA KInvKept == KInv /\ [Next]_vars => KInv'
<1> SUFFICES ASSUME KInv, [Next]_vars PROVE KInv' OBVIOUS
<1>1. /\ TypeOK /\ CountInv /\ EpisodeHasFault
      /\ epsilon = Decayed(setting, Decays)
  BY DEF KInv
<1>2. TypeOK' /\ CountInv' /\ EpisodeHasFault'
  BY <1>1, TypesKept, CountsKept, EpisodesKept
<1>3. epsilon' = Decayed(setting', Decays') BY <1>1, ScheduleKept
<1> QED BY <1>2, <1>3 DEF KInv

(* The experiment of main.py drives the pipeline as any caller may: what   *)
(* holds of Spec holds under the experiment.                               *)
THEOREM ExperimentDrivesPipeline == ExperimentSpec => Spec
<1>1. ExperimentInit => Init BY DEF ExperimentInit
<1>2. [ExperimentNext]_experimentVars => [Next]_vars
  <2> SUFFICES ASSUME [ExperimentNext]_experimentVars PROVE [Next]_vars OBVIOUS
  <2>1. CASE report = NoReport /\ Next /\ UNCHANGED report BY <2>1
  <2>2. CASE StreamContext
    BY <2>2, Zenon DEF StreamContext, StreamNormal, StreamAnomaly, Next
  <2>3. CASE UNCHANGED experimentVars BY <2>3 DEF experimentVars
  <2> QED BY <2>1, <2>2, <2>3, Zenon DEF ExperimentNext
<1> QED BY <1>1, <1>2, PTL DEF ExperimentSpec, Spec

(* What the theorems about the pipeline are drawn from.                    *)
LEMMA Invariant == Spec \/ ExperimentSpec => []KInv
<1>1. Spec => []KInv BY InitialKInv, KInvKept, PTL DEF Spec
<1> QED BY <1>1, ExperimentDrivesPipeline, PTL

(* Every variable keeps its type: no efficacy, benefit, reward or epsilon  *)
(* leaves its range, and no measured metric is negative.                   *)
THEOREM TypeCorrect == Spec \/ ExperimentSpec => []TypeOK
<1>1. KInv => TypeOK BY DEF KInv
<1> QED BY <1>1, Invariant, PTL

(* The counters of the policy and the pipeline tell of one history: as     *)
(* many updates as recoveries, as many recoveries as attempts in the       *)
(* table, and the last outcome among them.                                 *)
THEOREM CountersAgree == Spec \/ ExperimentSpec => []StatsAgree
<1>1. KInv => StatsAgree
  <2> SUFFICES ASSUME KInv PROVE StatsAgree OBVIOUS
  <2>1. CountInv /\ DOMAIN table = Cause \X Action
    <3>1. TypeOK /\ CountInv BY DEF KInv
    <3> QED BY <3>1, TypesAtHand
  <2>2. FoldFunctionOnSet(LAMBDA e, k : e.attempts + k, 0, table, DOMAIN table)
          = SumOver([p \in DOMAIN table |-> table[p].attempts], DOMAIN table)
    BY FoldAttempts
  <2>3. FoldFunction(LAMBDA e, k : e.attempts + k, 0, table)
          = SumOver(AttemptsOf(table), DOMAIN table)
    BY <2>2, Zenon DEF FoldFunction, AttemptsOf
  <2> QED BY <2>1, <2>3, Zenon DEF CountInv, StatsAgree
<1> QED BY <1>1, Invariant, PTL

(* No episode is closed that had no anomaly of its own.                    *)
THEOREM EpisodesHaveFaults == Spec \/ ExperimentSpec => []EpisodeHasFault
<1>1. KInv => EpisodeHasFault BY DEF KInv
<1> QED BY <1>1, Invariant, PTL

(* Epsilon is what the constructor set, decayed as often as the counter of *)
(* its mode has filled an interval since the last reset.                   *)
THEOREM EpsilonScheduled == Spec \/ ExperimentSpec => []EpsilonSchedule
<1>1. KInv => EpsilonSchedule BY ScheduleByDecays, Zenon DEF KInv
<1> QED BY <1>1, Invariant, PTL

(* An action that could not be carried out is penalised and never counted  *)
(* as a success, and the efficacies are not raised above the penalty.      *)
THEOREM RejectedPenalised == Spec \/ ExperimentSpec => RejectedNeverCredited
<1> DEFINE Rejected ==
      recoveries' > recoveries /\ ~ Applied(last'.node) =>
        /\ ~ last'.success /\ last'.reward <= 0
        /\ \A p \in DOMAIN table :
             /\ table'[p].successes = table[p].successes
             /\ table'[p].q <= Max({table[p].q, last'.reward})
<1>1. KInv /\ [Next]_vars => [Rejected]_vars
  <2> SUFFICES ASSUME TypeOK, [Next]_vars,
                      recoveries' > recoveries, ~ Applied(last'.node)
               PROVE  /\ ~ last'.success /\ last'.reward <= 0
                      /\ \A p \in DOMAIN table :
                           /\ table'[p].successes = table[p].successes
                           /\ table'[p].q <= Max({table[p].q, last'.reward})
    BY Zenon DEF KInv
  <2>1. recoveries \in Nat /\ DOMAIN table = Cause \X Action
        /\ table \in [Cause \X Action -> Entry]
    BY TypesAtHand
  <2>2. recoveries' # recoveries /\ recoveries' # 0 BY <2>1
  <2>3. ~ (Reset \/ \E s \in Setting : Initialize(s))
    BY <2>2, Zenon DEF Reset, Initialize, ResetPipeline
  <2>4. ~ \E n \in Node : ProcessNormal(n) BY <2>2, Zenon DEF ProcessNormal
  <2>5. ~ UNCHANGED vars BY <2>2 DEF vars
  <2>6. PICK n \in Node, d \in Demand, c \in Cause, a \in Action :
          ProcessAnomaly(n, d, c, a)
    BY <2>3, <2>4, <2>5, Zenon DEF Next
  <2> DEFINE o == <<c, a>>
  <2>7. MovesOne(n, c, a, o) BY <2>6, LearnsOne
  <2> HIDE DEF o
  <2>8. ~ Applied(n) BY <2>7, Zenon DEF MovesOne
  <2>9. ~ last'.success /\ last'.reward <= 0 BY <2>7, <2>8, Zenon DEF MovesOne
  <2>10. table'[o].successes = table[o].successes
    BY <2>7, <2>9, Zenon DEF MovesOne
  <2>11. /\ table'[o].q <= Max({table[o].q, last'.reward})
         /\ \A p \in Cause \X Action : p # o => table'[p] = table[p]
         /\ last' \in Outcome
    BY <2>7, Zenon DEF MovesOne
  <2>12. \A p \in Cause \X Action : table[p].q <= Max({table[p].q, last'.reward})
    <3> TAKE p \in Cause \X Action
    <3>1. table[p].q \in Score /\ last'.reward \in Score
      BY <2>1, <2>11 DEF Entry, Outcome
    <3>2. \A x, y \in Score : x <= Max({x, y})
      <4> TAKE x, y \in Score
      <4>1. x \in Int /\ y \in Int BY DEF Score
      <4>2. Max({x, y}) \in {x, y} /\ Max({x, y}) >= x BY <4>1, MaxOfTwo
      <4> QED BY <4>1, <4>2
    <3> QED BY <3>1, <3>2
  <2> QED BY <2>1, <2>9, <2>10, <2>11, <2>12, Zenon
<1>2. Spec => [][Rejected]_vars
  <2>1. Spec => []KInv BY Invariant
  <2> QED BY <1>1, <2>1, PTL DEF Spec
<1>3. RejectedNeverCredited <=> [][Rejected]_vars BY DEF RejectedNeverCredited
<1> QED BY <1>2, <1>3, ExperimentDrivesPipeline, PTL

-------------------------------------------------------------------------------
(* The report of an experiment.                                            *)
Acting == {p \in Cause \X Action : p[2] # "NO_ACTION"}

Counts ==
  [tp : Nat, fp : Nat, fn : Nat, tn : Nat,
   attempts : Nat, successes : Nat, applied : Nat,
   reward : Int, benefit : Int, cost : Int]

ReportInv ==
  report # NoReport =>
    /\ report \in Counts
    /\ report.tp + report.fp = updates
    /\ report.attempts = SumOver(AttemptsOf(table), Acting)
    /\ report.successes = SumOver(SuccessesOf(table), Acting)
    /\ report.successes <= report.applied /\ report.applied <= report.attempts
    /\ attached /\ report.successes > 0 => DOMAIN simulator # {}

(* A record is counted once, as an alarm if the detector raised one, and   *)
(* its outcome as an attempt if the action does something.                 *)
LEMMA Confronted ==
  ASSUME NEW r \in Counts, NEW truth \in BOOLEAN, NEW verdict \in BOOLEAN
  PROVE  LET s == Confront(r, truth, verdict) IN
         /\ s \in Counts
         /\ s.tp + s.fp = r.tp + r.fp + (IF verdict THEN 1 ELSE 0)
         /\ s.attempts = r.attempts /\ s.successes = r.successes
         /\ s.applied = r.applied
<1>1. CASE truth /\ verdict BY <1>1 DEF Confront, Counts
<1>2. CASE ~ truth /\ verdict BY <1>2 DEF Confront, Counts
<1>3. CASE truth /\ ~ verdict BY <1>3 DEF Confront, Counts
<1>4. CASE ~ truth /\ ~ verdict BY <1>4 DEF Confront, Counts
<1> QED BY <1>1, <1>2, <1>3, <1>4

(* Record moves each counter of the report by what its outcome is worth.   *)
LEMMA Recorded ==
  ASSUME NEW r \in Counts, NEW o \in Outcome
  PROVE  LET s == Record(r, o)
             One(b) == IF o.action # "NO_ACTION" /\ b THEN 1 ELSE 0
         IN  /\ s \in Counts
             /\ s.tp = r.tp /\ s.fp = r.fp
             /\ s.attempts = r.attempts + One(TRUE)
             /\ s.successes = r.successes + One(o.success)
             /\ s.applied = r.applied + One(o.applied)
<1>1. CASE o.action = "NO_ACTION" BY <1>1 DEF Record, Counts
<1>2. CASE o.action # "NO_ACTION"
  <2>1. o.reward \in Int /\ o.benefit \in Int
    <3>1. o.reward \in Score /\ o.benefit \in Score BY DEF Outcome
    <3>2. \A x \in Score : x \in Int BY DEF Score
    <3> QED BY <3>1, <3>2, Zenon
  <2>2. Cost[o.action] \in Int
    <3>1. o.action \in Action BY DEF Outcome
    <3> QED BY <3>1, ConstantTypes
  <2> DEFINE a == IF o.applied THEN 1 ELSE 0
             b == IF o.success THEN 1 ELSE 0
  <2>3. a \in Nat /\ b \in Nat OBVIOUS
  <2>4. Record(r, o) =
          [r EXCEPT !.attempts = @ + 1, !.applied = @ + a, !.successes = @ + b,
                    !.reward = @ + o.reward, !.benefit = @ + o.benefit,
                    !.cost = @ + Cost[o.action]]
    BY <1>2, Zenon DEF Record
  <2> HIDE DEF a, b
  <2>5. /\ Record(r, o) \in Counts
        /\ Record(r, o).tp = r.tp /\ Record(r, o).fp = r.fp
        /\ Record(r, o).attempts = r.attempts + 1
        /\ Record(r, o).successes = r.successes + b
        /\ Record(r, o).applied = r.applied + a
    <3>1. /\ r.attempts + 1 \in Nat /\ r.applied + a \in Nat
          /\ r.successes + b \in Nat /\ r.reward + o.reward \in Int
          /\ r.benefit + o.benefit \in Int /\ r.cost + Cost[o.action] \in Int
      BY <2>1, <2>2, <2>3 DEF Counts
    <3> DEFINE x1 == r.attempts + 1       x2 == r.applied + a
               x3 == r.successes + b      x4 == r.reward + o.reward
               x5 == r.benefit + o.benefit  x6 == r.cost + Cost[o.action]
    <3>2. Record(r, o) =
            [r EXCEPT !.attempts = x1, !.applied = x2, !.successes = x3,
                      !.reward = x4, !.benefit = x5, !.cost = x6]
      BY <2>4, Zenon
    <3>3. /\ x1 \in Nat /\ x2 \in Nat /\ x3 \in Nat
          /\ x4 \in Int /\ x5 \in Int /\ x6 \in Int
      BY <3>1, Zenon
    <3>4. x1 = r.attempts + 1 /\ x2 = r.applied + a /\ x3 = r.successes + b
      OBVIOUS
    <3> HIDE DEF x1, x2, x3, x4, x5, x6
    <3>5. /\ Record(r, o) \in Counts
          /\ Record(r, o).tp = r.tp /\ Record(r, o).fp = r.fp
          /\ Record(r, o).attempts = x1 /\ Record(r, o).successes = x3
          /\ Record(r, o).applied = x2
      BY <3>2, <3>3 DEF Counts
    <3> QED BY <3>4, <3>5, Zenon
  <2> QED BY <1>2, <2>5, Zenon DEF a, b
<1> QED BY <1>1, <1>2

(* Every step of an experiment keeps report and policy in agreement.       *)
LEMMA ReportKept ==
  TypeOK /\ ReportInv /\ [ExperimentNext]_experimentVars => ReportInv'
<1> SUFFICES ASSUME TypeOK, ReportInv, [ExperimentNext]_experimentVars
             PROVE  ReportInv'
  OBVIOUS
<1>1. CASE report = NoReport /\ Next /\ UNCHANGED report BY <1>1 DEF ReportInv
<1>2. CASE UNCHANGED experimentVars
  <2>1. UNCHANGED <<report, updates, table, attached, simulator>> BY <1>2 DEF experimentVars, vars
  <2> QED BY <2>1 DEF ReportInv
<1>3. CASE report # NoReport /\ calls < MaxStream /\ StreamContext
  <2>1. /\ report \in Counts
        /\ report.tp + report.fp = updates
        /\ report.attempts = SumOver(AttemptsOf(table), Acting)
        /\ report.successes = SumOver(SuccessesOf(table), Acting)
        /\ report.successes <= report.applied /\ report.applied <= report.attempts
        /\ attached /\ report.successes > 0 => DOMAIN simulator # {}
    BY <1>3 DEF ReportInv
  <2>2. ASSUME NEW n \in Node, StreamNormal(n) PROVE ReportInv'
    <3>1. UNCHANGED <<updates, table, attached, simulator>>
      BY <2>2 DEF StreamNormal, ProcessNormal
    <3>2. PICK truth \in BOOLEAN : report' = Confront(report, truth, FALSE)
      BY <2>2 DEF StreamNormal
    <3>3. /\ report' \in Counts
          /\ report'.tp + report'.fp = report.tp + report.fp + (IF FALSE THEN 1 ELSE 0)
          /\ report'.attempts = report.attempts /\ report'.successes = report.successes
          /\ report'.applied = report.applied
      BY <2>1, <3>2, Confronted
    <3>4. report'.tp + report'.fp = report.tp + report.fp
      BY <2>1, <3>3 DEF Counts
    <3> QED BY <2>1, <3>1, <3>3, <3>4 DEF ReportInv
  <2>3. ASSUME NEW n \in Node, NEW d \in Demand, NEW c \in Cause, NEW a \in Action,
               StreamAnomaly(n, d, c, a)
        PROVE  ReportInv'
    <3>1. ProcessAnomaly(n, d, c, a) BY <2>3 DEF StreamAnomaly
    <3>2. PICK truth \in BOOLEAN :
            report' = Record(Confront(report, truth, TRUE), last')
      BY <2>3 DEF StreamAnomaly
    <3> DEFINE p == <<c, a>>
               q == Confront(report, truth, TRUE)
    <3>3. MovesOne(n, c, a, p) BY <3>1, LearnsOne
    <3>4. /\ last' \in Outcome /\ last'.action = a /\ last'.applied = Applied(n)
          /\ last'.success => last'.applied
          /\ last'.success => Applied(n)
      BY <3>3, Zenon DEF MovesOne
    <3>5. /\ q \in Counts
          /\ q.tp + q.fp = report.tp + report.fp + (IF TRUE THEN 1 ELSE 0)
          /\ q.attempts = report.attempts /\ q.successes = report.successes
          /\ q.applied = report.applied
      BY <2>1, Confronted
    <3> HIDE DEF q
    <3> DEFINE acts == IF a # "NO_ACTION" THEN 1 ELSE 0
               wins == IF a # "NO_ACTION" /\ last'.success THEN 1 ELSE 0
               done == IF a # "NO_ACTION" /\ last'.applied THEN 1 ELSE 0
    <3>6. /\ report' \in Counts
          /\ report'.tp = q.tp /\ report'.fp = q.fp
          /\ report'.attempts = q.attempts + acts
          /\ report'.successes = q.successes + wins
          /\ report'.applied = q.applied + done
      <4>1. report' = Record(q, last') BY <3>2 DEF q
      <4>2. /\ report' \in Counts
            /\ report'.tp = q.tp /\ report'.fp = q.fp
            /\ report'.attempts = q.attempts
                 + (IF last'.action # "NO_ACTION" /\ TRUE THEN 1 ELSE 0)
            /\ report'.successes = q.successes
                 + (IF last'.action # "NO_ACTION" /\ last'.success THEN 1 ELSE 0)
            /\ report'.applied = q.applied
                 + (IF last'.action # "NO_ACTION" /\ last'.applied THEN 1 ELSE 0)
        BY <3>4, <3>5, <4>1, Recorded
      <4>3. acts = IF a # "NO_ACTION" /\ TRUE THEN 1 ELSE 0 OBVIOUS
      <4> HIDE DEF acts
      <4> QED BY <3>4, <4>2, <4>3, Zenon
    <3>7. /\ acts \in {0, 1} /\ wins \in {0, 1} /\ done \in {0, 1}
          /\ wins <= done /\ done <= acts
      <4>1. CASE last'.success BY <3>4, <4>1
      <4>2. CASE ~ last'.success BY <4>2
      <4> QED BY <4>1, <4>2
    <3>8. /\ SumOver(AttemptsOf(table'), Acting) = SumOver(AttemptsOf(table), Acting) + acts
          /\ SumOver(SuccessesOf(table'), Acting) = SumOver(SuccessesOf(table), Acting) + wins
      <4>1. p \in Acting <=> a # "NO_ACTION"
        <5>1. p \in Cause \X Action /\ p[2] = a OBVIOUS
        <5> QED BY <5>1, Zenon DEF Acting
      <4>2. Acting \subseteq Cause \X Action /\ IsFiniteSet(Acting)
        BY PairsFinite DEF Acting
      <4>3. /\ SumOver(AttemptsOf(table'), Acting)
                 = SumOver(AttemptsOf(table), Acting) + (IF <<c, a>> \in Acting THEN 1 ELSE 0)
            /\ SumOver(SuccessesOf(table'), Acting)
                 = SumOver(SuccessesOf(table), Acting)
                     + (IF <<c, a>> \in Acting /\ last'.success THEN 1 ELSE 0)
        BY <3>1, <4>2, SumsMove
      <4> QED BY <4>1, <4>3, Zenon
    <3>9. updates' = updates + 1 /\ attached' = attached
          /\ DOMAIN simulator' = DOMAIN simulator
      BY <3>1 DEF ProcessAnomaly, UpdatePolicy, Execute
    <3>10. /\ report.tp \in Nat /\ report.fp \in Nat /\ report.attempts \in Nat
           /\ report.successes \in Nat /\ report.applied \in Nat
           /\ updates \in Nat
      BY <2>1, TypesAtHand DEF Counts
    <3>11. report'.tp + report'.fp = updates'
      BY <2>1, <3>5, <3>6, <3>9, <3>10
    <3>12. /\ report'.attempts = SumOver(AttemptsOf(table'), Acting)
           /\ report'.successes = SumOver(SuccessesOf(table'), Acting)
      BY <2>1, <3>5, <3>6, <3>8, Zenon
    <3>13. report'.successes <= report'.applied /\ report'.applied <= report'.attempts
      <4> HIDE DEF acts, wins, done
      <4> QED BY <2>1, <3>5, <3>6, <3>7, <3>10
    <3>14. ASSUME attached', report'.successes > 0 PROVE DOMAIN simulator' # {}
      <4>1. attached BY <3>9, <3>14
      <4>2. CASE last'.success
        <5>1. n \in DOMAIN simulator BY <3>4, <4>1, <4>2, Zenon DEF Applied
        <5> QED BY <3>9, <5>1
      <4>3. CASE ~ last'.success
        <5>1. wins = 0 BY <4>3
        <5> HIDE DEF wins
        <5>2. report.successes > 0 BY <3>5, <3>6, <3>10, <3>14, <5>1
        <5> QED BY <2>1, <3>9, <4>1, <5>2
      <4> QED BY <4>2, <4>3
    <3> QED BY <3>6, <3>11, <3>12, <3>13, <3>14, Zenon DEF ReportInv
  <2> QED BY <1>3, <2>2, <2>3 DEF StreamContext
<1> QED BY <1>1, <1>2, <1>3, Zenon DEF ExperimentNext

(* Before the first record report and policy agree on nothing.             *)
LEMMA ReportInitial == ExperimentInit => ReportInv
<1> SUFFICES ASSUME ExperimentInit, report # NoReport PROVE ReportInv
  BY DEF ReportInv
<1>1. report = EmptyReport /\ table = UntriedTable /\ updates = 0
  BY DEF ExperimentInit, Init
<1>2. /\ SumOver(AttemptsOf(table), Acting) = 0
      /\ SumOver(SuccessesOf(table), Acting) = 0
  <2>1. Acting \subseteq Cause \X Action /\ IsFiniteSet(Acting)
    BY PairsFinite DEF Acting
  <2> QED BY <1>1, <2>1, UntriedSums
<1>3. /\ report \in Counts /\ report.tp = 0 /\ report.fp = 0
      /\ report.attempts = 0 /\ report.successes = 0 /\ report.applied = 0
  BY <1>1 DEF EmptyReport, Counts
<1> QED BY <1>1, <1>2, <1>3 DEF ReportInv

(* The row of an experiment tells what the policy has learned from: its    *)
(* alarms, its attempts, its successes, and a full rate or a physical      *)
(* measurement only where actions were carried out.                        *)
THEOREM ReportTellsPolicy == ExperimentSpec => []ReportMatchesPolicy
<1>1. TypeOK /\ ReportInv => ReportMatchesPolicy
  <2> SUFFICES ASSUME TypeOK, ReportInv, report # NoReport
               PROVE  /\ report.tp + report.fp = updates
                      /\ DetectionRow.episodes = Tries(LAMBDA e : e.attempts)
                      /\ DetectionRow.successful = Tries(LAMBDA e : e.successes)
                      /\ DetectionRow.successRate = FullRate =>
                           report.applied = report.attempts
                      /\ DetectionRow.measurement = "PHYSICAL_SIMULATION"
                             /\ DetectionRow.successful > 0 =>
                           DOMAIN simulator # {}
                      /\ DetectionRow.episodes > 0 =>
                           SuccessesOnFile = DetectionRow.successful
    BY ZenonT(60) DEF ReportMatchesPolicy
  <2>1. /\ report \in Counts
        /\ report.tp + report.fp = updates
        /\ report.attempts = SumOver(AttemptsOf(table), Acting)
        /\ report.successes = SumOver(SuccessesOf(table), Acting)
        /\ report.successes <= report.applied /\ report.applied <= report.attempts
        /\ attached /\ report.successes > 0 => DOMAIN simulator # {}
    BY DEF ReportInv
  <2> DEFINE row == DetectionRow
             S == {p \in DOMAIN table : p[2] # "NO_ACTION"}
  <2>2. /\ row.episodes = report.attempts /\ row.successful = report.successes
        /\ row.successRate = M!Ratio(report.successes, Max({1, report.attempts}))
        /\ row.measurement = IF attached THEN "PHYSICAL_SIMULATION"
                                         ELSE "SHADOW_SYNTHETIC_PROXY"
    BY DEF DetectionRow
  <2> HIDE DEF row
  <2>3. S = Acting
    <3>1. DOMAIN table = Cause \X Action BY TypesAtHand
    <3> QED BY <3>1, Zenon DEF Acting
  <2>4. /\ Tries(LAMBDA e : e.attempts) = SumOver(AttemptsOf(table), Acting)
        /\ Tries(LAMBDA e : e.successes) = SumOver(SuccessesOf(table), Acting)
    <3>1. /\ FoldFunctionOnSet(LAMBDA e, k : e.attempts + k, 0, table, S)
               = SumOver([p \in DOMAIN table |-> table[p].attempts], S)
          /\ FoldFunctionOnSet(LAMBDA e, k : e.successes + k, 0, table, S)
               = SumOver([p \in DOMAIN table |-> table[p].successes], S)
      BY FoldAttempts, FoldSuccesses
    <3>2. /\ Tries(LAMBDA e : e.attempts)
               = SumOver([p \in DOMAIN table |-> table[p].attempts], S)
          /\ Tries(LAMBDA e : e.successes)
               = SumOver([p \in DOMAIN table |-> table[p].successes], S)
      BY <3>1, Zenon DEF Tries
    <3> QED BY <2>3, <3>2, Zenon DEF AttemptsOf, SuccessesOf
  <2>5. ASSUME row.successRate = FullRate PROVE report.applied = report.attempts
    <3> DEFINE w == Max({1, report.attempts})
    <3>1. /\ report.attempts \in Nat /\ report.successes \in Nat
          /\ report.applied \in Nat
      BY <2>1 DEF Counts
    <3>2. w \in {1, report.attempts} /\ w >= 1 /\ w >= report.attempts
      <4>1. 1 \in Int /\ report.attempts \in Int BY <3>1
      <4> QED BY <4>1, MaxOfTwo, Zenon
    <3> HIDE DEF w
    <3>3. w \in Nat /\ w > 0 BY <3>1, <3>2
    <3>4. (10000 * report.successes) \div w = 10000
      BY <2>2, <2>5, <3>3 DEF M!Ratio, w, FullRate
    <3>5. \A s \in Nat, v \in Nat : v > 0 /\ (10000 * s) \div v = 10000 => s >= v
      BY SMT
    <3>6. report.successes >= w BY <3>1, <3>3, <3>4, <3>5
    <3> QED BY <2>1, <3>1, <3>2, <3>3, <3>6
  <2>6. row.episodes > 0 => SuccessesOnFile = row.successful
    <3>1. report.attempts > 0 => report.attempts # 0 BY <2>1 DEF Counts
    <3> QED BY <2>2, <3>1 DEF SuccessesOnFile
  <2>7. row.measurement = "PHYSICAL_SIMULATION" => attached BY <2>2
  <2>8. row.episodes = Tries(LAMBDA e : e.attempts)
    BY <2>1, <2>2, <2>4, Zenon
  <2>9. row.successful = Tries(LAMBDA e : e.successes)
    BY <2>1, <2>2, <2>4, Zenon
  <2>10. row.measurement = "PHYSICAL_SIMULATION" /\ row.successful > 0 =>
           DOMAIN simulator # {}
    BY <2>1, <2>2, <2>7, Zenon
  <2>11. row = DetectionRow BY DEF row
  <2>12. DetectionRow.successRate = FullRate => report.applied = report.attempts
    BY <2>5, <2>11
  <2> QED BY <2>1, <2>6, <2>8, <2>9, <2>10, <2>11, <2>12, ZenonT(60)
<1>2. ExperimentSpec => []ReportInv
  <2>1. ExperimentSpec => []TypeOK BY TypeCorrect
  <2> QED BY <2>1, ReportInitial, ReportKept, PTL DEF ExperimentSpec
<1> QED BY <1>1, <1>2, TypeCorrect, PTL

===============================================================================
