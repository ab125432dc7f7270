---------------------------- MODULE CausalFT_proofs ----------------------------
(***************************************************************************)
(* Proofs about CausalFT, for every set of nodes, window size and bound on *)
(* the records and streams.                                                *)
(*                                                                         *)
(* A node remembers, in the state the policy decides on, exactly what the  *)
(* log says of it: when its last cooldown ends, how often it was treated   *)
(* and whether it was evacuated.  It holds across the resets of a pipeline *)
(* that no longer shares that state, where the stream positions start      *)
(* again but neither the log nor the nodes do.                             *)
(***************************************************************************)
EXTENDS CausalFT, ProofLemmas, SequenceTheorems

(* Every logged decision on a node lies, with its cooldown, before the end *)
(* of the cooldown of the node.                                            *)
CooldownsLogged ==
  \A i \in DOMAIN executed :
    executed[i].at + Cooldown(executed[i].action)
      <= nodes[executed[i].node].cooldownUntil

(* While the log is complete a node has as many faults as decisions.       *)
FaultsLogged ==
  Complete => \A n \in Simulated :
                nodes[n].faults = Cardinality(DecisionsOn(n))

(* A node whose anomalies were acted upon has a fault to show for it.      *)
SpellsCounted ==
  \A n \in Node : spell[n] = "acted" => nodes[n].faults > 0

(* A node with a cooldown was treated; and while the policy is reset with  *)
(* the pipeline its log holds decisions of the current stream only.        *)
SilenceTraced ==
  /\ \A n \in Simulated : nodes[n].cooldownUntil > 0 => nodes[n].faults > 0
  /\ shared => \A i \in DOMAIN executed : executed[i].stream = stream

CInv ==
  /\ TypeOK
  /\ SpellsCounted /\ SilenceTraced
  /\ records + position <= MaxRecords
  /\ CooldownsLogged /\ CooldownHonoured
  /\ FaultsLogged /\ Ladder /\ TasksAccounted

(* Appending to a deque drops its oldest entry only when it is full, and   *)
(* keeps the order of the others.                                          *)
Pushed(s, x, p) ==
  \E d \in {0, 1} :
    /\ Len(p) \in 1 .. WindowSize
    /\ Len(p) = Len(s) + 1 - d
    /\ Len(s) < WindowSize => d = 0
    /\ p[Len(p)] = x
    /\ \A i \in 1 .. Len(p) - 1 : p[i] = s[i + d] /\ i + d \in 1 .. Len(s)

LEMMA PushProperties ==
  ASSUME NEW S, NEW s \in Seq(S), NEW x \in S, Len(s) <= WindowSize
  PROVE  Push(s, x) \in Seq(S) /\ Pushed(s, x, Push(s, x))
<1> DEFINE p == Push(s, x)
<1> SUFFICES p \in Seq(S) /\ Pushed(s, x, p) OBVIOUS
<1>1. WindowSize \in Nat \ {0} /\ Len(s) \in Nat
  BY CausalFTAssumption, LenProperties
<1>2. CASE Len(s) < WindowSize
  <2>1. p = Append(s, x) BY <1>2 DEF Push
  <2> HIDE DEF p
  <2>2. /\ p \in Seq(S) /\ Len(p) = Len(s) + 1 /\ p[Len(s) + 1] = x
        /\ \A i \in 1 .. Len(s) : p[i] = s[i]
    BY <2>1, AppendProperties
  <2> QED BY <1>1, <1>2, <2>2 DEF Pushed
<1>3. CASE ~ (Len(s) < WindowSize)
  <2>1. p = Append(Tail(s), x) BY <1>3 DEF Push
  <2>2. s # <<>> BY <1>1, <1>3
  <2>3. /\ Tail(s) \in Seq(S) /\ Len(Tail(s)) = Len(s) - 1
        /\ \A i \in 1 .. Len(Tail(s)) : Tail(s)[i] = s[i + 1]
    BY <2>2, HeadTailProperties
  <2> HIDE DEF p
  <2>4. /\ p \in Seq(S) /\ Len(p) = Len(Tail(s)) + 1 /\ p[Len(Tail(s)) + 1] = x
        /\ \A i \in 1 .. Len(Tail(s)) : p[i] = Tail(s)[i]
    BY <2>1, <2>3, AppendProperties
  <2>5. Len(p) = Len(s) /\ p[Len(p)] = x BY <1>1, <2>3, <2>4
  <2>6. \A i \in 1 .. Len(p) - 1 : p[i] = s[i + 1] /\ i + 1 \in 1 .. Len(s)
    BY <1>1, <2>3, <2>4
  <2> QED BY <1>1, <1>3, <2>4, <2>5, <2>6 DEF Pushed
<1> QED BY <1>2, <1>3

(* Every action of the policy has a cooldown of its own, and none is zero. *)
LEMMA CooldownType == \A a : Cooldown(a) \in Nat /\ Cooldown(a) > 0
BY DEF Cooldown

(* decide_recovery's ladder: which action the k-th fault of a node gets.   *)
LEMMA ChosenType ==
  ASSUME NEW k \in Nat \ {0}, NEW class \in FaultClass
  PROVE  /\ ChosenAction(k, class) \in Action
         /\ ChosenAction(k, class) = "PREEMPTIVE_TASK_MIGRATION" <=> k >= 3
         /\ ChosenAction(k, class) = "RATE_LIMIT_TRAFFIC" => k = 1
         /\ ChosenAction(k, class) = "ISOLATE_PORT_FLOW" => k = 2
BY DEF ChosenAction, FaultClass, Action

(* A node as the pipeline creates it is well typed.                        *)
LEMMA FreshType == FreshNode \in SimulatedEdgeNode
BY DEF FreshNode, SimulatedEdgeNode, Status

(* A treated node.                                                         *)
LEMMA TreatedType ==
  ASSUME NEW node \in SimulatedEdgeNode, NEW a \in Action, position \in Nat
  PROVE  /\ Treated(node, a) \in SimulatedEdgeNode
         /\ Treated(node, a).faults = node.faults + 1
         /\ Treated(node, a).cooldownUntil = position + Cooldown(a)
         /\ Treated(node, a).tasks =
              IF a = "PREEMPTIVE_TASK_MIGRATION" THEN 0 ELSE node.tasks
BY CooldownType DEF Treated, SimulatedEdgeNode, Status

(* Without decisions and with fresh nodes everything is accounted for.     *)
LEMMA FreshState ==
  ASSUME nodes = [n \in Simulated |-> FreshNode], executed = <<>>
  PROVE  /\ nodes \in [Simulated -> SimulatedEdgeNode]
         /\ executed \in Seq(Decision) /\ Len(executed) <= WindowSize
         /\ CooldownsLogged /\ CooldownHonoured
         /\ FaultsLogged /\ Ladder /\ TasksAccounted /\ SilenceTraced
<1>1. \A n : DecisionsOn(n) = {} BY DEF DecisionsOn
<1>2. nodes \in [Simulated -> SimulatedEdgeNode] BY FreshType
<1>3. FaultsLogged
  <2>1. Cardinality({}) = 0 BY FS_EmptySet
  <2>2. \A n : Cardinality(DecisionsOn(n)) = 0 BY <1>1, <2>1, Zenon
  <2>3. \A n \in Simulated : nodes[n].faults = 0 BY DEF FreshNode
  <2> QED BY <2>2, <2>3 DEF FaultsLogged
<1>4. TasksAccounted BY <1>1 DEF TasksAccounted, FreshNode
<1>5. Ladder /\ CooldownHonoured BY <1>1 DEF Ladder, CooldownHonoured
<1>6. CooldownsLogged BY DEF CooldownsLogged
<1>7. executed \in Seq(Decision) /\ Len(executed) <= WindowSize
  BY CausalFTAssumption, EmptySeq
<1>8. SilenceTraced
  <2>1. \A n \in Simulated : ~ (nodes[n].cooldownUntil > 0) BY DEF FreshNode
  <2> QED BY <2>1 DEF SilenceTraced
<1> QED BY <1>2, <1>3, <1>4, <1>5, <1>6, <1>7, <1>8

(* The pipelines of a fresh process satisfy the invariant.                 *)
LEMMA CInit == Init => CInv
<1> SUFFICES ASSUME Init PROVE CInv OBVIOUS
<1>1. /\ nodes \in [Simulated -> SimulatedEdgeNode]
      /\ executed \in Seq(Decision) /\ Len(executed) <= WindowSize
      /\ CooldownsLogged /\ CooldownHonoured
      /\ FaultsLogged /\ Ladder /\ TasksAccounted /\ SilenceTraced
  BY FreshState DEF Init
<1>2. /\ detected = 0 /\ shared = TRUE /\ lastMitigation = NoMitigation
      /\ position = 0 /\ stream = 1 /\ records = 0
  BY DEF Init
<1>3. spell \in [Node -> Spell] /\ \A n \in Node : spell[n] # "acted"
  BY DEF Init, Spell
<1> QED BY <1>1, <1>2, <1>3, CausalFTAssumption DEF CInv, TypeOK, SpellsCounted

(* The steps that leave the nodes and the log alone.                       *)
LEMMA QuietKept ==
  ASSUME CInv, UNCHANGED <<nodes, executed>>
  PROVE  /\ nodes' \in [Simulated -> SimulatedEdgeNode]
         /\ executed' \in Seq(Decision) /\ Len(executed') <= WindowSize
         /\ CooldownsLogged' /\ CooldownHonoured'
         /\ FaultsLogged' /\ Ladder' /\ TasksAccounted'
<1>1. /\ \A n : DecisionsOn(n)' = DecisionsOn(n)
      /\ Complete' = Complete
  BY DEF DecisionsOn, Complete
<1>2. \A j : Previous(j)' = Previous(j)
  <2> TAKE j
  <2>1. Previous(j)' = Max({i \in DecisionsOn(executed[j].node)' : i < j})
    BY DEF Previous
  <2> QED BY <1>1, <2>1 DEF Previous
<1>3. Ladder' BY <1>1, <1>2 DEF CInv, Ladder
<1> QED BY <1>3 DEF CInv, TypeOK, CooldownsLogged, CooldownHonoured, FaultsLogged,
                    TasksAccounted, Complete, DecisionsOn

-------------------------------------------------------------------------------
(* A decision: the log and the node it is about change together.           *)
LEMMA FaultKept ==
  ASSUME CInv, NEW n \in Node, NEW class \in FaultClass, ProcessFault(n, class)
  PROVE  /\ nodes' \in [Simulated -> SimulatedEdgeNode]
         /\ executed' \in Seq(Decision) /\ Len(executed') <= WindowSize
         /\ CooldownsLogged' /\ CooldownHonoured'
         /\ FaultsLogged' /\ Ladder' /\ TasksAccounted'
         /\ SpellsCounted' /\ SilenceTraced' /\ spell' \in [Node -> Spell]
<1> DEFINE k == nodes[n].faults
           a == ChosenAction(k + 1, class)
           e == [node |-> n, action |-> a, at |-> position,
                 tasks |-> IF a = "PREEMPTIVE_TASK_MIGRATION"
                           THEN nodes[n].tasks ELSE 0,
                 stream |-> stream, spell |-> spell[n]]
           p == executed'
           m == Len(p)
<1>1. /\ nodes \in [Simulated -> SimulatedEdgeNode] /\ n \in Simulated
      /\ executed \in Seq(Decision) /\ Len(executed) <= WindowSize
      /\ position \in Nat /\ stream \in Nat /\ spell \in [Node -> Spell]
  BY CausalFTAssumption DEF CInv, TypeOK, Simulated
<1>2. nodes[n] \in SimulatedEdgeNode /\ k \in Nat /\ nodes[n].tasks \in {0, TasksPerNode}
      /\ nodes[n].cooldownUntil \in Nat
  BY <1>1 DEF SimulatedEdgeNode
<1>3. /\ a \in Action
      /\ a = "PREEMPTIVE_TASK_MIGRATION" <=> k >= 2
      /\ a = "RATE_LIMIT_TRAFFIC" => k = 0
      /\ a = "ISOLATE_PORT_FLOW" => k = 1
      /\ spell[n] = "acted" => k >= 1
  BY <1>2, ChosenType DEF CInv, SpellsCounted
<1>4. /\ nodes' = [nodes EXCEPT ![n] = Treated(@, a)]
      /\ executed' = Push(executed, e)
      /\ spell' = [spell EXCEPT ![n] = "acted"]
      /\ position >= nodes[n].cooldownUntil
  BY <1>1, <1>2 DEF ProcessFault, InCooldown
<1> HIDE DEF a
<1>5. e \in Decision /\ e.node = n /\ e.action = a /\ e.at = position
      /\ e.stream = stream /\ e.spell = spell[n]
      /\ e.tasks = IF a = "PREEMPTIVE_TASK_MIGRATION" THEN nodes[n].tasks ELSE 0
  BY <1>1, <1>2, <1>3 DEF Decision, TasksPerNode
<1> HIDE DEF e
<1>6. PICK d \in {0, 1} :
        /\ p \in Seq(Decision) /\ m \in 1 .. WindowSize
        /\ m = Len(executed) + 1 - d
        /\ Len(executed) < WindowSize => d = 0
        /\ p[m] = e
        /\ \A i \in 1 .. m - 1 : p[i] = executed[i + d] /\ i + d \in 1 .. Len(executed)
  <2>0. executed \in Seq(Decision) /\ e \in Decision /\ Len(executed) <= WindowSize
    BY <1>1, <1>5
  <2>1. p \in Seq(Decision) /\ Pushed(executed, e, p)
    BY <1>4, <2>0, PushProperties
  <2> HIDE DEF p
  <2> QED BY <2>1 DEF Pushed
<1>7. DOMAIN p = 1 .. m /\ DOMAIN executed = 1 .. Len(executed)
      /\ Len(executed) \in Nat /\ m \in Nat /\ WindowSize \in Nat /\ d \in {0, 1}
  BY <1>1, <1>6, CausalFTAssumption, LenProperties
<1>8. ASSUME NEW x \in Simulated
      PROVE  /\ nodes'[x] \in SimulatedEdgeNode
             /\ x # n => nodes'[x] = nodes[x]
             /\ x = n => /\ nodes'[x].faults = k + 1
                         /\ nodes'[x].cooldownUntil = position + Cooldown(a)
                         /\ nodes'[x].tasks = IF a = "PREEMPTIVE_TASK_MIGRATION"
                                              THEN 0 ELSE nodes[n].tasks
  BY <1>1, <1>2, <1>3, <1>4, TreatedType
<1>9. nodes' \in [Simulated -> SimulatedEdgeNode] BY <1>1, <1>4, <1>8
<1>10. \A i \in DOMAIN executed :
         /\ executed[i] \in Decision /\ executed[i].node \in Simulated
         /\ executed[i].at \in Nat
         /\ executed[i].at + Cooldown(executed[i].action)
              <= nodes[executed[i].node].cooldownUntil
  <2>1. \A i \in DOMAIN executed : executed[i] \in Decision
    BY <1>1, <1>7, ElementOfSeq
  <2> QED BY <2>1 DEF CInv, CooldownsLogged, Decision
<1> HIDE DEF p, m
<1>11. CooldownsLogged'
  <2> SUFFICES ASSUME NEW i \in DOMAIN p
               PROVE  p[i].at + Cooldown(p[i].action)
                        <= nodes'[p[i].node].cooldownUntil
    BY DEF CooldownsLogged, p
  <2>1. CASE i = m
    <3>1. p[i] = e BY <1>6, <2>1
    <3> QED BY <1>1, <1>5, <1>8, <3>1, CooldownType
  <2>2. CASE i # m
    <3>1. i \in 1 .. m - 1 BY <1>7, <2>2
    <3>2. p[i] = executed[i + d] /\ i + d \in DOMAIN executed BY <1>6, <1>7, <3>1
    <3>3. CASE p[i].node # n BY <1>8, <1>10, <3>2, <3>3
    <3>4. CASE p[i].node = n
      <4>1. nodes'[p[i].node].cooldownUntil = position + Cooldown(a)
        BY <1>1, <1>8, <3>4
      <4>2. p[i].at + Cooldown(p[i].action) <= nodes[n].cooldownUntil
        BY <1>10, <3>2, <3>4
      <4>3. p[i].at + Cooldown(p[i].action) \in Nat
        BY <1>10, <3>2, CooldownType
      <4> QED BY <1>1, <1>2, <1>4, <4>1, <4>2, <4>3, CooldownType
    <3> QED BY <3>3, <3>4
  <2> QED BY <2>1, <2>2
<1>12. CooldownHonoured'
  <2> SUFFICES ASSUME NEW i \in DOMAIN p, NEW j \in DOMAIN p, i < j,
                      p[i].node = p[j].node
               PROVE  p[j].at >= p[i].at + Cooldown(p[i].action)
    BY DEF CooldownHonoured, DecisionsOn, p
  <2>1. i \in 1 .. m - 1 BY <1>7
  <2>2. p[i] = executed[i + d] /\ i + d \in DOMAIN executed BY <1>6, <1>7, <2>1
  <2>3. CASE j = m
    <3>1. p[j] = e BY <1>6, <2>3
    <3>2. p[i].at + Cooldown(p[i].action) <= nodes[n].cooldownUntil
      BY <1>5, <1>10, <2>2, <3>1
    <3>3. p[i].at + Cooldown(p[i].action) \in Nat BY <1>10, <2>2, CooldownType
    <3> QED BY <1>1, <1>2, <1>4, <1>5, <3>1, <3>2, <3>3
  <2>4. CASE j # m
    <3>1. j \in 1 .. m - 1 BY <1>7, <2>4
    <3>2. p[j] = executed[j + d] /\ j + d \in DOMAIN executed BY <1>6, <1>7, <3>1
    <3>3. i + d < j + d BY <1>7
    <3>4. executed[i + d].node \in Simulated BY <1>10, <2>2
    <3> QED BY <2>2, <3>2, <3>3, <3>4 DEF CInv, CooldownHonoured, DecisionsOn
  <2> QED BY <2>3, <2>4
<1>13. ASSUME Complete'
       PROVE  /\ Complete /\ m = Len(executed) + 1
              /\ \A i \in DOMAIN executed : i \in DOMAIN p /\ p[i] = executed[i]
              /\ \A x : DecisionsOn(x)' = DecisionsOn(x)
                                          \cup (IF x = n THEN {m} ELSE {})
  <2>1. m < WindowSize BY <1>13 DEF Complete, p, m
  <2>2. Len(executed) < WindowSize /\ d = 0 BY <1>1, <1>6, <1>7, <2>1
  <2>3. m = Len(executed) + 1 BY <1>6, <1>7, <2>2
  <2>4. \A i \in DOMAIN executed : i \in DOMAIN p /\ p[i] = executed[i]
    BY <1>6, <1>7, <2>2, <2>3
  <2>5. \A i \in DOMAIN p : i = m \/ i \in DOMAIN executed BY <1>7, <2>3
  <2>6. m \in DOMAIN p BY <1>6, <1>7
  <2>7. \A x : DecisionsOn(x)' = {i \in DOMAIN p : p[i].node = x}
    BY DEF DecisionsOn, p
  <2>8. \A x : DecisionsOn(x) = {i \in DOMAIN executed : executed[i].node = x}
    BY DEF DecisionsOn
  <2>9. \A x : DecisionsOn(x)' = DecisionsOn(x) \cup (IF x = n THEN {m} ELSE {})
    BY <1>5, <1>6, <2>4, <2>5, <2>6, <2>7, <2>8
  <2> QED BY <2>2, <2>3, <2>4, <2>9 DEF Complete
<1>14. \A x : IsFiniteSet(DecisionsOn(x)) /\ DecisionsOn(x) \subseteq 1 .. Len(executed)
  <2> TAKE x
  <2>1. DecisionsOn(x) \subseteq 1 .. Len(executed) BY <1>7 DEF DecisionsOn
  <2>2. IsFiniteSet(1 .. Len(executed)) BY <1>7, FS_Interval
  <2> QED BY <2>1, <2>2, FS_Subset
<1>15. ASSUME Complete'
       PROVE  \A x \in Simulated :
                /\ nodes[x].faults = Cardinality(DecisionsOn(x))
                /\ nodes'[x].faults = Cardinality(DecisionsOn(x)')
  <2> TAKE x \in Simulated
  <2>1. nodes[x].faults = Cardinality(DecisionsOn(x))
    BY <1>13, <1>15 DEF CInv, FaultsLogged
  <2>2. CASE x # n
    <3>1. DecisionsOn(x)' = DecisionsOn(x) BY <1>13, <1>15, <2>2
    <3> QED BY <1>8, <2>1, <2>2, <3>1
  <2>3. CASE x = n
    <3>1. DecisionsOn(x)' = DecisionsOn(x) \cup {m} BY <1>13, <1>15, <2>3
    <3>2. m \notin DecisionsOn(x) BY <1>7, <1>13, <1>14, <1>15
    <3>3. Cardinality(DecisionsOn(x) \cup {m}) = Cardinality(DecisionsOn(x)) + 1
      BY <1>14, <3>2, FS_AddElement
    <3> QED BY <1>8, <2>1, <2>3, <3>1, <3>3
  <2> QED BY <2>1, <2>2, <2>3
<1>16. FaultsLogged' BY <1>15 DEF FaultsLogged
<1>17. Ladder'
  <2> DEFINE Rungs(q, D, b, j) ==
               LET second == q[j].spell = "acted"
                   third  == /\ second /\ b >= 2
                             /\ q[Max({i \in D : i < j})].spell = "acted"
               IN  /\ q[j].action = "PREEMPTIVE_TASK_MIGRATION" => b >= 2
                   /\ q[j].action = "ISOLATE_PORT_FLOW" => b >= 1
                   /\ second => b >= 1 /\ q[j].action # "RATE_LIMIT_TRAFFIC"
                   /\ third => q[j].action = "PREEMPTIVE_TASK_MIGRATION"
  <2>1. ASSUME Complete', NEW x \in Simulated, NEW j \in DecisionsOn(x)'
        PROVE  Rungs(p, DecisionsOn(x)',
                     Cardinality({i \in DecisionsOn(x)' : i < j}), j)
    <3>1. DecisionsOn(x)' = DecisionsOn(x) \cup (IF x = n THEN {m} ELSE {})
      BY <1>13, <2>1
    <3>2. CASE j \in DecisionsOn(x)
      <4>1. j \in 1 .. Len(executed) BY <1>14, <3>2
      <4>2. {i \in DecisionsOn(x)' : i < j} = {i \in DecisionsOn(x) : i < j}
        BY <1>7, <1>13, <2>1, <3>1, <4>1
      <4>3. {i \in DecisionsOn(x) : i < j} \subseteq DOMAIN executed
        BY <1>7, <1>14
      <4> DEFINE S == {i \in DecisionsOn(x) : i < j}
      <4>4. Rungs(executed, DecisionsOn(x), Cardinality(S), j)
        <5>1. executed[j].node = x BY <3>2 DEF DecisionsOn
        <5>2. Previous(j) = Max(S) BY <5>1 DEF Previous
        <5>3. Complete BY <1>13, <2>1
        <5> QED BY <3>2, <5>2, <5>3 DEF CInv, Ladder
      <4>5. p[j] = executed[j] BY <1>13, <2>1, <4>1, <1>7
      <4>6. S # {} => Max(S) \in S
        <5>1. S \subseteq 1 .. Len(executed) BY <1>7, <4>3
        <5> HIDE DEF S
        <5> QED BY <1>7, <5>1, MaxPosition
      <4>7. Cardinality(S) >= 2 => S # {}
        <5>1. Cardinality({}) = 0 BY FS_EmptySet
        <5> QED BY <5>1
      <4>8. Cardinality(S) >= 2 => p[Max(S)] = executed[Max(S)]
        BY <1>13, <2>1, <4>3, <4>6, <4>7
      <4> DEFINE b == Cardinality(S)
      <4>9. Rungs(p, DecisionsOn(x), b, j)
        <5> HIDE DEF b
        <5> QED BY <4>4, <4>5, <4>8 DEF b
      <4> QED BY <4>2, <4>9
    <3>3. CASE j \notin DecisionsOn(x)
      <4>1. x = n /\ j = m BY <3>1, <3>3, <2>1
      <4>2. \A i \in DecisionsOn(x) : i < j
        BY <1>7, <1>13, <1>14, <2>1, <4>1
      <4>3. ~ (j < j) BY <1>7, <4>1
      <4>4. {i \in DecisionsOn(x)' : i < j} = DecisionsOn(x)
        BY <3>1, <4>1, <4>2, <4>3
      <4>5. Cardinality({i \in DecisionsOn(x)' : i < j}) = k
        BY <1>15, <2>1, <4>1, <4>4
      <4>6. p[j].action = a /\ p[j].spell = spell[n] BY <1>5, <1>6, <4>1
      <4> QED BY <1>2, <1>3, <4>5, <4>6
    <3> QED BY <3>2, <3>3
  <2>2. ASSUME Complete', NEW x \in Simulated, NEW j \in DecisionsOn(x)'
        PROVE  Previous(j)' = Max({i \in DecisionsOn(x)' : i < j})
    <3>1. executed'[j].node = x BY <2>2 DEF DecisionsOn
    <3> QED BY <3>1 DEF Previous
  <2> QED BY <2>1, <2>2 DEF Ladder, p
<1>18. TasksAccounted'
  <2> SUFFICES ASSUME Complete', NEW x \in Simulated
               PROVE  nodes'[x].tasks = TasksPerNode <=>
                        \A i \in DecisionsOn(x)' : p[i].tasks = 0
    BY DEF TasksAccounted, p
  <2>1. DecisionsOn(x)' = DecisionsOn(x) \cup (IF x = n THEN {m} ELSE {})
    BY <1>13
  <2>2. \A i \in DecisionsOn(x) : p[i] = executed[i]
    BY <1>7, <1>13, <1>14
  <2>3. nodes[x].tasks = TasksPerNode <=> \A i \in DecisionsOn(x) : executed[i].tasks = 0
    BY <1>13 DEF CInv, TasksAccounted
  <2>4. CASE x # n BY <1>8, <2>1, <2>2, <2>3, <2>4
  <2>5. CASE x = n
    <3>1. p[m].tasks = IF a = "PREEMPTIVE_TASK_MIGRATION" THEN nodes[n].tasks ELSE 0
      BY <1>5, <1>6
    <3>2. nodes'[x].tasks = IF a = "PREEMPTIVE_TASK_MIGRATION" THEN 0 ELSE nodes[n].tasks
      BY <1>8, <2>5
    <3>3. DecisionsOn(x)' = DecisionsOn(x) \cup {m} BY <2>1, <2>5
    <3>4. (\A i \in DecisionsOn(x)' : p[i].tasks = 0) <=>
            p[m].tasks = 0 /\ \A i \in DecisionsOn(x) : executed[i].tasks = 0
      BY <2>2, <3>3
    <3>5. TasksPerNode # 0 BY DEF TasksPerNode
    <3> QED BY <1>2, <2>3, <2>5, <3>1, <3>2, <3>4, <3>5
  <2> QED BY <2>4, <2>5
<1>19. SpellsCounted' BY <1>1, <1>2, <1>4, <1>8 DEF CInv, SpellsCounted, Simulated
<1>20. SilenceTraced'
  <2>1. \A x \in Simulated : nodes'[x].cooldownUntil > 0 => nodes'[x].faults > 0
    BY <1>1, <1>2, <1>8 DEF CInv, SilenceTraced
  <2>2. shared' = shared /\ stream' = stream BY DEF ProcessFault, Advance
  <2>3. ASSUME shared, NEW i \in DOMAIN p PROVE p[i].stream = stream
    <3>1. CASE i = m BY <1>5, <1>6, <3>1
    <3>2. CASE i # m
      <4>1. i \in 1 .. m - 1 BY <1>7, <3>2
      <4>2. p[i] = executed[i + d] /\ i + d \in DOMAIN executed BY <1>6, <1>7, <4>1
      <4> QED BY <2>3, <4>2 DEF CInv, SilenceTraced
    <3> QED BY <3>1, <3>2
  <2> QED BY <2>1, <2>2, <2>3 DEF SilenceTraced, p
<1>21. spell' \in [Node -> Spell] BY <1>1, <1>4 DEF Spell
<1>22. executed' \in Seq(Decision) /\ Len(executed') <= WindowSize
  BY <1>6, <1>7 DEF p, m
<1> QED
  BY <1>9, <1>11, <1>12, <1>16, <1>17, <1>18, <1>19, <1>20, <1>21, <1>22, Zenon

(* Every step keeps the invariant.                                         *)
LEMMA CNext == CInv /\ [Next]_vars => CInv'
<1> SUFFICES ASSUME CInv, [Next]_vars PROVE CInv' OBVIOUS
<1> DEFINE Kept == /\ nodes' \in [Simulated -> SimulatedEdgeNode]
                   /\ executed' \in Seq(Decision) /\ Len(executed') <= WindowSize
                   /\ CooldownsLogged' /\ CooldownHonoured'
                   /\ FaultsLogged' /\ Ladder' /\ TasksAccounted'
<1>1. UNCHANGED <<nodes, executed>> => Kept BY QuietKept
<1>2. nodes' = [n \in Simulated |-> FreshNode] /\ executed' = <<>> => Kept
  <2> SUFFICES ASSUME nodes' = [n \in Simulated |-> FreshNode], executed' = <<>>
               PROVE  Kept
    OBVIOUS
  <2>1. \A n : DecisionsOn(n)' = {} BY DEF DecisionsOn
  <2>2. nodes' \in [Simulated -> SimulatedEdgeNode] BY FreshType
  <2>3. FaultsLogged'
    <3>1. Cardinality({}) = 0 BY FS_EmptySet
    <3>2. \A n : Cardinality(DecisionsOn(n)') = 0 BY <2>1, <3>1, Zenon
    <3>3. \A n \in Simulated : nodes'[n].faults = 0 BY DEF FreshNode
    <3> QED BY <3>2, <3>3 DEF FaultsLogged
  <2>4. TasksAccounted' BY <2>1 DEF TasksAccounted, FreshNode
  <2>5. Ladder' /\ CooldownHonoured' BY <2>1 DEF Ladder, CooldownHonoured
  <2>6. CooldownsLogged' BY DEF CooldownsLogged
  <2>7. executed' \in Seq(Decision) /\ Len(executed') <= WindowSize
    BY CausalFTAssumption, EmptySeq
  <2> QED BY <2>2, <2>3, <2>4, <2>5, <2>6, <2>7
<1>3. ASSUME NEW n \in Node, NEW class \in FaultClass, ProcessFault(n, class)
      PROVE  Kept
  BY <1>3, FaultKept
<1> HIDE DEF Kept
<1>4. /\ detected \in 0 .. WindowSize /\ shared \in BOOLEAN
      /\ position \in 0 .. MaxRecords /\ records \in 0 .. MaxRecords
      /\ stream \in 1 .. MaxStreams /\ records + position <= MaxRecords
      /\ MaxRecords \in Nat /\ MaxStreams \in Nat \ {0} /\ WindowSize \in Nat \ {0}
  BY CausalFTAssumption DEF CInv, TypeOK
<1> DEFINE Rest == /\ detected' \in 0 .. WindowSize /\ shared' \in BOOLEAN
                   /\ \/ lastMitigation' = NoMitigation
                      \/ lastMitigation' \in [node : Simulated,
                                              action : Action \cup {Nothing}]
                   /\ position' \in 0 .. MaxRecords
                   /\ records' \in 0 .. MaxRecords
                   /\ stream' \in 1 .. MaxStreams
                   /\ records' + position' <= MaxRecords
                   /\ spell' \in [Node -> Spell] /\ SpellsCounted' /\ SilenceTraced'
<1>5. ASSUME Kept, Rest PROVE CInv'
  BY <1>5 DEF Kept, CInv, TypeOK
<1>6. ASSUME Advance
      PROVE  /\ position' \in 0 .. MaxRecords /\ records' \in 0 .. MaxRecords
             /\ stream' \in 1 .. MaxStreams /\ shared' \in BOOLEAN
             /\ records' + position' <= MaxRecords
             /\ Counted \in 0 .. WindowSize
             /\ UNCHANGED <<nodes, executed>> => SilenceTraced'
  <2>1. UNCHANGED <<nodes, executed>> => SilenceTraced'
    BY <1>6 DEF Advance, CInv, SilenceTraced
  <2> QED BY <1>4, <1>6, <2>1 DEF Advance, Counted
<1>7. ASSUME NEW n \in Node, ProcessNormal(n) PROVE CInv'
  <2>0. /\ spell' \in [Node -> Spell]
        /\ \A x \in Node : spell'[x] = "acted" => spell[x] = "acted"
    BY <1>7 DEF ProcessNormal, CInv, TypeOK, Spell
  <2>2. SpellsCounted' BY <1>7, <2>0 DEF ProcessNormal, CInv, SpellsCounted
  <2>1. Rest BY <1>4, <1>6, <1>7, <2>0, <2>2 DEF ProcessNormal, CInv, TypeOK
  <2> QED BY <1>1, <1>5, <1>7, <2>1 DEF ProcessNormal
<1>8. ASSUME NEW n \in Node, ProcessInCooldown(n) PROVE CInv'
  <2>0. /\ spell' \in [Node -> Spell]
        /\ \A x \in Node : spell'[x] = "acted" => spell[x] = "acted"
    BY <1>8 DEF ProcessInCooldown, CInv, TypeOK, Spell
  <2>2. SpellsCounted' BY <1>8, <2>0 DEF ProcessInCooldown, CInv, SpellsCounted
  <2>1. Rest BY <1>6, <1>8, <2>0, <2>2 DEF ProcessInCooldown, Simulated
  <2> QED BY <1>1, <1>5, <1>8, <2>1 DEF ProcessInCooldown
<1>9. ASSUME NEW n \in Node, NEW class \in FaultClass, ProcessFault(n, class)
      PROVE  CInv'
  <2>1. nodes[n].faults + 1 \in Nat \ {0}
    <3>1. nodes[n] \in SimulatedEdgeNode BY DEF CInv, TypeOK, Simulated
    <3> QED BY <3>1 DEF SimulatedEdgeNode
  <2>2. ChosenAction(nodes[n].faults + 1, class) \in Action BY <2>1, ChosenType
  <2>3. Rest BY <1>6, <1>9, <2>2, FaultKept DEF ProcessFault, Simulated
  <2> QED BY <1>3, <1>5, <1>9, <2>3
<1>10. CASE Reset
  <2>0. /\ spell' \in [Node -> Spell] /\ \A x \in Node : spell'[x] # "acted"
    BY <1>10 DEF Reset, Spell
  <2>3. SpellsCounted' BY <2>0 DEF SpellsCounted
  <2>4. SilenceTraced'
    <3>1. CASE shared
      <4>1. nodes' = [n \in Simulated |-> FreshNode] /\ executed' = <<>>
        BY <1>10, <3>1 DEF Reset, ResetState, ResetNode
      <4>2. \A n \in Simulated : ~ (nodes'[n].cooldownUntil > 0)
        BY <4>1 DEF FreshNode
      <4> QED BY <4>1, <4>2 DEF SilenceTraced
    <3>2. CASE ~ shared
      BY <1>10, <3>2 DEF Reset, ResetState, CInv, SilenceTraced
    <3> QED BY <3>1, <3>2
  <2>1. Rest BY <1>4, <1>10, <2>0, <2>3, <2>4 DEF Reset, ResetState
  <2>2. Kept
    BY <1>1, <1>2, <1>10 DEF Reset, ResetState, ResetNode
  <2> QED BY <1>5, <2>1, <2>2
<1>11. CASE InitializeWindow
  <2>1. /\ detected' = 0 /\ shared' = FALSE /\ lastMitigation' = NoMitigation
        /\ UNCHANGED <<position, stream, records, nodes, executed, spell>>
    BY <1>11 DEF InitializeWindow
  <2>2. shared' \in BOOLEAN BY <2>1, Zenon
  <2>3. detected' \in 0 .. WindowSize BY <1>4, <2>1
  <2>5. SpellsCounted' /\ SilenceTraced' /\ spell' \in [Node -> Spell]
    BY <2>1 DEF CInv, TypeOK, SpellsCounted, SilenceTraced
  <2>4. Rest BY <1>4, <2>1, <2>2, <2>3, <2>5
  <2> QED BY <1>1, <1>5, <1>11, <2>4 DEF InitializeWindow
<1>12. CASE UNCHANGED vars
  <2>2. SpellsCounted' /\ SilenceTraced'
    BY <1>12 DEF vars, CInv, SpellsCounted, SilenceTraced
  <2>1. Rest BY <1>4, <1>12, <2>2 DEF vars, CInv, TypeOK
  <2> QED BY <1>1, <1>5, <1>12, <2>1 DEF vars
<1> QED BY <1>7, <1>8, <1>9, <1>10, <1>11, <1>12 DEF Next

(* What the theorems below are drawn from.                                 *)
LEMMA Invariant == Spec => []CInv
BY CInit, CNext, PTL DEF Spec

-------------------------------------------------------------------------------
(* Every reachable state is well typed; the deques never exceed the window *)
(* and the counters stay within the bounds on records and streams.         *)
THEOREM TypeCorrect == Spec => []TypeOK
<1>1. CInv => TypeOK BY DEF CInv
<1> QED BY Invariant, <1>1, PTL

(* The policy leaves a node alone for the whole cooldown of its last       *)
(* action, across interleaved nodes, full deques, resets and pipelines     *)
(* initialized with another window.                                        *)
THEOREM CooldownRespected == Spec => []CooldownHonoured
<1>1. CInv => CooldownHonoured BY DEF CInv
<1> QED BY Invariant, <1>1, PTL

(* The escalation ladder of AdaptiveCausalRecoveryPolicy: no action comes  *)
(* too early on its node, and of faults in a row none comes too late.      *)
THEOREM LadderClimbed == Spec => []Ladder
<1>1. CInv => Ladder BY DEF CInv
<1> QED BY Invariant, <1>1, PTL

(* No node is silent in a stream for what happened in an earlier one, as   *)
(* long as the policy is reset with the pipeline.                          *)
THEOREM SilenceExplained == Spec => []SilenceHasCause
<1>1. CInv => SilenceHasCause
  <2> SUFFICES ASSUME CInv, shared, Complete, NEW n \in Simulated, InCooldown(n)
               PROVE  \E i \in DecisionsOn(n) : executed[i].stream = stream
    BY DEF SilenceHasCause, SilencedInStream
  <2>1. position \in Nat /\ nodes[n].cooldownUntil \in Nat
    BY CausalFTAssumption DEF CInv, TypeOK, SimulatedEdgeNode
  <2>2. nodes[n].cooldownUntil > 0 BY <2>1 DEF InCooldown
  <2>3. Cardinality(DecisionsOn(n)) > 0
    BY <2>2 DEF CInv, SilenceTraced, FaultsLogged
  <2>4. DecisionsOn(n) # {}
    <3>1. Cardinality({}) = 0 BY FS_EmptySet
    <3> QED BY <2>3, <3>1
  <2> QED BY <2>4 DEF CInv, SilenceTraced, DecisionsOn
<1> QED BY Invariant, <1>1, PTL

(* No node is empty without a decision that says where its tasks went.     *)
THEOREM TasksTraced == Spec => []TasksAccounted
<1>1. CInv => TasksAccounted BY DEF CInv
<1> QED BY Invariant, <1>1, PTL

===============================================================================
