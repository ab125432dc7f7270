------------------------------ MODULE ProofLemmas ------------------------------
(***************************************************************************)
(* Facts about numbers, finite sets, their extrema and sums over them that *)
(* the proofs of several components need and the theorem library does not  *)
(* state.                                                                  *)
(*                                                                         *)
(* LeastNatural is the form of induction used throughout: the set of the   *)
(* counterexamples to a claim would have a least element.                  *)
(***************************************************************************)
EXTENDS SequencesExt, FiniteSetsExt, FiniteSetTheorems, WellFoundedInduction,
        SequenceTheorems, TLAPS

(* A nonempty set of natural numbers has a least element.                  *)
LEMMA LeastNatural ==
  ASSUME NEW S \in SUBSET Nat, S # {}
  PROVE  \E x \in S : \A y \in S : x <= y
<1> DEFINE R == OpToRel(<, Nat)
<1>1. IsWellFoundedOn(R, Nat) BY NatLessThanWellFounded
<1>2. \A x, y \in Nat : y < x => <<y, x>> \in R BY DEF OpToRel
<1> HIDE DEF R
<1>3. PICK x \in S : \A y \in S : ~ (<<y, x>> \in R) BY <1>1, WFMin
<1>4. \A y \in S : x <= y
  <2> TAKE y \in S
  <2>1. x \in Nat /\ y \in Nat OBVIOUS
  <2>2. ~ (y < x) BY <1>2, <1>3, <2>1
  <2> QED BY <2>1, <2>2
<1> QED BY <1>4

(* The minimum of a nonempty set of natural numbers.                       *)
LEMMA MinOfNaturals ==
  ASSUME NEW S \in SUBSET Nat, S # {}
  PROVE  Min(S) \in S /\ \A y \in S : Min(S) <= y
<1>1. \E x \in S : \A y \in S : x <= y BY LeastNatural
<1> QED BY <1>1 DEF Min

(* The maximum of a nonempty set of natural numbers below a bound.         *)
LEMMA MaxOfBounded ==
  ASSUME NEW n \in Nat, NEW S \in SUBSET (0 .. n), S # {}
  PROVE  Max(S) \in S /\ \A y \in S : y <= Max(S)
<1> DEFINE T == {k \in 0 .. n : n - k \in S}
<1>1. \A y \in S : y \in 0 .. n /\ n - y \in 0 .. n /\ n - (n - y) = y
  OBVIOUS
<1>2. \A y \in S : n - y \in T BY <1>1
<1>3. T \in SUBSET Nat /\ T # {}
  <2>1. T \in SUBSET Nat OBVIOUS
  <2>2. PICK y \in S : TRUE OBVIOUS
  <2>3. n - y \in T BY <1>2
  <2> HIDE DEF T
  <2> QED BY <2>1, <2>3
<1>4. PICK k \in T : \A y \in T : k <= y BY <1>3, LeastNatural
<1>5. n - k \in S BY <1>4
<1>6. \A y \in S : y <= n - k
  <2> TAKE y \in S
  <2>1. k <= n - y BY <1>2, <1>4
  <2>2. y \in Nat /\ k \in Nat BY <1>1, <1>4
  <2> QED BY <2>1, <2>2
<1>7. \E x \in S : \A y \in S : x >= y
  <2>1. \A y \in S : n - k >= y
    BY <1>1, <1>5, <1>6
  <2> QED BY <1>5, <2>1
<1>8. Max(S) \in S /\ \A y \in S : Max(S) >= y BY <1>7 DEF Max
<1>9. \A y \in S : y <= Max(S)
  <2>1. \A y \in S : y \in Int BY <1>1
  <2> QED BY <1>8, <2>1
<1> QED BY <1>8, <1>9

(* The smaller and the larger of two numbers.                              *)
LEMMA MinOfTwo ==
  \A a, b \in Int :
    Min({a, b}) \in {a, b} /\ Min({a, b}) <= a /\ Min({a, b}) <= b
<1> TAKE a, b \in Int
<1>1. \E x \in {a, b} : \A y \in {a, b} : x <= y
  <2>1. CASE a <= b BY <2>1
  <2>2. CASE b <= a BY <2>2
  <2> QED BY <2>1, <2>2
<1>2. Min({a, b}) \in {a, b} /\ \A y \in {a, b} : Min({a, b}) <= y
  BY <1>1 DEF Min
<1> QED BY <1>2

(* The larger of two integers.                                             *)
LEMMA MaxOfTwo ==
  \A a, b \in Int :
    Max({a, b}) \in {a, b} /\ Max({a, b}) >= a /\ Max({a, b}) >= b
<1> TAKE a, b \in Int
<1>1. \E x \in {a, b} : \A y \in {a, b} : x >= y
  <2>1. CASE a >= b BY <2>1
  <2>2. CASE b >= a BY <2>2
  <2> QED BY <2>1, <2>2
<1>2. Max({a, b}) \in {a, b} /\ \A y \in {a, b} : Max({a, b}) >= y
  BY <1>1 DEF Max
<1> QED BY <1>2

-------------------------------------------------------------------------------
(* Sums.  The folds of the community modules are recursive functions on    *)
(* the subsets of a set that take away one element at a time, the one that *)
(* CHOOSE picks.  SumOver is what they come to for a sum of integers; the  *)
(* lemmas say that it does not depend on the picks.                        *)
Pick(s) == CHOOSE x \in s : TRUE

SumRec(f, S, g) ==
  g = [s \in SUBSET S |-> IF s = {} THEN 0 ELSE f[Pick(s)] + g[s \ {Pick(s)}]]

SumFn(f, S) == CHOOSE g : SumRec(f, S, g)

SumOver(f, S) == SumFn(f, S)[S]

(* Pick chooses an element.                                                *)
LEMMA PickIn == \A s : s # {} => Pick(s) \in s
BY DEF Pick

(* The size of a finite set without one of its elements.                   *)
LEMMA WithoutOne ==
  ASSUME NEW S, IsFiniteSet(S), NEW x \in S
  PROVE  /\ IsFiniteSet(S \ {x}) /\ Cardinality(S) \in Nat
         /\ Cardinality(S \ {x}) \in Nat
         /\ Cardinality(S \ {x}) < Cardinality(S)
<1>1. /\ IsFiniteSet(S \ {x})
      /\ Cardinality(S \ {x}) = Cardinality(S) - 1
  BY FS_RemoveElement
<1>2. Cardinality(S) \in Nat /\ Cardinality(S \ {x}) \in Nat
  BY <1>1, FS_CardinalityType
<1> QED BY <1>1, <1>2

(* Two solutions of the recursion agree where both are defined.            *)
LEMMA SumRecUnique ==
  ASSUME NEW f, NEW S, NEW T, NEW g, NEW h, SumRec(f, S, g), SumRec(f, T, h)
  PROVE  \A s : s \subseteq S /\ s \subseteq T /\ IsFiniteSet(s) => g[s] = h[s]
<1> DEFINE Differs(s) == /\ s \subseteq S /\ s \subseteq T /\ IsFiniteSet(s)
                         /\ g[s] # h[s]
           Bad == {n \in Nat : \E s : Differs(s) /\ Cardinality(s) = n}
<1>1. \A s : s \subseteq S => g[s] = IF s = {} THEN 0 ELSE f[Pick(s)] + g[s \ {Pick(s)}]
  BY DEF SumRec
<1>2. \A s : s \subseteq T => h[s] = IF s = {} THEN 0 ELSE f[Pick(s)] + h[s \ {Pick(s)}]
  BY DEF SumRec
<1>3. ASSUME NEW s, Differs(s) PROVE FALSE
  <2>1. Cardinality(s) \in Nat BY <1>3, FS_CardinalityType
  <2>2. Bad # {} /\ Bad \in SUBSET Nat BY <1>3, <2>1
  <2>3. PICK n \in Bad : \A m \in Bad : n <= m BY <2>2, LeastNatural
  <2>4. PICK t : Differs(t) /\ Cardinality(t) = n BY <2>3
  <2>5. t # {} BY <1>1, <1>2, <2>4
  <2> DEFINE u == t \ {Pick(t)}
  <2>6. /\ IsFiniteSet(u) /\ Cardinality(u) \in Nat /\ Cardinality(u) < n
        /\ n \in Nat
    BY <2>4, <2>5, PickIn, WithoutOne
  <2>7. u \subseteq S /\ u \subseteq T BY <2>4
  <2>8. g[u] # h[u] BY <1>1, <1>2, <2>4, <2>5
  <2>9. Differs(u) BY <2>6, <2>7, <2>8
  <2>10. Cardinality(u) \in Bad BY <2>6, <2>9
  <2>11. n <= Cardinality(u) BY <2>3, <2>10
  <2> QED BY <2>6, <2>11
<1> QED BY <1>3

(* The recursion has a solution on every finite set.                       *)
LEMMA SumRecExists ==
  ASSUME NEW f
  PROVE  \A S : IsFiniteSet(S) => SumRec(f, S, SumFn(f, S))
<1> DEFINE Lacks(S) == IsFiniteSet(S) /\ ~ \E g : SumRec(f, S, g)
           Bad == {n \in Nat : \E S : Lacks(S) /\ Cardinality(S) = n}
<1>1. ASSUME NEW S, Lacks(S) PROVE FALSE
  <2>1. Cardinality(S) \in Nat BY <1>1, FS_CardinalityType
  <2>2. Bad # {} /\ Bad \in SUBSET Nat BY <1>1, <2>1
  <2>3. PICK n \in Bad : \A m \in Bad : n <= m BY <2>2, LeastNatural
  <2>4. PICK T : Lacks(T) /\ Cardinality(T) = n BY <2>3
  <2>5. ASSUME NEW s, s \subseteq T, s # T PROVE SumRec(f, s, SumFn(f, s))
    <3>1. PICK x \in T : x \notin s BY <2>5
    <3>2. /\ IsFiniteSet(T \ {x}) /\ Cardinality(T \ {x}) \in Nat
          /\ Cardinality(T \ {x}) < n /\ n \in Nat
      BY <2>4, WithoutOne
    <3>3. s \subseteq T \ {x} BY <2>5, <3>1
    <3>4. /\ IsFiniteSet(s) /\ Cardinality(s) \in Nat
          /\ Cardinality(s) <= Cardinality(T \ {x})
      BY <3>2, <3>3, FS_Subset, FS_CardinalityType
    <3>5. Cardinality(s) < n BY <3>2, <3>4
    <3>6. ~ Lacks(s)
      <4> SUFFICES ASSUME Lacks(s) PROVE FALSE OBVIOUS
      <4>1. Cardinality(s) \in Bad BY <3>4
      <4> QED BY <2>3, <3>2, <3>4, <3>5, <4>1
    <3>7. \E g : SumRec(f, s, g) BY <3>4, <3>6
    <3> QED BY <3>7, Zenon DEF SumFn
  <2> DEFINE Less(s) == s \ {Pick(s)}
             V(s) == IF s = {} THEN 0 ELSE f[Pick(s)] + SumFn(f, Less(s))[Less(s)]
             g == [s \in SUBSET T |-> V(s)]
  <2>6. ASSUME NEW s \in SUBSET T, s # {} PROVE g[Less(s)] = SumFn(f, Less(s))[Less(s)]
    <3> DEFINE u == Less(s)
    <3>1. u \subseteq T /\ u # T BY <2>6, PickIn
    <3>2. SumRec(f, u, SumFn(f, u)) BY <2>5, <3>1
    <3>3. g[u] = V(u) BY <3>1
    <3> HIDE DEF g, u
    <3>4. SumFn(f, u)[u] = IF u = {} THEN 0 ELSE f[Pick(u)] + SumFn(f, u)[u \ {Pick(u)}]
      BY <3>2 DEF SumRec
    <3>5. CASE u = {} BY <3>3, <3>4, <3>5 DEF u
    <3>6. CASE u # {}
      <4> DEFINE w == Less(u)
      <4>1. w \subseteq T /\ w # T /\ w \subseteq u BY <3>1, <3>6, PickIn
      <4>2. SumRec(f, w, SumFn(f, w)) BY <2>5, <4>1
      <4>3. IsFiniteSet(w) BY <2>4, <4>1, FS_Subset
      <4>4. SumFn(f, u)[w] = SumFn(f, w)[w]
        BY <3>2, <4>1, <4>2, <4>3, SumRecUnique
      <4> HIDE DEF w
      <4>5. V(u) = f[Pick(u)] + SumFn(f, w)[w] BY <3>6 DEF w
      <4>6. SumFn(f, u)[u] = f[Pick(u)] + SumFn(f, u)[w] BY <3>4, <3>6 DEF w
      <4>7. g[u] = SumFn(f, u)[u] BY <3>3, <4>4, <4>5, <4>6
      <4> QED BY <4>7 DEF u
    <3> QED BY <3>5, <3>6
  <2>7. g = [s \in SUBSET T |-> IF s = {} THEN 0 ELSE f[Pick(s)] + g[Less(s)]]
    <3>1. \A s \in SUBSET T : V(s) = IF s = {} THEN 0 ELSE f[Pick(s)] + g[Less(s)]
      BY <2>6
    <3> HIDE DEF V, Less
    <3> QED BY <3>1
  <2>8. SumRec(f, T, g) BY <2>7, Zenon DEF SumRec
  <2> QED BY <2>4, <2>8
<1> QED BY <1>1, Zenon DEF SumFn

(* A sum, unfolded once.                                                   *)
LEMMA SumUnfold ==
  ASSUME NEW f, NEW S, IsFiniteSet(S)
  PROVE  SumOver(f, S) =
           IF S = {} THEN 0 ELSE f[Pick(S)] + SumOver(f, S \ {Pick(S)})
<1>1. SumRec(f, S, SumFn(f, S)) BY SumRecExists
<1>2. SumFn(f, S)[S] = IF S = {} THEN 0 ELSE f[Pick(S)] + SumFn(f, S)[S \ {Pick(S)}]
  BY <1>1 DEF SumRec
<1>3. CASE S = {} BY <1>2, <1>3 DEF SumOver
<1>4. CASE S # {}
  <2> DEFINE u == S \ {Pick(S)}
  <2>1. u \subseteq S /\ IsFiniteSet(u) BY FS_Subset
  <2>2. SumRec(f, u, SumFn(f, u)) BY <2>1, SumRecExists
  <2> HIDE DEF u
  <2>3. SumFn(f, S)[u] = SumFn(f, u)[u] BY <1>1, <2>1, <2>2, SumRecUnique
  <2> QED BY <1>2, <1>4, <2>3 DEF SumOver, u
<1> QED BY <1>3, <1>4

(* A sum of integers is an integer.                                        *)
LEMMA SumType ==
  ASSUME NEW f
  PROVE  \A S : IsFiniteSet(S) /\ (\A x \in S : f[x] \in Int) => SumOver(f, S) \in Int
<1> DEFINE Odd(S) == /\ IsFiniteSet(S) /\ \A x \in S : f[x] \in Int
                     /\ SumOver(f, S) \notin Int
           Bad == {n \in Nat : \E S : Odd(S) /\ Cardinality(S) = n}
<1>1. ASSUME NEW S, Odd(S) PROVE FALSE
  <2>1. Cardinality(S) \in Nat BY <1>1, FS_CardinalityType
  <2>2. Bad # {} /\ Bad \in SUBSET Nat BY <1>1, <2>1
  <2>3. PICK n \in Bad : \A m \in Bad : n <= m BY <2>2, LeastNatural
  <2>4. PICK T : Odd(T) /\ Cardinality(T) = n BY <2>3
  <2>5. T # {}
    <3> SUFFICES ASSUME T = {} PROVE FALSE OBVIOUS
    <3>1. SumOver(f, T) = 0 BY <2>4, SumUnfold
    <3> QED BY <2>4, <3>1
  <2> DEFINE u == T \ {Pick(T)}
  <2>6. /\ IsFiniteSet(u) /\ Cardinality(u) \in Nat /\ Cardinality(u) < n /\ n \in Nat
        /\ Pick(T) \in T
    BY <2>4, <2>5, PickIn, WithoutOne
  <2>7. SumOver(f, T) = f[Pick(T)] + SumOver(f, u) BY <2>4, <2>5, SumUnfold
  <2>8. SumOver(f, u) \notin Int BY <2>4, <2>6, <2>7
  <2>9. \A x \in u : f[x] \in Int BY <2>4
  <2>10. Odd(u) BY <2>6, <2>8, <2>9
  <2>11. Cardinality(u) \in Bad BY <2>6, <2>10
  <2>12. n <= Cardinality(u) BY <2>3, <2>11
  <2> QED BY <2>6, <2>12
<1> QED BY <1>1

(* Any element may be taken away first.                                    *)
LEMMA SumRemove ==
  ASSUME NEW f, NEW S, IsFiniteSet(S), \A y \in S : f[y] \in Int, NEW x \in S
  PROVE  /\ SumOver(f, S) = f[x] + SumOver(f, S \ {x})
         /\ SumOver(f, S) \in Int /\ SumOver(f, S \ {x}) \in Int
<1> DEFINE Odd(T, y) == /\ IsFiniteSet(T) /\ \A z \in T : f[z] \in Int
                        /\ y \in T
                        /\ SumOver(f, T) # f[y] + SumOver(f, T \ {y})
           Bad == {n \in Nat : \E T, y : Odd(T, y) /\ Cardinality(T) = n}
<1>1. ASSUME NEW R, NEW r, Odd(R, r) PROVE FALSE
  <2>1. Cardinality(R) \in Nat BY <1>1, FS_CardinalityType
  <2>2. Bad # {} /\ Bad \in SUBSET Nat BY <1>1, <2>1
  <2>3. PICK n \in Bad : \A m \in Bad : n <= m BY <2>2, LeastNatural
  <2>4. PICK T, y : Odd(T, y) /\ Cardinality(T) = n BY <2>3
  <2> DEFINE p == Pick(T)
  <2>5. T # {} /\ p \in T /\ y \in T BY <2>4, PickIn
  <2>6. SumOver(f, T) = f[p] + SumOver(f, T \ {p}) BY <2>4, <2>5, SumUnfold
  <2>7. y # p BY <2>4, <2>6
  <2>8. /\ IsFiniteSet(T \ {p}) /\ Cardinality(T \ {p}) \in Nat /\ Cardinality(T \ {p}) < n
        /\ IsFiniteSet(T \ {y}) /\ Cardinality(T \ {y}) \in Nat /\ Cardinality(T \ {y}) < n
        /\ n \in Nat
    BY <2>4, <2>5, WithoutOne
  <2> HIDE DEF p
  <2>9. ASSUME NEW U, NEW z \in U, U \subseteq T, IsFiniteSet(U),
               Cardinality(U) \in Nat, Cardinality(U) < n
        PROVE  SumOver(f, U) = f[z] + SumOver(f, U \ {z})
    <3> SUFFICES ASSUME Odd(U, z) PROVE FALSE BY <2>4, <2>9
    <3>1. Cardinality(U) \in Bad BY <2>9
    <3>2. n <= Cardinality(U) BY <2>3, <3>1
    <3> QED BY <2>8, <2>9, <3>2
  <2>10. SumOver(f, T \ {p}) = f[y] + SumOver(f, (T \ {p}) \ {y})
    BY <2>5, <2>7, <2>8, <2>9
  <2>11. SumOver(f, T \ {y}) = f[p] + SumOver(f, (T \ {y}) \ {p})
    BY <2>5, <2>7, <2>8, <2>9
  <2>12. (T \ {p}) \ {y} = (T \ {y}) \ {p} OBVIOUS
  <2> DEFINE w == SumOver(f, (T \ {y}) \ {p})
  <2>13. w \in Int
    <3>1. IsFiniteSet((T \ {y}) \ {p}) BY <2>8, FS_Subset
    <3>2. \A z \in (T \ {y}) \ {p} : f[z] \in Int BY <2>4
    <3> QED BY <3>1, <3>2, SumType
  <2>14. f[p] \in Int /\ f[y] \in Int BY <2>4, <2>5
  <2>15. SumOver(f, T) = f[p] + (f[y] + w) BY <2>6, <2>10, <2>12
  <2>16. SumOver(f, T \ {y}) = f[p] + w BY <2>11
  <2> HIDE DEF w
  <2>17. SumOver(f, T) = f[y] + SumOver(f, T \ {y})
    BY <2>13, <2>14, <2>15, <2>16
  <2> QED BY <2>4, <2>17
<1>2. SumOver(f, S) \in Int BY SumType
<1>3. SumOver(f, S \ {x}) \in Int
  <2>1. IsFiniteSet(S \ {x}) BY FS_Subset
  <2> QED BY <2>1, SumType
<1> QED BY <1>1, <1>2, <1>3

(* A sum depends on the summands only.                                     *)
LEMMA SumSame ==
  ASSUME NEW f, NEW g, NEW S, \A x \in S : f[x] = g[x]
  PROVE  SumOver(f, S) = SumOver(g, S)
<1> DEFINE P(h) == SumRec(f, S, h)
           Q(h) == SumRec(g, S, h)
<1>1. \A h : P(h) <=> Q(h)
  <2> TAKE h
  <2>1. ASSUME NEW s \in SUBSET S, s # {} PROVE f[Pick(s)] = g[Pick(s)]
    BY <2>1, PickIn
  <2>2. [s \in SUBSET S |-> IF s = {} THEN 0 ELSE f[Pick(s)] + h[s \ {Pick(s)}]]
          = [s \in SUBSET S |-> IF s = {} THEN 0 ELSE g[Pick(s)] + h[s \ {Pick(s)}]]
    BY <2>1
  <2> QED BY <2>2 DEF SumRec
<1> HIDE DEF P, Q
<1>2. (CHOOSE h : P(h)) = (CHOOSE h : Q(h)) BY <1>1, Zenon
<1>3. SumFn(f, S) = SumFn(g, S) BY <1>2, Zenon DEF P, Q, SumFn
<1> QED BY <1>3 DEF SumOver

(* Changing one summand.                                                   *)
LEMMA SumChange ==
  ASSUME NEW f, NEW g, NEW S, IsFiniteSet(S), NEW x \in S,
         \A y \in S : f[y] \in Int /\ g[y] \in Int,
         \A y \in S : y # x => f[y] = g[y]
  PROVE  SumOver(g, S) = SumOver(f, S) + (g[x] - f[x])
<1>1. \A y \in S : f[y] \in Int OBVIOUS
<1>2. \A y \in S : g[y] \in Int OBVIOUS
<1>3. /\ SumOver(f, S) = f[x] + SumOver(f, S \ {x})
      /\ SumOver(f, S) \in Int /\ SumOver(f, S \ {x}) \in Int
  BY <1>1, SumRemove
<1>4. SumOver(g, S) = g[x] + SumOver(g, S \ {x}) BY <1>2, SumRemove
<1>5. SumOver(f, S \ {x}) = SumOver(g, S \ {x}) BY SumSame
<1> QED BY <1>1, <1>2, <1>3, <1>4, <1>5

(* A sum of zeros.                                                         *)
LEMMA SumZero ==
  ASSUME NEW f
  PROVE  \A S : IsFiniteSet(S) /\ (\A x \in S : f[x] = 0) => SumOver(f, S) = 0
<1> DEFINE Odd(S) == /\ IsFiniteSet(S) /\ \A x \in S : f[x] = 0
                     /\ SumOver(f, S) # 0
           Bad == {n \in Nat : \E S : Odd(S) /\ Cardinality(S) = n}
<1>1. ASSUME NEW S, Odd(S) PROVE FALSE
  <2>1. Cardinality(S) \in Nat BY <1>1, FS_CardinalityType
  <2>2. Bad # {} /\ Bad \in SUBSET Nat BY <1>1, <2>1
  <2>3. PICK n \in Bad : \A m \in Bad : n <= m BY <2>2, LeastNatural
  <2>4. PICK T : Odd(T) /\ Cardinality(T) = n BY <2>3
  <2>5. T # {}
    <3> SUFFICES ASSUME T = {} PROVE FALSE OBVIOUS
    <3>1. SumOver(f, T) = 0 BY <2>4, SumUnfold
    <3> QED BY <2>4, <3>1
  <2> DEFINE u == T \ {Pick(T)}
  <2>6. /\ IsFiniteSet(u) /\ Cardinality(u) \in Nat /\ Cardinality(u) < n /\ n \in Nat
        /\ Pick(T) \in T
    BY <2>4, <2>5, PickIn, WithoutOne
  <2>7. SumOver(f, T) = f[Pick(T)] + SumOver(f, u) BY <2>4, <2>5, SumUnfold
  <2>8. SumOver(f, u) # 0 BY <2>4, <2>6, <2>7
  <2>9. \A x \in u : f[x] = 0 BY <2>4
  <2>10. Odd(u) BY <2>6, <2>8, <2>9
  <2>11. Cardinality(u) \in Bad BY <2>6, <2>10
  <2>12. n <= Cardinality(u) BY <2>3, <2>11
  <2> QED BY <2>6, <2>12
<1> QED BY <1>1

-------------------------------------------------------------------------------
(* Folds over the positions of a sequence, from the first to the last.  h  *)
(* is the function folded, B what it starts from.                          *)
FoldStep(g, h, B, n) ==
  \A s \in SUBSET (1 .. n) :
    g[s] = IF s = {} THEN B ELSE h[<<g[s \ {Max(s)}], Max(s)>>]

(* The largest of a set of positions.                                      *)
LEMMA MaxPosition ==
  ASSUME NEW n \in Nat, NEW s \in SUBSET (1 .. n), s # {}
  PROVE  Max(s) \in s /\ Max(s) \in 1 .. n /\ \A y \in s : y <= Max(s)
<1>1. s \in SUBSET (0 .. n) OBVIOUS
<1> QED BY <1>1, MaxOfBounded

(* There is a fold.                                                        *)
LEMMA FoldExists ==
  ASSUME NEW n \in Nat, NEW V, NEW B \in V, NEW h \in [V \X (1 .. n) -> V]
  PROVE  \E g \in [SUBSET (1 .. n) -> V] : FoldStep(g, h, B, n)
<1> DEFINE E(k) == \E g \in [SUBSET (1 .. k) -> V] : FoldStep(g, h, B, k)
           Bad == {k \in Nat : k <= n /\ ~ E(k)}
<1>0. Bad = {} => E(n)
  <2> SUFFICES ASSUME ~ E(n) PROVE n \in Bad OBVIOUS
  <2> HIDE DEF E
  <2> QED OBVIOUS
<1>1. SUFFICES ASSUME Bad # {} PROVE FALSE BY <1>0
<1>2. PICK k \in Bad : \A y \in Bad : k <= y
  <2>1. Bad \in SUBSET Nat OBVIOUS
  <2> HIDE DEF Bad
  <2> QED BY <1>1, <2>1, LeastNatural
<1>3. k \in Nat /\ k <= n /\ ~ E(k) OBVIOUS
<1>4. CASE k = 0
  <2> DEFINE g == [s \in SUBSET (1 .. 0) |-> B]
  <2>1. g \in [SUBSET (1 .. 0) -> V] OBVIOUS
  <2>2. \A s \in SUBSET (1 .. 0) : s = {} OBVIOUS
  <2>3. FoldStep(g, h, B, 0) BY <2>2 DEF FoldStep
  <2> QED BY <1>3, <1>4, <2>1, <2>3
<1>5. CASE k # 0
  <2>1. k - 1 \in Nat /\ ~ (k <= k - 1) /\ k - 1 <= n /\ k \in 1 .. n BY <1>3, <1>5
  <2>2. E(k - 1)
    <3>1. k - 1 \notin Bad BY <1>2, <2>1
    <3> QED BY <2>1, <3>1
  <2>3. PICK g \in [SUBSET (1 .. k - 1) -> V] : FoldStep(g, h, B, k - 1) BY <2>2
  <2> DEFINE f == [s \in SUBSET (1 .. k) |->
                    IF k \in s THEN h[<<g[s \ {k}], k>>] ELSE g[s]]
  <2>4. \A s \in SUBSET (1 .. k) :
          IF k \in s THEN s \ {k} \in SUBSET (1 .. k - 1)
                     ELSE s \in SUBSET (1 .. k - 1)
    BY <1>3
  <2>5. f \in [SUBSET (1 .. k) -> V]
    <3> SUFFICES ASSUME NEW s \in SUBSET (1 .. k) PROVE f[s] \in V OBVIOUS
    <3>1. CASE k \in s
      <4>1. g[s \ {k}] \in V BY <2>3, <2>4, <3>1
      <4>2. <<g[s \ {k}], k>> \in V \X (1 .. n) BY <2>1, <4>1
      <4> QED BY <3>1, <4>2
    <3>2. CASE k \notin s BY <2>3, <2>4, <3>2
    <3> QED BY <3>1, <3>2
  <2>6. FoldStep(f, h, B, k)
    <3> SUFFICES ASSUME NEW s \in SUBSET (1 .. k)
                 PROVE  f[s] = IF s = {} THEN B
                               ELSE h[<<f[s \ {Max(s)}], Max(s)>>]
      BY DEF FoldStep
    <3>1. CASE k \in s
      <4>1. Max(s) \in s /\ Max(s) \in 1 .. k /\ k <= Max(s)
        BY <1>3, <3>1, MaxPosition
      <4>2. Max(s) = k BY <1>3, <4>1
      <4>3. s \ {k} \in SUBSET (1 .. k) /\ k \notin s \ {k} OBVIOUS
      <4>4. f[s \ {k}] = g[s \ {k}] BY <4>3
      <4>5. f[s] = h[<<g[s \ {k}], k>>] BY <3>1
      <4> HIDE DEF f
      <4> QED BY <3>1, <4>2, <4>4, <4>5
    <3>2. CASE k \notin s
      <4>1. s \in SUBSET (1 .. k - 1) BY <2>4, <3>2
      <4>2. f[s] = g[s] BY <3>2
      <4>3. \A t \in SUBSET s : f[t] = g[t] BY <3>2
      <4>4. f[s \ {Max(s)}] = g[s \ {Max(s)}] BY <4>3
      <4> HIDE DEF f
      <4> QED BY <2>3, <4>1, <4>2, <4>4 DEF FoldStep
    <3> QED BY <3>1, <3>2
  <2> HIDE DEF f
  <2> QED BY <1>3, <2>5, <2>6
<1> QED BY <1>4, <1>5

(* The positions up to k.                                                  *)
LEMMA Positions ==
  ASSUME NEW k \in Nat, k # 0
  PROVE  /\ 1 .. k # {} /\ Max(1 .. k) = k
         /\ (1 .. k) \ {k} = 1 .. k - 1
<1>1. 1 .. k # {} /\ k \in 1 .. k OBVIOUS
<1>2. Max(1 .. k) \in 1 .. k /\ k <= Max(1 .. k) BY <1>1, MaxPosition
<1> QED BY <1>1, <1>2

-------------------------------------------------------------------------------
(* The lists that FlattenSeq concatenates, one after the other.            *)
LEMMA FlattenParts ==
  ASSUME NEW V, NEW seqs \in Seq(Seq(V))
  PROVE  \E f \in [0 .. Len(seqs) -> Seq(V)] :
           /\ f[0] = <<>>
           /\ \A k \in 1 .. Len(seqs) : f[k] = f[k - 1] \o seqs[k]
           /\ FlattenSeq(seqs) = f[Len(seqs)]
<1> DEFINE n == Len(seqs)
           P(c) == c = [i \in 1 .. n |-> IF i = 1 THEN seqs[i] ELSE c[i - 1] \o seqs[i]]
           h == [p \in Seq(V) \X (1 .. n) |-> p[1] \o seqs[p[2]]]
           C == CHOOSE c : P(c)
<1>1. /\ n \in Nat /\ \A i \in 1 .. n : seqs[i] \in Seq(V)
      /\ n = 0 => seqs = <<>>
  OBVIOUS
<1>2. FlattenSeq(seqs) = IF n = 0 THEN seqs ELSE C[n] BY Zenon DEF FlattenSeq
<1> HIDE DEF n
<1>3. <<>> \in Seq(V) /\ \A s \in Seq(V) : <<>> \o s = s OBVIOUS
<1>4. \A s, t \in Seq(V) : s \o t \in Seq(V) OBVIOUS
<1>5. h \in [Seq(V) \X (1 .. n) -> Seq(V)] BY <1>1, <1>4
<1>6. PICK g \in [SUBSET (1 .. n) -> Seq(V)] : FoldStep(g, h, <<>>, n)
  <2> HIDE DEF h
  <2> QED BY <1>1, <1>3, <1>5, FoldExists
<1>7. g[{}] = <<>> BY <1>6 DEF FoldStep
<1>8. ASSUME NEW k \in 1 .. n
      PROVE  g[1 .. k] = g[1 .. k - 1] \o seqs[k] /\ g[1 .. k] \in Seq(V)
  <2>1. k \in Nat /\ k # 0 BY <1>1
  <2>2. 1 .. k # {} /\ Max(1 .. k) = k /\ (1 .. k) \ {k} = 1 .. k - 1
    BY <2>1, Positions
  <2>3. 1 .. k \in SUBSET (1 .. n) /\ 1 .. k - 1 \in SUBSET (1 .. n) BY <1>1
  <2>4. g[1 .. k] = h[<<g[1 .. k - 1], k>>] BY <1>6, <2>2, <2>3 DEF FoldStep
  <2>5. g[1 .. k - 1] \in Seq(V) BY <1>6, <2>3
  <2> QED BY <1>6, <2>3, <2>4, <2>5
<1> HIDE DEF h
<1> DEFINE c == [i \in 1 .. n |-> g[1 .. i]]
           v(i) == IF i = 1 THEN seqs[i] ELSE c[i - 1] \o seqs[i]
<1>9. P(c)
  <2>1. ASSUME NEW i \in 1 .. n PROVE c[i] = v(i)
    <3>1. CASE i = 1
      <4>1. 1 .. i - 1 = {} BY <3>1
      <4>2. c[i] = <<>> \o seqs[i] BY <1>7, <1>8, <4>1
      <4> QED BY <1>1, <1>3, <3>1, <4>2
    <3>2. CASE i # 1
      <4>1. i - 1 \in 1 .. n BY <1>1, <3>2
      <4> QED BY <1>8, <3>2, <4>1
    <3> QED BY <3>1, <3>2
  <2>2. c = [i \in 1 .. n |-> c[i]] OBVIOUS
  <2> HIDE DEF c
  <2>3. [i \in 1 .. n |-> c[i]] = [i \in 1 .. n |-> v(i)] BY <2>1
  <2> QED BY <2>2, <2>3
<1> HIDE DEF c
<1>10. P(C)
  <2> HIDE DEF P
  <2> QED BY <1>9, Zenon
<1> HIDE DEF C
<1>11. \A i \in 1 .. n : C[i] = IF i = 1 THEN seqs[i] ELSE C[i - 1] \o seqs[i]
  BY <1>10
<1> DEFINE f == [k \in 0 .. n |-> IF k = 0 THEN <<>> ELSE C[k]]
<1>12. f[0] = <<>> BY <1>1
<1>13. ASSUME NEW k \in 1 .. n PROVE f[k] = f[k - 1] \o seqs[k]
  <2>1. CASE k = 1
    <3>1. f[k - 1] = <<>> BY <1>1, <2>1
    <3> QED BY <1>1, <1>3, <1>11, <2>1, <3>1
  <2>2. CASE k # 1
    <3>1. k - 1 \in 0 .. n /\ k - 1 # 0 /\ k \in 0 .. n /\ k # 0 BY <1>1, <2>2
    <3>2. f[k - 1] = C[k - 1] /\ f[k] = C[k] BY <3>1
    <3> QED BY <1>11, <2>2, <3>2
  <2> QED BY <2>1, <2>2
<1>14. FlattenSeq(seqs) = f[n]
  <2>1. n \in 0 .. n BY <1>1
  <2> QED BY <1>1, <1>2, <2>1
<1> HIDE DEF f
<1> DEFINE Bad == {k \in Nat : k <= n /\ f[k] \notin Seq(V)}
<1>15. Bad = {}
  <2> SUFFICES ASSUME Bad # {} PROVE FALSE OBVIOUS
  <2>1. PICK k \in Bad : \A y \in Bad : k <= y
    <3>1. Bad \in SUBSET Nat OBVIOUS
    <3> HIDE DEF Bad
    <3> QED BY <3>1, LeastNatural
  <2>2. k \in Nat /\ k <= n /\ f[k] \notin Seq(V) OBVIOUS
  <2>3. k # 0 BY <1>3, <1>12, <2>2
  <2>4. k \in 1 .. n /\ k - 1 \in Nat /\ k - 1 <= n /\ ~ (k <= k - 1)
    BY <1>1, <2>2, <2>3
  <2>5. k - 1 \notin Bad BY <2>1, <2>4
  <2>6. f[k - 1] \in Seq(V) BY <2>4, <2>5
  <2> QED BY <1>1, <1>4, <1>13, <2>2, <2>4, <2>6
<1>16. \A k \in 0 .. n : f[k] \in Seq(V) BY <1>1, <1>15
<1>17. f \in [0 .. n -> Seq(V)]
  <2>1. DOMAIN f = 0 .. n /\ f = [k \in DOMAIN f |-> f[k]] BY DEF f
  <2> QED BY <1>16, <2>1
<1> QED BY <1>12, <1>13, <1>14, <1>17 DEF n

(* The first k of the lists a function gives, one after the other.         *)
Flat(g, k) == FlattenSeq([i \in 1 .. k |-> g[i]])

(* Lists of lists, one list longer each time.                              *)
LEMMA FlatStep ==
  ASSUME NEW V, NEW n \in Nat, NEW g \in [1 .. n -> Seq(V)]
  PROVE  /\ \A k \in 0 .. n : Flat(g, k) \in Seq(V)
         /\ Flat(g, 0) = <<>>
         /\ \A k \in 1 .. n : Flat(g, k) = Flat(g, k - 1) \o g[k]
<1> DEFINE G(k) == [i \in 1 .. k |-> g[i]]
           Parts(k, f) == /\ f \in [0 .. k -> Seq(V)] /\ f[0] = <<>>
                          /\ \A i \in 1 .. k : f[i] = f[i - 1] \o g[i]
<1>1. ASSUME NEW k \in 0 .. n
      PROVE  \E f : Parts(k, f) /\ Flat(g, k) = f[k]
  <2>1. /\ G(k) \in Seq(Seq(V)) /\ Len(G(k)) = k /\ k \in Nat
        /\ \A i \in 1 .. k : G(k)[i] = g[i]
    <3>1. k \in Nat /\ \A i \in 1 .. k : g[i] \in Seq(V) OBVIOUS
    <3> QED BY <3>1
  <2> HIDE DEF G
  <2>2. PICK f \in [0 .. Len(G(k)) -> Seq(V)] :
          /\ f[0] = <<>>
          /\ \A i \in 1 .. Len(G(k)) : f[i] = f[i - 1] \o G(k)[i]
          /\ FlattenSeq(G(k)) = f[Len(G(k))]
    BY <2>1, FlattenParts
  <2>3. Parts(k, f) BY <2>1, <2>2
  <2>4. Flat(g, k) = f[k] BY <2>1, <2>2, Zenon DEF Flat, G
  <2> QED BY <2>3, <2>4
<1>2. ASSUME NEW k \in 0 .. n, NEW m \in 0 .. n, k <= m, NEW f, NEW h,
             Parts(k, f), Parts(m, h)
      PROVE  h[k] = f[k]
  <2> DEFINE Bad == {i \in Nat : i <= k /\ h[i] # f[i]}
  <2>1. Bad = {}
    <3> SUFFICES ASSUME Bad # {} PROVE FALSE OBVIOUS
    <3>1. PICK i \in Bad : \A y \in Bad : i <= y
      <4>1. Bad \in SUBSET Nat OBVIOUS
      <4> HIDE DEF Bad
      <4> QED BY <3>1, <4>1, LeastNatural
    <3>2. i \in Nat /\ i <= k /\ h[i] # f[i] OBVIOUS
    <3>3. i # 0 BY <1>2, <3>2
    <3>4. i - 1 \in Nat /\ i - 1 <= k /\ ~ (i <= i - 1) /\ i \in 1 .. k /\ i \in 1 .. m
      BY <1>2, <3>2, <3>3
    <3>5. i - 1 \notin Bad BY <3>1, <3>4
    <3>6. h[i - 1] = f[i - 1] BY <3>4, <3>5
    <3>7. f[i] = f[i - 1] \o g[i] /\ h[i] = h[i - 1] \o g[i] BY <1>2, <3>4
    <3> QED BY <3>2, <3>6, <3>7
  <2> QED BY <2>1
<1>3. \A k \in 0 .. n : Flat(g, k) \in Seq(V)
  <2> TAKE k \in 0 .. n
  <2>1. PICK f : Parts(k, f) /\ Flat(g, k) = f[k] BY <1>1
  <2>2. k \in 0 .. k OBVIOUS
  <2> QED BY <2>1, <2>2
<1>4. Flat(g, 0) = <<>>
  <2>1. 0 \in 0 .. n OBVIOUS
  <2> QED BY <1>1, <2>1
<1>5. ASSUME NEW k \in 1 .. n PROVE Flat(g, k) = Flat(g, k - 1) \o g[k]
  <2>1. k \in 0 .. n /\ k - 1 \in 0 .. n /\ k - 1 <= k /\ k \in 1 .. k OBVIOUS
  <2>2. PICK h : Parts(k, h) /\ Flat(g, k) = h[k] BY <1>1, <2>1
  <2>3. PICK f : Parts(k - 1, f) /\ Flat(g, k - 1) = f[k - 1] BY <1>1, <2>1
  <2>4. h[k - 1] = f[k - 1] BY <1>2, <2>1, <2>2, <2>3
  <2>5. h[k] = h[k - 1] \o g[k] BY <2>1, <2>2
  <2> QED BY <2>2, <2>3, <2>4, <2>5
<1> QED BY <1>3, <1>4, <1>5

(* The whole of a list of lists.                                           *)
LEMMA FlatWhole ==
  ASSUME NEW seqs, seqs = [i \in 1 .. Len(seqs) |-> seqs[i]]
  PROVE  FlattenSeq(seqs) = Flat(seqs, Len(seqs))
BY DEF Flat

(* Lists that agree up to a position.                                      *)
LEMMA FlatSame ==
  ASSUME NEW k, NEW g, NEW h, \A i \in 1 .. k : g[i] = h[i]
  PROVE  Flat(g, k) = Flat(h, k)
<1>1. [i \in 1 .. k |-> g[i]] = [i \in 1 .. k |-> h[i]] OBVIOUS
<1> QED BY <1>1 DEF Flat

(* Lists that are all empty.                                               *)
LEMMA FlatEmpty ==
  ASSUME NEW n \in Nat, NEW g, \A i \in 1 .. n : g[i] = <<>>
  PROVE  Flat(g, n) = <<>>
<1> DEFINE e == [i \in 1 .. n |-> <<>>]
           Bad == {i \in Nat : i <= n /\ Flat(e, i) # <<>>}
<1>1. /\ e \in [1 .. n -> Seq({})] /\ Flat(g, n) = Flat(e, n)
      /\ <<>> \o <<>> = <<>> /\ \A i \in 1 .. n : e[i] = <<>>
  <2>1. \A i \in 1 .. n : g[i] = e[i] OBVIOUS
  <2>2. <<>> \in Seq({}) /\ <<>> \o <<>> = <<>> OBVIOUS
  <2>3. e \in [1 .. n -> Seq({})] BY <2>2
  <2>4. \A i \in 1 .. n : e[i] = <<>> OBVIOUS
  <2> HIDE DEF e
  <2> QED BY <2>1, <2>2, <2>3, <2>4, FlatSame
<1> HIDE DEF e
<1>2. Bad = {}
  <2> SUFFICES ASSUME Bad # {} PROVE FALSE OBVIOUS
  <2>1. PICK i \in Bad : \A y \in Bad : i <= y
    <3>1. Bad \in SUBSET Nat OBVIOUS
    <3> HIDE DEF Bad
    <3> QED BY <2>1, <3>1, LeastNatural
  <2>2. i \in Nat /\ i <= n /\ Flat(e, i) # <<>> OBVIOUS
  <2>3. i # 0 BY <1>1, <2>2, FlatStep
  <2>4. i - 1 \in Nat /\ i - 1 <= n /\ ~ (i <= i - 1) /\ i \in 1 .. n BY <2>2, <2>3
  <2>5. i - 1 \notin Bad BY <2>1, <2>4
  <2>6. Flat(e, i - 1) = <<>> BY <2>4, <2>5
  <2>7. Flat(e, i) = Flat(e, i - 1) \o e[i] BY <1>1, <2>4, FlatStep
  <2> QED BY <1>1, <2>2, <2>4, <2>6, <2>7
<1> QED BY <1>1, <1>2

(* Something on one list is something on the whole.                        *)
LEMMA FlatSome ==
  ASSUME NEW V, NEW n \in Nat, NEW g \in [1 .. n -> Seq(V)],
         NEW k \in 1 .. n, g[k] # <<>>
  PROVE  Flat(g, n) # <<>>
<1> DEFINE Bad == {i \in Nat : k <= i /\ i <= n /\ Flat(g, i) = <<>>}
<1>0. \A s, t \in Seq(V) : s \o t = <<>> => s = <<>> /\ t = <<>> OBVIOUS
<1>1. Bad = {}
  <2> SUFFICES ASSUME Bad # {} PROVE FALSE OBVIOUS
  <2>1. PICK i \in Bad : \A y \in Bad : i <= y
    <3>1. Bad \in SUBSET Nat OBVIOUS
    <3> HIDE DEF Bad
    <3> QED BY <2>1, <3>1, LeastNatural
  <2>2. i \in Nat /\ k <= i /\ i <= n /\ Flat(g, i) = <<>> OBVIOUS
  <2>3. i - 1 \in 0 .. n /\ i - 1 \in Nat /\ i \in 1 .. n /\ i - 1 <= n /\ ~ (i <= i - 1)
    BY <2>2
  <2>4. /\ Flat(g, i) = Flat(g, i - 1) \o g[i] /\ g[i] \in Seq(V)
        /\ Flat(g, i - 1) \in Seq(V)
    BY <2>3, FlatStep
  <2>5. Flat(g, i - 1) = <<>> /\ g[i] = <<>> BY <1>0, <2>2, <2>4
  <2>6. k # i BY <2>5
  <2>7. k <= i - 1 BY <2>2, <2>6
  <2>8. i - 1 \in Bad BY <2>3, <2>5, <2>7
  <2> QED BY <2>1, <2>3, <2>8
<1> QED BY <1>1

(* One list among empty ones.                                              *)
LEMMA FlatOnly ==
  ASSUME NEW V, NEW n \in Nat, NEW g \in [1 .. n -> Seq(V)], NEW k \in 1 .. n,
         \A i \in 1 .. n : i # k => g[i] = <<>>
  PROVE  Flat(g, n) = g[k]
<1> DEFINE Bad == {i \in Nat : k <= i /\ i <= n /\ Flat(g, i) # g[k]}
<1>0. \A s \in Seq(V) : s \o <<>> = s /\ <<>> \o s = s OBVIOUS
<1>1. Bad = {}
  <2> SUFFICES ASSUME Bad # {} PROVE FALSE OBVIOUS
  <2>1. PICK i \in Bad : \A y \in Bad : i <= y
    <3>1. Bad \in SUBSET Nat OBVIOUS
    <3> HIDE DEF Bad
    <3> QED BY <2>1, <3>1, LeastNatural
  <2>2. i \in Nat /\ k <= i /\ i <= n /\ Flat(g, i) # g[k] OBVIOUS
  <2>3. i - 1 \in 0 .. n /\ i - 1 \in Nat /\ i \in 1 .. n /\ i - 1 <= n /\ ~ (i <= i - 1)
    BY <2>2
  <2>4. Flat(g, i) = Flat(g, i - 1) \o g[i] /\ g[i] \in Seq(V) /\ g[k] \in Seq(V)
    BY <2>3, FlatStep
  <2>5. CASE i = k
    <3>1. \A j \in 1 .. k - 1 : g[j] = <<>> BY <2>2
    <3>2. Flat(g, k - 1) = <<>>
      <4>1. k - 1 \in Nat OBVIOUS
      <4> QED BY <3>1, <4>1, FlatEmpty
    <3> QED BY <1>0, <2>2, <2>4, <2>5, <3>2
  <2>6. CASE i # k
    <3>1. k <= i - 1 /\ g[i] = <<>> BY <2>2, <2>3, <2>6
    <3>2. i - 1 \notin Bad BY <2>1, <2>3
    <3>3. Flat(g, i - 1) = g[k] BY <2>3, <3>1, <3>2
    <3> QED BY <1>0, <2>2, <2>4, <3>1, <3>3
  <2> QED BY <2>5, <2>6
<1>2. k <= n /\ n <= n OBVIOUS
<1> QED BY <1>1, <1>2

(* A sequence is a function on its positions.                              *)
LEMMA SeqAsFunction ==
  ASSUME NEW S, NEW s \in Seq(S)
  PROVE  /\ Len(s) \in Nat /\ DOMAIN s = 1 .. Len(s) /\ s \in [1 .. Len(s) -> S]
         /\ s = [i \in 1 .. Len(s) |-> s[i]]
<1>1. Len(s) \in Nat /\ s \in [1 .. Len(s) -> S] /\ DOMAIN s = 1 .. Len(s)
  BY LenProperties
<1> QED BY <1>1

LEMMA FunctionAsSeq ==
  ASSUME NEW S, NEW n \in Nat, NEW f \in [1 .. n -> S]
  PROVE  f \in Seq(S) /\ Len(f) = n
OBVIOUS

(* The positions of two sequences one behind the other.                    *)
LEMMA ConcatParts ==
  ASSUME NEW S, NEW s \in Seq(S), NEW t \in Seq(S)
  PROVE  /\ s \o t \in Seq(S) /\ Len(s \o t) = Len(s) + Len(t)
         /\ DOMAIN (s \o t) = 1 .. Len(s) + Len(t)
         /\ s \o t \in [1 .. Len(s) + Len(t) -> S]
         /\ s \o t = [i \in 1 .. Len(s) + Len(t) |-> (s \o t)[i]]
         /\ \A i \in 1 .. Len(s) : (s \o t)[i] = s[i]
         /\ \A i \in 1 .. Len(t) : (s \o t)[Len(s) + i] = t[i]
<1> DEFINE m == Len(s)
           n == Len(t)
           u == s \o t
<1>1. m \in Nat /\ n \in Nat BY LenProperties
<1>2. /\ u \in Seq(S) /\ Len(u) = m + n
      /\ \A i \in 1 .. m + n : u[i] = IF i <= m THEN s[i] ELSE t[i - m]
  BY ConcatProperties
<1> HIDE DEF u, m, n
<1>3. /\ DOMAIN u = 1 .. m + n /\ u \in [1 .. m + n -> S]
      /\ u = [i \in 1 .. m + n |-> u[i]]
  BY <1>2, SeqAsFunction
<1>4. \A i \in 1 .. m : u[i] = s[i]
  <2> TAKE i \in 1 .. m
  <2>1. i \in 1 .. m + n /\ i <= m BY <1>1
  <2> QED BY <1>2, <2>1
<1>5. \A i \in 1 .. n : u[m + i] = t[i]
  <2> TAKE i \in 1 .. n
  <2> DEFINE j == m + i
  <2>1. j \in 1 .. m + n /\ ~ (j <= m) /\ j - m = i BY <1>1
  <2> HIDE DEF j
  <2>2. u[j] = IF j <= m THEN s[j] ELSE t[j - m] BY <1>2, <2>1
  <2> QED BY <2>1, <2>2 DEF j
<1> QED BY <1>2, <1>3, <1>4, <1>5 DEF u, m, n

(* Three sequences one behind the other.                                   *)
LEMMA ConcatThree ==
  \A V : \A a, b, c \in Seq(V) : (a \o b) \o c = a \o (b \o c)
<1> TAKE V
<1> TAKE a, b, c \in Seq(V)
<1> QED BY ConcatAssociative

(* The lists of one list of lists behind those of another.                 *)
Behind(s, m, t, n, u) ==
  (\A i \in 1 .. m : u[i] = s[i]) /\ (\A i \in 1 .. n : u[m + i] = t[i])

Lists(V, n) == [1 .. n -> Seq(V)]

LEMMA FlatBehind ==
  ASSUME NEW V, NEW m \in Nat, NEW n \in Nat, NEW s \in Lists(V, m),
         NEW t \in Lists(V, n), NEW u \in Lists(V, m + n), Behind(s, m, t, n, u)
  PROVE  Flat(u, m + n) = Flat(s, m) \o Flat(t, n)
<1> USE DEF Lists
<1>1. \A a, b, c \in Seq(V) : (a \o b) \o c = a \o (b \o c) BY ConcatThree
<1>2. /\ \A k \in 0 .. m : Flat(s, k) \in Seq(V)
      /\ Flat(t, 0) = <<>> /\ \A k \in 0 .. n : Flat(t, k) \in Seq(V)
      /\ \A k \in 1 .. n : Flat(t, k) = Flat(t, k - 1) \o t[k]
      /\ \A k \in 1 .. m + n : Flat(u, k) = Flat(u, k - 1) \o u[k]
  <2>1. m + n \in Nat OBVIOUS
  <2>2. \A k \in 0 .. m : Flat(s, k) \in Seq(V) BY FlatStep
  <2>3. /\ Flat(t, 0) = <<>> /\ \A k \in 0 .. n : Flat(t, k) \in Seq(V)
        /\ \A k \in 1 .. n : Flat(t, k) = Flat(t, k - 1) \o t[k]
    BY FlatStep
  <2>4. \A k \in 1 .. m + n : Flat(u, k) = Flat(u, k - 1) \o u[k] BY <2>1, FlatStep
  <2> QED BY <2>2, <2>3, <2>4
<1>3. Flat(u, m) = Flat(s, m) BY FlatSame DEF Behind
<1>4. Flat(s, m) \in Seq(V)
  <2>1. m \in 0 .. m OBVIOUS
  <2> QED BY <1>2, <2>1
<1> DEFINE Bad == {k \in Nat : k <= n /\ Flat(u, m + k) # Flat(s, m) \o Flat(t, k)}
<1>5. Bad = {}
  <2> SUFFICES ASSUME Bad # {} PROVE FALSE OBVIOUS
  <2>1. PICK k \in Bad : \A y \in Bad : k <= y
    <3>1. Bad \in SUBSET Nat OBVIOUS
    <3> HIDE DEF Bad
    <3> QED BY <3>1, LeastNatural
  <2>2. k \in Nat /\ k <= n /\ Flat(u, m + k) # Flat(s, m) \o Flat(t, k) OBVIOUS
  <2>3. CASE k = 0
    <3>1. m + 0 = m OBVIOUS
    <3>2. Flat(s, m) \o <<>> = Flat(s, m) BY <1>4, ConcatEmptySeq
    <3> QED BY <1>2, <1>3, <2>2, <2>3, <3>1, <3>2
  <2>4. CASE k # 0
    <3>1. /\ k - 1 \in Nat /\ k - 1 <= n /\ ~ (k <= k - 1) /\ k \in 1 .. n
          /\ m + k \in 1 .. m + n /\ m + k - 1 = m + (k - 1) /\ k - 1 \in 0 .. n
      BY <2>2, <2>4
    <3>2. k - 1 \notin Bad BY <2>1, <3>1
    <3>3. Flat(u, m + (k - 1)) = Flat(s, m) \o Flat(t, k - 1) BY <3>1, <3>2
    <3>4. Flat(u, m + k) = Flat(u, m + (k - 1)) \o u[m + k]
      <4> DEFINE j == m + k
      <4>1. j \in 1 .. m + n /\ j - 1 = m + (k - 1) BY <2>2, <2>4
      <4> HIDE DEF j
      <4>2. Flat(u, j) = Flat(u, j - 1) \o u[j] BY <1>2, <4>1
      <4> QED BY <4>1, <4>2 DEF j
    <3>5. t[k] \in Seq(V) /\ Flat(t, k - 1) \in Seq(V) BY <1>2, <3>1
    <3>6. (Flat(s, m) \o Flat(t, k - 1)) \o t[k] = Flat(s, m) \o (Flat(t, k - 1) \o t[k])
      BY <1>1, <1>4, <3>5
    <3>7. u[m + k] = t[k] /\ Flat(t, k) = Flat(t, k - 1) \o t[k] BY <1>2, <3>1 DEF Behind
    <3> QED BY <2>2, <3>3, <3>4, <3>6, <3>7
  <2> QED BY <2>3, <2>4
<1>6. n <= n OBVIOUS
<1> QED BY <1>5, <1>6

Joined(s, m, t, n, u) == Flat(u, m + n) = Flat(s, m) \o Flat(t, n)

LEMMA FlatJoined ==
  \A V : \A m, n \in Nat : \A s, t, u :
    /\ s \in Lists(V, m) /\ t \in Lists(V, n) /\ u \in Lists(V, m + n)
    /\ Behind(s, m, t, n, u)
    => Joined(s, m, t, n, u)
BY FlatBehind DEF Joined

(* What a function makes of the elements of a list, one after the other.   *)
Maps(S, T) == [S -> T]
Mapped(w, q) == FlattenSeq([j \in DOMAIN q |-> w[q[j]]])

LEMMA MappedConcat ==
  ASSUME NEW V, NEW C, NEW w \in Maps(C, Seq(V)), NEW a \in Seq(C), NEW b \in Seq(C)
  PROVE  Mapped(w, a \o b) = Mapped(w, a) \o Mapped(w, b) /\ Mapped(w, a) \in Seq(V)
<1> USE DEF Maps
<1> DEFINE c == a \o b
           m == Len(a)
           n == Len(b)
           s == [j \in 1 .. m |-> w[a[j]]]
           t == [j \in 1 .. n |-> w[b[j]]]
           u == [j \in 1 .. m + n |-> w[c[j]]]
<1>1. /\ DOMAIN a = 1 .. m /\ DOMAIN b = 1 .. n /\ m \in Nat /\ n \in Nat
      /\ DOMAIN c = 1 .. m + n /\ c \in [1 .. m + n -> C]
      /\ \A j \in 1 .. m : c[j] = a[j]
      /\ \A j \in 1 .. n : c[m + j] = b[j]
  BY SeqAsFunction, ConcatParts
<1>2. \A j \in 1 .. m : a[j] \in C BY ElementOfSeq
<1>3. \A j \in 1 .. n : b[j] \in C BY ElementOfSeq
<1> HIDE DEF c, m, n
<1>4. s \in [1 .. m -> Seq(V)] BY <1>2
<1>5. t \in [1 .. n -> Seq(V)] BY <1>3
<1>6. u \in [1 .. m + n -> Seq(V)] BY <1>1
<1>7. \A j \in 1 .. m : u[j] = s[j] BY <1>1
<1>8. \A j \in 1 .. n : u[m + j] = t[j]
  <2> TAKE j \in 1 .. n
  <2> DEFINE i == m + j
  <2>1. i \in 1 .. m + n /\ c[i] = b[j] BY <1>1
  <2> HIDE DEF i
  <2>2. u[i] = w[c[i]] /\ t[j] = w[b[j]] BY <2>1
  <2> QED BY <2>1, <2>2 DEF i
<1>9. /\ Mapped(w, a) = Flat(s, m) /\ Mapped(w, b) = Flat(t, n)
      /\ Mapped(w, c) = Flat(u, m + n)
  <2>1. /\ [i \in 1 .. m |-> s[i]] = [j \in DOMAIN a |-> w[a[j]]]
        /\ [i \in 1 .. n |-> t[i]] = [j \in DOMAIN b |-> w[b[j]]]
        /\ [i \in 1 .. m + n |-> u[i]] = [j \in DOMAIN c |-> w[c[j]]]
    BY <1>1
  <2> QED BY <2>1, Zenon DEF Mapped, Flat
<1> HIDE DEF s, t, u
<1>10. Flat(u, m + n) = Flat(s, m) \o Flat(t, n)
  <2>1. Behind(s, m, t, n, u) BY <1>7, <1>8 DEF Behind
  <2>2. s \in Lists(V, m) /\ t \in Lists(V, n) /\ u \in Lists(V, m + n)
    BY <1>4, <1>5, <1>6, Zenon DEF Lists
  <2>3. m \in Nat /\ n \in Nat BY <1>1
  <2>4. Joined(s, m, t, n, u) BY <2>1, <2>2, <2>3, FlatJoined, Zenon
  <2> QED BY <2>4, Zenon DEF Joined
<1>11. Flat(s, m) \in Seq(V)
  <2>1. m \in 0 .. m BY <1>1
  <2> QED BY <1>1, <1>4, <2>1, FlatStep
<1> QED BY <1>9, <1>10, <1>11 DEF c

(* ... of the elements of a list of lists, list by list.                   *)
ListByList(w, cs, V) ==
  /\ Mapped(w, FlattenSeq(cs)) = Flat([f \in DOMAIN cs |-> Mapped(w, cs[f])], Len(cs))
  /\ \A f \in DOMAIN cs : Mapped(w, cs[f]) \in Seq(V)

LEMMA NestedListByList ==
  \A V, C : \A w \in Maps(C, Seq(V)) : \A cs \in Seq(Seq(C)) : ListByList(w, cs, V)
<1> SUFFICES ASSUME NEW V, NEW C, NEW w \in Maps(C, Seq(V)), NEW cs \in Seq(Seq(C))
             PROVE  ListByList(w, cs, V)
  OBVIOUS
<1> DEFINE n == Len(cs)
           g == [f \in DOMAIN cs |-> Mapped(w, cs[f])]
<1>1. /\ n \in Nat /\ DOMAIN cs = 1 .. n /\ cs \in [1 .. n -> Seq(C)]
      /\ cs = [i \in 1 .. n |-> cs[i]] /\ \A i \in 1 .. n : cs[i] \in Seq(C)
  BY SeqAsFunction
<1>2. FlattenSeq(cs) = Flat(cs, n)  BY <1>1, FlatWhole
<1> HIDE DEF n
<1>3. /\ Flat(cs, 0) = <<>> /\ \A k \in 0 .. n : Flat(cs, k) \in Seq(C)
      /\ \A k \in 1 .. n : Flat(cs, k) = Flat(cs, k - 1) \o cs[k]
  BY <1>1, FlatStep
<1>4. \A a, b \in Seq(C) :
        Mapped(w, a \o b) = Mapped(w, a) \o Mapped(w, b) /\ Mapped(w, a) \in Seq(V)
  BY MappedConcat
<1>5. \A f \in 1 .. n : Mapped(w, cs[f]) \in Seq(V) BY <1>1, <1>4
<1>6. g \in [1 .. n -> Seq(V)] /\ \A k \in 1 .. n : g[k] = Mapped(w, cs[k]) BY <1>1, <1>5
<1> HIDE DEF g
<1>7. Flat(g, 0) = <<>> /\ \A k \in 1 .. n : Flat(g, k) = Flat(g, k - 1) \o g[k]
  BY <1>1, <1>6, FlatStep
<1>8. Mapped(w, <<>>) = <<>>
  <2>1. [j \in DOMAIN <<>> |-> w[<<>>[j]]] = <<>> OBVIOUS
  <2>2. Len(<<>>) = 0 OBVIOUS
  <2> QED BY <2>1, <2>2, Zenon DEF Mapped, FlattenSeq
<1> DEFINE Bad == {k \in Nat : k <= n /\ Mapped(w, Flat(cs, k)) # Flat(g, k)}
<1>9. Bad = {}
  <2> SUFFICES ASSUME Bad # {} PROVE FALSE OBVIOUS
  <2>1. PICK k \in Bad : \A y \in Bad : k <= y
    <3>1. Bad \in SUBSET Nat OBVIOUS
    <3> HIDE DEF Bad
    <3> QED BY <3>1, LeastNatural
  <2>2. k \in Nat /\ k <= n /\ Mapped(w, Flat(cs, k)) # Flat(g, k) OBVIOUS
  <2>3. k # 0 BY <1>3, <1>7, <1>8, <2>2
  <2>4. k - 1 \in Nat /\ k - 1 <= n /\ ~ (k <= k - 1) /\ k \in 1 .. n /\ k - 1 \in 0 .. n
    BY <1>1, <2>2, <2>3
  <2>5. k - 1 \notin Bad BY <2>1, <2>4
  <2>6. Mapped(w, Flat(cs, k - 1)) = Flat(g, k - 1) BY <2>4, <2>5
  <2>7. /\ Flat(cs, k) = Flat(cs, k - 1) \o cs[k]
        /\ Flat(g, k) = Flat(g, k - 1) \o g[k] /\ g[k] = Mapped(w, cs[k])
        /\ Flat(cs, k - 1) \in Seq(C) /\ cs[k] \in Seq(C)
    BY <1>1, <1>3, <1>6, <1>7, <2>4
  <2>8. Mapped(w, Flat(cs, k)) = Mapped(w, Flat(cs, k - 1)) \o Mapped(w, cs[k])
    BY <1>4, <2>7
  <2> QED BY <2>2, <2>6, <2>7, <2>8
<1>10. Mapped(w, Flat(cs, n)) = Flat(g, n)
  <2>1. n \in Nat /\ n <= n BY <1>1
  <2> QED BY <1>9, <2>1
<1> QED BY <1>1, <1>2, <1>5, <1>10 DEF n, g, ListByList

===============================================================================
