---------------------------- MODULE KpiCalcProofs ----------------------------
(* Proofs about KpiCalc, for all times, values and numbers of rows.        *)
EXTENDS KpiCalc, FiniteSetTheorems, SequenceTheorems, WellFoundedInduction, TLAPS

(* Induction over the subsets of a finite set, for a set of good ones      *)
LEMMA SetInduction ==
  ASSUME NEW S, IsFiniteSet(S), NEW Good,
         \A s \in SUBSET S : (\A t \in SUBSET s : t # s => t \in Good) => s \in Good
  PROVE  \A s \in SUBSET S : s \in Good
<1> DEFINE bad == {s \in SUBSET S : s \notin Good}
<1>1. SUFFICES ASSUME bad # {}
               PROVE  FALSE
  OBVIOUS
<1>2. bad \subseteq FiniteSubsetsOf(S)
  BY FS_FiniteSubsetsOfFinite
<1>3. \E s \in bad : \A t \in bad : ~ (<<t, s>> \in StrictSubsetOrdering(S))
  <2> HIDE DEF bad
  <2> QED
    BY <1>1, <1>2, FS_StrictSubsetOrderingWellFounded, WFMin
<1>4. PICK s \in SUBSET S : s \notin Good /\ \A t \in bad : ~ (<<t, s>> \in StrictSubsetOrdering(S))
  BY <1>3
<1>5. \A t \in SUBSET s : t # s => t \in Good
  BY <1>4 DEF StrictSubsetOrdering
<1>6. QED
  BY <1>4, <1>5

-----------------------------------------------------------------------------
(* Sums.  MapThenSumSet takes the elements of a set one by one, in the     *)
(* order of CHOOSE; of the function that it thus defines by recursion it   *)
(* must be shown first that there is one.                                  *)

SumOn(f, S) == MapThenSumSet(LAMBDA x : f[x], S)

Chosen(s) == CHOOSE x \in s : TRUE

Folded(f, g, s) == IF s = {} THEN 0 ELSE f[Chosen(s)] + g[s \ {Chosen(s)}]

IsFold(f, S, g) == g = [s \in SUBSET S |-> Folded(f, g, s)]

(* MapThenSumSet by its definition                                         *)
LEMMA SumOnIs ==
  ASSUME NEW f, NEW S
  PROVE  SumOn(f, S) = (CHOOSE g : IsFold(f, S, g))[S]
BY Zenon DEF SumOn, MapThenSumSet, MapThenFoldSet, IsFold, Folded, Chosen

(* CHOOSE takes an element of the set.                                     *)
LEMMA ChosenIs ==
  ASSUME NEW s, s # {}
  PROVE  Chosen(s) \in s
BY DEF Chosen

(* By the size of the sets: what fits those of less than n elements is     *)
(* continued to those of n.                                                *)
LEMMA FoldExists ==
  ASSUME NEW f, NEW S, IsFiniteSet(S)
  PROVE  \E g : IsFold(f, S, g)
<1> DEFINE small(n) == {s \in SUBSET S : Cardinality(s) <= n}
           fits(g, n) == \A s \in small(n) : g[s] = Folded(f, g, s)
           bad == {n \in Nat : ~ \E g : fits(g, n)}
<1>1. \A s \in SUBSET S : IsFiniteSet(s) /\ Cardinality(s) \in Nat
  BY FS_Subset, FS_CardinalityType
<1>2. \A s \in SUBSET S : s # {} =>
        s \ {Chosen(s)} \in SUBSET S /\ Cardinality(s \ {Chosen(s)}) = Cardinality(s) - 1
  BY <1>1, ChosenIs, FS_RemoveElement
<1>3. \E g : fits(g, 0)
  <2> DEFINE g == [s \in SUBSET S |-> 0]
  <2>1. ASSUME NEW s \in small(0)
        PROVE  g[s] = Folded(f, g, s)
    <3>1. Cardinality(s) = 0
      BY <1>1
    <3>2. s = {}
      BY <1>1, <3>1, FS_EmptySet
    <3>3. QED
      BY <3>2 DEF Folded
  <2>2. fits(g, 0)
    BY <2>1
  <2>3. QED
    BY <2>2
<1>4. ASSUME NEW n \in Nat, n # 0, NEW h, fits(h, n - 1)
      PROVE  \E g : fits(g, n)
  <2> DEFINE g == [s \in SUBSET S |-> IF Cardinality(s) < n THEN h[s] ELSE Folded(f, h, s)]
  <2>1. ASSUME NEW s \in small(n)
        PROVE  g[s] = Folded(f, g, s)
    <3>1. g[s] = Folded(f, h, s)
      <4>1. CASE Cardinality(s) < n
        <5>1. s \in small(n - 1)
          BY <1>1, <4>1
        <5>2. h[s] = Folded(f, h, s)
          BY <1>4, <5>1
        <5>3. QED
          BY <4>1, <5>2
      <4>2. CASE ~ (Cardinality(s) < n)
        BY <4>2
      <4>3. QED
        BY <4>1, <4>2
    <3>2. CASE s = {}
      BY <3>1, <3>2 DEF Folded
    <3>3. CASE s # {}
      <4>1. s \ {Chosen(s)} \in SUBSET S /\ Cardinality(s \ {Chosen(s)}) < n
        <5>1. Cardinality(s) \in Nat /\ Cardinality(s) <= n
          BY <1>1
        <5>2. Cardinality(s \ {Chosen(s)}) = Cardinality(s) - 1
          BY <1>2, <3>3
        <5>3. QED
          BY <1>2, <3>3, <5>1, <5>2
      <4>2. g[s \ {Chosen(s)}] = h[s \ {Chosen(s)}]
        BY <4>1
      <4>3. QED
        BY <3>1, <3>3, <4>2 DEF Folded
    <3>4. QED
      BY <3>2, <3>3
  <2>2. fits(g, n)
    BY <2>1
  <2>3. QED
    BY <2>2
<1>5. bad = {}
  <2>1. SUFFICES ASSUME bad # {}
                 PROVE  FALSE
    OBVIOUS
  <2>2. \E n \in bad : \A m \in bad : ~ (<<m, n>> \in OpToRel(<, Nat))
    <3>1. bad \subseteq Nat
      OBVIOUS
    <3> HIDE DEF bad
    <3> QED
      BY <2>1, <3>1, NatLessThanWellFounded, WFMin
  <2>3. PICK n \in Nat : n \in bad /\ \A m \in bad : ~ (<<m, n>> \in OpToRel(<, Nat))
    BY <2>2
  <2>4. n # 0
    BY <1>3, <2>3
  <2>5. n - 1 \in Nat /\ n - 1 < n
    BY <2>4
  <2>6. n - 1 \notin bad
    BY <2>3, <2>5 DEF OpToRel
  <2>7. PICK h : fits(h, n - 1)
    BY <2>5, <2>6
  <2>8. \E g : fits(g, n)
    BY <1>4, <2>4, <2>7
  <2>9. QED
    BY <2>3, <2>8
<1>6. PICK h : fits(h, Cardinality(S))
  BY <1>1, <1>5
<1>7. \A s \in SUBSET S : s \in small(Cardinality(S))
  BY FS_Subset
<1> DEFINE g == [s \in SUBSET S |-> h[s]]
<1>8. ASSUME NEW s \in SUBSET S
      PROVE  h[s] = Folded(f, g, s)
  <2>1. h[s] = Folded(f, h, s)
    BY <1>6, <1>7
  <2>2. s # {} => g[s \ {Chosen(s)}] = h[s \ {Chosen(s)}]
    OBVIOUS
  <2>3. QED
    BY <2>1, <2>2 DEF Folded
<1>9. IsFold(f, S, g)
  BY <1>8 DEF IsFold
<1>10. QED
  BY <1>9

(* So SumOn is any such function, of a set that contains the set.          *)
LEMMA FoldIs ==
  ASSUME NEW f, NEW S, IsFiniteSet(S), NEW g, IsFold(f, S, g)
  PROVE  \A T \in SUBSET S : SumOn(f, T) = g[T]
<1> SUFFICES ASSUME NEW T \in SUBSET S
             PROVE  SumOn(f, T) = g[T]
  OBVIOUS
<1>1. IsFiniteSet(T)
  BY FS_Subset
<1>2. PICK h : IsFold(f, T, h) /\ SumOn(f, T) = h[T]
  <2>1. \E h : IsFold(f, T, h)
    BY <1>1, FoldExists
  <2>2. IsFold(f, T, CHOOSE h : IsFold(f, T, h))
    BY <2>1
  <2>3. QED
    BY <2>2, SumOnIs
<1> DEFINE Good == {s \in SUBSET T : g[s] = h[s]}
<1>3. ASSUME NEW s \in SUBSET T, \A t \in SUBSET s : t # s => t \in Good
      PROVE  s \in Good
  <2>1. g[s] = Folded(f, g, s) /\ h[s] = Folded(f, h, s)
    BY <1>2 DEF IsFold
  <2>2. s # {} => s \ {Chosen(s)} \in Good
    BY <1>3, ChosenIs
  <2>3. QED
    BY <2>1, <2>2 DEF Folded
<1>4. T \in Good
  <2> HIDE DEF Good
  <2> QED
    BY <1>1, <1>3, SetInduction
<1>5. QED
  BY <1>2, <1>4

(* The sum of nothing is 0.                                                *)
LEMMA SumEmpty ==
  ASSUME NEW f
  PROVE  SumOn(f, {}) = 0
<1>1. IsFiniteSet({})
  BY FS_EmptySet
<1>2. PICK g : IsFold(f, {}, g)
  BY <1>1, FoldExists
<1>3. g[{}] = 0
  BY <1>2 DEF IsFold, Folded
<1>4. QED
  BY <1>1, <1>2, <1>3, FoldIs

(* Any element can be taken out of a sum of integers.                      *)
LEMMA SumRemove ==
  ASSUME NEW S, IsFiniteSet(S), NEW f, \A x \in S : f[x] \in Int
  PROVE  /\ SumOn(f, S) \in Int
         /\ \A x \in S : SumOn(f, S) = f[x] + SumOn(f, S \ {x})
<1>1. PICK g : IsFold(f, S, g)
  BY FoldExists
<1>2. \A s \in SUBSET S : SumOn(f, s) = g[s] /\ g[s] = Folded(f, g, s)
  <2>1. \A s \in SUBSET S : g[s] = Folded(f, g, s)
    BY <1>1 DEF IsFold
  <2>2. QED
    BY <1>1, <2>1, FoldIs
<1> DEFINE Good == {s \in SUBSET S : g[s] \in Int /\ \A x \in s : g[s] = f[x] + g[s \ {x}]}
<1>3. ASSUME NEW s \in SUBSET S, \A t \in SUBSET s : t # s => t \in Good
      PROVE  s \in Good
  <2>1. CASE s = {}
    <3>1. g[s] = 0
      BY <1>2, <2>1 DEF Folded
    <3>2. QED
      BY <2>1, <3>1
  <2>2. CASE s # {}
    <3>1. PICK c \in s : c = Chosen(s)
      BY <2>2, ChosenIs
    <3>2. g[s] = f[c] + g[s \ {c}]
      BY <1>2, <2>2, <3>1 DEF Folded
    <3>3. s \ {c} \in Good
      BY <1>3
    <3>4. g[s] \in Int
      BY <3>2, <3>3
    <3>5. ASSUME NEW x \in s, x # c
          PROVE  g[s] = f[x] + g[s \ {x}]
      <4>1. g[s \ {c}] = f[x] + g[(s \ {c}) \ {x}]
        BY <3>3, <3>5
      <4>2. s \ {x} \in Good
        BY <1>3
      <4>3. g[s \ {x}] = f[c] + g[(s \ {x}) \ {c}]
        BY <3>5, <4>2
      <4>4. (s \ {x}) \ {c} = (s \ {c}) \ {x} /\ (s \ {c}) \ {x} \in Good
        BY <1>3
      <4>5. PICK r \in Int : r = g[(s \ {c}) \ {x}]
        BY <4>4
      <4>6. f[x] \in Int /\ f[c] \in Int
        OBVIOUS
      <4>7. g[s] = f[c] + (f[x] + r)
        BY ONLY <3>2, <4>1, <4>5
      <4>8. g[s \ {x}] = f[c] + r
        BY ONLY <4>3, <4>4, <4>5
      <4>9. QED
        BY ONLY <4>6, <4>7, <4>8
    <3>6. QED
      BY <3>2, <3>4, <3>5
  <2>3. QED
    BY <2>1, <2>2
<1>4. S \in Good
  <2> HIDE DEF Good
  <2> QED
    BY <1>3, SetInduction
<1>5. QED
  BY <1>2, <1>4

(* A sum over two sets without a common element                            *)
LEMMA SumUnion ==
  ASSUME NEW A, NEW B, IsFiniteSet(A), IsFiniteSet(B), A \cap B = {},
         NEW f, \A x \in A \cup B : f[x] \in Int
  PROVE  SumOn(f, A \cup B) = SumOn(f, A) + SumOn(f, B)
<1> DEFINE Good == {s \in SUBSET A : SumOn(f, s \cup B) = SumOn(f, s) + SumOn(f, B)}
<1>1. SumOn(f, B) \in Int
  BY SumRemove
<1>2. ASSUME NEW s \in SUBSET A, \A t \in SUBSET s : t # s => t \in Good
      PROVE  s \in Good
  <2>1. CASE s = {}
    <3>1. s \cup B = B
      BY <2>1
    <3>2. SumOn(f, s) = 0
      BY <2>1, SumEmpty
    <3>3. QED
      BY <1>1, <3>1, <3>2
  <2>2. CASE s # {}
    <3>1. PICK x \in s : TRUE
      BY <2>2
    <3>2. s \ {x} \in Good
      BY <1>2
    <3>3. IsFiniteSet(s) /\ IsFiniteSet(s \ {x}) /\ IsFiniteSet(s \cup B)
      <4>1. IsFiniteSet(s)
        BY FS_Subset
      <4>2. QED
        BY <4>1, FS_Union, FS_RemoveElement
    <3>4. SumOn(f, s) = f[x] + SumOn(f, s \ {x})
      BY <3>3, SumRemove
    <3>5. (s \cup B) \ {x} = (s \ {x}) \cup B
      OBVIOUS
    <3>6. SumOn(f, s \cup B) = f[x] + SumOn(f, (s \cup B) \ {x})
      BY <3>3, SumRemove
    <3>7. SumOn(f, s \ {x}) \in Int /\ f[x] \in Int
      BY <3>3, SumRemove
    <3>8. SumOn(f, (s \ {x}) \cup B) = SumOn(f, s \ {x}) + SumOn(f, B)
      BY <3>2
    <3>9. SumOn(f, s \cup B) = SumOn(f, s) + SumOn(f, B)
      <4>1. PICK r \in Int : r = SumOn(f, s \ {x})
        BY <3>7
      <4>2. SumOn(f, s \cup B) = f[x] + (r + SumOn(f, B))
        BY ONLY <3>5, <3>6, <3>8, <4>1
      <4>3. SumOn(f, s) = f[x] + r
        BY ONLY <3>4, <4>1
      <4>4. QED
        BY ONLY <1>1, <3>7, <4>2, <4>3
    <3>10. QED
      BY <3>9
  <2>3. QED
    BY <2>1, <2>2
<1>3. A \in Good
  <2> HIDE DEF Good
  <2> QED
    BY <1>2, SetInduction
<1>4. QED
  BY <1>3

(* A sum of natural numbers is one.                                        *)
LEMMA SumNat ==
  ASSUME NEW S, IsFiniteSet(S), NEW f, \A x \in S : f[x] \in Nat
  PROVE  SumOn(f, S) \in Nat
<1> DEFINE Good == {s \in SUBSET S : SumOn(f, s) \in Nat}
<1>1. ASSUME NEW s \in SUBSET S, \A t \in SUBSET s : t # s => t \in Good
      PROVE  s \in Good
  <2>1. CASE s = {}
    BY <2>1, SumEmpty
  <2>2. CASE s # {}
    <3>1. PICK x \in s : TRUE
      BY <2>2
    <3>2. SumOn(f, s \ {x}) \in Nat /\ f[x] \in Nat
      BY <1>1
    <3>3. IsFiniteSet(s) /\ \A y \in s : f[y] \in Int
      BY FS_Subset
    <3>4. SumOn(f, s) = f[x] + SumOn(f, s \ {x})
      BY <3>3, SumRemove
    <3>5. SumOn(f, s) \in Nat
      BY ONLY <3>2, <3>4
    <3>6. QED
      BY <3>5
  <2>3. QED
    BY <2>1, <2>2
<1>2. S \in Good
  <2> HIDE DEF Good
  <2> QED
    BY <1>1, SetInduction
<1>3. QED
  BY <1>2

(* Zeros add nothing.                                                      *)
LEMMA SumZero ==
  ASSUME NEW S, IsFiniteSet(S), NEW f, \A x \in S : f[x] = 0
  PROVE  SumOn(f, S) = 0
<1> DEFINE Good == {s \in SUBSET S : SumOn(f, s) = 0}
<1>1. ASSUME NEW s \in SUBSET S, \A t \in SUBSET s : t # s => t \in Good
      PROVE  s \in Good
  <2>1. CASE s = {}
    BY <2>1, SumEmpty
  <2>2. CASE s # {}
    <3>1. PICK x \in s : TRUE
      BY <2>2
    <3>2. SumOn(f, s \ {x}) = 0 /\ f[x] = 0
      BY <1>1
    <3>3. IsFiniteSet(s) /\ \A y \in s : f[y] \in Int
      BY FS_Subset
    <3>4. SumOn(f, s) = f[x] + SumOn(f, s \ {x})
      BY <3>3, SumRemove
    <3>5. SumOn(f, s) = 0
      BY ONLY <3>2, <3>4
    <3>6. QED
      BY <3>5
  <2>3. QED
    BY <2>1, <2>2
<1>2. S \in Good
  <2> HIDE DEF Good
  <2> QED
    BY <1>1, SetInduction
<1>3. QED
  BY <1>2

(* A sum over other indices: h leads from those of f to those of g, and    *)
(* what it does not reach is 0.                                            *)
LEMMA SumMatches ==
  ASSUME NEW S, NEW T, IsFiniteSet(S), IsFiniteSet(T),
         NEW f, \A x \in S : f[x] \in Int,
         NEW g, \A y \in T : g[y] \in Int,
         NEW h \in [S -> T],
         \A x, y \in S : h[x] = h[y] => x = y,
         \A x \in S : f[x] = g[h[x]],
         \A y \in T : (\A x \in S : h[x] # y) => g[y] = 0
  PROVE  SumOn(f, S) = SumOn(g, T)
<1> DEFINE image(s) == {h[x] : x \in s}
           Good == {s \in SUBSET S : SumOn(f, s) = SumOn(g, image(s))}
<1>1. ASSUME NEW s \in SUBSET S, \A t \in SUBSET s : t # s => t \in Good
      PROVE  s \in Good
  <2>1. CASE s = {}
    <3>1. image(s) = {}
      BY <2>1
    <3>2. SumOn(f, s) = 0 /\ SumOn(g, image(s)) = 0
      BY <2>1, <3>1, SumEmpty
    <3>3. QED
      BY <3>2
  <2>2. CASE s # {}
    <3>1. PICK x \in s : TRUE
      BY <2>2
    <3>2. IsFiniteSet(s) /\ \A y \in s : f[y] \in Int
      BY FS_Subset
    <3>3. image(s) \in SUBSET T /\ h[x] \in image(s)
      OBVIOUS
    <3>4. IsFiniteSet(image(s)) /\ \A y \in image(s) : g[y] \in Int
      BY <3>3, FS_Subset
    <3>5. SumOn(f, s) = f[x] + SumOn(f, s \ {x})
      BY <3>2, SumRemove
    <3>6. SumOn(g, image(s)) = g[h[x]] + SumOn(g, image(s) \ {h[x]})
      <4> HIDE DEF image
      <4> QED
        BY <3>3, <3>4, SumRemove
    <3>7. image(s \ {x}) = image(s) \ {h[x]}
      OBVIOUS
    <3>8. SumOn(f, s \ {x}) = SumOn(g, image(s \ {x}))
      BY <1>1
    <3>9. f[x] = g[h[x]]
      OBVIOUS
    <3>10. SumOn(f, s) = SumOn(g, image(s))
      BY ONLY <3>5, <3>6, <3>7, <3>8, <3>9
    <3>11. QED
      BY <3>10
  <2>3. QED
    BY <2>1, <2>2
<1>2. S \in Good
  <2> HIDE DEF Good
  <2> QED
    BY <1>1, SetInduction
<1>3. SumOn(f, S) = SumOn(g, image(S))
  BY <1>2
<1>4. image(S) \in SUBSET T /\ \A y \in T \ image(S) : g[y] = 0
  OBVIOUS
<1> HIDE DEF image
<1>5. IsFiniteSet(image(S)) /\ IsFiniteSet(T \ image(S))
  BY <1>4, FS_Subset, FS_Difference
<1>6. SumOn(g, T \ image(S)) = 0
  BY <1>4, <1>5, SumZero
<1>7. image(S) \cup (T \ image(S)) = T /\ image(S) \cap (T \ image(S)) = {}
  BY <1>4
<1>8. SumOn(g, T) = SumOn(g, image(S)) + SumOn(g, T \ image(S))
  BY <1>5, <1>7, SumUnion
<1>9. SumOn(g, image(S)) \in Int
  BY <1>4, <1>5, SumRemove
<1>10. QED
  BY ONLY <1>3, <1>6, <1>8, <1>9

-----------------------------------------------------------------------------
(* The tables                                                              *)

(* The rows are those that were put in, finitely many.                     *)
Filled(table, times, values) ==
  /\ DOMAIN table \subseteq times /\ IsFiniteSet(DOMAIN table)
  /\ \A t \in DOMAIN table : table[t] \in values \cup {Null}

TablesInv ==
  /\ Filled(energy_data, EnergyTimes, EnergyValues)
  /\ Filled(production_data, ProductionTimes, ProductionValues)

(* An upsert adds one row, or changes it.                                  *)
LEMMA UpsertedIs ==
  ASSUME NEW times, NEW values, NEW table, Filled(table, times, values),
         NEW t \in times, NEW v \in values \cup {Null}
  PROVE  Filled(Upserted(table, t, v), times, values)
<1>1. DOMAIN Upserted(table, t, v) = DOMAIN table \cup {t}
  BY DEF Upserted
<1>2. IsFiniteSet(DOMAIN table \cup {t})
  BY FS_AddElement DEF Filled
<1>3. \A u \in DOMAIN table \cup {t} : Upserted(table, t, v)[u] = IF u = t THEN v ELSE table[u]
  BY DEF Upserted
<1>4. QED
  BY <1>1, <1>2, <1>3 DEF Filled

(* Nothing else comes into the tables.                                     *)
LEMMA TablesTheorem == Spec => []TablesInv
<1>1. Init => TablesInv
  BY FS_EmptySet DEF Init, EmptyTable, TablesInv, Filled
<1>2. ASSUME TablesInv, [Next]_vars
      PROVE  TablesInv'
  <2>1. ASSUME NEW t \in EnergyTimes, NEW v \in EnergyValues \cup {Null}, UpsertEnergy(t, v)
        PROVE  TablesInv'
    <3>1. energy_data' = Upserted(energy_data, t, v) /\ production_data' = production_data
      BY <2>1 DEF UpsertEnergy
    <3>2. QED
      BY <1>2, <3>1, UpsertedIs DEF TablesInv
  <2>2. ASSUME NEW t \in ProductionTimes, NEW v \in ProductionValues \cup {Null},
               UpsertProduction(t, v)
        PROVE  TablesInv'
    <3>1. production_data' = Upserted(production_data, t, v) /\ energy_data' = energy_data
      BY <2>2 DEF UpsertProduction
    <3>2. QED
      BY <1>2, <3>1, UpsertedIs DEF TablesInv
  <2>3. CASE Clean
    BY <2>3, FS_EmptySet DEF Clean, EmptyTable, TablesInv, Filled
  <2>4. CASE UNCHANGED vars
    BY <1>2, <2>4 DEF vars, TablesInv
  <2>5. QED
    BY <1>2, <2>1, <2>2, <2>3, <2>4 DEF Next
<1>3. QED
  BY <1>1, <1>2, PTL DEF Spec

-----------------------------------------------------------------------------
(* The production                                                          *)

(* The production is a sum over the table.                                 *)
LEMMA ProductionSumIs ==
  ASSUME NEW from, NEW to
  PROVE  ProductionSum(from, to) = SumOn(production_data, GetProduction(from, to))
BY Zenon DEF ProductionSum, SumOn

(* What is produced in a period                                            *)
LEMMA ProductionRows ==
  ASSUME TablesInv, NEW from, NEW to
  PROVE  /\ IsFiniteSet(GetProduction(from, to))
         /\ \A t \in GetProduction(from, to) : production_data[t] \in Nat
         /\ ProductionSum(from, to) \in Nat
<1>1. /\ GetProduction(from, to) \in SUBSET DOMAIN production_data
      /\ \A t \in GetProduction(from, to) : production_data[t] # Null
  BY DEF GetProduction, NotNull
<1>2. IsFiniteSet(GetProduction(from, to))
  BY <1>1, FS_Subset DEF TablesInv, Filled
<1>3. \A t \in GetProduction(from, to) : production_data[t] \in Nat
  BY <1>1, ValuesAssumption DEF TablesInv, Filled
<1>4. QED
  BY <1>2, <1>3, ProductionSumIs, SumNat

(* Whatever was produced and whenever: days that follow one another share  *)
(* it out.                                                                 *)
THEOREM ProductionTheorem == Spec => []ProductionCountsOnce
<1>1. TablesInv => ProductionCountsOnce
  <2> SUFFICES ASSUME TablesInv, NEW p \in Periods, NEW q \in Periods, p[2] = q[1]
               PROVE  ProductionSum(p[1], p[2]) + ProductionSum(q[1], q[2]) =
                        ProductionSum(p[1], q[2])
    BY DEF ProductionCountsOnce
  <2> DEFINE A == GetProduction(p[1], p[2])
             B == GetProduction(q[1], q[2])
  <2>1. /\ p[1] \in Nat /\ p[2] \in Nat /\ q[1] \in Nat /\ q[2] \in Nat
        /\ p[1] < p[2] /\ q[1] < q[2]
    BY TimesAssumption DEF Periods
  <2>2. \A t \in NotNull(production_data) : t \in Nat
    BY TimesAssumption DEF NotNull, TablesInv, Filled
  <2>3. GetProduction(p[1], q[2]) = A \cup B /\ A \cap B = {}
    BY <2>1, <2>2 DEF GetProduction
  <2>4. /\ IsFiniteSet(A) /\ IsFiniteSet(B)
        /\ \A t \in A \cup B : production_data[t] \in Int
    BY ProductionRows
  <2> HIDE DEF A, B
  <2>5. SumOn(production_data, A \cup B) = SumOn(production_data, A) + SumOn(production_data, B)
    BY <2>3, <2>4, SumUnion
  <2>6. QED
    BY <2>3, <2>5, ProductionSumIs DEF A, B
<1>2. QED
  BY <1>1, TablesTheorem, PTL

-----------------------------------------------------------------------------
(* The scan                                                                *)

(* The readings and their values are natural numbers.                      *)
LEMMA ReadingsAre ==
  ASSUME TablesInv
  PROVE  /\ IsFiniteSet(NotNull(energy_data)) /\ NotNull(energy_data) \subseteq EnergyTimes
         /\ \A t \in NotNull(energy_data) : t \in Nat /\ energy_data[t] \in EnergyValues
                                            /\ energy_data[t] \in Nat
<1>1. /\ NotNull(energy_data) \in SUBSET DOMAIN energy_data
      /\ \A t \in NotNull(energy_data) : energy_data[t] # Null
  BY DEF NotNull
<1>2. IsFiniteSet(NotNull(energy_data))
  BY <1>1, FS_Subset DEF TablesInv, Filled
<1>3. QED
  BY <1>1, <1>2, TimesAssumption, ValuesAssumption DEF TablesInv, Filled

(* Both orders are linear.                                                 *)
LEMMA PrecedesIsLinear ==
  ASSUME NEW S, \A t \in S : t \in Nat /\ energy_data[t] \in Nat, NEW scan
  PROVE  /\ \A t \in S : ~Precedes(t, t, scan)
         /\ \A t, u \in S : t = u \/ Precedes(t, u, scan) \/ Precedes(u, t, scan)
         /\ \A t, u, v \in S : Precedes(t, u, scan) /\ Precedes(u, v, scan) => Precedes(t, v, scan)
<1>1. CASE scan = "by energy"
  <2>1. \A t, u \in S : Precedes(t, u, scan) <=>
          energy_data[t] < energy_data[u] \/ (energy_data[t] = energy_data[u] /\ t < u)
    BY <1>1 DEF Precedes
  <2>2. ASSUME NEW t \in S, NEW u \in S, NEW v \in S
        PROVE  /\ ~Precedes(t, t, scan)
               /\ t = u \/ Precedes(t, u, scan) \/ Precedes(u, t, scan)
               /\ Precedes(t, u, scan) /\ Precedes(u, v, scan) => Precedes(t, v, scan)
    <3>1. PICK a \in Nat, b \in Nat, c \in Nat :
            a = energy_data[t] /\ b = energy_data[u] /\ c = energy_data[v]
      OBVIOUS
    <3>2. t \in Nat /\ u \in Nat /\ v \in Nat
      OBVIOUS
    <3>3. /\ Precedes(t, t, scan) <=> a < a \/ (a = a /\ t < t)
          /\ Precedes(t, u, scan) <=> a < b \/ (a = b /\ t < u)
          /\ Precedes(u, t, scan) <=> b < a \/ (b = a /\ u < t)
          /\ Precedes(u, v, scan) <=> b < c \/ (b = c /\ u < v)
          /\ Precedes(t, v, scan) <=> a < c \/ (a = c /\ t < v)
      BY <2>1, <3>1
    <3>4. QED
      BY ONLY <3>2, <3>3
  <2>3. QED
    BY <2>2
<1>2. CASE scan # "by energy"
  <2>1. \A t, u \in S : Precedes(t, u, scan) <=> t < u
    BY <1>2 DEF Precedes
  <2>2. QED
    BY <2>1
<1>3. QED
  BY <1>1, <1>2

Rank(S, t, scan) == Cardinality({u \in S : Precedes(u, t, scan)})

(* So the ranks are those from 0 on, without a gap.                        *)
LEMMA RankIs ==
  ASSUME NEW S, IsFiniteSet(S), \A t \in S : t \in Nat /\ energy_data[t] \in Nat, NEW scan
  PROVE  /\ \A t \in S : Rank(S, t, scan) + 1 \in 1..Cardinality(S)
         /\ \A t, u \in S : Precedes(t, u, scan) => Rank(S, t, scan) < Rank(S, u, scan)
         /\ \A k \in 1..Cardinality(S) : \E t \in S : Rank(S, t, scan) = k - 1
<1> DEFINE before(t) == {u \in S : Precedes(u, t, scan)}
<1>1. Cardinality(S) \in Nat
  BY FS_CardinalityType
<1>2. \A t \in S : IsFiniteSet(before(t)) /\ Cardinality(before(t)) \in Nat
  <2>1. ASSUME NEW t \in S
        PROVE  IsFiniteSet(before(t))
    BY FS_Subset
  <2>2. QED
    BY <2>1, FS_CardinalityType
<1>3. ASSUME NEW t \in S, NEW T, IsFiniteSet(T), before(t) \subseteq T, t \in T
      PROVE  Cardinality(before(t)) < Cardinality(T)
  <2>1. t \notin before(t)
    BY PrecedesIsLinear
  <2> HIDE DEF before
  <2>2. before(t) # T
    BY <1>3, <2>1
  <2>3. Cardinality(before(t)) <= Cardinality(T) /\ Cardinality(before(t)) # Cardinality(T)
    BY <1>3, <2>2, FS_Subset
  <2>4. Cardinality(T) \in Nat
    BY <1>3, FS_CardinalityType
  <2>5. QED
    BY <1>2, <2>3, <2>4
<1>4. \A t \in S : Rank(S, t, scan) = Cardinality(before(t))
  BY Zenon DEF Rank
<1>5. \A t \in S : Rank(S, t, scan) \in Nat /\ Rank(S, t, scan) < Cardinality(S)
  <2>1. ASSUME NEW t \in S
        PROVE  Cardinality(before(t)) < Cardinality(S)
    BY <1>3
  <2>2. QED
    BY <1>2, <1>4, <2>1
<1>6. ASSUME NEW t \in S, NEW u \in S, Precedes(t, u, scan)
      PROVE  Rank(S, t, scan) < Rank(S, u, scan)
  <2>1. before(t) \subseteq before(u) /\ t \in before(u)
    BY <1>6, PrecedesIsLinear
  <2>2. Cardinality(before(t)) < Cardinality(before(u))
    <3> HIDE DEF before
    <3> QED
      BY <1>2, <1>3, <2>1
  <2>3. QED
    BY <1>4, <2>2
<1> DEFINE position == [t \in S |-> Rank(S, t, scan) + 1]
<1>7. \A t \in S : Rank(S, t, scan) + 1 \in 1..Cardinality(S)
  BY <1>1, <1>5
<1>8. position \in Injection(S, 1..Cardinality(S))
  <2>1. position \in [S -> 1..Cardinality(S)]
    BY <1>7
  <2>2. ASSUME NEW t \in S, NEW u \in S, t # u
        PROVE  position[t] # position[u]
    <3>1. Rank(S, t, scan) # Rank(S, u, scan)
      <4>1. Precedes(t, u, scan) \/ Precedes(u, t, scan)
        BY <2>2, PrecedesIsLinear
      <4>2. QED
        BY <1>5, <1>6, <4>1
    <3>2. QED
      BY <1>5, <3>1
  <2>3. QED
    BY <2>1, <2>2 DEF Injection, IsInjective
<1>9. IsFiniteSet(1..Cardinality(S)) /\ Cardinality(1..Cardinality(S)) = Cardinality(S)
  <2>1. /\ IsFiniteSet(1..Cardinality(S))
        /\ Cardinality(1..Cardinality(S)) =
             IF 1 > Cardinality(S) THEN 0 ELSE Cardinality(S) - 1 + 1
    BY <1>1, FS_Interval, SMTT(60)
  <2>2. QED
    BY ONLY <1>1, <2>1
<1>10. position \in Surjection(S, 1..Cardinality(S))
  <2> HIDE DEF position
  <2> QED
    BY <1>8, <1>9, FS_Injection
<1>11. ASSUME NEW k \in 1..Cardinality(S)
       PROVE  \E t \in S : Rank(S, t, scan) = k - 1
  <2>1. PICK t \in S : position[t] = k
    BY <1>10 DEF Surjection
  <2>2. Rank(S, t, scan) + 1 = k
    BY <2>1
  <2>3. QED
    BY <1>1, <1>5, <2>2
<1>12. QED
  BY <1>6, <1>7, <1>11

(* The scan returns every element once, in the order it follows.           *)
LEMMA ScannedIs ==
  ASSUME NEW S, IsFiniteSet(S), \A t \in S : t \in Nat /\ energy_data[t] \in Nat, NEW scan
  PROVE  /\ Scanned(S, scan) \in Seq(S) /\ Len(Scanned(S, scan)) = Cardinality(S)
         /\ Cardinality(S) \in Nat
         /\ \A k \in 1..Cardinality(S) : Scanned(S, scan)[k] \in S
                                         /\ Rank(S, Scanned(S, scan)[k], scan) = k - 1
         /\ \A t \in S : \E k \in 1..Cardinality(S) : Scanned(S, scan)[k] = t
         /\ \A i, j \in 1..Cardinality(S) :
              i < j => Precedes(Scanned(S, scan)[i], Scanned(S, scan)[j], scan)
<1> DEFINE rows == Scanned(S, scan)
<1>1. Cardinality(S) \in Nat
  BY FS_CardinalityType
<1>2. rows = [k \in 1..Cardinality(S) |-> CHOOSE t \in S : Rank(S, t, scan) = k - 1]
  BY Zenon DEF Scanned, Rank
<1> HIDE DEF rows
<1>3. \A k \in 1..Cardinality(S) : rows[k] \in S /\ Rank(S, rows[k], scan) = k - 1
  <2>1. ASSUME NEW k \in 1..Cardinality(S)
        PROVE  rows[k] \in S /\ Rank(S, rows[k], scan) = k - 1
    <3>1. rows[k] = CHOOSE t \in S : Rank(S, t, scan) = k - 1
      BY <1>2
    <3>2. \E t \in S : Rank(S, t, scan) = k - 1
      BY RankIs
    <3>3. QED
      BY <3>1, <3>2
  <2>2. QED
    BY <2>1
<1>4. rows \in [1..Cardinality(S) -> S]
  BY <1>2, <1>3
<1>5. rows \in Seq(S) /\ Len(rows) = Cardinality(S)
  BY <1>1, <1>4
<1>6. ASSUME NEW t \in S
      PROVE  rows[Rank(S, t, scan) + 1] = t /\ Rank(S, t, scan) + 1 \in 1..Cardinality(S)
  <2>1. PICK k \in 1..Cardinality(S) : k = Rank(S, t, scan) + 1
    BY RankIs
  <2>2. rows[k] \in S /\ Rank(S, rows[k], scan) = k - 1
    BY <1>3
  <2>3. \A u, v \in S : Rank(S, u, scan) + 1 \in 1..Cardinality(S)
    BY RankIs
  <2>4. \A u, v \in S : u = v \/ Rank(S, u, scan) < Rank(S, v, scan)
                          \/ Rank(S, v, scan) < Rank(S, u, scan)
    BY RankIs, PrecedesIsLinear
  <2>5. ~ (k - 1 < k - 1) /\ Rank(S, t, scan) = k - 1
    <3>1. PICK r \in Nat : r = Rank(S, t, scan)
      BY FS_Subset, FS_CardinalityType DEF Rank
    <3>2. QED
      BY ONLY <2>1, <3>1
  <2>6. rows[k] = t
    BY <2>2, <2>4, <2>5
  <2>7. QED
    BY <2>1, <2>6
<1>7. ASSUME NEW i \in 1..Cardinality(S), NEW j \in 1..Cardinality(S), i < j
      PROVE  Precedes(rows[i], rows[j], scan)
  <2>1. /\ rows[i] \in S /\ Rank(S, rows[i], scan) = i - 1
        /\ rows[j] \in S /\ Rank(S, rows[j], scan) = j - 1
    BY <1>3
  <2>2. i - 1 # j - 1 /\ ~ (j - 1 < i - 1)
    BY <1>7
  <2>3. ~Precedes(rows[j], rows[i], scan)
    BY <2>1, <2>2, RankIs
  <2>4. rows[i] # rows[j]
    BY <2>1, <2>2
  <2>5. QED
    BY <2>1, <2>3, <2>4, PrecedesIsLinear
<1>8. QED
  BY <1>1, <1>3, <1>5, <1>6, <1>7 DEF rows

-----------------------------------------------------------------------------
(* The rows of get_energy                                                  *)

(* The greatest of a finite set of natural numbers                         *)
LEMMA MaxIs ==
  ASSUME NEW S, IsFiniteSet(S), S \subseteq Nat, S # {}
  PROVE  Max(S) \in S /\ \A t \in S : t <= Max(S)
<1> DEFINE Good == {s \in SUBSET S : s = {} \/ \E t \in s : \A u \in s : t >= u}
<1>1. ASSUME NEW s \in SUBSET S, \A t \in SUBSET s : t # s => t \in Good
      PROVE  s \in Good
  <2>1. CASE s = {}
    BY <2>1
  <2>2. CASE s # {}
    <3>1. PICK t \in s : TRUE
      BY <2>2
    <3>2. CASE s \ {t} = {}
      <4>1. \A u \in s : u = t
        BY <3>2
      <4>2. t \in Nat
        OBVIOUS
      <4>3. QED
        BY <4>1, <4>2
    <3>3. CASE s \ {t} # {}
      <4>1. PICK u \in s \ {t} : \A v \in s \ {t} : u >= v
        <5>1. s \ {t} \in Good
          BY <1>1
        <5>2. QED
          BY <3>3, <5>1
      <4>2. t \in Nat /\ u \in Nat /\ \A v \in s : v \in Nat
        OBVIOUS
      <4>3. CASE t >= u
        <5>1. \A v \in s : t >= v
          BY <4>1, <4>2, <4>3
        <5>2. QED
          BY <5>1
      <4>4. CASE ~ (t >= u)
        <5>1. \A v \in s : u >= v
          BY <4>1, <4>2, <4>4
        <5>2. QED
          BY <5>1
      <4>5. QED
        BY <4>3, <4>4
    <3>4. QED
      BY <3>2, <3>3
  <2>3. QED
    BY <2>1, <2>2
<1>2. S \in Good
  <2> HIDE DEF Good
  <2> QED
    BY <1>1, SetInduction
<1>3. \E t \in S : \A u \in S : t >= u
  BY <1>2
<1>4. Max(S) \in S /\ \A u \in S : Max(S) >= u
  BY <1>3, Zenon DEF Max
<1>5. QED
  BY <1>4

(* The least of a set of natural numbers                                   *)
LEMMA MinIs ==
  ASSUME NEW S, S \subseteq Nat, S # {}
  PROVE  Min(S) \in S /\ \A t \in S : Min(S) <= t
<1>1. PICK t \in S : \A u \in S : ~ (<<u, t>> \in OpToRel(<, Nat))
  BY NatLessThanWellFounded, WFMin
<1>2. \A u \in S : t <= u
  <2>1. ASSUME NEW u \in S
        PROVE  t <= u
    <3>1. u \in Nat /\ t \in Nat
      OBVIOUS
    <3>2. ~ (u < t)
      BY <1>1, <3>1 DEF OpToRel
    <3>3. QED
      BY ONLY <3>1, <3>2
  <2>2. QED
    BY <2>1
<1>3. Min(S) \in S /\ \A u \in S : Min(S) <= u
  BY <1>2, Zenon DEF Min
<1>4. QED
  BY <1>3

(* Three sequences one after the other                                     *)
LEMMA Joined ==
  ASSUME NEW S, NEW L \in Seq(S), NEW W \in Seq(S), NEW E \in Seq(S)
  PROVE  /\ L \o W \o E \in Seq(S) /\ Len(L \o W \o E) = Len(L) + Len(W) + Len(E)
         /\ Len(L) \in Nat /\ Len(W) \in Nat /\ Len(E) \in Nat
         /\ \A k \in 1..Len(L) : (L \o W \o E)[k] = L[k]
         /\ \A k \in 1..Len(W) : (L \o W \o E)[Len(L) + k] = W[k]
         /\ \A k \in 1..Len(E) : (L \o W \o E)[Len(L) + Len(W) + k] = E[k]
<1>1. PICK l \in Nat, w \in Nat, e \in Nat : l = Len(L) /\ w = Len(W) /\ e = Len(E)
  BY LenProperties
<1>2. PICK X \in Seq(S) : X = L \o W
  BY ConcatProperties
<1>3. Len(X) = l + w /\ \A i \in 1..l + w : X[i] = IF i <= l THEN L[i] ELSE W[i - l]
  BY <1>1, <1>2, ConcatProperties
<1>4. PICK Y \in Seq(S) : Y = X \o E
  BY ConcatProperties
<1>5. Len(Y) = l + w + e /\ \A i \in 1..l + w + e : Y[i] = IF i <= l + w THEN X[i] ELSE E[i - (l + w)]
  BY <1>1, <1>3, <1>4, ConcatProperties, SMTT(60)
<1>6. ASSUME NEW k \in 1..l
      PROVE  Y[k] = L[k]
  <2>1. k \in 1..l + w + e /\ k \in 1..l + w /\ k <= l /\ k <= l + w
    OBVIOUS
  <2>2. QED
    BY ONLY <1>3, <1>5, <2>1
<1>7. ASSUME NEW k \in 1..w
      PROVE  Y[l + k] = W[k]
  <2>1. /\ l + k \in 1..l + w + e /\ l + k \in 1..l + w /\ ~ (l + k <= l) /\ l + k <= l + w
        /\ l + k - l = k
    OBVIOUS
  <2>2. QED
    BY ONLY <1>3, <1>5, <2>1
<1>8. ASSUME NEW k \in 1..e
      PROVE  Y[l + w + k] = E[k]
  <2>1. l + w + k \in 1..l + w + e /\ ~ (l + w + k <= l + w) /\ l + w + k - (l + w) = k
    OBVIOUS
  <2>2. QED
    BY ONLY <1>5, <2>1
<1>9. QED
  BY <1>1, <1>2, <1>4, <1>5, <1>6, <1>7, <1>8

Readings == NotNull(energy_data)

Before(from)     == {t \in Readings : t < from}
Within(from, to) == {t \in Readings : from <= t /\ t <= to}
After(to)        == {t \in Readings : t > to}

(* The rows get_energy returns are a of one reading before the period, w   *)
(* within and z after it.                                                  *)
AreRows(rows, from, to, scan, a, w, z) ==
  /\ rows \in Seq(Readings) /\ Len(rows) = a + w + z
  /\ a = 0 <=> Before(from) = {}
  /\ a = 1 => rows[1] \in Before(from) /\ \A t \in Before(from) : t <= rows[1]
  /\ w = Cardinality(Within(from, to))
  /\ \A k \in 1..w : rows[a + k] = Scanned(Within(from, to), scan)[k]
  /\ z = 0 <=> After(to) = {}
  /\ z = 1 => rows[a + w + 1] \in After(to) /\ \A t \in After(to) : rows[a + w + 1] <= t

(* The last reading before the period, if there is one; those within in    *)
(* the order of the scan; the first after it, if there is one.             *)
LEMMA RowsAre ==
  ASSUME TablesInv, NEW from \in Nat, NEW to \in Nat, NEW scan,
         NEW rows, rows = GetEnergy(from, to, scan)
  PROVE  \E a \in {0, 1}, w \in Nat, z \in {0, 1} : AreRows(rows, from, to, scan, a, w, z)
<1> DEFINE L == LatestOf(Before(from))
           W == Scanned(Within(from, to), scan)
           E == EarliestOf(After(to))
<1>1. rows = L \o W \o E
  BY Zenon DEF GetEnergy, Before, Within, After, Readings
<1>2. /\ IsFiniteSet(Readings) /\ \A t \in Readings : t \in Nat /\ energy_data[t] \in Nat
  BY ReadingsAre DEF Readings
<1>3. /\ Before(from) \subseteq Readings /\ Within(from, to) \subseteq Readings
      /\ After(to) \subseteq Readings
  BY DEF Before, Within, After
<1>4. PICK a \in {0, 1} :
        /\ L \in Seq(Readings) /\ Len(L) = a
        /\ a = 0 <=> Before(from) = {}
        /\ a = 1 => L[1] \in Before(from) /\ \A t \in Before(from) : t <= L[1]
  <2>1. CASE Before(from) = {}
    BY <2>1, EmptySeq DEF LatestOf
  <2>2. CASE Before(from) # {}
    <3>1. IsFiniteSet(Before(from)) /\ Before(from) \subseteq Nat
      BY <1>2, <1>3, FS_Subset
    <3>2. Max(Before(from)) \in Before(from) /\ \A t \in Before(from) : t <= Max(Before(from))
      BY <2>2, <3>1, MaxIs
    <3>3. L = <<Max(Before(from))>>
      BY <2>2 DEF LatestOf
    <3>4. QED
      BY <1>3, <2>2, <3>2, <3>3
  <2>3. QED
    BY <2>1, <2>2
<1>5. PICK z \in {0, 1} :
        /\ E \in Seq(Readings) /\ Len(E) = z
        /\ z = 0 <=> After(to) = {}
        /\ z = 1 => E[1] \in After(to) /\ \A t \in After(to) : E[1] <= t
  <2>1. CASE After(to) = {}
    BY <2>1, EmptySeq DEF EarliestOf
  <2>2. CASE After(to) # {}
    <3>1. After(to) \subseteq Nat
      BY <1>2, <1>3
    <3>2. Min(After(to)) \in After(to) /\ \A t \in After(to) : Min(After(to)) <= t
      BY <2>2, <3>1, MinIs
    <3>3. E = <<Min(After(to))>>
      BY <2>2 DEF EarliestOf
    <3>4. QED
      BY <1>3, <2>2, <3>2, <3>3
  <2>3. QED
    BY <2>1, <2>2
<1>6. PICK w \in Nat :
        /\ w = Cardinality(Within(from, to))
        /\ W \in Seq(Readings) /\ Len(W) = w
  <2>1. IsFiniteSet(Within(from, to)) /\ \A t \in Within(from, to) : t \in Nat /\ energy_data[t] \in Nat
    BY <1>2, <1>3, FS_Subset
  <2>2. /\ Cardinality(Within(from, to)) \in Nat /\ W \in Seq(Within(from, to))
        /\ Len(W) = Cardinality(Within(from, to))
    BY <2>1, ScannedIs
  <2>3. W \in Seq(Readings)
    BY <1>3, <2>2
  <2>4. QED
    BY <2>2, <2>3
<1> HIDE DEF L, W, E
<1>7. /\ rows \in Seq(Readings) /\ Len(rows) = a + w + z
      /\ \A k \in 1..a : rows[k] = L[k]
      /\ \A k \in 1..w : rows[a + k] = W[k]
      /\ \A k \in 1..z : rows[a + w + k] = E[k]
  <2>1. /\ rows \in Seq(Readings) /\ Len(rows) = Len(L) + Len(W) + Len(E)
        /\ \A k \in 1..Len(L) : rows[k] = L[k]
        /\ \A k \in 1..Len(W) : rows[Len(L) + k] = W[k]
        /\ \A k \in 1..Len(E) : rows[Len(L) + Len(W) + k] = E[k]
    <3>1. L \in Seq(Readings) /\ W \in Seq(Readings) /\ E \in Seq(Readings)
      BY <1>4, <1>5, <1>6
    <3>2. QED
      BY ONLY <1>1, <3>1, Joined
  <2>2. Len(L) = a /\ Len(W) = w /\ Len(E) = z
    BY <1>4, <1>5, <1>6
  <2>3. QED
    BY ONLY <2>1, <2>2, Zenon
<1>8. a = 1 => rows[1] \in Before(from) /\ \A t \in Before(from) : t <= rows[1]
  BY <1>4, <1>7
<1>9. z = 1 => rows[a + w + 1] \in After(to) /\ \A t \in After(to) : rows[a + w + 1] <= t
  BY <1>5, <1>7
<1>10. \A k \in 1..w : rows[a + k] = Scanned(Within(from, to), scan)[k]
  BY <1>7 DEF W
<1>11. AreRows(rows, from, to, scan, a, w, z)
  BY <1>4, <1>5, <1>6, <1>7, <1>8, <1>9, <1>10 DEF AreRows
<1>12. QED
  BY <1>11

(* Only the first row can lie before the period, only the last after it.   *)
LEMMA RowKinds ==
  ASSUME TablesInv, NEW from \in Nat, NEW to \in Nat, NEW scan,
         NEW rows, rows = GetEnergy(from, to, scan), NEW i \in 1..Len(rows)
  PROVE  /\ rows[i] \in Readings /\ Len(rows) \in Nat
         /\ \/ i = 1 /\ rows[i] \in Before(from)
            \/ rows[i] \in Within(from, to)
            \/ i = Len(rows) /\ rows[i] \in After(to)
<1>1. PICK a \in {0, 1}, w \in Nat, z \in {0, 1} : AreRows(rows, from, to, scan, a, w, z)
  BY RowsAre
<1>2. rows[i] \in Readings /\ Len(rows) \in Nat /\ i \in 1..a + w + z
  BY <1>1 DEF AreRows
<1>3. i <= a \/ (\E k \in 1..w : i = a + k) \/ (z = 1 /\ i = a + w + 1)
  <2>1. SUFFICES ASSUME ~ (i <= a), ~ (z = 1 /\ i = a + w + 1)
                 PROVE  i - a \in 1..w /\ i = a + (i - a)
    OBVIOUS
  <2>2. QED
    BY ONLY <1>2, <2>1, a \in {0, 1}, w \in Nat, z \in {0, 1}
<1>4. CASE i <= a
  <2>1. i = 1 /\ a = 1
    BY ONLY <1>2, <1>4, a \in {0, 1}, w \in Nat, z \in {0, 1}
  <2>2. QED
    BY <1>1, <1>2, <2>1 DEF AreRows
<1>5. ASSUME NEW k \in 1..w, i = a + k
      PROVE  rows[i] \in Within(from, to)
  <2>1. Within(from, to) \subseteq Readings
    BY DEF Within
  <2>2. IsFiniteSet(Within(from, to))
        /\ \A t \in Within(from, to) : t \in Nat /\ energy_data[t] \in Nat
    BY <2>1, ReadingsAre, FS_Subset DEF Readings
  <2>3. Scanned(Within(from, to), scan)[k] \in Within(from, to)
    BY <1>1, <2>2, ScannedIs DEF AreRows
  <2>4. QED
    BY <1>1, <1>5, <2>3 DEF AreRows
<1>6. CASE z = 1 /\ i = a + w + 1
  <2>1. Len(rows) = i
    BY <1>1, <1>6 DEF AreRows
  <2>2. QED
    BY <1>1, <1>2, <1>6, <2>1 DEF AreRows
<1>7. QED
  BY <1>2, <1>3, <1>4, <1>5, <1>6

(* A row that is followed by another does not lie after the period, and    *)
(* the other not before it.                                                *)
LEMMA RowBounds ==
  ASSUME TablesInv, NEW from \in Nat, NEW to \in Nat, from < to, NEW scan,
         NEW rows, rows = GetEnergy(from, to, scan), NEW i \in 1..Len(rows) - 1
  PROVE  /\ Len(rows) \in Nat /\ i \in 1..Len(rows) /\ i + 1 \in 1..Len(rows)
         /\ rows[i] \in Readings /\ rows[i] <= to /\ (i # 1 => from <= rows[i])
         /\ rows[i + 1] \in Readings /\ from <= rows[i + 1]
         /\ i # Len(rows) - 1 => rows[i + 1] <= to
<1>1. PICK a \in {0, 1}, w \in Nat, z \in {0, 1} : AreRows(rows, from, to, scan, a, w, z)
  BY RowsAre
<1>2. Len(rows) \in Nat
  BY <1>1 DEF AreRows
<1>3. i \in 1..Len(rows) /\ i + 1 \in 1..Len(rows) /\ i # Len(rows) /\ i + 1 # 1
  BY <1>2
<1>4. /\ rows[i] \in Readings
      /\ \/ i = 1 /\ rows[i] \in Before(from)
         \/ rows[i] \in Within(from, to)
  BY <1>3, RowKinds
<1>5. /\ rows[i + 1] \in Readings
      /\ \/ rows[i + 1] \in Within(from, to)
         \/ i + 1 = Len(rows) /\ rows[i + 1] \in After(to)
  <2>1. PICK j \in 1..Len(rows) : j = i + 1
    BY <1>3
  <2>2. /\ rows[j] \in Readings
        /\ \/ rows[j] \in Within(from, to)
           \/ j = Len(rows) /\ rows[j] \in After(to)
    BY <1>3, <2>1, RowKinds
  <2>3. QED
    BY ONLY <2>1, <2>2
<1>6. \A t \in Readings : t \in Nat
  BY ReadingsAre DEF Readings
<1>7. rows[i] <= to /\ (i # 1 => from <= rows[i])
  BY <1>4, <1>6 DEF Before, Within
<1>8. from <= rows[i + 1]
  BY <1>5, <1>6 DEF Within, After
<1>9. i # Len(rows) - 1 => rows[i + 1] <= to
  <2>1. i # Len(rows) - 1 => i + 1 # Len(rows)
    BY <1>2
  <2>2. QED
    BY <1>5, <2>1 DEF Within
<1>10. QED
  BY <1>2, <1>3, <1>4, <1>5, <1>7, <1>8, <1>9

-----------------------------------------------------------------------------
(* The energy of an interval                                               *)

Slope(t, u) == (energy_data[u] - energy_data[t]) \div (u - t)

(* What divides without a remainder is a multiple.                         *)
LEMMA Quotient ==
  ASSUME NEW a \in Nat, NEW d \in Nat \ {0}, a % d = 0
  PROVE  \E p \in Nat : a = d * p
<1>1. a = d * (a \div d) + (a % d) /\ a \div d \in Int
  OBVIOUS
<1>2. PICK p \in Int : p = a \div d
  BY <1>1
<1>3. a = d * p
  BY <1>1, <1>2
<1>4. p >= 0
  BY ONLY <1>3, a \in Nat, d \in Nat \ {0}, p \in Int
<1>5. QED
  BY <1>3, <1>4

(* Division is exact.                                                      *)
LEMMA SlopeIs ==
  ASSUME TablesInv, NEW t \in Readings, NEW u \in Readings, t < u
  PROVE  /\ Slope(t, u) \in Int
         /\ energy_data[u] - energy_data[t] = Slope(t, u) * (u - t)
         /\ energy_data[t] <= energy_data[u] => Slope(t, u) \in Nat
<1>1. PICK a \in Nat, b \in Nat, d \in Nat \ {0} :
        a = energy_data[t] /\ b = energy_data[u] /\ d = u - t
  BY ReadingsAre DEF Readings
<1>2. a % d = 0 /\ b % d = 0
  BY <1>1, ReadingsAre, ValuesAssumption DEF Readings
<1>3. PICK p \in Nat, q \in Nat : a = d * p /\ b = d * q
  BY ONLY <1>2, a \in Nat, b \in Nat, d \in Nat \ {0}, Quotient
<1>4. (b - a) \div d = q - p
  <2>1. b - a = d * (q - p) + 0
    BY ONLY <1>3, p \in Nat, q \in Nat, d \in Nat
  <2>2. QED
    BY <2>1
<1>5. Slope(t, u) = q - p
  BY <1>1, <1>4 DEF Slope
<1>6. b - a = (q - p) * d
  BY <1>3
<1>7. a <= b => q - p \in Nat
  BY <1>3
<1>8. QED
  BY <1>1, <1>5, <1>6, <1>7

(* A product with a distance is a natural number.                         *)
LEMMA Products ==
  ASSUME NEW p \in Nat, NEW x \in Nat, NEW y \in Nat, x <= y
  PROVE  p * (y - x) \in Nat
OBVIOUS

(* A distance is what is left of a longer one.                             *)
LEMMA Difference ==
  ASSUME NEW p \in Int, NEW x \in Int, NEW y \in Int, NEW z \in Int
  PROVE  p * (z - x) - p * (y - x) = p * (z - y)
OBVIOUS

(* An interval that is clipped at its beginning.                           *)
LEMMA FirstIs ==
  ASSUME TablesInv, NEW rows, NEW i, NEW from \in Nat, NEW to \in Nat,
         rows[i] \in Readings, rows[i + 1] \in Readings, i = 1,
         rows[i] < from, from <= rows[i + 1],
         energy_data[rows[i]] <= energy_data[rows[i + 1]]
  PROVE  /\ IntervalEnergy(rows, i, from, to) =
              Slope(rows[i], rows[i + 1]) * (rows[i + 1] - from)
         /\ IntervalEnergy(rows, i, from, to) \in Nat
<1>1. PICK t \in Readings, u \in Readings : t = rows[i] /\ u = rows[i + 1]
  OBVIOUS
<1>2. /\ t \in Nat /\ u \in Nat /\ energy_data[t] \in Nat /\ energy_data[u] \in Nat
  BY ReadingsAre DEF Readings
<1>3. PICK a \in Nat, b \in Nat : a = energy_data[t] /\ b = energy_data[u]
  BY <1>2
<1>4. t < from /\ from <= u /\ t < u /\ a <= b
  BY <1>1, <1>2, <1>3
<1>5. PICK p \in Nat : p = Slope(t, u) /\ b - a = p * (u - t)
  BY <1>3, <1>4, SlopeIs
<1>6. IntervalEnergy(rows, i, from, to) = b - (p * (from - t) + a)
  <2>1. IntervalEnergy(rows, i, from, to) = b - (((b - a) \div (u - t)) * (from - t) + a)
    BY ONLY <1>1, <1>2, <1>3, <1>4, i = 1, from \in Nat DEF IntervalEnergy, LinInterpolate
  <2>2. (b - a) \div (u - t) = p
    BY ONLY <1>3, <1>5, Zenon DEF Slope
  <2>3. QED
    BY ONLY <2>1, <2>2, Zenon
<1>7. b - (p * (from - t) + a) = p * (u - from)
  <2>1. p * (u - t) - p * (from - t) = p * (u - from)
    BY <1>2, Difference
  <2>2. PICK x \in Int, y \in Int, v \in Int :
          x = p * (u - t) /\ y = p * (from - t) /\ v = p * (u - from)
    BY <1>2
  <2>3. b - (y + a) = v
    BY ONLY <1>5, <2>1, <2>2, a \in Nat, b \in Nat
  <2>4. QED
    BY ONLY <2>2, <2>3
<1>8. p * (u - from) \in Nat
  BY <1>2, <1>4, Products
<1>9. QED
  BY ONLY <1>1, <1>5, <1>6, <1>7, <1>8

(* An interval that is clipped at its end.                                 *)
LEMMA LastIs ==
  ASSUME TablesInv, NEW rows, NEW i, NEW from \in Nat, NEW to \in Nat,
         rows[i] \in Readings, rows[i + 1] \in Readings, i # 1, i = Len(rows) - 1,
         rows[i] <= to, to < rows[i + 1],
         energy_data[rows[i]] <= energy_data[rows[i + 1]]
  PROVE  /\ IntervalEnergy(rows, i, from, to) =
              Slope(rows[i], rows[i + 1]) * (to - rows[i])
         /\ IntervalEnergy(rows, i, from, to) \in Nat
<1>1. PICK t \in Readings, u \in Readings : t = rows[i] /\ u = rows[i + 1]
  OBVIOUS
<1>2. /\ t \in Nat /\ u \in Nat /\ energy_data[t] \in Nat /\ energy_data[u] \in Nat
  BY ReadingsAre DEF Readings
<1>3. PICK a \in Nat, b \in Nat : a = energy_data[t] /\ b = energy_data[u]
  BY <1>2
<1>4. t <= to /\ to < u /\ t < u /\ a <= b
  BY <1>1, <1>2, <1>3
<1>5. PICK p \in Nat : p = Slope(t, u)
  BY <1>3, <1>4, SlopeIs
<1>6. IntervalEnergy(rows, i, from, to) = (p * (to - t) + a) - a
  <2>1. IntervalEnergy(rows, i, from, to) = (((b - a) \div (u - t)) * (to - t) + a) - a
    BY ONLY <1>1, <1>2, <1>3, <1>4, i # 1, i = Len(rows) - 1, to \in Nat, SMTT(60)
       DEF IntervalEnergy, LinInterpolate
  <2>2. (b - a) \div (u - t) = p
    BY ONLY <1>3, <1>5, Zenon DEF Slope
  <2>3. QED
    BY ONLY <2>1, <2>2, Zenon
<1>7. PICK x \in Nat : x = p * (to - t)
  BY <1>2, <1>4, Products
<1>8. (x + a) - a = x
  OBVIOUS
<1>9. QED
  BY ONLY <1>1, <1>5, <1>6, <1>7, <1>8

(* An interval that is not clipped, and one with a reset.                  *)
LEMMA WholeIs ==
  ASSUME TablesInv, NEW rows, NEW i, NEW from, NEW to,
         rows[i] \in Readings, rows[i + 1] \in Readings,
         ~ (i = 1 /\ rows[i] < from),
         ~ (i # 1 /\ i = Len(rows) - 1 /\ rows[i + 1] > to),
         energy_data[rows[i]] <= energy_data[rows[i + 1]]
  PROVE  /\ IntervalEnergy(rows, i, from, to) =
              energy_data[rows[i + 1]] - energy_data[rows[i]]
         /\ IntervalEnergy(rows, i, from, to) \in Nat
<1>1. energy_data[rows[i]] \in Nat /\ energy_data[rows[i + 1]] \in Nat
  BY ReadingsAre DEF Readings
<1>2. IntervalEnergy(rows, i, from, to) = energy_data[rows[i + 1]] - energy_data[rows[i]]
  BY <1>1 DEF IntervalEnergy
<1>3. QED
  BY <1>1, <1>2

(* After a reset all of the second reading counts.                         *)
LEMMA ResetIs ==
  ASSUME TablesInv, NEW rows, NEW i, NEW from, NEW to,
         rows[i + 1] \in Readings, energy_data[rows[i + 1]] < energy_data[rows[i]]
  PROVE  /\ IntervalEnergy(rows, i, from, to) = energy_data[rows[i + 1]]
         /\ IntervalEnergy(rows, i, from, to) \in Nat
BY ReadingsAre DEF IntervalEnergy, Readings

(* No interval of the rows of a period has a negative energy.              *)
LEMMA IntervalIsNat ==
  ASSUME TablesInv, NEW from \in Nat, NEW to \in Nat, from < to, NEW scan,
         NEW rows, rows = GetEnergy(from, to, scan), NEW i \in 1..Len(rows) - 1
  PROVE  IntervalEnergy(rows, i, from, to) \in Nat
<1>1. /\ Len(rows) \in Nat /\ rows[i] \in Readings /\ rows[i] <= to
      /\ rows[i + 1] \in Readings /\ from <= rows[i + 1]
  BY RowBounds
<1>2. /\ rows[i] \in Nat /\ rows[i + 1] \in Nat
      /\ energy_data[rows[i]] \in Nat /\ energy_data[rows[i + 1]] \in Nat
  BY <1>1, ReadingsAre DEF Readings
<1>3. CASE energy_data[rows[i + 1]] < energy_data[rows[i]]
  BY <1>1, <1>3, ResetIs
<1>4. CASE energy_data[rows[i]] <= energy_data[rows[i + 1]]
  <2>1. CASE i = 1 /\ rows[i] < from
    BY <1>1, <1>4, <2>1, FirstIs
  <2>2. CASE i # 1 /\ i = Len(rows) - 1 /\ rows[i + 1] > to
    <3>1. to < rows[i + 1]
      BY <1>2, <2>2
    <3>2. QED
      BY <1>1, <1>4, <2>2, <3>1, LastIs
  <2>3. QED
    BY <1>1, <1>4, <2>1, <2>2, WholeIs
<1>5. QED
  BY <1>2, <1>3, <1>4

-----------------------------------------------------------------------------
(* The KPI                                                                 *)

Intervals(rows) == 1..Len(rows) - 1

Energies(rows, from, to) == [i \in Intervals(rows) |-> IntervalEnergy(rows, i, from, to)]

(* The energy of the interval from row i to the next if e are the readings *)
EnergyOf(e, rows, i, from, to) ==
  LET t1 == rows[i]
      t2 == rows[i + 1]
      E1 == e[t1]
      E2 == e[t2]
  IN  IF E2 < E1 THEN E2
      ELSE IF i = 1 /\ t1 < from THEN E2 - LinInterpolate(from, t1, t2, E1, E2)
      ELSE IF i # 1 /\ i = Len(rows) - 1 /\ t2 > to
           THEN LinInterpolate(to, t1, t2, E1, E2) - E1
      ELSE E2 - E1

EnergiesOf(e, rows, from, to) == [i \in Intervals(rows) |-> EnergyOf(e, rows, i, from, to)]

EsumOf(e, rows, from, to) ==
  MapThenSumSet(LAMBDA i : EnergyOf(e, rows, i, from, to), 1..Len(rows) - 1)

(* The energy of the rows is a sum over a function.                        *)
LEMMA EsumOfIs ==
  ASSUME NEW e, NEW rows, NEW from, NEW to
  PROVE  EsumOf(e, rows, from, to) = SumOn(EnergiesOf(e, rows, from, to), Intervals(rows))
<1> DEFINE S == Intervals(rows)
           f == EnergiesOf(e, rows, from, to)
           fold(g) == g = [s \in SUBSET S |->
                             IF s = {} THEN 0
                             ELSE EnergyOf(e, rows, CHOOSE x \in s : TRUE, from, to)
                                    + g[s \ {CHOOSE x \in s : TRUE}]]
<1>1. ASSUME NEW g
      PROVE  fold(g) <=> IsFold(f, S, g)
  <2>1. \A s \in SUBSET S : s # {} =>
          f[CHOOSE x \in s : TRUE] = EnergyOf(e, rows, CHOOSE x \in s : TRUE, from, to)
    BY DEF EnergiesOf
  <2>2. [s \in SUBSET S |-> IF s = {} THEN 0
                            ELSE EnergyOf(e, rows, CHOOSE x \in s : TRUE, from, to)
                                   + g[s \ {CHOOSE x \in s : TRUE}]] =
        [s \in SUBSET S |-> IF s = {} THEN 0
                            ELSE f[CHOOSE x \in s : TRUE] + g[s \ {CHOOSE x \in s : TRUE}]]
    BY <2>1
  <2>3. QED
    BY <2>2 DEF IsFold, Folded, Chosen
<1>2. (CHOOSE g : fold(g)) = (CHOOSE g : IsFold(f, S, g))
  BY <1>1, Zenon
<1>3. EsumOf(e, rows, from, to) = (CHOOSE g : fold(g))[S]
  BY Zenon DEF EsumOf, MapThenSumSet, MapThenFoldSet, Intervals
<1>4. QED
  BY <1>2, <1>3, SumOnIs

(* So it is for the readings stored now.                                   *)
LEMMA EsumIs ==
  ASSUME NEW rows, NEW from, NEW to
  PROVE  Esum(rows, from, to) = SumOn(Energies(rows, from, to), Intervals(rows))
<1>1. Esum(rows, from, to) = EsumOf(energy_data, rows, from, to)
  BY Zenon DEF Esum, EsumOf, IntervalEnergy, EnergyOf
<1>2. Energies(rows, from, to) = EnergiesOf(energy_data, rows, from, to)
  BY Zenon DEF Energies, EnergiesOf, IntervalEnergy, EnergyOf
<1>3. QED
  BY <1>1, <1>2, EsumOfIs

(* It is never negative.                                                   *)
LEMMA EsumIsNat ==
  ASSUME TablesInv, NEW from \in Nat, NEW to \in Nat, from < to, NEW scan,
         NEW rows, rows = GetEnergy(from, to, scan)
  PROVE  /\ Len(rows) \in Nat /\ IsFiniteSet(Intervals(rows))
         /\ \A i \in Intervals(rows) : Energies(rows, from, to)[i] \in Nat
         /\ Esum(rows, from, to) \in Nat
<1>1. PICK a \in {0, 1}, w \in Nat, z \in {0, 1} : AreRows(rows, from, to, scan, a, w, z)
  BY RowsAre
<1>2. Len(rows) \in Nat
  BY <1>1 DEF AreRows
<1>3. IsFiniteSet(Intervals(rows))
  BY <1>2, FS_Interval DEF Intervals
<1>4. ASSUME NEW i \in Intervals(rows)
      PROVE  Energies(rows, from, to)[i] \in Nat
  <2>1. IntervalEnergy(rows, i, from, to) \in Nat
    BY <1>4, IntervalIsNat DEF Intervals
  <2>2. QED
    BY <2>1 DEF Energies
<1>5. QED
  BY <1>2, <1>3, <1>4, EsumIs, SumNat

(* Whatever the tables hold, a KPI that is not invalid is that of a        *)
(* positive production, not above the abnormal one and never negative.     *)
THEOREM KpiTypeTheorem == Spec => []TypeOK
<1>1. TablesInv => TypeOK
  <2> SUFFICES ASSUME TablesInv
               PROVE  TypeOK
    OBVIOUS
  <2>1. DOMAIN energy_data \subseteq EnergyTimes /\ DOMAIN production_data \subseteq ProductionTimes
    BY DEF TablesInv, Filled
  <2>2. ASSUME NEW p \in Periods, NEW s \in Scans
        PROVE  \/ Calculate(p[1], p[2], s) = InvalidKPI
               \/ /\ Calculate(p[1], p[2], s)[2] > 0
                  /\ Calculate(p[1], p[2], s)[1] \in 0..AbnormalKpi * Calculate(p[1], p[2], s)[2]
    <3>1. p[1] \in Nat /\ p[2] \in Nat /\ p[1] < p[2]
      BY TimesAssumption DEF Periods
    <3>2. PICK E \in Nat : E = Esum(GetEnergy(p[1], p[2], s), p[1], p[2])
      BY <3>1, EsumIsNat
    <3>3. PICK P \in Nat : P = ProductionSum(p[1], p[2])
      BY ProductionRows
    <3>4. PICK A \in Nat : A = AbnormalKpi * P
      BY <3>3, AbnormalAssumption
    <3>5. \/ Calculate(p[1], p[2], s) = InvalidKPI
          \/ Calculate(p[1], p[2], s) = <<E, P>> /\ ~ (P <= 0) /\ ~ (E > A)
      BY <3>2, <3>3, <3>4, Zenon DEF Calculate
    <3>6. ~ (P <= 0) /\ ~ (E > A) => P > 0 /\ E \in 0..A
      BY <3>2, <3>3, <3>4
    <3>7. <<E, P>>[1] = E /\ <<E, P>>[2] = P
      OBVIOUS
    <3>8. CASE Calculate(p[1], p[2], s) = <<E, P>> /\ ~ (P <= 0) /\ ~ (E > A)
      BY ONLY <3>4, <3>6, <3>7, <3>8, Zenon
    <3>9. QED
      BY <3>5, <3>8
  <2>3. QED
    BY <2>1, <2>2 DEF TypeOK
<1>2. QED
  BY <1>1, TablesTheorem, PTL

-----------------------------------------------------------------------------
(* The rows and the neighbours                                             *)

NeighboursIn(t, u) ==
  /\ t \in Readings /\ u \in Readings /\ t < u
  /\ \A v \in Readings : ~ (t < v /\ v < u)

(* Neighbours are finitely many pairs of readings.                         *)
LEMMA NeighboursAre ==
  ASSUME TablesInv
  PROVE  /\ IsFiniteSet(Neighbours)
         /\ \A t, u : <<t, u>> \in Neighbours <=> NeighboursIn(t, u)
         /\ \A p \in Neighbours : p = <<p[1], p[2]>> /\ NeighboursIn(p[1], p[2])
<1>1. Neighbours \subseteq Readings \X Readings
  BY DEF Neighbours, Readings
<1>2. IsFiniteSet(Readings \X Readings)
  BY ReadingsAre, FS_Product DEF Readings
<1>3. IsFiniteSet(Neighbours)
  BY <1>1, <1>2, FS_Subset
<1>4. ASSUME NEW t, NEW u
      PROVE  <<t, u>> \in Neighbours <=> NeighboursIn(t, u)
  BY DEF Neighbours, NeighboursIn, Readings
<1>5. ASSUME NEW p \in Neighbours
      PROVE  p = <<p[1], p[2]>> /\ NeighboursIn(p[1], p[2])
  BY DEF Neighbours, NeighboursIn, Readings
<1>6. QED
  BY <1>3, <1>4, <1>5

(* Where no reset lies within the period, the readings within rise: the    *)
(* distance of two readings of which the later is lower is never the       *)
(* least.                                                                  *)
LEMMA Rising ==
  ASSUME TablesInv, NEW from \in Nat, NEW to \in Nat, NoResetWithin(from, to),
         NEW t \in Within(from, to), NEW u \in Within(from, to), t < u
  PROVE  energy_data[t] <= energy_data[u]
<1> DEFINE falls(x, y) == x < y /\ energy_data[y] < energy_data[x]
           bad == {n \in Nat : \E x, y \in Within(from, to) : falls(x, y) /\ n = y - x}
<1>1. \A x \in Readings : x \in Nat /\ energy_data[x] \in Nat
  BY ReadingsAre DEF Readings
<1>2. \A x \in Within(from, to) : x \in Readings /\ x \in Nat /\ energy_data[x] \in Nat
                                  /\ from <= x /\ x <= to
  BY <1>1 DEF Within
<1>3. SUFFICES ASSUME bad # {}
               PROVE  FALSE
  <2>1. SUFFICES ASSUME ~ (energy_data[t] <= energy_data[u])
                 PROVE  bad # {}
    BY <1>3
  <2>2. falls(t, u) /\ u - t \in Nat
    BY <1>2, <2>1
  <2>3. u - t \in bad
    BY <2>2
  <2>4. QED
    BY <2>3
<1>4. PICK n \in bad : \A m \in bad : ~ (<<m, n>> \in OpToRel(<, Nat))
  <2>1. bad \subseteq Nat
    OBVIOUS
  <2> HIDE DEF bad
  <2> QED
    BY <1>3, <2>1, NatLessThanWellFounded, WFMin
<1>5. \A m \in bad : ~ (m < n)
  BY <1>4 DEF OpToRel
<1>6. PICK x \in Within(from, to), y \in Within(from, to) : falls(x, y) /\ n = y - x
  BY <1>4
<1>7. CASE \E v \in Readings : x < v /\ v < y
  <2>1. PICK v \in Readings : x < v /\ v < y
    BY <1>7
  <2>2. v \in Within(from, to)
    BY <1>1, <1>2, <2>1 DEF Within
  <2>3. v - x < n /\ y - v < n /\ v - x \in Nat /\ y - v \in Nat
    BY <1>2, <1>6, <2>1, <2>2
  <2>4. ~ falls(x, v)
    BY <1>5, <2>2, <2>3
  <2>5. ~ falls(v, y)
    BY <1>5, <2>2, <2>3
  <2>6. QED
    BY <1>2, <1>6, <2>1, <2>2, <2>4, <2>5
<1>8. CASE ~ \E v \in Readings : x < v /\ v < y
  <2>1. <<x, y>> \in Neighbours
    BY <1>2, <1>6, <1>8, NeighboursAre DEF NeighboursIn
  <2>2. PICK p \in Neighbours : p[1] = x /\ p[2] = y
    BY <2>1
  <2>3. IsReset(p)
    BY <1>6, <2>2 DEF IsReset
  <2>4. p[2] <= from \/ to <= p[1]
    BY <2>3 DEF NoResetWithin
  <2>5. QED
    BY <1>2, <1>6, <2>2, <2>4
<1>9. QED
  BY <1>7, <1>8

Orderly(from, to, scan) == scan = "by energy" => NoResetWithin(from, to)

(* Then the scan by energy returns them in the order of time, too.         *)
LEMMA ScanIsByTime ==
  ASSUME TablesInv, NEW from \in Nat, NEW to \in Nat, NEW scan \in Scans,
         Orderly(from, to, scan),
         NEW t \in Within(from, to), NEW u \in Within(from, to)
  PROVE  Precedes(t, u, scan) <=> t < u
<1>1. \A x \in Within(from, to) : x \in Nat /\ energy_data[x] \in Nat
  BY ReadingsAre DEF Within, Readings
<1>2. CASE scan = "by time"
  BY <1>2 DEF Precedes
<1>3. CASE scan = "by energy"
  <2>1. ASSUME NEW x \in Within(from, to), NEW y \in Within(from, to), x < y
        PROVE  Precedes(x, y, scan)
    <3>1. NoResetWithin(from, to)
      BY <1>3, Zenon DEF Orderly
    <3>2. energy_data[x] <= energy_data[y]
      BY <2>1, <3>1, Rising
    <3>3. energy_data[x] < energy_data[y] \/ energy_data[x] = energy_data[y]
      BY <1>1, <3>2
    <3>4. QED
      BY <1>3, <2>1, <3>3 DEF Precedes
  <2>2. /\ ~ Precedes(t, t, scan)
        /\ Precedes(t, u, scan) /\ Precedes(u, t, scan) => Precedes(t, t, scan)
    <3>1. /\ \A x \in Within(from, to) : ~Precedes(x, x, scan)
          /\ \A x, y, v \in Within(from, to) :
               Precedes(x, y, scan) /\ Precedes(y, v, scan) => Precedes(x, v, scan)
      BY <1>1, PrecedesIsLinear
    <3>2. QED
      BY <3>1
  <2>3. ASSUME Precedes(t, u, scan), ~ (t < u)
        PROVE  FALSE
    <3>1. t = u \/ u < t
      BY <1>1, <2>3
    <3>2. CASE t = u
      BY <2>2, <2>3, <3>2
    <3>3. CASE u < t
      BY <2>1, <2>2, <2>3, <3>3
    <3>4. QED
      BY <3>1, <3>2, <3>3
  <2>4. QED
    BY <2>1, <2>3
<1>4. QED
  BY <1>2, <1>3 DEF Scans

(* The rows are in the order of time, and every reading within the period  *)
(* is one of them.                                                         *)
LEMMA RowsRise ==
  ASSUME TablesInv, NEW from \in Nat, NEW to \in Nat, from < to, NEW scan \in Scans,
         Orderly(from, to, scan),
         NEW rows, rows = GetEnergy(from, to, scan)
  PROVE  /\ \A i, j \in 1..Len(rows) : i < j => rows[i] < rows[j]
         /\ \A t \in Within(from, to) : \E i \in 1..Len(rows) : rows[i] = t
<1>1. PICK a \in {0, 1}, w \in Nat, z \in {0, 1} : AreRows(rows, from, to, scan, a, w, z)
  BY RowsAre
<1> DEFINE W == Scanned(Within(from, to), scan)
<1>2. Len(rows) = a + w + z /\ \A k \in 1..w : rows[a + k] = W[k]
  BY <1>1 DEF AreRows
<1>3. \A t \in Readings : t \in Nat /\ energy_data[t] \in Nat
  BY ReadingsAre DEF Readings
<1>4. /\ \A k \in 1..w : W[k] \in Within(from, to)
      /\ \A t \in Within(from, to) : \E k \in 1..w : W[k] = t
      /\ \A k, l \in 1..w : k < l => Precedes(W[k], W[l], scan)
  <2>1. Within(from, to) \subseteq Readings
    BY DEF Within
  <2>2. IsFiniteSet(Within(from, to))
        /\ \A t \in Within(from, to) : t \in Nat /\ energy_data[t] \in Nat
    BY <1>3, <2>1, ReadingsAre, FS_Subset DEF Readings
  <2>3. w = Cardinality(Within(from, to))
    BY <1>1 DEF AreRows
  <2>4. QED
    BY <2>2, <2>3, ScannedIs, SMTT(60)
<1> HIDE DEF W
<1>5. \A k, l \in 1..w : k < l => W[k] < W[l]
  BY <1>4, ScanIsByTime
<1>6. ASSUME NEW i \in 1..Len(rows)
      PROVE  \/ i = 1 /\ a = 1 /\ rows[i] \in Before(from)
             \/ \E k \in 1..w : i = a + k /\ rows[i] = W[k]
             \/ i = Len(rows) /\ z = 1 /\ rows[i] \in After(to)
  <2>1. i \in 1..a + w + z
    BY <1>2
  <2>2. \/ i = 1 /\ a = 1
        \/ i - a \in 1..w
        \/ i = a + w + 1 /\ z = 1
    BY ONLY <2>1, a \in {0, 1}, z \in {0, 1}, w \in Nat
  <2>3. CASE i = 1 /\ a = 1
    BY <1>1, <2>3 DEF AreRows
  <2>4. CASE i - a \in 1..w
    <3>1. PICK k \in 1..w : i = a + k
      BY <2>4
    <3>2. QED
      BY <1>2, <3>1
  <2>5. CASE i = a + w + 1 /\ z = 1
    BY <1>1, <1>2, <2>5 DEF AreRows
  <2>6. QED
    BY <2>2, <2>3, <2>4, <2>5
<1>7. ASSUME NEW i \in 1..Len(rows), NEW j \in 1..Len(rows), i < j
      PROVE  rows[i] < rows[j]
  <2>1. /\ \A t \in Before(from) : t \in Nat /\ t < from
        /\ \A t \in Within(from, to) : t \in Nat /\ from <= t /\ t <= to
        /\ \A t \in After(to) : t \in Nat /\ to < t
    BY <1>3 DEF Before, Within, After
  <2>2. j # 1 /\ i # Len(rows)
    BY <1>2, <1>7
  <2>3. \A k \in 1..w : W[k] \in Nat /\ from <= W[k] /\ W[k] <= to
    BY <1>4, <2>1
  <2>4. CASE i = 1 /\ rows[i] \in Before(from)
    <3>1. rows[i] \in Nat /\ rows[i] < from
      BY <2>1, <2>4
    <3>2. rows[j] \in Nat /\ from <= rows[j]
      BY <1>6, <2>1, <2>2, <2>3, SMTT(60)
    <3>3. QED
      BY ONLY <3>1, <3>2, from \in Nat
  <2>5. ASSUME NEW k \in 1..w, i = a + k, rows[i] = W[k]
        PROVE  rows[i] < rows[j]
    <3>1. CASE \E l \in 1..w : j = a + l /\ rows[j] = W[l]
      <4>1. PICK l \in 1..w : j = a + l /\ rows[j] = W[l]
        BY <3>1
      <4>2. k < l
        BY <1>7, <2>5, <4>1
      <4>3. QED
        BY <1>5, <2>5, <4>1, <4>2
    <3>2. CASE rows[j] \in After(to)
      <4>1. rows[j] \in Nat /\ to < rows[j] /\ rows[i] \in Nat /\ rows[i] <= to
        BY <2>1, <2>3, <2>5, <3>2
      <4>2. QED
        BY ONLY <4>1, to \in Nat
    <3>3. QED
      BY <1>6, <2>2, <3>1, <3>2
  <2>6. QED
    BY <1>6, <2>2, <2>4, <2>5
<1>8. ASSUME NEW t \in Within(from, to)
      PROVE  \E i \in 1..Len(rows) : rows[i] = t
  <2>1. PICK k \in 1..w : W[k] = t
    BY <1>4
  <2>2. a + k \in 1..Len(rows)
    BY <1>2
  <2>3. QED
    BY <1>2, <2>1, <2>2
<1>9. QED
  BY <1>7, <1>8

(* Rows that follow one another are neighbours.                            *)
LEMMA RowsAreNeighbours ==
  ASSUME TablesInv, NEW from \in Nat, NEW to \in Nat, from < to, NEW scan \in Scans,
         Orderly(from, to, scan),
         NEW rows, rows = GetEnergy(from, to, scan), NEW i \in 1..Len(rows) - 1
  PROVE  NeighboursIn(rows[i], rows[i + 1])
<1>1. PICK a \in {0, 1}, w \in Nat, z \in {0, 1} : AreRows(rows, from, to, scan, a, w, z)
  BY RowsAre
<1>2. Len(rows) \in Nat /\ Len(rows) = a + w + z
  BY <1>1 DEF AreRows
<1>3. PICK j \in 1..Len(rows) : j = i + 1 /\ i \in 1..Len(rows)
  BY <1>2
<1>4. /\ \A k, l \in 1..Len(rows) : k < l => rows[k] < rows[l]
      /\ \A t \in Within(from, to) : \E k \in 1..Len(rows) : rows[k] = t
  BY RowsRise, SMTT(60)
<1>5. /\ rows[i] \in Readings
      /\ \/ i = 1 /\ rows[i] \in Before(from)
         \/ rows[i] \in Within(from, to)
         \/ i = Len(rows) /\ rows[i] \in After(to)
  BY <1>3, RowKinds
<1>6. /\ rows[j] \in Readings
      /\ \/ j = 1 /\ rows[j] \in Before(from)
         \/ rows[j] \in Within(from, to)
         \/ j = Len(rows) /\ rows[j] \in After(to)
  BY <1>3, RowKinds
<1>7. i # Len(rows) /\ j # 1 /\ i < j
  BY <1>2, <1>3
<1>8. \A t \in Readings : t \in Nat
  BY ReadingsAre DEF Readings
<1>9. ASSUME NEW v \in Readings, rows[i] < v, v < rows[j]
      PROVE  FALSE
  <2>1. v \in Before(from) \/ v \in Within(from, to) \/ v \in After(to)
    BY <1>8 DEF Before, Within, After
  <2>2. PICK x \in Nat, y \in Nat : x = rows[i] /\ y = rows[j]
    BY <1>5, <1>6, <1>8
  <2>3. CASE v \in Before(from)
    <3>1. v < from /\ v \in Nat
      BY <1>8, <2>3 DEF Before
    <3>2. ~ (rows[i] \in Within(from, to))
      BY <1>9, <2>2, <3>1 DEF Within
    <3>3. i = 1 /\ rows[i] \in Before(from)
      BY <1>5, <1>7, <3>2
    <3>4. Before(from) # {}
      BY <3>3
    <3>5. v <= rows[1]
      BY <1>1, <2>3, <3>4 DEF AreRows
    <3>6. v <= x
      BY <2>2, <3>3, <3>5
    <3>7. QED
      BY ONLY <1>9, <2>2, <3>1, <3>6
  <2>4. CASE v \in After(to)
    <3>1. to < v /\ v \in Nat
      BY <1>8, <2>4 DEF After
    <3>2. ~ (rows[j] \in Within(from, to))
      BY <1>9, <2>2, <3>1 DEF Within
    <3>3. j = Len(rows) /\ rows[j] \in After(to)
      BY <1>6, <1>7, <3>2
    <3>4. After(to) # {}
      BY <3>3
    <3>5. z = 1 /\ rows[a + w + 1] <= v
      BY <1>1, <2>4, <3>4 DEF AreRows
    <3>6. j = a + w + 1
      BY <1>2, <3>3, <3>5
    <3>7. y <= v
      BY <2>2, <3>5, <3>6
    <3>8. QED
      BY ONLY <1>9, <2>2, <3>1, <3>7
  <2>5. CASE v \in Within(from, to)
    <3>1. PICK k \in 1..Len(rows) : rows[k] = v
      BY <1>4, <2>5
    <3>2. v \in Nat
      BY <1>8
    <3>3. k = i \/ k = j \/ k < i \/ j < k
      BY <1>2, <1>3
    <3>4. CASE k < i
      <4>1. v < x
        BY <1>3, <1>4, <2>2, <3>1, <3>4
      <4>2. QED
        BY ONLY <1>9, <2>2, <3>2, <4>1
    <3>5. CASE j < k
      <4>1. y < v
        BY <1>3, <1>4, <2>2, <3>1, <3>5
      <4>2. QED
        BY ONLY <1>9, <2>2, <3>2, <4>1
    <3>6. CASE k = i \/ k = j
      <4>1. v = x \/ v = y
        BY <2>2, <3>1, <3>6
      <4>2. QED
        BY ONLY <1>9, <2>2, <3>2, <4>1
    <3>7. QED
      BY <3>3, <3>4, <3>5, <3>6
  <2>6. QED
    BY <2>1, <2>3, <2>4, <2>5
<1>10. rows[i] < rows[j]
  BY <1>3, <1>4, <1>7
<1>11. NeighboursIn(rows[i], rows[j])
  BY <1>5, <1>6, <1>9, <1>10 DEF NeighboursIn
<1>12. QED
  BY <1>3, <1>11

(* Neighbours that have a part of the period between them are such rows.   *)
LEMMA NeighboursAreRows ==
  ASSUME TablesInv, NEW from \in Nat, NEW to \in Nat, from < to, NEW scan \in Scans,
         Orderly(from, to, scan),
         NEW rows, rows = GetEnergy(from, to, scan),
         NEW t, NEW u, NeighboursIn(t, u), t < to, from < u
  PROVE  \E i \in 1..Len(rows) - 1 : rows[i] = t /\ rows[i + 1] = u
<1>1. PICK a \in {0, 1}, w \in Nat, z \in {0, 1} : AreRows(rows, from, to, scan, a, w, z)
  BY RowsAre
<1>2. Len(rows) \in Nat /\ Len(rows) = a + w + z
  BY <1>1 DEF AreRows
<1>3. /\ \A k, l \in 1..Len(rows) : k < l => rows[k] < rows[l]
      /\ \A v \in Within(from, to) : \E k \in 1..Len(rows) : rows[k] = v
  BY RowsRise
<1>4. \A v \in Readings : v \in Nat
  BY ReadingsAre DEF Readings
<1>5. t \in Readings /\ u \in Readings /\ t \in Nat /\ u \in Nat /\ t < u
  BY <1>4 DEF NeighboursIn
<1>6. \A v \in Readings : ~ (t < v /\ v < u)
  BY DEF NeighboursIn
<1>7. PICK i \in 1..Len(rows) : rows[i] = t
  <2>1. CASE from <= t
    <3>1. t \in Within(from, to)
      BY <1>5, <2>1 DEF Within
    <3>2. QED
      BY <1>3, <3>1
  <2>2. CASE t < from
    <3>1. t \in Before(from)
      BY <1>5, <2>2 DEF Before
    <3>2. Before(from) # {}
      BY <3>1
    <3>3. a = 1 /\ rows[1] \in Before(from) /\ t <= rows[1]
      BY <1>1, <3>1, <3>2 DEF AreRows
    <3>4. rows[1] \in Readings /\ rows[1] \in Nat /\ rows[1] < from
      BY <1>4, <3>3 DEF Before
    <3>5. ~ (t < rows[1] /\ rows[1] < u)
      BY <1>6, <3>4
    <3>6. rows[1] = t
      BY ONLY <1>5, <3>3, <3>4, <3>5, from < u, from \in Nat
    <3>7. 1 \in 1..Len(rows)
      BY <1>2, <3>3
    <3>8. QED
      BY <3>6, <3>7
  <2>3. QED
    BY ONLY <1>5, from \in Nat, <2>1, <2>2
<1>8. PICK j \in 1..Len(rows) : rows[j] = u
  <2>1. CASE u <= to
    <3>1. u \in Within(from, to)
      BY <1>5, <2>1 DEF Within
    <3>2. QED
      BY <1>3, <3>1
  <2>2. CASE to < u
    <3>1. u \in After(to)
      BY <1>5, <2>2 DEF After
    <3>2. After(to) # {}
      BY <3>1
    <3>3. PICK n \in Int : n = a + w + 1
      OBVIOUS
    <3>4. z = 1 /\ rows[n] \in After(to) /\ rows[n] <= u
      BY <1>1, <3>1, <3>2, <3>3 DEF AreRows
    <3>5. rows[n] \in Readings /\ rows[n] \in Nat /\ to < rows[n]
      BY <1>4, <3>4 DEF After
    <3>6. ~ (t < rows[n] /\ rows[n] < u)
      BY <1>6, <3>5
    <3>7. rows[n] = u
      BY ONLY <1>5, <3>4, <3>5, <3>6, t < to, to \in Nat
    <3>8. n \in 1..Len(rows)
      BY <1>2, <3>3, <3>4
    <3>9. QED
      BY <3>7, <3>8
  <2>3. QED
    BY ONLY <1>5, to \in Nat, <2>1, <2>2
<1>9. i < j
  <2>1. i = j \/ j < i \/ i < j
    BY <1>2
  <2>2. ~ (i = j)
    BY <1>5, <1>7, <1>8
  <2>3. ~ (j < i)
    <3>1. j < i => u < t
      BY <1>3, <1>7, <1>8
    <3>2. QED
      BY <1>5, <3>1
  <2>4. QED
    BY <2>1, <2>2, <2>3
<1>10. PICK k \in Int : k = i + 1
  OBVIOUS
<1>11. i \in 1..Len(rows) - 1 /\ k \in 1..Len(rows) /\ i < k
  BY <1>2, <1>9, <1>10
<1>12. ~ (k < j)
  <2>1. SUFFICES ASSUME k < j
                 PROVE  FALSE
    OBVIOUS
  <2>2. t < rows[k] /\ rows[k] < u
    BY <1>3, <1>7, <1>8, <1>11, <2>1
  <2>3. rows[k] \in Readings
    BY <1>11, RowKinds
  <2>4. QED
    BY <1>6, <2>2, <2>3
<1>13. k = j
  BY <1>2, <1>9, <1>10, <1>12
<1>14. QED
  BY <1>7, <1>8, <1>10, <1>11, <1>13

-----------------------------------------------------------------------------
(* The energy                                                              *)

(* The greater of two integers                                             *)
LEMMA MaxOfTwo ==
  ASSUME NEW a \in Int, NEW b \in Int
  PROVE  Max({a, b}) = IF a >= b THEN a ELSE b
BY DEF Max

(* The lesser of two integers                                              *)
LEMMA MinOfTwo ==
  ASSUME NEW a \in Int, NEW b \in Int
  PROVE  Min({a, b}) = IF a <= b THEN a ELSE b
BY DEF Min

Common(from, to, p) == Max({0, Min({to, p[2]}) - Max({from, p[1]})})

(* What an interval has in common with the period.                         *)
LEMMA CommonIs ==
  ASSUME NEW from \in Nat, NEW to \in Nat, from < to,
         NEW p, p[1] \in Nat, p[2] \in Nat, p[1] < p[2]
  PROVE  /\ Common(from, to, p) \in Nat
         /\ p[2] <= from => Common(from, to, p) = 0
         /\ to <= p[1] => Common(from, to, p) = 0
         /\ from <= p[1] /\ p[2] <= to => Common(from, to, p) = p[2] - p[1]
         /\ p[1] < from /\ from <= p[2] /\ p[2] <= to => Common(from, to, p) = p[2] - from
         /\ from <= p[1] /\ p[1] <= to /\ to < p[2] => Common(from, to, p) = to - p[1]
<1>1. PICK t \in Nat, u \in Nat : t = p[1] /\ u = p[2] /\ t < u
  OBVIOUS
<1>2. PICK x \in Int : x = Min({to, u}) /\ x = IF to <= u THEN to ELSE u
  BY MinOfTwo
<1>3. PICK y \in Int : y = Max({from, t}) /\ y = IF from >= t THEN from ELSE t
  BY MaxOfTwo
<1>4. PICK c \in Int : c = Max({0, x - y}) /\ c = IF 0 >= x - y THEN 0 ELSE x - y
  BY MaxOfTwo
<1>5. Common(from, to, p) = c
  BY ONLY <1>1, <1>2, <1>3, <1>4, Zenon DEF Common
<1>6. /\ c \in Nat
      /\ u <= from => c = 0
      /\ to <= t => c = 0
      /\ from <= t /\ u <= to => c = u - t
      /\ t < from /\ from <= u /\ u <= to => c = u - from
      /\ from <= t /\ t <= to /\ to < u => c = to - t
  <2>1. t < u /\ x = IF to <= u THEN to ELSE u
    BY <1>1, <1>2
  <2>2. y = IF from >= t THEN from ELSE t
    BY <1>3
  <2>3. c = IF 0 >= x - y THEN 0 ELSE x - y
    BY <1>4
  <2>4. QED
    BY ONLY from \in Nat, to \in Nat, from < to, t \in Nat, u \in Nat,
            x \in Int, y \in Int, c \in Int, <2>1, <2>2, <2>3
<1>7. QED
  BY ONLY <1>1, <1>5, <1>6

Used(p) == energy_data[p[2]] - (IF IsReset(p) THEN 0 ELSE energy_data[p[1]])

Share(from, to, p) == (Used(p) \div (p[2] - p[1])) * Common(from, to, p)

Shares(from, to) == [p \in Neighbours |-> Share(from, to, p)]

(* The energy that is used is a sum over a function, too.                  *)
LEMMA EnergyUsedIs ==
  ASSUME NEW from, NEW to
  PROVE  EnergyUsed(from, to) = SumOn(Shares(from, to), Neighbours)
<1> DEFINE S == Neighbours
           f == Shares(from, to)
           fold(g) == g = [s \in SUBSET S |->
                             IF s = {} THEN 0
                             ELSE Share(from, to, CHOOSE x \in s : TRUE)
                                    + g[s \ {CHOOSE x \in s : TRUE}]]
<1>1. ASSUME NEW g
      PROVE  fold(g) <=> IsFold(f, S, g)
  <2>1. \A s \in SUBSET S : s # {} =>
          f[CHOOSE x \in s : TRUE] = Share(from, to, CHOOSE x \in s : TRUE)
    BY DEF Shares
  <2>2. [s \in SUBSET S |-> IF s = {} THEN 0
                            ELSE Share(from, to, CHOOSE x \in s : TRUE)
                                   + g[s \ {CHOOSE x \in s : TRUE}]] =
        [s \in SUBSET S |-> IF s = {} THEN 0
                            ELSE f[CHOOSE x \in s : TRUE] + g[s \ {CHOOSE x \in s : TRUE}]]
    BY <2>1
  <2>3. QED
    BY <2>2 DEF IsFold, Folded, Chosen
<1>2. (CHOOSE g : fold(g)) = (CHOOSE g : IsFold(f, S, g))
  BY <1>1, Zenon
<1>3. EnergyUsed(from, to) = (CHOOSE g : fold(g))[S]
  BY Zenon DEF EnergyUsed, MapThenSumSet, MapThenFoldSet, Share, Used, Common
<1>4. QED
  BY <1>2, <1>3, SumOnIs

(* What was used between neighbours is spread without a remainder.         *)
LEMMA UsedIs ==
  ASSUME TablesInv, NEW t, NEW u, NEW p, p = <<t, u>>, NeighboursIn(t, u)
  PROVE  \E q \in Nat :
           /\ Used(p) \div (p[2] - p[1]) = q
           /\ IsReset(p) => energy_data[u] = q * (u - t)
           /\ ~ IsReset(p) => q = Slope(t, u) /\ energy_data[u] - energy_data[t] = q * (u - t)
<1>1. /\ p[1] = t /\ p[2] = u /\ t \in Readings /\ u \in Readings
      /\ t \in Nat /\ u \in Nat /\ t < u
  BY ReadingsAre DEF NeighboursIn, Readings
<1>2. PICK a \in Nat, b \in Nat, d \in Nat \ {0} :
        a = energy_data[t] /\ b = energy_data[u] /\ d = u - t
  BY <1>1, ReadingsAre DEF Readings
<1>3. b % d = 0
  BY <1>1, <1>2, ReadingsAre, ValuesAssumption DEF Readings
<1>4. PICK n \in Nat : b = d * n
  BY ONLY <1>3, b \in Nat, d \in Nat \ {0}, Quotient
<1>5. b \div d = n /\ b = n * d
  BY ONLY <1>4, n \in Nat, d \in Nat \ {0}, b \in Nat
<1>6. IsReset(p) <=> b < a
  BY <1>1, <1>2 DEF IsReset
<1>7. CASE b < a
  <2>1. Used(p) = b
    BY ONLY <1>1, <1>2, <1>6, <1>7, b \in Nat DEF Used
  <2>2. Used(p) \div (p[2] - p[1]) = n
    BY ONLY <1>1, <1>2, <1>5, <2>1
  <2>3. QED
    BY ONLY <1>2, <1>5, <1>6, <1>7, <2>2, n \in Nat
<1>8. CASE a <= b
  <2>1. PICK q \in Nat : q = Slope(t, u) /\ b - a = q * (u - t)
    BY <1>1, <1>2, <1>8, SlopeIs
  <2>2. ~ IsReset(p)
    BY <1>2, <1>6, <1>8
  <2>3. Used(p) = b - a
    BY ONLY <1>1, <1>2, <2>2 DEF Used
  <2>4. Used(p) \div (p[2] - p[1]) = q
    BY ONLY <1>1, <1>2, <2>1, <2>3, Zenon DEF Slope
  <2>5. QED
    BY ONLY <1>2, <2>1, <2>2, <2>4
<1>9. QED
  BY <1>7, <1>8

(* A share of an interval that lies off the period is nothing.             *)
LEMMA ShareIsInt ==
  ASSUME TablesInv, NEW from \in Nat, NEW to \in Nat, from < to,
         NEW p \in Neighbours
  PROVE  /\ Share(from, to, p) \in Int
         /\ p[2] <= from \/ to <= p[1] => Share(from, to, p) = 0
<1>1. PICK t, u : p = <<t, u>> /\ NeighboursIn(t, u)
  BY NeighboursAre
<1>2. p[1] \in Nat /\ p[2] \in Nat /\ p[1] < p[2]
  BY <1>1, ReadingsAre DEF NeighboursIn, Readings
<1>3. PICK c \in Nat : c = Common(from, to, p) /\ (p[2] <= from \/ to <= p[1] => c = 0)
  BY <1>2, CommonIs
<1>4. PICK q \in Nat : Used(p) \div (p[2] - p[1]) = q
  BY <1>1, UsedIs
<1>5. Share(from, to, p) = q * c
  BY ONLY <1>3, <1>4, Zenon DEF Share
<1>6. q * c \in Int /\ (c = 0 => q * c = 0)
  OBVIOUS
<1>7. QED
  BY ONLY <1>3, <1>5, <1>6

(* There is a third reading, or the second does not lie after the period.  *)
Enough(rows, to) == Len(rows) >= 3 \/ (Len(rows) = 2 /\ rows[2] <= to)

(* What calculate() counts for an interval is its share.                   *)
LEMMA EnergyIsShare ==
  ASSUME TablesInv, NEW from \in Nat, NEW to \in Nat, from < to, NEW scan \in Scans,
         Orderly(from, to, scan), NoResetAtEnds(from, to),
         NEW rows, rows = GetEnergy(from, to, scan), Enough(rows, to),
         NEW i \in 1..Len(rows) - 1
  PROVE  IntervalEnergy(rows, i, from, to) = Share(from, to, <<rows[i], rows[i + 1]>>)
<1>1. PICK t, u, p : t = rows[i] /\ u = rows[i + 1] /\ p = <<t, u>>
  OBVIOUS
<1>2. NeighboursIn(t, u)
  BY <1>1, RowsAreNeighbours
<1>3. /\ p[1] = t /\ p[2] = u /\ t \in Readings /\ u \in Readings
      /\ t \in Nat /\ u \in Nat /\ t < u
  BY <1>1, <1>2, ReadingsAre DEF NeighboursIn, Readings
<1>4. /\ Len(rows) \in Nat /\ t <= to /\ from <= u
      /\ i # 1 => from <= t
      /\ i # Len(rows) - 1 => u <= to
  BY <1>1, RowBounds
<1>5. i = 1 /\ i = Len(rows) - 1 => u <= to
  <2>1. i = 1 /\ i = Len(rows) - 1 => Len(rows) = 2 /\ rows[2] = u
    BY <1>1, <1>4
  <2>2. Len(rows) = 2 => rows[2] <= to
    BY DEF Enough
  <2>3. QED
    BY ONLY <2>1, <2>2, Zenon
<1>6. PICK a \in Nat, b \in Nat : a = energy_data[t] /\ b = energy_data[u]
  BY <1>3, ReadingsAre DEF Readings
<1>7. PICK q \in Nat :
        /\ Used(p) \div (p[2] - p[1]) = q
        /\ IsReset(p) => energy_data[u] = q * (u - t)
        /\ ~ IsReset(p) => q = Slope(t, u) /\ energy_data[u] - energy_data[t] = q * (u - t)
  BY <1>1, <1>2, UsedIs
<1>8. IsReset(p) <=> b < a
  BY <1>3, <1>6 DEF IsReset
<1>9. PICK c \in Nat : c = Common(from, to, p)
  BY <1>3, CommonIs
<1>10. /\ from <= t /\ u <= to => c = u - t
       /\ t < from /\ from <= u /\ u <= to => c = u - from
       /\ from <= t /\ t <= to /\ to < u => c = to - t
  <2>1. /\ from <= p[1] /\ p[2] <= to => Common(from, to, p) = p[2] - p[1]
        /\ p[1] < from /\ from <= p[2] /\ p[2] <= to => Common(from, to, p) = p[2] - from
        /\ from <= p[1] /\ p[1] <= to /\ to < p[2] => Common(from, to, p) = to - p[1]
    <3>1. p[1] \in Nat /\ p[2] \in Nat /\ p[1] < p[2]
      BY <1>3
    <3>2. from \in Nat /\ to \in Nat /\ from < to
      OBVIOUS
    <3>3. from <= p[1] /\ p[2] <= to => Common(from, to, p) = p[2] - p[1]
      BY ONLY <3>1, <3>2, CommonIs
    <3>4. p[1] < from /\ from <= p[2] /\ p[2] <= to => Common(from, to, p) = p[2] - from
      BY ONLY <3>1, <3>2, CommonIs
    <3>5. from <= p[1] /\ p[1] <= to /\ to < p[2] => Common(from, to, p) = to - p[1]
      BY ONLY <3>1, <3>2, CommonIs, SMTT(60)
    <3>6. QED
      BY ONLY <3>3, <3>4, <3>5, Zenon
  <2>2. QED
    BY ONLY <1>3, <1>9, <2>1, Zenon
<1>11. Share(from, to, p) = q * c
  BY ONLY <1>7, <1>9, Zenon DEF Share
<1>12. CASE b < a
  <2>1. p \in Neighbours
    BY <1>1, <1>2, NeighboursAre
  <2>2. ~ (t < from /\ from <= u) /\ ~ (t <= to /\ to < u)
    BY <1>3, <1>8, <1>12, <2>1 DEF NoResetAtEnds
  <2>3. c = u - t
    BY ONLY <1>3, <1>4, <1>10, <2>2, from \in Nat, to \in Nat
  <2>4. IntervalEnergy(rows, i, from, to) = b
    BY <1>1, <1>3, <1>6, <1>12, ResetIs
  <2>5. b = q * (u - t)
    BY <1>6, <1>7, <1>8, <1>12
  <2>6. QED
    BY ONLY <1>1, <1>11, <2>3, <2>4, <2>5
<1>13. CASE a <= b
  <2>0. energy_data[rows[i]] <= energy_data[rows[i + 1]]
    BY ONLY <1>1, <1>6, <1>13
  <2>1. q = Slope(t, u) /\ b - a = q * (u - t)
    BY <1>6, <1>7, <1>8, <1>13
  <2>2. CASE i = 1 /\ t < from
    <3>1. u <= to
      BY <1>4, <1>5, <2>2
    <3>2. c = u - from
      BY <1>4, <1>10, <2>2, <3>1
    <3>3. IntervalEnergy(rows, i, from, to) = Slope(t, u) * (u - from)
      <4>1. /\ rows[i] \in Readings /\ rows[i + 1] \in Readings
            /\ i = 1 /\ rows[i] < from /\ from <= rows[i + 1]
        BY ONLY <1>1, <1>3, <1>4, <2>2
      <4>2. IntervalEnergy(rows, i, from, to) =
              Slope(rows[i], rows[i + 1]) * (rows[i + 1] - from)
        BY <2>0, <4>1, FirstIs
      <4>3. QED
        BY ONLY <1>1, <4>2
    <3>4. QED
      BY ONLY <1>1, <1>11, <2>1, <3>2, <3>3
  <2>3. CASE i # 1 /\ i = Len(rows) - 1 /\ to < u
    <3>1. c = to - t
      BY <1>4, <1>10, <2>3
    <3>2. IntervalEnergy(rows, i, from, to) = Slope(t, u) * (to - t)
      <4>1. /\ rows[i] \in Readings /\ rows[i + 1] \in Readings
            /\ i # 1 /\ i = Len(rows) - 1 /\ rows[i] <= to /\ to < rows[i + 1]
        BY ONLY <1>1, <1>3, <1>4, <2>3
      <4>2. IntervalEnergy(rows, i, from, to) =
              Slope(rows[i], rows[i + 1]) * (to - rows[i])
        BY <2>0, <4>1, LastIs, ZenonT(60)
      <4>3. QED
        BY ONLY <1>1, <4>2
    <3>3. QED
      BY ONLY <1>1, <1>11, <2>1, <3>1, <3>2
  <2>4. CASE ~ (i = 1 /\ t < from) /\ ~ (i # 1 /\ i = Len(rows) - 1 /\ to < u)
    <3>1. from <= t /\ u <= to
      BY ONLY <1>3, <1>4, <1>5, <2>4, from \in Nat, to \in Nat
    <3>2. c = u - t
      BY <1>10, <3>1
    <3>3. ~ (i # 1 /\ i = Len(rows) - 1 /\ u > to)
      BY <1>3, <2>4
    <3>4. IntervalEnergy(rows, i, from, to) = b - a
      BY <1>1, <1>3, <1>6, <1>13, <2>4, <3>3, WholeIs, SMTT(60)
    <3>5. QED
      BY ONLY <1>1, <1>11, <2>1, <3>2, <3>4
  <2>5. QED
    BY <2>2, <2>3, <2>4
<1>14. QED
  BY <1>6, <1>12, <1>13

(* In the end it is all of the energy that was used in the period.         *)
LEMMA EsumIsUsed ==
  ASSUME TablesInv, NEW from \in Nat, NEW to \in Nat, from < to, NEW scan \in Scans,
         Orderly(from, to, scan), NoResetAtEnds(from, to),
         NEW rows, rows = GetEnergy(from, to, scan), Enough(rows, to)
  PROVE  Esum(rows, from, to) = EnergyUsed(from, to)
<1> DEFINE S == Intervals(rows)
           f == Energies(rows, from, to)
           g == Shares(from, to)
           h == [i \in S |-> <<rows[i], rows[i + 1]>>]
<1>1. /\ Len(rows) \in Nat /\ IsFiniteSet(S) /\ IsFiniteSet(Neighbours)
      /\ \A i \in S : f[i] \in Int
  BY EsumIsNat, NeighboursAre
<1>2. \A p \in Neighbours : g[p] = Share(from, to, p) /\ g[p] \in Int
  <2>1. \A p \in Neighbours : g[p] = Share(from, to, p)
    BY DEF Shares
  <2>2. QED
    BY <2>1, ShareIsInt
<1>3. ASSUME NEW i \in S
      PROVE  /\ h[i] = <<rows[i], rows[i + 1]>> /\ h[i] \in Neighbours
             /\ f[i] = g[h[i]]
  <2>1. h[i] = <<rows[i], rows[i + 1]>>
    OBVIOUS
  <2>2. i \in 1..Len(rows) - 1
    BY DEF Intervals
  <2>3. h[i] \in Neighbours
    BY <2>1, <2>2, RowsAreNeighbours, NeighboursAre
  <2>4. f[i] = IntervalEnergy(rows, i, from, to)
    BY DEF Energies
  <2>5. IntervalEnergy(rows, i, from, to) = Share(from, to, <<rows[i], rows[i + 1]>>)
    BY <2>2, EnergyIsShare
  <2>6. QED
    BY ONLY <1>2, <2>1, <2>3, <2>4, <2>5, Zenon
<1>4. h \in [S -> Neighbours]
  BY <1>3
<1>5. ASSUME NEW i \in S, NEW j \in S, h[i] = h[j]
      PROVE  i = j
  <2>1. rows[i] = rows[j]
    BY <1>3, <1>5
  <2>2. i \in 1..Len(rows) /\ j \in 1..Len(rows)
    BY <1>1 DEF Intervals
  <2>3. i < j => rows[i] < rows[j]
    BY <2>2, RowsRise
  <2>4. j < i => rows[j] < rows[i]
    BY <2>2, RowsRise
  <2>5. rows[i] \in Nat
    BY <2>2, RowKinds, ReadingsAre DEF Readings
  <2>6. QED
    BY <2>1, <2>2, <2>3, <2>4, <2>5
<1>6. ASSUME NEW p \in Neighbours, \A i \in S : h[i] # p
      PROVE  g[p] = 0
  <2>1. PICK t, u : p = <<t, u>> /\ NeighboursIn(t, u)
    BY NeighboursAre
  <2>2. t \in Nat /\ u \in Nat
    BY <2>1, ReadingsAre DEF NeighboursIn, Readings
  <2>3. ~ (t < to /\ from < u)
    <3>1. SUFFICES ASSUME t < to, from < u
                   PROVE  FALSE
      OBVIOUS
    <3>2. PICK i \in 1..Len(rows) - 1 : rows[i] = t /\ rows[i + 1] = u
      BY <2>1, <3>1, NeighboursAreRows, SMTT(60)
    <3>3. i \in S
      BY DEF Intervals
    <3>4. h[i] = p
      BY <1>3, <2>1, <3>2, <3>3
    <3>5. QED
      BY <1>6, <3>3, <3>4
  <2>4. p[2] <= from \/ to <= p[1]
    BY <2>1, <2>2, <2>3
  <2>5. QED
    BY <1>2, <2>4, ShareIsInt
<1> HIDE DEF S, f, g, h
<1>7. SumOn(f, S) = SumOn(g, Neighbours)
  <2>1. /\ \A x \in S : f[x] \in Int
        /\ \A y \in Neighbours : g[y] \in Int
    BY <1>1, <1>2
  <2>2. \A x, y \in S : h[x] = h[y] => x = y
    BY <1>5
  <2>3. \A x \in S : f[x] = g[h[x]]
    BY <1>3
  <2>4. \A y \in Neighbours : (\A x \in S : h[x] # y) => g[y] = 0
    BY <1>6
  <2>5. IsFiniteSet(S) /\ IsFiniteSet(Neighbours)
    BY <1>1
  <2>6. QED
    BY ONLY <1>4, <2>1, <2>2, <2>3, <2>4, <2>5, SumMatches
<1>8. QED
  BY ONLY <1>7, EsumIs, EnergyUsedIs DEF S, f, g

(* calculate() is exact, for any readings, wherever the counter is reset   *)
(* but at the ends of the period, and however the database scans.          *)
THEOREM EnergyTheorem == Spec => []EnergyIsExact
<1>1. TablesInv => EnergyIsExact
  <2> SUFFICES ASSUME TablesInv, NEW p \in Periods, NEW s \in Scans,
                      Enough(GetEnergy(p[1], p[2], s), p[2]),
                      NoResetAtEnds(p[1], p[2]), Orderly(p[1], p[2], s)
               PROVE  Esum(GetEnergy(p[1], p[2], s), p[1], p[2]) = EnergyUsed(p[1], p[2])
    BY Zenon DEF EnergyIsExact, Enough, Orderly
  <2>1. p[1] \in Nat /\ p[2] \in Nat /\ p[1] < p[2]
    BY TimesAssumption DEF Periods
  <2>2. QED
    BY <2>1, EsumIsUsed
<1>2. QED
  BY <1>1, TablesTheorem, PTL

-----------------------------------------------------------------------------
(* What the calculation makes of other readings e than those stored now    *)

PrecedesOf(e, t, u, scan) ==
  \/ scan = "by energy" /\ e[t] < e[u]
  \/ (scan = "by energy" => e[t] = e[u]) /\ t < u

RankOf(e, S, t, scan) == Cardinality({u \in S : PrecedesOf(e, u, t, scan)})

ScannedOf(e, S, scan) ==
  [k \in 1..Cardinality(S) |-> CHOOSE t \in S : RankOf(e, S, t, scan) = k - 1]

GetEnergyOf(e, from, to, scan) ==
  LatestOf({t \in NotNull(e) : t < from})
    \o ScannedOf(e, {t \in NotNull(e) : from <= t /\ t <= to}, scan)
    \o EarliestOf({t \in NotNull(e) : t > to})

(* Readings have the same order if they have the same values.              *)
LEMMA SameScan ==
  ASSUME NEW e, NEW f, NEW S, NEW scan, \A t \in S : f[t] = e[t]
  PROVE  ScannedOf(f, S, scan) = ScannedOf(e, S, scan)
<1>1. ASSUME NEW t \in S
      PROVE  RankOf(f, S, t, scan) = RankOf(e, S, t, scan)
  <2>1. ASSUME NEW u \in S
        PROVE  PrecedesOf(f, u, t, scan) <=> PrecedesOf(e, u, t, scan)
    <3>1. f[u] = e[u] /\ f[t] = e[t]
      OBVIOUS
    <3>2. QED
      BY ONLY <3>1, Zenon DEF PrecedesOf
  <2>2. {u \in S : PrecedesOf(f, u, t, scan)} = {u \in S : PrecedesOf(e, u, t, scan)}
    BY <2>1
  <2>3. QED
    BY ONLY <2>2, Zenon DEF RankOf
<1> DEFINE of(g, k) == CHOOSE t \in S : RankOf(g, S, t, scan) = k - 1
<1>2. ASSUME NEW k
      PROVE  of(f, k) = of(e, k)
  <2>1. \A t : (t \in S /\ RankOf(f, S, t, scan) = k - 1) <=>
                 (t \in S /\ RankOf(e, S, t, scan) = k - 1)
    BY <1>1
  <2>2. QED
    BY ONLY <2>1, Zenon
<1>3. /\ ScannedOf(f, S, scan) = [k \in 1..Cardinality(S) |-> of(f, k)]
      /\ ScannedOf(e, S, scan) = [k \in 1..Cardinality(S) |-> of(e, k)]
  BY Zenon DEF ScannedOf
<1> HIDE DEF of
<1>4. [k \in 1..Cardinality(S) |-> of(f, k)] = [k \in 1..Cardinality(S) |-> of(e, k)]
  BY ONLY <1>2
<1>5. QED
  BY ONLY <1>3, <1>4, Zenon

(* A reading that comes after one after the period does not belong to it.  *)
LEMMA SameRows ==
  ASSUME NEW e, NEW f, NEW from \in Nat, NEW to \in Nat, from < to, NEW scan, NEW t \in Nat,
         NotNull(e) \subseteq Nat, NotNull(f) = NotNull(e) \cup {t},
         \A u \in NotNull(e) : f[u] = e[u] /\ u < t,
         \E u \in NotNull(e) : u > to
  PROVE  GetEnergyOf(f, from, to, scan) = GetEnergyOf(e, from, to, scan)
<1> DEFINE A == {u \in NotNull(e) : u > to}
           W == {u \in NotNull(e) : from <= u /\ u <= to}
<1>1. t > to /\ ~ (t <= to) /\ ~ (t < from)
  OBVIOUS
<1>2. {u \in NotNull(f) : u < from} = {u \in NotNull(e) : u < from}
  BY <1>1
<1>3. {u \in NotNull(f) : from <= u /\ u <= to} = W
  BY <1>1
<1>4. {u \in NotNull(f) : u > to} = A \cup {t}
  BY <1>1
<1>5. A # {} /\ A \subseteq Nat /\ \A u \in A : u < t
  OBVIOUS
<1>6. ScannedOf(f, W, scan) = ScannedOf(e, W, scan)
  BY SameScan
<1> HIDE DEF A, W
<1>7. Min(A) \in A /\ \A u \in A : Min(A) <= u
  BY <1>5, MinIs
<1>8. Min(A \cup {t}) = Min(A)
  <2>1. Min(A \cup {t}) \in A \cup {t} /\ \A u \in A \cup {t} : Min(A \cup {t}) <= u
    <3>1. A \cup {t} # {} /\ A \cup {t} \subseteq Nat
      BY <1>5
    <3>2. QED
      BY ONLY <3>1, MinIs
  <2>2. PICK x \in A, y \in A \cup {t} : x = Min(A) /\ y = Min(A \cup {t})
    BY <1>7, <2>1
  <2>3. x \in Nat /\ y \in Nat /\ x < t
    BY <1>5, <2>2
  <2>4. y <= x
    BY <2>1, <2>2
  <2>5. y \in A
    BY ONLY <2>2, <2>3, <2>4, y \in A \cup {t}, t \in Nat
  <2>6. x <= y
    BY <1>7, <2>2, <2>5
  <2>7. QED
    BY ONLY <2>2, <2>3, <2>4, <2>6
<1>9. EarliestOf(A \cup {t}) = EarliestOf(A)
  <2>1. A \cup {t} # {}
    OBVIOUS
  <2>2. QED
    BY ONLY <1>5, <1>8, <2>1, Zenon DEF EarliestOf
<1>10. GetEnergyOf(e, from, to, scan) =
         LatestOf({u \in NotNull(e) : u < from}) \o ScannedOf(e, W, scan) \o EarliestOf(A)
  BY Zenon DEF GetEnergyOf, A, W
<1>11. GetEnergyOf(f, from, to, scan) =
         LatestOf({u \in NotNull(e) : u < from}) \o ScannedOf(f, W, scan)
           \o EarliestOf(A \cup {t})
  BY ONLY <1>2, <1>3, <1>4, Zenon DEF GetEnergyOf
<1>12. QED
  BY ONLY <1>6, <1>9, <1>10, <1>11, Zenon

(* The energy of rows that have the same values                            *)
LEMMA SameEnergy ==
  ASSUME NEW e, NEW f, NEW rows, NEW from, NEW to,
         \A i \in Intervals(rows) : f[rows[i]] = e[rows[i]] /\ f[rows[i + 1]] = e[rows[i + 1]]
  PROVE  EsumOf(f, rows, from, to) = EsumOf(e, rows, from, to)
<1>1. ASSUME NEW i \in Intervals(rows)
      PROVE  EnergyOf(f, rows, i, from, to) = EnergyOf(e, rows, i, from, to)
  BY Zenon DEF EnergyOf
<1>2. EnergiesOf(f, rows, from, to) = EnergiesOf(e, rows, from, to)
  BY ONLY <1>1, Zenon DEF EnergiesOf
<1>3. QED
  BY <1>2, EsumOfIs

(* Once a reading follows the period, the rows and the energy of the       *)
(* period are the same after any later reading.                            *)
THEOREM FinalTheorem == Spec => KpiIsFinal
<1>1. ASSUME TablesInv, NEW p \in Periods, NEW s \in Scans,
             \E t \in NotNull(energy_data) : t > p[2],
             NEW t \in EnergyTimes, \A u \in NotNull(energy_data) : u < t,
             NEW v \in EnergyValues, UpsertEnergy(t, v)
      PROVE  /\ GetEnergy(p[1], p[2], s)' = GetEnergy(p[1], p[2], s)
             /\ Esum(GetEnergy(p[1], p[2], s), p[1], p[2])' =
                  Esum(GetEnergy(p[1], p[2], s), p[1], p[2])
  <2>1. PICK from \in Nat, to \in Nat : from = p[1] /\ to = p[2] /\ from < to
    BY TimesAssumption DEF Periods
  <2>2. PICK e, f : e = energy_data /\ f = energy_data'
    OBVIOUS
  <2>3. f = Upserted(e, t, v)
    BY <1>1, <2>2 DEF UpsertEnergy
  <2>4. /\ DOMAIN f = DOMAIN e \cup {t}
        /\ \A u \in DOMAIN e \cup {t} : f[u] = IF u = t THEN v ELSE e[u]
    BY <2>3 DEF Upserted
  <2>5. NotNull(e) \subseteq Nat /\ NotNull(e) \subseteq DOMAIN e
    BY <1>1, <2>2, ReadingsAre DEF NotNull
  <2>6. t \in Nat /\ v # Null
    BY TimesAssumption, ValuesAssumption, NullAssumption
  <2>7. \A u \in NotNull(e) : u < t /\ u # t
    BY <1>1, <2>2, <2>5, <2>6
  <2>8. \A u \in NotNull(e) : f[u] = e[u]
    BY <2>4, <2>5, <2>7
  <2>9. NotNull(f) = NotNull(e) \cup {t}
    BY ONLY <2>4, <2>6 DEF NotNull
  <2>10. \E u \in NotNull(e) : u > to
    BY <1>1, <2>1, <2>2
  <2>11. GetEnergyOf(f, from, to, s) = GetEnergyOf(e, from, to, s)
    BY ONLY <2>1, <2>5, <2>6, <2>7, <2>8, <2>9, <2>10, SameRows
  <2>12. PICK rows : rows = GetEnergy(from, to, s)
    OBVIOUS
  <2>13. rows = GetEnergyOf(e, from, to, s)
    <3>1. GetEnergy(from, to, s) = GetEnergyOf(energy_data, from, to, s)
      BY ONLY Zenon DEF GetEnergy, GetEnergyOf, Scanned, ScannedOf, RankOf, Precedes, PrecedesOf
    <3>2. QED
      BY ONLY <2>2, <2>12, <3>1, Zenon
  <2>14. GetEnergy(from, to, s)' = GetEnergyOf(f, from, to, s)
    <3>1. GetEnergy(from, to, s)' = GetEnergyOf(energy_data', from, to, s)
      BY ONLY Zenon DEF GetEnergy, GetEnergyOf, Scanned, ScannedOf, RankOf, Precedes, PrecedesOf
    <3>2. QED
      BY ONLY <2>2, <3>1, Zenon
  <2>15. \A i \in Intervals(rows) : rows[i] \in NotNull(e) /\ rows[i + 1] \in NotNull(e)
    BY <1>1, <2>1, <2>2, <2>12, RowBounds, ZenonT(60) DEF Readings, Intervals
  <2>16. EsumOf(f, rows, from, to) = EsumOf(e, rows, from, to)
    BY ONLY <2>8, <2>15, SameEnergy
  <2>17. Esum(rows, from, to) = EsumOf(e, rows, from, to)
    <3>1. Esum(rows, from, to) = EsumOf(energy_data, rows, from, to)
      BY ONLY Zenon DEF Esum, EsumOf, IntervalEnergy, EnergyOf
    <3>2. QED
      BY ONLY <2>2, <3>1, Zenon
  <2>18. Esum(GetEnergy(from, to, s), from, to)' = EsumOf(f, rows, from, to)
    <3>1. Esum(GetEnergy(from, to, s), from, to)' =
            EsumOf(energy_data', GetEnergy(from, to, s)', from, to)
      BY ONLY Zenon DEF Esum, EsumOf, IntervalEnergy, EnergyOf, MapThenSumSet, MapThenFoldSet
    <3>2. QED
      BY ONLY <2>2, <2>11, <2>13, <2>14, <3>1, Zenon
  <2>19. QED
    BY ONLY <2>1, <2>11, <2>12, <2>13, <2>14, <2>16, <2>17, <2>18, Zenon
<1>2. ASSUME TablesInv
      PROVE  \A p \in Periods, s \in Scans :
               /\ \E t \in NotNull(energy_data) : t > p[2]
               /\ \E t \in EnergyTimes :
                    /\ \A u \in NotNull(energy_data) : u < t
                    /\ \E v \in EnergyValues : UpsertEnergy(t, v)
               => GetEnergy(p[1], p[2], s)' = GetEnergy(p[1], p[2], s)
                  /\ Esum(GetEnergy(p[1], p[2], s), p[1], p[2])' =
                       Esum(GetEnergy(p[1], p[2], s), p[1], p[2])
  BY <1>1, <1>2, Zenon
<1>3. QED
  BY <1>2, TablesTheorem, PTL DEF KpiIsFinal

=============================================================================
