------------------------------ MODULE DataLemmas ------------------------------
(***************************************************************************)
(* Facts about the data of the models that their proofs share: sums of a   *)
(* function over a finite set, queues in which nothing stands twice, folds *)
(* of a sequence.  The induction over a set takes a set of subsets in the  *)
(* place of a predicate.                                                   *)
(***************************************************************************)
EXTENDS Integers, FiniteSets, Functions, SequencesExt, FiniteSetTheorems, SequenceTheorems,
        WellFoundedInduction, TLAPS

(***************************************************************************)
(* SumFunctionOnSet folds a set in the order of CHOOSE.                    *)
(***************************************************************************)
First(S) == CHOOSE x \in S : TRUE
Sums(f, T, g) ==
    g = [S \in SUBSET T |-> IF S = {} THEN 0 ELSE f[First(S)] + g[S \ {First(S)}]]

LEMMA SumUnfolds ==
    ASSUME NEW f, NEW T
    PROVE  SumFunctionOnSet(f, T) = (CHOOSE g : Sums(f, T, g))[T]
BY DEF SumFunctionOnSet, FoldFunctionOnSet, MapThenFoldSet, Sums, First

(***************************************************************************)
(* Induction with a set in the place of the predicate.                     *)
(***************************************************************************)
LEMMA NatSetInduction ==
    ASSUME NEW Good \in SUBSET Nat, 0 \in Good, \A n \in Good : n + 1 \in Good
    PROVE  Good = Nat
<1> DEFINE R == {p \in Nat \X Nat : p[1] < p[2]}
           Bad == Nat \ Good
<1>1. SUFFICES ASSUME Bad # {} PROVE FALSE
  OBVIOUS
<1>2. IsWellFoundedOn(R, Nat)
  BY NatLessThanWellFounded DEF OpToRel
<1>3. \A m, n \in Nat : m < n => <<m, n>> \in R
  OBVIOUS
<1>4. Bad \subseteq Nat
  OBVIOUS
<1>5. \E n \in Bad : \A m \in Bad : ~(<<m, n>> \in R)
  <2> HIDE DEF R, Bad
  <2>1. QED
    BY <1>1, <1>2, <1>4, WFMin
<1>6. PICK n \in Nat \ Good : \A m \in Nat \ Good : ~(m < n)
  <2> HIDE DEF R
  <2>1. QED
    BY <1>3, <1>5
<1>7. n # 0 /\ n - 1 \in Nat
  OBVIOUS
<1>8. n - 1 \in Good
  BY <1>6, <1>7
<1>9. QED
  BY <1>7, <1>8

LEMMA SubsetInduction ==
    ASSUME NEW T, IsFiniteSet(T), NEW Good, {} \in Good,
           \A S \in SUBSET T :
               S # {} /\ (\A x \in S : S \ {x} \in Good) => S \in Good
    PROVE  T \in Good
<1> DEFINE Bad == (SUBSET T) \ Good
           R == StrictSubsetOrdering(T)
<1>1. SUFFICES ASSUME Bad # {} PROVE FALSE
  OBVIOUS
<1>2. IsWellFoundedOn(R, SUBSET T)
  BY FS_StrictSubsetOrderingWellFounded, FS_FiniteSubsetsOfFinite
<1>3. \A S \in SUBSET T : \A x \in S : <<S \ {x}, S>> \in R
  BY DEF StrictSubsetOrdering
<1>4. Bad \subseteq SUBSET T
  OBVIOUS
<1>5. \E S \in Bad : \A Q \in Bad : ~(<<Q, S>> \in R)
  <2> HIDE DEF R, Bad
  <2>1. QED
    BY <1>1, <1>2, <1>4, WFMin
<1> HIDE DEF R
<1>6. PICK S \in Bad : \A Q \in Bad : ~(<<Q, S>> \in R)
  BY <1>5
<1>7. ASSUME NEW x \in S PROVE S \ {x} \in Good
  <2>1. S \ {x} \in SUBSET T /\ <<S \ {x}, S>> \in R
    BY <1>3
  <2>2. QED
    BY <1>6, <2>1
<1>8. QED
  BY <1>6, <1>7

(***************************************************************************)
(* The sum over a finite set exists, and takes its elements in any order.  *)
(***************************************************************************)
SumOver(f, S) == SumFunctionOnSet(f, S)

LEMMA SumExists ==
    ASSUME NEW T, IsFiniteSet(T), NEW f, \A x \in T : f[x] \in Nat
    PROVE  \E g \in [SUBSET T -> Nat] : Sums(f, T, g)
<1> DEFINE Step(g, S) == IF S = {} THEN 0 ELSE f[First(S)] + g[S \ {First(S)}]
           Upto(n, g) == \A S \in SUBSET T : Cardinality(S) <= n => g[S] = Step(g, S)
           Good == {n \in Nat : \E g \in [SUBSET T -> Nat] : Upto(n, g)}
<1>1. \A S \in SUBSET T : IsFiniteSet(S) /\ Cardinality(S) \in Nat
  BY FS_Subset, FS_CardinalityType
<1>2. \A S \in SUBSET T : S # {} => First(S) \in S
  BY DEF First
<1>3. 0 \in Good
  <2> DEFINE z == [S \in SUBSET T |-> 0]
  <2>1. \A S \in SUBSET T : Cardinality(S) <= 0 => S = {}
    BY <1>1, FS_EmptySet
  <2>2. z \in [SUBSET T -> Nat] /\ Upto(0, z)
    BY <2>1
  <2>3. QED
    BY <2>2
<1>4. ASSUME NEW n \in Good PROVE n + 1 \in Good
  <2>1. PICK g \in [SUBSET T -> Nat] : Upto(n, g)
    BY <1>4
  <2> DEFINE h == [S \in SUBSET T |-> Step(g, S)]
  <2>2. h \in [SUBSET T -> Nat]
    BY <1>2
  <2>3. ASSUME NEW S \in SUBSET T, Cardinality(S) <= n + 1, S # {}
        PROVE  h[S \ {First(S)}] = g[S \ {First(S)}]
    <3>1. /\ S \ {First(S)} \in SUBSET T
          /\ Cardinality(S \ {First(S)}) = Cardinality(S) - 1
      BY <1>1, <1>2, <2>3, FS_RemoveElement
    <3>2. Cardinality(S \ {First(S)}) <= n
      BY <1>1, <2>3, <3>1
    <3>3. QED
      BY <2>1, <3>1, <3>2
  <2>4. Upto(n + 1, h)
    BY <2>3
  <2>5. n \in Nat /\ n + 1 \in Nat
    OBVIOUS
  <2> HIDE DEF h, Upto
  <2>6. \E k \in [SUBSET T -> Nat] : Upto(n + 1, k)
    BY <2>2, <2>4
  <2>7. QED
    BY <2>5, <2>6
<1>5. Good = Nat
  <2> HIDE DEF Good
  <2>1. Good \in SUBSET Nat
    BY DEF Good
  <2>2. QED
    BY <1>3, <1>4, <2>1, NatSetInduction
<1>6. PICK g \in [SUBSET T -> Nat] : Upto(Cardinality(T), g)
  BY <1>1, <1>5
<1>7. \A S \in SUBSET T : g[S] = Step(g, S)
  BY <1>1, <1>6, FS_Subset
<1>8. QED
  BY <1>7 DEF Sums

LEMMA SumIsOf ==
    ASSUME NEW T, IsFiniteSet(T), NEW f, \A x \in T : f[x] \in Nat,
           NEW g \in [SUBSET T -> Nat], Sums(f, T, g), NEW S \in SUBSET T
    PROVE  SumOver(f, S) = g[S]
<1> DEFINE h == CHOOSE h : Sums(f, S, h)
           Good == {U \in SUBSET S : g[U] = h[U]}
<1>1. IsFiniteSet(S)
  BY FS_Subset
<1>2. Sums(f, S, h)
  BY <1>1, SumExists
<1> HIDE DEF h
<1>3. {} \in Good
  BY <1>2 DEF Sums
<1>4. ASSUME NEW U \in SUBSET S, U # {}, \A x \in U : U \ {x} \in Good PROVE U \in Good
  <2>1. First(U) \in U
    BY <1>4 DEF First
  <2>2. g[U] = f[First(U)] + g[U \ {First(U)}]
    BY <1>4 DEF Sums
  <2>3. h[U] = f[First(U)] + h[U \ {First(U)}]
    BY <1>2, <1>4 DEF Sums
  <2>4. QED
    BY <1>4, <2>1, <2>2, <2>3
<1>5. S \in Good
  <2> HIDE DEF Good
  <2>1. QED
    BY <1>1, <1>3, <1>4, SubsetInduction
<1>6. QED
  BY <1>5, SumUnfolds DEF SumOver, h

LEMMA SumFacts ==
    ASSUME NEW S, IsFiniteSet(S), NEW f, \A x \in S : f[x] \in Nat
    PROVE  /\ SumOver(f, S) \in Nat
           /\ SumOver(f, {}) = 0
           /\ S # {} => SumOver(f, S) = f[First(S)] + SumOver(f, S \ {First(S)})
<1>1. PICK g \in [SUBSET S -> Nat] : Sums(f, S, g)
  BY SumExists
<1>2. \A U \in SUBSET S : SumOver(f, U) = g[U]
  BY <1>1, SumIsOf
<1>3. \A U \in SUBSET S : g[U] = IF U = {} THEN 0 ELSE f[First(U)] + g[U \ {First(U)}]
  BY <1>1 DEF Sums
<1>4. QED
  BY <1>2, <1>3

LEMMA SumTakes ==
    ASSUME NEW T, IsFiniteSet(T), NEW f, \A y \in T : f[y] \in Nat, NEW x \in T
    PROVE  SumOver(f, T) = f[x] + SumOver(f, T \ {x})
<1> DEFINE Good == {S \in SUBSET T : \A y \in S : SumOver(f, S) = f[y] + SumOver(f, S \ {y})}
<1>0. \A S \in SUBSET T : IsFiniteSet(S) /\ SumOver(f, S) \in Nat
  <2>1. ASSUME NEW S \in SUBSET T PROVE IsFiniteSet(S) /\ SumOver(f, S) \in Nat
    BY FS_Subset, SumFacts
  <2>2. QED
    BY <2>1
<1>1. ASSUME NEW S \in SUBSET T, S # {}, \A y \in S : S \ {y} \in Good,
             NEW y \in S
      PROVE  SumOver(f, S) = f[y] + SumOver(f, S \ {y})
  <2>1. PICK c : c = First(S)
    OBVIOUS
  <2>2. c \in S /\ SumOver(f, S) = f[c] + SumOver(f, S \ {c})
    BY <1>0, <1>1, <2>1, SumFacts DEF First
  <2>3. CASE c = y
    BY <2>2, <2>3
  <2>4. CASE c # y
    <3>1. SumOver(f, S \ {c}) = f[y] + SumOver(f, (S \ {c}) \ {y})
      BY <1>1, <2>2, <2>4
    <3>2. SumOver(f, S \ {y}) = f[c] + SumOver(f, (S \ {y}) \ {c})
      BY <1>1, <2>2, <2>4
    <3>3. (S \ {c}) \ {y} = (S \ {y}) \ {c}
      OBVIOUS
    <3>4. SumOver(f, (S \ {y}) \ {c}) \in Nat /\ f[c] \in Nat /\ f[y] \in Nat
      <4>1. (S \ {y}) \ {c} \in SUBSET T
        OBVIOUS
      <4>2. QED
        BY <1>0, <2>2, <4>1
    <3>5. PICK k, m, n :
              /\ k = SumOver(f, (S \ {y}) \ {c}) /\ m = f[c] /\ n = f[y]
              /\ k \in Nat /\ m \in Nat /\ n \in Nat
      BY <3>4
    <3>6. SumOver(f, S) = m + (n + k) /\ SumOver(f, S \ {y}) = m + k
      BY <2>2, <3>1, <3>2, <3>3, <3>5
    <3>7. QED
      BY <3>5, <3>6
  <2>5. QED
    BY <2>3, <2>4
<1>2. T \in Good
  <2>1. {} \in Good
    OBVIOUS
  <2>2. \A S \in SUBSET T : S # {} /\ (\A y \in S : S \ {y} \in Good) => S \in Good
    BY <1>1
  <2> HIDE DEF Good
  <2>3. QED
    BY <2>1, <2>2, SubsetInduction
<1>3. QED
  BY <1>2

LEMMA SumAdds ==
    ASSUME NEW S, IsFiniteSet(S), NEW x, x \notin S, NEW f,
           \A y \in S \cup {x} : f[y] \in Nat
    PROVE  SumOver(f, S \cup {x}) = f[x] + SumOver(f, S)
<1>1. IsFiniteSet(S \cup {x}) /\ (S \cup {x}) \ {x} = S
  BY FS_AddElement
<1>2. QED
  BY <1>1, SumTakes

LEMMA SumAtMost ==
    ASSUME NEW T, IsFiniteSet(T), NEW S \in SUBSET T, NEW f, NEW g,
           \A x \in T : g[x] \in Nat,
           \A x \in S : f[x] \in Nat /\ f[x] <= g[x]
    PROVE  SumOver(f, S) <= SumOver(g, T)
<1> DEFINE Good == {U \in SUBSET T : SumOver(f, U \cap S) <= SumOver(g, U)}
<1>1. {} \in Good
  <2>1. IsFiniteSet({}) /\ {} \cap S = {}
    BY FS_EmptySet
  <2>2. SumOver(f, {}) = 0 /\ SumOver(g, {}) = 0
    BY <2>1, SumFacts
  <2>3. QED
    BY <2>1, <2>2
<1>2. ASSUME NEW U \in SUBSET T, U # {}, \A x \in U : U \ {x} \in Good PROVE U \in Good
  <2>1. PICK x : x \in U
    BY <1>2
  <2>2. /\ IsFiniteSet(U) /\ IsFiniteSet(U \cap S)
        /\ IsFiniteSet(U \ {x}) /\ IsFiniteSet((U \ {x}) \cap S)
    BY FS_Subset
  <2>3. SumOver(g, U) = g[x] + SumOver(g, U \ {x})
    BY <2>1, <2>2, SumTakes
  <2>4. SumOver(f, (U \ {x}) \cap S) <= SumOver(g, U \ {x})
    BY <1>2, <2>1
  <2>5. SumOver(g, U \ {x}) \in Nat /\ SumOver(f, (U \ {x}) \cap S) \in Nat
    BY <2>2, SumFacts
  <2>6. CASE x \in S
    <3>1. SumOver(f, U \cap S) = f[x] + SumOver(f, (U \cap S) \ {x})
      BY <2>1, <2>2, <2>6, SumTakes
    <3>2. (U \cap S) \ {x} = (U \ {x}) \cap S
      OBVIOUS
    <3>3. f[x] \in Nat /\ g[x] \in Nat /\ f[x] <= g[x]
      BY <2>6
    <3>4. SumOver(f, U \cap S) <= SumOver(g, U)
      <4> HIDE DEF Good
      <4>1. QED
        BY <2>3, <2>4, <2>5, <3>1, <3>2, <3>3
    <3>5. QED
      BY <3>4
  <2>7. CASE x \notin S
    <3>1. U \cap S = (U \ {x}) \cap S /\ g[x] \in Nat
      BY <2>1, <2>7
    <3>2. SumOver(f, U \cap S) <= SumOver(g, U)
      <4> HIDE DEF Good
      <4>1. SumOver(f, U \cap S) = SumOver(f, (U \ {x}) \cap S)
        BY <3>1
      <4>2. QED
        BY <2>3, <2>4, <2>5, <3>1, <4>1
    <3>3. QED
      BY <3>2
  <2>8. QED
    BY <2>6, <2>7
<1>3. T \in Good
  <2> HIDE DEF Good
  <2>1. QED
    BY <1>1, <1>2, SubsetInduction
<1>4. T \cap S = S
  OBVIOUS
<1>5. QED
  BY <1>3, <1>4

LEMMA SumSplits ==
    ASSUME NEW T, IsFiniteSet(T), NEW f, NEW g, NEW h,
           \A x \in T : f[x] \in Nat /\ g[x] \in Nat /\ h[x] = f[x] + g[x]
    PROVE  SumOver(h, T) = SumOver(f, T) + SumOver(g, T)
<1> DEFINE Good == {U \in SUBSET T : SumOver(h, U) = SumOver(f, U) + SumOver(g, U)}
<1>1. {} \in Good
  <2>1. IsFiniteSet({})
    BY FS_EmptySet
  <2>2. SumOver(f, {}) = 0 /\ SumOver(g, {}) = 0 /\ SumOver(h, {}) = 0
    BY <2>1, SumFacts
  <2>3. QED
    BY <2>2
<1>2. ASSUME NEW U \in SUBSET T, U # {}, \A x \in U : U \ {x} \in Good PROVE U \in Good
  <2>1. PICK x : x \in U
    BY <1>2
  <2>2. IsFiniteSet(U) /\ IsFiniteSet(U \ {x})
    BY FS_Subset
  <2>3. /\ SumOver(f, U) = f[x] + SumOver(f, U \ {x})
        /\ SumOver(g, U) = g[x] + SumOver(g, U \ {x})
        /\ SumOver(h, U) = h[x] + SumOver(h, U \ {x})
    BY <2>1, <2>2, SumTakes
  <2>4. SumOver(f, U \ {x}) \in Nat /\ SumOver(g, U \ {x}) \in Nat
    BY <2>2, SumFacts
  <2>5. SumOver(h, U \ {x}) = SumOver(f, U \ {x}) + SumOver(g, U \ {x})
    BY <1>2, <2>1
  <2>6. f[x] \in Nat /\ g[x] \in Nat /\ h[x] = f[x] + g[x]
    BY <2>1
  <2>7. QED
    BY <2>3, <2>4, <2>5, <2>6
<1>3. T \in Good
  <2> HIDE DEF Good
  <2>1. QED
    BY <1>1, <1>2, SubsetInduction
<1>4. QED
  BY <1>3

\* Sums are compared element by element.
LEMMA SumSame ==
    ASSUME NEW T, IsFiniteSet(T), NEW f, NEW g,
           \A x \in T : f[x] \in Nat /\ g[x] = f[x]
    PROVE  SumOver(g, T) = SumOver(f, T)
<1>1. T \in SUBSET T /\ \A x \in T : f[x] \in Nat /\ g[x] \in Nat /\ f[x] <= g[x] /\ g[x] <= f[x]
  OBVIOUS
<1>2. SumOver(g, T) <= SumOver(f, T) /\ SumOver(f, T) <= SumOver(g, T)
  <2>1. SumOver(g, T) <= SumOver(f, T)
    BY <1>1, SumAtMost
  <2>2. SumOver(f, T) <= SumOver(g, T)
    BY <1>1, SumAtMost
  <2>3. QED
    BY <2>1, <2>2
<1>3. SumOver(g, T) \in Nat
  BY <1>1, SumFacts
<1>4. SumOver(f, T) \in Nat
  BY <1>1, SumFacts
<1>5. QED
  BY <1>2, <1>3, <1>4

LEMMA SumOfNothing ==
    ASSUME NEW T, IsFiniteSet(T), NEW f, \A x \in T : f[x] = 0
    PROVE  SumOver(f, T) = 0
<1> DEFINE Good == {U \in SUBSET T : SumOver(f, U) = 0}
<1>1. {} \in Good
  <2>1. IsFiniteSet({})
    BY FS_EmptySet
  <2>2. QED
    BY <2>1, SumFacts
<1>2. ASSUME NEW U \in SUBSET T, U # {}, \A x \in U : U \ {x} \in Good PROVE U \in Good
  <2>1. PICK x : x \in U
    BY <1>2
  <2>2. IsFiniteSet(U) /\ (\A y \in U : f[y] \in Nat)
    BY FS_Subset
  <2>3. SumOver(f, U) = f[x] + SumOver(f, U \ {x})
    BY <2>1, <2>2, SumTakes
  <2>4. QED
    BY <1>2, <2>1, <2>3
<1>3. T \in Good
  <2> HIDE DEF Good
  <2>1. QED
    BY <1>1, <1>2, SubsetInduction
<1>4. QED
  BY <1>3

LEMMA SumOfUnion ==
    ASSUME NEW S, NEW T, IsFiniteSet(S), IsFiniteSet(T), S \cap T = {},
           NEW f, \A x \in S \cup T : f[x] \in Nat
    PROVE  SumOver(f, S \cup T) = SumOver(f, S) + SumOver(f, T)
<1> DEFINE Good == {U \in SUBSET S : SumOver(f, U \cup T) = SumOver(f, U) + SumOver(f, T)}
<1>1. SumOver(f, T) \in Nat /\ SumOver(f, {}) = 0
  BY SumFacts
<1>2. {} \in Good
  <2>1. {} \cup T = T
    OBVIOUS
  <2>2. QED
    BY <1>1, <2>1
<1>3. ASSUME NEW U \in SUBSET S, U # {}, \A x \in U : U \ {x} \in Good PROVE U \in Good
  <2>1. PICK x : x \in U
    BY <1>3
  <2>2. IsFiniteSet(U) /\ IsFiniteSet(U \ {x}) /\ IsFiniteSet(U \cup T)
    BY FS_Subset, FS_Union
  <2>3. SumOver(f, U) = f[x] + SumOver(f, U \ {x})
    BY <2>1, <2>2, SumTakes
  <2>4. SumOver(f, U \cup T) = f[x] + SumOver(f, (U \cup T) \ {x})
    BY <2>1, <2>2, SumTakes
  <2>5. (U \cup T) \ {x} = (U \ {x}) \cup T
    BY <2>1
  <2>6. SumOver(f, (U \ {x}) \cup T) = SumOver(f, U \ {x}) + SumOver(f, T)
    BY <1>3, <2>1
  <2>7. SumOver(f, U \ {x}) \in Nat /\ f[x] \in Nat
    BY <2>1, <2>2, SumFacts
  <2>8. SumOver(f, U \cup T) = SumOver(f, U) + SumOver(f, T)
    <3>1. PICK k, m, n :
              /\ k = SumOver(f, U \ {x}) /\ m = f[x] /\ n = SumOver(f, T)
              /\ k \in Nat /\ m \in Nat /\ n \in Nat
      BY <1>1, <2>7
    <3>2. SumOver(f, U) = m + k /\ SumOver(f, U \cup T) = m + (k + n) /\ SumOver(f, T) = n
      BY <2>3, <2>4, <2>5, <2>6, <3>1
    <3>3. QED
      BY <3>1, <3>2
  <2>9. QED
    BY <2>8
<1>4. S \in Good
  <2> HIDE DEF Good
  <2>1. QED
    BY <1>2, <1>3, SubsetInduction
<1>5. QED
  BY <1>4

(***************************************************************************)
(* A queue of members of S in which nothing stands twice.                  *)
(***************************************************************************)
Once(q, S) ==
    /\ q \in Seq(S)
    /\ \A i, j \in DOMAIN q : q[i] = q[j] => i = j
    /\ IsFiniteSet(ToSet(q)) /\ Cardinality(ToSet(q)) = Len(q)

LEMMA NobodyQueues == ASSUME NEW S PROVE Once(<<>>, S) /\ ToSet(<<>>) = {}
<1>1. <<>> \in Seq(S) /\ Len(<<>>) = 0 /\ DOMAIN <<>> = {}
  OBVIOUS
<1>2. ToSet(<<>>) = {}
  BY <1>1 DEF ToSet
<1>3. QED
  BY <1>1, <1>2, FS_EmptySet DEF Once

LEMMA LastQueues ==
    ASSUME NEW S, NEW q, Once(q, S), NEW x \in S, x \notin ToSet(q)
    PROVE  /\ Once(Append(q, x), S) /\ Append(q, x) # <<>>
           /\ Len(Append(q, x)) = Len(q) + 1
           /\ ToSet(Append(q, x)) = ToSet(q) \cup {x}
           /\ Head(Append(q, x)) = IF q = <<>> THEN x ELSE Head(q)
<1>1. PICK p : p = Append(q, x)
  OBVIOUS
<1>2. /\ q \in Seq(S) /\ Len(q) \in Nat /\ DOMAIN q = 1 .. Len(q)
      /\ p \in Seq(S) /\ Len(p) = Len(q) + 1 /\ DOMAIN p = 1 .. Len(q) + 1
      /\ p[Len(q) + 1] = x /\ \A i \in DOMAIN q : p[i] = q[i]
  BY <1>1, AppendProperties DEF Once
<1>3. ToSet(p) = ToSet(q) \cup {x}
  BY <1>2 DEF ToSet
<1>4. \A i, j \in DOMAIN p : p[i] = p[j] => i = j
  <2>1. \A i \in DOMAIN q : p[i] # x
    BY <1>2 DEF ToSet
  <2>2. \A i, j \in DOMAIN q : p[i] = p[j] => i = j
    BY <1>2 DEF Once
  <2>3. \A i \in DOMAIN p : i \in DOMAIN q \/ i = Len(q) + 1
    BY <1>2
  <2>4. QED
    BY <1>2, <2>1, <2>2, <2>3
<1>5. Cardinality(ToSet(p)) = Len(p) /\ IsFiniteSet(ToSet(p))
  <2>1. IsFiniteSet(ToSet(q)) /\ Cardinality(ToSet(q)) = Len(q)
    BY DEF Once
  <2>2. /\ IsFiniteSet(ToSet(q) \cup {x})
        /\ Cardinality(ToSet(q) \cup {x}) = Cardinality(ToSet(q)) + 1
    BY <2>1, FS_AddElement
  <2>3. QED
    BY <1>2, <1>3, <2>1, <2>2
<1>6. p # <<>> /\ Head(p) = p[1] /\ (q # <<>> => Head(q) = q[1]) /\ (q = <<>> <=> Len(q) = 0)
  BY <1>2
<1>7. Head(p) = IF q = <<>> THEN x ELSE Head(q)
  BY <1>2, <1>6
<1>8. QED
  BY <1>1, <1>2, <1>3, <1>4, <1>5, <1>6, <1>7 DEF Once

LEMMA FirstLeaves ==
    ASSUME NEW S, NEW q, Once(q, S), q # <<>>
    PROVE  /\ Once(Tail(q), S) /\ Len(Tail(q)) = Len(q) - 1 /\ Len(q) \in Nat \ {0}
           /\ Head(q) \in S /\ Head(q) \in ToSet(q)
           /\ ToSet(Tail(q)) = ToSet(q) \ {Head(q)}
<1>1. PICK p : p = Tail(q)
  OBVIOUS
<1>2. /\ q \in Seq(S) /\ Len(q) \in Nat \ {0} /\ DOMAIN q = 1 .. Len(q)
      /\ p \in Seq(S) /\ Len(p) = Len(q) - 1 /\ DOMAIN p = 1 .. Len(q) - 1
      /\ \A i \in DOMAIN p : p[i] = q[i + 1]
  BY <1>1 DEF Once
<1>3. Head(q) = q[1] /\ 1 \in DOMAIN q /\ Head(q) \in S /\ Head(q) \in ToSet(q)
  BY <1>2 DEF ToSet
<1>4. ToSet(p) = ToSet(q) \ {Head(q)}
  <2>1. ASSUME NEW i \in DOMAIN p PROVE p[i] \in ToSet(q) \ {Head(q)}
    <3>1. i + 1 \in DOMAIN q /\ i + 1 # 1 /\ p[i] = q[i + 1]
      BY <1>2
    <3>2. QED
      BY <1>3, <3>1 DEF Once, ToSet
  <2>2. ASSUME NEW i \in DOMAIN q, q[i] # Head(q) PROVE q[i] \in ToSet(p)
    <3>1. i - 1 \in DOMAIN p /\ p[i - 1] = q[i]
      BY <1>2, <1>3, <2>2
    <3>2. QED
      BY <3>1 DEF ToSet
  <2>3. QED
    BY <2>1, <2>2 DEF ToSet
<1>5. \A i, j \in DOMAIN p : p[i] = p[j] => i = j
  BY <1>2 DEF Once
<1>6. Cardinality(ToSet(p)) = Len(p) /\ IsFiniteSet(ToSet(p))
  <2>1. IsFiniteSet(ToSet(q)) /\ Cardinality(ToSet(q)) = Len(q)
    BY DEF Once
  <2>2. /\ IsFiniteSet(ToSet(q) \ {Head(q)})
        /\ Cardinality(ToSet(q) \ {Head(q)}) = Cardinality(ToSet(q)) - 1
    BY <1>3, <2>1, FS_RemoveElement
  <2>3. QED
    BY <1>2, <1>4, <2>1, <2>2
<1>7. QED
  BY <1>1, <1>2, <1>3, <1>4, <1>5, <1>6 DEF Once

(***************************************************************************)
(* A fold over a finite set, whose step is given as a function.            *)
(***************************************************************************)
Folds(g, T, base, step, pick) ==
    \A S \in SUBSET T : g[S] = IF S = {} THEN base ELSE step[<<g[S \ {pick[S]}], pick[S]>>]

LEMMA FoldExists ==
    ASSUME NEW T, IsFiniteSet(T), NEW Acc, NEW base \in Acc, NEW step,
           \A a \in Acc : \A x \in T : step[<<a, x>>] \in Acc,
           NEW pick, \A S \in SUBSET T : S # {} => pick[S] \in S
    PROVE  \E g \in [SUBSET T -> Acc] : Folds(g, T, base, step, pick)
<1> DEFINE Step(g, S) == IF S = {} THEN base ELSE step[<<g[S \ {pick[S]}], pick[S]>>]
           Upto(n, g) == \A S \in SUBSET T : Cardinality(S) <= n => g[S] = Step(g, S)
           Good == {n \in Nat : \E g \in [SUBSET T -> Acc] : Upto(n, g)}
<1>1. \A S \in SUBSET T : IsFiniteSet(S) /\ Cardinality(S) \in Nat
  BY FS_Subset, FS_CardinalityType
<1>2. 0 \in Good
  <2> DEFINE z == [S \in SUBSET T |-> base]
  <2>1. \A S \in SUBSET T : Cardinality(S) <= 0 => S = {}
    BY <1>1, FS_EmptySet
  <2>2. z \in [SUBSET T -> Acc] /\ Upto(0, z)
    BY <2>1
  <2>3. QED
    BY <2>2
<1>3. ASSUME NEW n \in Good PROVE n + 1 \in Good
  <2>1. PICK g \in [SUBSET T -> Acc] : Upto(n, g)
    BY <1>3
  <2> DEFINE h == [S \in SUBSET T |-> Step(g, S)]
  <2>2. h \in [SUBSET T -> Acc]
    <3>1. ASSUME NEW S \in SUBSET T PROVE Step(g, S) \in Acc
      <4>1. CASE S = {}
        BY <4>1
      <4>2. CASE S # {}
        <5>1. S \ {pick[S]} \in SUBSET T /\ pick[S] \in T
          BY <4>2
        <5>2. g[S \ {pick[S]}] \in Acc
          BY <5>1
        <5>3. QED
          BY <4>2, <5>1, <5>2
      <4>3. QED
        BY <4>1, <4>2
    <3>2. QED
      BY <3>1
  <2>3. ASSUME NEW S \in SUBSET T, Cardinality(S) <= n + 1, S # {}
        PROVE  h[S \ {pick[S]}] = g[S \ {pick[S]}]
    <3>1. /\ S \ {pick[S]} \in SUBSET T
          /\ Cardinality(S \ {pick[S]}) = Cardinality(S) - 1
      BY <1>1, <2>3, FS_RemoveElement
    <3>2. Cardinality(S \ {pick[S]}) <= n
      BY <1>1, <2>3, <3>1
    <3>3. QED
      BY <2>1, <3>1, <3>2
  <2>4. Upto(n + 1, h)
    BY <2>3
  <2>5. n \in Nat /\ n + 1 \in Nat
    OBVIOUS
  <2> HIDE DEF h, Upto
  <2>6. \E k \in [SUBSET T -> Acc] : Upto(n + 1, k)
    BY <2>2, <2>4
  <2>7. QED
    BY <2>5, <2>6
<1>4. Good = Nat
  <2> HIDE DEF Good
  <2>1. Good \in SUBSET Nat
    BY DEF Good
  <2>2. QED
    BY <1>2, <1>3, <2>1, NatSetInduction
<1>5. PICK g \in [SUBSET T -> Acc] : Upto(Cardinality(T), g)
  BY <1>1, <1>4
<1>6. \A S \in SUBSET T : g[S] = Step(g, S)
  BY <1>1, <1>5, FS_Subset
<1>7. QED
  BY <1>6 DEF Folds

\* From the left over a sequence: the last of a beginning is taken after the
\* others.  A property of every beginning is shown by induction.
LEMMA LastOfPrefix ==
    ASSUME NEW n \in Nat
    PROVE  /\ n # 0 => Max(1 .. n) = n /\ (1 .. n) \ {n} = 1 .. n - 1 /\ 1 .. n # {}
           /\ 1 .. 0 = {} /\ IsFiniteSet(1 .. n)
<1>1. ASSUME n # 0 PROVE Max(1 .. n) = n
  <2>1. n \in 1 .. n /\ \A y \in 1 .. n : n >= y
    BY <1>1
  <2>2. \A x \in 1 .. n : (\A y \in 1 .. n : x >= y) => x = n
    BY <1>1
  <2>3. QED
    BY <2>1, <2>2 DEF Max
<1>2. n # 0 => (1 .. n) \ {n} = 1 .. n - 1 /\ 1 .. n # {}
  OBVIOUS
<1>3. 1 .. 0 = {} /\ IsFiniteSet(1 .. n)
  BY FS_Interval
<1>4. QED
  BY <1>1, <1>2, <1>3

LEMMA LastIsOf ==
    ASSUME NEW n \in Nat, NEW S \in SUBSET (1 .. n), S # {}
    PROVE  Max(S) \in S
<1> DEFINE Good == {m \in Nat : \A U \in SUBSET (1 .. m) : U # {} => \E x \in U : \A y \in U : x >= y}
<1>1. 0 \in Good
  BY LastOfPrefix
<1>2. ASSUME NEW m \in Good PROVE m + 1 \in Good
  <2>1. ASSUME NEW U \in SUBSET (1 .. m + 1), U # {} PROVE \E x \in U : \A y \in U : x >= y
    <3>1. CASE m + 1 \in U
      BY <3>1
    <3>2. CASE m + 1 \notin U
      <4>1. U \in SUBSET (1 .. m)
        BY <2>1, <3>2
      <4>2. QED
        BY <1>2, <2>1, <4>1
    <3>3. QED
      BY <3>1, <3>2
  <2>2. QED
    BY <2>1
<1>3. Good = Nat
  <2> HIDE DEF Good
  <2>1. Good \in SUBSET Nat
    BY DEF Good
  <2>2. QED
    BY <1>1, <1>2, <2>1, NatSetInduction
<1>4. \E x \in S : \A y \in S : x >= y
  BY <1>3
<1>5. QED
  BY <1>4 DEF Max

LeftFolds(g, n, Acc, base, step) ==
    /\ g \in [SUBSET (1 .. n) -> Acc] /\ g[{}] = base
    /\ \A S \in SUBSET (1 .. n) :
           S # {} => /\ Max(S) \in 1 .. n /\ g[S \ {Max(S)}] \in Acc
                     /\ g[S] = step[<<g[S \ {Max(S)}], Max(S)>>]

LEMMA LeftFoldExists ==
    ASSUME NEW n \in Nat, NEW Acc, NEW base \in Acc, NEW step \in [Acc \X (1 .. n) -> Acc]
    PROVE  \E g : LeftFolds(g, n, Acc, base, step)
<1> DEFINE pick == [S \in SUBSET (1 .. n) |-> Max(S)]
<1>1. \A S \in SUBSET (1 .. n) : S # {} => pick[S] = Max(S) /\ pick[S] \in S
  BY LastIsOf
<1>2. IsFiniteSet(1 .. n)
  BY LastOfPrefix
<1> HIDE DEF pick
<1>3. PICK g \in [SUBSET (1 .. n) -> Acc] : Folds(g, 1 .. n, base, step, pick)
  <2>1. \A a \in Acc : \A i \in 1 .. n : step[<<a, i>>] \in Acc
    OBVIOUS
  <2>2. QED
    BY <1>1, <1>2, <2>1, FoldExists
<1>4. g[{}] = base
  BY <1>3 DEF Folds
<1>5. ASSUME NEW S \in SUBSET (1 .. n), S # {}
      PROVE  /\ Max(S) \in 1 .. n /\ g[S \ {Max(S)}] \in Acc
             /\ g[S] = step[<<g[S \ {Max(S)}], Max(S)>>]
  <2>1. Max(S) = pick[S] /\ Max(S) \in S
    BY <1>1, <1>5
  <2>2. g[S] = step[<<g[S \ {pick[S]}], pick[S]>>]
    BY <1>3, <1>5 DEF Folds
  <2>3. QED
    BY <2>1, <2>2
<1>6. LeftFolds(g, n, Acc, base, step)
  BY <1>3, <1>4, <1>5 DEF LeftFolds
<1>7. QED
  BY <1>6

LEMMA FirstIsOf ==
    ASSUME NEW n \in Nat, NEW S \in SUBSET (1 .. n), S # {}
    PROVE  Min(S) \in S /\ \A y \in S : Min(S) <= y
<1> DEFINE Good == {m \in Nat : \A U \in SUBSET (1 .. m) : U # {} => \E x \in U : \A y \in U : x <= y}
<1>1. 0 \in Good
  BY LastOfPrefix
<1>2. ASSUME NEW m \in Good PROVE m + 1 \in Good
  <2>1. ASSUME NEW U \in SUBSET (1 .. m + 1), U # {} PROVE \E x \in U : \A y \in U : x <= y
    <3>1. CASE U \cap (1 .. m) = {}
      BY <2>1, <3>1
    <3>2. CASE U \cap (1 .. m) # {}
      <4>1. PICK x \in U \cap (1 .. m) : \A y \in U \cap (1 .. m) : x <= y
        BY <1>2, <3>2
      <4>2. x <= m + 1
        BY <4>1
      <4>3. QED
        BY <4>1, <4>2
    <3>3. QED
      BY <3>1, <3>2
  <2>2. QED
    BY <2>1
<1>3. Good = Nat
  <2> HIDE DEF Good
  <2>1. Good \in SUBSET Nat
    BY DEF Good
  <2>2. QED
    BY <1>1, <1>2, <2>1, NatSetInduction
<1>4. \E x \in S : \A y \in S : x <= y
  BY <1>3
<1>5. QED
  BY <1>4 DEF Min

\* x and then the entries of q
LedBy(t, x, q) == t = <<x>> \o q

\* What is put before a sequence of distinct entries shifts each one by one.
LEMMA JoinsFirst ==
    ASSUME NEW S, NEW q, Once(q, S), NEW x \in S, x \notin ToSet(q), NEW t, LedBy(t, x, q)
    PROVE  /\ Once(t, S) /\ ToSet(t) = ToSet(q) \cup {x} /\ Len(t) = Len(q) + 1 /\ t[1] = x
           /\ DOMAIN t = 1 .. Len(q) + 1
           /\ \A k \in DOMAIN t : k # 1 => k - 1 \in DOMAIN q /\ t[k] = q[k - 1]
<1>1. q \in Seq(S) /\ Len(q) \in Nat /\ DOMAIN q = 1 .. Len(q)
  BY DEF Once
<1>2. <<x>> \in Seq(S) /\ Len(<<x>>) = 1 /\ <<x>>[1] = x
  OBVIOUS
<1>3. /\ t \in Seq(S) /\ Len(t) = Len(q) + 1
      /\ \A k \in 1 .. 1 + Len(q) : t[k] = IF k <= 1 THEN <<x>>[k] ELSE q[k - 1]
  BY <1>1, <1>2, ConcatProperties DEF LedBy
<1>4. DOMAIN t = 1 .. Len(q) + 1 /\ t[1] = x
  BY <1>1, <1>2, <1>3
<1>5. ASSUME NEW k \in DOMAIN t, k # 1 PROVE k - 1 \in DOMAIN q /\ t[k] = q[k - 1]
  BY <1>1, <1>3, <1>4, <1>5
<1>6. ASSUME NEW k \in DOMAIN q PROVE k + 1 \in DOMAIN t /\ t[k + 1] = q[k]
  <2>1. PICK j : j = k + 1 /\ j \in DOMAIN t /\ j # 1 /\ j - 1 = k
    BY <1>1, <1>4, <1>6
  <2>2. QED
    BY <1>5, <2>1
<1>7. 1 \in DOMAIN t
  BY <1>1, <1>4
<1>8. ToSet(t) = ToSet(q) \cup {x}
  <2>1. ASSUME NEW k \in DOMAIN t PROVE t[k] \in ToSet(q) \cup {x}
    <3>1. CASE k = 1
      BY <1>4, <3>1
    <3>2. CASE k # 1
      BY <1>5, <3>2 DEF ToSet
    <3>3. QED
      BY <3>1, <3>2
  <2>2. ASSUME NEW k \in DOMAIN q PROVE q[k] \in ToSet(t)
    BY <1>6 DEF ToSet
  <2>3. x \in ToSet(t)
    BY <1>4, <1>7 DEF ToSet
  <2>4. QED
    BY <2>1, <2>2, <2>3 DEF ToSet
<1>9. \A i, j \in DOMAIN t : t[i] = t[j] => i = j
  <2>1. \A k \in DOMAIN q : q[k] # x
    BY DEF ToSet
  <2>2. ASSUME NEW i \in DOMAIN t, NEW j \in DOMAIN t, t[i] = t[j], i # 1, j # 1 PROVE i = j
    <3>1. i - 1 = j - 1
      BY <1>5, <2>2 DEF Once
    <3>2. i \in Nat /\ j \in Nat
      BY <1>1, <1>4
    <3>3. QED
      BY <3>1, <3>2
  <2>3. \A k \in DOMAIN t : k # 1 => t[k] # x
    BY <1>5, <2>1
  <2>4. QED
    BY <1>4, <2>2, <2>3
<1>10. IsFiniteSet(ToSet(t)) /\ Cardinality(ToSet(t)) = Len(t)
  <2>1. IsFiniteSet(ToSet(q)) /\ Cardinality(ToSet(q)) = Len(q)
    BY DEF Once
  <2>2. IsFiniteSet(ToSet(q) \cup {x}) /\ Cardinality(ToSet(q) \cup {x}) = Cardinality(ToSet(q)) + 1
    BY <2>1, FS_AddElement
  <2>3. QED
    BY <1>3, <1>8, <2>1, <2>2
<1>11. QED
  BY <1>3, <1>4, <1>5, <1>8, <1>9, <1>10 DEF Once

\* What is taken out of one shifts back what came after it.
LEMMA OneLeaves ==
    ASSUME NEW S, NEW q, Once(q, S), NEW n \in DOMAIN q, NEW t, t = RemoveAt(q, n)
    PROVE  /\ Once(t, S) /\ ToSet(t) = ToSet(q) \ {q[n]} /\ Len(q) \in Nat \ {0}
           /\ DOMAIN t = 1 .. Len(q) - 1
           /\ \A k \in DOMAIN t : /\ k < n => k \in DOMAIN q /\ t[k] = q[k]
                                  /\ k >= n => k + 1 \in DOMAIN q /\ t[k] = q[k + 1]
<1>1. PICK l : l = Len(q)
  OBVIOUS
<1>2. q \in Seq(S) /\ l \in Nat /\ DOMAIN q = 1 .. l /\ n \in 1 .. l /\ l \in Nat \ {0}
  BY <1>1 DEF Once
<1>3. PICK a, b : a = SubSeq(q, 1, n - 1) /\ b = SubSeq(q, n + 1, l)
  OBVIOUS
<1>4. t = a \o b
  BY <1>1, <1>3 DEF RemoveAt
<1>5. a \in Seq(S) /\ Len(a) = n - 1 /\ \A k \in 1 .. n - 1 : a[k] = q[k]
  <2>1. 1 \in Int /\ n - 1 \in Int /\ \A k \in 1 .. n - 1 : q[k] \in S
    BY <1>2
  <2>2. /\ a \in Seq(S) /\ Len(a) = (IF 1 <= n - 1 THEN n - 1 - 1 + 1 ELSE 0)
        /\ \A k \in 1 .. n - 1 - 1 + 1 : a[k] = q[1 + k - 1]
    BY <1>3, <2>1, SubSeqProperties
  <2>3. QED
    BY <1>2, <2>2
<1>6. b \in Seq(S) /\ Len(b) = l - n /\ \A k \in 1 .. l - n : b[k] = q[n + k]
  <2>1. n + 1 \in Int /\ l \in Int /\ \A k \in n + 1 .. l : q[k] \in S
    BY <1>2
  <2>2. /\ b \in Seq(S) /\ Len(b) = (IF n + 1 <= l THEN l - (n + 1) + 1 ELSE 0)
        /\ \A k \in 1 .. l - (n + 1) + 1 : b[k] = q[n + 1 + k - 1]
    BY <1>3, <2>1, SubSeqProperties
  <2>3. ASSUME NEW k \in 1 .. l - n PROVE b[k] = q[n + k]
    <3>1. k \in 1 .. l - (n + 1) + 1 /\ n + 1 + k - 1 = n + k
      BY <1>2, <2>3
    <3>2. QED
      BY <2>2, <3>1
  <2>4. QED
    BY <1>2, <2>2, <2>3
<1>7. /\ t \in Seq(S) /\ Len(t) = l - 1 /\ DOMAIN t = 1 .. l - 1
      /\ \A k \in 1 .. l - 1 : t[k] = IF k <= n - 1 THEN a[k] ELSE b[k - (n - 1)]
  <2>1. Len(a) + Len(b) = l - 1
    BY <1>2, <1>5, <1>6
  <2>2. /\ t \in Seq(S) /\ Len(t) = Len(a) + Len(b)
        /\ \A k \in 1 .. Len(a) + Len(b) : t[k] = IF k <= Len(a) THEN a[k] ELSE b[k - Len(a)]
    BY <1>4, <1>5, <1>6, ConcatProperties
  <2>3. QED
    BY <1>2, <1>5, <2>1, <2>2
<1>8. ASSUME NEW k \in DOMAIN t, k < n PROVE k \in DOMAIN q /\ t[k] = q[k]
  <2>1. k \in 1 .. n - 1 /\ k \in 1 .. l - 1 /\ k <= n - 1 /\ k \in 1 .. l
    BY <1>2, <1>7, <1>8
  <2>2. QED
    BY <1>2, <1>5, <1>7, <2>1
<1>9. ASSUME NEW k \in DOMAIN t, k >= n PROVE k + 1 \in DOMAIN q /\ t[k] = q[k + 1]
  <2>1. /\ k \in 1 .. l - 1 /\ ~(k <= n - 1) /\ k + 1 \in 1 .. l
        /\ k - (n - 1) \in 1 .. l - n /\ n + (k - (n - 1)) = k + 1
    BY <1>2, <1>7, <1>9
  <2>2. t[k] = b[k - (n - 1)] /\ b[k - (n - 1)] = q[n + (k - (n - 1))]
    BY <1>6, <1>7, <2>1
  <2>3. QED
    BY <1>2, <2>1, <2>2
<1>10. ASSUME NEW j \in DOMAIN q, j # n PROVE \E k \in DOMAIN t : t[k] = q[j]
  <2>1. CASE j < n
    <3>1. j \in DOMAIN t
      BY <1>2, <1>7, <2>1
    <3>2. QED
      BY <1>8, <2>1, <3>1
  <2>2. CASE ~(j < n)
    <3>1. j - 1 \in DOMAIN t /\ j - 1 >= n /\ j - 1 + 1 = j
      BY <1>2, <1>7, <1>10, <2>2
    <3>2. t[j - 1] = q[j]
      BY <1>9, <3>1
    <3>3. QED
      BY <3>1, <3>2
  <2>3. QED
    BY <2>1, <2>2
<1>11. ASSUME NEW k \in DOMAIN t
       PROVE  \E j \in DOMAIN q : j # n /\ t[k] = q[j] /\ (k < n => j = k) /\ (~(k < n) => j = k + 1)
  <2>1. CASE k < n
    <3>1. k # n
      BY <1>2, <1>7, <2>1
    <3>2. QED
      BY <1>8, <2>1, <3>1
  <2>2. CASE ~(k < n)
    <3>1. k >= n /\ k + 1 # n /\ k \in Nat
      BY <1>2, <1>7, <2>2
    <3>2. QED
      BY <1>9, <2>2, <3>1
  <2>3. QED
    BY <2>1, <2>2
<1>12. \A i, j \in DOMAIN q : q[i] = q[j] => i = j
  BY DEF Once
<1>13. ToSet(t) = ToSet(q) \ {q[n]}
  BY <1>10, <1>11, <1>12 DEF ToSet
<1>14. ASSUME NEW i \in DOMAIN t, NEW j \in DOMAIN t, t[i] = t[j] PROVE i = j
  <2>1. PICK x \in DOMAIN q : t[i] = q[x] /\ (i < n => x = i) /\ (~(i < n) => x = i + 1)
    BY <1>11
  <2>2. PICK y \in DOMAIN q : t[j] = q[y] /\ (j < n => y = j) /\ (~(j < n) => y = j + 1)
    BY <1>11
  <2>3. x = y
    BY <1>12, <1>14, <2>1, <2>2
  <2>4. i \in Nat /\ j \in Nat /\ n \in Nat
    BY <1>2, <1>7
  <2>5. QED
    BY <2>1, <2>2, <2>3, <2>4
<1>15. IsFiniteSet(ToSet(t)) /\ Cardinality(ToSet(t)) = Len(t)
  <2>1. IsFiniteSet(ToSet(q)) /\ Cardinality(ToSet(q)) = l /\ q[n] \in ToSet(q)
    BY <1>1 DEF Once, ToSet
  <2>2. IsFiniteSet(ToSet(q) \ {q[n]}) /\ Cardinality(ToSet(q) \ {q[n]}) = Cardinality(ToSet(q)) - 1
    BY <2>1, FS_RemoveElement
  <2>3. QED
    BY <1>7, <1>13, <2>1, <2>2
<1>16. QED
  BY <1>1, <1>2, <1>7, <1>8, <1>9, <1>13, <1>14, <1>15 DEF Once

(***************************************************************************)
(* Parts of a sequence, and the folds that take or leave its entries.      *)
(***************************************************************************)
\* t has some of the first m entries of s, all at places in I, in their order.
Thins(t, s, m, S, I) ==
    /\ t \in Seq(S)
    /\ \E f \in [1 .. Len(t) -> I \cap (1 .. m)] :
        /\ \A k \in 1 .. Len(t) : t[k] = s[f[k]]
        /\ \A j, k \in 1 .. Len(t) : j < k => f[j] < f[k]

LEMMA ThinsNone == ASSUME NEW S, NEW I, NEW s PROVE Thins(<<>>, s, 0, S, I)
<1>1. <<>> \in Seq(S) /\ Len(<<>>) = 0 /\ 1 .. 0 = {}
  BY LastOfPrefix
<1>2. <<>> \in [1 .. Len(<<>>) -> I \cap (1 .. 0)]
  BY <1>1
<1>3. QED
  BY <1>1, <1>2 DEF Thins

LEMMA ThinsSkips ==
    ASSUME NEW S, NEW I, NEW s, NEW t, NEW m \in Nat, Thins(t, s, m, S, I)
    PROVE  Thins(t, s, m + 1, S, I)
<1>1. PICK f \in [1 .. Len(t) -> I \cap (1 .. m)] :
        /\ \A k \in 1 .. Len(t) : t[k] = s[f[k]]
        /\ \A j, k \in 1 .. Len(t) : j < k => f[j] < f[k]
  BY DEF Thins
<1>2. f \in [1 .. Len(t) -> I \cap (1 .. m + 1)]
  BY <1>1
<1>3. QED
  BY <1>1, <1>2 DEF Thins

LEMMA ThinsTakes ==
    ASSUME NEW S, NEW I, NEW s, NEW t, NEW m \in Nat, Thins(t, s, m, S, I), s[m + 1] \in S, m + 1 \in I
    PROVE  Thins(Append(t, s[m + 1]), s, m + 1, S, I)
<1>1. PICK f \in [1 .. Len(t) -> I \cap (1 .. m)] :
        /\ \A k \in 1 .. Len(t) : t[k] = s[f[k]]
        /\ \A j, k \in 1 .. Len(t) : j < k => f[j] < f[k]
  BY DEF Thins
<1>2. PICK u, l : u = Append(t, s[m + 1]) /\ l = Len(t)
  OBVIOUS
<1>3. /\ l \in Nat /\ u \in Seq(S) /\ Len(u) = l + 1 /\ u[l + 1] = s[m + 1]
      /\ \A k \in 1 .. l : u[k] = t[k]
  BY <1>2 DEF Thins
<1> DEFINE g == [k \in 1 .. l + 1 |-> IF k = l + 1 THEN m + 1 ELSE f[k]]
<1>4. /\ g \in [1 .. l + 1 -> I \cap (1 .. m + 1)] /\ g[l + 1] = m + 1
      /\ \A k \in 1 .. l : g[k] = f[k] /\ g[k] < m + 1
  <2>1. m + 1 \in I \cap (1 .. m + 1) /\ I \cap (1 .. m) \subseteq I \cap (1 .. m + 1)
    OBVIOUS
  <2>2. \A k \in 1 .. l : f[k] \in I \cap (1 .. m) /\ f[k] < m + 1 /\ k # l + 1 /\ k \in 1 .. l + 1
    BY <1>1, <1>2, <1>3
  <2>3. l + 1 \in 1 .. l + 1 /\ \A k \in 1 .. l + 1 : k # l + 1 => k \in 1 .. l
    BY <1>3
  <2>4. QED
    BY <2>1, <2>2, <2>3
<1>5. \A k \in 1 .. l + 1 : k \in 1 .. l \/ k = l + 1
  BY <1>3
<1> HIDE DEF g
<1>6. \A k \in 1 .. l + 1 : u[k] = s[g[k]]
  BY <1>1, <1>2, <1>3, <1>4, <1>5
<1>7. ASSUME NEW j \in 1 .. l + 1, NEW k \in 1 .. l + 1, j < k PROVE g[j] < g[k]
  <2>1. j \in 1 .. l
    BY <1>3, <1>7
  <2>2. CASE k \in 1 .. l
    BY <1>1, <1>2, <1>4, <1>7, <2>1, <2>2
  <2>3. CASE k = l + 1
    BY <1>4, <2>1, <2>3
  <2>4. QED
    BY <1>5, <2>2, <2>3
<1>8. Thins(u, s, m + 1, S, I)
  BY <1>3, <1>4, <1>6, <1>7 DEF Thins
<1>9. QED
  BY <1>2, <1>8

\* What a fold that takes or leaves each entry has seen at a prefix
Greedy(g, s, n, I) ==
    /\ g[1 .. 0] = <<>>
    /\ \A m \in 0 .. n - 1 :
        \/ g[1 .. m + 1] = g[1 .. m]
        \/ m + 1 \in I /\ g[1 .. m + 1] = Append(g[1 .. m], s[m + 1])

LEMMA GreedyThins ==
    ASSUME NEW S, NEW I, NEW s \in Seq(S), NEW g, Greedy(g, s, Len(s), I), NEW m \in 0 .. Len(s)
    PROVE  Thins(g[1 .. m], s, m, S, I)
<1> DEFINE Good == {k \in Nat : k <= Len(s) => Thins(g[1 .. k], s, k, S, I)}
<1>1. 0 \in Good
  BY ThinsNone DEF Greedy
<1>2. ASSUME NEW k \in Good PROVE k + 1 \in Good
  <2>1. SUFFICES ASSUME k + 1 <= Len(s) PROVE Thins(g[1 .. k + 1], s, k + 1, S, I)
    OBVIOUS
  <2>2. k \in Nat /\ k \in 0 .. Len(s) - 1 /\ s[k + 1] \in S /\ Thins(g[1 .. k], s, k, S, I)
    BY <2>1
  <2>3. /\ Thins(g[1 .. k], s, k + 1, S, I)
        /\ k + 1 \in I => Thins(Append(g[1 .. k], s[k + 1]), s, k + 1, S, I)
    BY <2>2, ThinsSkips, ThinsTakes
  <2>4. \/ g[1 .. k + 1] = g[1 .. k]
        \/ k + 1 \in I /\ g[1 .. k + 1] = Append(g[1 .. k], s[k + 1])
    BY <2>2 DEF Greedy
  <2>5. QED
    BY <2>3, <2>4
<1>3. Good = Nat
  <2> HIDE DEF Good
  <2>1. Good \in SUBSET Nat
    BY DEF Good
  <2>2. QED
    BY <1>1, <1>2, <2>1, NatSetInduction
<1>4. QED
  BY <1>3

LEMMA ThinsKeep ==
    ASSUME NEW S, NEW I, NEW s, NEW t, NEW m \in Nat, Thins(t, s, m, S, I)
    PROVE  /\ t \in Seq(S) /\ DOMAIN t = 1 .. Len(t) /\ Len(t) \in Nat
           /\ \A k \in DOMAIN t : \E x \in I \cap (1 .. m) : t[k] = s[x]
           /\ \A j, k \in DOMAIN t : j < k => \E x, y \in I \cap (1 .. m) : x < y /\ t[j] = s[x] /\ t[k] = s[y]
<1>1. PICK f \in [1 .. Len(t) -> I \cap (1 .. m)] :
        /\ \A k \in 1 .. Len(t) : t[k] = s[f[k]]
        /\ \A j, k \in 1 .. Len(t) : j < k => f[j] < f[k]
  BY DEF Thins
<1>2. t \in Seq(S) /\ DOMAIN t = 1 .. Len(t) /\ Len(t) \in Nat
  BY DEF Thins
<1>3. \A k \in DOMAIN t : f[k] \in I \cap (1 .. m) /\ t[k] = s[f[k]]
  BY <1>1, <1>2
<1>4. ASSUME NEW j \in DOMAIN t, NEW k \in DOMAIN t, j < k
      PROVE  \E x, y \in I \cap (1 .. m) : x < y /\ t[j] = s[x] /\ t[k] = s[y]
  <2>1. f[j] < f[k]
    BY <1>1, <1>2, <1>4
  <2>2. QED
    BY <1>3, <2>1
<1>5. QED
  BY <1>2, <1>3, <1>4

\* How a fold over s that takes some of its entries unfolds
Takings(h, s, S, Takes) ==
    /\ h \in [SUBSET (1 .. Len(s)) -> Seq(S)] /\ h[{}] = <<>>
    /\ \A T \in SUBSET (1 .. Len(s)) : T # {} =>
        /\ Max(T) \in 1 .. Len(s) /\ h[T \ {Max(T)}] \in Seq(S)
        /\ h[T] = IF <<h[T \ {Max(T)}], Max(T)>> \in Takes
                  THEN Append(h[T \ {Max(T)}], s[Max(T)]) ELSE h[T \ {Max(T)}]

LEMMA GreedyExists ==
    ASSUME NEW S, NEW s \in Seq(S), NEW Takes
    PROVE  \E h : Takings(h, s, S, Takes)
<1> DEFINE n == Len(s)
           Acc == Seq(S)
           Next1(a, i) == IF <<a, i>> \in Takes THEN Append(a, s[i]) ELSE a
           step == [p \in Acc \X (1 .. n) |-> Next1(p[1], p[2])]
<1>1. n \in Nat /\ <<>> \in Acc /\ \A i \in 1 .. n : s[i] \in S
  OBVIOUS
<1>2. \A a \in Acc : \A i \in 1 .. n : Next1(a, i) \in Acc
  BY <1>1
<1>3. \A a \in Acc : \A i \in 1 .. n : step[<<a, i>>] = Next1(a, i)
  <2> HIDE DEF Acc, n, Next1
  <2>1. QED
    OBVIOUS
<1>4. step \in [Acc \X (1 .. n) -> Acc]
  <2> HIDE DEF Acc, n, Next1
  <2>1. QED
    BY <1>2
<1>5. PICK h : LeftFolds(h, n, Acc, <<>>, step)
  <2> HIDE DEF Acc, n, step
  <2>1. QED
    BY <1>1, <1>4, LeftFoldExists
<1>6. ASSUME NEW T \in SUBSET (1 .. n), T # {}
      PROVE  /\ Max(T) \in 1 .. n /\ h[T \ {Max(T)}] \in Acc
             /\ h[T] = Next1(h[T \ {Max(T)}], Max(T))
  <2> HIDE DEF Acc, n, step, Next1
  <2>1. QED
    BY <1>3, <1>5, <1>6 DEF LeftFolds
<1>7. h \in [SUBSET (1 .. n) -> Acc] /\ h[{}] = <<>>
  <2> HIDE DEF Acc, n, step, Next1
  <2>1. QED
    BY <1>5 DEF LeftFolds
<1>8. QED
  BY <1>6, <1>7 DEF Takings

LEMMA PrefixOf ==
    ASSUME NEW n \in Nat, NEW m \in 0 .. n - 1
    PROVE  /\ 1 .. m + 1 \in SUBSET (1 .. n) /\ 1 .. m + 1 # {} /\ m + 1 \in 1 .. n
           /\ Max(1 .. m + 1) = m + 1 /\ (1 .. m + 1) \ {m + 1} = 1 .. m
           /\ 1 .. 0 = {}
<1>1. m \in Nat /\ m + 1 \in Nat /\ m + 1 # 0 /\ m + 1 - 1 = m
  OBVIOUS
<1>2. QED
  BY <1>1, LastOfPrefix

(***************************************************************************)
(* FlattenSeq joins sequences, one after the other.                        *)
(***************************************************************************)
Flattens(s, g) == g = [i \in 1 .. Len(s) |-> IF i = 1 THEN s[i] ELSE g[i - 1] \o s[i]]
\* f has what the first sequences of s join to.
Joins(f, s, S) ==
    /\ DOMAIN f = 0 .. Len(s) /\ f[0] = <<>>
    /\ \A i \in 0 .. Len(s) : f[i] \in Seq(S)
    /\ \A i \in 0 .. Len(s) - 1 : f[i + 1] = f[i] \o s[i + 1]

LEMMA SeqIs ==
    ASSUME NEW A, NEW s \in Seq(A)
    PROVE  /\ Len(s) \in Nat /\ DOMAIN s = 1 .. Len(s) /\ \A i \in 1 .. Len(s) : s[i] \in A
           /\ Len(s) = 0 <=> s = <<>>
<1>1. Len(s) \in Nat /\ DOMAIN s = 1 .. Len(s) /\ \A i \in 1 .. Len(s) : s[i] \in A
  OBVIOUS
<1>2. ASSUME Len(s) = 0 PROVE s = <<>>
  BY <1>2
<1> QED BY <1>1, <1>2

LEMMA FlattenUnfolds ==
    ASSUME NEW s, Len(s) # 0
    PROVE  FlattenSeq(s) = (CHOOSE g : Flattens(s, g))[Len(s)]
BY DEF FlattenSeq, Flattens

LEMMA JoinsExist ==
    ASSUME NEW S, NEW s \in Seq(Seq(S))
    PROVE  \E f : Joins(f, s, S)
<1>1. PICK n, A : n = Len(s) /\ A = Seq(S)
  OBVIOUS
<1>2. n \in Nat /\ <<>> \in A /\ \A i \in 1 .. n : s[i] \in A
  BY <1>1
<1>3. \A a \in A : \A i \in 1 .. n : a \o s[i] \in A
  BY <1>1, <1>2, ConcatProperties
<1> DEFINE step == [p \in A \X (1 .. n) |-> p[1] \o s[p[2]]]
<1>4. \A a \in A : \A i \in 1 .. n : step[<<a, i>>] = a \o s[i]
  OBVIOUS
<1>5. step \in [A \X (1 .. n) -> A]
  BY <1>3
<1> HIDE DEF step
<1>6. PICK h : LeftFolds(h, n, A, <<>>, step)
  BY <1>2, <1>5, LeftFoldExists
<1>7. h[{}] = <<>> /\ h \in [SUBSET (1 .. n) -> A]
  BY <1>6 DEF LeftFolds
<1>8. ASSUME NEW i \in 0 .. n - 1 PROVE h[1 .. i + 1] = h[1 .. i] \o s[i + 1]
  <2>1. /\ 1 .. i + 1 \in SUBSET (1 .. n) /\ 1 .. i + 1 # {} /\ i + 1 \in 1 .. n
        /\ Max(1 .. i + 1) = i + 1 /\ (1 .. i + 1) \ {i + 1} = 1 .. i
    BY <1>2, PrefixOf
  <2>2. PICK T, U : T = 1 .. i + 1 /\ U = 1 .. i
    OBVIOUS
  <2>3. h[T \ {Max(T)}] \in A /\ h[T] = step[<<h[T \ {Max(T)}], Max(T)>>]
    BY <1>6, <2>1, <2>2 DEF LeftFolds
  <2>4. h[U] \in A /\ h[T] = step[<<h[U], i + 1>>]
    BY <2>1, <2>2, <2>3
  <2>5. h[T] = h[U] \o s[i + 1]
    BY <1>4, <2>1, <2>4
  <2> QED BY <2>2, <2>5
<1> DEFINE f == [i \in 0 .. n |-> h[1 .. i]]
<1>9. DOMAIN f = 0 .. n /\ \A i \in 0 .. n : f[i] = h[1 .. i]
  OBVIOUS
<1> HIDE DEF f
<1>10. f[0] = <<>>
  <2>1. 0 \in 0 .. n /\ 1 .. 0 = {}
    BY <1>2
  <2> QED BY <1>7, <1>9, <2>1
<1>11. \A i \in 0 .. n : f[i] \in A
  <2>1. \A i \in 0 .. n : 1 .. i \in SUBSET (1 .. n)
    BY <1>2
  <2> QED BY <1>7, <1>9, <2>1
<1>12. \A i \in 0 .. n - 1 : f[i + 1] = f[i] \o s[i + 1]
  <2>1. \A i \in 0 .. n - 1 : i \in 0 .. n /\ i + 1 \in 0 .. n
    BY <1>2
  <2> QED BY <1>8, <1>9, <2>1
<1>13. Joins(f, s, S)
  BY <1>1, <1>9, <1>10, <1>11, <1>12 DEF Joins
<1> QED BY <1>13

LEMMA JoinsFlatten ==
    ASSUME NEW S, NEW s \in Seq(Seq(S)), NEW f, Joins(f, s, S)
    PROVE  FlattenSeq(s) = f[Len(s)]
<1>1. PICK n : n = Len(s)
  OBVIOUS
<1>2. /\ n \in Nat /\ DOMAIN s = 1 .. n /\ \A i \in 1 .. n : s[i] \in Seq(S)
      /\ f[0] = <<>> /\ \A i \in 0 .. n : f[i] \in Seq(S)
      /\ \A i \in 0 .. n - 1 : f[i + 1] = f[i] \o s[i + 1]
  BY <1>1, SeqIs DEF Joins
<1>3. CASE n = 0
  <2>1. s = <<>>
    BY <1>1, <1>3, SeqIs
  <2> QED BY <1>1, <1>2, <1>3, <2>1 DEF FlattenSeq
<1>4. CASE n # 0
  <2> DEFINE h == [i \in 1 .. n |-> f[i]]
  <2>1. \A i \in 1 .. n : h[i] = f[i]
    OBVIOUS
  <2>2. ASSUME NEW i \in 1 .. n PROVE h[i] = IF i = 1 THEN s[i] ELSE h[i - 1] \o s[i]
    <3>1. i - 1 \in 0 .. n - 1 /\ i - 1 + 1 = i /\ (i # 1 => i - 1 \in 1 .. n)
      BY <1>2
    <3>2. f[i] = f[i - 1] \o s[i]
      BY <1>2, <3>1
    <3>3. CASE i = 1
      <4>1. f[1] = <<>> \o s[1] /\ s[1] \in Seq(S)
        <5>1. i - 1 = 0 /\ 1 \in 1 .. n
          BY <1>2, <3>3
        <5> QED BY <1>2, <3>2, <3>3, <5>1
      <4>2. f[1] = s[1]
        BY <4>1, ConcatEmptySeq
      <4> QED BY <2>1, <3>3, <4>2
    <3>4. CASE i # 1
      BY <2>1, <3>1, <3>2, <3>4
    <3> QED BY <3>3, <3>4
  <2>3. h = [i \in 1 .. n |-> h[i]]
    OBVIOUS
  <2> HIDE DEF h
  <2>4. Flattens(s, h)
    BY <1>1, <2>2, <2>3 DEF Flattens
  <2>5. PICK g : g = CHOOSE x : Flattens(s, x)
    OBVIOUS
  <2>6. Flattens(s, g) /\ FlattenSeq(s) = g[n]
    BY <1>1, <1>4, <2>4, <2>5, FlattenUnfolds
  <2>7. \A i \in 1 .. n : g[i] = IF i = 1 THEN s[i] ELSE g[i - 1] \o s[i]
    BY <1>1, <2>6 DEF Flattens
  <2> DEFINE Good == {m \in Nat : m # 0 /\ m <= n => g[m] = h[m]}
  <2>8. 0 \in Good
    OBVIOUS
  <2>9. ASSUME NEW m \in Good PROVE m + 1 \in Good
    <3>1. SUFFICES ASSUME m + 1 <= n PROVE g[m + 1] = h[m + 1]
      OBVIOUS
    <3>2. m \in Nat /\ m + 1 \in 1 .. n /\ m + 1 - 1 = m
      BY <1>2, <3>1
    <3>3. g[m + 1] = IF m + 1 = 1 THEN s[m + 1] ELSE g[m] \o s[m + 1]
      BY <2>7, <3>2
    <3>4. h[m + 1] = IF m + 1 = 1 THEN s[m + 1] ELSE h[m] \o s[m + 1]
      BY <2>2, <3>2
    <3>5. m + 1 # 1 => g[m] = h[m]
      <4>1. m # 0 => m <= n
        BY <1>2, <3>2
      <4>2. m # 0 /\ m <= n => g[m] = h[m]
        BY <2>9
      <4> QED BY <3>2, <4>1, <4>2
    <3> QED BY <3>3, <3>4, <3>5
  <2>10. Good = Nat
    <3> HIDE DEF Good
    <3>1. Good \in SUBSET Nat
      BY DEF Good
    <3> QED BY <2>8, <2>9, <3>1, NatSetInduction
  <2>11. g[n] = h[n]
    <3>1. n \in Good
      <4> HIDE DEF Good
      <4> QED BY <1>2, <2>10
    <3>2. n <= n
      BY <1>2
    <3> QED BY <1>4, <3>1, <3>2
  <2>12. n \in 1 .. n
    BY <1>2, <1>4
  <2> QED BY <1>1, <2>1, <2>6, <2>11, <2>12
<1> QED BY <1>3, <1>4

LEMMA FlattenTyped ==
    ASSUME NEW S, NEW s \in Seq(Seq(S))
    PROVE  FlattenSeq(s) \in Seq(S)
<1>1. PICK f : Joins(f, s, S)
  BY JoinsExist
<1>2. FlattenSeq(s) = f[Len(s)] /\ Len(s) \in 0 .. Len(s)
  BY <1>1, JoinsFlatten
<1> QED BY <1>1, <1>2 DEF Joins

LEMMA FlattenNothing == FlattenSeq(<<>>) = <<>>
BY DEF FlattenSeq

LEMMA FlattenAppend ==
    ASSUME NEW S, NEW s \in Seq(Seq(S)), NEW x \in Seq(S)
    PROVE  FlattenSeq(Append(s, x)) = FlattenSeq(s) \o x
<1>1. PICK f : Joins(f, s, S)
  BY JoinsExist
<1>2. PICK n, t, v : n = Len(s) /\ t = Append(s, x) /\ v = f[n]
  OBVIOUS
<1>3. /\ n \in Nat /\ t \in Seq(Seq(S)) /\ Len(t) = n + 1 /\ t[n + 1] = x
      /\ \A i \in 1 .. n : t[i] = s[i]
  BY <1>2
<1>4. /\ DOMAIN f = 0 .. n /\ f[0] = <<>> /\ \A i \in 0 .. n : f[i] \in Seq(S)
      /\ \A i \in 0 .. n - 1 : f[i + 1] = f[i] \o s[i + 1]
  BY <1>1, <1>2 DEF Joins
<1>5. v \in Seq(S) /\ v \o x \in Seq(S)
  <2>1. v \in Seq(S)
    BY <1>2, <1>3, <1>4
  <2> QED BY <2>1, ConcatProperties
<1> DEFINE h == [i \in 0 .. n + 1 |-> IF i = n + 1 THEN v \o x ELSE f[i]]
<1>6. DOMAIN h = 0 .. n + 1 /\ h[n + 1] = v \o x /\ \A i \in 0 .. n : h[i] = f[i]
  BY <1>3
<1> HIDE DEF h
<1>7. \A i \in 0 .. n + 1 : h[i] \in Seq(S)
  <2>1. \A i \in 0 .. n + 1 : i = n + 1 \/ i \in 0 .. n
    BY <1>3
  <2> QED BY <1>4, <1>5, <1>6, <2>1
<1>8. ASSUME NEW i \in 0 .. n PROVE h[i + 1] = h[i] \o t[i + 1]
  <2>1. CASE i = n
    BY <1>2, <1>3, <1>6, <2>1
  <2>2. CASE i # n
    <3>1. i \in 0 .. n - 1 /\ i + 1 \in 0 .. n /\ i + 1 \in 1 .. n
      BY <1>3, <2>2
    <3> QED BY <1>3, <1>4, <1>6, <3>1
  <2> QED BY <2>1, <2>2
<1>9. h[0] = <<>>
  BY <1>3, <1>4, <1>6
<1>10. Joins(h, t, S)
  <2>1. n + 1 - 1 = n /\ 0 .. n + 1 - 1 = 0 .. n
    BY <1>3
  <2>2. DOMAIN h = 0 .. Len(t) /\ \A i \in 0 .. Len(t) : h[i] \in Seq(S)
    BY <1>3, <1>6, <1>7
  <2>3. \A i \in 0 .. Len(t) - 1 : h[i + 1] = h[i] \o t[i + 1]
    <3>1. Len(t) - 1 = n
      BY <1>3
    <3> QED BY <1>8, <3>1
  <2> QED BY <1>9, <2>2, <2>3 DEF Joins
<1>11. FlattenSeq(t) = h[n + 1]
  BY <1>3, <1>10, JoinsFlatten
<1>12. FlattenSeq(s) = v
  BY <1>1, <1>2, JoinsFlatten
<1> QED BY <1>2, <1>6, <1>11, <1>12

LEMMA SeqEnds ==
    ASSUME NEW A, NEW m \in Nat, NEW t \in Seq(A), Len(t) = m + 1
    PROVE  \E u \in Seq(A), e \in A : t = Append(u, e) /\ Len(u) = m
<1>1. t # <<>>
  BY SeqIs
<1>2. PICK u \in Seq(A), e \in A : t = Append(u, e)
  BY <1>1, SequenceEmptyOrAppend
<1>3. Len(u) \in Nat /\ Len(t) = Len(u) + 1
  BY <1>2, AppendProperties
<1>4. Len(u) = m
  BY <1>3
<1> QED BY <1>2, <1>4

\* A sequence of m + 1 entries is one of m entries with another at its end.
LastApart(A, t, m) == \E u \in Seq(A), e \in A : t = Append(u, e) /\ Len(u) = m
LEMMA LastIsApart ==
    ASSUME NEW A, NEW m \in Nat, NEW t \in Seq(A), Len(t) = m + 1
    PROVE  LastApart(A, t, m)
BY SeqEnds DEF LastApart

LEMMA FlattenOne ==
    ASSUME NEW S, NEW x \in Seq(S)
    PROVE  FlattenSeq(<<x>>) = x
<1>1. <<>> \in Seq(Seq(S)) /\ Append(<<>>, x) = <<x>>
  OBVIOUS
<1>2. FlattenSeq(Append(<<>>, x)) = FlattenSeq(<<>>) \o x
  BY <1>1, FlattenAppend
<1> QED BY <1>1, <1>2, FlattenNothing, ConcatEmptySeq

LEMMA AppendToConcat ==
    ASSUME NEW A, NEW s \in Seq(A), NEW u \in Seq(A), NEW e \in A
    PROVE  s \o Append(u, e) = Append(s \o u, e)
<1>1. <<e>> \in Seq(A) /\ s \o u \in Seq(A) /\ Append(u, e) = u \o <<e>>
  BY AppendIsConcat, ConcatProperties
<1>2. Append(s \o u, e) = (s \o u) \o <<e>>
  BY <1>1, AppendIsConcat
<1> QED BY <1>1, <1>2, ConcatAssociative

LEMMA FlattenConcat ==
    ASSUME NEW S, NEW s \in Seq(Seq(S)), NEW t \in Seq(Seq(S))
    PROVE  FlattenSeq(s \o t) = FlattenSeq(s) \o FlattenSeq(t)
<1>1. PICK A, fs : A = Seq(S) /\ fs = FlattenSeq(s)
  OBVIOUS
<1>2. s \in Seq(A) /\ t \in Seq(A) /\ fs \in Seq(S)
  BY <1>1, FlattenTyped
<1> DEFINE Good == {m \in Nat : \A u \in Seq(A) : Len(u) = m => FlattenSeq(s \o u) = fs \o FlattenSeq(u)}
<1>3. 0 \in Good
  <2>1. ASSUME NEW u \in Seq(A), Len(u) = 0 PROVE FlattenSeq(s \o u) = fs \o FlattenSeq(u)
    <3>1. u = <<>>
      BY <2>1, SeqIs
    <3>2. s \o u = s /\ FlattenSeq(u) = <<>>
      BY <1>2, <3>1, ConcatEmptySeq, FlattenNothing
    <3> QED BY <1>1, <1>2, <3>2, ConcatEmptySeq
  <2> QED BY <2>1
<1>4. ASSUME NEW m \in Good PROVE m + 1 \in Good
  <2>1. m \in Nat /\ m + 1 \in Nat
    OBVIOUS
  <2>2. ASSUME NEW u \in Seq(A), Len(u) = m + 1 PROVE FlattenSeq(s \o u) = fs \o FlattenSeq(u)
    <3>1. PICK v \in Seq(A), e \in A : u = Append(v, e) /\ Len(v) = m
      BY <2>1, <2>2, SeqEnds
    <3>2. FlattenSeq(s \o v) = fs \o FlattenSeq(v)
      BY <1>4, <3>1
    <3>3. s \o u = Append(s \o v, e) /\ s \o v \in Seq(A)
      BY <1>2, <3>1, AppendToConcat, ConcatProperties
    <3>4. FlattenSeq(s \o u) = FlattenSeq(s \o v) \o e /\ FlattenSeq(u) = FlattenSeq(v) \o e
      <4>1. PICK w : w = s \o v /\ w \in Seq(A)
        BY <3>3
      <4>2. FlattenSeq(Append(w, e)) = FlattenSeq(w) \o e
        BY <1>1, <4>1, FlattenAppend
      <4>3. FlattenSeq(Append(v, e)) = FlattenSeq(v) \o e
        BY <1>1, FlattenAppend
      <4> QED BY <3>1, <3>3, <4>1, <4>2, <4>3
    <3>5. FlattenSeq(v) \in Seq(S) /\ e \in Seq(S)
      BY <1>1, FlattenTyped
    <3>6. (fs \o FlattenSeq(v)) \o e = fs \o (FlattenSeq(v) \o e)
      BY <1>2, <3>5, ConcatAssociative
    <3> QED BY <3>2, <3>4, <3>6
  <2> QED BY <2>1, <2>2
<1>5. Good = Nat
  <2> HIDE DEF Good
  <2>1. Good \in SUBSET Nat
    BY DEF Good
  <2> QED BY <1>3, <1>4, <2>1, NatSetInduction
<1>6. Len(t) \in Nat
  BY <1>2
<1>7. \A u \in Seq(A) : Len(u) = Len(t) => FlattenSeq(s \o u) = fs \o FlattenSeq(u)
  <2>1. Len(t) \in Good
    <3> HIDE DEF Good
    <3> QED BY <1>5, <1>6
  <2> QED BY <2>1
<1> QED BY <1>1, <1>2, <1>7

LEMMA SetOfAppend ==
    ASSUME NEW A, NEW s \in Seq(A), NEW e \in A
    PROVE  ToSet(Append(s, e)) = ToSet(s) \cup {e}
<1>1. PICK n, t : n = Len(s) /\ t = Append(s, e)
  OBVIOUS
<1>2. /\ n \in Nat /\ DOMAIN s = 1 .. n /\ DOMAIN t = 1 .. n + 1 /\ t[n + 1] = e
      /\ \A i \in 1 .. n : t[i] = s[i]
  BY <1>1
<1>3. 1 .. n + 1 = (1 .. n) \cup {n + 1}
  BY <1>2
<1>4. {t[i] : i \in 1 .. n + 1} = {s[i] : i \in 1 .. n} \cup {e}
  BY <1>2, <1>3
<1> QED BY <1>1, <1>2, <1>4 DEF ToSet

LEMMA SetOfConcat ==
    ASSUME NEW A, NEW s \in Seq(A), NEW t \in Seq(A)
    PROVE  ToSet(s \o t) = ToSet(s) \cup ToSet(t)
<1>1. PICK n, m, r : n = Len(s) /\ m = Len(t) /\ r = s \o t
  OBVIOUS
<1>2. /\ n \in Nat /\ m \in Nat /\ DOMAIN s = 1 .. n /\ DOMAIN t = 1 .. m /\ DOMAIN r = 1 .. n + m
      /\ \A i \in 1 .. n : r[i] = s[i]
      /\ \A i \in 1 .. m : r[n + i] = t[i]
  BY <1>1
<1>3. ASSUME NEW i \in 1 .. n + m PROVE r[i] \in {s[k] : k \in 1 .. n} \cup {t[k] : k \in 1 .. m}
  <2>1. CASE i <= n
    <3>1. i \in 1 .. n
      BY <1>2, <2>1
    <3> QED BY <1>2, <3>1
  <2>2. CASE ~(i <= n)
    <3>1. i - n \in 1 .. m /\ n + (i - n) = i
      BY <1>2, <2>2
    <3>2. r[n + (i - n)] = t[i - n]
      BY <1>2, <3>1
    <3> QED BY <3>1, <3>2
  <2> QED BY <2>1, <2>2
<1>4. \A k \in 1 .. n : k \in 1 .. n + m
  BY <1>2
<1>5. \A k \in 1 .. m : n + k \in 1 .. n + m
  BY <1>2
<1>6. {r[i] : i \in 1 .. n + m} = {s[k] : k \in 1 .. n} \cup {t[k] : k \in 1 .. m}
  <2>1. \A k \in 1 .. n : s[k] \in {r[i] : i \in 1 .. n + m}
    BY <1>2, <1>4
  <2>2. \A k \in 1 .. m : t[k] \in {r[i] : i \in 1 .. n + m}
    BY <1>2, <1>5
  <2> QED BY <1>3, <2>1, <2>2
<1>7. ToSet(r) = {r[i] : i \in 1 .. n + m} /\ ToSet(s) = {s[k] : k \in 1 .. n} /\ ToSet(t) = {t[k] : k \in 1 .. m}
  BY <1>2 DEF ToSet
<1> QED BY <1>1, <1>6, <1>7

\* Whatever is in the joined sequence was in one of them.
LEMMA FlattenElements ==
    ASSUME NEW S, NEW s \in Seq(Seq(S))
    PROVE  ToSet(FlattenSeq(s)) = UNION {ToSet(s[i]) : i \in 1 .. Len(s)}
<1>1. PICK A : A = Seq(S)
  OBVIOUS
<1> DEFINE Good == {m \in Nat : \A u \in Seq(A) :
                       Len(u) = m => ToSet(FlattenSeq(u)) = UNION {ToSet(u[i]) : i \in 1 .. m}}
<1>2. 0 \in Good
  <2>1. ASSUME NEW u \in Seq(A), Len(u) = 0 PROVE ToSet(FlattenSeq(u)) = UNION {ToSet(u[i]) : i \in 1 .. 0}
    <3>1. u = <<>> /\ FlattenSeq(<<>>) = <<>>
      BY <2>1, SeqIs, FlattenNothing
    <3>2. ToSet(<<>>) = {} /\ 1 .. 0 = {}
      BY DEF ToSet
    <3> QED BY <3>1, <3>2
  <2> QED BY <2>1
<1>3. ASSUME NEW m \in Good PROVE m + 1 \in Good
  <2>1. m \in Nat /\ m + 1 \in Nat /\ 1 .. m + 1 = (1 .. m) \cup {m + 1}
    OBVIOUS
  <2>2. ASSUME NEW u \in Seq(A), Len(u) = m + 1
        PROVE  ToSet(FlattenSeq(u)) = UNION {ToSet(u[i]) : i \in 1 .. m + 1}
    <3>1. PICK v \in Seq(A), e \in A : u = Append(v, e) /\ Len(v) = m
      BY <2>1, <2>2, SeqEnds
    <3>2. ToSet(FlattenSeq(v)) = UNION {ToSet(v[i]) : i \in 1 .. m}
      BY <1>3, <3>1
    <3>3. FlattenSeq(u) = FlattenSeq(v) \o e /\ FlattenSeq(v) \in Seq(S) /\ e \in Seq(S)
      BY <1>1, <3>1, FlattenAppend, FlattenTyped
    <3>4. ToSet(FlattenSeq(u)) = ToSet(FlattenSeq(v)) \cup ToSet(e)
      BY <3>3, SetOfConcat
    <3>5. u[m + 1] = e /\ \A i \in 1 .. m : u[i] = v[i]
      BY <3>1, AppendProperties
    <3>6. PICK X, Y : X = UNION {ToSet(u[i]) : i \in 1 .. m + 1} /\ Y = UNION {ToSet(v[i]) : i \in 1 .. m}
      OBVIOUS
    <3>7. ASSUME NEW x PROVE x \in X <=> x \in Y \/ x \in ToSet(e)
      <4>1. x \in X <=> \E i \in 1 .. m + 1 : x \in ToSet(u[i])
        BY <3>6
      <4>2. x \in Y <=> \E i \in 1 .. m : x \in ToSet(v[i])
        BY <3>6
      <4> QED BY <2>1, <3>5, <4>1, <4>2
    <3>8. X = Y \cup ToSet(e)
      BY <3>7
    <3>9. ToSet(FlattenSeq(u)) = Y \cup ToSet(e)
      BY <3>2, <3>4, <3>6
    <3> QED BY <3>6, <3>8, <3>9
  <2> QED BY <2>1, <2>2
<1>4. Good = Nat
  <2> HIDE DEF Good
  <2>1. Good \in SUBSET Nat
    BY DEF Good
  <2> QED BY <1>2, <1>3, <2>1, NatSetInduction
<1>5. Len(s) \in Good
  <2> HIDE DEF Good
  <2> QED BY <1>4
<1> QED BY <1>1, <1>5

\* A function of every element of a sequence
Mapped(f, s) == [i \in DOMAIN s |-> f[s[i]]]
Maps(f, A, B) == f \in [A -> B]

LEMMA MappedIs ==
    ASSUME NEW A, NEW B, NEW f, Maps(f, A, B), NEW s \in Seq(A)
    PROVE  /\ Mapped(f, s) \in Seq(B) /\ Len(Mapped(f, s)) = Len(s)
           /\ \A i \in 1 .. Len(s) : Mapped(f, s)[i] = f[s[i]]
<1>1. PICK n, r : n = Len(s) /\ r = Mapped(f, s)
  OBVIOUS
<1>2. n \in Nat /\ DOMAIN s = 1 .. n /\ \A i \in 1 .. n : s[i] \in A
  BY <1>1, SeqIs
<1>3. r = [i \in 1 .. n |-> f[s[i]]]
  BY <1>1, <1>2 DEF Mapped
<1>4. r \in [1 .. n -> B]
  BY <1>2, <1>3 DEF Maps
<1>5. r \in Seq(B) /\ Len(r) = n
  BY <1>2, <1>4
<1> QED BY <1>1, <1>3, <1>5

LEMMA MappedAppend ==
    ASSUME NEW A, NEW B, NEW f, Maps(f, A, B), NEW s \in Seq(A), NEW e \in A
    PROVE  Mapped(f, Append(s, e)) = Append(Mapped(f, s), f[e])
<1>1. PICK n, l, m : n = Len(s) /\ l = Append(s, e) /\ m = Mapped(f, s)
  OBVIOUS
<1>2. n \in Nat /\ l \in Seq(A) /\ Len(l) = n + 1 /\ l[n + 1] = e /\ \A i \in 1 .. n : l[i] = s[i]
  <2>1. l \in Seq(A) /\ Len(l) = n + 1 /\ l[n + 1] = e /\ \A i \in 1 .. n : l[i] = s[i]
    BY <1>1, AppendProperties
  <2>2. n \in Nat
    BY <1>1
  <2> QED BY <2>1, <2>2
<1>3. m \in Seq(B) /\ Len(m) = n /\ \A i \in 1 .. n : m[i] = f[s[i]]
  <2>1. /\ Mapped(f, s) \in Seq(B) /\ Len(Mapped(f, s)) = Len(s)
        /\ \A i \in 1 .. Len(s) : Mapped(f, s)[i] = f[s[i]]
    BY MappedIs
  <2> QED BY <1>1, <2>1
<1>4. PICK u, v : u = Mapped(f, l) /\ v = Append(m, f[e])
  OBVIOUS
<1>5. u \in Seq(B) /\ Len(u) = n + 1 /\ \A i \in 1 .. n + 1 : u[i] = f[l[i]]
  <2>1. l \in Seq(A)
    BY <1>2
  <2>2. /\ Mapped(f, l) \in Seq(B) /\ Len(Mapped(f, l)) = Len(l)
        /\ \A i \in 1 .. Len(l) : Mapped(f, l)[i] = f[l[i]]
    BY <2>1, MappedIs
  <2> QED BY <1>2, <1>4, <2>2
<1>6. f[e] \in B
  BY DEF Maps
<1>7. v \in Seq(B) /\ Len(v) = n + 1 /\ v[n + 1] = f[e] /\ \A i \in 1 .. n : v[i] = m[i]
  BY <1>3, <1>4, <1>6, AppendProperties
<1>8. \A i \in 1 .. n + 1 : u[i] = v[i]
  <2>1. \A i \in 1 .. n + 1 : i = n + 1 \/ i \in 1 .. n
    BY <1>2
  <2> QED BY <1>2, <1>3, <1>5, <1>7, <2>1
<1>9. u = v
  BY <1>5, <1>7, <1>8, SeqEqual
<1> QED BY <1>1, <1>4, <1>9

LEMMA MappedConcat ==
    ASSUME NEW A, NEW B, NEW f, Maps(f, A, B), NEW s \in Seq(A), NEW t \in Seq(A)
    PROVE  Mapped(f, s \o t) = Mapped(f, s) \o Mapped(f, t)
<1>1. PICK n, k, l : n = Len(s) /\ k = Len(t) /\ l = s \o t
  OBVIOUS
<1>2. /\ n \in Nat /\ k \in Nat /\ l \in Seq(A) /\ Len(l) = n + k
      /\ \A i \in 1 .. n + k : l[i] = IF i <= n THEN s[i] ELSE t[i - n]
  BY <1>1, ConcatProperties, SeqIs
<1>3. PICK u, v, w : u = Mapped(f, s) /\ v = Mapped(f, t) /\ w = Mapped(f, l)
  OBVIOUS
<1>4. /\ u \in Seq(B) /\ Len(u) = n /\ v \in Seq(B) /\ Len(v) = k /\ w \in Seq(B) /\ Len(w) = n + k
      /\ \A i \in 1 .. n : u[i] = f[s[i]]
      /\ \A i \in 1 .. k : v[i] = f[t[i]]
      /\ \A i \in 1 .. n + k : w[i] = f[l[i]]
  <2>1. /\ Mapped(f, s) \in Seq(B) /\ Len(Mapped(f, s)) = Len(s)
        /\ \A i \in 1 .. Len(s) : Mapped(f, s)[i] = f[s[i]]
    BY MappedIs
  <2>2. /\ Mapped(f, t) \in Seq(B) /\ Len(Mapped(f, t)) = Len(t)
        /\ \A i \in 1 .. Len(t) : Mapped(f, t)[i] = f[t[i]]
    BY MappedIs
  <2>3. l \in Seq(A)
    BY <1>2
  <2>4. /\ Mapped(f, l) \in Seq(B) /\ Len(Mapped(f, l)) = Len(l)
        /\ \A i \in 1 .. Len(l) : Mapped(f, l)[i] = f[l[i]]
    BY <2>3, MappedIs
  <2>5. u \in Seq(B) /\ Len(u) = n /\ \A i \in 1 .. n : u[i] = f[s[i]]
    BY <1>1, <1>3, <2>1
  <2>6. v \in Seq(B) /\ Len(v) = k /\ \A i \in 1 .. k : v[i] = f[t[i]]
    BY <1>1, <1>3, <2>2
  <2>7. w \in Seq(B) /\ Len(w) = n + k /\ \A i \in 1 .. n + k : w[i] = f[l[i]]
    BY <1>2, <1>3, <2>4
  <2> QED BY <2>5, <2>6, <2>7
<1>5. /\ u \o v \in Seq(B) /\ Len(u \o v) = n + k
      /\ \A i \in 1 .. n + k : (u \o v)[i] = IF i <= n THEN u[i] ELSE v[i - n]
  <2>1. u \in Seq(B) /\ v \in Seq(B)
    BY <1>4
  <2>2. /\ u \o v \in Seq(B) /\ Len(u \o v) = Len(u) + Len(v)
        /\ \A i \in 1 .. Len(u) + Len(v) : (u \o v)[i] = IF i <= Len(u) THEN u[i] ELSE v[i - Len(u)]
    BY <2>1, ConcatProperties
  <2>3. Len(u) = n /\ Len(v) = k
    BY <1>4
  <2> QED BY <2>2, <2>3
<1>6. ASSUME NEW i \in 1 .. n + k PROVE w[i] = (u \o v)[i]
  <2>1. CASE i <= n
    <3>1. i \in 1 .. n
      BY <1>2, <2>1
    <3>2. l[i] = s[i] /\ (u \o v)[i] = u[i]
      BY <1>2, <1>5, <2>1
    <3>3. w[i] = f[l[i]] /\ u[i] = f[s[i]]
      BY <1>4, <3>1
    <3> QED BY <3>2, <3>3
  <2>2. CASE ~(i <= n)
    <3>1. i - n \in 1 .. k
      BY <1>2, <2>2
    <3>2. l[i] = t[i - n] /\ (u \o v)[i] = v[i - n]
      BY <1>2, <1>5, <2>2
    <3>3. w[i] = f[l[i]] /\ v[i - n] = f[t[i - n]]
      BY <1>4, <3>1
    <3> QED BY <3>2, <3>3
  <2> QED BY <2>1, <2>2
<1>7. w = u \o v
  BY <1>4, <1>5, <1>6, SeqEqual
<1> QED BY <1>1, <1>3, <1>7
=============================================================================
