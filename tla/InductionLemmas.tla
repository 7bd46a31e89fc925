--------------------------- MODULE InductionLemmas ---------------------------
(***************************************************************************)
(* Induction as facts about sets, for proofs whose induction hypothesis is *)
(* membership in a set: over the naturals, and over the subsets of a       *)
(* finite set.  Both follow from the minimal elements of well-founded      *)
(* relations.  And what they show of MapThenSumSet: that it is a sum, in   *)
(* whatever order it takes its elements.                                   *)
(***************************************************************************)
EXTENDS Integers, FiniteSetsExt, FiniteSetTheorems, WellFoundedInduction, TLAPS

\* A non-empty set of naturals has a least element.
LEMMA LeastNatural ==
  ASSUME NEW S \in SUBSET Nat, S # {}
  PROVE  \E n \in S : \A m \in S : n <= m
  <1>1. PICK n \in S : \A m \in S : <<m, n>> \notin OpToRel(<, Nat)
    BY WFMin, NatLessThanWellFounded
  <1>2. \A m \in S : ~(m < n)
    BY <1>1 DEF OpToRel
  <1> QED
    BY <1>2

\* A set that holds 0, and n + 1 with each natural n, holds them all.
LEMMA NatSetInduction ==
  ASSUME NEW S, 0 \in S, \A n \in Nat : n \in S => n + 1 \in S
  PROVE  Nat \subseteq S
  <1> SUFFICES ASSUME Nat \ S # {} PROVE FALSE
    OBVIOUS
  <1>1. PICK n \in Nat \ S : \A m \in Nat \ S : n <= m
    BY LeastNatural
  <1>2. n - 1 \in Nat /\ ~(n <= n - 1)
    BY <1>1
  <1>3. n - 1 \in S
    BY <1>1, <1>2
  <1> QED
    BY <1>1, <1>2, <1>3

\* What holds of a finite set as soon as it holds of its proper subsets holds of
\* all of them.
LEMMA FiniteSetInduction ==
  ASSUME NEW T, IsFiniteSet(T),
         NEW C, \A S \in SUBSET T : (\A U \in SUBSET S : U # S => U \in C) => S \in C
  PROVE  SUBSET T \subseteq C
  <1> SUFFICES ASSUME (SUBSET T) \ C # {} PROVE FALSE
    OBVIOUS
  <1>1. (SUBSET T) \ C \subseteq FiniteSubsetsOf(T)
    BY FS_FiniteSubsetsOfFinite
  <1>2. PICK S \in (SUBSET T) \ C : \A U \in (SUBSET T) \ C : <<U, S>> \notin StrictSubsetOrdering(T)
    <2>1. IsWellFoundedOn(StrictSubsetOrdering(T), FiniteSubsetsOf(T))
      BY FS_StrictSubsetOrderingWellFounded
    <2> DEFINE D == (SUBSET T) \ C
    <2>2. D \subseteq FiniteSubsetsOf(T) /\ D # {}
      BY <1>1
    <2>3. \E S \in D : \A U \in D : ~(<<U, S>> \in StrictSubsetOrdering(T))
      <3> HIDE DEF D
      <3> QED
        BY <2>1, <2>2, WFMin
    <2> QED
      BY <2>3
  <1>3. ASSUME NEW U \in SUBSET S, U # S PROVE U \in C
    <2>1. <<U, S>> \in StrictSubsetOrdering(T)
      BY <1>3 DEF StrictSubsetOrdering
    <2> QED
      BY <1>2, <2>1
  <1> QED
    BY <1>2, <1>3

-----------------------------------------------------------------------------
(* Sums.                                                                   *)

\* The sum of f over S.
SumOver(f, S) == MapThenSumSet(LAMBDA x : f[x], S)

\* The element that the fold takes next.
Pick(S) == CHOOSE x \in S : TRUE

\* g holds the sums over the subsets in D.
Accumulates(g, f, D) ==
  g = [S \in D |-> IF S = {} THEN 0 ELSE f[Pick(S)] + g[S \ {Pick(S)}]]

\* The fold, without its operator arguments.
LEMMA SumDefinition ==
  ASSUME NEW f, NEW T
  PROVE  SumOver(f, T) = (CHOOSE g : Accumulates(g, f, SUBSET T))[T]
  BY DEF SumOver, MapThenSumSet, MapThenFoldSet, Accumulates, Pick

\* Picking makes a set smaller.
LEMMA PickTakes ==
  ASSUME NEW S, IsFiniteSet(S), S # {}
  PROVE  /\ Pick(S) \in S
         /\ Cardinality(S \ {Pick(S)}) = Cardinality(S) - 1
         /\ Cardinality(S) \in Nat \ {0}
  <1>1. Pick(S) \in S
    BY DEF Pick
  <1>2. Cardinality(S \ {Pick(S)}) = Cardinality(S) - 1
    BY <1>1, FS_RemoveElement
  <1>3. Cardinality(S) \in Nat \ {0}
    BY FS_EmptySet, FS_CardinalityType
  <1> QED
    BY <1>1, <1>2, <1>3

\* The fold is defined: there are sums over all subsets of a finite set.
LEMMA SumsExist ==
  ASSUME NEW T, IsFiniteSet(T), NEW f, \A x \in T : f[x] \in Int
  PROVE  \E g \in [SUBSET T -> Int] : Accumulates(g, f, SUBSET T)
  <1> DEFINE D(n) == {S \in SUBSET T : Cardinality(S) <= n}
             Q == {n \in Nat : \E g \in [D(n) -> Int] : Accumulates(g, f, D(n))}
  <1>1. \A S \in SUBSET T : IsFiniteSet(S) /\ Cardinality(S) \in Nat
    BY FS_Subset, FS_CardinalityType
  <1>2. 0 \in Q
    <2> DEFINE g == [S \in D(0) |-> 0]
    <2>1. \A S \in D(0) : S = {}
      BY <1>1, FS_EmptySet
    <2>2. g \in [D(0) -> Int] /\ Accumulates(g, f, D(0))
      BY <2>1 DEF Accumulates
    <2> QED
      BY <2>2
  <1>3. ASSUME NEW n \in Nat, n \in Q PROVE n + 1 \in Q
    <2>1. PICK g \in [D(n) -> Int] : Accumulates(g, f, D(n))
      BY <1>3
    <2>2. \A S \in D(n) : g[S] = IF S = {} THEN 0 ELSE f[Pick(S)] + g[S \ {Pick(S)}]
      BY <2>1 DEF Accumulates
    <2> DEFINE h == [S \in D(n + 1) |-> IF S = {} THEN 0 ELSE f[Pick(S)] + g[S \ {Pick(S)}]]
    <2>3. ASSUME NEW S \in D(n + 1), S # {} PROVE S \ {Pick(S)} \in D(n) /\ Pick(S) \in T
      BY <1>1, <2>3, PickTakes
    <2>4. D(n) \subseteq D(n + 1)
      BY <1>1
    <2>5. \A S \in D(n) : h[S] = g[S]
      BY <2>2, <2>4
    <2>6. h \in [D(n + 1) -> Int]
      BY <2>3
    <2>7. \A S \in D(n + 1) : S # {} => h[S \ {Pick(S)}] = g[S \ {Pick(S)}]
      BY <2>3, <2>5
    <2>8. Accumulates(h, f, D(n + 1))
      BY <2>7 DEF Accumulates
    <2> HIDE DEF h, D
    <2> QED
      BY <2>6, <2>8
  <1>4. Cardinality(T) \in Q
    <2> HIDE DEF Q
    <2> QED
      BY <1>1, <1>2, <1>3, NatSetInduction
  <1>5. D(Cardinality(T)) = SUBSET T
    BY <1>1, FS_Subset
  <1> QED
    BY <1>4, <1>5

\* What sums they are does not depend on the set they were begun for.
LEMMA SumsAgree ==
  \A T, U, f, g, h :
    /\ IsFiniteSet(T) /\ U \subseteq T
    /\ Accumulates(g, f, SUBSET T) /\ Accumulates(h, f, SUBSET U)
    => \A S \in SUBSET U : g[S] = h[S]
  <1> TAKE T, U, f, g, h
  <1> HAVE /\ IsFiniteSet(T) /\ U \subseteq T
           /\ Accumulates(g, f, SUBSET T) /\ Accumulates(h, f, SUBSET U)
  <1> DEFINE C == {S \in SUBSET U : g[S] = h[S]}
  <1>1. IsFiniteSet(U)
    BY FS_Subset
  <1>2. ASSUME NEW S \in SUBSET U, \A V \in SUBSET S : V # S => V \in C PROVE S \in C
    <2>1. S # {} => Pick(S) \in S
      BY DEF Pick
    <2>2. S # {} => g[S \ {Pick(S)}] = h[S \ {Pick(S)}]
      BY <1>2, <2>1
    <2>3. /\ g[S] = IF S = {} THEN 0 ELSE f[Pick(S)] + g[S \ {Pick(S)}]
          /\ h[S] = IF S = {} THEN 0 ELSE f[Pick(S)] + h[S \ {Pick(S)}]
      BY DEF Accumulates
    <2> QED
      BY <2>2, <2>3
  <1>3. SUBSET U \subseteq C
    <2> HIDE DEF C
    <2> QED
      BY <1>1, <1>2, FiniteSetInduction
  <1> QED
    BY <1>3

\* The sum over the empty set.
LEMMA SumOfEmpty == \A f : SumOver(f, {}) = 0
  <1> SUFFICES ASSUME NEW f PROVE SumOver(f, {}) = 0
    OBVIOUS
  <1>1. PICK g : Accumulates(g, f, SUBSET {})
    BY SumsExist, FS_EmptySet
  <1> DEFINE h == CHOOSE h : Accumulates(h, f, SUBSET {})
  <1>2. Accumulates(h, f, SUBSET {})
    BY <1>1
  <1>3. h[{}] = 0
    BY <1>2 DEF Accumulates
  <1> QED
    BY <1>3, SumDefinition

\* Any element may be taken out of a sum.
LEMMA SumWithout ==
  ASSUME NEW T, IsFiniteSet(T), NEW f, \A x \in T : f[x] \in Int
  PROVE  /\ SumOver(f, T) \in Int
         /\ \A x \in T : SumOver(f, T) = SumOver(f, T \ {x}) + f[x]
  <1>1. PICK g \in [SUBSET T -> Int] : Accumulates(g, f, SUBSET T)
    BY SumsExist
  <1>2. ASSUME NEW U \in SUBSET T PROVE SumOver(f, U) = g[U]
    <2>1. IsFiniteSet(U) /\ \A x \in U : f[x] \in Int
      BY FS_Subset
    <2>2. \E h : Accumulates(h, f, SUBSET U)
      BY <2>1, SumsExist
    <2>3. PICK h : Accumulates(h, f, SUBSET U) /\ SumOver(f, U) = h[U]
      BY <2>2, SumDefinition
    <2>4. \A S \in SUBSET U : g[S] = h[S]
      <3>1. Accumulates(g, f, SUBSET T) /\ Accumulates(h, f, SUBSET U) /\ U \in SUBSET T
        BY <1>1, <2>3
      <3> QED
        BY <3>1, SumsAgree
    <2> QED
      BY <2>3, <2>4
  <1> DEFINE C == {S \in SUBSET T : \A x \in S : g[S] = g[S \ {x}] + f[x]}
  <1>3. ASSUME NEW S \in SUBSET T, \A V \in SUBSET S : V # S => V \in C PROVE S \in C
    <2> SUFFICES ASSUME NEW x \in S PROVE g[S] = g[S \ {x}] + f[x]
      OBVIOUS
    <2> DEFINE p == Pick(S)
    <2>1. p \in S /\ p \in T /\ x \in T
      BY DEF Pick
    <2>2. g[S] = f[p] + g[S \ {p}]
      BY <1>1, <2>1 DEF Accumulates
    <2>3. f[p] \in Int /\ f[x] \in Int /\ g[S \ {p}] \in Int /\ g[S \ {x}] \in Int
          /\ g[(S \ {x}) \ {p}] \in Int
      BY <1>1, <2>1
    <2>4. CASE p = x
      BY <2>2, <2>3, <2>4
    <2>5. CASE p # x
      <3>1. S \ {p} \in C /\ x \in S \ {p}
        BY <1>3, <2>1, <2>5
      <3>2. S \ {x} \in C /\ p \in S \ {x}
        BY <1>3, <2>1, <2>5
      <3>3. g[S \ {p}] = g[(S \ {p}) \ {x}] + f[x] /\ g[S \ {x}] = g[(S \ {x}) \ {p}] + f[p]
        BY <3>1, <3>2
      <3>4. g[(S \ {p}) \ {x}] = g[(S \ {x}) \ {p}]
        <4>1. (S \ {p}) \ {x} = (S \ {x}) \ {p}
          OBVIOUS
        <4> QED
          BY <4>1
      <3> HIDE DEF p, C
      <3> QED
        BY <2>2, <2>3, <3>3, <3>4
    <2> QED
      BY <2>4, <2>5
  <1>4. SUBSET T \subseteq C
    <2> HIDE DEF C
    <2> QED
      BY <1>3, FiniteSetInduction
  <1>5. g[T] \in Int /\ \A x \in T : g[T] = g[T \ {x}] + f[x]
    BY <1>1, <1>4
  <1> QED
    BY <1>2, <1>5

\* A sum of naturals is a natural.
LEMMA SumOfNaturals ==
  ASSUME NEW T, IsFiniteSet(T), NEW f, \A x \in T : f[x] \in Nat
  PROVE  SumOver(f, T) \in Nat
  <1> DEFINE C == {S \in SUBSET T : SumOver(f, S) \in Nat}
  <1>1. ASSUME NEW S \in SUBSET T, \A V \in SUBSET S : V # S => V \in C PROVE S \in C
    <2>1. CASE S = {}
      BY <2>1, SumOfEmpty
    <2>2. CASE S # {}
      <3>1. PICK x \in S : TRUE
        BY <2>2
      <3>2. S \ {x} \in C
        BY <1>1, <3>1
      <3>3. SumOver(f, S) = SumOver(f, S \ {x}) + f[x]
        <4>1. IsFiniteSet(S) /\ \A y \in S : f[y] \in Int
          BY FS_Subset
        <4> QED
          BY <3>1, <4>1, SumWithout
      <3>4. f[x] \in Nat
        BY <3>1
      <3> QED
        BY <3>2, <3>3, <3>4
    <2> QED
      BY <2>1, <2>2
  <1>2. SUBSET T \subseteq C
    <2> HIDE DEF C
    <2> QED
      BY <1>1, FiniteSetInduction
  <1> QED
    BY <1>2

\* A sum grows by the element that its set gains.
LEMMA SumWith ==
  ASSUME NEW T, IsFiniteSet(T), NEW x, x \notin T,
         NEW f, \A y \in T \cup {x} : f[y] \in Int
  PROVE  SumOver(f, T \cup {x}) = SumOver(f, T) + f[x]
  <1>1. IsFiniteSet(T \cup {x})
    BY FS_AddElement
  <1>2. (T \cup {x}) \ {x} = T
    OBVIOUS
  <1> QED
    BY <1>1, <1>2, SumWithout
=============================================================================
