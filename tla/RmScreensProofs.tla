--------------------------- MODULE RmScreensProofs ---------------------------
(***************************************************************************)
(* What the screens of RmScreens show, and what RmQuestions answers, is    *)
(* computed from the collections at one moment.  So the inductive          *)
(* invariant is ScreensTypeOK alone, kept by every step, and each property *)
(* is a fact about a state of these types: about the sums over a finite    *)
(* set, the first n of a sort, the rounding of a ratio, and the days of    *)
(* the months.  The first parts prove these facts; then follow, one        *)
(* part each, the alerts on the screens, the ranked actions, the briefing, *)
(* the standing among the peers, the engagement card, the figures of the   *)
(* year and the answers in words.                                          *)
(***************************************************************************)
EXTENDS RmQuestions, FiniteSetTheorems, WellFoundedInduction, TLAPS

\* A set of naturals has a least element, and a bounded one a greatest.
LEMMA Least ==
    ASSUME NEW S \in SUBSET Nat, S # {}
    PROVE  \E n \in S : \A k \in S : n <= k
<1> DEFINE R == OpToRel(<, Nat)
<1>1. IsWellFoundedOn(R, Nat)
  BY NatLessThanWellFounded, Zenon
<1>2. \A x, y \in Nat : y < x => <<y, x>> \in R
  BY SMT DEF OpToRel
<1> HIDE DEF R
<1>3. PICK n \in S : \A y \in S : <<y, n>> \notin R
  BY <1>1, WFMin
<1>4. \A k \in S : ~(k < n)
  BY <1>2, <1>3
<1> QED
  BY <1>4

\* So has a set of naturals up to m a greatest one.
LEMMA Greatest ==
    ASSUME NEW m \in Nat, NEW S \in SUBSET (0 .. m), S # {}
    PROVE  \E n \in S : \A k \in S : k <= n
<1> DEFINE D == {d \in Nat : d <= m /\ m - d \in S}
<1>1. D \in SUBSET Nat
  OBVIOUS
<1>2. \A s \in S : m - s \in D
  OBVIOUS
<1>3. PICK d \in D : \A e \in D : d <= e
  <2>1. D # {}
    BY <1>2
  <2> HIDE DEF D
  <2> QED
    BY <1>1, <2>1, Least
<1>4. m - d \in S /\ \A k \in S : k <= m - d
  BY <1>2, <1>3
<1> QED
  BY <1>4

\* Induction over the subsets of a finite set, each after those it strictly contains.
LEMMA SubsetInduction ==
    ASSUME NEW S, IsFiniteSet(S), NEW G,
           ASSUME NEW T \in SUBSET S, \A U \in SUBSET T : U # T => U \in G
           PROVE  T \in G
    PROVE  \A T \in SUBSET S : T \in G
<1> DEFINE Sizes == {n \in Nat : \E T \in SUBSET S : T \notin G /\ Cardinality(T) = n}
<1>1. SUFFICES ASSUME NEW T0 \in SUBSET S, T0 \notin G
               PROVE  FALSE
  OBVIOUS
<1>2. \A T \in SUBSET S : IsFiniteSet(T) /\ Cardinality(T) \in Nat
  BY FS_Subset, FS_CardinalityType
<1>3. Sizes \in SUBSET Nat /\ Sizes # {}
  BY <1>1, <1>2
<1>4. PICK n \in Sizes : \A k \in Sizes : n <= k
  <2> HIDE DEF Sizes
  <2> QED
    BY <1>3, Least
<1>5. PICK T \in SUBSET S : T \notin G /\ Cardinality(T) = n
  OBVIOUS
<1>6. ASSUME NEW U \in SUBSET T, U # T
      PROVE  U \in G
  <2>1. IsFiniteSet(T) /\ IsFiniteSet(U) /\ Cardinality(T) \in Nat /\ Cardinality(U) \in Nat
    BY <1>2
  <2>2. Cardinality(U) <= Cardinality(T) /\ Cardinality(U) # Cardinality(T)
    BY <1>6, <2>1, FS_Subset
  <2>3. Cardinality(U) \notin Sizes
    <3> HIDE DEF Sizes
    <3> QED
      BY <1>4, <1>5, <2>1, <2>2
  <2> QED
    BY <2>1, <2>3
<1> QED
  BY <1>5, <1>6
-----------------------------------------------------------------------------
(* Sums over a finite set *)

\* What Total computes: an element and the sum over the others.
Pick(S) == CHOOSE x \in S : TRUE
Solves(g, f, S) == \A s \in SUBSET S : g[s] = IF s = {} THEN 0 ELSE f[Pick(s)] + g[s \ {Pick(s)}]
Iter(f, S) == CHOOSE it : it = [s \in SUBSET S |-> IF s = {} THEN 0 ELSE f[Pick(s)] + it[s \ {Pick(s)}]]

\* Total, unfolded to the recursion it is defined by.
LEMMA TotalIs ==
    ASSUME NEW f, NEW S
    PROVE  Total(f, S) = Iter(f, S)[S]
BY DEF Total, SumFunctionOnSet, FoldFunctionOnSet, MapThenFoldSet, Iter, Pick

\* The element taken is one of the set.
LEMMA PickOne ==
    ASSUME NEW S, S # {}
    PROVE  Pick(S) \in S
BY DEF Pick

\* The recursion has a solution, built up by the size of the sets.
LEMMA IterExists ==
    ASSUME NEW D, NEW f \in [D -> Int], NEW S \in SUBSET D, IsFiniteSet(S)
    PROVE  \E g \in [SUBSET S -> Int] : Solves(g, f, S)
<1> DEFINE UpTo(k) == {s \in SUBSET S : Cardinality(s) <= k}
           Step(g, s) == IF s = {} THEN 0 ELSE f[Pick(s)] + g[s \ {Pick(s)}]
           Good(k) == \E g \in [UpTo(k) -> Int] : \A s \in UpTo(k) : g[s] = Step(g, s)
           Bad == {k \in Nat : ~Good(k)}
<1>1. \A s \in SUBSET S : IsFiniteSet(s) /\ Cardinality(s) \in Nat
  BY FS_Subset, FS_CardinalityType
<1>2. \A s \in SUBSET S : s # {} => /\ Pick(s) \in s /\ f[Pick(s)] \in Int
                                   /\ s \ {Pick(s)} \in SUBSET S
                                   /\ Cardinality(s \ {Pick(s)}) = Cardinality(s) - 1
  BY <1>1, PickOne, FS_RemoveElement
<1>3. Good(0)
  <2> DEFINE g == [s \in UpTo(0) |-> 0]
  <2>1. \A s \in UpTo(0) : s = {}
    <3>1. TAKE s \in UpTo(0)
    <3>2. Cardinality(s) = 0
      BY <1>1
    <3> QED
      BY <3>2, <1>1, FS_EmptySet
  <2>2. g \in [UpTo(0) -> Int] /\ \A s \in UpTo(0) : g[s] = Step(g, s)
    BY <2>1
  <2> QED
    BY <2>2
<1>4. ASSUME NEW k \in Nat, Good(k)
      PROVE  Good(k + 1)
  <2>1. PICK g \in [UpTo(k) -> Int] : \A s \in UpTo(k) : g[s] = Step(g, s)
    BY <1>4
  <2> DEFINE h == [s \in UpTo(k + 1) |-> Step(g, s)]
  <2>2. \A s \in UpTo(k + 1) : s # {} => s \ {Pick(s)} \in UpTo(k)
    BY <1>1, <1>2
  <2>3. \A s \in UpTo(k) : s \in UpTo(k + 1)
    BY <1>1
  <2>4. h \in [UpTo(k + 1) -> Int]
    BY <1>2, <2>2
  <2>5. \A s \in UpTo(k + 1) : s # {} => h[s \ {Pick(s)}] = g[s \ {Pick(s)}]
    BY <2>1, <2>2, <2>3
  <2>6. \A s \in UpTo(k + 1) : h[s] = Step(h, s)
    BY <2>5
  <2> QED
    BY <2>4, <2>6
<1>5. \A k \in Nat : Good(k)
  <2> HIDE DEF Good
  <2>1. SUFFICES ASSUME Bad # {}
                 PROVE  FALSE
    OBVIOUS
  <2>2. PICK k \in Bad : \A j \in Bad : k <= j
    <3>1. Bad \in SUBSET Nat
      OBVIOUS
    <3> HIDE DEF Bad
    <3> QED
      BY <2>1, <3>1, Least
  <2>3. k # 0
    BY <1>3
  <2>4. k - 1 \in Nat /\ ~(k <= k - 1)
    BY <2>3
  <2>5. Good(k - 1)
    BY <2>2, <2>4
  <2>6. Good((k - 1) + 1)
    BY <1>4, <2>4, <2>5
  <2> QED
    BY <2>6
<1>6. PICK g \in [UpTo(Cardinality(S)) -> Int] : \A s \in UpTo(Cardinality(S)) : g[s] = Step(g, s)
  BY <1>5, <1>1
<1>7. UpTo(Cardinality(S)) = SUBSET S
  BY FS_Subset
<1>8. Solves(g, f, S)
  BY <1>6, <1>7 DEF Solves
<1> HIDE DEF UpTo
<1> QED
  BY <1>6, <1>7, <1>8

\* It has one solution only, whatever larger set it is computed for.
LEMMA IterUnique ==
    ASSUME NEW D, NEW f \in [D -> Int], NEW S, IsFiniteSet(S), NEW g, NEW h,
           Solves(g, f, S), Solves(h, f, S)
    PROVE  \A s \in SUBSET S : g[s] = h[s]
<1> DEFINE G == {s \in SUBSET S : g[s] = h[s]}
<1>1. ASSUME NEW T \in SUBSET S, \A U \in SUBSET T : U # T => U \in G
      PROVE  T \in G
  <2>1. CASE T = {}
    BY <2>1 DEF Solves
  <2>2. CASE T # {}
    <3>1. Pick(T) \in T
      BY <2>2, PickOne
    <3>2. T \ {Pick(T)} \in G
      BY <1>1, <3>1
    <3> QED
      BY <2>2, <3>2 DEF Solves
  <2> QED
    BY <2>1, <2>2
<1>2. \A T \in SUBSET S : T \in G
  <2> HIDE DEF G
  <2> QED
    BY <1>1, SubsetInduction
<1> QED
  BY <1>2

\* So the recursion that Total chooses solves the equation, with integers.
LEMMA IterIs ==
    ASSUME NEW D, NEW f \in [D -> Int], NEW S \in SUBSET D, IsFiniteSet(S)
    PROVE  Solves(Iter(f, S), f, S) /\ \A s \in SUBSET S : Iter(f, S)[s] \in Int
<1> DEFINE Eq(g) == g = [s \in SUBSET S |-> IF s = {} THEN 0 ELSE f[Pick(s)] + g[s \ {Pick(s)}]]
<1>1. PICK g \in [SUBSET S -> Int] : Solves(g, f, S)
  BY IterExists
<1>2. Eq(g)
  BY <1>1 DEF Solves
<1>3. Eq(Iter(f, S))
  <2>1. Iter(f, S) = CHOOSE it : Eq(it)
    BY DEF Iter
  <2> HIDE DEF Eq
  <2> QED
    BY <1>2, <2>1
<1>4. Solves(Iter(f, S), f, S)
  BY <1>3 DEF Solves
<1>5. \A s \in SUBSET S : g[s] = Iter(f, S)[s]
  BY <1>1, <1>4, IterUnique
<1> QED
  BY <1>1, <1>4, <1>5

\* The sum over no element, and the sum as an element and the rest.
LEMMA TotalStep ==
    ASSUME NEW D, NEW f \in [D -> Int], NEW S \in SUBSET D, IsFiniteSet(S)
    PROVE  /\ Total(f, S) \in Int
           /\ S = {} => Total(f, S) = 0
           /\ S # {} => Total(f, S) = f[Pick(S)] + Total(f, S \ {Pick(S)})
<1>1. Total(f, S) = Iter(f, S)[S] /\ S \in SUBSET S
  BY TotalIs
<1>2. ASSUME S # {}
      PROVE  Iter(f, S)[S \ {Pick(S)}] = Total(f, S \ {Pick(S)})
  <2> DEFINE T == S \ {Pick(S)}
  <2>1. T \in SUBSET S /\ T \in SUBSET D /\ IsFiniteSet(T)
    BY FS_Subset
  <2>2. Solves(Iter(f, S), f, S) /\ Solves(Iter(f, T), f, T)
    BY <2>1, IterIs
  <2>3. Solves(Iter(f, S), f, T)
    BY <2>1, <2>2 DEF Solves
  <2> HIDE DEF T
  <2>4. \A s \in SUBSET T : Iter(f, S)[s] = Iter(f, T)[s]
    BY <2>1, <2>2, <2>3, IterUnique
  <2>5. Total(f, T) = Iter(f, S)[T]
    BY <2>4, TotalIs
  <2> QED
    BY <2>5 DEF T
<1>3. Solves(Iter(f, S), f, S) /\ Iter(f, S)[S] \in Int
  BY IterIs
<1> QED
  BY <1>1, <1>2, <1>3 DEF Solves

\* Any element may be taken first.
LEMMA TotalTakes ==
    ASSUME NEW D, NEW f \in [D -> Int], NEW S \in SUBSET D, IsFiniteSet(S), NEW x \in S
    PROVE  Total(f, S) = f[x] + Total(f, S \ {x})
<1> DEFINE G == {T \in SUBSET S : \A y \in T : Total(f, T) = f[y] + Total(f, T \ {y})}
<1>1. ASSUME NEW T \in SUBSET S, \A U \in SUBSET T : U # T => U \in G
      PROVE  T \in G
  <2>1. SUFFICES ASSUME NEW y \in T
                 PROVE  Total(f, T) = f[y] + Total(f, T \ {y})
    OBVIOUS
  <2> DEFINE p == Pick(T)
  <2>2. p \in T
    BY PickOne
  <2> HIDE DEF p
  <2>3. IsFiniteSet(T) /\ IsFiniteSet(T \ {y}) /\ IsFiniteSet(T \ {p}) /\ IsFiniteSet((T \ {y}) \ {p})
    BY FS_Subset
  <2>4. Total(f, T) = f[p] + Total(f, T \ {p})
    BY <2>2, <2>3, TotalStep DEF p
  <2>5. CASE y = p
    BY <2>4, <2>5
  <2>6. CASE y # p
    <3>1. T \ {p} \in G /\ T \ {y} \in G
      BY <1>1, <2>2
    <3>2. Total(f, T \ {p}) = f[y] + Total(f, (T \ {p}) \ {y})
      BY <2>6, <3>1
    <3>3. Total(f, T \ {y}) = f[p] + Total(f, (T \ {y}) \ {p})
      BY <2>2, <2>6, <3>1
    <3>4. (T \ {p}) \ {y} = (T \ {y}) \ {p}
      OBVIOUS
    <3>5. Total(f, (T \ {y}) \ {p}) \in Int
      BY <2>3, TotalStep
    <3>6. f[y] \in Int /\ f[p] \in Int
      BY <2>2
    <3> DEFINE a == Total(f, T \ {p})
               b == Total(f, T \ {y})
               c == Total(f, (T \ {y}) \ {p})
               v == f[y]
               w == f[p]
    <3>7. a = v + c /\ b = w + c /\ c \in Int /\ v \in Int /\ w \in Int
      BY <3>2, <3>3, <3>4, <3>5, <3>6
    <3> HIDE DEF a, b, c, v, w
    <3>8. w + a = v + b
      BY <3>7
    <3> QED
      BY <2>4, <3>8 DEF a, b, v, w
  <2> QED
    BY <2>5, <2>6
<1>2. \A T \in SUBSET S : T \in G
  <2> HIDE DEF G
  <2> QED
    BY <1>1, SubsetInduction
<1> QED
  BY <1>2

\* A new element adds its value.
LEMMA TotalAdds ==
    ASSUME NEW D, NEW f \in [D -> Int], NEW S \in SUBSET D, IsFiniteSet(S), NEW x \in D, x \notin S
    PROVE  Total(f, S \cup {x}) = f[x] + Total(f, S)
<1> DEFINE T == S \cup {x}
<1>1. IsFiniteSet(T)
  BY FS_AddElement
<1>2. T \in SUBSET D /\ x \in T /\ T \ {x} = S
  OBVIOUS
<1> HIDE DEF T
<1>3. Total(f, T) = f[x] + Total(f, T \ {x})
  BY <1>1, <1>2, TotalTakes
<1> QED
  BY <1>2, <1>3 DEF T

\* Only the values on the set count.
LEMMA TotalSame ==
    ASSUME NEW D, NEW f \in [D -> Int], NEW E, NEW g \in [E -> Int],
           NEW S \in SUBSET (D \cap E), IsFiniteSet(S), \A x \in S : f[x] = g[x]
    PROVE  Total(f, S) = Total(g, S)
<1> DEFINE G == {T \in SUBSET S : Total(f, T) = Total(g, T)}
<1>1. ASSUME NEW T \in SUBSET S, \A U \in SUBSET T : U # T => U \in G
      PROVE  T \in G
  <2>1. IsFiniteSet(T) /\ T \in SUBSET D /\ T \in SUBSET E
    BY FS_Subset
  <2>2. CASE T = {}
    BY <2>1, <2>2, TotalStep
  <2>3. CASE T # {}
    <3>1. Pick(T) \in T
      BY <2>3, PickOne
    <3>2. Total(f, T \ {Pick(T)}) = Total(g, T \ {Pick(T)})
      BY <1>1, <3>1
    <3>3. /\ Total(f, T) = f[Pick(T)] + Total(f, T \ {Pick(T)})
          /\ Total(g, T) = g[Pick(T)] + Total(g, T \ {Pick(T)})
      BY <2>1, <2>3, TotalStep
    <3> QED
      BY <3>1, <3>2, <3>3
  <2> QED
    BY <2>2, <2>3
<1>2. \A T \in SUBSET S : T \in G
  <2> HIDE DEF G
  <2> QED
    BY <1>1, SubsetInduction
<1> QED
  BY <1>2

\* What each element is worth at least, or exactly, the sum is that many times.
LEMMA TotalBounds ==
    ASSUME NEW D, NEW f \in [D -> Int], NEW S \in SUBSET D, IsFiniteSet(S), NEW k \in Int
    PROVE  /\ (\A x \in S : k <= f[x]) => k * Cardinality(S) <= Total(f, S)
           /\ (\A x \in S : k = f[x]) => k * Cardinality(S) = Total(f, S)
<1> DEFINE Low(T) == \A x \in T : k <= f[x]
           Same(T) == \A x \in T : k = f[x]
           G == {T \in SUBSET S : /\ Low(T) => k * Cardinality(T) <= Total(f, T)
                                  /\ Same(T) => k * Cardinality(T) = Total(f, T)}
<1>1. ASSUME NEW T \in SUBSET S, \A U \in SUBSET T : U # T => U \in G
      PROVE  T \in G
  <2>1. IsFiniteSet(T) /\ T \in SUBSET D
    BY FS_Subset
  <2>2. CASE T = {}
    <3>1. Cardinality(T) = 0
      BY <2>2, FS_EmptySet
    <3>2. Total(f, T) = 0
      BY <2>1, <2>2, TotalStep
    <3>3. k * 0 = 0
      OBVIOUS
    <3> QED
      BY <3>1, <3>2, <3>3
  <2>3. CASE T # {}
    <3> DEFINE p == Pick(T)
               U == T \ {p}
               n == Cardinality(U)
               t == Total(f, U)
               v == f[p]
    <3>1. p \in T /\ U \in SUBSET T /\ U # T
      BY <2>3, PickOne
    <3>2. IsFiniteSet(U) /\ n \in Nat /\ Cardinality(T) = n + 1
      <4>1. IsFiniteSet(U) /\ Cardinality(U) = Cardinality(T) - 1
        BY <2>1, <3>1, FS_RemoveElement
      <4>2. Cardinality(U) \in Nat /\ Cardinality(T) \in Nat
        BY <2>1, <4>1, FS_CardinalityType
      <4> HIDE DEF U
      <4> QED
        BY <4>1, <4>2
    <3>3. Total(f, T) = v + t /\ t \in Int /\ v \in Int
      <4>1. Total(f, T) = f[Pick(T)] + Total(f, T \ {Pick(T)})
        BY <2>1, <2>3, TotalStep
      <4>2. U \in SUBSET D
        BY <2>1
      <4> HIDE DEF U
      <4>3. Total(f, U) \in Int
        BY <3>2, <4>2, TotalStep
      <4> QED
        BY <2>1, <3>1, <4>1, <4>3 DEF U
    <3>4. (Low(U) => k * n <= t) /\ (Same(U) => k * n = t)
      BY <1>1, <3>1
    <3>5. (Low(T) => Low(U) /\ k <= v) /\ (Same(T) => Same(U) /\ k = v)
      BY <3>1
    <3> HIDE DEF n, t, v, U, p, Low, Same
    <3>6. k * (n + 1) = k * n + k /\ k * n \in Int
      BY <3>2
    <3>7. Low(T) => k * (n + 1) <= v + t
      BY <3>2, <3>3, <3>4, <3>5, <3>6
    <3>8. Same(T) => k * (n + 1) = v + t
      BY <3>2, <3>3, <3>4, <3>5, <3>6
    <3> QED
      BY <3>2, <3>3, <3>7, <3>8
  <2> QED
    BY <2>2, <2>3
<1>2. \A T \in SUBSET S : T \in G
  <2> HIDE DEF G
  <2> QED
    BY <1>1, SubsetInduction
<1> QED
  BY <1>2

\* Where nothing is negative, a sum is at least each of its parts.
LEMMA TotalCovers ==
    ASSUME NEW D, NEW f \in [D -> Int], NEW S \in SUBSET D, IsFiniteSet(S), \A x \in S : 0 <= f[x], NEW x \in S
    PROVE  Total(f, S) >= 0 /\ f[x] <= Total(f, S)
<1>1. IsFiniteSet(S \ {x}) /\ S \ {x} \in SUBSET D
  BY FS_Subset
<1>2. Total(f, S) = f[x] + Total(f, S \ {x})
  BY TotalTakes
<1>3. 0 * Cardinality(S \ {x}) <= Total(f, S \ {x}) /\ Total(f, S \ {x}) \in Int
  <2> DEFINE T == S \ {x}
  <2>1. \A y \in T : 0 <= f[y]
    OBVIOUS
  <2>2. T \in SUBSET D /\ IsFiniteSet(T)
    BY <1>1
  <2> HIDE DEF T
  <2>3. 0 * Cardinality(T) <= Total(f, T)
    BY <2>1, <2>2, TotalBounds
  <2>4. Total(f, T) \in Int
    BY <2>2, TotalStep
  <2> QED
    BY <2>3, <2>4 DEF T
<1>4. Cardinality(S \ {x}) \in Nat /\ f[x] \in Int /\ 0 <= f[x]
  BY <1>1, FS_CardinalityType
<1> QED
  BY <1>2, <1>3, <1>4

\* The sum over disjoint parts is the sum of the sums over the parts.
LEMMA TotalUnion ==
    ASSUME NEW D, NEW f \in [D -> Int], NEW S \in SUBSET D, IsFiniteSet(S),
           NEW T \in SUBSET D, IsFiniteSet(T), S \cap T = {}
    PROVE  Total(f, S \cup T) = Total(f, S) + Total(f, T)
<1> DEFINE G == {U \in SUBSET T : Total(f, S \cup U) = Total(f, S) + Total(f, U)}
<1>1. ASSUME NEW U \in SUBSET T, \A V \in SUBSET U : V # U => V \in G
      PROVE  U \in G
  <2>1. IsFiniteSet(U) /\ U \in SUBSET D
    BY FS_Subset
  <2>2. CASE U = {}
    <3>1. S \cup U = S
      BY <2>2
    <3>2. Total(f, U) = 0 /\ Total(f, S) \in Int
      BY <2>1, <2>2, TotalStep
    <3>3. Total(f, S \cup U) = Total(f, S)
      BY <3>1, Zenon
    <3>4. Total(f, S \cup U) = Total(f, S) + Total(f, U)
      BY <3>2, <3>3
    <3> QED
      BY <3>4
  <2>3. CASE U # {}
    <3> DEFINE p == Pick(U)
               V == U \ {p}
    <3>1. p \in U /\ V \in SUBSET U /\ V # U /\ p \notin S \cup V /\ p \in D
      BY <2>1, <2>3, PickOne
    <3>2. IsFiniteSet(V) /\ IsFiniteSet(S \cup V) /\ S \cup V \in SUBSET D /\ V \in SUBSET D
      BY <2>1, <3>1, FS_Subset, FS_Union
    <3>3. Total(f, S \cup V) = Total(f, S) + Total(f, V)
      BY <1>1, <3>1
    <3>4. U = V \cup {p} /\ S \cup U = (S \cup V) \cup {p} /\ p \notin V
      BY <3>1
    <3> HIDE DEF V, p
    <3>5. Total(f, U) = f[p] + Total(f, V)
      BY <3>1, <3>2, <3>4, TotalAdds
    <3>6. Total(f, S \cup U) = f[p] + Total(f, S \cup V)
      <4> DEFINE W == S \cup V
      <4>1. W \in SUBSET D /\ IsFiniteSet(W) /\ p \notin W /\ p \in D /\ S \cup U = W \cup {p}
        BY <3>1, <3>2, <3>4
      <4> HIDE DEF W
      <4>2. Total(f, W \cup {p}) = f[p] + Total(f, W)
        BY <4>1, TotalAdds
      <4> QED
        BY <4>1, <4>2 DEF W
    <3>7. Total(f, S) \in Int /\ Total(f, V) \in Int /\ f[p] \in Int
      BY <3>1, <3>2, TotalStep
    <3> QED
      BY <3>3, <3>5, <3>6, <3>7
  <2> QED
    BY <2>2, <2>3
<1>2. \A U \in SUBSET T : U \in G
  <2> HIDE DEF G
  <2> QED
    BY <1>1, SubsetInduction
<1> QED
  BY <1>2

\* The sum over the union of disjoint sets is the sum of their sums.
LEMMA TotalParts ==
    ASSUME NEW D, NEW f \in [D -> Int], NEW I, IsFiniteSet(I), NEW P \in [I -> SUBSET D],
           \A i \in I : IsFiniteSet(P[i]), \A i, j \in I : i # j => P[i] \cap P[j] = {}
    PROVE  /\ IsFiniteSet(UNION {P[i] : i \in I})
           /\ Total(f, UNION {P[i] : i \in I}) = Total([i \in I |-> Total(f, P[i])], I)
<1> DEFINE t == [i \in I |-> Total(f, P[i])]
           All(J) == UNION {P[i] : i \in J}
           G == {J \in SUBSET I : IsFiniteSet(All(J)) /\ Total(f, All(J)) = Total(t, J)}
<1>1. t \in [I -> Int]
  <2>1. \A i \in I : Total(f, P[i]) \in Int
    <3>1. TAKE i \in I
    <3>2. P[i] \in SUBSET D /\ IsFiniteSet(P[i])
      OBVIOUS
    <3> QED
      BY <3>2, TotalStep
  <2> QED
    BY <2>1
<1>2. ASSUME NEW J \in SUBSET I, \A K \in SUBSET J : K # J => K \in G
      PROVE  J \in G
  <2>1. IsFiniteSet(J)
    BY FS_Subset
  <2>2. CASE J = {}
    <3>1. All(J) = {} /\ {} \in SUBSET D
      BY <2>2
    <3> HIDE DEF t, All
    <3>2. Total(f, {}) = 0 /\ Total(t, {}) = 0 /\ IsFiniteSet({})
      BY <1>1, FS_EmptySet, TotalStep
    <3> QED
      BY <2>2, <3>1, <3>2
  <2>3. CASE J # {}
    <3> DEFINE p == Pick(J)
               K == J \ {p}
    <3>1. p \in J /\ K \in SUBSET J /\ K # J /\ p \in I
      BY <2>3, PickOne
    <3>2. IsFiniteSet(All(K)) /\ Total(f, All(K)) = Total(t, K)
      BY <1>2, <3>1
    <3>3. P[p] \in SUBSET D /\ IsFiniteSet(P[p]) /\ All(K) \in SUBSET D
      BY <3>1
    <3>4. All(J) = All(K) \cup P[p]
      BY <3>1
    <3>5. All(K) \cap P[p] = {}
      BY <3>1
    <3>6. J = K \cup {p} /\ p \notin K /\ K \in SUBSET I /\ IsFiniteSet(K)
      BY <2>1, <3>1, FS_Subset
    <3>7. t[p] = Total(f, P[p])
      BY <3>1
    <3> HIDE DEF K, p, All, t
    <3>8. IsFiniteSet(All(J))
      <4>1. IsFiniteSet(All(K)) /\ IsFiniteSet(P[p])
        BY <3>2, <3>3
      <4>2. IsFiniteSet(All(K) \cup P[p])
        BY <4>1, FS_Union
      <4> QED
        BY <3>4, <4>2
    <3>9. Total(f, All(K) \cup P[p]) = Total(f, All(K)) + Total(f, P[p])
      BY <3>2, <3>3, <3>5, TotalUnion
    <3>10. Total(t, K \cup {p}) = t[p] + Total(t, K)
      BY <1>1, <3>1, <3>6, TotalAdds
    <3>11. Total(t, K) \in Int /\ Total(f, P[p]) \in Int
      BY <1>1, <3>3, <3>6, TotalStep
    <3>12. Total(f, All(J)) = Total(t, J)
      BY <3>2, <3>4, <3>6, <3>7, <3>9, <3>10, <3>11
    <3> QED
      BY <3>8, <3>12
  <2> QED
    BY <2>2, <2>3
<1>3. \A J \in SUBSET I : J \in G
  <2> HIDE DEF G
  <2> QED
    BY <1>2, SubsetInduction
<1> QED
  BY <1>3

\* So with what is counted.
LEMMA CountParts ==
    ASSUME NEW D, NEW I, IsFiniteSet(I), NEW P \in [I -> SUBSET D],
           \A i \in I : IsFiniteSet(P[i]), \A i, j \in I : i # j => P[i] \cap P[j] = {}
    PROVE  Cardinality(UNION {P[i] : i \in I}) = Total([i \in I |-> Cardinality(P[i])], I)
<1> DEFINE one == [x \in D |-> 1]
           t == [i \in I |-> Total(one, P[i])]
           U == UNION {P[i] : i \in I}
<1>1. one \in [D -> Int] /\ \A x \in D : one[x] = 1
  OBVIOUS
<1>2. U \in SUBSET D
  OBVIOUS
<1>3. \A i \in I : P[i] \in SUBSET D /\ IsFiniteSet(P[i])
  OBVIOUS
<1> HIDE DEF one
<1>4. IsFiniteSet(U) /\ Total(one, U) = Total(t, I)
  <2>1. one \in [D -> Int]
    BY <1>1
  <2>2. /\ IsFiniteSet(UNION {P[i] : i \in I})
        /\ Total(one, UNION {P[i] : i \in I}) = Total([i \in I |-> Total(one, P[i])], I)
    BY ONLY <2>1, IsFiniteSet(I), P \in [I -> SUBSET D], \A i \in I : IsFiniteSet(P[i]),
            \A i, j \in I : i # j => P[i] \cap P[j] = {}, TotalParts
  <2> QED
    BY <2>2
<1>5. ASSUME NEW T \in SUBSET D, IsFiniteSet(T)
      PROVE  Total(one, T) = Cardinality(T)
  <2>1. 1 * Cardinality(T) = Total(one, T)
    BY <1>1, <1>5, TotalBounds
  <2> QED
    BY <1>5, <2>1, FS_CardinalityType
<1>6. t = [i \in I |-> Cardinality(P[i])]
  BY <1>3, <1>5
<1>7. Total(one, U) = Cardinality(U)
  BY <1>2, <1>4, <1>5
<1> HIDE DEF t, U
<1> QED
  BY <1>4, <1>6, <1>7 DEF U
-----------------------------------------------------------------------------
(* The best of a set, and the rounding *)

\* The first n of a finite set S in a strict total order R: they are n if there are as
\* many, and what is left out comes after each of them.
Ordered(R, S) ==
    /\ \A x \in S : <<x, x>> \notin R
    /\ \A x, y \in S : x # y => <<x, y>> \in R \/ <<y, x>> \in R
    /\ \A x, y, z \in S : <<x, y>> \in R /\ <<y, z>> \in R => <<x, z>> \in R
First(S, n, R) == {x \in S : Cardinality({y \in S : <<y, x>> \in R}) < n}

\* What a sorted list of at most n gives.
LEMMA FirstIs ==
    ASSUME NEW S, IsFiniteSet(S), NEW R, Ordered(R, S), NEW n \in Nat
    PROVE  /\ First(S, n, R) \subseteq S /\ IsFiniteSet(First(S, n, R))
           /\ Cardinality(First(S, n, R)) = AtMost(n, Cardinality(S))
           /\ \A x \in S \ First(S, n, R) : \A y \in First(S, n, R) : <<y, x>> \in R
<1> DEFINE Under(x) == {y \in S : <<y, x>> \in R}
           B == First(S, n, R)
<1>1. \A x \in S : IsFiniteSet(Under(x)) /\ Cardinality(Under(x)) \in Nat
  BY FS_Subset, FS_CardinalityType
<1>2. B \subseteq S /\ IsFiniteSet(B) /\ Cardinality(B) \in Nat /\ Cardinality(S) \in Nat
  BY FS_Subset, FS_CardinalityType DEF First
<1>3. ASSUME NEW x \in S, NEW y \in S, <<y, x>> \in R
      PROVE  Cardinality(Under(y)) < Cardinality(Under(x))
  <2>1. Under(y) \in SUBSET Under(x) /\ y \in Under(x) /\ y \notin Under(y)
    BY <1>3 DEF Ordered
  <2>2. Cardinality(Under(y)) <= Cardinality(Under(x)) /\ Cardinality(Under(y)) # Cardinality(Under(x))
    BY <1>1, <2>1, FS_Subset
  <2>3. Cardinality(Under(x)) \in Nat /\ Cardinality(Under(y)) \in Nat
    BY <1>1
  <2> HIDE DEF Under
  <2> QED
    BY ONLY <2>2, <2>3
<1>4. \A x \in S \ B : \A y \in B : <<y, x>> \in R
  <2>1. SUFFICES ASSUME NEW x \in S \ B, NEW y \in B, <<y, x>> \notin R
                 PROVE  FALSE
    OBVIOUS
  <2>2. <<x, y>> \in R /\ x \in S /\ y \in S
    BY <1>2, <2>1 DEF Ordered
  <2>3. Cardinality(Under(x)) < Cardinality(Under(y)) /\ Cardinality(Under(y)) < n
    BY <1>3, <2>2 DEF First
  <2>4. Cardinality(Under(x)) < n
    <3>1. Cardinality(Under(x)) \in Nat /\ Cardinality(Under(y)) \in Nat
      BY <1>1, <2>2
    <3> HIDE DEF Under
    <3> QED
      BY ONLY <2>3, <3>1, n \in Nat
  <2> QED
    BY <2>1, <2>4 DEF First
\* The sets before an element have all sizes below that of S.
<1>5. \A x \in S : Cardinality(Under(x)) < Cardinality(S)
  <2>1. TAKE x \in S
  <2>2. Under(x) \in SUBSET S /\ x \notin Under(x)
    BY DEF Ordered
  <2>3. Cardinality(Under(x)) <= Cardinality(S) /\ Cardinality(Under(x)) # Cardinality(S)
    BY <2>2, FS_Subset
  <2>4. Cardinality(Under(x)) \in Nat /\ Cardinality(S) \in Nat
    BY <1>1, <1>2
  <2> HIDE DEF Under
  <2> QED
    BY ONLY <2>3, <2>4
<1> DEFINE N == Cardinality(S)
           rank == [x \in S |-> Cardinality(Under(x))]
<1>6. rank \in [S -> 0 .. N - 1] /\ \A x, y \in S : rank[x] = rank[y] => x = y
  <2>1. rank \in [S -> 0 .. N - 1]
    BY <1>1, <1>2, <1>5
  <2>2. \A x, y \in S : x # y => Cardinality(Under(x)) # Cardinality(Under(y))
    <3> HIDE DEF Under
    <3>1. TAKE x, y \in S
    <3>2. HAVE x # y
    <3>3. \/ Cardinality(Under(x)) < Cardinality(Under(y))
          \/ Cardinality(Under(y)) < Cardinality(Under(x))
      BY <1>3, <3>2 DEF Ordered
    <3> QED
      BY <1>1, <3>3
  <2> QED
    BY <2>1, <2>2
<1>7. rank \in Bijection(S, 0 .. N - 1)
  <2>1. IsFiniteSet(0 .. N - 1) /\ Cardinality(0 .. N - 1) = N
    <3>1. N \in Nat
      BY <1>2
    <3> HIDE DEF N
    <3>2. N - 1 \in Int /\ (0 > N - 1 <=> N = 0) /\ N - 1 - 0 + 1 = N
      BY <3>1
    <3>3. IsFiniteSet(0 .. N - 1) /\ Cardinality(0 .. N - 1) = IF 0 > N - 1 THEN 0 ELSE N - 1 - 0 + 1
      BY <3>2, FS_Interval
    <3> QED
      BY <3>2, <3>3
  <2> HIDE DEF rank, N
  <2>2. rank \in Injection(S, 0 .. N - 1)
    BY <1>6 DEF Injection, IsInjective
  <2>3. rank \in Surjection(S, 0 .. N - 1)
    BY <2>1, <2>2, FS_Injection DEF N
  <2> QED
    BY <2>2, <2>3 DEF Bijection
<1>8. Cardinality(B) = AtMost(n, N)
  <2> DEFINE J == 0 .. AtMost(n, N) - 1
             g == [x \in B |-> rank[x]]
  <2>1. AtMost(n, N) \in Nat /\ AtMost(n, N) <= n /\ AtMost(n, N) <= N
        /\ \A i \in 0 .. N - 1 : i < n => i \in J
    BY <1>2 DEF AtMost
  <2>2. \A x \in S : x \in B <=> rank[x] < n
    BY DEF First
  <2> HIDE DEF rank, N, B
  <2>3. g \in [B -> J] /\ \A x, y \in B : g[x] = g[y] => x = y
    BY <1>2, <1>6, <2>1, <2>2
  <2>4. \A i \in J : \E x \in B : g[x] = i
    <3>1. TAKE i \in J
    <3>2. i \in 0 .. N - 1 /\ i < n
      BY <1>2, <2>1 DEF N
    <3>3. PICK x \in S : rank[x] = i
      BY <1>7, <3>2 DEF Bijection, Surjection
    <3> QED
      BY <2>2, <3>2, <3>3
  <2>5. g \in Bijection(B, J)
    <3> HIDE DEF g, J
    <3> QED
      BY <2>3, <2>4 DEF Bijection, Injection, Surjection, IsInjective
  <2>6. Cardinality(J) = Cardinality(B)
    BY <1>2, <2>5, FS_Bijection DEF ExistsBijection
  <2>7. Cardinality(J) = AtMost(n, N)
    BY <2>1, FS_Interval, FS_EmptySet
  <2> QED
    BY <2>6, <2>7
<1> QED
  BY <1>2, <1>4, <1>8

\* Rounded to the nearest whole number, halves up.
LEMMA RoundedIs ==
    ASSUME NEW x \in Int, NEW y \in Nat, y > 0
    PROVE  /\ Rounded(x, y) \in Int
           /\ (2 * y) * Rounded(x, y) <= 2 * x + y
           /\ 2 * x + y < (2 * y) * (Rounded(x, y) + 1)
<1> DEFINE n == 2 * x + y
           d == 2 * y
<1>1. n \in Int /\ d \in Nat /\ d > 0
  OBVIOUS
<1> HIDE DEF n, d
<1>2. n \div d \in Int /\ d * (n \div d) <= n /\ n < d * ((n \div d) + 1)
  BY <1>1
<1> QED
  BY <1>2 DEF Rounded, n, d

\* Rounding keeps the order.
LEMMA RoundedMonotone ==
    ASSUME NEW x \in Int, NEW z \in Int, x <= z, NEW y \in Nat, y > 0
    PROVE  Rounded(x, y) <= Rounded(z, y)
<1> DEFINE r == Rounded(x, y)
           s == Rounded(z, y)
           d == 2 * y
<1>1. r \in Int /\ d * r <= 2 * x + y /\ s \in Int /\ 2 * z + y < d * (s + 1) /\ d \in Nat /\ d > 0
  BY RoundedIs
<1>2. 2 * x + y <= 2 * z + y
  OBVIOUS
<1> HIDE DEF r, s, d
<1>3. d * r < d * (s + 1)
  BY <1>1, <1>2
<1>4. r < s + 1
  BY <1>1, <1>3
<1> QED
  BY <1>1, <1>4 DEF r, s

\* The multiples of y stay in order, whatever is rounded to them.
LEMMA RoundedBetween ==
    ASSUME NEW x \in Int, NEW y \in Nat, y > 0, NEW k \in Int
    PROVE  /\ k * y <= x => k <= Rounded(x, y)
           /\ x <= k * y => Rounded(x, y) <= k
<1> DEFINE r == Rounded(x, y)
<1>1. r \in Int /\ (2 * y) * r <= 2 * x + y /\ 2 * x + y < (2 * y) * (r + 1)
  BY RoundedIs
<1> HIDE DEF r
<1>2. ASSUME k * y <= x
      PROVE  k <= r
  <2>1. SUFFICES ASSUME r + 1 <= k
                 PROVE  FALSE
    BY <1>1
  <2>2. (2 * y) * (r + 1) <= (2 * y) * k
    BY <1>1, <2>1
  <2>3. (2 * y) * k = 2 * (k * y) /\ k * y \in Int
    OBVIOUS
  <2> QED
    BY <1>1, <1>2, <2>2, <2>3
<1>3. ASSUME x <= k * y
      PROVE  r <= k
  <2>1. SUFFICES ASSUME k + 1 <= r
                 PROVE  FALSE
    BY <1>1
  <2>2. (2 * y) * (k + 1) <= (2 * y) * r
    BY <1>1, <2>1
  <2>3. (2 * y) * (k + 1) = 2 * (k * y) + 2 * y /\ k * y \in Int
    OBVIOUS
  <2> QED
    BY <1>1, <1>3, <2>2, <2>3
<1> QED
  BY <1>2, <1>3 DEF r
-----------------------------------------------------------------------------
(* The types *)

\* The situations the clock starts in are well formed.
LEMMA ScreensInitTypeOK == ScreensInit => ScreensTypeOK
<1> SUFFICES ASSUME ScreensInit
             PROVE  ScreensTypeOK
  OBVIOUS
<1>1. PICK s \in Situations :
        /\ alerts = s.alerts /\ meetings = s.meetings /\ deals = s.deals
        /\ clients = s.clients /\ peers = s.peers /\ visits = s.visits /\ now = s.now
  BY DEF ScreensInit
<1>2. WellFormed(s)
  BY SituationsAssumption
<1> QED
  BY <1>1, <1>2 DEF ScreensTypeOK, WellFormed

\* The type invariant, one collection at a time.
LEMMA TypesAre ==
    ScreensTypeOK <=>
        /\ Collection(alerts, [status : Open \cup Closed, severity : {"critical", "high", "medium", "low"},
                               priority : {"high", "medium", "low", "none"}, at : Int])
        /\ Collection(meetings, [kind : Kinds, status : {"scheduled", "completed", "cancelled"}, at : Int,
                                 tier : STRING, timed : BOOLEAN])
        /\ Collection(deals, [status : Stages, amount : Nat, updated : Int, tier : STRING])
        /\ Collection(clients, [tier : Stored, last : Int, since : Int,
                                pct : Nat, cash : Nat, change : Int, aum : Int,
                                sale : [type : STRING, status : STRING, at : Int, amount : Nat]])
        /\ Collection(peers, [Metrics -> Int]) /\ 1 \in DOMAIN peers
        /\ Collection(visits, [sessions : Nat, minutes : Nat, actions : Nat])
        /\ now \in 24 * Months[1] .. LastHour
BY DEF ScreensTypeOK, WellFormed

\* At all times the collections hold documents of their types under numbers, finitely many,
\* and the clock is within the months: what CloseAlert, a sync and LogIn write fits in.
THEOREM TypeInvariant == ScreensSpec => []ScreensTypeOK
<1>1. ASSUME ScreensTypeOK, [ScreensNext]_svars
      PROVE  ScreensTypeOK'
  <2> USE <1>1
  <2>1. now \in Int /\ now <= LastHour /\ 24 * Months[1] \in Int /\ 24 * Months[1] <= now
    <3>1. Months[1] \in Nat /\ LastHour \in Nat
      BY ScreensAssumption
    <3> QED
      BY <3>1, TypesAre
  <2>2. ASSUME NEW a \in DOMAIN alerts, CloseAlert(a)
        PROVE  ScreensTypeOK'
    <3>1. PICK s \in Closed : alerts' = [alerts EXCEPT ![a].status = s]
      BY <2>2 DEF CloseAlert
    <3>2. Collection(alerts, [status : Open \cup Closed, severity : {"critical", "high", "medium", "low"},
                               priority : {"high", "medium", "low", "none"}, at : Int])'
      <4> DEFINE X == {"critical", "high", "medium", "low"}
                 Y == {"high", "medium", "low", "none"}
                 Z == Open \cup Closed
      <4>1. Collection(alerts, [status : Z, severity : X, priority : Y, at : Int]) /\ s \in Z
        BY TypesAre
      <4> HIDE DEF X, Y, Z
      <4>2. Collection(alerts, [status : Z, severity : X, priority : Y, at : Int])'
        BY <3>1, <4>1 DEF Collection
      <4> QED
        BY <4>2 DEF X, Y, Z
    <3>3. UNCHANGED <<meetings, deals, clients, peers, visits, now>>
      BY <2>2 DEF CloseAlert
    <3> QED
      BY <3>2, <3>3, TypesAre DEF ScreensTypeOK, WellFormed
  <2>3. ASSUME NEW m \in DOMAIN meetings, CompleteMeeting(m)
        PROVE  ScreensTypeOK'
    <3>1. Collection(meetings, [kind : Kinds, status : {"scheduled", "completed", "cancelled"}, at : Int,
                                 tier : STRING, timed : BOOLEAN])'
      <4>1. meetings' = [meetings EXCEPT ![m].status = "completed"]
        BY <2>3 DEF CompleteMeeting
      <4>2. Collection(meetings, [kind : Kinds, status : {"scheduled", "completed", "cancelled"}, at : Int,
                                 tier : STRING, timed : BOOLEAN])
        BY TypesAre
      <4> DEFINE X == {"scheduled", "completed", "cancelled"}
      <4>3. "completed" \in X
        OBVIOUS
      <4> DEFINE v == "completed"
      <4> HIDE DEF v, X
      <4>4. Collection(meetings', [kind : Kinds, status : X, at : Int, tier : STRING, timed : BOOLEAN])
        BY <4>1, <4>2, <4>3 DEF Collection, v, X
      <4> QED
        BY <4>4 DEF X
    <3>2. UNCHANGED <<alerts, deals, clients, peers, visits, now>>
      BY <2>3 DEF CompleteMeeting
    <3> QED
      BY <3>1, <3>2, TypesAre DEF ScreensTypeOK, WellFormed
  <2>4. ASSUME NEW d \in DOMAIN deals, SendProposal(d)
        PROVE  ScreensTypeOK'
    <3>1. Collection(deals, [status : Stages, amount : Nat, updated : Int, tier : STRING])'
      <4>1. deals' = [deals EXCEPT ![d].status = "PROPOSAL_SENT", ![d].updated = now]
        BY <2>4 DEF SendProposal
      <4>2. Collection(deals, [status : Stages, amount : Nat, updated : Int, tier : STRING])
        BY TypesAre
      <4>3. "PROPOSAL_SENT" \in Stages
        BY DEF Stages
      <4> QED
        BY <2>1, <4>1, <4>2, <4>3 DEF Collection
    <3>2. UNCHANGED <<alerts, meetings, clients, peers, visits, now>>
      BY <2>4 DEF SendProposal
    <3> QED
      BY <3>1, <3>2, TypesAre DEF ScreensTypeOK, WellFormed
  <2>5. ASSUME NEW c \in DOMAIN clients, CallClient(c)
        PROVE  ScreensTypeOK'
    <3>1. Collection(clients, [tier : Stored, last : Int, since : Int,
                               pct : Nat, cash : Nat, change : Int, aum : Int,
                               sale : [type : STRING, status : STRING, at : Int, amount : Nat]])'
      <4>1. clients' = [clients EXCEPT ![c].last = now]
        BY <2>5 DEF CallClient
      <4> DEFINE X == Stored
                 Y == [type : STRING, status : STRING, at : Int, amount : Nat]
      <4>2. Collection(clients, [tier : X, last : Int, since : Int,
                                 pct : Nat, cash : Nat, change : Int, aum : Int, sale : Y])
        BY TypesAre
      <4> HIDE DEF X, Y
      <4>3. Collection(clients, [tier : X, last : Int, since : Int,
                                 pct : Nat, cash : Nat, change : Int, aum : Int, sale : Y])'
        BY <2>1, <4>1, <4>2 DEF Collection
      <4> QED
        BY <4>3 DEF X, Y
    <3>2. UNCHANGED <<alerts, meetings, deals, peers, visits, now>>
      BY <2>5 DEF CallClient
    <3> QED
      BY <3>1, <3>2, TypesAre DEF ScreensTypeOK, WellFormed
  <2>6. ASSUME LogIn
        PROVE  ScreensTypeOK'
    <3>1. Collection(visits, [sessions : Nat, minutes : Nat, actions : Nat])'
      BY <2>6, TypesAre DEF Collection, LogIn
    <3>2. UNCHANGED <<alerts, meetings, deals, clients, peers, now>>
      BY <2>6 DEF LogIn
    <3> QED
      BY <3>1, <3>2, TypesAre DEF ScreensTypeOK, WellFormed
  <2>7. ASSUME PassTime
        PROVE  ScreensTypeOK'
    <3>1. PICK h \in Strides : now + h <= LastHour /\ now' = now + h
      BY <2>7 DEF PassTime
    <3>2. h \in Nat /\ LastHour \in Nat
      BY ScreensAssumption
    <3>3. now' \in 24 * Months[1] .. LastHour
      BY <2>1, <3>1, <3>2
    <3>4. UNCHANGED <<alerts, meetings, deals, clients, peers, visits>>
      BY <2>7 DEF PassTime
    <3> QED
      BY <3>3, <3>4, TypesAre DEF ScreensTypeOK, WellFormed
  <2>8. CASE UNCHANGED svars
    BY <2>8 DEF ScreensTypeOK, WellFormed, svars
  <2> QED
    BY <2>2, <2>3, <2>4, <2>5, <2>6, <2>7, <2>8 DEF ScreensNext
<1> QED
  BY <1>1, ScreensInitTypeOK, PTL DEF ScreensSpec

-----------------------------------------------------------------------------
(* The alerts on the screens *)

\* The documents of the alerts.
LEMMA AlertIs ==
    ASSUME ScreensTypeOK
    PROVE  /\ IsFiniteSet(DOMAIN alerts) /\ DOMAIN alerts \subseteq Nat
           /\ \A a \in DOMAIN alerts : /\ alerts[a].at \in Int /\ alerts[a].status \in Open \cup Closed
                                       /\ alerts[a].severity \in {"critical", "high", "medium", "low"}
                                       /\ alerts[a].priority \in {"high", "medium", "low", "none"}
<1>1. Collection(alerts, [status : Open \cup Closed, severity : {"critical", "high", "medium", "low"},
                          priority : {"high", "medium", "low", "none"}, at : Int])
  BY TypesAre
<1> DEFINE Sev == {"critical", "high", "medium", "low"}
           Pri == {"high", "medium", "low", "none"}
           Sta == Open \cup Closed
<1> HIDE DEF Sev, Pri, Sta
<1>2. Collection(alerts, [status : Sta, severity : Sev, priority : Pri, at : Int])
  BY <1>1 DEF Sev, Pri, Sta
<1>3. /\ IsFiniteSet(DOMAIN alerts) /\ DOMAIN alerts \subseteq Nat
      /\ \A a \in DOMAIN alerts : /\ alerts[a].at \in Int /\ alerts[a].status \in Sta
                                  /\ alerts[a].severity \in Sev /\ alerts[a].priority \in Pri
  BY <1>2 DEF Collection
<1> QED
  BY <1>3 DEF Sev, Pri, Sta

\* The newest n of the alerts of a set.
LEMMA NewestIs ==
    ASSUME ScreensTypeOK, NEW S \in SUBSET DOMAIN alerts, NEW n \in Nat
    PROVE  /\ Best(S, n, Newer) \subseteq S /\ IsFiniteSet(Best(S, n, Newer)) /\ IsFiniteSet(S)
           /\ Cardinality(Best(S, n, Newer)) = AtMost(n, Cardinality(S))
           /\ \A x \in S \ Best(S, n, Newer) : \A y \in Best(S, n, Newer) : Newer(y, x)
<1> DEFINE R == {p \in S \X S : Newer(p[1], p[2])}
<1>1. \A x, y \in S : <<x, y>> \in R <=> Newer(x, y)
  OBVIOUS
<1>2. \A x \in S : alerts[x].at \in Int /\ x \in Nat
  BY AlertIs
<1>3. Ordered(R, S)
  <2> HIDE DEF R
  <2>1. \A x \in S : ~Newer(x, x)
    BY <1>2 DEF Newer
  <2>2. \A x, y \in S : x # y => Newer(x, y) \/ Newer(y, x)
    BY <1>2 DEF Newer
  <2>3. \A x, y, z \in S : Newer(x, y) /\ Newer(y, z) => Newer(x, z)
    BY <1>2 DEF Newer
  <2> QED
    BY <1>1, <2>1, <2>2, <2>3 DEF Ordered
<1>4. Best(S, n, Newer) = First(S, n, R)
  <2>1. \A x \in S : {y \in S : Newer(y, x)} = {y \in S : <<y, x>> \in R}
    BY <1>1
  <2> QED
    BY <2>1 DEF Best, First
<1>5. IsFiniteSet(S)
  BY AlertIs, FS_Subset
<1> HIDE DEF R
<1>6. /\ First(S, n, R) \subseteq S /\ IsFiniteSet(First(S, n, R))
      /\ Cardinality(First(S, n, R)) = AtMost(n, Cardinality(S))
      /\ \A x \in S \ First(S, n, R) : \A y \in First(S, n, R) : <<y, x>> \in R
  BY <1>3, <1>5, FirstIs
<1> QED
  BY <1>1, <1>4, <1>5, <1>6

\* A list that leaves something out is full.
LEMMA FullList ==
    ASSUME NEW S, IsFiniteSet(S), NEW B \in SUBSET S, NEW n \in Nat,
           Cardinality(B) = AtMost(n, Cardinality(S)), NEW x \in S \ B
    PROVE  Cardinality(B) = n
<1>1. Cardinality(B) <= Cardinality(S) /\ Cardinality(B) # Cardinality(S)
  BY FS_Subset
<1> QED
  BY <1>1 DEF AtMost

\* What is with which status is an alert.
LEMMA WithIs ==
    ASSUME NEW X
    PROVE  With(X) \in SUBSET DOMAIN alerts /\ \A a \in DOMAIN alerts : a \in With(X) <=> alerts[a].status \in X
BY DEF With

\* The daily actions are the first by the order of the priorities as strings.
LEMMA DailyActionsAre ==
    ASSUME ScreensTypeOK
    PROVE  LET S == With({"pending"})
               B == DailyActions
           IN /\ B \subseteq S /\ IsFiniteSet(B) /\ Cardinality(B) = AtMost(ShortLimit, Cardinality(S))
              /\ \A x \in S \ B : \A y \in B :
                    Alphabetical(alerts[y].priority) <= Alphabetical(alerts[x].priority)
<1> DEFINE S == With({"pending"})
           Rank(a) == Alphabetical(alerts[a].priority)
           B4(a, b) == Rank(a) < Rank(b) \/ (Rank(a) = Rank(b) /\ Newer(a, b))
           R == {p \in S \X S : B4(p[1], p[2])}
           n == ShortLimit
<1>1. \A x, y \in S : <<x, y>> \in R <=> B4(x, y)
  OBVIOUS
<1>2. \A x \in S : alerts[x].at \in Int /\ x \in Nat /\ Rank(x) \in Int
  BY AlertIs, WithIs DEF Alphabetical
<1>3. Ordered(R, S)
  <2> HIDE DEF R, S, Rank
  <2>1. \A x \in S : ~B4(x, x)
    BY <1>2 DEF Newer
  <2>2. \A x, y \in S : x # y => B4(x, y) \/ B4(y, x)
    BY <1>2 DEF Newer
  <2>3. \A x, y, z \in S : B4(x, y) /\ B4(y, z) => B4(x, z)
    BY <1>2 DEF Newer
  <2> QED
    BY <1>1, <2>1, <2>2, <2>3 DEF Ordered
<1>4. DailyActions = First(S, n, R)
  <2>1. \A x \in S : {y \in S : B4(y, x)} = {y \in S : <<y, x>> \in R}
    BY <1>1
  <2>2. DailyActions = {x \in S : Cardinality({y \in S : B4(y, x)}) < n}
    BY DEF DailyActions, Best
  <2> HIDE DEF B4, R, S
  <2> QED
    BY <2>1, <2>2 DEF First
<1>5. IsFiniteSet(S) /\ n \in Nat
  BY AlertIs, WithIs, FS_Subset, ScreensAssumption
<1> HIDE DEF R, S, n
<1>6. /\ First(S, n, R) \subseteq S /\ IsFiniteSet(First(S, n, R))
      /\ Cardinality(First(S, n, R)) = AtMost(n, Cardinality(S))
      /\ \A x \in S \ First(S, n, R) : \A y \in First(S, n, R) : <<y, x>> \in R
  BY <1>3, <1>5, FirstIs
<1>7. \A x, y \in S : <<y, x>> \in R => Rank(y) <= Rank(x)
  BY <1>1, <1>2
<1> HIDE DEF Rank
<1>8. \A x \in S \ First(S, n, R) : \A y \in First(S, n, R) : Rank(y) <= Rank(x)
  BY <1>6, <1>7
<1> QED
  BY <1>4, <1>6, <1>8 DEF Rank, S, n

\* AlertsOnScreens: an open alert is on the dashboard or in the briefing unless the list
\* is full of newer ones, a closed one is nowhere, the numbers go with the lists, and an
\* alert of high priority gives way to others of high priority or of none only.
THEOREM ScreensShowAlerts == ScreensSpec => []AlertsOnScreens
<1>1. ASSUME ScreensTypeOK
      PROVE  AlertsOnScreens
  <2> USE <1>1
  <2> DEFINE S == With({"PENDING", "pending"})
             P == With({"pending"})
             N == With({"PENDING", "NEW"})
             O == With(Open)
  <2>1. S = P /\ N \subseteq O /\ P \subseteq O /\ O \subseteq P \cup N
    <3>1. \A a \in DOMAIN alerts : alerts[a].status \in Open \cup Closed
      BY AlertIs
    <3> QED
      BY <3>1 DEF With, Open, Closed
  <2>2. S \in SUBSET DOMAIN alerts /\ O \in SUBSET DOMAIN alerts /\ ListLimit \in Nat /\ ShortLimit \in Nat
    BY WithIs, ScreensAssumption
  <2> HIDE DEF S, P, N, O
  <2> DEFINE B == Best(S, ListLimit, Newer)
  <2>3. /\ B \subseteq S /\ IsFiniteSet(B) /\ IsFiniteSet(S)
        /\ Cardinality(B) = AtMost(ListLimit, Cardinality(S))
        /\ \A x \in S \ B : \A y \in B : Newer(y, x)
    BY <2>2, NewestIs
  <2>4. DashboardAlerts = B /\ BriefingAlerts = N
    BY DEF DashboardAlerts, BriefingAlerts, B, S, N
  <2> HIDE DEF B
  <2>5. IsFiniteSet(O)
    BY <2>2, AlertIs, FS_Subset
  <2>6. Cardinality(B \cup N) <= Cardinality(O)
    <3>1. B \cup N \in SUBSET O
      BY <2>1, <2>3
    <3> QED
      BY <2>5, <3>1, FS_Subset
  <2>7. ASSUME NEW a \in O, a \notin B \cup N
        PROVE  Cardinality({b \in B : Newer(b, a)}) = ListLimit
    <3>1. a \in S \ B
      BY <2>1, <2>7
    <3>2. {b \in B : Newer(b, a)} = B
      BY <2>3, <3>1
    <3>3. Cardinality(B) = ListLimit
      BY <2>2, <2>3, <3>1, FullList
    <3> QED
      BY <3>2, <3>3
  <2>8. /\ DailyActions \subseteq P /\ IsFiniteSet(P)
        /\ Cardinality(DailyActions) = AtMost(ShortLimit, Cardinality(P))
        /\ \A x \in P \ DailyActions : \A y \in DailyActions :
              Alphabetical(alerts[y].priority) <= Alphabetical(alerts[x].priority)
    BY <2>1, <2>3, DailyActionsAre DEF P
  <2>9. ASSUME NEW a \in P \ DailyActions, alerts[a].priority = "high"
        PROVE  /\ Cardinality(DailyActions) = ShortLimit
               /\ \A b \in DailyActions : alerts[b].priority \in {"high", "none"}
    <3>1. Cardinality(DailyActions) = ShortLimit
      BY <2>2, <2>8, FullList
    <3>2. ASSUME NEW b \in DailyActions
          PROVE  alerts[b].priority \in {"high", "none"}
      <4>1. Alphabetical(alerts[b].priority) <= 1
        BY <2>8, <2>9 DEF Alphabetical
      <4>2. b \in DOMAIN alerts
        BY <2>1, <2>2, <2>8
      <4>3. alerts[b].priority \in {"high", "medium", "low", "none"}
        BY <4>2, AlertIs
      <4> QED
        BY <4>1, <4>3 DEF Alphabetical
    <3> QED
      BY <3>1, <3>2
  <2>10. ActivityAlerts = Cardinality(O) /\ SummaryAlerts = Cardinality(P)
    BY DEF ActivityAlerts, SummaryAlerts, O, P
  <2>11. \A a \in DOMAIN alerts : a \notin O => a \notin B \cup N \cup DailyActions
    BY <2>1, <2>3, <2>8
  <2>12. Cardinality(B) = AtMost(ListLimit, Cardinality(P))
    BY <2>1, <2>3
  <2> QED
    BY <2>4, <2>6, <2>7, <2>9, <2>10, <2>11, <2>12 DEF AlertsOnScreens, O, P
<1> QED
  BY <1>1, TypeInvariant, PTL

-----------------------------------------------------------------------------
(* The ranked actions *)

\* The documents of the other collections, but for visits and peers.
LEMMA DocumentsAre ==
    ASSUME ScreensTypeOK
    PROVE  /\ IsFiniteSet(DOMAIN meetings) /\ DOMAIN meetings \subseteq Nat
           /\ \A m \in DOMAIN meetings : meetings[m].at \in Int /\ meetings[m].kind \in Kinds
           /\ IsFiniteSet(DOMAIN deals) /\ DOMAIN deals \subseteq Nat
           /\ \A d \in DOMAIN deals : deals[d].amount \in Nat /\ deals[d].updated \in Int
           /\ IsFiniteSet(DOMAIN clients) /\ DOMAIN clients \subseteq Nat
           /\ \A c \in DOMAIN clients :
                 /\ clients[c].last \in Int /\ clients[c].since \in Int /\ clients[c].cash \in Nat
                 /\ clients[c].change \in Int /\ clients[c].aum \in Int
                 /\ clients[c].sale.at \in Int /\ clients[c].sale.amount \in Nat
                 /\ clients[c].tier \in Stored
<1>1. /\ IsFiniteSet(DOMAIN meetings) /\ DOMAIN meetings \subseteq Nat
      /\ \A m \in DOMAIN meetings : meetings[m].at \in Int /\ meetings[m].kind \in Kinds
  <2>1. Collection(meetings, [kind : Kinds, status : {"scheduled", "completed", "cancelled"}, at : Int,
                                 tier : STRING, timed : BOOLEAN])
    BY TypesAre
  <2> QED
    BY <2>1 DEF Collection
<1>2. /\ IsFiniteSet(DOMAIN deals) /\ DOMAIN deals \subseteq Nat
      /\ \A d \in DOMAIN deals : deals[d].amount \in Nat /\ deals[d].updated \in Int
  <2>1. Collection(deals, [status : Stages, amount : Nat, updated : Int, tier : STRING])
    BY TypesAre
  <2> QED
    BY <2>1 DEF Collection
<1>3. /\ IsFiniteSet(DOMAIN clients) /\ DOMAIN clients \subseteq Nat
      /\ \A c \in DOMAIN clients :
            /\ clients[c].last \in Int /\ clients[c].since \in Int /\ clients[c].cash \in Nat
            /\ clients[c].change \in Int /\ clients[c].aum \in Int
            /\ clients[c].sale.at \in Int /\ clients[c].sale.amount \in Nat
            /\ clients[c].tier \in Stored
  <2> DEFINE X == Stored
  <2>1. Collection(clients, [tier : X, last : Int, since : Int,
                             pct : Nat, cash : Nat, change : Int, aum : Int,
                             sale : [type : STRING, status : STRING, at : Int, amount : Nat]])
    BY TypesAre
  <2> HIDE DEF X
  <2> QED
    BY <2>1 DEF Collection, X
<1> QED
  BY <1>1, <1>2, <1>3

\* The clock is between the beginning of the first month and its bound.
LEMMA NowIs ==
    ASSUME ScreensTypeOK
    PROVE  now \in Nat /\ now <= LastHour /\ 24 * Months[1] <= now
<1>1. Months[1] \in Nat /\ LastHour \in Nat
  BY ScreensAssumption
<1>2. now \in 24 * Months[1] .. LastHour
  BY TypesAre
<1> QED
  BY <1>1, <1>2

\* An unknown tier weighs something too.
LEMMA TierWeighs == \A tier : TierWeight(tier) \in Nat
BY DEF TierWeight

\* The longer something waits, the higher its score.
LEMMA ScoreGrows ==
    ASSUME NEW tier, NEW amount \in Nat, NEW days \in Int, NEW more \in Int, days <= more
    PROVE  /\ PriorityScore(tier, days, amount) <= PriorityScore(tier, more, amount)
           /\ PriorityScore(tier, days, amount) \in Int /\ PriorityScore(tier, more, amount) \in Int
<1> DEFINE w == TierWeight(tier)
           a == AtMost(100, amount)
           x(d) == 6 * w + 70 * AtMost(30, d) + 15 * a
<1>1. w \in Nat /\ a \in Nat
  BY TierWeighs DEF AtMost
<1>2. AtMost(30, days) \in Int /\ AtMost(30, more) \in Int /\ AtMost(30, days) <= AtMost(30, more)
  BY DEF AtMost
<1> HIDE DEF w, a
<1>3. x(days) \in Int /\ x(more) \in Int /\ x(days) <= x(more)
  BY <1>1, <1>2
<1> HIDE DEF x
<1>4. /\ Rounded(x(days), 6) <= Rounded(x(more), 6)
      /\ Rounded(x(days), 6) \in Int /\ Rounded(x(more), 6) \in Int
  BY <1>3, RoundedMonotone, RoundedIs
<1> QED
  BY <1>4 DEF PriorityScore, x, w, a

\* An age in days grows with the time.
LEMMA Ages ==
    ASSUME NEW n \in Int, NEW m \in Int, n <= m, NEW t \in Int
    PROVE  /\ (n - t) \div 24 \in Int /\ (m - t) \div 24 \in Int
           /\ (n - t) \div 24 <= (m - t) \div 24
           /\ n \div 24 \in Int /\ m \div 24 \in Int /\ n \div 24 <= m \div 24
OBVIOUS

\* AgeingNeverDemotes: an action that stays on the list while time passes keeps its
\* score or gains.
THEOREM WaitingMovesUp == ScreensSpec => AgeingNeverDemotes
<1>1. ASSUME ScreensTypeOK, ScreensTypeOK', [ScreensNext]_svars, now' > now
      PROVE  \A x \in AllActions, y \in AllActions' : x.source = y.source /\ x.id = y.id => y.score >= x.score
  <2> USE <1>1
  <2>1. now \in Int /\ now' \in Int
    <3>1. now \in Nat
      BY NowIs
    <3>2. now' \in 24 * Months[1] .. LastHour
      BY DEF ScreensTypeOK, WellFormed
    <3>3. Months[1] \in Nat /\ LastHour \in Nat
      BY ScreensAssumption
    <3> QED
      BY <3>1, <3>2, <3>3
  <2>2. UNCHANGED <<alerts, meetings, deals, clients, peers, visits>>
    <3>1. now' # now
      BY <2>1
    <3>2. PassTime
      BY <3>1 DEF ScreensNext, svars, CloseAlert, CompleteMeeting, SendProposal, CallClient, LogIn
    <3> QED
      BY <3>2 DEF PassTime
  <2> DEFINE Deal(n, d) == PriorityScore(deals[d].tier, (n - deals[d].updated) \div 24, deals[d].amount)
             Visit(n, m) == PriorityScore(meetings[m].tier, (24 * (n \div 24) - meetings[m].at) \div 24, 0)
             Cash(n, c) == PriorityScore(clients[c].tier, (n - clients[c].last) \div 24, clients[c].cash)
             Is(n, x) == \/ x.source = "pipeline" /\ x.id \in DOMAIN deals /\ x.score = Deal(n, x.id)
                         \/ x.source = "proposal" /\ x.id \in DOMAIN deals /\ x.score = Deal(n, x.id)
                         \/ x.source = "followup" /\ x.id \in DOMAIN meetings /\ x.score = Visit(n, x.id)
                         \/ x.source = "idle_cash" /\ x.id \in DOMAIN clients /\ x.score = Cash(n, x.id)
  <2>3. \A x \in AllActions : Is(now, x)
    <3>1. /\ PipelineAging \subseteq DOMAIN deals /\ PendingProposals \subseteq DOMAIN deals
          /\ FollowUps \subseteq DOMAIN meetings /\ IdleCashClients \subseteq DOMAIN clients
      BY DEF PipelineAging, PendingProposals, FollowUps, IdleCashClients, Best
    <3> QED
      BY <3>1 DEF AllActions, Scored, Age, DaysOverdue, Midnight, Day
  <2>4. \A x \in AllActions' : Is(now', x)
    <3>1. /\ PipelineAging' \subseteq DOMAIN deals /\ PendingProposals' \subseteq DOMAIN deals
          /\ FollowUps' \subseteq DOMAIN meetings /\ IdleCashClients' \subseteq DOMAIN clients
      BY <2>2 DEF PipelineAging, PendingProposals, FollowUps, IdleCashClients, Best
    <3> QED
      BY <2>2, <3>1 DEF AllActions, Scored, Age, DaysOverdue, Midnight, Day
  <2>5. TAKE x \in AllActions, y \in AllActions'
  <2>6. HAVE x.source = y.source /\ x.id = y.id
  <2>7. now <= now' /\ 24 * (now \div 24) <= 24 * (now' \div 24)
        /\ 24 * (now \div 24) \in Int /\ 24 * (now' \div 24) \in Int
    <3>1. now <= now'
      BY <2>1
    <3>2. (now \div 24) \in Int /\ (now' \div 24) \in Int /\ (now \div 24) <= (now' \div 24)
      BY <2>1, <3>1, Ages
    <3> QED
      BY <3>1, <3>2
  <2>8. ASSUME NEW d \in DOMAIN deals
        PROVE  Deal(now, d) <= Deal(now', d) /\ Deal(now, d) \in Int /\ Deal(now', d) \in Int
    <3>1. deals[d].updated \in Int /\ deals[d].amount \in Nat
      BY DocumentsAre
    <3> DEFINE days == (now - deals[d].updated) \div 24
               more == (now' - deals[d].updated) \div 24
    <3>2. days \in Int /\ more \in Int /\ days <= more
      BY <2>1, <2>7, <3>1, Ages
    <3> HIDE DEF days, more
    <3>3. /\ PriorityScore(deals[d].tier, days, deals[d].amount) <= PriorityScore(deals[d].tier, more, deals[d].amount)
          /\ PriorityScore(deals[d].tier, days, deals[d].amount) \in Int /\ PriorityScore(deals[d].tier, more, deals[d].amount) \in Int
      BY <3>1, <3>2, ScoreGrows
    <3> QED
      BY <3>3 DEF days, more
  <2>9. ASSUME NEW m \in DOMAIN meetings
        PROVE  Visit(now, m) <= Visit(now', m) /\ Visit(now, m) \in Int /\ Visit(now', m) \in Int
    <3>1. meetings[m].at \in Int /\ 0 \in Nat
      BY DocumentsAre
    <3> DEFINE from == 24 * (now \div 24)
               to == 24 * (now' \div 24)
               days == (from - meetings[m].at) \div 24
               more == (to - meetings[m].at) \div 24
    <3>2. from \in Int /\ to \in Int /\ from <= to
      BY <2>7
    <3> HIDE DEF from, to
    <3>3. days \in Int /\ more \in Int /\ days <= more
      BY <3>1, <3>2, Ages
    <3> HIDE DEF days, more
    <3>4. /\ PriorityScore(meetings[m].tier, days, 0) <= PriorityScore(meetings[m].tier, more, 0)
          /\ PriorityScore(meetings[m].tier, days, 0) \in Int /\ PriorityScore(meetings[m].tier, more, 0) \in Int
      BY <3>1, <3>3, ScoreGrows
    <3> QED
      BY <3>4 DEF days, more, from, to
  <2>10. ASSUME NEW c \in DOMAIN clients
         PROVE  Cash(now, c) <= Cash(now', c) /\ Cash(now, c) \in Int /\ Cash(now', c) \in Int
    <3>1. clients[c].last \in Int /\ clients[c].cash \in Nat
      BY DocumentsAre
    <3> DEFINE days == (now - clients[c].last) \div 24
               more == (now' - clients[c].last) \div 24
    <3>2. days \in Int /\ more \in Int /\ days <= more
      BY <2>1, <2>7, <3>1, Ages
    <3> HIDE DEF days, more
    <3>3. /\ PriorityScore(clients[c].tier, days, clients[c].cash) <= PriorityScore(clients[c].tier, more, clients[c].cash)
          /\ PriorityScore(clients[c].tier, days, clients[c].cash) \in Int /\ PriorityScore(clients[c].tier, more, clients[c].cash) \in Int
      BY <3>1, <3>2, ScoreGrows
    <3> QED
      BY <3>3 DEF days, more
  <2>11. Is(now, x) /\ Is(now', y)
    BY <2>3, <2>4
  <2> HIDE DEF Deal, Visit, Cash
  <2>12. \/ x.id \in DOMAIN deals /\ x.score = Deal(now, x.id) /\ y.score = Deal(now', x.id)
         \/ x.id \in DOMAIN meetings /\ x.score = Visit(now, x.id) /\ y.score = Visit(now', x.id)
         \/ x.id \in DOMAIN clients /\ x.score = Cash(now, x.id) /\ y.score = Cash(now', x.id)
    BY <2>6, <2>11
  <2>13. x.score <= y.score /\ x.score \in Int /\ y.score \in Int
    BY <2>8, <2>9, <2>10, <2>12
  <2> QED
    BY <2>13
<1>2. ScreensTypeOK /\ ScreensTypeOK' /\ [ScreensNext]_svars
      => [now' > now => \A x \in AllActions, y \in AllActions' :
             x.source = y.source /\ x.id = y.id => y.score >= x.score]_svars
  BY <1>1
<1> QED
  BY <1>2, TypeInvariant, PTL DEF AgeingNeverDemotes, ScreensSpec

-----------------------------------------------------------------------------
(* The briefing *)

\* A finite set of documents makes a finite set of items.
LEMMA FiniteImage ==
    ASSUME NEW S, IsFiniteSet(S), NEW f, DOMAIN f = S
    PROVE  IsFiniteSet({f[x] : x \in S})
<1> DEFINE g == [x \in S |-> f[x]]
           T == {f[x] : x \in S}
<1>1. g \in [S -> T] /\ \A y \in T : \E x \in S : g[x] = y
  OBVIOUS
<1> HIDE DEF g, T
<1>2. g \in Surjection(S, T)
  BY <1>1 DEF Surjection
<1>3. IsFiniteSet(T)
  BY <1>2, FS_Surjection
<1> QED
  BY <1>3 DEF T

\* The scores an item can have: 36 for a critical alert, and more for meetings that are
\* near, with clients of the best tiers, only.
LEMMA AlertScores ==
    ASSUME ScreensTypeOK, NEW a \in DOMAIN alerts
    PROVE  LET score == Rounded(AlertUrgency(a) * Importance("none"), 100)
           IN score \in Int /\ score <= 36 /\ (score = 36 <=> alerts[a].severity = "critical")
<1>1. Importance("none") = 36
  BY DEF Importance
<1>2. \/ AlertUrgency(a) = 100 /\ alerts[a].severity = "critical"
      \/ AlertUrgency(a) \in {30, 50, 80} /\ alerts[a].severity # "critical"
  BY DEF AlertUrgency
<1>3. Rounded(3600, 100) = 36 /\ Rounded(30 * 36, 100) = 11 /\ Rounded(50 * 36, 100) = 18 /\ Rounded(80 * 36, 100) = 29
  BY DEF Rounded
<1>4. 100 * 36 = 3600
  OBVIOUS
<1> QED
  BY <1>1, <1>2, <1>3, <1>4

\* A meeting outdoes a critical alert only if it is near and its client of a high tier.
LEMMA MeetingScores ==
    ASSUME ScreensTypeOK, NEW m \in DOMAIN meetings
    PROVE  LET score == Rounded(MeetingUrgency(m) * Importance(meetings[m].tier), 100)
           IN /\ score \in Int
              /\ score > 36 => HoursUntil(m) <= 4 /\ meetings[m].tier \in {"DIAMOND", "PLATINUM", "GOLD"}
<1> DEFINE tier == meetings[m].tier
           Top == {"DIAMOND", "PLATINUM", "GOLD"}
<1>1. \/ Importance(tier) = 60 /\ tier \in Top
      \/ Importance(tier) = 51 /\ tier \in Top
      \/ Importance(tier) = 42 /\ tier \in Top
      \/ Importance(tier) = 30
      \/ Importance(tier) = 36
  BY DEF Importance
<1>2. \/ MeetingUrgency(m) = 90 /\ HoursUntil(m) <= 2
      \/ MeetingUrgency(m) = 70 /\ HoursUntil(m) <= 4
      \/ MeetingUrgency(m) = 50
  BY DEF MeetingUrgency
<1>3. HoursUntil(m) <= 2 => HoursUntil(m) <= 4
  <2>1. \A h \in Int : h <= 2 => h <= 4
    OBVIOUS
  <2>2. CASE HoursUntil(m) = 0
    BY <2>2
  <2>3. CASE HoursUntil(m) = meetings[m].at - now
    <3>1. meetings[m].at \in Int /\ now \in Int
      BY DocumentsAre, NowIs
    <3> QED
      BY <2>3, <3>1
  <2> QED
    BY <2>2, <2>3 DEF HoursUntil
<1>4. /\ Rounded(90 * 60, 100) = 54 /\ Rounded(90 * 51, 100) = 46 /\ Rounded(90 * 42, 100) = 38
      /\ Rounded(90 * 30, 100) = 27 /\ Rounded(90 * 36, 100) = 32
      /\ Rounded(70 * 60, 100) = 42 /\ Rounded(70 * 51, 100) = 36 /\ Rounded(70 * 42, 100) = 29
      /\ Rounded(70 * 30, 100) = 21 /\ Rounded(70 * 36, 100) = 25
      /\ Rounded(50 * 60, 100) = 30 /\ Rounded(50 * 51, 100) = 26 /\ Rounded(50 * 42, 100) = 21
      /\ Rounded(50 * 30, 100) = 15 /\ Rounded(50 * 36, 100) = 18
  BY DEF Rounded
<1> HIDE DEF tier, Top
<1> DEFINE s == Rounded(MeetingUrgency(m) * Importance(tier), 100)
<1>5. CASE MeetingUrgency(m) = 90 /\ HoursUntil(m) <= 4
  <2>1. s \in {54, 46, 38, 27, 32} /\ (s > 36 => tier \in Top)
    BY <1>1, <1>4, <1>5
  <2> QED
    BY <1>5, <2>1 DEF tier, Top
<1>6. CASE MeetingUrgency(m) = 70 /\ HoursUntil(m) <= 4
  <2>1. s \in {42, 36, 29, 21, 25} /\ (s > 36 => tier \in Top)
    BY <1>1, <1>4, <1>6
  <2> QED
    BY <1>6, <2>1 DEF tier, Top
<1>7. CASE MeetingUrgency(m) = 50
  <2>1. s \in {30, 26, 21, 15, 18}
    BY <1>1, <1>4, <1>7
  <2>2. s \in Int /\ ~(s > 36)
    BY <2>1
  <2> QED
    BY <2>2 DEF tier, Top
<1> QED
  BY <1>2, <1>3, <1>5, <1>6, <1>7

\* What tasks and losers score.
LEMMA OtherScores ==
    /\ \A c : Rounded(TaskUrgency(c) * Importance("none"), 100) \in {36, 22}
    /\ Rounded(50 * Importance("none"), 100) = 18
<1>1. Importance("none") = 36 /\ \A c : TaskUrgency(c) \in {100, 60}
  BY DEF Importance, TaskUrgency
<1>2. Rounded(100 * 36, 100) = 36 /\ Rounded(60 * 36, 100) = 22 /\ Rounded(50 * 36, 100) = 18
  BY DEF Rounded
<1> QED
  BY <1>1, <1>2

\* The items: their type and id say the rest.
LEMMA ItemsAre ==
    ASSUME ScreensTypeOK
    PROVE  /\ IsFiniteSet(BriefingItems)
           /\ \A x \in BriefingItems :
                 /\ x.id \in Nat /\ x.score \in Int
                 /\ \/ /\ x.type = "ALERT" /\ x.id \in DOMAIN alerts
                       /\ x.score = Rounded(AlertUrgency(x.id) * Importance("none"), 100)
                    \/ /\ x.type = "MEETING" /\ x.id \in DOMAIN meetings
                       /\ x.score = Rounded(MeetingUrgency(x.id) * Importance(meetings[x.id].tier), 100)
                    \/ x.type = "TASK" /\ x.score = Rounded(TaskUrgency(x.id) * Importance("none"), 100)
                    \/ x.type = "PORTFOLIO_ALERT" /\ x.score = 18
           /\ \A x, y \in BriefingItems : x.type = y.type /\ x.id = y.id => x = y
<1> DEFINE A == [a \in BriefingAlerts |-> Item("ALERT", a, AlertUrgency(a), "none")]
           M == [m \in MeetingsToday |-> Item("MEETING", m, MeetingUrgency(m), meetings[m].tier)]
           T == [c \in PendingTasks |-> Item("TASK", c, TaskUrgency(c), "none")]
           L == [c \in TopLosers |-> Item("PORTFOLIO_ALERT", c, 50, "none")]
<1>1. BriefingItems = {A[x] : x \in BriefingAlerts} \cup {M[x] : x \in MeetingsToday}
                      \cup {T[x] : x \in PendingTasks} \cup {L[x] : x \in TopLosers}
  BY DEF BriefingItems
<1>2. /\ BriefingAlerts \subseteq DOMAIN alerts /\ MeetingsToday \subseteq DOMAIN meetings
      /\ PendingTasks \subseteq DOMAIN clients /\ TopLosers \subseteq DOMAIN clients
  BY DEF BriefingAlerts, MeetingsToday, PendingTasks, TopLosers, With, Best
<1>3. IsFiniteSet(DOMAIN alerts) /\ IsFiniteSet(DOMAIN meetings) /\ IsFiniteSet(DOMAIN clients)
      /\ DOMAIN alerts \subseteq Nat /\ DOMAIN meetings \subseteq Nat /\ DOMAIN clients \subseteq Nat
  BY AlertIs, DocumentsAre
<1>4. /\ IsFiniteSet(BriefingAlerts) /\ IsFiniteSet(MeetingsToday)
      /\ IsFiniteSet(PendingTasks) /\ IsFiniteSet(TopLosers)
  BY <1>2, <1>3, FS_Subset
<1>5. /\ \A x \in BriefingAlerts : A[x] = Item("ALERT", x, AlertUrgency(x), "none")
      /\ \A x \in MeetingsToday : M[x] = Item("MEETING", x, MeetingUrgency(x), meetings[x].tier)
      /\ \A x \in PendingTasks : T[x] = Item("TASK", x, TaskUrgency(x), "none")
      /\ \A x \in TopLosers : L[x] = Item("PORTFOLIO_ALERT", x, 50, "none")
      /\ DOMAIN A = BriefingAlerts /\ DOMAIN M = MeetingsToday /\ DOMAIN T = PendingTasks /\ DOMAIN L = TopLosers
  OBVIOUS
<1> HIDE DEF A, M, T, L
<1>6. IsFiniteSet(BriefingItems)
  <2>1. IsFiniteSet({A[x] : x \in BriefingAlerts}) /\ IsFiniteSet({M[x] : x \in MeetingsToday})
    BY <1>4, <1>5, FiniteImage
  <2>2. IsFiniteSet({T[x] : x \in PendingTasks}) /\ IsFiniteSet({L[x] : x \in TopLosers})
    BY <1>4, <1>5, FiniteImage
  <2> DEFINE a == {A[x] : x \in BriefingAlerts}
             m == {M[x] : x \in MeetingsToday}
             t == {T[x] : x \in PendingTasks}
             l == {L[x] : x \in TopLosers}
  <2>3. BriefingItems = ((a \cup m) \cup t) \cup l
    BY <1>1
  <2> HIDE DEF a, m, t, l
  <2>4. IsFiniteSet(a \cup m)
    BY <2>1, FS_Union DEF a, m
  <2>5. IsFiniteSet((a \cup m) \cup t)
    BY <2>2, <2>4, FS_Union DEF t
  <2>6. IsFiniteSet(((a \cup m) \cup t) \cup l)
    BY <2>2, <2>5, FS_Union DEF l
  <2> QED
    BY <2>3, <2>6
<1>7. ASSUME NEW x \in BriefingItems
      PROVE  \/ x.id \in BriefingAlerts /\ x = A[x.id]
             \/ x.id \in MeetingsToday /\ x = M[x.id]
             \/ x.id \in PendingTasks /\ x = T[x.id]
             \/ x.id \in TopLosers /\ x = L[x.id]
  <2>1. CASE \E a \in BriefingAlerts : x = A[a]
    BY <1>5, <2>1 DEF Item
  <2>2. CASE \E a \in MeetingsToday : x = M[a]
    BY <1>5, <2>2 DEF Item
  <2>3. CASE \E a \in PendingTasks : x = T[a]
    BY <1>5, <2>3 DEF Item
  <2>4. CASE \E a \in TopLosers : x = L[a]
    BY <1>5, <2>4 DEF Item
  <2> QED
    BY <1>1, <2>1, <2>2, <2>3, <2>4
<1>8. ASSUME NEW x \in BriefingItems
      PROVE  /\ x.id \in Nat /\ x.score \in Int
             /\ \/ /\ x.type = "ALERT" /\ x.id \in DOMAIN alerts /\ x = A[x.id]
                   /\ x.score = Rounded(AlertUrgency(x.id) * Importance("none"), 100)
                \/ /\ x.type = "MEETING" /\ x.id \in DOMAIN meetings /\ x = M[x.id]
                   /\ x.score = Rounded(MeetingUrgency(x.id) * Importance(meetings[x.id].tier), 100)
                \/ /\ x.type = "TASK" /\ x = T[x.id]
                   /\ x.score = Rounded(TaskUrgency(x.id) * Importance("none"), 100)
                \/ x.type = "PORTFOLIO_ALERT" /\ x = L[x.id] /\ x.score = 18
  <2>1. CASE x.id \in BriefingAlerts /\ x = A[x.id]
    <3>1. x.type = "ALERT" /\ x.score = Rounded(AlertUrgency(x.id) * Importance("none"), 100)
      BY <1>5, <2>1 DEF Item
    <3> QED
      BY <1>2, <1>3, <2>1, <3>1, AlertScores
  <2>2. CASE x.id \in MeetingsToday /\ x = M[x.id]
    <3>1. x.type = "MEETING" /\ x.score = Rounded(MeetingUrgency(x.id) * Importance(meetings[x.id].tier), 100)
      BY <1>5, <2>2 DEF Item
    <3> QED
      BY <1>2, <1>3, <2>2, <3>1, MeetingScores
  <2>3. CASE x.id \in PendingTasks /\ x = T[x.id]
    <3>1. x.type = "TASK" /\ x.score = Rounded(TaskUrgency(x.id) * Importance("none"), 100)
      BY <1>5, <2>3 DEF Item
    <3>2. x.score \in {36, 22}
      BY <3>1, OtherScores
    <3>3. x.score \in Int
      BY <3>2
    <3> QED
      BY <1>2, <1>3, <2>3, <3>1, <3>3
  <2>4. CASE x.id \in TopLosers /\ x = L[x.id]
    <3>1. x.type = "PORTFOLIO_ALERT" /\ x.score = 18
      BY <1>5, <2>4, OtherScores DEF Item
    <3> QED
      BY <1>2, <1>3, <2>4, <3>1
  <2> QED
    BY <1>7, <2>1, <2>2, <2>3, <2>4
<1>9. \A x, y \in BriefingItems : x.type = y.type /\ x.id = y.id => x = y
  BY <1>8
<1> QED
  BY <1>6, <1>8, <1>9

\* The order of the briefing is total on its items.
LEMMA ItemsOrdered ==
    ASSUME ScreensTypeOK
    PROVE  Ordered({p \in BriefingItems \X BriefingItems : Before(p[1], p[2])}, BriefingItems)
<1> DEFINE R == {p \in BriefingItems \X BriefingItems : Before(p[1], p[2])}
           Typ == {"ALERT", "MEETING", "TASK", "PORTFOLIO_ALERT"}
<1>1. \A x, y \in BriefingItems : <<x, y>> \in R <=> Before(x, y)
  OBVIOUS
<1>2. \A x \in BriefingItems : x.id \in Nat /\ x.score \in Int /\ x.type \in Typ
  BY ItemsAre
<1>3. \A x \in BriefingItems : x.type = "ALERT" => x.id \in DOMAIN alerts /\ alerts[x.id].at \in Int
  BY ItemsAre, AlertIs
<1>4. /\ \A x \in BriefingItems : TypeOrder(x) \in Int
      /\ \A x, y \in BriefingItems : TypeOrder(x) = TypeOrder(y) <=> x.type = y.type
  BY <1>2 DEF TypeOrder
<1>5. \A x, y \in BriefingItems : x.type = y.type /\ x.id = y.id => x = y
  BY ItemsAre
<1> DEFINE Same(x, y) == IF x.type = "ALERT" THEN Newer(x.id, y.id) ELSE x.id < y.id
<1>6. ASSUME NEW x \in BriefingItems, NEW y \in BriefingItems
      PROVE  Before(x, y) <=> \/ x.score > y.score
                              \/ x.score = y.score /\ TypeOrder(x) < TypeOrder(y)
                              \/ x.score = y.score /\ x.type = y.type /\ Same(x, y)
  BY DEF Before
<1>7. \A x \in BriefingItems : ~Same(x, x)
  BY <1>2, <1>3 DEF Newer
<1>8. \A x, y \in BriefingItems : x.type = y.type /\ x # y => Same(x, y) \/ Same(y, x)
  <2>1. TAKE x, y \in BriefingItems
  <2>2. HAVE x.type = y.type /\ x # y
  <2>3. x.id # y.id
    BY <1>5, <2>2
  <2>4. CASE x.type = "ALERT"
    <3>1. x.id \in Nat /\ y.id \in Nat /\ alerts[x.id].at \in Int /\ alerts[y.id].at \in Int
      BY <1>2, <1>3, <2>2, <2>4
    <3>2. Newer(x.id, y.id) \/ Newer(y.id, x.id)
      BY <2>3, <3>1 DEF Newer
    <3> QED
      BY <2>2, <2>4, <3>2
  <2>5. CASE x.type # "ALERT"
    BY <1>2, <2>2, <2>3, <2>5
  <2> QED
    BY <2>4, <2>5
<1>9. \A x, y, z \in BriefingItems : x.type = y.type /\ y.type = z.type /\ Same(x, y) /\ Same(y, z) => Same(x, z)
  <2>1. TAKE x, y, z \in BriefingItems
  <2>2. HAVE x.type = y.type /\ y.type = z.type /\ Same(x, y) /\ Same(y, z)
  <2>3. CASE x.type = "ALERT"
    BY <1>2, <1>3, <2>2, <2>3 DEF Newer
  <2>4. CASE x.type # "ALERT"
    BY <1>2, <2>2, <2>4
  <2> QED
    BY <2>3, <2>4
<1> HIDE DEF R, Same, Typ
<1>10. \A x \in BriefingItems : ~Before(x, x)
  BY <1>2, <1>4, <1>6, <1>7
<1>11. \A x, y \in BriefingItems : x # y => Before(x, y) \/ Before(y, x)
  BY <1>2, <1>4, <1>6, <1>8
<1>12. \A x, y, z \in BriefingItems : Before(x, y) /\ Before(y, z) => Before(x, z)
  BY <1>2, <1>4, <1>6, <1>9
<1>13. Ordered(R, BriefingItems)
  BY <1>1, <1>10, <1>11, <1>12 DEF Ordered
<1> QED
  BY <1>13 DEF R

\* BriefingKeepsCritical: a critical alert that is not among the top priorities gives way
\* to other critical alerts and to near meetings with clients of the best tiers only.
THEOREM CriticalComesFirst == ScreensSpec => []BriefingKeepsCritical
<1>1. ASSUME ScreensTypeOK
      PROVE  BriefingKeepsCritical
  <2> USE <1>1
  <2> DEFINE S == BriefingItems
             n == TopLimit
             R == {p \in S \X S : Before(p[1], p[2])}
  <2>1. \A x, y \in S : <<x, y>> \in R <=> Before(x, y)
    OBVIOUS
  <2>2. TopPriorities = First(S, n, R)
    <3>1. \A x \in S : {y \in S : Before(y, x)} = {y \in S : <<y, x>> \in R}
      BY <2>1
    <3> HIDE DEF S, R
    <3> QED
      BY <3>1 DEF TopPriorities, Best, First, S
  <2>3. Ordered(R, S) /\ IsFiniteSet(S) /\ n \in Nat
    BY ItemsOrdered, ItemsAre, ScreensAssumption
  <2> HIDE DEF R, n
  <2>4. First(S, n, R) \subseteq S /\ \A x \in S \ First(S, n, R) : \A y \in First(S, n, R) : <<y, x>> \in R
    BY <2>3, FirstIs
  <2>5. SUFFICES ASSUME NEW x \in BriefingItems \ TopPriorities,
                        x.type = "ALERT", alerts[x.id].severity = "critical",
                        NEW y \in TopPriorities
                 PROVE  \/ y.type = "ALERT" /\ alerts[y.id].severity = "critical"
                        \/ /\ y.type = "MEETING" /\ HoursUntil(y.id) <= 4
                           /\ meetings[y.id].tier \in {"DIAMOND", "PLATINUM", "GOLD"}
    BY DEF BriefingKeepsCritical
  <2>6. Before(y, x) /\ y \in S
    BY <2>1, <2>2, <2>4
  <2>7. x.score = 36
    <3>1. x.id \in DOMAIN alerts /\ x.score = Rounded(AlertUrgency(x.id) * Importance("none"), 100)
      BY <2>5, ItemsAre
    <3> QED
      BY <2>5, <3>1, AlertScores
  <2>8. y.score \in Int /\ (y.score > 36 \/ (y.score = 36 /\ y.type = "ALERT"))
    <3>1. y.score \in Int
      BY <2>6, ItemsAre
    <3>2. ~(TypeOrder(y) < TypeOrder(x))
      BY <2>5 DEF TypeOrder
    <3> QED
      BY <2>5, <2>6, <2>7, <3>1, <3>2 DEF Before
  <2>9. CASE y.type = "ALERT"
    <3>1. y.id \in DOMAIN alerts /\ y.score = Rounded(AlertUrgency(y.id) * Importance("none"), 100)
      BY <2>6, <2>9, ItemsAre
    <3>2. y.score <= 36 /\ (y.score = 36 => alerts[y.id].severity = "critical")
      BY <3>1, AlertScores
    <3> QED
      BY <2>8, <2>9, <3>2
  <2>10. CASE y.type = "MEETING"
    <3>1. y.id \in DOMAIN meetings /\ y.score = Rounded(MeetingUrgency(y.id) * Importance(meetings[y.id].tier), 100)
      BY <2>6, <2>10, ItemsAre
    <3>2. y.score > 36
      BY <2>8, <2>10
    <3> QED
      BY <2>10, <3>1, <3>2, MeetingScores
  <2>11. CASE y.type = "TASK"
    <3>1. y.score \in {36, 22}
      BY <2>6, <2>11, ItemsAre, OtherScores
    <3> QED
      BY <2>8, <2>11, <3>1
  <2>12. CASE y.type = "PORTFOLIO_ALERT"
    <3>1. y.score = 18
      BY <2>6, <2>12, ItemsAre
    <3> QED
      BY <2>8, <2>12, <3>1
  <2> QED
    BY <2>6, <2>9, <2>10, <2>11, <2>12, ItemsAre
<1> QED
  BY <1>1, TypeInvariant, PTL

-----------------------------------------------------------------------------
(* The standing among the peers *)

\* The figures of the peers, the asking RM among them.
LEMMA PeersAre ==
    ASSUME ScreensTypeOK
    PROVE  /\ IsFiniteSet(DOMAIN peers) /\ DOMAIN peers \subseteq Nat /\ 1 \in DOMAIN peers
           /\ peers \in [DOMAIN peers -> [Metrics -> Int]] /\ Cardinality(DOMAIN peers) \in Nat \ {0}
           /\ \A p \in DOMAIN peers, k \in Metrics : peers[p][k] \in Int
<1>1. Collection(peers, [Metrics -> Int]) /\ 1 \in DOMAIN peers
  BY TypesAre
<1>2. Cardinality(DOMAIN peers) # 0 /\ Cardinality(DOMAIN peers) \in Nat
  BY <1>1, FS_EmptySet, FS_CardinalityType DEF Collection
<1> QED
  BY <1>1, <1>2 DEF Collection

\* How many of the figures in metric k are under v, and how many are v at most.
Under(v, k) == Cardinality({p \in DOMAIN peers : peers[p][k] < v})
UpTo(v, k)  == Cardinality({p \in DOMAIN peers : peers[p][k] <= v})

\* Any set of peers is counted by a number.
LEMMA Counts ==
    ASSUME ScreensTypeOK, NEW S \in SUBSET DOMAIN peers
    PROVE  IsFiniteSet(S) /\ Cardinality(S) \in Nat /\ Cardinality(S) <= Cardinality(DOMAIN peers)
BY PeersAre, FS_Subset, FS_CardinalityType

\* The first n of the peers from below.
LEMMA LowestIs ==
    ASSUME ScreensTypeOK, NEW k \in Metrics, NEW i \in Nat
    PROVE  LET B == Lowest(i, k)
           IN /\ B \subseteq DOMAIN peers /\ Cardinality(B) = AtMost(i, Cardinality(DOMAIN peers))
              /\ \A x \in DOMAIN peers \ B : \A y \in B : peers[y][k] <= peers[x][k]
<1> DEFINE S == DOMAIN peers
           R == {p \in S \X S : Lower(k, p[1], p[2])}
<1>1. \A x, y \in S : <<x, y>> \in R <=> Lower(k, x, y)
  OBVIOUS
<1>2. IsFiniteSet(S) /\ \A x \in S : peers[x][k] \in Int /\ x \in Nat
  BY PeersAre
<1>3. Lowest(i, k) = First(S, i, R)
  <2>1. \A x \in S : {y \in S : Lower(k, y, x)} = {y \in S : <<y, x>> \in R}
    BY <1>1
  <2>2. Lowest(i, k) = {x \in S : Cardinality({y \in S : Lower(k, y, x)}) < i}
    BY DEF Lowest, Best
  <2> HIDE DEF S, R
  <2> QED
    BY <2>1, <2>2 DEF First
<1> HIDE DEF S, R
<1>4. Ordered(R, S)
  <2>1. \A x \in S : ~Lower(k, x, x)
    BY <1>2 DEF Lower
  <2>2. \A x, y \in S : x # y => Lower(k, x, y) \/ Lower(k, y, x)
    BY <1>2 DEF Lower
  <2>3. \A x, y, z \in S : Lower(k, x, y) /\ Lower(k, y, z) => Lower(k, x, z)
    BY <1>2 DEF Lower
  <2> QED
    BY <1>1, <2>1, <2>2, <2>3 DEF Ordered
<1>5. /\ First(S, i, R) \subseteq S
      /\ Cardinality(First(S, i, R)) = AtMost(i, Cardinality(S))
      /\ \A x \in S \ First(S, i, R) : \A y \in First(S, i, R) : <<y, x>> \in R
  BY <1>2, <1>4, FirstIs
<1>6. \A x, y \in S : <<y, x>> \in R => peers[y][k] <= peers[x][k]
  BY <1>1, <1>2 DEF Lower
<1>7. \A x \in S \ First(S, i, R) : \A y \in First(S, i, R) : peers[y][k] <= peers[x][k]
  BY <1>5, <1>6
<1> QED
  BY <1>3, <1>5, <1>7 DEF S

\* Fewer than i figures are under the one in the i-th place, and at least i are not over it.
LEMMA PlaceIs ==
    ASSUME ScreensTypeOK, NEW k \in Metrics, NEW i \in Nat, 1 <= i, i <= Cardinality(DOMAIN peers)
    PROVE  /\ Place(i, k) \in DOMAIN peers
           /\ Under(peers[Place(i, k)][k], k) < i /\ i <= UpTo(peers[Place(i, k)][k], k)
<1> DEFINE S == DOMAIN peers
           A == Lowest(i - 1, k)
           B == Lowest(i, k)
           p == Place(i, k)
           v == peers[p][k]
<1>1. i - 1 \in Nat /\ Cardinality(S) \in Nat
  BY PeersAre
<1>2. /\ A \subseteq S /\ Cardinality(A) = i - 1
      /\ \A x \in S \ A : \A y \in A : peers[y][k] <= peers[x][k]
  <2>1. AtMost(i - 1, Cardinality(S)) = i - 1
    BY <1>1 DEF AtMost
  <2> QED
    BY <1>1, <2>1, LowestIs
<1>3. /\ B \subseteq S /\ Cardinality(B) = i
      /\ \A x \in S \ B : \A y \in B : peers[y][k] <= peers[x][k]
  <2>1. AtMost(i, Cardinality(S)) = i
    BY <1>1 DEF AtMost
  <2> QED
    BY <1>1, <2>1, LowestIs
<1>4. A \subseteq B
  <2>1. \A x \in S : Cardinality({y \in S : Lower(k, y, x)}) \in Nat
    BY Counts
  <2> QED
    BY <2>1 DEF Lowest, Best
<1>5. p \in B /\ p \notin A
  <2>1. \E x \in B : x \notin A
    <3> HIDE DEF A, B
    <3>1. SUFFICES ASSUME A = B
                   PROVE  FALSE
      BY <1>4
    <3>2. i - 1 = i
      BY <1>2, <1>3, <3>1
    <3> QED
      BY <3>2
  <2>2. p = CHOOSE x \in B : x \notin A
    BY DEF Place
  <2> HIDE DEF A, B, p
  <2> QED
    BY <2>1, <2>2
<1>6. IsFiniteSet(A) /\ IsFiniteSet(B) /\ IsFiniteSet(A \cup {p}) /\ Cardinality(A \cup {p}) = i
  <2>1. IsFiniteSet(A) /\ IsFiniteSet(B)
    BY <1>2, <1>3, Counts
  <2> HIDE DEF A, B, p
  <2>2. IsFiniteSet(A \cup {p}) /\ Cardinality(A \cup {p}) = Cardinality(A) + 1
    BY <1>5, <2>1, FS_AddElement
  <2>3. Cardinality(A \cup {p}) = i
    BY <1>1, <1>2, <2>2
  <2> QED
    BY <2>1, <2>2, <2>3
<1>7. A \cup {p} = B
  <2> HIDE DEF A, B, p
  <2>1. A \cup {p} \in SUBSET B
    BY <1>4, <1>5
  <2> QED
    BY <1>3, <1>6, <2>1, FS_Subset
<1> HIDE DEF A, B, p
<1>8. p \in S /\ v \in Int /\ \A x \in S : peers[x][k] \in Int
  BY <1>3, <1>5, PeersAre
<1>9. \A x \in S : x \notin A => v <= peers[x][k]
  <2>1. \A x \in S : x \notin B => v <= peers[x][k]
    BY <1>3, <1>5
  <2> QED
    BY <1>7, <1>8, <2>1
<1>10. \A x \in A : peers[x][k] <= v
  BY <1>2, <1>5, <1>8
<1>11. Under(v, k) <= Cardinality(A)
  <2>1. {x \in S : peers[x][k] < v} \in SUBSET A
    BY <1>8, <1>9
  <2> QED
    BY <1>6, <2>1, FS_Subset DEF Under
<1>12. Cardinality(A \cup {p}) <= UpTo(v, k)
  <2>1. A \cup {p} \in SUBSET {x \in S : peers[x][k] <= v}
    BY <1>2, <1>8, <1>10
  <2>2. IsFiniteSet({x \in S : peers[x][k] <= v})
    BY Counts
  <2> QED
    BY <2>1, <2>2, FS_Subset DEF UpTo
<1>13. Under(v, k) \in Nat /\ UpTo(v, k) \in Nat
  BY Counts DEF Under, UpTo
<1> HIDE DEF v
<1>14. Under(v, k) < i /\ i <= UpTo(v, k)
  BY <1>1, <1>2, <1>6, <1>11, <1>12, <1>13
<1> QED
  BY <1>8, <1>14 DEF v, p

\* A figure over another has it, and all that are not over it, below.
LEMMA CountsGrow ==
    ASSUME ScreensTypeOK, NEW k \in Metrics, NEW v \in Int, NEW w \in Int, v < w
    PROVE  UpTo(v, k) <= Under(w, k) /\ Under(v, k) <= UpTo(v, k) /\ Under(v, k) \in Nat /\ UpTo(v, k) \in Nat /\ Under(w, k) \in Nat
<1> DEFINE A == {p \in DOMAIN peers : peers[p][k] < v}
           B == {p \in DOMAIN peers : peers[p][k] <= v}
           C == {p \in DOMAIN peers : peers[p][k] < w}
<1>1. A \in SUBSET B /\ B \in SUBSET C
  BY PeersAre
<1>2. /\ IsFiniteSet(A) /\ IsFiniteSet(B) /\ IsFiniteSet(C)
      /\ Cardinality(A) \in Nat /\ Cardinality(B) \in Nat /\ Cardinality(C) \in Nat
  BY Counts
<1> HIDE DEF A, B, C
<1>3. Cardinality(A) <= Cardinality(B) /\ Cardinality(B) <= Cardinality(C)
  BY <1>1, <1>2, FS_Subset
<1> QED
  BY <1>2, <1>3 DEF A, B, C, Under, UpTo

\* Who bears a figure is not below it.
LEMMA OneIsNotBelow ==
    ASSUME ScreensTypeOK, NEW k \in Metrics, NEW r \in DOMAIN peers
    PROVE  /\ PeersBelow(r, k) = Under(peers[r][k], k) /\ Under(peers[r][k], k) \in Nat
           /\ Under(peers[r][k], k) + 1 <= UpTo(peers[r][k], k)
           /\ Under(peers[r][k], k) <= Cardinality(DOMAIN peers) - 1
<1> DEFINE v == peers[r][k]
           A == {p \in DOMAIN peers : peers[p][k] < v}
           B == {p \in DOMAIN peers : peers[p][k] <= v}
<1>1. v \in Int /\ \A p \in DOMAIN peers : peers[p][k] \in Int
  BY PeersAre
<1>2. A \cup {r} \in SUBSET B /\ r \notin A /\ B \in SUBSET DOMAIN peers
  BY <1>1
<1>3. /\ IsFiniteSet(A) /\ IsFiniteSet(B) /\ Cardinality(A) \in Nat /\ Cardinality(B) \in Nat
      /\ Cardinality(B) <= Cardinality(DOMAIN peers) /\ Cardinality(DOMAIN peers) \in Nat
  BY Counts, PeersAre
<1>4. PeersBelow(r, k) = Cardinality(A) /\ Under(v, k) = Cardinality(A) /\ UpTo(v, k) = Cardinality(B)
  BY DEF PeersBelow, Under, UpTo
<1> HIDE DEF A, B, v
<1>5. Cardinality(A \cup {r}) = Cardinality(A) + 1
  BY <1>2, <1>3, FS_AddElement
<1>6. Cardinality(A \cup {r}) <= Cardinality(B)
  BY <1>2, <1>3, FS_Subset
<1> QED
  BY <1>3, <1>4, <1>5, <1>6 DEF v

\* The percentile is the share of the peers below, to half a tenth of a percent.
LEMMA PercentileIs ==
    ASSUME ScreensTypeOK, NEW k \in Metrics
    PROVE  LET m == Cardinality(DOMAIN peers) - 1
               b == Under(peers[1][k], k)
               P == Percentile(k)
           IN /\ P \in 0 .. 1000
              /\ m = 0 => P = 500
              /\ m > 0 => /\ m * P \in Int
                          /\ 2 * (m * P) <= 2000 * b + m
                          /\ 2000 * b + m < 2 * (m * P) + 2 * m
                          /\ 500 * m <= 1000 * b => 500 <= P
                          /\ 500 <= P => 999 * m <= 2000 * b
<1> DEFINE n == Cardinality(DOMAIN peers)
           m == n - 1
           b == Under(peers[1][k], k)
           P == Percentile(k)
<1>1. n \in Nat \ {0} /\ b \in Nat /\ b <= m /\ m \in Nat
  BY PeersAre, OneIsNotBelow
<1>2. P = IF n > 1 THEN Rounded(1000 * b, m) ELSE 500
  <2>1. PeersBelow(1, k) = b
    BY PeersAre, OneIsNotBelow
  <2> HIDE DEF b
  <2> QED
    BY <2>1 DEF Percentile
<1> HIDE DEF n, b, P
<1>3. CASE n = 1
  <2>1. P = 500 /\ m = 0
    BY <1>2, <1>3
  <2>2. 500 \in 0 .. 1000
    OBVIOUS
  <2> QED
    BY <2>1, <2>2 DEF n, b, P
<1>4. CASE n > 1
  <2>1. m \in Nat /\ m > 0 /\ 1000 * b \in Int /\ P = Rounded(1000 * b, m)
    BY <1>1, <1>2, <1>4
  <2> HIDE DEF m
  <2> DEFINE x == 1000 * b
  <2> HIDE DEF x
  <2>2. /\ P \in Int /\ (2 * m) * P <= 2 * x + m /\ 2 * x + m < (2 * m) * (P + 1)
        /\ 500 * m <= x => 500 <= P
        /\ 0 * m <= x => 0 <= P
        /\ x <= 1000 * m => P <= 1000
    <3>1. x \in Int /\ P = Rounded(x, m)
      BY <2>1 DEF x
    <3>2. P \in Int /\ (2 * m) * P <= 2 * x + m /\ 2 * x + m < (2 * m) * (P + 1)
      BY <2>1, <3>1, RoundedIs
    <3>3. 500 \in Int /\ 0 \in Int /\ 1000 \in Int
      OBVIOUS
    <3>4. 500 * m <= x => 500 <= P
      BY <2>1, <3>1, <3>3, RoundedBetween
    <3>5. 0 * m <= x => 0 <= P
      BY <2>1, <3>1, <3>3, RoundedBetween
    <3>6. x <= 1000 * m => P <= 1000
      BY <2>1, <3>1, <3>3, RoundedBetween
    <3> QED
      BY <3>2, <3>4, <3>5, <3>6
  <2>3. 0 * m = 0 /\ 0 <= x /\ x <= 1000 * m /\ x \in Int /\ 2 * x = 2000 * b
    BY <1>1, <2>1 DEF x, m
  <2>4. P \in 0 .. 1000
    BY <2>2, <2>3
  <2> DEFINE z == m * P
  <2>5. z \in Int /\ (2 * m) * P = 2 * z /\ (2 * m) * (P + 1) = 2 * z + 2 * m
    BY <2>1, <2>2
  <2>6. 500 <= P => 500 * m <= z
    BY <2>1, <2>2
  <2> HIDE DEF z
  <2>7. 2 * z <= 2000 * b + m /\ 2000 * b + m < 2 * z + 2 * m
    BY <2>2, <2>3, <2>5
  <2>8. 500 <= P => 999 * m <= 2000 * b
    BY <1>1, <2>1, <2>5, <2>6, <2>7
  <2> QED
    BY <2>1, <2>2, <2>4, <2>5, <2>7, <2>8 DEF n, b, P, m, x, z
<1> QED
  BY <1>1, <1>3, <1>4

\* The figure in the middle, and who is on which side of it.
LEMMA MedianIs ==
    ASSUME ScreensTypeOK, NEW k \in Metrics, Cardinality(DOMAIN peers) > 1, Cardinality(DOMAIN peers) <= 1001
    PROVE  LET m == Cardinality(DOMAIN peers) - 1
               b == Under(peers[1][k], k)
           IN /\ PeerMedian(k) \in Int
              /\ 2 * peers[1][k] > PeerMedian(k) => 500 * m <= 1000 * b
              /\ 999 * m <= 2000 * b => 2 * peers[1][k] >= PeerMedian(k)
<1> DEFINE n == Cardinality(DOMAIN peers)
           m == n - 1
           v == peers[1][k]
           b == Under(v, k)
           h == n \div 2
           At(i) == peers[Place(i, k)][k]
<1>1. n \in Nat /\ n > 1 /\ n <= 1001 /\ b \in Nat /\ v \in Int /\ b + 1 <= UpTo(v, k) /\ 1 \in DOMAIN peers
  BY PeersAre, OneIsNotBelow
<1>2. h \in Nat /\ 1 <= h /\ h < n /\ (n % 2 = 0 => n = 2 * h) /\ (n % 2 # 0 => n = 2 * h + 1)
  <2>1. n \in Nat /\ n > 1
    BY <1>1
  <2> HIDE DEF n
  <2> QED
    BY <2>1
<1>3. PeerMedian(k) = IF n % 2 = 0 THEN At(h) + At(h + 1) ELSE 2 * At(h + 1)
  BY DEF PeerMedian
<1> DEFINE u == At(h)
           w == At(h + 1)
<1>4. u \in Int /\ w \in Int
  BY <1>1, <1>2, PlaceIs, PeersAre
<1>5. Under(u, k) < h /\ h <= UpTo(u, k) /\ Under(w, k) < h + 1 /\ h + 1 <= UpTo(w, k)
  BY <1>1, <1>2, PlaceIs
<1>6. Under(u, k) \in Nat /\ UpTo(u, k) \in Nat /\ Under(w, k) \in Nat /\ UpTo(w, k) \in Nat /\ UpTo(v, k) \in Nat
  BY Counts DEF Under, UpTo
<1> HIDE DEF n, b, h, u, w, v
<1>7. u <= w
  <2>1. SUFFICES ASSUME w < u
                 PROVE  FALSE
    BY <1>4
  <2>2. UpTo(w, k) <= Under(u, k)
    BY <1>4, <2>1, CountsGrow
  <2> QED
    BY <1>2, <1>5, <1>6, <2>2
<1>8. u < v => h <= b
  <2>1. u < v => UpTo(u, k) <= b
    BY <1>1, <1>4, CountsGrow DEF b
  <2> QED
    BY <1>1, <1>2, <1>5, <1>6, <2>1
<1>9. w < v => h + 1 <= b
  <2>1. w < v => UpTo(w, k) <= b
    BY <1>1, <1>4, CountsGrow DEF b
  <2> QED
    BY <1>1, <1>2, <1>5, <1>6, <2>1
<1>10. h <= b => w <= v
  <2>1. SUFFICES ASSUME h <= b, v < w
                 PROVE  FALSE
    BY <1>1, <1>4
  <2>2. UpTo(v, k) <= Under(w, k)
    BY <1>1, <1>4, <2>1, CountsGrow
  <2> QED
    BY <1>1, <1>2, <1>5, <1>6, <2>1, <2>2
<1> DEFINE M == PeerMedian(k)
<1>11. CASE n % 2 = 0
  <2>1. M = u + w /\ n = 2 * h
    BY <1>2, <1>3, <1>11 DEF u, w, h
  <2> HIDE DEF M
  <2>2. 2 * v > M => h <= b
    BY <1>1, <1>4, <1>7, <1>8, <2>1
  <2>3. h <= b => 500 * m <= 1000 * b
    BY <1>1, <1>2, <2>1
  <2>4. 999 * m <= 2000 * b => h <= b
    BY <1>1, <1>2, <2>1
  <2>5. h <= b => 2 * v >= M
    BY <1>1, <1>4, <1>7, <1>10, <2>1
  <2>6. M \in Int /\ (2 * v > M => 500 * m <= 1000 * b) /\ (999 * m <= 2000 * b => 2 * v >= M)
    BY <1>4, <2>1, <2>2, <2>3, <2>4, <2>5
  <2> QED
    BY <2>6 DEF M, n, b, v
<1>12. CASE n % 2 # 0
  <2>1. M = 2 * w /\ n = 2 * h + 1
    BY <1>2, <1>3, <1>12 DEF w, h
  <2> HIDE DEF M
  <2>2. 2 * v > M => h + 1 <= b
    BY <1>1, <1>4, <1>9, <2>1
  <2>3. h + 1 <= b => 500 * m <= 1000 * b
    BY <1>1, <1>2, <2>1
  <2>4. 999 * m <= 2000 * b => h <= b
    BY <1>1, <1>2, <2>1
  <2>5. h <= b => 2 * v >= M
    BY <1>1, <1>4, <1>10, <2>1
  <2>6. M \in Int /\ (2 * v > M => 500 * m <= 1000 * b) /\ (999 * m <= 2000 * b => 2 * v >= M)
    BY <1>4, <2>1, <2>2, <2>3, <2>4, <2>5
  <2> QED
    BY <2>6 DEF M, n, b, v
<1> QED
  BY <1>11, <1>12

\* A larger number of anything is larger.
LEMMA Scaled ==
    ASSUME NEW w \in Nat, w > 0, NEW x \in Int, NEW y \in Int
    PROVE  w * x \in Int /\ w * y \in Int /\ (x < y => w * x < w * y) /\ (x <= y => w * x <= w * y)
OBVIOUS

\* Whoever is over the RM in a metric has more peers below than her percentile stands for,
\* and whoever is under her has not.
LEMMA ComparedIs ==
    ASSUME ScreensTypeOK, Cardinality(DOMAIN peers) <= 1001, NEW k \in Metrics, NEW p \in DOMAIN peers
    PROVE  LET m == Cardinality(DOMAIN peers) - 1
               z == m * Percentile(k)
           IN /\ z \in Int /\ PeersBelow(p, k) \in Nat
              /\ peers[p][k] > peers[1][k] => m > 0 /\ z < 1000 * PeersBelow(p, k)
              /\ peers[p][k] < peers[1][k] /\ m > 0 => 1000 * PeersBelow(p, k) <= z
<1> DEFINE S == DOMAIN peers
           n == Cardinality(S)
           m == n - 1
           v == peers[1][k]
           u == peers[p][k]
           b == Under(v, k)
           c == Under(u, k)
           P == Percentile(k)
           z == m * P
<1>1. n \in Nat \ {0} /\ n <= 1001 /\ 1 \in S /\ v \in Int /\ u \in Int
  BY PeersAre
<1>2. /\ b \in Nat /\ c \in Nat /\ PeersBelow(p, k) = c
      /\ b + 1 <= UpTo(v, k) /\ c + 1 <= UpTo(u, k)
      /\ UpTo(v, k) \in Nat /\ UpTo(u, k) \in Nat
  <2>1. UpTo(v, k) \in Nat /\ UpTo(u, k) \in Nat
    BY Counts DEF UpTo
  <2> QED
    BY <1>1, <2>1, OneIsNotBelow
<1>3. P \in 0 .. 1000 /\ (m > 0 => z \in Int /\ 2 * z <= 2000 * b + m /\ 2000 * b + m < 2 * z + 2 * m)
  BY <1>1, PercentileIs
<1>4. z \in Int /\ m \in Nat /\ m <= 1000
  <2>1. P \in Int /\ m \in Nat /\ m <= 1000
    BY <1>1, <1>3
  <2> HIDE DEF P, m
  <2> QED
    BY <2>1
<1>5. ASSUME v < u
      PROVE  m > 0 /\ z < 1000 * c
  <2>1. n > 1
    <3>1. p # 1
      BY <1>1, <1>5
    <3>2. Cardinality({1}) = 1 /\ IsFiniteSet({1})
      BY FS_Singleton
    <3>3. Cardinality({1} \cup {p}) = 2
      BY <3>1, <3>2, FS_AddElement
    <3>4. {1} \cup {p} \in SUBSET S
      BY <1>1
    <3>5. Cardinality({1} \cup {p}) <= n
      BY <3>4, Counts
    <3> QED
      BY <1>1, <3>3, <3>5
  <2>2. UpTo(v, k) <= c
    BY <1>1, <1>5, CountsGrow
  <2>3. b + 1 <= c /\ m > 0
    BY <1>1, <1>2, <2>1, <2>2
  <2> HIDE DEF b, c, z, m
  <2> QED
    BY <1>2, <1>3, <1>4, <2>3
<1>6. ASSUME u < v, m > 0
      PROVE  1000 * c <= z
  <2>1. UpTo(u, k) <= b
    BY <1>1, <1>6, CountsGrow
  <2>2. c + 1 <= b
    BY <1>2, <2>1
  <2> HIDE DEF b, c, z, m
  <2> QED
    BY <1>2, <1>3, <1>4, <1>6, <2>2
<1> QED
  BY <1>2, <1>4, <1>5, <1>6

\* The rank of a dimension counts all who are ahead in its metrics, if the score is not
\* cut off, and nobody who is behind in all of them.
LEMMA RankIs ==
    ASSUME ScreensTypeOK, Cardinality(DOMAIN peers) <= 1001, NEW d \in Dimensions
    PROVE  LET of == {d.x, d.y} IN
           /\ DimensionScore(d) = Full
              \/ PeerRank(d) > Cardinality({p \in DOMAIN peers : \A k \in of : peers[p][k] > peers[1][k]})
           /\ PeerRank(d) <= 1 + Cardinality({p \in DOMAIN peers : \E k \in of : peers[p][k] >= peers[1][k]})
<1> DEFINE S == DOMAIN peers
           n == Cardinality(S)
           m == n - 1
           w == d.weight
           P == Percentile(d.x) + Percentile(d.y)
           B(p) == PeersBelow(p, d.x) + PeersBelow(p, d.y)
           Over == {p \in S : \A k \in {d.x, d.y} : peers[p][k] > peers[1][k]}
           From == {p \in S : \E k \in {d.x, d.y} : peers[p][k] >= peers[1][k]}
           Ahead == {p \in S : n > 1 /\ AtMost(m * Full, 1000 * (w * B(p))) > m * DimensionScore(d)}
<1>1. PeerRank(d) = 1 + Cardinality(Ahead)
  BY DEF PeerRank
<1>2. d.x \in Metrics /\ d.y \in Metrics /\ w \in Nat /\ w > 0
  BY DEF Dimensions, Metrics
<1>3. n \in Nat \ {0} /\ 1 \in S
  BY PeersAre
<1>4. P \in Int /\ m * P \in Int /\ Percentile(d.x) \in Int /\ Percentile(d.y) \in Int
  <2>1. Percentile(d.x) \in Int /\ Percentile(d.y) \in Int /\ m \in Int
    BY <1>2, <1>3, PercentileIs
  <2>2. P \in Int
    BY <2>1
  <2> HIDE DEF P, m
  <2> QED
    BY <2>1, <2>2
<1>5. m * P = m * Percentile(d.x) + m * Percentile(d.y)
  <2> DEFINE px == Percentile(d.x)
             py == Percentile(d.y)
  <2>1. px \in Int /\ py \in Int /\ m \in Int
    BY <1>3, <1>4
  <2> HIDE DEF px, py, m
  <2>2. m * (px + py) = m * px + m * py
    BY <2>1
  <2> QED
    BY <2>2 DEF px, py
<1>6. ASSUME NEW p \in S
      PROVE  /\ B(p) \in Nat
             /\ p \in Over => m > 0 /\ m * P < 1000 * B(p)
             /\ p \notin From /\ m > 0 => 1000 * B(p) <= m * P
  <2> DEFINE zx == m * Percentile(d.x)
             zy == m * Percentile(d.y)
             bx == PeersBelow(p, d.x)
             by == PeersBelow(p, d.y)
  <2>1. /\ zx \in Int /\ bx \in Nat
        /\ peers[p][d.x] > peers[1][d.x] => m > 0 /\ zx < 1000 * bx
        /\ peers[p][d.x] < peers[1][d.x] /\ m > 0 => 1000 * bx <= zx
    BY <1>2, ComparedIs
  <2>2. /\ zy \in Int /\ by \in Nat
        /\ peers[p][d.y] > peers[1][d.y] => m > 0 /\ zy < 1000 * by
        /\ peers[p][d.y] < peers[1][d.y] /\ m > 0 => 1000 * by <= zy
    BY <1>2, ComparedIs
  <2>3. /\ peers[p][d.x] \in Int /\ peers[1][d.x] \in Int
        /\ peers[p][d.y] \in Int /\ peers[1][d.y] \in Int
    BY <1>2, <1>3, PeersAre
  <2>4. p \in Over => peers[p][d.x] > peers[1][d.x] /\ peers[p][d.y] > peers[1][d.y]
    OBVIOUS
  <2>5. p \notin From => peers[p][d.x] < peers[1][d.x] /\ peers[p][d.y] < peers[1][d.y]
    BY <2>3
  <2>6. m * P = zx + zy /\ B(p) = bx + by
    BY <1>5
  <2>7. m \in Int
    BY <1>3
  <2> DEFINE z == m * P
             over == p \in Over
             from == p \in From
  <2>8. z = zx + zy
    BY <2>6
  <2> HIDE DEF zx, zy, bx, by, Over, From, P, m, z, B
  <2>9. B(p) \in Nat
    BY <2>1, <2>2, <2>6
  <2>10. p \in Over => m > 0 /\ z < 1000 * B(p)
    BY <2>1, <2>2, <2>4, <2>6, <2>7, <2>8
  <2>11. p \notin From /\ m > 0 => 1000 * B(p) <= z
    BY <2>1, <2>2, <2>5, <2>6, <2>7, <2>8
  <2> QED
    BY <2>9, <2>10, <2>11 DEF z
<1> DEFINE T == DimensionScore(d)
           y == w * P
           full == m * Full
<1>7. T = AtMost(Full, y)
  BY DEF DimensionScore
<1>8. Full \in Int /\ y \in Int /\ T \in Int /\ T <= Full /\ T <= y /\ (T # Full => T = y)
  <2>1. y \in Int
    <3> HIDE DEF w, P
    <3> QED
      BY <1>2, <1>4
  <2> HIDE DEF y, T
  <2> QED
    BY <1>7, <2>1 DEF AtMost, Full
<1>9. m \in Nat /\ (m > 0 <=> n > 1)
  BY <1>3
<1>10. ASSUME NEW p \in S
       PROVE  1000 * (w * B(p)) \in Int /\ 1000 * (w * B(p)) = w * (1000 * B(p)) /\ 1000 * B(p) \in Int
  <2>1. w \in Nat /\ B(p) \in Nat
    BY <1>2, <1>6
  <2> HIDE DEF w, B
  <2> QED
    BY <2>1
<1>11. m * y = w * (m * P) /\ m * y \in Int
  <2> HIDE DEF m, w, P
  <2> QED
    BY <1>2, <1>4, <1>9
<1>12. full \in Int /\ m * T \in Int /\ (m > 0 => m * T <= full /\ m * T <= m * y /\ (T # Full => m * T < full))
  <2> HIDE DEF m, T, y
  <2>1. m * Full \in Int /\ m * T \in Int
    BY <1>8, <1>9
  <2>2. m > 0 => m * T <= m * Full /\ m * T <= m * y
    BY <1>8, <1>9, Scaled
  <2>3. m > 0 /\ T # Full => m * T < m * Full
    <3>1. T # Full => T < Full
      BY <1>8
    <3> QED
      BY <1>8, <1>9, <3>1, Scaled
  <2> QED
    BY <2>1, <2>2, <2>3
<1>13. ASSUME T # Full
       PROVE  Over \in SUBSET Ahead
  <2> SUFFICES ASSUME NEW p \in Over
               PROVE  p \in Ahead
    OBVIOUS
  <2>1. p \in S
    OBVIOUS
  <2>2. m > 0 /\ m * P < 1000 * B(p)
    BY <1>6, <2>1
  <2>3. w * (m * P) < w * (1000 * B(p))
    <3>1. 1000 * B(p) \in Int
      BY <1>10, <2>1
    <3> HIDE DEF m, P, B, w
    <3> QED
      BY <1>2, <1>4, <2>2, <3>1, Scaled
  <2> DEFINE a == 1000 * (w * B(p))
             t == m * T
  <2>4. a \in Int /\ t \in Int /\ full \in Int /\ t < full /\ t < a
    <3>1. a \in Int /\ a = w * (1000 * B(p))
      BY <1>10, <2>1
    <3>2. T = y
      BY <1>8, <1>13
    <3>3. t = w * (m * P)
      BY <1>11, <3>2
    <3>4. t < a
      BY <2>3, <3>1, <3>3
    <3> QED
      BY <1>12, <1>13, <2>2, <3>1, <3>4
  <2>5. AtMost(full, a) > t
    <3> HIDE DEF full, a, t
    <3> QED
      BY <2>4 DEF AtMost
  <2> QED
    BY <1>9, <2>1, <2>2, <2>5
<1>14. Ahead \in SUBSET From
  <2> SUFFICES ASSUME NEW p \in Ahead, p \notin From
               PROVE  FALSE
    OBVIOUS
  <2>1. p \in S /\ n > 1
    OBVIOUS
  <2>2. m > 0 /\ 1000 * B(p) <= m * P
    BY <1>6, <1>9, <2>1
  <2>3. w * (1000 * B(p)) <= w * (m * P)
    <3>1. 1000 * B(p) \in Int
      BY <1>10, <2>1
    <3> HIDE DEF m, P, B, w
    <3> QED
      BY <1>2, <1>4, <2>2, <3>1, Scaled
  <2> DEFINE a == 1000 * (w * B(p))
             t == m * T
             yy == m * y
  <2>4. a \in Int /\ t \in Int /\ full \in Int /\ yy \in Int /\ t <= full /\ t <= yy /\ a <= yy
    <3>1. a \in Int /\ a = w * (1000 * B(p))
      BY <1>10, <2>1
    <3>2. a <= yy
      BY <1>11, <2>3, <3>1
    <3> QED
      BY <1>11, <1>12, <2>2, <3>1, <3>2
  <2>5. AtMost(full, a) > t
    OBVIOUS
  <2>6. T = Full \/ T = y
    BY <1>8
  <2>7. t = full \/ t = yy
    BY <2>6
  <2> HIDE DEF full, a, t, yy
  <2> QED
    BY <2>4, <2>5, <2>7 DEF AtMost
<1>15. /\ IsFiniteSet(Over) /\ IsFiniteSet(From) /\ IsFiniteSet(Ahead)
       /\ Cardinality(Over) \in Nat /\ Cardinality(From) \in Nat /\ Cardinality(Ahead) \in Nat
  BY Counts
<1>16. PeerRank(d) <= 1 + Cardinality(From)
  <2>1. Cardinality(Ahead) <= Cardinality(From)
    <3> HIDE DEF Ahead, From
    <3> QED
      BY <1>14, <1>15, FS_Subset
  <2> HIDE DEF Ahead, From
  <2> QED
    BY <1>1, <1>15, <2>1
<1>17. T = Full \/ PeerRank(d) > Cardinality(Over)
  <2>1. SUFFICES ASSUME T # Full
                 PROVE  PeerRank(d) > Cardinality(Over)
    OBVIOUS
  <2>2. Cardinality(Over) <= Cardinality(Ahead)
    <3> HIDE DEF Ahead, Over, T
    <3> QED
      BY <1>13, <1>15, <2>1, FS_Subset
  <2> HIDE DEF Ahead, Over
  <2> QED
    BY <1>1, <1>15, <2>2
<1> QED
  BY <1>16, <1>17

\* StandingAgrees, for up to 1001 RMs: the note, the median, and the rank of a dimension
\* tell one story.  With 1002 the rounding of the percentile to tenths of a percent
\* would tell the RM just below the middle to be above it.
THEOREM StandingIsOne ==
    ASSUME \A s \in Situations : Cardinality(DOMAIN s.peers) <= 1001
    PROVE  ScreensSpec => []StandingAgrees
<1> DEFINE Few == Cardinality(DOMAIN peers) <= 1001
<1>1. ScreensInit => Few
  BY DEF ScreensInit
<1>2. Few /\ [ScreensNext]_svars => Few'
  <2>1. [ScreensNext]_svars => UNCHANGED peers
    BY DEF ScreensNext, svars, CloseAlert, CompleteMeeting, SendProposal, CallClient, LogIn, PassTime
  <2> QED
    BY <2>1
<1>3. ASSUME ScreensTypeOK, Few
      PROVE  StandingAgrees
  <2> USE <1>3
  <2> DEFINE n == Cardinality(DOMAIN peers)
             m == n - 1
             b(k) == Under(peers[1][k], k)
  <2>1. n \in Nat \ {0} /\ 1 \in DOMAIN peers
    BY PeersAre
  <2>2. \A k \in Metrics : Percentile(k) \in 0 .. 1000
    BY PercentileIs
  <2>3. ASSUME NEW k \in Metrics, 2 * peers[1][k] > PeerMedian(k)
        PROVE  500 <= Percentile(k)
    <3>1. CASE n > 1
      <4>1. m > 0
        BY <2>1, <3>1
      <4>2. 500 * m <= 1000 * b(k) => 500 <= Percentile(k)
        BY <2>1, <4>1, PercentileIs
      <4>3. 500 * m <= 1000 * b(k)
        BY <2>3, <3>1, MedianIs
      <4> QED
        BY <4>2, <4>3
    <3>2. CASE n = 1
      <4>1. Percentile(k) = 500
        BY <3>2 DEF Percentile
      <4> QED
        BY <4>1
    <3> QED
      BY <2>1, <3>1, <3>2
  <2>4. ASSUME NEW k \in Metrics, n > 1, 500 <= Percentile(k)
        PROVE  2 * peers[1][k] >= PeerMedian(k)
    <3>1. m > 0
      BY <2>1, <2>4
    <3>2. 999 * m <= 2000 * b(k)
      BY <2>1, <2>4, <3>1, PercentileIs
    <3> QED
      BY <2>4, <3>2, MedianIs
  <2>5. ASSUME NEW d \in Dimensions
        PROVE  /\ (\A k \in {d.x, d.y} : 2 * peers[1][k] > PeerMedian(k)) => AboveMedianNote(d)
               /\ AboveMedianNote(d) /\ n > 1 => \E k \in {d.x, d.y} : 2 * peers[1][k] >= PeerMedian(k)
    <3>1. d.x \in Metrics /\ d.y \in Metrics
      BY DEF Dimensions, Metrics
    <3>2. Percentile(d.x) \in Int /\ Percentile(d.y) \in Int
      BY <2>2, <3>1
    <3>3. AboveMedianNote(d) <=> Percentile(d.x) + Percentile(d.y) >= 1000
      BY DEF AboveMedianNote
    <3>4. ASSUME \A k \in {d.x, d.y} : 2 * peers[1][k] > PeerMedian(k)
          PROVE  AboveMedianNote(d)
      <4>1. 500 <= Percentile(d.x) /\ 500 <= Percentile(d.y)
        BY <2>3, <3>1, <3>4
      <4> QED
        BY <3>2, <3>3, <4>1
    <3>5. ASSUME AboveMedianNote(d), n > 1
          PROVE  \E k \in {d.x, d.y} : 2 * peers[1][k] >= PeerMedian(k)
      <4>1. 500 <= Percentile(d.x) \/ 500 <= Percentile(d.y)
        BY <3>2, <3>3, <3>5
      <4>2. 2 * peers[1][d.x] >= PeerMedian(d.x) \/ 2 * peers[1][d.y] >= PeerMedian(d.y)
        BY <2>4, <3>1, <3>5, <4>1
      <4> QED
        BY <4>2
    <3> QED
      BY <3>4, <3>5
  <2> QED
    BY <2>2, <2>5, RankIs DEF StandingAgrees
<1> HIDE DEF Few
<1> QED
  BY <1>1, <1>2, <1>3, TypeInvariant, PTL DEF ScreensSpec

-----------------------------------------------------------------------------
(* The engagement card *)

\* The documents of the visits.
LEMMA VisitsAre ==
    ASSUME ScreensTypeOK
    PROVE  /\ IsFiniteSet(DOMAIN visits) /\ DOMAIN visits \subseteq Nat
           /\ \A d \in DOMAIN visits :
                 visits[d].sessions \in Nat /\ visits[d].minutes \in Nat /\ visits[d].actions \in Nat
<1>1. Collection(visits, [sessions : Nat, minutes : Nat, actions : Nat])
  BY TypesAre
<1> QED
  BY <1>1 DEF Collection

\* The months begin in order.
LEMMA MonthsAre ==
    ASSUME NEW m \in MonthsOfYear
    PROVE  Months[m] \in Nat /\ Months[m + 1] \in Nat /\ Months[m] < Months[m + 1] /\ m \in Nat /\ m >= 1
<1>1. Len(Months) \in Nat /\ m \in 1 .. Len(Months) - 1
  BY ScreensAssumption DEF MonthsOfYear
<1>2. m \in 1 .. Len(Months) /\ m + 1 \in 1 .. Len(Months) /\ m \in Nat /\ m >= 1
  BY ONLY <1>1
<1>3. \A i \in 1 .. Len(Months) : Months[i] \in Nat
  BY ScreensAssumption
<1>4. \A i \in 1 .. Len(Months) - 1 : Months[i] < Months[i + 1]
  BY ScreensAssumption
<1>5. Months[m] < Months[m + 1]
  BY ONLY <1>1, <1>4
<1> QED
  BY ONLY <1>2, <1>3, <1>5

\* Today lies in one of the months.
LEMMA ThisMonthIs ==
    ASSUME ScreensTypeOK
    PROVE  ThisMonth \in MonthsOfYear /\ Day(now) \in Months[ThisMonth] .. Months[ThisMonth + 1] - 1
<1> DEFINE d == Day(now)
           N == Len(Months)
           S == {m \in 1 .. N - 1 : Months[m] <= d}
<1>1. N \in Nat /\ N > 1 /\ \A m \in 1 .. N : Months[m] \in Nat
  BY ScreensAssumption
<1>2. d \in Nat /\ Months[1] <= d /\ d < Months[N]
  <2>1. now \in Nat /\ 24 * Months[1] <= now /\ now < 24 * Months[N] /\ Months[1] \in Nat /\ Months[N] \in Nat
    BY <1>1, NowIs, ScreensAssumption
  <2> DEFINE a == Months[1]
             z == Months[N]
  <2> HIDE DEF a, z
  <2>2. now \in Nat /\ 24 * a <= now /\ now < 24 * z /\ a \in Nat /\ z \in Nat
    BY <2>1 DEF a, z
  <2>3. now \div 24 \in Nat /\ a <= now \div 24 /\ now \div 24 < z
    BY <2>2
  <2> QED
    BY <2>3 DEF a, z, Day
<1> HIDE DEF d, N
<1>3. S \in SUBSET (0 .. N) /\ 1 \in S
  BY <1>1, <1>2
<1>4. PICK m \in S : \A k \in S : k <= m
  <2> HIDE DEF S
  <2> QED
    BY <1>1, <1>3, Greatest
<1>5. m \in 1 .. N - 1 /\ d \in Months[m] .. Months[m + 1] - 1
  <2>1. m \in 1 .. N - 1 /\ m + 1 \in 1 .. N /\ Months[m + 1] \in Nat /\ Months[m] \in Nat /\ Months[m] <= d
    BY <1>1
  <2>2. CASE m + 1 = N
    <3>1. d < Months[m + 1]
      BY <1>2, <2>2
    <3> QED
      BY <1>2, <2>1, <3>1
  <2>3. CASE m + 1 # N
    <3>1. m + 1 \in 1 .. N - 1 /\ ~(m + 1 <= m)
      BY <1>1, <2>1, <2>3
    <3>2. ~(Months[m + 1] <= d)
      BY <1>4, <3>1
    <3> QED
      BY <1>2, <2>1, <3>2
  <2> QED
    BY <2>2, <2>3
<1>6. \E k \in MonthsOfYear : Day(now) \in Months[k] .. Months[k + 1] - 1
  BY <1>5 DEF d, N, MonthsOfYear
<1> QED
  BY <1>6 DEF ThisMonth

\* The days of a month with a document are finitely many.
LEMMA DaysAre ==
    ASSUME ScreensTypeOK, NEW m \in MonthsOfYear
    PROVE  /\ DaysOf(m) \in SUBSET DOMAIN visits /\ IsFiniteSet(DaysOf(m))
           /\ LoginDays(m) \in SUBSET DaysOf(m) /\ IsFiniteSet(LoginDays(m))
           /\ ActiveDays(m) \in SUBSET DaysOf(m) /\ IsFiniteSet(ActiveDays(m))
           /\ IsFiniteSet(WorkingDays(m))
<1>1. DaysOf(m) \in SUBSET DOMAIN visits /\ LoginDays(m) \in SUBSET DaysOf(m) /\ ActiveDays(m) \in SUBSET DaysOf(m)
  BY DEF DaysOf, LoginDays, ActiveDays
<1>2. IsFiniteSet(DaysOf(m))
  BY <1>1, VisitsAre, FS_Subset
<1>3. IsFiniteSet(WorkingDays(m))
  <2>1. Months[m] \in Int /\ Months[m + 1] - 1 \in Int
    BY MonthsAre
  <2>2. IsFiniteSet(Months[m] .. Months[m + 1] - 1)
    BY <2>1, FS_Interval
  <2>3. WorkingDays(m) \in SUBSET (Months[m] .. Months[m + 1] - 1)
    BY DEF WorkingDays
  <2> QED
    BY <2>2, <2>3, FS_Subset
<1> QED
  BY <1>1, <1>2, <1>3, FS_Subset

\* A part of a hundred is one, whatever is divided.
LEMMA PartIs ==
    ASSUME NEW x \in Nat, NEW y \in Nat, y > 0
    PROVE  AtMost(100, Rounded(x, y)) \in Nat
<1>1. Rounded(x, y) \in Int
  BY RoundedIs
<1>2. 0 * y <= x /\ 0 \in Int
  OBVIOUS
<1>3. 0 <= Rounded(x, y)
  BY <1>2, RoundedBetween
<1> QED
  BY <1>1, <1>3 DEF AtMost

\* A day with a login scores at least the 400 of its regularity, a day with audited
\* actions something, and any other nothing.
LEMMA DailyScoreIs ==
    ASSUME ScreensTypeOK, NEW d \in DOMAIN visits
    PROVE  /\ TrendLogin(d) => DailyScore(d) >= 400
           /\ DailyScore(d) = 0 <=> visits[d].sessions = 0 /\ visits[d].actions = 0
<1> DEFINE v == visits[d]
           p == AtMost(100, Rounded(100 * v.minutes, 60 * v.sessions))
           q == AtMost(100, 5 * v.actions)
<1>1. /\ v.sessions \in Nat /\ v.minutes \in Nat /\ v.actions \in Nat
      /\ TrendLogin(d) <=> v.sessions # 0
  BY VisitsAre DEF TrendLogin
<1>2. q \in Nat /\ (q = 0 <=> v.actions = 0)
  BY <1>1 DEF AtMost
<1>3. CASE TrendLogin(d)
  <2>1. 100 * v.minutes \in Nat /\ 60 * v.sessions \in Nat /\ 60 * v.sessions > 0
    BY <1>1, <1>3
  <2>2. p \in Nat
    BY <2>1, PartIs
  <2>3. DailyScore(d) = Score(100, p, q)
    BY <1>3 DEF DailyScore
  <2> HIDE DEF p, q
  <2>4. DailyScore(d) >= 400 /\ DailyScore(d) # 0
    BY <1>2, <2>2, <2>3 DEF Score
  <2> QED
    BY <1>1, <1>3, <2>4
<1>4. CASE ~TrendLogin(d)
  <2>1. DailyScore(d) = Score(0, 0, q)
    BY <1>4 DEF DailyScore
  <2> HIDE DEF q
  <2>2. DailyScore(d) = 0 <=> q = 0
    BY <1>2, <2>1 DEF Score
  <2> QED
    BY <1>1, <1>2, <1>4, <2>2
<1> QED
  BY <1>3, <1>4

\* A sum over the days of a month is 0 just if it is on each of them.
LEMMA SumOfDays ==
    ASSUME ScreensTypeOK, NEW m \in MonthsOfYear, NEW f \in [DOMAIN visits -> Nat],
           NEW S \in SUBSET DaysOf(m)
    PROVE  Total(f, S) \in Nat /\ (Total(f, S) = 0 <=> \A d \in S : f[d] = 0)
<1>1. /\ f \in [DOMAIN visits -> Int] /\ S \in SUBSET DOMAIN visits /\ IsFiniteSet(S)
      /\ \A d \in S : 0 <= f[d] /\ f[d] \in Nat
  BY DaysAre, FS_Subset
<1>2. Total(f, S) \in Int
  BY <1>1, TotalStep
<1>3. \A d \in S : Total(f, S) >= 0 /\ f[d] <= Total(f, S)
  BY <1>1, TotalCovers
<1>4. (\A d \in S : 0 = f[d]) => 0 = Total(f, S)
  <2>1. (\A d \in S : 0 = f[d]) => 0 * Cardinality(S) = Total(f, S)
    BY <1>1, TotalBounds
  <2>2. 0 * Cardinality(S) = 0
    BY <1>1, FS_CardinalityType
  <2> QED
    BY <2>1, <2>2
<1>5. S = {} => Total(f, S) = 0
  BY <1>1, TotalStep
<1>6. Total(f, S) >= 0
  BY <1>3, <1>5
<1>7. Total(f, S) = 0 => \A d \in S : f[d] = 0
  BY <1>1, <1>3
<1> QED
  BY <1>2, <1>4, <1>6, <1>7

\* The sums of a month are 0 just when each of its days is.
LEMMA MonthSums ==
    ASSUME ScreensTypeOK, NEW m \in MonthsOfYear
    PROVE  /\ Sessions(m) \in Nat /\ Minutes(m) \in Nat /\ Actions(m) \in Nat
           /\ Sessions(m) = 0 <=> \A d \in DaysOf(m) : visits[d].sessions = 0
           /\ Actions(m) = 0 <=> \A d \in DaysOf(m) : visits[d].actions = 0
           /\ Cardinality(ActiveDays(m)) \in Nat /\ Cardinality(ActiveDays(m)) <= Actions(m)
           /\ Actions(m) # 0 => Cardinality(ActiveDays(m)) > 0
<1> DEFINE s == [d \in DOMAIN visits |-> visits[d].sessions]
           t == [d \in DOMAIN visits |-> visits[d].minutes]
           a == [d \in DOMAIN visits |-> visits[d].actions]
           D == DaysOf(m)
           A == ActiveDays(m)
<1>1. s \in [DOMAIN visits -> Nat] /\ t \in [DOMAIN visits -> Nat] /\ a \in [DOMAIN visits -> Nat]
  BY VisitsAre
<1>2. \A d \in DOMAIN visits : s[d] = visits[d].sessions /\ a[d] = visits[d].actions
  OBVIOUS
<1>3. /\ D \in SUBSET DOMAIN visits /\ IsFiniteSet(D) /\ A \in SUBSET D /\ IsFiniteSet(A)
      /\ D \in SUBSET DaysOf(m) /\ LoginDays(m) \in SUBSET DaysOf(m) /\ A \in SUBSET DaysOf(m)
  BY DaysAre
<1>4. Sessions(m) = Total(s, D) /\ Minutes(m) = Total(t, LoginDays(m)) /\ Actions(m) = Total(a, D)
  BY DEF Sessions, Minutes, Actions
<1> HIDE DEF s, t, a, D, A
<1>5. /\ Total(s, D) \in Nat /\ (Total(s, D) = 0 <=> \A d \in D : s[d] = 0)
      /\ Total(t, LoginDays(m)) \in Nat
      /\ Total(a, D) \in Nat /\ (Total(a, D) = 0 <=> \A d \in D : a[d] = 0)
  BY <1>1, <1>3, SumOfDays
<1>6. Cardinality(A) \in Nat /\ Cardinality(A) <= Total(a, D)
  <2> DEFINE B == D \ A
  <2>1. B \in SUBSET DaysOf(m) /\ B \in SUBSET DOMAIN visits /\ A \in SUBSET DOMAIN visits
        /\ A \cap B = {} /\ D = A \cup B
    BY <1>3 DEF D
  <2>2. IsFiniteSet(B)
    BY <1>3, <2>1, FS_Subset DEF D
  <2> HIDE DEF B
  <2>3. a \in [DOMAIN visits -> Int]
    BY <1>1
  <2>4. Total(a, A \cup B) = Total(a, A) + Total(a, B)
    BY <1>3, <2>1, <2>2, <2>3, TotalUnion
  <2>5. Total(a, B) \in Nat /\ Total(a, A) \in Nat
    BY <1>1, <1>3, <2>1, SumOfDays
  <2>6. \A d \in A : 1 <= a[d]
    BY <1>1, <1>2, <1>3, <2>1 DEF A, ActiveDays
  <2>7. 1 * Cardinality(A) <= Total(a, A)
    BY <1>3, <2>1, <2>3, <2>6, TotalBounds
  <2>8. Cardinality(A) \in Nat
    BY <1>3, FS_CardinalityType
  <2> QED
    BY <2>1, <2>4, <2>5, <2>7, <2>8
<1>7. Total(a, D) # 0 => Cardinality(A) > 0
  <2>1. SUFFICES ASSUME Total(a, D) # 0
                 PROVE  A # {}
    BY <1>3, <1>6, FS_EmptySet
  <2>2. PICK d \in D : a[d] # 0
    BY <1>5, <2>1
  <2>3. d \in DOMAIN visits /\ visits[d].actions > 0
    BY <1>1, <1>2, <1>3, <2>2
  <2> QED
    BY <2>3 DEF A, D, ActiveDays
<1> QED
  BY <1>2, <1>3, <1>4, <1>5, <1>6, <1>7 DEF D, A

\* What the card says of a month.
LEMMA MonthIs ==
    ASSUME ScreensTypeOK, NEW m \in MonthsOfYear
    PROVE  /\ Regularity(m) \in Nat /\ Depth(m) \in Nat /\ Usage(m) \in Nat
           /\ LoginDays(m) = {} => Regularity(m) = 0
           /\ Sessions(m) = 0 => Depth(m) = 0
           /\ Usage(m) = 0 <=> Actions(m) = 0
           /\ MonthScore(m) = 4 * Regularity(m) + 3 * Depth(m) + 3 * Usage(m)
<1>1. /\ Sessions(m) \in Nat /\ Minutes(m) \in Nat /\ Actions(m) \in Nat
      /\ Cardinality(ActiveDays(m)) \in Nat /\ Cardinality(ActiveDays(m)) <= Actions(m)
      /\ Actions(m) # 0 => Cardinality(ActiveDays(m)) > 0
  BY MonthSums
<1>2. IsFiniteSet(WorkingDays(m)) /\ IsFiniteSet(LoginDays(m))
  BY DaysAre
<1> DEFINE L == Cardinality(LoginDays(m))
           W == Cardinality(WorkingDays(m))
           k == Cardinality(ActiveDays(m))
           A == Actions(m)
<1>3. L \in Nat /\ (LoginDays(m) = {} => L = 0)
  BY <1>2, FS_CardinalityType, FS_EmptySet
<1>4. Regularity(m) \in Nat /\ (LoginDays(m) = {} => Regularity(m) = 0)
  <2>1. CASE WorkingDays(m) = {}
    BY <2>1 DEF Regularity
  <2>2. CASE WorkingDays(m) # {}
    <3>1. W \in Nat /\ W > 0
      <4>1. W \in Nat /\ W # 0
        BY <1>2, <2>2, FS_CardinalityType, FS_EmptySet
      <4> HIDE DEF W
      <4> QED
        BY <4>1
    <3>2. Regularity(m) = AtMost(100, Rounded(100 * L, W))
      BY <2>2 DEF Regularity
    <3> HIDE DEF L, W
    <3>3. 100 * L \in Nat /\ (L = 0 => 100 * L = 0)
      BY <1>3
    <3>4. AtMost(100, Rounded(100 * L, W)) \in Nat
      BY <3>1, <3>3, PartIs
    <3>5. Rounded(0, W) <= 0 /\ Rounded(0, W) \in Int
      <4>1. 0 <= 0 * W /\ 0 \in Int
        BY <3>1
      <4> QED
        BY <3>1, <4>1, RoundedBetween, RoundedIs
    <3>6. L = 0 => AtMost(100, Rounded(100 * L, W)) = 0
      BY <3>3, <3>4, <3>5 DEF AtMost
    <3> QED
      BY <1>3, <3>2, <3>4, <3>6
  <2> QED
    BY <2>1, <2>2
<1>5. Depth(m) \in Nat /\ (Sessions(m) = 0 => Depth(m) = 0)
  <2>1. CASE Sessions(m) = 0
    BY <2>1 DEF Depth
  <2>2. CASE Sessions(m) # 0
    <3>1. 100 * Minutes(m) \in Nat /\ 60 * Sessions(m) \in Nat /\ 60 * Sessions(m) > 0
      BY <1>1, <2>2
    <3>2. AtMost(100, Rounded(100 * Minutes(m), 60 * Sessions(m))) \in Nat
      BY <3>1, PartIs
    <3> QED
      BY <2>2, <3>2 DEF Depth
  <2> QED
    BY <2>1, <2>2
<1>6. Usage(m) \in Nat /\ (Usage(m) = 0 <=> A = 0)
  <2>1. CASE A = 0
    BY <2>1 DEF Usage
  <2>2. CASE A # 0
    <3>1. k \in Nat /\ k > 0 /\ A \in Nat /\ 5 * A \in Nat /\ k <= A
      BY <1>1, <2>2
    <3>2. Usage(m) = AtMost(100, Rounded(5 * A, k))
      BY <2>2 DEF Usage
    <3> HIDE DEF k, A
    <3>3. AtMost(100, Rounded(5 * A, k)) \in Nat
      BY <3>1, PartIs
    <3>4. 1 * k <= 5 * A /\ 1 \in Int
      BY <3>1
    <3>5. 1 <= Rounded(5 * A, k) /\ Rounded(5 * A, k) \in Int
      BY <3>1, <3>4, RoundedBetween, RoundedIs
    <3>6. AtMost(100, Rounded(5 * A, k)) # 0
      BY <3>5 DEF AtMost
    <3> QED
      BY <2>2, <3>2, <3>3, <3>6
  <2> QED
    BY <2>1, <2>2
<1>7. MonthScore(m) = 4 * Regularity(m) + 3 * Depth(m) + 3 * Usage(m)
  BY DEF MonthScore, Score
<1> QED
  BY <1>4, <1>5, <1>6, <1>7

\* The streak is as long as the run of login days that ends today.
LEMMA StreakIs ==
    ASSUME ScreensTypeOK
    PROVE  /\ LoginStreak \in Nat /\ Day(now) - LoginStreak + 1 .. Day(now) \subseteq InMonth
           /\ Day(now) - LoginStreak \notin InMonth
<1> DEFINE d == Day(now)
           N == Cardinality(InMonth)
           S == {n \in 0 .. N : d - n + 1 .. d \subseteq InMonth}
<1>1. IsFiniteSet(InMonth) /\ N \in Nat
  BY ThisMonthIs, DaysAre, FS_CardinalityType DEF InMonth
<1>2. d \in Int
  BY ThisMonthIs, MonthsAre
<1> HIDE DEF d, N
<1>3. S \in SUBSET (0 .. N) /\ 0 \in S
  <2>1. d - 0 + 1 .. d = {}
    BY <1>2
  <2> QED
    BY <1>1, <2>1
<1>4. PICK n \in S : \A k \in S : k <= n
  <2> HIDE DEF S
  <2> QED
    BY <1>1, <1>3, Greatest
<1>5. LoginStreak \in S /\ \A k \in S : LoginStreak >= k
  <2>1. LoginStreak = CHOOSE x \in S : \A y \in S : x >= y
    BY DEF LoginStreak, Max, d, N
  <2>2. \A k \in S : n >= k
    BY <1>1, <1>4
  <2> HIDE DEF S
  <2> QED
    BY <2>1, <2>2
<1> DEFINE L == LoginStreak
<1> HIDE DEF L
<1>6. L \in Nat /\ L <= N /\ d - L + 1 .. d \subseteq InMonth
  BY <1>1, <1>5 DEF L
<1>7. d - L \notin InMonth
  <2>1. SUFFICES ASSUME d - L \in InMonth
                 PROVE  FALSE
    OBVIOUS
  <2>2. d - (L + 1) + 1 .. d \subseteq InMonth
    <3>1. SUFFICES ASSUME NEW x \in d - (L + 1) + 1 .. d
                   PROVE  x \in InMonth
      OBVIOUS
    <3>2. L \in Int /\ d \in Int
      BY <1>2, <1>6
    <3>3. x = d - L \/ x \in d - L + 1 .. d
      BY ONLY <3>2, x \in d - (L + 1) + 1 .. d
    <3> QED
      BY <1>6, <2>1, <3>3
  <2>3. L + 1 <= N
    <3> DEFINE a == d - (L + 1) + 1
    <3>1. a \in Int /\ ~(a > d) /\ d - a + 1 = L + 1
      BY <1>2, <1>6
    <3> HIDE DEF a
    <3>2. IsFiniteSet(a .. d) /\ Cardinality(a .. d) = L + 1
      BY <1>2, <3>1, FS_Interval
    <3>3. a .. d \in SUBSET InMonth
      BY <2>2 DEF a
    <3>4. Cardinality(a .. d) <= Cardinality(InMonth)
      BY <1>1, <3>3, FS_Subset
    <3> QED
      BY <3>2, <3>4 DEF N
  <2>4. L + 1 \in S
    BY <1>1, <1>6, <2>2, <2>3
  <2>5. L >= L + 1
    BY <1>5, <2>4 DEF L
  <2> QED
    BY <1>6, <2>5
<1> QED
  BY <1>6, <1>7 DEF L, d

\* StreakMatchesTrend: the streak is the run of login days at the end of the chart within
\* the month, a month is estimated just if its chart is flat, and scores nothing then,
\* and a login on every fifth working day after a month without a score is an improvement.
THEOREM CardMatchesChart == ScreensSpec => []StreakMatchesTrend
<1>1. ASSUME ScreensTypeOK
      PROVE  StreakMatchesTrend
  <2> USE <1>1
  <2> DEFINE d == Day(now)
             L == LoginStreak
             first == Months[ThisMonth]
             from == IF d - L + 1 > first THEN d - L ELSE first - 1
  <2>1. /\ ThisMonth \in MonthsOfYear /\ d \in first .. Months[ThisMonth + 1] - 1
        /\ first \in Nat /\ Months[ThisMonth + 1] \in Nat /\ d \in Int
    BY ThisMonthIs, MonthsAre
  <2>2. L \in Nat /\ d - L + 1 .. d \subseteq InMonth /\ d - L \notin InMonth
    BY StreakIs
  <2>3. \A e \in InMonth : TrendLogin(e)
    BY <2>1, DaysAre DEF InMonth, LoginDays, TrendLogin
  <2>4. \A e \in d - L + 1 .. d : TrendLogin(e) /\ DailyScore(e) >= 400
    <3>1. TAKE e \in d - L + 1 .. d
    <3>2. e \in DOMAIN visits /\ TrendLogin(e)
      BY <2>2, <2>3 DEF TrendLogin
    <3> QED
      BY <3>2, DailyScoreIs
  <2>5. ASSUME from >= first
        PROVE  ~TrendLogin(from)
    <3>1. SUFFICES ASSUME TrendLogin(from)
                   PROVE  FALSE
      OBVIOUS
    <3>2. from = d - L /\ from \in Int
      BY <2>1, <2>2, <2>5
    <3>3. from \in first .. Months[ThisMonth + 1] - 1
      BY <2>1, <2>2, <2>5, <3>2
    <3> HIDE DEF from
    <3>4. from \in InMonth
      BY <3>1, <3>3 DEF TrendLogin, InMonth, LoginDays, DaysOf
    <3> QED
      BY <2>2, <3>2, <3>4
  <2>6. ASSUME NEW m \in MonthsOfYear
        PROVE  /\ Estimated(m) <=> \A e \in DaysOf(m) : DailyScore(e) = 0
               /\ Estimated(m) => MonthScore(m) = 0
    <3>1. /\ Sessions(m) = 0 <=> \A e \in DaysOf(m) : visits[e].sessions = 0
          /\ Actions(m) = 0 <=> \A e \in DaysOf(m) : visits[e].actions = 0
      BY MonthSums
    <3>2. \A e \in DaysOf(m) : DailyScore(e) = 0 <=> visits[e].sessions = 0 /\ visits[e].actions = 0
      BY DaysAre, DailyScoreIs
    <3>3. Estimated(m) <=> \A e \in DaysOf(m) : DailyScore(e) = 0
      BY <3>1, <3>2 DEF Estimated
    <3>4. ASSUME Estimated(m)
          PROVE  MonthScore(m) = 0
      <4>1. LoginDays(m) = {}
        <5>1. \A e \in DaysOf(m) : ~(visits[e].sessions > 0)
          BY <3>1, <3>4 DEF Estimated
        <5> QED
          BY <5>1 DEF LoginDays
      <4>2. Regularity(m) = 0 /\ Depth(m) = 0 /\ Usage(m) = 0
        BY <3>4, <4>1, MonthIs DEF Estimated
      <4>3. MonthScore(m) = 4 * 0 + 3 * 0 + 3 * 0
        BY <4>2, MonthIs
      <4> QED
        BY <4>3
    <3> QED
      BY <3>3, <3>4
  <2>7. ASSUME NEW m \in MonthsOfYear, MonthScore(m - 1) = 0, Regularity(m) >= 20
        PROVE  Trend(m) = "improving"
    <3>1. /\ Regularity(m) \in Nat /\ Depth(m) \in Nat /\ Usage(m) \in Nat
          /\ MonthScore(m) = 4 * Regularity(m) + 3 * Depth(m) + 3 * Usage(m)
      BY MonthIs
    <3>2. MonthScore(m) - MonthScore(m - 1) > 50
      BY <2>7, <3>1
    <3> QED
      BY <3>2 DEF Trend
  <2> QED
    BY <2>4, <2>5, <2>6, <2>7 DEF StreakMatchesTrend
<1> QED
  BY <1>1, TypeInvariant, PTL

-----------------------------------------------------------------------------
(* The RM's own figures *)

\* The months of a year, and its first and last.
LEMMA YearIs ==
    /\ IsFiniteSet(MonthsOfYear) /\ 1 \in MonthsOfYear /\ Len(Months) - 1 \in MonthsOfYear
    /\ \A i, j \in 1 .. Len(Months) : i < j => Months[i + 1] <= Months[j]
<1> DEFINE N == Len(Months)
<1>1. N \in Nat /\ N > 1 /\ (\A i \in 1 .. N : Months[i] \in Nat) /\ \A i \in 1 .. N - 1 : Months[i] < Months[i + 1]
  BY ScreensAssumption
<1>2. MonthsOfYear = 1 .. N - 1
  BY DEF MonthsOfYear
<1> HIDE DEF N
<1>3. IsFiniteSet(1 .. N - 1) /\ 1 \in 1 .. N - 1 /\ N - 1 \in 1 .. N - 1
  BY <1>1, FS_Interval
<1>4. ASSUME NEW i \in 1 .. N
      PROVE  \A j \in 1 .. N : i < j => Months[i + 1] <= Months[j]
  <2> DEFINE Bad == {j \in 1 .. N : i < j /\ ~(Months[i + 1] <= Months[j])}
  <2>1. SUFFICES ASSUME Bad # {}
                 PROVE  FALSE
    OBVIOUS
  <2>2. Bad \in SUBSET Nat
    OBVIOUS
  <2>3. PICK j \in Bad : \A k \in Bad : j <= k
    <3> HIDE DEF Bad
    <3> QED
      BY <2>1, <2>2, Least
  <2>4. j \in 1 .. N /\ i < j /\ ~(Months[i + 1] <= Months[j]) /\ j # i + 1
    BY <1>1
  <2>5. j - 1 \in 1 .. N - 1 /\ i < j - 1 /\ (j - 1) + 1 = j /\ j - 1 \in 1 .. N /\ ~(j <= j - 1) /\ i + 1 \in 1 .. N
    BY <1>1, <2>4
  <2>6. Months[i + 1] <= Months[j - 1]
    BY <2>3, <2>5
  <2>7. Months[j - 1] < Months[j]
    BY <1>1, <2>5
  <2> QED
    BY <1>1, <2>4, <2>5, <2>6, <2>7
<1> QED
  BY <1>2, <1>3, <1>4 DEF N

\* A month's period, and the year's.
LEMMA PeriodIs ==
    /\ \A m \in MonthsOfYear : Period({m}) = 24 * Months[m] .. 24 * Months[m + 1] - 1
    /\ Period(MonthsOfYear) = 24 * Months[1] .. 24 * Months[Len(Months)] - 1
<1>1. ASSUME NEW m \in MonthsOfYear
      PROVE  Period({m}) = 24 * Months[m] .. 24 * Months[m + 1] - 1
  <2>1. m \in Nat /\ m >= m
    BY MonthsAre
  <2>2. Min({m}) = m /\ Max({m}) = m
    BY <2>1 DEF Min, Max
  <2> QED
    BY <2>2 DEF Period, Days
<1>2. Period(MonthsOfYear) = 24 * Months[1] .. 24 * Months[Len(Months)] - 1
  <2> DEFINE N == Len(Months)
  <2>1. N \in Nat /\ N > 1
    BY ScreensAssumption
  <2>2. MonthsOfYear = 1 .. N - 1
    BY DEF MonthsOfYear
  <2> HIDE DEF N
  <2>3. /\ 1 \in 1 .. N - 1 /\ \A k \in 1 .. N - 1 : 1 <= k
        /\ N - 1 \in 1 .. N - 1 /\ (\A k \in 1 .. N - 1 : N - 1 >= k) /\ (N - 1) + 1 = N
    BY <2>1
  <2>4. Min(1 .. N - 1) = 1
    <3>1. \A x \in 1 .. N - 1 : (\A y \in 1 .. N - 1 : x <= y) => x = 1
      BY <2>3
    <3> QED
      BY <2>3, <3>1 DEF Min
  <2>5. Max(1 .. N - 1) = N - 1
    <3>1. \A x \in 1 .. N - 1 : (\A y \in 1 .. N - 1 : x >= y) => x = N - 1
      BY <2>1, <2>3
    <3> QED
      BY <2>3, <3>1 DEF Max
  <2>6. Period(MonthsOfYear) = 24 * Months[1] .. 24 * Months[(N - 1) + 1] - 1
    BY <2>2, <2>4, <2>5 DEF Period, Days
  <2> QED
    BY <2>3, <2>6 DEF N
<1> QED
  BY <1>1, <1>2

\* Each moment of the year lies in one month, and in one only.
LEMMA OneMonth ==
    ASSUME NEW t \in Int
    PROVE  /\ t \in Period(MonthsOfYear) <=> \E m \in MonthsOfYear : t \in Period({m})
           /\ \A i, j \in MonthsOfYear : t \in Period({i}) /\ t \in Period({j}) => i = j
<1> DEFINE N == Len(Months)
           S == {m \in 1 .. N - 1 : 24 * Months[m] <= t}
<1>1. N \in Nat /\ N > 1 /\ (\A m \in 1 .. N : Months[m] \in Nat) /\ MonthsOfYear = 1 .. N - 1
  BY ScreensAssumption DEF MonthsOfYear
<1>2. \A i, j \in 1 .. N : i < j => Months[i + 1] <= Months[j]
  BY YearIs
<1>3. /\ \A m \in MonthsOfYear : t \in Period({m}) <=> 24 * Months[m] <= t /\ t < 24 * Months[m + 1]
      /\ t \in Period(MonthsOfYear) <=> 24 * Months[1] <= t /\ t < 24 * Months[N]
  <2>1. ASSUME NEW a \in Nat, NEW b \in Nat
        PROVE  t \in 24 * a .. 24 * b - 1 <=> 24 * a <= t /\ t < 24 * b
    OBVIOUS
  <2>2. Months[1] \in Nat /\ Months[N] \in Nat /\ \A m \in MonthsOfYear : Months[m] \in Nat /\ Months[m + 1] \in Nat
    BY <1>1, MonthsAre
  <2> QED
    BY <2>1, <2>2, PeriodIs
<1> HIDE DEF N
<1>4. ASSUME 24 * Months[1] <= t, t < 24 * Months[N]
      PROVE  \E m \in 1 .. N - 1 : 24 * Months[m] <= t /\ t < 24 * Months[m + 1]
  <2>1. S \in SUBSET (0 .. N) /\ 1 \in S
    BY <1>1, <1>4
  <2>2. PICK m \in S : \A k \in S : k <= m
    <3> HIDE DEF S
    <3> QED
      BY <1>1, <2>1, Greatest
  <2>3. m \in 1 .. N - 1 /\ m + 1 \in 1 .. N /\ 24 * Months[m] <= t /\ Months[m + 1] \in Nat
    BY <1>1
  <2>4. t < 24 * Months[m + 1]
    <3>1. CASE m + 1 = N
      BY <1>4, <3>1
    <3>2. CASE m + 1 # N
      <4>1. m + 1 \in 1 .. N - 1 /\ ~(m + 1 <= m)
        BY <1>1, <2>3, <3>2
      <4>2. ~(24 * Months[m + 1] <= t)
        BY <2>2, <4>1
      <4>3. 24 * Months[m + 1] \in Int
        BY <2>3
      <4> QED
        BY <4>2, <4>3
    <3> QED
      BY <3>1, <3>2
  <2> QED
    BY <2>3, <2>4
<1>5. ASSUME NEW m \in 1 .. N - 1, 24 * Months[m] <= t, t < 24 * Months[m + 1]
      PROVE  24 * Months[1] <= t /\ t < 24 * Months[N]
  <2>1. 1 \in 1 .. N /\ m \in 1 .. N /\ m + 1 \in 1 .. N /\ N \in 1 .. N /\ m < N
    BY <1>1
  <2>2. Months[m + 1] <= Months[N]
    BY <1>2, <2>1
  <2>3. Months[1] <= Months[m]
    <3>1. CASE m = 1
      BY <1>1, <2>1, <3>1
    <3>2. CASE m # 1
      <4>1. 1 < m /\ 1 + 1 \in 1 .. N
        BY <1>1, <3>2
      <4>2. Months[1 + 1] <= Months[m]
        BY <1>2, <2>1, <4>1
      <4>3. Months[1] < Months[1 + 1]
        <5>1. 1 \in 1 .. Len(Months) - 1
          BY <1>1 DEF N
        <5> QED
          BY <5>1, ScreensAssumption
      <4> QED
        BY <1>1, <2>1, <4>1, <4>2, <4>3
    <3> QED
      BY <3>1, <3>2
  <2> DEFINE a == Months[1]
             b == Months[m]
             c == Months[m + 1]
             e == Months[N]
  <2>4. a \in Nat /\ b \in Nat /\ c \in Nat /\ e \in Nat /\ a <= b /\ c <= e /\ 24 * b <= t /\ t < 24 * c
    BY <1>1, <1>5, <2>1, <2>2, <2>3
  <2> HIDE DEF a, b, c, e
  <2>5. 24 * a <= t /\ t < 24 * e
    BY <2>4
  <2> QED
    BY <2>5 DEF a, e
<1>6. ASSUME NEW i \in 1 .. N - 1, NEW j \in 1 .. N - 1, i < j, t < 24 * Months[i + 1], 24 * Months[j] <= t
      PROVE  FALSE
  <2>1. i \in 1 .. N /\ j \in 1 .. N /\ i + 1 \in 1 .. N
    BY <1>1
  <2>2. Months[i + 1] <= Months[j] /\ Months[i + 1] \in Nat /\ Months[j] \in Nat
    BY <1>1, <1>2, <1>6, <2>1
  <2> QED
    BY <1>6, <2>2
<1>7. \A i, j \in MonthsOfYear : t \in Period({i}) /\ t \in Period({j}) => i = j
  <2>1. TAKE i, j \in MonthsOfYear
  <2>2. HAVE t \in Period({i}) /\ t \in Period({j})
  <2>3. ~(i < j) /\ ~(j < i)
    BY <1>1, <1>3, <1>6, <2>2
  <2> QED
    BY <1>1, <2>3
<1> QED
  BY <1>1, <1>3, <1>4, <1>5, <1>7

\* So what happens in a year, happens in one of its months each.
LEMMA YearParts ==
    ASSUME NEW X, IsFiniteSet(X), NEW at, \A x \in X : at[x] \in Int
    PROVE  LET P == [m \in MonthsOfYear |-> {x \in X : at[x] \in Period({m})}]
           IN /\ {x \in X : at[x] \in Period(MonthsOfYear)} = UNION {P[m] : m \in MonthsOfYear}
              /\ P \in [MonthsOfYear -> SUBSET X]
              /\ \A m \in MonthsOfYear : IsFiniteSet(P[m])
              /\ \A i, j \in MonthsOfYear : i # j => P[i] \cap P[j] = {}
<1> DEFINE Y == {x \in X : at[x] \in Period(MonthsOfYear)}
           P == [m \in MonthsOfYear |-> {x \in X : at[x] \in Period({m})}]
<1>1. \A x \in X : /\ at[x] \in Period(MonthsOfYear) <=> \E m \in MonthsOfYear : at[x] \in Period({m})
                   /\ \A i, j \in MonthsOfYear : at[x] \in Period({i}) /\ at[x] \in Period({j}) => i = j
  BY OneMonth
<1>2. Y = UNION {P[m] : m \in MonthsOfYear}
  <2>1. \A m \in MonthsOfYear : P[m] = {x \in X : at[x] \in Period({m})}
    OBVIOUS
  <2>2. ASSUME NEW x \in Y
        PROVE  \E m \in MonthsOfYear : x \in P[m]
    BY <1>1, <2>1
  <2>3. ASSUME NEW m \in MonthsOfYear, NEW x \in P[m]
        PROVE  x \in Y
    <3>1. x \in X /\ at[x] \in Period({m})
      BY <2>1
    <3> QED
      BY <1>1, <3>1
  <2> HIDE DEF Y, P
  <2> QED
    BY <2>2, <2>3
<1>3. P \in [MonthsOfYear -> SUBSET X] /\ \A m \in MonthsOfYear : P[m] \in SUBSET X
  OBVIOUS
<1>4. \A i, j \in MonthsOfYear : i # j => P[i] \cap P[j] = {}
  BY <1>1
<1>5. \A m \in MonthsOfYear : IsFiniteSet(P[m])
  BY <1>3, FS_Subset
<1> QED
  BY <1>2, <1>3, <1>4, <1>5

\* The fields of the figures, one by one.
LEMMA FiguresAre ==
    /\ \A months : Figures(months).total_meetings = Cardinality(MeetingsHeld(Kinds, months))
    /\ \A months : Figures(months).total_calls = Cardinality(MeetingsHeld({"CALL"}, months))
    /\ \A months : Figures(months).client_visits = Cardinality(MeetingsHeld({"VISIT"}, months))
    /\ \A months : Figures(months).new_clients_added = Cardinality(NewClients(months))
<1>1. \A months : Figures(months).total_meetings = Cardinality(MeetingsHeld(Kinds, months))
  BY DEF Figures
<1>2. \A months : Figures(months).total_calls = Cardinality(MeetingsHeld({"CALL"}, months))
  BY DEF Figures
<1>3. \A months : Figures(months).client_visits = Cardinality(MeetingsHeld({"VISIT"}, months))
  BY DEF Figures
<1>4. \A months : Figures(months).new_clients_added = Cardinality(NewClients(months))
  BY DEF Figures
<1> QED
  BY <1>1, <1>2, <1>3, <1>4

\* Those in money.
LEMMA MoneyFiguresAre ==
    /\ \A months : Figures(months).gross_sales
          = Total([c \in DOMAIN clients |-> clients[c].sale.amount], Sales(months))
    /\ \A months : Figures(months).aum_growth
          = Total([c \in DOMAIN clients |-> clients[c].aum], DOMAIN clients)
<1>1. \A months : Figures(months).gross_sales
          = Total([c \in DOMAIN clients |-> clients[c].sale.amount], Sales(months))
  BY DEF Figures
<1>2. \A months : Figures(months).aum_growth
          = Total([c \in DOMAIN clients |-> clients[c].aum], DOMAIN clients)
  BY DEF Figures
<1> QED
  BY <1>1, <1>2

\* Those of the book of clients.
LEMMA BookFiguresAre ==
    /\ \A months : Figures(months).total_clients = Cardinality(DOMAIN clients)
    /\ \A months : Figures(months).diamond_clients = Cardinality(OfTier("DIAMOND"))
    /\ \A months : Figures(months).platinum_clients = Cardinality(OfTier("PLATINUM"))
    /\ \A months : Figures(months).client_retention_rate
          = IF Cardinality(DOMAIN clients) = 0 THEN 0
            ELSE Rounded(1000 * Cardinality(Contacted(months)), Cardinality(DOMAIN clients))
<1>1. \A months : Figures(months).total_clients = Cardinality(DOMAIN clients)
  BY DEF Figures
<1>2. \A months : Figures(months).diamond_clients = Cardinality(OfTier("DIAMOND"))
  BY DEF Figures
<1>3. \A months : Figures(months).platinum_clients = Cardinality(OfTier("PLATINUM"))
  BY DEF Figures
<1>4. \A months : Figures(months).client_retention_rate
          = IF Cardinality(DOMAIN clients) = 0 THEN 0
            ELSE Rounded(1000 * Cardinality(Contacted(months)), Cardinality(DOMAIN clients))
  BY DEF Figures
<1> QED
  BY <1>1, <1>2, <1>3, <1>4

\* What is counted by the time it happened, the months' counts add up.
LEMMA CountOfYear ==
    ASSUME NEW X, IsFiniteSet(X), NEW at, \A x \in X : at[x] \in Int
    PROVE  Cardinality({x \in X : at[x] \in Period(MonthsOfYear)})
           = Total([m \in MonthsOfYear |-> Cardinality({x \in X : at[x] \in Period({m})})], MonthsOfYear)
<1> DEFINE Y == {x \in X : at[x] \in Period(MonthsOfYear)}
           P == [m \in MonthsOfYear |-> {x \in X : at[x] \in Period({m})}]
<1>1. /\ Y = UNION {P[m] : m \in MonthsOfYear}
      /\ P \in [MonthsOfYear -> SUBSET X]
      /\ \A m \in MonthsOfYear : IsFiniteSet(P[m])
      /\ \A i, j \in MonthsOfYear : i # j => P[i] \cap P[j] = {}
  BY YearParts
<1>2. IsFiniteSet(MonthsOfYear)
  BY YearIs
<1>3. [m \in MonthsOfYear |-> Cardinality(P[m])]
      = [m \in MonthsOfYear |-> Cardinality({x \in X : at[x] \in Period({m})})]
  OBVIOUS
<1> HIDE DEF Y, P
<1>4. Cardinality(UNION {P[m] : m \in MonthsOfYear}) = Total([m \in MonthsOfYear |-> Cardinality(P[m])], MonthsOfYear)
  BY <1>1, <1>2, CountParts
<1> QED
  BY <1>1, <1>3, <1>4 DEF Y

\* The meetings of the months make those of the year.
LEMMA YearMeetings ==
    ASSUME ScreensTypeOK
    PROVE  /\ Figures(MonthsOfYear).total_meetings
              = Total([m \in MonthsOfYear |-> Figures({m}).total_meetings], MonthsOfYear)
           /\ Figures(MonthsOfYear).total_meetings
              >= Figures(MonthsOfYear).total_calls + Figures(MonthsOfYear).client_visits
<1> DEFINE X == {m \in DOMAIN meetings : meetings[m].kind \in Kinds}
           at == [m \in DOMAIN meetings |-> meetings[m].at]
<1>1. IsFiniteSet(X) /\ \A x \in X : at[x] \in Int
  <2>1. IsFiniteSet(DOMAIN meetings) /\ X \in SUBSET DOMAIN meetings
    BY DocumentsAre
  <2> QED
    BY <2>1, DocumentsAre, FS_Subset
<1>2. \A months : MeetingsHeld(Kinds, months) = {x \in X : at[x] \in Period(months)}
  BY DEF MeetingsHeld
<1> HIDE DEF X, at
<1>3. Cardinality({x \in X : at[x] \in Period(MonthsOfYear)})
      = Total([m \in MonthsOfYear |-> Cardinality({x \in X : at[x] \in Period({m})})], MonthsOfYear)
  BY <1>1, CountOfYear
<1>4. [m \in MonthsOfYear |-> Cardinality({x \in X : at[x] \in Period({m})})]
      = [m \in MonthsOfYear |-> Figures({m}).total_meetings]
  <2>1. \A m \in MonthsOfYear : Figures({m}).total_meetings = Cardinality({x \in X : at[x] \in Period({m})})
    BY <1>2, FiguresAre
  <2> QED
    BY <2>1
<1>5. Figures(MonthsOfYear).total_meetings = Cardinality({x \in X : at[x] \in Period(MonthsOfYear)})
  BY <1>2, FiguresAre
<1>6. Figures(MonthsOfYear).total_meetings
      >= Figures(MonthsOfYear).total_calls + Figures(MonthsOfYear).client_visits
  <2> DEFINE all == MeetingsHeld(Kinds, MonthsOfYear)
             c == MeetingsHeld({"CALL"}, MonthsOfYear)
             v == MeetingsHeld({"VISIT"}, MonthsOfYear)
  <2>1. c \cap v = {} /\ c \cup v \in SUBSET all /\ all \in SUBSET DOMAIN meetings
    BY DEF MeetingsHeld, Kinds
  <2>2. /\ Figures(MonthsOfYear).total_meetings = Cardinality(all)
        /\ Figures(MonthsOfYear).total_calls = Cardinality(c)
        /\ Figures(MonthsOfYear).client_visits = Cardinality(v)
    BY FiguresAre
  <2> HIDE DEF all, c, v
  <2>3. IsFiniteSet(all) /\ IsFiniteSet(c) /\ IsFiniteSet(v)
    <3>1. IsFiniteSet(all)
      BY <2>1, DocumentsAre, FS_Subset
    <3> QED
      BY <2>1, <3>1, FS_Subset
  <2>4. Cardinality(c \cup v) = Cardinality(c) + Cardinality(v) - Cardinality(c \cap v) /\ Cardinality(c \cap v) = 0
    BY <2>1, <2>3, FS_Union, FS_EmptySet
  <2>5. Cardinality(c \cup v) <= Cardinality(all)
    BY <2>1, <2>3, FS_Subset
  <2>6. Cardinality(c) \in Nat /\ Cardinality(v) \in Nat /\ Cardinality(all) \in Nat
    BY <2>3, FS_CardinalityType
  <2> QED
    BY <2>2, <2>4, <2>5, <2>6
<1> QED
  BY <1>3, <1>4, <1>5, <1>6

\* So do the new clients, and the clients contacted.
LEMMA YearClients ==
    ASSUME ScreensTypeOK
    PROVE  /\ Figures(MonthsOfYear).new_clients_added
              = Total([m \in MonthsOfYear |-> Figures({m}).new_clients_added], MonthsOfYear)
           /\ Contacted(MonthsOfYear) = UNION {Contacted({m}) : m \in MonthsOfYear}
<1> DEFINE X == DOMAIN clients
           since == [c \in X |-> clients[c].since]
           last == [c \in X |-> clients[c].last]
<1>1. IsFiniteSet(X) /\ (\A x \in X : since[x] \in Int) /\ \A x \in X : last[x] \in Int
  BY DocumentsAre
<1>2. \A months : /\ NewClients(months) = {x \in X : since[x] \in Period(months)}
                  /\ Contacted(months) = {x \in X : last[x] \in Period(months)}
  BY DEF NewClients, Contacted
<1> HIDE DEF X, since, last
<1>3. Cardinality({x \in X : since[x] \in Period(MonthsOfYear)})
      = Total([m \in MonthsOfYear |-> Cardinality({x \in X : since[x] \in Period({m})})], MonthsOfYear)
  BY <1>1, CountOfYear
<1>4. [m \in MonthsOfYear |-> Cardinality({x \in X : since[x] \in Period({m})})]
      = [m \in MonthsOfYear |-> Figures({m}).new_clients_added]
  <2>1. \A m \in MonthsOfYear : Figures({m}).new_clients_added = Cardinality({x \in X : since[x] \in Period({m})})
    BY <1>2, FiguresAre
  <2> QED
    BY <2>1
<1>5. Figures(MonthsOfYear).new_clients_added = Cardinality({x \in X : since[x] \in Period(MonthsOfYear)})
  BY <1>2, FiguresAre
<1> DEFINE P == [m \in MonthsOfYear |-> {x \in X : last[x] \in Period({m})}]
<1>6. {x \in X : last[x] \in Period(MonthsOfYear)} = UNION {P[m] : m \in MonthsOfYear}
  BY <1>1, YearParts
<1>7. {P[m] : m \in MonthsOfYear} = {Contacted({m}) : m \in MonthsOfYear}
  <2>1. \A m \in MonthsOfYear : P[m] = Contacted({m})
    BY <1>2
  <2> HIDE DEF P
  <2> QED
    BY <2>1
<1>8. Contacted(MonthsOfYear) = UNION {Contacted({m}) : m \in MonthsOfYear}
  BY <1>2, <1>6, <1>7
<1> QED
  BY <1>3, <1>4, <1>5, <1>8

\* And so do the sales.
LEMMA YearSales ==
    ASSUME ScreensTypeOK
    PROVE  Figures(MonthsOfYear).gross_sales
           = Total([m \in MonthsOfYear |-> Figures({m}).gross_sales], MonthsOfYear)
<1> DEFINE D == DOMAIN clients
           X == {c \in D : clients[c].sale.type = "BUY" /\ clients[c].sale.status = "SETTLED"}
           at == [c \in D |-> clients[c].sale.at]
           amount == [c \in D |-> clients[c].sale.amount]
           P == [m \in MonthsOfYear |-> {x \in X : at[x] \in Period({m})}]
<1>1. IsFiniteSet(D) /\ X \in SUBSET D /\ (\A x \in X : at[x] \in Int) /\ amount \in [D -> Int]
  BY DocumentsAre
<1>2. \A months : Sales(months) = {x \in X : at[x] \in Period(months)}
  BY DEF Sales
<1>3. IsFiniteSet(X)
  BY <1>1, FS_Subset
<1>4. \A months : Figures(months).gross_sales = Total(amount, Sales(months))
  BY MoneyFiguresAre
<1>5. IsFiniteSet(MonthsOfYear)
  BY YearIs
<1> HIDE DEF X, at, D, amount
<1>6. /\ {x \in X : at[x] \in Period(MonthsOfYear)} = UNION {P[m] : m \in MonthsOfYear}
      /\ P \in [MonthsOfYear -> SUBSET X]
      /\ \A m \in MonthsOfYear : IsFiniteSet(P[m])
      /\ \A i, j \in MonthsOfYear : i # j => P[i] \cap P[j] = {}
  BY <1>1, <1>3, YearParts
<1>7. \A m \in MonthsOfYear : P[m] = Sales({m})
  BY <1>2
<1> HIDE DEF P
<1>8. P \in [MonthsOfYear -> SUBSET D]
  BY <1>1, <1>6
<1>9. Total(amount, UNION {P[m] : m \in MonthsOfYear}) = Total([m \in MonthsOfYear |-> Total(amount, P[m])], MonthsOfYear)
  <2>1. amount \in [D -> Int]
    BY <1>1
  <2>2. \A m \in MonthsOfYear : IsFiniteSet(P[m])
    BY <1>6
  <2>3. \A i, j \in MonthsOfYear : i # j => P[i] \cap P[j] = {}
    BY <1>6
  <2>4. /\ IsFiniteSet(UNION {P[m] : m \in MonthsOfYear})
        /\ Total(amount, UNION {P[m] : m \in MonthsOfYear})
           = Total([m \in MonthsOfYear |-> Total(amount, P[m])], MonthsOfYear)
    BY ONLY <2>1, <1>5, <1>8, <2>2, <2>3, TotalParts
  <2> QED
    BY <2>4
<1>10. [m \in MonthsOfYear |-> Total(amount, P[m])] = [m \in MonthsOfYear |-> Figures({m}).gross_sales]
  BY <1>4, <1>7
<1> QED
  BY <1>2, <1>4, <1>6, <1>9, <1>10

\* PeriodsAddUp: the figures of the months add up to those of the year, but for the
\* growth, which is the whole AUM in any period.
THEOREM MonthsMakeTheYear == ScreensSpec => []PeriodsAddUp
<1>1. ASSUME ScreensTypeOK
      PROVE  PeriodsAddUp
  <2> USE <1>1
  <2>1. ASSUME NEW m \in MonthsOfYear
        PROVE  /\ Figures({m}).client_retention_rate <= Figures(MonthsOfYear).client_retention_rate
               /\ Figures({m}).aum_growth = Figures(MonthsOfYear).aum_growth
    <3> DEFINE n == Cardinality(DOMAIN clients)
               x == 1000 * Cardinality(Contacted({m}))
               z == 1000 * Cardinality(Contacted(MonthsOfYear))
    <3>1. Figures({m}).aum_growth = Figures(MonthsOfYear).aum_growth
      BY MoneyFiguresAre
    <3>2. n \in Nat
      BY DocumentsAre, FS_CardinalityType
    <3>3. /\ Figures({m}).client_retention_rate = IF n = 0 THEN 0 ELSE Rounded(x, n)
          /\ Figures(MonthsOfYear).client_retention_rate = IF n = 0 THEN 0 ELSE Rounded(z, n)
      BY BookFiguresAre
    <3>4. x \in Int /\ z \in Int /\ x <= z
      <4>1. Contacted({m}) \in SUBSET Contacted(MonthsOfYear)
        BY YearClients
      <4>2. IsFiniteSet(Contacted(MonthsOfYear))
        <5>1. Contacted(MonthsOfYear) \in SUBSET DOMAIN clients
          BY DEF Contacted
        <5> QED
          BY <5>1, DocumentsAre, FS_Subset
      <4>3. Cardinality(Contacted({m})) <= Cardinality(Contacted(MonthsOfYear)) /\ IsFiniteSet(Contacted({m}))
        BY <4>1, <4>2, FS_Subset
      <4>4. Cardinality(Contacted({m})) \in Nat /\ Cardinality(Contacted(MonthsOfYear)) \in Nat
        BY <4>2, <4>3, FS_CardinalityType
      <4> QED
        BY <4>3, <4>4
    <3> HIDE DEF n, x, z
    <3>5. n # 0 => Rounded(x, n) <= Rounded(z, n)
      BY <3>2, <3>4, RoundedMonotone
    <3> QED
      BY <3>1, <3>2, <3>3, <3>5
  <2> QED
    BY <2>1, YearMeetings, YearClients, YearSales DEF PeriodsAddUp
<1> QED
  BY <1>1, TypeInvariant, PTL

-----------------------------------------------------------------------------
(* The answers in words *)

\* A question is taken for what it is about, also when it opens with a word that the
\* pattern for names, the last one, matches.
LEMMA IntentIs ==
    ASSUME NEW i \in 1 .. 6, NEW of, NEW show \in BOOLEAN
    PROVE  Intent(Question(Patterns[i], of, show)) = Patterns[i]
<1> DEFINE q == Question(Patterns[i], of, show)
           matched == {j \in DOMAIN Patterns : Patterns[j] \in Matching(q)}
<1>1. DOMAIN Patterns = 1 .. 7
  BY DEF Patterns
<1>2. \A j \in 1 .. 6 : Patterns[j] # "find" /\ (Patterns[j] = Patterns[i] => j = i)
  BY DEF Patterns
<1>3. q.kind = Patterns[i]
  BY DEF Question
<1>4. Matching(q) \subseteq {Patterns[i], "find"} /\ Patterns[i] \in Matching(q)
  BY <1>3 DEF Matching
<1> HIDE DEF q
<1>5. i \in matched /\ \A j \in matched : j = i \/ j = 7
  <2>1. i \in matched
    BY <1>1, <1>4
  <2>2. ASSUME NEW j \in matched, j # 7
        PROVE  j = i
    <3>1. j \in 1 .. 6 /\ Patterns[j] \in {Patterns[i], "find"}
      BY <1>1, <1>4, <2>2
    <3> QED
      BY <1>2, <3>1
  <2> QED
    BY <2>1, <2>2
<1> HIDE DEF matched
<1>6. Min(matched) = i
  <2>1. \A j \in matched : i <= j
    BY <1>5
  <2>2. ASSUME NEW j \in matched, \A k \in matched : j <= k
        PROVE  j = i
    BY <1>5, <2>2
  <2> QED
    BY <1>5, <2>1, <2>2 DEF Min
<1>7. Intent(q) = Patterns[Min(matched)]
  BY <1>5 DEF Intent, matched
<1> QED
  BY <1>6, <1>7 DEF q

\* So each question gets the answer meant for it.
LEMMA AnswersAre ==
    ASSUME NEW of, NEW show \in BOOLEAN
    PROVE  /\ Told(Question("count", of, show)) = CountAnswer(of)
           /\ Told(Question("aum", of, show)) = SumAnswer
           /\ Told(Question("list", of, show)) = Cardinality(ListAnswer(of))
           /\ Listed(Question("alerts", of, show)) = AlertAnswer(of)
           /\ Listed(Question("meetings", of, show)) = MeetingAnswer(of)
<1>1. /\ Patterns[1] = "count" /\ Patterns[2] = "list" /\ Patterns[3] = "aum"
      /\ Patterns[4] = "alerts" /\ Patterns[5] = "meetings"
  BY DEF Patterns
<1>2. /\ Intent(Question("count", of, show)) = "count"
      /\ Intent(Question("list", of, show)) = "list"
      /\ Intent(Question("aum", of, show)) = "aum"
  BY <1>1, IntentIs
<1>3. /\ Intent(Question("alerts", of, show)) = "alerts"
      /\ Intent(Question("meetings", of, show)) = "meetings"
  BY <1>1, IntentIs
<1>4. \A kind : Question(kind, of, show).of = of
  BY DEF Question
<1>5. Told(Question("count", of, show)) = CountAnswer(of) /\ Told(Question("aum", of, show)) = SumAnswer
  BY <1>2, <1>4 DEF Told
<1>6. Told(Question("list", of, show)) = Cardinality(ListAnswer(of))
  BY <1>2, <1>4 DEF Told, Listed
<1>7. /\ Listed(Question("alerts", of, show)) = AlertAnswer(of)
      /\ Listed(Question("meetings", of, show)) = MeetingAnswer(of)
  BY <1>3, <1>4 DEF Listed
<1> QED
  BY <1>5, <1>6, <1>7

\* Every client but those of an unknown tier is shown under one tier; who was imported
\* in small letters is not counted.
LEMMA TiersAre ==
    ASSUME ScreensTypeOK
    PROVE  /\ Cardinality(DOMAIN clients)
                 = Cardinality(UNION {ClientsShown(tier) : tier \in Tiers}) + Cardinality(OfTier("BLACK"))
           /\ \A tier \in Tiers : OfTier(tier) = {c \in ClientsShown(tier) : clients[c].tier \in Tiers}
           /\ \A tier \in Tiers : Asked(tier) = OfTier(tier)
<1> DEFINE Shown == UNION {ClientsShown(tier) : tier \in Tiers}
           Rest == OfTier("BLACK")
<1>1. \A tier \in Tiers : \A c : c \in ClientsShown(tier) <=> c \in DOMAIN clients /\ clients[c].tier \in Spellings(tier)
  BY DEF ClientsShown, OfTier
<1>2. \A c \in DOMAIN clients : clients[c].tier = "BLACK" \/ \E tier \in Tiers : clients[c].tier \in Spellings(tier)
  <2>1. \A x : x \in Stored => x = "BLACK" \/ \E tier \in Tiers : x \in Spellings(tier)
    BY DEF Stored
  <2>2. \A c \in DOMAIN clients : clients[c].tier \in Stored
    BY DocumentsAre
  <2> QED
    BY ONLY <2>1, <2>2
<1>3. \A s, tier \in Tiers : s \in Spellings(tier) <=> s = tier
  BY DEF Tiers, Spellings
<1>4. \A tier \in Tiers : "BLACK" \notin Spellings(tier)
  BY DEF Tiers, Spellings
<1>5. \A c : c \in Rest <=> c \in DOMAIN clients /\ clients[c].tier = "BLACK"
  BY DEF OfTier
<1>6. \A c : c \in Shown <=> \E tier \in Tiers : c \in ClientsShown(tier)
  OBVIOUS
<1>7. Shown \cup Rest = DOMAIN clients /\ Shown \cap Rest = {}
  <2> HIDE DEF Shown, Rest
  <2> QED
    BY <1>1, <1>2, <1>4, <1>5, <1>6
<1>8. Cardinality(DOMAIN clients) = Cardinality(Shown) + Cardinality(Rest)
  <2>1. Shown \in SUBSET DOMAIN clients /\ Rest \in SUBSET DOMAIN clients /\ IsFiniteSet(DOMAIN clients)
    BY <1>7, DocumentsAre
  <2> HIDE DEF Shown, Rest
  <2>2. IsFiniteSet(Shown) /\ IsFiniteSet(Rest)
    BY <2>1, FS_Subset
  <2>3. Cardinality(Shown \cup Rest) = Cardinality(Shown) + Cardinality(Rest) - Cardinality(Shown \cap Rest)
    BY <2>2, FS_Union
  <2>4. Cardinality(Shown \cap Rest) = 0 /\ Cardinality(Shown) \in Nat /\ Cardinality(Rest) \in Nat
    BY <1>7, <2>2, FS_EmptySet, FS_CardinalityType
  <2> QED
    BY <1>7, <2>3, <2>4
<1>9. \A tier \in Tiers : OfTier(tier) = {c \in ClientsShown(tier) : clients[c].tier \in Tiers}
  <2>1. TAKE tier \in Tiers
  <2>2. \A c : c \in OfTier(tier) <=> c \in DOMAIN clients /\ clients[c].tier = tier
    BY DEF OfTier
  <2> QED
    BY <1>1, <1>3, <2>2
<1>10. \A tier \in Tiers : Asked(tier) = OfTier(tier)
  BY DEF Asked, Tiers
<1> QED
  BY <1>8, <1>9, <1>10

\* The list of a tier is as long as its count, up to the limit.
LEMMA ListIs ==
    ASSUME ScreensTypeOK, NEW S \in SUBSET DOMAIN clients
    PROVE  Cardinality(Best(S, ListLimit, <)) = AtMost(ListLimit, Cardinality(S))
<1> DEFINE R == {p \in S \X S : p[1] < p[2]}
<1>1. \A x, y \in S : <<x, y>> \in R <=> x < y
  OBVIOUS
<1>2. IsFiniteSet(S) /\ \A x \in S : x \in Nat
  <2>1. IsFiniteSet(DOMAIN clients) /\ DOMAIN clients \subseteq Nat
    BY DocumentsAre
  <2> QED
    BY <2>1, FS_Subset
<1> HIDE DEF R
<1>3. Ordered(R, S)
  BY <1>1, <1>2 DEF Ordered
<1>4. Best(S, ListLimit, <) = First(S, ListLimit, R)
  <2>1. \A x \in S : {y \in S : y < x} = {y \in S : <<y, x>> \in R}
    BY <1>1
  <2> QED
    BY <2>1 DEF Best, First
<1>5. ListLimit \in Nat
  BY ScreensAssumption
<1>6. Cardinality(First(S, ListLimit, R)) = AtMost(ListLimit, Cardinality(S))
  BY <1>2, <1>3, <1>5, FirstIs
<1> QED
  BY <1>4, <1>6

\* The questions about clients and amounts.
LEMMA BookAnswers ==
    ASSUME ScreensTypeOK, NEW show \in BOOLEAN, NEW months
    PROVE  /\ Told(Question("count", "any", show))
                 = Cardinality(UNION {ClientsShown(tier) : tier \in Tiers}) + Cardinality(OfTier("BLACK"))
           /\ Told(Question("count", "any", show)) = Figures(months).total_clients
           /\ \A tier \in Tiers :
                 Told(Question("count", tier, show)) = Cardinality({c \in ClientsShown(tier) : clients[c].tier \in Tiers})
           /\ Told(Question("count", "DIAMOND", show)) = Figures(months).diamond_clients
           /\ Told(Question("count", "PLATINUM", show)) = Figures(months).platinum_clients
           /\ \A tier \in Tiers :
                 Told(Question("list", tier, show)) = AtMost(ListLimit, Told(Question("count", tier, show)))
           /\ Told(Question("aum", "any", show)) = Figures(months).aum_growth
<1>1. Told(Question("count", "any", show)) = Cardinality(DOMAIN clients)
  BY AnswersAre DEF CountAnswer, Asked
<1>2. \A tier \in Tiers : Told(Question("count", tier, show)) = Cardinality(OfTier(tier))
  BY AnswersAre, TiersAre DEF CountAnswer
<1>3. "DIAMOND" \in Tiers /\ "PLATINUM" \in Tiers
  BY DEF Tiers
<1>4. \A tier \in Tiers : Told(Question("list", tier, show)) = AtMost(ListLimit, Cardinality(OfTier(tier)))
  <2>1. TAKE tier \in Tiers
  <2>2. OfTier(tier) \in SUBSET DOMAIN clients
    BY DEF OfTier
  <2>3. Told(Question("list", tier, show)) = Cardinality(Best(OfTier(tier), ListLimit, <))
    BY AnswersAre, TiersAre DEF ListAnswer
  <2> QED
    BY <2>2, <2>3, ListIs
<1>5. Told(Question("aum", "any", show)) = Total([c \in DOMAIN clients |-> clients[c].aum], DOMAIN clients)
  BY AnswersAre DEF SumAnswer
<1>6. Figures(months).total_clients = Cardinality(DOMAIN clients)
  BY BookFiguresAre
<1>7. /\ Figures(months).diamond_clients = Cardinality(OfTier("DIAMOND"))
      /\ Figures(months).platinum_clients = Cardinality(OfTier("PLATINUM"))
  BY BookFiguresAre
<1>8. Figures(months).aum_growth = Total([c \in DOMAIN clients |-> clients[c].aum], DOMAIN clients)
  BY MoneyFiguresAre
<1>9. Cardinality(DOMAIN clients)
         = Cardinality(UNION {ClientsShown(tier) : tier \in Tiers}) + Cardinality(OfTier("BLACK"))
  BY TiersAre
<1>10. \A tier \in Tiers :
         Told(Question("count", tier, show)) = Cardinality({c \in ClientsShown(tier) : clients[c].tier \in Tiers})
  BY <1>2, TiersAre
<1> QED
  BY <1>1, <1>2, <1>3, <1>4, <1>5, <1>6, <1>7, <1>8, <1>9, <1>10


\* The question about the new alerts.
LEMMA AlertAnswers ==
    ASSUME ScreensTypeOK
    PROVE  LET Answer == AlertAnswer("new") IN
           /\ Answer \subseteq BriefingAlerts
           /\ \A a \in BriefingAlerts \ Answer : Cardinality({b \in Answer : Newer(b, a)}) = ShortLimit
           /\ Total(Severities("new"), {"high", "medium", "low"})
                 = Cardinality({a \in Answer : alerts[a].severity # "critical"})
<1> DEFINE word == "new"
<1>0. StatusAsked(word) = "NEW"
  BY DEF StatusAsked
<1>1. /\ AlertAnswer(word) \subseteq With({StatusAsked(word)}) /\ IsFiniteSet(AlertAnswer(word))
      /\ \A x \in With({StatusAsked(word)}) \ AlertAnswer(word) :
            Cardinality({b \in AlertAnswer(word) : Newer(b, x)}) = ShortLimit
  <2> DEFINE S == With({StatusAsked(word)})
             B == AlertAnswer(word)
  <2>1. S \in SUBSET DOMAIN alerts /\ ShortLimit \in Nat
    BY WithIs, ScreensAssumption
  <2>2. B = Best(S, ShortLimit, Newer)
    BY DEF AlertAnswer
  <2> HIDE DEF S, B
  <2>3. /\ B \subseteq S /\ IsFiniteSet(B) /\ IsFiniteSet(S)
        /\ Cardinality(B) = AtMost(ShortLimit, Cardinality(S))
        /\ \A x \in S \ B : \A y \in B : Newer(y, x)
    BY <2>1, <2>2, NewestIs
  <2>4. ASSUME NEW x \in S \ B
        PROVE  Cardinality({b \in B : Newer(b, x)}) = ShortLimit
    <3>1. {b \in B : Newer(b, x)} = B
      BY <2>3
    <3>2. Cardinality(B) = ShortLimit
      BY <2>1, <2>3, FullList
    <3> QED
      BY <3>1, <3>2
  <2> QED
    BY <2>3, <2>4 DEF S, B
\* No alert has the status PENDING, so those of the briefing are the new ones.
<1>2. BriefingAlerts = With({StatusAsked(word)})
  <2>1. \A a \in DOMAIN alerts : alerts[a].status # "PENDING"
    BY AlertIs DEF Open, Closed
  <2> QED
    BY <1>0, <2>1 DEF BriefingAlerts, With
<1>3. Total(Severities(word), {"high", "medium", "low"})
         = Cardinality({a \in AlertAnswer(word) : alerts[a].severity # "critical"})
  <2> DEFINE B == AlertAnswer(word)
             I == {"high", "medium", "low"}
             P == [s \in I |-> {a \in B : alerts[a].severity = s}]
  <2>1. IsFiniteSet(B) /\ \A a \in B : alerts[a].severity \in {"critical", "high", "medium", "low"}
    <3>1. B \subseteq DOMAIN alerts
      BY <1>1 DEF With
    <3> QED
      BY <1>1, <3>1, AlertIs
  <2>2. IsFiniteSet(I)
    <3>1. IsFiniteSet({"high"}) /\ IsFiniteSet({"medium"}) /\ IsFiniteSet({"low"})
      BY FS_Singleton
    <3>2. IsFiniteSet({"high"} \cup {"medium"})
      BY <3>1, FS_Union
    <3>3. IsFiniteSet(({"high"} \cup {"medium"}) \cup {"low"})
      BY <3>1, <3>2, FS_Union
    <3>4. I = ({"high"} \cup {"medium"}) \cup {"low"}
      OBVIOUS
    <3> QED
      BY <3>3, <3>4
  <2>3. Severities(word) = [s \in I |-> Cardinality(P[s])]
    BY DEF Severities
  <2>4. {a \in B : alerts[a].severity # "critical"} = UNION {P[s] : s \in I}
    <3>1. \A s \in I : P[s] = {a \in B : alerts[a].severity = s}
      OBVIOUS
    <3>2. \A a \in B : alerts[a].severity # "critical" <=> \E s \in I : a \in P[s]
      BY <2>1, <3>1
    <3>3. \A s \in I : P[s] \subseteq B
      BY <3>1
    <3> HIDE DEF P, B, I
    <3> QED
      BY <3>2, <3>3
  <2>5. P \in [I -> SUBSET B]
    OBVIOUS
  <2>6. \A s \in I : IsFiniteSet(P[s])
    BY <2>1, FS_Subset
  <2>7. \A s, t \in I : s # t => P[s] \cap P[t] = {}
    OBVIOUS
  <2> HIDE DEF P, B, I
  <2>8. Cardinality(UNION {P[s] : s \in I}) = Total([s \in I |-> Cardinality(P[s])], I)
    BY ONLY <2>2, <2>5, <2>6, <2>7, CountParts
  <2> QED
    BY <2>3, <2>4, <2>8 DEF B, I
<1> QED
  BY <1>1, <1>2, <1>3

\* The first n of the meetings of a set.
LEMMA SoonestIs ==
    ASSUME ScreensTypeOK, NEW S \in SUBSET DOMAIN meetings, NEW n \in Nat
    PROVE  /\ Best(S, n, Earlier) \subseteq S /\ IsFiniteSet(S)
           /\ Cardinality(Best(S, n, Earlier)) = AtMost(n, Cardinality(S))
           /\ \A x \in S \ Best(S, n, Earlier) : /\ Cardinality(Best(S, n, Earlier)) = n
                                                 /\ {y \in Best(S, n, Earlier) : Earlier(y, x)} = Best(S, n, Earlier)
<1> DEFINE R == {p \in S \X S : Earlier(p[1], p[2])}
<1>1. \A x, y \in S : <<x, y>> \in R <=> Earlier(x, y)
  OBVIOUS
<1>2. \A x \in S : meetings[x].at \in Int /\ x \in Nat
  BY DocumentsAre
<1>3. Ordered(R, S)
  <2> HIDE DEF R
  <2>1. \A x \in S : ~Earlier(x, x)
    BY <1>2 DEF Earlier
  <2>2. \A x, y \in S : x # y => Earlier(x, y) \/ Earlier(y, x)
    BY <1>2 DEF Earlier
  <2>3. \A x, y, z \in S : Earlier(x, y) /\ Earlier(y, z) => Earlier(x, z)
    BY <1>2 DEF Earlier
  <2> QED
    BY <1>1, <2>1, <2>2, <2>3 DEF Ordered
<1>4. Best(S, n, Earlier) = First(S, n, R)
  <2>1. \A x \in S : {y \in S : Earlier(y, x)} = {y \in S : <<y, x>> \in R}
    BY <1>1
  <2> QED
    BY <2>1 DEF Best, First
<1>5. IsFiniteSet(S)
  BY DocumentsAre, FS_Subset
<1> DEFINE B == First(S, n, R)
<1> HIDE DEF R
<1>6. /\ B \subseteq S /\ IsFiniteSet(B)
      /\ Cardinality(B) = AtMost(n, Cardinality(S))
      /\ \A x \in S \ B : \A y \in B : <<y, x>> \in R
  BY <1>3, <1>5, FirstIs
<1> HIDE DEF B
<1>7. ASSUME NEW x \in S \ B
      PROVE  Cardinality(B) = n /\ {y \in B : Earlier(y, x)} = B
  <2>1. Cardinality(B) = n
    BY <1>5, <1>6, FullList
  <2> QED
    BY <1>1, <1>6, <2>1
<1>8. Best(S, n, Earlier) = B
  BY <1>4 DEF B
<1> QED
  BY <1>5, <1>6, <1>7, <1>8

\* Today is a day of the week asked for, and tomorrow too unless today is a Sunday.
LEMMA WeekIs ==
    ASSUME ScreensTypeOK, NEW t \in Int
    PROVE  /\ t \in DateFilter("today") <=> Day(t) = Day(now)
           /\ t \in DateFilter("today") => t \in DateFilter("this week")
           /\ t \in DateFilter("tomorrow") /\ Day(now) % 7 # 0 => t \in DateFilter("this week")
           /\ t \in DateFilter("tomorrow") /\ Day(now) % 7 = 0 => t \notin DateFilter("this week")
           /\ t \in DateFilter("tomorrow") => t \notin DateFilter("today")
<1> DEFINE d == now \div 24
           k == d % 7
<1>1. now \in Nat
  BY NowIs
<1>2. d \in Nat /\ 24 * d <= now /\ now < 24 * d + 24
  BY <1>1
<1> HIDE DEF d
<1>3. k \in 0 .. 6
  BY <1>2
<1> HIDE DEF k
<1>4. DateFilter("today") = 24 * d .. 24 * d + 23
  BY <1>2 DEF DateFilter, Midnight, Day, d
<1>5. DateFilter("tomorrow") = 24 * d + 24 .. 24 * d + 24 + 23
  BY <1>2 DEF DateFilter, Midnight, Day, Days, d
<1> DEFINE week == DateFilter("this week")
<1>6. week = Days(Monday) .. Days(Monday + 6) + 23
  BY DEF DateFilter
<1> HIDE DEF week
<1>7. Day(now) = d /\ Day(now) % 7 = k
  BY DEF Day, d, k
<1>8. Monday = IF k = 0 THEN d - 6 ELSE d - k + 1
  BY <1>7 DEF Monday
<1>9. Day(t) \in Int /\ 24 * Day(t) <= t /\ t < 24 * Day(t) + 24
  BY DEF Day
<1>10. t \in 24 * d .. 24 * d + 23 <=> Day(t) = d
  <2> DEFINE e == Day(t)
  <2>1. e \in Int /\ 24 * e <= t /\ t < 24 * e + 24
    BY <1>9
  <2> HIDE DEF e
  <2>2. t \in 24 * d .. 24 * d + 23 <=> e = d
    BY <1>2, <2>1
  <2> QED
    BY <2>2 DEF e
<1>11. t \in DateFilter("today") <=> 24 * d <= t /\ t <= 24 * d + 23
  BY <1>2, <1>4
<1>12. t \in DateFilter("tomorrow") <=> 24 * d + 24 <= t /\ t <= 24 * d + 47
  BY <1>2, <1>5
<1>13. /\ k = 0 => (t \in week <=> 24 * d - 144 <= t /\ t <= 24 * d + 23)
       /\ k # 0 => (t \in week <=> 24 * d - 24 * k + 24 <= t /\ t <= 24 * d - 24 * k + 191)
  <2>1. ASSUME k = 0
        PROVE  t \in week <=> 24 * d - 144 <= t /\ t <= 24 * d + 23
    <3>1. Monday = d - 6
      BY <1>8, <2>1
    <3>2. Days(Monday) = 24 * d - 144 /\ Days(Monday + 6) + 23 = 24 * d + 23
      BY <1>2, <3>1 DEF Days
    <3> DEFINE a == 24 * d - 144
               b == 24 * d + 23
    <3>3. week = a .. b /\ a \in Int /\ b \in Int
      BY <1>2, <1>6, <3>2
    <3> HIDE DEF a, b
    <3>4. t \in week <=> a <= t /\ t <= b
      BY <3>3
    <3> QED
      BY <3>4 DEF a, b
  <2>2. ASSUME k # 0
        PROVE  t \in week <=> 24 * d - 24 * k + 24 <= t /\ t <= 24 * d - 24 * k + 191
    <3>1. Monday = d - k + 1
      BY <1>8, <2>2
    <3>2. Days(Monday) = 24 * d - 24 * k + 24 /\ Days(Monday + 6) + 23 = 24 * d - 24 * k + 191
      BY <1>2, <1>3, <3>1 DEF Days
    <3> DEFINE a == 24 * d - 24 * k + 24
               b == 24 * d - 24 * k + 191
    <3>3. week = a .. b /\ a \in Int /\ b \in Int
      BY <1>2, <1>3, <1>6, <3>2
    <3> HIDE DEF a, b
    <3>4. t \in week <=> a <= t /\ t <= b
      BY <3>3
    <3> QED
      BY <3>4 DEF a, b
  <2> QED
    BY <2>1, <2>2
<1>14. /\ t \in DateFilter("today") => t \in week
       /\ t \in DateFilter("tomorrow") /\ k # 0 => t \in week
       /\ t \in DateFilter("tomorrow") /\ k = 0 => t \notin week
       /\ t \in DateFilter("tomorrow") => t \notin DateFilter("today")
  <2>1. k \in Int /\ 0 <= k /\ k <= 6 /\ d \in Int
    BY <1>2, <1>3
  <2>2. 24 * d <= t /\ t <= 24 * d + 23 => /\ 24 * d - 144 <= t
                                           /\ k # 0 => 24 * d - 24 * k + 24 <= t /\ t <= 24 * d - 24 * k + 191
    BY <2>1
  <2>3. 24 * d + 24 <= t /\ t <= 24 * d + 47 => /\ ~(t <= 24 * d + 23)
                                                /\ k # 0 => 24 * d - 24 * k + 24 <= t /\ t <= 24 * d - 24 * k + 191
    BY <2>1
  <2> QED
    BY <1>11, <1>12, <1>13, <2>2, <2>3
<1>15. t \in DateFilter("today") <=> Day(t) = Day(now)
  BY <1>4, <1>7, <1>10
<1> QED
  BY <1>7, <1>14, <1>15 DEF week

\* The questions about meetings.
LEMMA MeetingAnswers ==
    ASSUME ScreensTypeOK
    PROVE  /\ MeetingAnswer("today") \subseteq MeetingsToday
           /\ Cardinality(MeetingAnswer("today")) = AtMost(MeetingLimit, Cardinality(MeetingsToday))
           /\ SummaryMeetings \subseteq MeetingsToday
           /\ \A m \in SummaryMeetings \ DashboardMeetings :
                 Cardinality({n \in DashboardMeetings : Earlier(n, m)}) = ShortLimit
           /\ \A m \in MeetingAnswer("today") \cup MeetingAnswer("tomorrow") :
                 IF Day(now) % 7 = 0 /\ m \in MeetingAnswer("tomorrow")
                 THEN m \notin MeetingAnswer("this week") \cup MeetingAnswer("today")
                 ELSE m \in MeetingAnswer("this week") \/ Cardinality(MeetingAnswer("this week")) = MeetingLimit
<1> DEFINE Of(span) == {m \in DOMAIN meetings : meetings[m].at \in DateFilter(span)}
<1>1. MeetingLimit \in Nat /\ ShortLimit \in Nat
  BY QuestionsAssumption, ScreensAssumption
<1>2. \A span : Of(span) \in SUBSET DOMAIN meetings /\ MeetingAnswer(span) = Best(Of(span), MeetingLimit, Earlier)
  BY DEF MeetingAnswer
<1>3. \A m \in DOMAIN meetings : meetings[m].at \in Int
  BY DocumentsAre
<1>4. Of("today") = MeetingsToday
  BY <1>3, WeekIs DEF MeetingsToday
<1>5. \A span : \A m : m \in Of(span) => m \in DOMAIN meetings /\ meetings[m].at \in DateFilter(span)
  OBVIOUS
<1>6. ASSUME NEW m \in DOMAIN meetings
      PROVE  /\ m \in Of("today") => m \in Of("this week")
             /\ m \in Of("tomorrow") /\ Day(now) % 7 # 0 => m \in Of("this week")
             /\ m \in Of("tomorrow") /\ Day(now) % 7 = 0 => m \notin Of("this week")
             /\ m \in Of("tomorrow") => m \notin Of("today")
  BY <1>3, WeekIs
<1> HIDE DEF Of
<1>7. ASSUME NEW span
      PROVE  /\ MeetingAnswer(span) \subseteq Of(span)
             /\ Cardinality(MeetingAnswer(span)) = AtMost(MeetingLimit, Cardinality(Of(span)))
             /\ \A m \in Of(span) \ MeetingAnswer(span) : Cardinality(MeetingAnswer(span)) = MeetingLimit
  <2> DEFINE S == Of(span)
  <2>1. S \in SUBSET DOMAIN meetings /\ MeetingAnswer(span) = Best(S, MeetingLimit, Earlier)
    BY <1>2
  <2> HIDE DEF S
  <2>2. /\ Best(S, MeetingLimit, Earlier) \subseteq S
        /\ Cardinality(Best(S, MeetingLimit, Earlier)) = AtMost(MeetingLimit, Cardinality(S))
        /\ \A x \in S \ Best(S, MeetingLimit, Earlier) : Cardinality(Best(S, MeetingLimit, Earlier)) = MeetingLimit
    BY <1>1, <2>1, SoonestIs
  <2> QED
    BY <2>1, <2>2 DEF S
<1>8. ASSUME NEW m \in MeetingAnswer("today") \cup MeetingAnswer("tomorrow")
      PROVE  IF Day(now) % 7 = 0 /\ m \in MeetingAnswer("tomorrow")
             THEN m \notin MeetingAnswer("this week") \cup MeetingAnswer("today")
             ELSE m \in MeetingAnswer("this week") \/ Cardinality(MeetingAnswer("this week")) = MeetingLimit
  <2>1. /\ m \in MeetingAnswer("today") => m \in Of("today")
        /\ m \in MeetingAnswer("tomorrow") => m \in Of("tomorrow")
        /\ m \in MeetingAnswer("this week") => m \in Of("this week")
    BY <1>7
  <2>2. m \in DOMAIN meetings
    BY <1>2, <2>1
  <2>3. m \in Of("this week") /\ m \notin MeetingAnswer("this week")
        => Cardinality(MeetingAnswer("this week")) = MeetingLimit
    BY <1>7
  <2> QED
    BY <1>6, <2>1, <2>2, <2>3
<1>9. SummaryMeetings \subseteq MeetingsToday /\ SummaryMeetings \subseteq Scheduled
  BY DEF SummaryMeetings, MeetingsToday, Scheduled
<1>10. ASSUME NEW m \in SummaryMeetings \ DashboardMeetings
       PROVE  Cardinality({n \in DashboardMeetings : Earlier(n, m)}) = ShortLimit
  <2> DEFINE B == Best(Scheduled, ShortLimit, Earlier)
  <2>1. DashboardMeetings = B
    BY DEF DashboardMeetings
  <2>2. Scheduled \in SUBSET DOMAIN meetings
    BY DEF Scheduled
  <2>3. \A x \in Scheduled \ B : Cardinality(B) = ShortLimit /\ {y \in B : Earlier(y, x)} = B
    BY <1>1, <2>2, SoonestIs
  <2> HIDE DEF B
  <2> QED
    BY <1>9, <2>1, <2>3
<1> QED
  BY <1>4, <1>7, <1>8, <1>9, <1>10

\* AnswersAddUp: however a question is put, what it is answered agrees with the other
\* answers, with the lists of the screens and with the totals of the figures.
THEOREM QuestionsAgree == ScreensSpec => []AnswersAddUp
<1>1. ASSUME ScreensTypeOK
      PROVE  AnswersAddUp
  <2> USE <1>1
  <2>1. SUFFICES ASSUME NEW show \in BOOLEAN
                 PROVE  LET Of(tier)       == Told(Question("count", tier, show))
                            Alerts(word)   == Listed(Question("alerts", word, show))
                            Meetings(span) == Listed(Question("meetings", span, show))
                            figures        == Figures({ThisMonth})
                        IN
                        /\ Of("any") = figures.total_clients
                        /\ Of("any") = Cardinality(UNION {ClientsShown(tier) : tier \in Tiers}) + Cardinality(OfTier("BLACK"))
                        /\ \A tier \in Tiers :
                              Of(tier) = Cardinality({c \in ClientsShown(tier) : clients[c].tier \in Tiers})
                        /\ Of("DIAMOND") = figures.diamond_clients /\ Of("PLATINUM") = figures.platinum_clients
                        /\ \A tier \in Tiers : Told(Question("list", tier, show)) = AtMost(ListLimit, Of(tier))
                        /\ Alerts("new") \subseteq BriefingAlerts
                        /\ \A a \in BriefingAlerts \ Alerts("new") :
                              Cardinality({b \in Alerts("new") : Newer(b, a)}) = ShortLimit
                        /\ Total(Severities("new"), {"high", "medium", "low"})
                              = Cardinality({a \in Alerts("new") : alerts[a].severity # "critical"})
                        /\ Meetings("today") \subseteq MeetingsToday
                        /\ Cardinality(Meetings("today")) = AtMost(MeetingLimit, Cardinality(MeetingsToday))
                        /\ SummaryMeetings \subseteq MeetingsToday
                        /\ \A m \in SummaryMeetings \ DashboardMeetings :
                              Cardinality({n \in DashboardMeetings : Earlier(n, m)}) = ShortLimit
                        /\ \A m \in Meetings("today") \cup Meetings("tomorrow") :
                              IF Day(now) % 7 = 0 /\ m \in Meetings("tomorrow")
                              THEN m \notin Meetings("this week") \cup Meetings("today")
                              ELSE m \in Meetings("this week") \/ Cardinality(Meetings("this week")) = MeetingLimit
                        /\ Told(Question("aum", "any", show)) = figures.aum_growth
    BY DEF AnswersAddUp
  <2> DEFINE Of(tier)       == Told(Question("count", tier, show))
             Alerts(word)   == Listed(Question("alerts", word, show))
             Meetings(span) == Listed(Question("meetings", span, show))
             figures        == Figures({ThisMonth})
  <2>2. \A of : Alerts(of) = AlertAnswer(of) /\ Meetings(of) = MeetingAnswer(of)
    BY AnswersAre
  <2>3. /\ Of("any") = figures.total_clients
        /\ Of("any") = Cardinality(UNION {ClientsShown(tier) : tier \in Tiers}) + Cardinality(OfTier("BLACK"))
        /\ \A tier \in Tiers :
              Of(tier) = Cardinality({c \in ClientsShown(tier) : clients[c].tier \in Tiers})
        /\ Of("DIAMOND") = figures.diamond_clients /\ Of("PLATINUM") = figures.platinum_clients
        /\ \A tier \in Tiers : Told(Question("list", tier, show)) = AtMost(ListLimit, Of(tier))
        /\ Told(Question("aum", "any", show)) = figures.aum_growth
    BY BookAnswers
  <2> HIDE DEF Of, Alerts, Meetings, figures
  <2>4. /\ Alerts("new") \subseteq BriefingAlerts
        /\ \A a \in BriefingAlerts \ Alerts("new") :
              Cardinality({b \in Alerts("new") : Newer(b, a)}) = ShortLimit
        /\ Total(Severities("new"), {"high", "medium", "low"})
              = Cardinality({a \in Alerts("new") : alerts[a].severity # "critical"})
    <3>1. Alerts("new") = AlertAnswer("new")
      BY <2>2
    <3> QED
      BY <3>1, AlertAnswers
  <2>5. /\ Meetings("today") \subseteq MeetingsToday
        /\ Cardinality(Meetings("today")) = AtMost(MeetingLimit, Cardinality(MeetingsToday))
        /\ SummaryMeetings \subseteq MeetingsToday
        /\ \A m \in SummaryMeetings \ DashboardMeetings :
              Cardinality({n \in DashboardMeetings : Earlier(n, m)}) = ShortLimit
        /\ \A m \in Meetings("today") \cup Meetings("tomorrow") :
              IF Day(now) % 7 = 0 /\ m \in Meetings("tomorrow")
              THEN m \notin Meetings("this week") \cup Meetings("today")
              ELSE m \in Meetings("this week") \/ Cardinality(Meetings("this week")) = MeetingLimit
    <3>1. /\ Meetings("today") = MeetingAnswer("today") /\ Meetings("tomorrow") = MeetingAnswer("tomorrow")
          /\ Meetings("this week") = MeetingAnswer("this week")
      BY <2>2
    <3> QED
      BY <3>1, MeetingAnswers
  <2> QED
    BY ONLY <2>3, <2>4, <2>5 DEF Of, Alerts, Meetings, figures
<1> QED
  BY <1>1, TypeInvariant, PTL
=============================================================================
