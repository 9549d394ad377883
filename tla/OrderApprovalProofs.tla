------------------------- MODULE OrderApprovalProofs -------------------------
(***************************************************************************)
(* Theorems about OrderApproval, for any orders, laboratories, layouts,    *)
(* supervisors, quotas and bounds, and any number of handlers unless a     *)
(* theorem's hypotheses say otherwise.                                     *)
(***************************************************************************)
EXTENDS OrderApproval, FiniteSetTheorems, WellFoundedInduction, TLAPS

(***************************************************************************)
(* Sums over finite sets.  SumFunctionOnSet is a recursive function; that  *)
(* the recursion has a solution, and what it computes, is shown with the   *)
(* induction below: a set of subsets that contains every one whose proper  *)
(* subsets it contains.                                                    *)
(***************************************************************************)

(* A set of subsets of a finite set has a minimal member.                  *)
LEMMA MinimalSubset ==
  ASSUME NEW S, IsFiniteSet(S), NEW bad, bad \subseteq SUBSET S, bad # {}
  PROVE  \E T \in bad : \A U \in bad : ~(U \subseteq T /\ U # T)
<1>1. IsWellFoundedOn(StrictSubsetOrdering(S), FiniteSubsetsOf(S))
  BY FS_StrictSubsetOrderingWellFounded
<1>2. IsWellFoundedOn(StrictSubsetOrdering(S), SUBSET S)
  BY <1>1, FS_FiniteSubsetsOfFinite, Zenon
<1>3. \E T \in bad : \A U \in bad : ~(<<U, T>> \in StrictSubsetOrdering(S))
  BY <1>2, WFMin, Zenon
<1>4. QED
  BY <1>3 DEF StrictSubsetOrdering

(* Induction over the subsets of a finite set.                             *)
LEMMA SubsetInduction ==
  ASSUME NEW S, IsFiniteSet(S), NEW G,
         \A T \in SUBSET S : (\A U \in SUBSET T : U # T => U \in G) => T \in G
  PROVE  \A T \in SUBSET S : T \in G
<1> DEFINE bad == (SUBSET S) \ G
<1> SUFFICES ASSUME bad # {}
             PROVE  FALSE
  OBVIOUS
<1>0. bad \subseteq SUBSET S /\ \A U \in SUBSET S : U \in bad <=> U \notin G
  OBVIOUS
<1> HIDE DEF bad
<1>1. \E T \in bad : \A U \in bad : ~(U \subseteq T /\ U # T)
  BY <1>0, MinimalSubset
<1>2. PICK T \in bad : \A U \in bad : ~(U \subseteq T /\ U # T)
  BY <1>1
<1>3. \A U \in SUBSET T : U # T => U \in G
  BY <1>0, <1>2
<1>4. QED
  BY <1>0, <1>2, <1>3

Some(S) == CHOOSE x \in S : TRUE

(* A set that is not empty has a member to take.                           *)
LEMMA SomeMember == ASSUME NEW S, S # {} PROVE Some(S) \in S
BY DEF Some

(* The equation of the recursion and its solution.                         *)
Unfold(f, S, g) ==
  [s \in SUBSET S |-> IF s = {} THEN 0 ELSE f[Some(s)] + g[s \ {Some(s)}]]
Summing(f, S) == CHOOSE g : g = Unfold(f, S, g)
Solvable(f, S) == \E g : g = Unfold(f, S, g)

LEMMA SumIsSolution ==
  ASSUME NEW f, NEW S
  PROVE  SumFunctionOnSet(f, S) = Summing(f, S)[S]
BY DEF SumFunctionOnSet, FoldFunctionOnSet, MapThenFoldSet, Summing, Unfold, Some

(* Two solutions agree where both are defined.                             *)
LEMMA SolutionsAgree ==
  ASSUME NEW f, NEW S, IsFiniteSet(S), NEW T \in SUBSET S,
         NEW g, g = Unfold(f, S, g), NEW h, h = Unfold(f, T, h)
  PROVE  \A U \in SUBSET T : g[U] = h[U]
<1> DEFINE G == {U \in SUBSET T : g[U] = h[U]}
<1>1. IsFiniteSet(T)
  BY FS_Subset
<1>2. ASSUME NEW U \in SUBSET T, \A V \in SUBSET U : V # U => V \in G
      PROVE  U \in G
  <2>1. CASE U = {}
    BY <2>1 DEF Unfold
  <2>2. CASE U # {}
    <3>1. Some(U) \in U /\ U \ {Some(U)} \in G
      BY <1>2, <2>2, SomeMember
    <3>2. g[U] = f[Some(U)] + g[U \ {Some(U)}] /\ h[U] = f[Some(U)] + h[U \ {Some(U)}]
      BY <2>2 DEF Unfold
    <3>3. QED
      BY <3>1, <3>2
  <2>3. QED
    BY <2>1, <2>2
<1> HIDE DEF G
<1>3. \A U \in SUBSET T : U \in G
  BY <1>1, <1>2, SubsetInduction
<1>4. QED
  BY <1>3 DEF G

(* The recursion has a solution.                                           *)
LEMMA SolutionExists ==
  ASSUME NEW f, NEW S, IsFiniteSet(S)
  PROVE  \A T \in SUBSET S : Solvable(f, T)
<1> DEFINE G == {T \in SUBSET S : Solvable(f, T)}
<1>1. ASSUME NEW T \in SUBSET S, \A U \in SUBSET T : U # T => U \in G
      PROVE  T \in G
  <2> DEFINE Less(s) == s \ {Some(s)}
             Value(s) == IF s = {} THEN 0 ELSE f[Some(s)] + Summing(f, Less(s))[Less(s)]
             g == [s \in SUBSET T |-> Value(s)]
  <2>1. \A U \in SUBSET T : U # T => Summing(f, U) = Unfold(f, U, Summing(f, U))
    BY <1>1 DEF Solvable, Summing
  <2>2. ASSUME NEW U \in SUBSET T, U # T
        PROVE  Summing(f, U)[U] = Value(U)
    <3> DEFINE h == Summing(f, U)
    <3>1. h = Unfold(f, U, h)
      BY <2>1, <2>2
    <3>2. CASE U = {}
      BY <3>1, <3>2 DEF Unfold
    <3>3. CASE U # {}
      <4> DEFINE V == Less(U)
                 k == Summing(f, V)
      <4>1. V \in SUBSET U /\ V # T /\ V \in SUBSET T
        BY <2>2, <3>3, SomeMember
      <4>2. k = Unfold(f, V, k)
        BY <2>1, <4>1
      <4>3. IsFiniteSet(U)
        BY FS_Subset
      <4>4. h[U] = f[Some(U)] + h[V]
        BY <3>1, <3>3 DEF Unfold
      <4> HIDE DEF k, h, V
      <4>5. h[V] = k[V]
        BY <3>1, <4>1, <4>2, <4>3, SolutionsAgree
      <4>6. QED
        BY <3>3, <4>4, <4>5 DEF h, k, V
    <3>4. QED
      BY <3>2, <3>3
  <2>3. \A s \in SUBSET T : s # {} => g[Less(s)] = Summing(f, Less(s))[Less(s)]
    <3> SUFFICES ASSUME NEW s \in SUBSET T, s # {}
                 PROVE  g[Less(s)] = Summing(f, Less(s))[Less(s)]
      OBVIOUS
    <3>1. Less(s) \in SUBSET T /\ Less(s) # T
      BY SomeMember
    <3> HIDE DEF Less, Value
    <3>2. QED
      BY <2>2, <3>1
  <2>4. g = Unfold(f, T, g)
    <3>1. \A s \in SUBSET T : Value(s) = IF s = {} THEN 0 ELSE f[Some(s)] + g[Less(s)]
      BY <2>3
    <3> HIDE DEF Value
    <3>2. QED
      BY <3>1 DEF Unfold
  <2>5. QED
    BY <2>4 DEF Solvable
<1> HIDE DEF G
<1>2. \A T \in SUBSET S : T \in G
  BY <1>1, SubsetInduction
<1>3. QED
  BY <1>2 DEF G

(* What the sum over a finite set is.                                      *)
LEMMA SumUnfolds ==
  ASSUME NEW f, NEW S, IsFiniteSet(S)
  PROVE  /\ SumFunctionOnSet(f, {}) = 0
         /\ S # {} => SumFunctionOnSet(f, S) =
                        f[Some(S)] + SumFunctionOnSet(f, S \ {Some(S)})
<1>1. \A T \in SUBSET S : Summing(f, T) = Unfold(f, T, Summing(f, T))
  BY SolutionExists DEF Solvable, Summing
<1>2. Summing(f, {})[{}] = 0
  BY <1>1 DEF Unfold
<1>3. ASSUME S # {}
      PROVE  Summing(f, S)[S] = f[Some(S)] + Summing(f, S \ {Some(S)})[S \ {Some(S)}]
  <2> DEFINE T == S \ {Some(S)}
             g == Summing(f, S)
             h == Summing(f, T)
  <2>1. g = Unfold(f, S, g) /\ h = Unfold(f, T, h) /\ T \in SUBSET S
    BY <1>1
  <2>2. g[S] = f[Some(S)] + g[T]
    BY <1>3, <2>1 DEF Unfold
  <2> HIDE DEF g, h, T
  <2>3. g[T] = h[T]
    BY <2>1, SolutionsAgree
  <2>4. QED
    BY <2>2, <2>3 DEF g, h, T
<1>4. QED
  BY <1>2, <1>3, SumIsSolution

(* Sums of integers are integers, of natural numbers natural numbers.      *)
LEMMA SumType ==
  ASSUME NEW f, NEW S, IsFiniteSet(S), \A x \in S : f[x] \in Int
  PROVE  SumFunctionOnSet(f, S) \in Int
<1> DEFINE G == {T \in SUBSET S : SumFunctionOnSet(f, T) \in Int}
<1>1. ASSUME NEW T \in SUBSET S, \A U \in SUBSET T : U # T => U \in G
      PROVE  T \in G
  <2>1. IsFiniteSet(T)
    BY FS_Subset
  <2>2. CASE T = {}
    <3>1. SumFunctionOnSet(f, {}) = 0
      BY <2>1, SumUnfolds
    <3>2. QED
      BY <2>2, <3>1
  <2>3. CASE T # {}
    <3>1. Some(T) \in T /\ T \ {Some(T)} \in G
      BY <1>1, <2>3, SomeMember
    <3>2. SumFunctionOnSet(f, T) = f[Some(T)] + SumFunctionOnSet(f, T \ {Some(T)})
      BY <2>1, <2>3, SumUnfolds
    <3>3. QED
      BY <3>1, <3>2
  <2>4. QED
    BY <2>2, <2>3
<1> HIDE DEF G
<1>2. \A T \in SUBSET S : T \in G
  BY <1>1, SubsetInduction
<1>3. QED
  BY <1>2 DEF G

(* Any member may be taken out first.                                      *)
LEMMA SumRemove ==
  ASSUME NEW f, NEW S, IsFiniteSet(S), \A x \in S : f[x] \in Int
  PROVE  \A x \in S : SumFunctionOnSet(f, S) = f[x] + SumFunctionOnSet(f, S \ {x})
<1> DEFINE Sum(T) == SumFunctionOnSet(f, T)
           Free(T) == \A x \in T : Sum(T) = f[x] + Sum(T \ {x})
           G == {T \in SUBSET S : Free(T)}
<1>0. \A T \in SUBSET S : Sum(T) \in Int /\ IsFiniteSet(T)
  BY SumType, FS_Subset
<1>1. ASSUME NEW T \in SUBSET S, \A U \in SUBSET T : U # T => U \in G
      PROVE  T \in G
  <2> SUFFICES ASSUME NEW x \in T
               PROVE  Sum(T) = f[x] + Sum(T \ {x})
    OBVIOUS
  <2> DEFINE p == Some(T)
  <2>1. p \in T /\ Sum(T) = f[p] + Sum(T \ {p})
    BY <1>0, SumUnfolds, SomeMember
  <2>2. CASE x = p
    BY <2>1, <2>2
  <2>3. CASE x # p
    <3>1. Free(T \ {p}) /\ Free(T \ {x})
      BY <1>1, <2>1
    <3>2. (T \ {p}) \ {x} = (T \ {x}) \ {p} /\ x \in T \ {p} /\ p \in T \ {x}
      BY <2>1, <2>3
    <3>3. Sum(T \ {p}) = f[x] + Sum((T \ {x}) \ {p}) /\ Sum(T \ {x}) = f[p] + Sum((T \ {x}) \ {p})
      BY <3>1, <3>2
    <3>4. f[x] \in Int /\ f[p] \in Int /\ Sum((T \ {x}) \ {p}) \in Int
      BY <1>0, <2>1
    <3> HIDE DEF p, Sum
    <3>5. QED
      BY <2>1, <3>3, <3>4
  <2>4. QED
    BY <2>2, <2>3
<1> HIDE DEF G
<1>2. \A T \in SUBSET S : T \in G
  BY <1>1, SubsetInduction
<1>3. QED
  BY <1>2 DEF G

(* Sums grow with their terms, and with sets of natural numbers.           *)
LEMMA SumMonotone ==
  ASSUME NEW f, NEW g, NEW S, IsFiniteSet(S), NEW T \in SUBSET S, \A x \in S : g[x] \in Nat,
         \A x \in T : f[x] \in Nat /\ f[x] <= g[x]
  PROVE  SumFunctionOnSet(f, T) <= SumFunctionOnSet(g, S)
<1> DEFINE F(U) == SumFunctionOnSet(f, T \cap U)
           H(U) == SumFunctionOnSet(g, U)
           G == {U \in SUBSET S : F(U) <= H(U)}
<1>0. \A U \in SUBSET S : /\ F(U) \in Int /\ H(U) \in Int
                          /\ IsFiniteSet(U) /\ IsFiniteSet(T \cap U)
  BY SumType, FS_Subset
<1>1. ASSUME NEW U \in SUBSET S, \A V \in SUBSET U : V # U => V \in G
      PROVE  U \in G
  <2>1. CASE U = {}
    <3>1. T \cap U = {}
      BY <2>1
    <3>2. F(U) = 0 /\ H(U) = 0
      BY <2>1, <3>1, <1>0, SumUnfolds
    <3>3. QED
      BY <3>2
  <2>2. CASE U # {}
    <3> DEFINE p == Some(U)
               V == U \ {p}
    <3>1. p \in U /\ V \in G
      BY <1>1, <2>2, SomeMember
    <3>2. H(U) = g[p] + H(V) /\ g[p] \in Nat
      <4>1. p \in S /\ \A x \in U : g[x] \in Int
        BY <3>1
      <4>2. \A x \in U : SumFunctionOnSet(g, U) = g[x] + SumFunctionOnSet(g, U \ {x})
        BY <1>0, <4>1, SumRemove
      <4>3. H(U) = g[p] + H(V)
        BY <3>1, <4>2
      <4>4. QED
        BY <4>1, <4>3
    <3>3. F(U) <= g[p] + F(V)
      <4>1. CASE p \in T
        <5>1. p \in T \cap U /\ (T \cap U) \ {p} = T \cap V
          BY <3>1, <4>1
        <5>2. SumFunctionOnSet(f, T \cap U) = f[p] + SumFunctionOnSet(f, (T \cap U) \ {p})
          BY <1>0, <5>1, SumRemove
        <5>3. F(U) = f[p] + F(V)
          BY <5>1, <5>2
        <5>4. f[p] <= g[p] /\ f[p] \in Nat /\ F(V) \in Int
          BY <1>0, <4>1
        <5> HIDE DEF p, F, V
        <5>5. QED
          BY <3>2, <5>3, <5>4
      <4>2. CASE p \notin T
        <5>1. T \cap U = T \cap V
          BY <4>2
        <5>2. F(U) = F(V) /\ F(V) \in Int
          BY <1>0, <5>1
        <5> HIDE DEF p, F, V
        <5>3. QED
          BY <3>2, <5>2
      <4>3. QED
        BY <4>1, <4>2
    <3>4. F(U) \in Int /\ F(V) \in Int /\ H(V) \in Int
      BY <1>0
    <3>5. F(V) <= H(V)
      BY <3>1
    <3> HIDE DEF p, V, F, H
    <3>6. F(U) <= H(U)
      BY <3>2, <3>3, <3>4, <3>5
    <3>7. QED
      BY <3>6
  <2>3. QED
    BY <2>1, <2>2
<1> HIDE DEF G
<1>2. S \in G
  BY <1>1, SubsetInduction
<1>3. T \cap S = T
  OBVIOUS
<1>4. QED
  BY <1>2, <1>3 DEF G

(* Sums of the same terms are the same.                                    *)
LEMMA SumCongruence ==
  ASSUME NEW f, NEW g, NEW S, IsFiniteSet(S), \A x \in S : f[x] \in Int /\ f[x] = g[x]
  PROVE  SumFunctionOnSet(f, S) = SumFunctionOnSet(g, S)
<1> DEFINE F(U) == SumFunctionOnSet(f, U)
           H(U) == SumFunctionOnSet(g, U)
           G == {U \in SUBSET S : F(U) = H(U)}
<1>0. \A U \in SUBSET S : IsFiniteSet(U)
  BY FS_Subset
<1>1. ASSUME NEW U \in SUBSET S, \A V \in SUBSET U : V # U => V \in G
      PROVE  U \in G
  <2>1. CASE U = {}
    BY <1>0, <2>1, SumUnfolds
  <2>2. CASE U # {}
    <3> DEFINE p == Some(U)
    <3>1. p \in U /\ U \ {p} \in G
      BY <1>1, <2>2, SomeMember
    <3>2. F(U) = f[p] + F(U \ {p}) /\ H(U) = g[p] + H(U \ {p})
      BY <1>0, <2>2, SumUnfolds
    <3>3. QED
      BY <3>1, <3>2
  <2>3. QED
    BY <2>1, <2>2
<1> HIDE DEF G
<1>2. S \in G
  BY <1>1, SubsetInduction
<1>3. QED
  BY <1>2 DEF G

(* Sums of natural numbers are natural numbers.                            *)
LEMMA SumNat ==
  ASSUME NEW f, NEW S, IsFiniteSet(S), \A x \in S : f[x] \in Nat
  PROVE  SumFunctionOnSet(f, S) \in Nat
<1>1. SumFunctionOnSet(f, {}) <= SumFunctionOnSet(f, S)
  BY SumMonotone
<1>2. SumFunctionOnSet(f, {}) = 0
  BY SumUnfolds
<1>3. SumFunctionOnSet(f, S) \in Int
  BY SumType
<1>4. QED
  BY <1>1, <1>2, <1>3

(* The sum over two sets without a common member.                          *)
LEMMA SumUnion ==
  ASSUME NEW f, NEW S, NEW T, IsFiniteSet(S \cup T), S \cap T = {},
         \A x \in S \cup T : f[x] \in Int
  PROVE  SumFunctionOnSet(f, S \cup T) = SumFunctionOnSet(f, S) + SumFunctionOnSet(f, T)
<1> DEFINE Sum(U) == SumFunctionOnSet(f, U)
           G == {U \in SUBSET T : Sum(S \cup U) = Sum(S) + Sum(U)}
<1>0. \A U \in SUBSET (S \cup T) : Sum(U) \in Int /\ IsFiniteSet(U)
  BY SumType, FS_Subset
<1>1. ASSUME NEW U \in SUBSET T, \A V \in SUBSET U : V # U => V \in G
      PROVE  U \in G
  <2>1. CASE U = {}
    <3>1. S \cup U = S /\ Sum(S) \in Int
      BY <1>0, <2>1
    <3>2. Sum({}) = 0
      BY SumUnfolds
    <3> HIDE DEF Sum
    <3>3. Sum(S \cup U) = Sum(S) + Sum(U)
      BY <2>1, <3>1, <3>2
    <3>4. QED
      BY <3>3 DEF Sum
  <2>2. CASE U # {}
    <3> DEFINE p == Some(U)
               V == U \ {p}
    <3>1. p \in U /\ V \in G /\ p \in T /\ p \notin S
      BY <1>1, <2>2, SomeMember
    <3>2. Sum(U) = f[p] + Sum(V) /\ Sum(S \cup U) = f[p] + Sum((S \cup U) \ {p})
      BY <1>0, <3>1, SumRemove
    <3>3. (S \cup U) \ {p} = S \cup V
      BY <3>1
    <3>4. f[p] \in Int /\ Sum(V) \in Int /\ Sum(S) \in Int
      BY <1>0, <3>1
    <3>5. Sum(S \cup V) = Sum(S) + Sum(V)
      BY <3>1
    <3>6. Sum((S \cup U) \ {p}) = Sum(S \cup V)
      BY <3>3
    <3> HIDE DEF p, V, Sum
    <3>7. Sum(S \cup U) = Sum(S) + Sum(U)
      BY <3>2, <3>4, <3>5, <3>6
    <3>8. QED
      BY <3>7 DEF Sum
  <2>3. QED
    BY <2>1, <2>2
<1> HIDE DEF G
<1>2. IsFiniteSet(T)
  BY FS_Subset
<1>3. \A U \in SUBSET T : U \in G
  BY <1>1, <1>2, SubsetInduction
<1>4. QED
  BY <1>3 DEF G

(* A set of numbers has at most R members that fewer than R precede.       *)
LEMMA FewAreFirst ==
  ASSUME NEW D, IsFiniteSet(D), D \subseteq Int, NEW R \in Int
  PROVE  LET H == {i \in D : Cardinality({j \in D : j < i}) < R}
         IN Cardinality(H) \in Nat /\ Cardinality(H) <= IF R > 0 THEN R ELSE 0
<1> DEFINE Below(i) == {j \in D : j < i}
           Rank(i) == Cardinality(Below(i))
           H == {i \in D : Rank(i) < R}
<1>0. \A i \in D : i \in Int
  OBVIOUS
<1>1. \A i \in D : IsFiniteSet(Below(i)) /\ Rank(i) \in Nat
  BY FS_Subset, FS_CardinalityType
<1>2. IsFiniteSet(H) /\ Cardinality(H) \in Nat
  BY FS_Subset, FS_CardinalityType
<1>3. ASSUME NEW i \in D, NEW k \in D, i < k
      PROVE  Rank(i) # Rank(k)
  <2>1. i \in Int /\ k \in Int
    BY <1>0
  <2>2. i \in Below(k) /\ i \notin Below(i)
    BY <1>3, <2>1
  <2>3. Below(i) \in SUBSET Below(k)
    <3> SUFFICES ASSUME NEW j \in D, j < i
                 PROVE  j < k
      OBVIOUS
    <3>1. QED
      BY <1>0, <1>3
  <2>4. QED
    BY <1>1, <2>2, <2>3, FS_Subset
<1>4. CASE R > 0
  <2> DEFINE f == [i \in H |-> Rank(i)]
             a == 0
             b == R - 1
  <2>1. f \in [H -> a..b]
    <3> SUFFICES ASSUME NEW i \in H
                 PROVE  Rank(i) \in a..b
      OBVIOUS
    <3>1. i \in D /\ Rank(i) < R
      OBVIOUS
    <3>2. Rank(i) \in Nat
      BY <1>1, <3>1
    <3> HIDE DEF Rank, H
    <3>3. QED
      BY <3>1, <3>2
  <2>2. \A i, k \in H : f[i] = f[k] => i = k
    <3> SUFFICES ASSUME NEW i \in H, NEW k \in H, i # k
                 PROVE  Rank(i) # Rank(k)
      OBVIOUS
    <3>1. i < k \/ k < i
      BY <1>0
    <3>2. QED
      BY <1>3, <3>1
  <2>3. IsFiniteSet(a..b) /\ Cardinality(a..b) = R
    <3>1. a \in Int /\ b \in Int /\ ~(a > b) /\ b - a + 1 = R
      BY <1>4
    <3> HIDE DEF a, b
    <3>2. QED
      BY <3>1, FS_Interval
  <2> HIDE DEF f, H
  <2> DEFINE T == a..b
  <2>4. f \in [H -> T] /\ IsFiniteSet(T) /\ Cardinality(T) = R
    BY <2>1, <2>3
  <2> HIDE DEF T
  <2>5. ~(Cardinality(T) < Cardinality(H))
    <3> SUFFICES ASSUME Cardinality(T) < Cardinality(H)
                 PROVE  FALSE
      OBVIOUS
    <3>1. \E x, y \in H : x # y /\ f[x] = f[y]
      BY <1>2, <2>4, FS_PigeonHole
    <3>2. QED
      BY <2>2, <3>1
  <2>6. Cardinality(H) <= R
    BY <1>2, <2>4, <2>5
  <2>7. QED
    BY <1>2, <1>4, <2>6 DEF H, Rank
<1>5. CASE ~(R > 0)
  <2>1. ASSUME NEW i \in D
        PROVE  ~(Rank(i) < R)
    <3>1. Rank(i) \in Nat
      BY <1>1
    <3> HIDE DEF Rank
    <3>2. QED
      BY <1>5, <3>1
  <2>2. H = {}
    BY <2>1
  <2>3. Cardinality(H) = 0
    BY <2>2, FS_EmptySet
  <2>4. QED
    BY <1>2, <1>5, <2>3 DEF Rank
<1>6. QED
  BY <1>4, <1>5

(***************************************************************************)
(* What the steps have in common.                                          *)
(***************************************************************************)

(* What a handler counted.                                                 *)
Tallied(w) == Partial(w.usage, Scopes, Nat) /\ Partial(w.left, Scopes, Int)

(* A working handler.                                                      *)
Shaped(w) ==
  /\ w \in [op : DOMAIN Accepts, of : Orders, row : Row, lines : {w.lines},
            usage : {w.usage}, left : {w.left}, uncharged : BOOLEAN]
  /\ w.row.status \in Accepts[w.op]
  /\ w.row.total > 0
  /\ Partial(w.lines, ItemIds, Item)
  /\ DOMAIN w.lines # {}
  /\ Tallied(w)

Rows ==
  /\ order \in [Orders -> Row]
  /\ \A o \in Orders : order[o].status # "absent" =>
       order[o].total > 0 /\ DOMAIN items[o] # {}

Tables ==
  /\ DOMAIN items = Orders
  /\ \A o \in Orders : Partial(items[o], ItemIds, Item)

Handlers ==
  /\ DOMAIN sess = Sessions
  /\ \A s \in Sessions : sess[s] # Idle => Shaped(sess[s]) /\ order[sess[s].of].status # "absent"

Typed == Rows /\ Tables /\ used \in [Orders -> Nat] /\ Handlers

(* Merging rows of an existing order gives a row of one.                   *)
LEMMA MergeRowType ==
  ASSUME NEW row \in Row, NEW copy \in Row, NEW new \in Row,
         row.status # "absent", new.status # "absent", row.total > 0, new.total > 0
  PROVE  /\ MergeRow(row, copy, new) \in Row
         /\ MergeRow(row, copy, new).status # "absent"
         /\ MergeRow(row, copy, new).total > 0
BY DEF MergeRow, Dirty, Row

(* Merging items gives an item.                                            *)
LEMMA MergeItemType ==
  ASSUME NEW item \in Item, NEW copy \in Item, NEW new \in Item
  PROVE  MergeItem(item, copy, new) \in Item
BY DEF MergeItem, Dirty, Item

(* Saving items keeps the rows there are, with the right types.            *)
LEMMA SaveItemsType ==
  ASSUME Typed, NEW s \in Sessions, sess[s] # Idle, NEW T, NEW new,
         T \subseteq DOMAIN sess[s].lines, \A i \in T : new[i] \in Item,
         SaveItems(s, T, new)
  PROVE  Tables' /\ \A o \in Orders : DOMAIN items'[o] = DOMAIN items[o]
<1> DEFINE o == sess[s].of
<1>1. Shaped(sess[s]) /\ o \in Orders
  BY DEF Typed, Handlers, Shaped
<1>2. \A i \in T : MergeItem(items[o][i], sess[s].lines[i], new[i]) \in Item
  BY <1>1, MergeItemType DEF Typed, Tables, Shaped, Partial, SaveItems
<1>3. QED
  BY <1>1, <1>2 DEF Typed, Tables, Partial, SaveItems

(* The items of a layout are items, and there are some.                    *)
LEMMA NewLinesType ==
  ASSUME NEW layout \in Layouts, NEW b \in 0..(MaxItemId - Len(layout))
  PROVE  Partial(NewLines(layout, b), ItemIds, Item) /\ DOMAIN NewLines(layout, b) # {}
<1>1. layout \in Seq(Labs) /\ Len(layout) \in Nat /\ Len(layout) > 0
  BY LayoutsAssumption
<1>2. \A i \in (b + 1)..(b + Len(layout)) : NewItem(layout[i - b]) \in Item
  BY <1>1 DEF NewItem, Item
<1>3. (b + 1)..(b + Len(layout)) \subseteq ItemIds
  BY <1>1, BoundsAssumption DEF ItemIds
<1>4. b + 1 \in (b + 1)..(b + Len(layout))
  BY <1>1
<1>5. QED
  BY <1>2, <1>3, <1>4 DEF NewLines, Partial

(***************************************************************************)
(* An approved order is charged.  Stale copies are harmless here because   *)
(* usage rows are never deleted: an order that a copy shows as approved    *)
(* was charged then and is charged now, and the commit that approves one   *)
(* inserts its usage rows.                                                 *)
(***************************************************************************)

CopiesCharged ==
  \A s \in Sessions :
    sess[s] # Idle /\ sess[s].row.status \in Granted => used[sess[s].of] > 0

ChargeInv == Typed /\ ApprovedIsCharged /\ CopiesCharged

(* What a handler may store.                                               *)
Storable(s, new) ==
  /\ new \in Row
  /\ new.status # "absent"
  /\ new.total > 0
  /\ new.status \in Granted => used'[sess[s].of] > 0

(* What every commit has in common.                                        *)
Commits(s) ==
  /\ sess[s] # Idle
  /\ \E new : Storable(s, new) /\ SaveRow(s, new)
  /\ Tables'
  /\ \A o \in Orders : DOMAIN items[o] # {} => DOMAIN items'[o] # {}
  /\ used' \in [Orders -> Nat]
  /\ \A o \in Orders : used'[o] >= used[o]
  /\ End(s)

(* A new list of items is a commit.                                        *)
LEMMA ReplaceCommits ==
  ASSUME ChargeInv, NEW s \in Sessions, sess[s] # Idle, NEW layout \in Layouts,
         Replace(s, layout)
  PROVE  Commits(s)
<1> DEFINE o == sess[s].of
           b == CHOOSE c \in FreeBases(s, Len(layout)) : TRUE
           fresh == NewLines(layout, b)
           kept == DOMAIN items[o] \ DOMAIN sess[s].lines
           new == [sess[s].row EXCEPT !.total = Len(layout)]
<1>1. Shaped(sess[s]) /\ o \in Orders /\ sess[s].row \in Row
  BY DEF ChargeInv, Typed, Handlers, Shaped
<1>2. b \in 0..(MaxItemId - Len(layout))
  BY DEF Replace, FreeBases
<1>3. Partial(fresh, ItemIds, Item) /\ DOMAIN fresh # {}
  BY <1>2, NewLinesType
<1>4. items' = [items EXCEPT ![o] = [i \in kept \cup DOMAIN fresh |->
                                      IF i \in kept THEN items[o][i] ELSE fresh[i]]]
  BY DEF Replace
<1>5. Tables' /\ \A p \in Orders : DOMAIN items[p] # {} => DOMAIN items'[p] # {}
  BY <1>1, <1>3, <1>4 DEF ChargeInv, Typed, Tables, Partial
<1>6. Len(layout) \in Nat /\ Len(layout) > 0
  BY LayoutsAssumption
<1>7. new \in Row /\ new.status = sess[s].row.status /\ new.total > 0
  BY <1>1, <1>6 DEF Row
<1>8. sess[s].row.status \in {"draft", "returned"}
  BY <1>1 DEF Replace, Shaped, Accepts
<1>9. Storable(s, new) /\ SaveRow(s, new)
  BY <1>7, <1>8 DEF Storable, Replace, Granted
<1>10. QED
  BY <1>5, <1>9 DEF Commits, Replace, ChargeInv, Typed

(* An edited item is a commit.                                             *)
LEMMA PatchCommits ==
  ASSUME ChargeInv, NEW s \in Sessions, sess[s] # Idle, NEW i \in ItemIds, NEW lab \in Labs,
         Patch(s, i, lab)
  PROVE  Commits(s)
<1> DEFINE n == Cardinality(DOMAIN sess[s].lines)
           new == [sess[s].row EXCEPT !.total = n]
           lines == [j \in {i} |-> [sess[s].lines[i] EXCEPT
                        !.lab = lab, !.status = "draft", !.override = FALSE]]
<1>1. Shaped(sess[s]) /\ sess[s].of \in Orders /\ sess[s].row \in Row
  BY DEF ChargeInv, Typed, Handlers, Shaped
<1>2. n \in Nat /\ n > 0
  <2>1. IsFiniteSet(ItemIds)
    BY FS_Interval, BoundsAssumption DEF ItemIds
  <2>2. IsFiniteSet(DOMAIN sess[s].lines)
    <3>1. DOMAIN sess[s].lines \subseteq ItemIds
      BY <1>1 DEF Shaped, Partial
    <3>2. QED
      BY <2>1, <3>1, FS_Subset
  <2>3. n \in Nat /\ (n = 0 <=> DOMAIN sess[s].lines = {})
    BY <2>2, FS_CardinalityType, FS_EmptySet
  <2>4. QED
    BY <2>3, <1>1 DEF Shaped
<1>3. lines[i] \in Item
  BY <1>1 DEF Patch, Shaped, Partial, Item
<1>4. Tables' /\ \A o \in Orders : DOMAIN items'[o] = DOMAIN items[o]
  <2>1. SaveItems(s, {i}, lines) /\ {i} \subseteq DOMAIN sess[s].lines
    BY DEF Patch
  <2> HIDE DEF lines
  <2>2. QED
    BY <1>3, <2>1, SaveItemsType DEF ChargeInv
<1>5. new \in Row /\ new.status = sess[s].row.status /\ new.total > 0
  BY <1>1, <1>2 DEF Row
<1>6. sess[s].row.status \in {"draft", "returned"}
  BY <1>1 DEF Patch, Shaped, Accepts
<1>7. Storable(s, new) /\ SaveRow(s, new)
  BY <1>5, <1>6 DEF Storable, Patch, Granted
<1>8. QED
  BY <1>4, <1>7 DEF Commits, Patch, ChargeInv, Typed

(* Handlers that touch the order's row only.                               *)
LEMMA RowOnlyCommits ==
  ASSUME ChargeInv, NEW s \in Sessions, sess[s] # Idle, Delete(s) \/ Cancel(s) \/ Advance(s)
  PROVE  Commits(s)
<1>1. Shaped(sess[s]) /\ sess[s].row \in Row /\ sess[s].of \in Orders
  BY DEF ChargeInv, Typed, Handlers, Shaped
<1>2. UNCHANGED <<items, used>> /\ End(s)
  BY DEF Delete, Cancel, Advance
<1>3. \E new : Storable(s, new) /\ SaveRow(s, new)
  <2>1. CASE Delete(s)
    <3> DEFINE new == [sess[s].row EXCEPT !.deleted = TRUE]
    <3>0. sess[s].row.status = "draft"
      BY <1>1, <2>1 DEF Delete, Shaped, Accepts
    <3>1. new \in Row /\ new.status = "draft" /\ new.total = sess[s].row.total
      BY <1>1, <3>0 DEF Row
    <3>2. Storable(s, new) /\ SaveRow(s, new)
      BY <1>1, <2>1, <3>1 DEF Storable, Delete, Granted, Shaped
    <3>3. QED
      BY <3>2
  <2>2. CASE Cancel(s)
    <3> DEFINE new == [sess[s].row EXCEPT !.status = "cancelled"]
    <3>1. new \in Row /\ new.status = "cancelled" /\ new.total = sess[s].row.total
      BY <1>1 DEF Row, Statuses
    <3>2. Storable(s, new) /\ SaveRow(s, new)
      BY <1>1, <2>2, <3>1 DEF Storable, Cancel, Granted, Shaped
    <3>3. QED
      BY <3>2
  <2>3. CASE Advance(s)
    <3> DEFINE old == sess[s].row.status
               new == [sess[s].row EXCEPT !.status = Following[old]]
    <3>1. old \in {"approved", "sample_delivered", "sample_received", "ready_for_pickup"}
      BY <1>1, <2>3 DEF Advance, Shaped, Accepts
    <3>2. Following[old] \in Granted /\ Following[old] \in Statuses \ {"absent"}
      BY <3>1 DEF Following, Granted, Statuses
    <3>3. new \in Row /\ new.status = Following[old] /\ new.total = sess[s].row.total
      BY <1>1, <3>2 DEF Row
    <3>4. used'[sess[s].of] > 0
      <4>1. old \in Granted
        BY <3>1 DEF Granted
      <4>2. used[sess[s].of] > 0
        BY <4>1 DEF ChargeInv, CopiesCharged
      <4>3. QED
        BY <1>2, <4>2
    <3>5. Storable(s, new) /\ SaveRow(s, new)
      BY <1>1, <2>3, <3>2, <3>3, <3>4 DEF Storable, Advance, Shaped
    <3>6. QED
      BY <3>5
  <2>4. QED
    BY <2>1, <2>2, <2>3
<1>4. QED
  BY <1>2, <1>3 DEF Commits, ChargeInv, Typed, Tables, Partial

(* Handlers that decide on items, none of them with an approval.           *)
LEMMA UngrantedCommits ==
  ASSUME ChargeInv, NEW s \in Sessions, sess[s] # Idle, NEW T, NEW lines, NEW status,
         T \subseteq DOMAIN sess[s].lines, \A i \in T : lines[i] \in Item,
         status \in Statuses \ Granted,
         SaveItems(s, T, lines), SaveRow(s, [sess[s].row EXCEPT !.status = status]),
         UNCHANGED used, End(s)
  PROVE  Commits(s)
<1> DEFINE new == [sess[s].row EXCEPT !.status = status]
<1>1. Shaped(sess[s]) /\ sess[s].row \in Row /\ sess[s].of \in Orders
  BY DEF ChargeInv, Typed, Handlers, Shaped
<1>2. Tables' /\ \A o \in Orders : DOMAIN items'[o] = DOMAIN items[o]
  BY SaveItemsType DEF ChargeInv
<1>3. new \in Row /\ new.status = status /\ new.total = sess[s].row.total
  BY <1>1 DEF Row
<1>4. Storable(s, new)
  BY <1>1, <1>3 DEF Storable, Shaped, Statuses
<1>5. QED
  BY <1>2, <1>4 DEF Commits, ChargeInv, Typed

(* A submission is a commit.                                               *)
LEMMA SubmitCommits ==
  ASSUME ChargeInv, NEW s \in Sessions, sess[s] # Idle, Submit(s)
  PROVE  Commits(s)
<1> DEFINE lines == [i \in DOMAIN sess[s].lines |->
                       [lab |-> sess[s].lines[i].lab, status |-> "pending_approval",
                        exceeded |-> i \in Exceeding(s), override |-> FALSE]]
<1>1. Shaped(sess[s])
  BY DEF ChargeInv, Typed, Handlers
<1>2. \A i \in DOMAIN sess[s].lines : lines[i] \in Item
  BY <1>1 DEF Shaped, Partial, Item
<1>3. "pending_approval" \in Statuses \ Granted
  BY DEF Statuses, Granted
<1>4. /\ SaveItems(s, DOMAIN sess[s].lines, lines)
      /\ SaveRow(s, [sess[s].row EXCEPT !.status = "pending_approval"])
      /\ UNCHANGED used
      /\ End(s)
  BY DEF Submit
<1> HIDE DEF lines
<1>5. QED
  BY <1>2, <1>3, <1>4, UngrantedCommits

(* The items a supervisor may decide on are of the copy, and not none.     *)
LEMMA TargetsOfCopy ==
  ASSUME NEW s \in Sessions, NEW T \in Targets(s)
  PROVE  T \subseteq DOMAIN sess[s].lines /\ T # {}
BY DEF Targets, Approvable

(* A return is a commit.                                                   *)
LEMMA ReturnCommits ==
  ASSUME ChargeInv, NEW s \in Sessions, sess[s] # Idle, NEW T \in Targets(s), Return(s, T)
  PROVE  Commits(s)
<1> DEFINE lines == [i \in DOMAIN sess[s].lines |->
                       IF i \in T THEN [sess[s].lines[i] EXCEPT !.status = "returned"]
                       ELSE sess[s].lines[i]]
           status == Aggregate(lines, sess[s].row.status)
<1>1. Shaped(sess[s]) /\ T \subseteq DOMAIN sess[s].lines /\ T # {}
  BY TargetsOfCopy DEF ChargeInv, Typed, Handlers
<1>2. \A i \in T : lines[i] \in Item
  BY <1>1 DEF Shaped, Partial, Item
<1>3. status \in Statuses \ Granted
  <2>1. "returned" \in {lines[i].status : i \in DOMAIN lines}
    <3>1. PICK i \in T : TRUE
      BY <1>1
    <3>2. lines[i].status = "returned"
      BY <1>1, <3>1 DEF Shaped, Partial, Item
    <3>3. QED
      BY <1>1, <3>1, <3>2
  <2> HIDE DEF lines
  <2>2. QED
    BY <2>1 DEF Aggregate, Statuses, Granted
<1>4. /\ SaveItems(s, T, lines)
      /\ SaveRow(s, [sess[s].row EXCEPT !.status = status])
      /\ UNCHANGED used
      /\ End(s)
  BY DEF Return
<1> HIDE DEF lines, status
<1>5. QED
  BY <1>1, <1>2, <1>3, <1>4, UngrantedCommits

(* A rejection is a commit.                                                *)
LEMMA RejectCommits ==
  ASSUME ChargeInv, NEW s \in Sessions, sess[s] # Idle, Reject(s)
  PROVE  Commits(s)
<1> DEFINE lines == [i \in DOMAIN sess[s].lines |->
                       [sess[s].lines[i] EXCEPT !.status = "rejected"]]
<1>1. Shaped(sess[s])
  BY DEF ChargeInv, Typed, Handlers
<1>2. \A i \in DOMAIN sess[s].lines : lines[i] \in Item
  BY <1>1 DEF Shaped, Partial, Item
<1>3. "rejected" \in Statuses \ Granted
  BY DEF Statuses, Granted
<1>4. /\ SaveItems(s, DOMAIN sess[s].lines, lines)
      /\ SaveRow(s, [sess[s].row EXCEPT !.status = "rejected"])
      /\ UNCHANGED used
      /\ End(s)
  BY DEF Reject
<1> HIDE DEF lines
<1>5. QED
  BY <1>2, <1>3, <1>4, UngrantedCommits

(* The approval that completes an order charges it.                        *)
LEMMA ApproveCommits ==
  ASSUME ChargeInv, NEW s \in Sessions, sess[s] # Idle, NEW T \in Targets(s),
         NEW override \in BOOLEAN, Approve(s, T, override)
  PROVE  Commits(s)
<1> DEFINE lines == [i \in DOMAIN sess[s].lines |->
                       IF i \in T
                       THEN [lab      |-> sess[s].lines[i].lab,
                             status   |-> "approved",
                             exceeded |-> sess[s].lines[i].exceeded \/ override,
                             override |-> sess[s].lines[i].override \/ override]
                       ELSE sess[s].lines[i]]
           status == Aggregate(lines, sess[s].row.status)
           new == [sess[s].row EXCEPT !.status = status]
<1>1. /\ Shaped(sess[s]) /\ sess[s].row \in Row /\ sess[s].of \in Orders
      /\ T \subseteq DOMAIN sess[s].lines
  BY TargetsOfCopy DEF ChargeInv, Typed, Handlers, Shaped
<1>2. \A i \in T : lines[i] \in Item
  BY <1>1 DEF Shaped, Partial, Item
<1>3. sess[s].row.status = "pending_approval"
  BY <1>1 DEF Approve, Shaped, Accepts
<1>4. /\ SaveItems(s, T, lines)
      /\ SaveRow(s, new)
      /\ IF status = "approved" THEN Charge(s, T) ELSE UNCHANGED used
      /\ End(s)
  BY DEF Approve
<1>5. status \in {"rejected", "returned", "approved", "pending_approval"}
  <2> HIDE DEF lines
  <2>1. QED
    BY <1>3 DEF Aggregate
<1> HIDE DEF lines, status
<1>6. Tables' /\ \A o \in Orders : DOMAIN items'[o] = DOMAIN items[o]
  BY <1>1, <1>2, <1>4, SaveItemsType DEF ChargeInv
<1>7. new \in Row /\ new.status = status /\ new.total = sess[s].row.total
  BY <1>1, <1>5 DEF Row, Statuses
<1>8. sess[s].row.total \in Nat /\ sess[s].row.total > 0 /\ used \in [Orders -> Nat]
  BY <1>1 DEF Shaped, Row, ChargeInv, Typed
<1>9. /\ used' \in [Orders -> Nat]
      /\ \A o \in Orders : used'[o] >= used[o]
      /\ status = "approved" => used'[sess[s].of] > 0
  BY <1>1, <1>4, <1>8 DEF Charge
<1>10. Storable(s, new)
  BY <1>1, <1>5, <1>7, <1>9 DEF Storable, Shaped, Granted
<1>11. QED
  BY <1>4, <1>6, <1>9, <1>10 DEF Commits

(* What a commit stores keeps the invariant, whatever the others hold.     *)
LEMMA CommitKeeps ==
  ASSUME ChargeInv, NEW s \in Sessions, Commits(s)
  PROVE  ChargeInv'
<1> DEFINE o == sess[s].of
<1>1. Shaped(sess[s]) /\ sess[s].row \in Row /\ o \in Orders /\ order[o] \in Row
        /\ order[o].status # "absent" /\ order[o].total > 0
  BY DEF Commits, ChargeInv, Typed, Handlers, Rows, Shaped
<1>2. PICK new : Storable(s, new) /\ SaveRow(s, new)
  BY DEF Commits
<1> DEFINE row == MergeRow(order[o], sess[s].row, new)
<1>3. row \in Row /\ row.status # "absent" /\ row.total > 0
  BY <1>1, <1>2, MergeRowType DEF Storable
<1>4. order' = [order EXCEPT ![o] = row]
  BY <1>2 DEF SaveRow
<1>5. row.status \in Granted => used'[o] > 0
  <2>1. row.status \in {order[o].status, new.status}
    BY DEF MergeRow, Dirty
  <2>2. order[o].status \in Granted => used[o] > 0
    BY <1>1 DEF ChargeInv, ApprovedIsCharged
  <2>3. used[o] \in Nat /\ used'[o] \in Nat /\ used'[o] >= used[o]
    BY <1>1 DEF Commits, ChargeInv, Typed
  <2>4. QED
    BY <1>2, <2>1, <2>2, <2>3 DEF Storable
<1> HIDE DEF row
<1>6. Rows'
  BY <1>1, <1>3, <1>4 DEF Rows, Commits, ChargeInv, Typed
<1>7. Handlers'
  BY <1>1, <1>3, <1>4 DEF Handlers, Commits, End, ChargeInv, Typed
<1>8. ApprovedIsCharged'
  <2> SUFFICES ASSUME NEW p \in Orders, order'[p].status \in Granted
               PROVE  used'[p] > 0
    BY DEF ApprovedIsCharged
  <2>1. used[p] \in Nat /\ used'[p] \in Nat /\ used'[p] >= used[p]
    BY DEF Commits, ChargeInv, Typed
  <2>2. CASE p = o
    BY <1>1, <1>4, <1>5, <2>2 DEF ChargeInv, Typed, Rows
  <2>3. CASE p # o
    BY <1>4, <2>1, <2>3 DEF ChargeInv, Typed, Rows, ApprovedIsCharged
  <2>4. QED
    BY <2>2, <2>3
<1>9. CopiesCharged'
  <2> SUFFICES ASSUME NEW t \in Sessions, sess'[t] # Idle, sess'[t].row.status \in Granted
               PROVE  used'[sess'[t].of] > 0
    BY DEF CopiesCharged
  <2>1. t # s /\ sess'[t] = sess[t]
    BY DEF Commits, End, ChargeInv, Typed, Handlers
  <2>2. sess[t].of \in Orders /\ used[sess[t].of] > 0
    BY <2>1 DEF ChargeInv, Typed, Handlers, Shaped, CopiesCharged
  <2>3. used[sess[t].of] \in Nat /\ used'[sess[t].of] \in Nat
          /\ used'[sess[t].of] >= used[sess[t].of]
    BY <2>2 DEF Commits, ChargeInv, Typed
  <2>4. QED
    BY <2>1, <2>2, <2>3
<1>10. QED
  BY <1>6, <1>7, <1>8, <1>9 DEF ChargeInv, Typed, Commits

(* A handler that goes on counting keeps its copy.                         *)
Reads(s) ==
  /\ UNCHANGED <<order, items, used>>
  /\ \E w : /\ Shaped(w) /\ w.of = sess[s].of /\ w.row = sess[s].row
            /\ w.lines = sess[s].lines
            /\ sess' = [sess EXCEPT ![s] = w]

(* What is used of a quota is a natural number, what is reserved of it too.*)
LEMMA CountsType ==
  ASSUME Typed, NEW s \in Sessions, sess[s] # Idle, NEW q \in Scopes
  PROVE  SumFunctionOnSet(used, CountedFor(q)) \in Nat /\ Reserved(s, q) \in Nat
<1> DEFINE totals == [o \in Orders |-> IF o = sess[s].of THEN sess[s].row.total
                                      ELSE order[o].total]
           waiting == {o \in CountedFor(q) : order[o].status = "pending_approval"
                                               /\ ~order[o].deleted}
<1>1. IsFiniteSet(CountedFor(q)) /\ IsFiniteSet(waiting)
  BY OrdersAssumption, FS_Subset DEF CountedFor
<1>2. \A o \in CountedFor(q) : used[o] \in Nat
  BY DEF Typed, CountedFor
<1>3. \A o \in waiting : totals[o] \in Nat
  BY DEF Typed, Rows, Row, Handlers, Shaped, CountedFor
<1> HIDE DEF totals, waiting
<1>4. SumFunctionOnSet(totals, waiting) \in Nat
  BY <1>1, <1>3, SumNat
<1>5. Reserved(s, q) \in Nat
  BY <1>4 DEF Reserved, totals, waiting
<1>6. QED
  BY <1>1, <1>2, <1>5, SumNat

(* Counting quotas and looking for usage rows are such steps.              *)
LEMMA ReadsOn ==
  ASSUME Typed, NEW s \in Sessions, sess[s] # Idle, Count(s) \/ CheckUsage(s)
  PROVE  Reads(s)
<1>1. Shaped(sess[s]) /\ Tallied(sess[s])
  BY DEF Typed, Handlers, Shaped
<1>2. ASSUME NEW x, Partial(x, Scopes, Nat) PROVE Shaped([sess[s] EXCEPT !.usage = x])
  BY <1>1, <1>2 DEF Shaped, Tallied
<1>3. ASSUME NEW x, Partial(x, Scopes, Int) PROVE Shaped([sess[s] EXCEPT !.left = x])
  BY <1>1, <1>3 DEF Shaped, Tallied
<1>4. Shaped([sess[s] EXCEPT !.uncharged = TRUE])
  BY <1>1 DEF Shaped, Tallied
<1>5. ASSUME NEW q \in Scopes, CountUsed(s, q) PROVE Reads(s)
  <2> DEFINE n == SumFunctionOnSet(used, CountedFor(q))
             x == [p \in DOMAIN sess[s].usage \cup {q} |->
                     IF p = q THEN n ELSE sess[s].usage[p]]
  <2>1. sess' = [sess EXCEPT ![s] = [sess[s] EXCEPT !.usage = x]]
    BY <1>5 DEF CountUsed
  <2>2. n \in Nat
    BY CountsType
  <2> HIDE DEF n
  <2>3. Partial(x, Scopes, Nat)
    BY <1>1, <2>2 DEF Tallied, Partial
  <2> HIDE DEF x
  <2>4. QED
    BY <1>1, <1>2, <1>5, <2>1, <2>3 DEF Reads, CountUsed, Shaped
<1>6. ASSUME NEW q \in Scopes, CountReserved(s, q) PROVE Reads(s)
  <2> DEFINE n == Limit[q] - sess[s].usage[q] - Reserved(s, q)
             x == [p \in DOMAIN sess[s].left \cup {q} |->
                     IF p = q THEN n ELSE sess[s].left[p]]
  <2>1. sess' = [sess EXCEPT ![s] = [sess[s] EXCEPT !.left = x]]
    BY <1>6 DEF CountReserved
  <2>2. n \in Int
    <3>1. Limit[q] \in Nat /\ Reserved(s, q) \in Nat
      BY QuotaAssumption, CountsType
    <3>2. sess[s].usage[q] \in Nat
      BY <1>1, <1>6 DEF CountReserved, Tallied, Partial
    <3>3. QED
      BY <3>1, <3>2
  <2> HIDE DEF n
  <2>3. Partial(x, Scopes, Int)
    BY <1>1, <2>2 DEF Tallied, Partial
  <2> HIDE DEF x
  <2>4. QED
    BY <1>1, <1>3, <1>6, <2>1, <2>3 DEF Reads, CountReserved, Shaped
<1>7. CASE CheckUsage(s)
  BY <1>1, <1>4, <1>7 DEF Reads, CheckUsage, Shaped
<1>8. QED
  BY <1>5, <1>6, <1>7 DEF Count

(* What the steps without a commit do.                                     *)
LEMMA CreateKeeps ==
  ASSUME ChargeInv, NEW o \in Orders, NEW layout \in Layouts, Create(o, layout)
  PROVE  ChargeInv'
<1> DEFINE row == [status |-> "draft", total |-> Len(layout), deleted |-> FALSE]
           lines == NewLines(layout, 0)
<1>1. Len(layout) \in Nat /\ Len(layout) > 0 /\ 0 \in 0..(MaxItemId - Len(layout))
  BY LayoutsAssumption, BoundsAssumption
<1>2. Partial(lines, ItemIds, Item) /\ DOMAIN lines # {}
  BY <1>1, NewLinesType
<1>3. row \in Row
  BY <1>1 DEF Row, Statuses
<1> HIDE DEF lines
<1>4. order' = [order EXCEPT ![o] = row] /\ items' = [items EXCEPT ![o] = lines]
        /\ UNCHANGED <<used, sess>>
  BY DEF Create, lines
<1>5. Rows'
  BY <1>1, <1>2, <1>3, <1>4 DEF ChargeInv, Typed, Rows, Tables
<1>6. Tables'
  BY <1>2, <1>4 DEF ChargeInv, Typed, Tables
<1>7. Handlers'
  BY <1>4 DEF ChargeInv, Typed, Handlers, Rows
<1>8. ApprovedIsCharged' /\ CopiesCharged'
  BY <1>4 DEF ChargeInv, Typed, Rows, ApprovedIsCharged, CopiesCharged, Granted
<1>9. QED
  BY <1>4, <1>5, <1>6, <1>7, <1>8 DEF ChargeInv, Typed

(* A handler that reads an order knows whether it was charged.             *)
LEMMA LoadKeeps ==
  ASSUME ChargeInv, NEW s \in Sessions, NEW op \in DOMAIN Accepts, NEW o \in Orders,
         Load(s, op, o)
  PROVE  ChargeInv'
<1> DEFINE w == [op |-> op, of |-> o, row |-> order[o], lines |-> items[o],
                 usage |-> [q \in {} |-> 0], left |-> [q \in {} |-> 0], uncharged |-> FALSE]
<1>1. order[o].status # "absent"
  BY DEF Load, Accepts
<1>2. Shaped(w)
  <2>1. Tallied(w)
    BY DEF Tallied, Partial
  <2>2. QED
    BY <1>1, <2>1 DEF Load, Shaped, ChargeInv, Typed, Rows, Tables
<1>3. w.row = order[o] /\ w.of = o
  OBVIOUS
<1> HIDE DEF w
<1>4. sess' = [sess EXCEPT ![s] = w] /\ UNCHANGED <<order, items, used>>
  BY DEF Load, w
<1>5. Handlers'
  BY <1>1, <1>2, <1>3, <1>4 DEF ChargeInv, Typed, Handlers
<1>6. CopiesCharged'
  BY <1>3, <1>4 DEF ChargeInv, Typed, Handlers, CopiesCharged, ApprovedIsCharged
<1>7. QED
  BY <1>4, <1>5, <1>6 DEF ChargeInv, Typed, Rows, Tables, ApprovedIsCharged

(* Further reads do not touch the copy.                                    *)
LEMMA ReadsKeeps ==
  ASSUME ChargeInv, NEW s \in Sessions, sess[s] # Idle, Reads(s)
  PROVE  ChargeInv'
<1>1. PICK w : /\ Shaped(w) /\ w.of = sess[s].of /\ w.row = sess[s].row
               /\ sess' = [sess EXCEPT ![s] = w]
  BY DEF Reads
<1>2. UNCHANGED <<order, items, used>>
  BY DEF Reads
<1>3. Handlers'
  BY <1>1, <1>2 DEF ChargeInv, Typed, Handlers
<1>4. CopiesCharged'
  BY <1>1, <1>2 DEF ChargeInv, Typed, Handlers, CopiesCharged
<1>5. QED
  BY <1>2, <1>3, <1>4 DEF ChargeInv, Typed, Rows, Tables, ApprovedIsCharged

(* A handler that gives up leaves everything as it was.                    *)
LEMMA AbandonKeeps ==
  ASSUME ChargeInv, NEW s \in Sessions, Abandon(s)
  PROVE  ChargeInv'
BY DEF Abandon, End, ChargeInv, Typed, Rows, Tables, Handlers, ApprovedIsCharged, CopiesCharged

(* Only a working handler moves on.                                        *)
LEMMA OnlyWorking ==
  ASSUME NEW s \in Sessions,
         Edit(s) \/ Count(s) \/ Submit(s) \/ Decide(s) \/ Advance(s) \/ Abandon(s)
  PROVE  sess[s] # Idle
<1>1. Idle.op = "none"
  BY DEF Idle
<1>2. CASE Edit(s)
  BY <1>1, <1>2 DEF Edit, Replace, Patch, Delete, Cancel
<1>3. CASE Count(s)
  <2>1. PICK q \in Scopes : CountUsed(s, q) \/ CountReserved(s, q)
    BY <1>3 DEF Count
  <2>2. CASE CountUsed(s, q)
    BY <1>1, <2>2 DEF CountUsed
  <2>3. CASE CountReserved(s, q)
    BY <1>1, <2>3 DEF CountReserved
  <2>4. QED
    BY <2>1, <2>2, <2>3
<1>4. CASE Submit(s) \/ Advance(s) \/ Abandon(s)
  BY <1>1, <1>4 DEF Submit, Advance, Abandon
<1>5. CASE Decide(s)
  BY <1>1, <1>5 DEF Decide, CheckUsage, Approve, Return, Reject
<1>6. QED
  BY <1>2, <1>3, <1>4, <1>5

(* What a supervisor may decide, with the items meant being some of theirs.*)
LEMMA Decisions ==
  ASSUME NEW s \in Sessions, Decide(s)
  PROVE  \/ CheckUsage(s)
         \/ \E T \in Targets(s), override \in BOOLEAN : Approve(s, T, override)
         \/ \E T \in Targets(s) : Return(s, T)
         \/ Reject(s)
<1>1. ASSUME NEW T, NEW override, Approve(s, T, override)
      PROVE  T \in Targets(s)
  BY <1>1 DEF Approve
<1>2. ASSUME NEW T, Return(s, T)
      PROVE  T \in Targets(s)
  BY <1>2 DEF Return
<1>3. QED
  BY <1>1, <1>2 DEF Decide

(* Every step is one of these.                                             *)
LEMMA StepCases ==
  ASSUME ChargeInv, [Next]_vars
  PROVE  \/ \E o \in Orders, layout \in Layouts : Create(o, layout)
         \/ \E s \in Sessions, op \in DOMAIN Accepts, o \in Orders : Load(s, op, o)
         \/ \E s \in Sessions : Commits(s)
         \/ \E s \in Sessions : sess[s] # Idle /\ Reads(s)
         \/ \E s \in Sessions : Abandon(s)
         \/ UNCHANGED vars
<1> SUFFICES ASSUME NEW s \in Sessions, sess[s] # Idle,
                    Edit(s) \/ Count(s) \/ Submit(s) \/ Decide(s) \/ Advance(s) \/ Abandon(s)
             PROVE  Commits(s) \/ Reads(s) \/ Abandon(s)
  BY OnlyWorking DEF Next
<1>1. CASE Edit(s)
  BY <1>1, ReplaceCommits, PatchCommits, RowOnlyCommits DEF Edit
<1>2. CASE Count(s)
  BY <1>2, ReadsOn DEF ChargeInv
<1>3. CASE Submit(s)
  BY <1>3, SubmitCommits
<1>4. CASE Decide(s)
  BY <1>4, Decisions, ReadsOn, ApproveCommits, ReturnCommits, RejectCommits DEF ChargeInv
<1>5. CASE Advance(s)
  BY <1>5, RowOnlyCommits
<1>6. QED
  BY <1>1, <1>2, <1>3, <1>4, <1>5

(* In every reachable state, what is approved is charged, in the table and *)
(* in every copy.                                                          *)
LEMMA ChargeInvariant == Spec => []ChargeInv
<1>1. Init => ChargeInv
  <2> SUFFICES ASSUME Init PROVE ChargeInv
    OBVIOUS
  <2>1. NoOrder \in Row /\ NoOrder.status = "absent"
    BY DEF NoOrder, Row
  <2>2. Partial(NoLines, ItemIds, Item)
    BY DEF NoLines, Partial
  <2>3. QED
    BY <2>1, <2>2 DEF Init, ChargeInv, Typed, Rows, Tables, Handlers, ApprovedIsCharged,
                      CopiesCharged, Granted
<1>2. ChargeInv /\ [Next]_vars => ChargeInv'
  <2> SUFFICES ASSUME ChargeInv, [Next]_vars PROVE ChargeInv'
    OBVIOUS
  <2>1. CASE UNCHANGED vars
    BY <2>1 DEF vars, ChargeInv, Typed, Rows, Tables, Handlers, ApprovedIsCharged,
                CopiesCharged
  <2>2. QED
    BY <2>1, StepCases, CreateKeeps, LoadKeeps, CommitKeeps, ReadsKeeps, AbandonKeeps
<1>3. QED
  BY <1>1, <1>2, PTL DEF Spec

(* Rows, usage and what the handlers hold have their types in every        *)
(* reachable state, with any number of handlers.                           *)
THEOREM ApprovalTypeCorrect == Spec => []TypeOK
<1>1. ChargeInv => TypeOK
  BY DEF ChargeInv, Typed, Rows, Tables, Handlers, Shaped, Tallied, TypeOK
<1>2. QED
  BY <1>1, ChargeInvariant, PTL

(* Whatever overlaps, an order that was approved, and everything that      *)
(* follows approval, has been charged.                                     *)
THEOREM ApprovalIsCharged == Spec => []ApprovedIsCharged
<1>1. ChargeInv => ApprovedIsCharged
  BY DEF ChargeInv
<1>2. QED
  BY <1>1, ChargeInvariant, PTL

(***************************************************************************)
(* With one handler at a time the copy is the stored order, a commit       *)
(* stores what the handler computed, the status agrees with the items, and *)
(* what was charged with the status.                                       *)
(***************************************************************************)

FreshCopies ==
  \A s \in Sessions :
    sess[s] # Idle => /\ sess[s].row = order[sess[s].of]
                      /\ sess[s].lines = items[sess[s].of]

(* An order with these items has been charged with each of them, once, if  *)
(* it was approved.                                                        *)
Charged(row, lines, charge) ==
  /\ row.total = Cardinality(DOMAIN lines)
  /\ charge = IF row.status \in Granted THEN row.total ELSE 0

OrdersCharged ==
  \A o \in Orders : IF order[o].status = "absent" THEN used[o] = 0
                    ELSE Charged(order[o], items[o], used[o])

AgreeInv == Typed /\ FreshCopies /\ StatusIsAggregate /\ OrdersCharged

(* Alone, a handler stores the row it computed ...                         *)
LEMMA FreshSaveRow ==
  ASSUME AgreeInv, NEW s \in Sessions, sess[s] # Idle, NEW new \in Row, SaveRow(s, new)
  PROVE  order' = [order EXCEPT ![sess[s].of] = new]
<1>1. sess[s].row = order[sess[s].of] /\ order[sess[s].of] \in Row
  BY DEF AgreeInv, FreshCopies, Typed, Rows, Handlers, Shaped
<1>2. MergeRow(sess[s].row, sess[s].row, new) = new
  BY <1>1 DEF MergeRow, Dirty, Row
<1>3. QED
  BY <1>1, <1>2 DEF SaveRow

(* ... and the items it computed.                                          *)
LEMMA FreshSaveItems ==
  ASSUME AgreeInv, NEW s \in Sessions, sess[s] # Idle, NEW T, NEW new,
         T \subseteq DOMAIN sess[s].lines, \A i \in T : new[i] \in Item,
         SaveItems(s, T, new)
  PROVE  items' = [items EXCEPT ![sess[s].of] =
                     [i \in DOMAIN sess[s].lines |-> IF i \in T THEN new[i]
                                                     ELSE sess[s].lines[i]]]
<1> DEFINE lines == sess[s].lines
<1>1. lines = items[sess[s].of] /\ sess[s].of \in Orders /\ Partial(lines, ItemIds, Item)
  BY DEF AgreeInv, FreshCopies, Typed, Handlers, Shaped
<1>2. \A i \in T : MergeItem(lines[i], lines[i], new[i]) = new[i]
  <2> SUFFICES ASSUME NEW i \in T PROVE MergeItem(lines[i], lines[i], new[i]) = new[i]
    OBVIOUS
  <2>1. lines[i] \in Item /\ new[i] \in Item
    BY <1>1 DEF Partial
  <2>2. QED
    BY <2>1 DEF MergeItem, Dirty, Item
<1>3. [i \in DOMAIN items[sess[s].of] |->
         IF i \in T THEN MergeItem(items[sess[s].of][i], lines[i], new[i])
         ELSE items[sess[s].of][i]]
        = [i \in DOMAIN lines |-> IF i \in T THEN new[i] ELSE lines[i]]
  BY <1>1, <1>2
<1>4. QED
  BY <1>3 DEF SaveItems

(* What every commit of a fresh handler has in common.                     *)
Settles(s) ==
  /\ sess[s] # Idle
  /\ \A o \in Orders :
       \/ order'[o] = order[o] /\ items'[o] = items[o] /\ used'[o] = used[o]
       \/ /\ o = sess[s].of
          /\ order'[o].status # "absent"
          /\ Agrees(order'[o].status, items'[o])
          /\ Charged(order'[o], items'[o], used'[o])
  /\ End(s)

(* A fresh handler's copy agrees.                                          *)
LEMMA FreshAgrees ==
  ASSUME AgreeInv, NEW s \in Sessions, sess[s] # Idle
  PROVE  /\ Shaped(sess[s]) /\ sess[s].row \in Row /\ sess[s].of \in Orders
         /\ sess[s].row = order[sess[s].of]
         /\ sess[s].lines = items[sess[s].of]
         /\ Agrees(sess[s].row.status, sess[s].lines)
         /\ Charged(sess[s].row, sess[s].lines, used[sess[s].of])
BY DEF AgreeInv, FreshCopies, StatusIsAggregate, OrdersCharged, Typed, Handlers, Shaped

(* Deletion, cancellation and the steps after approval keep status, items  *)
(* and charge in agreement.                                                *)
LEMMA RowOnlySettles ==
  ASSUME AgreeInv, NEW s \in Sessions, sess[s] # Idle, Delete(s) \/ Cancel(s) \/ Advance(s)
  PROVE  Settles(s)
<1> DEFINE old == sess[s].row.status
           lines == sess[s].lines
<1>1. /\ Shaped(sess[s]) /\ sess[s].row \in Row /\ sess[s].of \in Orders
      /\ lines = items[sess[s].of] /\ Agrees(old, lines)
      /\ Charged(sess[s].row, lines, used[sess[s].of])
  BY FreshAgrees
<1>2. items' = items /\ used' = used /\ End(s)
  BY DEF Delete, Cancel, Advance
<1>3. CASE Delete(s)
  <2> DEFINE new == [sess[s].row EXCEPT !.deleted = TRUE]
  <2>0. old = "draft"
    BY <1>1, <1>3 DEF Delete, Shaped, Accepts
  <2>1. new \in Row /\ new.status = old /\ new.total = sess[s].row.total
    BY <1>1 DEF Row
  <2>2. order' = [order EXCEPT ![sess[s].of] = new]
    BY <1>3, <2>1, FreshSaveRow DEF Delete
  <2>3. Charged(new, lines, used[sess[s].of])
    BY <1>1, <2>1 DEF Charged
  <2> HIDE DEF new
  <2>4. QED
    BY <1>1, <1>2, <2>0, <2>1, <2>2, <2>3 DEF Settles, AgreeInv, Typed, Rows
<1>4. CASE Cancel(s)
  <2> DEFINE new == [sess[s].row EXCEPT !.status = "cancelled"]
  <2>1. new \in Row /\ new.status = "cancelled" /\ new.total = sess[s].row.total
    BY <1>1 DEF Row, Statuses
  <2>2. order' = [order EXCEPT ![sess[s].of] = new]
    BY <1>4, <2>1, FreshSaveRow DEF Cancel
  <2>3. Agrees("cancelled", lines)
    BY DEF Agrees, Granted
  <2>4. old \notin Granted
    BY <1>1, <1>4 DEF Cancel, Shaped, Accepts, Granted
  <2>5. Charged(new, lines, used[sess[s].of])
    BY <1>1, <2>1, <2>4 DEF Charged, Granted
  <2> HIDE DEF new
  <2>6. QED
    BY <1>1, <1>2, <2>1, <2>2, <2>3, <2>5 DEF Settles, AgreeInv, Typed, Rows
<1>5. CASE Advance(s)
  <2> DEFINE new == [sess[s].row EXCEPT !.status = Following[old]]
  <2>1. old \in {"approved", "sample_delivered", "sample_received", "ready_for_pickup"}
    BY <1>1, <1>5 DEF Advance, Shaped, Accepts
  <2>2. Following[old] \in Statuses /\ Following[old] \in Granted
    BY <2>1 DEF Following, Granted, Statuses
  <2>3. new \in Row /\ new.status = Following[old] /\ new.total = sess[s].row.total
    BY <1>1, <2>2 DEF Row
  <2>4. order' = [order EXCEPT ![sess[s].of] = new]
    BY <1>5, <2>3, FreshSaveRow DEF Advance
  <2>5. Agrees(Following[old], lines)
    <3>1. Having(lines, {"approved"}) = DOMAIN lines
      BY <1>1, <2>1 DEF Agrees, Granted
    <3> HIDE DEF old
    <3>2. QED
      BY <2>2, <3>1 DEF Agrees, Granted
  <2>6. old \in Granted /\ new.status # "absent"
    BY <2>1, <2>2, <2>3 DEF Granted
  <2>7. Charged(new, lines, used[sess[s].of])
    BY <1>1, <2>2, <2>3, <2>6 DEF Charged
  <2> HIDE DEF new
  <2>8. QED
    BY <1>1, <1>2, <2>3, <2>4, <2>5, <2>6, <2>7 DEF Settles, AgreeInv, Typed, Rows
<1>6. QED
  BY <1>3, <1>4, <1>5

(* A handler that stores a status and items that agree.                    *)
LEMMA DecisionSettles ==
  ASSUME AgreeInv, NEW s \in Sessions, sess[s] # Idle, NEW T, NEW lines, NEW new,
         T \subseteq DOMAIN sess[s].lines, \A i \in T : lines[i] \in Item,
         new \in Row, new.status # "absent",
         SaveItems(s, T, lines), SaveRow(s, new), End(s),
         Charged(new, sess[s].lines, used'[sess[s].of]),
         \A o \in Orders \ {sess[s].of} : used'[o] = used[o],
         Agrees(new.status, [i \in DOMAIN sess[s].lines |-> IF i \in T THEN lines[i]
                                                            ELSE sess[s].lines[i]])
  PROVE  Settles(s)
<1> DEFINE stored == [i \in DOMAIN sess[s].lines |-> IF i \in T THEN lines[i]
                                                     ELSE sess[s].lines[i]]
<1>1. order' = [order EXCEPT ![sess[s].of] = new]
  BY FreshSaveRow
<1>2. items' = [items EXCEPT ![sess[s].of] = stored]
  BY FreshSaveItems
<1> HIDE DEF stored
<1>3. Agrees(new.status, stored) /\ Charged(new, stored, used'[sess[s].of])
  BY DEF stored, Charged
<1>4. QED
  BY <1>1, <1>2, <1>3 DEF Settles, AgreeInv, Typed, Rows, Tables

(* A handler that leaves an order unapproved, and all usage rows alone.    *)
LEMMA StaysUncharged ==
  ASSUME AgreeInv, NEW s \in Sessions, sess[s] # Idle, NEW new,
         sess[s].row.status \notin Granted, new.status \notin Granted,
         new.total = sess[s].row.total \/ new.total = Cardinality(DOMAIN sess[s].lines),
         UNCHANGED used
  PROVE  /\ Charged(new, sess[s].lines, used'[sess[s].of])
         /\ \A o \in Orders \ {sess[s].of} : used'[o] = used[o]
BY FreshAgrees DEF Charged

(* So does a submission: every item waits.                                 *)
LEMMA SubmitSettles ==
  ASSUME AgreeInv, NEW s \in Sessions, sess[s] # Idle, Submit(s)
  PROVE  Settles(s)
<1> DEFINE lines == [i \in DOMAIN sess[s].lines |->
                       [lab |-> sess[s].lines[i].lab, status |-> "pending_approval",
                        exceeded |-> i \in Exceeding(s), override |-> FALSE]]
           T == DOMAIN sess[s].lines
           new == [sess[s].row EXCEPT !.status = "pending_approval"]
           stored == [i \in DOMAIN sess[s].lines |-> IF i \in T THEN lines[i]
                                                     ELSE sess[s].lines[i]]
<1>1. Shaped(sess[s]) /\ sess[s].row \in Row
  BY FreshAgrees
<1>2. \A i \in T : lines[i] \in Item
  BY <1>1 DEF Shaped, Partial, Item
<1>3. new \in Row /\ new.status = "pending_approval" /\ new.total = sess[s].row.total
  BY <1>1 DEF Row, Statuses
<1>4. Agrees(new.status, stored)
  BY <1>1, <1>3 DEF Agrees, Having, Granted, Shaped
<1>5. SaveItems(s, T, lines) /\ SaveRow(s, new) /\ End(s) /\ UNCHANGED used
  BY DEF Submit
<1>6. sess[s].row.status \notin Granted
  BY <1>1 DEF Submit, Shaped, Accepts, Granted
<1> HIDE DEF lines, new
<1>7. /\ Charged(new, sess[s].lines, used'[sess[s].of])
      /\ \A o \in Orders \ {sess[s].of} : used'[o] = used[o]
  BY <1>3, <1>5, <1>6, StaysUncharged DEF Granted
<1>8. QED
  BY <1>2, <1>3, <1>4, <1>5, <1>7, DecisionSettles

(* So does a rejection: every item is rejected.                            *)
LEMMA RejectSettles ==
  ASSUME AgreeInv, NEW s \in Sessions, sess[s] # Idle, Reject(s)
  PROVE  Settles(s)
<1> DEFINE lines == [i \in DOMAIN sess[s].lines |->
                       [sess[s].lines[i] EXCEPT !.status = "rejected"]]
           T == DOMAIN sess[s].lines
           new == [sess[s].row EXCEPT !.status = "rejected"]
           stored == [i \in DOMAIN sess[s].lines |-> IF i \in T THEN lines[i]
                                                     ELSE sess[s].lines[i]]
<1>1. Shaped(sess[s]) /\ sess[s].row \in Row
  BY FreshAgrees
<1>2. \A i \in T : lines[i] \in Item /\ lines[i].status = "rejected"
  BY <1>1 DEF Shaped, Partial, Item
<1>3. new \in Row /\ new.status = "rejected" /\ new.total = sess[s].row.total
  BY <1>1 DEF Row, Statuses
<1>4. SaveItems(s, T, lines) /\ SaveRow(s, new) /\ End(s) /\ UNCHANGED used
  BY DEF Reject
<1>5. sess[s].row.status \notin Granted
  BY <1>1 DEF Reject, Shaped, Accepts, Granted
<1> HIDE DEF lines, new
<1>6. Agrees(new.status, stored)
  BY <1>2, <1>3 DEF Agrees, Having, Granted
<1>7. /\ Charged(new, sess[s].lines, used'[sess[s].of])
      /\ \A o \in Orders \ {sess[s].of} : used'[o] = used[o]
  BY <1>3, <1>4, <1>5, StaysUncharged DEF Granted
<1>8. QED
  BY <1>2, <1>3, <1>4, <1>6, <1>7, DecisionSettles

(* The items of an order that waits for approval.                          *)
LEMMA WaitingItems ==
  ASSUME AgreeInv, NEW s \in Sessions, sess[s] # Idle, sess[s].op \in {"approve", "return"}
  PROVE  /\ sess[s].row.status = "pending_approval"
         /\ \A i \in DOMAIN sess[s].lines :
              sess[s].lines[i].status \in {"pending_approval", "approved"}
<1>1. Shaped(sess[s]) /\ Agrees(sess[s].row.status, sess[s].lines)
  BY FreshAgrees
<1>2. sess[s].row.status = "pending_approval"
  BY <1>1 DEF Shaped, Accepts
<1>3. QED
  BY <1>1, <1>2 DEF Agrees, Having

(* So does a return: an item is returned, none is rejected.                *)
LEMMA ReturnSettles ==
  ASSUME AgreeInv, NEW s \in Sessions, sess[s] # Idle, NEW T \in Targets(s), Return(s, T)
  PROVE  Settles(s)
<1> DEFINE lines == [i \in DOMAIN sess[s].lines |->
                       IF i \in T THEN [sess[s].lines[i] EXCEPT !.status = "returned"]
                       ELSE sess[s].lines[i]]
           status == Aggregate(lines, sess[s].row.status)
           new == [sess[s].row EXCEPT !.status = status]
           stored == [i \in DOMAIN sess[s].lines |-> IF i \in T THEN lines[i]
                                                     ELSE sess[s].lines[i]]
<1>1. /\ Shaped(sess[s]) /\ sess[s].row \in Row
      /\ T \subseteq DOMAIN sess[s].lines /\ T # {}
  BY FreshAgrees, TargetsOfCopy
<1>2. \A i \in T : lines[i] \in Item /\ lines[i].status = "returned"
  BY <1>1 DEF Shaped, Partial, Item
<1>3. \A i \in DOMAIN sess[s].lines :
        lines[i].status \in {"pending_approval", "approved", "returned"}
  BY <1>1, <1>2, WaitingItems DEF Return
<1>4. DOMAIN lines = DOMAIN sess[s].lines /\ stored = lines
  OBVIOUS
<1>5. /\ SaveItems(s, T, lines) /\ End(s) /\ UNCHANGED used
      /\ SaveRow(s, [sess[s].row EXCEPT !.status = status])
  BY DEF Return
<1> HIDE DEF lines, stored
<1>6. status = "returned"
  BY <1>1, <1>2, <1>3, <1>4 DEF Aggregate
<1> HIDE DEF status
<1>7. new \in Row /\ new.status = "returned" /\ new.total = sess[s].row.total
  BY <1>1, <1>6 DEF Row, Statuses
<1>8. Agrees("returned", lines)
  BY <1>1, <1>2, <1>3, <1>4 DEF Agrees, Having, Granted
<1>9. /\ Charged(new, sess[s].lines, used'[sess[s].of])
      /\ \A o \in Orders \ {sess[s].of} : used'[o] = used[o]
  <2> HIDE DEF new
  <2>1. sess[s].row.status \notin Granted
    BY WaitingItems DEF Return, Granted
  <2>2. QED
    BY <1>5, <1>7, <2>1, StaysUncharged DEF Granted
<1>10. QED
  BY <1>1, <1>2, <1>4, <1>5, <1>7, <1>8, <1>9, DecisionSettles DEF stored

(* So does an approval: the last one approves the order and charges it,    *)
(* another leaves it pending.                                              *)
LEMMA ApproveSettles ==
  ASSUME AgreeInv, NEW s \in Sessions, sess[s] # Idle, NEW T \in Targets(s),
         NEW override \in BOOLEAN, Approve(s, T, override)
  PROVE  Settles(s)
<1> DEFINE lines == [i \in DOMAIN sess[s].lines |->
                       IF i \in T
                       THEN [lab      |-> sess[s].lines[i].lab,
                             status   |-> "approved",
                             exceeded |-> sess[s].lines[i].exceeded \/ override,
                             override |-> sess[s].lines[i].override \/ override]
                       ELSE sess[s].lines[i]]
           status == Aggregate(lines, sess[s].row.status)
           new == [sess[s].row EXCEPT !.status = status]
           stored == [i \in DOMAIN sess[s].lines |-> IF i \in T THEN lines[i]
                                                     ELSE sess[s].lines[i]]
<1>1. /\ Shaped(sess[s]) /\ sess[s].row \in Row
      /\ T \subseteq DOMAIN sess[s].lines /\ T # {}
  BY FreshAgrees, TargetsOfCopy
<1>2. \A i \in T : lines[i] \in Item /\ lines[i].status = "approved"
  BY <1>1 DEF Shaped, Partial, Item
<1>3. \A i \in DOMAIN sess[s].lines : lines[i].status \in {"pending_approval", "approved"}
  BY <1>1, <1>2, WaitingItems DEF Approve
<1>4. DOMAIN lines = DOMAIN sess[s].lines /\ stored = lines
  OBVIOUS
<1>5. /\ SaveItems(s, T, lines) /\ End(s)
      /\ SaveRow(s, [sess[s].row EXCEPT !.status = status])
  BY DEF Approve
<1> HIDE DEF lines, stored
<1> DEFINE seen == {lines[i].status : i \in DOMAIN lines}
<1>6. status \in {"approved", "pending_approval"} /\ Agrees(status, lines)
  <2>1. seen \subseteq {"pending_approval", "approved"} /\ "approved" \in seen
    BY <1>1, <1>2, <1>3, <1>4
  <2>2. CASE "pending_approval" \in seen
    <3>1. status = "pending_approval"
      BY <2>1, <2>2 DEF Aggregate
    <3>2. QED
      BY <1>3, <1>4, <2>2, <3>1 DEF Agrees, Having, Granted
  <2>3. CASE "pending_approval" \notin seen
    <3>1. seen = {"approved"}
      BY <2>1, <2>3
    <3>2. status = "approved"
      BY <3>1 DEF Aggregate
    <3>3. QED
      BY <1>3, <1>4, <2>3, <3>2 DEF Agrees, Having, Granted
  <2>4. QED
    BY <2>2, <2>3
<1> HIDE DEF status
<1>7. new \in Row /\ new.status = status /\ new.total = sess[s].row.total
  BY <1>1, <1>6 DEF Row, Statuses
<1>8. /\ Charged(new, sess[s].lines, used'[sess[s].of])
      /\ \A o \in Orders \ {sess[s].of} : used'[o] = used[o]
  <2>1. used[sess[s].of] = 0 /\ sess[s].row.total = Cardinality(DOMAIN sess[s].lines)
    BY FreshAgrees, WaitingItems DEF Approve, Charged, Granted
  <2>2. sess[s].of \in Orders /\ sess[s].row.total \in Nat /\ used \in [Orders -> Nat]
    BY <1>1, FreshAgrees DEF Row, AgreeInv, Typed
  <2>3. IF status = "approved" THEN Charge(s, T) ELSE UNCHANGED used
    BY DEF Approve, status, lines
  <2> HIDE DEF new
  <2>4. CASE status = "approved"
    BY <1>7, <2>1, <2>2, <2>3, <2>4 DEF Charge, Charged, Granted
  <2>5. CASE status = "pending_approval"
    BY <1>7, <2>1, <2>2, <2>3, <2>5 DEF Charged, Granted
  <2>6. QED
    BY <1>6, <2>4, <2>5
<1>9. QED
  BY <1>1, <1>2, <1>4, <1>5, <1>6, <1>7, <1>8, DecisionSettles DEF stored

(* So does an edited item: it is a draft of a returned order.              *)
LEMMA PatchSettles ==
  ASSUME AgreeInv, NEW s \in Sessions, sess[s] # Idle, NEW i \in ItemIds, NEW lab \in Labs,
         Patch(s, i, lab)
  PROVE  Settles(s)
<1> DEFINE n == Cardinality(DOMAIN sess[s].lines)
           new == [sess[s].row EXCEPT !.total = n]
           lines == [j \in {i} |-> [sess[s].lines[i] EXCEPT
                        !.lab = lab, !.status = "draft", !.override = FALSE]]
           stored == [j \in DOMAIN sess[s].lines |-> IF j \in {i} THEN lines[j]
                                                     ELSE sess[s].lines[j]]
<1>1. /\ Shaped(sess[s]) /\ sess[s].row \in Row /\ sess[s].of \in Orders
      /\ Agrees(sess[s].row.status, sess[s].lines)
  BY FreshAgrees
<1>2. /\ SaveItems(s, {i}, lines) /\ {i} \subseteq DOMAIN sess[s].lines /\ End(s)
      /\ SaveRow(s, new) /\ sess[s].lines[i].status = "returned" /\ UNCHANGED used
  BY DEF Patch
<1>3. sess[s].row.status = "returned"
  <2>1. sess[s].row.status \in {"draft", "returned"}
    BY <1>1 DEF Patch, Shaped, Accepts
  <2>2. QED
    BY <1>1, <1>2, <2>1 DEF Agrees, Having
<1>4. lines[i] \in Item /\ lines[i].status = "draft"
  BY <1>1, <1>2 DEF Shaped, Partial, Item
<1>5. new \in Row /\ new.status = "returned" /\ new.total = n
  <2>1. n \in Nat
    <3>1. IsFiniteSet(ItemIds)
      BY FS_Interval, BoundsAssumption DEF ItemIds
    <3>2. DOMAIN sess[s].lines \subseteq ItemIds
      BY <1>1 DEF Shaped, Partial
    <3>3. QED
      BY <3>1, <3>2, FS_Subset, FS_CardinalityType
  <2>2. QED
    BY <1>1, <1>3, <2>1 DEF Row
<1> HIDE DEF lines, new
<1>6. Agrees("returned", stored)
  BY <1>1, <1>2, <1>3, <1>4 DEF Agrees, Having, Granted
<1>7. /\ Charged(new, sess[s].lines, used'[sess[s].of])
      /\ \A o \in Orders \ {sess[s].of} : used'[o] = used[o]
  BY <1>2, <1>3, <1>5, StaysUncharged DEF Granted
<1>8. QED
  BY <1>2, <1>4, <1>5, <1>6, <1>7, DecisionSettles

(* A layout has as many items as it is long.                               *)
LEMMA NewLinesCount ==
  ASSUME NEW layout \in Layouts, NEW b \in Nat
  PROVE  Cardinality(DOMAIN NewLines(layout, b)) = Len(layout)
<1>1. Len(layout) \in Nat /\ Len(layout) > 0
  BY LayoutsAssumption
<1>2. DOMAIN NewLines(layout, b) = (b + 1)..(b + Len(layout))
  BY DEF NewLines
<1>3. Cardinality((b + 1)..(b + Len(layout))) = Len(layout)
  <2> DEFINE c == b + 1
             d == b + Len(layout)
  <2>1. c \in Int /\ d \in Int /\ ~(c > d) /\ d - c + 1 = Len(layout)
    BY <1>1
  <2> HIDE DEF c, d
  <2>2. Cardinality(c..d) = Len(layout)
    BY <2>1, FS_Interval
  <2>3. QED
    BY <2>2 DEF c, d
<1>4. QED
  BY <1>2, <1>3

(* So does a new list of items: they are all drafts, and the total is      *)
(* theirs.                                                                 *)
LEMMA ReplaceSettles ==
  ASSUME AgreeInv, NEW s \in Sessions, sess[s] # Idle, NEW layout \in Layouts,
         Replace(s, layout)
  PROVE  Settles(s)
<1> DEFINE o == sess[s].of
           b == CHOOSE c \in FreeBases(s, Len(layout)) : TRUE
           fresh == NewLines(layout, b)
           kept == DOMAIN items[o] \ DOMAIN sess[s].lines
           new == [sess[s].row EXCEPT !.total = Len(layout)]
           stored == [i \in kept \cup DOMAIN fresh |-> IF i \in kept THEN items[o][i]
                                                       ELSE fresh[i]]
<1>1. /\ Shaped(sess[s]) /\ o \in Orders /\ sess[s].row \in Row /\ sess[s].lines = items[o]
      /\ Charged(sess[s].row, sess[s].lines, used[o])
  BY FreshAgrees
<1>2. b \in 0..(MaxItemId - Len(layout))
  BY DEF Replace, FreeBases
<1>3. Partial(fresh, ItemIds, Item) /\ DOMAIN fresh # {}
  BY <1>2, NewLinesType
<1>4. \A i \in DOMAIN fresh : fresh[i].status = "draft"
  BY DEF NewLines, NewItem
<1>5. items' = [items EXCEPT ![o] = stored] /\ SaveRow(s, new) /\ End(s) /\ UNCHANGED used
  BY DEF Replace
<1>6. new \in Row /\ new.status = sess[s].row.status /\ new.total = Len(layout)
  BY <1>1, LayoutsAssumption DEF Row
<1>7. order' = [order EXCEPT ![o] = new]
  BY <1>5, <1>6, FreshSaveRow
<1>8. sess[s].row.status \in {"draft", "returned"}
  BY <1>1 DEF Replace, Shaped, Accepts
<1>9. Cardinality(DOMAIN fresh) = Len(layout)
  BY <1>2, NewLinesCount
<1> HIDE DEF fresh
<1>10. DOMAIN stored = DOMAIN fresh
  BY <1>1
<1>11. Agrees(new.status, stored)
  BY <1>1, <1>3, <1>4, <1>6, <1>8 DEF Agrees, Having, Granted
<1> HIDE DEF stored, new
<1>12. Charged(new, stored, used'[o])
  BY <1>1, <1>5, <1>6, <1>8, <1>9, <1>10 DEF Charged, Granted
<1>13. QED
  BY <1>1, <1>5, <1>6, <1>7, <1>8, <1>11, <1>12 DEF Settles, AgreeInv, Typed, Rows, Tables

(* One handler at a time keeps copies fresh and the orders in agreement.   *)
Settled == FreshCopies /\ StatusIsAggregate /\ OrdersCharged

(* A new order is a draft with draft items, and not charged.               *)
LEMMA CreateSettled ==
  ASSUME ChargeInv, Settled, NEW o \in Orders, NEW layout \in Layouts, Create(o, layout)
  PROVE  Settled'
<1> DEFINE row == [status |-> "draft", total |-> Len(layout), deleted |-> FALSE]
           lines == NewLines(layout, 0)
<1>1. Agrees("draft", lines)
  BY DEF Agrees, Having, NewLines, NewItem, Granted
<1>2. Cardinality(DOMAIN lines) = Len(layout)
  BY NewLinesCount
<1> HIDE DEF lines
<1>3. order' = [order EXCEPT ![o] = row] /\ items' = [items EXCEPT ![o] = lines]
        /\ UNCHANGED <<used, sess>> /\ order[o].status = "absent"
  BY DEF Create, lines
<1>4. Charged(row, lines, 0)
  BY <1>2 DEF Charged, Granted
<1>5. used[o] = 0
  BY <1>3 DEF Settled, OrdersCharged
<1>6. FreshCopies'
  BY <1>3 DEF Settled, FreshCopies, ChargeInv, Typed, Rows, Tables, Handlers
<1>7. ASSUME NEW p \in Orders
      PROVE  /\ Agrees(order'[p].status, items'[p])
             /\ IF order'[p].status = "absent" THEN used'[p] = 0
                ELSE Charged(order'[p], items'[p], used'[p])
  <2>1. CASE p = o
    BY <1>1, <1>3, <1>4, <1>5, <2>1 DEF ChargeInv, Typed, Rows, Tables
  <2>2. CASE p # o
    BY <1>3, <2>2 DEF Settled, StatusIsAggregate, OrdersCharged, ChargeInv, Typed, Rows, Tables
  <2>3. QED
    BY <2>1, <2>2
<1>8. QED
  BY <1>6, <1>7 DEF Settled, StatusIsAggregate, OrdersCharged

(* With one session, status, items and charge agree in every reachable     *)
(* state.                                                                  *)
LEMMA SettledInvariant ==
  ASSUME NEW s0, Sessions = {s0}
  PROVE  Spec => []Settled
<1>1. Init => Settled
  BY DEF Init, Settled, FreshCopies, StatusIsAggregate, OrdersCharged, NoOrder, Agrees, Granted
<1>2. ChargeInv /\ Settled /\ [Next]_vars => Settled'
  <2> SUFFICES ASSUME ChargeInv, Settled, [Next]_vars PROVE Settled'
    OBVIOUS
  <2>1. AgreeInv
    BY DEF AgreeInv, ChargeInv, Settled
  <2>2. ASSUME NEW s \in Sessions, Settles(s) PROVE Settled'
    <3>1. \A t \in Sessions : sess'[t] = Idle
      BY <2>2 DEF Settles, End, ChargeInv, Typed, Handlers
    <3>2. FreshCopies'
      BY <3>1 DEF FreshCopies
    <3>3. StatusIsAggregate'
      BY <2>2 DEF Settles, Settled, StatusIsAggregate
    <3>4. OrdersCharged'
      BY <2>2 DEF Settles, Settled, OrdersCharged
    <3>5. QED
      BY <3>2, <3>3, <3>4 DEF Settled
  <2>3. ASSUME NEW s \in Sessions, sess[s] # Idle,
               Edit(s) \/ Submit(s) \/ Decide(s) \/ Advance(s), ~CheckUsage(s)
        PROVE  Settles(s)
    <3>1. CASE Edit(s) \/ Submit(s) \/ Advance(s)
      BY <2>1, <2>3, <3>1, ReplaceSettles, PatchSettles, RowOnlySettles, SubmitSettles DEF Edit
    <3>2. CASE Decide(s)
      BY <2>1, <2>3, <3>2, Decisions, ApproveSettles, ReturnSettles, RejectSettles
    <3>3. QED
      BY <2>3, <3>1, <3>2
  <2>4. ASSUME NEW s \in Sessions, sess[s] # Idle, Count(s) \/ CheckUsage(s)
        PROVE  Settled'
    <3>1. Reads(s)
      BY <2>4, ReadsOn DEF ChargeInv
    <3>2. PICK w : /\ w.of = sess[s].of /\ w.row = sess[s].row /\ w.lines = sess[s].lines
                   /\ sess' = [sess EXCEPT ![s] = w]
      BY <3>1 DEF Reads
    <3>3. UNCHANGED <<order, items, used>>
      BY <3>1 DEF Reads
    <3>4. FreshCopies'
      BY <2>4, <3>2, <3>3 DEF Settled, FreshCopies, ChargeInv, Typed, Handlers
    <3>5. StatusIsAggregate' /\ OrdersCharged'
      BY <3>3 DEF Settled, StatusIsAggregate, OrdersCharged
    <3>6. QED
      BY <3>4, <3>5 DEF Settled
  <2>5. ASSUME NEW s \in Sessions, NEW op \in DOMAIN Accepts, NEW o \in Orders, Load(s, op, o)
        PROVE  Settled'
    BY <2>5 DEF Load, Settled, FreshCopies, StatusIsAggregate, OrdersCharged, ChargeInv,
                Typed, Handlers
  <2>6. ASSUME NEW s \in Sessions, Abandon(s)
        PROVE  Settled'
    BY <2>6 DEF Abandon, End, Settled, FreshCopies, StatusIsAggregate, OrdersCharged,
                ChargeInv, Typed, Handlers
  <2>7. CASE UNCHANGED vars
    BY <2>7 DEF vars, Settled, FreshCopies, StatusIsAggregate, OrdersCharged
  <2>8. QED
    BY CreateSettled, OnlyWorking, <2>2, <2>3, <2>4, <2>5, <2>6, <2>7 DEF Next
<1>3. QED
  BY <1>1, <1>2, ChargeInvariant, PTL DEF Spec

(* With one handler at a time, the order's status is what its items say,   *)
(* for every layout, any quotas and any number of orders.                  *)
THEOREM SerialAggregate ==
  ASSUME NEW s0, Sessions = {s0}
  PROVE  Spec => []StatusIsAggregate
<1>1. Settled => StatusIsAggregate
  BY DEF Settled
<1>2. Spec => []Settled
  BY SettledInvariant
<1>3. QED
  BY <1>1, <1>2, PTL

(* With one handler at a time, an order is charged with each of its items  *)
(* once, when the last of them is approved, and with nothing otherwise.    *)
THEOREM SerialCharge ==
  ASSUME NEW s0, Sessions = {s0}
  PROVE  Spec => []ChargedInFull
<1>1. Settled => ChargedInFull
  BY DEF Settled, OrdersCharged, Charged, ChargedInFull, Granted
<1>2. Spec => []Settled
  BY SettledInvariant
<1>3. QED
  BY <1>1, <1>2, PTL

(***************************************************************************)
(* Quotas.  An order that waits for approval or has it holds its items     *)
(* that were within quota when it was submitted and that nobody gave an    *)
(* override since.  With one handler at a time, what the orders counted    *)
(* for a quota hold is never more than its limit: a submission knows what  *)
(* was charged and what waits, no other step has an order hold more.       *)
(***************************************************************************)

InUse(o) == order[o].status \in Granted \cup {"pending_approval"}
InUseFor(q) == {o \in CountedFor(q) : InUse(o)}

Within(lines) == {i \in DOMAIN lines : ~lines[i].override /\ ~lines[i].exceeded}
Held(q) == SumFunctionOnSet([o \in Orders |-> Cardinality(Within(items[o]))], InUseFor(q))

LimitsKept == \A q \in Scopes : Held(q) <= Limit[q]

(* An item over quota is approved with an override only.                   *)
Overridden(lines) ==
  \A i \in DOMAIN lines :
    lines[i].status = "approved" /\ lines[i].exceeded => lines[i].override

OverridesGiven == \A o \in Orders : Overridden(items[o])

(* A deleted order is a draft, and nobody works on it.                     *)
DraftsDeleted == \A o \in Orders : order[o].deleted => order[o].status = "draft"
KeptCopies == \A s \in Sessions : sess[s] # Idle => ~sess[s].row.deleted

(* What a handler counted is so until it commits.                          *)
Tally(s) ==
  /\ DOMAIN sess[s].left \subseteq DOMAIN sess[s].usage
  /\ \A q \in DOMAIN sess[s].usage :
       sess[s].usage[q] = SumFunctionOnSet(used, CountedFor(q))
  /\ \A q \in DOMAIN sess[s].left :
       sess[s].left[q] = Limit[q] - SumFunctionOnSet(used, CountedFor(q)) - Reserved(s, q)

CountsRight == \A s \in Sessions : sess[s] # Idle => Tally(s)

QuotaInv == LimitsKept /\ OverridesGiven /\ DraftsDeleted /\ KeptCopies /\ CountsRight

(* An order holds some of its items, so a number of them.                  *)
LEMMA WithinCount ==
  ASSUME NEW lines, Partial(lines, ItemIds, Item)
  PROVE  /\ IsFiniteSet(DOMAIN lines) /\ Cardinality(DOMAIN lines) \in Nat
         /\ IsFiniteSet(Within(lines)) /\ Cardinality(Within(lines)) \in Nat
         /\ Cardinality(Within(lines)) <= Cardinality(DOMAIN lines)
<1>1. IsFiniteSet(ItemIds)
  BY FS_Interval, BoundsAssumption DEF ItemIds
<1>2. DOMAIN lines \in SUBSET ItemIds /\ Within(lines) \in SUBSET DOMAIN lines
  BY DEF Partial, Within
<1>3. IsFiniteSet(DOMAIN lines)
  BY <1>1, <1>2, FS_Subset
<1>4. QED
  BY <1>2, <1>3, FS_Subset, FS_CardinalityType

(* The orders of a scope are finitely many.                                *)
LEMMA CountedFinite ==
  ASSUME NEW q
  PROVE  \A S \in SUBSET CountedFor(q) : IsFiniteSet(S) /\ S \subseteq Orders
BY OrdersAssumption, FS_Subset DEF CountedFor

(* If no order comes into use or holds more, no scope's orders do.         *)
LEMMA HeldShrinks ==
  ASSUME Tables, Tables', NEW q \in Scopes, Held(q) <= Limit[q],
         \A o \in CountedFor(q) :
           InUse(o)' => InUse(o) /\ Within(items'[o]) \subseteq Within(items[o])
  PROVE  Held(q)' <= Limit[q]
<1> DEFINE f == [o \in Orders |-> Cardinality(Within(items'[o]))]
           g == [o \in Orders |-> Cardinality(Within(items[o]))]
           T == {o \in CountedFor(q) : InUse(o)'}
           S == InUseFor(q)
<1>1. IsFiniteSet(S) /\ IsFiniteSet(T) /\ S \subseteq Orders /\ T \subseteq S
  BY CountedFinite DEF InUseFor
<1>2. \A o \in Orders : f[o] \in Nat /\ g[o] \in Nat
  BY WithinCount DEF Tables
<1>3. \A o \in T : f[o] <= g[o]
  <2> SUFFICES ASSUME NEW o \in T
               PROVE  Cardinality(Within(items'[o])) <= Cardinality(Within(items[o]))
    BY <1>1
  <2>1. Within(items'[o]) \in SUBSET Within(items[o]) /\ IsFiniteSet(Within(items[o]))
    BY <1>1, WithinCount DEF Tables
  <2>2. QED
    BY <2>1, FS_Subset
<1>4. Held(q) = SumFunctionOnSet(g, S) /\ Held(q)' = SumFunctionOnSet(f, T)
  BY DEF Held, InUseFor, CountedFor
<1> HIDE DEF f, g, T, S
<1>5. SumFunctionOnSet(f, T) <= SumFunctionOnSet(g, S)
  BY <1>1, <1>2, <1>3, SumMonotone
<1>6. SumFunctionOnSet(f, T) \in Nat /\ SumFunctionOnSet(g, S) \in Nat
  BY <1>1, <1>2, SumNat
<1>7. QED
  BY <1>4, <1>5, <1>6, QuotaAssumption

(* What a commit does that has no order hold more.                         *)
Tightens(s) ==
  /\ \A o \in Orders :
       InUse(o)' => InUse(o) /\ Within(items'[o]) \subseteq Within(items[o])
  /\ OverridesGiven'
  /\ DraftsDeleted'
  /\ End(s)

(* After a commit nobody is at work.                                       *)
LEMMA NobodyCounts ==
  ASSUME NEW s \in Sessions, Sessions = {s}, Typed, End(s)
  PROVE  KeptCopies' /\ CountsRight'
<1>1. \A t \in Sessions : sess'[t] = Idle
  BY DEF End, Typed, Handlers
<1>2. QED
  BY <1>1 DEF KeptCopies, CountsRight

(* Such a commit keeps the quotas.                                         *)
LEMMA TightensKeeps ==
  ASSUME NEW s \in Sessions, Sessions = {s}, Typed, Typed', QuotaInv, Tightens(s)
  PROVE  QuotaInv'
<1>1. LimitsKept'
  <2> SUFFICES ASSUME NEW q \in Scopes
               PROVE  Held(q)' <= Limit[q]
    BY DEF LimitsKept
  <2>1. Tables /\ Tables' /\ Held(q) <= Limit[q]
    BY DEF Typed, QuotaInv, LimitsKept
  <2>2. \A o \in CountedFor(q) :
          InUse(o)' => InUse(o) /\ Within(items'[o]) \subseteq Within(items[o])
    BY DEF Tightens, CountedFor
  <2>3. QED
    BY <2>1, <2>2, HeldShrinks
<1>2. KeptCopies' /\ CountsRight'
  BY NobodyCounts DEF Tightens
<1>3. QED
  BY <1>1, <1>2 DEF QuotaInv, Tightens

(* What is decided about items holds no more of them, and approves none    *)
(* that is over quota without an override.                                 *)
LEMMA DecisionTightens ==
  ASSUME AgreeInv, QuotaInv, NEW s \in Sessions, sess[s] # Idle, NEW T, NEW lines, NEW new,
         T \subseteq DOMAIN sess[s].lines, \A i \in T : lines[i] \in Item,
         new \in Row, ~new.deleted,
         SaveItems(s, T, lines), SaveRow(s, new), End(s),
         new.status \in Granted \cup {"pending_approval"} =>
           /\ sess[s].row.status \in Granted \cup {"pending_approval"}
           /\ \A i \in T : ~lines[i].override /\ ~lines[i].exceeded =>
                           ~sess[s].lines[i].override /\ ~sess[s].lines[i].exceeded,
         \A i \in T : lines[i].status = "approved" /\ lines[i].exceeded => lines[i].override
  PROVE  Tightens(s)
<1> DEFINE old == sess[s].lines
           stored == [i \in DOMAIN old |-> IF i \in T THEN lines[i] ELSE old[i]]
<1>1. /\ sess[s].of \in Orders /\ sess[s].row = order[sess[s].of]
      /\ old = items[sess[s].of]
  BY FreshAgrees
<1>2. order' = [order EXCEPT ![sess[s].of] = new]
  BY FreshSaveRow
<1>3. items' = [items EXCEPT ![sess[s].of] = stored]
  BY FreshSaveItems
<1>4. new.status \in Granted \cup {"pending_approval"} => Within(stored) \subseteq Within(old)
  BY DEF Within
<1>5. Overridden(stored)
  <2>1. Overridden(old)
    BY <1>1 DEF QuotaInv, OverridesGiven
  <2>2. QED
    BY <2>1 DEF Overridden
<1> HIDE DEF stored, old
<1>6. \A o \in Orders : InUse(o)' => InUse(o) /\ Within(items'[o]) \subseteq Within(items[o])
  <2> SUFFICES ASSUME NEW o \in Orders, InUse(o)'
               PROVE  InUse(o) /\ Within(items'[o]) \subseteq Within(items[o])
    OBVIOUS
  <2>1. CASE o = sess[s].of
    <3>1. order'[o] = new /\ items'[o] = stored
      BY <1>2, <1>3, <2>1 DEF AgreeInv, Typed, Rows, Tables
    <3>2. QED
      BY <1>1, <1>4, <2>1, <3>1 DEF InUse
  <2>2. CASE o # sess[s].of
    <3>1. order'[o] = order[o] /\ items'[o] = items[o]
      BY <1>2, <1>3, <2>2 DEF AgreeInv, Typed, Rows, Tables
    <3>2. QED
      BY <3>1 DEF InUse
  <2>3. QED
    BY <2>1, <2>2
<1>7. OverridesGiven'
  BY <1>3, <1>5 DEF QuotaInv, OverridesGiven, AgreeInv, Typed, Tables
<1>8. DraftsDeleted'
  BY <1>2 DEF QuotaInv, DraftsDeleted, AgreeInv, Typed, Rows
<1>9. QED
  BY <1>6, <1>7, <1>8 DEF Tightens

(* A fresh copy is of an order that is not deleted.                        *)
LEMMA FreshKept ==
  ASSUME QuotaInv, NEW s \in Sessions, sess[s] # Idle
  PROVE  ~sess[s].row.deleted
BY DEF QuotaInv, KeptCopies

(* Approving, returning, rejecting and editing items are such decisions.   *)
LEMMA ApproveTightens ==
  ASSUME AgreeInv, QuotaInv, NEW s \in Sessions, sess[s] # Idle, NEW T \in Targets(s),
         NEW override \in BOOLEAN, Approve(s, T, override)
  PROVE  Tightens(s)
<1> DEFINE old == sess[s].lines
           lines == [i \in DOMAIN sess[s].lines |->
                       IF i \in T
                       THEN [lab      |-> sess[s].lines[i].lab,
                             status   |-> "approved",
                             exceeded |-> sess[s].lines[i].exceeded \/ override,
                             override |-> sess[s].lines[i].override \/ override]
                       ELSE sess[s].lines[i]]
           status == Aggregate(lines, sess[s].row.status)
           new == [sess[s].row EXCEPT !.status = status]
<1>1. /\ Shaped(sess[s]) /\ sess[s].row \in Row /\ T \subseteq DOMAIN old
      /\ ~sess[s].row.deleted
  BY FreshAgrees, FreshKept, TargetsOfCopy
<1>2. sess[s].row.status = "pending_approval"
  BY WaitingItems DEF Approve
<1>3. SaveItems(s, T, lines) /\ SaveRow(s, new) /\ End(s) /\ Allowed(s, T, override)
  BY DEF Approve
<1>4. \A i \in T : old[i] \in Item
  BY <1>1 DEF Shaped, Partial
<1>5. ASSUME NEW i \in T
      PROVE  /\ lines[i] \in Item
             /\ ~lines[i].override /\ ~lines[i].exceeded =>
                  ~old[i].override /\ ~old[i].exceeded
             /\ lines[i].status = "approved" /\ lines[i].exceeded => lines[i].override
  <2>1. lines[i] = [lab      |-> old[i].lab, status |-> "approved",
                    exceeded |-> old[i].exceeded \/ override,
                    override |-> old[i].override \/ override]
    BY <1>1
  <2>2. override \/ (old[i].exceeded => old[i].override)
    BY <1>3 DEF Allowed
  <2> HIDE DEF lines, old
  <2>3. QED
    BY <1>4, <2>1, <2>2 DEF Item
<1> HIDE DEF lines
<1>6. status \in {"rejected", "returned", "approved", "pending_approval"}
  BY <1>2 DEF Aggregate
<1> HIDE DEF status
<1>7. new \in Row /\ ~new.deleted
  BY <1>1, <1>6 DEF Row, Statuses
<1> HIDE DEF new
<1>8. QED
  BY <1>1, <1>2, <1>3, <1>5, <1>7, DecisionTightens

(* Likewise.                                                               *)
LEMMA ReturnTightens ==
  ASSUME AgreeInv, QuotaInv, NEW s \in Sessions, sess[s] # Idle, NEW T \in Targets(s),
         Return(s, T)
  PROVE  Tightens(s)
<1> DEFINE old == sess[s].lines
           lines == [i \in DOMAIN sess[s].lines |->
                       IF i \in T THEN [sess[s].lines[i] EXCEPT !.status = "returned"]
                       ELSE sess[s].lines[i]]
           status == Aggregate(lines, sess[s].row.status)
           new == [sess[s].row EXCEPT !.status = status]
<1>1. /\ Shaped(sess[s]) /\ sess[s].row \in Row /\ T \subseteq DOMAIN old
      /\ ~sess[s].row.deleted
  BY FreshAgrees, FreshKept, TargetsOfCopy
<1>2. sess[s].row.status = "pending_approval"
  BY WaitingItems DEF Return
<1>3. SaveItems(s, T, lines) /\ SaveRow(s, new) /\ End(s)
  BY DEF Return
<1>4. \A i \in T : old[i] \in Item
  BY <1>1 DEF Shaped, Partial
<1>5. ASSUME NEW i \in T
      PROVE  /\ lines[i] \in Item
             /\ ~lines[i].override /\ ~lines[i].exceeded =>
                  ~old[i].override /\ ~old[i].exceeded
             /\ lines[i].status = "approved" /\ lines[i].exceeded => lines[i].override
  <2>1. lines[i] = [old[i] EXCEPT !.status = "returned"]
    BY <1>1
  <2> HIDE DEF lines, old
  <2>2. QED
    BY <1>4, <2>1 DEF Item
<1> HIDE DEF lines
<1>6. status \in {"rejected", "returned", "approved", "pending_approval"}
  BY <1>2 DEF Aggregate
<1> HIDE DEF status
<1>7. new \in Row /\ ~new.deleted
  BY <1>1, <1>6 DEF Row, Statuses
<1> HIDE DEF new
<1>8. QED
  BY <1>1, <1>2, <1>3, <1>5, <1>7, DecisionTightens

(* Likewise.                                                               *)
LEMMA RejectTightens ==
  ASSUME AgreeInv, QuotaInv, NEW s \in Sessions, sess[s] # Idle, Reject(s)
  PROVE  Tightens(s)
<1> DEFINE lines == [i \in DOMAIN sess[s].lines |->
                       [sess[s].lines[i] EXCEPT !.status = "rejected"]]
           T == DOMAIN sess[s].lines
           new == [sess[s].row EXCEPT !.status = "rejected"]
<1>1. Shaped(sess[s]) /\ sess[s].row \in Row /\ ~sess[s].row.deleted
  BY FreshAgrees, FreshKept
<1>2. SaveItems(s, T, lines) /\ SaveRow(s, new) /\ End(s)
  BY DEF Reject
<1>3. \A i \in T : lines[i] \in Item /\ lines[i].status = "rejected"
  BY <1>1 DEF Shaped, Partial, Item
<1>4. new \in Row /\ ~new.deleted /\ new.status = "rejected"
  BY <1>1 DEF Row, Statuses
<1> HIDE DEF lines, new
<1>5. QED
  BY <1>2, <1>3, <1>4, DecisionTightens DEF Granted

(* Likewise.                                                               *)
LEMMA PatchTightens ==
  ASSUME AgreeInv, QuotaInv, NEW s \in Sessions, sess[s] # Idle, NEW i \in ItemIds,
         NEW lab \in Labs, Patch(s, i, lab)
  PROVE  Tightens(s)
<1> DEFINE n == Cardinality(DOMAIN sess[s].lines)
           new == [sess[s].row EXCEPT !.total = n]
           lines == [j \in {i} |-> [sess[s].lines[i] EXCEPT
                        !.lab = lab, !.status = "draft", !.override = FALSE]]
<1>1. Shaped(sess[s]) /\ sess[s].row \in Row /\ ~sess[s].row.deleted
  BY FreshAgrees, FreshKept
<1>2. SaveItems(s, {i}, lines) /\ {i} \subseteq DOMAIN sess[s].lines /\ End(s) /\ SaveRow(s, new)
  BY DEF Patch
<1>3. sess[s].row.status \in {"draft", "returned"}
  BY <1>1 DEF Patch, Shaped, Accepts
<1>4. lines[i] \in Item /\ lines[i].status = "draft"
  BY <1>1, <1>2 DEF Shaped, Partial, Item
<1>5. n \in Nat
  BY <1>1, WithinCount DEF Shaped
<1>6. new \in Row /\ ~new.deleted /\ new.status = sess[s].row.status
  BY <1>1, <1>5 DEF Row
<1> HIDE DEF lines, new
<1>7. QED
  BY <1>2, <1>3, <1>4, <1>6, DecisionTightens DEF Granted

(* Nor do the handlers that store the order's row only.                    *)
LEMMA RowOnlyTightens ==
  ASSUME AgreeInv, QuotaInv, NEW s \in Sessions, sess[s] # Idle,
         Delete(s) \/ Cancel(s) \/ Advance(s)
  PROVE  Tightens(s)
<1>1. /\ Shaped(sess[s]) /\ sess[s].row \in Row /\ ~sess[s].row.deleted
      /\ sess[s].of \in Orders /\ sess[s].row = order[sess[s].of]
  BY FreshAgrees, FreshKept
<1>2. items' = items /\ End(s)
  BY DEF Delete, Cancel, Advance
<1>3. ASSUME NEW new \in Row, SaveRow(s, new), new.deleted => new.status = "draft",
             new.status \in Granted \cup {"pending_approval"} =>
               sess[s].row.status \in Granted \cup {"pending_approval"}
      PROVE  Tightens(s)
  <2>1. order' = [order EXCEPT ![sess[s].of] = new]
    BY <1>3, FreshSaveRow
  <2>2. \A o \in Orders : InUse(o)' => InUse(o) /\ Within(items'[o]) \subseteq Within(items[o])
    BY <1>1, <1>2, <1>3, <2>1 DEF InUse, AgreeInv, Typed, Rows
  <2>3. OverridesGiven'
    BY <1>2 DEF QuotaInv, OverridesGiven
  <2>4. DraftsDeleted'
    BY <1>3, <2>1 DEF QuotaInv, DraftsDeleted, AgreeInv, Typed, Rows
  <2>5. QED
    BY <1>2, <2>2, <2>3, <2>4 DEF Tightens
<1>4. CASE Delete(s)
  <2> DEFINE new == [sess[s].row EXCEPT !.deleted = TRUE]
  <2>1. sess[s].row.status = "draft"
    BY <1>1, <1>4 DEF Delete, Shaped, Accepts
  <2>2. new \in Row /\ new.status = "draft"
    BY <1>1, <2>1 DEF Row
  <2>3. SaveRow(s, new)
    BY <1>4 DEF Delete
  <2> HIDE DEF new
  <2>4. QED
    BY <1>3, <2>2, <2>3 DEF Granted
<1>5. CASE Cancel(s)
  <2> DEFINE new == [sess[s].row EXCEPT !.status = "cancelled"]
  <2>1. new \in Row /\ new.status = "cancelled" /\ ~new.deleted
    BY <1>1 DEF Row, Statuses
  <2>2. SaveRow(s, new)
    BY <1>5 DEF Cancel
  <2> HIDE DEF new
  <2>3. QED
    BY <1>3, <2>1, <2>2 DEF Granted
<1>6. CASE Advance(s)
  <2> DEFINE old == sess[s].row.status
             new == [sess[s].row EXCEPT !.status = Following[old]]
  <2>1. old \in {"approved", "sample_delivered", "sample_received", "ready_for_pickup"}
    BY <1>1, <1>6 DEF Advance, Shaped, Accepts
  <2>2. Following[old] \in Statuses
    BY <2>1 DEF Following, Statuses
  <2>3. new \in Row /\ ~new.deleted
    BY <1>1, <2>2 DEF Row
  <2>4. SaveRow(s, new)
    BY <1>6 DEF Advance
  <2> HIDE DEF new
  <2>5. QED
    BY <1>3, <2>1, <2>3, <2>4 DEF Granted
<1>7. QED
  BY <1>4, <1>5, <1>6

(* Nor does a new list of items: it is of an order that is not in use.     *)
LEMMA ReplaceTightens ==
  ASSUME AgreeInv, QuotaInv, NEW s \in Sessions, sess[s] # Idle, NEW layout \in Layouts,
         Replace(s, layout)
  PROVE  Tightens(s)
<1> DEFINE o == sess[s].of
           fresh == NewLines(layout, CHOOSE c \in FreeBases(s, Len(layout)) : TRUE)
           kept == DOMAIN items[o] \ DOMAIN sess[s].lines
           new == [sess[s].row EXCEPT !.total = Len(layout)]
           stored == [i \in kept \cup DOMAIN fresh |-> IF i \in kept THEN items[o][i]
                                                       ELSE fresh[i]]
<1>1. /\ Shaped(sess[s]) /\ o \in Orders /\ sess[s].row \in Row /\ sess[s].lines = items[o]
      /\ ~sess[s].row.deleted
  BY FreshAgrees, FreshKept
<1>2. \A i \in DOMAIN fresh : fresh[i].status = "draft"
  BY DEF NewLines, NewItem
<1>3. items' = [items EXCEPT ![o] = stored] /\ SaveRow(s, new) /\ End(s)
  BY DEF Replace
<1>4. new \in Row /\ new.status = sess[s].row.status /\ ~new.deleted
  BY <1>1, LayoutsAssumption DEF Row
<1>5. sess[s].row.status \in {"draft", "returned"}
  BY <1>1 DEF Replace, Shaped, Accepts
<1>6. order' = [order EXCEPT ![o] = new]
  BY <1>3, <1>4, FreshSaveRow
<1> HIDE DEF fresh
<1>7. Overridden(stored)
  BY <1>1, <1>2 DEF Overridden
<1> HIDE DEF stored, new, o
<1>8. \A p \in Orders : InUse(p)' => InUse(p) /\ Within(items'[p]) \subseteq Within(items[p])
  <2> SUFFICES ASSUME NEW p \in Orders, InUse(p)'
               PROVE  InUse(p) /\ Within(items'[p]) \subseteq Within(items[p])
    OBVIOUS
  <2>1. p # o
    BY <1>1, <1>4, <1>5, <1>6 DEF InUse, Granted, AgreeInv, Typed, Rows
  <2>2. order'[p] = order[p] /\ items'[p] = items[p]
    BY <1>3, <1>6, <2>1 DEF AgreeInv, Typed, Rows, Tables
  <2>3. QED
    BY <2>2 DEF InUse
<1>9. OverridesGiven'
  BY <1>3, <1>7 DEF QuotaInv, OverridesGiven, AgreeInv, Typed, Tables
<1>10. DraftsDeleted'
  BY <1>4, <1>6 DEF QuotaInv, DraftsDeleted, AgreeInv, Typed, Rows
<1>11. QED
  BY <1>3, <1>8, <1>9, <1>10 DEF Tightens

(* What the orders counted for a scope hold has been charged or waits.     *)
LEMMA HeldIsCounted ==
  ASSUME AgreeInv, QuotaInv, NEW s \in Sessions, sess[s] # Idle, NEW q \in Scopes
  PROVE  /\ Held(q) \in Nat /\ SumFunctionOnSet(used, CountedFor(q)) \in Nat
         /\ Reserved(s, q) \in Nat
         /\ Held(q) <= SumFunctionOnSet(used, CountedFor(q)) + Reserved(s, q)
<1> DEFINE f == [o \in Orders |-> Cardinality(Within(items[o]))]
           totals == [o \in Orders |-> IF o = sess[s].of THEN sess[s].row.total
                                      ELSE order[o].total]
           C == CountedFor(q)
           G == {o \in C : order[o].status \in Granted}
           P == {o \in C : order[o].status = "pending_approval" /\ ~order[o].deleted}
<1>1. IsFiniteSet(C) /\ IsFiniteSet(G) /\ IsFiniteSet(P) /\ C \subseteq Orders
  BY CountedFinite
<1>2. InUseFor(q) = G \cup P /\ G \cap P = {} /\ IsFiniteSet(G \cup P)
  <2>1. \A o \in C : order[o].status = "pending_approval" => ~order[o].deleted
    BY <1>1 DEF QuotaInv, DraftsDeleted
  <2>2. G \cup P \in SUBSET C
    OBVIOUS
  <2>3. IsFiniteSet(G \cup P)
    BY <1>1, <2>2, FS_Subset
  <2>4. QED
    BY <2>1, <2>3 DEF InUseFor, InUse, Granted
<1>3. \A o \in Orders :
        /\ f[o] \in Nat /\ used[o] \in Nat /\ totals[o] \in Nat
        /\ order[o].status # "absent" => f[o] <= order[o].total
        /\ order[o].status \in Granted => used[o] = order[o].total
        /\ totals[o] = order[o].total
  <2> SUFFICES ASSUME NEW o \in Orders
               PROVE  /\ f[o] \in Nat /\ used[o] \in Nat /\ totals[o] \in Nat
                      /\ order[o].status # "absent" => f[o] <= order[o].total
                      /\ order[o].status \in Granted => used[o] = order[o].total
                      /\ totals[o] = order[o].total
    OBVIOUS
  <2>1. /\ Cardinality(Within(items[o])) \in Nat
        /\ Cardinality(Within(items[o])) <= Cardinality(DOMAIN items[o])
    BY WithinCount DEF AgreeInv, Typed, Tables
  <2>2. order[o].status # "absent" => /\ order[o].total = Cardinality(DOMAIN items[o])
                                      /\ order[o].status \in Granted => used[o] = order[o].total
    BY DEF AgreeInv, OrdersCharged, Charged
  <2>3. totals[o] = order[o].total /\ order[o].total \in Nat /\ used[o] \in Nat
    BY FreshAgrees DEF AgreeInv, Typed, Rows, Row
  <2>4. QED
    BY <2>1, <2>2, <2>3 DEF Granted
<1>4. Held(q) = SumFunctionOnSet(f, G \cup P)
  BY <1>2 DEF Held
<1>5. Reserved(s, q) = SumFunctionOnSet(totals, P)
  BY DEF Reserved
<1>6. \A o \in G : f[o] <= used[o]
  BY <1>1, <1>3 DEF Granted
<1>7. \A o \in P : f[o] <= totals[o]
  BY <1>1, <1>3
<1>8. G \in SUBSET C /\ P \in SUBSET P /\ G \cup P \subseteq Orders /\ P \subseteq Orders
  BY <1>1
<1> HIDE DEF f, totals, C, G, P
<1>9. \A o \in G \cup P : f[o] \in Nat /\ f[o] \in Int
  BY <1>3, <1>8
<1>10. SumFunctionOnSet(f, G \cup P) = SumFunctionOnSet(f, G) + SumFunctionOnSet(f, P)
  BY <1>2, <1>9, SumUnion
<1>11. SumFunctionOnSet(f, G) <= SumFunctionOnSet(used, C)
  <2>1. \A o \in C : used[o] \in Nat
    BY <1>1, <1>3
  <2>2. QED
    BY <1>1, <1>6, <1>8, <1>9, <2>1, SumMonotone
<1>12. SumFunctionOnSet(f, P) <= SumFunctionOnSet(totals, P)
  <2>1. \A o \in P : totals[o] \in Nat
    BY <1>3, <1>8
  <2>2. QED
    BY <1>1, <1>7, <1>8, <1>9, <2>1, SumMonotone
<1>13. /\ SumFunctionOnSet(f, G) \in Nat /\ SumFunctionOnSet(f, P) \in Nat
       /\ SumFunctionOnSet(used, C) \in Nat /\ SumFunctionOnSet(totals, P) \in Nat
  <2>1. \A o \in C : used[o] \in Nat
    BY <1>1, <1>3
  <2>2. \A o \in P : totals[o] \in Nat
    BY <1>3, <1>8
  <2>3. QED
    BY <1>1, <1>9, <2>1, <2>2, SumNat
<1>14. QED
  BY <1>4, <1>5, <1>10, <1>11, <1>12, <1>13 DEF C

(* A submission has an order hold what it found to remain, at most.        *)
LEMMA SubmittedWithin ==
  ASSUME AgreeInv, QuotaInv, NEW s \in Sessions, sess[s] # Idle, NEW q \in DOMAIN sess[s].left
  PROVE  LET W == DOMAIN sess[s].lines \ Exceeding(s)
         IN /\ sess[s].left[q] \in Int /\ Cardinality(W) \in Nat
            /\ Cardinality(W) <= IF sess[s].left[q] > 0 THEN sess[s].left[q] ELSE 0
<1> DEFINE D == DOMAIN sess[s].lines
           R == sess[s].left[q]
           H == {i \in D : Cardinality({j \in D : j < i}) < R}
           W == D \ Exceeding(s)
<1>1. Shaped(sess[s]) /\ Tallied(sess[s])
  BY FreshAgrees DEF Shaped
<1>2. R \in Int
  BY <1>1 DEF Tallied, Partial
<1>3. IsFiniteSet(D) /\ D \subseteq Int
  BY <1>1, WithinCount DEF Shaped, Partial, ItemIds
<1>4. R \in Remaining(s)
  BY DEF Remaining
<1>5. \A i \in D : Cardinality({j \in D : j < i}) \in Nat
  BY <1>3, FS_Subset, FS_CardinalityType
<1>6. W \in SUBSET H
  <2> SUFFICES ASSUME NEW i \in D, i \notin Exceeding(s)
               PROVE  Cardinality({j \in D : j < i}) < R
    OBVIOUS
  <2>1. ~(Cardinality({j \in D : j < i}) >= R)
    BY <1>4 DEF Exceeding
  <2>2. Cardinality({j \in D : j < i}) \in Nat
    BY <1>5
  <2> HIDE DEF D, R
  <2>3. QED
    BY <1>2, <2>1, <2>2
<1>7. Cardinality(H) \in Nat /\ Cardinality(H) <= IF R > 0 THEN R ELSE 0
  <2> HIDE DEF D, R
  <2>1. QED
    BY <1>2, <1>3, FewAreFirst
<1>8. IsFiniteSet(H)
  BY <1>3, FS_Subset
<1>9. Cardinality(W) \in Nat /\ Cardinality(W) <= Cardinality(H)
  BY <1>6, <1>8, FS_Subset, FS_CardinalityType
<1> DEFINE n == Cardinality(W)
           m == Cardinality(H)
           bound == IF R > 0 THEN R ELSE 0
<1>10. n \in Nat /\ m \in Nat /\ n <= m /\ m <= bound /\ bound \in Int
  BY <1>2, <1>7, <1>9
<1> HIDE DEF n, m, bound
<1>11. n <= bound
  BY <1>10
<1>12. QED
  BY <1>2, <1>9, <1>11 DEF n, bound

(* A submission keeps the quotas.                                          *)
LEMMA SubmitKeepsQuota ==
  ASSUME NEW s \in Sessions, Sessions = {s}, AgreeInv, Typed', QuotaInv, sess[s] # Idle,
         Submit(s)
  PROVE  QuotaInv'
<1> DEFINE o == sess[s].of
           lines == [i \in DOMAIN sess[s].lines |->
                       [lab |-> sess[s].lines[i].lab, status |-> "pending_approval",
                        exceeded |-> i \in Exceeding(s), override |-> FALSE]]
           D == DOMAIN sess[s].lines
           new == [sess[s].row EXCEPT !.status = "pending_approval"]
           stored == [i \in D |-> IF i \in D THEN lines[i] ELSE sess[s].lines[i]]
<1>1. /\ Shaped(sess[s]) /\ sess[s].row \in Row /\ ~sess[s].row.deleted /\ o \in Orders
      /\ sess[s].row = order[o] /\ sess[s].lines = items[o]
  BY FreshAgrees, FreshKept
<1>2. \A i \in D : lines[i] \in Item
  BY <1>1 DEF Shaped, Partial, Item
<1>3. new \in Row /\ new.status = "pending_approval" /\ ~new.deleted
  BY <1>1 DEF Row, Statuses
<1>4. SaveItems(s, D, lines) /\ SaveRow(s, new) /\ End(s) /\ UNCHANGED used
  BY DEF Submit
<1>5. order[o].status \in {"draft", "returned"}
  BY <1>1 DEF Submit, Shaped, Accepts
<1>6. DOMAIN sess[s].left = ScopesOf[o]
  BY DEF Submit
<1>7. Within(stored) = D \ Exceeding(s) /\ Overridden(stored)
  BY DEF Within, Overridden
<1> HIDE DEF lines, new
<1>8. order' = [order EXCEPT ![o] = new]
  BY <1>3, <1>4, FreshSaveRow
<1>9. items' = [items EXCEPT ![o] = stored]
  BY <1>2, <1>4, FreshSaveItems
<1> HIDE DEF stored
<1>a. /\ order'[o] = new /\ items'[o] = stored
      /\ \A p \in Orders \ {o} : order'[p] = order[p] /\ items'[p] = items[p]
  BY <1>1, <1>8, <1>9 DEF AgreeInv, Typed, Rows, Tables
<1> HIDE DEF o, D
<1>10. LimitsKept'
  <2> SUFFICES ASSUME NEW q \in Scopes
               PROVE  Held(q)' <= Limit[q]
    BY DEF LimitsKept
  <2>1. Tables /\ Tables' /\ Held(q) <= Limit[q] /\ Limit[q] \in Nat
    BY QuotaAssumption DEF AgreeInv, Typed, QuotaInv, LimitsKept
  <2>2. CASE q \notin ScopesOf[o]
    <3>1. \A p \in CountedFor(q) :
            InUse(p)' => InUse(p) /\ Within(items'[p]) \subseteq Within(items[p])
      BY <1>a, <2>2 DEF CountedFor, InUse
    <3>2. QED
      BY <2>1, <3>1, HeldShrinks
  <2>3. CASE q \in ScopesOf[o]
    <3> DEFINE f == [p \in Orders |-> Cardinality(Within(items'[p]))]
               g == [p \in Orders |-> Cardinality(Within(items[p]))]
               A == InUseFor(q)
               B == A \cup {o}
               U == SumFunctionOnSet(used, CountedFor(q))
               R == sess[s].left[q]
               n == Cardinality(D \ Exceeding(s))
    <3>1. IsFiniteSet(A) /\ A \subseteq Orders /\ IsFiniteSet(B) /\ B \subseteq Orders
      <4>1. o \in CountedFor(q)
        BY <1>1, <2>3 DEF CountedFor
      <4>2. B \in SUBSET CountedFor(q) /\ A \in SUBSET CountedFor(q)
        BY <4>1 DEF InUseFor
      <4>3. QED
        BY <4>2, CountedFinite
    <3>2. o \notin A
      BY <1>5 DEF InUseFor, InUse, Granted
    <3>3. InUseFor(q)' = B
      BY <1>1, <1>3, <1>a, <2>3 DEF InUseFor, InUse, CountedFor
    <3>4. \A p \in Orders : f[p] \in Nat /\ f[p] \in Int /\ g[p] \in Nat /\ g[p] \in Int
      BY <2>1, WithinCount DEF Tables
    <3>5. \A p \in A : f[p] = g[p]
      BY <1>a, <3>1, <3>2
    <3>6. f[o] = n
      BY <1>1, <1>7, <1>a
    <3>7. Held(q)' = SumFunctionOnSet(f, B) /\ Held(q) = SumFunctionOnSet(g, A)
      BY <3>3 DEF Held
    <3>8. R \in Int /\ n \in Nat /\ n <= IF R > 0 THEN R ELSE 0
      BY <1>6, <2>3, SubmittedWithin DEF o, D
    <3>9. /\ Held(q) \in Nat /\ U \in Nat /\ Reserved(s, q) \in Nat
          /\ Held(q) <= U + Reserved(s, q)
      BY HeldIsCounted
    <3>10. R = Limit[q] - U - Reserved(s, q)
      BY <1>6, <2>3 DEF QuotaInv, CountsRight, Tally
    <3> HIDE DEF f, g, A, B, U, R, n
    <3>11. SumFunctionOnSet(f, B) = f[o] + SumFunctionOnSet(f, B \ {o})
      BY <3>1, <3>4, SumRemove DEF B
    <3>12. B \ {o} = A
      BY <3>2 DEF B
    <3>13. SumFunctionOnSet(f, A) = SumFunctionOnSet(g, A)
      BY <3>1, <3>4, <3>5, SumCongruence
    <3>14. Held(q)' = n + Held(q)
      BY <3>6, <3>7, <3>11, <3>12, <3>13
    <3>15. n + Held(q) <= Limit[q]
      <4> DEFINE h == Held(q)
                 r == Reserved(s, q)
                 l == Limit[q]
      <4>1. h \in Nat /\ U \in Nat /\ r \in Nat /\ h <= U + r /\ l \in Nat /\ h <= l
              /\ R = l - U - r
        BY <2>1, <3>9, <3>10
      <4> HIDE DEF h, r, l
      <4>2. n + h <= l
        BY <3>8, <4>1
      <4>3. QED
        BY <4>2 DEF h, l
    <3>16. QED
      BY <3>14, <3>15
  <2>4. QED
    BY <2>2, <2>3
<1>11. OverridesGiven'
  BY <1>7, <1>a DEF QuotaInv, OverridesGiven
<1>12. DraftsDeleted'
  BY <1>3, <1>a DEF QuotaInv, DraftsDeleted
<1>13. KeptCopies' /\ CountsRight'
  BY <1>4, NobodyCounts DEF AgreeInv
<1>14. QED
  BY <1>10, <1>11, <1>12, <1>13 DEF QuotaInv

(* What waits is the same while no order that waits is changed.            *)
LEMMA ReservedSame ==
  ASSUME Typed, NEW s \in Sessions, sess[s] # Idle, NEW q \in Scopes,
         sess'[s].of = sess[s].of, sess'[s].row = sess[s].row,
         \A o \in Orders :
           order'[o] = order[o] \/ (order[o].status = "absent" /\ order'[o].status = "draft")
  PROVE  Reserved(s, q)' = Reserved(s, q)
<1> DEFINE f == [o \in Orders |-> IF o = sess[s].of THEN sess[s].row.total
                                  ELSE order[o].total]
           g == [o \in Orders |-> IF o = sess'[s].of THEN sess'[s].row.total
                                  ELSE order'[o].total]
           S == {o \in CountedFor(q) : order[o].status = "pending_approval"
                                         /\ ~order[o].deleted}
           T == {o \in CountedFor(q) : order'[o].status = "pending_approval"
                                         /\ ~order'[o].deleted}
<1>1. IsFiniteSet(S) /\ S \subseteq Orders
  BY CountedFinite
<1>2. S = T
  BY DEF CountedFor
<1>3. \A o \in S : f[o] \in Int /\ f[o] = g[o]
  <2> SUFFICES ASSUME NEW o \in S
               PROVE  f[o] \in Int /\ f[o] = g[o]
    OBVIOUS
  <2>1. order'[o] = order[o] /\ o \in Orders
    BY <1>1
  <2>2. order[o].total \in Nat /\ sess[s].row.total \in Nat
    BY <2>1 DEF Typed, Rows, Row, Handlers, Shaped
  <2>3. QED
    BY <2>1, <2>2
<1>4. Reserved(s, q) = SumFunctionOnSet(f, S) /\ Reserved(s, q)' = SumFunctionOnSet(g, T)
  BY DEF Reserved, CountedFor
<1> HIDE DEF f, g, S, T
<1>5. SumFunctionOnSet(f, S) = SumFunctionOnSet(g, S)
  BY <1>1, <1>3, SumCongruence
<1>6. QED
  BY <1>2, <1>4, <1>5

(* What was counted stays right while the rows it counts stay.             *)
LEMMA TallyStays ==
  ASSUME Typed, NEW s \in Sessions, sess[s] # Idle, Tally(s), sess'[s] = sess[s],
         UNCHANGED used,
         \A o \in Orders :
           order'[o] = order[o] \/ (order[o].status = "absent" /\ order'[o].status = "draft")
  PROVE  Tally(s)'
<1>1. \A q \in Scopes : Reserved(s, q)' = Reserved(s, q)
  BY ReservedSame
<1>2. DOMAIN sess[s].usage \subseteq Scopes /\ DOMAIN sess[s].left \subseteq Scopes
  BY DEF Typed, Handlers, Shaped, Tallied, Partial
<1>3. \A q : SumFunctionOnSet(used', CountedFor(q)) = SumFunctionOnSet(used, CountedFor(q))
  OBVIOUS
<1>4. QED
  BY <1>1, <1>2, <1>3 DEF Tally, CountedFor

(* A new order holds nothing, and nothing of it is counted.                *)
LEMMA CreateKeepsQuota ==
  ASSUME Typed, QuotaInv, Typed', NEW o \in Orders, NEW layout \in Layouts, Create(o, layout)
  PROVE  QuotaInv'
<1> DEFINE row == [status |-> "draft", total |-> Len(layout), deleted |-> FALSE]
           lines == NewLines(layout, 0)
<1>1. \A i \in DOMAIN lines : lines[i].status = "draft"
  BY DEF NewLines, NewItem
<1> HIDE DEF lines
<1>2. /\ order'[o] = row /\ items'[o] = lines /\ order[o].status = "absent"
      /\ \A p \in Orders \ {o} : order'[p] = order[p] /\ items'[p] = items[p]
      /\ UNCHANGED <<used, sess>>
  BY DEF Create, lines, Typed, Rows, Tables
<1>3. row.status = "draft" /\ ~row.deleted
  OBVIOUS
<1> HIDE DEF row
<1>4. LimitsKept'
  <2> SUFFICES ASSUME NEW q \in Scopes
               PROVE  Held(q)' <= Limit[q]
    BY DEF LimitsKept
  <2>1. Tables /\ Tables' /\ Held(q) <= Limit[q]
    BY DEF Typed, QuotaInv, LimitsKept
  <2>2. \A p \in CountedFor(q) :
          InUse(p)' => InUse(p) /\ Within(items'[p]) \subseteq Within(items[p])
    BY <1>2, <1>3 DEF InUse, CountedFor, Granted
  <2>3. QED
    BY <2>1, <2>2, HeldShrinks
<1>5. OverridesGiven'
  BY <1>1, <1>2 DEF QuotaInv, OverridesGiven, Overridden
<1>6. DraftsDeleted'
  BY <1>2, <1>3 DEF QuotaInv, DraftsDeleted
<1>7. KeptCopies'
  BY <1>2 DEF QuotaInv, KeptCopies
<1>8. CountsRight'
  <2> SUFFICES ASSUME NEW s \in Sessions, sess'[s] # Idle
               PROVE  Tally(s)'
    BY DEF CountsRight
  <2>1. sess[s] # Idle /\ sess'[s] = sess[s] /\ Tally(s)
    BY <1>2 DEF QuotaInv, CountsRight
  <2>2. \A p \in Orders :
          order'[p] = order[p] \/ (order[p].status = "absent" /\ order'[p].status = "draft")
    BY <1>2, <1>3
  <2>3. QED
    BY <1>2, <2>1, <2>2, TallyStays
<1>9. QED
  BY <1>4, <1>5, <1>6, <1>7, <1>8 DEF QuotaInv

(* A step that only reads keeps the quotas if what it counts is right.     *)
LEMMA ReadKeepsQuota ==
  ASSUME Typed, QuotaInv, UNCHANGED <<order, items, used>>, KeptCopies', CountsRight'
  PROVE  QuotaInv'
<1>1. LimitsKept'
  BY DEF QuotaInv, LimitsKept, Held, InUseFor, InUse, CountedFor
<1>2. OverridesGiven' /\ DraftsDeleted'
  BY DEF QuotaInv, OverridesGiven, DraftsDeleted
<1>3. QED
  BY <1>1, <1>2 DEF QuotaInv

(* A handler that starts has counted nothing, one that ends counts no more.*)
LEMMA EndsKeepQuota ==
  ASSUME Typed, QuotaInv, NEW s \in Sessions,
         \/ \E op \in DOMAIN Accepts, o \in Orders : Load(s, op, o)
         \/ Abandon(s)
  PROVE  QuotaInv'
<1>1. UNCHANGED <<order, items, used>>
  BY DEF Load, Abandon
<1>2. /\ \A t \in Sessions \ {s} : sess'[t] = sess[t]
      /\ sess'[s] # Idle => ~sess'[s].row.deleted /\ DOMAIN sess'[s].usage = {}
                            /\ DOMAIN sess'[s].left = {}
  <2>1. ASSUME NEW op \in DOMAIN Accepts, NEW o \in Orders, Load(s, op, o)
        PROVE  /\ \A t \in Sessions \ {s} : sess'[t] = sess[t]
               /\ sess'[s] # Idle => ~sess'[s].row.deleted /\ DOMAIN sess'[s].usage = {}
                                     /\ DOMAIN sess'[s].left = {}
    BY <2>1 DEF Load, Typed, Handlers
  <2>2. CASE Abandon(s)
    BY <2>2 DEF Abandon, End, Typed, Handlers
  <2>3. QED
    BY <2>1, <2>2
<1>3. KeptCopies'
  BY <1>2 DEF QuotaInv, KeptCopies
<1>4. CountsRight'
  <2> SUFFICES ASSUME NEW t \in Sessions, sess'[t] # Idle
               PROVE  Tally(t)'
    BY DEF CountsRight
  <2>1. CASE t = s
    BY <1>2, <2>1 DEF Tally
  <2>2. CASE t # s
    <3>1. sess[t] # Idle /\ sess'[t] = sess[t] /\ Tally(t)
      BY <1>2, <2>2 DEF QuotaInv, CountsRight
    <3>2. QED
      BY <1>1, <3>1, TallyStays
  <2>3. QED
    BY <2>1, <2>2
<1>5. QED
  BY <1>1, <1>3, <1>4, ReadKeepsQuota

(* Counting counts right.                                                  *)
LEMMA CountKeepsQuota ==
  ASSUME Typed, QuotaInv, NEW s \in Sessions, sess[s] # Idle, Count(s) \/ CheckUsage(s)
  PROVE  QuotaInv'
<1>1. UNCHANGED <<order, items, used>>
  BY DEF Count, CountUsed, CountReserved, CheckUsage
<1>2. \A t \in Sessions \ {s} : sess'[t] = sess[t]
  BY DEF Count, CountUsed, CountReserved, CheckUsage, Typed, Handlers
<1>3. Shaped(sess[s]) /\ Tally(s) /\ ~sess[s].row.deleted
  BY DEF Typed, Handlers, QuotaInv, CountsRight, KeptCopies
<1>4. ~sess'[s].row.deleted /\ Tally(s)'
  <2>1. ASSUME NEW w, sess' = [sess EXCEPT ![s] = w], w.of = sess[s].of, w.row = sess[s].row,
               DOMAIN w.left \subseteq DOMAIN w.usage, DOMAIN w.usage \subseteq Scopes,
               \A q \in DOMAIN w.usage : w.usage[q] = SumFunctionOnSet(used, CountedFor(q)),
               \A q \in DOMAIN w.left : w.left[q] =
                 Limit[q] - SumFunctionOnSet(used, CountedFor(q)) - Reserved(s, q)
        PROVE  ~sess'[s].row.deleted /\ Tally(s)'
    <3>1. sess'[s] = w
      BY <2>1 DEF Typed, Handlers
    <3>2. \A q \in Scopes : Reserved(s, q)' = Reserved(s, q)
      BY <1>1, <2>1, <3>1, ReservedSame
    <3>3. \A q : SumFunctionOnSet(used', CountedFor(q)) = SumFunctionOnSet(used, CountedFor(q))
      BY <1>1
    <3>4. QED
      BY <1>3, <2>1, <3>1, <3>2, <3>3 DEF Tally, CountedFor
  <2>2. Tallied(sess[s]) /\ DOMAIN sess[s].usage \subseteq Scopes
    BY <1>3 DEF Shaped, Tallied, Partial
  <2>3. ASSUME NEW q \in Scopes, CountUsed(s, q)
        PROVE  ~sess'[s].row.deleted /\ Tally(s)'
    <3> DEFINE x == [p \in DOMAIN sess[s].usage \cup {q} |->
                       IF p = q THEN SumFunctionOnSet(used, CountedFor(q))
                       ELSE sess[s].usage[p]]
               w == [sess[s] EXCEPT !.usage = x]
    <3>1. sess' = [sess EXCEPT ![s] = w]
      BY <2>3 DEF CountUsed
    <3>2. /\ w.of = sess[s].of /\ w.row = sess[s].row /\ w.left = sess[s].left
          /\ w.usage = x
      BY <1>3 DEF Shaped
    <3>3. \A p \in DOMAIN x : x[p] = SumFunctionOnSet(used, CountedFor(p))
      BY <1>3 DEF Tally
    <3>4. DOMAIN x = DOMAIN sess[s].usage \cup {q}
      OBVIOUS
    <3> HIDE DEF x, w
    <3>5. QED
      BY <1>3, <2>1, <2>2, <3>1, <3>2, <3>3, <3>4 DEF Tally
  <2>4. ASSUME NEW q \in Scopes, CountReserved(s, q)
        PROVE  ~sess'[s].row.deleted /\ Tally(s)'
    <3> DEFINE x == [p \in DOMAIN sess[s].left \cup {q} |->
                       IF p = q THEN Limit[q] - sess[s].usage[q] - Reserved(s, q)
                       ELSE sess[s].left[p]]
               w == [sess[s] EXCEPT !.left = x]
    <3>1. sess' = [sess EXCEPT ![s] = w] /\ q \in DOMAIN sess[s].usage
      BY <2>4 DEF CountReserved
    <3>2. /\ w.of = sess[s].of /\ w.row = sess[s].row /\ w.usage = sess[s].usage
          /\ w.left = x
      BY <1>3 DEF Shaped
    <3>3. \A p \in DOMAIN x : x[p] = Limit[p] - SumFunctionOnSet(used, CountedFor(p))
                                       - Reserved(s, p)
      BY <1>3, <3>1 DEF Tally
    <3>4. DOMAIN x = DOMAIN sess[s].left \cup {q}
      OBVIOUS
    <3> HIDE DEF x, w
    <3>5. QED
      BY <1>3, <2>1, <2>2, <3>1, <3>2, <3>3, <3>4 DEF Tally
  <2>5. CASE CheckUsage(s)
    <3> DEFINE w == [sess[s] EXCEPT !.uncharged = TRUE]
    <3>1. sess' = [sess EXCEPT ![s] = w]
      BY <2>5 DEF CheckUsage
    <3>2. /\ w.of = sess[s].of /\ w.row = sess[s].row /\ w.usage = sess[s].usage
          /\ w.left = sess[s].left
      BY <1>3 DEF Shaped
    <3> HIDE DEF w
    <3>3. QED
      BY <1>3, <2>1, <2>2, <3>1, <3>2 DEF Tally
  <2>6. QED
    BY <2>3, <2>4, <2>5 DEF Count
<1>5. KeptCopies'
  BY <1>2, <1>4 DEF QuotaInv, KeptCopies
<1>6. CountsRight'
  <2> SUFFICES ASSUME NEW t \in Sessions, sess'[t] # Idle
               PROVE  Tally(t)'
    BY DEF CountsRight
  <2>1. CASE t # s
    <3>1. sess[t] # Idle /\ sess'[t] = sess[t] /\ Tally(t)
      BY <1>2, <2>1 DEF QuotaInv, CountsRight
    <3>2. QED
      BY <1>1, <3>1, TallyStays
  <2>2. QED
    BY <1>4, <2>1
<1>7. QED
  BY <1>1, <1>5, <1>6, ReadKeepsQuota

(* With one handler at a time, the orders counted for a quota never hold   *)
(* more than its limit.                                                    *)
LEMMA QuotaInvariant ==
  ASSUME NEW s0, Sessions = {s0}
  PROVE  Spec => []QuotaInv
<1>1. Init => QuotaInv
  <2> SUFFICES ASSUME Init
               PROVE  QuotaInv
    OBVIOUS
  <2>1. \A o \in Orders : order[o] = NoOrder /\ items[o] = NoLines
    BY DEF Init
  <2>2. LimitsKept
    <3> SUFFICES ASSUME NEW q \in Scopes
                 PROVE  Held(q) <= Limit[q]
      BY DEF LimitsKept
    <3>1. InUseFor(q) = {}
      BY <2>1 DEF InUseFor, InUse, CountedFor, NoOrder, Granted
    <3>2. Held(q) = 0
      BY <3>1, FS_EmptySet, SumUnfolds DEF Held
    <3>3. QED
      BY <3>2, QuotaAssumption
  <2>3. OverridesGiven /\ DraftsDeleted
    BY <2>1 DEF OverridesGiven, DraftsDeleted, Overridden, NoOrder, NoLines
  <2>4. KeptCopies /\ CountsRight
    BY DEF Init, KeptCopies, CountsRight
  <2>5. QED
    BY <2>2, <2>3, <2>4 DEF QuotaInv
<1>2. ChargeInv /\ ChargeInv' /\ Settled /\ QuotaInv /\ [Next]_vars => QuotaInv'
  <2> SUFFICES ASSUME ChargeInv, ChargeInv', Settled, QuotaInv, [Next]_vars
               PROVE  QuotaInv'
    OBVIOUS
  <2>1. AgreeInv /\ Typed /\ Typed'
    BY DEF AgreeInv, ChargeInv, Settled
  <2>2. ASSUME NEW s \in Sessions, Tightens(s)
        PROVE  QuotaInv'
    BY <2>1, <2>2, TightensKeeps
  <2>3. ASSUME NEW s \in Sessions, sess[s] # Idle, Edit(s) \/ Advance(s)
        PROVE  QuotaInv'
    BY <2>1, <2>2, <2>3, ReplaceTightens, PatchTightens, RowOnlyTightens DEF Edit
  <2>4. ASSUME NEW s \in Sessions, sess[s] # Idle, Decide(s)
        PROVE  QuotaInv'
    BY <2>1, <2>2, <2>4, Decisions, CountKeepsQuota, ApproveTightens, ReturnTightens,
       RejectTightens
  <2>5. ASSUME NEW s \in Sessions, sess[s] # Idle, Submit(s)
        PROVE  QuotaInv'
    BY <2>1, <2>5, SubmitKeepsQuota
  <2>6. ASSUME NEW s \in Sessions, sess[s] # Idle, Count(s)
        PROVE  QuotaInv'
    BY <2>1, <2>6, CountKeepsQuota
  <2>7. CASE UNCHANGED vars
    <3>1. UNCHANGED <<order, items, used, sess>>
      BY <2>7 DEF vars
    <3>2. KeptCopies'
      BY <3>1 DEF QuotaInv, KeptCopies
    <3>3. CountsRight'
      BY <3>1 DEF QuotaInv, CountsRight, Tally, Reserved, CountedFor
    <3>4. QED
      BY <2>1, <3>1, <3>2, <3>3, ReadKeepsQuota
  <2>8. QED
    BY <2>1, <2>3, <2>4, <2>5, <2>6, <2>7, OnlyWorking, CreateKeepsQuota, EndsKeepQuota DEF Next
<1>3. QED
  BY <1>1, <1>2, ChargeInvariant, SettledInvariant, PTL DEF Spec

(* With one handler at a time, however submissions, approvals, returns and *)
(* cancellations of any number of orders follow one another, no more items *)
(* than a quota allows are charged to it without a special approval.       *)
THEOREM SerialQuota ==
  ASSUME NEW s0, Sessions = {s0}
  PROVE  Spec => []WithinQuota
<1>1. ChargeInv /\ Settled /\ QuotaInv => WithinQuota
  <2> SUFFICES ASSUME ChargeInv, Settled, QuotaInv, NEW q \in Scopes
               PROVE  SumFunctionOnSet([o \in Orders |-> Ordinary(o)],
                        {o \in CountedFor(q) : order[o].status \in Granted}) <= Limit[q]
    BY DEF WithinQuota
  <2> DEFINE f == [o \in Orders |-> Ordinary(o)]
             g == [o \in Orders |-> Cardinality(Within(items[o]))]
             G == {o \in CountedFor(q) : order[o].status \in Granted}
             S == InUseFor(q)
  <2>1. IsFiniteSet(S) /\ IsFiniteSet(G) /\ S \subseteq Orders /\ G \in SUBSET S
    BY CountedFinite DEF InUseFor, InUse
  <2>2. \A o \in Orders : g[o] \in Nat
    BY WithinCount DEF ChargeInv, Typed, Tables
  <2>3. \A o \in G : f[o] = g[o]
    <3> SUFFICES ASSUME NEW o \in G
                 PROVE  Ordinary(o) = Cardinality(Within(items[o]))
      BY <2>1
    <3>1. o \in Orders /\ order[o].status \in Granted
      BY <2>1
    <3>2. Having(items[o], {"approved"}) = DOMAIN items[o] /\ Overridden(items[o])
      BY <3>1 DEF Settled, StatusIsAggregate, Agrees, QuotaInv, OverridesGiven
    <3>3. {i \in DOMAIN items[o] : ~items[o][i].override} = Within(items[o])
      BY <3>2 DEF Having, Overridden, Within
    <3>4. QED
      BY <3>3 DEF Ordinary
  <2>4. Held(q) = SumFunctionOnSet(g, S) /\ Held(q) <= Limit[q] /\ Limit[q] \in Nat
    BY QuotaAssumption DEF Held, QuotaInv, LimitsKept
  <2> HIDE DEF f, g, G, S
  <2>5. \A o \in S : g[o] \in Nat
    BY <2>1, <2>2
  <2>6. \A o \in G : f[o] \in Nat /\ f[o] <= g[o]
    BY <2>1, <2>2, <2>3
  <2>7. SumFunctionOnSet(f, G) <= SumFunctionOnSet(g, S)
    BY <2>1, <2>5, <2>6, SumMonotone
  <2>8. SumFunctionOnSet(f, G) \in Nat /\ SumFunctionOnSet(g, S) \in Nat
    BY <2>1, <2>5, <2>6, SumNat
  <2>9. SumFunctionOnSet(f, G) <= Limit[q]
    BY <2>4, <2>7, <2>8
  <2>10. QED
    BY <2>9 DEF f, G
<1>2. Spec => [](ChargeInv /\ Settled /\ QuotaInv)
  BY ChargeInvariant, SettledInvariant, QuotaInvariant, PTL
<1>3. QED
  BY <1>1, <1>2, PTL

================================================================================
