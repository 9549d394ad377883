-------------------------- MODULE SampleRouteProofs --------------------------
(***************************************************************************)
(* Lemmas and theorems about SampleRoute, for any items of an order.       *)
(***************************************************************************)
EXTENDS SampleRoute, FiniteSetTheorems, SequenceTheorems, TLAPS

-----------------------------------------------------------------------------
(* Ordered.  Below[j] stands for the members of S that come before j.      *)

(* A total order, by what lies below each member.                          *)
TotalOrder(S, Below) ==
  /\ IsFiniteSet(S)
  /\ \A j \in S : Below[j] \subseteq S \ {j}
  /\ \A i, j \in S : \/ i = j
                     \/ i \in Below[j] /\ Below[i] \subseteq Below[j]
                     \/ j \in Below[i] /\ Below[j] \subseteq Below[i]

(* f lists the members of S, each of them once.                            *)
Lists(f, S) ==
  /\ f \in [1..Cardinality(S) -> S]
  /\ \A j \in S : \E n \in 1..Cardinality(S) : f[n] = j
  /\ \A m, n \in 1..Cardinality(S) : f[m] = f[n] => m = n

(* f takes the member with n - 1 below it as its n-th.                     *)
Ranks(f, S, Below) ==
  /\ f = [n \in 1..Cardinality(S) |-> f[n]]
  /\ \A n \in DOMAIN f :
       (\E j \in S : Cardinality(Below[j]) = n - 1) =>
         f[n] \in S /\ Cardinality(Below[f[n]]) = n - 1

(* Who is below another has fewer below it, and no two have as many.       *)
LEMMA RankOrder ==
  ASSUME NEW S, NEW Below, TotalOrder(S, Below)
  PROVE  /\ Cardinality(S) \in Nat
         /\ \A j \in S : Cardinality(Below[j]) \in 0..(Cardinality(S) - 1)
         /\ \A i, j \in S : i \in Below[j] /\ Below[i] \subseteq Below[j] =>
              Cardinality(Below[i]) < Cardinality(Below[j])
         /\ \A i, j \in S : Cardinality(Below[i]) = Cardinality(Below[j]) => i = j
<1>1. IsFiniteSet(S) /\ Cardinality(S) \in Nat
  BY FS_CardinalityType DEF TotalOrder
<1>2. ASSUME NEW j \in S
      PROVE  /\ IsFiniteSet(Below[j]) /\ Cardinality(Below[j]) \in Nat
             /\ Cardinality(Below[j]) < Cardinality(S) /\ j \notin Below[j]
  <2>1. Below[j] \in SUBSET S /\ j \notin Below[j] /\ Below[j] # S
    BY DEF TotalOrder
  <2>2. /\ IsFiniteSet(Below[j]) /\ Cardinality(Below[j]) <= Cardinality(S)
        /\ Cardinality(S) = Cardinality(Below[j]) => S = Below[j]
    BY <1>1, <2>1, FS_Subset
  <2>3. QED
    BY <1>1, <2>1, <2>2, FS_CardinalityType
<1>3. ASSUME NEW i \in S, NEW j \in S, i \in Below[j], Below[i] \subseteq Below[j]
      PROVE  Cardinality(Below[i]) < Cardinality(Below[j])
  <2>1. Below[i] \in SUBSET Below[j] /\ Below[i] # Below[j]
    BY <1>2, <1>3
  <2>2. /\ Cardinality(Below[i]) <= Cardinality(Below[j])
        /\ Cardinality(Below[j]) = Cardinality(Below[i]) => Below[j] = Below[i]
    BY <1>2, <2>1, FS_Subset
  <2>3. QED
    BY <1>2, <2>1, <2>2
<1>4. ASSUME NEW i \in S, NEW j \in S, Cardinality(Below[i]) = Cardinality(Below[j])
      PROVE  i = j
  BY <1>2, <1>3, <1>4 DEF TotalOrder
<1>5. QED
  BY <1>1, <1>2, <1>3, <1>4

(* Every rank is taken.                                                    *)
LEMMA RankTaken ==
  ASSUME NEW S, NEW Below, TotalOrder(S, Below), NEW m \in 0..(Cardinality(S) - 1)
  PROVE  \E j \in S : Cardinality(Below[j]) = m
<1> DEFINE R == 0..(Cardinality(S) - 1)
           g == [j \in S |-> Cardinality(Below[j])]
<1>1. IsFiniteSet(S) /\ Cardinality(S) \in Nat
  BY RankOrder DEF TotalOrder
<1>2. IsFiniteSet(R) /\ Cardinality(R) = Cardinality(S)
  <2>1. PICK top \in Int : top = Cardinality(S) - 1
    BY <1>1
  <2>2. IsFiniteSet(0..top) /\ Cardinality(0..top) = IF 0 > top THEN 0 ELSE top - 0 + 1
    BY FS_Interval
  <2>3. QED
    BY <1>1, <2>1, <2>2
<1>3. g \in Injection(S, R)
  <2>1. g \in [S -> R]
    BY RankOrder
  <2>2. \A i, j \in S : g[i] = g[j] => i = j
    BY RankOrder
  <2>3. QED
    BY <2>1, <2>2 DEF Injection, IsInjective
<1>4. g \in Surjection(S, R)
  BY <1>2, <1>3, FS_Injection
<1>5. QED
  BY <1>4 DEF Surjection

(* A listing by rank lists all, in order.                                  *)
LEMMA ListedByRank ==
  ASSUME NEW S, NEW Below, TotalOrder(S, Below), NEW f, Ranks(f, S, Below)
  PROVE  /\ Lists(f, S) /\ Cardinality(S) \in Nat
         /\ \A m, n \in 1..Cardinality(S) : f[m] \in Below[f[n]] => m < n
         /\ \A m, n \in 1..Cardinality(S) : m < n => f[m] \in Below[f[n]]
<1>1. Cardinality(S) \in Nat
  BY RankOrder
<1>2. ASSUME NEW n \in 1..Cardinality(S)
      PROVE  f[n] \in S /\ Cardinality(Below[f[n]]) = n - 1
  <2>1. n - 1 \in 0..(Cardinality(S) - 1)
    BY <1>1
  <2>2. \E j \in S : Cardinality(Below[j]) = n - 1
    BY <2>1, RankTaken
  <2>3. QED
    BY <2>2 DEF Ranks
<1>3. ASSUME NEW j \in S
      PROVE  \E n \in 1..Cardinality(S) : f[n] = j
  <2>1. Cardinality(Below[j]) \in 0..(Cardinality(S) - 1)
    BY RankOrder
  <2>2. Cardinality(Below[j]) + 1 \in 1..Cardinality(S)
        /\ (Cardinality(Below[j]) + 1) - 1 = Cardinality(Below[j])
    BY <1>1, <2>1
  <2>3. f[Cardinality(Below[j]) + 1] = j
    BY <1>2, <2>2, RankOrder
  <2>4. QED
    BY <2>2, <2>3
<1>4. \A m, n \in 1..Cardinality(S) : f[m] = f[n] => m = n
  BY <1>1, <1>2
<1>5. ASSUME NEW m \in 1..Cardinality(S), NEW n \in 1..Cardinality(S)
      PROVE  (f[m] \in Below[f[n]] => m < n) /\ (m < n => f[m] \in Below[f[n]])
  <2>1. /\ f[m] = f[n] \/ f[m] \in Below[f[n]] \/ f[n] \in Below[f[m]]
        /\ f[m] \in Below[f[n]] /\ f[m] # f[n] => Below[f[m]] \subseteq Below[f[n]] \/ f[n] \in Below[f[m]]
        /\ f[n] \notin Below[f[n]] /\ f[m] \notin Below[f[m]]
    BY <1>2 DEF TotalOrder
  <2>2. \/ m = n
        \/ f[m] \in Below[f[n]] /\ f[n] \notin Below[f[m]] /\ m < n
        \/ f[n] \in Below[f[m]] /\ f[m] \notin Below[f[n]] /\ n < m
    <3>1. CASE f[m] = f[n]
      BY <1>4, <3>1
    <3>2. CASE f[m] \in Below[f[n]] /\ Below[f[m]] \subseteq Below[f[n]]
      <4>1. Cardinality(Below[f[m]]) < Cardinality(Below[f[n]])
        BY <1>2, <3>2, RankOrder
      <4>2. QED
        BY <1>2, <2>1, <3>2, <4>1
    <3>3. CASE f[n] \in Below[f[m]] /\ Below[f[n]] \subseteq Below[f[m]]
      <4>1. Cardinality(Below[f[n]]) < Cardinality(Below[f[m]])
        BY <1>2, <3>3, RankOrder
      <4>2. QED
        BY <1>2, <2>1, <3>3, <4>1
    <3>4. QED
      BY <1>2, <3>1, <3>2, <3>3 DEF TotalOrder
  <2>3. QED
    BY <1>2, <2>1, <2>2
<1>6. f \in [1..Cardinality(S) -> S]
  BY <1>2 DEF Ranks
<1>7. QED
  BY <1>1, <1>3, <1>4, <1>5, <1>6 DEF Lists

(* Sets of numbers are listed in ascending order.                          *)
LEMMA AscendingFacts ==
  ASSUME NEW S \in SUBSET Nat, IsFiniteSet(S)
  PROVE  /\ Lists(Ascending(S), S) /\ Cardinality(S) \in Nat
         /\ \A m, n \in 1..Cardinality(S) : m < n <=> Ascending(S)[m] < Ascending(S)[n]
<1> DEFINE Nth(n) == CHOOSE j \in S : Cardinality({i \in S : i < j}) = n - 1
           f == Ascending(S)
<1>1. PICK Below : \A i, j \in S : Below[j] = {k \in S : k < j} /\ (i \in Below[j] <=> i < j)
  <2>1. WITNESS [j \in S |-> {k \in S : k < j}]
  <2>2. QED
    OBVIOUS
<1>2. TotalOrder(S, Below)
  <2>1. ASSUME NEW j \in S
        PROVE  Below[j] \subseteq S \ {j}
    BY <1>1
  <2>2. ASSUME NEW i \in S, NEW j \in S, i < j
        PROVE  i \in Below[j] /\ Below[i] \subseteq Below[j]
    <3>1. ASSUME NEW k \in Below[i]
          PROVE  k \in Below[j]
      <4>1. k \in S
        BY <2>1, <3>1
      <4>2. k < i
        BY <1>1, <3>1, <4>1
      <4>3. k < j
        BY <2>2, <4>1, <4>2
      <4>4. QED
        BY <1>1, <4>1, <4>3
    <3>2. QED
      BY <1>1, <2>2, <3>1
  <2>3. \A i, j \in S : i = j \/ i < j \/ j < i
    OBVIOUS
  <2>4. QED
    BY <2>1, <2>2, <2>3 DEF TotalOrder
<1>3. f = [n \in 1..Cardinality(S) |-> Nth(n)]
  BY DEF Ascending, Ordered
<1>4. ASSUME NEW n \in 1..Cardinality(S), NEW k \in S, Cardinality(Below[k]) = n - 1
      PROVE  Nth(n) \in S /\ Cardinality(Below[Nth(n)]) = n - 1
  <2>1. Cardinality({i \in S : i < k}) = n - 1
    BY <1>1, <1>4
  <2>2. Nth(n) \in S /\ Cardinality({i \in S : i < Nth(n)}) = n - 1
    BY <2>1
  <2>3. QED
    BY <1>1, <2>2
<1> HIDE DEF f, Nth
<1>5. Ranks(f, S, Below)
  BY <1>3, <1>4 DEF Ranks
<1>6. /\ Lists(f, S) /\ Cardinality(S) \in Nat
      /\ \A m, n \in 1..Cardinality(S) : f[m] \in Below[f[n]] => m < n
      /\ \A m, n \in 1..Cardinality(S) : m < n => f[m] \in Below[f[n]]
  BY <1>2, <1>5, ListedByRank
<1>7. \A m \in 1..Cardinality(S) : f[m] \in S
  BY <1>6 DEF Lists
<1>8. \A m, n \in 1..Cardinality(S) : m < n <=> f[m] < f[n]
  BY <1>1, <1>6, <1>7
<1>9. QED
  BY <1>6, <1>8 DEF f

-----------------------------------------------------------------------------
(* A function on 1..n is a sequence of length n.                           *)
LEMMA SeqOfFunction ==
  ASSUME NEW T, NEW n \in Nat, NEW f \in [1..n -> T]
  PROVE  f \in Seq(T) /\ Len(f) = n
<1>1. f \in Seq(T)
  BY SeqDef
<1>2. QED
  BY <1>1, LenProperties

(* One more in front.                                                      *)
LEMMA Prepended ==
  ASSUME NEW S, NEW N \in Nat, NEW g \in [1..N -> S], NEW c \in S
  PROVE  /\ <<c>> \o g \in [1..(N + 1) -> S] /\ (<<c>> \o g)[1] = c
         /\ \A n \in 1..N : (<<c>> \o g)[n + 1] = g[n]
         /\ \A n \in 2..(N + 1) : (<<c>> \o g)[n] = g[n - 1] /\ n - 1 \in 1..N
<1> DEFINE f == <<c>> \o g
<1>1. g \in Seq(S) /\ Len(g) = N
  BY SeqOfFunction
<1>2. <<c>> \in Seq(S) /\ Len(<<c>>) = 1 /\ <<c>>[1] = c
  OBVIOUS
<1>3. /\ f \in Seq(S) /\ Len(f) = 1 + N
      /\ \A i \in 1..(1 + N) : f[i] = IF i <= 1 THEN <<c>>[i] ELSE g[i - 1]
  BY <1>1, <1>2, ConcatProperties
<1> HIDE DEF f
<1>4. f \in [1..(1 + N) -> S]
  BY <1>3, LenProperties
<1>5. f[1] = c
  BY <1>2, <1>3
<1>6. \A n \in 2..(N + 1) : f[n] = g[n - 1] /\ n - 1 \in 1..N
  BY <1>3
<1>7. \A n \in 1..N : n + 1 \in 2..(N + 1) /\ (n + 1) - 1 = n
  OBVIOUS
<1>8. \A n \in 1..N : f[n + 1] = g[n]
  BY <1>6, <1>7
<1>9. QED
  BY <1>4, <1>5, <1>6, <1>8 DEF f

(* The least of a set of numbers.                                          *)
LEMMA FirstFacts ==
  ASSUME NEW S \in SUBSET Nat, S # {}
  PROVE  First(S) \in S /\ \A m \in S : First(S) <= m
<1>0. PICK k \in S : TRUE
  OBVIOUS
<1>1. k \in Nat /\ 0 \in Int /\ k \in Int
  OBVIOUS
<1> DEFINE T == S \cap (0..k)
           f == Ascending(T)
<1>2. T \in SUBSET Nat /\ k \in T
  BY <1>1
<1>3. IsFiniteSet(T)
  <2>1. IsFiniteSet(0..k)
    BY <1>1, FS_Interval
  <2>2. T \in SUBSET (0..k)
    OBVIOUS
  <2>3. QED
    BY <2>1, <2>2, FS_Subset
<1>4. /\ Lists(f, T) /\ Cardinality(T) \in Nat
      /\ \A m, n \in 1..Cardinality(T) : m < n <=> f[m] < f[n]
  BY <1>2, <1>3, AscendingFacts
<1> HIDE DEF f
<1>5. PICK n \in 1..Cardinality(T) : f[n] = k
  BY <1>2, <1>4 DEF Lists
<1>6. 1 \in 1..Cardinality(T) /\ f[1] \in T
  <2> HIDE DEF T
  <2>1. 1 \in 1..Cardinality(T)
    BY <1>4, <1>5
  <2>2. QED
    BY <1>4, <2>1 DEF Lists
<1>7. ASSUME NEW m \in S
      PROVE  f[1] <= m
  <2>1. CASE m \in T
    <3>1. PICK l \in 1..Cardinality(T) : f[l] = m
      BY <1>4, <2>1 DEF Lists
    <3>2. l = 1 \/ 1 < l
      BY <1>4
    <3>3. QED
      BY <1>4, <1>6, <2>1, <3>1, <3>2
  <2>2. CASE m \notin T
    BY <1>1, <1>6, <2>2
  <2>3. QED
    BY <2>1, <2>2
<1>8. f[1] \in S
  BY <1>6
<1>9. QED
  BY <1>7, <1>8 DEF First

-----------------------------------------------------------------------------
(* What the constants are: items of positive id, finitely many.            *)
LEMMA ItemFacts ==
  ASSUME NEW s
  PROVE  /\ ItemIds \subseteq Nat \ {0} /\ ItemsOf(s) \subseteq ItemIds
         /\ IsFiniteSet(ItemsOf(s)) /\ Cardinality(ItemsOf(s)) \in Nat
         /\ \A i \in ItemIds : /\ Items[i].target \in Nat /\ Items[i].group \in Nat
                               /\ Items[i].lab \in Nat \ {0} /\ Items[i].exp \in Nat \ {0}
<1>1. /\ ItemIds = 1..Len(Items) /\ Len(Items) \in Nat /\ Len(Items) \in Int
      /\ \A i \in ItemIds : Items[i] \in [sample : Nat, lab : Nat \ {0}, exp : Nat \ {0},
                                          group : Nat, target : Nat]
  <2>1. PICK T : T = [sample : Nat, lab : Nat \ {0}, exp : Nat \ {0}, group : Nat, target : Nat]
    OBVIOUS
  <2>2. Items \in Seq(T)
    BY <2>1, ItemsAssumption
  <2>3. Len(Items) \in Nat /\ Items \in [1..Len(Items) -> T] /\ DOMAIN Items = 1..Len(Items)
    BY <2>2, LenProperties
  <2>4. QED
    BY <2>1, <2>3 DEF ItemIds
<1>2. IsFiniteSet(1..Len(Items))
  BY <1>1, FS_Interval
<1>3. ItemsOf(s) \in SUBSET (1..Len(Items))
  BY <1>1 DEF ItemsOf
<1>4. IsFiniteSet(ItemsOf(s))
  BY <1>2, <1>3, FS_Subset
<1>5. QED
  BY <1>1, <1>3, <1>4, FS_CardinalityType

(* Items by their target, then by their id.                                *)
LEMMA ByTargetFacts ==
  ASSUME NEW S \in SUBSET ItemIds, IsFiniteSet(S)
  PROVE  Lists(ByTarget(S), S)
<1> DEFINE Sooner(i, j) == \/ Items[i].target < Items[j].target
                           \/ Items[i].target = Items[j].target /\ i < j
           Nth(n) == CHOOSE j \in S : Cardinality({i \in S : Sooner(i, j)}) = n - 1
           f == ByTarget(S)
<1>0. \A i \in S : i \in Nat /\ Items[i].target \in Nat
  BY ItemFacts
<1>a. /\ \A i, j \in S : i = j \/ Sooner(i, j) \/ Sooner(j, i)
      /\ \A i \in S : ~Sooner(i, i)
      /\ \A i, j, k \in S : Sooner(i, j) /\ Sooner(j, k) => Sooner(i, k)
  BY <1>0
<1>3. f = [n \in 1..Cardinality(S) |-> Nth(n)]
  BY DEF ByTarget, Ordered
<1> HIDE DEF Sooner
<1>1. PICK Below : \A i, j \in S : Below[j] = {k \in S : Sooner(k, j)} /\ (i \in Below[j] <=> Sooner(i, j))
  <2>1. WITNESS [j \in S |-> {k \in S : Sooner(k, j)}]
  <2>2. QED
    OBVIOUS
<1>2. TotalOrder(S, Below)
  <2>1. \A j \in S : Below[j] \subseteq S \ {j}
    BY <1>1, <1>a
  <2>2. ASSUME NEW i \in S, NEW j \in S, Sooner(i, j)
        PROVE  i \in Below[j] /\ Below[i] \subseteq Below[j]
    BY <1>1, <1>a, <2>1, <2>2
  <2>3. QED
    BY <1>a, <2>1, <2>2 DEF TotalOrder
<1>4. ASSUME NEW n \in 1..Cardinality(S), NEW k \in S, Cardinality(Below[k]) = n - 1
      PROVE  Nth(n) \in S /\ Cardinality(Below[Nth(n)]) = n - 1
  <2>1. Cardinality({i \in S : Sooner(i, k)}) = n - 1
    BY <1>1, <1>4
  <2>2. Nth(n) \in S /\ Cardinality({i \in S : Sooner(i, Nth(n))}) = n - 1
    BY <2>1
  <2>3. QED
    BY <1>1, <2>2
<1> HIDE DEF f, Nth
<1>5. Ranks(f, S, Below)
  BY <1>3, <1>4 DEF Ranks
<1>6. Lists(f, S)
  BY <1>2, <1>5, ListedByRank
<1>7. QED
  BY <1>6 DEF f

(* Every item of the sample, once, the claimed one first.                  *)
LEMMA DeliveryFacts ==
  ASSUME NEW s, NEW claimed
  PROVE  /\ Lists(DeliveryOrder(s, claimed), ItemsOf(s))
         /\ ItemsOf(s) \cap claimed # {} =>
              /\ DeliveryOrder(s, claimed)[1] = First(ItemsOf(s) \cap claimed)
              /\ First(ItemsOf(s) \cap claimed) \in ItemsOf(s) \cap claimed
<1> DEFINE S == ItemsOf(s)
           chosen == First(S \cap claimed)
           rest == Ascending(S \ {chosen})
<1>1. S \in SUBSET Nat /\ 0 \notin S /\ IsFiniteSet(S) /\ Cardinality(S) \in Nat /\ S \in SUBSET ItemIds
  BY ItemFacts
<1> HIDE DEF S
<1>2. CASE S \cap claimed = {}
  <2>1. DeliveryOrder(s, claimed) = ByTarget(S)
    BY <1>2 DEF DeliveryOrder, First, S
  <2>2. Lists(ByTarget(S), S)
    BY <1>1, ByTargetFacts
  <2>3. QED
    BY <1>2, <2>1, <2>2 DEF S
<1>3. CASE S \cap claimed # {}
  <2>1. chosen \in S \cap claimed
    BY <1>1, <1>3, FirstFacts
  <2> HIDE DEF chosen
  <2>2. DeliveryOrder(s, claimed) = <<chosen>> \o rest
    BY <1>1, <2>1 DEF DeliveryOrder, chosen, S
  <2>3. PICK N \in Nat : Cardinality(S) = N + 1 /\ Cardinality(S \ {chosen}) = N /\ IsFiniteSet(S \ {chosen})
    <3>1. IsFiniteSet(S \ {chosen}) /\ Cardinality(S \ {chosen}) = Cardinality(S) - 1
      BY <1>1, <2>1, FS_RemoveElement
    <3>2. Cardinality(S \ {chosen}) \in Nat
      BY <3>1, FS_CardinalityType
    <3>3. QED
      BY <1>1, <3>1, <3>2
  <2>4. Lists(rest, S \ {chosen})
    BY <1>1, <2>3, AscendingFacts
  <2>5. rest \in [1..N -> S \ {chosen}]
    BY <2>3, <2>4 DEF Lists
  <2>6. rest \in [1..N -> S]
    BY <2>5
  <2> HIDE DEF rest
  <2>7. PICK f : f = DeliveryOrder(s, claimed)
    OBVIOUS
  <2>8. /\ f \in [1..(N + 1) -> S]
        /\ f[1] = chosen
        /\ \A n \in 1..N : f[n + 1] = rest[n]
        /\ \A n \in 2..(N + 1) : f[n] = rest[n - 1] /\ n - 1 \in 1..N
    <3>1. chosen \in S /\ f = <<chosen>> \o rest
      BY <2>1, <2>2, <2>7
    <3>2. PICK c \in S, g \in [1..N -> S] : c = chosen /\ g = rest
      BY <2>6, <3>1
    <3>3. f = <<c>> \o g
      BY <3>1, <3>2
    <3>4. /\ f \in [1..(N + 1) -> S] /\ f[1] = c
          /\ \A n \in 1..N : f[n + 1] = g[n]
          /\ \A n \in 2..(N + 1) : f[n] = g[n - 1] /\ n - 1 \in 1..N
      BY <3>3, Prepended
    <3>5. QED
      BY <3>2, <3>4
  <2>9. \A j \in S : \E n \in 1..(N + 1) : f[n] = j
    <3>1. ASSUME NEW j \in S, j # chosen
          PROVE  \E n \in 1..(N + 1) : f[n] = j
      <4>1. PICK m \in 1..N : rest[m] = j
        BY <2>3, <2>4, <3>1 DEF Lists
      <4>2. QED
        BY <2>8, <4>1
    <3>2. QED
      BY <2>8, <3>1
  <2>10. ASSUME NEW m \in 1..(N + 1), NEW n \in 1..(N + 1), f[m] = f[n]
         PROVE  m = n
    <3>1. \A k \in 1..N : rest[k] # chosen
      BY <2>5
    <3>2. \A k, l \in 1..N : rest[k] = rest[l] => k = l
      BY <2>3, <2>4 DEF Lists
    <3>3. QED
      BY <2>8, <2>10, <3>1, <3>2
  <2>11. Lists(f, S)
    BY <2>3, <2>8, <2>9, <2>10 DEF Lists
  <2>12. QED
    BY <2>1, <2>7, <2>8, <2>11 DEF S, chosen
<1>4. QED
  BY <1>2, <1>3

-----------------------------------------------------------------------------
(* d has the parts that q has, each once, and starts as q does.            *)
SameParts(d, q, N, T) ==
  \E M \in 0..N :
    /\ d \in [1..M -> T]
    /\ \A k \in 1..N : \E m \in 1..M : d[m] = q[k]
    /\ \A a, b \in 1..M : d[a] = d[b] => a = b
    /\ N # 0 => M # 0 /\ d[1] = q[1]

(* The parts without repetitions are the same parts, the first one first.  *)
LEMMA DistinctFacts ==
  ASSUME NEW T, NEW N \in Nat, NEW q \in [1..N -> T]
  PROVE  SameParts(Distinct(q), q, N, T)
<1> DEFINE F == {k \in 1..N : \A j \in 1..(k - 1) : q[j] # q[k]}
           f == Ascending(F)
           d == Distinct(q)
<1>1. IsFiniteSet(F) /\ F \in SUBSET Nat /\ Cardinality(F) \in 0..N /\ F \subseteq 1..N
  <2>1. N \in Int /\ 1 \in Int
    OBVIOUS
  <2>2. IsFiniteSet(1..N) /\ Cardinality(1..N) = IF 1 > N THEN 0 ELSE N - 1 + 1
    BY <2>1, FS_Interval
  <2>3. Cardinality(1..N) = N
    BY <2>2
  <2>4. F \in SUBSET (1..N)
    OBVIOUS
  <2>5. IsFiniteSet(F) /\ Cardinality(F) <= Cardinality(1..N)
    BY <2>2, <2>4, FS_Subset
  <2>6. QED
    BY <2>3, <2>4, <2>5, FS_CardinalityType
<1>2. PICK M \in 0..N : M = Cardinality(F)
  BY <1>1
<1>3. /\ f \in [1..M -> F]
      /\ \A j \in F : \E n \in 1..M : f[n] = j
      /\ \A m, n \in 1..M : m < n <=> f[m] < f[n]
  BY <1>1, <1>2, AscendingFacts DEF Lists
<1>4. d = [n \in 1..M |-> q[f[n]]]
  <2>1. DOMAIN q = 1..N /\ DOMAIN f = 1..M
    BY <1>3
  <2>2. d = [n \in DOMAIN f |-> q[f[n]]]
    BY <2>1 DEF Distinct
  <2>3. QED
    BY <2>1, <2>2
<1>5. ASSUME NEW k \in 1..N
      PROVE  \E j \in F : q[j] = q[k]
  <2> DEFINE E == {j \in 1..N : q[j] = q[k]}
  <2>1. PICK j : j = First(E)
    OBVIOUS
  <2>2. E \in SUBSET Nat /\ k \in E
    OBVIOUS
  <2>3. j \in E /\ \A m \in E : j <= m
    BY <2>1, <2>2, FirstFacts
  <2>4. j \in F
    BY <2>3
  <2>5. QED
    BY <2>3, <2>4
<1>6. ASSUME N # 0
      PROVE  M # 0 /\ f[1] = 1
  <2>1. 1 \in F
    BY <1>6
  <2>2. PICK n \in 1..M : f[n] = 1
    BY <1>3, <2>1
  <2>3. 1 \in 1..M /\ f[1] \in 1..N
    BY <1>1, <1>3, <2>2
  <2>4. ~(1 < n)
    BY <1>3, <2>2, <2>3
  <2>5. QED
    BY <2>2, <2>4
<1>r. ASSUME NEW a \in 1..M, NEW b \in 1..M, d[a] = d[b]
      PROVE  a = b
  <2>1. f[a] \in F /\ f[b] \in F /\ q[f[a]] = q[f[b]]
    BY <1>3, <1>4, <1>r
  <2>2. ASSUME NEW i \in F, NEW j \in F, q[i] = q[j]
        PROVE  ~(i < j)
    BY <2>2
  <2> HIDE DEF F, f, d
  <2>3. ~(f[a] < f[b]) /\ ~(f[b] < f[a])
    BY <2>1, <2>2
  <2>4. ~(a < b) /\ ~(b < a)
    BY <1>3, <2>3
  <2>5. QED
    BY <2>4
<1> HIDE DEF F, f, d
<1>7. d \in [1..M -> T]
  BY <1>1, <1>3, <1>4
<1>8. \A k \in 1..N : \E m \in 1..M : d[m] = q[k]
  <2>1. ASSUME NEW k \in 1..N
        PROVE  \E m \in 1..M : d[m] = q[k]
    <3>1. PICK j \in F : q[j] = q[k]
      BY <1>5
    <3>2. PICK m \in 1..M : f[m] = j
      BY <1>3, <3>1
    <3>3. QED
      BY <1>4, <3>1, <3>2
  <2>2. QED
    BY <2>1
<1>9. N # 0 => M # 0 /\ d[1] = q[1]
  BY <1>4, <1>6
<1>10. QED
  BY <1>7, <1>8, <1>9, <1>r DEF d, SameParts

(* What fits is kept; the first part is kept wherever anything fits.       *)
LEMMA TruncatedFacts ==
  ASSUME NEW T, NEW N \in Nat, NEW q \in [1..N -> T]
  PROVE  /\ N <= Room => Truncated(q) = q
         /\ N # 0 /\ Room # 0 => Truncated(q)[1] = q[1]
<1>1. q \in Seq(T) /\ Len(q) = N
  BY SeqOfFunction
<1>2. N <= Room => Truncated(q) = q
  BY <1>1 DEF Truncated
<1>3. ASSUME N # 0, Room # 0, ~(N <= Room)
      PROVE  Truncated(q)[1] = q[1]
  <2> DEFINE rest == IF Ragged THEN <<[q[Room + 1] EXCEPT !.exp = CutExp]>> ELSE <<>>
  <2>0. Room \in Nat
    BY RoomAssumption
  <2>1. SubSeq(q, 1, Room) \in Seq(T) /\ Len(SubSeq(q, 1, Room)) = Room /\ SubSeq(q, 1, Room)[1] = q[1]
    <3>1. 1 \in 1..(N + 1) /\ Room \in 0..N /\ 1 \in 1..Room
      BY <1>3, <2>0
    <3>2. SubSeq(q, 1, Room) = [i \in 1..Room |-> q[i]]
      BY <1>1, <2>0
    <3>a. \A i \in 1..Room : i \in 1..N
      BY <1>3, <2>0
    <3>3. SubSeq(q, 1, Room) \in [1..Room -> T]
      BY <3>2, <3>a
    <3>4. QED
      BY <2>0, <3>1, <3>2, <3>3, SeqOfFunction
  <2>2. PICK U : U = T \cup {[q[Room + 1] EXCEPT !.exp = CutExp]}
    OBVIOUS
  <2>3. SubSeq(q, 1, Room) \in Seq(U) /\ rest \in Seq(U)
    <3>1. PICK a \in Seq(T) : a = SubSeq(q, 1, Room)
      BY <2>1
    <3>2. a \in [1..Len(a) -> T] /\ Len(a) \in Nat
      BY LenProperties
    <3>3. a \in [1..Len(a) -> U]
      BY <2>2, <3>2
    <3>4. a \in Seq(U)
      BY <3>2, <3>3, SeqOfFunction
    <3>5. rest \in Seq(U)
      <4>1. CASE Ragged
        <5>1. PICK e : e = [q[Room + 1] EXCEPT !.exp = CutExp] /\ e \in U
          BY <2>2
        <5>2. rest = <<e>>
          BY <4>1, <5>1
        <5>3. QED
          BY <5>1, <5>2
      <4>2. CASE ~Ragged
        BY <4>2
      <4>3. QED
        BY <4>1, <4>2
    <3>6. QED
      BY <3>1, <3>4, <3>5
  <2>4. Truncated(q) = SubSeq(q, 1, Room) \o rest
    BY <1>1, <1>3 DEF Truncated
  <2> HIDE DEF rest
  <2>5. (SubSeq(q, 1, Room) \o rest)[1] = SubSeq(q, 1, Room)[1]
    <3>1. PICK a \in Seq(U), b \in Seq(U) : a = SubSeq(q, 1, Room) /\ b = rest /\ Len(a) = Room
      BY <2>1, <2>3
    <3>2. 1 \in 1..(Len(a) + Len(b)) /\ 1 <= Len(a)
      BY <1>3, <2>0, <3>1, LenProperties
    <3>3. (a \o b)[1] = a[1]
      BY <3>2, ConcatProperties
    <3>4. QED
      BY <3>1, <3>3
  <2>6. QED
    BY <2>1, <2>4, <2>5
<1>4. QED
  BY <1>2, <1>3

(* A list of parts, of which the last may be the rest of one.              *)
Cut(r, T) ==
  \E L \in Nat : /\ r = [l \in 1..L |-> r[l]]
                 /\ \A l \in 1..L : r[l] \in T \cup {[e EXCEPT !.exp = CutExp] : e \in T}

(* What is truncated is a list still.                                      *)
LEMMA TruncatedIsCut ==
  ASSUME NEW T, NEW N \in Nat, NEW q \in [1..N -> T]
  PROVE  Cut(Truncated(q), T)
<1>1. q \in Seq(T) /\ Len(q) = N
  BY SeqOfFunction
<1>2. PICK U : U = T \cup {[e EXCEPT !.exp = CutExp] : e \in T}
  OBVIOUS
<1>3. CASE N <= Room
  <2>1. Truncated(q) = q /\ q = [l \in 1..N |-> q[l]] /\ \A l \in 1..N : q[l] \in U
    BY <1>1, <1>2, <1>3 DEF Truncated
  <2>2. QED
    BY <1>2, <2>1 DEF Cut
<1>4. CASE ~(N <= Room)
  <2>0. Room \in Nat /\ Room + 1 \in 1..N
    BY <1>4, RoomAssumption
  <2>1. PICK e : e = [q[Room + 1] EXCEPT !.exp = CutExp]
    OBVIOUS
  <2>2. e \in U
    BY <1>2, <2>0, <2>1
  <2>3. PICK a : a = SubSeq(q, 1, Room)
    OBVIOUS
  <2>4. a \in Seq(U)
    <3>1. a = [i \in 1..Room |-> q[i]]
      BY <1>1, <2>0, <2>3
    <3>2. \A i \in 1..Room : i \in 1..N
      BY <2>0
    <3>3. a \in [1..Room -> U]
      BY <1>2, <3>1, <3>2
    <3>4. QED
      BY <2>0, <3>3, SeqOfFunction
  <2>5. PICK b \in Seq(U) : b = IF Ragged THEN <<e>> ELSE <<>>
    <3>1. <<e>> \in Seq(U) /\ <<>> \in Seq(U)
      BY <2>2
    <3>2. CASE Ragged
      BY <3>1, <3>2
    <3>3. CASE ~Ragged
      BY <3>1, <3>3
    <3>4. QED
      BY <3>2, <3>3
  <2>6. Truncated(q) = a \o b
    BY <1>1, <1>4, <2>1, <2>3, <2>5 DEF Truncated
  <2>7. PICK c \in Seq(U) : c = a \o b
    BY <2>4, <2>5, ConcatProperties
  <2>8. Len(c) \in Nat /\ c = [l \in 1..Len(c) |-> c[l]] /\ \A l \in 1..Len(c) : c[l] \in U
    BY <2>7, LenProperties, ElementOfSeq
  <2>9. QED
    BY <1>2, <2>6, <2>7, <2>8 DEF Cut
<1>5. QED
  BY <1>3, <1>4

(* The steps of all these items and no others, each once.                  *)
Names(route, S) ==
  \E M \in Nat : /\ route \in [1..M -> {Step(i) : i \in S}]
                 /\ \A i \in S : \E m \in 1..M : route[m] = Step(i)
                 /\ \A a, b \in 1..M : route[a] = route[b] => a = b

(* The route of a sample has a step for every item, if it fits, and no     *)
(* other step; it starts with the item written first.                      *)
LEMMA RouteFacts ==
  ASSUME NEW s, NEW claimed
  PROVE  /\ Cardinality(ItemsOf(s)) <= Room => Names(RouteOf(s, claimed), ItemsOf(s))
         /\ ItemsOf(s) # {} /\ Room # 0 =>
              RouteOf(s, claimed)[1] = Step(DeliveryOrder(s, claimed)[1])
         /\ Cut(RouteOf(s, claimed), {Step(i) : i \in ItemsOf(s)})
<1> DEFINE S == ItemsOf(s)
           N == Cardinality(S)
           T == {Step(i) : i \in S}
           ids == DeliveryOrder(s, claimed)
           q == [k \in DOMAIN ids |-> Step(ids[k])]
           d == Distinct(q)
<1>1. N \in Nat /\ IsFiniteSet(S)
  BY ItemFacts
<1>a. Lists(ids, S)
  BY DeliveryFacts
<1> HIDE DEF S, ids
<1>2. ids \in [1..N -> S] /\ \A i \in S : \E n \in 1..N : ids[n] = i
  BY <1>a DEF Lists
<1> HIDE DEF N
<1>3. q \in [1..N -> T] /\ \A n \in 1..N : q[n] = Step(ids[n])
  BY <1>2
<1>4. RouteOf(s, claimed) = Truncated(d)
  BY DEF RouteOf, ids
<1> HIDE DEF T, q
<1>5. PICK M \in 0..N :
        /\ d \in [1..M -> T]
        /\ \A k \in 1..N : \E m \in 1..M : d[m] = q[k]
        /\ \A a, b \in 1..M : d[a] = d[b] => a = b
        /\ N # 0 => M # 0 /\ d[1] = q[1]
  <2>1. SameParts(d, q, N, T)
    BY <1>1, <1>3, DistinctFacts
  <2> HIDE DEF d
  <2>2. QED
    BY <2>1 DEF SameParts
<1>6. M \in Nat /\ M <= N
  BY <1>1
<1> HIDE DEF d
<1>7. /\ M <= Room => Truncated(d) = d
      /\ M # 0 /\ Room # 0 => Truncated(d)[1] = d[1]
  <2>1. d \in [1..M -> T]
    BY <1>5
  <2>2. QED
    BY <1>6, <2>1, TruncatedFacts
<1>8. ASSUME N <= Room
      PROVE  Names(RouteOf(s, claimed), S)
  <2>1. RouteOf(s, claimed) = d
    BY <1>1, <1>4, <1>6, <1>7, <1>8, RoomAssumption
  <2>2. \A i \in S : \E m \in 1..M : d[m] = Step(i)
    BY <1>2, <1>3, <1>5
  <2>3. PICK route : route = RouteOf(s, claimed)
    OBVIOUS
  <2>4. /\ route \in [1..M -> {Step(i) : i \in S}]
        /\ \A i \in S : \E m \in 1..M : route[m] = Step(i)
        /\ \A a, b \in 1..M : route[a] = route[b] => a = b
    <3>1. /\ route \in [1..M -> T]
          /\ \A i \in S : \E m \in 1..M : route[m] = Step(i)
          /\ \A a, b \in 1..M : route[a] = route[b] => a = b
      BY <1>5, <2>1, <2>2, <2>3
    <3>2. QED
      BY <3>1 DEF T
  <2>5. QED
    BY <1>6, <2>3, <2>4 DEF Names
<1>9. ASSUME S # {}, Room # 0
      PROVE  RouteOf(s, claimed)[1] = Step(ids[1])
  <2>1. N # 0
    BY <1>1, <1>2, <1>9
  <2>2. d[1] = q[1] /\ Truncated(d)[1] = d[1]
    BY <1>5, <1>7, <1>9, <2>1
  <2>3. q[1] = Step(ids[1])
    BY <1>1, <1>3, <2>1
  <2>4. QED
    BY <1>4, <2>2, <2>3
<1>10. Cut(RouteOf(s, claimed), T)
  BY <1>4, <1>5, <1>6, TruncatedIsCut
<1>11. QED
  BY <1>8, <1>9, <1>10 DEF S, T, N, ids

-----------------------------------------------------------------------------
(* The grouped route.                                                      *)

(* Steps sort by their group's place, then as Before has it, then as they  *)
(* are.                                                                    *)
LEMMA StepOrder ==
  ASSUME NEW route, NEW g, NEW Below, NEW n \in Nat,
         \A k \in 1..n : /\ g[k] \in Nat /\ route[k].target \in Nat
                         /\ route[k].lab \in Nat /\ route[k].exp \in Nat,
         \A j, k \in 1..n : j \in Below[k] <=>
           \/ g[j] < g[k]
           \/ g[j] = g[k] /\ (Before(route[j], route[k]) \/ (~Before(route[k], route[j]) /\ j < k)),
         \A k \in 1..n : Below[k] \subseteq 1..n
  PROVE  TotalOrder(1..n, Below)
<1>1. ASSUME NEW a, NEW b, NEW c, a.target \in Nat, b.target \in Nat, c.target \in Nat,
             a.lab \in Nat, b.lab \in Nat, c.lab \in Nat, a.exp \in Nat, b.exp \in Nat, c.exp \in Nat
      PROVE  /\ Before(a, b) /\ Before(b, c) => Before(a, c)
             /\ Before(a, b) /\ ~Before(c, b) => Before(a, c)
             /\ ~Before(b, a) /\ Before(b, c) => Before(a, c)
             /\ ~Before(b, a) /\ ~Before(c, b) => ~Before(c, a)
             /\ ~Before(a, a) /\ ~(Before(a, b) /\ Before(b, a))
  BY <1>1 DEF Before
<1>2. ASSUME NEW i \in 1..n, NEW j \in 1..n
      PROVE  i = j \/ i \in Below[j] \/ j \in Below[i]
  BY <1>1
<1>3. ASSUME NEW j \in 1..n
      PROVE  Below[j] \subseteq (1..n) \ {j}
  BY <1>1
<1>4. ASSUME NEW i \in 1..n, NEW j \in 1..n, i \in Below[j]
      PROVE  Below[i] \subseteq Below[j]
  <2>1. ASSUME NEW k \in Below[i]
        PROVE  k \in Below[j]
    <3>1. k \in 1..n
      OBVIOUS
    <3>2. g[k] <= g[i] /\ g[i] <= g[j]
      BY <1>4, <2>1, <3>1
    <3>3. CASE g[k] < g[j]
      BY <3>1, <3>3
    <3>4. CASE ~(g[k] < g[j])
      <4>1. g[k] = g[i] /\ g[i] = g[j]
        BY <3>1, <3>2, <3>4
      <4>2. /\ Before(route[k], route[i]) \/ (~Before(route[i], route[k]) /\ k < i)
            /\ Before(route[i], route[j]) \/ (~Before(route[j], route[i]) /\ i < j)
        BY <1>4, <2>1, <3>1, <4>1
      <4>3. Before(route[k], route[j]) \/ (~Before(route[j], route[k]) /\ k < j)
        BY <1>1, <3>1, <4>2
      <4>4. QED
        BY <3>1, <4>1, <4>3
    <3>5. QED
      BY <3>3, <3>4
  <2>2. QED
    BY <2>1
<1>5. IsFiniteSet(1..n)
  BY FS_Interval
<1>6. QED
  BY <1>2, <1>3, <1>4, <1>5 DEF TotalOrder

(* The grouped route has the steps of the route, those of a group by their *)
(* target.                                                                 *)
LEMMA GroupingFacts ==
  ASSUME NEW route, NEW n \in Nat, DOMAIN route = 1..n,
         \A k \in 1..n : /\ route[k].target \in Nat
                         /\ route[k].lab \in Nat /\ route[k].exp \in Nat
  PROVE  /\ DOMAIN GroupedRoute(route) = 1..n
         /\ \A m \in 1..n : \E k \in 1..n : GroupedRoute(route)[m] = route[k]
         /\ \A k \in 1..n : \E m \in 1..n : GroupedRoute(route)[m] = route[k]
         /\ \A a, b \in 1..n :
              /\ GroupedRoute(route)[a].group = GroupedRoute(route)[b].group
              /\ GroupedRoute(route)[a].target < GroupedRoute(route)[b].target
              => a < b
         /\ (\A j, k \in 1..n : route[j] = route[k] => j = k) =>
              \A a, b \in 1..n : GroupedRoute(route)[a] = GroupedRoute(route)[b] => a = b
<1> DEFINE Group(k) == First({j \in DOMAIN route : route[j].group = route[k].group})
           Sooner(j, k) == \/ Group(j) < Group(k)
                           \/ /\ Group(j) = Group(k)
                              /\ \/ Before(route[j], route[k])
                                 \/ ~Before(route[k], route[j]) /\ j < k
           Nth(m) == CHOOSE j \in DOMAIN route :
                       Cardinality({i \in DOMAIN route : Sooner(i, j)}) = m - 1
           f == Grouping(route)
           whole == GroupedRoute(route)
<1>1. Cardinality(1..n) = n
  BY FS_Interval
<1>2. f = [m \in 1..Cardinality(DOMAIN route) |-> Nth(m)]
  BY DEF Grouping, Ordered
<1>3. whole = [m \in DOMAIN f |-> route[f[m]]]
  BY DEF GroupedRoute
<1>4. ASSUME NEW k \in 1..n
      PROVE  Group(k) \in Nat
  <2> DEFINE S == {j \in DOMAIN route : route[j].group = route[k].group}
  <2>1. S \subseteq 1..n /\ k \in S
    BY <1>4
  <2> HIDE DEF S
  <2>2. First(S) \in Nat
    <3>1. S \in SUBSET Nat /\ S # {}
      BY <2>1
    <3>2. QED
      BY <3>1, FirstFacts
  <2>3. QED
    BY <2>2 DEF S
<1>5. ASSUME NEW j \in 1..n, NEW k \in 1..n, route[j].group = route[k].group
      PROVE  Group(j) = Group(k)
  BY <1>5
<1> HIDE DEF f, whole, Group
<1>6. PICK g : \A k \in 1..n : g[k] = Group(k)
  <2>1. WITNESS [k \in 1..n |-> Group(k)]
  <2>2. QED
    OBVIOUS
<1>7. PICK Below : \A k \in 1..n : Below[k] = {i \in 1..n : Sooner(i, k)}
  <2>1. WITNESS [k \in 1..n |-> {i \in 1..n : Sooner(i, k)}]
  <2>2. QED
    OBVIOUS
<1>8. \A j, k \in 1..n : j \in Below[k] <=>
        \/ g[j] < g[k]
        \/ g[j] = g[k] /\ (Before(route[j], route[k]) \/ (~Before(route[k], route[j]) /\ j < k))
  BY <1>6, <1>7
<1>9. TotalOrder(1..n, Below)
  <2>1. \A k \in 1..n : g[k] \in Nat /\ Below[k] \subseteq 1..n
    BY <1>4, <1>6, <1>7
  <2>2. QED
    BY <1>8, <2>1, StepOrder
<1>10. ASSUME NEW m \in 1..n, NEW k \in 1..n, Cardinality(Below[k]) = m - 1
       PROVE  Nth(m) \in 1..n /\ Cardinality(Below[Nth(m)]) = m - 1
  <2>1. Cardinality({i \in DOMAIN route : Sooner(i, k)}) = m - 1
    BY <1>7, <1>10
  <2>2. Nth(m) \in 1..n /\ Cardinality({i \in DOMAIN route : Sooner(i, Nth(m))}) = m - 1
    BY <2>1
  <2> HIDE DEF Nth, Sooner
  <2>3. QED
    BY <1>7, <2>2
<1> HIDE DEF Nth, Sooner
<1>11. Ranks(f, 1..n, Below)
  BY <1>1, <1>2, <1>10 DEF Ranks
<1>12. /\ Lists(f, 1..n)
       /\ \A a, b \in 1..n : f[a] \in Below[f[b]] => a < b
  BY <1>1, <1>9, <1>11, ListedByRank
<1>13. DOMAIN f = 1..n /\ (\A m \in 1..n : f[m] \in 1..n) /\ \A k \in 1..n : \E m \in 1..n : f[m] = k
  BY <1>1, <1>12 DEF Lists
<1>14. DOMAIN whole = 1..n /\ \A m \in 1..n : whole[m] = route[f[m]]
  BY <1>3, <1>13
<1>15. ASSUME NEW a \in 1..n, NEW b \in 1..n, whole[a].group = whole[b].group,
              whole[a].target < whole[b].target
       PROVE  a < b
  <2>1. PICK j \in 1..n, k \in 1..n : j = f[a] /\ k = f[b]
    BY <1>13
  <2>2. route[j].group = route[k].group /\ route[j].target < route[k].target
    BY <1>14, <1>15, <2>1
  <2>3. g[j] = g[k] /\ Before(route[j], route[k])
    BY <1>5, <1>6, <2>2 DEF Before
  <2>4. j \in Below[k]
    BY <1>8, <2>3
  <2>5. QED
    BY <1>12, <2>1, <2>4
<1>16. /\ \A m \in 1..n : \E k \in 1..n : whole[m] = route[k]
       /\ \A k \in 1..n : \E m \in 1..n : whole[m] = route[k]
  <2>1. ASSUME NEW k \in 1..n
        PROVE  \E m \in 1..n : whole[m] = route[k]
    BY <1>13, <1>14
  <2>2. QED
    BY <1>13, <1>14, <2>1
<1>17. ASSUME \A j, k \in 1..n : route[j] = route[k] => j = k
       PROVE  \A a, b \in 1..n : whole[a] = whole[b] => a = b
  <2>1. \A a, b \in 1..n : f[a] = f[b] => a = b
    BY <1>1, <1>12 DEF Lists
  <2>2. QED
    BY <1>13, <1>14, <1>17, <2>1
<1>18. QED
  BY <1>14, <1>15, <1>16, <1>17 DEF whole

(* The experiments of the items are different.                             *)
OnceEach(S) ==
  \A i, j \in S : Items[i].lab = Items[j].lab /\ Items[i].exp = Items[j].exp => i = j

(* What may be created of an item's experiment, or of the one after it in  *)
(* another laboratory: then the item is done.                              *)
LEMMA CreatableInOrder ==
  ASSUME NEW S \in SUBSET ItemIds, OnceEach(S), NEW route, Names(route, S),
         NEW table, NEW mine \in SUBSET Nat, NEW k \in CreatableByGroup(route, table, mine),
         NEW i \in S, NEW j \in S, Items[i].group = Items[j].group,
         Items[i].target < Items[j].target, Items[i].lab # Items[j].lab,
         SameExperiment(Items[j], GroupedRoute(route)[k])
  PROVE  ItemDone(i, table, mine)
<1> DEFINE whole == GroupedRoute(route)
           slots == Slots(whole, table, mine)
           In(a) == {b \in DOMAIN whole : whole[b].group = whole[a].group}
<1>1. PICK n \in Nat : /\ route \in [1..n -> {Step(a) : a \in S}]
                       /\ \A a \in S : \E m \in 1..n : route[m] = Step(a)
  BY DEF Names
<1>2. \A m \in 1..n : \E a \in S : route[m] = Step(a)
  BY <1>1
<1>3. \A a \in S : /\ Step(a).target = Items[a].target /\ Step(a).group = Items[a].group
                   /\ Step(a).lab = Items[a].lab /\ Step(a).exp = Items[a].exp
  BY DEF Step
<1>4. DOMAIN route = 1..n /\ \A m \in 1..n : /\ route[m].target \in Nat
                                             /\ route[m].lab \in Nat /\ route[m].exp \in Nat
  <2>1. ASSUME NEW m \in 1..n
        PROVE  route[m].target \in Nat /\ route[m].lab \in Nat /\ route[m].exp \in Nat
    <3>1. PICK a \in S : route[m] = Step(a)
      BY <1>2
    <3>2. Items[a].target \in Nat /\ Items[a].lab \in Nat /\ Items[a].exp \in Nat
      BY ItemFacts
    <3>3. QED
      BY <1>3, <3>1, <3>2
  <2>2. DOMAIN route = 1..n
    BY <1>1
  <2>3. QED
    BY <2>1, <2>2
<1>5. /\ DOMAIN whole = 1..n
      /\ \A m \in 1..n : \E a \in 1..n : whole[m] = route[a]
      /\ \A a \in 1..n : \E m \in 1..n : whole[m] = route[a]
      /\ \A a, b \in 1..n : whole[a].group = whole[b].group /\ whole[a].target < whole[b].target
                              => a < b
  BY <1>4, GroupingFacts
<1>6. PICK q \in DOMAIN whole : k \in Creatable(whole, slots, table, In(q))
  BY DEF CreatableByGroup
<1>7. PICK places : places = In(q)
  OBVIOUS
<1>8. slots = [a \in DOMAIN whole |->
                 LET them    == {w \in mine : SameExperiment(whole[a], table[w])}
                     earlier == {b \in 1..(a - 1) : SameExperiment(whole[b], whole[a])}
                 IN First({w \in them : Cardinality({v \in them : v < w}) = Cardinality(earlier)})]
  BY DEF Slots
<1> HIDE DEF slots, whole
<1>9. PICK open : /\ open = First({a \in places : ~Completed(slots, table, a)}) /\ open # 0
                  /\ k \in places /\ k >= open /\ \A a \in open..k : whole[a].lab = whole[open].lab
  BY <1>6, <1>7 DEF Creatable, Segment
<1>10. k \in 1..n /\ places \subseteq 1..n /\ whole[k].group = whole[q].group
  BY <1>5, <1>7, <1>9
<1>11. whole[k] = Step(j)
  <2>1. PICK a \in S : whole[k] = Step(a)
    <3>1. PICK m \in 1..n : whole[k] = route[m]
      BY <1>5, <1>10
    <3>2. QED
      BY <1>2, <3>1
  <2>2. Items[a].lab = Items[j].lab /\ Items[a].exp = Items[j].exp
    <3>1. SameExperiment(Items[j], whole[k])
      BY DEF whole
    <3>2. QED
      BY <1>3, <2>1, <3>1 DEF SameExperiment
  <2>3. QED
    BY <2>1, <2>2 DEF OnceEach
<1>12. PICK m \in 1..n : whole[m] = Step(i)
  BY <1>1, <1>5
<1>13. m \in places /\ m < k /\ whole[m].lab # whole[k].lab
  <2>1. /\ whole[m].target = Items[i].target /\ whole[k].target = Items[j].target
        /\ whole[m].group = Items[i].group /\ whole[k].group = Items[j].group
        /\ whole[m].lab = Items[i].lab /\ whole[k].lab = Items[j].lab
    BY <1>3, <1>11, <1>12
  <2>2. m < k
    BY <1>5, <1>10, <2>1
  <2>3. m \in places
    BY <1>5, <1>7, <1>10, <2>1
  <2>4. QED
    BY <2>1, <2>2, <2>3
<1>14. Completed(slots, table, m)
  <2>1. SUFFICES ASSUME ~Completed(slots, table, m)
                 PROVE  FALSE
    OBVIOUS
  <2>2. PICK T : T = {a \in places : ~Completed(slots, table, a)}
    OBVIOUS
  <2>3. T \in SUBSET Nat /\ m \in T /\ open = First(T)
    <3>1. T \subseteq 1..n /\ m \in T
      BY <1>10, <1>13, <2>1, <2>2
    <3>2. open = First(T)
      BY <1>9, <2>2
    <3>3. QED
      BY <3>1, <3>2
  <2>4. open \in T /\ open <= m
    BY <2>3, FirstFacts
  <2>5. open \in Nat /\ m \in open..k /\ k \in open..k
    BY <1>9, <1>10, <1>13, <2>3, <2>4
  <2>6. QED
    BY <1>9, <1>13, <2>5
<1>15. PICK them, T : /\ them = {w \in mine : SameExperiment(whole[m], table[w])}
                      /\ T \subseteq them /\ slots[m] = First(T)
  <2>1. PICK them : them = {w \in mine : SameExperiment(whole[m], table[w])}
    OBVIOUS
  <2>2. PICK T : T = {w \in them : Cardinality({v \in them : v < w})
                         = Cardinality({b \in 1..(m - 1) : SameExperiment(whole[b], whole[m])})}
    OBVIOUS
  <2>3. slots[m] = First(T)
    BY <1>5, <1>8, <2>1, <2>2
  <2>4. QED
    BY <2>1, <2>2, <2>3
<1>16. PICK w \in mine : SameExperiment(whole[m], table[w]) /\ table[w].status = "completed"
  <2>1. slots[m] # 0 /\ table[slots[m]].status = "completed"
    BY <1>14 DEF Completed
  <2>2. T # {} /\ T \in SUBSET Nat
    BY <1>15, <2>1 DEF First
  <2>3. First(T) \in T
    BY <2>2, FirstFacts
  <2>4. QED
    BY <1>15, <2>1, <2>3
<1>17. SameExperiment(Items[i], table[w])
  BY <1>3, <1>12, <1>16 DEF SameExperiment
<1>18. QED
  BY <1>16, <1>17 DEF ItemDone

-----------------------------------------------------------------------------
(* The item that dependency/next chooses and the step that the page offers. *)

(* Item j is due before item i of its dependency group.                    *)
DueBefore(j, i) ==
  /\ Items[j].group = Items[i].group
  /\ \/ Items[j].target < Items[i].target
     \/ Items[j].target = Items[i].target /\ j < i

(* The items of a group have targets of their own.                         *)
TargetsOnce(S) ==
  \A i, j \in S : Items[i].group = Items[j].group /\ Items[i].target = Items[j].target => i = j

(* An open item whose predecessors are done is creatable, if no WIP is     *)
(* open: the next item of dependency/next is the next of the route.  It is *)
(* the first of its group and the only one of its experiment.              *)
LEMMA NextIsCreatable ==
  ASSUME NEW S \in SUBSET ItemIds, OnceEach(S), TargetsOnce(S), NEW route, Names(route, S),
         NEW table, NEW mine \in SUBSET (Nat \ {0}),
         \A w \in mine : table[w].status = "completed",
         NEW i \in S, ~ItemDone(i, table, mine),
         \A j \in S : DueBefore(j, i) => ItemDone(j, table, mine)
  PROVE  \E k \in CreatableByGroup(route, table, mine) :
           /\ GroupedRoute(route)[k].lab = Items[i].lab
           /\ GroupedRoute(route)[k] = Step(i)
           /\ \A j \in CreatableByGroup(route, table, mine) :
                /\ GroupedRoute(route)[j].group = Items[i].group => k <= j
                /\ SameExperiment(GroupedRoute(route)[j], Items[i]) => j = k
<1> DEFINE whole == GroupedRoute(route)
           slots == Slots(whole, table, mine)
           In(a) == {b \in DOMAIN whole : whole[b].group = whole[a].group}
<1>1. PICK n \in Nat : /\ route \in [1..n -> {Step(a) : a \in S}]
                       /\ \A a \in S : \E m \in 1..n : route[m] = Step(a)
                       /\ \A a, b \in 1..n : route[a] = route[b] => a = b
  BY DEF Names
<1>2. \A m \in 1..n : \E a \in S : route[m] = Step(a)
  BY <1>1
<1>3. \A a \in S : /\ Step(a).target = Items[a].target /\ Step(a).group = Items[a].group
                   /\ Step(a).lab = Items[a].lab /\ Step(a).exp = Items[a].exp
                   /\ Items[a].target \in Nat /\ Items[a].lab \in Nat /\ Items[a].exp \in Nat
  BY ItemFacts DEF Step
<1>4. DOMAIN route = 1..n /\ \A m \in 1..n : /\ route[m].target \in Nat
                                             /\ route[m].lab \in Nat /\ route[m].exp \in Nat
  <2>1. ASSUME NEW m \in 1..n
        PROVE  route[m].target \in Nat /\ route[m].lab \in Nat /\ route[m].exp \in Nat
    BY <1>2, <1>3
  <2>2. DOMAIN route = 1..n
    BY <1>1
  <2>3. QED
    BY <2>1, <2>2
<1>5. /\ DOMAIN whole = 1..n
      /\ \A m \in 1..n : \E a \in 1..n : whole[m] = route[a]
      /\ \A a \in 1..n : \E m \in 1..n : whole[m] = route[a]
      /\ \A a, b \in 1..n : whole[a].group = whole[b].group /\ whole[a].target < whole[b].target
                              => a < b
      /\ \A a, b \in 1..n : whole[a] = whole[b] => a = b
  BY <1>1, <1>4, GroupingFacts
<1>6. slots = [a \in DOMAIN whole |->
                 LET them    == {w \in mine : SameExperiment(whole[a], table[w])}
                     earlier == {b \in 1..(a - 1) : SameExperiment(whole[b], whole[a])}
                 IN First({w \in them : Cardinality({v \in them : v < w}) = Cardinality(earlier)})]
  BY DEF Slots
<1> HIDE DEF slots, whole
<1>7. PICK k \in 1..n : whole[k] = Step(i)
  <2>1. PICK a \in 1..n : route[a] = Step(i)
    BY <1>1
  <2>2. PICK k \in 1..n : whole[k] = route[a]
    BY <1>5
  <2>3. QED
    BY <2>1, <2>2
<1>8. \A m \in 1..n : \E a \in S : whole[m] = Step(a)
  <2>1. ASSUME NEW m \in 1..n
        PROVE  \E a \in S : whole[m] = Step(a)
    <3>1. PICK b \in 1..n : whole[m] = route[b]
      BY <1>5
    <3>2. QED
      BY <1>2, <3>1
  <2>2. QED
    BY <2>1
<1>9. ASSUME NEW m \in 1..n
      PROVE  slots[m] = First({w \in {w \in mine : SameExperiment(whole[m], table[w])} :
                                 Cardinality({v \in {x \in mine : SameExperiment(whole[m], table[x])} : v < w}) = 0})
  <2>1. PICK earlier : earlier = {b \in 1..(m - 1) : SameExperiment(whole[b], whole[m])}
    OBVIOUS
  <2>2. earlier = {}
    <3>1. ASSUME NEW b \in 1..(m - 1), SameExperiment(whole[b], whole[m])
          PROVE  FALSE
      <4>1. b \in 1..n /\ b # m
        BY <3>1
      <4>2. PICK a \in S, c \in S : whole[b] = Step(a) /\ whole[m] = Step(c)
        BY <1>8, <4>1
      <4>3. a = c
        BY <1>3, <3>1, <4>2 DEF SameExperiment, OnceEach
      <4>4. QED
        BY <1>5, <4>1, <4>2, <4>3
    <3>2. QED
      BY <2>1, <3>1
  <2>3. Cardinality(earlier) = 0
    BY <2>2, FS_EmptySet
  <2>4. PICK them : them = {w \in mine : SameExperiment(whole[m], table[w])}
    OBVIOUS
  <2>5. slots[m] = First({w \in them : Cardinality({v \in them : v < w}) = Cardinality(earlier)})
    BY <1>5, <1>6, <2>1, <2>4
  <2>6. QED
    BY <2>3, <2>4, <2>5
<1>10. ASSUME NEW m \in 1..n, NEW a \in S, whole[m] = Step(a), ItemDone(a, table, mine)
       PROVE  Completed(slots, table, m)
  <2>1. PICK them : them = {w \in mine : SameExperiment(whole[m], table[w])}
    OBVIOUS
  <2>2. PICK T : T = {w \in them : Cardinality({v \in them : v < w}) = 0}
    OBVIOUS
  <2>3. them # {} /\ them \in SUBSET Nat
    BY <1>3, <1>10, <2>1 DEF ItemDone, SameExperiment
  <2>4. PICK w : w = First(them)
    OBVIOUS
  <2>5. w \in them /\ \A v \in them : w <= v
    BY <2>3, <2>4, FirstFacts
  <2>6. {v \in them : v < w} = {}
    <3>1. ASSUME NEW v \in them, v < w
          PROVE  FALSE
      <4>1. v \in Nat /\ w \in Nat /\ w <= v
        BY <2>3, <2>5
      <4>2. QED
        BY <3>1, <4>1
    <3>2. QED
      BY <3>1
  <2>7. w \in T
    BY <2>2, <2>5, <2>6, FS_EmptySet
  <2>8. T \in SUBSET Nat /\ T # {}
    BY <2>2, <2>3, <2>7
  <2>9. First(T) \in T
    BY <2>8, FirstFacts
  <2>10. slots[m] = First(T)
    BY <1>9, <2>1, <2>2
  <2>11. slots[m] \in mine
    BY <2>1, <2>2, <2>9, <2>10
  <2>12. QED
    BY <2>11 DEF Completed
<1>11. slots[k] = 0
  <2>1. PICK them : them = {w \in mine : SameExperiment(whole[k], table[w])}
    OBVIOUS
  <2>2. them = {}
    <3>1. ASSUME NEW w \in mine, SameExperiment(whole[k], table[w])
          PROVE  FALSE
      BY <1>3, <1>7, <3>1 DEF ItemDone, SameExperiment
    <3>2. QED
      BY <2>1, <3>1
  <2>3. {w \in them : Cardinality({v \in them : v < w}) = 0} = {}
    BY <2>2
  <2>4. QED
    BY <1>9, <2>1, <2>3 DEF First
<1>12. PICK places : places = In(k)
  OBVIOUS
<1>13. places \subseteq 1..n /\ k \in places
  BY <1>5, <1>12
<1>14. ASSUME NEW m \in places, m < k
       PROVE  Completed(slots, table, m)
  <2>1. PICK a \in S : whole[m] = Step(a)
    BY <1>8, <1>13
  <2>2. a # i
    BY <1>5, <1>7, <1>13, <1>14, <2>1
  <2>3. Items[a].group = Items[i].group
    BY <1>3, <1>7, <1>12, <2>1
  <2>4. ~(Items[i].target < Items[a].target)
    <3>1. \A x, y \in 1..n : whole[x].group = whole[y].group /\ whole[x].target < whole[y].target
            => x < y
      BY <1>5
    <3>2. m \in 1..n /\ ~(k < m)
      BY <1>13, <1>14
    <3>3. QED
      BY <1>3, <1>7, <2>1, <2>3, <3>1, <3>2
  <2>5. Items[a].target < Items[i].target
    BY <1>3, <2>2, <2>3, <2>4 DEF TargetsOnce
  <2>6. ItemDone(a, table, mine)
    BY <2>3, <2>5 DEF DueBefore
  <2>7. QED
    BY <1>10, <1>13, <2>1, <2>6
<1>15. PICK T : T = {m \in places : ~Completed(slots, table, m)}
  OBVIOUS
<1>16. First(T) = k
  <2>1. k \in T /\ T \in SUBSET Nat
    <3>1. ~Completed(slots, table, k)
      BY <1>11 DEF Completed
    <3>2. k \in T /\ T \subseteq 1..n
      BY <1>13, <1>15, <3>1
    <3>3. QED
      BY <3>2
  <2>2. First(T) \in T /\ First(T) <= k
    BY <2>1, FirstFacts
  <2>3. First(T) \in places /\ ~Completed(slots, table, First(T)) /\ First(T) \in Nat
    BY <1>15, <2>1, <2>2
  <2>4. ~(First(T) < k)
    BY <1>14, <2>3
  <2>5. QED
    BY <2>2, <2>3, <2>4
<1>17. k \in Segment(whole, slots, table, places)
  <2>1. k # 0 /\ k >= k /\ \A j \in k..k : j = k
    BY <1>7
  <2>2. QED
    BY <1>13, <1>15, <1>16, <2>1 DEF Segment
<1>18. k \in Creatable(whole, slots, table, places)
  BY <1>11, <1>17 DEF Creatable
<1>19. k \in CreatableByGroup(route, table, mine)
  <2>1. k \in DOMAIN whole /\ k \in Creatable(whole, slots, table, In(k))
    BY <1>5, <1>12, <1>18
  <2>2. QED
    BY <2>1 DEF CreatableByGroup, slots, whole
<1>20. whole[k].lab = Items[i].lab
  BY <1>3, <1>7
<1>21. ASSUME NEW j \in CreatableByGroup(route, table, mine)
       PROVE  /\ whole[j].group = Items[i].group => k <= j
              /\ SameExperiment(whole[j], Items[i]) => j = k
  <2>1. PICK q \in DOMAIN whole : j \in Creatable(whole, slots, table, In(q))
    BY DEF CreatableByGroup, slots, whole
  <2>2. j \in Segment(whole, slots, table, In(q))
    BY <2>1 DEF Creatable
  <2>3. j \in In(q) /\ j \in 1..n
    <3>1. PICK area : area = In(q)
      OBVIOUS
    <3>2. j \in Segment(whole, slots, table, area)
      BY <2>2, <3>1
    <3>3. j \in area
      BY <3>2 DEF Segment
    <3>4. QED
      BY <1>5, <3>1, <3>3
  <2>4. ASSUME whole[j].group = Items[i].group
        PROVE  k <= j
    <3>1. whole[q].group = whole[k].group
      BY <1>3, <1>7, <2>3, <2>4
    <3>2. In(q) = places
      BY <1>12, <3>1
    <3>3. j \in Segment(whole, slots, table, places)
      BY <2>2, <3>2
    <3>4. j >= First(T)
      BY <1>15, <3>3 DEF Segment
    <3>5. QED
      BY <1>16, <2>3, <3>4
  <2>5. ASSUME SameExperiment(whole[j], Items[i])
        PROVE  j = k
    <3>1. PICK a \in S : whole[j] = Step(a)
      BY <1>8, <2>3
    <3>2. a = i
      BY <1>3, <2>5, <3>1 DEF SameExperiment, OnceEach
    <3>3. QED
      BY <1>5, <1>7, <2>3, <3>1, <3>2
  <2>6. QED
    BY <2>4, <2>5
<1>22. QED
  BY <1>7, <1>19, <1>20, <1>21 DEF whole

(* So a request for its experiment alone passes the check of a split.      *)
LEMMA NextMayBeCreated ==
  ASSUME NEW S \in SUBSET ItemIds, OnceEach(S), TargetsOnce(S), NEW route, Names(route, S),
         NEW table, NEW mine \in SUBSET (Nat \ {0}),
         \A w \in mine : table[w].status = "completed",
         NEW i \in S, ~ItemDone(i, table, mine),
         \A j \in S : DueBefore(j, i) => ItemDone(j, table, mine),
         NEW x, x.lab = Items[i].lab, x.exp = Items[i].exp
  PROVE  CreateInOrder(route, table, mine, {x})
<1> DEFINE whole == GroupedRoute(route)
           open == CreatableByGroup(route, table, mine)
           Of == {k \in open : SameExperiment(whole[k], x)}
<1>1. PICK k \in open : /\ whole[k] = Step(i)
                        /\ \A j \in open : whole[j].group = Items[i].group => k <= j
                        /\ \A j \in open : SameExperiment(whole[j], Items[i]) => j = k
  <2>1. \E k \in CreatableByGroup(route, table, mine) :
           /\ GroupedRoute(route)[k].lab = Items[i].lab
           /\ GroupedRoute(route)[k] = Step(i)
           /\ \A j \in CreatableByGroup(route, table, mine) :
                /\ GroupedRoute(route)[j].group = Items[i].group => k <= j
                /\ SameExperiment(GroupedRoute(route)[j], Items[i]) => j = k
    <3> HIDE DEF whole, open, Of
    <3>1. QED
      BY NextIsCreatable, SMTT(60)
  <2>2. QED
    BY <2>1
<1>2. SameExperiment(whole[k], x) /\ whole[k].group = Items[i].group
  BY <1>1 DEF SameExperiment, Step
<1>3. \A j \in open : SameExperiment(whole[j], x) => j = k
  BY <1>1 DEF SameExperiment
<1>4. open \subseteq Nat \ {0}
  <2>1. PICK n \in Nat : route \in [1..n -> {Step(a) : a \in S}]
    BY DEF Names
  <2>2. DOMAIN whole = 1..n
    <3>1. ASSUME NEW m \in 1..n
          PROVE  route[m].target \in Nat /\ route[m].lab \in Nat /\ route[m].exp \in Nat
      <4>1. PICK a \in S : route[m] = Step(a)
        BY <2>1
      <4>2. QED
        BY <4>1, ItemFacts DEF Step
    <3>2. DOMAIN route = 1..n
      BY <2>1
    <3>3. QED
      BY <3>1, <3>2, GroupingFacts
  <2>3. ASSUME NEW m \in open
        PROVE  m \in DOMAIN whole
    <3>1. PICK q \in DOMAIN whole :
            m \in Creatable(whole, Slots(whole, table, mine), table,
                            {b \in DOMAIN whole : whole[b].group = whole[q].group})
      BY DEF CreatableByGroup
    <3>2. PICK area : area = {b \in DOMAIN whole : whole[b].group = whole[q].group}
      OBVIOUS
    <3>3. m \in area
      BY <3>1, <3>2 DEF Creatable, Segment
    <3>4. QED
      BY <3>2, <3>3
  <2>4. QED
    BY <2>2, <2>3
<1> HIDE DEF whole, open
<1>5. Of = {k}
  BY <1>2, <1>3
<1>6. First(Of) = k
  <2>1. {k} \in SUBSET Nat /\ {k} # {}
    BY <1>4
  <2>2. First({k}) \in {k}
    BY <2>1, FirstFacts
  <2>3. QED
    BY <1>5, <2>2
<1>7. {First({m \in open : SameExperiment(whole[m], y)}) : y \in {x}} = {k}
  BY <1>6
<1>8. \A m \in {k}, j \in open : whole[j].group = whole[m].group /\ j < m => j \in {m}
  <2>1. ASSUME NEW j \in open, whole[j].group = whole[k].group, j < k
        PROVE  FALSE
    <3>1. k <= j
      BY <1>1, <1>2, <2>1
    <3>2. QED
      BY <1>4, <2>1, <3>1
  <2>2. QED
    BY <2>1
<1>9. QED
  BY <1>4, <1>7, <1>8 DEF CreateInOrder, whole, open

(* An item that dependency/next may choose has its predecessors done.      *)
LEMMA CandidateIsNext ==
  ASSUME NEW s, NEW table, NEW mine, NEW i \in NextCandidates(s, table, mine)
  PROVE  /\ i \in ItemsOf(s)
         /\ \A j \in ItemsOf(s) : DueBefore(j, i) => ItemDone(j, table, mine)
<1>1. /\ i \in ItemsOf(s)
      /\ \A j \in ItemsOf(s) : ~ItemDone(j, table, mine) /\ Items[j].group = Items[i].group =>
           \/ Items[i].target < Items[j].target
           \/ Items[i].target = Items[j].target /\ i <= j
  BY DEF NextCandidates
<1>2. \A j \in ItemsOf(s) : j \in Int /\ Items[j].target \in Nat
  BY ItemFacts
<1>3. QED
  BY <1>1, <1>2 DEF DueBefore

-----------------------------------------------------------------------------
(* Where a route ends.                                                     *)

(* An item that closes its dependency group: none is due after it.         *)
Closes(s, e) == e \in ItemsOf(s) /\ \A j \in ItemsOf(s) : ~DueBefore(e, j)

(* 1..N lists itself.                                                      *)
LEMMA AscendingInterval ==
  ASSUME NEW N \in Nat
  PROVE  /\ IsFiniteSet(1..N) /\ Cardinality(1..N) = N
         /\ Ascending(1..N) = [n \in 1..N |-> n]
<1>1. ASSUME NEW m \in Nat
      PROVE  IsFiniteSet(1..m) /\ Cardinality(1..m) = m
  <2>1. 1 \in Int /\ m \in Int
    OBVIOUS
  <2>2. IsFiniteSet(1..m) /\ Cardinality(1..m) = IF 1 > m THEN 0 ELSE m - 1 + 1
    BY <2>1, FS_Interval
  <2>3. QED
    BY <2>2
<1>2. ASSUME NEW j \in 1..N
      PROVE  Cardinality({i \in 1..N : i < j}) = j - 1
  <2>1. {i \in 1..N : i < j} = 1..(j - 1)
    OBVIOUS
  <2>2. j - 1 \in Nat
    OBVIOUS
  <2>3. QED
    BY <1>1, <2>1, <2>2
<1>3. ASSUME NEW n \in 1..N
      PROVE  (CHOOSE j \in 1..N : Cardinality({i \in 1..N : i < j}) = n - 1) = n
  <2>1. \A j \in 1..N : Cardinality({i \in 1..N : i < j}) = n - 1 <=> j = n
    BY <1>2
  <2>2. QED
    BY <2>1
<1>4. Ascending(1..N) = [n \in 1..N |-> CHOOSE j \in 1..N : Cardinality({i \in 1..N : i < j}) = n - 1]
  BY <1>1 DEF Ascending, Ordered
<1>5. QED
  BY <1>1, <1>3, <1>4

(* A list without repetitions has nothing to be taken out.                 *)
LEMMA DistinctAlready ==
  ASSUME NEW T, NEW N \in Nat, NEW q \in [1..N -> T],
         \A a, b \in 1..N : q[a] = q[b] => a = b
  PROVE  Distinct(q) = q
<1>1. {k \in DOMAIN q : \A j \in 1..(k - 1) : q[j] # q[k]} = 1..N
  <2>1. ASSUME NEW k \in 1..N, NEW j \in 1..(k - 1)
        PROVE  q[j] # q[k]
    <3>1. j \in 1..N /\ j # k
      OBVIOUS
    <3>2. QED
      BY <3>1
  <2>2. QED
    BY <2>1
<1>2. Distinct(q) = [n \in DOMAIN Ascending(1..N) |-> q[Ascending(1..N)[n]]]
  BY <1>1 DEF Distinct
<1>3. QED
  BY <1>2, AscendingInterval

(* Within a group the items were written in the order in which they are    *)
(* due.                                                                    *)
Sorted(S) ==
  \A i, j \in S : Items[i].group = Items[j].group /\ i < j => Items[i].target < Items[j].target

(* A route that fits ends with an item that closes its group, if it starts *)
(* with one that opens its own.                                            *)
LEMMA RouteEnds ==
  ASSUME NEW s, Cardinality(ItemsOf(s)) <= Room, OnceEach(ItemsOf(s)), Sorted(ItemsOf(s)),
         NEW claimed, NEW first, ItemsOf(s) \cap claimed = {first},
         \A j \in ItemsOf(s) : ~DueBefore(j, first)
  PROVE  \E n \in Nat \ {0} :
           /\ DOMAIN RouteOf(s, claimed) = 1..n /\ Len(RouteOf(s, claimed)) = n
           /\ \E e \in ItemsOf(s) : Closes(s, e) /\ RouteOf(s, claimed)[n] = Step(e)
<1> DEFINE S == ItemsOf(s)
           R == S \ {first}
           ids == DeliveryOrder(s, claimed)
           q == [k \in DOMAIN ids |-> Step(ids[k])]
<1>1. /\ S \in SUBSET Nat /\ 0 \notin S /\ IsFiniteSet(S) /\ first \in S
      /\ \A i \in S : Items[i].target \in Nat
  BY ItemFacts
<1>2. First(S \cap claimed) = first
  <2>1. {first} \in SUBSET Nat /\ {first} # {}
    BY <1>1
  <2>2. First({first}) \in {first}
    BY <2>1, FirstFacts
  <2>3. QED
    BY <2>2
<1>3. ids = <<first>> \o Ascending(R)
  BY <1>1, <1>2 DEF DeliveryOrder
<1> HIDE DEF S, R
<1>4. PICK N \in Nat : Cardinality(R) = N /\ Cardinality(S) = N + 1 /\ IsFiniteSet(R)
  <2>1. IsFiniteSet(R) /\ Cardinality(R) = Cardinality(S) - 1
    BY <1>1, FS_RemoveElement DEF R
  <2>2. Cardinality(R) \in Nat /\ Cardinality(S) \in Nat
    BY <1>1, <2>1, FS_CardinalityType
  <2>3. QED
    BY <2>1, <2>2
<1>5. PICK rest \in [1..N -> R] : /\ rest = Ascending(R)
                                /\ \A j \in R : \E k \in 1..N : rest[k] = j
                                /\ \A m, n \in 1..N : m < n <=> rest[m] < rest[n]
  <2>1. R \in SUBSET Nat
    BY <1>1 DEF R
  <2>2. Lists(Ascending(R), R) /\ \A m, n \in 1..N : m < n <=> Ascending(R)[m] < Ascending(R)[n]
    BY <1>4, <2>1, AscendingFacts
  <2>3. QED
    BY <1>4, <2>2 DEF Lists
<1>6. /\ ids \in [1..(N + 1) -> S] /\ ids[1] = first
      /\ \A n \in 1..N : ids[n + 1] = rest[n]
  <2>1. rest \in [1..N -> S] /\ first \in S
    BY <1>1, <1>5 DEF R
  <2>2. /\ <<first>> \o rest \in [1..(N + 1) -> S] /\ (<<first>> \o rest)[1] = first
        /\ \A n \in 1..N : (<<first>> \o rest)[n + 1] = rest[n]
    BY <1>4, <2>1, Prepended
  <2>3. QED
    BY <1>3, <1>5, <2>2
<1>7. \A a, b \in 1..(N + 1) : ids[a] = ids[b] => a = b
  <2>1. Lists(ids, S)
    BY DeliveryFacts DEF S
  <2>2. QED
    BY <1>4, <2>1 DEF Lists
<1> HIDE DEF ids
<1>8. /\ q \in [1..(N + 1) -> {Step(i) : i \in S}]
      /\ \A n \in 1..(N + 1) : q[n] = Step(ids[n])
  BY <1>6
<1>9. \A a, b \in 1..(N + 1) : q[a] = q[b] => a = b
  <2>1. \A i, j \in S : Step(i) = Step(j) => i = j
    <3>1. \A i \in S : Step(i).lab = Items[i].lab /\ Step(i).exp = Items[i].exp
      BY DEF Step
    <3>2. QED
      BY <3>1 DEF OnceEach, S
  <2>2. QED
    BY <1>6, <1>7, <1>8, <2>1
<1> HIDE DEF q
<1>10. RouteOf(s, claimed) = q
  <2>1. N + 1 \in Nat /\ N + 1 <= Room
    BY <1>4 DEF S
  <2>2. Distinct(q) = q
    BY <1>8, <1>9, <2>1, DistinctAlready
  <2>3. Truncated(q) = q
    BY <1>8, <2>1, TruncatedFacts
  <2>4. QED
    BY <2>2, <2>3 DEF RouteOf, q, ids
<1>11. DOMAIN q = 1..(N + 1) /\ Len(q) = N + 1 /\ N + 1 \in Nat \ {0}
  <2>1. N + 1 \in Nat \ {0}
    OBVIOUS
  <2>2. QED
    BY <1>8, <2>1, SeqOfFunction
<1>12. ids[N + 1] \in S /\ \A j \in S : ~DueBefore(ids[N + 1], j)
  <2>1. CASE N = 0
    <3>1. ids[N + 1] = first /\ R = {}
      BY <1>4, <1>6, <2>1, FS_EmptySet
    <3>2. S = {first} /\ first \in Nat
      BY <1>1, <3>1 DEF R
    <3>3. QED
      BY <1>1, <3>1, <3>2 DEF DueBefore
  <2>2. CASE N # 0
    <3>1. PICK e \in R : e = rest[N] /\ e = ids[N + 1]
      <4>1. N \in 1..N
        BY <2>2
      <4>2. QED
        BY <1>5, <1>6, <4>1
    <3>2. \A j \in R : j <= e
      <4>1. ASSUME NEW j \in R
            PROVE  j <= e
        <5>1. PICK n \in 1..N : rest[n] = j
          BY <1>5
        <5>2. ASSUME n < N
              PROVE  j < e
          <6>1. N \in 1..N
            BY <2>2
          <6>2. rest[n] < rest[N]
            BY <1>5, <5>2, <6>1
          <6>3. QED
            BY <3>1, <5>1, <6>2
        <5>3. j \in Nat /\ e \in Nat
          BY <1>1 DEF R
        <5>4. QED
          <6>1. n = N \/ n < N
            BY <5>1
          <6>2. n = N => j = e
            BY <3>1, <5>1
          <6>3. QED
            BY <5>2, <5>3, <6>1, <6>2
      <4>2. QED
        BY <4>1
    <3>3. ASSUME NEW j \in S, DueBefore(e, j)
          PROVE  FALSE
      <4>1. j # first
        BY <3>1, <3>3 DEF R, S
      <4>2. j \in R /\ j \in Nat /\ e \in Nat /\ e \in S /\ j <= e
        BY <1>1, <3>2, <4>1 DEF R
      <4>3. /\ Items[e].group = Items[j].group
            /\ Items[e].target < Items[j].target \/ (Items[e].target = Items[j].target /\ e < j)
        BY <3>3 DEF DueBefore
      <4>4. j < e => Items[j].target < Items[e].target
        BY <4>2, <4>3 DEF Sorted, S
      <4>5. QED
        BY <1>1, <4>2, <4>3, <4>4
    <3>4. QED
      BY <3>1, <3>3 DEF R
  <2>3. QED
    BY <2>1, <2>2
<1>13. QED
  BY <1>8, <1>10, <1>11, <1>12 DEF Closes, S

=============================================================================
