---------------------------- MODULE CombatProofs ----------------------------
(***************************************************************************)
(* Proofs about Combat, for any number of tanks, missiles and clients and  *)
(* any max_hp that is a multiple of the damage.                            *)
(***************************************************************************)
EXTENDS Combat, TLAPS, FiniteSetTheorems

-----------------------------------------------------------------------------
(* A set of naturals has a smallest member: the intervals below its        *)
(* members are finite sets, and one is minimal.                            *)
LEMMA Smallest ==
    ASSUME NEW T \in SUBSET Nat, NEW t \in T
    PROVE  \E x \in T : \A y \in T : x <= y
<1> DEFINE S == 0 .. t
           B == {0 .. x : x \in {y \in T : y <= t}}
<1>1. IsFiniteSet(S)
  BY FS_Interval
<1>2. IsWellFoundedOn(StrictSubsetOrdering(S), SUBSET S)
  BY <1>1, FS_StrictSubsetOrderingWellFounded, FS_FiniteSubsetsOfFinite
<1>3. B \in SUBSET SUBSET S /\ B # {}
  OBVIOUS
<1>4. PICK b \in B : \A a \in B : ~(<<a, b>> \in StrictSubsetOrdering(S))
  <2> HIDE DEF B, S
  <2> QED
    BY <1>2, <1>3, WFMin
<1>5. PICK x \in T : x <= t /\ b = 0 .. x
  BY <1>4
<1>6. ASSUME NEW y \in T, ~(x <= y)
      PROVE  FALSE
  <2>1. 0 .. y \in B /\ 0 .. y \subseteq b /\ 0 .. y # b
    <3>1. y <= t /\ y < x
      BY <1>5, <1>6
    <3>2. x \in b /\ x \notin 0 .. y
      BY <1>5, <3>1
    <3> QED
      BY <1>5, <3>1, <3>2
  <2> QED
    BY <1>3, <1>4, <2>1 DEF StrictSubsetOrdering
<1> QED
  BY <1>5, <1>6

(* Induction over the slots. *)
LEMMA UpTo ==
    ASSUME NEW n \in Nat, NEW T \in SUBSET (0 .. n), 0 \in T,
           \A j \in 1 .. n : j - 1 \in T => j \in T
    PROVE  T = 0 .. n
<1> DEFINE U == (0 .. n) \ T
<1> SUFFICES ASSUME U # {}
             PROVE  FALSE
  OBVIOUS
<1>1. PICK x \in U : \A y \in U : x <= y
  <2>1. U \in SUBSET Nat
    OBVIOUS
  <2> HIDE DEF U
  <2> QED
    BY <2>1, Smallest
<1>2. x \in 1 .. n /\ x - 1 \in 0 .. n /\ x - 1 \notin U
  BY <1>1
<1> QED
  BY <1>1, <1>2

-----------------------------------------------------------------------------
(* What the tanks have together. *)
Sums(n, f, u) == u = [i \in 0 .. n |-> (IF i = 0 THEN 0 ELSE u[i - 1]) + f[i]]

LEMMA SumsExist ==
    ASSUME NEW n \in Nat, NEW f
    PROVE  \E u : Sums(n, f, u)
<1> DEFINE T == {k \in 0 .. n : \E u : Sums(k, f, u)}
<1>1. 0 \in T
  <2> DEFINE u == [i \in 0 .. 0 |-> 0 + f[i]]
  <2>1. \A i \in 0 .. 0 : i = 0
    OBVIOUS
  <2>2. Sums(0, f, u)
    BY <2>1 DEF Sums
  <2> QED
    BY <2>2
<1>2. ASSUME NEW k \in 1 .. n, k - 1 \in T
      PROVE  k \in T
  <2>1. PICK u : Sums(k - 1, f, u)
    BY <1>2
  <2> DEFINE last == u[k - 1] + f[k]
             v == [i \in 0 .. k |-> IF i = k THEN last ELSE u[i]]
  <2>2. \A i \in 0 .. k : v[i] = (IF i = 0 THEN 0 ELSE v[i - 1]) + f[i]
    <3> SUFFICES ASSUME NEW i \in 0 .. k
                 PROVE  v[i] = (IF i = 0 THEN 0 ELSE v[i - 1]) + f[i]
      OBVIOUS
    <3>1. CASE i = k
      <4>1. i # 0 /\ i - 1 \in 0 .. k /\ i - 1 # k
        BY <3>1
      <4> QED
        BY <3>1, <4>1
    <3>2. CASE i # k
      <4>1. i \in 0 .. k - 1 /\ (i # 0 => i - 1 \in 0 .. k /\ i - 1 # k)
        BY <3>2
      <4>2. u[i] = (IF i = 0 THEN 0 ELSE u[i - 1]) + f[i]
        BY <2>1, <4>1 DEF Sums
      <4> QED
        BY <3>2, <4>1, <4>2
    <3> QED
      BY <3>1, <3>2
  <2>3. v = [i \in 0 .. k |-> v[i]]
    OBVIOUS
  <2>4. Sums(k, f, v)
    <3> HIDE DEF v
    <3> QED
      BY <2>2, <2>3 DEF Sums
  <2> QED
    BY <2>4
<1>3. T = 0 .. n
  <2> HIDE DEF T
  <2>1. T \in SUBSET (0 .. n)
    BY DEF T
  <2> QED
    BY <1>1, <1>2, <2>1, UpTo
<1> QED
  BY <1>3

LEMMA TotalSums ==
    ASSUME NEW f \in [Slots -> Nat]
    PROVE  \E u \in [Slots -> Nat] :
              /\ u[0] = f[0] /\ u[MaxSlot] = Total(f)
              /\ \A i \in 1 .. MaxSlot : u[i] = u[i - 1] + f[i]
<1> USE CombatAssumption
<1> DEFINE u == CHOOSE g : Sums(MaxSlot, f, g)
<1>1. Total(f) = u[MaxSlot]
  BY DEF Total, Sums, Slots
<1>2. Sums(MaxSlot, f, u)
  BY SumsExist
<1> HIDE DEF u
<1>3. \A i \in 0 .. MaxSlot : u[i] = (IF i = 0 THEN 0 ELSE u[i - 1]) + f[i]
  BY <1>2 DEF Sums
<1> DEFINE T == {i \in 0 .. MaxSlot : u[i] \in Nat}
<1>4. 0 \in T
  BY <1>3 DEF Slots
<1>5. ASSUME NEW i \in 1 .. MaxSlot, i - 1 \in T
      PROVE  i \in T
  BY <1>3, <1>5 DEF Slots
<1>6. T = 0 .. MaxSlot
  <2>1. T \in SUBSET (0 .. MaxSlot)
    OBVIOUS
  <2> HIDE DEF T
  <2> QED
    BY <1>4, <1>5, <2>1, UpTo
<1>7. u \in [Slots -> Nat]
  <2>1. u = [i \in Slots |-> u[i]]
    BY <1>2, <1>3 DEF Sums, Slots
  <2> QED
    BY <1>6, <2>1 DEF Slots
<1>8. /\ u[0] = f[0]
      /\ \A i \in 1 .. MaxSlot : u[i] = u[i - 1] + f[i]
  BY <1>3, <1>7 DEF Slots
<1> QED
  BY <1>1, <1>7, <1>8

LEMMA TotalNat ==
    ASSUME NEW f \in [Slots -> Nat]
    PROVE  Total(f) \in Nat /\ \A i \in Slots : f[i] <= Total(f)
<1> USE CombatAssumption
<1>1. PICK u \in [Slots -> Nat] :
              /\ u[0] = f[0] /\ u[MaxSlot] = Total(f)
              /\ \A i \in 1 .. MaxSlot : u[i] = u[i - 1] + f[i]
  BY TotalSums
<1>2. ASSUME NEW i \in Slots
      PROVE  f[i] <= Total(f)
  <2> DEFINE T == {j \in 0 .. MaxSlot : j >= i => f[i] <= u[j]}
  <2>1. 0 \in T
    BY <1>1 DEF Slots
  <2>2. ASSUME NEW j \in 1 .. MaxSlot, j - 1 \in T
        PROVE  j \in T
    <3>1. j \in Slots /\ j - 1 \in Slots /\ u[j] = u[j - 1] + f[j]
      BY <1>1 DEF Slots
    <3>2. f[i] \in Nat /\ f[j] \in Nat /\ u[j - 1] \in Nat
      BY <3>1
    <3>3. CASE j = i
      BY <3>1, <3>2, <3>3
    <3>4. CASE j # i
      BY <2>2, <3>1, <3>2, <3>4 DEF Slots
    <3> QED
      BY <3>3, <3>4
  <2>3. T = 0 .. MaxSlot
    <3>1. T \in SUBSET (0 .. MaxSlot)
      OBVIOUS
    <3> HIDE DEF T
    <3> QED
      BY <2>1, <2>2, <3>1, UpTo
  <2>4. MaxSlot \in T
    BY <2>3
  <2> QED
    BY <1>1, <2>4 DEF Slots
<1> QED
  BY <1>1, <1>2 DEF Slots

LEMMA TotalExcept ==
    ASSUME NEW f \in [Slots -> Nat], NEW i \in Slots, NEW x \in Nat
    PROVE  Total([f EXCEPT ![i] = x]) = Total(f) - f[i] + x
<1> USE CombatAssumption
<1> DEFINE g == [f EXCEPT ![i] = x]
<1>1. g \in [Slots -> Nat] /\ g[i] = x /\ \A j \in Slots : j # i => g[j] = f[j]
  OBVIOUS
<1> HIDE DEF g
<1>2. PICK u \in [Slots -> Nat] :
              /\ u[0] = f[0] /\ u[MaxSlot] = Total(f)
              /\ \A j \in 1 .. MaxSlot : u[j] = u[j - 1] + f[j]
  BY TotalSums
<1>3. PICK v \in [Slots -> Nat] :
              /\ v[0] = g[0] /\ v[MaxSlot] = Total(g)
              /\ \A j \in 1 .. MaxSlot : v[j] = v[j - 1] + g[j]
  BY <1>1, TotalSums
<1> DEFINE T == {j \in 0 .. MaxSlot :
                    v[j] = u[j] + (IF j >= i THEN x - f[i] ELSE 0)}
<1>4. 0 \in T
  <2>1. 0 \in Slots
    BY DEF Slots
  <2>2. CASE i = 0
    BY <1>1, <1>2, <1>3, <2>1, <2>2
  <2>3. CASE i # 0
    BY <1>1, <1>2, <1>3, <2>1, <2>3 DEF Slots
  <2> QED
    BY <2>2, <2>3
<1>5. ASSUME NEW j \in 1 .. MaxSlot, j - 1 \in T
      PROVE  j \in T
  <2>1. j \in Slots /\ j - 1 \in Slots
    BY DEF Slots
  <2>2. u[j] = u[j - 1] + f[j] /\ v[j] = v[j - 1] + g[j]
    BY <1>2, <1>3
  <2>3. u[j - 1] \in Nat /\ f[j] \in Nat /\ f[i] \in Nat
    BY <2>1
  <2>4. CASE j = i
    BY <1>1, <1>5, <2>2, <2>3, <2>4
  <2>5. CASE j # i
    <3>1. g[j] = f[j] /\ x - f[i] \in Int /\ j \in Int /\ i \in Int
      BY <1>1, <2>1, <2>3, <2>5 DEF Slots
    <3>2. v[j - 1] = u[j - 1] + (IF j - 1 >= i THEN x - f[i] ELSE 0)
      BY <1>5
    <3>3. j - 1 >= i <=> j >= i
      BY <2>5, <3>1
    <3> QED
      BY <2>2, <2>3, <3>1, <3>2, <3>3
  <2> QED
    BY <2>4, <2>5
<1>6. T = 0 .. MaxSlot
  <2>1. T \in SUBSET (0 .. MaxSlot)
    OBVIOUS
  <2> HIDE DEF T
  <2> QED
    BY <1>4, <1>5, <2>1, UpTo
<1>7. MaxSlot \in T
  BY <1>6
<1>8. Total(g) = Total(f) + (x - f[i])
  BY <1>2, <1>3, <1>7 DEF Slots
<1> QED
  BY <1>2, <1>8 DEF g, Slots

LEMMA TotalZero == Total([i \in Slots |-> 0]) = 0
<1> USE CombatAssumption
<1> DEFINE f == [i \in Slots |-> 0]
<1>1. f \in [Slots -> Nat] /\ \A j \in Slots : f[j] = 0
  OBVIOUS
<1> HIDE DEF f
<1>2. PICK u \in [Slots -> Nat] :
              /\ u[0] = f[0] /\ u[MaxSlot] = Total(f)
              /\ \A j \in 1 .. MaxSlot : u[j] = u[j - 1] + f[j]
  BY <1>1, TotalSums
<1> DEFINE T == {j \in 0 .. MaxSlot : u[j] = 0}
<1>3. 0 \in T
  BY <1>1, <1>2 DEF Slots
<1>4. ASSUME NEW j \in 1 .. MaxSlot, j - 1 \in T
      PROVE  j \in T
  BY <1>1, <1>2, <1>4 DEF Slots
<1>5. T = 0 .. MaxSlot
  <2>1. T \in SUBSET (0 .. MaxSlot)
    OBVIOUS
  <2> HIDE DEF T
  <2> QED
    BY <1>3, <1>4, <2>1, UpTo
<1>6. MaxSlot \in T
  BY <1>5
<1> QED
  BY <1>2, <1>6 DEF f

LEMMA TotalReward ==
    ASSUME NEW f \in [Slots -> Nat], NEW L \in SUBSET Missiles,
           NEW who \in [Missiles -> Slots]
    PROVE  LET g == [i \in Slots |-> f[i] + Reward *
                        Cardinality({m \in L : who[m] = i})]
           IN  g \in [Slots -> Nat]
               /\ Total(g) = Total(f) + Reward * Cardinality(L)
<1> USE CombatAssumption
<1> DEFINE Of(i) == {m \in L : who[m] = i}
           Below(i) == {m \in L : who[m] <= i}
           g == [i \in Slots |-> f[i] + Reward * Cardinality(Of(i))]
<1>1. IsFiniteSet(L)
  <2>1. IsFiniteSet(Missiles)
    BY FS_Interval DEF Missiles
  <2> QED
    BY <2>1, FS_Subset
<1>2. ASSUME NEW i \in Slots
      PROVE  /\ IsFiniteSet(Of(i)) /\ IsFiniteSet(Below(i))
             /\ Cardinality(Of(i)) \in Nat /\ Cardinality(Below(i)) \in Nat
  <2>1. Of(i) \subseteq L /\ Below(i) \subseteq L
    OBVIOUS
  <2> HIDE DEF Of, Below
  <2>2. IsFiniteSet(Of(i)) /\ IsFiniteSet(Below(i))
    BY <1>1, <2>1, FS_Subset
  <2> QED
    BY <2>2, FS_CardinalityType
<1>3. g \in [Slots -> Nat]
      /\ \A i \in Slots : g[i] = f[i] + 10 * Cardinality(Of(i))
  <2>1. \A i \in Slots : g[i] = f[i] + Reward * Cardinality(Of(i))
    OBVIOUS
  <2>2. \A i \in Slots : f[i] + Reward * Cardinality(Of(i)) \in Nat
    <3> SUFFICES ASSUME NEW i \in Slots
                 PROVE  f[i] + Reward * Cardinality(Of(i)) \in Nat
      OBVIOUS
    <3>1. f[i] \in Nat /\ Cardinality(Of(i)) \in Nat
      BY <1>2
    <3> HIDE DEF Of, g
    <3> QED
      BY <3>1 DEF Reward
  <2>3. g \in [Slots -> Nat]
    <3> HIDE DEF Of
    <3> QED
      BY <2>2
  <2> QED
    BY <2>1, <2>3 DEF Reward
<1>4. Below(0) = Of(0) /\ Below(MaxSlot) = L
  BY DEF Slots
<1>5. ASSUME NEW j \in 1 .. MaxSlot
      PROVE  Cardinality(Below(j)) = Cardinality(Below(j - 1)) + Cardinality(Of(j))
  <2>1. j \in Slots /\ j - 1 \in Slots
    BY DEF Slots
  <2>2. Below(j) = Below(j - 1) \cup Of(j) /\ Below(j - 1) \cap Of(j) = {}
    BY <2>1 DEF Slots
  <2>3. /\ IsFiniteSet(Of(j)) /\ Cardinality(Of(j)) \in Nat
        /\ IsFiniteSet(Below(j - 1)) /\ Cardinality(Below(j - 1)) \in Nat
    BY <1>2, <2>1
  <2> HIDE DEF Of, Below
  <2>4. Cardinality(Below(j - 1) \cup Of(j))
            = Cardinality(Below(j - 1)) + Cardinality(Of(j))
                  - Cardinality(Below(j - 1) \cap Of(j))
    BY <2>3, FS_Union
  <2>5. Cardinality(Below(j - 1) \cap Of(j)) = 0
    BY <2>2, FS_EmptySet
  <2> QED
    BY <2>2, <2>3, <2>4, <2>5
<1> HIDE DEF g, Of, Below
<1>6. PICK u \in [Slots -> Nat] :
              /\ u[0] = f[0] /\ u[MaxSlot] = Total(f)
              /\ \A j \in 1 .. MaxSlot : u[j] = u[j - 1] + f[j]
  BY TotalSums
<1>7. PICK v \in [Slots -> Nat] :
              /\ v[0] = g[0] /\ v[MaxSlot] = Total(g)
              /\ \A j \in 1 .. MaxSlot : v[j] = v[j - 1] + g[j]
  BY <1>3, TotalSums
<1> DEFINE T == {j \in 0 .. MaxSlot : v[j] = u[j] + 10 * Cardinality(Below(j))}
<1>8. 0 \in T
  <2>1. 0 \in Slots
    BY DEF Slots
  <2>2. g[0] = f[0] + 10 * Cardinality(Of(0))
    BY <1>3, <2>1
  <2> QED
    BY <1>4, <1>6, <1>7, <2>1, <2>2
<1>9. ASSUME NEW j \in 1 .. MaxSlot, j - 1 \in T
      PROVE  j \in T
  <2>1. j \in Slots /\ j - 1 \in Slots
    BY DEF Slots
  <2>2. u[j] = u[j - 1] + f[j] /\ v[j] = v[j - 1] + g[j]
    BY <1>6, <1>7
  <2>3. g[j] = f[j] + 10 * Cardinality(Of(j))
    BY <1>3, <2>1
  <2>4. v[j - 1] = u[j - 1] + 10 * Cardinality(Below(j - 1))
    BY <1>9
  <2>5. /\ Cardinality(Of(j)) \in Nat /\ Cardinality(Below(j - 1)) \in Nat
        /\ u[j - 1] \in Nat /\ f[j] \in Nat
    BY <1>2, <2>1
  <2>6. v[j] = u[j] + 10 * Cardinality(Below(j))
    BY <1>5, <2>2, <2>3, <2>4, <2>5
  <2> QED
    BY <2>6
<1>10. T = 0 .. MaxSlot
  <2>1. T \in SUBSET (0 .. MaxSlot)
    OBVIOUS
  <2> HIDE DEF T
  <2> QED
    BY <1>8, <1>9, <2>1, UpTo
<1>11. MaxSlot \in T
  BY <1>10
<1>12. Total(g) = Total(f) + 10 * Cardinality(L)
  BY <1>4, <1>6, <1>7, <1>11
<1> QED
  BY <1>3, <1>12 DEF g, Of, Reward

-----------------------------------------------------------------------------
(* Hits in the order of the missiles. *)
LEMMA MissilesFinite ==
    ASSUME NEW S \in SUBSET Missiles
    PROVE  IsFiniteSet(S) /\ Cardinality(S) \in Nat
<1> USE CombatAssumption
<1>1. IsFiniteSet(Missiles)
  BY FS_Interval DEF Missiles
<1>2. IsFiniteSet(S)
  BY <1>1, FS_Subset
<1> QED
  BY <1>2, FS_CardinalityType

(* Of some missiles there is a last one. *)
LEMMA Largest ==
    ASSUME NEW S \in SUBSET Missiles, S # {}
    PROVE  \E m \in S : \A n \in S : n <= m
<1> DEFINE T == {MaxMissiles - m : m \in S}
<1> MaxMissiles \in Nat
  BY CombatAssumption
<1>1. T \in SUBSET Nat /\ T # {}
  <2>1. \A m \in S : MaxMissiles - m \in Nat
    BY DEF Missiles
  <2> QED
    BY <2>1
<1>2. PICK t \in T : \A y \in T : t <= y
  <2> HIDE DEF T
  <2> QED
    BY <1>1, Smallest
<1>3. PICK m \in S : t = MaxMissiles - m
  BY <1>2
<1>4. \A n \in S : MaxMissiles - m <= MaxMissiles - n
  BY <1>2, <1>3
<1> QED
  BY <1>4 DEF Missiles

LEMMA Ranks ==
    ASSUME NEW hit \in SUBSET Missiles
    PROVE  /\ \A m \in hit : Rank(m, hit) \in 1 .. Cardinality(hit)
           /\ \A m, n \in hit : n < m => Rank(n, hit) < Rank(m, hit)
           /\ \A m \in hit : (\A k \in hit : k <= m)
                 => Rank(m, hit) = Cardinality(hit)
           /\ \A m \in hit : Rank(m, hit) > 1 =>
                 \E n \in hit : n < m /\ Rank(n, hit) = Rank(m, hit) - 1
<1> DEFINE Till(m) == {n \in hit : n <= m}
<1>1. IsFiniteSet(hit) /\ Cardinality(hit) \in Nat
  BY MissilesFinite
<1>2. \A m \in hit : /\ Till(m) \subseteq hit /\ m \in Till(m)
                     /\ IsFiniteSet(Till(m))
                     /\ Cardinality(Till(m)) \in 1 .. Cardinality(hit)
                     /\ Rank(m, hit) = Cardinality(Till(m))
  <2> SUFFICES ASSUME NEW m \in hit
               PROVE  /\ Till(m) \subseteq hit /\ m \in Till(m)
                      /\ IsFiniteSet(Till(m))
                      /\ Cardinality(Till(m)) \in 1 .. Cardinality(hit)
                      /\ Rank(m, hit) = Cardinality(Till(m))
    OBVIOUS
  <2>1. Till(m) \subseteq hit /\ m \in Till(m)
    BY DEF Missiles
  <2>2. Rank(m, hit) = Cardinality(Till(m))
    BY DEF Rank
  <2> HIDE DEF Till
  <2>3. IsFiniteSet(Till(m)) /\ Cardinality(Till(m)) <= Cardinality(hit)
    BY <1>1, <2>1, FS_Subset
  <2>4. Cardinality(Till(m)) \in Nat /\ Cardinality(Till(m)) # 0
    BY <2>1, <2>3, FS_CardinalityType, FS_EmptySet
  <2> QED
    BY <1>1, <2>1, <2>2, <2>3, <2>4
<1>3. ASSUME NEW m \in hit, NEW n \in hit, n < m
      PROVE  Rank(n, hit) < Rank(m, hit)
  <2>1. Till(n) \subseteq Till(m) /\ m \notin Till(n)
    <3>1. \A k \in hit : k \in Int
      BY DEF Missiles
    <3>2. \A k \in hit : k <= n => k <= m /\ k # m
      BY <1>3, <3>1
    <3> QED
      BY <3>2
  <2> HIDE DEF Till
  <2>2. /\ Till(n) \subseteq Till(m) /\ Till(n) # Till(m)
        /\ IsFiniteSet(Till(m))
    BY <1>2, <2>1
  <2>3. Cardinality(Till(n)) <= Cardinality(Till(m))
    BY <2>2, FS_Subset
  <2>4. Cardinality(Till(n)) # Cardinality(Till(m))
    BY <2>2, FS_Subset
  <2> QED
    BY <1>2, <2>3, <2>4
<1>4. ASSUME NEW m \in hit, \A k \in hit : k <= m
      PROVE  Rank(m, hit) = Cardinality(hit)
  <2>1. Till(m) = hit
    BY <1>4
  <2> HIDE DEF Till
  <2> QED
    BY <1>2, <2>1
<1>5. ASSUME NEW m \in hit, Rank(m, hit) > 1
      PROVE  \E n \in hit : n < m /\ Rank(n, hit) = Rank(m, hit) - 1
  <2> DEFINE S == Till(m) \ {m}
  <2>1. Cardinality(S) = Rank(m, hit) - 1
    <3> HIDE DEF Till
    <3> QED
      BY <1>2, FS_RemoveElement
  <2>2. S # {}
    <3>1. Rank(m, hit) - 1 # 0
      BY <1>2, <1>5
    <3> HIDE DEF S
    <3> QED
      BY <2>1, <3>1, FS_EmptySet
  <2>3. PICK n \in S : \A k \in S : k <= n
    <3>1. S \in SUBSET Missiles
      OBVIOUS
    <3> HIDE DEF S
    <3> QED
      BY <2>2, <3>1, Largest
  <2>4. n \in hit /\ n < m
    BY DEF Missiles
  <2>5. Till(n) = S
    <3>1. \A k \in hit : k <= n => k <= m /\ k # m
      BY <2>4 DEF Missiles
    <3>2. \A k \in hit : k <= m /\ k # m => k <= n
      BY <2>3
    <3> QED
      BY <3>1, <3>2
  <2> HIDE DEF S, Till
  <2> QED
    BY <1>2, <2>1, <2>4, <2>5
<1> QED
  BY <1>2, <1>3, <1>4, <1>5

-----------------------------------------------------------------------------
(* Damage, and what is left of the hp. *)
LEMMA Scaled ==
    ASSUME NEW d \in Nat, NEW a \in Nat, NEW b \in Nat
    PROVE  d * a \in Nat /\ (a <= b => d * a <= d * b)
<1>1. d * a \in Nat
  OBVIOUS
<1>2. ASSUME a <= b
      PROVE  d * a <= d * b
  <2>1. d * (b - a) = d * b - d * a
    OBVIOUS
  <2>2. b - a \in Nat
    BY <1>2
  <2>3. d * (b - a) \in Nat
    BY <2>2
  <2> QED
    BY <2>1, <2>3
<1> QED
  BY <1>1, <1>2

LEMMA Whole ==
    ASSUME NEW d \in Nat \ {0}, NEW h \in Nat, h % d = 0, NEW c \in Nat,
           h - d * c > 0
    PROVE  h - d * c >= d /\ (h - d * c) % d = 0
<1>1. PICK k \in Nat : h = d * k
  OBVIOUS
<1>2. h - d * c = d * (k - c)
  BY <1>1
<1>3. k - c \in Nat \ {0}
  BY <1>2
<1> QED
  BY <1>2, <1>3

(* One input kills a tank at most once: the missiles that find it with no  *)
(* hp left are those after the first deadly one.                           *)
LEMMA OneDeath ==
    ASSUME NEW i, NEW hit \in SUBSET Missiles, hp[i] \in Nat, hp[i] > 0
    PROVE  /\ Lethal(i, hit) \in SUBSET Missiles
           /\ Cardinality(AlreadyDead(i, hit)) \in Nat
           /\ Cardinality(Lethal(i, hit))
                  = Cardinality(AlreadyDead(i, hit)) + (IF Dies(i, hit) THEN 1 ELSE 0)
<1> DEFINE L == Lethal(i, hit)
           A == AlreadyDead(i, hit)
<1>0. Damage \in Nat
  BY CombatAssumption
<1>1. /\ L \in SUBSET Missiles /\ A \in SUBSET Missiles
      /\ L \subseteq hit /\ A \subseteq hit
  BY DEF Lethal, AlreadyDead
<1>2. IsFiniteSet(L) /\ IsFiniteSet(A) /\ Cardinality(A) \in Nat
  <2> HIDE DEF L, A
  <2> QED
    BY <1>1, MissilesFinite
<1>3. \A m \in hit : /\ Rank(m, hit) \in Nat /\ Rank(m, hit) - 1 \in Nat
                     /\ m \in L <=> hp[i] - Damage * Rank(m, hit) <= 0
                     /\ m \in A <=> hp[i] - Damage * (Rank(m, hit) - 1) <= 0
  BY Ranks, MissilesFinite DEF Lethal, AlreadyDead
<1>4. Dies(i, hit) <=> L # {}
  <2>1. ASSUME Dies(i, hit)
        PROVE  L # {}
    <3>1. hit # {}
      <4>1. ASSUME hit = {}
            PROVE  FALSE
        <5>1. Cardinality(hit) = 0
          BY <4>1, FS_EmptySet
        <5> QED
          BY <1>0, <2>1, <5>1 DEF Dies
      <4> QED
        BY <4>1
    <3>2. PICK m \in hit : \A n \in hit : n <= m
      BY <3>1, Largest
    <3>3. Rank(m, hit) = Cardinality(hit)
      BY <3>2, Ranks
    <3> HIDE DEF L
    <3> QED
      BY <1>3, <2>1, <3>3 DEF Dies
  <2>2. ASSUME NEW m \in L
        PROVE  Dies(i, hit)
    <3> HIDE DEF L
    <3>1. m \in hit /\ hp[i] - Damage * Rank(m, hit) <= 0 /\ Rank(m, hit) \in Nat
      BY <1>1, <1>3
    <3>2. Cardinality(hit) \in Nat /\ Rank(m, hit) <= Cardinality(hit)
      BY <3>1, Ranks, MissilesFinite
    <3>3. /\ Damage * Rank(m, hit) \in Nat /\ Damage * Cardinality(hit) \in Nat
          /\ Damage * Rank(m, hit) <= Damage * Cardinality(hit)
      BY <1>0, <3>1, <3>2, Scaled
    <3> QED
      BY <3>1, <3>3 DEF Dies
  <2> QED
    BY <2>1, <2>2
<1>5. CASE L = {}
  <2>1. A = {}
    <3> SUFFICES ASSUME NEW m \in A
                 PROVE  FALSE
      OBVIOUS
    <3> HIDE DEF L, A
    <3>1. m \in hit /\ Rank(m, hit) \in Nat /\ Rank(m, hit) - 1 \in Nat
      BY <1>1, <1>3
    <3>2. /\ Damage * Rank(m, hit) \in Nat /\ Damage * (Rank(m, hit) - 1) \in Nat
          /\ Damage * (Rank(m, hit) - 1) <= Damage * Rank(m, hit)
      BY <1>0, <3>1, Scaled
    <3>3. hp[i] - Damage * (Rank(m, hit) - 1) <= 0
      BY <1>3, <3>1
    <3>4. hp[i] - Damage * Rank(m, hit) <= 0
      BY <3>2, <3>3
    <3>5. m \in L
      BY <1>3, <3>1, <3>4
    <3> QED
      BY <1>5, <3>5
  <2> HIDE DEF L, A
  <2>2. Cardinality(L) = 0 /\ Cardinality(A) = 0
    BY <1>5, <2>1, FS_EmptySet
  <2> QED
    BY <1>1, <1>2, <1>4, <1>5, <2>2 DEF L, A
<1>6. CASE L # {}
  <2>1. PICK m \in L : \A n \in L : m <= n
    <3>1. L \in SUBSET Nat
      BY <1>1 DEF Missiles
    <3> HIDE DEF L
    <3> QED
      BY <1>6, <3>1, Smallest
  <2> HIDE DEF L, A
  <2>2. /\ m \in hit /\ Rank(m, hit) \in Nat /\ Rank(m, hit) - 1 \in Nat
        /\ hp[i] - Damage * Rank(m, hit) <= 0
    BY <1>1, <1>3
  <2>3. m \notin A
    <3>1. CASE Rank(m, hit) > 1
      <4>1. PICK n \in hit : n < m /\ Rank(n, hit) = Rank(m, hit) - 1
        BY <2>2, <3>1, Ranks
      <4>2. n \notin L
        <5>1. n \in Int /\ m \in Int
          BY <2>2, <4>1 DEF Missiles
        <5> QED
          BY <2>1, <4>1, <5>1
      <4> QED
        BY <1>3, <2>2, <4>1, <4>2
    <3>2. CASE ~(Rank(m, hit) > 1)
      <4>1. Rank(m, hit) - 1 = 0
        BY <2>2, <3>2
      <4>2. Damage * (Rank(m, hit) - 1) = 0
        BY <1>0, <4>1
      <4>3. ~(hp[i] - Damage * (Rank(m, hit) - 1) <= 0)
        BY <4>2
      <4> QED
        BY <1>3, <2>2, <4>3
    <3> QED
      BY <3>1, <3>2
  <2>4. \A n \in L : n # m => n \in A
    <3> SUFFICES ASSUME NEW n \in L, n # m
                 PROVE  n \in A
      OBVIOUS
    <3>1. n \in hit /\ m < n
      BY <1>1, <2>1, <2>2 DEF Missiles
    <3>2. Rank(m, hit) < Rank(n, hit)
      BY <2>2, <3>1, Ranks
    <3>3. Rank(n, hit) - 1 \in Nat /\ Rank(m, hit) <= Rank(n, hit) - 1
      BY <1>3, <2>2, <3>1, <3>2
    <3>4. /\ Damage * Rank(m, hit) \in Nat /\ Damage * (Rank(n, hit) - 1) \in Nat
          /\ Damage * Rank(m, hit) <= Damage * (Rank(n, hit) - 1)
      BY <1>0, <2>2, <3>3, Scaled
    <3>5. hp[i] - Damage * (Rank(n, hit) - 1) <= 0
      BY <2>2, <3>4
    <3> QED
      BY <1>3, <3>1, <3>5
  <2>5. A \subseteq L
    <3> SUFFICES ASSUME NEW n \in A
                 PROVE  n \in L
      OBVIOUS
    <3>1. n \in hit /\ Rank(n, hit) \in Nat /\ Rank(n, hit) - 1 \in Nat
      BY <1>1, <1>3
    <3>2. /\ Damage * Rank(n, hit) \in Nat /\ Damage * (Rank(n, hit) - 1) \in Nat
          /\ Damage * (Rank(n, hit) - 1) <= Damage * Rank(n, hit)
      BY <1>0, <3>1, Scaled
    <3>3. hp[i] - Damage * (Rank(n, hit) - 1) <= 0
      BY <1>3, <3>1
    <3>4. hp[i] - Damage * Rank(n, hit) <= 0
      BY <3>2, <3>3
    <3> QED
      BY <1>3, <3>1, <3>4
  <2>6. L = A \cup {m}
    BY <2>1, <2>4, <2>5
  <2>7. Cardinality(L) = Cardinality(A) + 1
    BY <1>2, <2>3, <2>6, FS_AddElement
  <2> QED
    BY <1>1, <1>2, <1>4, <1>6, <2>7 DEF L, A
<1> QED
  BY <1>5, <1>6

-----------------------------------------------------------------------------
USE DEF standing, queues, tanks, missiles, record, history, Deactivated, RunDown

(* The types of the state, with the room for the waiting shots and the     *)
(* numbering that make a missile fit in.                                   *)
Typed == TypeOK /\ Numbered /\ Room /\ FromFirst

LEMMA TypedInit == Init => Typed
<1> SUFFICES ASSUME Init
             PROVE  Typed
  OBVIOUS
<1>1. MaxSlot \in Nat /\ MaxMissiles \in Nat /\ MaxJoins \in Nat
      /\ MaxPending \in Nat /\ MaxHp \in Nat /\ RespawnFrames \in Nat
  BY CombatAssumption
<1>2. TypeOK
  BY <1>1 DEF Init, TypeOK, Slots
<1>3. Total(shots) = 0
  BY TotalZero DEF Init
<1>4. Numbered /\ Room /\ FromFirst
  BY <1>1, <1>3 DEF Init, Numbered, Room, FromFirst, Missiles
<1> QED
  BY <1>2, <1>4 DEF Typed

LEMMA TypedStep ==
    ASSUME Typed, [Next]_vars
    PROVE  Typed'
<1>0. MaxSlot \in Nat /\ MaxMissiles \in Nat /\ MaxJoins \in Nat
      /\ MaxPending \in Nat /\ MaxHp \in Nat /\ RespawnFrames \in Nat
      /\ Damage \in Nat
  BY CombatAssumption
<1>t. TypeOK /\ Numbered /\ Room /\ FromFirst
  BY DEF Typed
<1>s. Total(shots) \in Nat /\ \A j \in Slots : shots[j] <= Total(shots)
  BY <1>t, TotalNat DEF TypeOK
<1>a. at \in Slots /\ (at < MaxSlot => at + 1 \in Slots) /\ 0 \in Slots
  BY <1>0, <1>t DEF TypeOK, Slots
<1>1. ASSUME NEW i \in Slots, Join(i) PROVE Typed'
  BY <1>t, <1>0, <1>1 DEF Join, Typed, TypeOK, Numbered, Room, FromFirst
<1>2. ASSUME NEW i \in Slots, Leave(i) PROVE Typed'
  BY <1>t, <1>0, <1>2 DEF Leave, Typed, TypeOK, Numbered, Room, FromFirst
<1>3. ASSUME NEW i \in Slots, EnterGame(i) PROVE Typed'
  BY <1>t, <1>0, <1>3 DEF EnterGame, Typed, TypeOK, Numbered, Room, FromFirst
<1>4. ASSUME NEW i \in Slots, ClickStart(i) PROVE Typed'
  BY <1>t, <1>0, <1>4 DEF ClickStart, Typed, TypeOK, Numbered, Room, FromFirst
<1>5. ASSUME NEW i \in Slots, NEW shot \in BOOLEAN, Input(i, shot) PROVE Typed'
  <2>1. TypeOK' /\ Numbered' /\ FromFirst'
    BY <1>t, <1>0, <1>5 DEF Input, TypeOK, Numbered, FromFirst
  <2>2. CASE shot
    <3>1. /\ shots' = [shots EXCEPT ![i] = shots[i] + 1] /\ shots[i] \in Nat
          /\ fired' = fired /\ fired + Total(shots) < MaxMissiles
      BY <1>t, <1>5, <2>2 DEF Input, TypeOK
    <3>2. Total(shots') = Total(shots) - shots[i] + (shots[i] + 1)
      <4>1. shots \in [Slots -> Nat] /\ shots[i] + 1 \in Nat
        BY <1>t, <3>1 DEF TypeOK
      <4>2. Total([shots EXCEPT ![i] = shots[i] + 1])
                = Total(shots) - shots[i] + (shots[i] + 1)
        BY <4>1, TotalExcept
      <4> QED
        BY <3>1, <4>2
    <3> QED
      BY <1>0, <1>s, <1>t, <2>1, <3>1, <3>2 DEF Typed, Room, TypeOK
  <2>3. CASE ~shot
    <3>1. shots' = shots /\ fired' = fired
      BY <1>t, <1>5, <2>3 DEF Input, TypeOK
    <3> QED
      BY <1>t, <2>1, <3>1 DEF Typed, Room
  <2> QED
    BY <2>2, <2>3
<1>6. ASSUME StartFrame PROVE Typed'
  BY <1>t, <1>0, <1>6 DEF StartFrame, Goto, Typed, TypeOK, Numbered, Room, FromFirst
<1>7. ASSUME SkipTank PROVE Typed'
  BY <1>t, <1>0, <1>a, <1>7
     DEF SkipTank, NextTank, Typed, TypeOK, Numbered, Room, FromFirst
<1>8. ASSUME Respawn PROVE Typed'
  <2>1. timer' \in [Slots -> 0 .. RespawnFrames]
    BY <1>t, <1>0, <1>a, <1>8 DEF Respawn, Dead, TypeOK
  <2>2. UNCHANGED <<stage, joins, connected, clientId, active, hp, score, queues,
                    missiles, view, history>>
    BY <1>8 DEF Respawn
  <2>3. pc' \in {"revive", "check", "fly"} /\ at' \in Slots /\ (pc' = "fly" => at' = 0)
    BY <1>t, <1>0, <1>a, <1>8 DEF Respawn, NextTank, Goto
  <2> QED
    BY <1>t, <2>1, <2>2, <2>3 DEF Typed, TypeOK, Numbered, Room, FromFirst
<1>b. ASSUME Revive PROVE Typed'
  <2>1. active' \in [Slots -> BOOLEAN]
    BY <1>t, <1>a, <1>b DEF Revive, TypeOK
  <2> QED
    BY <1>t, <1>0, <1>a, <1>b, <2>1
       DEF Revive, NextTank, Typed, TypeOK, Numbered, Room, FromFirst
<1>9. ASSUME BeginDrain PROVE Typed'
  BY <1>t, <1>0, <1>9
     DEF BeginDrain, Goto, Typed, TypeOK, Numbered, Room, FromFirst
<1>10. ASSUME ApplyInput PROVE Typed'
  <2> DEFINE Effect(hit) ==
                /\ flight' = Spent(hit)
                /\ hp' = [hp EXCEPT ![at] = HpAfter(at, hit)]
                /\ score' = [i \in Slots |-> score[i] + Reward *
                                Cardinality({m \in Lethal(at, hit) : owner[m] = i})]
                /\ IF Dies(at, hit)
                   THEN /\ active' = [active EXCEPT ![at] = FALSE]
                        /\ timer' = [timer EXCEPT ![at] = RespawnFrames]
                        /\ deaths' = deaths + 1
                   ELSE UNCHANGED <<active, timer, deaths>>
                /\ hits' = [m \in Missiles |->
                               IF m \in hit THEN hits[m] \cup {at} ELSE hits[m]]
                /\ crowded' = crowded + Cardinality(AlreadyDead(at, hit))
  <2>1. PICK hit \in SUBSET Dangerous(at) : Effect(hit)
    BY <1>10 DEF ApplyInput
  <2>2. hit \in SUBSET Missiles /\ \A m \in hit : flight[m] = "alive"
    BY DEF Dangerous
  <2>3. flight' \in [Missiles -> {"none", "alive", "dead", "erased"}]
        /\ \A m \in Missiles : /\ flight'[m] = "none" <=> flight[m] = "none"
                               /\ m \in hit => flight'[m] = "dead"
                               /\ m \notin hit => flight'[m] = flight[m]
    BY <1>t, <2>1, <2>2 DEF Spent, TypeOK
  <2>4. hits' \in [Missiles -> SUBSET Slots]
        /\ \A m \in Missiles : m \notin hit => hits'[m] = hits[m]
    BY <1>t, <1>a, <2>1 DEF TypeOK
  <2>5. hp' \in [Slots -> 0 .. MaxHp]
    <3>1. hp[at] \in 0 .. MaxHp /\ Cardinality(hit) \in Nat
      BY <1>t, <1>a, <2>2, MissilesFinite DEF TypeOK
    <3>2. Damage * Cardinality(hit) \in Nat
      BY <1>0, <3>1, Scaled
    <3>3. HpAfter(at, hit) \in 0 .. MaxHp
      BY <1>0, <3>1, <3>2 DEF HpAfter, Dies
    <3> QED
      BY <1>t, <2>1, <3>3 DEF TypeOK
  <2>6. score' \in [Slots -> Nat]
    <3>1. Lethal(at, hit) \in SUBSET Missiles
      BY <2>2 DEF Lethal
    <3>2. score \in [Slots -> Nat] /\ owner \in [Missiles -> Slots]
      BY <1>t DEF TypeOK
    <3> DEFINE L == Lethal(at, hit)
    <3>3. score' = [i \in Slots |-> score[i] + Reward *
                       Cardinality({m \in L : owner[m] = i})]
      BY <2>1
    <3>4. L \in SUBSET Missiles
      BY <3>1
    <3> HIDE DEF L
    <3> QED
      BY <3>2, <3>3, <3>4, TotalReward
  <2>7. active' \in [Slots -> BOOLEAN] /\ timer' \in [Slots -> 0 .. RespawnFrames]
        /\ deaths' \in Nat
    <3>1. active \in [Slots -> BOOLEAN] /\ timer \in [Slots -> 0 .. RespawnFrames]
          /\ deaths \in Nat
      BY <1>t DEF TypeOK
    <3>2. CASE Dies(at, hit)
      <4>1. /\ active' = [active EXCEPT ![at] = FALSE]
            /\ timer' = [timer EXCEPT ![at] = RespawnFrames]
            /\ deaths' = deaths + 1
        BY <2>1, <3>2
      <4> HIDE DEF Effect
      <4>2. RespawnFrames \in 0 .. RespawnFrames
        BY <1>0
      <4>3. active' \in [Slots -> BOOLEAN]
        BY <3>1, <4>1
      <4>4. timer' \in [Slots -> 0 .. RespawnFrames]
        BY <3>1, <4>1, <4>2
      <4>5. deaths' \in Nat
        BY <3>1, <4>1
      <4> QED
        BY <4>3, <4>4, <4>5
    <3>3. CASE ~Dies(at, hit)
      BY <2>1, <3>1, <3>3
    <3> QED
      BY <3>2, <3>3
  <2>8. crowded' \in Nat
    <3>1. AlreadyDead(at, hit) \in SUBSET Missiles
      BY <2>2 DEF AlreadyDead
    <3>2. Cardinality(AlreadyDead(at, hit)) \in Nat
      BY <3>1, MissilesFinite
    <3> QED
      BY <1>t, <2>1, <3>2 DEF TypeOK
  <2>9. moves' \in [Slots -> 0 .. MaxPending]
    BY <1>t, <1>0, <1>a, <1>10 DEF ApplyInput, TypeOK
  <2>10. UNCHANGED <<stage, joins, connected, clientId, shots, fired, owner, pc, at,
                     view, leftover, misjudged>>
    BY <1>10 DEF ApplyInput
  <2> HIDE DEF Effect
  <2>11. TypeOK'
    BY <1>t, <2>3, <2>4, <2>5, <2>6, <2>7, <2>8, <2>9, <2>10 DEF TypeOK
  <2>12. Numbered'
    BY <1>t, <2>2, <2>3, <2>4, <2>10 DEF Numbered, TypeOK
  <2>13. Room' /\ FromFirst'
    BY <1>t, <2>10 DEF Room, FromFirst
  <2> QED
    BY <2>11, <2>12, <2>13 DEF Typed
<1>11. ASSUME EndDrain PROVE Typed'
  BY <1>t, <1>0, <1>11 DEF EndDrain, Goto, Typed, TypeOK, Numbered, Room, FromFirst
<1>12. ASSUME FireMissile PROVE Typed'
  <2>1. /\ shots[at] \in Nat \ {0} /\ shots' = [shots EXCEPT ![at] = shots[at] - 1]
        /\ fired' = fired + 1 /\ fired \in Nat
    BY <1>t, <1>a, <1>12 DEF FireMissile, TypeOK
  <2>2. fired' \in Missiles
    BY <1>0, <1>s, <1>a, <1>t, <2>1 DEF Room, Missiles
  <2>3. Total(shots') = Total(shots) - shots[at] + (shots[at] - 1)
    <3>1. shots \in [Slots -> Nat]
      BY <1>t DEF TypeOK
    <3>a. shots[at] - 1 \in Nat
      BY <2>1
    <3>2. Total([shots EXCEPT ![at] = shots[at] - 1])
              = Total(shots) - shots[at] + (shots[at] - 1)
      BY <1>a, <3>1, <3>a, TotalExcept
    <3> QED
      BY <2>1, <3>2
  <2>4. Room'
    BY <1>0, <1>s, <1>t, <2>1, <2>3 DEF Room
  <2>5. shots' \in [Slots -> Nat] /\ fired' \in 0 .. MaxMissiles
    <3>1. shots \in [Slots -> Nat]
      BY <1>t DEF TypeOK
    <3>2. shots[at] - 1 \in Nat
      BY <2>1
    <3>3. shots' \in [Slots -> Nat]
      BY <2>1, <3>1, <3>2
    <3>4. fired' \in 0 .. MaxMissiles
      BY <2>2 DEF Missiles
    <3> QED
      BY <3>3, <3>4
  <2>6. TypeOK'
    BY <1>t, <1>a, <1>12, <2>2, <2>5 DEF FireMissile, TypeOK
  <2>7. Numbered'
    <3>1. hits' = hits /\ \A m \in Missiles :
             flight'[m] = IF m = fired' THEN "alive" ELSE flight[m]
      BY <1>t, <1>12, <2>2 DEF FireMissile, TypeOK
    <3>2. flight[fired'] = "none"
      BY <1>t, <2>1, <2>2 DEF Numbered
    <3> QED
      BY <1>t, <2>1, <2>2, <3>1, <3>2 DEF Numbered, Missiles
  <2>8. FromFirst'
    BY <1>t, <1>12 DEF FireMissile, FromFirst
  <2> QED
    BY <2>4, <2>6, <2>7, <2>8 DEF Typed
<1>13. ASSUME EndTurret PROVE Typed'
  BY <1>t, <1>0, <1>a, <1>13
     DEF EndTurret, NextTank, Typed, TypeOK, Numbered, Room, FromFirst
<1>14. ASSUME MoveMissiles PROVE Typed'
  BY <1>t, <1>0, <1>14
     DEF MoveMissiles, Spent, Goto, Typed, TypeOK, Numbered, Room, FromFirst
<1>15. ASSUME StartTick PROVE Typed'
  BY <1>t, <1>0, <1>15 DEF StartTick, Goto, Typed, TypeOK, Numbered, Room, FromFirst
<1>16. ASSUME TellOfMissiles PROVE Typed'
  <2>1. view' \in [Missiles -> [Slots -> {"none", "alive", "dead", "late"}]]
    <3>1. CASE connected[at]
      <4>1. \A m \in Missiles, i \in Slots :
               Shown(m, view[m][i]) \in {"none", "alive", "dead", "late"}
        BY <1>t DEF Shown, TypeOK
      <4> QED
        BY <1>t, <1>16, <3>1, <4>1 DEF TellOfMissiles, TypeOK
    <3>2. CASE ~connected[at]
      BY <1>t, <1>16, <3>2 DEF TellOfMissiles, TypeOK
    <3> QED
      BY <3>1, <3>2
  <2> QED
    BY <1>t, <1>0, <1>a, <1>16, <2>1
       DEF TellOfMissiles, NextTank, Typed, TypeOK, Numbered, Room, FromFirst
<1>c. ASSUME LookAtTank PROVE Typed'
  BY <1>t, <1>0, <1>c DEF LookAtTank, Goto, Typed, TypeOK, Numbered, Room, FromFirst
<1>d. ASSUME ForgetTank PROVE Typed'
  BY <1>t, <1>0, <1>d DEF ForgetTank, Goto, Typed, TypeOK, Numbered, Room, FromFirst
<1>17. ASSUME EraseMissiles PROVE Typed'
  <2>1. flight' \in [Missiles -> {"none", "alive", "dead", "erased"}]
        /\ \A m \in Missiles : /\ flight'[m] = "none" <=> flight[m] = "none"
                               /\ flight'[m] = "alive" => flight[m] = "alive"
    BY <1>t, <1>17 DEF EraseMissiles, TypeOK
  <2> QED
    BY <1>t, <1>17, <2>1
       DEF EraseMissiles, Goto, Typed, TypeOK, Numbered, Room, FromFirst
<1>18. ASSUME UNCHANGED vars PROVE Typed'
  BY <1>t, <1>18 DEF vars, Typed, TypeOK, Numbered, Room, FromFirst
<1> QED
  BY <1>1, <1>2, <1>3, <1>4, <1>5, <1>6, <1>7, <1>8, <1>9, <1>10, <1>11, <1>12,
     <1>13, <1>14, <1>15, <1>16, <1>17, <1>18, <1>b, <1>c, <1>d
     DEF Next, Main, Frame, Tick

-----------------------------------------------------------------------------
(* What an input does to what it hits. *)
Hit(hit) ==
    /\ flight' = Spent(hit)
    /\ hp' = [hp EXCEPT ![at] = HpAfter(at, hit)]
    /\ score' = [i \in Slots |-> score[i] + Reward *
                    Cardinality({m \in Lethal(at, hit) : owner[m] = i})]
    /\ deaths' = deaths + (IF Dies(at, hit) THEN 1 ELSE 0)
    /\ hits' = [m \in Missiles |->
                   IF m \in hit THEN hits[m] \cup {at} ELSE hits[m]]
    /\ crowded' = crowded + Cardinality(AlreadyDead(at, hit))

LEMMA Hits ==
    ASSUME TypeOK, Entered, ApplyInput
    PROVE  /\ at \in Slots /\ moves[at] > 0 /\ owner' = owner
           /\ \E hit \in SUBSET Missiles :
                 /\ Hit(hit)
                 /\ \A m \in hit : flight[m] = "alive" /\ owner[m] # at
<1>1. PICK hit \in SUBSET Dangerous(at) :
         /\ flight' = Spent(hit)
         /\ hp' = [hp EXCEPT ![at] = HpAfter(at, hit)]
         /\ score' = [i \in Slots |-> score[i] + Reward *
                         Cardinality({m \in Lethal(at, hit) : owner[m] = i})]
         /\ IF Dies(at, hit) THEN deaths' = deaths + 1 ELSE deaths' = deaths
         /\ hits' = [m \in Missiles |->
                        IF m \in hit THEN hits[m] \cup {at} ELSE hits[m]]
         /\ crowded' = crowded + Cardinality(AlreadyDead(at, hit))
  BY DEF ApplyInput
<1>2. hit \in SUBSET Missiles /\ \A m \in hit : flight[m] = "alive" /\ owner[m] # at
  <2>1. clientId[at] = at
    BY DEF ApplyInput, Entered, TypeOK
  <2> QED
    BY <2>1 DEF Dangerous
<1>3. deaths' = deaths + (IF Dies(at, hit) THEN 1 ELSE 0)
  BY <1>1 DEF TypeOK
<1>4. Hit(hit)
  BY <1>1, <1>3 DEF Hit
<1>5. at \in Slots /\ moves[at] > 0 /\ owner' = owner
  BY DEF ApplyInput, TypeOK
<1> QED
  BY <1>2, <1>4, <1>5

-----------------------------------------------------------------------------
(* A missile hits once. *)
LEMMA HitOnceStep ==
    ASSUME Typed, Typed', Entered, OneHitPerMissile, [Next]_vars
    PROVE  OneHitPerMissile'
<1>t. TypeOK /\ TypeOK' /\ Numbered
  BY DEF Typed
<1>1. ASSUME ApplyInput PROVE OneHitPerMissile'
  <2>1. PICK hit \in SUBSET Missiles :
           /\ Hit(hit)
           /\ \A m \in hit : flight[m] = "alive" /\ owner[m] # at
    BY <1>t, <1>1, Hits
  <2>2. at \in Slots /\ owner' = owner
    BY <1>t, <1>1, Hits
  <2> SUFFICES ASSUME NEW m \in Missiles
               PROVE  /\ Cardinality(hits'[m]) <= 1 /\ owner'[m] \notin hits'[m]
                      /\ hits'[m] # {} => flight'[m] \in {"dead", "erased"}
    BY DEF OneHitPerMissile
  <2>3. CASE m \in hit
    <3>1. hits[m] = {}
      BY <1>t, <2>1, <2>3 DEF Numbered
    <3>2. hits'[m] = {at} /\ flight'[m] = "dead"
      BY <2>1, <2>3, <3>1 DEF Hit, Spent
    <3>3. Cardinality({at}) = 1
      BY FS_Singleton
    <3> QED
      BY <2>1, <2>2, <2>3, <3>2, <3>3
  <2>4. CASE m \notin hit
    <3>1. hits'[m] = hits[m] /\ flight'[m] = flight[m]
      BY <2>1, <2>4 DEF Hit, Spent
    <3> QED
      BY <2>2, <3>1 DEF OneHitPerMissile
  <2> QED
    BY <2>3, <2>4
<1>2. ASSUME FireMissile PROVE OneHitPerMissile'
  <2>1. \A m \in Missiles : m # fired' => owner'[m] = owner[m] /\ flight'[m] = flight[m]
    BY <1>t, <1>2 DEF FireMissile, TypeOK
  <2>2. fired' \in Missiles => hits[fired'] = {}
    <3>1. fired' = fired + 1 /\ fired \in Nat
      BY <1>t, <1>2 DEF FireMissile, TypeOK
    <3> QED
      BY <1>t, <3>1 DEF Numbered, Missiles
  <2>3. hits' = hits
    BY <1>2 DEF FireMissile
  <2> SUFFICES ASSUME NEW m \in Missiles
               PROVE  /\ Cardinality(hits'[m]) <= 1 /\ owner'[m] \notin hits'[m]
                      /\ hits'[m] # {} => flight'[m] \in {"dead", "erased"}
    BY DEF OneHitPerMissile
  <2>4. CASE m = fired'
    BY <2>2, <2>3, <2>4, FS_EmptySet
  <2>5. CASE m # fired'
    BY <2>1, <2>3, <2>5 DEF OneHitPerMissile
  <2> QED
    BY <2>4, <2>5
<1>3. ASSUME MoveMissiles PROVE OneHitPerMissile'
  BY <1>t, <1>3 DEF MoveMissiles, Spent, OneHitPerMissile, TypeOK
<1>4. ASSUME EraseMissiles PROVE OneHitPerMissile'
  BY <1>t, <1>4 DEF EraseMissiles, OneHitPerMissile, TypeOK
<1>5. ASSUME UNCHANGED <<owner, flight, hits>> PROVE OneHitPerMissile'
  BY <1>5 DEF OneHitPerMissile
<1>6. ASSUME NEW i \in Slots, Main(i) PROVE UNCHANGED <<owner, flight, hits>>
  BY <1>6 DEF Main, Join, Leave, EnterGame, ClickStart, Input
<1>7. ASSUME StartFrame \/ SkipTank \/ Respawn \/ Revive \/ BeginDrain \/ EndDrain \/ EndTurret
             \/ StartTick \/ LookAtTank \/ ForgetTank \/ TellOfMissiles \/ UNCHANGED vars
      PROVE  UNCHANGED <<owner, flight, hits>>
  BY <1>7 DEF StartFrame, SkipTank, Respawn, Revive, BeginDrain, EndDrain, EndTurret,
     StartTick, LookAtTank, ForgetTank, TellOfMissiles, vars
<1> QED
  BY <1>1, <1>2, <1>3, <1>4, <1>5, <1>6, <1>7 DEF Next, Frame, Tick

-----------------------------------------------------------------------------
(* The hp of those who have entered. *)
Healthy == Entered /\ NeverWithoutHp

LEMMA HealthyStep ==
    ASSUME Typed, Typed', Healthy, [Next]_vars
    PROVE  Healthy'
<1>t. TypeOK /\ TypeOK' /\ Entered /\ NeverWithoutHp
  BY DEF Typed, Healthy
<1>c. /\ MaxHp \in Nat /\ Damage \in Nat \ {0} /\ MaxHp >= Damage
      /\ MaxHp % Damage = 0 /\ MaxHp # 0 /\ MaxHp \in Damage .. MaxHp
  BY CombatAssumption
<1>1. ASSUME NEW i \in Slots, Join(i) PROVE Healthy'
  BY <1>t, <1>1 DEF Join, Healthy, Entered, Players, NeverWithoutHp, TypeOK
<1>2. ASSUME NEW i \in Slots, Leave(i) PROVE Healthy'
  BY <1>t, <1>2 DEF Leave, Healthy, Entered, Players, NeverWithoutHp, TypeOK
<1>3. ASSUME NEW i \in Slots, EnterGame(i) PROVE Healthy'
  <2>1. /\ hp'[i] = MaxHp /\ clientId'[i] = i
        /\ \A j \in Slots : j # i => /\ hp'[j] = hp[j] /\ stage'[j] = stage[j]
                                      /\ clientId'[j] = clientId[j]
        /\ UNCHANGED <<moves, shots>>
    BY <1>t, <1>3 DEF EnterGame, TypeOK
  <2>2. Entered'
    BY <1>t, <1>c, <2>1 DEF Entered, Players
  <2>3. NeverWithoutHp'
    <3> SUFFICES ASSUME NEW j \in Slots,
                        stage'[j] \in {"menu", "play"} \/ hp'[j] # 0
                 PROVE  hp'[j] \in Damage .. MaxHp /\ hp'[j] % Damage = 0
      BY DEF NeverWithoutHp
    <3>1. CASE j = i
      BY <1>c, <2>1, <3>1
    <3>2. CASE j # i
      BY <1>t, <2>1, <3>2 DEF NeverWithoutHp
    <3> QED
      BY <3>1, <3>2
  <2> QED
    BY <2>2, <2>3 DEF Healthy
<1>4. ASSUME NEW i \in Slots, ClickStart(i) PROVE Healthy'
  <2>1. stage[i] = "menu" /\ hp[i] # 0
    BY <1>t, <1>c, <1>4 DEF ClickStart, NeverWithoutHp
  <2> QED
    BY <1>t, <1>4, <2>1 DEF ClickStart, Healthy, Entered, Players, NeverWithoutHp, TypeOK
<1>5. ASSUME NEW i \in Slots, NEW shot \in BOOLEAN, Input(i, shot) PROVE Healthy'
  BY <1>t, <1>5 DEF Input, Healthy, Entered, Players, NeverWithoutHp, TypeOK
<1>6. ASSUME ApplyInput PROVE Healthy'
  <2>1. PICK hit \in SUBSET Missiles : Hit(hit)
    BY <1>t, <1>6, Hits
  <2>2. /\ at \in Slots /\ moves[at] > 0
        /\ UNCHANGED <<stage, clientId, shots>>
        /\ moves' = [moves EXCEPT ![at] = @ - 1]
    BY <1>t, <1>6, Hits DEF ApplyInput
  <2>3. hp[at] # 0 /\ hp[at] \in Nat /\ hp[at] \in Damage .. MaxHp /\ hp[at] % Damage = 0
    BY <1>t, <2>2 DEF Entered, NeverWithoutHp, TypeOK
  <2>4. Cardinality(hit) \in Nat /\ Damage * Cardinality(hit) \in Nat
    BY <1>c, MissilesFinite, Scaled
  <2>5. HpAfter(at, hit) \in Damage .. MaxHp /\ HpAfter(at, hit) % Damage = 0
    <3>1. CASE Dies(at, hit)
      BY <1>c, <3>1 DEF HpAfter
    <3>2. CASE ~Dies(at, hit)
      <4> DEFINE left == hp[at] - Damage * Cardinality(hit)
      <4>1. left > 0
        BY <2>3, <2>4, <3>2 DEF Dies
      <4>2. left >= Damage /\ left % Damage = 0
        BY <1>c, <2>3, <2>4, <4>1, Whole
      <4>3. left \in Damage .. MaxHp
        BY <1>c, <2>3, <2>4, <4>2
      <4> QED
        BY <3>2, <4>2, <4>3 DEF HpAfter
    <3> QED
      BY <3>1, <3>2
  <2>6. /\ hp'[at] = HpAfter(at, hit)
        /\ \A j \in Slots : j # at => hp'[j] = hp[j] /\ moves'[j] = moves[j]
    BY <1>t, <2>1, <2>2 DEF Hit, TypeOK
  <2>7. hp'[at] \in Damage .. MaxHp /\ hp'[at] % Damage = 0 /\ hp'[at] # 0
    BY <1>c, <2>5, <2>6
  <2>8. Entered'
    BY <1>t, <2>2, <2>6, <2>7 DEF Entered, Players
  <2>9. NeverWithoutHp'
    <3> SUFFICES ASSUME NEW j \in Slots,
                        stage'[j] \in {"menu", "play"} \/ hp'[j] # 0
                 PROVE  hp'[j] \in Damage .. MaxHp /\ hp'[j] % Damage = 0
      BY DEF NeverWithoutHp
    <3>1. CASE j = at
      BY <2>7, <3>1
    <3>2. CASE j # at
      BY <1>t, <2>2, <2>6, <3>2 DEF NeverWithoutHp
    <3> QED
      BY <3>1, <3>2
  <2> QED
    BY <2>8, <2>9 DEF Healthy
<1>7. ASSUME FireMissile PROVE Healthy'
  <2>1. /\ at \in Slots /\ shots[at] > 0 /\ shots' = [shots EXCEPT ![at] = @ - 1]
        /\ UNCHANGED <<stage, clientId, moves, hp>>
    BY <1>t, <1>7 DEF FireMissile, TypeOK
  <2>2. \A j \in Slots : shots'[j] > 0 => shots[j] > 0
    BY <1>t, <2>1 DEF TypeOK
  <2> QED
    BY <1>t, <2>1, <2>2 DEF Healthy, Entered, Players, NeverWithoutHp
<1>8. ASSUME UNCHANGED <<stage, clientId, moves, shots, hp>> PROVE Healthy'
  BY <1>t, <1>8 DEF Healthy, Entered, Players, NeverWithoutHp
<1>9. ASSUME StartFrame \/ SkipTank \/ Respawn \/ Revive \/ BeginDrain \/ EndDrain
             \/ EndTurret \/ MoveMissiles \/ StartTick \/ LookAtTank \/ ForgetTank
             \/ TellOfMissiles \/ EraseMissiles \/ UNCHANGED vars
      PROVE  UNCHANGED <<stage, clientId, moves, shots, hp>>
  BY <1>9 DEF StartFrame, SkipTank, Respawn, Revive, BeginDrain, EndDrain, EndTurret,
     MoveMissiles, Spent, StartTick, LookAtTank, ForgetTank, TellOfMissiles,
     EraseMissiles, vars
<1> QED
  BY <1>1, <1>2, <1>3, <1>4, <1>5, <1>6, <1>7, <1>8, <1>9
     DEF Next, Main, Frame, Tick

-----------------------------------------------------------------------------
(* Whose tank is connected: between the tick's look and its act only those *)
(* who enter are misjudged.                                                *)
LEMMA PresentStep ==
    ASSUME Typed, Typed', Entered, Present, [Next]_vars
    PROVE  Present'
<1>t. TypeOK /\ TypeOK'
  BY DEF Typed
<1>1. ASSUME NEW i \in Slots, Join(i) PROVE Present'
  <2>1. /\ i \notin Players' /\ UNCHANGED <<misjudged, pc, at>>
        /\ \A j \in Slots : j # i => stage'[j] = stage[j] /\ connected'[j] = connected[j]
    BY <1>t, <1>1 DEF Join, Players, TypeOK
  <2> QED
    BY <2>1 DEF Present, Players
<1>2. ASSUME NEW i \in Slots, Leave(i) PROVE Present'
  <2>1. /\ i \notin Players' /\ UNCHANGED <<connected, pc, at>>
        /\ \A j \in Slots : j # i => stage'[j] = stage[j] /\ misjudged'[j] = misjudged[j]
    BY <1>t, <1>2 DEF Leave, Players, TypeOK
  <2> QED
    BY <2>1 DEF Present, Players
<1>3. ASSUME NEW i \in Slots, EnterGame(i) PROVE Present'
  <2>1. /\ connected'[i] /\ UNCHANGED <<pc, at>>
        /\ misjudged'[i] <=> pc = "forget" /\ at = i
        /\ \A j \in Slots : j # i => /\ stage'[j] = stage[j]
                                      /\ connected'[j] = connected[j]
                                      /\ misjudged'[j] = misjudged[j]
    <3> DEFINE seen == pc = "forget" /\ at = i
    <3>1. /\ connected' = [connected EXCEPT ![i] = TRUE]
          /\ misjudged' = [misjudged EXCEPT ![i] = seen]
          /\ UNCHANGED <<pc, at>>
      BY <1>3 DEF EnterGame
    <3>2. /\ connected \in [Slots -> BOOLEAN] /\ misjudged \in [Slots -> BOOLEAN]
          /\ \A j \in Slots : j # i => stage'[j] = stage[j]
      BY <1>t, <1>3 DEF EnterGame, TypeOK
    <3>3. misjudged'[i] = seen /\ connected'[i]
      <4> HIDE DEF seen
      <4> QED
        BY <3>1, <3>2, Zenon
    <3> QED
      BY <3>1, <3>2, <3>3
  <2> QED
    BY <2>1 DEF Present, Players
<1>4. ASSUME NEW i \in Slots, ClickStart(i) PROVE Present'
  <2>1. Players' = Players /\ UNCHANGED <<connected, misjudged, pc, at>>
    BY <1>t, <1>4 DEF ClickStart, Players, TypeOK
  <2> QED
    BY <2>1 DEF Present
<1>5. ASSUME LookAtTank PROVE Present'
  <2>1. /\ at \in Slots /\ UNCHANGED <<stage, connected, misjudged, at>>
        /\ pc' = IF stage[clientId[at]] = "empty" THEN "forget" ELSE "tell"
    BY <1>t, <1>5 DEF LookAtTank, Goto, TypeOK
  <2>2. at \in Players => pc' = "tell"
    BY <2>1 DEF Entered, Players
  <2> QED
    BY <2>1, <2>2 DEF Present, Players
<1>6. ASSUME ForgetTank PROVE Present'
  <2>1. /\ at \in Slots /\ pc = "forget" /\ pc' = "tell"
        /\ UNCHANGED <<stage, misjudged, at>>
        /\ \A j \in Slots : j # at => connected'[j] = connected[j]
    BY <1>t, <1>6 DEF ForgetTank, Goto, TypeOK
  <2> QED
    BY <2>1 DEF Present, Players
<1>7. ASSUME UNCHANGED <<stage, connected, misjudged>>,
             pc' # "forget" \/ UNCHANGED <<pc, at>>
      PROVE  Present'
  BY <1>7 DEF Present, Players
<1>8. ASSUME NEW i \in Slots, NEW shot \in BOOLEAN, Input(i, shot)
      PROVE  UNCHANGED <<stage, connected, misjudged, pc, at>>
  BY <1>8 DEF Input
<1>9. ASSUME ApplyInput \/ FireMissile \/ UNCHANGED vars
      PROVE  UNCHANGED <<stage, connected, misjudged, pc, at>>
  BY <1>9 DEF ApplyInput, FireMissile, vars
<1>10. ASSUME StartFrame \/ SkipTank \/ Respawn \/ Revive \/ BeginDrain \/ EndDrain
              \/ EndTurret \/ MoveMissiles \/ StartTick \/ TellOfMissiles
              \/ EraseMissiles
       PROVE  UNCHANGED <<stage, connected, misjudged>> /\ pc' # "forget"
  BY <1>10 DEF StartFrame, SkipTank, Respawn, Revive, BeginDrain, EndDrain, EndTurret,
     MoveMissiles, Spent, StartTick, TellOfMissiles, EraseMissiles, Goto, NextTank
<1> QED
  BY <1>1, <1>2, <1>3, <1>4, <1>5, <1>6, <1>7, <1>8, <1>9, <1>10
     DEF Next, Main, Frame, Tick

-----------------------------------------------------------------------------
(* A tick reaches every client. *)
LEMMA InTurnStep ==
    ASSUME Typed, Typed', Present, InTurn, [Next]_vars
    PROVE  InTurn'
<1>t. TypeOK /\ TypeOK' /\ FromFirst
  BY DEF Typed
<1>0. MaxSlot \in Nat
  BY CombatAssumption
<1>1. ASSUME NEW i \in Slots, Join(i) \/ ClickStart(i)
      PROVE  InTurn'
  <2>1. UNCHANGED <<view, flight, misjudged, pc, at>>
    BY <1>1 DEF Join, ClickStart
  <2>2. Players \subseteq Players'
    BY <1>t, <1>1 DEF Join, ClickStart, Players, TypeOK
  <2> QED
    BY <2>1, <2>2 DEF InTurn
<1>14. ASSUME NEW i \in Slots, EnterGame(i) PROVE InTurn'
  <2>1. /\ UNCHANGED <<view, flight, pc, at>> /\ i \notin Players
        /\ \A j \in Slots : j # i => misjudged'[j] = misjudged[j]
    BY <1>t, <1>14 DEF EnterGame, Players, TypeOK
  <2>2. Players \subseteq Players'
    BY <1>t, <1>14 DEF EnterGame, Players, TypeOK
  <2>3. \A m \in Missiles : view[m][i] = "none"
    BY <2>1 DEF InTurn, Players
  <2> QED
    BY <2>1, <2>2, <2>3 DEF InTurn
<1>2. ASSUME NEW i \in Slots, Leave(i) PROVE InTurn'
  <2>1. \A m \in Missiles : /\ view'[m][i] = "none"
                            /\ \A j \in Slots : j # i => view'[m][j] = view[m][j]
    BY <1>t, <1>2 DEF Leave, TypeOK
  <2>2. \A j \in Slots : j # i => stage'[j] = stage[j] /\ misjudged'[j] = misjudged[j]
    BY <1>t, <1>2 DEF Leave, TypeOK
  <2>3. UNCHANGED <<flight, pc, at>>
    BY <1>2 DEF Leave
  <2> SUFFICES ASSUME NEW m \in Missiles, NEW j \in Slots, view'[m][j] # "none"
               PROVE  /\ j \in Players'
                      /\ view'[m][j] = "alive" /\ flight'[m] = "dead" /\ ~misjudged'[j]
                            => /\ pc # "erase"
                               /\ pc \in {"tick", "forget", "tell"} => j >= at
    BY <2>3 DEF InTurn
  <2>4. j # i /\ view'[m][j] = view[m][j]
    BY <2>1
  <2>5. j \in Players'
    BY <2>2, <2>4 DEF InTurn, Players
  <2>6. flight'[m] = flight[m] /\ misjudged'[j] = misjudged[j]
    BY <2>2, <2>3, <2>4
  <2>7. view[m][j] = "alive" /\ flight[m] = "dead" /\ ~misjudged[j]
            => pc # "erase" /\ (pc \in {"tick", "forget", "tell"} => j >= at)
    BY DEF InTurn
  <2> QED
    BY <2>4, <2>5, <2>6, <2>7
<1>3. ASSUME ApplyInput PROVE InTurn'
  <2>1. pc' = "drain" /\ UNCHANGED <<stage, view>>
    BY <1>3 DEF ApplyInput
  <2> QED
    BY <2>1 DEF InTurn, Players
<1>4. ASSUME FireMissile PROVE InTurn'
  <2>1. pc' = "turret" /\ UNCHANGED <<stage, view>>
    BY <1>4 DEF FireMissile
  <2> QED
    BY <2>1 DEF InTurn, Players
<1>5. ASSUME MoveMissiles PROVE InTurn'
  <2>1. pc' = "idle" /\ UNCHANGED <<stage, view>>
    BY <1>5 DEF MoveMissiles, Spent, Goto
  <2> QED
    BY <2>1 DEF InTurn, Players
<1>6. ASSUME EraseMissiles PROVE InTurn'
  <2>1. pc' = "idle" /\ UNCHANGED <<stage, view>>
    BY <1>6 DEF EraseMissiles, Goto
  <2> QED
    BY <2>1 DEF InTurn, Players
<1>7. ASSUME StartTick PROVE InTurn'
  <2>1. pc' = "tick" /\ at' = 0 /\ UNCHANGED <<stage, view, flight, misjudged>>
    BY <1>t, <1>7 DEF StartTick, Goto, FromFirst
  <2>2. \A i \in Slots : i >= at'
    BY <1>0, <2>1 DEF Slots
  <2> QED
    BY <2>1, <2>2 DEF InTurn, Players
<1>8. ASSUME TellOfMissiles PROVE InTurn'
  <2>1. /\ UNCHANGED <<stage, flight, misjudged>> /\ pc = "tell" /\ at \in Slots
        /\ IF at < MaxSlot THEN at' = at + 1 /\ pc' = "tick" ELSE pc' = "erase"
    BY <1>t, <1>8 DEF TellOfMissiles, NextTank, TypeOK
  <2> SUFFICES ASSUME NEW m \in Missiles, NEW i \in Slots
               PROVE  /\ view'[m][i] # "none" => i \in Players
                      /\ view'[m][i] = "alive" /\ flight[m] = "dead" /\ ~misjudged[i]
                            => at < MaxSlot /\ i >= at + 1
    BY <2>1 DEF InTurn, Players
  <2>2. CASE connected[at] /\ i \in Players
    <3>1. view'[m][i] = Shown(m, view[m][i])
      BY <1>8, <2>2 DEF TellOfMissiles
    <3>2. flight[m] = "dead" => view'[m][i] # "alive"
      BY <3>1 DEF Shown
    <3> QED
      BY <2>2, <3>2
  <2>3. CASE connected[at] /\ i \notin Players
    <3>1. view'[m][i] = view[m][i]
      BY <1>8, <2>3 DEF TellOfMissiles
    <3>2. view[m][i] = "none"
      BY <2>3 DEF InTurn
    <3> QED
      BY <3>1, <3>2
  <2>4. CASE ~connected[at]
    <3>1. view' = view
      BY <1>8, <2>4 DEF TellOfMissiles
    <3>2. view[m][i] # "none" => i \in Players
      BY DEF InTurn
    <3>3. view[m][i] # "none" /\ ~misjudged[i] => i # at
      BY <2>4, <3>2 DEF Present
    <3>4. view[m][i] = "alive" /\ flight[m] = "dead" /\ ~misjudged[i] => i >= at
      BY <2>1 DEF InTurn, Players
    <3>5. view[m][i] = "alive" /\ flight[m] = "dead" /\ ~misjudged[i]
              => at < MaxSlot /\ i >= at + 1
      BY <1>0, <2>1, <3>3, <3>4 DEF Slots
    <3> QED
      BY <3>1, <3>2, <3>5
  <2> QED
    BY <2>2, <2>3, <2>4
<1>13. ASSUME LookAtTank \/ ForgetTank PROVE InTurn'
  <2>1. /\ UNCHANGED <<stage, view, flight, misjudged, at>>
        /\ pc \in {"tick", "forget"} /\ pc' \in {"forget", "tell"}
    BY <1>13 DEF LookAtTank, ForgetTank, Goto
  <2> QED
    BY <2>1 DEF InTurn, Players
<1>9. ASSUME StartFrame \/ SkipTank \/ Respawn \/ Revive \/ BeginDrain \/ EndDrain
             \/ EndTurret
      PROVE  InTurn'
  <2>1. UNCHANGED <<stage, view>> /\ pc' \notin {"erase", "tick", "forget", "tell"}
    BY <1>9 DEF StartFrame, SkipTank, Respawn, Revive, BeginDrain, EndDrain, EndTurret,
       Goto, NextTank
  <2> QED
    BY <2>1 DEF InTurn, Players
<1>10. ASSUME UNCHANGED <<stage, view, flight, misjudged, pc, at>> PROVE InTurn'
  BY <1>10 DEF InTurn, Players
<1>11. ASSUME NEW i \in Slots, NEW shot \in BOOLEAN, Input(i, shot)
       PROVE  UNCHANGED <<stage, view, flight, misjudged, pc, at>>
  BY <1>11 DEF Input
<1>12. ASSUME UNCHANGED vars
       PROVE  UNCHANGED <<stage, view, flight, misjudged, pc, at>>
  BY <1>12 DEF vars
<1> QED
  BY <1>1, <1>2, <1>3, <1>4, <1>5, <1>6, <1>7, <1>8, <1>9, <1>10, <1>11, <1>12,
     <1>13, <1>14
     DEF Next, Main, Frame, Tick

(* What EndIsShown says of a step. *)
LEMMA EndShownStep ==
    ASSUME Typed, Entered, InTurn, [Next]_vars,
           NEW m \in Missiles, NEW i \in Slots,
           flight'[m] = "erased", flight[m] # "erased", view[m][i] = "alive"
    PROVE  stage[owner[m]] = "empty" \/ misjudged[i]
<1>t. TypeOK
  BY DEF Typed
<1>1. CASE EraseMissiles
  <2>1. pc = "erase"
    BY <1>1 DEF EraseMissiles, Goto
  <2>2. flight[m] # "dead" \/ misjudged[i]
    BY <2>1 DEF InTurn
  <2> QED
    BY <1>1, <2>2 DEF EraseMissiles
<1>2. CASE ApplyInput
  <2>1. PICK hit \in SUBSET Missiles : Hit(hit)
    BY <1>t, <1>2, Hits
  <2> QED
    BY <2>1 DEF Hit, Spent
<1>3. CASE FireMissile
  <2>1. flight'[m] \in {"alive", flight[m]}
    BY <1>t, <1>3 DEF FireMissile, TypeOK
  <2> QED
    BY <2>1
<1>4. CASE MoveMissiles
  <2>1. flight'[m] \in {"dead", flight[m]}
    BY <1>4 DEF MoveMissiles, Spent
  <2> QED
    BY <2>1
<1>5. CASE UNCHANGED flight
  BY <1>5
<1>6. ASSUME NEW j \in Slots, Main(j) PROVE UNCHANGED flight
  BY <1>6 DEF Main, Join, Leave, EnterGame, ClickStart, Input
<1>7. ASSUME StartFrame \/ SkipTank \/ Respawn \/ Revive \/ BeginDrain \/ EndDrain \/ EndTurret
             \/ StartTick \/ LookAtTank \/ ForgetTank \/ TellOfMissiles \/ UNCHANGED vars
      PROVE  UNCHANGED flight
  BY <1>7 DEF StartFrame, SkipTank, Respawn, Revive, BeginDrain, EndDrain, EndTurret,
     StartTick, LookAtTank, ForgetTank, TellOfMissiles, vars
<1> QED
  BY <1>1, <1>2, <1>3, <1>4, <1>5, <1>6, <1>7 DEF Next, Frame, Tick

-----------------------------------------------------------------------------
(* In the menu. *)
Out(i) == /\ ~active[i] /\ timer[i] = 0 /\ moves[i] = 0
          /\ ~(pc = "revive" /\ at = i)

LEMMA MenuStep ==
    ASSUME Typed, Typed', MenuInactive, [Next]_vars
    PROVE  MenuInactive'
<1>t. TypeOK /\ TypeOK'
  BY DEF Typed
<1>1. ASSUME NEW i \in Slots, Join(i) PROVE MenuInactive'
  BY <1>t, <1>1 DEF Join, MenuInactive, TypeOK
<1>2. ASSUME NEW i \in Slots, Leave(i) PROVE MenuInactive'
  BY <1>t, <1>2 DEF Leave, MenuInactive, TypeOK
<1>3. ASSUME NEW i \in Slots, EnterGame(i) PROVE MenuInactive'
  <2>1. /\ active'[i] = FALSE
        /\ ~leftover'[i] => /\ ~(timer[i] > 0) /\ ~(moves[i] > 0)
                            /\ ~(pc = "revive" /\ at = i)
        /\ UNCHANGED <<timer, moves, pc, at>>
        /\ timer[i] \in Nat /\ moves[i] \in Nat
    <3> DEFINE left == \/ timer[i] > 0 \/ moves[i] > 0
                       \/ pc = "revive" /\ at = i
    <3>1. active' = [active EXCEPT ![i] = FALSE] /\ UNCHANGED <<timer, moves, pc, at>>
          /\ leftover' = [leftover EXCEPT ![i] = left]
      BY <1>3 DEF EnterGame
    <3>2. active \in [Slots -> BOOLEAN] /\ leftover \in [Slots -> BOOLEAN]
          /\ timer[i] \in Nat /\ moves[i] \in Nat
      BY <1>t DEF TypeOK
    <3>3. leftover'[i] = left
      <4> HIDE DEF left
      <4> QED
        BY <3>1, <3>2, Zenon
    <3>4. active'[i] = FALSE
      BY <3>1, <3>2
    <3> QED
      BY <3>1, <3>2, <3>3, <3>4
  <2>2. \A j \in Slots : j # i => /\ stage'[j] = stage[j] /\ active'[j] = active[j]
                                  /\ leftover'[j] = leftover[j]
    BY <1>t, <1>3 DEF EnterGame, TypeOK
  <2>3. ~leftover'[i] => Out(i)'
    BY <2>1 DEF Out
  <2> SUFFICES ASSUME NEW j \in Slots, stage'[j] = "menu", ~leftover'[j]
               PROVE  Out(j)'
    BY DEF MenuInactive, Out
  <2>4. CASE j = i
    BY <2>3, <2>4
  <2>5. CASE j # i
    BY <2>1, <2>2, <2>5 DEF MenuInactive, Out
  <2> QED
    BY <2>4, <2>5
<1>4. ASSUME NEW i \in Slots, ClickStart(i) PROVE MenuInactive'
  BY <1>t, <1>4 DEF ClickStart, MenuInactive, TypeOK
<1>5. ASSUME NEW i \in Slots, NEW shot \in BOOLEAN, Input(i, shot)
      PROVE  MenuInactive'
  BY <1>t, <1>5 DEF Input, MenuInactive, TypeOK
<1>6. ASSUME Respawn PROVE MenuInactive'
  <2>1. /\ at \in Slots /\ Dead(at) /\ UNCHANGED <<stage, active, moves, leftover>>
        /\ \A j \in Slots : j # at => timer'[j] = timer[j]
        /\ pc' = "revive" => at' = at
    BY <1>t, <1>6 DEF Respawn, NextTank, Goto, TypeOK
  <2> SUFFICES ASSUME NEW j \in Slots, stage'[j] = "menu", ~leftover'[j]
               PROVE  Out(j)'
    BY DEF MenuInactive, Out
  <2>2. j # at
    BY <1>t, <2>1 DEF MenuInactive, Dead, TypeOK
  <2> QED
    BY <2>1, <2>2 DEF MenuInactive, Out
<1>10. ASSUME Revive PROVE MenuInactive'
  <2>1. /\ at \in Slots /\ pc = "revive" /\ pc' # "revive"
        /\ UNCHANGED <<stage, timer, moves, leftover>>
        /\ \A j \in Slots : j # at => active'[j] = active[j]
    BY <1>t, <1>10 DEF Revive, NextTank, TypeOK
  <2> SUFFICES ASSUME NEW j \in Slots, stage'[j] = "menu", ~leftover'[j]
               PROVE  Out(j)'
    BY DEF MenuInactive, Out
  <2>2. j # at
    BY <2>1 DEF MenuInactive
  <2> QED
    BY <2>1, <2>2 DEF MenuInactive, Out
<1>7. ASSUME ApplyInput PROVE MenuInactive'
  <2>1. /\ at \in Slots /\ moves[at] > 0 /\ UNCHANGED <<stage, leftover, pc, at>>
        /\ \A j \in Slots : j # at => /\ active'[j] = active[j]
                                      /\ timer'[j] = timer[j] /\ moves'[j] = moves[j]
    BY <1>t, <1>7 DEF ApplyInput, TypeOK
  <2> SUFFICES ASSUME NEW j \in Slots, stage'[j] = "menu", ~leftover'[j]
               PROVE  Out(j)'
    BY DEF MenuInactive, Out
  <2>2. j # at
    BY <2>1 DEF MenuInactive
  <2> QED
    BY <2>1, <2>2 DEF MenuInactive, Out
<1>8. ASSUME UNCHANGED <<stage, active, timer, moves, leftover>>,
             pc' # "revive" \/ UNCHANGED <<pc, at>>
      PROVE  MenuInactive'
  BY <1>8 DEF MenuInactive
<1>9. ASSUME StartFrame \/ SkipTank \/ BeginDrain \/ EndDrain \/ EndTurret
             \/ MoveMissiles \/ StartTick \/ LookAtTank \/ ForgetTank
             \/ TellOfMissiles \/ EraseMissiles
      PROVE  UNCHANGED <<stage, active, timer, moves, leftover>> /\ pc' # "revive"
  BY <1>9 DEF StartFrame, SkipTank, BeginDrain, EndDrain, EndTurret, MoveMissiles,
     Spent, StartTick, LookAtTank, ForgetTank, TellOfMissiles, EraseMissiles, Goto,
     NextTank
<1>11. ASSUME FireMissile \/ UNCHANGED vars
       PROVE  UNCHANGED <<stage, active, timer, moves, leftover, pc, at>>
  BY <1>11 DEF FireMissile, vars
<1> QED
  BY <1>1, <1>2, <1>3, <1>4, <1>5, <1>6, <1>7, <1>8, <1>9, <1>10, <1>11
     DEF Next, Main, Frame, Tick

-----------------------------------------------------------------------------
(* Rewards. *)
LEMMA RewardStep ==
    ASSUME Typed, Healthy, DeathsRewarded, [Next]_vars
    PROVE  DeathsRewarded'
<1>t. TypeOK /\ Entered
  BY DEF Typed, Healthy
<1>1. ASSUME ApplyInput PROVE DeathsRewarded'
  <2>1. PICK hit \in SUBSET Missiles : Hit(hit)
    BY <1>t, <1>1, Hits
  <2>2. at \in Slots /\ moves[at] > 0
    BY <1>t, <1>1, Hits
  <2>3. hp[at] \in Nat /\ hp[at] > 0
    BY <1>t, <2>2 DEF Entered, TypeOK
  <2> DEFINE killed == IF Dies(at, hit) THEN 1 ELSE 0
             late == Cardinality(AlreadyDead(at, hit))
  <2>4. /\ Lethal(at, hit) \in SUBSET Missiles /\ late \in Nat
        /\ Cardinality(Lethal(at, hit)) = late + killed
    BY <2>3, OneDeath
  <2>5. score' = [i \in Slots |-> score[i] + Reward *
                    Cardinality({m \in Lethal(at, hit) : owner[m] = i})]
    BY <2>1 DEF Hit
  <2>6. score \in [Slots -> Nat] /\ owner \in [Missiles -> Slots]
        /\ deaths \in Nat /\ crowded \in Nat
    BY <1>t DEF TypeOK
  <2>7. Total(score') = Total(score) + Reward * Cardinality(Lethal(at, hit))
    BY <2>4, <2>5, <2>6, TotalReward
  <2>8. deaths' = deaths + killed /\ crowded' = crowded + late
    BY <2>1 DEF Hit
  <2>9. Total(score) = 10 * (deaths + crowded)
    BY DEF DeathsRewarded, Reward
  <2>10. killed \in Nat
    OBVIOUS
  <2> HIDE DEF killed, late
  <2>11. Total(score') = 10 * (deaths' + crowded')
    BY <2>4, <2>6, <2>7, <2>8, <2>9, <2>10 DEF Reward
  <2> QED
    BY <2>11 DEF DeathsRewarded, Reward
<1>2. ASSUME UNCHANGED <<score, deaths, crowded>> PROVE DeathsRewarded'
  BY <1>2 DEF DeathsRewarded
<1>3. ASSUME NEW i \in Slots, Main(i) PROVE UNCHANGED <<score, deaths, crowded>>
  BY <1>3 DEF Main, Join, Leave, EnterGame, ClickStart, Input
<1>4. ASSUME StartFrame \/ SkipTank \/ Respawn \/ Revive \/ BeginDrain \/ EndDrain \/ EndTurret
             \/ FireMissile \/ MoveMissiles \/ StartTick \/ LookAtTank
             \/ ForgetTank \/ TellOfMissiles \/ EraseMissiles \/ UNCHANGED vars
      PROVE  UNCHANGED <<score, deaths, crowded>>
  BY <1>4 DEF StartFrame, SkipTank, Respawn, Revive, BeginDrain, EndDrain, EndTurret,
     FireMissile, MoveMissiles, Spent, StartTick, LookAtTank, ForgetTank,
     TellOfMissiles, EraseMissiles, vars
<1> QED
  BY <1>1, <1>2, <1>3, <1>4 DEF Next, Frame, Tick

-----------------------------------------------------------------------------
(* The inductive invariant: its parts, each from the ones before. *)
Kept == /\ Typed /\ OneHitPerMissile /\ Healthy /\ Present /\ InTurn
        /\ MenuInactive /\ DeathsRewarded

LEMMA KeptInit == Init => Kept
<1> SUFFICES ASSUME Init
             PROVE  Kept
  OBVIOUS
<1>1. Typed
  BY TypedInit
<1>2. OneHitPerMissile
  BY FS_EmptySet DEF Init, OneHitPerMissile
<1>3. Healthy /\ Present /\ InTurn /\ MenuInactive
  BY DEF Init, Healthy, Entered, Players, Present, NeverWithoutHp, InTurn, MenuInactive
<1>4. DeathsRewarded
  <2>1. Total(score) = 0 /\ deaths = 0 /\ crowded = 0
    BY TotalZero DEF Init
  <2> QED
    BY <2>1 DEF DeathsRewarded, Reward
<1> QED
  BY <1>1, <1>2, <1>3, <1>4 DEF Kept

LEMMA KeptStep == Kept /\ [Next]_vars => Kept'
<1> SUFFICES ASSUME Kept, [Next]_vars
             PROVE  Kept'
  OBVIOUS
<1>1. /\ Typed /\ OneHitPerMissile /\ Healthy /\ Entered /\ Present /\ InTurn
      /\ MenuInactive /\ DeathsRewarded
  BY DEF Kept, Healthy
<1>2. Typed'
  BY <1>1, TypedStep
<1>3. OneHitPerMissile'
  BY <1>1, <1>2, HitOnceStep
<1>4. Healthy'
  BY <1>1, <1>2, HealthyStep
<1>8. Present'
  BY <1>1, <1>2, PresentStep
<1>5. InTurn'
  BY <1>1, <1>2, InTurnStep
<1>6. MenuInactive'
  BY <1>1, <1>2, MenuStep
<1>7. DeathsRewarded'
  BY <1>1, RewardStep
<1> QED
  BY <1>2, <1>3, <1>4, <1>5, <1>6, <1>7, <1>8 DEF Kept

LEMMA AlwaysKept == Spec => []Kept
  BY KeptInit, KeptStep, PTL DEF Spec

(* The state of the game stays in shape: missiles are numbered in order    *)
(* and hit once, a client that has entered has its tank, and a tick has    *)
(* told every client of every dead missile it knows to be alive before it  *)
(* erases them - but for those who enter between the tick's look at their  *)
(* session and what it does about it (main.cpp:66-220).                    *)
THEOREM CombatKept == Spec => []CombatInv
<1>1. Kept => CombatInv
  BY DEF Kept, Typed, Healthy, CombatInv
<1> QED
  BY <1>1, AlwaysKept, PTL

(* Every death is rewarded exactly once, and so is every missile that hits *)
(* the tank in the same input after the deadly one (main.cpp:114-133),     *)
(* for any number of tanks and of missiles in an input.                    *)
THEOREM RewardsAddUp == Spec => []DeathsRewarded
<1>1. Kept => DeathsRewarded
  BY DEF Kept
<1> QED
  BY <1>1, AlwaysKept, PTL

(* An entered tank always has hp, a multiple of the damage                 *)
(* (main.cpp:114-133).                                                     *)
THEOREM AlwaysHp == Spec => []NeverWithoutHp
<1>1. Kept => NeverWithoutHp
  BY DEF Kept, Healthy
<1> QED
  BY <1>1, AlwaysKept, PTL

(* A tank in the menu is out of the game unless the client before left it  *)
(* respawning or with inputs (process_packet.cpp:69).                      *)
THEOREM OutInTheMenu == Spec => []MenuInactive
<1>1. Kept => MenuInactive
  BY DEF Kept
<1> QED
  BY <1>1, AlwaysKept, PTL

(* A missile that a client was shown alive is erased only when its owner   *)
(* has left, the client was told of its end, or the client has entered     *)
(* between the tick's look and its act (main.cpp:192-218).                 *)
THEOREM EndsAreShown == Spec => EndIsShown
<1>1. Kept /\ [Next]_vars =>
        [\A m \in Missiles, i \in Slots :
            flight'[m] = "erased" /\ flight[m] # "erased" /\ view[m][i] = "alive"
                => stage[owner[m]] = "empty" \/ misjudged[i]]_vars
  BY EndShownStep DEF Kept, Healthy
<1> QED
  BY <1>1, AlwaysKept, PTL DEF Spec, EndIsShown

=============================================================================
