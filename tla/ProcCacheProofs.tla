-------------------------- MODULE ProcCacheProofs --------------------------
(***************************************************************************)
(* Proofs about the process cache for every number of pids, entries and    *)
(* tasks: the counter is the length of the list, marks and links of        *)
(* entries are right, and entries leave for the reasons given.             *)
(***************************************************************************)
EXTENDS ProcCache, FiniteSetTheorems, SequenceTheorems, WellFoundedInduction, TLAPS

-----------------------------------------------------------------------------
(* Places of a list are numbers, and a set of them is read in order.       *)

Rank(K, n) == Cardinality({k \in K : k <= n})

(* A set of natural numbers has a least one.                               *)
LEMMA LeastNat ==
    ASSUME NEW T \in SUBSET Nat, T # {}
    PROVE  \E i \in T : \A j \in T : i <= j
<1> DEFINE R == OpToRel(<, Nat)
<1>1. \A i, j \in Nat : j < i => <<j, i>> \in R
  BY DEF OpToRel
<1>2. IsWellFoundedOn(R, Nat)
  BY NatLessThanWellFounded
<1> HIDE DEF R
<1>3. PICK i \in T : \A j \in T : ~(<<j, i>> \in R)
  BY <1>2, WFMin
<1>4. ASSUME NEW j \in T PROVE i <= j
  <2>1. i \in Nat /\ j \in Nat
    OBVIOUS
  <2>2. ~(j < i)
    BY <1>1, <1>3, <2>1, Zenon
  <2> QED
    BY <2>1, <2>2
<1> QED
  BY <1>4

(* How the rank grows from one place to the next.                          *)
LEMMA RankSteps ==
    ASSUME NEW N \in Nat, NEW K \in SUBSET (1..N)
    PROVE  /\ IsFiniteSet(K) /\ Cardinality(K) \in Nat
           /\ Rank(K, 0) = 0 /\ Rank(K, N) = Cardinality(K)
           /\ \A n \in Nat : Rank(K, n) \in Nat
           /\ \A n \in Nat : Rank(K, n + 1) = IF n + 1 \in K THEN Rank(K, n) + 1 ELSE Rank(K, n)
<1>1. IsFiniteSet(1..N)
  BY FS_Interval
<1>2. IsFiniteSet(K) /\ Cardinality(K) \in Nat
  BY <1>1, FS_Subset, FS_CardinalityType
<1>3. \A n \in Nat : IsFiniteSet({k \in K : k <= n}) /\ Rank(K, n) \in Nat
  <2> TAKE n \in Nat
  <2>1. {k \in K : k <= n} \in SUBSET K
    OBVIOUS
  <2>2. IsFiniteSet({k \in K : k <= n})
    BY <1>2, <2>1, FS_Subset
  <2> QED
    BY <2>2, FS_CardinalityType DEF Rank
<1>a. \A k \in K : k \in Nat /\ 1 <= k /\ k <= N
  OBVIOUS
<1>4. {k \in K : k <= 0} = {} /\ {k \in K : k <= N} = K
  <2>1. {k \in K : k <= 0} = {}
    <3>1. \A k \in K : ~(k <= 0)
      BY <1>a
    <3> QED
      BY <3>1
  <2>2. {k \in K : k <= N} = K
    BY <1>a
  <2> QED
    BY <2>1, <2>2
<1>5. Rank(K, 0) = 0 /\ Rank(K, N) = Cardinality(K)
  BY <1>4, FS_EmptySet DEF Rank
<1>6. ASSUME NEW n \in Nat
      PROVE  Rank(K, n + 1) = IF n + 1 \in K THEN Rank(K, n) + 1 ELSE Rank(K, n)
  <2>1. CASE n + 1 \in K
    <3>1. {k \in K : k <= n + 1} = {k \in K : k <= n} \cup {n + 1}
      <4>1. \A k \in K : k <= n + 1 <=> (k <= n \/ k = n + 1)
        BY <1>a
      <4> QED
        BY <2>1, <4>1
    <3>2. n + 1 \notin {k \in K : k <= n}
      OBVIOUS
    <3> QED
      BY <1>3, <2>1, <3>1, <3>2, FS_AddElement DEF Rank
  <2>2. CASE n + 1 \notin K
    <3>1. {k \in K : k <= n + 1} = {k \in K : k <= n}
      <4>1. \A k \in K : k <= n + 1 <=> k <= n
        BY <1>a, <2>2
      <4> QED
        BY <4>1
    <3> QED
      BY <2>2, <3>1 DEF Rank
  <2> QED
    BY <2>1, <2>2
<1> QED
  BY <1>2, <1>3, <1>5, <1>6

(* The ranks of the places in K are 1 to the number of places.             *)
LEMMA RankOfPlace ==
    ASSUME NEW N \in Nat, NEW K \in SUBSET (1..N), NEW n \in K
    PROVE  /\ Rank(K, n) \in 1..Cardinality(K)
           /\ \A j \in K : n < j => Rank(K, n) < Rank(K, j)
<1>1. IsFiniteSet(K) /\ Cardinality(K) \in Nat /\ \A i \in Nat : Rank(K, i) \in Nat
  BY RankSteps
<1>2. \A i \in Nat : IsFiniteSet({k \in K : k <= i})
  <2> TAKE i \in Nat
  <2>1. {k \in K : k <= i} \in SUBSET K
    OBVIOUS
  <2> QED
    BY <1>1, <2>1, FS_Subset
<1>3. n \in 1..N
  OBVIOUS
<1>4. Rank(K, n) <= Cardinality(K)
  BY <1>1, FS_Subset DEF Rank
<1>5. Rank(K, n) # 0
  BY <1>2, <1>3, FS_EmptySet DEF Rank
<1>6. ASSUME NEW j \in K, n < j PROVE Rank(K, n) < Rank(K, j)
  <2>1. j \in 1..N
    OBVIOUS
  <2>2. {k \in K : k <= n} \in SUBSET {k \in K : k <= j}
    <3>1. \A k \in K : k <= n => k <= j
      <4>1. \A k \in K : k \in Nat
        OBVIOUS
      <4> QED
        BY <1>3, <1>6, <2>1, <4>1
    <3> QED
      BY <3>1
  <2>3. {k \in K : k <= n} # {k \in K : k <= j}
    BY <1>3, <1>6, <2>1
  <2>4. IsFiniteSet({k \in K : k <= j})
    BY <1>2, <2>1
  <2>5. Rank(K, n) <= Rank(K, j) /\ Rank(K, n) # Rank(K, j)
    BY <2>2, <2>3, <2>4, FS_Subset DEF Rank
  <2> QED
    BY <1>1, <1>3, <2>1, <2>5
<1> QED
  BY <1>1, <1>3, <1>4, <1>5, <1>6

(* Every rank up to the number of places is the rank of a place.           *)
LEMMA PlaceOfRank ==
    ASSUME NEW N \in Nat, NEW K \in SUBSET (1..N), NEW m \in 1..Cardinality(K)
    PROVE  \E n \in K : Rank(K, n) = m
<1>1. /\ Cardinality(K) \in Nat /\ Rank(K, 0) = 0 /\ Rank(K, N) = Cardinality(K)
      /\ \A n \in Nat : Rank(K, n) \in Nat
      /\ \A n \in Nat : Rank(K, n + 1) = IF n + 1 \in K THEN Rank(K, n) + 1 ELSE Rank(K, n)
  BY RankSteps
<1> DEFINE T == {n \in Nat : Rank(K, n) >= m}
<1>2. N \in T
  BY <1>1
<1>3. PICK n \in T : \A j \in T : n <= j
  BY <1>2, LeastNat
<1>4. n \in Nat /\ n # 0
  BY <1>1, <1>3
<1>5. n - 1 \in Nat /\ n - 1 \notin T
  BY <1>3, <1>4
<1>6. Rank(K, n - 1) < m /\ Rank(K, n - 1) \in Nat /\ Rank(K, n) >= m
  BY <1>1, <1>3, <1>5
<1>7. Rank(K, n) = IF n \in K THEN Rank(K, n - 1) + 1 ELSE Rank(K, n - 1)
  <2>1. (n - 1) + 1 = n
    BY <1>4
  <2> QED
    BY <1>1, <1>5, <2>1
<1> QED
  BY <1>1, <1>4, <1>6, <1>7

(* The list w holds what l has at the places in K, in their order.         *)
Reads(w, l, K) ==
    \E h \in [1..Cardinality(K) -> K] :
        /\ \A m \in 1..Cardinality(K) : w[m] = l[h[m]]
        /\ \A a, b \in 1..Cardinality(K) : a < b => h[a] < h[b]
        /\ \A n \in K : \E m \in 1..Cardinality(K) : h[m] = n

(* Sublist takes the entries at the places in K, in their order.           *)
LEMMA SublistFacts ==
    ASSUME NEW S, NEW l \in Seq(S), NEW K \in SUBSET DOMAIN l
    PROVE  /\ Sublist(l, K) \in Seq(S)
           /\ Cardinality(K) \in Nat /\ Len(Sublist(l, K)) = Cardinality(K)
           /\ Reads(Sublist(l, K), l, K)
<1> DEFINE C == Cardinality(K)
           h == [m \in 1..C |-> CHOOSE n \in K : Rank(K, n) = m]
<1>1. Len(l) \in Nat /\ K \in SUBSET (1..Len(l)) /\ \A n \in K : l[n] \in S
  OBVIOUS
<1>2. C \in Nat
  BY <1>1, RankSteps
<1>3. \A m \in 1..C : \E n \in K : Rank(K, n) = m
  BY <1>1, PlaceOfRank
<1>4. \A m \in 1..C : h[m] \in K /\ Rank(K, h[m]) = m
  BY <1>3
<1>5. \A n \in K : Rank(K, n) \in 1..C /\ \A j \in K : n < j => Rank(K, n) < Rank(K, j)
  BY <1>1, RankOfPlace
<1>6. Sublist(l, K) = [m \in 1..C |-> l[h[m]]]
  BY DEF Sublist, Rank
<1>7. h \in [1..C -> K]
  BY <1>4
<1> HIDE DEF h, C
<1>8. \A m \in 1..C : l[h[m]] \in S
  BY <1>1, <1>4
<1>9. Sublist(l, K) \in Seq(S) /\ Len(Sublist(l, K)) = C
  BY <1>2, <1>6, <1>8
<1>10. \A m \in 1..C : Sublist(l, K)[m] = l[h[m]]
  BY <1>6
<1>11. ASSUME NEW a \in 1..C, NEW b \in 1..C, a < b PROVE h[a] < h[b]
  <2>1. h[a] \in Nat /\ h[b] \in Nat /\ h[a] # h[b]
    BY <1>1, <1>4, <1>11, <1>2
  <2>2. ~(h[b] < h[a])
    BY <1>2, <1>4, <1>5, <1>11
  <2> QED
    BY <2>1, <2>2
<1>12. ASSUME NEW n \in K PROVE \E m \in 1..C : h[m] = n
  <2>1. PICK m \in 1..C : m = Rank(K, n)
    BY <1>5
  <2>2. h[m] \in K /\ Rank(K, h[m]) = Rank(K, n)
    BY <1>4, <2>1
  <2>3. ~(h[m] < n) /\ ~(n < h[m]) /\ n \in Nat /\ h[m] \in Nat
    <3>1. Rank(K, n) \in Nat
      BY <1>2, <1>5
    <3> QED
      BY <1>1, <1>5, <2>2, <3>1
  <2> QED
    BY <2>3
<1> QED
  <2>1. Reads(Sublist(l, K), l, K)
    BY <1>7, <1>10, <1>11, <1>12 DEF C, Reads
  <2> QED
    BY <1>2, <1>9, <2>1 DEF C

-----------------------------------------------------------------------------
(* What the operations do to a list of entries with different pids.  A     *)
(* list is in order when no tombstone, unless its pid is in X or its id in *)
(* T, comes before an entry that is none.                                  *)

Elems(l) == {l[n] : n \in DOMAIN l}
Distinct(l) == \A m, n \in DOMAIN l : m # n => l[m].pid # l[n].pid
InOrder(l, X, T) ==
    \A m, n \in DOMAIN l :
        m < n /\ l[m].exit # 0 /\ l[m].pid \notin X /\ l[m].id \notin T => l[n].exit # 0

(* Taking entries out.                                                     *)
LEMMA SublistList ==
    ASSUME NEW S, NEW l \in Seq(S), Distinct(l), NEW K \in SUBSET DOMAIN l
    PROVE  /\ Distinct(Sublist(l, K))
           /\ Elems(Sublist(l, K)) = {l[n] : n \in K}
           /\ \A X, T : InOrder(l, X, T) =>
                 InOrder(Sublist(l, K), X \ {l[n].pid : n \in DOMAIN l \ K}, T)
<1>0. Reads(Sublist(l, K), l, K)
  BY SublistFacts
<1> DEFINE w == Sublist(l, K)
           C == Cardinality(K)
<1>1. PICK h \in [1..C -> K] :
         /\ \A m \in 1..C : w[m] = l[h[m]]
         /\ \A a, b \in 1..C : a < b => h[a] < h[b]
         /\ \A n \in K : \E m \in 1..C : h[m] = n
  BY <1>0 DEF Reads
<1>2. w \in Seq(S) /\ C \in Nat /\ Len(w) = C
  BY SublistFacts
<1> HIDE DEF w, C
<1>3. DOMAIN w = 1..C
  BY <1>2
<1>4. \A m \in 1..C : h[m] \in K /\ h[m] \in DOMAIN l /\ h[m] \in Nat
  BY <1>1
<1>5. \A a, b \in 1..C : a # b => h[a] # h[b]
  <2> TAKE a, b \in 1..C
  <2> HAVE a # b
  <2>1. a < b \/ b < a
    BY <1>2
  <2> QED
    BY <1>1, <1>4, <2>1
<1>6. Distinct(w)
  BY <1>1, <1>3, <1>4, <1>5 DEF Distinct
<1>7. Elems(w) = {l[n] : n \in K}
  <2>1. \A e \in Elems(w) : \E n \in K : e = l[n]
    BY <1>1, <1>3, <1>4 DEF Elems
  <2>2. \A n \in K : l[n] \in Elems(w)
    BY <1>1, <1>3 DEF Elems
  <2> QED
    BY <2>1, <2>2
<1>8. ASSUME NEW X, NEW T, InOrder(l, X, T)
      PROVE  InOrder(w, X \ {l[n].pid : n \in DOMAIN l \ K}, T)
  <2> SUFFICES ASSUME NEW a \in 1..C, NEW b \in 1..C, a < b, w[a].exit # 0,
                      w[a].pid \notin X \ {l[n].pid : n \in DOMAIN l \ K}, w[a].id \notin T
               PROVE  w[b].exit # 0
    BY <1>3, Zenon DEF InOrder
  <2>1. w[a] = l[h[a]] /\ w[b] = l[h[b]] /\ h[a] < h[b]
    BY <1>1
  <2>2. w[a].pid \notin {l[n].pid : n \in DOMAIN l \ K}
    BY <1>4, <2>1 DEF Distinct
  <2>3. w[a].pid \notin X
    BY <2>2
  <2> QED
    BY <1>4, <1>8, <2>1, <2>3 DEF InOrder
<1> QED
  BY <1>6, <1>7, <1>8 DEF w

(* Taking out the entry of a pid.                                          *)
LEMMA WithoutList ==
    ASSUME NEW S, NEW l \in Seq(S), Distinct(l), NEW pid
    PROVE  /\ Without(l, pid) \in Seq(S) /\ Distinct(Without(l, pid))
           /\ Elems(Without(l, pid)) = {e \in Elems(l) : e.pid # pid}
           /\ Len(Without(l, pid)) = IF \E e \in Elems(l) : e.pid = pid THEN Len(l) - 1 ELSE Len(l)
           /\ \A X, T : InOrder(l, X, T) => InOrder(Without(l, pid), X \ {pid}, T)
<1> DEFINE K == {n \in DOMAIN l : l[n].pid # pid}
           w == Sublist(l, K)
<1>0. w = Without(l, pid) /\ K \in SUBSET DOMAIN l
  BY DEF Without
<1>1. w \in Seq(S) /\ Cardinality(K) \in Nat /\ Len(w) = Cardinality(K)
  BY SublistFacts
<1>2. /\ Distinct(w) /\ Elems(w) = {l[n] : n \in K}
      /\ \A X, T : InOrder(l, X, T) => InOrder(w, X \ {l[n].pid : n \in DOMAIN l \ K}, T)
  BY SublistList
<1>3. Elems(w) = {e \in Elems(l) : e.pid # pid}
  BY <1>2 DEF Elems
<1>4. DOMAIN l = 1..Len(l) /\ Len(l) \in Nat
  OBVIOUS
<1>5. IsFiniteSet(DOMAIN l) /\ Cardinality(DOMAIN l) = Len(l)
  BY <1>4, FS_Interval
<1>6. ASSUME \E e \in Elems(l) : e.pid = pid PROVE Cardinality(K) = Len(l) - 1
  <2>1. PICK n \in DOMAIN l : l[n].pid = pid
    BY <1>6 DEF Elems
  <2>2. K = DOMAIN l \ {n}
    BY <2>1 DEF Distinct
  <2> QED
    BY <1>5, <2>1, <2>2, FS_RemoveElement
<1>7. ASSUME ~\E e \in Elems(l) : e.pid = pid PROVE Cardinality(K) = Len(l)
  <2>1. K = DOMAIN l
    BY <1>7 DEF Elems
  <2> QED
    BY <1>5, <2>1
<1>8. ASSUME NEW X, NEW T, InOrder(l, X, T) PROVE InOrder(w, X \ {pid}, T)
  <2>1. InOrder(w, X \ {l[n].pid : n \in DOMAIN l \ K}, T)
    BY <1>2, <1>8
  <2>2. \A y : y \notin X \ {pid} => y \notin X \ {l[n].pid : n \in DOMAIN l \ K} \/ y = pid
    OBVIOUS
  <2>3. \A m \in DOMAIN w : w[m].pid # pid
    BY <1>3 DEF Elems
  <2> HIDE DEF w, K
  <2> QED
    BY <2>1, <2>2, <2>3 DEF InOrder
<1> HIDE DEF w
<1> QED
  <2>1. Len(w) = IF \E e \in Elems(l) : e.pid = pid THEN Len(l) - 1 ELSE Len(l)
    BY <1>1, <1>6, <1>7
  <2> QED
    BY <1>0, <1>1, <1>2, <1>3, <1>8, <2>1

(* Taking out the last entry.                                              *)
LEMMA EvictList ==
    ASSUME NEW S, NEW l \in Seq(S), Distinct(l), Len(l) > 0
    PROVE  LET v == ig_pc_evict_one_locked(l) IN
           /\ v \in Seq(S) /\ Distinct(v) /\ Len(v) = Len(l) - 1
           /\ Elems(v) \subseteq Elems(l)
           /\ \A e \in Elems(l) : e \in Elems(v) \/ e = l[Len(l)]
           /\ \A X, T : InOrder(l, X, T) => InOrder(v, X, T)
<1> DEFINE v == ig_pc_evict_one_locked(l)
           N == Len(l) - 1
<1>1. N \in Nat /\ DOMAIN l = 1..(N + 1) /\ Len(l) = N + 1
  OBVIOUS
<1>2. v \in Seq(S) /\ Len(v) = N /\ \A n \in 1..N : v[n] = l[n]
  BY <1>1 DEF ig_pc_evict_one_locked
<1>3. DOMAIN v = 1..N
  BY <1>2
<1> HIDE DEF v, N
<1>4. \A n \in 1..N : n \in DOMAIN l /\ n \in DOMAIN v
  BY <1>1, <1>3
<1>5. \A n \in DOMAIN l : n \in 1..N \/ n = Len(l)
  BY <1>1
<1>6. Distinct(v)
  BY <1>2, <1>3, <1>4 DEF Distinct
<1>7. Elems(v) \subseteq Elems(l)
  BY <1>2, <1>3, <1>4 DEF Elems
<1>8. \A e \in Elems(l) : e \in Elems(v) \/ e = l[Len(l)]
  BY <1>2, <1>4, <1>5 DEF Elems
<1>9. \A X, T : InOrder(l, X, T) => InOrder(v, X, T)
  BY <1>2, <1>3, <1>4 DEF InOrder
<1> QED
  BY <1>1, <1>2, <1>6, <1>7, <1>8, <1>9 DEF v, N

(* Putting an entry in front.                                              *)
LEMMA FrontList ==
    ASSUME NEW S, NEW l \in Seq(S), Distinct(l), NEW e \in S,
           \A f \in Elems(l) : f.pid # e.pid
    PROVE  LET v == list_add(l, e) IN
           /\ v \in Seq(S) /\ Distinct(v) /\ Len(v) = Len(l) + 1
           /\ Elems(v) = Elems(l) \cup {e}
           /\ \A X, T : InOrder(l, X, T) /\ (e.exit = 0 \/ e.pid \in X \/ e.id \in T) => InOrder(v, X, T)
<1> DEFINE v == list_add(l, e)
           N == Len(l)
<1>1. N \in Nat /\ DOMAIN l = 1..N
  OBVIOUS
<1>2. v \in Seq(S) /\ Len(v) = N + 1 /\ v[1] = e /\ \A n \in 1..N : v[n + 1] = l[n]
  BY <1>1 DEF list_add
<1>3. DOMAIN v = 1..(N + 1)
  BY <1>2
<1> HIDE DEF v, N
<1>4. \A n \in 1..(N + 1) : n = 1 \/ (n - 1 \in 1..N /\ v[n] = l[n - 1] /\ n > 1)
  <2> SUFFICES ASSUME NEW n \in 1..(N + 1), n # 1 PROVE n - 1 \in 1..N /\ v[n] = l[n - 1] /\ n > 1
    OBVIOUS
  <2>1. n - 1 \in 1..N /\ (n - 1) + 1 = n /\ n > 1
    BY <1>1
  <2> QED
    BY <1>2, <2>1
<1>5. \A n \in 1..N : l[n].pid # e.pid
  BY <1>1 DEF Elems
<1>6. Distinct(v)
  <2> SUFFICES ASSUME NEW m \in 1..(N + 1), NEW n \in 1..(N + 1), m # n
               PROVE  v[m].pid # v[n].pid
    BY <1>3 DEF Distinct
  <2>1. CASE m # 1 /\ n # 1
    <3>1. m - 1 # n - 1
      BY <1>1
    <3> QED
      BY <1>1, <1>4, <2>1, <3>1 DEF Distinct
  <2>2. CASE m = 1 \/ n = 1
    BY <1>2, <1>4, <1>5, <2>2
  <2> QED
    BY <2>1, <2>2
<1>7. Elems(v) = Elems(l) \cup {e}
  <2>1. ASSUME NEW f \in Elems(v) PROVE f \in Elems(l) \cup {e}
    <3>1. PICK n \in 1..(N + 1) : f = v[n]
      BY <1>3 DEF Elems
    <3>2. CASE n = 1
      BY <1>2, <3>1, <3>2
    <3>3. CASE n # 1
      <4>1. n - 1 \in DOMAIN l /\ f = l[n - 1]
        BY <1>1, <1>4, <3>1, <3>3
      <4> QED
        BY <4>1 DEF Elems
    <3> QED
      BY <3>2, <3>3
  <2>2. \A n \in 1..N : n + 1 \in 1..(N + 1) /\ 1 \in 1..(N + 1)
    BY <1>1
  <2>3. \A f \in Elems(l) : f \in Elems(v)
    BY <1>1, <1>2, <1>3, <2>2 DEF Elems
  <2>4. e \in Elems(v)
    <3>1. 1 \in 1..(N + 1)
      BY <1>1
    <3> QED
      BY <1>2, <1>3, <3>1 DEF Elems
  <2> QED
    BY <2>1, <2>3, <2>4
<1>8. ASSUME NEW X, NEW T, InOrder(l, X, T), e.exit = 0 \/ e.pid \in X \/ e.id \in T PROVE InOrder(v, X, T)
  <2> SUFFICES ASSUME NEW m \in 1..(N + 1), NEW n \in 1..(N + 1), m < n, v[m].exit # 0,
                      v[m].pid \notin X, v[m].id \notin T
               PROVE  v[n].exit # 0
    BY <1>3 DEF InOrder
  <2>1. m # 1 /\ n # 1 /\ m - 1 < n - 1
    BY <1>1, <1>2, <1>8
  <2>2. /\ m - 1 \in DOMAIN l /\ n - 1 \in DOMAIN l /\ v[m] = l[m - 1] /\ v[n] = l[n - 1]
    BY <1>1, <1>4, <2>1
  <2> QED
    BY <1>8, <2>1, <2>2 DEF InOrder
<1> QED
  BY <1>2, <1>6, <1>7, <1>8 DEF v, N

(* Putting a tombstone behind all others.                                  *)
LEMMA BackList ==
    ASSUME NEW S, NEW l \in Seq(S), Distinct(l), NEW e \in S,
           \A f \in Elems(l) : f.pid # e.pid
    PROVE  LET v == Append(l, e) IN
           /\ v \in Seq(S) /\ Distinct(v) /\ Len(v) = Len(l) + 1
           /\ Elems(v) = Elems(l) \cup {e}
           /\ \A X, T : InOrder(l, X, T) /\ e.exit # 0 => InOrder(v, X, T)
<1> DEFINE v == Append(l, e)
           N == Len(l)
<1>1. N \in Nat /\ DOMAIN l = 1..N
  OBVIOUS
<1>2. v \in Seq(S) /\ Len(v) = N + 1 /\ v[N + 1] = e /\ \A n \in 1..N : v[n] = l[n]
  BY <1>1
<1>3. DOMAIN v = 1..(N + 1)
  BY <1>2
<1> HIDE DEF v, N
<1>4. \A n \in 1..(N + 1) : n = N + 1 \/ (n \in 1..N /\ v[n] = l[n] /\ n < N + 1)
  BY <1>1, <1>2
<1>5. \A n \in 1..N : l[n].pid # e.pid /\ n \in 1..(N + 1)
  BY <1>1 DEF Elems
<1>6. Distinct(v)
  BY <1>1, <1>2, <1>3, <1>4, <1>5 DEF Distinct
<1>7. Elems(v) = Elems(l) \cup {e}
  <2>1. \A f \in Elems(v) : f \in Elems(l) \cup {e}
    BY <1>1, <1>2, <1>3, <1>4 DEF Elems
  <2>2. \A f \in Elems(l) : f \in Elems(v)
    BY <1>1, <1>2, <1>3, <1>5 DEF Elems
  <2>3. e \in Elems(v)
    <3>1. N + 1 \in 1..(N + 1)
      BY <1>1
    <3> QED
      BY <1>2, <1>3, <3>1 DEF Elems
  <2> QED
    BY <2>1, <2>2, <2>3
<1>8. ASSUME NEW X, NEW T, InOrder(l, X, T), e.exit # 0 PROVE InOrder(v, X, T)
  <2> SUFFICES ASSUME NEW m \in 1..(N + 1), NEW n \in 1..(N + 1), m < n, v[m].exit # 0,
                      v[m].pid \notin X, v[m].id \notin T
               PROVE  v[n].exit # 0
    BY <1>3 DEF InOrder
  <2>1. m \in 1..N /\ v[m] = l[m]
    BY <1>1, <1>4
  <2> QED
    BY <1>1, <1>2, <1>4, <1>8, <2>1 DEF InOrder
<1> QED
  BY <1>2, <1>6, <1>7, <1>8 DEF v, N

-----------------------------------------------------------------------------
(* The inductive invariant.  Known: the entries in the cache or in the     *)
(* hands of the preload.  Coming: those in the cache or still to come into *)
(* it.                                                                     *)
Known == Cached \cup (IF copy = NoEntry THEN {} ELSE {copy})

Coming ==
    Cached \cup (IF copy = NoEntry \/ InCache(copy.pid) \/ count >= MaxEntries THEN {} ELSE {copy})

(* Tasks have different ids and leaders.  The parent of a process is there *)
(* and outside its group: the children of a task that ends are given away. *)
(* What makes a task waits until its tracepoint is past.                   *)
TaskInv ==
    /\ \A q \in Pids : task[q].st # "free" => task[q].id \in 1..births
    /\ \A p, q \in Pids :
           task[p].st # "free" /\ task[q].st # "free" /\ task[p].id = task[q].id => p = q
    /\ \A q \in Pids : task[q].st # "free" /\ task[q].tg = q /\ task[q].par \in Pids =>
           /\ task[task[q].par].st \in {"born", "run", "exiting"}
           /\ task[task[q].par].id = task[q].parId /\ task[task[q].par].tg # q
    /\ \A q \in Pids : task[q].st = "born" /\ task[q].par \in Pids =>
           task[task[q].par].st = "run" /\ task[task[q].par].id = task[q].parId
    /\ \A q \in Pids : task[q].st = "exiting" => task[q].t # 0
    /\ \A q \in Pids : task[q].st # "free" =>
           task[q].tg \in Pids /\ task[task[q].tg].st # "free" /\ task[task[q].tg].tg = task[q].tg

ModInv ==
    /\ mod = "on" => tp = 3
    /\ copy # NoEntry => mod = "loading" /\ tp = 3
    /\ gc # 0 => mod \in {"on", "leaving"}
    /\ gc <= now

(* An id that is in use is in use under the pid of its entry.              *)
IdInv ==
    \A e \in Known :
        /\ e.id \in 1..births
        /\ \A q \in Pids : task[q].st # "free" /\ task[q].id = e.id => q = e.pid

MarkInv ==
    /\ early \subseteq 1..births
    /\ \A id \in early \ taken : ~Alive(id)
    /\ MarkIsRight
    /\ copy # NoEntry => copy.exit = 0 /\ (copy.id \in early \cup taken \/ Alive(copy.id))
    /\ mod = "loading" => \A q \in Pids : task[q].st = "zombie" => task[q].id \in early

(* Once the tracepoint of its fork is past, the entry of a pid is the one  *)
(* of the task that has it, or the pid is stale.                           *)
Settled == {"run", "exiting", "zombie"}
StaleInv ==
    \A f \in Coming : task[f.pid].st \in Settled => f.id = task[f.pid].id \/ f.pid \in stale

(* The pid of the parent an entry names is in use by that parent, or by a  *)
(* younger task.                                                           *)
ParentInv ==
    \A e \in Known : e.ppid \in Pids /\ task[e.ppid].st # "free" =>
        task[e.ppid].id = e.parId \/ task[e.ppid].id > e.id

(* ChainIsTrue, of the entries still to come too.                          *)
LinkInv ==
    \A e \in Known, f \in Coming : f.pid = e.ppid /\ f.pid # e.pid =>
        \/ f.id = e.parId \/ f.id > e.id \/ f.pid \in stale
        \/ task[f.pid].st = "born" /\ task[f.pid].id = e.parId

OrderInv == InOrder(lru, stale, taken)

IndInv ==
    /\ TypeOK /\ TaskInv /\ ModInv /\ IdInv /\ MarkInv /\ StaleInv /\ ParentInv /\ LinkInv
    /\ OrderInv

(* What is known of the entries by their type.                             *)
LEMMA EntryTypes ==
    ASSUME TypeOK
    PROVE  /\ Cached = Elems(lru) /\ Distinct(lru)
           /\ Cached \subseteq Entries /\ Known \subseteq Entries /\ Coming \subseteq Known
           /\ Cached \subseteq Coming
           /\ \A e \in Entries : e.pid \in Pids /\ e # NoEntry
           /\ \A e \in Cached, f \in Cached : e.pid = f.pid => e = f
<1>1. Cached = Elems(lru) /\ Distinct(lru)
  BY DEF TypeOK, Cached, Elems, Distinct
<1>2. ASSUME NEW e \in Entries PROVE e.pid \in Pids /\ e # NoEntry
  <2>1. e.pid \in Pids
    BY DEF Entries
  <2>2. NoEntry.pid \notin Pids
    BY ProcAssumption DEF NoEntry
  <2> QED
    BY <2>1, <2>2
<1>3. Cached \subseteq Entries
  <2>1. lru \in Seq(Entries)
    BY DEF TypeOK
  <2> HIDE DEF Entries
  <2> QED
    BY <2>1 DEF Cached
<1>4. copy \in Entries \cup {NoEntry}
  BY DEF TypeOK
<1>5. Known \subseteq Entries /\ Coming \subseteq Known /\ Cached \subseteq Coming
  BY <1>3, <1>4 DEF Known, Coming
<1>6. \A e \in Cached, f \in Cached : e.pid = f.pid => e = f
  BY <1>1 DEF Elems, Distinct
<1> QED
  BY <1>1, <1>2, <1>3, <1>5, <1>6

(* The search of the hash table.                                           *)
LEMMA FindFacts ==
    ASSUME TypeOK, NEW pid, InCache(pid)
    PROVE  ig_pc_find_locked(pid) \in Cached /\ ig_pc_find_locked(pid).pid = pid
  BY DEF InCache, ig_pc_find_locked

-----------------------------------------------------------------------------
(* Links.  A step changes the entries, the mark of one apart, only by      *)
(* adding that of a task; and ids only by giving a new one to a task that  *)
(* is born.                                                                *)

Same(e, g) == e.pid = g.pid /\ e.ppid = g.ppid /\ e.id = g.id /\ e.parId = g.parId

IsEntryOfTask(e) ==
    \E q \in Pids : task[q].st # "free" /\ (task[q].tg = q \/ task[q].st = "born") /\ e = EntryOf(q)

OnlyAdds ==
    /\ \A e \in Known' : IsEntryOfTask(e) \/ \E g \in Known : Same(e, g)
    /\ \A f \in Coming' : IsEntryOfTask(f) \/ \E g \in Coming : Same(f, g) /\ (f.pid \in stale => f.pid \in stale')

IdsStay ==
    \A p \in Pids : task'[p].st # "free" =>
        \/ task[p].st # "free" /\ task'[p].id = task[p].id
        \/ task'[p].st = "born" /\ task'[p].id \in Nat /\ task'[p].id > births

BornStay ==
    \A p \in Pids : task[p].st = "born" => task'[p].st \in {"born", "run"} /\ task'[p].id = task[p].id

(* The task with pid q ends, the others stay.                              *)
OneEnds(q) ==
    \A p \in Pids :
        IF p = q THEN /\ task'[p].st \in {"zombie", "free"}
                      /\ task'[p].st = "zombie" => task'[p].id = task[p].id
                 ELSE task'[p].st = task[p].st /\ task'[p].id = task[p].id

SettlesRight ==
    \A f \in Coming' : task'[f.pid].st \in Settled =>
        task[f.pid].st \in Settled \/ f.id = task[f.pid].id \/ f.pid \in stale'

(* The entry of a task: its parent has the id it names.                    *)
LEMMA EntryOfTask ==
    ASSUME TypeOK, TaskInv, NEW e, IsEntryOfTask(e)
    PROVE  /\ e \in Entries /\ e.exit = 0
           /\ e.pid \in Pids /\ task[e.pid].st # "free" /\ task[e.pid].id = e.id
           /\ e.id \in 1..births
           /\ e.ppid \in Pids =>
                task[e.ppid].st \in {"born", "run", "exiting"} /\ task[e.ppid].id = e.parId
<1>1. PICK q \in Pids :
         task[q].st # "free" /\ (task[q].tg = q \/ task[q].st = "born") /\ e = EntryOf(q)
  BY DEF IsEntryOfTask
<1>2. /\ task[q].id \in Ids /\ task[q].par \in Pids \cup {Swapper} /\ task[q].parId \in Ids
  BY DEF TypeOK
<1>3. /\ e.pid = q /\ e.ppid = task[q].par /\ e.id = task[q].id /\ e.parId = task[q].parId
      /\ e.exit = 0
  BY <1>1 DEF EntryOf
<1>4. 0 \in 0..MaxTime
  BY ProcAssumption
<1>5. e \in Entries
  BY <1>1, <1>2, <1>4 DEF EntryOf, Entries
<1> QED
  BY <1>1, <1>3, <1>5 DEF TaskInv

(* Steps of that kind keep the links right.                                *)
LEMMA LinksKept ==
    ASSUME TypeOK, TaskInv, IdInv, StaleInv, ParentInv, LinkInv,
           births' \in Nat, births' >= births, OnlyAdds, IdsStay, BornStay, SettlesRight
    PROVE  IdInv' /\ StaleInv' /\ ParentInv' /\ LinkInv'
<1>0. births \in Nat
  BY ProcAssumption DEF TypeOK, Ids
<1>1. ASSUME NEW e, IsEntryOfTask(e)
      PROVE  /\ e.pid \in Pids /\ task[e.pid].st # "free" /\ task[e.pid].id = e.id
             /\ e.id \in 1..births
             /\ e.ppid \in Pids =>
                  task[e.ppid].st \in {"born", "run", "exiting"} /\ task[e.ppid].id = e.parId
  BY <1>1, EntryOfTask
<1>2. ASSUME NEW e \in Known'
      PROVE  /\ e.id \in 1..births
             /\ \A q \in Pids : task[q].st # "free" /\ task[q].id = e.id => q = e.pid
             /\ e.ppid \in Pids /\ task[e.ppid].st # "free" =>
                  task[e.ppid].id = e.parId \/ task[e.ppid].id > e.id
  <2>1. CASE IsEntryOfTask(e)
    BY <1>1, <2>1 DEF TaskInv
  <2>2. CASE \E g \in Known : Same(e, g)
    BY <2>2 DEF Same, IdInv, ParentInv
  <2> QED
    BY <2>1, <2>2 DEF OnlyAdds
<1>3. IdInv'
  <2> SUFFICES ASSUME NEW e \in Known'
               PROVE  /\ e.id \in 1..births'
                      /\ \A q \in Pids : task'[q].st # "free" /\ task'[q].id = e.id => q = e.pid
    BY DEF IdInv
  <2> QED
    BY <1>0, <1>2 DEF IdsStay
<1>4. StaleInv'
  <2> SUFFICES ASSUME NEW f \in Coming', task'[f.pid].st \in Settled
               PROVE  f.id = task'[f.pid].id \/ f.pid \in stale'
    BY DEF StaleInv
  <2>1. f.pid \in Pids
    <3>1. CASE IsEntryOfTask(f)
      BY <1>1, <3>1
    <3>2. CASE \E g \in Coming : Same(f, g)
      <4>1. \A g \in Coming : g.pid \in Pids
        BY EntryTypes
      <4> QED
        BY <3>2, <4>1 DEF Same
    <3> QED
      BY <3>1, <3>2 DEF OnlyAdds
  <2>2. task'[f.pid].id = task[f.pid].id
    BY <2>1 DEF IdsStay, Settled
  <2>3. CASE IsEntryOfTask(f)
    BY <1>1, <2>2, <2>3
  <2>4. CASE \E g \in Coming : Same(f, g) /\ (f.pid \in stale => f.pid \in stale')
    BY <2>2, <2>4 DEF Same, StaleInv, SettlesRight
  <2> QED
    BY <2>3, <2>4 DEF OnlyAdds
<1>5. ParentInv'
  <2> SUFFICES ASSUME NEW e \in Known', e.ppid \in Pids, task'[e.ppid].st # "free"
               PROVE  task'[e.ppid].id = e.parId \/ task'[e.ppid].id > e.id
    BY DEF ParentInv
  <2> QED
    BY <1>0, <1>2 DEF IdsStay
<1>6. LinkInv'
  <2> SUFFICES ASSUME NEW e \in Known', NEW f \in Coming', f.pid = e.ppid, f.pid # e.pid
               PROVE  \/ f.id = e.parId \/ f.id > e.id \/ f.pid \in stale'
                      \/ task'[f.pid].st = "born" /\ task'[f.pid].id = e.parId
    BY DEF LinkInv
  <2>1. CASE IsEntryOfTask(f)
    BY <1>1, <1>2, <2>1
  <2>2. CASE \E g \in Coming : Same(f, g) /\ (f.pid \in stale => f.pid \in stale')
    <3>1. PICK g \in Coming : Same(f, g) /\ (f.pid \in stale => f.pid \in stale')
      BY <2>2
    <3>2. g.pid \in Pids /\ f.pid = g.pid /\ f.id = g.id
      BY <3>1, EntryTypes DEF Same
    <3>3. \/ f.id = e.parId \/ f.id > e.id \/ f.pid \in stale
          \/ task[f.pid].st = "born" /\ task[f.pid].id = e.parId
      <4>1. CASE IsEntryOfTask(e)
        BY <1>1, <3>1, <3>2, <4>1 DEF StaleInv, Settled
      <4>2. CASE \E h \in Known : Same(e, h)
        BY <3>1, <3>2, <4>2 DEF Same, LinkInv
      <4> QED
        BY <4>1, <4>2 DEF OnlyAdds
    <3>4. ASSUME task[f.pid].st = "born", task[f.pid].id = e.parId
          PROVE  \/ f.id = e.parId \/ f.pid \in stale'
                 \/ task'[f.pid].st = "born" /\ task'[f.pid].id = e.parId
      <4>1. task'[f.pid].st \in {"born", "run"} /\ task'[f.pid].id = e.parId
        BY <3>2, <3>4 DEF BornStay
      <4>2. CASE task'[f.pid].st = "run"
        BY <3>4, <4>2 DEF SettlesRight, Settled
      <4> QED
        BY <4>1, <4>2
    <3> QED
      BY <3>1, <3>3, <3>4
  <2> QED
    BY <2>1, <2>2 DEF OnlyAdds
<1> QED
  BY <1>3, <1>4, <1>5, <1>6

(* A step that leaves the entries alone, and notes an older one it keeps.  *)
LEMMA QuietLinks ==
    ASSUME IndInv, UNCHANGED <<lru, count, copy>>, births' \in Nat, births' >= births, IdsStay, BornStay,
           stale \subseteq stale',
           \A p \in Pids : task'[p].st \in Settled =>
              task[p].st \in Settled \/ \A f \in Coming : f.pid = p => f.id = task[p].id \/ p \in stale'
    PROVE  IdInv' /\ StaleInv' /\ ParentInv' /\ LinkInv'
<1>1. Known' = Known /\ Coming' = Coming
  BY DEF Known, Coming, Cached, InCache
<1>2. OnlyAdds
  BY <1>1, Zenon DEF OnlyAdds, Same
<1>3. SettlesRight
  <2>1. \A f \in Coming : f.pid \in Pids
    BY EntryTypes DEF IndInv
  <2> QED
    BY <1>1, <2>1 DEF SettlesRight
<1> QED
  BY <1>2, <1>3, LinksKept DEF IndInv

-----------------------------------------------------------------------------
(* Marks.                                                                  *)

(* A step in which no task ends, or takes over a pid, keeps the marks      *)
(* right.                                                                  *)
LEMMA MarksKept ==
    ASSUME IndInv, births' \in Nat, births' >= births, early' = early, taken \subseteq taken',
           \A id \in 1..births : id \in taken' \/ (Alive(id)' <=> Alive(id)),
           \A e \in Cached' : e \in Known \/ IsEntryOfTask(e),
           \A e \in Cached' :
              e \in Cached \/ (e.exit = 0 /\ (e.id \in early \cup taken \/ Alive(e.id))),
           copy' # NoEntry => copy' \in Known \/ IsEntryOfTask(copy'),
           copy' # NoEntry => copy'.exit = 0 /\ (copy'.id \in early \cup taken \/ Alive(copy'.id)),
           mod' = "loading" => mod = "loading",
           \A q \in Pids : task'[q].st = "zombie" => task[q].st = "zombie" /\ task'[q].id = task[q].id
    PROVE  MarkInv'
<1>0. /\ births \in Nat /\ TypeOK /\ TaskInv /\ IdInv /\ MarkInv
  BY ProcAssumption DEF IndInv, TypeOK, Ids
<1>1. \A e : IsEntryOfTask(e) => e.id \in 1..births
  BY <1>0, EntryOfTask
<1>2. \A e \in Known : e.id \in 1..births
  BY <1>0 DEF IdInv
<1>3. early' \subseteq 1..births'
  BY <1>0 DEF MarkInv
<1>4. ASSUME NEW id \in early' \ taken' PROVE ~Alive(id)'
  BY <1>0 DEF MarkInv
<1>5. MarkIsRight'
  <2> SUFFICES ASSUME NEW e \in Cached', e.id \notin early' \cup taken'
               PROVE  (e.exit = 0) <=> Alive(e.id)'
    BY DEF MarkIsRight
  <2>1. e.id \in 1..births
    BY <1>1, <1>2
  <2>2. (e.exit = 0) <=> Alive(e.id)
    BY <1>0 DEF MarkInv, MarkIsRight
  <2> QED
    BY <2>1, <2>2
<1>6. ASSUME copy' # NoEntry
      PROVE  copy'.exit = 0 /\ (copy'.id \in early' \cup taken' \/ Alive(copy.id)')
  BY <1>1, <1>2, <1>6 DEF Alive
<1>7. ASSUME mod' = "loading", NEW q \in Pids, task'[q].st = "zombie" PROVE task'[q].id \in early'
  BY <1>0, <1>7 DEF MarkInv
<1> QED
  BY <1>3, <1>4, <1>5, <1>6, <1>7 DEF MarkInv

(* So does the end of a task, if its entry is marked or its id noted.      *)
LEMMA EndMarks ==
    ASSUME IndInv, NEW q \in Pids, task[q].st \in {"run", "exiting"},
           OneEnds(q), NoteEnd(q), births' = births, mod' = mod, copy' = copy, taken' = taken,
           \A e \in Cached' :
              \/ e \in Cached /\ (e.pid # q \/ task[q].id \in early')
              \/ e.exit # 0 /\ \E g \in Cached : Same(e, g) /\ g.pid = q
    PROVE  MarkInv'
<1>0. /\ births \in Nat /\ TypeOK /\ TaskInv /\ IdInv /\ MarkInv /\ ModInv
  BY ProcAssumption DEF IndInv, TypeOK, Ids
<1>1. \A id : Alive(id)' <=> Alive(id) /\ id # task[q].id
  BY <1>0 DEF Alive, TaskInv, OneEnds
<1>2. early \subseteq early' /\ early' \subseteq early \cup {task[q].id}
  BY DEF NoteEnd
<1>3. \A e \in Cached : e \in Known
  BY DEF Known
<1>4. early' \subseteq 1..births'
  <2>1. task[q].id \in 1..births
    BY <1>0 DEF TaskInv
  <2>2. early \subseteq 1..births
    BY <1>0 DEF MarkInv
  <2> QED
    BY <1>2, <2>1, <2>2
<1>5. ASSUME NEW id \in early' \ taken' PROVE ~Alive(id)'
  BY <1>0, <1>1, <1>2 DEF MarkInv
<1>6. MarkIsRight'
  <2> SUFFICES ASSUME NEW e \in Cached', e.id \notin early' \cup taken'
               PROVE  (e.exit = 0) <=> Alive(e.id)'
    BY DEF MarkIsRight
  <2>1. CASE e \in Cached /\ (e.pid # q \/ task[q].id \in early')
    <3>1. e.id # task[q].id
      BY <1>0, <1>3, <2>1 DEF IdInv
    <3>2. (e.exit = 0) <=> Alive(e.id)
      BY <1>0, <1>2, <2>1 DEF MarkInv, MarkIsRight
    <3> QED
      BY <1>1, <3>1, <3>2
  <2>2. CASE e.exit # 0 /\ \E g \in Cached : Same(e, g) /\ g.pid = q
    <3>1. ASSUME Alive(e.id) PROVE e.id = task[q].id
      BY <1>0, <1>3, <2>2, <3>1 DEF IdInv, Alive, Same
    <3> QED
      BY <1>1, <2>2, <3>1
  <2> QED
    BY <2>1, <2>2
<1>7. ASSUME copy' # NoEntry
      PROVE  copy'.exit = 0 /\ (copy'.id \in early' \cup taken' \/ Alive(copy.id)')
  <2>1. early' = early \cup {task[q].id}
    BY <1>0, <1>7 DEF ModInv, NoteEnd
  <2>2. copy.exit = 0 /\ (copy.id \in early \cup taken \/ Alive(copy.id))
    BY <1>0, <1>7 DEF MarkInv
  <2>3. Alive(copy.id) /\ copy.id # task[q].id => Alive(copy.id)'
    BY <1>1 DEF Alive
  <2> QED
    BY <2>1, <2>2, <2>3
<1>8. ASSUME mod' = "loading", NEW p \in Pids, task'[p].st = "zombie" PROVE task'[p].id \in early'
  BY <1>0, <1>8 DEF MarkInv, NoteEnd, OneEnds
<1> QED
  BY <1>4, <1>5, <1>6, <1>7, <1>8 DEF MarkInv

-----------------------------------------------------------------------------
(* Tasks.                                                                  *)

Tasks == [st : Places, id : Ids, par : Pids \cup {Swapper}, parId : Ids, t : 0..MaxTime,
          tg : Pids \cup {Swapper}]

(* The children of a task, given to another one.                           *)
LEMMA GivenFacts ==
    ASSUME TypeOK, NEW q \in Pids, NEW r \in Pids \cup {Swapper}, NEW rid \in Ids
    PROVE  /\ Given(q, r, rid) \in [Pids -> Tasks]
           /\ \A c \in Pids :
                /\ Given(q, r, rid)[c].id = task[c].id /\ Given(q, r, rid)[c].st = task[c].st
                /\ Given(q, r, rid)[c].t = task[c].t /\ Given(q, r, rid)[c].tg = task[c].tg
                /\ IF task[c].st # "free" /\ task[c].par = q /\ c # q
                   THEN Given(q, r, rid)[c].par = r /\ Given(q, r, rid)[c].parId = rid
                   ELSE Given(q, r, rid)[c].par = task[c].par /\ Given(q, r, rid)[c].parId = task[c].parId
<1>1. task \in [Pids -> Tasks]
  BY DEF TypeOK, Tasks
<1>2. ASSUME NEW c \in Pids
      PROVE  /\ Given(q, r, rid)[c] \in Tasks
             /\ Given(q, r, rid)[c].id = task[c].id /\ Given(q, r, rid)[c].st = task[c].st
             /\ Given(q, r, rid)[c].t = task[c].t /\ Given(q, r, rid)[c].tg = task[c].tg
             /\ IF task[c].st # "free" /\ task[c].par = q /\ c # q
                THEN Given(q, r, rid)[c].par = r /\ Given(q, r, rid)[c].parId = rid
                ELSE Given(q, r, rid)[c].par = task[c].par /\ Given(q, r, rid)[c].parId = task[c].parId
  <2>1. task[c] \in Tasks
    BY <1>1
  <2>2. Given(q, r, rid)[c] = IF task[c].st # "free" /\ task[c].par = q /\ c # q
                              THEN [task[c] EXCEPT !.par = r, !.parId = rid] ELSE task[c]
    BY DEF Given
  <2>3. CASE task[c].st # "free" /\ task[c].par = q /\ c # q
    BY <2>1, <2>2, <2>3 DEF Tasks
  <2>4. CASE ~(task[c].st # "free" /\ task[c].par = q /\ c # q)
    BY <2>1, <2>2, <2>4
  <2> QED
    BY <2>3, <2>4
<1>3. Given(q, r, rid) \in [Pids -> Tasks]
  <2> HIDE DEF Tasks
  <2> QED
    BY <1>2 DEF Given
<1> QED
  BY <1>2, <1>3

(* A task ends, and its children are given away.                           *)
LEMMA EndedFacts ==
    ASSUME TypeOK, TaskInv, NEW q \in Pids, task[q].st = "exiting" \/ MayExit(q),
           task' \in Ended(q), births' = births
    PROVE  /\ task' \in [Pids -> Tasks] /\ TaskInv' /\ IdsStay /\ BornStay
           /\ task[q].st \in {"run", "exiting"} /\ OneEnds(q)
<1>0. /\ 0 \in Ids /\ 0 \in 0..MaxTime /\ Swapper \notin Pids /\ task \in [Pids -> Tasks]
      /\ task[q].st \in {"run", "exiting"}
  BY ProcAssumption DEF Ids, TypeOK, Tasks, MayExit
<1>1. PICK r \in Pids \cup {Swapper}, rid \in Ids :
         /\ task' = [Given(q, r, rid) EXCEPT ![q] = Remains(q)]
         /\ r \in Pids => /\ r # q /\ task[r].st \in {"born", "run"} /\ task[r].id = rid
                          /\ task[r].tg = task[q].tg
  <2> DEFINE heirs == {r \in Threads(q) : task[r].st \in {"born", "run"}}
  <2>1. CASE heirs = {}
    <3>1. task' = [Given(q, Swapper, 0) EXCEPT ![q] = Remains(q)]
      BY <2>1 DEF Ended
    <3> QED
      BY <1>0, <3>1
  <2>2. CASE heirs # {}
    <3>1. PICK r \in heirs : task' = [Given(q, r, task[r].id) EXCEPT ![q] = Remains(q)]
      BY <2>2, Zenon DEF Ended
    <3>2. /\ r \in Pids /\ r # q /\ task[r].st \in {"born", "run"} /\ task[r].tg = task[q].tg
          /\ task[r].id \in Ids
      BY <1>0 DEF Threads, Tasks
    <3> QED
      BY <3>1, <3>2
  <2> QED
    BY <2>1, <2>2
<1> DEFINE G == Given(q, r, rid)
<1>2. /\ G \in [Pids -> Tasks]
      /\ \A c \in Pids :
           /\ G[c].id = task[c].id /\ G[c].st = task[c].st
           /\ G[c].t = task[c].t /\ G[c].tg = task[c].tg
           /\ IF task[c].st # "free" /\ task[c].par = q /\ c # q
              THEN G[c].par = r /\ G[c].parId = rid
              ELSE G[c].par = task[c].par /\ G[c].parId = task[c].parId
  BY GivenFacts
<1>2a. task' = [G EXCEPT ![q] = Remains(q)]
  BY <1>1
<1> HIDE DEF G
<1>3. /\ \A c \in Pids : c # q => task'[c] = G[c]
      /\ task'[q] = Remains(q)
  BY <1>2, <1>2a
<1>3a. /\ Remains(q) \in Tasks
       /\ IF task[q].tg = q
          THEN Remains(q).st = "zombie" /\ \A x \in {"id", "par", "parId", "tg"} : Remains(q)[x] = task[q][x]
          ELSE Remains(q).st = "free"
  <2>1. task[q] \in Tasks
    BY <1>0
  <2>2. CASE task[q].tg = q
    BY <1>0, <2>1, <2>2 DEF Remains, Tasks, Places
  <2>3. CASE task[q].tg # q
    BY <1>0, <2>3 DEF Remains, NoTask, Tasks, Places
  <2> QED
    BY <2>2, <2>3
<1>4. task' \in [Pids -> Tasks]
  <2> HIDE DEF Tasks
  <2> QED
    BY <1>2, <1>2a, <1>3, <1>3a
<1>5. ASSUME NEW c \in Pids, c # q \/ task'[c].st # "free"
      PROVE  /\ task'[c].id = task[c].id /\ task'[c].tg = task[c].tg
             /\ task'[c].st = IF c = q THEN "zombie" ELSE task[c].st
             /\ IF task[c].st # "free" /\ task[c].par = q /\ c # q
                THEN task'[c].par = r /\ task'[c].parId = rid
                ELSE task'[c].par = task[c].par /\ task'[c].parId = task[c].parId
             /\ c # q => task'[c].t = task[c].t
  <2>2. CASE c = q
    BY <1>3, <1>3a, <1>5, <2>2
  <2>3. CASE c # q
    BY <1>2, <1>3, <2>3
  <2> QED
    BY <2>2, <2>3
<1>5a. OneEnds(q) /\ (task'[q].st = "free" => task[q].tg # q)
  BY <1>3, <1>3a, <1>5 DEF OneEnds
<1>6. TaskInv'
  <2>1. \A c \in Pids : task'[c].st # "free" => task'[c].id \in 1..births'
    BY <1>0, <1>5 DEF TaskInv
  <2>2. \A c, d \in Pids :
           task'[c].st # "free" /\ task'[d].st # "free" /\ task'[c].id = task'[d].id => c = d
    BY <1>0, <1>5 DEF TaskInv
  <2>3. ASSUME NEW c \in Pids, task'[c].st # "free", task'[c].tg = c, task'[c].par \in Pids
        PROVE  /\ task'[task'[c].par].st \in {"born", "run", "exiting"}
               /\ task'[task'[c].par].id = task'[c].parId /\ task'[task'[c].par].tg # c
    <3>0. task[c].st # "free" /\ task[c].tg = c
      BY <1>0, <1>5, <2>3
    <3>1. CASE task[c].par = q /\ c # q
      <4>1. task'[c].par = r /\ task'[c].parId = rid /\ task[q].tg # c
        BY <1>5, <3>0, <3>1 DEF TaskInv
      <4> QED
        BY <1>1, <1>5, <2>3, <4>1
    <3>2. CASE ~(task[c].par = q /\ c # q)
      <4>1. task'[c].par = task[c].par /\ task'[c].parId = task[c].parId
        BY <1>5, <2>3, <3>2
      <4>2. task[c].par # q
        BY <2>3, <3>0, <3>2, <4>1 DEF TaskInv
      <4> QED
        BY <1>5, <2>3, <3>0, <4>1, <4>2 DEF TaskInv
    <3> QED
      BY <3>1, <3>2
  <2>4. ASSUME NEW c \in Pids, task'[c].st = "born", task'[c].par \in Pids
        PROVE  task'[task'[c].par].st = "run" /\ task'[task'[c].par].id = task'[c].parId
    <3>1. c # q /\ task[c].st = "born"
      BY <1>5, <2>4
    <3>2. task[c].par # q
      BY <1>0, <3>1 DEF MayExit, TaskInv
    <3> QED
      BY <1>5, <2>4, <3>1, <3>2 DEF TaskInv
  <2>5. \A c \in Pids : task'[c].st = "exiting" => task'[c].t # 0
    BY <1>5 DEF TaskInv
  <2>6. \A c \in Pids : task'[c].st # "free" =>
           task'[c].tg \in Pids /\ task'[task'[c].tg].st # "free" /\ task'[task'[c].tg].tg = task'[c].tg
    BY <1>0, <1>5, <1>5a DEF TaskInv
  <2> QED
    BY <2>1, <2>2, <2>3, <2>4, <2>5, <2>6 DEF TaskInv
<1> QED
  BY <1>0, <1>4, <1>5, <1>5a, <1>6 DEF IdsStay, BornStay

ListOK ==
    lru \in Seq(Entries) /\ Distinct(lru) /\ count = Len(lru) /\ count <= MaxEntries

OthersOK ==
    /\ tp \in 0..3 /\ mod \in {"loading", "on", "leaving", "off", "failed"}
    /\ seen \subseteq Ids /\ copy \in Entries \cup {NoEntry}
    /\ gc \in 0..MaxTime /\ now \in 1..MaxTime /\ skips \in 0..MaxSkips
    /\ stale \subseteq Pids /\ early \subseteq Ids /\ taken \subseteq Ids

(* The type invariant in parts, tasks, list and the rest.                  *)
LEMMA TypeParts ==
    /\ TypeOK <=> task \in [Pids -> Tasks] /\ births \in Ids /\ ListOK /\ OthersOK
    /\ TypeOK' <=> task' \in [Pids -> Tasks] /\ births' \in Ids /\ ListOK' /\ OthersOK'
  BY DEF TypeOK, Tasks, ListOK, OthersOK, Distinct

(* Marks and links when only tasks change.                                 *)
LEMMA QuietInvs ==
    ASSUME IndInv, UNCHANGED <<table, copy, early>>, taken \subseteq taken', births' \in Nat, births' >= births, IdsStay, BornStay,
           stale \subseteq stale',
           \A p \in Pids : task'[p].st \in Settled =>
              task[p].st \in Settled \/ \A f \in Coming : f.pid = p => f.id = task[p].id \/ p \in stale',
           \A p \in Pids : task'[p].st = "zombie" => task[p].st = "zombie",
           \A id \in 1..births : id \in taken' \/ (Alive(id)' <=> Alive(id)),
           mod' = "loading" => mod = "loading"
    PROVE  ListOK' /\ IdInv' /\ StaleInv' /\ ParentInv' /\ LinkInv' /\ MarkInv' /\ OrderInv'
<1>1. UNCHANGED <<lru, count, copy>>
  BY DEF table
<1>2. IdInv' /\ StaleInv' /\ ParentInv' /\ LinkInv'
  BY <1>1, QuietLinks
<1>3. Cached' = Cached /\ Cached \subseteq Known
  BY <1>1 DEF Cached, Known
<1>4. copy # NoEntry =>
         copy \in Known /\ copy.exit = 0 /\ (copy.id \in early \cup taken \/ Alive(copy.id))
  BY DEF Known, IndInv, MarkInv
<1>5. \A p \in Pids : task'[p].st = "zombie" => task'[p].id = task[p].id
  BY DEF IdsStay
<1>6. MarkInv'
  BY <1>3, <1>4, <1>5, MarksKept
<1>7. ListOK'
  BY <1>1, TypeParts DEF IndInv, ListOK
<1>8. OrderInv'
  <2>1. InOrder(lru, stale, taken)
    BY DEF IndInv, OrderInv
  <2> QED
    BY <1>1, <2>1 DEF OrderInv, InOrder
<1> QED
  BY <1>2, <1>6, <1>7, <1>8

(* fork(): the new task has an id nobody had.                              *)
LEMMA CloneInv ==
    ASSUME IndInv, NEW p \in Pids \cup {Swapper}, NEW q \in Pids, Clone(p, q)
    PROVE  IndInv'
<1>0. /\ TypeOK /\ TaskInv /\ task \in [Pids -> Tasks] /\ births \in Nat /\ births < MaxBirths
      /\ MaxBirths \in Nat /\ Swapper \notin Pids /\ 0 \in 0..MaxTime /\ 0 \in Ids
  BY TypeParts, ProcAssumption DEF IndInv, Clone, Ids
<1>1. births' = births + 1 /\ births' \in Nat /\ births' >= births /\ births' \in Ids
  BY <1>0 DEF Clone, Ids
<1>2. task[q].st = "free" /\ (p # Swapper => task[p].st = "run") /\ p # q
  BY <1>0 DEF Clone
<1>2a. PICK g \in IF p = Swapper THEN {q} ELSE {q, task[p].tg} :
         task' = [task EXCEPT ![q] = [st |-> "born", id |-> births + 1, par |-> p, t |-> 0, tg |-> g,
                                      parId |-> IF p = Swapper THEN 0 ELSE task[p].id]]
  BY DEF Clone
<1>2b. /\ g \in Pids /\ (p # Swapper => task[p].tg # q)
       /\ g # q => task[g].st # "free" /\ task[g].tg = g
  BY <1>0, <1>2 DEF TaskInv
<1>3. /\ task' = [task EXCEPT ![q] = [st |-> "born", id |-> births + 1, par |-> p, t |-> 0, tg |-> g,
                                      parId |-> IF p = Swapper THEN 0 ELSE task[p].id]]
      /\ UNCHANGED <<table, module, gc, now, skips, stale, early, taken>>
  BY <1>2a DEF Clone
<1>4. \A c \in Pids : c # q => task'[c] = task[c]
  BY <1>0, <1>3
<1>5. /\ task'[q].st = "born" /\ task'[q].id = births + 1 /\ task'[q].par = p /\ task'[q].t = 0
      /\ task'[q].tg = g
      /\ task'[q].parId = IF p = Swapper THEN 0 ELSE task[p].id
  BY <1>0, <1>3
<1>6. task' \in [Pids -> Tasks]
  <2>1. (IF p = Swapper THEN 0 ELSE task[p].id) \in Ids
    BY <1>0 DEF Tasks
  <2>2. births + 1 \in Ids
    BY <1>1
  <2> QED
    BY <1>0, <1>2b, <1>3, <2>1, <2>2 DEF Tasks, Places
<1>7. TaskInv'
  <2>1. \A c \in Pids : task'[c].st # "free" => task'[c].id \in 1..births'
    BY <1>0, <1>1, <1>4, <1>5 DEF TaskInv
  <2>2. \A c, d \in Pids :
           task'[c].st # "free" /\ task'[d].st # "free" /\ task'[c].id = task'[d].id => c = d
    <3>1. \A c \in Pids : task[c].st # "free" => task[c].id # births + 1
      BY <1>0 DEF TaskInv
    <3> QED
      BY <1>4, <1>5, <3>1, <1>0 DEF TaskInv
  <2>3. ASSUME NEW c \in Pids, task'[c].st # "free", task'[c].tg = c, task'[c].par \in Pids
        PROVE  /\ task'[task'[c].par].st \in {"born", "run", "exiting"}
               /\ task'[task'[c].par].id = task'[c].parId /\ task'[task'[c].par].tg # c
    BY <1>0, <1>2, <1>2b, <1>4, <1>5, <2>3 DEF TaskInv
  <2>4. \A c \in Pids : task'[c].st = "exiting" => task'[c].t # 0
    BY <1>0, <1>4, <1>5 DEF TaskInv
  <2>5. ASSUME NEW c \in Pids, task'[c].st = "born", task'[c].par \in Pids
        PROVE  task'[task'[c].par].st = "run" /\ task'[task'[c].par].id = task'[c].parId
    BY <1>0, <1>1, <1>2, <1>2b, <1>4, <1>5, <2>5 DEF TaskInv
  <2>6. \A c \in Pids : task'[c].st # "free" =>
           task'[c].tg \in Pids /\ task'[task'[c].tg].st # "free" /\ task'[task'[c].tg].tg = task'[c].tg
    BY <1>0, <1>1, <1>2, <1>2b, <1>4, <1>5 DEF TaskInv
  <2> QED
    BY <2>1, <2>2, <2>3, <2>4, <2>5, <2>6 DEF TaskInv
<1>8. IdsStay /\ BornStay
  BY <1>0, <1>2, <1>4, <1>5 DEF IdsStay, BornStay
<1>9. \A id \in 1..births : Alive(id)' <=> Alive(id)
  BY <1>0, <1>2, <1>4, <1>5 DEF Alive
<1>10. ListOK' /\ IdInv' /\ StaleInv' /\ ParentInv' /\ LinkInv' /\ MarkInv' /\ OrderInv'
  <2>1. UNCHANGED <<table, copy, early, taken>> /\ stale \subseteq stale' /\ mod' = mod
    BY <1>3 DEF module
  <2>2. \A c \in Pids : /\ task'[c].st \in Settled => task[c].st \in Settled
                        /\ task'[c].st = "zombie" => task[c].st = "zombie"
    BY <1>4, <1>5 DEF Settled
  <2> QED
    BY <1>1, <1>8, <1>9, <2>1, <2>2, QuietInvs
<1>11. OthersOK' /\ ModInv'
  <2>1. OthersOK /\ ModInv
    BY TypeParts DEF IndInv
  <2> QED
    BY <1>3, <2>1 DEF OthersOK, ModInv, module
<1>12. TypeOK'
  BY <1>1, <1>6, <1>10, <1>11, TypeParts
<1> QED
  BY <1>7, <1>10, <1>11, <1>12 DEF IndInv

(* fork() is past its tracepoint.                                          *)
LEMMA RunsFacts ==
    ASSUME TypeOK, TaskInv, NEW q \in Pids, task[q].st = "born",
           task' = [task EXCEPT ![q].st = "run"], births' = births
    PROVE  /\ task' \in [Pids -> Tasks] /\ births' \in Ids /\ births' \in Nat /\ births' >= births
           /\ TaskInv' /\ IdsStay /\ BornStay
           /\ \A p \in Pids : /\ p # q => task'[p] = task[p]
                              /\ task'[p].id = task[p].id
                              /\ task'[p].st = IF p = q THEN "run" ELSE task[p].st
           /\ \A id : Alive(id)' <=> Alive(id)
<1>1. task \in [Pids -> Tasks] /\ births \in Ids /\ births \in Nat
  BY TypeParts, ProcAssumption DEF Ids
<1>2. task' \in [Pids -> Tasks]
  <2>1. task[q] \in Tasks
    BY <1>1
  <2>2. [task[q] EXCEPT !.st = "run"] \in Tasks
    BY <2>1 DEF Tasks, Places
  <2> HIDE DEF Tasks
  <2> QED
    BY <1>1, <2>2
<1>3. ASSUME NEW c \in Pids
      PROVE  /\ c # q => task'[c] = task[c]
             /\ task'[c].id = task[c].id /\ task'[c].par = task[c].par
             /\ task'[c].parId = task[c].parId /\ task'[c].t = task[c].t /\ task'[c].tg = task[c].tg
             /\ task'[c].st = IF c = q THEN "run" ELSE task[c].st
  <2>1. task[c] \in Tasks
    BY <1>1
  <2> QED
    BY <1>1, <2>1 DEF Tasks
<1>4. TaskInv'
  <2>1. \A c \in Pids : task'[c].st # "free" => task'[c].id \in 1..births'
    BY <1>3 DEF TaskInv
  <2>2. \A c, d \in Pids :
           task'[c].st # "free" /\ task'[d].st # "free" /\ task'[c].id = task'[d].id => c = d
    BY <1>3 DEF TaskInv
  <2>3. ASSUME NEW c \in Pids, task'[c].st # "free", task'[c].tg = c, task'[c].par \in Pids
        PROVE  /\ task'[task'[c].par].st \in {"born", "run", "exiting"}
               /\ task'[task'[c].par].id = task'[c].parId /\ task'[task'[c].par].tg # c
    BY <1>3, <2>3 DEF TaskInv
  <2>4. \A c \in Pids : task'[c].st = "exiting" => task'[c].t # 0
    BY <1>3 DEF TaskInv
  <2>5. ASSUME NEW c \in Pids, task'[c].st = "born", task'[c].par \in Pids
        PROVE  task'[task'[c].par].st = "run" /\ task'[task'[c].par].id = task'[c].parId
    BY <1>1, <1>3, <2>5 DEF TaskInv
  <2>6. \A c \in Pids : task'[c].st # "free" =>
           task'[c].tg \in Pids /\ task'[task'[c].tg].st # "free" /\ task'[task'[c].tg].tg = task'[c].tg
    BY <1>1, <1>3 DEF TaskInv
  <2> QED
    BY <2>1, <2>2, <2>3, <2>4, <2>5, <2>6 DEF TaskInv
<1>5. \A id : Alive(id)' <=> Alive(id)
  BY <1>3 DEF Alive
<1> QED
  BY <1>1, <1>2, <1>3, <1>4, <1>5 DEF IdsStay, BornStay

(* A fork that is throttled, or comes before the tracepoint: an older      *)
(* entry that is kept makes the pid stale.                                 *)
LEMMA ForkMissedInv ==
    ASSUME IndInv, NEW q \in Pids, ForkSkipped(q) \/ ForkUnseen(q)
    PROVE  IndInv'
<1>0. TypeOK /\ TaskInv /\ OthersOK /\ ModInv
  BY TypeParts DEF IndInv
<1>1. /\ task[q].st = "born" /\ task' = [task EXCEPT ![q].st = "run"]
      /\ stale' = IF OlderKept(q) THEN stale \cup {q} ELSE stale
      /\ UNCHANGED <<births, table, tp, mod, seen, copy, gc, now, early, taken>>
      /\ skips' = skips \/ (skips' = skips + 1 /\ skips < MaxSkips)
  BY DEF ForkSkipped, ForkUnseen, module
<1>2. /\ task' \in [Pids -> Tasks] /\ births' \in Ids /\ births' \in Nat /\ births' >= births
      /\ TaskInv' /\ IdsStay /\ BornStay
      /\ \A p \in Pids : /\ task'[p].id = task[p].id
                         /\ task'[p].st = IF p = q THEN "run" ELSE task[p].st
      /\ \A id : Alive(id)' <=> Alive(id)
  BY <1>0, <1>1, RunsFacts
<1>3. \A f \in Coming : f.pid = q => f.id = task[q].id \/ q \in stale'
  BY <1>1 DEF Coming, OlderKept
<1>4. ListOK' /\ IdInv' /\ StaleInv' /\ ParentInv' /\ LinkInv' /\ MarkInv' /\ OrderInv'
  <2>1. UNCHANGED <<table, copy, early, taken>> /\ stale \subseteq stale' /\ mod' = mod
    BY <1>1
  <2>2. \A p \in Pids :
           /\ task'[p].st \in Settled =>
                task[p].st \in Settled \/ \A f \in Coming : f.pid = p => f.id = task[p].id \/ p \in stale'
           /\ task'[p].st = "zombie" => task[p].st = "zombie"
    BY <1>2, <1>3 DEF Settled
  <2> QED
    BY <1>2, <2>1, <2>2, QuietInvs
<1>5. OthersOK' /\ ModInv'
  <2>1. skips' \in 0..MaxSkips
    BY <1>0, <1>1, ProcAssumption DEF OthersOK
  <2>2. stale' \subseteq Pids
    BY <1>0, <1>1 DEF OthersOK
  <2> QED
    BY <1>0, <1>1, <2>1, <2>2 DEF OthersOK, ModInv
<1>6. TypeOK'
  BY <1>2, <1>4, <1>5, TypeParts
<1> QED
  BY <1>2, <1>4, <1>5, <1>6 DEF IndInv

(* ig_pc_on_exit begins: the task has read the clock.                      *)
LEMMA ExitBeginsInv ==
    ASSUME IndInv, NEW q \in Pids, ig_pc_on_exit(q)
    PROVE  IndInv'
<1>0. /\ TypeOK /\ TaskInv /\ OthersOK /\ ModInv /\ task \in [Pids -> Tasks]
      /\ births \in Ids /\ births \in Nat /\ now \in 1..MaxTime
  BY TypeParts, ProcAssumption DEF IndInv, Ids, OthersOK
<1>1. /\ task[q].st = "run" /\ task' = [task EXCEPT ![q].st = "exiting", ![q].t = now]
      /\ \A c \in Pids : ~(task[c].st = "born" /\ task[c].par = q)
      /\ UNCHANGED <<births, table, module, gc, now, skips, stale, early, taken>>
  BY DEF ig_pc_on_exit, MayExit
<1>2. /\ \A c \in Pids : c # q => task'[c] = task[c]
      /\ task'[q] = [task[q] EXCEPT !.st = "exiting", !.t = now]
  BY <1>0, <1>1
<1>3. ASSUME NEW c \in Pids
      PROVE  /\ task'[c].id = task[c].id /\ task'[c].par = task[c].par
             /\ task'[c].parId = task[c].parId /\ task'[c].tg = task[c].tg
             /\ task'[c].st = IF c = q THEN "exiting" ELSE task[c].st
             /\ task'[c].t = IF c = q THEN now ELSE task[c].t
  <2>1. task[c] \in Tasks
    BY <1>0
  <2>2. CASE c = q
    BY <1>2, <2>1, <2>2 DEF Tasks
  <2>3. CASE c # q
    BY <1>2, <2>3
  <2> QED
    BY <2>2, <2>3
<1>4. task' \in [Pids -> Tasks]
  <2>1. task[q] \in Tasks /\ now \in 0..MaxTime
    BY <1>0
  <2>2. [task[q] EXCEPT !.st = "exiting", !.t = now] \in Tasks
    BY <2>1 DEF Tasks, Places
  <2> HIDE DEF Tasks
  <2> QED
    BY <1>0, <1>1, <1>2, <2>2
<1>5. TaskInv'
  <2>1. \A c \in Pids : task'[c].st # "free" => task'[c].id \in 1..births'
    BY <1>0, <1>1, <1>3 DEF TaskInv
  <2>2. \A c, d \in Pids :
           task'[c].st # "free" /\ task'[d].st # "free" /\ task'[c].id = task'[d].id => c = d
    BY <1>0, <1>1, <1>3 DEF TaskInv
  <2>3. ASSUME NEW c \in Pids, task'[c].st # "free", task'[c].tg = c, task'[c].par \in Pids
        PROVE  /\ task'[task'[c].par].st \in {"born", "run", "exiting"}
               /\ task'[task'[c].par].id = task'[c].parId /\ task'[task'[c].par].tg # c
    BY <1>0, <1>1, <1>3, <2>3 DEF TaskInv
  <2>4. \A c \in Pids : task'[c].st = "exiting" => task'[c].t # 0
    BY <1>0, <1>3 DEF TaskInv
  <2>5. ASSUME NEW c \in Pids, task'[c].st = "born", task'[c].par \in Pids
        PROVE  task'[task'[c].par].st = "run" /\ task'[task'[c].par].id = task'[c].parId
    BY <1>0, <1>1, <1>3, <2>5 DEF TaskInv
  <2>6. \A c \in Pids : task'[c].st # "free" =>
           task'[c].tg \in Pids /\ task'[task'[c].tg].st # "free" /\ task'[task'[c].tg].tg = task'[c].tg
    BY <1>0, <1>1, <1>3 DEF TaskInv
  <2> QED
    BY <2>1, <2>2, <2>3, <2>4, <2>5, <2>6 DEF TaskInv
<1>6. \A id : Alive(id)' <=> Alive(id)
  <2>1. \A c \in Pids : /\ task'[c].id = task[c].id
                        /\ task'[c].st \in {"born", "run", "exiting"}
                             <=> task[c].st \in {"born", "run", "exiting"}
    BY <1>1, <1>3
  <2> QED
    BY <2>1 DEF Alive
<1>7. ListOK' /\ IdInv' /\ StaleInv' /\ ParentInv' /\ LinkInv' /\ MarkInv' /\ OrderInv'
  <2>1. /\ UNCHANGED <<table, copy, early, taken>> /\ stale \subseteq stale' /\ mod' = mod
        /\ births' \in Nat /\ births' >= births
    BY <1>0, <1>1 DEF module
  <2>2. \A p \in Pids : /\ task'[p].st \in Settled => task[p].st \in Settled
                        /\ task'[p].st = "zombie" => task[p].st = "zombie"
    <3> TAKE p \in Pids
    <3>0. task[q].st = "run" /\ task'[q].st = "exiting"
      BY <1>1, <1>3
    <3>1. CASE p = q
      BY <3>0, <3>1 DEF Settled
    <3>2. CASE p # q
      BY <1>3, <3>2
    <3> QED
      BY <3>1, <3>2
  <2>3. IdsStay /\ BornStay
    BY <1>1, <1>3 DEF IdsStay, BornStay
  <2> QED
    BY <1>6, <2>1, <2>2, <2>3, QuietInvs
<1>8. OthersOK' /\ ModInv'
  BY <1>0, <1>1 DEF OthersOK, ModInv, module
<1>9. TypeOK'
  BY <1>0, <1>1, <1>4, <1>7, <1>8, TypeParts
<1> QED
  BY <1>5, <1>7, <1>8, <1>9 DEF IndInv

(* wait(): the pid is free.                                                *)
LEMMA ReapInv ==
    ASSUME IndInv, NEW q \in Pids, Reap(q)
    PROVE  IndInv'
<1>0. /\ TypeOK /\ TaskInv /\ OthersOK /\ ModInv /\ task \in [Pids -> Tasks]
      /\ births \in Ids /\ births \in Nat
  BY TypeParts, ProcAssumption DEF IndInv, Ids
<1>1. /\ task[q].st = "zombie" /\ task' = [task EXCEPT ![q] = NoTask]
      /\ task[q].tg = q => \A r \in Pids \ {q} : task[r].st = "free" \/ task[r].tg # q
      /\ UNCHANGED <<births, table, module, gc, now, skips, stale, early, taken>>
  BY DEF Reap, Threads
<1>2. /\ \A c \in Pids : c # q => task'[c] = task[c]
      /\ task'[q].st = "free"
  BY <1>0, <1>1 DEF NoTask
<1>3. task' \in [Pids -> Tasks]
  <2>1. NoTask \in Tasks
    <3>1. 0 \in Ids /\ 0 \in 0..MaxTime
      BY ProcAssumption DEF Ids
    <3> QED
      BY <3>1 DEF NoTask, Tasks, Places
  <2> HIDE DEF Tasks
  <2> QED
    BY <1>0, <1>1, <2>1
<1>4. TaskInv'
  BY <1>0, <1>1, <1>2 DEF TaskInv
<1>5. \A id : Alive(id)' <=> Alive(id)
  BY <1>1, <1>2 DEF Alive
<1>6. ListOK' /\ IdInv' /\ StaleInv' /\ ParentInv' /\ LinkInv' /\ MarkInv' /\ OrderInv'
  <2>1. /\ UNCHANGED <<table, copy, early, taken>> /\ stale \subseteq stale' /\ mod' = mod
        /\ births' \in Nat /\ births' >= births
    BY <1>0, <1>1 DEF module
  <2>2. \A p \in Pids : /\ task'[p].st \in Settled => task[p].st \in Settled
                        /\ task'[p].st = "zombie" => task[p].st = "zombie"
    BY <1>2 DEF Settled
  <2>3. IdsStay /\ BornStay
    BY <1>1, <1>2 DEF IdsStay, BornStay
  <2> QED
    BY <1>5, <2>1, <2>2, <2>3, QuietInvs
<1>7. OthersOK' /\ ModInv'
  BY <1>0, <1>1 DEF OthersOK, ModInv, module
<1>8. TypeOK'
  BY <1>0, <1>1, <1>3, <1>6, <1>7, TypeParts
<1> QED
  BY <1>4, <1>6, <1>7, <1>8 DEF IndInv

(* A task ends without its tracepoint.                                     *)
LEMMA ExitUnseenInv ==
    ASSUME IndInv, NEW q \in Pids, ExitUnseen(q)
    PROVE  IndInv'
<1>0. /\ TypeOK /\ TaskInv /\ OthersOK /\ ModInv /\ births \in Ids /\ births \in Nat
  BY TypeParts, ProcAssumption DEF IndInv, Ids
<1>1. /\ MayExit(q) /\ task[q].st = "run" /\ tp < 3 /\ task' \in Ended(q) /\ NoteEnd(q)
      /\ UNCHANGED <<births, table, module, gc, now, skips, stale, taken>>
  BY DEF ExitUnseen, MayExit
<1>2. /\ task' \in [Pids -> Tasks] /\ TaskInv' /\ IdsStay /\ BornStay
      /\ OneEnds(q)
  BY <1>0, <1>1, EndedFacts
<1>3. mod # "on" /\ task[q].id \in early'
  BY <1>0, <1>1 DEF ModInv, OthersOK, NoteEnd
<1>4. /\ UNCHANGED <<lru, count, copy>> /\ stale \subseteq stale' /\ mod' = mod
      /\ births' = births /\ births' \in Nat /\ births' >= births
  BY <1>0, <1>1 DEF module, table
<1>5. IdInv' /\ StaleInv' /\ ParentInv' /\ LinkInv'
  <2>1. \A p \in Pids : task'[p].st \in Settled => task[p].st \in Settled
    <3> TAKE p \in Pids
    <3>1. CASE p = q
      BY <1>1, <3>1 DEF Settled
    <3>2. CASE p # q
      BY <1>2, <3>2 DEF OneEnds
    <3> QED
      BY <3>1, <3>2
  <2> QED
    BY <1>2, <1>4, <2>1, QuietLinks
<1>6. MarkInv'
  <2>1. Cached' = Cached
    BY <1>4 DEF Cached
  <2> QED
    BY <1>1, <1>2, <1>3, <1>4, <2>1, EndMarks
<1>7. ListOK' /\ OrderInv'
  <2>1. ListOK /\ OrderInv
    BY TypeParts DEF IndInv
  <2> QED
    BY <1>1, <1>4, <2>1 DEF ListOK, OrderInv
<1>8. OthersOK' /\ ModInv'
  <2>1. task[q].id \in Ids
    BY <1>0 DEF TypeOK
  <2>2. early' \subseteq Ids
    BY <1>0, <1>1, <2>1 DEF NoteEnd, OthersOK
  <2> QED
    BY <1>0, <1>1, <2>2 DEF OthersOK, ModInv, module
<1>9. TypeOK'
  BY <1>0, <1>1, <1>2, <1>7, <1>8, TypeParts
<1> QED
  BY <1>2, <1>5, <1>6, <1>7, <1>8, <1>9 DEF IndInv

(* exec in a thread: the leader's pid has a live task again.               *)
LEMMA TakeOverInv ==
    ASSUME IndInv, NEW q \in Pids, TakeOver(q)
    PROVE  IndInv'
<1> DEFINE l == task[q].tg
           G == Given(q, l, task[l].id)
<1>0. /\ TypeOK /\ TaskInv /\ OthersOK /\ ModInv /\ task \in [Pids -> Tasks]
      /\ births \in Ids /\ births \in Nat
  BY TypeParts, ProcAssumption DEF IndInv, Ids
<1>1. /\ task[q].st = "run" /\ l # q /\ task[l].st = "zombie"
      /\ \A c \in Pids : ~(task[c].st = "born" /\ task[c].par = q)
      /\ \A c \in Pids : task[c].st # "free" /\ task[c].tg = l => c = q \/ c = l
      /\ task' = [G EXCEPT ![l].st = "run", ![q] = NoTask]
      /\ taken' = taken \cup {task[l].id, task[q].id}
      /\ UNCHANGED <<births, table, module, gc, now, skips, stale, early>>
  BY DEF TakeOver, MayExit, Threads
<1>2. l \in Pids /\ task[l].tg = l /\ task[l].id \in Ids
  BY <1>0, <1>1 DEF TaskInv, Tasks
<1>3. /\ G \in [Pids -> Tasks]
      /\ \A c \in Pids :
           /\ G[c].id = task[c].id /\ G[c].st = task[c].st
           /\ G[c].t = task[c].t /\ G[c].tg = task[c].tg
           /\ IF task[c].st # "free" /\ task[c].par = q /\ c # q
              THEN G[c].par = l /\ G[c].parId = task[l].id
              ELSE G[c].par = task[c].par /\ G[c].parId = task[c].parId
  <2>1. PICK r \in Pids \cup {Swapper}, rid \in Ids : r = l /\ rid = task[l].id
    BY <1>2
  <2>2. G = Given(q, r, rid)
    BY <2>1
  <2> HIDE DEF G, l, Tasks
  <2> QED
    BY <1>0, <2>1, <2>2, GivenFacts
<1> HIDE DEF G, l
<1>4. /\ \A c \in Pids : c # q /\ c # l => task'[c] = G[c]
      /\ task'[l] = [G[l] EXCEPT !.st = "run"] /\ task'[q] = NoTask
  BY <1>1, <1>2, <1>3
<1>5. task' \in [Pids -> Tasks]
  <2>1. NoTask \in Tasks
    <3>1. 0 \in Ids /\ 0 \in 0..MaxTime
      BY ProcAssumption DEF Ids
    <3> QED
      BY <3>1 DEF NoTask, Tasks, Places
  <2>2. [G[l] EXCEPT !.st = "run"] \in Tasks
    BY <1>2, <1>3 DEF Tasks, Places
  <2> HIDE DEF Tasks
  <2> QED
    BY <1>1, <1>2, <1>3, <1>4, <2>1, <2>2
<1>6. task'[q].st = "free"
  BY <1>4 DEF NoTask
<1>7. ASSUME NEW c \in Pids, c # q
      PROVE  /\ task'[c].id = task[c].id /\ task'[c].tg = task[c].tg /\ task'[c].t = task[c].t
             /\ task'[c].st = IF c = l THEN "run" ELSE task[c].st
             /\ IF task[c].st # "free" /\ task[c].par = q
                THEN task'[c].par = l /\ task'[c].parId = task[l].id
                ELSE task'[c].par = task[c].par /\ task'[c].parId = task[c].parId
  <2>1. G[c] \in Tasks
    BY <1>3
  <2>2. CASE c = l
    BY <1>3, <1>4, <1>7, <2>1, <2>2 DEF Tasks
  <2>3. CASE c # l
    BY <1>3, <1>4, <1>7, <2>3
  <2> QED
    BY <2>2, <2>3
<1>8. TaskInv'
  <2>1. \A c \in Pids : task'[c].st # "free" => c # q /\ task[c].st # "free"
    BY <1>1, <1>6, <1>7
  <2>2. \A c \in Pids : task'[c].st # "free" => task'[c].id \in 1..births'
    BY <1>0, <1>1, <1>7, <2>1 DEF TaskInv
  <2>3. \A c, d \in Pids :
           task'[c].st # "free" /\ task'[d].st # "free" /\ task'[c].id = task'[d].id => c = d
    BY <1>0, <1>7, <2>1 DEF TaskInv
  <2>4. ASSUME NEW c \in Pids, task'[c].st # "free", task'[c].tg = c, task'[c].par \in Pids
        PROVE  /\ task'[task'[c].par].st \in {"born", "run", "exiting"}
               /\ task'[task'[c].par].id = task'[c].parId /\ task'[task'[c].par].tg # c
    <3>0. c # q /\ task[c].st # "free" /\ task[c].tg = c
      BY <1>7, <2>1, <2>4
    <3>1. CASE task[c].par = q
      <4>1. task'[c].par = l /\ task'[c].parId = task[l].id
        BY <1>7, <3>0, <3>1
      <4>2. l # c
        BY <1>0, <3>0, <3>1 DEF TaskInv, l
      <4>3. task'[l].st = "run" /\ task'[l].id = task[l].id /\ task'[l].tg = l
        BY <1>1, <1>2, <1>7
      <4> QED
        BY <4>1, <4>2, <4>3
    <3>2. CASE task[c].par # q
      <4>1. task'[c].par = task[c].par /\ task'[c].parId = task[c].parId
        BY <1>7, <3>0, <3>2
      <4>2. /\ task[task[c].par].st \in {"born", "run", "exiting"}
            /\ task[task[c].par].id = task[c].parId /\ task[task[c].par].tg # c
        BY <1>0, <2>4, <3>0, <4>1 DEF TaskInv
      <4>3. task[c].par # l
        BY <1>1, <4>2
      <4> QED
        BY <1>7, <2>4, <3>2, <4>1, <4>2, <4>3
    <3> QED
      BY <3>1, <3>2
  <2>5. ASSUME NEW c \in Pids, task'[c].st = "born", task'[c].par \in Pids
        PROVE  task'[task'[c].par].st = "run" /\ task'[task'[c].par].id = task'[c].parId
    <3>0. c # q
      BY <1>6, <2>5
    <3>1. c # l /\ task[c].st = "born" /\ task[c].par # q
      <4>1. c # l
        BY <1>1, <1>2, <1>7, <2>5, <3>0
      <4>2. task[c].st = "born"
        BY <1>7, <2>5, <3>0, <4>1
      <4> QED
        BY <1>1, <4>1, <4>2
    <3>2. task'[c].par = task[c].par /\ task'[c].parId = task[c].parId
      BY <1>7, <3>0, <3>1
    <3>3. task[task[c].par].st = "run" /\ task[task[c].par].id = task[c].parId /\ task[c].par # l
      BY <1>0, <1>1, <2>5, <3>1, <3>2 DEF TaskInv
    <3> QED
      BY <1>7, <2>5, <3>1, <3>2, <3>3
  <2>6. \A c \in Pids : task'[c].st = "exiting" => task'[c].t # 0
    BY <1>0, <1>6, <1>7 DEF TaskInv
  <2>7. ASSUME NEW c \in Pids, task'[c].st # "free"
        PROVE  /\ task'[c].tg \in Pids /\ task'[task'[c].tg].st # "free"
               /\ task'[task'[c].tg].tg = task'[c].tg
    <3>1. c # q /\ task[c].st # "free" /\ task'[c].tg = task[c].tg
      BY <1>7, <2>1, <2>7
    <3>2. task[c].tg # q
      BY <1>0, <1>1, <3>1 DEF TaskInv, l
    <3> QED
      BY <1>0, <1>7, <3>1, <3>2 DEF TaskInv
  <2> QED
    BY <1>0, <2>2, <2>3, <2>4, <2>5, <2>6, <2>7 DEF TaskInv
<1>9. IdsStay /\ BornStay
  BY <1>1, <1>6, <1>7 DEF IdsStay, BornStay
<1>10. \A id \in 1..births : id \in taken' \/ (Alive(id)' <=> Alive(id))
  <2> SUFFICES ASSUME NEW id, id # task[l].id, id # task[q].id PROVE Alive(id)' <=> Alive(id)
    BY <1>1
  <2>1. \A c \in Pids :
           task'[c].id = id /\ task'[c].st \in {"born", "run", "exiting"}
             <=> task[c].id = id /\ task[c].st \in {"born", "run", "exiting"}
    <3> TAKE c \in Pids
    <3>1. CASE c = q
      BY <1>6, <3>1
    <3>2. CASE c = l
      BY <1>1, <1>7, <3>2
    <3>3. CASE c # q /\ c # l
      BY <1>7, <3>3
    <3> QED
      BY <3>1, <3>2, <3>3
  <2> QED
    BY <2>1 DEF Alive
<1>11. ListOK' /\ IdInv' /\ StaleInv' /\ ParentInv' /\ LinkInv' /\ MarkInv' /\ OrderInv'
  <2>1. /\ UNCHANGED <<table, copy, early>> /\ taken \subseteq taken' /\ stale \subseteq stale'
        /\ mod' = mod /\ births' \in Nat /\ births' >= births
    BY <1>0, <1>1 DEF module
  <2>2. \A p \in Pids : /\ task'[p].st \in Settled => task[p].st \in Settled
                        /\ task'[p].st = "zombie" => task[p].st = "zombie"
    BY <1>1, <1>6, <1>7 DEF Settled
  <2> QED
    BY <1>9, <1>10, <2>1, <2>2, QuietInvs
<1>12. OthersOK' /\ ModInv'
  <2>1. task[q].id \in Ids
    BY <1>0 DEF Tasks
  <2>2. taken' \subseteq Ids
    BY <1>0, <1>1, <1>2, <2>1 DEF OthersOK
  <2> QED
    BY <1>0, <1>1, <2>2 DEF OthersOK, ModInv, module
<1>13. TypeOK'
  BY <1>0, <1>1, <1>5, <1>11, <1>12, TypeParts
<1> QED
  BY <1>8, <1>11, <1>12, <1>13 DEF IndInv

(* Steps of the clock, the work item and the module that leave tasks and   *)
(* entries alone.                                                          *)
ModuleStep ==
    Tick \/ GcBegin \/ Register \/ RegisterFails \/ PreloadDone \/ Unregister \/ UNCHANGED vars

(* They keep the inductive invariant.                                      *)
LEMMA ModuleInv == IndInv /\ ModuleStep => IndInv'
<1> SUFFICES ASSUME IndInv, ModuleStep PROVE IndInv'
  OBVIOUS
<1>0. /\ TypeOK /\ TaskInv /\ OthersOK /\ ModInv /\ births \in Ids /\ births \in Nat
      /\ task \in [Pids -> Tasks]
  BY TypeParts, ProcAssumption DEF IndInv, Ids
<1>1. UNCHANGED <<task, births, lru, count, copy, skips, stale, early, taken>>
  BY DEF ModuleStep, Tick, GcBegin, Register, RegisterFails, PreloadDone, Unregister, vars,
         tasks, table, module
<1>2. mod' = "loading" => mod = "loading"
  BY DEF ModuleStep, Tick, GcBegin, Register, RegisterFails, PreloadDone, Unregister, vars, module
<1>3. ListOK' /\ IdInv' /\ StaleInv' /\ ParentInv' /\ LinkInv' /\ MarkInv' /\ OrderInv'
  <2>1. UNCHANGED table /\ births' \in Nat /\ births' >= births /\ IdsStay /\ BornStay
    BY <1>0, <1>1 DEF table, IdsStay, BornStay
  <2>2. \A id : Alive(id)' <=> Alive(id)
    BY <1>1 DEF Alive
  <2> QED
    BY <1>1, <1>2, <2>1, <2>2, QuietInvs
<1>4. OthersOK' /\ ModInv'
  <2>1. CASE Tick
    BY <1>0, <1>1, <2>1, ProcAssumption DEF Tick, OthersOK, ModInv, module
  <2>2. CASE GcBegin
    BY <1>0, <1>1, <2>2 DEF GcBegin, OthersOK, ModInv, module
  <2>3. CASE Register
    BY <1>0, <1>1, <2>3 DEF Register, OthersOK, ModInv
  <2>4. CASE RegisterFails
    BY <1>0, <1>1, <2>4 DEF RegisterFails, OthersOK, ModInv
  <2>5. CASE PreloadDone
    BY <1>0, <1>1, <2>5 DEF PreloadDone, OthersOK, ModInv
  <2>6. CASE Unregister
    BY <1>0, <1>1, <2>6 DEF Unregister, OthersOK, ModInv
  <2>7. CASE UNCHANGED vars
    BY <1>0, <1>1, <2>7 DEF vars, OthersOK, ModInv, module
  <2> QED
    BY <2>1, <2>2, <2>3, <2>4, <2>5, <2>6, <2>7 DEF ModuleStep
<1>5. TypeOK' /\ TaskInv'
  BY <1>0, <1>1, <1>3, <1>4, TypeParts DEF TaskInv
<1> QED
  BY <1>3, <1>4, <1>5 DEF IndInv

-----------------------------------------------------------------------------
(* The steps that change the list.                                         *)

(* A list in order is in order for more stale pids.                        *)
LEMMA OrderWeakens ==
    ASSUME NEW l, NEW X, NEW Y, NEW T, X \subseteq Y, InOrder(l, X, T)
    PROVE  InOrder(l, Y, T)
  BY DEF InOrder

(* ig_pc_on_fork on the list: the last entry goes only when the cache is   *)
(* full and has none for the pid.                                          *)
LEMMA ForkList ==
    ASSUME TypeOK, TaskInv, OrderInv, NEW q \in Pids, ig_pc_on_fork(q)
    PROVE  /\ ListOK' /\ OrderInv' /\ count' >= count
           /\ EntryOf(q) \in Cached' /\ EntryOf(q) \in Entries
           /\ \A e \in Cached' : e = EntryOf(q) \/ (e \in Cached /\ e.pid # q)
           /\ \A e \in Cached : e.pid = q \/ e \in Cached' \/
                 /\ count = MaxEntries /\ count' = MaxEntries
                 /\ e.exit # 0 \/ stale # {} \/ \A f \in Cached : f.exit = 0 \/ f.id \in taken
<1> DEFINE E == EntryOf(q)
           w == Without(lru, q)
           n == IF InCache(q) THEN count - 1 ELSE count
           v == IF n >= MaxEntries THEN ig_pc_evict_one_locked(w) ELSE w
<1>0. /\ lru \in Seq(Entries) /\ Distinct(lru) /\ count = Len(lru) /\ count <= MaxEntries
      /\ Cached = Elems(lru) /\ MaxEntries \in Nat /\ MaxEntries > 0 /\ InOrder(lru, stale, taken)
      /\ count \in Nat
  BY TypeParts, EntryTypes, ProcAssumption DEF ListOK, OrderInv
<1>1. /\ lru' = list_add(v, E) /\ count' = (IF n >= MaxEntries THEN n ELSE n + 1)
      /\ stale' = stale \ {q} /\ taken' = taken
  BY DEF ig_pc_on_fork
<1>2. E \in Entries /\ E.exit = 0 /\ E.pid = q
  <2>1. IsEntryOfTask(E)
    BY DEF ig_pc_on_fork, IsEntryOfTask
  <2>2. E \in Entries /\ E.exit = 0
    BY <2>1, EntryOfTask
  <2> QED
    BY <2>2 DEF EntryOf
<1> HIDE DEF E
<1>3. /\ w \in Seq(Entries) /\ Distinct(w) /\ Elems(w) = {e \in Elems(lru) : e.pid # q}
      /\ Len(w) = IF \E e \in Elems(lru) : e.pid = q THEN Len(lru) - 1 ELSE Len(lru)
      /\ \A X : InOrder(lru, X, taken) => InOrder(w, X \ {q}, taken)
  BY <1>0, WithoutList
<1> HIDE DEF w
<1>4. Len(w) = n /\ n \in Int /\ n >= 0 /\ n <= MaxEntries
  <2>1. InCache(q) <=> \E e \in Elems(lru) : e.pid = q
    BY <1>0 DEF InCache
  <2>2. Len(w) = n
    BY <1>0, <1>3, <2>1
  <2>3. Len(w) \in Nat
    BY <1>3
  <2> QED
    BY <1>0, <2>2, <2>3
<1>5. /\ v \in Seq(Entries) /\ Distinct(v) /\ Elems(v) \subseteq Elems(w)
      /\ Len(v) = IF n >= MaxEntries THEN n - 1 ELSE n
      /\ InOrder(v, stale \ {q}, taken)
      /\ \A e \in Elems(w) : e \in Elems(v) \/ (n >= MaxEntries /\ e = w[Len(w)])
  <2>1. InOrder(w, stale \ {q}, taken)
    BY <1>0, <1>3
  <2>2. CASE n >= MaxEntries
    BY <1>0, <1>3, <1>4, <2>1, <2>2, EvictList
  <2>3. CASE ~(n >= MaxEntries)
    BY <1>3, <1>4, <2>1, <2>3
  <2> QED
    BY <2>2, <2>3
<1>6. n >= MaxEntries => ~InCache(q) /\ n = MaxEntries /\ count = MaxEntries
  BY <1>0
<1> HIDE DEF v, n
<1>7. /\ lru' \in Seq(Entries) /\ Distinct(lru') /\ Len(lru') = Len(v) + 1
      /\ Elems(lru') = Elems(v) \cup {E} /\ InOrder(lru', stale', taken)
  <2>1. \A f \in Elems(v) : f.pid # E.pid
    BY <1>2, <1>3, <1>5
  <2> QED
    BY <1>1, <1>2, <1>5, <2>1, FrontList
<1>8. Cached' = Elems(lru')
  BY DEF Cached, Elems
<1>9. ListOK' /\ OrderInv'
  BY <1>0, <1>1, <1>4, <1>5, <1>6, <1>7 DEF ListOK, OrderInv
<1>10. count' >= count
  <2>1. n >= count - 1
    BY <1>0 DEF n
  <2> QED
    BY <1>0, <1>1, <1>4, <1>6, <2>1
<1>11. \A e \in Cached' : e = E \/ (e \in Cached /\ e.pid # q)
  <2> TAKE e \in Cached'
  <2>1. e = E \/ e \in Elems(v)
    BY <1>7, <1>8
  <2>2. e \in Elems(v) => e \in Elems(lru) /\ e.pid # q
    BY <1>3, <1>5
  <2>3. Elems(lru) = Cached
    BY <1>0
  <2> QED
    BY <2>1, <2>2, <2>3, Zenon
<1>12. ASSUME NEW e \in Cached, e.pid # q, e \notin Cached'
       PROVE  /\ count = MaxEntries /\ count' = MaxEntries
              /\ e.exit # 0 \/ stale # {} \/ \A f \in Cached : f.exit = 0 \/ f.id \in taken
  <2>1. e \in Elems(w)
    BY <1>0, <1>3, <1>12
  <2>2. n >= MaxEntries /\ e = w[Len(w)]
    BY <1>5, <1>7, <1>8, <1>12, <2>1
  <2>3. count = MaxEntries /\ count' = MaxEntries /\ ~InCache(q)
    BY <1>1, <1>6, <2>2
  <2>4. ASSUME stale = {}, e.exit = 0, NEW f \in Cached PROVE f.exit = 0 \/ f.id \in taken
    <3>1. f \in Elems(w)
      BY <1>0, <1>3, <2>3 DEF InCache
    <3>2. PICK m \in DOMAIN w : f = w[m]
      BY <3>1 DEF Elems
    <3>3. InOrder(w, {}, taken)
      <4>1. stale \ {q} = {}
        BY <2>4
      <4> QED
        BY <1>0, <1>3, <4>1
    <3>4. m \in 1..Len(w) /\ Len(w) \in DOMAIN w /\ Len(w) \in Nat
      BY <1>0, <1>3, <1>4, <1>6, <2>2
    <3>5. CASE m < Len(w)
      BY <2>2, <2>4, <3>2, <3>3, <3>4, <3>5 DEF InOrder
    <3>6. CASE m = Len(w)
      BY <2>2, <2>4, <3>2, <3>6
    <3> QED
      BY <3>4, <3>5, <3>6
  <2> QED
    BY <2>3, <2>4
<1> QED
  BY <1>2, <1>7, <1>8, <1>9, <1>10, <1>11, <1>12 DEF E

(* ig_pc_on_fork: the entry of the task replaces that of an older one.     *)
LEMMA ForkInv ==
    ASSUME IndInv, NEW q \in Pids, ig_pc_on_fork(q)
    PROVE  IndInv'
<1>0. TypeOK /\ TaskInv /\ OthersOK /\ ModInv /\ OrderInv /\ MarkInv
  BY TypeParts DEF IndInv
<1>1. /\ task[q].st = "born" /\ task' = [task EXCEPT ![q].st = "run"] /\ stale' = stale \ {q}
      /\ UNCHANGED <<births, tp, mod, seen, copy, gc, now, skips, early, taken>>
  BY DEF ig_pc_on_fork, module
<1>2. /\ task' \in [Pids -> Tasks] /\ births' \in Ids /\ births' \in Nat /\ births' >= births
      /\ TaskInv' /\ IdsStay /\ BornStay
      /\ \A p \in Pids : /\ task'[p].id = task[p].id
                         /\ task'[p].st = IF p = q THEN "run" ELSE task[p].st
      /\ \A id : Alive(id)' <=> Alive(id)
  BY <1>0, <1>1, RunsFacts
<1>3. /\ ListOK' /\ OrderInv' /\ count' >= count
      /\ EntryOf(q) \in Cached' /\ EntryOf(q) \in Entries
      /\ \A e \in Cached' : e = EntryOf(q) \/ (e \in Cached /\ e.pid # q)
      /\ \A e \in Cached : e.pid = q \/ e \in Cached' \/ count' = MaxEntries
  BY <1>0, ForkList
<1>4. /\ IsEntryOfTask(EntryOf(q)) /\ EntryOf(q).pid = q /\ EntryOf(q).exit = 0
      /\ EntryOf(q).id = task[q].id
  BY <1>1 DEF IsEntryOfTask, EntryOf
<1>5. \A f \in Coming' : f = EntryOf(q) \/ (f \in Coming /\ f.pid # q)
  <2> TAKE f \in Coming'
  <2>1. CASE f \in Cached'
    BY <1>3, <2>1 DEF Coming
  <2>2. CASE f \notin Cached'
    <3>1. f = copy /\ copy # NoEntry /\ ~InCache(copy.pid)' /\ ~(count' >= MaxEntries)
      BY <1>1, <2>2 DEF Coming
    <3>2. \A e \in Cached' : e.pid # copy.pid
      BY <1>1, <3>1 DEF InCache
    <3>3. copy.pid # q /\ ~InCache(copy.pid)
      BY <1>3, <1>4, <3>1, <3>2, ProcAssumption DEF InCache
    <3>4. ~(count >= MaxEntries)
      <4>1. count \in Nat /\ count' \in Nat /\ MaxEntries \in Nat
        BY <1>0, <1>3, TypeParts, ProcAssumption DEF ListOK
      <4> QED
        BY <1>3, <3>1, <4>1
    <3> QED
      BY <3>1, <3>3, <3>4 DEF Coming
  <2> QED
    BY <2>1, <2>2
<1>6. \A e \in Known' : e = EntryOf(q) \/ e \in Known
  BY <1>1, <1>3 DEF Known
<1>7. IdInv' /\ StaleInv' /\ ParentInv' /\ LinkInv'
  <2>1. OnlyAdds
    BY <1>1, <1>4, <1>5, <1>6 DEF OnlyAdds, Same
  <2>2. SettlesRight
    <3> SUFFICES ASSUME NEW f \in Coming', task'[f.pid].st \in Settled
                 PROVE  task[f.pid].st \in Settled \/ f.id = task[f.pid].id
      BY DEF SettlesRight
    <3>1. CASE f = EntryOf(q)
      BY <1>4, <3>1
    <3>2. CASE f \in Coming /\ f.pid # q
      <4>1. f.pid \in Pids
        BY <1>0, <3>2, EntryTypes
      <4> QED
        BY <1>2, <3>2, <4>1
    <3> QED
      BY <1>5, <3>1, <3>2
  <2> QED
    BY <1>2, <2>1, <2>2, LinksKept DEF IndInv
<1>8. MarkInv'
  <2>1. Alive(EntryOf(q).id)
    BY <1>1, <1>4 DEF Alive
  <2>2. \A e \in Cached' : e \in Known \/ IsEntryOfTask(e)
    BY <1>3, <1>4 DEF Known
  <2>3. \A e \in Cached' : e \in Cached \/ (e.exit = 0 /\ (e.id \in early \cup taken \/ Alive(e.id)))
    BY <1>3, <1>4, <2>1
  <2>4. copy' # NoEntry => copy' \in Known /\ copy'.exit = 0 /\ (copy'.id \in early \cup taken \/ Alive(copy'.id))
    BY <1>0, <1>1 DEF Known, MarkInv
  <2>5. \A p \in Pids : task'[p].st = "zombie" => task[p].st = "zombie" /\ task'[p].id = task[p].id
    BY <1>2
  <2> QED
    BY <1>1, <1>2, <2>2, <2>3, <2>4, <2>5, MarksKept
<1>9. OthersOK' /\ ModInv'
  BY <1>0, <1>1 DEF OthersOK, ModInv
<1>10. TypeOK'
  BY <1>2, <1>3, <1>9, TypeParts
<1> QED
  BY <1>2, <1>3, <1>7, <1>8, <1>9, <1>10 DEF IndInv

(* ig_pc_on_exec on the list: the entry, unless its pid is stale or was    *)
(* taken over, is that of the running task and hence no tombstone.         *)
LEMMA ExecList ==
    ASSUME IndInv, NEW q \in Pids, ig_pc_on_exec(q)
    PROVE  ListOK' /\ OrderInv' /\ Cached' = Cached
<1> DEFINE f == ig_pc_find_locked(q)
           w == Without(lru, q)
<1>0. /\ TypeOK /\ lru \in Seq(Entries) /\ Distinct(lru) /\ count = Len(lru) /\ count <= MaxEntries
      /\ Cached = Elems(lru) /\ InOrder(lru, stale, taken) /\ Cached \subseteq Entries
      /\ Cached \subseteq Coming /\ \A g \in Cached, h \in Cached : g.pid = h.pid => g = h
  BY TypeParts, EntryTypes DEF ListOK, OrderInv, IndInv
<1>1. /\ task[q].st = "run" /\ InCache(q) /\ lru' = list_add(w, f)
      /\ UNCHANGED <<count, stale, taken>>
  BY DEF ig_pc_on_exec
<1>2. f \in Cached /\ f.pid = q
  BY <1>0, <1>1, FindFacts
<1>3. f.exit = 0 \/ q \in stale \/ f.id \in taken
  <2>1. f.id = task[q].id \/ q \in stale
    BY <1>0, <1>1, <1>2 DEF IndInv, StaleInv, Settled
  <2>2. CASE f.id = task[q].id
    <3>1. Alive(f.id)
      BY <1>1, <2>2 DEF Alive
    <3>2. f.id \notin early \ taken
      BY <3>1 DEF IndInv, MarkInv
    <3> QED
      BY <1>2, <3>1, <3>2 DEF IndInv, MarkInv, MarkIsRight
  <2> QED
    BY <2>1, <2>2
<1> HIDE DEF f
<1>4. /\ w \in Seq(Entries) /\ Distinct(w) /\ Elems(w) = {e \in Elems(lru) : e.pid # q}
      /\ Len(w) = IF \E e \in Elems(lru) : e.pid = q THEN Len(lru) - 1 ELSE Len(lru)
      /\ InOrder(w, stale \ {q}, taken)
  BY <1>0, WithoutList
<1>5. Len(w) = Len(lru) - 1
  BY <1>0, <1>2, <1>4
<1>6. InOrder(w, stale, taken)
  BY <1>4, OrderWeakens
<1> HIDE DEF w
<1>7. /\ lru' \in Seq(Entries) /\ Distinct(lru') /\ Len(lru') = Len(w) + 1
      /\ Elems(lru') = Elems(w) \cup {f} /\ InOrder(lru', stale, taken)
  <2>1. f \in Entries /\ \A g \in Elems(w) : g.pid # f.pid
    BY <1>0, <1>2, <1>4
  <2> QED
    BY <1>1, <1>2, <1>3, <1>4, <1>6, <2>1, FrontList
<1>8. Cached' = Cached
  <2>1. Cached' = Elems(lru')
    BY DEF Cached, Elems
  <2>2. \A e \in Cached : e.pid = q => e = f
    BY <1>0, <1>2
  <2> QED
    BY <1>0, <1>2, <1>4, <1>7, <2>1, <2>2
<1>9. ListOK' /\ OrderInv'
  BY <1>0, <1>1, <1>5, <1>7 DEF ListOK, OrderInv
<1> QED
  BY <1>8, <1>9

(* ig_pc_on_exec moves the entry of the task to the front.                 *)
LEMMA ExecInv ==
    ASSUME IndInv, NEW q \in Pids, ig_pc_on_exec(q)
    PROVE  IndInv'
<1>0. /\ TypeOK /\ TaskInv /\ OthersOK /\ ModInv /\ MarkInv /\ births \in Ids /\ births \in Nat
      /\ task \in [Pids -> Tasks]
  BY TypeParts, ProcAssumption DEF IndInv, Ids
<1>1. UNCHANGED <<task, births, count, tp, mod, seen, copy, gc, now, skips, stale, early, taken>>
  BY DEF ig_pc_on_exec, tasks, module
<1>2. ListOK' /\ OrderInv' /\ Cached' = Cached
  BY ExecList
<1>3. Known' = Known /\ Coming' = Coming
  BY <1>1, <1>2 DEF Known, Coming, InCache
<1>4. IdInv' /\ StaleInv' /\ ParentInv' /\ LinkInv'
  BY <1>1, <1>3 DEF IndInv, IdInv, StaleInv, ParentInv, LinkInv
<1>5. MarkInv'
  BY <1>0, <1>1, <1>2 DEF MarkInv, MarkIsRight, Alive
<1>6. OthersOK' /\ ModInv'
  BY <1>0, <1>1 DEF OthersOK, ModInv
<1>7. TypeOK' /\ TaskInv'
  BY <1>0, <1>1, <1>2, <1>6, TypeParts DEF TaskInv
<1> QED
  BY <1>2, <1>4, <1>5, <1>6, <1>7 DEF IndInv

(* ig_pc_on_exit on the list: the entry goes to the tail with its mark.    *)
LEMMA MarkList ==
    ASSUME IndInv, NEW q \in Pids, MarkExit(q)
    PROVE  /\ ListOK' /\ OrderInv'
           /\ \A e \in Cached' : \/ e \in Cached /\ e.pid # q
                                 \/ e.exit # 0 /\ \E g \in Cached : Same(e, g) /\ g.pid = q
           /\ \A g \in Cached : \E e \in Cached' : e.pid = g.pid
<1> DEFINE f == ig_pc_find_locked(q)
           h == [f EXCEPT !.exit = task[q].t]
           w == Without(lru, q)
<1>0. /\ TypeOK /\ lru \in Seq(Entries) /\ Distinct(lru) /\ count = Len(lru) /\ count <= MaxEntries
      /\ Cached = Elems(lru) /\ InOrder(lru, stale, taken) /\ Cached \subseteq Entries
  BY TypeParts, EntryTypes DEF ListOK, OrderInv, IndInv
<1>1. /\ lru' = (IF InCache(q) THEN list_move_tail(lru, h) ELSE lru)
      /\ UNCHANGED <<count, stale, taken>>
  BY DEF MarkExit
<1>2. task[q].t # 0 /\ task[q].t \in 0..MaxTime
  BY DEF MarkExit, IndInv, TaskInv, TypeOK
<1>3. Cached' = Elems(lru')
  BY DEF Cached, Elems
<1>4. CASE ~InCache(q)
  <2>1. lru' = lru /\ Cached' = Cached /\ \A e \in Cached : e.pid # q
    BY <1>0, <1>1, <1>3, <1>4 DEF InCache
  <2> QED
    BY <1>0, <1>1, <2>1 DEF ListOK, OrderInv
<1>5. CASE InCache(q)
  <2>1. f \in Cached /\ f.pid = q
    BY <1>0, <1>5, FindFacts
  <2>2. f \in Entries
    BY <1>0, <2>1
  <2> HIDE DEF f
  <2>3. h \in Entries /\ h.exit = task[q].t /\ Same(h, f)
    BY <1>2, <2>2 DEF Entries, Same
  <2> HIDE DEF h
  <2>4. /\ w \in Seq(Entries) /\ Distinct(w) /\ Elems(w) = {e \in Elems(lru) : e.pid # q}
        /\ Len(w) = IF \E e \in Elems(lru) : e.pid = q THEN Len(lru) - 1 ELSE Len(lru)
        /\ InOrder(w, stale \ {q}, taken)
    BY <1>0, WithoutList
  <2>5. Len(w) = Len(lru) - 1 /\ InOrder(w, stale, taken)
    BY <1>0, <2>1, <2>4, OrderWeakens
  <2>6. h.pid = q
    BY <2>1, <2>3 DEF Same
  <2>7. lru' = Append(w, h)
    BY <1>1, <1>5, <2>6 DEF list_move_tail
  <2> HIDE DEF w
  <2>8. /\ lru' \in Seq(Entries) /\ Distinct(lru') /\ Len(lru') = Len(w) + 1
        /\ Elems(lru') = Elems(w) \cup {h} /\ InOrder(lru', stale, taken)
    <3>1. \A g \in Elems(w) : g.pid # h.pid
      BY <2>4, <2>6
    <3> QED
      BY <1>2, <2>3, <2>4, <2>5, <2>7, <3>1, BackList
  <2>9. ListOK' /\ OrderInv'
    BY <1>0, <1>1, <2>5, <2>8 DEF ListOK, OrderInv
  <2>10. ASSUME NEW e \in Cached'
         PROVE  \/ e \in Cached /\ e.pid # q
                \/ e.exit # 0 /\ \E g \in Cached : Same(e, g) /\ g.pid = q
    <3>1. e \in Elems(w) \/ e = h
      BY <1>3, <2>8
    <3>2. CASE e \in Elems(w)
      BY <1>0, <2>4, <3>2
    <3>3. CASE e = h
      BY <1>2, <2>1, <2>3, <3>3
    <3> QED
      BY <3>1, <3>2, <3>3
  <2>11. ASSUME NEW g \in Cached PROVE \E e \in Cached' : e.pid = g.pid
    <3>1. CASE g.pid = q
      BY <1>3, <2>6, <2>8, <3>1
    <3>2. CASE g.pid # q
      BY <1>0, <1>3, <2>4, <2>8, <3>2
    <3> QED
      BY <3>1, <3>2
  <2> QED
    BY <2>9, <2>10, <2>11
<1> QED
  BY <1>4, <1>5

(* ig_pc_on_exit: the entry of the pid becomes a tombstone.                *)
LEMMA MarkExitInv ==
    ASSUME IndInv, NEW q \in Pids, MarkExit(q)
    PROVE  IndInv'
<1>0. /\ TypeOK /\ TaskInv /\ OthersOK /\ ModInv /\ births \in Ids /\ births \in Nat
  BY TypeParts, ProcAssumption DEF IndInv, Ids
<1>1. /\ task[q].st = "exiting" /\ task' \in Ended(q) /\ NoteEnd(q)
      /\ UNCHANGED <<births, count, tp, mod, seen, copy, gc, now, skips, stale, taken>>
  BY DEF MarkExit, module
<1>2. /\ task' \in [Pids -> Tasks] /\ TaskInv' /\ IdsStay /\ BornStay
      /\ OneEnds(q)
  BY <1>0, <1>1, EndedFacts
<1>3. /\ ListOK' /\ OrderInv'
      /\ \A e \in Cached' : \/ e \in Cached /\ e.pid # q
                            \/ e.exit # 0 /\ \E g \in Cached : Same(e, g) /\ g.pid = q
      /\ \A g \in Cached : \E e \in Cached' : e.pid = g.pid
  BY MarkList
<1>4. \A e \in Cached' : \E g \in Cached : Same(e, g)
  BY <1>3 DEF Same
<1>5. OnlyAdds
  <2>1. \A e \in Known' : \E g \in Known : Same(e, g)
    <3> TAKE e \in Known'
    <3>1. CASE e \in Cached'
      BY <1>4, <3>1 DEF Known
    <3>2. CASE e \notin Cached'
      <4>1. e \in Known
        BY <1>1, <3>2 DEF Known
      <4> QED
        BY <4>1 DEF Same
    <3> QED
      BY <3>1, <3>2
  <2>2. \A e \in Coming' : \E g \in Coming : Same(e, g)
    <3> TAKE e \in Coming'
    <3>1. CASE e \in Cached'
      BY <1>4, <3>1 DEF Coming
    <3>2. CASE e \notin Cached'
      <4>1. e = copy /\ copy # NoEntry /\ ~InCache(copy.pid)' /\ ~(count >= MaxEntries)
        BY <1>1, <3>2 DEF Coming
      <4>2. ~InCache(copy.pid)
        BY <1>1, <1>3, <4>1 DEF InCache
      <4>3. e \in Coming
        BY <4>1, <4>2 DEF Coming
      <4> QED
        BY <4>3 DEF Same
    <3> QED
      BY <3>1, <3>2
  <2> QED
    BY <1>1, <2>1, <2>2 DEF OnlyAdds
<1>6. SettlesRight
  <2> SUFFICES ASSUME NEW f \in Coming', task'[f.pid].st \in Settled
               PROVE  task[f.pid].st \in Settled
    BY DEF SettlesRight
  <2>1. f.pid \in Pids
    <3>1. /\ Cached' = {lru'[n] : n \in DOMAIN lru'} /\ lru' \in Seq(Entries)
      BY <1>3 DEF Cached, ListOK
    <3>2. \A e \in Entries : e.pid \in Pids
      BY <1>0, EntryTypes
    <3>3. copy \in Entries \cup {NoEntry} /\ (f \in Cached' \/ (f = copy /\ copy # NoEntry))
      BY <1>0, <1>1 DEF OthersOK, Coming
    <3> HIDE DEF Entries
    <3> QED
      BY <3>1, <3>2, <3>3
  <2>2. CASE f.pid = q
    BY <1>1, <2>2 DEF Settled
  <2>3. CASE f.pid # q
    BY <1>2, <2>1, <2>3 DEF OneEnds
  <2> QED
    BY <2>2, <2>3
<1>7. IdInv' /\ StaleInv' /\ ParentInv' /\ LinkInv'
  <2>1. births' \in Nat /\ births' >= births
    BY <1>0, <1>1
  <2> QED
    BY <1>2, <1>5, <1>6, <2>1, LinksKept DEF IndInv
<1>8. MarkInv'
  BY <1>1, <1>2, <1>3, EndMarks
<1>9. OthersOK' /\ ModInv'
  <2>1. task[q].id \in Ids
    BY <1>0 DEF TypeOK
  <2>2. early' \subseteq Ids
    BY <1>0, <1>1, <2>1 DEF NoteEnd, OthersOK
  <2> QED
    BY <1>0, <1>1, <2>2 DEF OthersOK, ModInv
<1>10. TypeOK'
  BY <1>0, <1>1, <1>2, <1>3, <1>9, TypeParts
<1> QED
  BY <1>2, <1>3, <1>7, <1>8, <1>9, <1>10 DEF IndInv

(* ig_pc_gc_work on the list: the counter goes down by what is taken out.  *)
LEMMA ReapList ==
    ASSUME IndInv, GcReap
    PROVE  /\ ListOK' /\ OrderInv' /\ Cached' \subseteq Cached
           /\ \A f \in Cached' : f.pid \in stale => f.pid \in stale'
           /\ \A e \in Cached : e \in Cached' \/ Expired(e, gc)
           /\ stale' \subseteq stale
<1> DEFINE old == {n \in DOMAIN lru : Expired(lru[n], gc)}
           reaped == {n \in old : Cardinality({m \in old : m > n}) < MaxReap}
           K == DOMAIN lru \ reaped
<1>0. /\ lru \in Seq(Entries) /\ Distinct(lru) /\ count = Len(lru) /\ count <= MaxEntries
      /\ Cached = Elems(lru) /\ InOrder(lru, stale, taken) /\ MaxEntries \in Nat
  BY TypeParts, EntryTypes, ProcAssumption DEF ListOK, OrderInv, IndInv
<1>1. /\ lru' = Sublist(lru, K) /\ count' = count - Cardinality(reaped)
      /\ stale' = stale \ {lru[n].pid : n \in reaped} /\ taken' = taken
  BY DEF GcReap
<1>2. /\ reaped \subseteq DOMAIN lru /\ K \in SUBSET DOMAIN lru /\ DOMAIN lru \ K = reaped
      /\ \A n \in reaped : Expired(lru[n], gc)
  OBVIOUS
<1> HIDE DEF old, reaped, K
<1>3. /\ lru' \in Seq(Entries) /\ Len(lru') = Cardinality(K) /\ Distinct(lru')
      /\ Elems(lru') = {lru[n] : n \in K}
      /\ InOrder(lru', stale \ {lru[n].pid : n \in DOMAIN lru \ K}, taken)
  BY <1>0, <1>1, <1>2, SublistFacts, SublistList
<1>4. /\ Cardinality(K) = count - Cardinality(reaped) /\ Cardinality(reaped) \in Nat
      /\ Cardinality(K) \in Nat
  <2>1. PICK N \in Nat : N = Len(lru) /\ DOMAIN lru = 1..N
    BY <1>0
  <2>2. IsFiniteSet(DOMAIN lru) /\ Cardinality(DOMAIN lru) = Len(lru)
    <3>1. IsFiniteSet(1..N) /\ Cardinality(1..N) = N
      BY FS_Interval
    <3> QED
      BY <2>1, <3>1
  <2>3. reaped \cap DOMAIN lru = reaped /\ DOMAIN lru \cap reaped = reaped
    BY <1>2
  <2>4. IsFiniteSet(reaped) /\ Cardinality(reaped) \in Nat
    BY <1>2, <2>2, FS_Subset, FS_CardinalityType
  <2>5. Cardinality(K) = Cardinality(DOMAIN lru) - Cardinality(reaped) /\ IsFiniteSet(K)
    <3>1. /\ IsFiniteSet(DOMAIN lru \ reaped)
          /\ Cardinality(DOMAIN lru \ reaped) =
               Cardinality(DOMAIN lru) - Cardinality(DOMAIN lru \cap reaped)
      BY <2>2, FS_Difference
    <3> QED
      BY <2>3, <3>1 DEF K
  <2> QED
    BY <1>0, <2>2, <2>4, <2>5, FS_CardinalityType
<1>5. Cached' = Elems(lru')
  BY DEF Cached, Elems
<1>6. ListOK'
  BY <1>0, <1>1, <1>3, <1>4 DEF ListOK
<1>7. OrderInv'
  BY <1>1, <1>2, <1>3 DEF OrderInv
<1>8. Cached' \subseteq Cached
  BY <1>0, <1>2, <1>3, <1>5 DEF Elems
<1>9. ASSUME NEW f \in Cached', f.pid \in stale PROVE f.pid \in stale'
  <2>1. PICK m \in K : f = lru[m]
    BY <1>3, <1>5
  <2>2. \A n \in reaped : lru[n].pid # lru[m].pid
    BY <1>0, <1>2, <2>1 DEF Distinct, K
  <2> QED
    BY <1>1, <1>9, <2>1, <2>2
<1>10. ASSUME NEW e \in Cached PROVE e \in Cached' \/ Expired(e, gc)
  <2>1. PICK m \in DOMAIN lru : e = lru[m]
    BY <1>0 DEF Elems
  <2>2. m \in K \/ m \in reaped
    BY <2>1 DEF K
  <2> QED
    BY <1>2, <1>3, <1>5, <2>1, <2>2
<1> QED
  BY <1>1, <1>6, <1>7, <1>8, <1>9, <1>10

(* Steps that only take entries out, when the preload has none in hand.    *)
LEMMA RemovalInv ==
    ASSUME IndInv, UNCHANGED <<task, births, early, taken, copy>>, copy = NoEntry,
           Cached' \subseteq Cached, \A f \in Cached' : f.pid \in stale => f.pid \in stale',
           mod' = "loading" => mod = "loading"
    PROVE  TaskInv' /\ IdInv' /\ MarkInv' /\ StaleInv' /\ ParentInv' /\ LinkInv'
<1>1. Known' = Cached' /\ Coming' = Cached' /\ Known = Cached /\ Coming = Cached
  BY DEF Known, Coming
<1>2. TaskInv /\ IdInv /\ MarkInv /\ StaleInv /\ ParentInv /\ LinkInv
  BY DEF IndInv
<1>3. TaskInv'
  BY <1>2 DEF TaskInv
<1>4. IdInv' /\ ParentInv'
  BY <1>1, <1>2 DEF IdInv, ParentInv
<1>5. StaleInv'
  BY <1>1, <1>2 DEF StaleInv
<1>6. LinkInv'
  BY <1>1, <1>2 DEF LinkInv
<1>7. MarkInv'
  BY <1>2 DEF MarkInv, MarkIsRight, Alive
<1> QED
  BY <1>3, <1>4, <1>5, <1>6, <1>7

(* ig_pc_gc_work and the end of ig_proc_cache_exit.                        *)
LEMMA GcFreeInv == IndInv /\ (GcReap \/ Free) => IndInv'
<1> SUFFICES ASSUME IndInv, GcReap \/ Free PROVE IndInv'
  OBVIOUS
<1>0. /\ TypeOK /\ OthersOK /\ ModInv /\ task \in [Pids -> Tasks] /\ births \in Ids
  BY TypeParts DEF IndInv
<1>1. /\ UNCHANGED <<task, births, tp, seen, copy, now, skips, early, taken>>
      /\ mod' = mod \/ mod' = "off"
      /\ gc' = 0
  BY DEF GcReap, Free, tasks, module
<1>2. copy = NoEntry
  BY <1>0 DEF ModInv, GcReap, Free
<1>3. /\ ListOK' /\ OrderInv' /\ Cached' \subseteq Cached /\ stale' \subseteq stale
      /\ \A f \in Cached' : f.pid \in stale => f.pid \in stale'
  <2>1. CASE GcReap
    BY <2>1, ReapList
  <2>2. CASE Free
    <3>1. lru' = <<>> /\ count' = 0 /\ stale' = {}
      BY <2>2 DEF Free
    <3>2. MaxEntries \in Nat
      BY ProcAssumption
    <3>3. DOMAIN lru' = {} /\ Cached' = {}
      BY <3>1 DEF Cached
    <3> QED
      BY <3>1, <3>2, <3>3 DEF ListOK, OrderInv, InOrder, Distinct
  <2> QED
    BY <2>1, <2>2
<1>4. TaskInv' /\ IdInv' /\ MarkInv' /\ StaleInv' /\ ParentInv' /\ LinkInv'
  BY <1>1, <1>2, <1>3, RemovalInv
<1>5. OthersOK' /\ ModInv'
  <2>1. 0 \in 0..MaxTime /\ stale' \subseteq Pids
    BY <1>0, <1>3, ProcAssumption DEF OthersOK
  <2>2. mod' = "on" => tp' = 3
    BY <1>0, <1>1 DEF ModInv
  <2> QED
    BY <1>0, <1>1, <1>2, <2>1, <2>2 DEF OthersOK, ModInv
<1>6. TypeOK'
  BY <1>0, <1>1, <1>3, <1>5, TypeParts
<1> QED
  BY <1>3, <1>4, <1>5, <1>6 DEF IndInv

(* ig_pc_preload copies a task.                                            *)
LEMMA PreloadReadInv ==
    ASSUME IndInv, NEW q \in Pids, PreloadRead(q)
    PROVE  IndInv'
<1> DEFINE E == EntryOf(q)
<1>0. /\ TypeOK /\ TaskInv /\ OthersOK /\ ModInv /\ MarkInv /\ OrderInv /\ ListOK
      /\ births \in Ids /\ births \in Nat /\ task \in [Pids -> Tasks]
  BY TypeParts, ProcAssumption DEF IndInv, Ids
<1>1. /\ mod = "loading" /\ tp = 3 /\ copy = NoEntry /\ task[q].st # "free" /\ task[q].tg = q
      /\ seen' = seen \cup {task[q].id}
      /\ copy' = E \/ copy' = NoEntry
      /\ skips' = skips \/ (skips' = skips + 1 /\ skips < MaxSkips)
      /\ UNCHANGED <<task, births, lru, count, tp, mod, gc, now, stale, early, taken>>
  BY DEF PreloadRead, tasks, table
<1>2. /\ IsEntryOfTask(E) /\ E \in Entries /\ E.exit = 0 /\ E.id = task[q].id /\ E.pid = q
  <2>1. IsEntryOfTask(E)
    BY <1>1 DEF IsEntryOfTask
  <2> QED
    BY <1>0, <2>1, EntryOfTask DEF EntryOf
<1> HIDE DEF E
<1>3. Cached' = Cached
  BY <1>1 DEF Cached
<1>4. /\ \A e \in Known' : e = E \/ e \in Known
      /\ \A e \in Coming' : e = E \/ e \in Coming
  BY <1>1, <1>3 DEF Known, Coming
<1>5. IdInv' /\ StaleInv' /\ ParentInv' /\ LinkInv'
  <2>1. OnlyAdds
    BY <1>1, <1>2, <1>4 DEF OnlyAdds, Same
  <2>2. IdsStay /\ BornStay /\ SettlesRight /\ births' \in Nat /\ births' >= births
    BY <1>0, <1>1 DEF IdsStay, BornStay, SettlesRight
  <2> QED
    BY <2>1, <2>2, LinksKept DEF IndInv
<1>6. MarkInv'
  <2>1. E.id \in early \cup taken \/ Alive(E.id)
    <3>1. task[q].st \in {"born", "run", "exiting", "zombie"}
      BY <1>0, <1>1 DEF Tasks, Places
    <3> QED
      BY <1>0, <1>1, <1>2, <3>1 DEF MarkInv, Alive
  <2>2. copy' # NoEntry => IsEntryOfTask(copy') /\ copy'.exit = 0 /\ (copy'.id \in early \cup taken \/ Alive(copy'.id))
    BY <1>1, <1>2, <2>1
  <2>3. \A e \in Cached' : e \in Known /\ e \in Cached
    BY <1>3 DEF Known
  <2>4. \A id : Alive(id)' <=> Alive(id)
    BY <1>1 DEF Alive
  <2> QED
    BY <1>0, <1>1, <2>2, <2>3, <2>4, MarksKept
<1>7. OthersOK' /\ ModInv'
  <2>1. skips' \in 0..MaxSkips
    BY <1>0, <1>1, ProcAssumption DEF OthersOK
  <2>2. seen' \subseteq Ids
    <3>1. task[q].id \in Ids
      BY <1>0 DEF Tasks
    <3> QED
      BY <1>0, <1>1, <3>1 DEF OthersOK
  <2>3. copy' \in Entries \cup {NoEntry}
    BY <1>1, <1>2
  <2> QED
    BY <1>0, <1>1, <2>1, <2>2, <2>3 DEF OthersOK, ModInv
<1>8. ListOK' /\ OrderInv' /\ TaskInv'
  BY <1>0, <1>1 DEF ListOK, OrderInv, TaskInv
<1>9. TypeOK'
  BY <1>0, <1>1, <1>7, <1>8, TypeParts
<1> QED
  BY <1>5, <1>6, <1>7, <1>8, <1>9 DEF IndInv

(* ig_pc_preload inserts the copy: it was still to come.                   *)
LEMMA PreloadInsertInv == IndInv /\ PreloadInsert => IndInv'
<1> SUFFICES ASSUME IndInv, PreloadInsert PROVE IndInv'
  OBVIOUS
<1>0. /\ TypeOK /\ TaskInv /\ OthersOK /\ ModInv /\ MarkInv /\ OrderInv /\ ListOK
      /\ births \in Ids /\ births \in Nat /\ task \in [Pids -> Tasks]
      /\ Cached = Elems(lru) /\ MaxEntries \in Nat
  BY TypeParts, EntryTypes, ProcAssumption DEF IndInv, Ids
<1>1. /\ copy # NoEntry /\ copy' = NoEntry
      /\ UNCHANGED <<task, births, tp, gc, now, skips, stale, early, taken>>
      /\ (mod' = mod /\ seen' = seen) \/ (mod' = "on" /\ seen' = {})
  BY DEF PreloadInsert, tasks
<1>2. copy \in Entries /\ copy.exit = 0 /\ mod = "loading" /\ tp = 3
  BY <1>0, <1>1 DEF OthersOK, MarkInv, ModInv
<1>3. \/ UNCHANGED <<lru, count>>
      \/ /\ ~(count >= MaxEntries) /\ ~InCache(copy.pid)
         /\ lru' = list_add(lru, copy) /\ count' = count + 1
  BY DEF PreloadInsert, table
<1>4. ListOK' /\ OrderInv' /\ \A e \in Cached' : e \in Cached \/ (e = copy /\ e \in Coming)
  <2>1. CASE UNCHANGED <<lru, count>>
    BY <1>0, <1>1, <2>1 DEF ListOK, OrderInv, Cached
  <2>2. CASE /\ ~(count >= MaxEntries) /\ ~InCache(copy.pid)
             /\ lru' = list_add(lru, copy) /\ count' = count + 1
    <3>1. \A f \in Elems(lru) : f.pid # copy.pid
      BY <1>0, <2>2 DEF InCache
    <3>2. lru \in Seq(Entries) /\ Distinct(lru) /\ count = Len(lru) /\ InOrder(lru, stale, taken)
      BY <1>0 DEF ListOK, OrderInv
    <3>3. /\ lru' \in Seq(Entries) /\ Distinct(lru') /\ Len(lru') = Len(lru) + 1
          /\ Elems(lru') = Elems(lru) \cup {copy} /\ InOrder(lru', stale, taken)
      BY <1>2, <2>2, <3>1, <3>2, FrontList
    <3>4. ListOK' /\ OrderInv'
      <4>1. count \in Nat
        BY <3>2
      <4> QED
        BY <1>0, <1>1, <2>2, <3>2, <3>3, <4>1 DEF ListOK, OrderInv
    <3>5. copy \in Coming
      BY <1>1, <2>2 DEF Coming
    <3>6. Cached' = Elems(lru')
      BY DEF Cached, Elems
    <3> QED
      BY <1>0, <3>3, <3>4, <3>5, <3>6
  <2> QED
    BY <1>3, <2>1, <2>2
<1>5. Known' = Cached' /\ Coming' = Cached' /\ Cached \subseteq Coming /\ Coming \subseteq Known
  BY <1>0, <1>1, EntryTypes DEF Known, Coming
<1>6. \A e \in Cached' : e \in Known /\ e \in Coming
  BY <1>4, <1>5
<1>7. IdInv' /\ StaleInv' /\ ParentInv' /\ LinkInv'
  <2>1. OnlyAdds
    BY <1>1, <1>5, <1>6 DEF OnlyAdds, Same
  <2>2. IdsStay /\ BornStay /\ SettlesRight /\ births' \in Nat /\ births' >= births
    BY <1>0, <1>1 DEF IdsStay, BornStay, SettlesRight
  <2> QED
    BY <2>1, <2>2, LinksKept DEF IndInv
<1>8. MarkInv'
  <2>1. copy.id \in early \cup taken \/ Alive(copy.id)
    BY <1>0, <1>1 DEF MarkInv
  <2>2. \A e \in Cached' : e \in Cached \/ (e.exit = 0 /\ (e.id \in early \cup taken \/ Alive(e.id)))
    BY <1>2, <1>4, <2>1
  <2>3. \A id : Alive(id)' <=> Alive(id)
    BY <1>1 DEF Alive
  <2> QED
    BY <1>0, <1>1, <1>2, <1>6, <2>2, <2>3, MarksKept
<1>9. OthersOK' /\ ModInv' /\ TaskInv'
  <2>1. OthersOK'
    BY <1>0, <1>1 DEF OthersOK
  <2>2. ModInv'
    BY <1>0, <1>1, <1>2 DEF ModInv
  <2>3. TaskInv'
    BY <1>0, <1>1 DEF TaskInv
  <2> QED
    BY <2>1, <2>2, <2>3
<1>10. TypeOK'
  BY <1>0, <1>1, <1>4, <1>9, TypeParts
<1> QED
  BY <1>4, <1>7, <1>8, <1>9, <1>10 DEF IndInv

-----------------------------------------------------------------------------
(* Initially nothing is known.                                             *)
LEMMA InitIndInv == Init => IndInv
<1> SUFFICES ASSUME Init PROVE IndInv
  OBVIOUS
<1>1. /\ task = [p \in Pids |-> NoTask] /\ births = 0 /\ lru = <<>> /\ count = 0
      /\ tp = 0 /\ mod = "loading" /\ seen = {} /\ copy = NoEntry
      /\ gc = 0 /\ now = 1 /\ skips = 0 /\ stale = {} /\ early = {} /\ taken = {}
  BY DEF Init
<1>2. 0 \in Ids /\ 0 \in 0..MaxTime /\ 1 \in 1..MaxTime /\ 0 \in 0..MaxSkips /\ MaxEntries \in Nat
  BY ProcAssumption DEF Ids
<1>3. NoTask \in Tasks /\ NoTask.st = "free"
  BY <1>2 DEF NoTask, Tasks, Places
<1>4. \A p \in Pids : task[p] = NoTask
  BY <1>1
<1>5. TypeOK
  <2>1. ListOK
    BY <1>1, <1>2 DEF ListOK, Distinct
  <2>2. OthersOK
    BY <1>1, <1>2 DEF OthersOK
  <2> QED
    BY <1>1, <1>2, <1>3, <2>1, <2>2, TypeParts
<1>6. Cached = {} /\ Known = {} /\ Coming = {}
  BY <1>1 DEF Cached, Known, Coming
<1>7. TaskInv /\ ModInv
  BY <1>1, <1>3, <1>4 DEF TaskInv, ModInv
<1>8. MarkInv
  BY <1>1, <1>3, <1>4, <1>6 DEF MarkInv, MarkIsRight
<1>9. IdInv /\ StaleInv /\ ParentInv /\ LinkInv
  BY <1>6 DEF IdInv, StaleInv, ParentInv, LinkInv
<1>10. OrderInv
  BY <1>1 DEF OrderInv, InOrder
<1> QED
  BY <1>5, <1>7, <1>8, <1>9, <1>10 DEF IndInv

(* Every step keeps the inductive invariant.                               *)
LEMMA NextIndInv == IndInv /\ [Next]_vars => IndInv'
<1> SUFFICES ASSUME IndInv, [Next]_vars PROVE IndInv'
  OBVIOUS
<1>1. CASE \E p \in Pids \cup {Swapper}, q \in Pids : Clone(p, q)
  BY <1>1, CloneInv
<1>2. ASSUME NEW q \in Pids, ig_pc_on_fork(q) PROVE IndInv'
  BY <1>2, ForkInv
<1>3. ASSUME NEW q \in Pids, ForkSkipped(q) \/ ForkUnseen(q) PROVE IndInv'
  BY <1>3, ForkMissedInv
<1>4. ASSUME NEW q \in Pids, ig_pc_on_exec(q) PROVE IndInv'
  BY <1>4, ExecInv
<1>5. ASSUME NEW q \in Pids, ig_pc_on_exit(q) PROVE IndInv'
  BY <1>5, ExitBeginsInv
<1>6. ASSUME NEW q \in Pids, MarkExit(q) PROVE IndInv'
  BY <1>6, MarkExitInv
<1>7. ASSUME NEW q \in Pids, ExitUnseen(q) PROVE IndInv'
  BY <1>7, ExitUnseenInv
<1>8. ASSUME NEW q \in Pids, Reap(q) PROVE IndInv'
  BY <1>8, ReapInv
<1>9. ASSUME NEW q \in Pids, PreloadRead(q) PROVE IndInv'
  BY <1>9, PreloadReadInv
<1>13. ASSUME NEW q \in Pids, TakeOver(q) PROVE IndInv'
  BY <1>13, TakeOverInv
<1>10. CASE ModuleStep
  BY <1>10, ModuleInv
<1>11. CASE GcReap \/ Free
  BY <1>11, GcFreeInv
<1>12. CASE PreloadInsert
  BY <1>12, PreloadInsertInv
<1> QED
  BY <1>1, <1>2, <1>3, <1>4, <1>5, <1>6, <1>7, <1>8, <1>9, <1>10, <1>11, <1>12, <1>13
  DEF Next, ModuleStep

(* For every number of pids, entries, births and any clock: the inductive  *)
(* invariant of the process cache.                                         *)
THEOREM Invariance == Spec => []IndInv
  BY InitIndInv, NextIndInv, PTL DEF Spec

(* The counter that decides on evictions is the length of the list, and    *)
(* the list has one entry per pid.                                         *)
THEOREM TypeCorrect == Spec => []TypeOK
<1>1. IndInv => TypeOK
  BY DEF IndInv
<1> QED
  BY <1>1, Invariance, PTL

(* A tombstone is told from the entry of a live task, tasks that ended     *)
(* outside the life of the module and exec in a thread apart.              *)
THEOREM MarksRight == Spec => []MarkIsRight
<1>1. IndInv => MarkIsRight
  BY DEF IndInv, MarkInv
<1> QED
  BY <1>1, Invariance, PTL

(* ig_proc_cache_collect_chain goes from a task to its parent, or to a     *)
(* younger one, or over a pid whose fork was skipped or is still to be     *)
(* seen.                                                                   *)
THEOREM ChainsTrue == Spec => []ChainIsTrue
<1>1. IndInv => ChainIsTrue
  <2> SUFFICES ASSUME IndInv, NEW e \in Cached, NextInChain(e) # NoEntry
               PROVE  LET f == NextInChain(e) IN
                      \/ f.id = e.parId \/ f.id > e.id \/ f.pid \in stale
                      \/ task[f.pid].st = "born" /\ task[f.pid].id = e.parId
    BY DEF ChainIsTrue
  <2>1. e.ppid # e.pid /\ NextInChain(e) = ig_pc_find_locked(e.ppid) /\ InCache(e.ppid)
    BY DEF NextInChain, ig_pc_find_locked
  <2>2. NextInChain(e) \in Cached /\ NextInChain(e).pid = e.ppid
    BY <2>1, FindFacts DEF IndInv
  <2> QED
    BY <2>1, <2>2, EntryTypes DEF IndInv, LinkInv
<1> QED
  BY <1>1, Invariance, PTL

(* A fork evicts a tombstone if there is one, the work item removes what   *)
(* is old enough, and nothing else but unloading takes entries out.        *)
THEOREM EntriesLeaveForCause == Spec => LeavesForCause
<1>1. ASSUME IndInv, [Next]_vars PROVE Leave
  <2> SUFFICES ASSUME mod' # "off", NEW e \in Cached
               PROVE  \/ \E f \in Cached' : f.pid = e.pid
                      \/ e.exit # 0 /\ (now - e.exit >= Grace \/ gc < e.exit)
                      \/ /\ Len(lru) = MaxEntries
                         /\ e.exit # 0 \/ stale # {} \/ \A f \in Cached : f.exit = 0 \/ f.id \in taken
    BY DEF Leave
  <2>0. TypeOK /\ TaskInv /\ OrderInv /\ ModInv
    BY <1>1 DEF IndInv
  <2>1. ASSUME NEW q \in Pids, ig_pc_on_fork(q)
        PROVE  \/ \E f \in Cached' : f.pid = e.pid
               \/ /\ Len(lru) = MaxEntries
                  /\ e.exit # 0 \/ stale # {} \/ \A f \in Cached : f.exit = 0 \/ f.id \in taken
    <3>1. /\ EntryOf(q) \in Cached'
          /\ e.pid = q \/ e \in Cached' \/
                 /\ count = MaxEntries
                 /\ e.exit # 0 \/ stale # {} \/ \A f \in Cached : f.exit = 0 \/ f.id \in taken
      BY <2>0, <2>1, ForkList
    <3>2. EntryOf(q).pid = q /\ count = Len(lru)
      BY <2>0 DEF EntryOf, TypeOK
    <3> QED
      BY <3>1, <3>2
  <2>2. ASSUME NEW q \in Pids, ig_pc_on_exec(q) PROVE \E f \in Cached' : f.pid = e.pid
    BY <1>1, <2>2, ExecList
  <2>3. ASSUME NEW q \in Pids, MarkExit(q) PROVE \E f \in Cached' : f.pid = e.pid
    BY <1>1, <2>3, MarkList
  <2>4. ASSUME GcReap
        PROVE  \/ \E f \in Cached' : f.pid = e.pid
               \/ e.exit # 0 /\ (now - e.exit >= Grace \/ gc < e.exit)
    <3>1. e \in Cached' \/ Expired(e, gc)
      BY <1>1, <2>4, ReapList
    <3>2. e.exit \in Nat /\ gc \in Nat /\ now \in Nat /\ gc <= now /\ Grace \in Nat
      <4>1. e \in Entries
        BY <2>0, EntryTypes
      <4> QED
        BY <2>0, <4>1, ProcAssumption DEF Entries, TypeOK, ModInv
    <3> QED
      BY <3>1, <3>2 DEF Expired
  <2>5. CASE PreloadInsert
    <3>1. lru' = lru \/ lru' = list_add(lru, copy)
      BY <2>5 DEF PreloadInsert, table
    <3>2. CASE lru' = lru
      BY <3>2 DEF Cached
    <3>3. CASE lru' = list_add(lru, copy)
      <4>1. lru \in Seq(Entries) /\ copy \in Entries
        BY <2>0, <2>5 DEF TypeOK, PreloadInsert
      <4>2. PICK n \in DOMAIN lru : e = lru[n]
        BY DEF Cached
      <4> HIDE DEF Entries
      <4>3. n + 1 \in DOMAIN lru' /\ lru'[n + 1] = e
        BY <3>3, <4>1, <4>2 DEF list_add
      <4> QED
        BY <4>3 DEF Cached
    <3> QED
      BY <3>1, <3>2, <3>3
  <2>6. CASE UNCHANGED lru
    BY <2>6 DEF Cached
  <2>7. ~Free
    BY DEF Free
  <2>8. ASSUME NEW p \in Pids \cup {Swapper}, NEW q \in Pids, Clone(p, q) PROVE UNCHANGED lru
    BY <2>8 DEF Clone, table
  <2>9. ASSUME NEW q \in Pids,
               \/ ForkSkipped(q) \/ ForkUnseen(q) \/ ig_pc_on_exit(q) \/ ExitUnseen(q)
               \/ Reap(q) \/ PreloadRead(q) \/ TakeOver(q)
        PROVE  UNCHANGED lru
    BY <2>9 DEF ForkSkipped, ForkUnseen, ig_pc_on_exit, ExitUnseen, Reap, PreloadRead, TakeOver,
                table
  <2>10. ASSUME ModuleStep PROVE UNCHANGED lru
    BY <2>10 DEF ModuleStep, Tick, GcBegin, Register, RegisterFails, PreloadDone, Unregister,
                 vars, table
  <2> QED
    BY <1>1, <2>1, <2>2, <2>3, <2>4, <2>5, <2>6, <2>7, <2>8, <2>9, <2>10
    DEF Next, ModuleStep
<1>2. IndInv /\ [Next]_vars => [Leave]_vars
  BY <1>1
<1> QED
  BY <1>2, Invariance, PTL DEF Spec, LeavesForCause

=============================================================================
