----------------------------- MODULE RingProofs -----------------------------
(***************************************************************************)
(* The ring for any nodes, hashes, virtual nodes and points: it stays      *)
(* sorted, holds what its members put there, and a group moves only when   *)
(* its own node comes or goes.                                             *)
(***************************************************************************)
EXTENDS Ring, TLAPS, FiniteSetTheorems

-----------------------------------------------------------------------------
(* Order and counting.                                                     *)

\* A set of naturals that is not empty has a least element.
LEMMA LeastNat ==
  ASSUME NEW T \in SUBSET Nat, T # {}
  PROVE  \E m \in T : \A x \in T : m <= x
<1> DEFINE R == {ss \in Nat \X Nat : ss[1] < ss[2]}
<1>1. IsWellFoundedOn(R, Nat)
  BY NatLessThanWellFounded DEF OpToRel
<1>2. PICK m \in T : \A y \in T : <<y, m>> \notin R
  BY <1>1, WFMin, Zenon
<1>3. ASSUME NEW x \in T PROVE m <= x
  <2>1. <<x, m>> \notin R /\ <<x, m>> \in Nat \X Nat
    BY <1>2, <1>3
  <2>2. ~ (x < m)
    BY <2>1
  <2> QED BY <2>2
<1> QED BY <1>3

\* One with an upper bound has a greatest.
LEMMA GreatestNat ==
  ASSUME NEW T \in SUBSET Nat, T # {}, NEW b \in Nat, \A x \in T : x <= b
  PROVE  \E m \in T : \A x \in T : x <= m
<1> DEFINE U == {u \in Nat : \A x \in T : x <= u}
<1>1. PICK u \in U : \A y \in U : u <= y
  <2>1. U \in SUBSET Nat /\ U # {}
    OBVIOUS
  <2> HIDE DEF U
  <2> QED BY <2>1, LeastNat
<1>2. CASE u \in T
  BY <1>2
<1>3. CASE u \notin T
  <2>1. \A x \in T : x < u
    BY <1>3
  <2>2. u # 0
    <3>1. PICK x \in T : TRUE
      BY Zenon
    <3> QED BY <3>1, <2>1
  <2>3. u - 1 \in U
    BY <2>1, <2>2
  <2> QED BY <2>3, <1>1
<1> QED BY <1>2, <1>3

\* Counting positions: fewer in a part than in the whole.
LEMMA CountPart ==
  ASSUME NEW n \in Nat, NEW B \in SUBSET (1 .. n), NEW A \in SUBSET B
  PROVE  /\ IsFiniteSet(A)
         /\ Cardinality(A) \in Nat /\ Cardinality(B) \in Nat /\ Cardinality(B) <= n
         /\ Cardinality(A) <= Cardinality(B)
         /\ A # B => Cardinality(A) < Cardinality(B)
<1>1. IsFiniteSet(1 .. n) /\ Cardinality(1 .. n) = n
  BY FS_Interval
<1>2. IsFiniteSet(B) /\ Cardinality(B) <= n
  BY <1>1, FS_Subset, Zenon
<1>3. IsFiniteSet(A) /\ Cardinality(A) <= Cardinality(B) /\ (Cardinality(B) = Cardinality(A) => B = A)
  BY <1>2, FS_Subset, Zenon
<1>4. Cardinality(A) \in Nat /\ Cardinality(B) \in Nat
  BY <1>2, <1>3, FS_CardinalityType
<1> QED BY <1>2, <1>3, <1>4

\* The first n positions are n.
LEMMA CountAll ==
  ASSUME NEW n \in Nat
  PROVE  Cardinality(1 .. n) = n /\ Cardinality({}) = 0
BY FS_Interval, FS_EmptySet

-----------------------------------------------------------------------------
(* sort.Slice.                                                             *)

Below(s, v) == {i \in 1 .. Len(s) : s[i] < v}
Upto(s, v) == {i \in 1 .. Len(s) : s[i] <= v}

\* v is a k-th smallest value of s.
Kth(s, k, v) ==
  /\ v \in Range(s)
  /\ Cardinality(Below(s, v)) < k
  /\ k <= Cardinality(Upto(s, v))

\* The two counts, related for any two values.
LEMMA Counts ==
  ASSUME NEW s \in Seq(Nat), NEW v \in Nat
  PROVE  /\ Cardinality(Below(s, v)) \in Nat /\ Cardinality(Upto(s, v)) \in Nat
         /\ Cardinality(Upto(s, v)) <= Len(s)
         /\ v \in Range(s) => Cardinality(Below(s, v)) < Cardinality(Upto(s, v))
         /\ \A w \in Nat : w < v => Cardinality(Upto(s, w)) <= Cardinality(Below(s, v))
<1>1. Len(s) \in Nat /\ DOMAIN s = 1 .. Len(s) /\ \A i \in 1 .. Len(s) : s[i] \in Nat
  OBVIOUS
<1>2. Upto(s, v) \in SUBSET (1 .. Len(s)) /\ Below(s, v) \in SUBSET Upto(s, v)
  BY <1>1 DEF Upto, Below
<1>3. v \in Range(s) => Below(s, v) # Upto(s, v)
  BY <1>1 DEF Upto, Below, Range
<1>4. ASSUME NEW w \in Nat, w < v PROVE Cardinality(Upto(s, w)) <= Cardinality(Below(s, v))
  <2>1. Below(s, v) \in SUBSET (1 .. Len(s)) /\ Upto(s, w) \in SUBSET Below(s, v)
    BY <1>1, <1>4 DEF Upto, Below
  <2> QED BY <2>1, <1>1, CountPart, Zenon
<1>5. /\ Cardinality(Below(s, v)) \in Nat /\ Cardinality(Upto(s, v)) \in Nat
      /\ Cardinality(Upto(s, v)) <= Len(s)
      /\ Below(s, v) # Upto(s, v) => Cardinality(Below(s, v)) < Cardinality(Upto(s, v))
  BY <1>1, <1>2, CountPart
<1> QED BY <1>3, <1>4, <1>5

\* A sequence of bounded naturals is a sequence of naturals.
LEMMA SeqOfNats ==
  ASSUME NEW b \in Nat, NEW s \in Seq(0 .. b)
  PROVE  s \in Seq(Nat)
<1>1. Len(s) \in Nat /\ s \in [1 .. Len(s) -> 0 .. b]
  OBVIOUS
<1>2. s \in [1 .. Len(s) -> Nat]
  BY <1>1
<1> QED BY <1>1, <1>2

\* Every position has a k-th smallest value: the least one with k values up
\* to it, as those below it are the ones up to its predecessor.
LEMMA KthExists ==
  ASSUME NEW b \in Nat, NEW s \in Seq(0 .. b), NEW k \in 1 .. Len(s)
  PROVE  \E v \in Range(s) : Kth(s, k, v)
<1> DEFINE T == {v \in Range(s) : k <= Cardinality(Upto(s, v))}
<1>1. Len(s) \in Nat /\ DOMAIN s = 1 .. Len(s) /\ \A i \in 1 .. Len(s) : s[i] \in 0 .. b
  OBVIOUS
<1>2. /\ Range(s) \in SUBSET Nat /\ \A i \in 1 .. Len(s) : s[i] \in Range(s)
      /\ \A x \in Range(s) : x <= b
  BY <1>1 DEF Range
<1>3. s \in Seq(Nat)
  BY SeqOfNats
<1>4. T # {}
  <2>1. Range(s) # {}
    BY <1>2
  <2>2. PICK top \in Range(s) : \A x \in Range(s) : x <= top
    BY <2>1, <1>2, GreatestNat, Zenon
  <2>3. Upto(s, top) = 1 .. Len(s)
    BY <2>2, <1>2 DEF Upto
  <2>4. Cardinality(Upto(s, top)) = Len(s)
    BY <1>1, <2>3, CountAll
  <2> QED BY <2>2, <2>4, <1>1
<1>5. PICK v \in T : \A w \in T : v <= w
  <2>1. T \in SUBSET Nat
    BY <1>2
  <2> HIDE DEF T
  <2> QED BY <2>1, <1>4, LeastNat, Zenon
<1>6. v \in Range(s) /\ v \in Nat /\ k <= Cardinality(Upto(s, v))
  BY <1>5, <1>2
<1>7. Cardinality(Below(s, v)) < k
  <2> DEFINE L == {w \in Range(s) : w < v}
  <2>1. CASE L = {}
    <3>1. Below(s, v) = {}
      BY <2>1, <1>2 DEF Below
    <3> QED BY <3>1, CountAll
  <2>2. CASE L # {}
    <3>1. L \in SUBSET Nat /\ \A w \in L : w <= b
      BY <1>2
    <3>2. PICK w \in L : \A x \in L : x <= w
      <4> HIDE DEF L
      <4> QED BY <3>1, <2>2, GreatestNat, Zenon
    <3>3. w \in Range(s) /\ w < v /\ w \in Nat
      BY <3>2, <1>2
    <3>4. Below(s, v) = Upto(s, w)
      <4>1. ASSUME NEW i \in 1 .. Len(s) PROVE s[i] < v <=> s[i] <= w
        BY <3>2, <3>3, <1>2, <1>6
      <4> QED BY <4>1 DEF Below, Upto
    <3>5. w \notin T
      BY <3>3, <1>5, <1>6
    <3>6. ~ (k <= Cardinality(Upto(s, w)))
      BY <3>5, <3>3
    <3>7. Cardinality(Upto(s, w)) \in Nat
      BY <3>3, <1>3, Counts
    <3> QED BY <3>4, <3>6, <3>7
  <2> QED BY <2>1, <2>2
<1> QED BY <1>6, <1>7 DEF Kth

\* ... and one only, and a later position has no smaller one.
LEMMA KthOrder ==
  ASSUME NEW s \in Seq(Nat), NEW k \in Nat, NEW l \in Nat, k <= l,
         NEW v \in Nat, NEW w \in Nat, Kth(s, k, v), Kth(s, l, w)
  PROVE  v <= w
<1>1. CASE w < v
  <2>1. /\ Cardinality(Upto(s, w)) <= Cardinality(Below(s, v))
        /\ Cardinality(Upto(s, w)) \in Nat /\ Cardinality(Below(s, v)) \in Nat
    BY <1>1, Counts
  <2> QED BY <2>1 DEF Kth
<1> QED BY <1>1

\* A function on the first n positions is a sequence of length n.
LEMMA SeqOfLength ==
  ASSUME NEW n \in Nat, NEW S, NEW f \in [1 .. n -> S]
  PROVE  f \in Seq(S) /\ Len(f) = n
<1>1. f \in Seq(S)
  OBVIOUS
<1>2. Len(f) \in Nat /\ 1 .. n = 1 .. Len(f)
  BY <1>1
<1>3. Cardinality(1 .. n) = n /\ Cardinality(1 .. Len(f)) = Len(f)
  BY <1>2, CountAll
<1> QED BY <1>1, <1>2, <1>3

\* What sort.Slice returns: as many values, each position's k-th smallest.
LEMMA SortedKth ==
  ASSUME NEW b \in Nat, NEW s \in Seq(0 .. b)
  PROVE  /\ Sorted(s) \in Seq(0 .. b) /\ Len(Sorted(s)) = Len(s)
         /\ \A k \in 1 .. Len(s) : Kth(s, k, Sorted(s)[k])
<1>1. Len(s) \in Nat /\ Range(s) \subseteq 0 .. b
  BY DEF Range
<1>2. ASSUME NEW k \in 1 .. Len(s) PROVE Sorted(s)[k] \in Range(s) /\ Kth(s, k, Sorted(s)[k])
  <2>1. Sorted(s)[k] = CHOOSE v \in Range(s) :
                          /\ Cardinality(Below(s, v)) < k
                          /\ k <= Cardinality(Upto(s, v))
    BY Zenon DEF Sorted, Below, Upto
  <2>2. \E v \in Range(s) : /\ Cardinality(Below(s, v)) < k
                            /\ k <= Cardinality(Upto(s, v))
    BY KthExists DEF Kth
  <2> QED BY <2>1, <2>2 DEF Kth
<1>3. Sorted(s) \in [1 .. Len(s) -> 0 .. b]
  <2> DEFINE e(k) == CHOOSE v \in Range(s) :
                       /\ Cardinality({i \in 1 .. Len(s) : s[i] < v}) < k
                       /\ k <= Cardinality({i \in 1 .. Len(s) : s[i] <= v})
  <2>1. Sorted(s) = [k \in 1 .. Len(s) |-> e(k)]
    BY DEF Sorted
  <2> HIDE DEF e
  <2>2. ASSUME NEW k \in 1 .. Len(s) PROVE e(k) \in 0 .. b
    <3>1. e(k) = Sorted(s)[k]
      BY <2>1
    <3> QED BY <3>1, <1>1, <1>2
  <2> QED BY <2>1, <2>2
<1>4. Sorted(s) \in Seq(0 .. b) /\ Len(Sorted(s)) = Len(s)
  BY <1>1, <1>3, SeqOfLength, Zenon
<1> QED BY <1>2, <1>4

\* So its result is in order ...
LEMMA SortedInOrder ==
  ASSUME NEW b \in Nat, NEW s \in Seq(0 .. b),
         NEW i \in 1 .. Len(s), NEW j \in 1 .. Len(s), i <= j
  PROVE  Sorted(s)[i] <= Sorted(s)[j]
<1>1. Kth(s, i, Sorted(s)[i]) /\ Kth(s, j, Sorted(s)[j])
  BY SortedKth
<1>2. Sorted(s)[i] \in Nat /\ Sorted(s)[j] \in Nat /\ i \in Nat /\ j \in Nat
  BY SortedKth, SMTT(30)
<1>3. s \in Seq(Nat)
  BY SeqOfNats
<1> QED BY <1>1, <1>2, <1>3, KthOrder

\* ... a value lands where its count says ...
LEMMA SortedAt ==
  ASSUME NEW b \in Nat, NEW s \in Seq(0 .. b), NEW k \in 1 .. Len(s), NEW v, Kth(s, k, v)
  PROVE  Sorted(s)[k] = v
<1>1. Kth(s, k, Sorted(s)[k])
  BY SortedKth
<1>2. Sorted(s)[k] \in Nat /\ k \in Nat
  BY SortedKth
<1>3. v \in Nat
  BY DEF Kth, Range
<1>4. s \in Seq(Nat)
  BY SeqOfNats
<1>5. Sorted(s)[k] <= v /\ v <= Sorted(s)[k]
  BY <1>1, <1>2, <1>3, <1>4, KthOrder
<1> QED BY <1>2, <1>3, <1>5

\* ... it holds the values of s ...
LEMMA SortedValues ==
  ASSUME NEW b \in Nat, NEW s \in Seq(0 .. b)
  PROVE  Range(Sorted(s)) = Range(s)
<1>1. Sorted(s) \in Seq(0 .. b) /\ Len(Sorted(s)) = Len(s) /\ Len(s) \in Nat
  BY SortedKth
<1>2. DOMAIN Sorted(s) = 1 .. Len(s)
  BY <1>1
<1>3. ASSUME NEW k \in 1 .. Len(s) PROVE Sorted(s)[k] \in Range(s)
  BY SortedKth DEF Kth
<1>4. ASSUME NEW v \in Range(s) PROVE \E k \in 1 .. Len(s) : Sorted(s)[k] = v
  <2>1. s \in Seq(Nat)
    BY SeqOfNats
  <2>2. v \in Nat
    BY DEF Range
  <2> DEFINE k == Cardinality(Upto(s, v))
  <2>3. k \in 1 .. Len(s) /\ Cardinality(Below(s, v)) < k
    BY <2>1, <2>2, <1>1, Counts
  <2>4. Kth(s, k, v)
    BY <2>3 DEF Kth
  <2> HIDE DEF k
  <2> QED BY <2>3, <2>4, SortedAt
<1> QED BY <1>2, <1>3, <1>4, Zenon DEF Range

\* ... and a value that s holds twice, it holds twice.
LEMMA SortedTwice ==
  ASSUME NEW b \in Nat, NEW s \in Seq(0 .. b),
         NEW i \in 1 .. Len(s), NEW j \in 1 .. Len(s), i # j, s[i] = s[j]
  PROVE  \E k, l \in 1 .. Len(s) : k # l /\ Sorted(s)[k] = s[i] /\ Sorted(s)[l] = s[i]
<1> DEFINE v == s[i]
           C == Below(s, v) \cup {i}
           k == Cardinality(Upto(s, v))
<1>1. Len(s) \in Nat /\ v \in Nat /\ DOMAIN s = 1 .. Len(s) /\ v \in Range(s)
  BY DEF Range
<1>2. s \in Seq(Nat) /\ \A x \in 1 .. Len(s) : s[x] \in Nat
  BY SeqOfNats, SMTT(30)
<1>3. /\ Upto(s, v) \in SUBSET (1 .. Len(s)) /\ C \in SUBSET Upto(s, v)
      /\ Below(s, v) \in SUBSET C
      /\ i \in C /\ i \notin Below(s, v) /\ j \in Upto(s, v) /\ j \notin C
  BY <1>1, <1>2 DEF Upto, Below
<1>4. C \in SUBSET (1 .. Len(s)) /\ C # Upto(s, v) /\ C # Below(s, v)
  BY <1>3
<1> HIDE DEF C
<1>5. Cardinality(C) \in Nat /\ Cardinality(C) < k /\ k \in Nat /\ k <= Len(s)
  BY <1>1, <1>3, <1>4, CountPart, Zenon
<1>6. Cardinality(Below(s, v)) \in Nat /\ Cardinality(Below(s, v)) < Cardinality(C)
  BY <1>1, <1>3, <1>4, CountPart, Zenon
<1> HIDE DEF v
<1>7. Kth(s, k, v) /\ Kth(s, k - 1, v)
  BY <1>1, <1>5, <1>6 DEF Kth
<1>8. k \in 1 .. Len(s) /\ k - 1 \in 1 .. Len(s) /\ k # k - 1
  BY <1>1, <1>5, <1>6, SMTT(30)
<1> HIDE DEF k
<1>9. Sorted(s)[k] = v /\ Sorted(s)[k - 1] = v
  BY <1>7, <1>8, SortedAt
<1> QED BY <1>8, <1>9 DEF v


-----------------------------------------------------------------------------
(* The loop of RemoveNode.                                                 *)

\* Positions of S up to i.
Rank(S, i) == Cardinality({j \in S : j <= i})

\* Select, for any slice.
SelectIn(r, S) ==
  [k \in 1 .. Cardinality(S) |-> r[CHOOSE i \in S : Cardinality({j \in S : j <= i}) = k]]

\* A later position has a higher rank, and none above the number of positions.
LEMMA RankOrder ==
  ASSUME NEW n \in Nat, NEW S \in SUBSET (1 .. n), NEW i \in S
  PROVE  /\ Rank(S, i) \in Nat /\ Rank(S, i) \in 1 .. Cardinality(S)
         /\ \A j \in S : i < j => Rank(S, i) < Rank(S, j)
<1> DEFINE U(x) == {y \in S : y <= x}
<1>0. \A x \in S : x \in Nat
  OBVIOUS
<1>1. \A x \in S : U(x) \in SUBSET S /\ U(x) \in SUBSET (1 .. n)
  BY Zenon
<1>2. /\ Cardinality(U(i)) \in Nat /\ Cardinality(S) \in Nat
      /\ Cardinality(U(i)) <= Cardinality(S)
  BY <1>1, CountPart
<1>3. Cardinality(U(i)) # 0
  <2>1. {i} \in SUBSET U(i)
    OBVIOUS
  <2>2. Cardinality({i}) <= Cardinality(U(i))
    BY <1>1, <2>1, CountPart
  <2>3. Cardinality({i}) = 1
    BY FS_Singleton
  <2> QED BY <2>2, <2>3, <1>2
<1>4. ASSUME NEW j \in S, i < j PROVE Cardinality(U(i)) < Cardinality(U(j))
  <2>1. j \in U(j) /\ j \notin U(i)
    BY <1>4, <1>0
  <2>2. U(i) \in SUBSET U(j)
    <3>1. ASSUME NEW y \in S, y <= i PROVE y <= j
      BY <3>1, <1>4, <1>0
    <3> QED BY <3>1, Zenon
  <2> HIDE DEF U
  <2> QED BY <1>1, <2>1, <2>2, CountPart
<1> QED BY <1>2, <1>3, <1>4 DEF Rank

\* Every rank is that of a position.
LEMMA RankExists ==
  ASSUME NEW n \in Nat, NEW S \in SUBSET (1 .. n), NEW k \in 1 .. Cardinality(S)
  PROVE  \E i \in S : Rank(S, i) = k
<1> DEFINE T == {i \in S : k <= Rank(S, i)}
<1>0. S \in SUBSET Nat /\ \A i \in S : i \in Nat /\ i <= n
  OBVIOUS
<1>1. Cardinality(S) \in Nat
  BY CountPart
<1>2. T # {}
  <2>1. S # {}
    <3>1. Cardinality({}) = 0
      BY CountAll, 0 \in Nat
    <3> QED BY <3>1
  <2>2. PICK m \in S : \A x \in S : x <= m
    BY <2>1, <1>0, GreatestNat, Zenon
  <2>3. {j \in S : j <= m} = S
    BY <2>2, Zenon
  <2> QED BY <2>2, <2>3, <1>1 DEF Rank
<1>3. PICK i \in T : \A x \in T : i <= x
  <2>1. T \in SUBSET Nat
    BY <1>0, Zenon
  <2> HIDE DEF T
  <2> QED BY <2>1, <1>2, LeastNat
<1>4. Rank(S, i) \in Nat /\ k <= Rank(S, i) /\ i \in S /\ i \in Nat
  <2>1. i \in S /\ k <= Rank(S, i)
    BY <1>3
  <2> QED BY <2>1, <1>0, <1>1, RankOrder, Zenon
<1> DEFINE L == {j \in S : j < i}
<1>5. L \in SUBSET (1 .. n) /\ L \in SUBSET Nat /\ (\A j \in L : j <= n) /\ IsFiniteSet(L)
  <2>1. L \in SUBSET S
    OBVIOUS
  <2>2. IsFiniteSet(L)
    <3> HIDE DEF L
    <3> QED BY <2>1, CountPart, Zenon
  <2> QED BY <2>1, <2>2, <1>0, Zenon
<1>6. Rank(S, i) = Cardinality(L) + 1
  <2>1. i \notin L
    BY <1>4
  <2>2. {j \in S : j <= i} = L \cup {i}
    <3>1. ASSUME NEW j \in S PROVE j <= i <=> j < i \/ j = i
      BY <1>0, <1>4
    <3> QED BY <3>1, <1>4, Zenon
  <2> HIDE DEF L
  <2> QED BY <2>1, <2>2, <1>5, FS_AddElement DEF Rank
<1>7. Cardinality(L) < k
  <2>1. CASE L = {}
    BY <2>1, CountAll
  <2>2. CASE L # {}
    <3>1. PICK w \in L : \A x \in L : x <= w
      <4> HIDE DEF L
      <4> QED BY <1>5, <2>2, GreatestNat, Zenon
    <3>0. w \in S /\ w < i /\ w \in Nat
      BY <3>1, <1>0
    <3>2. L = {j \in S : j <= w}
      <4>1. ASSUME NEW j \in S PROVE j < i <=> j <= w
        BY <3>0, <3>1, <1>0, <1>4
      <4> QED BY <4>1, Zenon
    <3>3. w \notin T
      BY <3>0, <1>3, <1>4
    <3>4. ~ (k <= Rank(S, w))
      BY <3>0, <3>3
    <3>5. Rank(S, w) \in Nat
      BY <3>0, <1>1, RankOrder, Zenon
    <3> QED BY <3>2, <3>4, <3>5 DEF Rank
  <2> QED BY <2>1, <2>2
<1>8. Cardinality(L) \in Nat
  BY <1>5, FS_CardinalityType
<1> QED BY <1>4, <1>6, <1>7, <1>8

\* The slice RemoveNode builds: the values at the positions of S, in their
\* order, each position once.
LEMMA SelectFacts ==
  ASSUME NEW r \in Seq(Point), NEW S \in SUBSET (1 .. Len(r))
  PROVE  /\ SelectIn(r, S) \in Seq(Point) /\ Len(SelectIn(r, S)) = Cardinality(S)
         /\ \E f \in [1 .. Cardinality(S) -> S] :
              /\ \A k \in 1 .. Cardinality(S) : SelectIn(r, S)[k] = r[f[k]]
              /\ \A k, l \in 1 .. Cardinality(S) : k < l => f[k] < f[l]
              /\ \A i \in S : \E k \in 1 .. Cardinality(S) : f[k] = i
<1> DEFINE N == Cardinality(S)
           e(k) == CHOOSE i \in S : Cardinality({j \in S : j <= i}) = k
           f == [k \in 1 .. N |-> e(k)]
<1>1. Len(r) \in Nat /\ (\A i \in 1 .. Len(r) : r[i] \in Point) /\ \A i \in S : i \in Nat
  OBVIOUS
<1>2. N \in Nat
  BY <1>1, CountPart
<1>3. ASSUME NEW k \in 1 .. N PROVE e(k) \in S /\ Rank(S, e(k)) = k
  <2>1. \E i \in S : Cardinality({j \in S : j <= i}) = k
    BY <1>1, RankExists, Zenon DEF Rank
  <2> QED BY <2>1, Zenon DEF Rank
<1>4. SelectIn(r, S) = [k \in 1 .. N |-> r[e(k)]]
  BY DEF SelectIn
<1> HIDE DEF e, N
<1>5. f \in [1 .. N -> S]
  BY <1>3
<1>6. ASSUME NEW k \in 1 .. N, NEW l \in 1 .. N, k < l PROVE f[k] < f[l]
  <2>1. e(k) \in S /\ e(l) \in S /\ Rank(S, e(k)) = k /\ Rank(S, e(l)) = l
    BY <1>3
  <2>2. e(l) < e(k) => Rank(S, e(l)) < Rank(S, e(k))
    BY <2>1, <1>1, RankOrder, Zenon
  <2>3. f[k] = e(k) /\ f[l] = e(l) /\ e(k) \in Nat /\ e(l) \in Nat
    BY <2>1, <1>1, Zenon
  <2>4. k \in Nat /\ l \in Nat
    BY <1>2
  <2> HIDE DEF f
  <2> QED BY <2>1, <2>2, <2>3, <2>4, <1>6
<1>7. ASSUME NEW i \in S PROVE \E k \in 1 .. N : f[k] = i
  <2>1. Rank(S, i) \in Nat /\ Rank(S, i) \in 1 .. N
    BY <1>1, RankOrder, Zenon DEF N
  <2>2. e(Rank(S, i)) \in S /\ Rank(S, e(Rank(S, i))) = Rank(S, i)
    BY <2>1, <1>3
  <2>3. /\ e(Rank(S, i)) < i => Rank(S, e(Rank(S, i))) < Rank(S, i)
        /\ i < e(Rank(S, i)) => Rank(S, i) < Rank(S, e(Rank(S, i)))
    BY <2>2, <1>1, RankOrder, Zenon
  <2>4. e(Rank(S, i)) \in Nat /\ i \in Nat /\ Rank(S, i) \in Nat
    BY <2>1, <2>2, <1>1, Zenon
  <2>5. e(Rank(S, i)) = i
    BY <2>2, <2>3, <2>4
  <2> QED BY <2>1, <2>5
<1>8. SelectIn(r, S) \in [1 .. N -> Point]
  BY <1>1, <1>3, <1>4, Zenon
<1>9. SelectIn(r, S) \in Seq(Point) /\ Len(SelectIn(r, S)) = N
  BY <1>2, <1>8, SeqOfLength
<1>10. \A k \in 1 .. N : SelectIn(r, S)[k] = r[f[k]]
  BY <1>4
<1> HIDE DEF f
<1> QED BY <1>5, <1>6, <1>7, <1>9, <1>10, Zenon DEF N

-----------------------------------------------------------------------------
(* The slice after an operation.                                           *)

InOrder(r) == \A i, j \in 1 .. Len(r) : i <= j => r[i] <= r[j]
Repeats(r, v) == \E i, j \in 1 .. Len(r) : i # j /\ r[i] = v /\ r[j] = v

\* The hash values, bounded.
LEMMA PointFacts ==
  /\ Point \subseteq Nat /\ VNodes \in Nat /\ VNodes # 0 /\ Points \in Nat
  /\ \E b \in Nat : Point = 0 .. b
  /\ \A p \in Point : p < Points
<1>1. Points - 1 \in Nat
  BY SizeAssumption
<1>2. \E b \in Nat : Point = 0 .. b
  BY <1>1 DEF Point
<1> QED BY <1>2, SizeAssumption DEF Point

\* Positions and values of a slice.
LEMMA Positions ==
  ASSUME NEW r \in Seq(Point)
  PROVE  /\ Len(r) \in Nat /\ DOMAIN r = 1 .. Len(r)
         /\ Range(r) = {r[i] : i \in 1 .. Len(r)} /\ Range(r) \subseteq Point
         /\ \A i \in 1 .. Len(r) : r[i] \in Point /\ r[i] \in Nat
<1>1. Len(r) \in Nat /\ DOMAIN r = 1 .. Len(r)
  OBVIOUS
<1>2. \A i \in 1 .. Len(r) : r[i] \in Point
  OBVIOUS
<1> QED BY <1>1, <1>2, PointFacts DEF Range

\* AddNode's append and sort: in order, the old values and the new ones, and
\* what was there twice, or comes to what is there, is there twice.
LEMMA AppendSorted ==
  ASSUME NEW r \in Seq(Point), NEW q \in Seq(Point)
  PROVE  LET t == Sorted(r \o q) IN
         /\ t \in Seq(Point) /\ Len(t) = Len(r) + Len(q) /\ InOrder(t)
         /\ Range(t) = Range(r) \cup Range(q)
         /\ \A v : Repeats(r, v) \/ (v \in Range(r) /\ v \in Range(q)) => Repeats(t, v)
<1> DEFINE s == r \o q
           t == Sorted(s)
<1>1. PICK b \in Nat : Point = 0 .. b
  BY PointFacts
<1>2. s \in Seq(Point) /\ Len(s) = Len(r) + Len(q)
  OBVIOUS
<1>3. \A i \in 1 .. Len(r) + Len(q) : s[i] = IF i <= Len(r) THEN r[i] ELSE q[i - Len(r)]
  OBVIOUS
<1>4. /\ Len(r) \in Nat /\ Len(q) \in Nat
      /\ Range(r) = {r[i] : i \in 1 .. Len(r)} /\ Range(q) = {q[i] : i \in 1 .. Len(q)}
  BY Positions
<1>5. Range(s) = {s[i] : i \in 1 .. Len(s)}
  BY <1>2, Positions, Zenon
<1> HIDE DEF s
<1>6. /\ \A i \in 1 .. Len(r) : i \in 1 .. Len(s) /\ s[i] = r[i]
      /\ \A i \in 1 .. Len(q) : i + Len(r) \in 1 .. Len(s) /\ s[i + Len(r)] = q[i]
  <2>1. ASSUME NEW i \in 1 .. Len(r) PROVE i \in 1 .. Len(s) /\ s[i] = r[i]
    BY <1>2, <1>3, <1>4
  <2>2. ASSUME NEW i \in 1 .. Len(q) PROVE i + Len(r) \in 1 .. Len(s) /\ s[i + Len(r)] = q[i]
    <3>1. i + Len(r) \in 1 .. Len(r) + Len(q) /\ ~ (i + Len(r) <= Len(r)) /\ i + Len(r) - Len(r) = i
      BY <1>4
    <3> QED BY <3>1, <1>2, <1>3
  <2> QED BY <2>1, <2>2
<1>7. \A i \in 1 .. Len(s) : s[i] \in Range(r) \cup Range(q)
  <2>1. ASSUME NEW i \in 1 .. Len(s), i <= Len(r) PROVE s[i] \in Range(r)
    BY <2>1, <1>2, <1>3, <1>4
  <2>2. ASSUME NEW i \in 1 .. Len(s), ~ (i <= Len(r)) PROVE s[i] \in Range(q)
    <3>1. i - Len(r) \in 1 .. Len(q) /\ s[i] = q[i - Len(r)]
      BY <2>2, <1>2, <1>3, <1>4
    <3> QED BY <3>1, <1>4
  <2> QED BY <2>1, <2>2
<1>8. Range(s) = Range(r) \cup Range(q)
  BY <1>4, <1>5, <1>6, <1>7, Zenon
<1>9. t \in Seq(Point) /\ Len(t) = Len(s) /\ Range(t) = Range(s)
  BY <1>1, <1>2, SortedKth, SortedValues, Zenon
<1>10. InOrder(t)
  BY <1>1, <1>2, <1>9, SortedInOrder, Zenon DEF InOrder
<1>11. ASSUME NEW v, NEW i \in 1 .. Len(s), NEW j \in 1 .. Len(s), i # j, s[i] = v, s[j] = v
       PROVE  Repeats(t, v)
  <2>1. \E k, l \in 1 .. Len(s) : k # l /\ Sorted(s)[k] = s[i] /\ Sorted(s)[l] = s[i]
    <3>1. s \in Seq(0 .. b)
      BY <1>1, <1>2, Zenon
    <3>2. s[i] = s[j] /\ i # j
      BY <1>11, Zenon
    <3> HIDE DEF t
    <3> QED BY <3>1, <3>2, SortedTwice, Zenon
  <2> QED BY <2>1, <1>9, <1>11, Zenon DEF Repeats
<1>12. ASSUME NEW v, Repeats(r, v) PROVE Repeats(t, v)
  <2>1. PICK i \in 1 .. Len(r), j \in 1 .. Len(r) : i # j /\ r[i] = v /\ r[j] = v
    BY <1>12 DEF Repeats
  <2> QED BY <2>1, <1>6, <1>11
<1>13. ASSUME NEW v, v \in Range(r), v \in Range(q) PROVE Repeats(t, v)
  <2>1. PICK i \in 1 .. Len(r) : r[i] = v
    BY <1>13, <1>4
  <2>2. PICK j \in 1 .. Len(q) : q[j] = v
    BY <1>13, <1>4
  <2>3. i # j + Len(r)
    BY <1>4
  <2> QED BY <2>1, <2>2, <2>3, <1>6, <1>11, Zenon
<1> HIDE DEF t
<1>14. \A v : Repeats(r, v) \/ (v \in Range(r) /\ v \in Range(q)) => Repeats(t, v)
  BY <1>12, <1>13
<1> QED BY <1>2, <1>8, <1>9, <1>10, <1>14 DEF t, s

\* RemoveNode's loop: in order, and the values at the positions kept.
LEMMA SelectKeeps ==
  ASSUME NEW r \in Seq(Point), InOrder(r), NEW S \in SUBSET (1 .. Len(r))
  PROVE  LET t == SelectIn(r, S) IN
         t \in Seq(Point) /\ InOrder(t) /\ Range(t) = {r[i] : i \in S}
<1> DEFINE t == SelectIn(r, S)
           N == Cardinality(S)
<1>1. t \in Seq(Point) /\ Len(t) = N
  BY SelectFacts
<1>2. PICK f \in [1 .. N -> S] :
        /\ \A k \in 1 .. N : t[k] = r[f[k]]
        /\ \A k, l \in 1 .. N : k < l => f[k] < f[l]
        /\ \A i \in S : \E k \in 1 .. N : f[k] = i
  BY SelectFacts
<1>3. N \in Nat /\ Range(t) = {t[k] : k \in 1 .. N}
  BY <1>1, Positions
<1>4. /\ Len(r) \in Nat /\ \A i \in S : i \in 1 .. Len(r) /\ i \in Nat
      /\ \A i \in 1 .. Len(r) : r[i] \in Nat
  BY Positions
<1> HIDE DEF t, N
<1>5. ASSUME NEW k \in 1 .. N, NEW l \in 1 .. N, k <= l PROVE t[k] <= t[l]
  <2>1. f[k] \in S /\ f[l] \in S
    OBVIOUS
  <2>2. CASE k = l
    <3>1. t[k] \in Nat
      BY <2>1, <1>2, <1>4, Zenon
    <3> QED BY <3>1, <2>2
  <2>3. CASE k # l
    <3>1. k < l
      BY <1>3, <1>5, <2>3
    <3>2. f[k] < f[l]
      BY <3>1, <1>2
    <3>3. f[k] <= f[l]
      <4>1. f[k] \in Nat /\ f[l] \in Nat
        BY <2>1, <1>4, Zenon
      <4> QED BY <4>1, <3>2
    <3> QED BY <3>3, <2>1, <1>2, <1>4, Zenon DEF InOrder
  <2> QED BY <2>2, <2>3
<1>6. InOrder(t)
  BY <1>1, <1>5 DEF InOrder
<1>7. Range(t) = {r[i] : i \in S}
  <2>1. \A k \in 1 .. N : t[k] \in {r[i] : i \in S}
    BY <1>2, Zenon
  <2>2. \A i \in S : r[i] \in {t[k] : k \in 1 .. N}
    BY <1>2
  <2> QED BY <2>1, <2>2, <1>3, Zenon
<1> QED BY <1>1, <1>6, <1>7 DEF t

-----------------------------------------------------------------------------
(* Resolve.                                                                *)

\* Search and Resolve, for any slice and map.
SearchIn(r, h) ==
  IF r[Len(r)] < h THEN 1
  ELSE CHOOSE i \in 1 .. Len(r) : r[i] >= h /\ \A j \in 1 .. i - 1 : r[j] < h

AtIn(m, p) == IF p \in DOMAIN m THEN m[p] ELSE NoNode
ResolveIn(r, m, h) == IF r = <<>> THEN NoNode ELSE AtIn(m, r[SearchIn(r, h)])

\* p is the value of V that h comes to first, going clockwise.
Nearest(V, h, p) == p \in V /\ \A q \in V : Clockwise(h, p) <= Clockwise(h, q)

\* Two points are equally far from h only when they are the same.
LEMMA NearestIsOne ==
  ASSUME NEW V \in SUBSET Point, NEW h \in Point, NEW p, NEW q,
         Nearest(V, h, p), Nearest(V, h, q)
  PROVE  p = q
<1>1. p \in Point /\ q \in Point /\ Clockwise(h, p) <= Clockwise(h, q)
      /\ Clockwise(h, q) <= Clockwise(h, p)
  BY DEF Nearest
<1>2. p \in Nat /\ q \in Nat /\ h \in Nat /\ Points \in Nat /\ p < Points /\ q < Points /\ h < Points
  BY <1>1, PointFacts
<1> QED BY <1>1, <1>2 DEF Clockwise

\* sort.Search on a sorted slice finds it.
LEMMA SearchNearest ==
  ASSUME NEW r \in Seq(Point), InOrder(r), r # <<>>, NEW h \in Point
  PROVE  SearchIn(r, h) \in 1 .. Len(r) /\ Nearest(Range(r), h, r[SearchIn(r, h)])
<1>1. /\ Len(r) \in Nat /\ Len(r) # 0 /\ Range(r) = {r[i] : i \in 1 .. Len(r)}
      /\ \A i \in 1 .. Len(r) : r[i] \in Nat /\ r[i] < Points
      /\ h \in Nat /\ Points \in Nat /\ h < Points
  BY Positions, PointFacts, SMTT(30)
<1>2. SUFFICES /\ SearchIn(r, h) \in 1 .. Len(r)
               /\ \A i \in 1 .. Len(r) : Clockwise(h, r[SearchIn(r, h)]) <= Clockwise(h, r[i])
  BY <1>1 DEF Nearest
<1>3. CASE r[Len(r)] < h
  <2>1. SearchIn(r, h) = 1 /\ 1 \in 1 .. Len(r) /\ Len(r) \in 1 .. Len(r)
    BY <1>1, <1>3 DEF SearchIn
  <2>2. ASSUME NEW i \in 1 .. Len(r) PROVE r[1] <= r[i] /\ r[i] < h
    <3>1. r[1] <= r[i] /\ r[i] <= r[Len(r)]
      BY <1>1, <2>1 DEF InOrder
    <3> QED BY <3>1, <2>1, <1>1, <1>3
  <2> QED BY <2>1, <2>2, <1>1 DEF Clockwise
<1>4. CASE ~ (r[Len(r)] < h)
  <2> DEFINE T == {i \in 1 .. Len(r) : r[i] >= h}
             Found(i) == r[i] >= h /\ \A j \in 1 .. i - 1 : r[j] < h
  <2>1. T \in SUBSET Nat /\ T # {}
    <3>1. Len(r) \in 1 .. Len(r) /\ r[Len(r)] >= h
      BY <1>1, <1>4
    <3> QED BY <3>1, <1>1
  <2>2. PICK m \in T : \A x \in T : m <= x
    <3> HIDE DEF T
    <3> QED BY <2>1, LeastNat
  <2>3. Found(m)
    BY <2>2, <1>1
  <2>4. SearchIn(r, h) = CHOOSE i \in 1 .. Len(r) : Found(i)
    BY <1>4 DEF SearchIn
  <2>5. SearchIn(r, h) \in 1 .. Len(r) /\ Found(SearchIn(r, h))
    <3>1. m \in 1 .. Len(r)
      OBVIOUS
    <3> HIDE DEF Found
    <3> QED BY <3>1, <2>3, <2>4
  <2>6. PICK k \in 1 .. Len(r) : k = SearchIn(r, h) /\ Found(k)
    BY <2>5
  <2>7. ASSUME NEW i \in 1 .. Len(r) PROVE Clockwise(h, r[k]) <= Clockwise(h, r[i])
    <3>1. CASE k <= i
      BY <3>1, <2>6, <1>1, SMTT(30) DEF InOrder, Clockwise
    <3>2. CASE i < k
      <4>1. r[i] < h
        BY <3>2, <2>6, <1>1
      <4> QED BY <4>1, <2>6, <1>1 DEF Clockwise
    <3> QED BY <3>1, <3>2, <1>1
  <2> QED BY <2>6, <2>7
<1> QED BY <1>3, <1>4

-----------------------------------------------------------------------------
(* The invariant.                                                          *)

\* RingIsItsMembers is not inductive: RemoveNode would drop a point that a
\* member shares with the node that leaves.  As long as points were distinct
\* at every removal, a shared point is on the ring twice, so a removal with
\* distinct points meets none.
SharedIsRepeated ==
  clean => \A a, b \in members : \A v :
    a # b /\ v \in PointsOf(a) /\ v \in PointsOf(b) => Repeats(ring, v)

RingInv == TypeOK /\ RingIsItsMembers /\ SharedIsRepeated

\* The operations and lookups of the state, in terms of the above.
LEMMA InState ==
  /\ \A h : Resolve(h) = ResolveIn(ring, nodeMap, h)
  /\ \A h : Resolve(h)' = ResolveIn(ring', nodeMap', h)
  /\ \A S : Select(S) = SelectIn(ring, S)
  /\ \A p : NodeAt(p) = AtIn(nodeMap, p)
BY DEF Resolve, ResolveIn, Search, SearchIn, NodeAt, AtIn, Select, SelectIn

\* What AddNode does, in sets.
LEMMA AddEffect ==
  ASSUME TypeOK, NEW addr \in Node, AddNode(addr)
  PROVE  /\ ring' \in Seq(Point) /\ InOrder(ring') /\ ring' # <<>>
         /\ Range(ring') = Range(ring) \cup PointsOf(addr)
         /\ PointsOf(addr) \subseteq Point /\ PointsOf(addr) # {}
         /\ \A v : Repeats(ring, v) \/ (v \in Range(ring) /\ v \in PointsOf(addr))
                     => Repeats(ring', v)
         /\ DOMAIN nodeMap' = DOMAIN nodeMap \cup PointsOf(addr)
         /\ \A p : AtIn(nodeMap', p) = IF p \in PointsOf(addr) THEN addr ELSE AtIn(nodeMap, p)
<1> DEFINE q == [k \in 1 .. VNodes |-> pt[<<addr, k - 1>>]]
<1>1. VNodes \in Nat /\ VNodes # 0
  BY PointFacts
<1>2. q \in [1 .. VNodes -> Point]
  <2>1. ASSUME NEW k \in 1 .. VNodes PROVE pt[<<addr, k - 1>>] \in Point
    <3>1. k - 1 \in VNode
      BY <1>1 DEF VNode
    <3> QED BY <3>1 DEF TypeOK
  <2> QED BY <2>1
<1>3. q \in Seq(Point) /\ Len(q) = VNodes
  BY <1>1, <1>2, SeqOfLength
<1>4. Range(q) = PointsOf(addr)
  <2>1. DOMAIN q = 1 .. VNodes
    OBVIOUS
  <2>2. \A k \in 1 .. VNodes : k - 1 \in VNode /\ q[k] = pt[<<addr, k - 1>>]
    BY <1>1 DEF VNode
  <2>3. ASSUME NEW x \in VNode PROVE x + 1 \in 1 .. VNodes /\ q[x + 1] = pt[<<addr, x>>]
    <3>1. x + 1 \in 1 .. VNodes /\ (x + 1) - 1 = x
      BY <1>1 DEF VNode
    <3> QED BY <3>1, <2>2
  <2> HIDE DEF q
  <2>4. Range(q) = {q[k] : k \in 1 .. VNodes}
    BY <2>1 DEF Range
  <2>5. \A k \in 1 .. VNodes : q[k] \in PointsOf(addr)
    BY <2>2, Zenon DEF PointsOf
  <2>6. \A x \in VNode : pt[<<addr, x>>] \in {q[k] : k \in 1 .. VNodes}
    BY <2>3
  <2> QED BY <2>4, <2>5, <2>6, Zenon DEF PointsOf
<1>5. ring \in Seq(Point) /\ ring' = Sorted(ring \o q)
  BY DEF TypeOK, AddNode
<1>6. PointsOf(addr) \subseteq Point
  BY <1>3, <1>4, Positions
<1>7. PointsOf(addr) # {}
  <2>1. 0 \in VNode
    BY <1>1 DEF VNode
  <2> QED BY <2>1, Zenon DEF PointsOf
<1> HIDE DEF q
<1>8. /\ ring' \in Seq(Point) /\ Len(ring') = Len(ring) + Len(q) /\ InOrder(ring')
      /\ Range(ring') = Range(ring) \cup Range(q)
      /\ \A v : Repeats(ring, v) \/ (v \in Range(ring) /\ v \in Range(q)) => Repeats(ring', v)
  BY <1>3, <1>5, AppendSorted, Zenon
<1>9. ring' # <<>>
  <2>1. Len(ring) \in Nat /\ Len(<<>>) = 0
    BY <1>5
  <2> QED BY <2>1, <1>1, <1>3, <1>8
<1>10. nodeMap' = [h \in DOMAIN nodeMap \cup PointsOf(addr) |->
                     IF h \in PointsOf(addr) THEN addr ELSE nodeMap[h]]
  BY DEF AddNode
<1>11. /\ DOMAIN nodeMap' = DOMAIN nodeMap \cup PointsOf(addr)
       /\ \A p : AtIn(nodeMap', p) = IF p \in PointsOf(addr) THEN addr ELSE AtIn(nodeMap, p)
  BY <1>10, Zenon DEF AtIn
<1> QED BY <1>4, <1>6, <1>7, <1>8, <1>9, <1>11

\* What RemoveNode does, in sets.
LEMMA RemoveEffect ==
  ASSUME TypeOK, NEW addr \in Node, RemoveNode(addr)
  PROVE  /\ ring' \in Seq(Point) /\ InOrder(ring')
         /\ Range(ring') \subseteq Range(ring)
         /\ \A v \in Range(ring) : AtIn(nodeMap, v) # addr => v \in Range(ring')
         /\ NoRepeats => \A v \in Range(ring') : AtIn(nodeMap, v) # addr
         /\ DOMAIN nodeMap' = {x \in DOMAIN nodeMap : nodeMap[x] # addr}
         /\ \A p : AtIn(nodeMap', p) = IF AtIn(nodeMap, p) = addr THEN NoNode ELSE AtIn(nodeMap, p)
<1> DEFINE S == {i \in 1 .. Len(ring) :
                   NodeAt(ring[i]) # addr \/ \E j \in 1 .. i - 1 : ring[j] = ring[i]}
<1>1. ring \in Seq(Point) /\ InOrder(ring) /\ ring' = SelectIn(ring, S)
  BY InState DEF TypeOK, InOrder, RemoveNode
<1>2. S \in SUBSET (1 .. Len(ring))
  BY Zenon
<1>3. Len(ring) \in Nat /\ Range(ring) = {ring[i] : i \in 1 .. Len(ring)}
  BY <1>1, Positions
<1>4. \A i \in 1 .. Len(ring) : AtIn(nodeMap, ring[i]) # addr => i \in S
  BY InState
<1>5. ASSUME NoRepeats, NEW i \in S PROVE AtIn(nodeMap, ring[i]) # addr
  <2>1. ASSUME NEW j \in 1 .. i - 1 PROVE ring[j] # ring[i]
    <3>1. j \in 1 .. Len(ring) /\ i \in 1 .. Len(ring) /\ j # i
      BY <1>3
    <3> QED BY <3>1, <1>5 DEF NoRepeats
  <2> QED BY <2>1, InState
<1> HIDE DEF S
<1>6. ring' \in Seq(Point) /\ InOrder(ring') /\ Range(ring') = {ring[i] : i \in S}
  BY <1>1, <1>2, SelectKeeps
<1>7. Range(ring') \subseteq Range(ring)
  BY <1>2, <1>3, <1>6
<1>8. ASSUME NEW v \in Range(ring), AtIn(nodeMap, v) # addr PROVE v \in Range(ring')
  BY <1>3, <1>4, <1>6, <1>8
<1>9. ASSUME NoRepeats, NEW v \in Range(ring') PROVE AtIn(nodeMap, v) # addr
  BY <1>5, <1>6, <1>9
<1>10. nodeMap' = [h \in {x \in DOMAIN nodeMap : nodeMap[x] # addr} |-> nodeMap[h]]
  BY DEF RemoveNode
<1>11. addr # NoNode
  BY NodeAssumption
<1>12. /\ DOMAIN nodeMap' = {x \in DOMAIN nodeMap : nodeMap[x] # addr}
       /\ \A p : AtIn(nodeMap', p) = IF AtIn(nodeMap, p) = addr THEN NoNode ELSE AtIn(nodeMap, p)
  BY <1>10, <1>11 DEF AtIn
<1> QED BY <1>6, <1>7, <1>8, <1>9, <1>12, Zenon

\* Each kind of step keeps the invariant.
LEMMA AddKeeps ==
  ASSUME RingInv, NEW addr \in Node, AddNode(addr)
  PROVE  RingInv'
<1>1. TypeOK /\ RingIsItsMembers /\ SharedIsRepeated
  BY DEF RingInv
<1>2. /\ ring' \in Seq(Point) /\ InOrder(ring') /\ Range(ring') = Range(ring) \cup PointsOf(addr)
      /\ PointsOf(addr) \subseteq Point
      /\ \A v : Repeats(ring, v) \/ (v \in Range(ring) /\ v \in PointsOf(addr)) => Repeats(ring', v)
      /\ DOMAIN nodeMap' = DOMAIN nodeMap \cup PointsOf(addr)
      /\ \A p : AtIn(nodeMap', p) = IF p \in PointsOf(addr) THEN addr ELSE AtIn(nodeMap, p)
  BY <1>1, AddEffect, Zenon
<1>3. pt' = pt /\ clean' = clean /\ members' = members \cup {addr}
  BY DEF AddNode
<1>4. \A n : PointsOf(n)' = PointsOf(n)
  BY <1>3, Zenon DEF PointsOf
<1>5. Range(ring) = {ring[i] : i \in 1 .. Len(ring)} /\ Range(ring') = {ring'[i] : i \in 1 .. Len(ring')}
  BY <1>1, <1>2, Positions DEF TypeOK
<1>6. \A p \in DOMAIN nodeMap' :
        nodeMap'[p] = IF p \in PointsOf(addr) THEN addr ELSE nodeMap[p]
  BY <1>2 DEF AtIn
<1>7. TypeOK'
  <2>1. DOMAIN nodeMap' \subseteq Point /\ \A h \in DOMAIN nodeMap' : nodeMap'[h] \in Node
    BY <1>1, <1>2, <1>6 DEF TypeOK
  <2>2. pt' \in [Node \X VNode -> Point] /\ members' \subseteq Node /\ clean' \in BOOLEAN
    BY <1>1, <1>3 DEF TypeOK
  <2> QED BY <2>1, <2>2, <1>2, Zenon DEF TypeOK, InOrder
<1>8. RingIsItsMembers'
  <2> SUFFICES ASSUME clean PROVE RingIsItsMembers'
    BY <1>3, Zenon DEF RingIsItsMembers
  <2> DEFINE All == UNION {PointsOf(n) : n \in members}
             More == UNION {PointsOf(n) : n \in members'}
  <2>1. /\ Range(ring) = All /\ DOMAIN nodeMap = All
        /\ \A h \in DOMAIN nodeMap : nodeMap[h] \in members /\ h \in PointsOf(nodeMap[h])
    BY <1>1, <1>5 DEF RingIsItsMembers
  <2>2. More = All \cup PointsOf(addr)
    <3>1. ASSUME NEW h, h \in More PROVE h \in All \cup PointsOf(addr)
      BY <3>1, <1>3
    <3>2. ASSUME NEW h, h \in All \cup PointsOf(addr) PROVE h \in More
      BY <3>2, <1>3
    <3> QED BY <3>1, <3>2
  <2>3. \A h \in DOMAIN nodeMap' : nodeMap'[h] \in members' /\ h \in PointsOf(nodeMap'[h])
    BY <2>1, <1>2, <1>3, <1>6
  <2>4. (UNION {PointsOf(n) : n \in members})' = More
    BY <1>4
  <2> HIDE DEF All, More
  <2>5. Range(ring') = More /\ DOMAIN nodeMap' = More
    BY <2>1, <2>2, <1>2
  <2> QED BY <2>3, <2>4, <2>5, <1>4, <1>5 DEF RingIsItsMembers
<1>9. SharedIsRepeated'
  <2> SUFFICES ASSUME clean, NEW a \in members', NEW b \in members', NEW v,
                      a # b, v \in PointsOf(a), v \in PointsOf(b)
               PROVE  Repeats(ring', v)
    BY <1>3, <1>4 DEF SharedIsRepeated
  <2>1. CASE a \in members /\ b \in members
    BY <2>1, <1>1, <1>2 DEF SharedIsRepeated
  <2>2. ASSUME NEW n \in members, v \in PointsOf(n), v \in PointsOf(addr) PROVE Repeats(ring', v)
    <3>1. v \in Range(ring)
      BY <2>2, <1>1, <1>5 DEF RingIsItsMembers
    <3> QED BY <3>1, <2>2, <1>2
  <2>3. a = addr \/ b = addr \/ (a \in members /\ b \in members)
    BY <1>3
  <2> QED BY <2>1, <2>2, <2>3, <1>3
<1> QED BY <1>7, <1>8, <1>9 DEF RingInv

LEMMA RemoveKeeps ==
  ASSUME RingInv, NEW addr \in Node, RemoveNode(addr)
  PROVE  RingInv'
<1>1. TypeOK /\ RingIsItsMembers /\ SharedIsRepeated
  BY DEF RingInv
<1>2. /\ ring' \in Seq(Point) /\ InOrder(ring') /\ Range(ring') \subseteq Range(ring)
      /\ \A v \in Range(ring) : AtIn(nodeMap, v) # addr => v \in Range(ring')
      /\ NoRepeats => \A v \in Range(ring') : AtIn(nodeMap, v) # addr
      /\ DOMAIN nodeMap' = {x \in DOMAIN nodeMap : nodeMap[x] # addr}
      /\ \A p : AtIn(nodeMap', p) = IF AtIn(nodeMap, p) = addr THEN NoNode ELSE AtIn(nodeMap, p)
  BY <1>1, RemoveEffect, Zenon
<1>3. pt' = pt /\ clean' = (clean /\ NoRepeats) /\ members' = members \ {addr}
  BY DEF RemoveNode
<1>4. \A n : PointsOf(n)' = PointsOf(n)
  BY <1>3 DEF PointsOf
<1>5. Range(ring) = {ring[i] : i \in 1 .. Len(ring)} /\ Range(ring') = {ring'[i] : i \in 1 .. Len(ring')}
  BY <1>1, <1>2, Positions, Zenon DEF TypeOK
<1>6. \A p \in DOMAIN nodeMap' : p \in DOMAIN nodeMap /\ nodeMap'[p] = nodeMap[p] /\ nodeMap[p] # addr
  BY <1>2 DEF AtIn
<1>7. TypeOK'
  <2>1. DOMAIN nodeMap' \subseteq Point /\ \A h \in DOMAIN nodeMap' : nodeMap'[h] \in Node
    BY <1>1, <1>6 DEF TypeOK
  <2>2. pt' \in [Node \X VNode -> Point] /\ members' \subseteq Node
    BY <1>1, <1>3 DEF TypeOK
  <2>3. clean' \in BOOLEAN
    BY <1>1, <1>3 DEF TypeOK
  <2> QED BY <2>1, <2>2, <2>3, <1>2 DEF TypeOK, InOrder
<1>8. ASSUME clean, NoRepeats, NEW a \in members, NEW b \in members, NEW v,
             v \in PointsOf(a), v \in PointsOf(b)
      PROVE  a = b
  <2>1. ~ Repeats(ring, v)
    BY <1>8 DEF NoRepeats, Repeats
  <2> QED BY <2>1, <1>1, <1>8 DEF SharedIsRepeated
<1>9. RingIsItsMembers'
  <2> SUFFICES ASSUME clean, NoRepeats PROVE RingIsItsMembers'
    BY <1>3, Zenon DEF RingIsItsMembers
  <2> DEFINE All == UNION {PointsOf(n) : n \in members}
             Rest == UNION {PointsOf(n) : n \in members'}
  <2>1. /\ Range(ring) = All /\ DOMAIN nodeMap = All
        /\ \A h \in DOMAIN nodeMap : nodeMap[h] \in members /\ h \in PointsOf(nodeMap[h])
    BY <1>1, <1>5 DEF RingIsItsMembers
  <2>2. addr \in members
    BY DEF RemoveNode
  <2>3. \A h \in All : h \in Rest <=> nodeMap[h] # addr
    <3>1. ASSUME NEW h \in All, nodeMap[h] # addr PROVE h \in Rest
      BY <3>1, <2>1, <1>3
    <3>2. ASSUME NEW h \in All, NEW n \in members', h \in PointsOf(n) PROVE nodeMap[h] # addr
      <4>1. nodeMap[h] \in members /\ h \in PointsOf(nodeMap[h]) /\ n \in members /\ n # addr
        BY <2>1, <1>3
      <4> QED BY <4>1, <3>2, <1>8
    <3> QED BY <3>1, <3>2
  <2>4. Rest \subseteq All
    BY <1>3, Zenon
  <2> HIDE DEF All, Rest
  <2>5. DOMAIN nodeMap' = Rest
    BY <2>1, <2>3, <2>4, <1>2
  <2>6. \A h \in All : AtIn(nodeMap, h) = nodeMap[h]
    BY <2>1 DEF AtIn
  <2>7. Range(ring') = Rest
    BY <2>1, <2>3, <2>4, <2>6, <1>2, Zenon
  <2>8. \A h \in DOMAIN nodeMap' : nodeMap'[h] \in members' /\ h \in PointsOf(nodeMap'[h])
    BY <2>1, <1>3, <1>6
  <2>9. (UNION {PointsOf(n) : n \in members})' = Rest
    BY <1>4 DEF Rest
  <2> QED BY <2>5, <2>7, <2>8, <2>9, <1>4, <1>5 DEF RingIsItsMembers
<1>10. SharedIsRepeated'
  BY <1>3, <1>4, <1>8, Zenon DEF SharedIsRepeated
<1> QED BY <1>7, <1>9, <1>10 DEF RingInv

\* The invariant holds.
THEOREM RingInvariant == Spec => []RingInv
<1>1. Init => RingInv
  <2> SUFFICES ASSUME Init PROVE RingInv
    OBVIOUS
  <2>1. ring = <<>> /\ ring \in Seq(Point) /\ Len(ring) = 0
    BY DEF Init
  <2>2. 1 .. Len(ring) = {}
    BY <2>1
  <2>3. nodeMap = [h \in {} |-> NoNode] /\ DOMAIN nodeMap = {} /\ members = {}
    BY DEF Init
  <2>4. TypeOK
    BY <2>1, <2>2, <2>3 DEF Init, TypeOK
  <2>5. {ring[i] : i \in 1 .. Len(ring)} = {} /\ UNION {PointsOf(n) : n \in members} = {}
    BY <2>2, <2>3
  <2> QED BY <2>3, <2>4, <2>5, Zenon DEF RingInv, RingIsItsMembers, SharedIsRepeated
<1>2. RingInv /\ [Next]_vars => RingInv'
  <2> SUFFICES ASSUME RingInv, [Next]_vars PROVE RingInv'
    OBVIOUS
  <2>1. CASE Next
    BY <2>1, AddKeeps, RemoveKeeps DEF Next
  <2>2. CASE UNCHANGED vars
    <3>1. pt' = pt /\ ring' = ring /\ nodeMap' = nodeMap /\ members' = members /\ clean' = clean
      BY <2>2 DEF vars
    <3>2. TypeOK'
      BY <3>1 DEF RingInv, TypeOK
    <3>3. \A n : PointsOf(n)' = PointsOf(n)
      BY <3>1, Zenon DEF PointsOf
    <3>4. RingIsItsMembers'
      <4>1. (UNION {PointsOf(n) : n \in members})' = UNION {PointsOf(n) : n \in members}
        BY <3>1, <3>3
      <4> QED BY <4>1, <3>1, <3>3 DEF RingInv, RingIsItsMembers
    <3>5. SharedIsRepeated'
      BY <3>1, <3>3 DEF RingInv, SharedIsRepeated
    <3> QED BY <3>2, <3>4, <3>5 DEF RingInv
  <2> QED BY <2>1, <2>2
<1> QED BY <1>1, <1>2, PTL DEF Spec

-----------------------------------------------------------------------------
(* The theorems.                                                           *)

\* The slice stays sorted, so that sort.Search finds what it should, and the
\* map names nodes.
THEOREM TypeCorrect == Spec => []TypeOK
<1>1. RingInv => TypeOK
  BY DEF RingInv
<1> QED BY <1>1, RingInvariant, PTL

\* The ring is what its members make it, whatever joined and left before.
THEOREM RingHoldsItsMembers == Spec => []RingIsItsMembers
<1>1. RingInv => RingIsItsMembers
  BY DEF RingInv
<1> QED BY <1>1, RingInvariant, PTL

\* A group goes to the closest clockwise virtual node of any member.
THEOREM GroupsGoToTheClosest == Spec => []ResolveIsClosest
<1>1. RingInv => ResolveIsClosest
  <2> SUFFICES ASSUME RingInv, clean, members # {}, NEW h \in Point
               PROVE  /\ Resolve(h) \in members
                      /\ \E p \in PointsOf(Resolve(h)) : \A n \in members : \A q \in PointsOf(n) :
                           Clockwise(h, p) <= Clockwise(h, q)
    BY DEF ResolveIsClosest
  <2> DEFINE All == UNION {PointsOf(n) : n \in members}
             p == ring[SearchIn(ring, h)]
  <2>1. ring \in Seq(Point) /\ InOrder(ring)
    BY DEF RingInv, TypeOK, InOrder
  <2>2. Range(ring) = {ring[i] : i \in 1 .. Len(ring)} /\ DOMAIN ring = 1 .. Len(ring)
    BY <2>1, Positions
  <2>3. /\ Range(ring) = All /\ DOMAIN nodeMap = All
        /\ \A x \in DOMAIN nodeMap : nodeMap[x] \in members /\ x \in PointsOf(nodeMap[x])
    BY <2>2 DEF RingInv, RingIsItsMembers
  <2>4. ring # <<>>
    <3>1. PICK n \in members : TRUE
      OBVIOUS
    <3>2. 0 \in VNode
      BY PointFacts DEF VNode
    <3>3. pt[<<n, 0>>] \in All
      BY <3>2 DEF PointsOf
    <3>4. Range(ring) # {}
      BY <3>3, <2>3
    <3>5. DOMAIN <<>> = {}
      OBVIOUS
    <3> QED BY <3>4, <3>5 DEF Range
  <2>5. Nearest(Range(ring), h, p)
    BY <2>1, <2>4, SearchNearest
  <2>6. Resolve(h) = AtIn(nodeMap, p)
    BY <2>4, InState DEF ResolveIn
  <2> HIDE DEF p
  <2>7. p \in DOMAIN nodeMap /\ \A q \in All : Clockwise(h, p) <= Clockwise(h, q)
    BY <2>3, <2>5 DEF Nearest
  <2>8. Resolve(h) = nodeMap[p]
    BY <2>6, <2>7 DEF AtIn
  <2>9. Resolve(h) \in members /\ p \in PointsOf(Resolve(h))
    BY <2>3, <2>7, <2>8
  <2> QED BY <2>7, <2>9
<1> QED BY <1>1, RingInvariant, PTL

\* A node that joins takes groups for itself and moves none between others.
THEOREM GrowthIsLocal == Spec => GrowthMovesOnlyToNewcomer
<1>1. ASSUME TypeOK, [Next]_vars, NEW n \in members' \ members, NEW h \in Point
      PROVE  Resolve(h)' \in {Resolve(h), n}
  <2>1. PICK addr \in Node : AddNode(addr) \/ RemoveNode(addr)
    BY <1>1 DEF Next, vars
  <2>2. AddNode(addr) /\ addr = n
    BY <1>1, <2>1 DEF AddNode, RemoveNode
  <2> DEFINE p == ring[SearchIn(ring, h)]
             q == ring'[SearchIn(ring', h)]
  <2>3. /\ ring' \in Seq(Point) /\ InOrder(ring') /\ ring' # <<>>
        /\ Range(ring') = Range(ring) \cup PointsOf(n)
        /\ \A x : AtIn(nodeMap', x) = IF x \in PointsOf(n) THEN n ELSE AtIn(nodeMap, x)
    BY <1>1, <2>2, AddEffect, Zenon
  <2>4. Resolve(h)' = AtIn(nodeMap', q)
    BY <2>3, InState DEF ResolveIn
  <2>5. Nearest(Range(ring'), h, q)
    BY <2>3, SearchNearest, Zenon
  <2> HIDE DEF q
  <2>6. CASE q \in PointsOf(n)
    BY <2>3, <2>4, <2>6
  <2>7. CASE q \notin PointsOf(n)
    <3>1. ring \in Seq(Point) /\ InOrder(ring)
      BY <1>1 DEF TypeOK, InOrder
    <3>2. Nearest(Range(ring), h, q)
      BY <2>3, <2>5, <2>7 DEF Nearest
    <3>3. ring # <<>>
      <4>1. Range(ring) # {}
        BY <3>2 DEF Nearest
      <4>2. DOMAIN <<>> = {}
        OBVIOUS
      <4> QED BY <4>1, <4>2 DEF Range
    <3>4. Nearest(Range(ring), h, p)
      BY <3>1, <3>3, SearchNearest
    <3>5. Range(ring) \in SUBSET Point
      BY <3>1, Positions
    <3>6. Resolve(h) = AtIn(nodeMap, p)
      BY <3>3, InState DEF ResolveIn
    <3> HIDE DEF p
    <3>7. p = q
      BY <3>2, <3>4, <3>5, NearestIsOne
    <3> QED BY <3>6, <3>7, <2>3, <2>4, <2>7
  <2> QED BY <2>6, <2>7
<1>2. TypeOK /\ [Next]_vars =>
        [\A n \in members' \ members : \A h \in Point : Resolve(h)' \in {Resolve(h), n}]_vars
  BY <1>1
<1> QED BY <1>2, TypeCorrect, PTL DEF Spec, GrowthMovesOnlyToNewcomer

\* A node that leaves gives its groups away and moves none of the others.
THEOREM RemovalIsLocal == Spec => RemovalMovesOnlyItsGroups
<1>1. ASSUME TypeOK, [Next]_vars, NEW n \in members \ members', NEW h \in Point, Resolve(h) # n
      PROVE  Resolve(h)' = Resolve(h)
  <2>1. PICK addr \in Node : AddNode(addr) \/ RemoveNode(addr)
    BY <1>1, Zenon DEF Next, vars
  <2>2. RemoveNode(addr) /\ addr = n
    BY <1>1, <2>1 DEF AddNode, RemoveNode
  <2> DEFINE p == ring[SearchIn(ring, h)]
             q == ring'[SearchIn(ring', h)]
  <2>3. /\ ring' \in Seq(Point) /\ InOrder(ring') /\ Range(ring') \subseteq Range(ring)
        /\ \A v \in Range(ring) : AtIn(nodeMap, v) # n => v \in Range(ring')
        /\ \A x : AtIn(nodeMap', x) = IF AtIn(nodeMap, x) = n THEN NoNode ELSE AtIn(nodeMap, x)
    BY <1>1, <2>2, RemoveEffect, Zenon
  <2>4. ring \in Seq(Point) /\ InOrder(ring)
    BY <1>1 DEF TypeOK, InOrder
  <2>5. \A r \in Seq(Point) : r = <<>> <=> Range(r) = {}
    <3> SUFFICES ASSUME NEW r \in Seq(Point) PROVE r = <<>> <=> Range(r) = {}
      OBVIOUS
    <3>1. Len(r) \in Nat /\ Range(r) = {r[i] : i \in 1 .. Len(r)}
      BY Positions
    <3>2. r # <<>> => Len(r) # 0
      OBVIOUS
    <3>3. r = <<>> => Len(r) = 0
      OBVIOUS
    <3> QED BY <3>1, <3>2, <3>3
  <2>6. CASE ring = <<>>
    <3>1. ring' = <<>>
      BY <2>3, <2>4, <2>5, <2>6, Zenon
    <3> QED BY <3>1, <2>6, InState DEF ResolveIn
  <2>7. CASE ring # <<>>
    <3>1. Nearest(Range(ring), h, p) /\ Resolve(h) = AtIn(nodeMap, p)
      BY <2>4, <2>7, SearchNearest, InState DEF ResolveIn
    <3> HIDE DEF p
    <3>2. Nearest(Range(ring'), h, p)
      BY <3>1, <2>3, <1>1 DEF Nearest
    <3>3. ring' # <<>>
      BY <3>2, <2>3, <2>5, Zenon DEF Nearest
    <3>4. Nearest(Range(ring'), h, q) /\ Resolve(h)' = AtIn(nodeMap', q)
      BY <2>3, <3>3, SearchNearest, InState, Zenon DEF ResolveIn
    <3> HIDE DEF q
    <3>5. Range(ring') \in SUBSET Point
      BY <2>3, Positions
    <3>6. p = q
      BY <3>2, <3>4, <3>5, NearestIsOne
    <3> QED BY <3>1, <3>4, <3>6, <2>3, <1>1
  <2> QED BY <2>6, <2>7
<1>2. TypeOK /\ [Next]_vars =>
        [\A n \in members \ members' : \A h \in Point : Resolve(h) # n => Resolve(h)' = Resolve(h)]_vars
  BY <1>1
<1> QED BY <1>2, TypeCorrect, PTL DEF Spec, RemovalMovesOnlyItsGroups
=============================================================================
