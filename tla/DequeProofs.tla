---------------------------- MODULE DequeProofs ----------------------------
(***************************************************************************)
(* Keep and InsertBehind yield sequences of the same elements, in the same *)
(* order.                                                                  *)
(***************************************************************************)
EXTENDS Deque, FiniteSetTheorems, SequenceTheorems, WellFoundedInduction, TLAPS

\* A non-empty set of naturals has a least element, the one Least chooses.
LEMMA LeastProperty ==
    ASSUME NEW S \in SUBSET Nat, S # {}
    PROVE  Least(S) \in S /\ \A j \in S : Least(S) <= j
<1>1. PICK m \in S : \A j \in S : ~(<<j, m>> \in OpToRel(<, Nat))
    BY NatLessThanWellFounded, WFMin
<1>2. ASSUME NEW j \in S PROVE m <= j
  <2>1. j \in Nat /\ m \in Nat OBVIOUS
  <2>2. ~(<<j, m>> \in {ss \in Nat \X Nat : ss[1] < ss[2]}) BY <1>1, <1>2 DEF OpToRel
  <2>3. ~(j < m) BY <2>1, <2>2
  <2> QED BY <2>1, <2>3
<1> QED BY <1>2 DEF Least

\* A non-empty set of positions has a greatest element.
LEMMA GreatestExists ==
    ASSUME NEW n \in Nat, NEW K \in SUBSET (1 .. n), K # {}
    PROVE  \E m \in K : \A k \in K : k <= m
<1> DEFINE U == {u \in Nat : \A k \in K : k <= u}
<1>1. U \in SUBSET Nat /\ n \in U /\ U # {} OBVIOUS
<1> HIDE DEF U
<1>2. Least(U) \in U /\ \A u \in U : Least(U) <= u BY <1>1, LeastProperty
<1>3. PICK m \in Nat : m \in U /\ \A u \in U : m <= u BY <1>1, <1>2
<1>4. m \in K
  <2> SUFFICES ASSUME m \notin K PROVE FALSE OBVIOUS
  <2>1. \A k \in K : k <= m - 1 BY <1>3 DEF U
  <2>2. m - 1 \in Nat
    <3>1. PICK k \in K : TRUE OBVIOUS
    <3>2. k \in 1 .. n /\ k <= m - 1 BY <2>1, <3>1
    <3> QED BY <3>2
  <2>3. m - 1 \in U BY <2>1, <2>2 DEF U
  <2> QED BY <1>3, <2>3
<1> QED BY <1>3, <1>4 DEF U

\* Positions are finite sets, and so are their subsets.
LEMMA PositionsFinite ==
    ASSUME NEW n \in Nat, NEW K \in SUBSET (1 .. n)
    PROVE  /\ IsFiniteSet(K)
           /\ Cardinality(K) \in Nat
<1>1. IsFiniteSet(1 .. n) BY FS_Interval
<1>2. IsFiniteSet(K) BY <1>1, FS_Subset
<1> QED BY <1>2, FS_CardinalityType

\* Rank counts: it is a number from 1 to the size of K, and grows strictly.
LEMMA RankProperty ==
    ASSUME NEW n \in Nat, NEW K \in SUBSET (1 .. n)
    PROVE  /\ \A j \in K : Rank(K, j) \in 1 .. Cardinality(K)
           /\ \A j, k \in K : j < k => Rank(K, j) < Rank(K, k)
<1> DEFINE D(j) == {k \in K : k <= j}
<1>1. ASSUME NEW j \in K PROVE D(j) \in SUBSET K /\ D(j) \in SUBSET (1 .. n) /\ j \in D(j)
  <2>1. j \in 1 .. n BY <1>1
  <2>2. j <= j BY <2>1
  <2> QED BY <2>2, <1>1
<1>2. ASSUME NEW j \in K PROVE Rank(K, j) \in 1 .. Cardinality(K)
  <2> HIDE DEF D
  <2>1. IsFiniteSet(D(j)) /\ Cardinality(D(j)) \in Nat BY <1>1, <1>2, PositionsFinite
  <2>2. Cardinality(D(j)) # 0 BY <2>1, <1>1, <1>2, FS_EmptySet
  <2>3. Cardinality(D(j)) <= Cardinality(K) BY <1>1, <1>2, PositionsFinite, FS_Subset
  <2>4. Cardinality(K) \in Nat BY PositionsFinite
  <2> QED BY <2>1, <2>2, <2>3, <2>4 DEF Rank, D
<1>3. ASSUME NEW j \in K, NEW k \in K, j < k PROVE Rank(K, j) < Rank(K, k)
  <2>0. K \subseteq 1 .. n /\ j \in 1 .. n /\ k \in 1 .. n OBVIOUS
  <2>1. D(j) \in SUBSET D(k) /\ k \in D(k) /\ k \notin D(j)
    <3>1. \A l \in 1 .. n : l <= j => l <= k BY <1>3, <2>0
    <3>2. k <= k /\ ~(k <= j) BY <1>3, <2>0
    <3> QED BY <3>1, <3>2, <2>0
  <2> HIDE DEF D
  <2>2. IsFiniteSet(D(k)) /\ Cardinality(D(k)) \in Nat /\ Cardinality(D(j)) \in Nat
      BY <1>1, <1>3, PositionsFinite
  <2>3. Cardinality(D(j)) <= Cardinality(D(k)) /\ Cardinality(D(k)) # Cardinality(D(j))
      BY <2>1, <2>2, FS_Subset
  <2> QED BY <2>2, <2>3 DEF Rank, D
<1> QED BY <1>2, <1>3

\* Every place of K is taken.
LEMMA RankOnto ==
    ASSUME NEW n \in Nat, NEW K \in SUBSET (1 .. n), NEW i \in 1 .. Cardinality(K)
    PROVE  \E j \in K : Rank(K, j) = i
<1> DEFINE A == {j \in K : Rank(K, j) >= i}
<1>0. Cardinality(K) \in Nat /\ IsFiniteSet(K) BY PositionsFinite
<1>1. K # {} BY <1>0, FS_EmptySet
<1>2. PICK m \in K : \A k \in K : k <= m BY <1>1, GreatestExists
<1>3. Rank(K, m) = Cardinality(K)
  <2>1. {k \in K : k <= m} = K BY <1>2
  <2> QED BY <2>1 DEF Rank
<1>4. A \in SUBSET Nat /\ m \in A
  <2>1. Rank(K, m) >= i BY <1>0, <1>3
  <2>2. \A k \in 1 .. n : k \in Nat OBVIOUS
  <2> QED BY <2>1, <2>2
<1> HIDE DEF A
<1>5. PICK j \in A : \A k \in A : j <= k BY <1>4, LeastProperty
<1> USE DEF A
<1>6. j \in K /\ j \in 1 .. n /\ Rank(K, j) \in Nat /\ Rank(K, j) >= i
  <2>1. j \in K /\ Rank(K, j) >= i BY <1>5
  <2>2. Rank(K, j) \in 1 .. Cardinality(K) BY <2>1, RankProperty
  <2> QED BY <2>1, <2>2, <1>0
<1>7. CASE Rank(K, j) > i
  <2> DEFINE L == {k \in K : k < j}
  <2>0. \A k \in K : k \in 1 .. n OBVIOUS
  <2>1. L \in SUBSET (1 .. n) /\ j \notin L /\ {k \in K : k <= j} = L \cup {j}
    <3>1. ~(j < j) /\ j <= j BY <1>6
    <3>2. \A k \in K : k <= j <=> k < j \/ k = j BY <1>6, <2>0
    <3> QED BY <3>1, <3>2, <2>0, <1>6
  <2> HIDE DEF L
  <2>2. IsFiniteSet(L) /\ Cardinality(L) \in Nat BY <2>1, PositionsFinite
  <2>3. Rank(K, j) = Cardinality(L) + 1 BY <2>1, <2>2, FS_AddElement DEF Rank
  <2>4. L # {} BY <2>2, <2>3, <1>7, FS_EmptySet
  <2>5. PICK l \in L : \A k \in L : k <= l BY <2>1, <2>4, GreatestExists
  <2>6. l \in K /\ l < j /\ {k \in K : k <= l} = L
    <3>1. l \in K /\ l < j /\ l \in 1 .. n BY <2>5, <2>0 DEF L
    <3>2. \A k \in K : k <= l => k < j BY <3>1, <1>6, <2>0
    <3>3. \A k \in L : k <= l BY <2>5
    <3> QED BY <3>1, <3>2, <3>3 DEF L
  <2>7. Rank(K, l) = Cardinality(L) BY <2>6 DEF Rank
  <2>8. l \in A BY <2>2, <2>3, <2>6, <2>7, <1>7
  <2> QED BY <2>8, <2>6, <1>5, <1>6
<1> QED BY <1>6, <1>7

\* Nth lists the positions of K in increasing order.
LEMMA NthProperty ==
    ASSUME NEW n \in Nat, NEW K \in SUBSET (1 .. n)
    PROVE  /\ \A i \in 1 .. Cardinality(K) : Nth(K, i) \in K /\ Rank(K, Nth(K, i)) = i
           /\ \A i, j \in 1 .. Cardinality(K) : i < j => Nth(K, i) < Nth(K, j)
           /\ \A k \in K : \E i \in 1 .. Cardinality(K) : Nth(K, i) = k
<1>1. ASSUME NEW i \in 1 .. Cardinality(K) PROVE Nth(K, i) \in K /\ Rank(K, Nth(K, i)) = i
    BY RankOnto, <1>1 DEF Nth
<1>2. ASSUME NEW j \in K, NEW k \in K, Rank(K, j) < Rank(K, k) PROVE j < k
  <2>1. j \in 1 .. n /\ k \in 1 .. n OBVIOUS
  <2>2. Rank(K, j) \in Int /\ Rank(K, k) \in Int
    <3>1. \A l \in K : Rank(K, l) \in 1 .. Cardinality(K) BY RankProperty
    <3>2. Cardinality(K) \in Nat BY PositionsFinite
    <3> QED BY <3>1, <3>2
  <2>3. k < j => Rank(K, k) < Rank(K, j) BY RankProperty
  <2> QED BY <1>2, <2>1, <2>2, <2>3
<1>3. ASSUME NEW i \in 1 .. Cardinality(K), NEW j \in 1 .. Cardinality(K), i < j
      PROVE  Nth(K, i) < Nth(K, j)
    BY <1>1, <1>2, <1>3, ZenonT(40)
<1>4. ASSUME NEW k \in K PROVE \E i \in 1 .. Cardinality(K) : Nth(K, i) = k
  <2>1. Rank(K, k) \in 1 .. Cardinality(K) BY <1>4, RankProperty
  <2>2. Nth(K, Rank(K, k)) \in K /\ Rank(K, Nth(K, Rank(K, k))) = Rank(K, k) BY <1>1, <2>1
  <2>3. Nth(K, Rank(K, k)) = k
    <3> DEFINE l == Nth(K, Rank(K, k))
    <3>1. l \in K /\ l \in 1 .. n /\ k \in 1 .. n BY <2>2
    <3>2. Rank(K, l) \in Int /\ Rank(K, k) \in Int BY <2>1, <2>2, PositionsFinite
    <3>3. (k < l => Rank(K, k) < Rank(K, l)) /\ (l < k => Rank(K, l) < Rank(K, k))
        BY <3>1, RankProperty
    <3> QED BY <2>2, <3>1, <3>2, <3>3
  <2> QED BY <2>1, <2>3
<1> QED BY <1>1, <1>3, <1>4

\* Erasing positions leaves a sequence of the elements at the others, in the
\* order in which they were.
THEOREM KeepProperty ==
    ASSUME NEW S, NEW s \in Seq(S), NEW K \in SUBSET DOMAIN s
    PROVE  /\ Keep(s, K) \in Seq(S)
           /\ Len(Keep(s, K)) = Cardinality(K)
           /\ Cardinality(K) \in Nat
           /\ \A i \in 1 .. Cardinality(K) : Nth(K, i) \in K /\ Keep(s, K)[i] = s[Nth(K, i)]
           /\ \A i, j \in 1 .. Cardinality(K) : i < j => Nth(K, i) < Nth(K, j)
           /\ Members(Keep(s, K)) = {s[k] : k \in K}
<1>1. Len(s) \in Nat /\ K \in SUBSET (1 .. Len(s)) OBVIOUS
<1>2. Cardinality(K) \in Nat BY <1>1, PositionsFinite
<1>3. \A i \in 1 .. Cardinality(K) : Nth(K, i) \in K BY <1>1, NthProperty
<1>4. \A i, j \in 1 .. Cardinality(K) : i < j => Nth(K, i) < Nth(K, j) BY <1>1, NthProperty
<1>5. \A k \in K : \E i \in 1 .. Cardinality(K) : Nth(K, i) = k BY <1>1, NthProperty
<1>6. Keep(s, K) \in [1 .. Cardinality(K) -> S] BY <1>1, <1>3 DEF Keep
<1>7. Keep(s, K) \in Seq(S) /\ Len(Keep(s, K)) = Cardinality(K) BY <1>2, <1>6
<1>8. \A i \in 1 .. Cardinality(K) : Keep(s, K)[i] = s[Nth(K, i)] BY DEF Keep
<1>9. DOMAIN Keep(s, K) = 1 .. Cardinality(K) BY DEF Keep
<1>10. Members(Keep(s, K)) = {s[k] : k \in K} BY <1>3, <1>5, <1>8, <1>9 DEF Members
<1> QED BY <1>2, <1>3, <1>4, <1>7, <1>8, <1>10

\* Inserting leaves the elements before and behind the new one in place.
THEOREM InsertProperty ==
    ASSUME NEW S, NEW s \in Seq(S), NEW p \in 0 .. Len(s), NEW e \in S
    PROVE  LET t == InsertBehind(s, p, e) IN
           /\ t \in Seq(S)
           /\ Len(t) = Len(s) + 1
           /\ \A i \in 1 .. Len(t) :
                 t[i] = IF i <= p THEN s[i] ELSE IF i = p + 1 THEN e ELSE s[i - 1]
<1>1. Len(s) \in Nat /\ p \in Nat /\ p <= Len(s) OBVIOUS
<1> DEFINE l == SubSeq(s, 1, p)
          r == SubSeq(s, p + 1, Len(s))
<1>2. /\ l \in Seq(S) /\ Len(l) = p
      /\ \A i \in 1 .. p : l[i] = s[i]
    BY <1>1
<1>3. /\ r \in Seq(S) /\ Len(r) = Len(s) - p
      /\ \A i \in 1 .. Len(s) - p : r[i] = s[p + i]
    BY <1>1
<1> HIDE DEF l, r
<1>4. /\ l \o <<e>> \in Seq(S) /\ Len(l \o <<e>>) = p + 1
      /\ \A i \in 1 .. p + 1 : (l \o <<e>>)[i] = IF i <= p THEN s[i] ELSE e
    BY <1>1, <1>2
<1>5. InsertBehind(s, p, e) = (l \o <<e>>) \o r BY DEF InsertBehind, l, r
<1> DEFINE h == l \o <<e>>
          t == h \o r
<1>6. t \in Seq(S) /\ Len(t) = Len(s) + 1
  <2> HIDE DEF h
  <2>1. h \in Seq(S) /\ Len(h) = p + 1 BY <1>4 DEF h
  <2>2. t \in Seq(S) BY <2>1, <1>3
  <2>3. Len(t) = Len(h) + Len(r) BY <2>1, <1>3, ConcatProperties
  <2> QED BY <2>1, <2>2, <2>3, <1>1, <1>3
<1>7. ASSUME NEW i \in 1 .. Len(s) + 1
      PROVE  t[i] = IF i <= p THEN s[i] ELSE IF i = p + 1 THEN e ELSE s[i - 1]
  <2> HIDE DEF h
  <2>1. h \in Seq(S) /\ Len(h) = p + 1 BY <1>4 DEF h
  <2>2. t[i] = IF i <= p + 1 THEN h[i] ELSE r[i - (p + 1)] BY <1>1, <1>3, <2>1, <1>7
  <2>3. i <= p + 1 => h[i] = IF i <= p THEN s[i] ELSE e BY <1>4, <1>1, <1>7 DEF h
  <2>4. i > p + 1 => r[i - (p + 1)] = s[i - 1] BY <1>1, <1>3, <1>7
  <2> QED BY <1>1, <1>7, <2>2, <2>3, <2>4
<1> QED BY <1>5, <1>6, <1>7
=============================================================================
