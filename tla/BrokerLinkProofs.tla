-------------------------- MODULE BrokerLinkProofs --------------------------
(***************************************************************************)
(* Connect::_link counts the pointers to a connection, for any number of   *)
(* connections and queues: every link() has its unlink(), whoever          *)
(* disconnects and whenever.                                               *)
(***************************************************************************)
EXTENDS BrokerProofs

-----------------------------------------------------------------------------
(* Counting *)

\* Two sets that differ in one element at most.
LEMMA OneDiffers ==
    ASSUME NEW A, NEW B, NEW p, IsFiniteSet(A), A \ {p} = B \ {p}
    PROVE  /\ IsFiniteSet(B) /\ Cardinality(A) \in Nat /\ Cardinality(B) \in Nat
           /\ Cardinality(B) = Cardinality(A) - (IF p \in A THEN 1 ELSE 0)
                               + (IF p \in B THEN 1 ELSE 0)
<1>1. PICK C : C = A \ {p} OBVIOUS
<1>2. IsFiniteSet(C) /\ Cardinality(C) = IF p \in A THEN Cardinality(A) - 1 ELSE Cardinality(A)
  BY <1>1, FS_RemoveElement
<1>3. B = IF p \in B THEN C \cup {p} ELSE C BY <1>1
<1>4. IsFiniteSet(C \cup {p}) /\ Cardinality(C \cup {p}) = Cardinality(C) + 1
  BY <1>1, <1>2, FS_AddElement
<1>5. Cardinality(A) \in Nat /\ Cardinality(C) \in Nat BY <1>2, FS_CardinalityType
<1>6. CASE p \in B BY <1>2, <1>3, <1>4, <1>5, <1>6
<1>7. CASE p \notin B BY <1>2, <1>3, <1>5, <1>7
<1> QED BY <1>6, <1>7

\* A set and its parts.
LEMMA TwoParts ==
    ASSUME NEW A, IsFiniteSet(A), NEW B \in SUBSET A
    PROVE  /\ IsFiniteSet(B) /\ IsFiniteSet(A \ B)
           /\ Cardinality(A) \in Nat /\ Cardinality(B) \in Nat /\ Cardinality(A \ B) \in Nat
           /\ Cardinality(A) = Cardinality(B) + Cardinality(A \ B)
<1>1. IsFiniteSet(B) BY FS_Subset
<1>2. IsFiniteSet(A \ B) /\ Cardinality(A \ B) = Cardinality(A) - Cardinality(A \cap B)
  BY FS_Difference
<1>3. A \cap B = B OBVIOUS
<1>4. Cardinality(A) \in Nat /\ Cardinality(B) \in Nat /\ Cardinality(A \ B) \in Nat
  BY <1>1, <1>2, FS_CardinalityType
<1> QED BY <1>1, <1>2, <1>3, <1>4

\* A set that another one is mapped to, one to one.
LEMMA SameSize ==
    ASSUME NEW A, NEW B, NEW f \in [A -> B], IsFiniteSet(A),
           \A x, y \in A : f[x] = f[y] => x = y,
           \A z \in B : \E x \in A : f[x] = z
    PROVE  IsFiniteSet(B) /\ Cardinality(B) = Cardinality(A)
<1>1. f \in Bijection(A, B) BY DEF Bijection, Injection, Surjection, IsInjective
<1>2. ExistsBijection(A, B) BY <1>1 DEF ExistsBijection
<1> QED BY <1>2, FS_Bijection

\* The positions in one queue are as many as their entries.
LEMMA EntriesOfOne ==
    ASSUME NEW n, NEW S
    PROVE  /\ IsFiniteSet(S) => IsFiniteSet({n} \X S) /\ Cardinality({n} \X S) = Cardinality(S)
           /\ IsFiniteSet({n} \X S) => IsFiniteSet(S)
<1>1. ASSUME IsFiniteSet(S)
      PROVE  IsFiniteSet({n} \X S) /\ Cardinality({n} \X S) = Cardinality(S)
  <2>1. PICK f : f = [i \in S |-> <<n, i>>] OBVIOUS
  <2>2. f \in [S -> {n} \X S] BY <2>1
  <2>3. \A i, j \in S : f[i] = f[j] => i = j BY <2>1
  <2>4. \A x \in {n} \X S : \E i \in S : f[i] = x BY <2>1
  <2> QED BY <1>1, <2>2, <2>3, <2>4, SameSize
<1>2. ASSUME IsFiniteSet({n} \X S) PROVE IsFiniteSet(S)
  <2>1. PICK g : g = [x \in {n} \X S |-> x[2]] OBVIOUS
  <2>2. g \in [{n} \X S -> S] BY <2>1
  <2>3. \A x, y \in {n} \X S : g[x] = g[y] => x = y BY <2>1
  <2>4. ASSUME NEW i \in S PROVE \E x \in {n} \X S : g[x] = i
    <3>1. <<n, i>> \in {n} \X S /\ g[<<n, i>>] = i BY <2>1
    <3> QED BY <3>1
  <2> QED BY <1>2, <2>2, <2>3, <2>4, SameSize
<1> QED BY <1>1, <1>2

\* What one queue gains and loses, all queues gain and lose.
LEMMA EntriesChange ==
    ASSUME NEW F, NEW G, NEW n \in Names, \A m \in Names : m # n => G[m] = F[m],
           IsFiniteSet(Entries(F)), IsFiniteSet(G[n])
    PROVE  /\ IsFiniteSet(F[n]) /\ IsFiniteSet(Entries(G))
           /\ Cardinality(Entries(F)) \in Nat /\ Cardinality(Entries(G)) \in Nat
           /\ Cardinality(F[n]) \in Nat /\ Cardinality(G[n]) \in Nat
           /\ Cardinality(Entries(G)) = Cardinality(Entries(F)) - Cardinality(F[n])
                                        + Cardinality(G[n])
<1>1. PICK A, B, R, P, Q : /\ A = Entries(F) /\ B = Entries(G)
                          /\ R = UNION {{m} \X F[m] : m \in Names \ {n}}
                          /\ P = {n} \X F[n] /\ Q = {n} \X G[n]
  OBVIOUS
<1>2. P \subseteq A /\ R = A \ P BY <1>1 DEF Entries
<1>3. Q \subseteq B /\ R = B \ Q /\ B = R \cup Q
  <2>1. R = UNION {{m} \X G[m] : m \in Names \ {n}} BY <1>1
  <2> QED BY <1>1, <2>1 DEF Entries
<1>4. /\ IsFiniteSet(A) /\ IsFiniteSet(R) /\ IsFiniteSet(P) /\ Cardinality(R) \in Nat
      /\ Cardinality(A) \in Nat /\ Cardinality(A) = Cardinality(R) + Cardinality(P)
  <2>1. IsFiniteSet(A) BY <1>1
  <2>2. P \in SUBSET A BY <1>2
  <2>3. /\ IsFiniteSet(P) /\ IsFiniteSet(A \ P) /\ Cardinality(A \ P) \in Nat
        /\ Cardinality(A) \in Nat /\ Cardinality(A) = Cardinality(P) + Cardinality(A \ P)
    BY <2>1, <2>2, TwoParts
  <2>4. Cardinality(R) = Cardinality(A \ P) /\ IsFiniteSet(R) BY <1>2, <2>3, Zenon
  <2>5. Cardinality(P) \in Nat BY <2>3, FS_CardinalityType
  <2> QED BY <2>1, <2>3, <2>4, <2>5
<1>5. IsFiniteSet(F[n]) /\ Cardinality(P) = Cardinality(F[n]) BY <1>1, <1>4, EntriesOfOne
<1>6. IsFiniteSet(Q) /\ Cardinality(Q) = Cardinality(G[n]) BY <1>1, EntriesOfOne
<1>7. IsFiniteSet(B)
  <2>1. IsFiniteSet(R \cup Q) BY <1>4, <1>6, FS_Union
  <2> QED BY <1>3, <2>1, Zenon
<1>8. Cardinality(B) = Cardinality(R) + Cardinality(Q)
  <2>1. Q \in SUBSET B BY <1>3
  <2>2. Cardinality(B) = Cardinality(Q) + Cardinality(B \ Q) BY <1>7, <2>1, TwoParts
  <2>3. Cardinality(R) = Cardinality(B \ Q) BY <1>3, Zenon
  <2>4. Cardinality(Q) \in Nat /\ Cardinality(R) \in Nat BY <1>4, <1>6, FS_CardinalityType
  <2> QED BY <2>2, <2>3, <2>4
<1>9. Cardinality(F[n]) \in Nat /\ Cardinality(G[n]) \in Nat /\ Cardinality(B) \in Nat
  BY <1>5, <1>7, FS_CardinalityType
<1> QED BY <1>1, <1>4, <1>5, <1>6, <1>7, <1>8, <1>9

\* The positions of s whose element is in V.
At(s, V) == {i \in DOMAIN s : s[i] \in V}

LEMMA AtFinite ==
    ASSUME NEW S, NEW s \in Seq(S), NEW V
    PROVE  /\ IsFiniteSet(At(s, V)) /\ Cardinality(At(s, V)) \in Nat
           /\ \A R \in SUBSET DOMAIN s : /\ IsFiniteSet({i \in R : s[i] \in V})
                                         /\ Cardinality({i \in R : s[i] \in V}) \in Nat
BY PositionsFinite, LenProperties DEF At

\* s without the positions R, and how many of the elements erased are in V.
Parts(s) == SUBSET (DOMAIN s)
Rest(s, R) == Keep(s, DOMAIN s \ R)
Lost(s, R, V) == Cardinality({i \in R : s[i] \in V})

\* What is erased is what is lost.
LEMMA KeepCount ==
    ASSUME NEW S, NEW s \in Seq(S), NEW R \in Parts(s), NEW V, NEW t, t = Rest(s, R)
    PROVE  Cardinality(At(t, V)) = Cardinality(At(s, V)) - Lost(s, R, V)
<1>1. PICK K : K = DOMAIN s \ R /\ t = Keep(s, K) BY DEF Rest
<1>0. K \in SUBSET DOMAIN s /\ DOMAIN s = 1 .. Len(s) /\ Len(s) \in Nat BY <1>1, LenProperties
<1>2. /\ t \in Seq(S) /\ Len(t) = Cardinality(K) /\ Cardinality(K) \in Nat
      /\ \A i \in 1 .. Cardinality(K) : Nth(K, i) \in K /\ t[i] = s[Nth(K, i)]
      /\ \A i, j \in 1 .. Cardinality(K) : i < j => Nth(K, i) < Nth(K, j)
  <2>1. /\ Keep(s, K) \in Seq(S) /\ Len(Keep(s, K)) = Cardinality(K) /\ Cardinality(K) \in Nat
        /\ \A i \in 1 .. Cardinality(K) : Nth(K, i) \in K /\ Keep(s, K)[i] = s[Nth(K, i)]
        /\ \A i, j \in 1 .. Cardinality(K) : i < j => Nth(K, i) < Nth(K, j)
    BY <1>0, KeepProperty
  <2> QED BY <1>1, <2>1
<1>3. DOMAIN t = 1 .. Cardinality(K) BY <1>2, LenProperties
<1>4. \A k \in K : \E i \in 1 .. Cardinality(K) : Nth(K, i) = k
  BY <1>0, NthProperty
<1>5. PICK f : f = [i \in At(t, V) |-> Nth(K, i)] OBVIOUS
<1>7. IsFiniteSet(At(t, V)) BY <1>2, AtFinite
<1>8. Cardinality(At(t, V)) = Cardinality(At(s, V) \cap K)
  <2>1. f \in [At(t, V) -> At(s, V) \cap K] BY <1>1, <1>2, <1>3, <1>5 DEF At
  <2>2. \A i, j \in At(t, V) : f[i] = f[j] => i = j
    <3> SUFFICES ASSUME NEW i \in At(t, V), NEW j \in At(t, V), i # j PROVE f[i] # f[j] OBVIOUS
    <3>1. i \in 1 .. Cardinality(K) /\ j \in 1 .. Cardinality(K) BY <1>3 DEF At
    <3>2. i < j \/ j < i BY <1>2, <3>1
    <3>3. Nth(K, i) \in Int /\ Nth(K, j) \in Int BY <1>0, <1>2, <3>1
    <3> QED BY <1>2, <1>5, <3>1, <3>2, <3>3
  <2>3. \A k \in At(s, V) \cap K : \E i \in At(t, V) : f[i] = k
    BY <1>2, <1>3, <1>4, <1>5 DEF At
  <2> QED BY <1>7, <2>1, <2>2, <2>3, SameSize
<1>9. PICK L : L = {i \in R : s[i] \in V} OBVIOUS
<1>10. At(s, V) = (At(s, V) \cap K) \cup L /\ (At(s, V) \cap K) \cap L = {}
  BY <1>1, <1>9 DEF At, Parts
<1>11. IsFiniteSet(At(s, V)) BY AtFinite
<1>12. /\ Cardinality(At(s, V)) = Cardinality(At(s, V) \cap K) + Cardinality(L)
       /\ Cardinality(L) \in Nat /\ Cardinality(At(s, V) \cap K) \in Nat
  <2>1. PICK A, B : A = At(s, V) /\ B = At(s, V) \cap K OBVIOUS
  <2>2. IsFiniteSet(A) /\ B \in SUBSET A /\ L = A \ B BY <1>10, <1>11, <2>1
  <2>3. /\ Cardinality(A) = Cardinality(B) + Cardinality(L)
        /\ Cardinality(L) \in Nat /\ Cardinality(B) \in Nat
    BY <2>2, TwoParts
  <2> QED BY <2>1, <2>3
<1> QED BY <1>1, <1>8, <1>9, <1>12 DEF Lost

\* t is s with e behind position p.
Behind(s, t, e, p) ==
    /\ Len(t) = Len(s) + 1
    /\ \A i \in 1 .. Len(t) : t[i] = IF i <= p THEN s[i] ELSE IF i = p + 1 THEN e ELSE s[i - 1]

\* What is inserted is what is gained.
LEMMA InsertCount ==
    ASSUME NEW S, NEW s \in Seq(S), NEW t \in Seq(S), NEW e, NEW p \in 0 .. Len(s), NEW V,
           Behind(s, t, e, p)
    PROVE  Cardinality(At(t, V)) = Cardinality(At(s, V)) + (IF e \in V THEN 1 ELSE 0)
<1>0. /\ Len(t) = Len(s) + 1
      /\ \A i \in 1 .. Len(t) :
            t[i] = IF i <= p THEN s[i] ELSE IF i = p + 1 THEN e ELSE s[i - 1]
  BY DEF Behind
<1>1. /\ Len(s) \in Nat /\ p \in Nat /\ DOMAIN s = 1 .. Len(s) /\ DOMAIN t = 1 .. Len(s) + 1
  BY <1>0, LenProperties
<1>2. PICK f, T : f = [i \in At(s, V) |-> IF i <= p THEN i ELSE i + 1] /\ T = At(t, V) \ {p + 1}
  OBVIOUS
<1>3. \A i \in 1 .. Len(s) : t[IF i <= p THEN i ELSE i + 1] = s[i]
  <2> SUFFICES ASSUME NEW i \in 1 .. Len(s) PROVE t[IF i <= p THEN i ELSE i + 1] = s[i] OBVIOUS
  <2>1. CASE i <= p BY <1>0, <1>1, <2>1
  <2>2. CASE ~(i <= p)
    <3>1. i + 1 \in 1 .. Len(t) /\ ~(i + 1 <= p) /\ i + 1 # p + 1 /\ i + 1 - 1 = i
      BY <1>0, <1>1, <2>2
    <3> QED BY <1>0, <2>2, <3>1
  <2> QED BY <2>1, <2>2
<1>5. IsFiniteSet(At(s, V)) /\ Cardinality(At(s, V)) \in Nat BY AtFinite
<1>6. Cardinality(T) = Cardinality(At(s, V))
  <2>1. f \in [At(s, V) -> T]
    <3> SUFFICES ASSUME NEW i \in At(s, V) PROVE f[i] \in T BY <1>2
    <3>1. i \in 1 .. Len(s) /\ s[i] \in V BY <1>1 DEF At
    <3>2. f[i] \in 1 .. Len(s) + 1 /\ f[i] # p + 1 BY <1>1, <1>2, <3>1
    <3> QED BY <1>1, <1>2, <1>3, <3>1, <3>2 DEF At
  <2>2. \A i, j \in At(s, V) : f[i] = f[j] => i = j BY <1>1, <1>2 DEF At
  <2>3. ASSUME NEW k \in T PROVE \E i \in At(s, V) : f[i] = k
    <3>1. k \in 1 .. Len(s) + 1 /\ t[k] \in V /\ k # p + 1 BY <1>1, <1>2 DEF At
    <3>2. CASE k <= p
      <4>1. k \in At(s, V) /\ f[k] = k BY <1>0, <1>1, <1>2, <3>1, <3>2 DEF At
      <4> QED BY <4>1
    <3>3. CASE ~(k <= p)
      <4>1. k - 1 \in 1 .. Len(s) /\ ~(k - 1 <= p) /\ k - 1 + 1 = k BY <1>1, <3>1, <3>3
      <4>2. k - 1 \in At(s, V) BY <1>1, <1>3, <3>1, <4>1 DEF At
      <4>3. f[k - 1] = k BY <1>2, <4>1, <4>2
      <4> QED BY <4>2, <4>3
    <3> QED BY <3>2, <3>3
  <2> QED BY <1>5, <2>1, <2>2, <2>3, SameSize
<1>7. IsFiniteSet(At(t, V)) /\ Cardinality(At(t, V)) \in Nat BY AtFinite
<1>8. Cardinality(T) = IF p + 1 \in At(t, V) THEN Cardinality(At(t, V)) - 1
                       ELSE Cardinality(At(t, V))
  BY <1>2, <1>7, FS_RemoveElement
<1>9. p + 1 \in At(t, V) <=> e \in V
  <2>1. p + 1 \in 1 .. Len(t) /\ ~(p + 1 <= p) BY <1>0, <1>1
  <2> QED BY <1>0, <1>1, <2>1 DEF At
<1> QED BY <1>5, <1>6, <1>7, <1>8, <1>9

-----------------------------------------------------------------------------
(* What a connection counts *)

Objects == [Conns -> ConnType]

\* The entries for connection d in wait_response, and the workers of d.
Registered(ws, d) == {i \in AllIds : ws[i] = d}
Serving(cs, d) == {w \in Conns : cs[w].client = d}

\* The links of a Connect without those for its socket and its place in a list.
Weight(x) ==
    x.link - (IF x.sock = "open" THEN 1 ELSE 0) - (IF x.item # None THEN 1 ELSE 0)

\* The links of d that are left for the queues.
Excess(cs, ws, d) ==
    Weight(cs[d]) - Cardinality(Registered(ws, d)) - Cardinality(Serving(cs, d))

\* A connection has finitely many entries in wait_response.
Countable(ws) == \A d \in Conns : IsFiniteSet(Registered(ws, d))

LEMMA WeightType ==
    ASSUME NEW x \in ConnType
    PROVE  Weight(x) \in Int /\ x.link \in Int
BY DEF ConnType, Weight

LEMMA ExcessType ==
    ASSUME NEW cs \in Objects, NEW ws, Countable(ws), NEW d \in Conns
    PROVE  /\ Excess(cs, ws, d) \in Int /\ IsFiniteSet(Serving(cs, d))
           /\ Cardinality(Registered(ws, d)) \in Nat /\ Cardinality(Serving(cs, d)) \in Nat
<1>1. Weight(cs[d]) \in Int BY WeightType DEF Objects
<1>2. IsFiniteSet(Serving(cs, d)) BY BoundsAssumption, FS_Subset DEF Serving
<1>3. Cardinality(Registered(ws, d)) \in Nat /\ Cardinality(Serving(cs, d)) \in Nat
  BY <1>2, FS_CardinalityType DEF Countable
<1> QED BY <1>1, <1>2, <1>3 DEF Excess

\* Nothing changes but the weight of connections.
LEMMA ExcessWeight ==
    ASSUME NEW cs \in Objects, NEW ds \in Objects, NEW ws, Countable(ws), NEW d \in Conns,
           \A x \in Conns : ds[x].client = cs[x].client
    PROVE  Excess(ds, ws, d) = Excess(cs, ws, d) + Weight(ds[d]) - Weight(cs[d])
<1>1. Serving(ds, d) = Serving(cs, d) BY DEF Serving
<1>2. Weight(cs[d]) \in Int /\ Weight(ds[d]) \in Int BY WeightType DEF Objects
<1>3. Cardinality(Registered(ws, d)) \in Nat /\ Cardinality(Serving(cs, d)) \in Nat BY ExcessType
<1>4. Cardinality(Serving(ds, d)) = Cardinality(Serving(cs, d)) BY <1>1
<1> QED BY <1>2, <1>3, <1>4 DEF Excess

\* One worker gets another client.
LEMMA ExcessClient ==
    ASSUME NEW cs \in Objects, NEW ds \in Objects, NEW ws, Countable(ws), NEW d \in Conns,
           NEW w \in Conns, \A x \in Conns : x # w => ds[x].client = cs[x].client
    PROVE  Excess(ds, ws, d) = Excess(cs, ws, d) + Weight(ds[d]) - Weight(cs[d])
                               + (IF cs[w].client = d THEN 1 ELSE 0)
                               - (IF ds[w].client = d THEN 1 ELSE 0)
<1>1. Serving(cs, d) \ {w} = Serving(ds, d) \ {w} BY DEF Serving
<1>2. Weight(cs[d]) \in Int /\ Weight(ds[d]) \in Int BY WeightType DEF Objects
<1>3. /\ Cardinality(Registered(ws, d)) \in Nat /\ Cardinality(Serving(cs, d)) \in Nat
      /\ IsFiniteSet(Serving(cs, d)) /\ Cardinality(Serving(ds, d)) \in Nat
  BY ExcessType
<1>4. Cardinality(Serving(ds, d))
        = Cardinality(Serving(cs, d)) - (IF w \in Serving(cs, d) THEN 1 ELSE 0)
          + (IF w \in Serving(ds, d) THEN 1 ELSE 0)
  BY <1>1, <1>3, OneDiffers
<1>5. (w \in Serving(cs, d) <=> cs[w].client = d) /\ (w \in Serving(ds, d) <=> ds[w].client = d)
  BY DEF Serving
<1> QED BY <1>2, <1>3, <1>4, <1>5 DEF Excess

\* One entry of wait_response changes.
LEMMA ExcessWait ==
    ASSUME NEW cs \in Objects, NEW ws, NEW vs, Countable(ws), NEW d \in Conns,
           NEW i \in AllIds, \A j \in AllIds : j # i => vs[j] = ws[j]
    PROVE  /\ IsFiniteSet(Registered(vs, d))
           /\ Excess(cs, vs, d) = Excess(cs, ws, d) + (IF ws[i] = d THEN 1 ELSE 0)
                                  - (IF vs[i] = d THEN 1 ELSE 0)
<1>1. Registered(ws, d) \ {i} = Registered(vs, d) \ {i} BY DEF Registered
<1>2. Weight(cs[d]) \in Int BY WeightType DEF Objects
<1>3. Cardinality(Registered(ws, d)) \in Nat /\ Cardinality(Serving(cs, d)) \in Nat BY ExcessType
<1>4. IsFiniteSet(Registered(ws, d)) BY DEF Countable
<1>5. /\ IsFiniteSet(Registered(vs, d)) /\ Cardinality(Registered(vs, d)) \in Nat
      /\ Cardinality(Registered(vs, d))
           = Cardinality(Registered(ws, d)) - (IF i \in Registered(ws, d) THEN 1 ELSE 0)
             + (IF i \in Registered(vs, d) THEN 1 ELSE 0)
  BY <1>1, <1>4, OneDiffers
<1>6. (i \in Registered(ws, d) <=> ws[i] = d) /\ (i \in Registered(vs, d) <=> vs[i] = d)
  BY DEF Registered
<1> QED BY <1>2, <1>3, <1>5, <1>6 DEF Excess

\* The connections of BrokerProofs are objects.
LEMMA AreObjects ==
    ASSUME NEW N, NEW cs \in Connections(N)
    PROVE  cs \in Objects
BY DEF Connections, Objects, ModeType
-----------------------------------------------------------------------------
(* What the queues count *)

Queues == [Names -> QueueType]

\* The messages of connection d, and where it is listed and queued.
Of(d) == {m \in MsgType : m.conn = d}
Listed(Q, d) == Entries([n \in Names |-> At(Q[n].workers, {d})])
Queued(Q, d) == Entries([n \in Names |-> At(Q[n].clients, Of(d))])

QueueCount(Q, d) == Cardinality(Listed(Q, d)) + Cardinality(Queued(Q, d))
LineCount(q, d) == Cardinality(At(q.workers, {d})) + Cardinality(At(q.clients, Of(d)))

\* No connection is in infinitely many queues.
Bounded(Q, d) == IsFiniteSet(Listed(Q, d)) /\ IsFiniteSet(Queued(Q, d))

\* The link count is what the pointers say; those in X keep the link of their socket.
Counted(X, cs, ws, Q) ==
    /\ Countable(ws)
    /\ \A d \in Conns : /\ Bounded(Q, d)
                        /\ Excess(cs, ws, d) = QueueCount(Q, d) + (IF d \in X THEN 1 ELSE 0)

LEMMA LineCountType ==
    ASSUME NEW q \in QueueType, NEW d
    PROVE  /\ q.workers \in Seq(Conns) /\ q.clients \in Seq(MsgType)
           /\ IsFiniteSet(At(q.workers, {d})) /\ IsFiniteSet(At(q.clients, Of(d)))
           /\ Cardinality(At(q.workers, {d})) \in Nat /\ Cardinality(At(q.clients, Of(d))) \in Nat
           /\ LineCount(q, d) \in Nat
<1>1. q.workers \in Seq(Conns) /\ q.clients \in Seq(MsgType) BY DEF QueueType
<1>2. IsFiniteSet(At(q.workers, {d})) /\ Cardinality(At(q.workers, {d})) \in Nat
  BY <1>1, AtFinite
<1>3. IsFiniteSet(At(q.clients, Of(d))) /\ Cardinality(At(q.clients, Of(d))) \in Nat
  BY <1>1, AtFinite
<1> QED BY <1>1, <1>2, <1>3 DEF LineCount

\* One queue changes.
LEMMA QueueChange ==
    ASSUME NEW Q \in Queues, NEW P \in Queues, NEW n \in Names, NEW d,
           \A m \in Names : m # n => P[m].workers = Q[m].workers /\ P[m].clients = Q[m].clients,
           Bounded(Q, d)
    PROVE  /\ Bounded(P, d) /\ QueueCount(Q, d) \in Nat /\ QueueCount(P, d) \in Nat
           /\ QueueCount(P, d) = QueueCount(Q, d) - LineCount(Q[n], d) + LineCount(P[n], d)
<1>1. PICK F, G : /\ F = [m \in Names |-> At(Q[m].workers, {d})]
                  /\ G = [m \in Names |-> At(P[m].workers, {d})]
  OBVIOUS
<1>2. PICK f, g : /\ f = [m \in Names |-> At(Q[m].clients, Of(d))]
                  /\ g = [m \in Names |-> At(P[m].clients, Of(d))]
  OBVIOUS
<1>3. Q[n] \in QueueType /\ P[n] \in QueueType BY DEF Queues
<1>4. /\ F[n] = At(Q[n].workers, {d}) /\ G[n] = At(P[n].workers, {d})
      /\ f[n] = At(Q[n].clients, Of(d)) /\ g[n] = At(P[n].clients, Of(d))
  BY <1>1, <1>2
<1>5. /\ IsFiniteSet(Entries(F)) /\ IsFiniteSet(Entries(f))
      /\ Listed(Q, d) = Entries(F) /\ Listed(P, d) = Entries(G)
      /\ Queued(Q, d) = Entries(f) /\ Queued(P, d) = Entries(g)
  BY <1>1, <1>2 DEF Bounded, Listed, Queued
<1>6. IsFiniteSet(G[n]) /\ IsFiniteSet(g[n]) BY <1>3, <1>4, LineCountType
<1>7. \A m \in Names : m # n => G[m] = F[m]
  <2> SUFFICES ASSUME NEW m \in Names, m # n PROVE G[m] = F[m] OBVIOUS
  <2>1. G[m] = At(P[m].workers, {d}) /\ F[m] = At(Q[m].workers, {d}) BY <1>1
  <2> QED BY <2>1
<1>8. \A m \in Names : m # n => g[m] = f[m]
  <2> SUFFICES ASSUME NEW m \in Names, m # n PROVE g[m] = f[m] OBVIOUS
  <2>1. g[m] = At(P[m].clients, Of(d)) /\ f[m] = At(Q[m].clients, Of(d)) BY <1>2
  <2> QED BY <2>1
<1>9. /\ IsFiniteSet(Entries(G))
      /\ Cardinality(Entries(F)) \in Nat /\ Cardinality(Entries(G)) \in Nat
      /\ Cardinality(Entries(G)) = Cardinality(Entries(F)) - Cardinality(F[n])
                                   + Cardinality(G[n])
  BY <1>5, <1>6, <1>7, EntriesChange
<1>10. /\ IsFiniteSet(Entries(g))
       /\ Cardinality(Entries(f)) \in Nat /\ Cardinality(Entries(g)) \in Nat
       /\ Cardinality(Entries(g)) = Cardinality(Entries(f)) - Cardinality(f[n])
                                    + Cardinality(g[n])
  BY <1>5, <1>6, <1>8, EntriesChange
<1>11. /\ Cardinality(F[n]) \in Nat /\ Cardinality(G[n]) \in Nat
       /\ Cardinality(f[n]) \in Nat /\ Cardinality(g[n]) \in Nat
  BY <1>3, <1>4, LineCountType
<1>12. /\ LineCount(Q[n], d) = Cardinality(F[n]) + Cardinality(f[n])
       /\ LineCount(P[n], d) = Cardinality(G[n]) + Cardinality(g[n])
  BY <1>4 DEF LineCount
<1>13. /\ QueueCount(Q, d) = Cardinality(Entries(F)) + Cardinality(Entries(f))
       /\ QueueCount(P, d) = Cardinality(Entries(G)) + Cardinality(Entries(g))
  BY <1>5 DEF QueueCount
<1>14. Bounded(P, d) BY <1>5, <1>9, <1>10 DEF Bounded
<1> HIDE DEF Bounded
<1> QED BY <1>9, <1>10, <1>11, <1>12, <1>13, <1>14

\* A queue changes, and the links of the connections with it.
LEMMA CountedQueue ==
    ASSUME NEW X, NEW cs \in Objects, NEW ds \in Objects, NEW ws, NEW Q \in Queues,
           NEW P \in Queues, NEW n \in Names, Counted(X, cs, ws, Q),
           \A m \in Names : m # n => P[m].workers = Q[m].workers /\ P[m].clients = Q[m].clients,
           \A d \in Conns : /\ ds[d].client = cs[d].client
                            /\ Weight(ds[d]) = Weight(cs[d]) - LineCount(Q[n], d)
                                               + LineCount(P[n], d)
    PROVE  Counted(X, ds, ws, P)
<1> SUFFICES ASSUME NEW d \in Conns
             PROVE  /\ Bounded(P, d)
                    /\ Excess(ds, ws, d) = QueueCount(P, d) + (IF d \in X THEN 1 ELSE 0)
  BY DEF Counted
<1>1. /\ Countable(ws) /\ Bounded(Q, d)
      /\ Excess(cs, ws, d) = QueueCount(Q, d) + (IF d \in X THEN 1 ELSE 0)
  BY DEF Counted
<1>2. /\ Bounded(P, d) /\ QueueCount(Q, d) \in Nat /\ QueueCount(P, d) \in Nat
      /\ QueueCount(P, d) = QueueCount(Q, d) - LineCount(Q[n], d) + LineCount(P[n], d)
  BY <1>1, QueueChange
<1>3. Excess(ds, ws, d) = Excess(cs, ws, d) + Weight(ds[d]) - Weight(cs[d])
  BY <1>1, ExcessWeight
<1>4. LineCount(Q[n], d) \in Nat /\ LineCount(P[n], d) \in Nat BY LineCountType DEF Queues
<1>5. Weight(ds[d]) \in Int /\ Weight(cs[d]) \in Int BY WeightType DEF Objects
<1>6. Weight(ds[d]) = Weight(cs[d]) - LineCount(Q[n], d) + LineCount(P[n], d) OBVIOUS
<1> HIDE DEF Bounded
<1> QED BY <1>1, <1>2, <1>3, <1>4, <1>5, <1>6

\* Nothing changes that is counted.
LEMMA CountedSame ==
    ASSUME NEW X, NEW cs \in Objects, NEW ds \in Objects, NEW ws, NEW Q, Counted(X, cs, ws, Q),
           \A d \in Conns : ds[d].client = cs[d].client /\ Weight(ds[d]) = Weight(cs[d])
    PROVE  Counted(X, ds, ws, Q)
<1> SUFFICES ASSUME NEW d \in Conns PROVE Excess(ds, ws, d) = Excess(cs, ws, d) BY DEF Counted
<1>1. Countable(ws) BY DEF Counted
<1>2. Excess(ds, ws, d) = Excess(cs, ws, d) + Weight(ds[d]) - Weight(cs[d])
  BY <1>1, ExcessWeight
<1>3. Excess(cs, ws, d) \in Int BY <1>1, ExcessType
<1>4. Weight(ds[d]) \in Int /\ Weight(cs[d]) \in Int BY WeightType DEF Objects
<1> QED BY <1>2, <1>3, <1>4

\* A worker gets another client, and the links of both clients follow.
LEMMA CountedClient ==
    ASSUME NEW X, NEW cs \in Objects, NEW ds \in Objects, NEW ws, NEW Q, Counted(X, cs, ws, Q),
           NEW w \in Conns, \A d \in Conns : d # w => ds[d].client = cs[d].client,
           \A d \in Conns : Weight(ds[d]) = Weight(cs[d]) - (IF cs[w].client = d THEN 1 ELSE 0)
                                            + (IF ds[w].client = d THEN 1 ELSE 0)
    PROVE  Counted(X, ds, ws, Q)
<1> SUFFICES ASSUME NEW d \in Conns PROVE Excess(ds, ws, d) = Excess(cs, ws, d) BY DEF Counted
<1>1. Countable(ws) BY DEF Counted
<1>2. Excess(ds, ws, d) = Excess(cs, ws, d) + Weight(ds[d]) - Weight(cs[d])
                          + (IF cs[w].client = d THEN 1 ELSE 0)
                          - (IF ds[w].client = d THEN 1 ELSE 0)
  BY <1>1, ExcessClient
<1>3. Excess(cs, ws, d) \in Int BY <1>1, ExcessType
<1>4. Weight(ds[d]) \in Int /\ Weight(cs[d]) \in Int BY WeightType DEF Objects
<1> QED BY <1>2, <1>3, <1>4

\* An entry of wait_response changes, and the links follow.
EntryChange(cs, ds, ws, vs, i) ==
    /\ \A j \in AllIds : j # i => vs[j] = ws[j]
    /\ \A d \in Conns : /\ ds[d].client = cs[d].client
                        /\ Weight(ds[d]) = Weight(cs[d]) - (IF ws[i] = d THEN 1 ELSE 0)
                                           + (IF vs[i] = d THEN 1 ELSE 0)

LEMMA CountedWait ==
    ASSUME NEW X, NEW cs \in Objects, NEW ds \in Objects, NEW ws, NEW vs, NEW Q,
           Counted(X, cs, ws, Q), NEW i \in AllIds, EntryChange(cs, ds, ws, vs, i)
    PROVE  Counted(X, ds, vs, Q)
<1>0. /\ \A j \in AllIds : j # i => vs[j] = ws[j]
      /\ \A d \in Conns : /\ ds[d].client = cs[d].client
                          /\ Weight(ds[d]) = Weight(cs[d]) - (IF ws[i] = d THEN 1 ELSE 0)
                                             + (IF vs[i] = d THEN 1 ELSE 0)
  BY DEF EntryChange
<1>1. Countable(ws) BY DEF Counted
<1>2. Countable(vs)
  <2> SUFFICES ASSUME NEW d \in Conns PROVE IsFiniteSet(Registered(vs, d)) BY DEF Countable
  <2> QED BY <1>0, <1>1, ExcessWait
<1> SUFFICES ASSUME NEW d \in Conns PROVE Excess(ds, vs, d) = Excess(cs, ws, d)
  BY <1>2 DEF Counted
<1>3. Excess(cs, vs, d) = Excess(cs, ws, d) + (IF ws[i] = d THEN 1 ELSE 0)
                          - (IF vs[i] = d THEN 1 ELSE 0)
  BY <1>0, <1>1, ExcessWait
<1>4. Excess(ds, vs, d) = Excess(cs, vs, d) + Weight(ds[d]) - Weight(cs[d])
  BY <1>0, <1>2, ExcessWeight
<1>5. Excess(cs, ws, d) \in Int BY <1>1, ExcessType
<1>6. Weight(ds[d]) \in Int /\ Weight(cs[d]) \in Int BY WeightType DEF Objects
<1> QED BY <1>0, <1>3, <1>4, <1>5, <1>6
-----------------------------------------------------------------------------
(* Where a connection waits *)

\* The ids that the calls of connection c may be registered under: those of
\* its headers and those of its bodies, or generated.
HeaderIds(c) == {r.id : r \in {q \in Requests[c] : q.op = "call"}} \ {None}
BodyIds(c) == {r.json : r \in {q \in Requests[c] : q.op = "call"}} \cap Ids
CallIds(c) == HeaderIds(c) \cup BodyIds(c) \cup {Generated[<<c, k>>] : k \in 1 .. MaxCalls}

\* An id that a client writes in a header is not that of another client.
OwnHeaderIds == \A c, d \in Conns : c # d => HeaderIds(c) \cap CallIds(d) = {}

\* The statuses of a client that waits.
WaitsFor == {"client_wait_result", "busy"}

\* The sockets of Connect objects that exist.
Live(cs) == {c \in Conns : cs[c].sock \in {"open", "closed"}}

\* The workers that serve connection d without an id.
Served(cs, d) == {w \in Conns : cs[w].client = d /\ cs[w].noid}

Single(S) == \A x, y \in S : x = y

NoPlace(cs, ws, Q, d) == Queued(Q, d) = {} /\ Registered(ws, d) = {} /\ Served(cs, d) = {}

OnePlace(cs, ws, Q, d) ==
    /\ Single(Queued(Q, d)) /\ Single(Registered(ws, d)) /\ Single(Served(cs, d))
    /\ Queued(Q, d) = {} \/ Registered(ws, d) = {}
    /\ Queued(Q, d) = {} \/ Served(cs, d) = {}
    /\ Registered(ws, d) = {} \/ Served(cs, d) = {}

\* A client waits in one place, and nobody else does.
Placed(cs, ws, Q) ==
    \A d \in Conns : cs[d].sock = "open" =>
        /\ OnePlace(cs, ws, Q, d)
        /\ cs[d].status \notin WaitsFor => NoPlace(cs, ws, Q, d)

\* The ids of a waiting client are its own.
Own(d, x) ==
    /\ x.json \in Ids => x.json \in BodyIds(d)
    /\ x.id # None => x.id \in HeaderIds(d)

Identified(cs, ws) ==
    /\ \A i \in AllIds : ws[i] # None => i \in CallIds(ws[i])
    /\ \A d \in Conns : cs[d].sock = "open" /\ cs[d].status = "client_wait_result" =>
          /\ cs[d].json \in Ids => cs[d].json \in BodyIds(d)
          /\ cs[d].id # None => cs[d].id \in HeaderIds(d) \/ ws[cs[d].id] = d

\* Pointers lead to Connect objects that exist, and come from such.
PointsToLive(cs, ws, Q) ==
    /\ \A i \in AllIds : ws[i] \in Live(cs) \cup {None}
    /\ \A w \in Conns : /\ cs[w].client \in Live(cs) \cup {None}
                        /\ w \notin Live(cs) => cs[w].client = None /\ cs[w].item = None
    /\ \A n \in Names : /\ \A i \in DOMAIN Q[n].workers : Q[n].workers[i] \in Live(cs)
                        /\ \A i \in DOMAIN Q[n].clients :
                              Q[n].clients[i].conn \in Live(cs) \cup {None}

\* The statuses of a worker that has no job.
Unclaimed == {"worker_wait_job", "worker_mode_async"}

\* Who has a client tells it when the connection is lost; who waits for a job
\* has none; who is closed, and not just being closed, has nothing.
Fits(X, c, x) ==
    /\ x.client # None => x.fail
    /\ x.sock = "open" /\ x.status \in Unclaimed => x.client = None /\ (x.noid => x.fail)
    /\ x.sock # "open" /\ c \notin X => x.client = None /\ x.item = None

Sound(X, cs, ws, Q) ==
    /\ cs \in Objects /\ ws \in WaitType /\ Q \in Queues
    /\ \A c \in Conns : Fits(X, c, cs[c])
    /\ Placed(cs, ws, Q)
    /\ Identified(cs, ws)
    /\ PointsToLive(cs, ws, Q)
    /\ Counted(X, cs, ws, Q)

\* Elements of t are elements of s, each of another one.
Fewer(s, t) ==
    \E f \in [DOMAIN t -> DOMAIN s] : /\ \A i \in DOMAIN t : t[i] = s[f[i]]
                                      /\ \A i, j \in DOMAIN t : f[i] = f[j] => i = j

LEMMA FewerSame ==
    ASSUME NEW s
    PROVE  Fewer(s, s)
<1>1. PICK f : f = [i \in DOMAIN s |-> i] OBVIOUS
<1>2. f \in [DOMAIN s -> DOMAIN s] /\ \A i \in DOMAIN s : f[i] = i BY <1>1
<1> QED BY <1>2 DEF Fewer

LEMMA FewerNone ==
    ASSUME NEW s
    PROVE  Fewer(s, << >>)
<1>1. DOMAIN << >> = {} OBVIOUS
<1>2. PICK f : f = [i \in {} |-> i] OBVIOUS
<1>3. f \in [DOMAIN << >> -> DOMAIN s] BY <1>1, <1>2
<1> QED BY <1>1, <1>3 DEF Fewer

\* Every element of t is one of s that is not at the positions R.
Among(s, t, R) == \A i \in DOMAIN t : \E j \in DOMAIN s \ R : t[i] = s[j]

\* The erased positions are not among those that are left.
LEMMA FewerKeep ==
    ASSUME NEW S, NEW s \in Seq(S), NEW R \in Parts(s), NEW t, t = Rest(s, R)
    PROVE  t \in Seq(S) /\ Fewer(s, t) /\ Among(s, t, R)
<1>1. PICK K : K = DOMAIN s \ R /\ t = Keep(s, K) BY DEF Rest
<1>2. K \in SUBSET DOMAIN s BY <1>1
<1>3. /\ t \in Seq(S) /\ Len(t) = Cardinality(K) /\ Cardinality(K) \in Nat
      /\ \A i \in 1 .. Cardinality(K) : Nth(K, i) \in K /\ t[i] = s[Nth(K, i)]
      /\ \A i, j \in 1 .. Cardinality(K) : i < j => Nth(K, i) < Nth(K, j)
  <2>1. /\ Keep(s, K) \in Seq(S) /\ Len(Keep(s, K)) = Cardinality(K) /\ Cardinality(K) \in Nat
        /\ \A i \in 1 .. Cardinality(K) : Nth(K, i) \in K /\ Keep(s, K)[i] = s[Nth(K, i)]
        /\ \A i, j \in 1 .. Cardinality(K) : i < j => Nth(K, i) < Nth(K, j)
    BY <1>2, KeepProperty
  <2> QED BY <1>1, <2>1
<1>4. DOMAIN t = 1 .. Cardinality(K) BY <1>3, LenProperties
<1>5. PICK f : f = [i \in DOMAIN t |-> Nth(K, i)] OBVIOUS
<1>6. f \in [DOMAIN t -> DOMAIN s] /\ \A i \in DOMAIN t : t[i] = s[f[i]]
  BY <1>2, <1>3, <1>4, <1>5
<1>7. ASSUME NEW i \in DOMAIN t, NEW j \in DOMAIN t, f[i] = f[j] PROVE i = j
  <2>1. i \in 1 .. Cardinality(K) /\ j \in 1 .. Cardinality(K) BY <1>4
  <2>2. Nth(K, i) = Nth(K, j) BY <1>5, <1>7
  <2>3. Nth(K, i) \in Int
    <3>1. Nth(K, i) \in DOMAIN s BY <1>2, <1>3, <2>1
    <3> QED BY <3>1, LenProperties
  <2>4. ~(i < j) /\ ~(j < i) BY <1>3, <2>1, <2>2, <2>3
  <2> QED BY <1>3, <2>1, <2>4
<1>8. Fewer(s, t) BY <1>6, <1>7 DEF Fewer
<1>9. \A i \in DOMAIN t : \E j \in K : t[i] = s[j] BY <1>3, <1>4
<1>10. Among(s, t, R) BY <1>1, <1>9 DEF Among
<1> QED BY <1>3, <1>8, <1>10

\* Where the messages of a connection are.
LEMMA QueuedAt ==
    ASSUME NEW Q \in Queues, NEW d
    PROVE  /\ \A n \in Names : \A i \in DOMAIN Q[n].clients :
                 Q[n].clients[i].conn = d => <<n, i>> \in Queued(Q, d)
           /\ \A x \in Queued(Q, d) : \E n \in Names : \E i \in DOMAIN Q[n].clients :
                 x = <<n, i>> /\ Q[n].clients[i].conn = d
<1>1. ASSUME NEW n \in Names, NEW i \in DOMAIN Q[n].clients, Q[n].clients[i].conn = d
      PROVE  <<n, i>> \in Queued(Q, d)
  <2>1. Q[n].clients \in Seq(MsgType) BY DEF Queues, QueueType
  <2>2. Q[n].clients[i] \in Of(d) BY <1>1, <2>1 DEF Of
  <2>3. i \in At(Q[n].clients, Of(d)) BY <2>2 DEF At
  <2> QED BY <2>3 DEF Queued, Entries
<1>2. ASSUME NEW x \in Queued(Q, d)
      PROVE  \E n \in Names : \E i \in DOMAIN Q[n].clients :
                x = <<n, i>> /\ Q[n].clients[i].conn = d
  <2>1. PICK n \in Names : x \in {n} \X At(Q[n].clients, Of(d)) BY DEF Queued, Entries
  <2>2. PICK i \in At(Q[n].clients, Of(d)) : x = <<n, i>> BY <2>1
  <2> QED BY <2>2 DEF At, Of
<1> QED BY <1>1, <1>2

\* With fewer messages a connection is not in more places.
LEMMA QueuedFewer ==
    ASSUME NEW Q \in Queues, NEW P \in Queues, NEW d,
           \A n \in Names : Fewer(Q[n].clients, P[n].clients)
    PROVE  /\ Queued(Q, d) = {} => Queued(P, d) = {}
           /\ Single(Queued(Q, d)) => Single(Queued(P, d))
<1>1. \A x \in Queued(P, d) : \E n \in Names : \E i \in DOMAIN P[n].clients :
         x = <<n, i>> /\ P[n].clients[i].conn = d
  BY QueuedAt
<1>2. \A n \in Names : \A i \in DOMAIN Q[n].clients :
         Q[n].clients[i].conn = d => <<n, i>> \in Queued(Q, d)
  BY QueuedAt
<1>3. ASSUME NEW x \in Queued(P, d), NEW y \in Queued(P, d)
      PROVE  Queued(Q, d) # {} /\ (Single(Queued(Q, d)) => x = y)
  <2>1. PICK n \in Names : \E i \in DOMAIN P[n].clients :
           x = <<n, i>> /\ P[n].clients[i].conn = d
    BY <1>1
  <2>2. PICK i \in DOMAIN P[n].clients : x = <<n, i>> /\ P[n].clients[i].conn = d BY <2>1
  <2>3. PICK m \in Names : \E j \in DOMAIN P[m].clients :
           y = <<m, j>> /\ P[m].clients[j].conn = d
    BY <1>1
  <2>4. PICK j \in DOMAIN P[m].clients : y = <<m, j>> /\ P[m].clients[j].conn = d BY <2>3
  <2>5. PICK f \in [DOMAIN P[n].clients -> DOMAIN Q[n].clients] :
           /\ \A k \in DOMAIN P[n].clients : P[n].clients[k] = Q[n].clients[f[k]]
           /\ \A k, l \in DOMAIN P[n].clients : f[k] = f[l] => k = l
    BY DEF Fewer
  <2>6. PICK g \in [DOMAIN P[m].clients -> DOMAIN Q[m].clients] :
           \A k \in DOMAIN P[m].clients : P[m].clients[k] = Q[m].clients[g[k]]
    BY DEF Fewer
  <2>7. f[i] \in DOMAIN Q[n].clients /\ Q[n].clients[f[i]].conn = d BY <2>2, <2>5
  <2>8. g[j] \in DOMAIN Q[m].clients /\ Q[m].clients[g[j]].conn = d BY <2>4, <2>6
  <2>9. <<n, f[i]>> \in Queued(Q, d) /\ <<m, g[j]>> \in Queued(Q, d) BY <1>2, <2>7, <2>8
  <2>10. ASSUME Single(Queued(Q, d)) PROVE x = y
    <3>1. <<n, f[i]>> = <<m, g[j]>> BY <2>9, <2>10 DEF Single
    <3>2. n = m BY <3>1
    <3>3. j \in DOMAIN P[n].clients /\ P[n].clients[j].conn = d BY <2>4, <3>2
    <3>4. <<n, f[j]>> \in Queued(Q, d) BY <1>2, <2>5, <3>3
    <3>5. <<n, f[i]>> = <<n, f[j]>> BY <2>9, <2>10, <3>4 DEF Single
    <3>6. i = j BY <2>2, <2>5, <3>3, <3>5
    <3> QED BY <2>2, <2>4, <3>2, <3>6
  <2> QED BY <2>9, <2>10
<1> QED BY <1>3 DEF Single
\* Nobody gets a new place to wait in, and who stops waiting has left its place.
Calm(cs, ws, Q, ds, vs, P) ==
    /\ \A n \in Names :
          /\ Fewer(Q[n].clients, P[n].clients)
          /\ \A i \in DOMAIN P[n].workers :
                P[n].workers[i] \in Members(Q[n].workers) \cup Live(cs)
    /\ \A i \in AllIds : vs[i] \in {None, ws[i]}
    /\ \A w \in Conns :
          \/ ds[w].client = None
          \/ ds[w].client = cs[w].client /\ ds[w].noid = cs[w].noid
          \/ ~ds[w].noid /\ ds[w].client \in Live(cs) /\ w \in Live(cs)
    /\ \A d \in Conns :
          /\ ds[d].sock = cs[d].sock \/ (cs[d].sock = "open" /\ ds[d].sock = "closed")
          /\ ds[d].item \in {None, cs[d].item} \/ d \in Live(cs)
          /\ ds[d].sock = "open" /\ ds[d].status \notin WaitsFor =>
                cs[d].status \notin WaitsFor \/ NoPlace(ds, vs, P, d)
          /\ ds[d].sock = "open" /\ ds[d].status = "client_wait_result" =>
                \/ Own(d, ds[d])
                \/ /\ cs[d].status = "client_wait_result"
                   /\ ds[d].json = cs[d].json /\ ds[d].id = cs[d].id
                   /\ ds[d].id # None => vs[ds[d].id] = ws[ds[d].id]

LEMMA CalmPlaced ==
    ASSUME NEW X, NEW cs, NEW ws, NEW Q, Sound(X, cs, ws, Q), NEW ds, NEW vs, NEW P \in Queues,
           Calm(cs, ws, Q, ds, vs, P)
    PROVE  Placed(ds, vs, P)
<1> SUFFICES ASSUME NEW d \in Conns, ds[d].sock = "open"
             PROVE  /\ OnePlace(ds, vs, P, d)
                    /\ ds[d].status \notin WaitsFor => NoPlace(ds, vs, P, d)
  BY DEF Placed
<1>1. cs[d].sock = "open" BY DEF Calm
<1>2. OnePlace(cs, ws, Q, d) /\ (cs[d].status \notin WaitsFor => NoPlace(cs, ws, Q, d))
  BY <1>1 DEF Sound, Placed
<1>3. /\ Queued(Q, d) = {} => Queued(P, d) = {}
      /\ Single(Queued(Q, d)) => Single(Queued(P, d))
  <2>1. Q \in Queues BY DEF Sound
  <2>2. \A n \in Names : Fewer(Q[n].clients, P[n].clients) BY DEF Calm
  <2> QED BY <2>1, <2>2, QueuedFewer
<1>4. Registered(vs, d) \subseteq Registered(ws, d)
  <2>1. \A i \in AllIds : vs[i] \in {None, ws[i]} BY DEF Calm
  <2> QED BY <2>1, NoneAssumption DEF Registered
<1>5. Served(ds, d) \subseteq Served(cs, d)
  <2> SUFFICES ASSUME NEW w \in Conns, ds[w].client = d, ds[w].noid
               PROVE  cs[w].client = d /\ cs[w].noid
    BY DEF Served
  <2>1. \/ ds[w].client = None
        \/ ds[w].client = cs[w].client /\ ds[w].noid = cs[w].noid
        \/ ~ds[w].noid
    BY DEF Calm
  <2> QED BY <2>1, NoneAssumption
<1>6. OnePlace(ds, vs, P, d) BY <1>2, <1>3, <1>4, <1>5 DEF OnePlace, Single
<1>7. NoPlace(cs, ws, Q, d) => NoPlace(ds, vs, P, d) BY <1>3, <1>4, <1>5 DEF NoPlace
<1>8. ds[d].status \notin WaitsFor => cs[d].status \notin WaitsFor \/ NoPlace(ds, vs, P, d)
  BY DEF Calm
<1> QED BY <1>2, <1>6, <1>7, <1>8

LEMMA CalmIdentified ==
    ASSUME NEW X, NEW cs, NEW ws, NEW Q, Sound(X, cs, ws, Q), NEW ds, NEW vs, NEW P,
           Calm(cs, ws, Q, ds, vs, P)
    PROVE  Identified(ds, vs)
<1>1. ASSUME NEW i \in AllIds, vs[i] # None PROVE i \in CallIds(vs[i])
  <2>1. vs[i] = ws[i] BY <1>1 DEF Calm
  <2> QED BY <1>1, <2>1 DEF Sound, Identified
<1>2. ASSUME NEW d \in Conns, ds[d].sock = "open", ds[d].status = "client_wait_result"
      PROVE  /\ ds[d].json \in Ids => ds[d].json \in BodyIds(d)
             /\ ds[d].id # None => ds[d].id \in HeaderIds(d) \/ vs[ds[d].id] = d
  <2>1. cs[d].sock = "open" BY <1>2 DEF Calm
  <2>2. \/ Own(d, ds[d])
        \/ /\ cs[d].status = "client_wait_result"
           /\ ds[d].json = cs[d].json /\ ds[d].id = cs[d].id
           /\ ds[d].id # None => vs[ds[d].id] = ws[ds[d].id]
    BY <1>2 DEF Calm
  <2>3. CASE Own(d, ds[d]) BY <2>3 DEF Own
  <2>4. CASE /\ cs[d].status = "client_wait_result"
             /\ ds[d].json = cs[d].json /\ ds[d].id = cs[d].id
             /\ ds[d].id # None => vs[ds[d].id] = ws[ds[d].id]
    <3>1. /\ cs[d].json \in Ids => cs[d].json \in BodyIds(d)
          /\ cs[d].id # None => cs[d].id \in HeaderIds(d) \/ ws[cs[d].id] = d
      BY <2>1, <2>4 DEF Sound, Identified
    <3> QED BY <2>4, <3>1
  <2> QED BY <2>2, <2>3, <2>4
<1> QED BY <1>1, <1>2 DEF Identified

LEMMA CalmPoints ==
    ASSUME NEW cs, NEW ws, NEW Q, PointsToLive(cs, ws, Q), NEW ds, NEW vs, NEW P,
           Calm(cs, ws, Q, ds, vs, P)
    PROVE  PointsToLive(ds, vs, P)
<1>1. Live(ds) = Live(cs)
  <2>1. \A d \in Conns : ds[d].sock = cs[d].sock \/ (cs[d].sock = "open" /\ ds[d].sock = "closed")
    BY DEF Calm
  <2> QED BY <2>1 DEF Live
<1>2. ASSUME NEW i \in AllIds PROVE vs[i] \in Live(cs) \cup {None}
  <2>1. vs[i] \in {None, ws[i]} BY DEF Calm
  <2>2. ws[i] \in Live(cs) \cup {None} BY DEF PointsToLive
  <2> QED BY <2>1, <2>2
<1>3. ASSUME NEW w \in Conns
      PROVE  /\ ds[w].client \in Live(cs) \cup {None}
             /\ w \notin Live(cs) => ds[w].client = None /\ ds[w].item = None
  <2>1. /\ cs[w].client \in Live(cs) \cup {None}
        /\ w \notin Live(cs) => cs[w].client = None /\ cs[w].item = None
    BY DEF PointsToLive
  <2>2. \/ ds[w].client \in {None, cs[w].client}
        \/ ds[w].client \in Live(cs) /\ w \in Live(cs)
    BY DEF Calm
  <2>3. ds[w].item \in {None, cs[w].item} \/ w \in Live(cs) BY DEF Calm
  <2> QED BY <2>1, <2>2, <2>3
<1>4. ASSUME NEW n \in Names, NEW i \in DOMAIN P[n].workers PROVE P[n].workers[i] \in Live(cs)
  <2>1. P[n].workers[i] \in Members(Q[n].workers) \cup Live(cs) BY DEF Calm
  <2>2. \A j \in DOMAIN Q[n].workers : Q[n].workers[j] \in Live(cs) BY DEF PointsToLive
  <2> QED BY <2>1, <2>2 DEF Members
<1>5. ASSUME NEW n \in Names, NEW i \in DOMAIN P[n].clients
      PROVE  P[n].clients[i].conn \in Live(cs) \cup {None}
  <2>1. Fewer(Q[n].clients, P[n].clients) BY DEF Calm
  <2>2. \E j \in DOMAIN Q[n].clients : P[n].clients[i] = Q[n].clients[j] BY <2>1 DEF Fewer
  <2>3. \A j \in DOMAIN Q[n].clients : Q[n].clients[j].conn \in Live(cs) \cup {None}
    BY DEF PointsToLive
  <2> QED BY <2>2, <2>3
<1> QED BY <1>1, <1>2, <1>3, <1>4, <1>5 DEF PointsToLive

\* A step that adds no place and counts right is sound.
LEMMA CalmSound ==
    ASSUME NEW X, NEW cs, NEW ws, NEW Q, Sound(X, cs, ws, Q),
           NEW Y, NEW ds \in Objects, NEW vs \in WaitType, NEW P \in Queues,
           Calm(cs, ws, Q, ds, vs, P), \A c \in Conns : Fits(Y, c, ds[c]),
           Counted(Y, ds, vs, P)
    PROVE  Sound(Y, ds, vs, P)
<1>1. Placed(ds, vs, P) BY CalmPlaced
<1>2. Identified(ds, vs) BY CalmIdentified
<1>3. PointsToLive(ds, vs, P)
  <2>1. PointsToLive(cs, ws, Q) BY DEF Sound
  <2> QED BY <2>1, CalmPoints
<1> QED BY <1>1, <1>2, <1>3 DEF Sound

\* How a Connect may change while no pointer does: x becomes y, and
\* "free" tells that the connection has no place where it waits.
Quiet(X, d, x, y, free) ==
    /\ y.sock = x.sock /\ Weight(y) = Weight(x) /\ y.client = x.client
    /\ y.noid = x.noid \/ x.client = None
    /\ y.item \in {None, x.item} \/ x.sock = "open"
    /\ Fits(X, d, y)
    /\ y.sock = "open" => y.status \in WaitsFor \/ x.status \notin WaitsFor \/ free
    /\ y.sock = "open" /\ y.status = "client_wait_result" =>
          \/ Own(d, y)
          \/ x.status = "client_wait_result" /\ y.json = x.json /\ y.id = x.id

LEMMA QuietSound ==
    ASSUME NEW X, NEW cs, NEW ws, NEW Q, Sound(X, cs, ws, Q), NEW ds \in Objects,
           \A d \in Conns : Quiet(X, d, cs[d], ds[d], NoPlace(cs, ws, Q, d))
    PROVE  Sound(X, ds, ws, Q)
<1>1. cs \in Objects /\ ws \in WaitType /\ Q \in Queues /\ Counted(X, cs, ws, Q) BY DEF Sound
<1>2. \A d \in Conns : ds[d].client = cs[d].client /\ Weight(ds[d]) = Weight(cs[d])
  BY DEF Quiet
<1>3. Counted(X, ds, ws, Q) BY <1>1, <1>2, CountedSame
<1>4. \A d \in Conns : Fits(X, d, ds[d]) BY DEF Quiet
<1>5. ASSUME NEW w \in Conns
      PROVE  \/ ds[w].client = None
             \/ ds[w].client = cs[w].client /\ ds[w].noid = cs[w].noid
  BY DEF Quiet
<1>6. ASSUME NEW d \in Conns
      PROVE  /\ ds[d].sock = cs[d].sock
             /\ ds[d].item \in {None, cs[d].item} \/ d \in Live(cs)
             /\ ds[d].sock = "open" /\ ds[d].status \notin WaitsFor =>
                   cs[d].status \notin WaitsFor \/ NoPlace(ds, ws, Q, d)
             /\ ds[d].sock = "open" /\ ds[d].status = "client_wait_result" =>
                   \/ Own(d, ds[d])
                   \/ /\ cs[d].status = "client_wait_result"
                      /\ ds[d].json = cs[d].json /\ ds[d].id = cs[d].id
  <2>1. Quiet(X, d, cs[d], ds[d], NoPlace(cs, ws, Q, d)) OBVIOUS
  <2>2. ds[d].sock = cs[d].sock BY <2>1 DEF Quiet
  <2>3. ds[d].item \in {None, cs[d].item} \/ d \in Live(cs) BY <2>1 DEF Quiet, Live
  <2>4. NoPlace(cs, ws, Q, d) => NoPlace(ds, ws, Q, d)
    <3>1. Served(ds, d) \subseteq Served(cs, d)
      <4> SUFFICES ASSUME NEW w \in Conns, ds[w].client = d, ds[w].noid
                   PROVE  cs[w].client = d /\ cs[w].noid
        BY DEF Served
      <4>1. \/ ds[w].client = None
            \/ ds[w].client = cs[w].client /\ ds[w].noid = cs[w].noid
        BY <1>5
      <4> QED BY <4>1, NoneAssumption
    <3> QED BY <3>1 DEF NoPlace
  <2>5. ds[d].sock = "open" /\ ds[d].status \notin WaitsFor =>
           cs[d].status \notin WaitsFor \/ NoPlace(ds, ws, Q, d)
    <3> HIDE DEF NoPlace
    <3> QED BY <2>1, <2>4 DEF Quiet
  <2>6. ds[d].sock = "open" /\ ds[d].status = "client_wait_result" =>
           \/ Own(d, ds[d])
           \/ /\ cs[d].status = "client_wait_result"
              /\ ds[d].json = cs[d].json /\ ds[d].id = cs[d].id
    BY <2>1 DEF Quiet
  <2> QED BY <2>2, <2>3, <2>5, <2>6
<1>7. ASSUME NEW n \in Names
      PROVE  /\ Fewer(Q[n].clients, Q[n].clients)
             /\ \A i \in DOMAIN Q[n].workers : Q[n].workers[i] \in Members(Q[n].workers)
  BY FewerSame DEF Members
<1>8. Calm(cs, ws, Q, ds, ws, Q) BY <1>5, <1>6, <1>7 DEF Calm
<1> QED BY <1>1, <1>3, <1>4, <1>8, CalmSound
-----------------------------------------------------------------------------
(* The parts of the handlers *)

\* Two states of a Connect that differ in link and client at most, and in
\* nothing that matters here.
Same(x, y) ==
    /\ y.sock = x.sock /\ y.status = x.status /\ y.item = x.item
    /\ y.noid = x.noid /\ y.fail = x.fail /\ y.id = x.id /\ y.json = x.json

Alike(x, y) == Same(x, y) /\ y.link = x.link /\ y.client = x.client

LEMMA ObjectFields ==
    ASSUME NEW x \in ConnType
    PROVE  /\ x.link \in Int /\ x.out \in Int /\ x.dm \in Int /\ x.status \in Statuses
           /\ x.sock \in {"none", "open", "closed", "freed"}
           /\ x.client \in Conns \cup {None} /\ x.id \in AllIds \cup {None}
           /\ x.json \in Ids \cup {None, "malformed"}
           /\ x.item \in Names \cup {None}
           /\ x.noid \in BOOLEAN /\ x.fail \in BOOLEAN /\ x.wm \in BOOLEAN /\ x.ping \in BOOLEAN
           /\ x.cid \in Wids \cup {None} /\ x.ka \in BOOLEAN /\ x.wr \in BOOLEAN
BY DEF ConnType

LEMMA WeightAlike ==
    ASSUME NEW x, NEW y, y.sock = x.sock, y.item = x.item, y.link = x.link
    PROVE  Weight(y) = Weight(x)
BY DEF Weight

LEMMA QuietAlike ==
    ASSUME NEW X, NEW d, NEW x, NEW y, Alike(x, y), Fits(X, d, x), NEW free
    PROVE  Quiet(X, d, x, y, free)
<1>1. /\ y.sock = x.sock /\ y.status = x.status /\ y.item = x.item /\ y.noid = x.noid
      /\ y.fail = x.fail /\ y.id = x.id /\ y.json = x.json /\ y.link = x.link
      /\ y.client = x.client
  BY DEF Alike, Same
<1>2. Weight(y) = Weight(x) BY <1>1, WeightAlike
<1>3. Fits(X, d, y) BY <1>1 DEF Fits
<1> QED BY <1>1, <1>2, <1>3 DEF Quiet

\* Nothing changes that matters here.
LEMMA AlikeSound ==
    ASSUME NEW X, NEW cs, NEW ws, NEW Q, Sound(X, cs, ws, Q), NEW ds \in Objects,
           \A d \in Conns : Alike(cs[d], ds[d])
    PROVE  Sound(X, ds, ws, Q)
<1>1. \A d \in Conns : Fits(X, d, cs[d]) BY DEF Sound
<1>2. ASSUME NEW d \in Conns PROVE Quiet(X, d, cs[d], ds[d], NoPlace(cs, ws, Q, d))
  BY <1>1, QuietAlike
<1> QED BY <1>2, QuietSound

\* One connection changes, and no pointer.
LEMMA QuietOne ==
    ASSUME NEW X, NEW cs, NEW ws, NEW Q, Sound(X, cs, ws, Q), NEW c \in Conns, NEW y \in ConnType,
           Quiet(X, c, cs[c], y, NoPlace(cs, ws, Q, c))
    PROVE  Sound(X, [cs EXCEPT ![c] = y], ws, Q)
<1>1. PICK ds : ds = [cs EXCEPT ![c] = y] OBVIOUS
<1>2. cs \in Objects BY DEF Sound
<1>3. ds \in Objects /\ \A d \in Conns : ds[d] = IF d = c THEN y ELSE cs[d]
  BY <1>1, <1>2 DEF Objects
<1>4. ASSUME NEW d \in Conns PROVE Quiet(X, d, cs[d], ds[d], NoPlace(cs, ws, Q, d))
  <2>1. CASE d = c BY <1>3, <2>1
  <2>2. CASE d # c
    <3>1. Fits(X, d, cs[d]) BY DEF Sound
    <3>2. Alike(cs[d], cs[d]) BY DEF Alike, Same
    <3>3. ds[d] = cs[d] BY <1>3, <2>2
    <3> QED BY <3>1, <3>2, <3>3, QuietAlike
  <2> QED BY <2>1, <2>2
<1> QED BY <1>1, <1>3, <1>4, QuietSound

\* HttpSender.
LEMMA SendDoes ==
    ASSUME NEW cs \in Objects, NEW c \in Conns
    PROVE  /\ Send(cs, c) \in Objects
           /\ \A d \in Conns : Alike(cs[d], Send(cs, c)[d]) /\ Send(cs, c)[d].wm = cs[d].wm
<1>1. PICK y : y = [cs[c] EXCEPT !.out = @ + 1, !.wr = TRUE] OBVIOUS
<1>2. cs[c] \in ConnType BY DEF Objects
<1>3. y \in ConnType /\ Alike(cs[c], y) /\ y.wm = cs[c].wm
  <2>1. PICK x : x = [cs[c] EXCEPT !.out = @ + 1] OBVIOUS
  <2>2. x \in ConnType /\ Alike(cs[c], x) /\ x.wm = cs[c].wm
    <3>0. cs[c].out + 1 \in Int BY <1>2, ObjectFields
    <3>1. x \in ConnType BY <1>2, <2>1, <3>0, FieldType
    <3> QED BY <1>2, <2>1, <3>1 DEF ConnType, Alike, Same
  <2>3. y = [x EXCEPT !.wr = TRUE] BY <1>1, <2>1
  <2>4. y \in ConnType BY <2>2, <2>3, FieldType
  <2>5. Alike(x, y) /\ y.wm = x.wm BY <2>2, <2>3 DEF ConnType, Alike, Same
  <2> QED BY <2>2, <2>4, <2>5 DEF Alike, Same
<1>4. Send(cs, c) = [cs EXCEPT ![c] = y] BY <1>1 DEF Send
<1>5. /\ Send(cs, c) \in Objects
      /\ \A d \in Conns : Send(cs, c)[d] = IF d = c THEN y ELSE cs[d]
  BY <1>3, <1>4 DEF Objects
<1>6. \A d \in Conns : Alike(cs[d], cs[d]) BY DEF Alike, Same
<1> QED BY <1>3, <1>5, <1>6

LEMMA SendSound ==
    ASSUME NEW X, NEW cs, NEW ws, NEW Q, Sound(X, cs, ws, Q), NEW c \in Conns
    PROVE  Sound(X, Send(cs, c), ws, Q)
<1>1. cs \in Objects BY DEF Sound
<1> QED BY <1>1, SendDoes, AlikeSound

\* Nothing but the status changes.
Restated(x, y) ==
    /\ y.sock = x.sock /\ y.item = x.item /\ y.noid = x.noid /\ y.fail = x.fail
    /\ y.id = x.id /\ y.json = x.json /\ y.link = x.link /\ y.client = x.client
    /\ y.wm = x.wm

\* A new status.
LEMMA StatusDoes ==
    ASSUME NEW cs \in Objects, NEW c \in Conns, NEW s \in Statuses
    PROVE  /\ SetStatus(cs, c, s) \in Objects
           /\ \A d \in Conns : d # c => SetStatus(cs, c, s)[d] = cs[d]
           /\ SetStatus(cs, c, s)[c] \in ConnType /\ SetStatus(cs, c, s)[c].status = s
           /\ Restated(cs[c], SetStatus(cs, c, s)[c])
<1>1. PICK y : y = [cs[c] EXCEPT !.status = s] OBVIOUS
<1>2. cs[c] \in ConnType BY DEF Objects
<1>3. y \in ConnType BY <1>1, <1>2, FieldType
<1>4. SetStatus(cs, c, s) = [cs EXCEPT ![c] = y] BY <1>1 DEF SetStatus
<1>5. /\ SetStatus(cs, c, s) \in Objects
      /\ \A d \in Conns : SetStatus(cs, c, s)[d] = IF d = c THEN y ELSE cs[d]
  BY <1>3, <1>4 DEF Objects
<1>6. y.status = s /\ Restated(cs[c], y) BY <1>1, <1>2 DEF ConnType, Restated
<1> QED BY <1>1, <1>3, <1>5, <1>6

LEMMA StatusSound ==
    ASSUME NEW X, NEW cs, NEW ws, NEW Q, Sound(X, cs, ws, Q), NEW c \in Conns, NEW s \in Statuses,
           cs[c].sock = "open" /\ s \notin WaitsFor =>
              cs[c].status \notin WaitsFor \/ NoPlace(cs, ws, Q, c),
           cs[c].sock = "open" /\ s = "client_wait_result" => Own(c, cs[c]),
           cs[c].sock = "open" /\ s \in Unclaimed =>
              cs[c].client = None /\ (cs[c].noid => cs[c].fail)
    PROVE  Sound(X, SetStatus(cs, c, s), ws, Q)
<1>0. cs \in Objects /\ Fits(X, c, cs[c]) BY DEF Sound
<1>1. PICK y : y = SetStatus(cs, c, s)[c] OBVIOUS
<1>2. /\ y \in ConnType /\ y.status = s
      /\ y.sock = cs[c].sock /\ y.item = cs[c].item /\ y.noid = cs[c].noid
      /\ y.fail = cs[c].fail /\ y.id = cs[c].id /\ y.json = cs[c].json /\ y.link = cs[c].link
      /\ y.client = cs[c].client
  BY <1>0, <1>1, StatusDoes DEF Restated
<1>3. SetStatus(cs, c, s) = [cs EXCEPT ![c] = y] BY <1>0, <1>1 DEF SetStatus, Objects
<1>4. Weight(y) = Weight(cs[c]) BY <1>2, WeightAlike
<1>5. Fits(X, c, y) BY <1>0, <1>2 DEF Fits
<1>6. Own(c, cs[c]) => Own(c, y) BY <1>2 DEF Own
<1>7. Quiet(X, c, cs[c], y, NoPlace(cs, ws, Q, c)) BY <1>2, <1>4, <1>5, <1>6 DEF Quiet
<1>8. Sound(X, [cs EXCEPT ![c] = y], ws, Q) BY <1>2, <1>7, QuietOne
<1> QED BY <1>3, <1>8

\* WorkerItem::pop gives back the link of the list.
LEMMA PopDoes ==
    ASSUME NEW cs \in Objects, NEW c \in Conns
    PROVE  /\ PopItem(cs, c) \in Objects
           /\ \A d \in Conns : d # c => PopItem(cs, c)[d] = cs[d]
           /\ LET x == cs[c]
                  y == PopItem(cs, c)[c]
              IN  /\ y \in ConnType /\ y.item = None /\ Weight(y) = Weight(x)
                  /\ y.status = x.status /\ y.sock = x.sock /\ y.noid = x.noid
                  /\ y.fail = x.fail /\ y.id = x.id /\ y.json = x.json
                  /\ y.client = x.client /\ y.wm = x.wm
<1>1. cs[c] \in ConnType /\ cs[c].link \in Int BY ObjectFields DEF Objects
<1>2. CASE cs[c].item = None BY <1>1, <1>2 DEF PopItem
<1>3. CASE cs[c].item # None
  <2>1. PICK y : y = [cs[c] EXCEPT !.item = None, !.link = @ - 1] OBVIOUS
  <2>2. PopItem(cs, c) = [cs EXCEPT ![c] = y] BY <1>3, <2>1 DEF PopItem
  <2>3. /\ y \in ConnType /\ y.item = None /\ y.link = cs[c].link - 1
        /\ y.status = cs[c].status /\ y.sock = cs[c].sock /\ y.noid = cs[c].noid
        /\ y.fail = cs[c].fail /\ y.id = cs[c].id /\ y.json = cs[c].json
        /\ y.client = cs[c].client /\ y.wm = cs[c].wm
    <3>1. y = [[cs[c] EXCEPT !.item = None] EXCEPT !.link = cs[c].link - 1]
      BY <1>1, <2>1 DEF ConnType
    <3>2. [cs[c] EXCEPT !.item = None] \in ConnType BY <1>1, FieldType
    <3>3. cs[c].link - 1 \in Int BY <1>1
    <3>4. y \in ConnType BY <3>1, <3>2, <3>3, FieldType
    <3> QED BY <1>1, <2>1, <3>4 DEF ConnType
  <2>4. Weight(y) = Weight(cs[c]) BY <1>1, <1>3, <2>3 DEF Weight
  <2>5. /\ PopItem(cs, c) \in Objects
        /\ \A d \in Conns : PopItem(cs, c)[d] = IF d = c THEN y ELSE cs[d]
    BY <2>2, <2>3 DEF Objects
  <2> QED BY <2>3, <2>4, <2>5
<1> QED BY <1>2, <1>3

LEMMA PopSound ==
    ASSUME NEW X, NEW cs, NEW ws, NEW Q, Sound(X, cs, ws, Q), NEW c \in Conns
    PROVE  Sound(X, PopItem(cs, c), ws, Q)
<1>0. cs \in Objects /\ Fits(X, c, cs[c]) BY DEF Sound
<1>1. PICK ds, y : ds = PopItem(cs, c) /\ y = ds[c] OBVIOUS
<1>2. /\ ds \in Objects /\ \A d \in Conns : d # c => ds[d] = cs[d]
      /\ y \in ConnType /\ y.item = None /\ Weight(y) = Weight(cs[c])
      /\ y.status = cs[c].status /\ y.sock = cs[c].sock /\ y.noid = cs[c].noid
      /\ y.fail = cs[c].fail /\ y.id = cs[c].id /\ y.json = cs[c].json
      /\ y.client = cs[c].client
  BY <1>0, <1>1, PopDoes
<1>3. Fits(X, c, y) BY <1>0, <1>2 DEF Fits
<1>4. Quiet(X, c, cs[c], y, NoPlace(cs, ws, Q, c)) BY <1>2, <1>3 DEF Quiet
<1>5. ds = [cs EXCEPT ![c] = y]
  <2>1. /\ [cs EXCEPT ![c] = y] \in Objects
        /\ \A d \in Conns : [cs EXCEPT ![c] = y][d] = IF d = c THEN y ELSE cs[d]
    BY <1>0, <1>2 DEF Objects
  <2> QED BY <1>1, <1>2, <2>1 DEF Objects
<1>6. Sound(X, [cs EXCEPT ![c] = y], ws, Q) BY <1>2, <1>4, QuietOne
<1> QED BY <1>1, <1>5, <1>6
\* Connect::unlink.
LEMMA UnlinkDoes ==
    ASSUME NEW cs \in Objects, NEW c \in Conns
    PROVE  /\ Unlink(cs, c) \in Objects
           /\ \A d \in Conns : /\ Same(cs[d], Unlink(cs, c)[d])
                               /\ Unlink(cs, c)[d].client = cs[d].client
                               /\ Unlink(cs, c)[d].wm = cs[d].wm
                               /\ Unlink(cs, c)[d].link = cs[d].link - (IF d = c THEN 1 ELSE 0)
<1>1. cs[c] \in ConnType /\ cs[c].link - 1 \in Int BY ObjectFields DEF Objects
<1>2. PICK y : y = [cs[c] EXCEPT !.link = @ - 1] OBVIOUS
<1>3. y \in ConnType BY <1>1, <1>2, FieldType
<1>4. Unlink(cs, c) = [cs EXCEPT ![c] = y] BY <1>2 DEF Unlink
<1>5. /\ Unlink(cs, c) \in Objects
      /\ \A d \in Conns : Unlink(cs, c)[d] = IF d = c THEN y ELSE cs[d]
  BY <1>3, <1>4 DEF Objects
<1>6. /\ Same(cs[c], y) /\ y.client = cs[c].client /\ y.wm = cs[c].wm
      /\ y.link = cs[c].link - 1
  BY <1>1, <1>2 DEF ConnType, Same
<1>7. \A d \in Conns : Same(cs[d], cs[d]) /\ cs[d].link - 0 = cs[d].link
  <2> SUFFICES ASSUME NEW d \in Conns PROVE Same(cs[d], cs[d]) /\ cs[d].link - 0 = cs[d].link
    OBVIOUS
  <2>1. cs[d].link \in Int BY ObjectFields DEF Objects
  <2> QED BY <2>1 DEF Same
<1> QED BY <1>5, <1>6, <1>7

\* Connect::link.
LEMMA LinkDoes ==
    ASSUME NEW cs \in Objects, NEW c \in Conns
    PROVE  /\ Link(cs, c) \in Objects
           /\ \A d \in Conns : /\ Same(cs[d], Link(cs, c)[d])
                               /\ Link(cs, c)[d].client = cs[d].client
                               /\ Link(cs, c)[d].wm = cs[d].wm
                               /\ Link(cs, c)[d].link = cs[d].link + (IF d = c THEN 1 ELSE 0)
<1>1. cs[c] \in ConnType /\ cs[c].link + 1 \in Int BY ObjectFields DEF Objects
<1>2. PICK y : y = [cs[c] EXCEPT !.link = @ + 1] OBVIOUS
<1>3. y \in ConnType BY <1>1, <1>2, FieldType
<1>4. Link(cs, c) = [cs EXCEPT ![c] = y] BY <1>2 DEF Link
<1>5. /\ Link(cs, c) \in Objects
      /\ \A d \in Conns : Link(cs, c)[d] = IF d = c THEN y ELSE cs[d]
  BY <1>3, <1>4 DEF Objects
<1>6. /\ Same(cs[c], y) /\ y.client = cs[c].client /\ y.wm = cs[c].wm
      /\ y.link = cs[c].link + 1
  BY <1>1, <1>2 DEF ConnType, Same
<1>7. \A d \in Conns : Same(cs[d], cs[d]) /\ cs[d].link + 0 = cs[d].link
  <2> SUFFICES ASSUME NEW d \in Conns PROVE Same(cs[d], cs[d]) /\ cs[d].link + 0 = cs[d].link
    OBVIOUS
  <2>1. cs[d].link \in Int BY ObjectFields DEF Objects
  <2> QED BY <2>1 DEF Same
<1> QED BY <1>5, <1>6, <1>7

\* A worker gets a client, or loses it.
LEMMA ClientDoes ==
    ASSUME NEW cs \in Objects, NEW w \in Conns, NEW v \in Conns \cup {None}
    PROVE  LET ds == [cs EXCEPT ![w].client = v]
           IN  /\ ds \in Objects
               /\ \A d \in Conns : /\ Same(cs[d], ds[d]) /\ ds[d].link = cs[d].link
                                   /\ ds[d].wm = cs[d].wm
                                   /\ ds[d].client = IF d = w THEN v ELSE cs[d].client
<1>1. cs[w] \in ConnType BY DEF Objects
<1>2. PICK y : y = [cs[w] EXCEPT !.client = v] OBVIOUS
<1>3. y \in ConnType BY <1>1, <1>2, FieldType
<1>4. PICK ds : ds = [cs EXCEPT ![w].client = v] OBVIOUS
<1>5. ds \in Objects /\ \A d \in Conns : ds[d] = IF d = w THEN y ELSE cs[d]
  BY <1>2, <1>3, <1>4 DEF Objects
<1>6. Same(cs[w], y) /\ y.client = v /\ y.link = cs[w].link /\ y.wm = cs[w].wm
  BY <1>1, <1>2 DEF ConnType, Same
<1>7. \A d \in Conns : Same(cs[d], cs[d]) BY DEF Same
<1> QED BY <1>4, <1>5, <1>6, <1>7

\* The weight follows the link.
LEMMA WeightSame ==
    ASSUME NEW x \in ConnType, NEW y, Same(x, y), NEW k \in Int, y.link = x.link + k
    PROVE  Weight(y) = Weight(x) + k
<1>1. x.link \in Int BY DEF ConnType
<1>2. y.sock = x.sock /\ y.item = x.item BY DEF Same
<1> QED BY <1>1, <1>2 DEF Weight

\* A worker is rid of its client.
Unserve(cs, w) == [Unlink(cs, cs[w].client) EXCEPT ![w].client = None]

LEMMA UnserveDoes ==
    ASSUME NEW cs \in Objects, NEW w \in Conns, cs[w].client # None
    PROVE  /\ cs[w].client \in Conns /\ Unserve(cs, w) \in Objects
           /\ \A e \in Conns :
                 /\ Same(cs[e], Unserve(cs, w)[e])
                 /\ Unserve(cs, w)[e].wm = cs[e].wm
                 /\ Unserve(cs, w)[e].link = cs[e].link - (IF e = cs[w].client THEN 1 ELSE 0)
                 /\ Unserve(cs, w)[e].client = IF e = w THEN None ELSE cs[e].client
<1>1. PICK d : d = cs[w].client OBVIOUS
<1>2. d \in Conns BY <1>1, ObjectFields DEF Objects
<1>3. PICK u : u = Unlink(cs, d) OBVIOUS
<1>4. /\ u \in Objects
      /\ \A e \in Conns : /\ Same(cs[e], u[e]) /\ u[e].client = cs[e].client
                          /\ u[e].wm = cs[e].wm
                          /\ u[e].link = cs[e].link - (IF e = d THEN 1 ELSE 0)
  BY <1>2, <1>3, UnlinkDoes
<1>5. PICK ds : ds = [u EXCEPT ![w].client = None] OBVIOUS
<1>6. /\ ds \in Objects
      /\ \A e \in Conns : /\ Same(u[e], ds[e]) /\ ds[e].link = u[e].link /\ ds[e].wm = u[e].wm
                          /\ ds[e].client = IF e = w THEN None ELSE u[e].client
  <2>1. u \in Objects /\ w \in Conns /\ None \in Conns \cup {None} BY <1>4
  <2>2. LET ds1 == [u EXCEPT ![w].client = None]
        IN  /\ ds1 \in Objects
            /\ \A e \in Conns : /\ Same(u[e], ds1[e]) /\ ds1[e].link = u[e].link
                                /\ ds1[e].wm = u[e].wm
                                /\ ds1[e].client = IF e = w THEN None ELSE u[e].client
    BY <2>1, ClientDoes, ZenonT(60)
  <2> QED BY <1>5, <2>2, Zenon
<1>7. Unserve(cs, w) = ds BY <1>1, <1>3, <1>5 DEF Unserve
<1>8. \A e \in Conns : Same(cs[e], ds[e]) BY <1>4, <1>6 DEF Same
<1>9. /\ \A e \in Conns : ds[e].link = cs[e].link - (IF e = d THEN 1 ELSE 0)
      /\ \A e \in Conns : ds[e].wm = cs[e].wm
      /\ \A e \in Conns : ds[e].client = IF e = w THEN None ELSE cs[e].client
  BY <1>4, <1>6
<1> QED BY <1>1, <1>2, <1>6, <1>7, <1>8, <1>9

\* Nothing that decides where connections wait changes, or it becomes less.
LEMMA NoPlaceKept ==
    ASSUME NEW cs, NEW ds, NEW ws, NEW Q, NEW d \in Conns, NoPlace(cs, ws, Q, d),
           \A w \in Conns : ds[w].client = d => cs[w].client = d /\ ds[w].noid = cs[w].noid
    PROVE  NoPlace(ds, ws, Q, d)
<1>1. Served(ds, d) \subseteq Served(cs, d)
  <2> SUFFICES ASSUME NEW w \in Conns, ds[w].client = d, ds[w].noid
               PROVE  cs[w].client = d /\ cs[w].noid
    BY DEF Served
  <2>1. cs[w].client = d /\ ds[w].noid = cs[w].noid OBVIOUS
  <2> QED BY <2>1
<1> QED BY <1>1 DEF NoPlace

LEMMA UnserveSound ==
    ASSUME NEW X, NEW cs, NEW ws, NEW Q, Sound(X, cs, ws, Q), NEW w \in Conns,
           cs[w].client # None
    PROVE  /\ Sound(X, Unserve(cs, w), ws, Q)
           /\ cs[w].noid /\ cs[cs[w].client].sock = "open" =>
                 NoPlace(Unserve(cs, w), ws, Q, cs[w].client)
<1>1. PICK d, ds : d = cs[w].client /\ ds = Unserve(cs, w) OBVIOUS
<1>2. cs \in Objects /\ ws \in WaitType /\ Q \in Queues /\ Counted(X, cs, ws, Q) BY DEF Sound
<1>3. /\ d \in Conns /\ ds \in Objects
      /\ \A e \in Conns : /\ Same(cs[e], ds[e])
                          /\ ds[e].link = cs[e].link - (IF e = d THEN 1 ELSE 0)
                          /\ ds[e].client = IF e = w THEN None ELSE cs[e].client
  BY <1>1, <1>2, UnserveDoes
<1>4. ASSUME NEW e \in Conns PROVE Fits(X, e, ds[e])
  <2>1. Fits(X, e, cs[e]) BY DEF Sound
  <2>2. Same(cs[e], ds[e]) /\ ds[e].client \in {None, cs[e].client} BY <1>3
  <2> QED BY <2>1, <2>2 DEF Same, Fits
<1>5. ASSUME NEW e \in Conns
      PROVE  Weight(ds[e]) = Weight(cs[e]) - (IF cs[w].client = e THEN 1 ELSE 0)
                             + (IF ds[w].client = e THEN 1 ELSE 0)
  <2>1. ds[w].client # e BY <1>3, NoneAssumption
  <2>2. cs[e] \in ConnType /\ cs[e].link \in Int /\ Weight(cs[e]) \in Int
    BY <1>2, ObjectFields, WeightType DEF Objects
  <2>3. Same(cs[e], ds[e]) BY <1>3
  <2>4. CASE e = d
    <3>1. ds[e].link = cs[e].link + (-1) BY <1>3, <2>2, <2>4
    <3>2. Weight(ds[e]) = Weight(cs[e]) + (-1) BY <2>2, <2>3, <3>1, WeightSame
    <3> QED BY <1>1, <2>1, <2>2, <2>4, <3>2
  <2>5. CASE e # d
    <3>1. ds[e].link = cs[e].link + 0 BY <1>3, <2>2, <2>5
    <3>2. Weight(ds[e]) = Weight(cs[e]) + 0 BY <2>2, <2>3, <3>1, WeightSame
    <3> QED BY <1>1, <2>1, <2>2, <2>5, <3>2
  <2> QED BY <2>4, <2>5
<1>6. Counted(X, ds, ws, Q)
  <2>1. \A e \in Conns : e # w => ds[e].client = cs[e].client BY <1>3
  <2> QED BY <1>2, <1>3, <1>5, <2>1, CountedClient
<1>7. Calm(cs, ws, Q, ds, ws, Q)
  <2>1. ASSUME NEW n \in Names
        PROVE  /\ Fewer(Q[n].clients, Q[n].clients)
               /\ \A i \in DOMAIN Q[n].workers : Q[n].workers[i] \in Members(Q[n].workers)
    BY FewerSame DEF Members
  <2>2. ASSUME NEW e \in Conns
        PROVE  /\ ds[e].client = None \/ (ds[e].client = cs[e].client /\ ds[e].noid = cs[e].noid)
               /\ ds[e].sock = cs[e].sock /\ ds[e].item = cs[e].item
               /\ ds[e].status = cs[e].status /\ ds[e].json = cs[e].json /\ ds[e].id = cs[e].id
    BY <1>3 DEF Same
  <2> QED BY <2>1, <2>2 DEF Calm
<1>8. Sound(X, ds, ws, Q) BY <1>2, <1>3, <1>4, <1>6, <1>7, CalmSound
<1>9. ASSUME cs[w].noid, cs[d].sock = "open" PROVE NoPlace(ds, ws, Q, d)
  <2>1. OnePlace(cs, ws, Q, d) BY <1>3, <1>9 DEF Sound, Placed
  <2>2. w \in Served(cs, d) BY <1>1, <1>9 DEF Served
  <2>3. Queued(Q, d) = {} /\ Registered(ws, d) = {} BY <2>1, <2>2 DEF OnePlace
  <2>4. \A e \in Served(cs, d) : e = w BY <2>1, <2>2 DEF OnePlace, Single
  <2>5. ASSUME NEW e \in Served(ds, d) PROVE FALSE
    <3>1. e \in Conns /\ ds[e].client = d /\ ds[e].noid BY DEF Served
    <3>2. e # w /\ cs[e].client = d BY <1>3, <3>1, NoneAssumption
    <3>3. ds[e].noid = cs[e].noid BY <1>3, <3>1 DEF Same
    <3>4. e \in Served(cs, d) BY <3>1, <3>2, <3>3 DEF Served
    <3> QED BY <2>4, <3>2, <3>4
  <2> QED BY <2>3, <2>5 DEF NoPlace
<1> QED BY <1>1, <1>8, <1>9
\* An entry of wait_response is cleared, and its client has its answer or is gone.
EntryCleared(cs, ds, ws, vs, i, c) ==
    /\ ws[i] = c /\ \A j \in AllIds : vs[j] = IF j = i THEN None ELSE ws[j]
    /\ \A d \in Conns : d # c => Alike(cs[d], ds[d])
    /\ ds[c].sock = cs[c].sock /\ ds[c].item = cs[c].item /\ ds[c].noid = cs[c].noid
    /\ ds[c].fail = cs[c].fail /\ ds[c].client = cs[c].client
    /\ ds[c].link = cs[c].link - 1 /\ (cs[c].sock = "open" => ds[c].status = "net")

LEMMA EntrySound ==
    ASSUME NEW X, NEW cs, NEW ws, NEW Q, Sound(X, cs, ws, Q), NEW i \in AllIds, NEW c \in Conns,
           NEW ds \in Objects, NEW vs \in WaitType, EntryCleared(cs, ds, ws, vs, i, c)
    PROVE  Sound(X, ds, vs, Q)
<1>0. /\ ws[i] = c /\ \A j \in AllIds : vs[j] = IF j = i THEN None ELSE ws[j]
      /\ \A d \in Conns : d # c => Alike(cs[d], ds[d])
      /\ ds[c].sock = cs[c].sock /\ ds[c].item = cs[c].item /\ ds[c].noid = cs[c].noid
      /\ ds[c].fail = cs[c].fail /\ ds[c].client = cs[c].client
      /\ ds[c].link = cs[c].link - 1 /\ (cs[c].sock = "open" => ds[c].status = "net")
  BY DEF EntryCleared
<1>1. cs \in Objects /\ ws \in WaitType /\ Q \in Queues /\ Counted(X, cs, ws, Q) BY DEF Sound
<1>2. vs \in WaitType /\ \A j \in AllIds : vs[j] = IF j = i THEN None ELSE ws[j]
  BY <1>0
<1>3. ASSUME NEW d \in Conns
      PROVE  /\ ds[d].client = cs[d].client /\ ds[d].noid = cs[d].noid
             /\ ds[d].sock = cs[d].sock /\ ds[d].item = cs[d].item
             /\ d # c => ds[d].status = cs[d].status /\ ds[d].json = cs[d].json
                         /\ ds[d].id = cs[d].id
  <2>1. CASE d = c BY <1>0, <2>1
  <2>2. CASE d # c
    <3>1. Alike(cs[d], ds[d]) BY <1>0, <2>2
    <3> QED BY <3>1 DEF Alike, Same
  <2> QED BY <2>1, <2>2
<1>4. ASSUME NEW d \in Conns PROVE Fits(X, d, ds[d])
  <2>1. Fits(X, d, cs[d]) BY DEF Sound
  <2>2. CASE d = c BY <1>0, <2>1, <2>2 DEF Fits, Unclaimed
  <2>3. CASE d # c
    <3>1. Alike(cs[d], ds[d]) BY <1>0, <2>3
    <3> QED BY <2>1, <3>1 DEF Fits, Alike, Same
  <2> QED BY <2>2, <2>3
<1>5. ASSUME NEW d \in Conns
      PROVE  Weight(ds[d]) = Weight(cs[d]) - (IF ws[i] = d THEN 1 ELSE 0)
                             + (IF vs[i] = d THEN 1 ELSE 0)
  <2>1. vs[i] # d BY <1>2, NoneAssumption
  <2>2. cs[d].link \in Int BY <1>1, ObjectFields DEF Objects
  <2>3. CASE d = c BY <1>0, <2>1, <2>2, <2>3 DEF Weight
  <2>4. CASE d # c
    <3>1. Alike(cs[d], ds[d]) BY <1>0, <2>4
    <3>2. Weight(ds[d]) = Weight(cs[d]) BY <3>1, WeightAlike DEF Alike, Same
    <3>3. Weight(cs[d]) \in Int BY <1>1, WeightType DEF Objects
    <3> QED BY <1>0, <2>1, <2>4, <3>2, <3>3
  <2> QED BY <2>3, <2>4
<1>6. Counted(X, ds, vs, Q)
  <2>1. \A d \in Conns : ds[d].client = cs[d].client BY <1>3
  <2>2. \A j \in AllIds : j # i => vs[j] = ws[j] BY <1>2
  <2>3. \A d \in Conns : /\ ds[d].client = cs[d].client
                         /\ Weight(ds[d]) = Weight(cs[d]) - (IF ws[i] = d THEN 1 ELSE 0)
                                            + (IF vs[i] = d THEN 1 ELSE 0)
    BY <1>5, <2>1
  <2>4. EntryChange(cs, ds, ws, vs, i) BY <2>2, <2>3 DEF EntryChange
  <2> QED BY <1>1, <2>4, CountedWait, Zenon
<1>7. cs[c].sock = "open" => NoPlace(ds, vs, Q, c)
  <2> SUFFICES ASSUME cs[c].sock = "open" PROVE NoPlace(ds, vs, Q, c) OBVIOUS
  <2>1. OnePlace(cs, ws, Q, c) BY DEF Sound, Placed
  <2>2. i \in Registered(ws, c) BY <1>0 DEF Registered
  <2>3. Queued(Q, c) = {} /\ Served(cs, c) = {} BY <2>1, <2>2 DEF OnePlace
  <2>4. \A j \in Registered(ws, c) : j = i BY <2>1, <2>2 DEF OnePlace, Single
  <2>5. ASSUME NEW j \in Registered(vs, c) PROVE FALSE
    <3>1. j \in AllIds /\ vs[j] = c BY DEF Registered
    <3>2. j # i /\ ws[j] = c BY <1>2, <3>1, NoneAssumption
    <3> QED BY <2>4, <3>1, <3>2 DEF Registered
  <2>6. ASSUME NEW w \in Served(ds, c) PROVE FALSE
    <3>1. w \in Conns /\ ds[w].client = c /\ ds[w].noid BY DEF Served
    <3>2. cs[w].client = c /\ ds[w].noid = cs[w].noid BY <1>3, <3>1
    <3>3. cs[w].noid BY <3>1, <3>2
    <3> QED BY <2>3, <3>1, <3>2, <3>3 DEF Served
  <2> QED BY <2>3, <2>5, <2>6 DEF NoPlace
<1>8. ASSUME NEW d \in Conns, ds[d].sock = "open", ds[d].status = "client_wait_result"
      PROVE  \/ Own(d, ds[d])
             \/ /\ cs[d].status = "client_wait_result"
                /\ ds[d].json = cs[d].json /\ ds[d].id = cs[d].id
                /\ ds[d].id # None => vs[ds[d].id] = ws[ds[d].id]
  <2>1. d # c BY <1>0, <1>3, <1>8
  <2>2. /\ cs[d].sock = "open" /\ cs[d].status = "client_wait_result"
        /\ ds[d].json = cs[d].json /\ ds[d].id = cs[d].id
    BY <1>3, <1>8, <2>1
  <2>3. /\ cs[d].json \in Ids => cs[d].json \in BodyIds(d)
        /\ cs[d].id # None => cs[d].id \in HeaderIds(d) \/ ws[cs[d].id] = d
    BY <2>2 DEF Sound, Identified
  <2>4. cs[d].id \in AllIds \cup {None} BY <1>1, ObjectFields DEF Objects
  <2>5. CASE cs[d].id \in HeaderIds(d) BY <2>2, <2>3, <2>5 DEF Own
  <2>6. CASE cs[d].id # i BY <1>2, <2>2, <2>4, <2>6
  <2>7. CASE cs[d].id = i /\ cs[d].id \notin HeaderIds(d)
    <3>1. i # None BY NoneAssumption
    <3> QED BY <1>0, <2>1, <2>3, <2>7, <3>1
  <2> QED BY <2>5, <2>6, <2>7
<1>9. Calm(cs, ws, Q, ds, vs, Q)
  <2>1. ASSUME NEW n \in Names
        PROVE  /\ Fewer(Q[n].clients, Q[n].clients)
               /\ \A k \in DOMAIN Q[n].workers : Q[n].workers[k] \in Members(Q[n].workers)
    BY FewerSame DEF Members
  <2>2. \A j \in AllIds : vs[j] \in {None, ws[j]} BY <1>2
  <2>3. ASSUME NEW d \in Conns
        PROVE  ds[d].sock = "open" /\ ds[d].status \notin WaitsFor =>
                  cs[d].status \notin WaitsFor \/ NoPlace(ds, vs, Q, d)
    <3> HIDE DEF NoPlace
    <3>1. CASE d = c BY <1>0, <1>3, <1>7, <3>1
    <3>2. CASE d # c BY <1>3, <3>2
    <3> QED BY <3>1, <3>2
  <2> HIDE DEF NoPlace, Own
  <2> QED BY <1>3, <1>8, <2>1, <2>2, <2>3 DEF Calm
<1> QED BY <1>1, <1>2, <1>4, <1>6, <1>9, CalmSound

\* Loop::worker_result answers the client that is registered.
LEMMA ResultDoes ==
    ASSUME NEW cs \in Objects, NEW ws, NEW i, NEW c \in Conns, ws[i] = c
    PROVE  LET ds == ResultClient(cs, ws, i)
           IN  /\ ds \in Objects
               /\ \A d \in Conns : d # c => Alike(cs[d], ds[d])
               /\ \A d \in Conns : ds[d].wm = cs[d].wm
               /\ ds[c].sock = cs[c].sock /\ ds[c].item = cs[c].item /\ ds[c].noid = cs[c].noid
               /\ ds[c].fail = cs[c].fail /\ ds[c].client = cs[c].client
               /\ ds[c].id = cs[c].id /\ ds[c].json = cs[c].json
               /\ ds[c].link = cs[c].link - 1
               /\ ds[c].status = IF cs[c].sock = "open" THEN "net" ELSE cs[c].status
<1>1. PICK u, t, v : u = Unlink(cs, c) /\ t = Send(u, c) /\ v = SetStatus(t, c, "net") OBVIOUS
<1>2. /\ u \in Objects
      /\ \A d \in Conns : /\ Same(cs[d], u[d]) /\ u[d].client = cs[d].client
                          /\ u[d].wm = cs[d].wm
                          /\ u[d].link = cs[d].link - (IF d = c THEN 1 ELSE 0)
  BY <1>1, UnlinkDoes
<1>3. t \in Objects /\ \A d \in Conns : Alike(u[d], t[d]) /\ t[d].wm = u[d].wm
  BY <1>1, <1>2, SendDoes
<1>4. /\ v \in Objects /\ \A d \in Conns : d # c => v[d] = t[d]
      /\ v[c].status = "net" /\ Restated(t[c], v[c])
  <2>1. "net" \in Statuses /\ t \in Objects BY <1>3, Values
  <2>2. PICK s \in Statuses : s = "net" BY <2>1
  <2>3. /\ SetStatus(t, c, s) \in Objects
        /\ \A d \in Conns : d # c => SetStatus(t, c, s)[d] = t[d]
        /\ SetStatus(t, c, s)[c].status = s /\ Restated(t[c], SetStatus(t, c, s)[c])
    BY <1>3, StatusDoes, ZenonT(60)
  <2> QED BY <1>1, <2>2, <2>3, Zenon
<1>5. \A d \in Conns : d # c => Alike(cs[d], u[d])
  <2> SUFFICES ASSUME NEW d \in Conns, d # c PROVE Alike(cs[d], u[d]) OBVIOUS
  <2>1. cs[d].link \in Int BY ObjectFields DEF Objects
  <2>2. u[d].link = cs[d].link BY <1>2, <2>1
  <2> QED BY <1>2, <2>2 DEF Alike
<1>6. CASE cs[c].sock # "open"
  <2>1. ResultClient(cs, ws, i) = u BY <1>1, <1>6 DEF ResultClient, IsClosed
  <2> QED BY <1>2, <1>5, <1>6, <2>1 DEF Same
<1>7. CASE cs[c].sock = "open"
  <2>1. ResultClient(cs, ws, i) = v BY <1>1, <1>7 DEF ResultClient, IsClosed
  <2>2. ASSUME NEW d \in Conns, d # c PROVE Alike(cs[d], v[d])
    <3>1. Alike(cs[d], u[d]) /\ Alike(u[d], t[d]) /\ v[d] = t[d]
      BY <1>3, <1>4, <1>5, <2>2
    <3> QED BY <3>1 DEF Alike, Same
  <2>3. \A d \in Conns : v[d].wm = cs[d].wm
    <3> SUFFICES ASSUME NEW d \in Conns PROVE v[d].wm = cs[d].wm OBVIOUS
    <3>1. v[d].wm = t[d].wm BY <1>4 DEF Restated
    <3> QED BY <1>2, <1>3, <3>1
  <2>4. /\ v[c].sock = cs[c].sock /\ v[c].item = cs[c].item /\ v[c].noid = cs[c].noid
        /\ v[c].fail = cs[c].fail /\ v[c].client = cs[c].client
        /\ v[c].id = cs[c].id /\ v[c].json = cs[c].json /\ v[c].link = cs[c].link - 1
    <3>1. Same(cs[c], u[c]) /\ Alike(u[c], t[c]) BY <1>2, <1>3
    <3> QED BY <1>2, <1>4, <3>1 DEF Alike, Same, Restated
  <2> QED BY <1>4, <1>7, <2>1, <2>2, <2>3, <2>4
<1> QED BY <1>6, <1>7

LEMMA ResultSound ==
    ASSUME NEW X, NEW cs, NEW ws, NEW Q, Sound(X, cs, ws, Q), NEW i \in AllIds, ws[i] # None
    PROVE  Sound(X, ResultClient(cs, ws, i), [ws EXCEPT ![i] = None], Q)
<1>1. PICK c, ds, vs : c = ws[i] /\ ds = ResultClient(cs, ws, i) /\ vs = [ws EXCEPT ![i] = None]
  OBVIOUS
<1>2. cs \in Objects /\ c \in Conns BY <1>1 DEF Sound, WaitType
<1>3. /\ ds \in Objects
      /\ \A d \in Conns : d # c => Alike(cs[d], ds[d])
      /\ ds[c].sock = cs[c].sock /\ ds[c].item = cs[c].item /\ ds[c].noid = cs[c].noid
      /\ ds[c].fail = cs[c].fail /\ ds[c].client = cs[c].client
      /\ ds[c].link = cs[c].link - 1
      /\ ds[c].status = IF cs[c].sock = "open" THEN "net" ELSE cs[c].status
  BY <1>1, <1>2, ResultDoes, SMTT(40)
<1>4. vs \in WaitType /\ \A j \in AllIds : vs[j] = IF j = i THEN None ELSE ws[j]
  <2>1. ws \in WaitType BY DEF Sound
  <2> QED BY <1>1, <2>1 DEF WaitType
<1>5. Sound(X, ds, vs, Q)
  <2>1. cs[c].sock = "open" => ds[c].status = "net" BY <1>3
  <2>2. EntryCleared(cs, ds, ws, vs, i, c) BY <1>1, <1>3, <1>4, <2>1 DEF EntryCleared
  <2> QED BY <1>2, <1>3, <1>4, <2>2, EntrySound, Zenon
<1> QED BY <1>1, <1>5

\* A worker without its client; its flags are those of its mode.
Rid(x, y) ==
    /\ y.client = None /\ y.sock = x.sock /\ y.wm = x.wm
    /\ y.status = x.status \/ y.status = "net"
    /\ y.noid = IF x.wm THEN x.noid ELSE FALSE
    /\ y.fail = IF x.wm THEN x.fail ELSE FALSE

\* Loop::worker_result_noid answers the client and lets go of it.
LEMMA NoIdResultDoes ==
    ASSUME NEW X, NEW cs, NEW ws, NEW Q, Sound(X, cs, ws, Q), NEW w \in Conns,
           cs[w].client # None, cs[w].noid
    PROVE  /\ Sound(X, NoIdResult(cs, w), ws, Q)
           /\ Rid(cs[w], NoIdResult(cs, w)[w])
<1>1. PICK d, e : d = cs[w].client /\ e = Unserve(cs, w) OBVIOUS
<1>2. cs \in Objects BY DEF Sound
<1>3. /\ d \in Conns /\ e \in Objects
      /\ \A v \in Conns : /\ Same(cs[v], e[v]) /\ e[v].wm = cs[v].wm
                          /\ e[v].link = cs[v].link - (IF v = d THEN 1 ELSE 0)
                          /\ e[v].client = IF v = w THEN None ELSE cs[v].client
  BY <1>1, <1>2, UnserveDoes
<1>4. /\ Sound(X, e, ws, Q)
      /\ cs[d].sock = "open" => NoPlace(e, ws, Q, d)
  BY <1>1, UnserveSound
<1>5. PICK y : y = [e[w] EXCEPT !.noid = IF cs[w].wm THEN @ ELSE FALSE,
                               !.fail = IF cs[w].wm THEN @ ELSE FALSE]
  OBVIOUS
<1>6. /\ y \in ConnType /\ y.sock = e[w].sock /\ y.item = e[w].item /\ y.link = e[w].link
      /\ y.status = e[w].status /\ y.id = e[w].id /\ y.json = e[w].json
      /\ y.client = e[w].client /\ y.wm = e[w].wm
      /\ y.noid = IF cs[w].wm THEN e[w].noid ELSE FALSE
      /\ y.fail = IF cs[w].wm THEN e[w].fail ELSE FALSE
  <2>1. e[w] \in ConnType BY <1>3 DEF Objects
  <2>2. PICK a, b \in BOOLEAN : /\ a = IF cs[w].wm THEN e[w].noid ELSE FALSE
                               /\ b = IF cs[w].wm THEN e[w].fail ELSE FALSE
    BY <2>1, ObjectFields
  <2>3. [e[w] EXCEPT !.noid = a] \in ConnType BY <2>1, FieldType
  <2>4. [[e[w] EXCEPT !.noid = a] EXCEPT !.fail = b] \in ConnType BY <2>3, FieldType
  <2>5. y = [[e[w] EXCEPT !.noid = a] EXCEPT !.fail = b] BY <1>5, <2>1, <2>2 DEF ConnType
  <2> QED BY <2>1, <2>2, <2>4, <2>5 DEF ConnType
<1>7. PICK u : u = [e EXCEPT ![w] = y] OBVIOUS
<1>8. u \in Objects /\ \A v \in Conns : u[v] = IF v = w THEN y ELSE e[v]
  BY <1>3, <1>6, <1>7 DEF Objects
<1>9. Sound(X, u, ws, Q)
  <2>1. e[w].client = None BY <1>3
  <2>2. Fits(X, w, e[w]) BY <1>4 DEF Sound
  <2>3. Fits(X, w, y) BY <1>6, <2>1, <2>2 DEF Fits
  <2>4. Weight(y) = Weight(e[w]) BY <1>6, WeightAlike
  <2>5. Quiet(X, w, e[w], y, NoPlace(e, ws, Q, w)) BY <1>6, <2>1, <2>3, <2>4 DEF Quiet
  <2> QED BY <1>4, <1>6, <1>7, <2>5, QuietOne
<1>10. cs[d].sock = "open" => NoPlace(u, ws, Q, d)
  <2> SUFFICES ASSUME cs[d].sock = "open" PROVE NoPlace(u, ws, Q, d) OBVIOUS
  <2>1. \A v \in Conns : u[v].client = d => e[v].client = d /\ u[v].noid = e[v].noid
    BY <1>3, <1>6, <1>8, NoneAssumption
  <2> QED BY <1>3, <1>4, <2>1, NoPlaceKept
<1>11. NoIdResult(cs, w) = IF cs[d].sock # "open" THEN u ELSE Send(SetStatus(u, d, "net"), d)
  <2>1. u = [Unlink(cs, d) EXCEPT ![w].client = None,
                                  ![w].noid = IF cs[w].wm THEN @ ELSE FALSE,
                                  ![w].fail = IF cs[w].wm THEN @ ELSE FALSE]
    <3>1. Unlink(cs, d) \in Objects BY <1>2, <1>3, UnlinkDoes
    <3>2. e = [Unlink(cs, d) EXCEPT ![w].client = None] BY <1>1 DEF Unserve
    <3> QED BY <1>5, <1>7, <3>1, <3>2 DEF Objects
  <2> QED BY <1>1, <2>1 DEF NoIdResult, IsClosed
<1>12. /\ u[w].client = None /\ u[w].sock = cs[w].sock /\ u[w].wm = cs[w].wm
       /\ u[w].status = cs[w].status
       /\ u[w].noid = IF cs[w].wm THEN cs[w].noid ELSE FALSE
       /\ u[w].fail = IF cs[w].wm THEN cs[w].fail ELSE FALSE
  <2>1. Same(cs[w], e[w]) /\ e[w].client = None /\ e[w].wm = cs[w].wm BY <1>3
  <2> QED BY <1>6, <1>8, <2>1 DEF Same
<1>13. CASE cs[d].sock # "open" BY <1>9, <1>11, <1>12, <1>13 DEF Rid
<1>14. CASE cs[d].sock = "open"
  <2>1. PICK t, v : t = SetStatus(u, d, "net") /\ v = Send(t, d) OBVIOUS
  <2>2. PICK s \in Statuses : s = "net" BY Values
  <2>3. /\ t \in Objects /\ \A x \in Conns : x # d => t[x] = u[x]
        /\ t[d].status = "net" /\ Restated(u[d], t[d])
    BY <1>3, <1>8, <2>1, <2>2, StatusDoes
  <2>4. Sound(X, t, ws, Q)
    <3>1. Sound(X, SetStatus(u, d, s), ws, Q)
      <4>1. NoPlace(u, ws, Q, d) BY <1>10, <1>14
      <4>2. s \notin WaitsFor /\ s \notin Unclaimed /\ s # "client_wait_result"
        BY <2>2 DEF WaitsFor, Unclaimed
      <4> HIDE DEF NoPlace
      <4> QED BY <1>3, <1>9, <4>1, <4>2, StatusSound
    <3> QED BY <2>1, <2>2, <3>1
  <2>5. v \in Objects /\ \A x \in Conns : Alike(t[x], v[x]) /\ v[x].wm = t[x].wm
    BY <1>3, <2>1, <2>3, SendDoes
  <2>6. Sound(X, v, ws, Q) BY <1>3, <2>1, <2>4, SendSound
  <2>7. Rid(cs[w], v[w])
    <3>1. Alike(t[w], v[w]) /\ v[w].wm = t[w].wm BY <2>5
    <3>2. CASE w = d BY <1>12, <2>3, <3>1, <3>2 DEF Rid, Alike, Same, Restated
    <3>3. CASE w # d BY <1>12, <2>3, <3>1, <3>3 DEF Rid, Alike, Same
    <3> QED BY <3>2, <3>3
  <2> QED BY <1>11, <1>14, <2>1, <2>6, <2>7
<1> QED BY <1>13, <1>14

\* What HTTP_START and the headers do to the connections.
Started(cs, ds, c, r) ==
    /\ \A d \in Conns : /\ ds[d].sock = cs[d].sock /\ ds[d].status = cs[d].status
                        /\ ds[d].item = cs[d].item /\ ds[d].wm = cs[d].wm
                        /\ d # c => /\ ds[d].noid = cs[d].noid /\ ds[d].fail = cs[d].fail
                                    /\ ds[d].client = cs[d].client
                                    /\ ds[d].id = cs[d].id /\ ds[d].json = cs[d].json
    /\ ds[c].id = r.id /\ ds[c].json = r.json
    /\ IF cs[c].status # "worker_wait_result" /\ ~cs[c].wm
       THEN ds[c].client = None /\ ~ds[c].noid /\ ~ds[c].fail
       ELSE /\ ds[c].client = cs[c].client
            /\ ds[c].noid = cs[c].noid /\ ds[c].fail = cs[c].fail

\* A request that begins changes no pointer but that to a former client.
LEMMA StartSound ==
    ASSUME NEW X, NEW N, NEW cs \in Connections(N), NEW ws, NEW Q, Sound(X, cs, ws, Q),
           NEW c \in Conns, NEW r \in RequestType, cs[c].status \notin WaitsFor
    PROVE  Sound(X, Start(cs, c, r), ws, Q) /\ Started(cs, Start(cs, c, r), c, r)
<1>0. PICK e : e = IF cs[c].client = None \/ cs[c].status = "worker_wait_result" \/ cs[c].wm
                   THEN cs ELSE Unserve(cs, c)
  OBVIOUS
<1>1. cs \in Objects /\ Start(cs, c, r) \in Objects
  <2>1. Start(cs, c, r) \in Connections(N) BY StartType
  <2> QED BY <2>1, AreObjects
<1>2. /\ Sound(X, e, ws, Q) /\ e \in Objects
      /\ \A d \in Conns : /\ Same(cs[d], e[d]) /\ e[d].wm = cs[d].wm
                          /\ d # c => e[d].client = cs[d].client
      /\ IF cs[c].status # "worker_wait_result" /\ ~cs[c].wm
         THEN e[c].client = None ELSE e[c].client = cs[c].client
  <2>1. CASE cs[c].client = None \/ cs[c].status = "worker_wait_result" \/ cs[c].wm
    <3>1. e = cs BY <1>0, <2>1
    <3> QED BY <1>1, <2>1, <3>1 DEF Same
  <2>2. CASE ~(cs[c].client = None \/ cs[c].status = "worker_wait_result" \/ cs[c].wm)
    <3>1. e = Unserve(cs, c) BY <1>0, <2>2
    <3>2. Sound(X, Unserve(cs, c), ws, Q) BY <2>2, UnserveSound
    <3>3. /\ Unserve(cs, c) \in Objects
          /\ \A d \in Conns : /\ Same(cs[d], Unserve(cs, c)[d])
                              /\ Unserve(cs, c)[d].wm = cs[d].wm
                              /\ Unserve(cs, c)[d].client = IF d = c THEN None ELSE cs[d].client
      BY <1>1, <2>2, UnserveDoes
    <3> QED BY <2>2, <3>1, <3>2, <3>3
  <2> QED BY <2>1, <2>2
<1>3. PICK z : z = IF cs[c].status # "worker_wait_result" /\ ~cs[c].wm THEN Reset(e[c]) ELSE e[c]
  OBVIOUS
<1>4. PICK y : y = Headers(z, r) OBVIOUS
<1>5. PICK ds : ds = Start(cs, c, r) OBVIOUS
<1>6. ds = [e EXCEPT ![c] = y]
  <2>1. CASE cs[c].status # "worker_wait_result" /\ ~cs[c].wm /\ cs[c].client # None
    <3>1. PICK u : u = Unlink(cs, cs[c].client) OBVIOUS
    <3>2. u \in Objects
      <4>1. cs[c].client \in Conns BY <1>1, <2>1, ObjectFields DEF Objects
      <4> QED BY <1>1, <3>1, <4>1, UnlinkDoes
    <3>3. e = [u EXCEPT ![c].client = None] BY <1>0, <2>1, <3>1 DEF Unserve
    <3>4. ds = [u EXCEPT ![c] = Headers(Reset(u[c]), r)] BY <1>5, <2>1, <3>1 DEF Start
    <3>5. u[c] \in ConnType /\ e[c] = [u[c] EXCEPT !.client = None] BY <3>2, <3>3 DEF Objects
    <3>6. Reset(e[c]) = Reset(u[c]) BY <3>5 DEF Reset, ConnType
    <3>7. y = Headers(Reset(u[c]), r) BY <1>3, <1>4, <2>1, <3>6
    <3> QED BY <3>2, <3>3, <3>4, <3>7 DEF Objects
  <2>2. CASE cs[c].status # "worker_wait_result" /\ ~cs[c].wm /\ cs[c].client = None
    <3>1. e = cs /\ z = Reset(cs[c]) BY <1>0, <1>3, <2>2
    <3> QED BY <1>4, <1>5, <2>2, <3>1 DEF Start
  <2>3. CASE ~(cs[c].status # "worker_wait_result" /\ ~cs[c].wm)
    <3>1. e = cs /\ z = cs[c] BY <1>0, <1>3, <2>3
    <3> QED BY <1>4, <1>5, <2>3, <3>1 DEF Start
  <2> QED BY <2>1, <2>2, <2>3
<1>7. \A d \in Conns : ds[d] = IF d = c THEN y ELSE e[d] BY <1>2, <1>6 DEF Objects
<1>8. y \in ConnType BY <1>1, <1>5, <1>7 DEF Objects
<1>9. /\ z.sock = e[c].sock /\ z.status = e[c].status /\ z.item = e[c].item
      /\ z.link = e[c].link /\ z.wm = e[c].wm /\ z \in ConnType
      /\ IF cs[c].status # "worker_wait_result" /\ ~cs[c].wm
         THEN z.client = None /\ ~z.noid /\ ~z.fail
         ELSE z.client = e[c].client /\ z.noid = e[c].noid /\ z.fail = e[c].fail
  <2>1. e[c] \in ConnType BY <1>2 DEF Objects
  <2>2. CASE cs[c].status # "worker_wait_result" /\ ~cs[c].wm
    <3>1. z = Reset(e[c]) BY <1>3, <2>2
    <3> QED BY <2>1, <2>2, <3>1 DEF Reset, ConnType
  <2>3. CASE ~(cs[c].status # "worker_wait_result" /\ ~cs[c].wm) BY <1>3, <2>1, <2>3
  <2> QED BY <2>2, <2>3
<1>10. /\ y.sock = z.sock /\ y.status = z.status /\ y.item = z.item /\ y.link = z.link
       /\ y.wm = z.wm /\ y.client = z.client /\ y.noid = z.noid /\ y.fail = z.fail
       /\ y.id = r.id /\ y.json = r.json
  BY <1>4, <1>9 DEF Headers, ConnType
<1>11. Same(cs[c], e[c]) /\ e[c].wm = cs[c].wm BY <1>2
<1>12. Quiet(X, c, e[c], y, NoPlace(e, ws, Q, c))
  <2>1. Fits(X, c, e[c]) BY <1>2 DEF Sound
  <2>2. Weight(y) = Weight(e[c]) BY <1>9, <1>10, WeightAlike
  <2>3. y.client = e[c].client BY <1>2, <1>9, <1>10
  <2>4. y.noid = e[c].noid \/ e[c].client = None BY <1>2, <1>9, <1>10
  <2>5. Fits(X, c, y)
    <3>1. CASE cs[c].status # "worker_wait_result" /\ ~cs[c].wm
      <4>1. y.client = None /\ ~y.noid BY <1>9, <1>10, <3>1
      <4> QED BY <1>2, <1>9, <1>10, <2>1, <2>3, <4>1 DEF Fits
    <3>2. CASE ~(cs[c].status # "worker_wait_result" /\ ~cs[c].wm)
      <4>1. y.noid = e[c].noid /\ y.fail = e[c].fail BY <1>9, <1>10, <3>2
      <4> QED BY <1>9, <1>10, <2>1, <2>3, <4>1 DEF Fits
    <3> QED BY <3>1, <3>2
  <2>6. y.status = cs[c].status BY <1>9, <1>10, <1>11 DEF Same
  <2>7. y.status \notin WaitsFor /\ y.status # "client_wait_result" /\ e[c].status = y.status
    BY <1>9, <1>10, <2>6 DEF WaitsFor
  <2> HIDE DEF NoPlace
  <2> QED BY <1>9, <1>10, <2>2, <2>3, <2>4, <2>5, <2>7 DEF Quiet
<1>13. Sound(X, ds, ws, Q) BY <1>2, <1>6, <1>8, <1>12, QuietOne
<1>14. Started(cs, ds, c, r)
  <2>1. ds[c] = y BY <1>7
  <2>2. ASSUME NEW d \in Conns
        PROVE  /\ ds[d].sock = cs[d].sock /\ ds[d].status = cs[d].status
               /\ ds[d].item = cs[d].item /\ ds[d].wm = cs[d].wm
               /\ d # c => /\ ds[d].noid = cs[d].noid /\ ds[d].fail = cs[d].fail
                           /\ ds[d].client = cs[d].client
                           /\ ds[d].id = cs[d].id /\ ds[d].json = cs[d].json
    <3>1. Same(cs[d], e[d]) /\ e[d].wm = cs[d].wm /\ (d # c => e[d].client = cs[d].client)
      BY <1>2
    <3>2. CASE d = c BY <1>9, <1>10, <2>1, <3>1, <3>2 DEF Same
    <3>3. CASE d # c
      <4>1. ds[d] = e[d] BY <1>7, <3>3
      <4> QED BY <3>1, <3>3, <4>1 DEF Same
    <3> QED BY <3>2, <3>3
  <2>3. ds[c].id = r.id /\ ds[c].json = r.json BY <1>10, <2>1
  <2>4. IF cs[c].status # "worker_wait_result" /\ ~cs[c].wm
        THEN ds[c].client = None /\ ~ds[c].noid /\ ~ds[c].fail
        ELSE /\ ds[c].client = cs[c].client
             /\ ds[c].noid = cs[c].noid /\ ds[c].fail = cs[c].fail
    <3>1. CASE cs[c].status # "worker_wait_result" /\ ~cs[c].wm BY <1>9, <1>10, <2>1, <3>1
    <3>2. CASE ~(cs[c].status # "worker_wait_result" /\ ~cs[c].wm)
      <4>1. e[c].client = cs[c].client BY <1>2, <3>2
      <4>2. e[c].noid = cs[c].noid /\ e[c].fail = cs[c].fail BY <1>11 DEF Same
      <4>3. /\ y.client = e[c].client /\ y.noid = e[c].noid /\ y.fail = e[c].fail
        BY <1>9, <1>10, <3>2
      <4> QED BY <2>1, <3>2, <4>1, <4>2, <4>3
    <3> QED BY <3>1, <3>2
  <2> QED BY <2>2, <2>3, <2>4 DEF Started
<1> QED BY <1>5, <1>13, <1>14

\* Nothing changes but the place in a list of workers, and its link.
Kept(x, y) ==
    /\ y.sock = x.sock /\ y.status = x.status /\ y.noid = x.noid /\ y.fail = x.fail
    /\ y.id = x.id /\ y.json = x.json /\ y.client = x.client /\ y.wm = x.wm

\* A worker that subscribes under another name leaves its list.
LEMMA LeaveOtherSound ==
    ASSUME NEW X, NEW cs, NEW ws, NEW Q, Sound(X, cs, ws, Q), NEW w \in Conns, NEW n
    PROVE  /\ Sound(X, LeaveOther(cs, w, n), ws, Q)
           /\ \A d \in Conns : Kept(cs[d], LeaveOther(cs, w, n)[d])
<1>1. cs \in Objects BY DEF Sound
<1>2. PICK e : e = PopItem(cs, w) OBVIOUS
<1>3. e \in Objects /\ Sound(X, e, ws, Q) /\ \A d \in Conns : Kept(cs[d], e[d])
  <2>1. Sound(X, e, ws, Q) BY <1>2, PopSound
  <2>2. /\ e \in Objects /\ \A d \in Conns : d # w => e[d] = cs[d]
        /\ e[w].status = cs[w].status /\ e[w].sock = cs[w].sock /\ e[w].noid = cs[w].noid
        /\ e[w].fail = cs[w].fail /\ e[w].id = cs[w].id /\ e[w].json = cs[w].json
        /\ e[w].client = cs[w].client /\ e[w].wm = cs[w].wm
    BY <1>1, <1>2, PopDoes
  <2>3. Kept(cs[w], e[w]) BY <2>2 DEF Kept
  <2>4. \A d \in Conns : d # w => Kept(cs[d], e[d]) BY <2>2 DEF Kept
  <2> QED BY <2>1, <2>2, <2>3, <2>4
<1>4. CASE ~cs[w].wm /\ cs[w].item # None /\ cs[w].sub # n
  <2>1. PICK y : y = [e[w] EXCEPT !.dm = 0] OBVIOUS
  <2>2. e[w] \in ConnType BY <1>3 DEF Objects
  <2>3. y \in ConnType /\ Alike(e[w], y) /\ y.wm = e[w].wm
    <3>1. y \in ConnType BY <2>1, <2>2 DEF ConnType
    <3> QED BY <2>1, <2>2, <3>1 DEF ConnType, Alike, Same
  <2>4. PICK ds : ds = LeaveOther(cs, w, n) OBVIOUS
  <2>5. ds = [e EXCEPT ![w] = y] BY <1>2, <1>4, <2>1, <2>4 DEF LeaveOther
  <2>6. ds \in Objects /\ \A d \in Conns : ds[d] = IF d = w THEN y ELSE e[d]
    BY <1>3, <2>3, <2>5 DEF Objects
  <2>7. \A d \in Conns : Alike(e[d], ds[d]) /\ ds[d].wm = e[d].wm
    BY <2>3, <2>6 DEF Alike, Same
  <2>8. Sound(X, ds, ws, Q) BY <1>3, <2>6, <2>7, AlikeSound
  <2>9. ASSUME NEW d \in Conns PROVE Kept(cs[d], ds[d])
    <3>1. Kept(cs[d], e[d]) /\ Alike(e[d], ds[d]) /\ ds[d].wm = e[d].wm BY <1>3, <2>7
    <3> QED BY <3>1 DEF Kept, Alike, Same
  <2> QED BY <2>4, <2>8, <2>9
<1>5. CASE ~(~cs[w].wm /\ cs[w].item # None /\ cs[w].sub # n)
  <2>1. LeaveOther(cs, w, n) = cs BY <1>5 DEF LeaveOther
  <2> QED BY <2>1 DEF Kept
<1> QED BY <1>4, <1>5

\* A worker takes its place in a list of connected workers.
LEMMA RegisterSound ==
    ASSUME NEW X, NEW cs, NEW ws, NEW Q, Sound(X, cs, ws, Q), NEW w \in Conns, NEW n \in Names,
           cs[w].sock = "open"
    PROVE  /\ Sound(X, Register(cs, w, n), ws, Q)
           /\ \A d \in Conns : Kept(cs[d], Register(cs, w, n)[d])
<1>1. cs \in Objects /\ cs[w] \in ConnType /\ cs[w].link \in Int
  BY ObjectFields DEF Sound, Objects
<1>2. CASE cs[w].item # None
  <2>1. Register(cs, w, n) = cs BY <1>2 DEF Register
  <2> QED BY <2>1 DEF Kept
<1>3. CASE cs[w].item = None
  <2>1. PICK e : e = IF cs[w].wm \/ cs[w].noid \/ cs[w].status = "worker_wait_job"
                     THEN PushItem(cs, w, n) ELSE cs
    OBVIOUS
  <2>2. e \in Objects /\ Sound(X, e, ws, Q) /\ \A d \in Conns : Kept(cs[d], e[d])
    <3>1. CASE cs[w].wm \/ cs[w].noid \/ cs[w].status = "worker_wait_job"
      <4>1. PICK y : y = [cs[w] EXCEPT !.item = n, !.link = @ + 1] OBVIOUS
      <4>2. y \in ConnType /\ Kept(cs[w], y) /\ y.item = n /\ y.link = cs[w].link + 1
        <5>1. [cs[w] EXCEPT !.item = n] \in ConnType BY <1>1, FieldType
        <5>2. cs[w].link + 1 \in Int BY <1>1
        <5>3. [[cs[w] EXCEPT !.item = n] EXCEPT !.link = cs[w].link + 1] \in ConnType
          BY <5>1, <5>2, FieldType
        <5>4. y = [[cs[w] EXCEPT !.item = n] EXCEPT !.link = cs[w].link + 1]
          BY <1>1, <4>1 DEF ConnType
        <5> QED BY <1>1, <4>1, <5>3, <5>4 DEF ConnType, Kept
      <4>3. e = [cs EXCEPT ![w] = y] BY <2>1, <3>1, <4>1 DEF PushItem
      <4>4. e \in Objects /\ \A d \in Conns : e[d] = IF d = w THEN y ELSE cs[d]
        BY <1>1, <4>2, <4>3 DEF Objects
      <4>5. Weight(y) = Weight(cs[w])
        <5>1. n # None BY NoneAssumption
        <5>2. y.sock = cs[w].sock BY <4>2 DEF Kept
        <5> QED BY <1>1, <1>3, <4>2, <5>1, <5>2 DEF Weight
      <4>6. Fits(X, w, cs[w]) BY DEF Sound
      <4>7. Fits(X, w, y) BY <4>2, <4>6 DEF Fits, Kept
      <4>8. Quiet(X, w, cs[w], y, NoPlace(cs, ws, Q, w)) BY <4>2, <4>5, <4>7 DEF Quiet, Kept
      <4>9. Sound(X, e, ws, Q) BY <4>2, <4>3, <4>8, QuietOne
      <4> QED BY <4>2, <4>4, <4>9 DEF Kept
    <3>2. CASE ~(cs[w].wm \/ cs[w].noid \/ cs[w].status = "worker_wait_job")
      <4>1. e = cs BY <2>1, <3>2
      <4> QED BY <1>1, <4>1 DEF Kept
    <3> QED BY <3>1, <3>2
  <2>3. PICK ds : ds = Register(cs, w, n) OBVIOUS
  <2>4. CASE ~cs[w].wm /\ cs[w].noid
    <3>1. PICK y : y = [e[w] EXCEPT !.sub = n] OBVIOUS
    <3>2. e[w] \in ConnType BY <2>2 DEF Objects
    <3>3. y \in ConnType /\ Alike(e[w], y) /\ y.wm = e[w].wm
      <4>1. y \in ConnType BY <3>1, <3>2, FieldType
      <4> QED BY <3>1, <3>2, <4>1 DEF ConnType, Alike, Same
    <3>4. ds = [e EXCEPT ![w] = y] BY <1>3, <2>1, <2>3, <2>4, <3>1 DEF Register
    <3>5. ds \in Objects /\ \A d \in Conns : ds[d] = IF d = w THEN y ELSE e[d]
      BY <2>2, <3>3, <3>4 DEF Objects
    <3>6. \A d \in Conns : Alike(e[d], ds[d]) /\ ds[d].wm = e[d].wm
      BY <3>3, <3>5 DEF Alike, Same
    <3>7. Sound(X, ds, ws, Q) BY <2>2, <3>5, <3>6, AlikeSound
    <3>8. ASSUME NEW d \in Conns PROVE Kept(cs[d], ds[d])
      <4>1. Kept(cs[d], e[d]) /\ Alike(e[d], ds[d]) /\ ds[d].wm = e[d].wm BY <2>2, <3>6
      <4> QED BY <4>1 DEF Kept, Alike, Same
    <3> QED BY <2>3, <3>7, <3>8
  <2>5. CASE ~(~cs[w].wm /\ cs[w].noid)
    <3>1. Register(cs, w, n) = e BY <1>3, <2>1, <2>5 DEF Register
    <3> QED BY <2>2, <3>1
  <2> QED BY <2>4, <2>5
<1> QED BY <1>2, <1>3

-----------------------------------------------------------------------------
(* Closing a connection *)

\* The entry of wait_response that a closing connection clears is its own.
LEMMA EntryIsOwn ==
    ASSUME OwnHeaderIds, NEW X, NEW cs, NEW ws, NEW Q, Sound(X, cs, ws, Q), NEW c \in Conns,
           cs[c].sock = "open", cs[c].status = "client_wait_result", cs[c].id # None
    PROVE  cs[c].id \in AllIds /\ ws[cs[c].id] \in {None, c}
<1>1. PICK i : i = cs[c].id OBVIOUS
<1>2. i \in AllIds BY <1>1, ObjectFields DEF Sound, Objects
<1>3. i \in HeaderIds(c) \/ ws[i] = c BY <1>1 DEF Sound, Identified
<1>4. ASSUME i \in HeaderIds(c), ws[i] # None, ws[i] # c PROVE FALSE
  <2>1. i \in CallIds(ws[i]) BY <1>2, <1>4 DEF Sound, Identified
  <2>2. ws[i] \in Conns BY <1>2, <1>4 DEF Sound, WaitType
  <2>3. HeaderIds(c) \cap CallIds(ws[i]) = {} BY <1>4, <2>2 DEF OwnHeaderIds
  <2> QED BY <1>4, <2>1, <2>3
<1> QED BY <1>1, <1>2, <1>3, <1>4

\* A socket is closed; the link for it is still held.
LEMMA ClosingSound ==
    ASSUME NEW cs, NEW ws, NEW Q, Sound({}, cs, ws, Q), NEW c \in Conns, NEW ds \in Objects,
           cs[c].sock = "open", ds[c].sock = "closed", cs[c].item = None, ds[c].item = None,
           ds[c].link = cs[c].link, ds[c].client = cs[c].client, ds[c].fail = cs[c].fail,
           ds[c].noid = cs[c].noid, \A d \in Conns : d # c => Alike(cs[d], ds[d])
    PROVE  Sound({c}, ds, ws, Q)
<1>1. cs \in Objects /\ ws \in WaitType /\ Q \in Queues /\ Counted({}, cs, ws, Q) BY DEF Sound
<1>2. ASSUME NEW d \in Conns
      PROVE  /\ ds[d].client = cs[d].client /\ ds[d].noid = cs[d].noid
             /\ ds[d].item = cs[d].item
             /\ d # c => /\ ds[d].status = cs[d].status /\ ds[d].json = cs[d].json
                         /\ ds[d].id = cs[d].id /\ ds[d].sock = cs[d].sock
  <2>1. CASE d = c BY <2>1
  <2>2. CASE d # c
    <3>1. Alike(cs[d], ds[d]) BY <2>2
    <3> QED BY <3>1 DEF Alike, Same
  <2> QED BY <2>1, <2>2
<1>3. ASSUME NEW d \in Conns PROVE Fits({c}, d, ds[d])
  <2>1. Fits({}, d, cs[d]) BY DEF Sound
  <2>2. CASE d = c BY <2>1, <2>2 DEF Fits
  <2>3. CASE d # c
    <3>1. Alike(cs[d], ds[d]) BY <2>3
    <3> QED BY <2>1, <2>3, <3>1 DEF Fits, Alike, Same
  <2> QED BY <2>2, <2>3
<1>4. ASSUME NEW d \in Conns
      PROVE  /\ Weight(cs[d]) \in Int
             /\ Weight(ds[d]) = Weight(cs[d]) + (IF d \in {c} THEN 1 ELSE 0)
  <2>1. cs[d].link \in Int BY <1>1, ObjectFields DEF Objects
  <2>2. Weight(cs[d]) \in Int BY <1>1, WeightType DEF Objects
  <2>3. CASE d = c BY <2>1, <2>2, <2>3 DEF Weight
  <2>4. CASE d # c
    <3>1. Alike(cs[d], ds[d]) BY <2>4
    <3>2. Weight(ds[d]) = Weight(cs[d]) BY <3>1, WeightAlike DEF Alike, Same
    <3> QED BY <2>2, <2>4, <3>2
  <2> QED BY <2>3, <2>4
<1>5. Counted({c}, ds, ws, Q)
  <2>1. Countable(ws) BY <1>1 DEF Counted
  <2> SUFFICES ASSUME NEW d \in Conns
               PROVE  /\ Bounded(Q, d)
                      /\ Excess(ds, ws, d) = QueueCount(Q, d) + (IF d \in {c} THEN 1 ELSE 0)
    BY <2>1 DEF Counted
  <2>2. /\ Bounded(Q, d)
        /\ Excess(cs, ws, d) = QueueCount(Q, d) + (IF d \in {} THEN 1 ELSE 0)
    BY <1>1 DEF Counted
  <2>3. Excess(ds, ws, d) = Excess(cs, ws, d) + Weight(ds[d]) - Weight(cs[d])
    BY <1>1, <1>2, <2>1, ExcessWeight
  <2>4. Excess(cs, ws, d) \in Int BY <1>1, <2>1, ExcessType
  <2>5. QueueCount(Q, d) \in Int
    BY <2>2, FS_CardinalityType DEF Bounded, QueueCount
  <2> HIDE DEF Bounded
  <2> QED BY <1>4, <2>2, <2>3, <2>4, <2>5
<1>6. Calm(cs, ws, Q, ds, ws, Q)
  <2>1. ASSUME NEW n \in Names
        PROVE  /\ Fewer(Q[n].clients, Q[n].clients)
               /\ \A i \in DOMAIN Q[n].workers : Q[n].workers[i] \in Members(Q[n].workers)
    BY FewerSame DEF Members
  <2>2. ASSUME NEW d \in Conns
        PROVE  /\ ds[d].client = cs[d].client /\ ds[d].noid = cs[d].noid
               /\ ds[d].sock = cs[d].sock \/ (cs[d].sock = "open" /\ ds[d].sock = "closed")
               /\ ds[d].item = cs[d].item
               /\ ds[d].sock = "open" =>
                     /\ ds[d].status = cs[d].status /\ ds[d].json = cs[d].json
                     /\ ds[d].id = cs[d].id
    BY <1>2
  <2> HIDE DEF NoPlace, Own
  <2> QED BY <2>1, <2>2 DEF Calm
<1> QED BY <1>1, <1>3, <1>5, <1>6, CalmSound

\* Loop::on_disconnect up to the entry of wait_response.
LEMMA DropOwnSound ==
    ASSUME OwnHeaderIds, NEW cs, NEW ws, NEW Q, Sound({}, cs, ws, Q), NEW c \in Conns,
           cs[c].sock = "open"
    PROVE  /\ Sound({c}, DropOwn(cs, ws, c), DropEntry(cs, ws, c), Q)
           /\ DropOwn(cs, ws, c)[c].sock = "closed" /\ DropOwn(cs, ws, c)[c].item = None
<1>1. PICK p : p = PopItem(cs, c) OBVIOUS
<1>2. cs \in Objects BY DEF Sound
<1>3. /\ p \in Objects /\ Sound({}, p, ws, Q)
      /\ p[c].item = None /\ p[c].sock = "open" /\ p[c].status = cs[c].status
      /\ p[c].id = cs[c].id
  <2>1. Sound({}, p, ws, Q) BY <1>1, PopSound
  <2>2. /\ p \in Objects /\ p[c].item = None /\ p[c].status = cs[c].status
        /\ p[c].sock = cs[c].sock /\ p[c].id = cs[c].id
    BY <1>1, <1>2, PopDoes
  <2> QED BY <2>1, <2>2
<1>4. PICK a \in Int : a = p[c].link BY <1>3, ObjectFields DEF Objects
<1>5. PICK y : y = [p[c] EXCEPT !.sock = "closed", !.wr = FALSE, !.dm = 0, !.out = 0] OBVIOUS
<1>6. /\ y \in ConnType /\ y.sock = "closed" /\ y.item = None /\ y.link = a
      /\ y.client = p[c].client /\ y.fail = p[c].fail /\ y.noid = p[c].noid
      /\ y.status = cs[c].status /\ y.id = cs[c].id
  <2>1. p[c] \in ConnType BY <1>3 DEF Objects
  <2>2. PICK y1 : y1 = [p[c] EXCEPT !.sock = "closed", !.wr = FALSE] OBVIOUS
  <2>3. y1 \in ConnType BY <2>1, <2>2 DEF ConnType
  <2>4. PICK y2 : y2 = [y1 EXCEPT !.dm = 0] OBVIOUS
  <2>5. y2 \in ConnType BY <2>3, <2>4 DEF ConnType
  <2>6. y = [y2 EXCEPT !.out = 0] BY <1>5, <2>2, <2>4
  <2>7. y \in ConnType BY <2>5, <2>6 DEF ConnType
  <2> QED BY <1>3, <1>4, <1>5, <2>1, <2>7 DEF ConnType
<1>7. PICK q : q = [p EXCEPT ![c] = y] OBVIOUS
<1>8. q \in Objects /\ \A d \in Conns : q[d] = IF d = c THEN y ELSE p[d]
  BY <1>3, <1>6, <1>7 DEF Objects
<1>9. Sound({c}, q, ws, Q)
  <2>1. \A d \in Conns : d # c => Alike(p[d], q[d]) BY <1>8 DEF Alike, Same
  <2> QED BY <1>3, <1>4, <1>6, <1>8, <2>1, ClosingSound
<1>10. PICK b : b = (cs[c].status = "client_wait_result" /\ cs[c].id # None
                       /\ ws[cs[c].id] # None)
  OBVIOUS
<1>11. PICK ds, vs : ds = DropOwn(cs, ws, c) /\ vs = DropEntry(cs, ws, c) OBVIOUS
<1>12. CASE ~(cs[c].status = "client_wait_result" /\ cs[c].id # None /\ ws[cs[c].id] # None)
  <2>1. ds = q
    <3>1. ds = [p EXCEPT ![c].sock = "closed", ![c].wr = FALSE, ![c].dm = 0, ![c].out = 0,
                         ![c].link = a]
      BY <1>1, <1>3, <1>4, <1>11, <1>12 DEF DropOwn, Objects, ConnType
    <3>2. y = [p[c] EXCEPT !.sock = "closed", !.wr = FALSE, !.dm = 0, !.out = 0, !.link = a]
      BY <1>3, <1>4, <1>5 DEF Objects, ConnType
    <3> QED BY <1>3, <1>7, <3>1, <3>2 DEF Objects
  <2>2. vs = ws
    <3>1. ws \in WaitType BY DEF Sound
    <3>2. cs[c].id # None => cs[c].id \in AllIds BY <1>2, ObjectFields DEF Objects
    <3> QED BY <1>11, <1>12, <3>1, <3>2 DEF DropEntry, WaitType
  <2>3. q[c] = y BY <1>8
  <2> QED BY <1>6, <1>9, <1>11, <2>1, <2>2, <2>3
<1>13. CASE cs[c].status = "client_wait_result" /\ cs[c].id # None /\ ws[cs[c].id] # None
  <2>1. PICK i : i = cs[c].id OBVIOUS
  <2>2. i \in AllIds /\ ws[i] = c BY <1>13, <2>1, EntryIsOwn
  <2>3. PICK z : z = [y EXCEPT !.link = a - 1] OBVIOUS
  <2>4. z \in ConnType /\ z.sock = y.sock /\ z.item = y.item /\ z.noid = y.noid
        /\ z.fail = y.fail /\ z.client = y.client /\ z.link = a - 1
    <3>1. a - 1 \in Int OBVIOUS
    <3>2. z \in ConnType BY <1>6, <2>3, <3>1, FieldType
    <3> QED BY <1>6, <2>3, <3>2 DEF ConnType
  <2>5. ds = [q EXCEPT ![c] = z]
    <3>1. ds = [p EXCEPT ![c].sock = "closed", ![c].wr = FALSE, ![c].dm = 0, ![c].out = 0,
                         ![c].link = @ - 1]
      BY <1>1, <1>11, <1>13 DEF DropOwn
    <3>2. [q EXCEPT ![c] = z] = [p EXCEPT ![c] = z] BY <1>3, <1>7 DEF Objects
    <3>3. z = [p[c] EXCEPT !.sock = "closed", !.wr = FALSE, !.dm = 0, !.out = 0, !.link = @ - 1]
      BY <1>3, <1>4, <1>5, <2>3 DEF Objects, ConnType
    <3> QED BY <1>3, <3>1, <3>2, <3>3 DEF Objects
  <2>6. ds \in Objects /\ \A d \in Conns : ds[d] = IF d = c THEN z ELSE q[d]
    BY <1>8, <2>4, <2>5 DEF Objects
  <2>7. vs \in WaitType /\ \A j \in AllIds : vs[j] = IF j = i THEN None ELSE ws[j]
    <3>1. ws \in WaitType BY DEF Sound
    <3>2. vs = [ws EXCEPT ![i] = None] BY <1>11, <1>13, <2>1 DEF DropEntry
    <3> QED BY <2>2, <3>1, <3>2 DEF WaitType
  <2>8. EntryCleared(q, ds, ws, vs, i, c)
    <3>1. \A d \in Conns : d # c => Alike(q[d], ds[d]) BY <2>6 DEF Alike, Same
    <3>2. ds[c] = z /\ q[c] = y BY <1>8, <2>6
    <3> QED BY <1>6, <2>2, <2>4, <2>7, <3>1, <3>2 DEF EntryCleared
  <2>9. Sound({c}, ds, vs, Q) BY <1>9, <2>2, <2>6, <2>7, <2>8, EntrySound, Zenon
  <2>10. ds[c] = z BY <2>6
  <2> QED BY <1>6, <1>11, <2>4, <2>9, <2>10
<1> QED BY <1>12, <1>13

\* The client of a closed worker is told, and let go.
LEMMA FailClientSound ==
    ASSUME NEW cs, NEW ws, NEW Q, NEW c \in Conns, Sound({c}, cs, ws, Q)
    PROVE  /\ Sound({c}, FailClient(cs, ws, c), FailEntry(cs, ws, c), Q)
           /\ FailClient(cs, ws, c)[c].client = None
           /\ FailClient(cs, ws, c)[c].sock = cs[c].sock
           /\ FailClient(cs, ws, c)[c].item = cs[c].item
<1>1. PICK ds, vs, d : /\ ds = FailClient(cs, ws, c) /\ vs = FailEntry(cs, ws, c)
                       /\ d = cs[c].client
  OBVIOUS
<1>2. cs \in Objects /\ ws \in WaitType /\ Fits({c}, c, cs[c]) BY DEF Sound
<1>3. CASE d = None
  <2>1. ds = cs BY <1>1, <1>3 DEF FailClient
  <2>2. vs = ws BY <1>1, <1>3 DEF FailEntry
  <2> QED BY <1>1, <1>3, <2>1, <2>2
<1>4. ASSUME d # None PROVE cs[c].fail /\ d \in Conns
  BY <1>1, <1>2, <1>4, ObjectFields DEF Fits, Objects
<1>5. CASE d # None /\ cs[c].noid
  <2>1. PICK e : e = Unserve(cs, c) OBVIOUS
  <2>2. /\ Sound({c}, e, ws, Q)
        /\ cs[d].sock = "open" => NoPlace(e, ws, Q, d)
    BY <1>1, <1>5, <2>1, UnserveSound
  <2>3. /\ e \in Objects
        /\ \A x \in Conns : /\ Same(cs[x], e[x])
                            /\ e[x].link = cs[x].link - (IF x = d THEN 1 ELSE 0)
                            /\ e[x].client = IF x = c THEN None ELSE cs[x].client
    BY <1>1, <1>2, <1>5, <2>1, UnserveDoes
  <2>4. PICK s \in Statuses : s = "net" BY Values
  <2>5. PICK t : t = SetStatus(e, d, s) OBVIOUS
  <2>6. /\ t \in Objects /\ \A x \in Conns : x # d => t[x] = e[x]
        /\ t[d].status = s /\ Restated(e[d], t[d])
    BY <1>4, <1>5, <2>3, <2>5, StatusDoes
  <2>7. Sound({c}, t, ws, Q)
    <3>1. e[d].sock = cs[d].sock BY <1>4, <1>5, <2>3 DEF Same
    <3>2. e[d].sock = "open" => NoPlace(e, ws, Q, d) BY <2>2, <3>1
    <3>3. s \notin WaitsFor /\ s \notin Unclaimed /\ s # "client_wait_result"
      BY <2>4 DEF WaitsFor, Unclaimed
    <3> HIDE DEF NoPlace
    <3>4. Sound({c}, SetStatus(e, d, s), ws, Q) BY <1>4, <1>5, <2>2, <3>2, <3>3, StatusSound
    <3> QED BY <2>5, <3>4
  <2>8. PICK s0 : s0 = IF IsClosed(cs, d) THEN cs ELSE Send(cs, d) OBVIOUS
  <2>9. s0 \in Objects /\ \A x \in Conns : Alike(cs[x], s0[x])
    <3>1. CASE IsClosed(cs, d) BY <1>2, <2>8, <3>1 DEF Alike, Same
    <3>2. CASE ~IsClosed(cs, d)
      <4>1. s0 = Send(cs, d) BY <2>8, <3>2
      <4>2. /\ Send(cs, d) \in Objects
            /\ \A x \in Conns : Alike(cs[x], Send(cs, d)[x])
        BY <1>2, <1>4, <1>5, SendDoes
      <4> QED BY <4>1, <4>2
    <3> QED BY <3>1, <3>2
  <2>10. PICK s1 : s1 = SetStatus(s0, d, s) OBVIOUS
  <2>11. /\ s1 \in Objects /\ \A x \in Conns : x # d => s1[x] = s0[x]
         /\ s1[d].status = s /\ Restated(s0[d], s1[d])
    BY <1>4, <1>5, <2>9, <2>10, StatusDoes
  <2>12. PICK s2 : s2 = Unlink(s1, d) OBVIOUS
  <2>13. /\ s2 \in Objects
         /\ \A x \in Conns : /\ Same(s1[x], s2[x]) /\ s2[x].client = s1[x].client
                             /\ s2[x].link = s1[x].link - (IF x = d THEN 1 ELSE 0)
    BY <1>4, <1>5, <2>11, <2>12, UnlinkDoes
  <2>14. ds = [s2 EXCEPT ![c].client = None]
    <3>1. ~(~cs[c].fail \/ d = None) BY <1>4, <1>5
    <3> QED BY <1>1, <1>5, <2>4, <2>8, <2>10, <2>12, <3>1 DEF FailClient
  <2>15. /\ ds \in Objects
         /\ \A x \in Conns : /\ Same(s2[x], ds[x]) /\ ds[x].link = s2[x].link
                             /\ ds[x].client = IF x = c THEN None ELSE s2[x].client
    <3>1. s2 \in Objects /\ None \in Conns \cup {None} BY <2>13
    <3>2. LET v == [s2 EXCEPT ![c].client = None]
          IN  /\ v \in Objects
              /\ \A x \in Conns : /\ Same(s2[x], v[x]) /\ v[x].link = s2[x].link
                                  /\ v[x].client = IF x = c THEN None ELSE s2[x].client
      BY <3>1, ClientDoes
    <3> QED BY <2>14, <3>2, Zenon
  <2>16. ASSUME NEW x \in Conns PROVE Alike(t[x], ds[x])
    <3>1. Same(cs[x], e[x]) /\ Alike(cs[x], s0[x]) /\ Same(s1[x], s2[x]) /\ Same(s2[x], ds[x])
      BY <2>3, <2>9, <2>13, <2>15
    <3>2. /\ e[x].client = IF x = c THEN None ELSE cs[x].client
          /\ ds[x].client = IF x = c THEN None ELSE s1[x].client
          /\ e[x].link = cs[x].link - (IF x = d THEN 1 ELSE 0)
          /\ ds[x].link = s1[x].link - (IF x = d THEN 1 ELSE 0)
      BY <2>3, <2>13, <2>15
    <3>3. CASE x = d
      <4>1. Restated(e[x], t[x]) /\ Restated(s0[x], s1[x]) /\ t[x].status = s1[x].status
        BY <2>6, <2>11, <3>3
      <4> QED BY <3>1, <3>2, <4>1 DEF Alike, Same, Restated
    <3>4. CASE x # d
      <4>1. t[x] = e[x] /\ s1[x] = s0[x] BY <2>6, <2>11, <3>4
      <4> QED BY <3>1, <3>2, <4>1 DEF Alike, Same
    <3> QED BY <3>3, <3>4
  <2>17. Sound({c}, ds, ws, Q) BY <2>7, <2>15, <2>16, AlikeSound
  <2>18. vs = ws BY <1>1, <1>5 DEF FailEntry
  <2>19. ds[c].client = None /\ ds[c].sock = cs[c].sock /\ ds[c].item = cs[c].item
    <3>1. Same(cs[c], e[c]) /\ Alike(t[c], ds[c]) /\ ds[c].client = None BY <2>3, <2>15, <2>16
    <3>2. t[c].sock = e[c].sock /\ t[c].item = e[c].item BY <2>6 DEF Restated
    <3> QED BY <3>1, <3>2 DEF Alike, Same
  <2> QED BY <1>1, <2>17, <2>18, <2>19
<1>6. CASE d # None /\ ~cs[c].noid
  <2>0. cs[c].fail /\ d \in Conns /\ ~(~cs[c].fail \/ d = None) BY <1>4, <1>6
  <2>1. PICK R : R = IF cs[d].id = None \/ ws[cs[d].id] = None THEN cs
                     ELSE ResultClient(cs, ws, cs[d].id)
    OBVIOUS
  <2>2. ds = [Unlink(R, d) EXCEPT ![c].client = None] BY <1>1, <1>6, <2>0, <2>1 DEF FailClient
  <2>3. cs[d].id # None => cs[d].id \in AllIds BY <1>2, <2>0, ObjectFields DEF Objects
  <2>4. /\ R \in Objects /\ Sound({c}, R, vs, Q)
        /\ R[c].client = d /\ R[c].sock = cs[c].sock /\ R[c].item = cs[c].item
    <3>1. CASE cs[d].id = None \/ ws[cs[d].id] = None
      <4>1. R = cs BY <2>1, <3>1
      <4>2. vs = ws
        <5>1. CASE cs[d].id = None BY <1>1, <5>1 DEF FailEntry
        <5>2. CASE cs[d].id # None
          <6>1. vs = [ws EXCEPT ![cs[d].id] = None] BY <1>1, <1>6, <2>0, <5>2 DEF FailEntry
          <6> QED BY <1>2, <2>3, <3>1, <5>2, <6>1 DEF WaitType
        <5> QED BY <5>1, <5>2
      <4> QED BY <1>1, <1>2, <4>1, <4>2
    <3>2. CASE ~(cs[d].id = None \/ ws[cs[d].id] = None)
      <4>1. PICK i : i = cs[d].id OBVIOUS
      <4>2. i \in AllIds /\ ws[i] # None /\ ws[i] \in Conns
        BY <1>2, <2>3, <3>2, <4>1 DEF WaitType
      <4>3. R = ResultClient(cs, ws, i) BY <2>1, <3>2, <4>1
      <4>4. vs = [ws EXCEPT ![i] = None] BY <1>1, <1>6, <2>0, <3>2, <4>1 DEF FailEntry
      <4>5. Sound({c}, ResultClient(cs, ws, i), [ws EXCEPT ![i] = None], Q)
        BY <4>2, ResultSound, Zenon
      <4>6. PICK x \in Conns : x = ws[i] BY <4>2
      <4>7. /\ R \in Objects
            /\ \A v \in Conns : v # x => Alike(cs[v], R[v])
            /\ R[x].sock = cs[x].sock /\ R[x].item = cs[x].item /\ R[x].client = cs[x].client
        BY <1>2, <4>3, <4>6, ResultDoes
      <4>8. R[c].sock = cs[c].sock /\ R[c].item = cs[c].item /\ R[c].client = cs[c].client
        <5>1. CASE c = x BY <4>7, <5>1
        <5>2. CASE c # x
          <6>1. Alike(cs[c], R[c]) BY <4>7, <5>2
          <6> QED BY <6>1 DEF Alike, Same
        <5> QED BY <5>1, <5>2
      <4>9. Sound({c}, R, vs, Q) BY <4>3, <4>4, <4>5, Zenon
      <4> QED BY <1>1, <4>7, <4>8, <4>9
    <3> QED BY <3>1, <3>2
  <2>5. ds = Unserve(R, c) BY <2>2, <2>4 DEF Unserve
  <2>6. Sound({c}, Unserve(R, c), vs, Q) BY <1>6, <2>4, UnserveSound
  <2>7. /\ Same(R[c], Unserve(R, c)[c])
        /\ Unserve(R, c)[c].client = IF c = c THEN None ELSE R[c].client
    BY <1>6, <2>4, UnserveDoes
  <2> QED BY <1>1, <2>4, <2>5, <2>6, <2>7 DEF Same
<1> QED BY <1>3, <1>5, <1>6

\* The link of the socket is given back at last.
LEMMA ClosedSound ==
    ASSUME NEW cs, NEW ws, NEW Q, NEW c \in Conns, Sound({c}, cs, ws, Q),
           cs[c].sock = "closed", cs[c].client = None, cs[c].item = None
    PROVE  Sound({}, Unlink(cs, c), ws, Q)
<1>1. PICK ds : ds = Unlink(cs, c) OBVIOUS
<1>2. cs \in Objects /\ ws \in WaitType /\ Q \in Queues /\ Counted({c}, cs, ws, Q) BY DEF Sound
<1>3. /\ ds \in Objects
      /\ \A d \in Conns : /\ Same(cs[d], ds[d]) /\ ds[d].client = cs[d].client
                          /\ ds[d].link = cs[d].link - (IF d = c THEN 1 ELSE 0)
  BY <1>1, <1>2, UnlinkDoes
<1>4. ASSUME NEW d \in Conns PROVE Fits({}, d, ds[d])
  <2>1. Fits({c}, d, cs[d]) BY DEF Sound
  <2>2. Same(cs[d], ds[d]) /\ ds[d].client = cs[d].client BY <1>3
  <2>3. CASE d = c BY <2>1, <2>2, <2>3 DEF Fits, Same
  <2>4. CASE d # c BY <2>1, <2>2, <2>4 DEF Fits, Same
  <2> QED BY <2>3, <2>4
<1>5. ASSUME NEW d \in Conns
      PROVE  /\ Weight(cs[d]) \in Int
             /\ Weight(ds[d]) = Weight(cs[d]) - (IF d \in {c} THEN 1 ELSE 0)
  <2>1. cs[d] \in ConnType /\ cs[d].link \in Int /\ Weight(cs[d]) \in Int
    BY <1>2, ObjectFields, WeightType DEF Objects
  <2>2. Same(cs[d], ds[d]) BY <1>3
  <2>3. CASE d = c
    <3>1. ds[d].link = cs[d].link + (-1) BY <1>3, <2>1, <2>3
    <3>2. Weight(ds[d]) = Weight(cs[d]) + (-1) BY <2>1, <2>2, <3>1, WeightSame
    <3> QED BY <2>1, <2>3, <3>2
  <2>4. CASE d # c
    <3>1. ds[d].link = cs[d].link + 0 BY <1>3, <2>1, <2>4
    <3>2. Weight(ds[d]) = Weight(cs[d]) + 0 BY <2>1, <2>2, <3>1, WeightSame
    <3> QED BY <2>1, <2>4, <3>2
  <2> QED BY <2>3, <2>4
<1>6. Counted({}, ds, ws, Q)
  <2>1. Countable(ws) BY <1>2 DEF Counted
  <2> SUFFICES ASSUME NEW d \in Conns
               PROVE  /\ Bounded(Q, d)
                      /\ Excess(ds, ws, d) = QueueCount(Q, d) + (IF d \in {} THEN 1 ELSE 0)
    BY <2>1 DEF Counted
  <2>2. /\ Bounded(Q, d)
        /\ Excess(cs, ws, d) = QueueCount(Q, d) + (IF d \in {c} THEN 1 ELSE 0)
    BY <1>2 DEF Counted
  <2>3. Excess(ds, ws, d) = Excess(cs, ws, d) + Weight(ds[d]) - Weight(cs[d])
    BY <1>2, <1>3, <2>1, ExcessWeight
  <2>4. Excess(cs, ws, d) \in Int BY <1>2, <2>1, ExcessType
  <2>5. QueueCount(Q, d) \in Int
    BY <2>2, FS_CardinalityType DEF Bounded, QueueCount
  <2> HIDE DEF Bounded
  <2> QED BY <1>5, <2>2, <2>3, <2>4, <2>5
<1>7. Calm(cs, ws, Q, ds, ws, Q)
  <2>1. ASSUME NEW n \in Names
        PROVE  /\ Fewer(Q[n].clients, Q[n].clients)
               /\ \A i \in DOMAIN Q[n].workers : Q[n].workers[i] \in Members(Q[n].workers)
    BY FewerSame DEF Members
  <2>2. ASSUME NEW d \in Conns
        PROVE  /\ ds[d].client = cs[d].client /\ ds[d].noid = cs[d].noid
               /\ ds[d].sock = cs[d].sock /\ ds[d].item = cs[d].item
               /\ ds[d].status = cs[d].status /\ ds[d].json = cs[d].json /\ ds[d].id = cs[d].id
    BY <1>3 DEF Same
  <2> HIDE DEF NoPlace, Own
  <2> QED BY <2>1, <2>2 DEF Calm
<1>8. Sound({}, ds, ws, Q) BY <1>2, <1>3, <1>4, <1>6, <1>7, CalmSound
<1> QED BY <1>1, <1>8

\* Loop::_close.
LEMMA DisconnectSound ==
    ASSUME OwnHeaderIds, NEW cs, NEW ws, NEW Q, Sound({}, cs, ws, Q), NEW c \in Conns,
           cs[c].sock = "open", Disconnect(cs, ws, c)
    PROVE  /\ PointsToLive(conn', wait', Q)
           /\ alive' => Sound({}, conn', wait', Q)
<1>1. PICK cs1, ws1 : cs1 = DropOwn(cs, ws, c) /\ ws1 = DropEntry(cs, ws, c) OBVIOUS
<1>2. Sound({c}, cs1, ws1, Q) /\ cs1[c].sock = "closed" /\ cs1[c].item = None
  BY <1>1, DropOwnSound
<1>3. CASE DisconnectThrows(cs1, c)
  <2>1. conn' = cs1 /\ wait' = ws1 /\ alive' = FALSE BY <1>1, <1>3 DEF Disconnect
  <2>2. PointsToLive(cs1, ws1, Q) BY <1>2 DEF Sound
  <2> QED BY <2>1, <2>2
<1>4. CASE ~DisconnectThrows(cs1, c)
  <2>1. PICK cs2, ws2 : cs2 = FailClient(cs1, ws1, c) /\ ws2 = FailEntry(cs1, ws1, c) OBVIOUS
  <2>2. Sound({c}, cs2, ws2, Q) /\ cs2[c].client = None /\ cs2[c].sock = "closed"
        /\ cs2[c].item = None
    BY <1>2, <2>1, FailClientSound
  <2>3. PICK cs3 : cs3 = Unlink(cs2, c) OBVIOUS
  <2>4. Sound({}, cs3, ws2, Q) BY <2>2, <2>3, ClosedSound
  <2>5. conn' = cs3 /\ wait' = ws2 BY <1>1, <1>4, <2>1, <2>3 DEF Disconnect
  <2>6. PointsToLive(cs3, ws2, Q) BY <2>4 DEF Sound
  <2> QED BY <2>4, <2>5, <2>6
<1> QED BY <1>3, <1>4

-----------------------------------------------------------------------------
(* The queues *)

\* t is what is left of s without the positions R.
Left(s, t, R) ==
    /\ Fewer(s, t) /\ Among(s, t, R)
    /\ \A V : Cardinality(At(t, V)) = Cardinality(At(s, V)) - Lost(s, R, V)

LEMMA LeftKeep ==
    ASSUME NEW S, NEW s \in Seq(S), NEW R \in Parts(s), NEW t, t = Rest(s, R)
    PROVE  t \in Seq(S) /\ Left(s, t, R)
<1>1. t \in Seq(S) /\ Fewer(s, t) /\ Among(s, t, R) BY FewerKeep, Zenon
<1>2. \A V : Cardinality(At(t, V)) = Cardinality(At(s, V)) - Lost(s, R, V)
  <2> SUFFICES ASSUME NEW V
               PROVE  Cardinality(At(t, V)) = Cardinality(At(s, V)) - Lost(s, R, V)
    OBVIOUS
  <2> QED BY KeepCount, Zenon
<1> QED BY <1>1, <1>2 DEF Left

LEMMA LeftSame ==
    ASSUME NEW S, NEW s \in Seq(S)
    PROVE  Left(s, s, {})
<1>1. Fewer(s, s) /\ Among(s, s, {}) BY FewerSame DEF Among
<1>2. ASSUME NEW V PROVE Cardinality(At(s, V)) = Cardinality(At(s, V)) - Lost(s, {}, V)
  <2>1. {i \in {} : s[i] \in V} = {} OBVIOUS
  <2>2. Cardinality({}) = 0 BY FS_EmptySet
  <2>3. Cardinality(At(s, V)) \in Nat BY AtFinite
  <2>4. Lost(s, {}, V) = 0 BY <2>1, <2>2 DEF Lost
  <2> QED BY <2>3, <2>4
<1> QED BY <1>1, <1>2 DEF Left

LEMMA LeftNone ==
    ASSUME NEW S, NEW s \in Seq(S)
    PROVE  Left(s, << >>, DOMAIN s)
<1>2. DOMAIN << >> = {} OBVIOUS
<1>1. Fewer(s, << >>) /\ Among(s, << >>, DOMAIN s) BY <1>2, FewerNone DEF Among
<1>3. ASSUME NEW V
      PROVE  Cardinality(At(<< >>, V)) = Cardinality(At(s, V)) - Lost(s, DOMAIN s, V)
  <2>1. At(<< >>, V) = {} BY <1>2 DEF At
  <2>2. Cardinality({}) = 0 BY FS_EmptySet
  <2>3. {i \in DOMAIN s : s[i] \in V} = At(s, V) BY DEF At
  <2>4. Cardinality(At(s, V)) \in Nat BY AtFinite
  <2>5. /\ Cardinality(At(<< >>, V)) = 0
        /\ Lost(s, DOMAIN s, V) = Cardinality(At(s, V))
    BY <2>1, <2>2, <2>3 DEF Lost
  <2> QED BY <2>4, <2>5
<1> QED BY <1>1, <1>2, <1>3 DEF Left

\* Entries R of the workers and T of the messages of queue n are erased, and
\* each gives its link back.
Shrinks(cs, ds, Q, P, n, R, T) ==
    /\ \A m \in Names : m # n => P[m].workers = Q[m].workers /\ P[m].clients = Q[m].clients
    /\ Left(Q[n].workers, P[n].workers, R) /\ Left(Q[n].clients, P[n].clients, T)
    /\ \A d \in Conns :
          /\ Same(cs[d], ds[d]) /\ ds[d].client = cs[d].client
          /\ ds[d].link = cs[d].link - Lost(Q[n].workers, R, {d}) - Lost(Q[n].clients, T, Of(d))

LEMMA ShrinkCalm ==
    ASSUME NEW cs, NEW ds, NEW ws, NEW Q, NEW P, NEW n \in Names, NEW R, NEW T,
           Shrinks(cs, ds, Q, P, n, R, T)
    PROVE  Calm(cs, ws, Q, ds, ws, P)
<1>1. ASSUME NEW m \in Names
      PROVE  /\ Fewer(Q[m].clients, P[m].clients)
             /\ \A i \in DOMAIN P[m].workers : P[m].workers[i] \in Members(Q[m].workers)
  <2>1. CASE m = n
    <3>1. Left(Q[m].workers, P[m].workers, R) /\ Left(Q[m].clients, P[m].clients, T)
      BY <2>1 DEF Shrinks
    <3>2. Fewer(Q[m].clients, P[m].clients) BY <3>1 DEF Left
    <3>3. \A i \in DOMAIN P[m].workers : \E j \in DOMAIN Q[m].workers \ R :
             P[m].workers[i] = Q[m].workers[j]
      BY <3>1 DEF Left, Among
    <3> QED BY <3>2, <3>3 DEF Members
  <2>2. CASE m # n
    <3>1. P[m].workers = Q[m].workers /\ P[m].clients = Q[m].clients BY <2>2 DEF Shrinks
    <3>2. Fewer(Q[m].clients, Q[m].clients) BY FewerSame
    <3> QED BY <3>1, <3>2 DEF Members
  <2> QED BY <2>1, <2>2
<1>2. ASSUME NEW d \in Conns
      PROVE  /\ ds[d].client = cs[d].client /\ ds[d].noid = cs[d].noid
             /\ ds[d].sock = cs[d].sock /\ ds[d].item = cs[d].item
             /\ ds[d].status = cs[d].status /\ ds[d].json = cs[d].json /\ ds[d].id = cs[d].id
  <2>1. Same(cs[d], ds[d]) /\ ds[d].client = cs[d].client BY DEF Shrinks
  <2> QED BY <2>1 DEF Same
<1> HIDE DEF NoPlace, Own
<1> QED BY <1>1, <1>2 DEF Calm

\* The entries R of the workers and T of the clients of q are erased in p.
QueueLeft(q, p, R, T) ==
    /\ R \in Parts(q.workers) /\ T \in Parts(q.clients)
    /\ Left(q.workers, p.workers, R) /\ Left(q.clients, p.clients, T)

\* d loses a entries of a worker and b messages.
Losses(q, R, T, d, a, b) == a = Lost(q.workers, R, {d}) /\ b = Lost(q.clients, T, Of(d))

LEMMA ShrinkCount ==
    ASSUME NEW q \in QueueType, NEW p \in QueueType, NEW R, NEW T,
           QueueLeft(q, p, R, T), NEW d, NEW a, NEW b, Losses(q, R, T, d, a, b)
    PROVE  a \in Nat /\ b \in Nat /\ LineCount(p, d) = LineCount(q, d) - a - b
<1>1. q.workers \in Seq(Conns) /\ q.clients \in Seq(MsgType) BY LineCountType
<1>2. Cardinality(At(p.workers, {d})) = Cardinality(At(q.workers, {d})) - a
  BY DEF Left, QueueLeft, Losses
<1>3. Cardinality(At(p.clients, Of(d))) = Cardinality(At(q.clients, Of(d))) - b
  BY DEF Left, QueueLeft, Losses
<1>4. a \in Nat
  <2>1. R \in SUBSET DOMAIN q.workers BY DEF Parts, QueueLeft
  <2>2. Cardinality({i \in R : q.workers[i] \in {d}}) \in Nat BY <1>1, <2>1, AtFinite
  <2> QED BY <2>2 DEF Lost, Losses
<1>5. b \in Nat
  <2>1. T \in SUBSET DOMAIN q.clients BY DEF Parts, QueueLeft
  <2>2. Cardinality({i \in T : q.clients[i] \in Of(d)}) \in Nat BY <1>1, <2>1, AtFinite
  <2> QED BY <2>2 DEF Lost, Losses
<1>6. /\ Cardinality(At(q.workers, {d})) \in Nat /\ Cardinality(At(q.clients, Of(d))) \in Nat
  BY LineCountType
<1>7. LineCount(p, d) = LineCount(q, d) - a - b BY <1>2, <1>3, <1>4, <1>5, <1>6 DEF LineCount
<1> QED BY <1>4, <1>5, <1>7

\* Erasing entries keeps the count, and frees the clients of the messages.
LEMMA ShrinkSound ==
    ASSUME NEW cs, NEW ws, NEW Q, Sound({}, cs, ws, Q), NEW n \in Names,
           NEW R \in Parts(Q[n].workers), NEW T \in Parts(Q[n].clients),
           NEW ds \in Objects, NEW P \in Queues, Shrinks(cs, ds, Q, P, n, R, T)
    PROVE  /\ Sound({}, ds, ws, P)
           /\ \A d \in Conns :
                 cs[d].sock = "open" /\ (\E i \in T : Q[n].clients[i].conn = d)
                    => NoPlace(ds, ws, P, d)
<1>1. cs \in Objects /\ ws \in WaitType /\ Q \in Queues /\ Counted({}, cs, ws, Q) BY DEF Sound
<1>2. Q[n] \in QueueType /\ P[n] \in QueueType BY <1>1 DEF Queues
<1>3. ASSUME NEW d \in Conns
      PROVE  /\ ds[d].client = cs[d].client
             /\ Weight(ds[d]) = Weight(cs[d]) - LineCount(Q[n], d) + LineCount(P[n], d)
  <2>1. PICK a, b : a = Lost(Q[n].workers, R, {d}) /\ b = Lost(Q[n].clients, T, Of(d)) OBVIOUS
  <2>2. /\ a \in Nat /\ b \in Nat
        /\ LineCount(P[n], d) = LineCount(Q[n], d) - a - b
    <3>1. Left(Q[n].workers, P[n].workers, R) /\ Left(Q[n].clients, P[n].clients, T)
      BY DEF Shrinks
    <3>2. PICK q, p \in QueueType : q = Q[n] /\ p = P[n] BY <1>2
    <3>3. QueueLeft(q, p, R, T) BY <3>1, <3>2 DEF QueueLeft
    <3>4. Losses(q, R, T, d, a, b) BY <2>1, <3>2 DEF Losses
    <3>5. a \in Nat /\ b \in Nat /\ LineCount(p, d) = LineCount(q, d) - a - b
      BY <3>3, <3>4, ShrinkCount
    <3> QED BY <3>2, <3>5
  <2>3. Same(cs[d], ds[d]) /\ ds[d].client = cs[d].client /\ ds[d].link = cs[d].link - a - b
    BY <2>1 DEF Shrinks
  <2>4. cs[d] \in ConnType /\ cs[d].link \in Int /\ Weight(cs[d]) \in Int
    BY <1>1, ObjectFields, WeightType DEF Objects
  <2>5. ds[d].link = cs[d].link + (0 - a - b) /\ 0 - a - b \in Int BY <2>2, <2>3, <2>4
  <2>6. Weight(ds[d]) = Weight(cs[d]) + (0 - a - b) BY <2>3, <2>4, <2>5, WeightSame
  <2>7. LineCount(Q[n], d) \in Nat BY <1>2, LineCountType
  <2> QED BY <2>2, <2>3, <2>4, <2>6, <2>7
<1>4. Counted({}, ds, ws, P)
  <2>1. \A m \in Names : m # n => P[m].workers = Q[m].workers /\ P[m].clients = Q[m].clients
    BY DEF Shrinks
  <2> QED BY <1>1, <1>3, <2>1, CountedQueue
<1>5. Calm(cs, ws, Q, ds, ws, P) BY ShrinkCalm
<1>6. ASSUME NEW d \in Conns PROVE Fits({}, d, ds[d])
  <2>1. Same(cs[d], ds[d]) /\ ds[d].client = cs[d].client BY DEF Shrinks
  <2>2. Fits({}, d, cs[d]) BY DEF Sound
  <2> QED BY <2>1, <2>2 DEF Fits, Same
<1>7. Sound({}, ds, ws, P) BY <1>1, <1>4, <1>5, <1>6, CalmSound
<1>8. ASSUME NEW d \in Conns, cs[d].sock = "open", NEW i \in T, Q[n].clients[i].conn = d
      PROVE  NoPlace(ds, ws, P, d)
  <2>1. OnePlace(cs, ws, Q, d) BY <1>8 DEF Sound, Placed
  <2>2. \A m \in Names : \A j \in DOMAIN Q[m].clients :
           Q[m].clients[j].conn = d => <<m, j>> \in Queued(Q, d)
    BY <1>1, QueuedAt
  <2>3. <<n, i>> \in Queued(Q, d)
    <3>1. i \in DOMAIN Q[n].clients BY DEF Parts
    <3> QED BY <1>8, <2>2, <3>1
  <2>4. Registered(ws, d) = {} /\ Served(cs, d) = {} BY <2>1, <2>3 DEF OnePlace
  <2>5. \A x \in Queued(Q, d) : x = <<n, i>> BY <2>1, <2>3 DEF OnePlace, Single
  <2>6. ASSUME NEW x \in Queued(P, d) PROVE FALSE
    <3>1. PICK m \in Names : \E j \in DOMAIN P[m].clients :
             x = <<m, j>> /\ P[m].clients[j].conn = d
      BY QueuedAt
    <3>2. PICK j \in DOMAIN P[m].clients : P[m].clients[j].conn = d BY <3>1
    <3>3. CASE m = n
      <4>1. PICK k \in DOMAIN Q[n].clients \ T : P[n].clients[j] = Q[n].clients[k]
        BY <3>2, <3>3 DEF Shrinks, Left, Among
      <4>2. <<n, k>> \in Queued(Q, d) BY <2>2, <3>2, <3>3, <4>1
      <4>3. <<n, k>> = <<n, i>> BY <2>5, <4>2
      <4> QED BY <4>1, <4>3
    <3>4. CASE m # n
      <4>1. P[m].clients = Q[m].clients BY <3>4 DEF Shrinks
      <4>2. <<m, j>> \in Queued(Q, d) BY <2>2, <3>2, <4>1
      <4>3. <<m, j>> = <<n, i>> BY <2>5, <4>2
      <4> QED BY <3>4, <4>3
    <3> QED BY <3>3, <3>4
  <2>7. Served(ds, d) = {}
    <3> SUFFICES ASSUME NEW w \in Conns, ds[w].client = d, ds[w].noid PROVE FALSE BY DEF Served
    <3>1. Same(cs[w], ds[w]) /\ ds[w].client = cs[w].client BY DEF Shrinks
    <3>2. w \in Served(cs, d) BY <3>1 DEF Served, Same
    <3> QED BY <2>4, <3>2
  <2> QED BY <2>4, <2>6, <2>7 DEF NoPlace
<1> HIDE DEF NoPlace
<1> QED BY <1>7, <1>8

\* t is s with e added.
Gains(s, t, e) ==
    /\ \A i \in DOMAIN t : t[i] \in Members(s) \cup {e}
    /\ \A V : Cardinality(At(t, V)) = Cardinality(At(s, V)) + (IF e \in V THEN 1 ELSE 0)

LEMMA GainBehind ==
    ASSUME NEW S, NEW s \in Seq(S), NEW t \in Seq(S), NEW e, NEW p \in 0 .. Len(s),
           Behind(s, t, e, p)
    PROVE  Gains(s, t, e)
<1>1. /\ Len(t) = Len(s) + 1 /\ Len(s) \in Nat /\ p \in Nat
      /\ DOMAIN t = 1 .. Len(s) + 1 /\ DOMAIN s = 1 .. Len(s)
      /\ \A i \in 1 .. Len(t) :
            t[i] = IF i <= p THEN s[i] ELSE IF i = p + 1 THEN e ELSE s[i - 1]
  BY LenProperties DEF Behind
<1>2. ASSUME NEW i \in DOMAIN t PROVE t[i] \in Members(s) \cup {e}
  <2>1. i \in 1 .. Len(t) /\ i \in Int BY <1>1
  <2>2. CASE i <= p
    <3>1. i \in DOMAIN s /\ t[i] = s[i] BY <1>1, <2>1, <2>2
    <3> QED BY <3>1 DEF Members
  <2>3. CASE i = p + 1
    <3>1. ~(i <= p) BY <1>1, <2>3
    <3>2. t[i] = e BY <1>1, <2>1, <2>3, <3>1
    <3> QED BY <3>2
  <2>4. CASE ~(i <= p) /\ i # p + 1
    <3>1. i - 1 \in DOMAIN s /\ t[i] = s[i - 1] BY <1>1, <2>1, <2>4
    <3> QED BY <3>1 DEF Members
  <2> QED BY <2>2, <2>3, <2>4
<1>3. ASSUME NEW V
      PROVE  Cardinality(At(t, V)) = Cardinality(At(s, V)) + (IF e \in V THEN 1 ELSE 0)
  BY InsertCount
<1> QED BY <1>2, <1>3 DEF Gains

LEMMA GainBack ==
    ASSUME NEW S, NEW s \in Seq(S), NEW e \in S
    PROVE  Append(s, e) \in Seq(S) /\ Gains(s, Append(s, e), e)
<1>1. PICK t : t = Append(s, e) OBVIOUS
<1>2. /\ t \in Seq(S) /\ Len(t) = Len(s) + 1 /\ Len(s) \in Nat
      /\ \A i \in 1 .. Len(s) + 1 : t[i] = IF i <= Len(s) THEN s[i] ELSE e
  <2>1. /\ Append(s, e) \in Seq(S) /\ Len(Append(s, e)) = Len(s) + 1 /\ Len(s) \in Nat
        /\ \A i \in 1 .. Len(s) : Append(s, e)[i] = s[i]
        /\ Append(s, e)[Len(s) + 1] = e
    BY AppendProperties, LenProperties
  <2>2. ASSUME NEW i \in 1 .. Len(s) + 1 PROVE t[i] = IF i <= Len(s) THEN s[i] ELSE e
    <3>1. CASE i <= Len(s)
      <4>1. i \in 1 .. Len(s) BY <2>1, <3>1
      <4> QED BY <1>1, <2>1, <3>1, <4>1
    <3>2. CASE ~(i <= Len(s))
      <4>1. i = Len(s) + 1 BY <2>1, <3>2
      <4> QED BY <1>1, <2>1, <3>2, <4>1
    <3> QED BY <3>1, <3>2
  <2> QED BY <1>1, <2>1, <2>2
<1>3. Behind(s, t, e, Len(s)) BY <1>2 DEF Behind
<1>4. Len(s) \in 0 .. Len(s) BY <1>2
<1> QED BY <1>1, <1>2, <1>3, <1>4, GainBehind

LEMMA GainFront ==
    ASSUME NEW S, NEW s \in Seq(S), NEW e \in S
    PROVE  <<e>> \o s \in Seq(S) /\ Gains(s, <<e>> \o s, e)
<1>1. PICK t : t = <<e>> \o s OBVIOUS
<1>2. /\ t \in Seq(S) /\ Len(t) = 1 + Len(s) /\ Len(s) \in Nat
      /\ \A i \in 1 .. 1 + Len(s) : t[i] = IF i <= 1 THEN e ELSE s[i - 1]
  <2>1. <<e>> \in Seq(S) /\ Len(<<e>>) = 1 /\ <<e>>[1] = e OBVIOUS
  <2> QED BY <1>1, <2>1, ConcatProperties, LenProperties
<1>3. Behind(s, t, e, 0) BY <1>2 DEF Behind
<1>4. 0 \in 0 .. Len(s) BY <1>2
<1> QED BY <1>1, <1>2, <1>3, <1>4, GainBehind

\* Worker w joins queue n, which holds a link for it.
Joins(cs, ds, Q, P, n, w) ==
    /\ \A m \in Names : m # n => P[m].workers = Q[m].workers /\ P[m].clients = Q[m].clients
    /\ P[n].clients = Q[n].clients /\ Gains(Q[n].workers, P[n].workers, w)
    /\ \A d \in Conns : /\ Same(cs[d], ds[d]) /\ ds[d].client = cs[d].client
                        /\ ds[d].link = cs[d].link + (IF d = w THEN 1 ELSE 0)

LEMMA JoinSound ==
    ASSUME NEW cs, NEW ws, NEW Q, Sound({}, cs, ws, Q), NEW n \in Names, NEW w \in Live(cs),
           NEW ds \in Objects, NEW P \in Queues, Joins(cs, ds, Q, P, n, w)
    PROVE  Sound({}, ds, ws, P)
<1>1. cs \in Objects /\ ws \in WaitType /\ Q \in Queues /\ Counted({}, cs, ws, Q) BY DEF Sound
<1>2. Q[n] \in QueueType /\ P[n] \in QueueType BY <1>1 DEF Queues
<1>3. ASSUME NEW d \in Conns
      PROVE  /\ ds[d].client = cs[d].client
             /\ Weight(ds[d]) = Weight(cs[d]) - LineCount(Q[n], d) + LineCount(P[n], d)
  <2>1. PICK k \in Int : k = IF d = w THEN 1 ELSE 0 OBVIOUS
  <2>2. Same(cs[d], ds[d]) /\ ds[d].client = cs[d].client /\ ds[d].link = cs[d].link + k
    BY <2>1 DEF Joins
  <2>3. cs[d] \in ConnType /\ Weight(cs[d]) \in Int BY <1>1, WeightType DEF Objects
  <2>4. Weight(ds[d]) = Weight(cs[d]) + k BY <2>2, <2>3, WeightSame
  <2>5. /\ Cardinality(At(P[n].workers, {d})) = Cardinality(At(Q[n].workers, {d})) + k
        /\ P[n].clients = Q[n].clients
    BY <2>1 DEF Joins, Gains
  <2>6. /\ Cardinality(At(Q[n].workers, {d})) \in Nat
        /\ Cardinality(At(Q[n].clients, Of(d))) \in Nat
    BY <1>2, LineCountType
  <2>7. LineCount(P[n], d) = LineCount(Q[n], d) + k /\ LineCount(Q[n], d) \in Nat
    BY <2>5, <2>6 DEF LineCount
  <2> QED BY <2>2, <2>3, <2>4, <2>7
<1>4. Counted({}, ds, ws, P)
  <2>1. \A m \in Names : m # n => P[m].workers = Q[m].workers /\ P[m].clients = Q[m].clients
    BY DEF Joins
  <2> QED BY <1>1, <1>3, <2>1, CountedQueue
<1>5. ASSUME NEW m \in Names
      PROVE  /\ Fewer(Q[m].clients, P[m].clients)
             /\ \A i \in DOMAIN P[m].workers :
                   P[m].workers[i] \in Members(Q[m].workers) \cup Live(cs)
  <2>1. P[m].clients = Q[m].clients BY DEF Joins
  <2>2. Fewer(Q[m].clients, Q[m].clients) BY FewerSame
  <2>3. CASE m = n
    <3>1. \A i \in DOMAIN P[m].workers : P[m].workers[i] \in Members(Q[m].workers) \cup {w}
      BY <2>3 DEF Joins, Gains
    <3> QED BY <2>1, <2>2, <3>1
  <2>4. CASE m # n
    <3>1. P[m].workers = Q[m].workers BY <2>4 DEF Joins
    <3> QED BY <2>1, <2>2, <3>1 DEF Members
  <2> QED BY <2>3, <2>4
<1>6. ASSUME NEW d \in Conns
      PROVE  /\ ds[d].client = cs[d].client /\ ds[d].noid = cs[d].noid
             /\ ds[d].sock = cs[d].sock /\ ds[d].item = cs[d].item
             /\ ds[d].status = cs[d].status /\ ds[d].json = cs[d].json /\ ds[d].id = cs[d].id
             /\ ds[d].fail = cs[d].fail
  <2>1. Same(cs[d], ds[d]) /\ ds[d].client = cs[d].client BY DEF Joins
  <2> QED BY <2>1 DEF Same
<1>7. Calm(cs, ws, Q, ds, ws, P)
  <2> HIDE DEF NoPlace, Own
  <2> QED BY <1>5, <1>6 DEF Calm
<1>8. ASSUME NEW d \in Conns PROVE Fits({}, d, ds[d])
  <2>1. Fits({}, d, cs[d]) BY DEF Sound
  <2> QED BY <1>6, <2>1 DEF Fits
<1> QED BY <1>1, <1>4, <1>7, <1>8, CalmSound

\* A finite set of one element at most.
LEMMA SingleCount ==
    ASSUME NEW A, IsFiniteSet(A)
    PROVE  /\ Cardinality(A) \in Nat /\ (A = {} <=> Cardinality(A) = 0)
           /\ Cardinality(A) = 1 => Single(A)
<1>1. Cardinality(A) \in Nat BY FS_CardinalityType
<1>2. A = {} <=> Cardinality(A) = 0 BY FS_EmptySet
<1>3. ASSUME Cardinality(A) = 1 PROVE Single(A)
  <2>1. \E x : A = {x} BY <1>3, FS_Singleton
  <2> QED BY <2>1 DEF Single
<1> QED BY <1>1, <1>2, <1>3

\* Message m joins queue n, which holds a link for its client.
Enqueues(cs, ds, Q, P, n, m) ==
    /\ \A k \in Names : k # n => P[k].workers = Q[k].workers /\ P[k].clients = Q[k].clients
    /\ P[n].workers = Q[n].workers /\ Gains(Q[n].clients, P[n].clients, m)
    /\ \A d \in Conns : /\ Same(cs[d], ds[d]) /\ ds[d].client = cs[d].client
                        /\ ds[d].link = cs[d].link + (IF d = m.conn THEN 1 ELSE 0)

\* Where the messages of d are when message m has joined queue n.
LEMMA EnqueueQueued ==
    ASSUME NEW Q \in Queues, NEW P \in Queues, NEW n \in Names, NEW m \in MsgType, NEW d,
           \A k \in Names : k # n => P[k].workers = Q[k].workers /\ P[k].clients = Q[k].clients,
           Gains(Q[n].clients, P[n].clients, m), IsFiniteSet(Queued(Q, d))
    PROVE  /\ m.conn # d /\ Queued(Q, d) = {} => Queued(P, d) = {}
           /\ m.conn # d /\ Single(Queued(Q, d)) => Single(Queued(P, d))
           /\ Queued(Q, d) = {} => Single(Queued(P, d))
<1>1. PICK f, g : /\ f = [k \in Names |-> At(Q[k].clients, Of(d))]
                  /\ g = [k \in Names |-> At(P[k].clients, Of(d))]
  OBVIOUS
<1>2. /\ Queued(Q, d) = Entries(f) /\ Queued(P, d) = Entries(g) /\ IsFiniteSet(Entries(f))
      /\ f[n] = At(Q[n].clients, Of(d)) /\ g[n] = At(P[n].clients, Of(d))
  BY <1>1 DEF Queued
<1>3. Q[n] \in QueueType /\ P[n] \in QueueType BY DEF Queues
<1>4. IsFiniteSet(g[n]) /\ Cardinality(f[n]) \in Nat /\ Cardinality(g[n]) \in Nat
  BY <1>2, <1>3, LineCountType
<1>5. \A k \in Names : k # n => g[k] = f[k]
  <2> SUFFICES ASSUME NEW k \in Names, k # n PROVE g[k] = f[k] OBVIOUS
  <2>1. g[k] = At(P[k].clients, Of(d)) /\ f[k] = At(Q[k].clients, Of(d)) BY <1>1
  <2> QED BY <2>1
<1>6. /\ IsFiniteSet(Entries(g))
      /\ Cardinality(Entries(f)) \in Nat /\ Cardinality(Entries(g)) \in Nat
      /\ Cardinality(Entries(g)) = Cardinality(Entries(f)) - Cardinality(f[n])
                                   + Cardinality(g[n])
  BY <1>2, <1>4, <1>5, EntriesChange
<1>7. Cardinality(g[n]) = Cardinality(f[n]) + (IF m.conn = d THEN 1 ELSE 0)
  <2>1. m \in Of(d) <=> m.conn = d BY DEF Of
  <2>2. Cardinality(At(P[n].clients, Of(d)))
          = Cardinality(At(Q[n].clients, Of(d))) + (IF m \in Of(d) THEN 1 ELSE 0)
    BY DEF Gains
  <2> QED BY <1>2, <2>1, <2>2
<1>8. Cardinality(Queued(P, d)) = Cardinality(Queued(Q, d)) + (IF m.conn = d THEN 1 ELSE 0)
  BY <1>2, <1>4, <1>6, <1>7
<1>9. IsFiniteSet(Queued(P, d)) BY <1>2, <1>6
<1>10. ASSUME m.conn # d, Queued(Q, d) = {} PROVE Queued(P, d) = {}
  <2>1. Cardinality(Queued(Q, d)) = 0 BY <1>10, FS_EmptySet
  <2>2. Cardinality(Queued(P, d)) = 0 BY <1>8, <1>10, <2>1
  <2> QED BY <1>9, <2>2, SingleCount
<1>11. ASSUME m.conn # d, Single(Queued(Q, d)) PROVE Single(Queued(P, d))
  <2>1. CASE Queued(Q, d) = {} BY <1>10, <1>11, <2>1 DEF Single
  <2>2. CASE Queued(Q, d) # {}
    <3>1. PICK x : x \in Queued(Q, d) BY <2>2
    <3>2. Queued(Q, d) = {x} BY <1>11, <3>1 DEF Single
    <3>3. Cardinality(Queued(Q, d)) = 1 BY <3>2, FS_Singleton
    <3>4. Cardinality(Queued(P, d)) = 1 BY <1>8, <1>11, <3>3
    <3> QED BY <1>9, <3>4, SingleCount
  <2> QED BY <2>1, <2>2
<1>12. ASSUME Queued(Q, d) = {} PROVE Single(Queued(P, d))
  <2>1. CASE m.conn # d BY <1>10, <1>12, <2>1 DEF Single
  <2>2. CASE m.conn = d
    <3>1. Cardinality(Queued(Q, d)) = 0 BY <1>12, FS_EmptySet
    <3>2. Cardinality(Queued(P, d)) = 1 BY <1>8, <2>2, <3>1
    <3> QED BY <1>9, <3>2, SingleCount
  <2> QED BY <2>1, <2>2
<1> QED BY <1>10, <1>11, <1>12

LEMMA EnqueueSound ==
    ASSUME NEW cs, NEW ws, NEW Q, Sound({}, cs, ws, Q), NEW n \in Names, NEW m \in MsgType,
           m.conn # None => /\ cs[m.conn].sock = "open" /\ cs[m.conn].status \in WaitsFor
                            /\ NoPlace(cs, ws, Q, m.conn),
           NEW ds \in Objects, NEW P \in Queues, Enqueues(cs, ds, Q, P, n, m)
    PROVE  Sound({}, ds, ws, P)
<1>1. cs \in Objects /\ ws \in WaitType /\ Q \in Queues /\ Counted({}, cs, ws, Q) BY DEF Sound
<1>2. Q[n] \in QueueType /\ P[n] \in QueueType BY <1>1 DEF Queues
<1>3. m.conn \in Conns \cup {None} BY DEF MsgType
<1>4. ASSUME NEW d \in Conns
      PROVE  /\ ds[d].client = cs[d].client
             /\ Weight(ds[d]) = Weight(cs[d]) - LineCount(Q[n], d) + LineCount(P[n], d)
  <2>1. PICK k \in Int : k = IF d = m.conn THEN 1 ELSE 0 OBVIOUS
  <2>2. Same(cs[d], ds[d]) /\ ds[d].client = cs[d].client /\ ds[d].link = cs[d].link + k
    BY <2>1 DEF Enqueues
  <2>3. cs[d] \in ConnType /\ Weight(cs[d]) \in Int BY <1>1, WeightType DEF Objects
  <2>4. Weight(ds[d]) = Weight(cs[d]) + k BY <2>2, <2>3, WeightSame
  <2>5. m \in Of(d) <=> d = m.conn BY DEF Of
  <2>6. /\ Cardinality(At(P[n].clients, Of(d))) = Cardinality(At(Q[n].clients, Of(d))) + k
        /\ P[n].workers = Q[n].workers
    BY <2>1, <2>5 DEF Enqueues, Gains
  <2>7. /\ Cardinality(At(Q[n].workers, {d})) \in Nat
        /\ Cardinality(At(Q[n].clients, Of(d))) \in Nat
    BY <1>2, LineCountType
  <2>8. LineCount(P[n], d) = LineCount(Q[n], d) + k /\ LineCount(Q[n], d) \in Nat
    BY <2>6, <2>7 DEF LineCount
  <2> QED BY <2>2, <2>3, <2>4, <2>8
<1>5. \A k \in Names : k # n => P[k].workers = Q[k].workers /\ P[k].clients = Q[k].clients
  BY DEF Enqueues
<1>6. Counted({}, ds, ws, P) BY <1>1, <1>4, <1>5, CountedQueue
<1>7. ASSUME NEW d \in Conns
      PROVE  /\ ds[d].client = cs[d].client /\ ds[d].noid = cs[d].noid
             /\ ds[d].sock = cs[d].sock /\ ds[d].item = cs[d].item /\ ds[d].fail = cs[d].fail
             /\ ds[d].status = cs[d].status /\ ds[d].json = cs[d].json /\ ds[d].id = cs[d].id
  <2>1. Same(cs[d], ds[d]) /\ ds[d].client = cs[d].client BY DEF Enqueues
  <2> QED BY <2>1 DEF Same
<1>8. ASSUME NEW d \in Conns PROVE Fits({}, d, ds[d])
  <2>1. Fits({}, d, cs[d]) BY DEF Sound
  <2> QED BY <1>7, <2>1 DEF Fits
<1>9. Placed(ds, ws, P)
  <2> SUFFICES ASSUME NEW d \in Conns, ds[d].sock = "open"
               PROVE  /\ OnePlace(ds, ws, P, d)
                      /\ ds[d].status \notin WaitsFor => NoPlace(ds, ws, P, d)
    BY DEF Placed
  <2>1. OnePlace(cs, ws, Q, d) /\ (cs[d].status \notin WaitsFor => NoPlace(cs, ws, Q, d))
    BY <1>7 DEF Sound, Placed
  <2>2. IsFiniteSet(Queued(Q, d)) BY <1>1 DEF Counted, Bounded
  <2>3. Gains(Q[n].clients, P[n].clients, m) BY DEF Enqueues
  <2>4. /\ m.conn # d /\ Queued(Q, d) = {} => Queued(P, d) = {}
        /\ m.conn # d /\ Single(Queued(Q, d)) => Single(Queued(P, d))
        /\ Queued(Q, d) = {} => Single(Queued(P, d))
    BY <1>1, <1>5, <2>2, <2>3, EnqueueQueued
  <2>5. Served(ds, d) = Served(cs, d) BY <1>7 DEF Served
  <2>6. CASE m.conn # d
    <3>1. OnePlace(ds, ws, P, d) BY <2>1, <2>4, <2>5, <2>6 DEF OnePlace
    <3>2. NoPlace(cs, ws, Q, d) => NoPlace(ds, ws, P, d) BY <2>4, <2>5, <2>6 DEF NoPlace
    <3>3. cs[d].status \notin WaitsFor => NoPlace(cs, ws, Q, d) BY <2>1
    <3>4. ds[d].status = cs[d].status BY <1>7
    <3> HIDE DEF NoPlace, OnePlace
    <3> QED BY <3>1, <3>2, <3>3, <3>4
  <2>7. CASE m.conn = d
    <3>1. cs[d].status \in WaitsFor /\ NoPlace(cs, ws, Q, d) BY <2>7, NoneAssumption
    <3>2. Queued(Q, d) = {} /\ Registered(ws, d) = {} /\ Served(ds, d) = {}
      BY <2>5, <3>1 DEF NoPlace
    <3>3. OnePlace(ds, ws, P, d) BY <2>4, <3>2 DEF OnePlace, Single
    <3> QED BY <1>7, <3>1, <3>3
  <2> QED BY <2>6, <2>7
<1>10. Identified(ds, ws)
  <2>1. Identified(cs, ws) BY DEF Sound
  <2> QED BY <1>7, <2>1 DEF Identified
<1>11. PointsToLive(ds, ws, P)
  <2>1. PointsToLive(cs, ws, Q) BY DEF Sound
  <2>2. Live(ds) = Live(cs) BY <1>7 DEF Live
  <2>3. ASSUME NEW k \in Names
        PROVE  /\ \A i \in DOMAIN P[k].workers : P[k].workers[i] \in Live(cs)
               /\ \A i \in DOMAIN P[k].clients : P[k].clients[i].conn \in Live(cs) \cup {None}
    <3>1. P[k].workers = Q[k].workers BY DEF Enqueues
    <3>2. ASSUME NEW i \in DOMAIN P[k].clients
          PROVE  P[k].clients[i] \in Members(Q[k].clients) \cup {m}
      <4>1. CASE k = n BY <4>1 DEF Enqueues, Gains
      <4>2. CASE k # n
        <5>1. P[k].clients = Q[k].clients BY <4>2 DEF Enqueues
        <5> QED BY <5>1 DEF Members
      <4> QED BY <4>1, <4>2
    <3>3. m.conn \in Live(cs) \cup {None} BY <1>3 DEF Live
    <3>4. /\ \A i \in DOMAIN Q[k].workers : Q[k].workers[i] \in Live(cs)
          /\ \A i \in DOMAIN Q[k].clients : Q[k].clients[i].conn \in Live(cs) \cup {None}
      BY <2>1 DEF PointsToLive
    <3> QED BY <3>1, <3>2, <3>3, <3>4 DEF Members
  <2> QED BY <1>7, <2>1, <2>2, <2>3 DEF PointsToLive
<1> QED BY <1>1, <1>6, <1>8, <1>9, <1>10, <1>11 DEF Sound

\* Worker w gets client c, and a link to it.
Claims(cs, ds, w, c) ==
    \A d \in Conns : /\ Same(cs[d], ds[d])
                     /\ ds[d].client = IF d = w THEN c ELSE cs[d].client
                     /\ ds[d].link = cs[d].link + (IF d = c THEN 1 ELSE 0)

\* A client that waits, but nowhere yet.
Free(cs, ws, Q, c) ==
    cs[c].sock = "open" /\ cs[c].status \in WaitsFor /\ NoPlace(cs, ws, Q, c)

\* A worker that may get a client.
Claimable(cs, w) ==
    /\ cs[w].sock = "open" /\ cs[w].client = None /\ cs[w].fail
    /\ cs[w].status \notin Unclaimed

LEMMA ClaimSound ==
    ASSUME NEW cs, NEW ws, NEW Q, Sound({}, cs, ws, Q), NEW w \in Conns, NEW c \in Conns,
           Claimable(cs, w), Free(cs, ws, Q, c), NEW ds \in Objects, Claims(cs, ds, w, c)
    PROVE  /\ Sound({}, ds, ws, Q)
           /\ ~cs[w].noid => Free(ds, ws, Q, c)
<1>1. cs \in Objects /\ ws \in WaitType /\ Q \in Queues /\ Counted({}, cs, ws, Q) BY DEF Sound
<1>2. ASSUME NEW d \in Conns
      PROVE  /\ Same(cs[d], ds[d]) /\ ds[d].client = IF d = w THEN c ELSE cs[d].client
             /\ ds[d].link = cs[d].link + (IF d = c THEN 1 ELSE 0)
  BY DEF Claims
<1>3. ASSUME NEW d \in Conns
      PROVE  /\ ds[d].noid = cs[d].noid /\ ds[d].sock = cs[d].sock /\ ds[d].item = cs[d].item
             /\ ds[d].fail = cs[d].fail /\ ds[d].status = cs[d].status
             /\ ds[d].json = cs[d].json /\ ds[d].id = cs[d].id
  BY <1>2 DEF Same
<1>4. cs[w].client = None /\ None \notin Conns /\ ds[w].client = c
  BY <1>2, NoneAssumption DEF Claimable
<1>5. ASSUME NEW d \in Conns
      PROVE  Weight(ds[d]) = Weight(cs[d]) - (IF cs[w].client = d THEN 1 ELSE 0)
                             + (IF ds[w].client = d THEN 1 ELSE 0)
  <2>1. PICK k \in Int : k = IF d = c THEN 1 ELSE 0 OBVIOUS
  <2>2. Same(cs[d], ds[d]) /\ ds[d].link = cs[d].link + k BY <1>2, <2>1
  <2>3. cs[d] \in ConnType /\ Weight(cs[d]) \in Int BY <1>1, WeightType DEF Objects
  <2>4. Weight(ds[d]) = Weight(cs[d]) + k BY <2>2, <2>3, WeightSame
  <2> QED BY <1>4, <2>1, <2>3, <2>4
<1>6. Counted({}, ds, ws, Q)
  <2>1. \A d \in Conns : d # w => ds[d].client = cs[d].client BY <1>2
  <2> QED BY <1>1, <1>5, <2>1, CountedClient
<1>7. ASSUME NEW d \in Conns PROVE Fits({}, d, ds[d])
  <2>1. Fits({}, d, cs[d]) BY DEF Sound
  <2>2. CASE d = w
    <3>1. /\ ds[d].fail /\ ds[d].status \notin Unclaimed /\ ds[d].sock = "open"
      BY <1>3, <2>2 DEF Claimable
    <3> QED BY <3>1 DEF Fits
  <2>3. CASE d # w
    <3>1. ds[d].client = cs[d].client BY <1>2, <2>3
    <3> QED BY <1>3, <2>1, <3>1 DEF Fits
  <2> QED BY <2>2, <2>3
<1>8. ASSUME NEW d \in Conns
      PROVE  Served(ds, d) = IF d = c /\ cs[w].noid THEN Served(cs, d) \cup {w} ELSE Served(cs, d)
  BY <1>2, <1>3, <1>4 DEF Served
<1>9. Placed(ds, ws, Q)
  <2> SUFFICES ASSUME NEW d \in Conns, ds[d].sock = "open"
               PROVE  /\ OnePlace(ds, ws, Q, d)
                      /\ ds[d].status \notin WaitsFor => NoPlace(ds, ws, Q, d)
    BY DEF Placed
  <2>1. OnePlace(cs, ws, Q, d) /\ (cs[d].status \notin WaitsFor => NoPlace(cs, ws, Q, d))
    BY <1>3 DEF Sound, Placed
  <2>2. CASE d # c
    <3>1. Served(ds, d) = Served(cs, d) BY <1>8, <2>2
    <3> QED BY <1>3, <2>1, <3>1 DEF OnePlace, NoPlace
  <2>3. CASE d = c
    <3>1. /\ cs[d].status \in WaitsFor
          /\ Queued(Q, d) = {} /\ Registered(ws, d) = {} /\ Served(cs, d) = {}
      BY <2>3 DEF Free, NoPlace
    <3>2. Single(Served(ds, d)) BY <1>8, <3>1 DEF Single
    <3>3. OnePlace(ds, ws, Q, d) BY <3>1, <3>2 DEF OnePlace, Single
    <3> QED BY <1>3, <3>1, <3>3
  <2> QED BY <2>2, <2>3
<1>10. Identified(ds, ws)
  <2>1. Identified(cs, ws) BY DEF Sound
  <2> QED BY <1>3, <2>1 DEF Identified
<1>11. PointsToLive(ds, ws, Q)
  <2>1. PointsToLive(cs, ws, Q) BY DEF Sound
  <2>2. Live(ds) = Live(cs) BY <1>3 DEF Live
  <2>3. w \in Live(cs) /\ c \in Live(cs) BY DEF Claimable, Free, Live
  <2>4. ASSUME NEW d \in Conns
        PROVE  /\ ds[d].client \in Live(cs) \cup {None}
               /\ d \notin Live(cs) => ds[d].client = None /\ ds[d].item = None
    <3>1. /\ cs[d].client \in Live(cs) \cup {None}
          /\ d \notin Live(cs) => cs[d].client = None /\ cs[d].item = None
      BY <2>1 DEF PointsToLive
    <3> QED BY <1>2, <1>3, <2>3, <3>1
  <2> QED BY <2>1, <2>2, <2>4 DEF PointsToLive
<1>12. Sound({}, ds, ws, Q) BY <1>1, <1>6, <1>7, <1>9, <1>10, <1>11 DEF Sound
<1>13. ASSUME ~cs[w].noid PROVE Free(ds, ws, Q, c)
  <2>1. Served(ds, c) = Served(cs, c) BY <1>8, <1>13
  <2> QED BY <1>3, <2>1 DEF Free, NoPlace
<1> QED BY <1>12, <1>13

\* Client c is registered under id i, and gets a link for it.
Enters(cs, ds, ws, vs, i, c) ==
    /\ ws[i] = None /\ \A j \in AllIds : vs[j] = IF j = i THEN c ELSE ws[j]
    /\ \A d \in Conns : d # c => Alike(cs[d], ds[d])
    /\ ds[c].sock = cs[c].sock /\ ds[c].item = cs[c].item /\ ds[c].noid = cs[c].noid
    /\ ds[c].fail = cs[c].fail /\ ds[c].client = cs[c].client
    /\ ds[c].status = cs[c].status /\ ds[c].json = cs[c].json
    /\ ds[c].id = i /\ ds[c].link = cs[c].link + 1

LEMMA EnterSound ==
    ASSUME NEW cs, NEW ws, NEW Q, Sound({}, cs, ws, Q), NEW c \in Conns, Free(cs, ws, Q, c),
           NEW i \in CallIds(c), i \in AllIds, NEW ds \in Objects, NEW vs \in WaitType,
           Enters(cs, ds, ws, vs, i, c)
    PROVE  Sound({}, ds, vs, Q)
<1>1. cs \in Objects /\ ws \in WaitType /\ Q \in Queues /\ Counted({}, cs, ws, Q) BY DEF Sound
<1>2. /\ ws[i] = None /\ \A j \in AllIds : vs[j] = IF j = i THEN c ELSE ws[j]
      /\ ds[c].sock = cs[c].sock /\ ds[c].item = cs[c].item /\ ds[c].noid = cs[c].noid
      /\ ds[c].fail = cs[c].fail /\ ds[c].client = cs[c].client
      /\ ds[c].status = cs[c].status /\ ds[c].json = cs[c].json
      /\ ds[c].id = i /\ ds[c].link = cs[c].link + 1
  BY DEF Enters
<1>3. ASSUME NEW d \in Conns, d # c
      PROVE  /\ ds[d].sock = cs[d].sock /\ ds[d].status = cs[d].status
             /\ ds[d].item = cs[d].item /\ ds[d].noid = cs[d].noid /\ ds[d].fail = cs[d].fail
             /\ ds[d].id = cs[d].id /\ ds[d].json = cs[d].json /\ ds[d].link = cs[d].link
             /\ ds[d].client = cs[d].client
  BY <1>3 DEF Enters, Alike, Same
<1>4. None \notin Conns /\ vs[i] = c BY <1>2, NoneAssumption
<1>5. ASSUME NEW d \in Conns
      PROVE  /\ ds[d].client = cs[d].client
             /\ Weight(ds[d]) = Weight(cs[d]) - (IF ws[i] = d THEN 1 ELSE 0)
                                + (IF vs[i] = d THEN 1 ELSE 0)
  <2>1. cs[d] \in ConnType BY <1>1 DEF Objects
  <2>2. cs[d].link \in Int /\ Weight(cs[d]) \in Int BY <2>1, WeightType
  <2>3. CASE d = c
    <3>1. Weight(ds[d]) = Weight(cs[d]) + 1 BY <1>2, <2>2, <2>3 DEF Weight
    <3> QED BY <1>2, <1>4, <2>2, <2>3, <3>1
  <2>4. CASE d # c
    <3>1. Weight(ds[d]) = Weight(cs[d]) BY <1>3, <2>4, WeightAlike
    <3> QED BY <1>2, <1>3, <1>4, <2>2, <2>4, <3>1
  <2> QED BY <2>3, <2>4
<1>6. Counted({}, ds, vs, Q)
  <2>1. EntryChange(cs, ds, ws, vs, i) BY <1>2, <1>5 DEF EntryChange
  <2> QED BY <1>1, <2>1, CountedWait
<1>7. ASSUME NEW d \in Conns PROVE Fits({}, d, ds[d])
  <2>1. Fits({}, d, cs[d]) BY DEF Sound
  <2> QED BY <1>2, <1>3, <2>1 DEF Fits
<1>8. ASSUME NEW d \in Conns
      PROVE  /\ ds[d].sock = cs[d].sock /\ ds[d].status = cs[d].status
             /\ ds[d].item = cs[d].item /\ ds[d].noid = cs[d].noid
             /\ ds[d].client = cs[d].client /\ ds[d].json = cs[d].json
  BY <1>2, <1>3
<1>9. Placed(ds, vs, Q)
  <2> SUFFICES ASSUME NEW d \in Conns, ds[d].sock = "open"
               PROVE  /\ OnePlace(ds, vs, Q, d)
                      /\ ds[d].status \notin WaitsFor => NoPlace(ds, vs, Q, d)
    BY DEF Placed
  <2>1. OnePlace(cs, ws, Q, d) /\ (cs[d].status \notin WaitsFor => NoPlace(cs, ws, Q, d))
    BY <1>8 DEF Sound, Placed
  <2>2. Served(ds, d) = Served(cs, d) BY <1>8 DEF Served
  <2>3. CASE d # c
    <3>1. Registered(vs, d) = Registered(ws, d) BY <1>2, <1>4, <2>3 DEF Registered
    <3> QED BY <1>8, <2>1, <2>2, <3>1 DEF OnePlace, NoPlace
  <2>4. CASE d = c
    <3>1. /\ cs[d].status \in WaitsFor
          /\ Queued(Q, d) = {} /\ Registered(ws, d) = {} /\ Served(cs, d) = {}
      BY <2>4 DEF Free, NoPlace
    <3>2. Registered(vs, d) = {i} BY <1>2, <2>4, <3>1 DEF Registered
    <3>3. OnePlace(ds, vs, Q, d) BY <2>2, <3>1, <3>2 DEF OnePlace, Single
    <3> QED BY <1>8, <3>1, <3>3
  <2> QED BY <2>3, <2>4
<1>10. Identified(ds, vs)
  <2>1. Identified(cs, ws) BY DEF Sound
  <2>2. ASSUME NEW j \in AllIds, vs[j] # None PROVE j \in CallIds(vs[j])
    <3>1. CASE j = i BY <1>4, <3>1
    <3>2. CASE j # i
      <4>1. vs[j] = ws[j] BY <1>2, <3>2
      <4> QED BY <2>1, <2>2, <4>1 DEF Identified
    <3> QED BY <3>1, <3>2
  <2>3. ASSUME NEW d \in Conns, ds[d].sock = "open", ds[d].status = "client_wait_result"
        PROVE  /\ ds[d].json \in Ids => ds[d].json \in BodyIds(d)
               /\ ds[d].id # None => ds[d].id \in HeaderIds(d) \/ vs[ds[d].id] = d
    <3>1. /\ cs[d].json \in Ids => cs[d].json \in BodyIds(d)
          /\ cs[d].id # None => cs[d].id \in HeaderIds(d) \/ ws[cs[d].id] = d
      BY <1>8, <2>1, <2>3 DEF Identified
    <3>2. CASE d = c BY <1>2, <1>4, <3>1, <3>2
    <3>3. CASE d # c
      <4>1. ds[d].id = cs[d].id /\ ds[d].json = cs[d].json BY <1>3, <3>3
      <4>2. cs[d].id \in AllIds \cup {None}
        <5>1. cs[d] \in ConnType BY <1>1 DEF Objects
        <5> QED BY <5>1, ObjectFields
      <4>3. ASSUME cs[d].id # None, ws[cs[d].id] = d PROVE vs[cs[d].id] = d
        <5>1. cs[d].id # i BY <1>2, <1>4, <4>3
        <5> QED BY <1>2, <4>2, <4>3, <5>1
      <4> QED BY <3>1, <4>1, <4>3
    <3> QED BY <3>2, <3>3
  <2> QED BY <2>2, <2>3 DEF Identified
<1>11. PointsToLive(ds, vs, Q)
  <2>1. PointsToLive(cs, ws, Q) BY DEF Sound
  <2>2. Live(ds) = Live(cs) BY <1>8 DEF Live
  <2>3. c \in Live(cs) BY DEF Free, Live
  <2>4. \A j \in AllIds : vs[j] \in Live(cs) \cup {None}
    <3>1. \A j \in AllIds : ws[j] \in Live(cs) \cup {None} BY <2>1 DEF PointsToLive
    <3> QED BY <1>2, <2>3, <3>1
  <2> QED BY <1>8, <2>1, <2>2, <2>4 DEF PointsToLive
<1> QED BY <1>1, <1>6, <1>7, <1>9, <1>10, <1>11 DEF Sound

-----------------------------------------------------------------------------
(* Erasing entries of a queue *)

\* What a connection loses with the positions of s that hold it, or its messages.
LEMMA LostWorkers ==
    ASSUME NEW s \in Seq(Conns), NEW R \in Parts(s), NEW d
    PROVE  /\ Lost(s, R, {d}) = Cardinality({i \in R : s[i] = d})
           /\ Lost(s, R, {d}) \in Nat
<1>1. {i \in R : s[i] \in {d}} = {i \in R : s[i] = d} OBVIOUS
<1>2. R \in SUBSET DOMAIN s BY DEF Parts
<1>3. Cardinality({i \in R : s[i] \in {d}}) \in Nat BY <1>2, AtFinite
<1> QED BY <1>1, <1>3 DEF Lost

LEMMA LostMessages ==
    ASSUME NEW s \in Seq(MsgType), NEW T \in Parts(s), NEW d
    PROVE  /\ Lost(s, T, Of(d)) = Cardinality({i \in T : s[i].conn = d})
           /\ Lost(s, T, Of(d)) \in Nat
<1>1. T \in SUBSET DOMAIN s BY DEF Parts
<1>2. {i \in T : s[i] \in Of(d)} = {i \in T : s[i].conn = d} BY <1>1 DEF Of
<1>3. Cardinality({i \in T : s[i] \in Of(d)}) \in Nat BY <1>1, AtFinite
<1> QED BY <1>2, <1>3 DEF Lost

LEMMA LostNone ==
    ASSUME NEW s, NEW V
    PROVE  Lost(s, {}, V) = 0
<1>1. {i \in {} : s[i] \in V} = {} OBVIOUS
<1> QED BY <1>1, FS_EmptySet DEF Lost

\* A Connect but for its link.
LinkedTo(x, k) == [x EXCEPT !.link = k]

LEMMA LinkedDoes ==
    ASSUME NEW x \in ConnType, NEW k \in Int
    PROVE  /\ LinkedTo(x, k) \in ConnType /\ Same(x, LinkedTo(x, k))
           /\ LinkedTo(x, k).client = x.client /\ LinkedTo(x, k).wm = x.wm
           /\ LinkedTo(x, k).link = k
<1>1. PICK y : y = [x EXCEPT !.link = k] OBVIOUS
<1>2. y \in ConnType BY <1>1, FieldType
<1>3. Same(x, y) /\ y.client = x.client /\ y.wm = x.wm /\ y.link = k
  BY <1>1, <1>2 DEF ConnType, Same
<1> QED BY <1>1, <1>2, <1>3 DEF LinkedTo

\* Erased workers give their links back.
LEMMA ReleaseDoes ==
    ASSUME NEW cs \in Objects, NEW s \in Seq(Conns), NEW R \in Parts(s)
    PROVE  /\ Release(cs, s, R) \in Objects
           /\ \A d \in Conns :
                 /\ Same(cs[d], Release(cs, s, R)[d])
                 /\ Release(cs, s, R)[d].client = cs[d].client
                 /\ Release(cs, s, R)[d].wm = cs[d].wm
                 /\ Release(cs, s, R)[d].link = cs[d].link - Lost(s, R, {d})
<1>1. PICK ds : ds = Release(cs, s, R) OBVIOUS
<1>2. ASSUME NEW d \in Conns
      PROVE  /\ ds[d] \in ConnType /\ Same(cs[d], ds[d]) /\ ds[d].client = cs[d].client
             /\ ds[d].wm = cs[d].wm /\ ds[d].link = cs[d].link - Lost(s, R, {d})
  <2>1. PICK k : k = cs[d].link - Lost(s, R, {d}) OBVIOUS
  <2>2. cs[d] \in ConnType BY DEF Objects
  <2>3. /\ Lost(s, R, {d}) = Cardinality({i \in R : s[i] = d})
        /\ Lost(s, R, {d}) \in Nat
    BY LostWorkers
  <2>4. k \in Int BY <2>1, <2>2, <2>3, ObjectFields
  <2>5. ds[d] = LinkedTo(cs[d], k) BY <1>1, <2>1, <2>3 DEF Release, LinkedTo
  <2> QED BY <2>1, <2>2, <2>4, <2>5, LinkedDoes
<1>3. ds \in Objects
  <2>1. ds = [d \in Conns |-> ds[d]] BY <1>1 DEF Release
  <2> QED BY <1>2, <2>1 DEF Objects
<1> QED BY <1>1, <1>2, <1>3

\* Positions R of s are erased, if any.
Erases(s, t, R) == R \in Parts(s) /\ (t = Rest(s, R) \/ (R = {} /\ t = s))

LEMMA ErasesLeft ==
    ASSUME NEW S, NEW s \in Seq(S), NEW t, NEW R, Erases(s, t, R)
    PROVE  R \in Parts(s) /\ t \in Seq(S) /\ Left(s, t, R)
<1>1. R \in Parts(s) BY DEF Erases
<1>2. CASE t = Rest(s, R) BY <1>1, <1>2, LeftKeep
<1>3. CASE R = {} /\ t = s
  <2>1. Left(s, s, {}) BY LeftSame
  <2> QED BY <1>1, <1>3, <2>1
<1> QED BY <1>2, <1>3 DEF Erases

\* Queue n loses the workers at the positions R and the messages at T.
Gone(Q, P, n, R, T) ==
    /\ \A m \in Names : m # n => P[m].workers = Q[m].workers /\ P[m].clients = Q[m].clients
    /\ Erases(Q[n].workers, P[n].workers, R) /\ Erases(Q[n].clients, P[n].clients, T)

\* The links that go with them are given back, and nothing else changes that matters.
GivenBack(cs, ds, Q, n, R, T) ==
    \A d \in Conns :
       /\ Same(cs[d], ds[d]) /\ ds[d].client = cs[d].client
       /\ ds[d].link = cs[d].link - Lost(Q[n].workers, R, {d}) - Lost(Q[n].clients, T, Of(d))

\* Each erased entry gives its link back.
LEMMA GoneSound ==
    ASSUME NEW cs, NEW ws, NEW Q, Sound({}, cs, ws, Q), NEW n \in Names, NEW R, NEW T,
           NEW ds \in Objects, NEW P \in Queues, Gone(Q, P, n, R, T),
           GivenBack(cs, ds, Q, n, R, T)
    PROVE  /\ Sound({}, ds, ws, P)
           /\ \A d \in Conns :
                 cs[d].sock = "open" /\ (\E i \in T : Q[n].clients[i].conn = d)
                    => NoPlace(ds, ws, P, d)
<1>1. Q[n] \in QueueType BY DEF Sound, Queues
<1>2. Q[n].workers \in Seq(Conns) /\ Q[n].clients \in Seq(MsgType) BY <1>1, LineCountType
<1>3. Erases(Q[n].workers, P[n].workers, R) /\ Erases(Q[n].clients, P[n].clients, T) BY DEF Gone
<1>4. R \in Parts(Q[n].workers) /\ Left(Q[n].workers, P[n].workers, R)
  BY <1>2, <1>3, ErasesLeft
<1>5. T \in Parts(Q[n].clients) /\ Left(Q[n].clients, P[n].clients, T)
  BY <1>2, <1>3, ErasesLeft
<1>6. Shrinks(cs, ds, Q, P, n, R, T) BY <1>4, <1>5 DEF Shrinks, Gone, GivenBack
<1> HIDE DEF NoPlace
<1> QED BY <1>4, <1>5, <1>6, ShrinkSound

\* The workers that a scan erases.
LEMMA ReleaseSound ==
    ASSUME NEW cs, NEW ws, NEW Q, Sound({}, cs, ws, Q), NEW n \in Names, NEW R,
           NEW P \in Queues, Gone(Q, P, n, R, {})
    PROVE  /\ Sound({}, Release(cs, Q[n].workers, R), ws, P)
           /\ \A d \in Conns : /\ Same(cs[d], Release(cs, Q[n].workers, R)[d])
                               /\ Release(cs, Q[n].workers, R)[d].client = cs[d].client
                               /\ Release(cs, Q[n].workers, R)[d].wm = cs[d].wm
<1>1. Q[n] \in QueueType /\ cs \in Objects BY DEF Sound, Queues
<1>2. Q[n].workers \in Seq(Conns) BY <1>1, LineCountType
<1>3. R \in Parts(Q[n].workers) BY DEF Gone, Erases
<1>4. PICK ds : ds = Release(cs, Q[n].workers, R) OBVIOUS
<1>5. ds \in Objects
  BY <1>1, <1>2, <1>3, <1>4, ReleaseDoes
<1>6. ASSUME NEW d \in Conns
      PROVE  /\ Same(cs[d], ds[d]) /\ ds[d].client = cs[d].client /\ ds[d].wm = cs[d].wm
             /\ ds[d].link = cs[d].link - Lost(Q[n].workers, R, {d}) - Lost(Q[n].clients, {}, Of(d))
  <2>1. /\ Same(cs[d], ds[d]) /\ ds[d].client = cs[d].client /\ ds[d].wm = cs[d].wm
        /\ ds[d].link = cs[d].link - Lost(Q[n].workers, R, {d})
    BY <1>1, <1>2, <1>3, <1>4, ReleaseDoes
  <2>2. Lost(Q[n].clients, {}, Of(d)) = 0 BY LostNone
  <2>3. cs[d].link \in Int /\ Lost(Q[n].workers, R, {d}) \in Int
    <3>1. cs[d] \in ConnType BY <1>1 DEF Objects
    <3>2. Lost(Q[n].workers, R, {d}) \in Nat BY <1>2, <1>3, LostWorkers
    <3> QED BY <3>1, <3>2, ObjectFields
  <2> QED BY <2>1, <2>2, <2>3
<1>7. GivenBack(cs, ds, Q, n, R, {}) BY <1>6 DEF GivenBack
<1>8. Sound({}, ds, ws, P) BY <1>5, <1>7, GoneSound
<1> QED BY <1>4, <1>6, <1>8

\* The clients of the erased messages whose id cannot be used.
Refused(cs, ws, w, s, d, v) ==
    \E i \in Scanned(cs, ws, w, s) : s[i].conn = d /\ Verdict(cs, ws, w, s[i]) = v

\* What a scan makes of a Connect x whose call has no id (rn) or one in use (rc).
Refuses(x, y, rn, rc, k, i) ==
    /\ y.sock = x.sock /\ y.client = x.client /\ y.noid = x.noid
    /\ y.fail = x.fail /\ y.item = x.item /\ y.json = x.json
    /\ y.wm = x.wm /\ y.link = k /\ y.id = i
    /\ y.status = IF rc THEN "net" ELSE IF rn THEN "busy" ELSE x.status

LEMMA ScanFields ==
    ASSUME NEW cs \in Objects, NEW ws, NEW w, NEW s, NEW d \in Conns, NEW k, NEW i,
           k = cs[d].link - Cardinality({p \in Scanned(cs, ws, w, s) : s[p].conn = d}),
           i = (IF Refused(cs, ws, w, s, d, "collision") THEN CallId(cs, d, <<d, calls[d]>>)
                ELSE cs[d].id),
           k \in Int, i \in AllIds \cup {None}
    PROVE  Refuses(cs[d], AfterScan(cs, ws, w, s)[d], Refused(cs, ws, w, s, d, "noid"),
                   Refused(cs, ws, w, s, d, "collision"), k, i)
<1>0. PICK rn, rc : rn = Refused(cs, ws, w, s, d, "noid")
                    /\ rc = Refused(cs, ws, w, s, d, "collision")
  OBVIOUS
<1>1. rn \in BOOLEAN /\ rc \in BOOLEAN BY <1>0 DEF Refused
<1>2. PICK st : st = IF rc THEN "net" ELSE IF rn THEN "busy" ELSE cs[d].status OBVIOUS
<1>3. PICK o : o = IF rn \/ rc THEN cs[d].out + 1 ELSE cs[d].out OBVIOUS
<1>4. PICK r : r = (rn \/ rc \/ cs[d].wr) OBVIOUS
<1>5. cs[d] \in ConnType BY DEF Objects
<1>6. o \in Int /\ r \in BOOLEAN /\ st \in Statuses
  <2>1. cs[d].out \in Int /\ cs[d].status \in Statuses BY <1>5, ObjectFields
  <2>2. o \in Int BY <1>3, <2>1
  <2>3. st \in Statuses BY <1>2, <2>1, Values
  <2>4. r \in BOOLEAN BY <1>4
  <2> QED BY <2>2, <2>3, <2>4
<1>7. AfterScan(cs, ws, w, s)[d]
        = [cs[d] EXCEPT !.link = k, !.out = o, !.wr = r, !.id = i, !.status = st]
  <2>1. AfterScan(cs, ws, w, s)[d]
          = [cs[d] EXCEPT
                !.link = @ - Cardinality({p \in Scanned(cs, ws, w, s) : s[p].conn = d}),
                !.out = IF Refused(cs, ws, w, s, d, "noid") \/ Refused(cs, ws, w, s, d, "collision")
                        THEN @ + 1 ELSE @,
                !.wr = (Refused(cs, ws, w, s, d, "noid")
                        \/ Refused(cs, ws, w, s, d, "collision")) \/ @,
                !.id = IF Refused(cs, ws, w, s, d, "collision")
                       THEN CallId(cs, d, <<d, calls[d]>>) ELSE @,
                !.status = IF Refused(cs, ws, w, s, d, "collision") THEN "net"
                           ELSE IF Refused(cs, ws, w, s, d, "noid") THEN "busy" ELSE @]
    BY Zenon DEF AfterScan, Refused
  <2>2. r = ((rn \/ rc) \/ cs[d].wr) BY <1>4
  <2>3. i = IF rc THEN CallId(cs, d, <<d, calls[d]>>) ELSE cs[d].id BY <1>0
  <2> QED BY <1>0, <1>2, <1>3, <2>1, <2>2, <2>3, Zenon
<1>8. PICK x : x = [cs[d] EXCEPT !.link = k, !.out = o] BY Zenon
<1>9. /\ x \in ConnType /\ x.sock = cs[d].sock /\ x.client = cs[d].client
      /\ x.noid = cs[d].noid /\ x.fail = cs[d].fail /\ x.item = cs[d].item
      /\ x.json = cs[d].json /\ x.wm = cs[d].wm /\ x.link = k
  <2>1. [cs[d] EXCEPT !.link = k] \in ConnType BY <1>5, FieldType
  <2>2. x \in ConnType BY <1>6, <1>8, <2>1, FieldType
  <2> QED BY <1>5, <1>8, <2>2 DEF ConnType
<1>10. PICK y : y = [x EXCEPT !.wr = r, !.id = i] OBVIOUS
<1>11. /\ y \in ConnType /\ y.sock = cs[d].sock /\ y.client = cs[d].client
       /\ y.noid = cs[d].noid /\ y.fail = cs[d].fail /\ y.item = cs[d].item
       /\ y.json = cs[d].json /\ y.wm = cs[d].wm /\ y.link = k /\ y.id = i
  <2>1. [x EXCEPT !.wr = r] \in ConnType BY <1>6, <1>9, FieldType
  <2>2. y \in ConnType BY <1>10, <2>1, FieldType
  <2> QED BY <1>9, <1>10, <2>2 DEF ConnType
<1>12. PICK z : z = [y EXCEPT !.status = st] OBVIOUS
<1>13. /\ z.sock = cs[d].sock /\ z.client = cs[d].client
       /\ z.noid = cs[d].noid /\ z.fail = cs[d].fail /\ z.item = cs[d].item
       /\ z.json = cs[d].json /\ z.wm = cs[d].wm /\ z.link = k /\ z.id = i /\ z.status = st
  BY <1>11, <1>12 DEF ConnType
<1>14. AfterScan(cs, ws, w, s)[d] = z BY <1>7, <1>8, <1>10, <1>12
<1> QED BY <1>0, <1>2, <1>13, <1>14 DEF Refuses

\* The id that a rejected call is given.
LEMMA ScanId ==
    ASSUME NEW cs \in Objects, NEW ws, NEW w, NEW s \in Seq(OwnedMsg), NEW d \in Conns,
           calls \in [Conns -> 0 .. MaxCalls], NEW i \in Scanned(cs, ws, w, s), s[i].conn = d
    PROVE  CallId(cs, d, <<d, calls[d]>>) \in AllIds
<1>1. i \in DOMAIN s BY DEF Scanned
<1>2. s[i] \in OwnedMsg BY <1>1
<1>3. s[i].job \in Job /\ s[i].job[2] <= calls[s[i].job[1]] /\ s[i].conn \in {None, s[i].job[1]}
  BY <1>2 DEF OwnedMsg, MsgType
<1>4. s[i].job[1] = d BY <1>3, NoneAssumption
<1>5. s[i].job[2] \in 1 .. MaxCalls BY <1>3 DEF Job
<1>6. calls[d] \in 1 .. MaxCalls BY <1>3, <1>4, <1>5, BoundsAssumption
<1>7. Generated[<<d, calls[d]>>] \in AllIds BY <1>6, GeneratedAssumption DEF Job
<1>8. cs[d].id \in AllIds \cup {None}
  <2>1. cs[d] \in ConnType BY DEF Objects
  <2> QED BY <2>1, ObjectFields
<1>9. Ids \subseteq AllIds BY DEF AllIds
<1> QED BY <1>7, <1>8, <1>9 DEF CallId

\* What a scan leaves alone.
ScanKept(x, y) ==
    /\ y.sock = x.sock /\ y.client = x.client /\ y.noid = x.noid /\ y.fail = x.fail
    /\ y.item = x.item /\ y.json = x.json /\ y.wm = x.wm
    /\ x.status # "client_wait_result" => y.status = x.status /\ y.id = x.id

\* The client of the message that is handed out waits nowhere any more.
ScanTakes(cs, ds, ws, P, d) ==
    Free(ds, ws, P, d) /\ ds[d].status = cs[d].status /\ ds[d].id = cs[d].id

\* A verdict that concerns a client is about one that waits.
LEMMA VerdictWaits ==
    ASSUME NEW cs, NEW ws, NEW w, NEW m, Verdict(cs, ws, w, m) \in {"job", "noid", "collision"}
    PROVE  m.conn # None => cs[m.conn].sock = "open" /\ cs[m.conn].status = "client_wait_result"
  BY DEF Verdict, IsClosed

\* A scan in which every client is refused that is refused at all ...
LEMMA ScanConn ==
    ASSUME NEW cs \in Objects, NEW ws, NEW w, NEW s \in Seq(OwnedMsg), NEW d \in Conns,
           calls \in [Conns -> 0 .. MaxCalls], Scanned(cs, ws, w, s) \in Parts(s),
           NEW y, y = AfterScan(cs, ws, w, s)[d]
    PROVE  /\ ScanKept(cs[d], y)
           /\ y.link = cs[d].link - Lost(s, Scanned(cs, ws, w, s), Of(d))
           /\ ~Refused(cs, ws, w, s, d, "collision") /\ ~Refused(cs, ws, w, s, d, "noid")
                => y.status = cs[d].status /\ y.id = cs[d].id
           /\ \/ y.status = cs[d].status /\ y.id = cs[d].id
              \/ y.status = "busy"
              \/ y.status = "net" /\ \E i \in Scanned(cs, ws, w, s) : s[i].conn = d
           /\ y.status = cs[d].status \/ y.status = "net" \/ Refused(cs, ws, w, s, d, "noid")
<1>0. cs[d] \in ConnType BY DEF Objects
<1>1. PICK T : T = Scanned(cs, ws, w, s) OBVIOUS
<1>2. s \in Seq(MsgType)
  <2>1. OwnedMsg \in SUBSET MsgType BY DEF OwnedMsg
  <2> QED BY <2>1
<1>3. /\ Lost(s, T, Of(d)) = Cardinality({p \in T : s[p].conn = d}) /\ Lost(s, T, Of(d)) \in Nat
  <2>1. T \in Parts(s) BY <1>1
  <2> QED BY <1>2, <2>1, LostMessages
<1>4. PICK k : k = cs[d].link - Cardinality({p \in Scanned(cs, ws, w, s) : s[p].conn = d}) OBVIOUS
<1>5. PICK i : i = (IF Refused(cs, ws, w, s, d, "collision") THEN CallId(cs, d, <<d, calls[d]>>)
                    ELSE cs[d].id) OBVIOUS
<1>6. k \in Int
  <2>1. cs[d].link \in Int BY <1>0, ObjectFields
  <2> QED BY <1>1, <1>3, <1>4, <2>1
<1>7. i \in AllIds \cup {None}
  <2>1. CASE ~Refused(cs, ws, w, s, d, "collision")
    <3>1. cs[d].id \in AllIds \cup {None} BY <1>0, ObjectFields
    <3> QED BY <1>5, <2>1, <3>1
  <2>2. CASE Refused(cs, ws, w, s, d, "collision")
    <3>1. PICK p \in Scanned(cs, ws, w, s) : s[p].conn = d BY <2>2 DEF Refused
    <3>2. CallId(cs, d, <<d, calls[d]>>) \in AllIds BY <3>1, ScanId
    <3> QED BY <1>5, <2>2, <3>2
  <2> QED BY <2>1, <2>2
<1>8. Refuses(cs[d], y, Refused(cs, ws, w, s, d, "noid"),
              Refused(cs, ws, w, s, d, "collision"), k, i)
  BY <1>4, <1>5, <1>6, <1>7, ScanFields, Zenon
<1>9. Refused(cs, ws, w, s, d, "collision") \/ Refused(cs, ws, w, s, d, "noid")
        => cs[d].status = "client_wait_result"
  <2> SUFFICES ASSUME NEW v \in {"collision", "noid"}, Refused(cs, ws, w, s, d, v)
               PROVE  cs[d].status = "client_wait_result"
    OBVIOUS
  <2>1. PICK p \in Scanned(cs, ws, w, s) : s[p].conn = d /\ Verdict(cs, ws, w, s[p]) = v
    BY DEF Refused
  <2>2. d # None BY NoneAssumption
  <2> QED BY <2>1, <2>2, VerdictWaits
<1>10. Refused(cs, ws, w, s, d, "collision") => \E p \in Scanned(cs, ws, w, s) : s[p].conn = d
  BY DEF Refused
<1>11. y.link = cs[d].link - Lost(s, Scanned(cs, ws, w, s), Of(d))
  BY <1>1, <1>3, <1>4, <1>8 DEF Refuses
<1>12. ScanKept(cs[d], y) BY <1>5, <1>8, <1>9 DEF ScanKept, Refuses
<1> QED BY <1>5, <1>8, <1>10, <1>11, <1>12 DEF Refuses

\* A scan frees the clients it refuses, and the one it takes.
LEMMA ScanSound ==
    ASSUME NEW N, NEW cs \in Connections(N), NEW ws, NEW Q, Sound({}, cs, ws, Q), NEW n \in Names,
           NEW w \in Conns, Q[n].clients \in Seq(OwnedMsg), calls \in [Conns -> 0 .. MaxCalls],
           \A c \in Conns : cs[c].status # "net" => c \in N,
           NEW P \in Queues, Gone(Q, P, n, {}, Scanned(cs, ws, w, Q[n].clients))
    PROVE  /\ AfterScan(cs, ws, w, Q[n].clients) \in Connections(N)
           /\ Sound({}, AfterScan(cs, ws, w, Q[n].clients), ws, P)
           /\ \A d \in Conns : ScanKept(cs[d], AfterScan(cs, ws, w, Q[n].clients)[d])
           /\ \A k \in Scanned(cs, ws, w, Q[n].clients) :
                 Verdict(cs, ws, w, Q[n].clients[k]) = "job" /\ Q[n].clients[k].conn # None
                    => ScanTakes(cs, AfterScan(cs, ws, w, Q[n].clients), ws, P,
                                 Q[n].clients[k].conn)
<1>1. PICK s : s = Q[n].clients OBVIOUS
<1>2. PICK T : T = Scanned(cs, ws, w, s) OBVIOUS
<1>3. PICK ds : ds = AfterScan(cs, ws, w, s) OBVIOUS
<1>4. cs \in Objects /\ ws \in WaitType /\ Q \in Queues /\ Placed(cs, ws, Q)
      /\ (\A d \in Conns : Fits({}, d, cs[d]))
  BY DEF Sound
<1>5. ds \in Connections(N) BY <1>1, <1>3, <1>4, AfterScanType
<1>6. ds \in Objects BY <1>5, AreObjects
<1>7. s \in Seq(OwnedMsg) /\ T \in Parts(s) /\ Gone(Q, P, n, {}, T)
  BY <1>1, <1>2 DEF Gone, Erases
<1>8. s \in Seq(MsgType)
  <2>1. OwnedMsg \in SUBSET MsgType BY DEF OwnedMsg
  <2> QED BY <1>7, <2>1
<1>9. PICK lk : lk = [d \in Conns |-> LinkedTo(cs[d], cs[d].link - Lost(s, T, Of(d)))] OBVIOUS
<1>10. ASSUME NEW d \in Conns
       PROVE  /\ lk[d] \in ConnType /\ Same(cs[d], lk[d]) /\ lk[d].client = cs[d].client
              /\ lk[d].wm = cs[d].wm /\ lk[d].link = cs[d].link - Lost(s, T, Of(d))
              /\ cs[d].link - Lost(s, T, Of(d)) \in Int
  <2>1. PICK k : k = cs[d].link - Lost(s, T, Of(d)) OBVIOUS
  <2>2. cs[d] \in ConnType BY <1>4 DEF Objects
  <2>3. Lost(s, T, Of(d)) \in Nat BY <1>7, <1>8, LostMessages
  <2>4. k \in Int BY <2>1, <2>2, <2>3, ObjectFields
  <2>5. lk[d] = LinkedTo(cs[d], k) BY <1>9, <2>1
  <2>6. PICK x : x = cs[d] OBVIOUS
  <2>7. /\ LinkedTo(x, k) \in ConnType /\ Same(x, LinkedTo(x, k))
        /\ LinkedTo(x, k).client = x.client /\ LinkedTo(x, k).wm = x.wm
        /\ LinkedTo(x, k).link = k
    BY <2>2, <2>4, <2>6, LinkedDoes
  <2> QED BY <2>1, <2>4, <2>5, <2>6, <2>7
<1>11. lk \in Objects BY <1>9, <1>10 DEF Objects
<1>12. GivenBack(cs, lk, Q, n, {}, T)
  <2> SUFFICES ASSUME NEW d \in Conns
               PROVE  /\ Same(cs[d], lk[d]) /\ lk[d].client = cs[d].client
                      /\ lk[d].link = cs[d].link - Lost(Q[n].workers, {}, {d})
                                      - Lost(Q[n].clients, T, Of(d))
    BY DEF GivenBack
  <2>1. Lost(Q[n].workers, {}, {d}) = 0 BY LostNone
  <2>2. cs[d].link \in Int /\ Lost(s, T, Of(d)) \in Int
    <3>1. cs[d] \in ConnType BY <1>4 DEF Objects
    <3>2. Lost(s, T, Of(d)) \in Nat BY <1>7, <1>8, LostMessages
    <3> QED BY <3>1, <3>2, ObjectFields
  <2> QED BY <1>1, <1>10, <2>1, <2>2
<1> HIDE DEF NoPlace
<1>13. /\ Sound({}, lk, ws, P)
       /\ \A d \in Conns : cs[d].sock = "open" /\ (\E i \in T : s[i].conn = d)
                              => NoPlace(lk, ws, P, d)
  BY <1>1, <1>7, <1>11, <1>12, GoneSound
<1>14. ASSUME NEW d \in Conns
       PROVE  /\ ScanKept(cs[d], ds[d]) /\ ds[d].link = lk[d].link
              /\ ~Refused(cs, ws, w, s, d, "collision") /\ ~Refused(cs, ws, w, s, d, "noid")
                   => ds[d].status = cs[d].status /\ ds[d].id = cs[d].id
              /\ \/ ds[d].status = cs[d].status /\ ds[d].id = cs[d].id
                 \/ ds[d].status = "busy"
                 \/ ds[d].status = "net" /\ \E i \in T : s[i].conn = d
  <2>1. PICK y : y = AfterScan(cs, ws, w, s)[d] OBVIOUS
  <2>2. Scanned(cs, ws, w, s) \in Parts(s) BY <1>2, <1>7
  <2> QED BY <1>2, <1>3, <1>4, <1>7, <1>10, <2>1, <2>2, ScanConn
<1>15. ASSUME NEW d \in Conns
       PROVE  Quiet({}, d, lk[d], ds[d], NoPlace(lk, ws, P, d))
  <2>1. Same(cs[d], lk[d]) /\ lk[d].client = cs[d].client BY <1>10
  <2>2. ScanKept(cs[d], ds[d]) /\ ds[d].link = lk[d].link
        /\ \/ ds[d].status = cs[d].status /\ ds[d].id = cs[d].id
           \/ ds[d].status = "busy"
           \/ ds[d].status = "net" /\ \E i \in T : s[i].conn = d
    BY <1>14
  <2>3. /\ ds[d].sock = lk[d].sock /\ ds[d].item = lk[d].item /\ ds[d].client = lk[d].client
        /\ ds[d].noid = lk[d].noid /\ ds[d].fail = lk[d].fail /\ ds[d].json = lk[d].json
        /\ lk[d].status = cs[d].status /\ lk[d].sock = cs[d].sock /\ lk[d].id = cs[d].id
    BY <2>1, <2>2 DEF Same, ScanKept
  <2>4. Weight(ds[d]) = Weight(lk[d]) BY <2>2, <2>3, WeightAlike
  <2>5. Fits({}, d, lk[d]) BY <1>13 DEF Sound
  <2>6. Fits({}, d, ds[d]) BY <2>2, <2>3, <2>5 DEF Fits, Unclaimed
  <2>7. ds[d].sock = "open" =>
           ds[d].status \in WaitsFor \/ lk[d].status \notin WaitsFor \/ NoPlace(lk, ws, P, d)
    BY <1>13, <2>2, <2>3 DEF WaitsFor
  <2>8. ds[d].status = "client_wait_result" =>
           lk[d].status = "client_wait_result" /\ ds[d].json = lk[d].json /\ ds[d].id = lk[d].id
    BY <2>2, <2>3
  <2> QED BY <2>3, <2>4, <2>6, <2>7, <2>8 DEF Quiet
<1>16. Sound({}, ds, ws, P) BY <1>6, <1>13, <1>15, QuietSound
<1>17. ASSUME NEW k \in T, Verdict(cs, ws, w, s[k]) = "job", s[k].conn # None
       PROVE  ScanTakes(cs, ds, ws, P, s[k].conn)
  <2>1. PICK d : d = s[k].conn OBVIOUS
  <2>2. k \in DOMAIN s BY <1>7 DEF Parts
  <2>3. d \in Conns
    <3>1. s[k] \in MsgType BY <1>8, <2>2
    <3> QED BY <1>17, <2>1, <3>1 DEF MsgType
  <2>4. cs[d].sock = "open" /\ cs[d].status = "client_wait_result" BY <1>17, <2>1, VerdictWaits
  <2>5. Single(Queued(Q, d)) BY <1>4, <2>3, <2>4 DEF Placed, OnePlace
  <2>6. ASSUME NEW v \in {"noid", "collision"}, Refused(cs, ws, w, s, d, v)
        PROVE  FALSE
    <3>1. PICK i \in T : s[i].conn = d /\ Verdict(cs, ws, w, s[i]) = v
      BY <1>2, <2>6 DEF Refused
    <3>2. i \in DOMAIN s BY <1>7 DEF Parts
    <3>3. <<n, i>> \in Queued(Q, d) /\ <<n, k>> \in Queued(Q, d)
      BY <1>1, <1>4, <2>1, <2>2, <3>1, <3>2, QueuedAt
    <3>4. i = k BY <2>5, <3>3 DEF Single
    <3> QED BY <1>17, <2>6, <3>1, <3>4
  <2>7. ds[d].status = cs[d].status /\ ds[d].id = cs[d].id BY <1>14, <2>3, <2>6
  <2>8. ds[d].sock = "open" BY <1>14, <2>3, <2>4 DEF ScanKept
  <2>9. NoPlace(lk, ws, P, d) BY <1>13, <2>1, <2>3, <2>4
  <2>10. Served(ds, d) = Served(lk, d)
    <3>1. \A x \in Conns : ds[x].client = lk[x].client /\ ds[x].noid = lk[x].noid
      BY <1>10, <1>14 DEF Same, ScanKept
    <3> QED BY <3>1 DEF Served
  <2>11. NoPlace(ds, ws, P, d) BY <2>9, <2>10 DEF NoPlace
  <2> QED BY <2>1, <2>4, <2>7, <2>8, <2>11 DEF ScanTakes, Free, WaitsFor
<1> QED BY <1>1, <1>2, <1>3, <1>5, <1>14, <1>16, <1>17

-----------------------------------------------------------------------------
(* The invariant *)

\* A worker that is being added to its queues has no client, and does not wait.
Joining(x) ==
    /\ x.sock = "open" /\ x.client = None /\ x.status \notin WaitsFor
    /\ x.noid => x.fail

AddingOk == adding.conn # None => Joining(conn[adding.conn])

LinkState == Sound({}, conn, wait, queue) /\ AddingOk

\* When the loop thread has ended, the counts need not be right any more, but
\* the pointers still are.
LinkInv == IInv /\ PointsToLive(conn, wait, queue) /\ (alive => LinkState)

\* What a step of the loop has to show.
LinkStep ==
    /\ PointsToLive(conn', wait', queue')
    /\ alive' => Sound({}, conn', wait', queue') /\ AddingOk'

LEMMA LinkStepSound ==
    ASSUME Sound({}, conn', wait', queue'), AddingOk'
    PROVE  LinkStep
  BY DEF LinkStep, Sound

LEMMA IdleOk ==
    ASSUME adding' = Idle
    PROVE  AddingOk'
  BY DEF AddingOk, Idle

\* Queues of owned messages are queues.
LEMMA LinesAreQueues ==
    ASSUME NEW S \in SUBSET MsgType, NEW Q \in [Names -> LineOf(S)]
    PROVE  Q \in Queues
<1>1. ASSUME NEW n \in Names PROVE Q[n] \in QueueType
  <2>1. Q[n] \in LineOf(S) OBVIOUS
  <2>2. Seq(S) \subseteq Seq(MsgType) OBVIOUS
  <2> QED BY <2>1, <2>2 DEF LineOf, QueueType
<1> QED BY <1>1 DEF Queues

LEMMA QueuesAre ==
    ASSUME QueueInv
    PROVE  queue \in Queues
<1>1. OwnedMsg \in SUBSET MsgType BY DEF OwnedMsg
<1>2. queue \in [Names -> LineOf(OwnedMsg)] BY DEF QueueInv, LineType
<1> QED BY <1>1, <1>2, LinesAreQueues

LEMMA QueuesAreNext ==
    ASSUME QueueInv'
    PROVE  queue' \in Queues
<1>1. OwnedMsg' \in SUBSET MsgType BY DEF OwnedMsg
<1>2. queue' \in [Names -> LineOf(OwnedMsg')] BY DEF QueueInv, LineType, LineOf
<1> QED BY <1>1, <1>2, LinesAreQueues

-----------------------------------------------------------------------------
(* Every step keeps the links right: closing a connection *)

LEMMA PeerCloseLinks ==
    ASSUME OwnHeaderIds, IInv, LinkState, NEW c \in Conns, PeerClose(c)
    PROVE  LinkStep
<1>1. conn[c].sock = "open" /\ adding = Idle BY DEF PeerClose, LoopReady, IsClosed
<1>2. Disconnect(conn, wait, c) /\ queue' = queue /\ adding' = adding BY DEF PeerClose
<1>3. PointsToLive(conn', wait', queue) /\ (alive' => Sound({}, conn', wait', queue))
  BY <1>1, <1>2, DisconnectSound DEF LinkState
<1>4. AddingOk' BY <1>1, <1>2, IdleOk
<1> QED BY <1>2, <1>3, <1>4 DEF LinkStep

\* The buffers of a Connect.
Buffered(x, o, b, k) == [x EXCEPT !.out = o, !.wr = b, !.dm = k]

LEMMA BuffersDo ==
    ASSUME NEW x \in ConnType, NEW o \in Int, NEW b \in BOOLEAN, NEW k \in Int
    PROVE  /\ Buffered(x, o, b, k) \in ConnType /\ Alike(x, Buffered(x, o, b, k))
           /\ Buffered(x, o, b, k).wm = x.wm
<1>1. PICK y : y = [x EXCEPT !.out = o, !.wr = b] OBVIOUS
<1>2. y \in ConnType /\ Alike(x, y) /\ y.wm = x.wm
  <2>1. PICK z : z = [x EXCEPT !.out = o] OBVIOUS
  <2>2. z \in ConnType BY <2>1, FieldType
  <2>3. y = [z EXCEPT !.wr = b] BY <1>1, <2>1
  <2>4. y \in ConnType BY <2>2, <2>3, FieldType
  <2> QED BY <1>1, <2>4 DEF ConnType, Alike, Same
<1>3. PICK z : z = [y EXCEPT !.dm = k] OBVIOUS
<1>4. z \in ConnType BY <1>2, <1>3, FieldType
<1>5. Alike(y, z) /\ z.wm = y.wm BY <1>2, <1>3, <1>4 DEF ConnType, Alike, Same
<1>6. Buffered(x, o, b, k) = z BY <1>1, <1>3 DEF Buffered
<1> QED BY <1>2, <1>4, <1>5, <1>6 DEF Alike, Same

\* The buffers of one Connect change.
Rebuffers(cs, ds, c, o, b, k) == ds = [cs EXCEPT ![c] = Buffered(cs[c], o, b, k)]

LEMMA BufferSound ==
    ASSUME NEW X, NEW cs, NEW ws, NEW Q, Sound(X, cs, ws, Q), NEW c \in Conns,
           NEW o \in Int, NEW b \in BOOLEAN, NEW k \in Int,
           NEW ds, Rebuffers(cs, ds, c, o, b, k)
    PROVE  Sound(X, ds, ws, Q) /\ \A d \in Conns : Alike(cs[d], ds[d])
<1>1. cs \in Objects BY DEF Sound
<1>2. cs[c] \in ConnType BY <1>1 DEF Objects
<1>3. PICK y : y = Buffered(cs[c], o, b, k) OBVIOUS
<1>4. y \in ConnType /\ Alike(cs[c], y) /\ y.wm = cs[c].wm BY <1>2, <1>3, BuffersDo
<1>5. ds \in Objects BY <1>1, <1>3, <1>4 DEF Objects, Rebuffers
<1>6. \A d \in Conns : Alike(cs[d], ds[d])
  BY <1>1, <1>3, <1>4 DEF Objects, Alike, Same, Rebuffers
<1> QED BY <1>5, <1>6, AlikeSound

LEMMA OnSendLinks ==
    ASSUME OwnHeaderIds, IInv, LinkState, NEW c \in Conns, OnSend(c)
    PROVE  LinkStep
<1>1. conn[c].sock = "open" /\ adding = Idle BY DEF OnSend, LoopReady, IsClosed
<1>2. Sound({}, conn, wait, queue) /\ conn \in Objects BY DEF LinkState, Sound
<1>3. conn[c] \in ConnType BY <1>2 DEF Objects
<1>4. PICK k : k = IF conn[c].out > 0 THEN conn[c].out ELSE IF conn[c].dm > 0 THEN 1 ELSE 0
  OBVIOUS
<1>5. PICK m : m = IF conn[c].out = 0 THEN conn[c].dm - k ELSE conn[c].dm OBVIOUS
<1>6. k \in Int /\ m \in Int
  <2>1. conn[c].out \in Int /\ conn[c].dm \in Int BY <1>3, ObjectFields
  <2> QED BY <1>4, <1>5, <2>1
<1>7. PICK cs : cs = [conn EXCEPT ![c] = Buffered(conn[c], 0, FALSE, m)] OBVIOUS
<1>8. Sound({}, cs, wait, queue) /\ \A d \in Conns : Alike(conn[d], cs[d])
  <2>1. PICK o, b : o = 0 /\ b = FALSE OBVIOUS
  <2>2. Rebuffers(conn, cs, c, o, b, m) BY <1>7, <2>1 DEF Rebuffers
  <2>3. o \in Int BY <2>1
  <2>4. b \in BOOLEAN BY <2>1, Zenon
  <2> QED BY <1>2, <1>6, <2>2, <2>3, <2>4, BufferSound
<1>9. cs[c].sock = "open" BY <1>1, <1>8 DEF Alike, Same
<1>10. cs = [conn EXCEPT ![c].out = 0, ![c].wr = FALSE,
                         ![c].dm = IF conn[c].out = 0 THEN @ - k ELSE @]
  BY <1>2, <1>5, <1>7 DEF Buffered, Objects
<1>11. /\ IF conn[c].ka THEN conn' = cs /\ wait' = wait /\ alive' = alive
          ELSE Disconnect(cs, wait, c)
       /\ queue' = queue /\ adding' = adding
  BY <1>4, <1>10 DEF OnSend
<1>12. AddingOk' BY <1>1, <1>11, IdleOk
<1>13. CASE conn[c].ka BY <1>8, <1>11, <1>12, <1>13, LinkStepSound
<1>14. CASE ~conn[c].ka
  <2>1. PointsToLive(conn', wait', queue) /\ (alive' => Sound({}, conn', wait', queue))
    BY <1>8, <1>9, <1>11, <1>14, DisconnectSound
  <2> QED BY <1>11, <1>12, <2>1 DEF LinkStep
<1> QED BY <1>13, <1>14

LEMMA OnSendPartLinks ==
    ASSUME IInv, LinkState, NEW c \in Conns, OnSendPart(c)
    PROVE  LinkStep
<1>1. adding = Idle BY DEF OnSendPart, LoopReady
<1>2. Sound({}, conn, wait, queue) /\ conn \in Objects BY DEF LinkState, Sound
<1>3. conn[c] \in ConnType BY <1>2 DEF Objects
<1>4. conn[c].dm \in Int /\ conn[c].wr \in BOOLEAN BY <1>3, ObjectFields
<1>5. PICK m, b : m = conn[c].dm - 1 /\ b = conn[c].wr OBVIOUS
<1>6. conn' = [conn EXCEPT ![c] = Buffered(conn[c], 1, b, m)]
  <2>1. [conn[c] EXCEPT !.out = 1, !.dm = @ - 1] = Buffered(conn[c], 1, b, m)
    BY <1>3, <1>5 DEF Buffered, ConnType
  <2>2. conn' = [conn EXCEPT ![c] = [conn[c] EXCEPT !.out = 1, !.dm = @ - 1]]
    BY <1>2 DEF OnSendPart, Objects
  <2> QED BY <2>1, <2>2
<1>7. m \in Int /\ b \in BOOLEAN BY <1>4, <1>5
<1>8. wait' = wait /\ queue' = queue /\ adding' = adding BY DEF OnSendPart
<1>9. Sound({}, conn', wait, queue)
  <2>1. PICK o : o = 1 OBVIOUS
  <2>2. Rebuffers(conn, conn', c, o, b, m) BY <1>6, <2>1 DEF Rebuffers
  <2>3. o \in Int BY <2>1
  <2> QED BY <1>2, <1>7, <2>2, <2>3, BufferSound
<1> QED BY <1>1, <1>8, <1>9, IdleOk, LinkStepSound

-----------------------------------------------------------------------------
(* A request arrives *)

LEMMA ArrivalFacts ==
    ASSUME IInv, NEW c \in Conns, NEW r \in Requests[c], Arrives(c, r)
    PROVE  r \in RequestType /\ adding = Idle /\ conn[c].sock = "open"
<1>1. r \in RequestType /\ adding = Idle BY ArrivesFacts
<1> QED BY <1>1 DEF Arrives, IsClosed

LEMMA RecvNotReadyLinks ==
    ASSUME IInv, LinkState, NEW c \in Conns, NEW r \in Requests[c], RecvNotReady(c, r)
    PROVE  LinkStep
<1>1. adding = Idle BY ArrivalFacts DEF RecvNotReady
<1>2. conn' = conn /\ wait' = wait /\ queue' = queue /\ adding' = adding
  BY DEF RecvNotReady, brokerVars
<1> QED BY <1>1, <1>2, IdleOk, LinkStepSound DEF LinkState

\* A connection that does not wait may get any id.
IdSet(cs, c, v) == [cs EXCEPT ![c].id = v]

\* Nothing changes but the id.
Renamed(x, y, v) ==
    /\ y.sock = x.sock /\ y.item = x.item /\ y.link = x.link /\ y.client = x.client
    /\ y.noid = x.noid /\ y.fail = x.fail /\ y.status = x.status /\ y.json = x.json
    /\ y.wm = x.wm /\ y.id = v

LEMMA IdDoes ==
    ASSUME NEW cs \in Objects, NEW c \in Conns, NEW v \in AllIds \cup {None}
    PROVE  /\ IdSet(cs, c, v) \in Objects
           /\ \A d \in Conns : d # c => IdSet(cs, c, v)[d] = cs[d]
           /\ Renamed(cs[c], IdSet(cs, c, v)[c], v)
<1>1. PICK x : x = cs[c] OBVIOUS
<1>2. x \in ConnType BY <1>1 DEF Objects
<1>3. PICK y : y = [x EXCEPT !.id = v] OBVIOUS
<1>4. y \in ConnType BY <1>2, <1>3, FieldType
<1>5. Renamed(x, y, v) BY <1>2, <1>3, <1>4 DEF ConnType, Renamed
<1>6. IdSet(cs, c, v) = [cs EXCEPT ![c] = y] BY <1>1, <1>3 DEF Objects, IdSet
<1> QED BY <1>1, <1>4, <1>5, <1>6 DEF Objects

LEMMA IdSound ==
    ASSUME NEW cs, NEW ws, NEW Q, Sound({}, cs, ws, Q), NEW c \in Conns,
           NEW v \in AllIds \cup {None}, cs[c].status # "client_wait_result"
    PROVE  Sound({}, IdSet(cs, c, v), ws, Q)
<1>1. cs \in Objects /\ Fits({}, c, cs[c]) BY DEF Sound
<1>2. PICK ds : ds = IdSet(cs, c, v) OBVIOUS
<1>3. ds \in Objects /\ Renamed(cs[c], ds[c], v) BY <1>1, <1>2, IdDoes
<1>4. Weight(ds[c]) = Weight(cs[c]) BY <1>3, WeightAlike DEF Renamed
<1>5. Fits({}, c, ds[c]) BY <1>1, <1>3 DEF Fits, Renamed
<1>6. ds[c] \in ConnType BY <1>3 DEF Objects
<1> HIDE DEF NoPlace
<1>7. Quiet({}, c, cs[c], ds[c], NoPlace(cs, ws, Q, c)) BY <1>3, <1>4, <1>5 DEF Quiet, Renamed
<1>8. Sound({}, [cs EXCEPT ![c] = ds[c]], ws, Q) BY <1>6, <1>7, QuietOne
<1>9. ds = [cs EXCEPT ![c] = ds[c]] BY <1>1, <1>2 DEF Objects, IdSet
<1> QED BY <1>2, <1>8, <1>9

LEMMA RecvThrowsLinks ==
    ASSUME OwnHeaderIds, IInv, LinkState, NEW c \in Conns, NEW r \in Requests[c],
           RecvThrows(c, r)
    PROVE  LinkStep
<1>1. adding = Idle /\ conn[c].sock = "open" BY ArrivalFacts DEF RecvThrows
<1>2. conn[c].status # "client_wait_result" BY DEF RecvThrows, Ready
<1>3. PICK cs : cs = IdSet(conn, c, None) OBVIOUS
<1>4. Sound({}, cs, wait, queue) /\ cs[c].sock = "open"
  <2>1. PICK v \in AllIds \cup {None} : v = None OBVIOUS
  <2>2. Sound({}, conn, wait, queue) /\ conn \in Objects BY DEF LinkState, Sound
  <2>3. Sound({}, IdSet(conn, c, v), wait, queue) BY <1>2, <2>2, IdSound
  <2>4. Renamed(conn[c], IdSet(conn, c, v)[c], v) BY <2>2, IdDoes
  <2> QED BY <1>1, <1>3, <2>1, <2>3, <2>4 DEF Renamed
<1>5. Disconnect(cs, wait, c) /\ queue' = queue /\ adding' = adding
  BY <1>3 DEF RecvThrows, IdSet
<1>6. PointsToLive(conn', wait', queue) /\ (alive' => Sound({}, conn', wait', queue))
  BY <1>4, <1>5, DisconnectSound
<1> QED BY <1>1, <1>5, <1>6, IdleOk DEF LinkStep

\* A request that begins.
LEMMA StartLinks ==
    ASSUME IInv, LinkState, NEW c \in Conns, NEW r \in Requests[c], Parsed(c, r)
    PROVE  /\ r \in RequestType /\ adding = Idle
           /\ conn \in Connections(Named) /\ Start(conn, c, r) \in Connections(Named)
           /\ Sound({}, Start(conn, c, r), wait, queue)
           /\ Started(conn, Start(conn, c, r), c, r)
           /\ conn[c].sock = "open" /\ Start(conn, c, r)[c].sock = "open"
           /\ conn[c].status \notin WaitsFor
<1>1. /\ r \in RequestType /\ adding = Idle
      /\ conn \in Connections(Named) /\ Start(conn, c, r) \in Connections(Named)
  BY ParsedFacts
<1>2. conn[c].sock = "open" BY ArrivalFacts DEF Parsed
<1>3. conn[c].status \notin WaitsFor BY DEF Parsed, Ready, WaitsFor
<1>4. Sound({}, conn, wait, queue) BY DEF LinkState
<1>5. Sound({}, Start(conn, c, r), wait, queue) /\ Started(conn, Start(conn, c, r), c, r)
  BY <1>1, <1>3, <1>4, StartSound
<1>6. Start(conn, c, r)[c].sock = "open" BY <1>2, <1>5 DEF Started
<1> QED BY <1>1, <1>2, <1>3, <1>5, <1>6

\* A plain connection has no client, and waits for nothing.
LEMMA PlainLinks ==
    ASSUME IInv, LinkState, NEW c \in Conns, NEW r \in Requests[c], NEW ops, Plain(c, r, ops)
    PROVE  /\ Parsed(c, r) /\ r.op \in ops /\ conn[c].status = "net" /\ ~conn[c].wm
           /\ Start(conn, c, r)[c].status = "net" /\ ~Start(conn, c, r)[c].wm
           /\ Start(conn, c, r)[c].client = None
           /\ ~Start(conn, c, r)[c].noid /\ ~Start(conn, c, r)[c].fail
<1>1. Parsed(c, r) /\ r.op \in ops /\ conn[c].status = "net" BY PlainFacts
<1>2. ~conn[c].wm BY DEF Plain
<1>3. Started(conn, Start(conn, c, r), c, r) BY <1>1, StartLinks
<1> QED BY <1>1, <1>2, <1>3 DEF Started

\* A request is answered, and nothing else changes.
LEMMA AnswerLinks ==
    ASSUME IInv, LinkState, NEW c \in Conns, NEW r \in Requests[c], Parsed(c, r),
           conn' = Send(Start(conn, c, r), c), wait' = wait, queue' = queue, adding' = adding
    PROVE  LinkStep
<1>1. Sound({}, Start(conn, c, r), wait, queue) /\ adding = Idle BY StartLinks
<1>2. Sound({}, conn', wait, queue) BY <1>1, SendSound
<1> QED BY <1>1, <1>2, IdleOk, LinkStepSound

LEMMA RecvEchoLinks ==
    ASSUME IInv, LinkState, NEW c \in Conns, NEW r \in Requests[c], RecvEcho(c, r)
    PROVE  LinkStep
  BY AnswerLinks DEF RecvEcho

LEMMA RecvCallNoQueueLinks ==
    ASSUME IInv, LinkState, NEW c \in Conns, NEW r \in Requests[c], RecvCallNoQueue(c, r)
    PROVE  LinkStep
  BY AnswerLinks DEF RecvCallNoQueue, Call, Plain

\* A queue is made; its lines stay.
LEMMA ExistsSound ==
    ASSUME NEW X, NEW cs, NEW ws, NEW Q, Sound(X, cs, ws, Q), NEW P \in Queues,
           \A n \in Names : P[n].workers = Q[n].workers /\ P[n].clients = Q[n].clients
    PROVE  Sound(X, cs, ws, P)
<1>1. \A d \in Conns : Listed(P, d) = Listed(Q, d) /\ Queued(P, d) = Queued(Q, d)
  BY DEF Listed, Queued
<1>2. Placed(cs, ws, P)
  BY <1>1 DEF Sound, Placed, OnePlace, NoPlace
<1>3. Counted(X, cs, ws, P) BY <1>1 DEF Sound, Counted, Bounded, QueueCount
<1>4. PointsToLive(cs, ws, P) BY DEF Sound, PointsToLive
<1> QED BY <1>2, <1>3, <1>4 DEF Sound

LEMMA RecvCreateLinks ==
    ASSUME IInv, LinkState, NEW c \in Conns, NEW r \in Requests[c], RecvCreate(c, r), IInv'
    PROVE  LinkStep
<1>1. Parsed(c, r) BY DEF RecvCreate, Plain
<1>2. Sound({}, Start(conn, c, r), wait, queue) /\ adding = Idle BY <1>1, StartLinks
<1>3. Sound({}, conn', wait, queue) BY <1>2, SendSound DEF RecvCreate
<1>4. queue' \in Queues BY QueuesAreNext DEF IInv
<1>5. \A n \in Names : queue'[n].workers = queue[n].workers /\ queue'[n].clients = queue[n].clients
  BY DEF RecvCreate, IInv, QueueInv
<1>6. Sound({}, conn', wait, queue') BY <1>3, <1>4, <1>5, ExistsSound
<1>7. wait' = wait /\ adding' = adding BY DEF RecvCreate
<1> QED BY <1>2, <1>6, <1>7, IdleOk, LinkStepSound

-----------------------------------------------------------------------------
(* Results *)

\* Nobody waits with the status "net".
LEMMA NetSound ==
    ASSUME NEW X, NEW cs, NEW ws, NEW Q, Sound(X, cs, ws, Q), NEW c \in Conns,
           cs[c].status \notin WaitsFor
    PROVE  Sound(X, SetStatus(cs, c, "net"), ws, Q)
<1>1. PICK s \in Statuses : s = "net" BY Values
<1>2. s \notin WaitsFor /\ s # "client_wait_result" /\ s \notin Unclaimed
  BY <1>1 DEF WaitsFor, Unclaimed
<1> HIDE DEF NoPlace
<1>3. Sound(X, SetStatus(cs, c, s), ws, Q) BY <1>2, StatusSound
<1> QED BY <1>1, <1>3

LEMMA RecvNoIdLinks ==
    ASSUME OwnHeaderIds, IInv, LinkState, NEW c \in Conns, NEW r \in Requests[c],
           RecvNoId(c, r)
    PROVE  LinkStep
<1>1. PICK cs : cs = Start(conn, c, r) OBVIOUS
<1>2. Parsed(c, r) /\ cs[c].noid /\ queue' = queue /\ adding' = adding
  BY <1>1 DEF RecvNoId
<1>3. /\ Sound({}, cs, wait, queue) /\ Started(conn, cs, c, r) /\ cs[c].sock = "open"
      /\ adding = Idle /\ conn[c].status \notin WaitsFor
  BY <1>1, <1>2, StartLinks
<1>4. CASE r.op # "result"
  <2>1. conn' = Send(Start(conn, c, r), c) /\ wait' = wait BY <1>4 DEF RecvNoId
  <2> QED BY <1>2, <2>1, AnswerLinks
<1>5. CASE r.op = "result" /\ cs[c].client = None
  <2>1. Disconnect(cs, wait, c) BY <1>1, <1>5 DEF RecvNoId
  <2>2. PointsToLive(conn', wait', queue) /\ (alive' => Sound({}, conn', wait', queue))
    BY <1>3, <2>1, DisconnectSound
  <2> QED BY <1>2, <1>3, <2>2, IdleOk DEF LinkStep
<1>6. CASE r.op = "result" /\ cs[c].client # None
  <2>1. conn' = Send(SetStatus(NoIdResult(cs, c), c, "net"), c) /\ wait' = wait
    BY <1>1, <1>6 DEF RecvNoId
  <2>2. Sound({}, NoIdResult(cs, c), wait, queue) /\ Rid(cs[c], NoIdResult(cs, c)[c])
    BY <1>2, <1>3, <1>6, NoIdResultDoes
  <2>3. NoIdResult(cs, c)[c].status \notin WaitsFor
    BY <1>3, <2>2 DEF Rid, Started, WaitsFor
  <2>4. Sound({}, SetStatus(NoIdResult(cs, c), c, "net"), wait, queue)
    BY <2>2, <2>3, NetSound
  <2>5. Sound({}, conn', wait, queue) BY <2>1, <2>4, SendSound
  <2> QED BY <1>2, <1>3, <2>1, <2>5, IdleOk, LinkStepSound
<1> QED BY <1>4, <1>5, <1>6

LEMMA RecvResultLinks ==
    ASSUME IInv, LinkState, NEW c \in Conns, NEW r \in Requests[c], RecvResult(c, r)
    PROVE  LinkStep
<1>1. PICK cs : cs = Start(conn, c, r) OBVIOUS
<1>2. Plain(c, r, {"result"}) BY DEF RecvResult
<1>3. Parsed(c, r) /\ cs[c].status = "net" BY <1>1, <1>2, PlainLinks
<1>4. Sound({}, cs, wait, queue) /\ adding = Idle /\ r \in RequestType
  BY <1>1, <1>3, StartLinks
<1>5. PICK i : i = IF r.id # None THEN r.id ELSE IF r.json \in Ids THEN r.json ELSE None
  OBVIOUS
<1>6. i # None => i \in AllIds
  <2>1. r.id \in AllIds \cup {None} BY <1>4, RequestFacts
  <2> QED BY <1>5, <2>1 DEF AllIds
<1>7. PICK ds : ds = IF i # None /\ wait[i] # None THEN ResultClient(cs, wait, i) ELSE cs
  OBVIOUS
<1>8. /\ conn' = SetStatus(Send(ds, c), c, "net")
      /\ wait' = IF i # None /\ wait[i] # None THEN [wait EXCEPT ![i] = None] ELSE wait
      /\ queue' = queue /\ adding' = adding
  BY <1>1, <1>5, <1>7 DEF RecvResult
<1>9. Sound({}, ds, wait', queue) /\ ds[c].status = "net"
  <2>1. CASE i # None /\ wait[i] # None
    <3>1. i \in AllIds BY <1>6, <2>1
    <3>2. Sound({}, ds, wait', queue) BY <1>4, <1>7, <1>8, <2>1, <3>1, ResultSound
    <3>3. cs \in Objects /\ wait \in WaitType BY <1>4 DEF Sound
    <3>4. wait[i] \in Conns BY <2>1, <3>1, <3>3 DEF WaitType
    <3>5. PICK b \in Conns : wait[i] = b BY <3>4
    <3>6. PICK es : es = ResultClient(cs, wait, i) OBVIOUS
    <3>7. /\ \A d \in Conns : d # b => Alike(cs[d], es[d])
          /\ es[b].status = IF cs[b].sock = "open" THEN "net" ELSE cs[b].status
      BY <3>3, <3>5, <3>6, ResultDoes
    <3>8. es[c].status = "net" BY <1>3, <3>7 DEF Alike, Same
    <3> QED BY <1>7, <2>1, <3>2, <3>6, <3>8
  <2>2. CASE ~(i # None /\ wait[i] # None)
    BY <1>3, <1>4, <1>7, <1>8, <2>2
  <2> QED BY <2>1, <2>2
<1>10. Sound({}, Send(ds, c), wait', queue) BY <1>9, SendSound
<1>11. Send(ds, c)[c].status \notin WaitsFor
  <2>1. ds \in Objects BY <1>9 DEF Sound
  <2>2. Alike(ds[c], Send(ds, c)[c]) BY <2>1, SendDoes
  <2> QED BY <1>9, <2>2 DEF Alike, Same, WaitsFor
<1>12. Sound({}, conn', wait', queue) BY <1>8, <1>10, <1>11, NetSound
<1> QED BY <1>4, <1>8, <1>12, IdleOk, LinkStepSound

\* Worker mode is switched on or off.
ModeSet(cs, c, b) == [cs EXCEPT ![c].wm = b]

LEMMA ModeSound ==
    ASSUME NEW X, NEW cs, NEW ws, NEW Q, Sound(X, cs, ws, Q), NEW c \in Conns, NEW b \in BOOLEAN
    PROVE  /\ Sound(X, ModeSet(cs, c, b), ws, Q)
           /\ \A d \in Conns : Alike(cs[d], ModeSet(cs, c, b)[d])
<1>1. cs \in Objects BY DEF Sound
<1>2. PICK x : x = cs[c] OBVIOUS
<1>3. x \in ConnType BY <1>1, <1>2 DEF Objects
<1>4. PICK y : y = [x EXCEPT !.wm = b] OBVIOUS
<1>5. y \in ConnType BY <1>3, <1>4, FieldType
<1>6. Alike(x, y) BY <1>3, <1>4, <1>5 DEF ConnType, Alike, Same
<1>7. PICK ds : ds = ModeSet(cs, c, b) OBVIOUS
<1>8. ds = [cs EXCEPT ![c] = y] BY <1>1, <1>2, <1>4, <1>7 DEF ModeSet, Objects
<1>9. ds \in Objects BY <1>1, <1>5, <1>8 DEF Objects
<1>10. \A d \in Conns : Alike(cs[d], ds[d])
  BY <1>1, <1>2, <1>6, <1>8 DEF Objects, Alike, Same
<1> QED BY <1>7, <1>9, <1>10, AlikeSound

LEMMA RecvWorkerModeLinks ==
    ASSUME OwnHeaderIds, IInv, LinkState, NEW c \in Conns, NEW r \in Requests[c],
           RecvWorkerMode(c, r)
    PROVE  LinkStep
<1>1. PICK cs : cs = Start(conn, c, r) OBVIOUS
<1>2. PICK ds : ds = IF cs[c].status = "worker_mode_async" THEN cs ELSE NoIdResult(cs, c) OBVIOUS
<1>3. Parsed(c, r) /\ conn[c].wm /\ queue' = queue BY DEF RecvWorkerMode
<1>4. /\ Sound({}, cs, wait, queue) /\ Started(conn, cs, c, r) /\ cs[c].sock = "open"
      /\ adding = Idle /\ conn[c].status \notin WaitsFor
  BY <1>1, <1>3, StartLinks
<1>5. /\ \/ conn[c].status = "worker_mode_async"
         \/ conn[c].status = "worker_wait_result" /\ conn[c].noid
      /\ cs[c].status = conn[c].status /\ cs[c].noid = conn[c].noid /\ cs[c].wm
  BY <1>3, <1>4 DEF Parsed, StartThrows, Started
<1>6. CASE cs[c].status # "worker_mode_async" /\ cs[c].client = None
  <2>1. Disconnect(cs, wait, c) /\ adding' = adding BY <1>1, <1>6 DEF RecvWorkerMode
  <2>2. PointsToLive(conn', wait', queue) /\ (alive' => Sound({}, conn', wait', queue))
    BY <1>4, <2>1, DisconnectSound
  <2> QED BY <1>3, <1>4, <2>1, <2>2, IdleOk DEF LinkStep
<1>7. CASE ~(cs[c].status # "worker_mode_async" /\ cs[c].client = None)
  <2>1. /\ Sound({}, ds, wait, queue) /\ ds[c].sock = "open" /\ ds[c].client = None
        /\ ds[c].status \notin WaitsFor /\ (ds[c].noid => ds[c].fail)
    <3>1. Fits({}, c, cs[c]) BY <1>4 DEF Sound
    <3>2. CASE cs[c].status = "worker_mode_async"
      BY <1>2, <1>4, <3>1, <3>2 DEF Fits, Unclaimed, WaitsFor
    <3>3. CASE cs[c].status # "worker_mode_async"
      <4>1. cs[c].client # None /\ cs[c].noid BY <1>5, <1>7, <3>3
      <4>2. Sound({}, ds, wait, queue) /\ Rid(cs[c], ds[c])
        BY <1>2, <1>4, <3>3, <4>1, NoIdResultDoes
      <4>3. cs[c].fail BY <3>1, <4>1 DEF Fits
      <4> QED BY <1>4, <1>5, <4>2, <4>3 DEF Rid, WaitsFor
    <3> QED BY <3>2, <3>3
  <2>2. wait' = wait BY <1>1, <1>7 DEF RecvWorkerMode
  <2>3. CASE r.option = "stop"
    <3>1. /\ conn' = [Send(PopItem(ds, c), c) EXCEPT ![c].wm = FALSE, ![c].status = "net"]
          /\ adding' = adding
      BY <1>1, <1>2, <1>7, <2>3 DEF RecvWorkerMode
    <3>2. ds \in Objects BY <2>1 DEF Sound
    <3>3. PICK es : es = PopItem(ds, c) OBVIOUS
    <3>4. es \in Objects /\ es[c].status = ds[c].status BY <3>2, <3>3, PopDoes
    <3>5. Sound({}, es, wait, queue) BY <2>1, <3>3, PopSound
    <3>6. PICK fs : fs = Send(es, c) OBVIOUS
    <3>7. Sound({}, fs, wait, queue) BY <3>5, <3>6, SendSound
    <3>8. Alike(es[c], fs[c]) BY <3>4, <3>6, SendDoes
    <3>9. PICK b \in BOOLEAN : b = FALSE BY Zenon
    <3>10. Sound({}, ModeSet(fs, c, b), wait, queue) /\ Alike(fs[c], ModeSet(fs, c, b)[c])
      BY <3>7, ModeSound
    <3>11. ModeSet(fs, c, b)[c].status \notin WaitsFor
      BY <2>1, <3>4, <3>8, <3>10 DEF Alike, Same
    <3>12. Sound({}, SetStatus(ModeSet(fs, c, b), c, "net"), wait, queue)
      BY <3>10, <3>11, NetSound
    <3>13. conn' = SetStatus(ModeSet(fs, c, b), c, "net")
      BY <3>1, <3>3, <3>6, <3>9 DEF SetStatus, ModeSet
    <3> QED BY <1>3, <1>4, <2>2, <3>1, <3>12, <3>13, IdleOk, LinkStepSound
  <2>4. CASE r.option # "stop"
    <3>1. conn' = ds /\ adding'.conn = c
      BY <1>1, <1>2, <1>7, <2>4 DEF RecvWorkerMode
    <3>2. AddingOk' BY <2>1, <3>1 DEF AddingOk, Joining
    <3> QED BY <1>3, <2>1, <2>2, <3>1, <3>2, LinkStepSound
  <2> QED BY <2>3, <2>4
<1> QED BY <1>6, <1>7

-----------------------------------------------------------------------------
(* A worker asks for jobs *)

\* A connection that waits for nothing and has no client may get other flags.
Flagged(x, y) ==
    /\ y.sock = x.sock /\ y.item = x.item /\ y.link = x.link /\ y.client = x.client
    /\ y.status = x.status

LEMMA FlagsSound ==
    ASSUME NEW X, NEW cs, NEW ws, NEW Q, Sound(X, cs, ws, Q), NEW c \in Conns, c \notin X,
           cs[c].status = "net", cs[c].client = None, NEW ds \in Objects,
           Flagged(cs[c], ds[c]), \A d \in Conns : d # c => ds[d] = cs[d]
    PROVE  Sound(X, ds, ws, Q)
<1> USE DEF Flagged
<1>1. ASSUME NEW d \in Conns PROVE Quiet(X, d, cs[d], ds[d], NoPlace(cs, ws, Q, d))
  <2> HIDE DEF NoPlace
  <2>1. Fits(X, d, cs[d]) BY DEF Sound
  <2>2. CASE d # c
    <3>1. Alike(cs[d], ds[d]) BY <2>2 DEF Alike, Same
    <3>2. PICK free : free = NoPlace(cs, ws, Q, d) OBVIOUS
    <3>3. Quiet(X, d, cs[d], ds[d], free) BY <2>1, <3>1, QuietAlike
    <3> QED BY <3>2, <3>3
  <2>3. CASE d = c
    <3>1. Weight(ds[c]) = Weight(cs[c]) BY WeightAlike
    <3>2. Fits(X, c, ds[c]) BY <2>1, <2>3 DEF Fits, Unclaimed
    <3> QED BY <2>3, <3>1, <3>2 DEF Quiet, WaitsFor
  <2> QED BY <2>2, <2>3
<1> QED BY <1>1, QuietSound

\* The flags of a worker.
WorkerFlags(x, b, n, f) == [x EXCEPT !.wm = b, !.noid = n, !.fail = f]

LEMMA WorkerFlagsDo ==
    ASSUME NEW x \in ConnType, NEW b \in BOOLEAN, NEW n \in BOOLEAN, NEW f \in BOOLEAN,
           NEW y, y = WorkerFlags(x, b, n, f)
    PROVE  y \in ConnType /\ Flagged(x, y) /\ y.noid = n /\ y.fail = f
<1>1. PICK z : z = [x EXCEPT !.wm = b, !.noid = n] OBVIOUS
<1>2. z \in ConnType
  <2>1. [x EXCEPT !.wm = b] \in ConnType BY FieldType
  <2> QED BY <1>1, <2>1, FieldType
<1>3. y = [z EXCEPT !.fail = f] BY <1>1 DEF WorkerFlags
<1>4. y \in ConnType BY <1>2, <1>3, FieldType
<1>5. Flagged(x, z) /\ z.noid = n BY <1>1, <1>2 DEF Flagged, ConnType
<1>6. Flagged(z, y) /\ y.noid = z.noid /\ y.fail = f BY <1>2, <1>3, <1>4 DEF Flagged, ConnType
<1> QED BY <1>4, <1>5, <1>6 DEF Flagged

LEMMA RecvAddLinks ==
    ASSUME IInv, LinkState, NEW c \in Conns, NEW r \in Requests[c], RecvAdd(c, r)
    PROVE  LinkStep
<1>1. PICK cs : cs = Start(conn, c, r) OBVIOUS
<1>2. Plain(c, r, {"get", "get+", "worker"}) /\ wait' = wait /\ queue' = queue BY DEF RecvAdd
<1>3. Parsed(c, r) /\ cs[c].status = "net" /\ cs[c].client = None BY <1>1, <1>2, PlainLinks
<1>4. /\ Sound({}, cs, wait, queue) /\ adding = Idle /\ cs[c].sock = "open" /\ r \in RequestType
  BY <1>1, <1>3, StartLinks
<1>5. cs \in Objects BY <1>4 DEF Sound
<1>6. cs[c] \in ConnType BY <1>5 DEF Objects
<1>7. PICK b \in BOOLEAN : b = (r.op = "worker") BY Zenon
<1>8. PICK n \in BOOLEAN : n = (r.op = "get+") BY Zenon
<1>9. PICK ds : ds = [cs EXCEPT ![c].wm = b, ![c].noid = n, ![c].fail = n] OBVIOUS
<1>10. PICK x : x = WorkerFlags(cs[c], b, n, n) OBVIOUS
<1>11. x \in ConnType /\ Flagged(cs[c], x) /\ x.noid = n /\ x.fail = n
  BY <1>6, <1>10, WorkerFlagsDo
<1>12. ds = [cs EXCEPT ![c] = x] BY <1>5, <1>9, <1>10 DEF Objects, WorkerFlags
<1>13. /\ ds \in Objects /\ Flagged(cs[c], ds[c]) /\ \A d \in Conns : d # c => ds[d] = cs[d]
       /\ ds[c] = x
  BY <1>5, <1>11, <1>12 DEF Objects
<1>14. Sound({}, ds, wait, queue) BY <1>3, <1>4, <1>13, FlagsSound
<1>15. CASE r.json = "malformed"
  <2>1. conn' = Send(ds, c) /\ adding' = adding BY <1>1, <1>7, <1>8, <1>9, <1>15 DEF RecvAdd
  <2>2. Sound({}, conn', wait, queue) BY <1>14, <2>1, SendSound
  <2> QED BY <1>2, <1>4, <2>1, <2>2, IdleOk, LinkStepSound
<1>16. CASE r.json # "malformed" /\ r.names = << >>
  <2>1. PICK f \in BOOLEAN : f = FALSE BY Zenon
  <2>2. conn' = Send(ModeSet(ds, c, f), c) /\ adding' = adding
    BY <1>1, <1>7, <1>8, <1>9, <1>16, <2>1 DEF RecvAdd, ModeSet
  <2>3. Sound({}, ModeSet(ds, c, f), wait, queue) BY <1>14, ModeSound
  <2>4. Sound({}, conn', wait, queue) BY <2>2, <2>3, SendSound
  <2> QED BY <1>2, <1>4, <2>2, <2>4, IdleOk, LinkStepSound
<1>17. CASE r.json # "malformed" /\ r.names # << >>
  <2>1. PICK p \in BOOLEAN : p = (r.op # "get") BY Zenon
  <2>2. PICK f \in BOOLEAN : f = (r.op # "get" \/ r.option = "fail_on_disconnect") BY Zenon
  <2>3. PICK l : l = IF b THEN r.names ELSE << >> OBVIOUS
  <2>4. l \in Seq(Names) BY <1>4, <2>3, RequestFacts
  <2>5. /\ conn' = [ds EXCEPT ![c].noid = p, ![c].fail = f, ![c].names = l]
        /\ adding'.conn = c
    <3>1. /\ conn' = [[cs EXCEPT ![c].wm = (r.op = "worker"), ![c].noid = (r.op = "get+"),
                                 ![c].fail = (r.op = "get+")] EXCEPT
                        ![c].noid = (r.op # "get"),
                        ![c].fail = (r.op # "get" \/ r.option = "fail_on_disconnect"),
                        ![c].names = IF r.op = "worker" THEN r.names ELSE << >>]
          /\ adding' = [conn |-> c, names |-> r.names]
      BY <1>1, <1>17, Zenon DEF RecvAdd
    <3>2. l = IF r.op = "worker" THEN r.names ELSE << >> BY <1>7, <2>3
    <3>3. conn' = [ds EXCEPT ![c].noid = p, ![c].fail = f, ![c].names = l]
      BY <1>7, <1>8, <1>9, <2>1, <2>2, <3>1, <3>2, Zenon
    <3> QED BY <3>1, <3>3
  <2>6. PICK z : z = WorkerFlags(x, x.wm, p, f) OBVIOUS
  <2>7. z \in ConnType /\ Flagged(x, z) /\ z.noid = p /\ z.fail = f
    <3>1. PICK e : e = x.wm OBVIOUS
    <3>2. e \in BOOLEAN BY <1>11, <3>1, ObjectFields
    <3>3. z = WorkerFlags(x, e, p, f) BY <2>6, <3>1
    <3> QED BY <1>11, <3>2, <3>3, WorkerFlagsDo, ZenonT(60)
  <2>8. z = [x EXCEPT !.noid = p, !.fail = f] BY <1>11, <2>6 DEF WorkerFlags, ConnType
  <2>9. PICK y : y = [z EXCEPT !.names = l] OBVIOUS
  <2>10. y \in ConnType BY <2>4, <2>7, <2>9, FieldType
  <2>11. Flagged(z, y) /\ y.noid = p /\ y.fail = f
    BY <2>7, <2>9, <2>10 DEF Flagged, ConnType
  <2>12. conn' = [ds EXCEPT ![c] = y] BY <1>13, <2>5, <2>8, <2>9 DEF Objects
  <2>13. /\ conn' \in Objects /\ Flagged(ds[c], conn'[c])
         /\ (\A d \in Conns : d # c => conn'[d] = ds[d]) /\ conn'[c] = y
    BY <1>13, <2>7, <2>10, <2>11, <2>12 DEF Objects, Flagged
  <2>14. ds[c].status = "net" /\ ds[c].client = None BY <1>3, <1>13 DEF Flagged
  <2>15. Sound({}, conn', wait, queue) BY <1>14, <2>13, <2>14, FlagsSound
  <2>16. Joining(conn'[c])
    <3>1. conn'[c].sock = "open" /\ conn'[c].status = "net" /\ conn'[c].client = None
      BY <1>4, <1>13, <2>13, <2>14 DEF Flagged
    <3>2. p => f BY <2>1, <2>2
    <3> QED BY <2>11, <2>13, <3>1, <3>2 DEF Joining, WaitsFor
  <2>17. AddingOk' BY <2>5, <2>16 DEF AddingOk
  <2> QED BY <1>2, <2>15, <2>17, LinkStepSound
<1> QED BY <1>15, <1>16, <1>17

-----------------------------------------------------------------------------
(* Publish and timeouts *)

\* A worker that waits for a job may be told that there is none.
Turned(x, y) ==
    /\ y.sock = x.sock /\ y.item = x.item /\ y.link = x.link /\ y.client = x.client
    /\ y.noid = x.noid /\ y.fail = x.fail /\ y.id = x.id /\ y.json = x.json
    /\ \/ y.status = x.status
       \/ x.status = "worker_wait_job" /\ y.status \in {"net", "worker_mode_async"}

LEMMA TurnedSound ==
    ASSUME NEW X, NEW cs, NEW ws, NEW Q, Sound(X, cs, ws, Q), NEW ds \in Objects,
           \A d \in Conns : Turned(cs[d], ds[d])
    PROVE  Sound(X, ds, ws, Q)
<1>1. ASSUME NEW d \in Conns PROVE Quiet(X, d, cs[d], ds[d], NoPlace(cs, ws, Q, d))
  <2> HIDE DEF NoPlace
  <2>1. Fits(X, d, cs[d]) BY DEF Sound
  <2>2. Turned(cs[d], ds[d]) OBVIOUS
  <2>3. Weight(ds[d]) = Weight(cs[d]) BY <2>2, WeightAlike DEF Turned
  <2>4. Fits(X, d, ds[d]) BY <2>1, <2>2 DEF Fits, Unclaimed, Turned
  <2> QED BY <2>2, <2>3, <2>4 DEF Quiet, WaitsFor, Turned
<1> QED BY <1>1, QuietSound

\* A Connect that is told s.
Told(x, s, k, b) == [x EXCEPT !.status = s, !.dm = k, !.wr = b]

LEMMA ToldDoes ==
    ASSUME NEW x \in ConnType, NEW s \in Statuses, NEW k \in Int, NEW b \in BOOLEAN,
           s = x.status \/ (x.status = "worker_wait_job" /\ s \in {"net", "worker_mode_async"}),
           NEW y, y = Told(x, s, k, b)
    PROVE  y \in ConnType /\ Turned(x, y)
<1>1. PICK z : z = [x EXCEPT !.status = s] OBVIOUS
<1>2. z \in ConnType BY <1>1, FieldType
<1>3. Turned(x, z) BY <1>1, <1>2 DEF Turned, ConnType
<1>4. PICK u : u = [z EXCEPT !.dm = k] OBVIOUS
<1>5. u \in ConnType BY <1>2, <1>4, FieldType
<1>6. Alike(z, u) BY <1>2, <1>4, <1>5 DEF Alike, Same, ConnType
<1>7. y = [u EXCEPT !.wr = b] BY <1>1, <1>4 DEF Told
<1>8. y \in ConnType
  <2>1. [u EXCEPT !.wr = b] \in ConnType BY <1>5, FieldType
  <2> QED BY <1>7, <2>1
<1>9. Alike(u, y) BY <1>5, <1>7, <1>8 DEF Alike, Same, ConnType
<1> QED BY <1>3, <1>6, <1>8, <1>9 DEF Turned, Alike, Same

LEMMA AfterAsyncIs ==
    ASSUME NEW cs, NEW w
    PROVE  AfterAsync(cs, w) \in {"net", "worker_mode_async"}
  BY DEF AfterAsync

LEMMA RecvPubLinks ==
    ASSUME IInv, LinkState, NEW c \in Conns, NEW r \in Requests[c], RecvPub(c, r)
    PROVE  LinkStep
<1>1. PICK cs, n : cs = Start(conn, c, r) /\ n = r.names[1] OBVIOUS
<1>2. PICK A : A = {w \in ListOf(cs, n) : cs[w].status = "worker_wait_job"} OBVIOUS
<1>3. PICK B : B = {w \in ListOf(cs, n) \ A : cs[w].noid} OBVIOUS
<1>4. PICK ds : ds = [w \in Conns |->
                        IF w \in A
                        THEN [cs[w] EXCEPT !.status = AfterAsync(cs, w), !.dm = @ + 1, !.wr = TRUE]
                        ELSE IF w \in B THEN [cs[w] EXCEPT !.dm = @ + 1]
                        ELSE cs[w]]
  OBVIOUS
<1>5. /\ Plain(c, r, {"pub"}) /\ conn' = Send(IF queue[n].ex THEN ds ELSE cs, c)
      /\ wait' = wait /\ queue' = queue /\ adding' = adding
  BY <1>1, <1>2, <1>3, <1>4 DEF RecvPub
<1>6. Parsed(c, r) BY <1>5, PlainLinks
<1>7. Sound({}, cs, wait, queue) /\ adding = Idle BY <1>1, <1>6, StartLinks
<1>8. cs \in Objects BY <1>7 DEF Sound
<1>9. ASSUME NEW w \in Conns PROVE ds[w] \in ConnType /\ Turned(cs[w], ds[w])
  <2>1. PICK x : x = cs[w] OBVIOUS
  <2>2. x \in ConnType BY <1>8, <2>1 DEF Objects
  <2>3. PICK k : k = x.dm + 1 OBVIOUS
  <2>4. k \in Int /\ x.wr \in BOOLEAN /\ x.status \in Statuses BY <2>2, <2>3, ObjectFields
  <2>5. CASE w \in A
    <3>1. PICK s : s = AfterAsync(cs, w) OBVIOUS
    <3>2. s \in {"net", "worker_mode_async"} /\ s \in Statuses
      BY <3>1, AfterAsyncIs, AfterAsyncType
    <3>3. x.status = "worker_wait_job" BY <1>2, <2>1, <2>5
    <3>4. PICK b \in BOOLEAN : b = TRUE BY Zenon
    <3>5. ds[w] = Told(x, s, k, b)
      BY <1>4, <2>1, <2>3, <2>5, <3>1, <3>4, Zenon DEF Told
    <3> QED BY <2>1, <2>2, <2>4, <3>2, <3>3, <3>5, ToldDoes
  <2>6. CASE w \notin A /\ w \in B
    <3>1. PICK s, b : s = x.status /\ b = x.wr OBVIOUS
    <3>2. ds[w] = [x EXCEPT !.dm = k] BY <1>4, <2>1, <2>3, <2>6, Zenon
    <3>3. ds[w] \in ConnType BY <2>2, <2>4, <3>2, FieldType
    <3> QED BY <2>1, <2>2, <3>2, <3>3 DEF Turned, ConnType
  <2>7. CASE w \notin A /\ w \notin B
    BY <1>4, <2>1, <2>2, <2>7 DEF Turned
  <2> QED BY <2>5, <2>6, <2>7
<1>10. ds \in Objects BY <1>4, <1>9 DEF Objects
<1>11. Sound({}, ds, wait, queue) BY <1>7, <1>9, <1>10, TurnedSound
<1>12. Sound({}, conn', wait, queue) BY <1>5, <1>7, <1>11, SendSound
<1> QED BY <1>5, <1>7, <1>12, IdleOk, LinkStepSound

LEMMA CheckTimeoutLinks ==
    ASSUME IInv, LinkState, CheckTimeout
    PROVE  LinkStep
<1>1. Sound({}, conn, wait, queue) /\ conn \in Objects BY DEF LinkState, Sound
<1>2. adding = Idle /\ wait' = wait /\ queue' = queue /\ adding' = adding
  BY DEF CheckTimeout, LoopReady
<1>3. PICK W : /\ \A w \in W : conn[w].status = "worker_wait_job"
               /\ conn' = [w \in Conns |->
                             IF w \in W
                             THEN [Send(conn, w)[w] EXCEPT !.status = AfterAsync(conn, w)]
                             ELSE conn[w]]
  BY DEF CheckTimeout
<1>4. ASSUME NEW w \in Conns PROVE conn'[w] \in ConnType /\ Turned(conn[w], conn'[w])
  <2>1. conn[w] \in ConnType BY <1>1 DEF Objects
  <2>2. CASE w \notin W BY <1>3, <2>1, <2>2 DEF Turned
  <2>3. CASE w \in W
    <3>1. PICK x : x = Send(conn, w)[w] OBVIOUS
    <3>2. x \in ConnType /\ Alike(conn[w], x) BY <1>1, <3>1, SendDoes DEF Objects
    <3>3. PICK s : s = AfterAsync(conn, w) OBVIOUS
    <3>4. s \in {"net", "worker_mode_async"} /\ s \in Statuses
      BY <3>3, AfterAsyncIs, AfterAsyncType
    <3>5. PICK y : y = [x EXCEPT !.status = s] OBVIOUS
    <3>6. y \in ConnType BY <3>2, <3>4, <3>5, FieldType
    <3>7. y = conn'[w] BY <1>3, <2>3, <3>1, <3>3, <3>5
    <3>8. Turned(x, y)
      BY <1>3, <2>3, <3>2, <3>4, <3>5, <3>6 DEF Turned, ConnType, Alike, Same
    <3> QED BY <3>2, <3>6, <3>7, <3>8 DEF Turned, Alike, Same
  <2> QED BY <2>2, <2>3
<1>5. conn' \in Objects BY <1>3, <1>4 DEF Objects
<1>6. Sound({}, conn', wait, queue) BY <1>1, <1>4, <1>5, TurnedSound
<1> QED BY <1>2, <1>6, IdleOk, LinkStepSound

-----------------------------------------------------------------------------
(* Connect objects are made and deleted *)

\* No pointer leads to an object that does not exist.
LEMMA NoReferences ==
    ASSUME NEW cs, NEW ws, NEW Q \in Queues, PointsToLive(cs, ws, Q),
           NEW d \in Conns, d \notin Live(cs)
    PROVE  Registered(ws, d) = {} /\ Serving(cs, d) = {} /\ Listed(Q, d) = {} /\ Queued(Q, d) = {}
<1>1. d # None BY NoneAssumption
<1>2. Registered(ws, d) = {} BY <1>1 DEF Registered, PointsToLive
<1>3. Serving(cs, d) = {} BY <1>1 DEF Serving, PointsToLive
<1>4. ASSUME NEW n \in Names
      PROVE  At(Q[n].workers, {d}) = {} /\ At(Q[n].clients, Of(d)) = {}
  BY <1>1 DEF At, Of, PointsToLive
<1>5. Listed(Q, d) = {} BY <1>4 DEF Listed, Entries
<1>6. Queued(Q, d) = {} BY <1>4 DEF Queued, Entries
<1> QED BY <1>2, <1>3, <1>5, <1>6

\* An object without pointers has no weight, and the other way round.
LEMMA NoWeight ==
    ASSUME NEW cs, NEW ws, NEW Q, Sound({}, cs, ws, Q), NEW d \in Conns
    PROVE  Weight(cs[d]) = 0 <=> /\ Registered(ws, d) = {} /\ Serving(cs, d) = {}
                                 /\ Listed(Q, d) = {} /\ Queued(Q, d) = {}
<1>1. cs \in Objects /\ Countable(ws) /\ Bounded(Q, d) /\ Excess(cs, ws, d) = QueueCount(Q, d)
      /\ Excess(cs, ws, d) \in Int
  <2>1. /\ cs \in Objects /\ Countable(ws) /\ Bounded(Q, d)
        /\ Excess(cs, ws, d) = QueueCount(Q, d) + (IF d \in {} THEN 1 ELSE 0)
    BY DEF Sound, Counted
  <2>2. Cardinality(Listed(Q, d)) \in Nat /\ Cardinality(Queued(Q, d)) \in Nat
    BY <2>1, FS_CardinalityType DEF Bounded
  <2>3. QueueCount(Q, d) \in Int BY <2>2 DEF QueueCount
  <2> QED BY <2>1, <2>3
<1>2. IsFiniteSet(Serving(cs, d)) /\ IsFiniteSet(Registered(ws, d))
  BY <1>1, ExcessType DEF Countable
<1>3. PICK a, b, e, f : /\ a = Cardinality(Registered(ws, d)) /\ b = Cardinality(Serving(cs, d))
                        /\ e = Cardinality(Listed(Q, d)) /\ f = Cardinality(Queued(Q, d))
  OBVIOUS
<1>4. a \in Nat /\ b \in Nat /\ e \in Nat /\ f \in Nat
  BY <1>1, <1>2, <1>3, FS_CardinalityType DEF Bounded
<1>5. /\ a = 0 <=> Registered(ws, d) = {}
      /\ b = 0 <=> Serving(cs, d) = {}
      /\ e = 0 <=> Listed(Q, d) = {}
      /\ f = 0 <=> Queued(Q, d) = {}
  BY <1>1, <1>2, <1>3, FS_EmptySet DEF Bounded
<1>6. cs[d] \in ConnType BY <1>1 DEF Objects
<1>7. Weight(cs[d]) \in Int BY <1>6, WeightType
<1>8. Weight(cs[d]) - a - b = e + f BY <1>1, <1>3 DEF Excess, QueueCount
<1>9. Weight(cs[d]) = 0 <=> a = 0 /\ b = 0 /\ e = 0 /\ f = 0 BY <1>4, <1>7, <1>8
<1> QED BY <1>5, <1>9

\* A socket is accepted.
LEMMA NewConnIs ==
    ASSUME NEW noid, NEW fail, NEW ka, NEW x, x = NewConn("open", noid, fail, ka)
    PROVE  /\ x.sock = "open" /\ x.link = 1 /\ x.item = None /\ x.client = None
           /\ x.status = "net"
  BY DEF NewConn

LEMMA AcceptLinks ==
    ASSUME IInv, PointsToLive(conn, wait, queue), alive => LinkState,
           NEW c \in Conns, Accept(c), IInv'
    PROVE  LinkStep
<1>1. PICK noid, fail, ka \in Uninit : conn' = [conn EXCEPT ![c] = NewConn("open", noid, fail, ka)]
  BY DEF Accept
<1>2. conn[c].sock \notin {"open", "closed"} /\ c \notin Live(conn) BY DEF Accept, Live
<1>3. wait' = wait /\ queue' = queue /\ adding' = adding /\ alive' = alive BY DEF Accept
<1>4. conn \in Connections(Named) BY NamedConnections DEF IInv
<1>5. conn \in Objects BY <1>4, AreObjects
<1>6. PICK x : x = NewConn("open", noid, fail, ka) OBVIOUS
<1>7. /\ x.sock = "open" /\ x.link = 1 /\ x.item = None /\ x.client = None /\ x.status = "net"
  BY <1>6, NewConnIs
<1>8. conn' \in Objects
  <2>1. conn' \in Connections(Named') BY NamedConnections DEF IInv, ConnInv, Connections, Named
  <2> QED BY <2>1, AreObjects
<1>9. conn'[c] = x /\ \A d \in Conns : d # c => conn'[d] = conn[d]
  BY <1>1, <1>5, <1>6 DEF Objects
<1>10. Live(conn) \subseteq Live(conn') /\ c \in Live(conn')
  BY <1>7, <1>9 DEF Live
<1>11. PointsToLive(conn', wait, queue)
  <2>1. \A i \in AllIds : wait[i] \in Live(conn') \cup {None} BY <1>10 DEF PointsToLive
  <2>2. ASSUME NEW w \in Conns
        PROVE  /\ conn'[w].client \in Live(conn') \cup {None}
               /\ w \notin Live(conn') => conn'[w].client = None /\ conn'[w].item = None
    <3>1. CASE w = c BY <1>7, <1>9, <1>10, <3>1
    <3>2. CASE w # c
      <4>1. conn'[w] = conn[w] BY <1>9, <3>2
      <4> QED BY <1>10, <4>1 DEF PointsToLive, Live
    <3> QED BY <3>1, <3>2
  <2>3. ASSUME NEW n \in Names
        PROVE  /\ \A i \in DOMAIN queue[n].workers : queue[n].workers[i] \in Live(conn')
               /\ \A i \in DOMAIN queue[n].clients :
                     queue[n].clients[i].conn \in Live(conn') \cup {None}
    BY <1>10 DEF PointsToLive
  <2> QED BY <2>1, <2>2, <2>3 DEF PointsToLive
<1>12. ASSUME alive
       PROVE  Sound({}, conn', wait, queue) /\ AddingOk'
  <2>1. LinkState BY <1>12
  <2>2. /\ Sound({}, conn, wait, queue) /\ Placed(conn, wait, queue) /\ queue \in Queues
        /\ Identified(conn, wait) /\ wait \in WaitType /\ Counted({}, conn, wait, queue)
    BY <2>1 DEF LinkState, Sound
  <2>3. /\ Registered(wait, c) = {} /\ Serving(conn, c) = {}
        /\ Listed(queue, c) = {} /\ Queued(queue, c) = {}
    BY <1>2, <2>2, NoReferences
  <2>4. Weight(conn[c]) = 0 BY <2>2, <2>3, NoWeight
  <2>5. conn[c].client = None /\ conn[c].item = None BY <1>2 DEF PointsToLive
  <2>6. Weight(x) = 0 BY <1>7 DEF Weight
  <2>7. Counted({}, conn', wait, queue)
    <3>1. \A d \in Conns : conn'[d].client = conn[d].client /\ Weight(conn'[d]) = Weight(conn[d])
      BY <1>7, <1>9, <2>4, <2>5, <2>6
    <3> QED BY <1>5, <1>8, <2>2, <3>1, CountedSame
  <2>8. \A d \in Conns : Served(conn', d) = Served(conn, d)
    <3>1. ASSUME NEW d \in Conns, NEW w \in Conns
          PROVE  conn'[w].client = d /\ conn'[w].noid <=> conn[w].client = d /\ conn[w].noid
      <4>1. CASE w = c BY <1>7, <1>9, <2>5, <4>1, NoneAssumption
      <4>2. CASE w # c BY <1>9, <4>2
      <4> QED BY <4>1, <4>2
    <3> QED BY <3>1 DEF Served
  <2>9. Placed(conn', wait, queue)
    <3> SUFFICES ASSUME NEW d \in Conns, conn'[d].sock = "open"
                 PROVE  /\ OnePlace(conn', wait, queue, d)
                        /\ conn'[d].status \notin WaitsFor => NoPlace(conn', wait, queue, d)
      BY DEF Placed
    <3>1. CASE d = c
      <4>1. Served(conn', c) = {} BY <2>3, <2>8 DEF Served, Serving
      <4> QED BY <2>3, <3>1, <4>1 DEF OnePlace, NoPlace, Single
    <3>2. CASE d # c BY <1>9, <2>2, <2>8, <3>2 DEF Placed, OnePlace, NoPlace
    <3> QED BY <3>1, <3>2
  <2>10. Identified(conn', wait)
    <3>1. ASSUME NEW d \in Conns, conn'[d].sock = "open", conn'[d].status = "client_wait_result"
          PROVE  conn'[d] = conn[d]
      BY <1>7, <1>9, <3>1
    <3> QED BY <2>2, <3>1 DEF Identified
  <2>11. \A d \in Conns : Fits({}, d, conn'[d])
    <3>1. Fits({}, c, x) BY <1>7 DEF Fits, Unclaimed
    <3> QED BY <1>9, <2>2, <3>1 DEF Sound
  <2>12. AddingOk'
    <3>1. adding.conn # None => adding.conn \in Conns /\ adding.conn # c
      BY <1>2, <2>1 DEF LinkState, AddingOk, Joining, IInv, AddingInv
    <3> QED BY <1>3, <1>9, <2>1, <3>1 DEF LinkState, AddingOk
  <2> QED BY <1>8, <1>11, <2>2, <2>7, <2>9, <2>10, <2>11, <2>12 DEF Sound
<1> QED BY <1>3, <1>11, <1>12 DEF LinkStep

LEMMA DeleteConnectionsLinks ==
    ASSUME IInv, LinkState, DeleteConnections, IInv'
    PROVE  LinkStep
<1>1. PICK D : D = {c \in Conns : conn[c].link = 0 /\ conn[c].sock = "closed"} OBVIOUS
<1>2. /\ conn' = [c \in Conns |-> IF c \in D THEN [conn[c] EXCEPT !.sock = "freed"] ELSE conn[c]]
      /\ wait' = wait /\ queue' = queue /\ adding' = adding /\ adding = Idle
  BY <1>1 DEF DeleteConnections, LoopReady
<1>3. /\ Sound({}, conn, wait, queue) /\ conn \in Objects /\ queue \in Queues
      /\ Placed(conn, wait, queue) /\ Identified(conn, wait) /\ wait \in WaitType
      /\ Counted({}, conn, wait, queue) /\ PointsToLive(conn, wait, queue)
  BY DEF LinkState, Sound
<1>4. conn' \in Objects
  <2>1. conn' \in Connections(Named') BY NamedConnections DEF IInv, ConnInv, Connections, Named
  <2> QED BY <2>1, AreObjects
<1>5. ASSUME NEW d \in Conns
      PROVE  /\ conn'[d].item = conn[d].item /\ conn'[d].client = conn[d].client
             /\ conn'[d].link = conn[d].link /\ conn'[d].noid = conn[d].noid
             /\ conn'[d].fail = conn[d].fail /\ conn'[d].status = conn[d].status
             /\ conn'[d].json = conn[d].json /\ conn'[d].id = conn[d].id
             /\ conn'[d].sock = IF d \in D THEN "freed" ELSE conn[d].sock
             /\ conn'[d].sock = "open" <=> conn[d].sock = "open"
  <2>1. conn[d] \in ConnType BY <1>3 DEF Objects
  <2>2. CASE d \in D
    <3>1. conn'[d] = [conn[d] EXCEPT !.sock = "freed"] BY <1>2, <2>2
    <3>2. conn[d].sock = "closed" BY <1>1, <2>2
    <3> QED BY <2>1, <2>2, <3>1, <3>2 DEF ConnType
  <2>3. CASE d \notin D BY <1>2, <2>3
  <2> QED BY <2>2, <2>3
<1>6. ASSUME NEW d \in D
      PROVE  /\ Registered(wait, d) = {} /\ Serving(conn, d) = {}
             /\ Listed(queue, d) = {} /\ Queued(queue, d) = {}
  <2>1. d \in Conns /\ conn[d].link = 0 /\ conn[d].sock = "closed" BY <1>1
  <2>2. Fits({}, d, conn[d]) BY <1>3, <2>1 DEF Sound
  <2>3. conn[d].item = None BY <2>1, <2>2 DEF Fits
  <2>4. Weight(conn[d]) = 0 BY <2>1, <2>3 DEF Weight
  <2> QED BY <1>3, <2>1, <2>4, NoWeight
<1>7. Live(conn') = Live(conn) \ D BY <1>5 DEF Live
<1>8. PointsToLive(conn', wait, queue)
  <2>1. ASSUME NEW i \in AllIds PROVE wait[i] \in Live(conn') \cup {None}
    <3>1. wait[i] \notin D BY <1>6 DEF Registered
    <3> QED BY <1>3, <1>7, <3>1 DEF PointsToLive
  <2>2. ASSUME NEW w \in Conns
        PROVE  /\ conn'[w].client \in Live(conn') \cup {None}
               /\ w \notin Live(conn') => conn'[w].client = None /\ conn'[w].item = None
    <3>1. conn[w].client \notin D BY <1>6 DEF Serving
    <3>2. conn[w].client \in Live(conn) \cup {None} BY <1>3 DEF PointsToLive
    <3>3. w \in D => conn[w].client = None /\ conn[w].item = None
      BY <1>1, <1>3 DEF Sound, Fits
    <3>4. w \notin Live(conn) => conn[w].client = None /\ conn[w].item = None
      BY <1>3 DEF PointsToLive
    <3> QED BY <1>5, <1>7, <3>1, <3>2, <3>3, <3>4
  <2>3. ASSUME NEW n \in Names
        PROVE  /\ \A i \in DOMAIN queue[n].workers : queue[n].workers[i] \in Live(conn')
               /\ \A i \in DOMAIN queue[n].clients :
                     queue[n].clients[i].conn \in Live(conn') \cup {None}
    <3>1. ASSUME NEW i \in DOMAIN queue[n].workers PROVE queue[n].workers[i] \in Live(conn')
      <4>1. queue[n].workers[i] \in Live(conn) BY <1>3 DEF PointsToLive
      <4>2. ASSUME queue[n].workers[i] \in D PROVE FALSE
        <5>1. PICK d \in D : d = queue[n].workers[i] BY <4>2
        <5>2. <<n, i>> \in Listed(queue, d) BY <5>1 DEF Listed, Entries, At
        <5> QED BY <1>6, <5>2
      <4> QED BY <1>7, <4>1, <4>2
    <3>2. ASSUME NEW i \in DOMAIN queue[n].clients
          PROVE  queue[n].clients[i].conn \in Live(conn') \cup {None}
      <4>1. queue[n].clients[i].conn \in Live(conn) \cup {None} BY <1>3 DEF PointsToLive
      <4>2. ASSUME queue[n].clients[i].conn \in D PROVE FALSE
        <5>1. PICK d \in D : d = queue[n].clients[i].conn BY <4>2
        <5>2. <<n, i>> \in Queued(queue, d) BY <1>3, <5>1, QueuedAt
        <5> QED BY <1>6, <5>2
      <4> QED BY <1>7, <4>1, <4>2
    <3> QED BY <3>1, <3>2
  <2> QED BY <2>1, <2>2, <2>3 DEF PointsToLive
<1>9. Counted({}, conn', wait, queue)
  <2>1. \A d \in Conns : conn'[d].client = conn[d].client /\ Weight(conn'[d]) = Weight(conn[d])
    BY <1>5 DEF Weight
  <2> QED BY <1>3, <1>4, <2>1, CountedSame
<1>10. Placed(conn', wait, queue)
  <2>1. \A d \in Conns : Served(conn', d) = Served(conn, d) BY <1>5 DEF Served
  <2> QED BY <1>3, <1>5, <2>1 DEF Placed, OnePlace, NoPlace
<1>11. Identified(conn', wait) BY <1>3, <1>5 DEF Identified
<1>12. \A d \in Conns : Fits({}, d, conn'[d])
  <2>1. \A d \in Conns : Fits({}, d, conn[d]) BY <1>3 DEF Sound
  <2> QED BY <1>5, <2>1 DEF Fits
<1>13. Sound({}, conn', wait, queue)
  BY <1>3, <1>4, <1>8, <1>9, <1>10, <1>11, <1>12 DEF Sound
<1> QED BY <1>2, <1>13, IdleOk, LinkStepSound

-----------------------------------------------------------------------------
(* Queues are cleaned and deleted *)

\* What is erased, with its links, is a loss.
LEMMA GoneShrinks ==
    ASSUME NEW cs, NEW ds, NEW Q \in Queues, NEW P, NEW n \in Names, NEW R, NEW T,
           Gone(Q, P, n, R, T), GivenBack(cs, ds, Q, n, R, T)
    PROVE  Shrinks(cs, ds, Q, P, n, R, T)
<1>1. Q[n] \in QueueType BY DEF Queues
<1>2. Q[n].workers \in Seq(Conns) /\ Q[n].clients \in Seq(MsgType) BY <1>1, LineCountType
<1>3. Erases(Q[n].workers, P[n].workers, R) /\ Erases(Q[n].clients, P[n].clients, T) BY DEF Gone
<1>4. Left(Q[n].workers, P[n].workers, R) BY <1>2, <1>3, ErasesLeft
<1>5. Left(Q[n].clients, P[n].clients, T) BY <1>2, <1>3, ErasesLeft
<1> QED BY <1>4, <1>5 DEF Shrinks, Gone, GivenBack

LEMMA CleanDeadTasksLinks ==
    ASSUME IInv, PointsToLive(conn, wait, queue), alive => LinkState,
           NEW n \in Names, CleanDeadTasks(n), IInv'
    PROVE  LinkStep
<1>1. PICK s, t : s = queue[n].workers /\ t = queue[n].clients OBVIOUS
<1>2. PICK R : R = {i \in DOMAIN s : IsClosed(conn, s[i])
                                     \/ conn[s[i]].status # "worker_wait_job"}
  OBVIOUS
<1>3. PICK T : T = {i \in DOMAIN t : t[i].conn # None /\
                      (IsClosed(conn, t[i].conn)
                       \/ conn[t[i].conn].status # "client_wait_result")}
  OBVIOUS
<1>4. /\ conn' = [c \in Conns |-> [conn[c] EXCEPT
                     !.link = @ - Cardinality({i \in R : s[i] = c})
                                - Cardinality({i \in T : t[i].conn = c})]]
      /\ queue' = [queue EXCEPT ![n].workers = Keep(s, DOMAIN s \ R),
                                ![n].clients = Keep(t, DOMAIN t \ T)]
      /\ wait' = wait /\ adding' = adding /\ alive' = alive
  BY <1>1, <1>2, <1>3 DEF CleanDeadTasks
<1>5. s \in Seq(Conns) /\ t \in Seq(MsgType) BY <1>1, QueueFacts, MessagesType
<1>6. R \in Parts(s) /\ T \in Parts(t) BY <1>2, <1>3 DEF Parts
<1>7. queue \in Queues /\ queue' \in Queues BY QueuesAre, QueuesAreNext DEF IInv
<1>8. conn \in Objects
  <2>1. conn \in Connections(Named) BY NamedConnections DEF IInv
  <2> QED BY <2>1, AreObjects
<1>9. Gone(queue, queue', n, R, T)
  <2>1. \A m \in Names : m # n => queue'[m] = queue[m] BY <1>4, <1>7 DEF Queues
  <2>2. queue[n] \in QueueType BY <1>7 DEF Queues
  <2>3. queue'[n].workers = Rest(s, R) /\ queue'[n].clients = Rest(t, T)
    BY <1>4, <1>7, <2>2 DEF Queues, QueueType, Rest
  <2> QED BY <1>1, <1>6, <2>1, <2>3 DEF Gone, Erases
<1>10. ASSUME NEW d \in Conns
       PROVE  /\ conn'[d] \in ConnType /\ Same(conn[d], conn'[d])
              /\ conn'[d].client = conn[d].client
              /\ conn'[d].link = conn[d].link - Lost(s, R, {d}) - Lost(t, T, Of(d))
  <2>1. PICK a, b : a = Lost(s, R, {d}) /\ b = Lost(t, T, Of(d)) OBVIOUS
  <2>2. a = Cardinality({i \in R : s[i] = d}) /\ a \in Nat BY <1>5, <1>6, <2>1, LostWorkers
  <2>3. b = Cardinality({i \in T : t[i].conn = d}) /\ b \in Nat
    BY <1>5, <1>6, <2>1, LostMessages
  <2>4. PICK x : x = conn[d] OBVIOUS
  <2>5. x \in ConnType BY <1>8, <2>4 DEF Objects
  <2>6. PICK k : k = x.link - a - b OBVIOUS
  <2>7. k \in Int
    <3>1. x.link \in Int BY <2>5, ObjectFields
    <3> QED BY <2>2, <2>3, <2>6, <3>1
  <2>8. conn'[d] = LinkedTo(x, k)
    <3>1. conn'[d] = [x EXCEPT !.link = x.link - Cardinality({i \in R : s[i] = d})
                                        - Cardinality({i \in T : t[i].conn = d})]
      BY <1>4, <2>4, Zenon
    <3> QED BY <2>2, <2>3, <2>6, <3>1, Zenon DEF LinkedTo
  <2>9. /\ LinkedTo(x, k) \in ConnType /\ Same(x, LinkedTo(x, k))
        /\ LinkedTo(x, k).client = x.client /\ LinkedTo(x, k).link = k
    BY <2>5, <2>7, LinkedDoes
  <2> QED BY <2>1, <2>4, <2>6, <2>8, <2>9
<1>11. conn' \in Objects BY <1>4, <1>10 DEF Objects
<1>12. GivenBack(conn, conn', queue, n, R, T) BY <1>1, <1>10 DEF GivenBack
<1>13. PointsToLive(conn', wait, queue')
  <2>1. Shrinks(conn, conn', queue, queue', n, R, T) BY <1>7, <1>9, <1>12, GoneShrinks
  <2>2. Calm(conn, wait, queue, conn', wait, queue') BY <2>1, ShrinkCalm
  <2> QED BY <2>2, CalmPoints
<1>14. ASSUME alive
       PROVE  Sound({}, conn', wait, queue') /\ AddingOk'
  <2>1. Sound({}, conn, wait, queue) /\ AddingOk BY <1>14 DEF LinkState
  <2>2. Sound({}, conn', wait, queue') BY <1>7, <1>9, <1>11, <1>12, <2>1, GoneSound
  <2>3. AddingOk'
    <3>1. adding.conn # None => adding.conn \in Conns BY DEF IInv, AddingInv
    <3> QED BY <1>4, <1>10, <2>1, <3>1 DEF AddingOk, Joining, Same
  <2> QED BY <2>2, <2>3
<1> QED BY <1>4, <1>13, <1>14 DEF LinkStep

\* The list of connected workers of a queue is emptied.
Listless(cs, n) == [d \in Conns |-> PopListed(cs, d, n)]

LEMMA ListlessSound ==
    ASSUME NEW cs, NEW ws, NEW Q, Sound({}, cs, ws, Q), NEW n
    PROVE  /\ Listless(cs, n) \in Objects /\ Sound({}, Listless(cs, n), ws, Q)
           /\ \A d \in Conns : Listless(cs, n)[d] = PopListed(cs, d, n)
                               /\ Listless(cs, n)[d].sock = cs[d].sock
<1>1. cs \in Objects BY DEF Sound
<1>2. PICK ds : ds = Listless(cs, n) OBVIOUS
<1>3. ASSUME NEW d \in Conns
      PROVE  /\ ds[d] \in ConnType /\ ds[d] = PopListed(cs, d, n) /\ ds[d].sock = cs[d].sock
             /\ Quiet({}, d, cs[d], ds[d], NoPlace(cs, ws, Q, d))
  <2> HIDE DEF NoPlace
  <2>1. Fits({}, d, cs[d]) /\ cs[d] \in ConnType BY <1>1 DEF Sound, Objects
  <2>2. ds[d] = PopListed(cs, d, n) BY <1>2 DEF Listless
  <2>3. CASE cs[d].item = n
    <3>1. PICK x, y : x = cs[d] /\ y = PopItem(cs, d)[d] OBVIOUS
    <3>2. ds[d] = y BY <2>2, <2>3, <3>1 DEF PopListed
    <3>3. /\ y \in ConnType /\ y.item = None /\ Weight(y) = Weight(x)
          /\ y.status = x.status /\ y.sock = x.sock /\ y.noid = x.noid
          /\ y.fail = x.fail /\ y.id = x.id /\ y.json = x.json
          /\ y.client = x.client
      BY <1>1, <3>1, PopDoes
    <3>4. Fits({}, d, y) BY <2>1, <3>1, <3>3 DEF Fits
    <3> QED BY <2>2, <3>1, <3>2, <3>3, <3>4 DEF Quiet
  <2>4. CASE cs[d].item # n
    <3>1. ds[d] = cs[d] BY <2>2, <2>4 DEF PopListed
    <3> QED BY <2>1, <2>2, <3>1 DEF Quiet
  <2> QED BY <2>3, <2>4
<1>4. ds \in Objects BY <1>2, <1>3 DEF Objects, Listless
<1>5. Sound({}, ds, ws, Q) BY <1>3, <1>4, QuietSound
<1> QED BY <1>2, <1>3, <1>4, <1>5

\* A Connect that is told that the queue is closed.
Closed(x, k, o, b) == [x EXCEPT !.link = k, !.out = o, !.wr = b]

LEMMA ClosedDoes ==
    ASSUME NEW x \in ConnType, NEW k \in Int, NEW o \in Int, NEW b \in BOOLEAN
    PROVE  /\ Closed(x, k, o, b) \in ConnType /\ Same(x, Closed(x, k, o, b))
           /\ Closed(x, k, o, b).client = x.client /\ Closed(x, k, o, b).link = k
<1>1. PICK y : y = LinkedTo(x, k) OBVIOUS
<1>2. y \in ConnType /\ Same(x, y) /\ y.client = x.client /\ y.link = k BY <1>1, LinkedDoes
<1>3. PICK m : m = y.dm OBVIOUS
<1>4. m \in Int BY <1>2, <1>3, ObjectFields
<1>5. Buffered(y, o, b, m) \in ConnType /\ Alike(y, Buffered(y, o, b, m)) BY <1>2, <1>4, BuffersDo
<1>6. Buffered(y, o, b, m) = Closed(x, k, o, b)
  BY <1>1, <1>2, <1>3 DEF Buffered, Closed, LinkedTo, ConnType
<1> QED BY <1>2, <1>5, <1>6 DEF Alike, Same

LEMMA RecvDeleteLinks ==
    ASSUME IInv, LinkState, NEW c \in Conns, NEW r \in Requests[c], RecvDelete(c, r), IInv'
    PROVE  LinkStep
<1>1. PICK cs, n : cs = Start(conn, c, r) /\ n = r.names[1] OBVIOUS
<1>2. PICK s, t : s = queue[n].workers /\ t = queue[n].clients OBVIOUS
<1>3. Plain(c, r, {"delete"}) BY DEF RecvDelete
<1>4. Parsed(c, r) /\ r.op = "delete" BY <1>3, PlainLinks
<1>5. n \in Names BY <1>1, <1>4, NameFacts
<1>6. Sound({}, cs, wait, queue) /\ adding = Idle BY <1>1, <1>4, StartLinks
<1>7. PICK ps : ps = Listless(cs, n) OBVIOUS
<1>8. /\ ps \in Objects /\ Sound({}, ps, wait, queue)
      /\ \A d \in Conns : ps[d] = PopListed(cs, d, n)
  BY <1>6, <1>7, ListlessSound
<1>9. PICK rf : rf = [d \in Conns |-> Cardinality({i \in DOMAIN s : s[i] = d})
                                      + Cardinality({i \in DOMAIN t : t[i].conn = d})]
  OBVIOUS
<1>10. PICK told : told = [d \in Conns |->
                   [PopListed(cs, d, n) EXCEPT
                       !.link = @ - rf[d],
                       !.out = IF cs[d].sock = "open" THEN @ + rf[d] ELSE @,
                       !.wr = @ \/ (cs[d].sock = "open" /\ rf[d] > 0)]]
  OBVIOUS
<1>11. /\ conn' = Send(told, c) /\ queue' = [queue EXCEPT ![n] = NoQueue]
       /\ wait' = wait /\ adding' = adding
  BY <1>1, <1>2, <1>9, <1>10, ZenonT(60) DEF RecvDelete
<1>12. s \in Seq(Conns) /\ t \in Seq(MsgType) BY <1>2, <1>5, QueueFacts, MessagesType
<1>13. PICK R, T : R = DOMAIN s /\ T = DOMAIN t OBVIOUS
<1>14. R \in Parts(s) /\ T \in Parts(t) BY <1>13 DEF Parts
<1>15. queue \in Queues /\ queue' \in Queues BY QueuesAre, QueuesAreNext DEF IInv
<1>16. ASSUME NEW d \in Conns
       PROVE  /\ told[d] \in ConnType /\ Same(ps[d], told[d]) /\ told[d].client = ps[d].client
              /\ told[d].link = ps[d].link - Lost(s, R, {d}) - Lost(t, T, Of(d))
  <2>1. PICK a, b : a = Lost(s, R, {d}) /\ b = Lost(t, T, Of(d)) OBVIOUS
  <2>2. a = Cardinality({i \in R : s[i] = d}) /\ a \in Nat BY <1>12, <1>14, <2>1, LostWorkers
  <2>3. b = Cardinality({i \in T : t[i].conn = d}) /\ b \in Nat
    BY <1>12, <1>14, <2>1, LostMessages
  <2>4. rf[d] = a + b BY <1>9, <1>13, <2>2, <2>3
  <2>5. PICK x : x = ps[d] OBVIOUS
  <2>6. x \in ConnType /\ x = PopListed(cs, d, n) BY <1>8, <2>5 DEF Objects
  <2>7. PICK k : k = x.link - rf[d] OBVIOUS
  <2>8. PICK o : o = IF cs[d].sock = "open" THEN x.out + rf[d] ELSE x.out OBVIOUS
  <2>9. PICK v \in BOOLEAN : v = (x.wr \/ (cs[d].sock = "open" /\ rf[d] > 0)) BY Zenon
  <2>10. k \in Int /\ o \in Int /\ k = x.link - a - b
    <3>1. x.link \in Int /\ x.out \in Int BY <2>6, ObjectFields
    <3> QED BY <2>2, <2>3, <2>4, <2>7, <2>8, <3>1
  <2>11. told[d] = Closed(x, k, o, v)
    BY <1>10, <2>6, <2>7, <2>8, <2>9, Zenon DEF Closed
  <2>12. /\ Closed(x, k, o, v) \in ConnType /\ Same(x, Closed(x, k, o, v))
         /\ Closed(x, k, o, v).client = x.client /\ Closed(x, k, o, v).link = k
    BY <2>6, <2>10, ClosedDoes
  <2> QED BY <2>1, <2>5, <2>10, <2>11, <2>12
<1>17. told \in Objects BY <1>10, <1>16 DEF Objects
<1>18. Left(s, queue'[n].workers, R) /\ Left(t, queue'[n].clients, T)
  <2>1. queue'[n].workers = << >> /\ queue'[n].clients = << >>
    BY <1>5, <1>11, <1>15 DEF Queues, NoQueue
  <2>2. Left(s, << >>, DOMAIN s) /\ Left(t, << >>, DOMAIN t) BY <1>12, LeftNone
  <2> QED BY <1>13, <2>1, <2>2
<1>19. \A m \in Names : m # n => /\ queue'[m].workers = queue[m].workers
                                 /\ queue'[m].clients = queue[m].clients
  BY <1>11, <1>15 DEF Queues
<1>20. Shrinks(ps, told, queue, queue', n, R, T)
  BY <1>2, <1>16, <1>18, <1>19 DEF Shrinks
<1>21. Sound({}, told, wait, queue')
  <2>1. R \in Parts(queue[n].workers) /\ T \in Parts(queue[n].clients) BY <1>2, <1>14
  <2> HIDE DEF NoPlace
  <2> QED BY <1>5, <1>8, <1>15, <1>17, <1>20, <2>1, ShrinkSound
<1>22. Sound({}, conn', wait, queue') BY <1>11, <1>21, SendSound
<1> QED BY <1>6, <1>11, <1>22, IdleOk, LinkStepSound

-----------------------------------------------------------------------------
(* Calls *)

\* Queue n without the workers that the scan of a call erased.
Shortened(r) == [queue EXCEPT ![r.names[1]].workers = RestOfWorkers(r)]

LEMMA ShortenedIs ==
    ASSUME IInv, NEW c \in Conns, NEW r \in Requests[c], Call(c, r)
    PROVE  /\ Shortened(r) \in Queues /\ r.names[1] \in Names
           /\ Gone(queue, Shortened(r), r.names[1],
                   Erased(conn, queue[r.names[1]].workers, r.wid), {})
           /\ \A m \in Names : Shortened(r)[m].clients = queue[m].clients
           /\ \A m \in Names : m # r.names[1] => Shortened(r)[m] = queue[m]
           /\ Shortened(r)[r.names[1]].workers = RestOfWorkers(r)
<1>1. PICK n : n = r.names[1] OBVIOUS
<1>2. n \in Names /\ RestOfWorkers(r) \in Seq(Conns) BY <1>1, CallFacts
<1>3. queue \in Queues BY QueuesAre DEF IInv
<1>4. PICK q : q = [queue[n] EXCEPT !.workers = RestOfWorkers(r)] OBVIOUS
<1>5. queue[n] \in QueueType BY <1>2, <1>3 DEF Queues
<1>6. q \in QueueType /\ q.workers = RestOfWorkers(r) /\ q.clients = queue[n].clients
  BY <1>2, <1>4, <1>5 DEF QueueType
<1>7. PICK P : P = Shortened(r) OBVIOUS
<1>8. P = [queue EXCEPT ![n] = q] BY <1>1, <1>3, <1>4, <1>7 DEF Shortened, Queues
<1>9. P \in Queues BY <1>3, <1>6, <1>8 DEF Queues
<1>10. \A m \in Names : P[m] = IF m = n THEN q ELSE queue[m] BY <1>3, <1>8 DEF Queues
<1>11. PICK s, R : s = queue[n].workers /\ R = Erased(conn, s, r.wid) OBVIOUS
<1>12. R \in Parts(s) BY <1>11 DEF Parts, Erased
<1>13. P[n].workers = Rest(s, R)
  BY <1>1, <1>2, <1>6, <1>10, <1>11 DEF RestOfWorkers, Rest
<1>14. P[n].clients = queue[n].clients BY <1>2, <1>6, <1>10
<1>15. {} \in Parts(queue[n].clients) BY DEF Parts
<1>16. Gone(queue, P, n, R, {})
  BY <1>2, <1>10, <1>11, <1>12, <1>13, <1>14, <1>15 DEF Gone, Erases
<1> QED BY <1>1, <1>2, <1>6, <1>7, <1>9, <1>10, <1>11, <1>16

\* A connection that has sent a call: it has no client, and its ids are those of the call.
Calling(x, r) ==
    /\ x.sock = "open" /\ x.status = "net" /\ x.client = None /\ ~x.noid /\ ~x.fail
    /\ x.id = r.id /\ x.json = r.json

LEMMA CallStateSound ==
    ASSUME IInv, LinkState, NEW c \in Conns, NEW r \in Requests[c], Call(c, r)
    PROVE  /\ CallState(c, r) \in Objects /\ adding = Idle /\ adding' = adding
           /\ Sound({}, CallState(c, r), wait, Shortened(r))
           /\ Calling(CallState(c, r)[c], r)
           /\ \A d \in Conns : /\ CallState(c, r)[d].sock = conn[d].sock
                               /\ CallState(c, r)[d].status = conn[d].status
<1>1. PICK cs : cs = Start(conn, c, r) OBVIOUS
<1>2. PICK n, R : n = r.names[1] /\ R = Erased(conn, queue[n].workers, r.wid) OBVIOUS
<1>3. Plain(c, r, {"call", "async"}) /\ adding' = adding BY DEF Call
<1>4. /\ Parsed(c, r) /\ cs[c].status = "net" /\ cs[c].client = None
      /\ ~cs[c].noid /\ ~cs[c].fail
  BY <1>1, <1>3, PlainLinks
<1>5. /\ Sound({}, cs, wait, queue) /\ Started(conn, cs, c, r) /\ cs[c].sock = "open"
      /\ adding = Idle
  BY <1>1, <1>4, StartLinks
<1>6. /\ Shortened(r) \in Queues /\ n \in Names /\ Gone(queue, Shortened(r), n, R, {})
  BY <1>2, ShortenedIs
<1>7. PICK ds : ds = Release(cs, queue[n].workers, R) OBVIOUS
<1>8. /\ Sound({}, ds, wait, Shortened(r))
      /\ \A d \in Conns : Same(cs[d], ds[d]) /\ ds[d].client = cs[d].client
  BY <1>5, <1>6, <1>7, ReleaseSound
<1>9. ds = CallState(c, r) BY <1>1, <1>2, <1>7 DEF CallState
<1>10. Calling(ds[c], r) BY <1>4, <1>5, <1>8 DEF Calling, Same, Started
<1>11. \A d \in Conns : ds[d].sock = conn[d].sock /\ ds[d].status = conn[d].status
  BY <1>5, <1>8 DEF Same, Started
<1> QED BY <1>3, <1>5, <1>8, <1>9, <1>10, <1>11 DEF Sound

LEMMA RecvCallAbsentLinks ==
    ASSUME IInv, LinkState, NEW c \in Conns, NEW r \in Requests[c], RecvCallAbsent(c, r)
    PROVE  LinkStep
<1>1. Call(c, r) /\ conn' = Send(CallState(c, r), c) /\ wait' = wait /\ queue' = Shortened(r)
  BY DEF RecvCallAbsent, Shortened
<1>2. Sound({}, CallState(c, r), wait, Shortened(r)) /\ adding = Idle /\ adding' = adding
  BY <1>1, CallStateSound
<1>3. Sound({}, conn', wait, Shortened(r)) BY <1>1, <1>2, SendSound
<1> QED BY <1>1, <1>2, <1>3, IdleOk, LinkStepSound

\* The ids of a call are those that its connection may send.
LEMMA CallingOwn ==
    ASSUME NEW c \in Conns, NEW r \in Requests[c], r.op = "call", NEW x, Calling(x, r)
    PROVE  Own(c, x)
<1>1. r.id # None => r.id \in HeaderIds(c) BY DEF HeaderIds
<1>2. r.json \in Ids => r.json \in BodyIds(c) BY DEF BodyIds
<1> QED BY <1>1, <1>2 DEF Own, Calling

\* A connection that has sent a call starts to wait.
LEMMA WaitingSound ==
    ASSUME NEW cs, NEW ws, NEW Q, Sound({}, cs, ws, Q), NEW c \in Conns, NEW r \in Requests[c],
           r.op = "call", Calling(cs[c], r)
    PROVE  /\ Sound({}, SetStatus(cs, c, "client_wait_result"), ws, Q)
           /\ Free(SetStatus(cs, c, "client_wait_result"), ws, Q, c)
<1>1. PICK s \in Statuses : s = "client_wait_result" BY Values
<1>2. cs \in Objects /\ Placed(cs, ws, Q) BY DEF Sound
<1>3. cs[c].sock = "open" /\ cs[c].status = "net" BY DEF Calling
<1>4. Own(c, cs[c]) BY CallingOwn
<1>5. s \in WaitsFor /\ s \notin Unclaimed BY <1>1 DEF WaitsFor, Unclaimed
<1>6. NoPlace(cs, ws, Q, c) BY <1>2, <1>3 DEF Placed, WaitsFor
<1>7. PICK ds : ds = SetStatus(cs, c, s) OBVIOUS
<1>8. /\ \A d \in Conns : d # c => ds[d] = cs[d]
      /\ ds[c].status = s /\ Restated(cs[c], ds[c])
  BY <1>2, <1>7, StatusDoes
<1>9. Served(ds, c) = Served(cs, c)
  <2>1. \A w \in Conns : ds[w].client = cs[w].client /\ ds[w].noid = cs[w].noid
    BY <1>8 DEF Restated
  <2> QED BY <2>1 DEF Served
<1>10. NoPlace(ds, ws, Q, c) BY <1>6, <1>9 DEF NoPlace
<1>11. Free(ds, ws, Q, c) BY <1>3, <1>5, <1>8, <1>10 DEF Free, Restated
<1> HIDE DEF NoPlace, Own
<1>12. Sound({}, ds, ws, Q) BY <1>4, <1>5, <1>7, StatusSound
<1> QED BY <1>1, <1>7, <1>11, <1>12

LEMMA RecvCallEnqueueLinks ==
    ASSUME IInv, LinkState, NEW c \in Conns, NEW r \in Requests[c], RecvCallEnqueue(c, r), IInv'
    PROVE  LinkStep
<1>1. PICK n, cs : n = r.names[1] /\ cs = CallState(c, r) OBVIOUS
<1>2. PICK m : m = [conn |-> IF r.op = "async" THEN None ELSE c, prio |-> r.prio,
                    req |-> r.wid, job |-> <<c, calls[c] + 1>>]
  OBVIOUS
<1>3. /\ Call(c, r)
      /\ conn' = IF r.op = "async" THEN Send(cs, c)
                 ELSE Link(SetStatus(cs, c, "client_wait_result"), c)
      /\ queue' = [queue EXCEPT ![n].workers = RestOfWorkers(r), ![n].clients = Insert(@, m)]
      /\ wait' = wait
  BY <1>1, <1>2 DEF RecvCallEnqueue
<1>4. PICK P : P = Shortened(r) OBVIOUS
<1>5. /\ cs \in Objects /\ Sound({}, cs, wait, P) /\ Calling(cs[c], r)
      /\ adding = Idle /\ adding' = adding
  BY <1>1, <1>3, <1>4, CallStateSound
<1>6. /\ P \in Queues /\ n \in Names /\ (\A k \in Names : P[k].clients = queue[k].clients)
      /\ (\A k \in Names : k # n => P[k] = queue[k]) /\ P[n].workers = RestOfWorkers(r)
  BY <1>1, <1>3, <1>4, ShortenedIs
<1>7. queue \in Queues /\ queue' \in Queues BY QueuesAre, QueuesAreNext DEF IInv
<1>8. m \in MsgType
  <2>1. r \in RequestType /\ <<c, calls[c] + 1>> \in Job BY <1>3, CallFacts
  <2>2. r.prio \in Int /\ r.wid \in Wids \cup {None} BY <2>1, RequestFacts
  <2> QED BY <1>2, <2>1, <2>2 DEF MsgType
<1>9. PICK t : t = Insert(queue[n].clients, m) OBVIOUS
<1>10. queue[n] \in QueueType BY <1>6, <1>7 DEF Queues
<1>11. queue'[n].clients = t /\ queue'[n].workers = RestOfWorkers(r)
  BY <1>3, <1>6, <1>7, <1>9, <1>10 DEF Queues, QueueType
<1>12. \A k \in Names : k # n => queue'[k] = queue[k] BY <1>3, <1>7 DEF Queues
<1>13. Gains(P[n].clients, queue'[n].clients, m)
  <2>1. PICK s, p : s = queue[n].clients /\ p = Position(s, m) OBVIOUS
  <2>2. s \in Seq(MsgType) BY <1>6, <2>1, MessagesType
  <2>3. t \in Seq(MsgType)
    <3>1. queue'[n] \in QueueType BY <1>6, <1>7 DEF Queues
    <3> QED BY <1>11, <3>1 DEF QueueType
  <2>4. /\ Len(s) \in Nat /\ p \in 0 .. Len(s) /\ DOMAIN t = 1 .. Len(s) + 1
        /\ \A i \in 1 .. Len(s) + 1 :
             t[i] = IF i <= p THEN s[i] ELSE IF i = p + 1 THEN m ELSE s[i - 1]
    <3>1. t = Insert(s, m) BY <1>9, <2>1
    <3> HIDE DEF Insert, Position
    <3>2. /\ Len(s) \in Nat /\ Position(s, m) \in 0 .. Len(s)
          /\ DOMAIN Insert(s, m) = 1 .. Len(s) + 1
          /\ \A i \in 1 .. Len(s) + 1 :
               Insert(s, m)[i] = IF i <= Position(s, m) THEN s[i]
                                 ELSE IF i = Position(s, m) + 1 THEN m ELSE s[i - 1]
      BY <1>8, <2>2, InsertFacts
    <3> QED BY <2>1, <3>1, <3>2, Zenon
  <2>5. Len(t) = Len(s) + 1
    <3>1. Len(t) \in Nat /\ DOMAIN t = 1 .. Len(t) BY <2>3, LenProperties
    <3> QED BY <2>4, <3>1
  <2>6. Behind(s, t, m, p) BY <2>4, <2>5 DEF Behind
  <2>7. Gains(s, t, m) BY <2>2, <2>3, <2>4, <2>6, GainBehind
  <2> QED BY <1>6, <1>11, <2>1, <2>7
<1>14. \A k \in Names : k # n => /\ queue'[k].workers = P[k].workers
                                 /\ queue'[k].clients = P[k].clients
  BY <1>6, <1>12
<1>15. queue'[n].workers = P[n].workers BY <1>6, <1>11
<1>16. CASE r.op = "async"
  <2>1. m.conn = None /\ conn' = Send(cs, c) BY <1>2, <1>3, <1>16
  <2>2. Sound({}, conn', wait, P) BY <1>5, <2>1, SendSound
  <2>3. conn' \in Objects BY <2>2 DEF Sound
  <2>4. ASSUME NEW d \in Conns
        PROVE  /\ Same(conn'[d], conn'[d])
               /\ conn'[d].link = conn'[d].link + (IF d = m.conn THEN 1 ELSE 0)
    <3>1. d # m.conn BY <2>1, NoneAssumption
    <3>2. conn'[d] \in ConnType BY <2>3 DEF Objects
    <3>3. conn'[d].link \in Int BY <3>2, ObjectFields
    <3> QED BY <3>1, <3>3 DEF Same
  <2>5. Enqueues(conn', conn', P, queue', n, m)
    BY <1>13, <1>14, <1>15, <2>4 DEF Enqueues
  <2> HIDE DEF NoPlace
  <2>6. Sound({}, conn', wait, queue') BY <1>6, <1>7, <1>8, <2>1, <2>2, <2>3, <2>5, EnqueueSound
  <2> QED BY <1>3, <1>5, <2>6, IdleOk, LinkStepSound
<1>17. CASE r.op # "async"
  <2>1. r.op = "call" BY <1>3, <1>17, CallFacts
  <2>2. PICK ds : ds = SetStatus(cs, c, "client_wait_result") OBVIOUS
  <2>3. Sound({}, ds, wait, P) /\ Free(ds, wait, P, c)
    BY <1>5, <2>1, <2>2, WaitingSound
  <2>4. m.conn = c /\ conn' = Link(ds, c) BY <1>2, <1>3, <1>17, <2>2
  <2>5. ds \in Objects BY <2>3 DEF Sound
  <2>6. /\ conn' \in Objects
        /\ \A d \in Conns : /\ Same(ds[d], conn'[d]) /\ conn'[d].client = ds[d].client
                            /\ conn'[d].link = ds[d].link + (IF d = c THEN 1 ELSE 0)
    BY <2>4, <2>5, LinkDoes
  <2>7. Enqueues(ds, conn', P, queue', n, m)
    BY <1>13, <1>14, <1>15, <2>4, <2>6 DEF Enqueues
  <2>8. /\ ds[m.conn].sock = "open" /\ ds[m.conn].status \in WaitsFor
        /\ NoPlace(ds, wait, P, m.conn)
    BY <2>3, <2>4 DEF Free
  <2> HIDE DEF NoPlace
  <2>9. Sound({}, conn', wait, queue')
    BY <1>6, <1>7, <1>8, <2>3, <2>6, <2>7, <2>8, EnqueueSound
  <2> QED BY <1>3, <1>5, <2>9, IdleOk, LinkStepSound
<1> QED BY <1>16, <1>17

\* The worker that a call is given to waits for a job.
Waits(x) == x.sock = "open" /\ x.status = "worker_wait_job"

LEMMA TakenWaits ==
    ASSUME IInv, NEW c \in Conns, NEW r \in Requests[c], Call(c, r),
           Usable(conn, queue[r.names[1]].workers, r.wid) # {}
    PROVE  Taken(r) \in Conns /\ Waits(conn[Taken(r)])
<1>1. PICK s : s = queue[r.names[1]].workers OBVIOUS
<1>2. PICK U : U = Usable(conn, s, r.wid) OBVIOUS
<1>3. U # {} BY <1>1, <1>2
<1>4. s \in Seq(Conns) BY <1>1, CallFacts, QueueFacts
<1>5. U \in SUBSET DOMAIN s BY <1>2 DEF Usable
<1>6. U \in SUBSET Nat BY <1>4, <1>5
<1>7. Least(U) \in U BY <1>3, <1>6, LeastProperty
<1>8. \A i \in U : conn[s[i]].status = "worker_wait_job" /\ conn[s[i]].sock = "open"
  BY <1>2 DEF Usable, IsClosed
<1>9. Taken(r) = s[Least(U)] BY <1>1, <1>2 DEF Taken
<1>10. Least(U) \in DOMAIN s BY <1>5, <1>7
<1>11. PICK k : k = Least(U) OBVIOUS
<1>12. s[k] \in Conns BY <1>4, <1>10, <1>11
<1> QED BY <1>7, <1>8, <1>9, <1>11, <1>12 DEF Waits

\* What a call finds: the state after the scan of the workers, and the worker.
LEMMA CallFinds ==
    ASSUME IInv, LinkState, NEW c \in Conns, NEW r \in Requests[c], Call(c, r),
           Usable(conn, queue[r.names[1]].workers, r.wid) # {}
    PROVE  /\ Taken(r) \in Conns /\ Taken(r) # c /\ Waits(CallState(c, r)[Taken(r)])
           /\ CallId(CallState(c, r), c, <<c, calls[c] + 1>>) \in AllIds
           /\ CallState(c, r) \in Connections(Named)
<1>1. Taken(r) \in Conns /\ Waits(conn[Taken(r)]) BY TakenWaits
<1>2. \A d \in Conns : /\ CallState(c, r)[d].sock = conn[d].sock
                       /\ CallState(c, r)[d].status = conn[d].status
  BY CallStateSound
<1>3. CallState(c, r)[c].status = "net" BY CallStateSound DEF Calling
<1>4. Waits(CallState(c, r)[Taken(r)]) BY <1>1, <1>2 DEF Waits
<1>5. Taken(r) # c BY <1>3, <1>4 DEF Waits
<1>6. <<c, calls[c] + 1>> \in Job /\ CallState(c, r) \in Connections(Named) BY CallFacts
<1>7. CallId(CallState(c, r), c, <<c, calls[c] + 1>>) \in AllIds BY <1>6, CallIdType
<1> QED BY <1>1, <1>4, <1>5, <1>6, <1>7

LEMMA RecvCallRejectLinks ==
    ASSUME IInv, LinkState, NEW c \in Conns, NEW r \in Requests[c], RecvCallReject(c, r), IInv'
    PROVE  LinkStep
<1>1. PICK n, w, cs, P : /\ n = r.names[1] /\ w = Taken(r) /\ cs = CallState(c, r)
                         /\ P = Shortened(r)
  OBVIOUS
<1>2. PICK i : i = CallId(cs, c, <<c, calls[c] + 1>>) OBVIOUS
<1>3. PICK ls : ls = Link(cs, w) OBVIOUS
<1>4. PICK v : v = IF NoIdFound(cs, c) THEN ls[c].id ELSE i OBVIOUS
<1>5. /\ Call(c, r) /\ Usable(conn, queue[n].workers, r.wid) # {}
      /\ conn' = Send([ls EXCEPT ![c].id = IF NoIdFound(cs, c) THEN @ ELSE i], c)
      /\ queue' = [queue EXCEPT ![n].workers = <<w>> \o RestOfWorkers(r)]
      /\ wait' = wait
  BY <1>1, <1>2, <1>3 DEF RecvCallReject
<1>6. /\ cs \in Objects /\ Sound({}, cs, wait, P) /\ Calling(cs[c], r)
      /\ adding = Idle /\ adding' = adding
  BY <1>1, <1>5, CallStateSound
<1>7. w \in Conns /\ w # c /\ Waits(cs[w]) /\ i \in AllIds BY <1>1, <1>2, <1>5, CallFinds
<1>8. /\ P \in Queues /\ n \in Names /\ (\A k \in Names : P[k].clients = queue[k].clients)
      /\ (\A k \in Names : k # n => P[k] = queue[k]) /\ P[n].workers = RestOfWorkers(r)
  BY <1>1, <1>5, ShortenedIs
<1>9. queue \in Queues /\ queue' \in Queues BY QueuesAre, QueuesAreNext DEF IInv
<1>10. PICK s : s = RestOfWorkers(r) OBVIOUS
<1>11. s \in Seq(Conns) BY <1>5, <1>10, CallFacts
<1>12. queue[n] \in QueueType BY <1>8, <1>9 DEF Queues
<1>13. queue'[n].workers = <<w>> \o s /\ queue'[n].clients = queue[n].clients
  BY <1>5, <1>8, <1>9, <1>10, <1>12 DEF Queues, QueueType
<1>14. \A k \in Names : k # n => queue'[k] = queue[k] BY <1>5, <1>9 DEF Queues
<1>15. Gains(s, <<w>> \o s, w) BY <1>7, <1>11, GainFront
<1>16. /\ ls \in Objects
       /\ \A d \in Conns : /\ Same(cs[d], ls[d]) /\ ls[d].client = cs[d].client
                           /\ ls[d].link = cs[d].link + (IF d = w THEN 1 ELSE 0)
  BY <1>3, <1>6, <1>7, LinkDoes
<1>17. Joins(cs, ls, P, queue', n, w)
  BY <1>8, <1>10, <1>13, <1>14, <1>15, <1>16 DEF Joins
<1>18. w \in Live(cs) BY <1>7 DEF Live, Waits
<1>19. Sound({}, ls, wait, queue') BY <1>6, <1>8, <1>9, <1>16, <1>17, <1>18, JoinSound
<1>20. ls[c].status = "net" BY <1>6, <1>16 DEF Same, Calling
<1>21. ls[c] \in ConnType BY <1>16 DEF Objects
<1>22. v \in AllIds \cup {None} BY <1>4, <1>7, <1>21, ObjectFields
<1>23. conn' = Send(IdSet(ls, c, v), c)
  <2>1. [ls EXCEPT ![c].id = IF NoIdFound(cs, c) THEN @ ELSE i] = IdSet(ls, c, v)
    BY <1>4, <1>16 DEF IdSet, Objects
  <2> QED BY <1>5, <2>1
<1>24. Sound({}, IdSet(ls, c, v), wait, queue') BY <1>19, <1>20, <1>22, IdSound
<1>25. Sound({}, conn', wait, queue') BY <1>23, <1>24, SendSound
<1> QED BY <1>5, <1>6, <1>25, IdleOk, LinkStepSound

-----------------------------------------------------------------------------
(* A call is handed to a worker *)

\* A worker that tells its client when it is lost keeps a pointer to it.
Claimed(cs, w, c) == IF cs[w].fail THEN Link([cs EXCEPT ![w].client = c], c) ELSE cs

LEMMA ClaimedDoes ==
    ASSUME NEW cs \in Objects, NEW w \in Conns, NEW c \in Conns
    PROVE  /\ Claimed(cs, w, c) \in Objects
           /\ \A d \in Conns :
                 /\ Same(cs[d], Claimed(cs, w, c)[d])
                 /\ Claimed(cs, w, c)[d].client =
                       IF d = w THEN IF cs[w].fail THEN c ELSE cs[d].client ELSE cs[d].client
                 /\ Claimed(cs, w, c)[d].link =
                       cs[d].link + (IF d = c THEN IF cs[w].fail THEN 1 ELSE 0 ELSE 0)
<1>1. PICK us : us = [cs EXCEPT ![w].client = c] OBVIOUS
<1>2. /\ us \in Objects
      /\ \A d \in Conns : /\ Same(cs[d], us[d]) /\ us[d].link = cs[d].link
                          /\ us[d].client = IF d = w THEN c ELSE cs[d].client
  <2>1. c \in Conns \cup {None} OBVIOUS
  <2>2. LET v == [cs EXCEPT ![w].client = c]
        IN  /\ v \in Objects
            /\ \A d \in Conns : /\ Same(cs[d], v[d]) /\ v[d].link = cs[d].link
                                /\ v[d].wm = cs[d].wm
                                /\ v[d].client = IF d = w THEN c ELSE cs[d].client
    BY <2>1, ClientDoes
  <2> QED BY <1>1, <2>2
<1>3. PICK ds : ds = Link(us, c) OBVIOUS
<1>4. /\ ds \in Objects
      /\ \A d \in Conns : /\ Same(us[d], ds[d]) /\ ds[d].client = us[d].client
                          /\ ds[d].link = us[d].link + (IF d = c THEN 1 ELSE 0)
  BY <1>2, <1>3, LinkDoes, SMTT(40)
<1>5. CASE cs[w].fail
  <2>1. Claimed(cs, w, c) = ds BY <1>1, <1>3, <1>5 DEF Claimed
  <2>2. \A d \in Conns : Same(cs[d], ds[d]) BY <1>2, <1>4 DEF Same
  <2> QED BY <1>2, <1>4, <1>5, <2>1, <2>2
<1>6. CASE ~cs[w].fail
  <2>1. Claimed(cs, w, c) = cs BY <1>6 DEF Claimed
  <2>2. ASSUME NEW d \in Conns
        PROVE  Same(cs[d], cs[d]) /\ cs[d].link \in Int
    <3>1. cs[d] \in ConnType BY DEF Objects
    <3> QED BY <3>1, ObjectFields DEF Same
  <2>3. \A d \in Conns :
           cs[d].link = cs[d].link + (IF d = c THEN IF cs[w].fail THEN 1 ELSE 0 ELSE 0)
    BY <1>6, <2>2
  <2> QED BY <1>6, <2>1, <2>2, <2>3
<1> QED BY <1>5, <1>6

\* The status of a worker that has a call: one without ids waits for the result.
GivenStatus(x) == IF x.noid THEN "worker_wait_result" ELSE "net"

\* Worker w has the call of client c, which gets status s, id v and k links.
Gives(cs, ds, w, c, s, v, k) ==
    \A d \in Conns :
       /\ ds[d].sock = cs[d].sock /\ ds[d].item = cs[d].item /\ ds[d].noid = cs[d].noid
       /\ ds[d].fail = cs[d].fail /\ ds[d].json = cs[d].json
       /\ ds[d].status = IF d = c THEN s ELSE IF d = w THEN GivenStatus(cs[w])
                         ELSE cs[d].status
       /\ ds[d].client = IF d = w THEN IF cs[w].fail THEN c ELSE cs[d].client
                         ELSE cs[d].client
       /\ ds[d].link = IF d = c THEN cs[d].link + k ELSE cs[d].link
       /\ ds[d].id = IF d = c THEN v ELSE cs[d].id

LEMMA GivesAlike ==
    ASSUME NEW cs, NEW xs, NEW ds, NEW w, NEW c, NEW s, NEW v, NEW k,
           Gives(cs, xs, w, c, s, v, k), Gives(cs, ds, w, c, s, v, k)
    PROVE  \A d \in Conns : Alike(xs[d], ds[d])
BY DEF Gives, Alike, Same

\* The links that a pointer to the client takes.
Pointers(x) == IF x.fail THEN 1 ELSE 0

\* The client gets its status, the worker its own, and its client.
Claiming(cs, w, c, s) ==
    Claimed(SetStatus(SetStatus(cs, c, s), w, GivenStatus(cs[w])), w, c)

LEMMA ClaimingSound ==
    ASSUME NEW cs, NEW ws, NEW Q, NEW w \in Conns, NEW c \in Conns, NEW s \in Statuses,
           w # c, Joining(cs[w]), cs \in Objects,
           Sound({}, SetStatus(cs, c, s), ws, Q), Free(SetStatus(cs, c, s), ws, Q, c)
    PROVE  /\ Sound({}, Claiming(cs, w, c, s), ws, Q)
           /\ ~cs[w].noid => Free(Claiming(cs, w, c, s), ws, Q, c)
           /\ Gives(cs, Claiming(cs, w, c, s), w, c, s, cs[c].id, Pointers(cs[w]))
<1>1. PICK xs : xs = SetStatus(cs, c, s) OBVIOUS
<1>2. /\ xs \in Objects /\ Sound({}, xs, ws, Q) /\ Free(xs, ws, Q, c)
      /\ \A d \in Conns : d # c => xs[d] = cs[d]
      /\ xs[c].status = s /\ Restated(cs[c], xs[c])
  BY <1>1, StatusDoes
<1>3. PICK t \in Statuses : t = GivenStatus(cs[w]) BY Values DEF GivenStatus
<1>4. t \notin WaitsFor /\ t \notin Unclaimed BY <1>3 DEF GivenStatus, WaitsFor, Unclaimed
<1>5. PICK ys : ys = SetStatus(xs, w, t) OBVIOUS
<1>6. /\ ys \in Objects /\ (\A d \in Conns : d # w => ys[d] = xs[d])
      /\ ys[w].status = t /\ Restated(xs[w], ys[w])
  <2>1. xs \in Objects BY <1>2
  <2>2. /\ SetStatus(xs, w, t) \in Objects
        /\ \A d \in Conns : d # w => SetStatus(xs, w, t)[d] = xs[d]
        /\ SetStatus(xs, w, t)[w].status = t /\ Restated(xs[w], SetStatus(xs, w, t)[w])
    BY <2>1, StatusDoes
  <2> QED BY <1>5, <2>2, Zenon
<1>7. Joining(xs[w]) BY <1>2
<1>8. Sound({}, ys, ws, Q)
  <2>1. xs[w].status \notin WaitsFor BY <1>7 DEF Joining
  <2>2. t # "client_wait_result" BY <1>4 DEF WaitsFor
  <2> HIDE DEF NoPlace, Own
  <2> QED BY <1>2, <1>4, <1>5, <2>1, <2>2, StatusSound
<1>9. Free(ys, ws, Q, c)
  <2>1. \A d \in Conns : ys[d].client = xs[d].client /\ ys[d].noid = xs[d].noid
    BY <1>6 DEF Restated
  <2>2. NoPlace(xs, ws, Q, c) BY <1>2 DEF Free
  <2>3. NoPlace(ys, ws, Q, c) BY <2>1, <2>2, NoPlaceKept
  <2>4. ys[c] = xs[c] BY <1>6
  <2> QED BY <1>2, <2>3, <2>4 DEF Free
<1>10. PICK zs : zs = Claimed(ys, w, c) OBVIOUS
<1>11. /\ zs \in Objects
       /\ \A d \in Conns :
             /\ Same(ys[d], zs[d])
             /\ zs[d].client = IF d = w THEN IF ys[w].fail THEN c ELSE ys[d].client
                               ELSE ys[d].client
             /\ zs[d].link = ys[d].link + (IF d = c THEN IF ys[w].fail THEN 1 ELSE 0 ELSE 0)
  <2>1. ys \in Objects BY <1>6
  <2>2. /\ Claimed(ys, w, c) \in Objects
        /\ \A d \in Conns :
              /\ Same(ys[d], Claimed(ys, w, c)[d])
              /\ Claimed(ys, w, c)[d].client =
                    IF d = w THEN IF ys[w].fail THEN c ELSE ys[d].client ELSE ys[d].client
              /\ Claimed(ys, w, c)[d].link =
                    ys[d].link + (IF d = c THEN IF ys[w].fail THEN 1 ELSE 0 ELSE 0)
    BY <2>1, ClaimedDoes
  <2> QED BY <1>10, <2>2, Zenon
<1>12. zs = Claiming(cs, w, c, s) BY <1>1, <1>3, <1>5, <1>10 DEF Claiming
<1>13. ys[w].fail = cs[w].fail /\ ys[w].noid = cs[w].noid
  BY <1>2, <1>6 DEF Restated
<1>14. Sound({}, zs, ws, Q) /\ (~cs[w].noid => Free(zs, ws, Q, c))
  <2>1. CASE ys[w].fail
    <3>1. Claimable(ys, w)
      BY <1>4, <1>6, <1>7, <2>1 DEF Claimable, Joining, Restated
    <3>2. Claims(ys, zs, w, c) BY <1>11, <2>1 DEF Claims
    <3> QED BY <1>8, <1>9, <1>11, <1>13, <3>1, <3>2, ClaimSound
  <2>2. CASE ~ys[w].fail
    <3>1. zs = ys BY <1>10, <2>2 DEF Claimed
    <3> QED BY <1>8, <1>9, <3>1
  <2> QED BY <2>1, <2>2
<1>15. ASSUME NEW d \in Conns
       PROVE  /\ zs[d].sock = cs[d].sock /\ zs[d].item = cs[d].item
              /\ zs[d].noid = cs[d].noid /\ zs[d].fail = cs[d].fail
              /\ zs[d].json = cs[d].json /\ zs[d].id = cs[d].id
              /\ zs[d].status = IF d = c THEN s ELSE IF d = w THEN t ELSE cs[d].status
              /\ ys[d].client = cs[d].client /\ ys[d].link = cs[d].link
              /\ cs[d].link \in Int
  <2>1. cs[d] \in ConnType BY DEF Objects
  <2>2. cs[d].link \in Int BY <2>1, ObjectFields
  <2>3. CASE d = c
    <3>1. ys[d] = xs[d] BY <1>6, <2>3
    <3> QED BY <1>2, <1>11, <2>2, <2>3, <3>1 DEF Same, Restated
  <2>4. CASE d = w
    <3>1. xs[d] = cs[d] BY <1>2, <2>4
    <3> QED BY <1>6, <1>11, <2>2, <2>4, <3>1 DEF Same, Restated
  <2>5. CASE d # c /\ d # w
    <3>1. ys[d] = cs[d] BY <1>2, <1>6, <2>5
    <3> QED BY <1>11, <2>2, <2>5, <3>1 DEF Same
  <2> QED BY <2>3, <2>4, <2>5
<1>16. ASSUME NEW d \in Conns
       PROVE  /\ zs[d].client = IF d = w THEN IF cs[w].fail THEN c ELSE cs[d].client
                                ELSE cs[d].client
              /\ zs[d].link = IF d = c THEN cs[d].link + Pointers(cs[w]) ELSE cs[d].link
  BY <1>11, <1>13, <1>15 DEF Pointers
<1>17. Gives(cs, zs, w, c, s, cs[c].id, Pointers(cs[w]))
  BY <1>3, <1>15, <1>16 DEF Gives
<1> QED BY <1>12, <1>14, <1>17

\* A worker without ids gets the call.
LEMMA GiveNoIdSound ==
    ASSUME NEW cs, NEW ws, NEW Q, NEW w \in Conns, NEW c \in Conns, NEW s \in Statuses,
           w # c, Joining(cs[w]), cs \in Objects,
           Sound({}, SetStatus(cs, c, s), ws, Q), Free(SetStatus(cs, c, s), ws, Q, c),
           NEW ds \in Objects, Gives(cs, ds, w, c, s, cs[c].id, Pointers(cs[w]))
    PROVE  Sound({}, ds, ws, Q)
<1>1. PICK xs : xs = Claiming(cs, w, c, s) OBVIOUS
<1>2. Sound({}, xs, ws, Q) /\ Gives(cs, xs, w, c, s, cs[c].id, Pointers(cs[w]))
  BY <1>1, ClaimingSound
<1>3. \A d \in Conns : Alike(xs[d], ds[d]) BY <1>2, GivesAlike
<1> QED BY <1>2, <1>3, AlikeSound

\* The client is registered under the id of its call, with a link.
Entered(cs, c, i) == Link(IdSet(cs, c, i), c)

LEMMA EnteredDoes ==
    ASSUME NEW cs \in Objects, NEW c \in Conns, NEW i \in AllIds
    PROVE  /\ Entered(cs, c, i) \in Objects
           /\ \A d \in Conns : d # c => Alike(cs[d], Entered(cs, c, i)[d])
           /\ Renamed(LinkedTo(cs[c], cs[c].link + 1), Entered(cs, c, i)[c], i)
<1>1. PICK v \in AllIds \cup {None} : v = i OBVIOUS
<1>2. PICK xs : xs = IdSet(cs, c, v) OBVIOUS
<1>3. /\ xs \in Objects /\ (\A d \in Conns : d # c => xs[d] = cs[d])
      /\ Renamed(cs[c], xs[c], v)
  BY <1>2, IdDoes
<1>4. PICK ds : ds = Link(xs, c) OBVIOUS
<1>5. /\ ds \in Objects
      /\ \A d \in Conns : /\ Same(xs[d], ds[d]) /\ ds[d].client = xs[d].client
                          /\ ds[d].wm = xs[d].wm
                          /\ ds[d].link = xs[d].link + (IF d = c THEN 1 ELSE 0)
  BY <1>3, <1>4, LinkDoes
<1>6. ASSUME NEW d \in Conns, d # c
      PROVE  Alike(cs[d], ds[d])
  <2>1. xs[d] = cs[d] BY <1>3, <1>6
  <2>2. cs[d] \in ConnType BY DEF Objects
  <2>3. cs[d].link \in Int BY <2>2, ObjectFields
  <2> QED BY <1>5, <1>6, <2>1, <2>3 DEF Alike, Same
<1>7. PICK k \in Int : k = cs[c].link + 1
  <2>1. cs[c] \in ConnType BY DEF Objects
  <2>2. cs[c].link \in Int BY <2>1, ObjectFields
  <2> QED BY <2>2
<1>8. PICK y : y = LinkedTo(cs[c], k) OBVIOUS
<1>9. /\ Same(cs[c], y) /\ y.client = cs[c].client /\ y.wm = cs[c].wm /\ y.link = k
  <2>1. cs[c] \in ConnType BY DEF Objects
  <2> QED BY <1>8, <2>1, LinkedDoes
<1>10. ds[c].link = k BY <1>3, <1>5, <1>7 DEF Renamed
<1>11. Renamed(y, ds[c], i)
  BY <1>1, <1>3, <1>5, <1>9, <1>10 DEF Renamed, Same
<1>12. ds = Entered(cs, c, i) BY <1>1, <1>2, <1>4 DEF Entered
<1> QED BY <1>5, <1>6, <1>7, <1>8, <1>11, <1>12

\* Id i, which was not in use, is entered for c.
EntryMade(ws, vs, i, c) ==
    /\ vs \in WaitType /\ ws[i] = None
    /\ \A j \in AllIds : vs[j] = IF j = i THEN c ELSE ws[j]

\* A worker with ids gets the call, and the client an entry in wait_response.
LEMMA GiveIdSound ==
    ASSUME NEW cs, NEW ws, NEW Q, NEW w \in Conns, NEW c \in Conns, NEW s \in Statuses,
           w # c, Joining(cs[w]), cs \in Objects, ~cs[w].noid,
           Sound({}, SetStatus(cs, c, s), ws, Q), Free(SetStatus(cs, c, s), ws, Q, c),
           NEW i \in AllIds, i \in CallIds(c), NEW vs, EntryMade(ws, vs, i, c),
           NEW ds \in Objects, Gives(cs, ds, w, c, s, i, Pointers(cs[w]) + 1)
    PROVE  Sound({}, ds, vs, Q)
<1>1. PICK xs : xs = Claiming(cs, w, c, s) OBVIOUS
<1>2. /\ Sound({}, xs, ws, Q) /\ Free(xs, ws, Q, c)
      /\ Gives(cs, xs, w, c, s, cs[c].id, Pointers(cs[w]))
  BY <1>1, ClaimingSound
<1>3. xs \in Objects BY <1>2 DEF Sound
<1>4. PICK ys : ys = Entered(xs, c, i) OBVIOUS
<1>5. PICK k : k = xs[c].link + 1 OBVIOUS
<1>6. /\ ys \in Objects /\ (\A d \in Conns : d # c => Alike(xs[d], ys[d]))
      /\ Renamed(LinkedTo(xs[c], k), ys[c], i)
  <2>1. /\ Entered(xs, c, i) \in Objects
        /\ \A d \in Conns : d # c => Alike(xs[d], Entered(xs, c, i)[d])
        /\ Renamed(LinkedTo(xs[c], xs[c].link + 1), Entered(xs, c, i)[c], i)
    BY <1>3, EnteredDoes
  <2> QED BY <1>4, <1>5, <2>1, Zenon
<1>7. xs[c] \in ConnType BY <1>3 DEF Objects
<1>8. xs[c].link \in Int BY <1>7, ObjectFields
<1>9. PICK y : y = LinkedTo(xs[c], k) OBVIOUS
<1>10. Same(xs[c], y) /\ y.client = xs[c].client /\ y.link = k
  <2>1. k \in Int BY <1>5, <1>8
  <2> QED BY <1>7, <1>9, <2>1, LinkedDoes
<1>11. /\ ys[c].sock = xs[c].sock /\ ys[c].item = xs[c].item /\ ys[c].noid = xs[c].noid
       /\ ys[c].fail = xs[c].fail /\ ys[c].client = xs[c].client
       /\ ys[c].status = xs[c].status /\ ys[c].json = xs[c].json
       /\ ys[c].id = i /\ ys[c].link = xs[c].link + 1
  BY <1>5, <1>6, <1>9, <1>10 DEF Renamed, Same
<1>12. Enters(xs, ys, ws, vs, i, c) BY <1>6, <1>11 DEF Enters, EntryMade
<1>13. Sound({}, ys, vs, Q)
  <2>1. vs \in WaitType BY DEF EntryMade
  <2> QED BY <1>2, <1>6, <1>12, <2>1, EnterSound
<1>14. Gives(cs, ys, w, c, s, i, Pointers(cs[w]) + 1)
  <2>1. PICK p \in Int : p = Pointers(cs[w]) BY DEF Pointers
  <2>2. cs[c] \in ConnType BY DEF Objects
  <2>3. cs[c].link \in Int BY <2>2, ObjectFields
  <2>4. xs[c].link = cs[c].link + p BY <1>2, <2>1 DEF Gives
  <2>5. ys[c].link = cs[c].link + (p + 1) BY <1>11, <2>1, <2>3, <2>4
  <2>6. Gives(cs, xs, w, c, s, cs[c].id, p) BY <1>2, <2>1
  <2>7. ASSUME NEW d \in Conns
        PROVE  /\ ys[d].sock = cs[d].sock /\ ys[d].item = cs[d].item
               /\ ys[d].noid = cs[d].noid /\ ys[d].fail = cs[d].fail
               /\ ys[d].json = cs[d].json
               /\ ys[d].status = IF d = c THEN s ELSE IF d = w THEN GivenStatus(cs[w])
                                 ELSE cs[d].status
               /\ ys[d].client = IF d = w THEN IF cs[w].fail THEN c ELSE cs[d].client
                                 ELSE cs[d].client
               /\ ys[d].link = IF d = c THEN cs[d].link + (p + 1) ELSE cs[d].link
               /\ ys[d].id = IF d = c THEN i ELSE cs[d].id
    <3>1. CASE d = c BY <1>11, <2>5, <2>6, <3>1 DEF Gives
    <3>2. CASE d # c
      <4>1. Alike(xs[d], ys[d]) BY <1>6, <3>2
      <4> QED BY <2>6, <3>2, <4>1 DEF Gives, Alike, Same
    <3> QED BY <3>1, <3>2
  <2> QED BY <2>1, <2>7 DEF Gives
<1>15. \A d \in Conns : Alike(ys[d], ds[d]) BY <1>14, GivesAlike
<1> QED BY <1>13, <1>15, AlikeSound

\* What the two handlers write when a worker without ids gets a call ...
LEMMA GivesNoId ==
    ASSUME NEW cs \in Objects, NEW w \in Conns, NEW c \in Conns, w # c, NEW s \in Statuses,
           cs[w].noid,
           NEW ds, ds = SetStatus(SetStatus(Claimed(cs, w, c), c, s), w, "worker_wait_result")
    PROVE  ds \in Objects /\ Gives(cs, ds, w, c, s, cs[c].id, Pointers(cs[w]))
<1>1. PICK xs : xs = Claimed(cs, w, c) OBVIOUS
<1>2. /\ xs \in Objects
      /\ \A d \in Conns :
            /\ Same(cs[d], xs[d])
            /\ xs[d].client = IF d = w THEN IF cs[w].fail THEN c ELSE cs[d].client
                              ELSE cs[d].client
            /\ xs[d].link = cs[d].link + (IF d = c THEN IF cs[w].fail THEN 1 ELSE 0 ELSE 0)
  <2>1. /\ Claimed(cs, w, c) \in Objects
        /\ \A d \in Conns :
              /\ Same(cs[d], Claimed(cs, w, c)[d])
              /\ Claimed(cs, w, c)[d].client =
                    IF d = w THEN IF cs[w].fail THEN c ELSE cs[d].client ELSE cs[d].client
              /\ Claimed(cs, w, c)[d].link =
                    cs[d].link + (IF d = c THEN IF cs[w].fail THEN 1 ELSE 0 ELSE 0)
    BY ClaimedDoes
  <2> QED BY <1>1, <2>1, Zenon
<1>3. PICK ys : ys = SetStatus(xs, c, s) OBVIOUS
<1>4. /\ ys \in Objects /\ (\A d \in Conns : d # c => ys[d] = xs[d])
      /\ ys[c].status = s /\ Restated(xs[c], ys[c])
  BY <1>2, <1>3, StatusDoes
<1>5. PICK t \in Statuses : t = "worker_wait_result" BY Values
<1>6. ds = SetStatus(ys, w, t) BY <1>1, <1>3, <1>5
<1>7. /\ ds \in Objects /\ (\A d \in Conns : d # w => ds[d] = ys[d])
      /\ ds[w].status = t /\ Restated(ys[w], ds[w])
  <2>1. /\ SetStatus(ys, w, t) \in Objects
        /\ \A d \in Conns : d # w => SetStatus(ys, w, t)[d] = ys[d]
        /\ SetStatus(ys, w, t)[w].status = t /\ Restated(ys[w], SetStatus(ys, w, t)[w])
    BY <1>4, StatusDoes
  <2> QED BY <1>6, <2>1, Zenon
<1>8. t = GivenStatus(cs[w]) BY <1>5 DEF GivenStatus
<1>9. ASSUME NEW d \in Conns
      PROVE  /\ ds[d].sock = cs[d].sock /\ ds[d].item = cs[d].item
             /\ ds[d].noid = cs[d].noid /\ ds[d].fail = cs[d].fail
             /\ ds[d].json = cs[d].json /\ ds[d].id = cs[d].id
             /\ ds[d].status = IF d = c THEN s ELSE IF d = w THEN t ELSE cs[d].status
             /\ ds[d].client = xs[d].client /\ ds[d].link = xs[d].link
             /\ cs[d].link \in Int
  <2>1. cs[d] \in ConnType BY DEF Objects
  <2>2. cs[d].link \in Int BY <2>1, ObjectFields
  <2>3. Same(cs[d], xs[d]) BY <1>2
  <2>4. CASE d = c BY <1>4, <1>7, <2>2, <2>3, <2>4 DEF Same, Restated
  <2>5. CASE d = w BY <1>4, <1>7, <2>2, <2>3, <2>5 DEF Same, Restated
  <2>6. CASE d # c /\ d # w BY <1>4, <1>7, <2>2, <2>3, <2>6 DEF Same
  <2> QED BY <2>4, <2>5, <2>6
<1>10. ASSUME NEW d \in Conns
       PROVE  /\ ds[d].client = IF d = w THEN IF cs[w].fail THEN c ELSE cs[d].client
                                ELSE cs[d].client
              /\ ds[d].link = IF d = c THEN cs[d].link + Pointers(cs[w]) ELSE cs[d].link
  BY <1>2, <1>9 DEF Pointers
<1> QED BY <1>7, <1>8, <1>9, <1>10 DEF Gives

\* ... and when one with ids does.
Given(xs, ys, w, c, s, i) ==
    /\ \A d \in Conns : d \notin {c, w} => ys[d] = xs[d]
    /\ Renamed([xs[c] EXCEPT !.status = s], ys[c], i)
    /\ Restated(xs[w], ys[w]) /\ ys[w].status = "net"

LEMMA GivesId ==
    ASSUME NEW cs \in Objects, NEW w \in Conns, NEW c \in Conns, w # c, NEW s \in Statuses,
           ~cs[w].noid, NEW i, NEW ys \in Objects, Given(Claimed(cs, w, c), ys, w, c, s, i),
           NEW ds, ds = Link(ys, c)
    PROVE  ds \in Objects /\ Gives(cs, ds, w, c, s, i, Pointers(cs[w]) + 1)
<1>1. PICK xs : xs = Claimed(cs, w, c) OBVIOUS
<1>2. /\ xs \in Objects
      /\ \A d \in Conns :
            /\ Same(cs[d], xs[d])
            /\ xs[d].client = IF d = w THEN IF cs[w].fail THEN c ELSE cs[d].client
                              ELSE cs[d].client
            /\ xs[d].link = cs[d].link + (IF d = c THEN IF cs[w].fail THEN 1 ELSE 0 ELSE 0)
  <2>1. /\ Claimed(cs, w, c) \in Objects
        /\ \A d \in Conns :
              /\ Same(cs[d], Claimed(cs, w, c)[d])
              /\ Claimed(cs, w, c)[d].client =
                    IF d = w THEN IF cs[w].fail THEN c ELSE cs[d].client ELSE cs[d].client
              /\ Claimed(cs, w, c)[d].link =
                    cs[d].link + (IF d = c THEN IF cs[w].fail THEN 1 ELSE 0 ELSE 0)
    BY ClaimedDoes
  <2> QED BY <1>1, <2>1, Zenon
<1>3. /\ ds \in Objects
      /\ \A d \in Conns : /\ Same(ys[d], ds[d]) /\ ds[d].client = ys[d].client
                          /\ ds[d].link = ys[d].link + (IF d = c THEN 1 ELSE 0)
  BY LinkDoes, SMTT(40)
<1>4. Given(xs, ys, w, c, s, i) BY <1>1
<1>5. xs[c] \in ConnType BY <1>2 DEF Objects
<1>6. PICK x : x = [xs[c] EXCEPT !.status = s] OBVIOUS
<1>7. /\ x.sock = xs[c].sock /\ x.item = xs[c].item /\ x.link = xs[c].link
      /\ x.client = xs[c].client /\ x.noid = xs[c].noid /\ x.fail = xs[c].fail
      /\ x.status = s /\ x.json = xs[c].json
  BY <1>5, <1>6 DEF ConnType
<1>8. Renamed(x, ys[c], i) BY <1>4, <1>6 DEF Given
<1>9. "net" = GivenStatus(cs[w]) BY DEF GivenStatus
<1>10. ASSUME NEW d \in Conns
       PROVE  /\ ys[d].sock = cs[d].sock /\ ys[d].item = cs[d].item
              /\ ys[d].noid = cs[d].noid /\ ys[d].fail = cs[d].fail
              /\ ys[d].json = cs[d].json /\ ys[d].id = IF d = c THEN i ELSE cs[d].id
              /\ ys[d].status = IF d = c THEN s ELSE IF d = w THEN "net" ELSE cs[d].status
              /\ ys[d].client = xs[d].client /\ ys[d].link = xs[d].link
              /\ cs[d].link \in Int
  <2>1. cs[d] \in ConnType BY DEF Objects
  <2>2. cs[d].link \in Int BY <2>1, ObjectFields
  <2>3. Same(cs[d], xs[d]) BY <1>2
  <2>4. CASE d = c BY <1>7, <1>8, <2>2, <2>3, <2>4 DEF Same, Renamed
  <2>5. CASE d = w BY <1>4, <2>2, <2>3, <2>5 DEF Same, Restated, Given
  <2>6. CASE d # c /\ d # w
    <3>1. ys[d] = xs[d] BY <1>4, <2>6 DEF Given
    <3> QED BY <2>2, <2>3, <2>6, <3>1 DEF Same
  <2> QED BY <2>4, <2>5, <2>6
<1>11. ASSUME NEW d \in Conns
       PROVE  /\ ds[d].client = IF d = w THEN IF cs[w].fail THEN c ELSE cs[d].client
                                ELSE cs[d].client
              /\ ds[d].link = IF d = c THEN cs[d].link + (Pointers(cs[w]) + 1) ELSE cs[d].link
  BY <1>2, <1>3, <1>10 DEF Pointers
<1>12. \A d \in Conns : Same(ys[d], ds[d]) BY <1>3
<1> QED BY <1>3, <1>9, <1>10, <1>11, <1>12 DEF Gives, Same

\* The id of a call is one of its connection.
LEMMA CallIdOwn ==
    ASSUME NEW cs, NEW c \in Conns, Own(c, cs[c]), NEW k \in 1 .. MaxCalls
    PROVE  CallId(cs, c, <<c, k>>) \in CallIds(c)
BY DEF CallId, Own, CallIds

\* A worker that waits for a job may get a call.
LEMMA WaitsJoining ==
    ASSUME NEW cs, NEW ws, NEW Q, Sound({}, cs, ws, Q), NEW w \in Conns, Waits(cs[w])
    PROVE  Joining(cs[w])
<1>1. Fits({}, w, cs[w]) BY DEF Sound
<1> QED BY <1>1 DEF Fits, Waits, Joining, Unclaimed, WaitsFor

\* A worker that is told something that expects no result.
LEMMA AsyncSound ==
    ASSUME NEW cs, NEW ws, NEW Q, Sound({}, cs, ws, Q), NEW w \in Conns, Joining(cs[w]),
           NEW s \in {"net", "worker_mode_async"}
    PROVE  /\ Sound({}, SetStatus(cs, w, s), ws, Q)
           /\ Joining(SetStatus(cs, w, s)[w])
<1>1. s \in Statuses BY Values
<1>2. cs \in Objects BY DEF Sound
<1>3. s \notin WaitsFor BY DEF WaitsFor
<1>4. s # "client_wait_result" OBVIOUS
<1>5. /\ SetStatus(cs, w, s)[w].status = s
      /\ Restated(cs[w], SetStatus(cs, w, s)[w])
  BY <1>1, <1>2, StatusDoes
<1>6. Joining(SetStatus(cs, w, s)[w]) BY <1>3, <1>5 DEF Joining, Restated
<1>7. cs[w].status \notin WaitsFor /\ cs[w].client = None /\ (cs[w].noid => cs[w].fail)
  BY DEF Joining
<1> HIDE DEF NoPlace, Own, Joining
<1>8. Sound({}, SetStatus(cs, w, s), ws, Q) BY <1>1, <1>4, <1>7, StatusSound
<1> QED BY <1>6, <1>8

\* What is alike is joining, or calling, as well.
LEMMA AlikeKeeps ==
    ASSUME NEW x, NEW y, Alike(x, y)
    PROVE  /\ Joining(x) => Joining(y)
           /\ \A r : Calling(x, r) => Calling(y, r)
BY DEF Alike, Same, Joining, Calling

\* What Loop::client_request writes when a worker with ids takes a call.
LEMMA CallGives ==
    ASSUME NEW cs \in Objects, NEW w \in Conns, NEW c \in Conns, w # c, ~cs[w].noid,
           NEW s \in Statuses, s = "client_wait_result", NEW zs, zs = Claimed(cs, w, c),
           NEW i \in AllIds,
           NEW ds, ds = Link([zs EXCEPT ![c].id = i, ![w].status = "net",
                                        ![c].status = "client_wait_result"], c)
    PROVE  ds \in Objects /\ Gives(cs, ds, w, c, s, i, Pointers(cs[w]) + 1)
<1>1. PICK ys : ys = [zs EXCEPT ![c].id = i, ![w].status = "net",
                                ![c].status = "client_wait_result"]
  OBVIOUS
<1>2. zs \in Objects
  <2>1. Claimed(cs, w, c) \in Objects BY ClaimedDoes
  <2> QED BY <2>1
<1>3. PICK t \in Statuses : t = "net" BY Values
<1>4. PICK v \in AllIds \cup {None} : v = i OBVIOUS
<1>5. PICK us : us = IdSet(zs, c, v) OBVIOUS
<1>6. PICK vs : vs = SetStatus(us, w, t) OBVIOUS
<1>7. ys = SetStatus(vs, c, s)
  BY <1>1, <1>3, <1>4, <1>5, <1>6, Zenon DEF SetStatus, IdSet
<1>8. /\ us \in Objects /\ (\A d \in Conns : d # c => us[d] = zs[d])
      /\ Renamed(zs[c], us[c], v)
  BY <1>2, <1>5, IdDoes
<1>9. /\ vs \in Objects /\ (\A d \in Conns : d # w => vs[d] = us[d])
      /\ vs[w].status = t /\ Restated(us[w], vs[w])
  <2>1. /\ SetStatus(us, w, t) \in Objects
        /\ \A d \in Conns : d # w => SetStatus(us, w, t)[d] = us[d]
        /\ SetStatus(us, w, t)[w].status = t /\ Restated(us[w], SetStatus(us, w, t)[w])
    BY <1>8, StatusDoes
  <2> QED BY <1>6, <2>1, Zenon
<1>10. /\ ys \in Objects /\ (\A d \in Conns : d # c => ys[d] = vs[d])
       /\ ys[c].status = s /\ Restated(vs[c], ys[c])
  <2>1. /\ SetStatus(vs, c, s) \in Objects
        /\ \A d \in Conns : d # c => SetStatus(vs, c, s)[d] = vs[d]
        /\ SetStatus(vs, c, s)[c].status = s /\ Restated(vs[c], SetStatus(vs, c, s)[c])
    BY <1>9, StatusDoes, ZenonT(60)
  <2> QED BY <1>7, <2>1, Zenon
<1>11. zs[c] \in ConnType BY <1>2 DEF Objects
<1>12. PICK x : x = [zs[c] EXCEPT !.status = s] OBVIOUS
<1>13. /\ x.sock = zs[c].sock /\ x.item = zs[c].item /\ x.link = zs[c].link
       /\ x.client = zs[c].client /\ x.noid = zs[c].noid /\ x.fail = zs[c].fail
       /\ x.status = s /\ x.json = zs[c].json /\ x.wm = zs[c].wm
  BY <1>11, <1>12 DEF ConnType
<1>14. vs[c] = us[c] /\ us[w] = zs[w] /\ ys[w] = vs[w]
  BY <1>8, <1>9, <1>10
<1>15. Renamed(x, ys[c], i)
  BY <1>4, <1>8, <1>10, <1>13, <1>14 DEF Renamed, Restated
<1>16. Given(zs, ys, w, c, s, i)
  <2>1. \A d \in Conns : d \notin {c, w} => ys[d] = zs[d] BY <1>8, <1>9, <1>10
  <2>2. Restated(zs[w], ys[w]) /\ ys[w].status = "net" BY <1>3, <1>9, <1>14
  <2> QED BY <1>12, <1>15, <2>1, <2>2 DEF Given
<1>17. ds = Link(ys, c) /\ Given(Claimed(cs, w, c), ys, w, c, s, i) BY <1>1, <1>16
<1> QED BY <1>10, <1>17, GivesId

LEMMA RecvCallGiveLinks ==
    ASSUME IInv, LinkState, NEW c \in Conns, NEW r \in Requests[c], RecvCallGive(c, r), IInv'
    PROVE  LinkStep
<1>1. PICK n, w, cs, P : /\ n = r.names[1] /\ w = Taken(r) /\ cs = CallState(c, r)
                         /\ P = Shortened(r)
  OBVIOUS
<1>2. PICK j : j = <<c, calls[c] + 1>> OBVIOUS
<1>3. PICK i : i = CallId(cs, c, j) OBVIOUS
<1>4. PICK xs : xs = Send(cs, w) OBVIOUS
<1>5. PICK zs : zs = IF cs[w].noid \/ cs[w].fail
                     THEN Link([xs EXCEPT ![w].client = c], c) ELSE xs
  OBVIOUS
<1>6. /\ Call(c, r) /\ Usable(conn, queue[n].workers, r.wid) # {} /\ queue' = P
      /\ \/ /\ r.op = "async"
            /\ conn' = Send(SetStatus(xs, w, AfterAsync(cs, w)), c)
            /\ wait' = wait
         \/ /\ r.op = "call" /\ cs[w].noid
            /\ conn' = SetStatus(SetStatus(zs, c, "client_wait_result"),
                                 w, "worker_wait_result")
            /\ wait' = wait
         \/ /\ r.op = "call" /\ ~cs[w].noid /\ wait[i] = None
            /\ conn' = Link([zs EXCEPT ![c].id = i, ![w].status = "net",
                                       ![c].status = "client_wait_result"], c)
            /\ wait' = [wait EXCEPT ![i] = c]
  BY <1>1, <1>2, <1>3, <1>4, <1>5 DEF RecvCallGive, Shortened
<1>7. /\ cs \in Objects /\ Sound({}, cs, wait, P) /\ Calling(cs[c], r)
      /\ adding = Idle /\ adding' = adding
  BY <1>1, <1>6, CallStateSound
<1>8. w \in Conns /\ w # c /\ Waits(cs[w]) /\ i \in AllIds
  BY <1>1, <1>2, <1>3, <1>6, CallFinds
<1>9. Joining(cs[w]) BY <1>7, <1>8, WaitsJoining
<1>10. xs \in Objects /\ (\A d \in Conns : Alike(cs[d], xs[d])) /\ Sound({}, xs, wait, P)
  BY <1>4, <1>7, <1>8, SendDoes, SendSound
<1>11. Joining(xs[w]) /\ Calling(xs[c], r) BY <1>7, <1>8, <1>9, <1>10, AlikeKeeps
<1>12. xs[w].fail = cs[w].fail /\ xs[w].noid = cs[w].noid
  BY <1>8, <1>10 DEF Alike, Same
<1>13. zs = Claimed(xs, w, c) BY <1>5, <1>9, <1>12 DEF Joining, Claimed
<1>14. CASE r.op = "async"
  <2>1. PICK t \in {"net", "worker_mode_async"} : t = AfterAsync(cs, w) BY AfterAsyncIs
  <2>2. Sound({}, SetStatus(xs, w, t), wait, P) BY <1>8, <1>10, <1>11, AsyncSound
  <2>3. conn' = Send(SetStatus(xs, w, t), c) /\ wait' = wait BY <1>6, <1>14, <2>1
  <2>4. Sound({}, conn', wait, P) BY <2>2, <2>3, SendSound
  <2> QED BY <1>6, <1>7, <2>3, <2>4, IdleOk, LinkStepSound
<1>15. PICK s \in Statuses : s = "client_wait_result" BY Values
<1>16. ASSUME r.op = "call"
       PROVE  Sound({}, SetStatus(xs, c, s), wait, P) /\ Free(SetStatus(xs, c, s), wait, P, c)
  BY <1>10, <1>11, <1>15, <1>16, WaitingSound
<1>17. CASE r.op = "call" /\ cs[w].noid
  <2>1. conn' = SetStatus(SetStatus(Claimed(xs, w, c), c, s), w, "worker_wait_result")
    BY <1>6, <1>13, <1>15, <1>17
  <2>2. conn' \in Objects /\ Gives(xs, conn', w, c, s, xs[c].id, Pointers(xs[w]))
    BY <1>8, <1>10, <1>12, <1>17, <2>1, GivesNoId
  <2>3. Sound({}, conn', wait, P)
    BY <1>8, <1>10, <1>11, <1>16, <1>17, <2>2, GiveNoIdSound
  <2>4. wait' = wait BY <1>6, <1>17
  <2> QED BY <1>6, <1>7, <2>3, <2>4, IdleOk, LinkStepSound
<1>18. CASE r.op = "call" /\ ~cs[w].noid
  <2>1. PICK ys : ys = [zs EXCEPT ![c].id = i, ![w].status = "net",
                                  ![c].status = "client_wait_result"]
    OBVIOUS
  <2>2. conn' = Link(ys, c) /\ wait' = [wait EXCEPT ![i] = c] /\ wait[i] = None
    BY <1>6, <1>18, <2>1
  <2>3. conn' \in Objects /\ Gives(xs, conn', w, c, s, i, Pointers(xs[w]) + 1)
    BY <1>8, <1>10, <1>12, <1>13, <1>15, <1>18, <2>1, <2>2, CallGives
  <2>4. i \in CallIds(c)
    <3>1. Own(c, cs[c]) BY <1>7, <1>18, CallingOwn
    <3>2. j \in Job BY <1>2, <1>6, CallFacts
    <3>3. calls[c] + 1 \in 1 .. MaxCalls BY <1>2, <3>2 DEF Job
    <3> HIDE DEF Own
    <3> QED BY <1>2, <1>3, <3>1, <3>3, CallIdOwn
  <2>5. wait \in WaitType BY DEF IInv
  <2>6. EntryMade(wait, wait', i, c) BY <1>8, <2>2, <2>5 DEF WaitType, EntryMade
  <2>7. Sound({}, conn', wait', P)
    <3>1. Sound({}, SetStatus(xs, c, s), wait, P) /\ Free(SetStatus(xs, c, s), wait, P, c)
      BY <1>16, <1>18
    <3>2. ~xs[w].noid BY <1>12, <1>18
    <3> QED BY <1>8, <1>10, <1>11, <2>3, <2>4, <2>6, <3>1, <3>2, GiveIdSound
  <2> QED BY <1>6, <1>7, <2>7, IdleOk, LinkStepSound
<1> QED BY <1>6, <1>14, <1>17, <1>18

-----------------------------------------------------------------------------
(* A worker is added to a queue *)

\* What keeps everything but the place in a list keeps a worker joining.
LEMMA KeptJoining ==
    ASSUME NEW x, NEW y, Kept(x, y), Joining(x)
    PROVE  Joining(y)
BY DEF Kept, Joining

\* What _add_worker finds, after the worker has left its former list.
LEMMA AddingLinks ==
    ASSUME IInv, LinkState, NEW w \in Conns, NEW n \in Names, Adding(w, n)
    PROVE  /\ Sound({}, LeaveOther(conn, w, n), wait, queue)
           /\ LeaveOther(conn, w, n) \in Connections(Named)
           /\ Joining(LeaveOther(conn, w, n)[w])
           /\ \A d \in Conns : LeaveOther(conn, w, n)[d].status # "net" => d \in Named
           /\ adding.conn = w
<1>1. /\ adding.conn = w /\ LeaveOther(conn, w, n) \in Connections(Named)
      /\ \A d \in Conns : LeaveOther(conn, w, n)[d].status # "net" => d \in Named
  BY AddingFacts
<1>2. Sound({}, conn, wait, queue) /\ AddingOk BY DEF LinkState
<1>3. w # None BY NoneAssumption
<1>4. Joining(conn[w]) BY <1>1, <1>2, <1>3 DEF AddingOk
<1>5. Sound({}, LeaveOther(conn, w, n), wait, queue) /\ Kept(conn[w], LeaveOther(conn, w, n)[w])
  BY <1>2, LeaveOtherSound
<1>6. Joining(LeaveOther(conn, w, n)[w]) BY <1>4, <1>5, KeptJoining
<1> QED BY <1>1, <1>5, <1>6

\* The worker of the next name is the same.
LEMMA NextOk ==
    ASSUME NEW w \in Conns, adding.conn = w, adding' \in {NextName, ReturnOne}, Joining(conn'[w]),
           adding \in [conn : Conns \cup {None}, names : Seq(Names)]
    PROVE  AddingOk'
<1>1. CASE adding' = Idle BY <1>1, IdleOk
<1>2. CASE adding' # Idle
  <2>1. adding' = [adding EXCEPT !.names = Tail(@)] BY <1>2 DEF NextName, ReturnOne
  <2>2. adding'.conn = w BY <2>1
  <2> QED BY <2>2 DEF AddingOk
<1> QED BY <1>1, <1>2

LEMMA AddWorkerDirectLinks ==
    ASSUME IInv, LinkState, NEW w \in Conns, NEW n \in Names, AddWorkerDirect(w, n), IInv'
    PROVE  LinkStep
<1>1. PICK cs : cs = LeaveOther(conn, w, n) OBVIOUS
<1>2. /\ Adding(w, n) /\ conn' = [cs EXCEPT ![w].wr = TRUE]
      /\ queue' = [queue EXCEPT ![n].ex = TRUE] /\ adding' = Idle /\ wait' = wait
  BY <1>1 DEF AddWorkerDirect, ReturnOne
<1>3. Sound({}, cs, wait, queue) /\ cs \in Connections(Named) BY <1>1, <1>2, AddingLinks
<1>4. cs \in Objects BY <1>3 DEF Sound
<1>5. conn' \in Objects
  <2>1. conn' \in Connections(Named) BY <1>2, <1>3, FieldConn
  <2> QED BY <2>1, AreObjects
<1>6. ASSUME NEW d \in Conns
      PROVE  Alike(cs[d], conn'[d])
  <2>1. cs[d] \in ConnType BY <1>4 DEF Objects
  <2>2. conn'[d] = IF d = w THEN [cs[d] EXCEPT !.wr = TRUE] ELSE cs[d]
    BY <1>2, <1>4 DEF Objects
  <2> QED BY <2>1, <2>2 DEF Alike, Same, ConnType
<1>7. Sound({}, conn', wait, queue) BY <1>3, <1>5, <1>6, AlikeSound
<1>8. queue \in Queues /\ queue' \in Queues BY QueuesAre, QueuesAreNext DEF IInv
<1>9. ASSUME NEW k \in Names
      PROVE  queue'[k].workers = queue[k].workers /\ queue'[k].clients = queue[k].clients
  <2>1. queue[k] \in QueueType BY <1>8 DEF Queues
  <2>2. queue'[k] = IF k = n THEN [queue[k] EXCEPT !.ex = TRUE] ELSE queue[k]
    BY <1>2, <1>8 DEF Queues
  <2> QED BY <2>1, <2>2 DEF QueueType
<1>10. Sound({}, conn', wait, queue') BY <1>7, <1>8, <1>9, ExistsSound
<1> QED BY <1>2, <1>10, IdleOk, LinkStepSound

\* The client whose call is taken from the queue is marked.
LEMMA BusySound ==
    ASSUME NEW cs, NEW ws, NEW Q, Sound({}, cs, ws, Q), NEW c \in Conns, Free(cs, ws, Q, c),
           NEW s \in Statuses, s = "busy"
    PROVE  Sound({}, SetStatus(cs, c, s), ws, Q) /\ Free(SetStatus(cs, c, s), ws, Q, c)
<1>1. cs \in Objects BY DEF Sound
<1>2. PICK ds : ds = SetStatus(cs, c, s) OBVIOUS
<1>3. /\ \A d \in Conns : d # c => ds[d] = cs[d]
      /\ ds[c].status = s /\ Restated(cs[c], ds[c])
  BY <1>1, <1>2, StatusDoes
<1>4. s \in WaitsFor /\ s \notin Unclaimed /\ s # "client_wait_result"
  BY DEF WaitsFor, Unclaimed
<1>5. NoPlace(cs, ws, Q, c) /\ cs[c].sock = "open" BY DEF Free
<1>6. \A d \in Conns : ds[d].client = cs[d].client /\ ds[d].noid = cs[d].noid
  BY <1>3 DEF Restated
<1>7. NoPlace(ds, ws, Q, c) BY <1>5, <1>6, NoPlaceKept
<1>8. Free(ds, ws, Q, c) BY <1>3, <1>4, <1>5, <1>7 DEF Free, Restated
<1> HIDE DEF NoPlace, Own
<1>9. Sound({}, ds, ws, Q) BY <1>2, <1>4, StatusSound
<1> QED BY <1>2, <1>8, <1>9

\* What is alike is free as well.
LEMMA FreeAlike ==
    ASSUME NEW cs, NEW ds, NEW ws, NEW Q, NEW c \in Conns, Free(cs, ws, Q, c),
           \A d \in Conns : Alike(cs[d], ds[d])
    PROVE  Free(ds, ws, Q, c)
<1>1. \A d \in Conns : ds[d].client = cs[d].client /\ ds[d].noid = cs[d].noid
  BY DEF Alike, Same
<1>2. NoPlace(cs, ws, Q, c) BY DEF Free
<1>3. NoPlace(ds, ws, Q, c) BY <1>1, <1>2, NoPlaceKept
<1>4. ds[c].sock = cs[c].sock /\ ds[c].status = cs[c].status BY DEF Alike, Same
<1> QED BY <1>3, <1>4 DEF Free

\* The message that a worker takes, and its client.
Taking(cs, w, s) == s[Least(Jobs(cs, wait, w, s))]

LEMMA TakingIs ==
    ASSUME NEW cs, NEW w, NEW s \in Seq(OwnedMsg), Jobs(cs, wait, w, s) # {}
    PROVE  /\ Least(Jobs(cs, wait, w, s)) \in Scanned(cs, wait, w, s)
           /\ Taking(cs, w, s) \in OwnedMsg
           /\ Verdict(cs, wait, w, Taking(cs, w, s)) = "job"
<1>1. PICK J : J = Jobs(cs, wait, w, s) OBVIOUS
<1>2. J \in SUBSET DOMAIN s /\ (\A i \in J : Verdict(cs, wait, w, s[i]) = "job")
  BY <1>1 DEF Jobs
<1>3. J \in SUBSET Nat /\ J # {} BY <1>1, <1>2
<1>4. Least(J) \in J /\ \A j \in J : Least(J) <= j BY <1>3, LeastProperty
<1>5. PICK k : k = Least(J) OBVIOUS
<1>6. k \in DOMAIN s /\ Verdict(cs, wait, w, s[k]) = "job" /\ \A j \in J : k <= j
  BY <1>2, <1>4, <1>5
<1>7. s[k] \in OwnedMsg BY <1>6
<1>8. k \in Scanned(cs, wait, w, s) BY <1>1, <1>6 DEF Scanned
<1> QED BY <1>1, <1>5, <1>6, <1>7, <1>8 DEF Taking

\* A message that is a job is that of a client that waits, or of none.
LEMMA JobIs ==
    ASSUME NEW cs, NEW ws, NEW w, NEW m \in OwnedMsg, Verdict(cs, ws, w, m) = "job"
    PROVE  /\ m.conn \in Conns \cup {None} /\ m.job \in Job
           /\ m.conn # None =>
                 /\ cs[m.conn].sock = "open" /\ cs[m.conn].status = "client_wait_result"
                 /\ m.job[2] \in 1 .. MaxCalls /\ m.job = <<m.conn, m.job[2]>>
                 /\ ~cs[w].noid => ws[CallId(cs, m.conn, m.job)] = None
<1>1. m \in MsgType /\ m.conn \in {None, m.job[1]} BY DEF OwnedMsg
<1>2. m.job \in Job BY <1>1 DEF MsgType
<1>3. m.job[1] \in Conns /\ m.job[2] \in 1 .. MaxCalls /\ m.job = <<m.job[1], m.job[2]>>
  BY <1>2 DEF Job
<1>4. m.conn # None => /\ cs[m.conn].sock = "open"
                       /\ cs[m.conn].status = "client_wait_result"
  BY VerdictWaits
<1>5. m.conn # None /\ ~cs[w].noid => ws[CallId(cs, m.conn, m.job)] = None
  BY Zenon DEF Verdict
<1> QED BY <1>1, <1>2, <1>3, <1>4, <1>5

\* The messages that the scan erased are gone.
LEMMA GivenGone ==
    ASSUME IInv, NEW w \in Conns, NEW n \in Names, NEW cs, NEW Q \in Queues,
           \A k \in Names : k # n => Q[k].workers = queue[k].workers
                                     /\ Q[k].clients = queue[k].clients,
           Q[n].workers = queue[n].workers,
           Q[n].clients = Rest(queue[n].clients, Scanned(cs, wait, w, queue[n].clients))
    PROVE  Gone(queue, Q, n, {}, Scanned(cs, wait, w, queue[n].clients))
<1>1. Scanned(cs, wait, w, queue[n].clients) \in Parts(queue[n].clients) BY DEF Scanned, Parts
<1>2. {} \in Parts(queue[n].workers) BY DEF Parts
<1> QED BY <1>1, <1>2 DEF Gone, Erases

\* The state of the connections after the scan, when the worker was sent a call.
LEMMA ScannedLinks ==
    ASSUME IInv, LinkState, NEW w \in Conns, NEW n \in Names, Adding(w, n),
           NEW Q \in Queues, NEW cs, cs = LeaveOther(conn, w, n),
           NEW t, t = queue[n].clients, Gone(queue, Q, n, {}, Scanned(cs, wait, w, t))
    PROVE  /\ AfterScan(cs, wait, w, t) \in Connections(Named)
           /\ Sound({}, AfterScan(cs, wait, w, t), wait, Q)
           /\ \A d \in Conns : ScanKept(cs[d], AfterScan(cs, wait, w, t)[d])
           /\ \A k \in Scanned(cs, wait, w, t) :
                 Verdict(cs, wait, w, t[k]) = "job" /\ t[k].conn # None
                    => ScanTakes(cs, AfterScan(cs, wait, w, t), wait, Q, t[k].conn)
           /\ Joining(AfterScan(cs, wait, w, t)[w])
<1>1. /\ Sound({}, cs, wait, queue) /\ cs \in Connections(Named) /\ Joining(cs[w])
      /\ \A d \in Conns : cs[d].status # "net" => d \in Named
  BY AddingLinks
<1>2. queue[n].clients \in Seq(OwnedMsg) BY QueueFacts
<1>3. calls \in [Conns -> 0 .. MaxCalls] BY DEF IInv, HistoryInv
<1>4. Gone(queue, Q, n, {}, Scanned(cs, wait, w, queue[n].clients)) OBVIOUS
<1>5. /\ AfterScan(cs, wait, w, t) \in Connections(Named)
      /\ Sound({}, AfterScan(cs, wait, w, t), wait, Q)
      /\ \A d \in Conns : ScanKept(cs[d], AfterScan(cs, wait, w, t)[d])
      /\ \A k \in Scanned(cs, wait, w, t) :
            Verdict(cs, wait, w, t[k]) = "job" /\ t[k].conn # None
               => ScanTakes(cs, AfterScan(cs, wait, w, t), wait, Q, t[k].conn)
  BY <1>1, <1>2, <1>3, <1>4, ScanSound
<1>6. Joining(AfterScan(cs, wait, w, t)[w])
  <2>1. ScanKept(cs[w], AfterScan(cs, wait, w, t)[w]) BY <1>5
  <2> QED BY <1>1, <2>1 DEF Joining, ScanKept, WaitsFor
<1> QED BY <1>5, <1>6

\* The ids of a waiting client that waits in no entry are its own.
LEMMA WaitingOwn ==
    ASSUME NEW cs, NEW ws, NEW Q, Sound({}, cs, ws, Q), NEW c \in Conns,
           cs[c].sock = "open", cs[c].status = "client_wait_result", Free(cs, ws, Q, c)
    PROVE  Own(c, cs[c])
<1>1. Identified(cs, ws) /\ cs \in Objects BY DEF Sound
<1>2. cs[c] \in ConnType BY <1>1 DEF Objects
<1>3. cs[c].id \in AllIds \cup {None} BY <1>2, ObjectFields
<1>4. Registered(ws, c) = {} BY DEF Free, NoPlace
<1>5. cs[c].id # None => ws[cs[c].id] # c BY <1>3, <1>4 DEF Registered
<1> QED BY <1>1, <1>5 DEF Identified, Own

\* The lines of a queue that exists.
Lined(n, s, t) == [queue EXCEPT ![n] = [ex |-> TRUE, workers |-> s, clients |-> t]]

LEMMA LinedIs ==
    ASSUME queue \in Queues, NEW n \in Names, NEW s \in Seq(Conns), NEW t \in Seq(MsgType)
    PROVE  /\ Lined(n, s, t) \in Queues
           /\ Lined(n, s, t)[n].workers = s /\ Lined(n, s, t)[n].clients = t
           /\ \A k \in Names : k # n => Lined(n, s, t)[k] = queue[k]
<1>1. PICK q : q = [ex |-> TRUE, workers |-> s, clients |-> t] OBVIOUS
<1>2. q \in QueueType /\ q.workers = s /\ q.clients = t BY <1>1 DEF QueueType
<1>3. PICK P : P = Lined(n, s, t) OBVIOUS
<1>4. P = [queue EXCEPT ![n] = q] BY <1>1, <1>3 DEF Lined
<1>5. P \in Queues /\ P[n] = q /\ \A k \in Names : k # n => P[k] = queue[k]
  BY <1>2, <1>4 DEF Queues
<1> QED BY <1>2, <1>3, <1>5

LEMMA AddWorkerWaitLinks ==
    ASSUME IInv, LinkState, NEW w \in Conns, NEW n \in Names, AddWorkerWait(w, n), IInv'
    PROVE  LinkStep
<1>1. PICK cs : cs = LeaveOther(conn, w, n) OBVIOUS
<1>2. PICK s, t : s = queue[n].workers /\ t = queue[n].clients OBVIOUS
<1>3. PICK R : R = {i \in DOMAIN s : IsClosed(cs, s[i]) \/ s[i] = w} OBVIOUS
<1>4. PICK as : as = AfterScan(cs, wait, w, t) OBVIOUS
<1>5. PICK sr, tr : sr = Rest(s, R) /\ tr = Rest(t, Scanned(cs, wait, w, t)) OBVIOUS
<1>6. PICK rs : rs = Release(as, s, R) OBVIOUS
<1>7. PICK ls : ls = Link(rs, w) OBVIOUS
<1>8. PICK ps : ps = SetStatus(ls, w, "worker_wait_job") OBVIOUS
<1>9. /\ Adding(w, n) /\ conn' = Register(ps, w, n) /\ queue' = Lined(n, Append(sr, w), tr)
      /\ adding' = NextName /\ wait' = wait
  BY <1>1, <1>2, <1>3, <1>4, <1>5, <1>6, <1>7, <1>8 DEF AddWorkerWait, Lined, Rest
<1>10. queue \in Queues /\ s \in Seq(Conns) /\ t \in Seq(MsgType)
  <2>1. queue \in Queues BY QueuesAre DEF IInv
  <2>2. t \in Seq(MsgType) BY <1>2, MessagesType
  <2>3. s \in Seq(Conns) BY <1>2, QueueFacts
  <2> QED BY <2>1, <2>2, <2>3
<1>11. R \in Parts(s) BY <1>3 DEF Parts
<1>12. sr \in Seq(Conns) BY <1>5, <1>10, RestOfClients DEF Rest
<1>13. tr \in Seq(MsgType) BY <1>5, <1>10, RestOfClients DEF Rest
<1>14. Append(sr, w) \in Seq(Conns) /\ Gains(sr, Append(sr, w), w) BY <1>12, GainBack
<1>15. PICK P1, P2 : P1 = Lined(n, s, tr) /\ P2 = Lined(n, sr, tr) OBVIOUS
<1>16. /\ P1 \in Queues /\ P1[n].workers = s /\ P1[n].clients = tr
       /\ \A k \in Names : k # n => P1[k] = queue[k]
  BY <1>10, <1>13, <1>15, LinedIs
<1>17. /\ P2 \in Queues /\ P2[n].workers = sr /\ P2[n].clients = tr
       /\ \A k \in Names : k # n => P2[k] = queue[k]
  BY <1>10, <1>12, <1>13, <1>15, LinedIs
<1>18. /\ queue' \in Queues /\ queue'[n].workers = Append(sr, w) /\ queue'[n].clients = tr
       /\ \A k \in Names : k # n => queue'[k] = queue[k]
  <2>1. PICK u \in Seq(Conns) : u = Append(sr, w) BY <1>14
  <2>2. PICK P3 : P3 = Lined(n, u, tr) OBVIOUS
  <2>3. /\ P3 \in Queues /\ P3[n].workers = u /\ P3[n].clients = tr
        /\ \A k \in Names : k # n => P3[k] = queue[k]
    BY <1>10, <1>13, <2>2, LinedIs
  <2>4. queue' = P3 BY <1>9, <2>1, <2>2
  <2> QED BY <2>1, <2>3, <2>4
<1>19. Gone(queue, P1, n, {}, Scanned(cs, wait, w, t)) BY <1>2, <1>5, <1>16, GivenGone
<1>20. /\ as \in Connections(Named) /\ Sound({}, as, wait, P1) /\ Joining(as[w])
  BY <1>1, <1>2, <1>4, <1>9, <1>16, <1>19, ScannedLinks
<1>21. Gone(P1, P2, n, R, {})
  <2>1. {} \in Parts(tr) BY DEF Parts
  <2> QED BY <1>5, <1>11, <1>16, <1>17, <2>1 DEF Gone, Erases
<1>22. /\ Sound({}, rs, wait, P2)
       /\ \A d \in Conns : Same(as[d], rs[d]) /\ rs[d].client = as[d].client
  <2>1. rs = Release(as, P1[n].workers, R) BY <1>6, <1>16
  <2>2. P2 \in Queues /\ Gone(P1, P2, n, R, {}) BY <1>17, <1>21
  <2>3. Sound({}, as, wait, P1) BY <1>20
  <2>4. Sound({}, Release(as, P1[n].workers, R), wait, P2) BY <2>2, <2>3, ReleaseSound
  <2>5. as \in Objects BY <2>3 DEF Sound
  <2>6. \A d \in Conns : /\ Same(as[d], Release(as, s, R)[d])
                         /\ Release(as, s, R)[d].client = as[d].client
    BY <1>10, <1>11, <2>5, ReleaseDoes
  <2>7. \A d \in Conns : Same(as[d], rs[d]) /\ rs[d].client = as[d].client
    BY <1>6, <2>6, Zenon
  <2> QED BY <2>1, <2>4, <2>7
<1>23. rs \in Objects BY <1>22 DEF Sound
<1>24. /\ ls \in Objects
       /\ \A d \in Conns : /\ Same(rs[d], ls[d]) /\ ls[d].client = rs[d].client
                           /\ ls[d].link = rs[d].link + (IF d = w THEN 1 ELSE 0)
  BY <1>7, <1>23, LinkDoes
<1>25. Joining(rs[w]) BY <1>20, <1>22 DEF Joining, Same
<1>26. Joining(ls[w]) BY <1>24, <1>25 DEF Joining, Same
<1>27. Joins(rs, ls, P2, queue', n, w) BY <1>14, <1>17, <1>18, <1>24 DEF Joins
<1>28. w \in Live(rs) BY <1>25 DEF Live, Joining
<1>29. Sound({}, ls, wait, queue') BY <1>18, <1>22, <1>24, <1>27, <1>28, JoinSound
<1>30. PICK v \in Statuses : v = "worker_wait_job" BY Values
<1>31. v \notin WaitsFor /\ v # "client_wait_result" BY <1>30 DEF WaitsFor
<1>32. ps[w].status = v /\ Restated(ls[w], ps[w])
  <2>1. SetStatus(ls, w, v)[w].status = v /\ Restated(ls[w], SetStatus(ls, w, v)[w])
    BY <1>24, StatusDoes
  <2> QED BY <1>8, <1>30, <2>1, Zenon
<1>33. Joining(ps[w]) BY <1>26, <1>31, <1>32 DEF Joining, Restated
<1>34. Sound({}, ps, wait, queue')
  <2>1. ls[w].status \notin WaitsFor /\ ls[w].client = None /\ (ls[w].noid => ls[w].fail)
    BY <1>26 DEF Joining
  <2> HIDE DEF NoPlace, Own, Joining
  <2>2. Sound({}, SetStatus(ls, w, v), wait, queue')
    BY <1>29, <1>31, <2>1, StatusSound
  <2> QED BY <1>8, <1>30, <2>2
<1>35. ps[w].sock = "open" BY <1>33 DEF Joining
<1>36. Sound({}, conn', wait, queue') /\ Kept(ps[w], conn'[w])
  BY <1>9, <1>34, <1>35, RegisterSound
<1>37. Joining(conn'[w]) BY <1>33, <1>36, KeptJoining
<1>38. adding.conn = w BY <1>9, AddingFacts
<1>39. adding \in [conn : Conns \cup {None}, names : Seq(Names)] BY DEF IInv, AddingInv
<1>40. AddingOk' BY <1>9, <1>37, <1>38, <1>39, NextOk
<1> QED BY <1>9, <1>36, <1>40, LinkStepSound

\* What a handler writes when a worker with ids takes a call.
LEMMA TakenGives ==
    ASSUME NEW cs \in Objects, NEW w \in Conns, NEW c \in Conns, w # c, ~cs[w].noid,
           NEW s \in Statuses, NEW zs, zs = SetStatus(Claimed(cs, w, c), c, s),
           NEW i \in AllIds,
           NEW xs, xs = Link([zs EXCEPT ![c].id = i, ![w].status = "net"], c)
    PROVE  xs \in Objects /\ Gives(cs, xs, w, c, s, i, Pointers(cs[w]) + 1)
<1>1. PICK ks : ks = Claimed(cs, w, c) OBVIOUS
<1>2. ks \in Objects
  <2>1. Claimed(cs, w, c) \in Objects BY ClaimedDoes
  <2> QED BY <1>1, <2>1
<1>3. /\ zs \in Objects /\ (\A d \in Conns : d # c => zs[d] = ks[d])
      /\ zs[c].status = s /\ Restated(ks[c], zs[c])
  <2>1. zs = SetStatus(ks, c, s) BY <1>1
  <2> QED BY <1>2, <2>1, StatusDoes
<1>4. PICK v \in AllIds \cup {None} : v = i OBVIOUS
<1>5. PICK us : us = IdSet(zs, c, v) OBVIOUS
<1>6. /\ us \in Objects /\ (\A d \in Conns : d # c => us[d] = zs[d])
      /\ Renamed(zs[c], us[c], v)
  BY <1>3, <1>5, IdDoes
<1>7. PICK t \in Statuses : t = "net" BY Values
<1>8. PICK ys : ys = SetStatus(us, w, t) OBVIOUS
<1>9. /\ ys \in Objects /\ (\A d \in Conns : d # w => ys[d] = us[d])
      /\ ys[w].status = t /\ Restated(us[w], ys[w])
  <2>1. /\ SetStatus(us, w, t) \in Objects
        /\ \A d \in Conns : d # w => SetStatus(us, w, t)[d] = us[d]
        /\ SetStatus(us, w, t)[w].status = t /\ Restated(us[w], SetStatus(us, w, t)[w])
    BY <1>6, StatusDoes
  <2> QED BY <1>8, <2>1, Zenon
<1>10. ys = [zs EXCEPT ![c].id = i, ![w].status = "net"]
  BY <1>4, <1>5, <1>7, <1>8, Zenon DEF SetStatus, IdSet
<1>11. ks[c] \in ConnType BY <1>2 DEF Objects
<1>12. PICK x : x = [ks[c] EXCEPT !.status = s] OBVIOUS
<1>13. /\ x.sock = ks[c].sock /\ x.item = ks[c].item /\ x.link = ks[c].link
       /\ x.client = ks[c].client /\ x.noid = ks[c].noid /\ x.fail = ks[c].fail
       /\ x.status = s /\ x.json = ks[c].json /\ x.wm = ks[c].wm
  BY <1>11, <1>12 DEF ConnType
<1>14. ys[c] = us[c] /\ us[w] = zs[w] /\ zs[w] = ks[w] BY <1>3, <1>6, <1>9
<1>15. Renamed(x, ys[c], i) BY <1>3, <1>4, <1>6, <1>13, <1>14 DEF Renamed, Restated
<1>16. Given(ks, ys, w, c, s, i)
  <2>1. \A d \in Conns : d \notin {c, w} => ys[d] = ks[d] BY <1>3, <1>6, <1>9
  <2>2. Restated(ks[w], ys[w]) /\ ys[w].status = "net" BY <1>7, <1>9, <1>14
  <2> QED BY <1>12, <1>15, <2>1, <2>2 DEF Given
<1>17. Given(Claimed(cs, w, c), ys, w, c, s, i) BY <1>1, <1>16
<1>18. xs = Link(ys, c) BY <1>10
<1> QED BY <1>9, <1>17, <1>18, GivesId

\* A worker that gets the call of a queued client: one without ids ...
LEMMA TakeNoId ==
    ASSUME NEW cs, NEW ws, NEW Q, Sound({}, cs, ws, Q), NEW w \in Conns, NEW n \in Names,
           NEW c \in Conns, w # c, Joining(cs[w]), Free(cs, ws, Q, c), cs[w].noid,
           NEW s \in Statuses, s = "busy",
           NEW ds, ds = Register(SetStatus(SetStatus(Claimed(cs, w, c), c, s),
                                           w, "worker_wait_result"), w, n)
    PROVE  Sound({}, ds, ws, Q)
<1>1. cs \in Objects BY DEF Sound
<1>2. Sound({}, SetStatus(cs, c, s), ws, Q) /\ Free(SetStatus(cs, c, s), ws, Q, c) BY BusySound
<1>3. PICK xs : xs = SetStatus(SetStatus(Claimed(cs, w, c), c, s), w, "worker_wait_result")
  OBVIOUS
<1>4. xs \in Objects /\ Gives(cs, xs, w, c, s, cs[c].id, Pointers(cs[w]))
  BY <1>1, <1>3, GivesNoId
<1>5. Sound({}, xs, ws, Q) BY <1>1, <1>2, <1>4, GiveNoIdSound
<1>6. xs[w].sock = "open" BY <1>4 DEF Gives, Joining
<1>7. ds = Register(xs, w, n) BY <1>3
<1> QED BY <1>5, <1>6, <1>7, RegisterSound

\* ... and one with ids.
LEMMA TakeId ==
    ASSUME NEW cs, NEW ws, NEW Q, Sound({}, cs, ws, Q), NEW w \in Conns, NEW n \in Names,
           NEW c \in Conns, w # c, Joining(cs[w]), Free(cs, ws, Q, c), ~cs[w].noid,
           NEW s \in Statuses, s = "busy", NEW zs, zs = SetStatus(Claimed(cs, w, c), c, s),
           NEW i \in AllIds, i \in CallIds(c), NEW vs, EntryMade(ws, vs, i, c),
           NEW ds, ds = Register(Link([zs EXCEPT ![c].id = i, ![w].status = "net"], c), w, n)
    PROVE  Sound({}, ds, vs, Q)
<1>1. cs \in Objects BY DEF Sound
<1>2. Sound({}, SetStatus(cs, c, s), ws, Q) /\ Free(SetStatus(cs, c, s), ws, Q, c) BY BusySound
<1>3. PICK xs : xs = Link([zs EXCEPT ![c].id = i, ![w].status = "net"], c) OBVIOUS
<1>4. xs \in Objects /\ Gives(cs, xs, w, c, s, i, Pointers(cs[w]) + 1)
  BY <1>1, <1>3, TakenGives
<1>5. Sound({}, xs, vs, Q) BY <1>1, <1>2, <1>4, GiveIdSound
<1>6. xs[w].sock = "open" BY <1>4 DEF Gives, Joining
<1>7. ds = Register(xs, w, n) BY <1>3
<1> QED BY <1>5, <1>6, <1>7, RegisterSound

LEMMA AddWorkerGiveLinks ==
    ASSUME IInv, LinkState, NEW w \in Conns, NEW n \in Names, AddWorkerGive(w, n), IInv'
    PROVE  LinkStep
<1>1. PICK cs : cs = LeaveOther(conn, w, n) OBVIOUS
<1>2. PICK t : t = queue[n].clients OBVIOUS
<1>3. PICK m : m = Taking(cs, w, t) OBVIOUS
<1>4. PICK c : c = m.conn OBVIOUS
<1>5. PICK as : as = AfterScan(cs, wait, w, t) OBVIOUS
<1>6. PICK xs : xs = Send(as, w) OBVIOUS
<1>7. PICK i : i = CallId(xs, c, m.job) OBVIOUS
<1>8. PICK zs : zs = [IF xs[w].fail THEN Link([xs EXCEPT ![w].client = c], c) ELSE xs
                        EXCEPT ![c].status = "busy"]
  OBVIOUS
<1>9. /\ Adding(w, n) /\ Jobs(cs, wait, w, t) # {}
      /\ queue' = [queue EXCEPT ![n].ex = TRUE,
                      ![n].clients = Keep(t, DOMAIN t \ Scanned(cs, wait, w, t))]
      /\ \/ /\ c = None
            /\ conn' = Register(SetStatus(xs, w, AfterAsync(xs, w)), w, n)
            /\ adding' \in {ReturnOne, NextName} /\ wait' = wait
         \/ /\ c # None /\ cs[w].noid
            /\ conn' = Register(SetStatus(zs, w, "worker_wait_result"), w, n)
            /\ adding' = ReturnOne /\ wait' = wait
         \/ /\ c # None /\ ~cs[w].noid
            /\ conn' = Register(Link([zs EXCEPT ![c].id = i, ![w].status = "net"], c), w, n)
            /\ adding' = ReturnOne /\ wait' = [wait EXCEPT ![i] = c]
  BY <1>1, <1>2, <1>3, <1>4, <1>5, <1>6, <1>7, <1>8 DEF AddWorkerGive, Taking
<1>10. queue \in Queues /\ queue' \in Queues BY QueuesAre, QueuesAreNext DEF IInv
<1>11. Gone(queue, queue', n, {}, Scanned(cs, wait, w, t))
  <2>1. PICK tr : tr = Keep(t, DOMAIN t \ Scanned(cs, wait, w, t)) OBVIOUS
  <2>2. tr = Rest(t, Scanned(cs, wait, w, t)) BY <2>1 DEF Rest
  <2>3. queue[n] \in QueueType BY <1>10 DEF Queues
  <2>4. queue' = [queue EXCEPT ![n].ex = TRUE, ![n].clients = tr] BY <1>9, <2>1
  <2>5. queue'[n].workers = queue[n].workers /\ queue'[n].clients = tr
    BY <1>10, <2>3, <2>4 DEF Queues, QueueType
  <2>6. \A k \in Names : k # n => queue'[k] = queue[k] BY <1>10, <2>4 DEF Queues
  <2>7. \A k \in Names : k # n => queue'[k].workers = queue[k].workers
                                  /\ queue'[k].clients = queue[k].clients
    BY <2>6
  <2>8. PICK Q \in Queues : Q = queue' BY <1>10
  <2>9. Gone(queue, Q, n, {}, Scanned(cs, wait, w, queue[n].clients))
    BY <1>2, <2>2, <2>5, <2>7, <2>8, GivenGone
  <2> QED BY <1>2, <2>8, <2>9
<1>12. PICK Q \in Queues : Q = queue' BY <1>10
<1>13. Gone(queue, Q, n, {}, Scanned(cs, wait, w, t)) BY <1>11, <1>12
<1>14. /\ as \in Connections(Named) /\ Sound({}, as, wait, Q) /\ Joining(as[w])
       /\ \A d \in Conns : ScanKept(cs[d], as[d])
       /\ \A k \in Scanned(cs, wait, w, t) :
             Verdict(cs, wait, w, t[k]) = "job" /\ t[k].conn # None
                => ScanTakes(cs, as, wait, Q, t[k].conn)
  BY <1>1, <1>2, <1>5, <1>9, <1>13, ScannedLinks
<1>15. t \in Seq(OwnedMsg) BY <1>2, QueueFacts
<1>16. /\ Least(Jobs(cs, wait, w, t)) \in Scanned(cs, wait, w, t)
       /\ m \in OwnedMsg /\ Verdict(cs, wait, w, m) = "job"
  BY <1>3, <1>9, <1>15, TakingIs
<1>17. /\ c \in Conns \cup {None} /\ m.job \in Job
       /\ c # None => /\ cs[c].sock = "open" /\ cs[c].status = "client_wait_result"
                      /\ m.job[2] \in 1 .. MaxCalls /\ m.job = <<c, m.job[2]>>
                      /\ ~cs[w].noid => wait[CallId(cs, c, m.job)] = None
  BY <1>4, <1>16, JobIs
<1>18. c # None => ScanTakes(cs, as, wait, Q, c)
  BY <1>3, <1>4, <1>14, <1>16 DEF Taking
<1>19. as \in Objects BY <1>14 DEF Sound
<1>20. /\ xs \in Objects /\ Sound({}, xs, wait, Q)
       /\ \A d \in Conns : Alike(as[d], xs[d])
  BY <1>6, <1>14, <1>19, SendDoes, SendSound
<1>21. Joining(xs[w]) BY <1>14, <1>20, AlikeKeeps
<1>22. xs[w].noid = cs[w].noid BY <1>14, <1>20 DEF ScanKept, Alike, Same
<1>23. adding.conn = w BY <1>9, AddingFacts
<1>24. adding \in [conn : Conns \cup {None}, names : Seq(Names)] BY DEF IInv, AddingInv
<1>25. CASE c = None
  <2>1. PICK s \in {"net", "worker_mode_async"} : s = AfterAsync(xs, w) BY AfterAsyncIs
  <2>2. PICK ps : ps = SetStatus(xs, w, s) OBVIOUS
  <2>3. Sound({}, ps, wait, Q) /\ Joining(ps[w]) BY <1>20, <1>21, <2>2, AsyncSound
  <2>4. /\ conn' = Register(ps, w, n) /\ wait' = wait
        /\ adding' \in {ReturnOne, NextName}
    BY <1>9, <1>25, <2>1, <2>2
  <2>5. ps[w].sock = "open" BY <2>3 DEF Joining
  <2>6. Sound({}, conn', wait, Q) /\ Kept(ps[w], conn'[w])
    BY <2>3, <2>4, <2>5, RegisterSound
  <2>7. Joining(conn'[w]) BY <2>3, <2>6, KeptJoining
  <2>8. AddingOk' BY <1>23, <1>24, <2>4, <2>7, NextOk
  <2>9. Sound({}, conn', wait', queue') BY <1>12, <2>4, <2>6
  <2> QED BY <2>8, <2>9, LinkStepSound
<1>26. CASE c # None
  <2>1. c \in Conns /\ ScanTakes(cs, as, wait, Q, c) BY <1>17, <1>18, <1>26
  <2>2. /\ Free(as, wait, Q, c) /\ as[c].status = "client_wait_result"
        /\ as[c].sock = "open" /\ as[c].id = cs[c].id /\ as[c].json = cs[c].json
    BY <1>14, <1>17, <1>26, <2>1 DEF ScanTakes, ScanKept
  <2>3. Free(xs, wait, Q, c) BY <1>20, <2>1, <2>2, FreeAlike
  <2>4. /\ xs[c].status = "client_wait_result" /\ xs[c].sock = "open"
        /\ xs[c].id = cs[c].id /\ xs[c].json = cs[c].json
    BY <1>20, <2>1, <2>2 DEF Alike, Same
  <2>5. w # c BY <1>21, <2>4 DEF Joining, WaitsFor
  <2>6. PICK s \in Statuses : s = "busy" BY Values
  <2>7. zs = SetStatus(Claimed(xs, w, c), c, s) BY <1>8, <2>6 DEF Claimed, SetStatus
  <2>8. adding' = Idle BY <1>9, <1>26 DEF ReturnOne
  <2>9. CASE cs[w].noid
    <3>1. /\ conn' = Register(SetStatus(SetStatus(Claimed(xs, w, c), c, s),
                                        w, "worker_wait_result"), w, n)
          /\ wait' = wait
      BY <1>9, <1>26, <2>7, <2>9
    <3>2. Sound({}, conn', wait, Q)
      BY <1>20, <1>21, <1>22, <2>1, <2>3, <2>5, <2>6, <2>9, <3>1, TakeNoId
    <3> QED BY <1>12, <2>8, <3>1, <3>2, IdleOk, LinkStepSound
  <2>10. CASE ~cs[w].noid
    <3>1. /\ conn' = Register(Link([zs EXCEPT ![c].id = i, ![w].status = "net"], c), w, n)
          /\ wait' = [wait EXCEPT ![i] = c]
      BY <1>9, <1>26, <2>10
    <3>2. i = CallId(cs, c, m.job) BY <1>7, <2>4 DEF CallId
    <3>3. wait[i] = None BY <1>17, <1>26, <2>10, <3>2
    <3>4. Own(c, xs[c]) BY <1>20, <2>1, <2>3, <2>4, WaitingOwn
    <3>5. i \in CallIds(c)
      <4>1. PICK k \in 1 .. MaxCalls : k = m.job[2] BY <1>17, <1>26
      <4>2. i = CallId(xs, c, <<c, k>>) BY <1>7, <1>17, <1>26, <4>1
      <4> HIDE DEF Own
      <4> QED BY <2>1, <3>4, <4>2, CallIdOwn
    <3>6. i \in AllIds
      <4>1. cs \in Connections(Named) BY <1>1, <1>9, AddingLinks
      <4> QED BY <1>17, <2>1, <3>2, <4>1, CallIdType
    <3>7. wait \in WaitType BY DEF IInv
    <3>8. EntryMade(wait, wait', i, c)
      BY <2>1, <3>1, <3>3, <3>6, <3>7 DEF WaitType, EntryMade
    <3>9. Sound({}, conn', wait', Q)
      BY <1>20, <1>21, <1>22, <2>1, <2>3, <2>5, <2>6, <2>7, <2>10, <3>1, <3>5, <3>6, <3>8,
         TakeId
    <3> QED BY <1>12, <2>8, <3>9, IdleOk, LinkStepSound
  <2> QED BY <2>9, <2>10
<1> QED BY <1>25, <1>26

-----------------------------------------------------------------------------
(* The invariant is inductive *)

LEMMA InitLinks == Init => LinkInv
<1> SUFFICES ASSUME Init PROVE LinkInv OBVIOUS
<1>1. IInv BY InitInv
<1>2. PICK x : x = [NewConn("none", FALSE, FALSE, FALSE) EXCEPT !.link = 0] OBVIOUS
<1>3. /\ x.sock = "none" /\ x.link = 0 /\ x.client = None /\ x.item = None /\ x.status = "net"
  BY <1>2 DEF NewConn
<1>4. \A d \in Conns : conn[d] = x BY <1>2 DEF Init
<1>5. \A i \in AllIds : wait[i] = None BY DEF Init
<1>6. \A n \in Names : queue[n].workers = << >> /\ queue[n].clients = << >>
  BY DEF Init, NoQueue
<1>7. conn \in Objects /\ wait \in WaitType /\ queue \in Queues
  <2>1. conn \in Connections(Named) BY <1>1, NamedConnections DEF IInv
  <2>2. conn \in Objects BY <2>1, AreObjects
  <2> QED BY <1>1, <2>2, QueuesAre DEF IInv
<1>8. ASSUME NEW d \in Conns
      PROVE  Registered(wait, d) = {} /\ Serving(conn, d) = {}
  BY <1>3, <1>4, <1>5, NoneAssumption DEF Registered, Serving
<1>9. ASSUME NEW d
      PROVE  Listed(queue, d) = {} /\ Queued(queue, d) = {}
  <2>1. \A n \in Names : At(queue[n].workers, {d}) = {} /\ At(queue[n].clients, Of(d)) = {}
    BY <1>6 DEF At
  <2> QED BY <2>1 DEF Listed, Queued, Entries
<1>10. \A c \in Conns : Fits({}, c, conn[c]) BY <1>3, <1>4 DEF Fits
<1>11. Placed(conn, wait, queue) BY <1>3, <1>4 DEF Placed
<1>12. Identified(conn, wait) BY <1>3, <1>4, <1>5 DEF Identified
<1>13. PointsToLive(conn, wait, queue)
  <2>1. \A n \in Names : DOMAIN queue[n].workers = {} /\ DOMAIN queue[n].clients = {}
    BY <1>6
  <2> QED BY <1>3, <1>4, <1>5, <2>1 DEF PointsToLive
<1>14. Counted({}, conn, wait, queue)
  <2>1. Cardinality({}) = 0 /\ IsFiniteSet({}) BY FS_EmptySet
  <2>2. ASSUME NEW d \in Conns
        PROVE  Excess(conn, wait, d) = 0 /\ QueueCount(queue, d) = 0
    <3>1. Weight(conn[d]) = 0 BY <1>3, <1>4 DEF Weight
    <3> QED BY <1>8, <1>9, <2>1, <3>1 DEF Excess, QueueCount
  <2>3. \A d \in Conns : Bounded(queue, d) BY <1>9, <2>1 DEF Bounded
  <2>4. Countable(wait) BY <1>8, <2>1 DEF Countable
  <2> QED BY <2>2, <2>3, <2>4 DEF Counted
<1>15. Sound({}, conn, wait, queue) BY <1>7, <1>10, <1>11, <1>12, <1>13, <1>14 DEF Sound
<1>16. AddingOk BY DEF Init, Idle, AddingOk
<1> QED BY <1>1, <1>13, <1>15, <1>16 DEF LinkInv, LinkState

\* A request is received while the loop runs.
LEMMA RecvLinks ==
    ASSUME OwnHeaderIds, LinkInv, NEW c \in Conns, NEW r \in Requests[c], Recv(c, r), IInv'
    PROVE  LinkStep
<1>1. alive
  BY DEF Recv, RecvNotReady, RecvThrows, RecvEcho, RecvWorkerMode, RecvNoId, RecvResult,
         RecvCallNoQueue, RecvCallGive, RecvCallReject, RecvCallAbsent, RecvCallEnqueue,
         RecvAdd, RecvPub, RecvCreate, RecvDelete, Call, Plain, Parsed, Arrives, LoopReady
<1>2. IInv /\ LinkState BY <1>1 DEF LinkInv
<1>3. CASE RecvNotReady(c, r) BY <1>2, <1>3, RecvNotReadyLinks
<1>4. CASE RecvThrows(c, r) BY <1>2, <1>4, RecvThrowsLinks
<1>5. CASE RecvEcho(c, r) BY <1>2, <1>5, RecvEchoLinks
<1>6. CASE RecvWorkerMode(c, r) BY <1>2, <1>6, RecvWorkerModeLinks
<1>7. CASE RecvNoId(c, r) BY <1>2, <1>7, RecvNoIdLinks
<1>8. CASE RecvResult(c, r) BY <1>2, <1>8, RecvResultLinks
<1>9. CASE RecvCallNoQueue(c, r) BY <1>2, <1>9, RecvCallNoQueueLinks
<1>10. CASE RecvCallGive(c, r) BY <1>2, <1>10, RecvCallGiveLinks
<1>11. CASE RecvCallReject(c, r) BY <1>2, <1>11, RecvCallRejectLinks
<1>12. CASE RecvCallAbsent(c, r) BY <1>2, <1>12, RecvCallAbsentLinks
<1>13. CASE RecvCallEnqueue(c, r) BY <1>2, <1>13, RecvCallEnqueueLinks
<1>14. CASE RecvAdd(c, r) BY <1>2, <1>14, RecvAddLinks
<1>15. CASE RecvPub(c, r) BY <1>2, <1>15, RecvPubLinks
<1>16. CASE RecvCreate(c, r) BY <1>2, <1>16, RecvCreateLinks
<1>17. CASE RecvDelete(c, r) BY <1>2, <1>17, RecvDeleteLinks
<1> QED BY <1>3, <1>4, <1>5, <1>6, <1>7, <1>8, <1>9, <1>10, <1>11, <1>12, <1>13, <1>14,
           <1>15, <1>16, <1>17 DEF Recv

\* The links stay right in every step.
LEMMA NextLinks ==
    ASSUME OwnHeaderIds
    PROVE  LinkInv /\ [Next]_vars => LinkInv'
<1> SUFFICES ASSUME LinkInv, [Next]_vars PROVE LinkInv' OBVIOUS
<1>1. /\ IInv /\ PointsToLive(conn, wait, queue)
      /\ alive => LinkState
  BY DEF LinkInv
<1>2. IInv' BY <1>1, NextInv
<1>3. CASE UNCHANGED vars
  <2>1. /\ PointsToLive(conn', wait', queue')
        /\ alive' => LinkState'
    BY <1>1, <1>3 DEF vars, brokerVars, LinkState, AddingOk
  <2> QED BY <1>2, <2>1 DEF LinkInv
<1>4. SUFFICES ASSUME Next PROVE LinkStep BY <1>2, <1>3 DEF LinkInv, LinkStep, LinkState
<1>5. ASSUME NEW c \in Conns, Accept(c) PROVE LinkStep BY <1>1, <1>2, <1>5, AcceptLinks
<1>6. ASSUME NEW c \in Conns, PeerClose(c) PROVE LinkStep
  <2>1. alive BY <1>6 DEF PeerClose, LoopReady
  <2> QED BY <1>1, <1>6, <2>1, PeerCloseLinks
<1>7. ASSUME NEW c \in Conns, OnSend(c) PROVE LinkStep
  <2>1. alive BY <1>7 DEF OnSend, LoopReady
  <2> QED BY <1>1, <1>7, <2>1, OnSendLinks
<1>8. ASSUME NEW c \in Conns, OnSendPart(c) PROVE LinkStep
  <2>1. alive BY <1>8 DEF OnSendPart, LoopReady
  <2> QED BY <1>1, <1>8, <2>1, OnSendPartLinks
<1>9. ASSUME NEW c \in Conns, NEW r \in Requests[c], Recv(c, r) PROVE LinkStep
  BY <1>2, <1>9, RecvLinks
<1>10. ASSUME NEW w \in Conns, NEW n \in Names, AddWorker(w, n) PROVE LinkStep
  <2>1. alive
    BY <1>10 DEF AddWorker, AddWorkerDirect, AddWorkerGive, AddWorkerWait, Adding
  <2>2. LinkState BY <1>1, <2>1
  <2>3. CASE AddWorkerDirect(w, n) BY <1>1, <1>2, <2>2, <2>3, AddWorkerDirectLinks
  <2>4. CASE AddWorkerGive(w, n) BY <1>1, <1>2, <2>2, <2>4, AddWorkerGiveLinks
  <2>5. CASE AddWorkerWait(w, n) BY <1>1, <1>2, <2>2, <2>5, AddWorkerWaitLinks
  <2> QED BY <1>10, <2>3, <2>4, <2>5 DEF AddWorker
<1>11. ASSUME NEW n \in Names, CleanDeadTasks(n) PROVE LinkStep
  BY <1>1, <1>2, <1>11, CleanDeadTasksLinks
<1>12. CASE CheckTimeout
  <2>1. alive BY <1>12 DEF CheckTimeout, LoopReady
  <2> QED BY <1>1, <1>12, <2>1, CheckTimeoutLinks
<1>13. CASE DeleteConnections
  <2>1. alive BY <1>13 DEF DeleteConnections, LoopReady
  <2> QED BY <1>1, <1>2, <1>13, <2>1, DeleteConnectionsLinks
<1> QED BY <1>4, <1>5, <1>6, <1>7, <1>8, <1>9, <1>10, <1>11, <1>12, <1>13 DEF Next

-----------------------------------------------------------------------------
(* What the count promises *)

\* The places that BrokerProperties counts are the ones counted here.
LEMMA PlacesAre ==
    ASSUME IInv, NEW c \in Conns
    PROVE  /\ WorkerRefs(c) = Listed(queue, c) /\ MessageRefs(c) = Queued(queue, c)
           /\ WaitRefs(c) = Registered(wait, c) /\ ClientRefs(c) = Serving(conn, c)
<1>1. queue \in Queues BY QueuesAre DEF IInv
<1>2. ASSUME NEW n \in Names
      PROVE  /\ {i \in DOMAIN queue[n].workers : queue[n].workers[i] = c}
                  = At(queue[n].workers, {c})
             /\ {i \in DOMAIN queue[n].clients : queue[n].clients[i].conn = c}
                  = At(queue[n].clients, Of(c))
  <2>1. queue[n] \in QueueType BY <1>1 DEF Queues
  <2>2. queue[n].clients \in Seq(MsgType) BY <2>1, LineCountType
  <2>3. \A i \in DOMAIN queue[n].clients : queue[n].clients[i] \in MsgType BY <2>2
  <2> QED BY <2>3 DEF At, Of
<1>3. [n \in Names |-> {i \in DOMAIN queue[n].workers : queue[n].workers[i] = c}]
        = [n \in Names |-> At(queue[n].workers, {c})]
  BY <1>2
<1>4. [n \in Names |-> {i \in DOMAIN queue[n].clients : queue[n].clients[i].conn = c}]
        = [n \in Names |-> At(queue[n].clients, Of(c))]
  BY <1>2
<1>5. WorkerRefs(c) = Listed(queue, c) BY <1>3 DEF WorkerRefs, Listed
<1>6. MessageRefs(c) = Queued(queue, c) BY <1>4 DEF MessageRefs, Queued
<1> QED BY <1>5, <1>6 DEF WaitRefs, Registered, ClientRefs, Serving

\* While the loop runs the count is the number of pointers.
LEMMA LinksAre ==
    ASSUME LinkInv, alive, NEW c \in Conns
    PROVE  /\ conn[c].link = (IF conn[c].sock = "open" THEN 1 ELSE 0)
                 + Cardinality(WorkerRefs(c)) + Cardinality(MessageRefs(c))
                 + Cardinality(WaitRefs(c)) + Cardinality(ClientRefs(c))
                 + (IF conn[c].item # None THEN 1 ELSE 0)
           /\ conn[c].link >= 0
<1>1. Sound({}, conn, wait, queue) /\ IInv BY DEF LinkInv, LinkState
<1>2. conn \in Objects /\ queue \in Queues /\ Counted({}, conn, wait, queue)
  BY <1>1 DEF Sound
<1>3. /\ Countable(wait) /\ Bounded(queue, c)
      /\ Excess(conn, wait, c) = QueueCount(queue, c) + (IF c \in {} THEN 1 ELSE 0)
  BY <1>2 DEF Counted
<1>4. conn[c] \in ConnType BY <1>2 DEF Objects
<1>5. conn[c].link \in Int BY <1>4, ObjectFields
<1>6. Cardinality(Registered(wait, c)) \in Nat /\ Cardinality(Serving(conn, c)) \in Nat
  BY <1>2, <1>3, ExcessType
<1>7. Cardinality(Listed(queue, c)) \in Nat /\ Cardinality(Queued(queue, c)) \in Nat
  BY <1>3, FS_CardinalityType DEF Bounded
<1>8. QueueCount(queue, c) = Cardinality(Listed(queue, c)) + Cardinality(Queued(queue, c))
  BY DEF QueueCount
<1>9. Excess(conn, wait, c) = QueueCount(queue, c) BY <1>3, <1>7, <1>8
<1>10. Excess(conn, wait, c)
         = conn[c].link - (IF conn[c].sock = "open" THEN 1 ELSE 0)
           - (IF conn[c].item # None THEN 1 ELSE 0)
           - Cardinality(Registered(wait, c)) - Cardinality(Serving(conn, c))
  BY DEF Excess, Weight
<1>11. conn[c].link = (IF conn[c].sock = "open" THEN 1 ELSE 0)
         + Cardinality(Listed(queue, c)) + Cardinality(Queued(queue, c))
         + Cardinality(Registered(wait, c)) + Cardinality(Serving(conn, c))
         + (IF conn[c].item # None THEN 1 ELSE 0)
  BY <1>5, <1>6, <1>7, <1>8, <1>9, <1>10
<1>12. conn[c].link >= 0 BY <1>5, <1>6, <1>7, <1>11
<1> QED BY <1>1, <1>11, <1>12, PlacesAre

LEMMA LinksCounted == LinkInv => LinkCounts /\ (alive => LinkNotNegative)
<1> SUFFICES ASSUME LinkInv PROVE LinkCounts /\ (alive => LinkNotNegative) OBVIOUS
<1>1. LinkCounts BY LinksAre DEF LinkCounts
<1>2. alive => LinkNotNegative BY LinksAre DEF LinkNotNegative
<1> QED BY <1>1, <1>2

\* Whether the loop runs or not, no pointer leads to a deleted Connect.
LEMMA DeletedUnreferenced == LinkInv => FreedUnreferenced
<1> SUFFICES ASSUME LinkInv, NEW c \in Conns, conn[c].sock = "freed"
             PROVE  /\ WorkerRefs(c) = {} /\ MessageRefs(c) = {} /\ WaitRefs(c) = {}
                    /\ ClientRefs(c) = {} /\ conn[c].item = None
  BY DEF FreedUnreferenced
<1>1. PointsToLive(conn, wait, queue) BY DEF LinkInv
<1>2. c \notin Live(conn) BY DEF Live
<1>3. c # None BY NoneAssumption
<1>4. conn[c].item = None BY <1>1, <1>2 DEF PointsToLive
<1>5. WaitRefs(c) = {} BY <1>1, <1>2, <1>3 DEF PointsToLive, WaitRefs
<1>6. ClientRefs(c) = {} BY <1>1, <1>2, <1>3 DEF PointsToLive, ClientRefs
<1>7. ASSUME NEW n \in Names
      PROVE  /\ {i \in DOMAIN queue[n].workers : queue[n].workers[i] = c} = {}
             /\ {i \in DOMAIN queue[n].clients : queue[n].clients[i].conn = c} = {}
  BY <1>1, <1>2, <1>3 DEF PointsToLive
<1>8. WorkerRefs(c) = {} BY <1>7 DEF WorkerRefs, Entries
<1>9. MessageRefs(c) = {} BY <1>7 DEF MessageRefs, Entries
<1> QED BY <1>4, <1>5, <1>6, <1>8, <1>9

\* The links are right in every state of every behaviour, if no client
\* writes an id of another client's calls in a header: Loop::client_request
\* overwrites the entry of wait_response that such an id has, and the
\* connection that was there keeps its link.
THEOREM LinksInvariant ==
    ASSUME OwnHeaderIds
    PROVE  Spec => []LinkInv
<1>1. LinkInv /\ [Next]_vars => LinkInv' BY NextLinks
<1> QED BY <1>1, InitLinks, PTL DEF Spec

\* Connect::link and Connect::unlink are called in pairs: the count of a
\* connection is the number of its pointers, in the table of connections, the
\* queues, wait_response, the workers and the lists of connected workers,
\* whoever disconnects, times out or deletes a queue, and whenever.
THEOREM LinkCountsHold ==
    ASSUME OwnHeaderIds
    PROVE  Spec => []LinkCounts
<1> QED BY LinksInvariant, LinksCounted, PTL

\* Loop::_delete_connections deletes no Connect that a queue, a table or a
\* worker points to, and nothing points to a deleted one later.
THEOREM FreedUnreferencedHolds ==
    ASSUME OwnHeaderIds
    PROVE  Spec => []FreedUnreferenced
<1> QED BY LinksInvariant, DeletedUnreferenced, PTL

\* As long as the loop runs, the assertion of Connect::unlink that the count
\* is not negative does not fail: two clients with one id in their headers are
\* needed for that.
THEOREM CountNotNegative ==
    ASSUME OwnHeaderIds
    PROVE  Spec => [](alive => LinkNotNegative)
<1> QED BY LinksInvariant, LinksCounted, PTL
=============================================================================
