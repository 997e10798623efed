------------------------ MODULE RegistryLookupProofs ------------------------
(***************************************************************************)
(* What get_queue returns, for any number of threads and names.            *)
(*                                                                         *)
(* A find runs without a lock, in a buffer that others write to or have    *)
(* already replaced.  What it is going to yield is known at every step of  *)
(* it (Yields): as long as nothing changes the queue that serves its name, *)
(* that is the queue (Tells), and as long as nothing is deleted, it is     *)
(* one that serves the name (Serves).                                      *)
(***************************************************************************)
EXTENDS RegistryTrieProofs

-----------------------------------------------------------------------------
(* One buffer *)

\* What find yields on B when it has come to the position from and its last
\* pattern is v.
Yields(B, key, from, v, w) ==
    LET W == Nodes(B, key)
        ends == W[Len(key)] # 0 /\ B[W[Len(key)]].end # 0
        stds == {j \in from .. Len(key) : W[j] # 0 /\ B[W[j]].std # 0}
    IN  \/ ends /\ w = B[W[Len(key)]].end
        \/ ~ends /\ stds = {} /\ w = v
        \/ ~ends /\ \E m \in stds : (\A j \in stds : j <= m) /\ w = B[W[m]].std

\* C has the links of B; and its values, or others; or none but its values.
Linked(B, C) ==
    /\ Len(B) <= Len(C)
    /\ \A n \in 1 .. Len(B), c \in Chars : B[n].k[c] # 0 => C[n].k[c] = B[n].k[c]

Grows(B, C) ==
    /\ Linked(B, C)
    /\ \A n \in 1 .. Len(B) : (B[n].end # 0 => C[n].end # 0) /\ (B[n].std # 0 => C[n].std # 0)

Clears(B, C) ==
    /\ Len(B) = Len(C)
    /\ \A n \in 1 .. Len(B) :
          C[n].end \in {0, B[n].end} /\ C[n].std \in {0, B[n].std} /\ C[n].k = B[n].k

\* A walk that has ended does not go on.
LEMMA NodesEnd ==
    ASSUME NEW q, NEW B, Inside(B, q), Len(B) >= 1, NEW key \in Seq(Chars \cup {Star}),
           NEW i \in 0 .. Len(key), Nodes(B, key)[i] = 0, NEW j \in i .. Len(key)
    PROVE  Nodes(B, key)[j] = 0
<1> DEFINE W == Nodes(B, key)
           S == {d \in Nat : i + d <= Len(key) => W[i + d] = 0}
<1>0. Len(key) \in Nat /\ i \in Nat BY LenProperties
<1>1. 0 \in S BY <1>0
<1>2. ASSUME NEW d \in S \cap Nat PROVE d + 1 \in S
  <2> SUFFICES ASSUME i + (d + 1) <= Len(key) PROVE W[i + (d + 1)] = 0 OBVIOUS
  <2>1. i + (d + 1) \in 1 .. Len(key) /\ i + (d + 1) - 1 = i + d /\ i + d <= Len(key) BY <1>0
  <2>2. W[i + d] = 0 BY <2>1
  <2>3. \A m \in 1 .. Len(key) : W[m - 1] = 0 => W[m] = 0 BY NodesShape
  <2> HIDE DEF W
  <2> QED BY <2>1, <2>2, <2>3
<1> HIDE DEF S
<1>3. Nat \subseteq S BY <1>1, <1>2, Climb
<1>4. j - i \in Nat /\ i + (j - i) = j /\ j <= Len(key) BY <1>0
<1>5. j - i \in S BY <1>3, <1>4
<1> HIDE DEF W
<1> QED BY <1>4, <1>5 DEF S, W

\* A walk finds in a buffer that has grown the nodes that it found before.
LEMMA NodesGrow ==
    ASSUME NEW q, NEW B, Inside(B, q), Len(B) >= 1, NEW r, NEW C, Inside(C, r),
           Linked(B, C), NEW key \in Seq(Chars \cup {Star}), NEW i \in 0 .. Len(key),
           Nodes(B, key)[i] # 0
    PROVE  Nodes(C, key)[i] = Nodes(B, key)[i]
<1> DEFINE V == Nodes(B, key)
           W == Nodes(C, key)
           S == {d \in Nat : d <= Len(key) => (V[d] # 0 => W[d] = V[d])}
<1>0. Len(key) \in Nat /\ Len(B) \in Nat /\ Len(C) \in Nat /\ Len(C) >= 1
  BY LenProperties DEF Inside, Linked
<1>1. /\ V \in [0 .. Len(key) -> 0 .. Len(B)] /\ V[0] = 1 /\ W[0] = 1
      /\ \A d \in 1 .. Len(key) :
            /\ V[d] = IF V[d - 1] = 0 \/ key[d] = Star THEN 0 ELSE B[V[d - 1]].k[key[d]]
            /\ W[d] = IF W[d - 1] = 0 \/ key[d] = Star THEN 0 ELSE C[W[d - 1]].k[key[d]]
  BY <1>0, NodesShape, SMTT(40)
<1> HIDE DEF V, W
<1>2. 0 \in S BY <1>1
<1>3. ASSUME NEW d \in S \cap Nat PROVE d + 1 \in S
  <2> SUFFICES ASSUME d + 1 <= Len(key), V[d + 1] # 0 PROVE W[d + 1] = V[d + 1] OBVIOUS
  <2>1. d + 1 \in 1 .. Len(key) /\ d + 1 - 1 = d /\ d <= Len(key) /\ d \in 0 .. Len(key) BY <1>0
  <2>2. /\ V[d + 1] = IF V[d] = 0 \/ key[d + 1] = Star THEN 0 ELSE B[V[d]].k[key[d + 1]]
        /\ W[d + 1] = IF W[d] = 0 \/ key[d + 1] = Star THEN 0 ELSE C[W[d]].k[key[d + 1]]
    BY <1>1, <2>1
  <2>3. V[d] # 0 /\ key[d + 1] # Star /\ V[d + 1] = B[V[d]].k[key[d + 1]] BY <2>2
  <2>4. W[d] = V[d] BY <2>1, <2>3
  <2>5. V[d] \in 1 .. Len(B)
    <3>1. V[d] \in 0 .. Len(B) BY <1>1, <2>1
    <3> QED BY <1>0, <2>3, <3>1
  <2>6. key[d + 1] \in Chars
    <3>1. key[d + 1] \in Chars \cup {Star} BY <2>1, ElementOfSeq
    <3> QED BY <2>3, <3>1
  <2>7. C[V[d]].k[key[d + 1]] = B[V[d]].k[key[d + 1]] BY <2>3, <2>5, <2>6 DEF Linked
  <2> QED BY <2>2, <2>3, <2>4, <2>7
<1> HIDE DEF S
<1>4. Nat \subseteq S BY <1>2, <1>3, Climb
<1>5. i \in S /\ i <= Len(key) BY <1>0, <1>4
<1> QED BY <1>5 DEF S, V, W

\* A lookup without interruption is a find from the start.
LEMMA YieldsStart ==
    ASSUME NEW q \in Nat, Inside(mem[abuf], q), Len(mem[abuf]) >= 1, NEW key \in Keys, NEW w
    PROVE  w = Walk(key) <=> Yields(mem[abuf], key, 0, 0, w)
<1> DEFINE B == mem[abuf]
           W == Nodes(B, key)
           ends == W[Len(key)] # 0 /\ B[W[Len(key)]].end # 0
           stds == {i \in 0 .. Len(key) : W[i] # 0 /\ B[W[i]].std # 0}
<1>1. \/ ends /\ Walk(key) = B[W[Len(key)]].end
      \/ ~ends /\ stds = {} /\ Walk(key) = 0
      \/ ~ends /\ \E m \in stds : (\A i \in stds : i <= m) /\ Walk(key) = B[W[m]].std
  BY WalkCases
<1>2. stds \subseteq Nat BY NameShape
<1>3. \A m, i \in Nat : m <= i /\ i <= m => m = i OBVIOUS
<1>4. Yields(B, key, 0, 0, w) <=>
         \/ ends /\ w = B[W[Len(key)]].end
         \/ ~ends /\ stds = {} /\ w = 0
         \/ ~ends /\ \E m \in stds : (\A i \in stds : i <= m) /\ w = B[W[m]].std
  BY DEF Yields
<1> HIDE DEF ends, stds, W
<1>5. ASSUME NEW m \in stds, NEW i \in stds, \A j \in stds : j <= m, \A j \in stds : j <= i
      PROVE  m = i
  BY <1>2, <1>3, <1>5
<1> HIDE DEF B
<1> QED BY <1>1, <1>4, <1>5 DEF B

\* Reading std: the pattern of the node takes the place of an earlier one.
LEMMA YieldsReadStd ==
    ASSUME NEW B, NEW key \in Keys, NEW i \in 0 .. Len(key), Nodes(B, key)[i] # 0, NEW v, NEW w,
           Yields(B, key, i, v, w)
    PROVE  LET s == B[Nodes(B, key)[i]].std
           IN  Yields(B, key, i + 1, IF s # 0 THEN s ELSE v, w)
<1> DEFINE W == Nodes(B, key)
           ends == W[Len(key)] # 0 /\ B[W[Len(key)]].end # 0
           stds(f) == {j \in f .. Len(key) : W[j] # 0 /\ B[W[j]].std # 0}
           s == B[W[i]].std
<1>0. Len(key) \in Nat /\ i \in Nat BY NameShape
<1>1. \/ ends /\ w = B[W[Len(key)]].end
      \/ ~ends /\ stds(i) = {} /\ w = v
      \/ ~ends /\ \E m \in stds(i) : (\A j \in stds(i) : j <= m) /\ w = B[W[m]].std
  BY DEF Yields
<1>2. W[i] # 0 OBVIOUS
<1> SUFFICES \/ ends /\ w = B[W[Len(key)]].end
             \/ ~ends /\ stds(i + 1) = {} /\ w = IF s # 0 THEN s ELSE v
             \/ ~ends /\ \E m \in stds(i + 1) : (\A j \in stds(i + 1) : j <= m) /\ w = B[W[m]].std
  BY DEF Yields
<1> HIDE DEF W
<1>3. stds(i + 1) \subseteq stds(i) BY <1>0
<1>4. \A j \in stds(i) : j \in stds(i + 1) \/ (j = i /\ s # 0) BY <1>0
<1>5. s # 0 => i \in stds(i) BY <1>0, <1>2
<1>6. \A j \in stds(i + 1) : j \in Nat /\ j >= i + 1 BY <1>0
<1> HIDE DEF ends, s
<1>7. CASE ~ends /\ \E m \in stds(i) : (\A j \in stds(i) : j <= m) /\ w = B[W[m]].std
  <2>1. PICK m \in stds(i) : (\A j \in stds(i) : j <= m) /\ w = B[W[m]].std BY <1>7
  <2>2. CASE m = i
    <3>1. w = s BY <2>1, <2>2 DEF s
    <3>2. stds(i + 1) = {}
      <4> SUFFICES ASSUME NEW j \in stds(i + 1) PROVE FALSE OBVIOUS
      <4>1. j <= i BY <1>3, <2>1, <2>2
      <4> QED BY <1>0, <1>6, <4>1
    <3>3. s # 0
      <4>1. m \in stds(i) => B[W[m]].std # 0 OBVIOUS
      <4> QED BY <2>1, <2>2, <4>1 DEF s
    <3> HIDE DEF stds
    <3> QED BY <1>7, <3>1, <3>2, <3>3
  <2>3. CASE m # i
    <3> HIDE DEF stds
    <3> QED BY <1>3, <1>4, <1>7, <2>1, <2>3
  <2> QED BY <2>2, <2>3
<1> HIDE DEF stds
<1>8. CASE ~ends /\ stds(i) = {} /\ w = v BY <1>3, <1>5, <1>8
<1> QED BY <1>1, <1>7, <1>8

\* The walk has ended, with the name or before.
LEMMA YieldsEnd ==
    ASSUME NEW B, NEW key \in Keys, NEW v, NEW w, Yields(B, key, Len(key) + 1, v, w),
           Nodes(B, key)[Len(key)] # 0
    PROVE  LET e == B[Nodes(B, key)[Len(key)]].end IN w = IF e # 0 THEN e ELSE v
<1>1. Len(key) \in Nat BY NameShape
<1>2. Len(key) + 1 .. Len(key) = {} BY <1>1
<1> QED BY <1>2 DEF Yields

\* A find whose walk has ended yields its last pattern.
LEMMA YieldsDeadEnd ==
    ASSUME NEW q, NEW B, Inside(B, q), Len(B) >= 1, NEW key \in Keys, NEW v, NEW w,
           NEW i \in 0 .. Len(key), Nodes(B, key)[i] = 0, Yields(B, key, i, v, w)
    PROVE  w = v
<1>1. key \in Seq(Chars \cup {Star}) /\ Len(key) \in Nat BY NameShape
<1>2. \A j \in i .. Len(key) : Nodes(B, key)[j] = 0 BY <1>1, NodesEnd
<1>3. Len(key) \in i .. Len(key) BY <1>1
<1> QED BY <1>2, <1>3 DEF Yields

\* A find that is on its way yields what a find from the start does, unless
\* nothing is left for it to meet.
LEMMA YieldsResume ==
    ASSUME NEW C, NEW key \in Keys, NEW from \in Nat, NEW v, NEW w, Yields(C, key, 0, 0, w),
           LET W == Nodes(C, key)
           IN  /\ ~(W[Len(key)] # 0 /\ C[W[Len(key)]].end # 0)
               /\ {j \in from .. Len(key) : W[j] # 0 /\ C[W[j]].std # 0} = {}
               => w = v
    PROVE  Yields(C, key, from, v, w)
<1> DEFINE W == Nodes(C, key)
           ends == W[Len(key)] # 0 /\ C[W[Len(key)]].end # 0
           stds(f) == {j \in f .. Len(key) : W[j] # 0 /\ C[W[j]].std # 0}
<1>0. Len(key) \in Nat BY NameShape
<1>1. \/ ends /\ w = C[W[Len(key)]].end
      \/ ~ends /\ stds(0) = {} /\ w = 0
      \/ ~ends /\ \E m \in stds(0) : (\A j \in stds(0) : j <= m) /\ w = C[W[m]].std
  BY DEF Yields
<1>2. ~ends /\ stds(from) = {} => w = v OBVIOUS
<1> SUFFICES \/ ends /\ w = C[W[Len(key)]].end
             \/ ~ends /\ stds(from) = {} /\ w = v
             \/ ~ends /\ \E m \in stds(from) : (\A j \in stds(from) : j <= m) /\ w = C[W[m]].std
  BY DEF Yields
<1> HIDE DEF W, ends
<1>3. stds(from) \subseteq stds(0) BY <1>0
<1>4. ASSUME NEW m \in stds(0), NEW j \in stds(from), j <= m PROVE m \in stds(from)
  <2>1. m \in from .. Len(key) BY <1>0, <1>4
  <2> QED BY <2>1
<1> HIDE DEF stds
<1> QED BY <1>1, <1>2, <1>3, <1>4

\* Nothing of what a find was going to meet goes when a buffer grows.
LEMMA YieldsGrow ==
    ASSUME NEW q, NEW B, Inside(B, q), Len(B) >= 1, NEW r, NEW C, Inside(C, r), Grows(B, C),
           NEW key \in Keys, NEW from \in Nat, NEW v, NEW w,
           Yields(B, key, from, v, w), Yields(C, key, 0, 0, w)
    PROVE  Yields(C, key, from, v, w)
<1> DEFINE V == Nodes(B, key)
           W == Nodes(C, key)
<1>0. key \in Seq(Chars \cup {Star}) /\ Len(key) \in Nat /\ Len(B) \in Nat
  BY NameShape, LenProperties DEF Inside
<1>1. ASSUME NEW j \in 0 .. Len(key), V[j] # 0
      PROVE  /\ W[j] # 0
             /\ B[V[j]].end # 0 => C[W[j]].end # 0
             /\ B[V[j]].std # 0 => C[W[j]].std # 0
  <2>1. W[j] = V[j] BY <1>0, <1>1, NodesGrow DEF Grows
  <2>2. V \in [0 .. Len(key) -> 0 .. Len(B)] BY <1>0, NodesShape
  <2> HIDE DEF V, W
  <2>3. V[j] \in 0 .. Len(B) BY <2>2
  <2>4. V[j] \in 1 .. Len(B) BY <1>0, <1>1, <2>3
  <2> QED BY <1>1, <2>1, <2>4 DEF Grows
<1>2. ASSUME ~(W[Len(key)] # 0 /\ C[W[Len(key)]].end # 0),
             {j \in from .. Len(key) : W[j] # 0 /\ C[W[j]].std # 0} = {}
      PROVE  w = v
  <2>1. \/ /\ V[Len(key)] # 0 /\ B[V[Len(key)]].end # 0
        \/ {j \in from .. Len(key) : V[j] # 0 /\ B[V[j]].std # 0} = {} /\ w = v
        \/ \E m \in {j \in from .. Len(key) : V[j] # 0 /\ B[V[j]].std # 0} : TRUE
    BY DEF Yields
  <2> HIDE DEF V, W
  <2>2. Len(key) \in 0 .. Len(key) BY <1>0
  <2>3. \A j \in from .. Len(key) : j \in 0 .. Len(key) BY <1>0
  <2> QED BY <1>1, <1>2, <2>1, <2>2, <2>3
<1> QED BY <1>2, YieldsResume

\* A walk is not changed by a change of values.
LEMMA NodesClear ==
    ASSUME NEW q, NEW B, Inside(B, q), Len(B) >= 1, NEW r, NEW C, Inside(C, r), Clears(B, C),
           NEW key \in Seq(Chars \cup {Star}), NEW i \in 0 .. Len(key)
    PROVE  Nodes(C, key)[i] = Nodes(B, key)[i]
<1>1. Linked(B, C) /\ Linked(C, B) /\ Len(C) >= 1
  <2>1. Len(B) = Len(C) /\ \A n \in 1 .. Len(B) : C[n].k = B[n].k BY DEF Clears
  <2>2. Len(B) \in Nat BY LenProperties DEF Inside
  <2> QED BY <2>1, <2>2 DEF Linked
<1>2. Nodes(B, key)[i] # 0 => Nodes(C, key)[i] = Nodes(B, key)[i] BY <1>1, NodesGrow
<1>3. Nodes(C, key)[i] # 0 => Nodes(B, key)[i] = Nodes(C, key)[i] BY <1>1, NodesGrow
<1> QED BY <1>2, <1>3

\* What a find was going to yield is still there if a find from the start
\* yields it: no queue has two places in the trie.
LEMMA YieldsClear ==
    ASSUME Safe, Trie, Target = abuf, NEW r, NEW C, Inside(C, r), Clears(mem[abuf], C),
           NEW key \in Keys, NEW from \in Nat, NEW v, NEW w,
           Yields(mem[abuf], key, from, v, w), Yields(C, key, 0, 0, w)
    PROVE  Yields(C, key, from, v, w)
<1> DEFINE B == mem[abuf]
           V == Nodes(B, key)
           W == Nodes(C, key)
           bs(f) == {j \in f .. Len(key) : V[j] # 0 /\ B[V[j]].std # 0}
           cs(f) == {j \in f .. Len(key) : W[j] # 0 /\ C[W[j]].std # 0}
<1>0. /\ key \in Seq(Chars \cup {Star}) /\ Len(key) \in Nat
      /\ Inside(B, Len(queues)) /\ Len(B) \in Nat /\ Len(B) >= 1
  BY NameShape, LenProperties DEF Inside, Safe, Buffers
<1>1. \A j \in 0 .. Len(key) : W[j] = V[j] BY <1>0, NodesClear
<1>2. \A j \in 0 .. Len(key) : V[j] # 0 =>
         /\ V[j] \in 1 .. Len(B)
         /\ B[V[j]].end # 0 => ~Pattern(queues[B[V[j]].end])
         /\ B[V[j]].std # 0 => /\ Pattern(queues[B[V[j]].std])
                              /\ Stem(queues[B[V[j]].std]) = SubSeq(key, 1, j)
  BY <1>0, WalkMeets
<1>3. ASSUME NEW i \in 0 .. Len(key), NEW j \in 0 .. Len(key), SubSeq(key, 1, i) = SubSeq(key, 1, j)
      PROVE  i = j
  <2>1. \A m \in 0 .. Len(key) : Len(SubSeq(key, 1, m)) = m
    <3> SUFFICES ASSUME NEW m \in 0 .. Len(key) PROVE Len(SubSeq(key, 1, m)) = m OBVIOUS
    <3>1. m \in Nat /\ 1 \in Int /\ m \in Int BY <1>0
    <3>2. \A d \in 1 .. m : key[d] \in Chars \cup {Star} BY <1>0, ElementOfSeq
    <3>3. Len(SubSeq(key, 1, m)) = IF 1 <= m THEN m - 1 + 1 ELSE 0 BY <3>1, <3>2, SubSeqProperties
    <3> QED BY <3>1, <3>3
  <2> QED BY <1>3, <2>1
<1>4. ASSUME ~(W[Len(key)] # 0 /\ C[W[Len(key)]].end # 0), cs(from) = {}
      PROVE  w = v
  <2>1. \/ V[Len(key)] # 0 /\ B[V[Len(key)]].end # 0 /\ w = B[V[Len(key)]].end
        \/ bs(from) = {} /\ w = v
        \/ \E m \in bs(from) : w = B[V[m]].std
    BY DEF Yields
  <2>2. \/ cs(0) = {} /\ w = 0
        \/ \E m \in cs(0) : w = C[W[m]].std
    BY <1>4 DEF Yields
  <2>3. \A m \in cs(0) : m \in 0 .. Len(key) /\ V[m] # 0 /\ C[W[m]].std = B[V[m]].std /\ B[V[m]].std # 0
    <3> SUFFICES ASSUME NEW m \in cs(0)
                 PROVE  m \in 0 .. Len(key) /\ V[m] # 0 /\ C[W[m]].std = B[V[m]].std /\ B[V[m]].std # 0
      OBVIOUS
    <3>1. m \in 0 .. Len(key) /\ W[m] # 0 /\ C[W[m]].std # 0 OBVIOUS
    <3> HIDE DEF cs, V, W
    <3>2. V[m] # 0 /\ W[m] = V[m] BY <1>1, <3>1
    <3>3. V[m] \in 1 .. Len(B) BY <1>2, <3>1, <3>2
    <3>4. C[V[m]].std \in {0, B[V[m]].std} BY <3>3 DEF Clears
    <3> QED BY <3>1, <3>2, <3>4
  <2>4. \A m \in bs(from) : m \in 0 .. Len(key) /\ m >= from /\ V[m] # 0 /\ B[V[m]].std # 0 BY <1>0
  <2>5. \A m \in cs(0) : m >= from => m \in cs(from) BY <1>0
  <2> HIDE DEF bs, cs, V, W, B
  <2>6. CASE V[Len(key)] # 0 /\ B[V[Len(key)]].end # 0 /\ w = B[V[Len(key)]].end
    <3>1. PICK m \in cs(0) : w = C[W[m]].std BY <2>2, <2>6
    <3>2. Len(key) \in 0 .. Len(key) BY <1>0
    <3> QED BY <1>2, <2>3, <2>6, <3>1, <3>2
  <2>7. CASE \E m \in bs(from) : w = B[V[m]].std
    <3>1. PICK m \in bs(from) : w = B[V[m]].std BY <2>7
    <3>2. m \in 0 .. Len(key) /\ m >= from /\ V[m] # 0 /\ w # 0 BY <2>4, <3>1
    <3>3. PICK j \in cs(0) : w = C[W[j]].std BY <2>2, <3>2
    <3>4. j \in 0 .. Len(key) /\ V[j] # 0 /\ w = B[V[j]].std BY <2>3, <3>3
    <3>5. Stem(queues[w]) = SubSeq(key, 1, m) /\ Stem(queues[w]) = SubSeq(key, 1, j)
      BY <1>2, <3>1, <3>2, <3>4
    <3>6. m = j BY <1>3, <3>2, <3>4, <3>5
    <3> QED BY <1>4, <2>5, <3>2, <3>3, <3>6
  <2> QED BY <2>1, <2>6, <2>7
<1> QED BY <1>4, YieldsResume

-----------------------------------------------------------------------------
(* What a step changes *)

\* A thread changes nothing of another one.
LEMMA OthersStay ==
    ASSUME Safe, NEW k \in Loops, LoopStep(k), NEW l \in Loops, l # k
    PROVE  th'[l] = th[l]
<1>0. th \in [Loops -> Thread] BY DEF Safe
<1>1. CASE \E r \in Asked[k] : GetQueue(k, r[1], r[2]) \/ DeleteQueue(k, r[1], r[2])
  <2>1. PICK r \in Asked[k] : GetQueue(k, r[1], r[2]) \/ DeleteQueue(k, r[1], r[2]) BY <1>1
  <2>2. PICK a, b : a = r[1] /\ b = r[2] OBVIOUS
  <2>3. CASE GetQueue(k, a, b) BY <1>0, <2>3 DEF GetQueue
  <2>4. CASE DeleteQueue(k, a, b) BY <1>0, <2>4 DEF DeleteQueue
  <2> QED BY <2>1, <2>2, <2>3, <2>4
<1>2. CASE ReadStd(k) BY <1>0, <1>2 DEF ReadStd
<1>3. CASE ReadNext(k)
  <2>1. \/ \E n : th' = Found(k, n)
        \/ \E n : th' = [th EXCEPT ![k].pc = "std", ![k].i = @ + 1, ![k].step = n]
    BY <1>3 DEF ReadNext
  <2>2. ASSUME NEW n, th' = Found(k, n) PROVE th'[l] = th[l] BY <1>0, <2>2 DEF Found
  <2>3. ASSUME NEW n, th' = [th EXCEPT ![k].pc = "std", ![k].i = @ + 1, ![k].step = n]
        PROVE  th'[l] = th[l]
    BY <1>0, <2>3
  <2> QED BY <2>1, <2>2, <2>3
<1>4. CASE ReadBase(k) BY <1>0, <1>4 DEF ReadBase
<1>5. CASE ReadSlot(k) BY <1>0, <1>5 DEF ReadSlot
<1>6. CASE Return(k) BY <1>0, <1>6 DEF Return
<1>7. CASE LockAndFind(k) BY <1>0, <1>7 DEF LockAndFind
<1>8. CASE AssignSlot(k) BY <1>0, <1>8 DEF AssignSlot
<1>9. CASE AddChar(k) BY <1>0, <1>9 DEF AddChar
<1>10. CASE AddValue(k) BY <1>0, <1>10, AddValueEffect
<1>11. CASE Publish(k) BY <1>0, <1>11 DEF Publish
<1>12. CASE Retire(k)
  <2>1. th' = [Created(k) EXCEPT ![k].ptr = 0] BY <1>12 DEF Retire
  <2> QED BY <1>0, <2>1 DEF Created
<1>13. CASE DropSlot(k) BY <1>0, <1>13 DEF DropSlot
<1> QED BY <1>1, <1>2, <1>3, <1>4, <1>5, <1>6, <1>7, <1>8, <1>9, <1>10, <1>11, <1>12, <1>13
        DEF LoopStep

\* Either the trie is as it was or the list of queues; the trie is published
\* in one step; and only a delete takes a name from the list.
LEMMA WhatChanges ==
    ASSUME Safe, [Next]_vars
    PROVE  /\ queues' = queues \/ UNCHANGED trie
           /\ \/ abuf' = abuf
              \/ abuf' = buf_t /\ buf_t' = 0 /\ mem' = mem
           /\ \/ \E k \in Loops : DropSlot(k)
              \/ \A j \in 1 .. Len(queues) :
                    j \in 1 .. Len(queues') /\ (queues[j] # None => queues'[j] = queues[j])
<1>1. CASE UNCHANGED <<trie, queues>> BY <1>1 DEF trie
<1>2. ASSUME NEW l \in Loops, LoopStep(l)
      PROVE  \/ UNCHANGED <<trie, queues>>
             \/ queues' = queues /\ (abuf' = abuf \/ (abuf' = buf_t /\ buf_t' = 0 /\ mem' = mem))
             \/ DropSlot(l) \/ AssignSlot(l)
  <2>1. CASE \E r \in Asked[l] : GetQueue(l, r[1], r[2]) \/ DeleteQueue(l, r[1], r[2])
    BY <2>1 DEF GetQueue, DeleteQueue
  <2>2. CASE ReadStd(l) \/ ReadNext(l) \/ ReadBase(l) \/ ReadSlot(l) \/ Return(l)
    BY <2>2 DEF ReadStd, ReadNext, ReadBase, ReadSlot, Return
  <2>3. CASE LockAndFind(l) \/ AssignSlot(l) \/ DropSlot(l) \/ Retire(l)
    BY <2>3 DEF LockAndFind, Retire
  <2>4. CASE AddChar(l) BY <2>4, AddCharEffect
  <2>5. CASE AddValue(l) \/ Publish(l) BY <2>5 DEF AddValue, Publish
  <2> QED BY <1>2, <2>1, <2>2, <2>3, <2>4, <2>5 DEF LoopStep
<1>3. ASSUME NEW l \in Loops, AssignSlot(l)
      PROVE  /\ UNCHANGED trie
             /\ \A j \in 1 .. Len(queues) :
                   j \in 1 .. Len(queues') /\ (queues[j] # None => queues'[j] = queues[j])
  <2>1. UNCHANGED trie BY <1>3 DEF AssignSlot
  <2>2. \E n \in 1 .. Len(queues') :
          /\ n \in 1 .. Len(queues) => queues[n] = None
          /\ \A j \in 1 .. Len(queues) : j # n => queues'[j] = queues[j]
    BY <1>3, SafeAssignSlot
  <2>3. Len(queues) <= Len(queues') /\ Len(queues) \in Nat /\ Len(queues') \in Nat
    <3>1. Len(queues) \in Nat BY Slots
    <3>2. queues' = IF FreeSlots # {} THEN [queues EXCEPT ![Min(FreeSlots)] = th[l].key]
                    ELSE Append(queues, th[l].key)
      BY <1>3 DEF AssignSlot
    <3>3. queues \in Seq(Names0) /\ th[l].key \in Names0
      BY <1>3 DEF Safe, Lists, Fits, AssignSlot, Names0
    <3>4. DOMAIN queues' = DOMAIN queues => Len(queues') = Len(queues)
      <4>1. queues' \in Seq(Names0) BY <1>3, SafeAssignSlot DEF Safe, Lists
      <4> QED BY <3>3, <4>1, LenProperties
    <3>5. CASE FreeSlots # {} BY <3>1, <3>2, <3>4, <3>5
    <3>6. CASE FreeSlots = {} BY <3>1, <3>2, <3>3, <3>6, AppendProperties
    <3> QED BY <3>5, <3>6
  <2> QED BY <2>1, <2>2, <2>3
<1>4. ASSUME NEW l \in Loops, DropSlot(l) PROVE UNCHANGED trie BY <1>4 DEF DropSlot
<1>5. CASE UNCHANGED vars BY <1>1, <1>5 DEF vars
<1>6. CASE TakeList \/ Free
  <2>1. queues' = queues /\ abuf' = abuf BY <1>6 DEF TakeList, Free, trie
  <2> QED BY <2>1
<1>7. CASE \E l \in Loops : LoopStep(l)
  <2>1. PICK l \in Loops : LoopStep(l) BY <1>7
  <2>2. \/ UNCHANGED <<trie, queues>>
        \/ queues' = queues /\ (abuf' = abuf \/ (abuf' = buf_t /\ buf_t' = 0 /\ mem' = mem))
        \/ DropSlot(l) \/ AssignSlot(l)
    BY <1>2, <2>1
  <2>3. CASE DropSlot(l) BY <1>4, <2>3 DEF trie
  <2>4. CASE AssignSlot(l) BY <1>3, <2>4 DEF trie
  <2>5. CASE queues' = queues /\ (abuf' = abuf \/ (abuf' = buf_t /\ buf_t' = 0 /\ mem' = mem))
    BY <2>5
  <2> QED BY <1>1, <2>2, <2>3, <2>4, <2>5
<1> QED BY <1>5, <1>6, <1>7 DEF Next

\* A buffer that a find is in, or may start in, is as it was, or it is the
\* published one and values or links are written to it in place.
LEMMA BufferStep ==
    ASSUME Safe, Safe', [Next]_vars, NEW p \in 1 .. Len(mem), p # buf_t,
           p = abuf \/ \E l \in Loops : Finding(l) /\ p = th[l].ptr
    PROVE  /\ p \in 1 .. Len(mem') /\ p # buf_t'
           /\ \/ mem'[p] = mem[p]
              \/ /\ p = abuf /\ abuf' = abuf /\ buf_t = 0 /\ buf_t' = 0 /\ queues' = queues
                 /\ \/ Grows(mem[p], mem'[p])
                    \/ lock = None /\ Clears(mem[p], mem'[p])
<1>0. /\ p # 0 /\ Len(mem) \in Nat /\ mem[p] \in Seq(Node) /\ Len(mem[p]) \in Nat
      /\ abuf \in 1 .. Len(mem) /\ buf_t \in 0 .. Len(mem) /\ buf_t # abuf
  BY ElementOfSeq, LenProperties, SMTT(40) DEF Safe, Buffers
<1>1. CASE UNCHANGED trie BY <1>0, <1>1 DEF trie
<1>2. CASE Free
  <2>1. mem'[p] = mem[p] BY <1>2, SafeFree
  <2>2. DOMAIN mem' = DOMAIN mem /\ buf_t' = buf_t BY <1>2 DEF Free
  <2>3. Len(mem') = Len(mem)
    <3>1. mem \in Seq(Seq(Node)) /\ mem' \in Seq(Seq(Node)) BY DEF Safe, Buffers
    <3> QED BY <2>2, <3>1, LenProperties
  <2> QED BY <2>1, <2>2, <2>3
<1>3. ASSUME NEW k \in Loops, AddChar(k)
      PROVE  /\ p \in 1 .. Len(mem') /\ p # buf_t'
             /\ \/ mem'[p] = mem[p]
                \/ /\ p = abuf /\ abuf' = abuf /\ buf_t = 0 /\ buf_t' = 0 /\ queues' = queues
                   /\ Grows(mem[p], mem'[p])
  <2> DEFINE t == th[k]
             c == t.key[t.i + 1]
             next == mem[Target][t.step].k[c]
  <2>1. /\ t.pc = "add" /\ c \in Chars /\ UNCHANGED <<abuf, queues>>
        /\ \/ UNCHANGED trie
           \/ /\ next = 0 /\ size' = size + 1
              /\ \E G : /\ Extends(G, mem[Target]) /\ size + 1 <= Len(G)
                        /\ mem'[Target'] = [G EXCEPT ![t.step].k[c] = size + 1]
              /\ mem' \in Seq(Seq(Node)) /\ Len(mem) <= Len(mem')
              /\ \A g \in 1 .. Len(mem) : g # Target' => mem'[g] = mem[g]
              /\ \/ buf_t' = buf_t /\ Len(mem') = Len(mem)
                 \/ buf_t' = Len(mem) + 1
    BY <1>3, AddCharEffect
  <2>2. t.step \in 1 .. size /\ size \in Nat /\ size <= Len(mem[Target])
    BY <2>1 DEF Safe, Fits, Buffers
  <2> HIDE DEF t, c, next
  <2>3. CASE UNCHANGED trie BY <1>0, <2>3 DEF trie
  <2>4. CASE ~UNCHANGED trie
    <3>1. Len(mem') \in Nat /\ p \in 1 .. Len(mem') /\ p # buf_t'
      BY <1>0, <2>1, <2>4, LenProperties
    <3>2. CASE p # Target' BY <2>1, <2>4, <3>1, <3>2
    <3>3. CASE p = Target'
      <4>1. abuf' = abuf /\ buf_t' = 0 /\ p = abuf BY <2>1, <3>1, <3>3 DEF Target
      <4>2. buf_t = 0 /\ Target = abuf BY <1>0, <2>1, <2>4, <4>1 DEF Target
      <4>3. PICK G : /\ Extends(G, mem[p]) /\ size + 1 <= Len(G)
                     /\ mem'[p] = [G EXCEPT ![t.step].k[c] = size + 1]
        BY <2>1, <2>4, <3>3, <4>1, <4>2
      <4>4. /\ t.step \in 1 .. Len(mem[p]) /\ mem[p][t.step].k[c] = 0
        BY <1>0, <2>1, <2>2, <2>4, <4>1, <4>2 DEF next
      <4>5. G \in Seq(Node) /\ Len(G) \in Nat /\ Len(mem[p]) <= Len(G)
            /\ \A n \in 1 .. Len(mem[p]) : G[n] = mem[p][n]
        BY <4>3, LenProperties DEF Extends
      <4>6. t.step \in 1 .. Len(G) /\ size + 1 \in Nat BY <1>0, <2>2, <4>4, <4>5
      <4>7. mem'[p] = WithLink(G, t.step, c, size + 1) BY <4>3 DEF WithLink
      <4>8. /\ Len(mem'[p]) = Len(G)
            /\ \A n \in 1 .. Len(G) :
                  /\ mem'[p][n].end = G[n].end /\ mem'[p][n].std = G[n].std
                  /\ \A d \in Chars : mem'[p][n].k[d] = IF n = t.step /\ d = c THEN size + 1 ELSE G[n].k[d]
        BY <2>1, <4>5, <4>6, <4>7, LinkWritten
      <4>9. \A n \in 1 .. Len(mem[p]) : n \in 1 .. Len(G) BY <1>0, <4>5
      <4>10. Grows(mem[p], mem'[p]) BY <4>4, <4>5, <4>8, <4>9, SMTT(40) DEF Grows, Linked
      <4> QED BY <2>1, <3>1, <4>1, <4>2, <4>10
    <3> QED BY <3>2, <3>3
  <2> QED BY <2>3, <2>4
<1>4. ASSUME NEW s \in 1 .. Len(mem[p]), NEW v \in Nat, NEW e \in BOOLEAN,
             mem'[p] = IF e THEN [mem[p] EXCEPT ![s].end = v] ELSE [mem[p] EXCEPT ![s].std = v]
      PROVE  /\ v # 0 => Grows(mem[p], mem'[p])
             /\ v = 0 => Clears(mem[p], mem'[p])
  <2>1. PICK B, C : B = mem[p] /\ C = mem'[p] OBVIOUS
  <2>2. /\ B \in Seq(Node) /\ Len(B) \in Nat /\ s \in 1 .. Len(B)
        /\ C = IF e THEN [B EXCEPT ![s].end = v] ELSE [B EXCEPT ![s].std = v]
    BY <1>0, <1>4, <2>1
  <2>3. /\ Len(C) = Len(B)
        /\ \A n \in 1 .. Len(B) : /\ C[n].end = B[n].end \/ C[n].end = v
                                  /\ C[n].std = B[n].std \/ C[n].std = v
                                  /\ C[n].k = B[n].k
    <3>1. CASE e BY <2>2, <3>1, EndWritten
    <3>2. CASE ~e BY <2>2, <3>2, StdWritten
    <3> QED BY <3>1, <3>2
  <2>4. v # 0 => Grows(B, C) BY <2>2, <2>3 DEF Grows, Linked
  <2>5. v = 0 => Clears(B, C) BY <2>2, <2>3 DEF Clears
  <2> QED BY <2>1, <2>4, <2>5
<1>5. ASSUME NEW k \in Loops, AddValue(k)
      PROVE  /\ p \in 1 .. Len(mem') /\ p # buf_t'
             /\ \/ mem'[p] = mem[p]
                \/ /\ p = abuf /\ abuf' = abuf /\ buf_t = 0 /\ buf_t' = 0 /\ queues' = queues
                   /\ Grows(mem[p], mem'[p])
  <2> DEFINE t == th[k]
  <2>1. UNCHANGED <<abuf, buf_t, queues>> BY <1>5 DEF AddValue
  <2>2. /\ t.step \in 1 .. Len(mem[Target]) /\ t.n \in 1 .. Len(queues)
        /\ mem'[Target] = IF t.i = Len(t.key) THEN [mem[Target] EXCEPT ![t.step].end = t.n]
                          ELSE [mem[Target] EXCEPT ![t.step].std = t.n]
    BY <1>5, AddValueEffect
  <2>3. \E C : mem' = [mem EXCEPT ![Target] = C]
    <3>1. \/ \E C : mem' = [mem EXCEPT ![Target][t.step].end = C]
          \/ \E C : mem' = [mem EXCEPT ![Target][t.step].std = C]
      BY <1>5 DEF AddValue
    <3> HIDE DEF t
    <3> QED BY <3>1
  <2>4. mem' \in Seq(Seq(Node)) /\ mem \in Seq(Seq(Node)) BY DEF Safe, Buffers
  <2>5. DOMAIN mem' = DOMAIN mem BY <2>3
  <2>6. Len(mem') = Len(mem) /\ (p # Target => mem'[p] = mem[p]) BY <2>3, <2>4, <2>5, LenProperties
  <2>7. CASE p # Target BY <2>1, <2>6, <2>7
  <2>8. CASE p = Target
    <3>1. p = abuf /\ buf_t = 0 BY <2>8 DEF Target
    <3>2. PICK e, v, s : e = (t.i = Len(t.key)) /\ v = t.n /\ s = t.step OBVIOUS
    <3> HIDE DEF t
    <3>3. e \in BOOLEAN /\ v \in Nat /\ v # 0 /\ s \in 1 .. Len(mem[p]) BY <2>2, <2>8, <3>2
    <3>4. mem'[p] = IF e THEN [mem[p] EXCEPT ![s].end = v] ELSE [mem[p] EXCEPT ![s].std = v]
      BY <2>2, <2>8, <3>2
    <3>5. Grows(mem[p], mem'[p]) BY <1>4, <3>3, <3>4
    <3> QED BY <2>1, <2>6, <3>1, <3>5
  <2> QED BY <2>7, <2>8
<1>6. ASSUME NEW k \in Loops, NEW op \in {"find", "create", "delete"}, NEW key \in Keys,
             DeleteQueue(k, op, key)
      PROVE  /\ p \in 1 .. Len(mem') /\ p # buf_t'
             /\ \/ mem'[p] = mem[p]
                \/ /\ p = abuf /\ abuf' = abuf /\ buf_t = 0 /\ buf_t' = 0 /\ queues' = queues
                   /\ lock = None /\ Clears(mem[p], mem'[p])
  <2>1. UNCHANGED <<abuf, buf_t, queues>> BY <1>6 DEF DeleteQueue
  <2>2. /\ lock = None /\ Target = abuf /\ NodeOf(key) \in 1 .. Len(mem[Target])
        /\ mem'[Target] = IF Pattern(key) THEN [mem[Target] EXCEPT ![NodeOf(key)].std = 0]
                          ELSE [mem[Target] EXCEPT ![NodeOf(key)].end = 0]
    BY <1>6, DeleteEffect
  <2>3. \E C : mem' = [mem EXCEPT ![abuf] = C]
    <3>1. \/ mem' = [mem EXCEPT ![abuf][NodeOf(key)].std = 0]
          \/ mem' = [mem EXCEPT ![abuf][NodeOf(key)].end = 0]
      BY <1>6 DEF DeleteQueue
    <3> QED BY <3>1
  <2>4. mem' \in Seq(Seq(Node)) /\ mem \in Seq(Seq(Node)) BY DEF Safe, Buffers
  <2>5. DOMAIN mem' = DOMAIN mem BY <2>3
  <2>6. Len(mem') = Len(mem) /\ (p # abuf => mem'[p] = mem[p]) BY <2>3, <2>4, <2>5, LenProperties
  <2>7. CASE p # abuf BY <2>1, <2>6, <2>7
  <2>8. CASE p = abuf
    <3>1. buf_t = 0 BY <2>2, FreeTarget
    <3>2. PICK e, s : e = ~Pattern(key) /\ s = NodeOf(key) OBVIOUS
    <3>3. e \in BOOLEAN BY <3>2 DEF Pattern
    <3>4. s \in 1 .. Len(mem[p]) /\ 0 \in Nat BY <2>2, <2>8, <3>2
    <3>5. mem'[p] = IF e THEN [mem[p] EXCEPT ![s].end = 0] ELSE [mem[p] EXCEPT ![s].std = 0]
      BY <2>2, <2>8, <3>2
    <3>6. Clears(mem[p], mem'[p]) BY <1>4, <3>3, <3>4, <3>5
    <3> QED BY <2>1, <2>2, <2>6, <2>8, <3>1, <3>6
  <2> QED BY <2>7, <2>8
<1>7. ASSUME NEW k \in Loops, Publish(k) PROVE mem' = mem /\ buf_t' = 0 BY <1>7 DEF Publish
<1>8. ASSUME NEW k \in Loops, LoopStep(k)
      PROVE  \/ UNCHANGED trie \/ AddChar(k) \/ AddValue(k) \/ Publish(k)
             \/ \E r \in Asked[k] : DeleteQueue(k, r[1], r[2])
  BY <1>8 DEF LoopStep, GetQueue, ReadStd, ReadNext, ReadBase, ReadSlot, Return, LockAndFind,
              AssignSlot, Retire, DropSlot
<1>9. CASE UNCHANGED vars BY <1>1, <1>9 DEF vars
<1>10. CASE TakeList BY <1>1, <1>10 DEF TakeList
<1>11. ASSUME NEW k \in Loops, LoopStep(k)
       PROVE  /\ p \in 1 .. Len(mem') /\ p # buf_t'
              /\ \/ mem'[p] = mem[p]
                 \/ /\ p = abuf /\ abuf' = abuf /\ buf_t = 0 /\ buf_t' = 0 /\ queues' = queues
                    /\ \/ Grows(mem[p], mem'[p])
                       \/ lock = None /\ Clears(mem[p], mem'[p])
  <2>1. CASE UNCHANGED trie BY <1>1, <2>1
  <2>2. CASE AddChar(k) BY <1>3, <2>2
  <2>3. CASE AddValue(k) BY <1>5, <2>3
  <2>4. CASE Publish(k) BY <1>0, <1>7, <2>4
  <2>5. CASE \E r \in Asked[k] : DeleteQueue(k, r[1], r[2])
    <3>1. PICK r \in Asked[k] : DeleteQueue(k, r[1], r[2]) BY <2>5
    <3>2. r[1] \in {"find", "create", "delete"} /\ r[2] \in Keys BY RequestShape
    <3> QED BY <1>6, <3>1, <3>2
  <2> QED BY <1>8, <1>11, <2>1, <2>2, <2>3, <2>4, <2>5
<1> QED BY <1>2, <1>9, <1>10, <1>11 DEF Next

-----------------------------------------------------------------------------
(* What a thread knows on its way *)

\* What the published buffer yields is a queue.
Named == \A key \in Keys : Walk(key) # 0 => queues[Walk(key)] # None


\* A find is where its buffer leads it, and nobody adds to that buffer but the
\* holder of the lock in the published one. What add publishes is in the list.
OnTheWay(t) ==
    /\ t.pc \notin {"idle", "drop"} => t.key \in Keys
    /\ t.pc = "drop" => t.op = "delete"
    /\ t.pc = "publish" => t.key \in Names
    /\ t.pc \in {"std", "next"} =>
          /\ t.ptr # buf_t /\ t.got = None
          /\ t.step = Nodes(mem[t.ptr], t.key)[t.i]

\* The next node whose pattern it reads.
From(t) == IF t.pc = "std" THEN t.i ELSE t.i + 1

\* It is going to return the queue that a lookup yielded when it began, and
\* that one would still yield.
Tells(t) ==
    /\ t.pc = "done" => t.got = t.want
    /\ t.pc # "done" => Lookup(t.key) = t.want
    /\ t.pc \in {"std", "next"} => Yields(mem[t.ptr], t.key, From(t), t.std, Walk(t.key))
    /\ t.pc \in {"slot", "read"} => t.n = Walk(t.key)
    /\ t.pc = "read" => t.base = vcap
    /\ t.pc \in Changing \cup {"lock"} => t.want = None
    /\ t.pc # "retire"

\* The slot of a queue that serves the name, and a buffer where a find meets
\* no other.
Serving(v, key) == v \in 1 .. Len(queues) /\ queues[v] \in {key} \cup Patterns(key)

Meets(B, key) ==
    \A j \in 0 .. Len(key) :
       LET n == Nodes(B, key)[j]
       IN  n # 0 => /\ B[n].std # 0 => Serving(B[n].std, key)
                    /\ j = Len(key) /\ B[n].end # 0 => Serving(B[n].end, key)

\* The same of the published buffer, for every name.
Meeting == \A key \in Keys : Meets(mem[abuf], key)

\* It is going to return a queue that serves its name; at most it has begun
\* when the last delete empties a slot.
Serves(t) ==
    /\ (\E k \in Loops : th[k].pc = "drop") => t.pc = "std" /\ t.i = 0 /\ t.std = 0 /\ t.ptr = abuf
    /\ t.pc \in {"std", "next"} => /\ t.std # 0 => Serving(t.std, t.key)
                                   /\ Meets(mem[t.ptr], t.key)
    /\ t.pc \in {"slot", "read"} => Serving(t.n, t.key)
    /\ t.pc = "read" => t.base = vcap
    /\ t.pc = "done" /\ t.op = "create" => t.got \in {t.key} \cup Patterns(t.key)

\* While add has no buffer of its own, a find in the published one meets only
\* queues that serve the name.
LEMMA MeetsNow ==
    ASSUME Safe, Trie, Target = abuf, NEW key \in Keys
    PROVE  Meets(mem[abuf], key)
<1> DEFINE B == mem[abuf]
           W == Nodes(B, key)
<1>0. key \in Seq(Chars \cup {Star}) /\ Len(key) \in Nat BY NameShape
<1> SUFFICES ASSUME NEW j \in 0 .. Len(key), W[j] # 0
             PROVE  /\ B[W[j]].std # 0 => Serving(B[W[j]].std, key)
                    /\ j = Len(key) /\ B[W[j]].end # 0 => Serving(B[W[j]].end, key)
  BY DEF Meets
<1>1. /\ B[W[j]].end # 0 =>
            /\ B[W[j]].end \in 1 .. Len(queues) /\ queues[B[W[j]].end] \in Keys
            /\ ~Pattern(queues[B[W[j]].end]) /\ Stem(queues[B[W[j]].end]) = SubSeq(key, 1, j)
      /\ B[W[j]].std # 0 =>
            /\ B[W[j]].std \in 1 .. Len(queues) /\ queues[B[W[j]].std] \in Keys
            /\ queues[B[W[j]].std] # None /\ Pattern(queues[B[W[j]].std])
            /\ Stem(queues[B[W[j]].std]) = SubSeq(key, 1, j)
  BY <1>0, WalkMeets
<1>2. PICK e, s : e = B[W[j]].end /\ s = B[W[j]].std OBVIOUS
<1>3. ASSUME s # 0 PROVE Serving(s, key)
  <2>1. /\ s \in 1 .. Len(queues) /\ queues[s] \in Keys /\ queues[s] # None
        /\ Pattern(queues[s]) /\ Stem(queues[s]) = SubSeq(key, 1, j)
    BY <1>1, <1>2, <1>3
  <2>2. Stem(queues[s]) \in Seq(Chars) BY <2>1, StemShape
  <2>3. IsPrefix(Stem(queues[s]), key) BY <1>0, <2>1, <2>2, BeginsPrefix
  <2>4. queues[s] \in Names BY <2>1, Slots
  <2> QED BY <2>1, <2>3, <2>4 DEF Serving, Patterns
<1>4. ASSUME e # 0, j = Len(key) PROVE Serving(e, key)
  <2>1. /\ e \in 1 .. Len(queues) /\ queues[e] \in Keys
        /\ ~Pattern(queues[e]) /\ Stem(queues[e]) = SubSeq(key, 1, j)
    BY <1>1, <1>2, <1>4
  <2>2. Stem(queues[e]) = queues[e] BY <2>1, StemShape
  <2>3. SubSeq(key, 1, Len(key)) = key BY <1>0, SubSeqFull
  <2> QED BY <1>4, <2>1, <2>2, <2>3 DEF Serving
<1> QED BY <1>2, <1>3, <1>4

\* What serves a name is the name of a queue.
LEMMA ServingShape ==
    ASSUME Safe, NEW key \in Keys, NEW v, Serving(v, key)
    PROVE  queues[v] \in Keys /\ queues[v] # None /\ v # 0
<1>1. Names \subseteq Keys /\ Len(queues) \in Nat BY Slots
<1>2. queues[v] \in Keys /\ v \in 1 .. Len(queues) BY <1>1 DEF Serving, Patterns
<1> QED BY <1>1, <1>2, KeysAssumption

\* A find in the published buffer yields one of the slots.
InList == \A key \in Keys : Walk(key) \in 0 .. Len(queues)

\* What lookups rest on, from the types of the registry and from its trie.
LEMMA WalkInList ==
    ASSUME Safe
    PROVE  InList
<1> SUFFICES ASSUME NEW key \in Keys PROVE Walk(key) \in 0 .. Len(queues) BY DEF InList
<1>1. Inside(mem[abuf], Len(queues)) /\ Len(mem[abuf]) >= 1 /\ Len(queues) \in Nat
  BY Slots DEF Safe, Buffers
<1> QED BY <1>1, WalkShape

\* Neither does it yield another.
LEMMA WalkServes ==
    ASSUME Safe, NEW key \in Keys, Meets(mem[abuf], key), Walk(key) # 0
    PROVE  Serving(Walk(key), key)
<1> DEFINE B == mem[abuf]
           W == Nodes(B, key)
<1>0. Len(key) \in 0 .. Len(key) BY NameShape
<1>1. \/ W[Len(key)] # 0 /\ B[W[Len(key)]].end # 0 /\ Walk(key) = B[W[Len(key)]].end
      \/ \E m \in 0 .. Len(key) : W[m] # 0 /\ B[W[m]].std # 0 /\ Walk(key) = B[W[m]].std
  <2>1. Inside(B, Len(queues)) /\ Len(B) >= 1 /\ Len(queues) \in Nat BY Slots DEF Safe, Buffers
  <2> QED BY <2>1, WalkCases
<1>2. \A j \in 0 .. Len(key) : W[j] # 0 =>
         /\ B[W[j]].std # 0 => Serving(B[W[j]].std, key)
         /\ j = Len(key) /\ B[W[j]].end # 0 => Serving(B[W[j]].end, key)
  BY DEF Meets
<1> HIDE DEF W, B
<1> QED BY <1>0, <1>1, <1>2

LEMMA MeetingNow ==
    ASSUME Safe, Trie, Target = abuf
    PROVE  Meeting
BY MeetsNow DEF Meeting

LEMMA NamedNow ==
    ASSUME Safe, Meeting
    PROVE  Named
<1> SUFFICES ASSUME NEW key \in Keys, Walk(key) # 0 PROVE queues[Walk(key)] # None BY DEF Named
<1>1. Meets(mem[abuf], key) BY DEF Meeting
<1> QED BY <1>1, WalkServes, ServingShape

\* What is yielded depends on the published buffer only.
LEMMA WalkKept ==
    ASSUME mem'[abuf'] = mem[abuf], NEW key \in Keys
    PROVE  Walk(key)' = Walk(key)
BY DEF Walk

\* What serves a name serves it until it is deleted.
LEMMA ServingKept ==
    ASSUME Safe, Safe',
           \A j \in 1 .. Len(queues) :
              j \in 1 .. Len(queues') /\ (queues[j] # None => queues'[j] = queues[j]),
           NEW key \in Keys
    PROVE  /\ Names \subseteq Names' /\ Patterns(key) \subseteq Patterns(key)'
           /\ \A v : Serving(v, key) => Serving(v, key)'
<1>1. Names \subseteq Names'
  <2> SUFFICES ASSUME NEW n \in Names PROVE n \in Names' OBVIOUS
  <2>1. PICK j \in 1 .. Len(queues) : queues[j] = n /\ n # None BY Slots
  <2>2. j \in 1 .. Len(queues') /\ queues'[j] = n BY <2>1
  <2>3. DOMAIN queues' = 1 .. Len(queues') BY LenProperties DEF Safe, Lists
  <2> QED BY <2>1, <2>2, <2>3 DEF Names, ToSet
<1>2. Patterns(key) \subseteq Patterns(key)' BY <1>1 DEF Patterns
<1>3. ASSUME NEW v, Serving(v, key) PROVE Serving(v, key)'
  <2>1. queues[v] # None /\ v \in 1 .. Len(queues) BY <1>3, ServingShape DEF Serving
  <2> QED BY <1>2, <1>3, <2>1 DEF Serving
<1> QED BY <1>1, <1>2, <1>3

\* The list loses a name only while add has no buffer of its own.
LEMMA DropsAlone ==
    ASSUME Safe, NEW k \in Loops, DropSlot(k)
    PROVE  buf_t' = 0 /\ th[k].pc = "drop" /\ lock = k
<1>1. th[k].pc = "drop" /\ UNCHANGED trie /\ lock' = None BY DEF DropSlot
<1>2. Safe' BY SafeDropSlot
<1>3. \A j \in Loops : th'[j].pc \notin Changing BY <1>1, <1>2, KeysAssumption DEF Safe, Locked
<1>4. buf_t' = 0 BY <1>2, <1>3 DEF Safe, Locked, Changing
<1>5. lock = k BY <1>1 DEF Safe, Locked, Changing
<1> QED BY <1>1, <1>4, <1>5

\* While add has its own buffer nothing of the published one changes.
LEMMA MeetingNext ==
    ASSUME Registered, Registered', Meeting, [Next]_vars
    PROVE  Meeting'
<1> USE DEF Registered
<1>1. CASE Target' = abuf'
  <2>1. Safe' /\ Trie' /\ (Target = abuf)' BY <1>1
  <2> QED BY <2>1, MeetingNow, PTL
<1>2. CASE Target' # abuf'
  <2>1. buf_t' # 0 BY <1>2 DEF Target
  <2>2. abuf' = abuf BY <2>1, WhatChanges
  <2>3. abuf \in 1 .. Len(mem) /\ abuf # buf_t BY DEF Safe, Buffers
  <2>4. mem'[abuf] = mem[abuf] BY <2>1, <2>3, BufferStep
  <2>5. \A j \in 1 .. Len(queues) :
           j \in 1 .. Len(queues') /\ (queues[j] # None => queues'[j] = queues[j])
    BY <2>1, DropsAlone, WhatChanges
  <2>6. ASSUME NEW key \in Keys PROVE Meets(mem[abuf], key)'
    <3>1. Meets(mem[abuf], key) BY DEF Meeting
    <3>2. \A v : Serving(v, key) => Serving(v, key)' BY <2>5, ServingKept
    <3>3. PICK B : B = mem[abuf] OBVIOUS
    <3>4. Meets(B, key)' BY <3>1, <3>2, <3>3 DEF Meets
    <3> QED BY <2>2, <2>4, <3>3, <3>4 DEF Meets
  <2> QED BY <2>6 DEF Meeting
<1> QED BY <1>1, <1>2

\* A find from the start yields what a lookup does.
Starts == \A key \in Keys : Yields(mem[abuf], key, 0, 0, Walk(key))

LEMMA StartsNow ==
    ASSUME Safe
    PROVE  Starts
<1>1. Len(queues) \in Nat /\ Inside(mem[abuf], Len(queues)) /\ Len(mem[abuf]) >= 1
  BY Slots DEF Safe, Buffers
<1> QED BY <1>1, YieldsStart DEF Starts

\* If the queue that serves a name is the same, so is its slot.
LEMMA SameWalk ==
    ASSUME Registered, Registered', Named, Named', [Next]_vars, NEW key \in Keys,
           Lookup(key)' = Lookup(key)
    PROVE  Walk(key)' = Walk(key)
<1> USE DEF Registered
<1>1. CASE UNCHANGED trie BY <1>1, WalkKept DEF trie
<1>2. CASE queues' = queues
  <2>1. PICK v, w : v = Walk(key) /\ w = Walk(key)' OBVIOUS
  <2>2. v # 0 => queues[v] # None BY <2>1 DEF Named
  <2>3. w # 0 => queues[w] # None
    <3>1. Walk(key)' # 0 => (queues[Walk(key)])' # None BY DEF Named
    <3> QED BY <1>2, <2>1, <3>1
  <2>4. (IF v = 0 THEN None ELSE queues[v]) = (IF w = 0 THEN None ELSE queues[w])
    <3>1. Lookup(key) = IF v = 0 THEN None ELSE queues[v] BY <2>1 DEF Lookup
    <3>2. Lookup(key)' = IF w = 0 THEN None ELSE queues'[w] BY <2>1 DEF Lookup
    <3> QED BY <1>2, <3>1, <3>2
  <2>5. v \in 0 .. Len(queues) /\ w \in 0 .. Len(queues) /\ Len(queues) \in Nat
    <3>1. InList BY WalkInList
    <3>2. InList' BY WalkInList, PTL
    <3> QED BY <1>2, <2>1, <3>1, <3>2, Slots DEF InList
  <2>6. CASE v # 0 /\ w # 0
    <3>1. v \in 1 .. Len(queues) /\ w \in 1 .. Len(queues) BY <2>5, <2>6
    <3>2. queues[v] = queues[w] /\ queues[v] # None BY <2>2, <2>4, <2>6
    <3>3. Clash(queues[v], queues[w]) BY <3>2 DEF Clash
    <3> QED BY <2>1, <3>1, <3>2, <3>3 DEF Trie, Distinct
  <2> QED BY <2>1, <2>2, <2>3, <2>4, <2>6
<1> QED BY <1>1, <1>2, WhatChanges

-----------------------------------------------------------------------------
(* A step of another thread, or of the service *)

\* The position of a find in its buffer.
LEMMA OnTheWayShape ==
    ASSUME Safe, NEW l \in Loops, OnTheWay(th[l]), th[l].pc \in {"std", "next"}
    PROVE  LET t == th[l]
           IN  /\ t.key \in Keys /\ t.key \in Seq(Chars \cup {Star}) /\ Len(t.key) \in Nat
               /\ t.i \in 0 .. Len(t.key) /\ t.ptr \in 1 .. Len(mem) /\ t.ptr # buf_t
               /\ Finding(l) /\ Inside(mem[t.ptr], Len(queues)) /\ Len(mem[t.ptr]) \in Nat
               /\ Len(mem[t.ptr]) >= 1 /\ t.step \in 1 .. Len(mem[t.ptr])
               /\ t.step = Nodes(mem[t.ptr], t.key)[t.i] /\ t.step # 0
<1> DEFINE t == th[l]
<1>1. /\ t.key \in Keys /\ t.i <= Len(t.key) /\ t.ptr \in 1 .. Len(mem)
      /\ t.step \in 1 .. Len(mem[t.ptr]) /\ t.i \in Nat
  BY DEF Safe, Fits, Thread
<1>2. t.key \in Seq(Chars \cup {Star}) /\ Len(t.key) \in Nat BY <1>1, NameShape
<1>3. Inside(mem[t.ptr], Len(queues)) BY <1>1 DEF Safe, Buffers
<1>4. Len(mem[t.ptr]) \in Nat BY <1>3, LenProperties DEF Inside
<1>5. t.ptr # buf_t /\ t.step = Nodes(mem[t.ptr], t.key)[t.i] BY DEF OnTheWay
<1>6. Finding(l) BY DEF Finding
<1> HIDE DEF t
<1>7. t.i \in 0 .. Len(t.key) /\ Len(mem[t.ptr]) >= 1 /\ t.step # 0 BY <1>1, <1>2, <1>4
<1> QED BY <1>1, <1>2, <1>3, <1>4, <1>5, <1>6, <1>7 DEF t

\* What may happen to its buffer.
LEMMA FindStep ==
    ASSUME Safe, Safe', [Next]_vars, NEW l \in Loops, OnTheWay(th[l]), th[l].pc \in {"std", "next"}
    PROVE  LET p == th[l].ptr
           IN  /\ p # buf_t' /\ Inside(mem'[p], Len(queues'))
               /\ \/ mem'[p] = mem[p]
                  \/ /\ p = abuf /\ abuf' = abuf /\ Target = abuf /\ Target' = abuf' /\ queues' = queues
                     /\ \/ Grows(mem[p], mem'[p])
                        \/ lock = None /\ Clears(mem[p], mem'[p])
<1>1. PICK p : p = th[l].ptr OBVIOUS
<1>2. p \in 1 .. Len(mem) /\ p # buf_t /\ Finding(l) BY <1>1, OnTheWayShape
<1>3. /\ p \in 1 .. Len(mem') /\ p # buf_t'
      /\ \/ mem'[p] = mem[p]
         \/ /\ p = abuf /\ abuf' = abuf /\ buf_t = 0 /\ buf_t' = 0 /\ queues' = queues
            /\ \/ Grows(mem[p], mem'[p])
               \/ lock = None /\ Clears(mem[p], mem'[p])
  BY <1>1, <1>2, BufferStep
<1>4. Inside(mem'[p], Len(queues')) BY <1>3 DEF Safe, Buffers
<1> QED BY <1>1, <1>3, <1>4 DEF Target

\* The find stays on its way, because links only come.
LEMMA OnTheWayKept ==
    ASSUME Safe, Safe', [Next]_vars, NEW l \in Loops, th'[l] = th[l], OnTheWay(th[l])
    PROVE  OnTheWay(th[l])'
<1>1. PICK t : t = th[l] OBVIOUS
<1>2. CASE t.pc \notin {"std", "next"}
  <2>1. CASE t.pc # "publish" BY <1>1, <1>2, <2>1 DEF OnTheWay
  <2>2. CASE t.pc = "publish"
    <3>1. lock = l /\ t.key \in Names BY <1>1, <2>2 DEF Safe, Locked, Changing, OnTheWay
    <3>2. \A k \in Loops : ~DropSlot(k) BY <1>1, <2>2, <3>1, DropsAlone
    <3>3. t.key \in Keys BY <1>1, <2>2 DEF OnTheWay
    <3>4. Names \subseteq Names' BY <3>2, <3>3, WhatChanges, ServingKept
    <3> QED BY <1>1, <2>2, <3>1, <3>3, <3>4 DEF OnTheWay
  <2> QED BY <2>1, <2>2
<1>3. CASE t.pc \in {"std", "next"}
  <2>1. /\ t.key \in Seq(Chars \cup {Star}) /\ t.i \in 0 .. Len(t.key)
        /\ Inside(mem[t.ptr], Len(queues)) /\ Len(mem[t.ptr]) >= 1
        /\ t.step = Nodes(mem[t.ptr], t.key)[t.i] /\ t.step # 0
    BY <1>1, <1>3, OnTheWayShape
  <2>2. /\ t.ptr # buf_t' /\ Inside(mem'[t.ptr], Len(queues'))
        /\ mem'[t.ptr] = mem[t.ptr] \/ Linked(mem[t.ptr], mem'[t.ptr]) \/ Clears(mem[t.ptr], mem'[t.ptr])
    BY <1>1, <1>3, FindStep DEF Grows
  <2>3. PICK B, C : B = mem[t.ptr] /\ C = mem'[t.ptr] OBVIOUS
  <2>4. Nodes(C, t.key)[t.i] = t.step
    <3>1. CASE B = C BY <2>1, <2>3, <3>1
    <3>2. CASE Linked(B, C) BY <2>1, <2>2, <2>3, <3>2, NodesGrow
    <3>3. CASE Clears(B, C) BY <2>1, <2>2, <2>3, <3>3, NodesClear
    <3> QED BY <2>2, <2>3, <3>1, <3>2, <3>3
  <2> QED BY <1>1, <1>3, <2>2, <2>3, <2>4 DEF OnTheWay
<1> QED BY <1>2, <1>3

\* It is going to return what it was, if that is still the queue that serves.
LEMMA TellsKept ==
    ASSUME Registered, Registered', Named, Named', [Next]_vars, NEW l \in Loops, th'[l] = th[l],
           OnTheWay(th[l]), Tells(th[l]), th[l].pc \notin {"idle", "drop"},
           Lookup(th[l].key)' = Lookup(th[l].key), th[l].pc = "read" => vcap' = vcap
    PROVE  Tells(th[l])'
<1> USE DEF Registered
<1>1. PICK t : t = th[l] OBVIOUS
<1>2. t.key \in Keys BY <1>1 DEF OnTheWay
<1>3. Lookup(t.key)' = Lookup(t.key) BY <1>1, ZenonT(40) DEF Lookup, Walk
<1>4. Walk(t.key)' = Walk(t.key) BY <1>2, <1>3, SameWalk
<1>5. CASE t.pc \notin {"std", "next"} BY <1>1, <1>3, <1>4, <1>5 DEF Tells
<1>6. CASE t.pc \in {"std", "next"}
  <2>1. /\ t.i \in 0 .. Len(t.key) /\ Len(t.key) \in Nat
        /\ Inside(mem[t.ptr], Len(queues)) /\ Len(mem[t.ptr]) >= 1
    BY <1>1, <1>6, OnTheWayShape
  <2>2. /\ Inside(mem'[t.ptr], Len(queues'))
        /\ \/ mem'[t.ptr] = mem[t.ptr]
           \/ /\ t.ptr = abuf /\ abuf' = abuf /\ Target = abuf
              /\ Grows(mem[t.ptr], mem'[t.ptr]) \/ Clears(mem[t.ptr], mem'[t.ptr])
    BY <1>1, <1>6, FindStep
  <2>3. PICK B, C, w, f : B = mem[t.ptr] /\ C = mem'[t.ptr] /\ w = Walk(t.key) /\ f = From(t) OBVIOUS
  <2>4. f \in Nat BY <2>1, <2>3 DEF From
  <2>5. Yields(B, t.key, f, t.std, w) BY <1>1, <1>6, <2>3 DEF Tells
  <2>6. Yields(C, t.key, f, t.std, w)
    <3>1. CASE B = C BY <2>5, <3>1
    <3>2. CASE /\ t.ptr = abuf /\ abuf' = abuf /\ Target = abuf
               /\ Grows(B, C) \/ Clears(B, C)
      <4>1. Starts'
        <5>1. Safe' OBVIOUS
        <5> QED BY <5>1, StartsNow, PTL
      <4>2. Yields(C, t.key, 0, 0, w)
        BY <1>2, <1>4, <2>3, <3>2, <4>1 DEF Starts, Yields
      <4>3. CASE Grows(B, C) BY <1>2, <2>1, <2>2, <2>3, <2>4, <2>5, <4>2, <4>3, YieldsGrow
      <4>4. CASE Clears(B, C) BY <1>2, <2>2, <2>3, <2>4, <2>5, <3>2, <4>2, <4>4, YieldsClear
      <4> QED BY <3>2, <4>3, <4>4
    <3> QED BY <2>2, <2>3, <3>1, <3>2
  <2> QED BY <1>1, <1>3, <1>4, <1>6, <2>3, <2>6 DEF Tells, From
<1> QED BY <1>5, <1>6

\* It is going to return a queue that serves the name, if nothing is deleted.
LEMMA ServesKept ==
    ASSUME Registered, Registered', Meeting', [Next]_vars, NEW l \in Loops, th'[l] = th[l],
           OnTheWay(th[l]), Serves(th[l]), th[l].pc \notin {"idle", "drop"},
           \A k \in Loops : th'[k].pc # "drop", th[l].pc = "read" => vcap' = vcap
    PROVE  Serves(th[l])'
<1> USE DEF Registered
<1>1. PICK t : t = th[l] OBVIOUS
<1>2. t.key \in Keys BY <1>1 DEF OnTheWay
<1>3. CASE \E k \in Loops : DropSlot(k)
  <2>1. PICK k \in Loops : DropSlot(k) BY <1>3
  <2>2. th[k].pc = "drop" /\ buf_t' = 0 /\ abuf' = abuf BY <2>1, DropsAlone DEF DropSlot, trie
  <2>3. t.pc = "std" /\ t.i = 0 /\ t.std = 0 /\ t.ptr = abuf BY <1>1, <2>2 DEF Serves
  <2>4. Meets(mem[abuf], t.key)' BY <1>2 DEF Meeting
  <2> QED BY <1>1, <2>2, <2>3, <2>4 DEF Serves, Meets
<1>4. CASE \A k \in Loops : ~DropSlot(k)
  <2>1. /\ Patterns(t.key) \subseteq Patterns(t.key)'
        /\ \A v : Serving(v, t.key) => Serving(v, t.key)'
    BY <1>2, <1>4, WhatChanges, ServingKept
  <2>2. CASE t.pc \notin {"std", "next"} BY <1>1, <2>1, <2>2 DEF Serves
  <2>3. CASE t.pc \in {"std", "next"}
    <3>1. t.std # 0 => Serving(t.std, t.key)' BY <1>1, <2>1, <2>3 DEF Serves
    <3>2. PICK C : C = mem'[t.ptr] OBVIOUS
    <3>3. Meets(C, t.key)'
      <4>1. CASE t.ptr = abuf'
        <5>1. Meets(mem[abuf], t.key)' BY <1>2 DEF Meeting
        <5> QED BY <3>2, <4>1, <5>1 DEF Meets
      <4>2. CASE t.ptr # abuf'
        <5>1. C = mem[t.ptr] BY <1>1, <2>3, <3>2, <4>2, FindStep
        <5>2. Meets(C, t.key) BY <1>1, <2>3, <5>1 DEF Serves
        <5> QED BY <2>1, <5>2 DEF Meets
      <4> QED BY <4>1, <4>2
    <3> QED BY <1>1, <2>3, <3>1, <3>2, <3>3 DEF Serves, Meets
  <2> QED BY <2>2, <2>3
<1> QED BY <1>3, <1>4

-----------------------------------------------------------------------------
(* A step of the thread itself *)

Right(l) ==
    /\ OnTheWay(th[l])
    /\ th[l].pc \notin {"idle", "drop"} =>
          (stable[l] => Tells(th[l])) /\ (quiet[l] => Serves(th[l]))

\* The invariant: the trie as it has to be, and every thread on its way.
Returning == Registered /\ Meeting /\ \A l \in Loops : Right(l)

\* What a step of l has to show, besides where it leads: what the history says
\* of the name.
LEMMA Before ==
    ASSUME Returning, Registered', Meeting', [Next]_vars, History, NEW l \in Loops,
           th[l].pc \notin {"idle", "drop"}, NEW key, th[l].key = key, th'[l].key = key,
           th'[l].pc # "drop", \A k \in Loops : k # l => th'[k] = th[k]
    PROVE  /\ key \in Keys
           /\ stable'[l] => Tells(th[l]) /\ Lookup(key)' = Lookup(key) /\ Walk(key)' = Walk(key)
           /\ quiet'[l] => Serves(th[l]) /\ \A k \in Loops : th'[k].pc # "drop"
<1>1. OnTheWay(th[l]) BY DEF Returning, Right
<1>2. key \in Keys BY <1>1 DEF OnTheWay
<1>3. ASSUME stable'[l]
      PROVE  Tells(th[l]) /\ Lookup(key)' = Lookup(key) /\ Walk(key)' = Walk(key)
  <2>1. stable[l] /\ Lookup(th[l].key)' = Lookup(th[l].key) BY <1>3 DEF History
  <2>2. Lookup(key)' = Lookup(key)
    <3>1. th'[l].key = key OBVIOUS
    <3>2. Lookup(th[l].key)' = Lookup(key) BY <2>1
    <3> QED BY <3>1, <3>2, ZenonT(40) DEF Lookup, Walk
  <2>3. Named BY NamedNow DEF Returning, Registered
  <2>4. Named'
    <3>1. Safe' /\ Meeting' BY DEF Registered
    <3> QED BY <3>1, NamedNow, PTL
  <2>5. Walk(key)' = Walk(key) BY <1>2, <2>2, <2>3, <2>4, SameWalk DEF Returning
  <2> QED BY <2>1, <2>2, <2>5 DEF Returning, Right
<1>4. ASSUME quiet'[l] PROVE Serves(th[l]) /\ \A k \in Loops : th'[k].pc # "drop"
  <2>1. quiet[l] /\ \A k \in Loops : th'[k].op # "delete" BY <1>4 DEF History
  <2>2. \A k \in Loops : OnTheWay(th[k]) BY DEF Returning, Right
  <2>3. \A k \in Loops : th'[k].pc # "drop" BY <2>1, <2>2 DEF OnTheWay
  <2> QED BY <2>1, <2>3 DEF Returning, Right
<1> QED BY <1>2, <1>3, <1>4

\* While neither the trie nor the list changes, nothing of it does.
LEMMA SameTrie ==
    ASSUME UNCHANGED <<trie, queues>>, NEW key, NEW B
    PROVE  /\ Walk(key)' = Walk(key) /\ Lookup(key)' = Lookup(key) /\ Patterns(key)' = Patterns(key)
           /\ \A v : Serving(v, key)' <=> Serving(v, key)
           /\ Meets(B, key)' <=> Meets(B, key)
<1>1. UNCHANGED <<mem, abuf, queues>> BY DEF trie
<1>2. Walk(key)' = Walk(key) BY <1>1 DEF Walk
<1>3. Lookup(key)' = Lookup(key) BY <1>1, <1>2 DEF Lookup
<1>4. Patterns(key)' = Patterns(key) BY <1>1 DEF Patterns, Names, ToSet
<1>5. \A v : Serving(v, key)' <=> Serving(v, key) BY <1>1, <1>4 DEF Serving
<1>6. Meets(B, key)' <=> Meets(B, key) BY <1>5 DEF Meets
<1> QED BY <1>2, <1>3, <1>4, <1>5, <1>6

\* The find begins.
LEMMA RightGetQueue ==
    ASSUME Returning, Registered', Meeting', NEW l \in Loops, NEW op, NEW key \in Keys,
           GetQueue(l, op, key)
    PROVE  Right(l)'
<1>1. Safe /\ th \in [Loops -> Thread] BY DEF Returning, Registered, Safe
<1>2. PICK u : u = th'[l] OBVIOUS
<1>3. /\ u = [Idle EXCEPT !.pc = "std", !.op = op, !.key = key, !.ptr = abuf, !.step = 1,
                          !.want = Lookup(key)]
      /\ UNCHANGED <<trie, queues>>
  BY <1>1, <1>2 DEF GetQueue
<1>4. /\ u.pc = "std" /\ u.key = key /\ u.ptr = abuf /\ u.step = 1 /\ u.i = 0 /\ u.std = 0
      /\ u.want = Lookup(key) /\ u.got = None
  BY <1>3 DEF Idle
<1>5. UNCHANGED <<mem, abuf, buf_t>> BY <1>3 DEF trie
<1>6. OnTheWay(th[l])'
  <2>1. abuf # buf_t BY <1>1 DEF Safe, Buffers
  <2>2. Nodes(mem[abuf], key)[0] = 1
    <3>1. Inside(mem[abuf], Len(queues)) /\ Len(mem[abuf]) >= 1 BY <1>1 DEF Safe, Buffers
    <3>2. key \in Seq(Chars \cup {Star}) BY NameShape
    <3> QED BY <3>1, <3>2, NodesShape
  <2> QED BY <1>2, <1>4, <1>5, <2>1, <2>2 DEF OnTheWay
<1>7. Walk(key)' = Walk(key) /\ Lookup(key)' = Lookup(key) BY <1>3, SameTrie
<1>8. Tells(th[l])'
  <2>1. Yields(mem[abuf], key, 0, 0, Walk(key)) BY <1>1, StartsNow DEF Starts
  <2> QED BY <1>2, <1>4, <1>5, <1>7, <2>1 DEF Tells, From, Changing
<1>9. Serves(th[l])'
  <2>1. PICK B : B = mem[abuf] OBVIOUS
  <2>2. Meets(B, key) BY <2>1 DEF Returning, Meeting
  <2>3. Meets(B, key)' BY <1>3, <2>2, SameTrie
  <2> QED BY <1>2, <1>4, <1>5, <2>1, <2>3 DEF Serves
<1> QED BY <1>6, <1>8, <1>9 DEF Right

\* It reads the pattern of its node.
LEMMA RightReadStd ==
    ASSUME Returning, Registered', Meeting', [Next]_vars, History, NEW l \in Loops, ReadStd(l)
    PROVE  Right(l)'
<1>0. Safe /\ th \in [Loops -> Thread] /\ OnTheWay(th[l])
  BY DEF Returning, Registered, Safe, Right
<1>1. PICK t, u, key, B, s : /\ t = th[l] /\ u = th'[l] /\ key = t.key /\ B = mem[t.ptr]
                             /\ s = B[t.step].std
  OBVIOUS
<1>2. /\ t.pc = "std" /\ UNCHANGED <<trie, queues, vcap>>
      /\ u = [t EXCEPT !.pc = "next", !.std = IF s # 0 THEN s ELSE @]
      /\ t \in Thread
  BY <1>0, <1>1 DEF ReadStd
<1>3. /\ u.pc = "next" /\ u.key = key /\ u.ptr = t.ptr /\ u.step = t.step /\ u.i = t.i
      /\ u.want = t.want /\ u.got = t.got /\ u.std = IF s # 0 THEN s ELSE t.std
  BY <1>1, <1>2 DEF Thread
<1>4. \A k \in Loops : k # l => th'[k] = th[k] BY <1>0 DEF ReadStd
<1>5. /\ key \in Keys /\ key \in Seq(Chars \cup {Star}) /\ Len(key) \in Nat
      /\ t.i \in 0 .. Len(key) /\ t.ptr # buf_t /\ t.got = None
      /\ t.step = Nodes(B, key)[t.i] /\ t.step # 0
  BY <1>0, <1>1, <1>2, OnTheWayShape DEF OnTheWay
<1>6. UNCHANGED <<mem, abuf, buf_t>> BY <1>2 DEF trie
<1>7. OnTheWay(th[l])' BY <1>1, <1>3, <1>5, <1>6 DEF OnTheWay
<1>8. /\ stable'[l] => Tells(th[l]) /\ Lookup(key)' = Lookup(key) /\ Walk(key)' = Walk(key)
      /\ quiet'[l] => Serves(th[l]) /\ \A k \in Loops : th'[k].pc # "drop"
  <2>1. /\ th[l].pc \notin {"idle", "drop"} /\ th[l].key = key
        /\ th'[l].key = key /\ th'[l].pc # "drop"
    BY <1>1, <1>2, <1>3
  <2> QED BY <1>4, <2>1, Before
<1>9. ASSUME stable'[l] PROVE Tells(th[l])'
  <2>1. PICK w : w = Walk(key) OBVIOUS
  <2>2. Yields(B, key, t.i, t.std, w) /\ Lookup(key) = t.want
    BY <1>1, <1>2, <1>8, <1>9, <2>1 DEF Tells, From
  <2>3. Yields(B, key, t.i + 1, u.std, w)
    <3>1. t.i \in 0 .. Len(key) /\ Nodes(B, key)[t.i] # 0 BY <1>5
    <3>2. u.std = IF B[Nodes(B, key)[t.i]].std # 0 THEN B[Nodes(B, key)[t.i]].std ELSE t.std
      BY <1>1, <1>3, <1>5
    <3> QED BY <1>5, <2>2, <3>1, <3>2, YieldsReadStd
  <2> QED BY <1>1, <1>3, <1>6, <1>8, <1>9, <2>1, <2>2, <2>3 DEF Tells, From, Changing
<1>10. ASSUME quiet'[l] PROVE Serves(th[l])'
  <2>1. (t.std # 0 => Serving(t.std, key)) /\ Meets(B, key) BY <1>1, <1>2, <1>8, <1>10 DEF Serves
  <2>2. s # 0 => Serving(s, key) BY <1>1, <1>5, <2>1 DEF Meets
  <2>3. u.std # 0 => Serving(u.std, key)' BY <1>2, <1>3, <2>1, <2>2, SameTrie
  <2>4. Meets(B, key)' BY <1>2, <2>1, SameTrie
  <2> QED BY <1>1, <1>3, <1>6, <1>8, <1>10, <2>3, <2>4 DEF Serves
<1> QED BY <1>7, <1>9, <1>10 DEF Right

\* It goes to the next node, or has ended and knows what it yields.
LEMMA RightReadNext ==
    ASSUME Returning, Registered', Meeting', [Next]_vars, History, NEW l \in Loops, ReadNext(l)
    PROVE  Right(l)'
<1>0. Safe /\ th \in [Loops -> Thread] /\ OnTheWay(th[l])
  BY DEF Returning, Registered, Safe, Right
<1>1. PICK t, u, key, B, v : /\ t = th[l] /\ u = th'[l] /\ key = t.key /\ B = mem[t.ptr]
                             /\ v = IF t.i >= Len(key)
                                    THEN IF B[t.step].end # 0 THEN B[t.step].end ELSE t.std
                                    ELSE t.std
  OBVIOUS
<1>2. t.pc = "next" /\ UNCHANGED <<trie, queues, vcap>> /\ t \in Thread
  BY <1>0, <1>1 DEF ReadNext
<1>3. /\ key \in Keys /\ key \in Seq(Chars \cup {Star}) /\ Len(key) \in Nat
      /\ t.i \in 0 .. Len(key) /\ t.ptr # buf_t /\ t.got = None /\ Inside(B, Len(queues))
      /\ Len(B) >= 1 /\ t.step = Nodes(B, key)[t.i] /\ t.step # 0
  BY <1>0, <1>1, <1>2, OnTheWayShape DEF OnTheWay
<1>4. UNCHANGED <<mem, abuf, buf_t>> BY <1>2 DEF trie
<1>5. PICK next : next = IF key[t.i + 1] = Star THEN 0 ELSE B[t.step].k[key[t.i + 1]] OBVIOUS
<1>6. \/ /\ t.i < Len(key) /\ next # 0
         /\ th' = [th EXCEPT ![l].pc = "std", ![l].i = @ + 1, ![l].step = next]
      \/ /\ t.i >= Len(key) \/ next = 0
         /\ th' = Found(l, v)
  <2>1. /\ t.i >= Len(key) =>
              th' = Found(l, IF B[t.step].end # 0 THEN B[t.step].end ELSE t.std)
        /\ ~(t.i >= Len(key)) /\ next = 0 => th' = Found(l, t.std)
        /\ ~(t.i >= Len(key)) /\ next # 0 =>
              th' = [th EXCEPT ![l].pc = "std", ![l].i = @ + 1, ![l].step = next]
    BY <1>1, <1>5 DEF ReadNext, NotFound
  <2>2. t.i < Len(key) <=> ~(t.i >= Len(key)) BY <1>3
  <2>3. /\ t.i >= Len(key) => v = IF B[t.step].end # 0 THEN B[t.step].end ELSE t.std
        /\ ~(t.i >= Len(key)) => v = t.std
    BY <1>1
  <2> QED BY <2>1, <2>2, <2>3
<1>7. ASSUME t.i < Len(key) PROVE t.i + 1 \in 0 .. Len(key) /\ Nodes(B, key)[t.i + 1] = next
  <2>1. t.i + 1 \in 1 .. Len(key) /\ t.i + 1 - 1 = t.i /\ t.i + 1 \in 0 .. Len(key) BY <1>3, <1>7
  <2>2. \A d \in 1 .. Len(key) :
           Nodes(B, key)[d] = IF Nodes(B, key)[d - 1] = 0 \/ key[d] = Star THEN 0
                              ELSE B[Nodes(B, key)[d - 1]].k[key[d]]
    BY <1>3, NodesShape
  <2> QED BY <1>3, <1>5, <2>1, <2>2
<1>8. /\ u.key = key /\ u.pc \in {"std", "slot", "lock", "done"}
      /\ \A k \in Loops : k # l => th'[k] = th[k]
  <2>1. CASE th' = [th EXCEPT ![l].pc = "std", ![l].i = @ + 1, ![l].step = next]
    BY <1>0, <1>1, <1>2, <2>1 DEF Thread
  <2>2. CASE th' = Found(l, v) BY <1>0, <1>1, <1>2, <2>2 DEF Found, Thread
  <2> QED BY <1>6, <2>1, <2>2
<1>9. /\ stable'[l] => Tells(th[l]) /\ Lookup(key)' = Lookup(key) /\ Walk(key)' = Walk(key)
      /\ quiet'[l] => Serves(th[l]) /\ \A k \in Loops : th'[k].pc # "drop"
  <2>1. /\ th[l].pc \notin {"idle", "drop"} /\ th[l].key = key
        /\ th'[l].key = key /\ th'[l].pc # "drop"
    BY <1>1, <1>2, <1>8
  <2> QED BY <1>8, <2>1, Before
<1>10. PICK w : w = Walk(key) OBVIOUS
<1>11. stable'[l] => Yields(B, key, t.i + 1, t.std, w) /\ Lookup(key) = t.want
  BY <1>1, <1>2, <1>9, <1>10 DEF Tells, From
<1>12. quiet'[l] => (t.std # 0 => Serving(t.std, key)) /\ Meets(B, key)
  BY <1>1, <1>2, <1>9 DEF Serves
<1>13. CASE th' = [th EXCEPT ![l].pc = "std", ![l].i = @ + 1, ![l].step = next] /\ t.i < Len(key)
  <2>1. /\ u.pc = "std" /\ u.ptr = t.ptr /\ u.step = next /\ u.i = t.i + 1 /\ u.std = t.std
        /\ u.want = t.want /\ u.got = t.got
    BY <1>0, <1>1, <1>2, <1>13 DEF Thread
  <2>2. OnTheWay(th[l])' BY <1>1, <1>3, <1>4, <1>7, <1>8, <1>13, <2>1 DEF OnTheWay
  <2>3. stable'[l] => Tells(th[l])'
    BY <1>1, <1>4, <1>8, <1>9, <1>10, <1>11, <2>1 DEF Tells, From, Changing
  <2>4. quiet'[l] => Serves(th[l])'
    <3>1. quiet'[l] => (u.std # 0 => Serving(u.std, key)') /\ Meets(B, key)'
      BY <1>2, <1>12, <2>1, SameTrie
    <3> QED BY <1>1, <1>4, <1>8, <1>9, <2>1, <3>1 DEF Serves
  <2> QED BY <2>2, <2>3, <2>4 DEF Right
<1>14. CASE th' = Found(l, v) /\ (t.i >= Len(key) \/ next = 0)
  <2>1. /\ u.n = v /\ u.want = t.want /\ u.got = None /\ u.op = t.op
        /\ u.pc = IF v # 0 THEN "slot" ELSE IF t.op = "create" THEN "lock" ELSE "done"
    BY <1>0, <1>1, <1>2, <1>3, <1>14 DEF Found, Thread
  <2>2. OnTheWay(th[l])' BY <1>1, <1>3, <1>8, <2>1 DEF OnTheWay
  <2>3. ASSUME stable'[l] PROVE Tells(th[l])'
    <3>1. w = v
      <4>1. CASE t.i >= Len(key)
        <5>1. t.i = Len(key) BY <1>3, <4>1
        <5>2. Yields(B, key, Len(key) + 1, t.std, w) BY <1>11, <2>3, <5>1
        <5>3. Nodes(B, key)[Len(key)] = t.step BY <1>3, <5>1
        <5>4. w = IF B[t.step].end # 0 THEN B[t.step].end ELSE t.std
          BY <1>3, <5>2, <5>3, YieldsEnd
        <5> QED BY <1>1, <4>1, <5>4
      <4>2. CASE t.i < Len(key)
        <5>1. next = 0 BY <1>3, <1>14, <4>2
        <5>2. Nodes(B, key)[t.i + 1] = 0 /\ t.i + 1 \in 0 .. Len(key) BY <1>7, <4>2, <5>1
        <5>3. w = t.std BY <1>3, <1>11, <2>3, <5>2, YieldsDeadEnd
        <5>4. ~(t.i >= Len(key)) BY <1>3, <4>2
        <5> QED BY <1>1, <5>3, <5>4
      <4> QED BY <1>3, <4>1, <4>2
    <3>2. v = 0 => u.want = None BY <1>10, <1>11, <2>1, <2>3, <3>1 DEF Lookup
    <3>3. Walk(key)' = v /\ Lookup(key)' = u.want BY <1>9, <1>10, <1>11, <2>1, <2>3, <3>1
    <3> QED BY <1>1, <1>8, <2>1, <3>2, <3>3 DEF Tells, Changing
  <2>4. ASSUME quiet'[l] PROVE Serves(th[l])'
    <3>1. v # 0 => Serving(v, key)
      <4>1. t.i >= Len(key) => t.i = Len(key) BY <1>3
      <4> QED BY <1>1, <1>3, <1>12, <2>4, <4>1 DEF Meets
    <3>2. v # 0 => Serving(v, key)' BY <1>2, <3>1, SameTrie
    <3> QED BY <1>1, <1>8, <1>9, <2>1, <2>4, <3>2 DEF Serves
  <2> QED BY <2>2, <2>3, <2>4 DEF Right
<1> QED BY <1>6, <1>13, <1>14

\* It reads the address of the list, and the slot.
LEMMA RightReadSlot ==
    ASSUME Returning, Registered', Meeting', [Next]_vars, History, NEW l \in Loops,
           ReadBase(l) \/ ReadSlot(l)
    PROVE  Right(l)'
<1>0. Safe /\ th \in [Loops -> Thread] /\ OnTheWay(th[l]) /\ Fits(l, th[l])
  BY DEF Returning, Registered, Safe, Right
<1>1. PICK t, u, key : t = th[l] /\ u = th'[l] /\ key = t.key OBVIOUS
<1>2. /\ t.pc \in {"slot", "read"} /\ UNCHANGED <<trie, queues, vcap>> /\ t \in Thread
      /\ \A k \in Loops : k # l => th'[k] = th[k]
  BY <1>0, <1>1 DEF ReadBase, ReadSlot
<1>3. /\ u.key = key /\ u.want = t.want /\ u.op = t.op
      /\ \/ t.pc = "slot" /\ u.pc = "read" /\ u.base = vcap /\ u.n = t.n
         \/ t.pc = "read" /\ u.pc = "done" /\ (t.base = vcap => u.got = queues[t.n])
  <2>1. CASE ReadBase(l) BY <1>0, <1>1, <1>2, <2>1 DEF ReadBase, Thread
  <2>2. CASE ReadSlot(l)
    <3>1. PICK q :
             /\ t.base = vcap => q = queues[t.n]
             /\ th' = [th EXCEPT ![l].pc = "done", ![l].got = q, ![l].n = 0, ![l].base = 0]
      BY <1>1, <2>2 DEF ReadSlot
    <3>2. t.pc = "read" BY <1>1, <2>2 DEF ReadSlot
    <3> QED BY <1>0, <1>1, <1>2, <3>1, <3>2 DEF Thread
  <2> QED BY <2>1, <2>2
<1>4. key \in Keys /\ t.n # 0 BY <1>0, <1>1, <1>2 DEF OnTheWay, Fits
<1>5. OnTheWay(th[l])' BY <1>1, <1>3, <1>4 DEF OnTheWay
<1>6. /\ stable'[l] => Tells(th[l]) /\ Lookup(key)' = Lookup(key) /\ Walk(key)' = Walk(key)
      /\ quiet'[l] => Serves(th[l]) /\ \A k \in Loops : th'[k].pc # "drop"
  <2>1. /\ th[l].pc \notin {"idle", "drop"} /\ th[l].key = key
        /\ th'[l].key = key /\ th'[l].pc # "drop"
    BY <1>1, <1>2, <1>3
  <2> QED BY <1>2, <2>1, Before
<1>7. ASSUME stable'[l] PROVE Tells(th[l])'
  <2>1. /\ t.n = Walk(key) /\ Lookup(key) = t.want /\ (t.pc = "read" => t.base = vcap)
    BY <1>1, <1>2, <1>6, <1>7 DEF Tells
  <2>2. queues[t.n] = t.want BY <1>4, <2>1 DEF Lookup
  <2> QED BY <1>1, <1>2, <1>3, <1>6, <1>7, <2>1, <2>2 DEF Tells, Changing
<1>8. ASSUME quiet'[l] PROVE Serves(th[l])'
  <2>1. Serving(t.n, key) /\ (t.pc = "read" => t.base = vcap) BY <1>1, <1>2, <1>6, <1>8 DEF Serves
  <2>2. Serving(t.n, key)' /\ Patterns(key)' = Patterns(key) BY <1>2, <2>1, SameTrie
  <2>3. queues[t.n] \in {key} \cup Patterns(key) BY <2>1 DEF Serving
  <2> QED BY <1>1, <1>2, <1>3, <1>6, <1>8, <2>1, <2>2, <2>3 DEF Serves
<1> QED BY <1>5, <1>7, <1>8 DEF Right

\* It is about to change the trie: then there was no queue that serves the name.
LEMMA RightChanging ==
    ASSUME Returning, Registered', Meeting', [Next]_vars, History, NEW l \in Loops,
           th[l].pc \in {"lock", "assign", "add"}, th'[l].pc \in {"assign", "add", "publish"},
           th'[l].key = th[l].key, th'[l].want = th[l].want,
           th'[l].pc = "publish" => th[l].key \in Names',
           \A k \in Loops : k # l => th'[k] = th[k]
    PROVE  Right(l)'
<1>1. PICK t, u, key : t = th[l] /\ u = th'[l] /\ key = t.key OBVIOUS
<1>2. OnTheWay(th[l]) BY DEF Returning, Right
<1>3. key \in Keys BY <1>1, <1>2 DEF OnTheWay
<1>4. OnTheWay(th[l])' BY <1>1, <1>3 DEF OnTheWay
<1>5. /\ stable'[l] => Tells(th[l]) /\ Lookup(key)' = Lookup(key) /\ Walk(key)' = Walk(key)
      /\ quiet'[l] => Serves(th[l]) /\ \A k \in Loops : th'[k].pc # "drop"
  <2>1. /\ th[l].pc \notin {"idle", "drop"} /\ th[l].key = key
        /\ th'[l].key = key /\ th'[l].pc # "drop"
    BY <1>1
  <2> QED BY <2>1, Before
<1>6. ASSUME stable'[l] PROVE Tells(th[l])'
  <2>1. Lookup(key) = t.want /\ t.want = None BY <1>1, <1>5, <1>6 DEF Tells, Changing
  <2>2. u.key = key /\ u.want = t.want /\ u.pc \in {"assign", "add", "publish"} BY <1>1
  <2> QED BY <1>1, <1>5, <1>6, <2>1, <2>2 DEF Tells, Changing
<1>7. ASSUME quiet'[l] PROVE Serves(th[l])'
  <2>1. u.key = key /\ u.pc \in {"assign", "add", "publish"} BY <1>1
  <2> QED BY <1>1, <1>5, <1>7, <2>1 DEF Serves
<1> QED BY <1>4, <1>6, <1>7 DEF Right

\* The second find yields the queue, or there is none.
LEMMA RightLockAndFind ==
    ASSUME Returning, Registered', Meeting', [Next]_vars, History, NEW l \in Loops, LockAndFind(l)
    PROVE  Right(l)'
<1>0. Safe /\ th \in [Loops -> Thread] /\ OnTheWay(th[l])
  BY DEF Returning, Registered, Safe, Right
<1>1. PICK t, u, key, w : t = th[l] /\ u = th'[l] /\ key = t.key /\ w = Walk(key) OBVIOUS
<1>2. /\ t.pc = "lock" /\ UNCHANGED <<trie, queues>> /\ t \in Thread
      /\ \A k \in Loops : k # l => th'[k] = th[k]
  BY <1>0, <1>1 DEF LockAndFind
<1>3. key \in Keys BY <1>0, <1>1, <1>2 DEF OnTheWay
<1>4. CASE w = 0
  <2>1. th' = [th EXCEPT ![l].pc = "assign"] BY <1>1, <1>4 DEF LockAndFind, FindLocked
  <2>2. u.pc = "assign" /\ u.key = key /\ u.want = t.want BY <1>0, <1>1, <1>2, <2>1 DEF Thread
  <2> QED BY <1>1, <1>2, <2>2, RightChanging
<1>5. CASE w # 0
  <2>1. th' = [th EXCEPT ![l].pc = "done", ![l].got = queues[w]]
    BY <1>1, <1>5 DEF LockAndFind, FindLocked
  <2>2. u.pc = "done" /\ u.key = key /\ u.want = t.want /\ u.got = queues[w]
    BY <1>0, <1>1, <1>2, <2>1 DEF Thread
  <2>3. OnTheWay(th[l])' BY <1>1, <1>3, <2>2 DEF OnTheWay
  <2>4. /\ stable'[l] => Tells(th[l]) /\ Lookup(key)' = Lookup(key) /\ Walk(key)' = Walk(key)
        /\ quiet'[l] => Serves(th[l]) /\ \A k \in Loops : th'[k].pc # "drop"
    <3>1. /\ th[l].pc \notin {"idle", "drop"} /\ th[l].key = key
          /\ th'[l].key = key /\ th'[l].pc # "drop"
      BY <1>1, <1>2, <2>2
    <3> QED BY <1>2, <3>1, Before
  <2>5. ASSUME stable'[l] PROVE Tells(th[l])'
    <3>1. Lookup(key) = t.want BY <1>1, <1>2, <2>4, <2>5 DEF Tells
    <3>2. queues[w] = t.want BY <1>1, <1>5, <3>1 DEF Lookup
    <3> QED BY <1>1, <2>2, <3>2 DEF Tells, Changing
  <2>6. ASSUME quiet'[l] PROVE Serves(th[l])'
    <3>1. Meets(mem[abuf], key) BY <1>3 DEF Returning, Meeting
    <3>2. Serving(w, key) BY <1>0, <1>1, <1>3, <1>5, <3>1, WalkServes
    <3>3. queues[w] \in {key} \cup Patterns(key) BY <3>2 DEF Serving
    <3>4. Patterns(key)' = Patterns(key) BY <1>2, SameTrie
    <3> QED BY <1>1, <2>2, <2>4, <2>6, <3>3, <3>4 DEF Serves
  <2> QED BY <2>3, <2>5, <2>6 DEF Right
<1> QED BY <1>4, <1>5

\* When nobody is adding, what is in the list is found.
AllFound == Target = abuf /\ Pending = {} => \A key \in Keys \cap Names : Lookup(key) # None

LEMMA AllFoundNow ==
    ASSUME Safe, Trie, Meeting
    PROVE  AllFound
<1> SUFFICES ASSUME Target = abuf, Pending = {}, NEW key \in Keys \cap Names
             PROVE  Lookup(key) # None
  BY DEF AllFound
<1>1. PICK j \in 1 .. Len(queues) : queues[j] = key /\ key # None BY Slots
<1>2. Clash(queues[j], key) BY <1>1 DEF Clash
<1>3. Walk(key) # 0 BY <1>1, <1>2, NotFoundIsNew
<1>4. Named BY NamedNow
<1> QED BY <1>3, <1>4 DEF Lookup, Named

\* The queue is in the trie: then what serves the name is not what it was.
LEMMA RightAdded ==
    ASSUME Returning, Registered', Meeting', [Next]_vars, History, NEW l \in Loops,
           th[l].pc \in {"add", "publish"}, th'[l].pc \in {"retire", "done"},
           th'[l].key = th[l].key, th'[l].pc = "done" => th'[l].got = th[l].key,
           th[l].key \in Names', buf_t' = 0, \A k \in Loops : k # l => th'[k] = th[k]
    PROVE  Right(l)'
<1>0. Safe /\ OnTheWay(th[l]) /\ Safe' /\ Trie' BY DEF Returning, Registered, Right
<1>1. PICK t, u, key : t = th[l] /\ u = th'[l] /\ key = t.key OBVIOUS
<1>2. key \in Keys BY <1>0, <1>1 DEF OnTheWay
<1>3. u.key = key /\ u.pc \in {"retire", "done"} /\ (u.pc = "done" => u.got = key) BY <1>1
<1>4. OnTheWay(th[l])' BY <1>1, <1>2, <1>3 DEF OnTheWay
<1>5. /\ stable'[l] => Tells(th[l]) /\ Lookup(key)' = Lookup(key) /\ Walk(key)' = Walk(key)
      /\ quiet'[l] => Serves(th[l]) /\ \A k \in Loops : th'[k].pc # "drop"
  <2>1. /\ th[l].pc \notin {"idle", "drop"} /\ th[l].key = key
        /\ th'[l].key = key /\ th'[l].pc # "drop"
    BY <1>1
  <2> QED BY <2>1, Before
<1>6. Lookup(key)' # None
  <2>1. AllFound' BY <1>0, AllFoundNow, PTL
  <2>2. lock = l BY <1>0 DEF Safe, Locked, Changing
  <2>3. Pending' = {} BY <1>0, <2>2, PendingStep
  <2>4. Target' = abuf' BY DEF Target
  <2> QED BY <1>1, <1>2, <2>1, <2>3, <2>4 DEF AllFound
<1>7. ~stable'[l]
  <2> SUFFICES ASSUME stable'[l] PROVE FALSE OBVIOUS
  <2>1. Lookup(key) = t.want /\ t.want = None BY <1>1, <1>5 DEF Tells, Changing
  <2> QED BY <1>5, <1>6, <2>1
<1>8. ASSUME quiet'[l] PROVE Serves(th[l])' BY <1>1, <1>3, <1>5, <1>8 DEF Serves
<1> QED BY <1>4, <1>7, <1>8 DEF Right

\* The steps that add a queue.
LEMMA RightAdd ==
    ASSUME Returning, Registered', Meeting', [Next]_vars, History, NEW l \in Loops,
           AssignSlot(l) \/ AddChar(l) \/ AddValue(l) \/ Publish(l) \/ Retire(l)
    PROVE  Right(l)'
<1>0. /\ Safe /\ Trie /\ th \in [Loops -> Thread] /\ th[l] \in Thread /\ OnTheWay(th[l])
  BY DEF Returning, Registered, Safe, Right
<1>1. PICK t, u, key : t = th[l] /\ u = th'[l] /\ key = t.key OBVIOUS
<1>2. \A k \in Loops : k # l => th'[k] = th[k]
  <2>1. LoopStep(l) BY DEF LoopStep
  <2> QED BY <1>0, <2>1, OthersStay
<1>3. CASE AssignSlot(l)
  <2>1. t.pc = "assign" /\ u.pc = "add" /\ u.key = key /\ u.want = t.want
    BY <1>0, <1>1, <1>3 DEF AssignSlot, Thread
  <2> QED BY <1>1, <1>2, <2>1, RightChanging
<1>4. CASE AddChar(l)
  <2>1. \E n : th' = [th EXCEPT ![l].step = n, ![l].i = @ + 1] BY <1>4 DEF AddChar
  <2>2. t.pc = "add" BY <1>1, <1>4 DEF AddChar
  <2>3. u.pc = "add" /\ u.key = key /\ u.want = t.want BY <1>0, <1>1, <2>1, <2>2 DEF Thread
  <2> QED BY <1>1, <1>2, <2>2, <2>3, RightChanging
<1>5. CASE AddValue(l)
  <2>1. t.pc = "add" /\ UNCHANGED <<abuf, buf_t, queues>> BY <1>1, <1>5 DEF AddValue
  <2>2. key \in Names'
    <3>1. t.n \in 1 .. Len(queues) BY <1>0, <1>1, <1>5, AddValueEffect
    <3>2. queues[t.n] = key BY <1>0, <1>1, <2>1 DEF Trie, Adding
    <3>3. key # None BY <1>0, <1>1, <2>1, KeysAssumption DEF OnTheWay
    <3>4. key \in Names BY <1>0, <3>1, <3>2, <3>3, Slots
    <3> QED BY <2>1, <3>4 DEF Names
  <2>3. CASE buf_t = 0
    <3>1. th' = Created(l) BY <1>5, <2>3 DEF AddValue
    <3>2. u.pc = "done" /\ u.key = key /\ u.got = key BY <1>0, <1>1, <3>1 DEF Created, Thread
    <3> QED BY <1>1, <1>2, <2>1, <2>2, <2>3, <3>2, RightAdded
  <2>4. CASE buf_t # 0
    <3>1. th' = [th EXCEPT ![l].pc = "publish"] BY <1>5, <2>4 DEF AddValue
    <3>2. u.pc = "publish" /\ u.key = key /\ u.want = t.want BY <1>0, <1>1, <3>1 DEF Thread
    <3> QED BY <1>1, <1>2, <2>1, <2>2, <3>2, RightChanging
  <2> QED BY <2>3, <2>4
<1>6. CASE Publish(l)
  <2>1. t.pc = "publish" /\ buf_t' = 0 /\ queues' = queues BY <1>1, <1>6 DEF Publish
  <2>2. u.pc = "retire" /\ u.key = key BY <1>0, <1>1, <1>6 DEF Publish, Thread
  <2>3. key \in Names' BY <1>0, <1>1, <2>1 DEF OnTheWay, Names
  <2> QED BY <1>1, <1>2, <2>1, <2>2, <2>3, RightAdded
<1>7. CASE Retire(l)
  <2>1. t.pc = "retire" /\ th' = [Created(l) EXCEPT ![l].ptr = 0] BY <1>1, <1>7 DEF Retire
  <2>2. u.pc = "done" /\ u.key = key /\ u.got = key BY <1>0, <1>1, <2>1 DEF Created, Thread
  <2>3. key \in Keys BY <1>0, <1>1, <2>1 DEF OnTheWay
  <2>4. OnTheWay(th[l])' BY <1>1, <2>2, <2>3 DEF OnTheWay
  <2>5. /\ stable'[l] => Tells(th[l])
        /\ quiet'[l] => \A k \in Loops : th'[k].pc # "drop"
    <3>1. /\ th[l].pc \notin {"idle", "drop"} /\ th[l].key = key
          /\ th'[l].key = key /\ th'[l].pc # "drop"
      BY <1>1, <2>1, <2>2
    <3> QED BY <1>2, <3>1, Before
  <2>6. ~stable'[l] BY <1>1, <2>1, <2>5 DEF Tells
  <2>7. ASSUME quiet'[l] PROVE Serves(th[l])' BY <1>1, <2>2, <2>5, <2>7 DEF Serves
  <2> QED BY <2>4, <2>6, <2>7 DEF Right
<1> QED BY <1>3, <1>4, <1>5, <1>6, <1>7

-----------------------------------------------------------------------------
(* Every step *)

\* A step that leaves the thread where it is.
LEMMA RightKept ==
    ASSUME Returning, Registered', Meeting', Next, NEW l \in Loops, th'[l] = th[l],
           \A k \in Loops : OnTheWay(th[k])'
    PROVE  Right(l)'
<1> USE DEF Returning
<1>1. Registered /\ Safe /\ Safe' /\ OnTheWay(th[l]) /\ History
  BY DEF Registered, Right, Next
<1>2. CASE th[l].pc \in {"idle", "drop"} BY <1>2 DEF Right
<1>3. CASE th[l].pc \notin {"idle", "drop"}
  <2>1. ASSUME stable'[l] PROVE Tells(th[l])'
    <3>1. /\ stable[l] /\ Lookup(th[l].key)' = Lookup(th[l].key)
          /\ th[l].pc = "read" => vcap' = vcap
      BY <1>1, <1>3, <2>1 DEF History
    <3>2. Tells(th[l]) BY <1>3, <3>1 DEF Right
    <3>3. Named BY <1>1, NamedNow
    <3>4. Named' BY <1>1, NamedNow, PTL
    <3> QED BY <1>1, <1>3, <3>1, <3>2, <3>3, <3>4, TellsKept
  <2>2. ASSUME quiet'[l] PROVE Serves(th[l])'
    <3>1. /\ quiet[l] /\ \A k \in Loops : th'[k].op # "delete"
          /\ th[l].pc = "read" => vcap' = vcap
      BY <1>1, <1>3, <2>2 DEF History
    <3>2. \A k \in Loops : th'[k].pc # "drop" BY <3>1 DEF OnTheWay
    <3>3. Serves(th[l]) BY <1>3, <3>1 DEF Right
    <3> QED BY <1>1, <1>3, <3>1, <3>2, <3>3, ServesKept
  <2> QED BY <2>1, <2>2 DEF Right
<1> QED BY <1>2, <1>3

\* Its own step.
LEMMA RightStep ==
    ASSUME Returning, Registered', Meeting', Next, NEW l \in Loops, LoopStep(l)
    PROVE  Right(l)'
<1>0. th \in [Loops -> Thread] /\ History BY DEF Returning, Registered, Safe, Next
<1>1. CASE \E r \in Asked[l] : GetQueue(l, r[1], r[2])
  <2>1. PICK r \in Asked[l] : GetQueue(l, r[1], r[2]) BY <1>1
  <2>2. r[2] \in Keys BY RequestShape
  <2> QED BY <2>1, <2>2, RightGetQueue
<1>2. CASE \E r \in Asked[l] : DeleteQueue(l, r[1], r[2])
  <2>1. PICK r \in Asked[l] : DeleteQueue(l, r[1], r[2]) BY <1>2
  <2>2. th'[l].pc = "drop" /\ th'[l].op = "delete" BY <1>0, <2>1 DEF DeleteQueue, Idle
  <2> QED BY <2>2 DEF Right, OnTheWay
<1>3. CASE Return(l) \/ DropSlot(l)
  <2>1. th'[l].pc = "idle" BY <1>0, <1>3 DEF Return, DropSlot, Idle
  <2> QED BY <2>1 DEF Right, OnTheWay
<1>4. CASE ReadStd(l) BY <1>0, <1>4, RightReadStd
<1>5. CASE ReadNext(l) BY <1>0, <1>5, RightReadNext
<1>6. CASE ReadBase(l) \/ ReadSlot(l) BY <1>0, <1>6, RightReadSlot
<1>7. CASE LockAndFind(l) BY <1>0, <1>7, RightLockAndFind
<1>8. CASE AssignSlot(l) \/ AddChar(l) \/ AddValue(l) \/ Publish(l) \/ Retire(l)
  BY <1>0, <1>8, RightAdd
<1> QED BY <1>1, <1>2, <1>3, <1>4, <1>5, <1>6, <1>7, <1>8 DEF LoopStep

\* One case for each kind of step: what it does to the trie, to the loop that
\* makes it and to the others.
LEMMA ReturningNext ==
    ASSUME Returning, Next
    PROVE  Returning'
<1> USE DEF Returning
<1>1. Registered' BY SafeNext, TrieNext DEF Registered
<1>2. Meeting' BY <1>1, MeetingNext
<1>3. Safe /\ Safe' /\ \A l \in Loops : OnTheWay(th[l]) BY <1>1 DEF Registered, Right
<1>4. CASE \E l \in Loops : LoopStep(l)
  <2>1. PICK l \in Loops : LoopStep(l) BY <1>4
  <2>2. \A k \in Loops \ {l} : th'[k] = th[k] BY <1>3, <2>1, OthersStay
  <2>3. Right(l)' BY <1>1, <1>2, <2>1, RightStep
  <2>4. \A k \in Loops : OnTheWay(th[k])'
    <3>1. \A k \in Loops \ {l} : OnTheWay(th[k])' BY <1>3, <2>2, OnTheWayKept
    <3> QED BY <2>3, <3>1 DEF Right
  <2>5. \A k \in Loops \ {l} : Right(k)' BY <1>1, <1>2, <2>2, <2>4, RightKept
  <2> QED BY <1>1, <1>2, <2>3, <2>5
<1>5. CASE TakeList \/ Free
  <2>1. th' = th BY <1>5 DEF TakeList, Free
  <2>2. \A k \in Loops : OnTheWay(th[k])' BY <1>3, <2>1, OnTheWayKept
  <2> QED BY <1>1, <1>2, <2>1, <2>2, RightKept
<1> QED BY <1>4, <1>5 DEF Next

\* No step, and the first state.
LEMMA ReturningStays ==
    ASSUME Returning, UNCHANGED vars
    PROVE  Returning'
<1> USE DEF Returning
<1>1. /\ UNCHANGED <<trie, queues>> /\ UNCHANGED <<mem, abuf, buf_t, vcap>>
      /\ th' = th /\ stable' = stable /\ quiet' = quiet
  BY DEF vars, trie
<1>2. Registered' BY SafeNext, TrieNext DEF Registered
<1>3. Meeting' BY <1>2, MeetingNext
<1>4. ASSUME NEW l \in Loops PROVE Right(l)'
  <2>1. PICK t, B : t = th[l] /\ B = mem[t.ptr] OBVIOUS
  <2>2. Safe /\ Safe' /\ OnTheWay(th[l]) BY <1>2 DEF Registered, Right
  <2>3. OnTheWay(th[l])' BY <1>1, <2>2, OnTheWayKept
  <2>4. /\ Walk(t.key)' = Walk(t.key) /\ Lookup(t.key)' = Lookup(t.key)
        /\ Patterns(t.key)' = Patterns(t.key)
        /\ \A v : Serving(v, t.key)' <=> Serving(v, t.key)
        /\ Meets(B, t.key)' <=> Meets(B, t.key)
    BY <1>1, SameTrie
  <2>5. Tells(th[l]) => Tells(th[l])' BY <1>1, <2>1, <2>4 DEF Tells, Changing, From
  <2>6. Serves(th[l]) => Serves(th[l])' BY <1>1, <2>1, <2>4 DEF Serves
  <2> QED BY <1>1, <2>1, <2>3, <2>5, <2>6 DEF Right
<1> QED BY <1>2, <1>3, <1>4

LEMMA ReturningInit == Init => Returning
<1> SUFFICES ASSUME Init PROVE Returning OBVIOUS
<1>1. Registered BY SafeInit, TrieInit DEF Registered
<1>2. Target = abuf /\ th = [l \in Loops |-> Idle] BY DEF Init, Target
<1>3. Meeting BY <1>1, <1>2, MeetingNow DEF Registered
<1>4. \A l \in Loops : Right(l) BY <1>2 DEF Right, OnTheWay, Idle
<1> QED BY <1>1, <1>3, <1>4 DEF Returning

\* What get_queue returns is the queue that serves the name, if that queue was
\* the same all the time, however many threads add and delete others, grow the
\* trie and replace its buffer on the way; and a name that is to be created
\* yields, if nothing is deleted, a queue that serves it.
THEOREM GetQueueRightHolds == Spec => []GetQueueRight
<1>1. Returning => GetQueueRight
  <2> SUFFICES ASSUME Returning, NEW l \in Loops, th[l].pc = "done"
               PROVE  /\ stable[l] => th[l].got = th[l].want
                      /\ quiet[l] /\ th[l].op = "create" =>
                            th[l].got = th[l].key \/ th[l].got \in Patterns(th[l].key)
    BY DEF GetQueueRight
  <2>1. Right(l) BY DEF Returning
  <2>2. stable[l] => Tells(th[l]) BY <2>1 DEF Right
  <2>3. quiet[l] => Serves(th[l]) BY <2>1 DEF Right
  <2> QED BY <2>2, <2>3 DEF Tells, Serves
<1>2. Returning /\ [Next]_vars => Returning' BY ReturningNext, ReturningStays
<1> QED BY <1>1, <1>2, ReturningInit, PTL DEF Spec
=============================================================================
