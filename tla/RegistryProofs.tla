--------------------------- MODULE RegistryProofs ---------------------------
(***************************************************************************)
(* The registry's memory, for any number of threads and names: a find      *)
(* reads no buffer that was freed and no node that its buffer has not.     *)
(*                                                                         *)
(* Neither is inductive.  Safe is: the links of a buffer stay inside it,   *)
(* the values inside the list of queues; only the holder of global_lock    *)
(* changes anything, and buf_t exists only while it does; a buffer that    *)
(* is retired is not published; and the service waits for every thread     *)
(* that may still be in a buffer it has taken.                             *)
(*                                                                         *)
(* Nodes is a function that is defined by recursion; what it yields is     *)
(* shown by induction over the set of lengths (Climb).                     *)
(***************************************************************************)
EXTENDS Registry, FiniteSetTheorems, SequenceTheorems, NaturalsInduction, TLAPS

\* A non-empty set of naturals has a least element.
LEMMA MinOf ==
    ASSUME NEW S \in SUBSET Nat, S # {}
    PROVE  Min(S) \in S /\ \A x \in S : Min(S) <= x
<1> DEFINE R == OpToRel(<, Nat)
<1>1. IsWellFoundedOn(R, Nat) BY NatLessThanWellFounded
<1>2. \A y, m \in S : y < m => <<y, m>> \in R BY DEF OpToRel
<1> HIDE DEF R
<1>3. \E x \in S : \A y \in S : ~ (<<y, x>> \in R) BY <1>1, WFMin
<1>4. PICK m \in S : \A y \in S : ~ (<<y, m>> \in R) BY <1>3
<1>5. \A y \in S : ~(y < m) BY <1>2, <1>4
<1>6. S \subseteq Int OBVIOUS
<1>7. \E x \in S : \A y \in S : x <= y BY <1>5, <1>6
<1> QED BY <1>7 DEF Min

\* A bounded one has a greatest element.
LEMMA MaxOf ==
    ASSUME NEW n \in Nat, NEW S \in SUBSET (0 .. n), S # {}
    PROVE  Max(S) \in S /\ \A x \in S : x <= Max(S)
<1> DEFINE U == {u \in Nat : \A x \in S : x <= u}
<1>1. U \in SUBSET Nat /\ n \in U OBVIOUS
<1>2. PICK m \in U : \A u \in U : m <= u
  <2> HIDE DEF U
  <2> QED BY <1>1, MinOf
<1>3. m \in S
  <2> SUFFICES ASSUME m \notin S PROVE FALSE OBVIOUS
  <2>1. PICK x \in S : TRUE OBVIOUS
  <2>2. m # 0 BY <1>2, <2>1
  <2>3. \A y \in S : y <= m - 1 BY <1>2
  <2>4. m - 1 \in U BY <1>2, <2>2, <2>3
  <2> QED BY <1>2, <2>4
<1>4. \E x \in S : \A y \in S : x >= y BY <1>2, <1>3
<1>5. Max(S) \in S /\ \A y \in S : Max(S) >= y BY <1>4 DEF Max
<1> QED BY <1>5

\* Induction over the naturals, for a set.
LEMMA Climb ==
    ASSUME NEW S, 0 \in S, \A n \in S \cap Nat : n + 1 \in S
    PROVE  Nat \subseteq S
<1> SUFFICES ASSUME Nat \ S # {} PROVE FALSE OBVIOUS
<1>1. Min(Nat \ S) \in Nat \ S /\ \A x \in Nat \ S : Min(Nat \ S) <= x BY MinOf
<1>2. PICK m \in Nat \ S : \A x \in Nat \ S : m <= x BY <1>1
<1>3. m # 0 OBVIOUS
<1>4. m - 1 \in Nat /\ m - 1 \in S BY <1>2, <1>3
<1>5. m - 1 + 1 = m OBVIOUS
<1> QED BY <1>4, <1>5

\* A function on the first positions is a sequence.
LEMMA FunctionIsSeq ==
    ASSUME NEW S, NEW n \in Nat, NEW f \in [1 .. n -> S]
    PROVE  f \in Seq(S) /\ Len(f) = n
OBVIOUS

\* A name is a sequence of characters and stars.
LEMMA NameShape ==
    ASSUME NEW key \in Keys \cup {<< >>}
    PROVE  /\ key \in Seq(Chars \cup {Star}) /\ Len(key) \in Nat /\ DOMAIN key = 1 .. Len(key)
           /\ \A i \in 1 .. Len(key) : key[i] # Star => key[i] \in Chars
           /\ Star \notin Chars
<1> DEFINE A == Chars \cup {Star}
<1>1. key \in Seq(A)
  <2>1. CASE key \in Keys BY <2>1, KeysAssumption
  <2>2. CASE key = << >>
    <3> HIDE DEF A
    <3> QED BY <2>2
  <2> QED BY <2>1, <2>2
<1>2. Star \notin Chars BY DEF Chars
<1>3. Len(key) \in Nat /\ DOMAIN key = 1 .. Len(key) BY <1>1, LenProperties
<1>4. \A i \in 1 .. Len(key) : key[i] \in A BY <1>1, ElementOfSeq
<1> QED BY <1>1, <1>2, <1>3, <1>4

-----------------------------------------------------------------------------
(* The nodes along a name *)

\* The definition of Nodes defines a function.
LEMMA NodesUnfold ==
    ASSUME NEW B, NEW key, Len(key) \in Nat
    PROVE  Nodes(B, key) =
             [i \in 0 .. Len(key) |->
                IF i = 0 THEN 1
                ELSE IF Nodes(B, key)[i - 1] = 0 \/ key[i] = Star THEN 0
                     ELSE B[Nodes(B, key)[i - 1]].k[key[i]]]
<1> DEFINE D(g, i) == IF i = 0 THEN 1
                      ELSE IF g[i - 1] = 0 \/ key[i] = Star THEN 0 ELSE B[g[i - 1]].k[key[i]]
<1> DEFINE S == {n \in Nat : \E g : g = [i \in 0 .. n |-> D(g, i)]}
<1>1. 0 \in S
  <2> DEFINE g0 == [i \in 0 .. 0 |-> 1]
  <2>1. g0 = [i \in 0 .. 0 |-> D(g0, i)] OBVIOUS
  <2> QED BY <2>1
<1>2. ASSUME NEW n \in S \cap Nat PROVE n + 1 \in S
  <2>1. PICK g : g = [i \in 0 .. n |-> D(g, i)] OBVIOUS
  <2> DEFINE h == [i \in 0 .. n + 1 |-> IF i <= n THEN g[i] ELSE D(g, i)]
  <2>2. ASSUME NEW i \in 0 .. n + 1 PROVE h[i] = D(h, i)
    <3>1. CASE i = 0 BY <2>1, <3>1
    <3>2. CASE i # 0
      <4>1. i - 1 \in 0 .. n /\ i - 1 \in 0 .. n + 1 BY <3>2
      <4>2. h[i - 1] = g[i - 1] BY <4>1
      <4>3. D(h, i) = D(g, i)
        <5> HIDE DEF h
        <5> QED BY <4>2
      <4>4. i <= n => g[i] = D(g, i)
        <5>1. i <= n => i \in 0 .. n OBVIOUS
        <5> HIDE DEF D
        <5> QED BY <5>1, <2>1
      <4> HIDE DEF D
      <4> QED BY <4>3, <4>4
    <3> QED BY <3>1, <3>2
  <2>3. h = [i \in 0 .. n + 1 |-> D(h, i)]
    <3> HIDE DEF D
    <3> QED BY <2>2
  <2> HIDE DEF h, D
  <2> QED BY <2>3
<1> HIDE DEF D
<1>3. Len(key) \in S
  <2> HIDE DEF S
  <2> QED BY <1>1, <1>2, Climb
<1>4. \E g : g = [i \in 0 .. Len(key) |-> D(g, i)] BY <1>3
<1>5. Nodes(B, key) = CHOOSE g : g = [i \in 0 .. Len(key) |-> D(g, i)] BY DEF Nodes, D
<1>6. Nodes(B, key) = [i \in 0 .. Len(key) |-> D(Nodes(B, key), i)] BY <1>4, <1>5
<1> QED BY <1>6 DEF D

-----------------------------------------------------------------------------
(* Memory: what the state looks like *)

Node == [end : Nat, std : Nat, k : [Chars -> Nat]]

Names0 == Keys \cup {None}

Thread == [pc : {"idle", "std", "next", "slot", "read", "done", "lock", "assign", "add",
                 "publish", "retire", "drop"},
           op : {"find", "create", "delete", None}, key : Keys \cup {<< >>}, ptr : Nat, step : Nat,
           i : Nat, std : Nat, n : Nat, base : Nat, want : Names0, got : Names0]

\* Links stay inside the buffer, values inside the list of queues.
Inside(B, q) ==
    /\ B \in Seq(Node)
    /\ \A n \in 1 .. Len(B) : /\ B[n].end <= q /\ B[n].std <= q
                              /\ \A c \in Chars : B[n].k[c] <= Len(B)

Buffers ==
    /\ mem \in Seq(Seq(Node))
    /\ \A g \in 1 .. Len(mem) : Inside(mem[g], Len(queues))
    /\ abuf \in 1 .. Len(mem) /\ buf_t \in 0 .. Len(mem) /\ buf_t # abuf
    /\ size \in Nat \ {0} /\ size <= Len(mem[Target]) /\ Len(mem[abuf]) >= 1
    /\ \A n \in 1 .. Len(mem[Target]) : \A c \in Chars : mem[Target][n].k[c] <= size

Lists ==
    /\ queues \in Seq(Names0) /\ vcap \in Nat /\ lock \in Loops \cup {None}
    /\ freeList \in SUBSET (1 .. Len(mem))
    /\ taken \in SUBSET (1 .. Len(mem))
    /\ freed \in SUBSET (1 .. Len(mem))
    /\ waited \in SUBSET Loops
    /\ abuf \notin freeList \cup taken \cup freed
    /\ buf_t \notin freeList \cup taken \cup freed

\* A thread that runs a find holds a position in a buffer that is not freed,
\* and the service waits for it if the buffer is about to be.
Fits(l, t) ==
    /\ t.std <= Len(queues) /\ t.n <= Len(queues)
    /\ t.pc \in {"std", "next"} =>
          /\ t.key \in Keys /\ t.i <= Len(t.key)
          /\ t.ptr \in 1 .. Len(mem) /\ t.step \in 1 .. Len(mem[t.ptr])
          /\ t.ptr \notin freed /\ (t.ptr \in taken => l \in waited)
    /\ t.pc \in {"slot", "read", "add", "drop"} => t.n # 0
    /\ t.pc \in {"lock", "assign", "add", "publish", "retire"} => t.key \in Keys
    /\ t.pc = "add" => t.step \in 1 .. size /\ t.i <= Len(t.key)
    /\ t.pc = "retire" => t.ptr \in 1 .. Len(mem) /\ t.ptr # abuf

Changing == {"assign", "add", "publish", "retire", "drop"}

Locked ==
    /\ \A l \in Loops : th[l].pc \in Changing <=> lock = l
    /\ \A l \in Loops : th[l].pc = "publish" => buf_t # 0
    /\ (\A l \in Loops : th[l].pc \notin {"add", "publish"}) => buf_t = 0

Safe ==
    /\ Buffers /\ Lists /\ Locked
    /\ th \in [Loops -> Thread]
    /\ \A l \in Loops : Fits(l, th[l])

\* The buffer B with the link from s to the node v, which add writes.
WithLink(B, s, c, v) == [B EXCEPT ![s].k[c] = v]

\* It differs from B in that link only.
LEMMA LinkWritten ==
    ASSUME NEW B \in Seq(Node), NEW s \in 1 .. Len(B), NEW c \in Chars, NEW v \in Nat
    PROVE  /\ WithLink(B, s, c, v) \in Seq(Node) /\ Len(WithLink(B, s, c, v)) = Len(B)
           /\ \A n \in 1 .. Len(B) :
                 /\ WithLink(B, s, c, v)[n].end = B[n].end /\ WithLink(B, s, c, v)[n].std = B[n].std
                 /\ \A d \in Chars :
                       WithLink(B, s, c, v)[n].k[d] = IF n = s /\ d = c THEN v ELSE B[n].k[d]
           /\ \A n \in 1 .. Len(B) : n # s => WithLink(B, s, c, v)[n] = B[n]
<1> DEFINE e == [B[s] EXCEPT !.k[c] = v]
           C == [B EXCEPT ![s] = e]
<1>1. B[s] \in Node BY ElementOfSeq
<1>2. e \in Node BY <1>1 DEF Node
<1>3. C \in Seq(Node) /\ Len(C) = Len(B)
      /\ \A n \in 1 .. Len(B) : C[n] = IF n = s THEN e ELSE B[n]
  <2> HIDE DEF e
  <2> QED BY <1>2, ExceptSeq
<1>4. e.end = B[s].end /\ e.std = B[s].std /\ \A d \in Chars : e.k[d] = IF d = c THEN v ELSE B[s].k[d]
  BY <1>1 DEF Node
<1>5. WithLink(B, s, c, v) = C BY DEF WithLink
<1> HIDE DEF e, C
<1>6. \A n \in 1 .. Len(B) : \A d \in Chars : C[n].k[d] = IF n = s /\ d = c THEN v ELSE B[n].k[d]
  BY <1>3, <1>4
<1> QED BY <1>3, <1>4, <1>5, <1>6

\* The values that add and del write.
LEMMA EndWritten ==
    ASSUME NEW B \in Seq(Node), NEW s \in 1 .. Len(B), NEW v \in Nat
    PROVE  LET C == [B EXCEPT ![s].end = v]
           IN  /\ C \in Seq(Node) /\ Len(C) = Len(B)
               /\ \A n \in 1 .. Len(B) :
                     /\ C[n].end = IF n = s THEN v ELSE B[n].end
                     /\ C[n].std = B[n].std /\ C[n].k = B[n].k
               /\ \A n \in 1 .. Len(B) : n # s => C[n] = B[n]
<1> DEFINE e == [B[s] EXCEPT !.end = v]
           C == [B EXCEPT ![s] = e]
<1>1. B[s] \in Node BY ElementOfSeq
<1>2. e \in Node BY <1>1 DEF Node
<1>3. C \in Seq(Node) /\ Len(C) = Len(B)
      /\ \A n \in 1 .. Len(B) : C[n] = IF n = s THEN e ELSE B[n]
  <2> HIDE DEF e
  <2> QED BY <1>2, ExceptSeq
<1>4. e.end = v /\ e.std = B[s].std /\ e.k = B[s].k BY <1>1 DEF Node
<1> HIDE DEF e, C
<1>5. [B EXCEPT ![s].end = v] = C BY DEF C, e
<1> QED BY <1>3, <1>4, <1>5

\* The same for the value of a pattern.
LEMMA StdWritten ==
    ASSUME NEW B \in Seq(Node), NEW s \in 1 .. Len(B), NEW v \in Nat
    PROVE  LET C == [B EXCEPT ![s].std = v]
           IN  /\ C \in Seq(Node) /\ Len(C) = Len(B)
               /\ \A n \in 1 .. Len(B) :
                     /\ C[n].std = IF n = s THEN v ELSE B[n].std
                     /\ C[n].end = B[n].end /\ C[n].k = B[n].k
               /\ \A n \in 1 .. Len(B) : n # s => C[n] = B[n]
<1> DEFINE e == [B[s] EXCEPT !.std = v]
           C == [B EXCEPT ![s] = e]
<1>1. B[s] \in Node BY ElementOfSeq
<1>2. e \in Node BY <1>1 DEF Node
<1>3. C \in Seq(Node) /\ Len(C) = Len(B)
      /\ \A n \in 1 .. Len(B) : C[n] = IF n = s THEN e ELSE B[n]
  <2> HIDE DEF e
  <2> QED BY <1>2, ExceptSeq
<1>4. e.std = v /\ e.end = B[s].end /\ e.k = B[s].k BY <1>1 DEF Node
<1> HIDE DEF e, C
<1>5. [B EXCEPT ![s].std = v] = C BY DEF C, e
<1> QED BY <1>3, <1>4, <1>5

\* A new node has neither values nor links.
LEMMA EmptyStepShape ==
    EmptyStep \in Node /\ EmptyStep.end = 0 /\ EmptyStep.std = 0
    /\ \A c \in Chars : EmptyStep.k[c] = 0
BY DEF EmptyStep, Node

\* A buffer that has grown holds what it held, and at least one node more.
LEMMA GrownShape ==
    ASSUME NEW B \in Seq(Node), Len(B) >= 1
    PROVE  /\ Grown(B) \in Seq(Node) /\ Len(Grown(B)) \in Nat /\ Len(Grown(B)) > Len(B)
           /\ \A n \in 1 .. Len(B) : Grown(B)[n] = B[n]
           /\ \A n \in Len(B) + 1 .. Len(Grown(B)) : Grown(B)[n] = EmptyStep
<1> DEFINE cap == Len(B)
           new == IF cap >= BigCap THEN cap + Extra ELSE cap * 2
           C == [n \in 1 .. new |-> IF n <= cap THEN B[n] ELSE EmptyStep]
<1>1. cap \in Nat BY LenProperties
<1>2. new \in Nat /\ new > cap BY <1>1, CapAssumption
<1>3. \A n \in 1 .. cap : B[n] \in Node BY ElementOfSeq
<1>4. \A n \in 1 .. new : C[n] \in Node BY <1>1, <1>2, <1>3, EmptyStepShape
<1> HIDE DEF new
<1>5. C \in [1 .. new -> Node] BY <1>4
<1>6. C \in Seq(Node) /\ Len(C) = new
  <2> HIDE DEF C
  <2> QED BY <1>5, <1>2
<1>7. Grown(B) = C BY DEF Grown, new
<1>8. \A n \in 1 .. cap : C[n] = B[n] BY <1>1, <1>2
<1>9. \A n \in cap + 1 .. new : C[n] = EmptyStep BY <1>1, <1>2
<1> HIDE DEF C
<1> QED BY <1>1, <1>2, <1>6, <1>7, <1>8, <1>9

-----------------------------------------------------------------------------
(* What find and del compute stays inside *)

\* The part of a name that the trie spells.
LEMMA StemShape ==
    ASSUME NEW key \in Keys
    PROVE  /\ Stem(key) \in Seq(Chars) /\ Len(Stem(key)) \in Nat /\ Len(Stem(key)) <= Len(key)
           /\ \A i \in 1 .. Len(Stem(key)) : Stem(key)[i] = key[i] /\ key[i] # Star
           /\ Pattern(key) => Len(Stem(key)) < Len(key) /\ key[Len(Stem(key)) + 1] = Star
           /\ ~Pattern(key) => Stem(key) = key
<1> USE NameShape
<1>1. CASE ~Pattern(key)
  <2>1. Stem(key) = key BY <1>1 DEF Stem
  <2>2. \A i \in 1 .. Len(key) : key[i] \in Chars /\ key[i] # Star BY <1>1 DEF Pattern
  <2>3. key = SubSeq(key, 1, Len(key)) BY SubSeqFull
  <2>4. SubSeq(key, 1, Len(key)) \in Seq(Chars) BY <2>2, SubSeqProperties
  <2> QED BY <1>1, <2>1, <2>2, <2>3, <2>4
<1>2. CASE Pattern(key)
  <2> DEFINE S == {i \in DOMAIN key : key[i] = Star}
             m == Min(S)
  <2>1. S \in SUBSET Nat /\ S # {} BY <1>2 DEF Pattern
  <2>2. m \in S /\ \A x \in S : m <= x
    <3> HIDE DEF S
    <3> QED BY <2>1, MinOf
  <2>3. Stem(key) = SubSeq(key, 1, m - 1) BY <1>2 DEF Stem
  <2>4. m \in 1 .. Len(key) /\ key[m] = Star BY <2>2
  <2>5. ASSUME NEW i \in 1 .. m - 1 PROVE i \in DOMAIN key /\ key[i] # Star
    <3>1. i \in DOMAIN key /\ ~(m <= i) BY <2>4
    <3>2. i \notin S BY <2>2, <3>1
    <3> QED BY <3>1, <3>2
  <2>6. \A i \in 1 .. m - 1 : key[i] \in Chars BY <2>4, <2>5
  <2> HIDE DEF m
  <2>7. /\ SubSeq(key, 1, m - 1) \in Seq(Chars)
        /\ Len(SubSeq(key, 1, m - 1)) = IF 1 <= m - 1 THEN m - 1 - 1 + 1 ELSE 0
        /\ \A i \in 1 .. m - 1 - 1 + 1 : SubSeq(key, 1, m - 1)[i] = key[1 + i - 1]
    <3>1. 1 \in Int /\ m - 1 \in Int BY <2>4
    <3> QED BY <3>1, <2>6, SubSeqProperties
  <2>8. Len(SubSeq(key, 1, m - 1)) = m - 1 /\ \A i \in 1 .. m - 1 : SubSeq(key, 1, m - 1)[i] = key[i]
    BY <2>4, <2>7
  <2> QED BY <1>2, <2>3, <2>4, <2>5, <2>7, <2>8
<1> QED BY <1>1, <1>2

\* A walk starts at the root, follows the links, and stays in the buffer.
LEMMA NodesShape ==
    ASSUME NEW q, NEW B, Inside(B, q), Len(B) >= 1,
           NEW key \in Seq(Chars \cup {Star})
    PROVE  /\ Nodes(B, key) \in [0 .. Len(key) -> 0 .. Len(B)]
           /\ Nodes(B, key)[0] = 1
           /\ \A i \in 1 .. Len(key) :
                 Nodes(B, key)[i] = IF Nodes(B, key)[i - 1] = 0 \/ key[i] = Star THEN 0
                                    ELSE B[Nodes(B, key)[i - 1]].k[key[i]]
<1> DEFINE N == Nodes(B, key)
<1>0. Len(key) \in Nat /\ Len(B) \in Nat /\ B \in Seq(Node)
  BY LenProperties DEF Inside
<1>1. N = [i \in 0 .. Len(key) |->
             IF i = 0 THEN 1 ELSE IF N[i - 1] = 0 \/ key[i] = Star THEN 0 ELSE B[N[i - 1]].k[key[i]]]
  BY <1>0, NodesUnfold
<1> HIDE DEF N
<1>2. N[0] = 1 BY <1>0, <1>1
<1>3. \A i \in 1 .. Len(key) :
         N[i] = IF N[i - 1] = 0 \/ key[i] = Star THEN 0 ELSE B[N[i - 1]].k[key[i]]
  <2> SUFFICES ASSUME NEW i \in 1 .. Len(key)
               PROVE  N[i] = IF N[i - 1] = 0 \/ key[i] = Star THEN 0 ELSE B[N[i - 1]].k[key[i]]
    OBVIOUS
  <2>1. i \in 0 .. Len(key) /\ i # 0 BY <1>0
  <2> QED BY <1>1, <2>1
<1> DEFINE S == {i \in Nat : i <= Len(key) => N[i] \in 0 .. Len(B)}
<1>4. 0 \in S BY <1>0, <1>2
<1>5. ASSUME NEW i \in S \cap Nat PROVE i + 1 \in S
  <2> SUFFICES ASSUME i + 1 <= Len(key) PROVE N[i + 1] \in 0 .. Len(B) OBVIOUS
  <2>1. i + 1 \in 1 .. Len(key) /\ i + 1 - 1 = i BY <1>0
  <2>2. N[i] \in 0 .. Len(B) BY <1>0
  <2>3. N[i + 1] = IF N[i] = 0 \/ key[i + 1] = Star THEN 0 ELSE B[N[i]].k[key[i + 1]]
    BY <1>3, <2>1
  <2>4. CASE N[i] = 0 \/ key[i + 1] = Star BY <2>3, <2>4, <1>0
  <2>5. CASE ~(N[i] = 0 \/ key[i + 1] = Star)
    <3>1. N[i] \in 1 .. Len(B) BY <2>2, <2>5, <1>0
    <3>2. key[i + 1] \in Chars \cup {Star} BY <2>1, ElementOfSeq
    <3>3. key[i + 1] \in Chars BY <3>2, <2>5
    <3>4. B[N[i]] \in Node BY <3>1, <1>0, ElementOfSeq
    <3>5. B[N[i]].k[key[i + 1]] \in Nat BY <3>3, <3>4 DEF Node
    <3>6. B[N[i]].k[key[i + 1]] <= Len(B) BY <3>1, <3>3 DEF Inside
    <3> QED BY <3>5, <3>6, <2>3, <2>5, <1>0
  <2> QED BY <2>4, <2>5
<1> HIDE DEF S
<1>6. Nat \subseteq S BY <1>4, <1>5, Climb
<1> USE DEF S
<1>7. \A i \in 0 .. Len(key) : N[i] \in 0 .. Len(B) BY <1>0, <1>6
<1>8. DOMAIN N = 0 .. Len(key) BY <1>1
<1>9. N = [i \in 0 .. Len(key) |-> N[i]] BY <1>1
<1>10. N \in [0 .. Len(key) -> 0 .. Len(B)] BY <1>7, <1>9
<1> QED BY <1>2, <1>3, <1>10 DEF N

\* What Walk yields: the value at the end of the name, or the last pattern on the way.
LEMMA WalkCases ==
    ASSUME NEW q \in Nat, Inside(mem[abuf], q), Len(mem[abuf]) >= 1, NEW key \in Keys
    PROVE  LET B == mem[abuf]
               N == Nodes(B, key)
               stds == {i \in 0 .. Len(key) : N[i] # 0 /\ B[N[i]].std # 0}
           IN  \/ /\ N[Len(key)] # 0 /\ B[N[Len(key)]].end # 0
                  /\ Walk(key) = B[N[Len(key)]].end
               \/ /\ N[Len(key)] = 0 \/ B[N[Len(key)]].end = 0
                  /\ \/ stds = {} /\ Walk(key) = 0
                     \/ \E m \in stds : /\ \A i \in stds : i <= m
                                        /\ Walk(key) = B[N[m]].std
<1> DEFINE B == mem[abuf]
           N == Nodes(B, key)
           stds == {i \in 0 .. Len(key) : N[i] # 0 /\ B[N[i]].std # 0}
<1>1. Len(key) \in Nat BY NameShape
<1>2. Walk(key) = IF N[Len(key)] # 0 /\ B[N[Len(key)]].end # 0 THEN B[N[Len(key)]].end
                  ELSE IF stds = {} THEN 0 ELSE B[N[Max(stds)]].std
  BY DEF Walk
<1>3. stds \in SUBSET (0 .. Len(key)) OBVIOUS
<1>4. stds # {} => Max(stds) \in stds /\ \A i \in stds : i <= Max(stds)
  <2> HIDE DEF stds
  <2> QED BY <1>1, <1>3, MaxOf
<1> HIDE DEF stds, N, B
<1>5. \/ /\ N[Len(key)] # 0 /\ B[N[Len(key)]].end # 0
         /\ Walk(key) = B[N[Len(key)]].end
      \/ /\ N[Len(key)] = 0 \/ B[N[Len(key)]].end = 0
         /\ \/ stds = {} /\ Walk(key) = 0
            \/ \E m \in stds : /\ \A i \in stds : i <= m
                               /\ Walk(key) = B[N[m]].std
  BY <1>2, <1>4
<1> QED BY <1>5 DEF stds, N, B

\* A walk yields the slot of a queue, or nothing.
LEMMA WalkShape ==
    ASSUME NEW q \in Nat, Inside(mem[abuf], q), Len(mem[abuf]) >= 1, NEW key \in Keys
    PROVE  Walk(key) \in 0 .. q
<1> DEFINE B == mem[abuf]
           N == Nodes(B, key)
<1>1. Len(key) \in Nat /\ key \in Seq(Chars \cup {Star}) BY NameShape
<1>2. N \in [0 .. Len(key) -> 0 .. Len(B)] BY <1>1, NodesShape
<1>3. ASSUME NEW n \in 1 .. Len(B) PROVE B[n].end \in 0 .. q /\ B[n].std \in 0 .. q
  <2>1. B[n] \in Node /\ B[n].end <= q /\ B[n].std <= q BY ElementOfSeq DEF Inside
  <2> QED BY <2>1 DEF Node
<1>4. Len(B) \in Nat BY LenProperties DEF Inside
<1>5. \A i \in 0 .. Len(key) : N[i] # 0 => N[i] \in 1 .. Len(B) BY <1>2, <1>4
<1>6. Len(key) \in 0 .. Len(key) BY <1>1
<1> HIDE DEF N
<1> QED BY <1>3, <1>5, <1>6, WalkCases DEF N

\* A lookup yields a name or nothing.
LEMMA LookupShape ==
    ASSUME Inside(mem[abuf], Len(queues)), Len(mem[abuf]) >= 1, queues \in Seq(Names0),
           NEW key \in Keys
    PROVE  Lookup(key) \in Names0
<1>1. Len(queues) \in Nat BY LenProperties
<1>2. Walk(key) \in 0 .. Len(queues) BY <1>1, WalkShape
<1>3. Walk(key) # 0 => Walk(key) \in 1 .. Len(queues) BY <1>1, <1>2
<1>4. Walk(key) # 0 => queues[Walk(key)] \in Names0 BY <1>3, ElementOfSeq
<1> QED BY <1>4 DEF Lookup, Names0

\* The node that del comes to.
LEMMA NodeOfShape ==
    ASSUME NEW q \in Nat, Inside(mem[abuf], q), Len(mem[abuf]) >= 1, NEW key \in Keys
    PROVE  /\ NodeOf(key) \in 0 .. Len(mem[abuf])
           /\ NodeOf(key) # 0 => /\ NodeOf(key) \in 1 .. Len(mem[abuf])
                                 /\ mem[abuf][NodeOf(key)].end \in 0 .. q
                                 /\ mem[abuf][NodeOf(key)].std \in 0 .. q
<1> DEFINE B == mem[abuf]
           s == Stem(key)
<1>1. s \in Seq(Chars) /\ Len(s) \in Nat BY StemShape
<1>2. s \in Seq(Chars \cup {Star}) BY <1>1, SeqMonotonic
<1> HIDE DEF s
<1>3. Nodes(B, s) \in [0 .. Len(s) -> 0 .. Len(B)] BY <1>2, NodesShape
<1>4. NodeOf(key) \in 0 .. Len(B) BY <1>1, <1>3 DEF NodeOf, s
<1>5. ASSUME NEW n \in 1 .. Len(B) PROVE B[n].end \in 0 .. q /\ B[n].std \in 0 .. q
  <2>1. B[n] \in Node /\ B[n].end <= q /\ B[n].std <= q BY ElementOfSeq DEF Inside
  <2> QED BY <2>1 DEF Node
<1>6. Len(B) \in Nat BY LenProperties DEF Inside
<1>7. NodeOf(key) # 0 => NodeOf(key) \in 1 .. Len(B) BY <1>4, <1>6
<1> QED BY <1>4, <1>5, <1>7

-----------------------------------------------------------------------------
(* Memory: every step keeps it safe *)

\* Init: one buffer, one node, no queue.
LEMMA SafeInit == Init => Safe
<1> SUFFICES ASSUME Init PROVE Safe OBVIOUS
<1> USE DEF Init
<1> DEFINE B == [n \in 1 .. FirstCap |-> EmptyStep]
<1>1. FirstCap \in Nat /\ FirstCap >= 1 BY CapAssumption
<1>2. B \in [1 .. FirstCap -> Node] BY EmptyStepShape
<1>3. B \in Seq(Node) /\ Len(B) = FirstCap
  <2> HIDE DEF B
  <2> QED BY <1>1, <1>2
<1>4. \A n \in 1 .. FirstCap : B[n] = EmptyStep OBVIOUS
<1> HIDE DEF B
<1>5. mem = <<B>> BY DEF B
<1>6. mem \in Seq(Seq(Node)) /\ Len(mem) = 1 /\ mem[1] = B BY <1>3, <1>5
<1>7. queues \in Seq(Names0) /\ Len(queues) = 0 OBVIOUS
<1>8. Inside(B, 0) BY <1>1, <1>3, <1>4, EmptyStepShape DEF Inside
<1>9. Buffers
  <2>1. \A g \in 1 .. Len(mem) : Inside(mem[g], Len(queues))
    <3>1. \A g \in 1 .. Len(mem) : g = 1 BY <1>6
    <3> QED BY <3>1, <1>6, <1>7, <1>8
  <2>2. Target = 1 BY DEF Target
  <2>3. \A n \in 1 .. Len(mem[Target]) : \A c \in Chars : mem[Target][n].k[c] <= size
    BY <1>3, <1>4, <1>6, <2>2, EmptyStepShape
  <2>4. abuf = 1 /\ buf_t = 0 /\ size = 1 OBVIOUS
  <2>5. Len(mem[Target]) = FirstCap /\ Len(mem[abuf]) = FirstCap BY <1>3, <1>6, <2>2, <2>4
  <2> HIDE DEF Init
  <2>6. /\ abuf \in 1 .. Len(mem) /\ buf_t \in 0 .. Len(mem) /\ buf_t # abuf
        /\ size \in Nat \ {0} /\ size <= Len(mem[Target]) /\ Len(mem[abuf]) >= 1
    BY <1>1, <1>6, <2>4, <2>5
  <2> QED BY <1>6, <2>1, <2>3, <2>6 DEF Buffers
<1>10. Lists BY <1>6, <1>7 DEF Lists
<1>11. th \in [Loops -> Thread] BY DEF Thread, Idle, Names0
<1>12. \A l \in Loops : th[l].pc = "idle" /\ Fits(l, th[l]) BY <1>7 DEF Idle, Fits
<1>13. Locked
  <2>1. \A l \in Loops : lock # l BY KeysAssumption
  <2> QED BY <1>12, <2>1 DEF Locked, Changing
<1> QED BY <1>9, <1>10, <1>11, <1>12, <1>13 DEF Safe

\* Nobody else holds the lock when it is free or held by l.
LEMMA Alone ==
    ASSUME Safe, NEW l \in Loops, lock \in {None, l}, NEW k \in Loops, k # l
    PROVE  th[k].pc \notin Changing
BY KeysAssumption DEF Safe, Locked

\* A step of l that changes only what l itself keeps, and perhaps the lock.
LEMMA ThreadStep ==
    ASSUME Safe, NEW l \in Loops, NEW t \in Thread, Fits(l, t),
           th' = [th EXCEPT ![l] = t],
           UNCHANGED <<trie, queues, vcap, freeList, taken, freed>>,
           waited' \in {waited, waited \ {l}}, t.pc \in {"std", "next"} => waited' = waited,
           \/ lock' = lock /\ (t.pc \in Changing <=> th[l].pc \in Changing)
           \/ lock = None /\ lock' = l /\ t.pc \in Changing
           \/ lock = l /\ lock' = None /\ t.pc \notin Changing,
           t.pc \notin {"add", "publish"}, th[l].pc \notin {"add", "publish"}
    PROVE  Safe'
<1>1. Buffers' BY DEF Safe, Buffers, trie, Target
<1>2. th' \in [Loops -> Thread] BY DEF Safe
<1>3. lock' \in Loops \cup {None} BY DEF Safe, Lists
<1>4. Lists' BY <1>3 DEF Safe, Lists, trie
<1>5. \A k \in Loops : th'[k] = IF k = l THEN t ELSE th[k] BY DEF Safe
<1>6. ASSUME NEW k \in Loops PROVE Fits(k, th[k])'
  <2>1. CASE k = l
    <3>1. th'[k] = t BY <1>5, <2>1
    <3> QED BY <2>1, <3>1 DEF Fits, trie
  <2>2. CASE k # l
    <3>1. th'[k] = th[k] BY <1>5, <2>2
    <3>2. Fits(k, th[k]) BY DEF Safe
    <3>3. k \in waited => k \in waited' BY <2>2
    <3> QED BY <3>1, <3>2, <3>3 DEF Fits, trie
  <2> QED BY <2>1, <2>2
<1>7. Locked'
  <2>1. \A k \in Loops : th'[k].pc \in Changing <=> lock' = k
    <3>1. \A k \in Loops : th[k].pc \in Changing <=> lock = k BY DEF Safe, Locked
    <3>2. None \notin Loops BY KeysAssumption
    <3> QED BY <1>5, <3>1, <3>2
  <2>2. buf_t' = buf_t BY DEF trie
  <2>3. \A k \in Loops : th'[k].pc = "publish" => buf_t' # 0 BY <1>5, <2>2 DEF Safe, Locked
  <2>4. (\A k \in Loops : th'[k].pc \notin {"add", "publish"}) => buf_t' = 0
    <3>1. SUFFICES ASSUME \A k \in Loops : th'[k].pc \notin {"add", "publish"} PROVE buf_t = 0
      BY <2>2
    <3>2. \A k \in Loops : th[k].pc \notin {"add", "publish"} BY <1>5, <3>1
    <3> QED BY <3>2 DEF Safe, Locked
  <2> QED BY <2>1, <2>3, <2>4 DEF Locked
<1> QED BY <1>1, <1>2, <1>4, <1>6, <1>7 DEF Safe

\* The find starts in the published buffer, which is not about to be freed.
LEMMA SafeGetQueue ==
    ASSUME Safe, NEW l \in Loops, NEW op \in {"find", "create", "delete"}, NEW key \in Keys,
           GetQueue(l, op, key)
    PROVE  Safe'
<1> USE DEF GetQueue
<1> DEFINE t == [Idle EXCEPT !.pc = "std", !.op = op, !.key = key,
                             !.ptr = abuf, !.step = 1, !.want = Lookup(key)]
<1>1. Lookup(key) \in Names0 BY LookupShape DEF Safe, Buffers, Lists
<1>2. abuf \in Nat BY DEF Safe, Buffers
<1>3. t \in Thread /\ t.pc = "std" /\ t.key = key /\ t.i = 0 /\ t.ptr = abuf /\ t.step = 1
      /\ t.std = 0 /\ t.n = 0
  BY <1>1, <1>2 DEF Thread, Idle, Names0
<1>4. Len(mem[abuf]) \in Nat /\ Len(mem[abuf]) >= 1 BY DEF Safe, Buffers
<1>5. abuf \in 1 .. Len(mem) /\ abuf \notin freed /\ abuf \notin taken BY DEF Safe, Buffers, Lists
<1>6. Len(queues) \in Nat /\ Len(key) \in Nat BY NameShape DEF Safe, Lists
<1> HIDE DEF t
<1>7. Fits(l, t) BY <1>3, <1>4, <1>5, <1>6 DEF Fits, trie, service
<1>8. th' = [th EXCEPT ![l] = t] BY DEF t
<1> QED BY <1>3, <1>7, <1>8, ThreadStep DEF trie, service, Changing, Safe, Lists

\* Its value is one of the list.
LEMMA SafeReadStd ==
    ASSUME Safe, NEW l \in Loops, ReadStd(l)
    PROVE  Safe'
<1> USE DEF ReadStd
<1> DEFINE s == mem[th[l].ptr][th[l].step].std
           t == [th[l] EXCEPT !.pc = "next", !.std = IF s # 0 THEN s ELSE @]
<1>0. th[l] \in Thread /\ Fits(l, th[l]) BY DEF Safe
<1>1. th[l].ptr \in 1 .. Len(mem) /\ th[l].step \in 1 .. Len(mem[th[l].ptr]) BY <1>0 DEF Fits
<1>2. Inside(mem[th[l].ptr], Len(queues)) BY <1>1 DEF Safe, Buffers
<1>3. mem[th[l].ptr][th[l].step] \in Node /\ s <= Len(queues) BY <1>1, <1>2, ElementOfSeq DEF Inside
<1>4. s \in Nat BY <1>3 DEF Node
<1> HIDE DEF s
<1>5. /\ t \in Thread /\ t.pc = "next" /\ t.key = th[l].key /\ t.i = th[l].i
      /\ t.ptr = th[l].ptr /\ t.step = th[l].step /\ t.n = th[l].n
      /\ t.std = IF s # 0 THEN s ELSE th[l].std
  BY <1>0, <1>4 DEF Thread
<1>8. th' = [th EXCEPT ![l] = t] BY <1>0 DEF s, Thread
<1> HIDE DEF t
<1>7. Fits(l, t) BY <1>0, <1>3, <1>4, <1>5 DEF Fits, trie, service
<1> QED BY <1>5, <1>7, <1>8, ThreadStep DEF trie, service, Changing, Safe, Lists

\* The next node is in the buffer, because the links stay inside.
LEMMA SafeReadNext ==
    ASSUME Safe, NEW l \in Loops, ReadNext(l)
    PROVE  Safe'
<1> DEFINE o == th[l]
           s == mem[o.ptr][o.step]
           next == IF o.key[o.i + 1] = Star THEN 0 ELSE s.k[o.key[o.i + 1]]
           found(n) == [o EXCEPT !.n = n, !.ptr = 0, !.step = 0, !.std = 0, !.i = 0,
                                 !.pc = IF n # 0 THEN "slot"
                                        ELSE IF o.op = "create" THEN "lock" ELSE "done"]
           going == [o EXCEPT !.pc = "std", !.i = @ + 1, !.step = next]
<1>0. o \in Thread /\ Fits(l, o) BY DEF Safe
<1>1. o.ptr \in 1 .. Len(mem) /\ o.step \in 1 .. Len(mem[o.ptr]) /\ o.key \in Keys /\ o.i <= Len(o.key)
  BY <1>0 DEF Fits, ReadNext
<1>2. Inside(mem[o.ptr], Len(queues)) BY <1>1 DEF Safe, Buffers
<1>3. s \in Node /\ s.end <= Len(queues) /\ \A c \in Chars : s.k[c] <= Len(mem[o.ptr])
  BY <1>1, <1>2, ElementOfSeq DEF Inside
<1>4. s.end \in Nat /\ \A c \in Chars : s.k[c] \in Nat BY <1>3 DEF Node
<1>5. o.std \in 0 .. Len(queues) /\ o.i \in Nat /\ Len(queues) \in Nat
  BY <1>0 DEF Thread, Fits, Safe, Lists
<1>6. o.pc = "next" /\ UNCHANGED <<trie, queues, vcap, lock, freeList, taken, freed>>
      /\ waited' = IF th'[l].pc = "std" THEN waited ELSE waited \ {l}
  BY DEF ReadNext
<1>61. th' = IF o.i >= Len(o.key) THEN Found(l, IF s.end # 0 THEN s.end ELSE o.std)
             ELSE IF next = 0 THEN Found(l, NotFound(o))
             ELSE [th EXCEPT ![l].pc = "std", ![l].i = @ + 1, ![l].step = next]
  BY DEF ReadNext
<1>7. ASSUME NEW n \in 0 .. Len(queues), th' = Found(l, n), waited' = waited \ {l} PROVE Safe'
  <2>1. th' = [th EXCEPT ![l] = found(n)] BY <1>0, <1>7 DEF Found, Thread
  <2>2. /\ found(n) \in Thread /\ found(n).pc \in {"slot", "lock", "done"} /\ found(n).n = n
        /\ (found(n).pc = "slot" => n # 0) /\ found(n).std = 0 /\ found(n).key = o.key
    <3>1. n \in Nat BY <1>5
    <3> QED BY <1>0, <3>1 DEF Thread
  <2> HIDE DEF found
  <2>3. Fits(l, found(n)) BY <2>2, <1>0, <1>1, <1>5, <1>7 DEF Fits, trie
  <2> QED BY <2>1, <2>2, <2>3, <1>6, <1>7, ThreadStep DEF trie, Changing, Safe, Lists
<1>8. CASE o.i >= Len(o.key)
  <2>1. th' = Found(l, IF s.end # 0 THEN s.end ELSE o.std) BY <1>8, <1>61
  <2>2. (IF s.end # 0 THEN s.end ELSE o.std) \in 0 .. Len(queues) BY <1>3, <1>4, <1>5
  <2>3. th'[l].pc # "std"
    <3>1. th' = [th EXCEPT ![l] = found(IF s.end # 0 THEN s.end ELSE o.std)]
      BY <1>0, <2>1 DEF Found, Thread
    <3> HIDE DEF s
    <3> QED BY <3>1, <1>0 DEF Thread, Safe
  <2> QED BY <1>6, <1>7, <2>1, <2>2, <2>3
<1>9. CASE o.i < Len(o.key)
  <2>0. Len(o.key) \in Nat BY <1>1, NameShape
  <2>1. CASE next = 0
    <3>1. th' = Found(l, o.std)
      <4>1. ~(o.i >= Len(o.key)) BY <1>9, <2>0, <1>5
      <4> QED BY <2>1, <4>1, <1>61 DEF NotFound
    <3>2. th'[l].pc # "std"
      <4>1. th' = [th EXCEPT ![l] = found(o.std)] BY <1>0, <3>1 DEF Found, Thread
      <4> QED BY <4>1, <1>0 DEF Thread, Safe
    <3> QED BY <1>5, <1>6, <1>7, <3>1, <3>2
  <2>2. CASE next # 0
    <3>1. o.i + 1 \in 1 .. Len(o.key) BY <1>5, <1>9, <2>0
    <3>2. o.key[o.i + 1] # Star BY <2>2
    <3>3. o.key[o.i + 1] \in Chars BY <1>1, <3>1, <3>2, NameShape
    <3>4. next \in Nat /\ next <= Len(mem[o.ptr])
      <4>1. next = s.k[o.key[o.i + 1]] BY <3>2
      <4> HIDE DEF s, next
      <4> QED BY <1>3, <1>4, <3>3, <4>1
    <3>5. ~(o.i >= Len(o.key)) BY <1>9, <2>0, <1>5
    <3>6. th' = [th EXCEPT ![l].pc = "std", ![l].i = @ + 1, ![l].step = next] BY <2>2, <3>5, <1>61
    <3> HIDE DEF next
    <3>7. th' = [th EXCEPT ![l] = going] BY <3>6, <1>0 DEF Thread
    <3>8. /\ going \in Thread /\ going.pc = "std" /\ going.i = o.i + 1 /\ going.step = next
          /\ going.key = o.key /\ going.ptr = o.ptr /\ going.std = o.std /\ going.n = o.n
      <4>1. next \in Nat /\ o.i + 1 \in Nat BY <3>4, <1>5
      <4> HIDE DEF s
      <4>2. going \in Thread BY <1>0, <4>1 DEF Thread
      <4>3. /\ going.pc = "std" /\ going.i = o.i + 1 /\ going.step = next
            /\ going.key = o.key /\ going.ptr = o.ptr /\ going.std = o.std /\ going.n = o.n
        BY <1>0 DEF Thread
      <4> QED BY <4>2, <4>3
    <3> HIDE DEF going
    <3>9. th'[l].pc = "std" BY <3>7, <3>8 DEF Safe
    <3>10. waited' = waited BY <3>9, <1>6
    <3>11. going.step \in 1 .. Len(mem[o.ptr])
      <4>1. Len(mem[o.ptr]) \in Nat BY <1>2, LenProperties DEF Inside
      <4> QED BY <3>4, <3>8, <2>2, <4>1
    <3>12. going.i <= Len(o.key) BY <3>1, <3>8, <2>0
    <3>13. Fits(l, going) BY <1>0, <1>1, <1>6, <3>8, <3>10, <3>11, <3>12 DEF Fits, trie
    <3> QED BY <3>7, <3>8, <3>10, <3>13, <1>6, ThreadStep DEF trie, Changing, Safe, Lists
  <2> QED BY <2>1, <2>2
<1>10. Len(o.key) \in Nat BY <1>1, NameShape
<1> QED BY <1>5, <1>8, <1>9, <1>10

\* The address of the vector is no position in the trie.
LEMMA SafeReadBase ==
    ASSUME Safe, NEW l \in Loops, ReadBase(l)
    PROVE  Safe'
<1> DEFINE t == [th[l] EXCEPT !.pc = "read", !.base = vcap]
<1>0. th[l] \in Thread /\ Fits(l, th[l]) /\ vcap \in Nat BY DEF Safe, Lists
<1>1. th[l].pc = "slot" BY DEF ReadBase
<1>2. /\ t \in Thread /\ t.pc = "read" /\ t.n = th[l].n /\ t.std = th[l].std
  BY <1>0 DEF Thread
<1>3. th' = [th EXCEPT ![l] = t] BY <1>0 DEF ReadBase, Thread
<1> HIDE DEF t
<1>4. Fits(l, t) BY <1>0, <1>1, <1>2 DEF Fits
<1>5. UNCHANGED <<trie, queues, vcap, lock, service>> BY DEF ReadBase
<1> QED BY <1>1, <1>2, <1>3, <1>4, <1>5, ThreadStep DEF service, Changing

\* What is read from a vector that moved may be any name.
LEMMA SafeReadSlot ==
    ASSUME Safe, NEW l \in Loops, ReadSlot(l)
    PROVE  Safe'
<1>0. th[l] \in Thread /\ Fits(l, th[l]) BY DEF Safe, Lists
<1>1. th[l].pc = "read" BY DEF ReadSlot
<1>2. th[l].n \in 1 .. Len(queues) BY <1>0, <1>1 DEF Fits, Thread
<1>3. queues[th[l].n] \in Names0 BY <1>2, ElementOfSeq DEF Safe, Lists
<1>4. PICK q \in Names0 :
         th' = [th EXCEPT ![l].pc = "done", ![l].got = q, ![l].n = 0, ![l].base = 0]
  BY <1>3 DEF ReadSlot, Names0
<1> DEFINE t == [th[l] EXCEPT !.pc = "done", !.got = q, !.n = 0, !.base = 0]
<1>5. /\ t \in Thread /\ t.pc = "done" /\ t.n = 0 /\ t.std = th[l].std
  BY <1>0 DEF Thread
<1>6. th' = [th EXCEPT ![l] = t] BY <1>0, <1>4 DEF Thread
<1> HIDE DEF t
<1>7. Len(queues) \in Nat BY DEF Safe, Lists
<1>8. Fits(l, t) BY <1>0, <1>1, <1>5, <1>7 DEF Fits
<1>9. UNCHANGED <<trie, queues, vcap, lock, service>> BY DEF ReadSlot
<1> QED BY <1>1, <1>5, <1>6, <1>8, <1>9, ThreadStep DEF service, Changing

\* A thread without a request holds nothing.
LEMMA IdleFits ==
    ASSUME queues \in Seq(Names0), NEW l
    PROVE  Idle \in Thread /\ Fits(l, Idle) /\ Idle.pc = "idle"
<1>1. Len(queues) \in Nat BY LenProperties
<1> QED BY <1>1 DEF Idle, Thread, Names0, Fits

\* The thread is free for the next request.
LEMMA SafeReturn ==
    ASSUME Safe, NEW l \in Loops, Return(l)
    PROVE  Safe'
<1>1. Idle \in Thread /\ Fits(l, Idle) /\ Idle.pc = "idle" BY IdleFits DEF Safe, Lists
<1>2. UNCHANGED <<trie, queues, vcap, lock, service>> /\ th[l].pc = "done" BY DEF Return
<1>3. th' = [th EXCEPT ![l] = Idle] BY DEF Return
<1> QED BY <1>1, <1>2, <1>3, ThreadStep DEF service, Changing

\* The lock excludes every other change.
LEMMA SafeLockAndFind ==
    ASSUME Safe, NEW l \in Loops, LockAndFind(l)
    PROVE  Safe'
<1>0. th[l] \in Thread /\ Fits(l, th[l]) BY DEF Safe
<1>1. th[l].pc = "lock" /\ lock = None BY DEF LockAndFind
<1>2. th[l].key \in Keys BY <1>0, <1>1 DEF Fits
<1> DEFINE n == Walk(th[l].key)
<1>3. Len(queues) \in Nat /\ queues \in Seq(Names0) BY LenProperties DEF Safe, Lists
<1>4. n \in 0 .. Len(queues) BY <1>2, <1>3, WalkShape DEF Safe, Buffers
<1> HIDE DEF n
<1>5. UNCHANGED <<trie, queues, vcap, service>> BY DEF LockAndFind
<1>6. CASE n # 0
  <2> DEFINE t == [th[l] EXCEPT !.pc = "done", !.got = queues[n]]
  <2>1. n \in 1 .. Len(queues) BY <1>3, <1>4, <1>6
  <2>2. queues[n] \in Names0 BY <1>3, <2>1, ElementOfSeq
  <2>3. t \in Thread /\ t.pc = "done" /\ t.n = th[l].n /\ t.std = th[l].std BY <1>0, <2>2 DEF Thread
  <2>4. th' = [th EXCEPT ![l] = t] /\ lock' = lock
    BY <1>0, <1>6 DEF LockAndFind, FindLocked, n, Thread
  <2> HIDE DEF t
  <2>5. Fits(l, t) BY <1>0, <2>3 DEF Fits
  <2> QED BY <1>1, <1>5, <2>3, <2>4, <2>5, ThreadStep DEF service, Changing
<1>7. CASE n = 0
  <2> DEFINE t == [th[l] EXCEPT !.pc = "assign"]
  <2>1. t \in Thread /\ t.pc = "assign" /\ t.n = th[l].n /\ t.std = th[l].std /\ t.key = th[l].key
    BY <1>0 DEF Thread
  <2>2. th' = [th EXCEPT ![l] = t] /\ lock' = l
    BY <1>0, <1>7 DEF LockAndFind, FindLocked, n, Thread
  <2> HIDE DEF t
  <2>3. Fits(l, t) BY <1>0, <1>2, <2>1 DEF Fits
  <2> QED BY <1>1, <1>5, <2>1, <2>2, <2>3, ThreadStep DEF service, Changing
<1> QED BY <1>6, <1>7

\* What fits in smaller buffers fits in larger ones.
LEMMA FitsGrows ==
    ASSUME NEW k, NEW t, Fits(k, t), t \in Thread, t.pc # "retire" \/ abuf' = abuf,
           Len(mem) \in Nat, Len(mem') \in Nat, Len(mem) <= Len(mem'),
           \A g \in 1 .. Len(mem) :
              Len(mem[g]) \in Nat /\ Len(mem'[g]) \in Nat /\ Len(mem[g]) <= Len(mem'[g]),
           Len(queues) \in Nat, Len(queues') \in Nat, Len(queues) <= Len(queues'),
           size \in Nat, size' \in Nat, size <= size',
           UNCHANGED <<taken, waited, freed>>
    PROVE  Fits(k, t)'
<1>1. t.std <= Len(queues') /\ t.n <= Len(queues') BY DEF Fits, Thread
<1>2. ASSUME t.pc \in {"std", "next"}
      PROVE /\ t.key \in Keys /\ t.i <= Len(t.key)
            /\ t.ptr \in 1 .. Len(mem') /\ t.step \in 1 .. Len(mem'[t.ptr])
            /\ t.ptr \notin freed' /\ (t.ptr \in taken' => k \in waited')
  <2>1. t.ptr \in 1 .. Len(mem) /\ t.step \in 1 .. Len(mem[t.ptr]) BY <1>2 DEF Fits
  <2>2. t.ptr \in 1 .. Len(mem') BY <2>1
  <2>3. t.step \in 1 .. Len(mem'[t.ptr])
    <3>1. /\ Len(mem[t.ptr]) \in Nat /\ Len(mem'[t.ptr]) \in Nat
          /\ Len(mem[t.ptr]) <= Len(mem'[t.ptr])
      BY <2>1
    <3>2. \A a, b \in Nat : a <= b => 1 .. a \subseteq 1 .. b OBVIOUS
    <3> QED BY <2>1, <3>1, <3>2
  <2> QED BY <1>2, <2>2, <2>3 DEF Fits
<1>3. t.pc \in {"slot", "read", "add", "drop"} => t.n # 0 BY DEF Fits
<1>4. t.pc \in {"lock", "assign", "add", "publish", "retire"} => t.key \in Keys BY DEF Fits
<1>5. t.pc = "add" => t.step \in 1 .. size' /\ t.i <= Len(t.key) BY DEF Fits
<1>6. t.pc = "retire" => t.ptr \in 1 .. Len(mem') /\ t.ptr # abuf' BY DEF Fits
<1> QED BY <1>1, <1>2, <1>3, <1>4, <1>5, <1>6 DEF Fits

\* A step of the thread l that holds, takes or gives back the lock.
LEMMA LockedStep ==
    ASSUME Safe, NEW l \in Loops, lock \in {None, l},
           th' = [th EXCEPT ![l] = th'[l]], th'[l] \in Thread, Fits(l, th[l])',
           Buffers', Lists', th'[l].pc \in Changing <=> lock' = l, lock' \in {None, l},
           th'[l].pc = "publish" => buf_t' # 0,
           th'[l].pc \notin {"add", "publish"} => buf_t' = 0,
           Len(mem) <= Len(mem'),
           \A g \in 1 .. Len(mem) : Len(mem[g]) <= Len(mem'[g]),
           Len(queues) <= Len(queues'), size <= size',
           UNCHANGED <<taken, waited, freed>>
    PROVE  Safe'
<1>1. \A k \in Loops : k # l => th[k].pc \notin Changing BY Alone
<1>2. \A k \in Loops : k # l => th'[k] = th[k] BY DEF Safe
<1>3. th' \in [Loops -> Thread]
  <2>1. \A k \in Loops : th'[k] \in Thread BY <1>2 DEF Safe
  <2>2. th' = [k \in Loops |-> th'[k]] BY DEF Safe
  <2> QED BY <2>1, <2>2
<1>4. /\ Len(mem) \in Nat /\ Len(mem') \in Nat /\ size \in Nat /\ size' \in Nat
      /\ Len(queues) \in Nat /\ Len(queues') \in Nat
  <2>1. mem \in Seq(Seq(Node)) /\ mem' \in Seq(Seq(Node)) /\ size \in Nat /\ size' \in Nat
    BY DEF Safe, Buffers
  <2>2. queues \in Seq(Names0) /\ queues' \in Seq(Names0) BY DEF Safe, Lists
  <2> QED BY <2>1, <2>2, LenProperties
<1>5. \A g \in 1 .. Len(mem) : Len(mem[g]) \in Nat /\ Len(mem'[g]) \in Nat
  <2>1. \A g \in 1 .. Len(mem) : mem[g] \in Seq(Node) BY ElementOfSeq DEF Safe, Buffers
  <2>2. \A g \in 1 .. Len(mem') : mem'[g] \in Seq(Node) BY ElementOfSeq DEF Buffers
  <2>3. \A g \in 1 .. Len(mem) : g \in 1 .. Len(mem') BY <1>4
  <2> QED BY <2>1, <2>2, <2>3, LenProperties
<1>6. ASSUME NEW k \in Loops PROVE Fits(k, th[k])'
  <2>1. CASE k = l BY <2>1
  <2>2. CASE k # l
    <3> DEFINE t == th'[k]
    <3>1. t = th[k] /\ t \in Thread BY <1>2, <1>3, <2>2
    <3>2. t.pc \notin Changing BY <1>1, <2>2, <3>1
    <3>3. Fits(k, t) BY <3>1 DEF Safe
    <3>4. t.pc # "retire" BY <3>2 DEF Changing
    <3> HIDE DEF t
    <3>5. /\ t.std <= Len(queues') /\ t.n <= Len(queues')
          /\ t.pc \in {"std", "next"} =>
                /\ t.key \in Keys /\ t.i <= Len(t.key)
                /\ t.ptr \in 1 .. Len(mem') /\ t.step \in 1 .. Len(mem'[t.ptr])
                /\ t.ptr \notin freed' /\ (t.ptr \in taken' => k \in waited')
          /\ t.pc \in {"slot", "read", "add", "drop"} => t.n # 0
          /\ t.pc \in {"lock", "assign", "add", "publish", "retire"} => t.key \in Keys
          /\ t.pc = "add" => t.step \in 1 .. size' /\ t.i <= Len(t.key)
          /\ t.pc = "retire" => t.ptr \in 1 .. Len(mem') /\ t.ptr # abuf'
      BY <3>1, <3>3, <3>4, <1>4, <1>5, FitsGrows DEF Fits
    <3> QED BY <3>5 DEF Fits, t
  <2> QED BY <2>1, <2>2
<1>7. Locked'
  <2>1. None \notin Loops BY KeysAssumption
  <2>2. \A k \in Loops : th'[k].pc \in Changing <=> lock' = k BY <1>1, <1>2, <2>1
  <2>3. \A k \in Loops : th'[k].pc = "publish" => buf_t' # 0 BY <1>1, <1>2 DEF Changing
  <2> QED BY <2>2, <2>3 DEF Locked
<1> QED BY <1>3, <1>6, <1>7 DEF Safe

\* The slot that is assigned, and what is left as it was.
LEMMA SafeAssignSlot ==
    ASSUME Safe, NEW l \in Loops, AssignSlot(l)
    PROVE  /\ Safe'
           /\ \E n \in 1 .. Len(queues') :
                /\ n \in 1 .. Len(queues) => queues[n] = None
                /\ queues'[n] = th[l].key
                /\ \A j \in 1 .. Len(queues) : j # n => queues'[j] = queues[j]
                /\ \A j \in 1 .. Len(queues') : j \in 1 .. Len(queues) \/ j = n
                /\ th' = [th EXCEPT ![l].pc = "add", ![l].n = n, ![l].step = 1, ![l].i = 0]
<1> DEFINE n == IF FreeSlots # {} THEN Min(FreeSlots) ELSE Len(queues) + 1
<1>0. th[l] \in Thread /\ Fits(l, th[l]) /\ queues \in Seq(Names0) /\ vcap \in Nat
  BY DEF Safe, Lists
<1>1. th[l].pc = "assign" /\ UNCHANGED <<trie, lock, service>> BY DEF AssignSlot
<1>2. th[l].key \in Keys BY <1>0, <1>1 DEF Fits
<1>3. Len(queues) \in Nat /\ DOMAIN queues = 1 .. Len(queues) BY <1>0, LenProperties
<1>4. FreeSlots # {} => n \in 1 .. Len(queues) /\ queues[n] = None
  <2>1. FreeSlots \in SUBSET Nat BY <1>3 DEF FreeSlots
  <2>2. FreeSlots # {} => Min(FreeSlots) \in FreeSlots BY <2>1, MinOf
  <2> QED BY <2>2, <1>3 DEF FreeSlots
<1>5. FreeSlots = {} => n = Len(queues) + 1 OBVIOUS
<1>6. /\ queues' = IF FreeSlots # {} THEN [queues EXCEPT ![n] = th[l].key]
                    ELSE Append(queues, th[l].key)
      /\ vcap' = IF n > vcap THEN Max({1, 2 * vcap}) ELSE vcap
      /\ th' = [th EXCEPT ![l].pc = "add", ![l].n = n, ![l].step = 1, ![l].i = 0]
  BY DEF AssignSlot
<1> HIDE DEF n
<1>7. th[l].key \in Names0 BY <1>2 DEF Names0
<1>8. /\ queues' \in Seq(Names0) /\ Len(queues') \in Nat /\ Len(queues) <= Len(queues')
      /\ n \in 1 .. Len(queues')
      /\ n \in 1 .. Len(queues) => queues[n] = None
      /\ queues'[n] = th[l].key
      /\ \A j \in 1 .. Len(queues) : j # n => queues'[j] = queues[j]
      /\ \A j \in 1 .. Len(queues') : j \in 1 .. Len(queues) \/ j = n
  <2>1. CASE FreeSlots # {}
    <3>1. queues' = [queues EXCEPT ![n] = th[l].key] BY <1>6, <2>1
    <3> QED BY <1>0, <1>3, <1>4, <1>7, <2>1, <3>1, ExceptSeq
  <2>2. CASE FreeSlots = {}
    <3>1. queues' = Append(queues, th[l].key) BY <1>6, <2>2
    <3> QED BY <1>0, <1>3, <1>5, <1>7, <2>2, <3>1, AppendProperties
  <2> QED BY <2>1, <2>2
<1>9. vcap' \in Nat
  <2>1. Max({1, 2 * vcap}) \in {1, 2 * vcap}
    <3>1. {1, 2 * vcap} \in SUBSET (0 .. 1 + 2 * vcap) /\ 1 + 2 * vcap \in Nat BY <1>0
    <3> QED BY <3>1, MaxOf
  <2> QED BY <2>1, <1>0, <1>6
<1> DEFINE t == [th[l] EXCEPT !.pc = "add", !.n = n, !.step = 1, !.i = 0]
<1>10. n \in Nat /\ n # 0 /\ n <= Len(queues') BY <1>8
<1>11. t \in Thread /\ t.pc = "add" /\ t.n = n /\ t.step = 1 /\ t.i = 0 /\ t.key = th[l].key
       /\ t.std = th[l].std
  BY <1>0, <1>10 DEF Thread
<1>12. th' = [th EXCEPT ![l] = t] BY <1>0, <1>6 DEF Thread
<1> HIDE DEF t
<1>13. th'[l] = t /\ th' = [th EXCEPT ![l] = th'[l]] BY <1>12 DEF Safe
<1>14. size \in Nat /\ size >= 1 /\ Len(t.key) \in Nat BY <1>2, <1>11, NameShape DEF Safe, Buffers
<1>15. t.std <= Len(queues') BY <1>0, <1>3, <1>8, <1>11 DEF Fits, Thread
<1>16. Fits(l, th[l])' BY <1>1, <1>2, <1>10, <1>11, <1>13, <1>14, <1>15 DEF Fits, trie
<1>17. Buffers'
  <2>1. \A g \in 1 .. Len(mem) : Inside(mem[g], Len(queues)) => Inside(mem[g], Len(queues'))
    <3> SUFFICES ASSUME NEW g \in 1 .. Len(mem), Inside(mem[g], Len(queues))
                 PROVE  Inside(mem[g], Len(queues'))
      OBVIOUS
    <3>1. \A m \in 1 .. Len(mem[g]) : mem[g][m] \in Node BY ElementOfSeq DEF Inside
    <3>2. \A m \in 1 .. Len(mem[g]) : mem[g][m].end \in Nat /\ mem[g][m].std \in Nat
      BY <3>1 DEF Node
    <3>3. \A m \in 1 .. Len(mem[g]) : mem[g][m].end <= Len(queues') /\ mem[g][m].std <= Len(queues')
      <4>1. \A m \in 1 .. Len(mem[g]) : mem[g][m].end <= Len(queues) /\ mem[g][m].std <= Len(queues)
        BY DEF Inside
      <4>2. \A x \in Nat : x <= Len(queues) => x <= Len(queues') BY <1>3, <1>8
      <4> QED BY <3>2, <4>1, <4>2
    <3> QED BY <3>3 DEF Inside
  <2> QED BY <1>1, <2>1 DEF Safe, Buffers, trie, Target
<1>18. Lists' BY <1>1, <1>8, <1>9 DEF Safe, Lists, trie, service
<1>19. lock = l /\ lock' = l BY <1>1 DEF Safe, Locked, Changing
<1>20. \A g \in 1 .. Len(mem) : Len(mem[g]) <= Len(mem'[g])
  <2>1. \A g \in 1 .. Len(mem) : Len(mem[g]) \in Nat
    BY ElementOfSeq, LenProperties DEF Safe, Buffers
  <2> QED BY <1>1, <2>1 DEF trie
<1>21. Len(mem) <= Len(mem') /\ size <= size'
  <2>1. Len(mem) \in Nat BY LenProperties DEF Safe, Buffers
  <2> QED BY <1>1, <1>14, <2>1 DEF trie
<1>22. Safe'
  BY <1>1, <1>8, <1>11, <1>13, <1>16, <1>17, <1>18, <1>19, <1>20, <1>21, LockedStep
     DEF Changing, service
<1> QED BY <1>6, <1>8, <1>22

\* The buffer G holds what B holds, and empty nodes behind it.
Extends(G, B) ==
    /\ G \in Seq(Node) /\ Len(B) <= Len(G)
    /\ \A n \in 1 .. Len(B) : G[n] = B[n]
    /\ \A n \in Len(B) + 1 .. Len(G) : G[n] = EmptyStep

\* The cases of AddChar in one: the node exists, or is made in the buffer
\* that add writes to, which may have grown or be a new one.
LEMMA AddCharEffect ==
    ASSUME Safe, NEW l \in Loops, AddChar(l)
    PROVE  LET t == th[l]
               c == t.key[t.i + 1]
               next == mem[Target][t.step].k[c]
           IN  /\ t.pc = "add" /\ t.i < Len(t.key) /\ t.i + 1 \in 1 .. Len(t.key) /\ c \in Chars
               /\ UNCHANGED <<abuf, queues, vcap, lock, service>>
               /\ \/ /\ next # 0 /\ next \in Nat /\ UNCHANGED trie
                     /\ th' = [th EXCEPT ![l].step = next, ![l].i = @ + 1]
                  \/ /\ next = 0 /\ size' = size + 1
                     /\ th' = [th EXCEPT ![l].step = size + 1, ![l].i = @ + 1]
                     /\ \E G : /\ Extends(G, mem[Target]) /\ size + 1 <= Len(G)
                               /\ mem'[Target'] = [G EXCEPT ![t.step].k[c] = size + 1]
                     /\ mem' \in Seq(Seq(Node)) /\ Len(mem) <= Len(mem')
                     /\ \A g \in 1 .. Len(mem) : g # Target' => mem'[g] = mem[g]
                     /\ \A g \in Len(mem) + 1 .. Len(mem') : g = Target'
                     /\ \/ buf_t' = buf_t /\ Len(mem') = Len(mem)
                        \/ buf_t' = Len(mem) + 1
                     /\ buf_t' \in 0 .. Len(mem')
<1> DEFINE t == th[l]
           c == t.key[t.i + 1]
           B == mem[Target]
           next == B[t.step].k[c]
           full == size + 1 > Len(B)
<1>0. t \in Thread /\ Fits(l, t) BY DEF Safe
<1>1. t.pc = "add" /\ t.i < Len(t.key) /\ c # Star /\ UNCHANGED <<queues, vcap, lock, service>>
  BY DEF AddChar
<1>2. t.key \in Keys /\ t.i \in Nat /\ Len(t.key) \in Nat BY <1>0, <1>1, NameShape DEF Fits, Thread
<1>3. t.i + 1 \in 1 .. Len(t.key) BY <1>1, <1>2
<1>4. c \in Chars BY <1>1, <1>2, <1>3, NameShape
<1>5. abuf \in 1 .. Len(mem) /\ buf_t \in 0 .. Len(mem) /\ mem \in Seq(Seq(Node)) /\ Len(mem) \in Nat
  BY LenProperties DEF Safe, Buffers
<1>6. Target \in 1 .. Len(mem) BY <1>5 DEF Target
<1>7. B \in Seq(Node) /\ Len(B) \in Nat BY <1>5, <1>6, ElementOfSeq, LenProperties
<1>8. size \in Nat /\ size >= 1 /\ size <= Len(B) /\ t.step \in 1 .. size
  BY <1>0, <1>1 DEF Safe, Buffers, Fits
<1>9. t.step \in 1 .. Len(B) BY <1>7, <1>8
<1>90. ASSUME NEW G \in Seq(Node), t.step \in 1 .. Len(G)
       PROVE  [G EXCEPT ![t.step].k[c] = size + 1] \in Seq(Node)
  <2>1. size + 1 \in Nat BY <1>8
  <2> HIDE DEF c, t
  <2>2. WithLink(G, t.step, c, size + 1) \in Seq(Node) BY <1>4, <1>90, <2>1, LinkWritten
  <2> QED BY <2>2 DEF WithLink
<1>10. next \in Nat
  <2>1. B[t.step] \in Node BY <1>7, <1>9, ElementOfSeq
  <2> QED BY <2>1, <1>4 DEF Node
<1>11. CASE next # 0
  <2>1. th' = [th EXCEPT ![l].step = next, ![l].i = @ + 1] /\ UNCHANGED trie
    BY <1>11 DEF AddChar
  <2>2. abuf' = abuf BY <2>1 DEF trie
  <2> QED BY <1>1, <1>2, <1>3, <1>4, <1>10, <1>11, <2>1, <2>2
<1>12. CASE next = 0
  <2>1. size' = size + 1 /\ th' = [th EXCEPT ![l].step = size + 1, ![l].i = @ + 1] /\ abuf' = abuf
    BY <1>12 DEF AddChar
  <2>2. /\ mem' \in Seq(Seq(Node)) /\ Len(mem) <= Len(mem')
        /\ \A g \in 1 .. Len(mem) : g # Target' => mem'[g] = mem[g]
        /\ \A g \in Len(mem) + 1 .. Len(mem') : g = Target'
        /\ (buf_t' = buf_t /\ Len(mem') = Len(mem)) \/ buf_t' = Len(mem) + 1
        /\ buf_t' \in 0 .. Len(mem')
        /\ \E G : /\ Extends(G, B) /\ size + 1 <= Len(G)
                  /\ mem'[Target'] = [G EXCEPT ![t.step].k[c] = size + 1]
    <3>1. CASE ~full
      <4> DEFINE C == [B EXCEPT ![t.step].k[c] = size + 1]
      <4>1. mem' = [mem EXCEPT ![Target][t.step].k[c] = size + 1] /\ buf_t' = buf_t
        BY <1>12, <3>1 DEF AddChar
      <4>2. mem' = [mem EXCEPT ![Target] = C] BY <4>1
      <4>3. C \in Seq(Node) BY <1>7, <1>9, <1>90
      <4> HIDE DEF C
      <4>4. mem' \in Seq(Seq(Node)) /\ Len(mem') = Len(mem)
            /\ \A g \in 1 .. Len(mem) : mem'[g] = IF g = Target THEN C ELSE mem[g]
        BY <1>5, <1>6, <4>2, <4>3, ExceptSeq
      <4>5. Target' = Target BY <2>1, <4>1 DEF Target
      <4>6. Extends(B, B) BY <1>7 DEF Extends
      <4>7. size + 1 <= Len(B) BY <3>1, <1>7, <1>8
      <4>8. mem'[Target'] = C BY <4>4, <4>5, <1>6
      <4>9. \A g \in Len(mem) + 1 .. Len(mem') : g = Target' BY <4>4, <1>5
      <4>10. buf_t' \in 0 .. Len(mem') BY <4>1, <4>4, <1>5
      <4>11. Len(mem) <= Len(mem') BY <4>4, <1>5
      <4> QED BY <4>1, <4>4, <4>5, <4>6, <4>7, <4>8, <4>9, <4>10, <4>11 DEF C
    <3>2. CASE full
      <4> DEFINE G == Grown(B)
                 C == [G EXCEPT ![t.step].k[c] = size + 1]
      <4>1. /\ G \in Seq(Node) /\ Len(G) \in Nat /\ Len(G) > Len(B)
            /\ \A n \in 1 .. Len(B) : G[n] = B[n]
            /\ \A n \in Len(B) + 1 .. Len(G) : G[n] = EmptyStep
        <5>1. Len(B) >= 1 BY <1>7, <1>8
        <5> QED BY <5>1, <1>7, GrownShape
      <4>2. CASE buf_t # 0
        <5>1. mem' = [mem EXCEPT ![buf_t] = [Grown(@) EXCEPT ![t.step].k[c] = size + 1]]
              /\ buf_t' = buf_t
          BY <1>12, <3>2, <4>2 DEF AddChar
        <5>2. Target = buf_t /\ Target' = buf_t BY <4>2, <5>1 DEF Target
        <5>3. mem' = [mem EXCEPT ![buf_t] = C] BY <5>1, <5>2
        <5> HIDE DEF G
        <5>4. C \in Seq(Node)
          <6>1. t.step \in 1 .. Len(G) BY <1>7, <1>9, <4>1
          <6> QED BY <6>1, <4>1, <1>90
        <5>5. Extends(G, B) /\ size + 1 <= Len(G) BY <4>1, <1>7, <1>8 DEF Extends
        <5> HIDE DEF C
        <5>6. mem' \in Seq(Seq(Node)) /\ Len(mem') = Len(mem)
              /\ \A g \in 1 .. Len(mem) : mem'[g] = IF g = buf_t THEN C ELSE mem[g]
          BY <1>5, <1>6, <5>2, <5>3, <5>4, ExceptSeq
        <5>7. mem'[Target'] = C BY <5>6, <5>2, <1>6
        <5>8. \A g \in Len(mem) + 1 .. Len(mem') : g = Target' BY <5>6, <1>5
        <5>9. buf_t' \in 0 .. Len(mem') /\ Len(mem) <= Len(mem') BY <5>1, <5>6, <1>5
        <5> QED BY <5>1, <5>2, <5>5, <5>6, <5>7, <5>8, <5>9 DEF C
      <4>3. CASE buf_t = 0
        <5>1. mem' = NewBuffer(t.step, c) /\ buf_t' = Len(mem) + 1
          BY <1>12, <3>2, <4>3 DEF AddChar
        <5>2. Target = abuf /\ Target' = Len(mem) + 1 BY <1>5, <4>3, <5>1 DEF Target
        <5>3. mem' = Append(mem, C) BY <5>1, <5>2 DEF NewBuffer
        <5> HIDE DEF G
        <5>4. C \in Seq(Node)
          <6>1. t.step \in 1 .. Len(G) BY <1>7, <1>9, <4>1
          <6> QED BY <6>1, <4>1, <1>90
        <5>5. Extends(G, B) /\ size + 1 <= Len(G) BY <4>1, <1>7, <1>8 DEF Extends
        <5> HIDE DEF C
        <5>6. mem' \in Seq(Seq(Node)) /\ Len(mem') = Len(mem) + 1
              /\ (\A g \in 1 .. Len(mem) : mem'[g] = mem[g]) /\ mem'[Len(mem) + 1] = C
          BY <1>5, <5>3, <5>4, AppendProperties
        <5>7. \A g \in Len(mem) + 1 .. Len(mem') : g = Target' BY <5>2, <5>6, <1>5
        <5>8. buf_t' \in 0 .. Len(mem') /\ Len(mem) <= Len(mem') BY <5>1, <5>6, <1>5
        <5>9. mem'[Target'] = C BY <5>2, <5>6
        <5> QED BY <5>1, <5>5, <5>6, <5>7, <5>8, <5>9 DEF C
      <4> QED BY <4>2, <4>3
    <3> QED BY <3>1, <3>2
  <2> QED BY <1>1, <1>2, <1>3, <1>4, <1>12, <2>1, <2>2
<1> QED BY <1>11, <1>12

\* A new node is in the buffer that has the link to it.
LEMMA SafeAddChar ==
    ASSUME Safe, NEW l \in Loops, AddChar(l)
    PROVE  Safe'
<1> DEFINE t == th[l]
           c == t.key[t.i + 1]
           s == t.step
           B == mem[Target]
           next == B[s].k[c]
<1>0. t \in Thread /\ Fits(l, t) BY DEF Safe
<1>1. /\ t.pc = "add" /\ t.i < Len(t.key) /\ t.i + 1 \in 1 .. Len(t.key) /\ c \in Chars
      /\ UNCHANGED <<abuf, queues, vcap, lock, service>>
  BY AddCharEffect
<1>2. t.key \in Keys /\ t.i \in Nat /\ Len(t.key) \in Nat BY <1>0, <1>1, NameShape DEF Fits, Thread
<1>3. /\ abuf \in 1 .. Len(mem) /\ buf_t \in 0 .. Len(mem) /\ mem \in Seq(Seq(Node))
      /\ Len(mem) \in Nat /\ Len(queues) \in Nat /\ size \in Nat
  BY LenProperties DEF Safe, Buffers, Lists
<1>4. Target \in 1 .. Len(mem) BY <1>3 DEF Target
<1>5. B \in Seq(Node) /\ Len(B) \in Nat /\ Inside(B, Len(queues))
  BY <1>3, <1>4, ElementOfSeq, LenProperties DEF Safe, Buffers
<1>6. size >= 1 /\ size <= Len(B) /\ s \in 1 .. size BY <1>0, <1>1 DEF Safe, Buffers, Fits
<1>7. lock = l BY <1>1 DEF Safe, Locked, Changing
<1>8. \A g \in 1 .. Len(mem) : mem[g] \in Seq(Node) /\ Len(mem[g]) \in Nat
  BY <1>3, ElementOfSeq, LenProperties
<1>9. ASSUME NEW n \in 1 .. size', size' \in Nat, size <= size',
             th' = [th EXCEPT ![l].step = n, ![l].i = @ + 1],
             Buffers', Lists', Len(mem) <= Len(mem'),
             \A g \in 1 .. Len(mem) : Len(mem[g]) <= Len(mem'[g])
      PROVE Safe'
  <2> DEFINE u == [t EXCEPT !.step = n, !.i = @ + 1]
  <2>1. n \in Nat /\ t.i + 1 \in Nat BY <1>2, <1>9
  <2>2. u \in Thread /\ u.pc = "add" /\ u.step = n /\ u.i = t.i + 1 /\ u.key = t.key
        /\ u.std = t.std /\ u.n = t.n
    BY <1>0, <1>1, <2>1 DEF Thread
  <2>3. th' = [th EXCEPT ![l] = u] BY <1>0, <1>9 DEF Thread
  <2> HIDE DEF u
  <2>4. th'[l] = u /\ th' = [th EXCEPT ![l] = th'[l]] BY <2>3 DEF Safe
  <2>5. t.n # 0 /\ t.std <= Len(queues) /\ t.n <= Len(queues) BY <1>0, <1>1 DEF Fits
  <2>6. u.i <= Len(u.key) BY <1>1, <1>2, <2>2
  <2>7. Fits(l, th[l])' BY <1>1, <1>2, <1>9, <2>2, <2>4, <2>5, <2>6 DEF Fits
  <2>8. Len(queues) <= Len(queues') BY <1>1, <1>3
  <2> QED BY <1>1, <1>7, <1>9, <2>2, <2>4, <2>7, <2>8, LockedStep DEF Changing, service
<1>10. CASE next # 0 /\ next \in Nat /\ UNCHANGED trie
            /\ th' = [th EXCEPT ![l].step = next, ![l].i = @ + 1]
  <2>1. s \in 1 .. Len(B) BY <1>3, <1>5, <1>6
  <2>2. next <= size BY <1>1, <2>1 DEF Safe, Buffers
  <2>3. next \in 1 .. size
    <3>1. next # 0 /\ next \in Nat BY <1>10
    <3> HIDE DEF next
    <3> QED BY <1>3, <2>2, <3>1
  <2>4. mem' = mem /\ size' = size /\ abuf' = abuf /\ buf_t' = buf_t BY <1>10 DEF trie
  <2>5. Buffers' BY <1>1, <2>4 DEF Safe, Buffers, Target
  <2>6. Lists' BY <1>1, <2>4 DEF Safe, Lists, service
  <2>7. \A g \in 1 .. Len(mem) : Len(mem[g]) <= Len(mem'[g]) BY <1>8, <2>4
  <2>8. th' = [th EXCEPT ![l].step = next, ![l].i = @ + 1] BY <1>10
  <2> HIDE DEF next
  <2>9. size' \in Nat /\ size <= size' /\ Len(mem) <= Len(mem') /\ next \in 1 .. size'
    BY <1>3, <2>3, <2>4
  <2> QED BY <1>9, <2>5, <2>6, <2>7, <2>8, <2>9
<1>11. CASE /\ next = 0 /\ size' = size + 1
            /\ th' = [th EXCEPT ![l].step = size + 1, ![l].i = @ + 1]
            /\ \E G : /\ Extends(G, mem[Target]) /\ size + 1 <= Len(G)
                      /\ mem'[Target'] = [G EXCEPT ![t.step].k[c] = size + 1]
            /\ mem' \in Seq(Seq(Node)) /\ Len(mem) <= Len(mem')
            /\ \A g \in 1 .. Len(mem) : g # Target' => mem'[g] = mem[g]
            /\ \A g \in Len(mem) + 1 .. Len(mem') : g = Target'
            /\ \/ buf_t' = buf_t /\ Len(mem') = Len(mem)
               \/ buf_t' = Len(mem) + 1
            /\ buf_t' \in 0 .. Len(mem')
  <2>1. PICK G : /\ Extends(G, B) /\ size + 1 <= Len(G)
                 /\ mem'[Target'] = [G EXCEPT ![s].k[c] = size + 1]
    BY <1>11
  <2>0. /\ size' = size + 1 /\ mem' \in Seq(Seq(Node)) /\ Len(mem) <= Len(mem')
        /\ \A g \in 1 .. Len(mem) : g # Target' => mem'[g] = mem[g]
        /\ \A g \in Len(mem) + 1 .. Len(mem') : g = Target'
        /\ \/ buf_t' = buf_t /\ Len(mem') = Len(mem)
           \/ buf_t' = Len(mem) + 1
        /\ buf_t' \in 0 .. Len(mem')
    BY <1>11
  <2> DEFINE C == WithLink(G, s, c, size + 1)
  <2>2. G \in Seq(Node) /\ Len(G) \in Nat /\ Len(B) <= Len(G) BY <2>1, LenProperties DEF Extends
  <2>3. s \in 1 .. Len(G) /\ size + 1 \in Nat
    <3> HIDE DEF s, B
    <3>1. size <= Len(G) BY <1>3, <2>1, <2>2
    <3> QED BY <1>3, <1>6, <2>2, <3>1
  <2>4. /\ C \in Seq(Node) /\ Len(C) = Len(G)
        /\ \A n \in 1 .. Len(G) :
              /\ C[n].end = G[n].end /\ C[n].std = G[n].std
              /\ \A d \in Chars : C[n].k[d] = IF n = s /\ d = c THEN size + 1 ELSE G[n].k[d]
    <3> HIDE DEF c, s
    <3> QED BY <1>1, <2>2, <2>3, LinkWritten
  <2> HIDE DEF C
  <2>5. mem'[Target'] = C BY <2>1 DEF C, WithLink
  <2>6. Inside(C, Len(queues))
    <3> SUFFICES ASSUME NEW n \in 1 .. Len(C)
                 PROVE  /\ C[n].end <= Len(queues) /\ C[n].std <= Len(queues)
                        /\ \A d \in Chars : C[n].k[d] <= Len(C)
      BY <2>4 DEF Inside
    <3>1. CASE n \in 1 .. Len(B)
      <4>1. G[n] = B[n] BY <2>1, <3>1 DEF Extends
      <4>2. B[n].end <= Len(queues) /\ B[n].std <= Len(queues) /\ \A d \in Chars : B[n].k[d] <= Len(B)
        BY <1>5, <3>1 DEF Inside
      <4>3. B[n] \in Node BY <1>5, <3>1, ElementOfSeq
      <4>4. \A d \in Chars : B[n].k[d] \in Nat BY <4>3 DEF Node
      <4>5. \A d \in Chars : B[n].k[d] <= Len(G) BY <1>5, <2>2, <4>2, <4>4
      <4> QED BY <2>1, <2>4, <4>1, <4>2, <4>5
    <3>2. CASE n \notin 1 .. Len(B)
      <4>1. n \in Len(B) + 1 .. Len(G) /\ n # s BY <1>3, <1>5, <1>6, <2>2, <2>4, <3>2
      <4>2. G[n] = EmptyStep BY <2>1, <4>1 DEF Extends
      <4>3. n \in 1 .. Len(G) BY <2>4
      <4>4. C[n].end = 0 /\ C[n].std = 0 /\ \A d \in Chars : C[n].k[d] = 0
        BY <2>4, <4>1, <4>2, <4>3, EmptyStepShape
      <4> QED BY <1>3, <2>2, <2>4, <4>4
    <3> QED BY <3>1, <3>2
  <2>7. abuf' = abuf /\ Len(mem') \in Nat BY <1>1, <2>0, LenProperties
  <2>8. Target' \in 1 .. Len(mem') /\ buf_t' # abuf'
    <3>1. abuf' \in 1 .. Len(mem') BY <1>3, <2>0, <2>7
    <3>2. buf_t' # abuf' BY <1>3, <2>0, <2>7 DEF Safe, Buffers
    <3> QED BY <3>1, <3>2, <2>0 DEF Target
  <2>9. \A g \in 1 .. Len(mem') : Inside(mem'[g], Len(queues'))
    <3> SUFFICES ASSUME NEW g \in 1 .. Len(mem') PROVE Inside(mem'[g], Len(queues')) OBVIOUS
    <3>1. CASE g = Target' BY <1>1, <2>5, <2>6, <3>1
    <3>2. CASE g # Target'
      <4>1. g \in 1 .. Len(mem) BY <1>3, <2>0, <2>7, <3>2
      <4>2. mem'[g] = mem[g] BY <2>0, <3>2, <4>1
      <4> QED BY <1>1, <4>1, <4>2 DEF Safe, Buffers
    <3> QED BY <3>1, <3>2
  <2>10. \A g \in 1 .. Len(mem) : Len(mem[g]) <= Len(mem'[g])
    <3> SUFFICES ASSUME NEW g \in 1 .. Len(mem) PROVE Len(mem[g]) <= Len(mem'[g]) OBVIOUS
    <3>1. CASE g # Target' BY <1>8, <2>0, <3>1
    <3>2. CASE g = Target'
      <4>1. buf_t' # Len(mem) + 1 BY <1>3, <2>7, <3>2 DEF Target
      <4>2. buf_t' = buf_t BY <2>0, <4>1
      <4>3. g = Target BY <2>7, <3>2, <4>2 DEF Target
      <4> QED BY <3>2, <4>3, <2>2, <2>4, <2>5
    <3> QED BY <3>1, <3>2
  <2>11. Buffers'
    <3>1. size' <= Len(mem'[Target']) BY <2>0, <2>1, <2>4, <2>5
    <3>2. Len(mem'[abuf']) >= 1
      <4>1. Len(mem[abuf]) >= 1 /\ Len(mem[abuf]) <= Len(mem'[abuf])
        BY <1>3, <2>10 DEF Safe, Buffers
      <4>2. abuf \in 1 .. Len(mem') BY <1>3, <2>0, <2>7
      <4>3. mem'[abuf] \in Seq(Node) BY <2>0, <4>2, ElementOfSeq
      <4>4. Len(mem'[abuf]) \in Nat BY <4>3, LenProperties
      <4> QED BY <1>3, <1>8, <2>7, <4>1, <4>4
    <3>3. size' \in Nat \ {0} BY <1>3, <2>0
    <3>4. abuf' \in 1 .. Len(mem') BY <1>3, <2>0, <2>7
    <3>5. \A n \in 1 .. Len(mem'[Target']) : \A d \in Chars : mem'[Target'][n].k[d] <= size'
      <4> SUFFICES ASSUME NEW n \in 1 .. Len(C), NEW d \in Chars PROVE C[n].k[d] <= size + 1
        BY <2>0, <2>5
      <4>1. n \in 1 .. Len(G) BY <2>4
      <4>2. C[n].k[d] = size + 1 \/ C[n].k[d] = G[n].k[d] BY <2>4, <4>1
      <4>3. CASE n \in 1 .. Len(B)
        <5>1. G[n] = B[n] BY <2>1, <4>3 DEF Extends
        <5>2. B[n].k[d] <= size BY <4>3 DEF Safe, Buffers
        <5>3. B[n] \in Node BY <1>5, <4>3, ElementOfSeq
        <5>4. B[n].k[d] \in Nat BY <5>3 DEF Node
        <5>5. \A x \in Nat : x <= size => x <= size + 1 BY <1>3
        <5>6. G[n].k[d] <= size + 1 BY <5>1, <5>2, <5>4, <5>5
        <5> QED BY <1>3, <4>2, <5>6
      <4>4. CASE n \notin 1 .. Len(B)
        <5>1. n \in Len(B) + 1 .. Len(G) BY <1>5, <2>2, <4>1, <4>4
        <5>2. G[n].k[d] = 0 BY <2>1, <5>1, EmptyStepShape DEF Extends
        <5> QED BY <1>3, <4>2, <5>2
      <4> QED BY <4>3, <4>4
    <3> QED BY <2>0, <2>8, <2>9, <3>1, <3>2, <3>3, <3>4, <3>5 DEF Buffers
  <2>12. Lists'
    <3>1. \A S \in SUBSET (1 .. Len(mem)) : S \in SUBSET (1 .. Len(mem')) /\ Len(mem) + 1 \notin S
      <4>1. 1 .. Len(mem) \subseteq 1 .. Len(mem') /\ Len(mem) + 1 \notin 1 .. Len(mem)
        <5>1. Len(mem) \in Nat /\ Len(mem') \in Nat /\ Len(mem) <= Len(mem') BY <1>3, <2>0, <2>7
        <5>2. \A a, b \in Nat : a <= b => 1 .. a \subseteq 1 .. b /\ a + 1 \notin 1 .. a OBVIOUS
        <5> QED BY <5>1, <5>2
      <4> QED BY <4>1
    <3>2. Lists BY DEF Safe
    <3>3. buf_t' \notin freeList \cup taken \cup freed BY <2>0, <3>1, <3>2 DEF Lists
    <3> QED BY <1>1, <2>7, <3>1, <3>2, <3>3 DEF Lists, service
  <2>13. size + 1 \in 1 .. size' /\ size' \in Nat /\ size <= size' BY <1>3, <2>0
  <2> QED BY <1>9, <1>11, <2>0, <2>10, <2>11, <2>12, <2>13
<1> QED BY <1>10, <1>11, AddCharEffect

\* A value is written to, or cleared in, the buffer that add writes to.
LEMMA ValueWritten ==
    ASSUME Safe, NEW s \in 1 .. Len(mem[Target]), NEW v \in 0 .. Len(queues), NEW C,
           \/ C = [mem[Target] EXCEPT ![s].end = v]
           \/ C = [mem[Target] EXCEPT ![s].std = v],
           mem' = [mem EXCEPT ![Target] = C],
           UNCHANGED <<abuf, buf_t, size, queues>>
    PROVE  /\ Buffers' /\ Len(mem') = Len(mem) /\ Target' = Target /\ mem'[Target] = C
           /\ \A g \in 1 .. Len(mem) : Len(mem'[g]) = Len(mem[g])
           /\ \A g \in 1 .. Len(mem) : g # Target => mem'[g] = mem[g]
<1> DEFINE B == mem[Target]
<1>1. /\ abuf \in 1 .. Len(mem) /\ buf_t \in 0 .. Len(mem) /\ mem \in Seq(Seq(Node))
      /\ Len(mem) \in Nat /\ Len(queues) \in Nat /\ size \in Nat
  BY LenProperties DEF Safe, Buffers, Lists
<1>2. Target \in 1 .. Len(mem) BY <1>1 DEF Target
<1>3. B \in Seq(Node) /\ Inside(B, Len(queues)) BY <1>1, <1>2, ElementOfSeq DEF Safe, Buffers
<1>4. v \in Nat /\ v <= Len(queues) BY <1>1
<1>5. /\ C \in Seq(Node) /\ Len(C) = Len(B)
      /\ \A n \in 1 .. Len(B) :
            /\ C[n].end \in {v, B[n].end} /\ C[n].std \in {v, B[n].std} /\ C[n].k = B[n].k
  <2> HIDE DEF B
  <2>1. s \in 1 .. Len(B) BY DEF B
  <2>2. CASE C = [B EXCEPT ![s].end = v] BY <1>3, <1>4, <2>1, <2>2, EndWritten
  <2>3. CASE C = [B EXCEPT ![s].std = v] BY <1>3, <1>4, <2>1, <2>3, StdWritten
  <2> QED BY <2>2, <2>3 DEF B
<1>6. /\ mem' \in Seq(Seq(Node)) /\ Len(mem') = Len(mem)
      /\ \A g \in 1 .. Len(mem) : mem'[g] = IF g = Target THEN C ELSE mem[g]
  <2> DEFINE T == Seq(Node)
  <2>1. mem \in Seq(T) /\ C \in T BY <1>1, <1>5
  <2> HIDE DEF T, B
  <2>2. /\ mem' \in Seq(T) /\ Len(mem') = Len(mem)
        /\ \A g \in 1 .. Len(mem) : mem'[g] = IF g = Target THEN C ELSE mem[g]
    BY <1>2, <2>1, ExceptSeq
  <2> QED BY <2>2 DEF T
<1>7. Target' = Target BY DEF Target
<1>8. \A g \in 1 .. Len(mem) : Len(mem'[g]) = Len(mem[g]) BY <1>5, <1>6
<1>9. Inside(C, Len(queues))
  <2> SUFFICES ASSUME NEW n \in 1 .. Len(B)
               PROVE  /\ C[n].end <= Len(queues) /\ C[n].std <= Len(queues)
                      /\ \A d \in Chars : C[n].k[d] <= Len(C)
    BY <1>5 DEF Inside
  <2> QED BY <1>3, <1>4, <1>5 DEF Inside
<1>10. Buffers'
  <2>1. \A g \in 1 .. Len(mem') : Inside(mem'[g], Len(queues')) BY <1>6, <1>9 DEF Safe, Buffers
  <2>2. size' <= Len(mem'[Target']) /\ Len(mem'[abuf']) >= 1
    BY <1>1, <1>2, <1>7, <1>8 DEF Safe, Buffers
  <2>3. \A n \in 1 .. Len(mem'[Target']) : \A c \in Chars : mem'[Target'][n].k[c] <= size'
    <3>1. mem'[Target'] = C BY <1>2, <1>6, <1>7
    <3>2. \A n \in 1 .. Len(B) : \A c \in Chars : B[n].k[c] <= size BY DEF Safe, Buffers
    <3> QED BY <1>5, <3>1, <3>2
  <2> QED BY <1>6, <2>1, <2>2, <2>3 DEF Safe, Buffers
<1> QED BY <1>2, <1>6, <1>7, <1>8, <1>10

\* What AddValue does, as far as memory is concerned.
LEMMA AddValueEffect ==
    ASSUME Safe, NEW l \in Loops, AddValue(l)
    PROVE  LET t == th[l]
               B == mem[Target]
               C == IF t.i = Len(t.key) THEN [B EXCEPT ![t.step].end = t.n]
                    ELSE [B EXCEPT ![t.step].std = t.n]
           IN  /\ t.pc = "add" /\ t.i <= Len(t.key) /\ t.key \in Keys
               /\ t.i < Len(t.key) => t.key[t.i + 1] = Star
               /\ t.step \in 1 .. size /\ t.step \in 1 .. Len(B) /\ t.n \in 1 .. Len(queues)
               /\ Target' = Target /\ mem'[Target] = C
               /\ Safe' /\ th'[l].pc \in {"done", "publish"} /\ UNCHANGED <<size, queues>>
               /\ \A k \in Loops : k # l => th'[k] = th[k]
<1> DEFINE t == th[l]
           B == mem[Target]
           C == IF t.i = Len(t.key) THEN [B EXCEPT ![t.step].end = t.n]
                ELSE [B EXCEPT ![t.step].std = t.n]
<1>0. t \in Thread /\ Fits(l, t) /\ Lists BY DEF Safe
<1>1. t.pc = "add" /\ UNCHANGED <<abuf, buf_t, size, queues, vcap, service>> BY DEF AddValue
<1>2. /\ t.key \in Keys /\ t.i \in Nat /\ t.i <= Len(t.key) /\ t.n \in Nat /\ t.n # 0
      /\ t.n <= Len(queues) /\ t.step \in 1 .. size
  BY <1>0, <1>1 DEF Fits, Thread
<1>3. /\ abuf \in 1 .. Len(mem) /\ buf_t \in 0 .. Len(mem) /\ mem \in Seq(Seq(Node))
      /\ Len(mem) \in Nat /\ Len(queues) \in Nat /\ size \in Nat
  BY LenProperties DEF Safe, Buffers, Lists
<1>4. Target \in 1 .. Len(mem) BY <1>3 DEF Target
<1>5. Len(B) \in Nat /\ size <= Len(B) BY <1>3, <1>4, ElementOfSeq, LenProperties DEF Safe, Buffers
<1>6. t.step \in 1 .. Len(B) /\ t.n \in 1 .. Len(queues) /\ t.n \in 0 .. Len(queues)
  <2> HIDE DEF t, B
  <2> QED BY <1>2, <1>3, <1>5
<1>7. mem' = [mem EXCEPT ![Target] = C]
  <2>1. CASE t.i = Len(t.key)
    <3>1. mem' = [mem EXCEPT ![Target][t.step].end = t.n] BY <2>1 DEF AddValue
    <3> QED BY <2>1, <3>1
  <2>2. CASE t.i # Len(t.key)
    <3>1. mem' = [mem EXCEPT ![Target][t.step].std = t.n] BY <2>2 DEF AddValue
    <3> QED BY <2>2, <3>1
  <2> QED BY <2>1, <2>2
<1>8. C = [mem[Target] EXCEPT ![t.step].end = t.n] \/ C = [mem[Target] EXCEPT ![t.step].std = t.n]
  OBVIOUS
<1> HIDE DEF C
<1>9. /\ Buffers' /\ Len(mem') = Len(mem) /\ Target' = Target /\ mem'[Target] = C
      /\ \A g \in 1 .. Len(mem) : Len(mem'[g]) = Len(mem[g])
  <2>1. UNCHANGED <<abuf, buf_t, size, queues>> BY <1>1
  <2>2. PICK s \in 1 .. Len(mem[Target]), v \in 0 .. Len(queues) : s = t.step /\ v = t.n BY <1>6
  <2>3. C = [mem[Target] EXCEPT ![s].end = v] \/ C = [mem[Target] EXCEPT ![s].std = v]
    BY <1>8, <2>2
  <2> HIDE DEF t
  <2> QED BY <2>1, <2>3, <1>7, ValueWritten
<1>10. Lists'
  <2>1. lock' \in Loops \cup {None}
    BY <1>0, <1>1 DEF AddValue, Lists
  <2> QED BY <1>0, <1>1, <1>9, <2>1 DEF Lists, service
<1>11. lock = l BY <1>1 DEF Safe, Locked, Changing
<1>12. \A g \in 1 .. Len(mem) : Len(mem[g]) <= Len(mem'[g])
  <2>1. \A g \in 1 .. Len(mem) : Len(mem[g]) \in Nat BY <1>3, ElementOfSeq, LenProperties
  <2> QED BY <1>9, <2>1
<1>13. Len(mem) <= Len(mem') /\ size <= size' /\ Len(queues) <= Len(queues') BY <1>1, <1>3, <1>9
<1>14. None \notin Loops BY KeysAssumption
<1>15. Safe' /\ th'[l].pc \in {"done", "publish"}
  <2>1. CASE buf_t = 0
    <3> DEFINE u == [t EXCEPT !.pc = "done", !.got = t.key, !.n = 0, !.step = 0, !.i = 0]
    <3>1. u \in Thread /\ u.pc = "done" /\ u.n = 0 /\ u.std = t.std BY <1>0, <1>2 DEF Thread, Names0
    <3>2. th' = [th EXCEPT ![l] = u] /\ lock' = None BY <1>0, <2>1 DEF AddValue, Created, Thread
    <3> HIDE DEF u
    <3>3. th'[l] = u /\ th' = [th EXCEPT ![l] = th'[l]] BY <3>2 DEF Safe
    <3>4. Fits(l, th[l])' BY <1>0, <1>1, <1>3, <3>1, <3>3 DEF Fits
    <3> QED BY <1>1, <1>9, <1>10, <1>11, <1>12, <1>13, <1>14, <2>1, <3>1, <3>2, <3>3, <3>4,
        LockedStep
            DEF Changing, service
  <2>2. CASE buf_t # 0
    <3> DEFINE u == [t EXCEPT !.pc = "publish"]
    <3>1. u \in Thread /\ u.pc = "publish" /\ u.n = t.n /\ u.std = t.std /\ u.key = t.key
      BY <1>0 DEF Thread
    <3>2. th' = [th EXCEPT ![l] = u] /\ lock' = lock BY <1>0, <2>2 DEF AddValue, Thread
    <3> HIDE DEF u
    <3>3. th'[l] = u /\ th' = [th EXCEPT ![l] = th'[l]] BY <3>2 DEF Safe
    <3>4. Fits(l, th[l])' BY <1>0, <1>1, <1>2, <1>3, <3>1, <3>3 DEF Fits
    <3> QED BY <1>1, <1>9, <1>10, <1>11, <1>12, <1>13, <1>14, <2>2, <3>1, <3>2, <3>3, <3>4,
        LockedStep
            DEF Changing, service
  <2> QED BY <2>1, <2>2
<1>16. \A k \in Loops : k # l => th'[k] = th[k] BY DEF AddValue, Created, Safe
<1>17. t.i < Len(t.key) => t.key[t.i + 1] = Star BY DEF AddValue
<1> QED BY <1>1, <1>2, <1>6, <1>9, <1>15, <1>16, <1>17 DEF C

\* The outgrown buffer is not published any more when it is retired.
LEMMA SafePublish ==
    ASSUME Safe, NEW l \in Loops, Publish(l)
    PROVE  Safe' /\ Target' = Target /\ th'[l].pc = "retire" /\ UNCHANGED <<mem, size, queues>>
           /\ \A k \in Loops : k # l => th'[k] = th[k]
<1>0. th[l] \in Thread /\ Fits(l, th[l]) /\ Lists /\ Buffers BY DEF Safe
<1>1. /\ th[l].pc = "publish" /\ abuf' = buf_t /\ buf_t' = 0
      /\ UNCHANGED <<mem, size, queues, vcap, lock, service>>
  BY DEF Publish
<1>2. buf_t # 0 /\ lock = l BY <1>1 DEF Safe, Locked, Changing
<1>3. /\ abuf \in 1 .. Len(mem) /\ buf_t \in 1 .. Len(mem) /\ mem \in Seq(Seq(Node))
      /\ Len(mem) \in Nat /\ Len(queues) \in Nat /\ size \in Nat /\ size >= 1
  BY <1>0, <1>2, LenProperties DEF Buffers, Lists
<1>4. Target = buf_t /\ Target' = buf_t BY <1>1, <1>2 DEF Target
<1>5. Len(mem[buf_t]) \in Nat /\ size <= Len(mem[buf_t])
  BY <1>0, <1>3, <1>4, ElementOfSeq, LenProperties DEF Buffers
<1>6. Buffers'
  <2>1. Len(mem'[abuf']) >= 1 BY <1>1, <1>3, <1>5
  <2>2. buf_t' \in 0 .. Len(mem') /\ abuf' \in 1 .. Len(mem') /\ buf_t' # abuf' BY <1>1, <1>2, <1>3
  <2> QED BY <1>0, <1>1, <1>4, <2>1, <2>2 DEF Buffers
<1>7. Lists'
  <2>1. 0 \notin freeList \cup taken \cup freed BY <1>0, <1>3 DEF Lists
  <2> QED BY <1>0, <1>1, <2>1 DEF Lists, service
<1> DEFINE u == [th[l] EXCEPT !.pc = "retire", !.ptr = abuf]
<1>8. abuf \in Nat BY <1>3
<1>9. /\ u \in Thread /\ u.pc = "retire" /\ u.ptr = abuf /\ u.n = th[l].n /\ u.std = th[l].std
      /\ u.key = th[l].key
  BY <1>0, <1>8 DEF Thread
<1>10. th' = [th EXCEPT ![l] = u] BY <1>0 DEF Publish, Thread
<1> HIDE DEF u
<1>11. th'[l] = u /\ th' = [th EXCEPT ![l] = th'[l]] BY <1>10 DEF Safe
<1>12. abuf # abuf' BY <1>0, <1>1 DEF Buffers
<1>13. Fits(l, th[l])' BY <1>0, <1>1, <1>3, <1>9, <1>11, <1>12 DEF Fits
<1>14. \A g \in 1 .. Len(mem) : Len(mem[g]) <= Len(mem'[g])
  <2>1. \A g \in 1 .. Len(mem) : Len(mem[g]) \in Nat BY <1>3, ElementOfSeq, LenProperties
  <2> QED BY <1>1, <2>1
<1>15. Len(mem) <= Len(mem') /\ size <= size' /\ Len(queues) <= Len(queues') BY <1>1, <1>3
<1>16. Safe'
  BY <1>1, <1>2, <1>6, <1>7, <1>9, <1>11, <1>13, <1>14, <1>15, LockedStep DEF Changing, service
<1>17. \A k \in Loops : k # l => th'[k] = th[k] BY <1>10 DEF Safe
<1> QED BY <1>1, <1>4, <1>9, <1>11, <1>16, <1>17

\* The service frees the outgrown buffer, no sooner than a find has left it.
LEMMA SafeRetire ==
    ASSUME Safe, NEW l \in Loops, Retire(l)
    PROVE  Safe' /\ UNCHANGED <<trie, queues>> /\ th'[l].pc = "done"
           /\ \A k \in Loops : k # l => th'[k] = th[k]
<1>0. th[l] \in Thread /\ Fits(l, th[l]) /\ Lists /\ Buffers BY DEF Safe
<1>1. /\ th[l].pc = "retire" /\ freeList' = freeList \cup {th[l].ptr} /\ lock' = None
      /\ UNCHANGED <<trie, queues, vcap, taken, waited, freed>>
  BY DEF Retire
<1>2. lock = l BY <1>1 DEF Safe, Locked, Changing
<1>3. buf_t = 0
  <2>1. \A k \in Loops : k # l => th[k].pc \notin Changing BY <1>2, Alone
  <2>2. \A k \in Loops : th[k].pc \notin {"add", "publish"} BY <1>1, <2>1 DEF Changing
  <2> QED BY <2>2 DEF Safe, Locked
<1>4. /\ mem \in Seq(Seq(Node)) /\ Len(mem) \in Nat /\ Len(queues) \in Nat /\ size \in Nat
  BY <1>0, LenProperties DEF Buffers, Lists
<1>5. Buffers' BY <1>0, <1>1 DEF Buffers, trie, Target
<1>6. th[l].ptr \in 1 .. Len(mem) /\ th[l].ptr # abuf /\ th[l].key \in Keys BY <1>0, <1>1 DEF Fits
<1>7. Lists'
  <2>1. th[l].ptr # buf_t BY <1>3, <1>6
  <2> QED BY <1>0, <1>1, <1>6, <2>1 DEF Lists, trie
<1> DEFINE u == [th[l] EXCEPT !.pc = "done", !.got = th[l].key, !.n = 0, !.step = 0, !.i = 0, !.ptr = 0]
<1>8. u \in Thread /\ u.pc = "done" /\ u.n = 0 /\ u.std = th[l].std
  BY <1>0, <1>6 DEF Thread, Names0
<1>9. th' = [th EXCEPT ![l] = u]
  <2>1. th' = [Created(l) EXCEPT ![l].ptr = 0] BY DEF Retire
  <2> QED BY <2>1, <1>0 DEF Created, Thread, Safe
<1> HIDE DEF u
<1>10. th'[l] = u /\ th' = [th EXCEPT ![l] = th'[l]] BY <1>9 DEF Safe
<1>11. Fits(l, th[l])' BY <1>0, <1>1, <1>4, <1>8, <1>10 DEF Fits
<1>12. mem' = mem /\ size' = size /\ buf_t' = buf_t BY <1>1 DEF trie
<1>13. \A g \in 1 .. Len(mem) : Len(mem[g]) <= Len(mem'[g])
  <2>1. \A g \in 1 .. Len(mem) : Len(mem[g]) \in Nat BY <1>4, ElementOfSeq, LenProperties
  <2> QED BY <1>12, <2>1
<1>14. Len(mem) <= Len(mem') /\ size <= size' /\ Len(queues) <= Len(queues') BY <1>1, <1>4, <1>12
<1>15. None \notin Loops BY KeysAssumption
<1>16. Safe'
  BY <1>1, <1>2, <1>3, <1>5, <1>7, <1>8, <1>10, <1>11, <1>12, <1>13, <1>14, <1>15, LockedStep
     DEF Changing
<1>17. \A k \in Loops : k # l => th'[k] = th[k] BY <1>9 DEF Safe
<1> QED BY <1>1, <1>8, <1>10, <1>16, <1>17

\* When nobody holds the lock, the buffer that add writes to is the published one.
LEMMA FreeTarget ==
    ASSUME Safe, lock = None
    PROVE  buf_t = 0 /\ Target = abuf
<1>1. \A k \in Loops : th[k].pc \notin Changing BY KeysAssumption DEF Safe, Locked
<1>2. \A k \in Loops : th[k].pc \notin {"add", "publish"} BY <1>1 DEF Changing
<1>3. buf_t = 0 BY <1>2 DEF Safe, Locked
<1> QED BY <1>3 DEF Target

\* What DeleteQueue does, as far as memory is concerned.
LEMMA DeleteEffect ==
    ASSUME Safe, NEW l \in Loops, NEW op \in {"find", "create", "delete"}, NEW key \in Keys,
           DeleteQueue(l, op, key)
    PROVE  LET s == NodeOf(key)
               B == mem[Target]
               n == IF Pattern(key) THEN B[s].std ELSE B[s].end
               C == IF Pattern(key) THEN [B EXCEPT ![s].std = 0] ELSE [B EXCEPT ![s].end = 0]
           IN  /\ th[l].pc = "idle" /\ op = "delete" /\ lock = None /\ lock' = l
               /\ Target = abuf /\ s \in 1 .. Len(B) /\ n \in 1 .. Len(queues)
               /\ Target' = Target /\ mem'[Target] = C
               /\ Safe' /\ th'[l].pc = "drop" /\ th'[l].n = n /\ UNCHANGED <<size, queues, vcap>>
               /\ \A k \in Loops : k # l => th'[k] = th[k]
<1> DEFINE s == NodeOf(key)
           B == mem[Target]
           n == IF Pattern(key) THEN B[s].std ELSE B[s].end
           C == IF Pattern(key) THEN [B EXCEPT ![s].std = 0] ELSE [B EXCEPT ![s].end = 0]
<1>0. Lists /\ Buffers BY DEF Safe
<1>1. th[l].pc = "idle" /\ op = "delete" /\ lock = None BY DEF DeleteQueue
<1>2. Target = abuf /\ buf_t = 0 BY <1>1, FreeTarget
<1>3. /\ abuf \in 1 .. Len(mem) /\ mem \in Seq(Seq(Node)) /\ Len(mem) \in Nat
      /\ Len(queues) \in Nat /\ size \in Nat
  BY <1>0, LenProperties DEF Buffers, Lists
<1>4. /\ s \in 0 .. Len(B)
      /\ s # 0 => s \in 1 .. Len(B) /\ B[s].end \in 0 .. Len(queues) /\ B[s].std \in 0 .. Len(queues)
  BY <1>0, <1>2, <1>3, NodeOfShape DEF Buffers
<1>5. /\ s # 0 /\ n # 0 /\ lock' = l /\ UNCHANGED <<abuf, buf_t, size, queues, vcap, service>>
      /\ mem' = [mem EXCEPT ![Target] = C]
      /\ th' = [th EXCEPT ![l] = [Idle EXCEPT !.pc = "drop", !.op = op, !.n = n]]
  <2> HIDE DEF s
  <2>1. s # 0 BY DEF DeleteQueue, s
  <2>2. n # 0 /\ th' = [th EXCEPT ![l] = [Idle EXCEPT !.pc = "drop", !.op = op, !.n = n]]
    BY <1>2, <2>1 DEF DeleteQueue, s
  <2>3. mem' = [mem EXCEPT ![Target] = C]
    <3>1. CASE Pattern(key)
      <4>1. mem' = [mem EXCEPT ![abuf][s].std = 0] BY <3>1 DEF DeleteQueue, s
      <4> QED BY <1>2, <3>1, <4>1
    <3>2. CASE ~Pattern(key)
      <4>1. mem' = [mem EXCEPT ![abuf][s].end = 0] BY <3>2 DEF DeleteQueue, s
      <4> QED BY <1>2, <3>2, <4>1
    <3> QED BY <3>1, <3>2
  <2> QED BY <2>1, <2>2, <2>3 DEF DeleteQueue
<1>6. s \in 1 .. Len(B) /\ n \in 1 .. Len(queues)
  <2>1. n \in 0 .. Len(queues) BY <1>4, <1>5
  <2> HIDE DEF n
  <2> QED BY <1>3, <1>4, <1>5, <2>1
<1>7. /\ Buffers' /\ Len(mem') = Len(mem) /\ Target' = Target /\ mem'[Target] = C
      /\ \A g \in 1 .. Len(mem) : Len(mem'[g]) = Len(mem[g])
  <2>1. 0 \in 0 .. Len(queues) BY <1>3
  <2>2. C = [B EXCEPT ![s].std = 0] \/ C = [B EXCEPT ![s].end = 0] OBVIOUS
  <2>3. PICK r \in 1 .. Len(mem[Target]), v \in 0 .. Len(queues) : r = s /\ v = 0 BY <1>6, <2>1
  <2> HIDE DEF C, s
  <2>4. C = [mem[Target] EXCEPT ![r].end = v] \/ C = [mem[Target] EXCEPT ![r].std = v]
    BY <2>2, <2>3
  <2>5. UNCHANGED <<abuf, buf_t, size, queues>> BY <1>5
  <2>6. mem' = [mem EXCEPT ![Target] = C] BY <1>5
  <2> QED BY <2>4, <2>5, <2>6, ValueWritten
<1> HIDE DEF C, n
<1>8. Lists' BY <1>0, <1>5, <1>7 DEF Lists, service
<1> DEFINE u == [Idle EXCEPT !.pc = "drop", !.op = op, !.n = n]
<1>9. n \in Nat /\ n # 0 /\ n <= Len(queues) BY <1>3, <1>6
<1>10. u \in Thread /\ u.pc = "drop" /\ u.n = n /\ u.std = 0 BY <1>9 DEF Thread, Idle, Names0
<1> HIDE DEF u
<1>11. th' = [th EXCEPT ![l] = u] BY <1>5 DEF u
<1>12. th'[l] = u /\ th' = [th EXCEPT ![l] = th'[l]] BY <1>11 DEF Safe
<1>13. Fits(l, th[l])'
  <2>1. queues' = queues BY <1>5
  <2> QED BY <1>3, <1>9, <1>10, <1>12, <2>1 DEF Fits
<1>14. \A g \in 1 .. Len(mem) : Len(mem[g]) <= Len(mem'[g])
  <2>1. \A g \in 1 .. Len(mem) : Len(mem[g]) \in Nat BY <1>3, ElementOfSeq, LenProperties
  <2> QED BY <1>7, <2>1
<1>15. Len(mem) <= Len(mem') /\ size <= size' /\ Len(queues) <= Len(queues') BY <1>3, <1>5, <1>7
<1>16. Safe'
  BY <1>1, <1>2, <1>5, <1>7, <1>8, <1>10, <1>12, <1>13, <1>14, <1>15, LockedStep DEF Changing,
    service
<1>17. \A k \in Loops : k # l => th'[k] = th[k] BY <1>11 DEF Safe
<1> QED BY <1>1, <1>2, <1>5, <1>6, <1>7, <1>10, <1>12, <1>16, <1>17 DEF C, n

\* The deleted queue leaves its slot empty.
LEMMA SafeDropSlot ==
    ASSUME Safe, NEW l \in Loops, DropSlot(l)
    PROVE  /\ Safe' /\ UNCHANGED trie /\ th'[l].pc = "idle" /\ lock' = None
           /\ th[l].n \in 1 .. Len(queues) /\ Len(queues') = Len(queues)
           /\ \A j \in 1 .. Len(queues) : queues'[j] = IF j = th[l].n THEN None ELSE queues[j]
           /\ \A k \in Loops : k # l => th'[k] = th[k]
<1>0. th[l] \in Thread /\ Fits(l, th[l]) /\ Lists /\ Buffers BY DEF Safe
<1>1. /\ th[l].pc = "drop" /\ queues' = [queues EXCEPT ![th[l].n] = None] /\ lock' = None
      /\ th' = [th EXCEPT ![l] = Idle] /\ UNCHANGED <<trie, vcap, service>>
  BY DEF DropSlot
<1>2. lock = l BY <1>1 DEF Safe, Locked, Changing
<1>3. buf_t = 0
  <2>1. \A k \in Loops : k # l => th[k].pc \notin Changing BY <1>2, Alone
  <2>2. \A k \in Loops : th[k].pc \notin {"add", "publish"} BY <1>1, <2>1 DEF Changing
  <2> QED BY <2>2 DEF Safe, Locked
<1>4. /\ mem \in Seq(Seq(Node)) /\ Len(mem) \in Nat /\ Len(queues) \in Nat /\ size \in Nat
      /\ queues \in Seq(Names0)
  BY <1>0, LenProperties DEF Buffers, Lists
<1>5. th[l].n \in 1 .. Len(queues) BY <1>0, <1>1, <1>4 DEF Fits, Thread
<1>6. None \in Names0 BY DEF Names0
<1>7. /\ queues' \in Seq(Names0) /\ Len(queues') = Len(queues)
      /\ \A j \in 1 .. Len(queues) : queues'[j] = IF j = th[l].n THEN None ELSE queues[j]
  BY <1>1, <1>4, <1>5, <1>6, ExceptSeq
<1>8. mem' = mem /\ size' = size /\ buf_t' = buf_t /\ abuf' = abuf BY <1>1 DEF trie
<1>9. Buffers' BY <1>0, <1>7, <1>8 DEF Buffers, Target
<1>10. Lists' BY <1>0, <1>1, <1>7, <1>8 DEF Lists, service
<1>11. Idle \in Thread /\ Idle.pc = "idle" /\ Idle.std = 0 /\ Idle.n = 0
  BY DEF Idle, Thread, Names0
<1>12. th'[l] = Idle /\ th' = [th EXCEPT ![l] = th'[l]] BY <1>1 DEF Safe
<1>13. Fits(l, th[l])' BY <1>4, <1>7, <1>11, <1>12 DEF Fits
<1>14. \A g \in 1 .. Len(mem) : Len(mem[g]) <= Len(mem'[g])
  <2>1. \A g \in 1 .. Len(mem) : Len(mem[g]) \in Nat BY <1>4, ElementOfSeq, LenProperties
  <2> QED BY <1>8, <2>1
<1>15. Len(mem) <= Len(mem') /\ size <= size' /\ Len(queues) <= Len(queues') BY <1>4, <1>7, <1>8
<1>16. None \notin Loops BY KeysAssumption
<1>17. Safe'
  BY <1>1, <1>2, <1>3, <1>8, <1>9, <1>10, <1>11, <1>12, <1>13, <1>14, <1>15, <1>16, LockedStep
     DEF Changing, service
<1>18. \A k \in Loops : k # l => th'[k] = th[k] BY <1>1 DEF Safe
<1> QED BY <1>1, <1>5, <1>7, <1>11, <1>12, <1>17, <1>18

\* Who runs a find when the list is taken is waited for.
LEMMA SafeTakeList ==
    ASSUME Safe, TakeList
    PROVE  Safe'
<1>0. Lists /\ Buffers BY DEF Safe
<1>1. /\ taken = {} /\ taken' = freeList /\ freeList' = {} /\ waited' = {l \in Loops : Finding(l)}
      /\ UNCHANGED <<trie, queues, vcap, lock, th, freed>>
  BY DEF TakeList
<1>2. mem' = mem /\ size' = size /\ buf_t' = buf_t /\ abuf' = abuf BY <1>1 DEF trie
<1>3. Buffers' BY <1>0, <1>1, <1>2 DEF Buffers, Target
<1>4. Lists' BY <1>0, <1>1, <1>2 DEF Lists
<1>5. Locked' BY <1>1, <1>2 DEF Safe, Locked
<1>6. ASSUME NEW l \in Loops PROVE Fits(l, th[l])'
  <2>1. Fits(l, th[l]) BY DEF Safe
  <2>2. th[l].pc \in {"std", "next"} => l \in waited' BY <1>1 DEF Finding
  <2> QED BY <1>1, <1>2, <2>1, <2>2 DEF Fits
<1>7. th' \in [Loops -> Thread] BY <1>1 DEF Safe
<1> QED BY <1>3, <1>4, <1>5, <1>6, <1>7 DEF Safe

\* Nobody is in a buffer that is freed.
LEMMA SafeFree ==
    ASSUME Safe, Free
    PROVE  Safe' /\ Target' = Target /\ mem'[Target] = mem[Target] /\ mem'[abuf] = mem[abuf]
           /\ UNCHANGED <<abuf, size, queues, th>>
           /\ \A l \in Loops : Finding(l) => mem'[th[l].ptr] = mem[th[l].ptr]
<1>0. Lists /\ Buffers BY DEF Safe
<1>1. /\ taken # {} /\ waited = {} /\ freed' = freed \cup taken /\ taken' = {} /\ waited' = {}
      /\ mem' = [g \in DOMAIN mem |-> IF g \in taken THEN << >> ELSE mem[g]]
      /\ UNCHANGED <<abuf, buf_t, size, queues, vcap, lock, freeList, th>>
  BY DEF Free, Grace
<1>2. /\ mem \in Seq(Seq(Node)) /\ Len(mem) \in Nat /\ DOMAIN mem = 1 .. Len(mem)
      /\ abuf \in 1 .. Len(mem) /\ buf_t \in 0 .. Len(mem)
  BY <1>0, LenProperties DEF Buffers
<1>3. \A g \in 1 .. Len(mem) : mem[g] \in Seq(Node) BY <1>2, ElementOfSeq
<1>4. << >> \in Seq(Node) /\ Len(<< >>) = 0 OBVIOUS
<1>5. \A g \in 1 .. Len(mem) : mem'[g] = IF g \in taken THEN << >> ELSE mem[g] BY <1>1, <1>2
<1>6. mem' \in [1 .. Len(mem) -> Seq(Node)] BY <1>1, <1>2, <1>3, <1>4
<1>7. mem' \in Seq(Seq(Node)) /\ Len(mem') = Len(mem)
  BY <1>2, <1>6, FunctionIsSeq
<1>8. Target \in 1 .. Len(mem) /\ Target \notin taken /\ abuf \notin taken
  BY <1>0, <1>2 DEF Lists, Target
<1>9. Target' = Target BY <1>1 DEF Target
<1>10. mem'[Target] = mem[Target] /\ mem'[abuf] = mem[abuf] BY <1>2, <1>5, <1>8
<1>11. Buffers'
  <2>1. \A g \in 1 .. Len(mem') : Inside(mem'[g], Len(queues'))
    <3> SUFFICES ASSUME NEW g \in 1 .. Len(mem) PROVE Inside(mem'[g], Len(queues))
      BY <1>1, <1>7
    <3>1. CASE g \in taken
      <4>1. mem'[g] = << >> BY <1>5, <3>1
      <4> QED BY <1>4, <4>1 DEF Inside
    <3>2. CASE g \notin taken BY <1>0, <1>5, <3>2 DEF Buffers
    <3> QED BY <3>1, <3>2
  <2> QED BY <1>0, <1>1, <1>7, <1>9, <1>10, <2>1 DEF Buffers
<1>12. Lists' BY <1>0, <1>1, <1>7 DEF Lists
<1>13. Locked' BY <1>1 DEF Safe, Locked
<1>14. \A l \in Loops : Finding(l) => th[l].ptr \in 1 .. Len(mem) /\ th[l].ptr \notin taken
  BY <1>1 DEF Safe, Fits, Finding
<1>15. \A l \in Loops : Finding(l) => mem'[th[l].ptr] = mem[th[l].ptr] BY <1>5, <1>14
<1>16. ASSUME NEW l \in Loops PROVE Fits(l, th[l])'
  <2>1. Fits(l, th[l]) BY DEF Safe
  <2>2. th[l].pc \in {"std", "next"} => mem'[th[l].ptr] = mem[th[l].ptr] /\ th[l].ptr \notin taken
    BY <1>14, <1>15 DEF Finding
  <2> QED BY <1>1, <1>7, <2>1, <2>2 DEF Fits
<1>17. th' \in [Loops -> Thread] BY <1>1 DEF Safe
<1> QED BY <1>1, <1>9, <1>10, <1>11, <1>12, <1>13, <1>15, <1>16, <1>17 DEF Safe

\* What a thread is asked for.
LEMMA RequestShape ==
    ASSUME NEW l \in Loops, NEW r \in Asked[l]
    PROVE  r[1] \in {"find", "create", "delete"} /\ r[2] \in Keys
<1>1. Asked[l] \in SUBSET ({"find", "create", "delete"} \X Keys) BY KeysAssumption
<1> QED BY <1>1

\* Every step keeps the memory safe.
LEMMA SafeNext ==
    ASSUME Safe, [Next]_vars
    PROVE  Safe'
<1>1. CASE UNCHANGED vars
  <2>1. /\ mem' = mem /\ abuf' = abuf /\ buf_t' = buf_t /\ size' = size /\ queues' = queues
        /\ vcap' = vcap /\ lock' = lock /\ freeList' = freeList /\ taken' = taken
        /\ waited' = waited /\ freed' = freed /\ th' = th
    BY <1>1 DEF vars, trie, service
  <2> QED BY <2>1 DEF Safe, Buffers, Lists, Locked, Fits, Target
<1>2. ASSUME NEW l \in Loops, LoopStep(l) PROVE Safe'
  <2>1. CASE \E r \in Asked[l] : GetQueue(l, r[1], r[2]) \/ DeleteQueue(l, r[1], r[2])
    <3>1. PICK r \in Asked[l] : GetQueue(l, r[1], r[2]) \/ DeleteQueue(l, r[1], r[2]) BY <2>1
    <3>2. r[1] \in {"find", "create", "delete"} /\ r[2] \in Keys BY RequestShape
    <3>3. CASE GetQueue(l, r[1], r[2]) BY <3>2, <3>3, SafeGetQueue
    <3>4. CASE DeleteQueue(l, r[1], r[2]) BY <3>2, <3>4, DeleteEffect
    <3> QED BY <3>1, <3>3, <3>4
  <2>2. CASE ReadStd(l) BY <2>2, SafeReadStd
  <2>3. CASE ReadNext(l) BY <2>3, SafeReadNext
  <2>4. CASE ReadBase(l) BY <2>4, SafeReadBase
  <2>5. CASE ReadSlot(l) BY <2>5, SafeReadSlot
  <2>6. CASE Return(l) BY <2>6, SafeReturn
  <2>7. CASE LockAndFind(l) BY <2>7, SafeLockAndFind
  <2>8. CASE AssignSlot(l) BY <2>8, SafeAssignSlot
  <2>9. CASE AddChar(l) BY <2>9, SafeAddChar
  <2>10. CASE AddValue(l) BY <2>10, AddValueEffect
  <2>11. CASE Publish(l) BY <2>11, SafePublish
  <2>12. CASE Retire(l) BY <2>12, SafeRetire
  <2>13. CASE DropSlot(l) BY <2>13, SafeDropSlot
  <2> QED BY <1>2, <2>1, <2>2, <2>3, <2>4, <2>5, <2>6, <2>7, <2>8, <2>9, <2>10, <2>11, <2>12, <2>13
          DEF LoopStep
<1>3. CASE TakeList BY <1>3, SafeTakeList
<1>4. CASE Free BY <1>4, SafeFree
<1> QED BY <1>1, <1>2, <1>3, <1>4 DEF Next

\* The memory is always safe.
LEMMA AlwaysSafe == Spec => []Safe
<1>1. Safe /\ [Next]_vars => Safe' BY SafeNext
<1> QED BY <1>1, SafeInit, PTL DEF Spec

\* A find never reads a buffer of the trie that was freed, for any number of
\* threads and names: _free_memory waits for the finds that may still hold it.
THEOREM NoUseAfterFreeHolds == Spec => []NoUseAfterFree
<1>1. Safe => NoUseAfterFree BY DEF Safe, Fits, NoUseAfterFree, Finding
<1> QED BY <1>1, AlwaysSafe, PTL

\* No find leaves the buffer that it loaded: add writes a link to a new node
\* only to a buffer that has the node, also when _next has just grown it.
THEOREM ReadsInBoundsHolds == Spec => []ReadsInBounds
<1>1. ASSUME Safe PROVE ReadsInBounds
  <2> SUFFICES ASSUME NEW l \in Loops, Finding(l) PROVE th[l].step \in DOMAIN mem[th[l].ptr]
    BY DEF ReadsInBounds
  <2>1. th[l].ptr \in 1 .. Len(mem) /\ th[l].step \in 1 .. Len(mem[th[l].ptr])
    BY <1>1 DEF Safe, Fits, Finding
  <2>2. mem[th[l].ptr] \in Seq(Node) BY <1>1, <2>1, ElementOfSeq DEF Safe, Buffers
  <2>3. DOMAIN mem[th[l].ptr] = 1 .. Len(mem[th[l].ptr]) BY <2>2, LenProperties
  <2> QED BY <2>1, <2>3
<1> QED BY <1>1, AlwaysSafe, PTL
=============================================================================
