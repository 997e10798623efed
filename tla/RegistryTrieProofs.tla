------------------------- MODULE RegistryTrieProofs -------------------------
(***************************************************************************)
(* The registry's names, for any number of threads and names: a name has   *)
(* one queue, and Mapper::find yields the best one.                        *)
(*                                                                         *)
(* Both follow from Trie: the nodes in use form a tree in which every node *)
(* spells a word of its own (Spelt); every value is the slot of a queue    *)
(* whose name stops at that word (Sound), and every queue's slot is the    *)
(* value of such a node (Complete), except for the one slot that a thread  *)
(* with global_lock is filling or emptying (Pending); that thread knows    *)
(* how far it has come (Adding) and that the name is new (Assigning); and  *)
(* no two queues belong to one place of the trie (Distinct).               *)
(***************************************************************************)
EXTENDS RegistryProofs

-----------------------------------------------------------------------------
(* The trie: what it spells *)

\* The slots that a thread is filling or emptying.
Pending == {th[l].n : l \in {k \in Loops : th[k].pc \in {"add", "drop"}}}

\* The value of a name at its node.
Cell(node, key) == IF Pattern(key) THEN node.std ELSE node.end

\* Two names with one place in the trie.
Clash(a, b) == Stem(a) = Stem(b) /\ (Pattern(a) <=> Pattern(b))

\* The first N nodes of B form a tree and str is what they spell.
Spelt(B, N, str) ==
    /\ str \in [1 .. N -> Seq(Chars)] /\ str[1] = << >>
    /\ \A n \in 1 .. N, c \in Chars :
          B[n].k[c] # 0 => B[n].k[c] \in 2 .. N /\ str[B[n].k[c]] = Append(str[n], c)
    /\ \A n \in 2 .. N : \E p \in 1 .. n - 1, c \in Chars : B[p].k[c] = n
    /\ \A n, m \in 1 .. N : str[n] = str[m] => n = m
    /\ \A n \in N + 1 .. Len(B) : B[n] = EmptyStep

\* Every value is the slot of a queue with that name ...
Sound(B, N, str) ==
    \A n \in 1 .. N :
       /\ B[n].end # 0 =>
             /\ queues[B[n].end] # None /\ ~Pattern(queues[B[n].end])
             /\ Stem(queues[B[n].end]) = str[n] /\ B[n].end \notin Pending
       /\ B[n].std # 0 =>
             /\ queues[B[n].std] # None /\ Pattern(queues[B[n].std])
             /\ Stem(queues[B[n].std]) = str[n] /\ B[n].std \notin Pending

\* ... and every queue has its value.
Complete(B, N, str) ==
    \A j \in 1 .. Len(queues) :
       queues[j] # None /\ j \notin Pending =>
          \E n \in 1 .. N : str[n] = Stem(queues[j]) /\ Cell(B[n], queues[j]) = j

\* How far add has come.
Adding(str) ==
    \A l \in Loops : th[l].pc = "add" =>
       /\ queues[th[l].n] = th[l].key
       /\ \A j \in 1 .. th[l].i : th[l].key[j] # Star
       /\ str[th[l].step] = SubSeq(th[l].key, 1, th[l].i)

Distinct ==
    \A i, j \in 1 .. Len(queues) :
       queues[i] # None /\ queues[j] # None /\ Clash(queues[i], queues[j]) => i = j

Assigning ==
    \A l \in Loops : th[l].pc = "assign" =>
       \A j \in 1 .. Len(queues) : queues[j] # None => ~Clash(queues[j], th[l].key)

Trie ==
    /\ \E str : /\ Spelt(mem[Target], size, str)
                /\ Sound(mem[Target], size, str)
                /\ Complete(mem[Target], size, str)
                /\ Adding(str)
    /\ Distinct /\ Assigning

\* One character more of a name.
LEMMA PrefixGrows ==
    ASSUME NEW S, NEW key \in Seq(S), NEW i \in Nat, i + 1 <= Len(key)
    PROVE  /\ SubSeq(key, 1, i + 1) = Append(SubSeq(key, 1, i), key[i + 1])
           /\ SubSeq(key, 1, i) \in Seq(S) /\ Len(SubSeq(key, 1, i)) = i
<1> DEFINE a == SubSeq(key, 1, i)
           b == SubSeq(key, 1, i + 1)
<1>0. Len(key) \in Nat /\ i + 1 \in Nat /\ 1 \in Int /\ i \in Int /\ i + 1 \in Int BY LenProperties
<1>1. \A j \in 1 .. i + 1 : key[j] \in S BY <1>0, ElementOfSeq
<1>2. a \in Seq(S) /\ Len(a) = i /\ \A j \in 1 .. i : a[j] = key[j]
  <2>1. \A j \in 1 .. i : key[j] \in S BY <1>0, <1>1
  <2>2. /\ a \in Seq(S) /\ Len(a) = IF 1 <= i THEN i - 1 + 1 ELSE 0
        /\ \A j \in 1 .. i - 1 + 1 : a[j] = key[1 + j - 1]
    BY <1>0, <2>1, SubSeqProperties
  <2> HIDE DEF a
  <2>3. i - 1 + 1 = i /\ \A j \in 1 .. i : 1 + j - 1 = j BY <1>0
  <2> QED BY <1>0, <2>2, <2>3
<1>3. b \in Seq(S) /\ Len(b) = i + 1 /\ \A j \in 1 .. i + 1 : b[j] = key[j]
  <2>2. /\ b \in Seq(S) /\ Len(b) = IF 1 <= i + 1 THEN i + 1 - 1 + 1 ELSE 0
        /\ \A j \in 1 .. i + 1 - 1 + 1 : b[j] = key[1 + j - 1]
    BY <1>0, <1>1, SubSeqProperties
  <2> HIDE DEF b
  <2>3. i + 1 - 1 + 1 = i + 1 /\ \A j \in 1 .. i + 1 : 1 + j - 1 = j BY <1>0
  <2> QED BY <1>0, <2>2, <2>3
<1>4. key[i + 1] \in S BY <1>0, <1>1
<1>5. /\ Append(a, key[i + 1]) \in Seq(S) /\ Len(Append(a, key[i + 1])) = i + 1
      /\ \A j \in 1 .. i : Append(a, key[i + 1])[j] = a[j]
      /\ Append(a, key[i + 1])[i + 1] = key[i + 1]
  <2> HIDE DEF a
  <2> QED BY <1>2, <1>4, AppendProperties
<1> HIDE DEF a, b
<1>6. \A j \in 1 .. i + 1 : b[j] = Append(a, key[i + 1])[j] BY <1>0, <1>2, <1>3, <1>5
<1>7. b = Append(a, key[i + 1]) BY <1>3, <1>5, <1>6, SeqEqual
<1> QED BY <1>2, <1>7 DEF a, b

\* The word s begins the name.
Begins(s, key) == Len(s) <= Len(key) /\ \A j \in 1 .. Len(s) : s[j] = key[j]

\* A walk along a name comes to the nodes that spell its beginnings, and to
\* every one of them.
LEMMA WalkSpells ==
    ASSUME NEW q, NEW B, Inside(B, q), NEW N \in Nat \ {0}, N <= Len(B), NEW str, Spelt(B, N, str),
           NEW key \in Seq(Chars \cup {Star})
    PROVE  /\ \A i \in 0 .. Len(key) : Nodes(B, key)[i] # 0 =>
                 Nodes(B, key)[i] \in 1 .. N /\ str[Nodes(B, key)[i]] = SubSeq(key, 1, i)
           /\ \A n \in 1 .. N : Begins(str[n], key) => Nodes(B, key)[Len(str[n])] = n
<1> DEFINE W == Nodes(B, key)
<1>0. Len(B) \in Nat /\ Len(B) >= 1 /\ Len(key) \in Nat
  BY LenProperties DEF Inside
<1>1. /\ W \in [0 .. Len(key) -> 0 .. Len(B)] /\ W[0] = 1
      /\ \A i \in 1 .. Len(key) :
            W[i] = IF W[i - 1] = 0 \/ key[i] = Star THEN 0 ELSE B[W[i - 1]].k[key[i]]
  BY <1>0, NodesShape
<1> HIDE DEF W
<1>2. /\ str \in [1 .. N -> Seq(Chars)] /\ str[1] = << >>
      /\ \A n \in 1 .. N, c \in Chars :
            B[n].k[c] # 0 => B[n].k[c] \in 2 .. N /\ str[B[n].k[c]] = Append(str[n], c)
      /\ \A n \in 2 .. N : \E p \in 1 .. n - 1, c \in Chars : B[p].k[c] = n
  BY DEF Spelt
<1>3. \A i \in 0 .. Len(key) : W[i] # 0 => W[i] \in 1 .. N /\ str[W[i]] = SubSeq(key, 1, i)
  <2> DEFINE P(i) == W[i] # 0 => W[i] \in 1 .. N /\ str[W[i]] = SubSeq(key, 1, i)
             S == {i \in Nat : i <= Len(key) => P(i)}
  <2>1. 0 \in S
    <3>1. SubSeq(key, 1, 0) = << >> BY SubSeqEmpty
    <3> QED BY <1>0, <1>1, <1>2, <3>1
  <2>2. ASSUME NEW i \in S \cap Nat PROVE i + 1 \in S
    <3> SUFFICES ASSUME i + 1 <= Len(key), W[i + 1] # 0
                 PROVE  W[i + 1] \in 1 .. N /\ str[W[i + 1]] = SubSeq(key, 1, i + 1)
      OBVIOUS
    <3>1. i <= Len(key) /\ i + 1 \in 1 .. Len(key) /\ i + 1 - 1 = i BY <1>0
    <3>2. W[i + 1] = IF W[i] = 0 \/ key[i + 1] = Star THEN 0 ELSE B[W[i]].k[key[i + 1]]
      BY <1>1, <3>1
    <3>3. W[i] # 0 /\ key[i + 1] # Star /\ W[i + 1] = B[W[i]].k[key[i + 1]] BY <3>2
    <3>4. W[i] \in 1 .. N /\ str[W[i]] = SubSeq(key, 1, i) BY <3>1, <3>3
    <3>5. key[i + 1] \in Chars
      <4>1. key[i + 1] \in Chars \cup {Star} BY <3>1, ElementOfSeq
      <4> QED BY <3>3, <4>1
    <3>6. W[i + 1] \in 2 .. N /\ str[W[i + 1]] = Append(str[W[i]], key[i + 1])
      <4> DEFINE n == W[i]
                 c == key[i + 1]
      <4>1. n \in 1 .. N /\ c \in Chars /\ B[n].k[c] # 0 /\ W[i + 1] = B[n].k[c]
        BY <3>1, <3>2, <3>3, <3>4, <3>5
      <4> HIDE DEF n, c
      <4>2. B[n].k[c] \in 2 .. N /\ str[B[n].k[c]] = Append(str[n], c) BY <1>2, <4>1
      <4> QED BY <4>1, <4>2 DEF n, c
    <3>7. SubSeq(key, 1, i + 1) = Append(SubSeq(key, 1, i), key[i + 1]) BY PrefixGrows
    <3> QED BY <3>4, <3>6, <3>7
  <2> HIDE DEF S
  <2>3. Nat \subseteq S BY <2>1, <2>2, Climb
  <2> USE DEF S
  <2>4. \A i \in 0 .. Len(key) : P(i) BY <1>0, <2>3
  <2> QED BY <2>4
<1>4. \A n \in 1 .. N : Begins(str[n], key) => W[Len(str[n])] = n
  <2> DEFINE Q(n) == Begins(str[n], key) => W[Len(str[n])] = n
             S == {m \in Nat : \A n \in 1 .. N : n <= m => Q(n)}
  <2>1. 0 \in S OBVIOUS
  <2>2. ASSUME NEW m \in S \cap Nat PROVE m + 1 \in S
    <3>1. SUFFICES ASSUME m + 1 \in 1 .. N, Begins(str[m + 1], key)
                   PROVE  W[Len(str[m + 1])] = m + 1
      <4>1. \A n \in 1 .. N : n <= m + 1 => n <= m \/ n = m + 1 OBVIOUS
      <4> HIDE DEF Q
      <4>2. \A n \in 1 .. N : n <= m => Q(n) BY <2>2
      <4>3. m + 1 \in 1 .. N => Q(m + 1) BY <3>1 DEF Q
      <4> QED BY <4>1, <4>2, <4>3
    <3>2. CASE m = 0
      <4>1. str[m + 1] = << >> BY <1>2, <3>2
      <4>2. Len(str[m + 1]) = 0 BY <4>1
      <4> QED BY <1>1, <3>2, <4>2
    <3>3. CASE m # 0
      <4>1. m + 1 \in 2 .. N BY <3>1, <3>3
      <4> DEFINE r == m + 1
      <4> HIDE DEF r
      <4>0. r \in 2 .. N BY <4>1 DEF r
      <4>2. PICK p \in 1 .. r - 1, c \in Chars : B[p].k[c] = r BY <1>2, <4>0
      <4>3. p \in 1 .. N /\ p <= m BY <3>1 DEF r
      <4>4. str[m + 1] = Append(str[p], c)
        <5>1. B[p].k[c] # 0 BY <4>0, <4>2
        <5>2. str[B[p].k[c]] = Append(str[p], c) BY <1>2, <4>3, <5>1
        <5> QED BY <4>2, <5>2 DEF r
      <4>5. str[p] \in Seq(Chars) BY <1>2, <4>3
      <4> DEFINE s == str[p]
      <4> HIDE DEF s
      <4>6. /\ Len(s) \in Nat /\ Len(str[m + 1]) = Len(s) + 1 /\ str[m + 1][Len(s) + 1] = c
            /\ \A j \in 1 .. Len(s) : str[m + 1][j] = s[j]
        BY <4>4, <4>5, AppendProperties, LenProperties DEF s
      <4>7. Len(s) + 1 <= Len(key) /\ key[Len(s) + 1] = c /\ \A j \in 1 .. Len(s) : s[j] = key[j]
        <5>1. /\ Len(str[m + 1]) <= Len(key)
              /\ \A j \in 1 .. Len(str[m + 1]) : str[m + 1][j] = key[j]
          BY <3>1 DEF Begins
        <5> QED BY <4>6, <5>1
      <4>8. Begins(s, key) BY <1>0, <4>6, <4>7 DEF Begins
      <4>9. W[Len(s)] = p
        <5>1. Q(p) BY <2>2, <4>3
        <5> QED BY <4>8, <5>1 DEF s
      <4>10. Len(s) + 1 \in 1 .. Len(key) /\ Len(s) + 1 - 1 = Len(s) BY <1>0, <4>6, <4>7
      <4>11. W[Len(s) + 1] = IF W[Len(s)] = 0 \/ key[Len(s) + 1] = Star THEN 0
                             ELSE B[W[Len(s)]].k[key[Len(s) + 1]]
        BY <1>1, <4>10
      <4>12. c # Star BY DEF Chars
      <4>13. W[Len(s) + 1] = m + 1 BY <4>2, <4>3, <4>7, <4>9, <4>11, <4>12 DEF r
      <4> QED BY <4>6, <4>13
    <3> QED BY <3>2, <3>3
  <2> HIDE DEF S
  <2>3. Nat \subseteq S BY <2>1, <2>2, Climb
  <2>4. N \in S BY <2>3
  <2>5. \A n \in 1 .. N : Q(n) BY <2>4 DEF S
  <2> QED BY <2>5
<1> QED BY <1>3, <1>4 DEF W

\* While add has no buffer of its own, a walk meets the values of exactly those
\* queues whose names it spells, except for one that is just added or deleted.
LEMMA WalkMeets ==
    ASSUME Safe, Trie, Target = abuf, NEW key \in Seq(Chars \cup {Star})
    PROVE  LET B == mem[abuf]
               W == Nodes(B, key)
           IN  /\ \A i \in 0 .. Len(key) : W[i] # 0 =>
                     /\ W[i] \in 1 .. Len(B)
                     /\ B[W[i]].end # 0 =>
                           /\ B[W[i]].end \in 1 .. Len(queues) /\ queues[B[W[i]].end] \in Keys
                           /\ queues[B[W[i]].end] # None /\ ~Pattern(queues[B[W[i]].end])
                           /\ Stem(queues[B[W[i]].end]) = SubSeq(key, 1, i)
                     /\ B[W[i]].std # 0 =>
                           /\ B[W[i]].std \in 1 .. Len(queues) /\ queues[B[W[i]].std] \in Keys
                           /\ queues[B[W[i]].std] # None /\ Pattern(queues[B[W[i]].std])
                           /\ Stem(queues[B[W[i]].std]) = SubSeq(key, 1, i)
               /\ \A j \in 1 .. Len(queues) :
                     queues[j] # None /\ j \notin Pending /\ Begins(Stem(queues[j]), key) =>
                        /\ W[Len(Stem(queues[j]))] # 0
                        /\ Cell(B[W[Len(Stem(queues[j]))]], queues[j]) = j
<1> DEFINE B == mem[abuf]
           W == Nodes(B, key)
<1>1. Target = abuf OBVIOUS
<1>2. PICK str : Spelt(B, size, str) /\ Sound(B, size, str) /\ Complete(B, size, str)
  BY <1>1 DEF Trie
<1>3. /\ size \in Nat \ {0} /\ size <= Len(B) /\ B \in Seq(Node) /\ Inside(B, Len(queues))
      /\ Len(B) \in Nat /\ queues \in Seq(Names0) /\ Len(queues) \in Nat
  BY <1>1, ElementOfSeq, LenProperties DEF Safe, Buffers, Lists
<1>5. /\ \A i \in 0 .. Len(key) : W[i] # 0 => W[i] \in 1 .. size /\ str[W[i]] = SubSeq(key, 1, i)
      /\ \A n \in 1 .. size : Begins(str[n], key) => W[Len(str[n])] = n
  BY <1>2, <1>3, WalkSpells, SMTT(30)
<1>6. ASSUME NEW n \in 1 .. Len(B) PROVE B[n].end \in 0 .. Len(queues) /\ B[n].std \in 0 .. Len(queues)
  <2>1. B[n] \in Node /\ B[n].end <= Len(queues) /\ B[n].std <= Len(queues)
    BY <1>3, ElementOfSeq DEF Inside
  <2> QED BY <2>1, <1>3 DEF Node
<1>7. \A j \in 1 .. Len(queues) : queues[j] # None => queues[j] \in Keys
  <2>1. \A j \in 1 .. Len(queues) : queues[j] \in Names0 BY <1>3, ElementOfSeq
  <2> QED BY <2>1 DEF Names0
<1> HIDE DEF W, B
<1>8. ASSUME NEW i \in 0 .. Len(key), W[i] # 0
      PROVE  /\ W[i] \in 1 .. Len(B)
             /\ B[W[i]].end # 0 =>
                   /\ B[W[i]].end \in 1 .. Len(queues) /\ queues[B[W[i]].end] \in Keys
                   /\ queues[B[W[i]].end] # None /\ ~Pattern(queues[B[W[i]].end])
                   /\ Stem(queues[B[W[i]].end]) = SubSeq(key, 1, i)
             /\ B[W[i]].std # 0 =>
                   /\ B[W[i]].std \in 1 .. Len(queues) /\ queues[B[W[i]].std] \in Keys
                   /\ queues[B[W[i]].std] # None /\ Pattern(queues[B[W[i]].std])
                   /\ Stem(queues[B[W[i]].std]) = SubSeq(key, 1, i)
  <2> DEFINE n == W[i]
  <2>1. n \in 1 .. size /\ str[n] = SubSeq(key, 1, i) BY <1>5, <1>8
  <2> HIDE DEF n
  <2>2. n \in 1 .. Len(B) BY <1>3, <2>1
  <2>3. B[n].end \in 0 .. Len(queues) /\ B[n].std \in 0 .. Len(queues) BY <1>6, <2>2
  <2>4. B[n].end # 0 => B[n].end \in 1 .. Len(queues) BY <2>3, <1>3
  <2>5. B[n].std # 0 => B[n].std \in 1 .. Len(queues) BY <2>3, <1>3
  <2>6. B[n].end # 0 => queues[B[n].end] # None /\ ~Pattern(queues[B[n].end])
                        /\ Stem(queues[B[n].end]) = SubSeq(key, 1, i)
    BY <1>2, <2>1 DEF Sound
  <2>7. B[n].std # 0 => queues[B[n].std] # None /\ Pattern(queues[B[n].std])
                        /\ Stem(queues[B[n].std]) = SubSeq(key, 1, i)
    BY <1>2, <2>1 DEF Sound
  <2> QED BY <1>7, <2>2, <2>4, <2>5, <2>6, <2>7 DEF n
<1>9. ASSUME NEW j \in 1 .. Len(queues), queues[j] # None, j \notin Pending,
             Begins(Stem(queues[j]), key)
      PROVE  /\ W[Len(Stem(queues[j]))] # 0
             /\ Cell(B[W[Len(Stem(queues[j]))]], queues[j]) = j
  <2>1. PICK n \in 1 .. size : str[n] = Stem(queues[j]) /\ Cell(B[n], queues[j]) = j
    BY <1>2, <1>9 DEF Complete
  <2>2. W[Len(str[n])] = n BY <1>5, <1>9, <2>1
  <2> QED BY <2>1, <2>2, <1>3
<1> QED BY <1>8, <1>9 DEF W, B

\* When nobody holds the lock, no slot is filled or emptied.
LEMMA FreePending ==
    ASSUME Safe, lock = None
    PROVE  Pending = {}
BY KeysAssumption DEF Safe, Locked, Pending, Changing

\* What begins a name is its prefix of that length.
LEMMA BeginsPrefix ==
    ASSUME NEW s \in Seq(Chars), NEW key \in Seq(Chars \cup {Star})
    PROVE  /\ Len(s) \in Nat /\ Len(key) \in Nat
           /\ Begins(s, key) => Len(s) \in 0 .. Len(key) /\ s = SubSeq(key, 1, Len(s))
           /\ IsPrefix(s, key) <=> Begins(s, key)
           /\ \A i \in 0 .. Len(key) : s = SubSeq(key, 1, i) => Begins(s, key) /\ Len(s) = i
<1> DEFINE A == Chars \cup {Star}
<1>1. Len(s) \in Nat /\ Len(key) \in Nat /\ s \in Seq(A) BY LenProperties, SeqMonotonic
<1>2. \A j \in 1 .. Len(key) : key[j] \in A BY ElementOfSeq
<1> HIDE DEF A
<1>3. SubSeq(s, 1, Len(s)) = s BY SubSeqFull
<1>4. ASSUME NEW i \in 0 .. Len(key)
      PROVE  /\ SubSeq(key, 1, i) \in Seq(A) /\ Len(SubSeq(key, 1, i)) = i
             /\ \A j \in 1 .. i : SubSeq(key, 1, i)[j] = key[j]
  <2>1. \A j \in 1 .. i : key[j] \in A BY <1>1, <1>2
  <2>2. 1 \in Int /\ i \in Int BY <1>1
  <2>3. /\ SubSeq(key, 1, i) \in Seq(A) /\ Len(SubSeq(key, 1, i)) = IF 1 <= i THEN i - 1 + 1 ELSE 0
        /\ \A j \in 1 .. i - 1 + 1 : SubSeq(key, 1, i)[j] = key[1 + j - 1]
    BY <2>1, <2>2, SubSeqProperties
  <2>4. i - 1 + 1 = i /\ \A j \in 1 .. i : 1 + j - 1 = j BY <2>2
  <2>5. Len(SubSeq(key, 1, i)) = i
    <3> QED BY <1>1, <2>3, <2>4
  <2> QED BY <2>3, <2>4, <2>5
<1>5. ASSUME NEW i \in 0 .. Len(key), s = SubSeq(key, 1, i) PROVE Begins(s, key) /\ Len(s) = i
  <2>1. Len(s) = i /\ \A j \in 1 .. i : s[j] = key[j] BY <1>4, <1>5
  <2> QED BY <2>1, <1>1 DEF Begins
<1>6. ASSUME Begins(s, key) PROVE Len(s) \in 0 .. Len(key) /\ s = SubSeq(key, 1, Len(s))
  <2>1. Len(s) \in 0 .. Len(key) /\ \A j \in 1 .. Len(s) : s[j] = key[j] BY <1>1, <1>6 DEF Begins
  <2>2. /\ SubSeq(key, 1, Len(s)) \in Seq(A) /\ Len(SubSeq(key, 1, Len(s))) = Len(s)
        /\ \A j \in 1 .. Len(s) : SubSeq(key, 1, Len(s))[j] = s[j]
    BY <1>4, <2>1
  <2> QED BY <1>1, <2>1, <2>2, SeqEqual
<1>7. IsPrefix(s, key) <=> Begins(s, key)
  <2>1. ASSUME Begins(s, key) PROVE IsPrefix(s, key)
    BY <1>3, <1>6, <2>1 DEF IsPrefix, Begins
  <2>2. ASSUME IsPrefix(s, key) PROVE Begins(s, key)
    <3>1. Len(s) \in 0 .. Len(key) /\ s = SubSeq(key, 1, Len(s)) BY <1>1, <1>3, <2>2 DEF IsPrefix
    <3> QED BY <1>5, <3>1
  <2> QED BY <2>1, <2>2
<1> QED BY <1>1, <1>5, <1>6, <1>7

\* What the list of queues holds.
LEMMA Slots ==
    ASSUME Safe
    PROVE  /\ Len(queues) \in Nat /\ DOMAIN queues = 1 .. Len(queues)
           /\ \A j \in 1 .. Len(queues) : queues[j] # None => queues[j] \in Keys
           /\ Names \subseteq Keys
           /\ \A n : n \in Names <=> \E j \in 1 .. Len(queues) : queues[j] = n /\ n # None
<1>1. queues \in Seq(Names0) BY DEF Safe, Lists
<1>2. Len(queues) \in Nat /\ DOMAIN queues = 1 .. Len(queues) BY <1>1, LenProperties
<1>3. \A j \in 1 .. Len(queues) : queues[j] \in Names0 BY <1>1, ElementOfSeq
<1>4. \A n : n \in Names <=> \E j \in 1 .. Len(queues) : queues[j] = n /\ n # None
  BY <1>2 DEF Names, ToSet
<1> QED BY <1>2, <1>3, <1>4 DEF Names0

\* A name that a find does not meet has no queue, and none that would take its
\* place in the trie: the second find of get_queue, or one after the add.
LEMMA NotFoundIsNew ==
    ASSUME Safe, Trie, Target = abuf, Pending = {}, NEW key \in Keys, Walk(key) = 0,
           NEW j \in 1 .. Len(queues), queues[j] # None
    PROVE  ~Clash(queues[j], key)
<1> DEFINE B == mem[abuf]
           W == Nodes(B, key)
           stds == {i \in 0 .. Len(key) : W[i] # 0 /\ B[W[i]].std # 0}
<1> SUFFICES ASSUME Clash(queues[j], key) PROVE FALSE OBVIOUS
<1>1. key \in Seq(Chars \cup {Star}) /\ Len(key) \in Nat BY NameShape
<1>2. queues[j] \in Keys BY Slots
<1>3. Stem(queues[j]) = Stem(key) /\ (Pattern(queues[j]) <=> Pattern(key)) BY DEF Clash
<1>4. /\ Stem(key) \in Seq(Chars) /\ Len(Stem(key)) \in Nat /\ Len(Stem(key)) <= Len(key)
      /\ \A i \in 1 .. Len(Stem(key)) : Stem(key)[i] = key[i]
      /\ ~Pattern(key) => Stem(key) = key
  BY StemShape
<1>5. Begins(Stem(queues[j]), key) BY <1>3, <1>4 DEF Begins
<1>6. W[Len(Stem(key))] # 0 /\ Cell(B[W[Len(Stem(key))]], queues[j]) = j
  BY <1>1, <1>3, <1>5, WalkMeets
<1>7. \/ W[Len(key)] # 0 /\ B[W[Len(key)]].end # 0 /\ Walk(key) = B[W[Len(key)]].end
      \/ stds = {} /\ (W[Len(key)] = 0 \/ B[W[Len(key)]].end = 0)
      \/ \E m \in stds : Walk(key) = B[W[m]].std
  <2>1. Inside(B, Len(queues)) /\ Len(B) >= 1 /\ Len(queues) \in Nat BY Slots DEF Safe, Buffers
  <2> QED BY <2>1, WalkCases
<1> HIDE DEF W, B
<1>8. stds = {} /\ (W[Len(key)] = 0 \/ B[W[Len(key)]].end = 0) BY <1>7
<1>9. CASE Pattern(key)
  <2>1. B[W[Len(Stem(key))]].std = j BY <1>3, <1>6, <1>9 DEF Cell
  <2>2. Len(Stem(key)) \in stds BY <1>1, <1>4, <1>6, <2>1
  <2> QED BY <1>8, <2>2
<1>10. CASE ~Pattern(key)
  <2>1. B[W[Len(key)]].end = j /\ W[Len(key)] # 0 BY <1>3, <1>4, <1>6, <1>10 DEF Cell
  <2> QED BY <1>8, <2>1
<1> QED BY <1>9, <1>10

\* The trie finds the name that serves best.
LEMMA TrieFindsBest ==
    ASSUME Safe, Trie, lock = None, NEW key \in Keys
    PROVE  Lookup(key) = BestName(key)
<1> DEFINE B == mem[abuf]
           W == Nodes(B, key)
           stds == {i \in 0 .. Len(key) : W[i] # 0 /\ B[W[i]].std # 0}
<1>1. key \in Seq(Chars \cup {Star}) /\ Len(key) \in Nat BY NameShape
<1>2. /\ \A i \in 0 .. Len(key) : W[i] # 0 =>
            /\ W[i] \in 1 .. Len(B)
            /\ B[W[i]].end # 0 =>
                  /\ B[W[i]].end \in 1 .. Len(queues) /\ queues[B[W[i]].end] \in Keys
                  /\ queues[B[W[i]].end] # None /\ ~Pattern(queues[B[W[i]].end])
                  /\ Stem(queues[B[W[i]].end]) = SubSeq(key, 1, i)
            /\ B[W[i]].std # 0 =>
                  /\ B[W[i]].std \in 1 .. Len(queues) /\ queues[B[W[i]].std] \in Keys
                  /\ queues[B[W[i]].std] # None /\ Pattern(queues[B[W[i]].std])
                  /\ Stem(queues[B[W[i]].std]) = SubSeq(key, 1, i)
      /\ \A j \in 1 .. Len(queues) :
            queues[j] # None /\ Begins(Stem(queues[j]), key) =>
               /\ W[Len(Stem(queues[j]))] # 0
               /\ Cell(B[W[Len(Stem(queues[j]))]], queues[j]) = j
  BY <1>1, WalkMeets, FreeTarget, FreePending
<1>3. \/ W[Len(key)] # 0 /\ B[W[Len(key)]].end # 0 /\ Walk(key) = B[W[Len(key)]].end
      \/ /\ W[Len(key)] = 0 \/ B[W[Len(key)]].end = 0
         /\ \/ stds = {} /\ Walk(key) = 0
            \/ \E m \in stds : (\A i \in stds : i <= m) /\ Walk(key) = B[W[m]].std
  <2>1. Inside(B, Len(queues)) /\ Len(B) >= 1 /\ Len(queues) \in Nat BY Slots DEF Safe, Buffers
  <2> QED BY <2>1, WalkCases
<1> HIDE DEF W, B
<1>4. Lookup(key) = IF Walk(key) = 0 THEN None ELSE queues[Walk(key)] BY DEF Lookup
<1>5. SubSeq(key, 1, Len(key)) = key BY <1>1, SubSeqFull
<1>6. ASSUME NEW n \in Patterns(key)
      PROVE  /\ Pattern(n) /\ Stem(n) \in Seq(Chars) /\ Len(Stem(n)) \in stds
             /\ Stem(n) = SubSeq(key, 1, Len(Stem(n)))
             /\ \E j \in 1 .. Len(queues) : queues[j] = n /\ n # None
  <2>1. n \in Names /\ Pattern(n) /\ IsPrefix(Stem(n), key) BY DEF Patterns
  <2>2. n \in Keys /\ \E j \in 1 .. Len(queues) : queues[j] = n /\ n # None BY <2>1, Slots
  <2>3. PICK j \in 1 .. Len(queues) : queues[j] = n /\ n # None BY <2>2
  <2>4. Stem(n) \in Seq(Chars) BY <2>2, StemShape
  <2>5. Begins(Stem(n), key) /\ Len(Stem(n)) \in 0 .. Len(key) /\ Stem(n) = SubSeq(key, 1, Len(Stem(n)))
    BY <1>1, <2>1, <2>4, BeginsPrefix
  <2>6. W[Len(Stem(n))] # 0 /\ Cell(B[W[Len(Stem(n))]], n) = j BY <1>2, <2>3, <2>5
  <2>7. B[W[Len(Stem(n))]].std = j BY <2>1, <2>6 DEF Cell
  <2>8. Len(Stem(n)) \in stds BY <2>5, <2>6, <2>7
  <2> QED BY <2>1, <2>2, <2>4, <2>5, <2>8
<1>7. CASE W[Len(key)] # 0 /\ B[W[Len(key)]].end # 0 /\ Walk(key) = B[W[Len(key)]].end
  <2> DEFINE v == B[W[Len(key)]].end
  <2>1. Len(key) \in 0 .. Len(key) BY <1>1
  <2>2. v \in 1 .. Len(queues) /\ queues[v] \in Keys /\ queues[v] # None /\ ~Pattern(queues[v])
        /\ Stem(queues[v]) = key
    BY <1>2, <1>5, <1>7, <2>1
  <2>3. queues[v] = key BY <2>2, StemShape
  <2>4. key \in Names BY <2>2, <2>3, Slots
  <2>5. Lookup(key) = key BY <1>4, <1>7, <2>3
  <2>6. BestName(key) = key BY <2>2, <2>3, <2>4 DEF BestName
  <2> QED BY <2>5, <2>6
<1>8. CASE W[Len(key)] = 0 \/ B[W[Len(key)]].end = 0
  <2>1. ~(key \in Names /\ ~Pattern(key))
    <3> SUFFICES ASSUME key \in Names, ~Pattern(key) PROVE FALSE OBVIOUS
    <3>1. PICK j \in 1 .. Len(queues) : queues[j] = key /\ key # None BY Slots
    <3>2. Stem(key) = key BY StemShape
    <3>3. Begins(key, key) BY <1>1 DEF Begins
    <3>4. W[Len(key)] # 0 /\ Cell(B[W[Len(key)]], key) = j BY <1>2, <3>1, <3>2, <3>3
    <3>5. B[W[Len(key)]].end = j BY <3>4 DEF Cell
    <3> QED BY <1>8, <3>4, <3>5
  <2>2. BestName(key) =
           IF Patterns(key) = {} THEN None
           ELSE CHOOSE n \in Patterns(key) : \A m \in Patterns(key) : Len(Stem(m)) <= Len(Stem(n))
    BY <2>1 DEF BestName
  <2>3. CASE stds = {} /\ Walk(key) = 0
    <3>1. Patterns(key) = {} BY <1>6, <2>3
    <3> QED BY <1>4, <2>2, <2>3, <3>1
  <2>4. CASE \E m \in stds : (\A i \in stds : i <= m) /\ Walk(key) = B[W[m]].std
    <3>1. PICK m \in stds : (\A i \in stds : i <= m) /\ Walk(key) = B[W[m]].std BY <2>4
    <3> DEFINE v == B[W[m]].std
               n == queues[v]
    <3>2. m \in 0 .. Len(key) /\ W[m] # 0 /\ v # 0 BY <3>1
    <3>3. v \in 1 .. Len(queues) /\ n \in Keys /\ n # None /\ Pattern(n) /\ Stem(n) = SubSeq(key, 1, m)
      BY <1>2, <3>2
    <3> HIDE DEF v
    <3>4. Stem(n) \in Seq(Chars) BY <3>3, StemShape
    <3>5. Begins(Stem(n), key) /\ Len(Stem(n)) = m /\ IsPrefix(Stem(n), key)
      BY <1>1, <3>2, <3>3, <3>4, BeginsPrefix
    <3>6. n \in Names BY <3>3, Slots
    <3>7. n \in Patterns(key) BY <3>3, <3>5, <3>6 DEF Patterns
    <3>8. \A p \in Patterns(key) : Len(Stem(p)) <= Len(Stem(n)) BY <1>6, <3>1, <3>5
    <3>9. ASSUME NEW p \in Patterns(key), \A r \in Patterns(key) : Len(Stem(r)) <= Len(Stem(p))
          PROVE  p = n
      <4>1. Len(Stem(n)) <= Len(Stem(p)) /\ Len(Stem(p)) <= Len(Stem(n)) BY <3>7, <3>8, <3>9
      <4>2. Stem(p) \in Seq(Chars) BY <1>6
      <4>3. Len(Stem(p)) = Len(Stem(n))
        <5>1. Len(Stem(p)) \in Nat /\ Len(Stem(n)) \in Nat BY <3>4, <4>2, LenProperties
        <5> QED BY <4>1, <5>1
      <4>4. Stem(p) = Stem(n) BY <1>6, <3>3, <3>5, <4>3
      <4>5. PICK j \in 1 .. Len(queues) : queues[j] = p /\ p # None BY <1>6
      <4>6. Pattern(p) BY <1>6
      <4>7. Clash(queues[j], queues[v]) BY <3>3, <4>4, <4>5, <4>6 DEF Clash
      <4>8. j = v BY <3>3, <4>5, <4>7 DEF Trie, Distinct
      <4> QED BY <4>5, <4>8
    <3>10. (CHOOSE p \in Patterns(key) : \A r \in Patterns(key) : Len(Stem(r)) <= Len(Stem(p))) = n
      <4> HIDE DEF n
      <4> QED BY <3>7, <3>8, <3>9
    <3>11. BestName(key) = n BY <2>2, <3>7, <3>10
    <3>12. Lookup(key) = n BY <1>4, <3>1, <3>2 DEF v
    <3> QED BY <3>11, <3>12
  <2> QED BY <1>3, <1>8, <2>3, <2>4
<1> QED BY <1>3, <1>7, <1>8

-----------------------------------------------------------------------------
(* The trie: every step keeps what it spells *)

\* Init: the trie is empty and there is no queue.
LEMMA TrieInit == Init => Trie
<1> SUFFICES ASSUME Init PROVE Trie OBVIOUS
<1> DEFINE B == [n \in 1 .. FirstCap |-> EmptyStep]
           str == [n \in 1 .. 1 |-> << >>]
<1>1. Safe BY SafeInit
<1>2. /\ mem = <<B>> /\ abuf = 1 /\ buf_t = 0 /\ size = 1 /\ queues = << >>
      /\ th = [l \in Loops |-> Idle]
  BY DEF Init
<1>3. mem[Target] = B BY <1>2 DEF Target
<1>4. B \in Seq(Node) /\ Len(B) = FirstCap /\ \A n \in 1 .. FirstCap : B[n] = EmptyStep
  <2>1. FirstCap \in Nat BY CapAssumption
  <2>2. B \in [1 .. FirstCap -> Node] BY EmptyStepShape
  <2>3. \A n \in 1 .. FirstCap : B[n] = EmptyStep OBVIOUS
  <2> HIDE DEF B
  <2> QED BY <2>1, <2>2, <2>3, FunctionIsSeq
<1> HIDE DEF B
<1>5. 1 \in 1 .. FirstCap BY CapAssumption
<1>6. \A l \in Loops : th[l].pc = "idle" BY <1>2 DEF Idle
<1>7. Len(queues) = 0 BY <1>2
<1>8. << >> \in Seq(Chars) OBVIOUS
<1>9. str \in [1 .. 1 -> Seq(Chars)] /\ str[1] = << >> BY <1>8
<1> HIDE DEF str
<1>10. Spelt(B, 1, str)
  <2>1. \A n \in 1 .. 1 : n = 1 OBVIOUS
  <2>2. \A c \in Chars : B[1].k[c] = 0 BY <1>4, <1>5, EmptyStepShape
  <2>3. \A n \in 1 + 1 .. Len(B) : B[n] = EmptyStep BY <1>4, CapAssumption
  <2>4. \A n \in 2 .. 1 : FALSE OBVIOUS
  <2> QED BY <1>9, <2>1, <2>2, <2>3, <2>4 DEF Spelt
<1>11. Sound(B, 1, str)
  <2>1. \A n \in 1 .. 1 : n = 1 OBVIOUS
  <2>2. B[1].end = 0 /\ B[1].std = 0 BY <1>4, <1>5, EmptyStepShape
  <2> QED BY <2>1, <2>2 DEF Sound
<1>12. Complete(B, 1, str) /\ Distinct BY <1>7 DEF Complete, Distinct
<1>13. Adding(str) /\ Assigning BY <1>6 DEF Adding, Assigning
<1> QED BY <1>2, <1>3, <1>10, <1>11, <1>12, <1>13 DEF Trie

\* A step that changes nothing of it.
LEMMA TrieKept ==
    ASSUME Trie, mem'[Target'] = mem[Target], UNCHANGED <<size, queues>>,
           \A k \in Loops : \/ th'[k] = th[k]
                            \/ /\ th[k].pc \notin {"add", "drop"}
                               /\ th'[k].pc \notin {"add", "drop", "assign"}
    PROVE  Trie'
<1>1. Pending' = Pending BY DEF Pending
<1>2. PICK str : /\ Spelt(mem[Target], size, str) /\ Sound(mem[Target], size, str)
                 /\ Complete(mem[Target], size, str) /\ Adding(str)
  BY DEF Trie
<1>3. Spelt(mem'[Target'], size', str) BY <1>2 DEF Spelt
<1>4. /\ \A n \in 1 .. size :
            /\ mem[Target][n].end # 0 =>
                  /\ queues'[mem[Target][n].end] # None /\ ~Pattern(queues'[mem[Target][n].end])
                  /\ Stem(queues'[mem[Target][n].end]) = str[n] /\ mem[Target][n].end \notin Pending'
            /\ mem[Target][n].std # 0 =>
                  /\ queues'[mem[Target][n].std] # None /\ Pattern(queues'[mem[Target][n].std])
                  /\ Stem(queues'[mem[Target][n].std]) = str[n] /\ mem[Target][n].std \notin Pending'
  BY <1>1, <1>2 DEF Sound
<1>5. \A k \in Loops : th'[k].pc \in {"add", "assign"} => th'[k] = th[k] OBVIOUS
<1>6. \A k \in Loops : th'[k].pc = "add" =>
         /\ queues'[th'[k].n] = th'[k].key
         /\ \A j \in 1 .. th'[k].i : th'[k].key[j] # Star
         /\ str[th'[k].step] = SubSeq(th'[k].key, 1, th'[k].i)
  BY <1>2, <1>5 DEF Adding
<1>7. \A j \in 1 .. Len(queues) :
         queues[j] # None /\ j \notin Pending' =>
            \E n \in 1 .. size : str[n] = Stem(queues[j]) /\ Cell(mem[Target][n], queues[j]) = j
  BY <1>1, <1>2 DEF Complete
<1>8. Distinct' BY DEF Trie, Distinct
<1>9. Assigning' BY <1>5 DEF Trie, Assigning
<1>10. \E s : /\ Spelt(mem'[Target'], size', s) /\ Sound(mem[Target], size, s)'
              /\ Complete(mem[Target], size, s)' /\ Adding(s)'
  <2>1. Spelt(mem'[Target'], size', str) BY <1>3
  <2> QED BY <1>3, <1>4, <1>6, <1>7 DEF Sound, Complete, Adding
<1> QED BY <1>8, <1>9, <1>10 DEF Trie

\* Who fills or empties a slot holds the lock.
LEMMA PendingStep ==
    ASSUME Safe, NEW l \in Loops, lock \in {None, l}, \A k \in Loops : k # l => th'[k] = th[k]
    PROVE  /\ Pending = IF th[l].pc \in {"add", "drop"} THEN {th[l].n} ELSE {}
           /\ Pending' = IF th'[l].pc \in {"add", "drop"} THEN {th'[l].n} ELSE {}
<1>1. \A k \in Loops : k # l => th[k].pc \notin {"add", "drop"} /\ th'[k].pc \notin {"add", "drop"}
  BY Alone DEF Changing
<1>2. Pending = IF th[l].pc \in {"add", "drop"} THEN {th[l].n} ELSE {} BY <1>1 DEF Pending
<1>3. Pending' = IF th'[l].pc \in {"add", "drop"} THEN {th'[l].n} ELSE {} BY <1>1 DEF Pending
<1> QED BY <1>2, <1>3

\* What Trie says of the buffer, in words about one slot and one node.
LEMMA ValueRange ==
    ASSUME Safe, NEW n \in 1 .. size
    PROVE  /\ n \in 1 .. Len(mem[Target]) /\ mem[Target] \in Seq(Node)
           /\ mem[Target][n].end \in 0 .. Len(queues) /\ mem[Target][n].std \in 0 .. Len(queues)
           /\ Inside(mem[Target], Len(queues)) /\ Target \in 1 .. Len(mem)
           /\ Len(mem[Target]) \in Nat /\ size \in Nat /\ size <= Len(mem[Target]) /\ Len(queues) \in Nat
<1>1. /\ mem \in Seq(Seq(Node)) /\ Len(mem) \in Nat /\ abuf \in 1 .. Len(mem) /\ buf_t \in 0 .. Len(mem)
      /\ size \in Nat /\ size <= Len(mem[Target]) /\ Len(queues) \in Nat
  BY LenProperties DEF Safe, Buffers, Lists
<1>2. Target \in 1 .. Len(mem) BY <1>1 DEF Target
<1>3. Inside(mem[Target], Len(queues)) /\ mem[Target] \in Seq(Node) /\ Len(mem[Target]) \in Nat
  BY <1>1, <1>2, ElementOfSeq, LenProperties DEF Safe, Buffers
<1>4. n \in 1 .. Len(mem[Target]) BY <1>1, <1>3
<1>5. mem[Target][n] \in Node BY <1>3, <1>4, ElementOfSeq
<1>6. mem[Target][n].end \in 0 .. Len(queues) /\ mem[Target][n].std \in 0 .. Len(queues)
  <2>1. mem[Target][n].end \in Nat /\ mem[Target][n].std \in Nat BY <1>5 DEF Node
  <2>2. mem[Target][n].end <= Len(queues) /\ mem[Target][n].std <= Len(queues)
    BY <1>3, <1>4 DEF Inside
  <2> QED BY <1>1, <2>1, <2>2
<1> QED BY <1>1, <1>2, <1>3, <1>4, <1>6

\* Nobody has the name that is about to be added.
LEMMA TrieLockAndFind ==
    ASSUME Safe, Trie, NEW l \in Loops, LockAndFind(l)
    PROVE  Trie'
<1>1. th[l].pc = "lock" /\ lock = None /\ UNCHANGED <<trie, queues>> BY DEF LockAndFind
<1>2. \A k \in Loops : k # l => th'[k] = th[k] BY DEF LockAndFind, Safe
<1>3. mem' = mem /\ Target' = Target /\ size' = size /\ queues' = queues BY <1>1 DEF trie, Target
<1>4. th[l].key \in Keys BY <1>1 DEF Safe, Fits
<1>5. CASE Walk(th[l].key) # 0
  <2>1. th' = [th EXCEPT ![l].pc = "done", ![l].got = queues[Walk(th[l].key)]]
    BY <1>5 DEF LockAndFind, FindLocked
  <2>2. th'[l].pc = "done" BY <2>1 DEF Safe, Thread
  <2> QED BY <1>1, <1>2, <1>3, <2>2, TrieKept
<1>6. CASE Walk(th[l].key) = 0
  <2>1. th' = [th EXCEPT ![l].pc = "assign"] BY <1>6 DEF LockAndFind, FindLocked
  <2>2. th'[l].pc = "assign" /\ th'[l].key = th[l].key BY <2>1 DEF Safe, Thread
  <2>3. \A j \in 1 .. Len(queues) : queues[j] # None => ~Clash(queues[j], th[l].key)
    BY <1>1, <1>4, <1>6, NotFoundIsNew, FreeTarget, FreePending
  <2>4. Assigning'
    <3> SUFFICES ASSUME NEW k \in Loops, th'[k].pc = "assign",
                        NEW j \in 1 .. Len(queues), queues[j] # None
                 PROVE  ~Clash(queues[j], th'[k].key)
      BY <1>3 DEF Assigning, Clash
    <3>1. CASE k = l BY <2>2, <2>3, <3>1
    <3>2. CASE k # l
      <4>1. th'[k] = th[k] BY <1>2, <3>2
      <4> QED BY <4>1 DEF Trie, Assigning
    <3> QED BY <3>1, <3>2
  <2>5. Pending' = Pending BY <1>1, <1>2, <2>2, PendingStep
  <2>6. PICK str : /\ Spelt(mem[Target], size, str) /\ Sound(mem[Target], size, str)
                   /\ Complete(mem[Target], size, str) /\ Adding(str)
    BY DEF Trie
  <2>7. Spelt(mem[Target], size, str)' BY <1>3, <2>6 DEF Spelt
  <2>8. Sound(mem[Target], size, str)' BY <1>3, <2>5, <2>6 DEF Sound
  <2>9. Complete(mem[Target], size, str)' BY <1>3, <2>5, <2>6 DEF Complete, Cell
  <2>10. Adding(str)'
    <3>1. \A k \in Loops : th'[k].pc = "add" => th'[k] = th[k] BY <1>2, <2>2
    <3> QED BY <1>3, <2>6, <3>1 DEF Adding
  <2>11. Distinct' BY <1>3 DEF Trie, Distinct, Clash
  <2> QED BY <2>4, <2>7, <2>8, <2>9, <2>10, <2>11 DEF Trie
<1> QED BY <1>5, <1>6

\* The new queue is in the list and not yet in the trie.
LEMMA TrieAssignSlot ==
    ASSUME Safe, Trie, NEW l \in Loops, AssignSlot(l)
    PROVE  Trie'
<1>0. th[l] \in Thread /\ Fits(l, th[l]) BY DEF Safe
<1>1. th[l].pc = "assign" /\ UNCHANGED <<trie, lock, service>> BY DEF AssignSlot
<1>2. th[l].key \in Keys BY <1>0, <1>1 DEF Fits
<1>3. lock = l BY <1>1 DEF Safe, Locked, Changing
<1>4. mem' = mem /\ Target' = Target /\ size' = size BY <1>1 DEF trie, Target
<1>5. PICK m \in 1 .. Len(queues') :
         /\ m \in 1 .. Len(queues) => queues[m] = None
         /\ queues'[m] = th[l].key
         /\ \A j \in 1 .. Len(queues) : j # m => queues'[j] = queues[j]
         /\ \A j \in 1 .. Len(queues') : j \in 1 .. Len(queues) \/ j = m
         /\ th' = [th EXCEPT ![l].pc = "add", ![l].n = m, ![l].step = 1, ![l].i = 0]
  BY SafeAssignSlot
<1>6. /\ th'[l].pc = "add" /\ th'[l].n = m /\ th'[l].step = 1 /\ th'[l].i = 0
      /\ th'[l].key = th[l].key
  BY <1>0, <1>5 DEF Safe, Thread
<1>7. \A k \in Loops : k # l => th'[k] = th[k] BY <1>5 DEF Safe
<1>8. \A k \in Loops : k # l => th[k].pc \notin {"add", "drop", "assign"}
  BY <1>3, Alone DEF Changing
<1>9. Pending = {} /\ Pending' = {m} BY <1>1, <1>3, <1>6, <1>7, PendingStep
<1>10. PICK str : /\ Spelt(mem[Target], size, str) /\ Sound(mem[Target], size, str)
                  /\ Complete(mem[Target], size, str) /\ Adding(str)
  BY DEF Trie
<1>11. Spelt(mem[Target], size, str)' BY <1>4, <1>10, SMTT(30) DEF Spelt
<1>12. ASSUME NEW j \in 1 .. Len(queues), queues[j] # None PROVE queues'[j] = queues[j] /\ j # m
  BY <1>5, <1>12
<1>13. Sound(mem[Target], size, str)'
  <2> SUFFICES ASSUME NEW n \in 1 .. size
               PROVE  /\ mem[Target][n].end # 0 =>
                            /\ queues'[mem[Target][n].end] # None /\ ~Pattern(queues'[mem[Target][n].end])
                            /\ Stem(queues'[mem[Target][n].end]) = str[n]
                            /\ mem[Target][n].end \notin Pending'
                      /\ mem[Target][n].std # 0 =>
                            /\ queues'[mem[Target][n].std] # None /\ Pattern(queues'[mem[Target][n].std])
                            /\ Stem(queues'[mem[Target][n].std]) = str[n]
                            /\ mem[Target][n].std \notin Pending'
    BY <1>4 DEF Sound
  <2> DEFINE e == mem[Target][n].end
             s == mem[Target][n].std
  <2>1. e \in 0 .. Len(queues) /\ s \in 0 .. Len(queues) /\ Len(queues) \in Nat BY ValueRange
  <2>2. e # 0 => queues[e] # None /\ ~Pattern(queues[e]) /\ Stem(queues[e]) = str[n]
    BY <1>10 DEF Sound
  <2>3. s # 0 => queues[s] # None /\ Pattern(queues[s]) /\ Stem(queues[s]) = str[n]
    BY <1>10 DEF Sound
  <2> HIDE DEF e, s
  <2>4. e # 0 => e \in 1 .. Len(queues) BY <2>1
  <2>5. s # 0 => s \in 1 .. Len(queues) BY <2>1
  <2>6. e # 0 => queues'[e] = queues[e] /\ e # m BY <1>12, <2>2, <2>4
  <2>7. s # 0 => queues'[s] = queues[s] /\ s # m BY <1>12, <2>3, <2>5
  <2> QED BY <1>9, <2>2, <2>3, <2>6, <2>7 DEF e, s
<1>14. Complete(mem[Target], size, str)'
  <2> SUFFICES ASSUME NEW j \in 1 .. Len(queues'), queues'[j] # None, j \notin Pending'
               PROVE  \E n \in 1 .. size : str[n] = Stem(queues'[j])
                                           /\ Cell(mem[Target][n], queues'[j]) = j
    BY <1>4 DEF Complete, Cell
  <2>1. j \in 1 .. Len(queues) /\ queues'[j] = queues[j] BY <1>5, <1>9
  <2>2. \E n \in 1 .. size : str[n] = Stem(queues[j]) /\ Cell(mem[Target][n], queues[j]) = j
    BY <1>9, <1>10, <2>1 DEF Complete
  <2> QED BY <2>1, <2>2
<1>15. Adding(str)'
  <2>1. str[1] = << >> BY <1>10 DEF Spelt
  <2>2. SubSeq(th[l].key, 1, 0) = << >> BY SubSeqEmpty
  <2>3. \A k \in Loops : th'[k].pc = "add" => k = l BY <1>7, <1>8
  <2>4. \A j \in 1 .. 0 : FALSE OBVIOUS
  <2> QED BY <1>5, <1>6, <2>1, <2>2, <2>3, <2>4 DEF Adding
<1>16. Distinct'
  <2>1. \A j \in 1 .. Len(queues) : queues[j] # None => ~Clash(queues[j], th[l].key)
    BY <1>1 DEF Trie, Assigning
  <2> SUFFICES ASSUME NEW i \in 1 .. Len(queues'), NEW j \in 1 .. Len(queues'),
                      queues'[i] # None, queues'[j] # None, Clash(queues'[i], queues'[j])
               PROVE  i = j
    BY DEF Distinct, Clash
  <2>2. CASE i = m /\ j # m
    <3>1. j \in 1 .. Len(queues) /\ queues'[j] = queues[j] BY <1>5, <2>2
    <3>2. Clash(queues[j], th[l].key) BY <1>5, <2>2, <3>1 DEF Clash
    <3> QED BY <2>1, <3>1, <3>2
  <2>3. CASE j = m /\ i # m
    <3>1. i \in 1 .. Len(queues) /\ queues'[i] = queues[i] BY <1>5, <2>3
    <3>2. Clash(queues[i], th[l].key) BY <1>5, <2>3, <3>1 DEF Clash
    <3> QED BY <2>1, <3>1, <3>2
  <2>4. CASE i # m /\ j # m
    <3>1. /\ i \in 1 .. Len(queues) /\ queues'[i] = queues[i]
          /\ j \in 1 .. Len(queues) /\ queues'[j] = queues[j]
      BY <1>5, <2>4
    <3> QED BY <3>1 DEF Trie, Distinct
  <2> QED BY <2>2, <2>3, <2>4
<1>17. Assigning'
  <2>1. \A k \in Loops : th'[k].pc # "assign" BY <1>6, <1>7, <1>8
  <2> QED BY <2>1 DEF Assigning
<1> QED BY <1>11, <1>13, <1>14, <1>15, <1>16, <1>17 DEF Trie

\* C is the buffer B, or a larger copy G of it, with a new node N below s.
Growth(B, S, str, s, c, G, N, C) ==
    /\ B \in Seq(Node) /\ S \in Nat /\ S <= Len(B) /\ Spelt(B, S, str)
    /\ s \in 1 .. S /\ c \in Chars /\ B[s].k[c] = 0
    /\ Extends(G, B) /\ N = S + 1 /\ N <= Len(G)
    /\ C = WithLink(G, s, c, N)

\* A new node: it spells what its parent spells, and one character more.
LEMMA SpeltGrows ==
    ASSUME NEW B, NEW S, NEW str, NEW s, NEW c, NEW G, NEW N, NEW C,
           Growth(B, S, str, s, c, G, N, C)
    PROVE  /\ \E st : /\ Spelt(C, N, st) /\ st[N] = Append(str[s], c)
                      /\ \A n \in 1 .. S : st[n] = str[n]
           /\ \A n \in 1 .. S : C[n].end = B[n].end /\ C[n].std = B[n].std
           /\ C[N].end = 0 /\ C[N].std = 0
<1> DEFINE st == [n \in 1 .. N |-> IF n \in 1 .. S THEN str[n] ELSE Append(str[s], c)]
<1>0. /\ B \in Seq(Node) /\ S \in Nat /\ S <= Len(B) /\ Spelt(B, S, str)
      /\ s \in 1 .. S /\ c \in Chars /\ B[s].k[c] = 0
      /\ Extends(G, B) /\ N = S + 1 /\ N <= Len(G)
  BY DEF Growth
<1>1. /\ G \in Seq(Node) /\ Len(G) \in Nat /\ Len(B) \in Nat /\ Len(B) <= Len(G)
      /\ \A n \in 1 .. Len(B) : G[n] = B[n]
      /\ \A n \in Len(B) + 1 .. Len(G) : G[n] = EmptyStep
  BY <1>0, LenProperties DEF Extends
<1>2. s \in 1 .. Len(G) /\ N \in Nat BY <1>0, <1>1
<1>3. /\ Len(C) = Len(G)
      /\ \A n \in 1 .. Len(G) :
            /\ C[n].end = G[n].end /\ C[n].std = G[n].std
            /\ \A d \in Chars : C[n].k[d] = IF n = s /\ d = c THEN N ELSE G[n].k[d]
      /\ \A n \in 1 .. Len(G) : n # s => C[n] = G[n]
  <2>1. C = WithLink(G, s, c, N) BY DEF Growth
  <2> QED BY <1>0, <1>1, <1>2, <2>1, LinkWritten
<1>5. \A n \in 1 .. S : G[n] = B[n] /\ n \in 1 .. Len(G) BY <1>0, <1>1
<1>9. /\ str \in [1 .. S -> Seq(Chars)] /\ str[1] = << >>
      /\ \A n \in 1 .. S, d \in Chars :
            B[n].k[d] # 0 => B[n].k[d] \in 2 .. S /\ str[B[n].k[d]] = Append(str[n], d)
      /\ \A n \in 2 .. S : \E p \in 1 .. n - 1, d \in Chars : B[p].k[d] = n
      /\ \A n, m \in 1 .. S : str[n] = str[m] => n = m
      /\ \A n \in S + 1 .. Len(B) : B[n] = EmptyStep
  BY <1>0 DEF Spelt
<1>6. ASSUME NEW n \in S + 1 .. Len(G) PROVE G[n] = EmptyStep
  <2>1. CASE n \in 1 .. Len(B)
    <3>1. n \in S + 1 .. Len(B) BY <1>0, <1>1, <2>1
    <3> QED BY <1>0, <1>1, <1>9, <2>1, <3>1
  <2>2. CASE n \notin 1 .. Len(B)
    <3>1. n \in Len(B) + 1 .. Len(G) BY <1>0, <1>1, <2>2
    <3> QED BY <1>0, <1>1, <3>1
  <2> QED BY <1>0, <2>1, <2>2
<1>7. \A n \in 1 .. S, d \in Chars : C[n].k[d] = IF n = s /\ d = c THEN N ELSE B[n].k[d]
  BY <1>0, <1>3, <1>5
<1>8. N \in 1 .. Len(G) /\ N # s /\ N \in S + 1 .. Len(G) /\ G[N] = EmptyStep
  BY <1>0, <1>1, <1>2, <1>6
<1>10. C[N].end = 0 /\ C[N].std = 0 /\ \A d \in Chars : C[N].k[d] = 0
  BY <1>0, <1>3, <1>8, EmptyStepShape
<1>11. \A n \in 1 .. S : C[n].end = B[n].end /\ C[n].std = B[n].std BY <1>0, <1>3, <1>5
<1>12. str[s] \in Seq(Chars) /\ Append(str[s], c) \in Seq(Chars) BY <1>0, <1>9, AppendProperties
<1>13. N \in 1 .. N /\ N \notin 1 .. S /\ \A n \in 1 .. N : n \in 1 .. S \/ n = N BY <1>0, <1>2
<1>14. st[N] = Append(str[s], c) /\ \A n \in 1 .. S : n \in 1 .. N /\ st[n] = str[n] BY <1>0, <1>13
<1>15. st \in [1 .. N -> Seq(Chars)] BY <1>0, <1>9, <1>12
<1> HIDE DEF st
<1>16. st[1] = << >>
  <2>1. 1 \in 1 .. S BY <1>0
  <2> QED BY <1>0, <1>9, <1>14, <2>1
<1>17. ASSUME NEW n \in 1 .. N, NEW d \in Chars, C[n].k[d] # 0
       PROVE  C[n].k[d] \in 2 .. N /\ st[C[n].k[d]] = Append(st[n], d)
  <2>1. n \in 1 .. S BY <1>0, <1>10, <1>13, <1>17
  <2>2. CASE n = s /\ d = c
    <3>1. C[n].k[d] = N /\ N \in 2 .. N BY <1>0, <1>2, <1>7, <2>1, <2>2
    <3> QED BY <1>0, <1>14, <2>1, <2>2, <3>1
  <2>3. CASE ~(n = s /\ d = c)
    <3>1. C[n].k[d] = B[n].k[d] BY <1>0, <1>7, <2>1, <2>3
    <3> DEFINE m == B[n].k[d]
    <3>2. m \in 2 .. S /\ str[m] = Append(str[n], d) BY <1>0, <1>9, <1>17, <2>1, <3>1, SMTT(40)
    <3> HIDE DEF m
    <3>3. m \in 1 .. S /\ m \in 2 .. N BY <1>0, <3>2
    <3>4. st[m] = Append(st[n], d) BY <1>0, <1>14, <2>1, <3>2, <3>3
    <3> QED BY <3>1, <3>3, <3>4 DEF m
  <2> QED BY <1>0, <2>2, <2>3
<1>18. ASSUME NEW n \in 2 .. N PROVE \E p \in 1 .. n - 1, d \in Chars : C[p].k[d] = n
  <2>1. CASE n \in 2 .. S
    <3>1. PICK p \in 1 .. n - 1, d \in Chars : B[p].k[d] = n BY <1>0, <1>9, <2>1
    <3>2. p \in 1 .. S /\ n # 0 BY <1>0, <2>1
    <3>3. ~(p = s /\ d = c) BY <1>0, <3>1, <3>2
    <3> QED BY <1>0, <1>7, <3>1, <3>2, <3>3
  <2>2. CASE n = N
    <3>1. s \in 1 .. n - 1 BY <1>0, <2>2
    <3>2. C[s].k[c] = n BY <1>0, <1>7, <2>2
    <3> QED BY <1>0, <3>1, <3>2
  <2> QED BY <1>0, <1>13, <2>1, <2>2
<1>19. \A m \in 1 .. S : str[m] # Append(str[s], c)
  <2> SUFFICES ASSUME NEW m \in 1 .. S, str[m] = Append(str[s], c) PROVE FALSE OBVIOUS
  <2>1. PICK u : u = str[s] OBVIOUS
  <2>2. u \in Seq(Chars) /\ str[m] = Append(u, c) BY <1>0, <1>12, <2>1
  <2>3. Append(u, c) # << >> BY <1>0, <2>2, AppendProperties
  <2>4. m \in 2 .. S BY <1>0, <1>9, <2>2, <2>3
  <2>5. PICK p \in 1 .. m - 1, d \in Chars : B[p].k[d] = m BY <1>0, <1>9, <2>4
  <2>6. p \in 1 .. S /\ m # 0 BY <1>0, <2>4
  <2>7. PICK v : v = str[p] OBVIOUS
  <2>8. v \in Seq(Chars) /\ Append(v, d) = Append(u, c)
    <3>1. str[m] = Append(str[p], d)
      <4>1. B[p].k[d] # 0 BY <2>5, <2>6
      <4>2. \A n \in 1 .. S, e \in Chars : B[n].k[e] # 0 => str[B[n].k[e]] = Append(str[n], e)
        BY <1>9
      <4>3. str[B[p].k[d]] = Append(str[p], d) BY <2>6, <4>1, <4>2
      <4> QED BY <2>5, <4>3
    <3> QED BY <1>0, <1>9, <2>2, <2>6, <2>7, <3>1
  <2>9. v = u /\ d = c BY <1>0, <2>2, <2>8, AppendInjective
  <2>10. p = s BY <1>0, <1>9, <2>1, <2>6, <2>7, <2>9
  <2> QED BY <1>0, <2>5, <2>6, <2>9, <2>10
<1>20. ASSUME NEW n \in 1 .. N, NEW m \in 1 .. N, st[n] = st[m] PROVE n = m
  <2>1. CASE n \in 1 .. S /\ m \in 1 .. S
    <3>1. str[n] = str[m] BY <1>0, <1>14, <1>20, <2>1
    <3> QED BY <1>0, <1>9, <2>1, <3>1
  <2>2. CASE n \in 1 .. S /\ m = N BY <1>0, <1>14, <1>19, <1>20, <2>2
  <2>3. CASE n = N /\ m \in 1 .. S BY <1>0, <1>14, <1>19, <1>20, <2>3
  <2> QED BY <1>0, <1>13, <2>1, <2>2, <2>3
<1>21. \A n \in N + 1 .. Len(C) : C[n] = EmptyStep
  <2>1. \A n \in N + 1 .. Len(C) : n \in S + 1 .. Len(G) /\ n \in 1 .. Len(G) /\ n # s
    BY <1>0, <1>1, <1>3
  <2> QED BY <1>0, <1>3, <1>6, <2>1
<1>22. Spelt(C, N, st) BY <1>0, <1>15, <1>16, <1>17, <1>18, <1>20, <1>21 DEF Spelt
<1> QED BY <1>0, <1>10, <1>11, <1>14, <1>22

\* The trie after a step, put together from its parts.
LEMMA TrieIs ==
    ASSUME NEW C, NEW N, NEW st, mem'[Target'] = C, size' = N, Spelt(C, N, st), Distinct', Assigning',
           \A n \in 1 .. N :
              /\ C[n].end # 0 =>
                    /\ queues'[C[n].end] # None /\ ~Pattern(queues'[C[n].end])
                    /\ Stem(queues'[C[n].end]) = st[n] /\ C[n].end \notin Pending'
              /\ C[n].std # 0 =>
                    /\ queues'[C[n].std] # None /\ Pattern(queues'[C[n].std])
                    /\ Stem(queues'[C[n].std]) = st[n] /\ C[n].std \notin Pending',
           \A j \in 1 .. Len(queues') :
              queues'[j] # None /\ j \notin Pending' =>
                 \E n \in 1 .. N : st[n] = Stem(queues'[j]) /\ Cell(C[n], queues'[j]) = j,
           Adding(st)'
    PROVE  Trie'
<1>1. Sound(C, N, st)' BY DEF Sound
<1>2. Complete(C, N, st)' BY DEF Complete
<1>3. Spelt(C, N, st)' OBVIOUS
<1>4. C' = C /\ N' = N OBVIOUS
<1>5. /\ Spelt(mem'[Target'], size', st) /\ Sound(mem[Target], size, st)'
      /\ Complete(mem[Target], size, st)'
  BY <1>1, <1>2, <1>3 DEF Spelt, Sound, Complete
<1> QED BY <1>5 DEF Trie

\* add makes the node for one more character of the name.
LEMMA TrieAddChar ==
    ASSUME Safe, Trie, NEW l \in Loops, AddChar(l)
    PROVE  Trie'
<1> DEFINE t == th[l]
           c == t.key[t.i + 1]
           s == t.step
           B == mem[Target]
           next == B[s].k[c]
<1>0. t \in Thread /\ Fits(l, t) BY DEF Safe
<1>1. /\ t.pc = "add" /\ t.i < Len(t.key) /\ t.i + 1 \in 1 .. Len(t.key) /\ c \in Chars
      /\ UNCHANGED <<abuf, queues, vcap, lock, service>>
  BY AddCharEffect
<1>2. t.key \in Seq(Chars \cup {Star}) /\ t.i \in Nat /\ Len(t.key) \in Nat
  BY <1>0, <1>1, NameShape DEF Fits, Thread
<1>3. lock = l BY <1>1 DEF Safe, Locked, Changing
<1>4. \A k \in Loops : k # l => th[k].pc \notin {"add", "drop", "assign"}
  BY <1>3, Alone DEF Changing
<1>5. s \in 1 .. size BY <1>0, <1>1 DEF Fits
<1>6. B \in Seq(Node) /\ Len(B) \in Nat /\ size \in Nat /\ size <= Len(B) /\ s \in 1 .. Len(B)
  BY <1>5, ValueRange
<1>7. PICK str : Spelt(B, size, str) /\ Sound(B, size, str) /\ Complete(B, size, str) /\ Adding(str)
  BY DEF Trie
<1>8. /\ queues[t.n] = t.key /\ \A j \in 1 .. t.i : t.key[j] # Star
      /\ str[s] = SubSeq(t.key, 1, t.i)
  BY <1>1, <1>7 DEF Adding
<1>9. c # Star BY <1>1, NameShape DEF Chars
<1>10. Append(str[s], c) = SubSeq(t.key, 1, t.i + 1)
  <2>1. t.i + 1 <= Len(t.key) BY <1>1, <1>2
  <2>2. SubSeq(t.key, 1, t.i + 1) = Append(SubSeq(t.key, 1, t.i), t.key[t.i + 1])
    BY <1>2, <2>1, PrefixGrows
  <2> QED BY <1>8, <2>2
\* What is left to show when the new position n of the thread is known.
<1>11. ASSUME NEW n \in Nat, th' = [th EXCEPT ![l].step = n, ![l].i = @ + 1]
       PROVE  /\ th'[l].pc = "add" /\ th'[l].step = n /\ th'[l].i = t.i + 1 /\ th'[l].key = t.key
              /\ th'[l].n = t.n /\ \A k \in Loops : k # l => th'[k] = th[k]
              /\ Pending' = Pending /\ Distinct' /\ Assigning'
              /\ \A st : st[n] = SubSeq(t.key, 1, t.i + 1) => Adding(st)'
  <2>1. /\ th'[l].pc = "add" /\ th'[l].step = n /\ th'[l].i = t.i + 1 /\ th'[l].key = t.key
        /\ th'[l].n = t.n
    BY <1>0, <1>1, <1>11 DEF Safe, Thread
  <2>2. \A k \in Loops : k # l => th'[k] = th[k] BY <1>11 DEF Safe
  <2>3. Pending' = Pending BY <1>1, <1>3, <2>1, <2>2, PendingStep
  <2>4. queues' = queues BY <1>1
  <2>5. Distinct' BY <2>4 DEF Trie, Distinct, Clash
  <2>6. Assigning'
    <3>1. \A k \in Loops : th'[k].pc # "assign" BY <1>4, <2>1, <2>2
    <3> QED BY <3>1 DEF Assigning
  <2>7. ASSUME NEW st, st[n] = SubSeq(t.key, 1, t.i + 1) PROVE Adding(st)'
    <3>1. \A k \in Loops : th'[k].pc = "add" => k = l BY <1>4, <2>2
    <3>2. \A j \in 1 .. t.i + 1 : t.key[j] # Star
      <4>1. \A j \in 1 .. t.i + 1 : j \in 1 .. t.i \/ j = t.i + 1 BY <1>2
      <4> QED BY <1>8, <1>9, <4>1
    <3>3. queues'[t.n] = t.key BY <1>8, <2>4
    <3> HIDE DEF t
    <3> QED BY <2>1, <2>7, <3>1, <3>2, <3>3 DEF Adding
  <2> QED BY <2>1, <2>2, <2>3, <2>5, <2>6, <2>7
<1>12. CASE /\ next # 0 /\ next \in Nat /\ UNCHANGED trie
            /\ th' = [th EXCEPT ![l].step = next, ![l].i = @ + 1]
  <2>1. mem' = mem /\ Target' = Target /\ size' = size /\ queues' = queues
    BY <1>1, <1>12 DEF trie, Target
  <2>2. str[next] = Append(str[s], c) BY <1>1, <1>5, <1>7, <1>12 DEF Spelt
  <2>3. Pending' = Pending /\ Distinct' /\ Assigning' /\ Adding(str)'
    BY <1>10, <1>11, <1>12, <2>2, ZenonT(40)
  <2>4. Spelt(mem[Target], size, str)' BY <1>7, <2>1 DEF Spelt
  <2>5. Sound(mem[Target], size, str)' BY <1>7, <2>1, <2>3 DEF Sound
  <2>6. Complete(mem[Target], size, str)' BY <1>7, <2>1, <2>3 DEF Complete, Cell
  <2> QED BY <2>3, <2>4, <2>5, <2>6 DEF Trie
<1>13. ASSUME next = 0, size' = size + 1,
              th' = [th EXCEPT ![l].step = size + 1, ![l].i = @ + 1],
              NEW G, Extends(G, B), size + 1 <= Len(G),
              mem'[Target'] = [G EXCEPT ![s].k[c] = size + 1]
       PROVE  Trie'
  <2>1. PICK C, N, b, S, v, d : /\ C = [G EXCEPT ![s].k[c] = size + 1] /\ N = size + 1 /\ b = B
                                /\ S = size /\ v = s /\ d = c
    OBVIOUS
  <2>2. /\ S \in Nat /\ N = S + 1 /\ Growth(b, S, str, v, d, G, N, C)
    <3>1. C = [G EXCEPT ![v].k[d] = N] BY <2>1
    <3>2. b \in Seq(Node) /\ S \in Nat /\ S <= Len(b) BY <1>6, <2>1
    <3>3. Spelt(b, S, str) /\ Extends(G, b) BY <1>7, <1>13, <2>1
    <3>4. v \in 1 .. S /\ d \in Chars BY <1>1, <1>5, <2>1
    <3>5. b[v].k[d] = 0 BY <1>13, <2>1
    <3>6. N = S + 1 /\ N <= Len(G) BY <1>13, <2>1
    <3>7. C = WithLink(G, v, d, N) BY <3>1 DEF WithLink
    <3> QED BY <3>2, <3>3, <3>4, <3>5, <3>6, <3>7 DEF Growth
  <2>3. /\ \E st : /\ Spelt(C, N, st) /\ st[N] = Append(str[v], d)
                   /\ \A n \in 1 .. S : st[n] = str[n]
        /\ \A n \in 1 .. S : C[n].end = b[n].end /\ C[n].std = b[n].std
        /\ C[N].end = 0 /\ C[N].std = 0
    BY <2>2, SpeltGrows
  <2>4. PICK st : Spelt(C, N, st) /\ st[N] = Append(str[v], d) /\ \A n \in 1 .. S : st[n] = str[n]
    BY <2>3
  <2>5. mem'[Target'] = C /\ size' = N /\ queues' = queues BY <1>1, <1>13, <2>1
  <2>6. st[N] = SubSeq(t.key, 1, t.i + 1) BY <1>10, <2>1, <2>4
  <2>7. N \in Nat /\ th' = [th EXCEPT ![l].step = N, ![l].i = @ + 1] BY <1>6, <1>13, <2>1
  <2>8. Pending' = Pending /\ Distinct' /\ Assigning' /\ Adding(st)' BY <1>11, <2>6, <2>7
  <2>9. Sound(b, S, str) /\ Complete(b, S, str) BY <1>7, <2>1
  <2>10. \A n \in 1 .. N : n \in 1 .. S \/ n = N BY <2>2
  <2>11. S \in Nat /\ N = S + 1 BY <2>2
  <2>12. ASSUME NEW n \in 1 .. N
         PROVE  /\ C[n].end # 0 =>
                      /\ queues[C[n].end] # None /\ ~Pattern(queues[C[n].end])
                      /\ Stem(queues[C[n].end]) = st[n] /\ C[n].end \notin Pending
                /\ C[n].std # 0 =>
                      /\ queues[C[n].std] # None /\ Pattern(queues[C[n].std])
                      /\ Stem(queues[C[n].std]) = st[n] /\ C[n].std \notin Pending
    <3>1. CASE n = N BY <2>3, <3>1
    <3>2. CASE n \in 1 .. S
      <4>1. C[n].end = b[n].end /\ C[n].std = b[n].std /\ st[n] = str[n] BY <2>3, <2>4, <3>2
      <4> QED BY <2>9, <3>2, <4>1 DEF Sound
    <3> QED BY <2>10, <3>1, <3>2
  <2>13. ASSUME NEW j \in 1 .. Len(queues), queues[j] # None, j \notin Pending
         PROVE  \E n \in 1 .. N : st[n] = Stem(queues[j]) /\ Cell(C[n], queues[j]) = j
    <3>1. PICK n \in 1 .. S : str[n] = Stem(queues[j]) /\ Cell(b[n], queues[j]) = j
      BY <2>9, <2>13 DEF Complete
    <3>2. n \in 1 .. N /\ st[n] = str[n] BY <2>4, <2>11
    <3>3. Cell(C[n], queues[j]) = j BY <2>3, <3>1 DEF Cell
    <3> QED BY <3>1, <3>2, <3>3
  <2> HIDE DEF B, s, c, t, next
  <2> QED BY <2>4, <2>5, <2>8, <2>12, <2>13, TrieIs
<1>14. \/ /\ next # 0 /\ next \in Nat /\ UNCHANGED trie
          /\ th' = [th EXCEPT ![l].step = next, ![l].i = @ + 1]
       \/ /\ next = 0 /\ size' = size + 1
          /\ th' = [th EXCEPT ![l].step = size + 1, ![l].i = @ + 1]
          /\ \E G : /\ Extends(G, B) /\ size + 1 <= Len(G)
                    /\ mem'[Target'] = [G EXCEPT ![s].k[c] = size + 1]
  BY AddCharEffect
<1> QED BY <1>12, <1>13, <1>14

\* Where add stops, the name's stem ends.
LEMMA StemIs ==
    ASSUME NEW key \in Keys, NEW i \in Nat, i <= Len(key), i < Len(key) => key[i + 1] = Star,
           \A j \in 1 .. i : key[j] # Star
    PROVE  (Pattern(key) <=> i < Len(key)) /\ Stem(key) = SubSeq(key, 1, i)
<1>1. key \in Seq(Chars \cup {Star}) /\ Len(key) \in Nat /\ DOMAIN key = 1 .. Len(key) BY NameShape
<1>2. PICK L : L = Len(Stem(key)) OBVIOUS
<1>3. /\ Stem(key) \in Seq(Chars) /\ L \in Nat /\ L <= Len(key)
      /\ \A j \in 1 .. L : Stem(key)[j] = key[j] /\ key[j] # Star
      /\ Pattern(key) => L < Len(key) /\ key[L + 1] = Star
      /\ ~Pattern(key) => Stem(key) = key
  BY <1>2, StemShape
<1>4. Pattern(key) <=> i < Len(key)
  <2>1. ASSUME Pattern(key) PROVE i < Len(key)
    <3>1. PICK j \in 1 .. Len(key) : key[j] = Star BY <1>1, <2>1 DEF Pattern
    <3>2. j \notin 1 .. i BY <3>1
    <3> QED BY <1>1, <3>2
  <2>2. ASSUME i < Len(key) PROVE Pattern(key)
    <3>1. i + 1 \in 1 .. Len(key) BY <1>1, <2>2
    <3> QED BY <1>1, <2>2, <3>1 DEF Pattern
  <2> QED BY <2>1, <2>2
<1>5. L = i
  <2>1. CASE Pattern(key)
    <3>1. L < Len(key) /\ key[L + 1] = Star /\ i < Len(key) /\ key[i + 1] = Star BY <1>3, <1>4, <2>1
    <3>2. L + 1 \notin 1 .. i BY <3>1
    <3>3. i + 1 \notin 1 .. L BY <1>3, <3>1
    <3> QED BY <1>3, <3>2, <3>3
  <2>2. CASE ~Pattern(key) BY <1>1, <1>2, <1>3, <1>4, <2>2
  <2> QED BY <2>1, <2>2
<1>6. Begins(Stem(key), key) BY <1>2, <1>3 DEF Begins
<1>7. Stem(key) = SubSeq(key, 1, Len(Stem(key))) BY <1>1, <1>3, <1>6, BeginsPrefix
<1> QED BY <1>2, <1>4, <1>5, <1>7

\* C is the buffer B with the value v at s: for a pattern, or for a name.
Valued(C, B, s, p, v) == C = IF p THEN [B EXCEPT ![s].std = v] ELSE [B EXCEPT ![s].end = v]

\* Such a buffer.
LEMMA ValuedShape ==
    ASSUME NEW B \in Seq(Node), NEW s \in 1 .. Len(B), NEW p \in BOOLEAN, NEW v \in Nat, NEW C,
           Valued(C, B, s, p, v)
    PROVE  /\ Len(C) = Len(B)
           /\ \A n \in 1 .. Len(B) : n # s => C[n] = B[n]
           /\ \A n \in 1 .. Len(B) : C[n].k = B[n].k
           /\ C[s].std = (IF p THEN v ELSE B[s].std)
           /\ C[s].end = (IF p THEN B[s].end ELSE v)
<1>1. CASE p
  <2>1. C = [B EXCEPT ![s].std = v] BY <1>1 DEF Valued
  <2>2. /\ [B EXCEPT ![s].std = v] \in Seq(Node) /\ Len([B EXCEPT ![s].std = v]) = Len(B)
        /\ \A n \in 1 .. Len(B) :
              /\ [B EXCEPT ![s].std = v][n].std = IF n = s THEN v ELSE B[n].std
              /\ [B EXCEPT ![s].std = v][n].end = B[n].end /\ [B EXCEPT ![s].std = v][n].k = B[n].k
        /\ \A n \in 1 .. Len(B) : n # s => [B EXCEPT ![s].std = v][n] = B[n]
    BY StdWritten
  <2>3. /\ Len(C) = Len(B)
        /\ \A n \in 1 .. Len(B) :
              /\ C[n].std = IF n = s THEN v ELSE B[n].std
              /\ C[n].end = B[n].end /\ C[n].k = B[n].k
        /\ \A n \in 1 .. Len(B) : n # s => C[n] = B[n]
    BY ONLY <2>1, <2>2
  <2> QED BY <1>1, <2>3
<1>2. CASE ~p
  <2>1. C = [B EXCEPT ![s].end = v] BY <1>2 DEF Valued
  <2>2. /\ [B EXCEPT ![s].end = v] \in Seq(Node) /\ Len([B EXCEPT ![s].end = v]) = Len(B)
        /\ \A n \in 1 .. Len(B) :
              /\ [B EXCEPT ![s].end = v][n].end = IF n = s THEN v ELSE B[n].end
              /\ [B EXCEPT ![s].end = v][n].std = B[n].std /\ [B EXCEPT ![s].end = v][n].k = B[n].k
        /\ \A n \in 1 .. Len(B) : n # s => [B EXCEPT ![s].end = v][n] = B[n]
    BY EndWritten
  <2>3. /\ Len(C) = Len(B)
        /\ \A n \in 1 .. Len(B) :
              /\ C[n].end = IF n = s THEN v ELSE B[n].end
              /\ C[n].std = B[n].std /\ C[n].k = B[n].k
        /\ \A n \in 1 .. Len(B) : n # s => C[n] = B[n]
    BY ONLY <2>1, <2>2
  <2> QED BY <1>2, <2>3
<1> QED BY <1>1, <1>2

\* A value changes nothing of what the nodes spell.
LEMMA SpeltValued ==
    ASSUME NEW B \in Seq(Node), NEW N \in Nat, N <= Len(B), NEW str, Spelt(B, N, str),
           NEW s \in 1 .. N, NEW C, Len(C) = Len(B),
           \A n \in 1 .. Len(B) : n # s => C[n] = B[n],
           \A n \in 1 .. Len(B) : C[n].k = B[n].k
    PROVE  Spelt(C, N, str)
<1>1. /\ str \in [1 .. N -> Seq(Chars)] /\ str[1] = << >>
      /\ \A n \in 1 .. N, c \in Chars :
            B[n].k[c] # 0 => B[n].k[c] \in 2 .. N /\ str[B[n].k[c]] = Append(str[n], c)
      /\ \A n \in 2 .. N : \E p \in 1 .. n - 1, c \in Chars : B[p].k[c] = n
      /\ \A n, m \in 1 .. N : str[n] = str[m] => n = m
      /\ \A n \in N + 1 .. Len(B) : B[n] = EmptyStep
  BY DEF Spelt
<1>2. Len(B) \in Nat BY LenProperties
<1>3. \A n \in 1 .. N : C[n].k = B[n].k BY <1>2
<1>4. ASSUME NEW n \in 1 .. N, NEW c \in Chars, C[n].k[c] # 0
      PROVE  C[n].k[c] \in 2 .. N /\ str[C[n].k[c]] = Append(str[n], c)
  <2>1. C[n].k[c] = B[n].k[c] BY <1>3
  <2>2. B[n].k[c] # 0 => B[n].k[c] \in 2 .. N /\ str[B[n].k[c]] = Append(str[n], c) BY <1>1
  <2> QED BY <1>4, <2>1, <2>2
<1>5. ASSUME NEW n \in 2 .. N PROVE \E p \in 1 .. n - 1, c \in Chars : C[p].k[c] = n
  <2>1. PICK p \in 1 .. n - 1, c \in Chars : B[p].k[c] = n BY <1>1
  <2>2. C[p].k = B[p].k BY <1>3
  <2> QED BY <2>1, <2>2
<1>6. \A n \in N + 1 .. Len(C) : C[n] = EmptyStep
  <2>1. \A n \in N + 1 .. Len(C) : n \in 1 .. Len(B) /\ n # s BY <1>2
  <2> QED BY <1>1, <2>1
<1> QED BY <1>1, <1>4, <1>5, <1>6 DEF Spelt

\* The value goes to the node of the stem, which had none.
LEMMA TrieAddValue ==
    ASSUME Safe, Trie, NEW l \in Loops, AddValue(l)
    PROVE  Trie'
<1> DEFINE t == th[l]
<1>0. t \in Thread /\ Fits(l, t) BY DEF Safe
<1>1. /\ t.pc = "add" /\ t.i <= Len(t.key) /\ t.key \in Keys
      /\ t.i < Len(t.key) => t.key[t.i + 1] = Star
      /\ t.step \in 1 .. size /\ t.step \in 1 .. Len(mem[Target]) /\ t.n \in 1 .. Len(queues)
      /\ Target' = Target
      /\ mem'[Target] = IF t.i = Len(t.key) THEN [mem[Target] EXCEPT ![t.step].end = t.n]
                        ELSE [mem[Target] EXCEPT ![t.step].std = t.n]
      /\ th'[l].pc \in {"done", "publish"} /\ UNCHANGED <<size, queues>>
      /\ \A k \in Loops : k # l => th'[k] = th[k]
  BY AddValueEffect
<1>2. lock = l BY <1>1 DEF Safe, Locked, Changing
<1>3. \A k \in Loops : k # l => th[k].pc \notin {"add", "drop", "assign"}
  BY <1>2, Alone DEF Changing
<1>4. Pending = {t.n} /\ Pending' = {}
  <2>1. th'[l].pc \notin {"add", "drop"} BY <1>1
  <2>2. \A k \in Loops : k # l => th'[k] = th[k] BY <1>1
  <2> QED BY <1>1, <1>2, <2>1, <2>2, PendingStep
<1>5. PICK str : Spelt(mem[Target], size, str) /\ Sound(mem[Target], size, str)
                 /\ Complete(mem[Target], size, str) /\ Adding(str)
  BY DEF Trie
<1>6. /\ queues[t.n] = t.key /\ \A j \in 1 .. t.i : t.key[j] # Star
      /\ str[t.step] = SubSeq(t.key, 1, t.i)
  BY <1>1, <1>5 DEF Adding
<1>7. t.i \in Nat BY <1>0 DEF Thread
<1>8. (Pattern(t.key) <=> t.i < Len(t.key)) /\ Stem(t.key) = SubSeq(t.key, 1, t.i)
  BY <1>1, <1>6, <1>7, StemIs
<1>9. Len(t.key) \in Nat BY <1>1, NameShape
<1>10. PICK B, C, N, s, v, key, p :
          /\ B = mem[Target] /\ C = mem'[Target] /\ N = size /\ s = t.step /\ v = t.n
          /\ key = t.key /\ p = Pattern(t.key)
  OBVIOUS
<1>11. /\ B \in Seq(Node) /\ N \in Nat /\ N <= Len(B) /\ Len(B) \in Nat /\ Len(queues) \in Nat
       /\ \A n \in 1 .. N : B[n].end \in 0 .. Len(queues) /\ B[n].std \in 0 .. Len(queues)
  BY <1>1, <1>10, ValueRange
<1>12. Spelt(B, N, str) /\ Sound(B, N, str) /\ Complete(B, N, str) BY <1>5, <1>10
<1>13. /\ s \in 1 .. N /\ s \in 1 .. Len(B) /\ v \in 1 .. Len(queues) /\ v \in Nat
  BY <1>1, <1>10, <1>11
<1>14. /\ queues[v] = key /\ key \in Keys /\ Stem(key) = str[s] /\ (Pattern(key) <=> p)
       /\ p \in BOOLEAN
  <2>1. (Pattern(t.key) <=> t.i < Len(t.key)) /\ (t.i < Len(t.key)) \in BOOLEAN BY <1>7, <1>8, <1>9
  <2>2. Pattern(t.key) \in BOOLEAN BY DEF Pattern
  <2> QED BY <1>1, <1>6, <1>8, <1>10, <2>2
<1>15. key # None BY <1>14, KeysAssumption
<1>16. Valued(C, B, s, p, v)
  <2>1. p <=> ~(t.i = Len(t.key)) BY <1>1, <1>7, <1>8, <1>9, <1>10
  <2> HIDE DEF t
  <2>2. CASE p
    <3>1. C = [B EXCEPT ![s].std = v] BY <1>1, <1>10, <2>1, <2>2
    <3> QED BY <2>2, <3>1 DEF Valued
  <2>3. CASE ~p
    <3>1. C = [B EXCEPT ![s].end = v] BY <1>1, <1>10, <2>1, <2>3
    <3> QED BY <2>3, <3>1 DEF Valued
  <2> QED BY <2>2, <2>3
<1>17. Pending = {v} BY <1>4, <1>10
<1>18. mem'[Target'] = C /\ size' = N /\ queues' = queues BY <1>1, <1>10
<1>19. Distinct' /\ Assigning' /\ Adding(str)'
  <2>1. Distinct' BY <1>18 DEF Trie, Distinct, Clash
  <2>2. \A k \in Loops : th'[k].pc \notin {"assign", "add"} BY <1>1, <1>3
  <2> QED BY <2>1, <2>2 DEF Assigning, Adding
<1> HIDE DEF t
<1>20. /\ Len(C) = Len(B)
       /\ \A n \in 1 .. Len(B) : n # s => C[n] = B[n]
       /\ \A n \in 1 .. Len(B) : C[n].k = B[n].k
       /\ C[s].std = (IF p THEN v ELSE B[s].std)
       /\ C[s].end = (IF p THEN B[s].end ELSE v)
  BY <1>11, <1>13, <1>14, <1>16, ValuedShape
<1>21. Spelt(C, N, str) BY <1>11, <1>12, <1>13, <1>20, SpeltValued
\* What stood there would have been a queue in this place.
<1>22. Cell(B[s], key) = 0
  <2> SUFFICES ASSUME Cell(B[s], key) # 0 PROVE FALSE OBVIOUS
  <2>1. PICK w : w = Cell(B[s], key) OBVIOUS
  <2>2. /\ w \in 1 .. Len(queues) /\ queues[w] # None /\ (Pattern(queues[w]) <=> Pattern(key))
        /\ Stem(queues[w]) = str[s] /\ w # v
    <3>1. w # 0 BY <2>1
    <3>2. CASE Pattern(key)
      <4>1. w = B[s].std BY <2>1, <3>2 DEF Cell
      <4>2. queues[w] # None /\ Pattern(queues[w]) /\ Stem(queues[w]) = str[s] /\ w \notin Pending
        BY <1>12, <1>13, <3>1, <4>1 DEF Sound
      <4>3. w \in 1 .. Len(queues) BY <1>11, <1>13, <3>1, <4>1
      <4> QED BY <1>17, <3>2, <4>2, <4>3
    <3>3. CASE ~Pattern(key)
      <4>1. w = B[s].end BY <2>1, <3>3 DEF Cell
      <4>2. queues[w] # None /\ ~Pattern(queues[w]) /\ Stem(queues[w]) = str[s] /\ w \notin Pending
        BY <1>12, <1>13, <3>1, <4>1 DEF Sound
      <4>3. w \in 1 .. Len(queues) BY <1>11, <1>13, <3>1, <4>1
      <4> QED BY <1>17, <3>3, <4>2, <4>3
    <3> QED BY <3>2, <3>3
  <2>3. Clash(queues[w], queues[v]) BY <1>14, <2>2 DEF Clash
  <2> QED BY <1>13, <1>14, <1>15, <2>2, <2>3 DEF Trie, Distinct
<1>23. ASSUME NEW n \in 1 .. N
       PROVE  /\ C[n].end # 0 =>
                    /\ queues[C[n].end] # None /\ ~Pattern(queues[C[n].end])
                    /\ Stem(queues[C[n].end]) = str[n] /\ C[n].end \notin {}
              /\ C[n].std # 0 =>
                    /\ queues[C[n].std] # None /\ Pattern(queues[C[n].std])
                    /\ Stem(queues[C[n].std]) = str[n] /\ C[n].std \notin {}
  <2>1. n \in 1 .. Len(B) BY <1>11
  <2>2. /\ B[n].end # 0 => /\ queues[B[n].end] # None /\ ~Pattern(queues[B[n].end])
                           /\ Stem(queues[B[n].end]) = str[n]
        /\ B[n].std # 0 => /\ queues[B[n].std] # None /\ Pattern(queues[B[n].std])
                           /\ Stem(queues[B[n].std]) = str[n]
    BY <1>12 DEF Sound
  <2>3. CASE n # s
    <3>1. C[n] = B[n] BY <1>20, <2>1, <2>3
    <3> QED BY <2>2, <3>1
  <2>4. CASE n = s /\ p
    <3>1. C[n].std = v /\ C[n].end = B[n].end BY <1>20, <2>4
    <3> QED BY <1>14, <1>15, <2>2, <2>4, <3>1
  <2>5. CASE n = s /\ ~p
    <3>1. C[n].end = v /\ C[n].std = B[n].std BY <1>20, <2>5
    <3> QED BY <1>14, <1>15, <2>2, <2>5, <3>1
  <2> QED BY <2>3, <2>4, <2>5
<1>24. ASSUME NEW j \in 1 .. Len(queues), queues[j] # None
       PROVE  \E n \in 1 .. N : str[n] = Stem(queues[j]) /\ Cell(C[n], queues[j]) = j
  <2>1. CASE j = v
    <3>1. Cell(C[s], queues[j]) = j BY <1>14, <1>20, <2>1 DEF Cell
    <3> QED BY <1>13, <1>14, <2>1, <3>1
  <2>2. CASE j # v
    <3>1. PICK n \in 1 .. N : str[n] = Stem(queues[j]) /\ Cell(B[n], queues[j]) = j
      BY <1>12, <1>17, <1>24, <2>2 DEF Complete
    <3>2. n \in 1 .. Len(B) /\ j # 0 BY <1>11
    <3>3. CASE n # s
      <4>1. C[n] = B[n] BY <1>20, <3>2, <3>3
      <4> QED BY <3>1, <4>1
    <3>4. CASE n = s
      <4>1. ~(Pattern(queues[j]) <=> Pattern(key)) BY <1>22, <3>1, <3>2, <3>4 DEF Cell
      <4>2. Cell(C[s], queues[j]) = Cell(B[s], queues[j]) BY <1>14, <1>20, <4>1 DEF Cell
      <4> QED BY <3>1, <3>4, <4>2
    <3> QED BY <3>3, <3>4
  <2> QED BY <2>1, <2>2
<1> QED BY <1>4, <1>18, <1>19, <1>21, <1>23, <1>24, TrieIs

\* del takes the value that is the slot of the name, and no other.
LEMMA TrieDeleteQueue ==
    ASSUME Safe, Trie, NEW l \in Loops, NEW op \in {"find", "create", "delete"}, NEW key \in Keys,
           DeleteQueue(l, op, key)
    PROVE  Trie'
<1>1. /\ th[l].pc = "idle" /\ lock = None /\ lock' = l
      /\ Target = abuf /\ NodeOf(key) \in 1 .. Len(mem[Target])
      /\ (IF Pattern(key) THEN mem[Target][NodeOf(key)].std ELSE mem[Target][NodeOf(key)].end)
            \in 1 .. Len(queues)
      /\ Target' = Target
      /\ mem'[Target] = IF Pattern(key) THEN [mem[Target] EXCEPT ![NodeOf(key)].std = 0]
                        ELSE [mem[Target] EXCEPT ![NodeOf(key)].end = 0]
      /\ th'[l].pc = "drop"
      /\ th'[l].n = (IF Pattern(key) THEN mem[Target][NodeOf(key)].std
                     ELSE mem[Target][NodeOf(key)].end)
      /\ UNCHANGED <<size, queues, vcap>>
      /\ \A k \in Loops : k # l => th'[k] = th[k]
  BY DeleteEffect
<1>2. PICK B, C, N, s, v, p :
         /\ B = mem[Target] /\ C = mem'[Target] /\ N = size /\ s = NodeOf(key)
         /\ v = th'[l].n /\ p = Pattern(key)
  OBVIOUS
<1>3. Pending = {} /\ Pending' = {v}
  <2>1. \A k \in Loops : k # l => th'[k] = th[k] BY <1>1
  <2>2. th[l].pc \notin {"add", "drop"} /\ th'[l].pc = "drop" /\ lock = None /\ v = th'[l].n
    BY <1>1, <1>2
  <2> QED BY <2>1, <2>2, PendingStep
<1>4. PICK str : Spelt(mem[Target], size, str) /\ Sound(mem[Target], size, str)
                 /\ Complete(mem[Target], size, str) /\ Adding(str)
  BY DEF Trie
<1>5. Spelt(B, N, str) /\ Sound(B, N, str) /\ Complete(B, N, str) BY <1>2, <1>4
<1>6. /\ B \in Seq(Node) /\ N \in Nat /\ N <= Len(B) /\ Len(B) \in Nat /\ Len(queues) \in Nat
      /\ \A n \in 1 .. N : B[n].end \in 0 .. Len(queues) /\ B[n].std \in 0 .. Len(queues)
  <2>1. size \in Nat \ {0} BY DEF Safe, Buffers
  <2>2. 1 \in 1 .. size BY <2>1
  <2> QED BY <1>2, <2>2, ValueRange
<1>7. s \in 1 .. Len(B) /\ p \in BOOLEAN /\ v \in 1 .. Len(queues) /\ v # 0
      /\ v = IF p THEN B[s].std ELSE B[s].end
  <2>1. Pattern(key) \in BOOLEAN BY DEF Pattern
  <2>2. s \in 1 .. Len(B) /\ p \in BOOLEAN /\ v \in 1 .. Len(queues)
        /\ v = IF p THEN B[s].std ELSE B[s].end
    BY <1>1, <1>2, <2>1
  <2> QED BY <2>2
<1>8. Valued(C, B, s, p, 0) BY <1>1, <1>2 DEF Valued
<1>9. mem'[Target'] = C /\ size' = N /\ queues' = queues BY <1>1, <1>2
<1>10. \A k \in Loops : th[k].pc \notin {"add", "drop", "assign"}
  BY <1>1, KeysAssumption DEF Safe, Locked, Changing
<1>11. Distinct' /\ Assigning' /\ Adding(str)'
  <2>1. Distinct' BY <1>9 DEF Trie, Distinct, Clash
  <2>2. \A k \in Loops : th'[k].pc \notin {"assign", "add"} BY <1>1, <1>10
  <2> QED BY <2>1, <2>2 DEF Assigning, Adding
<1>12. s \in 1 .. N
  <2> SUFFICES ASSUME s \notin 1 .. N PROVE FALSE OBVIOUS
  <2>1. s \in N + 1 .. Len(B) BY <1>6, <1>7
  <2>2. B[s] = EmptyStep BY <1>5, <2>1 DEF Spelt
  <2> QED BY <1>7, <2>2, EmptyStepShape
<1>13. /\ Len(C) = Len(B)
       /\ \A n \in 1 .. Len(B) : n # s => C[n] = B[n]
       /\ \A n \in 1 .. Len(B) : C[n].k = B[n].k
       /\ C[s].std = (IF p THEN 0 ELSE B[s].std)
       /\ C[s].end = (IF p THEN B[s].end ELSE 0)
  BY <1>6, <1>7, <1>8, ValuedShape
<1>14. Spelt(C, N, str) BY <1>5, <1>6, <1>12, <1>13, SpeltValued
<1>15. /\ Stem(queues[v]) = str[s] /\ (Pattern(queues[v]) <=> p)
  BY <1>5, <1>7, <1>12 DEF Sound
\* No other node has the value.
<1>16. \A n \in 1 .. N : str[n] = str[s] => n = s BY <1>5, <1>12 DEF Spelt
<1>17. ASSUME NEW n \in 1 .. N
       PROVE  /\ C[n].end # 0 =>
                    /\ queues[C[n].end] # None /\ ~Pattern(queues[C[n].end])
                    /\ Stem(queues[C[n].end]) = str[n] /\ C[n].end \notin {v}
              /\ C[n].std # 0 =>
                    /\ queues[C[n].std] # None /\ Pattern(queues[C[n].std])
                    /\ Stem(queues[C[n].std]) = str[n] /\ C[n].std \notin {v}
  <2>1. n \in 1 .. Len(B) BY <1>6
  <2>2. /\ B[n].end # 0 => /\ queues[B[n].end] # None /\ ~Pattern(queues[B[n].end])
                           /\ Stem(queues[B[n].end]) = str[n]
        /\ B[n].std # 0 => /\ queues[B[n].std] # None /\ Pattern(queues[B[n].std])
                           /\ Stem(queues[B[n].std]) = str[n]
    BY <1>5 DEF Sound
  <2>3. CASE n # s
    <3>1. C[n] = B[n] BY <1>13, <2>1, <2>3
    <3>2. str[n] # str[s] BY <1>16, <2>3
    <3> QED BY <1>15, <2>2, <3>1, <3>2
  <2>4. CASE n = s /\ p
    <3>1. C[n].std = 0 /\ C[n].end = B[n].end BY <1>13, <2>4
    <3> QED BY <1>15, <2>2, <2>4, <3>1
  <2>5. CASE n = s /\ ~p
    <3>1. C[n].end = 0 /\ C[n].std = B[n].std BY <1>13, <2>5
    <3> QED BY <1>15, <2>2, <2>5, <3>1
  <2> QED BY <2>3, <2>4, <2>5
<1>18. ASSUME NEW j \in 1 .. Len(queues), queues[j] # None, j \notin {v}
       PROVE  \E n \in 1 .. N : str[n] = Stem(queues[j]) /\ Cell(C[n], queues[j]) = j
  <2>1. PICK n \in 1 .. N : str[n] = Stem(queues[j]) /\ Cell(B[n], queues[j]) = j
    BY <1>3, <1>5, <1>18 DEF Complete
  <2>2. n \in 1 .. Len(B) BY <1>6
  <2>3. CASE n # s
    <3>1. C[n] = B[n] BY <1>13, <2>2, <2>3
    <3> QED BY <2>1, <3>1
  <2>4. CASE n = s
    <3>1. ~(Pattern(queues[j]) <=> p) BY <1>7, <1>18, <2>1, <2>4 DEF Cell
    <3>2. Cell(C[s], queues[j]) = Cell(B[s], queues[j]) BY <1>7, <1>13, <3>1 DEF Cell
    <3> QED BY <2>1, <2>4, <3>2
  <2> QED BY <2>3, <2>4
<1> QED BY <1>3, <1>9, <1>11, <1>14, <1>17, <1>18, TrieIs

\* The slot of a name that the trie has forgotten is emptied.
LEMMA TrieDropSlot ==
    ASSUME Safe, Trie, NEW l \in Loops, DropSlot(l)
    PROVE  Trie'
<1>1. /\ UNCHANGED trie /\ th'[l].pc = "idle" /\ lock' = None
      /\ th[l].n \in 1 .. Len(queues) /\ Len(queues') = Len(queues)
      /\ \A j \in 1 .. Len(queues) : queues'[j] = IF j = th[l].n THEN None ELSE queues[j]
      /\ \A k \in Loops : k # l => th'[k] = th[k]
  BY SafeDropSlot
<1>2. th[l].pc = "drop" BY DEF DropSlot
<1>3. lock = l BY <1>2 DEF Safe, Locked, Changing
<1>4. \A k \in Loops : k # l => th[k].pc \notin {"add", "drop", "assign"}
  BY <1>3, Alone DEF Changing
<1>5. Pending = {th[l].n} /\ Pending' = {}
  <2>1. th'[l].pc \notin {"add", "drop"} BY <1>1
  <2>2. \A k \in Loops : k # l => th'[k] = th[k] BY <1>1
  <2> QED BY <1>2, <1>3, <2>1, <2>2, PendingStep
<1>6. PICK str : Spelt(mem[Target], size, str) /\ Sound(mem[Target], size, str)
                 /\ Complete(mem[Target], size, str) /\ Adding(str)
  BY DEF Trie
<1>7. PICK C, N, v : C = mem[Target] /\ N = size /\ v = th[l].n OBVIOUS
<1>8. mem'[Target'] = C /\ size' = N BY <1>1, <1>7 DEF trie, Target
<1>9. Spelt(C, N, str) /\ Sound(C, N, str) /\ Complete(C, N, str) BY <1>6, <1>7
<1>10. \A n \in 1 .. N : C[n].end \in 0 .. Len(queues) /\ C[n].std \in 0 .. Len(queues)
  BY <1>7, ValueRange
<1>11. \A k \in Loops : th'[k].pc \notin {"assign", "add"} BY <1>1, <1>4
<1>12. Len(queues') = Len(queues) /\ Len(queues) \in Nat
       /\ \A j \in 1 .. Len(queues) : queues'[j] = IF j = v THEN None ELSE queues[j]
  BY <1>1, <1>7, Slots
<1>13. Assigning' /\ Adding(str)' BY <1>11 DEF Assigning, Adding
<1>14. Distinct'
  <2> SUFFICES ASSUME NEW i \in 1 .. Len(queues'), NEW j \in 1 .. Len(queues'),
                      queues'[i] # None, queues'[j] # None, Clash(queues'[i], queues'[j])
               PROVE  i = j
    BY DEF Distinct, Clash
  <2>1. queues'[i] = queues[i] /\ queues'[j] = queues[j] BY <1>12
  <2> QED BY <1>12, <2>1 DEF Trie, Distinct
<1>15. ASSUME NEW n \in 1 .. N
       PROVE  /\ C[n].end # 0 =>
                    /\ queues'[C[n].end] # None /\ ~Pattern(queues'[C[n].end])
                    /\ Stem(queues'[C[n].end]) = str[n] /\ C[n].end \notin {}
              /\ C[n].std # 0 =>
                    /\ queues'[C[n].std] # None /\ Pattern(queues'[C[n].std])
                    /\ Stem(queues'[C[n].std]) = str[n] /\ C[n].std \notin {}
  <2>1. PICK e, d : e = C[n].end /\ d = C[n].std OBVIOUS
  <2>2. e \in 0 .. Len(queues) /\ d \in 0 .. Len(queues) BY <1>10, <2>1
  <2>3. /\ e # 0 => queues[e] # None /\ ~Pattern(queues[e]) /\ Stem(queues[e]) = str[n] /\ e # v
        /\ d # 0 => queues[d] # None /\ Pattern(queues[d]) /\ Stem(queues[d]) = str[n] /\ d # v
    BY <1>5, <1>7, <1>9, <2>1 DEF Sound
  <2>4. e # 0 => queues'[e] = queues[e] BY <1>12, <2>2, <2>3
  <2>5. d # 0 => queues'[d] = queues[d] BY <1>12, <2>2, <2>3
  <2> QED BY <2>1, <2>3, <2>4, <2>5
<1>16. ASSUME NEW j \in 1 .. Len(queues'), queues'[j] # None
       PROVE  \E n \in 1 .. N : str[n] = Stem(queues'[j]) /\ Cell(C[n], queues'[j]) = j
  <2>1. j \in 1 .. Len(queues) /\ j # v /\ queues'[j] = queues[j] BY <1>12, <1>16
  <2>2. j \notin Pending BY <1>5, <1>7, <2>1
  <2>3. \E n \in 1 .. N : str[n] = Stem(queues[j]) /\ Cell(C[n], queues[j]) = j
    BY <1>9, <1>16, <2>1, <2>2 DEF Complete
  <2> QED BY <2>1, <2>3
<1> QED BY <1>5, <1>8, <1>9, <1>13, <1>14, <1>15, <1>16, TrieIs

\* The steps that neither read nor write what the trie spells.
LEMMA TrieOthers ==
    ASSUME Safe, Trie, NEW l \in Loops,
           \/ \E op \in {"find", "create", "delete"}, key \in Keys : GetQueue(l, op, key)
           \/ ReadStd(l) \/ ReadNext(l) \/ ReadBase(l) \/ ReadSlot(l) \/ Return(l)
           \/ Publish(l) \/ Retire(l)
    PROVE  Trie'
<1>0. th \in [Loops -> Thread] /\ th[l] \in Thread BY DEF Safe
<1>1. mem' = mem /\ size' = size /\ queues' = queues
  BY DEF GetQueue, ReadStd, ReadNext, ReadBase, ReadSlot, Return, Publish, Retire, trie
<1>2. Target' = Target
  <2>1. CASE Publish(l)
    <3>1. abuf' = buf_t /\ buf_t' = 0 /\ th[l].pc = "publish" BY <2>1 DEF Publish
    <3>2. buf_t # 0 BY <3>1 DEF Safe, Locked
    <3> QED BY <3>1, <3>2 DEF Target
  <2>2. CASE ~Publish(l)
    <3>1. abuf' = abuf /\ buf_t' = buf_t
      BY <2>2 DEF GetQueue, ReadStd, ReadNext, ReadBase, ReadSlot, Return, Retire, trie
    <3> QED BY <3>1 DEF Target
  <2> QED BY <2>1, <2>2
<1>3. \A k \in Loops : k # l => th'[k] = th[k]
  <2>1. \E r : th' = [th EXCEPT ![l] = r]
    <3>1. ASSUME NEW op, NEW key, GetQueue(l, op, key) PROVE \E r : th' = [th EXCEPT ![l] = r]
      BY <3>1 DEF GetQueue
    <3>2. CASE ReadStd(l) BY <3>2 DEF ReadStd
    <3>3. CASE ReadNext(l)
      <4>1. \/ \E n : th' = Found(l, n)
            \/ \E n : th' = [th EXCEPT ![l].pc = "std", ![l].i = @ + 1, ![l].step = n]
        BY <3>3 DEF ReadNext
      <4>2. ASSUME NEW n PROVE \E r : Found(l, n) = [th EXCEPT ![l] = r] BY ZenonT(40) DEF Found
      <4>3. ASSUME NEW n
            PROVE  \E r : [th EXCEPT ![l].pc = "std", ![l].i = @ + 1, ![l].step = n]
                          = [th EXCEPT ![l] = r]
        OBVIOUS
      <4> QED BY <4>1, <4>2, <4>3
    <3>4. CASE ReadBase(l) BY <3>4 DEF ReadBase
    <3>5. CASE ReadSlot(l) BY <3>5 DEF ReadSlot
    <3>6. CASE Return(l) BY <3>6 DEF Return
    <3>7. CASE Publish(l) BY <3>7 DEF Publish
    <3>8. CASE Retire(l)
      <4>1. th' = [Created(l) EXCEPT ![l].ptr = 0] BY <3>8 DEF Retire
      <4> QED BY <4>1 DEF Created
    <3> QED BY <3>1, <3>2, <3>3, <3>4, <3>5, <3>6, <3>7, <3>8
  <2> QED BY <1>0, <2>1
<1>4. th[l].pc \notin {"add", "drop"}
  BY DEF GetQueue, ReadStd, ReadNext, ReadBase, ReadSlot, Return, Publish, Retire
<1>5. th'[l].pc \notin {"add", "drop", "assign"}
  <2>1. ASSUME NEW op, NEW key, GetQueue(l, op, key) PROVE th'[l].pc = "std"
    BY <1>0, <2>1 DEF GetQueue, Idle
  <2>2. CASE ReadStd(l) BY <1>0, <2>2 DEF ReadStd, Thread
  <2>3. CASE ReadNext(l)
    <3>1. ASSUME NEW n PROVE Found(l, n)[l].pc \in {"slot", "lock", "done"}
      BY <1>0 DEF Found, Thread
    <3>2. ASSUME NEW n PROVE [th EXCEPT ![l].pc = "std", ![l].i = @ + 1, ![l].step = n][l].pc = "std"
      BY <1>0 DEF Thread
    <3>3. \/ \E n : th' = Found(l, n)
          \/ \E n : th' = [th EXCEPT ![l].pc = "std", ![l].i = @ + 1, ![l].step = n]
      BY <2>3 DEF ReadNext
    <3> QED BY <3>1, <3>2, <3>3
  <2>4. CASE ReadBase(l) BY <1>0, <2>4 DEF ReadBase, Thread
  <2>5. CASE ReadSlot(l)
    <3>1. PICK q : th' = [th EXCEPT ![l].pc = "done", ![l].got = q, ![l].n = 0, ![l].base = 0]
      BY <2>5 DEF ReadSlot
    <3>2. th'[l].pc = "done" BY <1>0, <3>1 DEF Thread
    <3> QED BY <3>2
  <2>6. CASE Return(l) BY <1>0, <2>6 DEF Return, Idle
  <2>7. CASE Publish(l) BY <1>0, <2>7 DEF Publish, Thread
  <2>8. CASE Retire(l) BY <1>0, <2>8 DEF Retire, Created, Thread
  <2> QED BY <2>1, <2>2, <2>3, <2>4, <2>5, <2>6, <2>7, <2>8
<1>6. mem'[Target'] = mem[Target] BY <1>1, <1>2
<1>7. \A k \in Loops : \/ th'[k] = th[k]
                       \/ /\ th[k].pc \notin {"add", "drop"}
                          /\ th'[k].pc \notin {"add", "drop", "assign"}
  BY <1>3, <1>4, <1>5
<1> QED BY <1>1, <1>6, <1>7, TrieKept

\* The service thread frees no buffer that holds the trie.
LEMMA TrieService ==
    ASSUME Safe, Trie, TakeList \/ Free
    PROVE  Trie'
<1>1. abuf' = abuf /\ buf_t' = buf_t /\ size' = size /\ queues' = queues /\ th' = th
  BY DEF TakeList, Free, trie
<1>2. Target' = Target BY <1>1 DEF Target
<1>3. mem'[Target] = mem[Target]
  <2>1. CASE TakeList BY <2>1 DEF TakeList, trie
  <2>2. CASE Free
    <3>1. Target \in 1 .. Len(mem) /\ Target \notin taken
      BY DEF Target, Safe, Buffers, Lists
    <3>2. DOMAIN mem = 1 .. Len(mem) BY LenProperties DEF Safe, Buffers
    <3> QED BY <2>2, <3>1, <3>2 DEF Free
  <2> QED BY <2>1, <2>2
<1> QED BY <1>1, <1>2, <1>3, TrieKept

\* Every step keeps the trie in agreement with the list of queues.
LEMMA TrieNext ==
    ASSUME Safe, Trie, [Next]_vars
    PROVE  Trie'
<1>1. CASE UNCHANGED vars
  <2>1. mem' = mem /\ abuf' = abuf /\ buf_t' = buf_t /\ size' = size /\ queues' = queues /\ th' = th
    BY <1>1 DEF vars, trie
  <2>2. Target' = Target BY <2>1 DEF Target
  <2> QED BY <2>1, <2>2, TrieKept
<1>2. ASSUME NEW l \in Loops, LoopStep(l) PROVE Trie'
  <2>1. CASE \E r \in Asked[l] : GetQueue(l, r[1], r[2]) \/ DeleteQueue(l, r[1], r[2])
    <3>1. PICK r \in Asked[l] : GetQueue(l, r[1], r[2]) \/ DeleteQueue(l, r[1], r[2]) BY <2>1
    <3>2. r[1] \in {"find", "create", "delete"} /\ r[2] \in Keys BY RequestShape
    <3>3. CASE GetQueue(l, r[1], r[2]) BY <3>2, <3>3, TrieOthers
    <3>4. CASE DeleteQueue(l, r[1], r[2]) BY <3>2, <3>4, TrieDeleteQueue
    <3> QED BY <3>1, <3>3, <3>4
  <2>2. CASE ReadStd(l) BY <2>2, TrieOthers
  <2>3. CASE ReadNext(l) BY <2>3, TrieOthers
  <2>4. CASE ReadBase(l) BY <2>4, TrieOthers
  <2>5. CASE ReadSlot(l) BY <2>5, TrieOthers
  <2>6. CASE Return(l) BY <2>6, TrieOthers
  <2>7. CASE LockAndFind(l) BY <2>7, TrieLockAndFind
  <2>8. CASE AssignSlot(l) BY <2>8, TrieAssignSlot
  <2>9. CASE AddChar(l) BY <2>9, TrieAddChar
  <2>10. CASE AddValue(l) BY <2>10, TrieAddValue
  <2>11. CASE Publish(l) BY <2>11, TrieOthers
  <2>12. CASE Retire(l) BY <2>12, TrieOthers
  <2>13. CASE DropSlot(l) BY <2>13, TrieDropSlot
  <2> QED BY <1>2, <2>1, <2>2, <2>3, <2>4, <2>5, <2>6, <2>7, <2>8, <2>9, <2>10, <2>11, <2>12, <2>13
          DEF LoopStep
<1>3. CASE TakeList \/ Free BY <1>3, TrieService
<1> QED BY <1>1, <1>2, <1>3 DEF Next

\* The inductive invariant: Safe, for the memory, and Trie, for the names.
Registered == Safe /\ Trie

\* The trie always agrees with the list of queues.
LEMMA AlwaysRegistered == Spec => []Registered
<1>1. Init => Registered BY SafeInit, TrieInit DEF Registered
<1>2. Registered /\ [Next]_vars => Registered' BY SafeNext, TrieNext DEF Registered
<1> QED BY <1>1, <1>2, PTL DEF Spec

\* However many loops ask for a name at a time, it gets one queue: the second
\* find of get_queue, under the lock, meets every queue that has the name.
THEOREM OneQueuePerNameHolds == Spec => []OneQueuePerName
<1>1. ASSUME Registered PROVE OneQueuePerName
  <2>1. DOMAIN queues = 1 .. Len(queues) BY <1>1, Slots DEF Registered
  <2>2. Distinct BY <1>1 DEF Registered, Trie
  <2> QED BY <2>1, <2>2 DEF OneQueuePerName, Distinct, Clash
<1> QED BY <1>1, AlwaysRegistered, PTL

\* While nobody changes the registry, Mapper::find yields for every name the
\* queue of that name or of the longest pattern that fits: whatever was added
\* and deleted before, however often the trie has grown.
THEOREM FindsBestHolds == Spec => []FindsBest
<1>1. ASSUME Registered PROVE FindsBest
  BY <1>1, TrieFindsBest DEF Registered, FindsBest
<1> QED BY <1>1, AlwaysRegistered, PTL
=============================================================================
