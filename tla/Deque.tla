------------------------------- MODULE Deque -------------------------------
(***************************************************************************)
(* The std::deque operations of the broker as operators on sequences:      *)
(* erase a set of positions, insert behind a position.                     *)
(***************************************************************************)
EXTENDS Integers, Sequences, FiniteSets

Least(S) == CHOOSE i \in S : \A j \in S : i <= j

Members(s) == {s[i] : i \in DOMAIN s}

\* The number of positions of K up to j: the place of j in K.
Rank(K, j) == Cardinality({k \in K : k <= j})

\* The position of K at place i.
Nth(K, i) == CHOOSE j \in K : Rank(K, j) = i

\* What is left of s when only the positions K stay.
Keep(s, K) == [i \in 1 .. Cardinality(K) |-> s[Nth(K, i)]]

\* e is inserted behind position p of s (p = 0: in front).
InsertBehind(s, p, e) == SubSeq(s, 1, p) \o <<e>> \o SubSeq(s, p + 1, Len(s))
=============================================================================
