-------------------------------- MODULE Json --------------------------------
(***************************************************************************)
(* The scanner of json.cpp over a text: a sequence of cells, where a cell  *)
(* is a punctuation mark or a word.  An operator that throws InvalidData   *)
(* in the code yields 0 for the index.                                     *)
(***************************************************************************)
EXTENDS Naturals, Sequences, FiniteSetsExt

CONSTANT Numbers    \* the words that consist of digits

Quote == "\""
Escape == "\\"
Newline == "\n"
Blank == {" ", Newline}

\* Json::strip: the first cell at i or behind it that is not blank.
Strip(d, i) ==
    LET S == {j \in i .. Len(d) : d[j] \notin Blank}
    IN  IF i = 0 \/ S = {} THEN 0 ELSE Min(S)

\* Json::next, followed by a comparison: the index behind cell c at i.
Expect(d, i, c) == IF i # 0 /\ i <= Len(d) /\ d[i] = c THEN i + 1 ELSE 0

\* Mutant: an escaped quote ends the string.
ReadStringPlain(d, i) ==
    LET E == {j \in i + 1 .. Len(d) : d[j] = Quote}
    IN  IF Expect(d, i, Quote) = 0 \/ E = {} THEN 0 ELSE Min(E) + 1

\* Json::read_string: the index behind the string that starts at i.  A quote
\* behind a backslash does not end it.
ReadString(d, i) ==
    LET E == {j \in i + 1 .. Len(d) : d[j] = Quote /\ d[j - 1] # Escape}
    IN  IF Expect(d, i, Quote) = 0 \/ E = {} THEN 0 ELSE Min(E) + 1

\* Json::read_object from i, lvl brackets deep: the index behind the bracket
\* that closes the first one.
RECURSIVE ReadObject(_, _, _)
ReadObject(d, i, lvl) ==
    IF i = 0 \/ i > Len(d) THEN 0
    ELSE IF d[i] \in {"{", "["} THEN ReadObject(d, i + 1, lvl + 1)
    ELSE IF d[i] \in {"}", "]"}
         THEN IF lvl = 1 THEN i + 1 ELSE ReadObject(d, i + 1, lvl - 1)
    ELSE IF d[i] = Quote THEN ReadObject(d, ReadString(d, i), lvl)
    ELSE ReadObject(d, i + 1, lvl)

\* Json::read_value: a number or one of three words, up to a delimiter.
ReadValue(d, i) ==
    LET E == {j \in i .. Len(d) : d[j] \in Blank \cup {",", "}"}}
        e == Min(E)
        word == SubSeq(d, i, e - 1)
    IN  IF E = {} THEN 0
        ELSE IF \/ \A k \in DOMAIN word : word[k] \in Numbers
                \/ word \in {<<"null">>, <<"true">>, <<"false">>}
        THEN e ELSE 0

\* The index behind the value that starts at i.
ValueEnd(d, i) ==
    IF i = 0 THEN 0
    ELSE IF d[i] = Quote THEN ReadString(d, i)
    ELSE IF d[i] \in {"{", "["} THEN ReadObject(d, i, 0)
    ELSE ReadValue(d, i)

\* A string is taken without its quotes.
Taken(d, i, end) == IF d[i] = Quote THEN SubSeq(d, i + 1, end - 2) ELSE SubSeq(d, i, end - 1)

\* The pair whose key and value stand before the given ends.
PairOf(d, k, kend, v, vend) ==
    IF vend = 0 THEN [end |-> 0]
    ELSE [end |-> vend, key |-> Taken(d, k, kend), value |-> Taken(d, v, vend)]

\* One pair "key": value at i.
Pair(d, i) ==
    LET k == Strip(d, i)
        kend == ReadString(d, k)
        v == Strip(d, Expect(d, Strip(d, kend), ":"))
    IN  PairOf(d, k, kend, v, ValueEnd(d, v))

\* Calls of Json::scan until it returns false (ok) or throws, from i.
RECURSIVE PairsFrom(_, _, _)
PairsFrom(d, i, first) ==
    LET s == Strip(d, i)
        p == Pair(d, IF first THEN s ELSE s + 1)
    IN  IF s = 0 THEN [list |-> << >>, ok |-> FALSE]
        ELSE IF d[s] = "}" THEN [list |-> << >>, ok |-> TRUE]
        ELSE IF (~first /\ d[s] # ",") \/ p.end = 0 THEN [list |-> << >>, ok |-> FALSE]
        ELSE LET rest == PairsFrom(d, p.end, FALSE)
             IN  [list |-> <<p>> \o rest.list, ok |-> rest.ok]

\* Json::load and all calls of scan.
Pairs(d) ==
    IF d = << >> THEN [list |-> << >>, ok |-> TRUE]
    ELSE LET b == Expect(d, Strip(d, 1), "{")
         IN  IF b = 0 THEN [list |-> << >>, ok |-> FALSE] ELSE PairsFrom(d, b, TRUE)

\* json::unescape without code points: a backslash stands for the cell behind
\* it, which is taken as it is unless it names a control character.
RECURSIVE Unescape(_)
Unescape(s) ==
    IF s = << >> THEN << >>
    ELSE IF Head(s) # Escape THEN <<Head(s)>> \o Unescape(Tail(s))
    ELSE IF Tail(s) = << >> THEN << >>
    ELSE <<IF s[2] = "n" THEN Newline ELSE s[2]>> \o Unescape(Tail(Tail(s)))

\* The values of a key, in their order.
Values(pairs, key) ==
    LET named(p) == p.key = <<key>>
        S == SelectSeq(pairs.list, named)
    IN  [i \in DOMAIN S |-> S[i].value]
=============================================================================
