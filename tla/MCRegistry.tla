----------------------------- MODULE MCRegistry -----------------------------
(***************************************************************************)
(* Registry with names that share nodes of the trie, and a pattern.  The   *)
(* first buffer holds one node, so that it grows twice, and twice in one   *)
(* call of add.                                                            *)
(***************************************************************************)
EXTENDS Registry, TLC

SomeKeys == {<<"a">>, <<"a", "b">>, <<"a", "*">>}

\* One thread creates and deletes, the other one wants a name that may be
\* served by itself or by the pattern.
CONSTANTS l1, l2
Requests ==
    [l \in Loops |-> IF l = l1 THEN {"create"} \X Keys \cup {"delete"} \X {<<"a">>, <<"a", "*">>}
                                ELSE {"find", "create"} \X {<<"a", "b">>}]
=============================================================================
