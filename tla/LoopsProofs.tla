---------------------------- MODULE LoopsProofs ----------------------------
(***************************************************************************)
(* Several loops, for any number of loops and workers: the locks exclude   *)
(* each other and are taken in one order, a worker is claimed by one       *)
(* handler and answered once, and the list of connected workers is intact. *)
(*                                                                         *)
(* None of these is inductive as it stands.  That a worker is claimed once *)
(* needs to know where its answer comes from: the handler that asks for    *)
(* it, the handler that claimed it, the message that is written to it, or  *)
(* nobody while the handler that answered it has not set the status        *)
(* (OneAnswerEach).  That the list is intact needs the order of its items  *)
(* and that nobody changes it while a handler walks it (Held).             *)
(***************************************************************************)
EXTENDS Loops, FiniteSetTheorems, SequenceTheorems, TLAPS

Statuses == {"net", "busy", "worker_wait_job", "worker_wait_result"}
LockNames == {"global", "queue", "list"}

\* What the proofs need of the types.
Shapes ==
    /\ th = [p \in All |-> th[p]]
    /\ locks \in [LockNames -> All \cup {None}]
    /\ status \in [Workers -> Statuses]
    /\ closed \in [Workers -> BOOLEAN]
    /\ noid \in [Workers -> BOOLEAN]
    /\ wr \in [Workers -> BOOLEAN]
    /\ owed \in [Workers -> Int]
    /\ item \in [Workers -> BOOLEAN]

\* The handler l goes on to y.
Moves(l, y) == \E w, t : th' = [th EXCEPT ![l] = At(y, w, t)]

\* One thread takes a step.
LEMMA ThreadStep ==
    ASSUME Shapes, NEW l \in All, NEW x, th' = [th EXCEPT ![l] = x]
    PROVE  /\ th' = [p \in All |-> th'[p]]
           /\ th'[l] = x
           /\ \A p \in All : p # l => th'[p] = th[p]
  BY DEF Shapes

\* The same for a step that is known by where it goes.
LEMMA MovesStep ==
    ASSUME Shapes, NEW l \in All, NEW y, Moves(l, y)
    PROVE  th'[l].pc = y /\ \A p \in All : p # l => th'[p] = th[p]
<1>1. PICK w, t : th' = [th EXCEPT ![l] = At(y, w, t)] BY DEF Moves
<1>2. th'[l] = At(y, w, t) /\ \A p \in All : p # l => th'[p] = th[p] BY <1>1, ThreadStep
<1> QED BY <1>2 DEF At

\* Every step keeps them.
LEMMA ShapesStep ==
    ASSUME Shapes, [Next]_vars
    PROVE  Shapes'
<1> USE ThreadsAssumption DEF All
<1>1. ASSUME NEW l \in Threads, CallStart(l) PROVE Shapes'
    BY <1>1 DEF Shapes, CallStart, Acquire, Go, list, Statuses, LockNames
<1>2. ASSUME NEW l \in Threads, PubStart(l) PROVE Shapes'
    BY <1>2 DEF Shapes, PubStart, Acquire, Go, list, Statuses, LockNames
<1>3. ASSUME NEW l \in Threads, CallPop(l) PROVE Shapes'
    BY <1>3 DEF Shapes, CallPop, Go, list, Statuses, LockNames
<1>4. ASSUME NEW l \in Threads, CallClaim(l) PROVE Shapes'
    BY <1>4 DEF Shapes, CallClaim, Claim, list, Statuses, LockNames
<1>5. ASSUME NEW l \in Threads, CallSend(l) PROVE Shapes'
  <2>1. th' = [p \in All |-> th'[p]] BY <1>5 DEF Shapes, CallSend, End, Go
  <2>2. locks' \in [LockNames -> All \cup {None}] BY <1>5 DEF Shapes, CallSend, End, LockNames
  <2>3. status' \in [Workers -> Statuses] BY <1>5 DEF Shapes, CallSend, Statuses
  <2>4. owed' \in [Workers -> Int] BY <1>5 DEF Shapes, CallSend, Answer
  <2>5. UNCHANGED <<closed, noid, wr, item>> BY <1>5 DEF Shapes, CallSend, list
  <2> QED BY <2>1, <2>2, <2>3, <2>4, <2>5 DEF Shapes
<1>6. ASSUME NEW l \in Threads, CallNet(l) PROVE Shapes'
    BY <1>6 DEF Shapes, CallNet, End, list, Statuses, LockNames
<1>7. ASSUME NEW l \in Threads, CallQueued(l) PROVE Shapes'
    BY <1>7 DEF Shapes, CallQueued, End, list, Statuses, LockNames
<1>8. ASSUME NEW l \in Threads, PubNext(l) PROVE Shapes'
    BY <1>8 DEF Shapes, PubNext, Go, list, Statuses, LockNames
<1>9. ASSUME NEW l \in Threads, PubClaim(l) PROVE Shapes'
    BY <1>9 DEF Shapes, PubClaim, Claim, list, Statuses, LockNames
<1>10. ASSUME NEW l \in Threads, PubSend(l) PROVE Shapes'
    BY <1>10 DEF Shapes, PubSend, Go, list, Statuses, LockNames
<1>11. ASSUME NEW l \in Threads, PubEnd(l) PROVE Shapes'
    BY <1>11 DEF Shapes, PubEnd, End, list, Statuses, LockNames
<1>12. ASSUME NEW l \in Threads, AddPop(l) PROVE Shapes'
    BY <1>12 DEF Shapes, AddPop, PopItem, Go, list, Statuses, LockNames
<1>13. ASSUME NEW l \in Threads, AddLock(l) PROVE Shapes'
    BY <1>13 DEF Shapes, AddLock, Acquire, Go, list, Statuses, LockNames
<1>14. ASSUME NEW l \in Threads, Add(l) PROVE Shapes'
  <2>1. th' = [p \in All |-> th'[p]] BY <1>14 DEF Shapes, Add, Go
  <2>2. locks' \in [LockNames -> All \cup {None}] BY <1>14 DEF Shapes, Add, LockNames
  <2>3. status' \in [Workers -> Statuses] BY <1>14 DEF Shapes, Add, Statuses
  <2>4. owed' \in [Workers -> Int]
    <3>1. owed' = owed \/ owed' = [owed EXCEPT ![th[l].w] = @ - 1] BY <1>14 DEF Add, Answer
    <3> QED BY <3>1 DEF Shapes
  <2>5. UNCHANGED <<closed, noid, wr, item>> BY <1>14 DEF Shapes, Add, list
  <2> QED BY <2>1, <2>2, <2>3, <2>4, <2>5 DEF Shapes
<1>15. ASSUME NEW l \in Threads, AddItem(l) PROVE Shapes'
    BY <1>15 DEF Shapes, AddItem, PushItem, End, list, Statuses, LockNames
<1>16. ASSUME NEW l \in Threads, ClosePop(l) PROVE Shapes'
    BY <1>16 DEF Shapes, ClosePop, PopItem, list, Statuses, LockNames
<1>17. ASSUME NEW w \in Workers, AddStart(w) PROVE Shapes'
  <2>1. th' = [p \in All |-> th'[p]] BY <1>17 DEF Shapes, AddStart, Go
  <2>2. locks' \in [LockNames -> All \cup {None}] BY <1>17 DEF Shapes, AddStart, LockNames
  <2>3. status' \in [Workers -> Statuses] BY <1>17 DEF Shapes, AddStart, Statuses
  <2>4. owed' \in [Workers -> Int] BY <1>17 DEF Shapes, AddStart
  <2>5. noid' \in [Workers -> BOOLEAN] BY <1>17 DEF Shapes, AddStart
  <2>6. wr' \in [Workers -> BOOLEAN] BY <1>17 DEF Shapes, AddStart
  <2>7. UNCHANGED <<closed, item>> BY <1>17 DEF Shapes, AddStart, list
  <2> QED BY <2>1, <2>2, <2>3, <2>4, <2>5, <2>6, <2>7 DEF Shapes
<1>18. ASSUME NEW w \in Workers, Deliver(w) PROVE Shapes'
    BY <1>18 DEF Shapes, Deliver, Answer, list, Statuses, LockNames
<1>19. ASSUME NEW w \in Workers, Result(w) PROVE Shapes'
    BY <1>19 DEF Shapes, Result, list, Statuses, LockNames
<1>20. ASSUME NEW w \in Workers, RecvEarly(w) PROVE Shapes'
    BY <1>20 DEF Shapes, RecvEarly, list, Statuses, LockNames
<1>21. ASSUME NEW w \in Workers, Close(w) PROVE Shapes'
    BY <1>21 DEF Shapes, Close, Go, list, Statuses, LockNames
<1>22. ASSUME TimeoutStart PROVE Shapes'
    BY <1>22 DEF Shapes, TimeoutStart, Acquire, Go, list, Statuses, LockNames
<1>23. ASSUME CleanStart PROVE Shapes'
    BY <1>23 DEF Shapes, CleanStart, Go, list, Statuses, LockNames
<1>24. ASSUME TimeoutLock PROVE Shapes'
    BY <1>24 DEF Shapes, TimeoutLock, Acquire, Go, list, Statuses, LockNames
<1>25. ASSUME TimeoutNext PROVE Shapes'
    BY <1>25 DEF Shapes, TimeoutNext, Go, list, Statuses, LockNames
<1>26. ASSUME TimeoutClaim PROVE Shapes'
    BY <1>26 DEF Shapes, TimeoutClaim, Claim, list, Statuses, LockNames
<1>27. ASSUME TimeoutSend PROVE Shapes'
  <2>1. th' = [p \in All |-> th'[p]] BY <1>27 DEF Shapes, TimeoutSend, Go
  <2>2. locks' \in [LockNames -> All \cup {None}]
    <3>1. locks' = locks \/ locks' = [locks EXCEPT !.queue = None] BY <1>27 DEF TimeoutSend
    <3> QED BY <3>1 DEF Shapes, LockNames
  <2>3. status' \in [Workers -> Statuses] BY <1>27 DEF Shapes, TimeoutSend, Statuses
  <2>4. owed' \in [Workers -> Int] BY <1>27 DEF Shapes, TimeoutSend, Answer
  <2>5. UNCHANGED <<closed, noid, wr, item>> BY <1>27 DEF Shapes, TimeoutSend, list
  <2> QED BY <2>1, <2>2, <2>3, <2>4, <2>5 DEF Shapes
<1>28. ASSUME TimeoutEnd PROVE Shapes'
    BY <1>28 DEF Shapes, TimeoutEnd, End, list, Statuses, LockNames
<1>29. ASSUME CleanLock PROVE Shapes'
    BY <1>29 DEF Shapes, CleanLock, Acquire, Go, list, Statuses, LockNames
<1>30. ASSUME Clean PROVE Shapes'
    BY <1>30 DEF Shapes, Clean, End, list, Statuses, LockNames
<1>31. CASE UNCHANGED vars BY <1>31 DEF vars, list, Shapes
<1> QED BY <1>1, <1>2, <1>3, <1>4, <1>5, <1>6, <1>7, <1>8, <1>9, <1>10, <1>11, <1>12, <1>13,
    <1>14, <1>15, <1>16, <1>17, <1>18, <1>19, <1>20, <1>21, <1>22, <1>23, <1>24, <1>25, <1>26,
    <1>27, <1>28, <1>29, <1>30, <1>31 DEF Next, Begin, Continue

-----------------------------------------------------------------------------
(* The locks *)

\* Where a handler holds the lock k.
Holding(k) ==
    CASE k = "list" -> {"pub", "pubClaim", "pubSend"}
      [] k = "queue" -> {"call", "callClaim", "callSend", "callNet", "add", "addItem",
                         "timeout", "timeoutClaim", "timeoutSend"}
      [] k = "global" -> {"timeoutLock", "timeout", "timeoutClaim", "timeoutSend", "dead", "clean"}

\* A lock is held by the handler that is between taking and releasing it.
Held == \A k \in LockNames : \A p \in All : th[p].pc \in Holding(k) <=> locks[k] = p

\* Between x and y a handler keeps what it has of the locks other than K.
Same(x, y, K) == \A k \in LockNames \ K : x \in Holding(k) <=> y \in Holding(k)

\* The handler goes on and keeps its locks.
LEMMA KeepLocks ==
    ASSUME Shapes, Held, NEW l \in All, NEW x, NEW y, th[l].pc = x, Moves(l, y),
           UNCHANGED locks, Same(x, y, {})
    PROVE  Held'
<1>1. th'[l].pc = y /\ \A p \in All : p # l => th'[p] = th[p] BY MovesStep
<1> SUFFICES ASSUME NEW k \in LockNames, NEW p \in All
             PROVE  (th[p].pc \in Holding(k) <=> locks[k] = p)'
    BY DEF Held
<1>2. th[p].pc \in Holding(k) <=> locks[k] = p BY DEF Held
<1>3. x \in Holding(k) <=> y \in Holding(k) BY DEF Same
<1> QED BY <1>1, <1>2, <1>3

\* The handler goes on and takes the lock j.
LEMMA TakeLock ==
    ASSUME Shapes, Held, NEW l \in All, NEW x, NEW y, th[l].pc = x, Moves(l, y),
           NEW j \in LockNames, Acquire(j, l), Same(x, y, {j}), y \in Holding(j)
    PROVE  Held'
<1>1. th'[l].pc = y /\ \A p \in All : p # l => th'[p] = th[p] BY MovesStep
<1> SUFFICES ASSUME NEW k \in LockNames, NEW p \in All
             PROVE  (th[p].pc \in Holding(k) <=> locks[k] = p)'
    BY DEF Held
<1>2. th[p].pc \in Holding(k) <=> locks[k] = p BY DEF Held
<1>3. k # j => (x \in Holding(k) <=> y \in Holding(k)) BY DEF Same
<1>4. locks[j] = None /\ locks'[k] = IF k = j THEN l ELSE locks[k] BY DEF Acquire, Shapes
<1>5. None \notin All BY ThreadsAssumption
<1> QED BY <1>1, <1>2, <1>3, <1>4, <1>5

\* The handler goes on and releases its locks K.
LEMMA FreeLocks ==
    ASSUME Shapes, Held, NEW l \in All, NEW x, NEW y, th[l].pc = x, Moves(l, y),
           NEW K \in SUBSET LockNames, Same(x, y, K),
           \A k \in K : x \in Holding(k) /\ y \notin Holding(k),
           \A k \in LockNames : locks'[k] = IF k \in K THEN None ELSE locks[k]
    PROVE  Held'
<1>1. th'[l].pc = y /\ \A p \in All : p # l => th'[p] = th[p] BY MovesStep
<1> SUFFICES ASSUME NEW k \in LockNames, NEW p \in All
             PROVE  (th[p].pc \in Holding(k) <=> locks[k] = p)'
    BY DEF Held
<1>2. /\ th[p].pc \in Holding(k) <=> locks[k] = p
      /\ th[l].pc \in Holding(k) <=> locks[k] = l
    BY DEF Held
<1>3. k \notin K => (x \in Holding(k) <=> y \in Holding(k)) BY DEF Same
<1>4. locks'[k] = IF k \in K THEN None ELSE locks[k] OBVIOUS
<1>5. None \notin All BY ThreadsAssumption
<1> QED BY <1>1, <1>2, <1>3, <1>4, <1>5

\* A handler that ends releases its locks.
LEMMA EndLocks ==
    ASSUME Shapes, Held, NEW l \in All, NEW x, th[l].pc = x,
           NEW K \in SUBSET LockNames, Same(x, "idle", K),
           \A k \in K : x \in Holding(k), End(l, K)
    PROVE  Held'
<1>1. Moves(l, "idle") BY DEF Moves, End, Rest
<1>2. \A k \in LockNames : locks'[k] = IF k \in K THEN None ELSE locks[k] BY DEF End, Shapes
<1>3. \A k \in K : "idle" \notin Holding(k) BY DEF LockNames, Holding
<1> QED BY <1>1, <1>2, <1>3, FreeLocks

\* Every step keeps the locks with their holders.
LEMMA HeldStep ==
    ASSUME Shapes, Held, [Next]_vars
    PROVE  Held'
<1> USE DEF Holding, LockNames, Same
<1>0. Timer \in All /\ Service \in All /\ (\A l \in Threads : l \in All) /\ \A w \in Workers : Home[w] \in All
    BY ThreadsAssumption DEF All
<1>1. ASSUME NEW l \in Threads, CallStart(l) PROVE Held'
  <2>1. th[l].pc = "idle" BY <1>1 DEF CallStart
  <2>2. Moves(l, "call") /\ Acquire("queue", l) BY <1>1 DEF CallStart, Go, Moves
  <2> QED BY <1>0, <2>1, <2>2, TakeLock
<1>2. ASSUME NEW l \in Threads, PubStart(l) PROVE Held'
  <2>1. th[l].pc = "idle" BY <1>2 DEF PubStart
  <2>2. Moves(l, "pub") /\ Acquire("list", l) BY <1>2 DEF PubStart, Go, Moves
  <2> QED BY <1>0, <2>1, <2>2, TakeLock
<1>3. ASSUME NEW l \in Threads, CallPop(l) PROVE Held'
  <2>1. th[l].pc = "call" BY <1>3 DEF CallPop
  <2>2. \/ Moves(l, "call") /\ UNCHANGED locks
        \/ Moves(l, "callClaim") /\ UNCHANGED locks
        \/ UNCHANGED <<th, locks>>
      BY <1>3 DEF CallPop, Go, Moves
  <2>3. CASE Moves(l, "call") /\ UNCHANGED locks BY <1>0, <2>1, <2>3, KeepLocks
  <2>4. CASE Moves(l, "callClaim") /\ UNCHANGED locks BY <1>0, <2>1, <2>4, KeepLocks
  <2>5. CASE UNCHANGED <<th, locks>> BY <2>5 DEF Held
  <2> QED BY <2>2, <2>3, <2>4, <2>5
<1>4. ASSUME NEW l \in Threads, CallClaim(l) PROVE Held'
  <2>1. th[l].pc = "callClaim" BY <1>4 DEF CallClaim
  <2>2. \/ Moves(l, "callSend") /\ UNCHANGED locks
        \/ Moves(l, "call") /\ UNCHANGED locks
      BY <1>4 DEF CallClaim, Claim, Moves
  <2>3. CASE Moves(l, "callSend") /\ UNCHANGED locks BY <1>0, <2>1, <2>3, KeepLocks
  <2>4. CASE Moves(l, "call") /\ UNCHANGED locks BY <1>0, <2>1, <2>4, KeepLocks
  <2> QED BY <2>2, <2>3, <2>4
<1>5. ASSUME NEW l \in Threads, CallSend(l) PROVE Held'
  <2>1. th[l].pc = "callSend" BY <1>5 DEF CallSend
  <2>2. \/ End(l, {"queue"})
        \/ Moves(l, "callNet") /\ UNCHANGED locks
      BY <1>5 DEF CallSend, Go, Moves
  <2>3. CASE End(l, {"queue"}) BY <1>0, <2>1, <2>3, EndLocks
  <2>4. CASE Moves(l, "callNet") /\ UNCHANGED locks BY <1>0, <2>1, <2>4, KeepLocks
  <2> QED BY <2>2, <2>3, <2>4
<1>6. ASSUME NEW l \in Threads, CallNet(l) PROVE Held'
  <2>1. th[l].pc = "callNet" BY <1>6 DEF CallNet
  <2>2. End(l, {"queue"}) BY <1>6 DEF CallNet
  <2> QED BY <1>0, <2>1, <2>2, EndLocks
<1>7. ASSUME NEW l \in Threads, CallQueued(l) PROVE Held'
  <2>1. th[l].pc = "call" BY <1>7 DEF CallQueued
  <2>2. End(l, {"queue"}) BY <1>7 DEF CallQueued
  <2> QED BY <1>0, <2>1, <2>2, EndLocks
<1>8. ASSUME NEW l \in Threads, PubNext(l) PROVE Held'
  <2>1. th[l].pc = "pub" BY <1>8 DEF PubNext
  <2>2. \/ Moves(l, "pubClaim") /\ UNCHANGED locks
        \/ Moves(l, "pub") /\ UNCHANGED locks
      BY <1>8 DEF PubNext, Go, Moves
  <2>3. CASE Moves(l, "pubClaim") /\ UNCHANGED locks BY <1>0, <2>1, <2>3, KeepLocks
  <2>4. CASE Moves(l, "pub") /\ UNCHANGED locks BY <1>0, <2>1, <2>4, KeepLocks
  <2> QED BY <2>2, <2>3, <2>4
<1>9. ASSUME NEW l \in Threads, PubClaim(l) PROVE Held'
  <2>1. th[l].pc = "pubClaim" BY <1>9 DEF PubClaim
  <2>2. \/ Moves(l, "pubSend") /\ UNCHANGED locks
        \/ Moves(l, "pub") /\ UNCHANGED locks
      BY <1>9 DEF PubClaim, Claim, Moves
  <2>3. CASE Moves(l, "pubSend") /\ UNCHANGED locks BY <1>0, <2>1, <2>3, KeepLocks
  <2>4. CASE Moves(l, "pub") /\ UNCHANGED locks BY <1>0, <2>1, <2>4, KeepLocks
  <2> QED BY <2>2, <2>3, <2>4
<1>10. ASSUME NEW l \in Threads, PubSend(l) PROVE Held'
  <2>1. th[l].pc = "pubSend" BY <1>10 DEF PubSend
  <2>2. Moves(l, "pub") /\ UNCHANGED locks BY <1>10 DEF PubSend, Go, Moves
  <2> QED BY <1>0, <2>1, <2>2, KeepLocks
<1>11. ASSUME NEW l \in Threads, PubEnd(l) PROVE Held'
  <2>1. th[l].pc = "pub" BY <1>11 DEF PubEnd
  <2>2. End(l, {"list"}) BY <1>11 DEF PubEnd
  <2> QED BY <1>0, <2>1, <2>2, EndLocks
<1>12. ASSUME NEW l \in Threads, AddPop(l) PROVE Held'
  <2>1. th[l].pc = "addPop" BY <1>12 DEF AddPop
  <2>2. Moves(l, "addLock") /\ UNCHANGED locks BY <1>12 DEF AddPop, Go, Moves
  <2> QED BY <1>0, <2>1, <2>2, KeepLocks
<1>13. ASSUME NEW l \in Threads, AddLock(l) PROVE Held'
  <2>1. th[l].pc = "addLock" BY <1>13 DEF AddLock
  <2>2. Moves(l, "add") /\ Acquire("queue", l) BY <1>13 DEF AddLock, Go, Moves
  <2> QED BY <1>0, <2>1, <2>2, TakeLock
<1>14. ASSUME NEW l \in Threads, Add(l) PROVE Held'
  <2>1. th[l].pc = "add" BY <1>14 DEF Add
  <2>2. Moves(l, "addItem") /\ UNCHANGED locks BY <1>14 DEF Add, Go, Moves
  <2> QED BY <1>0, <2>1, <2>2, KeepLocks
<1>15. ASSUME NEW l \in Threads, AddItem(l) PROVE Held'
  <2>1. th[l].pc = "addItem" BY <1>15 DEF AddItem
  <2>2. End(l, {"queue"}) BY <1>15 DEF AddItem
  <2> QED BY <1>0, <2>1, <2>2, EndLocks
<1>16. ASSUME NEW l \in Threads, ClosePop(l) PROVE Held'
  <2>1. th[l].pc = "closePop" BY <1>16 DEF ClosePop
  <2>2. Moves(l, "idle") /\ UNCHANGED locks BY <1>16 DEF ClosePop, Rest, Moves
  <2> QED BY <1>0, <2>1, <2>2, KeepLocks
<1>17. ASSUME NEW w \in Workers, AddStart(w) PROVE Held'
  <2>1. th[Home[w]].pc = "idle" BY <1>17 DEF AddStart
  <2>2. \/ Moves(Home[w], "addPop") /\ UNCHANGED locks
        \/ Moves(Home[w], "addLock") /\ UNCHANGED locks
        \/ UNCHANGED <<th, locks>>
      BY <1>17 DEF AddStart, Go, Moves
  <2>3. CASE Moves(Home[w], "addPop") /\ UNCHANGED locks BY <1>0, <2>1, <2>3, KeepLocks
  <2>4. CASE Moves(Home[w], "addLock") /\ UNCHANGED locks BY <1>0, <2>1, <2>4, KeepLocks
  <2>5. CASE UNCHANGED <<th, locks>> BY <2>5 DEF Held
  <2> QED BY <2>2, <2>3, <2>4, <2>5
<1>18. ASSUME NEW w \in Workers, Deliver(w) PROVE Held'
  <2>1. UNCHANGED <<th, locks>> BY <1>18 DEF Deliver
  <2> QED BY <2>1 DEF Held
<1>19. ASSUME NEW w \in Workers, Result(w) PROVE Held'
  <2>1. UNCHANGED <<th, locks>> BY <1>19 DEF Result
  <2> QED BY <2>1 DEF Held
<1>20. ASSUME NEW w \in Workers, RecvEarly(w) PROVE Held'
  <2>1. UNCHANGED <<th, locks>> BY <1>20 DEF RecvEarly
  <2> QED BY <2>1 DEF Held
<1>21. ASSUME NEW w \in Workers, Close(w) PROVE Held'
  <2>1. th[Home[w]].pc = "idle" BY <1>21 DEF Close
  <2>2. \/ Moves(Home[w], "closePop") /\ UNCHANGED locks
        \/ UNCHANGED <<th, locks>>
      BY <1>21 DEF Close, Go, Moves
  <2>3. CASE Moves(Home[w], "closePop") /\ UNCHANGED locks BY <1>0, <2>1, <2>3, KeepLocks
  <2>4. CASE UNCHANGED <<th, locks>> BY <2>4 DEF Held
  <2> QED BY <2>2, <2>3, <2>4
<1>22. ASSUME TimeoutStart PROVE Held'
  <2>1. th[Timer].pc = "idle" BY <1>22 DEF TimeoutStart
  <2>2. Moves(Timer, "timeoutLock") /\ Acquire("global", Timer) BY <1>22 DEF TimeoutStart, Go, Moves
  <2> QED BY <1>0, <2>1, <2>2, TakeLock
<1>23. ASSUME CleanStart PROVE Held'
  <2>1. th[Service].pc = "idle" BY <1>23 DEF CleanStart
  <2>2. Moves(Service, "cleanLock") /\ UNCHANGED locks BY <1>23 DEF CleanStart, Go, Moves
  <2> QED BY <1>0, <2>1, <2>2, KeepLocks
<1>24. ASSUME TimeoutLock PROVE Held'
  <2>1. th[Timer].pc = "timeoutLock" BY <1>24 DEF TimeoutLock
  <2>2. Moves(Timer, "timeout") /\ Acquire("queue", Timer) BY <1>24 DEF TimeoutLock, Go, Moves
  <2> QED BY <1>0, <2>1, <2>2, TakeLock
<1>25. ASSUME TimeoutNext PROVE Held'
  <2>1. th[Timer].pc = "timeout" BY <1>25 DEF TimeoutNext
  <2>2. \/ Moves(Timer, "timeout") /\ UNCHANGED locks
        \/ Moves(Timer, "timeoutClaim") /\ UNCHANGED locks
      BY <1>25 DEF TimeoutNext, Go, Moves
  <2>3. CASE Moves(Timer, "timeout") /\ UNCHANGED locks BY <1>0, <2>1, <2>3, KeepLocks
  <2>4. CASE Moves(Timer, "timeoutClaim") /\ UNCHANGED locks BY <1>0, <2>1, <2>4, KeepLocks
  <2> QED BY <2>2, <2>3, <2>4
<1>26. ASSUME TimeoutClaim PROVE Held'
  <2>1. th[Timer].pc = "timeoutClaim" BY <1>26 DEF TimeoutClaim
  <2>2. \/ Moves(Timer, "timeoutSend") /\ UNCHANGED locks
        \/ Moves(Timer, "timeout") /\ UNCHANGED locks
      BY <1>26 DEF TimeoutClaim, Claim, Moves
  <2>3. CASE Moves(Timer, "timeoutSend") /\ UNCHANGED locks BY <1>0, <2>1, <2>3, KeepLocks
  <2>4. CASE Moves(Timer, "timeout") /\ UNCHANGED locks BY <1>0, <2>1, <2>4, KeepLocks
  <2> QED BY <2>2, <2>3, <2>4
<1>27. ASSUME TimeoutSend PROVE Held'
  <2>1. th[Timer].pc = "timeoutSend" BY <1>27 DEF TimeoutSend
  <2>2. \/ Moves(Timer, "dead") /\ locks' = [locks EXCEPT !.queue = None]
        \/ Moves(Timer, "timeout") /\ UNCHANGED locks
      BY <1>27 DEF TimeoutSend, Go, Moves
  <2>3. CASE Moves(Timer, "dead") /\ locks' = [locks EXCEPT !.queue = None]
    <3>1. \A k \in LockNames : locks'[k] = IF k \in {"queue"} THEN None ELSE locks[k]
      BY <2>3 DEF Shapes
    <3>2. {"queue"} \in SUBSET LockNames /\ Same("timeoutSend", "dead", {"queue"}) OBVIOUS
    <3>3. \A k \in {"queue"} : "timeoutSend" \in Holding(k) /\ "dead" \notin Holding(k) OBVIOUS
    <3> HIDE DEF Holding, LockNames, Same
    <3> QED BY <1>0, <2>1, <2>3, <3>1, <3>2, <3>3, FreeLocks
  <2>4. CASE Moves(Timer, "timeout") /\ UNCHANGED locks BY <1>0, <2>1, <2>4, KeepLocks
  <2> QED BY <2>2, <2>3, <2>4
<1>28. ASSUME TimeoutEnd PROVE Held'
  <2>1. th[Timer].pc = "timeout" BY <1>28 DEF TimeoutEnd
  <2>2. End(Timer, {"queue", "global"}) BY <1>28 DEF TimeoutEnd
  <2> QED BY <1>0, <2>1, <2>2, EndLocks
<1>29. ASSUME CleanLock PROVE Held'
  <2>1. th[Service].pc = "cleanLock" BY <1>29 DEF CleanLock
  <2>2. Moves(Service, "clean") /\ Acquire("global", Service) BY <1>29 DEF CleanLock, Go, Moves
  <2> QED BY <1>0, <2>1, <2>2, TakeLock
<1>30. ASSUME Clean PROVE Held'
  <2>1. th[Service].pc = "clean" BY <1>30 DEF Clean
  <2>2. End(Service, {"global"}) BY <1>30 DEF Clean
  <2> QED BY <1>0, <2>1, <2>2, EndLocks
<1>31. CASE UNCHANGED vars BY <1>31 DEF vars, list, Held
<1> QED BY <1>1, <1>2, <1>3, <1>4, <1>5, <1>6, <1>7, <1>8, <1>9, <1>10, <1>11, <1>12, <1>13,
    <1>14, <1>15, <1>16, <1>17, <1>18, <1>19, <1>20, <1>21, <1>22, <1>23, <1>24, <1>25, <1>26,
    <1>27, <1>28, <1>29, <1>30, <1>31 DEF Next, Begin, Continue

-----------------------------------------------------------------------------
(* Who answers a worker *)

\* The handler p has asked for a task for w, or has claimed w, or has answered
\* it and not yet set its status.
Asking(p, w) == th[p].w = w /\ th[p].pc \in {"addPop", "addLock", "add"}
Claims(p, w) == th[p].w = w /\ th[p].pc \in {"callSend", "pubSend", "timeoutSend"}
Leaves(p, w) == th[p].w = w /\ th[p].pc = "callNet"

Active == {"addPop", "addLock", "add", "callSend", "pubSend", "timeoutSend", "callNet"}

\* A worker that waits is owed its answer, and so is one that a message is
\* written to.
WorkerOk(w) ==
    /\ owed[w] \in {0, 1}
    /\ status[w] = "worker_wait_job" => owed[w] = 1
    /\ wr[w] => owed[w] = 1 /\ status[w] = "net"

\* What a handler knows of the worker at hand.
HandlerOk(p, w) ==
    /\ Asking(p, w) => p = Home[w] /\ owed[w] = 1 /\ status[w] = "net" /\ ~wr[w]
    /\ Claims(p, w) => owed[w] = 1 /\ status[w] = "busy"
    /\ Leaves(p, w) => status[w] = "busy"

\* No other handler has the same worker.
Single(p, q, w) ==
    (Claims(p, w) \/ Leaves(p, w)) /\ (Claims(q, w) \/ Leaves(q, w)) => p = q

OneAnswerEach ==
    \A w \in Workers :
        /\ WorkerOk(w)
        /\ \A p \in All : HandlerOk(p, w)
        /\ \A p, q \in All : Single(p, q, w)

\* It is enough to look at one worker and two handlers.
LEMMA ForEach ==
    ASSUME \A v \in Workers : \A p, q \in All : WorkerOk(v)' /\ HandlerOk(p, v)' /\ Single(p, q, v)'
    PROVE  OneAnswerEach'
<1>1. Service \in All BY DEF All
<1> QED BY <1>1 DEF OneAnswerEach

LEMMA Parts ==
    ASSUME OneAnswerEach, NEW v \in Workers, NEW l \in All, NEW p \in All, NEW q \in All
    PROVE  /\ WorkerOk(v)
           /\ HandlerOk(l, v) /\ HandlerOk(p, v) /\ HandlerOk(q, v)
           /\ Single(p, q, v) /\ Single(p, l, v) /\ Single(l, q, v)
  BY DEF OneAnswerEach

\* The handler l goes on to where it neither asks, claims nor answers.
LEMMA PassiveStep ==
    ASSUME Shapes, OneAnswerEach, NEW l \in All, NEW y, Moves(l, y), y \notin Active,
           UNCHANGED <<status, owed, wr>>
    PROVE  OneAnswerEach'
<1>1. th'[l].pc = y /\ \A p \in All : p # l => th'[p] = th[p] BY MovesStep
<1> SUFFICES ASSUME NEW v \in Workers, NEW p \in All, NEW q \in All
             PROVE  WorkerOk(v)' /\ HandlerOk(p, v)' /\ Single(p, q, v)'
    BY ForEach
<1>2. WorkerOk(v) /\ HandlerOk(p, v) /\ Single(p, q, v) BY Parts
<1> QED BY <1>1, <1>2 DEF WorkerOk, HandlerOk, Single, Claims, Leaves, Asking, Active

\* Of the handlers that have seen a worker wait, one claims it.
LEMMA ClaimStep ==
    ASSUME Shapes, OneAnswerEach, NEW l \in All, NEW y, NEW t, NEW n, NEW w, NEW u,
           th[l].pc \notin Active, y \in {"callSend", "pubSend", "timeoutSend"}, n \notin Active,
           Claim(l, At(y, th[l].w, t), At(n, w, u)), UNCHANGED <<owed, wr>>
    PROVE  OneAnswerEach'
<1>1. CASE ~Claimable(th[l].w)
  <2>1. th' = [th EXCEPT ![l] = At(n, w, u)] /\ UNCHANGED status BY <1>1 DEF Claim
  <2>2. Moves(l, n) BY <2>1 DEF Moves
  <2> QED BY <2>1, <2>2, PassiveStep
<1>2. CASE Claimable(th[l].w)
  <2>1. th' = [th EXCEPT ![l] = At(y, th[l].w, t)] /\ status' = [status EXCEPT ![th[l].w] = "busy"]
      BY <1>2 DEF Claim
  <2>2. th'[l] = At(y, th[l].w, t) /\ \A p \in All : p # l => th'[p] = th[p]
      BY <2>1, ThreadStep
  <2> SUFFICES ASSUME NEW v \in Workers, NEW p \in All, NEW q \in All
               PROVE  WorkerOk(v)' /\ HandlerOk(p, v)' /\ Single(p, q, v)'
      BY ForEach
  <2>3. status'[v] = IF v = th[l].w THEN "busy" ELSE status[v] BY <2>1 DEF Shapes
  <2>4. /\ WorkerOk(v)
        /\ HandlerOk(p, v) /\ HandlerOk(q, v)
        /\ Single(p, q, v) /\ Single(p, l, v) /\ Single(l, q, v)
      BY Parts
  <2>5. v = th[l].w => status[v] = "worker_wait_job" BY <1>2 DEF Claimable
  <2> QED BY <2>2, <2>3, <2>4, <2>5
          DEF WorkerOk, HandlerOk, Single, Claims, Leaves, Asking, At, Active
<1> QED BY <1>1, <1>2

\* Every step keeps it.
LEMMA OneAnswerStep ==
    ASSUME Shapes, OneAnswerEach, [Next]_vars
    PROVE  OneAnswerEach'
<1>0. Timer \in All /\ Service \in All /\ (\A l \in Threads : l \in All) /\ \A w \in Workers : Home[w] \in All
    BY ThreadsAssumption DEF All
<1>1. ASSUME NEW l \in Threads, CallStart(l) PROVE OneAnswerEach'
  <2>1. UNCHANGED <<status, owed, wr>> BY <1>1 DEF CallStart
  <2>2. Moves(l, "call") BY <1>1 DEF CallStart, Go, Moves
  <2> QED BY <1>0, <2>1, <2>2, PassiveStep DEF Active
<1>2. ASSUME NEW l \in Threads, PubStart(l) PROVE OneAnswerEach'
  <2>1. UNCHANGED <<status, owed, wr>> BY <1>2 DEF PubStart
  <2>2. Moves(l, "pub") BY <1>2 DEF PubStart, Go, Moves
  <2> QED BY <1>0, <2>1, <2>2, PassiveStep DEF Active
<1>3. ASSUME NEW l \in Threads, CallPop(l) PROVE OneAnswerEach'
  <2>1. UNCHANGED <<status, owed, wr>> BY <1>3 DEF CallPop
  <2>2. Moves(l, "call") \/ Moves(l, "callClaim") \/ UNCHANGED th BY <1>3 DEF CallPop, Go, Moves
  <2>3. CASE UNCHANGED th
      BY <2>1, <2>3 DEF OneAnswerEach, WorkerOk, HandlerOk, Single, Claims, Leaves, Asking
  <2> QED BY <1>0, <2>1, <2>2, <2>3, PassiveStep DEF Active
<1>4. ASSUME NEW l \in Threads, CallClaim(l) PROVE OneAnswerEach'
  <2>1. Claim(l, At("callSend", th[l].w, << >>), At("call", None, th[l].todo)) BY <1>4 DEF CallClaim
  <2>2. th[l].pc \notin Active /\ UNCHANGED <<owed, wr>> BY <1>4 DEF CallClaim, Active
  <2>3. "call" \notin Active BY DEF Active
  <2> QED BY <1>0, <2>1, <2>2, <2>3, ClaimStep
<1>5. ASSUME NEW l \in Threads, CallSend(l) PROVE OneAnswerEach'
  <2> SUFFICES ASSUME NEW v \in Workers, NEW p \in All, NEW q \in All
               PROVE  WorkerOk(v)' /\ HandlerOk(p, v)' /\ Single(p, q, v)'
      BY ForEach
  <2>1. th[l].pc = "callSend" BY <1>5 DEF CallSend
  <2>2. \A r \in All : th'[r] = IF r # l THEN th[r]
                               ELSE IF closed[th[l].w] \/ noid[th[l].w] THEN Rest ELSE At("callNet", th[l].w, << >>)
      BY <1>5, <1>0 DEF Shapes, CallSend, End, Go
  <2>3. status'[v] = IF v = th[l].w /\ noid[v] THEN "worker_wait_result" ELSE status[v]
      BY <1>5 DEF Shapes, CallSend
  <2>4. owed'[v] = IF v = th[l].w /\ ~closed[v] THEN owed[v] - 1 ELSE owed[v]
      BY <1>5 DEF Shapes, CallSend, Answer
  <2>5. wr'[v] = wr[v] BY <1>5 DEF Shapes, CallSend
  <2>6. /\ WorkerOk(v)
        /\ HandlerOk(p, v) /\ HandlerOk(q, v) /\ HandlerOk(l, v)
        /\ Single(p, q, v) /\ Single(p, l, v) /\ Single(l, q, v)
      BY <1>0, Parts
  <2> QED BY <1>0, <2>1, <2>2, <2>3, <2>4, <2>5, <2>6
          DEF WorkerOk, HandlerOk, Single, Claims, Leaves, Asking, At, Rest
<1>6. ASSUME NEW l \in Threads, CallNet(l) PROVE OneAnswerEach'
  <2> SUFFICES ASSUME NEW v \in Workers, NEW p \in All, NEW q \in All
               PROVE  WorkerOk(v)' /\ HandlerOk(p, v)' /\ Single(p, q, v)'
      BY ForEach
  <2>1. th[l].pc = "callNet" BY <1>6 DEF CallNet
  <2>2. \A r \in All : th'[r] = IF r # l THEN th[r] ELSE Rest
      BY <1>6, <1>0 DEF Shapes, CallNet, End
  <2>3. status'[v] = IF v = th[l].w THEN "net" ELSE status[v]
      BY <1>6 DEF Shapes, CallNet
  <2>4. owed'[v] = owed[v]
      BY <1>6 DEF Shapes, CallNet
  <2>5. wr'[v] = wr[v] BY <1>6 DEF Shapes, CallNet
  <2>6. /\ WorkerOk(v)
        /\ HandlerOk(p, v) /\ HandlerOk(q, v) /\ HandlerOk(l, v)
        /\ Single(p, q, v) /\ Single(p, l, v) /\ Single(l, q, v)
      BY <1>0, Parts
  <2> QED BY <1>0, <2>1, <2>2, <2>3, <2>4, <2>5, <2>6
          DEF WorkerOk, HandlerOk, Single, Claims, Leaves, Asking, At, Rest
<1>7. ASSUME NEW l \in Threads, CallQueued(l) PROVE OneAnswerEach'
  <2>1. UNCHANGED <<status, owed, wr>> BY <1>7 DEF CallQueued
  <2>2. Moves(l, "idle") BY <1>7 DEF CallQueued, End, Rest, Moves
  <2> QED BY <1>0, <2>1, <2>2, PassiveStep DEF Active
<1>8. ASSUME NEW l \in Threads, PubNext(l) PROVE OneAnswerEach'
  <2>1. UNCHANGED <<status, owed, wr>> BY <1>8 DEF PubNext
  <2>2. Moves(l, "pubClaim") \/ Moves(l, "pub") BY <1>8 DEF PubNext, Go, Moves
  <2> QED BY <1>0, <2>1, <2>2, PassiveStep DEF Active
<1>9. ASSUME NEW l \in Threads, PubClaim(l) PROVE OneAnswerEach'
  <2>1. Claim(l, At("pubSend", th[l].w, << >>), At("pub", next[th[l].w], << >>))
    BY <1>9 DEF PubClaim
  <2>2. th[l].pc \notin Active /\ UNCHANGED <<owed, wr>> BY <1>9 DEF PubClaim, Active
  <2>3. "pub" \notin Active BY DEF Active
  <2> QED BY <1>0, <2>1, <2>2, <2>3, ClaimStep
<1>10. ASSUME NEW l \in Threads, PubSend(l) PROVE OneAnswerEach'
  <2> SUFFICES ASSUME NEW v \in Workers, NEW p \in All, NEW q \in All
               PROVE  WorkerOk(v)' /\ HandlerOk(p, v)' /\ Single(p, q, v)'
      BY ForEach
  <2>1. th[l].pc = "pubSend" BY <1>10 DEF PubSend
  <2>2. \A r \in All : th'[r] = IF r # l THEN th[r] ELSE At("pub", next[th[l].w], << >>)
      BY <1>10, <1>0 DEF Shapes, PubSend, Go
  <2>3. status'[v] = IF v = th[l].w THEN "net" ELSE status[v]
      BY <1>10 DEF Shapes, PubSend
  <2>4. owed'[v] = owed[v]
      BY <1>10 DEF Shapes, PubSend
  <2>5. wr'[v] = IF v = th[l].w THEN TRUE ELSE wr[v] BY <1>10 DEF Shapes, PubSend
  <2>6. /\ WorkerOk(v)
        /\ HandlerOk(p, v) /\ HandlerOk(q, v) /\ HandlerOk(l, v)
        /\ Single(p, q, v) /\ Single(p, l, v) /\ Single(l, q, v)
      BY <1>0, Parts
  <2> QED BY <1>0, <2>1, <2>2, <2>3, <2>4, <2>5, <2>6
          DEF WorkerOk, HandlerOk, Single, Claims, Leaves, Asking, At, Rest
<1>11. ASSUME NEW l \in Threads, PubEnd(l) PROVE OneAnswerEach'
  <2>1. UNCHANGED <<status, owed, wr>> BY <1>11 DEF PubEnd
  <2>2. Moves(l, "idle") BY <1>11 DEF PubEnd, End, Rest, Moves
  <2> QED BY <1>0, <2>1, <2>2, PassiveStep DEF Active
<1>12. ASSUME NEW l \in Threads, AddPop(l) PROVE OneAnswerEach'
  <2> SUFFICES ASSUME NEW v \in Workers, NEW p \in All, NEW q \in All
               PROVE  WorkerOk(v)' /\ HandlerOk(p, v)' /\ Single(p, q, v)'
      BY ForEach
  <2>1. th[l].pc = "addPop" BY <1>12 DEF AddPop
  <2>2. \A r \in All : th'[r] = IF r # l THEN th[r] ELSE At("addLock", th[l].w, << >>)
      BY <1>12, <1>0 DEF Shapes, AddPop, Go
  <2>3. status'[v] = status[v]
      BY <1>12 DEF Shapes, AddPop
  <2>4. owed'[v] = owed[v]
      BY <1>12 DEF Shapes, AddPop
  <2>5. wr'[v] = wr[v] BY <1>12 DEF Shapes, AddPop
  <2>6. /\ WorkerOk(v)
        /\ HandlerOk(p, v) /\ HandlerOk(q, v) /\ HandlerOk(l, v)
        /\ Single(p, q, v) /\ Single(p, l, v) /\ Single(l, q, v)
      BY <1>0, Parts
  <2> QED BY <1>0, <2>1, <2>2, <2>3, <2>4, <2>5, <2>6
          DEF WorkerOk, HandlerOk, Single, Claims, Leaves, Asking, At, Rest
<1>13. ASSUME NEW l \in Threads, AddLock(l) PROVE OneAnswerEach'
  <2> SUFFICES ASSUME NEW v \in Workers, NEW p \in All, NEW q \in All
               PROVE  WorkerOk(v)' /\ HandlerOk(p, v)' /\ Single(p, q, v)'
      BY ForEach
  <2>1. th[l].pc = "addLock" BY <1>13 DEF AddLock
  <2>2. \A r \in All : th'[r] = IF r # l THEN th[r] ELSE At("add", th[l].w, << >>)
      BY <1>13, <1>0 DEF Shapes, AddLock, Go
  <2>3. status'[v] = status[v]
      BY <1>13 DEF Shapes, AddLock
  <2>4. owed'[v] = owed[v]
      BY <1>13 DEF Shapes, AddLock
  <2>5. wr'[v] = wr[v] BY <1>13 DEF Shapes, AddLock
  <2>6. /\ WorkerOk(v)
        /\ HandlerOk(p, v) /\ HandlerOk(q, v) /\ HandlerOk(l, v)
        /\ Single(p, q, v) /\ Single(p, l, v) /\ Single(l, q, v)
      BY <1>0, Parts
  <2> QED BY <1>0, <2>1, <2>2, <2>3, <2>4, <2>5, <2>6
          DEF WorkerOk, HandlerOk, Single, Claims, Leaves, Asking, At, Rest
<1>14. ASSUME NEW l \in Threads, Add(l) PROVE OneAnswerEach'
  <2> SUFFICES ASSUME NEW v \in Workers, NEW p \in All, NEW q \in All
               PROVE  WorkerOk(v)' /\ HandlerOk(p, v)' /\ Single(p, q, v)'
      BY ForEach
  <2>1. th[l].pc = "add" BY <1>14 DEF Add
  <2>2. \A r \in All : th'[r] = IF r # l THEN th[r] ELSE At("addItem", th[l].w, << >>)
      BY <1>14, <1>0 DEF Shapes, Add, Go
  <2>3. status'[v] = IF v # th[l].w THEN status[v] ELSE IF ~(calls > 0) THEN "worker_wait_job"
                         ELSE IF noid[v] THEN "worker_wait_result" ELSE "net"
    <3>1. CASE calls > 0
      <4>1. status' = [status EXCEPT ![th[l].w] = IF noid[th[l].w] THEN "worker_wait_result" ELSE "net"]
          BY <1>14, <3>1 DEF Add
      <4> QED BY <3>1, <4>1 DEF Shapes
    <3>2. CASE ~(calls > 0)
      <4>1. status' = [status EXCEPT ![th[l].w] = "worker_wait_job"] BY <1>14, <3>2 DEF Add
      <4> QED BY <3>2, <4>1 DEF Shapes
    <3> QED BY <3>1, <3>2
  <2>4. owed'[v] = IF v = th[l].w /\ calls > 0 THEN owed[v] - 1 ELSE owed[v]
      BY <1>14 DEF Shapes, Add, Answer
  <2>5. wr'[v] = wr[v] BY <1>14 DEF Shapes, Add
  <2>6. /\ WorkerOk(v)
        /\ HandlerOk(p, v) /\ HandlerOk(q, v) /\ HandlerOk(l, v)
        /\ Single(p, q, v) /\ Single(p, l, v) /\ Single(l, q, v)
      BY <1>0, Parts
  <2> QED BY <1>0, <2>1, <2>2, <2>3, <2>4, <2>5, <2>6
          DEF WorkerOk, HandlerOk, Single, Claims, Leaves, Asking, At, Rest
<1>15. ASSUME NEW l \in Threads, AddItem(l) PROVE OneAnswerEach'
  <2>1. UNCHANGED <<status, owed, wr>> BY <1>15 DEF AddItem
  <2>2. Moves(l, "idle") BY <1>15 DEF AddItem, End, Rest, Moves
  <2> QED BY <1>0, <2>1, <2>2, PassiveStep DEF Active
<1>16. ASSUME NEW l \in Threads, ClosePop(l) PROVE OneAnswerEach'
  <2>1. UNCHANGED <<status, owed, wr>> BY <1>16 DEF ClosePop
  <2>2. Moves(l, "idle") BY <1>16 DEF ClosePop, Rest, Moves
  <2> QED BY <1>0, <2>1, <2>2, PassiveStep DEF Active
<1>17. ASSUME NEW w \in Workers, AddStart(w) PROVE OneAnswerEach'
  <2> SUFFICES ASSUME NEW v \in Workers, NEW p \in All, NEW q \in All
               PROVE  WorkerOk(v)' /\ HandlerOk(p, v)' /\ Single(p, q, v)'
      BY ForEach
  <2>1. th[Home[w]].pc = "idle" /\ status[w] = "net" /\ owed[w] = 0 BY <1>17 DEF AddStart
  <2>2. \A r \in All : \/ r # Home[w] /\ th'[r] = th[r]
                       \/ r = Home[w] /\ th'[r].w = w /\ th'[r].pc \in {"addPop", "addLock"} /\ wr' = wr
                       \/ r = Home[w] /\ th'[r] = th[r] /\ wr'[w]
      BY <1>17, <1>0 DEF Shapes, AddStart, Go, At
  <2>3. status'[v] = status[v]
      BY <1>17 DEF Shapes, AddStart
  <2>4. owed'[v] = IF v = w THEN 1 ELSE owed[v]
      BY <1>17 DEF Shapes, AddStart
  <2>5. v # w => wr'[v] = wr[v] BY <1>17 DEF Shapes, AddStart
  <2>6. /\ WorkerOk(v)
        /\ HandlerOk(p, v) /\ HandlerOk(q, v) /\ HandlerOk(Home[w], v)
        /\ Single(p, q, v) /\ Single(p, Home[w], v) /\ Single(Home[w], q, v)
      BY <1>0, Parts
  <2> QED BY <1>0, <2>1, <2>2, <2>3, <2>4, <2>5, <2>6
          DEF WorkerOk, HandlerOk, Single, Claims, Leaves, Asking, At, Rest
<1>18. ASSUME NEW w \in Workers, Deliver(w) PROVE OneAnswerEach'
  <2> SUFFICES ASSUME NEW v \in Workers, NEW p \in All, NEW q \in All
               PROVE  WorkerOk(v)' /\ HandlerOk(p, v)' /\ Single(p, q, v)'
      BY ForEach
  <2>1. th[Home[w]].pc = "idle" /\ wr[w] BY <1>18 DEF Deliver
  <2>2. \A r \in All : th'[r] = th[r]
      BY <1>18, <1>0 DEF Shapes, Deliver
  <2>3. status'[v] = status[v]
      BY <1>18 DEF Shapes, Deliver
  <2>4. owed'[v] = IF v = w THEN owed[v] - 1 ELSE owed[v]
      BY <1>18 DEF Shapes, Deliver, Answer
  <2>5. wr'[v] = IF v = w THEN FALSE ELSE wr[v] BY <1>18 DEF Shapes, Deliver
  <2>6. /\ WorkerOk(v)
        /\ HandlerOk(p, v) /\ HandlerOk(q, v) /\ HandlerOk(Home[w], v)
        /\ Single(p, q, v) /\ Single(p, Home[w], v) /\ Single(Home[w], q, v)
      BY <1>0, Parts
  <2> QED BY <1>0, <2>1, <2>2, <2>3, <2>4, <2>5, <2>6
          DEF WorkerOk, HandlerOk, Single, Claims, Leaves, Asking, At, Rest
<1>19. ASSUME NEW w \in Workers, Result(w) PROVE OneAnswerEach'
  <2> SUFFICES ASSUME NEW v \in Workers, NEW p \in All, NEW q \in All
               PROVE  WorkerOk(v)' /\ HandlerOk(p, v)' /\ Single(p, q, v)'
      BY ForEach
  <2>1. th[Home[w]].pc = "idle" /\ status[w] = "worker_wait_result" /\ owed[w] = 0
    BY <1>19 DEF Result
  <2>2. \A r \in All : th'[r] = th[r]
      BY <1>19, <1>0 DEF Shapes, Result
  <2>3. status'[v] = IF v = w THEN "net" ELSE status[v]
      BY <1>19 DEF Shapes, Result
  <2>4. owed'[v] = owed[v]
      BY <1>19 DEF Shapes, Result
  <2>5. wr'[v] = wr[v] BY <1>19 DEF Shapes, Result
  <2>6. /\ WorkerOk(v)
        /\ HandlerOk(p, v) /\ HandlerOk(q, v) /\ HandlerOk(Home[w], v)
        /\ Single(p, q, v) /\ Single(p, Home[w], v) /\ Single(Home[w], q, v)
      BY <1>0, Parts
  <2> QED BY <1>0, <2>1, <2>2, <2>3, <2>4, <2>5, <2>6
          DEF WorkerOk, HandlerOk, Single, Claims, Leaves, Asking, At, Rest
<1>20. ASSUME NEW w \in Workers, RecvEarly(w) PROVE OneAnswerEach'
  <2> SUFFICES ASSUME NEW v \in Workers, NEW p \in All, NEW q \in All
               PROVE  WorkerOk(v)' /\ HandlerOk(p, v)' /\ Single(p, q, v)'
      BY ForEach
  <2>1. status[w] = "busy" /\ owed[w] = 0 BY <1>20 DEF RecvEarly
  <2>2. \A r \in All : th'[r] = th[r]
      BY <1>20, <1>0 DEF Shapes, RecvEarly
  <2>3. status'[v] = status[v]
      BY <1>20 DEF Shapes, RecvEarly
  <2>4. owed'[v] = IF v = w THEN 1 ELSE owed[v]
      BY <1>20 DEF Shapes, RecvEarly
  <2>5. wr'[v] = wr[v] BY <1>20 DEF Shapes, RecvEarly
  <2>6. /\ WorkerOk(v)
        /\ HandlerOk(p, v) /\ HandlerOk(q, v) /\ HandlerOk(Home[w], v)
        /\ Single(p, q, v) /\ Single(p, Home[w], v) /\ Single(Home[w], q, v)
      BY <1>0, Parts
  <2> QED BY <1>0, <2>1, <2>2, <2>3, <2>4, <2>5, <2>6
          DEF WorkerOk, HandlerOk, Single, Claims, Leaves, Asking, At, Rest
<1>21. ASSUME NEW w \in Workers, Close(w) PROVE OneAnswerEach'
  <2>1. UNCHANGED <<status, owed, wr>> BY <1>21 DEF Close
  <2>2. Moves(Home[w], "closePop") \/ UNCHANGED th BY <1>21 DEF Close, Go, Moves
  <2>3. CASE UNCHANGED th
      BY <2>1, <2>3 DEF OneAnswerEach, WorkerOk, HandlerOk, Single, Claims, Leaves, Asking
  <2> QED BY <1>0, <2>1, <2>2, <2>3, PassiveStep DEF Active
<1>22. ASSUME TimeoutStart PROVE OneAnswerEach'
  <2>1. UNCHANGED <<status, owed, wr>> BY <1>22 DEF TimeoutStart
  <2>2. Moves(Timer, "timeoutLock") BY <1>22 DEF TimeoutStart, Go, Moves
  <2> QED BY <1>0, <2>1, <2>2, PassiveStep DEF Active
<1>23. ASSUME CleanStart PROVE OneAnswerEach'
  <2>1. UNCHANGED <<status, owed, wr>> BY <1>23 DEF CleanStart
  <2>2. Moves(Service, "cleanLock") BY <1>23 DEF CleanStart, Go, Moves
  <2> QED BY <1>0, <2>1, <2>2, PassiveStep DEF Active
<1>24. ASSUME TimeoutLock PROVE OneAnswerEach'
  <2>1. UNCHANGED <<status, owed, wr>> BY <1>24 DEF TimeoutLock
  <2>2. Moves(Timer, "timeout") BY <1>24 DEF TimeoutLock, Go, Moves
  <2> QED BY <1>0, <2>1, <2>2, PassiveStep DEF Active
<1>25. ASSUME TimeoutNext PROVE OneAnswerEach'
  <2>1. UNCHANGED <<status, owed, wr>> BY <1>25 DEF TimeoutNext
  <2>2. Moves(Timer, "timeout") \/ Moves(Timer, "timeoutClaim") BY <1>25 DEF TimeoutNext, Go, Moves
  <2> QED BY <1>0, <2>1, <2>2, PassiveStep DEF Active
<1>26. ASSUME TimeoutClaim PROVE OneAnswerEach'
  <2>1. Claim(Timer, At("timeoutSend", th[Timer].w, th[Timer].todo), At("timeout", None, th[Timer].todo)) BY <1>26 DEF TimeoutClaim
  <2>2. th[Timer].pc \notin Active /\ UNCHANGED <<owed, wr>> BY <1>26 DEF TimeoutClaim, Active
  <2>3. "timeout" \notin Active BY DEF Active
  <2> QED BY <1>0, <2>1, <2>2, <2>3, ClaimStep
<1>27. ASSUME TimeoutSend PROVE OneAnswerEach'
  <2> SUFFICES ASSUME NEW v \in Workers, NEW p \in All, NEW q \in All
               PROVE  WorkerOk(v)' /\ HandlerOk(p, v)' /\ Single(p, q, v)'
      BY ForEach
  <2>1. th[Timer].pc = "timeoutSend" BY <1>27 DEF TimeoutSend
  <2>2. \A r \in All : \/ r # Timer /\ th'[r] = th[r]
                       \/ r = Timer /\ th'[r].pc \in {"dead", "timeout"}
      BY <1>27, <1>0 DEF Shapes, TimeoutSend, Go, At
  <2>3. status'[v] = IF v = th[Timer].w THEN "net" ELSE status[v]
      BY <1>27 DEF Shapes, TimeoutSend
  <2>4. owed'[v] = IF v = th[Timer].w /\ ~closed[v] THEN owed[v] - 1 ELSE owed[v]
      BY <1>27 DEF Shapes, TimeoutSend, Answer
  <2>5. wr'[v] = wr[v] BY <1>27 DEF Shapes, TimeoutSend
  <2>6. /\ WorkerOk(v)
        /\ HandlerOk(p, v) /\ HandlerOk(q, v) /\ HandlerOk(Timer, v)
        /\ Single(p, q, v) /\ Single(p, Timer, v) /\ Single(Timer, q, v)
      BY <1>0, Parts
  <2> QED BY <1>0, <2>1, <2>2, <2>3, <2>4, <2>5, <2>6
          DEF WorkerOk, HandlerOk, Single, Claims, Leaves, Asking, At, Rest
<1>28. ASSUME TimeoutEnd PROVE OneAnswerEach'
  <2>1. UNCHANGED <<status, owed, wr>> BY <1>28 DEF TimeoutEnd
  <2>2. Moves(Timer, "idle") BY <1>28 DEF TimeoutEnd, End, Rest, Moves
  <2> QED BY <1>0, <2>1, <2>2, PassiveStep DEF Active
<1>29. ASSUME CleanLock PROVE OneAnswerEach'
  <2>1. UNCHANGED <<status, owed, wr>> BY <1>29 DEF CleanLock
  <2>2. Moves(Service, "clean") BY <1>29 DEF CleanLock, Go, Moves
  <2> QED BY <1>0, <2>1, <2>2, PassiveStep DEF Active
<1>30. ASSUME Clean PROVE OneAnswerEach'
  <2>1. UNCHANGED <<status, owed, wr>> BY <1>30 DEF Clean
  <2>2. Moves(Service, "idle") BY <1>30 DEF Clean, End, Rest, Moves
  <2> QED BY <1>0, <2>1, <2>2, PassiveStep DEF Active
<1>31. CASE UNCHANGED vars
  BY <1>31 DEF vars, list, OneAnswerEach, WorkerOk, HandlerOk, Single, Claims, Leaves,
                                                Asking
<1> QED BY <1>1, <1>2, <1>3, <1>4, <1>5, <1>6, <1>7, <1>8, <1>9, <1>10, <1>11, <1>12, <1>13,
    <1>14, <1>15, <1>16, <1>17, <1>18, <1>19, <1>20, <1>21, <1>22, <1>23, <1>24, <1>25, <1>26,
    <1>27, <1>28, <1>29, <1>30, <1>31 DEF Next, Begin, Continue

-----------------------------------------------------------------------------
(* The list of connected workers *)

\* s lists the connected workers, each once, and is linked.
Order(s) ==
    /\ s \in Seq(Workers)
    /\ \A i, j \in DOMAIN s : s[i] = s[j] => i = j
    /\ \A i \in DOMAIN s : item[s[i]]
    /\ \A w \in Workers : item[w] => \E i \in DOMAIN s : s[i] = w
    /\ Linked(s)

PointerType ==
    /\ item \in [Workers -> BOOLEAN]
    /\ head \in Workers \cup {None}
    /\ next \in [Workers -> Workers \cup {None}]
    /\ prev \in [Workers -> Workers \cup {None}]

\* What is known of the worker at hand of a handler: the one that it walks to
\* is in the list, and its own is of its loop, and in the list when it is to
\* leave it.
AtHand(p) ==
    /\ th[p].pc \in {"pub", "pubClaim", "pubSend"} =>
          (th[p].pc = "pub" /\ th[p].w = None) \/ (th[p].w \in Workers /\ item[th[p].w])
    /\ th[p].pc \in {"addPop", "addLock", "add", "addItem", "closePop"} =>
          th[p].w \in Workers /\ Home[th[p].w] = p
    /\ th[p].pc \in {"addPop", "closePop"} => item[th[p].w]

Listed ==
    /\ PointerType
    /\ \E s : Order(s)
    /\ \A p \in All : AtHand(p)

\* The functions of a list whose items are known.
LEMMA OrderFacts ==
    ASSUME NEW s, Order(s)
    PROVE  /\ Len(s) \in Nat /\ DOMAIN s = 1 .. Len(s)
           /\ \A i \in 1 .. Len(s) : s[i] \in Workers /\ item[s[i]]
           /\ \A i, j \in 1 .. Len(s) : s[i] = s[j] => i = j
           /\ \A w \in Workers : item[w] => \E i \in 1 .. Len(s) : s[i] = w
           /\ head = IF Len(s) = 0 THEN None ELSE s[1]
           /\ \A i \in 1 .. Len(s) : /\ next[s[i]] = IF i = Len(s) THEN None ELSE s[i + 1]
                                     /\ prev[s[i]] = IF i = 1 THEN None ELSE s[i - 1]
<1>1. s \in Seq(Workers) /\ Len(s) \in Nat /\ DOMAIN s = 1 .. Len(s) BY DEF Order
<1>2. s = << >> <=> Len(s) = 0 BY <1>1, EmptySeq
<1>3. Linked(s) BY DEF Order
<1>4. /\ \A i \in 1 .. Len(s) : s[i] \in Workers
      /\ \A i \in 1 .. Len(s) : item[s[i]]
      /\ \A i, j \in 1 .. Len(s) : s[i] = s[j] => i = j
      /\ \A w \in Workers : item[w] => \E i \in 1 .. Len(s) : s[i] = w
  <2>1. \A i \in 1 .. Len(s) : s[i] \in Workers BY <1>1
  <2>2. \A i \in 1 .. Len(s) : item[s[i]] BY <1>1 DEF Order
  <2>3. \A i, j \in 1 .. Len(s) : s[i] = s[j] => i = j BY <1>1 DEF Order
  <2>4. \A w \in Workers : item[w] => \E i \in 1 .. Len(s) : s[i] = w BY <1>1 DEF Order
  <2> QED BY <2>1, <2>2, <2>3, <2>4
<1>5. head = IF Len(s) = 0 THEN None ELSE s[1] BY <1>2, <1>3 DEF Linked
<1>6. \A i \in 1 .. Len(s) : /\ next[s[i]] = IF i = Len(s) THEN None ELSE s[i + 1]
                             /\ prev[s[i]] = IF i = 1 THEN None ELSE s[i - 1]
    BY <1>1, <1>3 DEF Linked
<1> QED BY <1>1, <1>4, <1>5, <1>6

\* A function that lists the items, as they are after a step, makes an order.
LEMMA OrderBy ==
    ASSUME NEW n \in Nat, NEW t \in [1 .. n -> Workers],
           \A i, j \in 1 .. n : t[i] = t[j] => i = j,
           \A i \in 1 .. n : item'[t[i]],
           \A w \in Workers : item'[w] => \E i \in 1 .. n : t[i] = w,
           head' = IF n = 0 THEN None ELSE t[1],
           \A i \in 1 .. n : /\ next'[t[i]] = IF i = n THEN None ELSE t[i + 1]
                             /\ prev'[t[i]] = IF i = 1 THEN None ELSE t[i - 1]
    PROVE  Order(t)'
<1>1. t \in Seq(Workers) /\ Len(t) = n /\ DOMAIN t = 1 .. n OBVIOUS
<1>2. t = << >> <=> n = 0 BY <1>1, EmptySeq
<1>3. Linked(t)' BY <1>1, <1>2 DEF Linked
<1> QED BY <1>1, <1>3 DEF Order

\* WorkerList::push puts an item in front.
LEMMA PushOrder ==
    ASSUME PointerType, NEW s, Order(s), NEW w \in Workers, ~item[w], PushItem(w)
    PROVE  PointerType' /\ \E t : Order(t)'
<1> USE ThreadsAssumption
<1> DEFINE n == Len(s)
          t == [j \in 1 .. n + 1 |-> IF j = 1 THEN w ELSE s[j - 1]]
<1>1. /\ n \in Nat
      /\ \A i \in 1 .. n : s[i] \in Workers /\ item[s[i]]
      /\ \A i, j \in 1 .. n : s[i] = s[j] => i = j
      /\ \A v \in Workers : item[v] => \E i \in 1 .. n : s[i] = v
      /\ head = IF n = 0 THEN None ELSE s[1]
      /\ \A i \in 1 .. n : /\ next[s[i]] = IF i = n THEN None ELSE s[i + 1]
                           /\ prev[s[i]] = IF i = 1 THEN None ELSE s[i - 1]
    BY OrderFacts
<1>2. /\ head' = w
      /\ \A v \in Workers : next'[v] = IF v = w THEN head ELSE next[v]
      /\ \A v \in Workers : prev'[v] = IF v = w THEN None ELSE IF v = head THEN w ELSE prev[v]
      /\ \A v \in Workers : item'[v] = IF v = w THEN TRUE ELSE item[v]
    BY DEF PushItem, PointerType
<1>3. PointerType' BY DEF PushItem, PointerType
<1> HIDE DEF n
<1>4. \A i \in 1 .. n : s[i] # w BY <1>1
<1>5. t \in [1 .. n + 1 -> Workers] BY <1>1
<1>6. \A i, j \in 1 .. n + 1 : t[i] = t[j] => i = j
  <2> SUFFICES ASSUME NEW i \in 1 .. n + 1, NEW j \in 1 .. n + 1, t[i] = t[j] PROVE i = j OBVIOUS
  <2>1. i # 1 => i - 1 \in 1 .. n /\ t[i] = s[i - 1] BY <1>1
  <2>2. j # 1 => j - 1 \in 1 .. n /\ t[j] = s[j - 1] BY <1>1
  <2>3. t[1] = w BY <1>1
  <2> QED BY <1>1, <1>4, <2>1, <2>2, <2>3
<1>7. \A i \in 1 .. n + 1 : item'[t[i]]
  <2> SUFFICES ASSUME NEW i \in 1 .. n + 1 PROVE item'[t[i]] OBVIOUS
  <2>1. CASE i = 1 BY <2>1, <1>2
  <2>2. CASE i # 1
    <3>1. i - 1 \in 1 .. n /\ t[i] = s[i - 1] BY <1>1, <2>2
    <3>2. s[i - 1] \in Workers /\ item[s[i - 1]] BY <3>1, <1>1
    <3> QED BY <3>1, <3>2, <1>2
  <2> QED BY <2>1, <2>2
<1>8. \A v \in Workers : item'[v] => \E i \in 1 .. n + 1 : t[i] = v
  <2> SUFFICES ASSUME NEW v \in Workers, item'[v] PROVE \E i \in 1 .. n + 1 : t[i] = v OBVIOUS
  <2>1. CASE v = w
    <3>1. 1 \in 1 .. n + 1 /\ t[1] = v BY <1>1, <2>1
    <3> QED BY <3>1
  <2>2. CASE v # w
    <3>1. PICK i \in 1 .. n : s[i] = v BY <1>1, <1>2, <2>2
    <3>2. i + 1 \in 1 .. n + 1 /\ t[i + 1] = s[i] BY <1>1
    <3> QED BY <3>1, <3>2
  <2> QED BY <2>1, <2>2
<1>9. ASSUME NEW i \in 1 .. n + 1
      PROVE  /\ next'[t[i]] = IF i = n + 1 THEN None ELSE t[i + 1]
             /\ prev'[t[i]] = IF i = 1 THEN None ELSE t[i - 1]
  <2>1. CASE i = 1
    <3>1. t[i] = w /\ next'[w] = head /\ prev'[w] = None BY <1>2, <2>1
    <3>2. n # 0 => t[2] = s[1] BY <1>1
    <3> QED BY <1>1, <2>1, <3>1, <3>2
  <2>2. CASE i # 1
    <3>1. i - 1 \in 1 .. n /\ t[i] = s[i - 1] BY <1>1, <2>2
    <3>2. next'[t[i]] = next[s[i - 1]] BY <3>1, <1>1, <1>2, <1>4
    <3>3. next[s[i - 1]] = IF i - 1 = n THEN None ELSE s[i] BY <3>1, <1>1
    <3>4. i - 1 # n => t[i + 1] = s[i] BY <1>1, <3>1
    <3>5. prev'[t[i]] = IF s[i - 1] = head THEN w ELSE prev[s[i - 1]] BY <3>1, <1>1, <1>2, <1>4
    <3>6. s[i - 1] = head <=> i = 2
      <4>1. n # 0 /\ 1 \in 1 .. n BY <1>1, <3>1
      <4> QED BY <4>1, <3>1, <1>1
    <3>7. i # 2 => t[i - 1] = s[i - 2] /\ prev[s[i - 1]] = s[i - 2] BY <3>1, <1>1
    <3>8. i = 2 => t[i - 1] = w BY <1>1
    <3> QED BY <1>1, <2>2, <3>1, <3>2, <3>3, <3>4, <3>5, <3>6, <3>7, <3>8
  <2> QED BY <2>1, <2>2
<1>10. t[1] = w /\ n + 1 \in Nat /\ n + 1 # 0 BY <1>1
<1> HIDE DEF t
<1>11. Order(t)' BY <1>2, <1>5, <1>6, <1>7, <1>8, <1>9, <1>10, OrderBy
<1> QED BY <1>3, <1>11

\* WorkerItem::pop takes an item out, wherever it is.
LEMMA PopOrder ==
    ASSUME PointerType, NEW s, Order(s), NEW w \in Workers, item[w], PopItem(w)
    PROVE  PointerType' /\ \E t : Order(t)'
<1> USE ThreadsAssumption
<1> DEFINE n == Len(s)
<1>1. /\ n \in Nat
      /\ \A i \in 1 .. n : s[i] \in Workers /\ item[s[i]]
      /\ \A i, j \in 1 .. n : s[i] = s[j] => i = j
      /\ \A v \in Workers : item[v] => \E i \in 1 .. n : s[i] = v
      /\ head = IF n = 0 THEN None ELSE s[1]
      /\ \A i \in 1 .. n : /\ next[s[i]] = IF i = n THEN None ELSE s[i + 1]
                           /\ prev[s[i]] = IF i = 1 THEN None ELSE s[i - 1]
    BY OrderFacts
<1>2. /\ head' = IF w = head THEN next[w] ELSE head
      /\ \A v \in Workers : next'[v] = IF v = w THEN None ELSE IF v = prev[w] THEN next[w] ELSE next[v]
      /\ \A v \in Workers : prev'[v] = IF v = w THEN None ELSE IF v = next[w] THEN prev[w] ELSE prev[v]
      /\ \A v \in Workers : item'[v] = IF v = w THEN FALSE ELSE item[v]
    BY DEF PopItem, PointerType
<1>3. PointerType' BY DEF PopItem, PointerType
<1> HIDE DEF n
<1>4. PICK k \in 1 .. n : s[k] = w BY <1>1
<1> DEFINE at(j) == IF j < k THEN j ELSE j + 1
          t == [j \in 1 .. n - 1 |-> s[at(j)]]
<1>5. /\ k \in Nat /\ n - 1 \in Nat
      /\ \A j \in 1 .. n - 1 : at(j) \in 1 .. n /\ at(j) # k
      /\ \A i, j \in 1 .. n - 1 : at(i) = at(j) => i = j
    BY <1>1
<1>6. /\ next[w] = IF k = n THEN None ELSE s[k + 1]
      /\ prev[w] = IF k = 1 THEN None ELSE s[k - 1]
    BY <1>1, <1>4
<1>7. \A i \in 1 .. n : s[i] = w <=> i = k BY <1>1, <1>4
<1>8. /\ \A i \in 1 .. n : s[i] = next[w] <=> i = k + 1
      /\ \A i \in 1 .. n : s[i] = prev[w] <=> i = k - 1
    BY <1>1, <1>6
<1>9. /\ \A i \in 1 .. n : i # k => next'[s[i]] = IF i = k - 1 THEN next[w] ELSE next[s[i]]
      /\ \A i \in 1 .. n : i # k => prev'[s[i]] = IF i = k + 1 THEN prev[w] ELSE prev[s[i]]
    BY <1>1, <1>2, <1>7, <1>8
<1>10. t \in [1 .. n - 1 -> Workers] BY <1>1, <1>5
<1>11. \A i \in 1 .. n - 1 : t[i] = s[at(i)] OBVIOUS
<1> HIDE DEF t
<1>12. \A i, j \in 1 .. n - 1 : t[i] = t[j] => i = j BY <1>1, <1>5, <1>11
<1>13. \A i \in 1 .. n - 1 : item'[t[i]]
  <2> SUFFICES ASSUME NEW i \in 1 .. n - 1 PROVE item'[t[i]] OBVIOUS
  <2>1. s[at(i)] \in Workers /\ item[s[at(i)]] /\ s[at(i)] # w BY <1>1, <1>5, <1>7
  <2> QED BY <1>2, <1>11, <2>1
<1>14. \A v \in Workers : item'[v] => \E i \in 1 .. n - 1 : t[i] = v
  <2> SUFFICES ASSUME NEW v \in Workers, item'[v] PROVE \E i \in 1 .. n - 1 : t[i] = v OBVIOUS
  <2>1. item[v] /\ v # w BY <1>2
  <2>2. PICK i \in 1 .. n : s[i] = v BY <1>1, <2>1
  <2>3. i # k BY <1>4, <2>1, <2>2
  <2>4. CASE i < k
    <3>1. i \in 1 .. n - 1 /\ at(i) = i BY <1>1, <1>5, <2>4
    <3> QED BY <1>11, <2>2, <3>1
  <2>5. CASE i > k
    <3>1. i - 1 \in 1 .. n - 1 /\ at(i - 1) = i BY <1>1, <1>5, <2>5
    <3> QED BY <1>11, <2>2, <3>1
  <2> QED BY <1>1, <1>5, <2>3, <2>4, <2>5
<1>15. ASSUME NEW i \in 1 .. n - 1
       PROVE  /\ next'[t[i]] = IF i = n - 1 THEN None ELSE t[i + 1]
              /\ prev'[t[i]] = IF i = 1 THEN None ELSE t[i - 1]
  <2>1. at(i) \in 1 .. n /\ at(i) # k /\ t[i] = s[at(i)] BY <1>5, <1>11
  <2>2. /\ next'[t[i]] = IF at(i) = k - 1 THEN next[w] ELSE next[s[at(i)]]
        /\ prev'[t[i]] = IF at(i) = k + 1 THEN prev[w] ELSE prev[s[at(i)]]
      BY <1>9, <2>1
  <2>3. /\ next[s[at(i)]] = IF at(i) = n THEN None ELSE s[at(i) + 1]
        /\ prev[s[at(i)]] = IF at(i) = 1 THEN None ELSE s[at(i) - 1]
      BY <1>1, <2>1
  <2>4. i # n - 1 => t[i + 1] = s[at(i + 1)] BY <1>5, <1>11
  <2>5. i # 1 => t[i - 1] = s[at(i - 1)] BY <1>5, <1>11
  <2>6. next'[t[i]] = IF i = n - 1 THEN None ELSE t[i + 1]
    BY <1>1, <1>5, <1>6, <2>1, <2>2, <2>3, <2>4
  <2>7. prev'[t[i]] = IF i = 1 THEN None ELSE t[i - 1] BY <1>1, <1>5, <1>6, <2>1, <2>2, <2>3, <2>5
  <2> QED BY <2>6, <2>7
<1>16. head' = IF n - 1 = 0 THEN None ELSE t[1]
  <2>1. n # 0 /\ head = s[1] /\ (w = head <=> k = 1) BY <1>1, <1>5, <1>7
  <2>2. n - 1 # 0 => t[1] = s[at(1)] BY <1>1, <1>11
  <2> QED BY <1>1, <1>2, <1>5, <1>6, <2>1, <2>2
<1> HIDE DEF at
<1>17. Order(t)' BY <1>5, <1>10, <1>12, <1>13, <1>14, <1>15, <1>16, OrderBy
<1> QED BY <1>3, <1>17

\* An item leads to an item, or to the end.
LEMMA NextItem ==
    ASSUME Listed
    PROVE  /\ head # None => head \in Workers /\ item[head]
           /\ \A w \in Workers : item[w] /\ next[w] # None => next[w] \in Workers /\ item[next[w]]
<1>1. PICK s : Order(s) BY DEF Listed
<1>2. /\ Len(s) \in Nat
      /\ \A i \in 1 .. Len(s) : s[i] \in Workers /\ item[s[i]]
      /\ \A w \in Workers : item[w] => \E i \in 1 .. Len(s) : s[i] = w
      /\ head = IF Len(s) = 0 THEN None ELSE s[1]
      /\ \A i \in 1 .. Len(s) : next[s[i]] = IF i = Len(s) THEN None ELSE s[i + 1]
    BY <1>1, OrderFacts
<1>3. head # None => head \in Workers /\ item[head] BY <1>2
<1>4. ASSUME NEW w \in Workers, item[w], next[w] # None PROVE next[w] \in Workers /\ item[next[w]]
  <2>1. PICK i \in 1 .. Len(s) : s[i] = w BY <1>2, <1>4
  <2>2. i + 1 \in 1 .. Len(s) /\ next[w] = s[i + 1] BY <1>2, <1>4, <2>1
  <2> QED BY <1>2, <2>2
<1> QED BY <1>3, <1>4

\* A step that leaves the list alone.
LEMMA SameList ==
    ASSUME Listed, UNCHANGED list, \A p \in All : AtHand(p)'
    PROVE  Listed'
<1>1. PICK s : Order(s) BY DEF Listed
<1>2. Order(s)' BY <1>1 DEF Order, Linked, list
<1>3. PointerType' BY DEF Listed, PointerType, list
<1> QED BY <1>2, <1>3 DEF Listed

Own == {"addPop", "addLock", "add", "addItem", "closePop"}
Walking == {"pub", "pubClaim", "pubSend"}

\* The handler l goes on with the worker w, and the list stays.
LEMMA HandStep ==
    ASSUME Shapes, Listed, NEW l \in All, NEW y, NEW w, NEW t,
           th' = [th EXCEPT ![l] = At(y, w, t)], UNCHANGED list,
           y \in Walking => (y = "pub" /\ w = None) \/ (w \in Workers /\ item[w]),
           y \in Own => w \in Workers /\ Home[w] = l,
           y \in {"addPop", "closePop"} => item[w]
    PROVE  Listed'
<1>1. th'[l] = At(y, w, t) /\ \A p \in All : p # l => th'[p] = th[p] BY ThreadStep
<1>2. item' = item BY DEF list
<1> SUFFICES ASSUME NEW p \in All PROVE AtHand(p)' BY SameList
<1>3. AtHand(p) BY DEF Listed
<1> QED BY <1>1, <1>2, <1>3 DEF AtHand, At, Own, Walking

\* The handler l goes on to where the worker at hand does not matter.
LEMMA PlainStep ==
    ASSUME Shapes, Listed, NEW l \in All, NEW y, Moves(l, y), y \notin Own \cup Walking,
           UNCHANGED list
    PROVE  Listed'
<1>1. PICK w, t : th' = [th EXCEPT ![l] = At(y, w, t)] BY DEF Moves
<1>2. y \notin Own /\ y \notin Walking /\ y \notin {"addPop", "closePop"} BY DEF Own
<1> QED BY <1>1, <1>2, HandStep

\* The handler l changes the place of its worker in the list, which nobody
\* walks, and goes on to y.
LEMMA ListStep ==
    ASSUME Shapes, Held, Listed, NEW l \in All, NEW y, NEW v, NEW t, locks.list = None,
           th' = [th EXCEPT ![l] = At(y, v, t)], NEW w \in Workers, Home[w] = l,
           \/ item[w] /\ PopItem(w)
           \/ ~item[w] /\ PushItem(w),
           y \in {"idle", "addLock"}, y = "addLock" => v = w
    PROVE  Listed'
<1>1. th'[l] = At(y, v, t) /\ \A p \in All : p # l => th'[p] = th[p] BY ThreadStep
<1>2. PICK s : Order(s) BY DEF Listed
<1>3. PointerType BY DEF Listed
<1>4. PointerType' /\ \E r : Order(r)' BY <1>2, <1>3, PushOrder, PopOrder
<1>5. \A u \in Workers : u # w => item'[u] = item[u] BY <1>3 DEF PopItem, PushItem, PointerType
<1>6. \A p \in All : th[p].pc \notin Walking
  <2>1. "list" \in LockNames /\ Holding("list") = Walking BY DEF LockNames, Holding, Walking
  <2> QED BY <2>1, ThreadsAssumption DEF Held
<1>7. ASSUME NEW p \in All PROVE AtHand(p)'
  <2>1. AtHand(p) /\ th[p].pc \notin Walking BY <1>6 DEF Listed
  <2>2. CASE p = l BY <1>1, <2>2 DEF AtHand, At
  <2>3. CASE p # l
    <3>1. th'[p] = th[p] BY <1>1, <2>3
    <3>2. th[p].pc \in Own => th[p].w # w BY <2>1, <2>3 DEF AtHand, Own
    <3> QED BY <1>5, <2>1, <3>1, <3>2 DEF AtHand, Own, Walking
  <2> QED BY <2>2, <2>3
<1> QED BY <1>4, <1>7 DEF Listed

\* Every step keeps the list.
LEMMA ListedStep ==
    ASSUME Shapes, Held, Listed, [Next]_vars
    PROVE  Listed'
<1>0. Timer \in All /\ Service \in All /\ (\A l \in Threads : l \in All) /\ \A w \in Workers : Home[w] \in All
    BY ThreadsAssumption DEF All
<1>1. ASSUME NEW l \in Threads, CallStart(l) PROVE Listed'
  <2>1. UNCHANGED list BY <1>1 DEF CallStart
  <2>2. Moves(l, "call") BY <1>1 DEF CallStart, Go, Moves
  <2> QED BY <1>0, <2>1, <2>2, PlainStep DEF Own, Walking
<1>2. ASSUME NEW l \in Threads, PubStart(l) PROVE Listed'
  <2>1. th' = [th EXCEPT ![l] = At("pub", head, << >>)] /\ UNCHANGED list BY <1>2 DEF PubStart, Go
  <2>2. "pub" \notin Own /\ "pub" \in Walking BY DEF Own, Walking
  <2> QED BY <1>0, <2>1, <2>2, HandStep, NextItem
<1>3. ASSUME NEW l \in Threads, CallPop(l) PROVE Listed'
  <2>1. UNCHANGED list BY <1>3 DEF CallPop
  <2>2. Moves(l, "call") \/ Moves(l, "callClaim") \/ UNCHANGED th BY <1>3 DEF CallPop, Go, Moves
  <2>3. CASE UNCHANGED th BY <2>1, <2>3, SameList DEF Listed, AtHand, list
  <2> QED BY <1>0, <2>1, <2>2, <2>3, PlainStep DEF Own, Walking
<1>4. ASSUME NEW l \in Threads, CallClaim(l) PROVE Listed'
  <2>1. UNCHANGED list BY <1>4 DEF CallClaim
  <2>2. Moves(l, "callSend") \/ Moves(l, "call") BY <1>4 DEF CallClaim, Claim, Moves
  <2> QED BY <1>0, <2>1, <2>2, PlainStep DEF Own, Walking
<1>5. ASSUME NEW l \in Threads, CallSend(l) PROVE Listed'
  <2>1. UNCHANGED list BY <1>5 DEF CallSend
  <2>2. Moves(l, "idle") \/ Moves(l, "callNet") BY <1>5 DEF CallSend, End, Go, Rest, Moves
  <2> QED BY <1>0, <2>1, <2>2, PlainStep DEF Own, Walking
<1>6. ASSUME NEW l \in Threads, CallNet(l) PROVE Listed'
  <2>1. UNCHANGED list BY <1>6 DEF CallNet
  <2>2. Moves(l, "idle") BY <1>6 DEF CallNet, End, Rest, Moves
  <2> QED BY <1>0, <2>1, <2>2, PlainStep DEF Own, Walking
<1>7. ASSUME NEW l \in Threads, CallQueued(l) PROVE Listed'
  <2>1. UNCHANGED list BY <1>7 DEF CallQueued
  <2>2. Moves(l, "idle") BY <1>7 DEF CallQueued, End, Rest, Moves
  <2> QED BY <1>0, <2>1, <2>2, PlainStep DEF Own, Walking
<1>8. ASSUME NEW l \in Threads, PubNext(l) PROVE Listed'
  <2>1. /\ \/ th' = [th EXCEPT ![l] = At("pubClaim", th[l].w, << >>)]
           \/ th' = [th EXCEPT ![l] = At("pub", next[th[l].w], << >>)]
        /\ UNCHANGED list
      BY <1>8 DEF PubNext, Go
  <2>2. th[l].w \in Workers /\ item[th[l].w] BY <1>8, <1>0 DEF PubNext, Listed, AtHand
  <2>3. next[th[l].w] # None => next[th[l].w] \in Workers /\ item[next[th[l].w]] BY <2>2, NextItem
  <2> QED BY <1>0, <2>1, <2>2, <2>3, HandStep DEF Own, Walking
<1>9. ASSUME NEW l \in Threads, PubClaim(l) PROVE Listed'
  <2>1. /\ \/ th' = [th EXCEPT ![l] = At("pubSend", th[l].w, << >>)]
           \/ th' = [th EXCEPT ![l] = At("pub", next[th[l].w], << >>)]
        /\ UNCHANGED list
      BY <1>9 DEF PubClaim, Claim
  <2>2. th[l].w \in Workers /\ item[th[l].w] BY <1>9, <1>0 DEF PubClaim, Listed, AtHand
  <2>3. next[th[l].w] # None => next[th[l].w] \in Workers /\ item[next[th[l].w]] BY <2>2, NextItem
  <2> QED BY <1>0, <2>1, <2>2, <2>3, HandStep DEF Own, Walking
<1>10. ASSUME NEW l \in Threads, PubSend(l) PROVE Listed'
  <2>1. th' = [th EXCEPT ![l] = At("pub", next[th[l].w], << >>)] /\ UNCHANGED list
      BY <1>10 DEF PubSend, Go
  <2>2. th[l].w \in Workers /\ item[th[l].w] BY <1>10, <1>0 DEF PubSend, Listed, AtHand
  <2>3. next[th[l].w] # None => next[th[l].w] \in Workers /\ item[next[th[l].w]] BY <2>2, NextItem
  <2> QED BY <1>0, <2>1, <2>2, <2>3, HandStep DEF Own, Walking
<1>11. ASSUME NEW l \in Threads, PubEnd(l) PROVE Listed'
  <2>1. UNCHANGED list BY <1>11 DEF PubEnd
  <2>2. Moves(l, "idle") BY <1>11 DEF PubEnd, End, Rest, Moves
  <2> QED BY <1>0, <2>1, <2>2, PlainStep DEF Own, Walking
<1>12. ASSUME NEW l \in Threads, AddPop(l) PROVE Listed'
  <2>1. /\ th' = [th EXCEPT ![l] = At("addLock", th[l].w, << >>)]
        /\ PopItem(th[l].w) /\ locks.list = None /\ th[l].pc = "addPop"
      BY <1>12 DEF AddPop, Go
  <2>2. th[l].w \in Workers /\ Home[th[l].w] = l /\ item[th[l].w]
      BY <1>0, <2>1 DEF Listed, AtHand
  <2> QED BY <1>0, <2>1, <2>2, ListStep
<1>13. ASSUME NEW l \in Threads, AddLock(l) PROVE Listed'
  <2>1. th' = [th EXCEPT ![l] = At("add", th[l].w, << >>)] /\ UNCHANGED list
    BY <1>13 DEF AddLock, Go
  <2>2. th[l].w \in Workers /\ Home[th[l].w] = l BY <1>13, <1>0 DEF AddLock, Listed, AtHand
  <2> QED BY <1>0, <2>1, <2>2, HandStep DEF Own, Walking
<1>14. ASSUME NEW l \in Threads, Add(l) PROVE Listed'
  <2>1. th' = [th EXCEPT ![l] = At("addItem", th[l].w, << >>)] /\ UNCHANGED list
    BY <1>14 DEF Add, Go
  <2>2. th[l].w \in Workers /\ Home[th[l].w] = l BY <1>14, <1>0 DEF Add, Listed, AtHand
  <2> QED BY <1>0, <2>1, <2>2, HandStep DEF Own, Walking
<1>15. ASSUME NEW l \in Threads, AddItem(l) PROVE Listed'
  <2>1. th' = [th EXCEPT ![l] = At("idle", None, << >>)] BY <1>15 DEF AddItem, End, Rest
  <2>2. th[l].w \in Workers /\ Home[th[l].w] = l BY <1>15, <1>0 DEF AddItem, Listed, AtHand
  <2>3. \/ UNCHANGED list
        \/ ~item[th[l].w] /\ locks.list = None /\ PushItem(th[l].w)
      BY <1>15 DEF AddItem
  <2>4. CASE UNCHANGED list BY <1>0, <2>1, <2>4, PlainStep DEF Moves, Own, Walking
  <2> QED BY <1>0, <2>1, <2>2, <2>3, <2>4, ListStep
<1>16. ASSUME NEW l \in Threads, ClosePop(l) PROVE Listed'
  <2>1. /\ th' = [th EXCEPT ![l] = At("idle", None, << >>)]
        /\ PopItem(th[l].w) /\ locks.list = None /\ th[l].pc = "closePop"
      BY <1>16 DEF ClosePop, Rest
  <2>2. th[l].w \in Workers /\ Home[th[l].w] = l /\ item[th[l].w]
      BY <1>0, <2>1 DEF Listed, AtHand
  <2> QED BY <1>0, <2>1, <2>2, ListStep
<1>17. ASSUME NEW w \in Workers, AddStart(w) PROVE Listed'
  <2>1. /\ \/ th' = [th EXCEPT ![Home[w]] = At("addPop", w, << >>)] /\ item[w]
           \/ th' = [th EXCEPT ![Home[w]] = At("addLock", w, << >>)]
           \/ UNCHANGED th
        /\ UNCHANGED list
      BY <1>17 DEF AddStart, Go
  <2>2. CASE UNCHANGED th BY <2>1, <2>2, SameList DEF Listed, AtHand, list
  <2>3. CASE th' = [th EXCEPT ![Home[w]] = At("addPop", w, << >>)] /\ item[w]
      BY <1>17, <1>0, <2>1, <2>3, HandStep DEF Own, Walking
  <2>4. CASE th' = [th EXCEPT ![Home[w]] = At("addLock", w, << >>)]
    <3>1. "addLock" \in Own /\ "addLock" \notin Walking /\ "addLock" \notin {"addPop", "closePop"}
        BY DEF Own, Walking
    <3> QED BY <1>17, <1>0, <2>1, <2>4, <3>1, HandStep
  <2> QED BY <2>1, <2>2, <2>3, <2>4
<1>18. ASSUME NEW w \in Workers, Deliver(w) PROVE Listed'
  <2>1. UNCHANGED list BY <1>18 DEF Deliver
  <2>2. UNCHANGED th BY <1>18 DEF Deliver, Moves
  <2>3. CASE UNCHANGED th BY <2>1, <2>3, SameList DEF Listed, AtHand, list
  <2> QED BY <1>0, <2>1, <2>2, <2>3, PlainStep DEF Own, Walking
<1>19. ASSUME NEW w \in Workers, Result(w) PROVE Listed'
  <2>1. UNCHANGED list BY <1>19 DEF Result
  <2>2. UNCHANGED th BY <1>19 DEF Result, Moves
  <2>3. CASE UNCHANGED th BY <2>1, <2>3, SameList DEF Listed, AtHand, list
  <2> QED BY <1>0, <2>1, <2>2, <2>3, PlainStep DEF Own, Walking
<1>20. ASSUME NEW w \in Workers, RecvEarly(w) PROVE Listed'
  <2>1. UNCHANGED list BY <1>20 DEF RecvEarly
  <2>2. UNCHANGED th BY <1>20 DEF RecvEarly, Moves
  <2>3. CASE UNCHANGED th BY <2>1, <2>3, SameList DEF Listed, AtHand, list
  <2> QED BY <1>0, <2>1, <2>2, <2>3, PlainStep DEF Own, Walking
<1>21. ASSUME NEW w \in Workers, Close(w) PROVE Listed'
  <2>1. /\ \/ th' = [th EXCEPT ![Home[w]] = At("closePop", w, << >>)] /\ item[w]
           \/ UNCHANGED th
        /\ UNCHANGED list
      BY <1>21 DEF Close, Go
  <2>2. CASE UNCHANGED th BY <2>1, <2>2, SameList DEF Listed, AtHand, list
  <2> QED BY <1>0, <2>1, <2>2, HandStep DEF Own, Walking
<1>22. ASSUME TimeoutStart PROVE Listed'
  <2>1. UNCHANGED list BY <1>22 DEF TimeoutStart
  <2>2. Moves(Timer, "timeoutLock") BY <1>22 DEF TimeoutStart, Go, Moves
  <2> QED BY <1>0, <2>1, <2>2, PlainStep DEF Own, Walking
<1>23. ASSUME CleanStart PROVE Listed'
  <2>1. UNCHANGED list BY <1>23 DEF CleanStart
  <2>2. Moves(Service, "cleanLock") BY <1>23 DEF CleanStart, Go, Moves
  <2> QED BY <1>0, <2>1, <2>2, PlainStep DEF Own, Walking
<1>24. ASSUME TimeoutLock PROVE Listed'
  <2>1. UNCHANGED list BY <1>24 DEF TimeoutLock
  <2>2. Moves(Timer, "timeout") BY <1>24 DEF TimeoutLock, Go, Moves
  <2> QED BY <1>0, <2>1, <2>2, PlainStep DEF Own, Walking
<1>25. ASSUME TimeoutNext PROVE Listed'
  <2>1. UNCHANGED list BY <1>25 DEF TimeoutNext
  <2>2. Moves(Timer, "timeout") \/ Moves(Timer, "timeoutClaim") BY <1>25 DEF TimeoutNext, Go, Moves
  <2> QED BY <1>0, <2>1, <2>2, PlainStep DEF Own, Walking
<1>26. ASSUME TimeoutClaim PROVE Listed'
  <2>1. UNCHANGED list BY <1>26 DEF TimeoutClaim
  <2>2. Moves(Timer, "timeoutSend") \/ Moves(Timer, "timeout")
    BY <1>26 DEF TimeoutClaim, Claim, Moves
  <2> QED BY <1>0, <2>1, <2>2, PlainStep DEF Own, Walking
<1>27. ASSUME TimeoutSend PROVE Listed'
  <2>1. UNCHANGED list BY <1>27 DEF TimeoutSend
  <2>2. Moves(Timer, "dead") \/ Moves(Timer, "timeout") BY <1>27 DEF TimeoutSend, Go, Moves
  <2> QED BY <1>0, <2>1, <2>2, PlainStep DEF Own, Walking
<1>28. ASSUME TimeoutEnd PROVE Listed'
  <2>1. UNCHANGED list BY <1>28 DEF TimeoutEnd
  <2>2. Moves(Timer, "idle") BY <1>28 DEF TimeoutEnd, End, Rest, Moves
  <2> QED BY <1>0, <2>1, <2>2, PlainStep DEF Own, Walking
<1>29. ASSUME CleanLock PROVE Listed'
  <2>1. UNCHANGED list BY <1>29 DEF CleanLock
  <2>2. Moves(Service, "clean") BY <1>29 DEF CleanLock, Go, Moves
  <2> QED BY <1>0, <2>1, <2>2, PlainStep DEF Own, Walking
<1>30. ASSUME Clean PROVE Listed'
  <2>1. UNCHANGED list BY <1>30 DEF Clean
  <2>2. Moves(Service, "idle") BY <1>30 DEF Clean, End, Rest, Moves
  <2> QED BY <1>0, <2>1, <2>2, PlainStep DEF Own, Walking
<1>31. CASE UNCHANGED vars BY <1>31, SameList DEF vars, Listed, AtHand, list
<1> QED BY <1>1, <1>2, <1>3, <1>4, <1>5, <1>6, <1>7, <1>8, <1>9, <1>10, <1>11, <1>12, <1>13,
    <1>14, <1>15, <1>16, <1>17, <1>18, <1>19, <1>20, <1>21, <1>22, <1>23, <1>24, <1>25, <1>26,
    <1>27, <1>28, <1>29, <1>30, <1>31 DEF Next, Begin, Continue

-----------------------------------------------------------------------------
(* Theorems *)

\* All of it is inductive.
Inductive == Shapes /\ Held /\ OneAnswerEach /\ Listed

LEMMA InductiveInit ==
    ASSUME Init
    PROVE  Inductive
<1> USE ThreadsAssumption DEF Init, Rest, At
<1>1. Shapes BY DEF Shapes, Statuses, LockNames
<1>2. Held BY DEF Held, LockNames, Holding
<1>3. OneAnswerEach BY DEF OneAnswerEach, WorkerOk, HandlerOk, Single, Asking, Claims, Leaves
<1>4. Listed
  <2>1. PointerType BY DEF PointerType
  <2>2. Order(<< >>) BY DEF Order, Linked
  <2>3. \A p \in All : AtHand(p) BY DEF AtHand
  <2> QED BY <2>1, <2>2, <2>3 DEF Listed
<1> QED BY <1>1, <1>2, <1>3, <1>4 DEF Inductive

LEMMA InductiveStep ==
    ASSUME Inductive, [Next]_vars
    PROVE  Inductive'
  BY ShapesStep, HeldStep, OneAnswerStep, ListedStep DEF Inductive

LEMMA InductiveAlways == Spec => []Inductive
  BY InductiveInit, InductiveStep, PTL DEF Spec

\* Every worker that asks gets one answer: whichever of client_request, pub
\* and _check_timeout finds it waiting, in whatever order they look at it and
\* claim it, one of them answers.
THEOREM ClaimedOnceHolds == Spec => []ClaimedOnce
<1>1. ASSUME Inductive PROVE ClaimedOnce
  <2> SUFFICES ASSUME NEW w \in Workers
               PROVE  /\ owed[w] \in {0, 1}
                      /\ status[w] = "worker_wait_job" => owed[w] = 1
                      /\ Cardinality({p \in All : /\ th[p].w = w
                           /\ th[p].pc \in {"callSend", "pubSend", "timeoutSend"}}) <= 1
      BY DEF ClaimedOnce
  <2> DEFINE C == {p \in All : th[p].w = w /\ th[p].pc \in {"callSend", "pubSend", "timeoutSend"}}
  <2>1. WorkerOk(w) /\ \A p, q \in All : Single(p, q, w) BY <1>1 DEF Inductive, OneAnswerEach
  <2>2. \A p, q \in C : p = q BY <2>1 DEF Single, Claims
  <2> HIDE DEF C
  <2>3. Cardinality(C) <= 1
    <3>1. CASE C = {} BY <3>1, FS_EmptySet
    <3>2. CASE C # {}
      <4>1. PICK p : p \in C BY <3>2
      <4>2. C = {p} BY <2>2, <4>1
      <4>3. Cardinality({p}) = 1 BY FS_Singleton
      <4> QED BY <4>2, <4>3
    <3> QED BY <3>1, <3>2
  <2> QED BY <2>1, <2>3 DEF WorkerOk, C
<1> QED BY <1>1, InductiveAlways, PTL

\* The list of connected workers is a list of exactly these, whoever enters
\* and leaves it, and pub stands on none that has left.
THEOREM ListIntactHolds == Spec => []ListIntact
<1>1. ASSUME Inductive PROVE ListIntact
  <2>1. PICK s : Order(s) BY <1>1 DEF Inductive, Listed
  <2> DEFINE S == {w \in Workers : item[w]}
  <2>2. /\ Len(s) \in Nat
        /\ \A i \in 1 .. Len(s) : s[i] \in Workers /\ item[s[i]]
        /\ \A i, j \in 1 .. Len(s) : s[i] = s[j] => i = j
        /\ \A w \in Workers : item[w] => \E i \in 1 .. Len(s) : s[i] = w
      BY <2>1, OrderFacts
  <2>3. s \in [1 .. Len(s) -> S] BY <2>1, <2>2 DEF Order
  <2>4. s \in Bijection(1 .. Len(s), S)
    <3>1. DOMAIN s = 1 .. Len(s) /\ IsInjective(s) BY <2>2, <2>3 DEF IsInjective
    <3>2. \A w \in S : \E i \in 1 .. Len(s) : s[i] = w BY <2>2
    <3> HIDE DEF S
    <3> QED BY <2>3, <3>1, <3>2 DEF Bijection, Injection, Surjection
  <2>5. IsFiniteSet(1 .. Len(s)) /\ Cardinality(1 .. Len(s)) = Len(s) BY <2>2, FS_Interval
  <2>6. Cardinality(S) = Len(s) BY <2>4, <2>5, FS_Bijection DEF ExistsBijection
  <2>7. s \in SetToSeqs(S) BY <2>2, <2>3, <2>6 DEF SetToSeqs
  <2>8. Linked(s) BY <2>1 DEF Order
  <2>9. \A l \in Threads : th[l].pc \in {"pub", "pubClaim", "pubSend"} /\ th[l].w # None =>
                              item[th[l].w]
      BY <1>1 DEF Inductive, Listed, AtHand, All
  <2> QED BY <2>7, <2>8, <2>9 DEF ListIntact
<1> QED BY <1>1, InductiveAlways, PTL

\* The locks that the next step of a handler at pc waits for.
Waits(pc) ==
    CASE pc \in {"addPop", "addItem", "closePop"} -> {"list"}
      [] pc \in {"addLock", "timeoutLock"} -> {"queue"}
      [] pc = "cleanLock" -> {"global"}
      [] OTHER -> {}

\* Mutual exclusion, and no circle of handlers that wait for each other: as
\* long as a handler is not finished, one of them is at a step that waits for
\* no lock, or for a free one.  The locks are taken in the order global_lock,
\* mutex of the queue, lock of the list; the exception is a loop that has died
\* with global_lock.
Unblocked ==
    /\ \A k \in LockNames : \A p, q \in All :
          th[p].pc \in Holding(k) /\ th[q].pc \in Holding(k) => p = q
    /\ (\E p \in All : th[p].pc # "idle") /\ (\A p \in All : th[p].pc # "dead") =>
          \E p \in All : /\ th[p].pc # "idle"
                         /\ \A k \in Waits(th[p].pc) : locks[k] = None

\* The handlers of several loops and the service thread exclude each other
\* and never wait in a circle.
THEOREM UnblockedHolds == Spec => []Unblocked
<1>1. ASSUME Inductive PROVE Unblocked
  <2>1. \A k \in LockNames : \A p \in All : th[p].pc \in Holding(k) <=> locks[k] = p
      BY <1>1 DEF Inductive, Held
  <2>2. \A k \in LockNames : locks[k] \in All \cup {None} BY <1>1 DEF Inductive, Shapes
  <2>3. \A k \in LockNames : \A p, q \in All :
          th[p].pc \in Holding(k) /\ th[q].pc \in Holding(k) => p = q
      BY <2>1
  <2>4. ASSUME NEW r \in All, th[r].pc # "idle", \A p \in All : th[p].pc # "dead"
        PROVE  \E p \in All : /\ th[p].pc # "idle"
                              /\ \A k \in Waits(th[p].pc) : locks[k] = None
    <3> USE DEF LockNames
    <3>1. CASE locks["list"] # None
      <4>1. PICK p \in All : th[p].pc \in Holding("list") BY <2>1, <2>2, <3>1
      <4>2. th[p].pc # "idle" /\ Waits(th[p].pc) = {} BY <4>1 DEF Holding, Waits
      <4> QED BY <4>2
    <3>2. CASE locks["list"] = None /\ locks["queue"] # None
      <4>1. PICK p \in All : th[p].pc \in Holding("queue") BY <2>1, <2>2, <3>2
      <4>2. th[p].pc # "idle" /\ Waits(th[p].pc) \subseteq {"list"} BY <4>1 DEF Holding, Waits
      <4> QED BY <3>2, <4>2
    <3>3. CASE locks["list"] = None /\ locks["queue"] = None /\ locks["global"] # None
      <4>1. PICK p \in All : th[p].pc \in Holding("global") BY <2>1, <2>2, <3>3
      <4>2. th[p].pc # "idle" /\ Waits(th[p].pc) \subseteq {"queue"}
          BY <2>4, <4>1 DEF Holding, Waits
      <4> QED BY <3>3, <4>2
    <3>4. CASE locks["list"] = None /\ locks["queue"] = None /\ locks["global"] = None
      <4>1. Waits(th[r].pc) \subseteq LockNames BY DEF Waits
      <4> QED BY <2>4, <3>4, <4>1
    <3> QED BY <3>1, <3>2, <3>3, <3>4
  <2> QED BY <2>3, <2>4 DEF Unblocked
<1> QED BY <1>1, InductiveAlways, PTL
=============================================================================
