-------------------------------- MODULE Loops --------------------------------
(***************************************************************************)
(* Several loop threads and the service thread on one queue: who may claim *)
(* a waiting worker, the list of connected workers, and the locks.  What   *)
(* is answered to whom is the matter of Broker; here a call is a number,   *)
(* and a step is what a thread does between two accesses to state that     *)
(* another thread may change.                                              *)
(*                                                                         *)
(* Locks: global_lock, the mutex of the queue, the lock of its WorkerList. *)
(* Under Connect::mutex only the status is read and set, so that is one    *)
(* step.  Workers ask for one queue, without worker mode.                  *)
(***************************************************************************)
EXTENDS Integers, SequencesExt

CONSTANTS
    Threads,    \* the loops
    Service,    \* the service thread
    Timer,      \* the loop that checks timeouts, number 0 in the code
    Workers,    \* connections of workers
    Home,       \* the loop of a worker
    NoId,       \* the workers that ask by get+
    MaxCalls,   \* bound: calls that wait in the queue
    MaxDM,      \* bound: published messages that wait for a worker
    None

All == Threads \cup {Service}

\* Loop 0 is a loop, the service thread is none, and a worker has one loop.
ASSUME ThreadsAssumption ==
    /\ Timer \in Threads /\ Service \notin Threads
    /\ Home \in [Workers -> Threads]
    /\ None \notin Workers \cup All

VARIABLES
    status,     \* Connect::status
    closed,     \* Connect::is_closed
    noid,       \* Connect::noid
    dm, wr,     \* direct_message, its length; write_mode for it
    entries,    \* QueueLine::queue[loop].workers
    calls,      \* queued calls
    head, item, next, prev,     \* WorkerList: its items, one for a worker
    locks,      \* the holders of the locks
    th,         \* threads: where they are, the worker at hand, those to come
    owed        \* history: answers that a worker waits for

list == <<head, item, next, prev>>
vars == <<status, closed, noid, dm, wr, entries, calls, list, locks, th, owed>>

At(pc, w, todo) == [pc |-> pc, w |-> w, todo |-> todo]
Rest == At("idle", None, << >>)

Init ==
    /\ status = [w \in Workers |-> "net"]
    /\ closed = [w \in Workers |-> FALSE]
    /\ noid = [w \in Workers |-> FALSE]
    /\ dm = [w \in Workers |-> 0]
    /\ wr = [w \in Workers |-> FALSE]
    /\ entries = [l \in Threads |-> << >>]
    /\ calls = 0
    /\ head = None
    /\ item = [w \in Workers |-> FALSE]
    /\ next = [w \in Workers |-> None]
    /\ prev = [w \in Workers |-> None]
    /\ locks = [global |-> None, queue |-> None, list |-> None]
    /\ th = [p \in All |-> Rest]
    /\ owed = [w \in Workers |-> 0]

-----------------------------------------------------------------------------
(* Steps that several handlers share *)

Acquire(k, p) == locks[k] = None /\ locks' = [locks EXCEPT ![k] = p]
Go(p, pc, w, todo) == th' = [th EXCEPT ![p] = At(pc, w, todo)]

\* Mutant: the status is not looked at a second time.
ClaimableAlways(w) == TRUE

\* The second look at the status, under Connect::mutex.
Claimable(w) == status[w] = "worker_wait_job"

\* The thread has seen that the worker at hand waits; it claims it and goes
\* to yes, or goes to no.
Claim(p, yes, no) ==
    LET w == th[p].w
    IN  IF Claimable(w)
        THEN status' = [status EXCEPT ![w] = "busy"] /\ th' = [th EXCEPT ![p] = yes]
        ELSE th' = [th EXCEPT ![p] = no] /\ UNCHANGED status

\* The handler ends, or throws, and the locks K are released.
End(p, K) ==
    /\ th' = [th EXCEPT ![p] = Rest]
    /\ locks' = [k \in DOMAIN locks |-> IF k \in K THEN None ELSE locks[k]]

Answer(w) == owed' = [owed EXCEPT ![w] = @ - 1]

-----------------------------------------------------------------------------
(* WorkerList; its lock is free when these steps are taken *)

PushItem(w) ==
    /\ head' = w
    /\ next' = [next EXCEPT ![w] = head]
    /\ prev' = [v \in Workers |-> IF v = w THEN None ELSE IF v = head THEN w ELSE prev[v]]
    /\ item' = [item EXCEPT ![w] = TRUE]

\* Mutant: the items behind the one that leaves keep their prev.
PopItemNext(w) ==
    /\ head' = IF w = head THEN next[w] ELSE head
    /\ next' = [v \in Workers |-> IF v = w THEN None ELSE IF v = prev[w] THEN next[w] ELSE next[v]]
    /\ prev' = [prev EXCEPT ![w] = None]
    /\ item' = [item EXCEPT ![w] = FALSE]

PopItem(w) ==
    /\ head' = IF w = head THEN next[w] ELSE head
    /\ next' = [v \in Workers |-> IF v = w THEN None ELSE IF v = prev[w] THEN next[w] ELSE next[v]]
    /\ prev' = [v \in Workers |-> IF v = w THEN None ELSE IF v = next[w] THEN prev[w] ELSE prev[v]]
    /\ item' = [item EXCEPT ![w] = FALSE]

-----------------------------------------------------------------------------
(* client_request *)

CallStart(l) ==
    /\ th[l].pc = "idle"
    /\ Acquire("queue", l)
    /\ Go(l, "call", None, <<l>> \o SetToSeq(Threads \ {l}))
    /\ UNCHANGED <<status, closed, noid, dm, wr, entries, calls, list, owed>>

\* The next entry, of the caller's loop first.  One that is closed or does
\* not wait is dropped.
CallPop(l) ==
    LET d == th[l].todo[1]
        w == Head(entries[d])
    IN  /\ th[l].pc = "call" /\ th[l].todo # << >>
        /\ IF entries[d] = << >>
           THEN Go(l, "call", None, Tail(th[l].todo)) /\ UNCHANGED entries
           ELSE /\ entries' = [entries EXCEPT ![d] = Tail(@)]
                /\ IF ~closed[w] /\ status[w] = "worker_wait_job"
                   THEN Go(l, "callClaim", w, th[l].todo) ELSE UNCHANGED th
        /\ UNCHANGED <<status, closed, noid, dm, wr, calls, list, locks, owed>>

CallClaim(l) ==
    /\ th[l].pc = "callClaim"
    /\ Claim(l, At("callSend", th[l].w, << >>), At("call", None, th[l].todo))
    /\ UNCHANGED <<closed, noid, dm, wr, entries, calls, list, locks, owed>>

\* The worker gets the call; if it is closed by now, done throws, which
\* ends the request.
CallSend(l) ==
    LET w == th[l].w
    IN  /\ th[l].pc = "callSend"
        /\ status' = IF noid[w] THEN [status EXCEPT ![w] = "worker_wait_result"] ELSE status
        /\ IF closed[w]
           THEN End(l, {"queue"}) /\ UNCHANGED owed
           ELSE /\ Answer(w)
                /\ IF noid[w] THEN End(l, {"queue"})
                   ELSE Go(l, "callNet", w, << >>) /\ UNCHANGED locks
        /\ UNCHANGED <<closed, noid, dm, wr, entries, calls, list>>

CallNet(l) ==
    /\ th[l].pc = "callNet"
    /\ status' = [status EXCEPT ![th[l].w] = "net"]
    /\ End(l, {"queue"})
    /\ UNCHANGED <<closed, noid, dm, wr, entries, calls, list, owed>>

\* No worker: the call is queued.
CallQueued(l) ==
    /\ th[l].pc = "call" /\ th[l].todo = << >>
    /\ calls' = IF calls < MaxCalls THEN calls + 1 ELSE calls
    /\ End(l, {"queue"})
    /\ UNCHANGED <<status, closed, noid, dm, wr, entries, list, owed>>

-----------------------------------------------------------------------------
(* pub *)

PubStart(l) ==
    /\ th[l].pc = "idle"
    /\ Acquire("list", l)
    /\ Go(l, "pub", head, << >>)
    /\ UNCHANGED <<status, closed, noid, dm, wr, entries, calls, list, owed>>

Kept(w) == dm' = IF dm[w] < MaxDM THEN [dm EXCEPT ![w] = @ + 1] ELSE dm

\* The next worker of the list.  One that does not wait, and works without
\* ids, will find the message when it asks again.
PubNext(l) ==
    LET w == th[l].w
    IN  /\ th[l].pc = "pub" /\ w # None
        /\ IF status[w] = "worker_wait_job"
           THEN Go(l, "pubClaim", w, << >>) /\ UNCHANGED dm
           ELSE /\ Go(l, "pub", next[w], << >>)
                /\ IF noid[w] THEN Kept(w) ELSE UNCHANGED dm
        /\ UNCHANGED <<status, closed, noid, wr, entries, calls, list, locks, owed>>

\* Mutant: the mutex of the queue is taken for this, inside of the list's lock.
PubClaimInQueue(l) ==
    LET w == th[l].w
    IN  /\ th[l].pc = "pubClaim" /\ locks.queue = None
        /\ Claim(l, At("pubSend", w, << >>), At("pub", next[w], << >>))
        /\ UNCHANGED <<closed, noid, dm, wr, entries, calls, list, locks, owed>>

PubClaim(l) ==
    LET w == th[l].w
    IN  /\ th[l].pc = "pubClaim"
        /\ Claim(l, At("pubSend", w, << >>), At("pub", next[w], << >>))
        /\ IF noid[w] /\ ~Claimable(w) THEN Kept(w) ELSE UNCHANGED dm
        /\ UNCHANGED <<closed, noid, wr, entries, calls, list, locks, owed>>

PubSend(l) ==
    LET w == th[l].w
    IN  /\ th[l].pc = "pubSend"
        /\ status' = [status EXCEPT ![w] = "net"]
        /\ Kept(w)
        /\ wr' = [wr EXCEPT ![w] = TRUE]
        /\ Go(l, "pub", next[w], << >>)
        /\ UNCHANGED <<closed, noid, entries, calls, list, locks, owed>>

PubEnd(l) ==
    /\ th[l].pc = "pub" /\ th[l].w = None
    /\ End(l, {"list"})
    /\ UNCHANGED <<status, closed, noid, dm, wr, entries, calls, list, owed>>

\* on_send in the worker's loop: one message.
Deliver(w) ==
    /\ th[Home[w]].pc = "idle" /\ ~closed[w] /\ wr[w]
    /\ wr' = [wr EXCEPT ![w] = FALSE]
    /\ dm' = [dm EXCEPT ![w] = @ - 1]
    /\ Answer(w)
    /\ UNCHANGED <<status, closed, noid, entries, calls, list, locks, th>>

-----------------------------------------------------------------------------
(* _add_worker, in the worker's loop *)

\* The worker asks for a task.  A message that waits for it is sent.  An item
\* that was made for a worker with ids is made again.
AddStart(w) ==
    LET l == Home[w]
    IN  /\ th[l].pc = "idle" /\ ~closed[w] /\ status[w] = "net" /\ owed[w] = 0
        /\ owed' = [owed EXCEPT ![w] = 1]
        /\ noid' = [noid EXCEPT ![w] = w \in NoId]
        /\ IF w \notin NoId /\ item[w]
           THEN Go(l, "addPop", w, << >>) /\ UNCHANGED wr
           ELSE IF dm[w] > 0
           THEN wr' = [wr EXCEPT ![w] = TRUE] /\ UNCHANGED th
           ELSE Go(l, "addLock", w, << >>) /\ UNCHANGED wr
        /\ UNCHANGED <<status, closed, dm, entries, calls, list, locks>>

AddPop(l) ==
    /\ th[l].pc = "addPop" /\ locks.list = None
    /\ PopItem(th[l].w)
    /\ dm' = [dm EXCEPT ![th[l].w] = 0]
    /\ Go(l, "addLock", th[l].w, << >>)
    /\ UNCHANGED <<status, closed, noid, wr, entries, calls, locks, owed>>

AddLock(l) ==
    /\ th[l].pc = "addLock"
    /\ Acquire("queue", l)
    /\ Go(l, "add", th[l].w, << >>)
    /\ UNCHANGED <<status, closed, noid, dm, wr, entries, calls, list, owed>>

\* The worker gets a queued call, or waits at the end of its loop's entries.
Add(l) ==
    LET w == th[l].w
        stays(v) == ~closed[v] /\ v # w
    IN  /\ th[l].pc = "add"
        /\ IF calls > 0
           THEN /\ calls' = calls - 1
                /\ status' = [status EXCEPT ![w] = IF noid[w] THEN "worker_wait_result" ELSE "net"]
                /\ Answer(w)
                /\ UNCHANGED entries
           ELSE /\ entries' = [entries EXCEPT ![l] = Append(SelectSeq(@, stays), w)]
                /\ status' = [status EXCEPT ![w] = "worker_wait_job"]
                /\ UNCHANGED <<calls, owed>>
        /\ Go(l, "addItem", w, << >>)
        /\ UNCHANGED <<closed, noid, dm, wr, list, locks>>

\* It enters the list of connected workers, if it is not there.
AddItem(l) ==
    LET w == th[l].w
    IN  /\ th[l].pc = "addItem"
        /\ IF ~item[w] /\ (noid[w] \/ status[w] = "worker_wait_job")
           THEN locks.list = None /\ PushItem(w)
           ELSE UNCHANGED list
        /\ End(l, {"queue"})
        /\ UNCHANGED <<status, closed, noid, dm, wr, entries, calls, owed>>

\* worker_result_noid: the worker returns its result and is answered at once.
Result(w) ==
    /\ th[Home[w]].pc = "idle" /\ ~closed[w]
    /\ status[w] = "worker_wait_result" /\ owed[w] = 0
    /\ status' = [status EXCEPT ![w] = "net"]
    /\ noid' = [noid EXCEPT ![w] = FALSE]
    /\ UNCHANGED <<closed, dm, wr, entries, calls, list, locks, th, owed>>

\* A request that comes before the thread that answered the last one has set
\* the status is only kept in the buffer.
RecvEarly(w) ==
    /\ th[Home[w]].pc = "idle" /\ ~closed[w] /\ status[w] = "busy" /\ owed[w] = 0
    /\ owed' = [owed EXCEPT ![w] = 1]
    /\ UNCHANGED <<status, closed, noid, dm, wr, entries, calls, list, locks, th>>

\* _close and on_disconnect, in the worker's loop.
Close(w) ==
    LET l == Home[w]
    IN  /\ th[l].pc = "idle" /\ ~closed[w]
        /\ closed' = [closed EXCEPT ![w] = TRUE]
        /\ IF item[w] THEN Go(l, "closePop", w, << >>) ELSE UNCHANGED th
        /\ UNCHANGED <<status, noid, dm, wr, entries, calls, list, locks, owed>>

ClosePop(l) ==
    /\ th[l].pc = "closePop" /\ locks.list = None
    /\ PopItem(th[l].w)
    /\ th' = [th EXCEPT ![l] = Rest]
    /\ UNCHANGED <<status, closed, noid, dm, wr, entries, calls, locks, owed>>

-----------------------------------------------------------------------------
(* _check_timeout *)

\* global_lock.try_lock; without it the check is left out.
TimeoutStart ==
    /\ th[Timer].pc = "idle"
    /\ Acquire("global", Timer)
    /\ Go(Timer, "timeoutLock", None, << >>)
    /\ UNCHANGED <<status, closed, noid, dm, wr, entries, calls, list, owed>>

TimeoutLock ==
    /\ th[Timer].pc = "timeoutLock"
    /\ Acquire("queue", Timer)
    /\ Go(Timer, "timeout", None, FlattenSeq([i \in 1 .. Cardinality(Threads) |->
                                               entries[SetToSeq(Threads)[i]]]))
    /\ UNCHANGED <<status, closed, noid, dm, wr, entries, calls, list, owed>>

\* The next entry: its time is over, or not.
TimeoutNext ==
    LET w == th[Timer].todo[1]
        rest == Tail(th[Timer].todo)
    IN  /\ th[Timer].pc = "timeout" /\ th[Timer].todo # << >>
        /\ \/ Go(Timer, "timeout", None, rest)
           \/ ~closed[w] /\ status[w] = "worker_wait_job" /\ Go(Timer, "timeoutClaim", w, rest)
        /\ UNCHANGED <<status, closed, noid, dm, wr, entries, calls, list, locks, owed>>

TimeoutClaim ==
    LET rest == th[Timer].todo
    IN  /\ th[Timer].pc = "timeoutClaim"
        /\ Claim(Timer, At("timeoutSend", th[Timer].w, rest), At("timeout", None, rest))
        /\ UNCHANGED <<closed, noid, dm, wr, entries, calls, list, locks, owed>>

\* If the worker is closed by now, done throws: the mutex of the queue is
\* released, global_lock is not, and the exception ends the loop.
TimeoutSend ==
    LET w == th[Timer].w
    IN  /\ th[Timer].pc = "timeoutSend"
        /\ status' = [status EXCEPT ![w] = "net"]
        /\ IF closed[w]
           THEN /\ Go(Timer, "dead", None, << >>)
                /\ locks' = [locks EXCEPT !.queue = None]
                /\ UNCHANGED owed
           ELSE /\ Go(Timer, "timeout", None, th[Timer].todo)
                /\ Answer(w)
                /\ UNCHANGED locks
        /\ UNCHANGED <<closed, noid, dm, wr, entries, calls, list>>

TimeoutEnd ==
    /\ th[Timer].pc = "timeout" /\ th[Timer].todo = << >>
    /\ End(Timer, {"queue", "global"})
    /\ UNCHANGED <<status, closed, noid, dm, wr, entries, calls, list, owed>>

-----------------------------------------------------------------------------
(* Service::_clean_dead_tasks *)

CleanStart ==
    /\ th[Service].pc = "idle"
    /\ Go(Service, "cleanLock", None, << >>)
    /\ UNCHANGED <<status, closed, noid, dm, wr, entries, calls, list, locks, owed>>

CleanLock ==
    /\ th[Service].pc = "cleanLock"
    /\ Acquire("global", Service)
    /\ Go(Service, "clean", None, << >>)
    /\ UNCHANGED <<status, closed, noid, dm, wr, entries, calls, list, owed>>

\* A queue whose mutex is taken is left out.
Clean ==
    LET waits(w) == ~closed[w] /\ status[w] = "worker_wait_job"
    IN  /\ th[Service].pc = "clean"
        /\ entries' = IF locks.queue = None
                      THEN [l \in Threads |-> SelectSeq(entries[l], waits)] ELSE entries
        /\ End(Service, {"global"})
        /\ UNCHANGED <<status, closed, noid, dm, wr, calls, list, owed>>

-----------------------------------------------------------------------------

\* A handler begins, or is one step long.
Begin ==
    \/ \E l \in Threads : CallStart(l) \/ PubStart(l)
    \/ \E w \in Workers : AddStart(w) \/ Deliver(w) \/ Result(w) \/ RecvEarly(w) \/ Close(w)
    \/ TimeoutStart \/ CleanStart

\* A handler goes on.
Continue ==
    \/ \E l \in Threads :
          \/ CallPop(l) \/ CallClaim(l) \/ CallSend(l) \/ CallNet(l) \/ CallQueued(l)
          \/ PubNext(l) \/ PubClaim(l) \/ PubSend(l) \/ PubEnd(l)
          \/ AddPop(l) \/ AddLock(l) \/ Add(l) \/ AddItem(l) \/ ClosePop(l)
    \/ TimeoutLock \/ TimeoutNext \/ TimeoutClaim \/ TimeoutSend \/ TimeoutEnd
    \/ CleanLock \/ Clean

Next == Begin \/ Continue

Spec == Init /\ [][Next]_vars

-----------------------------------------------------------------------------
(* Properties *)

\* A worker that asks for a task gets one answer: of the threads that find it
\* waiting, in client_request, in pub and in _check_timeout, one claims it.
ClaimedOnce ==
    \A w \in Workers :
        /\ owed[w] \in {0, 1}
        /\ status[w] = "worker_wait_job" => owed[w] = 1
        /\ Cardinality({p \in All : /\ th[p].w = w
                                    /\ th[p].pc \in {"callSend", "pubSend", "timeoutSend"}}) <= 1

\* The items in the order s: next leads from each to the one behind it, prev
\* to the one before it.
Linked(s) ==
    /\ head = IF s = << >> THEN None ELSE s[1]
    /\ \A i \in DOMAIN s : /\ next[s[i]] = IF i = Len(s) THEN None ELSE s[i + 1]
                           /\ prev[s[i]] = IF i = 1 THEN None ELSE s[i - 1]

\* The list that pub walks has every connected worker in it, once, and prev
\* is the way back: nobody misses a message and nothing that was deleted is
\* walked over, whoever leaves the list and in whatever order, not even when
\* pub is on its way through the list.
ListIntact ==
    /\ \E s \in SetToSeqs({w \in Workers : item[w]}) : Linked(s)
    /\ \A l \in Threads : th[l].pc \in {"pub", "pubClaim", "pubSend"} /\ th[l].w # None =>
                            item[th[l].w]

\* Handlers never wait for each other in a circle: as long as one is not
\* finished, one of them can go on.  Not so after a loop has died with
\* global_lock (TimeoutSend).
SomeoneGoesOn ==
    (\E p \in All : th[p].pc # "idle") /\ (\A p \in All : th[p].pc # "dead") => ENABLED Continue
=============================================================================
