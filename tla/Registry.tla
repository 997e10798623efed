------------------------------ MODULE Registry ------------------------------
(***************************************************************************)
(* How a name becomes a queue: Mapper (a trie that is read without a lock  *)
(* while it is changed), Server::get_queue and the part of                 *)
(* Server::delete_queue that touches the registry, run by several loop     *)
(* threads, and Service::_free_memory, which frees the buffers that the    *)
(* trie has outgrown.                                                      *)
(*                                                                         *)
(* A step of a thread is one access to shared memory, and accesses are     *)
(* seen in their order by all threads.  What runs under global_lock is     *)
(* split only where a thread without the lock can see the difference.      *)
(* Mapper::mutex is taken only under global_lock and is left out.          *)
(*                                                                         *)
(* _free_memory sleeps 10 ms before it frees: it is assumed that a find    *)
(* which runs when the sleep starts has ended when it ends.                *)
(***************************************************************************)
EXTENDS Naturals, SequencesExt

CONSTANTS
    Loops,      \* the loop threads
    Keys,       \* the names that are asked for: sequences of characters
    Asked,      \* what each thread may be asked for: "find", "create", "delete" and a name
    FirstCap,   \* nodes in the first buffer of the trie (4 in the code)
    BigCap,     \* from this capacity on it grows by Extra (512)
    Extra,      \*                                          (256)
    None

Star == "*"
Chars == (UNION {ToSet(k) : k \in Keys}) \ {Star}

ASSUME KeysAssumption ==
    /\ \A k \in Keys : k \in Seq(Chars \cup {Star})
    /\ Asked \in [Loops -> SUBSET ({"find", "create", "delete"} \X Keys)]
    /\ None \notin Keys \cup Loops

ASSUME CapAssumption ==
    /\ FirstCap \in Nat \ {0}
    /\ BigCap \in Nat
    /\ Extra \in Nat \ {0}

VARIABLES
    mem,        \* the buffers of the trie: sequences of nodes
    abuf,       \* the published one
    buf_t,      \* the one that add has made, 0 if none
    size,       \* Mapper::_size, the nodes in use
    queues,     \* _queue_list: names, None for an empty slot
    vcap,       \* the capacity of the vector _queue_list
    lock,       \* the holder of global_lock
    freeList,   \* _free_list
    taken,      \* the buffers that the service thread is about to free
    waited,     \* threads whose find runs since the service took the list
    freed,      \* buffers that were freed
    th,         \* threads
    stable,     \* history: nothing changed what the thread asks for
    quiet       \* history: no queue was deleted, no slot read while the vector moved

trie == <<mem, abuf, buf_t, size>>
service == <<freeList, taken, waited, freed>>
vars == <<trie, queues, vcap, lock, service, th, stable, quiet>>

EmptyStep == [end |-> 0, std |-> 0, k |-> [c \in Chars |-> 0]]

Idle == [pc |-> "idle", op |-> None, key |-> << >>, ptr |-> 0, step |-> 0, i |-> 0,
         std |-> 0, n |-> 0, base |-> 0, want |-> None, got |-> None]

\* Mapper::Mapper
Init ==
    /\ mem = <<[n \in 1 .. FirstCap |-> EmptyStep]>>
    /\ abuf = 1 /\ buf_t = 0 /\ size = 1
    /\ queues = << >> /\ vcap = 0
    /\ lock = None
    /\ freeList = {} /\ taken = {} /\ waited = {} /\ freed = {}
    /\ th = [l \in Loops |-> Idle]
    /\ stable = [l \in Loops |-> TRUE]
    /\ quiet = [l \in Loops |-> TRUE]

-----------------------------------------------------------------------------
(* Mapper::find on the published buffer, without interruption *)

\* The nodes of B on the way along the name, 0 where the way has ended.
Nodes(B, key) ==
    LET node[i \in 0 .. Len(key)] ==
            IF i = 0 THEN 1
            ELSE IF node[i - 1] = 0 \/ key[i] = Star THEN 0 ELSE B[node[i - 1]].k[key[i]]
    IN  node

Walk(key) ==
    LET B == mem[abuf]
        node == Nodes(B, key)
        stds == {i \in 0 .. Len(key) : node[i] # 0 /\ B[node[i]].std # 0}
    IN  IF node[Len(key)] # 0 /\ B[node[Len(key)]].end # 0 THEN B[node[Len(key)]].end
        ELSE IF stds = {} THEN 0 ELSE B[node[Max(stds)]].std

\* The queue that a lookup without interruption would yield.
Lookup(key) == IF Walk(key) = 0 THEN None ELSE queues[Walk(key)]

-----------------------------------------------------------------------------
(* get_queue: the find without a lock *)

Finding(l) == th[l].pc \in {"std", "next"}

\* A request comes in: the find loads abuf.
GetQueue(l, op, key) ==
    /\ th[l].pc = "idle" /\ op \in {"find", "create"}
    /\ th' = [th EXCEPT ![l] = [Idle EXCEPT !.pc = "std", !.op = op, !.key = key,
                                            !.ptr = abuf, !.step = 1, !.want = Lookup(key)]]
    /\ UNCHANGED <<trie, queues, vcap, lock, service>>

ReadStd(l) ==
    LET t == th[l]
        s == mem[t.ptr][t.step].std
    IN  /\ t.pc = "std"
        /\ th' = [th EXCEPT ![l].pc = "next", ![l].std = IF s # 0 THEN s ELSE @]
        /\ UNCHANGED <<trie, queues, vcap, lock, service>>

\* The find ends with the value n.
Found(l, n) ==
    [th EXCEPT ![l].n = n, ![l].ptr = 0, ![l].step = 0, ![l].std = 0, ![l].i = 0,
               ![l].pc = IF n # 0 THEN "slot"
                         ELSE IF th[l].op = "create" THEN "lock" ELSE "done"]

\* Mutant: a pattern is forgotten when the trie ends before the name.
NotFoundZero(t) == 0

NotFound(t) == t.std

ReadNext(l) ==
    LET t == th[l]
        s == mem[t.ptr][t.step]
        next == IF t.key[t.i + 1] = Star THEN 0 ELSE s.k[t.key[t.i + 1]]
    IN  /\ t.pc = "next"
        /\ th' = IF t.i >= Len(t.key) THEN Found(l, IF s.end # 0 THEN s.end ELSE t.std)
                 ELSE IF next = 0 THEN Found(l, NotFound(t))
                 ELSE [th EXCEPT ![l].pc = "std", ![l].i = @ + 1, ![l].step = next]
        /\ waited' = IF th'[l].pc = "std" THEN waited ELSE waited \ {l}
        /\ UNCHANGED <<trie, queues, vcap, lock, freeList, taken, freed>>

\* _queue_list[n-1] without the lock: the address of the vector's array ...
ReadBase(l) ==
    /\ th[l].pc = "slot"
    /\ th' = [th EXCEPT ![l].pc = "read", ![l].base = vcap]
    /\ UNCHANGED <<trie, queues, vcap, lock, service>>

\* ... and the element, which may be anything if the array was replaced.
ReadSlot(l) ==
    /\ th[l].pc = "read"
    /\ \E q \in IF th[l].base = vcap THEN {queues[th[l].n]} ELSE Keys \cup {None} :
          th' = [th EXCEPT ![l].pc = "done", ![l].got = q, ![l].n = 0, ![l].base = 0]
    /\ UNCHANGED <<trie, queues, vcap, lock, service>>

Return(l) ==
    /\ th[l].pc = "done"
    /\ th' = [th EXCEPT ![l] = Idle]
    /\ UNCHANGED <<trie, queues, vcap, lock, service>>

-----------------------------------------------------------------------------
(* get_queue: a new queue *)

\* Mutant: the second find is left out.
FindLockedNot(key) == 0

FindLocked(key) == Walk(key)

\* global_lock is taken, the name looked up again.
LockAndFind(l) ==
    LET n == FindLocked(th[l].key)
    IN  /\ th[l].pc = "lock" /\ lock = None
        /\ IF n # 0
           THEN /\ th' = [th EXCEPT ![l].pc = "done", ![l].got = queues[n]]
                /\ UNCHANGED lock
           ELSE /\ th' = [th EXCEPT ![l].pc = "assign"]
                /\ lock' = l
        /\ UNCHANGED <<trie, queues, vcap, service>>

FreeSlots == {i \in DOMAIN queues : queues[i] = None}

\* The first free slot, or a new one.
AssignSlot(l) ==
    LET n == IF FreeSlots # {} THEN Min(FreeSlots) ELSE Len(queues) + 1
    IN  /\ th[l].pc = "assign"
        /\ queues' = IF FreeSlots # {} THEN [queues EXCEPT ![n] = th[l].key]
                     ELSE Append(queues, th[l].key)
        /\ vcap' = IF n > vcap THEN Max({1, 2 * vcap}) ELSE vcap
        /\ th' = [th EXCEPT ![l].pc = "add", ![l].n = n, ![l].step = 1, ![l].i = 0]
        /\ UNCHANGED <<trie, lock, service>>

\* get_step_t: the buffer that add writes to.
Target == IF buf_t = 0 THEN abuf ELSE buf_t

\* Mutant: the last node is not copied.
GrownShort(buf) ==
    [n \in 1 .. 2 * Len(buf) |-> IF n < Len(buf) THEN buf[n] ELSE EmptyStep]

\* Mapper::_next with the capacity it needs: the trie in a larger buffer.
Grown(buf) ==
    LET cap == Len(buf)
        new == IF cap >= BigCap THEN cap + Extra ELSE cap * 2
    IN  [n \in 1 .. new |-> IF n <= cap THEN buf[n] ELSE EmptyStep]

\* The first buffer that add makes, with the link from s to the new node.
NewBuffer(s, c) == Append(mem, [Grown(mem[abuf]) EXCEPT ![s].k[c] = size + 1])

\* One character of the name: the node behind it exists, or is made; when
\* the buffer is full, in a new buffer or in the one that add has made.
AddChar(l) ==
    LET t == th[l]
        c == t.key[t.i + 1]
        next == mem[Target][t.step].k[c]
        full == size + 1 > Len(mem[Target])
        go(n) == [th EXCEPT ![l].step = n, ![l].i = @ + 1]
    IN  /\ t.pc = "add" /\ t.i < Len(t.key) /\ c # Star
        /\ IF next # 0
           THEN th' = go(next) /\ UNCHANGED trie
           ELSE /\ size' = size + 1
                /\ th' = go(size + 1)
                /\ IF ~full
                   THEN /\ mem' = [mem EXCEPT ![Target][t.step].k[c] = size + 1]
                        /\ UNCHANGED buf_t
                   ELSE IF buf_t # 0
                   THEN /\ mem' = [mem EXCEPT ![buf_t] =
                                      [Grown(@) EXCEPT ![t.step].k[c] = size + 1]]
                        /\ UNCHANGED buf_t
                   ELSE /\ mem' = NewBuffer(t.step, c)
                        /\ buf_t' = Len(mem) + 1
                /\ UNCHANGED abuf
        /\ UNCHANGED <<queues, vcap, lock, service>>

\* get_queue returns the new queue.
Created(l) ==
    [th EXCEPT ![l].pc = "done", ![l].got = th[l].key, ![l].n = 0, ![l].step = 0, ![l].i = 0]

\* The end of the name, or a star: the value is written.
AddValue(l) ==
    LET t == th[l]
    IN  /\ t.pc = "add"
        /\ t.i < Len(t.key) => t.key[t.i + 1] = Star
        /\ mem' = IF t.i = Len(t.key) THEN [mem EXCEPT ![Target][t.step].end = t.n]
                  ELSE [mem EXCEPT ![Target][t.step].std = t.n]
        /\ IF buf_t = 0
           THEN th' = Created(l) /\ lock' = None
           ELSE th' = [th EXCEPT ![l].pc = "publish"] /\ UNCHANGED lock
        /\ UNCHANGED <<abuf, buf_t, size, queues, vcap, service>>

Publish(l) ==
    /\ th[l].pc = "publish"
    /\ abuf' = buf_t /\ buf_t' = 0
    /\ th' = [th EXCEPT ![l].pc = "retire", ![l].ptr = abuf]
    /\ UNCHANGED <<mem, size, queues, vcap, lock, service>>

\* Mutant: the old buffer is freed at once.
RetireAtOnce(l) ==
    /\ th[l].pc = "retire"
    /\ freed' = freed \cup {th[l].ptr}
    /\ mem' = [mem EXCEPT ![th[l].ptr] = << >>]
    /\ th' = [Created(l) EXCEPT ![l].ptr = 0]
    /\ lock' = None
    /\ UNCHANGED <<abuf, buf_t, size, queues, vcap, freeList, taken, waited>>

Retire(l) ==
    /\ th[l].pc = "retire"
    /\ freeList' = freeList \cup {th[l].ptr}
    /\ th' = [Created(l) EXCEPT ![l].ptr = 0]
    /\ lock' = None
    /\ UNCHANGED <<trie, queues, vcap, taken, waited, freed>>

-----------------------------------------------------------------------------
(* delete_queue *)

\* The name up to its first star, where Mapper::add and del stop.
Pattern(key) == \E i \in DOMAIN key : key[i] = Star
Stem(key) ==
    IF Pattern(key) THEN SubSeq(key, 1, Min({i \in DOMAIN key : key[i] = Star}) - 1) ELSE key

\* Its node, 0 if it is not there.
NodeOf(key) == Nodes(mem[abuf], Stem(key))[Len(Stem(key))]

\* global_lock is taken and Mapper::del clears the value.
DeleteQueue(l, op, key) ==
    LET s == NodeOf(key)
        n == IF s = 0 THEN 0 ELSE IF Pattern(key) THEN mem[abuf][s].std ELSE mem[abuf][s].end
    IN  /\ th[l].pc = "idle" /\ op = "delete" /\ lock = None
        /\ n # 0
        /\ mem' = IF Pattern(key) THEN [mem EXCEPT ![abuf][s].std = 0]
                  ELSE [mem EXCEPT ![abuf][s].end = 0]
        /\ lock' = l
        /\ th' = [th EXCEPT ![l] = [Idle EXCEPT !.pc = "drop", !.op = op, !.n = n]]
        /\ UNCHANGED <<abuf, buf_t, size, queues, vcap, service>>

DropSlot(l) ==
    /\ th[l].pc = "drop"
    /\ queues' = [queues EXCEPT ![th[l].n] = None]
    /\ lock' = None
    /\ th' = [th EXCEPT ![l] = Idle]
    /\ UNCHANGED <<trie, vcap, service>>

-----------------------------------------------------------------------------
(* The service thread: _free_memory *)

TakeList ==
    /\ taken = {} /\ freeList # {}
    /\ taken' = freeList
    /\ freeList' = {}
    /\ waited' = {l \in Loops : Finding(l)}
    /\ UNCHANGED <<trie, queues, vcap, lock, th, freed>>

\* Mutant: no sleep between taking the list and freeing.
GraceNot == TRUE

\* The 10 ms are over, see above.
Grace == waited = {}

\* The contents of a freed buffer are not looked at any more.
Free ==
    /\ taken # {} /\ Grace
    /\ freed' = freed \cup taken
    /\ taken' = {} /\ waited' = {}
    /\ mem' = [g \in DOMAIN mem |-> IF g \in taken THEN << >> ELSE mem[g]]
    /\ UNCHANGED <<abuf, buf_t, size, queues, vcap, lock, freeList, th>>

-----------------------------------------------------------------------------

LoopStep(l) ==
    \/ \E r \in Asked[l] : GetQueue(l, r[1], r[2]) \/ DeleteQueue(l, r[1], r[2])
    \/ ReadStd(l) \/ ReadNext(l) \/ ReadBase(l) \/ ReadSlot(l) \/ Return(l)
    \/ LockAndFind(l) \/ AssignSlot(l) \/ AddChar(l) \/ AddValue(l) \/ Publish(l) \/ Retire(l)
    \/ DropSlot(l)

\* What the history variables record of a step.
History ==
    /\ stable' = [l \in Loops |->
                    \/ th[l].pc = "idle"
                    \/ stable[l] /\ Lookup(th[l].key)' = Lookup(th[l].key)
                                 /\ (th[l].pc = "read" => vcap' = vcap)]
    /\ quiet' = [l \in Loops |->
                    \/ th[l].pc = "idle"
                    \/ /\ quiet[l]
                       /\ \A k \in Loops : th'[k].op # "delete"
                       /\ th[l].pc = "read" => vcap' = vcap]

Next == ((\E l \in Loops : LoopStep(l)) \/ TakeList \/ Free) /\ History

Spec == Init /\ [][Next]_vars

-----------------------------------------------------------------------------
(* Properties *)

Names == ToSet(queues) \ {None}
Patterns(key) == {n \in Names : Pattern(n) /\ IsPrefix(Stem(n), key)}

\* The name that serves a key: itself, or the longest pattern that fits.
BestName(key) ==
    IF key \in Names /\ ~Pattern(key) THEN key
    ELSE IF Patterns(key) = {} THEN None
    ELSE CHOOSE n \in Patterns(key) : \A m \in Patterns(key) : Len(Stem(m)) <= Len(Stem(n))

\* When nobody changes the registry, the trie knows every queue by its name
\* and no other, and finds the best one for a key (Mapper::find).
FindsBest == lock = None => \A key \in Keys : Lookup(key) = BestName(key)

\* No two queues have the same name, however many loops ask for it at a time
\* (the second find in get_queue).
OneQueuePerName ==
    \A i, j \in DOMAIN queues : queues[i] = queues[j] /\ queues[i] # None => i = j

\* get_queue, without a lock on its way: what it returns is the queue that
\* serves the name, if that queue was the same all the time, whatever else
\* was added or deleted; and if nothing was deleted, a name that is to be
\* created always yields a queue that serves it.
GetQueueRight ==
    \A l \in Loops : th[l].pc = "done" =>
        /\ stable[l] => th[l].got = th[l].want
        /\ quiet[l] /\ th[l].op = "create" =>
              th[l].got = th[l].key \/ th[l].got \in Patterns(th[l].key)

\* A find never reads a buffer of the trie that was freed (_free_memory).
NoUseAfterFree == \A l \in Loops : Finding(l) => th[l].ptr \notin freed

\* A find that started in a buffer that add has outgrown meets no link to a
\* node that only the larger buffer has (get_step_t after _next).
ReadsInBounds == \A l \in Loops : Finding(l) => th[l].step \in DOMAIN mem[th[l].ptr]
=============================================================================
