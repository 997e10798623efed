-------------------------- MODULE BrokerProperties --------------------------
(***************************************************************************)
(* What makes the broker correct: every request has one answer, no call    *)
(* and no wakeup is lost, results reach their callers, and a Connect is    *)
(* deleted when, and only when, nothing points to it.                      *)
(***************************************************************************)
EXTENDS Broker

\* Every variable has its type.
TypeOK ==
    /\ conn \in [Conns -> ConnType]
    /\ queue \in [Names -> QueueType]
    /\ wait \in [AllIds -> Conns \cup {None}]
    /\ adding \in [conn : Conns \cup {None}, names : Seq(Names)]
    /\ adding.conn = None <=> adding.names = << >>
    /\ alive \in BOOLEAN
    /\ owed \in [Conns -> Int]
    /\ calls \in [Conns -> 0 .. MaxCalls]
    /\ asked \in [Conns -> SUBSET Names]
    /\ given \in [Job -> Nat]
    /\ task \in [Conns \cup AllIds -> Job \cup {None}]

\* The positions F[n] in each queue n.
Entries(F) == UNION {{n} \X F[n] : n \in Names}

\* The places that hold a pointer to connection c.
WorkerRefs(c) ==
    Entries([n \in Names |-> {i \in DOMAIN queue[n].workers : queue[n].workers[i] = c}])
MessageRefs(c) ==
    Entries([n \in Names |-> {i \in DOMAIN queue[n].clients : queue[n].clients[i].conn = c}])
WaitRefs(c) == {i \in AllIds : wait[i] = c}
ClientRefs(c) == {w \in Conns : conn[w].client = c}

\* Connect::_link is the number of pointers to the connection: the table of
\* connections, the queues, wait_response, the workers that serve it and its
\* place in a list of connected workers.  Every link() has its unlink().
LinkCounts ==
    alive => \A c \in Conns :
        conn[c].link = (IF conn[c].sock = "open" THEN 1 ELSE 0)
                       + Cardinality(WorkerRefs(c)) + Cardinality(MessageRefs(c))
                       + Cardinality(WaitRefs(c)) + Cardinality(ClientRefs(c))
                       + (IF conn[c].item # None THEN 1 ELSE 0)

\* A deleted Connect is not reachable from any queue, table or worker, so
\* nothing uses it after Loop::_delete_connections.
FreedUnreferenced ==
    \A c \in Conns : conn[c].sock = "freed" =>
        /\ WorkerRefs(c) = {} /\ MessageRefs(c) = {} /\ WaitRefs(c) = {}
        /\ ClientRefs(c) = {} /\ conn[c].item = None

Open(c) == conn[c].sock = "open"
Waiting(c) == conn[c].status \in {"worker_wait_job", "client_wait_result", "busy"}
Answering(c) == conn[c].out = 1 \/ (conn[c].out = 0 /\ conn[c].wr /\ conn[c].dm > 0)

\* Each request gets exactly one answer: a connection that is owed an answer
\* either waits for it or has it in its send buffer, never both, and one
\* that is owed nothing is ready for its next request.
OneAnswer ==
    \A c \in Conns : Open(c) /\ c # adding.conn =>
        /\ owed[c] = IF Waiting(c) \/ Answering(c) THEN 1 ELSE 0
        /\ ~(Waiting(c) /\ Answering(c))
        /\ conn[c].out <= 1

\* A call is handed to at most one worker, and not while it is still queued.
HandedOnce ==
    /\ \A j \in Job : given[j] <= 1
    /\ \A n \in Names : \A i \in DOMAIN queue[n].clients : given[queue[n].clients[i].job] = 0

CurrentCall(c) == <<c, calls[c]>>

\* The answer a worker is about to give goes to the caller of the job it
\* was handed, while that caller still waits for it: no entry of
\* wait_response and no client pointer survives into a later call.
RoutedToCaller ==
    /\ \A i \in AllIds : wait[i] # None /\ Open(wait[i]) =>
          task[i] = CurrentCall(wait[i]) /\ Waiting(wait[i])
    /\ \A w \in Conns :
          conn[w].status = "worker_wait_result" /\ Open(w) /\ conn[w].client # None
            /\ Open(conn[w].client) =>
          task[w] = CurrentCall(conn[w].client) /\ Waiting(conn[w].client)

\* No call is lost: a client that waits for a result is queued, or
\* registered under its id, or served by a worker; exactly one of these.
NoLostCall ==
    \A c \in Conns :
        Open(c) /\ conn[c].status \in {"client_wait_result", "busy"} =>
            Cardinality(MessageRefs(c)) + Cardinality(WaitRefs(c))
              + Cardinality({w \in ClientRefs(c) : conn[w].status = "worker_wait_result"}) = 1

WaitsAt(w, n) ==
    Open(w) /\ conn[w].status = "worker_wait_job" /\ n \in asked[w] /\ queue[n].ex

\* No wakeup is lost: a worker that waits is in every queue it asked for, and
\* no call that it could take is queued there.
NoLostWakeup ==
    adding = Idle => \A w \in Conns, n \in Names : WaitsAt(w, n) =>
        /\ w \in Members(queue[n].workers)
        /\ \A i \in DOMAIN queue[n].clients :
              LET m == queue[n].clients[i] IN
              ~ (m.req \in {None, conn[w].cid}
                 /\ (m.conn = None
                     \/ (Open(m.conn) /\ conn[m.conn].status = "client_wait_result")))

\* Messages wait in the order of their priority.
PriorityOrder ==
    \A n \in Names : \A i, j \in DOMAIN queue[n].clients :
        i < j => queue[n].clients[i].prio >= queue[n].clients[j].prio

\* The messages of a queue that stay keep their order, and a new one stands
\* in front of those of lower priority only.
KeepsOrder ==
    \A n \in Names :
        LET s == queue[n].clients
            t == queue'[n].clients
        IN  /\ \A i, j \in DOMAIN t : \A k, l \in DOMAIN s :
                 t[i].job = s[k].job /\ t[j].job = s[l].job /\ k < l => i < j
            /\ \A i, j \in DOMAIN t :
                 (t[i].job \notin {m.job : m \in Members(s)} /\ i < j
                    /\ t[j].job \in {m.job : m \in Members(s)}) => t[i].prio > t[j].prio

\* Among equal priorities the order is that of arrival: no insertion and no
\* erasure in the middle of the deque, by any handler or by the service
\* thread, changes the order of the calls that were queued before.
FirstComeFirstServed == [][KeepsOrder]_vars

\* The loop thread never ends: no exception leaves Loop::_close.
LoopAlive == alive

\* Connect::unlink asserts that the count does not fall below zero.
LinkNotNegative == \A c \in Conns : conn[c].link >= 0

\* A published message reaches every worker that waits for the queue.
PubReachesAll ==
    [][\A c \in Conns : \A r \in Requests[c] : RecvPub(c, r) =>
         \A w \in Conns : WaitsAt(w, r.names[1]) => conn'[w].dm = conn[w].dm + 1]_vars
=============================================================================
