------------------------------ MODULE MCBroker ------------------------------
(***************************************************************************)
(* Finite instances of Broker.  Every connection plays a role, and a run   *)
(* chooses what the peers of each role send.                               *)
(***************************************************************************)
EXTENDS BrokerBoard, TLC

CONSTANTS
    Clients, Workers, Others,   \* the connections by role
    a, b,                       \* queues
    i1,                         \* an id
    v1, v2                      \* worker ids

\* Each call has its own id; two calls of one id come from i1 in their bodies.
FreshIds == [j \in Job |-> j]

AllConns == Clients \cup Workers \cup Others

Request ==
    [op |-> "echo", names |-> << >>, id |-> None, json |-> None, prio |-> 0,
     wid |-> None, option |-> None, ping |-> FALSE, ka |-> TRUE]

Rpc(op, n) == [Request EXCEPT !.op = op, !.names = <<n>>]
Result == [Request EXCEPT !.op = "result"]
ResultOf(I) == {[Result EXCEPT !.id = i] : i \in I}

Roles(client, worker, other) ==
    [c \in AllConns |-> IF c \in Clients THEN client
                        ELSE IF c \in Workers THEN worker ELSE other]

\* Two clients may choose the same id in the bodies of their calls.
IdRequests ==
    Roles({Rpc("call", a), [Rpc("call", a) EXCEPT !.json = i1]},
          {Rpc("get", a), [Rpc("get", a) EXCEPT !.option = "fail_on_disconnect"]}
             \cup ResultOf(AllIds),
          {})

\* A client calls again, on its connection or on a new one at its address,
\* by HTTP/1.0 too; one worker returns results by id, the other one without.
RoutingRequests ==
    Roles({Rpc("call", a), [Rpc("call", a) EXCEPT !.ka = FALSE]},
          {[Rpc("get", a) EXCEPT !.option = "fail_on_disconnect"]} \cup ResultOf(Job),
          {Rpc("get+", a), Result, Rpc("worker", a), [Rpc("worker", a) EXCEPT !.option = "stop"]})

\* Priorities, async calls and calls for one worker.
OrderRequests ==
    Roles({Rpc("async", a), [Rpc("async", a) EXCEPT !.prio = 1],
           [Rpc("call", a) EXCEPT !.wid = v1]},
          {Rpc("get", a), [Rpc("get", a) EXCEPT !.wid = v1]},
          {})

\* Publishing to workers of every kind, by two connections, one of which is
\* a waiting worker now and then.  Calls are for the worker v1, which is not in
\* worker mode (see PubWhileServing); async calls are for all.
PubRequests ==
    Roles({[Rpc("call", a) EXCEPT !.wid = v1], Rpc("async", a), Rpc("pub", a)},
          {[Rpc("get", a) EXCEPT !.wid = v1], [Rpc("get+", a) EXCEPT !.wid = v1], Result,
           [Rpc("worker", a) EXCEPT !.wid = v2],
           [Rpc("worker", a) EXCEPT !.wid = v2, !.option = "stop"]},
          {Rpc("pub", a), [Rpc("get", a) EXCEPT !.wid = v2]})

\* Queues created and deleted, timeouts, malformed bodies.
AdminRequests ==
    Roles({Rpc("call", a), [Rpc("call", a) EXCEPT !.json = "malformed"],
           [Rpc("call", a) EXCEPT !.option = "if present"]},
          {[Rpc("get", a) EXCEPT !.ping = TRUE], [Rpc("worker", a) EXCEPT !.json = "malformed"],
           [Request EXCEPT !.op = "get"]},
          {Rpc("create", a), Rpc("delete", a), Request})

\* Workers that list several queues.
NamesRequests ==
    Roles({Rpc("call", a), Rpc("call", b)},
          {[Rpc("get+", a) EXCEPT !.names = <<a, b>>], Result},
          {})

\* Two clients write the same id in the header Id.
SameIdRequests ==
    Roles({[Rpc("call", a) EXCEPT !.id = i1], [Rpc("call", b) EXCEPT !.id = i1]},
          {Rpc("get", a)}, {Rpc("create", a), Rpc("create", b)})

\* A message is published while a worker in worker mode serves a call.
PubWhileServing ==
    Roles({Rpc("call", a)}, {Rpc("worker", a)}, {Rpc("pub", a)})

(***************************************************************************)
(* Liveness.  The server: a thread that can act does (the loop polls every *)
(* 10 ms, the service thread cleans once a second).  The worker: a program *)
(* in a loop, which reconnects, asks for a job and returns its result; as  *)
(* it may also disconnect at any time, strong fairness says that it does   *)
(* not do only that.                                                       *)
(***************************************************************************)
LiveSpec ==
    /\ Spec /\ ServerFairness
    /\ \A k \in Workers :
          /\ WF_vars(Accept(k))
          /\ SF_vars(\E r \in Requests[k] : RecvAdd(k, r))
          /\ SF_vars(\E r \in Requests[k] : r.op = "result" /\ RecvNoId(k, r))

\* Every call is answered, unless its caller disconnects.
CallsAnswered ==
    \A c \in Clients : Open(c) /\ owed[c] = 1 ~> ~Open(c) \/ owed[c] = 0

\* Every closed connection is deleted: no pointer to it stays forever.
ClosedFreed ==
    \A c \in AllConns : conn[c].sock = "closed" ~> conn[c].sock = "freed"

Symmetry == Permutations(Clients) \cup Permutations(Workers)
=============================================================================
