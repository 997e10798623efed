------------------------------- MODULE Broker -------------------------------
(***************************************************************************)
(* The job broker of ijson with one I/O loop (threads = 1): connections,   *)
(* named queues of waiting workers and of queued calls, the wait_response  *)
(* table that routes results by id, worker mode, publish, timeouts, the    *)
(* reference count that decides when a Connect is deleted, and the service *)
(* thread that cleans the queues.                                          *)
(*                                                                         *)
(* The loop thread handles one socket event at a time, so a handler is one *)
(* action.  The exception is Loop::add_worker: it takes and releases the   *)
(* lock of one queue after another, and the service thread may clean a     *)
(* queue in between; each of its iterations is an action (AddWorker), and  *)
(* no other event of the loop happens until the last one is done.          *)
(*                                                                         *)
(* A peer follows HTTP without pipelining: it sends a request when it has  *)
(* been answered.  It may disconnect at any time.                          *)
(***************************************************************************)
EXTENDS Deque

CONSTANTS
    Conns,      \* Connect objects (an address is reused after delete)
    Names,      \* names of queues
    Ids,        \* ids that clients write in their requests
    Wids,       \* worker ids of the headers Set-Id and Worker-Id
    Requests,   \* for each connection, the requests its peer may send
    Generated,  \* the id that generate_id makes for a call
    Uninit,     \* values a bool without initialiser may have
    MaxCalls,   \* bound: calls a connection sends
    MaxDM,      \* bound: published messages that wait in one connection
    None        \* the null pointer, the empty buffer

Job == Conns \X (1 .. MaxCalls)     \* the k-th call sent on a connection
AllIds == Ids \cup Job              \* ids that clients choose, ids of generate_id

Statuses == {"net", "worker_wait_job", "worker_wait_result",
             "client_wait_result", "busy", "worker_mode_async"}

(***************************************************************************)
(* A request after parsing.  names: the queue of a call, or the names a    *)
(* worker lists; id: header Id or the id in the path; json: what a scan of *)
(* the body for the key "id" finds ("malformed": it throws InvalidData);   *)
(* wid: header Worker-Id of a call, Set-Id of a worker; option: the header *)
(* Option, or the option in the body of rpc/add; ka: HTTP/1.1.             *)
(***************************************************************************)
Ops == {"call", "async", "get", "get+", "worker", "result", "pub",
        "create", "delete", "echo"}
RequestType ==
    [op : Ops, names : Seq(Names), id : AllIds \cup {None},
     json : Ids \cup {None, "malformed"}, prio : Int, wid : Wids \cup {None},
     option : {None, "if present", "stop", "fail_on_disconnect"},
     ping : BOOLEAN, ka : BOOLEAN]

ASSUME NoneAssumption == None \notin Conns \cup Names \cup AllIds \cup Wids
ASSUME DistinctAssumption == Conns \cap AllIds = {}
ASSUME RequestsAssumption == Requests \in [Conns -> SUBSET RequestType]
ASSUME NamedAssumption ==
    \A c \in Conns : \A r \in Requests[c] :
        r.op \in {"call", "async", "pub", "create", "delete"} => Len(r.names) = 1
ASSUME GeneratedAssumption == Generated \in [Job -> AllIds]
ASSUME UninitAssumption == Uninit \subseteq BOOLEAN
ASSUME BoundsAssumption == MaxCalls \in Nat /\ MaxDM \in Nat /\ IsFiniteSet(Conns)

VARIABLES
    conn,       \* the Connect objects
    queue,      \* Server::_queue_list with the queues of loop 0
    wait,       \* Server::wait_response
    adding,     \* Loop::add_worker in progress: the worker and the names left
    alive,      \* the loop thread runs (no exception left Loop::_loop)
    owed,       \* history: requests received minus answers written to the socket
    calls,      \* history: calls sent on each connection
    asked,      \* history: the queues named by a worker's last registration
    given,      \* history: how often each call was handed to a worker
    task        \* history: the call last handed to a connection / under an id

brokerVars == <<conn, queue, wait, adding, alive>>
history == <<owed, calls, asked, given, task>>
vars == <<conn, queue, wait, adding, alive, owed, calls, asked, given, task>>

-----------------------------------------------------------------------------
(* Types and initial state *)

ConnType ==
    [sock : {"none", "open", "closed", "freed"}, link : Int, status : Statuses,
     ka : BOOLEAN, noid : BOOLEAN, fail : BOOLEAN, wm : BOOLEAN,
     client : Conns \cup {None}, id : AllIds \cup {None},
     json : Ids \cup {None, "malformed"}, names : Seq(Names),
     item : Names \cup {None}, sub : Names \cup {None}, cid : Wids \cup {None},
     ping : BOOLEAN, dm : Int, out : Int, wr : BOOLEAN]

MsgType == [conn : Conns \cup {None}, prio : Int, req : Wids \cup {None}, job : Job]

QueueType == [ex : BOOLEAN, workers : Seq(Conns), clients : Seq(MsgType)]

\* A Connect as its constructor leaves it; three flags have no initialiser.
NewConn(sock, noid, fail, ka) ==
    [sock |-> sock, link |-> 1, status |-> "net", ka |-> ka, noid |-> noid,
     fail |-> fail, wm |-> FALSE, client |-> None, id |-> None, json |-> None,
     names |-> << >>, item |-> None, sub |-> None, cid |-> None, ping |-> FALSE,
     dm |-> 0, out |-> 0, wr |-> FALSE]

NoQueue == [ex |-> FALSE, workers |-> << >>, clients |-> << >>]

Idle == [conn |-> None, names |-> << >>]

Init ==
    /\ conn = [c \in Conns |-> [NewConn("none", FALSE, FALSE, FALSE) EXCEPT !.link = 0]]
    /\ queue = [n \in Names |-> NoQueue]
    /\ wait = [i \in AllIds |-> None]
    /\ adding = Idle
    /\ alive = TRUE
    /\ owed = [c \in Conns |-> 0]
    /\ calls = [c \in Conns |-> 0]
    /\ asked = [c \in Conns |-> {}]
    /\ given = [j \in Job |-> 0]
    /\ task = [x \in Conns \cup AllIds |-> None]

-----------------------------------------------------------------------------
(* Helpers: connections.  cs is the function of Connect objects. *)

IsClosed(cs, c) == cs[c].sock # "open"
Link(cs, c) == [cs EXCEPT ![c].link = @ + 1]
Unlink(cs, c) == [cs EXCEPT ![c].link = @ - 1]
SetStatus(cs, c, s) == [cs EXCEPT ![c].status = s]

\* HttpSender: the answer is appended to send_buffer and write mode switched on.
Send(cs, c) == [cs EXCEPT ![c].out = @ + 1, ![c].wr = TRUE]

\* Mutant: the worker still counts as waiting.
AfterAsyncStill(cs, w) == "worker_wait_job"

\* What a worker becomes when it is told something that expects no result.
AfterAsync(cs, w) == IF cs[w].wm THEN "worker_mode_async" ELSE "net"

\* WorkerItem::pop and WorkerList::push; the list of queue n is ListOf(cs, n).
PopItem(cs, c) ==
    IF cs[c].item = None THEN cs
    ELSE [cs EXCEPT ![c].item = None, ![c].link = @ - 1]
PushItem(cs, c, n) == [cs EXCEPT ![c].item = n, ![c].link = @ + 1]
\* Mutant: the list forgets the worker without releasing it.
PopListedNoUnlink(cs, c, n) ==
    IF cs[c].item = n THEN [cs[c] EXCEPT !.item = None] ELSE cs[c]

PopListed(cs, c, n) == IF cs[c].item = n THEN PopItem(cs, c)[c] ELSE cs[c]
ListOf(cs, n) == {c \in Conns : cs[c].item = n}

\* client->id, else the id in the body, else a generated one.
CallId(cs, c, j) ==
    IF cs[c].id # None THEN cs[c].id
    ELSE IF cs[c].json \in Ids THEN cs[c].json ELSE Generated[j]

NoIdFound(cs, c) == cs[c].id = None /\ cs[c].json = "malformed"

\* Mutant: a worker with an id takes only what is addressed to it.
EligibleExact(cs, w, req) == req = cs[w].cid

\* A message may name the worker it is for.
Eligible(cs, w, req) == req = None \/ req = cs[w].cid

-----------------------------------------------------------------------------
(* Closing a connection *)

\* Mutant: the client is answered but its link is kept.
ResultClientLinked(cs, ws, i) ==
    IF IsClosed(cs, ws[i]) THEN cs ELSE SetStatus(Send(cs, ws[i]), ws[i], "net")

\* Mutant: the client is answered but still counts as waiting.
ResultClientWaiting(cs, ws, i) ==
    IF IsClosed(cs, ws[i]) THEN Unlink(cs, ws[i]) ELSE Send(Unlink(cs, ws[i]), ws[i])

\* Loop::worker_result: the client registered under id i gets its answer.
ResultClient(cs, ws, i) ==
    LET d == ws[i]
        u == Unlink(cs, d)
    IN  IF IsClosed(cs, d) THEN u ELSE SetStatus(Send(u, d), d, "net")

\* Mutant: a waiting client is unlinked whether or not it is in wait_response.
DropOwnUnchecked(cs, ws, c) ==
    [PopItem(cs, c) EXCEPT
        ![c].sock = "closed", ![c].wr = FALSE, ![c].dm = 0, ![c].out = 0,
        ![c].link = IF cs[c].status = "client_wait_result" THEN @ - 1 ELSE @]

\* Loop::on_disconnect up to the entry of wait_response ...
DropOwn(cs, ws, c) ==
    [PopItem(cs, c) EXCEPT
        ![c].sock = "closed", ![c].wr = FALSE, ![c].dm = 0, ![c].out = 0,
        ![c].link = IF cs[c].status = "client_wait_result" /\ cs[c].id # None
                       /\ ws[cs[c].id] # None
                    THEN @ - 1 ELSE @]

DropEntry(cs, ws, c) ==
    IF cs[c].status = "client_wait_result" /\ cs[c].id # None
    THEN [ws EXCEPT ![cs[c].id] = None] ELSE ws

\* ... the assertions it makes about the client of a no-id worker ...
DisconnectThrows(cs, c) ==
    /\ cs[c].fail /\ cs[c].noid
    /\ (cs[c].status = "worker_wait_result") # (cs[c].client # None)

\* Mutant: the client is released without being told.
FailClientSilent(cs, ws, c) ==
    IF cs[c].fail /\ cs[c].client # None
    THEN [Unlink(cs, cs[c].client) EXCEPT ![c].client = None] ELSE cs

\* ... and what becomes of the client this connection was working for.
FailClient(cs, ws, c) ==
    LET d == cs[c].client
        answered ==
            IF cs[c].noid
            THEN SetStatus(IF IsClosed(cs, d) THEN cs ELSE Send(cs, d), d, "net")
            ELSE IF cs[d].id = None \/ ws[cs[d].id] = None THEN cs
            ELSE ResultClient(cs, ws, cs[d].id)
    IN  IF ~cs[c].fail \/ d = None THEN cs
        ELSE [Unlink(answered, d) EXCEPT ![c].client = None]

\* Mutant: the failed call stays in wait_response.
FailEntryKept(cs, ws, c) == ws

FailEntry(cs, ws, c) ==
    LET d == cs[c].client IN
    IF cs[c].fail /\ ~cs[c].noid /\ d # None /\ cs[d].id # None
    THEN [ws EXCEPT ![cs[d].id] = None] ELSE ws

\* Loop::_close.  An exception of on_disconnect ends the loop thread.
Disconnect(cs, ws, c) ==
    LET cs1 == DropOwn(cs, ws, c)
        ws1 == DropEntry(cs, ws, c)
    IN  IF DisconnectThrows(cs1, c)
        THEN conn' = cs1 /\ wait' = ws1 /\ alive' = FALSE
        ELSE /\ conn' = Unlink(FailClient(cs1, ws1, c), c)
             /\ wait' = FailEntry(cs1, ws1, c)
             /\ alive' = alive

LoopReady == alive /\ adding = Idle

-----------------------------------------------------------------------------
(* Connections *)

\* Server::_accept, on the main thread.
Accept(c) ==
    /\ conn[c].sock \in {"none", "freed"}
    /\ \E noid, fail, ka \in Uninit :
          conn' = [conn EXCEPT ![c] = NewConn("open", noid, fail, ka)]
    /\ owed' = [owed EXCEPT ![c] = 0]
    /\ asked' = [asked EXCEPT ![c] = {}]
    /\ UNCHANGED <<queue, wait, adding, alive, calls, given, task>>

\* recv returns 0, or the socket reports an error or hangup.
PeerClose(c) ==
    /\ LoopReady /\ ~IsClosed(conn, c)
    /\ Disconnect(conn, wait, c)
    /\ owed' = [owed EXCEPT ![c] = 0]
    /\ UNCHANGED <<queue, adding, calls, asked, given, task>>

\* Connect::on_send for a writable socket.  A published message that is sent
\* only in part leaves its rest in send_buffer; a part of send_buffer sent
\* changes nothing here.
OnSend(c) ==
    LET n == IF conn[c].out > 0 THEN conn[c].out ELSE IF conn[c].dm > 0 THEN 1 ELSE 0
        cs == [conn EXCEPT ![c].out = 0, ![c].wr = FALSE,
                           ![c].dm = IF conn[c].out = 0 THEN @ - n ELSE @]
    IN  /\ LoopReady /\ ~IsClosed(conn, c) /\ conn[c].wr
        /\ owed' = [owed EXCEPT ![c] = @ - n]
        /\ IF conn[c].ka
           THEN conn' = cs /\ UNCHANGED <<wait, alive>>
           ELSE Disconnect(cs, wait, c)
        /\ UNCHANGED <<queue, adding, calls, asked, given, task>>

OnSendPart(c) ==
    /\ LoopReady /\ ~IsClosed(conn, c) /\ conn[c].wr
    /\ conn[c].out = 0 /\ conn[c].dm > 0
    /\ conn' = [conn EXCEPT ![c].out = 1, ![c].dm = @ - 1]
    /\ UNCHANGED <<queue, wait, adding, alive, history>>

\* Loop::_delete_connections at the end of a round of events: a connection is
\* put on dead_connections when its count reaches 0.
DeleteConnections ==
    LET dead == {c \in Conns : conn[c].link = 0 /\ conn[c].sock = "closed"}
    IN  /\ LoopReady /\ dead # {}
        /\ conn' = [c \in Conns |-> IF c \in dead THEN [conn[c] EXCEPT !.sock = "freed"]
                                    ELSE conn[c]]
        /\ UNCHANGED <<queue, wait, adding, alive, history>>

-----------------------------------------------------------------------------
(* Receiving a request: Connect::on_recv *)

\* The status in which the data of a connection is parsed.
Ready(cs, c) ==
    \/ cs[c].status = "net"
    \/ cs[c].status = "worker_wait_result" /\ cs[c].noid
    \/ cs[c].status = "worker_mode_async" /\ cs[c].wm

\* What a connection that is no working worker forgets at HTTP_START.
Reset(x) == [x EXCEPT !.client = None, !.noid = FALSE, !.fail = FALSE]

\* What HTTP_START and the headers set.
Headers(x, r) ==
    [x EXCEPT !.id = r.id, !.json = r.json, !.ka = r.ka,
              !.names = IF x.wm THEN @ ELSE << >>,
              !.ping = @ \/ r.ping,
              !.cid = IF r.op \in {"get", "get+", "worker"} /\ r.wid # None THEN r.wid ELSE @]

Start(cs, c, r) ==
    LET d == cs[c].client
        free == IF d = None THEN cs ELSE Unlink(cs, d)
    IN  IF cs[c].status # "worker_wait_result" /\ ~cs[c].wm
        THEN [free EXCEPT ![c] = Headers(Reset(@), r)]
        ELSE [cs EXCEPT ![c] = Headers(@, r)]

StartThrows(cs, c) ==
    \/ cs[c].status # "worker_wait_result" /\ cs[c].wm
       /\ cs[c].status # "worker_mode_async"
    \/ cs[c].status = "worker_wait_result" /\ ~cs[c].noid

\* A request r arrives on connection c; the last conjunct counts it.
Arrives(c, r) ==
    /\ LoopReady /\ ~IsClosed(conn, c)
    /\ owed[c] = 0
    /\ r.op \in {"call", "async"} => calls[c] < MaxCalls
    /\ owed' = [owed EXCEPT ![c] = @ + 1]

Parsed(c, r) == Arrives(c, r) /\ Ready(conn, c) /\ ~StartThrows(conn, c)

\* The data stays in the buffer of the connection until more data arrives.
RecvNotReady(c, r) ==
    /\ Arrives(c, r) /\ ~Ready(conn, c)
    /\ UNCHANGED <<brokerVars, calls, asked, given, task>>

\* An exception of on_recv closes the connection.
RecvThrows(c, r) ==
    /\ Arrives(c, r) /\ Ready(conn, c) /\ StartThrows(conn, c)
    /\ Disconnect([conn EXCEPT ![c].id = None], wait, c)
    /\ UNCHANGED <<queue, adding, calls, asked, given, task>>

RecvEcho(c, r) ==
    /\ Parsed(c, r) /\ r.op = "echo"
    /\ conn' = Send(Start(conn, c, r), c)
    /\ UNCHANGED <<queue, wait, adding, alive, calls, asked, given, task>>

-----------------------------------------------------------------------------
(* Results *)

\* Mutant: the worker keeps its client.
NoIdResultKept(cs, w) ==
    IF IsClosed(cs, cs[w].client) THEN cs
    ELSE Send(SetStatus(cs, cs[w].client, "net"), cs[w].client)

\* Mutant: the client is answered but still counts as waiting.
NoIdResultWaiting(cs, w) ==
    LET u == [Unlink(cs, cs[w].client) EXCEPT ![w].client = None]
    IN  IF IsClosed(cs, cs[w].client) THEN u ELSE Send(u, cs[w].client)

\* Mutant: the result is not sent.
NoIdResultLost(cs, w) ==
    [Unlink(cs, cs[w].client) EXCEPT ![w].client = None, ![cs[w].client].status = "net"]

\* Mutant: the link to the client is not given back.
NoIdResultLinked(cs, w) ==
    LET u == [cs EXCEPT ![w].client = None]
    IN  IF IsClosed(cs, cs[w].client) THEN u
        ELSE Send(SetStatus(u, cs[w].client, "net"), cs[w].client)

\* Loop::worker_result_noid for a worker that has a client.
NoIdResult(cs, w) ==
    LET d == cs[w].client
        u == [Unlink(cs, d) EXCEPT
                ![w].client = None,
                ![w].noid = IF cs[w].wm THEN @ ELSE FALSE,
                ![w].fail = IF cs[w].wm THEN @ ELSE FALSE]
    IN  IF IsClosed(cs, d) THEN u ELSE Send(SetStatus(u, d, "net"), d)

\* Any request of a worker in worker mode: the result of its call (if it has
\* one), and either the end of worker mode or the next registration.  The
\* type of the request is not looked at; "worker" stands for all of them.
RecvWorkerMode(c, r) ==
    LET cs == Start(conn, c, r)
        cs1 == IF cs[c].status = "worker_mode_async" THEN cs ELSE NoIdResult(cs, c)
    IN  /\ Parsed(c, r) /\ conn[c].wm /\ r.op = "worker"
        /\ IF cs[c].status # "worker_mode_async" /\ cs[c].client = None
           THEN Disconnect(cs, wait, c) /\ UNCHANGED <<adding, asked>>
           ELSE /\ IF r.option = "stop"
                   THEN /\ conn' = [Send(PopItem(cs1, c), c) EXCEPT
                                       ![c].wm = FALSE, ![c].status = "net"]
                        /\ UNCHANGED <<adding, asked>>
                   ELSE /\ conn' = cs1
                        /\ adding' = [conn |-> c, names |-> cs[c].names]
                        /\ asked' = [asked EXCEPT ![c] = Members(cs[c].names)]
                /\ UNCHANGED <<wait, alive>>
        /\ UNCHANGED <<queue, calls, given, task>>

\* A request of a worker that holds a call without an id (type get+).
RecvNoId(c, r) ==
    LET cs == Start(conn, c, r)
    IN  /\ Parsed(c, r) /\ ~conn[c].wm /\ cs[c].noid /\ r.op # "echo"
        /\ IF r.op # "result"
           THEN conn' = Send(cs, c) /\ UNCHANGED <<wait, alive>>
           ELSE IF cs[c].client = None THEN Disconnect(cs, wait, c)
           ELSE /\ conn' = Send(SetStatus(NoIdResult(cs, c), c, "net"), c)
                /\ UNCHANGED <<wait, alive>>
        /\ UNCHANGED <<queue, adding, calls, asked, given, task>>

\* The request of a plain connection, after HTTP_START.
Plain(c, r, ops) ==
    Parsed(c, r) /\ ~conn[c].wm /\ ~Start(conn, c, r)[c].noid /\ r.op \in ops

\* Connect::rpc_result and Loop::worker_result.
RecvResult(c, r) ==
    LET cs == Start(conn, c, r)
        i == IF r.id # None THEN r.id ELSE IF r.json \in Ids THEN r.json ELSE None
        found == i # None /\ wait[i] # None
    IN  /\ Plain(c, r, {"result"})
        /\ conn' = SetStatus(Send(IF found THEN ResultClient(cs, wait, i) ELSE cs, c), c,
                             "net")
        /\ wait' = IF found THEN [wait EXCEPT ![i] = None] ELSE wait
        /\ UNCHANGED <<queue, adding, alive, calls, asked, given, task>>

-----------------------------------------------------------------------------
(* Calls: Loop::client_request *)

\* The waiting workers that the scan may take, and the entries it erases.
Usable(cs, s, wid) ==
    {i \in DOMAIN s : Eligible(cs, s[i], wid) /\ ~IsClosed(cs, s[i])
                      /\ cs[s[i]].status = "worker_wait_job"}

\* Mutant: the entries behind the worker that is taken are erased too.
ErasedAll(cs, s, wid) == {i \in DOMAIN s : Eligible(cs, s[i], wid)}

Erased(cs, s, wid) ==
    {i \in DOMAIN s : Eligible(cs, s[i], wid)
                      /\ \A j \in Usable(cs, s, wid) : i <= j}

\* Mutant: entries are erased without unlink.
ReleaseNone(cs, s, R) == cs

\* Every connection loses one link for each of its entries at positions R.
Release(cs, s, R) ==
    [c \in Conns |-> [cs[c] EXCEPT !.link = @ - Cardinality({i \in R : s[i] = c})]]

CallState(c, r) == Release(Start(conn, c, r), queue[r.names[1]].workers,
                           Erased(conn, queue[r.names[1]].workers, r.wid))

RestOfWorkers(r) ==
    LET s == queue[r.names[1]].workers
    IN  Keep(s, DOMAIN s \ Erased(conn, s, r.wid))

\* The worker that the scan takes.
Taken(r) ==
    LET s == queue[r.names[1]].workers IN s[Least(Usable(conn, s, r.wid))]

CallCounted(c) == calls' = [calls EXCEPT ![c] = @ + 1]

Call(c, r) ==
    /\ Plain(c, r, {"call", "async"}) /\ CallCounted(c)
    /\ UNCHANGED <<adding, alive, asked>>

RecvCallNoQueue(c, r) ==
    /\ Call(c, r) /\ ~queue[r.names[1]].ex
    /\ conn' = Send(Start(conn, c, r), c)
    /\ UNCHANGED <<queue, wait, given, task>>

Handed(j) == given' = [given EXCEPT ![j] = @ + 1]

\* A waiting worker takes the call; an async call is answered at once.
RecvCallGive(c, r) ==
    LET n == r.names[1]
        w == Taken(r)
        j == <<c, calls[c] + 1>>
        cs == CallState(c, r)
        i == CallId(cs, c, <<c, calls[c] + 1>>)
        sent == Send(cs, w)
        claimed == IF cs[w].noid \/ cs[w].fail
                   THEN Link([sent EXCEPT ![w].client = c], c) ELSE sent
    IN  /\ Call(c, r) /\ queue[n].ex /\ Usable(conn, queue[n].workers, r.wid) # {}
        /\ queue' = [queue EXCEPT ![n].workers = RestOfWorkers(r)]
        /\ Handed(j)
        /\ \/ /\ r.op = "async"
              /\ conn' = Send(SetStatus(sent, w, AfterAsync(cs, w)), c)
              /\ UNCHANGED <<wait, task>>
           \/ /\ r.op = "call" /\ cs[w].noid
              /\ conn' = SetStatus(SetStatus(claimed, c, "client_wait_result"),
                                   w, "worker_wait_result")
              /\ task' = [task EXCEPT ![w] = j]
              /\ UNCHANGED wait
           \/ /\ r.op = "call" /\ ~cs[w].noid
              /\ ~NoIdFound(cs, c) /\ wait[i] = None
              /\ conn' = Link([claimed EXCEPT ![c].id = i, ![w].status = "net",
                                              ![c].status = "client_wait_result"], c)
              /\ wait' = [wait EXCEPT ![i] = c]
              /\ task' = [task EXCEPT ![i] = j]

\* The call has no usable id: the worker goes back to the front of its queue.
RecvCallReject(c, r) ==
    LET n == r.names[1]
        w == Taken(r)
        cs == CallState(c, r)
        i == CallId(cs, c, <<c, calls[c] + 1>>)
    IN  /\ Call(c, r) /\ queue[n].ex /\ Usable(conn, queue[n].workers, r.wid) # {}
        /\ r.op = "call" /\ ~cs[w].noid
        /\ NoIdFound(cs, c) \/ wait[i] # None
        /\ conn' = Send([Link(cs, w) EXCEPT
                            ![c].id = IF NoIdFound(cs, c) THEN @ ELSE i], c)
        /\ queue' = [queue EXCEPT ![n].workers = <<w>> \o RestOfWorkers(r)]
        /\ UNCHANGED <<wait, given, task>>

\* "Option: if present" and no worker is connected to the queue.
RecvCallAbsent(c, r) ==
    LET n == r.names[1]
    IN  /\ Call(c, r) /\ queue[n].ex
        /\ Usable(conn, queue[n].workers, r.wid) = {}
        /\ r.option = "if present" /\ ListOf(conn, n) = {}
        /\ conn' = Send(CallState(c, r), c)
        /\ queue' = [queue EXCEPT ![n].workers = RestOfWorkers(r)]
        /\ UNCHANGED <<wait, given, task>>

\* Mutant: priorities are ignored.
PositionLast(s, m) == Len(s)

\* Mutant: a message overtakes those of its own priority.
PositionFront(s, m) ==
    CHOOSE p \in 0 .. Len(s) :
        /\ p > 0 => m.prio < s[p].prio
        /\ \A i \in p + 1 .. Len(s) : m.prio >= s[i].prio

\* A message goes behind the last one whose priority is not lower.
Position(s, m) ==
    CHOOSE p \in 0 .. Len(s) :
        /\ p > 0 => m.prio <= s[p].prio
        /\ \A i \in p + 1 .. Len(s) : m.prio > s[i].prio

Insert(s, m) == InsertBehind(s, Position(s, m), m)

RecvCallEnqueue(c, r) ==
    LET n == r.names[1]
        m == [conn |-> IF r.op = "async" THEN None ELSE c, prio |-> r.prio,
              req |-> r.wid, job |-> <<c, calls[c] + 1>>]
        cs == CallState(c, r)
    IN  /\ Call(c, r) /\ queue[n].ex
        /\ Usable(conn, queue[n].workers, r.wid) = {}
        /\ ~(r.option = "if present" /\ ListOf(conn, n) = {})
        /\ conn' = IF r.op = "async" THEN Send(cs, c)
                   ELSE Link(SetStatus(cs, c, "client_wait_result"), c)
        /\ queue' = [queue EXCEPT ![n].workers = RestOfWorkers(r),
                                  ![n].clients = Insert(@, m)]
        /\ UNCHANGED <<wait, given, task>>

-----------------------------------------------------------------------------
(* Workers: Connect::rpc_add and Loop::_add_worker *)

RecvAdd(c, r) ==
    LET cs == Start(conn, c, r)
        wm == r.op = "worker"
        cs1 == [cs EXCEPT ![c].wm = wm, ![c].noid = (r.op = "get+"),
                          ![c].fail = (r.op = "get+")]
    IN  /\ Plain(c, r, {"get", "get+", "worker"})
        /\ IF r.json = "malformed"
           THEN conn' = Send(cs1, c) /\ UNCHANGED <<adding, asked>>
           ELSE IF r.names = << >>
           THEN /\ conn' = Send([cs1 EXCEPT ![c].wm = FALSE], c)
                /\ UNCHANGED <<adding, asked>>
           ELSE /\ conn' = [cs1 EXCEPT
                              ![c].noid = (r.op # "get"),
                              ![c].fail = (r.op # "get" \/ r.option = "fail_on_disconnect"),
                              ![c].names = IF wm THEN r.names ELSE << >>]
                /\ adding' = [conn |-> c, names |-> r.names]
                /\ asked' = [asked EXCEPT ![c] = Members(r.names)]
        /\ UNCHANGED <<queue, wait, alive, calls, given, task>>

\* Mutant: the worker leaves its list without giving back the link.
LeaveOtherLinked(cs, w, n) ==
    IF ~cs[w].wm /\ cs[w].item # None /\ cs[w].sub # n
    THEN [cs EXCEPT ![w].item = None, ![w].dm = 0] ELSE cs

\* A worker that subscribes under another name leaves its list and loses
\* the messages published to it.
LeaveOther(cs, w, n) ==
    IF ~cs[w].wm /\ cs[w].item # None /\ cs[w].sub # n
    THEN [PopItem(cs, w) EXCEPT ![w].dm = 0] ELSE cs

\* Mutant: only subscribers of type get+ are listed.
RegisterNoId(cs, w, n) ==
    IF cs[w].item = None /\ cs[w].noid /\ ~cs[w].wm
    THEN [PushItem(cs, w, n) EXCEPT ![w].sub = n] ELSE cs

\* The first free place in the list of connected workers.
Register(cs, w, n) ==
    IF cs[w].item # None THEN cs
    ELSE LET listed == IF cs[w].wm \/ cs[w].noid \/ cs[w].status = "worker_wait_job"
                       THEN PushItem(cs, w, n) ELSE cs
         IN  IF ~cs[w].wm /\ cs[w].noid THEN [listed EXCEPT ![w].sub = n] ELSE listed

\* Mutant: the id of a queued call is not compared with those in use.
VerdictNoCollision(cs, ws, w, m) ==
    IF ~Eligible(cs, w, m.req) THEN "keep"
    ELSE IF m.conn = None THEN "job"
    ELSE IF IsClosed(cs, m.conn) \/ cs[m.conn].status # "client_wait_result" THEN "drop"
    ELSE IF ~cs[w].noid /\ NoIdFound(cs, m.conn) THEN "noid"
    ELSE "job"

\* What the scan of the queued messages does with message m for worker w.
Verdict(cs, ws, w, m) ==
    IF ~Eligible(cs, w, m.req) THEN "keep"
    ELSE IF m.conn = None THEN "job"
    ELSE IF IsClosed(cs, m.conn) \/ cs[m.conn].status # "client_wait_result" THEN "drop"
    ELSE IF cs[w].noid THEN "job"
    ELSE IF NoIdFound(cs, m.conn) THEN "noid"
    ELSE IF ws[CallId(cs, m.conn, m.job)] # None THEN "collision"
    ELSE "job"

Jobs(cs, ws, w, s) == {i \in DOMAIN s : Verdict(cs, ws, w, s[i]) = "job"}

\* Mutant: the message that is handed out stays in the queue.
ScannedBefore(cs, ws, w, s) ==
    {i \in DOMAIN s : /\ Verdict(cs, ws, w, s[i]) # "keep"
                      /\ \A j \in Jobs(cs, ws, w, s) : i < j}

\* The positions the scan erases: all it may touch up to the job it takes.
Scanned(cs, ws, w, s) ==
    {i \in DOMAIN s : /\ Verdict(cs, ws, w, s[i]) # "keep"
                      /\ \A j \in Jobs(cs, ws, w, s) : i <= j}

\* The clients of the erased messages: unlinked, and answered if rejected.
AfterScan(cs, ws, w, s) ==
    LET R == Scanned(cs, ws, w, s)
        is(c, v) == \E i \in R : s[i].conn = c /\ Verdict(cs, ws, w, s[i]) = v
    IN  [c \in Conns |->
            LET no == is(c, "noid") \/ is(c, "collision")
            IN  [cs[c] EXCEPT
                    !.link = @ - Cardinality({i \in R : s[i].conn = c}),
                    !.out = IF no THEN @ + 1 ELSE @,
                    !.wr = no \/ @,
                    !.id = IF is(c, "collision") THEN CallId(cs, c, <<c, calls[c]>>) ELSE @,
                    !.status = IF is(c, "collision") THEN "net"
                               ELSE IF is(c, "noid") THEN "busy" ELSE @]]

Adding(w, n) ==
    /\ alive /\ adding # Idle
    /\ w = adding.conn /\ n = Head(adding.names)

\* Mutant: the last name is not the end.
NextNameEndless == [adding EXCEPT !.names = Tail(@)]

\* add_worker goes on with the next name ...
NextName == IF Len(adding.names) > 1 THEN [adding EXCEPT !.names = Tail(@)] ELSE Idle

\* Mutant: the remaining names are tried although the worker is taken.
ReturnOneIgnored == NextName

\* ... unless _add_worker returned 1: the worker is taken.
ReturnOne == Idle

\* A published message waits for the worker: it is sent, and nothing else.
AddWorkerDirect(w, n) ==
    LET cs == LeaveOther(conn, w, n)
    IN  /\ Adding(w, n) /\ cs[w].dm > 0
        /\ conn' = [cs EXCEPT ![w].wr = TRUE]
        /\ queue' = [queue EXCEPT ![n].ex = TRUE]
        /\ adding' = ReturnOne
        /\ UNCHANGED <<wait, alive, history>>

\* A queued message is handed to the worker.  When it is an async one the
\* return value of _add_worker is an uninitialised variable: the remaining
\* names may be tried or not.
AddWorkerGive(w, n) ==
    LET cs == LeaveOther(conn, w, n)
        s == queue[n].clients
        J == Jobs(cs, wait, w, s)
        m == s[Least(J)]
        c == m.conn
        cs1 == Send(AfterScan(cs, wait, w, s), w)
        i == CallId(cs1, c, m.job)
        claimed == [IF cs1[w].fail THEN Link([cs1 EXCEPT ![w].client = c], c) ELSE cs1
                       EXCEPT ![c].status = "busy"]
    IN  /\ Adding(w, n) /\ cs[w].dm = 0 /\ J # {}
        /\ queue' = [queue EXCEPT ![n].ex = TRUE,
                       ![n].clients = Keep(s, DOMAIN s \ Scanned(cs, wait, w, s))]
        /\ Handed(m.job)
        /\ \/ /\ c = None
              /\ conn' = Register(SetStatus(cs1, w, AfterAsync(cs1, w)), w, n)
              /\ adding' \in {ReturnOne, NextName}
              /\ UNCHANGED <<wait, task>>
           \/ /\ c # None /\ cs[w].noid
              /\ conn' = Register(SetStatus(claimed, w, "worker_wait_result"), w, n)
              /\ adding' = ReturnOne
              /\ task' = [task EXCEPT ![w] = m.job]
              /\ UNCHANGED wait
           \/ /\ c # None /\ ~cs[w].noid
              /\ conn' = Register(Link([claimed EXCEPT ![c].id = i, ![w].status = "net"], c),
                                  w, n)
              /\ adding' = ReturnOne
              /\ wait' = [wait EXCEPT ![i] = c]
              /\ task' = [task EXCEPT ![i] = m.job]
        /\ UNCHANGED <<alive, owed, calls, asked>>

\* Nothing to do: the worker joins the back of the queue.
AddWorkerWait(w, n) ==
    LET cs == LeaveOther(conn, w, n)
        s == queue[n].workers
        gone == {i \in DOMAIN s : IsClosed(cs, s[i]) \/ s[i] = w}
        cs1 == Link(Release(AfterScan(cs, wait, w, queue[n].clients), s, gone), w)
        t == queue[n].clients
    IN  /\ Adding(w, n) /\ cs[w].dm = 0 /\ Jobs(cs, wait, w, t) = {}
        /\ conn' = Register(SetStatus(cs1, w, "worker_wait_job"), w, n)
        /\ queue' = [queue EXCEPT ![n] =
                       [ex |-> TRUE,
                        workers |-> Append(Keep(s, DOMAIN s \ gone), w),
                        clients |-> Keep(t, DOMAIN t \ Scanned(cs, wait, w, t))]]
        /\ adding' = NextName
        /\ UNCHANGED <<wait, alive, history>>

-----------------------------------------------------------------------------
(* Publish, create and delete a queue *)

RecvPub(c, r) ==
    LET n == r.names[1]
        cs == Start(conn, c, r)
        told == {w \in ListOf(cs, n) : cs[w].status = "worker_wait_job"}
        later == {w \in ListOf(cs, n) \ told : cs[w].noid}
        cs1 == [w \in Conns |->
                  IF w \in told
                  THEN [cs[w] EXCEPT !.status = AfterAsync(cs, w), !.dm = @ + 1, !.wr = TRUE]
                  ELSE IF w \in later THEN [cs[w] EXCEPT !.dm = @ + 1]
                  ELSE cs[w]]
    IN  /\ Plain(c, r, {"pub"})
        /\ \A w \in told \cup later : cs[w].dm < MaxDM
        /\ conn' = Send(IF queue[n].ex THEN cs1 ELSE cs, c)
        /\ UNCHANGED <<queue, wait, adding, alive, calls, asked, given, task>>

RecvCreate(c, r) ==
    /\ Plain(c, r, {"create"})
    /\ conn' = Send(Start(conn, c, r), c)
    /\ queue' = [queue EXCEPT ![r.names[1]].ex = TRUE]
    /\ UNCHANGED <<wait, adding, alive, calls, asked, given, task>>

\* Server::delete_queue: everyone who waits is told "400 Closed"; the list of
\* connected workers is emptied by its destructor.
RecvDelete(c, r) ==
    LET n == r.names[1]
        cs == Start(conn, c, r)
        refs(d) == Cardinality({i \in DOMAIN queue[n].workers : queue[n].workers[i] = d})
                   + Cardinality({i \in DOMAIN queue[n].clients : queue[n].clients[i].conn = d})
        told == [d \in Conns |->
                   [PopListed(cs, d, n) EXCEPT
                       !.link = @ - refs(d),
                       !.out = IF cs[d].sock = "open" THEN @ + refs(d) ELSE @,
                       !.wr = @ \/ (cs[d].sock = "open" /\ refs(d) > 0)]]
    IN  /\ Plain(c, r, {"delete"})
        /\ conn' = Send(told, c)
        /\ queue' = [queue EXCEPT ![n] = NoQueue]
        /\ UNCHANGED <<wait, adding, alive, calls, asked, given, task>>

-----------------------------------------------------------------------------
(* Timers *)

\* Loop::_check_timeout: some of the workers whose timeout may have passed.
CheckTimeout ==
    LET may == {w \in Conns : /\ conn[w].ping /\ ~IsClosed(conn, w)
                              /\ conn[w].status = "worker_wait_job"
                              /\ \E n \in Names : w \in Members(queue[n].workers)}
    IN  /\ LoopReady
        /\ \E W \in SUBSET may :
             /\ W # {}
             /\ conn' = [w \in Conns |->
                           IF w \in W THEN [Send(conn, w)[w] EXCEPT !.status = AfterAsync(conn, w)]
                           ELSE conn[w]]
        /\ UNCHANGED <<queue, wait, adding, alive, history>>

\* Service::_clean_dead_tasks for one queue, on the service thread.
CleanDeadTasks(n) ==
    LET s == queue[n].workers
        t == queue[n].clients
        R == {i \in DOMAIN s : IsClosed(conn, s[i]) \/ conn[s[i]].status # "worker_wait_job"}
        T == {i \in DOMAIN t : t[i].conn # None /\
                (IsClosed(conn, t[i].conn) \/ conn[t[i].conn].status # "client_wait_result")}
    IN  /\ R # {} \/ T # {}
        /\ conn' = [c \in Conns |-> [conn[c] EXCEPT
                       !.link = @ - Cardinality({i \in R : s[i] = c})
                                  - Cardinality({i \in T : t[i].conn = c})]]
        /\ queue' = [queue EXCEPT ![n].workers = Keep(s, DOMAIN s \ R),
                                  ![n].clients = Keep(t, DOMAIN t \ T)]
        /\ UNCHANGED <<wait, adding, alive, history>>

-----------------------------------------------------------------------------
Recv(c, r) ==
    \/ RecvNotReady(c, r) \/ RecvThrows(c, r) \/ RecvEcho(c, r)
    \/ RecvWorkerMode(c, r) \/ RecvNoId(c, r) \/ RecvResult(c, r)
    \/ RecvCallNoQueue(c, r) \/ RecvCallGive(c, r) \/ RecvCallReject(c, r)
    \/ RecvCallAbsent(c, r) \/ RecvCallEnqueue(c, r)
    \/ RecvAdd(c, r) \/ RecvPub(c, r) \/ RecvCreate(c, r) \/ RecvDelete(c, r)

AddWorker(w, n) == AddWorkerDirect(w, n) \/ AddWorkerGive(w, n) \/ AddWorkerWait(w, n)

Next ==
    \/ \E c \in Conns : Accept(c) \/ PeerClose(c) \/ OnSend(c) \/ OnSendPart(c)
    \/ \E c \in Conns : \E r \in Requests[c] : Recv(c, r)
    \/ \E w \in Conns, n \in Names : AddWorker(w, n)
    \/ \E n \in Names : CleanDeadTasks(n)
    \/ CheckTimeout
    \/ DeleteConnections

Spec == Init /\ [][Next]_vars

\* The loop thread and the service thread do not stop.  A round of the loop
\* serves the sockets that epoll reports and then deletes connections, so
\* both happen although a registration keeps the loop busy now and then.
ServerFairness ==
    /\ WF_vars(\E w \in Conns, n \in Names : AddWorker(w, n))
    /\ \A c \in Conns : SF_vars(OnSend(c))
    /\ \A n \in Names : WF_vars(CleanDeadTasks(n))
    /\ SF_vars(DeleteConnections)
=============================================================================
