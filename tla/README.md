# Verification of ijson

ijson is an HTTP job broker: clients call named queues, workers ask the queues
for jobs, and the broker hands each call to a worker and carries the result
back. This directory holds TLA+ models of the broker, the TLC runs that check
them on small instances, and TLAPS proofs of what holds for every instance.

## The system

| component | state | operations | hard behaviour |
|---|---|---|---|
| Connections (`connect.cpp`, `Loop::_close`, `Server::_accept`) | a `Connect` per socket: status, flags, send buffer, reference count | accept, receive, send, disconnect, delete | a Connect is shared by queues, tables and other Connects; it is deleted when its count is 0 |
| Calls and workers (`Loop::client_request`, `_add_worker`, `worker_result`, `worker_result_noid`, `on_disconnect`) | per queue a deque of waiting workers and one of queued messages; `wait_response` by id; `worker->client` | call, async call, get, get+, worker mode, result | either side may come first, and disconnect at any point; ids may collide; a worker may list several queues |
| Publish (`Connect::pub`, `workerlist.cpp`) | a linked list of connected workers per queue, `direct_message` per Connect | pub | the worker may be waiting, working, or on its way back |
| Queue administration (`Server::get_queue`, `delete_queue`) | `_queue_list`, the Mapper | create, delete, create on first worker | deletion under waiting peers; two loops create one name |
| Mapper (`mapper.cpp`) | a trie of queue names with `*` patterns | add, find, del | `find` runs without a lock while the trie is changed, copied and freed |
| Timeouts (`Loop::_check_timeout`) | `ping`, `ping_timeout` | 408 to a worker that waits too long | races with a call for the same worker |
| Service thread (`service.cpp`) | none of its own | erase dead entries from the queues, free old tries, choose the loop of new connections | runs beside the loops |
| HTTP requests (`Connect::on_recv`, `read_method`, `read_header`, `header_completed`) | `http_step`, `buffer`, `body`, the fields of a request | split the data of a socket into requests, and understand them | pieces, pipelining, malformed requests, slices of buffers that are reused |
| JSON (`json.cpp`) | - | scan, unescape, escape | strings with quotes, nested values, malformed text |
| Several loops | each connection and each part of a queue belongs to a loop | the handlers of different loops run at a time | data races, locks of several kinds, migration |
| net filter, buffers, ids | - | pure algorithms | word widths |

A loop thread handles the events of its sockets; it calls `on_recv`,
`on_send` or `_close`, which call each other's operations directly. The loops
share the queues with each other and with the service thread under
`QueueLine::mutex`, the registry of queues under `global_lock` (but `find` takes
none), the lists of connected workers under a lock of their own. The main
thread only accepts.

What makes it correct: the requests that are handled are those that were sent;
a name leads to its queue; each request gets one answer; no call is lost or handed
out twice; a result reaches the client of that call; calls are served by
priority and, within one priority, in order of arrival; nobody sleeps beside
work he could do; a Connect is deleted when, and only when, nothing points to
it; the threads survive and do not block each other. `PROJECT.json` lists under
`hazards` where each of these is at risk.

## Modules

The system is cut into four models. `HttpParser` ends where `header_completed` has
understood a request, and `Broker` begins there, with one loop and atomic events.
`Registry` and `Loops` are the parts of the same code where several threads meet:
they refine what is one step in `Broker` (looking up a name; claiming a worker,
walking a list) to single accesses, and abstract the rest.

- `Deque` - the operations of `std::deque` on sequences: erase a set of
  positions (`Keep`), insert behind a position (`InsertBehind`).
- `Broker` - the broker with one loop (`threads = 1`); `BrokerProperties` - its
  properties.
- `JobBoard` - what the broker promises; `BrokerBoard` - the refinement mapping.
- `MCBroker` - finite instances: roles of connections, the requests of each role,
  the specification with fairness.
- `Json` - the scanner of `json.cpp`; `HttpParser` - `on_recv` and what
  `header_completed` reads; `MCHttp` - what peers send.
- `Registry` - `Mapper`, `get_queue`, `delete_queue`, `_free_memory`; `MCRegistry`.
- `Loops` - several loops and the service thread at one queue; `MCLoops`.
- `DequeProofs`, `BrokerProofs`, `BrokerLinkProofs`, `BrokerCallProofs`, `RegistryProofs`,
  `RegistryTrieProofs`, `RegistryLookupProofs`, `LoopsProofs` - theorems.

### Broker

`conn` holds the Connect objects. An object that is deleted may be allocated
again at the same address: `Accept` reuses it, so a dangling pointer would be
seen as a pointer to the wrong connection. `sock` is the state of the socket and of
the object, `link` is `_link`, `noid`, `fail` and `wm` are `noid`,
`fail_on_disconnect` and `worker_mode`, `cid` is `connection_id`, `item` the queue
in whose list of connected workers the `worker_item` is, `sub` is
`worker_sub_name`, `dm` the number of direct messages, `out` the number of
answers in `send_buffer`, `wr` the write mode. `queue[n]` has the two deques of
queue `n`, and `ex` says that it exists. `wait` is `wait_response`. `adding` is the
local state of `Loop::add_worker` while it goes through a list of names. `alive`
is false when an exception has left `Loop::_loop`.

History variables record what the properties speak of and no action reads for
its effect: `owed` (requests minus answers on the wire), `calls` (also the
bound on calls), `asked` (the queues of the last registration), `given` (how
often a call was handed out), `task` (which call an id or a worker stands for).

An event of the loop is one action, since nothing else runs in the loop until
the handler returns, and the service thread takes the lock of a queue. The
exception is `add_worker`, which takes the lock of each queue in turn: each
iteration is an action (`AddWorkerDirect`, `AddWorkerGive`, `AddWorkerWait`), the
other events of the loop wait for the last one (`LoopReady`), and
`CleanDeadTasks` may run in between. A request is handled by one of the `Recv*`
actions; they follow `header_completed` and the functions it calls to their
last line. The scans over the deques, with their erasures, are set
definitions: `Usable` and `Erased` for the waiting workers, `Verdict`, `Jobs` and
`Scanned` for the queued messages. `Disconnect` is `_close` with
`on_disconnect`; its assertions end the loop because `_loop` has no handler
around it.

Undefined values are choices: the flags without initialiser of a new Connect
(`Uninit`), and the result that `_add_worker` returns after an async call
(`AddWorkerGive`).

Bodies, names and ids are model values. `json` says what a scan of the body for
`"id"` finds, `"malformed"` that it throws. A peer sends its next request after it
was answered. Time is abstracted: a timeout may or may not have passed. Queue names
are looked up exactly. `generate_id` is the function `Generated`, which may give the
same id twice in the proofs and gives distinct ones in the runs. Statistics,
logging and the text of answers are left out.

### The board

`JobBoard` has no connections, ids or flags: a call that is made waits on the
board of its queue, behind those of its priority, or is taken at once if nobody
who waits comes first, or is refused; a worker takes the first call it may take;
a call that was taken is held until it is done, and does not come back.
`BrokerBoard` maps `Broker` to it: `boardOf` shows the queued messages whose
client still waits for that very call (the broker erases the others lazily),
`heldNow` the calls that were handed out and whose client is still there,
`madeSoFar` the calls that were made. `ImplementsBoard` is a property of the run
`order`.

### HttpParser

A request on the wire is a sequence of cells: the parts of its lines (path, header
name, value), the ends of lines, the cells of its JSON body; lengths count cells.
So a piece may end in a line and inside of a string of the body, but not inside of a
header name. `Recv(n)` is a call of `on_recv` with `n` cells; the actions behind it
are the branches of its loop, and nothing else happens until `pc` is `idle` again.
A slice has its cells, the array in which they stand and an offset, since
`header_option` is a slice of memory that later data overwrites (`Overwritten`).
`Understood` is the part of `header_completed` that tells what a request asks for;
a call or a worker may be answered at once or may have to wait (`Handle`).

The peer may pipeline, but does not send the next request in one piece with the
end of a body whose request may have to wait: on that path the code goes on
parsing over the waiting call (`hazards`, `connect.cpp:105`).

### Registry

A step of a loop is one access to memory that another thread may change: `find`
loads the buffer, then reads `std` and `k` or `end` of each node, then the array
of `_queue_list` and its element. What runs under `global_lock` is split where a
`find` can see the difference: the slot is assigned, then each node is written,
then the value, then a grown buffer is published, then the old one is retired.
A name is a sequence of characters, a `*` at its end makes it a pattern. The
vector moves when it grows (`vcap`), and a read of the old array yields anything.
Accesses are assumed to be seen by all threads in their order; the 10 ms that
`_free_memory` sleeps are assumed to be longer than a `find` (`Grace`).

### Loops

One queue; a call is a number. Each handler goes through its steps under the locks
that it takes: `global_lock`, the mutex of the queue, the lock of the `WorkerList`.
The section under `Connect::mutex` only looks at the status and sets it, so it is
one step (`Claim`). A handler that waits for a lock is stopped, and a loop does
nothing else meanwhile. `done` throws for a connection that was closed by its own
loop since it was looked at: in `client_request` this ends the request, in
`_check_timeout` it ends the loop, which keeps `global_lock` (`TimeoutSend`). Left
out: worker mode, lists of names, priorities, the clients of calls, the counts.

## Runs

| run | instance | what it shows |
|---|---|---|
| `ids` | 2 clients, 1 worker, one id that clients share | routing by id, collisions, disconnections: counts are right, one answer each, no lost call |
| `routing` | 1 client with 2 calls, HTTP/1.0 too, 1 worker with ids and fail_on_disconnect, 1 without (get+, worker mode, stop) | the answer of a call, or its 503, reaches that call and no later one; no assertion of `on_disconnect` fails |
| `order` | 3 clients, 1 worker, 2 priorities, one worker id | priority order, order of arrival, no lost wakeup, and `Broker` implements `JobBoard` |
| `pub` | 1 client (call, async, pub), 1 worker (get, get+, worker mode, stop), 1 publisher that also waits as a worker, up to 2 messages waiting | every one of two waiting workers gets the message, and in no state of a worker a message and a call both answer its request |
| `admin` | create, delete, timeout, malformed body, missing name, `if present` | counts and deletion stay right |
| `names` | 1 client, 2 workers, 2 queues, uninitialised flags, fair threads | lists of names, with the service thread between two names; every call is answered, every closed connection deleted |
| `http` | 2 or 3 requests on a connection, of every type and form, JSON bodies with escaped quotes, nested ids, arrays, blanks; every way to cut them | `HandledAsSent`, `NothingLeft` (all that came is handled at once), `WaitingKept` (early data does not disturb a waiting call) |
| `registry` | 2 loops, names `a`, `ab`, `a*`, first buffer of one node | the best name is found, one queue per name, lookups without a lock are right, no freed buffer is read, and no find leaves its buffer |
| `loops` | 2 loops and the service thread, 2 workers with ids, 1 get+ | a worker is claimed once, the linked list is whole, nobody blocks everybody |

Three runs show a disagreement between the code and what an assertion or the
documentation says; each is a finding in `PROJECT.json`:

| run | property | what happens |
|---|---|---|
| `same_id` | `LinkNotNegative` | two clients use one header `Id` on two queues; one is registered in `wait_response`, the other is queued and disconnects: it erases the first one's entry and unlinks once too often, and `Wrong link count` is thrown later |
| `pub_serving` | `LoopAlive` | pub, while a worker in worker mode serves a call; the worker returns its result, gets the message instead of a registration and disconnects: `No client` ends the loop thread |
| `http_option` | `OptionAsSent` | the body of a call comes in a second piece: the header `Option` is a slice of the receive array, and is overwritten before it is read |

The passing runs leave out the combination that a finding needs (equal header ids,
pub during a call in worker mode; `http` does not look at options), and two others
that are listed as hazards: publishing to workers that list several queues and async
calls for them (they may be offered to the next queue). The first of these is a
disagreement with the documentation too: "all connected workers receive the message"
(`docs/readme.rst:196`), but a worker that lists several queues is in the list of connected
workers of one of them only, the first in worker mode and the last otherwise, and
`PubReachesAll` fails when a get+ worker lists two queues and the first one is published
to. So the runs show that nothing else goes wrong. In
`pub` a call is addressed to a worker id that the worker does not use in worker
mode, which keeps `pub_serving` out. A consequence of stale entries that no document
speaks of: a worker that timed out at one queue (408), or that asks for fewer queues
than before, is still in the deque of the old queue and may be handed its next
call (`hazards`).

Some properties speak of the cases in which the code can keep its promise, and the
model has the others: `NothingLeft` is about requests that did not come early,
`GetQueueRight` about names whose queue was not deleted and arrays that did not
move, `SomeoneGoesOn` about the time before a loop died with `global_lock`, which TLC
reaches (`hazards`, `server.cpp:456`) and no property excludes.

Each property of a passing run has a mutant of the model, an operator next to
the definition it replaces, that makes TLC find a violation.

**Bounds.** `MaxCalls` bounds the calls of a connection address (in `Loops`, those
that wait), `MaxDM` the published messages that wait in a connection. One call per
client and two or three connections in competing roles are enough for each race
between a call, a result, a registration and a disconnection; where a leftover of a
call could hurt the next one (`routing`, `admin`), a client makes two. Connections,
registrations, results and disconnections are not bounded. `Uninit` is `{FALSE}`
except in `names`: the flags matter only before the first request. `HeadPieces = 2`:
the head of a request comes in one piece or in two, its body in any number; with
three `HandledAsSent` fails, since `buffer.add(data)` adds the buffer to itself
(`hazards`, `connect.cpp:188`). `MaxLength` is above the longest body. `FirstCap = 1`,
`BigCap = 2` and `Extra = 1` stand for 4, 512 and 256: the keys need three nodes, so
the trie grows from one node to two (`cap * 2`) and to three (`cap + Extra`), in one
`add` too. Three workers are needed for an item with two neighbours in
the list. `CHECK_DEADLOCK` is off in the runs of `HttpParser`: the peer stops when it
has sent all.

**Fairness.** `ServerFairness`: the loop polls every 10 ms and serves every socket
that is ready, finishes `add_worker`, and deletes connections at the end of each
round; the service thread cleans each queue once a second. Sending and deleting
wait while a registration is in progress, so their fairness is strong.
`LiveSpec` (run `names`) adds worker programs that reconnect, register and return
results; as they may disconnect whenever they could do that, their fairness is strong
too. No fairness is assumed of clients. Liveness is model-checked only: the prover does
not handle fairness.

## Proofs

`DequeProofs` proves that `Keep` yields the elements at the kept positions in
their order, from the properties of finite cardinalities, and that
`InsertBehind` shifts what stands behind.

`BrokerProofs` proves, for all constants that satisfy the assumptions of `Broker` (any
finite set of connections, any names, ids and requests; `DistinctAssumption` says that
connections and ids are different things):

- `TypeCorrect`: `Spec => []TypeOK`. `TypeOK` is not inductive. `RecvWorkerMode`
  registers a worker in worker mode under the names stored in its connection, and
  `adding` must never hold an empty list; so a connection in worker mode must have
  names. But it need not when `rpc_add` threw on a malformed body: then
  the mode is on, the names are empty and the status is `net`, in which
  `StartThrows` stops every request. `ModeType` says so, and `NamedType` is the
  stronger type of a connection that any other status may be given to. The lemmas
  about operators keep `Connections(N)`: all connections are of `ModeType`, and
  those of the set `N`, chosen as the ones that are named now, stay named.
  Also, `AfterScan` generates the id of a queued call, so a queued message must
  be a call that was made on the connection it points to (`OwnedMsg`).
  `IInv` is the conjunction; it was checked with TLC before it was proved, and
  there is one lemma for each action.
- `PrioritiesKept`: `Spec => []PriorityOrder`, and `OrderOfArrival`:
  `Spec => FirstComeFirstServed`. `ClientsChange` shows that a step changes the
  messages of a queue in one of four ways: not at all, erased, `Keep`, or `Insert`
  of a call that is not in the queue (its number is above those counted,
  by `OwnedMsg`). `OrderInv` - sorted, and no call twice - is inductive
  relative to `IInv`, and implies both.

`BrokerLinkProofs` proves `LinkCountsHold`: `Spec => []LinkCounts`,
`FreedUnreferencedHolds`: `Spec => []FreedUnreferenced`, and `CountNotNegative`, under the
hypothesis `OwnHeaderIds`: an id that a client writes in a header is none that another
client's calls may have. The finding of `same_id` shows that the hypothesis is needed;
the requests of all other runs satisfy it. Ids in bodies, which clients may
share (`ids`), are not restricted, since `client_request` compares them with those in use;
nor is `Generated`, which may give an id twice, or one that stands in a body.
The inductive invariant is `LinkInv`; while the loop runs it says of the connections, the
table and the queues (`Sound`):

- `Counted`: `link` is what the pointers say. The proofs keep the sum apart for one
  connection (`Weight`, `Excess`), one queue (`LineCount`) and all queues (`QueueCount`),
  so that a handler that changes one of them is compared with one lemma.
- `Placed`: a client that waits is in one of a queue, `wait_response` and the client of
  a worker without ids, and nobody else is in any. `on_disconnect` gives back one
  link and erases one entry, which is right for a client with one place only.
- `Identified`: the ids that a waiting client carries are its own, or the entry under
  that id is its own. So `on_disconnect` and the 503 of a worker erase no entry
  of another client; this is where `OwnHeaderIds` is used.
- `PointsToLive`: pointers lead to Connect objects that exist, and come from such.
  It holds after the loop thread has ended, too, when the counts need not be right
  any more; `FreedUnreferenced` follows from it.
- `Fits`: who has a client tells it when it disconnects, who waits for a job has
  none, and who is closed has nothing; and `AddingOk` of the worker whose
  registration is in progress.

`Disconnect` is proved once for a connection whose socket is closed but whose link
is not given back yet (the set `X` of `Sound`), and used by each of its callers.

`BrokerCallProofs` proves, on top of these:

- `HandedOnceHolds`: `Spec => []HandedOnce`, a call is handed to one worker at most and
  never while it still waits, without a hypothesis. It is not inductive: if two queues
  held the same call, each could hand it out; and a call that is queued must not
  have been handed out under its number before it was made. `Handing` adds both, and
  is inductive relative to `IInv` and `OrderInv`. Three actions can disturb it
  (`RecvCallGive`, `AddWorkerGive`, `RecvCallEnqueue`); all others keep `given` and
  only erase messages (`GivenKept`, and `ClientsShrink` of `BrokerProofs`).
- `RoutedToCallerHolds`: `Spec => []RoutedToCaller` under `OwnHeaderIds`: what a worker
  returns goes to the caller of the call it was handed, while that caller waits for it.
  The run `same_id` shows that the hypothesis is needed. `RouteInv` adds to `LinkInv`
  that a waiting client keeps its place also while the loop thread has ended
  (`Placed`), that a worker that serves without ids tells its client (`Firm`), and
  that what is queued, registered or served is the current call of its client
  (`CurrentQueued`, `CurrentRegistered`, `CurrentServed`): a call that a queue hands out
  must be the one its connection is waiting for, or the result would go to a later
  call. A step either hands out no call (`Routed`: nobody gets a place, and who goes on
  waiting stays where it was) or hands one (`HandsOut`), and only a connection that waits
  nowhere counts its next call.
- `LoopAliveHolds`: `Spec => []LoopAlive` under `OwnHeaderIds` and `NoPub \/ NoWorkerMode`:
  no exception leaves `Loop::_close`. `on_disconnect` throws for a worker without ids that
  has the status of one that serves but no client. `AliveInv` shows that this is so only
  between the request of a worker in worker mode and its registration, when the loop
  handles no disconnection. A message that is published while such a worker serves
  leaves it in that state, as the finding of `pub_serving` shows; so either nobody
  publishes (`NoPub`, with which there are no direct messages: `Silent`) or nobody is in
  worker mode.
- `OneAnswerHolds`: `Spec => []OneAnswer` under `OwnHeaderIds`, `NoDelete`, `CallBodies` and
  `NoAsync \/ OneName`. The invariant `AnswerInv` describes each connection by what it is
  owed (`Settled`): it rests, expects its answer with a status of those who wait, has the
  answer in its buffer or on the way as a direct message, or it is the worker that is being
  added and has none of these yet. A step moves the connection that acts, the worker that is
  taken and the clients that are answered; every other one sees no more than that its call
  is answered or taken (`Tell`), whatever scan, disconnection or cleaning runs over it.
  A client is answered only where it waits, which is what `RouteInv` says. Each hypothesis
  leaves out requests after which the code breaks the property: `delete_queue` answers
  who waits and leaves the status (`server.cpp:166`); a queued call with a malformed body
  is answered and stays busy (`server.cpp:678`); the uninitialised result of
  `_add_worker` sends a worker that was given an async call to its next queue
  (`server.cpp:616`), so either there are no async calls or nobody lists two queues. With
  equal ids in headers a disconnection erases the entry of another client. The requests of
  every run that checks `OneAnswer` satisfy the hypotheses.

`RegistryProofs`, `RegistryTrieProofs` and `RegistryLookupProofs` prove, for any number
of loops, names and characters and any growth of the trie (`KeysAssumption`: names are sequences of
characters; `CapAssumption`: the first buffer has a node, and it grows by at least one):

- `NoUseAfterFreeHolds` and `ReadsInBoundsHolds`, from the inductive invariant
  `Safe`: the links of each buffer stay inside it and its values inside `_queue_list`;
  only the holder of `global_lock` is inside of a change (`Locked`), and a second
  buffer exists only then; a buffer that was retired is not the published one;
  every find in a buffer that the service thread has taken is among those that it
  waits for. The last part rests on the assumption about the 10 ms (`Grace`).
- `OneQueuePerNameHolds` and `FindsBestHolds`, from `Registered == Safe /\ Trie`.
  `Trie` says that there is a function `str` from nodes to words under which the nodes in
  use are a tree with one node for each word (`Spelt`), that each value is the slot of
  a queue whose name stops at that word (`Sound`), that each queue has such a node
  (`Complete`), but for the slot that the holder of the lock is filling or emptying
  (`Pending`), and how far this thread has come (`Adding`, `Assigning`). That the walk
  of a key arrives at the node of its word is an induction along the key; it is
  done over the set of lengths for which it holds (`Climb`), since the induction
  rules of the library cannot be used by the provers. `Nodes` is a recursive function.
- `GetQueueRightHolds`, from `Returning`: `Registered`, `Meeting` (a find in the published
  buffer meets only queues that serve its name) and `Right` of every loop. The value that
  a find is still going to yield is known at each of its steps, in whatever buffer it is
  (`Yields`): if the queue that serves its name has been the same since it began, that is
  its slot (`Tells`), and if nothing was deleted, it is one that serves the name
  (`Serves`). A buffer that `add` has outgrown is not written to any more; in the
  published one links are only added (`Grows`), and values only removed by `del`
  (`Clears`), so what a find has read stays the way to where it stands. The add that a
  find does not see makes the lookup another one, and what it yields then serves the name
  all the same.

`LoopsProofs` proves, for any number of loops and workers (`ThreadsAssumption`: the timer
runs in one of the loops, the service thread is none of them, and each worker belongs
to a loop):

- `ClaimedOnceHolds`: `Spec => []ClaimedOnce`. The invariant `OneAnswerEach` says where
  the answer of a worker will come from: the handler that registers it, the one that
  has claimed it, the data that waits to be written to it, or nobody, while the handler
  that answered it has not set its status yet; and that these exclude each other.
- `ListIntactHolds`: `Spec => []ListIntact`. `Listed` keeps the order of the items as a
  sequence, with `next` and `prev` as its neighbours and `head` as its first; it needs
  that the handlers inside the lock of the list exclude each other (`Held`), and that a
  publisher stands on an item that is in the list.
- `UnblockedHolds`: a lock has one holder, and as long as no loop has died with
  `global_lock`, some handler in progress waits for no lock that is taken. This is the
  part of `SomeoneGoesOn` that needs no `ENABLED`; TLC checks the whole.

The inductive invariants were checked with TLC before they were proved.

Model-checked only:

- Liveness (`CallsAnswered`, `ClosedFreed`) and `SomeoneGoesOn`, which speaks of
  `ENABLED`: outside of what the prover handles.
- The properties of `HttpParser`: `Json` is recursive, and what it computes for every
  text needs induction over the text.
- `NoLostCall`, `NoLostWakeup` and `PubReachesAll`: they do not hold for every set of
  requests. The findings and the hazards (equal header ids, pub to a worker that serves,
  lists of names with async calls or pub, `delete_queue` under waiting peers) each break
  one of them; a run checks them for the requests with which the code keeps them.
- `ImplementsBoard`, for the requests of the run `order`.

## Not modelled

- The migration of connections between loops: `need_loop` differs from `nloop` only
  after `rpc/migrate`, which debug builds have. The balancer only chooses the loop
  that accepts.
- Data races on containers and on `_link` between loops: undefined behaviour whose
  outcomes a model could only enumerate as "anything"; they are listed as hazards.
- `wait_response` with several loops. So a call in `Loops` is always accepted: that a call
  without a usable id puts the worker that it claimed back in its queue
  (`RecvCallReject` in `Broker`) has no step there.
- A failed `recv` that throws out of the loop (`server.cpp:378`): `PeerClose` takes it for a
  disconnection (`hazards`).
- Data that came early and is parsed when more data comes: `HttpParser` has it; in `Broker` and
  `Loops` a peer sends one request at a time, and early data stays where it is.
- The headers `Name` and `Set-Id` in a later request of a worker in worker mode, which
  would change its names and its id: the workers of `Broker` send them with their registration.
- In `HttpParser`, the headers that only `Broker` reads (`Priority`, `Worker-Id`, `Set-Id`,
  `Timeout`) and the ends of `header_completed` for workers without ids and in worker mode
  (`RecvNoId`, `RecvWorkerMode` in `Broker`); lengths are not negative, and a header whose
  number is malformed is left out.
- The text of answers, `rpc/details`, `rpc/help`, logging, statistics, `json::escape`
  and code points in `unescape`; the net filter (one comparison); start-up, exceptions
  and memory accounting; the kqueue variant of the event loop.

## Plan

1. Proofs: `NoLostCall`, `NoLostWakeup` and `ImplementsBoard` for sets of requests that leave
   out the findings; an abstract registry that `Registry` implements.
2. `Loops` with ids: `wait_response` and results that overtake their registration.
3. A worker that lists several queues in `Loops`.
