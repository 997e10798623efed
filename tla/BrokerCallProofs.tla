-------------------------- MODULE BrokerCallProofs --------------------------
(***************************************************************************)
(* What becomes of a call, for all values of the constants.                *)
(*                                                                         *)
(* HandedOnce: a call is handed to one worker.  It is not inductive: two   *)
(* queues must not hold the same call, or a worker could take it from the  *)
(* one and a second worker from the other; and a call that was not made    *)
(* yet must not have been handed out.  Handing adds both.                  *)
(*                                                                         *)
(* RoutedToCaller: its result goes to its caller.  RouteInv says that what *)
(* is queued, registered or served is the current call of a client that    *)
(* waits there.  A step either hands out no call, and then nobody gets a   *)
(* place and who goes on waiting stays where it was (Routed), or it hands  *)
(* out one (HandsOut).                                                     *)
(*                                                                         *)
(* LoopAlive: nothing on that way ends the loop.  AliveInv says when a     *)
(* worker without a client has the status of one that serves.              *)
(*                                                                         *)
(* OneAnswer: every request has one answer.  Settled says what a           *)
(* connection that is owed an answer, or none, looks like: it rests, it    *)
(* expects its answer, the answer is on its way, or it is the worker that  *)
(* is being added.  Each helper is described by what it changes of that:   *)
(* nothing (Face), or as much as a connection that does nothing may see    *)
(* (Tell).                                                                 *)
(***************************************************************************)
EXTENDS BrokerLinkProofs

\* The calls that wait in queue n.
QueuedJobs(n) == {queue[n].clients[i].job : i \in DOMAIN queue[n].clients}

Handing ==
    /\ \A j \in Job : given[j] <= 1
    /\ \A n \in Names : \A j \in QueuedJobs(n) : given[j] = 0
    /\ \A j \in Job : j[2] > calls[j[1]] => given[j] = 0
    /\ \A n, k \in Names : \A j : j \in QueuedJobs(n) /\ j \in QueuedJobs(k) => n = k

\* Calls that wait were made.
LEMMA QueuedJobsMade ==
    ASSUME IInv, NEW n \in Names, NEW j \in QueuedJobs(n)
    PROVE  j \in Job /\ j[1] \in Conns /\ j[2] <= calls[j[1]] /\ calls[j[1]] \in Int /\ j[2] \in Int
<1>1. PICK i \in DOMAIN queue[n].clients : j = queue[n].clients[i].job BY DEF QueuedJobs
<1>2. queue[n].clients[i] \in OwnedMsg
  <2>1. queue[n].clients \in Seq(OwnedMsg) BY QueueFacts
  <2> QED BY <1>1, <2>1
<1>3. j \in Job /\ j[2] <= calls[j[1]] BY <1>1, <1>2 DEF OwnedMsg, MsgType
<1>4. j[1] \in Conns /\ j[2] \in 1 .. MaxCalls BY <1>3 DEF Job
<1>5. calls[j[1]] \in 0 .. MaxCalls BY <1>4 DEF IInv, HistoryInv
<1> QED BY <1>3, <1>4, <1>5, BoundsAssumption

\* Erasing messages adds none.
LEMMA ShrinkQueuedJobs ==
    ASSUME IInv, NEW n \in Names, LineShrinks(queue[n].clients, queue'[n].clients)
    PROVE  QueuedJobs(n)' \subseteq QueuedJobs(n)
<1> DEFINE s == queue[n].clients
           t == queue'[n].clients
<1>1. s \in Seq(MsgType) BY MessagesType
<1>2. QueuedJobs(n)' = {t[i].job : i \in DOMAIN t} /\ QueuedJobs(n) = {s[i].job : i \in DOMAIN s}
  BY DEF QueuedJobs
<1>3. LineShrinks(s, t) OBVIOUS
<1> HIDE DEF s, t
<1>4. CASE t = s BY <1>2, <1>4
<1>5. CASE t = << >> BY <1>2, <1>5
<1>6. ASSUME NEW K \in SUBSET DOMAIN s, t = Keep(s, K)
      PROVE  {t[i].job : i \in DOMAIN t} \subseteq {s[i].job : i \in DOMAIN s}
  <2>1. /\ t \in Seq(MsgType) /\ Len(t) = Cardinality(K) /\ Cardinality(K) \in Nat
        /\ \A i \in 1 .. Cardinality(K) : Nth(K, i) \in K /\ t[i] = s[Nth(K, i)]
    BY <1>1, <1>6, KeepProperty
  <2>2. DOMAIN t = 1 .. Cardinality(K) BY <2>1
  <2>3. \A i \in DOMAIN t : Nth(K, i) \in DOMAIN s /\ t[i] = s[Nth(K, i)] BY <2>1, <2>2
  <2> QED BY <2>3
<1> QED BY <1>2, <1>3, <1>4, <1>5, <1>6 DEF LineShrinks

\* The number of calls only grows.
LEMMA CallsGrow ==
    ASSUME IInv, [Next]_vars
    PROVE  \A c \in Conns : calls[c] \in Int /\ calls'[c] \in Int /\ calls[c] <= calls'[c]
<1>1. \A c \in Conns : calls[c] \in Int /\ calls \in [Conns -> 0 .. MaxCalls]
  BY BoundsAssumption DEF IInv, HistoryInv
<1>2. CASE calls' = calls BY <1>1, <1>2
<1>3. ASSUME NEW c \in Conns, CallCounted(c)
      PROVE  \A d \in Conns : calls[d] \in Int /\ calls'[d] \in Int /\ calls[d] <= calls'[d]
  BY <1>1, <1>3 DEF CallCounted
<1>4. calls' = calls \/ \E c \in Conns : CallCounted(c)
  <2>1. CASE UNCHANGED vars BY <2>1 DEF vars
  <2>2. ASSUME NEW c \in Conns, Accept(c) \/ PeerClose(c) \/ OnSend(c) \/ OnSendPart(c)
        PROVE  calls' = calls
    BY <2>2 DEF Accept, PeerClose, OnSend, OnSendPart, history
  <2>3. ASSUME NEW c \in Conns, NEW r \in Requests[c], Recv(c, r)
        PROVE  calls' = calls \/ CallCounted(c)
    <3>1. CASE \/ RecvNotReady(c, r) \/ RecvThrows(c, r) \/ RecvEcho(c, r)
               \/ RecvWorkerMode(c, r) \/ RecvNoId(c, r) \/ RecvResult(c, r)
               \/ RecvAdd(c, r) \/ RecvPub(c, r) \/ RecvCreate(c, r) \/ RecvDelete(c, r)
      BY <3>1 DEF RecvNotReady, RecvThrows, RecvEcho, RecvWorkerMode, RecvNoId, RecvResult,
                  RecvAdd, RecvPub, RecvCreate, RecvDelete
    <3>2. CASE \/ RecvCallNoQueue(c, r) \/ RecvCallGive(c, r) \/ RecvCallReject(c, r)
               \/ RecvCallAbsent(c, r) \/ RecvCallEnqueue(c, r)
      BY <3>2 DEF RecvCallNoQueue, RecvCallGive, RecvCallReject, RecvCallAbsent,
                  RecvCallEnqueue, Call
    <3> QED BY <2>3, <3>1, <3>2 DEF Recv
  <2>4. ASSUME NEW w \in Conns, NEW n \in Names, AddWorker(w, n) PROVE calls' = calls
    BY <2>4 DEF AddWorker, AddWorkerDirect, AddWorkerGive, AddWorkerWait, history
  <2>5. ASSUME NEW n \in Names, CleanDeadTasks(n) PROVE calls' = calls
    BY <2>5 DEF CleanDeadTasks, history
  <2>6. CASE CheckTimeout \/ DeleteConnections
    BY <2>6 DEF CheckTimeout, DeleteConnections, history
  <2> QED BY <2>1, <2>2, <2>3, <2>4, <2>5, <2>6 DEF Next
<1> QED BY <1>2, <1>3, <1>4

\* Only two actions hand out a call.
LEMMA GivenKept ==
    ASSUME IInv, [Next]_vars,
           \A c \in Conns : \A r \in Requests[c] : ~RecvCallGive(c, r),
           \A w \in Conns, n \in Names : ~AddWorkerGive(w, n)
    PROVE  given' = given
<1>1. CASE UNCHANGED vars BY <1>1 DEF vars
<1>2. ASSUME NEW c \in Conns, Accept(c) \/ PeerClose(c) \/ OnSend(c) \/ OnSendPart(c)
      PROVE  given' = given
  BY <1>2 DEF Accept, PeerClose, OnSend, OnSendPart, history
<1>3. ASSUME NEW c \in Conns, NEW r \in Requests[c], Recv(c, r)
      PROVE  given' = given
  <2>1. CASE \/ RecvNotReady(c, r) \/ RecvThrows(c, r) \/ RecvEcho(c, r)
             \/ RecvWorkerMode(c, r) \/ RecvNoId(c, r) \/ RecvResult(c, r)
             \/ RecvAdd(c, r) \/ RecvPub(c, r) \/ RecvCreate(c, r) \/ RecvDelete(c, r)
    BY <2>1 DEF RecvNotReady, RecvThrows, RecvEcho, RecvWorkerMode, RecvNoId, RecvResult,
                RecvAdd, RecvPub, RecvCreate, RecvDelete
  <2>2. CASE \/ RecvCallNoQueue(c, r) \/ RecvCallReject(c, r)
             \/ RecvCallAbsent(c, r) \/ RecvCallEnqueue(c, r)
    BY <2>2 DEF RecvCallNoQueue, RecvCallReject, RecvCallAbsent, RecvCallEnqueue
  <2> QED BY <1>3, <2>1, <2>2 DEF Recv
<1>4. ASSUME NEW w \in Conns, NEW n \in Names, AddWorker(w, n) PROVE given' = given
  BY <1>4 DEF AddWorker, AddWorkerDirect, AddWorkerWait, history
<1>5. ASSUME NEW n \in Names, CleanDeadTasks(n) PROVE given' = given
  BY <1>5 DEF CleanDeadTasks, history
<1>6. CASE CheckTimeout \/ DeleteConnections
  BY <1>6 DEF CheckTimeout, DeleteConnections, history
<1> QED BY <1>1, <1>2, <1>3, <1>4, <1>5, <1>6 DEF Next

\* Nothing is handed out or queued.
LEMMA HandingShrinks ==
    ASSUME IInv, Handing, given' = given, \A n \in Names : QueuedJobs(n)' \subseteq QueuedJobs(n),
           \A c \in Conns : calls[c] \in Int /\ calls'[c] \in Int /\ calls[c] <= calls'[c]
    PROVE  Handing'
<1>1. \A j \in Job : j[1] \in Conns /\ j[2] \in Int BY DEF Job
<1>2. \A j \in Job : j[2] > calls'[j[1]] => given'[j] = 0
  <2> SUFFICES ASSUME NEW j \in Job, j[2] > calls'[j[1]] PROVE given[j] = 0 OBVIOUS
  <2>1. j[2] > calls[j[1]] BY <1>1
  <2> QED BY <2>1 DEF Handing
<1>3. \A j \in Job : given'[j] <= 1 BY DEF Handing
<1>4. \A n \in Names : \A j \in QueuedJobs(n)' : given'[j] = 0 BY DEF Handing
<1>5. \A n, k \in Names : \A j : j \in QueuedJobs(n)' /\ j \in QueuedJobs(k)' => n = k
  BY DEF Handing
<1> QED BY <1>2, <1>3, <1>4, <1>5 DEF Handing

\* A call is handed out as it comes: it is a new one.
LEMMA HandingCallGive ==
    ASSUME IInv, Handing, [Next]_vars, NEW c \in Conns, NEW r \in Requests[c], RecvCallGive(c, r)
    PROVE  Handing'
<1> DEFINE x == <<c, calls[c] + 1>>
<1>1. Call(c, r) /\ given' = [given EXCEPT ![x] = @ + 1] /\ CallCounted(c)
  BY DEF RecvCallGive, Handed, Call
<1>2. x \in Job BY <1>1, CallFacts
<1>3. calls \in [Conns -> 0 .. MaxCalls] /\ calls[c] \in Int /\ given \in [Job -> Nat]
  BY BoundsAssumption DEF IInv, HistoryInv
<1>4. x[1] = c /\ x[2] = calls[c] + 1 OBVIOUS
<1>5. calls'[c] = calls[c] + 1 /\ \A d \in Conns : d # c => calls'[d] = calls[d]
  BY <1>1, <1>3 DEF CallCounted
<1> HIDE DEF x
<1>6. given[x] = 0
  <2>1. x[2] > calls[x[1]] BY <1>3, <1>4
  <2> QED BY <1>2, <2>1 DEF Handing
<1>7. given'[x] = 1 /\ \A j \in Job : j # x => given'[j] = given[j] BY <1>1, <1>2, <1>3, <1>6
<1>8. ASSUME NEW n \in Names PROVE QueuedJobs(n)' \subseteq QueuedJobs(n) /\ x \notin QueuedJobs(n)
  <2>1. \E ws : queue' = [queue EXCEPT ![r.names[1]].workers = ws] BY DEF RecvCallGive
  <2>2. r.names[1] \in Names BY <1>1, CallFacts
  <2>3. queue'[n].clients = queue[n].clients BY <2>1, <2>2, SameClients
  <2>4. QueuedJobs(n)' = QueuedJobs(n) BY <2>3 DEF QueuedJobs
  <2>5. x \notin QueuedJobs(n)
    <3> SUFFICES ASSUME x \in QueuedJobs(n) PROVE FALSE OBVIOUS
    <3>1. x[2] <= calls[x[1]] BY QueuedJobsMade
    <3> QED BY <1>3, <1>4, <3>1
  <2> QED BY <2>4, <2>5
<1>9. \A n \in Names : \A j \in QueuedJobs(n)' : j \in QueuedJobs(n) /\ j \in Job /\ j # x
  BY <1>8, QueuedJobsMade
<1>10. \A j \in Job : given'[j] <= 1 BY <1>7 DEF Handing
<1>11. \A n \in Names : \A j \in QueuedJobs(n)' : given'[j] = 0 BY <1>7, <1>9 DEF Handing
<1>12. ASSUME NEW j \in Job, j[2] > calls'[j[1]] PROVE given'[j] = 0
  <2>1. j[1] \in Conns /\ j[2] \in Int BY DEF Job
  <2>2. j # x BY <1>3, <1>4, <1>5, <1>12
  <2>3. j[2] > calls[j[1]]
    <3>1. CASE j[1] = c BY <1>3, <1>5, <1>12, <2>1, <3>1
    <3>2. CASE j[1] # c BY <1>5, <1>12, <2>1, <3>2
    <3> QED BY <3>1, <3>2
  <2> QED BY <1>7, <2>2, <2>3 DEF Handing
<1>13. \A n, k \in Names : \A j : j \in QueuedJobs(n)' /\ j \in QueuedJobs(k)' => n = k
  BY <1>8 DEF Handing
<1> QED BY <1>10, <1>11, <1>12, <1>13 DEF Handing

\* A call that waits leaves its queue when it is handed out.
LEMMA HandingAddGive ==
    ASSUME IInv, OrderInv, Handing, [Next]_vars,
           NEW w \in Conns, NEW n \in Names, AddWorkerGive(w, n)
    PROVE  Handing'
<1> DEFINE s == queue[n].clients
           cs == LeaveOther(conn, w, n)
           J == Jobs(cs, wait, w, s)
           R == Scanned(cs, wait, w, s)
           x == s[Least(J)].job
           t == queue'[n].clients
<1>1. /\ J # {} /\ given' = [given EXCEPT ![x] = @ + 1] /\ calls' = calls
      /\ queue' = [queue EXCEPT ![n].ex = TRUE, ![n].clients = Keep(s, DOMAIN s \ R)]
  BY DEF AddWorkerGive, Handed
<1>2. queue \in [Names -> LineType] /\ s \in Seq(MsgType) /\ Distinct(s) /\ given \in [Job -> Nat]
  BY MessagesType DEF IInv, QueueInv, HistoryInv, OrderInv
<1>3. J \in SUBSET DOMAIN s /\ DOMAIN s \in SUBSET Nat BY <1>2 DEF Jobs
<1>4. Least(J) \in J /\ \A j \in J : Least(J) <= j
  <2> HIDE DEF J
  <2> QED BY <1>1, <1>3, LeastProperty
<1>5. Least(J) \in R /\ Least(J) \in DOMAIN s
  <2>1. Verdict(cs, wait, w, s[Least(J)]) = "job" /\ Least(J) \in DOMAIN s BY <1>4 DEF Jobs
  <2> QED BY <1>4, <2>1 DEF Scanned
<1>6. t = Keep(s, DOMAIN s \ R)
  <2>1. queue'[n] = [queue[n] EXCEPT !.ex = TRUE, !.clients = Keep(s, DOMAIN s \ R)]
    <3> HIDE DEF R, s
    <3> QED BY <1>1, <1>2
  <2>2. queue[n] \in LineType BY <1>2
  <2> HIDE DEF R, s
  <2> QED BY <2>1, <2>2 DEF LineType, LineOf
<1>7. x \in QueuedJobs(n) BY <1>5 DEF QueuedJobs
<1>8. \A k \in Names : k # n => queue'[k] = queue[k]
  <2> HIDE DEF R, s
  <2> QED BY <1>1, <1>2
<1>9. x \notin QueuedJobs(n)' /\ QueuedJobs(n)' \subseteq QueuedJobs(n)
  <2> DEFINE K == DOMAIN s \ R
             p == Least(J)
  <2>1. p \in DOMAIN s /\ p \notin K /\ x = s[p].job BY <1>5
  <2>2. QueuedJobs(n) = {s[i].job : i \in DOMAIN s} /\ QueuedJobs(n)' = {t[i].job : i \in DOMAIN t}
    BY DEF QueuedJobs
  <2>3. K \in SUBSET DOMAIN s /\ t = Keep(s, K) BY <1>6
  <2> HIDE DEF s, t, K, p, x
  <2>4. /\ t \in Seq(MsgType) /\ Len(t) = Cardinality(K) /\ Cardinality(K) \in Nat
        /\ \A i \in 1 .. Cardinality(K) : Nth(K, i) \in K /\ t[i] = s[Nth(K, i)]
    BY <1>2, <2>3, KeepProperty
  <2>5. \A i \in DOMAIN t : Nth(K, i) \in K /\ t[i] = s[Nth(K, i)] BY <2>4
  <2>6. \A i \in DOMAIN t : t[i].job # x
    <3> SUFFICES ASSUME NEW i \in DOMAIN t, t[i].job = x PROVE FALSE OBVIOUS
    <3>1. Nth(K, i) \in K /\ s[Nth(K, i)].job = s[p].job BY <2>1, <2>5
    <3>2. Nth(K, i) = p BY <1>2, <2>1, <2>3, <3>1 DEF Distinct
    <3> QED BY <2>1, <3>1, <3>2
  <2>7. \A i \in DOMAIN t : t[i].job \in {s[k].job : k \in DOMAIN s} BY <2>3, <2>5
  <2> QED BY <2>2, <2>6, <2>7
<1> HIDE DEF s, cs, J, R, x, t
<1>10. \A k \in Names : QueuedJobs(k)' \subseteq QueuedJobs(k)
  <2>1. \A k \in Names : k # n => QueuedJobs(k)' = QueuedJobs(k) BY <1>8 DEF QueuedJobs
  <2> QED BY <1>9, <2>1
<1>11. x \in Job /\ given[x] = 0 /\ x[1] \in Conns /\ ~(x[2] > calls[x[1]])
  <2>1. x \in Job /\ x[1] \in Conns /\ x[2] <= calls[x[1]] /\ calls[x[1]] \in Int /\ x[2] \in Int
    BY <1>7, QueuedJobsMade
  <2> QED BY <1>7, <2>1 DEF Handing
<1>12. given'[x] = 1 /\ \A j \in Job : j # x => given'[j] = given[j] BY <1>1, <1>2, <1>11
<1>13. \A k \in Names : x \notin QueuedJobs(k)'
  <2>1. \A k \in Names : x \in QueuedJobs(k) => k = n BY <1>7 DEF Handing
  <2> QED BY <1>9, <1>10, <2>1
<1>14. \A k \in Names : \A j \in QueuedJobs(k)' : j \in QueuedJobs(k) /\ j \in Job /\ j # x
  BY <1>10, <1>13, QueuedJobsMade
<1>15. \A j \in Job : given'[j] <= 1 BY <1>12 DEF Handing
<1>16. \A k \in Names : \A j \in QueuedJobs(k)' : given'[j] = 0 BY <1>12, <1>14 DEF Handing
<1>17. \A j \in Job : j[2] > calls'[j[1]] => given'[j] = 0 BY <1>1, <1>11, <1>12 DEF Handing
<1>18. \A m, k \in Names : \A j : j \in QueuedJobs(m)' /\ j \in QueuedJobs(k)' => m = k
  BY <1>10 DEF Handing
<1> QED BY <1>15, <1>16, <1>17, <1>18 DEF Handing

\* A call that must wait is new, and waits in one queue.
LEMMA HandingEnqueue ==
    ASSUME IInv, Handing, [Next]_vars, NEW c \in Conns, NEW r \in Requests[c],
           RecvCallEnqueue(c, r)
    PROVE  Handing'
<1> DEFINE x == <<c, calls[c] + 1>>
<1>1. Call(c, r) /\ given' = given /\ CallCounted(c) BY DEF RecvCallEnqueue, Call
<1>2. x \in Job BY <1>1, CallFacts
<1>3. calls \in [Conns -> 0 .. MaxCalls] /\ calls[c] \in Int
  BY BoundsAssumption DEF IInv, HistoryInv
<1>4. x[1] = c /\ x[2] = calls[c] + 1 OBVIOUS
<1>5. \A d \in Conns : calls[d] \in Int /\ calls'[d] \in Int /\ calls[d] <= calls'[d] BY CallsGrow
<1>6. ASSUME NEW n \in Names
      PROVE  /\ QueuedJobs(n)' \subseteq QueuedJobs(n) \cup {x}
             /\ n # r.names[1] => QueuedJobs(n)' \subseteq QueuedJobs(n)
  <2> DEFINE s == queue[n].clients
             t == queue'[n].clients
  <2>1. QueuedJobs(n)' = {t[i].job : i \in DOMAIN t} /\ QueuedJobs(n) = {s[i].job : i \in DOMAIN s}
    BY DEF QueuedJobs
  <2>2. s \in Seq(MsgType) BY MessagesType
  <2>3. \/ n # r.names[1] /\ t = s
        \/ \E m \in MsgType : m.job = x /\ t = Insert(s, m) /\ n = r.names[1]
    BY ClientsInsert
  <2> HIDE DEF s, t, x
  <2>4. ASSUME NEW m \in MsgType, m.job = x, t = Insert(s, m)
        PROVE  {t[i].job : i \in DOMAIN t} \subseteq {s[i].job : i \in DOMAIN s} \cup {x}
    <3>1. PICK p : p = Position(s, m) OBVIOUS
    <3>2. /\ Len(s) \in Nat /\ DOMAIN s = 1 .. Len(s) /\ p \in 0 .. Len(s)
          /\ DOMAIN t = 1 .. Len(s) + 1
          /\ \A i \in 1 .. Len(s) + 1 :
                t[i] = IF i <= p THEN s[i] ELSE IF i = p + 1 THEN m ELSE s[i - 1]
      BY <2>2, <2>4, <3>1, InsertFacts
    <3>3. ASSUME NEW i \in DOMAIN t PROVE t[i] = m \/ \E k \in DOMAIN s : t[i] = s[k]
      <4>1. CASE i <= p BY <3>2, <4>1
      <4>2. CASE i = p + 1 BY <3>2, <4>2
      <4>3. CASE i > p + 1
        <5>1. i - 1 \in DOMAIN s /\ t[i] = s[i - 1] BY <3>2, <4>3
        <5> QED BY <5>1
      <4> QED BY <3>2, <4>1, <4>2, <4>3
    <3> QED BY <2>4, <3>3
  <2> QED BY <2>1, <2>3, <2>4
<1>7. \A n \in Names : x \notin QueuedJobs(n)
  <2> SUFFICES ASSUME NEW n \in Names, x \in QueuedJobs(n) PROVE FALSE OBVIOUS
  <2>1. x[2] <= calls[x[1]] BY QueuedJobsMade
  <2> QED BY <1>3, <1>4, <2>1
<1>8. given[x] = 0
  <2>1. x[2] > calls[x[1]] BY <1>3, <1>4
  <2> QED BY <1>2, <2>1 DEF Handing
<1> HIDE DEF x
<1>9. \A j \in Job : given'[j] <= 1 BY <1>1 DEF Handing
<1>10. \A n \in Names : \A j \in QueuedJobs(n)' : given'[j] = 0 BY <1>1, <1>6, <1>8 DEF Handing
<1>11. ASSUME NEW j \in Job, j[2] > calls'[j[1]] PROVE given'[j] = 0
  <2>1. j[1] \in Conns /\ j[2] \in Int BY DEF Job
  <2>2. j[2] > calls[j[1]] BY <1>5, <1>11, <2>1
  <2> QED BY <1>1, <2>2 DEF Handing
<1>12. ASSUME NEW n \in Names, NEW k \in Names, NEW j, j \in QueuedJobs(n)', j \in QueuedJobs(k)'
       PROVE  n = k
  <2>1. CASE j = x
    <3>1. n = r.names[1] /\ k = r.names[1] BY <1>6, <1>7, <1>12, <2>1
    <3> QED BY <3>1
  <2>2. CASE j # x
    <3>1. j \in QueuedJobs(n) /\ j \in QueuedJobs(k) BY <1>6, <1>12, <2>2
    <3> QED BY <3>1 DEF Handing
  <2> QED BY <2>1, <2>2
<1> QED BY <1>9, <1>10, <1>11, <1>12 DEF Handing

\* Every step keeps it.
LEMMA HandingStep ==
    ASSUME IInv, OrderInv, Handing, [Next]_vars
    PROVE  Handing'
<1>1. CASE \E c \in Conns : \E r \in Requests[c] : RecvCallGive(c, r) BY <1>1, HandingCallGive
<1>2. CASE \E w \in Conns, n \in Names : AddWorkerGive(w, n) BY <1>2, HandingAddGive
<1>3. CASE \E c \in Conns : \E r \in Requests[c] : RecvCallEnqueue(c, r) BY <1>3, HandingEnqueue
<1>4. CASE /\ \A c \in Conns : \A r \in Requests[c] : ~RecvCallGive(c, r)
           /\ \A w \in Conns, n \in Names : ~AddWorkerGive(w, n)
           /\ \A c \in Conns : \A r \in Requests[c] : ~RecvCallEnqueue(c, r)
  <2>1. given' = given BY <1>4, GivenKept
  <2>2. \A n \in Names : QueuedJobs(n)' \subseteq QueuedJobs(n)
    BY <1>4, ClientsShrink, ShrinkQueuedJobs
  <2> QED BY <2>1, <2>2, CallsGrow, HandingShrinks
<1> QED BY <1>1, <1>2, <1>3, <1>4

\* A call is handed to one worker at most, and never while it still waits,
\* whatever the interleaving of Loop::client_request, Loop::_add_worker, the
\* end of connections, delete_queue and the service thread.
THEOREM HandedOnceHolds == Spec => []HandedOnce
<1>1. Init => Handing
  <2> SUFFICES ASSUME Init PROVE Handing OBVIOUS
  <2>1. given = [j \in Job |-> 0] /\ queue = [n \in Names |-> NoQueue] BY DEF Init
  <2>2. \A n \in Names : QueuedJobs(n) = {} BY <2>1 DEF QueuedJobs, NoQueue
  <2>3. \A j \in Job : given[j] = 0 BY <2>1
  <2> QED BY <2>2, <2>3 DEF Handing
<1>2. IInv /\ OrderInv /\ Handing /\ [Next]_vars => Handing' BY HandingStep
<1>3. Handing => HandedOnce
  <2> SUFFICES ASSUME Handing PROVE HandedOnce OBVIOUS
  <2>1. \A n \in Names : \A i \in DOMAIN queue[n].clients : queue[n].clients[i].job \in QueuedJobs(n)
    BY DEF QueuedJobs
  <2> QED BY <2>1 DEF Handing, HandedOnce
<1> QED BY <1>1, <1>2, <1>3, InductiveInvariant, MessagesOrdered, PTL DEF Spec

-----------------------------------------------------------------------------
(* Where clients and workers stand *)

\* A worker that holds a call tells its client when it is lost, and one
\* without ids holds a call as long as it has a client.
Steady(x) ==
    /\ x.status = "worker_wait_result" => x.noid /\ x.fail
    /\ x.noid /\ x.client # None => x.status = "worker_wait_result"
Firm(cs) == \A w \in Conns : cs[w].sock = "open" => Steady(cs[w])

\* How x may become y while it gets no call.
Pose(x, y) ==
    /\ y.sock = x.sock /\ y.status = x.status /\ y.client = x.client
    /\ y.noid = x.noid /\ y.fail = x.fail
Idles(x, y) ==
    /\ y.client = x.client /\ y.noid = x.noid /\ y.fail = x.fail
    /\ x.status # "worker_wait_result" /\ y.status # "worker_wait_result"
Serves(x, y) ==
    y.sock = "open" =>
        /\ x.sock = "open"
        /\ \/ Pose(x, y)
           \/ Idles(x, y)
           \/ y.client = None /\ y.status # "worker_wait_result"

\* Client d still waits, where it waited; its status changes only when a scan
\* of the queue has found that its body is malformed.
Stays(cs, ws, ds, vs, d) ==
    /\ cs[d].status \in WaitsFor /\ ds[d].json = cs[d].json
    /\ ds[d].status = cs[d].status \/ ds[d].json = "malformed"
    /\ \A i \in AllIds : ws[i] = d => vs[i] = d
    /\ \A w \in Conns : cs[w].client = d /\ cs[w].noid => ds[w].client = d /\ ds[w].noid
StaysIf(cs, ws, ds, vs, d) ==
    ds[d].sock = "open" /\ ds[d].status \in WaitsFor => Stays(cs, ws, ds, vs, d)

\* Nobody gets a call or a new place to wait in, and who waits keeps its own;
\* nothing is said of the connections W.
EntriesLeft(ws, vs) == \A i \in AllIds : vs[i] \in {None, ws[i]}
Moves(W, cs, ws, ds, vs) ==
    /\ \A d \in Conns \ W : Serves(cs[d], ds[d]) /\ StaysIf(cs, ws, ds, vs, d)
    /\ EntriesLeft(ws, vs)

LEMMA ServesTrans ==
    ASSUME NEW x, NEW y, NEW z, Serves(x, y), Serves(y, z)
    PROVE  Serves(x, z)
<1> SUFFICES ASSUME z.sock = "open" PROVE Serves(x, z) BY DEF Serves
<1>1. y.sock = "open" /\ x.sock = "open" BY DEF Serves
<1>2. CASE Pose(x, y) /\ Pose(y, z) BY <1>1, <1>2 DEF Serves, Pose
<1>3. CASE Pose(x, y) /\ Idles(y, z) BY <1>1, <1>3 DEF Serves, Pose, Idles
<1>4. CASE Idles(x, y) /\ Pose(y, z) BY <1>1, <1>4 DEF Serves, Pose, Idles
<1>5. CASE Idles(x, y) /\ Idles(y, z) BY <1>1, <1>5 DEF Serves, Idles
<1>6. CASE z.client = None /\ z.status # "worker_wait_result" BY <1>1, <1>6 DEF Serves
<1>7. CASE y.client = None /\ y.status # "worker_wait_result"
  <2>1. CASE Pose(y, z) BY <1>1, <1>7, <2>1 DEF Serves, Pose
  <2>2. CASE Idles(y, z) BY <1>1, <1>7, <2>2 DEF Serves, Idles
  <2> QED BY <1>6, <2>1, <2>2 DEF Serves
<1> QED BY <1>1, <1>2, <1>3, <1>4, <1>5, <1>6, <1>7 DEF Serves

LEMMA MovesTrans ==
    ASSUME NEW cs, NEW ds, NEW es, NEW ws, NEW vs, NEW us, NEW W,
           Moves(W, cs, ws, ds, vs), Moves(W, ds, vs, es, us)
    PROVE  Moves(W, cs, ws, es, us)
<1>1. ASSUME NEW d \in Conns \ W PROVE Serves(cs[d], es[d])
  <2>1. Serves(cs[d], ds[d]) /\ Serves(ds[d], es[d]) BY DEF Moves
  <2> QED BY <2>1, ServesTrans
<1>2. \A i \in AllIds : us[i] \in {None, ws[i]} BY DEF Moves, EntriesLeft
<1>3. ASSUME NEW d \in Conns \ W, es[d].sock = "open", es[d].status \in WaitsFor
      PROVE  Stays(cs, ws, es, us, d)
  <2>1. Stays(ds, vs, es, us, d) BY <1>3 DEF Moves, StaysIf
  <2>2. Serves(ds[d], es[d]) BY DEF Moves
  <2>3. ds[d].sock = "open" /\ ds[d].status \in WaitsFor BY <1>3, <2>1, <2>2 DEF Stays, Serves
  <2>4. Stays(cs, ws, ds, vs, d) BY <2>3 DEF Moves, StaysIf
  <2> QED BY <2>1, <2>4 DEF Stays
<1> QED BY <1>1, <1>2, <1>3 DEF Moves, EntriesLeft, StaysIf

LEMMA MovesLess ==
    ASSUME NEW cs, NEW ds, NEW ws, NEW vs, Moves({}, cs, ws, ds, vs), NEW W
    PROVE  Moves(W, cs, ws, ds, vs)
BY DEF Moves

\* Nothing that matters here changes.
Still(x, y) == Pose(x, y) /\ y.json = x.json
LEMMA MovesStill ==
    ASSUME NEW cs, NEW ds, NEW ws, \A d \in Conns : Still(cs[d], ds[d])
    PROVE  Moves({}, cs, ws, ds, ws)
BY DEF Moves, EntriesLeft, Serves, Stays, StaysIf, Still, Pose
LEMMA StillAlike ==
    ASSUME NEW x, NEW y
    PROVE  /\ Alike(x, y) => Still(x, y)
           /\ Kept(x, y) => Still(x, y)
           /\ Same(x, y) /\ y.client = x.client => Still(x, y)
           /\ Still(x, x)
           /\ \A v : Renamed(x, y, v) => Still(x, y)
BY DEF Still, Pose, Alike, Kept, Same, Renamed
LEMMA MovesAlike ==
    ASSUME NEW cs, NEW ds, NEW ws, \A d \in Conns : Alike(cs[d], ds[d])
    PROVE  Moves({}, cs, ws, ds, ws)
BY StillAlike, MovesStill

\* One connection gets a status that is not that of a worker with a call,
\* nor of a client that waits.
LEMMA MovesStatus ==
    ASSUME NEW cs \in Objects, NEW ws, NEW c \in Conns, NEW s \in Statuses,
           s \notin WaitsFor, s # "worker_wait_result",
           cs[c].sock = "open" => cs[c].status # "worker_wait_result" \/ cs[c].client = None
    PROVE  Moves({}, cs, ws, SetStatus(cs, c, s), ws)
<1>1. PICK ds : ds = SetStatus(cs, c, s) OBVIOUS
<1>2. /\ \A d \in Conns : d # c => ds[d] = cs[d]
      /\ ds[c].status = s /\ Restated(cs[c], ds[c])
  BY <1>1, StatusDoes
<1>3. ASSUME NEW d \in Conns PROVE Serves(cs[d], ds[d])
  <2>1. CASE d # c BY <1>2, <2>1 DEF Serves, Pose
  <2>2. CASE d = c BY <1>2, <2>2 DEF Serves, Idles, Restated
  <2> QED BY <2>1, <2>2
<1>4. ASSUME NEW w \in Conns PROVE ds[w].client = cs[w].client /\ ds[w].noid = cs[w].noid
  BY <1>2 DEF Restated
<1>5. ASSUME NEW d \in Conns, ds[d].status \in WaitsFor PROVE Stays(cs, ws, ds, ws, d)
  BY <1>2, <1>4, <1>5 DEF Stays
<1> QED BY <1>1, <1>3, <1>5 DEF Moves, EntriesLeft, StaysIf

-----------------------------------------------------------------------------
(* How the parts of the handlers move clients and workers *)

\* Where a client waits shows in its status.
LEMMA WaitsSomewhere ==
    ASSUME NEW cs, NEW ws, NEW Q, Placed(cs, ws, Q), NEW d \in Conns, cs[d].sock = "open",
           Registered(ws, d) # {} \/ Served(cs, d) # {}
    PROVE  cs[d].status \in WaitsFor
BY DEF Placed, NoPlace

\* Loop::worker_result.
LEMMA ResultMoves ==
    ASSUME NEW cs, NEW ws, NEW Q, Placed(cs, ws, Q), cs \in Objects, NEW i \in AllIds,
           ws[i] \in Conns, NEW vs, \A j \in AllIds : vs[j] = IF j = i THEN None ELSE ws[j]
    PROVE  Moves({}, cs, ws, ResultClient(cs, ws, i), vs)
<1>1. PICK c, ds : c = ws[i] /\ ds = ResultClient(cs, ws, i) OBVIOUS
<1>2. /\ \A d \in Conns : d # c => Alike(cs[d], ds[d])
      /\ ds[c].sock = cs[c].sock /\ ds[c].noid = cs[c].noid
      /\ ds[c].fail = cs[c].fail /\ ds[c].client = cs[c].client
      /\ ds[c].status = IF cs[c].sock = "open" THEN "net" ELSE cs[c].status
  BY <1>1, ResultDoes
<1>3. EntriesLeft(ws, vs) BY DEF EntriesLeft
<1>4. cs[c].sock = "open" => cs[c].status \in WaitsFor
  <2>1. Registered(ws, c) # {} BY <1>1 DEF Registered
  <2> QED BY <1>1, <2>1, WaitsSomewhere
<1>5. ASSUME NEW d \in Conns PROVE Serves(cs[d], ds[d])
  <2>1. CASE d # c BY <1>2, <2>1 DEF Alike, Same, Serves, Pose
  <2>2. CASE d = c BY <1>2, <1>4, <2>2 DEF Serves, Idles, WaitsFor
  <2> QED BY <2>1, <2>2
<1>6. ASSUME NEW w \in Conns PROVE ds[w].client = cs[w].client /\ ds[w].noid = cs[w].noid
  BY <1>2 DEF Alike, Same
<1>7. ASSUME NEW d \in Conns, ds[d].sock = "open", ds[d].status \in WaitsFor
      PROVE  Stays(cs, ws, ds, vs, d)
  <2>1. d # c BY <1>2, <1>7 DEF WaitsFor
  <2>2. Alike(cs[d], ds[d]) BY <1>2, <2>1
  <2>3. \A j \in AllIds : ws[j] = d => vs[j] = d BY <1>1, <2>1
  <2> QED BY <1>6, <1>7, <2>2, <2>3 DEF Stays, Alike, Same
<1> QED BY <1>1, <1>3, <1>5, <1>7 DEF Moves, StaysIf

\* What worker_result_noid makes of the others.
Answered(x, y, b) ==
    /\ y.sock = x.sock /\ y.client = x.client /\ y.noid = x.noid /\ y.fail = x.fail
    /\ y.json = x.json
    /\ y.status = IF b /\ x.sock = "open" THEN "net" ELSE x.status
LEMMA NoIdResultIs ==
    ASSUME NEW cs \in Objects, NEW w \in Conns, cs[w].client # None
    PROVE  \A x \in Conns : x # w => Answered(cs[x], NoIdResult(cs, w)[x], x = cs[w].client)
<1>1. PICK d, e : d = cs[w].client /\ e = Unserve(cs, w) OBVIOUS
<1>2. /\ d \in Conns /\ e \in Objects
      /\ \A v \in Conns : Same(cs[v], e[v]) /\ (v # w => e[v].client = cs[v].client)
  BY <1>1, UnserveDoes
<1>3. PICK y : y = [e[w] EXCEPT !.noid = IF cs[w].wm THEN @ ELSE FALSE,
                               !.fail = IF cs[w].wm THEN @ ELSE FALSE]
  OBVIOUS
<1>4. y \in ConnType /\ y.sock = e[w].sock
  <2>1. e[w] \in ConnType BY <1>2 DEF Objects
  <2>2. PICK a, b \in BOOLEAN : /\ a = IF cs[w].wm THEN e[w].noid ELSE FALSE
                               /\ b = IF cs[w].wm THEN e[w].fail ELSE FALSE
    BY <2>1, ObjectFields
  <2>3. [e[w] EXCEPT !.noid = a] \in ConnType BY <2>1, FieldType
  <2>4. [[e[w] EXCEPT !.noid = a] EXCEPT !.fail = b] \in ConnType BY <2>3, FieldType
  <2>5. y = [[e[w] EXCEPT !.noid = a] EXCEPT !.fail = b] BY <1>3, <2>1, <2>2 DEF ConnType
  <2> QED BY <2>1, <2>2, <2>4, <2>5 DEF ConnType
<1>5. PICK u : u = [e EXCEPT ![w] = y] OBVIOUS
<1>6. u \in Objects /\ \A v \in Conns : u[v] = IF v = w THEN y ELSE e[v]
  BY <1>2, <1>4, <1>5 DEF Objects
<1>7. NoIdResult(cs, w) = IF cs[d].sock # "open" THEN u ELSE Send(SetStatus(u, d, "net"), d)
  <2>1. u = [Unlink(cs, d) EXCEPT ![w].client = None,
                                  ![w].noid = IF cs[w].wm THEN @ ELSE FALSE,
                                  ![w].fail = IF cs[w].wm THEN @ ELSE FALSE]
    <3>1. Unlink(cs, d) \in Objects BY <1>2, UnlinkDoes
    <3>2. e = [Unlink(cs, d) EXCEPT ![w].client = None] BY <1>1 DEF Unserve
    <3> QED BY <1>3, <1>5, <3>1, <3>2 DEF Objects
  <2> QED BY <1>1, <2>1 DEF NoIdResult, IsClosed
<1>8. ASSUME NEW x \in Conns, x # w PROVE Same(cs[x], u[x]) /\ u[x].client = cs[x].client
  BY <1>2, <1>6, <1>8
<1>9. CASE cs[d].sock # "open"
  <2> SUFFICES ASSUME NEW x \in Conns, x # w PROVE Answered(cs[x], u[x], x = d)
    BY <1>1, <1>7, <1>9
  <2> QED BY <1>8, <1>9 DEF Answered, Same
<1>10. CASE cs[d].sock = "open"
  <2>1. PICK t, v : t = SetStatus(u, d, "net") /\ v = Send(t, d) OBVIOUS
  <2>2. PICK s \in Statuses : s = "net" BY Values
  <2>3. /\ t \in Objects /\ \A x \in Conns : x # d => t[x] = u[x]
        /\ t[d].status = "net" /\ Restated(u[d], t[d])
    BY <1>2, <1>6, <2>1, <2>2, StatusDoes
  <2>4. \A x \in Conns : Alike(t[x], v[x]) BY <1>2, <2>1, <2>3, SendDoes
  <2> SUFFICES ASSUME NEW x \in Conns, x # w PROVE Answered(cs[x], v[x], x = d)
    BY <1>1, <1>7, <1>10, <2>1
  <2>5. CASE x = d BY <1>8, <1>10, <2>3, <2>4, <2>5 DEF Answered, Same, Alike, Restated
  <2>6. CASE x # d BY <1>8, <2>3, <2>4, <2>6 DEF Answered, Same, Alike
  <2> QED BY <2>5, <2>6
<1> QED BY <1>9, <1>10

\* Loop::worker_result_noid.
LEMMA NoIdResultMoves ==
    ASSUME NEW X, NEW cs, NEW ws, NEW Q, Sound(X, cs, ws, Q), NEW w \in Conns,
           cs[w].client # None, cs[w].noid, cs[w].status \notin WaitsFor
    PROVE  Moves({w}, cs, ws, NoIdResult(cs, w), ws)
<1>1. PICK d, ds : d = cs[w].client /\ ds = NoIdResult(cs, w) OBVIOUS
<1>2. cs \in Objects /\ Placed(cs, ws, Q) BY DEF Sound
<1>3. d \in Conns BY <1>1, <1>2, ObjectFields DEF Objects
<1>4. \A x \in Conns : x # w => Answered(cs[x], ds[x], x = d) BY <1>1, <1>2, NoIdResultIs
<1>5. cs[d].sock = "open" => cs[d].status \in WaitsFor
  <2>1. Served(cs, d) # {} BY <1>1 DEF Served
  <2> QED BY <1>2, <1>3, <2>1, WaitsSomewhere
<1>6. ASSUME NEW x \in Conns \ {w} PROVE Serves(cs[x], ds[x])
  BY <1>4, <1>5 DEF Serves, Answered, Pose, Idles, WaitsFor
<1>7. ASSUME NEW x \in Conns \ {w}, ds[x].sock = "open", ds[x].status \in WaitsFor
      PROVE  Stays(cs, ws, ds, ws, x)
  <2>1. Answered(cs[x], ds[x], x = d) BY <1>4
  <2>2. x # d BY <1>7, <2>1 DEF Answered, WaitsFor
  <2>3. ASSUME NEW v \in Conns, cs[v].client = x PROVE ds[v].client = x /\ ds[v].noid = cs[v].noid
    BY <1>1, <1>4, <2>2, <2>3 DEF Answered
  <2> QED BY <1>7, <2>1, <2>2, <2>3 DEF Stays, Answered
<1> QED BY <1>1, <1>6, <1>7 DEF Moves, StaysIf, EntriesLeft

\* Loop::on_disconnect up to the entry of wait_response.
LEMMA DropOwnMoves ==
    ASSUME OwnHeaderIds, NEW cs, NEW ws, NEW Q, Sound({}, cs, ws, Q), NEW c \in Conns,
           cs[c].sock = "open"
    PROVE  /\ Moves({}, cs, ws, DropOwn(cs, ws, c), DropEntry(cs, ws, c))
           /\ Pose(cs[c], [DropOwn(cs, ws, c)[c] EXCEPT !.sock = "open"])
           /\ DropOwn(cs, ws, c)[c].sock = "closed"
<1>1. PICK ds, vs, p : ds = DropOwn(cs, ws, c) /\ vs = DropEntry(cs, ws, c) /\ p = PopItem(cs, c)
  OBVIOUS
<1>2. cs \in Objects /\ ws \in WaitType BY DEF Sound
<1>3. /\ p \in Objects /\ \A d \in Conns : d # c => p[d] = cs[d]
      /\ p[c].status = cs[c].status /\ p[c].sock = cs[c].sock /\ p[c].noid = cs[c].noid
      /\ p[c].fail = cs[c].fail /\ p[c].client = cs[c].client
  BY <1>1, <1>2, PopDoes
<1>4. PICK k : ds = [p EXCEPT ![c].sock = "closed", ![c].wr = FALSE, ![c].dm = 0, ![c].out = 0,
                             ![c].link = k]
  <2>1. CASE cs[c].status = "client_wait_result" /\ cs[c].id # None /\ ws[cs[c].id] # None
    <3>1. ds = [p EXCEPT ![c].sock = "closed", ![c].wr = FALSE, ![c].dm = 0, ![c].out = 0,
                         ![c].link = p[c].link - 1]
      BY <1>1, <1>3, <2>1 DEF DropOwn, Objects, ConnType
    <3> QED BY <3>1
  <2>2. CASE ~(cs[c].status = "client_wait_result" /\ cs[c].id # None /\ ws[cs[c].id] # None)
    <3>1. ds = [p EXCEPT ![c].sock = "closed", ![c].wr = FALSE, ![c].dm = 0, ![c].out = 0,
                         ![c].link = p[c].link]
      BY <1>1, <1>3, <2>2 DEF DropOwn, Objects, ConnType
    <3> QED BY <3>1
  <2> QED BY <2>1, <2>2
<1>5. /\ \A d \in Conns : d # c => ds[d] = cs[d]
      /\ ds[c].status = cs[c].status /\ ds[c].sock = "closed" /\ ds[c].noid = cs[c].noid
      /\ ds[c].fail = cs[c].fail /\ ds[c].client = cs[c].client
      /\ [ds[c] EXCEPT !.sock = "open"].sock = "open"
      /\ [ds[c] EXCEPT !.sock = "open"].status = ds[c].status
      /\ [ds[c] EXCEPT !.sock = "open"].client = ds[c].client
      /\ [ds[c] EXCEPT !.sock = "open"].noid = ds[c].noid
      /\ [ds[c] EXCEPT !.sock = "open"].fail = ds[c].fail
  BY <1>3, <1>4 DEF Objects, ConnType
<1>6. EntriesLeft(ws, vs) /\ \A i \in AllIds : \A d \in Conns : d # c /\ ws[i] = d => vs[i] = d
  <2>1. CASE cs[c].status = "client_wait_result" /\ cs[c].id # None
    <3>1. PICK i : i = cs[c].id OBVIOUS
    <3>2. i \in AllIds /\ ws[i] \in {None, c} BY <2>1, <3>1, EntryIsOwn
    <3>3. vs = [ws EXCEPT ![i] = None] BY <1>1, <2>1, <3>1 DEF DropEntry
    <3> QED BY <1>2, <3>2, <3>3, NoneAssumption DEF WaitType, EntriesLeft
  <2>2. CASE ~(cs[c].status = "client_wait_result" /\ cs[c].id # None)
    <3>1. vs = ws BY <1>1, <2>2 DEF DropEntry
    <3> QED BY <3>1 DEF EntriesLeft
  <2> QED BY <2>1, <2>2
<1>7. ASSUME NEW d \in Conns PROVE Serves(cs[d], ds[d]) BY <1>5 DEF Serves, Pose
<1>8. ASSUME NEW w \in Conns PROVE ds[w].client = cs[w].client /\ ds[w].noid = cs[w].noid
  BY <1>5
<1>9. ASSUME NEW d \in Conns, ds[d].sock = "open", ds[d].status \in WaitsFor
      PROVE  Stays(cs, ws, ds, vs, d)
  <2>1. d # c BY <1>5, <1>9
  <2> QED BY <1>5, <1>6, <1>8, <1>9, <2>1 DEF Stays
<1>10. Moves({}, cs, ws, ds, vs) BY <1>6, <1>7, <1>9 DEF Moves, StaysIf
<1> QED BY <1>1, <1>5, <1>10 DEF Pose

\* A closed worker with ids is rid of its client.
LEMMA UnserveMoves ==
    ASSUME NEW cs \in Objects, NEW ws, NEW w \in Conns, cs[w].client # None,
           ~cs[w].noid, cs[w].sock # "open"
    PROVE  Moves({}, cs, ws, Unserve(cs, w), ws)
<1>1. PICK ds : ds = Unserve(cs, w) OBVIOUS
<1>2. \A e \in Conns : /\ Same(cs[e], ds[e])
                       /\ ds[e].client = IF e = w THEN None ELSE cs[e].client
  BY <1>1, UnserveDoes
<1>3. ASSUME NEW d \in Conns PROVE Serves(cs[d], ds[d]) BY <1>2 DEF Serves, Pose, Same
<1>4. ASSUME NEW d \in Conns, ds[d].status \in WaitsFor PROVE Stays(cs, ws, ds, ws, d)
  BY <1>2, <1>4 DEF Stays, Same
<1> QED BY <1>1, <1>3, <1>4 DEF Moves, StaysIf, EntriesLeft

\* What becomes of the client of a closed worker.
LEMMA FailClientMoves ==
    ASSUME NEW cs, NEW ws, NEW Q, NEW c \in Conns, Sound({c}, cs, ws, Q), cs[c].sock = "closed"
    PROVE  Moves({}, cs, ws, FailClient(cs, ws, c), FailEntry(cs, ws, c))
<1>1. PICK ds, vs, d : /\ ds = FailClient(cs, ws, c) /\ vs = FailEntry(cs, ws, c)
                       /\ d = cs[c].client
  OBVIOUS
<1>2. cs \in Objects /\ ws \in WaitType /\ Fits({c}, c, cs[c]) /\ Placed(cs, ws, Q) BY DEF Sound
<1>3. CASE d = None
  <2>1. ds = cs BY <1>1, <1>3 DEF FailClient
  <2>2. vs = ws BY <1>1, <1>3 DEF FailEntry
  <2> QED BY <1>1, <2>1, <2>2, StillAlike, MovesStill
<1>4. ASSUME d # None PROVE cs[c].fail /\ d \in Conns /\ ~(~cs[c].fail \/ d = None)
  BY <1>1, <1>2, <1>4, ObjectFields DEF Fits, Objects
<1>5. CASE d # None /\ cs[c].noid
  <2>1. PICK s \in Statuses : s = "net" BY Values
  <2>2. PICK s0 : s0 = IF IsClosed(cs, d) THEN cs ELSE Send(cs, d) OBVIOUS
  <2>3. s0 \in Objects /\ \A x \in Conns : Alike(cs[x], s0[x])
    <3>1. CASE IsClosed(cs, d) BY <1>2, <2>2, <3>1 DEF Alike, Same
    <3>2. CASE ~IsClosed(cs, d)
      <4>1. s0 = Send(cs, d) BY <2>2, <3>2
      <4>2. /\ Send(cs, d) \in Objects
            /\ \A x \in Conns : Alike(cs[x], Send(cs, d)[x])
        BY <1>2, <1>4, <1>5, SendDoes
      <4> QED BY <4>1, <4>2
    <3> QED BY <3>1, <3>2
  <2>4. PICK s1 : s1 = SetStatus(s0, d, s) OBVIOUS
  <2>5. /\ s1 \in Objects /\ \A x \in Conns : x # d => s1[x] = s0[x]
        /\ s1[d].status = s /\ Restated(s0[d], s1[d])
    BY <1>4, <1>5, <2>3, <2>4, StatusDoes
  <2>6. PICK s2 : s2 = Unlink(s1, d) OBVIOUS
  <2>7. /\ s2 \in Objects
        /\ \A x \in Conns : Same(s1[x], s2[x]) /\ s2[x].client = s1[x].client
    BY <1>4, <1>5, <2>5, <2>6, UnlinkDoes
  <2>8. ds = [s2 EXCEPT ![c].client = None]
    BY <1>1, <1>4, <1>5, <2>1, <2>2, <2>4, <2>6 DEF FailClient
  <2>9. \A x \in Conns : /\ Same(s2[x], ds[x])
                         /\ ds[x].client = IF x = c THEN None ELSE s2[x].client
    <3>1. s2 \in Objects /\ None \in Conns \cup {None} BY <2>7
    <3>2. LET v == [s2 EXCEPT ![c].client = None]
          IN  /\ v \in Objects
              /\ \A x \in Conns : /\ Same(s2[x], v[x]) /\ v[x].link = s2[x].link
                                  /\ v[x].client = IF x = c THEN None ELSE s2[x].client
      BY <3>1, ClientDoes
    <3> QED BY <2>8, <3>2, Zenon
  <2>10. \A x \in Conns : /\ ds[x].sock = cs[x].sock /\ ds[x].noid = cs[x].noid
                          /\ ds[x].fail = cs[x].fail /\ ds[x].json = cs[x].json
                          /\ ds[x].client = IF x = c THEN None ELSE cs[x].client
                          /\ ds[x].status = IF x = d THEN "net" ELSE cs[x].status
    <3> SUFFICES ASSUME NEW x \in Conns
                 PROVE  /\ ds[x].sock = cs[x].sock /\ ds[x].noid = cs[x].noid
                        /\ ds[x].fail = cs[x].fail /\ ds[x].json = cs[x].json
                        /\ ds[x].client = IF x = c THEN None ELSE cs[x].client
                        /\ ds[x].status = IF x = d THEN "net" ELSE cs[x].status
      OBVIOUS
    <3>1. /\ Alike(cs[x], s0[x]) /\ Same(s1[x], s2[x]) /\ s2[x].client = s1[x].client
          /\ Same(s2[x], ds[x]) /\ ds[x].client = IF x = c THEN None ELSE s2[x].client
      BY <2>3, <2>7, <2>9
    <3>2. CASE x = d BY <2>1, <2>5, <3>1, <3>2 DEF Alike, Same, Restated
    <3>3. CASE x # d BY <2>5, <3>1, <3>3 DEF Alike, Same
    <3> QED BY <3>2, <3>3
  <2>11. cs[d].sock = "open" => cs[d].status \in WaitsFor
    <3>1. Served(cs, d) # {} BY <1>1, <1>5 DEF Served
    <3> QED BY <1>2, <1>4, <1>5, <3>1, WaitsSomewhere
  <2>12. vs = ws BY <1>1, <1>5 DEF FailEntry
  <2>13. ASSUME NEW x \in Conns PROVE Serves(cs[x], ds[x])
    <3>1. CASE x = c BY <2>10, <3>1 DEF Serves
    <3>2. CASE x # c /\ x = d BY <2>10, <2>11, <3>2 DEF Serves, Idles, WaitsFor
    <3>3. CASE x # c /\ x # d BY <2>10, <3>3 DEF Serves, Pose
    <3> QED BY <3>1, <3>2, <3>3
  <2>14. ASSUME NEW x \in Conns, ds[x].status \in WaitsFor PROVE Stays(cs, ws, ds, ws, x)
    <3>1. x # d BY <2>10, <2>14 DEF WaitsFor
    <3>2. \A w \in Conns : cs[w].client = x => ds[w].client = x BY <1>1, <2>10, <3>1
    <3> QED BY <2>10, <2>14, <3>1, <3>2 DEF Stays
  <2> QED BY <1>1, <2>12, <2>13, <2>14 DEF Moves, StaysIf, EntriesLeft
<1>6. CASE d # None /\ ~cs[c].noid
  <2>0. cs[c].fail /\ d \in Conns /\ ~(~cs[c].fail \/ d = None) BY <1>4, <1>6
  <2>1. PICK R : R = IF cs[d].id = None \/ ws[cs[d].id] = None THEN cs
                     ELSE ResultClient(cs, ws, cs[d].id)
    OBVIOUS
  <2>2. ds = [Unlink(R, d) EXCEPT ![c].client = None] BY <1>1, <1>6, <2>0, <2>1 DEF FailClient
  <2>3. cs[d].id # None => cs[d].id \in AllIds BY <1>2, <2>0, ObjectFields DEF Objects
  <2>4. /\ R \in Objects /\ Moves({}, cs, ws, R, vs)
        /\ R[c].client = d /\ R[c].sock = cs[c].sock /\ R[c].noid = cs[c].noid
    <3>1. CASE cs[d].id = None \/ ws[cs[d].id] = None
      <4>1. R = cs BY <2>1, <3>1
      <4>2. vs = ws
        <5>1. CASE cs[d].id = None BY <1>1, <5>1 DEF FailEntry
        <5>2. CASE cs[d].id # None
          <6>1. vs = [ws EXCEPT ![cs[d].id] = None] BY <1>1, <1>6, <2>0, <5>2 DEF FailEntry
          <6> QED BY <1>2, <2>3, <3>1, <5>2, <6>1 DEF WaitType
        <5> QED BY <5>1, <5>2
      <4> QED BY <1>1, <1>2, <4>1, <4>2, StillAlike, MovesStill
    <3>2. CASE ~(cs[d].id = None \/ ws[cs[d].id] = None)
      <4>1. PICK i : i = cs[d].id OBVIOUS
      <4>2. i \in AllIds /\ ws[i] # None /\ ws[i] \in Conns
        BY <1>2, <2>3, <3>2, <4>1 DEF WaitType
      <4>3. R = ResultClient(cs, ws, i) BY <2>1, <3>2, <4>1
      <4>4. vs = [ws EXCEPT ![i] = None] BY <1>1, <1>6, <2>0, <3>2, <4>1 DEF FailEntry
      <4>5. \A j \in AllIds : vs[j] = IF j = i THEN None ELSE ws[j] BY <1>2, <4>4 DEF WaitType
      <4>6. Moves({}, cs, ws, R, vs) BY <1>2, <4>2, <4>3, <4>5, ResultMoves
      <4>7. PICK x \in Conns : x = ws[i] BY <4>2
      <4>8. /\ R \in Objects
            /\ \A v \in Conns : v # x => Alike(cs[v], R[v])
            /\ R[x].sock = cs[x].sock /\ R[x].noid = cs[x].noid /\ R[x].client = cs[x].client
        BY <1>2, <4>3, <4>7, ResultDoes
      <4>9. R[c].sock = cs[c].sock /\ R[c].noid = cs[c].noid /\ R[c].client = cs[c].client
        <5>1. CASE c = x BY <4>8, <5>1
        <5>2. CASE c # x
          <6>1. Alike(cs[c], R[c]) BY <4>8, <5>2
          <6> QED BY <6>1 DEF Alike, Same
        <5> QED BY <5>1, <5>2
      <4> QED BY <1>1, <4>6, <4>8, <4>9
    <3> QED BY <3>1, <3>2
  <2>5. ds = Unserve(R, c) BY <2>2, <2>4 DEF Unserve
  <2>6. Moves({}, R, vs, Unserve(R, c), vs) BY <1>6, <2>4, UnserveMoves
  <2>7. Moves({}, cs, ws, ds, vs) BY <2>4, <2>5, <2>6, MovesTrans
  <2> QED BY <1>1, <2>7
<1> QED BY <1>3, <1>5, <1>6

\* A worker without a client, whose end is the end of the loop thread.
Stranded(x) == x.noid /\ x.fail /\ x.status = "worker_wait_result" /\ x.client = None

\* Loop::_close.
LEMMA DisconnectMoves ==
    ASSUME OwnHeaderIds, NEW cs, NEW ws, NEW Q, Sound({}, cs, ws, Q), NEW c \in Conns,
           cs[c].sock = "open", Steady(cs[c]), Disconnect(cs, ws, c)
    PROVE  /\ Moves({}, cs, ws, conn', wait')
           /\ Placed(conn', wait', Q)
           /\ alive' = alive \/ Stranded(cs[c])
<1>1. PICK cs1, ws1 : cs1 = DropOwn(cs, ws, c) /\ ws1 = DropEntry(cs, ws, c) OBVIOUS
<1>2. Sound({c}, cs1, ws1, Q) /\ cs1[c].sock = "closed" /\ cs1[c].item = None
  BY <1>1, DropOwnSound
<1>3. /\ Moves({}, cs, ws, cs1, ws1)
      /\ Pose(cs[c], [cs1[c] EXCEPT !.sock = "open"])
  BY <1>1, DropOwnMoves
<1>4. cs1 \in Objects BY <1>2 DEF Sound
<1>5. CASE DisconnectThrows(cs1, c)
  <2>1. conn' = cs1 /\ wait' = ws1 /\ alive' = FALSE BY <1>1, <1>5 DEF Disconnect
  <2>2. Placed(cs1, ws1, Q) BY <1>2 DEF Sound
  <2>3. /\ cs1[c].status = cs[c].status /\ cs1[c].client = cs[c].client
        /\ cs1[c].noid = cs[c].noid /\ cs1[c].fail = cs[c].fail
    BY <1>3, <1>4 DEF Pose, Objects, ConnType
  <2>4. Stranded(cs[c]) BY <1>5, <2>3 DEF DisconnectThrows, Steady, Stranded
  <2> QED BY <1>3, <2>1, <2>2, <2>4
<1>6. CASE ~DisconnectThrows(cs1, c)
  <2>1. PICK cs2, ws2 : cs2 = FailClient(cs1, ws1, c) /\ ws2 = FailEntry(cs1, ws1, c) OBVIOUS
  <2>2. Sound({c}, cs2, ws2, Q) /\ cs2[c].client = None /\ cs2[c].sock = "closed"
        /\ cs2[c].item = None
    BY <1>2, <2>1, FailClientSound
  <2>3. Moves({}, cs1, ws1, cs2, ws2) BY <1>2, <2>1, FailClientMoves
  <2>4. PICK cs3 : cs3 = Unlink(cs2, c) OBVIOUS
  <2>5. Sound({}, cs3, ws2, Q) BY <2>2, <2>4, ClosedSound
  <2>6. conn' = cs3 /\ wait' = ws2 /\ alive' = alive BY <1>1, <1>6, <2>1, <2>4 DEF Disconnect
  <2>7. cs2 \in Objects BY <2>2 DEF Sound
  <2>8. \A d \in Conns : Same(cs2[d], cs3[d]) /\ cs3[d].client = cs2[d].client
    BY <2>4, <2>7, UnlinkDoes
  <2>9. Moves({}, cs2, ws2, cs3, ws2) BY <2>8, StillAlike, MovesStill
  <2>10. Moves({}, cs, ws, cs2, ws2) BY <1>3, <2>3, MovesTrans
  <2>11. Moves({}, cs, ws, cs3, ws2) BY <2>9, <2>10, MovesTrans
  <2>12. Placed(cs3, ws2, Q) BY <2>5 DEF Sound
  <2> QED BY <2>6, <2>11, <2>12
<1> QED BY <1>5, <1>6

\* A request begins: a connection that is no working worker lets go of its client.
LEMMA StartMoves ==
    ASSUME NEW cs, NEW ds, NEW ws, NEW c \in Conns, NEW r, Started(cs, ds, c, r),
           cs[c].status \notin WaitsFor, Steady(cs[c])
    PROVE  Moves({}, cs, ws, ds, ws)
<1>1. ASSUME NEW d \in Conns PROVE Serves(cs[d], ds[d])
  BY DEF Started, Serves, Pose
<1>2. ASSUME NEW d \in Conns, ds[d].status \in WaitsFor PROVE Stays(cs, ws, ds, ws, d)
  <2>1. ds[d].status = cs[d].status BY DEF Started
  <2>2. d # c BY <1>2, <2>1
  <2>3. ds[d].json = cs[d].json BY <2>2 DEF Started
  <2>4. ASSUME NEW w \in Conns, cs[w].client = d, cs[w].noid
        PROVE  ds[w].client = d /\ ds[w].noid
    <3>1. CASE w = c
      <4>1. cs[c].status = "worker_wait_result" BY <2>4, <3>1, NoneAssumption DEF Steady
      <4> QED BY <2>4, <3>1, <4>1 DEF Started
    <3>2. CASE w # c BY <2>4, <3>2 DEF Started
    <3> QED BY <3>1, <3>2
  <2> QED BY <1>2, <2>1, <2>3, <2>4 DEF Stays
<1> QED BY <1>1, <1>2 DEF Moves, StaysIf, EntriesLeft

\* A scan of the queued messages refuses clients, and no more.
LEMMA ScanMoves ==
    ASSUME NEW cs \in Objects, NEW ws, NEW w, NEW s \in Seq(OwnedMsg),
           calls \in [Conns -> 0 .. MaxCalls], Scanned(cs, ws, w, s) \in Parts(s)
    PROVE  Moves({}, cs, ws, AfterScan(cs, ws, w, s), ws)
<1>1. PICK ds : ds = AfterScan(cs, ws, w, s) OBVIOUS
<1>2. ASSUME NEW d \in Conns
      PROVE  /\ ScanKept(cs[d], ds[d])
             /\ ds[d].status \in {cs[d].status, "busy", "net"}
             /\ ds[d].status = cs[d].status \/ ds[d].status = "net" \/ Refused(cs, ws, w, s, d, "noid")
  <2>1. PICK y : y = AfterScan(cs, ws, w, s)[d] OBVIOUS
  <2>2. /\ ScanKept(cs[d], y)
        /\ \/ y.status = cs[d].status /\ y.id = cs[d].id
           \/ y.status = "busy"
           \/ y.status = "net" /\ \E i \in Scanned(cs, ws, w, s) : s[i].conn = d
        /\ y.status = cs[d].status \/ y.status = "net" \/ Refused(cs, ws, w, s, d, "noid")
    BY <2>1, ScanConn
  <2> QED BY <1>1, <2>1, <2>2
<1>3. ASSUME NEW d \in Conns PROVE Serves(cs[d], ds[d])
  <2>1. /\ ScanKept(cs[d], ds[d]) /\ ds[d].status \in {cs[d].status, "busy", "net"} BY <1>2
  <2>2. CASE ds[d].status = cs[d].status BY <2>1, <2>2 DEF ScanKept, Serves, Pose
  <2>3. CASE ds[d].status # cs[d].status
    <3>1. cs[d].status = "client_wait_result" BY <2>1, <2>3 DEF ScanKept
    <3> QED BY <2>1, <2>3, <3>1 DEF ScanKept, Serves, Idles
  <2> QED BY <2>2, <2>3
<1>4. ASSUME NEW d \in Conns, ds[d].status \in WaitsFor PROVE Stays(cs, ws, ds, ws, d)
  <2>1. /\ ScanKept(cs[d], ds[d])
        /\ ds[d].status = cs[d].status \/ Refused(cs, ws, w, s, d, "noid")
    BY <1>2, <1>4 DEF WaitsFor
  <2>2. cs[d].status \in WaitsFor BY <1>4, <2>1 DEF ScanKept, WaitsFor
  <2>3. Refused(cs, ws, w, s, d, "noid") => cs[d].json = "malformed"
    <3> SUFFICES ASSUME Refused(cs, ws, w, s, d, "noid") PROVE cs[d].json = "malformed" OBVIOUS
    <3>1. PICK i \in Scanned(cs, ws, w, s) : s[i].conn = d /\ Verdict(cs, ws, w, s[i]) = "noid"
      BY DEF Refused
    <3> QED BY <3>1 DEF Verdict, NoIdFound
  <2>4. \A v \in Conns : ds[v].client = cs[v].client /\ ds[v].noid = cs[v].noid
    BY <1>2 DEF ScanKept
  <2> QED BY <2>1, <2>2, <2>3, <2>4 DEF Stays, ScanKept
<1> QED BY <1>1, <1>3, <1>4 DEF Moves, StaysIf, EntriesLeft

-----------------------------------------------------------------------------
(* The call that is served *)

\* What a worker holds is the current call of its client, and so is what is
\* queued and what is registered.
CurrentQueued ==
    \A n \in Names : \A i \in DOMAIN queue[n].clients :
        LET m == queue[n].clients[i] IN
        m.conn # None /\ Open(m.conn) => m.job = CurrentCall(m.conn)
CurrentServed ==
    \A w \in Conns :
        conn[w].status = "worker_wait_result" /\ Open(w) /\ conn[w].client # None
            /\ Open(conn[w].client) => task[w] = CurrentCall(conn[w].client)
CurrentRegistered ==
    \A i \in AllIds : wait[i] # None /\ Open(wait[i]) => task[i] = CurrentCall(wait[i])
RouteInv ==
    /\ LinkInv
    /\ Placed(conn, wait, queue) /\ Firm(conn)
    /\ CurrentQueued /\ CurrentServed /\ CurrentRegistered

\* A connection that waits nowhere: a new one, or one whose peer may call.
Nowhere(d) == NoPlace(conn, wait, queue, d)

\* A connection that may enter worker mode.
Resident(w) == \E r \in Requests[w] : r.op = "worker"

\* What a step that hands out no call has to show: its connections W are new,
\* or have no client.
Exempt(w) ==
    conn'[w].sock = "open" =>
        /\ Steady(conn'[w]) /\ conn'[w].client = None
        /\ conn'[w].status = "worker_wait_result" => adding'.conn = w /\ Resident(w)
        /\ Open(w) \/ Nowhere(w)
Routed ==
    /\ \E W \in SUBSET Conns : Moves(W, conn, wait, conn', wait') /\ \A w \in W : Exempt(w)
    /\ Placed(conn', wait', queue')
    /\ alive' = alive \/ \E c \in Conns : Open(c) /\ Stranded(conn[c]) /\ adding.conn = None

\* Calls are counted for connections that wait nowhere.
CallsKept == \A d \in Conns : Open(d)' => Nowhere(d) \/ (Open(d) /\ calls'[d] = calls[d])

LEMMA FirmKept ==
    ASSUME Firm(conn), Routed
    PROVE  Firm(conn')
<1>1. PICK W \in SUBSET Conns : /\ Moves(W, conn, wait, conn', wait')
                                /\ \A w \in W : Exempt(w)
  BY DEF Routed
<1> SUFFICES ASSUME NEW w \in Conns, conn'[w].sock = "open" PROVE Steady(conn'[w]) BY DEF Firm
<1>2. CASE w \in W BY <1>1, <1>2 DEF Exempt
<1>3. CASE w \notin W
  <2>1. Serves(conn[w], conn'[w]) BY <1>1, <1>3 DEF Moves
  <2>2. Steady(conn[w]) BY <2>1 DEF Serves, Firm
  <2> QED BY <2>1, <2>2 DEF Serves, Pose, Idles, Steady
<1> QED BY <1>2, <1>3

LEMMA CurrentKept ==
    ASSUME Firm(conn), CurrentServed, CurrentRegistered, Routed, task' = task, CallsKept,
           IInv
    PROVE  CurrentServed' /\ CurrentRegistered'
<1>1. PICK W \in SUBSET Conns : /\ Moves(W, conn, wait, conn', wait')
                                /\ \A w \in W : Exempt(w)
  BY DEF Routed
<1>2. \A w \in Conns : conn[w].client \in Conns \cup {None}
  <2>1. conn \in Connections(Named) BY NamedConnections DEF IInv
  <2>2. conn \in Objects BY <2>1, AreObjects
  <2> QED BY <2>2, ObjectFields DEF Objects
<1>3. CurrentServed'
  <2> SUFFICES ASSUME NEW w \in Conns, conn'[w].status = "worker_wait_result",
                      conn'[w].sock = "open", conn'[w].client # None,
                      conn'[conn'[w].client].sock = "open"
               PROVE  task'[w] = <<conn'[w].client, calls'[conn'[w].client]>>
    BY DEF CurrentServed, Open, CurrentCall
  <2>1. w \notin W BY <1>1 DEF Exempt
  <2>2. Serves(conn[w], conn'[w]) BY <1>1, <2>1 DEF Moves
  <2>3. Pose(conn[w], conn'[w]) /\ Open(w) BY <2>2 DEF Serves, Idles, Open
  <2>4. PICK d : d = conn[w].client OBVIOUS
  <2>5. d \in Conns /\ conn'[w].client = d /\ conn'[d].sock = "open"
    BY <1>2, <2>3, <2>4 DEF Pose
  <2>6. ~Nowhere(d)
    <3>1. Steady(conn[w]) BY <2>3 DEF Firm, Open
    <3>2. w \in Served(conn, d) BY <2>3, <2>4, <3>1 DEF Served, Steady, Pose
    <3> QED BY <3>2 DEF Nowhere, NoPlace
  <2>7. Open(d) /\ calls'[d] = calls[d] BY <2>5, <2>6 DEF CallsKept, Open
  <2>8. task[w] = CurrentCall(d)
    <3>1. conn[w].status = "worker_wait_result" /\ d # None BY <2>3, <2>5 DEF Pose
    <3> QED BY <2>3, <2>4, <2>7, <3>1 DEF CurrentServed
  <2> QED BY <2>5, <2>7, <2>8 DEF CurrentCall
<1>4. CurrentRegistered'
  <2> SUFFICES ASSUME NEW i \in AllIds, wait'[i] # None, conn'[wait'[i]].sock = "open"
               PROVE  task'[i] = <<wait'[i], calls'[wait'[i]]>>
    BY DEF CurrentRegistered, Open, CurrentCall
  <2>1. wait'[i] = wait[i] BY <1>1 DEF Moves, EntriesLeft
  <2>2. PICK d \in Conns : d = wait[i] BY <2>1 DEF IInv, WaitType
  <2>3. ~Nowhere(d)
    <3>1. i \in Registered(wait, d) BY <2>2 DEF Registered
    <3> QED BY <3>1 DEF Nowhere, NoPlace
  <2>4. Open(d) /\ calls'[d] = calls[d] BY <2>1, <2>2, <2>3 DEF CallsKept, Open
  <2>5. task[i] = CurrentCall(d) BY <2>1, <2>2, <2>4 DEF CurrentRegistered
  <2> QED BY <2>1, <2>2, <2>4, <2>5 DEF CurrentCall
<1> QED BY <1>3, <1>4

\* The messages that stay are of the current calls, too.
LEMMA CurrentLeft ==
    ASSUME IInv, CurrentQueued, CallsKept, NEW n \in Names,
           NEW i \in DOMAIN queue[n].clients, NEW m, m = queue[n].clients[i],
           m.conn # None, Open(m.conn)'
    PROVE  m.job = CurrentCall(m.conn)' /\ calls'[m.conn] = calls[m.conn]
<1>1. m.conn \in Conns
  <2>1. queue[n].clients \in Seq(MsgType) BY MessagesType
  <2>2. m \in MsgType BY <2>1
  <2> QED BY <2>2 DEF MsgType
<1>2. ~Nowhere(m.conn)
  <2>1. queue \in Queues BY QueuesAre DEF IInv
  <2>2. <<n, i>> \in Queued(queue, m.conn) BY <2>1, QueuedAt
  <2> QED BY <2>2 DEF Nowhere, NoPlace
<1>3. Open(m.conn) /\ calls'[m.conn] = calls[m.conn] BY <1>1, <1>2 DEF CallsKept
<1> QED BY <1>3 DEF CurrentQueued, CurrentCall

\* No message is added.
LEMMA QueuedShrinks ==
    ASSUME IInv, CurrentQueued, CallsKept,
           \A n \in Names : LineShrinks(queue[n].clients, queue'[n].clients)
    PROVE  CurrentQueued'
<1> SUFFICES ASSUME NEW n \in Names, NEW i \in DOMAIN queue'[n].clients,
                    NEW m, m = queue'[n].clients[i], m.conn # None, Open(m.conn)'
             PROVE  m.job = CurrentCall(m.conn)'
  BY DEF CurrentQueued
<1>1. PICK s, t : s = queue[n].clients /\ t = queue'[n].clients OBVIOUS
<1>2. s \in Seq(MsgType) /\ LineShrinks(s, t) BY <1>1, MessagesType
<1>3. \E j \in DOMAIN s : t[i] = s[j]
  <2>1. CASE t = s BY <1>1, <2>1
  <2>2. CASE t = << >> BY <1>1, <2>2
  <2>3. ASSUME NEW K \in SUBSET DOMAIN s, t = Keep(s, K) PROVE \E j \in DOMAIN s : t[i] = s[j]
    <3>1. /\ t \in Seq(MsgType) /\ Len(t) = Cardinality(K) /\ Cardinality(K) \in Nat
          /\ \A k \in 1 .. Cardinality(K) : Nth(K, k) \in K /\ t[k] = s[Nth(K, k)]
      BY <1>2, <2>3, KeepProperty
    <3>2. i \in 1 .. Cardinality(K) BY <1>1, <3>1
    <3> QED BY <3>1, <3>2
  <2> QED BY <1>2, <2>1, <2>2, <2>3 DEF LineShrinks
<1>4. PICK j \in DOMAIN queue[n].clients : m = queue[n].clients[j] BY <1>1, <1>3
<1> QED BY <1>4, CurrentLeft
-----------------------------------------------------------------------------
(* Every step of the loop: connections *)

\* A step that begins while the loop runs.
LoopStep == RouteInv /\ alive /\ LinkInv'

LEMMA LoopFacts ==
    ASSUME LoopStep
    PROVE  /\ IInv /\ IInv' /\ LinkState /\ Firm(conn)
           /\ Sound({}, conn, wait, queue) /\ conn \in Objects /\ queue \in Queues
           /\ Placed(conn, wait, queue) /\ conn' \in Objects
<1>1. LinkInv /\ LinkInv' /\ alive BY DEF LoopStep, RouteInv
<1>2. IInv /\ IInv' /\ LinkState BY <1>1 DEF LinkInv
<1>3. Sound({}, conn, wait, queue) /\ Firm(conn) BY <1>2 DEF LinkState, LoopStep, RouteInv
<1>4. conn \in Objects /\ queue \in Queues /\ Placed(conn, wait, queue) BY <1>3 DEF Sound
<1>5. conn' \in Objects
  <2>1. conn' \in Connections(Named')
    BY <1>2, NamedConnections DEF IInv, ConnInv, Connections, Named
  <2> QED BY <2>1, AreObjects
<1> QED BY <1>2, <1>3, <1>4, <1>5

\* The loop goes on.
LEMMA RoutedOn ==
    ASSUME LoopStep, alive' = alive, NEW W \in SUBSET Conns,
           Moves(W, conn, wait, conn', wait'), \A w \in W : Exempt(w)
    PROVE  Routed
<1>1. Placed(conn', wait', queue')
  <2>1. LinkState' BY DEF LoopStep, LinkInv
  <2> QED BY <2>1 DEF LinkState, Sound
<1> QED BY <1>1 DEF Routed

\* Nobody is exempt.
LEMMA RoutedAll ==
    ASSUME LoopStep, alive' = alive, Moves({}, conn, wait, conn', wait')
    PROVE  Routed
<1>1. PICK W : W = {} OBVIOUS
<1> QED BY <1>1, RoutedOn

\* A connection in order stays so.
LEMMA ServesSteady ==
    ASSUME NEW x, NEW y, Serves(x, y), y.sock = "open", x.sock = "open" => Steady(x)
    PROVE  Steady(y) /\ (Stranded(y) => Stranded(x))
  BY DEF Serves, Pose, Idles, Steady, Stranded

\* A connection is closed, after some preparation.
LEMMA DisconnectRouted ==
    ASSUME OwnHeaderIds, LoopStep, adding = Idle, queue' = queue, NEW c \in Conns,
           NEW cs, Sound({}, cs, wait, queue), cs[c].sock = "open",
           Moves({}, conn, wait, cs, wait), Disconnect(cs, wait, c)
    PROVE  Routed
<1>1. Serves(conn[c], cs[c]) BY DEF Moves
<1>2. Firm(conn) BY LoopFacts
<1>3. Open(c) /\ Steady(cs[c]) /\ (Stranded(cs[c]) => Stranded(conn[c]))
  <2>1. conn[c].sock = "open" BY <1>1 DEF Serves
  <2>2. Steady(conn[c]) BY <1>2, <2>1 DEF Firm
  <2> QED BY <1>1, <2>1, <2>2, ServesSteady DEF Open
<1>4. /\ Moves({}, cs, wait, conn', wait') /\ Placed(conn', wait', queue)
      /\ alive' = alive \/ Stranded(cs[c])
  BY <1>3, DisconnectMoves
<1>5. Moves({}, conn, wait, conn', wait') BY <1>4, MovesTrans
<1>6. PICK W \in SUBSET Conns : W = {} OBVIOUS
<1>7. adding.conn = None BY DEF Idle
<1> QED BY <1>3, <1>4, <1>5, <1>6, <1>7 DEF Routed

LEMMA MovesSame ==
    ASSUME NEW cs, NEW ws
    PROVE  Moves({}, cs, ws, cs, ws)
  BY MovesStill DEF Still, Pose

LEMMA SendMoves ==
    ASSUME NEW cs \in Objects, NEW ws, NEW c \in Conns
    PROVE  Moves({}, cs, ws, Send(cs, c), ws)
<1>1. \A d \in Conns : Alike(cs[d], Send(cs, c)[d]) BY SendDoes
<1> QED BY <1>1, MovesAlike

LEMMA PeerCloseRouted ==
    ASSUME OwnHeaderIds, LoopStep, NEW c \in Conns, PeerClose(c)
    PROVE  Routed
<1>1. conn[c].sock = "open" /\ adding = Idle BY DEF PeerClose, LoopReady, IsClosed
<1>2. Disconnect(conn, wait, c) /\ queue' = queue BY DEF PeerClose
<1>3. Sound({}, conn, wait, queue) BY LoopFacts
<1> QED BY <1>1, <1>2, <1>3, MovesSame, DisconnectRouted

LEMMA OnSendRouted ==
    ASSUME OwnHeaderIds, LoopStep, NEW c \in Conns, OnSend(c)
    PROVE  Routed
<1>1. conn[c].sock = "open" /\ adding = Idle BY DEF OnSend, LoopReady, IsClosed
<1>2. Sound({}, conn, wait, queue) /\ conn \in Objects BY LoopFacts
<1>3. conn[c] \in ConnType BY <1>2 DEF Objects
<1>4. PICK k : k = IF conn[c].out > 0 THEN conn[c].out ELSE IF conn[c].dm > 0 THEN 1 ELSE 0
  OBVIOUS
<1>5. PICK m : m = IF conn[c].out = 0 THEN conn[c].dm - k ELSE conn[c].dm OBVIOUS
<1>6. k \in Int /\ m \in Int
  <2>1. conn[c].out \in Int /\ conn[c].dm \in Int BY <1>3, ObjectFields
  <2> QED BY <1>4, <1>5, <2>1
<1>7. PICK cs : cs = [conn EXCEPT ![c] = Buffered(conn[c], 0, FALSE, m)] OBVIOUS
<1>8. Sound({}, cs, wait, queue) /\ \A d \in Conns : Alike(conn[d], cs[d])
  <2>1. PICK o, b : o = 0 /\ b = FALSE OBVIOUS
  <2>2. Rebuffers(conn, cs, c, o, b, m) BY <1>7, <2>1 DEF Rebuffers
  <2>3. o \in Int BY <2>1
  <2>4. b \in BOOLEAN BY <2>1, Zenon
  <2> QED BY <1>2, <1>6, <2>2, <2>3, <2>4, BufferSound
<1>9. cs[c].sock = "open" BY <1>1, <1>8 DEF Alike, Same
<1>10. cs = [conn EXCEPT ![c].out = 0, ![c].wr = FALSE,
                         ![c].dm = IF conn[c].out = 0 THEN @ - k ELSE @]
  BY <1>2, <1>5, <1>7 DEF Buffered, Objects
<1>11. /\ IF conn[c].ka THEN conn' = cs /\ wait' = wait /\ alive' = alive
          ELSE Disconnect(cs, wait, c)
       /\ queue' = queue
  BY <1>4, <1>10 DEF OnSend
<1>12. Moves({}, conn, wait, cs, wait) BY <1>8, MovesAlike
<1>13. CASE conn[c].ka BY <1>11, <1>12, <1>13, RoutedAll
<1>14. CASE ~conn[c].ka BY <1>1, <1>8, <1>9, <1>11, <1>12, <1>14, DisconnectRouted
<1> QED BY <1>13, <1>14

LEMMA OnSendPartRouted ==
    ASSUME LoopStep, NEW c \in Conns, OnSendPart(c)
    PROVE  Routed
<1>1. conn \in Objects BY LoopFacts
<1>2. conn[c] \in ConnType BY <1>1 DEF Objects
<1>3. conn[c].dm \in Int /\ conn[c].wr \in BOOLEAN BY <1>2, ObjectFields
<1>4. PICK m, b : m = conn[c].dm - 1 /\ b = conn[c].wr OBVIOUS
<1>5. PICK y : y = Buffered(conn[c], 1, b, m) OBVIOUS
<1>6. conn' = [conn EXCEPT ![c] = y]
  <2>1. [conn[c] EXCEPT !.out = 1, !.dm = @ - 1] = y BY <1>2, <1>4, <1>5 DEF Buffered, ConnType
  <2>2. conn' = [conn EXCEPT ![c] = [conn[c] EXCEPT !.out = 1, !.dm = @ - 1]]
    BY <1>1 DEF OnSendPart, Objects
  <2> QED BY <2>1, <2>2
<1>7. Alike(conn[c], y)
  <2>1. PICK o : o = 1 OBVIOUS
  <2>2. o \in Int /\ m \in Int BY <1>3, <1>4, <2>1
  <2>3. Alike(conn[c], Buffered(conn[c], o, b, m)) BY <1>2, <1>3, <1>4, <2>2, BuffersDo
  <2> QED BY <1>5, <2>1, <2>3
<1>8. \A d \in Conns : Alike(conn[d], conn'[d]) BY <1>1, <1>6, <1>7 DEF Objects, Alike, Same
<1>9. wait' = wait /\ alive' = alive BY DEF OnSendPart
<1> QED BY <1>8, <1>9, MovesAlike, RoutedAll

LEMMA DeleteConnectionsRouted ==
    ASSUME LoopStep, DeleteConnections
    PROVE  Routed
<1>1. conn \in Objects BY LoopFacts
<1>2. PICK D : /\ \A d \in D : d \in Conns => conn[d].sock = "closed"
               /\ conn' = [d \in Conns |-> IF d \in D THEN [conn[d] EXCEPT !.sock = "freed"]
                                            ELSE conn[d]]
               /\ wait' = wait /\ alive' = alive
  BY DEF DeleteConnections
<1>3. \A d \in Conns : /\ Serves(conn[d], conn'[d])
                       /\ conn'[d].sock = "open" => conn'[d] = conn[d]
                       /\ conn'[d].client = conn[d].client /\ conn'[d].noid = conn[d].noid
  BY <1>1, <1>2 DEF Objects, ConnType, Serves, Pose
<1>4. Moves({}, conn, wait, conn', wait')
  BY <1>2, <1>3 DEF Moves, StaysIf, Stays, EntriesLeft
<1> QED BY <1>2, <1>4, RoutedAll
-----------------------------------------------------------------------------
(* Every step of the loop: requests and results *)

\* One connection without a client changes.
LEMMA MovesOne ==
    ASSUME NEW cs, NEW ds, NEW ws, NEW c \in Conns, cs[c].client = None,
           \A d \in Conns : d # c => Still(cs[d], ds[d])
    PROVE  Moves({c}, cs, ws, ds, ws)
<1>1. ASSUME NEW d \in Conns, d # c
      PROVE  Serves(cs[d], ds[d]) /\ StaysIf(cs, ws, ds, ws, d)
  <2>1. Still(cs[d], ds[d]) BY <1>1
  <2>2. Serves(cs[d], ds[d]) BY <2>1 DEF Still, Pose, Serves
  <2>3. \A w \in Conns : cs[w].client = d /\ cs[w].noid => ds[w].client = d /\ ds[w].noid
    <3>1. d # None BY NoneAssumption
    <3> QED BY <3>1 DEF Still, Pose
  <2> QED BY <2>1, <2>2, <2>3 DEF Still, Pose, StaysIf, Stays
<1> QED BY <1>1 DEF Moves, EntriesLeft

\* A request begins.
LEMMA StartGoes ==
    ASSUME LoopStep, NEW c \in Conns, NEW r \in Requests[c], Parsed(c, r)
    PROVE  /\ Moves({}, conn, wait, Start(conn, c, r), wait)
           /\ Start(conn, c, r) \in Objects
           /\ conn[c].sock = "open" /\ conn[c].status \notin WaitsFor
<1>1. IInv /\ LinkState /\ Firm(conn) BY LoopFacts
<1>2. /\ Sound({}, Start(conn, c, r), wait, queue) /\ Started(conn, Start(conn, c, r), c, r)
      /\ conn[c].sock = "open" /\ conn[c].status \notin WaitsFor
  BY <1>1, StartLinks
<1>3. Steady(conn[c]) BY <1>1, <1>2 DEF Firm
<1>4. PICK cs : cs = Start(conn, c, r) OBVIOUS
<1>5. Started(conn, cs, c, r) BY <1>2, <1>4
<1>6. Moves({}, conn, wait, cs, wait) BY <1>2, <1>3, <1>5, StartMoves
<1>7. cs \in Objects BY <1>2, <1>4 DEF Sound
<1> QED BY <1>2, <1>4, <1>6, <1>7

LEMMA RecvNotReadyRouted ==
    ASSUME LoopStep, NEW c \in Conns, NEW r \in Requests[c], RecvNotReady(c, r)
    PROVE  Routed
<1>1. conn' = conn /\ wait' = wait /\ alive' = alive BY DEF RecvNotReady, brokerVars
<1>2. Moves({}, conn, wait, conn, wait) BY MovesSame
<1> QED BY <1>1, <1>2, RoutedAll

LEMMA RecvThrowsRouted ==
    ASSUME OwnHeaderIds, LoopStep, NEW c \in Conns, NEW r \in Requests[c], RecvThrows(c, r)
    PROVE  Routed
<1>1. adding = Idle /\ conn[c].sock = "open" BY LoopFacts, ArrivalFacts DEF RecvThrows
<1>2. conn[c].status # "client_wait_result" BY DEF RecvThrows, Ready
<1>3. PICK v \in AllIds \cup {None} : v = None OBVIOUS
<1>4. PICK cs : cs = IdSet(conn, c, v) OBVIOUS
<1>5. Sound({}, conn, wait, queue) /\ conn \in Objects BY LoopFacts
<1>6. Sound({}, cs, wait, queue) BY <1>2, <1>4, <1>5, IdSound
<1>7. Renamed(conn[c], cs[c], v) /\ \A d \in Conns : d # c => cs[d] = conn[d]
  BY <1>4, <1>5, IdDoes
<1>8. \A d \in Conns : Still(conn[d], cs[d]) BY <1>7, StillAlike
<1>9. Moves({}, conn, wait, cs, wait) BY <1>8, MovesStill
<1>10. Disconnect(cs, wait, c) /\ queue' = queue
  BY <1>3, <1>4 DEF RecvThrows, IdSet
<1>11. cs[c].sock = "open" BY <1>1, <1>7 DEF Renamed
<1> QED BY <1>1, <1>6, <1>9, <1>10, <1>11, DisconnectRouted

\* A request is answered, and nothing else changes.
LEMMA AnswerRouted ==
    ASSUME LoopStep, NEW c \in Conns, NEW r \in Requests[c], Parsed(c, r),
           conn' = Send(Start(conn, c, r), c), wait' = wait, alive' = alive
    PROVE  Routed
<1>1. Moves({}, conn, wait, Start(conn, c, r), wait) /\ Start(conn, c, r) \in Objects
  BY StartGoes
<1>2. Moves({}, Start(conn, c, r), wait, conn', wait) BY <1>1, SendMoves
<1>3. Moves({}, conn, wait, conn', wait') BY <1>1, <1>2, MovesTrans
<1> QED BY <1>3, RoutedAll

LEMMA RecvEchoRouted ==
    ASSUME LoopStep, NEW c \in Conns, NEW r \in Requests[c], RecvEcho(c, r)
    PROVE  Routed
  BY AnswerRouted DEF RecvEcho

LEMMA RecvCallNoQueueRouted ==
    ASSUME LoopStep, NEW c \in Conns, NEW r \in Requests[c], RecvCallNoQueue(c, r)
    PROVE  Routed
  BY AnswerRouted DEF RecvCallNoQueue, Call, Plain

LEMMA RecvCreateRouted ==
    ASSUME LoopStep, NEW c \in Conns, NEW r \in Requests[c], RecvCreate(c, r)
    PROVE  Routed
  BY AnswerRouted DEF RecvCreate, Plain

LEMMA RecvNoIdRouted ==
    ASSUME OwnHeaderIds, LoopStep, NEW c \in Conns, NEW r \in Requests[c], RecvNoId(c, r)
    PROVE  Routed
<1>1. PICK cs : cs = Start(conn, c, r) OBVIOUS
<1>2. Parsed(c, r) /\ cs[c].noid /\ queue' = queue BY <1>1 DEF RecvNoId
<1>3. /\ Sound({}, cs, wait, queue) /\ Started(conn, cs, c, r) /\ cs[c].sock = "open"
      /\ adding = Idle /\ conn[c].status \notin WaitsFor
  BY <1>1, <1>2, LoopFacts, StartLinks
<1>4. Moves({}, conn, wait, cs, wait) /\ cs \in Objects BY <1>1, <1>2, StartGoes
<1>5. CASE r.op # "result"
  <2>1. conn' = Send(Start(conn, c, r), c) /\ wait' = wait /\ alive' = alive
    BY <1>5 DEF RecvNoId
  <2> QED BY <1>2, <2>1, AnswerRouted
<1>6. CASE r.op = "result" /\ cs[c].client = None
  <2>1. Disconnect(cs, wait, c) BY <1>1, <1>6 DEF RecvNoId
  <2> QED BY <1>2, <1>3, <1>4, <2>1, DisconnectRouted
<1>7. CASE r.op = "result" /\ cs[c].client # None
  <2>1. PICK ds : ds = NoIdResult(cs, c) OBVIOUS
  <2>2. conn' = Send(SetStatus(ds, c, "net"), c) /\ wait' = wait /\ alive' = alive
    BY <1>1, <1>7, <2>1 DEF RecvNoId
  <2>3. Sound({}, ds, wait, queue) /\ Rid(cs[c], ds[c])
    BY <1>2, <1>3, <1>7, <2>1, NoIdResultDoes
  <2>4. Moves({c}, cs, wait, ds, wait)
    <3>1. cs[c].status \notin WaitsFor BY <1>3 DEF Started
    <3> QED BY <1>2, <1>3, <1>7, <2>1, <3>1, NoIdResultMoves
  <2>5. PICK s \in Statuses : s = "net" BY Values
  <2>6. ds \in Objects BY <2>3 DEF Sound
  <2>7. PICK es : es = SetStatus(ds, c, s) OBVIOUS
  <2>8. es \in Objects /\ es[c].status = s /\ Restated(ds[c], es[c]) BY <2>6, <2>7, StatusDoes
  <2>9. Moves({}, ds, wait, es, wait)
    <3>1. s \notin WaitsFor /\ s # "worker_wait_result" BY <2>5 DEF WaitsFor
    <3>2. ds[c].client = None BY <2>3 DEF Rid
    <3> QED BY <2>6, <2>7, <3>1, <3>2, MovesStatus
  <2>10. conn' = Send(es, c) BY <2>2, <2>5, <2>7
  <2>11. Moves({}, es, wait, conn', wait) BY <2>8, <2>10, SendMoves
  <2>12. Moves({c}, conn, wait, conn', wait')
    <3>1. /\ Moves({c}, conn, wait, cs, wait) /\ Moves({c}, ds, wait, es, wait)
          /\ Moves({c}, es, wait, conn', wait)
      BY <1>4, <2>9, <2>11, MovesLess
    <3>2. Moves({c}, conn, wait, ds, wait) BY <2>4, <3>1, MovesTrans
    <3>3. Moves({c}, conn, wait, es, wait) BY <3>1, <3>2, MovesTrans
    <3> QED BY <2>2, <3>1, <3>3, MovesTrans
  <2>13. Alike(es[c], conn'[c]) BY <2>8, <2>10, SendDoes
  <2>14. Exempt(c)
    <3>1. conn'[c].client = None /\ conn'[c].status = "net"
      BY <2>3, <2>5, <2>8, <2>13 DEF Rid, Restated, Alike, Same
    <3>2. Open(c) BY <1>3 DEF Started, Open
    <3> QED BY <3>1, <3>2 DEF Exempt, Steady
  <2> QED BY <2>2, <2>12, <2>14, RoutedOn
<1> QED BY <1>5, <1>6, <1>7

LEMMA RecvResultRouted ==
    ASSUME LoopStep, NEW c \in Conns, NEW r \in Requests[c], RecvResult(c, r)
    PROVE  Routed
<1>1. PICK cs : cs = Start(conn, c, r) OBVIOUS
<1>2. Plain(c, r, {"result"}) BY DEF RecvResult
<1>3. Parsed(c, r) /\ cs[c].status = "net" BY <1>1, <1>2, LoopFacts, PlainLinks
<1>4. Sound({}, cs, wait, queue) /\ r \in RequestType BY <1>1, <1>3, LoopFacts, StartLinks
<1>5. PICK i : i = IF r.id # None THEN r.id ELSE IF r.json \in Ids THEN r.json ELSE None
  OBVIOUS
<1>6. i # None => i \in AllIds
  <2>1. r.id \in AllIds \cup {None} BY <1>4, RequestFacts
  <2> QED BY <1>5, <2>1 DEF AllIds
<1>7. PICK ds : ds = IF i # None /\ wait[i] # None THEN ResultClient(cs, wait, i) ELSE cs
  OBVIOUS
<1>8. /\ conn' = SetStatus(Send(ds, c), c, "net")
      /\ wait' = IF i # None /\ wait[i] # None THEN [wait EXCEPT ![i] = None] ELSE wait
      /\ alive' = alive
  BY <1>1, <1>5, <1>7 DEF RecvResult
<1>9. Moves({}, conn, wait, cs, wait) /\ cs \in Objects BY <1>1, <1>3, StartGoes
<1>10. Moves({}, cs, wait, ds, wait') /\ ds \in Objects /\ ds[c].status = "net"
  <2>1. CASE i # None /\ wait[i] # None
    <3>1. i \in AllIds BY <1>6, <2>1
    <3>2. wait \in WaitType /\ Placed(cs, wait, queue) BY <1>4 DEF Sound
    <3>3. PICK b \in Conns : wait[i] = b BY <2>1, <3>1, <3>2 DEF WaitType
    <3>4. PICK es : es = ResultClient(cs, wait, i) OBVIOUS
    <3>5. /\ es \in Objects /\ \A d \in Conns : d # b => Alike(cs[d], es[d])
          /\ es[b].status = IF cs[b].sock = "open" THEN "net" ELSE cs[b].status
      BY <1>9, <3>3, <3>4, ResultDoes
    <3>6. es[c].status = "net" BY <1>3, <3>5 DEF Alike, Same
    <3>7. \A j \in AllIds : wait'[j] = IF j = i THEN None ELSE wait[j]
      BY <1>8, <2>1, <3>2 DEF WaitType
    <3>8. Moves({}, cs, wait, es, wait') BY <1>9, <3>1, <3>2, <3>3, <3>4, <3>7, ResultMoves
    <3> QED BY <1>7, <2>1, <3>4, <3>5, <3>6, <3>8
  <2>2. CASE ~(i # None /\ wait[i] # None)
    <3>1. ds = cs /\ wait' = wait BY <1>7, <1>8, <2>2
    <3>2. Moves({}, cs, wait, cs, wait) BY MovesSame
    <3> QED BY <1>3, <1>9, <3>1, <3>2
  <2> QED BY <2>1, <2>2
<1>11. PICK es : es = Send(ds, c) OBVIOUS
<1>12. es \in Objects /\ Alike(ds[c], es[c]) BY <1>10, <1>11, SendDoes
<1>13. Moves({}, ds, wait', es, wait') BY <1>10, <1>11, SendMoves
<1>14. PICK s \in Statuses : s = "net" BY Values
<1>15. Moves({}, es, wait', SetStatus(es, c, s), wait')
  <2>1. s \notin WaitsFor /\ s # "worker_wait_result" BY <1>14 DEF WaitsFor
  <2>2. es[c].status # "worker_wait_result" BY <1>10, <1>12 DEF Alike, Same
  <2> QED BY <1>12, <2>1, <2>2, MovesStatus
<1>16. conn' = SetStatus(es, c, s) BY <1>8, <1>11, <1>14
<1>17. Moves({}, conn, wait, ds, wait') BY <1>9, <1>10, MovesTrans
<1>18. Moves({}, conn, wait, es, wait') BY <1>13, <1>17, MovesTrans
<1>19. Moves({}, conn, wait, conn', wait') BY <1>15, <1>16, <1>18, MovesTrans
<1> QED BY <1>8, <1>19, RoutedAll
-----------------------------------------------------------------------------
(* Every step of the loop: workers *)

\* A step after some preparation.
LEMMA MovesAfter ==
    ASSUME NEW cs, NEW ds, NEW es, NEW ws, NEW vs, NEW W,
           Moves({}, cs, ws, ds, ws), Moves(W, ds, ws, es, vs)
    PROVE  Moves(W, cs, ws, es, vs)
  BY MovesLess, MovesTrans

\* ... and one after that.
LEMMA MovesThen ==
    ASSUME NEW cs, NEW ds, NEW es, NEW ws, NEW vs, NEW us, NEW W,
           Moves(W, cs, ws, ds, vs), Moves({}, ds, vs, es, us)
    PROVE  Moves(W, cs, ws, es, us)
  BY MovesLess, MovesTrans

LEMMA RecvWorkerModeRouted ==
    ASSUME OwnHeaderIds, LoopStep, NEW c \in Conns, NEW r \in Requests[c],
           RecvWorkerMode(c, r)
    PROVE  Routed
<1>1. PICK cs : cs = Start(conn, c, r) OBVIOUS
<1>2. PICK ds : ds = IF cs[c].status = "worker_mode_async" THEN cs ELSE NoIdResult(cs, c) OBVIOUS
<1>3. Parsed(c, r) /\ conn[c].wm /\ queue' = queue BY DEF RecvWorkerMode
<1>4. /\ Sound({}, cs, wait, queue) /\ Started(conn, cs, c, r) /\ cs[c].sock = "open"
      /\ adding = Idle /\ conn[c].status \notin WaitsFor /\ conn[c].sock = "open"
  BY <1>1, <1>3, LoopFacts, StartLinks
<1>5. /\ \/ conn[c].status = "worker_mode_async"
         \/ conn[c].status = "worker_wait_result" /\ conn[c].noid
      /\ cs[c].status = conn[c].status /\ cs[c].noid = conn[c].noid /\ cs[c].wm
  BY <1>3, <1>4 DEF Parsed, StartThrows, Started
<1>6. Moves({}, conn, wait, cs, wait) BY <1>1, <1>3, StartGoes
<1>7. CASE cs[c].status # "worker_mode_async" /\ cs[c].client = None
  <2>1. Disconnect(cs, wait, c) BY <1>1, <1>7 DEF RecvWorkerMode
  <2> QED BY <1>3, <1>4, <1>6, <2>1, DisconnectRouted
<1>8. CASE ~(cs[c].status # "worker_mode_async" /\ cs[c].client = None)
  <2>1. /\ Moves({c}, cs, wait, ds, wait) /\ ds \in Objects
        /\ ds[c].client = None /\ (ds[c].status = "worker_wait_result" => ds[c].noid /\ ds[c].fail)
    <3>1. Fits({}, c, cs[c]) BY <1>4 DEF Sound
    <3>2. CASE cs[c].status = "worker_mode_async"
      <4>1. ds = cs BY <1>2, <3>2
      <4>2. Moves({c}, cs, wait, cs, wait) BY MovesSame, MovesLess
      <4> QED BY <1>4, <3>1, <3>2, <4>1, <4>2 DEF Fits, Unclaimed, Sound
    <3>3. CASE cs[c].status # "worker_mode_async"
      <4>1. cs[c].client # None /\ cs[c].noid BY <1>5, <1>8, <3>3
      <4>2. Sound({}, ds, wait, queue) /\ Rid(cs[c], ds[c])
        BY <1>2, <1>4, <3>3, <4>1, NoIdResultDoes
      <4>3. cs[c].fail BY <3>1, <4>1 DEF Fits
      <4>4. Moves({c}, cs, wait, ds, wait)
        <5>1. cs[c].status \notin WaitsFor BY <1>4, <1>5
        <5> QED BY <1>2, <1>4, <3>3, <4>1, <5>1, NoIdResultMoves
      <4> QED BY <1>5, <4>1, <4>2, <4>3, <4>4 DEF Rid, Sound
    <3> QED BY <3>2, <3>3
  <2>2. wait' = wait /\ alive' = alive BY <1>1, <1>8 DEF RecvWorkerMode
  <2>3. Moves({c}, conn, wait, ds, wait) BY <1>6, <2>1, MovesAfter
  <2>4. CASE r.option = "stop"
    <3>1. conn' = [Send(PopItem(ds, c), c) EXCEPT ![c].wm = FALSE, ![c].status = "net"]
      BY <1>1, <1>2, <1>8, <2>4 DEF RecvWorkerMode
    <3>2. PICK es : es = PopItem(ds, c) OBVIOUS
    <3>3. /\ es \in Objects /\ es[c].client = None /\ \A d \in Conns : Still(ds[d], es[d])
      <4>1. /\ es \in Objects /\ \A d \in Conns : d # c => es[d] = ds[d]
            /\ es[c].status = ds[c].status /\ es[c].sock = ds[c].sock
            /\ es[c].noid = ds[c].noid /\ es[c].fail = ds[c].fail
            /\ es[c].json = ds[c].json /\ es[c].client = ds[c].client
        BY <2>1, <3>2, PopDoes
      <4> QED BY <2>1, <4>1 DEF Still, Pose
    <3>4. PICK fs : fs = Send(es, c) OBVIOUS
    <3>5. fs \in Objects /\ \A d \in Conns : Alike(es[d], fs[d]) BY <3>3, <3>4, SendDoes
    <3>6. PICK gs : gs = [fs EXCEPT ![c].wm = FALSE] OBVIOUS
    <3>7. gs \in Objects /\ \A d \in Conns : Still(fs[d], gs[d])
      <4>1. PICK y : y = [fs[c] EXCEPT !.wm = FALSE] OBVIOUS
      <4>2. fs[c] \in ConnType BY <3>5 DEF Objects
      <4>3. y \in ConnType BY <4>1, <4>2, FieldType
      <4>4. gs = [fs EXCEPT ![c] = y] BY <3>6, <4>1
      <4>5. gs \in Objects /\ gs[c] = y /\ \A d \in Conns : d # c => gs[d] = fs[d]
        BY <3>5, <4>3, <4>4 DEF Objects
      <4>6. Still(fs[c], y) BY <4>1, <4>2 DEF Still, Pose, ConnType
      <4> QED BY <4>5, <4>6 DEF Still, Pose
    <3>8. PICK s \in Statuses : s = "net" BY Values
    <3>9. conn' = SetStatus(gs, c, s) BY <3>1, <3>2, <3>4, <3>6, <3>8 DEF SetStatus
    <3>10. gs[c].client = None
      BY <3>3, <3>5, <3>7 DEF Alike, Still, Pose
    <3>11. Moves({}, gs, wait, conn', wait)
      <4>1. s \notin WaitsFor /\ s # "worker_wait_result" BY <3>8 DEF WaitsFor
      <4> QED BY <3>7, <3>9, <3>10, <4>1, MovesStatus
    <3>12. Moves({c}, conn, wait, gs, wait)
      <4>1. Moves({}, ds, wait, es, wait) BY <3>3, MovesStill
      <4>2. Moves({}, es, wait, fs, wait) BY <3>3, <3>4, SendMoves
      <4>3. Moves({}, fs, wait, gs, wait) BY <3>7, MovesStill
      <4>4. Moves({c}, conn, wait, es, wait) BY <2>3, <4>1, MovesThen
      <4>5. Moves({c}, conn, wait, fs, wait) BY <4>2, <4>4, MovesThen
      <4> QED BY <4>3, <4>5, MovesThen
    <3>13. Moves({c}, conn, wait, conn', wait') BY <2>2, <3>11, <3>12, MovesThen
    <3>14. Exempt(c)
      <4>1. conn'[c].status = "net" /\ conn'[c].client = None
        BY <3>7, <3>8, <3>9, <3>10, StatusDoes DEF Restated
      <4> QED BY <1>4, <4>1 DEF Exempt, Steady, Open
    <3> QED BY <2>2, <3>13, <3>14, RoutedOn
  <2>5. CASE r.option # "stop"
    <3>1. conn' = ds /\ adding'.conn = c /\ Resident(c)
      BY <1>1, <1>2, <1>8, <2>5 DEF RecvWorkerMode, Resident
    <3>2. Exempt(c) BY <1>4, <2>1, <3>1 DEF Exempt, Steady, Open
    <3> QED BY <2>2, <2>3, <3>1, <3>2, RoutedOn
  <2> QED BY <2>4, <2>5
<1> QED BY <1>7, <1>8
LEMMA RecvAddRouted ==
    ASSUME LoopStep, NEW c \in Conns, NEW r \in Requests[c], RecvAdd(c, r)
    PROVE  Routed
<1>1. PICK cs : cs = Start(conn, c, r) OBVIOUS
<1>2. /\ Plain(c, r, {"get", "get+", "worker"}) /\ wait' = wait /\ alive' = alive
  BY DEF RecvAdd
<1>3. Parsed(c, r) /\ cs[c].status = "net" /\ cs[c].client = None
  BY <1>1, <1>2, LoopFacts, PlainLinks
<1>4. Moves({}, conn, wait, cs, wait) /\ cs \in Objects /\ conn[c].sock = "open"
  BY <1>1, <1>3, StartGoes
<1>5. cs[c] \in ConnType BY <1>4 DEF Objects
<1>6. PICK ds : ds = [cs EXCEPT ![c].wm = (r.op = "worker"), ![c].noid = (r.op = "get+"),
                                ![c].fail = (r.op = "get+")]
  OBVIOUS
<1>7. /\ DOMAIN ds = Conns /\ \A d \in Conns : d # c => ds[d] = cs[d]
      /\ DOMAIN ds[c] = DOMAIN cs[c] /\ ds[c].status = "net" /\ ds[c].client = None
  BY <1>3, <1>4, <1>5, <1>6 DEF Objects, ConnType
<1>8. \/ conn' = Send(ds, c)
      \/ conn' = Send([ds EXCEPT ![c].wm = FALSE], c)
      \/ \E x, y, z : conn' = [ds EXCEPT ![c].noid = x, ![c].fail = y, ![c].names = z]
  <2>1. CASE r.json = "malformed" BY <1>1, <1>6, <2>1 DEF RecvAdd
  <2>2. CASE r.json # "malformed" /\ r.names = << >> BY <1>1, <1>6, <2>2 DEF RecvAdd
  <2>3. CASE r.json # "malformed" /\ r.names # << >>
    <3>1. PICK x, y, z : /\ x = (r.op # "get")
                         /\ y = (r.op # "get" \/ r.option = "fail_on_disconnect")
                         /\ z = (IF r.op = "worker" THEN r.names ELSE << >>)
      OBVIOUS
    <3>2. conn' = [ds EXCEPT ![c].noid = (r.op # "get"),
                             ![c].fail = (r.op # "get" \/ r.option = "fail_on_disconnect"),
                             ![c].names = IF r.op = "worker" THEN r.names ELSE << >>]
      BY <1>1, <1>6, <2>3, Zenon DEF RecvAdd
    <3>3. conn' = [ds EXCEPT ![c].noid = x, ![c].fail = y, ![c].names = z]
      BY <3>1, <3>2, Zenon
    <3> QED BY <3>3
  <2> QED BY <2>1, <2>2, <2>3
<1>9. /\ \A d \in Conns : d # c => conn'[d] = cs[d]
      /\ conn'[c].status = "net" /\ conn'[c].client = None
  <2>1. DOMAIN cs[c] = {"sock", "link", "status", "ka", "noid", "fail", "wm", "client", "id",
                        "json", "names", "item", "sub", "cid", "ping", "dm", "out", "wr"}
    BY <1>5 DEF ConnType
  <2>2. CASE conn' = Send(ds, c) BY <1>7, <2>1, <2>2 DEF Send
  <2>3. CASE conn' = Send([ds EXCEPT ![c].wm = FALSE], c) BY <1>7, <2>1, <2>3 DEF Send
  <2>4. CASE \E x, y, z : conn' = [ds EXCEPT ![c].noid = x, ![c].fail = y, ![c].names = z]
    BY <1>7, <2>1, <2>4
  <2> QED BY <1>8, <2>2, <2>3, <2>4
<1>10. Moves({c}, cs, wait, conn', wait)
  <2>1. \A d \in Conns : d # c => Still(cs[d], conn'[d]) BY <1>9 DEF Still, Pose
  <2> QED BY <1>3, <2>1, MovesOne
<1>11. Moves({c}, conn, wait, conn', wait') BY <1>2, <1>4, <1>10, MovesAfter
<1>12. Exempt(c) BY <1>4, <1>9 DEF Exempt, Steady, Open
<1> QED BY <1>2, <1>11, <1>12, RoutedOn

\* A worker that waits is told something else.
Eased(x, y) ==
    /\ y.sock = x.sock /\ y.client = x.client /\ y.noid = x.noid /\ y.fail = x.fail
    /\ y.json = x.json
    /\ \/ y.status = x.status
       \/ x.status = "worker_wait_job" /\ y.status \in {"net", "worker_mode_async"}

LEMMA MovesEased ==
    ASSUME NEW cs, NEW ds, NEW ws, \A d \in Conns : Eased(cs[d], ds[d])
    PROVE  Moves({}, cs, ws, ds, ws)
<1>1. ASSUME NEW d \in Conns PROVE Serves(cs[d], ds[d]) /\ StaysIf(cs, ws, ds, ws, d)
  <2>1. Eased(cs[d], ds[d]) OBVIOUS
  <2>2. Serves(cs[d], ds[d]) BY <2>1 DEF Eased, Serves, Pose, Idles
  <2>3. \A w \in Conns : cs[w].client = d /\ cs[w].noid => ds[w].client = d /\ ds[w].noid
    BY DEF Eased
  <2> QED BY <2>1, <2>2, <2>3 DEF Eased, StaysIf, Stays, WaitsFor
<1> QED BY <1>1 DEF Moves, EntriesLeft

LEMMA RecvPubRouted ==
    ASSUME LoopStep, NEW c \in Conns, NEW r \in Requests[c], RecvPub(c, r)
    PROVE  Routed
<1>1. PICK cs, n : cs = Start(conn, c, r) /\ n = r.names[1] OBVIOUS
<1>2. PICK A : A = {w \in ListOf(cs, n) : cs[w].status = "worker_wait_job"} OBVIOUS
<1>3. PICK B : B = {w \in ListOf(cs, n) \ A : cs[w].noid} OBVIOUS
<1>4. PICK ds : ds = [w \in Conns |->
                        IF w \in A
                        THEN [cs[w] EXCEPT !.status = AfterAsync(cs, w), !.dm = @ + 1, !.wr = TRUE]
                        ELSE IF w \in B THEN [cs[w] EXCEPT !.dm = @ + 1]
                        ELSE cs[w]]
  OBVIOUS
<1>5. /\ Plain(c, r, {"pub"}) /\ conn' = Send(IF queue[n].ex THEN ds ELSE cs, c)
      /\ wait' = wait /\ alive' = alive
  BY <1>1, <1>2, <1>3, <1>4 DEF RecvPub
<1>6. Parsed(c, r) BY <1>5, LoopFacts, PlainLinks
<1>7. Moves({}, conn, wait, cs, wait) /\ cs \in Objects BY <1>1, <1>6, StartGoes
<1>8. ASSUME NEW w \in Conns PROVE Eased(cs[w], ds[w])
  <2>1. cs[w] \in ConnType BY <1>7 DEF Objects
  <2>2. PICK s : s = AfterAsync(cs, w) OBVIOUS
  <2>3. s \in {"net", "worker_mode_async"} BY <2>2, AfterAsyncIs
  <2>4. CASE w \in A
    <3>1. ds[w] = [cs[w] EXCEPT !.status = s, !.dm = @ + 1, !.wr = TRUE] BY <1>4, <2>2, <2>4
    <3>2. cs[w].status = "worker_wait_job" BY <1>2, <2>4
    <3> QED BY <2>1, <2>3, <3>1, <3>2 DEF Eased, ConnType
  <2>5. CASE w \notin A BY <1>4, <2>1, <2>5 DEF Eased, ConnType
  <2> QED BY <2>4, <2>5
<1>9. Moves({}, conn, wait, ds, wait) BY <1>7, <1>8, MovesEased, MovesAfter
<1>10. Moves({}, conn, wait, conn', wait)
  <2>1. ASSUME NEW es, es = (IF queue[n].ex THEN ds ELSE cs) PROVE Moves({}, es, wait, Send(es, c), wait)
    <3>1. es = ds \/ es = cs BY <2>1
    <3>2. DOMAIN es = Conns BY <1>4, <1>7, <3>1 DEF Objects
    <3>3. \A d \in Conns : Still(es[d], Send(es, c)[d])
      <4>1. DOMAIN cs[c] = {"sock", "link", "status", "ka", "noid", "fail", "wm", "client", "id",
                            "json", "names", "item", "sub", "cid", "ping", "dm", "out", "wr"}
        BY <1>7 DEF Objects, ConnType
      <4>2. DOMAIN ds[c] = DOMAIN cs[c] BY <1>4
      <4> QED BY <3>1, <3>2, <4>1, <4>2 DEF Send, Still, Pose
    <3> QED BY <3>3, MovesStill
  <2>2. PICK es : es = IF queue[n].ex THEN ds ELSE cs OBVIOUS
  <2>3. Moves({}, conn, wait, es, wait) BY <1>7, <1>9, <2>2
  <2>4. Moves({}, es, wait, conn', wait) BY <1>5, <2>1, <2>2
  <2> QED BY <2>3, <2>4, MovesAfter
<1> QED BY <1>5, <1>10, RoutedAll

LEMMA CheckTimeoutRouted ==
    ASSUME LoopStep, CheckTimeout
    PROVE  Routed
<1>1. conn \in Objects BY LoopFacts
<1>2. wait' = wait /\ alive' = alive BY DEF CheckTimeout
<1>3. PICK W : /\ \A w \in W : conn[w].status = "worker_wait_job"
               /\ conn' = [w \in Conns |->
                             IF w \in W
                             THEN [Send(conn, w)[w] EXCEPT !.status = AfterAsync(conn, w)]
                             ELSE conn[w]]
  BY DEF CheckTimeout
<1>4. ASSUME NEW w \in Conns PROVE Eased(conn[w], conn'[w])
  <2>1. CASE w \notin W BY <1>3, <2>1 DEF Eased
  <2>2. CASE w \in W
    <3>1. PICK x : x = Send(conn, w)[w] OBVIOUS
    <3>2. x \in ConnType /\ Alike(conn[w], x) BY <1>1, <3>1, SendDoes DEF Objects
    <3>3. PICK s : s = AfterAsync(conn, w) OBVIOUS
    <3>4. s \in {"net", "worker_mode_async"} BY <3>3, AfterAsyncIs
    <3>5. conn'[w] = [x EXCEPT !.status = s] BY <1>3, <2>2, <3>1, <3>3
    <3>6. conn[w].status = "worker_wait_job" BY <1>3, <2>2
    <3> QED BY <3>2, <3>4, <3>5, <3>6 DEF Eased, ConnType, Alike, Same
  <2> QED BY <2>1, <2>2
<1> QED BY <1>2, <1>4, MovesEased, RoutedAll
-----------------------------------------------------------------------------
(* Every step of the loop: queues are deleted, calls wait *)

LEMMA RecvDeleteRouted ==
    ASSUME LoopStep, NEW c \in Conns, NEW r \in Requests[c], RecvDelete(c, r)
    PROVE  Routed
<1>1. PICK cs, n : cs = Start(conn, c, r) /\ n = r.names[1] OBVIOUS
<1>2. Parsed(c, r) BY DEF RecvDelete, Plain
<1>3. Moves({}, conn, wait, cs, wait) /\ cs \in Objects BY <1>1, <1>2, StartGoes
<1>4. PICK rf : rf = [d \in Conns |->
                        Cardinality({i \in DOMAIN queue[n].workers : queue[n].workers[i] = d})
                        + Cardinality({i \in DOMAIN queue[n].clients :
                                         queue[n].clients[i].conn = d})]
  OBVIOUS
<1>5. PICK ds : ds = [d \in Conns |->
                   [PopListed(cs, d, n) EXCEPT
                       !.link = @ - rf[d],
                       !.out = IF cs[d].sock = "open" THEN @ + rf[d] ELSE @,
                       !.wr = @ \/ (cs[d].sock = "open" /\ rf[d] > 0)]]
  OBVIOUS
<1>6. conn' = Send(ds, c) /\ wait' = wait /\ alive' = alive
  BY <1>1, <1>4, <1>5, ZenonT(60) DEF RecvDelete
<1>7. ASSUME NEW d \in Conns PROVE Still(cs[d], ds[d]) /\ DOMAIN ds[d] = DOMAIN cs[d]
  <2>1. PICK x : x = PopListed(cs, d, n) OBVIOUS
  <2>2. x \in ConnType /\ Still(cs[d], x)
    <3>1. cs[d] \in ConnType BY <1>3 DEF Objects
    <3>2. CASE cs[d].item = n
      <4>1. x = PopItem(cs, d)[d] BY <2>1, <3>2 DEF PopListed
      <4> QED BY <1>3, <4>1, PopDoes DEF Still, Pose
    <3>3. CASE cs[d].item # n
      <4>1. x = cs[d] BY <2>1, <3>3 DEF PopListed
      <4> QED BY <3>1, <4>1 DEF Still, Pose
    <3> QED BY <3>2, <3>3
  <2>3. PICK k, o, v : /\ k = x.link - rf[d]
                       /\ o = (IF cs[d].sock = "open" THEN x.out + rf[d] ELSE x.out)
                       /\ v = (x.wr \/ (cs[d].sock = "open" /\ rf[d] > 0))
    OBVIOUS
  <2>4. ds[d] = [x EXCEPT !.link = k, !.out = o, !.wr = v]
    BY <1>5, <2>1, <2>3, Zenon
  <2>5. Still(x, ds[d]) BY <2>2, <2>4 DEF Still, Pose, ConnType
  <2>6. DOMAIN ds[d] = DOMAIN cs[d] BY <1>3, <2>2, <2>4 DEF Objects, ConnType
  <2> QED BY <2>2, <2>5, <2>6 DEF Still, Pose
<1>8. \A d \in Conns : Still(ds[d], conn'[d])
  <2>1. DOMAIN cs[c] = {"sock", "link", "status", "ka", "noid", "fail", "wm", "client", "id",
                        "json", "names", "item", "sub", "cid", "ping", "dm", "out", "wr"}
    BY <1>3 DEF Objects, ConnType
  <2>2. DOMAIN ds[c] = DOMAIN cs[c] /\ DOMAIN ds = Conns BY <1>5, <1>7
  <2> QED BY <1>6, <2>1, <2>2 DEF Send, Still, Pose
<1>9. Moves({}, conn, wait, ds, wait) BY <1>3, <1>7, MovesStill, MovesAfter
<1>10. Moves({}, conn, wait, conn', wait') BY <1>6, <1>8, <1>9, MovesStill, MovesAfter
<1> QED BY <1>6, <1>10, RoutedAll

\* A call looks for a worker.
LEMMA CallStateGoes ==
    ASSUME LoopStep, NEW c \in Conns, NEW r \in Requests[c], Call(c, r)
    PROVE  /\ Moves({}, conn, wait, CallState(c, r), wait) /\ CallState(c, r) \in Objects
           /\ Calling(CallState(c, r)[c], r) /\ conn[c].sock = "open"
           /\ conn[c].status \notin WaitsFor
<1>1. PICK cs : cs = Start(conn, c, r) OBVIOUS
<1>2. PICK s, R : s = queue[r.names[1]].workers /\ R = Erased(conn, s, r.wid) OBVIOUS
<1>3. IInv /\ LinkState BY LoopFacts
<1>4. CallState(c, r) \in Objects /\ Calling(CallState(c, r)[c], r) BY <1>3, CallStateSound
<1>5. Parsed(c, r) BY DEF Call, Plain
<1>6. /\ Moves({}, conn, wait, cs, wait) /\ cs \in Objects /\ conn[c].sock = "open"
      /\ conn[c].status \notin WaitsFor
  BY <1>1, <1>5, StartGoes
<1>7. s \in Seq(Conns) BY <1>2, <1>3, CallFacts, QueueFacts
<1>8. R \in Parts(s) BY <1>2 DEF Parts, Erased
<1>9. PICK ds : ds = Release(cs, s, R) OBVIOUS
<1>10. \A d \in Conns : Still(cs[d], ds[d]) BY <1>6, <1>7, <1>8, <1>9, ReleaseDoes, StillAlike
<1>11. ds = CallState(c, r) BY <1>1, <1>2, <1>9 DEF CallState
<1>12. Moves({}, conn, wait, ds, wait) BY <1>6, <1>10, MovesStill, MovesAfter
<1> QED BY <1>4, <1>6, <1>11, <1>12

LEMMA RecvCallAbsentRouted ==
    ASSUME LoopStep, NEW c \in Conns, NEW r \in Requests[c], RecvCallAbsent(c, r)
    PROVE  Routed
<1>1. Call(c, r) /\ conn' = Send(CallState(c, r), c) /\ wait' = wait BY DEF RecvCallAbsent
<1>2. alive' = alive BY <1>1 DEF Call
<1>3. Moves({}, conn, wait, CallState(c, r), wait) /\ CallState(c, r) \in Objects
  BY <1>1, CallStateGoes
<1>4. Moves({}, CallState(c, r), wait, conn', wait) BY <1>1, <1>3, SendMoves
<1>5. Moves({}, conn, wait, conn', wait') BY <1>1, <1>3, <1>4, MovesAfter
<1> QED BY <1>2, <1>5, RoutedAll

LEMMA RecvCallRejectRouted ==
    ASSUME LoopStep, NEW c \in Conns, NEW r \in Requests[c], RecvCallReject(c, r)
    PROVE  Routed
<1>1. PICK w, cs : w = Taken(r) /\ cs = CallState(c, r) OBVIOUS
<1>2. PICK i : i = CallId(cs, c, <<c, calls[c] + 1>>) OBVIOUS
<1>3. PICK ls : ls = Link(cs, w) OBVIOUS
<1>4. PICK v : v = IF NoIdFound(cs, c) THEN ls[c].id ELSE i OBVIOUS
<1>5. /\ Call(c, r) /\ Usable(conn, queue[r.names[1]].workers, r.wid) # {}
      /\ conn' = Send([ls EXCEPT ![c].id = IF NoIdFound(cs, c) THEN @ ELSE i], c)
      /\ wait' = wait
  BY <1>1, <1>2, <1>3 DEF RecvCallReject
<1>6. Moves({}, conn, wait, cs, wait) /\ cs \in Objects BY <1>1, <1>5, CallStateGoes
<1>7. w \in Conns /\ i \in AllIds BY <1>1, <1>2, <1>5, LoopFacts, CallFinds
<1>8. ls \in Objects /\ \A d \in Conns : Still(cs[d], ls[d])
  BY <1>3, <1>6, <1>7, LinkDoes, StillAlike
<1>9. ls[c] \in ConnType BY <1>8 DEF Objects
<1>10. v \in AllIds \cup {None} BY <1>4, <1>7, <1>9, ObjectFields
<1>11. PICK es : es = IdSet(ls, c, v) OBVIOUS
<1>12. es \in Objects /\ \A d \in Conns : Still(ls[d], es[d])
  BY <1>8, <1>10, <1>11, IdDoes, StillAlike
<1>13. conn' = Send(es, c)
  <2>1. [ls EXCEPT ![c].id = IF NoIdFound(cs, c) THEN @ ELSE i] = es
    BY <1>4, <1>8, <1>11 DEF IdSet, Objects
  <2> QED BY <1>5, <2>1
<1>14. Moves({}, conn, wait, ls, wait) BY <1>6, <1>8, MovesStill, MovesAfter
<1>15. Moves({}, conn, wait, es, wait) BY <1>12, <1>14, MovesStill, MovesAfter
<1>16. Moves({}, conn, wait, conn', wait') BY <1>5, <1>12, <1>13, <1>15, SendMoves, MovesAfter
<1>17. alive' = alive BY <1>5 DEF Call
<1> QED BY <1>16, <1>17, RoutedAll

LEMMA RecvCallEnqueueRouted ==
    ASSUME LoopStep, NEW c \in Conns, NEW r \in Requests[c], RecvCallEnqueue(c, r)
    PROVE  Routed
<1>1. PICK cs : cs = CallState(c, r) OBVIOUS
<1>2. /\ Call(c, r) /\ wait' = wait /\ alive' = alive
      /\ conn' = IF r.op = "async" THEN Send(cs, c)
                 ELSE Link(SetStatus(cs, c, "client_wait_result"), c)
  BY <1>1 DEF RecvCallEnqueue, Call
<1>3. /\ Moves({}, conn, wait, cs, wait) /\ cs \in Objects /\ conn[c].sock = "open"
      /\ cs[c].client = None
  BY <1>1, <1>2, CallStateGoes DEF Calling
<1>4. CASE r.op = "async"
  <2>1. conn' = Send(cs, c) BY <1>2, <1>4
  <2>2. Moves({}, conn, wait, conn', wait') BY <1>2, <1>3, <2>1, SendMoves, MovesAfter
  <2> QED BY <1>2, <2>2, RoutedAll
<1>5. CASE r.op # "async"
  <2>1. PICK s \in Statuses : s = "client_wait_result" BY Values
  <2>2. PICK ds : ds = SetStatus(cs, c, s) OBVIOUS
  <2>3. conn' = Link(ds, c) BY <1>2, <1>5, <2>1, <2>2
  <2>4. /\ ds \in Objects /\ \A d \in Conns : d # c => ds[d] = cs[d]
        /\ ds[c].status = s /\ ds[c].client = None
    BY <1>3, <2>2, StatusDoes DEF Restated
  <2>5. \A d \in Conns : Same(ds[d], conn'[d]) /\ conn'[d].client = ds[d].client
    BY <2>3, <2>4, LinkDoes
  <2>6. \A d \in Conns : d # c => Still(cs[d], conn'[d]) BY <2>4, <2>5, StillAlike
  <2>7. Moves({c}, conn, wait, conn', wait') BY <1>2, <1>3, <2>6, MovesOne, MovesAfter
  <2>8. Exempt(c)
    <3>1. conn'[c].status = "client_wait_result" /\ conn'[c].client = None
      BY <2>1, <2>4, <2>5 DEF Same
    <3> QED BY <1>3, <3>1 DEF Exempt, Steady, Open
  <2> QED BY <1>2, <2>7, <2>8, RoutedOn
<1> QED BY <1>4, <1>5
-----------------------------------------------------------------------------
(* Every step of the loop: workers are added *)

\* What a scan of the queue makes of the connections.
LEMMA ScanGoes ==
    ASSUME LoopStep, NEW w \in Conns, NEW n \in Names, Adding(w, n),
           NEW cs, cs = LeaveOther(conn, w, n), NEW t, t = queue[n].clients,
           NEW as, as = AfterScan(cs, wait, w, t)
    PROVE  /\ Moves({}, conn, wait, cs, wait) /\ Moves({}, conn, wait, as, wait)
           /\ cs \in Objects /\ as \in Objects /\ Joining(cs[w]) /\ Joining(as[w])
           /\ t \in Seq(OwnedMsg)
           /\ \A d \in Conns : ScanKept(cs[d], as[d])
           /\ \E P \in Queues :
                 /\ Sound({}, as, wait, P)
                 /\ \A k \in Scanned(cs, wait, w, t) :
                       Verdict(cs, wait, w, t[k]) = "job" /\ t[k].conn # None
                          => ScanTakes(cs, as, wait, P, t[k].conn)
<1>1. IInv /\ LinkState /\ Sound({}, conn, wait, queue) /\ queue \in Queues BY LoopFacts
<1>2. cs \in Connections(Named) /\ Joining(cs[w]) BY <1>1, AddingLinks
<1>3. cs \in Objects BY <1>2, AreObjects
<1>4. \A d \in Conns : Still(conn[d], cs[d]) BY <1>1, LeaveOtherSound, StillAlike
<1>5. Moves({}, conn, wait, cs, wait) BY <1>4, MovesStill
<1>6. t \in Seq(OwnedMsg) /\ t \in Seq(MsgType) BY <1>1, QueueFacts, MessagesType
<1>7. calls \in [Conns -> 0 .. MaxCalls] BY <1>1 DEF IInv, HistoryInv
<1>8. Scanned(cs, wait, w, t) \in Parts(t) BY DEF Scanned, Parts
<1>9. Moves({}, cs, wait, as, wait) BY <1>3, <1>6, <1>7, <1>8, ScanMoves
<1>10. Moves({}, conn, wait, as, wait) BY <1>5, <1>9, MovesAfter
<1>11. PICK s, u : s = queue[n].workers /\ u = Rest(t, Scanned(cs, wait, w, t)) OBVIOUS
<1>12. s \in Seq(Conns) BY <1>1, <1>11, QueueFacts
<1>13. u \in Seq(MsgType) BY <1>6, <1>8, <1>11, FewerKeep
<1>14. PICK P : P = Lined(n, s, u) OBVIOUS
<1>15. /\ P \in Queues /\ P[n].workers = s /\ P[n].clients = u
       /\ \A k \in Names : k # n => P[k] = queue[k]
  BY <1>1, <1>12, <1>13, <1>14, LinedIs
<1>16. Gone(queue, P, n, {}, Scanned(cs, wait, w, t)) BY <1>1, <1>11, <1>15, GivenGone
<1>17. /\ as \in Connections(Named) /\ Sound({}, as, wait, P) /\ Joining(as[w])
       /\ \A d \in Conns : ScanKept(cs[d], as[d])
       /\ \A k \in Scanned(cs, wait, w, t) :
             Verdict(cs, wait, w, t[k]) = "job" /\ t[k].conn # None
                => ScanTakes(cs, as, wait, P, t[k].conn)
  BY <1>1, <1>15, <1>16, ScannedLinks
<1>18. as \in Objects BY <1>17, AreObjects
<1> QED BY <1>2, <1>3, <1>5, <1>6, <1>10, <1>15, <1>17, <1>18

\* A worker takes its place in a list.
LEMMA RegisterStill ==
    ASSUME NEW cs \in Objects, NEW w \in Conns, NEW n
    PROVE  \A d \in Conns : Still(cs[d], Register(cs, w, n)[d])
<1> SUFFICES ASSUME NEW d \in Conns PROVE Still(cs[d], Register(cs, w, n)[d]) OBVIOUS
<1>1. cs[d] \in ConnType BY DEF Objects
<1>2. CASE cs[w].item # None BY <1>2 DEF Register, Still, Pose
<1>3. CASE cs[w].item = None
  <2>1. PICK ds : ds = IF cs[w].wm \/ cs[w].noid \/ cs[w].status = "worker_wait_job"
                       THEN PushItem(cs, w, n) ELSE cs
    OBVIOUS
  <2>2. Register(cs, w, n) = IF ~cs[w].wm /\ cs[w].noid THEN [ds EXCEPT ![w].sub = n] ELSE ds
    BY <1>3, <2>1 DEF Register
  <2>3. DOMAIN ds = Conns /\ DOMAIN ds[d] = DOMAIN cs[d] /\ Still(cs[d], ds[d])
    BY <1>1, <2>1 DEF PushItem, Still, Pose, Objects, ConnType
  <2>4. DOMAIN cs[d] = {"sock", "link", "status", "ka", "noid", "fail", "wm", "client", "id",
                        "json", "names", "item", "sub", "cid", "ping", "dm", "out", "wr"}
    BY <1>1 DEF ConnType
  <2> QED BY <2>2, <2>3, <2>4 DEF Still, Pose
<1> QED BY <1>2, <1>3

LEMMA AddWorkerDirectRouted ==
    ASSUME LoopStep, NEW w \in Conns, NEW n \in Names, AddWorkerDirect(w, n)
    PROVE  Routed
<1>1. PICK cs, t : cs = LeaveOther(conn, w, n) /\ t = queue[n].clients OBVIOUS
<1>2. /\ Adding(w, n) /\ conn' = [cs EXCEPT ![w].wr = TRUE] /\ wait' = wait /\ alive' = alive
  BY <1>1 DEF AddWorkerDirect
<1>3. Moves({}, conn, wait, cs, wait) /\ cs \in Objects BY <1>1, <1>2, ScanGoes
<1>4. \A d \in Conns : Still(cs[d], conn'[d])
  BY <1>2, <1>3 DEF Still, Pose, Objects, ConnType
<1>5. Moves({}, conn, wait, conn', wait')
  <2>1. Moves({}, cs, wait, conn', wait) BY <1>4, MovesStill
  <2> QED BY <1>2, <1>3, <2>1, MovesAfter
<1> QED BY <1>2, <1>5, RoutedAll

LEMMA AddWorkerWaitRouted ==
    ASSUME LoopStep, NEW w \in Conns, NEW n \in Names, AddWorkerWait(w, n)
    PROVE  Routed /\ ~Stranded(conn'[w])
<1>1. PICK cs : cs = LeaveOther(conn, w, n) OBVIOUS
<1>2. PICK s, t : s = queue[n].workers /\ t = queue[n].clients OBVIOUS
<1>3. PICK R : R = {i \in DOMAIN s : IsClosed(cs, s[i]) \/ s[i] = w} OBVIOUS
<1>4. PICK as : as = AfterScan(cs, wait, w, t) OBVIOUS
<1>5. PICK rs : rs = Release(as, s, R) OBVIOUS
<1>6. PICK ls : ls = Link(rs, w) OBVIOUS
<1>7. PICK v \in Statuses : v = "worker_wait_job" BY Values
<1>8. PICK ps : ps = SetStatus(ls, w, v) OBVIOUS
<1>9. Adding(w, n) /\ conn' = Register(ps, w, n) /\ wait' = wait /\ alive' = alive
  BY <1>1, <1>2, <1>3, <1>4, <1>5, <1>6, <1>7, <1>8 DEF AddWorkerWait
<1>10. Moves({}, conn, wait, as, wait) /\ as \in Objects /\ Joining(as[w])
  BY <1>1, <1>2, <1>4, <1>9, ScanGoes
<1>11. s \in Seq(Conns) /\ R \in Parts(s) BY <1>2, <1>3, LoopFacts, QueueFacts DEF Parts
<1>12. /\ rs \in Objects /\ \A d \in Conns : Still(as[d], rs[d])
       /\ rs[w].client = as[w].client
  BY <1>5, <1>10, <1>11, ReleaseDoes, StillAlike
<1>13. /\ ls \in Objects /\ \A d \in Conns : Still(rs[d], ls[d])
       /\ ls[w].client = rs[w].client
  BY <1>6, <1>12, LinkDoes, StillAlike
<1>14. ls[w].client = None BY <1>10, <1>12, <1>13 DEF Joining
<1>15. Moves({}, ls, wait, ps, wait) /\ ps \in Objects
  <2>1. v \notin WaitsFor /\ v # "worker_wait_result" BY <1>7 DEF WaitsFor
  <2> QED BY <1>8, <1>13, <1>14, <2>1, MovesStatus, StatusDoes
<1>16. Moves({}, conn, wait, ls, wait) BY <1>10, <1>12, <1>13, MovesStill, MovesAfter
<1>17. Moves({}, conn, wait, ps, wait) BY <1>15, <1>16, MovesAfter
<1>18. \A d \in Conns : Still(ps[d], conn'[d]) BY <1>9, <1>15, RegisterStill
<1>19. Moves({}, conn, wait, conn', wait') BY <1>9, <1>17, <1>18, MovesStill, MovesAfter
<1>20. ~Stranded(conn'[w])
  <2>1. ps[w].status = "worker_wait_job" BY <1>7, <1>8, <1>13, StatusDoes
  <2> QED BY <1>18, <2>1 DEF Still, Pose, Stranded
<1> QED BY <1>9, <1>19, <1>20, RoutedAll
-----------------------------------------------------------------------------
(* What goes on when the loop has ended, too *)

LEMMA CleanDeadTasksRouted ==
    ASSUME RouteInv, IInv', NEW n \in Names, CleanDeadTasks(n)
    PROVE  Routed
<1> USE DEF RouteInv, LinkInv
<1>1. PICK s, t : s = queue[n].workers /\ t = queue[n].clients OBVIOUS
<1>2. PICK R : R = {i \in DOMAIN s : IsClosed(conn, s[i])
                                     \/ conn[s[i]].status # "worker_wait_job"}
  OBVIOUS
<1>3. PICK T : T = {i \in DOMAIN t : t[i].conn # None /\
                      (IsClosed(conn, t[i].conn)
                       \/ conn[t[i].conn].status # "client_wait_result")}
  OBVIOUS
<1>4. /\ conn' = [c \in Conns |-> [conn[c] EXCEPT
                     !.link = @ - Cardinality({i \in R : s[i] = c})
                                - Cardinality({i \in T : t[i].conn = c})]]
      /\ queue' = [queue EXCEPT ![n].workers = Keep(s, DOMAIN s \ R),
                                ![n].clients = Keep(t, DOMAIN t \ T)]
      /\ wait' = wait /\ alive' = alive
  BY <1>1, <1>2, <1>3 DEF CleanDeadTasks
<1>5. t \in Seq(MsgType) /\ T \in Parts(t) BY <1>1, <1>3, MessagesType DEF Parts
<1>6. queue \in Queues /\ queue' \in Queues BY QueuesAre, QueuesAreNext DEF IInv
<1>7. conn \in Objects
  <2>1. conn \in Connections(Named) BY NamedConnections DEF IInv
  <2> QED BY <2>1, AreObjects
<1>8. ASSUME NEW m \in Names PROVE Fewer(queue[m].clients, queue'[m].clients)
  <2>1. CASE m # n
    <3>1. queue'[m] = queue[m] BY <1>4, <1>6, <2>1 DEF Queues
    <3> QED BY <3>1, FewerSame
  <2>2. CASE m = n
    <3>1. queue[n] \in QueueType BY <1>6 DEF Queues
    <3>2. queue'[n].clients = Rest(t, T) BY <1>4, <1>6, <3>1 DEF Queues, QueueType, Rest
    <3> QED BY <1>1, <1>5, <2>2, <3>2, FewerKeep
  <2> QED BY <2>1, <2>2
<1>9. \A d \in Conns : Still(conn[d], conn'[d])
  BY <1>4, <1>7 DEF Still, Pose, Objects, ConnType
<1>10. Moves({}, conn, wait, conn', wait') BY <1>4, <1>9, MovesStill
<1>11. Placed(conn', wait', queue')
  <2> SUFFICES ASSUME NEW d \in Conns, conn'[d].sock = "open"
               PROVE  /\ OnePlace(conn', wait', queue', d)
                      /\ conn'[d].status \notin WaitsFor => NoPlace(conn', wait', queue', d)
    BY DEF Placed
  <2>1. conn[d].sock = "open" /\ conn'[d].status = conn[d].status BY <1>9 DEF Still, Pose
  <2>2. /\ OnePlace(conn, wait, queue, d)
        /\ conn[d].status \notin WaitsFor => NoPlace(conn, wait, queue, d)
    BY <2>1 DEF Placed
  <2>3. Registered(wait', d) = Registered(wait, d) BY <1>4
  <2>4. Served(conn', d) = Served(conn, d) BY <1>9 DEF Still, Pose, Served
  <2>5. /\ Queued(queue, d) = {} => Queued(queue', d) = {}
        /\ Single(Queued(queue, d)) => Single(Queued(queue', d))
    BY <1>6, <1>8, QueuedFewer
  <2> QED BY <2>1, <2>2, <2>3, <2>4, <2>5 DEF OnePlace, NoPlace
<1>12. PICK W \in SUBSET Conns : W = {} OBVIOUS
<1> QED BY <1>4, <1>10, <1>11, <1>12 DEF Routed

LEMMA AcceptRouted ==
    ASSUME RouteInv, IInv', NEW c \in Conns, Accept(c)
    PROVE  Routed
<1> USE DEF RouteInv, LinkInv
<1>1. PICK noid, fail, ka \in Uninit : conn' = [conn EXCEPT ![c] = NewConn("open", noid, fail, ka)]
  BY DEF Accept
<1>2. c \notin Live(conn) /\ wait' = wait /\ queue' = queue /\ alive' = alive
  BY DEF Accept, Live
<1>3. queue \in Queues BY QueuesAre DEF IInv
<1>4. conn \in Objects
  <2>1. conn \in Connections(Named) BY NamedConnections DEF IInv
  <2> QED BY <2>1, AreObjects
<1>5. PICK x : x = NewConn("open", noid, fail, ka) OBVIOUS
<1>6. x.sock = "open" /\ x.client = None /\ x.status = "net" BY <1>5, NewConnIs
<1>7. conn'[c] = x /\ \A d \in Conns : d # c => conn'[d] = conn[d]
  BY <1>1, <1>4, <1>5 DEF Objects
<1>8. conn[c].client = None BY <1>2 DEF PointsToLive
<1>9. NoPlace(conn, wait, queue, c)
  <2>1. Registered(wait, c) = {} /\ Serving(conn, c) = {} /\ Queued(queue, c) = {}
    BY <1>2, <1>3, NoReferences
  <2> QED BY <2>1 DEF NoPlace, Served, Serving
<1>10. Moves({c}, conn, wait, conn', wait')
  <2>1. \A d \in Conns : d # c => Still(conn[d], conn'[d]) BY <1>7, StillAlike
  <2> QED BY <1>2, <1>8, <2>1, MovesOne
<1>11. Exempt(c) BY <1>6, <1>7, <1>9 DEF Exempt, Steady, Nowhere
<1>12. \A d \in Conns : Served(conn', d) = Served(conn, d)
  <2>1. ASSUME NEW d \in Conns, NEW w \in Conns
        PROVE  conn'[w].client = d /\ conn'[w].noid <=> conn[w].client = d /\ conn[w].noid
    <3>1. CASE w = c BY <1>6, <1>7, <1>8, <3>1, NoneAssumption
    <3>2. CASE w # c BY <1>7, <3>2
    <3> QED BY <3>1, <3>2
  <2> QED BY <2>1 DEF Served
<1>13. Placed(conn', wait', queue')
  <2> SUFFICES ASSUME NEW d \in Conns, conn'[d].sock = "open"
               PROVE  /\ OnePlace(conn', wait, queue, d)
                      /\ conn'[d].status \notin WaitsFor => NoPlace(conn', wait, queue, d)
    BY <1>2 DEF Placed
  <2>1. CASE d = c
    <3>1. Served(conn', c) = {} BY <1>9, <1>12 DEF NoPlace
    <3> QED BY <1>9, <2>1, <3>1 DEF OnePlace, NoPlace, Single
  <2>2. CASE d # c BY <1>7, <1>12, <2>2 DEF Placed, OnePlace, NoPlace
  <2> QED BY <2>1, <2>2
<1>14. PICK W \in SUBSET Conns : W = {c} OBVIOUS
<1> QED BY <1>2, <1>10, <1>11, <1>13, <1>14 DEF Routed
-----------------------------------------------------------------------------
(* Calls and what was handed out *)

\* Calls are counted for a connection whose status is "net".
LEMMA CallsGo ==
    ASSUME RouteInv, [Next]_vars, \A d \in Conns : Open(d)' => Open(d) \/ Nowhere(d)
    PROVE  CallsKept
<1>1. IInv /\ (alive => LinkState) /\ Placed(conn, wait, queue) BY DEF RouteInv, LinkInv
<1>2. CASE calls' = calls BY <1>2 DEF CallsKept
<1>3. ASSUME NEW c \in Conns, NEW r \in Requests[c], Call(c, r) PROVE CallsKept
  <2>1. \A d \in Conns : d # c => calls'[d] = calls[d]
    BY <1>1, <1>3, CallFacts DEF IInv, HistoryInv
  <2>2. Nowhere(c)
    <3>1. Plain(c, r, {"call", "async"}) /\ Arrives(c, r) /\ LinkState
      BY <1>1, <1>3 DEF Call, Plain, Parsed, Arrives, LoopReady
    <3>2. conn[c].status = "net" /\ conn[c].sock = "open"
      BY <1>1, <3>1, PlainLinks, ArrivalFacts
    <3> QED BY <1>1, <3>2 DEF Placed, Nowhere, WaitsFor
  <2> QED BY <2>1, <2>2 DEF CallsKept
<1>4. calls' = calls \/ \E c \in Conns : \E r \in Requests[c] : Call(c, r)
  <2>1. CASE UNCHANGED vars BY <2>1 DEF vars
  <2>2. ASSUME NEW c \in Conns, Accept(c) \/ PeerClose(c) \/ OnSend(c) \/ OnSendPart(c)
        PROVE  calls' = calls
    BY <2>2 DEF Accept, PeerClose, OnSend, OnSendPart, history
  <2>3. ASSUME NEW c \in Conns, NEW r \in Requests[c], Recv(c, r)
        PROVE  calls' = calls \/ Call(c, r)
    <3>1. CASE \/ RecvNotReady(c, r) \/ RecvThrows(c, r) \/ RecvEcho(c, r)
               \/ RecvWorkerMode(c, r) \/ RecvNoId(c, r) \/ RecvResult(c, r)
               \/ RecvAdd(c, r) \/ RecvPub(c, r) \/ RecvCreate(c, r) \/ RecvDelete(c, r)
      BY <3>1 DEF RecvNotReady, RecvThrows, RecvEcho, RecvWorkerMode, RecvNoId, RecvResult,
                  RecvAdd, RecvPub, RecvCreate, RecvDelete
    <3>2. CASE \/ RecvCallNoQueue(c, r) \/ RecvCallGive(c, r) \/ RecvCallReject(c, r)
               \/ RecvCallAbsent(c, r) \/ RecvCallEnqueue(c, r)
      BY <3>2 DEF RecvCallNoQueue, RecvCallGive, RecvCallReject, RecvCallAbsent,
                  RecvCallEnqueue
    <3> QED BY <2>3, <3>1, <3>2 DEF Recv
  <2>4. ASSUME NEW w \in Conns, NEW n \in Names, AddWorker(w, n) PROVE calls' = calls
    BY <2>4 DEF AddWorker, AddWorkerDirect, AddWorkerGive, AddWorkerWait, history
  <2>5. ASSUME NEW n \in Names, CleanDeadTasks(n) PROVE calls' = calls
    BY <2>5 DEF CleanDeadTasks, history
  <2>6. CASE CheckTimeout \/ DeleteConnections
    BY <2>6 DEF CheckTimeout, DeleteConnections, history
  <2> QED BY <2>1, <2>2, <2>3, <2>4, <2>5, <2>6 DEF Next
<1> QED BY <1>2, <1>3, <1>4

\* A step that hands out nothing opens connections that wait nowhere.
LEMMA RoutedOpens ==
    ASSUME Routed
    PROVE  \A d \in Conns : Open(d)' => Open(d) \/ Nowhere(d)
<1>1. PICK W \in SUBSET Conns : /\ Moves(W, conn, wait, conn', wait')
                                /\ \A w \in W : Exempt(w)
  BY DEF Routed
<1> QED BY <1>1 DEF Moves, Serves, Exempt, Open

\* Only a step that hands out a call writes down which one.
LEMMA TaskKept ==
    ASSUME IInv, [Next]_vars,
           \A c \in Conns : \A r \in Requests[c] : ~RecvCallGive(c, r),
           \A w \in Conns, n \in Names : ~AddWorkerGive(w, n)
    PROVE  task' = task
<1>1. CASE UNCHANGED vars BY <1>1 DEF vars
<1>2. ASSUME NEW c \in Conns, Accept(c) \/ PeerClose(c) \/ OnSend(c) \/ OnSendPart(c)
      PROVE  task' = task
  BY <1>2 DEF Accept, PeerClose, OnSend, OnSendPart, history
<1>3. ASSUME NEW c \in Conns, NEW r \in Requests[c], Recv(c, r)
      PROVE  task' = task
  <2>1. CASE \/ RecvNotReady(c, r) \/ RecvThrows(c, r) \/ RecvEcho(c, r)
             \/ RecvWorkerMode(c, r) \/ RecvNoId(c, r) \/ RecvResult(c, r)
             \/ RecvAdd(c, r) \/ RecvPub(c, r) \/ RecvCreate(c, r) \/ RecvDelete(c, r)
    BY <2>1 DEF RecvNotReady, RecvThrows, RecvEcho, RecvWorkerMode, RecvNoId, RecvResult,
                RecvAdd, RecvPub, RecvCreate, RecvDelete
  <2>2. CASE \/ RecvCallNoQueue(c, r) \/ RecvCallReject(c, r)
             \/ RecvCallAbsent(c, r) \/ RecvCallEnqueue(c, r)
    BY <2>2 DEF RecvCallNoQueue, RecvCallReject, RecvCallAbsent, RecvCallEnqueue
  <2> QED BY <1>3, <2>1, <2>2 DEF Recv
<1>4. ASSUME NEW w \in Conns, NEW n \in Names, AddWorker(w, n) PROVE task' = task
  BY <1>4 DEF AddWorker, AddWorkerDirect, AddWorkerWait, history
<1>5. ASSUME NEW n \in Names, CleanDeadTasks(n) PROVE task' = task
  BY <1>5 DEF CleanDeadTasks, history
<1>6. CASE CheckTimeout \/ DeleteConnections
  BY <1>6 DEF CheckTimeout, DeleteConnections, history
<1> QED BY <1>1, <1>2, <1>3, <1>4, <1>5, <1>6 DEF Next

-----------------------------------------------------------------------------
(* A call is handed to a worker *)

\* Worker w gets client c, which gets status s.
Hands(xs, ds, w, c, s) ==
    \A d \in Conns :
       /\ ds[d].sock = xs[d].sock /\ ds[d].noid = xs[d].noid /\ ds[d].fail = xs[d].fail
       /\ ds[d].status = IF d = c THEN s ELSE IF d = w THEN GivenStatus(xs[w])
                         ELSE xs[d].status
       /\ ds[d].client = IF d = w THEN IF xs[w].fail THEN c ELSE xs[d].client
                         ELSE xs[d].client
LEMMA HandsStill ==
    ASSUME NEW xs, NEW gs, NEW ds, NEW w, NEW c, NEW s,
           Hands(xs, gs, w, c, s), \A d \in Conns : Still(gs[d], ds[d])
    PROVE  Hands(xs, ds, w, c, s)
BY DEF Hands, Still, Pose
LEMMA GivesHands ==
    ASSUME NEW xs, NEW ds, NEW w, NEW c, NEW s, NEW v, NEW k, Gives(xs, ds, w, c, s, v, k)
    PROVE  Hands(xs, ds, w, c, s)
BY DEF Hands, Gives

\* The handler has found the connections xs, and worker w gets call j of
\* client c: without an id, or as entry i of wait_response.
Handover(xs, w, c, s, i, j) ==
    /\ Moves({}, conn, wait, xs, wait) /\ Hands(xs, conn', w, c, s)
    /\ w # c /\ Joining(xs[w]) /\ s \in WaitsFor
    /\ xs[c].sock = "open" /\ xs[c].status # "worker_wait_result"
    /\ IF xs[w].noid THEN wait' = wait /\ task' = [task EXCEPT ![w] = j]
       ELSE /\ i \in AllIds /\ EntryMade(wait, wait', i, c)
            /\ task' = [task EXCEPT ![i] = j]

LEMMA HandoverOpens ==
    ASSUME NEW xs, NEW w, NEW c, NEW s, NEW i, NEW j, Handover(xs, w, c, s, i, j)
    PROVE  \A d \in Conns : Open(d)' => Open(d)
BY DEF Handover, Moves, Serves, Hands, Open

LEMMA HandoverFirm ==
    ASSUME Firm(conn), NEW xs, NEW w \in Conns, NEW c \in Conns, NEW s, NEW i, NEW j,
           Handover(xs, w, c, s, i, j)
    PROVE  Firm(conn')
<1> SUFFICES ASSUME NEW d \in Conns, conn'[d].sock = "open" PROVE Steady(conn'[d]) BY DEF Firm
<1>1. Steady(xs[d])
  <2>1. xs[d].sock = "open" /\ Serves(conn[d], xs[d]) BY DEF Handover, Hands, Moves
  <2>2. conn[d].sock = "open" BY <2>1 DEF Serves
  <2> QED BY <2>1, <2>2, ServesSteady DEF Firm
<1>2. CASE d = c BY <1>1, <1>2 DEF Handover, Hands, Steady, WaitsFor
<1>3. CASE d = w BY <1>1, <1>3 DEF Handover, Hands, Steady, Joining, GivenStatus
<1>4. CASE d # c /\ d # w BY <1>1, <1>4 DEF Handover, Hands, Steady
<1> QED BY <1>2, <1>3, <1>4

\* What the worker has been handed is the current call of its client.
LEMMA HandoverCurrent ==
    ASSUME RouteInv, CallsKept, NEW xs, NEW w \in Conns, NEW c \in Conns, NEW s, NEW i, NEW j,
           Handover(xs, w, c, s, i, j), j = <<c, calls'[c]>>
    PROVE  CurrentServed' /\ CurrentRegistered'
<1>1. /\ IInv /\ Firm(conn) /\ CurrentServed /\ CurrentRegistered BY DEF RouteInv, LinkInv
<1>2. task \in [Conns \cup AllIds -> Job \cup {None}] BY <1>1 DEF IInv, HistoryInv
<1>3. \A d \in Conns : Serves(conn[d], xs[d]) BY DEF Handover, Moves
<1>4. CurrentServed'
  <2> SUFFICES ASSUME NEW u \in Conns, conn'[u].status = "worker_wait_result",
                      conn'[u].sock = "open", conn'[u].client # None,
                      conn'[conn'[u].client].sock = "open"
               PROVE  task'[u] = <<conn'[u].client, calls'[conn'[u].client]>>
    BY DEF CurrentServed, Open, CurrentCall
  <2>1. u # c BY DEF Handover, Hands, WaitsFor
  <2>2. CASE u = w
    <3>1. xs[w].noid BY <2>1, <2>2 DEF Handover, Hands, GivenStatus
    <3>2. conn'[w].client = c BY <3>1 DEF Handover, Hands, Joining
    <3>3. task'[w] = j BY <1>2, <3>1 DEF Handover
    <3> QED BY <2>2, <3>2, <3>3
  <2>3. CASE u # w
    <3>1. Pose(xs[u], conn'[u]) BY <2>1, <2>3 DEF Handover, Hands, Pose
    <3>2. Pose(conn[u], conn'[u]) /\ Open(u)
      BY <1>3, <3>1 DEF Serves, Pose, Idles, Open
    <3>3. PICK d : d = conn[u].client OBVIOUS
    <3>4. d \in Conns /\ conn'[u].client = d
      <4>1. conn \in Connections(Named) BY <1>1, NamedConnections DEF IInv
      <4>2. conn \in Objects BY <4>1, AreObjects
      <4>3. d \in Conns \cup {None} BY <3>3, <4>2, ObjectFields DEF Objects
      <4> QED BY <3>2, <3>3, <4>3 DEF Pose
    <3>5. ~Nowhere(d)
      <4>1. conn[u].noid BY <1>1, <3>2 DEF Firm, Open, Steady, Pose
      <4>2. u \in Served(conn, d) BY <3>3, <4>1 DEF Served
      <4> QED BY <4>2 DEF Nowhere, NoPlace
    <3>6. Open(d) /\ calls'[d] = calls[d] BY <3>4, <3>5 DEF CallsKept, Open
    <3>7. task[u] = CurrentCall(d)
      <4>1. conn[u].status = "worker_wait_result" BY <3>2 DEF Pose
      <4>2. conn[u].client # None BY <3>2 DEF Pose
      <4> QED BY <1>1, <3>2, <3>3, <3>6, <4>1, <4>2 DEF CurrentServed
    <3>8. task'[u] = task[u]
      <4>1. u \notin AllIds BY DistinctAssumption
      <4> QED BY <1>2, <2>3, <4>1 DEF Handover
    <3> QED BY <3>4, <3>6, <3>7, <3>8 DEF CurrentCall
  <2> QED BY <2>2, <2>3
<1>5. CurrentRegistered'
  <2> SUFFICES ASSUME NEW k \in AllIds, wait'[k] # None, conn'[wait'[k]].sock = "open"
               PROVE  task'[k] = <<wait'[k], calls'[wait'[k]]>>
    BY DEF CurrentRegistered, Open, CurrentCall
  <2>1. CASE ~xs[w].noid /\ k = i
    <3>1. wait'[k] = c /\ task'[k] = j BY <1>2, <2>1 DEF Handover, EntryMade
    <3> QED BY <3>1
  <2>2. CASE xs[w].noid \/ k # i
    <3>1. wait'[k] = wait[k] BY <2>2 DEF Handover, EntryMade
    <3>2. task'[k] = task[k]
      <4>1. k # w BY DistinctAssumption
      <4> QED BY <1>2, <2>2, <4>1 DEF Handover
    <3>3. PICK d \in Conns : d = wait[k] BY <1>1, <3>1 DEF IInv, WaitType
    <3>4. ~Nowhere(d)
      <4>1. k \in Registered(wait, d) BY <3>3 DEF Registered
      <4> QED BY <4>1 DEF Nowhere, NoPlace
    <3>5. Open(d) /\ calls'[d] = calls[d] BY <3>1, <3>3, <3>4 DEF CallsKept, Open
    <3>6. task[k] = CurrentCall(d)
      <4>1. wait[k] # None /\ Open(wait[k]) BY <3>1, <3>3, <3>5
      <4> QED BY <1>1, <3>3, <4>1 DEF CurrentRegistered
    <3> QED BY <3>1, <3>2, <3>3, <3>5, <3>6 DEF CurrentCall
  <2> QED BY <2>1, <2>2
<1> QED BY <1>4, <1>5

\* A worker is told something that expects no result.
LEMMA AsyncMoves ==
    ASSUME NEW cs \in Objects, NEW ws, NEW w \in Conns, Joining(cs[w]),
           NEW ds, ds = SetStatus(cs, w, AfterAsync(cs, w))
    PROVE  Moves({}, cs, ws, ds, ws) /\ ds \in Objects /\ ds[w].status # "worker_wait_result"
<1>1. PICK s \in Statuses : s = AfterAsync(cs, w)
  <2>1. AfterAsync(cs, w) \in {"net", "worker_mode_async"} BY AfterAsyncIs
  <2>2. PICK t \in Statuses : t = "net" BY Values
  <2>3. PICK v \in Statuses : v = "worker_mode_async" BY Values
  <2> QED BY <2>1, <2>2, <2>3
<1>2. s \notin WaitsFor /\ s # "worker_wait_result"
  <2>1. s \in {"net", "worker_mode_async"} BY <1>1, AfterAsyncIs
  <2> QED BY <2>1 DEF WaitsFor
<1>3. ds = SetStatus(cs, w, s) BY <1>1
<1>4. cs[w].client = None BY DEF Joining
<1> QED BY <1>2, <1>3, <1>4, MovesStatus, StatusDoes

\* Worker w gets a call, and it is the current one of its client.
HandsOut(w) ==
    \E c \in Conns : \E xs, s, i, j :
        Handover(xs, w, c, s, i, j) /\ j = <<c, calls'[c]>>

LEMMA RecvCallGiveHands ==
    ASSUME LoopStep, NEW c \in Conns, NEW r \in Requests[c], RecvCallGive(c, r)
    PROVE  alive' = alive /\ ((Routed /\ task' = task) \/ \E w \in Conns : HandsOut(w))
<1>1. PICK n, w, cs : n = r.names[1] /\ w = Taken(r) /\ cs = CallState(c, r) OBVIOUS
<1>2. PICK j : j = <<c, calls[c] + 1>> OBVIOUS
<1>3. PICK i : i = CallId(cs, c, j) OBVIOUS
<1>4. PICK xs : xs = Send(cs, w) OBVIOUS
<1>5. PICK zs : zs = IF cs[w].noid \/ cs[w].fail
                     THEN Link([xs EXCEPT ![w].client = c], c) ELSE xs
  OBVIOUS
<1>6. /\ Call(c, r) /\ Usable(conn, queue[n].workers, r.wid) # {}
      /\ \/ /\ r.op = "async"
            /\ conn' = Send(SetStatus(xs, w, AfterAsync(cs, w)), c)
            /\ wait' = wait /\ task' = task
         \/ /\ r.op = "call" /\ cs[w].noid
            /\ conn' = SetStatus(SetStatus(zs, c, "client_wait_result"),
                                 w, "worker_wait_result")
            /\ wait' = wait /\ task' = [task EXCEPT ![w] = j]
         \/ /\ r.op = "call" /\ ~cs[w].noid /\ wait[i] = None
            /\ conn' = Link([zs EXCEPT ![c].id = i, ![w].status = "net",
                                       ![c].status = "client_wait_result"], c)
            /\ wait' = [wait EXCEPT ![i] = c] /\ task' = [task EXCEPT ![i] = j]
  BY <1>1, <1>2, <1>3, <1>4, <1>5 DEF RecvCallGive
<1>7. IInv /\ LinkState BY LoopFacts
<1>8. Moves({}, conn, wait, cs, wait) /\ cs \in Objects /\ Calling(cs[c], r)
  BY <1>1, <1>6, CallStateGoes
<1>9. w \in Conns /\ w # c /\ Waits(cs[w]) /\ i \in AllIds
  BY <1>1, <1>2, <1>3, <1>6, <1>7, CallFinds
<1>10. Joining(cs[w])
  <2>1. Sound({}, cs, wait, Shortened(r)) BY <1>1, <1>6, <1>7, CallStateSound
  <2> QED BY <1>9, <2>1, WaitsJoining
<1>11. xs \in Objects /\ \A d \in Conns : Alike(cs[d], xs[d]) /\ xs[d].wm = cs[d].wm
  BY <1>4, <1>8, <1>9, SendDoes
<1>12. Joining(xs[w]) /\ Calling(xs[c], r) BY <1>8, <1>9, <1>10, <1>11, AlikeKeeps
<1>13. xs[w].fail = cs[w].fail /\ xs[w].noid = cs[w].noid BY <1>9, <1>11 DEF Alike, Same
<1>14. Moves({}, conn, wait, xs, wait) BY <1>4, <1>8, <1>9, SendMoves, MovesAfter
<1>15. zs = Claimed(xs, w, c) BY <1>5, <1>10, <1>13 DEF Joining, Claimed
<1>16. alive' = alive /\ j = <<c, calls'[c]>>
  BY <1>2, <1>6, <1>7, CallFacts DEF IInv, HistoryInv
<1>17. CASE r.op = "async"
  <2>1. PICK ds : ds = SetStatus(xs, w, AfterAsync(xs, w)) OBVIOUS
  <2>2. Moves({}, xs, wait, ds, wait) /\ ds \in Objects BY <1>9, <1>11, <1>12, <2>1, AsyncMoves
  <2>3. AfterAsync(xs, w) = AfterAsync(cs, w) BY <1>9, <1>11 DEF AfterAsync
  <2>4. conn' = Send(ds, c) /\ wait' = wait /\ task' = task BY <1>6, <1>17, <2>1, <2>3
  <2>5. Moves({}, conn, wait, ds, wait) BY <1>14, <2>2, MovesAfter
  <2>6. Moves({}, conn, wait, conn', wait') BY <2>2, <2>4, <2>5, SendMoves, MovesAfter
  <2> QED BY <1>16, <2>4, <2>6, RoutedAll
<1>18. PICK s \in Statuses : s = "client_wait_result" BY Values
<1>19. xs[c].sock = "open" /\ xs[c].status # "worker_wait_result" /\ s \in WaitsFor
  BY <1>12, <1>18 DEF Calling, WaitsFor
<1>20. CASE r.op = "call" /\ cs[w].noid
  <2>1. conn' = SetStatus(SetStatus(Claimed(xs, w, c), c, s), w, "worker_wait_result")
    BY <1>6, <1>15, <1>18, <1>20
  <2>2. Hands(xs, conn', w, c, s)
    <3>1. Gives(xs, conn', w, c, s, xs[c].id, Pointers(xs[w]))
      BY <1>9, <1>11, <1>13, <1>20, <2>1, GivesNoId
    <3> QED BY <3>1, GivesHands
  <2>3. wait' = wait /\ task' = [task EXCEPT ![w] = j] BY <1>6, <1>20
  <2>4. Handover(xs, w, c, s, i, j)
    BY <1>9, <1>12, <1>13, <1>14, <1>19, <1>20, <2>2, <2>3 DEF Handover
  <2> QED BY <1>9, <1>16, <2>4 DEF HandsOut
<1>21. CASE r.op = "call" /\ ~cs[w].noid
  <2>1. /\ conn' = Link([zs EXCEPT ![c].id = i, ![w].status = "net",
                                   ![c].status = "client_wait_result"], c)
        /\ wait[i] = None /\ wait' = [wait EXCEPT ![i] = c] /\ task' = [task EXCEPT ![i] = j]
    BY <1>6, <1>21
  <2>2. Hands(xs, conn', w, c, s)
    <3>1. Gives(xs, conn', w, c, s, i, Pointers(xs[w]) + 1)
      BY <1>9, <1>11, <1>13, <1>15, <1>18, <1>21, <2>1, CallGives
    <3> QED BY <3>1, GivesHands
  <2>3. EntryMade(wait, wait', i, c) BY <1>7, <1>9, <2>1 DEF IInv, WaitType, EntryMade
  <2>4. Handover(xs, w, c, s, i, j)
    BY <1>9, <1>12, <1>13, <1>14, <1>19, <1>21, <2>1, <2>2, <2>3 DEF Handover
  <2> QED BY <1>9, <1>16, <2>4 DEF HandsOut
<1> QED BY <1>6, <1>17, <1>20, <1>21

\* The first message with work that a scan finds.
LEMMA TakenPlace ==
    ASSUME NEW cs, NEW w, NEW s \in Seq(OwnedMsg), Jobs(cs, wait, w, s) # {}
    PROVE  \E k \in DOMAIN s : Taking(cs, w, s) = s[k]
<1>1. PICK J : J = Jobs(cs, wait, w, s) OBVIOUS
<1>2. J \in SUBSET DOMAIN s BY <1>1 DEF Jobs
<1>3. J \in SUBSET Nat /\ J # {} BY <1>1, <1>2
<1>4. Least(J) \in J BY <1>3, LeastProperty
<1> QED BY <1>1, <1>2, <1>4 DEF Taking

LEMMA AddWorkerGiveHands ==
    ASSUME LoopStep, NEW w \in Conns, NEW n \in Names, AddWorkerGive(w, n)
    PROVE  /\ alive' = alive
           /\ (Routed /\ task' = task /\ ~Stranded(conn'[w])) \/ HandsOut(w)
<1>1. PICK cs : cs = LeaveOther(conn, w, n) OBVIOUS
<1>2. PICK t : t = queue[n].clients OBVIOUS
<1>3. PICK m : m = Taking(cs, w, t) OBVIOUS
<1>4. PICK c : c = m.conn OBVIOUS
<1>5. PICK as : as = AfterScan(cs, wait, w, t) OBVIOUS
<1>6. PICK xs : xs = Send(as, w) OBVIOUS
<1>7. PICK i : i = CallId(xs, c, m.job) OBVIOUS
<1>8. PICK zs : zs = [IF xs[w].fail THEN Link([xs EXCEPT ![w].client = c], c) ELSE xs
                        EXCEPT ![c].status = "busy"]
  OBVIOUS
<1>9. /\ Adding(w, n) /\ Jobs(cs, wait, w, t) # {} /\ alive' = alive /\ calls' = calls
      /\ \/ /\ c = None
            /\ conn' = Register(SetStatus(xs, w, AfterAsync(xs, w)), w, n)
            /\ wait' = wait /\ task' = task
         \/ /\ c # None /\ cs[w].noid
            /\ conn' = Register(SetStatus(zs, w, "worker_wait_result"), w, n)
            /\ wait' = wait /\ task' = [task EXCEPT ![w] = m.job]
         \/ /\ c # None /\ ~cs[w].noid
            /\ conn' = Register(Link([zs EXCEPT ![c].id = i, ![w].status = "net"], c), w, n)
            /\ wait' = [wait EXCEPT ![i] = c] /\ task' = [task EXCEPT ![i] = m.job]
  BY <1>1, <1>2, <1>3, <1>4, <1>5, <1>6, <1>7, <1>8 DEF AddWorkerGive, Taking
<1>10. IInv /\ LinkState /\ CurrentQueued BY LoopFacts DEF LoopStep, RouteInv
<1>11. /\ Moves({}, conn, wait, as, wait) /\ as \in Objects /\ Joining(as[w])
       /\ t \in Seq(OwnedMsg)
  BY <1>1, <1>2, <1>5, <1>9, ScanGoes
<1>12. PICK P \in Queues :
          /\ Sound({}, as, wait, P)
          /\ \A k \in Scanned(cs, wait, w, t) :
                Verdict(cs, wait, w, t[k]) = "job" /\ t[k].conn # None
                   => ScanTakes(cs, as, wait, P, t[k].conn)
  BY <1>1, <1>2, <1>5, <1>9, ScanGoes
<1>13. /\ Least(Jobs(cs, wait, w, t)) \in Scanned(cs, wait, w, t)
       /\ m \in OwnedMsg /\ Verdict(cs, wait, w, m) = "job"
  BY <1>3, <1>9, <1>11, TakingIs
<1>14. /\ c \in Conns \cup {None} /\ m.job \in Job
       /\ c # None => /\ cs[c].sock = "open" /\ cs[c].status = "client_wait_result"
                      /\ ~cs[w].noid => wait[CallId(cs, c, m.job)] = None
  BY <1>4, <1>13, JobIs
<1>15. c # None => ScanTakes(cs, as, wait, P, c)
  BY <1>3, <1>4, <1>12, <1>13 DEF Taking
<1>16. xs \in Objects /\ \A d \in Conns : Alike(as[d], xs[d]) BY <1>6, <1>11, SendDoes
<1>17. Joining(xs[w]) BY <1>11, <1>16, AlikeKeeps
<1>18. \A d \in Conns : ScanKept(cs[d], as[d]) BY <1>1, <1>2, <1>5, <1>9, ScanGoes
<1>19. xs[w].noid = cs[w].noid BY <1>16, <1>18 DEF ScanKept, Alike, Same
<1>20. Moves({}, conn, wait, xs, wait) BY <1>6, <1>11, SendMoves, MovesAfter
<1>21. CASE c = None
  <2>1. PICK ps : ps = SetStatus(xs, w, AfterAsync(xs, w)) OBVIOUS
  <2>2. /\ Moves({}, xs, wait, ps, wait) /\ ps \in Objects
        /\ ps[w].status # "worker_wait_result"
    BY <1>16, <1>17, <2>1, AsyncMoves
  <2>3. conn' = Register(ps, w, n) /\ wait' = wait /\ task' = task BY <1>9, <1>21, <2>1
  <2>4. Moves({}, conn, wait, ps, wait) BY <1>20, <2>2, MovesAfter
  <2>5. \A d \in Conns : Still(ps[d], conn'[d]) BY <2>2, <2>3, RegisterStill
  <2>6. Moves({}, conn, wait, conn', wait') BY <2>3, <2>4, <2>5, MovesStill, MovesAfter
  <2>7. ~Stranded(conn'[w]) BY <2>2, <2>5 DEF Still, Pose, Stranded
  <2> QED BY <1>9, <2>3, <2>6, <2>7, RoutedAll
<1>22. CASE c # None
  <2>1. c \in Conns /\ ScanTakes(cs, as, wait, P, c) BY <1>14, <1>15, <1>22
  <2>2. /\ as[c].status = "client_wait_result" /\ as[c].sock = "open"
        /\ as[c].id = cs[c].id /\ as[c].json = cs[c].json
    BY <1>14, <1>18, <1>22, <2>1 DEF ScanTakes, ScanKept
  <2>3. /\ xs[c].status = "client_wait_result" /\ xs[c].sock = "open"
        /\ xs[c].id = cs[c].id /\ xs[c].json = cs[c].json
    BY <1>16, <2>1, <2>2 DEF Alike, Same
  <2>4. w # c BY <1>17, <2>3 DEF Joining, WaitsFor
  <2>5. PICK s \in Statuses : s = "busy" BY Values
  <2>6. s \in WaitsFor /\ xs[c].status # "worker_wait_result" BY <2>3, <2>5 DEF WaitsFor
  <2>7. zs = SetStatus(Claimed(xs, w, c), c, s) BY <1>8, <2>5 DEF Claimed, SetStatus
  <2>8. m.job = <<c, calls'[c]>>
    <3>1. PICK k \in DOMAIN t : m = t[k] BY <1>3, <1>9, <1>11, TakenPlace
    <3>2. Serves(conn[c], xs[c]) BY <1>20, <2>1 DEF Moves
    <3>3. Open(c) BY <2>3, <3>2 DEF Serves, Open
    <3>4. m.job = CurrentCall(c) BY <1>2, <1>4, <1>10, <1>22, <3>1, <3>3 DEF CurrentQueued
    <3> QED BY <1>9, <3>4 DEF CurrentCall
  <2>9. CASE cs[w].noid
    <3>1. PICK gs : gs = SetStatus(SetStatus(Claimed(xs, w, c), c, s), w, "worker_wait_result")
      OBVIOUS
    <3>2. conn' = Register(gs, w, n) /\ wait' = wait /\ task' = [task EXCEPT ![w] = m.job]
      BY <1>9, <1>22, <2>7, <2>9, <3>1
    <3>3. gs \in Objects /\ Hands(xs, gs, w, c, s)
      <4>1. gs \in Objects /\ Gives(xs, gs, w, c, s, xs[c].id, Pointers(xs[w]))
        BY <1>16, <1>19, <2>1, <2>4, <2>9, <3>1, GivesNoId
      <4> QED BY <4>1, GivesHands
    <3>4. \A d \in Conns : Still(gs[d], conn'[d]) BY <3>2, <3>3, RegisterStill
    <3>5. Hands(xs, conn', w, c, s) BY <3>3, <3>4, HandsStill
    <3>6. Handover(xs, w, c, s, i, m.job)
      BY <1>17, <1>19, <1>20, <2>3, <2>4, <2>6, <2>9, <3>2, <3>5 DEF Handover
    <3> QED BY <1>9, <2>1, <2>8, <3>6 DEF HandsOut
  <2>10. CASE ~cs[w].noid
    <3>1. /\ conn' = Register(Link([zs EXCEPT ![c].id = i, ![w].status = "net"], c), w, n)
          /\ wait' = [wait EXCEPT ![i] = c] /\ task' = [task EXCEPT ![i] = m.job]
      BY <1>9, <1>22, <2>10
    <3>2. i = CallId(cs, c, m.job) BY <1>7, <2>3 DEF CallId
    <3>3. wait[i] = None BY <1>14, <1>22, <2>10, <3>2
    <3>4. i \in AllIds
      <4>1. cs \in Connections(Named) BY <1>1, <1>9, <1>10, AddingLinks
      <4> QED BY <1>14, <2>1, <3>2, <4>1, CallIdType
    <3>5. EntryMade(wait, wait', i, c)
      BY <1>10, <2>1, <3>1, <3>3, <3>4 DEF IInv, WaitType, EntryMade
    <3>6. PICK gs : gs = Link([zs EXCEPT ![c].id = i, ![w].status = "net"], c) OBVIOUS
    <3>7. gs \in Objects /\ Hands(xs, gs, w, c, s)
      <4>1. gs \in Objects /\ Gives(xs, gs, w, c, s, i, Pointers(xs[w]) + 1)
        BY <1>16, <1>19, <2>1, <2>4, <2>7, <2>10, <3>4, <3>6, TakenGives
      <4> QED BY <4>1, GivesHands
    <3>8. \A d \in Conns : Still(gs[d], conn'[d]) BY <3>1, <3>6, <3>7, RegisterStill
    <3>9. Hands(xs, conn', w, c, s) BY <3>7, <3>8, HandsStill
    <3>10. Handover(xs, w, c, s, i, m.job)
      BY <1>17, <1>19, <1>20, <2>3, <2>4, <2>6, <2>10, <3>1, <3>4, <3>5, <3>9 DEF Handover
    <3> QED BY <1>9, <2>1, <2>8, <3>10 DEF HandsOut
  <2> QED BY <2>9, <2>10
<1> QED BY <1>21, <1>22
-----------------------------------------------------------------------------
(* The calls are routed in every step *)

\* A call that must wait is the current one of its client.
LEMMA QueuedEnqueue ==
    ASSUME IInv, CurrentQueued, CallsKept,
           NEW c \in Conns, NEW r \in Requests[c], RecvCallEnqueue(c, r)
    PROVE  CurrentQueued'
<1>1. PICK k, j : k = r.names[1] /\ j = <<c, calls[c] + 1>> OBVIOUS
<1>2. PICK m : m = [conn |-> IF r.op = "async" THEN None ELSE c, prio |-> r.prio,
                    req |-> r.wid, job |-> j]
  OBVIOUS
<1>3. /\ Call(c, r)
      /\ queue' = [queue EXCEPT ![k].workers = RestOfWorkers(r), ![k].clients = Insert(@, m)]
  BY <1>1, <1>2 DEF RecvCallEnqueue
<1>4. /\ r \in RequestType /\ k \in Names /\ j \in Job
      /\ calls' = [calls EXCEPT ![c] = @ + 1]
  BY <1>1, <1>3, CallFacts
<1>5. m \in MsgType
  <2>1. r.prio \in Int /\ r.wid \in Wids \cup {None} BY <1>4, RequestFacts
  <2> QED BY <1>2, <1>4, <2>1 DEF MsgType
<1>6. m.conn # None => m.job = CurrentCall(m.conn)'
  <2>1. calls \in [Conns -> 0 .. MaxCalls] BY DEF IInv, HistoryInv
  <2>2. j = <<c, calls'[c]>> BY <1>1, <1>4, <2>1
  <2>3. m.job = j /\ m.conn \in {c, None} BY <1>2
  <2> QED BY <2>2, <2>3 DEF CurrentCall
<1>7. queue \in Queues BY QueuesAre DEF IInv
<1> SUFFICES ASSUME NEW n \in Names, NEW i \in DOMAIN queue'[n].clients,
                    NEW x, x = queue'[n].clients[i], x.conn # None, Open(x.conn)'
             PROVE  x.job = CurrentCall(x.conn)'
  BY DEF CurrentQueued
<1>8. PICK s, t : s = queue[n].clients /\ t = queue'[n].clients OBVIOUS
<1>9. s \in Seq(MsgType) BY <1>8, MessagesType
<1>10. x = m \/ \E l \in DOMAIN s : x = s[l]
  <2>1. CASE k # n
    <3>1. queue'[n] = queue[n] BY <1>3, <1>7, <2>1 DEF Queues
    <3> QED BY <1>8, <3>1
  <2>2. CASE k = n
    <3>1. queue[n] \in QueueType BY <1>7 DEF Queues
    <3>2. t = Insert(s, m) BY <1>3, <1>7, <1>8, <2>2, <3>1 DEF Queues, QueueType
    <3>3. PICK p : p = Position(s, m) OBVIOUS
    <3>4. /\ Len(s) \in Nat /\ DOMAIN s = 1 .. Len(s) /\ p \in 0 .. Len(s)
          /\ DOMAIN t = 1 .. Len(s) + 1
          /\ \A l \in 1 .. Len(s) + 1 :
                t[l] = IF l <= p THEN s[l] ELSE IF l = p + 1 THEN m ELSE s[l - 1]
      BY <1>5, <1>9, <3>2, <3>3, InsertFacts
    <3>5. i \in 1 .. Len(s) + 1 /\ x = t[i] BY <1>8, <3>4
    <3>6. CASE i <= p BY <3>4, <3>5, <3>6
    <3>7. CASE i = p + 1 BY <3>4, <3>5, <3>7
    <3>8. CASE i > p + 1
      <4>1. i - 1 \in DOMAIN s /\ t[i] = s[i - 1] BY <3>4, <3>5, <3>8
      <4> QED BY <3>5, <4>1
    <3> QED BY <3>4, <3>5, <3>6, <3>7, <3>8
  <2> QED BY <2>1, <2>2
<1>11. ASSUME NEW l \in DOMAIN s, x = s[l] PROVE x.job = CurrentCall(x.conn)'
  BY <1>8, <1>11, CurrentLeft
<1> QED BY <1>6, <1>10, <1>11

LEMMA QueuedStays ==
    ASSUME IInv, [Next]_vars, CurrentQueued, CallsKept
    PROVE  CurrentQueued'
<1>1. CASE \A c \in Conns : \A r \in Requests[c] : ~RecvCallEnqueue(c, r)
  <2>1. \A n \in Names : LineShrinks(queue[n].clients, queue'[n].clients) BY <1>1, ClientsShrink
  <2> QED BY <2>1, QueuedShrinks
<1>2. ASSUME NEW c \in Conns, NEW r \in Requests[c], RecvCallEnqueue(c, r)
      PROVE  CurrentQueued'
  BY <1>2, QueuedEnqueue
<1> QED BY <1>1, <1>2

\* Who hands out a call.
Gave ==
    \/ \E c \in Conns : \E r \in Requests[c] : RecvCallGive(c, r)
    \/ \E w \in Conns : \E n \in Names : AddWorkerGive(w, n)

\* A request is received, and no call handed out.
LEMMA RecvRouted ==
    ASSUME OwnHeaderIds, LoopStep, NEW c \in Conns, NEW r \in Requests[c], Recv(c, r),
           ~RecvCallGive(c, r)
    PROVE  Routed
<1>1. CASE RecvNotReady(c, r) BY <1>1, RecvNotReadyRouted
<1>2. CASE RecvThrows(c, r) BY <1>2, RecvThrowsRouted
<1>3. CASE RecvEcho(c, r) BY <1>3, RecvEchoRouted
<1>4. CASE RecvWorkerMode(c, r) BY <1>4, RecvWorkerModeRouted
<1>5. CASE RecvNoId(c, r) BY <1>5, RecvNoIdRouted
<1>6. CASE RecvResult(c, r) BY <1>6, RecvResultRouted
<1>7. CASE RecvCallNoQueue(c, r) BY <1>7, RecvCallNoQueueRouted
<1>8. CASE RecvCallReject(c, r) BY <1>8, RecvCallRejectRouted
<1>9. CASE RecvCallAbsent(c, r) BY <1>9, RecvCallAbsentRouted
<1>10. CASE RecvCallEnqueue(c, r) BY <1>10, RecvCallEnqueueRouted
<1>11. CASE RecvAdd(c, r) BY <1>11, RecvAddRouted
<1>12. CASE RecvPub(c, r) BY <1>12, RecvPubRouted
<1>13. CASE RecvCreate(c, r) BY <1>13, RecvCreateRouted
<1>14. CASE RecvDelete(c, r) BY <1>14, RecvDeleteRouted
<1> QED BY <1>1, <1>2, <1>3, <1>4, <1>5, <1>6, <1>7, <1>8, <1>9, <1>10, <1>11, <1>12,
           <1>13, <1>14 DEF Recv

\* Every step that hands out no call.
LEMMA NextRouted ==
    ASSUME OwnHeaderIds, RouteInv, Next, IInv', LinkInv', ~Gave
    PROVE  Routed
<1>1. ASSUME NEW c \in Conns, Accept(c) PROVE Routed BY <1>1, AcceptRouted
<1>2. ASSUME NEW c \in Conns, PeerClose(c) \/ OnSend(c) \/ OnSendPart(c) PROVE Routed
  <2>1. LoopStep BY <1>2 DEF PeerClose, OnSend, OnSendPart, LoopReady, LoopStep
  <2> QED BY <1>2, <2>1, PeerCloseRouted, OnSendRouted, OnSendPartRouted
<1>3. ASSUME NEW c \in Conns, NEW r \in Requests[c], Recv(c, r) PROVE Routed
  <2>1. alive
    BY <1>3 DEF Recv, RecvNotReady, RecvThrows, RecvEcho, RecvWorkerMode, RecvNoId, RecvResult,
                RecvCallNoQueue, RecvCallGive, RecvCallReject, RecvCallAbsent,
                RecvCallEnqueue, RecvAdd, RecvPub, RecvCreate, RecvDelete, Call, Plain, Parsed,
                Arrives, LoopReady
  <2>2. LoopStep /\ ~RecvCallGive(c, r) BY <2>1 DEF LoopStep, Gave
  <2> QED BY <1>3, <2>2, RecvRouted
<1>4. ASSUME NEW w \in Conns, NEW n \in Names, AddWorker(w, n) PROVE Routed
  <2>1. LoopStep BY <1>4 DEF AddWorker, AddWorkerDirect, AddWorkerGive, AddWorkerWait, Adding,
                             LoopStep
  <2>2. AddWorkerDirect(w, n) \/ AddWorkerWait(w, n) BY <1>4 DEF AddWorker, Gave
  <2> QED BY <2>1, <2>2, AddWorkerDirectRouted, AddWorkerWaitRouted
<1>5. ASSUME NEW n \in Names, CleanDeadTasks(n) PROVE Routed BY <1>5, CleanDeadTasksRouted
<1>6. CASE CheckTimeout \/ DeleteConnections
  <2>1. LoopStep BY <1>6 DEF CheckTimeout, DeleteConnections, LoopReady, LoopStep
  <2> QED BY <1>6, <2>1, CheckTimeoutRouted, DeleteConnectionsRouted
<1> QED BY <1>1, <1>2, <1>3, <1>4, <1>5, <1>6 DEF Next

\* What every step comes to.
LEMMA StepGoes ==
    ASSUME OwnHeaderIds, RouteInv, Next, LinkInv'
    PROVE  \/ Routed /\ task' = task
           \/ /\ Placed(conn', wait', queue') /\ alive' = alive
              /\ \E w \in Conns : HandsOut(w)
<1>1. IInv /\ IInv' BY DEF RouteInv, LinkInv
<1>2. CASE ~Gave
  <2>1. task' = task
    <3>1. [Next]_vars OBVIOUS
    <3>2. /\ \A c \in Conns : \A r \in Requests[c] : ~RecvCallGive(c, r)
          /\ \A w \in Conns, n \in Names : ~AddWorkerGive(w, n)
      BY <1>2 DEF Gave
    <3> QED BY <1>1, <3>1, <3>2, TaskKept
  <2> QED BY <1>1, <1>2, <2>1, NextRouted
<1>3. CASE Gave
  <2>1. alive
    <3>1. ASSUME NEW c \in Conns, NEW r \in Requests[c], RecvCallGive(c, r) PROVE alive
      <4>1. Call(c, r) BY <3>1 DEF RecvCallGive
      <4> QED BY <4>1 DEF Call, Plain, Parsed, Arrives, LoopReady
    <3>2. ASSUME NEW w \in Conns, NEW n \in Names, AddWorkerGive(w, n) PROVE alive
      <4>1. Adding(w, n) BY <3>2 DEF AddWorkerGive
      <4> QED BY <4>1 DEF Adding
    <3> QED BY <1>3, <3>1, <3>2 DEF Gave
  <2>2. LoopStep BY <2>1 DEF LoopStep
  <2>3. alive' = alive /\ ((Routed /\ task' = task) \/ \E w \in Conns : HandsOut(w))
    BY <1>3, <2>2, RecvCallGiveHands, AddWorkerGiveHands DEF Gave
  <2>4. Placed(conn', wait', queue') BY <2>1, <2>3 DEF LinkInv, LinkState, Sound
  <2> QED BY <2>3, <2>4
<1> QED BY <1>2, <1>3

LEMMA NextRoutes ==
    ASSUME OwnHeaderIds
    PROVE  RouteInv /\ [Next]_vars => RouteInv'
<1> SUFFICES ASSUME RouteInv, [Next]_vars PROVE RouteInv' OBVIOUS
<1>1. /\ LinkInv /\ IInv /\ Placed(conn, wait, queue) /\ Firm(conn)
      /\ CurrentQueued /\ CurrentServed /\ CurrentRegistered
  BY DEF RouteInv, LinkInv
<1>2. LinkInv' BY <1>1, NextLinks
<1>3. CASE UNCHANGED vars
  <2>1. conn' = conn /\ wait' = wait /\ queue' = queue /\ calls' = calls /\ task' = task
    BY <1>3 DEF vars, brokerVars, history
  <2>2. Placed(conn', wait', queue') /\ Firm(conn') BY <1>1, <2>1
  <2>3. CurrentQueued' BY <1>1, <2>1 DEF CurrentQueued, CurrentCall, Open
  <2>4. CurrentServed' /\ CurrentRegistered'
    BY <1>1, <2>1 DEF CurrentServed, CurrentRegistered, CurrentCall, Open
  <2> QED BY <1>2, <2>2, <2>3, <2>4 DEF RouteInv
<1>4. CASE Next
  <2>1. CASE Routed /\ task' = task
    <3>1. CallsKept BY <2>1, RoutedOpens, CallsGo
    <3>2. Firm(conn') BY <1>1, <2>1, FirmKept
    <3>3. Placed(conn', wait', queue') BY <2>1 DEF Routed
    <3>4. CurrentServed' /\ CurrentRegistered' BY <1>1, <2>1, <3>1, CurrentKept
    <3>5. CurrentQueued' BY <1>1, <3>1, QueuedStays
    <3> QED BY <1>2, <3>2, <3>3, <3>4, <3>5 DEF RouteInv
  <2>2. ASSUME Placed(conn', wait', queue'), NEW w \in Conns, HandsOut(w) PROVE RouteInv'
    <3>1. PICK c \in Conns : \E xs, s, i, j :
             Handover(xs, w, c, s, i, j) /\ j = <<c, calls'[c]>>
      BY <2>2 DEF HandsOut
    <3>2. PICK xs, s, i, j : Handover(xs, w, c, s, i, j) /\ j = <<c, calls'[c]>> BY <3>1
    <3>3. \A d \in Conns : Open(d)' => Open(d) BY <3>2, HandoverOpens
    <3>4. CallsKept BY <3>3, CallsGo
    <3>5. Firm(conn') BY <1>1, <3>2, HandoverFirm
    <3>6. CurrentServed' /\ CurrentRegistered' BY <3>2, <3>4, HandoverCurrent
    <3>7. CurrentQueued' BY <1>1, <3>4, QueuedStays
    <3> QED BY <1>2, <2>2, <3>5, <3>6, <3>7 DEF RouteInv
  <2> QED BY <1>2, <1>4, <2>1, <2>2, StepGoes
<1> QED BY <1>3, <1>4

LEMMA InitRoutes == Init => RouteInv
<1> SUFFICES ASSUME Init PROVE RouteInv OBVIOUS
<1>1. LinkInv BY InitLinks
<1>2. IInv /\ alive BY <1>1 DEF LinkInv, Init
<1>3. PICK x : x = [NewConn("none", FALSE, FALSE, FALSE) EXCEPT !.link = 0] OBVIOUS
<1>4. x.sock = "none" BY <1>3 DEF NewConn
<1>5. \A d \in Conns : conn[d] = x BY <1>3 DEF Init
<1>6. \A d \in Conns : conn[d].sock # "open" BY <1>4, <1>5
<1>7. Placed(conn, wait, queue) /\ Firm(conn) BY <1>6 DEF Placed, Firm
<1>8. CurrentServed BY <1>6 DEF CurrentServed, Open
<1>9. CurrentRegistered BY DEF Init, CurrentRegistered
<1>10. CurrentQueued
  <2>1. \A n \in Names : queue[n].clients = << >> BY DEF Init, NoQueue
  <2> QED BY <2>1 DEF CurrentQueued
<1> QED BY <1>1, <1>7, <1>8, <1>9, <1>10 DEF RouteInv

LEMMA RoutesRight == RouteInv => RoutedToCaller
<1> SUFFICES ASSUME RouteInv PROVE RoutedToCaller OBVIOUS
<1>1. /\ IInv /\ Placed(conn, wait, queue) /\ Firm(conn)
      /\ CurrentServed /\ CurrentRegistered
  BY DEF RouteInv, LinkInv
<1>2. \A d \in Conns : conn[d].status \in WaitsFor => Waiting(d) BY DEF WaitsFor, Waiting
<1>3. ASSUME NEW i \in AllIds, wait[i] # None, Open(wait[i])
      PROVE  task[i] = CurrentCall(wait[i]) /\ Waiting(wait[i])
  <2>1. PICK d \in Conns : d = wait[i] BY <1>1, <1>3 DEF IInv, WaitType
  <2>2. Registered(wait, d) # {} BY <2>1 DEF Registered
  <2>3. conn[d].status \in WaitsFor BY <1>1, <1>3, <2>1, <2>2, WaitsSomewhere DEF Open
  <2> QED BY <1>1, <1>2, <1>3, <2>1, <2>3 DEF CurrentRegistered
<1>4. ASSUME NEW w \in Conns, conn[w].status = "worker_wait_result", Open(w),
             conn[w].client # None, Open(conn[w].client)
      PROVE  task[w] = CurrentCall(conn[w].client) /\ Waiting(conn[w].client)
  <2>1. conn \in Objects
    <3>1. conn \in Connections(Named) BY <1>1, NamedConnections DEF IInv
    <3> QED BY <3>1, AreObjects
  <2>2. PICK d \in Conns : d = conn[w].client
    <3>1. conn[w] \in ConnType BY <2>1 DEF Objects
    <3>2. conn[w].client \in Conns \cup {None} BY <3>1, ObjectFields
    <3> QED BY <1>4, <3>2
  <2>3. conn[w].noid BY <1>1, <1>4 DEF Firm, Steady, Open
  <2>4. Served(conn, d) # {} BY <2>2, <2>3 DEF Served
  <2>5. conn[d].status \in WaitsFor BY <1>1, <1>4, <2>2, <2>4, WaitsSomewhere DEF Open
  <2> QED BY <1>1, <1>2, <1>4, <2>2, <2>5 DEF CurrentServed
<1> QED BY <1>3, <1>4 DEF RoutedToCaller

\* The invariant of the routes, if no client writes an id of another client's
\* calls in a header.
THEOREM RoutesInvariant ==
    ASSUME OwnHeaderIds
    PROVE  Spec => []RouteInv
<1>1. RouteInv /\ [Next]_vars => RouteInv' BY NextRoutes
<1> QED BY <1>1, InitRoutes, PTL DEF Spec

\* An answer goes to the client that made the call: when worker_result finds
\* a client in wait_response, or worker_result_noid takes worker->client, that
\* client is still open and waiting, and the call the worker was handed is the
\* last one that the client made; no entry of wait_response and no pointer
\* client survives into a later call, whoever disconnected in between.
THEOREM RoutedToCallerHolds ==
    ASSUME OwnHeaderIds
    PROVE  Spec => []RoutedToCaller
<1> QED BY RoutesInvariant, RoutesRight, PTL
-----------------------------------------------------------------------------
(* Where nobody publishes, no worker has a message to be sent *)

Silent(cs) ==
    DOMAIN cs = Conns /\ \A c \in Conns : "dm" \in DOMAIN cs[c] /\ cs[c].dm = 0

\* A connection is written that has none.
LEMMA SilentPut ==
    ASSUME NEW cs, Silent(cs), NEW c, NEW y, "dm" \in DOMAIN y, y.dm = 0
    PROVE  Silent([cs EXCEPT ![c] = y])
  BY DEF Silent

\* What the handlers do to one connection.
LEMMA SilentHelpers ==
    ASSUME NEW cs, Silent(cs), NEW c
    PROVE  /\ Silent(Link(cs, c)) /\ Silent(Unlink(cs, c)) /\ Silent(Send(cs, c))
           /\ Silent(PopItem(cs, c))
           /\ \A s : Silent(SetStatus(cs, c, s))
           /\ \A n : Silent(PushItem(cs, c, n))
  BY DEF Silent, Link, Unlink, Send, PopItem, SetStatus, PushItem

LEMMA SilentRelease ==
    ASSUME NEW cs, Silent(cs), NEW s, NEW R
    PROVE  Silent(Release(cs, s, R))
  BY DEF Silent, Release

\* Loop::worker_result and worker_result_noid.
LEMMA SilentResult ==
    ASSUME NEW cs, Silent(cs), NEW ws, NEW i
    PROVE  Silent(ResultClient(cs, ws, i))
<1>1. PICK d : d = ws[i] OBVIOUS
<1>2. PICK u : u = Unlink(cs, d) OBVIOUS
<1>3. Silent(u) /\ Silent(SetStatus(Send(u, d), d, "net")) BY <1>2, SilentHelpers
<1> QED BY <1>1, <1>2, <1>3 DEF ResultClient

LEMMA SilentNoId ==
    ASSUME NEW cs, Silent(cs), NEW w
    PROVE  Silent(NoIdResult(cs, w))
<1>1. PICK d, x, y : /\ d = cs[w].client
                     /\ x = IF cs[w].wm THEN Unlink(cs, d)[w].noid ELSE FALSE
                     /\ y = IF cs[w].wm THEN Unlink(cs, d)[w].fail ELSE FALSE
  OBVIOUS
<1>2. PICK u : u = [Unlink(cs, d) EXCEPT ![w].client = None,
                                         ![w].noid = IF cs[w].wm THEN @ ELSE FALSE,
                                         ![w].fail = IF cs[w].wm THEN @ ELSE FALSE]
  OBVIOUS
<1>3. Silent(Unlink(cs, d)) BY SilentHelpers
<1>4. Silent(u) BY <1>2, <1>3 DEF Silent
<1>5. Silent(Send(SetStatus(u, d, "net"), d)) BY <1>4, SilentHelpers
<1> QED BY <1>1, <1>2, <1>4, <1>5 DEF NoIdResult

\* Loop::_close.
LEMMA SilentFail ==
    ASSUME NEW cs, Silent(cs), NEW ws, NEW c
    PROVE  Silent(FailClient(cs, ws, c))
<1>1. PICK d : d = cs[c].client OBVIOUS
<1>2. PICK as : as = IF cs[c].noid
                     THEN SetStatus(IF IsClosed(cs, d) THEN cs ELSE Send(cs, d), d, "net")
                     ELSE IF cs[d].id = None \/ ws[cs[d].id] = None THEN cs
                     ELSE ResultClient(cs, ws, cs[d].id)
  OBVIOUS
<1>3. Silent(as) BY <1>2, SilentHelpers, SilentResult
<1>4. Silent(Unlink(as, d)) BY <1>3, SilentHelpers
<1>5. Silent([Unlink(as, d) EXCEPT ![c].client = None]) BY <1>4 DEF Silent
<1> QED BY <1>1, <1>2, <1>5 DEF FailClient

LEMMA SilentDisconnect ==
    ASSUME NEW cs, Silent(cs), NEW ws, NEW c, Disconnect(cs, ws, c)
    PROVE  Silent(conn')
<1>1. PICK ds, vs : ds = DropOwn(cs, ws, c) /\ vs = DropEntry(cs, ws, c) OBVIOUS
<1>2. Silent(ds)
  <2>1. PICK ps : ps = PopItem(cs, c) OBVIOUS
  <2>2. Silent(ps) BY <2>1, SilentHelpers
  <2> QED BY <1>1, <2>1, <2>2 DEF DropOwn, Silent
<1>3. conn' \in {ds, Unlink(FailClient(ds, vs, c), c)} BY <1>1 DEF Disconnect
<1> QED BY <1>2, <1>3, SilentFail, SilentHelpers

LEMMA SilentStart ==
    ASSUME NEW cs, Silent(cs), NEW c, NEW r
    PROVE  Silent(Start(cs, c, r))
<1>1. PICK fs : fs = IF cs[c].client = None THEN cs ELSE Unlink(cs, cs[c].client) OBVIOUS
<1>2. Silent(fs) BY <1>1, SilentHelpers
<1>3. \A x : /\ DOMAIN Headers(x, r) = DOMAIN x
             /\ "dm" \in DOMAIN x => Headers(x, r).dm = x.dm
  BY DEF Headers
<1>4. \A x : /\ DOMAIN Reset(x) = DOMAIN x
             /\ "dm" \in DOMAIN x => Reset(x).dm = x.dm
  BY DEF Reset
<1>5. CASE c \in Conns
  <2>1. PICK y, z : y = Headers(Reset(fs[c]), r) /\ z = Headers(cs[c], r) OBVIOUS
  <2>2. "dm" \in DOMAIN y /\ y.dm = 0 /\ "dm" \in DOMAIN z /\ z.dm = 0
    BY <1>2, <1>3, <1>4, <1>5, <2>1 DEF Silent
  <2>3. Silent([fs EXCEPT ![c] = y]) /\ Silent([cs EXCEPT ![c] = z]) BY <1>2, <2>2, SilentPut
  <2>4. Start(cs, c, r) \in {[fs EXCEPT ![c] = y], [cs EXCEPT ![c] = z]}
    BY <1>1, <2>1 DEF Start
  <2> QED BY <2>3, <2>4
<1>6. CASE c \notin Conns BY <1>1, <1>2, <1>6 DEF Start, Silent
<1> QED BY <1>5, <1>6

LEMMA SilentCall ==
    ASSUME Silent(conn), NEW c, NEW r
    PROVE  Silent(CallState(c, r))
  BY SilentStart, SilentRelease DEF CallState

LEMMA SilentClaim ==
    ASSUME NEW cs, Silent(cs), NEW w, NEW c
    PROVE  Silent(Link([cs EXCEPT ![w].client = c], c))
<1>1. Silent([cs EXCEPT ![w].client = c]) BY DEF Silent
<1> QED BY <1>1, SilentHelpers

\* The parts of _add_worker.
LEMMA SilentLeave ==
    ASSUME NEW cs, Silent(cs), NEW w, NEW n
    PROVE  Silent(LeaveOther(cs, w, n))
<1>1. Silent(PopItem(cs, w)) BY SilentHelpers
<1>2. Silent([PopItem(cs, w) EXCEPT ![w].dm = 0]) BY <1>1 DEF Silent
<1> QED BY <1>2 DEF LeaveOther

LEMMA SilentRegister ==
    ASSUME NEW cs, Silent(cs), NEW w, NEW n
    PROVE  Silent(Register(cs, w, n))
<1>1. PICK ds : ds = IF cs[w].wm \/ cs[w].noid \/ cs[w].status = "worker_wait_job"
                     THEN PushItem(cs, w, n) ELSE cs
  OBVIOUS
<1>2. Silent(ds) BY <1>1, SilentHelpers
<1>3. Silent([ds EXCEPT ![w].sub = n]) BY <1>2 DEF Silent
<1> QED BY <1>1, <1>2, <1>3 DEF Register

LEMMA SilentScan ==
    ASSUME NEW cs, Silent(cs), NEW ws, NEW w, NEW s
    PROVE  Silent(AfterScan(cs, ws, w, s))
<1> SUFFICES ASSUME NEW d \in Conns
             PROVE  "dm" \in DOMAIN AfterScan(cs, ws, w, s)[d] /\ AfterScan(cs, ws, w, s)[d].dm = 0
  BY DEF AfterScan, Silent
<1>1. \E a, b, e, f, g : AfterScan(cs, ws, w, s)[d]
         = [cs[d] EXCEPT !.link = a, !.out = b, !.wr = e, !.id = f, !.status = g]
  BY DEF AfterScan
<1> QED BY <1>1 DEF Silent

\* Every request but a message that is published.
LEMMA SilentRecv ==
    ASSUME Silent(conn), NEW c \in Conns, NEW r \in Requests[c], Recv(c, r), r.op # "pub"
    PROVE  Silent(conn')
<1>1. PICK cs : cs = Start(conn, c, r) OBVIOUS
<1>2. PICK ks : ks = CallState(c, r) OBVIOUS
<1>3. Silent(cs) /\ Silent(ks) BY <1>1, <1>2, SilentStart, SilentCall
<1>4. CASE RecvNotReady(c, r) BY <1>4 DEF RecvNotReady, brokerVars
<1>5. CASE RecvThrows(c, r)
  <2>1. Silent([conn EXCEPT ![c].id = None]) BY DEF Silent
  <2>2. Disconnect([conn EXCEPT ![c].id = None], wait, c) BY <1>5 DEF RecvThrows
  <2> QED BY <2>1, <2>2, SilentDisconnect
<1>6. CASE RecvEcho(c, r) \/ RecvCreate(c, r) \/ RecvCallNoQueue(c, r)
  <2>1. conn' = Send(cs, c) BY <1>1, <1>6 DEF RecvEcho, RecvCreate, RecvCallNoQueue
  <2> QED BY <1>3, <2>1, SilentHelpers
<1>7. CASE RecvWorkerMode(c, r)
  <2>1. PICK ds : ds = IF cs[c].status = "worker_mode_async" THEN cs ELSE NoIdResult(cs, c)
    OBVIOUS
  <2>2. Silent(ds) BY <1>3, <2>1, SilentNoId
  <2>3. \/ Disconnect(cs, wait, c)
        \/ conn' = [Send(PopItem(ds, c), c) EXCEPT ![c].wm = FALSE, ![c].status = "net"]
        \/ conn' = ds
    BY <1>1, <1>7, <2>1 DEF RecvWorkerMode
  <2>4. Silent(Send(PopItem(ds, c), c)) BY <2>2, SilentHelpers
  <2>5. Silent([Send(PopItem(ds, c), c) EXCEPT ![c].wm = FALSE, ![c].status = "net"])
    BY <2>4 DEF Silent
  <2> QED BY <1>3, <2>2, <2>3, <2>5, SilentDisconnect
<1>8. CASE RecvNoId(c, r)
  <2>1. Silent(NoIdResult(cs, c)) BY <1>3, SilentNoId
  <2>2. Silent(SetStatus(NoIdResult(cs, c), c, "net")) BY <2>1, SilentHelpers
  <2>3. \/ Disconnect(cs, wait, c)
        \/ conn' = Send(cs, c)
        \/ conn' = Send(SetStatus(NoIdResult(cs, c), c, "net"), c)
    BY <1>1, <1>8 DEF RecvNoId
  <2> QED BY <1>3, <2>2, <2>3, SilentDisconnect, SilentHelpers
<1>9. CASE RecvResult(c, r)
  <2>1. PICK i : i = IF r.id # None THEN r.id ELSE IF r.json \in Ids THEN r.json ELSE None
    OBVIOUS
  <2>2. PICK ds : ds = IF i # None /\ wait[i] # None THEN ResultClient(cs, wait, i) ELSE cs
    OBVIOUS
  <2>3. Silent(ds) BY <1>3, <2>2, SilentResult
  <2>4. conn' = SetStatus(Send(ds, c), c, "net") BY <1>1, <1>9, <2>1, <2>2 DEF RecvResult
  <2>5. Silent(Send(ds, c)) BY <2>3, SilentHelpers
  <2> QED BY <2>4, <2>5, SilentHelpers
<1>10. CASE RecvCallGive(c, r)
  <2>1. PICK w, i : w = Taken(r) /\ i = CallId(ks, c, <<c, calls[c] + 1>>) OBVIOUS
  <2>2. PICK xs : xs = Send(ks, w) OBVIOUS
  <2>3. PICK zs : zs = IF ks[w].noid \/ ks[w].fail
                       THEN Link([xs EXCEPT ![w].client = c], c) ELSE xs
    OBVIOUS
  <2>4. \/ conn' = Send(SetStatus(xs, w, AfterAsync(ks, w)), c)
        \/ conn' = SetStatus(SetStatus(zs, c, "client_wait_result"), w, "worker_wait_result")
        \/ conn' = Link([zs EXCEPT ![c].id = i, ![w].status = "net",
                                   ![c].status = "client_wait_result"], c)
    BY <1>2, <1>10, <2>1, <2>2, <2>3 DEF RecvCallGive
  <2>5. Silent(xs) BY <1>3, <2>2, SilentHelpers
  <2>6. Silent(zs) BY <2>3, <2>5, SilentClaim
  <2>7. Silent(SetStatus(xs, w, AfterAsync(ks, w))) BY <2>5, SilentHelpers
  <2>8. Silent(SetStatus(zs, c, "client_wait_result")) BY <2>6, SilentHelpers
  <2>9. Silent([zs EXCEPT ![c].id = i, ![w].status = "net",
                         ![c].status = "client_wait_result"])
    BY <2>6 DEF Silent
  <2> QED BY <2>4, <2>7, <2>8, <2>9, SilentHelpers
<1>11. CASE RecvCallReject(c, r)
  <2>1. PICK w, i : w = Taken(r) /\ i = CallId(ks, c, <<c, calls[c] + 1>>) OBVIOUS
  <2>2. conn' = Send([Link(ks, w) EXCEPT ![c].id = IF NoIdFound(ks, c) THEN @ ELSE i], c)
    BY <1>2, <1>11, <2>1 DEF RecvCallReject
  <2>3. Silent(Link(ks, w)) BY <1>3, SilentHelpers
  <2>4. Silent([Link(ks, w) EXCEPT ![c].id = IF NoIdFound(ks, c) THEN @ ELSE i])
    BY <2>3 DEF Silent
  <2> QED BY <2>2, <2>4, SilentHelpers
<1>12. CASE RecvCallAbsent(c, r)
  <2>1. conn' = Send(ks, c) BY <1>2, <1>12 DEF RecvCallAbsent
  <2> QED BY <1>3, <2>1, SilentHelpers
<1>13. CASE RecvCallEnqueue(c, r)
  <2>1. conn' = IF r.op = "async" THEN Send(ks, c)
                ELSE Link(SetStatus(ks, c, "client_wait_result"), c)
    BY <1>2, <1>13 DEF RecvCallEnqueue
  <2>2. Silent(SetStatus(ks, c, "client_wait_result")) BY <1>3, SilentHelpers
  <2> QED BY <1>3, <2>1, <2>2, SilentHelpers
<1>14. CASE RecvAdd(c, r)
  <2>1. PICK ds : ds = [cs EXCEPT ![c].wm = (r.op = "worker"), ![c].noid = (r.op = "get+"),
                                  ![c].fail = (r.op = "get+")]
    OBVIOUS
  <2>2. PICK b, f, ns : /\ b = (r.op # "get")
                        /\ f = (r.op # "get" \/ r.option = "fail_on_disconnect")
                        /\ ns = IF r.op = "worker" THEN r.names ELSE << >>
    OBVIOUS
  <2>3. Silent(ds) BY <1>3, <2>1 DEF Silent
  <2>4. Silent([ds EXCEPT ![c].wm = FALSE]) BY <2>3 DEF Silent
  <2>5. Silent([ds EXCEPT ![c].noid = b, ![c].fail = f, ![c].names = ns]) BY <2>3 DEF Silent
  <2>6. Silent(Send(ds, c)) /\ Silent(Send([ds EXCEPT ![c].wm = FALSE], c))
    BY <2>3, <2>4, SilentHelpers
  <2>7. conn' \in {Send(ds, c), Send([ds EXCEPT ![c].wm = FALSE], c),
                   [ds EXCEPT ![c].noid = b, ![c].fail = f, ![c].names = ns]}
    BY <1>1, <1>14, <2>1, <2>2, Zenon DEF RecvAdd
  <2> QED BY <2>5, <2>6, <2>7
<1>15. CASE RecvPub(c, r) BY <1>15 DEF RecvPub, Plain
<1>16. CASE RecvDelete(c, r)
  <2>1. PICK n : n = r.names[1] OBVIOUS
  <2>2. PICK ref : ref = [d \in Conns |->
           Cardinality({i \in DOMAIN queue[n].workers : queue[n].workers[i] = d})
             + Cardinality({i \in DOMAIN queue[n].clients : queue[n].clients[i].conn = d})]
    OBVIOUS
  <2>3. PICK ts : ts = [d \in Conns |->
           [PopListed(cs, d, n) EXCEPT
               !.link = @ - ref[d],
               !.out = IF cs[d].sock = "open" THEN @ + ref[d] ELSE @,
               !.wr = @ \/ (cs[d].sock = "open" /\ ref[d] > 0)]]
    OBVIOUS
  <2>4. conn' = Send(ts, c) BY <1>1, <1>16, <2>1, <2>2, <2>3, ZenonT(60) DEF RecvDelete
  <2>5. ASSUME NEW d \in Conns
        PROVE  "dm" \in DOMAIN PopListed(cs, d, n) /\ PopListed(cs, d, n).dm = 0
    <3>1. Silent(PopItem(cs, d)) BY <1>3, SilentHelpers
    <3> QED BY <1>3, <3>1 DEF PopListed, Silent
  <2>6. Silent(ts) BY <2>3, <2>5 DEF Silent
  <2> QED BY <2>4, <2>6, SilentHelpers
<1> QED BY <1>4, <1>5, <1>6, <1>7, <1>8, <1>9, <1>10, <1>11, <1>12, <1>13, <1>14, <1>15,
           <1>16 DEF Recv

\* A worker is added.
LEMMA SilentAdd ==
    ASSUME Silent(conn), NEW w \in Conns, NEW n \in Names, AddWorker(w, n)
    PROVE  Silent(conn')
<1>1. PICK cs : cs = LeaveOther(conn, w, n) OBVIOUS
<1>2. PICK t, s : t = queue[n].clients /\ s = queue[n].workers OBVIOUS
<1>3. PICK as : as = AfterScan(cs, wait, w, t) OBVIOUS
<1>4. Silent(cs) BY <1>1, SilentLeave
<1>5. Silent(as) BY <1>3, <1>4, SilentScan
<1>6. CASE AddWorkerDirect(w, n) BY <1>1, <1>4, <1>6 DEF AddWorkerDirect, Silent
<1>7. CASE AddWorkerGive(w, n)
  <2>1. PICK m, c : m = Taking(cs, w, t) /\ c = m.conn OBVIOUS
  <2>2. PICK xs : xs = Send(as, w) OBVIOUS
  <2>3. PICK i : i = CallId(xs, c, m.job) OBVIOUS
  <2>4. PICK ks : ks = IF xs[w].fail THEN Link([xs EXCEPT ![w].client = c], c) ELSE xs
    OBVIOUS
  <2>5. PICK zs : zs = [ks EXCEPT ![c].status = "busy"] OBVIOUS
  <2>6. \/ conn' = Register(SetStatus(xs, w, AfterAsync(xs, w)), w, n)
        \/ conn' = Register(SetStatus(zs, w, "worker_wait_result"), w, n)
        \/ conn' = Register(Link([zs EXCEPT ![c].id = i, ![w].status = "net"], c), w, n)
    BY <1>1, <1>2, <1>3, <1>7, <2>1, <2>2, <2>3, <2>4, <2>5, ZenonT(60) DEF AddWorkerGive, Taking
  <2>7. Silent(xs) BY <1>5, <2>2, SilentHelpers
  <2>8. Silent(ks) BY <2>4, <2>7, SilentClaim
  <2>9. Silent(zs) BY <2>5, <2>8 DEF Silent
  <2>10. Silent([zs EXCEPT ![c].id = i, ![w].status = "net"]) BY <2>9 DEF Silent
  <2>11. /\ Silent(SetStatus(xs, w, AfterAsync(xs, w)))
         /\ Silent(SetStatus(zs, w, "worker_wait_result"))
         /\ Silent(Link([zs EXCEPT ![c].id = i, ![w].status = "net"], c))
    BY <2>7, <2>9, <2>10, SilentHelpers
  <2> QED BY <2>6, <2>11, SilentRegister
<1>8. CASE AddWorkerWait(w, n)
  <2>1. PICK R : R = {i \in DOMAIN s : IsClosed(cs, s[i]) \/ s[i] = w} OBVIOUS
  <2>2. PICK ls : ls = Link(Release(as, s, R), w) OBVIOUS
  <2>3. conn' = Register(SetStatus(ls, w, "worker_wait_job"), w, n)
    BY <1>1, <1>2, <1>3, <1>8, <2>1, <2>2 DEF AddWorkerWait
  <2>4. Silent(Release(as, s, R)) BY <1>5, SilentRelease
  <2>5. Silent(ls) BY <2>2, <2>4, SilentHelpers
  <2>6. Silent(SetStatus(ls, w, "worker_wait_job")) BY <2>5, SilentHelpers
  <2> QED BY <2>3, <2>6, SilentRegister
<1> QED BY <1>6, <1>7, <1>8 DEF AddWorker

\* Nobody publishes.
NoPub == \A c \in Conns : \A r \in Requests[c] : r.op # "pub"

LEMMA InitQuiet == Init => Silent(conn)
  BY DEF Init, Silent, NewConn

LEMMA NextQuiet ==
    ASSUME NoPub, Silent(conn), Next
    PROVE  Silent(conn')
<1>1. ASSUME NEW c \in Conns, Accept(c) PROVE Silent(conn')
  <2>1. PICK a, b, k : conn' = [conn EXCEPT ![c] = NewConn("open", a, b, k)]
    BY <1>1 DEF Accept
  <2>2. \A x : /\ x = NewConn("open", a, b, k) => "dm" \in DOMAIN x /\ x.dm = 0 BY DEF NewConn
  <2> QED BY <2>1, <2>2, SilentPut
<1>2. ASSUME NEW c \in Conns, PeerClose(c) PROVE Silent(conn')
  BY <1>2, SilentDisconnect DEF PeerClose
<1>3. ASSUME NEW c \in Conns, OnSend(c) PROVE Silent(conn')
  <2>1. PICK k : k = IF conn[c].out > 0 THEN conn[c].out ELSE IF conn[c].dm > 0 THEN 1 ELSE 0
    OBVIOUS
  <2>2. PICK cs : cs = [conn EXCEPT ![c].out = 0, ![c].wr = FALSE,
                                    ![c].dm = IF conn[c].out = 0 THEN @ - k ELSE @]
    OBVIOUS
  <2>3. conn' = cs \/ Disconnect(cs, wait, c) BY <1>3, <2>1, <2>2 DEF OnSend
  <2>4. conn[c].dm = 0 BY DEF Silent
  <2>5. conn[c].out = 0 => k = 0 BY <2>1, <2>4
  <2>6. Silent(cs) BY <2>2, <2>4, <2>5 DEF Silent
  <2> QED BY <2>3, <2>6, SilentDisconnect
<1>4. ASSUME NEW c \in Conns, OnSendPart(c) PROVE Silent(conn')
  BY <1>4 DEF OnSendPart, Silent
<1>5. ASSUME NEW c \in Conns, NEW r \in Requests[c], Recv(c, r) PROVE Silent(conn')
  BY <1>5, SilentRecv DEF NoPub
<1>6. ASSUME NEW w \in Conns, NEW n \in Names, AddWorker(w, n) PROVE Silent(conn')
  BY <1>6, SilentAdd
<1>7. ASSUME NEW n \in Names, CleanDeadTasks(n) PROVE Silent(conn')
  <2>1. \E f : conn' = [c \in Conns |-> [conn[c] EXCEPT !.link = f[c]]]
    <3>1. PICK s, t : s = queue[n].workers /\ t = queue[n].clients OBVIOUS
    <3>2. PICK R : R = {i \in DOMAIN s : IsClosed(conn, s[i])
                                         \/ conn[s[i]].status # "worker_wait_job"}
      OBVIOUS
    <3>3. PICK T : T = {i \in DOMAIN t : t[i].conn # None /\
                          (IsClosed(conn, t[i].conn)
                           \/ conn[t[i].conn].status # "client_wait_result")}
      OBVIOUS
    <3>4. conn' = [c \in Conns |-> [conn[c] EXCEPT
                       !.link = @ - Cardinality({i \in R : s[i] = c})
                                  - Cardinality({i \in T : t[i].conn = c})]]
      BY <1>7, <3>1, <3>2, <3>3 DEF CleanDeadTasks
    <3>5. PICK f : f = [c \in Conns |-> conn[c].link - Cardinality({i \in R : s[i] = c})
                                           - Cardinality({i \in T : t[i].conn = c})]
      OBVIOUS
    <3>6. conn' = [c \in Conns |-> [conn[c] EXCEPT !.link = f[c]]] BY <3>4, <3>5
    <3> QED BY <3>6
  <2> QED BY <2>1 DEF Silent
<1>8. CASE CheckTimeout
  <2>1. PICK W : conn' = [w \in Conns |->
                            IF w \in W
                            THEN [Send(conn, w)[w] EXCEPT !.status = AfterAsync(conn, w)]
                            ELSE conn[w]]
    BY <1>8 DEF CheckTimeout
  <2>2. ASSUME NEW w \in Conns
        PROVE  "dm" \in DOMAIN Send(conn, w)[w] /\ Send(conn, w)[w].dm = 0
    <3>1. Silent(Send(conn, w)) BY SilentHelpers
    <3> QED BY <3>1 DEF Silent
  <2> QED BY <2>1, <2>2 DEF Silent
<1>9. CASE DeleteConnections BY <1>9 DEF DeleteConnections, Silent
<1> QED BY <1>1, <1>2, <1>3, <1>4, <1>5, <1>6, <1>7, <1>8, <1>9 DEF Next
-----------------------------------------------------------------------------
(* The loop goes on *)

\* No worker is in worker mode.
NoWorkerMode == \A c \in Conns : ~Resident(c)

\* A worker without a client keeps the status of one that has a call only
\* between its request and its registration.
AliveInv ==
    /\ RouteInv /\ alive
    /\ \A c \in Conns : Open(c) /\ Stranded(conn[c]) => adding.conn = c /\ Resident(c)
    /\ NoPub => Silent(conn)

\* Who may be in that state after a step.
StrandedAfter(c) ==
    Open(c)' /\ Stranded(conn'[c]) =>
        /\ Resident(c)
        /\ adding'.conn = c \/ adding.conn = c

LEMMA RoutedStrands ==
    ASSUME AliveInv, Routed
    PROVE  alive' = alive /\ \A c \in Conns : StrandedAfter(c)
<1>1. /\ Firm(conn)
      /\ \A c \in Conns : Open(c) /\ Stranded(conn[c]) => adding.conn = c /\ Resident(c)
  BY DEF AliveInv, RouteInv
<1>2. alive' = alive
  <2>1. SUFFICES ASSUME NEW c \in Conns, Open(c), Stranded(conn[c]), adding.conn = None
                 PROVE  FALSE
    BY DEF Routed
  <2> QED BY <1>1, <2>1, NoneAssumption
<1>3. PICK W \in SUBSET Conns : /\ Moves(W, conn, wait, conn', wait')
                                /\ \A w \in W : Exempt(w)
  BY DEF Routed
<1>4. ASSUME NEW c \in Conns PROVE StrandedAfter(c)
  <2> SUFFICES ASSUME conn'[c].sock = "open", Stranded(conn'[c])
               PROVE  Resident(c) /\ (adding'.conn = c \/ adding.conn = c)
    BY DEF StrandedAfter, Open
  <2>1. CASE c \in W BY <1>3, <2>1 DEF Exempt, Stranded
  <2>2. CASE c \notin W
    <3>1. Serves(conn[c], conn'[c]) BY <1>3, <2>2 DEF Moves
    <3>2. conn[c].sock = "open" /\ Steady(conn[c]) BY <1>1, <3>1 DEF Serves, Firm
    <3>3. Stranded(conn[c]) BY <3>1, <3>2, ServesSteady
    <3> QED BY <1>1, <3>2, <3>3 DEF Open
  <2> QED BY <2>1, <2>2
<1> QED BY <1>2, <1>4

\* A worker that gets a call has a client.
LEMMA HandsStrands ==
    ASSUME AliveInv, NEW w \in Conns, HandsOut(w), NEW c \in Conns, Open(c)',
           Stranded(conn'[c])
    PROVE  c # w /\ Resident(c) /\ adding.conn = c
<1>1. PICK d \in Conns : \E xs, s, i, j : Handover(xs, w, d, s, i, j) /\ j = <<d, calls'[d]>>
  BY DEF HandsOut
<1>2. PICK xs, s, i, j : Handover(xs, w, d, s, i, j) BY <1>1
<1>3. Moves({}, conn, wait, xs, wait) /\ Hands(xs, conn', w, d, s) /\ s \in WaitsFor
  BY <1>2 DEF Handover
<1>4. c # w
  <2>1. SUFFICES ASSUME c = w PROVE FALSE OBVIOUS
  <2>2. xs[w].fail /\ conn'[w].client = None BY <1>3, <2>1 DEF Hands, Stranded
  <2>3. conn'[w].client = d BY <1>3, <2>2 DEF Hands
  <2> QED BY <2>2, <2>3, NoneAssumption
<1>5. c # d
  <2>1. SUFFICES ASSUME c = d PROVE FALSE OBVIOUS
  <2>2. conn'[c].status = s BY <1>3, <2>1 DEF Hands
  <2> QED BY <1>3, <2>2 DEF Stranded, WaitsFor
<1>6. xs[c].sock = "open" /\ Stranded(xs[c]) BY <1>3, <1>4, <1>5 DEF Hands, Stranded, Open
<1>7. Serves(conn[c], xs[c]) BY <1>3 DEF Moves
<1>8. conn[c].sock = "open" BY <1>6, <1>7 DEF Serves
<1>9. Steady(conn[c]) BY <1>8 DEF AliveInv, RouteInv, Firm
<1>10. Stranded(conn[c]) BY <1>6, <1>7, <1>9, ServesSteady
<1> QED BY <1>4, <1>8, <1>10 DEF AliveInv, Open

\* A step of a registration.
LEMMA AddAlive ==
    ASSUME OwnHeaderIds, NoPub \/ NoWorkerMode, AliveInv, LinkInv',
           NEW w \in Conns, NEW n \in Names, AddWorker(w, n)
    PROVE  /\ alive' = alive
           /\ \A c \in Conns : Open(c)' /\ Stranded(conn'[c]) => adding'.conn = c /\ Resident(c)
<1>1. LoopStep BY DEF AliveInv, LoopStep
<1>2. adding.conn = w
  BY DEF AddWorker, AddWorkerDirect, AddWorkerGive, AddWorkerWait, Adding
<1>3. CASE AddWorkerDirect(w, n)
  <2>1. Routed BY <1>1, <1>3, AddWorkerDirectRouted
  <2>2. NoWorkerMode
    <3>1. SUFFICES ASSUME NoPub PROVE FALSE OBVIOUS
    <3>2. Silent(LeaveOther(conn, w, n)) BY <3>1, SilentLeave DEF AliveInv
    <3> QED BY <1>3, <3>2 DEF AddWorkerDirect, Silent
  <2> QED BY <2>1, <2>2, RoutedStrands DEF StrandedAfter, NoWorkerMode
<1>4. CASE AddWorkerGive(w, n)
  <2>1. /\ alive' = alive
        /\ (Routed /\ task' = task /\ ~Stranded(conn'[w])) \/ HandsOut(w)
    BY <1>1, <1>4, AddWorkerGiveHands
  <2>2. CASE Routed /\ ~Stranded(conn'[w])
    BY <1>2, <2>1, <2>2, RoutedStrands DEF StrandedAfter
  <2>3. CASE HandsOut(w) BY <1>2, <2>1, <2>3, HandsStrands
  <2> QED BY <2>1, <2>2, <2>3
<1>5. CASE AddWorkerWait(w, n)
  <2>1. Routed /\ ~Stranded(conn'[w]) BY <1>1, <1>5, AddWorkerWaitRouted
  <2> QED BY <1>2, <2>1, RoutedStrands DEF StrandedAfter
<1> QED BY <1>3, <1>4, <1>5 DEF AddWorker

\* Every other step begins with no registration, or leaves it alone.
LEMMA AddingWhen ==
    ASSUME Next, \A w \in Conns, n \in Names : ~AddWorker(w, n)
    PROVE  adding = Idle \/ adding' = adding
<1>1. ASSUME NEW c \in Conns, NEW r \in Requests[c], Recv(c, r) PROVE adding = Idle
  BY <1>1 DEF Recv, RecvNotReady, RecvThrows, RecvEcho, RecvWorkerMode, RecvNoId, RecvResult,
              RecvCallNoQueue, RecvCallGive, RecvCallReject, RecvCallAbsent,
              RecvCallEnqueue, RecvAdd, RecvPub, RecvCreate, RecvDelete, Call, Plain, Parsed,
              Arrives, LoopReady
<1> QED BY <1>1 DEF Next, Accept, PeerClose, OnSend, OnSendPart, CleanDeadTasks, CheckTimeout,
                    DeleteConnections

LEMMA NextAlive ==
    ASSUME OwnHeaderIds, NoPub \/ NoWorkerMode
    PROVE  AliveInv /\ [Next]_vars => AliveInv'
<1> SUFFICES ASSUME AliveInv, [Next]_vars PROVE AliveInv' OBVIOUS
<1>1. /\ RouteInv /\ alive
      /\ \A c \in Conns : Open(c) /\ Stranded(conn[c]) => adding.conn = c /\ Resident(c)
      /\ NoPub => Silent(conn)
  BY DEF AliveInv
<1>2. RouteInv' /\ LinkInv' BY <1>1, NextRoutes DEF RouteInv
<1>3. SUFFICES
        /\ alive' = alive
        /\ \A c \in Conns : Open(c)' /\ Stranded(conn'[c]) => adding'.conn = c /\ Resident(c)
        /\ NoPub => Silent(conn')
  BY <1>1, <1>2 DEF AliveInv, Open
<1>4. CASE UNCHANGED vars
  <2>1. conn' = conn /\ adding' = adding /\ alive' = alive
    BY <1>4 DEF vars, brokerVars, history
  <2> QED BY <1>1, <2>1 DEF Open
<1>5. CASE Next
  <2>1. NoPub => Silent(conn') BY <1>1, <1>5, NextQuiet
  <2>2. ASSUME NEW w \in Conns, NEW n \in Names, AddWorker(w, n)
        PROVE  /\ alive' = alive
               /\ \A c \in Conns : Open(c)' /\ Stranded(conn'[c])
                                     => adding'.conn = c /\ Resident(c)
    BY <1>2, <2>2, AddAlive
  <2>3. CASE \A w \in Conns, n \in Names : ~AddWorker(w, n)
    <3>1. adding = Idle \/ adding' = adding BY <1>5, <2>3, AddingWhen
    <3>2. \A c \in Conns : adding = Idle => adding.conn # c BY NoneAssumption DEF Idle
    <3>3. Routed \/ (alive' = alive /\ \E w \in Conns : HandsOut(w))
      BY <1>1, <1>2, <1>5, StepGoes
    <3>4. CASE Routed
      <4>1. alive' = alive /\ \A c \in Conns : StrandedAfter(c) BY <3>4, RoutedStrands
      <4> QED BY <2>1, <3>1, <3>2, <4>1 DEF StrandedAfter
    <3>5. ASSUME alive' = alive, NEW w \in Conns, HandsOut(w)
          PROVE  \A c \in Conns : Open(c)' /\ Stranded(conn'[c])
                                    => adding'.conn = c /\ Resident(c)
      BY <3>1, <3>2, <3>5, HandsStrands
    <3> QED BY <2>1, <3>3, <3>4, <3>5
  <2> QED BY <2>1, <2>2, <2>3
<1> QED BY <1>4, <1>5

LEMMA InitAlive == Init => AliveInv
<1> SUFFICES ASSUME Init PROVE AliveInv OBVIOUS
<1>1. RouteInv /\ Silent(conn) /\ alive BY InitRoutes, InitQuiet DEF Init
<1>2. \A c \in Conns : ~Open(c) BY DEF Init, Open, NewConn
<1> QED BY <1>1, <1>2 DEF AliveInv

\* No exception leaves Loop::_close, so the thread of the loop never ends:
\* on_disconnect finds a client whenever the status of a worker without ids
\* says that it has a call, and none otherwise.  A message that is published
\* while a worker in worker mode serves a call breaks this, so either nobody
\* publishes or nobody is in worker mode.
THEOREM LoopAliveHolds ==
    ASSUME OwnHeaderIds, NoPub \/ NoWorkerMode
    PROVE  Spec => []LoopAlive
<1>1. AliveInv /\ [Next]_vars => AliveInv' BY NextAlive
<1>2. AliveInv => LoopAlive BY DEF AliveInv, LoopAlive
<1> QED BY <1>1, <1>2, InitAlive, PTL DEF Spec
-----------------------------------------------------------------------------
(* Every request has one answer *)

\* What a connection shows of its answers.
Face(x, y) ==
    /\ y.sock = x.sock /\ y.out = x.out /\ y.wr = x.wr /\ y.dm = x.dm
    /\ y.wm = x.wm /\ y.json = x.json /\ y.names = x.names /\ y.status = x.status
Faces(cs, ds) == \A d \in Conns : Face(cs[d], ds[d])

\* What does not touch answers.
LEMMA FieldFaces ==
    ASSUME NEW cs \in Objects, NEW c \in Conns
    PROVE  /\ \A k : Faces(cs, [cs EXCEPT ![c].link = k])
           /\ \A k : Faces(cs, [cs EXCEPT ![c].client = k])
           /\ \A k : Faces(cs, [cs EXCEPT ![c].item = k])
           /\ \A k : Faces(cs, [cs EXCEPT ![c].id = k])
           /\ \A k : Faces(cs, [cs EXCEPT ![c].sub = k])
           /\ \A k, l : Faces(cs, [cs EXCEPT ![c].item = k, ![c].link = l])
           /\ \A k, l : Faces(cs, [cs EXCEPT ![c].noid = k, ![c].fail = l])
           /\ Faces(cs, cs)
  BY DEF Objects, ConnType, Faces, Face

LEMMA FacesTrans ==
    ASSUME NEW cs, NEW ds, NEW es, Faces(cs, ds), Faces(ds, es)
    PROVE  Faces(cs, es)
  BY DEF Faces, Face

LEMMA HelperFaces ==
    ASSUME NEW cs \in Objects, NEW c \in Conns
    PROVE  /\ Faces(cs, Link(cs, c)) /\ Faces(cs, Unlink(cs, c)) /\ Faces(cs, PopItem(cs, c))
           /\ \A n : Faces(cs, PushItem(cs, c, n))
<1>1. Faces(cs, Link(cs, c)) BY DEF Link, Objects, ConnType, Faces, Face
<1>2. Faces(cs, Unlink(cs, c)) BY DEF Unlink, Objects, ConnType, Faces, Face
<1>3. Faces(cs, PopItem(cs, c)) BY DEF PopItem, Objects, ConnType, Faces, Face
<1>4. \A n : Faces(cs, PushItem(cs, c, n)) BY DEF PushItem, Objects, ConnType, Faces, Face
<1> QED BY <1>1, <1>2, <1>3, <1>4

LEMMA ReleaseFaces ==
    ASSUME NEW cs \in Objects, NEW s, NEW R
    PROVE  Faces(cs, Release(cs, s, R))
  BY DEF Release, Objects, ConnType, Faces, Face

\* An answer is sent, and a status set.
Sent(x, y) ==
    /\ y.sock = x.sock /\ y.out = x.out + 1 /\ y.wr = TRUE /\ y.dm = x.dm
    /\ y.wm = x.wm /\ y.json = x.json /\ y.names = x.names /\ y.status = x.status
Switched(x, y, s) ==
    /\ y.sock = x.sock /\ y.out = x.out /\ y.wr = x.wr /\ y.dm = x.dm
    /\ y.wm = x.wm /\ y.json = x.json /\ y.names = x.names /\ y.status = s

LEMMA SendFaces ==
    ASSUME NEW cs \in Objects, NEW c \in Conns
    PROVE  /\ \A d \in Conns : d # c => Send(cs, c)[d] = cs[d]
           /\ Sent(cs[c], Send(cs, c)[c])
  BY DEF Send, Objects, ConnType, Sent

LEMMA StatusFaces ==
    ASSUME NEW cs \in Objects, NEW c \in Conns, NEW s
    PROVE  /\ \A d \in Conns : d # c => SetStatus(cs, c, s)[d] = cs[d]
           /\ Switched(cs[c], SetStatus(cs, c, s)[c], s)
  BY DEF SetStatus, Objects, ConnType, Switched

\* How a connection that does nothing may change: its call is answered, or
\* taken by a worker.
Shown(x, y) ==
    /\ y.dm = x.dm /\ y.wm = x.wm /\ y.names = x.names /\ y.json = x.json
    /\ \/ /\ y.out = x.out /\ y.wr = x.wr
          /\ y.status = x.status \/ (x.status = "client_wait_result" /\ y.status = "busy")
       \/ /\ x.status \in WaitsFor /\ y.status = "net"
          /\ y.out = x.out + 1 /\ y.wr = TRUE
Tells(x, y) == y.sock = "open" => x.sock = "open" /\ Shown(x, y)
\* ... all but the connections W.
Tell(W, cs, ds) == \A d \in Conns \ W : Tells(cs[d], ds[d])

LEMMA TellsTrans ==
    ASSUME NEW x, NEW y, NEW z, Tells(x, y), Tells(y, z)
    PROVE  Tells(x, z)
<1>1. CASE z.sock # "open" BY <1>1 DEF Tells
<1>2. CASE z.sock = "open"
  <2>1. x.sock = "open" /\ Shown(x, y) /\ Shown(y, z) BY <1>2 DEF Tells
  <2>2. Shown(x, z) BY <2>1 DEF Shown, WaitsFor
  <2> QED BY <2>1, <2>2 DEF Tells
<1> QED BY <1>1, <1>2

LEMMA TellTrans ==
    ASSUME NEW W, NEW cs, NEW ds, NEW es, Tell(W, cs, ds), Tell(W, ds, es)
    PROVE  Tell(W, cs, es)
<1> SUFFICES ASSUME NEW d \in Conns \ W PROVE Tells(cs[d], es[d]) BY DEF Tell
<1>1. Tells(cs[d], ds[d]) /\ Tells(ds[d], es[d]) BY DEF Tell
<1> QED BY <1>1, TellsTrans

LEMMA FaceTells ==
    ASSUME NEW x, NEW y, Face(x, y)
    PROVE  Tells(x, y)
  BY DEF Face, Tells, Shown

LEMMA FacesTell ==
    ASSUME NEW W, NEW cs, NEW ds, Faces(cs, ds)
    PROVE  Tell(W, cs, ds)
  BY FaceTells DEF Faces, Tell

LEMMA TellMore ==
    ASSUME NEW V, NEW W, NEW cs, NEW ds, Tell(V, cs, ds), V \subseteq W
    PROVE  Tell(W, cs, ds)
  BY DEF Tell

\* One connection changes.
LEMMA TellOne ==
    ASSUME NEW cs, NEW ds, NEW c, \A d \in Conns : d # c => ds[d] = cs[d]
    PROVE  Tell({c}, cs, ds)
<1> SUFFICES ASSUME NEW d \in Conns \ {c} PROVE Tells(cs[d], ds[d]) BY DEF Tell
<1>1. ds[d] = cs[d] OBVIOUS
<1> QED BY <1>1 DEF Tells, Shown

\* A client that waits gets its answer.
Informed(cs, d) ==
    IF IsClosed(cs, d) THEN cs ELSE SetStatus(Send(cs, d), d, "net")

LEMMA InformedTell ==
    ASSUME NEW cs \in Objects, NEW d \in Conns, cs[d].sock = "open" => cs[d].status \in WaitsFor
    PROVE  Tell({}, cs, Informed(cs, d)) /\ Informed(cs, d) \in Objects
<1>1. CASE cs[d].sock # "open"
  <2>1. Informed(cs, d) = cs BY <1>1 DEF Informed, IsClosed
  <2> QED BY <2>1, FieldFaces, FacesTell
<1>2. CASE cs[d].sock = "open"
  <2> DEFINE sn == Send(cs, d)
             ds == SetStatus(sn, d, "net")
  <2>1. Informed(cs, d) = ds BY <1>2 DEF Informed, IsClosed
  <2>2. sn \in Objects BY SendDoes
  <2>3. "net" \in Statuses BY DEF Statuses
  <2>4. ds \in Objects BY <2>2, <2>3, StatusDoes
  <2>5. Sent(cs[d], sn[d]) /\ \A x \in Conns : x # d => sn[x] = cs[x] BY SendFaces
  <2>6. Switched(sn[d], ds[d], "net") /\ \A x \in Conns : x # d => ds[x] = sn[x]
    BY <2>2, StatusFaces
  <2>7. Tells(cs[d], ds[d]) BY <1>2, <2>5, <2>6 DEF Sent, Switched, Tells, Shown
  <2>8. ASSUME NEW x \in Conns, x # d PROVE Tells(cs[x], ds[x])
    <3>1. ds[x] = cs[x] BY <2>5, <2>6, <2>8
    <3> QED BY <3>1 DEF Tells, Shown
  <2> HIDE DEF sn, ds
  <2> QED BY <2>1, <2>4, <2>7, <2>8 DEF Tell
<1> QED BY <1>1, <1>2

\* Loop::worker_result.
LEMMA ResultTell ==
    ASSUME NEW cs \in Objects, NEW ws, NEW i, ws[i] \in Conns,
           cs[ws[i]].sock = "open" => cs[ws[i]].status \in WaitsFor
    PROVE  Tell({}, cs, ResultClient(cs, ws, i)) /\ ResultClient(cs, ws, i) \in Objects
<1>1. PICK d \in Conns : d = ws[i] OBVIOUS
<1>2. PICK u : u = Unlink(cs, d) OBVIOUS
<1>3. u \in Objects /\ Faces(cs, u) BY <1>2, HelperFaces, UnlinkDoes
<1>4. u[d].sock = cs[d].sock /\ u[d].status = cs[d].status BY <1>3 DEF Faces, Face
<1>5. ResultClient(cs, ws, i) = Informed(u, d)
  BY <1>1, <1>2, <1>4 DEF ResultClient, Informed, IsClosed
<1>6. Tell({}, u, Informed(u, d)) /\ Informed(u, d) \in Objects
  BY <1>1, <1>3, <1>4, InformedTell
<1>7. Tell({}, cs, u) BY <1>3, FacesTell
<1>8. Tell({}, cs, Informed(u, d)) BY <1>6, <1>7, TellTrans
<1> QED BY <1>5, <1>6, <1>8

\* The order in which a client is answered does not matter.
LEMMA InformedEither ==
    ASSUME NEW cs \in Objects, NEW d \in Conns
    PROVE  Send(SetStatus(cs, d, "net"), d) = SetStatus(Send(cs, d), d, "net")
  BY DEF Send, SetStatus, Objects, ConnType

\* Loop::worker_result_noid.
LEMMA NoIdTell ==
    ASSUME NEW cs \in Objects, NEW w \in Conns, cs[w].client \in Conns,
           cs[cs[w].client].sock = "open" => cs[cs[w].client].status \in WaitsFor
    PROVE  Tell({}, cs, NoIdResult(cs, w))
<1>1. PICK d \in Conns : d = cs[w].client OBVIOUS
<1>2. PICK v : v = Unlink(cs, d) OBVIOUS
<1>3. PICK u : u = [Unlink(cs, d) EXCEPT
                       ![w].client = None,
                       ![w].noid = IF cs[w].wm THEN @ ELSE FALSE,
                       ![w].fail = IF cs[w].wm THEN @ ELSE FALSE]
  OBVIOUS
<1>4. v \in Objects /\ Faces(cs, v) BY <1>2, HelperFaces, UnlinkDoes
<1>5. PICK z \in ConnType : u = [v EXCEPT ![w] = z] /\ Face(v[w], z)
  <2>1. v[w] \in ConnType BY <1>4 DEF Objects
  <2>2. PICK a, b \in BOOLEAN : /\ a = IF cs[w].wm THEN v[w].noid ELSE FALSE
                               /\ b = IF cs[w].wm THEN v[w].fail ELSE FALSE
    BY <2>1, ObjectFields
  <2>3. PICK x : x = [v[w] EXCEPT !.client = None] OBVIOUS
  <2>4. PICK y : y = [x EXCEPT !.noid = a] OBVIOUS
  <2>5. PICK z : z = [y EXCEPT !.fail = b] OBVIOUS
  <2>6. x \in ConnType BY <2>1, <2>3, FieldType
  <2>7. y \in ConnType BY <2>2, <2>4, <2>6, FieldType
  <2>8. z \in ConnType BY <2>2, <2>5, <2>7, FieldType
  <2>9. u = [v EXCEPT ![w] = z]
    BY <1>2, <1>3, <1>4, <2>2, <2>3, <2>4, <2>5 DEF Objects, ConnType
  <2>10. Face(v[w], x) BY <2>1, <2>3 DEF ConnType, Face
  <2>11. Face(x, y) BY <2>4, <2>6 DEF ConnType, Face
  <2>12. Face(y, z) BY <2>5, <2>7 DEF ConnType, Face
  <2>13. Face(v[w], z) BY <2>10, <2>11, <2>12 DEF Face
  <2> QED BY <2>8, <2>9, <2>13
<1>6. u \in Objects /\ Faces(v, u)
  <2>1. u \in Objects BY <1>4, <1>5 DEF Objects
  <2>2. ASSUME NEW e \in Conns PROVE Face(v[e], u[e])
    <3>1. CASE e = w BY <1>4, <1>5, <3>1 DEF Objects
    <3>2. CASE e # w
      <4>1. u[e] = v[e] BY <1>4, <1>5, <3>2 DEF Objects
      <4> QED BY <4>1 DEF Face
    <3> QED BY <3>1, <3>2
  <2> QED BY <2>1, <2>2 DEF Faces
<1>7. Faces(cs, u) BY <1>4, <1>6, FacesTrans
<1>8. u[d].sock = cs[d].sock /\ u[d].status = cs[d].status BY <1>7 DEF Faces, Face
<1>9. Send(SetStatus(u, d, "net"), d) = SetStatus(Send(u, d), d, "net")
  BY <1>6, InformedEither
<1>10. NoIdResult(cs, w) = Informed(u, d)
  <2>1. NoIdResult(cs, w) = IF cs[d].sock # "open" THEN u ELSE Send(SetStatus(u, d, "net"), d)
    BY <1>1, <1>3 DEF NoIdResult, IsClosed
  <2> QED BY <1>8, <1>9, <2>1 DEF Informed, IsClosed
<1>11. Tell({}, u, Informed(u, d)) BY <1>1, <1>6, <1>8, InformedTell
<1>12. Tell({}, cs, u) BY <1>7, FacesTell
<1> QED BY <1>10, <1>11, <1>12, TellTrans

\* Only a client that waits is registered, or has a worker without ids.
Awaited(cs, ws) ==
    \A d \in Conns : cs[d].sock = "open" /\ (Registered(ws, d) # {} \/ Served(cs, d) # {})
                        => cs[d].status \in WaitsFor

LEMMA PlacedAwaited ==
    ASSUME NEW cs, NEW ws, NEW Q, Placed(cs, ws, Q)
    PROVE  Awaited(cs, ws)
  BY WaitsSomewhere DEF Awaited

LEMMA AwaitedClients ==
    ASSUME NEW cs, NEW ws, Awaited(cs, ws)
    PROVE  /\ \A i \in AllIds : ws[i] \in Conns /\ cs[ws[i]].sock = "open"
                                   => cs[ws[i]].status \in WaitsFor
           /\ \A w \in Conns : cs[w].client \in Conns /\ cs[w].noid
                               /\ cs[cs[w].client].sock = "open"
                                  => cs[cs[w].client].status \in WaitsFor
<1>1. ASSUME NEW i \in AllIds, ws[i] \in Conns, cs[ws[i]].sock = "open"
      PROVE  cs[ws[i]].status \in WaitsFor
  <2>1. i \in Registered(ws, ws[i]) BY DEF Registered
  <2> QED BY <1>1, <2>1 DEF Awaited
<1>2. ASSUME NEW w \in Conns, cs[w].client \in Conns, cs[w].noid,
             cs[cs[w].client].sock = "open"
      PROVE  cs[cs[w].client].status \in WaitsFor
  <2>1. w \in Served(cs, cs[w].client) BY <1>2 DEF Served
  <2> QED BY <1>2, <2>1 DEF Awaited
<1> QED BY <1>1, <1>2

\* What becomes of the client of a closed worker.
LEMMA FailTell ==
    ASSUME NEW cs \in Objects, NEW ws \in WaitType, Awaited(cs, ws), NEW c \in Conns
    PROVE  Tell({}, cs, FailClient(cs, ws, c))
<1>1. CASE ~cs[c].fail \/ cs[c].client = None
  <2>1. FailClient(cs, ws, c) = cs BY <1>1 DEF FailClient
  <2> QED BY <2>1, FieldFaces, FacesTell
<1>2. CASE cs[c].fail /\ cs[c].client # None
  <2>1. PICK d \in Conns : d = cs[c].client BY <1>2, ObjectFields DEF Objects
  <2>2. PICK a : a = IF cs[c].noid
                     THEN SetStatus(IF IsClosed(cs, d) THEN cs ELSE Send(cs, d), d, "net")
                     ELSE IF cs[d].id = None \/ ws[cs[d].id] = None THEN cs
                     ELSE ResultClient(cs, ws, cs[d].id)
    OBVIOUS
  <2>3. FailClient(cs, ws, c) = [Unlink(a, d) EXCEPT ![c].client = None]
    BY <1>2, <2>1, <2>2 DEF FailClient
  <2>4. a \in Objects /\ Tell({}, cs, a)
    <3>1. CASE cs[c].noid
      <4>1. CASE cs[d].sock = "open"
        <5>1. cs[d].status \in WaitsFor BY <2>1, <3>1, <4>1, AwaitedClients
        <5>2. Tell({}, cs, Informed(cs, d)) /\ Informed(cs, d) \in Objects
          BY <5>1, InformedTell
        <5>3. a = Informed(cs, d) BY <2>2, <3>1, <4>1 DEF Informed, IsClosed
        <5> QED BY <5>2, <5>3
      <4>2. CASE cs[d].sock # "open"
        <5>1. a = SetStatus(cs, d, "net") BY <2>2, <3>1, <4>2 DEF IsClosed
        <5>2. Switched(cs[d], a[d], "net") /\ \A x \in Conns : x # d => a[x] = cs[x]
          BY <5>1, StatusFaces
        <5>3. "net" \in Statuses BY DEF Statuses
        <5>4. a \in Objects BY <5>1, <5>3, StatusDoes
        <5>5. Tells(cs[d], a[d]) BY <4>2, <5>2 DEF Switched, Tells
        <5>6. ASSUME NEW x \in Conns, x # d PROVE Tells(cs[x], a[x])
          BY <5>2, <5>6 DEF Tells, Shown
        <5> QED BY <5>4, <5>5, <5>6 DEF Tell
      <4> QED BY <4>1, <4>2
    <3>2. CASE ~cs[c].noid /\ (cs[d].id = None \/ ws[cs[d].id] = None)
      BY <2>2, <3>2, FieldFaces, FacesTell
    <3>3. CASE ~cs[c].noid /\ cs[d].id # None /\ ws[cs[d].id] # None
      <4>1. PICK i \in AllIds : i = cs[d].id BY <3>3, ObjectFields DEF Objects
      <4>2. ws[i] \in Conns BY <3>3, <4>1 DEF WaitType
      <4>3. cs[ws[i]].sock = "open" => cs[ws[i]].status \in WaitsFor
        BY <4>2, AwaitedClients
      <4>4. Tell({}, cs, ResultClient(cs, ws, i)) /\ ResultClient(cs, ws, i) \in Objects
        BY <4>2, <4>3, ResultTell
      <4> QED BY <2>2, <3>3, <4>1, <4>4
    <3> QED BY <3>1, <3>2, <3>3
  <2>5. PICK u : u = Unlink(a, d) OBVIOUS
  <2>6. u \in Objects /\ Faces(a, u) BY <2>4, <2>5, HelperFaces, UnlinkDoes
  <2>7. Faces(u, [u EXCEPT ![c].client = None]) BY <2>6, FieldFaces
  <2>8. Tell({}, a, u) /\ Tell({}, u, [u EXCEPT ![c].client = None])
    BY <2>6, <2>7, FacesTell
  <2>9. Tell({}, cs, [u EXCEPT ![c].client = None]) BY <2>4, <2>8, TellTrans
  <2> QED BY <2>3, <2>5, <2>9
<1> QED BY <1>1, <1>2

\* Loop::_close.
LEMMA DropTell ==
    ASSUME NEW cs \in Objects, NEW ws, NEW c \in Conns
    PROVE  /\ Tell({}, cs, DropOwn(cs, ws, c)) /\ DropOwn(cs, ws, c)[c].sock = "closed"
           /\ \A d \in Conns : d # c => DropOwn(cs, ws, c)[d] = cs[d]
<1>1. PICK p : p = PopItem(cs, c) OBVIOUS
<1>2. p \in Objects /\ \A d \in Conns : d # c => p[d] = cs[d] BY <1>1, PopDoes
<1>3. PICK k : k = DropOwn(cs, ws, c) OBVIOUS
<1>4. k[c].sock = "closed" /\ \A d \in Conns : d # c => k[d] = p[d]
  BY <1>1, <1>2, <1>3 DEF DropOwn, Objects, ConnType
<1>5. \A d \in Conns : d # c => k[d] = cs[d] BY <1>2, <1>4
<1>6. Tells(cs[c], k[c]) BY <1>4 DEF Tells
<1>7. ASSUME NEW d \in Conns, d # c PROVE Tells(cs[d], k[d])
  BY <1>5, <1>7 DEF Tells, Shown
<1>8. Tell({}, cs, k) BY <1>6, <1>7 DEF Tell
<1> QED BY <1>3, <1>4, <1>5, <1>8

LEMMA DisconnectTell ==
    ASSUME NEW cs, NEW ws, NEW Q, Sound({}, cs, ws, Q), NEW c \in Conns, OwnHeaderIds,
           cs[c].sock = "open", Disconnect(cs, ws, c), conn' \in Objects
    PROVE  Tell({}, cs, conn') /\ conn'[c].sock # "open"
<1>1. cs \in Objects /\ ws \in WaitType BY DEF Sound
<1>2. PICK k, v : k = DropOwn(cs, ws, c) /\ v = DropEntry(cs, ws, c) OBVIOUS
<1>3. Tell({}, cs, k) /\ k[c].sock = "closed" BY <1>1, <1>2, DropTell
<1>4. Sound({c}, k, v, Q) BY <1>2, DropOwnSound
<1>5. k \in Objects /\ v \in WaitType /\ Awaited(k, v) BY <1>4, PlacedAwaited DEF Sound
<1>6. CASE conn' = k BY <1>3, <1>6
<1>7. CASE conn' = Unlink(FailClient(k, v, c), c)
  <2>1. PICK f : f = FailClient(k, v, c) OBVIOUS
  <2>2. Tell({}, k, f) BY <1>5, <2>1, FailTell
  <2>3. f \in Objects BY <1>3, <1>4, <2>1, FailClientSound DEF Sound
  <2>4. Faces(f, conn') BY <1>7, <2>1, <2>3, HelperFaces
  <2>5. Tell({}, f, conn') BY <2>4, FacesTell
  <2>6. Tell({}, k, conn') BY <2>2, <2>5, TellTrans
  <2>7. Tell({}, cs, conn') BY <1>3, <2>6, TellTrans
  <2>8. Tells(k[c], conn'[c]) BY <2>6 DEF Tell
  <2> QED BY <1>3, <2>7, <2>8 DEF Tells
<1> QED BY <1>2, <1>6, <1>7 DEF Disconnect

\* A request begins.
Begins(x, y, r) ==
    /\ y.sock = x.sock /\ y.status = x.status /\ y.out = x.out /\ y.wr = x.wr
    /\ y.dm = x.dm /\ y.wm = x.wm /\ y.json = r.json
    /\ y.names = IF x.wm THEN x.names ELSE << >>

LEMMA HeadersBegin ==
    ASSUME NEW x \in ConnType, NEW r
    PROVE  Begins(x, Headers(x, r), r) /\ Begins(x, Headers(Reset(x), r), r)
<1>1. Begins(x, Headers(x, r), r) BY DEF Headers, Begins, ConnType
<1>2. Begins(x, Headers(Reset(x), r), r) BY DEF Headers, Reset, Begins, ConnType
<1> QED BY <1>1, <1>2

LEMMA StartTell ==
    ASSUME NEW cs \in Objects, NEW c \in Conns, NEW r
    PROVE  Tell({c}, cs, Start(cs, c, r)) /\ Begins(cs[c], Start(cs, c, r)[c], r)
<1>1. PICK f : f = IF cs[c].client = None THEN cs ELSE Unlink(cs, cs[c].client) OBVIOUS
<1>2. f \in Objects /\ Faces(cs, f)
  <2>1. CASE cs[c].client = None BY <1>1, <2>1, FieldFaces
  <2>2. CASE cs[c].client # None
    <3>1. PICK d \in Conns : d = cs[c].client BY <2>2, ObjectFields DEF Objects
    <3>2. f = Unlink(cs, d) BY <1>1, <2>2, <3>1
    <3> QED BY <3>2, HelperFaces, UnlinkDoes
  <2> QED BY <2>1, <2>2
<1>3. CASE cs[c].status # "worker_wait_result" /\ ~cs[c].wm
  <2>1. Start(cs, c, r) = [f EXCEPT ![c] = Headers(Reset(@), r)] BY <1>1, <1>3 DEF Start
  <2>2. /\ Start(cs, c, r)[c] = Headers(Reset(f[c]), r)
        /\ \A d \in Conns : d # c => Start(cs, c, r)[d] = f[d]
    BY <1>2, <2>1 DEF Objects
  <2>3. Tell({c}, f, Start(cs, c, r)) BY <2>2, TellOne
  <2>4. Tell({c}, cs, f) BY <1>2, FacesTell
  <2>5. f[c] \in ConnType BY <1>2 DEF Objects
  <2>6. Begins(f[c], Start(cs, c, r)[c], r) BY <2>2, <2>5, HeadersBegin
  <2>7. Begins(cs[c], Start(cs, c, r)[c], r) BY <1>2, <2>6 DEF Begins, Faces, Face
  <2> QED BY <2>3, <2>4, <2>7, TellTrans
<1>4. CASE ~(cs[c].status # "worker_wait_result" /\ ~cs[c].wm)
  <2>1. Start(cs, c, r) = [cs EXCEPT ![c] = Headers(@, r)] BY <1>4 DEF Start
  <2>2. /\ Start(cs, c, r)[c] = Headers(cs[c], r)
        /\ \A d \in Conns : d # c => Start(cs, c, r)[d] = cs[d]
    BY <2>1 DEF Objects
  <2>3. Tell({c}, cs, Start(cs, c, r)) BY <2>2, TellOne
  <2>4. cs[c] \in ConnType BY DEF Objects
  <2> QED BY <2>2, <2>3, <2>4, HeadersBegin
<1> QED BY <1>3, <1>4

\* A call looks for a worker.
LEMMA CallTell ==
    ASSUME conn \in Objects, NEW c \in Conns, NEW r, Start(conn, c, r) \in Objects
    PROVE  Tell({c}, conn, CallState(c, r)) /\ Begins(conn[c], CallState(c, r)[c], r)
<1>1. PICK s : s = Start(conn, c, r) OBVIOUS
<1>2. Tell({c}, conn, s) /\ Begins(conn[c], s[c], r) BY <1>1, StartTell
<1>3. Faces(s, CallState(c, r)) BY <1>1, ReleaseFaces DEF CallState
<1>4. Tell({c}, s, CallState(c, r)) BY <1>3, FacesTell
<1>5. Begins(conn[c], CallState(c, r)[c], r) BY <1>2, <1>3 DEF Begins, Faces, Face
<1> QED BY <1>2, <1>4, <1>5, TellTrans

\* A worker leaves its list.
LEMMA LeaveTell ==
    ASSUME NEW cs \in Objects, NEW w \in Conns, NEW n, NEW y, y = LeaveOther(cs, w, n)[w]
    PROVE  /\ Tell({w}, cs, LeaveOther(cs, w, n))
           /\ y.sock = cs[w].sock /\ y.status = cs[w].status /\ y.out = cs[w].out
           /\ y.wr = cs[w].wr /\ y.wm = cs[w].wm /\ y.names = cs[w].names
           /\ y.json = cs[w].json /\ y.dm \in {0, cs[w].dm}
<1>1. PICK p : p = PopItem(cs, w) OBVIOUS
<1>2. /\ p \in Objects /\ Faces(cs, p) /\ \A d \in Conns : d # w => p[d] = cs[d]
  BY <1>1, PopDoes, HelperFaces
<1>3. CASE LeaveOther(cs, w, n) = cs
  <2>1. Tell({w}, cs, cs) BY FieldFaces, FacesTell
  <2> QED BY <1>3, <2>1
<1>4. CASE LeaveOther(cs, w, n) = [p EXCEPT ![w].dm = 0]
  <2>1. /\ \A d \in Conns : d # w => LeaveOther(cs, w, n)[d] = p[d]
        /\ y.sock = p[w].sock /\ y.status = p[w].status /\ y.out = p[w].out
        /\ y.wr = p[w].wr /\ y.wm = p[w].wm /\ y.names = p[w].names
        /\ y.json = p[w].json /\ y.dm = 0
    BY <1>2, <1>4 DEF Objects, ConnType
  <2>2. Tell({w}, cs, LeaveOther(cs, w, n)) BY <1>2, <2>1, TellOne
  <2> QED BY <1>2, <2>1, <2>2 DEF Faces, Face
<1> QED BY <1>1, <1>3, <1>4 DEF LeaveOther

\* A worker takes its place in a list.
LEMMA RegisterFaces ==
    ASSUME NEW cs \in Objects, NEW w \in Conns, NEW n
    PROVE  Faces(cs, Register(cs, w, n))
  BY DEF Register, PushItem, Objects, ConnType, Faces, Face

\* The id of a queued call is in use: the client is told.
Collides(x, y) ==
    /\ y.sock = x.sock /\ y.status = "net" /\ y.out = x.out + 1 /\ y.wr = TRUE
    /\ y.dm = x.dm /\ y.wm = x.wm /\ y.names = x.names /\ y.json = x.json

\* A scan of the queued messages that finds every client's body in order.
LEMMA ScanShows ==
    ASSUME NEW cs \in Objects, NEW ws, NEW w, NEW s, NEW d \in Conns,
           NEW y, y = AfterScan(cs, ws, w, s)[d],
           ~Refused(cs, ws, w, s, d, "noid")
    PROVE  /\ Refused(cs, ws, w, s, d, "collision") => Collides(cs[d], y)
           /\ ~Refused(cs, ws, w, s, d, "collision") => Face(cs[d], y)
<1>0. PICK rc : rc = Refused(cs, ws, w, s, d, "collision") OBVIOUS
<1>1. rc \in BOOLEAN BY <1>0 DEF Refused
<1>2. PICK st : st = IF rc THEN "net" ELSE cs[d].status OBVIOUS
<1>3. PICK o : o = IF rc THEN cs[d].out + 1 ELSE cs[d].out OBVIOUS
<1>4. PICK v : v = (rc \/ cs[d].wr) OBVIOUS
<1>5. PICK k : k = cs[d].link - Cardinality({p \in Scanned(cs, ws, w, s) : s[p].conn = d})
  OBVIOUS
<1>6. PICK i : i = IF rc THEN CallId(cs, d, <<d, calls[d]>>) ELSE cs[d].id OBVIOUS
<1>7. cs[d] \in ConnType BY DEF Objects
<1>8. y = [cs[d] EXCEPT !.link = k, !.out = o, !.wr = v, !.id = i, !.status = st]
  <2>1. AfterScan(cs, ws, w, s)[d]
          = [cs[d] EXCEPT
                !.link = @ - Cardinality({p \in Scanned(cs, ws, w, s) : s[p].conn = d}),
                !.out = IF Refused(cs, ws, w, s, d, "noid") \/ Refused(cs, ws, w, s, d, "collision")
                        THEN @ + 1 ELSE @,
                !.wr = (Refused(cs, ws, w, s, d, "noid")
                        \/ Refused(cs, ws, w, s, d, "collision")) \/ @,
                !.id = IF Refused(cs, ws, w, s, d, "collision")
                       THEN CallId(cs, d, <<d, calls[d]>>) ELSE @,
                !.status = IF Refused(cs, ws, w, s, d, "collision") THEN "net"
                           ELSE IF Refused(cs, ws, w, s, d, "noid") THEN "busy" ELSE @]
    BY Zenon DEF AfterScan, Refused
  <2>2. PICK rn : rn = Refused(cs, ws, w, s, d, "noid") OBVIOUS
  <2>3. ~rn BY <2>2
  <2>4. v = ((rn \/ rc) \/ cs[d].wr) BY <1>4, <2>3
  <2>5. o = IF rn \/ rc THEN cs[d].out + 1 ELSE cs[d].out BY <1>3, <2>3
  <2>6. st = IF rc THEN "net" ELSE IF rn THEN "busy" ELSE cs[d].status BY <1>2, <2>3
  <2> QED BY <1>0, <1>5, <1>6, <2>1, <2>2, <2>4, <2>5, <2>6, Zenon
<1>9. /\ y.sock = cs[d].sock /\ y.out = o /\ y.wr = v /\ y.status = st /\ y.dm = cs[d].dm
      /\ y.wm = cs[d].wm /\ y.json = cs[d].json /\ y.names = cs[d].names
  BY <1>7, <1>8 DEF ConnType
<1>10. cs[d].wr \in BOOLEAN BY <1>7, ObjectFields
<1>11. CASE rc
  <2>1. o = cs[d].out + 1 /\ v = TRUE /\ st = "net" BY <1>2, <1>3, <1>4, <1>11
  <2> QED BY <1>0, <1>9, <1>11, <2>1 DEF Collides
<1>12. CASE ~rc
  <2>1. o = cs[d].out /\ v = cs[d].wr /\ st = cs[d].status
    BY <1>2, <1>3, <1>4, <1>10, <1>12
  <2> QED BY <1>0, <1>9, <1>12, <2>1 DEF Face
<1> QED BY <1>0, <1>1, <1>11, <1>12

LEMMA ScanTell ==
    ASSUME NEW cs \in Objects, NEW ws, NEW w, NEW s,
           \A d \in Conns : cs[d].sock = "open" /\ cs[d].status = "client_wait_result"
                               => cs[d].json # "malformed"
    PROVE  /\ Tell({}, cs, AfterScan(cs, ws, w, s))
           /\ \A d \in Conns : cs[d].status # "client_wait_result"
                                  => Face(cs[d], AfterScan(cs, ws, w, s)[d])
<1> SUFFICES ASSUME NEW d \in Conns, NEW y, y = AfterScan(cs, ws, w, s)[d]
             PROVE  Tells(cs[d], y) /\ (cs[d].status # "client_wait_result" => Face(cs[d], y))
  BY DEF Tell
<1>1. ~Refused(cs, ws, w, s, d, "noid")
  <2> SUFFICES ASSUME Refused(cs, ws, w, s, d, "noid") PROVE FALSE OBVIOUS
  <2>1. PICK p \in Scanned(cs, ws, w, s) : s[p].conn = d /\ Verdict(cs, ws, w, s[p]) = "noid"
    BY DEF Refused
  <2>2. cs[d].sock = "open" /\ cs[d].status = "client_wait_result"
    BY <2>1, VerdictWaits, NoneAssumption
  <2>3. NoIdFound(cs, d) BY <2>1 DEF Verdict
  <2> QED BY <2>2, <2>3 DEF NoIdFound
<1>2. /\ Refused(cs, ws, w, s, d, "collision") => Collides(cs[d], y)
      /\ ~Refused(cs, ws, w, s, d, "collision") => Face(cs[d], y)
  BY <1>1, ScanShows
<1>3. CASE ~Refused(cs, ws, w, s, d, "collision") BY <1>2, <1>3, FaceTells
<1>4. CASE Refused(cs, ws, w, s, d, "collision")
  <2>1. PICK p \in Scanned(cs, ws, w, s) :
           s[p].conn = d /\ Verdict(cs, ws, w, s[p]) = "collision"
    BY <1>4 DEF Refused
  <2>2. cs[d].sock = "open" /\ cs[d].status = "client_wait_result"
    BY <2>1, VerdictWaits, NoneAssumption
  <2> QED BY <1>2, <1>4, <2>2 DEF Collides, Tells, Shown, WaitsFor
<1> QED BY <1>3, <1>4

-----------------------------------------------------------------------------
(* Every connection is settled *)

\* Nobody deletes a queue, the body of a call is not malformed, there are no
\* async calls, a worker lists one queue at most.
NoDelete == \A c \in Conns : \A r \in Requests[c] : r.op # "delete"
CallBodies == \A c \in Conns : \A r \in Requests[c] : r.op = "call" => r.json # "malformed"
NoAsync == \A c \in Conns : \A r \in Requests[c] : r.op # "async"
OneName == \A c \in Conns : \A r \in Requests[c] : Len(r.names) <= 1

\* A connection that is owed o answers expects its next request, or waits for
\* an answer, or has it in its buffer.
WaitStatuses == {"worker_wait_job"} \cup WaitsFor
Rests(x, o) == o = 0 /\ x.status \notin WaitStatuses /\ x.out = 0 /\ ~x.wr
Expects(x, o) ==
    /\ o = 1 /\ x.status \in WaitStatuses /\ x.out = 0 /\ ~x.wr
    /\ x.status = "worker_wait_job" => x.dm = 0
    /\ x.status = "client_wait_result" => x.json # "malformed"
Replies(x, o) ==
    /\ o = 1 /\ x.status \notin WaitStatuses /\ x.wr
    /\ x.out = 1 \/ (x.out = 0 /\ x.dm > 0)
\* A worker that is being added.
Enlists(x, o) ==
    /\ o = 1 /\ x.status \notin WaitsFor /\ x.out = 0 /\ ~x.wr
    /\ x.status = "worker_wait_job" => x.dm = 0
Settled(x, o, b) ==
    /\ x.status = "worker_mode_async" => x.wm
    /\ OneName => Len(x.names) <= 1
    /\ IF b THEN Enlists(x, o) ELSE Rests(x, o) \/ Expects(x, o) \/ Replies(x, o)
AllSettled == \A c \in Conns : Open(c) => Settled(conn[c], owed[c], c = adding.conn)

\* Every message waits for an answer.
Addressed(Q) == \A n \in Names : \A i \in DOMAIN Q[n].clients : Q[n].clients[i].conn # None
AnswerInv ==
    /\ RouteInv /\ AllSettled
    /\ alive \/ adding = Idle
    /\ NoAsync => Addressed(queue)
    /\ OneName => Len(adding.names) <= 1

LEMMA SettledTells ==
    ASSUME NEW x, NEW y, NEW o, NEW b, Settled(x, o, b), Tells(x, y), y.sock = "open",
           x.out \in Int
    PROVE  Settled(y, o, b)
<1>1. Shown(x, y) BY DEF Tells
<1>2. CASE y.out = x.out /\ y.wr = x.wr /\ y.status = x.status
  BY <1>1, <1>2 DEF Shown, Settled, Rests, Expects, Replies, Enlists
<1>3. CASE y.out = x.out /\ y.wr = x.wr /\ x.status = "client_wait_result" /\ y.status = "busy"
  BY <1>1, <1>3 DEF Shown, Settled, Rests, Expects, Replies, Enlists, WaitStatuses, WaitsFor
<1>4. CASE x.status \in WaitsFor /\ y.status = "net" /\ y.out = x.out + 1 /\ y.wr = TRUE
  <2>1. ~b /\ Expects(x, o)
    BY <1>4 DEF Settled, Rests, Expects, Replies, Enlists, WaitStatuses
  <2>2. Replies(y, o) BY <1>4, <2>1 DEF Expects, Replies, WaitStatuses, WaitsFor
  <2>3. OneName => Len(y.names) <= 1 BY <1>1 DEF Shown, Settled
  <2> QED BY <1>4, <2>1, <2>2, <2>3 DEF Settled
<1> QED BY <1>1, <1>2, <1>3, <1>4 DEF Shown

\* The connections W act.
LEMMA SettledKept ==
    ASSUME AllSettled, IInv, NEW W, Tell(W, conn, conn'),
           \A d \in Conns \ W : owed'[d] = owed[d] /\ (d = adding'.conn <=> d = adding.conn),
           \A d \in Conns : d \in W /\ conn'[d].sock = "open"
                              => Settled(conn'[d], owed'[d], d = adding'.conn)
    PROVE  AllSettled'
<1> SUFFICES ASSUME NEW d \in Conns, conn'[d].sock = "open"
             PROVE  Settled(conn'[d], owed'[d], d = adding'.conn)
  BY DEF AllSettled, Open
<1>1. CASE d \in W BY <1>1
<1>2. CASE d \notin W
  <2>1. Tells(conn[d], conn'[d]) BY <1>2 DEF Tell
  <2>2. conn[d].sock = "open" BY <2>1 DEF Tells
  <2>3. Settled(conn[d], owed[d], d = adding.conn) BY <2>2 DEF AllSettled, Open
  <2>4. conn[d].out \in Int
    <3>1. conn[d] \in ConnType BY DEF IInv, ConnInv, ModeType
    <3> QED BY <3>1, ObjectFields
  <2>5. PICK o, b : o = owed[d] /\ b = (d = adding.conn) OBVIOUS
  <2>6. Settled(conn'[d], o, b) BY <2>1, <2>3, <2>4, <2>5, SettledTells
  <2>7. owed'[d] = o /\ (d = adding'.conn) = b BY <1>2, <2>5
  <2> QED BY <2>6, <2>7
<1> QED BY <1>1, <1>2

\* One connection acts, and registers no worker.
LEMMA SettledOne ==
    ASSUME AllSettled, IInv, NEW c \in Conns, Tell({c}, conn, conn'), adding = Idle,
           adding' = Idle, \A d \in Conns : d # c => owed'[d] = owed[d],
           conn'[c].sock = "open" => Settled(conn'[c], owed'[c], FALSE)
    PROVE  AllSettled'
<1>1. \A d \in Conns : d # adding.conn /\ d # adding'.conn BY NoneAssumption DEF Idle
<1>2. PICK b : b = (c = adding'.conn) OBVIOUS
<1>3. b = FALSE BY <1>1, <1>2
<1>4. conn'[c].sock = "open" => Settled(conn'[c], owed'[c], c = adding'.conn)
  BY <1>2, <1>3
<1> QED BY <1>1, <1>4, SettledKept

\* A connection that has just sent a request, and one that is answered.
Fresh(x) ==
    /\ x.status \notin WaitStatuses /\ x.out = 0 /\ ~x.wr
    /\ x.status = "worker_mode_async" => x.wm
    /\ OneName => Len(x.names) <= 1
Replied(x) ==
    /\ x.status \notin WaitStatuses /\ x.out = 1 /\ x.wr
    /\ x.status = "worker_mode_async" => x.wm
    /\ OneName => Len(x.names) <= 1

LEMMA FreshReplies ==
    ASSUME NEW x, NEW y, Fresh(x)
    PROVE  /\ Sent(x, y) => Replied(y)
           /\ Face(x, y) => Fresh(y)
           /\ Switched(x, y, "net") => Fresh(y)
<1>1. "net" \notin WaitStatuses BY DEF WaitStatuses, WaitsFor
<1> QED BY <1>1 DEF Fresh, Sent, Replied, Face, Switched

LEMMA RepliedStays ==
    ASSUME NEW x, NEW y, Replied(x)
    PROVE  /\ Settled(x, 1, FALSE)
           /\ Face(x, y) => Replied(y)
           /\ Switched(x, y, "net") => Replied(y)
<1>1. "net" \notin WaitStatuses BY DEF WaitStatuses, WaitsFor
<1> QED BY <1>1 DEF Settled, Replies, Replied, Face, Switched

\* Who does not wait for an answer is not answered.
LEMMA TellsFresh ==
    ASSUME NEW x, NEW y, Tells(x, y), Fresh(x), y.sock = "open"
    PROVE  Face(x, y) /\ Fresh(y)
<1>1. Face(x, y) BY DEF Tells, Shown, Fresh, Face, WaitStatuses, WaitsFor
<1> QED BY <1>1, FreshReplies

\* What a request finds.
LEMMA ArrivesFresh ==
    ASSUME AllSettled, IInv, NEW c \in Conns, NEW r, Arrives(c, r)
    PROVE  /\ Fresh(conn[c]) /\ conn[c].sock = "open" /\ adding = Idle
           /\ owed'[c] = 1 /\ \A d \in Conns : d # c => owed'[d] = owed[d]
<1>1. conn[c].sock = "open" /\ adding = Idle /\ owed[c] = 0 /\ owed' = [owed EXCEPT ![c] = @ + 1]
  BY DEF Arrives, IsClosed, LoopReady
<1>2. c # adding.conn BY <1>1, NoneAssumption DEF Idle
<1>3. PICK b : b = (c = adding.conn) OBVIOUS
<1>4. b = FALSE BY <1>2, <1>3
<1>5. Settled(conn[c], 0, FALSE)
  <2>1. Settled(conn[c], owed[c], c = adding.conn) BY <1>1 DEF AllSettled, Open
  <2> QED BY <1>1, <1>3, <1>4, <2>1
<1>6. Fresh(conn[c]) BY <1>5 DEF Settled, Rests, Expects, Replies, Fresh
<1>7. owed \in [Conns -> Int] BY DEF IInv, HistoryInv
<1> QED BY <1>1, <1>6, <1>7

LEMMA BeginsFresh ==
    ASSUME NEW x, NEW y, NEW r, Begins(x, y, r), Fresh(x)
    PROVE  Fresh(y) /\ y.json = r.json /\ y.sock = x.sock /\ y.dm = x.dm /\ y.wm = x.wm
<1>1. OneName => Len(y.names) <= 1
  <2>1. Len(<< >>) = 0 OBVIOUS
  <2> QED BY <2>1 DEF Begins, Fresh
<1> QED BY <1>1 DEF Begins, Fresh

\* A request is answered, or waits; no worker is registered.
LEMMA ArrivalSettles ==
    ASSUME AllSettled, IInv, NEW c \in Conns, NEW r, Arrives(c, r), adding' = Idle,
           Tell({c}, conn, conn'), conn'[c].sock = "open" => Settled(conn'[c], 1, FALSE)
    PROVE  AllSettled'
<1>1. /\ adding = Idle /\ owed'[c] = 1 /\ \A d \in Conns : d # c => owed'[d] = owed[d]
  BY ArrivesFresh
<1> QED BY <1>1, SettledOne

-----------------------------------------------------------------------------
(* Every connection stays settled: connections and timers *)

LEMMA AcceptSettles ==
    ASSUME AllSettled, RouteInv, alive \/ adding = Idle, NEW c \in Conns, Accept(c)
    PROVE  AllSettled'
<1>1. PICK noid, fail, ka \in Uninit : conn' = [conn EXCEPT ![c] = NewConn("open", noid, fail, ka)]
  BY DEF Accept
<1>2. IInv /\ (alive => AddingOk) BY DEF RouteInv, LinkInv, LinkState
<1>3. conn[c].sock # "open" /\ adding' = adding /\ owed' = [owed EXCEPT ![c] = 0]
  BY DEF Accept
<1>4. conn \in [Conns -> ModeType] /\ owed \in [Conns -> Int] BY <1>2 DEF IInv, ConnInv, HistoryInv
<1>5. conn'[c] = NewConn("open", noid, fail, ka) /\ \A d \in Conns : d # c => conn'[d] = conn[d]
  BY <1>1, <1>4
<1>6. c # adding.conn
  <2>1. CASE adding = Idle BY <2>1, NoneAssumption DEF Idle
  <2>2. CASE alive BY <1>2, <1>3, <2>2, NoneAssumption DEF AddingOk, Joining
  <2> QED BY <2>1, <2>2
<1>7. Tell({c}, conn, conn') BY <1>5, TellOne
<1>8. PICK x : x = conn'[c] OBVIOUS
<1>9. x.status = "net" /\ x.out = 0 /\ x.wr = FALSE /\ x.names = << >>
  BY <1>5, <1>8 DEF NewConn
<1>10. Settled(x, 0, FALSE)
  <2>1. Len(<< >>) = 0 OBVIOUS
  <2> QED BY <1>9, <2>1 DEF Settled, Rests, WaitStatuses, WaitsFor
<1>11. PICK b : b = (c = adding'.conn) OBVIOUS
<1>12. b = FALSE BY <1>3, <1>6, <1>11
<1>13. owed'[c] = 0 /\ \A d \in Conns : d # c => owed'[d] = owed[d] BY <1>3, <1>4
<1>14. Settled(conn'[c], owed'[c], c = adding'.conn)
  BY <1>8, <1>10, <1>11, <1>12, <1>13
<1>15. \A d \in Conns \ {c} : owed'[d] = owed[d] /\ (d = adding'.conn <=> d = adding.conn)
  BY <1>3, <1>13
<1> QED BY <1>2, <1>7, <1>14, <1>15, SettledKept

\* A connection is closed.
LEMMA PeerCloseSettles ==
    ASSUME AllSettled, OwnHeaderIds, LoopStep, NEW c \in Conns, PeerClose(c)
    PROVE  AllSettled'
<1>1. conn[c].sock = "open" /\ adding = Idle /\ adding' = Idle /\ Disconnect(conn, wait, c)
      /\ owed' = [owed EXCEPT ![c] = 0]
  BY DEF PeerClose, LoopReady, IsClosed
<1>2. Sound({}, conn, wait, queue) /\ conn' \in Objects /\ IInv BY LoopFacts
<1>3. Tell({}, conn, conn') /\ conn'[c].sock # "open" BY <1>1, <1>2, DisconnectTell
<1>4. Tell({c}, conn, conn') BY <1>3, TellMore
<1>5. owed \in [Conns -> Int] BY <1>2 DEF IInv, HistoryInv
<1>6. \A d \in Conns : d # c => owed'[d] = owed[d] BY <1>1, <1>5
<1> QED BY <1>1, <1>2, <1>3, <1>4, <1>6, SettledOne

\* The buffer of a connection is sent.
LEMMA OnSendSettles ==
    ASSUME AllSettled, OwnHeaderIds, LoopStep, NEW c \in Conns, OnSend(c)
    PROVE  AllSettled'
<1>1. conn[c].sock = "open" /\ adding = Idle /\ adding' = Idle /\ conn[c].wr
  BY DEF OnSend, LoopReady, IsClosed
<1>2. Sound({}, conn, wait, queue) /\ conn \in Objects /\ conn' \in Objects /\ IInv
  BY LoopFacts
<1>3. conn[c] \in ConnType BY <1>2 DEF Objects
<1>4. PICK k : k = IF conn[c].out > 0 THEN conn[c].out ELSE IF conn[c].dm > 0 THEN 1 ELSE 0
  OBVIOUS
<1>5. PICK m : m = IF conn[c].out = 0 THEN conn[c].dm - k ELSE conn[c].dm OBVIOUS
<1>6. k \in Int /\ m \in Int
  <2>1. conn[c].out \in Int /\ conn[c].dm \in Int BY <1>3, ObjectFields
  <2> QED BY <1>4, <1>5, <2>1
<1>7. PICK cs : cs = [conn EXCEPT ![c] = Buffered(conn[c], 0, FALSE, m)] OBVIOUS
<1>8. Sound({}, cs, wait, queue) /\ \A d \in Conns : Alike(conn[d], cs[d])
  <2>1. PICK o, b : o = 0 /\ b = FALSE OBVIOUS
  <2>2. Rebuffers(conn, cs, c, o, b, m) BY <1>7, <2>1 DEF Rebuffers
  <2>3. o \in Int BY <2>1
  <2>4. b \in BOOLEAN BY <2>1, Zenon
  <2> QED BY <1>2, <1>6, <2>2, <2>3, <2>4, BufferSound
<1>9. cs[c].sock = "open" BY <1>1, <1>8 DEF Alike, Same
<1>10. cs = [conn EXCEPT ![c].out = 0, ![c].wr = FALSE,
                         ![c].dm = IF conn[c].out = 0 THEN @ - k ELSE @]
  BY <1>2, <1>5, <1>7 DEF Buffered, Objects
<1>11. /\ IF conn[c].ka THEN conn' = cs ELSE Disconnect(cs, wait, c)
       /\ owed' = [owed EXCEPT ![c] = @ - k]
  BY <1>4, <1>10 DEF OnSend
<1>12. PICK x, o : x = conn[c] /\ o = owed[c] OBVIOUS
<1>13. Replies(x, o) /\ (x.status = "worker_mode_async" => x.wm) /\ (OneName => Len(x.names) <= 1)
  <2>1. PICK b : b = (c = adding.conn) OBVIOUS
  <2>2. b = FALSE BY <1>1, <2>1, NoneAssumption DEF Idle
  <2>3. Settled(conn[c], owed[c], c = adding.conn) BY <1>1 DEF AllSettled, Open
  <2>4. Settled(x, o, FALSE) BY <1>12, <2>1, <2>2, <2>3
  <2> QED BY <1>1, <1>12, <2>4 DEF Settled, Rests, Expects
<1>14. k = 1 BY <1>3, <1>4, <1>12, <1>13 DEF Replies
<1>15. owed'[c] = 0 /\ \A d \in Conns : d # c => owed'[d] = owed[d]
  <2>1. owed \in [Conns -> Int] BY <1>2 DEF IInv, HistoryInv
  <2> QED BY <1>11, <1>12, <1>13, <1>14, <2>1 DEF Replies
<1>16. /\ \A d \in Conns : d # c => cs[d] = conn[d]
       /\ cs[c].out = 0 /\ cs[c].wr = FALSE /\ cs[c].status = x.status /\ cs[c].wm = x.wm
       /\ cs[c].names = x.names
  BY <1>2, <1>3, <1>7, <1>12 DEF Objects, Buffered, ConnType
<1>17. Tell({c}, conn, cs) BY <1>16, TellOne
<1>18. CASE conn[c].ka
  <2>1. conn' = cs BY <1>11, <1>18
  <2>2. Settled(cs[c], 0, FALSE) BY <1>13, <1>16 DEF Settled, Rests, Replies
  <2>3. Settled(conn'[c], owed'[c], FALSE) BY <1>15, <2>1, <2>2
  <2> QED BY <1>1, <1>2, <1>15, <1>17, <2>1, <2>3, SettledOne
<1>19. CASE ~conn[c].ka
  <2>1. Tell({}, cs, conn') /\ conn'[c].sock # "open"
    BY <1>2, <1>8, <1>9, <1>11, <1>19, DisconnectTell
  <2>2. Tell({c}, cs, conn') BY <2>1, TellMore
  <2>3. Tell({c}, conn, conn') BY <1>17, <2>2, TellTrans
  <2> QED BY <1>1, <1>2, <1>15, <2>1, <2>3, SettledOne
<1> QED BY <1>18, <1>19

LEMMA OnSendPartSettles ==
    ASSUME AllSettled, LoopStep, NEW c \in Conns, OnSendPart(c)
    PROVE  AllSettled'
<1>1. /\ conn[c].sock = "open" /\ adding = Idle /\ adding' = Idle /\ conn[c].wr /\ owed' = owed
      /\ conn[c].out = 0 /\ conn[c].dm > 0
      /\ conn' = [conn EXCEPT ![c].out = 1, ![c].dm = @ - 1]
  BY DEF OnSendPart, LoopReady, IsClosed, history
<1>2. conn \in Objects /\ IInv BY LoopFacts
<1>3. PICK x, y, o : x = conn[c] /\ y = conn'[c] /\ o = owed[c] OBVIOUS
<1>4. /\ \A d \in Conns : d # c => conn'[d] = conn[d]
      /\ y.out = 1 /\ y.wr = x.wr /\ y.status = x.status /\ y.wm = x.wm /\ y.names = x.names
  BY <1>1, <1>2, <1>3 DEF Objects, ConnType
<1>5. Settled(x, o, FALSE)
  <2>1. PICK b : b = (c = adding.conn) OBVIOUS
  <2>2. b = FALSE BY <1>1, <2>1, NoneAssumption DEF Idle
  <2>3. Settled(conn[c], owed[c], c = adding.conn) BY <1>1 DEF AllSettled, Open
  <2> QED BY <1>3, <2>1, <2>2, <2>3
<1>6. Settled(y, o, FALSE)
  BY <1>1, <1>3, <1>4, <1>5 DEF Settled, Rests, Expects, Replies
<1>7. Tell({c}, conn, conn') BY <1>4, TellOne
<1>8. Settled(conn'[c], owed'[c], FALSE) BY <1>1, <1>3, <1>6
<1> QED BY <1>1, <1>2, <1>7, <1>8, SettledOne

\* What concerns no answer.
LEMMA FacesSettle ==
    ASSUME AllSettled, IInv, Tell({}, conn, conn'), adding' = adding, owed' = owed
    PROVE  AllSettled'
  BY SettledKept

LEMMA DeleteConnectionsSettles ==
    ASSUME AllSettled, LoopStep, DeleteConnections
    PROVE  AllSettled'
<1>1. conn \in Objects /\ IInv BY LoopFacts
<1>2. PICK D : conn' = [d \in Conns |-> IF d \in D THEN [conn[d] EXCEPT !.sock = "freed"]
                                        ELSE conn[d]]
  BY DEF DeleteConnections
<1>3. adding' = adding /\ owed' = owed BY DEF DeleteConnections, history
<1>4. ASSUME NEW d \in Conns PROVE Tells(conn[d], conn'[d])
  <2>1. CASE d \in D
    <3>1. conn'[d].sock = "freed" BY <1>1, <1>2, <2>1 DEF Objects, ConnType
    <3> QED BY <3>1 DEF Tells
  <2>2. CASE d \notin D
    <3>1. conn'[d] = conn[d] BY <1>2, <2>2
    <3> QED BY <3>1 DEF Tells, Shown
  <2> QED BY <2>1, <2>2
<1>5. Tell({}, conn, conn') BY <1>4 DEF Tell
<1> QED BY <1>1, <1>3, <1>5, FacesSettle

LEMMA CleanDeadTasksSettles ==
    ASSUME AllSettled, IInv, NEW n \in Names, CleanDeadTasks(n)
    PROVE  AllSettled'
<1>1. conn \in [Conns -> ConnType] BY DEF IInv, ConnInv, ModeType
<1>2. adding' = adding /\ owed' = owed BY DEF CleanDeadTasks, history
<1>3. PICK s, t : s = queue[n].workers /\ t = queue[n].clients OBVIOUS
<1>4. PICK R : R = {i \in DOMAIN s : IsClosed(conn, s[i])
                                     \/ conn[s[i]].status # "worker_wait_job"}
  OBVIOUS
<1>5. PICK T : T = {i \in DOMAIN t : t[i].conn # None /\
                      (IsClosed(conn, t[i].conn)
                       \/ conn[t[i].conn].status # "client_wait_result")}
  OBVIOUS
<1>6. conn' = [c \in Conns |-> [conn[c] EXCEPT
                     !.link = @ - Cardinality({i \in R : s[i] = c})
                                - Cardinality({i \in T : t[i].conn = c})]]
  BY <1>3, <1>4, <1>5 DEF CleanDeadTasks
<1>7. ASSUME NEW d \in Conns PROVE Tells(conn[d], conn'[d])
  <2>1. PICK k : k = conn[d].link - Cardinality({i \in R : s[i] = d})
                                  - Cardinality({i \in T : t[i].conn = d})
    OBVIOUS
  <2>2. conn'[d] = [conn[d] EXCEPT !.link = k] BY <1>6, <2>1, Zenon
  <2> QED BY <1>1, <2>2 DEF ConnType, Tells, Shown
<1>8. Tell({}, conn, conn') BY <1>7 DEF Tell
<1> QED BY <1>2, <1>8, FacesSettle

\* A worker that waits is told something else, and asks again.
LEMMA ToldSettles ==
    ASSUME NEW x, NEW y, NEW o, Settled(x, o, FALSE), x.status = "worker_wait_job",
           y.status \in {"net", "worker_mode_async"},
           y.status = "worker_mode_async" => y.wm,
           y.wr, y.names = x.names,
           y.out = 1 \/ (y.out = 0 /\ y.dm > 0)
    PROVE  Settled(y, o, FALSE)
<1>1. o = 1 BY DEF Settled, Rests, Expects, Replies, WaitStatuses
<1>2. y.status \notin WaitStatuses BY DEF WaitStatuses, WaitsFor
<1> QED BY <1>1, <1>2 DEF Settled, Replies

LEMMA CheckTimeoutSettles ==
    ASSUME AllSettled, LoopStep, CheckTimeout
    PROVE  AllSettled'
<1>1. conn \in Objects /\ IInv BY LoopFacts
<1>2. adding = Idle /\ adding' = adding /\ owed' = owed BY DEF CheckTimeout, LoopReady, history
<1>3. PICK W : /\ \A w \in W : conn[w].status = "worker_wait_job" /\ conn[w].sock = "open"
               /\ conn' = [w \in Conns |->
                             IF w \in W
                             THEN [Send(conn, w)[w] EXCEPT !.status = AfterAsync(conn, w)]
                             ELSE conn[w]]
  BY DEF CheckTimeout, IsClosed
<1>4. \A d \in Conns : d # adding.conn BY <1>2, NoneAssumption DEF Idle
<1>5. ASSUME NEW d \in Conns \ W PROVE Tells(conn[d], conn'[d])
  <2>1. conn'[d] = conn[d] BY <1>3, <1>5
  <2> QED BY <2>1 DEF Tells, Shown
<1>6. ASSUME NEW d \in Conns, d \in W PROVE Settled(conn'[d], owed'[d], d = adding'.conn)
  <2>1. PICK b, o, x, y, u : /\ b = (d = adding.conn) /\ o = owed[d] /\ x = conn[d]
                             /\ u = Send(conn, d)[d] /\ y = conn'[d]
    OBVIOUS
  <2>2. b = FALSE BY <1>4, <2>1
  <2>3. x.status = "worker_wait_job" /\ x.sock = "open" BY <1>3, <1>6, <2>1
  <2>4. Settled(x, o, b) BY <2>1, <2>3 DEF AllSettled, Open
  <2>5. Sent(x, u) /\ u \in ConnType BY <1>1, <2>1, SendFaces, SendDoes DEF Objects
  <2>6. PICK s : s = AfterAsync(conn, d) OBVIOUS
  <2>7. s \in {"net", "worker_mode_async"} /\ (s = "worker_mode_async" => x.wm)
    BY <2>1, <2>6 DEF AfterAsync
  <2>8. y = [u EXCEPT !.status = s] BY <1>3, <1>6, <2>1, <2>6
  <2>9. y.status = s /\ y.wm = x.wm /\ y.names = x.names /\ y.out = x.out + 1 /\ y.wr
    BY <2>5, <2>8 DEF ConnType, Sent
  <2>10. x.out = 0 BY <2>2, <2>3, <2>4 DEF Settled, Rests, Expects, Replies, WaitStatuses
  <2>11. Settled(x, o, FALSE) BY <2>2, <2>4
  <2>12. y.out = 1 BY <2>9, <2>10
  <2>13. y.status \in {"net", "worker_mode_async"} /\ (y.status = "worker_mode_async" => y.wm)
    BY <2>7, <2>9
  <2>14. Settled(y, o, FALSE) BY <2>3, <2>9, <2>11, <2>12, <2>13, ToldSettles
  <2> QED BY <1>2, <2>1, <2>2, <2>14
<1>7. Tell(W, conn, conn') BY <1>5 DEF Tell
<1> QED BY <1>1, <1>2, <1>6, <1>7, SettledKept

-----------------------------------------------------------------------------
(* Every connection stays settled: requests that are answered *)

\* What a request begins with.
LEMMA BegunFresh ==
    ASSUME AllSettled, LoopStep, NEW c \in Conns, NEW r \in Requests[c], Parsed(c, r),
           NEW cs, cs = Start(conn, c, r)
    PROVE  /\ Tell({c}, conn, cs) /\ cs \in Objects /\ Fresh(cs[c]) /\ cs[c].sock = "open"
           /\ cs[c].json = r.json /\ cs[c].wm = conn[c].wm /\ cs[c].status = conn[c].status
           /\ adding = Idle /\ Arrives(c, r) /\ IInv
           /\ Sound({}, cs, wait, queue) /\ Awaited(cs, wait)
<1>1. IInv /\ LinkState /\ conn \in Objects BY LoopFacts
<1>2. Arrives(c, r) BY DEF Parsed
<1>3. Fresh(conn[c]) /\ conn[c].sock = "open" /\ adding = Idle BY <1>1, <1>2, ArrivesFresh
<1>4. Tell({c}, conn, cs) /\ Begins(conn[c], cs[c], r) BY <1>1, StartTell
<1>5. Fresh(cs[c]) /\ cs[c].json = r.json BY <1>3, <1>4, BeginsFresh
<1>6. Sound({}, cs, wait, queue) BY <1>1, StartLinks
<1>7. cs \in Objects /\ Placed(cs, wait, queue) BY <1>6 DEF Sound
<1>8. Awaited(cs, wait) BY <1>7, PlacedAwaited
<1>9. cs[c].sock = "open" /\ cs[c].wm = conn[c].wm /\ cs[c].status = conn[c].status
  BY <1>3, <1>4 DEF Begins
<1> QED BY <1>1, <1>2, <1>3, <1>4, <1>5, <1>6, <1>7, <1>8, <1>9

\* A request is answered.
LEMMA RepliesSettle ==
    ASSUME AllSettled, IInv, NEW c \in Conns, NEW r, Arrives(c, r), adding' = Idle,
           NEW cs \in Objects, Tell({c}, conn, cs), cs[c].sock = "open" => Fresh(cs[c]),
           conn' = Send(cs, c)
    PROVE  AllSettled'
<1>1. Sent(cs[c], conn'[c]) /\ \A d \in Conns : d # c => conn'[d] = cs[d] BY SendFaces
<1>2. conn'[c].sock = "open" => Settled(conn'[c], 1, FALSE)
  <2> SUFFICES ASSUME conn'[c].sock = "open" PROVE Settled(conn'[c], 1, FALSE) OBVIOUS
  <2>1. cs[c].sock = "open" BY <1>1 DEF Sent
  <2>2. Replied(conn'[c]) BY <1>1, <2>1, FreshReplies
  <2> QED BY <2>2, RepliedStays
<1>3. Tell({c}, conn, conn')
  <2>1. Tell({c}, cs, conn') BY <1>1, TellOne
  <2> QED BY <2>1, TellTrans
<1> QED BY <1>2, <1>3, ArrivalSettles

\* A request ends the connection.
LEMMA GoneSettles ==
    ASSUME AllSettled, OwnHeaderIds, LoopStep, NEW c \in Conns, NEW r, Arrives(c, r),
           adding' = Idle, NEW cs, Tell({c}, conn, cs), Sound({}, cs, wait, queue),
           cs[c].sock = "open", Disconnect(cs, wait, c)
    PROVE  AllSettled'
<1>1. conn' \in Objects /\ IInv BY LoopFacts
<1>2. Tell({}, cs, conn') /\ conn'[c].sock # "open" BY <1>1, DisconnectTell
<1>3. Tell({c}, cs, conn') BY <1>2, TellMore
<1>4. Tell({c}, conn, conn') BY <1>3, TellTrans
<1> QED BY <1>1, <1>2, <1>4, ArrivalSettles

\* A worker asks for work.
LEMMA EnlistSettles ==
    ASSUME AllSettled, IInv, NEW c \in Conns, NEW r, Arrives(c, r), adding'.conn = c,
           Tell({c}, conn, conn'), conn'[c].sock = "open" => Fresh(conn'[c])
    PROVE  AllSettled'
<1>1. /\ adding = Idle /\ owed'[c] = 1 /\ \A d \in Conns : d # c => owed'[d] = owed[d]
  BY ArrivesFresh
<1>2. \A d \in Conns : d # adding.conn BY <1>1, NoneAssumption DEF Idle
<1>3. ASSUME NEW x, Fresh(x) PROVE Settled(x, 1, TRUE)
  BY <1>3 DEF Fresh, Settled, Enlists, WaitStatuses
<1>4. PICK b : b = (c = adding'.conn) OBVIOUS
<1>5. b = TRUE BY <1>4
<1>6. conn'[c].sock = "open" => Settled(conn'[c], owed'[c], c = adding'.conn)
  BY <1>1, <1>3, <1>4, <1>5
<1>7. \A d \in Conns \ {c} : owed'[d] = owed[d] /\ (d = adding'.conn <=> d = adding.conn)
  BY <1>1, <1>2
<1> QED BY <1>6, <1>7, SettledKept

LEMMA RecvNotReadySettles ==
    ASSUME AllSettled, LoopStep, NEW c \in Conns, NEW r \in Requests[c], RecvNotReady(c, r)
    PROVE  FALSE
<1>1. Arrives(c, r) /\ ~Ready(conn, c) BY DEF RecvNotReady
<1>2. IInv /\ Firm(conn) /\ conn \in Objects BY LoopFacts
<1>3. Fresh(conn[c]) /\ conn[c].sock = "open" BY <1>1, <1>2, ArrivesFresh
<1>4. Steady(conn[c]) /\ conn[c].status \in Statuses
  BY <1>2, <1>3, ObjectFields DEF Firm, Objects
<1> QED BY <1>1, <1>3, <1>4 DEF Ready, Fresh, Steady, Statuses, WaitStatuses, WaitsFor

LEMMA RecvThrowsSettles ==
    ASSUME AllSettled, OwnHeaderIds, LoopStep, NEW c \in Conns, NEW r \in Requests[c],
           RecvThrows(c, r)
    PROVE  AllSettled'
<1>1. Arrives(c, r) /\ adding' = adding /\ IInv BY LoopFacts DEF RecvThrows
<1>2. adding = Idle /\ conn[c].sock = "open" BY <1>1, ArrivesFresh
<1>3. conn[c].status # "client_wait_result" BY DEF RecvThrows, Ready
<1>4. PICK v \in AllIds \cup {None} : v = None OBVIOUS
<1>5. PICK cs : cs = IdSet(conn, c, v) OBVIOUS
<1>6. Sound({}, conn, wait, queue) /\ conn \in Objects BY LoopFacts
<1>7. Sound({}, cs, wait, queue) BY <1>3, <1>5, <1>6, IdSound
<1>8. Renamed(conn[c], cs[c], v) /\ \A d \in Conns : d # c => cs[d] = conn[d]
  BY <1>5, <1>6, IdDoes
<1>9. Tell({c}, conn, cs) BY <1>8, TellOne
<1>10. Disconnect(cs, wait, c) BY <1>4, <1>5 DEF RecvThrows, IdSet
<1>11. cs[c].sock = "open" BY <1>2, <1>8 DEF Renamed
<1> QED BY <1>1, <1>2, <1>7, <1>9, <1>10, <1>11, GoneSettles

LEMMA AnswerSettles ==
    ASSUME AllSettled, LoopStep, NEW c \in Conns, NEW r \in Requests[c], Parsed(c, r),
           conn' = Send(Start(conn, c, r), c), adding' = adding
    PROVE  AllSettled'
<1>1. PICK cs : cs = Start(conn, c, r) OBVIOUS
<1>2. /\ Tell({c}, conn, cs) /\ cs \in Objects /\ Fresh(cs[c]) /\ adding = Idle
      /\ Arrives(c, r) /\ IInv
  BY <1>1, BegunFresh
<1>3. conn' = Send(cs, c) BY <1>1
<1> QED BY <1>2, <1>3, RepliesSettle

LEMMA RecvEchoSettles ==
    ASSUME AllSettled, LoopStep, NEW c \in Conns, NEW r \in Requests[c],
           RecvEcho(c, r) \/ RecvCallNoQueue(c, r) \/ RecvCreate(c, r)
    PROVE  AllSettled'
<1>1. Parsed(c, r) /\ conn' = Send(Start(conn, c, r), c) /\ adding' = adding
  BY DEF RecvEcho, RecvCallNoQueue, RecvCreate, Call, Plain
<1> QED BY <1>1, AnswerSettles

LEMMA RecvNoIdSettles ==
    ASSUME AllSettled, OwnHeaderIds, LoopStep, NEW c \in Conns, NEW r \in Requests[c],
           RecvNoId(c, r)
    PROVE  AllSettled'
<1>1. PICK cs : cs = Start(conn, c, r) OBVIOUS
<1>2. Parsed(c, r) /\ cs[c].noid /\ adding' = adding BY <1>1 DEF RecvNoId
<1>3. /\ Tell({c}, conn, cs) /\ cs \in Objects /\ Fresh(cs[c]) /\ cs[c].sock = "open"
      /\ adding = Idle /\ Arrives(c, r) /\ IInv
      /\ Sound({}, cs, wait, queue) /\ Awaited(cs, wait)
  BY <1>1, <1>2, BegunFresh
<1>4. CASE r.op # "result"
  <2>1. conn' = Send(cs, c) BY <1>1, <1>4 DEF RecvNoId
  <2> QED BY <1>2, <1>3, <2>1, RepliesSettle
<1>5. CASE r.op = "result" /\ cs[c].client = None
  <2>1. Disconnect(cs, wait, c) BY <1>1, <1>5 DEF RecvNoId
  <2> QED BY <1>2, <1>3, <2>1, GoneSettles
<1>6. CASE r.op = "result" /\ cs[c].client # None
  <2>1. PICK ds : ds = NoIdResult(cs, c) OBVIOUS
  <2>2. conn' = Send(SetStatus(ds, c, "net"), c) BY <1>1, <1>6, <2>1 DEF RecvNoId
  <2>3. Sound({}, ds, wait, queue) /\ Rid(cs[c], ds[c])
    BY <1>2, <1>3, <1>6, <2>1, NoIdResultDoes
  <2>4. Tell({}, cs, ds) /\ ds \in Objects
    <3>1. cs[c].client \in Conns
      <4>1. cs[c].client \in Conns \cup {None} BY <1>3, ObjectFields DEF Objects
      <4> QED BY <1>6, <4>1
    <3>2. cs[cs[c].client].sock = "open" => cs[cs[c].client].status \in WaitsFor
      BY <1>2, <1>3, <3>1, AwaitedClients
    <3> QED BY <1>3, <2>1, <2>3, <3>1, <3>2, NoIdTell DEF Sound
  <2>5. Fresh(ds[c])
    <3>1. Tells(cs[c], ds[c]) BY <2>4 DEF Tell
    <3>2. ds[c].sock = "open" BY <1>3, <2>3 DEF Rid
    <3> QED BY <1>3, <3>1, <3>2, TellsFresh
  <2>6. PICK s \in Statuses : s = "net" BY Values
  <2>7. PICK es : es = SetStatus(ds, c, s) OBVIOUS
  <2>8. /\ es \in Objects /\ Switched(ds[c], es[c], "net")
        /\ \A d \in Conns : d # c => es[d] = ds[d]
    BY <2>4, <2>6, <2>7, StatusDoes, StatusFaces
  <2>9. Fresh(es[c]) BY <2>5, <2>8, FreshReplies
  <2>10. Tell({c}, conn, es)
    <3>1. Tell({c}, cs, ds) BY <2>4, TellMore
    <3>2. Tell({c}, ds, es) BY <2>8, TellOne
    <3>3. Tell({c}, conn, ds) BY <1>3, <3>1, TellTrans
    <3> QED BY <3>2, <3>3, TellTrans
  <2>11. conn' = Send(es, c) BY <2>2, <2>6, <2>7
  <2> QED BY <1>2, <1>3, <2>8, <2>9, <2>10, <2>11, RepliesSettle
<1> QED BY <1>4, <1>5, <1>6

LEMMA RecvResultSettles ==
    ASSUME AllSettled, LoopStep, NEW c \in Conns, NEW r \in Requests[c], RecvResult(c, r)
    PROVE  AllSettled'
<1>1. PICK cs : cs = Start(conn, c, r) OBVIOUS
<1>2. Plain(c, r, {"result"}) /\ adding' = adding BY DEF RecvResult
<1>3. Parsed(c, r) BY <1>2 DEF Plain
<1>4. /\ Tell({c}, conn, cs) /\ cs \in Objects /\ Fresh(cs[c]) /\ adding = Idle
      /\ Arrives(c, r) /\ IInv /\ Sound({}, cs, wait, queue) /\ Awaited(cs, wait)
  BY <1>1, <1>3, BegunFresh
<1>5. r \in RequestType BY <1>3, LoopFacts, StartLinks
<1>6. PICK i : i = IF r.id # None THEN r.id ELSE IF r.json \in Ids THEN r.json ELSE None
  OBVIOUS
<1>7. i # None => i \in AllIds
  <2>1. r.id \in AllIds \cup {None} BY <1>5, RequestFacts
  <2> QED BY <1>6, <2>1 DEF AllIds
<1>8. PICK ds : ds = IF i # None /\ wait[i] # None THEN ResultClient(cs, wait, i) ELSE cs
  OBVIOUS
<1>9. conn' = SetStatus(Send(ds, c), c, "net") BY <1>1, <1>6, <1>8 DEF RecvResult
<1>10. Tell({}, cs, ds) /\ ds \in Objects
  <2>1. CASE i # None /\ wait[i] # None
    <3>1. i \in AllIds BY <1>7, <2>1
    <3>2. wait \in WaitType BY <1>4 DEF Sound
    <3>3. wait[i] \in Conns BY <2>1, <3>1, <3>2 DEF WaitType
    <3>4. cs[wait[i]].sock = "open" => cs[wait[i]].status \in WaitsFor
      BY <1>4, <3>1, <3>3, AwaitedClients
    <3> QED BY <1>4, <1>8, <2>1, <3>3, <3>4, ResultTell
  <2>2. CASE ~(i # None /\ wait[i] # None)
    <3>1. ds = cs BY <1>8, <2>2
    <3>2. Faces(cs, cs) BY DEF Faces, Face
    <3> QED BY <1>4, <3>1, <3>2, FacesTell
  <2> QED BY <2>1, <2>2
<1>11. ds[c].sock = "open" => Fresh(ds[c])
  <2>1. Tells(cs[c], ds[c]) BY <1>10 DEF Tell
  <2> QED BY <1>4, <2>1, TellsFresh
<1>12. PICK s \in Statuses : s = "net" BY Values
<1>13. PICK es : es = SetStatus(ds, c, s) OBVIOUS
<1>14. /\ es \in Objects /\ Switched(ds[c], es[c], "net")
       /\ \A d \in Conns : d # c => es[d] = ds[d]
  BY <1>10, <1>12, <1>13, StatusDoes, StatusFaces
<1>15. es[c].sock = "open" => Fresh(es[c])
  <2>1. es[c].sock = ds[c].sock BY <1>14 DEF Switched
  <2> QED BY <1>11, <1>14, <2>1, FreshReplies
<1>16. Tell({c}, conn, es)
  <2>1. Tell({c}, cs, ds) BY <1>10, TellMore
  <2>2. Tell({c}, ds, es) BY <1>14, TellOne
  <2>3. Tell({c}, conn, ds) BY <1>4, <2>1, TellTrans
  <2> QED BY <2>2, <2>3, TellTrans
<1>17. conn' = Send(es, c) BY <1>9, <1>10, <1>12, <1>13, InformedEither
<1> QED BY <1>2, <1>4, <1>14, <1>15, <1>16, <1>17, RepliesSettle

LEMMA RecvWorkerModeSettles ==
    ASSUME AllSettled, OwnHeaderIds, LoopStep, NEW c \in Conns, NEW r \in Requests[c],
           RecvWorkerMode(c, r)
    PROVE  AllSettled'
<1>1. PICK cs : cs = Start(conn, c, r) OBVIOUS
<1>2. PICK ds : ds = IF cs[c].status = "worker_mode_async" THEN cs ELSE NoIdResult(cs, c) OBVIOUS
<1>3. Parsed(c, r) /\ conn[c].wm BY DEF RecvWorkerMode
<1>4. /\ Tell({c}, conn, cs) /\ cs \in Objects /\ Fresh(cs[c]) /\ cs[c].sock = "open"
      /\ cs[c].wm = conn[c].wm /\ cs[c].status = conn[c].status /\ adding = Idle
      /\ Arrives(c, r) /\ IInv /\ Sound({}, cs, wait, queue) /\ Awaited(cs, wait)
  BY <1>1, <1>3, BegunFresh
<1>5. CASE cs[c].status # "worker_mode_async" /\ cs[c].client = None
  <2>1. Disconnect(cs, wait, c) /\ adding' = adding BY <1>1, <1>5 DEF RecvWorkerMode
  <2> QED BY <1>4, <2>1, GoneSettles
<1>6. CASE ~(cs[c].status # "worker_mode_async" /\ cs[c].client = None)
  <2>1. Tell({}, cs, ds) /\ ds \in Objects
    <3>1. CASE cs[c].status = "worker_mode_async"
      <4>1. ds = cs BY <1>2, <3>1
      <4>2. Faces(cs, cs) BY DEF Faces, Face
      <4> QED BY <1>4, <4>1, <4>2, FacesTell
    <3>2. CASE cs[c].status # "worker_mode_async"
      <4>1. ds = NoIdResult(cs, c) /\ cs[c].client # None BY <1>2, <1>6, <3>2
      <4>2. cs[c].noid
        <5>1. Started(conn, cs, c, r) BY <1>1, <1>3, LoopFacts, StartLinks
        <5>2. conn[c].status = "worker_wait_result" /\ conn[c].noid
          BY <1>3, <1>4, <3>2 DEF Parsed, StartThrows
        <5> QED BY <1>3, <5>1, <5>2 DEF Started
      <4>3. Sound({}, ds, wait, queue) BY <1>4, <4>1, <4>2, NoIdResultDoes
      <4>4. cs[c].client \in Conns
        <5>1. cs[c].client \in Conns \cup {None} BY <1>4, ObjectFields DEF Objects
        <5> QED BY <4>1, <5>1
      <4>5. cs[cs[c].client].sock = "open" => cs[cs[c].client].status \in WaitsFor
        BY <1>4, <4>2, <4>4, AwaitedClients
      <4> QED BY <1>4, <4>1, <4>3, <4>4, <4>5, NoIdTell DEF Sound
    <3> QED BY <3>1, <3>2
  <2>2. ds[c].sock = "open" => Fresh(ds[c])
    <3>1. Tells(cs[c], ds[c]) BY <2>1 DEF Tell
    <3> QED BY <1>4, <3>1, TellsFresh
  <2>3. Tell({c}, conn, ds)
    <3>1. Tell({c}, cs, ds) BY <2>1, TellMore
    <3> QED BY <1>4, <3>1, TellTrans
  <2>4. CASE r.option = "stop"
    <3>1. /\ conn' = [Send(PopItem(ds, c), c) EXCEPT ![c].wm = FALSE, ![c].status = "net"]
          /\ adding' = adding
      BY <1>1, <1>2, <1>6, <2>4 DEF RecvWorkerMode
    <3>2. PICK es : es = PopItem(ds, c) OBVIOUS
    <3>3. es \in Objects /\ Faces(ds, es) BY <2>1, <3>2, PopDoes, HelperFaces
    <3>4. PICK fs : fs = Send(es, c) OBVIOUS
    <3>5. /\ fs \in Objects /\ Sent(es[c], fs[c]) /\ \A d \in Conns : d # c => fs[d] = es[d]
      BY <3>3, <3>4, SendDoes, SendFaces
    <3>6. conn' = [fs EXCEPT ![c].wm = FALSE, ![c].status = "net"] BY <3>1, <3>2, <3>4
    <3>7. /\ \A d \in Conns : d # c => conn'[d] = fs[d]
          /\ conn'[c].sock = fs[c].sock /\ conn'[c].out = fs[c].out /\ conn'[c].wr = fs[c].wr
          /\ conn'[c].names = fs[c].names /\ conn'[c].status = "net"
      BY <3>5, <3>6 DEF Objects, ConnType
    <3>8. conn'[c].sock = "open" => Settled(conn'[c], 1, FALSE)
      <4> SUFFICES ASSUME conn'[c].sock = "open" PROVE Settled(conn'[c], 1, FALSE) OBVIOUS
      <4>1. Face(ds[c], es[c]) BY <3>3 DEF Faces
      <4>2. ds[c].sock = "open" BY <3>5, <3>7, <4>1 DEF Sent, Face
      <4>3. Fresh(es[c]) BY <2>2, <4>1, <4>2, FreshReplies
      <4>4. Replied(fs[c]) BY <3>5, <4>3, FreshReplies
      <4>5. Replied(conn'[c]) BY <3>7, <4>4 DEF Replied, WaitStatuses, WaitsFor
      <4> QED BY <4>5, RepliedStays
    <3>9. Tell({c}, conn, conn')
      <4>1. Tell({c}, ds, es) BY <3>3, FacesTell
      <4>2. Tell({c}, es, conn') BY <3>5, <3>7, TellOne
      <4>3. Tell({c}, conn, es) BY <2>3, <4>1, TellTrans
      <4> QED BY <4>2, <4>3, TellTrans
    <3> QED BY <1>4, <3>1, <3>8, <3>9, ArrivalSettles
  <2>5. CASE r.option # "stop"
    <3>1. conn' = ds /\ adding'.conn = c
      BY <1>1, <1>2, <1>6, <2>5 DEF RecvWorkerMode
    <3> QED BY <1>4, <2>2, <2>3, <3>1, EnlistSettles
  <2> QED BY <2>4, <2>5
<1> QED BY <1>5, <1>6

\* A worker sets what it is.
Moded(cs, ds, c) ==
    /\ ds \in Objects /\ \A d \in Conns : d # c => ds[d] = cs[d]
    /\ ds[c].sock = cs[c].sock /\ ds[c].out = cs[c].out /\ ds[c].wr = cs[c].wr
    /\ ds[c].status = cs[c].status /\ ds[c].names = cs[c].names

LEMMA ModesKept ==
    ASSUME NEW cs \in Objects, NEW c \in Conns, NEW a \in BOOLEAN, NEW b \in BOOLEAN,
           NEW ds, ds = [cs EXCEPT ![c].wm = a, ![c].noid = b, ![c].fail = b]
    PROVE  Moded(cs, ds, c)
<1>1. cs[c] \in ConnType BY DEF Objects
<1>2. PICK x : x = [cs[c] EXCEPT !.wm = a] OBVIOUS
<1>3. x \in ConnType BY <1>1, <1>2, FieldType
<1>4. PICK y : y = [x EXCEPT !.noid = b] OBVIOUS
<1>5. y \in ConnType BY <1>3, <1>4, FieldType
<1>6. PICK z : z = [y EXCEPT !.fail = b] OBVIOUS
<1>7. z \in ConnType BY <1>5, <1>6, FieldType
<1>8. ds = [cs EXCEPT ![c] = z] BY <1>1, <1>2, <1>4, <1>6 DEF Objects
<1>9. z.sock = cs[c].sock /\ z.out = cs[c].out /\ z.wr = cs[c].wr
      /\ z.status = cs[c].status /\ z.names = cs[c].names
  BY <1>1, <1>2, <1>3, <1>4, <1>5, <1>6 DEF ConnType
<1>10. ds \in Objects /\ ds[c] = z /\ \A d \in Conns : d # c => ds[d] = cs[d]
  BY <1>7, <1>8 DEF Objects
<1> QED BY <1>9, <1>10 DEF Moded

LEMMA RecvAddSettles ==
    ASSUME AllSettled, LoopStep, NEW c \in Conns, NEW r \in Requests[c], RecvAdd(c, r)
    PROVE  AllSettled'
<1>1. PICK cs : cs = Start(conn, c, r) OBVIOUS
<1>2. Plain(c, r, {"get", "get+", "worker"}) BY DEF RecvAdd
<1>3. Parsed(c, r) /\ cs[c].status = "net" BY <1>1, <1>2, LoopFacts, PlainLinks
<1>4. /\ Tell({c}, conn, cs) /\ cs \in Objects /\ Fresh(cs[c]) /\ adding = Idle
      /\ Arrives(c, r) /\ IInv
  BY <1>1, <1>3, BegunFresh
<1>5. PICK a \in BOOLEAN : a = (r.op = "worker") OBVIOUS
<1>6. PICK b \in BOOLEAN : b = (r.op = "get+") OBVIOUS
<1>7. PICK ds : ds = [cs EXCEPT ![c].wm = a, ![c].noid = b, ![c].fail = b] OBVIOUS
<1>8. /\ ds \in Objects /\ \A d \in Conns : d # c => ds[d] = cs[d]
      /\ ds[c].sock = cs[c].sock /\ ds[c].out = cs[c].out /\ ds[c].wr = cs[c].wr
      /\ ds[c].status = cs[c].status /\ ds[c].names = cs[c].names
  <2>1. Moded(cs, ds, c) BY <1>4, <1>7, ModesKept
  <2> QED BY <2>1 DEF Moded
<1>9. Fresh(ds[c]) BY <1>3, <1>4, <1>8 DEF Fresh
<1>10. Tell({c}, conn, ds)
  <2>1. Tell({c}, cs, ds) BY <1>8, TellOne
  <2> QED BY <1>4, <2>1, TellTrans
<1>11. ds = [cs EXCEPT ![c].wm = (r.op = "worker"), ![c].noid = (r.op = "get+"),
                       ![c].fail = (r.op = "get+")]
  BY <1>5, <1>6, <1>7, Zenon
<1>12. CASE r.json = "malformed"
  <2>1. conn' = Send(ds, c) /\ adding' = adding BY <1>1, <1>11, <1>12 DEF RecvAdd
  <2> QED BY <1>4, <1>8, <1>9, <1>10, <2>1, RepliesSettle
<1>13. CASE r.json # "malformed" /\ r.names = << >>
  <2>1. conn' = Send([ds EXCEPT ![c].wm = FALSE], c) /\ adding' = adding
    BY <1>1, <1>11, <1>13 DEF RecvAdd
  <2>2. PICK es : es = [ds EXCEPT ![c].wm = FALSE] OBVIOUS
  <2>3. PICK x : x = [ds[c] EXCEPT !.wm = FALSE] OBVIOUS
  <2>4. ds[c] \in ConnType BY <1>8 DEF Objects
  <2>5. x \in ConnType BY <2>3, <2>4, FieldType
  <2>6. es \in Objects /\ es[c] = x /\ \A d \in Conns : d # c => es[d] = ds[d]
    BY <1>8, <2>2, <2>3, <2>5 DEF Objects
  <2>7. Fresh(es[c])
    <3>1. x.status = ds[c].status /\ x.out = ds[c].out /\ x.wr = ds[c].wr
          /\ x.names = ds[c].names
      BY <2>3, <2>4 DEF ConnType
    <3> QED BY <1>3, <1>8, <1>9, <2>6, <3>1 DEF Fresh
  <2>8. Tell({c}, conn, es)
    <3>1. Tell({c}, ds, es) BY <2>6, TellOne
    <3> QED BY <1>10, <3>1, TellTrans
  <2>9. conn' = Send(es, c) BY <2>1, <2>2
  <2> QED BY <1>4, <2>1, <2>6, <2>7, <2>8, <2>9, RepliesSettle
<1>14. CASE r.json # "malformed" /\ r.names # << >>
  <2>1. PICK x, y, z : /\ x = (r.op # "get")
                       /\ y = (r.op # "get" \/ r.option = "fail_on_disconnect")
                       /\ z = (IF r.op = "worker" THEN r.names ELSE << >>)
    OBVIOUS
  <2>2. /\ conn' = [ds EXCEPT ![c].noid = (r.op # "get"),
                              ![c].fail = (r.op # "get" \/ r.option = "fail_on_disconnect"),
                              ![c].names = IF r.op = "worker" THEN r.names ELSE << >>]
        /\ adding' = [conn |-> c, names |-> r.names]
    BY <1>1, <1>11, <1>14, Zenon DEF RecvAdd
  <2>3. conn' = [ds EXCEPT ![c].noid = x, ![c].fail = y, ![c].names = z]
    BY <2>1, <2>2, Zenon
  <2>4. /\ \A d \in Conns : d # c => conn'[d] = ds[d]
        /\ conn'[c].status = ds[c].status /\ conn'[c].out = ds[c].out
        /\ conn'[c].wr = ds[c].wr /\ conn'[c].names = z
    BY <1>8, <2>3 DEF Objects, ConnType
  <2>5. OneName => Len(z) <= 1
    <3>1. Len(<< >>) = 0 OBVIOUS
    <3> QED BY <2>1, <3>1 DEF OneName
  <2>6. Fresh(conn'[c]) BY <1>3, <1>8, <1>9, <2>4, <2>5 DEF Fresh
  <2>7. Tell({c}, conn, conn')
    <3>1. Tell({c}, ds, conn') BY <2>4, TellOne
    <3> QED BY <1>10, <3>1, TellTrans
  <2>8. adding'.conn = c BY <2>2
  <2> QED BY <1>4, <2>6, <2>7, <2>8, EnlistSettles
<1> QED BY <1>12, <1>13, <1>14

\* A call that looks for a worker.
LEMMA CalledFresh ==
    ASSUME AllSettled, LoopStep, NEW c \in Conns, NEW r \in Requests[c], Call(c, r),
           NEW cs, cs = CallState(c, r)
    PROVE  /\ Tell({c}, conn, cs) /\ cs \in Objects /\ Fresh(cs[c])
           /\ cs[c].json = r.json /\ adding = Idle /\ adding' = Idle /\ Arrives(c, r) /\ IInv
<1>1. IInv /\ LinkState /\ conn \in Objects BY LoopFacts
<1>2. Parsed(c, r) /\ adding' = adding BY DEF Call, Plain
<1>3. Arrives(c, r) BY <1>2 DEF Parsed
<1>4. Fresh(conn[c]) /\ conn[c].sock = "open" /\ adding = Idle BY <1>1, <1>3, ArrivesFresh
<1>5. Start(conn, c, r) \in Objects BY <1>2, BegunFresh
<1>6. Tell({c}, conn, cs) /\ Begins(conn[c], cs[c], r) BY <1>1, <1>5, CallTell
<1>7. Fresh(cs[c]) /\ cs[c].json = r.json BY <1>4, <1>6, BeginsFresh
<1>8. cs \in Objects BY <1>1, CallStateSound
<1> QED BY <1>1, <1>2, <1>3, <1>4, <1>6, <1>7, <1>8

LEMMA RecvCallAbsentSettles ==
    ASSUME AllSettled, LoopStep, NEW c \in Conns, NEW r \in Requests[c], RecvCallAbsent(c, r)
    PROVE  AllSettled'
<1>1. PICK cs : cs = CallState(c, r) OBVIOUS
<1>2. Call(c, r) /\ conn' = Send(cs, c) BY <1>1 DEF RecvCallAbsent
<1>3. /\ Tell({c}, conn, cs) /\ cs \in Objects /\ Fresh(cs[c]) /\ adding' = Idle
      /\ Arrives(c, r) /\ IInv
  BY <1>1, <1>2, CalledFresh
<1> QED BY <1>2, <1>3, RepliesSettle

LEMMA RecvCallRejectSettles ==
    ASSUME AllSettled, LoopStep, NEW c \in Conns, NEW r \in Requests[c], RecvCallReject(c, r)
    PROVE  AllSettled'
<1>1. PICK w, cs : w = Taken(r) /\ cs = CallState(c, r) OBVIOUS
<1>2. PICK i : i = CallId(cs, c, <<c, calls[c] + 1>>) OBVIOUS
<1>3. PICK ls : ls = Link(cs, w) OBVIOUS
<1>4. PICK v : v = IF NoIdFound(cs, c) THEN ls[c].id ELSE i OBVIOUS
<1>5. /\ Call(c, r) /\ Usable(conn, queue[r.names[1]].workers, r.wid) # {}
      /\ conn' = Send([ls EXCEPT ![c].id = IF NoIdFound(cs, c) THEN @ ELSE i], c)
  BY <1>1, <1>2, <1>3 DEF RecvCallReject
<1>6. /\ Tell({c}, conn, cs) /\ cs \in Objects /\ Fresh(cs[c]) /\ adding' = Idle
      /\ Arrives(c, r) /\ IInv
  BY <1>1, <1>5, CalledFresh
<1>7. w \in Conns /\ i \in AllIds BY <1>1, <1>2, <1>5, LoopFacts, CallFinds
<1>8. ls \in Objects /\ Faces(cs, ls) BY <1>3, <1>6, <1>7, LinkDoes, HelperFaces
<1>9. ls[c] \in ConnType BY <1>8 DEF Objects
<1>10. v \in AllIds \cup {None} BY <1>4, <1>7, <1>9, ObjectFields
<1>11. PICK es : es = IdSet(ls, c, v) OBVIOUS
<1>12. es \in Objects /\ Faces(ls, es) BY <1>8, <1>10, <1>11, IdDoes, FieldFaces DEF IdSet
<1>13. conn' = Send(es, c)
  <2>1. [ls EXCEPT ![c].id = IF NoIdFound(cs, c) THEN @ ELSE i] = es
    BY <1>4, <1>8, <1>11 DEF IdSet, Objects
  <2> QED BY <1>5, <2>1
<1>14. Faces(cs, es) BY <1>8, <1>12, FacesTrans
<1>15. Fresh(es[c])
  <2>1. Face(cs[c], es[c]) BY <1>14 DEF Faces
  <2> QED BY <1>6, <2>1, FreshReplies
<1>16. Tell({c}, conn, es)
  <2>1. Tell({c}, cs, es) BY <1>14, FacesTell
  <2> QED BY <1>6, <2>1, TellTrans
<1> QED BY <1>6, <1>12, <1>13, <1>15, <1>16, RepliesSettle

LEMMA RecvCallEnqueueSettles ==
    ASSUME AllSettled, CallBodies, LoopStep, NEW c \in Conns, NEW r \in Requests[c],
           RecvCallEnqueue(c, r)
    PROVE  AllSettled'
<1>1. PICK cs : cs = CallState(c, r) OBVIOUS
<1>2. /\ Call(c, r)
      /\ conn' = IF r.op = "async" THEN Send(cs, c)
                 ELSE Link(SetStatus(cs, c, "client_wait_result"), c)
  BY <1>1 DEF RecvCallEnqueue
<1>3. /\ Tell({c}, conn, cs) /\ cs \in Objects /\ Fresh(cs[c]) /\ adding' = Idle
      /\ cs[c].json = r.json /\ Arrives(c, r) /\ IInv
  BY <1>1, <1>2, CalledFresh
<1>4. CASE r.op = "async"
  <2>1. conn' = Send(cs, c) BY <1>2, <1>4
  <2> QED BY <1>3, <2>1, RepliesSettle
<1>5. CASE r.op # "async"
  <2>1. PICK s \in Statuses : s = "client_wait_result" BY Values
  <2>2. PICK ds : ds = SetStatus(cs, c, s) OBVIOUS
  <2>3. conn' = Link(ds, c) BY <1>2, <1>5, <2>1, <2>2
  <2>4. /\ ds \in Objects /\ \A d \in Conns : d # c => ds[d] = cs[d]
        /\ Switched(cs[c], ds[c], s)
    BY <1>3, <2>2, StatusDoes, StatusFaces
  <2>5. Faces(ds, conn') BY <2>3, <2>4, HelperFaces
  <2>6. Tell({c}, conn, conn')
    <3>1. Tell({c}, cs, ds) BY <2>4, TellOne
    <3>2. Tell({c}, ds, conn') BY <2>5, FacesTell
    <3>3. Tell({c}, conn, ds) BY <1>3, <3>1, TellTrans
    <3> QED BY <3>2, <3>3, TellTrans
  <2>7. r.op = "call"
    <3>1. r.op \in {"call", "async"} BY <1>2 DEF Call, Plain
    <3> QED BY <1>5, <3>1
  <2>8. r.json # "malformed" BY <2>7 DEF CallBodies
  <2>9. Settled(conn'[c], 1, FALSE)
    <3>1. PICK x, y, z : x = cs[c] /\ y = ds[c] /\ z = conn'[c] OBVIOUS
    <3>2. Fresh(x) /\ Switched(x, y, "client_wait_result") /\ Face(y, z) /\ x.json = r.json
      BY <1>3, <2>1, <2>4, <2>5, <3>1 DEF Faces
    <3>3. Expects(z, 1)
      BY <2>8, <3>2 DEF Fresh, Switched, Face, Expects, WaitStatuses, WaitsFor
    <3>4. OneName => Len(z.names) <= 1 BY <3>2 DEF Fresh, Switched, Face
    <3>5. z.status = "client_wait_result" BY <3>2 DEF Switched, Face
    <3>6. Settled(z, 1, FALSE) BY <3>3, <3>4, <3>5 DEF Settled
    <3> QED BY <3>1, <3>6
  <2> QED BY <1>3, <2>6, <2>9, ArrivalSettles
<1> QED BY <1>4, <1>5

\* A worker that waits, and gets something.
LEMMA WaiterIs ==
    ASSUME AllSettled, IInv, adding = Idle, NEW w \in Conns, NEW x, Tells(conn[w], x),
           x.sock = "open", x.status = "worker_wait_job"
    PROVE  /\ Settled(x, owed[w], FALSE) /\ owed[w] = 1
           /\ x.out = 0 /\ ~x.wr /\ x.dm = 0 /\ (OneName => Len(x.names) <= 1)
<1>1. PICK b, o, y : b = (w = adding.conn) /\ o = owed[w] /\ y = conn[w] OBVIOUS
<1>2. b = FALSE BY <1>1, NoneAssumption DEF Idle
<1>3. y.sock = "open" BY <1>1 DEF Tells
<1>4. Settled(conn[w], owed[w], w = adding.conn) BY <1>1, <1>3 DEF AllSettled, Open
<1>5. Settled(y, o, FALSE) BY <1>1, <1>2, <1>4
<1>6. y.out \in Int
  <2>1. conn[w] \in ConnType BY DEF IInv, ConnInv, ModeType
  <2> QED BY <1>1, <2>1, ObjectFields
<1>7. Tells(y, x) BY <1>1
<1>8. Settled(x, o, FALSE) BY <1>5, <1>6, <1>7, SettledTells
<1>9. Expects(x, o) /\ (OneName => Len(x.names) <= 1)
  BY <1>8 DEF Settled, Rests, Replies, WaitStatuses
<1> QED BY <1>1, <1>8, <1>9 DEF Expects

LEMMA GetsReplied ==
    ASSUME NEW x, NEW y, NEW z, NEW t, x.out = 0, OneName => Len(x.names) <= 1,
           Sent(x, y), Switched(y, z, t), t \notin WaitStatuses,
           t = "worker_mode_async" => x.wm
    PROVE  Replied(z)
  BY DEF Sent, Switched, Replied

\* Connections a and b get statuses s and t.
Half(xs, ds, a, s) ==
    Switched(xs[a], ds[a], s) /\ \A d \in Conns : d # a => Face(xs[d], ds[d])
Both(xs, ds, a, s, b, t) ==
    /\ Switched(xs[a], ds[a], s) /\ Switched(xs[b], ds[b], t)
    /\ \A d \in Conns : d # a /\ d # b => Face(xs[d], ds[d])

LEMMA HalfStatus ==
    ASSUME NEW xs, NEW us \in Objects, Faces(xs, us), NEW a \in Conns, NEW s
    PROVE  Half(xs, SetStatus(us, a, s), a, s)
<1>1. PICK ds : ds = SetStatus(us, a, s) OBVIOUS
<1>2. Switched(us[a], ds[a], s) /\ \A d \in Conns : d # a => ds[d] = us[d]
  BY <1>1, StatusFaces
<1>3. Switched(xs[a], ds[a], s) BY <1>2 DEF Switched, Faces, Face
<1>4. Half(xs, ds, a, s) BY <1>2, <1>3 DEF Half, Faces
<1> QED BY <1>1, <1>4

LEMMA HalfFaces ==
    ASSUME NEW xs, NEW us, NEW ds, NEW a \in Conns, NEW s, Half(xs, us, a, s), Faces(us, ds)
    PROVE  Half(xs, ds, a, s)
<1>1. Switched(xs[a], ds[a], s) BY DEF Switched, Half, Faces, Face
<1>2. ASSUME NEW d \in Conns, d # a PROVE Face(xs[d], ds[d])
  BY <1>2 DEF Half, Faces, Face
<1> QED BY <1>1, <1>2 DEF Half

LEMMA BothStatus ==
    ASSUME NEW xs, NEW us \in Objects, NEW a \in Conns, NEW s, NEW b \in Conns, NEW t,
           a # b, Half(xs, us, a, s)
    PROVE  Both(xs, SetStatus(us, b, t), a, s, b, t)
<1>1. PICK ds : ds = SetStatus(us, b, t) OBVIOUS
<1>2. Switched(us[b], ds[b], t) /\ \A d \in Conns : d # b => ds[d] = us[d]
  BY <1>1, StatusFaces
<1>3. Switched(xs[b], ds[b], t)
  <2>1. Face(xs[b], us[b]) BY DEF Half
  <2> QED BY <1>2, <2>1 DEF Switched, Face
<1>4. Switched(xs[a], ds[a], s) BY <1>2 DEF Half
<1>5. ASSUME NEW d \in Conns, d # a, d # b PROVE Face(xs[d], ds[d])
  BY <1>2, <1>5 DEF Half
<1>6. Both(xs, ds, a, s, b, t) BY <1>3, <1>4, <1>5 DEF Both
<1> QED BY <1>1, <1>6

LEMMA BothFaces ==
    ASSUME NEW xs, NEW us, NEW ds, NEW a \in Conns, NEW s, NEW b \in Conns, NEW t,
           Both(xs, us, a, s, b, t), Faces(us, ds)
    PROVE  Both(xs, ds, a, s, b, t) /\ Both(xs, ds, b, t, a, s)
<1>1. Switched(xs[a], ds[a], s) BY DEF Switched, Both, Faces, Face
<1>2. Switched(xs[b], ds[b], t) BY DEF Switched, Both, Faces, Face
<1>3. ASSUME NEW d \in Conns, d # a, d # b PROVE Face(xs[d], ds[d])
  BY <1>3 DEF Both, Faces, Face
<1> QED BY <1>1, <1>2, <1>3 DEF Both

LEMMA ClaimedFaces ==
    ASSUME NEW cs \in Objects, NEW w \in Conns, NEW c \in Conns
    PROVE  Faces(cs, Claimed(cs, w, c)) /\ Claimed(cs, w, c) \in Objects
<1>1. PICK us : us = [cs EXCEPT ![w].client = c] OBVIOUS
<1>2. Faces(cs, us) BY <1>1, FieldFaces
<1>3. us \in Objects
  <2>1. PICK x : x = [cs[w] EXCEPT !.client = c] OBVIOUS
  <2>2. cs[w] \in ConnType BY DEF Objects
  <2>3. x \in ConnType BY <2>1, <2>2, FieldType
  <2> QED BY <1>1, <2>1, <2>3 DEF Objects
<1>4. Faces(cs, Link(us, c))
  <2>1. Faces(us, Link(us, c)) BY <1>3, HelperFaces
  <2> QED BY <1>2, <2>1, FacesTrans
<1>5. Faces(cs, cs) BY DEF Faces, Face
<1>6. Claimed(cs, w, c) \in Objects BY ClaimedDoes
<1> QED BY <1>1, <1>4, <1>5, <1>6 DEF Claimed

\* A call goes to a worker that waits: the worker is answered.
LEMMA GivenSettles ==
    ASSUME AllSettled, IInv, NEW c \in Conns, NEW r, Arrives(c, r), adding' = Idle,
           NEW w \in Conns, w # c, NEW cs \in Objects, Tell({c}, conn, cs),
           Fresh(cs[c]), cs[w].sock = "open", cs[w].status = "worker_wait_job",
           NEW xs, xs = Send(cs, w), NEW s, NEW t, Both(xs, conn', c, s, w, t),
           t \notin WaitStatuses, t = "worker_mode_async" => cs[w].wm,
           s = "client_wait_result", cs[c].json # "malformed"
    PROVE  AllSettled'
<1>1. /\ adding = Idle /\ owed'[c] = 1 /\ \A d \in Conns : d # c => owed'[d] = owed[d]
  BY ArrivesFresh
<1>2. Sent(cs[w], xs[w]) /\ \A d \in Conns : d # w => xs[d] = cs[d] BY SendFaces
<1>3. Settled(conn'[w], 1, FALSE) /\ owed[w] = 1
  <2>1. Tells(conn[w], cs[w]) BY DEF Tell
  <2>2. owed[w] = 1 /\ cs[w].out = 0 /\ (OneName => Len(cs[w].names) <= 1)
    BY <1>1, <2>1, WaiterIs
  <2>3. Switched(xs[w], conn'[w], t) BY DEF Both
  <2>4. Replied(conn'[w]) BY <1>2, <2>2, <2>3, GetsReplied
  <2> QED BY <2>2, <2>4, RepliedStays
<1>4. Settled(conn'[c], 1, FALSE)
  <2>1. PICK x, z : x = cs[c] /\ z = conn'[c] OBVIOUS
  <2>2. xs[c] = x BY <1>2, <2>1
  <2>3. Fresh(x) /\ Switched(x, z, "client_wait_result") /\ x.json # "malformed"
    BY <2>1, <2>2 DEF Both
  <2>4. Expects(z, 1) BY <2>3 DEF Fresh, Switched, Expects, WaitStatuses, WaitsFor
  <2>5. OneName => Len(z.names) <= 1 BY <2>3 DEF Fresh, Switched
  <2>6. z.status = "client_wait_result" BY <2>3 DEF Switched
  <2> QED BY <2>1, <2>4, <2>5, <2>6 DEF Settled
<1>5. PICK W : W = {c, w} OBVIOUS
<1>6. Tell(W, conn, conn')
  <2> SUFFICES ASSUME NEW d \in Conns, d \notin W PROVE Tells(conn[d], conn'[d]) BY DEF Tell
  <2>1. d # c /\ d # w BY <1>5
  <2>2. Face(cs[d], conn'[d])
    <3>1. Face(xs[d], conn'[d]) BY <2>1 DEF Both
    <3> QED BY <1>2, <2>1, <3>1
  <2>3. Tells(conn[d], cs[d]) BY <2>1 DEF Tell
  <2> QED BY <2>2, <2>3, FaceTells, TellsTrans
<1>7. \A d \in Conns : d # adding.conn /\ d # adding'.conn BY <1>1, NoneAssumption DEF Idle
<1>8. ASSUME NEW d \in Conns, d \in W PROVE Settled(conn'[d], owed'[d], d = adding'.conn)
  <2>1. PICK b : b = (d = adding'.conn) OBVIOUS
  <2>2. b = FALSE BY <1>7, <2>1
  <2>3. Settled(conn'[d], 1, FALSE) BY <1>3, <1>4, <1>5, <1>8
  <2>4. owed'[d] = 1 BY <1>1, <1>3, <1>5, <1>8
  <2> QED BY <2>1, <2>2, <2>3, <2>4
<1>9. \A d \in Conns \ W : owed'[d] = owed[d] /\ (d = adding'.conn <=> d = adding.conn)
  BY <1>1, <1>5, <1>7
<1> QED BY <1>6, <1>8, <1>9, SettledKept

LEMMA RecvCallGiveSettles ==
    ASSUME AllSettled, CallBodies, LoopStep, NEW c \in Conns, NEW r \in Requests[c],
           RecvCallGive(c, r)
    PROVE  AllSettled'
<1>1. PICK n, w, cs : n = r.names[1] /\ w = Taken(r) /\ cs = CallState(c, r) OBVIOUS
<1>2. PICK j : j = <<c, calls[c] + 1>> OBVIOUS
<1>3. PICK i : i = CallId(cs, c, j) OBVIOUS
<1>4. PICK xs : xs = Send(cs, w) OBVIOUS
<1>5. PICK zs : zs = IF cs[w].noid \/ cs[w].fail
                     THEN Link([xs EXCEPT ![w].client = c], c) ELSE xs
  OBVIOUS
<1>6. /\ Call(c, r) /\ Usable(conn, queue[n].workers, r.wid) # {}
      /\ \/ /\ r.op = "async"
            /\ conn' = Send(SetStatus(xs, w, AfterAsync(cs, w)), c)
         \/ /\ r.op = "call" /\ cs[w].noid
            /\ conn' = SetStatus(SetStatus(zs, c, "client_wait_result"),
                                 w, "worker_wait_result")
         \/ /\ r.op = "call" /\ ~cs[w].noid
            /\ conn' = Link([zs EXCEPT ![c].id = i, ![w].status = "net",
                                       ![c].status = "client_wait_result"], c)
  BY <1>1, <1>2, <1>3, <1>4, <1>5 DEF RecvCallGive
<1>7. IInv /\ LinkState BY LoopFacts
<1>8. /\ Tell({c}, conn, cs) /\ cs \in Objects /\ Fresh(cs[c]) /\ adding' = Idle
      /\ cs[c].json = r.json /\ adding = Idle /\ Arrives(c, r)
  BY <1>1, <1>6, CalledFresh
<1>9. w \in Conns /\ w # c /\ Waits(cs[w]) /\ i \in AllIds
  BY <1>1, <1>2, <1>3, <1>6, <1>7, CallFinds
<1>10. cs[w].sock = "open" /\ cs[w].status = "worker_wait_job" BY <1>9 DEF Waits
<1>11. /\ xs \in Objects /\ Sent(cs[w], xs[w])
       /\ \A d \in Conns : d # w => xs[d] = cs[d]
  BY <1>4, <1>8, <1>9, SendDoes, SendFaces
<1>12. Faces(xs, zs) /\ zs \in Objects
  <2>1. Joining(cs[w])
    <3>1. Sound({}, cs, wait, Shortened(r)) BY <1>1, <1>6, <1>7, CallStateSound
    <3> QED BY <1>9, <3>1, WaitsJoining
  <2>2. xs[w].fail = cs[w].fail BY <1>4, <1>8, <1>9, SendDoes DEF Alike, Same
  <2>3. zs = Claimed(xs, w, c) BY <1>5, <2>1, <2>2 DEF Joining, Claimed
  <2> QED BY <1>9, <1>11, <2>3, ClaimedFaces
<1>13. PICK s \in Statuses : s = "client_wait_result" BY Values
<1>14. CASE r.op = "async"
  <2>1. PICK t \in Statuses : t = AfterAsync(cs, w)
    <3>1. AfterAsync(cs, w) \in {"net", "worker_mode_async"} BY AfterAsyncIs
    <3>2. "net" \in Statuses /\ "worker_mode_async" \in Statuses BY Values
    <3> QED BY <3>1, <3>2
  <2>2. t \notin WaitStatuses /\ (t = "worker_mode_async" => cs[w].wm)
    BY <2>1 DEF AfterAsync, WaitStatuses, WaitsFor
  <2>3. PICK ds : ds = SetStatus(xs, w, t) OBVIOUS
  <2>4. /\ ds \in Objects /\ Switched(xs[w], ds[w], t)
        /\ \A d \in Conns : d # w => ds[d] = xs[d]
    BY <1>9, <1>11, <2>3, StatusDoes, StatusFaces, ZenonT(60)
  <2>5. conn' = Send(ds, c)
    <3>1. r.op # "call" BY <1>14
    <3> QED BY <1>6, <2>1, <2>3, <3>1
  <2>6. Sent(ds[c], conn'[c]) /\ \A d \in Conns : d # c => conn'[d] = ds[d]
    BY <2>4, <2>5, SendFaces
  <2>7. Settled(conn'[w], 1, FALSE) /\ owed[w] = 1
    <3>1. Tells(conn[w], cs[w]) BY <1>8, <1>9 DEF Tell
    <3>2. owed[w] = 1 /\ cs[w].out = 0 /\ (OneName => Len(cs[w].names) <= 1)
      BY <1>7, <1>8, <1>9, <1>10, <3>1, WaiterIs
    <3>3. conn'[w] = ds[w] BY <1>9, <2>6
    <3>4. Replied(conn'[w]) BY <1>11, <2>2, <2>4, <3>2, <3>3, GetsReplied
    <3> QED BY <3>2, <3>4, RepliedStays
  <2>8. Settled(conn'[c], 1, FALSE)
    <3>1. ds[c] = cs[c] BY <1>9, <1>11, <2>4
    <3>2. Replied(conn'[c]) BY <1>8, <2>6, <3>1, FreshReplies
    <3> QED BY <3>2, RepliedStays
  <2>9. PICK W : W = {c, w} OBVIOUS
  <2>10. /\ owed'[c] = 1 /\ \A d \in Conns : d # c => owed'[d] = owed[d]
    BY <1>7, <1>8, ArrivesFresh
  <2>11. Tell(W, conn, conn')
    <3> SUFFICES ASSUME NEW d \in Conns, d \notin W PROVE Tells(conn[d], conn'[d]) BY DEF Tell
    <3>1. d # c /\ d # w BY <2>9
    <3>2. conn'[d] = cs[d] BY <1>11, <2>4, <2>6, <3>1
    <3>3. Tells(conn[d], cs[d]) BY <1>8, <3>1 DEF Tell
    <3> QED BY <3>2, <3>3
  <2>12. \A d \in Conns : d # adding.conn /\ d # adding'.conn
    BY <1>8, NoneAssumption DEF Idle
  <2>13. ASSUME NEW d \in Conns, d \in W PROVE Settled(conn'[d], owed'[d], d = adding'.conn)
    <3>1. PICK b : b = (d = adding'.conn) OBVIOUS
    <3>2. b = FALSE BY <2>12, <3>1
    <3>3. Settled(conn'[d], 1, FALSE) BY <2>7, <2>8, <2>9, <2>13
    <3>4. owed'[d] = 1 BY <1>9, <2>7, <2>9, <2>10, <2>13
    <3> QED BY <3>1, <3>2, <3>3, <3>4
  <2>14. \A d \in Conns \ W : owed'[d] = owed[d] /\ (d = adding'.conn <=> d = adding.conn)
    BY <2>9, <2>10, <2>12
  <2> QED BY <1>7, <2>11, <2>13, <2>14, SettledKept
<1>15. CASE r.op = "call"
  <2>1. PICK t \in Statuses : t = IF cs[w].noid THEN "worker_wait_result" ELSE "net" BY Values
  <2>2. t \notin WaitStatuses /\ t # "worker_mode_async"
    BY <2>1 DEF WaitStatuses, WaitsFor
  <2>3. cs[c].json # "malformed" BY <1>8, <1>15 DEF CallBodies
  <2>4. Both(xs, conn', c, s, w, t)
    <3>1. CASE cs[w].noid
      <4>1. conn' = SetStatus(SetStatus(zs, c, s), w, t)
        <5>1. t = "worker_wait_result" /\ r.op # "async" BY <1>15, <2>1, <3>1
        <5> QED BY <1>6, <1>13, <3>1, <5>1
      <4>2. PICK us : us = SetStatus(zs, c, s) OBVIOUS
      <4>3. us \in Objects /\ Half(xs, us, c, s) BY <1>12, <4>2, StatusDoes, HalfStatus
      <4>4. Both(xs, SetStatus(us, w, t), c, s, w, t) BY <1>9, <4>3, BothStatus
      <4> QED BY <4>1, <4>2, <4>4
    <3>2. CASE ~cs[w].noid
      <4>1. t = "net" /\ r.op # "async" BY <1>15, <2>1, <3>2
      <4>2. PICK v \in AllIds \cup {None} : v = i BY <1>9
      <4>3. PICK us : us = IdSet(zs, c, v) OBVIOUS
      <4>4. PICK vs : vs = SetStatus(us, w, t) OBVIOUS
      <4>5. PICK ys : ys = SetStatus(vs, c, s) OBVIOUS
      <4>6. conn' = Link(ys, c)
        <5>1. conn' = Link([zs EXCEPT ![c].id = i, ![w].status = "net",
                                      ![c].status = "client_wait_result"], c)
          BY <1>6, <3>2, <4>1
        <5>2. [zs EXCEPT ![c].id = i, ![w].status = "net",
                         ![c].status = "client_wait_result"] = ys
          BY <1>13, <4>1, <4>2, <4>3, <4>4, <4>5, Zenon DEF SetStatus, IdSet
        <5> QED BY <5>1, <5>2
      <4>7. us \in Objects /\ Faces(xs, us)
        <5>1. us \in Objects /\ Faces(zs, us)
          BY <1>12, <4>3, IdDoes, FieldFaces DEF IdSet
        <5> QED BY <1>12, <5>1, FacesTrans
      <4>8. vs \in Objects /\ Half(xs, vs, w, t)
        BY <1>9, <4>4, <4>7, StatusDoes, HalfStatus
      <4>9. ys \in Objects /\ Both(xs, ys, w, t, c, s)
        BY <1>9, <4>5, <4>8, StatusDoes, BothStatus
      <4>10. Faces(ys, conn') BY <4>6, <4>9, HelperFaces
      <4> QED BY <1>9, <4>9, <4>10, BothFaces
    <3> QED BY <3>1, <3>2
  <2> QED BY <1>4, <1>7, <1>8, <1>9, <1>10, <1>13, <2>2, <2>3, <2>4, GivenSettles
<1> QED BY <1>6, <1>14, <1>15

-----------------------------------------------------------------------------
(* Every connection stays settled: messages and workers *)

LEMMA RecvPubSettles ==
    ASSUME AllSettled, LoopStep, NEW c \in Conns, NEW r \in Requests[c], RecvPub(c, r)
    PROVE  AllSettled'
<1>1. PICK cs, n : cs = Start(conn, c, r) /\ n = r.names[1] OBVIOUS
<1>2. PICK A : A = {w \in ListOf(cs, n) : cs[w].status = "worker_wait_job"} OBVIOUS
<1>3. PICK B : B = {w \in ListOf(cs, n) \ A : cs[w].noid} OBVIOUS
<1>4. PICK ds : ds = [w \in Conns |->
                        IF w \in A
                        THEN [cs[w] EXCEPT !.status = AfterAsync(cs, w), !.dm = @ + 1, !.wr = TRUE]
                        ELSE IF w \in B THEN [cs[w] EXCEPT !.dm = @ + 1]
                        ELSE cs[w]]
  OBVIOUS
<1>5. /\ Plain(c, r, {"pub"}) /\ conn' = Send(IF queue[n].ex THEN ds ELSE cs, c)
      /\ adding' = adding
  BY <1>1, <1>2, <1>3, <1>4 DEF RecvPub
<1>6. Parsed(c, r) /\ cs[c].status = "net" /\ ~cs[c].noid
  BY <1>1, <1>5, LoopFacts, PlainLinks
<1>7. /\ Tell({c}, conn, cs) /\ cs \in Objects /\ Fresh(cs[c]) /\ adding = Idle
      /\ Arrives(c, r) /\ IInv
  BY <1>1, <1>6, BegunFresh
<1>8. CASE ~queue[n].ex
  <2>1. conn' = Send(cs, c) BY <1>5, <1>8
  <2> QED BY <1>5, <1>7, <2>1, RepliesSettle
<1>9. CASE queue[n].ex
  <2>1. conn' = Send(ds, c) BY <1>5, <1>9
  <2>2. ds[c] = cs[c] BY <1>2, <1>3, <1>4, <1>6
  <2>3. /\ Sent(cs[c], conn'[c]) /\ \A d \in Conns : d # c => conn'[d] = ds[d]
    <3>1. \A d \in Conns : d # c => conn'[d] = ds[d] BY <1>4, <2>1 DEF Send
    <3>2. cs[c] \in ConnType BY <1>7 DEF Objects
    <3>3. conn'[c] = [cs[c] EXCEPT !.out = @ + 1, !.wr = TRUE] BY <1>4, <2>1, <2>2 DEF Send
    <3> QED BY <3>1, <3>2, <3>3 DEF Sent, ConnType
  <2>4. owed'[c] = 1 /\ \A d \in Conns : d # c => owed'[d] = owed[d] BY <1>7, ArrivesFresh
  <2>5. \A d \in Conns : d # adding.conn /\ d # adding'.conn
    BY <1>5, <1>7, NoneAssumption DEF Idle
  <2>6. Settled(conn'[c], 1, FALSE)
    <3>1. Replied(conn'[c]) BY <1>7, <2>3, FreshReplies
    <3> QED BY <3>1, RepliedStays
  <2>7. ASSUME NEW d \in Conns, d # c, conn'[d].sock = "open"
        PROVE  Settled(conn'[d], owed[d], FALSE)
    <3>1. PICK x, y, o : x = cs[d] /\ y = conn'[d] /\ o = owed[d] OBVIOUS
    <3>2. x \in ConnType /\ y = ds[d] BY <1>7, <2>3, <2>7, <3>1 DEF Objects
    <3>3. x.dm \in Int /\ x.out \in Int BY <3>2, ObjectFields
    <3>4. y.sock = x.sock
      BY <1>4, <3>1, <3>2 DEF ConnType
    <3>5. Tells(conn[d], x) BY <1>7, <2>7, <3>1 DEF Tell
    <3>6. Settled(x, o, FALSE)
      <4>1. PICK z : z = conn[d] OBVIOUS
      <4>2. z.sock = "open" BY <2>7, <3>1, <3>4, <3>5, <4>1 DEF Tells
      <4>3. PICK b : b = (d = adding.conn) OBVIOUS
      <4>4. b = FALSE BY <2>5, <4>3
      <4>5. Settled(conn[d], owed[d], d = adding.conn) BY <4>1, <4>2 DEF AllSettled, Open
      <4>6. Settled(z, o, FALSE) BY <3>1, <4>1, <4>3, <4>4, <4>5
      <4>7. z.out \in Int
        <5>1. conn[d] \in ConnType BY <1>7 DEF IInv, ConnInv, ModeType
        <5> QED BY <4>1, <5>1, ObjectFields
      <4>8. x.sock = "open" BY <2>7, <3>1, <3>4
      <4> QED BY <3>5, <4>1, <4>6, <4>7, <4>8, SettledTells
    <3>7. CASE d \in A
      <4>1. PICK s : s = AfterAsync(cs, d) OBVIOUS
      <4>2. s \in {"net", "worker_mode_async"} /\ (s = "worker_mode_async" => x.wm)
        BY <3>1, <4>1 DEF AfterAsync
      <4>3. y = [x EXCEPT !.status = s, !.dm = @ + 1, !.wr = TRUE]
        BY <1>4, <3>1, <3>2, <3>7, <4>1
      <4>4. /\ y.status = s /\ y.dm = x.dm + 1 /\ y.wr = TRUE /\ y.out = x.out
            /\ y.wm = x.wm /\ y.names = x.names
        BY <3>2, <4>3 DEF ConnType
      <4>5. x.status = "worker_wait_job" BY <1>2, <3>1, <3>7
      <4>6. x.out = 0 /\ x.dm = 0
        BY <3>6, <4>5 DEF Settled, Rests, Expects, Replies, WaitStatuses
      <4>7. y.out = 0 /\ y.dm > 0 BY <4>4, <4>6
      <4>8. y.status \in {"net", "worker_mode_async"}
            /\ (y.status = "worker_mode_async" => y.wm) BY <4>2, <4>4
      <4>9. Settled(y, o, FALSE) BY <3>6, <4>4, <4>5, <4>7, <4>8, ToldSettles
      <4> QED BY <3>1, <4>9
    <3>8. CASE d \notin A /\ d \in B
      <4>1. y = [x EXCEPT !.dm = @ + 1] BY <1>4, <3>1, <3>2, <3>8
      <4>2. /\ y.status = x.status /\ y.dm = x.dm + 1 /\ y.wr = x.wr /\ y.out = x.out
            /\ y.wm = x.wm /\ y.names = x.names /\ y.json = x.json
        BY <3>2, <4>1 DEF ConnType
      <4>3. x.status # "worker_wait_job" BY <1>2, <1>3, <3>1, <3>8
      <4>4. x.dm > 0 => y.dm > 0 BY <3>3, <4>2
      <4>5. Settled(y, o, FALSE)
        BY <3>6, <4>2, <4>3, <4>4 DEF Settled, Rests, Expects, Replies
      <4> QED BY <3>1, <4>5
    <3>9. CASE d \notin A /\ d \notin B
      <4>1. y = x BY <1>4, <3>1, <3>2, <3>9
      <4> QED BY <3>1, <3>6, <4>1
    <3> QED BY <3>7, <3>8, <3>9
  <2>8. ASSUME NEW d \in Conns, conn'[d].sock = "open"
        PROVE  Settled(conn'[d], owed'[d], d = adding'.conn)
    <3>1. PICK b : b = (d = adding'.conn) OBVIOUS
    <3>2. b = FALSE BY <2>5, <3>1
    <3>3. Settled(conn'[d], owed'[d], FALSE) BY <2>4, <2>6, <2>7, <2>8
    <3> QED BY <3>1, <3>2, <3>3
  <2> QED BY <2>8 DEF AllSettled, Open
<1> QED BY <1>8, <1>9

\* What a worker that is added has left, and what a scan of the queue changes.
LEMMA LeavesSettled ==
    ASSUME AllSettled, LoopStep, NEW w \in Conns, NEW n \in Names, Adding(w, n),
           NEW cs, cs = LeaveOther(conn, w, n), NEW t, t = queue[n].clients,
           NEW as, as = AfterScan(cs, wait, w, t)
    PROVE  /\ IInv /\ w = adding.conn /\ cs \in Objects /\ as \in Objects
           /\ cs[w].sock = "open" /\ as[w].sock = "open"
           /\ Tell({w}, conn, cs) /\ Tell({w}, conn, as)
           /\ Settled(cs[w], owed[w], TRUE) /\ Face(cs[w], as[w])
<1>1. IInv /\ LinkState /\ conn \in Objects BY LoopFacts
<1>2. cs \in Objects /\ as \in Objects /\ Joining(cs[w]) /\ Joining(as[w]) BY ScanGoes
<1>3. w = adding.conn BY DEF Adding
<1>4. cs[w].sock = "open" /\ as[w].sock = "open" /\ cs[w].status \notin WaitsFor
  BY <1>2 DEF Joining
<1>5. PICK x, y, o : x = conn[w] /\ y = cs[w] /\ o = owed[w] OBVIOUS
<1>6. /\ Tell({w}, conn, cs)
      /\ y.sock = x.sock /\ y.status = x.status /\ y.out = x.out /\ y.wr = x.wr
      /\ y.wm = x.wm /\ y.names = x.names /\ y.json = x.json /\ y.dm \in {0, x.dm}
  BY <1>1, <1>5, LeaveTell
<1>7. Settled(x, o, TRUE)
  <2>1. PICK b : b = (w = adding.conn) OBVIOUS
  <2>2. b = TRUE BY <1>3, <2>1
  <2>3. conn[w].sock = "open" BY <1>4, <1>5, <1>6
  <2>4. Settled(conn[w], owed[w], w = adding.conn) BY <2>3 DEF AllSettled, Open
  <2> QED BY <1>5, <2>1, <2>2, <2>4
<1>8. Settled(y, o, TRUE) BY <1>6, <1>7 DEF Settled, Enlists
<1>9. ASSUME NEW d \in Conns, cs[d].sock = "open", cs[d].status = "client_wait_result"
      PROVE  cs[d].json # "malformed"
  <2>1. d # w BY <1>4, <1>9 DEF WaitsFor
  <2>2. PICK u, v, k, b : u = conn[d] /\ v = cs[d] /\ k = owed[d] /\ b = (d = adding.conn)
    OBVIOUS
  <2>3. b = FALSE BY <1>3, <2>1, <2>2
  <2>4. Tells(u, v) BY <1>6, <2>1, <2>2 DEF Tell
  <2>5. u.sock = "open" BY <1>9, <2>2, <2>4 DEF Tells
  <2>6. Settled(conn[d], owed[d], d = adding.conn) BY <2>2, <2>5 DEF AllSettled, Open
  <2>7. Settled(u, k, FALSE) BY <2>2, <2>3, <2>6
  <2>8. u.out \in Int
    <3>1. conn[d] \in ConnType BY <1>1 DEF Objects
    <3> QED BY <2>2, <3>1, ObjectFields
  <2>9. v.sock = "open" /\ v.status = "client_wait_result" BY <1>9, <2>2
  <2>10. Settled(v, k, FALSE) BY <2>4, <2>7, <2>8, <2>9, SettledTells
  <2>11. v.json # "malformed"
    BY <2>9, <2>10 DEF Settled, Rests, Expects, Replies, WaitStatuses, WaitsFor
  <2> QED BY <2>2, <2>11
<1>10. /\ Tell({}, cs, as)
       /\ \A d \in Conns : cs[d].status # "client_wait_result" => Face(cs[d], as[d])
  BY <1>2, <1>9, ScanTell
<1>11. Face(cs[w], as[w])
  <2>1. cs[w].status # "client_wait_result" BY <1>4 DEF WaitsFor
  <2> QED BY <1>10, <2>1
<1>12. Tell({w}, conn, as)
  <2>1. Tell({w}, cs, as) BY <1>10, TellMore
  <2> QED BY <1>6, <2>1, TellTrans
<1> QED BY <1>1, <1>2, <1>3, <1>4, <1>5, <1>6, <1>8, <1>11, <1>12

\* The worker that is added acts.
LEMMA AddedSettles ==
    ASSUME AllSettled, IInv, NEW w \in Conns, w = adding.conn, Tell({w}, conn, conn'),
           owed' = owed, adding'.conn \in {w, None}, NEW o, o = owed[w],
           NEW b, b = (adding'.conn = w), conn'[w].sock = "open" => Settled(conn'[w], o, b)
    PROVE  AllSettled'
<1>1. conn'[w].sock = "open" => Settled(conn'[w], owed'[w], w = adding'.conn)
  <2>1. PICK a : a = (w = adding'.conn) OBVIOUS
  <2>2. a = b BY <2>1
  <2>3. owed'[w] = o OBVIOUS
  <2> QED BY <2>1, <2>2, <2>3
<1>2. \A d \in Conns \ {w} : owed'[d] = owed[d] /\ (d = adding'.conn <=> d = adding.conn)
  BY NoneAssumption
<1> QED BY <1>1, <1>2, SettledKept

LEMMA AddWorkerDirectSettles ==
    ASSUME AllSettled, LoopStep, NEW w \in Conns, NEW n \in Names, AddWorkerDirect(w, n)
    PROVE  AllSettled'
<1>1. PICK cs : cs = LeaveOther(conn, w, n) OBVIOUS
<1>2. /\ Adding(w, n) /\ cs[w].dm > 0 /\ conn' = [cs EXCEPT ![w].wr = TRUE]
      /\ adding' = Idle /\ owed' = owed
  BY <1>1 DEF AddWorkerDirect, ReturnOne, history
<1>3. PICK t, as : t = queue[n].clients /\ as = AfterScan(cs, wait, w, t) OBVIOUS
<1>4. /\ IInv /\ w = adding.conn /\ cs \in Objects /\ Tell({w}, conn, cs)
      /\ Settled(cs[w], owed[w], TRUE)
  BY <1>1, <1>2, <1>3, LeavesSettled
<1>5. PICK x, y, o : x = cs[w] /\ y = conn'[w] /\ o = owed[w] OBVIOUS
<1>6. /\ \A d \in Conns : d # w => conn'[d] = cs[d]
      /\ y.out = x.out /\ y.wr = TRUE /\ y.dm = x.dm /\ y.status = x.status
      /\ y.wm = x.wm /\ y.names = x.names
  BY <1>2, <1>4, <1>5 DEF Objects, ConnType
<1>7. Settled(y, o, FALSE)
  <2>1. Settled(x, o, TRUE) /\ x.dm > 0 BY <1>2, <1>4, <1>5
  <2>2. x.dm # 0
    <3>1. cs[w] \in ConnType BY <1>4 DEF Objects
    <3>2. x.dm \in Int BY <1>5, <3>1, ObjectFields
    <3> QED BY <2>1, <3>2
  <2>3. x.status \notin WaitStatuses /\ o = 1 /\ x.out = 0
    BY <2>1, <2>2 DEF Settled, Enlists, WaitStatuses
  <2>4. Replies(y, o) BY <1>6, <2>1, <2>3 DEF Replies
  <2> QED BY <1>6, <2>1, <2>4 DEF Settled
<1>8. Tell({w}, conn, conn')
  <2>1. Tell({w}, cs, conn') BY <1>6, TellOne
  <2> QED BY <1>4, <2>1, TellTrans
<1>9. PICK b : b = (adding'.conn = w) OBVIOUS
<1>10. b = FALSE /\ adding'.conn = None BY <1>2, <1>9, NoneAssumption DEF Idle
<1>11. conn'[w].sock = "open" => Settled(conn'[w], o, b) BY <1>5, <1>7, <1>10
<1> QED BY <1>2, <1>4, <1>5, <1>8, <1>9, <1>10, <1>11, AddedSettles

LEMMA AddWorkerWaitSettles ==
    ASSUME AllSettled, LoopStep, NEW w \in Conns, NEW n \in Names, AddWorkerWait(w, n)
    PROVE  AllSettled'
<1>1. PICK cs : cs = LeaveOther(conn, w, n) OBVIOUS
<1>2. PICK s, t : s = queue[n].workers /\ t = queue[n].clients OBVIOUS
<1>3. PICK R : R = {i \in DOMAIN s : IsClosed(cs, s[i]) \/ s[i] = w} OBVIOUS
<1>4. PICK as : as = AfterScan(cs, wait, w, t) OBVIOUS
<1>5. PICK rs : rs = Release(as, s, R) OBVIOUS
<1>6. PICK ls : ls = Link(rs, w) OBVIOUS
<1>7. PICK v \in Statuses : v = "worker_wait_job" BY Values
<1>8. PICK ps : ps = SetStatus(ls, w, v) OBVIOUS
<1>9. /\ Adding(w, n) /\ cs[w].dm = 0 /\ conn' = Register(ps, w, n)
      /\ adding' = NextName /\ owed' = owed
  BY <1>1, <1>2, <1>3, <1>4, <1>5, <1>6, <1>7, <1>8 DEF AddWorkerWait, history
<1>10. /\ IInv /\ w = adding.conn /\ as \in Objects /\ Tell({w}, conn, as)
       /\ Settled(cs[w], owed[w], TRUE) /\ Face(cs[w], as[w])
  BY <1>1, <1>2, <1>4, <1>9, LeavesSettled
<1>11. s \in Seq(Conns) /\ R \in Parts(s) BY <1>2, <1>3, LoopFacts, QueueFacts DEF Parts
<1>12. rs \in Objects /\ Faces(as, rs)
  <2>1. Faces(as, rs) BY <1>5, <1>10, ReleaseFaces
  <2>2. rs \in Objects BY <1>5, <1>10, <1>11, ReleaseDoes
  <2> QED BY <2>1, <2>2
<1>13. ls \in Objects /\ Faces(as, ls)
  <2>1. ls \in Objects /\ Faces(rs, ls) BY <1>6, <1>12, LinkDoes, HelperFaces
  <2> QED BY <1>12, <2>1, FacesTrans
<1>14. ps \in Objects /\ Half(as, ps, w, v) BY <1>8, <1>13, StatusDoes, HalfStatus
<1>15. Half(as, conn', w, v)
  <2>1. Faces(ps, conn') BY <1>9, <1>14, RegisterFaces
  <2> QED BY <1>14, <2>1, HalfFaces
<1>16. Tell({w}, conn, conn')
  <2> SUFFICES ASSUME NEW d \in Conns, d # w PROVE Tells(conn[d], conn'[d]) BY DEF Tell
  <2>1. Face(as[d], conn'[d]) BY <1>15 DEF Half
  <2>2. Tells(conn[d], as[d]) BY <1>10 DEF Tell
  <2> QED BY <2>1, <2>2, FaceTells, TellsTrans
<1>17. PICK x, y, z, o : x = cs[w] /\ y = as[w] /\ z = conn'[w] /\ o = owed[w] OBVIOUS
<1>18. Enlists(z, o) /\ Expects(z, o) /\ z.status = "worker_wait_job"
       /\ (OneName => Len(z.names) <= 1)
  <2>1. Settled(x, o, TRUE) /\ Face(x, y) /\ Switched(y, z, "worker_wait_job") /\ x.dm = 0
    BY <1>7, <1>9, <1>10, <1>15, <1>17 DEF Half
  <2>2. o = 1 /\ z.out = 0 /\ ~z.wr /\ z.status = "worker_wait_job" /\ z.dm = 0
    BY <2>1 DEF Settled, Enlists, Face, Switched
  <2>3. OneName => Len(z.names) <= 1 BY <2>1 DEF Settled, Face, Switched
  <2> QED BY <2>2, <2>3 DEF Enlists, Expects, WaitStatuses, WaitsFor
<1>19. PICK b : b = (adding'.conn = w) OBVIOUS
<1>20. Settled(z, o, b) BY <1>18 DEF Settled
<1>21. adding'.conn \in {w, None}
  <2>1. CASE adding' = Idle BY <2>1 DEF Idle
  <2>2. CASE adding' # Idle
    <3>1. adding' = [adding EXCEPT !.names = Tail(@)] BY <1>9, <2>2 DEF NextName
    <3>2. adding \in [conn : Conns \cup {None}, names : Seq(Names)]
      BY <1>10 DEF IInv, AddingInv
    <3> QED BY <1>10, <3>1, <3>2
  <2> QED BY <2>1, <2>2
<1> QED BY <1>9, <1>10, <1>16, <1>17, <1>19, <1>20, <1>21, AddedSettles

LEMMA AddWorkerGiveSettles ==
    ASSUME AllSettled, NoAsync \/ OneName, NoAsync => Addressed(queue),
           OneName => Len(adding.names) <= 1, LoopStep,
           NEW w \in Conns, NEW n \in Names, AddWorkerGive(w, n)
    PROVE  AllSettled'
<1>1. PICK cs : cs = LeaveOther(conn, w, n) OBVIOUS
<1>2. PICK t : t = queue[n].clients OBVIOUS
<1>3. PICK m : m = Taking(cs, w, t) OBVIOUS
<1>4. PICK c : c = m.conn OBVIOUS
<1>5. PICK as : as = AfterScan(cs, wait, w, t) OBVIOUS
<1>6. PICK xs : xs = Send(as, w) OBVIOUS
<1>7. PICK i : i = CallId(xs, c, m.job) OBVIOUS
<1>8. PICK zs : zs = [IF xs[w].fail THEN Link([xs EXCEPT ![w].client = c], c) ELSE xs
                        EXCEPT ![c].status = "busy"]
  OBVIOUS
<1>9. /\ Adding(w, n) /\ Jobs(cs, wait, w, t) # {} /\ owed' = owed
      /\ \/ /\ c = None
            /\ conn' = Register(SetStatus(xs, w, AfterAsync(xs, w)), w, n)
            /\ adding' \in {ReturnOne, NextName}
         \/ /\ c # None /\ cs[w].noid
            /\ conn' = Register(SetStatus(zs, w, "worker_wait_result"), w, n)
            /\ adding' = ReturnOne
         \/ /\ c # None /\ ~cs[w].noid
            /\ conn' = Register(Link([zs EXCEPT ![c].id = i, ![w].status = "net"], c), w, n)
            /\ adding' = ReturnOne
  BY <1>1, <1>2, <1>3, <1>4, <1>5, <1>6, <1>7, <1>8 DEF AddWorkerGive, Taking
<1>10. /\ IInv /\ w = adding.conn /\ as \in Objects /\ Tell({w}, conn, as)
       /\ Settled(cs[w], owed[w], TRUE) /\ Face(cs[w], as[w]) /\ cs \in Objects
  BY <1>1, <1>2, <1>5, <1>9, LeavesSettled
<1>11. t \in Seq(OwnedMsg) /\ \A d \in Conns : ScanKept(cs[d], as[d])
  BY <1>1, <1>2, <1>5, <1>9, ScanGoes
<1>12. Joining(as[w]) BY <1>1, <1>2, <1>5, <1>9, ScanGoes
<1>13. PICK k \in DOMAIN t : m = t[k] BY <1>3, <1>9, <1>11, TakenPlace
<1>14. m \in OwnedMsg /\ Verdict(cs, wait, w, m) = "job" BY <1>3, <1>9, <1>11, TakingIs
<1>15. /\ xs \in Objects /\ Sent(as[w], xs[w]) /\ \A d \in Conns : d # w => xs[d] = as[d]
  BY <1>6, <1>10, SendDoes, SendFaces
<1>16. adding' = Idle
  <2>1. CASE c # None BY <1>9, <2>1 DEF ReturnOne
  <2>2. CASE c = None
    <3>1. ~NoAsync BY <1>2, <1>4, <1>13, <2>2 DEF Addressed
    <3>2. Len(adding.names) <= 1 BY <3>1
    <3>3. adding.names \in Seq(Names)
      <4>1. adding \in [conn : Conns \cup {None}, names : Seq(Names)]
        BY <1>10 DEF IInv, AddingInv
      <4> QED BY <4>1
    <3>4. ~(Len(adding.names) > 1) BY <3>2, <3>3
    <3> QED BY <1>9, <2>2, <3>4 DEF ReturnOne, NextName
  <2> QED BY <2>1, <2>2
<1>17. PICK o : o = owed[w] OBVIOUS
<1>18. o = 1 /\ as[w].out = 0 /\ (OneName => Len(as[w].names) <= 1)
  BY <1>10, <1>17 DEF Settled, Enlists, Face
<1>19. \E u : Switched(xs[w], conn'[w], u) /\ u \notin WaitStatuses
              /\ (u = "worker_mode_async" => as[w].wm) /\ Tell({w}, xs, conn')
  <2>1. CASE c = None
    <3>1. PICK u : u = AfterAsync(xs, w) OBVIOUS
    <3>2. PICK ps : ps = SetStatus(xs, w, u) OBVIOUS
    <3>3. u \in Statuses
      <4>1. u \in {"net", "worker_mode_async"} BY <3>1, AfterAsyncIs
      <4>2. "net" \in Statuses /\ "worker_mode_async" \in Statuses BY Values
      <4> QED BY <4>1, <4>2
    <3>4. ps \in Objects /\ Half(xs, ps, w, u)
      <4>1. Faces(xs, xs) BY DEF Faces, Face
      <4> QED BY <1>15, <3>2, <3>3, <4>1, StatusDoes, HalfStatus
    <3>5. conn' = Register(ps, w, n) BY <1>9, <2>1, <3>1, <3>2
    <3>6. Half(xs, conn', w, u)
      <4>1. Faces(ps, conn') BY <3>4, <3>5, RegisterFaces
      <4> QED BY <3>4, <4>1, HalfFaces
    <3>7. u \notin WaitStatuses /\ (u = "worker_mode_async" => as[w].wm)
      BY <1>15, <3>1 DEF AfterAsync, WaitStatuses, WaitsFor, Sent
    <3>8. Tell({w}, xs, conn')
      <4> SUFFICES ASSUME NEW d \in Conns, d # w PROVE Tells(xs[d], conn'[d]) BY DEF Tell
      <4>1. Face(xs[d], conn'[d]) BY <3>6 DEF Half
      <4> QED BY <4>1, FaceTells
    <3> QED BY <3>6, <3>7, <3>8 DEF Half
  <2>2. CASE c # None
    <3>1. c \in Conns /\ cs[c].sock = "open" /\ cs[c].status = "client_wait_result"
      <4>1. c \in Conns \cup {None} BY <1>4, <1>14, JobIs
      <4>2. cs[c].sock = "open" /\ cs[c].status = "client_wait_result"
        BY <1>4, <1>14, <2>2, JobIs
      <4> QED BY <2>2, <4>1, <4>2
    <3>2. as[c].status = "client_wait_result"
      <4>1. PICK P \in Queues :
               \A l \in Scanned(cs, wait, w, t) :
                  Verdict(cs, wait, w, t[l]) = "job" /\ t[l].conn # None
                     => ScanTakes(cs, as, wait, P, t[l].conn)
        BY <1>1, <1>2, <1>5, <1>9, ScanGoes
      <4>2. Least(Jobs(cs, wait, w, t)) \in Scanned(cs, wait, w, t)
        BY <1>9, <1>11, TakingIs
      <4>3. ScanTakes(cs, as, wait, P, c) BY <1>3, <1>4, <1>14, <2>2, <4>1, <4>2 DEF Taking
      <4> QED BY <3>1, <4>3 DEF ScanTakes
    <3>3. c # w BY <1>12, <3>2 DEF Joining, WaitsFor
    <3>4. xs[c].status = "client_wait_result" BY <1>15, <3>1, <3>2, <3>3
    <3>5. PICK s \in Statuses : s = "busy" BY Values
    <3>6. PICK ks : ks = Claimed(xs, w, c) OBVIOUS
    <3>7. Faces(xs, ks) /\ ks \in Objects BY <1>15, <3>1, <3>6, ClaimedFaces
    <3>8. zs = SetStatus(ks, c, s) BY <1>8, <3>5, <3>6 DEF Claimed, SetStatus
    <3>9. zs \in Objects /\ Half(xs, zs, c, s) BY <3>1, <3>7, <3>8, StatusDoes, HalfStatus
    <3>10. PICK u \in Statuses : u = IF cs[w].noid THEN "worker_wait_result" ELSE "net"
      BY Values
    <3>11. Both(xs, conn', c, s, w, u)
      <4>1. CASE cs[w].noid
        <5>1. PICK gs : gs = SetStatus(zs, w, u) OBVIOUS
        <5>2. gs \in Objects /\ Both(xs, gs, c, s, w, u)
          BY <3>1, <3>3, <3>9, <5>1, StatusDoes, BothStatus
        <5>3. conn' = Register(gs, w, n) BY <1>9, <2>2, <3>10, <4>1, <5>1
        <5>4. Faces(gs, conn') BY <5>2, <5>3, RegisterFaces
        <5> QED BY <3>1, <5>2, <5>4, BothFaces
      <4>2. CASE ~cs[w].noid
        <5>1. i \in AllIds
          <6>1. LinkState BY LoopFacts
          <6>2. cs \in Connections(Named) BY <1>1, <1>9, <1>10, <6>1, AddingLinks
          <6>3. xs[c].id = cs[c].id /\ xs[c].json = cs[c].json
            <7>1. PICK P \in Queues :
                     \A l \in Scanned(cs, wait, w, t) :
                        Verdict(cs, wait, w, t[l]) = "job" /\ t[l].conn # None
                           => ScanTakes(cs, as, wait, P, t[l].conn)
              BY <1>1, <1>2, <1>5, <1>9, ScanGoes
            <7>2. Least(Jobs(cs, wait, w, t)) \in Scanned(cs, wait, w, t)
              BY <1>9, <1>11, TakingIs
            <7>3. ScanTakes(cs, as, wait, P, c)
              BY <1>3, <1>4, <1>14, <2>2, <7>1, <7>2 DEF Taking
            <7> QED BY <1>11, <1>15, <3>1, <3>3, <7>3 DEF ScanTakes, ScanKept
          <6>4. i = CallId(cs, c, m.job) BY <1>7, <6>3 DEF CallId
          <6>5. m.job \in Job BY <1>14, JobIs
          <6> QED BY <3>1, <6>2, <6>4, <6>5, CallIdType
        <5>2. PICK v \in AllIds \cup {None} : v = i BY <5>1
        <5>3. PICK us : us = IdSet(zs, c, v) OBVIOUS
        <5>4. us \in Objects /\ Half(xs, us, c, s)
          <6>1. us \in Objects /\ Faces(zs, us)
            BY <3>1, <3>9, <5>3, IdDoes, FieldFaces DEF IdSet
          <6> QED BY <3>1, <3>9, <6>1, HalfFaces
        <5>5. PICK vs : vs = SetStatus(us, w, u) OBVIOUS
        <5>6. vs \in Objects /\ Both(xs, vs, c, s, w, u)
          BY <3>1, <3>3, <5>4, <5>5, StatusDoes, BothStatus
        <5>7. conn' = Register(Link(vs, c), w, n)
          <6>1. conn' = Register(Link([zs EXCEPT ![c].id = i, ![w].status = "net"], c), w, n)
            BY <1>9, <2>2, <4>2
          <6>2. u = "net" BY <3>10, <4>2
          <6>3. [zs EXCEPT ![c].id = i, ![w].status = "net"] = vs
            BY <5>2, <5>3, <5>5, <6>2, Zenon DEF SetStatus, IdSet
          <6> QED BY <6>1, <6>3
        <5>8. Link(vs, c) \in Objects /\ Faces(vs, Link(vs, c))
          BY <3>1, <5>6, LinkDoes, HelperFaces
        <5>9. Faces(Link(vs, c), conn') BY <5>7, <5>8, RegisterFaces
        <5>10. Faces(vs, conn') BY <5>8, <5>9, FacesTrans
        <5> QED BY <3>1, <5>6, <5>10, BothFaces
      <4> QED BY <4>1, <4>2
    <3>12. u \notin WaitStatuses /\ u # "worker_mode_async"
      BY <3>10 DEF WaitStatuses, WaitsFor
    <3>13. Tell({w}, xs, conn')
      <4> SUFFICES ASSUME NEW d \in Conns, d # w PROVE Tells(xs[d], conn'[d]) BY DEF Tell
      <4>1. CASE d = c
        <5>1. Switched(xs[c], conn'[c], "busy") BY <3>5, <3>11 DEF Both
        <5> QED BY <3>4, <4>1, <5>1 DEF Switched, Tells, Shown
      <4>2. CASE d # c
        <5>1. Face(xs[d], conn'[d]) BY <3>11, <4>2 DEF Both
        <5> QED BY <5>1, FaceTells
      <4> QED BY <4>1, <4>2
    <3>14. Switched(xs[w], conn'[w], u) BY <3>11 DEF Both
    <3> QED BY <3>12, <3>13, <3>14
  <2> QED BY <2>1, <2>2
<1>20. Settled(conn'[w], 1, FALSE)
  <2>1. PICK u : Switched(xs[w], conn'[w], u) /\ u \notin WaitStatuses
                 /\ (u = "worker_mode_async" => as[w].wm)
    BY <1>19
  <2>2. Replied(conn'[w]) BY <1>15, <1>18, <2>1, GetsReplied
  <2> QED BY <2>2, RepliedStays
<1>21. Tell({w}, conn, conn')
  <2>1. Tell({w}, xs, conn') BY <1>19
  <2>2. Tell({w}, as, xs) BY <1>15, TellOne
  <2>3. Tell({w}, conn, xs) BY <1>10, <2>2, TellTrans
  <2> QED BY <2>1, <2>3, TellTrans
<1>22. PICK b : b = (adding'.conn = w) OBVIOUS
<1>23. b = FALSE /\ adding'.conn = None BY <1>16, <1>22, NoneAssumption DEF Idle
<1>24. conn'[w].sock = "open" => Settled(conn'[w], o, b) BY <1>18, <1>20, <1>23
<1> QED BY <1>9, <1>10, <1>17, <1>21, <1>22, <1>23, <1>24, AddedSettles
-----------------------------------------------------------------------------
(* Every step settles *)

\* Without async calls every message that is queued has a client.
LEMMA AddressedShrinks ==
    ASSUME IInv, Addressed(queue),
           \A n \in Names : LineShrinks(queue[n].clients, queue'[n].clients)
    PROVE  Addressed(queue')
<1> SUFFICES ASSUME NEW n \in Names, NEW i \in DOMAIN queue'[n].clients
             PROVE  queue'[n].clients[i].conn # None
  BY DEF Addressed
<1>1. PICK s, t : s = queue[n].clients /\ t = queue'[n].clients OBVIOUS
<1>2. s \in Seq(MsgType) /\ LineShrinks(s, t) BY <1>1, MessagesType
<1>3. \E j \in DOMAIN s : t[i] = s[j]
  <2>1. CASE t = s BY <1>1, <2>1
  <2>2. CASE t = << >> BY <1>1, <2>2
  <2>3. ASSUME NEW K \in SUBSET DOMAIN s, t = Keep(s, K) PROVE \E j \in DOMAIN s : t[i] = s[j]
    <3>1. /\ t \in Seq(MsgType) /\ Len(t) = Cardinality(K) /\ Cardinality(K) \in Nat
          /\ \A k \in 1 .. Cardinality(K) : Nth(K, k) \in K /\ t[k] = s[Nth(K, k)]
      BY <1>2, <2>3, KeepProperty
    <3>2. i \in 1 .. Cardinality(K) BY <1>1, <3>1
    <3> QED BY <3>1, <3>2
  <2> QED BY <1>2, <2>1, <2>2, <2>3 DEF LineShrinks
<1> QED BY <1>1, <1>3 DEF Addressed

LEMMA AddressedEnqueue ==
    ASSUME IInv, NoAsync, Addressed(queue),
           NEW c \in Conns, NEW r \in Requests[c], RecvCallEnqueue(c, r)
    PROVE  Addressed(queue')
<1>1. PICK k, j : k = r.names[1] /\ j = <<c, calls[c] + 1>> OBVIOUS
<1>2. PICK m : m = [conn |-> IF r.op = "async" THEN None ELSE c, prio |-> r.prio,
                    req |-> r.wid, job |-> j]
  OBVIOUS
<1>3. /\ Call(c, r)
      /\ queue' = [queue EXCEPT ![k].workers = RestOfWorkers(r), ![k].clients = Insert(@, m)]
  BY <1>1, <1>2 DEF RecvCallEnqueue
<1>4. r \in RequestType /\ k \in Names /\ j \in Job BY <1>1, <1>3, CallFacts
<1>5. m \in MsgType
  <2>1. r.prio \in Int /\ r.wid \in Wids \cup {None} BY <1>4, RequestFacts
  <2> QED BY <1>2, <1>4, <2>1 DEF MsgType
<1>6. m.conn # None BY <1>2, NoneAssumption DEF NoAsync
<1>7. queue \in Queues BY QueuesAre DEF IInv
<1> SUFFICES ASSUME NEW n \in Names, NEW i \in DOMAIN queue'[n].clients,
                    NEW x, x = queue'[n].clients[i]
             PROVE  x.conn # None
  BY DEF Addressed
<1>8. PICK s, t : s = queue[n].clients /\ t = queue'[n].clients OBVIOUS
<1>9. s \in Seq(MsgType) BY <1>8, MessagesType
<1>10. x = m \/ \E l \in DOMAIN s : x = s[l]
  <2>1. CASE k # n
    <3>1. queue'[n] = queue[n] BY <1>3, <1>7, <2>1 DEF Queues
    <3> QED BY <1>8, <3>1
  <2>2. CASE k = n
    <3>1. queue[n] \in QueueType BY <1>7 DEF Queues
    <3>2. t = Insert(s, m) BY <1>3, <1>7, <1>8, <2>2, <3>1 DEF Queues, QueueType
    <3>3. PICK p : p = Position(s, m) OBVIOUS
    <3>4. /\ Len(s) \in Nat /\ DOMAIN s = 1 .. Len(s) /\ p \in 0 .. Len(s)
          /\ DOMAIN t = 1 .. Len(s) + 1
          /\ \A l \in 1 .. Len(s) + 1 :
                t[l] = IF l <= p THEN s[l] ELSE IF l = p + 1 THEN m ELSE s[l - 1]
      BY <1>5, <1>9, <3>2, <3>3, InsertFacts
    <3>5. i \in 1 .. Len(s) + 1 /\ x = t[i] BY <1>8, <3>4
    <3>6. CASE i <= p BY <3>4, <3>5, <3>6
    <3>7. CASE i = p + 1 BY <3>4, <3>5, <3>7
    <3>8. CASE i > p + 1
      <4>1. i - 1 \in DOMAIN s /\ t[i] = s[i - 1] BY <3>4, <3>5, <3>8
      <4> QED BY <3>5, <4>1
    <3> QED BY <3>4, <3>5, <3>6, <3>7, <3>8
  <2> QED BY <2>1, <2>2
<1>11. ASSUME NEW l \in DOMAIN s, x = s[l] PROVE x.conn # None
  BY <1>8, <1>11 DEF Addressed
<1> QED BY <1>6, <1>10, <1>11

LEMMA AddressedStays ==
    ASSUME IInv, [Next]_vars, NoAsync, Addressed(queue)
    PROVE  Addressed(queue')
<1>1. CASE \A c \in Conns : \A r \in Requests[c] : ~RecvCallEnqueue(c, r)
  <2>1. \A n \in Names : LineShrinks(queue[n].clients, queue'[n].clients) BY <1>1, ClientsShrink
  <2> QED BY <2>1, AddressedShrinks
<1>2. ASSUME NEW c \in Conns, NEW r \in Requests[c], RecvCallEnqueue(c, r)
      PROVE  Addressed(queue')
  BY <1>2, AddressedEnqueue
<1> QED BY <1>1, <1>2

\* A registration begins or goes on with at most one name, if none has more.
LEMMA RecvNames ==
    ASSUME AllSettled, LoopStep, OneName, NEW c \in Conns, NEW r \in Requests[c], Recv(c, r)
    PROVE  Len(adding'.names) <= 1
<1>1. Arrives(c, r)
  BY DEF Recv, RecvNotReady, RecvThrows, RecvEcho, RecvWorkerMode, RecvNoId, RecvResult,
         RecvCallNoQueue, RecvCallGive, RecvCallReject, RecvCallAbsent,
         RecvCallEnqueue, RecvAdd, RecvPub, RecvCreate, RecvDelete, Call, Plain, Parsed
<1>2. adding = Idle /\ Len(Idle.names) <= 1 BY <1>1 DEF Arrives, LoopReady, Idle
<1>3. ASSUME adding' = adding PROVE Len(adding'.names) <= 1 BY <1>2, <1>3
<1>4. CASE RecvWorkerMode(c, r)
  <2>1. PICK cs : cs = Start(conn, c, r) OBVIOUS
  <2>2. Parsed(c, r) BY <1>4 DEF RecvWorkerMode
  <2>3. Len(cs[c].names) <= 1
    <3>1. Fresh(cs[c]) BY <2>1, <2>2, BegunFresh
    <3> QED BY <3>1 DEF Fresh
  <2>4. adding' = adding \/ adding' = [conn |-> c, names |-> cs[c].names]
    BY <1>4, <2>1 DEF RecvWorkerMode
  <2>5. CASE adding' = [conn |-> c, names |-> cs[c].names] BY <2>3, <2>5
  <2> QED BY <1>3, <2>4, <2>5
<1>5. CASE RecvAdd(c, r)
  <2>1. adding' = adding \/ adding' = [conn |-> c, names |-> r.names] BY <1>5 DEF RecvAdd
  <2>2. CASE adding' = [conn |-> c, names |-> r.names] BY <2>2 DEF OneName
  <2> QED BY <1>3, <2>1, <2>2
<1>6. CASE ~RecvWorkerMode(c, r) /\ ~RecvAdd(c, r)
  <2>1. adding' = adding
    BY <1>6 DEF Recv, RecvNotReady, RecvThrows, RecvEcho, RecvNoId, RecvResult,
         RecvCallNoQueue, RecvCallGive, RecvCallReject, RecvCallAbsent,
         RecvCallEnqueue, RecvPub, RecvCreate, RecvDelete, Call, brokerVars
  <2> QED BY <1>3, <2>1
<1> QED BY <1>4, <1>5, <1>6

LEMMA AddNames ==
    ASSUME IInv, Len(adding.names) <= 1, NEW w \in Conns, NEW n \in Names, AddWorker(w, n)
    PROVE  adding' = Idle
<1>1. adding' \in {ReturnOne, NextName}
  BY DEF AddWorker, AddWorkerDirect, AddWorkerGive, AddWorkerWait
<1>3. ~(Len(adding.names) > 1)
  <2>1. IInv => Len(adding.names) \in Int BY DEF IInv, AddingInv
  <2> QED BY <2>1
<1> QED BY <1>1, <1>3 DEF ReturnOne, NextName

\* The loop thread ends in no registration.
LEMMA EndsIdle ==
    ASSUME [Next]_vars, alive \/ adding = Idle
    PROVE  alive' \/ adding' = Idle
<1>1. CASE UNCHANGED vars BY <1>1 DEF vars, brokerVars
<1>2. ASSUME NEW c \in Conns, Accept(c) \/ PeerClose(c) \/ OnSend(c) \/ OnSendPart(c)
      PROVE  alive' \/ adding' = Idle
  BY <1>2 DEF Accept, PeerClose, OnSend, OnSendPart, LoopReady
<1>3. ASSUME NEW c \in Conns, NEW r \in Requests[c], Recv(c, r)
      PROVE  alive' \/ adding' = Idle
  <2>1. Arrives(c, r)
    BY <1>3 DEF Recv, RecvNotReady, RecvThrows, RecvEcho, RecvWorkerMode, RecvNoId, RecvResult,
         RecvCallNoQueue, RecvCallGive, RecvCallReject, RecvCallAbsent,
         RecvCallEnqueue, RecvAdd, RecvPub, RecvCreate, RecvDelete, Call, Plain, Parsed
  <2>2. alive /\ adding = Idle BY <2>1 DEF Arrives, LoopReady
  <2>3. alive' = alive \/ adding' = adding
    BY <1>3 DEF Recv, RecvNotReady, RecvThrows, RecvEcho, RecvWorkerMode, RecvNoId, RecvResult,
         RecvCallNoQueue, RecvCallGive, RecvCallReject, RecvCallAbsent,
         RecvCallEnqueue, RecvAdd, RecvPub, RecvCreate, RecvDelete, Call, brokerVars
  <2> QED BY <2>2, <2>3
<1>4. ASSUME NEW w \in Conns, NEW n \in Names, AddWorker(w, n) PROVE alive' \/ adding' = Idle
  <2>1. alive /\ alive' = alive
    BY <1>4 DEF AddWorker, AddWorkerDirect, AddWorkerGive, AddWorkerWait, Adding
  <2> QED BY <2>1
<1>5. ASSUME NEW n \in Names, CleanDeadTasks(n) PROVE alive' \/ adding' = Idle
  BY <1>5 DEF CleanDeadTasks
<1>6. CASE CheckTimeout \/ DeleteConnections
  BY <1>6 DEF CheckTimeout, DeleteConnections
<1> QED BY <1>1, <1>2, <1>3, <1>4, <1>5, <1>6 DEF Next

LEMMA NamesStay ==
    ASSUME AllSettled, RouteInv, LinkInv', [Next]_vars, OneName, Len(adding.names) <= 1
    PROVE  Len(adding'.names) <= 1
<1>1. ASSUME adding' = adding \/ adding' = Idle PROVE Len(adding'.names) <= 1
  <2>1. Len(Idle.names) <= 1 BY DEF Idle
  <2> QED BY <1>1, <2>1
<1>2. CASE UNCHANGED vars BY <1>1, <1>2 DEF vars, brokerVars
<1>3. ASSUME NEW c \in Conns, NEW r \in Requests[c], Recv(c, r)
      PROVE  Len(adding'.names) <= 1
  <2>1. Arrives(c, r)
    BY <1>3 DEF Recv, RecvNotReady, RecvThrows, RecvEcho, RecvWorkerMode, RecvNoId, RecvResult,
         RecvCallNoQueue, RecvCallGive, RecvCallReject, RecvCallAbsent,
         RecvCallEnqueue, RecvAdd, RecvPub, RecvCreate, RecvDelete, Call, Plain, Parsed
  <2>2. LoopStep BY <2>1 DEF Arrives, LoopReady, LoopStep
  <2> QED BY <1>3, <2>2, RecvNames
<1>4. ASSUME NEW w \in Conns, NEW n \in Names, AddWorker(w, n) PROVE Len(adding'.names) <= 1
  <2>1. IInv BY DEF RouteInv, LinkInv
  <2>2. adding' = Idle BY <1>4, <2>1, AddNames
  <2> QED BY <1>1, <2>2
<1>5. ASSUME NEW c \in Conns, Accept(c) \/ PeerClose(c) \/ OnSend(c) \/ OnSendPart(c)
      PROVE  adding' = adding
  BY <1>5 DEF Accept, PeerClose, OnSend, OnSendPart
<1>6. ASSUME NEW n \in Names, CleanDeadTasks(n) PROVE adding' = adding
  BY <1>6 DEF CleanDeadTasks
<1>7. CASE CheckTimeout \/ DeleteConnections BY <1>1, <1>7 DEF CheckTimeout, DeleteConnections
<1> QED BY <1>1, <1>2, <1>3, <1>4, <1>5, <1>6, <1>7 DEF Next

LEMMA RecvSettles ==
    ASSUME OwnHeaderIds, NoDelete, CallBodies, AllSettled, LoopStep,
           NEW c \in Conns, NEW r \in Requests[c], Recv(c, r)
    PROVE  AllSettled'
<1>1. CASE RecvNotReady(c, r) BY <1>1, RecvNotReadySettles
<1>2. CASE RecvThrows(c, r) BY <1>2, RecvThrowsSettles
<1>3. CASE RecvEcho(c, r) \/ RecvCallNoQueue(c, r) \/ RecvCreate(c, r)
  BY <1>3, RecvEchoSettles
<1>4. CASE RecvWorkerMode(c, r) BY <1>4, RecvWorkerModeSettles
<1>5. CASE RecvNoId(c, r) BY <1>5, RecvNoIdSettles
<1>6. CASE RecvResult(c, r) BY <1>6, RecvResultSettles
<1>7. CASE RecvCallGive(c, r) BY <1>7, RecvCallGiveSettles
<1>8. CASE RecvCallReject(c, r) BY <1>8, RecvCallRejectSettles
<1>9. CASE RecvCallAbsent(c, r) BY <1>9, RecvCallAbsentSettles
<1>10. CASE RecvCallEnqueue(c, r) BY <1>10, RecvCallEnqueueSettles
<1>11. CASE RecvAdd(c, r) BY <1>11, RecvAddSettles
<1>12. CASE RecvPub(c, r) BY <1>12, RecvPubSettles
<1>13. ~RecvDelete(c, r) BY DEF NoDelete, RecvDelete, Plain
<1> QED BY <1>1, <1>2, <1>3, <1>4, <1>5, <1>6, <1>7, <1>8, <1>9, <1>10, <1>11, <1>12,
           <1>13 DEF Recv

LEMMA NextSettles ==
    ASSUME OwnHeaderIds, NoDelete, CallBodies, NoAsync \/ OneName, AnswerInv, Next, LinkInv'
    PROVE  AllSettled'
<1>1. /\ RouteInv /\ AllSettled /\ (alive \/ adding = Idle)
      /\ (NoAsync => Addressed(queue)) /\ (OneName => Len(adding.names) <= 1)
  BY DEF AnswerInv
<1>2. ASSUME NEW c \in Conns, Accept(c) PROVE AllSettled' BY <1>1, <1>2, AcceptSettles
<1>3. ASSUME NEW c \in Conns, PeerClose(c) \/ OnSend(c) \/ OnSendPart(c) PROVE AllSettled'
  <2>1. LoopStep BY <1>1, <1>3 DEF PeerClose, OnSend, OnSendPart, LoopReady, LoopStep
  <2> QED BY <1>1, <1>3, <2>1, PeerCloseSettles, OnSendSettles, OnSendPartSettles
<1>4. ASSUME NEW c \in Conns, NEW r \in Requests[c], Recv(c, r) PROVE AllSettled'
  <2>1. Arrives(c, r)
    BY <1>4 DEF Recv, RecvNotReady, RecvThrows, RecvEcho, RecvWorkerMode, RecvNoId, RecvResult,
         RecvCallNoQueue, RecvCallGive, RecvCallReject, RecvCallAbsent,
         RecvCallEnqueue, RecvAdd, RecvPub, RecvCreate, RecvDelete, Call, Plain, Parsed
  <2>2. LoopStep BY <1>1, <2>1 DEF Arrives, LoopReady, LoopStep
  <2> QED BY <1>1, <1>4, <2>2, RecvSettles
<1>5. ASSUME NEW w \in Conns, NEW n \in Names, AddWorker(w, n) PROVE AllSettled'
  <2>1. LoopStep BY <1>1, <1>5 DEF AddWorker, AddWorkerDirect, AddWorkerGive, AddWorkerWait,
                                   Adding, LoopStep
  <2>2. CASE AddWorkerDirect(w, n) BY <1>1, <2>1, <2>2, AddWorkerDirectSettles
  <2>3. CASE AddWorkerGive(w, n) BY <1>1, <2>1, <2>3, AddWorkerGiveSettles
  <2>4. CASE AddWorkerWait(w, n) BY <1>1, <2>1, <2>4, AddWorkerWaitSettles
  <2> QED BY <1>5, <2>2, <2>3, <2>4 DEF AddWorker
<1>6. ASSUME NEW n \in Names, CleanDeadTasks(n) PROVE AllSettled'
  <2>1. IInv BY <1>1 DEF RouteInv, LinkInv
  <2> QED BY <1>1, <1>6, <2>1, CleanDeadTasksSettles
<1>7. CASE CheckTimeout \/ DeleteConnections
  <2>1. LoopStep BY <1>1, <1>7 DEF CheckTimeout, DeleteConnections, LoopReady, LoopStep
  <2> QED BY <1>1, <1>7, <2>1, CheckTimeoutSettles, DeleteConnectionsSettles
<1> QED BY <1>2, <1>3, <1>4, <1>5, <1>6, <1>7 DEF Next

LEMMA NextAnswers ==
    ASSUME OwnHeaderIds, NoDelete, CallBodies, NoAsync \/ OneName
    PROVE  AnswerInv /\ [Next]_vars => AnswerInv'
<1> SUFFICES ASSUME AnswerInv, [Next]_vars PROVE AnswerInv' OBVIOUS
<1>1. /\ RouteInv /\ AllSettled /\ (alive \/ adding = Idle)
      /\ (NoAsync => Addressed(queue)) /\ (OneName => Len(adding.names) <= 1)
  BY DEF AnswerInv
<1>2. RouteInv' BY <1>1, NextRoutes
<1>3. LinkInv' BY <1>2 DEF RouteInv
<1>4. AllSettled'
  <2>1. CASE UNCHANGED vars
    <3>1. conn' = conn /\ adding' = adding /\ owed' = owed
      BY <2>1 DEF vars, brokerVars, history
    <3> QED BY <1>1, <3>1 DEF AllSettled, Open
  <2>2. CASE Next BY <1>3, <2>2, NextSettles
  <2> QED BY <2>1, <2>2
<1>5. alive' \/ adding' = Idle BY <1>1, EndsIdle
<1>6. NoAsync => Addressed(queue')
  <2>1. IInv BY <1>1 DEF RouteInv, LinkInv
  <2> QED BY <1>1, <2>1, AddressedStays
<1>7. OneName => Len(adding'.names) <= 1 BY <1>1, <1>3, NamesStay
<1>8. (NoAsync => Addressed(queue))' BY <1>6 DEF NoAsync, Addressed
<1>9. (OneName => Len(adding.names) <= 1)' BY <1>7 DEF OneName
<1> QED BY <1>2, <1>4, <1>5, <1>8, <1>9 DEF AnswerInv

LEMMA InitAnswers == Init => AnswerInv
<1> SUFFICES ASSUME Init PROVE AnswerInv OBVIOUS
<1>1. RouteInv /\ alive /\ adding = Idle BY InitRoutes DEF Init
<1>2. \A c \in Conns : ~Open(c) BY DEF Init, Open, NewConn
<1>3. Addressed(queue)
  <2>1. \A n \in Names : queue[n].clients = << >> BY DEF Init, NoQueue
  <2> QED BY <2>1 DEF Addressed
<1>4. Len(adding.names) <= 1 BY <1>1 DEF Idle
<1> QED BY <1>1, <1>2, <1>3, <1>4 DEF AnswerInv, AllSettled

LEMMA AnswersRight == AnswerInv => OneAnswer
<1> SUFFICES ASSUME AnswerInv, NEW c \in Conns, Open(c), c # adding.conn
             PROVE  /\ owed[c] = IF Waiting(c) \/ Answering(c) THEN 1 ELSE 0
                    /\ ~(Waiting(c) /\ Answering(c))
                    /\ conn[c].out <= 1
  BY DEF OneAnswer
<1>1. Settled(conn[c], owed[c], c = adding.conn) BY DEF AnswerInv, AllSettled
<1>2. PICK x, o, b : x = conn[c] /\ o = owed[c] /\ b = (c = adding.conn) OBVIOUS
<1>3. b = FALSE /\ Settled(x, o, b) BY <1>1, <1>2
<1>4. Waiting(c) <=> x.status \in WaitStatuses BY <1>2 DEF Waiting, WaitStatuses, WaitsFor
<1>5. Answering(c) <=> (x.out = 1 \/ (x.out = 0 /\ x.wr /\ x.dm > 0)) BY <1>2 DEF Answering
<1>6. CASE Rests(x, o)
  <2>1. o = 0 /\ x.out = 0 /\ ~Waiting(c) /\ ~Answering(c) BY <1>4, <1>5, <1>6 DEF Rests
  <2> QED BY <1>2, <2>1
<1>7. CASE Expects(x, o)
  <2>1. o = 1 /\ x.out = 0 /\ Waiting(c) /\ ~Answering(c) BY <1>4, <1>5, <1>7 DEF Expects
  <2> QED BY <1>2, <2>1
<1>8. CASE Replies(x, o)
  <2>1. o = 1 /\ x.out <= 1 /\ ~Waiting(c) /\ Answering(c) BY <1>4, <1>5, <1>8 DEF Replies
  <2> QED BY <1>2, <2>1
<1> QED BY <1>3, <1>6, <1>7, <1>8 DEF Settled

\* Every request has exactly one answer, written by on_recv itself, by the
\* worker that takes a call, by worker_result or worker_result_noid, by
\* _check_timeout or by on_disconnect of a worker: a connection that is owed
\* an answer waits for it or has it in send_buffer, and never is answered
\* twice, however calls, results, timeouts and disconnections interleave.  The
\* hypotheses leave out what the code does otherwise: delete_queue answers
\* who waits and leaves the status (server.cpp:166), a queued call with a
\* malformed body is answered and goes on waiting (server.cpp:678), and
\* the uninitialised result of _add_worker (server.cpp:616) may register a
\* worker under its next name after it was given an async call.
THEOREM OneAnswerHolds ==
    ASSUME OwnHeaderIds, NoDelete, CallBodies, NoAsync \/ OneName
    PROVE  Spec => []OneAnswer
<1>1. AnswerInv /\ [Next]_vars => AnswerInv' BY NextAnswers
<1> QED BY <1>1, InitAnswers, AnswersRight, PTL DEF Spec
=============================================================================
