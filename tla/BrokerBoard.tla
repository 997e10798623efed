---------------------------- MODULE BrokerBoard ----------------------------
(***************************************************************************)
(* The broker implements the board of JobBoard.  The board shows the       *)
(* messages of the queues that still count: the broker leaves a message    *)
(* whose client has gone in its queue until a scan or the service thread   *)
(* erases it.                                                              *)
(***************************************************************************)
EXTENDS BrokerProperties

\* The client of message m still waits for this call.
Counts(m) ==
    \/ m.conn = None
    \/ Open(m.conn) /\ conn[m.conn].status = "client_wait_result"
       /\ m.job = CurrentCall(m.conn)

EntryOf(m) == [job |-> m.job, prio |-> m.prio, req |-> m.req, async |-> m.conn = None]

boardOf ==
    [n \in Names |->
        LET t == SelectSeq(queue[n].clients, Counts)
        IN  [i \in DOMAIN t |-> EntryOf(t[i])]]

heldNow ==
    {j \in Job : /\ given[j] > 0 /\ Open(j[1]) /\ j = CurrentCall(j[1])
                 /\ conn[j[1]].status \in {"client_wait_result", "busy"}}

madeSoFar == {j \in Job : j[2] <= calls[j[1]]}

Board == INSTANCE JobBoard WITH
    Calls <- Job, board <- boardOf, held <- heldNow, made <- madeSoFar

\* Whatever connections do, calls are served as on the board: each once, the
\* first that the worker may take, and none before those that wait already.
ImplementsBoard == Board!BoardSpec
=============================================================================
