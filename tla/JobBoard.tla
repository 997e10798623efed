------------------------------ MODULE JobBoard ------------------------------
(***************************************************************************)
(* What the broker promises, without connections, ids, flags or counts: a  *)
(* board on which calls wait in the order of their priority and, within    *)
(* one priority, of their arrival.  A call is taken from the board once,   *)
(* by the first worker that may take it, and then it is held by that       *)
(* worker until it is done.  A call that nobody waits for (an async one)   *)
(* is done as soon as it is handed out.  A call that was made, is not on   *)
(* the board and is not held is done, and never comes back.                *)
(***************************************************************************)
EXTENDS Deque

CONSTANTS
    Names,      \* names of queues
    Calls,      \* calls
    Wids,       \* ids of workers
    None        \* no id

VARIABLES
    board,      \* for each queue, the calls that wait for a worker
    held,       \* the calls that were given to a worker and have no answer yet
    made        \* the calls made so far

boardVars == <<board, held, made>>

BoardInit ==
    /\ board = [n \in Names |-> << >>]
    /\ held = {}
    /\ made = {}

\* A worker with id v may take entry e.
May(v, e) == e.req \in {None, v}

\* Call j waits, behind all calls of its priority or a higher one.
Put(n, j) ==
    /\ Len(board'[n]) = Len(board[n]) + 1
    /\ \E p \in 0 .. Len(board[n]) :
          LET e == board'[n][p + 1]
          IN  /\ e.job = j
              /\ \A i \in DOMAIN board[n] :
                    IF i <= p THEN board[n][i].prio >= e.prio ELSE board[n][i].prio < e.prio
              /\ board' = [board EXCEPT ![n] = InsertBehind(@, p, e)]
    /\ UNCHANGED held

\* Call j is handed out at once, to a worker with id v who could not take any
\* of the calls that wait.
Serve(n, v, j) ==
    /\ \A i \in DOMAIN board[n] : ~May(v, board[n][i])
    /\ held' = held \cup {j}
    /\ UNCHANGED board

\* A call is refused, or is an async one and handed out at once.
Refuse == UNCHANGED <<board, held>>

Make(j) ==
    /\ made' = made \cup {j}
    /\ \/ \E n \in Names : Put(n, j)
       \/ \E n \in Names, v \in Wids \cup {None} : Serve(n, v, j)
       \/ Refuse

\* A worker with id v takes the call at position i.  Those before it that
\* the worker might have taken are refused on the way.
Take(n, v, i) ==
    LET s == board[n]
    IN  /\ May(v, s[i])
        /\ board' = [board EXCEPT ![n] = Keep(s, {d \in DOMAIN s : d > i \/ ~May(v, s[d])} \ {i})]
        /\ held' = IF s[i].async THEN held ELSE held \cup {s[i].job}
        /\ UNCHANGED made

\* Calls are answered, refused or given up by their clients.
Finish ==
    LET left == [n \in Names |-> {e.job : e \in Members(board'[n])}]
    IN  /\ board' = [n \in Names |->
                       LET stays(e) == e.job \in left[n] IN SelectSeq(board[n], stays)]
        /\ held' \subseteq held
        /\ UNCHANGED made

BoardNext ==
    \/ Finish
    \/ \E n \in Names, v \in Wids \cup {None} : \E i \in DOMAIN board[n] : Take(n, v, i)
    \/ \E j \in Calls \ made : Make(j)

BoardSpec == BoardInit /\ [][BoardNext]_boardVars
=============================================================================
