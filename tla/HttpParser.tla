----------------------------- MODULE HttpParser -----------------------------
(***************************************************************************)
(* Connect::on_recv: how the bytes of one socket become requests, however  *)
(* the network cuts them into pieces, and what header_completed reads from *)
(* a request.  A request on the wire is a sequence of cells: the parts of  *)
(* its lines, the ends of the lines, the cells of its JSON body.  Lengths  *)
(* count cells.  All sockets of a loop are received into one array, and    *)
(* what arrives for another socket overwrites it.                          *)
(*                                                                         *)
(* The peer may send a request before the last one is answered, but not in *)
(* one piece with the end of a body whose request may have to wait.        *)
(***************************************************************************)
EXTENDS Json, TLC

CONSTANTS
    Streams,        \* what the peer may send: sequences of requests
    HeadPieces,     \* bound: pieces in which the head of a request arrives
    MaxLength,      \* bound: length of a body
    None

Types == {"get", "get+", "worker", "async", "pub", "result", "create", "delete"}
Pages == {<<"/">>, <<"rpc/help">>, <<"rpc/details">>}

(***************************************************************************)
(* A request as the peer means it.  op: what it asks for; name, id: of the *)
(* queue, of the call, None if there is none; body: the text of the body.  *)
(* wire: the cells it is sent as.                                          *)
(***************************************************************************)

VARIABLES
    sent,       \* the requests the peer sends on this connection
    stream,     \* their cells that have not been received yet
    buffer,     \* Connect::buffer
    data,       \* the slice that on_recv has still to parse
    pc,         \* where on_recv is: "idle", "body", "line", "end"
    step,       \* http_step
    req,        \* the fields of the request that is being read
    body,       \* Connect::body
    status,     \* "net", "wait": the last request has no answer yet, "closed"
    pieces,     \* history: pieces in which the current head arrived
    early,      \* history: data came while the connection was not ready
    handled     \* history: what header_completed was called with

parser == <<step, req, body>>
vars == <<sent, stream, buffer, data, pc, step, req, body, status, pieces, early, handled>>

\* A slice: its cells, the array in which they stand (the loop's buf, or the
\* Buffer "buffer") and the offset there.
NoSlice == [text |-> << >>, in |-> "buf", at |-> 0]

Empty == [path |-> None, ka |-> FALSE, type |-> None, name |-> None, id |-> None,
          option |-> NoSlice, length |-> 0]

RECURSIVE Wires(_)
Wires(rs) == IF rs = << >> THEN << >> ELSE Head(rs).wire \o Wires(Tail(rs))

Init ==
    /\ sent \in Streams
    /\ stream = Wires(sent)
    /\ buffer = << >>
    /\ data = NoSlice
    /\ pc = "idle"
    /\ step = "start"
    /\ req = Empty
    /\ body = << >>
    /\ status = "net"
    /\ pieces = 0
    /\ early = FALSE
    /\ handled = << >>

-----------------------------------------------------------------------------
(* Slices *)

\* Slice::pop
Rest(s, n) == [s EXCEPT !.at = @ + n, !.text = SubSeq(@, n + 1, Len(@))]

\* Slice::pop_line: the length of the first line with its end, 0 if it has none.
LineLength(s) ==
    LET E == {i \in DOMAIN s.text : s.text[i] = Newline} IN IF E = {} THEN 0 ELSE Min(E)

\* The fields r after n cells of an array have been written from an offset:
\* header_option is a slice, what stands there is its new value.
Overwritten(r, array, at, n) ==
    LET o == r.option
    IN  IF o # NoSlice /\ o.in = array /\ o.at < at + n /\ at < o.at + Len(o.text)
        THEN [r EXCEPT !.option.text = <<"overwritten">>] ELSE r

\* ISlice::atoi, and whether it throws.
IsNumber(x) == \E n \in 0 .. MaxLength : <<ToString(n)>> = x
Atoi(x) == CHOOSE n \in 0 .. MaxLength : <<ToString(n)>> = x

-----------------------------------------------------------------------------
(* What header_completed understands *)

NoJson == <<"malformed">>

\* A scanner that is at its end: the next scan throws.
AtEnd == [list |-> << >>, ok |-> FALSE]

\* The first id in the pairs p of a text, when the scan reaches it.
ScannedId(p) ==
    LET ids == Values(p, "id")
    IN  IF ids # << >> THEN ids[1] ELSE IF p.ok THEN None ELSE NoJson

Request(op, name, id) == [op |-> op, name |-> name, id |-> id]
Invalid == Request("invalid", None, None)

LastOf(s) == IF s = << >> THEN None ELSE s[Len(s)]

\* rpc_result: the given id, or the one in the body, not in params.
Result(id, p, level) ==
    LET i == IF id = None /\ level = 0 THEN ScannedId(p) ELSE id
    IN  IF i = NoJson THEN Invalid ELSE Request("result", None, i)

\* rpc_add: the name in the text, decoded, takes precedence.
Add(name, p) ==
    LET scanned == LastOf(Values(p, "name"))
    IN  IF ~p.ok THEN Invalid
        ELSE Request("get", IF scanned = None THEN name ELSE Unescape(scanned), None)

\* A call: client_request looks for the id when a worker needs it.
Call(op, name, id, p) == Request(op, name, IF id # None THEN id ELSE ScannedId(p))

\* A request with a type: the queue is the path.
ByType(r, p) ==
    IF r.type = "result"
    THEN Result(IF r.id = None /\ r.path # <<"/">> THEN r.path ELSE r.id, p, 0)
    ELSE IF r.type \in {"get", "get+", "worker"} THEN Add(r.path, p)
    ELSE IF r.type = "async" THEN Call("async", r.path, r.id, p)
    ELSE Request(r.type, r.path, None)

\* A request without: the method tells.
ByMethod(r, method, id, p, level) ==
    IF method \in {None, << >>} THEN Request("no method", None, None)
    ELSE IF method \in {<<"rpc/add">>, <<"rpc/worker">>} THEN Add(r.name, p)
    ELSE IF method = <<"rpc/result">> THEN Result(id, p, level)
    ELSE IF method \in Pages THEN Request("page", method, None)
    ELSE Call(IF r.option.text = <<"async">> THEN "async" ELSE "call", method, id, p)

\* rpc/call: the whole body is scanned, what comes later looks at its params.
\* Without params the scan is at its end, and throws.
RpcCall(r, p) ==
    LET m == LastOf(Values(p, "method"))
        method == IF m # None /\ m # << >> /\ Head(m) = "/" THEN Tail(m) ELSE m
        params == LastOf(Values(p, "params"))
        no == params \in {None, << >>}
        ids == Values(p, "id")
        id == IF r.id = None /\ ids # << >> THEN ids[1] ELSE r.id
    IN  IF ~p.ok THEN Invalid
        ELSE ByMethod(r, method, id, IF no THEN AtEnd ELSE Pairs(params), IF no THEN 0 ELSE 1)

\* What a request with the fields r and the pairs p of its body asks for.
Understood(r, p) ==
    IF r.path = <<"echo">> THEN Request("page", r.path, None)
    ELSE IF r.type # None THEN ByType(r, p)
    ELSE IF r.path = <<"rpc/call">> THEN RpcCall(r, p)
    ELSE ByMethod(r, r.path, r.id, p, 0)

\* The request u is answered at once, or it is a call or a worker and has to
\* wait; on_recv throws if it does and left cells follow.
Outcome(u, left) ==
    \E o \in IF u.op \in {"call", "get"} THEN {"net", "wait"} ELSE {"net"} :
        status' = IF o = "wait" /\ left > 0 THEN "closed" ELSE o

\* header_completed with the fields r and the body text.
Handle(r, text, left) ==
    /\ handled' = Append(handled, [means |-> Understood(r, Pairs(text)), body |-> text,
                                   ka |-> r.ka, option |-> r.option.text])
    /\ Outcome(handled'[Len(handled')].means, left)

-----------------------------------------------------------------------------
(* on_recv *)

\* The request whose cells come next, and how many of them are left.
Received == Len(Wires(sent)) - Len(stream)
EndOf(k) == Len(Wires(SubSeq(sent, 1, k)))
Current == CHOOSE k \in DOMAIN sent : EndOf(k - 1) <= Received /\ Received < EndOf(k)
HeadEnd(k) == EndOf(k) - Len(sent[k].body)

\* The peer's part, see above.  The head of a request is parsed in a bounded
\* number of pieces.
MaySend(n) ==
    LET c == Current
    IN  /\ sent[c].means.op \in {"call", "get"} /\ sent[c].body # << >>
             => Received + n <= EndOf(c)
        /\ pieces + 1 < HeadPieces \/ Received + n >= HeadEnd(c) \/ status = "wait"

\* Pieces of a head that wait in the buffer for the next one.
CountPieces(n) ==
    pieces' = IF \E k \in DOMAIN sent :
                    EndOf(k - 1) < Received + n /\ Received + n < HeadEnd(k)
              THEN IF status = "wait" \/ Received + n >= EndOf(Current) THEN 1 ELSE pieces + 1
              ELSE 0

\* Mutant: data is parsed whenever it comes.
ReadyAlways == status # "closed"

Ready == status = "net"

\* The cells x come into the loop's array, and behind the buffer if it is used.
Recv(n) ==
    LET x == SubSeq(stream, 1, n)
        r == Overwritten(req, "buf", 0, n)
    IN  /\ pc = "idle" /\ Ready /\ n <= Len(stream)
        /\ MaySend(n) /\ CountPieces(n)
        /\ stream' = SubSeq(stream, n + 1, Len(stream))
        /\ IF buffer # << >>
           THEN /\ buffer' = buffer \o x
                /\ data' = [text |-> buffer', in |-> "buffer", at |-> 0]
                /\ req' = Overwritten(r, "buffer", Len(buffer), n)
           ELSE /\ data' = [text |-> x, in |-> "buf", at |-> 0]
                /\ req' = r
                /\ UNCHANGED buffer
        /\ pc' = IF step = "body" THEN "body" ELSE "line"
        /\ UNCHANGED <<sent, step, body, status, early, handled>>

\* The connection is not ready: the data is only kept.
RecvEarly(n) ==
    /\ pc = "idle" /\ ~Ready /\ status # "closed" /\ n <= Len(stream)
    /\ MaySend(n) /\ CountPieces(n)
    /\ buffer' = buffer \o SubSeq(stream, 1, n)
    /\ req' = Overwritten(Overwritten(req, "buf", 0, n), "buffer", Len(buffer), n)
    /\ stream' = SubSeq(stream, n + 1, Len(stream))
    /\ early' = TRUE
    /\ UNCHANGED <<sent, data, pc, step, body, status, handled>>

\* The rest of a body.
ReadBodyPart ==
    /\ pc = "body" /\ req.length - Len(body) > Len(data.text)
    /\ body' = body \o data.text
    /\ buffer' = << >>
    /\ data' = NoSlice
    /\ pc' = "idle"
    /\ UNCHANGED <<sent, stream, step, req, status, pieces, early, handled>>

BodyLeft == req.length - Len(body)

ReadBodyEnd ==
    LET n == BodyLeft
    IN  /\ pc = "body" /\ n <= Len(data.text)
        /\ body' = body \o SubSeq(data.text, 1, n)
        /\ Handle(req, body', 0)
        /\ step' = "start"
        /\ data' = IF Len(data.text) = n THEN NoSlice ELSE Rest(data, n)
        /\ pc' = IF Len(data.text) = n THEN "idle" ELSE "line"
        /\ UNCHANGED <<sent, stream, buffer, req, pieces, early>>

\* A line that is not complete waits for the next package.
NoLine ==
    /\ pc = "line" /\ LineLength(data) = 0
    /\ pc' = "end"
    /\ UNCHANGED <<sent, stream, buffer, data, parser, status, pieces, early, handled>>

Line == SubSeq(data.text, 1, LineLength(data) - 1)

\* An exception leaves on_recv and the connection is closed.
CloseNow ==
    /\ status' = "closed" /\ pc' = "idle" /\ data' = NoSlice
    /\ UNCHANGED <<sent, stream, buffer, parser, pieces, early, handled>>

StrayBlank ==
    /\ pc = "line" /\ LineLength(data) = 1 /\ step # "header"
    /\ CloseNow

\* read_method: the fields of the last request are forgotten; a line without
\* a path closes the connection.
StartLine ==
    /\ pc = "line" /\ LineLength(data) > 1 /\ step = "start"
    /\ IF Len(Line) < 2
       THEN CloseNow
       ELSE /\ req' = [Empty EXCEPT !.path = <<Line[1]>>,
                                    !.ka = Line[Len(Line)] = "HTTP/1.1"]
            /\ body' = << >>
            /\ step' = "header"
            /\ data' = Rest(data, LineLength(data))
            /\ UNCHANGED <<sent, stream, buffer, pc, status, pieces, early, handled>>

\* The slice of the value of a header line.
ValueSlice == [data EXCEPT !.at = @ + 1, !.text = Tail(Line)]

\* read_header.  id is copied, header_option is a slice of the memory in
\* which the line stands.  A type that is not known is answered 400, and the
\* request goes on without it.
ReadHeader(r, key, value) ==
    IF key = "content-length: " /\ IsNumber(value) THEN [r EXCEPT !.length = Atoi(value)]
    ELSE IF key \in {"type: ", "x-type: "} /\ value[1] \in Types THEN [r EXCEPT !.type = value[1]]
    ELSE IF key = "name: " THEN [r EXCEPT !.name = value]
    ELSE IF key = "id: " THEN [r EXCEPT !.id = value]
    ELSE IF key = "option: " THEN [r EXCEPT !.option = ValueSlice]
    ELSE r

HeaderLine ==
    /\ pc = "line" /\ LineLength(data) > 1 /\ step = "header"
    /\ req' = ReadHeader(req, Line[1], Tail(Line))
    /\ data' = Rest(data, LineLength(data))
    /\ UNCHANGED <<sent, stream, buffer, pc, step, body, status, pieces, early, handled>>

\* The end of the head: the body, or a part of it, may be there.
BlankLine ==
    LET d == Rest(data, 1)
        n == Min({req.length, Len(d.text)})
        rest == Rest(d, n)
    IN  /\ pc = "line" /\ LineLength(data) = 1 /\ step = "header"
        /\ body' = IF req.length > 0 THEN SubSeq(d.text, 1, n) ELSE body
        /\ buffer' = << >>
        /\ IF n < req.length
           THEN step' = "body" /\ pc' = "end" /\ UNCHANGED <<status, handled>>
           ELSE /\ Handle(req, body', Len(rest.text))
                /\ IF Len(rest.text) = 0 THEN step' = "completed" /\ pc' = "end"
                   ELSE IF status' = "closed" THEN step' = "completed" /\ pc' = "idle"
                   ELSE step' = "start" /\ pc' = "line"
        /\ data' = IF pc' = "idle" THEN NoSlice ELSE rest
        /\ UNCHANGED <<sent, stream, req, pieces, early>>

\* Mutant: the rest of the data is forgotten.
KeptForgotten == buffer' = buffer

\* Cells of an unfinished head go behind what the buffer holds.
Kept == buffer' = buffer \o data.text

EndOfData ==
    /\ pc = "end" /\ pc' = "idle" /\ data' = NoSlice
    /\ step' = IF step = "completed" THEN "start" ELSE step
    /\ IF step \in {"start", "header"}
       THEN Kept /\ req' = Overwritten(req, "buffer", Len(buffer), Len(data.text))
       ELSE UNCHANGED <<buffer, req>>
    /\ UNCHANGED <<sent, stream, body, status, pieces, early, handled>>

\* The answer that the last request waited for.
Answered ==
    /\ pc = "idle" /\ status = "wait"
    /\ status' = "net"
    /\ UNCHANGED <<sent, stream, buffer, data, pc, parser, pieces, early, handled>>

\* Data of another socket is received into the same array.
RecvOther ==
    /\ pc = "idle" /\ status # "closed"
    /\ req' = Overwritten(req, "buf", 0, req.option.at + 1)
    /\ req' # req
    /\ UNCHANGED <<sent, stream, buffer, data, pc, step, body, status, pieces, early, handled>>

Next ==
    \/ \E n \in 1 .. Len(stream) : Recv(n) \/ RecvEarly(n)
    \/ ReadBodyPart \/ ReadBodyEnd
    \/ NoLine \/ StrayBlank \/ StartLine \/ HeaderLine \/ BlankLine \/ EndOfData
    \/ Answered \/ RecvOther

Spec == Init /\ [][Next]_vars

-----------------------------------------------------------------------------
(* Properties *)

\* However the network cuts the stream, the requests that on_recv and
\* header_completed see are those the peer sent, in their order: operation,
\* queue, id, body and keep-alive.
HandledAsSent ==
    /\ Len(handled) <= Len(sent)
    /\ \A k \in DOMAIN handled :
          /\ handled[k].means = sent[k].means
          /\ handled[k].body = sent[k].body
          /\ handled[k].ka = sent[k].ka

\* A request that has arrived is handled in the same call of on_recv: no
\* part of it stays in buffer or body until more data comes.  The exception
\* is data that came before the connection was ready.
NothingLeft ==
    pc = "idle" /\ status = "net" /\ ~early =>
        Len(handled) = Cardinality({k \in DOMAIN sent : EndOf(k) <= Received})

\* While a call waits for its worker, its id and body stay what they were:
\* data that comes early is kept apart from them.
WaitingKept ==
    status = "wait" =>
        LET h == handled[Len(handled)]
        IN  body = h.body /\ Understood(req, Pairs(body)) = h.means

\* The header Option has the value that the peer sent when it is read.
OptionAsSent ==
    \A k \in DOMAIN handled : handled[k].option = sent[k].option
=============================================================================
