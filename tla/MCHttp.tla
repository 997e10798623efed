------------------------------- MODULE MCHttp -------------------------------
(***************************************************************************)
(* Peers for HttpParser: programs that write requests, with bodies of      *)
(* several fields, as the JSON libraries of their languages do.            *)
(***************************************************************************)
EXTENDS HttpParser

Quoted(s) == <<Quote>> \o s \o <<Quote>>

\* A field of a JSON object on the wire: its key and the text of its value.
Field(key, value) == Quoted(<<key>>) \o <<":">> \o value

\* Values with what a scanner may trip over: an escaped quote, an object that
\* has an id of its own and a bracket in a string, an array, a blank.
Noise ==
    {Quoted(<<Escape, Quote, "x">>),
     <<"{">> \o Field("id", Quoted(<<"}">>)) \o <<"}">>,
     <<"[", "1", ",", Newline, "7", "]">>,
     <<" ", "null", " ">>}

Object(fields) == <<"{">> \o fields \o <<"}">>

\* The field f, alone or before or behind another one.
Bodies(f) ==
    {Object(f)} \cup {Object(f \o <<",">> \o Field("x", v)) : v \in Noise}
                \cup {Object(Field("x", v) \o <<",">> \o f) : v \in Noise}

Header(key, value) == IF value = None THEN << >> ELSE <<key, value, Newline>>

\* A request: its first line, its headers, its length and its body.
Post(path, headers, text, means) ==
    [means |-> means, body |-> text, ka |-> TRUE, option |-> << >>,
     wire |-> <<path, "HTTP/1.1", Newline>> \o headers
              \o (IF text = << >> THEN << >> ELSE Header("content-length: ", ToString(Len(text))))
              \o <<Newline>> \o text]

Id7 == Header("id: ", "7")
Host == Header("host: ", "h")
Call7 == Request("call", <<"a">>, <<"7">>)
Result7 == Request("result", None, <<"7">>)

Results ==
    {Post("/", Header("type: ", "result"), t, Result7) : t \in Bodies(Field("id", <<"7">>))}
    \cup {Post("/", Header("type: ", "result") \o Id7, t, Result7) :
            t \in {<< >>, Object(Field("id", <<"1">>))}}
    \cup {Post("7", Header("x-type: ", "result") \o Host, << >>, Result7),
          Post("rpc/result", Id7, << >>, Result7)}

\* A call of a method: with params, and without, where an id has to be there.
Method(m) == Field("method", Quoted(m)) \o <<",">> \o Field("id", Quoted(<<"7">>))
RpcCalls ==
    {Post("rpc/call", << >>, Object(Method(<<"/", "a">>) \o <<",">> \o Field("params", v)), Call7) :
        v \in Noise}
    \cup {Post("rpc/call", << >>, Object(Method(<<"a">>)), Call7),
          Post("rpc/call", << >>, Object(Method(<<"rpc/result">>)), Result7),
          Post("rpc/call", Host, Object(Field("id", <<"7">>)), Request("no method", None, None))}

AB == Request("get", <<"a", "/", "b">>, None)
Adds ==
    {Post("rpc/add", << >>, Object(Field("name", Quoted(<<"a", Escape, "/", "b">>))), AB),
     Post("rpc/add", Header("name: ", "a"), << >>, Request("get", <<"a">>, None)),
     Post("a", Header("type: ", "get+"), << >>, Request("get", <<"a">>, None))}

PlainCalls ==
    {Post("a", << >>, t, Call7) : t \in Bodies(Field("id", <<"7">>))}
    \cup {Post("a", Id7, << >>, Call7),
          Post("a", Id7 \o Header("option: ", "if present"), <<"1">>, Call7),
          Post("a", Header("type: ", "pub"), <<"1">>, Request("pub", <<"a">>, None)),
          Post("a", Header("type: ", "create"), << >>, Request("create", <<"a">>, None)),
          Post("rpc/help", << >>, << >>, Request("page", <<"rpc/help">>, None)),
          Post("echo", Host, << >>, Request("page", <<"echo">>, None))}

\* Requests that are refused: a body that is no JSON, a type that is not
\* known (the request is a call then), a blank or a broken first line.
Broken == [means |-> Invalid, body |-> << >>, ka |-> TRUE, option |-> << >>]
Refused ==
    {Post("/", Header("type: ", "result"), <<"{", "x">>, Invalid),
     Post("a", Header("type: ", "x") \o Id7, << >>, Call7),
     [wire |-> <<Newline, Newline>>] @@ Broken,
     [wire |-> <<"HTTP/1.0", Newline, Newline>>] @@ Broken}

\* More requests behind the first one.
Async == Post("b", Header("type: ", "async"), << >>, Request("async", <<"b">>, None))
Late == Post("b", << >>, Object(Field("id", <<"1">>)), Request("call", <<"b">>, <<"1">>))

AllStreams ==
    {<<r, Async>> : r \in Results \cup RpcCalls \cup Adds \cup PlainCalls \cup Refused}
    \cup {<<r, Late, Async>> : r \in Adds}

\* A call with a header Option and a body.
OptionStreams ==
    {<<[Post("a", Id7 \o Header("option: ", "if present"), <<"1">>, Call7)
        EXCEPT !.option = <<"if present">>]>>}
=============================================================================
