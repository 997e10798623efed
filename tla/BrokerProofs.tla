---------------------------- MODULE BrokerProofs ----------------------------
(***************************************************************************)
(* The type invariant of the broker, the order of its queued messages, and *)
(* the order of arrival, for all values of the constants.                  *)
(*                                                                         *)
(* TypeOK is not inductive: Loop::add_worker takes the names of a worker   *)
(* in worker mode from the connection, so these must not be empty whenever *)
(* such a worker can be added again, and the generated id of a queued call *)
(* must belong to a call that was made.  IInv adds both.                   *)
(***************************************************************************)
EXTENDS BrokerProperties, DequeProofs, TLAPS

\* A Connect that has names if it is in worker mode.
NamedType == {r \in ConnType : r.wm => r.names # << >>}

\* A Connect that may lack names only in status "net": rpc_add leaves the
\* worker mode on, without names, when the body is malformed.
ModeType == {r \in ConnType : r.status = "net" \/ (r.wm => r.names # << >>)}

\* The Connect objects, those of N named.
Connections(N) ==
    {cs \in [Conns -> ModeType] : \A c \in Conns : c \in N => cs[c] \in NamedType}

\* A field of a Connect is replaced by a value of its type.
LEMMA FieldType ==
    ASSUME NEW r \in ConnType
    PROVE  /\ \A v \in {"none", "open", "closed", "freed"} : [r EXCEPT !.sock = v] \in ConnType
           /\ \A v \in Int : [r EXCEPT !.link = v] \in ConnType
           /\ \A v \in Statuses : [r EXCEPT !.status = v] \in ConnType
           /\ \A v \in BOOLEAN : [r EXCEPT !.ka = v] \in ConnType
           /\ \A v \in BOOLEAN : [r EXCEPT !.noid = v] \in ConnType
           /\ \A v \in BOOLEAN : [r EXCEPT !.fail = v] \in ConnType
           /\ \A v \in BOOLEAN : [r EXCEPT !.wm = v] \in ConnType
           /\ \A v \in Conns \cup {None} : [r EXCEPT !.client = v] \in ConnType
           /\ \A v \in AllIds \cup {None} : [r EXCEPT !.id = v] \in ConnType
           /\ \A v \in Ids \cup {None, "malformed"} : [r EXCEPT !.json = v] \in ConnType
           /\ \A v \in Seq(Names) : [r EXCEPT !.names = v] \in ConnType
           /\ \A v \in Names \cup {None} : [r EXCEPT !.item = v] \in ConnType
           /\ \A v \in Names \cup {None} : [r EXCEPT !.sub = v] \in ConnType
           /\ \A v \in Wids \cup {None} : [r EXCEPT !.cid = v] \in ConnType
           /\ \A v \in BOOLEAN : [r EXCEPT !.ping = v] \in ConnType
           /\ \A v \in Int : [r EXCEPT !.dm = v] \in ConnType
           /\ \A v \in Int : [r EXCEPT !.out = v] \in ConnType
           /\ \A v \in BOOLEAN : [r EXCEPT !.wr = v] \in ConnType
<1>1. \A v \in {"none", "open", "closed", "freed"} : [r EXCEPT !.sock = v] \in ConnType
    BY DEF ConnType
<1>2. \A v \in Int : [r EXCEPT !.link = v] \in ConnType BY DEF ConnType
<1>3. \A v \in Statuses : [r EXCEPT !.status = v] \in ConnType BY DEF ConnType
<1>4. \A v \in BOOLEAN : [r EXCEPT !.ka = v] \in ConnType BY Zenon DEF ConnType
<1>5. \A v \in BOOLEAN : [r EXCEPT !.noid = v] \in ConnType BY Zenon DEF ConnType
<1>6. \A v \in BOOLEAN : [r EXCEPT !.fail = v] \in ConnType BY Zenon DEF ConnType
<1>7. \A v \in BOOLEAN : [r EXCEPT !.wm = v] \in ConnType BY Zenon DEF ConnType
<1>8. \A v \in Conns \cup {None} : [r EXCEPT !.client = v] \in ConnType BY DEF ConnType
<1>9. \A v \in AllIds \cup {None} : [r EXCEPT !.id = v] \in ConnType BY DEF ConnType
<1>10. \A v \in Ids \cup {None, "malformed"} : [r EXCEPT !.json = v] \in ConnType
    BY DEF ConnType
<1>11. \A v \in Seq(Names) : [r EXCEPT !.names = v] \in ConnType BY DEF ConnType
<1>12. \A v \in Names \cup {None} : [r EXCEPT !.item = v] \in ConnType BY DEF ConnType
<1>13. \A v \in Names \cup {None} : [r EXCEPT !.sub = v] \in ConnType BY DEF ConnType
<1>14. \A v \in Wids \cup {None} : [r EXCEPT !.cid = v] \in ConnType BY DEF ConnType
<1>15. \A v \in BOOLEAN : [r EXCEPT !.ping = v] \in ConnType BY Zenon DEF ConnType
<1>16. \A v \in Int : [r EXCEPT !.dm = v] \in ConnType BY DEF ConnType
<1>17. \A v \in Int : [r EXCEPT !.out = v] \in ConnType BY DEF ConnType
<1>18. \A v \in BOOLEAN : [r EXCEPT !.wr = v] \in ConnType BY Zenon DEF ConnType
<1> QED BY <1>1, <1>2, <1>3, <1>4, <1>5, <1>6, <1>7, <1>8, <1>9, <1>10, <1>11, <1>12,
           <1>13, <1>14, <1>15, <1>16, <1>17, <1>18

\* Only the fields wm, names and status decide whether a Connect is named.
LEMMA FieldMode ==
    ASSUME NEW r \in ModeType
    PROVE  /\ \A v \in {"none", "open", "closed", "freed"} :
                LET q == [r EXCEPT !.sock = v] IN
                q \in ModeType /\ (r \in NamedType => q \in NamedType)
           /\ \A v \in Int :
                LET q == [r EXCEPT !.link = v] IN
                q \in ModeType /\ (r \in NamedType => q \in NamedType)
           /\ \A v \in BOOLEAN :
                LET q == [r EXCEPT !.ka = v] IN
                q \in ModeType /\ (r \in NamedType => q \in NamedType)
           /\ \A v \in BOOLEAN :
                LET q == [r EXCEPT !.noid = v] IN
                q \in ModeType /\ (r \in NamedType => q \in NamedType)
           /\ \A v \in BOOLEAN :
                LET q == [r EXCEPT !.fail = v] IN
                q \in ModeType /\ (r \in NamedType => q \in NamedType)
           /\ \A v \in Conns \cup {None} :
                LET q == [r EXCEPT !.client = v] IN
                q \in ModeType /\ (r \in NamedType => q \in NamedType)
           /\ \A v \in AllIds \cup {None} :
                LET q == [r EXCEPT !.id = v] IN
                q \in ModeType /\ (r \in NamedType => q \in NamedType)
           /\ \A v \in Ids \cup {None, "malformed"} :
                LET q == [r EXCEPT !.json = v] IN
                q \in ModeType /\ (r \in NamedType => q \in NamedType)
           /\ \A v \in Names \cup {None} :
                LET q == [r EXCEPT !.item = v] IN
                q \in ModeType /\ (r \in NamedType => q \in NamedType)
           /\ \A v \in Names \cup {None} :
                LET q == [r EXCEPT !.sub = v] IN
                q \in ModeType /\ (r \in NamedType => q \in NamedType)
           /\ \A v \in Wids \cup {None} :
                LET q == [r EXCEPT !.cid = v] IN
                q \in ModeType /\ (r \in NamedType => q \in NamedType)
           /\ \A v \in BOOLEAN :
                LET q == [r EXCEPT !.ping = v] IN
                q \in ModeType /\ (r \in NamedType => q \in NamedType)
           /\ \A v \in Int :
                LET q == [r EXCEPT !.dm = v] IN
                q \in ModeType /\ (r \in NamedType => q \in NamedType)
           /\ \A v \in Int :
                LET q == [r EXCEPT !.out = v] IN
                q \in ModeType /\ (r \in NamedType => q \in NamedType)
           /\ \A v \in BOOLEAN :
                LET q == [r EXCEPT !.wr = v] IN
                q \in ModeType /\ (r \in NamedType => q \in NamedType)
<1>1. \A v \in {"none", "open", "closed", "freed"} :
        LET q == [r EXCEPT !.sock = v] IN
        q \in ModeType /\ (r \in NamedType => q \in NamedType)
    BY FieldType DEF ModeType, NamedType, ConnType
<1>2. \A v \in Int :
        LET q == [r EXCEPT !.link = v] IN
        q \in ModeType /\ (r \in NamedType => q \in NamedType)
    BY FieldType, SMTT(30) DEF ModeType, NamedType, ConnType
<1>3. \A v \in BOOLEAN :
        LET q == [r EXCEPT !.ka = v] IN
        q \in ModeType /\ (r \in NamedType => q \in NamedType)
    BY FieldType DEF ModeType, NamedType, ConnType
<1>4. \A v \in BOOLEAN :
        LET q == [r EXCEPT !.noid = v] IN
        q \in ModeType /\ (r \in NamedType => q \in NamedType)
    BY FieldType DEF ModeType, NamedType, ConnType
<1>5. \A v \in BOOLEAN :
        LET q == [r EXCEPT !.fail = v] IN
        q \in ModeType /\ (r \in NamedType => q \in NamedType)
    BY FieldType DEF ModeType, NamedType, ConnType
<1>6. \A v \in Conns \cup {None} :
        LET q == [r EXCEPT !.client = v] IN
        q \in ModeType /\ (r \in NamedType => q \in NamedType)
    BY FieldType DEF ModeType, NamedType, ConnType
<1>7. \A v \in AllIds \cup {None} :
        LET q == [r EXCEPT !.id = v] IN
        q \in ModeType /\ (r \in NamedType => q \in NamedType)
    BY FieldType DEF ModeType, NamedType, ConnType
<1>8. \A v \in Ids \cup {None, "malformed"} :
        LET q == [r EXCEPT !.json = v] IN
        q \in ModeType /\ (r \in NamedType => q \in NamedType)
    BY FieldType DEF ModeType, NamedType, ConnType
<1>9. \A v \in Names \cup {None} :
        LET q == [r EXCEPT !.item = v] IN
        q \in ModeType /\ (r \in NamedType => q \in NamedType)
    BY FieldType DEF ModeType, NamedType, ConnType
<1>10. \A v \in Names \cup {None} :
         LET q == [r EXCEPT !.sub = v] IN
         q \in ModeType /\ (r \in NamedType => q \in NamedType)
    BY FieldType DEF ModeType, NamedType, ConnType
<1>11. \A v \in Wids \cup {None} :
         LET q == [r EXCEPT !.cid = v] IN
         q \in ModeType /\ (r \in NamedType => q \in NamedType)
    BY FieldType DEF ModeType, NamedType, ConnType
<1>12. \A v \in BOOLEAN :
         LET q == [r EXCEPT !.ping = v] IN
         q \in ModeType /\ (r \in NamedType => q \in NamedType)
    BY FieldType DEF ModeType, NamedType, ConnType
<1>13. \A v \in Int :
         LET q == [r EXCEPT !.dm = v] IN
         q \in ModeType /\ (r \in NamedType => q \in NamedType)
    BY FieldType DEF ModeType, NamedType, ConnType
<1>14. \A v \in Int :
         LET q == [r EXCEPT !.out = v] IN
         q \in ModeType /\ (r \in NamedType => q \in NamedType)
    BY FieldType DEF ModeType, NamedType, ConnType
<1>15. \A v \in BOOLEAN :
         LET q == [r EXCEPT !.wr = v] IN
         q \in ModeType /\ (r \in NamedType => q \in NamedType)
    BY FieldType DEF ModeType, NamedType, ConnType
<1> QED BY <1>1, <1>2, <1>3, <1>4, <1>5, <1>6, <1>7, <1>8, <1>9, <1>10, <1>11, <1>12,
           <1>13, <1>14, <1>15

\* The types of the fields.
LEMMA FieldFacts ==
    ASSUME NEW r \in ModeType
    PROVE  /\ r \in ConnType
           /\ r.link \in Int /\ r.link + 1 \in Int /\ r.link - 1 \in Int
           /\ r.out \in Int /\ r.out + 1 \in Int /\ r.dm \in Int /\ r.dm + 1 \in Int /\ r.dm - 1 \in Int
           /\ r.status \in Statuses /\ r.names \in Seq(Names)
           /\ r.client \in Conns \cup {None} /\ r.id \in AllIds \cup {None}
           /\ r.json \in Ids \cup {None, "malformed"}
           /\ r.item \in Names \cup {None} /\ r.sub \in Names \cup {None} /\ r.cid \in Wids \cup {None}
           /\ r.ka \in BOOLEAN /\ r.noid \in BOOLEAN /\ r.fail \in BOOLEAN /\ r.wm \in BOOLEAN
           /\ r.ping \in BOOLEAN /\ r.wr \in BOOLEAN
  BY DEF ModeType, ConnType

\* The values that handlers write.
LEMMA Values ==
    /\ "net" \in Statuses /\ "worker_wait_job" \in Statuses /\ "worker_wait_result" \in Statuses
    /\ "client_wait_result" \in Statuses /\ "busy" \in Statuses /\ "worker_mode_async" \in Statuses
    /\ 0 \in Int /\ 1 \in Int
  BY DEF Statuses

\* A Connect may become "net", and a named one any status.
LEMMA StatusMode ==
    ASSUME NEW r \in ModeType, NEW s \in Statuses, s = "net" \/ r \in NamedType
    PROVE  LET q == [r EXCEPT !.status = s] IN q \in ModeType /\ (r \in NamedType => q \in NamedType)
  BY FieldType DEF ModeType, NamedType, ConnType

\* One of the connections.
LEMMA GetConn ==
    ASSUME NEW N, NEW cs \in Connections(N), NEW c \in Conns
    PROVE  cs[c] \in ModeType /\ (c \in N => cs[c] \in NamedType)
  BY DEF Connections

\* One of the connections is replaced.
LEMMA SetConn ==
    ASSUME NEW N, NEW cs \in Connections(N), NEW c \in Conns, NEW r \in ModeType,
           c \in N => r \in NamedType
    PROVE  [cs EXCEPT ![c] = r] \in Connections(N)
  BY DEF Connections

\* The same for a field of one of the connections.
LEMMA FieldConn ==
    ASSUME NEW N, NEW cs \in Connections(N), NEW c \in Conns
    PROVE  /\ \A v \in {"none", "open", "closed", "freed"} : [cs EXCEPT ![c].sock = v] \in Connections(N)
           /\ \A v \in Int : [cs EXCEPT ![c].link = v] \in Connections(N)
           /\ \A v \in BOOLEAN : [cs EXCEPT ![c].ka = v] \in Connections(N)
           /\ \A v \in BOOLEAN : [cs EXCEPT ![c].noid = v] \in Connections(N)
           /\ \A v \in BOOLEAN : [cs EXCEPT ![c].fail = v] \in Connections(N)
           /\ \A v \in Conns \cup {None} : [cs EXCEPT ![c].client = v] \in Connections(N)
           /\ \A v \in AllIds \cup {None} : [cs EXCEPT ![c].id = v] \in Connections(N)
           /\ \A v \in Ids \cup {None, "malformed"} : [cs EXCEPT ![c].json = v] \in Connections(N)
           /\ \A v \in Names \cup {None} : [cs EXCEPT ![c].item = v] \in Connections(N)
           /\ \A v \in Names \cup {None} : [cs EXCEPT ![c].sub = v] \in Connections(N)
           /\ \A v \in Wids \cup {None} : [cs EXCEPT ![c].cid = v] \in Connections(N)
           /\ \A v \in BOOLEAN : [cs EXCEPT ![c].ping = v] \in Connections(N)
           /\ \A v \in Int : [cs EXCEPT ![c].dm = v] \in Connections(N)
           /\ \A v \in Int : [cs EXCEPT ![c].out = v] \in Connections(N)
           /\ \A v \in BOOLEAN : [cs EXCEPT ![c].wr = v] \in Connections(N)
<1>1. \A v \in {"none", "open", "closed", "freed"} : [cs EXCEPT ![c].sock = v] \in Connections(N)
    BY FieldMode, GetConn, SetConn
<1>2. \A v \in Int : [cs EXCEPT ![c].link = v] \in Connections(N) BY FieldMode, GetConn, SetConn
<1>3. \A v \in BOOLEAN : [cs EXCEPT ![c].ka = v] \in Connections(N)
    BY FieldMode, GetConn, SetConn
<1>4. \A v \in BOOLEAN : [cs EXCEPT ![c].noid = v] \in Connections(N)
    BY FieldMode, GetConn, SetConn
<1>5. \A v \in BOOLEAN : [cs EXCEPT ![c].fail = v] \in Connections(N)
    BY FieldMode, GetConn, SetConn
<1>6. \A v \in Conns \cup {None} : [cs EXCEPT ![c].client = v] \in Connections(N)
    BY FieldMode, GetConn, SetConn
<1>7. \A v \in AllIds \cup {None} : [cs EXCEPT ![c].id = v] \in Connections(N)
    BY FieldMode, GetConn, SetConn
<1>8. \A v \in Ids \cup {None, "malformed"} : [cs EXCEPT ![c].json = v] \in Connections(N)
    BY FieldMode, GetConn, SetConn
<1>9. \A v \in Names \cup {None} : [cs EXCEPT ![c].item = v] \in Connections(N)
    BY FieldMode, GetConn, SetConn
<1>10. \A v \in Names \cup {None} : [cs EXCEPT ![c].sub = v] \in Connections(N)
    BY FieldMode, GetConn, SetConn
<1>11. \A v \in Wids \cup {None} : [cs EXCEPT ![c].cid = v] \in Connections(N)
    BY FieldMode, GetConn, SetConn
<1>12. \A v \in BOOLEAN : [cs EXCEPT ![c].ping = v] \in Connections(N)
    BY FieldMode, GetConn, SetConn
<1>13. \A v \in Int : [cs EXCEPT ![c].dm = v] \in Connections(N) BY FieldMode, GetConn, SetConn
<1>14. \A v \in Int : [cs EXCEPT ![c].out = v] \in Connections(N) BY FieldMode, GetConn, SetConn
<1>15. \A v \in BOOLEAN : [cs EXCEPT ![c].wr = v] \in Connections(N)
    BY FieldMode, GetConn, SetConn
<1> QED BY <1>1, <1>2, <1>3, <1>4, <1>5, <1>6, <1>7, <1>8, <1>9, <1>10, <1>11, <1>12,
           <1>13, <1>14, <1>15

\* Connect::link keeps the types.
LEMMA LinkType ==
    ASSUME NEW N, NEW cs \in Connections(N), NEW c \in Conns
    PROVE  Link(cs, c) \in Connections(N)
  BY FieldConn, FieldFacts, GetConn DEF Link

\* Connect::unlink keeps the types.
LEMMA UnlinkType ==
    ASSUME NEW N, NEW cs \in Connections(N), NEW c \in Conns
    PROVE  Unlink(cs, c) \in Connections(N)
  BY FieldConn, FieldFacts, GetConn DEF Unlink

\* HttpSender keeps the types.
LEMMA SendType ==
    ASSUME NEW N, NEW cs \in Connections(N), NEW c \in Conns
    PROVE  Send(cs, c) \in Connections(N)
  BY FieldConn, FieldFacts, GetConn DEF Send

\* A status other than "net" is for named connections.
LEMMA SetStatusType ==
    ASSUME NEW N, NEW cs \in Connections(N), NEW c \in Conns, NEW s \in Statuses,
           s = "net" \/ cs[c] \in NamedType
    PROVE  SetStatus(cs, c, s) \in Connections(N)
  BY StatusMode, FieldFacts, GetConn, SetConn DEF SetStatus

\* WorkerItem::pop keeps the types.
LEMMA PopItemType ==
    ASSUME NEW N, NEW cs \in Connections(N), NEW c \in Conns
    PROVE  PopItem(cs, c) \in Connections(N)
  BY FieldConn, FieldFacts, GetConn DEF PopItem

\* WorkerList::push keeps the types.
LEMMA PushItemType ==
    ASSUME NEW N, NEW cs \in Connections(N), NEW c \in Conns, NEW n \in Names
    PROVE  PushItem(cs, c, n) \in Connections(N)
  BY FieldConn, FieldFacts, GetConn DEF PushItem

\* The type of wait_response.
WaitType == [AllIds -> Conns \cup {None}]

\* Answering a client of wait_response keeps the types.
LEMMA ResultClientType ==
    ASSUME NEW N, NEW cs \in Connections(N), NEW ws, NEW i, ws[i] \in Conns
    PROVE  ResultClient(cs, ws, i) \in Connections(N)
<1>1. Unlink(cs, ws[i]) \in Connections(N) BY UnlinkType
<1>2. SetStatus(Send(Unlink(cs, ws[i]), ws[i]), ws[i], "net") \in Connections(N)
    BY <1>1, SendType, SetStatusType, Values
<1> QED BY <1>1, <1>2 DEF ResultClient

\* The first part of Loop::on_disconnect keeps the types.
LEMMA DropOwnType ==
    ASSUME NEW N, NEW cs \in Connections(N), NEW ws, NEW c \in Conns
    PROVE  DropOwn(cs, ws, c) \in Connections(N)
<1> DEFINE p == PopItem(cs, c)
          q == [p EXCEPT ![c].sock = "closed", ![c].wr = FALSE, ![c].dm = 0, ![c].out = 0]
          waits == cs[c].status = "client_wait_result" /\ cs[c].id # None /\ ws[cs[c].id] # None
<1>1. p \in Connections(N) BY PopItemType
<1> HIDE DEF p
<1>2. q \in Connections(N) BY <1>1, FieldConn, Values
<1> HIDE DEF q
<1>3. [q EXCEPT ![c].link = IF waits THEN @ - 1 ELSE @] \in Connections(N)
    BY <1>2, FieldConn, FieldFacts, GetConn
<1>4. DropOwn(cs, ws, c) = [q EXCEPT ![c].link = IF waits THEN @ - 1 ELSE @]
    BY ZenonT(40) DEF DropOwn, p, q
<1> QED BY <1>3, <1>4

\* Answering the client of a lost worker keeps the types.
LEMMA FailClientType ==
    ASSUME NEW N, NEW cs \in Connections(N), NEW ws \in WaitType, NEW c \in Conns
    PROVE  FailClient(cs, ws, c) \in Connections(N)
<1> DEFINE d == cs[c].client
          sent == IF IsClosed(cs, d) THEN cs ELSE Send(cs, d)
<1>1. CASE ~cs[c].fail \/ d = None BY <1>1 DEF FailClient
<1>2. CASE cs[c].fail /\ d # None
  <2>1. d \in Conns /\ cs[d].id \in AllIds \cup {None} BY <1>2, GetConn, FieldFacts
  <2>2. sent \in Connections(N) BY <2>1, SendType
  <2>3. SetStatus(sent, d, "net") \in Connections(N) BY <2>1, <2>2, SetStatusType, Values
  <2>4. ASSUME cs[d].id # None, ws[cs[d].id] # None
        PROVE  ResultClient(cs, ws, cs[d].id) \in Connections(N)
      BY <2>1, <2>4, ResultClientType DEF WaitType
  <2> DEFINE answered == IF cs[c].noid THEN SetStatus(sent, d, "net")
                         ELSE IF cs[d].id = None \/ ws[cs[d].id] = None THEN cs
                         ELSE ResultClient(cs, ws, cs[d].id)
  <2>5. answered \in Connections(N) BY <2>3, <2>4
  <2>6. FailClient(cs, ws, c) = [Unlink(answered, d) EXCEPT ![c].client = None]
      BY <1>2 DEF FailClient
  <2> HIDE DEF answered, d
  <2>7. Unlink(answered, d) \in Connections(N) BY <2>1, <2>5, UnlinkType
  <2>8. [Unlink(answered, d) EXCEPT ![c].client = None] \in Connections(N) BY <2>7, FieldConn
  <2> QED BY <2>6, <2>8
<1> QED BY <1>1, <1>2

\* Loop::_close keeps the types.
LEMMA DisconnectType ==
    ASSUME NEW N, NEW cs \in Connections(N), NEW ws \in WaitType, NEW c \in Conns,
           alive \in BOOLEAN, Disconnect(cs, ws, c)
    PROVE  conn' \in Connections(N) /\ wait' \in WaitType /\ alive' \in BOOLEAN
<1> DEFINE cs1 == DropOwn(cs, ws, c)
          ws1 == DropEntry(cs, ws, c)
<1>1. cs1 \in Connections(N) BY DropOwnType
<1>2. ws1 \in WaitType BY DEF DropEntry, WaitType
<1>3. CASE DisconnectThrows(cs1, c) BY <1>1, <1>2, <1>3 DEF Disconnect
<1>4. CASE ~DisconnectThrows(cs1, c)
  <2>1. conn' = Unlink(FailClient(cs1, ws1, c), c) /\ wait' = FailEntry(cs1, ws1, c) /\ alive' = alive
      BY <1>4 DEF Disconnect
  <2> HIDE DEF cs1, ws1
  <2>2. conn' \in Connections(N) BY <1>1, <1>2, <2>1, FailClientType, UnlinkType
  <2>3. wait' \in WaitType BY <1>2, <2>1 DEF FailEntry, WaitType
  <2> QED BY <2>1, <2>2, <2>3
<1> QED BY <1>3, <1>4

\* The types of the fields of a request.
LEMMA RequestFacts ==
    ASSUME NEW r \in RequestType
    PROVE  /\ r.id \in AllIds \cup {None} /\ r.json \in Ids \cup {None, "malformed"}
           /\ r.ka \in BOOLEAN /\ r.ping \in BOOLEAN /\ r.wid \in Wids \cup {None}
           /\ r.names \in Seq(Names) /\ r.prio \in Int
  BY DEF RequestType

\* HTTP_START keeps the names of a worker in worker mode.
LEMMA NamesMode ==
    ASSUME NEW r \in ModeType
    PROVE  LET q == [r EXCEPT !.names = IF r.wm THEN @ ELSE << >>]
           IN  q \in ModeType /\ (r \in NamedType => q \in NamedType)
<1>1. << >> \in Seq(Names) OBVIOUS
<1>2. r.names \in Seq(Names) BY FieldFacts
<1>3. \A v \in Seq(Names) : [r EXCEPT !.names = v] \in ConnType BY FieldType DEF ModeType
<1>4. CASE r.wm
  <2>1. [r EXCEPT !.names = IF r.wm THEN @ ELSE << >>] = r BY <1>4 DEF ModeType, ConnType
  <2> QED BY <2>1
<1>5. CASE ~r.wm
  <2>1. [r EXCEPT !.names = IF r.wm THEN @ ELSE << >>] = [r EXCEPT !.names = << >>] BY <1>5
  <2>2. [r EXCEPT !.names = << >>] \in ConnType BY <1>1, <1>3
  <2>3. ~[r EXCEPT !.names = << >>].wm BY <1>5 DEF ModeType, ConnType
  <2> QED BY <2>1, <2>2, <2>3 DEF ModeType, NamedType
<1> QED BY <1>4, <1>5

\* The headers keep the type, the status and the mode.
LEMMA HeadersType ==
    ASSUME NEW x \in ModeType, NEW r \in RequestType
    PROVE  LET q == Headers(x, r)
           IN  /\ q \in ModeType /\ (x \in NamedType => q \in NamedType)
               /\ q.status = x.status /\ q.wm = x.wm /\ q.noid = x.noid
<1> DEFINE f == [x EXCEPT !.id = r.id, !.json = r.json, !.ka = r.ka]
          g == [f EXCEPT !.names = IF f.wm THEN @ ELSE << >>]
          h == [g EXCEPT !.ping = @ \/ r.ping,
                  !.cid = IF r.op \in {"get", "get+", "worker"} /\ r.wid # None THEN r.wid ELSE @]
<1>1. f \in ModeType /\ (x \in NamedType => f \in NamedType) BY FieldMode, RequestFacts
<1>2. f.status = x.status /\ f.wm = x.wm /\ f.noid = x.noid BY DEF ModeType, ConnType
<1>3. g \in ModeType /\ (x \in NamedType => g \in NamedType)
  <2> HIDE DEF f
  <2> QED BY <1>1, NamesMode
<1>4. h \in ModeType /\ (x \in NamedType => h \in NamedType)
  <2> HIDE DEF g
  <2> QED BY <1>3, FieldMode, FieldFacts, RequestFacts
<1>5. h.status = x.status /\ h.wm = x.wm /\ h.noid = x.noid
  <2> HIDE DEF f
  <2>1. g.status = x.status /\ g.wm = x.wm /\ g.noid = x.noid
      BY <1>1, <1>2 DEF ModeType, ConnType
  <2> HIDE DEF g
  <2> QED BY <1>3, <2>1 DEF ModeType, ConnType
<1>6. Headers(x, r) = h BY <1>2 DEF Headers
<1> QED BY <1>4, <1>5, <1>6

\* HTTP_START keeps the type, the status and the worker mode.
LEMMA ResetType ==
    ASSUME NEW x \in ModeType
    PROVE  /\ Reset(x) \in ModeType /\ (x \in NamedType => Reset(x) \in NamedType)
           /\ Reset(x).status = x.status /\ Reset(x).wm = x.wm /\ ~Reset(x).noid
<1>1. Reset(x) \in ModeType /\ (x \in NamedType => Reset(x) \in NamedType)
    BY FieldMode DEF Reset
<1>2. Reset(x).status = x.status /\ Reset(x).wm = x.wm /\ ~Reset(x).noid
    BY DEF Reset, ModeType, ConnType
<1> QED BY <1>1, <1>2

\* Connect::unlink changes no status and no mode.
LEMMA UnlinkFields ==
    ASSUME NEW N, NEW cs \in Connections(N), NEW c \in Conns, NEW d \in Conns
    PROVE  /\ Unlink(cs, c)[d].status = cs[d].status
           /\ Unlink(cs, c)[d].wm = cs[d].wm
<1>1. cs[d] \in ConnType /\ cs[c] \in ConnType BY GetConn, FieldFacts
<1>2. Unlink(cs, c)[d] = IF d = c THEN [cs[c] EXCEPT !.link = @ - 1] ELSE cs[d]
    BY DEF Unlink, Connections
<1> QED BY <1>1, <1>2 DEF ConnType

\* HTTP_START and the headers leave every status and the worker mode.
LEMMA StartType ==
    ASSUME NEW N, NEW cs \in Connections(N), NEW c \in Conns, NEW r \in RequestType
    PROVE  /\ Start(cs, c, r) \in Connections(N)
           /\ \A d \in Conns : Start(cs, c, r)[d].status = cs[d].status
           /\ Start(cs, c, r)[c].wm = cs[c].wm
           /\ (cs[c].status = "worker_wait_result" \/ cs[c].wm)
                => Start(cs, c, r)[c].noid = cs[c].noid
<1> DEFINE d == cs[c].client
          free == IF d = None THEN cs ELSE Unlink(cs, d)
          q == Headers(Reset(free[c]), r)
          p == Headers(cs[c], r)
<1>1. d \in Conns \cup {None} /\ cs[c] \in ModeType /\ (c \in N => cs[c] \in NamedType)
    BY GetConn, FieldFacts
<1>2. /\ free \in Connections(N)
      /\ \A e \in Conns : free[e].status = cs[e].status /\ free[e].wm = cs[e].wm
    BY <1>1, UnlinkType, UnlinkFields
<1>3. CASE cs[c].status # "worker_wait_result" /\ ~cs[c].wm
  <2>1. Start(cs, c, r) = [free EXCEPT ![c] = q] BY <1>3 DEF Start
  <2> HIDE DEF free
  <2>2. free[c] \in ModeType /\ (c \in N => free[c] \in NamedType) BY <1>2, GetConn
  <2>3. Reset(free[c]) \in ModeType /\ (c \in N => Reset(free[c]) \in NamedType)
      BY <2>2, ResetType
  <2>4. /\ q \in ModeType /\ (c \in N => q \in NamedType)
        /\ q.status = cs[c].status /\ q.wm = cs[c].wm
      BY <1>2, <2>2, <2>3, ResetType, HeadersType
  <2> HIDE DEF q
  <2>5. Start(cs, c, r) \in Connections(N)
    <3>1. free \in Connections(N) BY <1>2
    <3>2. q \in ModeType /\ (c \in N => q \in NamedType) BY <2>4
    <3>3. [free EXCEPT ![c] = q] \in Connections(N) BY <3>1, <3>2, SetConn
    <3> QED BY <2>1, <3>3
  <2>6. \A e \in Conns : Start(cs, c, r)[e] = IF e = c THEN q ELSE free[e]
      BY <1>2, <2>1 DEF Connections
  <2> QED BY <1>2, <1>3, <2>4, <2>5, <2>6
<1>4. CASE ~(cs[c].status # "worker_wait_result" /\ ~cs[c].wm)
  <2>1. Start(cs, c, r) = [cs EXCEPT ![c] = p] BY <1>4 DEF Start
  <2>2. /\ p \in ModeType /\ (c \in N => p \in NamedType)
        /\ p.status = cs[c].status /\ p.wm = cs[c].wm /\ p.noid = cs[c].noid
      BY <1>1, HeadersType
  <2> HIDE DEF p
  <2>3. Start(cs, c, r) \in Connections(N) BY <2>1, <2>2, SetConn, ZenonT(40)
  <2>4. \A e \in Conns : Start(cs, c, r)[e] = IF e = c THEN p ELSE cs[e]
      BY <2>1 DEF Connections
  <2> QED BY <2>2, <2>3, <2>4
<1> QED BY <1>3, <1>4

\* Loop::worker_result_noid keeps the types.
LEMMA NoIdResultType ==
    ASSUME NEW N, NEW cs \in Connections(N), NEW w \in Conns, cs[w].client # None
    PROVE  NoIdResult(cs, w) \in Connections(N)
<1> DEFINE d == cs[w].client
          u == [Unlink(cs, d) EXCEPT ![w].client = None,
                  ![w].noid = IF cs[w].wm THEN @ ELSE FALSE,
                  ![w].fail = IF cs[w].wm THEN @ ELSE FALSE]
<1>1. d \in Conns BY GetConn, FieldFacts
<1> HIDE DEF d
<1>2. Unlink(cs, d) \in Connections(N) BY <1>1, UnlinkType
<1>3. u \in Connections(N) BY <1>2, FieldConn, FieldFacts, GetConn
<1> HIDE DEF u
<1>4. SetStatus(u, d, "net") \in Connections(N) BY <1>1, <1>3, SetStatusType, Values
<1>5. Send(SetStatus(u, d, "net"), d) \in Connections(N) BY <1>1, <1>4, SendType
<1> QED BY <1>3, <1>5 DEF NoIdResult, d, u

\* Erasing workers from a queue keeps the types.
LEMMA ReleaseType ==
    ASSUME NEW N, NEW cs \in Connections(N), NEW s \in Seq(Conns), NEW R \in SUBSET DOMAIN s
    PROVE  Release(cs, s, R) \in Connections(N)
<1>1. ASSUME NEW c \in Conns
      PROVE  LET q == [cs[c] EXCEPT !.link = @ - Cardinality({i \in R : s[i] = c})]
             IN  q \in ModeType /\ (c \in N => q \in NamedType)
  <2>0. Len(s) \in Nat /\ {i \in R : s[i] = c} \in SUBSET (1 .. Len(s)) OBVIOUS
  <2>1. Cardinality({i \in R : s[i] = c}) \in Nat BY <2>0, PositionsFinite
  <2>2. cs[c] \in ModeType /\ (c \in N => cs[c] \in NamedType) BY GetConn
  <2>3. cs[c].link - Cardinality({i \in R : s[i] = c}) \in Int BY <2>1, <2>2, FieldFacts
  <2> QED BY <2>2, <2>3, FieldMode
<1> QED BY <1>1 DEF Release, Connections

\* A queued message is the call of the client it points to.
OwnedMsg == {m \in MsgType : m.job[2] <= calls[m.job[1]] /\ m.conn \in {None, m.job[1]}}

\* What the scan of the queued messages does to their clients.
LEMMA AfterScanType ==
    ASSUME NEW N, NEW cs \in Connections(N), NEW ws \in WaitType, NEW w \in Conns,
           NEW s \in Seq(OwnedMsg), calls \in [Conns -> 0 .. MaxCalls],
           \A c \in Conns : cs[c].status # "net" => c \in N
    PROVE  /\ AfterScan(cs, ws, w, s) \in Connections(N)
           /\ Scanned(cs, ws, w, s) \in SUBSET DOMAIN s
<1> DEFINE R == Scanned(cs, ws, w, s)
          is(c, v) == \E i \in R : s[i].conn = c /\ Verdict(cs, ws, w, s[i]) = v
          no(c) == is(c, "noid") \/ is(c, "collision")
<1>1. R \in SUBSET DOMAIN s BY DEF Scanned
<1>2. ASSUME NEW c \in Conns
      PROVE  LET q == [cs[c] EXCEPT
                    !.link = @ - Cardinality({i \in R : s[i].conn = c}),
                    !.out = IF no(c) THEN @ + 1 ELSE @,
                    !.wr = no(c) \/ @,
                    !.id = IF is(c, "collision") THEN CallId(cs, c, <<c, calls[c]>>) ELSE @,
                    !.status = IF is(c, "collision") THEN "net"
                               ELSE IF is(c, "noid") THEN "busy" ELSE @]
             IN  q \in ModeType /\ (c \in N => q \in NamedType)
  <2> DEFINE n == Cardinality({i \in R : s[i].conn = c})
  <2>1. n \in Nat
    <3>1. Len(s) \in Nat /\ {i \in R : s[i].conn = c} \in SUBSET (1 .. Len(s)) BY <1>1
    <3> QED BY <3>1, PositionsFinite
  <2>2. cs[c] \in ModeType /\ (c \in N => cs[c] \in NamedType) BY GetConn
  <2>3. is(c, "noid") => cs[c].status = "client_wait_result"
    <3>1. ASSUME NEW i \in R, s[i].conn = c, Verdict(cs, ws, w, s[i]) = "noid"
          PROVE  cs[c].status = "client_wait_result"
        BY <3>1 DEF Verdict
    <3> QED BY <3>1
  <2>4. is(c, "noid") => c \in N BY <2>3
  <2>5. is(c, "collision") => CallId(cs, c, <<c, calls[c]>>) \in AllIds \cup {None}
    <3>1. cs[c].id \in AllIds \cup {None} BY <2>2, FieldFacts
    <3>2. Ids \subseteq AllIds BY DEF AllIds
    <3>0. SUFFICES ASSUME is(c, "collision") PROVE CallId(cs, c, <<c, calls[c]>>) \in AllIds \cup {None}
        OBVIOUS
    <3>3. calls[c] \in 1 .. MaxCalls
      <4>1. PICK i \in R : s[i].conn = c BY <3>0
      <4>2. s[i] \in OwnedMsg BY <1>1, <4>1
      <4>3. s[i].job \in Job /\ s[i].job[2] <= calls[s[i].job[1]] /\ s[i].conn \in {None, s[i].job[1]}
          BY <4>2 DEF OwnedMsg, MsgType
      <4>4. s[i].job[1] = c BY <4>1, <4>3, NoneAssumption
      <4>5. s[i].job[2] \in 1 .. MaxCalls BY <4>3 DEF Job
      <4> QED BY <4>3, <4>4, <4>5, BoundsAssumption
    <3>4. <<c, calls[c]>> \in Job BY <3>3 DEF Job
    <3>5. Generated[<<c, calls[c]>>] \in AllIds BY <3>4, GeneratedAssumption
    <3> QED BY <3>1, <3>2, <3>5 DEF CallId
  <2> DEFINE st == IF is(c, "collision") THEN "net" ELSE IF is(c, "noid") THEN "busy" ELSE cs[c].status
            x == [cs[c] EXCEPT !.link = @ - n, !.out = IF no(c) THEN @ + 1 ELSE @]
            y == [x EXCEPT !.wr = no(c) \/ @,
                           !.id = IF is(c, "collision") THEN CallId(cs, c, <<c, calls[c]>>) ELSE @]
            z == [y EXCEPT !.status = IF is(c, "collision") THEN "net"
                                      ELSE IF is(c, "noid") THEN "busy" ELSE @]
  <2> HIDE DEF R, is, n
  <2>6. cs[c].link - n \in Int BY <2>1, <2>2, FieldFacts
  <2>7. /\ x \in ModeType /\ (c \in N => x \in NamedType)
        /\ x.status = cs[c].status
    <3>1. x \in ModeType /\ (c \in N => x \in NamedType) BY <2>2, <2>6, FieldMode, FieldFacts
    <3> QED BY <2>2, <3>1 DEF ModeType, ConnType
  <2> HIDE DEF x
  <2>8. /\ y \in ModeType /\ (c \in N => y \in NamedType)
        /\ y.status = cs[c].status
    <3>1. y \in ModeType /\ (c \in N => y \in NamedType) BY <2>5, <2>7, FieldMode, FieldFacts
    <3> QED BY <2>7, <3>1 DEF ModeType, ConnType
  <2> HIDE DEF y
  <2>9. st \in Statuses /\ (st = "net" \/ y \in NamedType)
    <3>1. cs[c].status \in Statuses BY <2>2, FieldFacts
    <3> QED BY <2>4, <2>8, <3>1, Values
  <2>10. z = [y EXCEPT !.status = st] BY <2>8
  <2>11. z \in ModeType /\ (c \in N => z \in NamedType) BY <2>8, <2>9, <2>10, StatusMode
  <2> QED BY <2>11 DEF x, y, n
<1> QED BY <1>1, <1>2 DEF AfterScan, Connections

\* Leaving a list keeps the types and the status.
LEMMA LeaveOtherType ==
    ASSUME NEW N, NEW cs \in Connections(N), NEW w \in Conns, NEW n
    PROVE  /\ LeaveOther(cs, w, n) \in Connections(N)
           /\ \A d \in Conns : LeaveOther(cs, w, n)[d].status = cs[d].status
<1> DEFINE p == PopItem(cs, w)
          q == [p EXCEPT ![w].dm = 0]
<1>1. p \in Connections(N) BY PopItemType
<1>2. ASSUME NEW d \in Conns PROVE p[d].status = cs[d].status
  <2>1. cs[d] \in ConnType /\ cs[w] \in ConnType BY GetConn, FieldFacts
  <2>2. p[d] = IF cs[w].item = None \/ d # w THEN cs[d] ELSE [cs[w] EXCEPT !.item = None, !.link = @ - 1]
      BY DEF PopItem, Connections
  <2> QED BY <2>1, <2>2 DEF ConnType
<1> HIDE DEF p
<1>3. q \in Connections(N) BY <1>1, FieldConn, Values
<1>4. ASSUME NEW d \in Conns PROVE q[d].status = p[d].status
  <2>1. p[d] \in ConnType /\ p[w] \in ConnType BY <1>1, GetConn, FieldFacts
  <2>2. q[d] = IF d = w THEN [p[w] EXCEPT !.dm = 0] ELSE p[d] BY <1>1 DEF Connections
  <2> QED BY <2>1, <2>2 DEF ConnType
<1>5. LeaveOther(cs, w, n) = q \/ LeaveOther(cs, w, n) = cs BY DEF LeaveOther, p
<1> QED BY <1>2, <1>3, <1>4, <1>5

\* Joining a list keeps the types.
LEMMA RegisterType ==
    ASSUME NEW N, NEW cs \in Connections(N), NEW w \in Conns, NEW n \in Names
    PROVE  Register(cs, w, n) \in Connections(N)
<1> DEFINE listed == IF cs[w].wm \/ cs[w].noid \/ cs[w].status = "worker_wait_job"
                     THEN PushItem(cs, w, n) ELSE cs
<1>1. listed \in Connections(N) BY PushItemType
<1> HIDE DEF listed
<1>2. [listed EXCEPT ![w].sub = n] \in Connections(N) BY <1>1, FieldConn
<1> QED BY <1>1, <1>2 DEF Register, listed

\* The status after a message without result.
LEMMA AfterAsyncType ==
    ASSUME NEW cs, NEW w
    PROVE  AfterAsync(cs, w) \in Statuses
  BY Values DEF AfterAsync

\* The id of a call is an id.
LEMMA CallIdType ==
    ASSUME NEW N, NEW cs \in Connections(N), NEW c \in Conns, NEW j \in Job
    PROVE  CallId(cs, c, j) \in AllIds
<1>1. cs[c].id \in AllIds \cup {None} BY GetConn, FieldFacts
<1> QED BY <1>1, GeneratedAssumption DEF CallId, AllIds

-----------------------------------------------------------------------------
(* The inductive invariant *)

\* The parts of the inductive invariant.  The connections ...
ConnInv == conn \in [Conns -> ModeType]

\* ... the queues, of messages that belong to calls made ...
LineOf(S) == [ex : BOOLEAN, workers : Seq(Conns), clients : Seq(S)]
LineType == LineOf(OwnedMsg)
QueueInv == queue \in [Names -> LineType]

\* ... the registration in progress, of a named worker ...
AddingInv ==
    /\ adding \in [conn : Conns \cup {None}, names : Seq(Names)]
    /\ adding.conn = None <=> adding.names = << >>
    /\ adding.conn # None => conn[adding.conn] \in NamedType

\* ... and the history.
HistoryInv ==
    /\ owed \in [Conns -> Int]
    /\ calls \in [Conns -> 0 .. MaxCalls]
    /\ asked \in [Conns -> SUBSET Names]
    /\ given \in [Job -> Nat]
    /\ task \in [Conns \cup AllIds -> Job \cup {None}]

\* The inductive invariant.
IInv ==
    /\ ConnInv /\ QueueInv /\ wait \in WaitType
    /\ AddingInv /\ alive \in BOOLEAN /\ HistoryInv

\* The connections that are named now; no step makes one of them unnamed.
Named == {c \in Conns : conn[c] \in NamedType}

\* The connections now, and which of them are named.
LEMMA NamedConnections ==
    ASSUME ConnInv
    PROVE  /\ conn \in Connections(Named)
           /\ \A c \in Conns : conn[c].status # "net" \/ ~conn[c].wm => c \in Named
  BY DEF ConnInv, Connections, Named, ModeType, NamedType

\* Connect objects of the right type satisfy ConnInv.
LEMMA ConnectionsInv ==
    ASSUME NEW N, conn' \in Connections(N)
    PROVE  ConnInv'
  BY DEF ConnInv, Connections

\* No registration is in progress.
LEMMA IdleInv ==
    ASSUME adding' = Idle
    PROVE  AddingInv'
  BY DEF AddingInv, Idle

\* Calls are only counted up, so the queued messages keep their owners.
LEMMA OwnedMsgKept ==
    ASSUME HistoryInv, NEW c \in Conns,
           calls' = calls \/ calls' = [calls EXCEPT ![c] = @ + 1]
    PROVE  /\ OwnedMsg \subseteq OwnedMsg'
           /\ LineType \subseteq LineType'
<1>1. \A d \in Conns : calls[d] \in Int /\ calls'[d] \in Int /\ calls[d] <= calls'[d]
    BY BoundsAssumption DEF HistoryInv
<1>2. ASSUME NEW m \in OwnedMsg PROVE m \in OwnedMsg'
  <2>1. m \in MsgType /\ m.job \in Job /\ m.job[2] <= calls[m.job[1]] /\ m.conn \in {None, m.job[1]}
      BY DEF OwnedMsg, MsgType
  <2>2. m.job[1] \in Conns /\ m.job[2] \in Int BY <2>1, BoundsAssumption DEF Job
  <2>3. m.job[2] <= calls'[m.job[1]] BY <1>1, <2>1, <2>2
  <2> QED BY <2>1, <2>3 DEF OwnedMsg
<1>3. Seq(OwnedMsg) \subseteq Seq(OwnedMsg') BY <1>2
<1>4. LineType \subseteq LineType' BY <1>3 DEF LineType, LineOf
<1> QED BY <1>2, <1>4

\* The queues stay as they are.
LEMMA QueueKept ==
    ASSUME QueueInv, HistoryInv, NEW c \in Conns, UNCHANGED queue,
           calls' = calls \/ calls' = [calls EXCEPT ![c] = @ + 1]
    PROVE  QueueInv'
  BY OwnedMsgKept DEF QueueInv

-----------------------------------------------------------------------------
(* Every step preserves the inductive invariant *)

\* A new Connect has its type.
LEMMA NewConnType ==
    ASSUME NEW sock \in {"none", "open"},
           NEW noid \in BOOLEAN, NEW fail \in BOOLEAN, NEW ka \in BOOLEAN
    PROVE  NewConn(sock, noid, fail, ka) \in ModeType
           /\ NewConn(sock, noid, fail, ka) \in NamedType
<1>1. << >> \in Seq(Names) /\ "net" \in Statuses BY Values
<1>2. NewConn(sock, noid, fail, ka) \in ConnType BY <1>1 DEF NewConn, ConnType
<1> QED BY <1>2 DEF NewConn, ModeType, NamedType

\* The invariant holds initially.
LEMMA InitInv == Init => IInv
<1> SUFFICES ASSUME Init PROVE IInv OBVIOUS
<1> DEFINE x == [NewConn("none", FALSE, FALSE, FALSE) EXCEPT !.link = 0]
<1>1. x \in ModeType
  <2>1. NewConn("none", FALSE, FALSE, FALSE) \in ModeType BY NewConnType
  <2> QED BY <2>1, FieldMode, Values
<1>2. ConnInv BY <1>1 DEF Init, ConnInv
<1>3. QueueInv
  <2>1. NoQueue \in LineType BY DEF NoQueue, LineType, LineOf
  <2> QED BY <2>1 DEF Init, QueueInv
<1>4. AddingInv BY DEF Init, AddingInv, Idle
<1>5. HistoryInv BY BoundsAssumption DEF Init, HistoryInv
<1> QED BY <1>2, <1>3, <1>4, <1>5 DEF Init, IInv, WaitType

\* Accept preserves the invariant.
LEMMA AcceptStep ==
    ASSUME IInv, NEW c \in Conns, Accept(c)
    PROVE  IInv'
<1>1. PICK noid \in BOOLEAN, fail \in BOOLEAN, ka \in BOOLEAN :
          conn' = [conn EXCEPT ![c] = NewConn("open", noid, fail, ka)]
    BY UninitAssumption DEF Accept
<1>2. ConnInv' BY <1>1, NewConnType DEF IInv, ConnInv
<1>3. AddingInv' BY <1>1, NewConnType DEF Accept, IInv, ConnInv, AddingInv
<1>4. HistoryInv' BY DEF Accept, IInv, HistoryInv
<1>5. QueueInv' BY QueueKept DEF Accept, IInv
<1> QED BY <1>2, <1>3, <1>4, <1>5 DEF Accept, IInv

\* PeerClose preserves the invariant.
LEMMA PeerCloseStep ==
    ASSUME IInv, NEW c \in Conns, PeerClose(c)
    PROVE  IInv'
<1>1. conn' \in Connections(Named) /\ wait' \in WaitType /\ alive' \in BOOLEAN
    BY NamedConnections, DisconnectType DEF PeerClose, IInv
<1>2. ConnInv' BY <1>1, ConnectionsInv
<1>3. AddingInv' BY IdleInv DEF PeerClose, LoopReady
<1>4. HistoryInv' BY DEF PeerClose, IInv, HistoryInv
<1>5. QueueInv' BY QueueKept DEF PeerClose, IInv
<1> QED BY <1>1, <1>2, <1>3, <1>4, <1>5 DEF IInv

\* OnSend preserves the invariant.
LEMMA OnSendStep ==
    ASSUME IInv, NEW c \in Conns, OnSend(c)
    PROVE  IInv'
<1> DEFINE n == IF conn[c].out > 0 THEN conn[c].out ELSE IF conn[c].dm > 0 THEN 1 ELSE 0
          d == IF conn[c].out = 0 THEN conn[c].dm - n ELSE conn[c].dm
          cs == [conn EXCEPT ![c].out = 0, ![c].wr = FALSE,
                             ![c].dm = IF conn[c].out = 0 THEN @ - n ELSE @]
<1>1. conn \in Connections(Named) BY NamedConnections DEF IInv
<1>2. n \in Int /\ d \in Int BY <1>1, GetConn, FieldFacts
<1>3. owed' \in [Conns -> Int] BY <1>2 DEF OnSend, IInv, HistoryInv
<1> HIDE DEF n
<1>4. [conn EXCEPT ![c].out = 0, ![c].wr = FALSE] \in Connections(Named)
    BY <1>1, FieldConn, Values
<1>5. cs = [[conn EXCEPT ![c].out = 0, ![c].wr = FALSE] EXCEPT ![c].dm = d]
    BY <1>1, GetConn, FieldFacts DEF Connections, ModeType, ConnType
<1> HIDE DEF d
<1>6. cs \in Connections(Named) BY <1>2, <1>4, <1>5, FieldConn
<1>7. conn' \in Connections(Named) /\ wait' \in WaitType /\ alive' \in BOOLEAN
  <2>1. CASE conn[c].ka BY <2>1, <1>6 DEF OnSend, IInv, n
  <2>2. CASE ~conn[c].ka
    <3>1. Disconnect(cs, wait, c) BY <2>2 DEF OnSend, n
    <3> HIDE DEF cs
    <3> QED BY <3>1, <1>6, DisconnectType DEF IInv
  <2> QED BY <2>1, <2>2
<1>8. ConnInv' BY <1>7, ConnectionsInv
<1>9. AddingInv' BY IdleInv DEF OnSend, LoopReady
<1>10. HistoryInv' BY <1>3 DEF OnSend, IInv, HistoryInv
<1>11. QueueInv' BY QueueKept DEF OnSend, IInv
<1> QED BY <1>7, <1>8, <1>9, <1>10, <1>11 DEF IInv

\* OnSendPart preserves the invariant.
LEMMA OnSendPartStep ==
    ASSUME IInv, NEW c \in Conns, OnSendPart(c)
    PROVE  IInv'
<1>1. conn \in Connections(Named) BY NamedConnections DEF IInv
<1>2. conn' \in Connections(Named)
    BY <1>1, FieldConn, FieldFacts, GetConn, Values DEF OnSendPart
<1>3. ConnInv' BY <1>2, ConnectionsInv
<1>4. AddingInv' BY IdleInv DEF OnSendPart, LoopReady
<1>5. HistoryInv' BY DEF OnSendPart, IInv, HistoryInv, history
<1>6. QueueInv' BY QueueKept DEF OnSendPart, IInv, history
<1> QED BY <1>3, <1>4, <1>5, <1>6 DEF OnSendPart, IInv

\* DeleteConnections preserves the invariant.
LEMMA DeleteConnectionsStep ==
    ASSUME IInv, DeleteConnections
    PROVE  IInv'
<1>1. conn \in Connections(Named) BY NamedConnections DEF IInv
<1>2. ConnInv'
  <2>1. \A c \in Conns : [conn[c] EXCEPT !.sock = "freed"] \in ModeType
      BY <1>1, FieldMode, GetConn
  <2>2. \A c \in Conns : conn[c] \in ModeType BY <1>1, GetConn
  <2> QED BY <2>1, <2>2 DEF DeleteConnections, ConnInv
<1>3. AddingInv' BY IdleInv DEF DeleteConnections, LoopReady
<1>4. HistoryInv' BY DEF DeleteConnections, IInv, HistoryInv, history
<1>5. QueueInv'
  <2>1. OwnedMsg' = OwnedMsg BY DEF DeleteConnections, history, OwnedMsg
  <2> QED BY <2>1 DEF DeleteConnections, IInv, QueueInv, LineType, LineOf
<1> QED BY <1>2, <1>3, <1>4, <1>5 DEF DeleteConnections, IInv

\* A request that arrives.
LEMMA ArrivesFacts ==
    ASSUME IInv, NEW c \in Conns, NEW r \in Requests[c], Arrives(c, r)
    PROVE  r \in RequestType /\ adding = Idle /\ owed' \in [Conns -> Int]
<1>1. r \in RequestType BY RequestsAssumption
<1>2. adding = Idle BY DEF Arrives, LoopReady
<1>3. owed' \in [Conns -> Int] BY DEF Arrives, IInv, HistoryInv
<1> QED BY <1>1, <1>2, <1>3

\* RecvNotReady preserves the invariant.
LEMMA RecvNotReadyStep ==
    ASSUME IInv, NEW c \in Conns, NEW r \in Requests[c], RecvNotReady(c, r)
    PROVE  IInv'
<1>1. owed' \in [Conns -> Int] BY ArrivesFacts DEF RecvNotReady
<1>2. HistoryInv' BY <1>1 DEF RecvNotReady, IInv, HistoryInv
<1>3. QueueInv' BY QueueKept DEF RecvNotReady, IInv, brokerVars
<1> QED BY <1>2, <1>3 DEF RecvNotReady, IInv, ConnInv, AddingInv, brokerVars

\* RecvThrows preserves the invariant.
LEMMA RecvThrowsStep ==
    ASSUME IInv, NEW c \in Conns, NEW r \in Requests[c], RecvThrows(c, r)
    PROVE  IInv'
<1>1. adding = Idle /\ owed' \in [Conns -> Int] BY ArrivesFacts DEF RecvThrows
<1>2. [conn EXCEPT ![c].id = None] \in Connections(Named)
    BY NamedConnections, FieldConn DEF IInv
<1>3. conn' \in Connections(Named) /\ wait' \in WaitType /\ alive' \in BOOLEAN
    BY <1>2, DisconnectType DEF RecvThrows, IInv
<1>4. ConnInv' BY <1>3, ConnectionsInv
<1>5. AddingInv' BY <1>1, IdleInv DEF RecvThrows
<1>6. HistoryInv' BY <1>1 DEF RecvThrows, IInv, HistoryInv
<1>7. QueueInv' BY QueueKept DEF RecvThrows, IInv
<1> QED BY <1>3, <1>4, <1>5, <1>6, <1>7 DEF IInv

\* A request that is parsed; what HTTP_START and the headers leave.
LEMMA ParsedFacts ==
    ASSUME IInv, NEW c \in Conns, NEW r \in Requests[c], Parsed(c, r)
    PROVE  /\ r \in RequestType /\ adding = Idle /\ owed' \in [Conns -> Int]
           /\ conn \in Connections(Named)
           /\ Start(conn, c, r) \in Connections(Named)
           /\ \A d \in Conns : Start(conn, c, r)[d].status = conn[d].status
           /\ Start(conn, c, r)[c].wm = conn[c].wm
<1>1. r \in RequestType /\ adding = Idle /\ owed' \in [Conns -> Int] BY ArrivesFacts DEF Parsed
<1>2. conn \in Connections(Named) BY NamedConnections DEF IInv
<1> QED BY <1>1, <1>2, StartType

\* The request of a plain connection finds it in status "net".
LEMMA PlainFacts ==
    ASSUME IInv, NEW c \in Conns, NEW r \in Requests[c], NEW ops, Plain(c, r, ops)
    PROVE  /\ Parsed(c, r) /\ r.op \in ops
           /\ conn[c].status = "net" /\ c \in Named
<1>1. Parsed(c, r) /\ ~conn[c].wm /\ ~Start(conn, c, r)[c].noid /\ r.op \in ops BY DEF Plain
<1>2. c \in Named BY <1>1, NamedConnections DEF IInv
<1>3. conn[c].status = "worker_wait_result" => Start(conn, c, r)[c].noid = conn[c].noid
    BY <1>1, ParsedFacts, StartType
<1>4. Ready(conn, c) BY <1>1 DEF Parsed
<1>5. conn[c].status = "net" BY <1>1, <1>3, <1>4 DEF Ready
<1> QED BY <1>1, <1>2, <1>5

\* RecvEcho preserves the invariant.
LEMMA RecvEchoStep ==
    ASSUME IInv, NEW c \in Conns, NEW r \in Requests[c], RecvEcho(c, r)
    PROVE  IInv'
<1>1. Parsed(c, r) BY DEF RecvEcho
<1>2. conn' \in Connections(Named) BY <1>1, ParsedFacts, SendType DEF RecvEcho
<1>3. ConnInv' BY <1>2, ConnectionsInv
<1>4. AddingInv' BY <1>1, ParsedFacts, IdleInv DEF RecvEcho
<1>5. HistoryInv' BY <1>1, ParsedFacts DEF RecvEcho, IInv, HistoryInv
<1>6. QueueInv' BY QueueKept DEF RecvEcho, IInv
<1> QED BY <1>3, <1>4, <1>5, <1>6 DEF RecvEcho, IInv

\* RecvWorkerMode preserves the invariant.
LEMMA RecvWorkerModeStep ==
    ASSUME IInv, NEW c \in Conns, NEW r \in Requests[c], RecvWorkerMode(c, r)
    PROVE  IInv'
<1> DEFINE cs == Start(conn, c, r)
          cs1 == IF cs[c].status = "worker_mode_async" THEN cs ELSE NoIdResult(cs, c)
          bad == cs[c].status # "worker_mode_async" /\ cs[c].client = None
<1>1. Parsed(c, r) /\ conn[c].wm BY DEF RecvWorkerMode
<1>2. /\ cs \in Connections(Named) /\ cs[c].wm /\ cs[c].status = conn[c].status
      /\ adding = Idle /\ owed' \in [Conns -> Int]
    BY <1>1, ParsedFacts
<1>3. c \in Named /\ cs[c].names # << >> /\ cs[c].names \in Seq(Names)
  <2>1. conn[c].status # "net" BY <1>1 DEF Parsed, Ready, StartThrows
  <2>2. c \in Named BY <2>1, NamedConnections DEF IInv
  <2>3. cs[c] \in NamedType /\ cs[c] \in ModeType BY <1>2, <2>2, GetConn
  <2> QED BY <1>2, <2>2, <2>3, FieldFacts DEF NamedType
<1>4. QueueInv' BY QueueKept DEF RecvWorkerMode, IInv
<1> HIDE DEF cs
<1>5. CASE bad
  <2>1. Disconnect(cs, wait, c) /\ UNCHANGED <<adding, asked>> BY <1>5 DEF RecvWorkerMode, cs
  <2>2. conn' \in Connections(Named) /\ wait' \in WaitType /\ alive' \in BOOLEAN
      BY <1>2, <2>1, DisconnectType DEF IInv
  <2>3. ConnInv' BY <2>2, ConnectionsInv
  <2>4. AddingInv' BY <1>2, <2>1, IdleInv
  <2>5. HistoryInv' BY <1>2, <2>1 DEF RecvWorkerMode, IInv, HistoryInv
  <2> QED BY <1>4, <2>2, <2>3, <2>4, <2>5 DEF IInv
<1>6. CASE ~bad
  <2>1. cs1 \in Connections(Named) BY <1>2, <1>6, NoIdResultType
  <2>2. UNCHANGED <<wait, alive>> BY <1>6 DEF RecvWorkerMode, cs
  <2>3. CASE r.option = "stop"
    <3>1. /\ conn' = [Send(PopItem(cs1, c), c) EXCEPT ![c].wm = FALSE, ![c].status = "net"]
          /\ UNCHANGED <<adding, asked>>
        BY <1>6, <2>3 DEF RecvWorkerMode, cs
    <3> HIDE DEF cs1
    <3> DEFINE p == Send(PopItem(cs1, c), c)
              q == [p[c] EXCEPT !.wm = FALSE, !.status = "net"]
    <3>2. p \in Connections(Named) BY <2>1, PopItemType, SendType
    <3> HIDE DEF p
    <3>3. p[c] \in ModeType /\ p[c] \in ConnType BY <3>2, GetConn, FieldFacts
    <3>4. q \in ConnType BY <3>3, FieldType, Values
    <3>5. ~q.wm /\ q.status = "net" BY <3>3 DEF ConnType
    <3>6. q \in ModeType /\ q \in NamedType BY <3>4, <3>5 DEF ModeType, NamedType
    <3>7. conn' = [p EXCEPT ![c] = q] BY <3>1, <3>2 DEF Connections, p
    <3> HIDE DEF q
    <3>8. conn' \in Connections(Named) BY <3>2, <3>6, <3>7, SetConn
    <3>9. ConnInv' BY <3>8, ConnectionsInv
    <3>10. AddingInv' BY <1>2, <3>1, IdleInv
    <3>11. HistoryInv' BY <1>2, <3>1 DEF RecvWorkerMode, IInv, HistoryInv
    <3> QED BY <1>4, <2>2, <3>9, <3>10, <3>11 DEF IInv
  <2>4. CASE r.option # "stop"
    <3>1. /\ conn' = cs1 /\ adding' = [conn |-> c, names |-> cs[c].names]
          /\ asked' = [asked EXCEPT ![c] = Members(cs[c].names)]
        BY <1>6, <2>4 DEF RecvWorkerMode, cs
    <3>2. ConnInv' BY <2>1, <3>1, ConnectionsInv
    <3>3. AddingInv'
      <4>1. conn'[c] \in NamedType BY <1>3, <2>1, <3>1, GetConn
      <4> QED BY <1>3, <3>1, <4>1, NoneAssumption DEF AddingInv
    <3>4. Members(cs[c].names) \in SUBSET Names BY <1>3 DEF Members
    <3>5. HistoryInv' BY <1>2, <3>1, <3>4 DEF RecvWorkerMode, IInv, HistoryInv
    <3> QED BY <1>4, <2>2, <3>2, <3>3, <3>5 DEF IInv
  <2> QED BY <2>3, <2>4
<1> QED BY <1>5, <1>6

\* RecvNoId preserves the invariant.
LEMMA RecvNoIdStep ==
    ASSUME IInv, NEW c \in Conns, NEW r \in Requests[c], RecvNoId(c, r)
    PROVE  IInv'
<1> DEFINE cs == Start(conn, c, r)
<1>1. Parsed(c, r) BY DEF RecvNoId
<1>2. cs \in Connections(Named) /\ adding = Idle /\ owed' \in [Conns -> Int]
    BY <1>1, ParsedFacts
<1>3. conn' \in Connections(Named) /\ wait' \in WaitType /\ alive' \in BOOLEAN
  <2> HIDE DEF cs
  <2>1. CASE r.op # "result"
    <3>1. conn' = Send(cs, c) /\ UNCHANGED <<wait, alive>> BY <2>1 DEF RecvNoId, cs
    <3> QED BY <1>2, <3>1, SendType DEF IInv
  <2>2. CASE r.op = "result" /\ cs[c].client = None
    <3>1. Disconnect(cs, wait, c) BY <2>2 DEF RecvNoId, cs
    <3> QED BY <1>2, <3>1, DisconnectType DEF IInv
  <2>3. CASE r.op = "result" /\ cs[c].client # None
    <3>1. conn' = Send(SetStatus(NoIdResult(cs, c), c, "net"), c) /\ UNCHANGED <<wait, alive>>
        BY <2>3 DEF RecvNoId, cs
    <3>2. NoIdResult(cs, c) \in Connections(Named) BY <1>2, <2>3, NoIdResultType
    <3>3. SetStatus(NoIdResult(cs, c), c, "net") \in Connections(Named)
        BY <3>2, SetStatusType, Values
    <3> QED BY <3>1, <3>3, SendType DEF IInv
  <2> QED BY <2>1, <2>2, <2>3
<1>4. ConnInv' BY <1>3, ConnectionsInv
<1>5. AddingInv' BY <1>2, IdleInv DEF RecvNoId
<1>6. HistoryInv' BY <1>2 DEF RecvNoId, IInv, HistoryInv
<1>7. QueueInv' BY QueueKept DEF RecvNoId, IInv
<1> QED BY <1>3, <1>4, <1>5, <1>6, <1>7 DEF IInv

\* RecvResult preserves the invariant.
LEMMA RecvResultStep ==
    ASSUME IInv, NEW c \in Conns, NEW r \in Requests[c], RecvResult(c, r)
    PROVE  IInv'
<1> DEFINE cs == Start(conn, c, r)
          i == IF r.id # None THEN r.id ELSE IF r.json \in Ids THEN r.json ELSE None
          found == i # None /\ wait[i] # None
          told == IF found THEN ResultClient(cs, wait, i) ELSE cs
<1>1. Parsed(c, r) BY PlainFacts DEF RecvResult
<1>2. /\ cs \in Connections(Named) /\ adding = Idle /\ owed' \in [Conns -> Int]
      /\ r \in RequestType
    BY <1>1, ParsedFacts
<1>3. found => i \in AllIds /\ wait[i] \in Conns
  <2>1. i \in AllIds \cup {None} BY <1>2, RequestFacts DEF AllIds
  <2>2. wait \in [AllIds -> Conns \cup {None}] BY DEF IInv, WaitType
  <2> HIDE DEF i
  <2> QED BY <2>1, <2>2
<1>4. told \in Connections(Named) BY <1>2, <1>3, ResultClientType
<1>5. conn' = SetStatus(Send(told, c), c, "net") BY DEF RecvResult
<1>6. wait' = IF found THEN [wait EXCEPT ![i] = None] ELSE wait BY DEF RecvResult
<1> HIDE DEF told, i
<1>7. Send(told, c) \in Connections(Named) BY <1>4, SendType
<1>8. conn' \in Connections(Named) BY <1>5, <1>7, SetStatusType, Values
<1>9. wait' \in WaitType BY <1>3, <1>6 DEF IInv, WaitType
<1>10. ConnInv' BY <1>8, ConnectionsInv
<1>11. AddingInv' BY <1>2, IdleInv DEF RecvResult
<1>12. HistoryInv' BY <1>2 DEF RecvResult, IInv, HistoryInv
<1>13. QueueInv' BY QueueKept DEF RecvResult, IInv
<1> QED BY <1>9, <1>10, <1>11, <1>12, <1>13 DEF RecvResult, IInv

\* The queue of a request that names one.
LEMMA QueueFacts ==
    ASSUME IInv, NEW n \in Names
    PROVE  /\ queue[n].workers \in Seq(Conns) /\ queue[n].clients \in Seq(OwnedMsg)
           /\ queue[n].ex \in BOOLEAN
  BY DEF IInv, QueueInv, LineType, LineOf

\* A request of these types names one queue.
LEMMA NameFacts ==
    ASSUME NEW c \in Conns, NEW r \in Requests[c],
           r.op \in {"call", "async", "pub", "create", "delete"}
    PROVE  r.names[1] \in Names
<1>1. r \in RequestType BY RequestsAssumption
<1>2. r.names \in Seq(Names) /\ Len(r.names) = 1 BY <1>1, RequestFacts, NamedAssumption
<1> QED BY <1>2

\* What Loop::client_request does in every case.
LEMMA CallFacts ==
    ASSUME IInv, NEW c \in Conns, NEW r \in Requests[c], Call(c, r)
    PROVE  /\ r \in RequestType /\ r.op \in {"call", "async"} /\ r.names[1] \in Names
           /\ c \in Named /\ adding' = Idle
           /\ <<c, calls[c] + 1>> \in Job
           /\ CallState(c, r) \in Connections(Named)
           /\ RestOfWorkers(r) \in Seq(Conns)
           /\ owed' \in [Conns -> Int] /\ calls' \in [Conns -> 0 .. MaxCalls]
           /\ calls' = [calls EXCEPT ![c] = @ + 1] /\ asked' = asked /\ alive' = alive
<1>1. Plain(c, r, {"call", "async"}) BY DEF Call
<1>2. Parsed(c, r) /\ r.op \in {"call", "async"} /\ c \in Named BY <1>1, PlainFacts
<1>3. /\ r \in RequestType /\ adding = Idle /\ owed' \in [Conns -> Int]
      /\ Start(conn, c, r) \in Connections(Named)
    BY <1>2, ParsedFacts
<1>4. r.names[1] \in Names BY <1>2, NameFacts
<1>5. calls[c] < MaxCalls /\ calls[c] \in 0 .. MaxCalls
    BY <1>2 DEF Parsed, Arrives, IInv, HistoryInv
<1>6. <<c, calls[c] + 1>> \in Job BY <1>5, BoundsAssumption DEF Job
<1>7. calls' = [calls EXCEPT ![c] = @ + 1] BY DEF Call, CallCounted
<1>8. calls[c] + 1 \in 0 .. MaxCalls BY <1>5, BoundsAssumption
<1>9. calls' \in [Conns -> 0 .. MaxCalls] BY <1>7, <1>8 DEF IInv, HistoryInv
<1> DEFINE s == queue[r.names[1]].workers
          E == Erased(conn, s, r.wid)
<1>10. s \in Seq(Conns) BY <1>4, QueueFacts
<1>11. E \in SUBSET DOMAIN s BY DEF Erased
<1>12. CallState(c, r) = Release(Start(conn, c, r), s, E) BY DEF CallState
<1>13. RestOfWorkers(r) = Keep(s, DOMAIN s \ E) BY DEF RestOfWorkers
<1> HIDE DEF s, E
<1>14. CallState(c, r) \in Connections(Named) BY <1>3, <1>10, <1>11, <1>12, ReleaseType
<1>15. RestOfWorkers(r) \in Seq(Conns) BY <1>10, <1>13, KeepProperty
<1> QED BY <1>2, <1>3, <1>4, <1>6, <1>7, <1>9, <1>14, <1>15 DEF Call

\* The worker that is taken waits for a job.
LEMMA TakenFacts ==
    ASSUME IInv, NEW c \in Conns, NEW r \in Requests[c], Call(c, r),
           Usable(conn, queue[r.names[1]].workers, r.wid) # {}
    PROVE  Taken(r) \in Named
<1> DEFINE s == queue[r.names[1]].workers
          U == Usable(conn, s, r.wid)
<1>1. s \in Seq(Conns) BY CallFacts, QueueFacts
<1>2. U \in SUBSET DOMAIN s BY DEF Usable
<1>3. U \in SUBSET Nat /\ U # {} BY <1>1, <1>2
<1>4. Least(U) \in U BY <1>3, LeastProperty
<1>5. \A i \in U : conn[s[i]].status = "worker_wait_job" BY DEF Usable
<1>6. Taken(r) = s[Least(U)] BY DEF Taken
<1> HIDE DEF U, s
<1>7. Taken(r) \in Conns /\ conn[Taken(r)].status = "worker_wait_job"
    BY <1>1, <1>2, <1>4, <1>5, <1>6
<1> QED BY <1>7, NamedConnections DEF IInv

\* Replacing fields of a queue.
LEMMA LineFields ==
    ASSUME NEW S, NEW x \in LineOf(S)
    PROVE  /\ \A ws \in Seq(Conns) : [x EXCEPT !.workers = ws] \in LineOf(S)
           /\ \A ms \in Seq(S) : [x EXCEPT !.clients = ms] \in LineOf(S)
           /\ \A b \in BOOLEAN : [x EXCEPT !.ex = b] \in LineOf(S)
<1>1. \A ws \in Seq(Conns) : [x EXCEPT !.workers = ws] \in LineOf(S) BY DEF LineOf
<1>2. \A ms \in Seq(S) : [x EXCEPT !.clients = ms] \in LineOf(S) BY DEF LineOf
<1>3. \A b \in BOOLEAN : [x EXCEPT !.ex = b] \in LineOf(S) BY Zenon DEF LineOf
<1> QED BY <1>1, <1>2, <1>3

\* One queue is replaced.
LEMMA QueueUpdate ==
    ASSUME IInv, NEW c \in Conns, NEW n \in Names,
           calls' = calls \/ calls' = [calls EXCEPT ![c] = @ + 1],
           NEW x \in LineType', queue' = [queue EXCEPT ![n] = x]
    PROVE  QueueInv'
<1>1. LineType \subseteq LineType' BY OwnedMsgKept DEF IInv
<1>2. queue \in [Names -> LineType'] BY <1>1 DEF IInv, QueueInv
<1> QED BY <1>2 DEF QueueInv

\* The same when only the waiting workers change.
LEMMA WorkersUpdate ==
    ASSUME IInv, NEW c \in Conns, NEW n \in Names,
           calls' = calls \/ calls' = [calls EXCEPT ![c] = @ + 1],
           NEW ws \in Seq(Conns), queue' = [queue EXCEPT ![n].workers = ws]
    PROVE  QueueInv'
<1>1. LineType \subseteq LineType' BY OwnedMsgKept DEF IInv
<1>2. queue[n] \in LineType BY DEF IInv, QueueInv
<1>3. [queue[n] EXCEPT !.workers = ws] \in LineType BY <1>2 DEF LineType, LineOf
<1>4. queue' = [queue EXCEPT ![n] = [queue[n] EXCEPT !.workers = ws]] OBVIOUS
<1> QED BY <1>1, <1>3, <1>4 DEF IInv, QueueInv

\* A call preserves the invariant if it writes values of the right types.
LEMMA CallIdle ==
    ASSUME IInv, NEW c \in Conns, NEW r \in Requests[c], Call(c, r),
           given' \in [Job -> Nat], task' \in [Conns \cup AllIds -> Job \cup {None}],
           conn' \in Connections(Named), wait' \in WaitType, QueueInv'
    PROVE  IInv'
<1>1. ConnInv' BY ConnectionsInv
<1>2. AddingInv' BY CallFacts, IdleInv
<1>3. HistoryInv' BY CallFacts DEF IInv, HistoryInv
<1> QED BY <1>1, <1>2, <1>3, CallFacts DEF IInv

\* RecvCallNoQueue preserves the invariant.
LEMMA RecvCallNoQueueStep ==
    ASSUME IInv, NEW c \in Conns, NEW r \in Requests[c], RecvCallNoQueue(c, r)
    PROVE  IInv'
<1>1. Call(c, r) /\ UNCHANGED <<queue, wait, given, task>>
      /\ conn' = Send(Start(conn, c, r), c)
    BY DEF RecvCallNoQueue
<1>2. Parsed(c, r) BY <1>1, PlainFacts DEF Call
<1>3. conn' \in Connections(Named) BY <1>1, <1>2, ParsedFacts, SendType
<1>4. QueueInv' BY <1>1, CallFacts, QueueKept DEF IInv
<1>5. given' \in [Job -> Nat] /\ task' \in [Conns \cup AllIds -> Job \cup {None}]
      /\ wait' \in WaitType
    BY <1>1 DEF IInv, HistoryInv
<1> QED BY <1>1, <1>3, <1>4, <1>5, CallIdle

\* A call is handed out once more.
LEMMA HandedType ==
    ASSUME IInv, NEW j \in Job, Handed(j)
    PROVE  given' \in [Job -> Nat]
  BY DEF IInv, HistoryInv, Handed

\* RecvCallGive preserves the invariant.
LEMMA RecvCallGiveStep ==
    ASSUME IInv, NEW c \in Conns, NEW r \in Requests[c], RecvCallGive(c, r)
    PROVE  IInv'
<1> DEFINE n == r.names[1]
          w == Taken(r)
          j == <<c, calls[c] + 1>>
          cs == CallState(c, r)
          i == CallId(cs, c, j)
          sent == Send(cs, w)
          claimed == IF cs[w].noid \/ cs[w].fail
                     THEN Link([sent EXCEPT ![w].client = c], c) ELSE sent
<1>1. Call(c, r) /\ Usable(conn, queue[n].workers, r.wid) # {}
      /\ queue' = [queue EXCEPT ![n].workers = RestOfWorkers(r)] /\ Handed(j)
    BY DEF RecvCallGive
<1>2. /\ n \in Names /\ c \in Named /\ j \in Job /\ RestOfWorkers(r) \in Seq(Conns)
      /\ cs \in Connections(Named) /\ calls' = [calls EXCEPT ![c] = @ + 1]
      /\ r.op \in {"call", "async"}
    BY <1>1, CallFacts
<1>3. w \in Named /\ w \in Conns BY <1>1, TakenFacts DEF Named
<1>4. QueueInv' BY <1>1, <1>2, WorkersUpdate
<1>5. given' \in [Job -> Nat] BY <1>1, <1>2, HandedType
<1>6. i \in AllIds BY <1>2, CallIdType
<1>7. conn' \in Connections(Named) /\ wait' \in WaitType
      /\ task' \in [Conns \cup AllIds -> Job \cup {None}]
  <2> HIDE DEF n, w, j, cs, i
  <2>1. sent \in Connections(Named) BY <1>2, <1>3, SendType
  <2> HIDE DEF sent
  <2>2. claimed \in Connections(Named)
    <3>1. [sent EXCEPT ![w].client = c] \in Connections(Named) BY <2>1, <1>3, FieldConn
    <3>2. Link([sent EXCEPT ![w].client = c], c) \in Connections(Named) BY <3>1, LinkType
    <3> QED BY <2>1, <3>2
  <2>3. CASE r.op = "async"
    <3>1. /\ conn' = Send(SetStatus(sent, w, AfterAsync(cs, w)), c)
          /\ UNCHANGED <<wait, task>>
        BY <2>3 DEF RecvCallGive, n, w, j, cs, i, sent
    <3>2. SetStatus(sent, w, AfterAsync(cs, w)) \in Connections(Named)
        BY <1>3, <2>1, AfterAsyncType, SetStatusType, GetConn
    <3> QED BY <3>1, <3>2, SendType DEF IInv, HistoryInv
  <2>4. CASE r.op = "call" /\ cs[w].noid
    <3>1. /\ conn' = SetStatus(SetStatus(claimed, c, "client_wait_result"), w, "worker_wait_result")
          /\ task' = [task EXCEPT ![w] = j] /\ UNCHANGED wait
        BY <2>4 DEF RecvCallGive, n, w, j, cs, i, sent
    <3> HIDE DEF claimed
    <3>2. SetStatus(claimed, c, "client_wait_result") \in Connections(Named)
        BY <1>2, <2>2, SetStatusType, GetConn, Values
    <3>3. conn' \in Connections(Named) BY <1>3, <3>1, <3>2, SetStatusType, GetConn, Values
    <3> QED BY <1>2, <1>3, <3>1, <3>3 DEF IInv, HistoryInv
  <2>5. CASE r.op = "call" /\ ~cs[w].noid
    <3> DEFINE d == [claimed EXCEPT ![c].id = i, ![w].status = "net",
                                    ![c].status = "client_wait_result"]
    <3>1. /\ conn' = Link(d, c)
          /\ wait' = [wait EXCEPT ![i] = c] /\ task' = [task EXCEPT ![i] = j]
        BY <2>5 DEF RecvCallGive, n, w, j, cs, i, sent
    <3> HIDE DEF claimed
    <3>2. [claimed EXCEPT ![c].id = i] \in Connections(Named) BY <1>6, <2>2, FieldConn
    <3>3. SetStatus([claimed EXCEPT ![c].id = i], w, "net") \in Connections(Named)
        BY <1>3, <3>2, SetStatusType, Values
    <3>4. SetStatus(SetStatus([claimed EXCEPT ![c].id = i], w, "net"), c, "client_wait_result")
              \in Connections(Named)
        BY <1>2, <3>3, SetStatusType, GetConn, Values
    <3>5. d \in Connections(Named) BY <3>4 DEF SetStatus
    <3> HIDE DEF d
    <3>6. conn' \in Connections(Named) BY <3>1, <3>5, LinkType
    <3> QED BY <1>2, <1>6, <3>1, <3>6 DEF IInv, HistoryInv, WaitType
  <2> QED BY <1>2, <2>3, <2>4, <2>5
<1> QED BY <1>1, <1>4, <1>5, <1>7, CallIdle

\* RecvCallReject preserves the invariant.
LEMMA RecvCallRejectStep ==
    ASSUME IInv, NEW c \in Conns, NEW r \in Requests[c], RecvCallReject(c, r)
    PROVE  IInv'
<1> DEFINE n == r.names[1]
          w == Taken(r)
          cs == CallState(c, r)
          i == CallId(cs, c, <<c, calls[c] + 1>>)
          d == [Link(cs, w) EXCEPT ![c].id = IF NoIdFound(cs, c) THEN @ ELSE i]
<1>1. /\ Call(c, r) /\ Usable(conn, queue[n].workers, r.wid) # {}
      /\ conn' = Send(d, c)
      /\ queue' = [queue EXCEPT ![n].workers = <<w>> \o RestOfWorkers(r)]
      /\ UNCHANGED <<wait, given, task>>
    BY DEF RecvCallReject
<1>2. /\ n \in Names /\ <<c, calls[c] + 1>> \in Job /\ RestOfWorkers(r) \in Seq(Conns)
      /\ cs \in Connections(Named) /\ calls' = [calls EXCEPT ![c] = @ + 1]
    BY <1>1, CallFacts
<1>3. w \in Conns BY <1>1, TakenFacts DEF Named
<1>4. i \in AllIds BY <1>2, CallIdType
<1> HIDE DEF cs, i, w, n
<1>5. Link(cs, w) \in Connections(Named) BY <1>2, <1>3, LinkType
<1>6. d \in Connections(Named) BY <1>4, <1>5, FieldConn, FieldFacts, GetConn
<1> HIDE DEF d
<1>7. conn' \in Connections(Named) BY <1>1, <1>6, SendType
<1>8. <<w>> \o RestOfWorkers(r) \in Seq(Conns) BY <1>2, <1>3
<1>9. QueueInv' BY <1>1, <1>2, <1>8, WorkersUpdate
<1>10. given' \in [Job -> Nat] /\ task' \in [Conns \cup AllIds -> Job \cup {None}]
       /\ wait' \in WaitType
    BY <1>1 DEF IInv, HistoryInv
<1> QED BY <1>1, <1>7, <1>9, <1>10, CallIdle

\* RecvCallAbsent preserves the invariant.
LEMMA RecvCallAbsentStep ==
    ASSUME IInv, NEW c \in Conns, NEW r \in Requests[c], RecvCallAbsent(c, r)
    PROVE  IInv'
<1>1. /\ Call(c, r) /\ conn' = Send(CallState(c, r), c)
      /\ queue' = [queue EXCEPT ![r.names[1]].workers = RestOfWorkers(r)]
      /\ UNCHANGED <<wait, given, task>>
    BY DEF RecvCallAbsent
<1>2. conn' \in Connections(Named) BY <1>1, CallFacts, SendType
<1>3. QueueInv' BY <1>1, CallFacts, WorkersUpdate
<1>4. given' \in [Job -> Nat] /\ task' \in [Conns \cup AllIds -> Job \cup {None}]
      /\ wait' \in WaitType
    BY <1>1 DEF IInv, HistoryInv
<1> QED BY <1>1, <1>2, <1>3, <1>4, CallIdle

\* There is a place for a message in a queue.
LEMMA PositionType ==
    ASSUME NEW S \in SUBSET MsgType, NEW s \in Seq(S), NEW m \in MsgType
    PROVE  /\ Position(s, m) \in 0 .. Len(s)
           /\ Position(s, m) > 0 => m.prio <= s[Position(s, m)].prio
           /\ \A k \in Position(s, m) + 1 .. Len(s) : m.prio > s[k].prio
<1> DEFINE P(p) == /\ p > 0 => m.prio <= s[p].prio
                   /\ \A k \in p + 1 .. Len(s) : m.prio > s[k].prio
          B == {p \in 0 .. Len(s) : \A k \in p + 1 .. Len(s) : m.prio > s[k].prio}
<1>1. Len(s) \in Nat /\ m.prio \in Int BY DEF MsgType
<1>2. \A k \in 1 .. Len(s) : s[k].prio \in Int BY DEF MsgType
<1>3. Len(s) \in B BY <1>1
<1>4. B \in SUBSET Nat /\ B # {} BY <1>1, <1>3
<1>5. PICK p \in B : \A q \in B : p <= q
  <2> HIDE DEF B
  <2> QED BY <1>4, LeastProperty
<1>6. p \in 0 .. Len(s) /\ \A k \in p + 1 .. Len(s) : m.prio > s[k].prio BY <1>5
<1>7. ASSUME p > 0 PROVE m.prio <= s[p].prio
  <2>1. SUFFICES ASSUME ~(m.prio <= s[p].prio) PROVE FALSE OBVIOUS
  <2>2. p \in 1 .. Len(s) /\ p - 1 \in 0 .. Len(s) BY <1>1, <1>6, <1>7
  <2>3. m.prio > s[p].prio BY <1>1, <1>2, <2>1, <2>2
  <2>4. \A k \in (p - 1) + 1 .. Len(s) : m.prio > s[k].prio
    <3>1. \A k \in (p - 1) + 1 .. Len(s) : k = p \/ k \in p + 1 .. Len(s) BY <1>1, <2>2
    <3> QED BY <1>6, <2>3, <3>1
  <2>5. p - 1 \in B BY <2>2, <2>4
  <2> HIDE DEF B
  <2>6. p <= p - 1 BY <1>5, <2>5
  <2> QED BY <2>2, <2>6
<1>8. \E q \in 0 .. Len(s) : P(q) BY <1>6, <1>7
<1>9. Position(s, m) = CHOOSE q \in 0 .. Len(s) : P(q) BY DEF Position
<1> HIDE DEF P
<1>10. Position(s, m) \in 0 .. Len(s) /\ P(Position(s, m)) BY <1>8, <1>9
<1> QED BY <1>10 DEF P

\* RecvCallEnqueue preserves the invariant.
LEMMA RecvCallEnqueueStep ==
    ASSUME IInv, NEW c \in Conns, NEW r \in Requests[c], RecvCallEnqueue(c, r)
    PROVE  IInv'
<1> DEFINE n == r.names[1]
          m == [conn |-> IF r.op = "async" THEN None ELSE c, prio |-> r.prio,
                req |-> r.wid, job |-> <<c, calls[c] + 1>>]
          cs == CallState(c, r)
<1>1. /\ Call(c, r)
      /\ conn' = IF r.op = "async" THEN Send(cs, c)
                 ELSE Link(SetStatus(cs, c, "client_wait_result"), c)
      /\ queue' = [queue EXCEPT ![n].workers = RestOfWorkers(r), ![n].clients = Insert(@, m)]
      /\ UNCHANGED <<wait, given, task>>
    BY DEF RecvCallEnqueue
<1>2. /\ n \in Names /\ c \in Named /\ <<c, calls[c] + 1>> \in Job
      /\ RestOfWorkers(r) \in Seq(Conns) /\ cs \in Connections(Named)
      /\ calls' = [calls EXCEPT ![c] = @ + 1] /\ r \in RequestType
    BY <1>1, CallFacts
<1>3. m \in OwnedMsg'
  <2>1. m \in MsgType BY <1>2, RequestFacts DEF MsgType
  <2>2. calls'[c] = calls[c] + 1 /\ calls[c] \in Int
      BY <1>2, BoundsAssumption DEF IInv, HistoryInv
  <2>3. m.job[1] = c /\ m.job[2] = calls[c] + 1 /\ m.conn \in {None, c} OBVIOUS
  <2> HIDE DEF m
  <2> QED BY <2>1, <2>2, <2>3 DEF OwnedMsg
<1> HIDE DEF m
<1>4. Insert(queue[n].clients, m) \in Seq(OwnedMsg')
  <2>1. queue[n].clients \in Seq(OwnedMsg')
    <3>1. OwnedMsg \subseteq OwnedMsg' BY <1>2, OwnedMsgKept DEF IInv
    <3>2. queue[n].clients \in Seq(OwnedMsg) BY <1>2, QueueFacts
    <3> QED BY <3>1, <3>2
  <2>2. OwnedMsg' \in SUBSET MsgType BY DEF OwnedMsg
  <2>3. Position(queue[n].clients, m) \in 0 .. Len(queue[n].clients)
      BY <1>3, <2>1, <2>2, PositionType
  <2> QED BY <1>3, <2>1, <2>3, InsertProperty DEF Insert
<1>5. QueueInv'
  <2> DEFINE x == [queue[n] EXCEPT !.workers = RestOfWorkers(r), !.clients = Insert(queue[n].clients, m)]
  <2>1. queue[n] \in LineType /\ LineType \subseteq LineType'
      BY <1>2, OwnedMsgKept DEF IInv, QueueInv
  <2>2. queue' = [queue EXCEPT ![n] = x]
      BY <1>1, <1>2, <2>1 DEF IInv, QueueInv, LineType, LineOf
  <2>3. [queue[n] EXCEPT !.workers = RestOfWorkers(r)] \in LineType'
      BY <1>2, <2>1 DEF LineType, LineOf
  <2>4. x \in LineType' BY <1>4, <2>3, LineFields DEF LineType
  <2> HIDE DEF x
  <2> QED BY <1>2, <2>2, <2>4, QueueUpdate
<1> HIDE DEF cs
<1>6. conn' \in Connections(Named)
    BY <1>1, <1>2, SendType, LinkType, SetStatusType, GetConn, Values
<1>7. given' \in [Job -> Nat] /\ task' \in [Conns \cup AllIds -> Job \cup {None}]
      /\ wait' \in WaitType
    BY <1>1 DEF IInv, HistoryInv
<1> QED BY <1>1, <1>5, <1>6, <1>7, CallIdle

\* RecvAdd preserves the invariant.
LEMMA RecvAddStep ==
    ASSUME IInv, NEW c \in Conns, NEW r \in Requests[c], RecvAdd(c, r)
    PROVE  IInv'
<1> DEFINE cs == Start(conn, c, r)
          wm == r.op = "worker"
          x == [cs[c] EXCEPT !.wm = wm, !.noid = (r.op = "get+"), !.fail = (r.op = "get+")]
          y == [x EXCEPT !.wm = FALSE]
          z == [x EXCEPT !.noid = (r.op # "get"),
                         !.fail = (r.op # "get" \/ r.option = "fail_on_disconnect"),
                         !.names = IF wm THEN r.names ELSE << >>]
<1>1. Plain(c, r, {"get", "get+", "worker"}) BY DEF RecvAdd
<1>2. /\ Parsed(c, r) /\ c \in Named /\ conn[c].status = "net" BY <1>1, PlainFacts
<1>3. /\ cs \in Connections(Named) /\ cs[c].status = "net" /\ adding = Idle
      /\ owed' \in [Conns -> Int] /\ r \in RequestType
    BY <1>2, ParsedFacts
<1>4. r.names \in Seq(Names) /\ << >> \in Seq(Names) BY <1>3, RequestFacts
<1>5. QueueInv' BY QueueKept DEF RecvAdd, IInv
<1> HIDE DEF cs
<1>6. cs[c] \in ModeType /\ cs[c] \in ConnType BY <1>3, GetConn, FieldFacts
<1>7. x \in ConnType BY <1>6, FieldType
<1>8. x.status = "net" /\ x.wm = wm BY <1>3, <1>6 DEF ConnType
<1>9. x \in ModeType BY <1>7, <1>8 DEF ModeType
<1> HIDE DEF x
<1>10. y \in ConnType /\ ~y.wm /\ y.status = "net"
  <2>1. y \in ConnType BY <1>7, FieldType
  <2> QED BY <2>1, <1>7, <1>8 DEF ConnType
<1>11. y \in ModeType /\ y \in NamedType BY <1>10 DEF ModeType, NamedType
<1>12. z \in ConnType /\ z.wm = wm /\ z.names = IF wm THEN r.names ELSE << >>
  <2>1. z \in ConnType
    <3>1. [x EXCEPT !.noid = (r.op # "get"),
             !.fail = (r.op # "get" \/ r.option = "fail_on_disconnect")] \in ConnType
        BY <1>7, FieldType
    <3> QED BY <3>1, <1>4, FieldType
  <2> QED BY <2>1, <1>7, <1>8 DEF ConnType
<1>13. r.names # << >> => z \in NamedType /\ z \in ModeType BY <1>12 DEF ModeType, NamedType
<1>14. UNCHANGED <<wait, alive, calls, given, task>> BY DEF RecvAdd
<1>15. conn \in [Conns -> ModeType] /\ cs \in [Conns -> ModeType]
    BY <1>3 DEF IInv, ConnInv, Connections
<1>16. CASE r.json = "malformed"
  <2>1. conn' = Send([cs EXCEPT ![c] = x], c) /\ UNCHANGED <<adding, asked>>
      BY <1>15, <1>16 DEF RecvAdd, cs, x
  <2>2. [cs EXCEPT ![c] = x] \in Connections({}) BY <1>9, <1>15 DEF Connections
  <2>3. ConnInv' BY <2>1, <2>2, SendType, ConnectionsInv
  <2>4. AddingInv' BY <1>3, <2>1, IdleInv
  <2>5. HistoryInv' BY <1>3, <1>14, <2>1 DEF IInv, HistoryInv
  <2> QED BY <1>5, <1>14, <2>3, <2>4, <2>5 DEF IInv
<1>17. CASE r.json # "malformed" /\ r.names = << >>
  <2>1. conn' = Send([cs EXCEPT ![c] = y], c) /\ UNCHANGED <<adding, asked>>
      BY <1>15, <1>17 DEF RecvAdd, cs, x
  <2>2. [cs EXCEPT ![c] = y] \in Connections({}) BY <1>11, <1>15 DEF Connections
  <2>3. ConnInv' BY <2>1, <2>2, SendType, ConnectionsInv
  <2>4. AddingInv' BY <1>3, <2>1, IdleInv
  <2>5. HistoryInv' BY <1>3, <1>14, <2>1 DEF IInv, HistoryInv
  <2> QED BY <1>5, <1>14, <2>3, <2>4, <2>5 DEF IInv
<1>18. CASE r.json # "malformed" /\ r.names # << >>
  <2>1. /\ conn' = [cs EXCEPT ![c] = z] /\ adding' = [conn |-> c, names |-> r.names]
        /\ asked' = [asked EXCEPT ![c] = Members(r.names)]
      BY <1>15, <1>18, ZenonT(40) DEF RecvAdd, cs, x
  <2>2. conn' \in [Conns -> ModeType] /\ conn'[c] \in NamedType BY <1>13, <1>15, <1>18, <2>1
  <2>3. AddingInv' BY <1>4, <1>18, <2>1, <2>2, NoneAssumption DEF AddingInv
  <2>4. Members(r.names) \in SUBSET Names BY <1>4 DEF Members
  <2>5. HistoryInv' BY <1>3, <1>14, <2>1, <2>4 DEF IInv, HistoryInv
  <2> QED BY <1>5, <1>14, <2>2, <2>3, <2>5 DEF IInv, ConnInv
<1> QED BY <1>16, <1>17, <1>18

\* A step of add_worker: its worker is named, and so it stays.
LEMMA AddingFacts ==
    ASSUME IInv, NEW w \in Conns, NEW n \in Names, Adding(w, n)
    PROVE  /\ w \in Named /\ adding.conn = w
           /\ conn \in Connections(Named)
           /\ LeaveOther(conn, w, n) \in Connections(Named)
           /\ \A d \in Conns : LeaveOther(conn, w, n)[d].status # "net" => d \in Named
<1>1. w = adding.conn BY DEF Adding
<1>2. w \in Named BY <1>1, NoneAssumption DEF IInv, AddingInv, Named
<1>3. /\ conn \in Connections(Named)
      /\ \A d \in Conns : conn[d].status # "net" \/ ~conn[d].wm => d \in Named
    BY NamedConnections DEF IInv
<1>4. /\ LeaveOther(conn, w, n) \in Connections(Named)
      /\ \A d \in Conns : LeaveOther(conn, w, n)[d].status = conn[d].status
    BY <1>3, LeaveOtherType
<1> QED BY <1>1, <1>2, <1>3, <1>4

\* Going on with the next name, or returning.
LEMMA NextNameInv ==
    ASSUME IInv, NEW w \in Conns, NEW n \in Names, Adding(w, n),
           conn' \in Connections(Named), adding' \in {NextName, ReturnOne}
    PROVE  AddingInv'
<1>1. CASE adding' = Idle BY <1>1, IdleInv
<1>2. CASE adding' # Idle
  <2>1. adding' = [adding EXCEPT !.names = Tail(@)] /\ Len(adding.names) > 1
      BY <1>2 DEF NextName, ReturnOne
  <2>2. /\ adding \in [conn : Conns \cup {None}, names : Seq(Names)]
        /\ adding.conn = w /\ w \in Named
      BY AddingFacts DEF IInv, AddingInv
  <2>3. Tail(adding.names) \in Seq(Names) /\ Tail(adding.names) # << >>
    <3>1. adding.names \in Seq(Names) /\ adding.names # << >> BY <2>1, <2>2
    <3>2. /\ Tail(adding.names) \in Seq(Names)
          /\ Len(Tail(adding.names)) = Len(adding.names) - 1
        BY <3>1, HeadTailProperties
    <3>3. Len(adding.names) \in Nat /\ Len(Tail(adding.names)) > 0 BY <2>1, <3>1, <3>2
    <3> DEFINE e == Tail(adding.names)
    <3>4. e # << >>
      <4> HIDE DEF e
      <4>1. e = << >> => Len(e) = 0 OBVIOUS
      <4>2. Len(e) > 0 BY <3>3 DEF e
      <4> QED BY <4>1, <4>2
    <3> QED BY <3>2, <3>4
  <2>4. conn'[w] \in NamedType BY <2>2, GetConn
  <2>5. adding'.conn = w /\ adding'.names = Tail(adding.names)
        /\ adding' \in [conn : Conns \cup {None}, names : Seq(Names)]
      BY <2>1, <2>2, <2>3
  <2> QED BY <2>3, <2>4, <2>5, NoneAssumption DEF AddingInv
<1> QED BY <1>1, <1>2

\* AddWorkerDirect preserves the invariant.
LEMMA AddWorkerDirectStep ==
    ASSUME IInv, NEW w \in Conns, NEW n \in Names, AddWorkerDirect(w, n)
    PROVE  IInv'
<1> DEFINE cs == LeaveOther(conn, w, n)
<1>1. Adding(w, n) BY DEF AddWorkerDirect
<1>2. cs \in Connections(Named) BY <1>1, AddingFacts
<1>3. conn' = [cs EXCEPT ![w].wr = TRUE] BY DEF AddWorkerDirect
<1> HIDE DEF cs
<1>4. conn' \in Connections(Named) BY <1>2, <1>3, FieldConn
<1>5. ConnInv' BY <1>4, ConnectionsInv
<1>6. AddingInv' BY IdleInv DEF AddWorkerDirect, ReturnOne
<1>7. HistoryInv' BY DEF AddWorkerDirect, IInv, HistoryInv, history
<1>8. QueueInv'
  <2>1. queue[n] \in LineType /\ LineType \subseteq LineType' /\ calls' = calls
      BY OwnedMsgKept DEF AddWorkerDirect, history, IInv, QueueInv
  <2>2. [queue[n] EXCEPT !.ex = TRUE] \in LineType' BY <2>1, LineFields DEF LineType
  <2>3. queue' = [queue EXCEPT ![n] = [queue[n] EXCEPT !.ex = TRUE]] BY DEF AddWorkerDirect
  <2> QED BY <2>1, <2>2, <2>3, QueueUpdate
<1> QED BY <1>5, <1>6, <1>7, <1>8 DEF AddWorkerDirect, IInv

\* What a scan leaves of the queued messages.
LEMMA RestOfClients ==
    ASSUME NEW S, NEW s \in Seq(S), NEW R
    PROVE  Keep(s, DOMAIN s \ R) \in Seq(S)
  BY KeepProperty

\* AddWorkerGive preserves the invariant.
LEMMA AddWorkerGiveStep ==
    ASSUME IInv, NEW w \in Conns, NEW n \in Names, AddWorkerGive(w, n)
    PROVE  IInv'
<1> DEFINE cs == LeaveOther(conn, w, n)
          s == queue[n].clients
          J == Jobs(cs, wait, w, s)
          m == s[Least(J)]
          c == m.conn
          as == AfterScan(cs, wait, w, s)
          cs1 == Send(as, w)
          i == CallId(cs1, c, m.job)
          t == Keep(s, DOMAIN s \ Scanned(cs, wait, w, s))
          linked == IF cs1[w].fail THEN Link([cs1 EXCEPT ![w].client = c], c) ELSE cs1
          claimed == [linked EXCEPT ![c].status = "busy"]
<1>1. /\ Adding(w, n) /\ J # {} /\ Handed(m.job)
      /\ queue' = [queue EXCEPT ![n].ex = TRUE, ![n].clients = t]
      /\ UNCHANGED <<alive, owed, calls, asked>>
    BY DEF AddWorkerGive
<1>2. /\ w \in Named /\ cs \in Connections(Named)
      /\ \A d \in Conns : cs[d].status # "net" => d \in Named
    BY <1>1, AddingFacts
<1>3. s \in Seq(OwnedMsg) BY QueueFacts
<1>4. as \in Connections(Named)
  <2> HIDE DEF cs, s
  <2> QED BY <1>2, <1>3, AfterScanType DEF IInv, HistoryInv
<1>5. m \in OwnedMsg /\ Verdict(cs, wait, w, m) = "job"
  <2>1. J \in SUBSET DOMAIN s /\ \A k \in J : Verdict(cs, wait, w, s[k]) = "job" BY DEF Jobs
  <2> HIDE DEF J, cs, s
  <2>2. J \in SUBSET Nat /\ J # {} BY <1>1, <1>3, <2>1
  <2>3. Least(J) \in J BY <2>2, LeastProperty
  <2> QED BY <1>3, <2>1, <2>3
<1>6. m \in MsgType /\ m.job \in Job /\ c \in Conns \cup {None}
    BY <1>5 DEF OwnedMsg, MsgType
<1>7. c # None => c \in Conns /\ c \in Named
  <2>1. SUFFICES ASSUME c # None PROVE c \in Conns /\ c \in Named OBVIOUS
  <2> HIDE DEF cs, m
  <2>2. cs[c].status = "client_wait_result" BY <1>5, <2>1 DEF Verdict
  <2> QED BY <1>2, <1>6, <2>1, <2>2
<1>8. given' \in [Job -> Nat] BY <1>1, <1>6, HandedType
<1>9. QueueInv'
  <2>1. queue[n] \in LineType /\ LineType' = LineType
    <3>1. OwnedMsg' = OwnedMsg BY <1>1 DEF OwnedMsg
    <3> QED BY <3>1 DEF IInv, QueueInv, LineType, LineOf
  <2>2. t \in Seq(OwnedMsg) BY <1>3, RestOfClients
  <2> HIDE DEF t
  <2>3. [queue[n] EXCEPT !.ex = TRUE] \in LineType BY <2>1, LineFields DEF LineType
  <2>4. [queue[n] EXCEPT !.ex = TRUE, !.clients = t] \in LineType
      BY <2>2, <2>3, LineFields DEF LineType
  <2>5. queue' = [queue EXCEPT ![n] = [queue[n] EXCEPT !.ex = TRUE, !.clients = t]]
      BY <1>1 DEF IInv, QueueInv
  <2> QED BY <1>1, <2>1, <2>4, <2>5, QueueUpdate
<1> HIDE DEF cs, as, m, s, J, t
<1>10. cs1 \in Connections(Named) BY <1>4, SendType
<1> HIDE DEF cs1
<1>11. ASSUME c # None
       PROVE  claimed \in Connections(Named) /\ i \in AllIds
  <2>1. i \in AllIds BY <1>6, <1>7, <1>10, <1>11, CallIdType
  <2>2. [cs1 EXCEPT ![w].client = c] \in Connections(Named) BY <1>7, <1>10, <1>11, FieldConn
  <2>3. linked \in Connections(Named) BY <1>7, <1>10, <1>11, <2>2, LinkType
  <2> HIDE DEF linked
  <2>4. SetStatus(linked, c, "busy") \in Connections(Named)
      BY <1>7, <1>11, <2>3, SetStatusType, GetConn, Values
  <2> QED BY <2>1, <2>4 DEF SetStatus
<1>12. /\ conn' \in Connections(Named) /\ wait' \in WaitType
       /\ task' \in [Conns \cup AllIds -> Job \cup {None}]
       /\ adding' \in {NextName, ReturnOne}
  <2>1. CASE c = None
    <3>1. /\ conn' = Register(SetStatus(cs1, w, AfterAsync(cs1, w)), w, n)
          /\ adding' \in {ReturnOne, NextName} /\ UNCHANGED <<wait, task>>
        BY <2>1 DEF AddWorkerGive, cs, as, m, s, J, t, cs1
    <3>2. SetStatus(cs1, w, AfterAsync(cs1, w)) \in Connections(Named)
        BY <1>2, <1>10, AfterAsyncType, SetStatusType, GetConn
    <3>3. conn' \in Connections(Named) BY <3>1, <3>2, RegisterType
    <3> QED BY <3>1, <3>3 DEF IInv, HistoryInv
  <2>2. CASE c # None /\ cs[w].noid
    <3>1. /\ conn' = Register(SetStatus(claimed, w, "worker_wait_result"), w, n)
          /\ adding' = ReturnOne /\ task' = [task EXCEPT ![w] = m.job] /\ UNCHANGED wait
        BY <2>2 DEF AddWorkerGive, cs, as, m, s, J, t, cs1
    <3> HIDE DEF claimed
    <3>2. SetStatus(claimed, w, "worker_wait_result") \in Connections(Named)
        BY <1>2, <1>11, <2>2, SetStatusType, GetConn, Values
    <3>3. conn' \in Connections(Named) BY <3>1, <3>2, RegisterType
    <3> QED BY <1>6, <3>1, <3>3 DEF IInv, HistoryInv
  <2>3. CASE c # None /\ ~cs[w].noid
    <3> DEFINE d == [claimed EXCEPT ![c].id = i, ![w].status = "net"]
    <3>1. /\ conn' = Register(Link(d, c), w, n)
          /\ adding' = ReturnOne
          /\ wait' = [wait EXCEPT ![i] = c] /\ task' = [task EXCEPT ![i] = m.job]
        BY <2>3 DEF AddWorkerGive, cs, as, m, s, J, t, cs1
    <3> HIDE DEF claimed
    <3>2. [claimed EXCEPT ![c].id = i] \in Connections(Named) BY <1>7, <1>11, <2>3, FieldConn
    <3>3. SetStatus([claimed EXCEPT ![c].id = i], w, "net") \in Connections(Named)
        BY <3>2, SetStatusType, Values
    <3>4. d \in Connections(Named) BY <3>3 DEF SetStatus
    <3> HIDE DEF d
    <3>5. Link(d, c) \in Connections(Named) BY <1>7, <2>3, <3>4, LinkType
    <3>6. conn' \in Connections(Named) BY <3>1, <3>5, RegisterType
    <3>7. wait' \in WaitType BY <1>7, <1>11, <2>3, <3>1 DEF IInv, WaitType
    <3>8. task' \in [Conns \cup AllIds -> Job \cup {None}]
        BY <1>6, <1>11, <2>3, <3>1 DEF IInv, HistoryInv
    <3> QED BY <3>1, <3>6, <3>7, <3>8
  <2> QED BY <2>1, <2>2, <2>3
<1>13. ConnInv' BY <1>12, ConnectionsInv
<1>14. AddingInv' BY <1>1, <1>12, NextNameInv
<1>15. HistoryInv' BY <1>1, <1>8, <1>12 DEF IInv, HistoryInv
<1> QED BY <1>1, <1>9, <1>12, <1>13, <1>14, <1>15 DEF IInv

\* AddWorkerWait preserves the invariant.
LEMMA AddWorkerWaitStep ==
    ASSUME IInv, NEW w \in Conns, NEW n \in Names, AddWorkerWait(w, n)
    PROVE  IInv'
<1> DEFINE cs == LeaveOther(conn, w, n)
          s == queue[n].workers
          t == queue[n].clients
          gone == {i \in DOMAIN s : IsClosed(cs, s[i]) \/ s[i] = w}
          as == AfterScan(cs, wait, w, t)
          cs1 == Link(Release(as, s, gone), w)
          s2 == Append(Keep(s, DOMAIN s \ gone), w)
          t2 == Keep(t, DOMAIN t \ Scanned(cs, wait, w, t))
<1>1. /\ Adding(w, n) /\ conn' = Register(SetStatus(cs1, w, "worker_wait_job"), w, n)
      /\ queue' = [queue EXCEPT ![n] = [ex |-> TRUE, workers |-> s2, clients |-> t2]]
      /\ adding' = NextName /\ UNCHANGED <<wait, alive, history>>
    BY DEF AddWorkerWait
<1>2. /\ w \in Named /\ cs \in Connections(Named)
      /\ \A d \in Conns : cs[d].status # "net" => d \in Named
    BY <1>1, AddingFacts
<1>3. s \in Seq(Conns) /\ t \in Seq(OwnedMsg) BY QueueFacts
<1>4. gone \in SUBSET DOMAIN s OBVIOUS
<1> HIDE DEF cs, s, t, gone
<1>5. as \in Connections(Named) BY <1>2, <1>3, AfterScanType DEF IInv, HistoryInv
<1> HIDE DEF as
<1>6. Release(as, s, gone) \in Connections(Named) BY <1>3, <1>4, <1>5, ReleaseType
<1>7. cs1 \in Connections(Named) BY <1>6, LinkType
<1> HIDE DEF cs1
<1>8. SetStatus(cs1, w, "worker_wait_job") \in Connections(Named)
    BY <1>2, <1>7, SetStatusType, GetConn, Values
<1>9. conn' \in Connections(Named) BY <1>1, <1>8, RegisterType
<1>10. QueueInv'
  <2>1. OwnedMsg' = OwnedMsg /\ calls' = calls BY <1>1 DEF OwnedMsg, history
  <2>2. Keep(s, DOMAIN s \ gone) \in Seq(Conns) BY <1>3, RestOfClients
  <2>3. s2 \in Seq(Conns) BY <2>2
  <2>4. t2 \in Seq(OwnedMsg') BY <1>3, <2>1, RestOfClients
  <2> HIDE DEF s2, t2
  <2>5. [ex |-> TRUE, workers |-> s2, clients |-> t2] \in LineType'
      BY <2>3, <2>4 DEF LineType, LineOf
  <2> QED BY <1>1, <2>1, <2>5, QueueUpdate
<1>11. ConnInv' BY <1>9, ConnectionsInv
<1>12. AddingInv' BY <1>1, <1>9, NextNameInv
<1>13. HistoryInv' BY <1>1 DEF IInv, HistoryInv, history
<1> QED BY <1>1, <1>10, <1>11, <1>12, <1>13 DEF IInv

\* RecvPub preserves the invariant.
LEMMA RecvPubStep ==
    ASSUME IInv, NEW c \in Conns, NEW r \in Requests[c], RecvPub(c, r)
    PROVE  IInv'
<1> DEFINE n == r.names[1]
          cs == Start(conn, c, r)
          told == {w \in ListOf(cs, n) : cs[w].status = "worker_wait_job"}
          later == {w \in ListOf(cs, n) \ told : cs[w].noid}
          tell(w) == [cs[w] EXCEPT !.status = AfterAsync(cs, w), !.dm = @ + 1, !.wr = TRUE]
          keep(w) == [cs[w] EXCEPT !.dm = @ + 1]
          cs1 == [w \in Conns |-> IF w \in told THEN tell(w)
                                  ELSE IF w \in later THEN keep(w) ELSE cs[w]]
<1>1. /\ Plain(c, r, {"pub"}) /\ conn' = Send(IF queue[n].ex THEN cs1 ELSE cs, c)
      /\ UNCHANGED <<queue, wait, adding, alive, calls, asked, given, task>>
    BY DEF RecvPub
<1>2. Parsed(c, r) BY <1>1, PlainFacts
<1>3. /\ adding = Idle /\ owed' \in [Conns -> Int] /\ cs \in Connections(Named)
      /\ \A d \in Conns : cs[d].status = conn[d].status
    BY <1>2, ParsedFacts
<1>4. told \in SUBSET Named
    BY <1>3, NamedConnections DEF IInv, ListOf
<1> HIDE DEF cs, told, later
<1>5. cs1 \in Connections(Named)
  <2>1. ASSUME NEW w \in Conns
        PROVE  cs1[w] \in ModeType /\ (w \in Named => cs1[w] \in NamedType)
    <3>1. cs[w] \in ModeType /\ (w \in Named => cs[w] \in NamedType) BY <1>3, GetConn
    <3>2. keep(w) \in ModeType /\ (w \in Named => keep(w) \in NamedType)
        BY <3>1, FieldMode, FieldFacts
    <3>3. ASSUME w \in Named
          PROVE  tell(w) \in ModeType /\ tell(w) \in NamedType
      <4> DEFINE x == [cs[w] EXCEPT !.status = AfterAsync(cs, w)]
                y == [x EXCEPT !.dm = @ + 1]
      <4>1. x \in ModeType /\ x \in NamedType BY <3>1, <3>3, StatusMode, AfterAsyncType
      <4> HIDE DEF x
      <4>2. y \in ModeType /\ y \in NamedType BY <4>1, FieldMode, FieldFacts
      <4> HIDE DEF y
      <4>3. [y EXCEPT !.wr = TRUE] \in ModeType /\ [y EXCEPT !.wr = TRUE] \in NamedType
          BY <4>2, FieldMode
      <4> QED BY <4>3 DEF x, y
    <3> HIDE DEF tell, keep
    <3> QED BY <1>4, <3>1, <3>2, <3>3
  <2> HIDE DEF tell, keep
  <2> QED BY <2>1 DEF Connections
<1> HIDE DEF cs1
<1>6. conn' \in Connections(Named) BY <1>1, <1>3, <1>5, SendType
<1>7. ConnInv' BY <1>6, ConnectionsInv
<1>8. AddingInv' BY <1>1, <1>3, IdleInv
<1>9. HistoryInv' BY <1>1, <1>3 DEF IInv, HistoryInv
<1>10. QueueInv' BY <1>1, QueueKept DEF IInv
<1> QED BY <1>1, <1>7, <1>8, <1>9, <1>10 DEF IInv

\* RecvCreate preserves the invariant.
LEMMA RecvCreateStep ==
    ASSUME IInv, NEW c \in Conns, NEW r \in Requests[c], RecvCreate(c, r)
    PROVE  IInv'
<1> DEFINE n == r.names[1]
<1>1. /\ Plain(c, r, {"create"}) /\ conn' = Send(Start(conn, c, r), c)
      /\ queue' = [queue EXCEPT ![n].ex = TRUE]
      /\ UNCHANGED <<wait, adding, alive, calls, asked, given, task>>
    BY DEF RecvCreate
<1>2. Parsed(c, r) /\ r.op \in {"create"} BY <1>1, PlainFacts
<1>3. adding = Idle /\ owed' \in [Conns -> Int] /\ conn' \in Connections(Named)
    BY <1>1, <1>2, ParsedFacts, SendType
<1>4. n \in Names BY <1>2, NameFacts
<1>5. QueueInv'
  <2>1. queue[n] \in LineType /\ LineType \subseteq LineType'
      BY <1>1, <1>4, OwnedMsgKept DEF IInv, QueueInv
  <2>2. [queue[n] EXCEPT !.ex = TRUE] \in LineType' BY <2>1, LineFields DEF LineType
  <2>3. queue' = [queue EXCEPT ![n] = [queue[n] EXCEPT !.ex = TRUE]] BY <1>1
  <2> QED BY <1>1, <1>4, <2>2, <2>3, QueueUpdate
<1>6. ConnInv' BY <1>3, ConnectionsInv
<1>7. AddingInv' BY <1>1, <1>3, IdleInv
<1>8. HistoryInv' BY <1>1, <1>3 DEF IInv, HistoryInv
<1> QED BY <1>1, <1>5, <1>6, <1>7, <1>8 DEF IInv

\* The destructor of a list keeps the types.
LEMMA PopListedType ==
    ASSUME NEW N, NEW cs \in Connections(N), NEW d \in Conns, NEW n
    PROVE  PopListed(cs, d, n) \in ModeType /\ (d \in N => PopListed(cs, d, n) \in NamedType)
<1>1. PopItem(cs, d) \in Connections(N) BY PopItemType
<1> QED BY <1>1, GetConn DEF PopListed

\* RecvDelete preserves the invariant.
LEMMA RecvDeleteStep ==
    ASSUME IInv, NEW c \in Conns, NEW r \in Requests[c], RecvDelete(c, r)
    PROVE  IInv'
<1> DEFINE n == r.names[1]
          cs == Start(conn, c, r)
          s == queue[n].workers
          t == queue[n].clients
          refs(d) == Cardinality({i \in DOMAIN s : s[i] = d})
                     + Cardinality({i \in DOMAIN t : t[i].conn = d})
          told == [d \in Conns |->
                     [PopListed(cs, d, n) EXCEPT
                         !.link = @ - refs(d),
                         !.out = IF cs[d].sock = "open" THEN @ + refs(d) ELSE @,
                         !.wr = @ \/ (cs[d].sock = "open" /\ refs(d) > 0)]]
<1>1. /\ Plain(c, r, {"delete"}) /\ conn' = Send(told, c)
      /\ queue' = [queue EXCEPT ![n] = NoQueue]
      /\ UNCHANGED <<wait, adding, alive, calls, asked, given, task>>
    BY DEF RecvDelete
<1>2. Parsed(c, r) /\ r.op \in {"delete"} BY <1>1, PlainFacts
<1>3. adding = Idle /\ owed' \in [Conns -> Int] /\ cs \in Connections(Named)
    BY <1>2, ParsedFacts
<1>4. n \in Names BY <1>2, NameFacts
<1>5. s \in Seq(Conns) /\ t \in Seq(OwnedMsg) BY <1>4, QueueFacts
<1> HIDE DEF s, t, cs
<1>6. ASSUME NEW d \in Conns
      PROVE  told[d] \in ModeType /\ (d \in Named => told[d] \in NamedType)
  <2>1. refs(d) \in Nat
    <3>1. Len(s) \in Nat /\ {i \in DOMAIN s : s[i] = d} \in SUBSET (1 .. Len(s)) BY <1>5
    <3>2. Len(t) \in Nat /\ {i \in DOMAIN t : t[i].conn = d} \in SUBSET (1 .. Len(t)) BY <1>5
    <3>3. /\ Cardinality({i \in DOMAIN s : s[i] = d}) \in Nat
          /\ Cardinality({i \in DOMAIN t : t[i].conn = d}) \in Nat
        BY <3>1, <3>2, PositionsFinite
    <3> QED BY <3>3
  <2> DEFINE p == PopListed(cs, d, n)
            k == refs(d)
  <2>2. p \in ModeType /\ (d \in Named => p \in NamedType) BY <1>3, PopListedType
  <2>3. told[d] = [p EXCEPT !.link = @ - k,
                            !.out = IF cs[d].sock = "open" THEN @ + k ELSE @,
                            !.wr = @ \/ (cs[d].sock = "open" /\ k > 0)]
      OBVIOUS
  <2> HIDE DEF refs, p, told
  <2> DEFINE x == [p EXCEPT !.link = @ - k]
            y == [x EXCEPT !.out = IF cs[d].sock = "open" THEN @ + k ELSE @]
  <2>4. k \in Nat BY <2>1
  <2> HIDE DEF k
  <2>5. p.link - k \in Int BY <2>2, <2>4, FieldFacts
  <2>6. x \in ModeType /\ (d \in Named => x \in NamedType) BY <2>2, <2>5, FieldMode
  <2> HIDE DEF x
  <2>7. x.out \in Int /\ x.out + k \in Int BY <2>4, <2>6, FieldFacts
  <2>8. y \in ModeType /\ (d \in Named => y \in NamedType) BY <2>6, <2>7, FieldMode
  <2> HIDE DEF y
  <2>9. LET z == [y EXCEPT !.wr = @ \/ (cs[d].sock = "open" /\ k > 0)]
        IN  z \in ModeType /\ (d \in Named => z \in NamedType)
      BY <2>8, FieldMode, FieldFacts
  <2> QED BY <2>3, <2>9 DEF x, y
<1> HIDE DEF refs
<1>7. told \in Connections(Named) BY <1>6 DEF Connections
<1> HIDE DEF told
<1>8. conn' \in Connections(Named) BY <1>1, <1>7, SendType
<1>9. QueueInv'
  <2>1. NoQueue \in LineType' BY DEF NoQueue, LineType, LineOf
  <2> QED BY <1>1, <1>4, <2>1, QueueUpdate
<1>10. ConnInv' BY <1>8, ConnectionsInv
<1>11. AddingInv' BY <1>1, <1>3, IdleInv
<1>12. HistoryInv' BY <1>1, <1>3 DEF IInv, HistoryInv
<1> QED BY <1>1, <1>9, <1>10, <1>11, <1>12 DEF IInv

\* CheckTimeout preserves the invariant.
LEMMA CheckTimeoutStep ==
    ASSUME IInv, CheckTimeout
    PROVE  IInv'
<1> DEFINE may == {w \in Conns : /\ conn[w].ping /\ ~IsClosed(conn, w)
                                 /\ conn[w].status = "worker_wait_job"
                                 /\ \E n \in Names : w \in Members(queue[n].workers)}
          timed(w) == [Send(conn, w)[w] EXCEPT !.status = AfterAsync(conn, w)]
<1>1. PICK W \in SUBSET may :
        conn' = [w \in Conns |-> IF w \in W THEN timed(w) ELSE conn[w]]
    BY DEF CheckTimeout
<1>2. adding = Idle /\ UNCHANGED <<queue, wait, adding, alive, history>>
    BY DEF CheckTimeout, LoopReady
<1>3. conn \in Connections(Named) BY NamedConnections DEF IInv
<1>4. ASSUME NEW w \in W PROVE timed(w) \in ModeType
  <2>1. w \in Conns /\ w \in Named BY <1>4, NamedConnections DEF IInv
  <2>2. Send(conn, w) \in Connections(Named) BY <1>3, <2>1, SendType
  <2>3. Send(conn, w)[w] \in ModeType /\ Send(conn, w)[w] \in NamedType BY <2>1, <2>2, GetConn
  <2> QED BY <2>3, StatusMode, AfterAsyncType
<1> HIDE DEF timed, may
<1>5. ConnInv'
  <2>1. \A w \in Conns : conn[w] \in ModeType BY <1>3, GetConn
  <2> QED BY <1>1, <1>4, <2>1 DEF ConnInv
<1>6. AddingInv' BY <1>2, IdleInv
<1>7. HistoryInv' BY <1>2 DEF IInv, HistoryInv, history
<1>8. QueueInv'
  <2>1. OwnedMsg' = OwnedMsg BY <1>2 DEF history, OwnedMsg
  <2> QED BY <1>2, <2>1 DEF IInv, QueueInv, LineType, LineOf
<1> QED BY <1>2, <1>5, <1>6, <1>7, <1>8 DEF IInv

\* The service thread may clean a queue while a worker is being added.
LEMMA CleanDeadTasksStep ==
    ASSUME IInv, NEW n \in Names, CleanDeadTasks(n)
    PROVE  IInv'
<1> DEFINE s == queue[n].workers
          t == queue[n].clients
          R == {i \in DOMAIN s : IsClosed(conn, s[i]) \/ conn[s[i]].status # "worker_wait_job"}
          T == {i \in DOMAIN t : t[i].conn # None /\
                (IsClosed(conn, t[i].conn) \/ conn[t[i].conn].status # "client_wait_result")}
          a(c) == Cardinality({i \in R : s[i] = c})
          b(c) == Cardinality({i \in T : t[i].conn = c})
          s2 == Keep(s, DOMAIN s \ R)
          t2 == Keep(t, DOMAIN t \ T)
<1>1. /\ conn' = [c \in Conns |-> [conn[c] EXCEPT !.link = @ - a(c) - b(c)]]
      /\ queue' = [queue EXCEPT ![n].workers = s2, ![n].clients = t2]
      /\ UNCHANGED <<wait, adding, alive, history>>
    BY DEF CleanDeadTasks
<1>2. conn \in Connections(Named) BY NamedConnections DEF IInv
<1>3. s \in Seq(Conns) /\ t \in Seq(OwnedMsg) BY QueueFacts
<1>4. R \in SUBSET DOMAIN s /\ T \in SUBSET DOMAIN t OBVIOUS
<1> HIDE DEF s, t, R, T
<1>5. ASSUME NEW c \in Conns
      PROVE  LET q == [conn[c] EXCEPT !.link = @ - a(c) - b(c)]
             IN  q \in ModeType /\ (c \in Named => q \in NamedType)
  <2>1. a(c) \in Nat /\ b(c) \in Nat
    <3>1. Len(s) \in Nat /\ {i \in R : s[i] = c} \in SUBSET (1 .. Len(s)) BY <1>3, <1>4
    <3>2. Len(t) \in Nat /\ {i \in T : t[i].conn = c} \in SUBSET (1 .. Len(t)) BY <1>3, <1>4
    <3> QED BY <3>1, <3>2, PositionsFinite
  <2>2. conn[c] \in ModeType /\ (c \in Named => conn[c] \in NamedType) BY <1>2, GetConn
  <2> HIDE DEF a, b
  <2>3. conn[c].link - a(c) - b(c) \in Int BY <2>1, <2>2, FieldFacts
  <2> QED BY <2>2, <2>3, FieldMode
<1> HIDE DEF a, b
<1>6. conn' \in Connections(Named) BY <1>1, <1>5 DEF Connections
<1>7. QueueInv'
  <2>1. queue[n] \in LineType /\ LineType' = LineType
    <3>1. OwnedMsg' = OwnedMsg BY <1>1 DEF history, OwnedMsg
    <3> QED BY <3>1 DEF IInv, QueueInv, LineType, LineOf
  <2>2. s2 \in Seq(Conns) /\ t2 \in Seq(OwnedMsg) BY <1>3, RestOfClients
  <2> HIDE DEF s2, t2
  <2>3. [queue[n] EXCEPT !.workers = s2] \in LineType BY <2>1, <2>2, LineFields DEF LineType
  <2>4. [queue[n] EXCEPT !.workers = s2, !.clients = t2] \in LineType
      BY <2>2, <2>3, LineFields DEF LineType
  <2>5. queue' = [queue EXCEPT ![n] = [queue[n] EXCEPT !.workers = s2, !.clients = t2]]
      BY <1>1 DEF IInv, QueueInv
  <2> QED BY <1>1, <2>1, <2>4, <2>5 DEF IInv, QueueInv
<1>8. ConnInv' BY <1>6, ConnectionsInv
<1>9. AddingInv'
  <2>1. adding.conn # None => conn'[adding.conn] \in NamedType
    <3>1. SUFFICES ASSUME adding.conn # None PROVE conn'[adding.conn] \in NamedType OBVIOUS
    <3>2. adding.conn \in Named BY <3>1 DEF IInv, AddingInv, Named
    <3>3. adding.conn \in Conns BY <3>2 DEF Named
    <3> QED BY <1>6, <3>2, <3>3, GetConn
  <2> QED BY <1>1, <2>1 DEF IInv, AddingInv
<1>10. HistoryInv' BY <1>1 DEF IInv, HistoryInv, history
<1> QED BY <1>1, <1>7, <1>8, <1>9, <1>10 DEF IInv

\* The invariant is inductive.
LEMMA NextInv == IInv /\ [Next]_vars => IInv'
<1> SUFFICES ASSUME IInv, [Next]_vars PROVE IInv' OBVIOUS
<1>1. CASE UNCHANGED vars
  <2>1. OwnedMsg' = OwnedMsg BY <1>1 DEF vars, OwnedMsg
  <2>2. QueueInv' BY <1>1, <2>1 DEF vars, IInv, QueueInv, LineType, LineOf
  <2>3. ConnInv' /\ wait' \in WaitType /\ alive' \in BOOLEAN BY <1>1 DEF vars, IInv, ConnInv
  <2>4. AddingInv' BY <1>1 DEF vars, IInv, AddingInv
  <2>5. HistoryInv' BY <1>1 DEF vars, IInv, HistoryInv
  <2> QED BY <2>2, <2>3, <2>4, <2>5 DEF IInv
<1>2. ASSUME NEW c \in Conns, Accept(c) \/ PeerClose(c) \/ OnSend(c) \/ OnSendPart(c)
      PROVE  IInv'
    BY <1>2, AcceptStep, PeerCloseStep, OnSendStep, OnSendPartStep
<1>3. ASSUME NEW c \in Conns, NEW r \in Requests[c], Recv(c, r)
      PROVE  IInv'
  <2>1. CASE RecvNotReady(c, r) BY <2>1, RecvNotReadyStep
  <2>2. CASE RecvThrows(c, r) BY <2>2, RecvThrowsStep
  <2>3. CASE RecvEcho(c, r) BY <2>3, RecvEchoStep
  <2>4. CASE RecvWorkerMode(c, r) BY <2>4, RecvWorkerModeStep
  <2>5. CASE RecvNoId(c, r) BY <2>5, RecvNoIdStep
  <2>6. CASE RecvResult(c, r) BY <2>6, RecvResultStep
  <2>7. CASE RecvCallNoQueue(c, r) BY <2>7, RecvCallNoQueueStep
  <2>8. CASE RecvCallGive(c, r) BY <2>8, RecvCallGiveStep
  <2>9. CASE RecvCallReject(c, r) BY <2>9, RecvCallRejectStep
  <2>10. CASE RecvCallAbsent(c, r) BY <2>10, RecvCallAbsentStep
  <2>11. CASE RecvCallEnqueue(c, r) BY <2>11, RecvCallEnqueueStep
  <2>12. CASE RecvAdd(c, r) BY <2>12, RecvAddStep
  <2>13. CASE RecvPub(c, r) BY <2>13, RecvPubStep
  <2>14. CASE RecvCreate(c, r) BY <2>14, RecvCreateStep
  <2>15. CASE RecvDelete(c, r) BY <2>15, RecvDeleteStep
  <2> QED BY <1>3, <2>1, <2>2, <2>3, <2>4, <2>5, <2>6, <2>7, <2>8, <2>9, <2>10, <2>11,
             <2>12, <2>13, <2>14, <2>15 DEF Recv
<1>4. ASSUME NEW w \in Conns, NEW n \in Names, AddWorker(w, n)
      PROVE  IInv'
    BY <1>4, AddWorkerDirectStep, AddWorkerGiveStep, AddWorkerWaitStep DEF AddWorker
<1>5. ASSUME NEW n \in Names, CleanDeadTasks(n) PROVE IInv' BY <1>5, CleanDeadTasksStep
<1>6. CASE CheckTimeout BY <1>6, CheckTimeoutStep
<1>7. CASE DeleteConnections BY <1>7, DeleteConnectionsStep
<1> QED BY <1>1, <1>2, <1>3, <1>4, <1>5, <1>6, <1>7 DEF Next

\* Every behaviour of the broker keeps the inductive invariant.
THEOREM InductiveInvariant == Spec => []IInv
  BY InitInv, NextInv, PTL DEF Spec

\* Every variable keeps its type, for all sets of connections, queues, ids
\* and requests: no handler writes a status, a count or a pointer that is
\* none, and the record of Loop::add_worker names a worker as long as there
\* are names to add.
THEOREM TypeCorrect == Spec => []TypeOK
<1>1. IInv => TypeOK
  <2>1. SUFFICES ASSUME IInv PROVE TypeOK OBVIOUS
  <2>2. conn \in [Conns -> ConnType] BY <2>1 DEF IInv, ConnInv, ModeType
  <2>3. queue \in [Names -> QueueType]
    <3>1. OwnedMsg \subseteq MsgType BY DEF OwnedMsg
    <3>2. Seq(OwnedMsg) \subseteq Seq(MsgType) BY <3>1
    <3>3. LineType \subseteq QueueType BY <3>2 DEF LineType, LineOf, QueueType
    <3> QED BY <2>1, <3>3 DEF IInv, QueueInv
  <2> QED BY <2>1, <2>2, <2>3 DEF TypeOK, IInv, WaitType, AddingInv, HistoryInv
<1> QED BY <1>1, InductiveInvariant, PTL

-----------------------------------------------------------------------------
(* The order of the queued messages *)

\* No message stands behind one of lower priority.
Sorted(s) == \A i, j \in DOMAIN s : i < j => s[i].prio >= s[j].prio

\* No call occurs twice.
Distinct(s) == \A i, j \in DOMAIN s : s[i].job = s[j].job => i = j

\* How the messages of a queue may change from s to t: some are erased, or
\* the queue is deleted ...
LineShrinks(s, t) ==
    \/ t = s
    \/ t = << >>
    \/ \E K \in SUBSET DOMAIN s : t = Keep(s, K)

\* ... or a new one is inserted at its position.
LineChange(s, t) ==
    \/ LineShrinks(s, t)
    \/ \E m \in MsgType : /\ \A i \in DOMAIN s : s[i].job # m.job
                          /\ t = Insert(s, m)

\* Erasing keeps the order and the distinctness of what is left.
LEMMA KeepOrdered ==
    ASSUME NEW s \in Seq(MsgType), NEW K \in SUBSET DOMAIN s
    PROVE  /\ Sorted(s) => Sorted(Keep(s, K))
           /\ Distinct(s) => Distinct(Keep(s, K))
<1> DEFINE t == Keep(s, K)
<1>1. /\ t \in Seq(MsgType) /\ Len(t) = Cardinality(K) /\ Cardinality(K) \in Nat
      /\ \A i \in 1 .. Cardinality(K) : Nth(K, i) \in K /\ t[i] = s[Nth(K, i)]
      /\ \A i, j \in 1 .. Cardinality(K) : i < j => Nth(K, i) < Nth(K, j)
    BY KeepProperty
<1> HIDE DEF t
<1>2. DOMAIN t = 1 .. Cardinality(K) BY <1>1
<1>3. \A i \in DOMAIN t : Nth(K, i) \in DOMAIN s /\ t[i] = s[Nth(K, i)] BY <1>1, <1>2
<1>4. Sorted(s) => Sorted(t) BY <1>1, <1>2, <1>3 DEF Sorted
<1>5. ASSUME Distinct(s), NEW i \in DOMAIN t, NEW j \in DOMAIN t, t[i].job = t[j].job
      PROVE  i = j
  <2>1. Nth(K, i) = Nth(K, j) BY <1>3, <1>5 DEF Distinct
  <2>2. Nth(K, i) \in Int /\ ~(i < j) /\ ~(j < i)
    <3>1. Nth(K, i) \in Int BY <1>3
    <3> QED BY <1>1, <1>2, <2>1, <3>1
  <2> QED BY <1>2, <2>2
<1> QED BY <1>4, <1>5 DEF Distinct, t

\* What an insertion does to the positions.
LEMMA InsertFacts ==
    ASSUME NEW s \in Seq(MsgType), NEW m \in MsgType
    PROVE  LET p == Position(s, m)
               t == Insert(s, m)
           IN  /\ Len(s) \in Nat /\ DOMAIN s = 1 .. Len(s)
               /\ p \in 0 .. Len(s) /\ DOMAIN t = 1 .. Len(s) + 1
               /\ p > 0 => m.prio <= s[p].prio
               /\ \A k \in p + 1 .. Len(s) : m.prio > s[k].prio
               /\ \A i \in 1 .. Len(s) + 1 :
                    t[i] = IF i <= p THEN s[i] ELSE IF i = p + 1 THEN m ELSE s[i - 1]
<1>1. /\ Position(s, m) \in 0 .. Len(s)
      /\ Position(s, m) > 0 => m.prio <= s[Position(s, m)].prio
      /\ \A k \in Position(s, m) + 1 .. Len(s) : m.prio > s[k].prio
    BY PositionType
<1>2. /\ Insert(s, m) \in Seq(MsgType) /\ Len(Insert(s, m)) = Len(s) + 1
      /\ \A i \in 1 .. Len(Insert(s, m)) :
            Insert(s, m)[i] = IF i <= Position(s, m) THEN s[i]
                              ELSE IF i = Position(s, m) + 1 THEN m ELSE s[i - 1]
  <2> DEFINE p == Position(s, m)
  <2>1. p \in 0 .. Len(s) BY <1>1
  <2>2. Insert(s, m) = InsertBehind(s, p, m) BY DEF Insert
  <2> HIDE DEF p
  <2>3. /\ InsertBehind(s, p, m) \in Seq(MsgType)
        /\ Len(InsertBehind(s, p, m)) = Len(s) + 1
        /\ \A i \in 1 .. Len(InsertBehind(s, p, m)) :
              InsertBehind(s, p, m)[i] = IF i <= p THEN s[i] ELSE IF i = p + 1 THEN m ELSE s[i - 1]
      BY <2>1, InsertProperty
  <2> QED BY <2>2, <2>3 DEF p
<1> QED BY <1>1, <1>2

\* The position of a new message is the right one.
LEMMA InsertOrdered ==
    ASSUME NEW s \in Seq(MsgType), NEW m \in MsgType
    PROVE  /\ Sorted(s) => Sorted(Insert(s, m))
           /\ Distinct(s) /\ (\A i \in DOMAIN s : s[i].job # m.job) => Distinct(Insert(s, m))
<1> DEFINE p == Position(s, m)
          t == Insert(s, m)
<1>1. /\ Len(s) \in Nat /\ DOMAIN s = 1 .. Len(s)
      /\ p \in 0 .. Len(s) /\ DOMAIN t = 1 .. Len(s) + 1
      /\ p > 0 => m.prio <= s[p].prio
      /\ \A k \in p + 1 .. Len(s) : m.prio > s[k].prio
      /\ \A i \in 1 .. Len(s) + 1 :
            t[i] = IF i <= p THEN s[i] ELSE IF i = p + 1 THEN m ELSE s[i - 1]
    BY InsertFacts
<1> HIDE DEF p, t
<1>2. m.prio \in Int /\ \A k \in 1 .. Len(s) : s[k].prio \in Int
  <2>1. \A k \in 1 .. Len(s) : s[k] \in MsgType OBVIOUS
  <2> QED BY <2>1 DEF MsgType
<1>3. ASSUME Sorted(s), NEW i \in DOMAIN t, NEW j \in DOMAIN t, i < j
      PROVE  t[i].prio >= t[j].prio
  <2>1. \A k, l \in 1 .. Len(s) : k < l => s[k].prio >= s[l].prio BY <1>1, <1>3 DEF Sorted
  <2>2. \A k \in 1 .. p : s[k].prio >= m.prio
    <3>1. SUFFICES ASSUME NEW k \in 1 .. p PROVE s[k].prio >= m.prio OBVIOUS
    <3>2. p \in 1 .. Len(s) /\ k \in 1 .. Len(s) BY <1>1
    <3>3. m.prio <= s[p].prio BY <1>1, <3>2
    <3>4. k = p \/ s[k].prio >= s[p].prio BY <2>1, <3>2
    <3> QED BY <1>2, <3>2, <3>3, <3>4
  <2>3. CASE j <= p BY <1>1, <1>3, <2>1, <2>3
  <2>4. CASE j = p + 1 BY <1>1, <1>3, <2>2, <2>4
  <2>5. CASE j > p + 1
    <3>1. j - 1 \in p + 1 .. Len(s) /\ j - 1 \in 1 .. Len(s) /\ t[j] = s[j - 1]
        BY <1>1, <1>3, <2>5
    <3>2. CASE i <= p
      <4>1. i \in 1 .. Len(s) /\ t[i] = s[i] /\ i < j - 1 BY <1>1, <1>3, <2>5, <3>2
      <4> QED BY <2>1, <3>1, <4>1
    <3>3. CASE i = p + 1
      <4>1. t[i] = m BY <1>1, <1>3, <3>3
      <4> QED BY <1>1, <1>2, <3>1, <4>1
    <3>4. CASE i > p + 1
      <4>1. i - 1 \in 1 .. Len(s) /\ t[i] = s[i - 1] /\ i - 1 < j - 1 BY <1>1, <1>3, <3>4
      <4> QED BY <2>1, <3>1, <4>1
    <3> QED BY <1>1, <1>3, <3>2, <3>3, <3>4
  <2> QED BY <1>1, <1>3, <2>3, <2>4, <2>5
<1>4. ASSUME Distinct(s), \A i \in DOMAIN s : s[i].job # m.job,
             NEW i \in DOMAIN t, NEW j \in DOMAIN t, t[i].job = t[j].job
      PROVE  i = j
  <2>1. \A k, l \in 1 .. Len(s) : s[k].job = s[l].job => k = l BY <1>1, <1>4 DEF Distinct
  <2>2. i \in 1 .. Len(s) + 1 /\ j \in 1 .. Len(s) + 1 BY <1>1, <1>4
  <2>3. ASSUME NEW x \in 1 .. Len(s) + 1, x # p + 1
        PROVE  \E k \in 1 .. Len(s) : t[x] = s[k] /\ k = IF x <= p THEN x ELSE x - 1
    <3>1. CASE x <= p BY <1>1, <3>1
    <3>2. CASE x > p + 1
      <4>1. x - 1 \in 1 .. Len(s) /\ t[x] = s[x - 1] /\ ~(x <= p) BY <1>1, <3>2
      <4> QED BY <4>1
    <3> QED BY <1>1, <2>3, <3>1, <3>2
  <2>4. p + 1 \in 1 .. Len(s) + 1 /\ t[p + 1] = m BY <1>1
  <2>5. ASSUME NEW x \in 1 .. Len(s) + 1, x # p + 1
        PROVE  t[x].job # m.job
    <3>1. PICK k \in 1 .. Len(s) : t[x] = s[k] BY <2>3, <2>5
    <3> QED BY <1>1, <1>4, <3>1
  <2>6. CASE i = p + 1 \/ j = p + 1 BY <1>4, <2>2, <2>4, <2>5, <2>6
  <2>7. CASE i # p + 1 /\ j # p + 1
    <3>1. PICK k \in 1 .. Len(s) : t[i] = s[k] /\ k = IF i <= p THEN i ELSE i - 1
        BY <2>2, <2>3, <2>7
    <3>2. PICK l \in 1 .. Len(s) : t[j] = s[l] /\ l = IF j <= p THEN j ELSE j - 1
        BY <2>2, <2>3, <2>7
    <3>3. k = l BY <1>4, <2>1, <3>1, <3>2
    <3> QED BY <1>1, <2>2, <2>7, <3>1, <3>2, <3>3
  <2> QED BY <2>6, <2>7
<1> QED BY <1>3, <1>4 DEF Sorted, Distinct, t

\* Replacing other fields of one queue leaves all messages.
LEMMA SameClients ==
    ASSUME IInv, NEW n \in Names, NEW k \in Names
    PROVE  /\ \A ws : [queue EXCEPT ![k].workers = ws][n].clients = queue[n].clients
           /\ [queue EXCEPT ![k].ex = TRUE][n].clients = queue[n].clients
<1>1. queue \in [Names -> LineType] BY DEF IInv, QueueInv
<1>2. queue[k] \in LineType /\ queue[n] \in LineType BY <1>1
<1>3. /\ \A ws : [queue[k] EXCEPT !.workers = ws].clients = queue[k].clients
      /\ [queue[k] EXCEPT !.ex = TRUE].clients = queue[k].clients
    BY <1>2 DEF LineType, LineOf
<1> QED BY <1>1, <1>3

\* No action but that of a call that must wait adds a message to a queue.
LEMMA ClientsShrink ==
    ASSUME IInv, [Next]_vars, NEW n \in Names,
           \A c \in Conns : \A r \in Requests[c] : ~RecvCallEnqueue(c, r)
    PROVE  LineShrinks(queue[n].clients, queue'[n].clients)
<1> DEFINE s == queue[n].clients
          OK == LineShrinks(s, queue'[n].clients)
<1>1. s \in Seq(OwnedMsg) /\ queue \in [Names -> LineType] BY QueueFacts DEF IInv, QueueInv
<1>2. ASSUME queue'[n].clients = s PROVE OK BY <1>2 DEF LineShrinks
<1>3. ASSUME NEW R, queue'[n].clients = Keep(s, DOMAIN s \ R) PROVE OK BY <1>3 DEF LineShrinks
<1>4. CASE UNCHANGED vars BY <1>2, <1>4 DEF vars
<1>5. ASSUME NEW c \in Conns, Accept(c) \/ PeerClose(c) \/ OnSend(c) \/ OnSendPart(c)
      PROVE  OK
    BY <1>2, <1>5 DEF Accept, PeerClose, OnSend, OnSendPart
<1>6. ASSUME NEW c \in Conns, NEW r \in Requests[c], Recv(c, r)
      PROVE  OK
  <2>1. CASE \/ RecvNotReady(c, r) \/ RecvThrows(c, r) \/ RecvEcho(c, r)
             \/ RecvWorkerMode(c, r) \/ RecvNoId(c, r) \/ RecvResult(c, r)
             \/ RecvCallNoQueue(c, r) \/ RecvAdd(c, r) \/ RecvPub(c, r)
    <3>1. UNCHANGED queue
        BY <2>1 DEF RecvNotReady, brokerVars, RecvThrows, RecvEcho, RecvWorkerMode, RecvNoId,
                    RecvResult, RecvCallNoQueue, RecvAdd, RecvPub
    <3> QED BY <1>2, <3>1
  <2>2. CASE RecvCallGive(c, r) \/ RecvCallReject(c, r) \/ RecvCallAbsent(c, r)
    <3>1. r.names[1] \in Names
        BY <2>2, CallFacts DEF RecvCallGive, RecvCallReject, RecvCallAbsent
    <3>2. \E ws : queue' = [queue EXCEPT ![r.names[1]].workers = ws]
        BY <2>2 DEF RecvCallGive, RecvCallReject, RecvCallAbsent
    <3> QED BY <1>2, <3>1, <3>2, SameClients
  <2>3. CASE RecvCreate(c, r)
    <3>1. r.op \in {"create"} BY <2>3, PlainFacts DEF RecvCreate
    <3>2. r.names[1] \in Names BY <3>1, NameFacts
    <3> QED BY <1>2, <2>3, <3>2, SameClients DEF RecvCreate
  <2>4. CASE RecvDelete(c, r)
    <3>1. queue' = [queue EXCEPT ![r.names[1]] = NoQueue] BY <2>4 DEF RecvDelete
    <3>2. queue'[n] = NoQueue \/ queue'[n] = queue[n] BY <1>1, <3>1
    <3>3. NoQueue.clients = << >> BY DEF NoQueue
    <3> QED BY <1>2, <3>2, <3>3 DEF LineShrinks
  <2> QED BY <1>6, <2>1, <2>2, <2>3, <2>4 DEF Recv
<1>7. ASSUME NEW w \in Conns, NEW k \in Names, AddWorker(w, k)
      PROVE  OK
  <2>1. CASE AddWorkerDirect(w, k) BY <1>2, <2>1, SameClients DEF AddWorkerDirect
  <2>2. CASE AddWorkerGive(w, k)
    <3>1. \E R : queue' = [queue EXCEPT ![k].ex = TRUE,
                             ![k].clients = Keep(queue[k].clients, DOMAIN queue[k].clients \ R)]
        BY <2>2 DEF AddWorkerGive
    <3>2. CASE k # n BY <1>1, <1>2, <3>1, <3>2
    <3>3. CASE k = n
      <4>1. PICK R : queue' = [queue EXCEPT ![n].ex = TRUE, ![n].clients = Keep(s, DOMAIN s \ R)]
          BY <3>1, <3>3
      <4>2. queue'[n] = [queue[n] EXCEPT !.ex = TRUE, !.clients = Keep(s, DOMAIN s \ R)]
          BY <1>1, <4>1
      <4>3. queue[n] \in LineType BY <1>1
      <4>4. queue'[n].clients = Keep(s, DOMAIN s \ R) BY <4>2, <4>3 DEF LineType, LineOf
      <4> QED BY <1>3, <4>4
    <3> QED BY <3>2, <3>3
  <2>3. CASE AddWorkerWait(w, k)
    <3>1. \E R, x : queue' = [queue EXCEPT ![k] =
             [ex |-> TRUE, workers |-> x,
              clients |-> Keep(queue[k].clients, DOMAIN queue[k].clients \ R)]]
        BY <2>3 DEF AddWorkerWait
    <3>2. CASE k # n BY <1>1, <1>2, <3>1, <3>2
    <3>3. CASE k = n
      <4>1. PICK R, x : queue' = [queue EXCEPT ![n] =
               [ex |-> TRUE, workers |-> x, clients |-> Keep(s, DOMAIN s \ R)]]
          BY <3>1, <3>3
      <4>2. queue'[n].clients = Keep(s, DOMAIN s \ R) BY <1>1, <4>1
      <4> QED BY <1>3, <4>2
    <3> QED BY <3>2, <3>3
  <2> QED BY <1>7, <2>1, <2>2, <2>3 DEF AddWorker
<1>8. ASSUME NEW k \in Names, CleanDeadTasks(k) PROVE OK
  <2>1. \E R, x : queue' = [queue EXCEPT ![k].workers = x,
                           ![k].clients = Keep(queue[k].clients, DOMAIN queue[k].clients \ R)]
      BY <1>8 DEF CleanDeadTasks
  <2>2. CASE k # n BY <1>1, <1>2, <2>1, <2>2
  <2>3. CASE k = n
    <3>1. PICK R, x : queue' = [queue EXCEPT ![n].workers = x, ![n].clients = Keep(s, DOMAIN s \ R)]
        BY <2>1, <2>3
    <3>2. queue'[n] = [queue[n] EXCEPT !.workers = x, !.clients = Keep(s, DOMAIN s \ R)]
        BY <1>1, <3>1
    <3>3. queue[n] \in LineType BY <1>1
    <3>4. queue'[n].clients = Keep(s, DOMAIN s \ R) BY <3>2, <3>3 DEF LineType, LineOf
    <3> QED BY <1>3, <3>4
  <2> QED BY <2>2, <2>3
<1>9. CASE CheckTimeout \/ DeleteConnections
    BY <1>2, <1>9 DEF CheckTimeout, DeleteConnections
<1> QED BY <1>4, <1>5, <1>6, <1>7, <1>8, <1>9 DEF Next

\* A call that must wait is inserted in its queue.
LEMMA ClientsInsert ==
    ASSUME IInv, NEW c \in Conns, NEW r \in Requests[c], RecvCallEnqueue(c, r), NEW n \in Names
    PROVE  \/ n # r.names[1] /\ queue'[n].clients = queue[n].clients
           \/ \E m \in MsgType : /\ m.job = <<c, calls[c] + 1>>
                                 /\ queue'[n].clients = Insert(queue[n].clients, m)
                                 /\ n = r.names[1]
<1> DEFINE s == queue[n].clients
           k == r.names[1]
           m == [conn |-> IF r.op = "async" THEN None ELSE c, prio |-> r.prio,
                 req |-> r.wid, job |-> <<c, calls[c] + 1>>]
<1>0. queue \in [Names -> LineType] BY DEF IInv, QueueInv
<1>1. /\ Call(c, r)
      /\ queue' = [queue EXCEPT ![k].workers = RestOfWorkers(r), ![k].clients = Insert(@, m)]
    BY DEF RecvCallEnqueue
<1>2. k \in Names /\ <<c, calls[c] + 1>> \in Job /\ r \in RequestType BY <1>1, CallFacts
<1>3. m \in MsgType BY <1>2, RequestFacts DEF MsgType
<1>4. m.job = <<c, calls[c] + 1>> OBVIOUS
<1> HIDE DEF m
<1>5. CASE k # n BY <1>0, <1>1, <1>2, <1>5
<1>6. CASE k = n
  <2>1. queue[n] \in LineType BY <1>0
  <2>2. queue'[n] = [queue[n] EXCEPT !.workers = RestOfWorkers(r), !.clients = Insert(@, m)]
      BY <1>0, <1>1, <1>6
  <2>3. queue'[n].clients = Insert(s, m) BY <2>1, <2>2 DEF LineType, LineOf
  <2> QED BY <1>3, <1>4, <1>6, <2>3
<1> QED BY <1>5, <1>6

\* No action changes the messages of a queue in another way.
LEMMA ClientsChange ==
    ASSUME IInv, [Next]_vars, NEW n \in Names
    PROVE  LineChange(queue[n].clients, queue'[n].clients)
<1>1. CASE \A c \in Conns : \A r \in Requests[c] : ~RecvCallEnqueue(c, r)
    BY <1>1, ClientsShrink DEF LineChange
<1>2. ASSUME NEW c \in Conns, NEW r \in Requests[c], RecvCallEnqueue(c, r)
      PROVE  LineChange(queue[n].clients, queue'[n].clients)
  <2> DEFINE s == queue[n].clients
  <2>1. CASE queue'[n].clients = s BY <2>1 DEF LineChange, LineShrinks
  <2>2. ASSUME NEW m \in MsgType, m.job = <<c, calls[c] + 1>>, queue'[n].clients = Insert(s, m)
        PROVE  LineChange(s, queue'[n].clients)
    <3>1. ASSUME NEW i \in DOMAIN s PROVE s[i].job # m.job
      <4>1. s[i] \in OwnedMsg BY QueueFacts
      <4>2. s[i].job[2] <= calls[s[i].job[1]] BY <4>1 DEF OwnedMsg
      <4>3. calls[c] \in Int BY BoundsAssumption DEF IInv, HistoryInv
      <4>4. m.job[1] = c /\ m.job[2] = calls[c] + 1 BY <2>2
      <4> QED BY <4>2, <4>3, <4>4
    <3> QED BY <2>2, <3>1 DEF LineChange
  <2> QED BY <1>2, <2>1, <2>2, ClientsInsert
<1> QED BY <1>1, <1>2

\* The messages of every queue are sorted, and no call is queued twice.
OrderInv == \A n \in Names : Sorted(queue[n].clients) /\ Distinct(queue[n].clients)

\* The messages of a queue, without their owners.
LEMMA MessagesType ==
    ASSUME IInv, NEW n \in Names
    PROVE  queue[n].clients \in Seq(MsgType)
<1>1. queue[n].clients \in Seq(OwnedMsg) /\ OwnedMsg \subseteq MsgType
    BY QueueFacts DEF OwnedMsg
<1> QED BY <1>1

\* Sortedness and distinctness are inductive relative to IInv.
LEMMA OrderStep == IInv /\ OrderInv /\ [Next]_vars => OrderInv'
<1> SUFFICES ASSUME IInv, OrderInv, [Next]_vars, NEW n \in Names
             PROVE  Sorted(queue'[n].clients) /\ Distinct(queue'[n].clients)
    BY DEF OrderInv
<1> DEFINE s == queue[n].clients
          t == queue'[n].clients
<1>1. LineChange(s, t) BY ClientsChange
<1>2. s \in Seq(MsgType) /\ Sorted(s) /\ Distinct(s) BY MessagesType DEF OrderInv
<1> SUFFICES Sorted(t) /\ Distinct(t) OBVIOUS
<1> HIDE DEF s, t
<1>3. CASE t = s BY <1>2, <1>3
<1>4. CASE t = << >> BY <1>4 DEF Sorted, Distinct
<1>5. ASSUME NEW K \in SUBSET DOMAIN s, t = Keep(s, K)
      PROVE  Sorted(t) /\ Distinct(t)
    BY <1>2, <1>5, KeepOrdered
<1>6. ASSUME NEW m \in MsgType, \A i \in DOMAIN s : s[i].job # m.job, t = Insert(s, m)
      PROVE  Sorted(t) /\ Distinct(t)
    BY <1>2, <1>6, InsertOrdered
<1> QED BY <1>1, <1>3, <1>4, <1>5, <1>6 DEF LineChange, LineShrinks

\* In every state the queued messages of Loop::client_request are sorted
\* by priority, and no call is queued twice.
THEOREM MessagesOrdered == Spec => []OrderInv
<1>1. Init => OrderInv BY DEF Init, NoQueue, OrderInv, Sorted, Distinct
<1> QED BY <1>1, OrderStep, InductiveInvariant, PTL DEF Spec

\* The deque of queued messages is sorted by priority in every state: the
\* scan of Loop::client_request for the position of a new message relies on
\* it, and so does the scan of Loop::_add_worker from the front.
THEOREM PrioritiesKept == Spec => []PriorityOrder
<1>1. OrderInv => PriorityOrder BY DEF OrderInv, Sorted, PriorityOrder
<1> QED BY <1>1, MessagesOrdered, PTL

\* The order that a change of a queue keeps.
OrderKept(s, t) ==
    /\ \A i, j \in DOMAIN t : \A k, l \in DOMAIN s :
         t[i].job = s[k].job /\ t[j].job = s[l].job /\ k < l => i < j
    /\ \A i, j \in DOMAIN t :
         (t[i].job \notin {m.job : m \in Members(s)} /\ i < j
            /\ t[j].job \in {m.job : m \in Members(s)}) => t[i].prio > t[j].prio

\* Erasing keeps the order of arrival.
LEMMA KeepKeepsOrder ==
    ASSUME NEW s \in Seq(MsgType), Distinct(s), NEW K \in SUBSET DOMAIN s
    PROVE  OrderKept(s, Keep(s, K))
<1> DEFINE t == Keep(s, K)
<1>1. /\ t \in Seq(MsgType) /\ Len(t) = Cardinality(K) /\ Cardinality(K) \in Nat
      /\ \A i \in 1 .. Cardinality(K) : Nth(K, i) \in K /\ t[i] = s[Nth(K, i)]
      /\ \A i, j \in 1 .. Cardinality(K) : i < j => Nth(K, i) < Nth(K, j)
    BY KeepProperty
<1> HIDE DEF t
<1>2. DOMAIN t = 1 .. Cardinality(K) BY <1>1
<1>3. \A i \in DOMAIN t : Nth(K, i) \in DOMAIN s /\ t[i] = s[Nth(K, i)] BY <1>1, <1>2
<1>4. ASSUME NEW i \in DOMAIN t, NEW j \in DOMAIN t, NEW k \in DOMAIN s, NEW l \in DOMAIN s,
             t[i].job = s[k].job, t[j].job = s[l].job, k < l
      PROVE  i < j
  <2>1. Nth(K, i) = k /\ Nth(K, j) = l BY <1>3, <1>4 DEF Distinct
  <2>2. k \in Int /\ l \in Int /\ i \in Int /\ j \in Int BY <1>2
  <2>3. j < i => l < k BY <1>1, <1>2, <2>1
  <2>4. i # j BY <1>4, <2>1, <2>2
  <2> QED BY <1>4, <2>2, <2>3, <2>4
<1>5. \A i \in DOMAIN t : t[i].job \in {m.job : m \in Members(s)} BY <1>3 DEF Members
<1> QED BY <1>4, <1>5 DEF OrderKept, t

\* Inserting keeps the order of arrival.
LEMMA InsertKeepsOrder ==
    ASSUME NEW s \in Seq(MsgType), Distinct(s),
           NEW m \in MsgType, \A i \in DOMAIN s : s[i].job # m.job
    PROVE  OrderKept(s, Insert(s, m))
<1> DEFINE p == Position(s, m)
          t == Insert(s, m)
          f(k) == IF k <= p THEN k ELSE k + 1
<1>1. /\ Len(s) \in Nat /\ DOMAIN s = 1 .. Len(s)
      /\ p \in 0 .. Len(s) /\ DOMAIN t = 1 .. Len(s) + 1
      /\ \A k \in p + 1 .. Len(s) : m.prio > s[k].prio
      /\ \A i \in 1 .. Len(s) + 1 :
            t[i] = IF i <= p THEN s[i] ELSE IF i = p + 1 THEN m ELSE s[i - 1]
    BY InsertFacts
<1>2. Distinct(t) BY InsertOrdered
<1> HIDE DEF p, t
<1>3. ASSUME NEW k \in DOMAIN s
      PROVE  f(k) \in DOMAIN t /\ t[f(k)] = s[k]
  <2>1. CASE k <= p BY <1>1, <2>1
  <2>2. CASE k > p
    <3>1. f(k) = k + 1 /\ k + 1 \in 1 .. Len(s) + 1 /\ ~(k + 1 <= p) /\ k + 1 # p + 1
          /\ (k + 1) - 1 = k
        BY <1>1, <2>2
    <3> QED BY <1>1, <3>1
  <2> QED BY <1>1, <2>1, <2>2
<1>4. ASSUME NEW i \in DOMAIN t, NEW j \in DOMAIN t, NEW k \in DOMAIN s, NEW l \in DOMAIN s,
             t[i].job = s[k].job, t[j].job = s[l].job, k < l
      PROVE  i < j
  <2>1. i = f(k) /\ j = f(l)
    <3> HIDE DEF f
    <3> QED BY <1>2, <1>3, <1>4 DEF Distinct
  <2> QED BY <1>1, <1>4, <2>1
<1>5. ASSUME NEW i \in DOMAIN t, NEW j \in DOMAIN t, i < j,
             t[i].job \notin {x.job : x \in Members(s)}
      PROVE  t[i].prio > t[j].prio
  <2>1. i = p + 1
    <3>1. SUFFICES ASSUME i # p + 1 PROVE \E k \in DOMAIN s : t[i] = s[k] BY <1>5 DEF Members
    <3>2. CASE i <= p BY <1>1, <3>2
    <3>3. CASE i > p + 1
      <4>1. i - 1 \in DOMAIN s /\ t[i] = s[i - 1] BY <1>1, <3>3
      <4> QED BY <4>1
    <3> QED BY <1>1, <3>1, <3>2, <3>3
  <2>2. j - 1 \in p + 1 .. Len(s) /\ t[j] = s[j - 1] /\ t[i] = m BY <1>1, <1>5, <2>1
  <2> QED BY <1>1, <2>2
<1> HIDE DEF f
<1> QED BY <1>4, <1>5 DEF OrderKept, t

\* Among equal priorities calls are served in the order of their arrival,
\* whatever the interleaving of requests, registrations, disconnections,
\* publications, deletions and the service thread.
THEOREM OrderOfArrival == Spec => FirstComeFirstServed
<1>1. IInv /\ OrderInv /\ [Next]_vars => [KeepsOrder]_vars
  <2> SUFFICES ASSUME IInv, OrderInv, [Next]_vars PROVE KeepsOrder OBVIOUS
  <2>1. ASSUME NEW n \in Names
        PROVE  OrderKept(queue[n].clients, queue'[n].clients)
    <3> DEFINE s == queue[n].clients
              t == queue'[n].clients
    <3>1. LineChange(s, t) BY ClientsChange
    <3>2. s \in Seq(MsgType) /\ Distinct(s) BY MessagesType DEF OrderInv
    <3> SUFFICES OrderKept(s, t) OBVIOUS
    <3> HIDE DEF s, t
    <3>3. CASE t = s
      <4>1. \A i \in DOMAIN s : s[i].job \in {m.job : m \in Members(s)} BY DEF Members
      <4> QED BY <3>2, <3>3, <4>1 DEF OrderKept, Distinct
    <3>4. CASE t = << >> BY <3>4 DEF OrderKept
    <3>5. ASSUME NEW K \in SUBSET DOMAIN s, t = Keep(s, K) PROVE OrderKept(s, t)
        BY <3>2, <3>5, KeepKeepsOrder
    <3>6. ASSUME NEW m \in MsgType, \A i \in DOMAIN s : s[i].job # m.job, t = Insert(s, m)
          PROVE  OrderKept(s, t)
        BY <3>2, <3>6, InsertKeepsOrder
    <3> QED BY <3>1, <3>3, <3>4, <3>5, <3>6 DEF LineChange, LineShrinks
  <2> QED BY <2>1 DEF KeepsOrder, OrderKept
<1> QED BY <1>1, InductiveInvariant, MessagesOrdered, PTL DEF Spec, FirstComeFirstServed
====
