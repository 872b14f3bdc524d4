------------------------- MODULE RESTExchangeProofs -------------------------
(***************************************************************************)
(* Theorems about RESTExchange for any number of requests at once: what    *)
(* the caller is told is what the service did, an answer its OpenAPI       *)
(* document declares, and what the log and the metrics say; and no process *)
(* leaves its database session open.                                       *)
(***************************************************************************)
EXTENDS RESTExchange, TLAPS

\* The shape of the two records a request has.
ServerRecord(v) ==
  v \in [pc : {v.pc}, tenant : {v.tenant}, did : {v.did}, reply : {v.reply},
         logged : {v.logged}, counted : {v.counted}]
ClientRecord(v) == v \in [state : {v.state}, request : {v.request}, got : {v.got}]

WellFormed ==
  /\ DOMAIN server = Calls /\ server = [x \in Calls |-> server[x]]
  /\ DOMAIN client = Calls /\ client = [x \in Calls |-> client[x]]
  /\ \A x \in Calls : ServerRecord(server[x]) /\ ClientRecord(client[x])

\* A preflight that CORS answers itself, outside the logger.
InCORS(x) == cors /\ Op(x) = "Preflight"

\* What the middleware of a call has noted, by how far the call has got.
Noted(x) ==
  /\ server[x].pc = "none" => client[x].got \in {"nothing", "error"}
  /\ server[x].pc \in {"panicking", "recovered"} => server[x].did = "panic"
  /\ server[x].pc = "counted" => server[x].counted = Reply(x).status
  /\ server[x].pc \in {"flushed", "closed"} /\ ~InCORS(x) =>
       /\ server[x].logged = Reply(x).status
       /\ server[x].counted = Reply(x).status \/ server[x].did = "panic"
  /\ Delivered(x) => server[x].pc = "closed"
  /\ client[x].state = "idle" => server[x].pc = "none"

\* The inductive invariant.
IInv == WellFormed /\ \A x \in Calls : Noted(x)

\* A request whose part of the state a step leaves alone keeps its notes.
LEMMA OthersKeep ==
  ASSUME NEW x \in Calls, Noted(x), server'[x] = server[x], client'[x] = client[x], cors' = cors
  PROVE  Noted(x)'
BY DEF Noted, InCORS, Op, Reply, Delivered

\* The initial state satisfies it.
LEMMA InitInv == Init => IInv
<1> SUFFICES ASSUME Init PROVE IInv
  OBVIOUS
<1>1. /\ server = [x \in Calls |-> Untouched]
      /\ client = [x \in Calls |-> [state |-> "idle", request |-> NoRequest, got |-> "nothing"]]
  BY DEF Init
<1>2. ServerRecord(Untouched) /\ Untouched.pc = "none"
  BY DEF ServerRecord, Untouched
<1>3. ASSUME NEW x \in Calls
      PROVE  /\ ServerRecord(server[x]) /\ server[x].pc = "none"
             /\ ClientRecord(client[x]) /\ client[x].got = "nothing"
  BY <1>1, <1>2 DEF ClientRecord
<1>4. WellFormed
  BY <1>1, <1>3 DEF WellFormed
<1>5. \A x \in Calls : Noted(x)
  BY <1>3 DEF Noted, Delivered
<1>6. QED
  BY <1>4, <1>5 DEF IInv

\* A step on the server gives one call a new record.
LEMMA ServerStep ==
  ASSUME IInv, NEW x \in Calls, NEW STATE v, Step(x, v)
  PROVE  /\ server'[x] = v /\ client' = client /\ cors' = cors
         /\ \A y \in Calls \ {x} : Noted(y)'
         /\ ServerRecord(v) => WellFormed'
<1>1. /\ server' = [server EXCEPT ![x] = v]
      /\ UNCHANGED <<cors, client>>
  BY DEF Step
<1>2. server'[x] = v /\ \A y \in Calls \ {x} : server'[y] = server[y]
  BY <1>1 DEF IInv, WellFormed
<1>3. \A y \in Calls \ {x} : Noted(y)'
  BY <1>1, <1>2, OthersKeep DEF IInv
<1>4. ServerRecord(v) => WellFormed'
  BY <1>1, <1>2 DEF IInv, WellFormed
<1>5. QED
  BY <1>1, <1>2, <1>3, <1>4

\* The server's part of a call moves on: to an answer, or without one yet.
LEMMA UnderWay ==
  ASSUME IInv, NEW x \in Calls, NEW STATE v, Step(x, v), ServerRecord(v),
         server[x].pc \notin {"flushed", "closed"}, client[x].state # "idle",
         \/ v.pc \in {"accepted", "routing", "binding", "decoding", "handling", "unwinding"}
         \/ v.pc \in {"panicking", "recovered"} /\ v.did = "panic"
         \/ v.pc = "counted" /\ v.counted = v.reply.status
         \/ v.pc = "flushed" /\ (InCORS(x) \/
              (v.logged = v.reply.status /\ (v.counted = v.reply.status \/ v.did = "panic")))
  PROVE  IInv'
<1>1. /\ server'[x] = v /\ client' = client /\ cors' = cors
      /\ WellFormed' /\ \A y \in Calls \ {x} : Noted(y)'
  BY ServerStep
<1>2. ~Delivered(x) /\ client[x].state # "idle"
  BY DEF IInv, Noted
<1>3. Noted(x)'
  BY <1>1, <1>2 DEF Noted, Delivered, InCORS, Op, Reply
<1>4. QED
  BY <1>1, <1>3 DEF IInv

\* What a handler's answer and a move are, as records.
LEMMA RecordsOf ==
  ASSUME NEW x \in Calls, ServerRecord(server[x]), NEW STATE r, NEW p
  PROVE  /\ ServerRecord(Write(x, r)) /\ Write(x, r).pc = "unwinding"
         /\ ServerRecord(Goto(x, p)) /\ Goto(x, p).pc = p
BY DEF ServerRecord, Write, Goto

\* A call that the server has taken up has a caller and a well-formed record.
LEMMA Started ==
  ASSUME IInv, NEW x \in Calls, server[x].pc # "none"
  PROVE  client[x].state # "idle" /\ ServerRecord(server[x])
BY DEF IInv, WellFormed, Noted

\* A handler answers, or the call moves on to the next one.
LEMMA AnswerOrMove ==
  ASSUME IInv, NEW x \in Calls, server[x].pc \notin {"none", "flushed", "closed"},
         \/ \E p \in {"accepted", "routing", "binding", "decoding", "handling"} : Step(x, Goto(x, p))
         \/ \E r : Step(x, Write(x, r))
  PROVE  IInv'
<1>1. client[x].state # "idle" /\ ServerRecord(server[x])
  BY Started
<1>2. ASSUME NEW p \in {"accepted", "routing", "binding", "decoding", "handling"}, Step(x, Goto(x, p))
      PROVE  IInv'
  <2>1. ServerRecord(Goto(x, p)) /\ Goto(x, p).pc = p
    BY <1>1, RecordsOf
  <2>2. QED
    BY <1>1, <1>2, <2>1, UnderWay
<1>3. ASSUME NEW r, Step(x, Write(x, r)) PROVE IInv'
  <2>1. ServerRecord(Write(x, r)) /\ Write(x, r).pc = "unwinding"
    BY <1>1 DEF ServerRecord, ClientRecord, Write
  <2>2. QED
    BY <1>1, <1>3, <2>1, UnderWay
<1>4. QED
  BY <1>2, <1>3

\* The whole chain, on the way in and on the way out.
LEMMA ServeKeeps ==
  ASSUME IInv, NEW x \in Calls, Serve(x)
  PROVE  IInv'
<1>1. server[x].pc \notin {"none", "flushed", "closed"}
  BY DEF Serve, TenantContext, Route, RouteExtra, Bind, Decode, Handle, Recover, Count, Log, At
<1>2. client[x].state # "idle" /\ ServerRecord(server[x]) /\ Noted(x)
  BY <1>1, Started DEF IInv
<1>3. CASE TenantContext(x)
  <2> DEFINE v == [server[x] EXCEPT !.pc = "routing", !.tenant = PathValue(x)]
  <2>1. ServerRecord(v) /\ v.pc = "routing"
    BY <1>2 DEF ServerRecord, ClientRecord
  <2>2. Step(x, v)
    BY <1>3 DEF TenantContext
  <2> QED
    BY <1>1, <1>2, <2>1, <2>2, UnderWay
<1>4. CASE Route(x) \/ Bind(x) \/ Decode(x)
  BY <1>1, <1>4, AnswerOrMove DEF Route, Bind, Decode
<1>5. CASE RouteExtra(x)
  BY <1>1, <1>5, AnswerOrMove DEF RouteExtra
<1>6. CASE Handle(x)
  <2>1. CASE \E r : Step(x, Write(x, r))
    BY <1>1, <2>1, AnswerOrMove
  <2>2. CASE \E r, out : Step(x, [Write(x, r) EXCEPT !.did = out])
    <3>1. PICK r, out : Step(x, [Write(x, r) EXCEPT !.did = out])
      BY <2>2
    <3> DEFINE v == [Write(x, r) EXCEPT !.did = out]
    <3>2. ServerRecord(v) /\ v.pc = "unwinding"
      <4>1. ServerRecord(Write(x, r)) /\ Write(x, r).pc = "unwinding"
        BY <1>2 DEF ServerRecord, ClientRecord, Write
      <4>2. QED
        BY <4>1 DEF ServerRecord, ClientRecord
    <3> QED
      BY <1>1, <1>2, <3>1, <3>2, UnderWay
  <2>3. QED
    BY <1>6, <2>1, <2>2 DEF Handle
<1>7. CASE Recover(x)
  <2> DEFINE v == [server[x] EXCEPT !.pc = "recovered", !.reply = JSON(500, "INTERNAL_ERROR")]
  <2>1. ServerRecord(v) /\ v.pc = "recovered" /\ v.did = "panic"
    BY <1>2, <1>7 DEF ServerRecord, ClientRecord, Recover, At, Noted
  <2>2. Step(x, v)
    BY <1>7 DEF Recover
  <2> QED
    BY <1>1, <1>2, <2>1, <2>2, UnderWay
<1>8. CASE Count(x)
  <2> DEFINE v == [server[x] EXCEPT !.pc = "counted", !.counted = server[x].reply.status]
  <2>1. ServerRecord(v) /\ v.pc = "counted" /\ v.counted = v.reply.status
    BY <1>2 DEF ServerRecord, ClientRecord
  <2>2. Step(x, v)
    BY <1>8 DEF Count
  <2> QED
    BY <1>1, <1>2, <2>1, <2>2, UnderWay
<1>9. CASE Log(x)
  <2> DEFINE v == [server[x] EXCEPT !.pc = "flushed", !.logged = server[x].reply.status]
  <2>1. /\ ServerRecord(v) /\ v.pc = "flushed" /\ v.logged = v.reply.status
        /\ v.counted = v.reply.status \/ v.did = "panic"
    BY <1>2, <1>9 DEF ServerRecord, ClientRecord, Log, At, Noted, Reply
  <2>2. Step(x, v)
    BY <1>9 DEF Log
  <2> QED
    BY <1>1, <1>2, <2>1, <2>2, UnderWay
<1>10. QED
  BY <1>3, <1>4, <1>5, <1>6, <1>7, <1>8, <1>9 DEF Serve

\* A call is taken up, or its handler panics.
LEMMA AcceptPanicKeep ==
  ASSUME IInv, NEW x \in Calls, Accept(x) \/ Panic(x)
  PROVE  IInv'
<1>1. server[x].pc \notin {"flushed", "closed"} /\ client[x].state # "idle" /\ ServerRecord(server[x])
  BY Started DEF Accept, Panic, At, IInv, WellFormed
<1>2. CASE Accept(x)
  <2>1. CASE InCORS(x)
    <3> DEFINE v == [server[x] EXCEPT !.pc = "flushed", !.reply = Bare(204)]
    <3>1. ServerRecord(v) /\ v.pc = "flushed"
      BY <1>1 DEF ServerRecord, ClientRecord
    <3>2. Step(x, v)
      BY <1>2, <2>1 DEF Accept, InCORS
    <3> QED
      BY <1>1, <2>1, <3>1, <3>2, UnderWay
  <2>2. CASE ~InCORS(x)
    <3>1. ServerRecord(Goto(x, "accepted")) /\ Goto(x, "accepted").pc = "accepted"
      BY <1>1 DEF ServerRecord, ClientRecord, Goto
    <3>2. Step(x, Goto(x, "accepted"))
      BY <1>2, <2>2 DEF Accept, InCORS
    <3> QED
      BY <1>1, <3>1, <3>2, UnderWay
  <2>3. QED
    BY <2>1, <2>2
<1>3. CASE Panic(x)
  <2> DEFINE v == [Goto(x, "panicking") EXCEPT !.did = "panic"]
  <2>1. ServerRecord(v) /\ v.pc = "panicking" /\ v.did = "panic"
    <3>1. ServerRecord(Goto(x, "panicking")) /\ Goto(x, "panicking").pc = "panicking"
      BY <1>1 DEF ServerRecord, ClientRecord, Goto
    <3>2. QED
      BY <3>1 DEF ServerRecord, ClientRecord
  <2>2. Step(x, v)
    BY <1>3 DEF Panic
  <2> QED
    BY <1>1, <2>1, <2>2, UnderWay
<1>4. QED
  BY <1>2, <1>3

\* A step of one call that updates its own records keeps the others.
LEMMA OneMoves ==
  ASSUME IInv, NEW x \in Calls, cors' = cors,
         \/ server' = server
         \/ server' = [server EXCEPT ![x] = server'[x]]
         \/ \E p : server' = [server EXCEPT ![x].pc = p],
         \/ client' = client
         \/ client' = [client EXCEPT ![x] = client'[x]]
         \/ \E s, q : client' = [client EXCEPT ![x].state = s, ![x].request = q],
         ServerRecord(server'[x]), ClientRecord(client'[x]), Noted(x)'
  PROVE  IInv'
<1>1. /\ DOMAIN server' = Calls /\ server' = [y \in Calls |-> server'[y]]
      /\ \A y \in Calls \ {x} : server'[y] = server[y]
  BY DEF IInv, WellFormed
<1>2. /\ DOMAIN client' = Calls /\ client' = [y \in Calls |-> client'[y]]
      /\ \A y \in Calls \ {x} : client'[y] = client[y]
  BY DEF IInv, WellFormed
<1>3. \A y \in Calls \ {x} : Noted(y)'
  BY <1>1, <1>2, OthersKeep DEF IInv
<1>4. WellFormed'
  BY <1>1, <1>2 DEF IInv, WellFormed
<1>5. QED
  BY <1>3, <1>4 DEF IInv

\* The caller sends, hears an answer, or gives up.
LEMMA CallerKeeps ==
  ASSUME IInv, NEW x \in Calls,
         (\E r \in Requests(svc) : Send(x, r)) \/ Receive(x) \/ ReplyLost(x) \/ GiveUp(x)
  PROVE  IInv'
<1>1. ServerRecord(server[x]) /\ ClientRecord(client[x]) /\ Noted(x)
  BY DEF IInv, WellFormed
<1>2. DOMAIN server = Calls /\ DOMAIN client = Calls
  BY DEF IInv, WellFormed
<1>3. CASE \E r \in Requests(svc) : Send(x, r)
  <2>1. PICK r : /\ client[x].state = "idle" /\ UNCHANGED <<cors, server>>
                 /\ client' = [client EXCEPT ![x].state = "waiting", ![x].request = r]
    BY <1>3 DEF Send
  <2>2. client'[x] = [client[x] EXCEPT !.state = "waiting", !.request = r]
    BY <1>2, <2>1
  <2>3. /\ client'[x].state = "waiting" /\ client'[x].got = client[x].got
        /\ ClientRecord(client'[x])
    BY <1>1, <2>2 DEF ClientRecord
  <2>4. Noted(x)'
    BY <1>1, <2>1, <2>3 DEF Noted, Delivered
  <2>5. QED
    BY <1>1, <2>1, <2>3, <2>4, OneMoves DEF IInv
<1>4. CASE Receive(x) \/ ReplyLost(x) \/ GiveUp(x)
  <2>1. PICK g \in {"typed", "untyped", "error"} :
          /\ cors' = cors
          /\ \/ /\ client[x].state = "waiting" /\ Return(x, g)
                /\ \/ server[x].pc = "flushed" /\ server' = [server EXCEPT ![x].pc = "closed"]
                   \/ g = "error" /\ UNCHANGED server
             \/ /\ UNCHANGED client
                /\ server[x].pc = "flushed" /\ server' = [server EXCEPT ![x].pc = "closed"]
    BY <1>4 DEF Receive, ReplyLost, GiveUp, NoAnswer, Return, At
  <2>2. \/ server' = server /\ g = "error"
        \/ /\ server[x].pc = "flushed"
           /\ server' = [server EXCEPT ![x] = server'[x]]
           /\ server'[x] = [server[x] EXCEPT !.pc = "closed"]
    BY <1>2, <2>1
  <2>3. /\ ServerRecord(server'[x])
        /\ \/ server' = server /\ g = "error"
           \/ /\ server[x].pc = "flushed" /\ server'[x].pc = "closed"
              /\ server'[x].did = server[x].did /\ server'[x].reply = server[x].reply
              /\ server'[x].logged = server[x].logged /\ server'[x].counted = server[x].counted
    BY <1>1, <2>2 DEF ServerRecord
  <2>4. \/ client' = client
        \/ /\ client[x].state = "waiting"
           /\ client' = [client EXCEPT ![x] = client'[x]]
           /\ client'[x] = [client[x] EXCEPT !.state = "done", !.got = g]
    BY <1>2, <2>1 DEF Return
  <2>5. /\ ClientRecord(client'[x])
        /\ \/ client' = client
           \/ /\ client[x].state = "waiting" /\ client'[x].state = "done"
              /\ client'[x].request = client[x].request /\ client'[x].got = g
    BY <1>1, <2>4 DEF ClientRecord
  <2>6. Noted(x)'
    BY <1>1, <2>1, <2>3, <2>5 DEF Noted, Delivered, InCORS, Op, Reply
  <2>7. ServerRecord(server'[x]) /\ ClientRecord(client'[x]) /\ cors' = cors
    BY <2>1, <2>3, <2>5
  <2>8. server' = server \/ server' = [server EXCEPT ![x] = server'[x]]
    BY <2>2
  <2>9. client' = client \/ client' = [client EXCEPT ![x] = client'[x]]
    BY <2>4
  <2>10. QED
    BY <2>6, <2>7, <2>8, <2>9, OneMoves
<1>5. QED
  BY <1>3, <1>4

\* The process itself touches no call.
LEMMA ProcessKeeps ==
  ASSUME IInv, Process \/ UNCHANGED vars
  PROVE  IInv'
<1>1. UNCHANGED <<cors, server, client>>
  BY DEF Process, ConfigFails, Wire, Signal, ListenFails, CloseSession, Exit, vars
<1>2. QED
  BY <1>1, OthersKeep DEF IInv, WellFormed

\* The invariant, of every behaviour.
LEMMA Inductive == Spec => []IInv
<1>1. IInv /\ [Next]_vars => IInv'
  BY ServeKeeps, AcceptPanicKeep, CallerKeeps, ProcessKeeps DEF Next
<1>2. QED
  BY InitInv, <1>1, PTL DEF Spec

-----------------------------------------------------------------------------
\* What the handlers answer, table by table.
ServiceOps == AccountsOps \cup ProvisionerOps

\* An operation declares the status s for a JSON answer, and its client reads it.
Declared(op, s) == s \in Replies[op] /\ (op \in DOMAIN Parse => s \in Parse[op])

\* The status of r says whether d happened.
Truthful(d, r) == (r.status < 300 <=> d = "ok") /\ (r.status >= 500 <=> d \in {"other", "panic"})

\* The error statuses of what a service refuses.
Refusals == {<<409, "CONFLICT">>, <<404, "NOT_FOUND">>, <<422, "UNPROCESSABLE">>}

\* r answers a request for op of which d came.
Fits(op, d, r) ==
  /\ r \in ReplySet
  /\ op \notin Extras => (r.type = "json" => Declared(op, r.status))
  /\ op \notin Extras \cup StorageOps => Truthful(d, r)

\* The accounts service's part of the tables.
LEMMA AccountsTables ==
  ASSUME NEW op \in AccountsOps
  PROVE  /\ Handler[op] = AccountsHandler[op] /\ Errors[op] = AccountsErrors[op]
         /\ Replies[op] = AccountsReplies[op] /\ Parse[op] = AccountsParse[op]
         /\ op \in DOMAIN Rules => op = "Register" /\ Rules[op] = <<422, "UNPROCESSABLE">>
<1>1. Handler[op] = AccountsHandler[op]
  BY DEF Handler, Join, AccountsHandler, AccountsOps
<1>2. Errors[op] = AccountsErrors[op]
  BY DEF Errors, Join, AccountsErrors, AccountsOps
<1>3. Replies[op] = AccountsReplies[op]
  BY DEF Replies, Join, AccountsReplies, AccountsOps
<1>4. Parse[op] = AccountsParse[op]
  BY DEF Parse, Join, AccountsParse, AccountsOps
<1>5. op \in DOMAIN Rules => op = "Register" /\ Rules[op] = <<422, "UNPROCESSABLE">>
  BY DEF Rules, Join, AccountsRules, ProvisionerRules, AccountsOps
<1>6. QED
  BY <1>1, <1>2, <1>3, <1>4, <1>5

\* The provisioner's part: no client is generated for it.
LEMMA ProvisionerTables ==
  ASSUME NEW op \in ProvisionerOps
  PROVE  /\ Handler[op] = ProvisionerHandler[op] /\ Errors[op] = ProvisionerErrors[op]
         /\ Replies[op] = ProvisionerReplies[op] /\ op \notin DOMAIN Parse
         /\ op \in DOMAIN Rules =>
               \/ op = "ProvisionVPC" /\ Rules[op] = <<422, "UNPROCESSABLE">>
               \/ op = "DeprovisionVPC" /\ Rules[op] = <<400, "BAD_REQUEST">>
<1>1. Handler[op] = ProvisionerHandler[op]
  BY DEF Handler, Join, AccountsHandler, ProvisionerHandler, ProvisionerOps
<1>2. Errors[op] = ProvisionerErrors[op]
  BY DEF Errors, Join, AccountsErrors, ProvisionerErrors, ProvisionerOps
<1>3. Replies[op] = ProvisionerReplies[op]
  BY DEF Replies, Join, AccountsReplies, ProvisionerReplies, ProvisionerOps
<1>4. op \notin DOMAIN Parse
  BY DEF Parse, Join, AccountsParse, StorageParse, ProvisionerOps
<1>5. op \in DOMAIN Rules =>
               \/ op = "ProvisionVPC" /\ Rules[op] = <<422, "UNPROCESSABLE">>
               \/ op = "DeprovisionVPC" /\ Rules[op] = <<400, "BAD_REQUEST">>
  BY DEF Rules, Join, AccountsRules, ProvisionerRules, ProvisionerOps
<1>6. QED
  BY <1>1, <1>2, <1>3, <1>4, <1>5

\* The storage service's part: every operation declares the placeholder's 500.
LEMMA StorageTables ==
  ASSUME NEW op \in StorageOps
  PROVE  /\ Replies[op] = StorageReplies[op] /\ Parse[op] = StorageParse[op]
         /\ op \notin DOMAIN Rules
         /\ 500 \in Replies[op] /\ 500 \in Parse[op]
<1>1. Replies[op] = StorageReplies[op]
  BY DEF Replies, Join, AccountsReplies, ProvisionerReplies, StorageReplies, StorageOps
<1>2. Parse[op] = StorageParse[op]
  BY DEF Parse, Join, AccountsParse, StorageParse, StorageOps
<1>3. op \notin DOMAIN Rules
  BY DEF Rules, Join, AccountsRules, ProvisionerRules, StorageOps
<1>4. 500 \in StorageReplies[op] /\ 500 \in StorageParse[op]
  BY DEF StorageReplies, StorageParse, StorageOps, VisitListBuckets, VisitCreateBucket, VisitDeleteBucket,
     VisitGetBucket, ParseListBuckets, ParseCreateBucket, ParseDeleteBucket, ParseGetBucket
<1>5. QED
  BY <1>1, <1>2, <1>3, <1>4

\* The two services agree about the one error that both have.
LEMMA StatusOf ==
  /\ DOMAIN Status = DOMAIN AccountsStatus \cup DOMAIN ProvisionerStatus
  /\ \A e \in DOMAIN AccountsStatus : Status[e] = AccountsStatus[e]
  /\ \A e \in DOMAIN ProvisionerStatus : Status[e] = ProvisionerStatus[e]
<1>1. \A e \in DOMAIN AccountsStatus \cap DOMAIN ProvisionerStatus : AccountsStatus[e] = ProvisionerStatus[e]
  BY DEF AccountsStatus, ProvisionerStatus
<1>2. QED
  BY <1>1 DEF Status, Join

\* An error of an accounts method becomes an error status its operation declares.
LEMMA StatusOfAccounts ==
  ASSUME NEW op \in AccountsOps, NEW out \in AccountsErrors[op]
  PROVE  /\ out \in DOMAIN Status /\ out # "ok" /\ out # "panic"
         /\ \/ out = "other" /\ Status[out] = <<500, "INTERNAL_ERROR">>
            \/ out # "other" /\ Status[out] \in Refusals
         /\ Status[out][1] \in AccountsHandler[op][2] \cup {500}
         /\ Status[out][1] \in AccountsReplies[op] /\ Status[out][1] \in AccountsParse[op]
<1>1. out \in DOMAIN AccountsStatus /\ out # "ok" /\ out # "panic"
  BY DEF AccountsOps, AccountsErrors, AccountsStatus
<1>2. out \in DOMAIN Status /\ Status[out] = AccountsStatus[out]
  BY <1>1, StatusOf
<1>3. /\ \/ out = "other" /\ AccountsStatus[out] = <<500, "INTERNAL_ERROR">>
         \/ out # "other" /\ AccountsStatus[out] \in Refusals
      /\ AccountsStatus[out][1] \in AccountsHandler[op][2] \cup {500}
  BY DEF AccountsOps, AccountsErrors, AccountsStatus, AccountsHandler, Refusals
<1>4. AccountsHandler[op][2] \cup {500} \subseteq AccountsReplies[op] \cap AccountsParse[op]
  BY DEF AccountsOps, AccountsHandler, AccountsReplies, AccountsParse,
     VisitDeleteAccount, VisitGetAccount, VisitIssueKey, VisitRevokeKey,
     VisitProvisionNetwork, VisitRegister, ParseDeleteAccount, ParseGetAccount, ParseIssueKey,
     ParseRevokeKey, ParseProvisionNetwork, ParseRegister
<1>5. QED
  BY <1>1, <1>2, <1>3, <1>4

\* An error of a provisioner method likewise.
LEMMA StatusOfProvisioner ==
  ASSUME NEW op \in ProvisionerOps, NEW out \in ProvisionerErrors[op]
  PROVE  /\ out \in DOMAIN Status /\ out # "ok" /\ out # "panic"
         /\ \/ out = "other" /\ Status[out] = <<500, "INTERNAL_ERROR">>
            \/ out # "other" /\ Status[out] \in Refusals
         /\ Status[out][1] \in ProvisionerHandler[op][2] \cup {500}
         /\ Status[out][1] \in ProvisionerReplies[op]
<1>1. out \in DOMAIN ProvisionerStatus /\ out # "ok" /\ out # "panic"
  BY DEF ProvisionerOps, ProvisionerErrors, ProvisionerStatus
<1>2. out \in DOMAIN Status /\ Status[out] = ProvisionerStatus[out]
  BY <1>1, StatusOf
<1>3. /\ \/ out = "other" /\ ProvisionerStatus[out] = <<500, "INTERNAL_ERROR">>
         \/ out # "other" /\ ProvisionerStatus[out] \in Refusals
      /\ ProvisionerStatus[out][1] \in ProvisionerHandler[op][2] \cup {500}
  BY DEF ProvisionerOps, ProvisionerErrors, ProvisionerStatus, ProvisionerHandler, Refusals
<1>4. ProvisionerHandler[op][2] \cup {500} \subseteq ProvisionerReplies[op]
  BY DEF ProvisionerOps, ProvisionerHandler, ProvisionerReplies, VisitGetJob, VisitProvisionVPC,
     VisitDeprovisionVPC
<1>5. QED
  BY <1>1, <1>2, <1>3, <1>4

\* Of both services: an error ends in an error status of the operation.
LEMMA ErrorFits ==
  ASSUME NEW op \in ServiceOps, NEW out \in Errors[op]
  PROVE  /\ out \in DOMAIN Status /\ out # "ok" /\ out # "panic"
         /\ \/ out = "other" /\ Status[out] = <<500, "INTERNAL_ERROR">>
            \/ out # "other" /\ Status[out] \in Refusals
         /\ Status[out][1] \in Handler[op][2] \cup {500}
         /\ Declared(op, Status[out][1])
<1>1. CASE op \in AccountsOps
  BY <1>1, AccountsTables, StatusOfAccounts DEF Declared
<1>2. CASE op \in ProvisionerOps
  BY <1>2, ProvisionerTables, StatusOfProvisioner DEF Declared
<1>3. QED
  BY <1>1, <1>2 DEF ServiceOps

\* A success has a status that its operation declares, or no body.
LEMMA SuccessFits ==
  ASSUME NEW op \in ServiceOps
  PROVE  /\ Handler[op][1] \in {200, 201, 202, 204}
         /\ Handler[op][1] # 204 => Declared(op, Handler[op][1])
         /\ Declared(op, 500) /\ "other" \in Errors[op]
<1>1. CASE op \in AccountsOps
  <2>1. /\ AccountsHandler[op][1] \in {200, 201, 202, 204} /\ "other" \in AccountsErrors[op]
        /\ AccountsHandler[op][1] # 204 =>
             AccountsHandler[op][1] \in AccountsReplies[op] \cap AccountsParse[op]
        /\ 500 \in AccountsReplies[op] \cap AccountsParse[op]
    BY <1>1 DEF AccountsOps, AccountsErrors, AccountsHandler, AccountsReplies, AccountsParse,
       VisitDeleteAccount, VisitGetAccount, VisitIssueKey, VisitRevokeKey,
       VisitProvisionNetwork, VisitRegister, ParseDeleteAccount, ParseGetAccount, ParseIssueKey,
       ParseRevokeKey, ParseProvisionNetwork, ParseRegister
  <2>2. QED
    BY <1>1, <2>1, AccountsTables DEF Declared
<1>2. CASE op \in ProvisionerOps
  <2>1. /\ ProvisionerHandler[op][1] \in {200, 201, 202, 204} /\ "other" \in ProvisionerErrors[op]
        /\ ProvisionerHandler[op][1] \in ProvisionerReplies[op] /\ 500 \in ProvisionerReplies[op]
    BY <1>2 DEF ProvisionerOps, ProvisionerErrors, ProvisionerHandler, ProvisionerReplies,
       VisitGetJob, VisitProvisionVPC, VisitDeprovisionVPC
  <2>2. QED
    BY <1>2, <2>1, ProvisionerTables DEF Declared
<1>3. QED
  BY <1>1, <1>2 DEF ServiceOps

\* The handler's answer to whatever its service did.
LEMMA AnswerFits ==
  ASSUME NEW op \in ServiceOps, NEW out \in {"ok"} \cup Errors[op]
  PROVE  Fits(op, out, Answer(op, out))
<1>1. CASE out = "ok"
  <2>1. Answer(op, out) = Success(Handler[op][1])
    BY <1>1 DEF Answer
  <2>2. CASE Handler[op][1] = 204
    <3>1. Answer(op, out) = Bare(204)
      BY <2>1, <2>2 DEF Success
    <3>2. QED
      BY <1>1, <3>1 DEF Fits, Truthful, Bare, ReplySet, ReplyCodes
  <2>3. CASE Handler[op][1] # 204
    <3>1. Answer(op, out) = JSON(Handler[op][1], "none") /\ Handler[op][1] \in {200, 201, 202}
      BY <2>1, <2>3, SuccessFits DEF Success
    <3>2. /\ Answer(op, out) \in ReplySet /\ Answer(op, out).status = Handler[op][1]
          /\ "none" \in ReplyCodes
      BY <3>1 DEF JSON, ReplySet, ReplyCodes
    <3>3. Truthful(out, Answer(op, out))
      BY <1>1, <3>1, <3>2 DEF Truthful
    <3>4. QED
      BY <2>3, <3>2, <3>3, SuccessFits DEF Fits
  <2>4. QED
    BY <2>2, <2>3
<1>2. CASE out \in Errors[op]
  <2>1. PICK s \in Int, c \in ReplyCodes : Status[out] = <<s, c>>
    BY <1>2, ErrorFits DEF ReplyCodes, Refusals
  <2>2. out # "ok" /\ s \in Handler[op][2] \cup {500} /\ Declared(op, s)
    BY <1>2, <2>1, ErrorFits
  <2>3. (out = "other" /\ s = 500) \/ (out \notin {"other", "panic"} /\ s \in {404, 409, 422})
    BY <1>2, <2>1, ErrorFits DEF Refusals
  <2>4. Answer(op, out) = JSON(s, c)
    BY <2>1, <2>2 DEF Answer
  <2>5. Answer(op, out) \in ReplySet /\ Answer(op, out).status = s
    BY <2>3, <2>4 DEF JSON, ReplySet
  <2>6. Truthful(out, Answer(op, out))
    BY <2>2, <2>3, <2>5 DEF Truthful
  <2>7. QED
    BY <2>2, <2>5, <2>6 DEF Fits
<1>3. QED
  BY <1>1, <1>2

-----------------------------------------------------------------------------
\* Where a call stands against its contract: the types, and what a caller may
\* conclude from the reply once a handler has written one.
ServerTyped(v) ==
  /\ v.pc \in InHandlers \cup {"none", "flushed", "closed"} /\ v.tenant \in BOOLEAN
  /\ v.did \in DOMAIN Status \cup {"nothing", "ok", "panic"} /\ v.reply \in ReplySet
  /\ v.logged \in 0..599 /\ v.counted \in 0..599

ClientTyped(v, requests) ==
  /\ v.state \in {"idle", "waiting", "done"} /\ v.got \in {"nothing", "typed", "untyped", "error"}
  /\ v.request \in requests \cup {NoRequest}
  /\ v.state = "idle" <=> v.request = NoRequest

\* Nothing is done before the handler's call; from the answer on, it fits.
Told(op, v) ==
  /\ v.pc \in {"none", "accepted", "routing", "binding", "decoding", "handling"} => v.did = "nothing"
  /\ v.pc \in {"binding", "decoding", "handling"} => op \notin Extras
  /\ v.pc = "panicking" => op \notin Extras \cup StorageOps
  /\ v.pc \in {"recovered", "unwinding", "counted", "flushed", "closed"} => Fits(op, v.did, v.reply)

\* A client that has a declared JSON answer has read it into a field.
HasRead(x) ==
  Delivered(x) /\ Reply(x).type = "json" /\ Op(x) \notin Extras /\ Op(x) \in DOMAIN Parse =>
    client[x].got = "typed"

ProcessTyped ==
  /\ svc \in Services /\ cors \in BOOLEAN
  /\ process \in {"starting", "serving", "stopping", "closing", "exited"}
  /\ session \in {"none", "open", "closed"}

Contract(x) ==
  /\ ServerTyped(server[x]) /\ ClientTyped(client[x], Requests(svc))
  /\ Told(Op(x), server[x]) /\ HasRead(x)

\* The inductive invariant of the contract, on top of the notes.
CInv == IInv /\ ProcessTyped /\ \A x \in Calls : Contract(x)

\* A request for which a step does nothing stands where it stood.
LEMMA OthersStand ==
  ASSUME NEW x \in Calls, Contract(x), server'[x] = server[x], client'[x] = client[x], svc' = svc
  PROVE  Contract(x)'
BY DEF Contract, HasRead, Delivered, Reply, Op, Requests, OpsOf

\* The requests of a service are for its operations, with the defects they can have.
LEMMA RequestsOf ==
  ASSUME ProcessTyped, NEW r \in Requests(svc)
  PROVE  /\ r.op \in ServiceOps \cup StorageOps \cup Extras
         /\ r.defect = "param" => r.op \in {"RevokeKey", "GetJob"}
         /\ r.defect = "body" => r.op \in Bodies
         /\ r.defect = "rule" => r.op \in DOMAIN Rules
         /\ r # NoRequest
<1>1. svc \in {"accounts", "provisioner", "storage"}
  BY ServicesAreKnown DEF ProcessTyped
<1>2. PICK op \in OpsOf(svc) \cup Extras : \E d \in Defects(op) : r = [op |-> op, defect |-> d]
  BY DEF Requests
<1>3. PICK d \in Defects(op) : r.op = op /\ r.defect = d
  BY <1>2
<1>4. op \in ServiceOps \cup StorageOps \cup Extras
  BY <1>1 DEF OpsOf, ServiceOps
<1>5. op # "none"
  BY <1>4 DEF ServiceOps, AccountsOps, ProvisionerOps, StorageOps, Extras
<1>6. d = "param" => op \in DOMAIN Params /\ "uuid" \in Params[op]
  BY DEF Defects
<1>7. op \in DOMAIN Params /\ "uuid" \in Params[op] => op \in {"RevokeKey", "GetJob"}
  BY DEF Params, Join, AccountsParams, ProvisionerParams, StorageParams, StorageOps
<1>8. (d = "body" => op \in Bodies) /\ (d = "rule" => op \in DOMAIN Rules)
  BY DEF Defects
<1>9. r # NoRequest
  BY <1>3, <1>5 DEF NoRequest
<1>10. QED
  BY <1>3, <1>4, <1>6, <1>7, <1>8, <1>9

\* The same of a call that is under way.
LEMMA RequestOf ==
  ASSUME CInv, NEW x \in Calls, client[x].state # "idle"
  PROVE  /\ Op(x) \in ServiceOps \cup StorageOps \cup Extras
         /\ Request(x).defect = "param" => Op(x) \in {"RevokeKey", "GetJob"}
         /\ Request(x).defect = "rule" => Op(x) \in DOMAIN Rules
<1>1. client[x].request \in Requests(svc) /\ ProcessTyped
  BY DEF CInv, Contract, ClientTyped
<1>2. QED
  BY <1>1, RequestsOf DEF Op, Request

\* A step of the server that gives a call a fitting record.
LEMMA ServerFits ==
  ASSUME CInv, NEW x \in Calls, NEW STATE v, Step(x, v), ~Delivered(x),
         ServerTyped(v), Told(Op(x), v)
  PROVE  ProcessTyped' /\ \A y \in Calls : Contract(y)'
<1>1. /\ server' = [server EXCEPT ![x] = v] /\ client' = client
      /\ UNCHANGED <<svc, cors, process, session>> /\ DOMAIN server = Calls
  BY DEF Step, CInv, IInv, WellFormed
<1>2. server'[x] = v /\ \A y \in Calls \ {x} : server'[y] = server[y]
  BY <1>1
<1>3. ASSUME NEW y \in Calls \ {x} PROVE Contract(y)'
  BY <1>1, <1>2, OthersStand DEF CInv
<1>4. ClientTyped(client[x], Requests(svc))' /\ Op(x)' = Op(x) /\ ~Delivered(x)'
  BY <1>1 DEF CInv, Contract, Op, Delivered, Requests, OpsOf
<1>5. Contract(x)'
  BY <1>2, <1>4 DEF Contract, HasRead
<1>6. ProcessTyped'
  BY <1>1 DEF CInv, ProcessTyped
<1>7. QED
  BY <1>3, <1>5, <1>6

\* A handler answers, or the call moves on without an answer.
LEMMA WriteFits ==
  ASSUME CInv, NEW x \in Calls, NEW r, Fits(Op(x), "nothing", r),
         server[x].pc \in {"routing", "binding", "decoding", "handling"}
  PROVE  ServerTyped(Write(x, r)) /\ Told(Op(x), Write(x, r))
<1>1. ServerRecord(server[x]) /\ ServerTyped(server[x]) /\ server[x].did = "nothing"
  BY DEF CInv, IInv, WellFormed, Contract, Told
<1>2. /\ Write(x, r).pc = "unwinding" /\ Write(x, r).reply = r /\ Write(x, r).did = "nothing"
      /\ Write(x, r).tenant = server[x].tenant
      /\ Write(x, r).logged = server[x].logged /\ Write(x, r).counted = server[x].counted
  BY <1>1 DEF ServerRecord, Write
<1>3. ServerTyped(Write(x, r))
  BY <1>1, <1>2 DEF ServerTyped, Fits, InHandlers
<1>4. QED
  BY <1>2, <1>3 DEF Told

LEMMA GotoFits ==
  ASSUME CInv, NEW x \in Calls, NEW p \in {"accepted", "routing", "binding", "decoding", "handling"},
         server[x].pc \in {"none", "accepted", "routing", "binding", "decoding", "handling"},
         p \in {"accepted", "routing"} \/ Op(x) \notin Extras
  PROVE  ServerTyped(Goto(x, p)) /\ Told(Op(x), Goto(x, p))
<1>1. ServerRecord(server[x]) /\ ServerTyped(server[x]) /\ server[x].did = "nothing"
  BY DEF CInv, IInv, WellFormed, Contract, Told
<1>2. /\ Goto(x, p).pc = p /\ Goto(x, p).reply = server[x].reply /\ Goto(x, p).did = "nothing"
      /\ Goto(x, p).tenant = server[x].tenant
      /\ Goto(x, p).logged = server[x].logged /\ Goto(x, p).counted = server[x].counted
  BY <1>1 DEF ServerRecord, Goto
<1>3. ServerTyped(Goto(x, p))
  BY <1>1, <1>2 DEF ServerTyped, InHandlers
<1>4. QED
  BY <1>2, <1>3 DEF Told

\* Where a reply is written without the service: the routers, the binder and the
\* decoder, the placeholder and the rules of the API.
LEMMA RefusalsFit ==
  ASSUME CInv, NEW x \in Calls, client[x].state # "idle"
  PROVE  /\ Op(x) \notin Extras => Fits(Op(x), "nothing", Text(404)) /\ Fits(Op(x), "nothing", Text(400))
         /\ Op(x) \in Extras => \A r \in ReplySet : Fits(Op(x), "nothing", r)
         /\ Request(x).defect = "param" => Fits(Op(x), "nothing", JSON(400, "BAD_REQUEST"))
         /\ Op(x) \in StorageOps =>
              Fits(Op(x), "nothing", JSON(StorageHandler[Op(x)][1], StorageHandler[Op(x)][2]))
         /\ Request(x).defect = "rule" =>
              Fits(Op(x), "nothing", JSON(Rules[Op(x)][1], Rules[Op(x)][2]))
<1>1. Op(x) \notin Extras => Fits(Op(x), "nothing", Text(404)) /\ Fits(Op(x), "nothing", Text(400))
  BY DEF Fits, Text, ReplySet, ReplyCodes, Truthful
<1>2. Op(x) \in Extras => \A r \in ReplySet : Fits(Op(x), "nothing", r)
  BY DEF Fits
<1>3. ASSUME NEW op \in ServiceOps, NEW s \in {400, 422}, NEW c \in ReplyCodes, Declared(op, s)
      PROVE  Fits(op, "nothing", JSON(s, c))
  BY <1>3 DEF Fits, JSON, ReplySet, Truthful
<1>4. ASSUME Request(x).defect = "param" PROVE Fits(Op(x), "nothing", JSON(400, "BAD_REQUEST"))
  <2>1. Op(x) \in {"RevokeKey", "GetJob"}
    BY <1>4, RequestOf
  <2>2. CASE Op(x) = "RevokeKey"
    <3>1. Op(x) \in AccountsOps /\ 400 \in AccountsReplies[Op(x)] /\ 400 \in AccountsParse[Op(x)]
      BY <2>2 DEF AccountsOps, AccountsReplies, AccountsParse, VisitRevokeKey, ParseRevokeKey
    <3>2. Declared(Op(x), 400)
      BY <3>1, AccountsTables DEF Declared
    <3>3. QED
      BY <1>3, <3>1, <3>2 DEF ServiceOps, ReplyCodes
  <2>3. CASE Op(x) = "GetJob"
    <3>1. Op(x) \in ProvisionerOps /\ 400 \in ProvisionerReplies[Op(x)]
      BY <2>3 DEF ProvisionerOps, ProvisionerReplies, VisitGetJob
    <3>2. Declared(Op(x), 400)
      BY <3>1, ProvisionerTables DEF Declared
    <3>3. QED
      BY <1>3, <3>1, <3>2 DEF ServiceOps, ReplyCodes
  <2>4. QED
    BY <2>1, <2>2, <2>3
<1>5. ASSUME Op(x) \in StorageOps
      PROVE  Fits(Op(x), "nothing", JSON(StorageHandler[Op(x)][1], StorageHandler[Op(x)][2]))
  <2>1. StorageHandler[Op(x)][1] = 500 /\ StorageHandler[Op(x)][2] = "INTERNAL_ERROR"
    BY <1>5 DEF StorageHandler
  <2>2. Declared(Op(x), 500)
    BY <1>5, StorageTables DEF Declared
  <2>3. Fits(Op(x), "nothing", JSON(500, "INTERNAL_ERROR"))
    BY <1>5, <2>2 DEF Fits, JSON, ReplySet, ReplyCodes
  <2>4. QED
    BY <2>1, <2>3
<1>6. ASSUME Request(x).defect = "rule"
      PROVE  Fits(Op(x), "nothing", JSON(Rules[Op(x)][1], Rules[Op(x)][2]))
  <2>1. Op(x) \in DOMAIN Rules
    BY <1>6, RequestOf
  <2>2. Op(x) \in {"Register", "ProvisionVPC", "DeprovisionVPC"}
    BY <2>1 DEF Rules, Join, AccountsRules, ProvisionerRules
  <2>3. CASE Op(x) = "Register"
    <3>1. Op(x) \in AccountsOps /\ 422 \in AccountsReplies[Op(x)] /\ 422 \in AccountsParse[Op(x)]
      BY <2>3 DEF AccountsOps, AccountsReplies, AccountsParse, VisitRegister, ParseRegister
    <3>2. Declared(Op(x), 422) /\ Rules[Op(x)] = <<422, "UNPROCESSABLE">>
      BY <2>1, <3>1, AccountsTables DEF Declared
    <3>3. QED
      BY <1>3, <3>1, <3>2 DEF ServiceOps, ReplyCodes
  <2>4. CASE Op(x) = "ProvisionVPC"
    <3>1. Op(x) \in ProvisionerOps /\ 422 \in ProvisionerReplies[Op(x)]
      BY <2>4 DEF ProvisionerOps, ProvisionerReplies, VisitProvisionVPC
    <3>2. Declared(Op(x), 422) /\ Rules[Op(x)] = <<422, "UNPROCESSABLE">>
      BY <2>1, <2>4, <3>1, ProvisionerTables DEF Declared
    <3>3. QED
      BY <1>3, <3>1, <3>2 DEF ServiceOps, ReplyCodes
  <2>5. CASE Op(x) = "DeprovisionVPC"
    <3>1. Op(x) \in ProvisionerOps /\ 400 \in ProvisionerReplies[Op(x)]
      BY <2>5 DEF ProvisionerOps, ProvisionerReplies, VisitDeprovisionVPC
    <3>2. Declared(Op(x), 400) /\ Rules[Op(x)] = <<400, "BAD_REQUEST">>
      BY <2>1, <2>5, <3>1, ProvisionerTables DEF Declared
    <3>3. QED
      BY <1>3, <3>1, <3>2 DEF ServiceOps, ReplyCodes
  <2>6. QED
    BY <2>2, <2>3, <2>4, <2>5
<1>7. QED
  BY <1>1, <1>2, <1>4, <1>5, <1>6

\* A reply to an operation that does not come from its service is JSON from the
\* panic recovery, and 500 is declared by every operation.
LEMMA RecoveryFits ==
  ASSUME NEW op \in ServiceOps
  PROVE  Fits(op, "panic", JSON(500, "INTERNAL_ERROR"))
BY SuccessFits DEF Fits, Truthful, JSON, ReplySet, ReplyCodes

\* The chain keeps the contract.
LEMMA ServeKeepsContract ==
  ASSUME CInv, NEW x \in Calls, Serve(x)
  PROVE  ProcessTyped' /\ \A y \in Calls : Contract(y)'
<1>1. server[x].pc \notin {"none", "flushed", "closed"}
  BY DEF Serve, TenantContext, Route, RouteExtra, Bind, Decode, Handle, Recover, Count, Log, At
<1>2. /\ client[x].state # "idle" /\ ServerRecord(server[x]) /\ ~Delivered(x)
      /\ ServerTyped(server[x]) /\ Told(Op(x), server[x]) /\ Noted(x)
  BY <1>1, Started DEF CInv, IInv, Noted, Contract
<1>3. ASSUME NEW r, Step(x, Write(x, r)), Fits(Op(x), "nothing", r),
             server[x].pc \in {"routing", "binding", "decoding", "handling"}
      PROVE  ProcessTyped' /\ \A y \in Calls : Contract(y)'
  <2>1. ServerTyped(Write(x, r)) /\ Told(Op(x), Write(x, r))
    BY <1>3, WriteFits
  <2>2. QED
    BY <1>2, <1>3, <2>1, ServerFits
<1>4. ASSUME NEW p \in {"binding", "decoding", "handling"}, Step(x, Goto(x, p)), Op(x) \notin Extras,
             server[x].pc \in {"routing", "binding", "decoding"}
      PROVE  ProcessTyped' /\ \A y \in Calls : Contract(y)'
  <2>1. ServerTyped(Goto(x, p)) /\ Told(Op(x), Goto(x, p))
    BY <1>4, GotoFits
  <2>2. QED
    BY <1>2, <1>4, <2>1, ServerFits
<1>5. CASE TenantContext(x)
  <2> DEFINE v == [server[x] EXCEPT !.pc = "routing", !.tenant = PathValue(x)]
  <2>1. /\ v.pc = "routing" /\ v.tenant = FALSE /\ v.did = server[x].did /\ v.reply = server[x].reply
        /\ v.logged = server[x].logged /\ v.counted = server[x].counted
    BY <1>2 DEF ServerRecord, PathValue
  <2>2. server[x].did = "nothing" /\ Step(x, v)
    BY <1>2, <1>5 DEF TenantContext, At, Told
  <2>3. ServerTyped(v) /\ Told(Op(x), v)
    <3> HIDE DEF v
    <3> QED
      BY <1>2, <2>1, <2>2 DEF ServerTyped, Told, InHandlers
  <2> QED
    BY <1>2, <2>2, <2>3, ServerFits
<1>6. CASE Route(x)
  <2>1. Op(x) \notin Extras /\ server[x].pc = "routing"
    BY <1>6 DEF Route, At
  <2>2. Step(x, Goto(x, "binding")) \/ Step(x, Write(x, Text(404)))
    BY <1>6 DEF Route
  <2>3. QED
    BY <1>2, <1>3, <1>4, <2>1, <2>2, RefusalsFit
<1>7. CASE RouteExtra(x)
  <2>1. PICK r \in ReplySet : Step(x, Write(x, r)) /\ Op(x) \in Extras /\ server[x].pc = "routing"
    BY <1>7 DEF RouteExtra, At, Extras, JSON, Text, ReplySet, ReplyCodes
  <2>2. QED
    BY <1>2, <1>3, <2>1, RefusalsFit
<1>8. CASE Bind(x)
  <2>1. server[x].pc = "binding" /\ Op(x) \notin Extras
    BY <1>2, <1>8 DEF Bind, At, Told
  <2>2. \/ Request(x).defect = "param" /\ Step(x, Write(x, JSON(400, "BAD_REQUEST")))
        \/ Step(x, Goto(x, "decoding"))
    BY <1>8 DEF Bind
  <2>3. QED
    BY <1>2, <1>3, <1>4, <2>1, <2>2, RefusalsFit
<1>9. CASE Decode(x)
  <2>1. server[x].pc = "decoding" /\ Op(x) \notin Extras
    BY <1>2, <1>9 DEF Decode, At, Told
  <2>2. Step(x, Write(x, Text(400))) \/ Step(x, Goto(x, "handling"))
    BY <1>9 DEF Decode
  <2>3. QED
    BY <1>2, <1>3, <1>4, <2>1, <2>2, RefusalsFit
<1>10. CASE Handle(x)
  <2>1. server[x].pc = "handling" /\ Op(x) \in ServiceOps \cup StorageOps
    BY <1>2, <1>10, RequestOf DEF Handle, At, Told
  <2>2. CASE Op(x) \in StorageOps
    <3>1. Step(x, Write(x, JSON(StorageHandler[Op(x)][1], StorageHandler[Op(x)][2])))
      BY <1>10, <2>2 DEF Handle
    <3>2. QED
      BY <1>2, <1>3, <2>1, <2>2, <3>1, RefusalsFit
  <2>3. CASE Op(x) \notin StorageOps /\ Request(x).defect = "rule"
    <3>1. Step(x, Write(x, JSON(Rules[Op(x)][1], Rules[Op(x)][2])))
      BY <1>10, <2>3 DEF Handle
    <3>2. QED
      BY <1>2, <1>3, <2>1, <2>3, <3>1, RefusalsFit
  <2>4. CASE Op(x) \notin StorageOps /\ Request(x).defect # "rule"
    <3>1. PICK out \in Outcomes(Op(x)) : Step(x, [Write(x, Answer(Op(x), out)) EXCEPT !.did = out])
      BY <1>10, <2>4 DEF Handle
    <3>2. Op(x) \in ServiceOps
      BY <2>1, <2>4
    <3>3. out \in {"ok"} \cup Errors[Op(x)]
      BY <3>2, SuccessFits DEF Outcomes
    <3>4. Fits(Op(x), out, Answer(Op(x), out)) /\ out \in DOMAIN Status \cup {"ok"}
      BY <3>2, <3>3, AnswerFits, ErrorFits
    <3> DEFINE a == Answer(Op(x), out)
               v == [Write(x, a) EXCEPT !.did = out]
    <3>5. /\ v.pc = "unwinding" /\ v.tenant = server[x].tenant /\ v.did = out /\ v.reply = a
          /\ v.logged = server[x].logged /\ v.counted = server[x].counted
      BY <1>2 DEF ServerRecord, Write
    <3>6. ServerTyped(v) /\ Told(Op(x), v)
      <4> HIDE DEF v
      <4>1. a \in ReplySet
        BY <3>4 DEF Fits
      <4>2. ServerTyped(v)
        BY <1>2, <3>4, <3>5, <4>1 DEF ServerTyped, InHandlers
      <4>3. Told(Op(x), v)
        BY <3>4, <3>5 DEF Told
      <4> QED
        BY <4>2, <4>3
    <3>7. QED
      BY <1>2, <3>1, <3>6, ServerFits
  <2>5. QED
    BY <2>2, <2>3, <2>4
<1>11. CASE Recover(x)
  <2> DEFINE v == [server[x] EXCEPT !.pc = "recovered", !.reply = JSON(500, "INTERNAL_ERROR")]
  <2>1. /\ v.pc = "recovered" /\ v.tenant = server[x].tenant /\ v.did = server[x].did
        /\ v.reply = JSON(500, "INTERNAL_ERROR")
        /\ v.logged = server[x].logged /\ v.counted = server[x].counted
    BY <1>2 DEF ServerRecord
  <2>2. server[x].did = "panic" /\ Op(x) \in ServiceOps /\ Step(x, v)
    BY <1>2, <1>11, RequestOf DEF Recover, At, Noted, Told
  <2>3. ServerTyped(v) /\ Told(Op(x), v)
    <3> HIDE DEF v
    <3>1. Fits(Op(x), "panic", v.reply) /\ v.reply \in ReplySet
      BY <2>1, <2>2, RecoveryFits DEF Fits
    <3> QED
      BY <1>2, <2>1, <2>2, <3>1 DEF ServerTyped, Told, InHandlers
  <2> QED
    BY <1>2, <2>2, <2>3, ServerFits
<1>12. CASE Count(x)
  <2> DEFINE v == [server[x] EXCEPT !.pc = "counted", !.counted = server[x].reply.status]
  <2>1. /\ v.pc = "counted" /\ v.tenant = server[x].tenant /\ v.did = server[x].did
        /\ v.reply = server[x].reply
        /\ v.logged = server[x].logged /\ v.counted = server[x].reply.status
    BY <1>2 DEF ServerRecord
  <2>2. Fits(Op(x), server[x].did, server[x].reply) /\ Step(x, v) /\ server[x].reply.status \in 0..599
    BY <1>2, <1>12 DEF Count, At, Told, ServerTyped, ReplySet
  <2>3. ServerTyped(v) /\ Told(Op(x), v)
    <3> HIDE DEF v
    <3> QED
      BY <1>2, <2>1, <2>2 DEF ServerTyped, Told, InHandlers
  <2> QED
    BY <1>2, <2>2, <2>3, ServerFits
<1>13. CASE Log(x)
  <2> DEFINE v == [server[x] EXCEPT !.pc = "flushed", !.logged = server[x].reply.status]
  <2>1. /\ v.pc = "flushed" /\ v.tenant = server[x].tenant /\ v.did = server[x].did
        /\ v.reply = server[x].reply
        /\ v.logged = server[x].reply.status /\ v.counted = server[x].counted
    BY <1>2 DEF ServerRecord
  <2>2. Fits(Op(x), server[x].did, server[x].reply) /\ Step(x, v) /\ server[x].reply.status \in 0..599
    BY <1>2, <1>13 DEF Log, At, Told, ServerTyped, ReplySet
  <2>3. ServerTyped(v) /\ Told(Op(x), v)
    <3> HIDE DEF v
    <3> QED
      BY <1>2, <2>1, <2>2 DEF ServerTyped, Told, InHandlers
  <2> QED
    BY <1>2, <2>2, <2>3, ServerFits
<1>14. QED
  BY <1>5, <1>6, <1>7, <1>8, <1>9, <1>10, <1>11, <1>12, <1>13 DEF Serve

\* So does taking a call up, and a handler's panic.
LEMMA AcceptPanicKeepContract ==
  ASSUME CInv, NEW x \in Calls, Accept(x) \/ Panic(x)
  PROVE  ProcessTyped' /\ \A y \in Calls : Contract(y)'
<1>1. /\ server[x].pc \in {"none", "handling"} /\ client[x].state # "idle" /\ ServerRecord(server[x])
      /\ ServerTyped(server[x]) /\ Told(Op(x), server[x]) /\ ~Delivered(x)
  BY Started DEF Accept, Panic, At, CInv, IInv, WellFormed, Noted, Delivered, Contract
<1>2. CASE Accept(x) /\ ~InCORS(x)
  <2>1. Step(x, Goto(x, "accepted"))
    BY <1>2 DEF Accept, InCORS
  <2>2. ServerTyped(Goto(x, "accepted")) /\ Told(Op(x), Goto(x, "accepted"))
    BY <1>1, GotoFits
  <2>3. QED
    BY <1>1, <2>1, <2>2, ServerFits
<1>3. CASE Accept(x) /\ InCORS(x)
  <2> DEFINE v == [server[x] EXCEPT !.pc = "flushed", !.reply = Bare(204)]
  <2>1. /\ v.pc = "flushed" /\ v.tenant = server[x].tenant /\ v.did = server[x].did
        /\ v.reply = Bare(204) /\ v.logged = server[x].logged /\ v.counted = server[x].counted
    BY <1>1 DEF ServerRecord
  <2>2. Step(x, v) /\ Op(x) \in Extras
    BY <1>3 DEF Accept, InCORS, Extras
  <2>3. ServerTyped(v) /\ Told(Op(x), v)
    <3> HIDE DEF v
    <3>1. v.reply \in ReplySet
      BY <2>1 DEF Bare, ReplySet, ReplyCodes
    <3> QED
      BY <1>1, <2>1, <2>2, <3>1 DEF ServerTyped, Told, Fits, InHandlers
  <2> QED
    BY <1>1, <2>2, <2>3, ServerFits
<1>4. CASE Panic(x)
  <2> DEFINE v == [Goto(x, "panicking") EXCEPT !.did = "panic"]
  <2>1. /\ v.pc = "panicking" /\ v.tenant = server[x].tenant /\ v.did = "panic"
        /\ v.reply = server[x].reply /\ v.logged = server[x].logged /\ v.counted = server[x].counted
    BY <1>1 DEF ServerRecord, Goto
  <2>2. Step(x, v) /\ Op(x) \notin Extras \cup StorageOps
    BY <1>1, <1>4 DEF Panic, At, Told
  <2>3. ServerTyped(v) /\ Told(Op(x), v)
    <3> HIDE DEF v
    <3> QED
      BY <1>1, <2>1, <2>2 DEF ServerTyped, Told, InHandlers
  <2> QED
    BY <1>1, <2>2, <2>3, ServerFits
<1>5. QED
  BY <1>2, <1>3, <1>4

\* A call whose caller sends, hears or gives up.
LEMMA CallerKeepsContract ==
  ASSUME CInv, NEW x \in Calls,
         (\E r \in Requests(svc) : Send(x, r)) \/ Receive(x) \/ ReplyLost(x) \/ GiveUp(x)
  PROVE  ProcessTyped' /\ \A y \in Calls : Contract(y)'
<1>1. /\ ServerRecord(server[x]) /\ ClientRecord(client[x]) /\ Noted(x) /\ Contract(x)
      /\ DOMAIN server = Calls /\ DOMAIN client = Calls
  BY DEF CInv, IInv, WellFormed
<1>2. UNCHANGED <<svc, cors, process, session>>
  BY DEF Send, Receive, ReplyLost, GiveUp, NoAnswer
<1>3. /\ ProcessTyped' /\ Requests(svc)' = Requests(svc)
  BY <1>2 DEF CInv, ProcessTyped, Requests, OpsOf
<1>4. ASSUME NEW y \in Calls \ {x} PROVE Contract(y)'
  <2>1. server'[y] = server[y] /\ client'[y] = client[y]
    BY <1>1 DEF Send, Receive, ReplyLost, GiveUp, NoAnswer, Return
  <2>2. QED
    BY <1>2, <2>1, OthersStand DEF CInv
<1>5. CASE \E r \in Requests(svc) : Send(x, r)
  <2>1. PICK r \in Requests(svc) :
          /\ client[x].state = "idle" /\ server' = server
          /\ client' = [client EXCEPT ![x].state = "waiting", ![x].request = r]
    BY <1>5 DEF Send
  <2>2. /\ client'[x].state = "waiting" /\ client'[x].request = r /\ client'[x].got = client[x].got
    BY <1>1, <2>1 DEF ClientRecord
  <2>3. server[x].pc = "none" /\ client[x].got \in {"nothing", "error"} /\ r # NoRequest
    <3>1. ProcessTyped
      BY DEF CInv
    <3>2. QED
      BY <1>1, <2>1, <3>1, RequestsOf DEF Noted
  <2>4. ServerTyped(server'[x]) /\ server'[x] = server[x]
    BY <1>1, <2>1 DEF Contract
  <2>5. ClientTyped(client'[x], Requests(svc))
    BY <2>2, <2>3 DEF ClientTyped
  <2>6. Told(client'[x].request.op, server'[x])
    BY <1>1, <2>3, <2>4 DEF Told, Contract
  <2>7. HasRead(x)'
    BY <2>2, <2>3 DEF HasRead, Delivered
  <2>8. QED
    BY <1>3, <1>4, <2>4, <2>5, <2>6, <2>7 DEF Contract, Op
<1>6. CASE Receive(x) \/ ReplyLost(x) \/ GiveUp(x)
  <2>1. \/ server'[x] = server[x]
        \/ server[x].pc = "flushed" /\ server'[x] = [server[x] EXCEPT !.pc = "closed"]
    BY <1>1, <1>6 DEF Receive, ReplyLost, GiveUp, NoAnswer, At
  <2>2. /\ \/ server'[x].pc = server[x].pc
           \/ server[x].pc = "flushed" /\ server'[x].pc = "closed"
        /\ server'[x].tenant = server[x].tenant /\ server'[x].did = server[x].did
        /\ server'[x].reply = server[x].reply
        /\ server'[x].logged = server[x].logged /\ server'[x].counted = server[x].counted
    BY <1>1, <2>1 DEF ServerRecord
  <2>3. PICK g \in {"typed", "untyped", "error"} :
          \/ client' = client
          \/ client[x].state = "waiting" /\ Return(x, g)
    BY <1>6 DEF Receive, ReplyLost, GiveUp, NoAnswer
  <2>4. /\ client'[x].request = client[x].request
        /\ \/ client'[x].state = client[x].state /\ client'[x].got = client[x].got
           \/ /\ client[x].state = "waiting" /\ client'[x].state = "done"
              /\ client'[x].got \in {"typed", "untyped", "error"}
    BY <1>1, <2>3 DEF Return, ClientRecord
  <2>5. ServerTyped(server'[x])
    BY <1>1, <2>2 DEF ServerTyped, Contract
  <2>6. ClientTyped(client'[x], Requests(svc))
    BY <1>1, <2>4 DEF ClientTyped, Contract
  <2>7. Told(client[x].request.op, server'[x])
    BY <1>1, <2>2 DEF Told, Contract, Op
  <2>8. HasRead(x)'
    <3>1. CASE Receive(x)
      <4>1. client'[x].got = IF /\ Op(x) \in DOMAIN Parse /\ Reply(x).type = "json"
                                /\ Reply(x).status \in Parse[Op(x)] THEN "typed" ELSE "untyped"
        BY <1>1, <3>1 DEF Receive, Return, Reply, ClientRecord
      <4>2. server[x].pc = "flushed" /\ Fits(Op(x), server[x].did, Reply(x))
        BY <1>1, <3>1 DEF Receive, At, Contract, Told, Reply
      <4>3. QED
        BY <2>2, <2>4, <4>1, <4>2 DEF HasRead, Fits, Declared, Op, Reply
    <3>2. CASE ReplyLost(x) \/ GiveUp(x)
      <4>1. client' = client \/ client'[x].got = "error"
        BY <1>1, <3>2 DEF ReplyLost, GiveUp, NoAnswer, Return, ClientRecord
      <4>2. QED
        BY <1>1, <2>2, <2>4, <4>1 DEF Contract, HasRead, Delivered, Op, Reply
    <3>3. QED
      BY <1>6, <3>1, <3>2
  <2>9. QED
    BY <1>3, <1>4, <2>4, <2>5, <2>6, <2>7, <2>8 DEF Contract, Op
<1>7. QED
  BY <1>5, <1>6

\* The process changes no call.
LEMMA ProcessKeepsContract ==
  ASSUME CInv, Process \/ UNCHANGED vars
  PROVE  ProcessTyped' /\ \A y \in Calls : Contract(y)'
<1>1. UNCHANGED <<svc, cors, server, client>>
  BY DEF Process, ConfigFails, Wire, Signal, ListenFails, CloseSession, Exit, vars
<1>2. ProcessTyped'
  BY <1>1 DEF CInv, ProcessTyped, Process, ConfigFails, Wire, Signal, ListenFails, CloseSession, Exit,
     vars
<1>3. QED
  BY <1>1, <1>2, OthersStand DEF CInv

\* Every call starts without a request.
LEMMA InitContract == Init => CInv
<1> SUFFICES ASSUME Init PROVE ProcessTyped /\ \A x \in Calls : Contract(x)
  BY InitInv DEF CInv
<1>1. ProcessTyped
  BY DEF Init, ProcessTyped
<1>2. ASSUME NEW x \in Calls PROVE Contract(x)
  <2>1. server[x] = Untouched /\ client[x] = [state |-> "idle", request |-> NoRequest, got |-> "nothing"]
    BY DEF Init
  <2>2. ServerTyped(server[x])
    BY <2>1 DEF ServerTyped, Untouched, Bare, ReplySet, ReplyCodes
  <2>3. ClientTyped(client[x], Requests(svc)) /\ HasRead(x)
    BY <2>1 DEF ClientTyped, HasRead, Delivered
  <2>4. Told(Op(x), server[x])
    BY <2>1 DEF Told, Untouched
  <2>5. QED
    BY <2>2, <2>3, <2>4 DEF Contract
<1>3. QED
  BY <1>1, <1>2

\* The contract, of every behaviour.
LEMMA InductiveContract == Spec => []CInv
<1>1. CInv /\ [Next]_vars => (ProcessTyped /\ \A x \in Calls : Contract(x))'
  BY ServeKeepsContract, AcceptPanicKeepContract, CallerKeepsContract, ProcessKeepsContract DEF Next
<1>2. IInv /\ [Next]_vars => IInv'
  BY ServeKeeps, AcceptPanicKeep, CallerKeeps, ProcessKeeps DEF Next
<1>3. CInv /\ [Next]_vars => CInv'
  BY <1>1, <1>2 DEF CInv
<1>4. QED
  BY InitContract, <1>3, PTL DEF Spec

-----------------------------------------------------------------------------
\* Whatever reaches a caller through the chain of middleware is in the log with
\* its status, and in the metrics unless the handler panicked: of any number of
\* requests in flight, through panics, cut connections and shutdowns.
THEOREM AnswersObserved == Spec => []AnswersAreObserved
<1>1. IInv => AnswersAreObserved
  BY DEF IInv, Noted, InCORS, AnswersAreObserved
<1>2. QED
  BY <1>1, Inductive, PTL

\* A process does not exit with its session open, whichever step of its start or
\* of its end fails (Wire closes what NewSession opened when NewClient fails).
THEOREM SessionReleased == Spec => []SessionIsReleased
<1>1. Init => SessionIsReleased
  BY DEF Init, SessionIsReleased
<1>2. ASSUME SessionIsReleased, [Next]_vars PROVE SessionIsReleased'
  <2> USE <1>2 DEF SessionIsReleased
  <2>1. CASE Process
    BY <2>1 DEF Process, ConfigFails, Wire, Signal, ListenFails, CloseSession, Exit
  <2>2. ASSUME NEW x \in Calls,
               \/ \E r \in Requests(svc) : Send(x, r)
               \/ Accept(x) \/ Serve(x) \/ Panic(x) \/ Receive(x) \/ ReplyLost(x) \/ GiveUp(x)
        PROVE  UNCHANGED <<process, session>>
    BY <2>2 DEF Send, Accept, Serve, Panic, Receive, ReplyLost, GiveUp, NoAnswer, TenantContext, Route,
       RouteExtra, Bind, Decode, Handle, Recover, Count, Log, Step
  <2>3. CASE UNCHANGED vars
    BY <2>3 DEF vars
  <2>4. QED
    BY <2>1, <2>2, <2>3 DEF Next
<1>3. QED
  BY <1>1, <1>2, PTL DEF Spec

\* The records of the server, the callers and the process keep their types: a
\* caller's request stays one that its service can get, every reply written one
\* of ReplySet, and what was done an outcome that HTTPStatusAndBody knows.
THEOREM TypeCorrect == Spec => []TypeOK
<1>1. CInv => TypeOK
  <2> SUFFICES ASSUME CInv PROVE TypeOK
    OBVIOUS
  <2>1. ASSUME NEW x \in Calls
        PROVE  /\ DOMAIN server[x] = DOMAIN Untouched
               /\ ServerTyped(server[x]) /\ ClientTyped(client[x], Requests(svc))
    BY DEF CInv, IInv, WellFormed, Contract, ServerRecord, Untouched
  <2>2. ProcessTyped
    BY DEF CInv
  <2>3. QED
    BY <2>1, <2>2 DEF TypeOK, ProcessTyped, ServerTyped, ClientTyped
<1>2. QED
  BY <1>1, InductiveContract, PTL

\* The status a caller gets tells what the service did, through the middleware,
\* the handlers' switches, panics, and a session that is closed under a handler.
THEOREM StatusIsTrue == Spec => []StatusTellsOutcome
<1>1. CInv => StatusTellsOutcome
  BY DEF CInv, IInv, Noted, Contract, Told, Fits, Truthful, StatusTellsOutcome, Reply
<1>2. QED
  BY <1>1, InductiveContract, PTL

\* Every JSON answer to an operation is one its OpenAPI document declares, and
\* the generated client reads it into a field.
THEOREM ContractIsKept == Spec => []AnswersAreInTheContract
<1>1. CInv => AnswersAreInTheContract
  BY DEF CInv, IInv, Noted, Contract, Told, Fits, Declared, HasRead, AnswersAreInTheContract, Reply
<1>2. QED
  BY <1>1, InductiveContract, PTL
=============================================================================
