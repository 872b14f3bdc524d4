---------------------------- MODULE RESTExchange ----------------------------
(***************************************************************************)
(* Requests to one CloudForge service: the caller, the server process, the *)
(* middleware chain, the generated router and handler adapter, and the     *)
(* handler's call of the service.                                          *)
(*                                                                         *)
(* On the way in a request passes CORS, RequestID, OTelSpan,               *)
(* StructuredLogger, PanicRecovery, Metrics and TenantContext, then the    *)
(* mux; on the way out the same in reverse.  A reply is held by net/http   *)
(* until the outermost handler has returned.  The process is that of       *)
(* cmd/cf-*: it is wired, serves, and closes its session on the way out.   *)
(***************************************************************************)
EXTENDS AccountsAPI, ProvisionerAPI, StorageAPI, Sequences

CONSTANTS
  Calls,    \* requests
  Services  \* which services to look at

ASSUME ServicesAreKnown == Services \subseteq {"accounts", "provisioner", "storage"}

VARIABLES
  svc,      \* the service this process serves
  cors,     \* whether DEV_CORS_ORIGINS is set
  process,  \* "starting", "serving", "stopping" (a signal came), "closing", "exited"
  session,  \* the ScyllaDB session: "none", "open" or "closed"
  server,   \* per call: what the server has done with it
  client    \* per call: the request, and what its caller got

vars == <<svc, cors, process, session, server, client>>

-----------------------------------------------------------------------------
Extras == {"Healthz", "Spec", "Docs", "Preflight"}

OpsOf(s) == CASE s = "accounts"    -> AccountsOps
              [] s = "provisioner" -> ProvisionerOps
              [] s = "storage"     -> StorageOps

\* Two tables of the services as one.
Join(f, g) == [k \in DOMAIN f \cup DOMAIN g |-> IF k \in DOMAIN f THEN f[k] ELSE g[k]]

Routes  == Join(AccountsRoutes,   Join(ProvisionerRoutes,   StorageRoutes))
Sent    == Join(AccountsRequests, Join(ProvisionerRequests, StorageRequests))
Params  == Join(AccountsParams,   Join(ProvisionerParams,   StorageParams))
Replies == Join(AccountsReplies,  Join(ProvisionerReplies,  StorageReplies))
Errors  == Join(AccountsErrors,   ProvisionerErrors)
Handler == Join(AccountsHandler,  ProvisionerHandler)
Rules   == Join(AccountsRules,    ProvisionerRules)
Bodies  == AccountsBodies \cup ProvisionerBodies \cup StorageBodies
Status  == Join(AccountsStatus,   ProvisionerStatus)
Parse   == Join(AccountsParse,    StorageParse)

\* What can be wrong with a request for op: its path (the base path that the
\* OpenAPI document gives), a path parameter, its JSON body, a rule of the API.
Defects(op) ==
  {"none"} \cup (IF op \in Extras THEN {} ELSE {"base"})
           \cup (IF op \in DOMAIN Params /\ "uuid" \in Params[op] THEN {"param"} ELSE {})
           \cup (IF op \in Bodies THEN {"body"} ELSE {})
           \cup (IF op \in DOMAIN Rules THEN {"rule"} ELSE {})

Requests(s) ==
  LET ops == OpsOf(s) \cup (IF s = "storage" THEN {} ELSE Extras)
  IN UNION {{[op |-> op, defect |-> d] : d \in Defects(op)} : op \in ops}

NoRequest == [op |-> "none", defect |-> "none"]
JSON(s, c) == [status |-> s, type |-> "json", code |-> c]
Text(s)    == [status |-> s, type |-> "text", code |-> "none"]
Bare(s)    == [status |-> s, type |-> "none", code |-> "none"]

ReplyCodes == {"none", "BAD_REQUEST", "NOT_FOUND", "CONFLICT", "UNPROCESSABLE",
               "SERVICE_UNAVAILABLE", "INTERNAL_ERROR"}
ReplySet   == [status : 0..599, type : {"none", "json", "text"}, code : ReplyCodes]

\* Where a call is on the server; a call "flushed" has left the handlers.
InHandlers == {"accepted", "routing", "binding", "decoding", "handling", "panicking",
               "recovered", "unwinding", "counted"}

Untouched == [pc |-> "none", tenant |-> FALSE, did |-> "nothing", reply |-> Bare(0),
              logged |-> 0, counted |-> 0]

TypeOK ==
  /\ svc \in Services /\ cors \in BOOLEAN
  /\ process \in {"starting", "serving", "stopping", "closing", "exited"}
  /\ session \in {"none", "open", "closed"}
  /\ \A x \in Calls :
       /\ DOMAIN server[x] = DOMAIN Untouched
       /\ server[x].pc \in InHandlers \cup {"none", "flushed", "closed"}
       /\ server[x].tenant \in BOOLEAN
       /\ server[x].did \in DOMAIN Status \cup {"nothing", "ok", "panic"}
       /\ server[x].reply \in ReplySet
       /\ {server[x].logged, server[x].counted} \subseteq 0..599
       /\ client[x].state \in {"idle", "waiting", "done"}
       /\ client[x].request \in Requests(svc) \cup {NoRequest}
       /\ client[x].got \in {"nothing", "typed", "untyped", "error"}
       /\ client[x].state = "idle" <=> client[x].request = NoRequest

\* No binary of the repository serves the storage router: its process is taken
\* to be up, without a session and without CORS.
Init ==
  /\ svc \in Services
  /\ cors \in IF svc = "storage" THEN {FALSE} ELSE BOOLEAN
  /\ process = IF svc = "storage" THEN "serving" ELSE "starting"
  /\ session = "none"
  /\ server = [x \in Calls |-> Untouched]
  /\ client = [x \in Calls |-> [state |-> "idle", request |-> NoRequest, got |-> "nothing"]]

-----------------------------------------------------------------------------
\* The process.  run(): configFromEnv, Wire, ListenAndServe, deferred Shutdown.
ConfigFails ==
  /\ process = "starting" /\ session = "none"
  /\ process' = "exited"
  /\ UNCHANGED <<svc, cors, session, server, client>>

\* (Mutant) A failed OpenBao client that leaves the session open.
WireLeaking ==
  /\ process = "starting"
  /\ \/ session = "none" /\ session' = "open" /\ process' = "starting"
     \/ session = "none" /\ session' = "none" /\ process' = "exited"
     \/ session = "open" /\ session' = "open" /\ process' \in {"serving", "exited"}
  /\ UNCHANGED <<svc, cors, server, client>>

\* Wire: NewSession succeeds or fails; then NewClient succeeds, or fails and
\* closes the session.
Wire ==
  /\ process = "starting"
  /\ \/ session = "none" /\ session' = "open" /\ process' = "starting"
     \/ session = "none" /\ session' = "none" /\ process' = "exited"
     \/ session = "open" /\ session' = "open" /\ process' = "serving"
     \/ session = "open" /\ session' = "closed" /\ process' = "exited"
  /\ UNCHANGED <<svc, cors, server, client>>

\* SIGTERM or SIGINT: srv.Shutdown closes the listener, and ListenAndServe
\* returns ErrServerClosed at once, whatever Shutdown still waits for.
Signal ==
  /\ process = "serving" /\ svc # "storage"
  /\ process' = "stopping"
  /\ UNCHANGED <<svc, cors, session, server, client>>

\* ListenAndServe could not bind or accept.
ListenFails ==
  /\ process = "serving" /\ svc # "storage"
  /\ process' = "closing"
  /\ UNCHANGED <<svc, cors, session, server, client>>

\* run() returns: the deferred app.Shutdown closes the session ...
CloseSession ==
  /\ process \in {"stopping", "closing"} /\ session = "open"
  /\ session' = "closed"
  /\ UNCHANGED <<svc, cors, process, server, client>>

\* ... and main returns, whatever handlers are still running.
Exit ==
  /\ process \in {"stopping", "closing"} /\ session = "closed"
  /\ process' = "exited"
  /\ UNCHANGED <<svc, cors, session, server, client>>

Process == ConfigFails \/ Wire \/ Signal \/ ListenFails \/ CloseSession \/ Exit

-----------------------------------------------------------------------------
\* A call on the server.  At(x, p): it is at p and the process is alive.
At(x, p)   == server[x].pc = p /\ process # "exited"
Request(x) == client[x].request
Op(x)      == client[x].request.op

Step(x, next) ==
  /\ server' = [server EXCEPT ![x] = next]
  /\ UNCHANGED <<svc, cors, process, session, client>>

Goto(x, p) == [server[x] EXCEPT !.pc = p]

\* A handler has written the reply r.
Write(x, r) == [server[x] EXCEPT !.pc = "unwinding", !.reply = r]

\* ListenAndServe accepts; a preflight ends in CORS, outside the other layers.
Accept(x) ==
  /\ process = "serving" /\ client[x].state = "waiting" /\ server[x].pc = "none"
  /\ Step(x, IF cors /\ Op(x) = "Preflight"
               THEN [server[x] EXCEPT !.pc = "flushed", !.reply = Bare(204)]
               ELSE Goto(x, "accepted"))

\* r.PathValue answers for the mux that has matched the request: none has yet.
PathValue(x) == FALSE

\* TenantContext, the innermost middleware.
TenantContext(x) ==
  /\ At(x, "accepted")
  /\ Step(x, [server[x] EXCEPT !.pc = "routing", !.tenant = PathValue(x)])

Matches(route, sent) ==
  Len(route) = Len(sent) /\ \A i \in DOMAIN route : route[i] \in {"*", sent[i]}

\* The path on the wire; a caller may follow the documented base path.
Path(r) ==
  IF r.defect = "base" THEN <<Head(Sent[r.op]), "api", "v1">> \o Tail(Sent[r.op]) ELSE Sent[r.op]

\* The generated mux under the top one.
Route(x) ==
  /\ At(x, "routing") /\ Op(x) \notin Extras
  /\ Step(x, IF Matches(Routes[Op(x)], Path(Request(x))) THEN Goto(x, "binding")
                                                       ELSE Write(x, Text(404)))

\* NewRouter's own routes.  The specification file may not be there; an OPTIONS
\* request without CORS has no route.
RouteExtra(x) ==
  /\ At(x, "routing")
  /\ \/ Op(x) = "Healthz"   /\ Step(x, Write(x, JSON(200, "none")))
     \/ Op(x) = "Docs"      /\ Step(x, Write(x, Text(200)))
     \/ Op(x) = "Spec"      /\ \E s \in {200, 404} : Step(x, Write(x, Text(s)))
     \/ Op(x) = "Preflight" /\ Step(x, Write(x, Text(405)))

\* (Mutant) A binder that answers with a code of its own.
BindOwnCode(x) ==
  /\ At(x, "binding")
  /\ Step(x, IF Request(x).defect = "param" THEN Write(x, JSON(400, "INVALID_PARAM"))
                                          ELSE Goto(x, "decoding"))

\* ServerInterfaceWrapper: a parameter that does not parse goes to the service's
\* ErrorHandlerFunc.
Bind(x) ==
  /\ At(x, "binding")
  /\ Step(x, IF Request(x).defect = "param" THEN Write(x, JSON(400, "BAD_REQUEST"))
                                          ELSE Goto(x, "decoding"))

\* strictHandler: a body that does not parse goes to RequestErrorHandlerFunc,
\* which is http.Error.
Decode(x) ==
  /\ At(x, "decoding")
  /\ Step(x, IF Request(x).defect = "body" THEN Write(x, Text(400)) ELSE Goto(x, "handling"))

Success(s) == IF s = 204 THEN Bare(s) ELSE JSON(s, "none")

\* (Mutant) An answer that does not look at the error.
AnswerBlindly(op, out) == Success(Handler[op][1])

\* The handler's answer to what the service did.
Answer(op, out) ==
  LET known == Handler[op][2]
      error == Status[out]
  IN IF out = "ok" THEN Success(Handler[op][1])
     ELSE JSON(IF error[1] \in known THEN error[1] ELSE 500, error[2])

\* (Mutant) A closed session that blocks a statement.
OutcomesBlocking(op) == IF session = "closed" THEN {} ELSE {"ok"} \cup Errors[op]

\* A closed session fails every statement.
Outcomes(op) == IF session = "closed" THEN {"other"} ELSE {"ok"} \cup Errors[op]

\* Handler.<op>: validate, call the service, answer.
Handle(x) ==
  /\ At(x, "handling")
  /\ LET op == Op(x) IN
     IF op \in StorageOps THEN Step(x, Write(x, JSON(StorageHandler[op][1], StorageHandler[op][2])))
     ELSE IF Request(x).defect = "rule" THEN Step(x, Write(x, JSON(Rules[op][1], Rules[op][2])))
     ELSE \E out \in Outcomes(op) :
            Step(x, [Write(x, Answer(op, out)) EXCEPT !.did = out])

\* The handler, or something it calls, panics before it has written anything.
Panic(x) ==
  /\ At(x, "handling") /\ Op(x) \notin StorageOps
  /\ Step(x, [Goto(x, "panicking") EXCEPT !.did = "panic"])

\* (Mutant) PanicRecovery as the outermost middleware: it unwinds the logger too.
RecoverOutermost(x) ==
  /\ At(x, "panicking")
  /\ Step(x, [server[x] EXCEPT !.pc = "flushed", !.reply = JSON(500, "INTERNAL_ERROR")])

\* PanicRecovery: the panic has unwound TenantContext and the metrics.
Recover(x) ==
  /\ At(x, "panicking")
  /\ Step(x, [server[x] EXCEPT !.pc = "recovered", !.reply = JSON(500, "INTERNAL_ERROR")])

\* metrics.HTTPMiddleware, after the handler has returned.
Count(x) ==
  /\ At(x, "unwinding")
  /\ Step(x, [server[x] EXCEPT !.pc = "counted", !.counted = server[x].reply.status])

\* StructuredLogger's "request completed".
Log(x) ==
  /\ At(x, "counted") \/ At(x, "recovered")
  /\ Step(x, [server[x] EXCEPT !.pc = "flushed", !.logged = server[x].reply.status])

Serve(x) ==
  \/ TenantContext(x) \/ Route(x) \/ RouteExtra(x) \/ Bind(x) \/ Decode(x)
  \/ Handle(x) \/ Recover(x) \/ Count(x) \/ Log(x)

-----------------------------------------------------------------------------
\* The caller.
Return(x, got) == client' = [client EXCEPT ![x].state = "done", ![x].got = got]

Send(x, r) ==
  /\ client[x].state = "idle"
  /\ client' = [client EXCEPT ![x].state = "waiting", ![x].request = r]
  /\ UNCHANGED <<svc, cors, process, session, server>>

\* Parse*: a JSON reply with a known status gets a field, any other only a body.
Receive(x) ==
  /\ At(x, "flushed") /\ client[x].state = "waiting"
  /\ LET reply == server[x].reply IN
     Return(x, IF /\ Op(x) \in DOMAIN Parse /\ reply.type = "json"
                  /\ reply.status \in Parse[Op(x)] THEN "typed" ELSE "untyped")
  /\ server' = [server EXCEPT ![x].pc = "closed"]
  /\ UNCHANGED <<svc, cors, process, session>>

\* The reply does not get through: the write timeout, or the caller has left.
ReplyLost(x) ==
  /\ At(x, "flushed")
  /\ IF client[x].state = "waiting" THEN Return(x, "error") ELSE UNCHANGED client
  /\ server' = [server EXCEPT ![x].pc = "closed"]
  /\ UNCHANGED <<svc, cors, process, session>>

\* No listener, a connection cut by the exit, or the caller's context is done.
NoAnswer(x) ==
  /\ client[x].state = "waiting"
  /\ Return(x, "error")
  /\ UNCHANGED <<svc, cors, process, session, server>>

Refused(x) == process \notin {"serving"} /\ server[x].pc = "none" /\ NoAnswer(x)
CutOff(x)  == process = "exited" /\ NoAnswer(x)
GiveUp(x)  == NoAnswer(x)

Next ==
  \/ Process
  \/ \E x \in Calls :
       \/ \E r \in Requests(svc) : Send(x, r)
       \/ Accept(x) \/ Serve(x) \/ Panic(x) \/ Receive(x) \/ ReplyLost(x) \/ GiveUp(x)

Spec == Init /\ [][Next]_vars

\* Handlers run to their end, replies leave, and a dead connection is noticed.
\* No fairness of GiveUp: a caller may wait without a deadline.
FairSpec ==
  /\ Spec
  /\ \A x \in Calls :
       /\ WF_vars(Accept(x)) /\ WF_vars(Serve(x)) /\ WF_vars(Receive(x) \/ ReplyLost(x))
       /\ WF_vars(Refused(x) \/ CutOff(x))

-----------------------------------------------------------------------------
Delivered(x) == client[x].got \in {"typed", "untyped"}
Reply(x)     == server[x].reply

\* A status tells what happened: 2xx only after the service did it, 4xx only when
\* it refused or was not called, 5xx only after a failure.  (The storage
\* placeholder answers 500 without having done anything.)
StatusTellsOutcome ==
  \A x \in Calls : Delivered(x) /\ Op(x) \notin Extras \cup StorageOps =>
    LET s == Reply(x).status
        d == server[x].did
    IN /\ s < 300 <=> d = "ok"
       /\ s >= 500 <=> d \in {"other", "panic"}

\* Every JSON answer to an operation, be it from the handler, the binder or the
\* panic recovery, is one its OpenAPI document declares, and the generated client
\* reads it into a field.
AnswersAreInTheContract ==
  \A x \in Calls : Delivered(x) /\ Reply(x).type = "json" /\ Op(x) \notin Extras =>
    /\ Reply(x).status \in Replies[Op(x)]
    /\ Op(x) \in DOMAIN Parse => client[x].got = "typed"

\* Whatever reached a caller through the chain is in the log with its status, and
\* in the metrics too unless the handler panicked.
AnswersAreObserved ==
  \A x \in Calls : Delivered(x) /\ ~(cors /\ Op(x) = "Preflight") =>
    /\ server[x].logged = Reply(x).status
    /\ server[x].counted = Reply(x).status \/ server[x].did = "panic"

\* A process does not exit with its session open, however its start or its
\* serving ended.
SessionIsReleased == process = "exited" => session # "open"

\* Every call returns to its caller: with an answer, or with an error.
EveryCallReturns == \A x \in Calls : client[x].state = "waiting" ~> client[x].state = "done"

=============================================================================
