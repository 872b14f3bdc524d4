------------------------------ MODULE NATSSpike ------------------------------
(***************************************************************************)
(* The NATS routing spike: Run connects as two tenants, tests that their   *)
(* accounts are isolated, routes events by type off a JetStream work       *)
(* queue, measures latency and tries new accounts, one after the other;    *)
(* ConsumeAndDispatch reads the queue in a goroutine of its own, which     *)
(* outlives the call when its timeout or its context ends it first.        *)
(*                                                                         *)
(* The program is run again and again against one NATS cluster, which      *)
(* keeps whatever a run leaves behind.  Every request to the cluster may   *)
(* fail, and fails once the run's context is done; an answer may be lost.  *)
(***************************************************************************)
EXTENDS Naturals, FiniteSets

CONSTANTS
  MaxRuns,   \* bound: runs of the program
  MaxTries,  \* connection attempts (10 in Run)
  Foreign,   \* what others in the account publish: one event of each of these kinds
  Flaky      \* whether requests to the cluster may fail while the context is live

ASSUME BoundsArePositive == MaxRuns \in Nat \ {0} /\ MaxTries \in Nat \ {0}
ASSUME FlakyIsBoolean    == Flaky \in BOOLEAN

VARIABLES
  run,       \* number of the current run
  pc,        \* where Run is
  ctx,       \* "live" or "done": RunWithTimeout's context
  tries,     \* connection attempts made so far by the current connect
  conns,     \* open connections
  stream,    \* whether ROUTING_TEST exists
  consumer,  \* the run whose ephemeral consumer the queue has, 0 for none
  queue,     \* the events on the stream
  out,       \* those delivered to the consumer and not settled
  iter,      \* the message iterator: "none", "open" or "stopped"
  reader,    \* the consuming goroutine
  failed,    \* whether dispatchErrors holds anything
  answers,   \* the outcome of Q1, Q2 and Q4
  handled,   \* history: events whose handler was called
  settled    \* history: events acknowledged or terminated, and by which run

cluster == <<stream, consumer, queue, out>>
program == <<run, pc, ctx, tries, conns, iter, reader, failed, answers>>
history == <<handled, settled>>
vars    == <<cluster, program, history>>

-----------------------------------------------------------------------------
Kinds == {"created", "deleted", "unrouted", "garbled"}

\* An event is named by the run that published it, 0 for others, and its kind.
Events == (1..MaxRuns) \X {"created", "deleted"} \cup {0} \X Foreign

BatchSize == 2

Questions == {"q1", "q2", "q4"}
Pcs == {"start", "connectA", "connectB", "subscribe", "observe", "sanity", "stream",
        "publish1", "publish2", "consume", "dispatching", "stop", "deleteStream",
        "benchmark", "connectC", "accounts", "reload", "results", "drain", "ended"}

NoEvent == <<0, "none">>

TypeOK ==
  /\ run \in 1..MaxRuns /\ pc \in Pcs /\ ctx \in {"live", "done"}
  /\ tries \in 0..MaxTries /\ conns \subseteq {"a", "b", "c"}
  /\ stream \in BOOLEAN /\ consumer \in 0..MaxRuns
  /\ queue \subseteq Events /\ out \subseteq queue
  /\ iter \in {"none", "open", "stopped"}
  /\ reader \in [at : {"none", "next", "dispatch", "ended"}, left : 0..BatchSize,
                 event : Events \cup {NoEvent}]
  /\ failed \in BOOLEAN
  /\ answers \in [Questions -> BOOLEAN]
  /\ handled \subseteq Events
  /\ settled \subseteq Events \X (1..MaxRuns) \X {"ack", "term"}

IdleReader == [at |-> "none", left |-> 0, event |-> NoEvent]

Init ==
  /\ run = 1 /\ pc = "start" /\ ctx = "live" /\ tries = 0 /\ conns = {}
  /\ stream = FALSE /\ consumer = 0 /\ queue = {} /\ out = {}
  /\ iter = "none" /\ reader = IdleReader /\ failed = FALSE
  /\ answers = [q \in Questions |-> FALSE]
  /\ handled = {} /\ settled = {}

-----------------------------------------------------------------------------
\* What a request to the cluster can come to.
Succeeds == ctx = "live"
Fails    == Flaky \/ ctx = "done"

Goto(p) == pc' = p

\* Main's control moves; the goroutine and its list do not.
MainOnly == UNCHANGED <<run, ctx, iter, reader, failed, handled, settled>>

\* RunWithTimeout's ten minutes are over.
Expire ==
  /\ ctx = "live" /\ pc # "ended"
  /\ ctx' = "done"
  /\ UNCHANGED <<run, pc, tries, conns, iter, reader, failed, answers, cluster, history>>

-----------------------------------------------------------------------------
\* connectWithRetryCtx: an attempt takes no notice of the context, the pause after
\* a failed one does.
Connect(c, next, fail) ==
  \/ /\ conns' = conns \cup {c} /\ tries' = 0 /\ Goto(next)
  \/ /\ Flaky
     /\ IF ctx = "done" \/ tries + 1 = MaxTries
        THEN tries' = 0 /\ Goto(fail)
        ELSE tries' = tries + 1 /\ UNCHANGED pc
     /\ UNCHANGED conns

\* Run: without its connections there is nothing to test.
ConnectA ==
  /\ pc \in {"start", "connectA"}
  /\ Connect("a", "connectB", "drain")
  /\ UNCHANGED <<cluster, answers>> /\ MainOnly

ConnectB ==
  /\ pc = "connectB"
  /\ Connect("b", "subscribe", "drain")
  /\ UNCHANGED <<cluster, answers>> /\ MainOnly

Answer(q, b) == answers' = [answers EXCEPT ![q] = b]

\* RunIsolationTest, up to B's message: core NATS, which has no context.
SubscribeAndSpy ==
  /\ pc = "subscribe"
  /\ \/ Goto("observe")
     \/ Flaky /\ Goto("stream")
  /\ UNCHANGED <<tries, conns, answers, cluster>> /\ MainOnly

\* The 300 ms window: a message that arrives breaks the test, be it that the
\* accounts share subjects; none arrives if they do not, or if it is late.
Observe ==
  /\ pc = "observe"
  /\ Goto("stream") \/ Goto("sanity")
  /\ UNCHANGED <<tries, conns, answers, cluster>> /\ MainOnly

SanityCheck ==
  /\ pc = "sanity"
  /\ \/ Answer("q2", TRUE)
     \/ Fails /\ UNCHANGED answers
  /\ Goto("stream")
  /\ UNCHANGED <<tries, conns, cluster>> /\ MainOnly

-----------------------------------------------------------------------------
\* RunContentBasedRouting: CreateOrUpdateStream, which reuses what is there.
CreateStream ==
  /\ pc = "stream"
  /\ \/ Succeeds /\ stream' = TRUE /\ Goto("publish1")
     \/ Fails /\ UNCHANGED stream /\ Goto("benchmark")
     \/ Flaky /\ stream' = TRUE /\ Goto("benchmark")
  /\ UNCHANGED <<tries, conns, answers, consumer, queue, out>> /\ MainOnly

Put(e) == queue' = queue \cup {e}

\* A publish waits for the server's acknowledgement, which may get lost.
PublishEvent(p, e, next) ==
  /\ pc = p
  /\ \/ Succeeds /\ Put(e) /\ Goto(next)
     \/ Fails /\ UNCHANGED queue /\ Goto("deleteStream")
     \/ Flaky /\ Put(e) /\ Goto("deleteStream")
  /\ UNCHANGED <<tries, conns, answers, stream, consumer, out>> /\ MainOnly

Publish ==
  \/ PublishEvent("publish1", <<run, "created">>, "publish2")
  \/ PublishEvent("publish2", <<run, "deleted">>, "consume")

\* CreateOrUpdateConsumer and Messages: a work queue has one consumer, so the one
\* of an earlier run is in the way.  Then ConsumeAndDispatch starts its goroutine.
StartConsuming ==
  /\ pc = "consume"
  /\ \/ /\ Succeeds /\ consumer = 0
        /\ consumer' = run /\ iter' = "open" /\ Goto("dispatching")
        /\ reader' = [at |-> "next", left |-> BatchSize, event |-> NoEvent]
     \/ /\ Fails \/ consumer # 0 \* the server refuses a second consumer
        /\ consumer' \in {consumer} \cup (IF Flaky /\ consumer = 0 THEN {run} ELSE {})
        /\ Goto("deleteStream")
        /\ UNCHANGED <<iter, reader>>
  /\ UNCHANGED <<run, ctx, tries, conns, answers, failed, stream, queue, out, history>>

\* ConsumeAndDispatch returns: all are done, the timeout, or the context.  Its
\* caller passes if there was no error.
Collect(late) ==
  /\ pc = "dispatching"
  /\ Answer("q4", ~failed /\ ~late)
  /\ failed' = (failed \/ late)
  /\ Goto("stop")
  /\ UNCHANGED <<run, ctx, tries, conns, iter, reader, cluster, history>>

AllDispatched == reader.left = 0 /\ Collect(FALSE)

TimeOut   == Collect(TRUE)
Cancelled == ctx = "done" /\ Collect(TRUE)

\* (Mutant) Routing that returns without msgs.Stop.
NoStop ==
  /\ pc = "stop"
  /\ Goto("deleteStream")
  /\ UNCHANGED <<run, ctx, tries, conns, iter, reader, failed, answers, cluster, history>>

\* The deferred msgs.Stop ...
StopIterator ==
  /\ pc = "stop"
  /\ iter' = "stopped" /\ Goto("deleteStream")
  /\ UNCHANGED <<run, ctx, tries, conns, reader, failed, answers, cluster, history>>

\* ... and the deferred DeleteStream, under the same context, its error unread.
DeleteStream ==
  /\ pc = "deleteStream"
  /\ \/ Succeeds /\ stream' = FALSE /\ consumer' = 0 /\ queue' = {} /\ out' = {}
     \/ Fails /\ UNCHANGED <<stream, consumer, queue, out>>
  /\ Goto("benchmark")
  /\ UNCHANGED <<tries, conns, answers>> /\ MainOnly

-----------------------------------------------------------------------------
\* The consuming goroutine: BatchSize rounds of Next, Dispatch and settling.
ReaderOnly == UNCHANGED <<run, pc, ctx, tries, conns, iter, answers>>

\* (Mutant) One round too many: WaitGroup.Done goes below zero.
OneRoundMore ==
  [at |-> IF reader.left = 0 THEN "ended" ELSE "next", left |-> reader.left - 1, event |-> NoEvent]

NextRound ==
  [at |-> IF reader.left = 1 THEN "ended" ELSE "next", left |-> reader.left - 1, event |-> NoEvent]

\* msgs.Next delivers an event of the stream ...
NextDelivers ==
  /\ reader.at = "next" /\ iter = "open" /\ consumer = run
  /\ \E e \in queue \ out :
       /\ out' = out \cup {e}
       /\ reader' = [reader EXCEPT !.at = "dispatch", !.event = e]
  /\ UNCHANGED <<stream, consumer, queue, failed, history>> /\ ReaderOnly

\* ... or fails: the round is over, and counts.
NextErrors ==
  /\ reader.at = "next"
  /\ failed' = TRUE /\ reader' = NextRound
  /\ UNCHANGED <<cluster, history>> /\ ReaderOnly

NextFails   == Flaky /\ NextErrors
NextStopped == iter = "stopped" /\ NextErrors

\* Dispatch, by the type of the event.
DispatchResult(e) == CASE e[2] = "garbled"  -> "DecodeError"
                       [] e[2] = "unrouted" -> "UnknownType"
                       [] OTHER             -> "OK"

\* (Mutant) Garbled events terminated like unknown ones, and not reported.
SettlementLenient(e) == CASE DispatchResult(e) = "OK" -> "ack" [] OTHER -> "term"

\* What the goroutine tells the server about e.
Settlement(e) == CASE DispatchResult(e) = "OK"          -> "ack"
                   [] DispatchResult(e) = "UnknownType" -> "term"
                   [] DispatchResult(e) = "DecodeError" -> "nak"

\* An acknowledgement or termination takes the event off the queue, unless it is
\* lost or the queue has gone; a negative one gives it back.
Settle(e) ==
  LET s == Settlement(e) IN
  /\ \/ queue' = IF s = "nak" THEN queue ELSE queue \ {e}
     \/ Flaky /\ UNCHANGED queue
  /\ out' = IF s = "nak" \/ e \notin queue' THEN out \ {e} ELSE out
  /\ settled' = IF s = "nak" THEN settled ELSE settled \cup {<<e, run, s>>}

\* (Mutant) An event that cannot be decoded is not reported.
DispatchQuietly ==
  /\ reader.at = "dispatch"
  /\ LET e == reader.event IN
       /\ handled' = IF DispatchResult(e) = "OK" THEN handled \cup {e} ELSE handled
       /\ Settle(e)
  /\ reader' = NextRound
  /\ UNCHANGED <<stream, consumer, failed>> /\ ReaderOnly

\* Dispatch and the switch on its result.  The handler runs before anything is
\* settled.
Dispatch ==
  /\ reader.at = "dispatch"
  /\ LET e == reader.event IN
       /\ handled' = IF DispatchResult(e) = "OK" THEN handled \cup {e} ELSE handled
       /\ failed'  = (failed \/ Settlement(e) = "nak")
       /\ Settle(e)
  /\ reader' = NextRound
  /\ UNCHANGED <<stream, consumer>> /\ ReaderOnly

\* What the goroutine does of itself; a delivery is up to the server.
Reader == NextStopped \/ Dispatch

-----------------------------------------------------------------------------
\* RunLatencyBenchmark has a stream of its own and skips what it cannot publish.
Benchmark ==
  /\ pc = "benchmark"
  /\ Goto("connectC")
  /\ UNCHANGED <<tries, conns, answers, cluster>> /\ MainOnly

\* RunProvisioningTest: tenant C is tried without a pause, whatever the context ...
ConnectC ==
  /\ pc = "connectC"
  /\ \/ Answer("q1", TRUE) /\ conns' = conns \cup {"c"}
     \/ Flaky /\ UNCHANGED <<answers, conns>>
  /\ Goto("accounts")
  /\ UNCHANGED <<tries, cluster>> /\ MainOnly

\* ... then the fifty accounts, and DemonstrateConfigReload, which decide nothing;
\* on its return tenant C's connection is drained.
TryAccounts ==
  /\ pc = "accounts"
  /\ Goto("reload")
  /\ UNCHANGED <<tries, conns, answers, cluster>> /\ MainOnly

ReloadConfig ==
  /\ pc = "reload"
  /\ Goto("results") /\ conns' = conns \ {"c"}
  /\ UNCHANGED <<tries, answers, cluster>> /\ MainOnly

PrintResults ==
  /\ pc = "results"
  /\ Goto("drain")
  /\ UNCHANGED <<tries, conns, answers, cluster>> /\ MainOnly

\* The deferred Drains of Run.
Drain ==
  /\ pc = "drain"
  /\ conns' = {} /\ Goto("ended")
  /\ UNCHANGED <<tries, answers, cluster>> /\ MainOnly

Main ==
  \/ ConnectA \/ ConnectB \/ SubscribeAndSpy \/ Observe \/ SanityCheck
  \/ CreateStream \/ Publish \/ StartConsuming \/ AllDispatched \/ TimeOut \/ Cancelled
  \/ StopIterator \/ DeleteStream
  \/ Benchmark \/ ConnectC \/ TryAccounts \/ ReloadConfig \/ PrintResults \/ Drain

-----------------------------------------------------------------------------
\* Others in the account publish to the subjects of the stream.
OthersPublish ==
  /\ stream
  /\ \E k \in Foreign : <<0, k>> \notin queue \cup {s[1] : s \in settled} /\ Put(<<0, k>>)
  /\ UNCHANGED <<program, stream, consumer, out, history>>

\* The server drops an ephemeral consumer that nobody reads any more, and frees
\* what it had been given.
ConsumerExpires ==
  /\ consumer # 0 /\ ~(consumer = run /\ iter = "open")
  /\ consumer' = 0 /\ out' = {}
  /\ UNCHANGED <<program, stream, queue, history>>

\* main has returned, and with it every goroutine; the program is run again.
RunAgain ==
  /\ pc = "ended" /\ run < MaxRuns
  /\ run' = run + 1 /\ pc' = "start" /\ ctx' = "live" /\ tries' = 0
  /\ iter' = "none" /\ reader' = IdleReader /\ failed' = FALSE
  /\ answers' = [q \in Questions |-> FALSE]
  /\ UNCHANGED <<conns, cluster, handled, settled>>

Next == Main \/ Reader \/ NextDelivers \/ NextFails \/ Expire \/ OthersPublish \/ ConsumerExpires \/ RunAgain

Spec == Init /\ [][Next]_vars

\* Goroutines are scheduled, requests are answered or time out, timers fire.  The
\* server need not deliver, even of a full queue, and the context need not expire.
FairSpec == Spec /\ WF_vars(Main) /\ WF_vars(Reader)

-----------------------------------------------------------------------------
\* The work queue loses nothing to the dispatcher: an event is acknowledged only
\* once its handler has run, terminated only when it is well-formed and has no
\* route, and a garbled one stays, however late its goroutine gets to it.
EventsLeaveSettled ==
  \A s \in settled : IF s[3] = "ack" THEN s[1] \in handled ELSE s[1][2] = "unrouted"

\* Q4 passes only if BatchSize events were read in this run, each handled or
\* refused; a garbled event, an early return or a failed read makes it fail.
PassMeansDispatched ==
  answers["q4"] => Cardinality({s[1] : s \in {x \in settled : x[2] = run}}) >= BatchSize

\* A run ends, whatever fails and even if nothing is ever delivered, and so does
\* its goroutine: Stop wakes it from a Next that has nothing to deliver.  ("none":
\* the program was run again.)
RunAndReaderEnd ==
  /\ pc = "start" ~> pc = "ended"
  /\ reader.at = "next" ~> reader.at \in {"ended", "none"}
=============================================================================
