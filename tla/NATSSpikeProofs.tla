--------------------------- MODULE NATSSpikeProofs ---------------------------
(***************************************************************************)
(* Theorems about NATSSpike for any number of runs and of connection       *)
(* attempts and for whatever others publish: types, what the work queue    *)
(* gives up, and what a pass of Q4 means.                                  *)
(***************************************************************************)
EXTENDS NATSSpike, FiniteSetTheorems, TLAPS

\* A connection is given up with its last attempt.
AttemptsLeft == tries < MaxTries

\* The goroutine reads only while it has rounds left, and dispatches what it read.
ReaderHasRounds ==
  /\ reader.at \in {"next", "dispatch"} => reader.left >= 1
  /\ reader.at = "dispatch" => reader.event \in Events

\* It starts with routing, and ConsumeAndDispatch waits for none but it.
BeforeReader == {"start", "connectA", "connectB", "subscribe", "observe", "sanity", "stream",
                 "publish1", "publish2", "consume"}

ReaderStarts ==
  /\ pc \in BeforeReader => reader.at = "none"
  /\ pc = "dispatching" => reader.at # "none"

\* The events this run has acknowledged or terminated.
Done == {s[1] : s \in {x \in settled : x[2] = run}}

NothingFromTheFuture == \A s \in settled : s[2] <= run

\* As long as no error is on the list every round has settled one event ...
RoundsCounted ==
  /\ IsFiniteSet(Done)
  /\ reader.at = "none" => Done = {}
  /\ ~failed /\ reader.at # "none" => Cardinality(Done) = BatchSize - reader.left

\* ... and another one each: what is delivered is not yet settled, because a
\* settled event whose acknowledgement got lost stays out as long as the iterator
\* may deliver.
DeliveredOnce ==
  /\ reader.at = "dispatch" => reader.event \notin Done
  /\ consumer = run /\ iter = "open" =>
       Done \cap queue \subseteq out /\ (reader.at = "dispatch" => reader.event \in out)

\* The inductive invariant.  PassMeansDispatched speaks of the answer, once it is
\* given; that the answer is right takes the whole history of the rounds before.
IInv ==
  /\ TypeOK /\ AttemptsLeft /\ ReaderHasRounds /\ ReaderStarts
  /\ EventsLeaveSettled /\ NothingFromTheFuture
  /\ RoundsCounted /\ DeliveredOnce /\ PassMeansDispatched

-----------------------------------------------------------------------------
\* What this run publishes are events.
LEMMA PublishedAreEvents ==
  ASSUME run \in 1..MaxRuns
  PROVE  <<run, "created">> \in Events /\ <<run, "deleted">> \in Events
BY DEF Events

\* An event is acknowledged exactly if its handler has run, and terminated only if
\* it has no route.
LEMMA SettlementIs ==
  ASSUME NEW e
  PROVE  /\ Settlement(e) \in {"ack", "term", "nak"}
         /\ Settlement(e) = "ack" => DispatchResult(e) = "OK"
         /\ Settlement(e) = "term" => e[2] = "unrouted"
<1>1. /\ DispatchResult(e) \in {"DecodeError", "UnknownType", "OK"}
      /\ DispatchResult(e) = "UnknownType" => e[2] = "unrouted"
  BY DEF DispatchResult
<1>2. QED
  BY <1>1 DEF Settlement

\* After a round the goroutine has one left less, and ends with the last.
LEMMA NextRoundIs ==
  ASSUME TypeOK, ReaderHasRounds, reader.at \in {"next", "dispatch"}
  PROVE  /\ NextRound \in [at : {"none", "next", "dispatch", "ended"}, left : 0..BatchSize,
                           event : Events \cup {NoEvent}]
         /\ NextRound.at \in {"next", "ended"}
         /\ NextRound.left = reader.left - 1
         /\ NextRound.at = "next" => NextRound.left >= 1
<1>1. reader.left \in 1..2
  BY DEF TypeOK, ReaderHasRounds, BatchSize
<1>2. QED
  BY <1>1 DEF NextRound, BatchSize

\* What the dispatch of e makes of the three sets.
LEMMA SettleIs ==
  ASSUME NEW e, Settle(e)
  PROVE  /\ queue' \subseteq queue /\ queue \ {e} \subseteq queue'
         /\ out' \subseteq out /\ out \ {e} \subseteq out'
         /\ e \in queue' /\ e \in out /\ Settlement(e) # "nak" => e \in out'
         /\ e \notin queue' => e \notin out'
         /\ settled' = IF Settlement(e) = "nak" THEN settled ELSE settled \cup {<<e, run, Settlement(e)>>}
BY DEF Settle

\* The initial state satisfies the invariant.
LEMMA InitInv == Init => IInv
<1> SUFFICES ASSUME Init PROVE IInv
  OBVIOUS
<1> USE DEF Init, IdleReader
<1>1. TypeOK
  <2>1. /\ run \in 1..MaxRuns /\ tries \in 0..MaxTries /\ consumer \in 0..MaxRuns
    BY BoundsArePositive
  <2>2. /\ pc \in Pcs /\ ctx \in {"live", "done"} /\ conns \subseteq {"a", "b", "c"}
        /\ queue \subseteq Events /\ out \subseteq queue /\ iter \in {"none", "open", "stopped"}
        /\ handled \subseteq Events /\ settled \subseteq Events \X (1..MaxRuns) \X {"ack", "term"}
    BY DEF Pcs
  <2>3. stream \in BOOLEAN /\ failed \in BOOLEAN /\ answers \in [Questions -> BOOLEAN]
    OBVIOUS
  <2>4. reader \in [at : {"none", "next", "dispatch", "ended"}, left : 0..BatchSize,
                    event : Events \cup {NoEvent}]
    BY DEF BatchSize
  <2>5. QED
    BY <2>1, <2>2, <2>3, <2>4 DEF TypeOK
<1>2. AttemptsLeft /\ ReaderHasRounds /\ ReaderStarts
  BY BoundsArePositive DEF AttemptsLeft, ReaderHasRounds, ReaderStarts, BeforeReader
<1>3. EventsLeaveSettled /\ NothingFromTheFuture
  BY DEF EventsLeaveSettled, NothingFromTheFuture
<1>4. Done = {}
  BY DEF Done
<1>5. RoundsCounted /\ DeliveredOnce /\ PassMeansDispatched
  BY <1>4, FS_EmptySet DEF RoundsCounted, DeliveredOnce, PassMeansDispatched, Questions
<1>6. QED
  BY <1>1, <1>2, <1>3, <1>5 DEF IInv

-----------------------------------------------------------------------------
(* Types.                                                                  *)

Typed == TypeOK /\ AttemptsLeft /\ ReaderHasRounds

\* An attempt that fails is the last one or leaves another.
LEMMA ConnectTyped ==
  ASSUME Typed, NEW c \in {"a", "b", "c"}, NEW next \in Pcs, NEW fail \in Pcs,
         Connect(c, next, fail)
  PROVE  /\ pc' \in Pcs /\ tries' \in 0..MaxTries /\ tries' < MaxTries
         /\ conns' \subseteq {"a", "b", "c"}
<1>1. /\ MaxTries \in Nat \ {0} /\ tries \in 0..MaxTries /\ tries < MaxTries
      /\ pc \in Pcs /\ conns \subseteq {"a", "b", "c"}
  BY BoundsArePositive DEF Typed, TypeOK, AttemptsLeft
<1>2. /\ tries' = 0 \/ (tries' = tries + 1 /\ tries + 1 # MaxTries)
      /\ conns' = conns \/ conns' = conns \cup {c}
      /\ pc' \in {pc, next, fail}
  BY DEF Connect, Goto
<1>3. tries' \in 0..MaxTries /\ tries' < MaxTries
  BY <1>1, <1>2
<1>4. QED
  BY <1>1, <1>2, <1>3

\* Every step of Run keeps the types.
LEMMA MainTyped ==
  ASSUME Typed, Main
  PROVE  Typed'
<1> USE DEF Typed, TypeOK, AttemptsLeft, ReaderHasRounds, MainOnly, ReaderOnly, Goto, cluster, history
<1>1. CASE ConnectA
  <2>1. Connect("a", "connectB", "drain")
    BY <1>1 DEF ConnectA
  <2>2. /\ pc' \in Pcs /\ tries' \in 0..MaxTries /\ tries' < MaxTries
        /\ conns' \subseteq {"a", "b", "c"}
    BY <2>1, ConnectTyped DEF Pcs
  <2>3. QED
    BY <1>1, <2>2 DEF ConnectA
<1>2. CASE ConnectB
  <2>1. Connect("b", "subscribe", "drain")
    BY <1>2 DEF ConnectB
  <2>2. /\ pc' \in Pcs /\ tries' \in 0..MaxTries /\ tries' < MaxTries
        /\ conns' \subseteq {"a", "b", "c"}
    BY <2>1, ConnectTyped DEF Pcs
  <2>3. QED
    BY <1>2, <2>2 DEF ConnectB
<1>3. CASE SubscribeAndSpy \/ Observe \/ SanityCheck
  BY <1>3 DEF SubscribeAndSpy, Observe, SanityCheck, Answer, Pcs, Questions
<1>4. CASE CreateStream
  BY <1>4 DEF CreateStream, Pcs
<1>5. CASE Publish
  <2>1. PICK e \in Events, next \in Pcs :
          /\ queue' \in {queue, queue \cup {e}} /\ pc' \in {next, "deleteStream"}
          /\ UNCHANGED <<tries, conns, answers, stream, consumer, out>>
          /\ MainOnly
    BY <1>5, PublishedAreEvents DEF Publish, PublishEvent, Put, Pcs
  <2>2. pc' \in Pcs /\ queue' \subseteq Events /\ out' \subseteq queue'
    BY <2>1 DEF Pcs
  <2>3. QED
    BY <2>1, <2>2
<1>6. CASE StartConsuming
  <2>1. /\ pc' \in Pcs /\ consumer' \in 0..MaxRuns
        /\ iter' \in {"none", "open", "stopped"}
    BY <1>6 DEF StartConsuming, Pcs
  <2>2. \/ UNCHANGED reader
        \/ reader' = [at |-> "next", left |-> 2, event |-> NoEvent]
    BY <1>6 DEF StartConsuming, BatchSize
  <2>3. /\ reader' \in [at : {"none", "next", "dispatch", "ended"}, left : 0..BatchSize,
                        event : Events \cup {NoEvent}]
        /\ reader'.at \in {"next", "dispatch"} => reader'.left >= 1
        /\ reader'.at = "dispatch" => reader'.event \in Events
    BY <2>2 DEF BatchSize
  <2>4. QED
    BY <1>6, <2>1, <2>3 DEF StartConsuming
<1>7. CASE AllDispatched \/ TimeOut \/ Cancelled
  BY <1>7 DEF AllDispatched, TimeOut, Cancelled, Collect, Answer, Pcs, Questions
<1>8. CASE StopIterator \/ DeleteStream
  <2>1. /\ pc' \in Pcs /\ iter' \in {"none", "open", "stopped"}
        /\ UNCHANGED <<run, ctx, tries, conns, reader, failed, answers, handled, settled>>
    BY <1>8 DEF StopIterator, DeleteStream, Pcs
  <2>2. /\ stream' \in BOOLEAN /\ consumer' \in 0..MaxRuns
        /\ queue' \subseteq Events /\ out' \subseteq queue'
    <3>1. \/ UNCHANGED <<stream, consumer, queue, out>>
          \/ stream' = FALSE /\ consumer' = 0 /\ queue' = {} /\ out' = {}
      BY <1>8 DEF StopIterator, DeleteStream
    <3>2. 0 \in 0..MaxRuns
      BY BoundsArePositive
    <3>3. QED
      BY <3>1, <3>2
  <2>3. QED
    BY <2>1, <2>2
<1>9. CASE Benchmark \/ ConnectC \/ TryAccounts \/ ReloadConfig \/ PrintResults \/ Drain
  BY <1>9 DEF Benchmark, ConnectC, TryAccounts, ReloadConfig, PrintResults, Drain, Answer, Pcs, Questions
<1>10. QED
  BY <1>1, <1>2, <1>3, <1>4, <1>5, <1>6, <1>7, <1>8, <1>9 DEF Main

\* And so does every other one.
LEMMA StepTyped ==
  ASSUME Typed, [Next]_vars
  PROVE  Typed'
<1> USE DEF Typed, TypeOK, AttemptsLeft, ReaderHasRounds, ReaderOnly, cluster, program, history
<1>1. CASE Main
  BY <1>1, MainTyped
<1>2. CASE NextDelivers
  <2>1. PICK e \in queue \ out :
          out' = out \cup {e} /\ reader' = [reader EXCEPT !.at = "dispatch", !.event = e]
    BY <1>2 DEF NextDelivers
  <2>2. e \in Events /\ reader.left >= 1
    BY <2>1, <1>2 DEF NextDelivers
  <2>3. /\ reader' \in [at : {"none", "next", "dispatch", "ended"}, left : 0..BatchSize,
                        event : Events \cup {NoEvent}]
        /\ reader'.left >= 1 /\ reader'.event \in Events
        /\ out' \subseteq queue
    BY <2>1, <2>2
  <2>4. QED
    BY <1>2, <2>3 DEF NextDelivers
<1>3. CASE NextErrors
  BY <1>3, NextRoundIs DEF NextErrors
<1>4. CASE Dispatch
  <2>1. PICK e \in Events :
          /\ handled' \in {handled, handled \cup {e}}
          /\ failed' \in BOOLEAN
          /\ Settle(e)
    BY <1>4 DEF Dispatch
  <2>2. queue' \subseteq queue /\ out' \subseteq queue'
    BY <2>1, SettleIs
  <2>3. settled' \subseteq Events \X (1..MaxRuns) \X {"ack", "term"}
    BY <2>1, SettleIs, SettlementIs
  <2>4. NextRound \in [at : {"none", "next", "dispatch", "ended"}, left : 0..BatchSize,
                       event : Events \cup {NoEvent}]
    BY <1>4, NextRoundIs DEF Dispatch
  <2>5. /\ reader'.at \in {"next", "dispatch"} => reader'.left >= 1
        /\ reader'.at # "dispatch"
    BY <1>4, NextRoundIs DEF Dispatch
  <2>6. handled' \subseteq Events /\ queue' \subseteq Events
    BY <2>1, <2>2
  <2>7. QED
    BY <1>4, <2>1, <2>2, <2>3, <2>4, <2>5, <2>6 DEF Dispatch
<1>5. CASE Expire
  BY <1>5 DEF Expire
<1>6. CASE OthersPublish
  <2>1. PICK k \in Foreign : queue' = queue \cup {<<0, k>>}
    BY <1>6 DEF OthersPublish, Put
  <2>2. <<0, k>> \in Events
    BY DEF Events
  <2>3. QED
    BY <1>6, <2>1, <2>2 DEF OthersPublish
<1>7. CASE ConsumerExpires
  BY <1>7, BoundsArePositive DEF ConsumerExpires
<1>8. CASE RunAgain
  <2>1. run' \in 1..MaxRuns /\ tries' \in 0..MaxTries /\ tries' < MaxTries
    BY <1>8, BoundsArePositive DEF RunAgain
  <2>2. /\ pc' \in Pcs /\ ctx' \in {"live", "done"} /\ iter' \in {"none", "open", "stopped"}
        /\ UNCHANGED <<conns, cluster, handled, settled>>
    BY <1>8 DEF RunAgain, Pcs
  <2>3. failed' \in BOOLEAN /\ answers' \in [Questions -> BOOLEAN]
    BY <1>8 DEF RunAgain
  <2>4. /\ reader' \in [at : {"none", "next", "dispatch", "ended"}, left : 0..BatchSize,
                        event : Events \cup {NoEvent}]
        /\ reader'.at = "none"
    BY <1>8 DEF RunAgain, IdleReader, BatchSize
  <2>5. QED
    BY <2>1, <2>2, <2>3, <2>4
<1>9. CASE UNCHANGED vars
  BY <1>9 DEF vars
<1>10. QED
  BY <1>1, <1>2, <1>3, <1>4, <1>5, <1>6, <1>7, <1>8, <1>9 DEF Next, Reader, NextStopped, NextFails

-----------------------------------------------------------------------------
(* What leaves the queue.                                                  *)

\* The steps that neither consume nor begin a run leave the goroutine, the history
\* and the answer of Q4 alone, and do not lead back before routing.
LEMMA OtherSteps ==
  ASSUME Typed, [Next]_vars
  PROVE  \/ StartConsuming \/ Collect(TRUE) \/ AllDispatched \/ RunAgain
         \/ NextDelivers \/ NextErrors \/ Dispatch
         \/ /\ UNCHANGED <<run, reader, failed, handled, settled>> /\ answers'["q4"] = answers["q4"]
            /\ pc' \in BeforeReader => pc \in BeforeReader
            /\ pc' = "dispatching" => pc = "dispatching"
<1> DEFINE Other == /\ UNCHANGED <<run, reader, failed, handled, settled>> /\ answers'["q4"] = answers["q4"]
                    /\ pc' \in BeforeReader => pc \in BeforeReader
                    /\ pc' = "dispatching" => pc = "dispatching"
<1>1. ConnectA \/ ConnectB => Other
  BY DEF ConnectA, ConnectB, Connect, Goto, MainOnly, BeforeReader
<1>2. SubscribeAndSpy \/ Observe \/ SanityCheck => Other
  BY DEF Typed, TypeOK, Questions, SubscribeAndSpy, Observe, SanityCheck, Answer, Goto, MainOnly, BeforeReader
<1>3. CreateStream \/ Publish => Other
  BY DEF CreateStream, Publish, PublishEvent, Goto, MainOnly, BeforeReader
<1>4. StopIterator \/ DeleteStream => Other
  BY DEF StopIterator, DeleteStream, Goto, MainOnly, history, BeforeReader
<1>5. Benchmark \/ ConnectC \/ TryAccounts \/ ReloadConfig \/ PrintResults \/ Drain => Other
  BY DEF Typed, TypeOK, Questions, Benchmark, ConnectC, TryAccounts, ReloadConfig, PrintResults, Drain,
     Answer, Goto, MainOnly, BeforeReader
<1>6. Expire \/ OthersPublish \/ ConsumerExpires => Other
  BY DEF Expire, OthersPublish, ConsumerExpires, program, history
<1>7. UNCHANGED vars => Other
  BY DEF vars, program, history
<1>8. QED
  BY <1>1, <1>2, <1>3, <1>4, <1>5, <1>6, <1>7
     DEF Next, Main, Reader, NextStopped, NextFails, TimeOut, Cancelled

\* Routing starts the goroutine, and returns only after that.
LEMMA StartsStep ==
  ASSUME Typed, ReaderStarts, [Next]_vars
  PROVE  ReaderStarts'
<1> USE DEF ReaderStarts, BeforeReader
<1>1. ASSUME StartConsuming PROVE ReaderStarts'
  BY <1>1 DEF StartConsuming, Goto
<1>2. ASSUME Collect(TRUE) \/ AllDispatched PROVE ReaderStarts'
  BY <1>2 DEF AllDispatched, Collect, Goto
<1>3. ASSUME RunAgain PROVE ReaderStarts'
  BY <1>3 DEF RunAgain, IdleReader
<1>4. ASSUME NextDelivers \/ NextErrors \/ Dispatch PROVE ReaderStarts'
  <2>1. /\ pc' = pc /\ pc \notin BeforeReader
        /\ reader'.at # "none"
    BY <1>4, NextRoundIs DEF Typed, TypeOK, NextDelivers, NextErrors, Dispatch, ReaderOnly
  <2>2. QED
    BY <2>1
<1>5. QED
  BY <1>1, <1>2, <1>3, <1>4, OtherSteps

\* What is settled is settled for good, and of the run that does it.
LEMMA SettledStep ==
  ASSUME Typed, EventsLeaveSettled, NothingFromTheFuture, [Next]_vars
  PROVE  EventsLeaveSettled' /\ NothingFromTheFuture'
<1> USE DEF EventsLeaveSettled, NothingFromTheFuture
<1>1. ASSUME UNCHANGED <<handled, settled>>, run' >= run
      PROVE  EventsLeaveSettled' /\ NothingFromTheFuture'
  <2>1. run \in Nat /\ \A s \in settled : s[2] \in Nat
    BY BoundsArePositive DEF Typed, TypeOK
  <2>2. run' \in Nat
    BY <2>1, StepTyped, BoundsArePositive DEF Typed, TypeOK
  <2>3. QED
    BY <1>1, <2>1, <2>2
<1>2. ASSUME Dispatch
      PROVE  EventsLeaveSettled' /\ NothingFromTheFuture'
  <2> DEFINE e == reader.event
  <2>1. /\ handled' = IF DispatchResult(e) = "OK" THEN handled \cup {e} ELSE handled
        /\ settled' = IF Settlement(e) = "nak" THEN settled ELSE settled \cup {<<e, run, Settlement(e)>>}
        /\ run' = run
    BY <1>2, SettleIs DEF Dispatch, ReaderOnly
  <2>2. run <= run
    BY BoundsArePositive DEF Typed, TypeOK
  <2>3. QED
    BY <2>1, <2>2, SettlementIs
<1>3. StartConsuming \/ Collect(TRUE) \/ AllDispatched \/ NextDelivers \/ NextErrors => UNCHANGED <<run, handled, settled>>
  BY DEF StartConsuming, AllDispatched, Collect, NextDelivers, NextErrors, ReaderOnly, history
<1>4. RunAgain => run' = run + 1 /\ UNCHANGED <<handled, settled>>
  BY DEF RunAgain
<1>5. run <= run /\ run <= run + 1
  BY BoundsArePositive DEF Typed, TypeOK
<1>6. QED
  BY <1>1, <1>2, <1>3, <1>4, <1>5, OtherSteps

-----------------------------------------------------------------------------
(* What a pass means.                                                      *)

\* What this run has settled depends on nothing else.
LEMMA DoneSame == ASSUME UNCHANGED <<run, settled>> PROVE Done' = Done
BY DEF Done

\* A dispatch adds its event, unless it gives it back.
LEMMA DoneGrows ==
  ASSUME Dispatch
  PROVE  Done' = IF Settlement(reader.event) = "nak" THEN Done ELSE Done \cup {reader.event}
<1> DEFINE e == reader.event
           t == <<e, run, Settlement(e)>>
<1>1. /\ settled' = IF Settlement(e) = "nak" THEN settled ELSE settled \cup {t}
      /\ run' = run
  BY SettleIs DEF Dispatch, ReaderOnly
<1>2. t[1] = e /\ t[2] = run
  OBVIOUS
<1> HIDE DEF t
<1>3. QED
  BY <1>1, <1>2 DEF Done

\* A new run has settled nothing.
LEMMA DoneAnew ==
  ASSUME Typed, NothingFromTheFuture, RunAgain
  PROVE  Done' = {}
<1>1. /\ run \in Nat /\ run' = run + 1 /\ settled' = settled
      /\ \A s \in settled : s[2] \in Nat /\ s[2] <= run
  BY BoundsArePositive DEF Typed, TypeOK, NothingFromTheFuture, RunAgain
<1>2. \A s \in settled : s[2] # run + 1
  BY <1>1
<1>3. QED
  BY <1>1, <1>2 DEF Done

\* One round, one event: the rounds that are over are the events that are done.
LEMMA RoundsStep ==
  ASSUME Typed, ReaderStarts, NothingFromTheFuture, RoundsCounted, DeliveredOnce, [Next]_vars
  PROVE  RoundsCounted'
<1> USE DEF RoundsCounted
<1>1. CASE StartConsuming
  <2>1. UNCHANGED <<run, failed, settled>> /\ reader.at = "none"
    BY <1>1 DEF StartConsuming, history, ReaderStarts, BeforeReader
  <2>2. Done = {} /\ Done' = {}
    BY <2>1, DoneSame
  <2>3. UNCHANGED reader \/ reader'.left = BatchSize
    BY <1>1 DEF StartConsuming
  <2>4. QED
    BY <2>1, <2>2, <2>3, FS_EmptySet DEF BatchSize
<1>2. CASE Collect(TRUE) \/ AllDispatched
  <2>1. UNCHANGED <<run, reader, settled>> /\ (failed => failed')
    BY <1>2 DEF AllDispatched, Collect, history
  <2>2. QED
    BY <2>1, DoneSame
<1>3. CASE RunAgain
  BY <1>3, DoneAnew, FS_EmptySet DEF RunAgain, IdleReader
<1>4. CASE NextDelivers
  <2>1. /\ UNCHANGED <<run, failed, settled>>
        /\ reader.at = "next" /\ reader'.at = "dispatch" /\ reader'.left = reader.left
    BY <1>4 DEF NextDelivers, ReaderOnly, history, Typed, TypeOK
  <2>2. QED
    BY <2>1, DoneSame
<1>5. CASE NextErrors
  <2>1. UNCHANGED <<run, settled>> /\ failed' /\ reader'.at # "none"
    BY <1>5, NextRoundIs DEF NextErrors, ReaderOnly, history, Typed
  <2>2. QED
    BY <2>1, DoneSame
<1>6. CASE Dispatch
  <2> DEFINE e == reader.event
  <2>1. /\ reader.at = "dispatch" /\ e \notin Done
        /\ reader'.at # "none" /\ reader'.left = reader.left - 1
        /\ ~failed' => ~failed /\ Settlement(e) # "nak"
    BY <1>6, NextRoundIs DEF Dispatch, DeliveredOnce, Typed
  <2>2. IsFiniteSet(Done')
    BY <1>6, DoneGrows, FS_AddElement
  <2>3. ASSUME ~failed'
        PROVE  Cardinality(Done') = BatchSize - reader'.left
    <3>1. Done' = Done \cup {e} /\ Cardinality(Done) = BatchSize - reader.left
      BY <1>6, <2>1, <2>3, DoneGrows
    <3>2. Cardinality(Done') = Cardinality(Done) + 1
      BY <2>1, <3>1, FS_AddElement
    <3>3. reader.left \in 0..2
      BY DEF Typed, TypeOK, BatchSize
    <3>4. QED
      BY <2>1, <3>1, <3>2, <3>3 DEF BatchSize
  <2>4. QED
    BY <2>1, <2>2, <2>3
<1>7. CASE UNCHANGED <<run, reader, failed, settled>>
  BY <1>7, DoneSame
<1>8. QED
  BY <1>1, <1>2, <1>3, <1>4, <1>5, <1>6, <1>7, OtherSteps

\* What is delivered is new to the run: what it has settled is out or off the queue.
LEMMA DeliveredStep ==
  ASSUME Typed, ReaderStarts, NothingFromTheFuture, RoundsCounted, DeliveredOnce, [Next]_vars
  PROVE  DeliveredOnce'
<1> USE DEF DeliveredOnce
<1>1. run \in 1..MaxRuns /\ 0 # run
  BY BoundsArePositive DEF Typed, TypeOK
<1>2. pc \in BeforeReader => reader.at = "none" /\ Done = {}
  BY DEF ReaderStarts, RoundsCounted
<1>3. ASSUME UNCHANGED <<run, reader, settled>>,
             consumer' = run /\ iter' = "open" =>
               consumer = run /\ iter = "open" /\ out' = out /\ queue' \cap Done \subseteq queue
      PROVE  DeliveredOnce'
  BY <1>3, DoneSame
<1>4. ASSUME UNCHANGED <<run, settled>>, pc \in BeforeReader, reader'.at # "dispatch"
      PROVE  DeliveredOnce'
  BY <1>2, <1>4, DoneSame
<1>5. CASE StartConsuming
  BY <1>2, <1>4, <1>5 DEF StartConsuming, BeforeReader, history
<1>6. CASE Publish
  <2>1. pc \in BeforeReader /\ UNCHANGED <<run, settled, reader>>
    BY <1>6 DEF Publish, PublishEvent, BeforeReader, MainOnly
  <2>2. QED
    BY <1>2, <1>4, <2>1
<1>7. CASE StopIterator \/ DeleteStream
  BY <1>1, <1>3, <1>7 DEF StopIterator, DeleteStream, MainOnly, cluster, history
<1>8. CASE Collect(TRUE) \/ AllDispatched
  BY <1>3, <1>8 DEF AllDispatched, Collect, cluster, history
<1>9. CASE CreateStream
  BY <1>3, <1>9 DEF CreateStream, MainOnly
<1>10. CASE ConnectA \/ ConnectB \/ SubscribeAndSpy \/ Observe \/ SanityCheck
  BY <1>3, <1>10 DEF ConnectA, ConnectB, SubscribeAndSpy, Observe, SanityCheck, MainOnly, cluster
<1>11. CASE Benchmark \/ ConnectC \/ TryAccounts \/ ReloadConfig \/ PrintResults \/ Drain
  BY <1>3, <1>11 DEF Benchmark, ConnectC, TryAccounts, ReloadConfig, PrintResults, Drain, MainOnly, cluster
<1>12. CASE Expire \/ UNCHANGED vars
  BY <1>3, <1>12 DEF Expire, vars, program, cluster, history
<1>13. CASE OthersPublish
  <2>1. PICK k \in Foreign : <<0, k>> \notin {s[1] : s \in settled} /\ queue' = queue \cup {<<0, k>>}
    BY <1>13 DEF OthersPublish, Put
  <2>2. <<0, k>> \notin Done
    BY <2>1 DEF Done
  <2>3. QED
    BY <1>3, <1>13, <2>1, <2>2 DEF OthersPublish, program, history
<1>14. CASE ConsumerExpires
  BY <1>1, <1>3, <1>14 DEF ConsumerExpires, program, history
<1>15. CASE RunAgain
  BY <1>15, DoneAnew DEF RunAgain, IdleReader
<1>16. CASE NextDelivers
  <2>1. PICK e \in queue \ out :
          out' = out \cup {e} /\ reader'.event = e /\ UNCHANGED <<run, settled, queue, consumer>>
    BY <1>16 DEF NextDelivers, ReaderOnly, history, Typed, TypeOK
  <2>2. e \notin Done /\ Done' = Done
    BY <1>16, <2>1, DoneSame DEF NextDelivers
  <2>3. consumer = run /\ iter = "open"
    BY <1>16 DEF NextDelivers
  <2>4. QED
    BY <2>1, <2>2, <2>3
<1>17. CASE NextErrors
  <2>1. UNCHANGED <<run, settled, queue, out, consumer, iter>> /\ reader'.at # "dispatch"
    BY <1>17, NextRoundIs DEF NextErrors, ReaderOnly, cluster, history, Typed
  <2>2. QED
    BY <2>1, DoneSame
<1>18. CASE Dispatch
  <2> DEFINE e == reader.event
  <2>1. /\ UNCHANGED <<run, consumer, iter>> /\ reader.at = "dispatch" /\ reader'.at # "dispatch"
        /\ e \notin Done
    BY <1>18, NextRoundIs DEF Dispatch, ReaderOnly, Typed
  <2>2. SUFFICES ASSUME consumer = run, iter = "open"
                 PROVE  Done' \cap queue' \subseteq out'
    BY <2>1
  <2>3. e \in out /\ Done \cap queue \subseteq out
    BY <2>1, <2>2
  <2>4. /\ queue' \subseteq queue /\ out \ {e} \subseteq out'
        /\ e \in queue' /\ e \in out /\ Settlement(e) # "nak" => e \in out'
    BY <1>18, SettleIs DEF Dispatch
  <2>5. QED
    BY <1>18, <2>1, <2>3, <2>4, DoneGrows
<1>19. QED
  BY <1>5, <1>6, <1>7, <1>8, <1>9, <1>10, <1>11, <1>12, <1>13, <1>14, <1>15, <1>16, <1>17, <1>18
     DEF Next, Main, Reader, NextStopped, NextFails, TimeOut, Cancelled

\* A pass is given once all rounds have settled, and what is settled stays so.
LEMMA PassStep ==
  ASSUME Typed, ReaderStarts, RoundsCounted, RoundsCounted', PassMeansDispatched, [Next]_vars
  PROVE  PassMeansDispatched'
<1>1. PassMeansDispatched <=> (answers["q4"] => Cardinality(Done) >= BatchSize)
  BY DEF PassMeansDispatched, Done
<1>2. PassMeansDispatched' <=> (answers'["q4"] => Cardinality(Done') >= BatchSize)
  BY DEF PassMeansDispatched, Done
<1>3. ASSUME answers'["q4"] = answers["q4"], UNCHANGED <<run, settled>>
      PROVE  PassMeansDispatched'
  BY <1>1, <1>2, <1>3, DoneSame
<1>4. CASE AllDispatched \/ Collect(TRUE)
  <2>1. /\ pc = "dispatching" /\ UNCHANGED <<run, settled>>
        /\ answers'["q4"] => ~failed /\ reader.left = 0
    BY <1>4 DEF AllDispatched, Collect, Answer, history, Typed, TypeOK, Questions
  <2>2. ASSUME answers'["q4"] PROVE Cardinality(Done) = BatchSize
    BY <2>1, <2>2 DEF RoundsCounted, ReaderStarts, BatchSize
  <2>3. QED
    BY <1>2, <2>1, <2>2, DoneSame DEF BatchSize
<1>5. CASE RunAgain
  BY <1>2, <1>5 DEF RunAgain, Questions
<1>6. CASE Dispatch
  <2>1. UNCHANGED answers
    BY <1>6 DEF Dispatch, ReaderOnly
  <2>2. Done \in SUBSET Done'
    BY <1>6, DoneGrows
  <2>3. /\ IsFiniteSet(Done) /\ IsFiniteSet(Done')
        /\ Cardinality(Done) <= Cardinality(Done')
        /\ Cardinality(Done) \in Nat /\ Cardinality(Done') \in Nat
    BY <2>2, FS_Subset, FS_CardinalityType DEF RoundsCounted
  <2>4. QED
    BY <1>1, <1>2, <2>1, <2>3 DEF BatchSize
<1>7. CASE StartConsuming \/ NextDelivers \/ NextErrors
  BY <1>3, <1>7 DEF StartConsuming, NextDelivers, NextErrors, ReaderOnly, history
<1>8. QED
  BY <1>3, <1>4, <1>5, <1>6, <1>7, OtherSteps

\* Every behaviour keeps the invariant.
LEMMA Invariance == Spec => []IInv
<1>1. IInv /\ [Next]_vars => IInv'
  <2> SUFFICES ASSUME IInv, [Next]_vars PROVE IInv'
    OBVIOUS
  <2>1. Typed /\ Typed'
    BY StepTyped DEF IInv, Typed
  <2>2. RoundsCounted'
    BY <2>1, RoundsStep DEF IInv
  <2>3. QED
    BY <2>1, <2>2, StartsStep, SettledStep, DeliveredStep, PassStep DEF IInv, Typed
<1>2. QED
  BY InitInv, <1>1, PTL DEF Spec

-----------------------------------------------------------------------------
\* Every variable keeps its type: what is out is on the queue, and no more rounds
\* are counted down than ConsumeAndDispatch has added to its wait group.
THEOREM TypeCorrect == Spec => []TypeOK
<1>1. IInv => TypeOK
  BY DEF IInv
<1>2. QED
  BY Invariance, <1>1, PTL

\* The work queue gives up an event to the dispatcher only when its handler has
\* run or there is none for it, in whatever run, before or after a timeout, and
\* with whatever answers lost.
THEOREM NothingLost == Spec => []EventsLeaveSettled
<1>1. IInv => EventsLeaveSettled
  BY DEF IInv
<1>2. QED
  BY Invariance, <1>1, PTL

\* Q4 passes only in a run that has settled BatchSize events, no two the same:
\* none is counted twice because its acknowledgement was lost, none is the work
\* of an earlier run, and the goroutine of a call that timed out does not help.
THEOREM PassIsEarned == Spec => []PassMeansDispatched
<1>1. IInv => PassMeansDispatched
  BY DEF IInv
<1>2. QED
  BY Invariance, <1>1, PTL
=============================================================================
