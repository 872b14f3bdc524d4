------------------------ MODULE IsolationSpikeProofs ------------------------
(***************************************************************************)
(* Theorems about IsolationSpike for any number of samples, any thresholds *)
(* and measurements, and any number of API-server pods: types, what the    *)
(* exit code and each verdict may be trusted with.                         *)
(***************************************************************************)
EXTENDS IsolationSpike, FiniteSetTheorems, SequenceTheorems, TLAPS

SpeedSample    == [err : BOOLEAN, nats : Durations \cup {0}]
OverheadSample == [Tenants -> Loads \cup {0}]

\* The samples are those of the test under way.
SamplesFit ==
  /\ pc \in {"nats", "nats ready"} => samples \in Seq(SpeedSample)
  /\ pc \in {"pause", "top"}       => samples \in Seq(OverheadSample)

\* The steps of main before the tests.
BeforeTests == {"tools"} \cup CreateSteps

NothingJudgedYet == pc \in BeforeTests => results = <<>> /\ late = {}

\* The test under way.
Current == Len(results) + 1

\* A test that began late began with its first command, and is still there: it
\* gets no further than, in Test 4, the first sample.
LateStaysAtItsStart ==
  /\ late \subseteq 1..Current
  /\ late # {} => expired
  /\ Current \in late /\ pc \in TestSteps =>
       pc = allTests[Current] \/ (Current = 4 /\ pc = "top")

\* What a command has reached is, except between the two probes of Test 1, in a
\* verdict, or is a name that isDNSBlocked takes for unresolved.
Overlooked   == {<<"dns", Signals>>}
ReachIsNoted == saw \subseteq Overlooked \/ ~AllPassed \/ (pc = "dns" /\ ~blocked)

ExitCodeFits == code = 0 => AllPassed

\* Test 6 has found a pod there was, and once that is deleted there is none or a
\* later one.
FoundIsGone ==
  /\ pc \in {"kill", "recovery"} => victim <= births["a"]
  /\ pc = "recovery" /\ api["a"] # "none" => victim < births["a"]

Typed == TypeOK /\ SamplesFit

\* The inductive invariant, to which NothingPassesLate is added where it holds.
\* The properties speak of the exit code, of verdicts and of one step; each needs
\* what is true in the middle of a test.
IInv ==
  /\ Typed /\ NothingJudgedYet /\ LateStaysAtItsStart
  /\ ReachIsNoted /\ ExitCodeFits /\ FoundIsGone

-----------------------------------------------------------------------------
\* The steps that take samples.
Sampling == {"nats", "nats ready", "pause", "top"}

\* There are six tests.
LEMMA TestCount == Len(allTests) = 6 /\ DOMAIN allTests = 1..6
BY DEF allTests

\* These are the commands they begin with.
LEMMA AllTestsIs ==
  /\ allTests[1] = "echo" /\ allTests[2] = "nats" /\ allTests[3] = "config map"
  /\ allTests[4] = "settle" /\ allTests[5] = "cilium" /\ allTests[6] = "find"
BY DEF allTests

\* Where a command that only has to succeed leads.
LEMMA SetupIs ==
  ASSUME NEW s \in DOMAIN Setup
  PROVE  /\ Setup[s][1] \in Places
         /\ Setup[s][2] \in {"echo ready", "echo IP", "netprobe", "netprobe ready", "direct",
                             "delete attempt", "cilium-probe ready", "target IP"}
         /\ s \in {"echo", "echo ready", "echo IP", "netprobe", "netprobe ready",
                   "config map", "cilium-probe", "cilium-probe ready"}
BY DEF Setup, Places, Tenants

\* The test steps one by one.
LEMMA TestStepsAre ==
  TestSteps = {"echo", "echo ready", "echo IP", "netprobe", "netprobe ready",
               "config map", "cilium-probe", "cilium-probe ready",
               "direct", "dns", "nats", "nats ready", "delete attempt", "settle",
               "pause", "top", "cilium", "target IP", "nc", "find", "kill", "recovery"}
BY DEF TestSteps, Setup

\* The initial states satisfy the invariant.
LEMMA InitInv == Init => IInv
<1> SUFFICES ASSUME Init PROVE IInv
  OBVIOUS
<1> USE DEF Init
<1>1. TypeOK
  <2>1. /\ pc \in {"tools"} /\ tenant \in Tenants /\ elapsed \in {0}
        /\ expired \in BOOLEAN /\ timeUp \in BOOLEAN /\ blocked \in BOOLEAN
    BY DEF Tenants
  <2>2. samples = <<>> /\ samples \in Seq([err : BOOLEAN, nats : Durations \cup {0}])
    OBVIOUS
  <2>3. /\ target \in {"none"} /\ victim \in 0..MaxBirths
        /\ results \in Seq(Verdicts) /\ Len(results) <= Len(allTests)
    <3>1. results \in Seq(Verdicts) /\ Len(results) = 0
      OBVIOUS
    <3>2. 0 \in 0..MaxBirths
      BY FlagsAreSane
    <3>3. QED
      BY <3>1, <3>2, TestCount
  <2>4. code \in {NoCode} /\ pc \notin TestSteps /\ pc # "exited"
    BY TestStepsAre
  <2>5. /\ api \in [Tenants -> {"none", "starting", "ready"}]
        /\ births \in [Tenants -> 0..MaxBirths]
        /\ files \in [Tenants -> {"none", "empty", "good"}]
    BY FlagsAreSane
  <2>6. saw \subseteq open \X SUBSET Signals /\ open \subseteq Routes /\ late \subseteq 1..Len(allTests)
    OBVIOUS
  <2>7. QED
    BY <2>1, <2>2, <2>3, <2>4, <2>5, <2>6 DEF TypeOK
<1>2. SamplesFit /\ NothingJudgedYet
  BY DEF SamplesFit, NothingJudgedYet
<1>3. LateStaysAtItsStart
  BY DEF LateStaysAtItsStart
<1>4. ReachIsNoted /\ ExitCodeFits /\ FoundIsGone
  BY DEF ReachIsNoted, ExitCodeFits, FoundIsGone, NoCode
<1>5. QED
  BY <1>1, <1>2, <1>3, <1>4 DEF IInv, Typed

-----------------------------------------------------------------------------
(* Types.                                                                  *)

\* A verdict brings the runner to the next test, with nothing left of this one.
LEMMA FinishTyped ==
  ASSUME Typed, pc \in TestSteps, NEW v \in Verdicts, Finish(v),
         UNCHANGED <<births, open, files>>, saw' \subseteq open \X SUBSET Signals,
         api' \in [Tenants -> {"none", "starting", "ready"}]
  PROVE  Typed'
<1> DEFINE next == Len(results) + 2
<1>1. /\ results' = Append(results, v) /\ results \in Seq(Verdicts) /\ Len(results) \in Nat /\ Len(results) <= 5
  <2>1. /\ results \in Seq(Verdicts) /\ Len(results) < Len(allTests)
    BY DEF Typed, TypeOK
  <2>2. /\ results' = Append(results, v)
        /\ Len(results) \in Nat /\ Len(results) < 6
    BY <2>1, TestCount DEF Finish
  <2>3. QED
    BY <2>1, <2>2
<1>2. results' \in Seq(Verdicts) /\ Len(results') = Len(results) + 1
  BY <1>1
<1>3. /\ pc' = IF next \in DOMAIN allTests THEN allTests[next] ELSE "report"
      /\ late' = IF expired /\ next \in DOMAIN allTests THEN late \cup {next} ELSE late
      /\ samples' = <<>> /\ target' = "none" /\ victim' = 0 /\ blocked' = FALSE
      /\ UNCHANGED <<tenant, elapsed, timeUp, expired, code>>
  BY DEF Finish
<1>4. /\ pc' \in {"nats", "config map", "settle", "cilium", "find", "report"}
      /\ pc' # "report" => Len(results') < Len(allTests)
      /\ Len(results') <= Len(allTests)
  <2>1. CASE next \in DOMAIN allTests
    <3>1. next \in 2..6 /\ pc' = allTests[next]
      BY <2>1, <1>1, <1>3, TestCount
    <3>2. pc' \in {"nats", "config map", "settle", "cilium", "find"}
      <4>1. next = 2 \/ next = 3 \/ next = 4 \/ next = 5 \/ next = 6
        BY <3>1, <1>1
      <4> HIDE DEF next
      <4>2. QED
        BY <3>1, <4>1, AllTestsIs
    <3>3. Len(results) <= 4
      BY <2>1, <1>1, TestCount
    <3>4. Len(results') < Len(allTests)
      BY <3>3, <1>1, <1>2, TestCount
    <3>5. Len(results') <= Len(allTests)
      BY <3>3, <1>1, <1>2, TestCount
    <3>6. QED
      BY <3>2, <3>4, <3>5
  <2>2. CASE next \notin DOMAIN allTests
    BY <2>2, <1>1, <1>2, <1>3, TestCount
  <2>3. QED
    BY <2>1, <2>2
<1>5. late' \subseteq 1..Len(allTests)
  BY <1>1, <1>3, TestCount DEF Typed, TypeOK
<1>6. /\ pc' \in {"report"} \cup TestSteps /\ pc' # "exited" /\ pc' \notin {"nats ready", "pause", "top"}
  BY <1>4, TestStepsAre
<1>7. pc' \in {"nats"} => Len(samples') < SpeedSamples \/ SpeedSamples = 0
  BY <1>3, FlagsAreSane
<1>8. samples' \in Seq(SpeedSample)
  BY <1>3
<1>9. code' \in {NoCode, 0, 1} /\ code' = NoCode
  BY <1>3, TestStepsAre DEF Typed, TypeOK
<1>10. /\ tenant' \in Tenants /\ elapsed' \in Durations \cup {0}
       /\ expired' \in BOOLEAN /\ timeUp' \in BOOLEAN /\ blocked' \in BOOLEAN
       /\ target' \in {"none", "echo", "stand-in"} /\ victim' \in 0..MaxBirths
  <2>1. 0 \in 0..MaxBirths
    BY FlagsAreSane
  <2>2. QED
    BY <1>3, <2>1 DEF Typed, TypeOK
<1>11. /\ births' \in [Tenants -> 0..MaxBirths]
       /\ files' \in [Tenants -> {"none", "empty", "good"}]
       /\ saw' \subseteq open' \X SUBSET Signals /\ open' \subseteq Routes
  BY DEF Typed, TypeOK
<1>12. TypeOK'
  <2>1. /\ pc' \in {"tools", "report", "exited"} \cup CreateSteps \cup TestSteps
        /\ pc' \in {"nats", "nats ready"} => Len(samples') < SpeedSamples \/ SpeedSamples = 0
        /\ pc' \in {"pause", "top"} => Len(samples') < OverheadSamples
        /\ pc' \notin {"nats", "nats ready", "pause", "top"} => samples' = <<>>
    BY <1>3, <1>6, <1>7
  <2>2. samples' \in Seq([err : BOOLEAN, nats : Durations \cup {0}])
    BY <1>8 DEF SpeedSample
  <2>3. /\ results' \in Seq(Verdicts) /\ Len(results') <= Len(allTests)
        /\ pc' \in TestSteps => Len(results') < Len(allTests)
    BY <1>2, <1>4, TestStepsAre
  <2>4. code' \in {NoCode, 0, 1} /\ (pc' = "exited" <=> code' # NoCode)
    BY <1>6, <1>9
  <2>5. QED
    BY <1>5, <1>10, <1>11, <2>1, <2>2, <2>3, <2>4 DEF TypeOK
<1>13. SamplesFit'
  BY <1>6, <1>8 DEF SamplesFit
<1>14. QED
  BY <1>12, <1>13 DEF Typed

\* A step inside a test that takes no sample.
LEMMA InsideTyped ==
  ASSUME Typed, pc \in TestSteps \ Sampling, pc' \in TestSteps \ Sampling,
         blocked' \in BOOLEAN, target' \in {"none", "echo", "stand-in"}, victim' \in 0..MaxBirths,
         UNCHANGED <<tenant, elapsed, timeUp, samples, expired, results, code, births, open, files, late>>,
         saw' \subseteq open \X SUBSET Signals,
         api' \in [Tenants -> {"none", "starting", "ready"}]
  PROVE  Typed'
<1>1. pc' # "exited" /\ pc # "exited"
  BY TestStepsAre
<1>2. TypeOK'
  BY <1>1 DEF Typed, TypeOK, Sampling
<1>3. SamplesFit'
  BY DEF SamplesFit, Sampling
<1>4. QED
  BY <1>2, <1>3 DEF Typed

\* A step that takes a sample or is about to.
LEMMA SamplingTyped ==
  ASSUME Typed, pc \in TestSteps, pc' \in Sampling,
         UNCHANGED <<tenant, elapsed, timeUp, blocked, target, victim, expired, results, code,
                     cluster, files, saw, late>>,
         pc' \in {"nats", "nats ready"} =>
           samples' \in Seq(SpeedSample) /\ (Len(samples') < SpeedSamples \/ SpeedSamples = 0),
         pc' \in {"pause", "top"} =>
           samples' \in Seq(OverheadSample) /\ Len(samples') < OverheadSamples
  PROVE  Typed'
<1>1. pc' \in TestSteps /\ pc' # "exited" /\ pc # "exited"
  BY TestStepsAre DEF Sampling
<1>2. samples' \in Seq(SpeedSample) \/ samples' \in Seq(OverheadSample)
  BY DEF Sampling
<1>3. TypeOK'
  BY <1>1, <1>2 DEF Typed, TypeOK, Sampling, SpeedSample, OverheadSample, cluster
<1>4. SamplesFit'
  BY DEF SamplesFit
<1>5. QED
  BY <1>3, <1>4 DEF Typed

\* The verdicts of Tests 2 and 4.
LEMMA VerdictsAre ==
  ASSUME NEW ss
  PROVE  SpeedVerdict(ss) \in Verdicts /\ OverheadVerdict(ss) \in Verdicts
BY DEF SpeedVerdict, OverheadVerdict, Verdicts

\* A probe that ran to its end prints what its command prints.
LEMMA ProbePrints ==
  ASSUME NEW where, NEW pod, NEW prints, NEW out \in RunInPod(where, pod, prints)
  PROVE  /\ out.err \in BOOLEAN
         /\ ~out.err => out.says \in prints
         /\ out.err => out.says \in SUBSET Signals
<1>1. PICK ok \in BOOLEAN : out \in [err : {~ok}, says : IF ok THEN prints ELSE SUBSET Signals]
  BY DEF RunInPod, Succeeds
<1>2. CASE ok
  BY <1>1, <1>2
<1>3. CASE ~ok
  BY <1>1, <1>3
<1>4. QED
  BY <1>2, <1>3

\* What the commands print are signals.
LEMMA PrintsAreSignals ==
  ASSUME NEW reached
  PROVE  ncPrints(reached) \subseteq SUBSET Signals /\ nslookupPrints(reached) \subseteq SUBSET Signals
BY DEF ncPrints, nslookupPrints, Signals

\* Only a way that is open is seen, and with signals.
LEMMA SeeTyped ==
  ASSUME saw \subseteq open \X SUBSET Signals, NEW route, NEW reached, reached => route \in open,
         NEW where, NEW pod, NEW prints \in SUBSET (SUBSET Signals),
         NEW out \in RunInPod(where, pod, prints), See(out, route, reached)
  PROVE  saw' \subseteq open \X SUBSET Signals
<1>1. CASE reached /\ ~out.err
  <2>1. saw' = saw \cup {<<route, out.says>>}
    BY <1>1 DEF See
  <2>2. route \in open /\ out.says \in SUBSET Signals
    BY <1>1, ProbePrints
  <2>3. QED
    BY <2>1, <2>2
<1>2. CASE ~(reached /\ ~out.err)
  BY <1>2 DEF See
<1>3. QED
  BY <1>1, <1>2

\* Tests 1, 3 and 5, and the first part of a test that only has to succeed.
LEMMA ReachTestsTyped ==
  ASSUME Typed,
         RunSetup \/ DirectProbe \/ DNSProbe \/ DeleteAttempt \/ DetectCilium \/ TargetIP \/ CiliumProbe
  PROVE  Typed'
<1>1. /\ saw \subseteq open \X SUBSET Signals /\ samples \in Seq(SpeedSample) \cup Seq(OverheadSample)
      /\ blocked \in BOOLEAN /\ target \in {"none", "echo", "stand-in"} /\ victim \in 0..MaxBirths
      /\ api \in [Tenants -> {"none", "starting", "ready"}]
  BY DEF Typed, TypeOK, SpeedSample, OverheadSample
<1>2. CASE RunSetup
  <2>1. pc \in TestSteps \ Sampling /\ Setup[pc][2] \in TestSteps \ Sampling
    BY <1>2, SetupIs, TestStepsAre DEF RunSetup, Sampling
  <2>2. (pc' = Setup[pc][2] /\ UNCHANGED <<local, expired, results, code, late>>) \/ Finish("FAIL")
    BY <1>2 DEF RunSetup, Goto
  <2>3. UNCHANGED <<cluster, files, saw>>
    BY <1>2 DEF RunSetup
  <2>4. CASE Finish("FAIL")
    BY <1>1, <2>1, <2>3, <2>4, FinishTyped DEF cluster, Verdicts
  <2>5. CASE pc' = Setup[pc][2] /\ UNCHANGED <<local, expired, results, code, late>>
    BY <1>1, <2>1, <2>3, <2>5, InsideTyped DEF cluster, local
  <2>6. QED
    BY <2>2, <2>4, <2>5
<1>3. CASE DirectProbe
  <2> DEFINE reached == "ip" \in open
  <2>1. PICK out \in RunInPod("a", "netprobe", ncPrints(reached)) :
          blocked' = isConnectionBlocked(out) /\ See(out, "ip", reached)
    BY <1>3 DEF DirectProbe
  <2>2. saw' \subseteq open \X SUBSET Signals
    <3>1. ncPrints(reached) \in SUBSET (SUBSET Signals)
      BY PrintsAreSignals
    <3>2. See(out, "ip", reached) /\ (reached => "ip" \in open)
      BY <2>1
    <3> HIDE DEF reached
    <3>3. QED
      BY <1>1, <2>1, <3>1, <3>2, SeeTyped
  <2>3. pc \in TestSteps \ Sampling /\ pc' \in TestSteps \ Sampling
    BY <1>3, TestStepsAre DEF DirectProbe, Sampling
  <2>4. blocked' \in BOOLEAN
    BY <2>1 DEF isConnectionBlocked
  <2>5. UNCHANGED <<tenant, elapsed, timeUp, samples, target, victim, expired, results, code, api, births, open, files, late>>
    BY <1>3 DEF DirectProbe, cluster
  <2>6. QED
    BY <1>1, <2>2, <2>3, <2>4, <2>5, InsideTyped
<1>4. CASE DNSProbe
  <2> DEFINE reached == "dns" \in open
  <2>1. PICK out \in RunInPod("a", "netprobe", nslookupPrints(reached)) :
          /\ Finish(IF blocked /\ isDNSBlocked(out) THEN "PASS" ELSE "FAIL")
          /\ See(out, "dns", reached)
    BY <1>4 DEF DNSProbe
  <2>2. saw' \subseteq open \X SUBSET Signals
    <3>1. nslookupPrints(reached) \in SUBSET (SUBSET Signals)
      BY PrintsAreSignals
    <3>2. See(out, "dns", reached) /\ (reached => "dns" \in open)
      BY <2>1
    <3> HIDE DEF reached
    <3>3. QED
      BY <1>1, <2>1, <3>1, <3>2, SeeTyped
  <2>3. pc \in TestSteps /\ UNCHANGED <<cluster, files>>
    BY <1>4, TestStepsAre DEF DNSProbe
  <2>4. PICK v \in Verdicts : Finish(v)
    BY <2>1 DEF Verdicts
  <2>5. QED
    BY <1>1, <2>2, <2>3, <2>4, FinishTyped DEF cluster
<1>5. CASE DeleteAttempt
  <2>1. pc \in TestSteps /\ UNCHANGED <<cluster, files, saw>>
    BY <1>5, TestStepsAre DEF DeleteAttempt
  <2>2. PICK v \in Verdicts : Finish(v)
    BY <1>5 DEF DeleteAttempt, Verdicts
  <2>3. QED
    BY <1>1, <2>1, <2>2, FinishTyped DEF cluster
<1>6. CASE DetectCilium
  <2>1. pc \in TestSteps \ Sampling /\ UNCHANGED <<cluster, files, saw>>
    BY <1>6, TestStepsAre DEF DetectCilium, Sampling
  <2>2. CASE Finish("SKIP")
    BY <1>1, <2>1, <2>2, FinishTyped DEF cluster, Verdicts
  <2>3. CASE Goto("cilium-probe")
    <3>1. "cilium-probe" \in TestSteps \ Sampling
      BY TestStepsAre DEF Sampling
    <3>2. QED
      BY <1>1, <2>1, <2>3, <3>1, InsideTyped DEF Goto, cluster, local
  <2>4. QED
    BY <1>6, <2>2, <2>3 DEF DetectCilium
<1>7. CASE TargetIP
  <2>1. pc \in TestSteps \ Sampling /\ pc' \in TestSteps \ Sampling
    BY <1>7, TestStepsAre DEF TargetIP, Sampling
  <2>2. target' \in {"none", "echo", "stand-in"}
    BY <1>7 DEF TargetIP
  <2>3. UNCHANGED <<tenant, elapsed, timeUp, samples, blocked, victim, expired, results, code, api, births, open, files, saw, late>>
    BY <1>7 DEF TargetIP, cluster, history
  <2>4. QED
    BY <1>1, <2>1, <2>2, <2>3, InsideTyped
<1>8. CASE CiliumProbe
  <2> DEFINE reached == target = "echo" /\ "host" \in open
  <2>1. PICK out \in RunInPod("host", "cilium-probe", ncPrints(reached)) :
          /\ Finish(IF isConnectionBlocked(out) THEN "PASS" ELSE "FAIL")
          /\ See(out, "host", reached)
    BY <1>8 DEF CiliumProbe
  <2>2. saw' \subseteq open \X SUBSET Signals
    <3>1. ncPrints(reached) \in SUBSET (SUBSET Signals)
      BY PrintsAreSignals
    <3>2. See(out, "host", reached) /\ (reached => "host" \in open)
      BY <2>1
    <3> HIDE DEF reached
    <3>3. QED
      BY <1>1, <2>1, <3>1, <3>2, SeeTyped
  <2>3. pc \in TestSteps /\ UNCHANGED <<cluster, files>>
    BY <1>8, TestStepsAre DEF CiliumProbe
  <2>4. PICK v \in Verdicts : Finish(v)
    BY <2>1 DEF Verdicts
  <2>5. QED
    BY <1>1, <2>2, <2>3, <2>4, FinishTyped DEF cluster
<1>9. QED
  BY <1>2, <1>3, <1>4, <1>5, <1>6, <1>7, <1>8

\* A sample more of Test 2, or its verdict.
LEMMA SpeedSampleTyped ==
  ASSUME Typed, pc \in {"nats", "nats ready"}, NEW s \in SpeedSample, AddSpeedSample(s),
         UNCHANGED <<cluster, files, saw>>
  PROVE  Typed'
<1> DEFINE ss == Append(samples, s)
<1>1. /\ saw \subseteq open \X SUBSET Signals /\ samples \in Seq(SpeedSample)
      /\ api \in [Tenants -> {"none", "starting", "ready"}]
  BY DEF Typed, TypeOK, SamplesFit
<1>2. pc \in TestSteps /\ ss \in Seq(SpeedSample)
  <2>1. pc \in TestSteps
    BY TestStepsAre
  <2>2. ss \in Seq(SpeedSample)
    <3>1. samples \in Seq(SpeedSample) /\ s \in SpeedSample
      BY <1>1
    <3>2. QED
      BY ONLY <3>1
  <2>3. QED
    BY <2>1, <2>2
<1>3. CASE Finish(SpeedVerdict(ss))
  BY <1>1, <1>2, <1>3, VerdictsAre, FinishTyped DEF cluster
<1>4. CASE Len(ss) < SpeedSamples /\ Keep(ss, "nats")
  <2>1. /\ samples' = ss /\ pc' = "nats"
        /\ UNCHANGED <<tenant, elapsed, timeUp, blocked, target, victim, expired, results, code, late>>
    BY <1>4 DEF Keep
  <2> HIDE DEF ss
  <2>2. QED
    BY <1>2, <1>4, <2>1, SamplingTyped DEF Sampling
<1>5. QED
  BY <1>3, <1>4 DEF AddSpeedSample

\* A sample more of Test 4, or its verdict.
LEMMA OverheadSampleTyped ==
  ASSUME Typed, pc = "top", NEW podsA, NEW podsB, AddOverheadSample(podsA, podsB),
         Total(podsA) \in Loads \cup {0}, Total(podsB) \in Loads \cup {0},
         UNCHANGED <<cluster, files, saw>>
  PROVE  Typed'
<1> DEFINE s == [t \in Tenants |-> Total(IF t = "a" THEN podsA ELSE podsB)]
           ss == Append(samples, s)
<1>1. /\ saw \subseteq open \X SUBSET Signals /\ samples \in Seq(OverheadSample)
      /\ api \in [Tenants -> {"none", "starting", "ready"}]
  BY DEF Typed, TypeOK, SamplesFit
<1>2. \A t \in Tenants : Total(IF t = "a" THEN podsA ELSE podsB) \in Loads \cup {0}
  OBVIOUS
<1>3. s \in OverheadSample
  BY <1>2 DEF OverheadSample
<1>4. AddOverheadSample(podsA, podsB) <=>
        IF Len(ss) < OverheadSamples THEN Keep(ss, "pause") ELSE Finish(OverheadVerdict(ss))
  BY DEF AddOverheadSample
<1> HIDE DEF s
<1>5. pc \in TestSteps /\ ss \in Seq(OverheadSample)
  <2>1. pc \in TestSteps
    BY TestStepsAre
  <2>2. ss \in Seq(OverheadSample)
    BY <1>1, <1>3
  <2>3. QED
    BY <2>1, <2>2
<1> HIDE DEF ss
<1>6. CASE Finish(OverheadVerdict(ss))
  BY <1>1, <1>5, <1>6, VerdictsAre, FinishTyped DEF cluster
<1>7. CASE Len(ss) < OverheadSamples /\ Keep(ss, "pause")
  <2>1. /\ samples' = ss /\ pc' = "pause"
        /\ UNCHANGED <<tenant, elapsed, timeUp, blocked, target, victim, expired, results, code, late>>
    BY <1>7 DEF Keep
  <2>2. QED
    BY <1>5, <1>7, <2>1, SamplingTyped DEF Sampling
<1>8. QED
  BY <1>4, <1>6, <1>7

\* What kubectl top says of a vCluster, unless it fails, is a load.
LEMMA PodsAreLoads ==
  ASSUME NEW t, NEW pods \in GetPodResources(t), pods # TopError
  PROVE  Total(pods) \in Loads \cup {0}
<1>1. pods = <<>> \/ \E load \in Loads \cup {0} : pods = <<load>>
  BY DEF GetPodResources, parsePodResources
<1>2. QED
  BY <1>1 DEF Total

\* Tests 2 and 4.
LEMMA SamplingTestsTyped ==
  ASSUME Typed, ApplyNATS \/ WaitNATS \/ Settle \/ PauseSampling \/ SampleOverhead
  PROVE  Typed'
<1>1. /\ saw \subseteq open \X SUBSET Signals
      /\ api \in [Tenants -> {"none", "starting", "ready"}]
  BY DEF Typed, TypeOK
<1>2. UNCHANGED <<cluster, files, saw>> /\ pc \in TestSteps
  BY TestStepsAre DEF ApplyNATS, WaitNATS, Settle, PauseSampling, SampleOverhead
<1>3. ASSUME NEW v \in Verdicts, Finish(v)
      PROVE  Typed'
  BY <1>1, <1>2, <1>3, FinishTyped DEF cluster
<1>4. CASE ApplyNATS
  <2>1. CASE Finish(SpeedVerdict(<<>>))
    BY <1>3, <2>1, VerdictsAre
  <2>2. CASE Goto("nats ready")
    <3>1. samples \in Seq(SpeedSample) /\ (Len(samples) < SpeedSamples \/ SpeedSamples = 0)
      BY <1>4 DEF ApplyNATS, Typed, TypeOK, SamplesFit
    <3>2. QED
      BY <1>2, <2>2, <3>1, SamplingTyped DEF Goto, local, Sampling
  <2>3. CASE AddSpeedSample([err |-> TRUE, nats |-> 0])
    <3>1. [err |-> TRUE, nats |-> 0] \in SpeedSample
      BY DEF SpeedSample
    <3>2. QED
      BY <1>2, <1>4, <2>3, <3>1, SpeedSampleTyped DEF ApplyNATS
  <2>4. QED
    BY <1>4, <2>1, <2>2, <2>3 DEF ApplyNATS
<1>5. CASE WaitNATS
  <2>1. PICK ok \in BOOLEAN, d \in Durations : AddSpeedSample([err |-> ~ok, nats |-> IF ok THEN d ELSE 0])
    BY <1>5 DEF WaitNATS, Succeeds
  <2>2. [err |-> ~ok, nats |-> IF ok THEN d ELSE 0] \in SpeedSample
    BY DEF SpeedSample
  <2>3. QED
    BY <1>2, <1>5, <2>1, <2>2, SpeedSampleTyped DEF WaitNATS
<1>6. CASE Settle
  <2>1. CASE Goto("top")
    <3>1. samples = <<>>
      BY <1>6 DEF Settle, Typed, TypeOK
    <3>2. samples \in Seq(OverheadSample) /\ Len(samples) < OverheadSamples
      BY <3>1, FlagsAreSane
    <3>3. QED
      BY <1>2, <2>1, <3>2, SamplingTyped DEF Goto, local, Sampling
  <2>2. CASE Finish("FAIL")
    BY <1>3, <2>2 DEF Verdicts
  <2>3. QED
    BY <1>6, <2>1, <2>2 DEF Settle
<1>7. CASE PauseSampling
  <2>1. CASE Goto("top")
    <3>1. samples \in Seq(OverheadSample) /\ Len(samples) < OverheadSamples
      BY <1>7 DEF PauseSampling, Typed, TypeOK, SamplesFit
    <3>2. QED
      BY <1>2, <2>1, <3>1, SamplingTyped DEF Goto, local, Sampling
  <2>2. CASE Finish(OverheadVerdict(samples))
    BY <1>3, <2>2, VerdictsAre
  <2>3. QED
    BY <1>7, <2>1, <2>2 DEF PauseSampling
<1>8. CASE SampleOverhead
  <2>1. PICK podsA \in GetPodResources("a"), podsB \in GetPodResources("b") :
          CASE TopError \in {podsA, podsB} -> Finish("FAIL")
            [] {podsA, podsB} = {<<>>}     -> Finish(IF samples = <<>> THEN "SKIP" ELSE OverheadVerdict(samples))
            [] OTHER                       -> AddOverheadSample(podsA, podsB)
    BY <1>8 DEF SampleOverhead
  <2>2. CASE \E v \in Verdicts : Finish(v)
    BY <1>3, <2>2
  <2>3. CASE podsA # TopError /\ podsB # TopError /\ AddOverheadSample(podsA, podsB)
    <3>1. Total(podsA) \in Loads \cup {0} /\ Total(podsB) \in Loads \cup {0}
      BY <2>3, PodsAreLoads
    <3>2. QED
      BY <1>2, <1>8, <2>3, <3>1, OverheadSampleTyped DEF SampleOverhead
  <2>4. QED
    <3>1. "FAIL" \in Verdicts /\ (IF samples = <<>> THEN "SKIP" ELSE OverheadVerdict(samples)) \in Verdicts
      BY VerdictsAre DEF Verdicts
    <3>2. CASE TopError \in {podsA, podsB}
      BY <2>1, <2>2, <3>1, <3>2
    <3>3. CASE TopError \notin {podsA, podsB} /\ {podsA, podsB} = {<<>>}
      BY <2>1, <2>2, <3>1, <3>3
    <3>4. CASE TopError \notin {podsA, podsB} /\ {podsA, podsB} # {<<>>}
      BY <2>1, <2>3, <3>4
    <3>5. QED
      BY <3>2, <3>3, <3>4
<1>9. QED
  BY <1>4, <1>5, <1>6, <1>7, <1>8

\* Test 6.
LEMMA RecoveryTestTyped ==
  ASSUME Typed, FindPod \/ DeletePod \/ WaitRecovery
  PROVE  Typed'
<1>1. /\ saw \subseteq open \X SUBSET Signals /\ blocked \in BOOLEAN /\ target \in {"none", "echo", "stand-in"}
      /\ victim \in 0..MaxBirths /\ births["a"] \in 0..MaxBirths
      /\ api \in [Tenants -> {"none", "starting", "ready"}]
  BY DEF Typed, TypeOK, Tenants
<1>2. UNCHANGED <<births, open, files, saw>> /\ pc \in TestSteps \ Sampling
  BY TestStepsAre DEF FindPod, DeletePod, WaitRecovery, cluster, Sampling
<1>3. api' \in [Tenants -> {"none", "starting", "ready"}]
  BY <1>1 DEF FindPod, DeletePod, WaitRecovery, cluster
<1>4. ASSUME NEW v \in Verdicts, Finish(v)
      PROVE  Typed'
  BY <1>1, <1>2, <1>3, <1>4, FinishTyped
<1>5. ASSUME pc' \in {"kill", "recovery"}, victim' \in 0..MaxBirths,
             UNCHANGED <<tenant, elapsed, timeUp, samples, blocked, target, expired, results, code, late>>
      PROVE  Typed'
  <2>1. pc' \in TestSteps \ Sampling
    BY <1>5, TestStepsAre DEF Sampling
  <2>2. QED
    BY <1>1, <1>2, <1>3, <1>5, <2>1, InsideTyped
<1>6. CASE FindPod
  <2>1. CASE Finish("FAIL")
    BY <1>4, <2>1 DEF Verdicts
  <2>2. CASE /\ pc' = "kill" /\ victim' = births["a"]
             /\ UNCHANGED <<tenant, elapsed, timeUp, samples, blocked, target, expired, results, code, late>>
    BY <1>1, <1>5, <2>2
  <2>3. QED
    BY <1>6, <2>1, <2>2 DEF FindPod
<1>7. CASE DeletePod
  <2>1. CASE Finish("FAIL")
    BY <1>4, <2>1 DEF Verdicts
  <2>2. CASE Goto("recovery")
    BY <1>1, <1>5, <2>2 DEF Goto, local
  <2>3. QED
    BY <1>7, <2>1, <2>2 DEF DeletePod
<1>8. CASE WaitRecovery
  BY <1>4, <1>8 DEF WaitRecovery, Verdicts
<1>9. QED
  BY <1>6, <1>7, <1>8

\* An exit of main.
LEMMA ExitTyped ==
  ASSUME Typed, pc \notin TestSteps, NEW c \in {0, 1}, Exit(c)
  PROVE  Typed'
<1>1. /\ pc' = "exited" /\ pc' \notin TestSteps /\ code' = c /\ c # NoCode
      /\ UNCHANGED <<tenant, elapsed, timeUp, samples, blocked, target, victim, expired, results,
                     api, births, open, files, saw, late>>
  <2>1. "exited" \notin TestSteps /\ c # NoCode
    <3>1. "exited" \notin TestSteps
      BY TestStepsAre
    <3>2. c # NoCode
      BY DEF NoCode
    <3>3. QED
      BY <3>1, <3>2
  <2>2. QED
    BY <2>1 DEF Exit, local, cluster, history
<1>2. samples = <<>>
  BY TestStepsAre DEF Typed, TypeOK
<1>3. TypeOK'
  BY <1>1, <1>2 DEF Typed, TypeOK
<1>4. SamplesFit'
  BY <1>1 DEF SamplesFit
<1>5. QED
  BY <1>3, <1>4 DEF Typed

\* The first test begins.
LEMMA StartTyped ==
  ASSUME Typed, NothingJudgedYet, pc \in BeforeTests, StartTests,
         UNCHANGED <<tenant, elapsed, timeUp, samples, blocked, target, victim, expired, results, code,
                     cluster, saw>>,
         files' \in [Tenants -> {"none", "empty", "good"}]
  PROVE  Typed'
<1>1. pc' = "echo" /\ pc' \in TestSteps /\ late' \subseteq {1} /\ Len(results) = 0
  BY AllTestsIs, TestStepsAre DEF StartTests, NothingJudgedYet
<1>2. samples = <<>> /\ pc # "exited"
  BY TestStepsAre DEF Typed, TypeOK, BeforeTests, CreateSteps
<1>3. Len(results') < Len(allTests) /\ late' \subseteq 1..Len(allTests)
  BY <1>1, TestCount
<1>4. TypeOK'
  BY <1>1, <1>2, <1>3 DEF Typed, TypeOK, cluster
<1>5. SamplesFit'
  BY <1>1 DEF SamplesFit
<1>6. QED
  BY <1>4, <1>5 DEF Typed

\* Main, up to the first test.
LEMMA CreatingTyped ==
  ASSUME Typed, pc \in BeforeTests, pc' \in CreateSteps,
         tenant' \in Tenants, elapsed' \in Durations \cup {0}, timeUp' \in BOOLEAN,
         api' \in [Tenants -> {"none", "starting", "ready"}],
         births' \in [Tenants -> 0..MaxBirths],
         files' \in [Tenants -> {"none", "empty", "good"}],
         UNCHANGED <<samples, blocked, target, victim, expired, results, code, open, saw, late>>
  PROVE  Typed'
<1>1. pc' \notin TestSteps /\ pc' # "exited" /\ pc # "exited" /\ samples = <<>>
  BY TestStepsAre DEF Typed, TypeOK, BeforeTests, CreateSteps
<1>2. pc' \notin {"nats", "nats ready", "pause", "top"}
  BY <1>1, TestStepsAre
<1>3. TypeOK'
  BY <1>1, <1>2 DEF Typed, TypeOK
<1>4. SamplesFit'
  BY <1>2 DEF SamplesFit
<1>5. QED
  BY <1>3, <1>4 DEF Typed

\* Every step of main keeps the types.
LEMMA MainTyped ==
  ASSUME Typed, NothingJudgedYet, Main
  PROVE  Typed'
<1>1. /\ api \in [Tenants -> {"none", "starting", "ready"}]
      /\ births \in [Tenants -> 0..MaxBirths]
      /\ files \in [Tenants -> {"none", "empty", "good"}]
      /\ tenant \in Tenants /\ elapsed \in Durations \cup {0} /\ timeUp \in BOOLEAN
  BY DEF Typed, TypeOK
<1>2. ASSUME NEW c \in {0, 1}, Exit(c), pc \in BeforeTests \cup {"report"}
      PROVE  Typed'
  <2>1. pc \notin TestSteps
    BY <1>2, TestStepsAre DEF BeforeTests, CreateSteps
  <2>2. QED
    BY <1>2, <2>1, ExitTyped
<1>3. ASSUME NEW p \in CreateSteps, pc \in BeforeTests, Continue(p)
      PROVE  Typed'
  BY <1>1, <1>3, CreatingTyped DEF Continue, Goto, local, cluster
<1>4. CASE CheckPrerequisites
  <2>1. pc \in BeforeTests
    BY <1>4 DEF CheckPrerequisites, BeforeTests
  <2>2. CASE Exit(1)
    BY <1>2, <2>1, <2>2
  <2>3. CASE StartTests /\ UNCHANGED <<local, expired, results, code, cluster, files, saw>>
    BY <1>1, <2>1, <2>3, StartTyped DEF local
  <2>4. CASE pc' = "namespace" /\ UNCHANGED <<local, expired, results, code, cluster, files, saw, late>>
    BY <1>1, <2>1, <2>4, CreatingTyped DEF local, cluster, CreateSteps
  <2>5. QED
    BY <1>4, <2>2, <2>3, <2>4 DEF CheckPrerequisites
<1>5. CASE EnsureNamespace
  <2>1. pc \in BeforeTests /\ "create" \in CreateSteps
    BY <1>5 DEF EnsureNamespace, BeforeTests, CreateSteps
  <2>2. Continue("create") \/ Exit(1)
    BY <1>5 DEF EnsureNamespace
  <2>3. QED
    BY <1>2, <1>3, <2>1, <2>2
<1>6. CASE RunVClusterCreate
  <2>1. pc \in BeforeTests
    BY <1>6 DEF RunVClusterCreate, BeforeTests, CreateSteps
  <2>2. CASE Exit(1)
    BY <1>2, <2>1, <2>2
  <2>3. CASE /\ pc' = "wait" /\ timeUp' = FALSE
             /\ \/ api' = [api EXCEPT ![tenant] = "starting"] /\ births' = [births EXCEPT ![tenant] = 1]
                \/ UNCHANGED <<api, births>>
             /\ UNCHANGED <<tenant, elapsed, samples, blocked, target, victim, expired, results, code, open, files, history>>
    <3>1. /\ api' \in [Tenants -> {"none", "starting", "ready"}]
          /\ births' \in [Tenants -> 0..MaxBirths]
      BY <1>1, <2>3, FlagsAreSane
    <3>2. pc' \in CreateSteps /\ timeUp' \in BOOLEAN
      BY <2>3 DEF CreateSteps
    <3>3. QED
      BY <1>1, <2>1, <2>3, <3>1, <3>2, CreatingTyped DEF history
  <2>4. QED
    BY <1>6, <2>2, <2>3 DEF RunVClusterCreate
<1>7. CASE WaitVClusterReady \/ Sleep
  <2>1. pc \in BeforeTests
    BY <1>7 DEF WaitVClusterReady, Sleep, BeforeTests, CreateSteps
  <2>2. Exit(1) \/ \E p \in CreateSteps : Continue(p)
    BY <1>7 DEF WaitVClusterReady, Sleep, CreateSteps
  <2>3. QED
    BY <1>2, <1>3, <2>1, <2>2
<1>8. CASE ExportKubeconfig
  <2>1. pc \in BeforeTests
    BY <1>8 DEF ExportKubeconfig, BeforeTests, CreateSteps
  <2>2. CASE Exit(1)
    BY <1>2, <2>1, <2>2
  <2>3. CASE /\ \E printed \in {"empty", "good"} : files' = [files EXCEPT ![tenant] = printed]
             /\ IF tenant = "a"
                THEN pc' = "namespace" /\ tenant' = "b" /\ elapsed' \in Durations /\ UNCHANGED late
                ELSE StartTests /\ UNCHANGED <<tenant, elapsed>>
             /\ UNCHANGED <<timeUp, samples, blocked, target, victim, expired, results, code, cluster, saw>>
    <3>1. files' \in [Tenants -> {"none", "empty", "good"}]
      BY <1>1, <2>3
    <3>2. CASE tenant = "a"
      <4>1. pc' \in CreateSteps /\ tenant' \in Tenants /\ elapsed' \in Durations \cup {0}
        BY <2>3, <3>2 DEF CreateSteps, Tenants
      <4>2. QED
        BY <1>1, <2>1, <2>3, <3>1, <3>2, <4>1, CreatingTyped DEF cluster
    <3>3. CASE tenant # "a"
      BY <2>1, <2>3, <3>1, <3>3, StartTyped
    <3>4. QED
      BY <3>2, <3>3
  <2>4. QED
    BY <1>8, <2>2, <2>3 DEF ExportKubeconfig
<1>9. CASE Report
  <2>1. \E c \in {0, 1} : Exit(c)
    BY <1>9 DEF Report
  <2>2. QED
    BY <1>2, <1>9, <2>1 DEF Report
<1>10. QED
  BY <1>4, <1>5, <1>6, <1>7, <1>8, <1>9 DEF Main

\* The world keeps to the pods and to the two clocks.
LEMMA WorldTyped ==
  ASSUME Typed,
         api' \in [Tenants -> {"none", "starting", "ready"}],
         births' \in [Tenants -> 0..MaxBirths],
         expired' \in BOOLEAN, timeUp' \in BOOLEAN,
         UNCHANGED <<pc, tenant, elapsed, samples, blocked, target, victim, results, code, open, files, saw, late>>
  PROVE  Typed'
<1>1. TypeOK'
  <2>1. /\ pc' \in {"tools", "report", "exited"} \cup CreateSteps \cup TestSteps
        /\ tenant' \in Tenants /\ elapsed' \in Durations \cup {0} /\ blocked' \in BOOLEAN
        /\ target' \in {"none", "echo", "stand-in"} /\ victim' \in 0..MaxBirths
        /\ code' \in {NoCode, 0, 1} /\ (pc' = "exited" <=> code' # NoCode)
    BY DEF Typed, TypeOK
  <2>2. /\ samples' \in Seq([err : BOOLEAN, nats : Durations \cup {0}]) \/ samples' \in Seq([Tenants -> Loads \cup {0}])
        /\ pc' \in {"nats", "nats ready"} => Len(samples') < SpeedSamples \/ SpeedSamples = 0
        /\ pc' \in {"pause", "top"} => Len(samples') < OverheadSamples
        /\ pc' \notin {"nats", "nats ready", "pause", "top"} => samples' = <<>>
    BY DEF Typed, TypeOK
  <2>3. /\ results' \in Seq(Verdicts) /\ Len(results') <= Len(allTests)
        /\ pc' \in TestSteps => Len(results') < Len(allTests)
        /\ late' \subseteq 1..Len(allTests)
    BY DEF Typed, TypeOK
  <2>4. files' \in [Tenants -> {"none", "empty", "good"}] /\ saw' \subseteq open' \X SUBSET Signals /\ open' \subseteq Routes
    BY DEF Typed, TypeOK
  <2>5. QED
    BY <2>1, <2>2, <2>3, <2>4 DEF TypeOK
<1>2. SamplesFit'
  BY DEF Typed, SamplesFit
<1>3. QED
  BY <1>1, <1>2 DEF Typed

\* And so does every other one.
LEMMA StepTyped ==
  ASSUME Typed, NothingJudgedYet, [Next]_vars
  PROVE  Typed'
<1>1. CASE Main
  BY <1>1, MainTyped
<1>2. CASE Test
  BY <1>2, ReachTestsTyped, SamplingTestsTyped, RecoveryTestTyped DEF Test
<1>3. /\ api \in [Tenants -> {"none", "starting", "ready"}]
      /\ births \in [Tenants -> 0..MaxBirths]
      /\ expired \in BOOLEAN /\ timeUp \in BOOLEAN
  BY DEF Typed, TypeOK
<1>4. ASSUME NEW t \in Tenants, PodStep(t)
      PROVE  Typed'
  <2>1. /\ api' \in [Tenants -> {"none", "starting", "ready"}]
        /\ UNCHANGED <<pc, tenant, elapsed, timeUp, samples, blocked, target, victim, expired, results, code,
                       open, files, saw, late>>
    BY <1>3, <1>4 DEF PodStep, local, history
  <2>2. births' \in [Tenants -> 0..MaxBirths]
    <3>1. CASE births[t] \in 1..(MaxBirths - 1) /\ births' = [births EXCEPT ![t] = @ + 1]
      <4>1. births[t] + 1 \in 0..MaxBirths
        BY <3>1, FlagsAreSane
      <4>2. QED
        BY <1>3, <3>1, <4>1
    <3>2. CASE UNCHANGED births
      BY <1>3, <3>2
    <3>3. QED
      BY <1>4, <3>1, <3>2 DEF PodStep
  <2>3. QED
    BY <1>3, <2>1, <2>2, WorldTyped
<1>5. CASE Expire \/ Deadline
  BY <1>3, <1>5, WorldTyped DEF Expire, Deadline, local, cluster, history
<1>6. CASE UNCHANGED vars
  BY <1>3, <1>6, WorldTyped DEF vars, local, cluster, history
<1>7. QED
  BY <1>1, <1>2, <1>4, <1>5, <1>6 DEF Next

-----------------------------------------------------------------------------
(* Tests that begin late.                                                  *)

\* Of samples one of which has failed Test 2 makes a FAIL.
LEMMA FailedSampleFails ==
  ASSUME NEW ss \in Seq(SpeedSample), NEW i \in DOMAIN ss, ss[i].err
  PROVE  SpeedVerdict(ss) = "FAIL"
<1> DEFINE bad == {j \in DOMAIN ss : ss[j].err}
<1>1. computeSpeedStats(ss).failed = Cardinality(bad)
  BY DEF computeSpeedStats
<1>2. IsFiniteSet(DOMAIN ss)
  BY FS_Interval
<1>3. IsFiniteSet(bad) /\ i \in bad
  BY <1>2, FS_Subset
<1>4. Cardinality(bad) \in Nat /\ Cardinality(bad) # 0
  BY <1>3, FS_EmptySet, FS_CardinalityType
<1>5. Cardinality(bad) > 0
  BY <1>4
<1>6. QED
  BY <1>1, <1>5 DEF SpeedVerdict

\* Once its context is done a command fails.
LEMMA NothingSucceeds ==
  ASSUME expired
  PROVE  /\ \A possible : Succeeds(possible) = {FALSE}
         /\ \A t : GetPodResources(t) = {TopError}
BY DEF Succeeds, GetPodResources

\* A test that began late is at its first command, or at Test 4's first sample.
LateSteps == {"echo", "nats", "config map", "settle", "cilium", "find", "top"}

LEMMA LateStepsAre ==
  ASSUME Typed, LateStaysAtItsStart, pc \in TestSteps, Current \in late
  PROVE  /\ expired /\ pc \in LateSteps
         /\ pc \in {"settle", "top"} => Current = 4
<1>1. /\ Len(results) \in Nat /\ Len(results) < 6
  <2>1. results \in Seq(Verdicts) /\ Len(results) < Len(allTests)
    BY DEF Typed, TypeOK
  <2>2. QED
    BY <2>1, TestCount
<1>2. Current = 1 \/ Current = 2 \/ Current = 3 \/ Current = 4 \/ Current = 5 \/ Current = 6
  BY <1>1 DEF Current
<1>3. expired /\ (pc = allTests[Current] \/ (Current = 4 /\ pc = "top"))
  BY DEF LateStaysAtItsStart
<1>4. QED
  BY <1>2, <1>3, AllTestsIs DEF LateSteps

\* A step of a test ends it or leads to another one; a test that began late does
\* not get further, and does not pass.
LEMMA TestStep ==
  ASSUME Typed, LateStaysAtItsStart, Test
  PROVE  /\ pc \in TestSteps /\ UNCHANGED <<expired, code>>
         /\ \/ \E v \in Verdicts : Finish(v) /\ (Current \in late /\ SpeedSamples > 0 => v # "PASS")
            \/ /\ pc' \in TestSteps /\ UNCHANGED <<results, late>>
               /\ Current \in late => pc' = pc \/ (Current = 4 /\ pc' = "top")
<1> DEFINE Late == Current \in late
           Ends == \E v \in Verdicts : Finish(v) /\ (Late /\ SpeedSamples > 0 => v # "PASS")
           GoesOn == /\ pc' \in TestSteps /\ UNCHANGED <<expired, code, results, late>>
                     /\ Late => pc' = pc \/ (Current = 4 /\ pc' = "top")
<1>1. pc \in TestSteps
  BY SetupIs, TestStepsAre DEF Test, RunSetup, DirectProbe, DNSProbe, ApplyNATS, WaitNATS, DeleteAttempt, Settle,
     PauseSampling, SampleOverhead, DetectCilium, TargetIP, CiliumProbe, FindPod, DeletePod, WaitRecovery
<1>2. Late => expired /\ pc \in LateSteps /\ (pc \in {"settle", "top"} => Current = 4)
  BY <1>1, LateStepsAre
<1> SUFFICES Ends \/ GoesOn
  BY <1>1 DEF Finish
<1> HIDE DEF Late
<1>3. ASSUME NEW v \in Verdicts, Finish(v), v = "FAIL" \/ v = "SKIP" \/ ~Late
      PROVE  Ends
  BY <1>3
<1>4. CASE RunSetup
  <2>1. /\ pc \in DOMAIN Setup
        /\ \E ok \in Succeeds(Addressable(Setup[pc][1])) : IF ok THEN Goto(Setup[pc][2]) ELSE Finish("FAIL")
    BY <1>4 DEF RunSetup
  <2>2. CASE Finish("FAIL")
    BY <1>3, <2>2 DEF Verdicts
  <2>3. CASE ~Late /\ Goto(Setup[pc][2])
    BY <2>1, <2>3, SetupIs, TestStepsAre DEF Goto
  <2>4. QED
    BY <1>2, <2>1, <2>2, <2>3, NothingSucceeds
<1>5. CASE DirectProbe \/ TargetIP
  <2>1. ~Late
    BY <1>2, <1>5 DEF DirectProbe, TargetIP, LateSteps
  <2>2. QED
    BY <1>5, <2>1, TestStepsAre DEF DirectProbe, TargetIP, history
<1>6. CASE DNSProbe \/ DeleteAttempt \/ CiliumProbe \/ WaitRecovery
  <2>1. ~Late
    BY <1>2, <1>6 DEF DNSProbe, DeleteAttempt, CiliumProbe, WaitRecovery, LateSteps
  <2>2. \E v \in Verdicts : Finish(v)
    BY <1>6 DEF DNSProbe, DeleteAttempt, CiliumProbe, WaitRecovery, Verdicts
  <2>3. QED
    BY <1>3, <2>1, <2>2
<1>7. CASE ApplyNATS
  <2>1. pc = "nats" /\ samples \in Seq(SpeedSample) /\ SpeedSamples \in Nat
    BY <1>7, FlagsAreSane DEF ApplyNATS, Typed, SamplesFit
  <2>2. CASE SpeedSamples = 0
    <3>1. Finish(SpeedVerdict(<<>>))
      BY <1>7, <2>2 DEF ApplyNATS
    <3>2. QED
      BY <2>2, <3>1, VerdictsAre
  <2>3. CASE ~Late /\ Goto("nats ready")
    BY <2>3, TestStepsAre DEF Goto
  <2>4. CASE AddSpeedSample([err |-> TRUE, nats |-> 0])
    <3> DEFINE s == [err |-> TRUE, nats |-> 0]
               ss == Append(samples, s)
    <3>1. CASE Keep(ss, "nats")
      BY <2>1, <3>1, TestStepsAre DEF Keep
    <3>2. CASE Finish(SpeedVerdict(ss))
      <4>1. s \in SpeedSample /\ s.err
        BY DEF SpeedSample
      <4> HIDE DEF s
      <4>2. /\ ss \in Seq(SpeedSample) /\ Len(samples) + 1 \in DOMAIN ss
            /\ ss[Len(samples) + 1].err
        BY <2>1, <4>1
      <4>3. SpeedVerdict(ss) = "FAIL"
        BY <4>2, FailedSampleFails
      <4>4. QED
        BY <1>3, <3>2, <4>3 DEF Verdicts
    <3>3. QED
      BY <2>4, <3>1, <3>2 DEF AddSpeedSample
  <2>5. QED
    BY <1>2, <1>7, <2>2, <2>3, <2>4, NothingSucceeds DEF ApplyNATS
<1>8. CASE WaitNATS
  <2>1. ~Late
    BY <1>2, <1>8 DEF WaitNATS, LateSteps
  <2>2. PICK s : AddSpeedSample(s)
    BY <1>8 DEF WaitNATS
  <2>3. CASE Keep(Append(samples, s), "nats")
    BY <2>1, <2>3, TestStepsAre DEF Keep
  <2>4. CASE Finish(SpeedVerdict(Append(samples, s)))
    BY <1>3, <2>1, <2>4, VerdictsAre
  <2>5. QED
    BY <2>2, <2>3, <2>4 DEF AddSpeedSample
<1>9. CASE Settle
  <2>1. CASE Finish("FAIL")
    BY <1>3, <2>1 DEF Verdicts
  <2>2. CASE Goto("top")
    BY <1>2, <1>9, <2>2, TestStepsAre DEF Goto, Settle
  <2>3. QED
    BY <1>9, <2>1, <2>2 DEF Settle
<1>10. CASE PauseSampling
  <2>1. ~Late
    BY <1>2, <1>10 DEF PauseSampling, LateSteps
  <2>2. CASE Finish(OverheadVerdict(samples))
    BY <1>3, <2>1, <2>2, VerdictsAre
  <2>3. CASE Goto("top")
    BY <2>1, <2>3, TestStepsAre DEF Goto
  <2>4. QED
    BY <1>10, <2>2, <2>3 DEF PauseSampling
<1>11. CASE SampleOverhead
  <2>1. PICK podsA \in GetPodResources("a"), podsB \in GetPodResources("b") :
          CASE TopError \in {podsA, podsB} -> Finish("FAIL")
            [] {podsA, podsB} = {<<>>}     -> Finish(IF samples = <<>> THEN "SKIP" ELSE OverheadVerdict(samples))
            [] OTHER                       -> AddOverheadSample(podsA, podsB)
    BY <1>11 DEF SampleOverhead
  <2>2. CASE TopError \in {podsA, podsB}
    <3>1. TopError # <<>>
      BY DEF TopError
    <3>2. {podsA, podsB} # {<<>>}
      BY <2>2, <3>1
    <3>3. Finish("FAIL")
      BY <2>1, <2>2, <3>2
    <3>4. QED
      BY <1>3, <3>3 DEF Verdicts
  <2>3. CASE TopError \notin {podsA, podsB}
    <3>1. ~Late
      BY <1>2, <2>3, NothingSucceeds
    <3>2. \/ Finish(IF samples = <<>> THEN "SKIP" ELSE OverheadVerdict(samples))
          \/ AddOverheadSample(podsA, podsB)
      BY <2>1, <2>3
    <3>3. (\E v \in Verdicts : Finish(v)) \/ (\E ss : Keep(ss, "pause"))
      BY <3>2, VerdictsAre DEF AddOverheadSample, Verdicts
    <3>4. CASE \E ss : Keep(ss, "pause")
      BY <3>1, <3>4, TestStepsAre DEF Keep
    <3>5. QED
      BY <1>3, <3>1, <3>3, <3>4
  <2>4. QED
    BY <2>2, <2>3
<1>12. CASE DetectCilium
  <2>1. CASE Finish("SKIP")
    BY <1>3, <2>1 DEF Verdicts
  <2>2. CASE ~Late /\ Goto("cilium-probe")
    BY <2>2, TestStepsAre DEF Goto
  <2>3. QED
    BY <1>2, <1>12, <2>1, <2>2, NothingSucceeds DEF DetectCilium
<1>13. CASE FindPod
  <2>1. CASE Finish("FAIL")
    BY <1>3, <2>1 DEF Verdicts
  <2>2. CASE ~Late /\ pc' = "kill" /\ UNCHANGED <<expired, results, code, late>>
    BY <2>2, TestStepsAre
  <2>3. QED
    BY <1>2, <1>13, <2>1, <2>2, NothingSucceeds DEF FindPod
<1>14. CASE DeletePod
  <2>1. ~Late
    BY <1>2, <1>14 DEF DeletePod, LateSteps
  <2>2. CASE Finish("FAIL")
    BY <1>3, <2>2 DEF Verdicts
  <2>3. CASE Goto("recovery")
    BY <2>1, <2>3, TestStepsAre DEF Goto
  <2>4. QED
    BY <1>14, <2>2, <2>3 DEF DeletePod
<1>15. QED
  BY <1>4, <1>5, <1>6, <1>7, <1>8, <1>9, <1>10, <1>11, <1>12, <1>13, <1>14 DEF Test

\* A step of main comes before the first test, begins it or exits.
LEMMA MainStep ==
  ASSUME Main
  PROVE  /\ UNCHANGED <<expired, results, saw, blocked, victim>> /\ pc' \notin {"kill", "recovery", "dns", "report"}
         /\ \/ pc \in BeforeTests /\ pc' \in BeforeTests /\ UNCHANGED <<code, late>>
            \/ pc \in BeforeTests /\ StartTests /\ UNCHANGED code
            \/ /\ pc \in BeforeTests \cup {"report"} /\ UNCHANGED late
               /\ \E c \in {0, 1} : Exit(c) /\ (c = 0 => AllPassed)
<1> USE DEF BeforeTests, CreateSteps, Exit, StartTests, Continue, Goto, local, cluster, history
<1>1. CASE CheckPrerequisites
  BY <1>1, AllTestsIs DEF CheckPrerequisites
<1>2. CASE EnsureNamespace
  BY <1>2 DEF EnsureNamespace
<1>3. CASE RunVClusterCreate
  BY <1>3 DEF RunVClusterCreate
<1>4. CASE WaitVClusterReady \/ Sleep
  BY <1>4 DEF WaitVClusterReady, Sleep
<1>5. CASE ExportKubeconfig
  BY <1>5, AllTestsIs DEF ExportKubeconfig
<1>6. CASE Report
  BY <1>6 DEF Report
<1>7. QED
  BY <1>1, <1>2, <1>3, <1>4, <1>5, <1>6 DEF Main

\* A step of the world changes nothing of the probe but, for good, its clocks.
LEMMA WorldStep ==
  ASSUME (\E t \in Tenants : PodStep(t)) \/ Expire \/ Deadline \/ UNCHANGED vars
  PROVE  UNCHANGED <<pc, results, saw, blocked, victim, code, late>> /\ (expired => expired')
BY DEF PodStep, Expire, Deadline, vars, local, cluster, history

\* What a verdict does to the count of tests.
LEMMA FinishIs ==
  ASSUME Typed, pc \in TestSteps, NEW v \in Verdicts, Finish(v)
  PROVE  /\ Current \in Nat /\ Current >= 1 /\ Current <= 6 /\ Current' = Current + 1
         /\ DOMAIN results = 1..(Current - 1) /\ DOMAIN results' = 1..Current
         /\ results'[Current] = v /\ \A i \in DOMAIN results : results'[i] = results[i]
         /\ \/ /\ Current' \in 1..6 /\ pc' = allTests[Current']
               /\ late' = IF expired THEN late \cup {Current'} ELSE late
            \/ pc' = "report" /\ late' = late
<1>1. /\ results \in Seq(Verdicts) /\ Len(results) < Len(allTests) /\ results' = Append(results, v)
  BY DEF Typed, TypeOK, Finish
<1>2. /\ Len(results) \in Nat /\ Len(results) <= 5 /\ Len(results') = Len(results) + 1
      /\ DOMAIN results = 1..Len(results) /\ DOMAIN results' = 1..(Len(results) + 1)
      /\ results'[Len(results) + 1] = v /\ \A i \in DOMAIN results : results'[i] = results[i]
  BY <1>1, TestCount
<1>3. /\ Current = Len(results) + 1 /\ Current' = Len(results') + 1
  BY DEF Current
<1>4. /\ Current \in Nat /\ Current >= 1 /\ Current <= 6 /\ Current' = Current + 1
      /\ Len(results) = Current - 1 /\ Current' = Len(results) + 2
  BY <1>2, <1>3
<1>5. \/ /\ Current' \in DOMAIN allTests /\ pc' = allTests[Current']
         /\ late' = IF expired THEN late \cup {Current'} ELSE late
      \/ pc' = "report" /\ late' = late
  BY <1>4 DEF Finish
<1>6. QED
  BY <1>2, <1>3, <1>4, <1>5, TestCount

\* Nothing is judged before the first test; a late test stays where it began and,
\* if Test 2 takes samples at all, does not pass.
LEMMA LateStep ==
  ASSUME Typed, NothingJudgedYet, LateStaysAtItsStart, [Next]_vars
  PROVE  /\ NothingJudgedYet' /\ LateStaysAtItsStart'
         /\ SpeedSamples > 0 /\ NothingPassesLate => NothingPassesLate'
<1> DEFINE Goal == /\ NothingJudgedYet' /\ LateStaysAtItsStart'
                   /\ SpeedSamples > 0 /\ NothingPassesLate => NothingPassesLate'
<1>1. ASSUME Test, NEW v \in Verdicts, Finish(v), Current \in late /\ SpeedSamples > 0 => v # "PASS"
      PROVE  Goal
  <2>1. pc \in TestSteps /\ UNCHANGED expired
    BY <1>1, TestStep
  <2>2. /\ Current \in Nat /\ Current >= 1 /\ Current <= 6 /\ Current' = Current + 1
        /\ DOMAIN results = 1..(Current - 1) /\ DOMAIN results' = 1..Current
        /\ results'[Current] = v /\ \A i \in DOMAIN results : results'[i] = results[i]
        /\ \/ /\ Current' \in 1..6 /\ pc' = allTests[Current']
              /\ late' = IF expired THEN late \cup {Current'} ELSE late
           \/ pc' = "report" /\ late' = late
    BY <1>1, <2>1, FinishIs
  <2>3. late \subseteq 1..Current /\ (late # {} => expired)
    BY DEF LateStaysAtItsStart
  <2>4. late' \subseteq 1..Current' /\ (late' # {} => expired') /\ late' \subseteq late \cup {Current'}
    BY <2>1, <2>2, <2>3
  <2>5. "report" \notin TestSteps /\ Current' \notin late
    <3>1. "report" \notin TestSteps
      BY TestStepsAre
    <3>2. Current' \notin late
      BY <2>2, <2>3
    <3>3. QED
      BY <3>1, <3>2
  <2>6. LateStaysAtItsStart'
    BY <2>2, <2>4, <2>5 DEF LateStaysAtItsStart
  <2>7. pc' \notin BeforeTests
    <3>1. CASE pc' = "report"
      BY <3>1 DEF BeforeTests, CreateSteps
    <3>2. CASE pc' = allTests[Current'] /\ Current' \in 1..6
      <4>1. Current' = 1 \/ Current' = 2 \/ Current' = 3 \/ Current' = 4 \/ Current' = 5 \/ Current' = 6
        BY <3>2
      <4>2. QED
        BY <3>2, <4>1, AllTestsIs DEF BeforeTests, CreateSteps
    <3>3. QED
      BY <2>2, <3>1, <3>2
  <2>8. ASSUME SpeedSamples > 0, NothingPassesLate, NEW i \in late', i \in DOMAIN results'
        PROVE  results'[i] # "PASS"
    <3>1. i # Current' /\ i \in late
      BY <2>2, <2>4, <2>8
    <3>2. CASE i = Current
      BY <1>1, <2>2, <2>8, <3>1, <3>2
    <3>3. CASE i # Current
      <4>1. i \in DOMAIN results
        BY <2>2, <2>8, <3>3
      <4>2. QED
        BY <2>2, <2>8, <3>1, <4>1 DEF NothingPassesLate
    <3>4. QED
      BY <3>2, <3>3
  <2>9. QED
    BY <2>6, <2>7, <2>8 DEF NothingJudgedYet, NothingPassesLate
<1>2. ASSUME Test, pc' \in TestSteps, UNCHANGED <<results, late>>,
             Current \in late => pc' = pc \/ (Current = 4 /\ pc' = "top")
      PROVE  Goal
  <2>1. pc \in TestSteps /\ UNCHANGED expired /\ Current' = Current
    BY <1>2, TestStep DEF Current
  <2>2. pc' \notin BeforeTests
    BY <1>2, TestStepsAre DEF BeforeTests, CreateSteps
  <2>3. LateStaysAtItsStart'
    BY <1>2, <2>1 DEF LateStaysAtItsStart
  <2>4. NothingPassesLate => NothingPassesLate'
    BY <1>2 DEF NothingPassesLate
  <2>5. QED
    BY <2>2, <2>3, <2>4 DEF NothingJudgedYet
<1>3. CASE Main
  <2>1. UNCHANGED <<expired, results>> /\ Current' = Current
    BY <1>3, MainStep DEF Current
  <2>2. CASE pc \in BeforeTests /\ pc' \in BeforeTests /\ UNCHANGED <<code, late>>
    <3>1. pc' \notin TestSteps
      BY <2>2, TestStepsAre DEF BeforeTests, CreateSteps
    <3>2. QED
      BY <2>1, <2>2, <3>1 DEF NothingJudgedYet, LateStaysAtItsStart, NothingPassesLate
  <2>3. CASE pc \in BeforeTests /\ StartTests
    <3>1. results = <<>> /\ late = {}
      BY <2>3 DEF NothingJudgedYet
    <3>2. Current = 1 /\ DOMAIN results = {}
      BY <3>1 DEF Current
    <3>3. /\ pc' = allTests[1] /\ pc' \notin BeforeTests
          /\ late' = IF expired THEN {1} ELSE {}
      BY <2>3, AllTestsIs DEF StartTests, BeforeTests, CreateSteps
    <3>4. QED
      BY <2>1, <3>1, <3>2, <3>3 DEF NothingJudgedYet, LateStaysAtItsStart, NothingPassesLate
  <2>4. CASE UNCHANGED late /\ \E c \in {0, 1} : Exit(c)
    <3>1. pc' = "exited" /\ pc' \notin TestSteps /\ pc' \notin BeforeTests
      BY <2>4, TestStepsAre DEF Exit, BeforeTests, CreateSteps
    <3>2. QED
      BY <2>1, <2>4, <3>1 DEF NothingJudgedYet, LateStaysAtItsStart, NothingPassesLate
  <2>5. QED
    BY <1>3, <2>2, <2>3, <2>4, MainStep
<1>4. CASE (\E t \in Tenants : PodStep(t)) \/ Expire \/ Deadline \/ UNCHANGED vars
  <2>1. UNCHANGED <<pc, results, late>> /\ (expired => expired') /\ Current' = Current
    BY <1>4, WorldStep DEF Current
  <2>2. QED
    BY <2>1 DEF NothingJudgedYet, LateStaysAtItsStart, NothingPassesLate
<1>5. QED
  BY <1>1, <1>2, <1>3, <1>4, TestStep DEF Next

-----------------------------------------------------------------------------
(* What a command has reported open.                                       *)

\* A FAIL is among the results, and stays there.
LEMMA FailStays ==
  ASSUME Typed
  PROVE  /\ \A v \in Verdicts : pc \in TestSteps /\ Finish(v) /\ (v = "FAIL" \/ ~AllPassed) => ~AllPassed'
         /\ UNCHANGED results /\ ~AllPassed => ~AllPassed'
<1>1. ASSUME NEW v \in Verdicts, pc \in TestSteps, Finish(v)
      PROVE  v = "FAIL" \/ ~AllPassed => ~AllPassed'
  <2>1. /\ Current \in Nat /\ Current >= 1
        /\ DOMAIN results = 1..(Current - 1) /\ DOMAIN results' = 1..Current
        /\ results'[Current] = v /\ \A i \in DOMAIN results : results'[i] = results[i]
    BY <1>1, FinishIs
  <2>2. Current \in DOMAIN results' /\ DOMAIN results \subseteq DOMAIN results'
    BY <2>1
  <2>3. QED
    BY <2>1, <2>2 DEF AllPassed
<1>2. QED
  BY <1>1 DEF AllPassed

\* Between a probe that gets through and the exit code nothing loses it, but for
\* a name whose output has a word of failure as well.
LEMMA ReachStep ==
  ASSUME Typed, ReachIsNoted, [Next]_vars
  PROVE  ReachIsNoted'
<1> USE DEF ReachIsNoted
<1>1. ASSUME UNCHANGED <<pc, results, saw, blocked>>
      PROVE  ReachIsNoted'
  BY <1>1 DEF AllPassed
<1>2. ASSUME pc # "dns", UNCHANGED saw, UNCHANGED results \/ (pc \in TestSteps /\ \E v \in Verdicts : Finish(v))
      PROVE  ReachIsNoted'
  BY <1>2, FailStays
<1>3. CASE RunSetup \/ DeleteAttempt \/ DetectCilium \/ TargetIP
  <2>1. pc \in TestSteps /\ pc # "dns" /\ UNCHANGED saw
    BY <1>3, SetupIs, TestStepsAre DEF RunSetup, DeleteAttempt, DetectCilium, TargetIP, history
  <2>2. UNCHANGED results \/ \E v \in Verdicts : Finish(v)
    BY <1>3 DEF RunSetup, DeleteAttempt, DetectCilium, TargetIP, Goto, Verdicts
  <2>3. QED
    BY <1>2, <2>1, <2>2
<1>4. CASE ApplyNATS \/ WaitNATS \/ Settle \/ PauseSampling \/ SampleOverhead
  <2>1. pc \in TestSteps /\ pc # "dns" /\ UNCHANGED saw
    BY <1>4, TestStepsAre DEF ApplyNATS, WaitNATS, Settle, PauseSampling, SampleOverhead
  <2>2. UNCHANGED results \/ \E v \in Verdicts : Finish(v)
    <3>1. CASE ApplyNATS
      BY <3>1, VerdictsAre DEF ApplyNATS, AddSpeedSample, Keep, Goto
    <3>2. CASE WaitNATS
      BY <3>2, VerdictsAre DEF WaitNATS, AddSpeedSample, Keep
    <3>3. CASE Settle \/ PauseSampling
      BY <3>3, VerdictsAre DEF Settle, PauseSampling, Goto, Verdicts
    <3>4. CASE SampleOverhead
      <4>1. PICK podsA, podsB :
              CASE TopError \in {podsA, podsB} -> Finish("FAIL")
                [] {podsA, podsB} = {<<>>}     -> Finish(IF samples = <<>> THEN "SKIP" ELSE OverheadVerdict(samples))
                [] OTHER                       -> AddOverheadSample(podsA, podsB)
        BY <3>4 DEF SampleOverhead
      <4>2. \/ Finish("FAIL")
            \/ Finish(IF samples = <<>> THEN "SKIP" ELSE OverheadVerdict(samples))
            \/ AddOverheadSample(podsA, podsB)
        BY <4>1
      <4>3. QED
        BY <4>2, VerdictsAre DEF AddOverheadSample, Keep, Verdicts
    <3>5. QED
      BY <1>4, <3>1, <3>2, <3>3, <3>4
  <2>3. QED
    BY <1>2, <2>1, <2>2
<1>5. CASE FindPod \/ DeletePod \/ WaitRecovery
  <2>1. pc \in TestSteps /\ pc # "dns" /\ UNCHANGED saw
    BY <1>5, TestStepsAre DEF FindPod, DeletePod, WaitRecovery
  <2>2. UNCHANGED results \/ \E v \in Verdicts : Finish(v)
    BY <1>5 DEF FindPod, DeletePod, WaitRecovery, Goto, Verdicts
  <2>3. QED
    BY <1>2, <2>1, <2>2
<1>6. CASE DirectProbe
  <2>1. PICK out \in RunInPod("a", "netprobe", ncPrints("ip" \in open)) :
          blocked' = isConnectionBlocked(out) /\ See(out, "ip", "ip" \in open)
    BY <1>6 DEF DirectProbe
  <2>2. pc = "direct" /\ pc' = "dns" /\ UNCHANGED results
    BY <1>6 DEF DirectProbe
  <2>3. CASE "ip" \in open /\ ~out.err
    <3>1. out.says = {"reach"}
      BY <2>3, ProbePrints DEF ncPrints
    <3>2. QED
      BY <2>1, <2>2, <3>1, <2>3 DEF isConnectionBlocked
  <2>4. CASE ~("ip" \in open /\ ~out.err)
    BY <1>2, <2>1, <2>2, <2>4 DEF See
  <2>5. QED
    BY <2>3, <2>4
<1>7. CASE DNSProbe
  <2>1. PICK out \in RunInPod("a", "netprobe", nslookupPrints("dns" \in open)) :
          /\ Finish(IF blocked /\ isDNSBlocked(out) THEN "PASS" ELSE "FAIL")
          /\ See(out, "dns", "dns" \in open)
    BY <1>7 DEF DNSProbe
  <2>2. pc \in TestSteps /\ pc = "dns" /\ \E v \in Verdicts : Finish(v)
    BY <1>7, <2>1, TestStepsAre DEF DNSProbe, Verdicts
  <2>3. CASE ~(blocked /\ isDNSBlocked(out))
    <3>1. Finish("FAIL")
      BY <2>1, <2>3
    <3>2. QED
      BY <2>2, <3>1, FailStays DEF Verdicts
  <2>4. CASE blocked /\ isDNSBlocked(out)
    <3>1. saw' \subseteq saw \cup Overlooked
      <4>1. CASE "dns" \in open /\ ~out.err
        <5>1. out.says = {"reach"} \/ out.says = Signals
          BY <4>1, ProbePrints DEF nslookupPrints, ncPrints
        <5>2. out.says = Signals
          BY <2>4, <5>1 DEF isDNSBlocked
        <5>3. QED
          BY <2>1, <5>2 DEF See, Overlooked
      <4>2. CASE ~("dns" \in open /\ ~out.err)
        BY <2>1, <4>2 DEF See
      <4>3. QED
        BY <4>1, <4>2
    <3>2. saw \subseteq Overlooked \/ ~AllPassed
      BY <2>4
    <3>3. QED
      BY <2>2, <3>1, <3>2, FailStays
  <2>5. QED
    BY <2>3, <2>4
<1>8. CASE CiliumProbe
  <2> DEFINE reached == target = "echo" /\ "host" \in open
  <2>1. PICK out \in RunInPod("host", "cilium-probe", ncPrints(reached)) :
          /\ Finish(IF isConnectionBlocked(out) THEN "PASS" ELSE "FAIL")
          /\ See(out, "host", reached)
    BY <1>8 DEF CiliumProbe
  <2>2. pc \in TestSteps /\ pc = "nc"
    BY <1>8, TestStepsAre DEF CiliumProbe
  <2>3. CASE reached /\ ~out.err
    <3>1. out.says = {"reach"}
      BY <2>3, ProbePrints DEF ncPrints
    <3>2. Finish("FAIL")
      BY <2>1, <3>1 DEF isConnectionBlocked
    <3>3. QED
      BY <2>2, <3>2, FailStays DEF Verdicts
  <2>4. CASE ~(reached /\ ~out.err)
    <3>1. UNCHANGED saw /\ \E v \in Verdicts : Finish(v)
      BY <2>1, <2>4 DEF See, Verdicts
    <3>2. QED
      BY <1>2, <2>2, <3>1
  <2>5. QED
    BY <2>3, <2>4
<1>9. CASE Main
  <2>1. pc # "dns" /\ UNCHANGED <<saw, results>>
    BY <1>9, MainStep DEF BeforeTests, CreateSteps
  <2>2. QED
    BY <1>2, <2>1
<1>10. CASE (\E t \in Tenants : PodStep(t)) \/ Expire \/ Deadline \/ UNCHANGED vars
  BY <1>1, <1>10, WorldStep
<1>11. QED
  BY <1>3, <1>4, <1>5, <1>6, <1>7, <1>8, <1>9, <1>10 DEF Next, Test

\* The exit code is that of the verdicts.
LEMMA ExitStep ==
  ASSUME Typed, LateStaysAtItsStart, ExitCodeFits, [Next]_vars
  PROVE  ExitCodeFits'
<1> USE DEF ExitCodeFits
<1>1. CASE Test
  <2>1. pc # "exited" /\ UNCHANGED code
    BY <1>1, TestStep, TestStepsAre
  <2>2. code # 0
    <3>1. code = NoCode
      BY <2>1 DEF Typed, TypeOK
    <3>2. NoCode # 0
      BY DEF NoCode
    <3>3. QED
      BY <3>1, <3>2
  <2>3. QED
    BY <2>1, <2>2
<1>2. CASE Main
  <2>1. UNCHANGED results
    BY <1>2, MainStep
  <2>2. UNCHANGED code \/ \E c \in {0, 1} : code' = c /\ (c = 0 => AllPassed)
    BY <1>2, MainStep DEF Exit
  <2>3. QED
    BY <2>1, <2>2 DEF AllPassed
<1>3. CASE (\E t \in Tenants : PodStep(t)) \/ Expire \/ Deadline \/ UNCHANGED vars
  BY <1>3, WorldStep DEF AllPassed
<1>4. QED
  BY <1>1, <1>2, <1>3 DEF Next

-----------------------------------------------------------------------------
(* The pod of Test 6.                                                      *)

\* Only two commands lead to what Test 6 does with the pod it found.
LEMMA TowardsRecovery ==
  ASSUME Typed, Test, pc' \in {"kill", "recovery"}
  PROVE  /\ UNCHANGED births
         /\ \/ pc' = "kill" /\ victim' = births["a"]
            \/ pc = "kill" /\ pc' = "recovery" /\ UNCHANGED victim /\ api'["a"] = "none"
<1>1. ASSUME pc \in TestSteps, NEW v \in Verdicts, Finish(v)
      PROVE  FALSE
  <2>1. /\ Current \in Nat /\ Current >= 1 /\ Current <= 6 /\ Current' = Current + 1
        /\ (Current' \in 1..6 /\ pc' = allTests[Current']) \/ pc' = "report"
    BY <1>1, FinishIs
  <2>2. Current' \in 1..6 =>
          Current' = 1 \/ Current' = 2 \/ Current' = 3 \/ Current' = 4 \/ Current' = 5 \/ Current' = 6
    BY <2>1
  <2>3. QED
    BY <2>1, <2>2, AllTestsIs
<1>2. CASE RunSetup
  <2>1. pc \in TestSteps /\ pc \in DOMAIN Setup /\ (pc' = Setup[pc][2] \/ Finish("FAIL"))
    BY <1>2, TestStepsAre, SetupIs DEF RunSetup, Goto
  <2>2. QED
    BY <1>1, <2>1, SetupIs DEF Verdicts
<1>3. CASE DirectProbe \/ TargetIP
  BY <1>3 DEF DirectProbe, TargetIP
<1>4. CASE DNSProbe \/ DeleteAttempt \/ CiliumProbe \/ WaitRecovery
  <2>1. pc \in TestSteps /\ \E v \in Verdicts : Finish(v)
    BY <1>4, TestStepsAre DEF DNSProbe, DeleteAttempt, CiliumProbe, WaitRecovery, Verdicts
  <2>2. QED
    BY <1>1, <2>1
<1>5. CASE ApplyNATS \/ WaitNATS
  <2>1. pc \in TestSteps /\ (pc' \in {"nats", "nats ready"} \/ \E v \in Verdicts : Finish(v))
    BY <1>5, TestStepsAre, VerdictsAre DEF ApplyNATS, WaitNATS, AddSpeedSample, Keep, Goto
  <2>2. QED
    BY <1>1, <2>1
<1>6. CASE Settle \/ PauseSampling
  <2>1. pc \in TestSteps /\ (pc' = "top" \/ \E v \in Verdicts : Finish(v))
    BY <1>6, TestStepsAre, VerdictsAre DEF Settle, PauseSampling, Goto, Verdicts
  <2>2. QED
    BY <1>1, <2>1
<1>7. CASE SampleOverhead
  <2>1. PICK podsA, podsB :
          CASE TopError \in {podsA, podsB} -> Finish("FAIL")
            [] {podsA, podsB} = {<<>>}     -> Finish(IF samples = <<>> THEN "SKIP" ELSE OverheadVerdict(samples))
            [] OTHER                       -> AddOverheadSample(podsA, podsB)
    BY <1>7 DEF SampleOverhead
  <2>2. \/ Finish("FAIL")
        \/ Finish(IF samples = <<>> THEN "SKIP" ELSE OverheadVerdict(samples))
        \/ AddOverheadSample(podsA, podsB)
    BY <2>1
  <2>3. pc \in TestSteps /\ (pc' = "pause" \/ \E v \in Verdicts : Finish(v))
    BY <1>7, <2>2, TestStepsAre, VerdictsAre DEF SampleOverhead, AddOverheadSample, Keep, Verdicts
  <2>4. QED
    BY <1>1, <2>3
<1>8. CASE DetectCilium
  <2>1. pc \in TestSteps /\ (pc' = "cilium-probe" \/ Finish("SKIP"))
    BY <1>8, TestStepsAre DEF DetectCilium, Goto
  <2>2. QED
    BY <1>1, <2>1 DEF Verdicts
<1>9. CASE DeletePod
  <2>1. pc \in TestSteps /\ pc = "kill" /\ UNCHANGED births
    BY <1>9, TestStepsAre DEF DeletePod
  <2>2. \/ Goto("recovery") /\ api' = [api EXCEPT !["a"] = "none"]
        \/ Finish("FAIL")
    BY <1>9 DEF DeletePod
  <2>3. CASE Goto("recovery") /\ api' = [api EXCEPT !["a"] = "none"]
    BY <2>1, <2>3 DEF Goto, local, Typed, TypeOK, Tenants
  <2>4. QED
    BY <1>1, <2>1, <2>2, <2>3 DEF Verdicts
<1>10. CASE FindPod
  <2>1. pc \in TestSteps /\ UNCHANGED births
    BY <1>10, TestStepsAre DEF FindPod, cluster
  <2>2. (pc' = "kill" /\ victim' = births["a"]) \/ Finish("FAIL")
    BY <1>10 DEF FindPod
  <2>3. QED
    BY <1>1, <2>1, <2>2 DEF Verdicts
<1>11. QED
  BY <1>2, <1>3, <1>4, <1>5, <1>6, <1>7, <1>8, <1>9, <1>10 DEF Test

\* A pod that is there after the deletion has come after the one found.
LEMMA FoundStep ==
  ASSUME Typed, LateStaysAtItsStart, FoundIsGone, [Next]_vars
  PROVE  FoundIsGone'
<1> USE DEF FoundIsGone
<1>1. /\ births["a"] \in Nat /\ victim \in Nat
      /\ api \in [Tenants -> {"none", "starting", "ready"}] /\ births \in [Tenants -> 0..MaxBirths]
  <2>1. /\ victim \in 0..MaxBirths /\ MaxBirths \in Nat /\ "a" \in Tenants
        /\ api \in [Tenants -> {"none", "starting", "ready"}] /\ births \in [Tenants -> 0..MaxBirths]
    BY FlagsAreSane DEF Typed, TypeOK, Tenants
  <2>2. QED
    BY <2>1
<1>2. CASE Test
  <2>1. SUFFICES ASSUME pc' \in {"kill", "recovery"} PROVE FoundIsGone'
    OBVIOUS
  <2>2. /\ UNCHANGED births
        /\ \/ pc' = "kill" /\ victim' = births["a"]
           \/ pc = "kill" /\ pc' = "recovery" /\ UNCHANGED victim /\ api'["a"] = "none"
    BY <1>2, <2>1, TowardsRecovery
  <2>3. QED
    BY <1>1, <2>2
<1>3. CASE Main
  BY <1>3, MainStep
<1>4. ASSUME NEW t \in Tenants, PodStep(t)
      PROVE  FoundIsGone'
  <2>1. UNCHANGED <<pc, victim>>
    BY <1>4 DEF PodStep, local
  <2>2. \/ births' = births /\ api[t] # "none" /\ \E p : api' = [api EXCEPT ![t] = p]
        \/ api' = [api EXCEPT ![t] = "starting"] /\ births' = [births EXCEPT ![t] = births[t] + 1]
    BY <1>4 DEF PodStep
  <2>3. QED
    BY <1>1, <2>1, <2>2 DEF Tenants
<1>5. CASE Expire \/ Deadline \/ UNCHANGED vars
  <2>1. UNCHANGED <<pc, victim, api, births>>
    BY <1>5 DEF Expire, Deadline, vars, local, cluster
  <2>2. QED
    BY <2>1
<1>6. QED
  BY <1>2, <1>3, <1>4, <1>5 DEF Next

\* Every behaviour keeps the invariant.
LEMMA Invariance == Spec => []IInv
<1>1. IInv /\ [Next]_vars => IInv'
  BY StepTyped, LateStep, ReachStep, ExitStep, FoundStep DEF IInv
<1>2. QED
  BY InitInv, <1>1, PTL DEF Spec

-----------------------------------------------------------------------------
\* Every variable keeps its type: a test has no more samples than were asked for,
\* there are no more verdicts than tests, and only an exit sets the exit code.
THEOREM TypeCorrect == Spec => []TypeOK
<1>1. IInv => TypeOK
  BY DEF IInv, Typed
<1>2. QED
  BY Invariance, <1>1, PTL

\* An exit of 0 means that no connection of the run has reached tenant-B and that
\* no name was resolved in an output without a word of failure, whatever failed,
\* died or timed out around it.
THEOREM ReachIsReported == Spec => []ReachFailsTheRun
<1>1. IInv => ReachFailsTheRun
  <2> SUFFICES ASSUME IInv, code = 0 PROVE saw \subseteq {<<"dns", Signals>>}
    BY DEF ReachFailsTheRun
  <2>1. AllPassed
    BY DEF IInv, ExitCodeFits
  <2>2. pc = "exited"
    <3>1. NoCode # 0
      BY DEF NoCode
    <3>2. QED
      BY <3>1 DEF IInv, Typed, TypeOK
  <2>3. QED
    BY <2>1, <2>2 DEF IInv, ReachIsNoted, Overlooked
<1>2. QED
  BY Invariance, <1>1, PTL

\* A test that begins with the context done does not pass, provided that Test 2
\* is asked for a sample: with -speed-samples 0 it passes, late or not.
THEOREM LateTestsDoNotPass ==
  ASSUME SpeedSamples > 0
  PROVE  Spec => []NothingPassesLate
<1>1. Init => NothingPassesLate
  BY DEF Init, NothingPassesLate
<1>2. IInv /\ NothingPassesLate /\ [Next]_vars => NothingPassesLate'
  BY LateStep DEF IInv
<1>3. QED
  BY Invariance, <1>1, <1>2, PTL DEF Spec

\* When Test 6 passes, a pod that came after the one it had found is ready.
THEOREM RecoveredForReal == Spec => RecoveryIsReal
<1>1. ASSUME IInv, [Next]_vars
      PROVE  [pc = "recovery" /\ pc' = "report" /\ Last(results') = "PASS"
                => births["a"] > victim /\ api["a"] = "ready"]_vars
  <2>1. SUFFICES ASSUME pc = "recovery", pc' = "report", Last(results') = "PASS"
                 PROVE  births["a"] > victim /\ api["a"] = "ready"
    OBVIOUS
  <2>2. WaitRecovery
    <3>1. ~Main
      BY <2>1, MainStep DEF BeforeTests, CreateSteps
    <3>2. ~((\E t \in Tenants : PodStep(t)) \/ Expire \/ Deadline \/ UNCHANGED vars)
      BY <2>1, WorldStep
    <3>3. Test
      BY <1>1, <3>1, <3>2 DEF Next
    <3>4. pc \notin DOMAIN Setup
      BY <2>1, SetupIs
    <3>5. QED
      BY <2>1, <3>3, <3>4 DEF Test, RunSetup, DirectProbe, DNSProbe, ApplyNATS, WaitNATS, DeleteAttempt, Settle,
         PauseSampling, SampleOverhead, DetectCilium, TargetIP, CiliumProbe, FindPod, DeletePod
  <2>3. PICK ok \in Succeeds(api["a"] = "ready"), d \in Durations :
          Finish(IF ok /\ d <= ReadySeconds THEN "PASS" ELSE "FAIL")
    BY <2>2 DEF WaitRecovery
  <2>4. ok
    <3>1. PICK v \in Verdicts : Finish(v) /\ (~ok => v = "FAIL")
      BY <2>3 DEF Verdicts
    <3>2. results \in Seq(Verdicts) /\ results' = Append(results, v)
      BY <1>1, <3>1 DEF IInv, Typed, TypeOK, Finish
    <3>3. Last(results') = v
      BY <3>2 DEF Last
    <3>4. QED
      BY <2>1, <3>1, <3>3
  <2>5. api["a"] = "ready"
    BY <2>3, <2>4 DEF Succeeds
  <2>6. /\ victim < births["a"] /\ victim \in 0..MaxBirths /\ births["a"] \in 0..MaxBirths
    BY <1>1, <2>1, <2>5 DEF IInv, FoundIsGone, Typed, TypeOK, Tenants
  <2>7. QED
    BY <2>5, <2>6, FlagsAreSane
<1>2. QED
  BY Invariance, <1>1, PTL DEF Spec, RecoveryIsReal
=============================================================================
