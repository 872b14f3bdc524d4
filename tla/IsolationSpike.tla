--------------------------- MODULE IsolationSpike ---------------------------
(***************************************************************************)
(* The probe of spikes/tenant-isolation: it makes two vClusters, runs six  *)
(* tests against them in a fixed order under one thirty-minute context,    *)
(* and exits 0 unless one of them says FAIL.                               *)
(*                                                                         *)
(* Every command of kubectl or vcluster is a step.  Around it the cluster  *)
(* goes its own way: API-server pods start, become ready and die, and the  *)
(* context may end between any two commands.  What tenant-A can really     *)
(* reach is fixed at the start and hidden from the probe, which sees it    *)
(* only through the output of its commands.                                *)
(*                                                                         *)
(* Durations and loads are small numbers around a threshold; CPU and RAM,  *)
(* measured and judged alike, are one load.                                *)
(***************************************************************************)
EXTENDS Integers, FiniteSets, Sequences, SequencesExt

CONSTANTS
  SpeedSamples, OverheadSamples, \* -speed-samples and -overhead-samples
  Paced,      \* whether -overhead-wait and -overhead-interval are set
  SkipCreate, \* the values of -skip-create
  Durations, Loads,         \* what a measurement may read
  ReadySeconds, MaxIdle,    \* the thresholds of times and of loads
  MaxBirths   \* bound on the API-server pods of one vCluster

ASSUME FlagsAreSane ==
  /\ SpeedSamples \in Nat /\ OverheadSamples \in Nat \ {0}
  /\ Paced \in BOOLEAN /\ SkipCreate \subseteq BOOLEAN
  /\ Durations \subseteq Nat /\ Loads \subseteq Nat
  /\ ReadySeconds \in Nat /\ MaxIdle \in Nat /\ MaxBirths \in Nat \ {0}

VARIABLES
  pc,       \* the command the probe is about to run
  tenant,   \* the vCluster being created
  elapsed,  \* how long creating tenant-A's took, 0 with -skip-create
  expired,  \* whether the context is done
  timeUp,   \* whether the deadline of waitVClusterReady has passed
  samples,  \* the samples of the test under way
  blocked,  \* whether Test 1's direct probe looked blocked
  target,   \* what Test 5 probes
  victim,   \* which of tenant-A's pods Test 6 has found, 0 before
  results,  \* the verdicts so far, in test order
  code,     \* the exit code
  api,      \* each vCluster's API-server pod
  births,   \* how many such pods it has had
  files,    \* each tenant's kubeconfig file
  open,     \* the ways from tenant-A into tenant-B that are really open
  saw,      \* (history) the ways a command got through, each with what it printed
  late      \* (history) tests that began with the context done

cluster == <<api, births, open>>
local   == <<tenant, elapsed, timeUp, samples, blocked, target, victim>>
history == <<saw, late>>
vars    == <<pc, local, expired, results, code, cluster, files, history>>

-----------------------------------------------------------------------------
Tenants  == {"a", "b"}
Places   == Tenants \cup {"host"}
Routes   == {"ip", "dns", "host"}
Signals  == {"failure", "reach"} \* the words a test looks for in an output
NoCode   == -1
Verdicts == {"PASS", "FAIL", "SKIP"}

\* The tests in the order of the runner, each by its first command.
allTests == <<"echo", "nats", "config map", "settle", "cilium", "find">>

\* Commands that only have to succeed: where each runs and what follows; else
\* the test they belong to fails.
Setup ==
  [s \in {"echo", "echo ready", "echo IP", "netprobe", "netprobe ready",
          "config map", "cilium-probe", "cilium-probe ready"} |->
    CASE s = "echo"               -> <<"b", "echo ready">>
      [] s = "echo ready"         -> <<"b", "echo IP">>
      [] s = "echo IP"            -> <<"b", "netprobe">>
      [] s = "netprobe"           -> <<"a", "netprobe ready">>
      [] s = "netprobe ready"     -> <<"a", "direct">>
      [] s = "config map"         -> <<"a", "delete attempt">>
      [] s = "cilium-probe"       -> <<"host", "cilium-probe ready">>
      [] s = "cilium-probe ready" -> <<"host", "target IP">>]

CreateSteps == {"namespace", "create", "wait", "sleep", "export"}
TestSteps ==
  DOMAIN Setup \cup {"direct", "dns", "nats", "nats ready", "delete attempt", "settle",
                     "pause", "top", "cilium", "target IP", "nc", "find", "kill", "recovery"}

TypeOK ==
  /\ pc \in {"tools", "report", "exited"} \cup CreateSteps \cup TestSteps
  /\ tenant \in Tenants /\ elapsed \in Durations \cup {0}
  /\ expired \in BOOLEAN /\ timeUp \in BOOLEAN /\ blocked \in BOOLEAN
  /\ samples \in Seq([err : BOOLEAN, nats : Durations \cup {0}]) \/ samples \in Seq([Tenants -> Loads \cup {0}])
  /\ pc \in {"nats", "nats ready"} => Len(samples) < SpeedSamples \/ SpeedSamples = 0
  /\ pc \in {"pause", "top"} => Len(samples) < OverheadSamples
  /\ pc \notin {"nats", "nats ready", "pause", "top"} => samples = <<>>
  /\ target \in {"none", "echo", "stand-in"} /\ victim \in 0..MaxBirths
  /\ results \in Seq(Verdicts) /\ Len(results) <= Len(allTests)
  /\ pc \in TestSteps => Len(results) < Len(allTests)
  /\ code \in {NoCode, 0, 1} /\ (pc = "exited" <=> code # NoCode)
  /\ api \in [Tenants -> {"none", "starting", "ready"}]
  /\ births \in [Tenants -> 0..MaxBirths]
  /\ files \in [Tenants -> {"none", "empty", "good"}]
  /\ saw \subseteq open \X SUBSET Signals /\ open \subseteq Routes
  /\ late \subseteq 1..Len(allTests)

\* vClusters and files may be left from an earlier run.
Init ==
  /\ pc = "tools" /\ tenant = "a" /\ elapsed = 0 /\ timeUp = FALSE /\ expired = FALSE
  /\ samples = <<>> /\ blocked = FALSE /\ target = "none" /\ victim = 0
  /\ results = <<>> /\ code = NoCode
  /\ \E old \in SUBSET Tenants :
       /\ api = [t \in Tenants |-> IF t \in old THEN "ready" ELSE "none"]
       /\ births = [t \in Tenants |-> IF t \in old THEN 1 ELSE 0]
       /\ files = [t \in Tenants |-> IF t \in old THEN "good" ELSE "none"]
  /\ open \in SUBSET Routes
  /\ saw = {} /\ late = {}

-----------------------------------------------------------------------------
(* Commands.                                                               *)

\* (Mutant) Commands that run in a context of their own.
InBackground(possible) == IF possible THEN BOOLEAN ELSE {FALSE}

\* Whether a command succeeds: any may fail, and with the context done it does
\* not start.
Succeeds(possible) == IF possible /\ ~expired THEN BOOLEAN ELSE {FALSE}

\* --kubeconfig needs a file that leads to the vCluster; "host" needs none.
Addressable(where) == where = "host" \/ (where \in Tenants /\ files[where] = "good" /\ api[where] # "none")

\* The pods the tests have made by the time they exec into one.
Deployed == {<<"a", "netprobe">>, <<"b", "echo-server">>, <<"host", "cilium-probe">>}

\* nc tries one address and says how that went.
ncPrints(reached) == {{IF reached THEN "reach" ELSE "failure"}}

\* nslookup names the server it asks ("Address:") before it says that there is no
\* such name, and asks for IPv4 and IPv6: of a name with an address of one kind
\* it also says that it "can't find" the other.
nslookupPrints(reached) == ncPrints(reached) \cup {Signals}

\* RunInPod returns stdout and stderr in one.  An exec may fail by itself, and
\* kubectl's own words may be any.
RunInPod(where, pod, prints) ==
  UNION {[err : {~ok}, says : IF ok THEN prints ELSE SUBSET Signals] :
           ok \in Succeeds(Addressable(where) /\ <<where, pod>> \in Deployed)}

\* The classifiers look for words of failure first.
isConnectionBlocked(out) == "failure" \in out.says \/ "reach" \notin out.says
isDNSBlocked(out)        == "failure" \in out.says \/ "reach" \notin out.says
isTenantBScopedOut(out)  == out.err \/ "failure" \in out.says \/ "reach" \notin out.says

Goto(p)     == pc' = p /\ UNCHANGED <<local, expired, results, code, late>>
Continue(p) == Goto(p) /\ UNCHANGED <<cluster, files, saw>>

See(out, route, reached) ==
  saw' = IF reached /\ ~out.err THEN saw \cup {<<route, out.says>>} ELSE saw

Exit(c) ==
  /\ pc' = "exited" /\ code' = c
  /\ UNCHANGED <<local, expired, results, cluster, files, history>>

\* A test returns and RunAll begins the next one, or has none left.
Finish(verdict) ==
  LET next == Len(results) + 2
  IN /\ results' = Append(results, verdict)
     /\ pc' = IF next \in DOMAIN allTests THEN allTests[next] ELSE "report"
     /\ late' = IF expired /\ next \in DOMAIN allTests THEN late \cup {next} ELSE late
     /\ samples' = <<>> /\ target' = "none" /\ victim' = 0 /\ blocked' = FALSE
     /\ UNCHANGED <<tenant, elapsed, timeUp, expired, code>>

-----------------------------------------------------------------------------
(* main: the tools, then each vCluster, then the tests.                    *)

StartTests ==
  /\ pc' = allTests[1]
  /\ late' = IF expired THEN {1} ELSE {}

CheckPrerequisites ==
  /\ pc = "tools"
  /\ \/ Exit(1)
     \/ /\ \E skip \in SkipCreate :
             IF skip THEN StartTests ELSE pc' = "namespace" /\ UNCHANGED late
        /\ UNCHANGED <<local, expired, results, code, cluster, files, saw>>

EnsureNamespace ==
  /\ pc = "namespace"
  /\ \E ok \in Succeeds(TRUE) :
       IF ok THEN Continue("create") ELSE Exit(1)

RunVClusterCreate ==
  /\ pc = "create"
  /\ \E ok \in Succeeds(TRUE) :
       IF ok
       THEN /\ pc' = "wait" /\ timeUp' = FALSE
            /\ IF api[tenant] = "none" /\ births[tenant] = 0
               THEN /\ api' = [api EXCEPT ![tenant] = "starting"]
                    /\ births' = [births EXCEPT ![tenant] = 1]
               ELSE UNCHANGED <<api, births>>
            /\ UNCHANGED <<tenant, elapsed, samples, blocked, target, victim, expired, results, code, open, files, history>>
       ELSE Exit(1)

\* `vcluster list`, or the phase of the pod, which is Running before it is ready.
isVClusterRunning(t) == {FALSE} \cup (IF api[t] # "none" /\ ~expired THEN {TRUE} ELSE {})

\* (Mutant) A wait without its deadline.
WaitForever ==
  /\ pc = "wait"
  /\ IF expired
     THEN Exit(1)
     ELSE \E running \in isVClusterRunning(tenant) :
            Continue(IF running THEN "export" ELSE "sleep")

\* One round of waitVClusterReady, which tests the deadline and the context first.
WaitVClusterReady ==
  /\ pc = "wait"
  /\ IF timeUp \/ expired
     THEN Exit(1)
     ELSE \E running \in isVClusterRunning(tenant) :
            Continue(IF running THEN "export" ELSE "sleep")

Sleep == pc = "sleep" /\ Continue("wait")

\* The file gets whatever was printed; CreateVCluster's time is kept for tenant-A.
ExportKubeconfig ==
  /\ pc = "export"
  /\ \E ok \in Succeeds(api[tenant] = "ready") :
       IF ok
       THEN /\ \E printed \in {"empty", "good"} : files' = [files EXCEPT ![tenant] = printed]
            /\ IF tenant = "a"
               THEN pc' = "namespace" /\ tenant' = "b" /\ elapsed' \in Durations /\ UNCHANGED late
               ELSE StartTests /\ UNCHANGED <<tenant, elapsed>>
            /\ UNCHANGED <<timeUp, samples, blocked, target, victim, expired, results, code, cluster, saw>>
       ELSE Exit(1)

AllPassed == \A i \in DOMAIN results : results[i] # "FAIL"

Report == pc = "report" /\ Exit(IF AllPassed THEN 0 ELSE 1)

-----------------------------------------------------------------------------
(* The tests.  A command changes nothing of the cluster but DeletePod.     *)

RunSetup ==
  /\ pc \in DOMAIN Setup
  /\ \E ok \in Succeeds(Addressable(Setup[pc][1])) :
       IF ok THEN Goto(Setup[pc][2]) ELSE Finish("FAIL")
  /\ UNCHANGED <<cluster, files, saw>>

\* Test 1 ends with two probes from tenant-A.
DirectProbe ==
  /\ pc = "direct"
  /\ \E out \in RunInPod("a", "netprobe", ncPrints("ip" \in open)) :
       blocked' = isConnectionBlocked(out) /\ See(out, "ip", "ip" \in open)
  /\ pc' = "dns"
  /\ UNCHANGED <<tenant, elapsed, timeUp, samples, target, victim, expired, results, code, cluster, files, late>>

\* (Mutant) One blocked probe is enough.
EitherBlocked ==
  /\ pc = "dns"
  /\ \E out \in RunInPod("a", "netprobe", nslookupPrints("dns" \in open)) :
       /\ Finish(IF blocked \/ isDNSBlocked(out) THEN "PASS" ELSE "FAIL")
       /\ See(out, "dns", "dns" \in open)
  /\ UNCHANGED <<cluster, files>>

DNSProbe ==
  /\ pc = "dns"
  /\ \E out \in RunInPod("a", "netprobe", nslookupPrints("dns" \in open)) :
       /\ Finish(IF blocked /\ isDNSBlocked(out) THEN "PASS" ELSE "FAIL")
       /\ See(out, "dns", "dns" \in open)
  /\ UNCHANGED <<cluster, files>>

\* percentileDuration of a sequence: the nearest rank of the sorted values.
percentileDuration(ds, p) ==
  IF ds = <<>> THEN 0
  ELSE SortSeq(ds, <)[(p * (Len(ds) - 1) + 50) \div 100 + 1]

\* What Test 2 judges of its samples: no time of one that failed.
computeSpeedStats(ss) ==
  LET good == SelectSeq(ss, LAMBDA s : ~s.err)
  IN [failed   |-> Cardinality({i \in DOMAIN ss : ss[i].err}),
      vcluster |-> percentileDuration([i \in DOMAIN good |-> elapsed], 95),
      nats     |-> percentileDuration([i \in DOMAIN good |-> good[i].nats], 95)]

\* Without samples none has failed and none was slow.
SpeedVerdict(ss) ==
  LET stats == computeSpeedStats(ss)
  IN IF stats.failed > 0 \/ stats.vcluster > ReadySeconds \/ stats.nats > ReadySeconds
     THEN "FAIL" ELSE "PASS"

\* A test keeps a sample and goes on.
Keep(ss, p) ==
  /\ samples' = ss /\ pc' = p
  /\ UNCHANGED <<tenant, elapsed, timeUp, blocked, target, victim, expired, results, code, late>>

\* (Mutant) One sample more than asked for.
OneSampleMore(s) ==
  LET ss == Append(samples, s)
  IN IF Len(ss) <= SpeedSamples
     THEN Keep(ss, "nats")
     ELSE Finish(SpeedVerdict(ss))

\* Nothing is deleted between two samples.
AddSpeedSample(s) ==
  LET ss == Append(samples, s)
  IN IF Len(ss) < SpeedSamples
     THEN Keep(ss, "nats")
     ELSE Finish(SpeedVerdict(ss))

ApplyNATS ==
  /\ pc = "nats"
  /\ IF SpeedSamples = 0
     THEN Finish(SpeedVerdict(<<>>))
     ELSE \E ok \in Succeeds(Addressable("a")) :
            IF ok THEN Goto("nats ready") ELSE AddSpeedSample([err |-> TRUE, nats |-> 0])
  /\ UNCHANGED <<cluster, files, saw>>

WaitNATS ==
  /\ pc = "nats ready"
  /\ \E ok \in Succeeds(Addressable("a")), d \in Durations :
       AddSpeedSample([err |-> ~ok, nats |-> IF ok THEN d ELSE 0])
  /\ UNCHANGED <<cluster, files, saw>>

\* Test 3: Apply has confirmed itself; the delete runs in a pod nobody makes.
DeleteAttempt ==
  /\ pc = "delete attempt"
  /\ \E out \in RunInPod("b", "cf-provisioner-test", ncPrints(TRUE)) :
       Finish(IF isTenantBScopedOut(out) THEN "PASS" ELSE "FAIL")
  /\ UNCHANGED <<cluster, files, saw>>

\* The upper median.
p50Int64(vals) == SortSeq(vals, <)[Len(vals) \div 2 + 1]

\* Test 4's verdict, on the mean of the two medians.
OverheadVerdict(ss) ==
  LET p50(t) == p50Int64([i \in DOMAIN ss |-> ss[i][t]])
  IN IF (p50("a") + p50("b")) \div 2 > MaxIdle THEN "FAIL" ELSE "PASS"

\* The stabilization wait and the pauses between samples.
Settle ==
  /\ pc = "settle"
  /\ Goto("top") \/ (Paced /\ expired /\ Finish("FAIL"))
  /\ UNCHANGED <<cluster, files, saw>>

PauseSampling ==
  /\ pc = "pause"
  /\ Goto("top") \/ (Paced /\ expired /\ Finish(OverheadVerdict(samples)))
  /\ UNCHANGED <<cluster, files, saw>>

\* The output of kubectl top reads as one pod's load; "No resources found" has
\* three words as well, and reads as a pod without load.
parsePodResources(t) == {<<load>> : load \in IF api[t] = "none" THEN {0} ELSE Loads}

\* An error, no pods (as without metrics-server), or the parsed output.
TopError == <<-1>>
GetPodResources(t) == {TopError} \cup (IF expired THEN {} ELSE {<<>>} \cup parsePodResources(t))

Total(pods) == IF pods = <<>> THEN 0 ELSE pods[1]

AddOverheadSample(podsA, podsB) ==
  LET ss == Append(samples, [t \in Tenants |-> Total(IF t = "a" THEN podsA ELSE podsB)])
  IN IF Len(ss) < OverheadSamples THEN Keep(ss, "pause") ELSE Finish(OverheadVerdict(ss))

SampleOverhead ==
  /\ pc = "top"
  /\ \E podsA \in GetPodResources("a"), podsB \in GetPodResources("b") :
       CASE TopError \in {podsA, podsB} -> Finish("FAIL")
         [] {podsA, podsB} = {<<>>}     -> Finish(IF samples = <<>> THEN "SKIP" ELSE OverheadVerdict(samples))
         [] OTHER                       -> AddOverheadSample(podsA, podsB)
  /\ UNCHANGED <<cluster, files, saw>>

\* Test 5 skips when it finds no cilium pod, or cannot ask.
DetectCilium ==
  /\ pc = "cilium"
  /\ \E found \in Succeeds(TRUE) : IF found THEN Goto("cilium-probe") ELSE Finish("SKIP")
  /\ UNCHANGED <<cluster, files, saw>>

\* Without the echo server's address it probes a ClusterIP in its place.
TargetIP ==
  /\ pc = "target IP"
  /\ \E ok \in Succeeds(TRUE) : target' = IF ok THEN "echo" ELSE "stand-in"
  /\ pc' = "nc"
  /\ UNCHANGED <<tenant, elapsed, timeUp, samples, blocked, victim, expired, results, code, cluster, files, history>>

CiliumProbe ==
  /\ pc = "nc"
  /\ LET reached == target = "echo" /\ "host" \in open
     IN \E out \in RunInPod("host", "cilium-probe", ncPrints(reached)) :
          /\ Finish(IF isConnectionBlocked(out) THEN "PASS" ELSE "FAIL")
          /\ See(out, "host", reached)
  /\ UNCHANGED <<cluster, files>>

\* Test 6: the API-server pod of tenant-A ...
FindPod ==
  /\ pc = "find"
  /\ \E ok \in Succeeds(api["a"] # "none") :
       IF ok
       THEN /\ pc' = "kill" /\ victim' = births["a"]
            /\ UNCHANGED <<tenant, elapsed, timeUp, samples, blocked, target, expired, results, code, late>>
       ELSE Finish("FAIL")
  /\ UNCHANGED <<cluster, files, saw>>

\* (Mutant) A delete whose error is ignored.
DeleteUnchecked ==
  /\ pc = "kill"
  /\ \E ok \in Succeeds(api["a"] # "none"), gone \in BOOLEAN :
       /\ gone => ~expired
       /\ api' = IF ok \/ gone THEN [api EXCEPT !["a"] = "none"] ELSE api
       /\ Goto("recovery")
  /\ UNCHANGED <<births, open, files, saw>>

\* ... is deleted; a delete that fails may have worked.
DeletePod ==
  /\ pc = "kill"
  /\ \E ok \in Succeeds(api["a"] # "none"), gone \in BOOLEAN :
       /\ gone => ~expired
       /\ api' = IF ok \/ gone THEN [api EXCEPT !["a"] = "none"] ELSE api
       /\ IF ok THEN Goto("recovery") ELSE Finish("FAIL")
  /\ UNCHANGED <<births, open, files, saw>>

\* kubectl wait fails at once when no pod matches.
WaitRecovery ==
  /\ pc = "recovery"
  /\ \E ok \in Succeeds(api["a"] = "ready"), d \in Durations :
       Finish(IF ok /\ d <= ReadySeconds THEN "PASS" ELSE "FAIL")
  /\ UNCHANGED <<cluster, files, saw>>

-----------------------------------------------------------------------------
(* The world: the StatefulSet controller, and time.                        *)

PodStep(t) ==
  /\ pc # "exited"
  /\ \/ /\ api[t] = "none" /\ births[t] \in 1..(MaxBirths - 1)
        /\ api' = [api EXCEPT ![t] = "starting"] /\ births' = [births EXCEPT ![t] = @ + 1]
     \/ api[t] = "starting" /\ api' = [api EXCEPT ![t] = "ready"] /\ UNCHANGED births
     \/ api[t] # "none" /\ api' = [api EXCEPT ![t] = "none"] /\ UNCHANGED births
  /\ UNCHANGED <<pc, local, expired, results, code, open, files, history>>

Expire ==
  /\ pc # "exited" /\ ~expired /\ expired' = TRUE
  /\ UNCHANGED <<pc, local, results, code, cluster, files, history>>

Deadline ==
  /\ pc \in {"wait", "sleep"} /\ ~timeUp /\ timeUp' = TRUE
  /\ UNCHANGED <<pc, tenant, elapsed, samples, blocked, target, victim, expired, results, code, cluster, files, history>>

Main == CheckPrerequisites \/ EnsureNamespace \/ RunVClusterCreate \/ WaitVClusterReady \/ Sleep
        \/ ExportKubeconfig \/ Report

Test == RunSetup \/ DirectProbe \/ DNSProbe \/ ApplyNATS \/ WaitNATS \/ DeleteAttempt
        \/ Settle \/ PauseSampling \/ SampleOverhead \/ DetectCilium \/ TargetIP \/ CiliumProbe
        \/ FindPod \/ DeletePod \/ WaitRecovery

Next ==
  \/ Main
  \/ Test
  \/ \E t \in Tenants : PodStep(t)
  \/ Expire
  \/ Deadline

Spec == Init /\ [][Next]_vars

\* Commands return, at the latest with the context; the deadline passes.  The
\* context need not end, nor a pod ever become ready.
FairSpec == Spec /\ WF_vars(Main) /\ WF_vars(Test) /\ WF_vars(Deadline)

-----------------------------------------------------------------------------
\* An exit of 0 says that no connection of the run has reached tenant-B, and that
\* a name was resolved at most in an output that has a word of failure as well:
\* nothing between a probe and the exit code loses a reach.  isolation.go promises
\* more ("any successful cross-tenant reach is a FAIL regardless of vector"); the
\* exception is what isDNSBlocked overlooks.
ReachFailsTheRun == code = 0 => saw \subseteq {<<"dns", Signals>>}

\* A test that begins after the context has ended does not pass: of the errors
\* every command then gives none is read as a good sign.
NothingPassesLate == \A i \in late : i \in DOMAIN results => results[i] # "PASS"

\* When Test 6 passes, the pod that became ready is not the one it had found:
\* a crash in between, a delete that failed, a slow controller cannot fake it.
RecoveryIsReal ==
  [][pc = "recovery" /\ pc' = "report" /\ Last(results') = "PASS"
       => births["a"] > victim /\ api["a"] = "ready"]_vars

\* The probe exits, whatever becomes of pods and commands.
ProbeExits == <>(pc = "exited")
=============================================================================
