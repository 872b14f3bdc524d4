---------------------------- MODULE TenantCluster ----------------------------
(***************************************************************************)
(* One tenant's host namespace, its vCluster and its kubeconfig, under the *)
(* helpers of internal/provisioner that the workflows call: policies as    *)
(* Cilium enforces them, CreateVCluster with its readiness poll and its    *)
(* export, DeleteVCluster, and Store, Retrieve and Revoke on OpenBao.      *)
(*                                                                         *)
(* VPCProvisioner takes each helper as one step; here it is every command  *)
(* it runs.  An actor is a provisioning workflow from step 4 to step 7 or  *)
(* a teardown; they overlap as they do there.                              *)
(***************************************************************************)
EXTENDS Naturals, Sequences, SequencesExt

CONSTANTS
  Ups,     \* provisioning workflows
  Downs,   \* teardowns
  NoOne,   \* no workflow
  Faults   \* outcomes other than "ok" a command may have: {} or {"lost", "unknown"}

ASSUME ActorsDiffer      == Ups \cap Downs = {} /\ NoOne \notin Ups \cup Downs
ASSUME FaultsAreOutcomes == Faults \subseteq {"lost", "unknown"}

VARIABLES
  namespace, \* whether tenant-{slug} exists
  policies,  \* the CiliumNetworkPolicies applied in it
  owner,     \* whose `vcluster create` made the vCluster, NoOne without one
  ready,     \* whether its StatefulSet is rolled out
  kv,        \* the versions of the kubeconfig in OpenBao, each by its vCluster
  pc,        \* where each actor is
  kc,        \* the kubeconfig each workflow has exported
  expired    \* actors whose context is done, as waitCtx is after its 90 seconds

host == <<namespace, policies, owner, ready>>
vars == <<host, kv, pc, kc, expired>>

Actors == Ups \cup Downs

-----------------------------------------------------------------------------
UpSteps   == {"namespace", "isolation", "access", "create", "wait", "pause", "export", "store"}
DownSteps == {"revoke", "delete"}
Policies  == {"isolation", "access"}

TypeOK ==
  /\ namespace \in BOOLEAN /\ ready \in BOOLEAN
  /\ policies \subseteq Policies
  /\ owner \in Ups \cup {NoOne}
  /\ kv \in Seq(Ups)
  /\ pc \in [Actors -> {"idle", "done", "failed"} \cup UpSteps \cup DownSteps]
  /\ kc \in [Ups -> Ups \cup {NoOne}]
  /\ expired \subseteq Actors
  /\ \A u \in Ups : pc[u] \notin DownSteps
  /\ \A d \in Downs : pc[d] \notin UpSteps
  /\ owner # NoOne \/ policies # {} => namespace
  /\ ready => owner # NoOne

Init ==
  /\ namespace = FALSE /\ policies = {} /\ owner = NoOne /\ ready = FALSE
  /\ kv = <<>>
  /\ pc = [a \in Actors |-> "idle"]
  /\ kc = [u \in Ups |-> NoOne]
  /\ expired = {}

-----------------------------------------------------------------------------
(* What the policies let in.                                               *)

Sources == {"tenant", "cf-system", "elsewhere"}  \* namespaces traffic comes from
Pods    == {"vcluster", "workload"}              \* pods of the namespace
Ports   == {"6443", "other"}

\* (Mutant) Access of the provisioner to every port.
AccessToAllPorts == [selects |-> {"vcluster"}, from |-> {"cf-system"}, ports |-> Ports]

TenantIsolationPolicy   == [selects |-> Pods, from |-> {"tenant"}, ports |-> Ports]
ProvisionerAccessPolicy == [selects |-> {"vcluster"}, from |-> {"cf-system"}, ports |-> {"6443"}]

Applied(p) == IF p = "isolation" THEN TenantIsolationPolicy ELSE ProvisionerAccessPolicy

\* A pod that no policy selects takes all traffic; one that some do, what any of
\* them admits.
Reaches(src, pod, port) ==
  LET selecting == {p \in policies : pod \in Applied(p).selects}
  IN selecting # {} => \E p \in selecting : src \in Applied(p).from /\ port \in Applied(p).ports

-----------------------------------------------------------------------------
(* Commands.  "lost" fails before it has an effect, "unknown" after; with  *)
(* its context done a command fails before it starts.                      *)

Outcomes(a) == IF a \in expired THEN {"lost"} ELSE {"ok"} \cup Faults
HasEffect(out) == out # "lost"

Goto(a, p)            == pc' = [pc EXCEPT ![a] = p]
Continue(a, out, p)   == Goto(a, IF out = "ok" THEN p ELSE "failed")

Start(a) ==
  /\ pc[a] = "idle"
  /\ Goto(a, IF a \in Ups THEN "namespace" ELSE "revoke")
  /\ UNCHANGED <<host, kv, kc, expired>>

CreateNamespace(u) ==
  /\ pc[u] = "namespace"
  /\ \E out \in Outcomes(u) :
       /\ namespace' = (namespace \/ HasEffect(out))
       /\ Continue(u, out, "isolation")
  /\ UNCHANGED <<policies, owner, ready, kv, kc, expired>>

\* kubectl apply of a rendered policy; it fails in a namespace that is gone.
ApplyPolicy(u, p, next) ==
  /\ pc[u] = p
  /\ \E out \in IF namespace THEN Outcomes(u) ELSE {"lost"} :
       /\ policies' = IF HasEffect(out) THEN policies \cup {p} ELSE policies
       /\ Continue(u, out, next)
  /\ UNCHANGED <<namespace, owner, ready, kv, kc, expired>>

ApplyIsolationPolicies(u) == ApplyPolicy(u, "isolation", "access") \/ ApplyPolicy(u, "access", "create")

\* `vcluster create` makes the namespace if need be, and may stop half-way; a
\* vCluster that is there already stays what it is, and may be an error.
VClusterCreate(u) ==
  /\ pc[u] = "create"
  /\ \E out \in Outcomes(u) :
       \/ /\ HasEffect(out) /\ owner = NoOne
          /\ namespace' = TRUE /\ owner' = u /\ ready' = FALSE
          /\ Continue(u, out, "wait")
       \/ /\ HasEffect(out) /\ owner # NoOne
          /\ Continue(u, out, "wait") \/ Goto(u, "failed")
          /\ UNCHANGED <<namespace, owner, ready>>
       \/ /\ out = "unknown"
          /\ namespace' = TRUE /\ Goto(u, "failed") /\ UNCHANGED <<owner, ready>>
       \/ /\ out = "lost"
          /\ Goto(u, "failed") /\ UNCHANGED <<namespace, owner, ready>>
  /\ UNCHANGED <<policies, kv, kc, expired>>

\* waitVClusterReady: `kubectl rollout status`; whatever its error, a pause.
Poll(u) ==
  /\ pc[u] = "wait"
  /\ \/ ready /\ u \notin expired /\ Goto(u, "export")
     \/ /\ ~ready \/ Faults # {} \/ u \in expired
        /\ Goto(u, "pause")
  /\ UNCHANGED <<host, kv, kc, expired>>

\* (Mutant) A pause that does not look at the context.
PauseRegardless(u) ==
  /\ pc[u] = "pause"
  /\ Goto(u, "wait")
  /\ UNCHANGED <<host, kv, kc, expired>>

\* Three seconds, or the end of waitCtx.
Pause(u) ==
  /\ pc[u] = "pause"
  /\ Goto(u, IF u \in expired THEN "failed" ELSE "wait")
  /\ UNCHANGED <<host, kv, kc, expired>>

\* (Mutant) An export that takes empty output for a kubeconfig.
ExportAnything(u) ==
  /\ pc[u] = "export"
  /\ \E out \in IF owner = NoOne THEN {"lost"} ELSE Outcomes(u) :
       \/ out = "ok" /\ Goto(u, "store") /\ kc' \in {[kc EXCEPT ![u] = k] : k \in {owner, NoOne}}
       \/ out # "ok" /\ Goto(u, "failed") /\ UNCHANGED kc
  /\ UNCHANGED <<host, kv, expired>>

\* `vcluster connect --print`: the kubeconfig of the vCluster there is; empty
\* output is an error.
ExportKubeconfig(u) ==
  /\ pc[u] = "export"
  /\ \E out \in IF owner = NoOne THEN {"lost"} ELSE Outcomes(u) :
       \/ out = "ok" /\ Goto(u, "store") /\ kc' = [kc EXCEPT ![u] = owner]
       \/ Goto(u, "failed") /\ UNCHANGED kc
  /\ UNCHANGED <<host, kv, expired>>

\* (Mutant) A Store whose error is only logged.
StoreUnchecked(u) ==
  /\ pc[u] = "store"
  /\ \E out \in Outcomes(u) : kv' = IF HasEffect(out) THEN Append(kv, kc[u]) ELSE kv
  /\ Goto(u, "done")
  /\ UNCHANGED <<host, kc, expired>>

\* Every Store adds a version ...
Store(u) ==
  /\ pc[u] = "store"
  /\ \E out \in Outcomes(u) :
       /\ kv' = IF HasEffect(out) THEN Append(kv, kc[u]) ELSE kv
       /\ Continue(u, out, "done")
  /\ UNCHANGED <<host, kc, expired>>

\* ... and Revoke, which deletes the metadata, removes all of them.
Revoke(d) ==
  /\ pc[d] = "revoke"
  /\ \E out \in Outcomes(d) :
       /\ kv' = IF HasEffect(out) THEN <<>> ELSE kv
       /\ Continue(d, out, "delete")
  /\ UNCHANGED <<host, kc, expired>>

\* An error that reads "not found", of whatever was not found, is none.
isVClusterNotFound(d, out) == d \notin expired /\ (out = "lost" \/ owner = NoOne)

\* `vcluster delete`, without --delete-namespace: the namespace may go or stay.
DeleteVCluster(d) ==
  /\ pc[d] = "delete"
  /\ \E out \in Outcomes(d) :
       \/ /\ HasEffect(out) /\ owner # NoOne
          /\ owner' = NoOne /\ ready' = FALSE
          /\ \/ namespace' = FALSE /\ policies' = {}
             \/ UNCHANGED <<namespace, policies>>
          /\ Continue(d, out, "done")
       \/ /\ out = "lost" \/ owner = NoOne
          /\ Goto(d, IF isVClusterNotFound(d, out) THEN "done" ELSE "failed")
          /\ UNCHANGED host
       \/ /\ out # "ok" /\ Goto(d, "failed") /\ UNCHANGED host
  /\ UNCHANGED <<kv, kc, expired>>

-----------------------------------------------------------------------------
\* The StatefulSet controller: the control plane comes up, and may restart.
Rollout ==
  /\ owner # NoOne
  /\ ready' = ~ready
  /\ UNCHANGED <<namespace, policies, owner, kv, pc, kc, expired>>

\* The 90 seconds of waitCtx, and the five minutes of a workflow's context.
WaitTimer(u) ==
  /\ pc[u] \in {"wait", "pause"} /\ u \notin expired
  /\ expired' = expired \cup {u}
  /\ UNCHANGED <<host, kv, pc, kc>>

Expire(a) ==
  /\ pc[a] \notin {"idle", "done", "failed"} /\ a \notin expired
  /\ expired' = expired \cup {a}
  /\ UNCHANGED <<host, kv, pc, kc>>

Up(u) ==
  \/ CreateNamespace(u) \/ ApplyIsolationPolicies(u)
  \/ VClusterCreate(u) \/ Poll(u) \/ Pause(u) \/ ExportKubeconfig(u) \/ Store(u)

Down(d) == Revoke(d) \/ DeleteVCluster(d)

Next ==
  \/ \E a \in Actors : Start(a) \/ Expire(a)
  \/ \E u \in Ups : Up(u) \/ WaitTimer(u)
  \/ \E d \in Downs : Down(d)
  \/ Rollout

Spec == Init /\ [][Next]_vars

\* Commands end, at the latest with their context; the timer of the wait fires.
\* A vCluster need not ever become ready.
FairSpec ==
  /\ Spec
  /\ \A u \in Ups : WF_vars(Up(u)) /\ WF_vars(WaitTimer(u))
  /\ \A d \in Downs : WF_vars(Down(d))

-----------------------------------------------------------------------------
\* provisioner.Retrieve: the latest version.
Retrieve == IF kv = <<>> THEN "ErrNotFound" ELSE Last(kv)

TeardownBegan == \E d \in Downs : pc[d] # "idle"

\* From its first moment, and until a teardown begins, a vCluster takes traffic
\* from its own namespace and, on 6443 alone, from cf-system: no error, retry or
\* second workflow opens a gap between the namespace and its two policies.
IngressIsExact ==
  owner # NoOne /\ ~TeardownBegan =>
    \A src \in Sources, pod \in Pods, port \in Ports :
      Reaches(src, pod, port) <=>
        src = "tenant" \/ (src = "cf-system" /\ pod = "vcluster" /\ port = "6443")

\* Until a teardown begins, whatever Retrieve returns opens the vCluster there
\* is, and a workflow that ended well has left something to retrieve.
RetrieveFits ==
  ~TeardownBegan =>
    /\ kv # <<>> => owner # NoOne /\ Retrieve = owner
    /\ (\E u \in Ups : pc[u] = "done") => kv # <<>>

\* A workflow ends although its vCluster may never become ready.
ProvisioningEnds == \A u \in Ups : pc[u] = "namespace" ~> pc[u] \in {"done", "failed"}
=============================================================================
