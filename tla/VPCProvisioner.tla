--------------------------- MODULE VPCProvisioner ---------------------------
(***************************************************************************)
(* CFProvisionerService (services/provisioner/service/service.go): the     *)
(* requests POST /vpc/provision and DELETE /vpc/{slug}, and the background *)
(* goroutine each of them launches, over the job store, the tenant table,  *)
(* the host cluster, OpenBao and the API-key table.                        *)
(*                                                                         *)
(* A request r is one HTTP call and the workflow goroutine it starts, on   *)
(* any replica of cf-provisioner or cf-accounts (both embed the service).  *)
(* Every call it makes to an external system is one step, and any number   *)
(* of requests interleave between two steps.                               *)
(***************************************************************************)
EXTENDS JobStore

CONSTANTS
  Faults,     \* outcomes other than "ok" a call may have: {} or {"lost", "unknown"}
  Timeouts,   \* whether a workflow may outlive its context
  Crashes,    \* whether a process may die between two steps
  Served,     \* operations the clients call
  NoKey       \* a request that has not arrived yet

ASSUME FaultsAreOutcomes == Faults \subseteq {"lost", "unknown"}
ASSUME TimeoutsIsBoolean == Timeouts \in BOOLEAN
ASSUME CrashesIsBoolean  == Crashes \in BOOLEAN
ASSUME ServedAreOps      == Served \subseteq Operations
ASSUME NoKeyIsNoKey      == NoKey \notin IdemKeys

VARIABLES
  pc,           \* where request r is
  key,          \* the operation, slug and day of request r
  job,          \* the job id its Enqueue returned
  claimed,      \* requests whose Claim returned true
  expired,      \* requests whose 5-minute workflow context is done
  tenantStatus, \* cf.tenants.status, "NONE" before registration
  tenantCIDR,   \* cf.tenants.pod_cidr and svc_cidr, 0 when empty
  visible,      \* slugs the materialized view tenants_by_slug already shows
  hostObjects,  \* Kubernetes objects of each tenant on the host cluster
  kubeconfigs,  \* tenants with a kubeconfig in OpenBao
  apiKeys,      \* ACTIVE keys of each tenant, by the request that issued them
  day           \* the calendar day

callVars   == <<pc, key, job, claimed, expired>>
tenantVars == <<tenantStatus, tenantCIDR, visible>>
infraVars  == <<hostObjects, kubeconfigs, apiKeys>>
vars       == <<jobVars, callVars, tenantVars, infraVars, day>>

-----------------------------------------------------------------------------
ProvisionSteps   == {"lookup", "namespace", "tenant-isolation", "provisioner-access",
                     "vcluster", "kubeconfig", "apikey", "cidrs", "activate", "complete"}
DeprovisionSteps == {"revoke", "delete", "markDeleted", "deprovisioned"}
FailSteps        == {"failNil", "failTenant"}
Workflow         == {"claim"} \cup ProvisionSteps \cup DeprovisionSteps \cup FailSteps
Locations        == {"idle", "insert", "done", "crashed"} \cup Workflow

Policies       == {"tenant-isolation", "provisioner-access"}
Objects        == {"namespace", "vcluster"} \cup Policies
TenantStatuses == {"NONE", "PROVISIONING", "ACTIVE", "DELETED"}

\* The one CIDR pair of step 3, 10.100.1.0/24 with 10.200.1.0/24, by its index.
FixedCIDR == 1

TypeOK ==
  /\ JobStoreTypeOK
  /\ pc           \in [Requests -> Locations]
  /\ key          \in [Requests -> IdemKeys \cup {NoKey}]
  /\ job          \in [Requests -> Requests \cup {NoJob}]
  /\ claimed      \subseteq Requests
  /\ expired      \subseteq Requests
  /\ tenantStatus \in [Slugs -> TenantStatuses]
  /\ tenantCIDR   \in [Slugs -> {0, FixedCIDR}]
  /\ visible      \subseteq Slugs
  /\ hostObjects  \in [Slugs -> SUBSET Objects]
  /\ kubeconfigs  \subseteq Slugs
  /\ apiKeys      \in [Slugs -> SUBSET Requests]
  /\ day          \in 0 .. MaxDay
  /\ \A r \in Requests : pc[r] \in {"insert"} \cup Workflow =>
       key[r] \in IdemKeys /\ job[r] \in Requests

Init ==
  /\ JobStoreInit
  /\ pc           = [r \in Requests |-> "idle"]
  /\ key          = [r \in Requests |-> NoKey]
  /\ job          = [r \in Requests |-> NoJob]
  /\ claimed      = {}
  /\ expired      = {}
  /\ tenantStatus = [s \in Slugs |-> "NONE"]
  /\ tenantCIDR   = [s \in Slugs |-> 0]
  /\ visible      = {}
  /\ hostObjects  = [s \in Slugs |-> {}]
  /\ kubeconfigs  = {}
  /\ apiKeys      = [s \in Slugs |-> {}]
  /\ day          = 0

-----------------------------------------------------------------------------
(* Outcomes of one external call: "ok"; "lost", an error before it had any *)
(* effect; "unknown", an error (a timeout) although it took effect.  Once  *)
(* the workflow context is done every call fails before it is sent.        *)

\* (Mutant) Calls without a deadline: once the database is gone they hang.
HangingOutcomes(r) == IF r \in expired THEN {} ELSE {"ok"} \cup Faults

Outcomes(r) == IF r \in expired THEN {"lost"} ELSE {"ok"} \cup Faults
Applied(out) == out \in {"ok", "unknown"}

Op(r)     == key[r].op
Slug(r)   == key[r].slug

\* The partition a job is enqueued and claimed under.
Home(k) == IF k.op = "provision" THEN NilTenant ELSE k.slug

Goto(r, loc) == pc' = [pc EXCEPT ![r] = loc]

\* (Mutant) An error that is logged and then ignored.
ContinueAnyway(r, out, next) == Goto(r, next)

\* (Mutant) An error path that returns without failJob.
ContinueOrStop(r, out, next) == Goto(r, IF out = "ok" THEN next ELSE "done")

\* After a call: on to `next` when it returned nil, to failJob otherwise, which
\* writes under tenant.TenantID once the tenant is known.
Continue(r, out, next) == Goto(r, IF out = "ok" THEN next ELSE "failTenant")

-----------------------------------------------------------------------------
(* The request handlers.                                                   *)

\* (Mutant) An idempotency key that carries the date of a provision, too.
DatedKeyOf(o, s) == [op |-> o, slug |-> s, day |-> day]

KeyOf(o, s) == [op |-> o, slug |-> s, day |-> IF o = "provision" THEN 0 ELSE day]

\* Provision enqueues at once; Deprovision first resolves the slug with
\* GetBySlug, which reads the materialized view.
Accepted(o, s) == o = "deprovision" => s \in visible

\* Enqueue step 1 reserved the key: r owns the job and still has to insert it.
ReserveWins(r, o, s) ==
  /\ pc[r] = "idle" /\ Accepted(o, s)
  /\ jobsByIdem[KeyOf(o, s)] = NoJob
  /\ ReserveIdem(KeyOf(o, s), r, TRUE)
  /\ key' = [key EXCEPT ![r] = KeyOf(o, s)]
  /\ job' = [job EXCEPT ![r] = r]
  /\ Goto(r, "insert")
  /\ UNCHANGED <<claimed, expired, tenantVars, infraVars, day>>

\* (Mutant) Enqueue that returns uuid.Nil for a key already taken.
LostExistingJob(k) == NoJob

\* The id Enqueue extracts from the row that rejected its insert.
ExistingJob(k) == jobsByIdem[k]

\* The key is taken: Enqueue returns the existing id, whatever its job's state,
\* and the caller launches a workflow on it.
ReserveFindsExisting(r, o, s) ==
  /\ pc[r] = "idle" /\ Accepted(o, s)
  /\ jobsByIdem[KeyOf(o, s)] # NoJob
  /\ key' = [key EXCEPT ![r] = KeyOf(o, s)]
  /\ job' = [job EXCEPT ![r] = ExistingJob(KeyOf(o, s))]
  /\ Goto(r, "claim")
  /\ UNCHANGED <<jobVars, claimed, expired, tenantVars, infraVars, day>>

\* The reservation returned an error: 5xx, no job id, no workflow.  With
\* "unknown" the key stays bound to an id nobody was given.
ReserveFails(r, o, s) ==
  /\ pc[r] = "idle" /\ Accepted(o, s)
  /\ \E out \in Faults : ReserveIdem(KeyOf(o, s), r, Applied(out))
  /\ key' = [key EXCEPT ![r] = KeyOf(o, s)]
  /\ Goto(r, "done")
  /\ UNCHANGED <<job, claimed, expired, tenantVars, infraVars, day>>

\* DELETE of a slug the view does not show: 404.
DeprovisionNotFound(r, s) ==
  /\ pc[r] = "idle" /\ "deprovision" \in Served /\ s \notin visible
  /\ Goto(r, "done")
  /\ UNCHANGED <<jobVars, key, job, claimed, expired, tenantVars, infraVars, day>>

\* Enqueue step 2.  On success `go run...Workflow` starts; on error the request
\* ends without one.
InsertJob(r) ==
  /\ pc[r] = "insert"
  /\ \E out \in {"ok"} \cup Faults :
       /\ InsertJobRow(Home(key[r]), job[r], Applied(out))
       /\ Goto(r, IF out = "ok" THEN "claim" ELSE "done")
  /\ UNCHANGED <<key, job, claimed, expired, tenantVars, infraVars, day>>

-----------------------------------------------------------------------------
(* runProvisionWorkflow and runDeprovisionWorkflow.                        *)

FirstStep(o) == IF o = "provision" THEN "lookup" ELSE "revoke"

\* Step 1 of both workflows; an error or a lost claim just returns.
Claim(r) ==
  /\ pc[r] = "claim"
  /\ \E out \in Outcomes(r) :
       LET won == out = "ok" /\ Claimable(Home(key[r]), job[r]) IN
       /\ ClaimRow(Home(key[r]), job[r], Applied(out))
       /\ claimed' = IF won THEN claimed \cup {r} ELSE claimed
       /\ Goto(r, IF won THEN FirstStep(Op(r)) ELSE "done")
  /\ UNCHANGED <<key, job, expired, tenantVars, infraVars, day>>

\* Step 2: GetBySlug.  Not found, or an error, fails the job under uuid.Nil.
LookupTenant(r) ==
  /\ pc[r] = "lookup"
  /\ \E out \in Outcomes(r) :
       Goto(r, IF out = "ok" /\ Slug(r) \in visible THEN "namespace" ELSE "failNil")
  /\ UNCHANGED <<jobVars, key, job, claimed, expired, tenantVars, infraVars, day>>

AddObjects(s, objs) == hostObjects' = [hostObjects EXCEPT ![s] = @ \cup objs]

\* Step 4.
CreateNamespace(r) ==
  /\ pc[r] = "namespace"
  /\ \E out \in Outcomes(r) :
       /\ Continue(r, out, "tenant-isolation")
       /\ AddObjects(Slug(r), IF Applied(out) THEN {"namespace"} ELSE {})
  /\ UNCHANGED <<jobVars, key, job, claimed, expired, tenantVars, kubeconfigs, apiKeys, day>>

\* Step 5: the two kubectl applies, in this order; an apply into a namespace
\* that is gone fails.
ApplyPolicy(r, policy, next) ==
  /\ pc[r] = policy
  /\ \E out \in IF "namespace" \in hostObjects[Slug(r)] THEN Outcomes(r) ELSE {"lost"} :
       /\ Continue(r, out, next)
       /\ AddObjects(Slug(r), IF Applied(out) THEN {policy} ELSE {})
  /\ UNCHANGED <<jobVars, key, job, claimed, expired, tenantVars, kubeconfigs, apiKeys, day>>

ApplyIsolationPolicies(r) ==
  \/ ApplyPolicy(r, "tenant-isolation", "provisioner-access")
  \/ ApplyPolicy(r, "provisioner-access", "vcluster")

\* Step 6: create, wait until ready, export the kubeconfig.  The CLI creates
\* the namespace when it is missing.  An error may come after either of them
\* was created (not ready within the deadline, export failed).
CreateVCluster(r) ==
  /\ pc[r] = "vcluster"
  /\ \E out \in Outcomes(r) :
       /\ Continue(r, out, "kubeconfig")
       /\ \/ Applied(out) /\ AddObjects(Slug(r), {"namespace", "vcluster"})
          \/ out = "unknown" /\ AddObjects(Slug(r), {"namespace"})
          \/ out = "lost" /\ UNCHANGED hostObjects
  /\ UNCHANGED <<jobVars, key, job, claimed, expired, tenantVars, kubeconfigs, apiKeys, day>>

\* Step 7.
StoreKubeconfig(r) ==
  /\ pc[r] = "kubeconfig"
  /\ \E out \in Outcomes(r) :
       /\ Continue(r, out, "apikey")
       /\ kubeconfigs' = IF Applied(out) THEN kubeconfigs \cup {Slug(r)} ELSE kubeconfigs
  /\ UNCHANGED <<jobVars, key, job, claimed, expired, tenantVars, hostObjects, apiKeys, day>>

\* Step 8.
GenerateAPIKey(r) ==
  /\ pc[r] = "apikey"
  /\ \E out \in Outcomes(r) :
       /\ Continue(r, out, "cidrs")
       /\ apiKeys' = IF Applied(out) THEN [apiKeys EXCEPT ![Slug(r)] = @ \cup {r}] ELSE apiKeys
  /\ UNCHANGED <<jobVars, key, job, claimed, expired, tenantVars, hostObjects, kubeconfigs, day>>

\* Step 9, first write; every tenant gets the pair step 3 fixed.
SetCIDRs(r) ==
  /\ pc[r] = "cidrs"
  /\ \E out \in Outcomes(r) :
       /\ Continue(r, out, "activate")
       /\ tenantCIDR' = IF Applied(out) THEN [tenantCIDR EXCEPT ![Slug(r)] = FixedCIDR] ELSE tenantCIDR
  /\ UNCHANGED <<jobVars, key, job, claimed, expired, tenantStatus, visible, infraVars, day>>

\* UpdateStatus: unconditional, whatever the status is now.
UpdateStatus(r, at, status, next) ==
  /\ pc[r] = at
  /\ \E out \in Outcomes(r) :
       /\ Continue(r, out, next)
       /\ tenantStatus' = IF Applied(out) THEN [tenantStatus EXCEPT ![Slug(r)] = status] ELSE tenantStatus
  /\ UNCHANGED <<jobVars, key, job, claimed, expired, tenantCIDR, visible, infraVars, day>>

\* Step 9, second write.
ActivateTenant(r) == UpdateStatus(r, "activate", "ACTIVE", "complete")

\* (Mutant) An error of the last write that goes through failJob.
FinishOrFail(r, at, res) ==
  /\ pc[r] = at
  /\ \E out \in Outcomes(r) :
       /\ CompleteRow(Slug(r), job[r], res, Applied(out))
       /\ Goto(r, IF out = "ok" THEN "done" ELSE "failTenant")
  /\ UNCHANGED <<key, job, claimed, expired, tenantVars, infraVars, day>>

\* The last step of either workflow writes under tenant.TenantID; its error is
\* only logged.
Finish(r, at, res) ==
  /\ pc[r] = at
  /\ \E out \in Outcomes(r) : CompleteRow(Slug(r), job[r], res, Applied(out))
  /\ Goto(r, "done")
  /\ UNCHANGED <<key, job, claimed, expired, tenantVars, infraVars, day>>

CompleteProvision(r)   == Finish(r, "complete", "vpc_with_raw_key")
CompleteDeprovision(r) == Finish(r, "deprovisioned", "deprovisioned")

\* failJob, and the direct Fail of step 2; an error of the write is only logged.
FailUnder(r, at, p) ==
  /\ pc[r] = at
  /\ \E out \in Outcomes(r) : FailRow(p, job[r], Applied(out))
  /\ Goto(r, "done")
  /\ UNCHANGED <<key, job, claimed, expired, tenantVars, infraVars, day>>

FailJob(r) ==
  \/ FailUnder(r, "failNil", NilTenant)
  \/ FailUnder(r, "failTenant", Slug(r))

\* Deprovision step 1; OpenBao answers a missing path with success.
RevokeKubeconfig(r) ==
  /\ pc[r] = "revoke"
  /\ \E out \in Outcomes(r) :
       /\ Continue(r, out, "delete")
       /\ kubeconfigs' = IF Applied(out) THEN kubeconfigs \ {Slug(r)} ELSE kubeconfigs
  /\ UNCHANGED <<jobVars, key, job, claimed, expired, tenantVars, hostObjects, apiKeys, day>>

\* Whether an error of `vcluster delete` may read "not found" for another reason
\* than a missing vCluster, say a missing executable; the error of a context
\* that is done does not.
isVClusterNotFound(r, out) == out = "lost" /\ r \notin expired

\* Deprovision step 2: the CLI removes the vCluster, or finds none; run without
\* --delete-namespace, it takes the host namespace along or leaves it.  An error
\* that reads "not found" counts as success.
DeleteVCluster(r) ==
  /\ pc[r] = "delete"
  /\ \E out \in Outcomes(r), left \in {{}, hostObjects[Slug(r)] \ {"vcluster"}} :
       \/ /\ Continue(r, out, "markDeleted")
          /\ hostObjects' = IF Applied(out) /\ "vcluster" \in hostObjects[Slug(r)]
                              THEN [hostObjects EXCEPT ![Slug(r)] = left] ELSE hostObjects
       \/ /\ isVClusterNotFound(r, out)
          /\ Goto(r, "markDeleted") /\ UNCHANGED hostObjects
  /\ UNCHANGED <<jobVars, key, job, claimed, expired, tenantVars, kubeconfigs, apiKeys, day>>

\* Deprovision step 3.
MarkDeleted(r) == UpdateStatus(r, "markDeleted", "DELETED", "deprovisioned")

-----------------------------------------------------------------------------
(* The environment.                                                        *)

\* TenantStore.Create, called by Register of the accounts service.
CreateTenant(s) ==
  /\ tenantStatus[s] = "NONE"
  /\ tenantStatus' = [tenantStatus EXCEPT ![s] = "PROVISIONING"]
  /\ UNCHANGED <<jobVars, callVars, tenantCIDR, visible, infraVars, day>>

\* The materialized view tenants_by_slug catches up with its base table.
ViewCatchesUp(s) ==
  /\ tenantStatus[s] # "NONE" /\ s \notin visible
  /\ visible' = visible \cup {s}
  /\ UNCHANGED <<jobVars, callVars, tenantStatus, tenantCIDR, infraVars, day>>

\* context.WithTimeout(5 min) of the workflow fires, or the process closes its
\* database session while the goroutine is still running.
Expire(r) ==
  /\ Timeouts /\ pc[r] \in Workflow /\ r \notin expired
  /\ expired' = expired \cup {r}
  /\ UNCHANGED <<jobVars, pc, key, job, claimed, tenantVars, infraVars, day>>

\* The process of r dies; nothing resumes its workflow.
Crash(r) ==
  /\ Crashes /\ pc[r] \notin {"idle", "done", "crashed"}
  /\ Goto(r, "crashed")
  /\ UNCHANGED <<jobVars, key, job, claimed, expired, tenantVars, infraVars, day>>

NextDay ==
  /\ day < MaxDay
  /\ day' = day + 1
  /\ UNCHANGED <<jobVars, callVars, tenantVars, infraVars>>

-----------------------------------------------------------------------------
Arrive(r) ==
  \/ \E o \in Served, s \in Slugs :
       ReserveWins(r, o, s) \/ ReserveFindsExisting(r, o, s) \/ ReserveFails(r, o, s)
  \/ \E s \in Slugs : DeprovisionNotFound(r, s)

ProvisionStep(r) ==
  \/ LookupTenant(r) \/ CreateNamespace(r) \/ ApplyIsolationPolicies(r)
  \/ CreateVCluster(r) \/ StoreKubeconfig(r) \/ GenerateAPIKey(r)
  \/ SetCIDRs(r) \/ ActivateTenant(r) \/ CompleteProvision(r)

DeprovisionStep(r) ==
  \/ RevokeKubeconfig(r) \/ DeleteVCluster(r) \/ MarkDeleted(r) \/ CompleteDeprovision(r)

\* What the process of r does once its request has arrived.
Progress(r) ==
  InsertJob(r) \/ Claim(r) \/ ProvisionStep(r) \/ DeprovisionStep(r) \/ FailJob(r)

Next ==
  \/ \E r \in Requests : Arrive(r) \/ Progress(r) \/ Expire(r) \/ Crash(r)
  \/ \E s \in Slugs : CreateTenant(s) \/ ViewCatchesUp(s)
  \/ NextDay

Spec == Init /\ [][Next]_vars

\* A goroutine that has not crashed keeps running (the Go scheduler), and every
\* call it makes returns because its context has a deadline.
FairSpec == Spec /\ \A r \in Requests : WF_vars(Progress(r))

-----------------------------------------------------------------------------
(* Safety.                                                                 *)

ProvisionRun(r)   == r \in claimed /\ Op(r) = "provision"
DeprovisionRun(r) == r \in claimed /\ Op(r) = "deprovision"
TeardownBegan(s)  == \E r \in Requests : DeprovisionRun(r) /\ Slug(r) = s

\* A job is executed once and a tenant is provisioned once, however many
\* requests, replicas, errors and crashes there are: double clicks and network
\* retries do not run a second workflow (Enqueue and Claim of job.go).
SingleExecution ==
  \A r, q \in claimed :
     \/ r = q
     \/ /\ job[r] # job[q]
        /\ Slug(r) = Slug(q) => Op(r) = "deprovision" \/ Op(q) = "deprovision"

Rank(status) == CASE status = "ABSENT" -> 0 [] status = "QUEUED" -> 1
                  [] status = "PROVISIONING" -> 2 [] OTHER -> 3

\* The job queue as its clients see it (JobLedger): the executor of a job is the
\* request whose claim it granted, its outcome is in whichever partition the
\* workflow wrote it.
ExecutorOf(j) ==
  IF \E r \in claimed : job[r] = j THEN CHOOSE r \in claimed : job[r] = j ELSE NoJob

OutcomeOf(j) ==
  CASE \E p \in Partitions : jobStatus[<<p, j>>] = "READY"  -> "READY"
    [] \E p \in Partitions : jobStatus[<<p, j>>] = "FAILED" -> "FAILED"
    [] OTHER -> "none"

Ledger == INSTANCE JobLedger WITH
  Keys     <- IdemKeys,
  Jobs     <- Requests,
  handle   <- jobsByIdem,
  executor <- [j \in Requests |-> ExecutorOf(j)],
  outcome  <- [j \in Requests |-> OutcomeOf(j)]

\* The provisioner implements the ledger: through lost and unknown writes,
\* crashes and timeouts a job runs once, for one executor, with one outcome.
ImplementsJobLedger == Ledger!Spec

\* A job row only moves forward and a READY or FAILED row is never rewritten,
\* although Complete and Fail are unconditional UPDATEs and the row is inserted
\* after its key is public.
JobMovesForward ==
  [][\A row \in Rows : jobStatus'[row] # jobStatus[row] =>
        Rank(jobStatus'[row]) > Rank(jobStatus[row])]_jobStatus

\* What runProvisionWorkflow builds, each thing only on top of the one before,
\* through every error, timeout and crash, until a teardown of the tenant
\* begins: no vCluster without both isolation policies, no kubeconfig without a
\* vCluster, no key without a stored kubeconfig, ACTIVE only with CIDRs and a
\* key, and READY only of an ACTIVE tenant.
BuiltInOrder ==
  \A s \in Slugs : TeardownBegan(s) \/
    /\ hostObjects[s] # {} => "namespace" \in hostObjects[s]
    /\ "vcluster" \in hostObjects[s] => Policies \subseteq hostObjects[s]
    /\ s \in kubeconfigs => "vcluster" \in hostObjects[s]
    /\ apiKeys[s] # {} => s \in kubeconfigs
    /\ tenantCIDR[s] # 0 => apiKeys[s] # {}
    /\ tenantStatus[s] = "ACTIVE" => tenantCIDR[s] # 0
    /\ \A j \in Requests : jobStatus[<<s, j>>] = "READY" => tenantStatus[s] = "ACTIVE"

-----------------------------------------------------------------------------
(* Progress, under FairSpec.                                               *)

Gone(r) == pc[r] = "crashed"

\* A workflow that claimed its job ends in its result, in failJob or with its
\* process: it never stops half-way in silence.
ProvisionDelivers ==
  \A r \in Requests : \A s \in Slugs :
    (pc[r] = "lookup" /\ Slug(r) = s)
      ~> (tenantStatus[s] = "ACTIVE" \/ pc[r] \in FailSteps \/ Gone(r))

\* The same of the teardown: the tenant becomes DELETED.
DeprovisionDelivers ==
  \A r \in Requests : \A s \in Slugs :
    (pc[r] = "revoke" /\ Slug(r) = s)
      ~> (tenantStatus[s] = "DELETED" \/ pc[r] \in FailSteps \/ Gone(r))

-----------------------------------------------------------------------------
(* What the documentation says of the service, and the code does not do.   *)

\* GetJob reads partition uuid.Nil, whatever the job.
Polled(j) == jobStatus[<<NilTenant, j>>]

\* "Clients poll GET /vpc/jobs/{id} until status reaches READY or FAILED": a
\* request that got its job id back can poll it to a terminal status.
PolledJobEnds ==
  \A r \in Requests : pc[r] = "claim" ~> (job[r] # NoJob /\ Polled(job[r]) \in Terminal)

\* DELETED means "the tenant and all their resources have been permanently
\* deprovisioned": once no workflow is running any more, it has neither a vCluster
\* nor a kubeconfig (whether the CLI removes the namespace is not the code's).
\* Deprovision does not wait for a provisioning workflow of the tenant, which may
\* make either after the teardown's step for it and before its last write.
DeletedLeavesNothing ==
  (\A r \in Requests : pc[r] \in {"idle", "done"}) =>
    \A s \in Slugs : tenantStatus[s] = "DELETED" => "vcluster" \notin hostObjects[s] /\ s \notin kubeconfigs
=============================================================================
