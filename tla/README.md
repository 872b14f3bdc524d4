# CloudForge in TLA+

TLA+ modules, TLC runs and TLAPS proofs about CloudForge: the VPC provisioner,
the accounts service and the stores under them, the HTTP path every request
takes, and two of the spikes. Paths below are relative to `src/`.

## 1. Inventory

CloudForge gives each tenant a virtual cluster on a shared Kubernetes host.
Two Go binaries carry its logic, `cmd/cf-provisioner` and `cmd/cf-accounts`.
Both may run in several replicas, both embed the provisioner service, and all
shared state is in ScyllaDB (schema `internal/accounts/schema/schema.cql`), in
OpenBao and on the host cluster.

| Component | State | Operations | What is hard | What makes it correct |
|---|---|---|---|---|
| Provisioner service (`services/provisioner/service`) | none of its own; one goroutine per accepted request | Provision, GetJob, Deprovision; workflows of ten and four steps | goroutines outlive the request; replicas and retries; each step is an external call that can fail, time out, or take effect and still report an error; teardown against provisioning; a process that dies | a job runs once; the infrastructure is built in its order; a claimed workflow ends in its result or in failJob |
| Job store (`internal/accounts/job.go`) | `provisioning_jobs_by_idem`, `provisioning_jobs` | Enqueue, Claim, Complete, Fail, Get | two tables written in two statements; LWTs mixed with plain UPDATEs; partition `uuid.Nil` against the tenant's | one job per key, one claim per job, statuses only move forward |
| CIDR allocator (`internal/provisioner/cidr.go`) | `cidr_allocations` | AllocateCIDRs, ReleaseTenantCIDRs | a pair takes two LWTs; rollback; failures of both | held pairs stay reserved; first fit; no leak without a fault; a scan ends |
| Accounts service (`services/accounts/service`) | none of its own | Register, ProvisionNetwork, GetAccount, DeleteAccount, IssueKey, RevokeKey | Register is five steps over four tables; checks on materialized views | one owner per slug; a 201 means a complete account; an issued key works, a revoked one does not |
| Tenant, user and key stores (`internal/accounts`) | `tenants`, `tenant_slugs`, `users`, `api_keys` and two views | Create, Get*, SetCIDRs, UpdateStatus, Store, Lookup, Revoke* | LWT on fresh UUIDs; best-effort undo; view lag; revoke by read, then write | uniqueness; no half-made account behind a success |
| vCluster, policy and kubeconfig helpers (`internal/provisioner`) | host namespace, policies, vCluster, OpenBao versions | CreateVCluster, DeleteVCluster, Apply*, Store, Retrieve, Revoke | several commands each; errors after the effect; a poll that ignores errors; "not found" taken for success | ingress is exact before there is anything to reach; the stored kubeconfig fits; the wait ends |
| REST handlers and generated code (`services/*/handler.go`, `services/*/generated`, `pkg/client/*`) | per request | bind, validate, call, translate errors, parse | four layers, each with its own list of statuses and types | a status tells what happened, and is one the contract declares |
| Middleware and metrics (`internal/middleware`, `internal/metrics`) | per request | CORS, request id, span, log, recovery, metrics, tenant | the order of the chain; panics | what a caller saw is logged and counted |
| Server processes (`cmd/cf-*/main.go`, `wire.go`) | database session, HTTP server | Wire, serve, Shutdown | failures half-way through the start; the session closes while requests are running | the session is released; every call returns |
| Storage service (`services/storage`) | none | placeholder handlers | answers 500 with INTERNAL_ERROR; the helper for 501 is never called | its answers are in its contract |
| NATS spike (`spikes/nats-routing`) | a JetStream stream and consumer; a goroutine per read | Run, ConsumeAndDispatch | the goroutine outlives the call; redelivery; events of earlier runs | nothing leaves the queue unhandled; a pass means dispatched events |
| Isolation spike (`spikes/tenant-isolation`) | two vClusters | six tests in order, an exit code | exec errors look like blocked connections, and so does half an answer of the DNS; the deleted pod against its successor; the context's end | a reach fails the run, with one exception (section 5); nothing passes late |
| ScyllaDB session, errors, logging, tracing, configuration, test helpers, placeholders, other spikes | none shared | | | section 6 |

How they interact: the accounts service calls the provisioner service in process
(ProvisionNetwork, DeleteAccount); Register creates the tenant the provisioning
workflow looks up; the workflow writes the tenant row, the host cluster, OpenBao
and the API keys; clients poll jobs. Nothing is passed by message between
replicas: they meet in the database only. Every call from outside goes through
the generated client, the middleware chain and the generated router.

`PROJECT.json` lists the hazards of this code with the line where each bites and
the properties that would catch it going wrong. A hazard without one is modelled,
and its outcome is what the code does: the note says so, and section 5 says where a
document promises otherwise.

## 2. Modules

| Module | Models | State and actions |
|---|---|---|
| `JobStore` | the tables and CQL statements of `job.go` | `jobsByIdem`, `jobStatus`, `jobResult`; one operator per statement taking whether the database applied it |
| `VPCProvisioner` | `services/provisioner/service/service.go` over `JobStore`, the tenant row, host cluster, OpenBao, API keys | a request `r` is an HTTP call and the goroutine it starts; `pc[r]` is its place in the code; one action per external call |
| `JobLedger` | abstract: what a job queue promises | `handle`, `executor`, `outcome` |
| `CIDRAllocator` | `cidr.go` | `allocations`, and the place and index of each tenant's call |
| `Registration` | `Register`, `TenantStore.Create`, `UserStore.Create` | the tables as sets of calls; `pc[c]` |
| `AccountDirectory` | abstract: one owner per name, only owners are confirmed | `owner`, `confirmed` |
| `TenantKeys` | `IssueKey`, `RevokeKey`, `GenerateAPIKey`, `APIKeyStore` | status history of each tenant and how much of it the view shows; a row per key; one action per statement |
| `KeyLedger` | abstract: a key is born once and dies once | `live`, `dead`, `handedOut`, `confirmed` |
| `TenantCluster` | `vcluster.go`, `cnp.go`, `kubeconfig.go` command by command | namespace, policies, vCluster, kubeconfig versions; workflows and teardowns; `Reaches` says what the policies admit |
| `AccountsAPI`, `ProvisionerAPI`, `StorageAPI` | routes, parameters, bodies, validation, handlers, declared and parsed answers of each service | tables by operation, no state |
| `RESTExchange` | caller, process, middleware chain, router, handler, reply | `process`, `session`, `server[x]`, `client[x]`; extends the three tables |
| `NATSSpike` | `spikes/nats-routing` | the run, the cluster it leaves behind, the reading goroutine |
| `IsolationSpike` | `spikes/tenant-isolation` | the probe's next command, API-server pods, hidden open routes |
| `MCVPCProvisioner`, `MCCIDRAllocator`, `MCRegistration`, `MCTenantKeys` | symmetry sets for TLC | |
| `VPCProvisionerProofs`, `CIDRAllocatorProofs`, `RegistrationProofs`, `TenantKeysProofs`, `RESTExchangeProofs`, `TenantClusterProofs`, `NATSSpikeProofs`, `IsolationSpikeProofs` | theorems | |

Which composes which: `VPCProvisioner` extends `JobStore` and instantiates
`JobLedger`; `Registration` instantiates `AccountDirectory`, `TenantKeys`
`KeyLedger`; `RESTExchange` extends the three API modules. `TenantCluster` opens
up two steps that `VPCProvisioner` takes whole, and `TenantKeys` its key step.

### How code becomes actions

* A step of the model is one call to an external system: a CQL statement, a
  `kubectl` or `vcluster` invocation, a request to OpenBao or NATS. Between two of
  them any other actor may run. In `VPCProvisioner` `CreateVCluster` is one step
  although it runs three commands; `TenantCluster` has all of them.
* Outcomes of a call: `ok`; `lost`, an error without effect; `unknown`, an error
  although the effect took place (a timeout on the way back). Once a workflow's
  five-minute context is done (`Expire`) every further call of it is lost,
  failJob's too, because the code gives failJob the same context. For safety
  this adds no behaviour, since each call may be lost by itself: `Timeouts` is
  TRUE in the run that checks progress and FALSE in the others. The proofs hold
  for both.
* The partition key matters: `Home` is the partition a job is enqueued and
  claimed under (`uuid.Nil` for a provision), `Slug(r)` the one it is completed
  under. `jobStatus` is a table by (partition, job), as in the schema.
* Statements without a condition are unconditional in the model: `CompleteRow`
  and `FailRow` create a missing row, `UpdateStatus` overwrites any status,
  `Release` deletes whoever's block it is.
* Materialized views lag: `visible`, `usersByEmail` and `shown` follow their base
  tables by an action of their own, at any later time or never.
* UUIDs minted by a call are named by the call: they are fresh, and the code
  treats a collision as impossible. Slugs stand for the tenant they resolve to
  in `VPCProvisioner`; that this is one tenant is what `Registration` checks
  (`SlugsAreUnique`).
* A request of `RESTExchange` is one operation with at most one defect (a body
  that does not decode, a parameter that does not bind, a rule that is broken);
  the outcome of the service is any error it can return. net/http buffers a
  reply until the outermost handler returns.
* What the isolation spike can really reach is fixed in the initial state and
  hidden from the program, which sees only the output of its commands: the set of
  `Signals` (words of failure, words of a reach) that stdout and stderr hold
  together. `nc` prints one of them; `nslookup` may print both whatever it finds;
  a failing exec prints any. The classifiers ask in the order of the code, failure
  first.
* `vacant`, `faulty` (CIDRAllocator), `created` (Registration), `confirmed`
  (TenantKeys), `handled` (NATSSpike) and `saw` and `late` (IsolationSpike) are
  history variables: no guard reads them. `settled` of `NATSSpike` is one too, but
  for the bound that others publish each of their events once. `claimed` of
  `VPCProvisioner` records which requests Claim answered true.

Definitions marked `(Mutant)` are plausible bugs of the definition that follows
them. No specification uses them; they are there to show that each property can
be broken by a bug of the code.

## 3. What the runs check

Runs that pass (states are distinct ones, rounded):

| Run | Instance | Shows |
|---|---|---|
| `ProvisionerSafety` | 1 slug, 3 requests of either kind, 2 days, all faults, crashes, symmetry; 170,000 states | `SingleExecution`, `BuiltInOrder`, `JobMovesForward`, `ImplementsJobLedger`, `TypeOK` |
| `ProvisionerProgress` | 1 slug, 2 requests, 2 days, all faults, timeouts, crashes; 51,000 states | `ProvisionDelivers`, `DeprovisionDelivers`: a claimed workflow reaches its result or failJob unless its process dies |
| `CIDRs` | 2 tenants, 3 blocks, all faults, allocation and release any number of times; 424,000 states | `HeldPairsAreReserved`, `FirstFit`, `NothingLeaks`, `ScanEnds`, `TypeOK` |
| `Registration` | 3 calls, 2 slugs, 2 addresses, all faults, crashes, symmetry; 18,000 states | `SlugsAreUnique`, `RegisteredIsComplete`, `ImplementsDirectory`, `TypeOK` |
| `Keys` | 3 calls, 2 tenants, 3 status writes, all faults, symmetry; 1,640,000 states | `IssuedKeysWork`, `RevokedKeysAreDead`, `KeysFollowActivation`, `ImplementsKeyLedger`, `TypeOK` |
| `Exchange` | 1 request of each operation, defect and outcome, to each of the 3 services; 10,000 states | `StatusTellsOutcome`, `AnswersAreInTheContract`, `AnswersAreObserved`, `SessionIsReleased`, `EveryCallReturns`, `TypeOK` |
| `Cluster` | 2 workflows and a teardown of one tenant, all faults; 19,000 states | `IngressIsExact`, `RetrieveFits`, `ProvisioningEnds`, `TypeOK` |
| `Routing` | 2 runs, 2 connection attempts, an unrouted and a garbled foreign event, a cluster that fails; 853,000 states | `EventsLeaveSettled`, `PassMeansDispatched`, `RunAndReaderEnd`, `TypeOK` |
| `Probe` | the whole probe with and without `-skip-create`, 2 samples per test, 2 pods per vCluster, every set of open routes; 2,770,000 states | `ReachFailsTheRun`, `NothingPassesLate`, `RecoveryIsReal`, `ProbeExits`, `TypeOK` |

Runs that end in a counterexample, each for one sentence of the documentation
that the code does not keep (the sentences are quoted in `PROJECT.json`):

| Run | Counterexample |
|---|---|
| `PolledJob` | a provision without any fault: the row the client polls, in partition `uuid.Nil`, stays PROVISIONING, since Complete writes a new row in the tenant's partition |
| `DeletedTenant` | provision and teardown of one tenant without any fault: the workflow stores the kubeconfig (or creates the vCluster) after the teardown's step that removes it, goes on to ACTIVE, and the teardown then writes DELETED: both are over, and the DELETED tenant still has it |
| `DuplicateEmail` | two registrations of one address that both passed the check on the view |

### Bounds and why they are enough

* Requests: two are enough for a double click, a teardown against a provision, and
  an idempotency key whose job has no row; the third lets a duplicate request
  meet both. A request takes part in one job, so three requests make at most
  three jobs.
* Slugs: 1 in the provisioner. Every table but the idempotency table is written
  at the request's own slug only, and every safety property of it is proved for
  any set of slugs.
* `MaxDay` = 1: two different dates are what it takes to have two deprovision keys
  of one tenant.
* `maxTenants` is 254 in the code, 3 in `CIDRs`: a tenant can lose one index to the
  other, leave one behind and still have one; two tenants and two leaked blocks
  reach exhaustion. The safety properties are proved for any number.
* Registration: three calls over two slugs and two addresses include two that
  share one and a third that comes after both failed.
* Keys: one call issues and two revoke, or two issue; three writes take a tenant
  through PROVISIONING, ACTIVE and DELETED under a view that has seen any prefix.
* Exchange: one request. Requests share the process and its session and nothing
  else; all five invariants are proved for any number.
* Cluster: the second workflow of a tenant is what a retry on another key, or a
  crash after the claim, would leave beside the first; one teardown is enough to
  end what the invariants claim. They are proved for any number of both.
* Routing: the second run is the one that finds what the first left. `MaxTries` is
  10 in the code; one failed attempt and a second one reach both exits. The
  invariants are proved for any number of runs, attempts and foreign events.
* Probe: `ReadySeconds` and `MaxIdle` stand for the thresholds of `types.go`, with
  one duration or load on each side of them; a second pod is what a recovery
  needs, and what a crash may fake. That a crash comes between finding the pod and
  deleting it and the test recovers all the same takes a third pod: that case is
  covered by the proof of `RecoveryIsReal`, for any number of pods, and not by the
  run. The safety properties are proved for all flags, thresholds and readings.

### Fairness

Weak fairness only, and none in `ProvisionerSafety`, `Registration`, `Keys` and the
two violation runs that check an invariant.

| Specification | Fair | Not assumed |
|---|---|---|
| `VPCProvisioner` | `Progress(r)`: the goroutine of a request that has arrived keeps running; every call returns because its context has a deadline | arrivals, the view, the calendar, `Expire`, `Crash` (a crashed request is excluded by `Gone`) |
| `CIDRAllocator` | a scan or release that has begun | that anyone calls |
| `RESTExchange` | `Accept`, `Serve`; a reply leaves or is lost; a dead connection is noticed | `GiveUp`: a caller may wait without a deadline; signals; failures |
| `TenantCluster` | commands end; the timer of the wait fires | that a vCluster becomes ready |
| `NATSSpike` | `Main`, `Reader`: goroutines are scheduled, requests are answered or fail | that the server delivers, or the context expires |
| `IsolationSpike` | `Main`, `Test`, `Deadline`: commands return, the deadline passes | that a pod becomes ready, or the context ends |

Deadlock checking is off in every run: a system whose requests are all answered,
or whose processes ended, stops.

## 4. What is proved

Eight modules hold machine-checked proofs for every value of the constants: any
sets of requests, workflows, slugs, tenants and services, any bound, flag and
threshold, with or without faults, timeouts and crashes. They rest only on the
named assumptions of the modules about their constants (sentinels are outside the
sets they stand beside; bounds are natural numbers; faults are the two above;
`MaxBirths` is at least 1, because `vcluster create` makes the first pod). Two
theorems assume more of a constant and say so; both are about what the code does
at that value. Every safety property that a passing run checks is proved.

| Module | Theorem | States |
|---|---|---|
| `VPCProvisionerProofs` | `TypeCorrect`, `JobRunsOnce`, `RowsMoveForward`, `LedgerImplemented`, `BuildsInOrder` | the five properties of `ProvisionerSafety`: `TypeOK`, `SingleExecution`, `JobMovesForward`, `ImplementsJobLedger`, `BuiltInOrder` |
| `CIDRAllocatorProofs` | `TypeCorrect`, `HeldReserved`, `NoLeak`, `FirstFitHolds` | the four invariants of `CIDRs`; `HeldReserved` under `ReleaseAgain = FALSE` |
| `RegistrationProofs` | `TypeCorrect`, `SlugsUnique`, `RegisteredComplete`, `DirectoryImplemented` | the four properties of `Registration` |
| `TenantKeysProofs` | `TypeCorrect`, `IssuedWork`, `RevokedAreDead`, `KeysOfActivated`, `LedgerImplemented` | the five properties of `Keys` |
| `RESTExchangeProofs` | `TypeCorrect`, `StatusIsTrue`, `ContractIsKept`, `AnswersObserved`, `SessionReleased` | the five invariants of `Exchange` |
| `TenantClusterProofs` | `TypeCorrect`, `IngressExact`, `RetrieveFitting` | the three invariants of `Cluster` |
| `NATSSpikeProofs` | `TypeCorrect`, `NothingLost`, `PassIsEarned` | the three invariants of `Routing` |
| `IsolationSpikeProofs` | `TypeCorrect`, `ReachIsReported`, `LateTestsDoNotPass`, `RecoveredForReal` | the four safety properties of `Probe`; `LateTestsDoNotPass` under `SpeedSamples > 0`, since Test 2 passes when it is asked for no sample |

Every argument has the same form: a property that is not inductive is
strengthened, the initial states satisfy the strengthening, every action of `Next`
preserves it (one step per action), and it implies the property.

**One execution.** `SingleExecution` says nothing of the job rows, and a second
claim is prevented by them only. `IInv` adds:

| Conjunct | Why it is needed |
|---|---|
| `KeyWellFormed` | a provision's key has no date, so a tenant has one provision key |
| `KeyHasItsJob` | a reserved key names the job of a request that asked for this very key, so no job is named by two keys |
| `JobHasItsKey` | every request works on the job its own key names: two provisions of a tenant have one job |
| `NoRowBeforeInsert` | while the winner of the key is between its two statements no row of the job exists, so nobody can have claimed it and the insert resets nothing |
| `ClaimTookTheRow` | the row of a claimed job is past QUEUED, so no second claim applies, and no job has two |
| `BodyIsClaimed` | only a request that won its claim is inside a workflow |
| `TerminalIsFinal` | a READY or FAILED row belongs to a workflow that is over, so one that may still write an outcome finds none: each writes at most one, as its last step |

`RowsMoveForward` and the refinement of `JobLedger` use `IInv` before the step: the
first to show that each write finds a lower status, the second that a key gets its
handle once, a job its executor once, and an outcome only after that.

**Build order.** `OrderInv` adds to `IInv` that the steps a request takes fit its
key (`StepsFitKey`) and that a workflow at step n finds what step n-1 built
(`RunsHaveBuilt`; what came before follows from `BuiltInOrder`). Until a teardown of the tenant is claimed, a tenant's objects
only grow; afterwards `BuiltInOrder` claims nothing and teardown never un-begins.

**CIDRs.** `Ownership` (`PodIsOwn`, `SvcIsOwn`): from the reservation of a block to
its rollback or release the call's own tenant is in the row, because a reservation
never applies to a taken block and nobody else releases it. `Clean` adds where a tenant
without a fault may have blocks at all; `ScanMissesNothing` that an index that was
free all along is still ahead of the scan.

**Registration.** `HoldersReserve` and `HoldersDiffer`: a call that is waiting for
its tenant row or giving its slug back, or to which Create returned, has its slug
reserved, and no two have the same; `TenantFirst`, `UserNext`, `KeyNext`, `KeyLast`
give the order of the rows. The refinement maps a slug's owner to the call to
which Create returned.

**Keys.** `NoRowBeforeStore` (a key is inserted once), `IssuedHasRow`,
`RevokedOnRequest`, `ConfirmedRevoked`, `StoresForActive`, with `CallsFit`,
`NamesHandedOut` and `IdleHasNoKey`, which tie a call's arguments to its place.

**Exchange.** Two invariants, one on top of the other. `IInv`: `WellFormed` gives
the two records of a request their shape, and `Noted` says what the logger and the
metrics have seen of its status at each place of the chain. `CInv` adds the
contract: `Told` says that nothing is done before the handler calls its service
and that from the answer on the reply fits (`Fits`: a declared status, and one that
tells what was done), `HasRead` what the client made of it. What is proved of the
chain comes down to the tables of the API modules, so the lemmas go through them
once, by service (`AccountsTables`, `ProvisionerTables`, `StorageTables`,
`StatusOf`), and put them together: every error a service method returns ends in a
status that the operation declares and its client parses (`ErrorFits`), as does
every success (`SuccessFits`, `AnswerFits`) and everything written without the
service (`RefusalsFit`, `RecoveryFits`).

**Host cluster.** `IngressIsExact` does not know whose next step makes the vCluster.
`PoliciesStay`: until a teardown begins, a workflow past the step of a policy finds
that policy, since nobody deletes one, and a vCluster has both. `ExportFits` and
`HasExported` carry what `RetrieveFits` needs from `export` to `store`: the kubeconfig
a workflow holds is that of the vCluster there is.

**NATS.** That Q4 counts events which were dispatched in this run takes the history
of the rounds. `RoundsCounted`: without an error on the list, each round of the reader
has settled exactly one event more. That no two rounds settle the same one is
`DeliveredOnce`: while the iterator of this run is open, what this run has settled
is on its way out (`out`) even if the acknowledgement was lost, so it is not
delivered again. `NothingFromTheFuture` starts the count at 0 in a new run.

**Isolation.** `ReachIsNoted`: a way through that a command found is in a verdict
FAIL, or in `blocked` between the two probes of Test 1, or is a name resolved in an
output with a word of failure (`Overlooked`); that this is the only exception rests
on what the commands print (`ProbePrints`). `ExitCodeFits` ties the exit code to the
verdicts. `LateStaysAtItsStart`: a test that began with the
context done never gets past its first command. `NothingPassesLate` is inductive
on top of these if there is a sample to fail. `FoundIsGone`: once Test 6 has deleted
the pod it found, there is none or a younger one.

Only model-checked: all liveness (`ProvisionDelivers`, `DeprovisionDelivers`,
`ScanEnds`, `EveryCallReturns`, `ProvisioningEnds`, `RunAndReaderEnd`, `ProbeExits`),
which rests on fairness and ENABLED and is out of the prover's reach.

## 5. Where the code and its texts disagree

Three disagreements are runs (section 3). The others met while modelling, with
the place of the text; the model follows the code in each.

*Provisioner and stores*

* Jobs found QUEUED after a restart are not picked up
  (`docs/CF-VPC-Service-Proposal.md:347`, `docs/3-Introduce-CF-VPC.md:889`): the
  only executor is the goroutine of the request.
* The result blob holds the raw key; `internal/accounts/job.go:148` and
  `schema.cql:149` say it never does.
* A teardown does not revoke the tenant's keys; `internal/accounts/apikey.go:135`
  says RevokeByID is called then.
* A failed provision cannot be retried, since its key never changes, and a failed
  deprovision only on the next day. A job whose key was reserved and whose row was
  not inserted never runs.
* Every tenant gets the same pair of CIDRs (`service.go:143`, a TODO).
* `ReleaseCIDR` is called "safe to call on an already-released CIDR"
  (`internal/provisioner/cidr.go:155`). After a release that reported an error,
  another tenant may have taken the block, and the second call deletes its
  reservation: `HeldPairsAreReserved` fails with `ReleaseAgain = TRUE`.
* `DeleteVCluster` "deletes the host namespace" (`vcluster.go:114`); the command it
  runs has no flag for it.

*Accounts*

* RevokeKey of an unknown key answers 204; `services/accounts/errors.go:21`
  documents ErrKeyNotFound as 404. It checks that the tenant exists and not that
  the key is the tenant's.
* The check for ACTIVE in IssueKey reads a view that lags, so a DELETED tenant may
  get a key; `KeysFollowActivation` states what remains true.
* SUSPENDED and ROTATING are declared and never written.

*HTTP*

* The documented base paths (`servers` of `api/*/v1/openapi.yaml`) are not
  mounted: a client that uses them gets 404. `/metrics` is never mounted either
  (`internal/metrics/metrics.go:89`).
* A body that does not decode is answered 400 in text/plain, not the JSON the
  contract declares; `AnswersAreInTheContract` therefore speaks of JSON answers.
* TenantContext runs before the mux has matched a path, so it never sets a tenant.
* Metrics lie inside the panic recovery, so a request that panics is not counted.
  `services/storage/server.go:15` lists another order than `chain.go`.
* The storage handlers say 501 (`services/storage/handler.go:13`) and answer 500.
* ListenAndServe returns when Shutdown begins and nobody waits for Shutdown: the
  session closes under running requests ("graceful shutdown",
  `cmd/cf-provisioner/main.go:85`). `EveryCallReturns` holds all the same, with errors.

*Spikes*

* NATS: Run "exits non-zero if any critical question fails" (`run.go:28`);
  `cmd/main.go` ignores the results. ConsumeAndDispatch "reads exactly n messages"
  (`routing.go:126`): a failed Next and a Nak'd message use up a round. Q4 may pass
  on events an earlier run or somebody else has published.
* Isolation: Test 2 says it deletes NATS (`speed.go:92`) and does not; the namespace
  of `ciliumProbeTemplate` "is interpolated by the caller" (`cilium.go:23`) and is
  not. "Any successful cross-tenant reach is a FAIL regardless of vector"
  (`isolation.go:81`): `isDNSBlocked` looks for words of failure before it looks for
  an address (`isolation.go:187-201`). The nslookup of busybox asks for IPv4 and IPv6, so a name of
  tenant-B's that resolves to an IPv4 address alone prints it and "can't find ... No
  answer" as well, is read as blocked, and the probe exits with 0. `saw = {}` at exit
  0 therefore fails; `ReachFailsTheRun` states what is true, with that one exception.
  Tests 1 and 5 read a failing exec or empty output as blocked, also when the context
  ends after their setup, and Test 5 falls back on a stand-in address: a PASS does not
  mean that the route was tried. `-speed-samples 0` passes, and `-skip-create` makes
  the measured creation time 0.

## 6. What is not modelled, and why

* ScyllaDB session: it connects once; the driver's own retries are behind the
  outcome of a statement. Statements on one row are taken as atomic. A plain write
  that meets an LWT on the same row is applied when it is executed; consistency
  below QUORUM and clock skew of client timestamps are left out.
* Errors, logging, tracing: values and wrappers without protocol state. The codes
  of the service errors are in `AccountsStatus` and `ProvisionerStatus`.
* Configuration: merging of sources at startup. That it may fail is `ConfigFails`.
* Of the generated code the models, the embedded OpenAPI document and the request
  builders that repeat one pattern per operation: the tables of the API modules
  have what differs between operations.
* `GetByID` of the stores and `UserStore.UpdateStatus`: no service calls them.
* The other spikes (`ai-runtime`, `cilium-enforcement`, `knative-coldstart`,
  `opa-embedded`, `scylladb-accounts`): sequential programs that measure an external
  system and print. Latencies of the NATS spike and tables of the isolation spike
  for the same reason.
* Test helpers and empty packages.
* Texts: error messages, rendered manifests, log lines.

## 7. Plan

Done, the most important first: job store and provisioner; CIDR allocator;
registration; keys; the HTTP exchange and the processes; the host cluster command
by command; the two spikes; theorems for every safety property that a passing run
checks, the three refinements included.

Left: a composition of `Registration` and `VPCProvisioner` over one tenant table,
with two rows of one slug after an ambiguous second phase of Create; an abstract
specification of `RESTExchange` (a call is answered once, with what was done) that
it is shown to implement.

## 8. Running it

    tlc -workers 2 -config ProvisionerSafety.cfg MCVPCProvisioner.tla
    tlc -workers 2 -config Exchange.cfg RESTExchange.tla
    tlapm RESTExchangeProofs.tla

`PROJECT.json` names the module of every run. `Keys`, `Routing` and `Probe` take two
to four minutes each, the others less than one.
