------------------------ MODULE VPCProvisionerProofs ------------------------
(***************************************************************************)
(* Theorems about VPCProvisioner for every value of its constants: types,  *)
(* single execution, rows that only move forward, the refinement of        *)
(* JobLedger, and the order in which infrastructure is built.              *)
(***************************************************************************)
EXTENDS VPCProvisioner, TLAPS

\* Every operation, slug and day makes an idempotency key.
LEMMA KeyOfType ==
  ASSUME NEW o \in Operations, NEW s \in Slugs, day \in 0 .. MaxDay
  PROVE  KeyOf(o, s) \in IdemKeys /\ KeyOf(o, s).op = o /\ KeyOf(o, s).slug = s
BY MaxDayIsNat DEF KeyOf, IdemKeys

\* A job is enqueued, and completed, under a partition of the table.
LEMMA HomeType ==
  ASSUME NEW k \in IdemKeys
  PROVE  Home(k) \in Partitions /\ k.slug \in Partitions /\ k.slug \in Slugs
BY DEF Home, IdemKeys, Partitions

\* A call has one of three outcomes.
LEMMA OutcomesType ==
  ASSUME NEW r
  PROVE  Outcomes(r) \subseteq {"ok", "lost", "unknown"}
BY FaultsAreOutcomes DEF Outcomes

\* The set of every location a workflow may be at, spelled out.
LEMMA Locs ==
  /\ Workflow = {"claim", "lookup", "namespace", "tenant-isolation", "provisioner-access",
                 "vcluster", "kubeconfig", "apikey", "cidrs", "activate", "complete", "revoke",
                 "delete", "markDeleted", "deprovisioned", "failNil", "failTenant"}
  /\ Locations = Workflow \cup {"idle", "insert", "done", "crashed"}
BY DEF Locations, Workflow, ProvisionSteps, DeprovisionSteps, FailSteps

\* r is past its reservation, and its next location is one it can be at.
Moves(r) ==
  /\ pc[r] \in {"insert"} \cup Workflow
  /\ \E loc \in Workflow \cup {"done", "crashed"} : Goto(r, loc)
  /\ UNCHANGED <<key, job>>

\* The conjuncts of TypeOK about pc, key and job, and the types of what r reads.
CallsTyped(r) ==
  /\ pc' \in [Requests -> Locations]
  /\ \A q \in Requests : pc'[q] \in {"insert"} \cup Workflow =>
       key'[q] \in IdemKeys /\ job'[q] \in Requests
  /\ Slug(r) \in Slugs /\ <<Home(key[r]), job[r]>> \in Rows /\ <<Slug(r), job[r]>> \in Rows

\* A goroutine moving on keeps the typing of the request's own variables.
LEMMA MoveTyped ==
  ASSUME TypeOK, NEW r \in Requests, Moves(r)
  PROVE  CallsTyped(r)
<1>1. PICK loc \in Workflow \cup {"done", "crashed"} : Goto(r, loc)
  BY DEF Moves
<1>2. key[r] \in IdemKeys /\ job[r] \in Requests
  BY DEF TypeOK, Moves
<1>3. Home(key[r]) \in Partitions /\ Slug(r) \in Partitions /\ Slug(r) \in Slugs
  BY <1>2, HomeType DEF Slug
<1>4. pc' \in [Requests -> Locations]
  BY <1>1 DEF TypeOK, Goto, Locations
<1>5. ASSUME NEW q \in Requests, pc'[q] \in {"insert"} \cup Workflow
      PROVE  key'[q] \in IdemKeys /\ job'[q] \in Requests
  BY <1>1, <1>2, <1>5 DEF TypeOK, Goto, Moves
<1>6. QED
  BY <1>2, <1>3, <1>4, <1>5 DEF CallsTyped, Rows

\* The initial state is typed.
LEMMA InitTyped == Init => TypeOK
<1> SUFFICES ASSUME Init PROVE TypeOK
  OBVIOUS
<1>1. JobStoreTypeOK
  BY DEF Init, JobStoreInit, JobStoreTypeOK, Statuses, Results
<1>2. /\ pc \in [Requests -> Locations]
      /\ \A r \in Requests : pc[r] \notin {"insert"} \cup Workflow
  BY DEF Init, Locations, Workflow, ProvisionSteps, DeprovisionSteps, FailSteps
<1>3. day \in 0 .. MaxDay
  BY MaxDayIsNat DEF Init
<1>4. QED
  BY <1>1, <1>2, <1>3 DEF Init, TypeOK, TenantStatuses

\* Every step keeps the state typed, action by action.
LEMMA StepTyped ==
  ASSUME TypeOK, [Next]_vars
  PROVE  TypeOK'
<1> USE DEF TypeOK, JobStoreTypeOK, Goto, callVars, jobVars, tenantVars, infraVars
<1>1. ASSUME NEW r \in Requests, NEW o \in Operations, NEW s \in Slugs, ReserveWins(r, o, s)
      PROVE  TypeOK'
  <2>1. KeyOf(o, s) \in IdemKeys
    BY KeyOfType
  <2>2. jobsByIdem' \in [IdemKeys -> Requests \cup {NoJob}]
    BY <1>1, <2>1 DEF ReserveWins, ReserveIdem
  <2>3. "insert" \in Locations
    BY DEF Locations
  <2>4. QED
    BY <1>1, <2>1, <2>2, <2>3 DEF ReserveWins, ReserveIdem
<1>2. ASSUME NEW r \in Requests, NEW o \in Operations, NEW s \in Slugs, ReserveFindsExisting(r, o, s)
      PROVE  TypeOK'
  <2>1. KeyOf(o, s) \in IdemKeys
    BY KeyOfType
  <2>2. ExistingJob(KeyOf(o, s)) \in Requests
    BY <1>2, <2>1 DEF ReserveFindsExisting, ExistingJob
  <2>3. "claim" \in Locations
    BY DEF Locations, Workflow
  <2>4. QED
    BY <1>2, <2>1, <2>2, <2>3 DEF ReserveFindsExisting
<1>3. ASSUME NEW r \in Requests, NEW o \in Operations, NEW s \in Slugs, ReserveFails(r, o, s)
      PROVE  TypeOK'
  <2>1. KeyOf(o, s) \in IdemKeys
    BY KeyOfType
  <2>2. jobsByIdem' \in [IdemKeys -> Requests \cup {NoJob}]
    BY <1>3, <2>1 DEF ReserveFails, ReserveIdem
  <2>3. "done" \in Locations /\ "done" \notin {"insert"} \cup Workflow
    BY DEF Locations, Workflow, ProvisionSteps, DeprovisionSteps, FailSteps
  <2>4. QED
    BY <1>3, <2>1, <2>2, <2>3 DEF ReserveFails, ReserveIdem
<1>4. ASSUME NEW r \in Requests, NEW s \in Slugs, DeprovisionNotFound(r, s)
      PROVE  TypeOK'
  <2>1. "done" \in Locations /\ "done" \notin {"insert"} \cup Workflow
    BY DEF Locations, Workflow, ProvisionSteps, DeprovisionSteps, FailSteps
  <2>2. QED
    BY <1>4, <2>1 DEF DeprovisionNotFound
<1> HIDE DEF TypeOK, JobStoreTypeOK, Goto, callVars, jobVars, tenantVars, infraVars
<1>5. ASSUME NEW r \in Requests, InsertJob(r)
      PROVE  TypeOK'
  <2>1. CallsTyped(r)
    <3>1. Moves(r)
      BY <1>5, Locs DEF Moves, InsertJob
    <3>2. QED
      BY <3>1, MoveTyped
  <2>2. QED
    BY <1>5, <2>1 DEF CallsTyped, TypeOK, JobStoreTypeOK, tenantVars, infraVars, jobVars,
       InsertJob, InsertJobRow, Statuses, Results
<1>6. ASSUME NEW r \in Requests, Claim(r)
      PROVE  TypeOK'
  <2>1. CallsTyped(r)
    <3>1. Moves(r)
      BY <1>6, Locs DEF Moves, Claim, FirstStep
    <3>2. QED
      BY <3>1, MoveTyped
  <2>2. QED
    BY <1>6, <2>1 DEF CallsTyped, TypeOK, JobStoreTypeOK, tenantVars, infraVars, jobVars,
       Claim, FirstStep, ClaimRow, Statuses
<1>7. ASSUME NEW r \in Requests, LookupTenant(r)
      PROVE  TypeOK'
  <2>1. CallsTyped(r)
    <3>1. Moves(r)
      BY <1>7, Locs DEF Moves, LookupTenant
    <3>2. QED
      BY <3>1, MoveTyped
  <2>2. QED
    BY <1>7, <2>1 DEF CallsTyped, TypeOK, JobStoreTypeOK, tenantVars, infraVars, jobVars,
       LookupTenant
<1>8. ASSUME NEW r \in Requests, CreateNamespace(r)
      PROVE  TypeOK'
  <2>1. CallsTyped(r)
    <3>1. Moves(r)
      BY <1>8, Locs DEF Moves, CreateNamespace, Continue
    <3>2. QED
      BY <3>1, MoveTyped
  <2>2. QED
    BY <1>8, <2>1 DEF CallsTyped, TypeOK, JobStoreTypeOK, tenantVars, infraVars, jobVars,
       CreateNamespace, Continue, AddObjects, Objects
<1>9. ASSUME NEW r \in Requests, ApplyIsolationPolicies(r)
      PROVE  TypeOK'
  <2>1. CallsTyped(r)
    <3>1. Moves(r)
      BY <1>9, Locs DEF Moves, ApplyIsolationPolicies, ApplyPolicy, Continue
    <3>2. QED
      BY <3>1, MoveTyped
  <2>2. QED
    BY <1>9, <2>1 DEF CallsTyped, TypeOK, JobStoreTypeOK, tenantVars, infraVars, jobVars,
       ApplyIsolationPolicies, ApplyPolicy, Continue, AddObjects, Objects, Policies
<1>10. ASSUME NEW r \in Requests, CreateVCluster(r)
      PROVE  TypeOK'
  <2>1. CallsTyped(r)
    <3>1. Moves(r)
      BY <1>10, Locs DEF Moves, CreateVCluster, Continue
    <3>2. QED
      BY <3>1, MoveTyped
  <2>2. QED
    BY <1>10, <2>1 DEF CallsTyped, TypeOK, JobStoreTypeOK, tenantVars, infraVars, jobVars,
       CreateVCluster, Continue, AddObjects, Objects
<1>11. ASSUME NEW r \in Requests, StoreKubeconfig(r)
      PROVE  TypeOK'
  <2>1. CallsTyped(r)
    <3>1. Moves(r)
      BY <1>11, Locs DEF Moves, StoreKubeconfig, Continue
    <3>2. QED
      BY <3>1, MoveTyped
  <2>2. QED
    BY <1>11, <2>1 DEF CallsTyped, TypeOK, JobStoreTypeOK, tenantVars, infraVars, jobVars,
       StoreKubeconfig, Continue
<1>12. ASSUME NEW r \in Requests, GenerateAPIKey(r)
      PROVE  TypeOK'
  <2>1. CallsTyped(r)
    <3>1. Moves(r)
      BY <1>12, Locs DEF Moves, GenerateAPIKey, Continue
    <3>2. QED
      BY <3>1, MoveTyped
  <2>2. QED
    BY <1>12, <2>1 DEF CallsTyped, TypeOK, JobStoreTypeOK, tenantVars, infraVars, jobVars,
       GenerateAPIKey, Continue
<1>13. ASSUME NEW r \in Requests, SetCIDRs(r)
      PROVE  TypeOK'
  <2>1. CallsTyped(r)
    <3>1. Moves(r)
      BY <1>13, Locs DEF Moves, SetCIDRs, Continue
    <3>2. QED
      BY <3>1, MoveTyped
  <2>2. QED
    BY <1>13, <2>1 DEF CallsTyped, TypeOK, JobStoreTypeOK, tenantVars, infraVars, jobVars,
       SetCIDRs, Continue
<1>14. ASSUME NEW r \in Requests, ActivateTenant(r) \/ MarkDeleted(r)
      PROVE  TypeOK'
  <2>1. CallsTyped(r)
    <3>1. Moves(r)
      BY <1>14, Locs DEF Moves, ActivateTenant, MarkDeleted, UpdateStatus, Continue
    <3>2. QED
      BY <3>1, MoveTyped
  <2>2. QED
    BY <1>14, <2>1 DEF CallsTyped, TypeOK, JobStoreTypeOK, tenantVars, infraVars, jobVars,
       ActivateTenant, MarkDeleted, UpdateStatus, Continue, TenantStatuses
<1>15. ASSUME NEW r \in Requests, CompleteProvision(r) \/ CompleteDeprovision(r)
      PROVE  TypeOK'
  <2>1. CallsTyped(r)
    <3>1. Moves(r)
      BY <1>15, Locs DEF Moves, CompleteProvision, CompleteDeprovision, Finish
    <3>2. QED
      BY <3>1, MoveTyped
  <2>2. QED
    BY <1>15, <2>1 DEF CallsTyped, TypeOK, JobStoreTypeOK, tenantVars, infraVars, jobVars,
       CompleteProvision, CompleteDeprovision, Finish, CompleteRow, Statuses, Results
<1>16. ASSUME NEW r \in Requests, FailJob(r)
      PROVE  TypeOK'
  <2>1. CallsTyped(r)
    <3>1. Moves(r)
      BY <1>16, Locs DEF Moves, FailJob, FailUnder
    <3>2. QED
      BY <3>1, MoveTyped
  <2>2. QED
    BY <1>16, <2>1 DEF CallsTyped, TypeOK, JobStoreTypeOK, tenantVars, infraVars, jobVars,
       FailJob, FailUnder, FailRow, Rows, Partitions, Statuses
<1>17. ASSUME NEW r \in Requests, RevokeKubeconfig(r)
      PROVE  TypeOK'
  <2>1. CallsTyped(r)
    <3>1. Moves(r)
      BY <1>17, Locs DEF Moves, RevokeKubeconfig, Continue
    <3>2. QED
      BY <3>1, MoveTyped
  <2>2. QED
    BY <1>17, <2>1 DEF CallsTyped, TypeOK, JobStoreTypeOK, tenantVars, infraVars, jobVars,
       RevokeKubeconfig, Continue
<1>18. ASSUME NEW r \in Requests, DeleteVCluster(r)
      PROVE  TypeOK'
  <2>1. CallsTyped(r)
    <3>1. Moves(r)
      BY <1>18, Locs DEF Moves, DeleteVCluster, Continue
    <3>2. QED
      BY <3>1, MoveTyped
  <2>2. QED
    BY <1>18, <2>1 DEF CallsTyped, TypeOK, JobStoreTypeOK, tenantVars, infraVars, jobVars,
       DeleteVCluster, Continue
<1>19. ASSUME NEW r \in Requests, Crash(r)
      PROVE  TypeOK'
  <2>1. CallsTyped(r)
    <3>1. Moves(r)
      BY <1>19, Locs DEF Moves, Crash, TypeOK
    <3>2. QED
      BY <3>1, MoveTyped
  <2>2. QED
    BY <1>19, <2>1 DEF CallsTyped, TypeOK, JobStoreTypeOK, tenantVars, infraVars, jobVars,
       Crash
<1>20. ASSUME NEW r \in Requests, Expire(r)
      PROVE  TypeOK'
  BY <1>20 DEF Expire, TypeOK, JobStoreTypeOK, tenantVars, infraVars, jobVars
<1>21. ASSUME NEW s \in Slugs, CreateTenant(s) \/ ViewCatchesUp(s)
      PROVE  TypeOK'
  BY <1>21 DEF CreateTenant, ViewCatchesUp, TenantStatuses, TypeOK, JobStoreTypeOK, callVars, infraVars, jobVars
<1>22. CASE NextDay
  BY <1>22, MaxDayIsNat DEF NextDay, TypeOK, JobStoreTypeOK, callVars, tenantVars, infraVars, jobVars
<1>23. CASE UNCHANGED vars
  BY <1>23 DEF vars, TypeOK, JobStoreTypeOK, callVars, tenantVars, infraVars, jobVars
<1>24. QED
  BY <1>1, <1>2, <1>3, <1>4, <1>5, <1>6, <1>7, <1>8, <1>9, <1>10, <1>11, <1>12, <1>13,
     <1>14, <1>15, <1>16, <1>17, <1>18, <1>19, <1>20, <1>21, <1>22, <1>23, ServedAreOps
     DEF Next, Arrive, Progress, ProvisionStep, DeprovisionStep

\* Type correctness: the tables only ever hold what their columns may, and a
\* request that runs holds a key and a job id.
THEOREM TypeCorrect == Spec => []TypeOK
<1>1. Init => TypeOK
  BY InitTyped
<1>2. TypeOK /\ [Next]_vars => TypeOK'
  BY StepTyped
<1>3. QED
  BY <1>1, <1>2, PTL DEF Spec

-----------------------------------------------------------------------------
(* A job is executed once, a tenant is provisioned once and a job row only *)
(* moves forward: the inductive invariant behind SingleExecution and       *)
(* JobMovesForward.                                                        *)

\* The locations behind a granted claim.
Body == Workflow \ {"claim"}

HomeRow(r) == <<Home(key[r]), job[r]>>

\* A request has no key and no job before it arrives; the provision key has no
\* date.
KeyWellFormed ==
  \A r \in Requests :
    /\ pc[r] = "idle" => key[r] = NoKey
    /\ key[r] \in IdemKeys /\ key[r].op = "provision" => key[r].day = 0

\* A reserved key holds the job of the request that reserved it.
KeyHasItsJob ==
  \A k \in IdemKeys : jobsByIdem[k] # NoJob => key[jobsByIdem[k]] = k

\* The job of a request is the one its own key names.
JobHasItsKey ==
  \A r \in Requests : job[r] # NoJob =>
    key[r] \in IdemKeys /\ jobsByIdem[key[r]] = job[r]

\* A job has no row in any partition until its owner inserts it.
NoRowBeforeInsert ==
  \A r \in Requests :
    /\ pc[r] \in {"idle", "insert"} => \A p \in Partitions : jobStatus[<<p, r>>] = "ABSENT"
    /\ pc[r] = "insert" => job[r] = r

\* A granted claim has taken the job's row out of QUEUED for good, and no other
\* request holds a claim on that job.
ClaimTookTheRow ==
  /\ \A r \in claimed : job[r] # NoJob /\ jobStatus[HomeRow(r)] \notin {"ABSENT", "QUEUED"}
  /\ \A r, q \in claimed : job[r] = job[q] => r = q

\* Only the holder of the claim runs the workflow.
BodyIsClaimed == \A r \in Requests : pc[r] \in Body => r \in claimed

\* A terminal row was written by the last step of the job's executor.
TerminalIsFinal ==
  \A p \in Partitions, j \in Requests : jobStatus[<<p, j>>] \in Terminal =>
    \E r \in claimed : job[r] = j /\ pc[r] \in {"done", "crashed"}

IInv ==
  /\ TypeOK
  /\ KeyWellFormed
  /\ KeyHasItsJob
  /\ JobHasItsKey
  /\ NoRowBeforeInsert
  /\ ClaimTookTheRow
  /\ BodyIsClaimed
  /\ TerminalIsFinal

-----------------------------------------------------------------------------
(* Most steps are alike to the job queue: they are of three kinds.         *)

\* A step of the workflow that leaves the job store alone.
QuietStep(r) ==
  /\ pc[r] \in Body
  /\ \E loc \in Body : Goto(r, loc)
  /\ UNCHANGED <<jobVars, key, job, claimed>>

\* The last step: Complete or Fail, applied or not.
LastStep(r) ==
  /\ pc[r] \in Body
  /\ Goto(r, "done")
  /\ UNCHANGED <<jobsByIdem, key, job, claimed>>
  /\ \/ UNCHANGED jobStatus
     \/ \E p \in Partitions, st \in Terminal :
          jobStatus' = [jobStatus EXCEPT ![<<p, job[r]>>] = st]

QueueUntouched == UNCHANGED <<jobVars, pc, key, job, claimed>>

\* The locations of Body, spelled out.
LEMMA BodyLocs ==
  /\ Body = {"lookup", "namespace", "tenant-isolation", "provisioner-access",
             "vcluster", "kubeconfig", "apikey", "cidrs", "activate", "complete", "revoke",
             "delete", "markDeleted", "deprovisioned", "failNil", "failTenant"}
  /\ Workflow = {"claim"} \cup Body
BY Locs DEF Body

\* What a step is to the job queue.
LEMMA StepKinds ==
  ASSUME TypeOK, [Next]_vars
  PROVE  \/ \E r \in Requests, o \in Operations, s \in Slugs :
              ReserveWins(r, o, s) \/ ReserveFindsExisting(r, o, s) \/ ReserveFails(r, o, s)
         \/ \E r \in Requests, s \in Slugs : DeprovisionNotFound(r, s)
         \/ \E r \in Requests :
              InsertJob(r) \/ Claim(r) \/ QuietStep(r) \/ LastStep(r) \/ Crash(r)
         \/ QueueUntouched
<1>1. ASSUME NEW r \in Requests,
             LookupTenant(r) \/ CreateNamespace(r) \/ ApplyIsolationPolicies(r)
      PROVE  QuietStep(r)
  BY <1>1, BodyLocs DEF QuietStep, LookupTenant, CreateNamespace, ApplyIsolationPolicies,
     ApplyPolicy, Continue
<1>2. ASSUME NEW r \in Requests,
             CreateVCluster(r) \/ StoreKubeconfig(r) \/ GenerateAPIKey(r)
      PROVE  QuietStep(r)
  BY <1>2, BodyLocs DEF QuietStep, CreateVCluster, StoreKubeconfig, GenerateAPIKey, Continue
<1>3. ASSUME NEW r \in Requests, SetCIDRs(r) \/ ActivateTenant(r) \/ MarkDeleted(r)
      PROVE  QuietStep(r)
  BY <1>3, BodyLocs DEF QuietStep, SetCIDRs, ActivateTenant, MarkDeleted, UpdateStatus, Continue
<1>4. ASSUME NEW r \in Requests, RevokeKubeconfig(r) \/ DeleteVCluster(r)
      PROVE  QuietStep(r)
  BY <1>4, BodyLocs DEF QuietStep, RevokeKubeconfig, DeleteVCluster, Continue
<1>5. ASSUME NEW r \in Requests, pc[r] \in Body
      PROVE  Slug(r) \in Partitions /\ NilTenant \in Partitions
  BY <1>5, BodyLocs, HomeType DEF TypeOK, Slug, Partitions
<1>6. ASSUME NEW r \in Requests, CompleteProvision(r) \/ CompleteDeprovision(r)
      PROVE  LastStep(r)
  BY <1>5, <1>6, BodyLocs DEF LastStep, CompleteProvision, CompleteDeprovision, Finish,
     CompleteRow, Terminal
<1>7. ASSUME NEW r \in Requests, FailJob(r)
      PROVE  LastStep(r)
  BY <1>5, <1>7, BodyLocs DEF LastStep, FailJob, FailUnder, FailRow, Terminal
<1>8. ASSUME \/ \E r \in Requests : Expire(r)
             \/ \E s \in Slugs : CreateTenant(s) \/ ViewCatchesUp(s)
             \/ NextDay
             \/ UNCHANGED vars
      PROVE  QueueUntouched
  BY <1>8 DEF QueueUntouched, Expire, CreateTenant, ViewCatchesUp, NextDay, vars, callVars, jobVars
<1>9. QED
  BY <1>1, <1>2, <1>3, <1>4, <1>6, <1>7, <1>8, ServedAreOps
     DEF Next, Arrive, Progress, ProvisionStep, DeprovisionStep

-----------------------------------------------------------------------------
(* The inductive invariant.                                                *)

\* The initial state satisfies it.
LEMMA InitInvariant == Init => IInv
<1> SUFFICES ASSUME Init PROVE IInv
  OBVIOUS
<1>1. TypeOK
  BY InitTyped
<1>2. KeyWellFormed /\ KeyHasItsJob /\ JobHasItsKey
  BY NoKeyIsNoKey DEF Init, JobStoreInit, KeyWellFormed, KeyHasItsJob, JobHasItsKey
<1>3. NoRowBeforeInsert /\ TerminalIsFinal
  BY DEF Init, JobStoreInit, NoRowBeforeInsert, TerminalIsFinal, Rows, Terminal
<1>4. ClaimTookTheRow /\ BodyIsClaimed
  BY BodyLocs DEF Init, ClaimTookTheRow, BodyIsClaimed
<1>5. QED
  BY <1>1, <1>2, <1>3, <1>4 DEF IInv

\* What the key of a request says of the request whose job it got.
LEMMA OwnerHasTheKey ==
  ASSUME IInv, NEW r \in Requests, job[r] # NoJob
  PROVE  /\ job[r] \in Requests /\ key[job[r]] = key[r] /\ key[r] \in IdemKeys
         /\ pc[job[r]] # "idle" /\ Home(key[r]) \in Partitions
<1>1. job[r] \in Requests /\ key[r] \in IdemKeys /\ jobsByIdem[key[r]] = job[r]
  BY DEF IInv, TypeOK, JobHasItsKey
<1>2. key[job[r]] = key[r]
  BY <1>1 DEF IInv, KeyHasItsJob
<1>3. QED
  BY <1>1, <1>2, NoKeyIsNoKey, HomeType DEF IInv, KeyWellFormed

\* A request that has not arrived owns no key and no job.
LEMMA IdleOwnsNothing ==
  ASSUME IInv, NEW r \in Requests, pc[r] = "idle"
  PROVE  /\ key[r] \notin IdemKeys /\ job[r] = NoJob /\ r \notin claimed
         /\ \A k \in IdemKeys : jobsByIdem[k] # r
         /\ \A q \in Requests : job[q] # r
<1>1. key[r] \notin IdemKeys
  BY NoKeyIsNoKey DEF IInv, KeyWellFormed
<1>2. \A k \in IdemKeys : jobsByIdem[k] # r
  BY <1>1, NoJobIsNoRequest DEF IInv, KeyHasItsJob
<1>3. \A q \in Requests : job[q] # r
  BY <1>2, NoJobIsNoRequest DEF IInv, JobHasItsKey
<1>4. job[r] = NoJob
  BY <1>1 DEF IInv, JobHasItsKey
<1>5. QED
  BY <1>1, <1>2, <1>3, <1>4 DEF IInv, ClaimTookTheRow

\* Reserving an idempotency key.
LEMMA ReserveWinsKeeps ==
  ASSUME IInv, TypeOK', NEW r \in Requests, NEW o \in Operations, NEW s \in Slugs,
         ReserveWins(r, o, s)
  PROVE  IInv'
<1> DEFINE k0 == KeyOf(o, s)
<1>1. k0 \in IdemKeys /\ (k0.op = "provision" => k0.day = 0)
  BY KeyOfType DEF IInv, TypeOK, KeyOf
<1>2. /\ pc[r] = "idle" /\ jobsByIdem[k0] = NoJob
      /\ jobsByIdem' = [jobsByIdem EXCEPT ![k0] = r]
      /\ key' = [key EXCEPT ![r] = k0] /\ job' = [job EXCEPT ![r] = r]
      /\ pc' = [pc EXCEPT ![r] = "insert"]
      /\ UNCHANGED <<jobStatus, claimed>>
  BY DEF ReserveWins, ReserveIdem, Goto
<1> HIDE DEF k0
<1>3. /\ key[r] \notin IdemKeys /\ job[r] = NoJob /\ r \notin claimed
      /\ \A k \in IdemKeys : jobsByIdem[k] # r
      /\ \A q \in Requests : job[q] # r
  BY <1>2, IdleOwnsNothing
<1> USE DEF IInv, TypeOK, JobStoreTypeOK
<1>4. KeyWellFormed'
  BY <1>1, <1>2 DEF KeyWellFormed
<1>5. KeyHasItsJob'
  BY <1>1, <1>2, <1>3, NoJobIsNoRequest DEF KeyHasItsJob
<1>6. JobHasItsKey'
  BY <1>1, <1>2, <1>3, NoJobIsNoRequest DEF JobHasItsKey
<1>7. NoRowBeforeInsert'
  BY <1>2 DEF NoRowBeforeInsert
<1>8. ClaimTookTheRow'
  BY <1>2, <1>3 DEF ClaimTookTheRow, HomeRow
<1>9. BodyIsClaimed'
  BY <1>2, BodyLocs DEF BodyIsClaimed
<1>10. TerminalIsFinal'
  BY <1>2, <1>3 DEF TerminalIsFinal
<1>11. QED
  BY <1>4, <1>5, <1>6, <1>7, <1>8, <1>9, <1>10

\* A deduplicated request, a reservation that failed, and a slug not found.
LEMMA OtherArrivalsKeep ==
  ASSUME IInv, TypeOK', NEW r \in Requests, NEW o \in Operations, NEW s \in Slugs,
         \/ ReserveFindsExisting(r, o, s)
         \/ ReserveFails(r, o, s)
         \/ DeprovisionNotFound(r, s)
  PROVE  IInv'
<1>1. PICK k \in IdemKeys \cup {NoKey} :
        /\ key' = [key EXCEPT ![r] = k]
        /\ k \in IdemKeys => (k.op = "provision" => k.day = 0)
        /\ \/ /\ k \in IdemKeys /\ jobsByIdem[k] # NoJob /\ UNCHANGED jobsByIdem
              /\ job' = [job EXCEPT ![r] = jobsByIdem[k]]
              /\ pc' = [pc EXCEPT ![r] = "claim"]
           \/ /\ UNCHANGED job
              /\ \/ UNCHANGED jobsByIdem
                 \/ /\ k \in IdemKeys /\ jobsByIdem[k] = NoJob
                    /\ jobsByIdem' = [jobsByIdem EXCEPT ![k] = r]
              /\ pc' = [pc EXCEPT ![r] = "done"]
  <2>1. KeyOf(o, s) \in IdemKeys /\ (KeyOf(o, s).op = "provision" => KeyOf(o, s).day = 0)
    BY KeyOfType DEF IInv, TypeOK, KeyOf
  <2>2. CASE ReserveFindsExisting(r, o, s)
    BY <2>1, <2>2 DEF ReserveFindsExisting, ExistingJob, Goto, jobVars
  <2>3. CASE ReserveFails(r, o, s)
    BY <2>1, <2>3 DEF ReserveFails, ReserveIdem, Goto
  <2>4. CASE DeprovisionNotFound(r, s)
    <3>1. key[r] = NoKey /\ key \in [Requests -> IdemKeys \cup {NoKey}]
      BY <2>4 DEF DeprovisionNotFound, IInv, KeyWellFormed, TypeOK
    <3>2. key' = [key EXCEPT ![r] = NoKey]
      BY <2>4, <3>1 DEF DeprovisionNotFound
    <3>3. QED
      BY <2>4, <3>2, NoKeyIsNoKey DEF DeprovisionNotFound, Goto, jobVars
  <2>5. QED
    BY <2>2, <2>3, <2>4
<1>2. pc[r] = "idle" /\ UNCHANGED <<jobStatus, claimed>>
  BY DEF ReserveFindsExisting, ReserveFails, DeprovisionNotFound, ReserveIdem, jobVars
<1>3. /\ key[r] \notin IdemKeys /\ job[r] = NoJob /\ r \notin claimed
      /\ \A l \in IdemKeys : jobsByIdem[l] # r
      /\ \A q \in Requests : job[q] # r
  BY <1>2, IdleOwnsNothing
<1> USE DEF IInv, TypeOK, JobStoreTypeOK
<1>4. KeyWellFormed'
  BY <1>1, <1>2 DEF KeyWellFormed
<1>5. KeyHasItsJob'
  BY <1>1, <1>3, NoJobIsNoRequest DEF KeyHasItsJob
<1>6. JobHasItsKey'
  BY <1>1, <1>3, NoJobIsNoRequest DEF JobHasItsKey
<1>7. NoRowBeforeInsert'
  BY <1>1, <1>2 DEF NoRowBeforeInsert
<1>8. ClaimTookTheRow'
  BY <1>1, <1>2, <1>3 DEF ClaimTookTheRow, HomeRow
<1>9. BodyIsClaimed'
  BY <1>1, <1>2, BodyLocs DEF BodyIsClaimed
<1>10. TerminalIsFinal'
  BY <1>1, <1>2, <1>3 DEF TerminalIsFinal
<1>11. QED
  BY <1>4, <1>5, <1>6, <1>7, <1>8, <1>9, <1>10

\* A granted claim is on a row of the table.
LEMMA ClaimHasARow ==
  ASSUME IInv, NEW q \in claimed
  PROVE  q \in Requests /\ job[q] \in Requests /\ HomeRow(q) \in Rows
<1>1. q \in Requests /\ job[q] # NoJob
  BY DEF IInv, TypeOK, ClaimTookTheRow
<1>2. QED
  BY <1>1, OwnerHasTheKey DEF HomeRow, Rows

\* A step that makes no row terminal leaves every outcome with its executor.
LEMMA NoNewOutcome ==
  ASSUME IInv, NEW r \in Requests, pc[r] \notin {"done", "crashed"},
         NEW loc, pc' = [pc EXCEPT ![r] = loc], UNCHANGED job, claimed \subseteq claimed',
         \A p \in Partitions, j \in Requests :
           jobStatus'[<<p, j>>] \in Terminal => jobStatus[<<p, j>>] \in Terminal
  PROVE  TerminalIsFinal'
<1> SUFFICES ASSUME NEW p \in Partitions, NEW j \in Requests, jobStatus'[<<p, j>>] \in Terminal
             PROVE  \E q \in claimed' : job'[q] = j /\ pc'[q] \in {"done", "crashed"}
  BY DEF TerminalIsFinal
<1>1. PICK q \in claimed : job[q] = j /\ pc[q] \in {"done", "crashed"}
  BY DEF IInv, TerminalIsFinal
<1>2. QED
  BY <1>1 DEF IInv, TypeOK

\* The owner of a job inserts its row; no claim on the job can be held yet.
LEMMA InsertJobKeeps ==
  ASSUME IInv, TypeOK', NEW r \in Requests, InsertJob(r)
  PROVE  IInv'
<1>1. /\ pc[r] = "insert" /\ UNCHANGED <<jobsByIdem, key, job, claimed>>
      /\ \E loc \in {"claim", "done"} : pc' = [pc EXCEPT ![r] = loc]
      /\ \/ UNCHANGED jobStatus
         \/ jobStatus' = [jobStatus EXCEPT ![HomeRow(r)] = "QUEUED"]
  BY DEF InsertJob, InsertJobRow, Goto, HomeRow
<1>2. job[r] = r /\ \A p \in Partitions : jobStatus[<<p, r>>] = "ABSENT"
  BY <1>1 DEF IInv, NoRowBeforeInsert
<1>3. Home(key[r]) \in Partitions
  BY <1>2, OwnerHasTheKey, NoJobIsNoRequest
<1>4. ASSUME NEW q \in claimed PROVE job[q] # r
  <2>1. q \in Requests /\ job[q] # NoJob
    BY DEF IInv, TypeOK, ClaimTookTheRow
  <2>2. Home(key[q]) \in Partitions
    BY <2>1, OwnerHasTheKey
  <2>3. QED
    BY <1>2, <2>2 DEF IInv, ClaimTookTheRow, HomeRow
<1> USE DEF IInv, TypeOK, JobStoreTypeOK
<1>5. KeyWellFormed' /\ KeyHasItsJob' /\ JobHasItsKey'
  BY <1>1 DEF KeyWellFormed, KeyHasItsJob, JobHasItsKey
<1>6. NoRowBeforeInsert'
  BY <1>1, <1>2, <1>3 DEF NoRowBeforeInsert, HomeRow, Rows
<1>7. ClaimTookTheRow'
  <2>1. ASSUME NEW q \in claimed PROVE jobStatus'[HomeRow(q)] = jobStatus[HomeRow(q)]
    <3>1. HomeRow(q) # HomeRow(r)
      BY <1>2, <1>4 DEF HomeRow
    <3>2. QED
      BY <1>1, <3>1, ClaimHasARow
  <2>2. QED
    BY <1>1, <2>1 DEF ClaimTookTheRow, HomeRow
<1>8. BodyIsClaimed'
  BY <1>1, BodyLocs DEF BodyIsClaimed
<1>9. TerminalIsFinal'
  <2>1. HomeRow(r) \in Rows
    BY <1>2, <1>3 DEF HomeRow, Rows
  <2>2. ASSUME NEW p \in Partitions, NEW j \in Requests, jobStatus'[<<p, j>>] \in Terminal
        PROVE  jobStatus[<<p, j>>] \in Terminal
    BY <1>1, <2>1, <2>2 DEF Terminal, Rows
  <2>3. QED
    BY <1>1, <2>2, NoNewOutcome
<1>10. QED
  BY <1>5, <1>6, <1>7, <1>8, <1>9

\* The claim: granted on a QUEUED row only, so to nobody who comes later.
LEMMA ClaimKeeps ==
  ASSUME IInv, TypeOK', NEW r \in Requests, Claim(r)
  PROVE  IInv'
<1>1. /\ pc[r] = "claim" /\ UNCHANGED <<jobsByIdem, key, job>>
      /\ \/ UNCHANGED jobStatus
         \/ /\ jobStatus[HomeRow(r)] = "QUEUED"
            /\ jobStatus' = [jobStatus EXCEPT ![HomeRow(r)] = "PROVISIONING"]
      /\ \/ /\ UNCHANGED claimed /\ pc' = [pc EXCEPT ![r] = "done"]
         \/ /\ claimed' = claimed \cup {r} /\ \E loc \in Body : pc' = [pc EXCEPT ![r] = loc]
            /\ jobStatus[HomeRow(r)] = "QUEUED"
            /\ jobStatus' = [jobStatus EXCEPT ![HomeRow(r)] = "PROVISIONING"]
  BY BodyLocs DEF Claim, ClaimRow, Claimable, Applied, FirstStep, Goto, HomeRow
<1>2. job[r] \in Requests
  BY <1>1, Locs DEF IInv, TypeOK
<1>3. /\ key[job[r]] = key[r] /\ pc[job[r]] # "idle" /\ Home(key[r]) \in Partitions
  BY <1>2, OwnerHasTheKey, NoJobIsNoRequest
<1>4. HomeRow(r) \in Rows
  BY <1>2, <1>3 DEF HomeRow, Rows
<1>5. ASSUME NEW q \in claimed, jobStatus[HomeRow(r)] = "QUEUED"
      PROVE  job[q] # job[r]
  <2>1. q \in Requests /\ job[q] # NoJob
    BY DEF IInv, TypeOK, ClaimTookTheRow
  <2>2. key[job[q]] = key[q]
    BY <2>1, OwnerHasTheKey
  <2>3. QED
    BY <1>3, <1>5, <2>2 DEF IInv, ClaimTookTheRow, HomeRow
<1> USE DEF IInv, TypeOK, JobStoreTypeOK
<1>6. KeyWellFormed' /\ KeyHasItsJob' /\ JobHasItsKey'
  BY <1>1, BodyLocs DEF KeyWellFormed, KeyHasItsJob, JobHasItsKey
<1>7. NoRowBeforeInsert'
  <2>1. ASSUME NEW q \in Requests, NEW p \in Partitions, jobStatus[<<p, q>>] = "ABSENT"
        PROVE  jobStatus'[<<p, q>>] = "ABSENT"
    BY <1>1, <1>4, <2>1 DEF Rows
  <2>2. ASSUME NEW q \in Requests, pc'[q] \in {"idle", "insert"}
        PROVE  pc'[q] = pc[q]
    BY <1>1, <2>2, BodyLocs
  <2>3. QED
    BY <1>1, <2>1, <2>2 DEF NoRowBeforeInsert
<1>8. ClaimTookTheRow'
  <2>1. ASSUME NEW q \in claimed'
        PROVE  job'[q] # NoJob /\ jobStatus'[HomeRow(q)] \notin {"ABSENT", "QUEUED"}
    <3>1. CASE q = r
      BY <1>1, <1>2, <1>4, <3>1, NoJobIsNoRequest DEF ClaimTookTheRow
    <3>2. CASE q # r
      <4>1. q \in claimed
        BY <1>1, <2>1, <3>2
      <4>2. HomeRow(q) \in Rows /\ job[q] # NoJob /\ jobStatus[HomeRow(q)] \notin {"ABSENT", "QUEUED"}
        BY <4>1, ClaimHasARow DEF ClaimTookTheRow
      <4>3. QED
        BY <1>1, <1>4, <4>2
    <3>3. QED
      BY <3>1, <3>2
  <2>2. \A q, u \in claimed' : job'[q] = job'[u] => q = u
    BY <1>1, <1>5 DEF ClaimTookTheRow
  <2>3. QED
    BY <1>1, <2>1, <2>2 DEF ClaimTookTheRow, HomeRow
<1>9. BodyIsClaimed'
  BY <1>1, BodyLocs DEF BodyIsClaimed
<1>10. TerminalIsFinal'
  <2>1. ASSUME NEW p \in Partitions, NEW j \in Requests, jobStatus'[<<p, j>>] \in Terminal
        PROVE  jobStatus[<<p, j>>] \in Terminal
    BY <1>1, <1>4, <2>1 DEF Terminal, Rows
  <2>2. \E loc : pc' = [pc EXCEPT ![r] = loc]
    BY <1>1
  <2>3. QED
    BY <1>1, <2>1, <2>2, NoNewOutcome
<1>11. QED
  BY <1>6, <1>7, <1>8, <1>9, <1>10

\* A step of the workflow away from the job store.
LEMMA QuietStepKeeps ==
  ASSUME IInv, TypeOK', NEW r \in Requests, QuietStep(r)
  PROVE  IInv'
<1>1. PICK loc \in Body :
        /\ pc[r] \in Body /\ pc' = [pc EXCEPT ![r] = loc]
        /\ UNCHANGED <<jobsByIdem, jobStatus, key, job, claimed>>
  BY DEF QuietStep, Goto, jobVars
<1> USE DEF IInv, TypeOK
<1>2. KeyWellFormed' /\ KeyHasItsJob' /\ JobHasItsKey'
  BY <1>1, BodyLocs DEF KeyWellFormed, KeyHasItsJob, JobHasItsKey
<1>3. NoRowBeforeInsert'
  BY <1>1, BodyLocs DEF NoRowBeforeInsert
<1>4. ClaimTookTheRow' /\ BodyIsClaimed'
  BY <1>1 DEF ClaimTookTheRow, HomeRow, BodyIsClaimed
<1>5. TerminalIsFinal'
  BY <1>1, BodyLocs, NoNewOutcome
<1>6. QED
  BY <1>2, <1>3, <1>4, <1>5

\* The executor of a job has not finished it before its last step.
LEMMA UnfinishedBeforeLast ==
  ASSUME IInv, NEW r \in Requests, pc[r] \in Body, NEW p \in Partitions
  PROVE  r \in claimed /\ job[r] \in Requests /\ jobStatus[<<p, job[r]>>] \notin Terminal
<1>1. r \in claimed /\ job[r] \in Requests
  BY ClaimHasARow DEF IInv, BodyIsClaimed
<1>2. ASSUME NEW q \in claimed, job[q] = job[r] PROVE pc[q] \notin {"done", "crashed"}
  BY <1>1, <1>2, BodyLocs DEF IInv, ClaimTookTheRow
<1>3. QED
  BY <1>1, <1>2 DEF IInv, TerminalIsFinal

\* Complete or Fail, by the executor of the job.
LEMMA LastStepKeeps ==
  ASSUME IInv, TypeOK', NEW r \in Requests, LastStep(r)
  PROVE  IInv'
<1>1. /\ pc[r] \in Body /\ pc' = [pc EXCEPT ![r] = "done"]
      /\ UNCHANGED <<jobsByIdem, key, job, claimed>>
  BY DEF LastStep, Goto
<1>2. r \in claimed /\ job[r] \in Requests
  BY <1>1, ClaimHasARow DEF IInv, BodyIsClaimed
<1>3. \A p \in Partitions, j \in Requests : j # job[r] => jobStatus'[<<p, j>>] = jobStatus[<<p, j>>]
  BY DEF LastStep, IInv, TypeOK, JobStoreTypeOK, Rows
<1>4. \A row \in Rows : jobStatus'[row] = jobStatus[row] \/ jobStatus'[row] \in Terminal
  BY DEF LastStep, IInv, TypeOK, JobStoreTypeOK
<1>5. pc[job[r]] \notin {"idle", "insert"}
  <2>1. Home(key[r]) \in Partitions /\ jobStatus[HomeRow(r)] # "ABSENT"
    BY <1>2, OwnerHasTheKey, NoJobIsNoRequest DEF IInv, ClaimTookTheRow
  <2>2. QED
    BY <1>2, <2>1 DEF IInv, NoRowBeforeInsert, HomeRow
<1> USE DEF IInv, TypeOK
<1>6. KeyWellFormed' /\ KeyHasItsJob' /\ JobHasItsKey'
  BY <1>1 DEF KeyWellFormed, KeyHasItsJob, JobHasItsKey
<1>7. NoRowBeforeInsert'
  BY <1>1, <1>3, <1>5 DEF NoRowBeforeInsert
<1>8. ClaimTookTheRow'
  <2>1. ASSUME NEW q \in claimed PROVE jobStatus'[HomeRow(q)] \notin {"ABSENT", "QUEUED"}
    BY <1>4, ClaimHasARow DEF ClaimTookTheRow, Terminal
  <2>2. QED
    BY <1>1, <2>1 DEF ClaimTookTheRow, HomeRow
<1>9. BodyIsClaimed'
  BY <1>1, BodyLocs DEF BodyIsClaimed
<1>10. TerminalIsFinal'
  <2> SUFFICES ASSUME NEW p \in Partitions, NEW j \in Requests, jobStatus'[<<p, j>>] \in Terminal
               PROVE  \E q \in claimed' : job'[q] = j /\ pc'[q] \in {"done", "crashed"}
    BY DEF TerminalIsFinal
  <2>1. CASE j = job[r]
    BY <1>1, <1>2, <2>1
  <2>2. CASE j # job[r]
    <3>1. PICK q \in claimed : job[q] = j /\ pc[q] \in {"done", "crashed"}
      BY <1>3, <2>2 DEF TerminalIsFinal
    <3>2. QED
      BY <1>1, <3>1
  <2>3. QED
    BY <2>1, <2>2
<1>11. QED
  BY <1>6, <1>7, <1>8, <1>9, <1>10

\* The process of a request dies.
LEMMA CrashKeeps ==
  ASSUME IInv, TypeOK', NEW r \in Requests, Crash(r)
  PROVE  IInv'
<1>1. /\ pc[r] \notin {"idle", "done", "crashed"} /\ pc' = [pc EXCEPT ![r] = "crashed"]
      /\ UNCHANGED <<jobsByIdem, jobStatus, key, job, claimed>>
  BY DEF Crash, Goto, jobVars
<1> USE DEF IInv, TypeOK
<1>2. KeyWellFormed' /\ KeyHasItsJob' /\ JobHasItsKey'
  BY <1>1 DEF KeyWellFormed, KeyHasItsJob, JobHasItsKey
<1>3. NoRowBeforeInsert' /\ ClaimTookTheRow'
  BY <1>1 DEF NoRowBeforeInsert, ClaimTookTheRow, HomeRow
<1>4. BodyIsClaimed'
  BY <1>1, BodyLocs DEF BodyIsClaimed
<1>5. TerminalIsFinal'
  BY <1>1, NoNewOutcome
<1>6. QED
  BY <1>2, <1>3, <1>4, <1>5

\* Every step keeps the invariant.
LEMMA StepKeeps ==
  ASSUME IInv, [Next]_vars
  PROVE  IInv'
<1>1. TypeOK'
  BY StepTyped DEF IInv
<1>2. CASE QueueUntouched
  BY <1>1, <1>2 DEF QueueUntouched, jobVars, IInv, KeyWellFormed, KeyHasItsJob, JobHasItsKey,
     NoRowBeforeInsert, ClaimTookTheRow, HomeRow, BodyIsClaimed, TerminalIsFinal
<1>3. ASSUME NEW r \in Requests, NEW s \in Slugs, DeprovisionNotFound(r, s)
      PROVE  IInv'
  BY <1>1, <1>3, OtherArrivalsKeep DEF Operations
<1>4. QED
  <2>1. TypeOK
    BY DEF IInv
  <2>2. QED
    BY <1>1, <1>2, <1>3, <2>1, StepKinds, ReserveWinsKeeps, OtherArrivalsKeep, InsertJobKeeps,
       ClaimKeeps, QuietStepKeeps, LastStepKeeps, CrashKeeps

\* The invariant, of every behaviour.
LEMMA Inductive == Spec => []IInv
<1>1. IInv /\ [Next]_vars => IInv'
  BY StepKeeps
<1>2. QED
  BY InitInvariant, <1>1, PTL DEF Spec

-----------------------------------------------------------------------------
(* The two properties.                                                     *)

\* A job is executed once and a tenant is provisioned once, for any number of
\* requests, replicas, errors and crashes (Enqueue and Claim of job.go).
THEOREM JobRunsOnce == Spec => []SingleExecution
<1>1. ASSUME IInv PROVE SingleExecution
  <2> SUFFICES ASSUME NEW r \in claimed, NEW q \in claimed, r # q
               PROVE  /\ job[r] # job[q]
                      /\ Slug(r) = Slug(q) => Op(r) = "deprovision" \/ Op(q) = "deprovision"
    BY DEF SingleExecution
  <2>1. job[r] # job[q]
    BY <1>1 DEF IInv, ClaimTookTheRow
  <2>2. ASSUME NEW u \in claimed
        PROVE  key[u] \in IdemKeys /\ jobsByIdem[key[u]] = job[u]
    BY <1>1, ClaimHasARow DEF IInv, ClaimTookTheRow, JobHasItsKey
  <2>3. ASSUME Slug(r) = Slug(q), Op(r) = "provision", Op(q) = "provision"
        PROVE  key[r] = key[q]
    BY <1>1, <2>2, <2>3, ClaimHasARow DEF IInv, KeyWellFormed, IdemKeys, Slug, Op
  <2>4. Op(r) \in Operations /\ Op(q) \in Operations
    BY <2>2 DEF Op, IdemKeys
  <2>5. QED
    BY <2>1, <2>2, <2>3, <2>4 DEF Operations
<1>2. QED
  BY <1>1, Inductive, PTL

\* A job row only moves forward, and a READY or FAILED row is never rewritten
\* (Claim is a compare-and-set; InsertJobRow, Complete and Fail are not).
THEOREM RowsMoveForward == Spec => JobMovesForward
<1>1. ASSUME IInv, [Next]_vars, NEW row \in Rows, jobStatus'[row] # jobStatus[row]
      PROVE  Rank(jobStatus'[row]) > Rank(jobStatus[row])
  <2> USE <1>1
  <2>1. TypeOK
    BY DEF IInv
  <2>2. CASE \E r \in Requests : InsertJob(r)
    <3>1. PICK r \in Requests : InsertJob(r)
      BY <2>2
    <3>2. pc[r] = "insert" /\ jobStatus' = [jobStatus EXCEPT ![HomeRow(r)] = "QUEUED"]
      BY <3>1 DEF InsertJob, InsertJobRow, HomeRow
    <3>3. job[r] = r /\ Home(key[r]) \in Partitions
      BY <3>2, OwnerHasTheKey, NoJobIsNoRequest DEF IInv, NoRowBeforeInsert
    <3>4. jobStatus[HomeRow(r)] = "ABSENT"
      BY <3>2, <3>3 DEF IInv, NoRowBeforeInsert, HomeRow
    <3>5. QED
      BY <2>1, <3>2, <3>4 DEF TypeOK, JobStoreTypeOK, Rank
  <2>3. CASE \E r \in Requests : Claim(r)
    <3>1. PICK r \in Requests :
            /\ jobStatus[HomeRow(r)] = "QUEUED"
            /\ jobStatus' = [jobStatus EXCEPT ![HomeRow(r)] = "PROVISIONING"]
      BY <2>3 DEF Claim, ClaimRow, Claimable, HomeRow
    <3>2. QED
      BY <2>1, <3>1 DEF TypeOK, JobStoreTypeOK, Rank
  <2>4. CASE \E r \in Requests : LastStep(r)
    <3>1. PICK r \in Requests, p \in Partitions, st \in Terminal :
            pc[r] \in Body /\ jobStatus' = [jobStatus EXCEPT ![<<p, job[r]>>] = st]
      BY <2>4 DEF LastStep
    <3>2. jobStatus[<<p, job[r]>>] \notin Terminal
      BY <3>1, UnfinishedBeforeLast
    <3>3. QED
      BY <2>1, <3>1, <3>2 DEF TypeOK, JobStoreTypeOK, Statuses, Terminal, Rank
  <2>5. ASSUME UNCHANGED jobStatus PROVE FALSE
    BY <2>5
  <2>6. QED
    BY <2>1, <2>2, <2>3, <2>4, <2>5, StepKinds
       DEF ReserveWins, ReserveFindsExisting, ReserveFails, ReserveIdem, DeprovisionNotFound,
           QuietStep, Crash, QueueUntouched, jobVars
<1>2. IInv /\ [Next]_vars => [\A row \in Rows : jobStatus'[row] # jobStatus[row] =>
        Rank(jobStatus'[row]) > Rank(jobStatus[row])]_jobStatus
  BY <1>1
<1>3. QED
  BY <1>2, Inductive, PTL DEF Spec, JobMovesForward

-----------------------------------------------------------------------------
(* The provisioner's job queue implements JobLedger, whatever its calls    *)
(* meet and however many requests, replicas and days there are.            *)

\* The mapped state of the ledger.
Executor == [j \in Requests |-> ExecutorOf(j)]
Result   == [j \in Requests |-> OutcomeOf(j)]

\* With one claim per job there is no choice of an executor.
LEMMA OneExecutor ==
  ASSUME NEW C, NEW f, NEW j, NEW r \in C, f[r] = j, \A q, u \in C : f[q] = f[u] => q = u
  PROVE  (CHOOSE q \in C : f[q] = j) = r
OBVIOUS

\* The executor of a job, before a step and after it.
LEMMA ExecutorIs ==
  ASSUME IInv, IInv', NEW j \in Requests
  PROVE  /\ \A r \in claimed : job[r] = j => ExecutorOf(j) = r
         /\ \A r \in claimed' : job'[r] = j => ExecutorOf(j)' = r
         /\ (\A r \in claimed : job[r] # j) => ExecutorOf(j) = NoJob
         /\ (\A r \in claimed' : job'[r] # j) => ExecutorOf(j)' = NoJob
<1>1. ASSUME NEW r \in claimed, job[r] = j PROVE ExecutorOf(j) = r
  BY <1>1, OneExecutor DEF ExecutorOf, IInv, ClaimTookTheRow
<1>2. ASSUME NEW r \in claimed', job'[r] = j PROVE ExecutorOf(j)' = r
  <2>1. \A q, u \in claimed' : job'[q] = job'[u] => q = u
    BY DEF IInv, ClaimTookTheRow
  <2>2. (CHOOSE q \in claimed' : job'[q] = j) = r
    BY <1>2, <2>1, OneExecutor
  <2>3. QED
    BY <1>2, <2>2 DEF ExecutorOf
<1>3. QED
  BY <1>1, <1>2 DEF ExecutorOf

\* A step that grants no claim and gives no job to a claimant leaves the executors.
LEMMA SameExecutors ==
  ASSUME IInv, IInv', UNCHANGED claimed, \A q \in claimed : job'[q] = job[q]
  PROVE  Executor' = Executor
<1>1. ASSUME NEW j \in Requests PROVE ExecutorOf(j)' = ExecutorOf(j)
  BY ExecutorIs
<1>2. QED
  BY <1>1 DEF Executor

\* A step that leaves the terminal rows alone leaves the outcomes.
LEMMA SameResults ==
  ASSUME \A p \in Partitions, j \in Requests, st \in Terminal :
           jobStatus'[<<p, j>>] = st <=> jobStatus[<<p, j>>] = st
  PROVE  Result' = Result
<1>1. ASSUME NEW j \in Requests PROVE OutcomeOf(j)' = OutcomeOf(j)
  BY DEF OutcomeOf, Terminal
<1>2. QED
  BY <1>1 DEF Result

\* A step that changes neither is a stutter of the ledger.
LEMMA LedgerStutters ==
  ASSUME UNCHANGED jobsByIdem, Executor' = Executor, Result' = Result
  PROVE  UNCHANGED Ledger!vars
BY DEF Ledger!vars, Executor, Result

\* An idempotency key that becomes bound is a submission.
LEMMA BindingSubmits ==
  ASSUME IInv, IInv', NEW r \in Requests, NEW k \in IdemKeys, pc[r] = "idle",
         jobsByIdem[k] = NoJob, jobsByIdem' = [jobsByIdem EXCEPT ![k] = r],
         UNCHANGED <<jobStatus, claimed>>, \A q \in claimed : job'[q] = job[q]
  PROVE  Ledger!Next
<1>1. \A l \in IdemKeys : jobsByIdem[l] # r
  BY IdleOwnsNothing
<1>2. Executor' = Executor /\ Result' = Result
  BY SameExecutors, SameResults
<1>3. Ledger!Submit(k, r)
  BY <1>1, <1>2 DEF Ledger!Submit, Executor, Result
<1>4. QED
  BY <1>3 DEF Ledger!Next

\* A granted claim starts the job, and nobody had started it.
LEMMA GrantStarts ==
  ASSUME IInv, IInv', NEW r \in Requests, Claim(r)
  PROVE  [Ledger!Next]_(Ledger!vars)
<1>1. /\ UNCHANGED <<jobsByIdem, job>> /\ job[r] \in Requests
      /\ \/ UNCHANGED jobStatus
         \/ /\ jobStatus[HomeRow(r)] = "QUEUED"
            /\ jobStatus' = [jobStatus EXCEPT ![HomeRow(r)] = "PROVISIONING"]
      /\ \/ UNCHANGED claimed
         \/ claimed' = claimed \cup {r} /\ jobStatus[HomeRow(r)] = "QUEUED"
  BY Locs DEF Claim, ClaimRow, Claimable, Applied, HomeRow, IInv, TypeOK
<1>2. Result' = Result
  <2>1. ASSUME NEW p \in Partitions, NEW j \in Requests, NEW st \in Terminal
        PROVE  jobStatus'[<<p, j>>] = st <=> jobStatus[<<p, j>>] = st
    <3>1. <<p, j>> \in Rows
      BY DEF Rows
    <3>2. QED
      BY <1>1, <3>1 DEF Terminal, IInv, TypeOK, JobStoreTypeOK
  <2>2. QED
    BY <2>1, SameResults
<1>3. CASE UNCHANGED claimed
  BY <1>1, <1>2, <1>3, SameExecutors, LedgerStutters
<1>4. CASE claimed' = claimed \cup {r} /\ jobStatus[HomeRow(r)] = "QUEUED"
  <2>1. PICK j \in Requests : j = job[r]
    BY <1>1
  <2>2. \A q \in claimed : job[q] # j
    <3>1. ASSUME NEW q \in claimed, job[q] = j PROVE FALSE
      <4>1. key[job[q]] = key[q] /\ key[job[r]] = key[r]
        BY <1>1, <2>1, <3>1, ClaimHasARow, OwnerHasTheKey, NoJobIsNoRequest
      <4>2. HomeRow(q) = HomeRow(r)
        BY <2>1, <3>1, <4>1 DEF HomeRow
      <4>3. QED
        BY <1>4, <4>2 DEF IInv, ClaimTookTheRow
    <3>2. QED
      BY <3>1
  <2>3. Executor[j] = NoJob
    BY <2>2, ExecutorIs DEF Executor
  <2>4. ASSUME NEW i \in Requests
        PROVE  ExecutorOf(i)' = IF i = j THEN r ELSE ExecutorOf(i)
    <3>1. CASE i = j
      BY <1>1, <1>4, <2>1, <3>1, ExecutorIs
    <3>2. CASE i # j
      <4>1. CASE \E q \in claimed : job[q] = i
        BY <1>1, <1>4, <3>2, <4>1, ExecutorIs
      <4>2. CASE \A q \in claimed : job[q] # i
        <5>1. \A q \in claimed' : job'[q] # i
          BY <1>1, <1>4, <2>1, <3>2, <4>2
        <5>2. QED
          BY <3>2, <4>2, <5>1, ExecutorIs
      <4>3. QED
        BY <4>1, <4>2
    <3>3. QED
      BY <3>1, <3>2
  <2>5. Executor' = [Executor EXCEPT ![j] = r]
    BY <2>4 DEF Executor
  <2>6. \E k \in IdemKeys : jobsByIdem[k] = j
    BY <1>1, <2>1, NoJobIsNoRequest DEF IInv, JobHasItsKey
  <2>7. Ledger!Start(j, r)
    BY <1>1, <1>2, <2>3, <2>5, <2>6 DEF Ledger!Start, Executor, Result
  <2>8. QED
    BY <2>7 DEF Ledger!Next
<1>5. QED
  BY <1>1, <1>3, <1>4

\* Complete or Fail decides the outcome of a job that is under way.
LEMMA LastStepFinishes ==
  ASSUME IInv, IInv', NEW r \in Requests, LastStep(r)
  PROVE  [Ledger!Next]_(Ledger!vars)
<1>1. pc[r] \in Body /\ UNCHANGED <<jobsByIdem, job, claimed>>
  BY DEF LastStep
<1>2. Executor' = Executor
  BY <1>1, SameExecutors
<1>3. CASE UNCHANGED jobStatus
  BY <1>1, <1>2, <1>3, SameResults, LedgerStutters
<1>4. ASSUME NEW p \in Partitions, NEW st \in Terminal,
             jobStatus' = [jobStatus EXCEPT ![<<p, job[r]>>] = st]
      PROVE  Ledger!Next
  <2>1. PICK j \in Requests : j = job[r]
    BY <1>1, <1>4, UnfinishedBeforeLast
  <2>2. r \in claimed /\ \A b \in Partitions : jobStatus[<<b, j>>] \notin Terminal
    BY <1>1, <1>4, <2>1, UnfinishedBeforeLast
  <2>3. Executor[j] # NoJob
    BY <2>1, <2>2, ExecutorIs, NoJobIsNoRequest DEF Executor
  <2>4. \A b \in Partitions, i \in Requests :
          jobStatus'[<<b, i>>] = IF b = p /\ i = j THEN st ELSE jobStatus[<<b, i>>]
    BY <1>4, <2>1 DEF IInv, TypeOK, JobStoreTypeOK, Rows
  <2>5. OutcomeOf(j) = "none"
    BY <2>2 DEF OutcomeOf, Terminal
  <2>6. OutcomeOf(j)' = st
    <3>1. \A b \in Partitions : jobStatus'[<<b, j>>] \in Terminal => b = p
      BY <2>2, <2>4
    <3>2. jobStatus'[<<p, j>>] = st
      BY <2>4
    <3>3. QED
      BY <3>1, <3>2 DEF OutcomeOf, Terminal
  <2>7. ASSUME NEW i \in Requests, i # j PROVE OutcomeOf(i)' = OutcomeOf(i)
    BY <2>4, <2>7 DEF OutcomeOf
  <2>8. Result' = [Result EXCEPT ![j] = st] /\ Result[j] = "none"
    BY <2>5, <2>6, <2>7 DEF Result
  <2>9. Ledger!Finish(j, st)
    BY <1>1, <1>2, <2>3, <2>8 DEF Ledger!Finish, Executor, Result
  <2>10. st \in Ledger!Outcome
    BY DEF Terminal, Ledger!Outcome
  <2>11. QED
    BY <2>9, <2>10 DEF Ledger!Next
<1>5. QED
  BY <1>3, <1>4 DEF LastStep

\* The provisioner implements the ledger: an idempotency key names one job, a job
\* is started at most once and by one request, and its outcome is decided at most
\* once and only after its start (Enqueue, Claim, Complete and Fail of job.go
\* under runProvisionWorkflow and runDeprovisionWorkflow).
THEOREM LedgerImplemented == Spec => ImplementsJobLedger
<1>1. Init => Ledger!Init
  <2> SUFFICES ASSUME Init PROVE Ledger!Init
    OBVIOUS
  <2>1. jobsByIdem = [k \in IdemKeys |-> NoJob]
    BY DEF Init, JobStoreInit
  <2>2. ASSUME NEW j \in Requests PROVE ExecutorOf(j) = NoJob /\ OutcomeOf(j) = "none"
    <3>1. \A p \in Partitions : jobStatus[<<p, j>>] = "ABSENT"
      BY DEF Init, JobStoreInit, Rows
    <3>2. QED
      BY <3>1 DEF Init, ExecutorOf, OutcomeOf
  <2>3. QED
    BY <2>1, <2>2 DEF Ledger!Init
<1>2. ASSUME IInv, IInv', [Next]_vars PROVE [Ledger!Next]_(Ledger!vars)
  <2> USE <1>2
  <2>1. ASSUME UNCHANGED <<jobsByIdem, jobStatus, claimed>>, \A q \in claimed : job'[q] = job[q]
        PROVE  UNCHANGED Ledger!vars
    BY <2>1, SameExecutors, SameResults, LedgerStutters
  <2>2. \A r \in Requests : pc[r] = "idle" => r \notin claimed
    BY IdleOwnsNothing
  <2>3. ASSUME NEW r \in Requests, NEW o \in Operations, NEW s \in Slugs, ReserveWins(r, o, s)
        PROVE  Ledger!Next
    <3>1. KeyOf(o, s) \in IdemKeys
      BY KeyOfType DEF IInv, TypeOK, KeyOf
    <3>2. /\ pc[r] = "idle" /\ jobsByIdem[KeyOf(o, s)] = NoJob
          /\ jobsByIdem' = [jobsByIdem EXCEPT ![KeyOf(o, s)] = r]
          /\ job' = [job EXCEPT ![r] = r] /\ UNCHANGED <<jobStatus, claimed>>
      BY <2>3 DEF ReserveWins, ReserveIdem
    <3>3. \A q \in claimed : job'[q] = job[q]
      BY <2>2, <3>2 DEF IInv, TypeOK
    <3>4. QED
      BY <3>1, <3>2, <3>3, BindingSubmits
  <2>4. ASSUME NEW r \in Requests, NEW o \in Operations, NEW s \in Slugs,
               ReserveFindsExisting(r, o, s)
        PROVE  UNCHANGED Ledger!vars
    <3>1. /\ pc[r] = "idle" /\ UNCHANGED <<jobsByIdem, jobStatus, claimed>>
          /\ \E v : job' = [job EXCEPT ![r] = v]
      BY <2>4 DEF ReserveFindsExisting, jobVars
    <3>2. \A q \in claimed : job'[q] = job[q]
      BY <2>2, <3>1 DEF IInv, TypeOK
    <3>3. QED
      BY <2>1, <3>1, <3>2
  <2>5. ASSUME NEW r \in Requests, NEW o \in Operations, NEW s \in Slugs, ReserveFails(r, o, s)
        PROVE  [Ledger!Next]_(Ledger!vars)
    <3>1. KeyOf(o, s) \in IdemKeys
      BY KeyOfType DEF IInv, TypeOK, KeyOf
    <3>2. /\ pc[r] = "idle" /\ UNCHANGED <<jobStatus, job, claimed>>
          /\ \/ UNCHANGED jobsByIdem
             \/ /\ jobsByIdem[KeyOf(o, s)] = NoJob
                /\ jobsByIdem' = [jobsByIdem EXCEPT ![KeyOf(o, s)] = r]
      BY <2>5 DEF ReserveFails, ReserveIdem
    <3>3. QED
      BY <2>1, <3>1, <3>2, BindingSubmits
  <2>6. ASSUME NEW r \in Requests, InsertJob(r) PROVE UNCHANGED Ledger!vars
    <3>1. /\ pc[r] = "insert" /\ UNCHANGED <<jobsByIdem, job, claimed>>
          /\ UNCHANGED jobStatus \/ jobStatus' = [jobStatus EXCEPT ![HomeRow(r)] = "QUEUED"]
      BY <2>6 DEF InsertJob, InsertJobRow, HomeRow
    <3>2. job[r] = r /\ \A p \in Partitions : jobStatus[<<p, r>>] = "ABSENT"
      BY <3>1 DEF IInv, NoRowBeforeInsert
    <3>3. ASSUME NEW p \in Partitions, NEW j \in Requests, NEW st \in Terminal
          PROVE  jobStatus'[<<p, j>>] = st <=> jobStatus[<<p, j>>] = st
      <4>1. <<p, j>> \in Rows
        BY DEF Rows
      <4>2. QED
        BY <3>1, <3>2, <4>1 DEF Terminal, HomeRow, IInv, TypeOK, JobStoreTypeOK
    <3>4. QED
      BY <3>1, <3>3, SameExecutors, SameResults, LedgerStutters
  <2>7. ASSUME NEW r \in Requests, QuietStep(r) \/ Crash(r) PROVE UNCHANGED Ledger!vars
    BY <2>1, <2>7 DEF QuietStep, Crash, jobVars
  <2>8. ASSUME NEW r \in Requests, NEW s \in Slugs, DeprovisionNotFound(r, s)
        PROVE  UNCHANGED Ledger!vars
    BY <2>1, <2>8 DEF DeprovisionNotFound, jobVars
  <2>9. CASE QueueUntouched
    BY <2>1, <2>9 DEF QueueUntouched, jobVars
  <2>10. TypeOK
    BY DEF IInv
  <2>11. QED
    BY <2>3, <2>4, <2>5, <2>6, <2>7, <2>8, <2>9, <2>10, StepKinds, GrantStarts, LastStepFinishes
<1>3. QED
  <2>1. IInv /\ IInv' /\ [Next]_vars => [Ledger!Next]_(Ledger!vars)
    BY <1>2
  <2>2. QED
    BY <1>1, <2>1, Inductive, PTL DEF Spec, ImplementsJobLedger, Ledger!Spec

-----------------------------------------------------------------------------
(* What runProvisionWorkflow builds it builds in order: the invariant      *)
(* behind BuiltInOrder.                                                    *)

\* BuiltInOrder, of one tenant.
InOrder(s) ==
  /\ hostObjects[s] # {} => "namespace" \in hostObjects[s]
  /\ "vcluster" \in hostObjects[s] => Policies \subseteq hostObjects[s]
  /\ s \in kubeconfigs => "vcluster" \in hostObjects[s]
  /\ apiKeys[s] # {} => s \in kubeconfigs
  /\ tenantCIDR[s] # 0 => apiKeys[s] # {}
  /\ tenantStatus[s] = "ACTIVE" => tenantCIDR[s] # 0
  /\ \A j \in Requests : jobStatus[<<s, j>>] = "READY" => tenantStatus[s] = "ACTIVE"

\* What a run that is at loc has just added to its tenant.
Reached(loc, s) ==
  /\ loc = "provisioner-access" => "tenant-isolation" \in hostObjects[s]
  /\ loc = "vcluster"   => Policies \subseteq hostObjects[s]
  /\ loc = "kubeconfig" => "vcluster" \in hostObjects[s]
  /\ loc = "apikey"     => s \in kubeconfigs
  /\ loc = "cidrs"      => apiKeys[s] # {}
  /\ loc = "activate"   => tenantCIDR[s] # 0
  /\ loc = "complete"   => tenantStatus[s] = "ACTIVE"

\* A workflow is of the operation of its key.
StepsFitKey == \A r \in Requests :
  /\ pc[r] \in ProvisionSteps   => Op(r) = "provision"
  /\ pc[r] \in DeprovisionSteps => Op(r) = "deprovision"

\* Until a teardown begins, a run finds what its earlier steps have built.
RunsHaveBuilt == \A r \in Requests :
  pc[r] \in ProvisionSteps => TeardownBegan(Slug(r)) \/ Reached(pc[r], Slug(r))

\* The inductive invariant.
OrderInv == IInv /\ StepsFitKey /\ RunsHaveBuilt /\ BuiltInOrder

-----------------------------------------------------------------------------
\* A step that takes nothing from tenant s ...
Grows(s) ==
  /\ hostObjects[s] \subseteq hostObjects'[s]
  /\ s \in kubeconfigs => s \in kubeconfigs'
  /\ apiKeys[s] \subseteq apiKeys'[s]
  /\ tenantCIDR[s] # 0 => tenantCIDR'[s] # 0
  /\ tenantStatus[s] = "ACTIVE" => tenantStatus'[s] = "ACTIVE"

\* ... and one that adds nothing either.
Untouched(s) ==
  /\ hostObjects'[s] = hostObjects[s]
  /\ s \in kubeconfigs' <=> s \in kubeconfigs
  /\ apiKeys'[s] = apiKeys[s]
  /\ tenantCIDR'[s] = tenantCIDR[s]
  /\ tenantStatus'[s] = "ACTIVE" <=> tenantStatus[s] = "ACTIVE"
  /\ \A j \in Requests : jobStatus'[<<s, j>>] = "READY" => jobStatus[<<s, j>>] = "READY"

LEMMA UntouchedKeeps ==
  ASSUME NEW s, Untouched(s)
  PROVE  (InOrder(s) => InOrder(s)') /\ Grows(s)
BY DEF Untouched, InOrder, Grows

LEMMA ReachedStays ==
  ASSUME NEW s, NEW loc, Reached(loc, s), Grows(s)
  PROVE  Reached(loc, s)'
<1>1. Policies \subseteq hostObjects[s] => Policies \subseteq hostObjects'[s]
  BY DEF Grows
<1>2. apiKeys[s] # {} => apiKeys'[s] # {}
  BY DEF Grows
<1>3. QED
  BY <1>1, <1>2 DEF Reached, Grows

-----------------------------------------------------------------------------
\* One step of a provision run, on its tenant.
LEMMA BuildStep ==
  ASSUME TypeOK, NEW r \in Requests, NEW s \in Slugs, s = Slug(r), ProvisionStep(r),
         InOrder(s), Reached(pc[r], s)
  PROVE  /\ InOrder(s)' /\ Grows(s)
         /\ \E loc : Goto(r, loc) /\ Reached(loc, s)'
<1> USE DEF Applied, Continue
<1>1. CASE LookupTenant(r)
  <2>1. \E loc \in {"namespace", "failNil"} : Goto(r, loc)
    BY <1>1 DEF LookupTenant
  <2>2. Untouched(s)
    BY <1>1 DEF LookupTenant, Untouched, tenantVars, infraVars, jobVars
  <2>3. QED
    BY <2>1, <2>2, UntouchedKeeps DEF Reached
<1>2. CASE CreateNamespace(r)
  <2>1. /\ \E loc \in {"tenant-isolation", "failTenant"} : Goto(r, loc)
        /\ \E o \in {{}, {"namespace"}} : hostObjects'[s] = hostObjects[s] \cup o
        /\ UNCHANGED <<jobVars, tenantVars, kubeconfigs, apiKeys>>
    BY <1>2 DEF CreateNamespace, AddObjects, TypeOK
  <2>2. InOrder(s)' /\ Grows(s)
    BY <2>1 DEF InOrder, Grows, tenantVars, jobVars, Policies
  <2>3. QED
    BY <2>1, <2>2 DEF Reached
<1>3. CASE ApplyPolicy(r, "tenant-isolation", "provisioner-access")
  <2>1. PICK out \in IF "namespace" \in hostObjects[Slug(r)] THEN Outcomes(r) ELSE {"lost"} :
          /\ Goto(r, IF out = "ok" THEN "provisioner-access" ELSE "failTenant")
          /\ AddObjects(Slug(r), IF out \in {"ok", "unknown"} THEN {"tenant-isolation"} ELSE {})
          /\ UNCHANGED <<jobVars, tenantVars, kubeconfigs, apiKeys>>
    BY <1>3 DEF ApplyPolicy
  <2>2. /\ hostObjects'[s] = hostObjects[s] \cup (IF out \in {"ok", "unknown"} THEN {"tenant-isolation"} ELSE {})
        /\ out \in {"ok", "unknown"} => "namespace" \in hostObjects[s]
    BY <2>1 DEF AddObjects, TypeOK
  <2>3. InOrder(s)' /\ Grows(s)
    BY <2>1, <2>2 DEF InOrder, Grows, tenantVars, jobVars, Policies
  <2>4. QED
    BY <2>1, <2>2, <2>3 DEF Reached
<1>4. CASE ApplyPolicy(r, "provisioner-access", "vcluster")
  <2>1. PICK out \in IF "namespace" \in hostObjects[Slug(r)] THEN Outcomes(r) ELSE {"lost"} :
          /\ pc[r] = "provisioner-access"
          /\ Goto(r, IF out = "ok" THEN "vcluster" ELSE "failTenant")
          /\ AddObjects(Slug(r), IF out \in {"ok", "unknown"} THEN {"provisioner-access"} ELSE {})
          /\ UNCHANGED <<jobVars, tenantVars, kubeconfigs, apiKeys>>
    BY <1>4 DEF ApplyPolicy
  <2>2. /\ hostObjects'[s] = hostObjects[s] \cup (IF out \in {"ok", "unknown"} THEN {"provisioner-access"} ELSE {})
        /\ out \in {"ok", "unknown"} => "namespace" \in hostObjects[s]
    BY <2>1 DEF AddObjects, TypeOK
  <2>3. InOrder(s)' /\ Grows(s)
    BY <2>1, <2>2 DEF InOrder, Grows, tenantVars, jobVars, Policies
  <2>4. out = "ok" => Policies \subseteq hostObjects'[s]
    BY <2>1, <2>2 DEF Reached, Policies
  <2>5. QED
    BY <2>1, <2>3, <2>4 DEF Reached
<1>5. CASE CreateVCluster(r)
  <2>1. /\ pc[r] = "vcluster"
        /\ \/ \E loc \in {"kubeconfig", "failTenant"} :
                Goto(r, loc) /\ hostObjects'[s] = hostObjects[s] \cup {"namespace", "vcluster"}
           \/ Goto(r, "failTenant") /\ hostObjects'[s] = hostObjects[s] \cup {"namespace"}
           \/ Goto(r, "failTenant") /\ hostObjects'[s] = hostObjects[s]
        /\ UNCHANGED <<jobVars, tenantVars, kubeconfigs, apiKeys>>
    BY <1>5 DEF CreateVCluster, AddObjects, TypeOK
  <2>2. Policies \subseteq hostObjects[s]
    BY <2>1 DEF Reached
  <2>3. InOrder(s)' /\ Grows(s)
    BY <2>1, <2>2 DEF InOrder, Grows, tenantVars, jobVars, Policies
  <2>4. QED
    BY <2>1, <2>3 DEF Reached
<1>6. CASE StoreKubeconfig(r)
  <2>1. /\ pc[r] = "kubeconfig"
        /\ \/ \E loc \in {"apikey", "failTenant"} : Goto(r, loc) /\ kubeconfigs' = kubeconfigs \cup {s}
           \/ Goto(r, "failTenant") /\ kubeconfigs' = kubeconfigs
        /\ UNCHANGED <<jobVars, tenantVars, hostObjects, apiKeys>>
    BY <1>6 DEF StoreKubeconfig
  <2>2. InOrder(s)' /\ Grows(s)
    BY <2>1 DEF InOrder, Grows, tenantVars, jobVars, Reached
  <2>3. QED
    BY <2>1, <2>2 DEF Reached
<1>7. CASE GenerateAPIKey(r)
  <2>1. /\ pc[r] = "apikey"
        /\ \/ \E loc \in {"cidrs", "failTenant"} : Goto(r, loc) /\ apiKeys'[s] = apiKeys[s] \cup {r}
           \/ Goto(r, "failTenant") /\ apiKeys' = apiKeys
        /\ UNCHANGED <<jobVars, tenantVars, hostObjects, kubeconfigs>>
    BY <1>7 DEF GenerateAPIKey, TypeOK
  <2>2. InOrder(s)' /\ Grows(s)
    BY <2>1 DEF InOrder, Grows, tenantVars, jobVars, Reached
  <2>3. QED
    BY <2>1, <2>2 DEF Reached
<1>8. CASE SetCIDRs(r)
  <2>1. /\ pc[r] = "cidrs"
        /\ \/ \E loc \in {"activate", "failTenant"} : Goto(r, loc) /\ tenantCIDR'[s] = 1
           \/ Goto(r, "failTenant") /\ tenantCIDR' = tenantCIDR
        /\ UNCHANGED <<jobVars, tenantStatus, infraVars>>
    BY <1>8 DEF SetCIDRs, TypeOK, FixedCIDR
  <2>2. InOrder(s)' /\ Grows(s)
    BY <2>1 DEF InOrder, Grows, infraVars, jobVars, Reached
  <2>3. QED
    BY <2>1, <2>2 DEF Reached
<1>9. CASE ActivateTenant(r)
  <2>1. /\ pc[r] = "activate"
        /\ \/ \E loc \in {"complete", "failTenant"} : Goto(r, loc) /\ tenantStatus'[s] = "ACTIVE"
           \/ Goto(r, "failTenant") /\ tenantStatus' = tenantStatus
        /\ UNCHANGED <<jobVars, tenantCIDR, infraVars>>
    BY <1>9 DEF ActivateTenant, UpdateStatus, TypeOK
  <2>2. InOrder(s)' /\ Grows(s)
    BY <2>1 DEF InOrder, Grows, infraVars, jobVars, Reached
  <2>3. QED
    BY <2>1, <2>2 DEF Reached
<1>10. CASE CompleteProvision(r)
  <2>1. /\ pc[r] = "complete" /\ Goto(r, "done")
        /\ UNCHANGED <<tenantVars, infraVars>>
    BY <1>10 DEF CompleteProvision, Finish
  <2>2. InOrder(s)' /\ Grows(s)
    BY <2>1 DEF InOrder, Grows, infraVars, tenantVars, Reached
  <2>3. QED
    BY <2>1, <2>2 DEF Reached
<1>11. QED
  BY <1>1, <1>2, <1>3, <1>4, <1>5, <1>6, <1>7, <1>8, <1>9, <1>10
     DEF ProvisionStep, ApplyIsolationPolicies

-----------------------------------------------------------------------------
\* A teardown that has begun stays begun, and keys of arrived requests stay.
LEMMA TeardownStays ==
  ASSUME IInv, [Next]_vars, NEW s \in Slugs, TeardownBegan(s)
  PROVE  TeardownBegan(s)'
<1>1. PICK r \in claimed : Op(r) = "deprovision" /\ Slug(r) = s /\ r \in Requests
  BY DEF TeardownBegan, DeprovisionRun
<1>2. TypeOK /\ pc[r] # "idle"
  BY IdleOwnsNothing, <1>1 DEF IInv
<1>3. r \in claimed' /\ key'[r] = key[r]
  BY <1>1, <1>2, StepKinds DEF ReserveWins, ReserveFindsExisting, ReserveFails, DeprovisionNotFound,
     InsertJob, Claim, QuietStep, LastStep, Crash, QueueUntouched, TypeOK
<1>4. QED
  BY <1>1, <1>3 DEF TeardownBegan, DeprovisionRun, Op, Slug

\* A step of one request acts on its own tenant only.
LEMMA OthersUntouched ==
  ASSUME TypeOK, NEW r \in Requests, ProvisionStep(r) \/ DeprovisionStep(r) \/ FailJob(r),
         NEW t \in Slugs, t # Slug(r)
  PROVE  Untouched(t)
<1> USE DEF Untouched, jobVars, tenantVars, infraVars, TypeOK
<1>1. pc[r] \in Workflow => Slug(r) \in Slugs
  BY HomeType DEF Slug
<1>2. CASE LookupTenant(r)
  BY <1>2 DEF LookupTenant
<1>3. CASE CreateNamespace(r) \/ ApplyIsolationPolicies(r) \/ CreateVCluster(r)
  BY <1>3 DEF CreateNamespace, ApplyIsolationPolicies, ApplyPolicy, CreateVCluster, AddObjects
<1>4. CASE StoreKubeconfig(r) \/ RevokeKubeconfig(r)
  BY <1>4 DEF StoreKubeconfig, RevokeKubeconfig
<1>5. CASE GenerateAPIKey(r)
  BY <1>5 DEF GenerateAPIKey
<1>6. CASE SetCIDRs(r)
  BY <1>6 DEF SetCIDRs
<1>7. CASE ActivateTenant(r) \/ MarkDeleted(r)
  BY <1>7 DEF ActivateTenant, MarkDeleted, UpdateStatus
<1>8. CASE DeleteVCluster(r)
  BY <1>8 DEF DeleteVCluster
<1>9. CASE CompleteProvision(r) \/ CompleteDeprovision(r)
  <2>1. \A j \in Requests : jobStatus'[<<t, j>>] = jobStatus[<<t, j>>]
    BY <1>9 DEF CompleteProvision, CompleteDeprovision, Finish, CompleteRow, JobStoreTypeOK, Rows, Partitions
  <2>2. QED
    BY <1>9, <2>1 DEF CompleteProvision, CompleteDeprovision, Finish
<1>10. CASE FailJob(r)
  <2>1. \A j \in Requests : jobStatus'[<<t, j>>] = "READY" => jobStatus[<<t, j>>] = "READY"
    BY <1>10 DEF FailJob, FailUnder, FailRow, JobStoreTypeOK, Rows, Partitions
  <2>2. QED
    BY <1>10, <2>1 DEF FailJob, FailUnder
<1>11. QED
  BY <1>2, <1>3, <1>4, <1>5, <1>6, <1>7, <1>8, <1>9, <1>10 DEF ProvisionStep, DeprovisionStep

\* failJob touches no tenant: it only writes FAILED.
LEMMA FailTouchesNone ==
  ASSUME TypeOK, NEW r \in Requests, FailJob(r), NEW t \in Slugs
  PROVE  Untouched(t)
<1>1. \A j \in Requests : jobStatus'[<<t, j>>] = "READY" => jobStatus[<<t, j>>] = "READY"
  BY DEF FailJob, FailUnder, FailRow, TypeOK, JobStoreTypeOK, Rows, Partitions
<1>2. QED
  BY <1>1 DEF FailJob, FailUnder, Untouched, tenantVars, infraVars

\* Neither do the arrival of a request, its job's row, its claim, its timeout or
\* the death of its process; nor does the rest of the environment.
LEMMA OthersTouchNone ==
  ASSUME TypeOK, NEW t \in Slugs,
         \/ \E r \in Requests : Arrive(r) \/ InsertJob(r) \/ Claim(r) \/ Expire(r) \/ Crash(r)
         \/ \E s \in Slugs : CreateTenant(s) \/ ViewCatchesUp(s)
         \/ NextDay
         \/ UNCHANGED vars
  PROVE  Untouched(t)
<1> USE DEF Untouched, tenantVars, infraVars, jobVars
<1>1. ASSUME NEW r \in Requests, Arrive(r) \/ Expire(r) \/ Crash(r) PROVE Untouched(t)
  BY <1>1 DEF Arrive, ReserveWins, ReserveFindsExisting, ReserveFails, ReserveIdem, DeprovisionNotFound,
     Expire, Crash
<1>2. ASSUME NEW r \in Requests, InsertJob(r) \/ Claim(r) PROVE Untouched(t)
  <2>1. \A j \in Requests : jobStatus'[<<t, j>>] = "READY" => jobStatus[<<t, j>>] = "READY"
    BY <1>2 DEF InsertJob, InsertJobRow, Claim, ClaimRow, TypeOK, JobStoreTypeOK, Rows, Partitions
  <2>2. QED
    BY <1>2, <2>1 DEF InsertJob, Claim
<1>3. ASSUME NEW s \in Slugs, CreateTenant(s) PROVE Untouched(t)
  BY <1>3 DEF CreateTenant, TypeOK
<1>4. ASSUME NEW s \in Slugs, ViewCatchesUp(s) PROVE Untouched(t)
  BY <1>4 DEF ViewCatchesUp
<1>5. ASSUME NextDay \/ UNCHANGED vars PROVE Untouched(t)
  BY <1>5 DEF NextDay, vars
<1>6. QED
  BY <1>1, <1>2, <1>3, <1>4, <1>5

\* The steps of the two workflows are where their names say.
LEMMA WhereStepsAre ==
  ASSUME NEW r \in Requests
  PROVE  /\ ProvisionStep(r) => pc[r] \in ProvisionSteps
         /\ DeprovisionStep(r) => pc[r] \in DeprovisionSteps
BY DEF ProvisionStep, DeprovisionStep, ProvisionSteps, DeprovisionSteps, LookupTenant, CreateNamespace,
   ApplyIsolationPolicies, ApplyPolicy, CreateVCluster, StoreKubeconfig, GenerateAPIKey, SetCIDRs,
   ActivateTenant, CompleteProvision, RevokeKubeconfig, DeleteVCluster, MarkDeleted, UpdateStatus,
   CompleteDeprovision, Finish

\* How a request gets to a step of a workflow: it was there, its claim was
\* granted, or it came from the step before.
LEMMA HowStepsAreReached ==
  ASSUME TypeOK, [Next]_vars, NEW q \in Requests, pc'[q] \in ProvisionSteps \cup DeprovisionSteps
  PROVE  /\ key'[q] = key[q] /\ pc[q] \in Workflow
         /\ \/ pc'[q] = pc[q]
            \/ pc'[q] = FirstStep(Op(q))
            \/ ProvisionStep(q) /\ pc'[q] \in ProvisionSteps
            \/ DeprovisionStep(q) /\ pc'[q] \in DeprovisionSteps
<1> USE Locs DEF TypeOK, Goto, ProvisionSteps, DeprovisionSteps
<1>1. ASSUME NEW r \in Requests, Arrive(r) \/ InsertJob(r) \/ Crash(r) \/ FailJob(r)
      PROVE  key'[q] = key[q] /\ pc'[q] = pc[q]
  <2>1. \E loc \in {"insert", "claim", "done", "crashed"} : pc' = [pc EXCEPT ![r] = loc]
    BY <1>1 DEF Arrive, ReserveWins, ReserveFindsExisting, ReserveFails, DeprovisionNotFound, InsertJob,
       Crash, FailJob, FailUnder
  <2>2. UNCHANGED key \/ \E k : key' = [key EXCEPT ![r] = k]
    BY <1>1 DEF Arrive, ReserveWins, ReserveFindsExisting, ReserveFails, DeprovisionNotFound, InsertJob,
       Crash, FailJob, FailUnder
  <2>3. q # r
    BY <2>1
  <2>4. QED
    BY <2>1, <2>2, <2>3
<1>2. ASSUME NEW r \in Requests, Claim(r)
      PROVE  key'[q] = key[q] /\ (pc'[q] = pc[q] \/ (pc[q] = "claim" /\ pc'[q] = FirstStep(Op(q))))
  BY <1>2 DEF Claim
<1>3. ASSUME NEW r \in Requests, ProvisionStep(r)
      PROVE  key'[q] = key[q] /\ (pc'[q] = pc[q] \/ (ProvisionStep(q) /\ pc'[q] \in ProvisionSteps))
  <2>1. /\ key' = key
        /\ \E loc \in ProvisionSteps \cup FailSteps \cup {"done"} : pc' = [pc EXCEPT ![r] = loc]
    BY <1>3 DEF ProvisionStep, LookupTenant, CreateNamespace, ApplyIsolationPolicies, ApplyPolicy,
       CreateVCluster, StoreKubeconfig, GenerateAPIKey, SetCIDRs, ActivateTenant, UpdateStatus,
       CompleteProvision, Finish, Continue, FailSteps
  <2>2. QED
    BY <1>3, <2>1 DEF FailSteps
<1>4. ASSUME NEW r \in Requests, DeprovisionStep(r)
      PROVE  key'[q] = key[q] /\ (pc'[q] = pc[q] \/ (DeprovisionStep(q) /\ pc'[q] \in DeprovisionSteps))
  <2>1. /\ key' = key
        /\ \E loc \in DeprovisionSteps \cup FailSteps \cup {"done"} : pc' = [pc EXCEPT ![r] = loc]
    BY <1>4 DEF DeprovisionStep, RevokeKubeconfig, DeleteVCluster, MarkDeleted, UpdateStatus,
       CompleteDeprovision, Finish, Continue, FailSteps
  <2>2. QED
    BY <1>4, <2>1 DEF FailSteps
<1>5. ASSUME \/ \E r \in Requests : Expire(r)
             \/ \E s \in Slugs : CreateTenant(s) \/ ViewCatchesUp(s)
             \/ NextDay
             \/ UNCHANGED vars
      PROVE  key'[q] = key[q] /\ pc'[q] = pc[q]
  BY <1>5 DEF Expire, CreateTenant, ViewCatchesUp, NextDay, vars, callVars
<1>6. ProvisionStep(q) => pc[q] \in ProvisionSteps
  BY WhereStepsAre
<1>7. DeprovisionStep(q) => pc[q] \in DeprovisionSteps
  BY WhereStepsAre
<1>8. QED
  BY <1>1, <1>2, <1>3, <1>4, <1>5, <1>6, <1>7 DEF Next, Progress

-----------------------------------------------------------------------------
\* A tenant that no teardown has touched stays in order and loses nothing.
LEMMA TenantStaysInOrder ==
  ASSUME OrderInv, [Next]_vars, NEW t \in Slugs, ~TeardownBegan(t)
  PROVE  InOrder(t)' /\ Grows(t)
<1>1. TypeOK /\ InOrder(t)
  BY DEF OrderInv, IInv, BuiltInOrder, InOrder
<1>2. ASSUME NEW r \in Requests, ProvisionStep(r) PROVE InOrder(t)' /\ Grows(t)
  <2>1. CASE t = Slug(r)
    <3>1. Reached(pc[r], t)
      BY <1>2, <2>1, WhereStepsAre DEF OrderInv, RunsHaveBuilt
    <3>2. QED
      BY <1>1, <1>2, <2>1, <3>1, BuildStep
  <2>2. CASE t # Slug(r)
    BY <1>1, <1>2, <2>2, OthersUntouched, UntouchedKeeps
  <2>3. QED
    BY <2>1, <2>2
<1>3. ASSUME NEW r \in Requests, DeprovisionStep(r) PROVE InOrder(t)' /\ Grows(t)
  <2>1. pc[r] \in DeprovisionSteps /\ Op(r) = "deprovision"
    BY <1>3, WhereStepsAre DEF OrderInv, StepsFitKey
  <2>2. r \in claimed
    BY <2>1, BodyLocs DEF OrderInv, IInv, BodyIsClaimed, DeprovisionSteps
  <2>3. t # Slug(r)
    BY <2>1, <2>2 DEF TeardownBegan, DeprovisionRun
  <2>4. QED
    BY <1>1, <1>3, <2>3, OthersUntouched, UntouchedKeeps
<1>4. ASSUME NEW r \in Requests, FailJob(r) PROVE InOrder(t)' /\ Grows(t)
  BY <1>1, <1>4, FailTouchesNone, UntouchedKeeps
<1>5. ASSUME \/ \E r \in Requests : Arrive(r) \/ InsertJob(r) \/ Claim(r) \/ Expire(r) \/ Crash(r)
             \/ \E s \in Slugs : CreateTenant(s) \/ ViewCatchesUp(s)
             \/ NextDay
             \/ UNCHANGED vars
      PROVE  InOrder(t)' /\ Grows(t)
  BY <1>1, <1>5, OthersTouchNone, UntouchedKeeps
<1>6. QED
  BY <1>2, <1>3, <1>4, <1>5 DEF Next, Progress

\* Every step keeps the invariant.
LEMMA OrderStep ==
  ASSUME OrderInv, [Next]_vars
  PROVE  OrderInv'
<1>1. IInv' /\ TypeOK
  BY StepKeeps DEF OrderInv, IInv
<1>2. BuiltInOrder'
  <2>1. \A s \in Slugs : TeardownBegan(s)' \/ InOrder(s)'
    BY TenantStaysInOrder, TeardownStays DEF OrderInv
  <2>2. QED
    BY <2>1 DEF BuiltInOrder, InOrder
<1>3. StepsFitKey'
  <2>1. ASSUME NEW q \in Requests, pc'[q] \in ProvisionSteps \cup DeprovisionSteps
        PROVE  /\ pc'[q] \in ProvisionSteps => Op(q)' = "provision"
               /\ pc'[q] \in DeprovisionSteps => Op(q)' = "deprovision"
    <3>1. /\ Op(q)' = Op(q) /\ Op(q) \in Operations
      BY <1>1, <2>1, HowStepsAreReached DEF Op, TypeOK, IdemKeys
    <3>2. CASE pc'[q] = FirstStep(Op(q))
      BY <3>1, <3>2 DEF FirstStep, Operations, ProvisionSteps, DeprovisionSteps
    <3>3. CASE pc'[q] = pc[q]
      BY <3>1, <3>3 DEF OrderInv, StepsFitKey
    <3>4. CASE ProvisionStep(q) /\ pc'[q] \in ProvisionSteps
      BY <3>1, <3>4, WhereStepsAre DEF OrderInv, StepsFitKey, ProvisionSteps, DeprovisionSteps
    <3>5. CASE DeprovisionStep(q) /\ pc'[q] \in DeprovisionSteps
      BY <3>1, <3>5, WhereStepsAre DEF OrderInv, StepsFitKey, ProvisionSteps, DeprovisionSteps
    <3>6. QED
      BY <1>1, <2>1, <3>2, <3>3, <3>4, <3>5, HowStepsAreReached
  <2>2. QED
    BY <2>1 DEF StepsFitKey
<1>4. RunsHaveBuilt'
  <2>1. ASSUME NEW q \in Requests, pc'[q] \in ProvisionSteps, ~TeardownBegan(Slug(q))'
        PROVE  Reached(pc[q], Slug(q))'
    <3>1. key'[q] = key[q] /\ pc[q] \in Workflow
      BY <1>1, <2>1, HowStepsAreReached
    <3>2. PICK t \in Slugs : t = Slug(q)
      BY <1>1, <3>1, HomeType DEF TypeOK, Slug
    <3>3. t = Slug(q)'
      BY <3>1, <3>2 DEF Slug
    <3>4. ~TeardownBegan(t)'
      BY <2>1, <3>3 DEF TeardownBegan
    <3>5. ~TeardownBegan(t)
      BY <3>4, TeardownStays DEF OrderInv
    <3>6. InOrder(t) /\ Grows(t)
      BY <3>5, TenantStaysInOrder DEF OrderInv, BuiltInOrder, InOrder
    <3>7. PICK loc : loc = pc'[q]
      OBVIOUS
    <3>8. Reached(loc, t)'
      <4>1. CASE pc'[q] = pc[q]
        <5>1. Reached(loc, t)
          BY <2>1, <3>2, <3>5, <3>7, <4>1 DEF OrderInv, RunsHaveBuilt
        <5>2. QED
          BY <3>6, <5>1, ReachedStays
      <4>2. CASE pc'[q] = FirstStep(Op(q))
        BY <3>7, <4>2 DEF FirstStep, Reached
      <4>3. CASE ProvisionStep(q)
        <5>1. Reached(pc[q], t)
          BY <3>2, <3>5, <4>3, WhereStepsAre DEF OrderInv, RunsHaveBuilt
        <5>2. PICK l : Goto(q, l) /\ Reached(l, t)'
          BY <1>1, <3>2, <3>6, <4>3, <5>1, BuildStep
        <5>3. l = loc
          BY <1>1, <3>7, <5>2 DEF Goto, TypeOK
        <5>4. QED
          BY <5>2, <5>3
      <4>4. CASE DeprovisionStep(q) /\ pc'[q] \in DeprovisionSteps
        BY <2>1, <4>4 DEF ProvisionSteps, DeprovisionSteps
      <4>5. QED
        BY <1>1, <2>1, <4>1, <4>2, <4>3, <4>4, HowStepsAreReached
    <3>9. QED
      BY <3>3, <3>7, <3>8 DEF Reached
  <2>2. QED
    BY <2>1 DEF RunsHaveBuilt
<1>5. QED
  BY <1>1, <1>2, <1>3, <1>4 DEF OrderInv

\* What runProvisionWorkflow builds, it builds each thing on top of the one
\* before, through every error, timeout and crash, until a teardown begins: no
\* vCluster without both policies, no kubeconfig without a vCluster, no key
\* without a stored kubeconfig, ACTIVE only with CIDRs and a key, READY only ACTIVE.
THEOREM BuildsInOrder == Spec => []BuiltInOrder
<1>1. Init => OrderInv
  <2> SUFFICES ASSUME Init PROVE OrderInv
    OBVIOUS
  <2>1. IInv
    BY InitInvariant
  <2>2. StepsFitKey /\ RunsHaveBuilt
    BY DEF Init, StepsFitKey, RunsHaveBuilt, ProvisionSteps, DeprovisionSteps
  <2>3. \A s \in Slugs : InOrder(s)
    BY DEF Init, JobStoreInit, InOrder, Rows, Partitions
  <2>4. QED
    BY <2>1, <2>2, <2>3 DEF OrderInv, BuiltInOrder, InOrder
<1>2. OrderInv /\ [Next]_vars => OrderInv'
  BY OrderStep
<1>3. OrderInv => BuiltInOrder
  BY DEF OrderInv
<1>4. QED
  BY <1>1, <1>2, <1>3, PTL DEF Spec
=============================================================================
