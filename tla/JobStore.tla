------------------------------ MODULE JobStore ------------------------------
(***************************************************************************)
(* The ScyllaDB tables behind internal/accounts/job.go, one operator per   *)
(* CQL statement.  A table is a total function: a primary key that has no  *)
(* row maps to NoJob or to "ABSENT".                                       *)
(*                                                                         *)
(* A job id is minted by the Enqueue call that generates it (UUID v4), so  *)
(* the call is its name: Requests is also the set of job ids.  The tenant  *)
(* of a slug is named by the slug; NilTenant is the partition uuid.Nil.    *)
(***************************************************************************)
EXTENDS Naturals

CONSTANTS
  Slugs,      \* tenant slugs, and the tenant ids they resolve to
  Requests,   \* calls of Enqueue, and the job ids they generate
  MaxDay,     \* bound on the calendar days of a behaviour
  NilTenant,  \* uuid.Nil as a partition key
  NoJob       \* no job id

ASSUME NilTenantIsNoSlug == NilTenant \notin Slugs
ASSUME NoJobIsNoRequest  == NoJob \notin Requests
ASSUME MaxDayIsNat       == MaxDay \in Nat

VARIABLES
  jobsByIdem, \* cf.provisioning_jobs_by_idem: the job_id of each idempotency key
  jobStatus,  \* cf.provisioning_jobs.status, by (tenant_id, job_id)
  jobResult   \* cf.provisioning_jobs.result, by (tenant_id, job_id)

jobVars == <<jobsByIdem, jobStatus, jobResult>>

-----------------------------------------------------------------------------
Operations == {"provision", "deprovision"}
Partitions == Slugs \cup {NilTenant}
Rows       == Partitions \X Requests

\* "provision-vpc:slug" has no date: its day is 0.
\* "deprovision-vpc:slug:YYYY-MM-DD" carries the day of the call.
IdemKeys == [op : Operations, slug : Slugs, day : 0 .. MaxDay]

Statuses == {"ABSENT", "QUEUED", "PROVISIONING", "READY", "FAILED"}
Terminal == {"READY", "FAILED"}

\* The result column as far as the properties tell it apart: empty, the blob
\* of a provisioned VPC (with the raw api_key) or of a deprovisioned one.
Results == {"", "vpc_with_raw_key", "deprovisioned"}

JobStoreTypeOK ==
  /\ jobsByIdem \in [IdemKeys -> Requests \cup {NoJob}]
  /\ jobStatus  \in [Rows -> Statuses]
  /\ jobResult  \in [Rows -> Results]

JobStoreInit ==
  /\ jobsByIdem = [k \in IdemKeys |-> NoJob]
  /\ jobStatus  = [row \in Rows |-> "ABSENT"]
  /\ jobResult  = [row \in Rows |-> ""]

-----------------------------------------------------------------------------
(* Each statement takes whether the database applied it.                   *)

\* Enqueue step 1: INSERT INTO provisioning_jobs_by_idem ... IF NOT EXISTS.
ReserveIdem(k, j, applied) ==
  /\ jobsByIdem' = IF applied /\ jobsByIdem[k] = NoJob
                     THEN [jobsByIdem EXCEPT ![k] = j] ELSE jobsByIdem
  /\ UNCHANGED <<jobStatus, jobResult>>

\* Enqueue step 2: the plain INSERT of the QUEUED row.
InsertJobRow(p, j, applied) ==
  /\ jobStatus' = IF applied THEN [jobStatus EXCEPT ![<<p, j>>] = "QUEUED"] ELSE jobStatus
  /\ jobResult' = IF applied THEN [jobResult EXCEPT ![<<p, j>>] = ""] ELSE jobResult
  /\ UNCHANGED jobsByIdem

\* (Mutant) A claim that takes over a job in progress as well.
ClaimableAgain(p, j) == jobStatus[<<p, j>>] \in {"QUEUED", "PROVISIONING"}

\* Claim: UPDATE ... SET status = 'PROVISIONING' IF status = 'QUEUED'.
Claimable(p, j) == jobStatus[<<p, j>>] = "QUEUED"

ClaimRow(p, j, applied) ==
  /\ jobStatus' = IF applied /\ Claimable(p, j)
                    THEN [jobStatus EXCEPT ![<<p, j>>] = "PROVISIONING"] ELSE jobStatus
  /\ UNCHANGED <<jobsByIdem, jobResult>>

\* Complete: an unconditional UPDATE, which in CQL also creates a missing row.
CompleteRow(p, j, res, applied) ==
  /\ jobStatus' = IF applied THEN [jobStatus EXCEPT ![<<p, j>>] = "READY"] ELSE jobStatus
  /\ jobResult' = IF applied THEN [jobResult EXCEPT ![<<p, j>>] = res] ELSE jobResult
  /\ UNCHANGED jobsByIdem

\* Fail: likewise unconditional; the result column keeps its value.
FailRow(p, j, applied) ==
  /\ jobStatus' = IF applied THEN [jobStatus EXCEPT ![<<p, j>>] = "FAILED"] ELSE jobStatus
  /\ UNCHANGED <<jobsByIdem, jobResult>>
=============================================================================
