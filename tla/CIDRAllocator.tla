--------------------------- MODULE CIDRAllocator ---------------------------
(***************************************************************************)
(* AllocateCIDRs and ReleaseTenantCIDRs of internal/provisioner/cidr.go:   *)
(* tenants reserve a pod and a service block of the same index with one    *)
(* LWT per block, scanning the indices upwards, and give both back.        *)
(*                                                                         *)
(* Each database statement is a step; a statement may be lost, or applied  *)
(* although its caller sees an error.                                      *)
(***************************************************************************)
EXTENDS Naturals

CONSTANTS
  Tenants,      \* the tenants that call AllocateCIDRs, one call at a time each
  maxTenants,   \* number of /24 blocks in a supernet, 254 in the code
  NoTenant,     \* no row for a block
  Faults,       \* {} or {"lost", "unknown"}
  ReleaseAgain  \* whether a release that reported an error is called again

ASSUME MaxTenantsIsPositive == maxTenants \in Nat \ {0}
ASSUME NoTenantIsNoTenant   == NoTenant \notin Tenants
ASSUME FaultsAreOutcomes    == Faults \subseteq {"lost", "unknown"}
ASSUME ReleaseAgainIsBool   == ReleaseAgain \in BOOLEAN

VARIABLES
  allocations, \* cf.cidr_allocations: the tenant_id of each block's row
  pc,          \* where the tenant's call is
  index,       \* its loop variable i, then the index of the pair it returned
  vacant,      \* history: indices free ever since the running call began
  faulty       \* history: tenants a statement of which has failed

vars == <<allocations, pc, index, vacant, faulty>>

-----------------------------------------------------------------------------
Indices == 1 .. maxTenants
CIDRTypes == {"POD", "SERVICE"}
Blocks  == CIDRTypes \X Indices

PodCIDR(i) == <<"POD", i>>
SvcCIDR(i) == <<"SERVICE", i>>

Scanning  == {"pod", "svc", "undoAndContinue", "undoAndFail"}
Releasing == {"releaseSvc", "releaseSvcAfterError"}
Locations == {"none", "held", "exhausted", "error", "released", "releaseFailed"}
               \cup Scanning \cup Releasing

TypeOK ==
  /\ allocations \in [Blocks -> Tenants \cup {NoTenant}]
  /\ pc          \in [Tenants -> Locations]
  /\ index       \in [Tenants -> 0 .. maxTenants]
  /\ vacant      \in [Tenants -> SUBSET Indices]
  /\ faulty      \subseteq Tenants
  /\ \A t \in Tenants : pc[t] \notin {"none", "exhausted"} => index[t] \in Indices

Init ==
  /\ allocations = [b \in Blocks |-> NoTenant]
  /\ pc          = [t \in Tenants |-> "none"]
  /\ index       = [t \in Tenants |-> 0]
  /\ vacant      = [t \in Tenants |-> {}]
  /\ faulty      = {}

-----------------------------------------------------------------------------
Outcomes     == {"ok"} \cup Faults
Applied(out) == out \in {"ok", "unknown"}
\* (Mutant) The INSERT without IF NOT EXISTS.
AlwaysFree(b) == TRUE

Free(b)      == allocations[b] = NoTenant

\* TryAllocate: INSERT ... IF NOT EXISTS.
TryAllocate(t, b, out) ==
  allocations' = IF Applied(out) /\ Free(b) THEN [allocations EXCEPT ![b] = t] ELSE allocations

\* Release: DELETE ... WHERE cidr = ?, whoever the row belongs to.
Release(b, out) ==
  allocations' = IF Applied(out) THEN [allocations EXCEPT ![b] = NoTenant] ELSE allocations

Goto(t, loc) == pc' = [pc EXCEPT ![t] = loc]

Blame(t, out) == faulty' = IF out = "ok" THEN faulty ELSE faulty \cup {t}

Vacant(i) == Free(PodCIDR(i)) /\ Free(SvcCIDR(i))

\* After a statement: what stays vacant for the calls of others.
Watch ==
  vacant' = [t \in Tenants |->
    {i \in vacant[t] : {allocations'[PodCIDR(i)], allocations'[SvcCIDR(i)]} \subseteq {NoTenant, t}}]

\* (Mutants) i < maxTenants, and i <= maxTenants + 1.
ScanShort(t, i) ==
  IF i < maxTenants
    THEN Goto(t, "pod") /\ index' = [index EXCEPT ![t] = i]
    ELSE Goto(t, "exhausted") /\ UNCHANGED index
ScanLong(t, i) ==
  IF i <= maxTenants + 1
    THEN Goto(t, "pod") /\ index' = [index EXCEPT ![t] = i]
    ELSE Goto(t, "exhausted") /\ UNCHANGED index

\* for i := 1; i <= maxTenants; i++
Scan(t, i) ==
  IF i <= maxTenants
    THEN Goto(t, "pod") /\ index' = [index EXCEPT ![t] = i]
    ELSE Goto(t, "exhausted") /\ UNCHANGED index

\* (Mutant) Scanning the same index again.
SkipNothing(t) == Scan(t, index[t])

\* continue
Skip(t) == Scan(t, index[t] + 1)

-----------------------------------------------------------------------------
(* AllocateCIDRs.  Formatting and parsing the two blocks cannot fail.      *)

AllocateCIDRs(t) ==
  /\ pc[t] \in {"none", "exhausted", "error", "released"}
  /\ Scan(t, 1)
  /\ vacant' = [vacant EXCEPT ![t] = {i \in Indices : Vacant(i)}]
  /\ UNCHANGED <<allocations, faulty>>

AllocatePod(t) ==
  /\ pc[t] = "pod"
  /\ \E out \in Outcomes :
       /\ TryAllocate(t, PodCIDR(index[t]), out)
       /\ Blame(t, out)
       /\ \/ out # "ok" /\ Goto(t, "error") /\ UNCHANGED index
          \/ out = "ok" /\ ~Free(PodCIDR(index[t])) /\ Skip(t)
          \/ out = "ok" /\ Free(PodCIDR(index[t])) /\ Goto(t, "svc") /\ UNCHANGED index
  /\ Watch

\* (Mutant) Scanning on without the rollback.
KeepPod(t) == Skip(t)

\* The service block is taken: give the pod block back, then go on scanning.
SvcTaken(t) == Goto(t, "undoAndContinue") /\ UNCHANGED index

AllocateSvc(t) ==
  /\ pc[t] = "svc"
  /\ \E out \in Outcomes :
       /\ TryAllocate(t, SvcCIDR(index[t]), out)
       /\ Blame(t, out)
       /\ \/ out # "ok" /\ Goto(t, "undoAndFail") /\ UNCHANGED index
          \/ out = "ok" /\ ~Free(SvcCIDR(index[t])) /\ SvcTaken(t)
          \/ out = "ok" /\ Free(SvcCIDR(index[t])) /\ Goto(t, "held") /\ UNCHANGED index
  /\ Watch

\* The rollback of the pod block; its error is ignored.
UndoPod(t) ==
  /\ \/ pc[t] = "undoAndContinue" /\ Skip(t)
     \/ pc[t] = "undoAndFail" /\ Goto(t, "error") /\ UNCHANGED index
  /\ \E out \in Outcomes : Release(PodCIDR(index[t]), out) /\ Blame(t, out)
  /\ Watch

-----------------------------------------------------------------------------
(* ReleaseTenantCIDRs: two deletes, the second whatever came of the first. *)

Releasable == IF ReleaseAgain THEN {"held", "releaseFailed"} ELSE {"held"}

ReleasePod(t) ==
  /\ pc[t] \in Releasable
  /\ \E out \in Outcomes :
       /\ Release(PodCIDR(index[t]), out) /\ Blame(t, out)
       /\ Goto(t, IF out = "ok" THEN "releaseSvc" ELSE "releaseSvcAfterError")
  /\ UNCHANGED index
  /\ Watch

ReleaseSvc(t) ==
  /\ pc[t] \in Releasing
  /\ \E out \in Outcomes :
       /\ Release(SvcCIDR(index[t]), out) /\ Blame(t, out)
       /\ Goto(t, IF out = "ok" /\ pc[t] = "releaseSvc" THEN "released" ELSE "releaseFailed")
  /\ UNCHANGED index
  /\ Watch

-----------------------------------------------------------------------------
\* What a call does once it has begun.
Step(t) == AllocatePod(t) \/ AllocateSvc(t) \/ UndoPod(t) \/ ReleaseSvc(t)

Next == \E t \in Tenants : AllocateCIDRs(t) \/ ReleasePod(t) \/ Step(t)

Spec == Init /\ [][Next]_vars

\* A call in progress is executed (the goroutine runs, its context bounds every
\* statement); nobody has to call.
FairSpec == Spec /\ \A t \in Tenants : WF_vars(Step(t))

-----------------------------------------------------------------------------
\* A pair that was returned stays reserved, both blocks, until its tenant gives
\* it back, whatever the scans, rollbacks and releases of the others do; so no
\* two tenants ever hold a common block.  (Of ReleaseAgain = FALSE: a release that
\* reported an error and is called again may delete somebody else's reservation.)
HeldPairsAreReserved ==
  \A t \in Tenants : pc[t] = "held" =>
    allocations[PodCIDR(index[t])] = t /\ allocations[SvcCIDR(index[t])] = t

\* "AllocateCIDRs finds the next available /24 index": it does not pass over an
\* index that was free all along, and reports ErrCIDRExhausted only when there
\* was none.
FirstFit ==
  \A t \in Tenants :
    /\ pc[t] = "held" => \A i \in vacant[t] : i >= index[t]
    /\ pc[t] = "exhausted" => vacant[t] = {}

\* Without a failed statement of its tenant no block leaks: what is reserved
\* belongs to the pair held or given back, or to the rollback under way.
NothingLeaks ==
  \A b \in Blocks : \A t \in Tenants \ faulty : allocations[b] = t =>
    /\ pc[t] \in {"held", "svc", "undoAndContinue", "releaseSvc"}
    /\ b[2] = index[t]

\* Every scan ends, with a pair or an error: bounded by maxTenants although the
\* others keep reserving and releasing (FairSpec).
ScanEnds ==
  \A t \in Tenants : pc[t] = "pod" ~> pc[t] \in {"held", "exhausted", "error"}
=============================================================================
