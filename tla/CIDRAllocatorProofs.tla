------------------------ MODULE CIDRAllocatorProofs ------------------------
(***************************************************************************)
(* Theorems about CIDRAllocator for every set of tenants and every number  *)
(* of blocks, whatever statements fail.                                    *)
(***************************************************************************)
EXTENDS CIDRAllocator, TLAPS

\* A statement's outcome is one of three.
LEMMA OutcomesType == Outcomes \subseteq {"ok", "lost", "unknown"}
BY FaultsAreOutcomes DEF Outcomes

\* The two blocks of every index are blocks, and they are all different.
LEMMA BlocksDiffer ==
  /\ \A i \in Indices : PodCIDR(i) \in Blocks /\ SvcCIDR(i) \in Blocks
  /\ \A i, j : PodCIDR(i) # SvcCIDR(j)
  /\ \A i, j : PodCIDR(i) = PodCIDR(j) => i = j
  /\ \A i, j : SvcCIDR(i) = SvcCIDR(j) => i = j
  /\ \A b \in Blocks : \E i \in Indices : b \in {PodCIDR(i), SvcCIDR(i)} /\ b[2] = i
BY DEF Blocks, CIDRTypes, PodCIDR, SvcCIDR

\* A step of one tenant: what it does to the location, the index and the history
\* of the others.
Moves(t) ==
  /\ \E loc \in Locations : Goto(t, loc)
  /\ \E i \in 0 .. maxTenants : index' = [index EXCEPT ![t] = i]
  /\ pc'[t] \notin {"none", "exhausted"} => index'[t] \in Indices

\* Scanning at an index within the loop, or past its end.
LEMMA ScanMoves ==
  ASSUME TypeOK, NEW t \in Tenants, NEW i \in 1 .. maxTenants + 1, Scan(t, i)
  PROVE  /\ Moves(t)
         /\ \/ i \in Indices /\ pc'[t] = "pod" /\ index'[t] = i
            \/ i \notin Indices /\ pc'[t] = "exhausted"
<1>1. CASE i <= maxTenants
  BY <1>1, MaxTenantsIsPositive
     DEF Scan, Goto, Moves, TypeOK, Locations, Scanning, Indices
<1>2. CASE ~(i <= maxTenants)
  <2>1. index' = [index EXCEPT ![t] = index[t]] /\ index[t] \in 0 .. maxTenants
    BY <1>2 DEF Scan, TypeOK
  <2>2. Goto(t, "exhausted") /\ pc'[t] = "exhausted" /\ i \notin Indices
    BY <1>2, MaxTenantsIsPositive DEF Scan, Goto, TypeOK, Indices
  <2>3. QED
    BY <2>1, <2>2 DEF Moves, Locations
<1>3. QED
  BY <1>1, <1>2

\* An allocation or a release changes one block at most.
TouchesOnly(b) == \A c \in Blocks \ {b} : allocations'[c] = allocations[c]

\* What a tenant's block statement does: an insert takes a free block only.
LEMMA TryAllocateEffect ==
  ASSUME TypeOK, NEW t \in Tenants, NEW b \in Blocks, NEW out, TryAllocate(t, b, out)
  PROVE  /\ allocations' \in [Blocks -> Tenants \cup {NoTenant}]
         /\ TouchesOnly(b)
         /\ allocations[b] # NoTenant => allocations'[b] = allocations[b]
         /\ allocations'[b] \in {allocations[b], t}
         /\ out = "ok" /\ Free(b) => allocations'[b] = t
BY DEF TypeOK, TryAllocate, TouchesOnly, Free, Applied

\* A delete frees the block, or leaves it as it was.
LEMMA ReleaseEffect ==
  ASSUME TypeOK, NEW b \in Blocks, NEW out, Release(b, out)
  PROVE  /\ allocations' \in [Blocks -> Tenants \cup {NoTenant}]
         /\ TouchesOnly(b)
         /\ allocations'[b] \in {allocations[b], NoTenant}
         /\ out = "ok" => allocations'[b] = NoTenant
BY DEF TypeOK, Release, TouchesOnly, Applied

\* A tenant whose location has an index works on blocks of the table.
LEMMA OwnBlocks ==
  ASSUME TypeOK, NEW t \in Tenants, pc[t] \notin {"none", "exhausted"}
  PROVE  /\ index[t] \in Indices
         /\ PodCIDR(index[t]) \in Blocks /\ SvcCIDR(index[t]) \in Blocks
BY BlocksDiffer DEF TypeOK

\* Each step of Next, as a change of one block and of one tenant's location.
\* It is what all the proofs below start from.
StartStep(t) ==
  /\ pc[t] \in {"none", "exhausted", "error", "released"}
  /\ pc'[t] = "pod" /\ index'[t] = 1
  /\ vacant' = [vacant EXCEPT ![t] = {i \in Indices : Vacant(i)}]
  /\ UNCHANGED <<allocations, faulty>>

PodStep(t) ==
  /\ pc[t] = "pod" /\ Watch
  /\ \E out \in Outcomes :
       /\ TryAllocate(t, PodCIDR(index[t]), out) /\ Blame(t, out)
       /\ \/ out # "ok" /\ pc'[t] = "error" /\ index' = index
          \/ out = "ok" /\ ~Free(PodCIDR(index[t])) /\ Skip(t)
          \/ out = "ok" /\ Free(PodCIDR(index[t])) /\ pc'[t] = "svc" /\ index' = index

SvcStep(t) ==
  /\ pc[t] = "svc" /\ Watch /\ index' = index
  /\ \E out \in Outcomes :
       /\ TryAllocate(t, SvcCIDR(index[t]), out) /\ Blame(t, out)
       /\ \/ out # "ok" /\ pc'[t] = "undoAndFail"
          \/ out = "ok" /\ ~Free(SvcCIDR(index[t])) /\ pc'[t] = "undoAndContinue"
          \/ out = "ok" /\ Free(SvcCIDR(index[t])) /\ pc'[t] = "held"

UndoStep(t) ==
  /\ \/ pc[t] = "undoAndContinue" /\ Skip(t)
     \/ pc[t] = "undoAndFail" /\ pc'[t] = "error" /\ index' = index
  /\ Watch
  /\ \E out \in Outcomes : Release(PodCIDR(index[t]), out) /\ Blame(t, out)

ReleaseStep(t, b, from) ==
  /\ pc[t] \in from /\ Watch /\ index' = index
  /\ \E out \in Outcomes : Release(b, out) /\ Blame(t, out)

AnyStep(t) ==
  \/ StartStep(t) \/ PodStep(t) \/ SvcStep(t) \/ UndoStep(t)
  \/ /\ ReleaseStep(t, PodCIDR(index[t]), Releasable)
     /\ pc'[t] \in Releasing
     /\ pc'[t] = "releaseSvc" \/ t \in faulty'
  \/ /\ ReleaseStep(t, SvcCIDR(index[t]), Releasing)
     /\ pc'[t] \in {"released", "releaseFailed"}

LEMMA StepForm ==
  ASSUME TypeOK, NEW t \in Tenants, AllocateCIDRs(t) \/ ReleasePod(t) \/ Step(t)
  PROVE  Moves(t) /\ AnyStep(t)
<1> USE OutcomesType DEF AnyStep
<1>1. ASSUME AllocateCIDRs(t) PROVE Moves(t) /\ StartStep(t)
  <2>1. 1 \in 1 .. maxTenants + 1 /\ 1 \in Indices
    BY MaxTenantsIsPositive DEF Indices
  <2>2. QED
    BY <1>1, <2>1, ScanMoves DEF AllocateCIDRs, StartStep
<1>2. ASSUME pc[t] \in {"pod", "undoAndContinue"} PROVE index[t] + 1 \in 1 .. maxTenants + 1
  BY <1>2, OwnBlocks, MaxTenantsIsPositive DEF Indices
<1>3. ASSUME NEW loc \in Locations, Goto(t, loc), UNCHANGED index, pc[t] \notin {"none", "exhausted"}
      PROVE  Moves(t) /\ pc'[t] = loc
  <2>1. pc'[t] = loc /\ index' = [index EXCEPT ![t] = index[t]] /\ index[t] \in 0 .. maxTenants
    BY <1>3 DEF TypeOK, Goto
  <2>2. index'[t] \in Indices
    BY <1>3, OwnBlocks
  <2>3. QED
    BY <1>3, <2>1, <2>2 DEF Moves
<1>4. ASSUME AllocatePod(t) PROVE Moves(t) /\ PodStep(t)
  <2>1. PICK out \in Outcomes :
          /\ TryAllocate(t, PodCIDR(index[t]), out)
          /\ Blame(t, out)
          /\ \/ out # "ok" /\ Goto(t, "error") /\ UNCHANGED index
             \/ out = "ok" /\ ~Free(PodCIDR(index[t])) /\ Skip(t)
             \/ out = "ok" /\ Free(PodCIDR(index[t])) /\ Goto(t, "svc") /\ UNCHANGED index
    BY <1>4 DEF AllocatePod
  <2>2. CASE Skip(t)
    BY <1>2, <1>4, <2>1, <2>2, ScanMoves DEF AllocatePod, PodStep, Skip, Goto, TypeOK
  <2>3. CASE ~Skip(t)
    BY <1>3, <1>4, <2>1, <2>3 DEF AllocatePod, PodStep, Locations, Scanning
  <2>4. QED
    BY <2>2, <2>3
<1>5. ASSUME AllocateSvc(t) PROVE Moves(t) /\ SvcStep(t)
  BY <1>3, <1>5 DEF AllocateSvc, SvcStep, SvcTaken, Locations, Scanning
<1>6. ASSUME UndoPod(t) PROVE Moves(t) /\ UndoStep(t)
  <2>1. CASE pc[t] = "undoAndContinue"
    BY <1>2, <1>6, <2>1, ScanMoves DEF UndoPod, UndoStep, Skip
  <2>2. CASE pc[t] = "undoAndFail"
    BY <1>3, <1>6, <2>2 DEF UndoPod, UndoStep, Locations
  <2>3. QED
    BY <1>6, <2>1, <2>2 DEF UndoPod
<1>7. ASSUME ReleasePod(t) PROVE Moves(t) /\ AnyStep(t)
  <2>1. PICK out \in Outcomes :
          /\ Release(PodCIDR(index[t]), out) /\ Blame(t, out)
          /\ Goto(t, IF out = "ok" THEN "releaseSvc" ELSE "releaseSvcAfterError")
    BY <1>7 DEF ReleasePod
  <2>2. pc[t] \in {"held", "releaseFailed"} /\ index' = index /\ Watch
    BY <1>7 DEF ReleasePod, Releasable
  <2>3. Moves(t) /\ pc'[t] = IF out = "ok" THEN "releaseSvc" ELSE "releaseSvcAfterError"
    BY <1>3, <2>1, <2>2 DEF Locations, Releasing
  <2>4. out = "ok" \/ t \in faulty'
    BY <2>1 DEF Blame
  <2>5. QED
    BY <1>7, <2>1, <2>2, <2>3, <2>4 DEF ReleasePod, ReleaseStep, Releasing
<1>8. ASSUME ReleaseSvc(t) PROVE Moves(t) /\ AnyStep(t)
  <2>1. PICK out \in Outcomes :
          /\ Release(SvcCIDR(index[t]), out) /\ Blame(t, out)
          /\ Goto(t, IF out = "ok" /\ pc[t] = "releaseSvc" THEN "released" ELSE "releaseFailed")
    BY <1>8 DEF ReleaseSvc
  <2>2. pc[t] \in Releasing /\ pc[t] \notin {"none", "exhausted"} /\ index' = index /\ Watch
    BY <1>8 DEF ReleaseSvc, Releasing
  <2>3. Moves(t) /\ pc'[t] \in {"released", "releaseFailed"}
    BY <1>3, <2>1, <2>2 DEF Locations
  <2>4. QED
    BY <2>1, <2>2, <2>3 DEF ReleaseStep
<1>9. QED
  BY <1>1, <1>4, <1>5, <1>6, <1>7, <1>8 DEF Step

-----------------------------------------------------------------------------
\* The initial state is typed.
LEMMA InitTyped == Init => TypeOK
BY MaxTenantsIsPositive DEF Init, TypeOK, Locations

\* The one block that a step of t touches.
BlockOf(t) == IF pc[t] \in {"svc"} \cup Releasing THEN SvcCIDR(index[t]) ELSE PodCIDR(index[t])

\* What a step of t does to the table: it touches one block, which it may take if
\* it is free and may free.
TableStep(t) ==
  /\ allocations' \in [Blocks -> Tenants \cup {NoTenant}]
  /\ TouchesOnly(BlockOf(t))
  /\ BlockOf(t) \in Blocks \/ allocations' = allocations
  /\ BlockOf(t) \in Blocks =>
       \/ allocations'[BlockOf(t)] = allocations[BlockOf(t)]
       \/ allocations'[BlockOf(t)] = NoTenant /\ pc[t] \notin {"pod", "svc"}
       \/ allocations'[BlockOf(t)] = t /\ allocations[BlockOf(t)] = NoTenant /\ pc[t] \in {"pod", "svc"}

LEMMA StepTable ==
  ASSUME TypeOK, NEW t \in Tenants, AnyStep(t)
  PROVE  TableStep(t)
<1>1. CASE StartStep(t)
  BY <1>1 DEF StartStep, TableStep, TouchesOnly, TypeOK
<1>2. CASE PodStep(t)
  <2>1. BlockOf(t) = PodCIDR(index[t]) /\ BlockOf(t) \in Blocks
    BY <1>2, OwnBlocks DEF PodStep, BlockOf, Releasing
  <2>2. PICK out \in Outcomes : TryAllocate(t, PodCIDR(index[t]), out)
    BY <1>2 DEF PodStep
  <2>3. QED
    BY <1>2, <2>1, <2>2, TryAllocateEffect DEF TableStep, PodStep
<1>3. CASE SvcStep(t)
  <2>1. BlockOf(t) = SvcCIDR(index[t]) /\ BlockOf(t) \in Blocks
    BY <1>3, OwnBlocks DEF SvcStep, BlockOf
  <2>2. PICK out \in Outcomes : TryAllocate(t, SvcCIDR(index[t]), out)
    BY <1>3 DEF SvcStep
  <2>3. QED
    BY <1>3, <2>1, <2>2, TryAllocateEffect DEF TableStep, SvcStep
<1>4. CASE UndoStep(t)
  <2>1. BlockOf(t) = PodCIDR(index[t]) /\ BlockOf(t) \in Blocks
    BY <1>4, OwnBlocks DEF UndoStep, BlockOf, Releasing
  <2>2. PICK out \in Outcomes : Release(PodCIDR(index[t]), out)
    BY <1>4 DEF UndoStep
  <2>3. QED
    BY <1>4, <2>1, <2>2, ReleaseEffect DEF TableStep, UndoStep
<1>5. CASE ReleaseStep(t, PodCIDR(index[t]), Releasable)
  <2>1. BlockOf(t) = PodCIDR(index[t]) /\ BlockOf(t) \in Blocks /\ pc[t] \notin {"pod", "svc"}
    BY <1>5, OwnBlocks DEF ReleaseStep, BlockOf, Releasing, Releasable
  <2>2. PICK out \in Outcomes : Release(PodCIDR(index[t]), out)
    BY <1>5 DEF ReleaseStep
  <2>3. QED
    BY <2>1, <2>2, ReleaseEffect DEF TableStep
<1>6. CASE ReleaseStep(t, SvcCIDR(index[t]), Releasing)
  <2>1. BlockOf(t) = SvcCIDR(index[t]) /\ BlockOf(t) \in Blocks /\ pc[t] \notin {"pod", "svc"}
    BY <1>6, OwnBlocks DEF ReleaseStep, BlockOf, Releasing
  <2>2. PICK out \in Outcomes : Release(SvcCIDR(index[t]), out)
    BY <1>6 DEF ReleaseStep
  <2>3. QED
    BY <2>1, <2>2, ReleaseEffect DEF TableStep
<1>7. QED
  BY <1>1, <1>2, <1>3, <1>4, <1>5, <1>6 DEF AnyStep

\* A failed statement is blamed on the tenant that ran it; nobody is cleared.
LEMMA StepBlames ==
  ASSUME TypeOK, NEW t \in Tenants, AnyStep(t)
  PROVE  faulty' \in {faulty, faulty \cup {t}}
BY DEF AnyStep, StartStep, PodStep, SvcStep, UndoStep, ReleaseStep, Blame

\* What is known to be vacant stays a set of indices for everybody.
LEMMA StepWatches ==
  ASSUME TypeOK, NEW t \in Tenants, AnyStep(t)
  PROVE  vacant' \in [Tenants -> SUBSET Indices]
<1>1. CASE StartStep(t)
  BY <1>1 DEF StartStep, TypeOK
<1>2. CASE Watch
  BY <1>2 DEF Watch, TypeOK
<1>3. QED
  BY <1>1, <1>2 DEF AnyStep, PodStep, SvcStep, UndoStep, ReleaseStep

\* Every step keeps the state typed.
LEMMA StepTyped ==
  ASSUME TypeOK, [Next]_vars
  PROVE  TypeOK'
<1>1. CASE \E t \in Tenants : AllocateCIDRs(t) \/ ReleasePod(t) \/ Step(t)
  <2>1. PICK t \in Tenants : AllocateCIDRs(t) \/ ReleasePod(t) \/ Step(t)
    BY <1>1
  <2>2. Moves(t) /\ AnyStep(t)
    BY <2>1, StepForm
  <2>3. /\ allocations' \in [Blocks -> Tenants \cup {NoTenant}]
        /\ faulty' \subseteq Tenants
        /\ vacant' \in [Tenants -> SUBSET Indices]
    BY <2>2, StepTable, StepBlames, StepWatches DEF TableStep, TypeOK
  <2>4. /\ pc' \in [Tenants -> Locations]
        /\ index' \in [Tenants -> 0 .. maxTenants]
        /\ \A u \in Tenants : pc'[u] \notin {"none", "exhausted"} => index'[u] \in Indices
    BY <2>2 DEF Moves, Goto, TypeOK
  <2>5. QED
    BY <2>3, <2>4 DEF TypeOK
<1>2. CASE UNCHANGED vars
  BY <1>2 DEF vars, TypeOK
<1>3. QED
  BY <1>1, <1>2 DEF Next

\* Every state of the allocator is well-typed: a scan never leaves the supernet.
THEOREM TypeCorrect == Spec => []TypeOK
BY InitTyped, StepTyped, PTL DEF Spec

-----------------------------------------------------------------------------
\* What the location of a tenant says about the two blocks of its index: a pod
\* block is its own from its reservation to its rollback or release, a service
\* block from its reservation to its release.
PodIsOwn == \A t \in Tenants :
  pc[t] \in {"svc", "undoAndContinue", "undoAndFail", "held"} => allocations[PodCIDR(index[t])] = t
SvcIsOwn == \A t \in Tenants :
  pc[t] \in {"held"} \cup Releasing => allocations[SvcCIDR(index[t])] = t

Ownership == TypeOK /\ PodIsOwn /\ SvcIsOwn

\* A step of t leaves location, index and blocks of every other tenant u alone.
LEMMA OthersKeep ==
  ASSUME TypeOK, NEW t \in Tenants, NEW u \in Tenants \ {t}, Moves(t)
  PROVE  pc'[u] = pc[u] /\ index'[u] = index[u]
BY DEF Moves, Goto, TypeOK

\* With ReleaseAgain = FALSE a step of t takes nothing from another tenant: what it
\* gives back is its own.
LEMMA TakesNothing ==
  ASSUME Ownership, ReleaseAgain = FALSE, NEW t \in Tenants, AnyStep(t),
         NEW u \in Tenants \ {t}, NEW b \in Blocks
  PROVE  allocations'[b] = u <=> allocations[b] = u
<1>1. TableStep(t) /\ NoTenant # u
  BY StepTable, NoTenantIsNoTenant DEF Ownership
<1>2. CASE pc[t] \in {"undoAndContinue", "undoAndFail", "held"}
  <2>1. BlockOf(t) = PodCIDR(index[t]) /\ allocations[PodCIDR(index[t])] = t
    BY <1>2 DEF Ownership, PodIsOwn, BlockOf, Releasing
  <2>2. QED
    BY <1>1, <1>2, <2>1 DEF TableStep, TouchesOnly
<1>3. CASE pc[t] \in Releasing
  <2>1. BlockOf(t) = SvcCIDR(index[t]) /\ allocations[SvcCIDR(index[t])] = t
    BY <1>3 DEF Ownership, SvcIsOwn, BlockOf
  <2>2. QED
    BY <1>1, <1>3, <2>1 DEF TableStep, TouchesOnly, Releasing
<1>4. CASE pc[t] \in {"pod", "svc"}
  BY <1>1, <1>4 DEF TableStep, TouchesOnly
<1>5. CASE pc[t] \in {"none", "exhausted", "error", "released"}
  <2>1. StartStep(t)
    BY <1>5 DEF AnyStep, StartStep, PodStep, SvcStep, UndoStep, ReleaseStep, Releasable, Releasing
  <2>2. QED
    BY <2>1 DEF StartStep
<1>6. QED
  BY <1>2, <1>3, <1>4, <1>5
     DEF AnyStep, StartStep, PodStep, SvcStep, UndoStep, ReleaseStep, Releasable, Releasing

\* A tenant's own step moves it only to where its blocks are its own.
LEMMA OwnStepOwns ==
  ASSUME Ownership, ReleaseAgain = FALSE, NEW t \in Tenants, Moves(t), AnyStep(t)
  PROVE  /\ pc'[t] \in {"svc", "undoAndContinue", "undoAndFail", "held"} =>
              allocations'[PodCIDR(index'[t])] = t
         /\ pc'[t] \in {"held"} \cup Releasing => allocations'[SvcCIDR(index'[t])] = t
<1> DEFINE Owns == /\ pc'[t] \in {"svc", "undoAndContinue", "undoAndFail", "held"} =>
                        allocations'[PodCIDR(index'[t])] = t
                   /\ pc'[t] \in {"held"} \cup Releasing => allocations'[SvcCIDR(index'[t])] = t
<1> USE DEF Releasing
<1>1. CASE StartStep(t)
  BY <1>1 DEF StartStep
<1>2. ASSUME Skip(t) PROVE pc'[t] \in {"pod", "exhausted"}
  BY <1>2 DEF Skip, Scan, Goto, Ownership, TypeOK
<1>3. CASE PodStep(t)
  <2>1. PodCIDR(index[t]) \in Blocks
    BY <1>3, OwnBlocks DEF PodStep, Ownership
  <2>2. PICK out \in Outcomes :
          /\ TryAllocate(t, PodCIDR(index[t]), out)
          /\ \/ out # "ok" /\ pc'[t] = "error"
             \/ Skip(t)
             \/ out = "ok" /\ Free(PodCIDR(index[t])) /\ pc'[t] = "svc" /\ index' = index
    BY <1>3 DEF PodStep
  <2>3. CASE pc'[t] = "svc" /\ index' = index /\ out = "ok" /\ Free(PodCIDR(index[t]))
    BY <2>1, <2>2, <2>3, TryAllocateEffect DEF Ownership
  <2>4. QED
    BY <1>2, <2>2, <2>3
<1>4. CASE SvcStep(t)
  <2>1. SvcCIDR(index[t]) \in Blocks /\ PodCIDR(index[t]) \in Blocks
    BY <1>4, OwnBlocks DEF SvcStep, Ownership
  <2>2. PICK out \in Outcomes :
          /\ TryAllocate(t, SvcCIDR(index[t]), out)
          /\ \/ pc'[t] \in {"undoAndFail", "undoAndContinue"}
             \/ out = "ok" /\ Free(SvcCIDR(index[t])) /\ pc'[t] = "held"
    BY <1>4 DEF SvcStep
  <2>3. allocations'[PodCIDR(index[t])] = t
    BY <1>4, <2>1, <2>2, TryAllocateEffect, BlocksDiffer DEF SvcStep, Ownership, PodIsOwn, TouchesOnly
  <2>4. pc'[t] = "held" => allocations'[SvcCIDR(index[t])] = t
    BY <2>1, <2>2, TryAllocateEffect DEF Ownership
  <2>5. QED
    BY <1>4, <2>2, <2>3, <2>4 DEF SvcStep
<1>5. CASE UndoStep(t)
  BY <1>2, <1>5 DEF UndoStep
<1>6. CASE ReleaseStep(t, PodCIDR(index[t]), Releasable) /\ pc'[t] \in Releasing
  <2>1. pc[t] = "held" /\ index' = index
    BY <1>6 DEF ReleaseStep, Releasable
  <2>2. PodCIDR(index[t]) \in Blocks /\ SvcCIDR(index[t]) \in Blocks
    BY <2>1, OwnBlocks DEF Ownership
  <2>3. TouchesOnly(PodCIDR(index[t]))
    BY <1>6, <2>2, ReleaseEffect DEF ReleaseStep, Ownership
  <2>4. allocations'[SvcCIDR(index[t])] = t
    BY <2>1, <2>2, <2>3, BlocksDiffer DEF TouchesOnly, Ownership, SvcIsOwn
  <2>5. QED
    BY <1>6, <2>1, <2>4
<1>7. CASE ReleaseStep(t, SvcCIDR(index[t]), Releasing) /\ pc'[t] \in {"released", "releaseFailed"}
  BY <1>7
<1>8. QED
  BY <1>1, <1>3, <1>4, <1>5, <1>6, <1>7 DEF AnyStep

\* Ownership is an invariant of every allocator that releases once.
LEMMA OwnershipInductive ==
  ASSUME ReleaseAgain = FALSE
  PROVE  Spec => []Ownership
<1>1. Init => Ownership
  BY InitTyped DEF Init, Ownership, PodIsOwn, SvcIsOwn, Releasing
<1>2. Ownership /\ [Next]_vars => Ownership'
  <2> SUFFICES ASSUME Ownership, [Next]_vars PROVE Ownership'
    OBVIOUS
  <2>1. TypeOK'
    BY StepTyped DEF Ownership
  <2>2. CASE UNCHANGED vars
    BY <2>2 DEF vars, Ownership, TypeOK, PodIsOwn, SvcIsOwn
  <2>3. CASE Next
    <3>1. PICK t \in Tenants : AllocateCIDRs(t) \/ ReleasePod(t) \/ Step(t)
      BY <2>3 DEF Next
    <3>2. Moves(t) /\ AnyStep(t)
      BY <3>1, StepForm DEF Ownership
    <3>3. ASSUME NEW u \in Tenants \ {t}, pc[u] \notin {"none", "exhausted"}
          PROVE  /\ allocations'[PodCIDR(index[u])] = u <=> allocations[PodCIDR(index[u])] = u
                 /\ allocations'[SvcCIDR(index[u])] = u <=> allocations[SvcCIDR(index[u])] = u
      BY <3>2, <3>3, OwnBlocks, TakesNothing DEF Ownership
    <3>4. \A u \in Tenants \ {t} : pc'[u] = pc[u] /\ index'[u] = index[u]
      BY <3>2, OthersKeep DEF Ownership
    <3>5. PodIsOwn'
      BY <3>2, <3>3, <3>4, OwnStepOwns DEF Ownership, PodIsOwn
    <3>6. SvcIsOwn'
      BY <3>2, <3>3, <3>4, OwnStepOwns DEF Ownership, SvcIsOwn, Releasing
    <3>7. QED
      BY <2>1, <3>5, <3>6 DEF Ownership
  <2>4. QED
    BY <2>2, <2>3
<1>3. QED
  BY <1>1, <1>2, PTL DEF Spec

\* A pair that AllocateCIDRs returned stays reserved until it is given back, for
\* any number of tenants and blocks, as long as a release is not called again
\* after an error.
THEOREM HeldReserved ==
  ASSUME ReleaseAgain = FALSE
  PROVE  Spec => []HeldPairsAreReserved
<1>1. Ownership => HeldPairsAreReserved
  BY DEF Ownership, PodIsOwn, SvcIsOwn, HeldPairsAreReserved
<1>2. QED
  BY <1>1, OwnershipInductive, PTL

-----------------------------------------------------------------------------
\* A tenant none of whose statements has failed has the service block of its index
\* neither before it reserved it nor after it was refused, and no pod block any
\* more once it has deleted it.
NotYetOrNoMore == \A t \in Tenants \ faulty :
  /\ pc[t] \in {"svc", "undoAndContinue"} => allocations[SvcCIDR(index[t])] # t
  /\ pc[t] = "releaseSvc" => allocations[PodCIDR(index[t])] # t

Clean == TypeOK /\ NothingLeaks /\ NotYetOrNoMore

\* What a tenant with a clean record owns, as NothingLeaks says it.
LEMMA CleanOwns ==
  ASSUME Clean, NEW t \in Tenants \ faulty, NEW b \in Blocks, allocations[b] = t
  PROVE  /\ pc[t] \in {"held", "svc", "undoAndContinue", "releaseSvc"}
         /\ b \in {PodCIDR(index[t]), SvcCIDR(index[t])}
         /\ pc[t] \in {"svc", "undoAndContinue"} => b = PodCIDR(index[t])
         /\ pc[t] = "releaseSvc" => b = SvcCIDR(index[t])
BY BlocksDiffer DEF Clean, NothingLeaks, NotYetOrNoMore

\* A tenant's own step, as long as its record stays clean, leaves nothing behind.
LEMMA OwnStepClean ==
  ASSUME Clean, NEW t \in Tenants, Moves(t), AnyStep(t), t \notin faulty'
  PROVE  /\ \A b \in Blocks : allocations'[b] = t =>
              pc'[t] \in {"held", "svc", "undoAndContinue", "releaseSvc"} /\ b[2] = index'[t]
         /\ pc'[t] \in {"svc", "undoAndContinue"} => allocations'[SvcCIDR(index'[t])] # t
         /\ pc'[t] = "releaseSvc" => allocations'[PodCIDR(index'[t])] # t
<1> USE NoTenantIsNoTenant, BlocksDiffer
<1>1. t \notin faulty /\ TypeOK /\ TableStep(t)
  BY StepBlames, StepTable DEF Clean
<1>2. \A i \in Indices : PodCIDR(i)[2] = i /\ SvcCIDR(i)[2] = i
  BY DEF PodCIDR, SvcCIDR
<1>3. \A out \in Outcomes : Blame(t, out) => out = "ok"
  BY <1>1 DEF Blame, TypeOK
<1>4. ASSUME Skip(t) PROVE pc'[t] \in {"pod", "exhausted"}
  BY <1>1, <1>4 DEF Skip, Scan, Goto, TypeOK
<1>5. CASE StartStep(t)
  BY <1>1, <1>5, CleanOwns DEF StartStep
<1>6. CASE PodStep(t)
  <2>1. index[t] \in Indices /\ PodCIDR(index[t]) \in Blocks /\ SvcCIDR(index[t]) \in Blocks
    BY <1>1, <1>6, OwnBlocks DEF PodStep
  <2>2. \A b \in Blocks : allocations[b] # t
    BY <1>1, <1>6, CleanOwns DEF PodStep
  <2>3. CASE pc'[t] = "svc" /\ index' = index
    <3>1. \A b \in Blocks \ {PodCIDR(index[t])} : allocations'[b] # t
      BY <1>1, <1>6, <2>1, <2>2 DEF TableStep, TouchesOnly, BlockOf, PodStep, Releasing
    <3>2. QED
      BY <1>2, <2>1, <2>3, <3>1
  <2>4. CASE Skip(t) /\ ~Free(PodCIDR(index[t]))
    BY <1>1, <1>4, <1>6, <2>1, <2>2, <2>4
       DEF TableStep, TouchesOnly, BlockOf, PodStep, Releasing, Free
  <2>5. QED
    BY <1>3, <1>6, <2>3, <2>4 DEF PodStep
<1>7. CASE SvcStep(t)
  <2>1. index[t] \in Indices /\ PodCIDR(index[t]) \in Blocks /\ SvcCIDR(index[t]) \in Blocks
    BY <1>1, <1>7, OwnBlocks DEF SvcStep
  <2>2. index' = index /\ TouchesOnly(SvcCIDR(index[t]))
    BY <1>1, <1>7 DEF TableStep, BlockOf, SvcStep
  <2>3. \A b \in Blocks : allocations'[b] = t => b \in {PodCIDR(index[t]), SvcCIDR(index[t])}
    BY <1>1, <2>2, CleanOwns DEF TouchesOnly
  <2>4. CASE pc'[t] = "held"
    BY <1>2, <2>1, <2>2, <2>3, <2>4
  <2>5. CASE pc'[t] = "undoAndContinue" /\ ~Free(SvcCIDR(index[t]))
    <3>1. allocations'[SvcCIDR(index[t])] = allocations[SvcCIDR(index[t])]
      BY <1>1, <1>7, <2>1, <2>5 DEF TableStep, BlockOf, SvcStep, Free
    <3>2. allocations[SvcCIDR(index[t])] # t
      BY <1>1, <1>7 DEF Clean, NotYetOrNoMore, SvcStep
    <3>3. QED
      BY <1>2, <2>1, <2>2, <2>3, <2>5, <3>1, <3>2
  <2>6. QED
    BY <1>3, <1>7, <2>4, <2>5 DEF SvcStep
<1>8. CASE UndoStep(t)
  <2>1. PodCIDR(index[t]) \in Blocks
    BY <1>1, <1>8, OwnBlocks DEF UndoStep
  <2>2. allocations'[PodCIDR(index[t])] = NoTenant /\ TouchesOnly(PodCIDR(index[t]))
    BY <1>1, <1>3, <1>8, <2>1, ReleaseEffect DEF UndoStep
  <2>3. \A b \in Blocks : allocations'[b] # t
    BY <1>1, <1>8, <2>2, CleanOwns DEF TouchesOnly, UndoStep
  <2>4. pc'[t] \in {"pod", "exhausted", "error"}
    BY <1>4, <1>8 DEF UndoStep
  <2>5. QED
    BY <2>3, <2>4
<1>9. CASE /\ ReleaseStep(t, PodCIDR(index[t]), Releasable)
           /\ pc'[t] = "releaseSvc" \/ t \in faulty'
  <2>1. index[t] \in Indices /\ PodCIDR(index[t]) \in Blocks /\ pc[t] \in {"held", "releaseFailed"}
    BY <1>1, <1>9, OwnBlocks DEF ReleaseStep, Releasable
  <2>2. allocations'[PodCIDR(index[t])] = NoTenant /\ TouchesOnly(PodCIDR(index[t])) /\ index' = index
    BY <1>1, <1>3, <1>9, <2>1, ReleaseEffect DEF ReleaseStep
  <2>3. \A b \in Blocks : allocations'[b] = t => b = SvcCIDR(index[t]) /\ pc[t] = "held"
    BY <1>1, <2>1, <2>2, CleanOwns DEF TouchesOnly
  <2>4. pc'[t] = "releaseSvc"
    BY <1>9
  <2>5. QED
    BY <1>2, <2>1, <2>2, <2>3, <2>4
<1>10. CASE ReleaseStep(t, SvcCIDR(index[t]), Releasing) /\ pc'[t] \in {"released", "releaseFailed"}
  <2>1. SvcCIDR(index[t]) \in Blocks
    BY <1>1, <1>10, OwnBlocks DEF ReleaseStep, Releasing
  <2>2. allocations'[SvcCIDR(index[t])] = NoTenant /\ TouchesOnly(SvcCIDR(index[t]))
    BY <1>1, <1>3, <1>10, <2>1, ReleaseEffect DEF ReleaseStep
  <2>3. \A b \in Blocks : allocations'[b] # t
    BY <1>1, <1>10, <2>2, CleanOwns DEF TouchesOnly, ReleaseStep, Releasing
  <2>4. QED
    BY <1>10, <2>3
<1>11. QED
  BY <1>5, <1>6, <1>7, <1>8, <1>9, <1>10 DEF AnyStep

\* Nothing that a step of t does gives a block to another tenant.
LEMMA GivesNothing ==
  ASSUME TypeOK, NEW t \in Tenants, AnyStep(t), NEW u \in Tenants \ {t}, NEW b \in Blocks,
         allocations'[b] = u
  PROVE  allocations[b] = u
BY StepTable, NoTenantIsNoTenant DEF TableStep, TouchesOnly

\* Clean is an invariant, whether or not releases are called again.
LEMMA CleanInductive == Spec => []Clean
<1>1. Init => Clean
  BY InitTyped, NoTenantIsNoTenant DEF Init, Clean, NothingLeaks, NotYetOrNoMore
<1>2. Clean /\ [Next]_vars => Clean'
  <2> SUFFICES ASSUME Clean, [Next]_vars PROVE Clean'
    OBVIOUS
  <2>1. TypeOK /\ TypeOK'
    BY StepTyped DEF Clean
  <2>2. CASE UNCHANGED vars
    BY <2>2 DEF vars, Clean, TypeOK, NothingLeaks, NotYetOrNoMore
  <2>3. CASE Next
    <3>1. PICK t \in Tenants : AllocateCIDRs(t) \/ ReleasePod(t) \/ Step(t)
      BY <2>3 DEF Next
    <3>2. Moves(t) /\ AnyStep(t) /\ faulty \subseteq faulty'
      BY <2>1, <3>1, StepForm, StepBlames
    <3>3. \A u \in Tenants \ {t} : pc'[u] = pc[u] /\ index'[u] = index[u]
      BY <2>1, <3>2, OthersKeep
    <3>4. ASSUME NEW u \in Tenants \ {t}, NEW b \in Blocks, allocations'[b] = u
          PROVE  allocations[b] = u
      BY <2>1, <3>2, <3>4, GivesNothing
    <3>5. NothingLeaks'
      BY <3>2, <3>3, <3>4, OwnStepClean DEF Clean, NothingLeaks
    <3>6. ASSUME NEW u \in Tenants \ faulty', u # t
          PROVE  /\ pc'[u] \in {"svc", "undoAndContinue"} => allocations'[SvcCIDR(index'[u])] # u
                 /\ pc'[u] = "releaseSvc" => allocations'[PodCIDR(index'[u])] # u
      <4>1. pc[u] \in {"svc", "undoAndContinue", "releaseSvc"} =>
              PodCIDR(index[u]) \in Blocks /\ SvcCIDR(index[u]) \in Blocks
        BY <2>1, OwnBlocks
      <4>2. QED
        BY <3>2, <3>3, <3>4, <3>6, <4>1 DEF Clean, NotYetOrNoMore
    <3>7. NotYetOrNoMore'
      BY <3>2, <3>6, OwnStepClean DEF NotYetOrNoMore
    <3>8. QED
      BY <2>1, <3>5, <3>7 DEF Clean
  <2>4. QED
    BY <2>2, <2>3
<1>3. QED
  BY <1>1, <1>2, PTL DEF Spec

\* No block leaks without a failed statement of its tenant: races, rollbacks and
\* releases of the others alone leave nothing reserved behind.
THEOREM NoLeak == Spec => []NothingLeaks
<1>1. Clean => NothingLeaks
  BY DEF Clean
<1>2. QED
  BY <1>1, CleanInductive, PTL

-----------------------------------------------------------------------------
\* What is vacant for a tenant while its scan has not got to it, by location: the
\* pair ahead is still free, the one it is at free as far as it has not reserved
\* it, and one that it is giving back was not free all along.
Ahead(t, i) ==
  /\ pc[t] \in {"pod", "svc", "undoAndContinue", "held"} => i >= index[t]
  /\ pc[t] \in {"pod", "svc", "undoAndContinue"} /\ i > index[t] => Vacant(i)
  /\ pc[t] = "pod" => Vacant(i)
  /\ pc[t] = "svc" => Free(SvcCIDR(i))
  /\ pc[t] = "undoAndContinue" => i # index[t]
  /\ pc[t] # "exhausted"

ScanMissesNothing == TypeOK /\ \A t \in Tenants : \A i \in vacant[t] : Ahead(t, i)

\* For another tenant than the one that takes a step, what stays vacant stays free.
LEMMA OthersMissNothing ==
  ASSUME ScanMissesNothing, NEW t \in Tenants, Moves(t), AnyStep(t),
         NEW u \in Tenants \ {t}, NEW i \in vacant'[u]
  PROVE  Ahead(u, i)'
<1>1. pc'[u] = pc[u] /\ index'[u] = index[u] /\ TypeOK
  BY OthersKeep DEF ScanMissesNothing
<1>2. i \in vacant[u] /\ i \in Indices
  BY <1>1 DEF AnyStep, StartStep, PodStep, SvcStep, UndoStep, ReleaseStep, Watch, TypeOK
<1>3. Ahead(u, i)
  BY <1>2 DEF ScanMissesNothing
<1>4. {allocations'[PodCIDR(i)], allocations'[SvcCIDR(i)]} \subseteq {NoTenant, u} \/ UNCHANGED allocations
  BY <1>1, <1>2 DEF AnyStep, StartStep, PodStep, SvcStep, UndoStep, ReleaseStep, Watch, TypeOK
<1>5. \A b \in {PodCIDR(i), SvcCIDR(i)} : Free(b) => Free(b)'
  <2>1. PodCIDR(i) \in Blocks /\ SvcCIDR(i) \in Blocks
    BY <1>2, BlocksDiffer
  <2>2. \A b \in Blocks : allocations'[b] = u => allocations[b] = u
    BY <1>1, GivesNothing
  <2>3. QED
    BY <1>4, <2>1, <2>2, NoTenantIsNoTenant DEF Free
<1>6. QED
  BY <1>1, <1>3, <1>5 DEF Ahead, Vacant

\* The tenant's own step: it goes on only past an index that was not free, and
\* reserves nothing ahead of it.
LEMMA OwnStepMissesNothing ==
  ASSUME ScanMissesNothing, NEW t \in Tenants, Moves(t), AnyStep(t), NEW i \in vacant'[t]
  PROVE  Ahead(t, i)'
<1> USE BlocksDiffer
<1>1. TypeOK /\ TableStep(t)
  BY StepTable DEF ScanMissesNothing
<1>2. CASE StartStep(t)
  <2>1. i \in Indices /\ Vacant(i) /\ Vacant(i)'
    BY <1>1, <1>2 DEF StartStep, TypeOK, Vacant, Free
  <2>2. QED
    BY <1>2, <2>1 DEF StartStep, Ahead, Indices
<1>3. ASSUME Watch PROVE i \in vacant[t] /\ i \in Indices /\ Ahead(t, i)
  BY <1>1, <1>3 DEF Watch, TypeOK, ScanMissesNothing
<1>4. ASSUME TouchesOnly(PodCIDR(index[t])) \/ TouchesOnly(SvcCIDR(index[t])), Watch,
             index[t] \in Indices, i # index[t], Vacant(i)
      PROVE  Vacant(i)'
  BY <1>3, <1>4 DEF TouchesOnly, Vacant, Free
<1>5. ASSUME Skip(t), pc[t] \notin {"none", "exhausted"}
      PROVE  \/ pc'[t] = "pod" /\ index'[t] = index[t] + 1
             \/ pc'[t] = "exhausted" /\ index[t] + 1 \notin Indices
  <2>1. index[t] \in Indices /\ index[t] + 1 \in 1 .. maxTenants + 1
    BY <1>1, <1>5, OwnBlocks, MaxTenantsIsPositive DEF Indices
  <2>2. QED
    BY <1>1, <1>5, <2>1, ScanMoves DEF Skip
<1>6. ASSUME Skip(t), pc[t] \notin {"none", "exhausted"}, Watch, i > index[t], Vacant(i)'
      PROVE  Ahead(t, i)'
  <2>1. index[t] \in Indices /\ i \in Indices
    BY <1>1, <1>3, <1>6, OwnBlocks
  <2>2. pc'[t] = "pod" /\ index'[t] = index[t] + 1
    BY <1>5, <1>6, <2>1, MaxTenantsIsPositive DEF Indices
  <2>3. QED
    BY <1>6, <2>1, <2>2 DEF Ahead, Indices, Vacant
<1>7. CASE PodStep(t)
  <2>1. /\ Ahead(t, i) /\ i \in Indices /\ index[t] \in Indices /\ i >= index[t] /\ Vacant(i)
        /\ TouchesOnly(PodCIDR(index[t])) /\ pc[t] = "pod" /\ Watch
    BY <1>1, <1>3, <1>7, OwnBlocks DEF PodStep, Ahead, TableStep, BlockOf, Releasing
  <2>2. CASE pc'[t] = "error"
    BY <2>2 DEF Ahead
  <2>3. CASE Skip(t) /\ ~Free(PodCIDR(index[t]))
    <3>1. i # index[t] /\ i > index[t]
      BY <2>1, <2>3 DEF Vacant, Indices
    <3>2. QED
      BY <1>4, <1>6, <2>1, <2>3, <3>1
  <2>4. CASE pc'[t] = "svc" /\ index' = index
    <3>1. Free(SvcCIDR(i))'
      BY <2>1 DEF TouchesOnly, Vacant, Free
    <3>2. i > index[t] => Vacant(i)'
      BY <1>4, <2>1 DEF Indices
    <3>3. QED
      BY <2>1, <2>4, <3>1, <3>2 DEF Ahead
  <2>5. QED
    BY <1>7, <2>2, <2>3, <2>4 DEF PodStep
<1>8. CASE SvcStep(t)
  <2>1. /\ Ahead(t, i) /\ i \in Indices /\ index[t] \in Indices /\ i >= index[t] /\ Free(SvcCIDR(i))
        /\ i > index[t] => Vacant(i)
        /\ TouchesOnly(SvcCIDR(index[t])) /\ pc[t] = "svc" /\ Watch /\ index' = index
    BY <1>1, <1>3, <1>8, OwnBlocks DEF SvcStep, Ahead, TableStep, BlockOf
  <2>2. CASE pc'[t] \in {"undoAndFail", "held"}
    BY <2>1, <2>2 DEF Ahead
  <2>3. CASE pc'[t] = "undoAndContinue" /\ ~Free(SvcCIDR(index[t]))
    <3>1. i # index[t] /\ i > index[t]
      BY <2>1, <2>3 DEF Indices
    <3>2. Vacant(i)'
      BY <1>4, <2>1, <3>1
    <3>3. QED
      BY <2>1, <2>3, <3>1, <3>2 DEF Ahead
  <2>4. QED
    BY <1>8, <2>2, <2>3 DEF SvcStep
<1>9. CASE UndoStep(t)
  <2>1. CASE pc[t] = "undoAndContinue" /\ Skip(t)
    <3>1. /\ Ahead(t, i) /\ i \in Indices /\ index[t] \in Indices /\ i >= index[t] /\ i # index[t]
          /\ TouchesOnly(PodCIDR(index[t])) /\ Watch
      BY <1>1, <1>3, <1>9, <2>1, OwnBlocks DEF UndoStep, Ahead, TableStep, BlockOf, Releasing
    <3>2. i > index[t] /\ Vacant(i)
      BY <2>1, <3>1 DEF Ahead, Indices
    <3>3. QED
      BY <1>4, <1>6, <2>1, <3>1, <3>2
  <2>2. CASE pc'[t] = "error"
    BY <2>2 DEF Ahead
  <2>3. QED
    BY <1>9, <2>1, <2>2 DEF UndoStep
<1>10. CASE pc'[t] \in Releasing \cup {"released", "releaseFailed"}
  BY <1>10 DEF Ahead, Releasing
<1>11. QED
  BY <1>2, <1>7, <1>8, <1>9, <1>10 DEF AnyStep

\* The allocator is first-fit for any number of tenants and blocks: no race makes a
\* scan pass over an index that was free all along, nor report exhaustion then.
THEOREM FirstFitHolds == Spec => []FirstFit
<1>1. Init => ScanMissesNothing
  BY InitTyped DEF Init, ScanMissesNothing
<1>2. ScanMissesNothing /\ [Next]_vars => ScanMissesNothing'
  <2> SUFFICES ASSUME ScanMissesNothing, [Next]_vars PROVE ScanMissesNothing'
    OBVIOUS
  <2>1. TypeOK'
    BY StepTyped DEF ScanMissesNothing
  <2>2. CASE UNCHANGED vars
    BY <2>1, <2>2 DEF vars, ScanMissesNothing, Ahead, Vacant, Free
  <2>3. CASE Next
    <3>1. PICK t \in Tenants : AllocateCIDRs(t) \/ ReleasePod(t) \/ Step(t)
      BY <2>3 DEF Next
    <3>2. Moves(t) /\ AnyStep(t)
      BY <3>1, StepForm DEF ScanMissesNothing
    <3>3. QED
      BY <2>1, <3>2, OthersMissNothing, OwnStepMissesNothing DEF ScanMissesNothing
  <2>4. QED
    BY <2>2, <2>3
<1>3. ScanMissesNothing => FirstFit
  BY DEF ScanMissesNothing, FirstFit, Ahead, TypeOK
<1>4. QED
  BY <1>1, <1>2, <1>3, PTL DEF Spec
=============================================================================
