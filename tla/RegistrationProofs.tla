------------------------- MODULE RegistrationProofs -------------------------
(***************************************************************************)
(* Theorems about Registration for every set of calls, slugs and e-mail    *)
(* addresses, and whatever statements fail and processes die.              *)
(***************************************************************************)
EXTENDS Registration, TLAPS

\* A statement's outcome is one of three.
LEMMA OutcomesType == Outcomes \subseteq {"ok", "lost", "unknown"}
BY FaultsAreOutcomes DEF Outcomes

\* A call that is or has been waiting for its tenant row, or has its tenant: the
\* reservation of its slug is its own.
Holds(c) == pc[c] \in {"tenant", "undoSlug"} \/ c \in created

\* The reservation of a slug is held by one call at most.
HoldersReserve == \A c \in Calls : Holds(c) => form[c].slug \in tenantSlugs
HoldersDiffer  == \A c, d \in Calls : Holds(c) /\ Holds(d) /\ form[c].slug = form[d].slug => c = d

\* A call goes through Register's steps in order, each on the success of the last.
TenantFirst == \A c \in created : pc[c] \notin {"idle", "email", "slug", "tenant", "undoSlug"}
UserNext    == \A c \in Calls : pc[c] \in {"hash", "user", "key", "registered"} => c \in created
KeyNext     == \A c \in Calls : pc[c] \in {"key", "registered"} => c \in users
KeyLast     == \A c \in Calls : pc[c] = "registered" => c \in keys

\* The inductive invariant.  SlugsAreUnique is not inductive without the calls
\* between their reservation and their row, nor without the calls that give their
\* slug back.
IInv ==
  /\ TypeOK
  /\ HoldersReserve /\ HoldersDiffer
  /\ TenantFirst /\ UserNext /\ KeyNext /\ KeyLast

\* The initial state satisfies the invariant.
LEMMA InitInv == Init => IInv
BY DEF Init, IInv, TypeOK, HoldersReserve, HoldersDiffer, Holds, TenantFirst, UserNext, KeyNext,
       KeyLast, Steps, Answers

\* What a step of a call leaves alone: the locations and forms of the others.
LEMMA OthersStay ==
  ASSUME NEW c \in Calls, NEW loc, TypeOK, Goto(c, loc)
  PROVE  /\ pc'[c] = loc
         /\ \A d \in Calls \ {c} : pc'[d] = pc[d]
BY DEF TypeOK, Goto

\* Every step keeps the state typed, action by action.
LEMMA StepTyped ==
  ASSUME TypeOK, [Next]_vars
  PROVE  TypeOK'
<1> USE OutcomesType DEF TypeOK, Steps, Answers, Goto
<1>1. ASSUME NEW c \in Calls, NEW f \in Forms, Arrive(c, f) PROVE TypeOK'
  BY <1>1 DEF Arrive
<1>2. ASSUME NEW c \in Calls, CheckEmail(c) PROVE TypeOK'
  BY <1>2 DEF CheckEmail, Continue
<1>3. ASSUME NEW c \in Calls, ReserveSlug(c) PROVE TypeOK'
  <2>1. form[c].slug \in Slugs
    BY <1>3 DEF ReserveSlug, Forms
  <2>2. QED
    BY <1>3, <2>1 DEF ReserveSlug, Continue, Insert
<1>4. ASSUME NEW c \in Calls, InsertTenant(c) PROVE TypeOK'
  BY <1>4 DEF InsertTenant, Insert, Applied
<1>5. ASSUME NEW c \in Calls, UndoSlug(c) PROVE TypeOK'
  BY <1>5 DEF UndoSlug
<1>6. ASSUME NEW c \in Calls, HashPassword(c) PROVE TypeOK'
  BY <1>6 DEF HashPassword
<1>7. ASSUME NEW c \in Calls, CreateUser(c) PROVE TypeOK'
  BY <1>7 DEF CreateUser, Continue, Insert
<1>8. ASSUME NEW c \in Calls, IssueInitialKey(c) PROVE TypeOK'
  BY <1>8 DEF IssueInitialKey, Continue, Insert
<1>9. ASSUME NEW c \in Calls, UsersByEmailCatchesUp(c) PROVE TypeOK'
  BY <1>9 DEF UsersByEmailCatchesUp
<1>10. ASSUME NEW c \in Calls, Crash(c) PROVE TypeOK'
  BY <1>10 DEF Crash
<1>11. ASSUME UNCHANGED vars PROVE TypeOK'
  BY <1>11 DEF vars
<1>12. QED
  BY <1>1, <1>2, <1>3, <1>4, <1>5, <1>6, <1>7, <1>8, <1>9, <1>10, <1>11 DEF Next, Step

\* A step that neither touches a reservation nor makes a holder keeps the
\* reservations apart.
LEMMA QuietKeepsSlugs ==
  ASSUME HoldersReserve, HoldersDiffer, tenantSlugs' = tenantSlugs,
         \A c \in Calls : Holds(c)' => Holds(c) /\ form'[c] = form[c]
  PROVE  HoldersReserve' /\ HoldersDiffer'
BY DEF HoldersReserve, HoldersDiffer

\* Reservations stay apart: the LWT admits one, and who gives one back has it.
LEMMA StepKeepsSlugs ==
  ASSUME IInv, [Next]_vars
  PROVE  HoldersReserve' /\ HoldersDiffer'
<1> USE DEF IInv
<1>1. ASSUME NEW c \in Calls, ReserveSlug(c) PROVE HoldersReserve' /\ HoldersDiffer'
  <2>1. PICK out \in Outcomes :
          /\ Continue(c, out, IF SlugFree(form[c].slug) THEN "tenant" ELSE "slugTaken")
          /\ tenantSlugs' = Insert(tenantSlugs, form[c].slug, out)
    BY <1>1 DEF ReserveSlug
  <2>2. /\ form' = form /\ created' = created /\ pc[c] = "slug"
        /\ \A d \in Calls \ {c} : pc'[d] = pc[d]
        /\ pc'[c] = IF out # "ok" THEN "failed"
                    ELSE IF SlugFree(form[c].slug) THEN "tenant" ELSE "slugTaken"
    BY <1>1, <2>1 DEF ReserveSlug, Continue, Goto, TypeOK
  <2>3. tenantSlugs \subseteq tenantSlugs' /\ (out = "ok" => form[c].slug \in tenantSlugs')
    BY <2>1 DEF Insert, Applied
  <2>4. \A d \in Calls \ {c} : Holds(d)' <=> Holds(d)
    BY <2>2 DEF Holds
  <2>5. Holds(c)' => out = "ok" /\ form[c].slug \notin tenantSlugs
    BY <2>2 DEF Holds, TenantFirst, SlugFree
  <2>6. QED
    BY <2>2, <2>3, <2>4, <2>5 DEF HoldersReserve, HoldersDiffer
<1>2. ASSUME NEW c \in Calls, InsertTenant(c) PROVE HoldersReserve' /\ HoldersDiffer'
  <2>1. /\ tenantSlugs' = tenantSlugs /\ form' = form /\ Holds(c)
        /\ created' \subseteq created \cup {c}
        /\ \A d \in Calls \ {c} : pc'[d] = pc[d]
    BY <1>2 DEF InsertTenant, Holds, Goto, TypeOK
  <2>2. \A d \in Calls : Holds(d)' => Holds(d)
    BY <2>1 DEF Holds
  <2>3. QED
    BY <2>1, <2>2, QuietKeepsSlugs
<1>3. ASSUME NEW c \in Calls, UndoSlug(c) PROVE HoldersReserve' /\ HoldersDiffer'
  <2>1. /\ form' = form /\ created' = created /\ Holds(c) /\ c \notin created
        /\ \A d \in Calls \ {c} : pc'[d] = pc[d]
        /\ pc'[c] = "failed"
        /\ \A s \in tenantSlugs : s # form[c].slug => s \in tenantSlugs'
    BY <1>3 DEF UndoSlug, Goto, TypeOK, Holds, TenantFirst
  <2>2. \A d \in Calls : Holds(d)' => d # c /\ Holds(d)
    BY <2>1 DEF Holds
  <2>3. QED
    BY <2>1, <2>2 DEF HoldersReserve, HoldersDiffer
<1>4. ASSUME NEW c \in Calls, NEW f \in Forms, Arrive(c, f) PROVE HoldersReserve' /\ HoldersDiffer'
  <2>1. /\ tenantSlugs' = tenantSlugs /\ created' = created
        /\ pc[c] = "idle" /\ pc'[c] = "email"
        /\ \A d \in Calls \ {c} : pc'[d] = pc[d] /\ form'[d] = form[d]
    BY <1>4 DEF Arrive, Goto, TypeOK
  <2>2. \A d \in Calls : Holds(d)' => Holds(d) /\ form'[d] = form[d]
    BY <2>1 DEF Holds, TenantFirst
  <2>3. QED
    BY <2>1, <2>2, QuietKeepsSlugs
<1>5. ASSUME NEW c \in Calls,
             CheckEmail(c) \/ HashPassword(c) \/ CreateUser(c) \/ IssueInitialKey(c) \/ Crash(c)
      PROVE  HoldersReserve' /\ HoldersDiffer'
  <2>1. /\ tenantSlugs' = tenantSlugs /\ created' = created /\ form' = form
        /\ pc'[c] \notin {"tenant", "undoSlug"}
        /\ \A d \in Calls \ {c} : pc'[d] = pc[d]
    BY <1>5, OutcomesType
       DEF CheckEmail, HashPassword, CreateUser, IssueInitialKey, Crash, Continue, Goto, TypeOK
  <2>2. \A d \in Calls : Holds(d)' => Holds(d)
    BY <2>1 DEF Holds
  <2>3. QED
    BY <2>1, <2>2, QuietKeepsSlugs
<1>6. ASSUME NEW c \in Calls, UsersByEmailCatchesUp(c) PROVE HoldersReserve' /\ HoldersDiffer'
  BY <1>6, QuietKeepsSlugs DEF UsersByEmailCatchesUp, Holds
<1>7. ASSUME UNCHANGED vars PROVE HoldersReserve' /\ HoldersDiffer'
  BY <1>7, QuietKeepsSlugs DEF vars, Holds
<1>8. QED
  BY <1>1, <1>2, <1>3, <1>4, <1>5, <1>6, <1>7 DEF Next, Step

\* Rows are never removed, and a step is reached on the success of the last.
LEMMA StepInOrder ==
  ASSUME IInv, [Next]_vars
  PROVE  TenantFirst' /\ UserNext' /\ KeyNext' /\ KeyLast'
<1> DEFINE Order == TenantFirst' /\ UserNext' /\ KeyNext' /\ KeyLast'
<1> USE OutcomesType DEF IInv, TypeOK, TenantFirst, UserNext, KeyNext, KeyLast, Goto
<1>1. ASSUME NEW c \in Calls, NEW f \in Forms, Arrive(c, f) PROVE Order
  BY <1>1 DEF Arrive
<1>2. ASSUME NEW c \in Calls, CheckEmail(c) PROVE Order
  BY <1>2 DEF CheckEmail, Continue
<1>3. ASSUME NEW c \in Calls, ReserveSlug(c) PROVE Order
  BY <1>3 DEF ReserveSlug, Continue
<1>4. ASSUME NEW c \in Calls, InsertTenant(c) PROVE Order
  BY <1>4 DEF InsertTenant
<1>5. ASSUME NEW c \in Calls, UndoSlug(c) PROVE Order
  BY <1>5 DEF UndoSlug
<1>6. ASSUME NEW c \in Calls, HashPassword(c) PROVE Order
  BY <1>6 DEF HashPassword
<1>7. ASSUME NEW c \in Calls, CreateUser(c) PROVE Order
  BY <1>7 DEF CreateUser, Continue, Insert, Applied
<1>8. ASSUME NEW c \in Calls, IssueInitialKey(c) PROVE Order
  BY <1>8 DEF IssueInitialKey, Continue, Insert, Applied
<1>9. ASSUME NEW c \in Calls, UsersByEmailCatchesUp(c) PROVE Order
  BY <1>9 DEF UsersByEmailCatchesUp
<1>10. ASSUME NEW c \in Calls, Crash(c) PROVE Order
  BY <1>10 DEF Crash
<1>11. ASSUME UNCHANGED vars PROVE Order
  BY <1>11 DEF vars
<1>12. QED
  BY <1>1, <1>2, <1>3, <1>4, <1>5, <1>6, <1>7, <1>8, <1>9, <1>10, <1>11 DEF Next, Step

\* The invariant is one.
LEMMA Inductive == Spec => []IInv
<1>1. IInv /\ [Next]_vars => IInv'
  <2> SUFFICES ASSUME IInv, [Next]_vars PROVE IInv'
    OBVIOUS
  <2>1. TypeOK'
    BY StepTyped DEF IInv
  <2>2. QED
    BY <2>1, StepKeepsSlugs, StepInOrder DEF IInv
<1>2. QED
  BY InitInv, <1>1, PTL DEF Spec

\* Every state of Register is well-typed: rows belong to calls that arrived, and
\* the view shows only rows of its base table.
THEOREM TypeCorrect == Spec => []TypeOK
<1>1. IInv => TypeOK
  BY DEF IInv
<1>2. QED
  BY <1>1, Inductive, PTL

\* TenantStore.Create never returns a tenant to two calls with one slug, whatever
\* reservations are lost, applied in silence, given back or left by a crash.
THEOREM SlugsUnique == Spec => []SlugsAreUnique
<1>1. IInv => SlugsAreUnique
  BY DEF IInv, TypeOK, HoldersDiffer, Holds, SlugsAreUnique
<1>2. QED
  BY <1>1, Inductive, PTL

\* A 201 of Register means that slug, tenant, user and initial key are all there.
THEOREM RegisteredComplete == Spec => []RegisteredIsComplete
<1>1. IInv => RegisteredIsComplete
  BY DEF IInv, TypeOK, HoldersReserve, Holds, UserNext, KeyNext, KeyLast, RegisteredIsComplete
<1>2. QED
  BY <1>1, Inductive, PTL

-----------------------------------------------------------------------------
\* OwnerOf is a choice; where no two of the calls agree it is a function.
LEMMA TheOwner ==
  ASSUME NEW C, NEW f, NEW s, \A c, d \in C : f[c].slug = f[d].slug => c = d
  PROVE  LET o == IF \E c \in C : f[c].slug = s THEN CHOOSE c \in C : f[c].slug = s ELSE NoCall
         IN /\ \A c \in C : f[c].slug = s => o = c
            /\ (\A c \in C : f[c].slug # s) => o = NoCall
            /\ o \in C \cup {NoCall}
OBVIOUS

\* The owner of a slug is the call that Create returned a tenant to.
LEMMA OwnerIsCreated ==
  ASSUME TypeOK, SlugsAreUnique, NEW s
  PROVE  /\ \A c \in created : form[c].slug = s => OwnerOf(s) = c
         /\ (\A c \in created : form[c].slug # s) => OwnerOf(s) = NoCall
         /\ OwnerOf(s) \in created \cup {NoCall}
BY TheOwner DEF OwnerOf, SlugsAreUnique

\* So it is in the next state.
LEMMA OwnerIsCreatedNext ==
  ASSUME TypeOK', SlugsAreUnique', NEW s
  PROVE  /\ \A c \in created' : form'[c].slug = s => OwnerOf(s)' = c
         /\ (\A c \in created' : form'[c].slug # s) => OwnerOf(s)' = NoCall
         /\ OwnerOf(s)' \in created' \cup {NoCall}
BY TheOwner DEF OwnerOf, SlugsAreUnique

Owners     == [s \in Slugs |-> OwnerOf(s)]
Registered == {c \in Calls : pc[c] = "registered"}

\* Where created and its forms stay the same, so do the owners.
LEMMA OwnersStay ==
  ASSUME TypeOK, TypeOK', SlugsAreUnique, SlugsAreUnique', created' = created,
         \A c \in created : form'[c] = form[c]
  PROVE  Owners' = Owners
<1>1. ASSUME NEW s \in Slugs PROVE OwnerOf(s)' = OwnerOf(s)
  <2>1. CASE \E c \in created : form[c].slug = s
    BY <2>1, OwnerIsCreated, OwnerIsCreatedNext
  <2>2. CASE \A c \in created : form[c].slug # s
    BY <2>2, OwnerIsCreated, OwnerIsCreatedNext
  <2>3. QED
    BY <2>1, <2>2
<1>2. QED
  BY <1>1 DEF Owners

\* Create returning a tenant grants the slug, which nobody had.
LEMMA CreateGrants ==
  ASSUME IInv, IInv', NEW c \in Calls, InsertTenant(c), c \in created'
  PROVE  Directory!Grant(form[c].slug, c) /\ form[c].slug \in Slugs
<1>1. SlugsAreUnique /\ SlugsAreUnique' /\ TypeOK /\ TypeOK'
  BY DEF IInv, TypeOK, HoldersDiffer, Holds, SlugsAreUnique
<1>2. pc[c] = "tenant" /\ form' = form /\ c \notin created /\ created' = created \cup {c}
  BY DEF InsertTenant, IInv, TenantFirst
<1>3. form[c].slug \in Slugs
  BY <1>1, <1>2 DEF TypeOK, Forms
<1>4. \A d \in created : form[d].slug # form[c].slug
  BY <1>1, <1>2 DEF IInv, TypeOK, HoldersDiffer, Holds
<1>5. Owners[form[c].slug] = NoCall
  BY <1>1, <1>3, <1>4, OwnerIsCreated DEF Owners
<1>6. \A s \in Slugs : Owners[s] # c
  BY <1>1, <1>2, OwnerIsCreated, NoCallIsNoCall DEF Owners
<1>7. \A s \in Slugs : OwnerOf(s)' = IF s = form[c].slug THEN c ELSE OwnerOf(s)
  <2> TAKE s \in Slugs
  <2>1. CASE s = form[c].slug
    BY <1>1, <1>2, <2>1, OwnerIsCreatedNext
  <2>2. CASE s # form[c].slug /\ \E d \in created : form[d].slug = s
    BY <1>1, <1>2, <2>2, OwnerIsCreated, OwnerIsCreatedNext
  <2>3. CASE s # form[c].slug /\ \A d \in created : form[d].slug # s
    BY <1>1, <1>2, <2>3, OwnerIsCreated, OwnerIsCreatedNext
  <2>4. QED
    BY <2>1, <2>2, <2>3
<1>8. Owners' = [Owners EXCEPT ![form[c].slug] = c]
  BY <1>3, <1>7 DEF Owners
<1>9. Registered' = Registered
  BY <1>1, <1>2, OutcomesType DEF InsertTenant, Goto, TypeOK, Registered
<1>10. QED
  BY <1>3, <1>5, <1>6, <1>8, <1>9 DEF Directory!Grant, Owners, Registered

\* A 201 confirms it to the owner.
LEMMA AnswerConfirms ==
  ASSUME IInv, IInv', NEW c \in Calls, IssueInitialKey(c), pc'[c] = "registered"
  PROVE  Directory!Confirm(c)
<1>1. SlugsAreUnique /\ SlugsAreUnique' /\ TypeOK /\ TypeOK'
  BY DEF IInv, TypeOK, HoldersDiffer, Holds, SlugsAreUnique
<1>2. c \in created /\ form[c].slug \in Slugs /\ created' = created /\ form' = form
  BY <1>1 DEF IssueInitialKey, IInv, UserNext, TypeOK, Forms
<1>3. Owners[form[c].slug] = c
  BY <1>1, <1>2, OwnerIsCreated DEF Owners
<1>4. Owners' = Owners
  BY <1>1, <1>2, OwnersStay
<1>5. Registered' = Registered \cup {c}
  BY <1>1 DEF IssueInitialKey, Continue, Goto, TypeOK, Registered
<1>6. QED
  BY <1>2, <1>3, <1>4, <1>5 DEF Directory!Confirm, Owners, Registered

\* Every other step is a stutter of the directory.
LEMMA OtherStepsStutter ==
  ASSUME IInv, IInv', [Next]_vars, created' = created, Registered' = Registered
  PROVE  UNCHANGED Directory!vars
<1>1. SlugsAreUnique /\ SlugsAreUnique' /\ TypeOK /\ TypeOK'
  BY DEF IInv, TypeOK, HoldersDiffer, Holds, SlugsAreUnique
<1>2. \A c \in created : form'[c] = form[c]
  <2>1. CASE form' = form
    BY <2>1
  <2>2. CASE \E c \in Calls, f \in Forms : Arrive(c, f)
    BY <1>1, <2>2 DEF Arrive, IInv, TenantFirst, TypeOK
  <2>3. QED
    BY <2>1, <2>2 DEF Next, vars, Step, CheckEmail, ReserveSlug, InsertTenant, UndoSlug,
       HashPassword, CreateUser, IssueInitialKey, UsersByEmailCatchesUp, Crash
<1>3. Owners' = Owners
  BY <1>1, <1>2, OwnersStay
<1>4. QED
  BY <1>3 DEF Directory!vars, Owners, Registered

\* Registration implements AccountDirectory: a slug gets its owner when Create
\* returns, for good, and only its owner is told that it registered.
THEOREM DirectoryImplemented == Spec => ImplementsDirectory
<1>1. Init => Directory!Init
  BY DEF Init, Directory!Init, OwnerOf
<1>2. IInv /\ IInv' /\ [Next]_vars => [Directory!Next]_(Directory!vars)
  <2> SUFFICES ASSUME IInv, IInv', [Next]_vars PROVE [Directory!Next]_(Directory!vars)
    OBVIOUS
  <2>1. CASE \E c \in Calls : InsertTenant(c) /\ c \in created'
    BY <2>1, CreateGrants DEF Directory!Next
  <2>2. CASE \E c \in Calls : IssueInitialKey(c) /\ pc'[c] = "registered"
    BY <2>2, AnswerConfirms DEF Directory!Next
  <2>3. CASE created' = created /\ Registered' = Registered
    BY <2>3, OtherStepsStutter
  <2>4. ASSUME NEW c \in Calls, InsertTenant(c), c \notin created' PROVE created' = created /\ Registered' = Registered
    BY <2>4 DEF InsertTenant, Registered, Goto, IInv, TypeOK
  <2>5. ASSUME NEW c \in Calls, IssueInitialKey(c), pc'[c] # "registered"
        PROVE  created' = created /\ Registered' = Registered
    BY <2>5 DEF IssueInitialKey, Registered, Continue, Goto, IInv, TypeOK
  <2>6. ASSUME NEW c \in Calls, NEW loc, Goto(c, loc), pc[c] # "registered", loc # "registered"
        PROVE  Registered' = Registered
    BY <2>6 DEF Registered, Goto, IInv, TypeOK
  <2>7. ASSUME NEW c \in Calls, \/ \E f \in Forms : Arrive(c, f)
                                \/ CheckEmail(c) \/ ReserveSlug(c) \/ UndoSlug(c)
                                \/ HashPassword(c) \/ CreateUser(c) \/ Crash(c)
        PROVE  created' = created /\ Registered' = Registered
    BY <2>6, <2>7 DEF Arrive, CheckEmail, ReserveSlug, UndoSlug, HashPassword, CreateUser, Crash,
       Continue, Steps
  <2>8. ASSUME NEW c \in Calls, UsersByEmailCatchesUp(c)
        PROVE  created' = created /\ Registered' = Registered
    BY <2>8 DEF UsersByEmailCatchesUp, Registered
  <2>9. CASE UNCHANGED vars
    BY <2>3, <2>9 DEF vars, Registered
  <2>10. QED
    BY <2>1, <2>2, <2>3, <2>4, <2>5, <2>7, <2>8, <2>9 DEF Next, Step
<1>3. QED
  BY <1>1, <1>2, Inductive, PTL DEF Spec, ImplementsDirectory, Directory!Spec
=============================================================================
