---------------------------- MODULE Registration ----------------------------
(***************************************************************************)
(* POST /register: Register of services/accounts/service/service.go over   *)
(* TenantStore.Create, UserStore.Create and the initial API key.           *)
(*                                                                         *)
(* A call c is one request, on any replica.  The tenant_id, the user_id    *)
(* and the key it mints are fresh UUIDs, so all three are named c.  Every  *)
(* database statement is one step, which may be lost or may be applied     *)
(* although its caller sees an error.                                      *)
(***************************************************************************)
CONSTANTS
  Calls,   \* register requests
  Slugs,   \* requested tenant slugs
  Emails,  \* requested e-mail addresses
  NoForm,  \* a request that has not arrived
  NoCall,  \* a slug without an owner
  Faults,  \* {} or {"lost", "unknown"}
  Crashes  \* whether the process may die between two steps

ASSUME NoFormIsNoForm    == NoForm \notin [slug : Slugs, email : Emails]
ASSUME NoCallIsNoCall    == NoCall \notin Calls
ASSUME FaultsAreOutcomes == Faults \subseteq {"lost", "unknown"}
ASSUME CrashesIsBoolean  == Crashes \in BOOLEAN

VARIABLES
  pc,           \* where call c is, or how it was answered
  form,         \* the slug and the e-mail address it asks for
  tenantSlugs,  \* cf.tenant_slugs: the reserved slugs
  tenants,      \* cf.tenants: calls whose tenant row exists
  users,        \* cf.users: calls whose user row exists
  usersByEmail, \* the rows its materialized view already shows
  keys,         \* cf.api_keys: calls whose initial key is stored
  created       \* history: calls whose TenantStore.Create returned a tenant

vars == <<pc, form, tenantSlugs, tenants, users, usersByEmail, keys, created>>

-----------------------------------------------------------------------------
Steps   == {"email", "slug", "tenant", "undoSlug", "hash", "user", "key"}
Answers == {"registered", "slugTaken", "emailTaken", "failed"}
Forms   == [slug : Slugs, email : Emails]

TypeOK ==
  /\ pc           \in [Calls -> {"idle", "crashed"} \cup Steps \cup Answers]
  /\ form         \in [Calls -> Forms \cup {NoForm}]
  /\ tenantSlugs  \subseteq Slugs
  /\ tenants      \subseteq Calls
  /\ users        \subseteq Calls
  /\ usersByEmail \subseteq users
  /\ keys         \subseteq Calls
  /\ created      \subseteq tenants
  /\ \A c \in Calls : pc[c] # "idle" => form[c] \in Forms

Init ==
  /\ pc   = [c \in Calls |-> "idle"]
  /\ form = [c \in Calls |-> NoForm]
  /\ tenantSlugs = {} /\ tenants = {} /\ users = {} /\ usersByEmail = {} /\ keys = {}
  /\ created = {}

-----------------------------------------------------------------------------
Outcomes     == {"ok"} \cup Faults
Applied(out) == out \in {"ok", "unknown"}

Goto(c, loc) == pc' = [pc EXCEPT ![c] = loc]

\* (Mutant) An error that is logged and then ignored.
ContinueAnyway(c, out, next) == Goto(c, next)

\* After a statement: on to `next` when it returned nil, 500 otherwise.
Continue(c, out, next) == Goto(c, IF out = "ok" THEN next ELSE "failed")

\* (Mutant) A statement that is built and never executed.
InsertNothing(table, c, out) == table

\* An INSERT IF NOT EXISTS of a row with a key of its own.
Insert(table, c, out) == IF Applied(out) THEN table \cup {c} ELSE table

Arrive(c, f) ==
  /\ pc[c] = "idle"
  /\ form' = [form EXCEPT ![c] = f]
  /\ Goto(c, "email")
  /\ UNCHANGED <<tenantSlugs, tenants, users, usersByEmail, keys, created>>

\* Step 1: GetByEmail, on the materialized view.
EmailKnown(c) == \E u \in usersByEmail : form[u].email = form[c].email

CheckEmail(c) ==
  /\ pc[c] = "email"
  /\ \E out \in Outcomes : Continue(c, out, IF EmailKnown(c) THEN "emailTaken" ELSE "slug")
  /\ UNCHANGED <<form, tenantSlugs, tenants, users, usersByEmail, keys, created>>

\* (Mutant) The reservation without IF NOT EXISTS.
SlugAlwaysFree(s) == TRUE

\* Step 2, TenantStore.Create phase 1: INSERT INTO tenant_slugs IF NOT EXISTS.
SlugFree(s) == s \notin tenantSlugs

ReserveSlug(c) ==
  /\ pc[c] = "slug"
  /\ \E out \in Outcomes :
       /\ Continue(c, out, IF SlugFree(form[c].slug) THEN "tenant" ELSE "slugTaken")
       /\ tenantSlugs' = Insert(tenantSlugs, form[c].slug, out)
  /\ UNCHANGED <<form, tenants, users, usersByEmail, keys, created>>

\* Phase 2: the tenant row, whose UUID does not collide.  On an error the slug
\* is given back before Create returns.
InsertTenant(c) ==
  /\ pc[c] = "tenant"
  /\ \E out \in Outcomes :
       /\ Goto(c, IF out = "ok" THEN "hash" ELSE "undoSlug")
       /\ tenants' = Insert(tenants, c, out)
       /\ created' = IF out = "ok" THEN created \cup {c} ELSE created
  /\ UNCHANGED <<form, tenantSlugs, users, usersByEmail, keys>>

\* The best-effort DELETE of the reservation; its error is ignored.
UndoSlug(c) ==
  /\ pc[c] = "undoSlug"
  /\ \E out \in Outcomes :
       tenantSlugs' = IF Applied(out) THEN tenantSlugs \ {form[c].slug} ELSE tenantSlugs
  /\ Goto(c, "failed")
  /\ UNCHANGED <<form, tenants, users, usersByEmail, keys, created>>

\* (Mutant) A failed hash that gives the slug back and leaves the tenant.
HashPasswordOrUndo(c) ==
  /\ pc[c] = "hash"
  /\ Goto(c, "user") \/ Goto(c, "undoSlug")
  /\ UNCHANGED <<form, tenantSlugs, tenants, users, usersByEmail, keys, created>>

\* Step 3: bcrypt, which rejects a password of more than 72 bytes.
HashPassword(c) ==
  /\ pc[c] = "hash"
  /\ Goto(c, "user") \/ Goto(c, "failed")
  /\ UNCHANGED <<form, tenantSlugs, tenants, users, usersByEmail, keys, created>>

\* Step 4: UserStore.Create, an LWT on the fresh user_id.
CreateUser(c) ==
  /\ pc[c] = "user"
  /\ \E out \in Outcomes : Continue(c, out, "key") /\ users' = Insert(users, c, out)
  /\ UNCHANGED <<form, tenantSlugs, tenants, usersByEmail, keys, created>>

\* Step 5: GenerateAPIKey.
IssueInitialKey(c) ==
  /\ pc[c] = "key"
  /\ \E out \in Outcomes : Continue(c, out, "registered") /\ keys' = Insert(keys, c, out)
  /\ UNCHANGED <<form, tenantSlugs, tenants, users, usersByEmail, created>>

\* The view users_by_email catches up with its base table.
UsersByEmailCatchesUp(c) ==
  /\ c \in users \ usersByEmail
  /\ usersByEmail' = usersByEmail \cup {c}
  /\ UNCHANGED <<pc, form, tenantSlugs, tenants, users, keys, created>>

Crash(c) ==
  /\ Crashes /\ pc[c] \in Steps
  /\ Goto(c, "crashed")
  /\ UNCHANGED <<form, tenantSlugs, tenants, users, usersByEmail, keys, created>>

-----------------------------------------------------------------------------
Step(c) ==
  \/ CheckEmail(c) \/ ReserveSlug(c) \/ InsertTenant(c) \/ UndoSlug(c)
  \/ HashPassword(c) \/ CreateUser(c) \/ IssueInitialKey(c)

Next == \E c \in Calls :
  (\E f \in Forms : Arrive(c, f)) \/ Step(c) \/ UsersByEmailCatchesUp(c) \/ Crash(c)

Spec == Init /\ [][Next]_vars

-----------------------------------------------------------------------------
\* Create "prevents duplicate slugs under concurrent load": of all the calls it
\* returned a tenant to, no two have the same slug, whatever reservations were
\* lost, undone or left behind by the others.
SlugsAreUnique ==
  \A c, d \in created : form[c].slug = form[d].slug => c = d

\* A 201 means the whole account is there: the slug is still reserved, and the
\* tenant, its user and its initial key exist.
RegisteredIsComplete ==
  \A c \in Calls : pc[c] = "registered" =>
    /\ form[c].slug \in tenantSlugs
    /\ c \in tenants \cap users \cap keys

OwnerOf(s) ==
  IF \E c \in created : form[c].slug = s THEN CHOOSE c \in created : form[c].slug = s ELSE NoCall

Directory == INSTANCE AccountDirectory WITH
  Names     <- Slugs,
  Clients   <- Calls,
  Nobody    <- NoCall,
  owner     <- [s \in Slugs |-> OwnerOf(s)],
  confirmed <- {c \in Calls : pc[c] = "registered"}

\* Registration implements the directory: a slug is granted when Create returns,
\* for good, and nobody but its owner is answered 201.
ImplementsDirectory == Directory!Spec

\* "Email uniqueness: enforced by LWT (IF NOT EXISTS) on the base table": no two
\* users have one address.
EmailsAreUnique ==
  \A c, d \in users : form[c].email = form[d].email => c = d
=============================================================================
