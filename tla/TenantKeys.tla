----------------------------- MODULE TenantKeys -----------------------------
(***************************************************************************)
(* The life of an API key: IssueKey and RevokeKey of the accounts service, *)
(* GenerateAPIKey of the provisioner package, and cf.api_keys under        *)
(* APIKeyStore.                                                            *)
(*                                                                         *)
(* A call c is one request, on any replica, or the key step of Register or *)
(* of a provisioning workflow.  The key_id and the random key it mints are *)
(* fresh, so both, and the key's row, are named c.  Every statement is one *)
(* step; it may be lost, or applied although its caller sees an error.  A  *)
(* call whose process dies takes no further step.                          *)
(***************************************************************************)
EXTENDS Naturals, Sequences

CONSTANTS
  Calls,      \* requests, and the keys they mint
  Tenants,    \* slugs that name a tenant once it is registered
  NoKey,      \* a key_id that no row has
  NoTenant,   \* the tenant of a request that has not arrived
  Faults,     \* {} or {"lost", "unknown"}
  MaxWrites   \* bound: how often a tenant's status is written

ASSUME NoKeyIsNoCall      == NoKey \notin Calls
ASSUME NoTenantIsNoTenant == NoTenant \notin Tenants
ASSUME FaultsAreOutcomes  == Faults \subseteq {"lost", "unknown"}
ASSUME MaxWritesIsNat     == MaxWrites \in Nat

VARIABLES
  written,  \* cf.tenants: the statuses written to each tenant's row, in order
  shown,    \* cf.tenants_by_slug: how many of them the view has seen
  rows,     \* cf.api_keys: the status of each key, "none" without a row
  calls,    \* per call: its operation, arguments, and where it is or its answer
  confirmed \* history: keys whose revocation was confirmed to a caller

vars == <<written, shown, rows, calls, confirmed>>

-----------------------------------------------------------------------------
Statuses  == {"PROVISIONING", "ACTIVE", "DELETED"}
KeyStatus == {"ACTIVE", "REVOKED"}  \* ROTATING is declared and never written

Ops     == {"none", "IssueKey", "GenerateAPIKey", "RevokeKey", "RevokeByHash"}
Steps   == {"tenant", "store", "find", "update"}
Answers == {"issued", "revoked", "notFound", "notActive", "failed"}

CallSet == [op : Ops, tenant : Tenants \cup {NoTenant}, key : Calls \cup {NoKey},
            pc : {"idle"} \cup Steps \cup Answers]

TypeOK ==
  /\ written \in [Tenants -> Seq(Statuses)]
  /\ shown   \in [Tenants -> Nat]
  /\ rows    \in [Calls -> {"none"} \cup KeyStatus]
  /\ calls   \in [Calls -> CallSet]
  /\ confirmed \subseteq Calls
  /\ \A t \in Tenants : shown[t] <= Len(written[t])
  /\ \A c \in Calls : calls[c].tenant = NoTenant <=> calls[c].pc = "idle"

Init ==
  /\ written = [t \in Tenants |-> <<>>]
  /\ shown   = [t \in Tenants |-> 0]
  /\ rows    = [c \in Calls |-> "none"]
  /\ calls   = [c \in Calls |-> [op |-> "none", tenant |-> NoTenant, key |-> NoKey, pc |-> "idle"]]
  /\ confirmed = {}

-----------------------------------------------------------------------------
\* The tenant's row.  Register creates it; workflows write ACTIVE and DELETED,
\* and may overlap.
WriteStatus(t, s) ==
  /\ Len(written[t]) < MaxWrites
  /\ written[t] = <<>> <=> s = "PROVISIONING"
  /\ written' = [written EXCEPT ![t] = Append(@, s)]
  /\ UNCHANGED <<shown, rows, calls, confirmed>>

\* The materialized view follows its table, some time later.
ViewCatchesUp(t) ==
  /\ shown[t] < Len(written[t])
  /\ shown' = [shown EXCEPT ![t] = @ + 1]
  /\ UNCHANGED <<written, rows, calls, confirmed>>

\* TenantStore.GetBySlug: the row of the view, if there is one.
GetBySlug(t) == IF shown[t] = 0 THEN "none" ELSE written[t][shown[t]]

-----------------------------------------------------------------------------
At(c, p) == calls[c].pc = p

Goto(c, p) ==
  /\ calls' = [calls EXCEPT ![c].pc = p]
  /\ UNCHANGED <<written, shown>>

Issued(k) == k \in Calls /\ At(k, "issued")

\* A request arrives.  Whoever revokes names a key that was handed out, or an
\* id of no key; RevokeByHash is for callers who hold the hash.
Arrive(c, op, t, k) ==
  /\ At(c, "idle")
  /\ op \in {"IssueKey", "GenerateAPIKey"} => k = NoKey
  /\ k # NoKey => Issued(k)
  /\ op = "RevokeByHash" => k # NoKey
  /\ op = "GenerateAPIKey" => written[t] # <<>>
  /\ calls' = [calls EXCEPT ![c] = [op |-> op, tenant |-> t, key |-> k,
       pc |-> CASE op \in {"IssueKey", "RevokeKey"} -> "tenant"
                [] op = "GenerateAPIKey"            -> "store"
                [] op = "RevokeByHash"              -> "update"]]
  /\ UNCHANGED <<written, shown, rows, confirmed>>

\* A read that fails.
ReadFails(c) ==
  /\ Faults # {}
  /\ At(c, "tenant") \/ At(c, "find")
  /\ Goto(c, "failed")
  /\ UNCHANGED <<rows, confirmed>>

\* (Mutant) A status check that only looks for a deleted tenant.
IssueUnlessDeleted(c) ==
  /\ calls[c].op = "IssueKey" /\ At(c, "tenant")
  /\ Goto(c, CASE GetBySlug(calls[c].tenant) = "none"    -> "notFound"
               [] GetBySlug(calls[c].tenant) # "DELETED" -> "store"
               [] OTHER                                  -> "notActive")
  /\ UNCHANGED <<rows, confirmed>>

\* IssueKey: only for a tenant that the view shows ACTIVE.
CheckTenantActive(c) ==
  /\ calls[c].op = "IssueKey" /\ At(c, "tenant")
  /\ Goto(c, CASE GetBySlug(calls[c].tenant) = "none"   -> "notFound"
               [] GetBySlug(calls[c].tenant) = "ACTIVE" -> "store"
               [] OTHER                                 -> "notActive")
  /\ UNCHANGED <<rows, confirmed>>

\* (Mutant) A store whose error is not looked at: the key is returned all the same.
StoreUnchecked(c) ==
  /\ At(c, "store")
  /\ \E out \in {"ok"} \cup Faults :
       /\ rows' = IF out = "lost" THEN rows ELSE [rows EXCEPT ![c] = "ACTIVE"]
       /\ Goto(c, "issued")
  /\ UNCHANGED confirmed

\* (Mutant) A record whose Status was left at its zero value.
StoreWithoutStatus(c) ==
  /\ At(c, "store")
  /\ rows' = [rows EXCEPT ![c] = ""]
  /\ Goto(c, "issued")
  /\ UNCHANGED confirmed

\* GenerateAPIKey: INSERT ... IF NOT EXISTS of the fresh hash.  Not applied counts
\* as success, and the raw key is returned unless the statement reports an error.
StoreKey(c) ==
  /\ At(c, "store")
  /\ \E out \in {"ok"} \cup Faults :
       /\ rows' = IF out = "lost" \/ rows[c] # "none" THEN rows ELSE [rows EXCEPT ![c] = "ACTIVE"]
       /\ Goto(c, IF out = "ok" THEN "issued" ELSE "failed")
  /\ UNCHANGED confirmed

\* RevokeKey: the tenant must exist; nothing asks whose key it is.
CheckTenantExists(c) ==
  /\ calls[c].op = "RevokeKey" /\ At(c, "tenant")
  /\ Goto(c, IF GetBySlug(calls[c].tenant) = "none" THEN "notFound" ELSE "find")
  /\ UNCHANGED <<rows, confirmed>>

HasRow(k) == k \in Calls /\ rows[k] # "none"

Confirm(c) == confirmed' = confirmed \cup ({calls[c].key} \ {NoKey})

\* revokeWhere's SELECT by key_id: no row counts as revoked.
FindHash(c) ==
  /\ At(c, "find")
  /\ IF HasRow(calls[c].key) THEN Goto(c, "update") /\ UNCHANGED confirmed
                             ELSE Goto(c, "revoked") /\ Confirm(c)
  /\ UNCHANGED rows

\* (Mutant) An UPDATE whose error is not looked at.
UpdateUnchecked(c) ==
  /\ At(c, "update")
  /\ \E out \in {"ok"} \cup Faults :
       /\ rows' = IF out = "lost" THEN rows ELSE [rows EXCEPT ![calls[c].key] = "REVOKED"]
       /\ Goto(c, "revoked") /\ Confirm(c)

\* (Mutant) A revocation that deletes the row instead of marking it.
RevokeByDelete(c) ==
  /\ At(c, "update")
  /\ \E out \in {"ok"} \cup Faults :
       /\ rows' = IF out = "lost" THEN rows ELSE [rows EXCEPT ![calls[c].key] = "none"]
       /\ IF out = "ok" THEN Goto(c, "revoked") /\ Confirm(c)
                        ELSE Goto(c, "failed") /\ UNCHANGED confirmed

\* The UPDATE by key_hash of revokeWhere and RevokeByHash.
MarkRevoked(c) ==
  /\ At(c, "update")
  /\ \E out \in {"ok"} \cup Faults :
       /\ rows' = IF out = "lost" THEN rows ELSE [rows EXCEPT ![calls[c].key] = "REVOKED"]
       /\ IF out = "ok" THEN Goto(c, "revoked") /\ Confirm(c)
                        ELSE Goto(c, "failed") /\ UNCHANGED confirmed

Next ==
  \/ \E t \in Tenants : ViewCatchesUp(t) \/ \E s \in Statuses : WriteStatus(t, s)
  \/ \E c \in Calls :
       \/ \E op \in Ops \ {"none"}, t \in Tenants, k \in Calls \cup {NoKey} : Arrive(c, op, t, k)
       \/ ReadFails(c) \/ CheckTenantActive(c) \/ StoreKey(c)
       \/ CheckTenantExists(c) \/ FindHash(c) \/ MarkRevoked(c)

Spec == Init /\ [][Next]_vars

-----------------------------------------------------------------------------
\* APIKeyStore.Lookup of the raw key's hash, as CF-Router reads its answer.
Lookup(k)        == IF HasRow(k) THEN rows[k] ELSE "ErrAPIKeyNotFound"
Authenticates(k) == Lookup(k) = "ACTIVE"

\* A call that has asked, or will have asked, the store to revoke k.
Revoking(k) ==
  \E c \in Calls : calls[c].key = k /\ calls[c].op \in {"RevokeKey", "RevokeByHash"}

\* The raw key is returned once and cannot be fetched again: whoever was given one
\* holds a key that authenticates until somebody asks for its revocation, whatever
\* the statement that stored it met.
IssuedKeysWork == \A k \in Calls : Issued(k) /\ ~Revoking(k) => Authenticates(k)

\* A confirmed revocation is final: no lookup finds the key usable any more, nor
\* do later calls, retries or statements that were still on their way.
RevokedKeysAreDead == \A k \in confirmed : ~Authenticates(k)

\* A key that came through IssueKey belongs to a tenant that had become ACTIVE,
\* however late the view that IssueKey reads follows the table.
KeysFollowActivation ==
  \A k \in Calls : Issued(k) /\ calls[k].op = "IssueKey" =>
    \E i \in 1..Len(written[calls[k].tenant]) : written[calls[k].tenant][i] = "ACTIVE"

\* The key store implements the abstract ledger.
Ledger == INSTANCE KeyLedger WITH
  Keys      <- Calls,
  live      <- {k \in Calls : rows[k] = "ACTIVE"},
  dead      <- {k \in Calls : rows[k] = "REVOKED"},
  handedOut <- {k \in Calls : At(k, "issued")},
  confirmed <- confirmed

ImplementsKeyLedger == Ledger!Spec
=============================================================================
