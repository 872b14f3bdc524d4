-------------------------- MODULE TenantKeysProofs --------------------------
(***************************************************************************)
(* Theorems about TenantKeys for every set of calls and tenants, however   *)
(* late the view is and whatever statements fail.                          *)
(***************************************************************************)
EXTENDS TenantKeys, TLAPS

Minting   == {"IssueKey", "GenerateAPIKey"}
Revocation == {"RevokeKey", "RevokeByHash"}

\* The locations of a call are those of its operation.
CallsFit == \A c \in Calls :
  /\ calls[c].pc \in {"store", "issued"} => calls[c].op \in Minting
  /\ calls[c].pc \in {"find", "update", "revoked"} => calls[c].op \in Revocation
  /\ calls[c].pc = "update" => calls[c].key \in Calls

\* A key_id that somebody names is of no key or of one that was handed out.
NamesHandedOut == \A c \in Calls : calls[c].key # NoKey => Issued(calls[c].key)

\* A call that has not arrived names none.
IdleHasNoKey == \A c \in Calls : calls[c].pc = "idle" => calls[c].key = NoKey

\* A key has no row before its insert, and has one once it is handed out.
NoRowBeforeStore == \A c \in Calls : calls[c].pc \in {"idle", "tenant", "store"} => rows[c] = "none"
IssuedHasRow     == \A c \in Calls : calls[c].pc = "issued" => rows[c] # "none"

\* Only a revocation revokes, and a confirmed one has.
RevokedOnRequest == \A k \in Calls : rows[k] = "REVOKED" => Revoking(k)
ConfirmedRevoked == \A k \in confirmed : rows[k] = "REVOKED"

\* An IssueKey past its check has seen its tenant ACTIVE.
WasActive(t) == \E i \in 1 .. Len(written[t]) : written[t][i] = "ACTIVE"
StoresForActive == \A c \in Calls :
  calls[c].op = "IssueKey" /\ calls[c].pc \in {"store", "issued"} => WasActive(calls[c].tenant)

\* The inductive invariant: what links a key's row to the calls that mint it, that
\* hold it and that revoke it.
IInv ==
  /\ TypeOK
  /\ CallsFit /\ NamesHandedOut /\ IdleHasNoKey
  /\ NoRowBeforeStore /\ IssuedHasRow
  /\ RevokedOnRequest /\ ConfirmedRevoked
  /\ StoresForActive

\* The initial state satisfies the invariant.
LEMMA InitInv == Init => IInv
<1> SUFFICES ASSUME Init PROVE IInv
  OBVIOUS
<1>1. \A c \in Calls : calls[c].op = "none" /\ calls[c].pc = "idle" /\ calls[c].key = NoKey
  BY DEF Init
<1>2. TypeOK
  BY DEF Init, TypeOK, CallSet, Ops, Steps, Answers, KeyStatus
<1>3. QED
  BY <1>1, <1>2 DEF Init, IInv, CallsFit, NamesHandedOut, IdleHasNoKey, NoRowBeforeStore, IssuedHasRow,
     RevokedOnRequest, ConfirmedRevoked, StoresForActive

\* A call moving on keeps its operation and its arguments; the others stay.
LEMMA GotoEffect ==
  ASSUME TypeOK, NEW c \in Calls, calls[c].pc # "idle", NEW p \in Steps \cup Answers, Goto(c, p)
  PROVE  /\ calls' \in [Calls -> CallSet]
         /\ calls'[c].pc = p
         /\ calls'[c].op = calls[c].op /\ calls'[c].tenant = calls[c].tenant
         /\ calls'[c].key = calls[c].key
         /\ \A d \in Calls \ {c} : calls'[d] = calls[d]
         /\ \A d \in Calls : calls'[d].tenant = NoTenant <=> calls'[d].pc = "idle"
         /\ written' = written /\ shown' = shown
<1>1. calls' = [calls EXCEPT ![c].pc = p] /\ calls[c] \in CallSet
  BY DEF Goto, TypeOK
<1>2. calls'[c] = [calls[c] EXCEPT !.pc = p] /\ \A d \in Calls \ {c} : calls'[d] = calls[d]
  BY <1>1 DEF TypeOK
<1>3. calls'[c] \in CallSet /\ calls'[c].pc = p /\ calls'[c].op = calls[c].op
      /\ calls'[c].tenant = calls[c].tenant /\ calls'[c].key = calls[c].key
  BY <1>1, <1>2 DEF CallSet
<1>4. calls' \in [Calls -> CallSet]
  BY <1>1, <1>2, <1>3 DEF TypeOK
<1>5. p # "idle"
  BY DEF Steps, Answers
<1>6. QED
  BY <1>2, <1>3, <1>4, <1>5 DEF TypeOK, Goto

\* A step of a call that is under way, named by where it goes and what it does to
\* the key store.
Moving(c, p) ==
  /\ calls[c].pc # "idle" /\ p \in Steps \cup Answers /\ Goto(c, p)

Mints(c, p) ==
  /\ calls[c].pc = "store" /\ Moving(c, p) /\ p \in {"issued", "failed"}
  /\ \/ rows' = [rows EXCEPT ![c] = "ACTIVE"]
     \/ rows' = rows /\ p = "failed"
  /\ confirmed' = confirmed

Revokes(c, p) ==
  /\ calls[c].pc = "update" /\ Moving(c, p) /\ p \in {"revoked", "failed"}
  /\ \/ rows' = [rows EXCEPT ![calls[c].key] = "REVOKED"] /\ confirmed' = confirmed \cup {calls[c].key}
     \/ rows' = [rows EXCEPT ![calls[c].key] = "REVOKED"] /\ confirmed' = confirmed
     \/ rows' = rows /\ confirmed' = confirmed

Looks(c, p) ==
  /\ calls[c].pc \in {"tenant", "find"} /\ Moving(c, p) /\ rows' = rows /\ confirmed' = confirmed
  /\ \/ p \in {"notFound", "notActive", "failed"}
     \/ p = "store" /\ calls[c].op = "IssueKey" /\ GetBySlug(calls[c].tenant) = "ACTIVE"
                    /\ calls[c].pc = "tenant"
     \/ p = "find" /\ calls[c].op = "RevokeKey"
     \/ p = "update" /\ calls[c].op \in Revocation /\ calls[c].key \in Calls
     \/ p = "revoked" /\ calls[c].op \in Revocation

\* Each step of Next in these terms.
LEMMA StepForm ==
  ASSUME IInv, NEW c \in Calls,
         \/ ReadFails(c) \/ CheckTenantActive(c) \/ StoreKey(c)
         \/ CheckTenantExists(c) \/ FindHash(c) \/ MarkRevoked(c)
  PROVE  \E p \in Steps \cup Answers : Mints(c, p) \/ Revokes(c, p) \/ Looks(c, p)
<1> USE DEF Moving, At, Steps, Answers
<1>1. CASE ReadFails(c)
  BY <1>1 DEF ReadFails, Looks
<1>2. CASE CheckTenantActive(c)
  BY <1>2 DEF CheckTenantActive, Looks
<1>3. CASE StoreKey(c)
  <2>1. PICK out \in {"ok"} \cup Faults :
          /\ rows' = IF out = "lost" \/ rows[c] # "none" THEN rows ELSE [rows EXCEPT ![c] = "ACTIVE"]
          /\ Goto(c, IF out = "ok" THEN "issued" ELSE "failed")
    BY <1>3 DEF StoreKey
  <2>2. rows[c] = "none" /\ calls[c].pc = "store" /\ confirmed' = confirmed
    BY <1>3 DEF StoreKey, IInv, NoRowBeforeStore
  <2>3. QED
    BY <2>1, <2>2 DEF Mints
<1>4. CASE CheckTenantExists(c)
  BY <1>4 DEF CheckTenantExists, Looks
<1>5. CASE FindHash(c)
  <2>1. calls[c].pc = "find" /\ calls[c].op \in Revocation /\ rows' = rows
    BY <1>5 DEF FindHash, IInv, CallsFit
  <2>2. CASE HasRow(calls[c].key)
    BY <1>5, <2>1, <2>2 DEF FindHash, Looks, HasRow
  <2>3. CASE ~HasRow(calls[c].key)
    <3>1. calls[c].key = NoKey
      BY <2>3 DEF HasRow, IInv, NamesHandedOut, IssuedHasRow, Issued
    <3>2. Goto(c, "revoked") /\ confirmed' = confirmed
      BY <1>5, <2>3, <3>1 DEF FindHash, Confirm
    <3>3. QED
      BY <2>1, <3>2 DEF Looks
  <2>4. QED
    BY <2>2, <2>3
<1>6. CASE MarkRevoked(c)
  <2>1. calls[c].pc = "update" /\ calls[c].key \in Calls
    BY <1>6 DEF MarkRevoked, IInv, CallsFit
  <2>2. \A k \in Calls : k # NoKey
    BY NoKeyIsNoCall
  <2>3. QED
    BY <1>6, <2>1, <2>2 DEF MarkRevoked, Confirm, Revokes
<1>7. QED
  BY <1>1, <1>2, <1>3, <1>4, <1>5, <1>6

\* What a tenant had become, it has.
LEMMA WrittenGrows ==
  ASSUME TypeOK, NEW t \in Tenants, NEW s \in Statuses, WriteStatus(t, s)
  PROVE  /\ written' \in [Tenants -> Seq(Statuses)]
         /\ \A u \in Tenants : Len(written[u]) <= Len(written'[u])
         /\ \A u \in Tenants : WasActive(u) => WasActive(u)'
<1>1. written' = [written EXCEPT ![t] = Append(written[t], s)] /\ written[t] \in Seq(Statuses)
  BY DEF WriteStatus, TypeOK
<1>2. \A u \in Tenants \ {t} : written'[u] = written[u]
  BY <1>1 DEF TypeOK
<1>3. written'[t] = Append(written[t], s)
  BY <1>1 DEF TypeOK
<1>4. Len(written'[t]) = Len(written[t]) + 1 /\ \A i \in 1 .. Len(written[t]) : written'[t][i] = written[t][i]
  BY <1>1, <1>3
<1>5. WasActive(t) => WasActive(t)'
  BY <1>1, <1>4 DEF WasActive
<1>6. QED
  BY <1>1, <1>2, <1>3, <1>4, <1>5 DEF TypeOK, WasActive

\* The tenant's row and its view change; calls and keys do not.
LEMMA TenantStepInv ==
  ASSUME IInv, NEW t \in Tenants, ViewCatchesUp(t) \/ \E s \in Statuses : WriteStatus(t, s)
  PROVE  IInv'
<1>1. UNCHANGED <<rows, calls, confirmed>>
  BY DEF ViewCatchesUp, WriteStatus
<1>2. TypeOK
  BY DEF IInv
<1>3. TypeOK' /\ \A u \in Tenants : WasActive(u) => WasActive(u)'
  <2>1. CASE ViewCatchesUp(t)
    BY <1>2, <2>1 DEF ViewCatchesUp, TypeOK, WasActive
  <2>2. ASSUME NEW s \in Statuses, WriteStatus(t, s)
        PROVE  TypeOK' /\ \A u \in Tenants : WasActive(u) => WasActive(u)'
    <3>1. \A u \in Tenants : shown'[u] <= Len(written'[u])
      BY <1>2, <2>2, WrittenGrows DEF TypeOK, WriteStatus
    <3>2. QED
      BY <1>2, <2>2, <3>1, WrittenGrows DEF TypeOK, WriteStatus
  <2>3. QED
    BY <2>1, <2>2
<1>4. \A c \in Calls : calls[c].pc # "idle" => calls[c].tenant \in Tenants
  BY <1>2 DEF TypeOK, CallSet
<1>5. StoresForActive'
  BY <1>1, <1>3, <1>4 DEF IInv, StoresForActive
<1>6. QED
  BY <1>1, <1>3, <1>5
     DEF IInv, CallsFit, NamesHandedOut, NoRowBeforeStore, IssuedHasRow, RevokedOnRequest,
         ConfirmedRevoked, IdleHasNoKey, Issued, At, Revoking

\* A request arrives with arguments that its operation takes.
LEMMA ArriveInv ==
  ASSUME IInv, NEW c \in Calls, NEW op \in Ops \ {"none"}, NEW t \in Tenants,
         NEW k \in Calls \cup {NoKey}, Arrive(c, op, t, k)
  PROVE  IInv'
<1>1. TypeOK /\ calls[c].pc = "idle" /\ UNCHANGED <<written, shown, rows, confirmed>>
  BY DEF IInv, Arrive, At
<1>2. PICK p \in {"tenant", "store", "update"} :
        /\ calls' = [calls EXCEPT ![c] = [op |-> op, tenant |-> t, key |-> k, pc |-> p]]
        /\ p = "store" => op = "GenerateAPIKey"
        /\ p = "update" => op = "RevokeByHash"
  BY DEF Arrive, Ops
<1>3. [op |-> op, tenant |-> t, key |-> k, pc |-> p] \in CallSet
  BY DEF CallSet, Steps
<1>4. /\ calls' \in [Calls -> CallSet]
      /\ calls'[c] = [op |-> op, tenant |-> t, key |-> k, pc |-> p]
      /\ \A d \in Calls \ {c} : calls'[d] = calls[d]
  BY <1>1, <1>2, <1>3 DEF TypeOK
<1>5. TypeOK'
  <2>1. \A d \in Calls : calls'[d].tenant = NoTenant <=> calls'[d].pc = "idle"
    <3>1. calls'[c].tenant = t /\ calls'[c].pc = p /\ t # NoTenant /\ p # "idle"
      BY <1>4, NoTenantIsNoTenant
    <3>2. QED
      BY <1>1, <1>4, <3>1 DEF TypeOK
  <2>2. QED
    BY <1>1, <1>4, <2>1 DEF TypeOK
<1>6. k # NoKey => Issued(k)
  BY DEF Arrive
<1>7. \A d \in Calls : Issued(d) => Issued(d)'
  BY <1>1, <1>4 DEF Issued, At
<1>8. p = "update" => k \in Calls
  BY <1>2 DEF Arrive
<1>9. CallsFit'
  BY <1>2, <1>4, <1>8 DEF IInv, CallsFit, Minting, Revocation
<1>10. NamesHandedOut' /\ IdleHasNoKey'
  <2>1. calls'[c].key = k /\ calls'[c].pc # "idle"
    BY <1>4
  <2>2. \A j \in Calls : calls[j].pc = "issued" => calls'[j].pc = "issued"
    BY <1>1, <1>4
  <2>3. \A d \in Calls : calls'[d].key # NoKey =>
          calls'[d].key \in Calls /\ calls[calls'[d].key].pc = "issued"
    BY <1>4, <1>6, <2>1 DEF IInv, NamesHandedOut, Issued, At
  <2>4. \A d \in Calls : calls'[d].key # NoKey =>
          calls'[d].key \in Calls /\ calls'[calls'[d].key].pc = "issued"
    BY <2>2, <2>3
  <2>5. NamesHandedOut'
    BY <2>4 DEF NamesHandedOut, Issued, At
  <2>6. IdleHasNoKey'
    BY <1>4, <2>1 DEF IInv, IdleHasNoKey
  <2>7. QED
    BY <2>5, <2>6
<1>11. NoRowBeforeStore' /\ IssuedHasRow' /\ ConfirmedRevoked'
  BY <1>1, <1>4 DEF IInv, NoRowBeforeStore, IssuedHasRow, ConfirmedRevoked
<1>12. RevokedOnRequest'
  <2>1. ASSUME NEW j \in Calls, Revoking(j) PROVE Revoking(j)'
    <3>1. PICK d \in Calls : calls[d].key = j /\ calls[d].op \in {"RevokeKey", "RevokeByHash"}
      BY <2>1 DEF Revoking
    <3>2. d # c
      BY <1>1, <3>1, NoKeyIsNoCall DEF IInv, IdleHasNoKey
    <3>3. QED
      BY <1>4, <3>1, <3>2 DEF Revoking
  <2>2. QED
    BY <1>1, <2>1 DEF IInv, RevokedOnRequest
<1>13. StoresForActive'
  BY <1>1, <1>2, <1>4 DEF IInv, StoresForActive, WasActive
<1>14. QED
  BY <1>5, <1>9, <1>10, <1>11, <1>12, <1>13 DEF IInv

\* A call under way takes a step.
LEMMA CallStepInv ==
  ASSUME IInv, NEW c \in Calls, NEW p \in Steps \cup Answers,
         Mints(c, p) \/ Revokes(c, p) \/ Looks(c, p)
  PROVE  IInv'
<1>1. TypeOK /\ Moving(c, p)
  BY DEF IInv, Mints, Revokes, Looks
<1>2. /\ calls' \in [Calls -> CallSet]
      /\ calls[c].pc # "idle" /\ calls'[c].pc = p
      /\ calls'[c].op = calls[c].op /\ calls'[c].tenant = calls[c].tenant
      /\ calls'[c].key = calls[c].key
      /\ \A d \in Calls \ {c} : calls'[d] = calls[d]
      /\ \A d \in Calls : calls'[d].tenant = NoTenant <=> calls'[d].pc = "idle"
      /\ written' = written /\ shown' = shown
  BY <1>1, GotoEffect DEF Moving
<1>3. calls[c].pc # "issued"
  BY DEF Mints, Revokes, Looks
<1>4. \A d \in Calls : Issued(d) => Issued(d)'
  BY <1>2, <1>3 DEF Issued, At
<1>5. \A d \in Calls : Revoking(d) => Revoking(d)'
  <2>1. \A d \in Calls : calls'[d].key = calls[d].key /\ calls'[d].op = calls[d].op
    BY <1>2
  <2>2. QED
    BY <2>1 DEF Revoking
<1>6. rows' \in [Calls -> {"none"} \cup KeyStatus] /\ confirmed' \subseteq Calls
  <2>1. Revokes(c, p) => calls[c].key \in Calls
    BY DEF Revokes, IInv, CallsFit
  <2>2. QED
    BY <1>1, <2>1 DEF TypeOK, Mints, Revokes, Looks, KeyStatus
<1>7. TypeOK'
  BY <1>1, <1>2, <1>6 DEF TypeOK
<1>8. CallsFit'
  <2>1. /\ p \in {"store", "issued"} => calls[c].op \in Minting
        /\ p \in {"find", "update", "revoked"} => calls[c].op \in Revocation
        /\ p = "update" => calls[c].key \in Calls
    BY DEF IInv, CallsFit, Mints, Revokes, Looks, Minting, Revocation
  <2>2. QED
    BY <1>2, <2>1 DEF IInv, CallsFit
<1>9. NamesHandedOut' /\ IdleHasNoKey'
  <2>1. \A d \in Calls : calls'[d].key = calls[d].key
    BY <1>2
  <2>2. \A d \in Calls : calls[d].key # NoKey =>
          calls[d].key \in Calls /\ calls'[calls[d].key].pc = "issued"
    BY <1>2, <1>3 DEF IInv, NamesHandedOut, Issued, At
  <2>3. NamesHandedOut'
    BY <2>1, <2>2 DEF NamesHandedOut, Issued, At
  <2>4. p # "idle"
    BY DEF Steps, Answers
  <2>5. IdleHasNoKey'
    BY <1>2, <2>1, <2>4 DEF IInv, IdleHasNoKey
  <2>6. QED
    BY <2>3, <2>5
<1>10. \A d \in Calls : rows[d] # "none" => rows'[d] # "none"
  <2>1. Revokes(c, p) => calls[c].key \in Calls
    BY DEF Revokes, IInv, CallsFit
  <2>2. QED
    BY <1>1, <2>1 DEF TypeOK, Mints, Revokes, Looks
<1>11. NoRowBeforeStore'
  <2>1. ASSUME NEW d \in Calls, calls'[d].pc \in {"idle", "tenant", "store"} PROVE rows'[d] = "none"
    <3>1. calls[d].pc \in {"idle", "tenant", "store"} /\ ~(d = c /\ Mints(c, p))
      <4>1. CASE d = c
        BY <1>2, <2>1, <4>1 DEF Mints, Revokes, Looks
      <4>2. CASE d # c
        BY <1>2, <2>1, <4>2
      <4>3. QED
        BY <4>1, <4>2
    <3>2. rows[d] = "none"
      BY <3>1 DEF IInv, NoRowBeforeStore
    <3>3. Revokes(c, p) => calls[c].key # d
      <4>1. Revokes(c, p) => calls[c].key \in Calls /\ calls[c].key # NoKey
        BY NoKeyIsNoCall DEF Revokes, IInv, CallsFit
      <4>2. Revokes(c, p) => Issued(calls[c].key)
        BY <4>1 DEF IInv, NamesHandedOut
      <4>3. QED
        BY <3>1, <4>2 DEF Issued, At
    <3>4. QED
      BY <1>1, <3>1, <3>2, <3>3 DEF TypeOK, Mints, Revokes, Looks
  <2>2. QED
    BY <2>1 DEF NoRowBeforeStore
<1>12. IssuedHasRow'
  <2>1. p = "issued" => rows'[c] # "none"
    BY <1>1 DEF TypeOK, Mints, Revokes, Looks
  <2>2. QED
    BY <1>2, <1>10, <2>1 DEF IInv, IssuedHasRow
<1>13. RevokedOnRequest'
  <2>1. ASSUME NEW k \in Calls, rows'[k] = "REVOKED", rows[k] # "REVOKED" PROVE Revoking(k)
    <3>1. Revokes(c, p) /\ k = calls[c].key
      BY <1>1, <2>1 DEF TypeOK, Mints, Revokes, Looks
    <3>2. calls[c].op \in Revocation
      BY <3>1 DEF IInv, CallsFit, Revokes
    <3>3. QED
      BY <3>1, <3>2 DEF Revoking, Revocation
  <2>2. QED
    BY <1>5, <2>1 DEF IInv, RevokedOnRequest
<1>14. ConfirmedRevoked'
  <2>1. \A k \in Calls : rows[k] = "REVOKED" => rows'[k] = "REVOKED"
    <3>1. Mints(c, p) => rows[c] = "none"
      BY DEF Mints, IInv, NoRowBeforeStore
    <3>2. QED
      BY <1>1, <3>1 DEF TypeOK, Mints, Revokes, Looks
  <2>2. \A k \in confirmed' \ confirmed : rows'[k] = "REVOKED"
    <3>1. Revokes(c, p) => calls[c].key \in Calls
      BY DEF Revokes, IInv, CallsFit
    <3>2. QED
      BY <1>1, <3>1 DEF TypeOK, Mints, Revokes, Looks
  <2>3. QED
    BY <1>1, <2>1, <2>2 DEF IInv, ConfirmedRevoked, TypeOK
<1>15. StoresForActive'
  <2>1. \A t \in Tenants : WasActive(t)' <=> WasActive(t)
    BY <1>2 DEF WasActive
  <2>2. calls[c].tenant \in Tenants
    BY <1>1, <1>2 DEF TypeOK, CallSet
  <2>3. GetBySlug(calls[c].tenant) = "ACTIVE" => WasActive(calls[c].tenant)
    BY <1>1, <2>2 DEF TypeOK, GetBySlug, WasActive
  <2>4. calls[c].op = "IssueKey" /\ p \in {"store", "issued"} => WasActive(calls[c].tenant)
    BY <2>3 DEF Mints, Revokes, Looks, IInv, StoresForActive
  <2>5. \A d \in Calls : calls[d].pc # "idle" => calls[d].tenant \in Tenants
    BY <1>1 DEF TypeOK, CallSet
  <2>6. QED
    BY <1>2, <2>1, <2>2, <2>4, <2>5 DEF IInv, StoresForActive
<1>16. QED
  BY <1>7, <1>8, <1>9, <1>11, <1>12, <1>13, <1>14, <1>15 DEF IInv

\* The invariant is one.
LEMMA Inductive == Spec => []IInv
<1>1. IInv /\ [Next]_vars => IInv'
  <2> SUFFICES ASSUME IInv, [Next]_vars PROVE IInv'
    OBVIOUS
  <2>1. CASE UNCHANGED vars
    BY <2>1 DEF vars, IInv, TypeOK, CallsFit, NamesHandedOut, IdleHasNoKey, NoRowBeforeStore,
       IssuedHasRow, RevokedOnRequest, ConfirmedRevoked, StoresForActive, WasActive, Issued, At, Revoking
  <2>2. CASE Next
    BY <2>2, TenantStepInv, ArriveInv, CallStepInv, StepForm DEF Next
  <2>3. QED
    BY <2>1, <2>2
<1>2. QED
  BY InitInv, <1>1, PTL DEF Spec

\* Every state of the key store is well-typed, and the view is never ahead.
THEOREM TypeCorrect == Spec => []TypeOK
<1>1. IInv => TypeOK
  BY DEF IInv
<1>2. QED
  BY <1>1, Inductive, PTL

\* A key whose revocation was confirmed never authenticates again, whatever
\* statements of other calls were still on their way.
THEOREM RevokedAreDead == Spec => []RevokedKeysAreDead
<1>1. IInv => RevokedKeysAreDead
  BY DEF IInv, ConfirmedRevoked, RevokedKeysAreDead, Authenticates, Lookup
<1>2. QED
  BY <1>1, Inductive, PTL

\* A raw key that was returned authenticates until somebody revokes it: the caller
\* who got it once is never left with a key that was not stored.
THEOREM IssuedWork == Spec => []IssuedKeysWork
<1>1. IInv => IssuedKeysWork
  <2> SUFFICES ASSUME IInv, NEW k \in Calls, Issued(k), ~Revoking(k) PROVE Authenticates(k)
    BY DEF IssuedKeysWork
  <2>1. rows[k] = "ACTIVE"
    BY DEF IInv, TypeOK, KeyStatus, Issued, At, IssuedHasRow, RevokedOnRequest
  <2>2. QED
    BY <2>1 DEF Authenticates, Lookup, HasRow
<1>2. QED
  BY <1>1, Inductive, PTL

\* IssueKey hands out keys only of tenants that had become ACTIVE, by a view that
\* may lag and while workflows write the status.
THEOREM KeysOfActivated == Spec => []KeysFollowActivation
<1>1. IInv => KeysFollowActivation
  BY DEF IInv, StoresForActive, WasActive, KeysFollowActivation, Issued, At
<1>2. QED
  BY <1>1, Inductive, PTL

-----------------------------------------------------------------------------
\* A step of a call is one of the ledger, or a stutter.
LEMMA CallStepIsLedgerStep ==
  ASSUME IInv, IInv', NEW c \in Calls, NEW p \in Steps \cup Answers,
         Mints(c, p) \/ Revokes(c, p) \/ Looks(c, p)
  PROVE  [Ledger!Next]_(Ledger!vars)
<1> DEFINE Live == {k \in Calls : rows[k] = "ACTIVE"}
           Dead == {k \in Calls : rows[k] = "REVOKED"}
           Out  == {k \in Calls : At(k, "issued")}
<1>1. TypeOK /\ Moving(c, p)
  BY DEF IInv, Mints, Revokes, Looks
<1>2. calls[c].pc # "issued" /\ calls'[c].pc = p /\ \A d \in Calls \ {c} : calls'[d] = calls[d]
  BY <1>1, GotoEffect DEF Moving, Mints, Revokes, Looks
<1>3. Out' = IF p = "issued" THEN Out \cup {c} ELSE Out
  BY <1>2 DEF At
<1>4. CASE Mints(c, p) /\ rows' = [rows EXCEPT ![c] = "ACTIVE"]
  <2>1. rows[c] = "none"
    BY <1>4 DEF Mints, IInv, NoRowBeforeStore
  <2>2. c \notin Live \cup Dead /\ Live' = Live \cup {c} /\ Dead' = Dead
    BY <1>1, <1>4, <2>1 DEF TypeOK
  <2>3. Ledger!Mint(c)
    BY <1>3, <1>4, <2>2 DEF Ledger!Mint, Mints
  <2>4. QED
    BY <2>3 DEF Ledger!Next
<1>5. CASE Revokes(c, p) /\ rows' = [rows EXCEPT ![calls[c].key] = "REVOKED"]
  <2>1. PICK k \in Calls : k = calls[c].key
    BY <1>5 DEF Revokes, IInv, CallsFit
  <2>2. rows[k] # "none"
    BY <2>1, NoKeyIsNoCall DEF IInv, NamesHandedOut, IssuedHasRow, Issued, At
  <2>3. k \in Live \cup Dead
    BY <1>1, <2>2 DEF TypeOK, KeyStatus
  <2>4. Live' = Live \ {k} /\ Dead' = Dead \cup {k}
    BY <1>1, <1>5, <2>1 DEF TypeOK
  <2>5. Out' = Out /\ confirmed' \in {confirmed, confirmed \cup {k}}
    BY <1>3, <1>5, <2>1 DEF Revokes
  <2>6. Ledger!Kill(k)
    BY <2>3, <2>4, <2>5 DEF Ledger!Kill
  <2>7. QED
    BY <2>6 DEF Ledger!Next
<1>6. CASE rows' = rows /\ p # "issued"
  <2>1. Live' = Live /\ Dead' = Dead /\ Out' = Out
    BY <1>3, <1>6
  <2>2. CASE confirmed' = confirmed
    BY <2>1, <2>2 DEF Ledger!vars
  <2>3. CASE confirmed' # confirmed
    BY <1>5, <2>3 DEF Mints, Revokes, Looks
  <2>4. QED
    BY <2>2, <2>3
<1>7. QED
  BY <1>4, <1>5, <1>6 DEF Mints, Revokes, Looks

\* The key store implements KeyLedger: a key comes into being once and dies once,
\* and who is told of either can rely on it.
THEOREM LedgerImplemented == Spec => ImplementsKeyLedger
<1>1. Init => Ledger!Init
  BY DEF Init, Ledger!Init, At
<1>2. IInv /\ IInv' /\ [Next]_vars => [Ledger!Next]_(Ledger!vars)
  <2> SUFFICES ASSUME IInv, IInv', [Next]_vars PROVE [Ledger!Next]_(Ledger!vars)
    OBVIOUS
  <2>1. ASSUME UNCHANGED <<rows, confirmed>>, \A k \in Calls : At(k, "issued")' <=> At(k, "issued")
        PROVE  UNCHANGED Ledger!vars
    BY <2>1 DEF Ledger!vars
  <2>2. ASSUME NEW t \in Tenants, ViewCatchesUp(t) \/ \E s \in Statuses : WriteStatus(t, s)
        PROVE  UNCHANGED Ledger!vars
    BY <2>1, <2>2 DEF ViewCatchesUp, WriteStatus, At
  <2>3. ASSUME NEW c \in Calls, NEW op \in Ops \ {"none"}, NEW t \in Tenants,
               NEW k \in Calls \cup {NoKey}, Arrive(c, op, t, k)
        PROVE  UNCHANGED Ledger!vars
    <3>1. PICK q \in {"tenant", "store", "update"} :
            calls' = [calls EXCEPT ![c] = [op |-> op, tenant |-> t, key |-> k, pc |-> q]]
      BY <2>3 DEF Arrive, Ops
    <3>2. calls \in [Calls -> CallSet] /\ calls[c].pc = "idle"
      BY <2>3 DEF Arrive, At, IInv, TypeOK
    <3>3. \A j \in Calls : calls'[j].pc = "issued" <=> calls[j].pc = "issued"
      BY <3>1, <3>2
    <3>4. UNCHANGED <<rows, confirmed>>
      BY <2>3 DEF Arrive
    <3>5. \A j \in Calls : At(j, "issued")' <=> At(j, "issued")
      BY <3>3 DEF At
    <3>6. QED
      BY <2>1, <3>4, <3>5
  <2>4. CASE UNCHANGED vars
    BY <2>1, <2>4 DEF vars, At
  <2>5. CASE Next
    BY <2>2, <2>3, <2>5, StepForm, CallStepIsLedgerStep DEF Next
  <2>6. QED
    BY <2>4, <2>5
<1>3. QED
  BY <1>1, <1>2, Inductive, PTL DEF Spec, ImplementsKeyLedger, Ledger!Spec
=============================================================================
