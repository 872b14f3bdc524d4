------------------------- MODULE TenantClusterProofs -------------------------
(***************************************************************************)
(* Theorems about TenantCluster for any number of provisioning workflows   *)
(* and teardowns of one tenant, whatever their commands meet and whenever  *)
(* their contexts end: types, exact ingress and a kubeconfig that fits.    *)
(***************************************************************************)
EXTENDS TenantCluster, SequenceTheorems, TLAPS

\* A workflow that is about to store a kubeconfig has exported one.
HasExported == \A u \in Ups : pc[u] = "store" => kc[u] \in Ups

\* The steps of a workflow behind the application of each policy.
AfterAccess    == {"create", "wait", "pause", "export", "store", "done"}
AfterIsolation == AfterAccess \cup {"access"}

\* Until a teardown begins a workflow finds the policies it has applied, and a
\* vCluster has both.
PoliciesStay ==
  ~TeardownBegan =>
    /\ \A u \in Ups : /\ pc[u] \in AfterIsolation => "isolation" \in policies
                      /\ pc[u] \in AfterAccess    => "access" \in policies
    /\ owner # NoOne => policies = Policies

\* Until a teardown begins the vCluster a workflow has exported the kubeconfig of
\* is the one that is there.
ExportFits ==
  ~TeardownBegan => \A u \in Ups : pc[u] = "store" => owner # NoOne /\ kc[u] = owner

\* The inductive invariant.  IngressIsExact says nothing of the workflows, whose
\* next step may be the one that makes the vCluster; RetrieveFits says nothing of
\* a kubeconfig that was exported and not yet stored.
IInv == TypeOK /\ HasExported /\ PoliciesStay /\ ExportFits /\ RetrieveFits

-----------------------------------------------------------------------------
\* A command comes to one of three outcomes.
LEMMA OutcomesType ==
  ASSUME NEW a \in Actors
  PROVE  Outcomes(a) \subseteq {"ok", "lost", "unknown"}
BY FaultsAreOutcomes DEF Outcomes

\* The last of a sequence and one more element is that element.
LEMMA LastOfAppend ==
  ASSUME NEW S, NEW s \in Seq(S), NEW x \in S
  PROVE  Append(s, x) \in Seq(S) /\ Append(s, x) # <<>> /\ Last(Append(s, x)) = x
BY DEF Last

\* The initial state satisfies the invariant.
LEMMA InitInv == Init => IInv
<1> SUFFICES ASSUME Init PROVE IInv
  OBVIOUS
<1> USE DEF Init
<1>1. TypeOK
  <2>1. /\ pc \in [Actors -> {"idle", "done", "failed"} \cup UpSteps \cup DownSteps]
        /\ \A a \in Actors : pc[a] = "idle"
    OBVIOUS
  <2>2. \A a \in Actors : pc[a] \notin UpSteps \cup DownSteps
    BY <2>1 DEF UpSteps, DownSteps
  <2>3. namespace \in BOOLEAN /\ ready \in BOOLEAN
    OBVIOUS
  <2>4. QED
    BY <2>1, <2>2, <2>3 DEF TypeOK, Actors
<1>2. HasExported /\ ExportFits
  BY DEF HasExported, ExportFits, Actors
<1>3. PoliciesStay /\ RetrieveFits
  BY DEF PoliciesStay, RetrieveFits, AfterAccess, AfterIsolation, Actors
<1>4. QED
  BY <1>1, <1>2, <1>3 DEF IInv

\* Every step keeps the types; an exported kubeconfig is one of a vCluster.
LEMMA StepTyped ==
  ASSUME TypeOK, HasExported, [Next]_vars
  PROVE  TypeOK' /\ HasExported'
<1> USE DEF TypeOK, HasExported, Actors, host, Goto, Continue, UpSteps, DownSteps
<1>1. ASSUME NEW a \in Actors, Start(a)
      PROVE  TypeOK' /\ HasExported'
  BY <1>1, ActorsDiffer DEF Start
<1>2. ASSUME NEW a \in Actors, Expire(a)
      PROVE  TypeOK' /\ HasExported'
  BY <1>2 DEF Expire
<1>3. ASSUME NEW u \in Ups, CreateNamespace(u)
      PROVE  TypeOK' /\ HasExported'
  BY <1>3, ActorsDiffer DEF CreateNamespace
<1>4. ASSUME NEW u \in Ups, ApplyIsolationPolicies(u)
      PROVE  TypeOK' /\ HasExported'
  <2>1. PICK p \in Policies, next \in {"access", "create"} : ApplyPolicy(u, p, next)
    BY <1>4 DEF ApplyIsolationPolicies, Policies
  <2>2. PICK out \in IF namespace THEN Outcomes(u) ELSE {"lost"} :
          /\ policies' = IF HasEffect(out) THEN policies \cup {p} ELSE policies
          /\ pc' = [pc EXCEPT ![u] = IF out = "ok" THEN next ELSE "failed"]
    BY <2>1 DEF ApplyPolicy
  <2>3. policies' \subseteq Policies /\ (policies' # {} => namespace)
    BY <2>2 DEF HasEffect
  <2>4. QED
    BY <2>1, <2>2, <2>3, ActorsDiffer DEF ApplyPolicy
<1>5. ASSUME NEW u \in Ups, VClusterCreate(u)
      PROVE  TypeOK' /\ HasExported'
  <2>1. PICK p \in {"wait", "failed"} : pc' = [pc EXCEPT ![u] = p]
    BY <1>5 DEF VClusterCreate
  <2>2. \/ namespace' = TRUE /\ owner' = u /\ ready' = FALSE
        \/ namespace' = TRUE /\ UNCHANGED <<owner, ready>>
        \/ UNCHANGED <<namespace, owner, ready>>
    BY <1>5 DEF VClusterCreate
  <2>3. UNCHANGED <<policies, kv, kc, expired>>
    BY <1>5 DEF VClusterCreate
  <2>4. /\ pc' \in [Actors -> {"idle", "done", "failed"} \cup UpSteps \cup DownSteps]
        /\ \A v \in Ups : pc'[v] \notin DownSteps /\ (pc'[v] = "store" => pc[v] = "store")
        /\ \A d \in Downs : pc'[d] \notin UpSteps
    BY <2>1, ActorsDiffer
  <2>5. namespace' \in BOOLEAN /\ ready' \in BOOLEAN /\ owner' \in Ups \cup {NoOne}
    BY <2>2
  <2>6. (owner' # NoOne \/ policies' # {} => namespace') /\ (ready' => owner' # NoOne)
    BY <2>2, <2>3, ActorsDiffer
  <2>7. QED
    BY <2>3, <2>4, <2>5, <2>6
<1>6. ASSUME NEW u \in Ups, Poll(u) \/ Pause(u)
      PROVE  TypeOK' /\ HasExported'
  BY <1>6, ActorsDiffer DEF Poll, Pause
<1>7. ASSUME NEW u \in Ups, ExportKubeconfig(u)
      PROVE  TypeOK' /\ HasExported'
  BY <1>7, ActorsDiffer DEF ExportKubeconfig
<1>8. ASSUME NEW u \in Ups, Store(u)
      PROVE  TypeOK' /\ HasExported'
  BY <1>8, ActorsDiffer DEF Store
<1>9. ASSUME NEW u \in Ups, WaitTimer(u)
      PROVE  TypeOK' /\ HasExported'
  BY <1>9 DEF WaitTimer
<1>10. ASSUME NEW d \in Downs, Revoke(d)
      PROVE  TypeOK' /\ HasExported'
  BY <1>10, ActorsDiffer DEF Revoke
<1>11. ASSUME NEW d \in Downs, DeleteVCluster(d)
      PROVE  TypeOK' /\ HasExported'
  <2>1. PICK p \in {"done", "failed"} : pc' = [pc EXCEPT ![d] = p]
    BY <1>11 DEF DeleteVCluster
  <2>2. \/ owner' = NoOne /\ ready' = FALSE /\ namespace' = FALSE /\ policies' = {}
        \/ owner' = NoOne /\ ready' = FALSE /\ UNCHANGED <<namespace, policies>>
        \/ UNCHANGED host
    BY <1>11 DEF DeleteVCluster
  <2>3. UNCHANGED <<kv, kc, expired>>
    BY <1>11 DEF DeleteVCluster
  <2>4. /\ pc' \in [Actors -> {"idle", "done", "failed"} \cup UpSteps \cup DownSteps]
        /\ \A u \in Ups : pc'[u] = pc[u]
        /\ \A e \in Downs : pc'[e] \notin UpSteps
    BY <2>1, ActorsDiffer
  <2>5. /\ namespace' \in BOOLEAN /\ ready' \in BOOLEAN /\ owner' \in Ups \cup {NoOne}
        /\ policies' \subseteq Policies
    BY <2>2
  <2>6. (owner' # NoOne \/ policies' # {} => namespace') /\ (ready' => owner' # NoOne)
    BY <2>2
  <2>7. QED
    BY <2>3, <2>4, <2>5, <2>6
<1>12. CASE Rollout
  BY <1>12 DEF Rollout
<1>13. CASE UNCHANGED vars
  BY <1>13 DEF vars
<1>14. QED
  BY <1>1, <1>2, <1>3, <1>4, <1>5, <1>6, <1>7, <1>8, <1>9, <1>10, <1>11, <1>12, <1>13
     DEF Next, Up, Down

-----------------------------------------------------------------------------
\* A teardown that has begun has begun for good; without one every step that
\* matters is a workflow's.
LEMMA NoTeardown ==
  ASSUME TypeOK, [Next]_vars, ~TeardownBegan'
  PROVE  /\ ~TeardownBegan
         /\ \/ \E u \in Ups : Start(u) \/ Up(u)
            \/ UNCHANGED <<policies, owner, kv, pc, kc>>
<1> USE DEF Actors
<1>1. \A d \in Downs : pc'[d] = "idle"
  BY DEF TeardownBegan
<1>2. ASSUME NEW u \in Ups, Up(u), NEW d \in Downs
      PROVE  pc'[d] = pc[d]
  <2>1. \E p : pc' = [pc EXCEPT ![u] = p]
    BY <1>2 DEF Up, CreateNamespace, ApplyIsolationPolicies, ApplyPolicy, VClusterCreate, Poll, Pause,
       ExportKubeconfig, Store, Goto, Continue
  <2>2. QED
    BY <2>1, ActorsDiffer DEF TypeOK
<1>3. ASSUME NEW d \in Downs, Start(d) \/ Down(d)
      PROVE  FALSE
  <2>1. \E p \in {"revoke", "delete", "done", "failed"} : pc' = [pc EXCEPT ![d] = p]
    BY <1>3, ActorsDiffer DEF Start, Down, Revoke, DeleteVCluster, Goto, Continue
  <2>2. pc'[d] # "idle"
    BY <2>1 DEF TypeOK
  <2>3. QED
    BY <2>2, <1>1
<1>4. ASSUME NEW a \in Actors, Expire(a)
      PROVE  UNCHANGED <<policies, owner, kv, pc, kc>>
  BY <1>4 DEF Expire, host
<1>5. ASSUME NEW u \in Ups, WaitTimer(u)
      PROVE  UNCHANGED <<policies, owner, kv, pc, kc>>
  BY <1>5 DEF WaitTimer, host
<1>6. ASSUME Rollout \/ UNCHANGED vars
      PROVE  UNCHANGED <<policies, owner, kv, pc, kc>>
  BY <1>6 DEF Rollout, vars, host
<1>7. \/ \E u \in Ups : Start(u) \/ Up(u)
      \/ UNCHANGED <<policies, owner, kv, pc, kc>>
  BY <1>3, <1>4, <1>5, <1>6 DEF Next
<1>8. ASSUME NEW u \in Ups, Start(u), NEW d \in Downs
      PROVE  pc'[d] = pc[d]
  BY <1>8, ActorsDiffer DEF Start, Goto, TypeOK
<1>9. ~TeardownBegan
  BY <1>1, <1>2, <1>7, <1>8 DEF TeardownBegan
<1>10. QED
  BY <1>7, <1>9

\* A workflow finds its policies, and a vCluster is made under both.
LEMMA PoliciesStep ==
  ASSUME TypeOK, PoliciesStay, [Next]_vars
  PROVE  PoliciesStay'
<1> SUFFICES ASSUME ~TeardownBegan'
             PROVE  /\ \A u \in Ups : /\ pc'[u] \in AfterIsolation => "isolation" \in policies'
                                      /\ pc'[u] \in AfterAccess    => "access" \in policies'
                    /\ owner' # NoOne => policies' = Policies
  BY DEF PoliciesStay
<1> USE DEF AfterIsolation, AfterAccess, Actors, Goto, Continue, host
<1>1. /\ ~TeardownBegan
      /\ \/ \E u \in Ups : Start(u) \/ Up(u)
         \/ UNCHANGED <<policies, owner, kv, pc, kc>>
  BY NoTeardown
<1>2. /\ \A u \in Ups : /\ pc[u] \in AfterIsolation => "isolation" \in policies
                        /\ pc[u] \in AfterAccess    => "access" \in policies
      /\ owner # NoOne => policies = Policies
  BY <1>1 DEF PoliciesStay
<1>3. CASE UNCHANGED <<policies, owner, kv, pc, kc>>
  BY <1>2, <1>3
<1>4. ASSUME NEW u \in Ups, Start(u) \/ CreateNamespace(u)
      PROVE  /\ \E p \in {"namespace", "isolation", "failed"} : pc' = [pc EXCEPT ![u] = p]
             /\ UNCHANGED <<policies, owner>>
  BY <1>4 DEF Start, CreateNamespace
<1>5. ASSUME NEW u \in Ups, Poll(u) \/ Pause(u) \/ ExportKubeconfig(u) \/ Store(u)
      PROVE  /\ pc[u] \in AfterAccess
             /\ \E p \in {"wait", "pause", "export", "store", "done", "failed"} : pc' = [pc EXCEPT ![u] = p]
             /\ UNCHANGED <<policies, owner>>
  BY <1>5 DEF Poll, Pause, ExportKubeconfig, Store
<1>6. ASSUME NEW u \in Ups, VClusterCreate(u)
      PROVE  /\ pc[u] = "create"
             /\ \E p \in {"wait", "failed"} : pc' = [pc EXCEPT ![u] = p]
             /\ UNCHANGED policies
  BY <1>6 DEF VClusterCreate
<1>7. ASSUME NEW u \in Ups, ApplyPolicy(u, "isolation", "access")
      PROVE  /\ \/ policies' = policies \cup {"isolation"} /\ \E p \in {"access", "failed"} : pc' = [pc EXCEPT ![u] = p]
                \/ UNCHANGED policies /\ pc' = [pc EXCEPT ![u] = "failed"]
             /\ UNCHANGED owner
  BY <1>7, OutcomesType DEF ApplyPolicy, HasEffect
<1>8. ASSUME NEW u \in Ups, ApplyPolicy(u, "access", "create")
      PROVE  /\ pc[u] = "access"
             /\ \/ policies' = policies \cup {"access"} /\ \E p \in {"create", "failed"} : pc' = [pc EXCEPT ![u] = p]
                \/ UNCHANGED policies /\ pc' = [pc EXCEPT ![u] = "failed"]
             /\ UNCHANGED owner
  BY <1>8, OutcomesType DEF ApplyPolicy, HasEffect
<1>9. policies \subseteq Policies /\ pc = [a \in Actors |-> pc[a]]
  BY DEF TypeOK
<1>10. ASSUME NEW u \in Ups, Start(u) \/ Up(u)
       PROVE  /\ \A v \in Ups : /\ pc'[v] \in AfterIsolation => "isolation" \in policies'
                                /\ pc'[v] \in AfterAccess    => "access" \in policies'
              /\ owner' # NoOne => policies' = Policies
  <2>1. CASE Start(u) \/ CreateNamespace(u)
    BY <2>1, <1>2, <1>4, <1>9
  <2>2. CASE Poll(u) \/ Pause(u) \/ ExportKubeconfig(u) \/ Store(u)
    BY <2>2, <1>2, <1>5, <1>9
  <2>3. CASE VClusterCreate(u)
    BY <2>3, <1>2, <1>6, <1>9 DEF Policies
  <2>4. CASE ApplyPolicy(u, "isolation", "access")
    BY <2>4, <1>2, <1>7, <1>9 DEF Policies
  <2>5. CASE ApplyPolicy(u, "access", "create")
    BY <2>5, <1>2, <1>8, <1>9 DEF Policies
  <2>6. QED
    BY <1>10, <2>1, <2>2, <2>3, <2>4, <2>5 DEF Up, ApplyIsolationPolicies
<1>11. QED
  BY <1>1, <1>3, <1>10

\* Before a teardown a vCluster stays whose it is: an exported kubeconfig is its,
\* and what is stored is an exported one.
LEMMA KubeconfigStep ==
  ASSUME TypeOK, HasExported, ExportFits, RetrieveFits, [Next]_vars
  PROVE  ExportFits' /\ RetrieveFits'
<1> DEFINE Fits(o, p, k, v) ==
             /\ \A u \in Ups : p[u] = "store" => o # NoOne /\ k[u] = o
             /\ v # <<>> => o # NoOne /\ Last(v) = o
             /\ (\E u \in Ups : p[u] = "done") => v # <<>>
<1> SUFFICES ASSUME ~TeardownBegan'
             PROVE  Fits(owner', pc', kc', kv')
  BY DEF ExportFits, RetrieveFits, Retrieve
<1> USE DEF Actors, Goto, Continue, host
<1>1. /\ ~TeardownBegan
      /\ \/ \E u \in Ups : Start(u) \/ Up(u)
         \/ UNCHANGED <<policies, owner, kv, pc, kc>>
  BY NoTeardown
<1>2. Fits(owner, pc, kc, kv)
  BY <1>1 DEF ExportFits, RetrieveFits, Retrieve
<1>3. /\ pc = [a \in Actors |-> pc[a]] /\ kc = [u \in Ups |-> kc[u]]
      /\ owner \in Ups \cup {NoOne} /\ kv \in Seq(Ups)
  BY DEF TypeOK
<1>4. CASE UNCHANGED <<policies, owner, kv, pc, kc>>
  BY <1>2, <1>4
<1>5. ASSUME NEW u \in Ups, Start(u) \/ Up(u)
      PROVE  Fits(owner', pc', kc', kv')
  <2>1. CASE Start(u) \/ CreateNamespace(u) \/ ApplyIsolationPolicies(u) \/ Poll(u) \/ Pause(u)
    <3>1. /\ \E p \in {"namespace", "isolation", "access", "create", "wait", "pause", "export", "failed"} :
               pc' = [pc EXCEPT ![u] = p]
          /\ UNCHANGED <<owner, kv, kc>>
      BY <2>1 DEF Start, CreateNamespace, ApplyIsolationPolicies, ApplyPolicy, Poll, Pause
    <3>2. \A v \in Ups : pc'[v] \in {"store", "done"} => pc'[v] = pc[v]
      BY <3>1, <1>3
    <3>3. QED
      BY <3>1, <3>2, <1>2
  <2>2. CASE VClusterCreate(u)
    <3>1. /\ \E p \in {"wait", "failed"} : pc' = [pc EXCEPT ![u] = p]
          /\ UNCHANGED <<kv, kc>>
          /\ owner' = owner \/ owner = NoOne
      BY <2>2 DEF VClusterCreate
    <3>2. \A v \in Ups : pc'[v] \in {"store", "done"} => pc'[v] = pc[v]
      BY <3>1, <1>3
    <3>3. QED
      BY <3>1, <3>2, <1>2
  <2>3. CASE ExportKubeconfig(u)
    <3>1. UNCHANGED <<owner, kv>>
      BY <2>3 DEF ExportKubeconfig
    <3>2. CASE pc' = [pc EXCEPT ![u] = "failed"] /\ UNCHANGED kc
      BY <3>1, <3>2, <1>2, <1>3
    <3>3. CASE owner # NoOne /\ pc' = [pc EXCEPT ![u] = "store"] /\ kc' = [kc EXCEPT ![u] = owner]
      BY <3>1, <3>3, <1>2, <1>3
    <3>4. QED
      BY <2>3, <3>2, <3>3 DEF ExportKubeconfig
  <2>4. CASE Store(u)
    <3>1. /\ pc[u] = "store" /\ UNCHANGED <<owner, kc>>
          /\ owner # NoOne /\ kc[u] = owner
      BY <2>4, <1>2 DEF Store
    <3>2. \/ kv' = Append(kv, kc[u]) /\ \E p \in {"done", "failed"} : pc' = [pc EXCEPT ![u] = p]
          \/ kv' = kv /\ pc' = [pc EXCEPT ![u] = "failed"]
      BY <2>4 DEF Store, HasEffect
    <3>3. Append(kv, kc[u]) # <<>> /\ Last(Append(kv, kc[u])) = owner
      BY <3>1, <1>3, LastOfAppend
    <3>4. \A v \in Ups : pc'[v] = "store" => pc[v] = "store"
      BY <3>2, <1>3
    <3>5. CASE kv' = Append(kv, kc[u])
      BY <3>1, <3>3, <3>4, <3>5, <1>2
    <3>6. CASE kv' = kv /\ pc' = [pc EXCEPT ![u] = "failed"]
      BY <3>1, <3>4, <3>6, <1>2, <1>3
    <3>7. QED
      BY <3>2, <3>5, <3>6
  <2>5. QED
    BY <1>5, <2>1, <2>2, <2>3, <2>4 DEF Up
<1>6. QED
  BY <1>1, <1>4, <1>5

\* Both policies together let in what is promised and nothing else.
LEMMA PoliciesAreExact ==
  ASSUME policies = Policies,
         NEW src \in Sources, NEW pod \in Pods, NEW port \in Ports
  PROVE  Reaches(src, pod, port) <=>
           src = "tenant" \/ (src = "cf-system" /\ pod = "vcluster" /\ port = "6443")
<1>1. /\ Applied("isolation") = [selects |-> Pods, from |-> {"tenant"}, ports |-> Ports]
      /\ Applied("access") = [selects |-> {"vcluster"}, from |-> {"cf-system"}, ports |-> {"6443"}]
  BY DEF Applied, TenantIsolationPolicy, ProvisionerAccessPolicy
<1>2. Reaches(src, pod, port) <=>
        \E p \in Policies : pod \in Applied(p).selects /\ src \in Applied(p).from /\ port \in Applied(p).ports
  BY <1>1 DEF Reaches, Policies
<1>3. QED
  BY <1>1, <1>2 DEF Policies, Pods, Ports, Sources

\* Every behaviour keeps the invariant.
LEMMA Invariance == Spec => []IInv
<1>1. IInv /\ [Next]_vars => IInv'
  BY StepTyped, PoliciesStep, KubeconfigStep DEF IInv
<1>2. QED
  BY InitInv, <1>1, PTL DEF Spec

-----------------------------------------------------------------------------
\* Every variable keeps its type, a workflow and a teardown each to their own
\* steps, and neither a policy nor a vCluster is ever without its namespace.
THEOREM TypeCorrect == Spec => []TypeOK
<1>1. IInv => TypeOK
  BY DEF IInv
<1>2. QED
  BY Invariance, <1>1, PTL

\* From the moment `vcluster create` has made it, and until a teardown begins, a
\* vCluster takes the traffic the two policies of the namespace are meant to let
\* in and no other, whatever command of whichever workflow failed or was cut off.
THEOREM IngressExact == Spec => []IngressIsExact
<1>1. IInv => IngressIsExact
  BY PoliciesAreExact DEF IInv, PoliciesStay, IngressIsExact
<1>2. QED
  BY Invariance, <1>1, PTL

\* Until a teardown begins, what Retrieve returns opens the vCluster there is,
\* and a workflow that ended well has left something to retrieve.
THEOREM RetrieveFitting == Spec => []RetrieveFits
<1>1. IInv => RetrieveFits
  BY DEF IInv
<1>2. QED
  BY Invariance, <1>1, PTL
=============================================================================
