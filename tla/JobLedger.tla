------------------------------ MODULE JobLedger ------------------------------
(***************************************************************************)
(* What the provisioning job queue promises its clients, without tables,   *)
(* partitions, errors or crashes: an idempotency key names one job for     *)
(* ever, a job is started at most once, by one executor, and its outcome   *)
(* is decided at most once, only after it was started.                     *)
(***************************************************************************)
CONSTANTS Keys, Jobs, NoJob

VARIABLES
  handle,   \* the job each key names
  executor, \* who started each job; executors are named like the jobs' callers
  outcome   \* how each job ended

vars == <<handle, executor, outcome>>

Outcome == {"READY", "FAILED"}

Init ==
  /\ handle   = [k \in Keys |-> NoJob]
  /\ executor = [j \in Jobs |-> NoJob]
  /\ outcome  = [j \in Jobs |-> "none"]

Submit(k, j) ==
  /\ handle[k] = NoJob /\ \A l \in Keys : handle[l] # j
  /\ handle' = [handle EXCEPT ![k] = j]
  /\ UNCHANGED <<executor, outcome>>

Start(j, r) ==
  /\ \E k \in Keys : handle[k] = j
  /\ executor[j] = NoJob
  /\ executor' = [executor EXCEPT ![j] = r]
  /\ UNCHANGED <<handle, outcome>>

Finish(j, o) ==
  /\ executor[j] # NoJob /\ outcome[j] = "none"
  /\ outcome' = [outcome EXCEPT ![j] = o]
  /\ UNCHANGED <<handle, executor>>

Next ==
  \/ \E k \in Keys, j \in Jobs : Submit(k, j)
  \/ \E j, r \in Jobs : Start(j, r)
  \/ \E j \in Jobs, o \in Outcome : Finish(j, o)

Spec == Init /\ [][Next]_vars
=============================================================================
