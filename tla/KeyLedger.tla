------------------------------ MODULE KeyLedger ------------------------------
(***************************************************************************)
(* What API keys promise, without tables, views and errors: a key comes    *)
(* into being once and dies once; whoever is told that a key was issued    *)
(* holds one that came into being, and whoever is told that it was revoked *)
(* can rely on its being dead.                                             *)
(***************************************************************************)
CONSTANT Keys

VARIABLES
  live,       \* keys that authenticate
  dead,       \* keys that did and never will again
  handedOut,  \* keys whose raw value was returned to somebody
  confirmed   \* keys whose revocation was confirmed to somebody

vars == <<live, dead, handedOut, confirmed>>

Init == live = {} /\ dead = {} /\ handedOut = {} /\ confirmed = {}

Mint(k) ==
  /\ k \notin live \cup dead
  /\ live' = live \cup {k}
  /\ handedOut' \in {handedOut, handedOut \cup {k}}
  /\ UNCHANGED <<dead, confirmed>>

\* A dead key may be revoked again; who revokes may learn of it only later.
Kill(k) ==
  /\ k \in live \cup dead
  /\ live' = live \ {k} /\ dead' = dead \cup {k}
  /\ confirmed' \in {confirmed, confirmed \cup {k}}
  /\ UNCHANGED handedOut

Next == \E k \in Keys : Mint(k) \/ Kill(k)

Spec == Init /\ [][Next]_vars
=============================================================================
