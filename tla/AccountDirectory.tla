-------------------------- MODULE AccountDirectory --------------------------
(***************************************************************************)
(* What registration promises, without tables and errors: a slug gets one  *)
(* owner for ever, and only its owner is ever told that it registered.     *)
(***************************************************************************)
CONSTANTS Names, Clients, Nobody

VARIABLES
  owner,     \* who owns each name
  confirmed  \* the clients that were told so

vars == <<owner, confirmed>>

Init == owner = [n \in Names |-> Nobody] /\ confirmed = {}

Grant(n, c) ==
  /\ owner[n] = Nobody /\ \A m \in Names : owner[m] # c
  /\ owner' = [owner EXCEPT ![n] = c]
  /\ UNCHANGED confirmed

Confirm(c) ==
  /\ \E n \in Names : owner[n] = c
  /\ confirmed' = confirmed \cup {c}
  /\ UNCHANGED owner

Next == \E c \in Clients : Confirm(c) \/ \E n \in Names : Grant(n, c)

Spec == Init /\ [][Next]_vars
=============================================================================
