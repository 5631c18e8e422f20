------------------------------- MODULE Lease -------------------------------
(***************************************************************************)
(* What the cache's Lock promises: a resource has one owner at a time, and *)
(* is taken from it when its lease ends and not before.  A lease ends when *)
(* its owner gives it back or its time to live has passed.  The promise    *)
(* ends with the first owner that gives back what it has not any more.     *)
(***************************************************************************)
CONSTANTS Clients, Resources, Nobody

VARIABLES
  owner,        \* [Resources -> who holds it, or Nobody]
  leases,       \* the clients whose lease is running
  late          \* an owner has given back what it had lost

Init ==
  /\ owner = [r \in Resources |-> Nobody]
  /\ leases = {}
  /\ late = FALSE

Grant(c, r) ==
  /\ owner[r] = Nobody
  /\ c \notin leases
  /\ owner' = [owner EXCEPT ![r] = c]
  /\ leases' = leases \cup {c}

End(c) ==
  /\ c \in leases
  /\ leases' = leases \ {c}
  /\ owner' = [r \in Resources |-> IF owner[r] = c THEN Nobody ELSE owner[r]]

Next ==
  \/ late'
  \/ /\ UNCHANGED late
     /\ \E c \in Clients : End(c) \/ \E r \in Resources : Grant(c, r)

Spec == Init /\ [][Next]_<<owner, leases, late>>
=============================================================================
