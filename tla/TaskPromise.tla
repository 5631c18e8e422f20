---------------------------- MODULE TaskPromise ----------------------------
(***************************************************************************)
(* What a task of pkg/async promises to the caller that holds it: it is    *)
(* pending, then at most once running, then its outcome is decided exactly *)
(* once and never revised.  AsyncTask implements it (AsyncTaskProofs).     *)
(***************************************************************************)
CONSTANT Tasks

VARIABLE outcome

Decided == {"success", "failed", "timeout", "cancelled"}

PromiseInit == outcome = [t \in Tasks |-> "pending"]

Start(t) ==
  /\ outcome[t] = "pending"
  /\ outcome' = [outcome EXCEPT ![t] = "running"]

Decide(t) ==
  /\ outcome[t] = "running"
  /\ \E o \in Decided : outcome' = [outcome EXCEPT ![t] = o]

PromiseNext == \E t \in Tasks : Start(t) \/ Decide(t)

PromiseSpec == PromiseInit /\ [][PromiseNext]_outcome
=============================================================================
