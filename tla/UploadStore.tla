---------------------------- MODULE UploadStore ----------------------------
(***************************************************************************)
(* What an upload promises: a path appears with the whole of a text behind *)
(* it, keeps it, and is taken out once.  Nobody sees part of an upload.    *)
(***************************************************************************)
CONSTANTS Paths, Values, None

VARIABLE stored              \* what is behind each path

Init == stored = [p \in Paths |-> None]

Publish(p, v) == stored[p] = None /\ stored' = [stored EXCEPT ![p] = v]
TakeOut(p) == stored[p] # None /\ stored' = [stored EXCEPT ![p] = None]

Next == \E p \in Paths : TakeOut(p) \/ \E v \in Values : Publish(p, v)

Spec == Init /\ [][Next]_stored
=============================================================================
