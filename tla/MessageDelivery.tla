-------------------------- MODULE MessageDelivery --------------------------
(***************************************************************************)
(* What a queue promises: a message that was accepted is delivered, and    *)
(* delivered again, until a handler has succeeded with it and it is        *)
(* dropped; then it never comes back.  It is nowhere twice.  A handler may *)
(* still be at work on a delivery that was taken back, so that it succeeds *)
(* with a message more than once, or with one that is dropped already.     *)
(***************************************************************************)
CONSTANT Messages

VARIABLES
  place,       \* where a message is: "unsent", "ready", "delivered", "dropped"
  handled      \* those a handler has succeeded with

Init ==
  /\ place = [m \in Messages |-> "unsent"]
  /\ handled = {}

Move(m, from, to) ==
  /\ place[m] = from
  /\ place' = [place EXCEPT ![m] = to]
  /\ UNCHANGED handled

Accept(m) == Move(m, "unsent", "ready")
Deliver(m) == Move(m, "ready", "delivered")
Drop(m) == m \in handled /\ Move(m, "delivered", "dropped")

\* Deliveries are taken back, those of one channel together.
TakeBack(back) ==
  /\ \A m \in back : place[m] = "delivered"
  /\ place' = [m \in Messages |-> IF m \in back THEN "ready" ELSE place[m]]
  /\ UNCHANGED handled

Succeed(m) ==
  /\ place[m] # "unsent"
  /\ handled' = handled \cup {m}
  /\ UNCHANGED place

Next ==
  \/ \E m \in Messages : Accept(m) \/ Deliver(m) \/ Drop(m) \/ Succeed(m)
  \/ \E back \in SUBSET Messages : TakeBack(back)

Spec == Init /\ [][Next]_<<place, handled>>
=============================================================================
