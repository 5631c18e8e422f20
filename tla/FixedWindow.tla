---------------------------- MODULE FixedWindow ----------------------------
(***************************************************************************)
(* What a fixed-window limiter promises.  The first request of a client    *)
(* opens a window of Window ticks; while it is open, Limit requests are    *)
(* admitted and the rest refused.  Nothing outlives the window, and        *)
(* nothing but time ends it.                                               *)
(***************************************************************************)
EXTENDS Integers

CONSTANTS Keys, Limit, Window, NoWindow

VARIABLES
  now,
  open,     \* the open window of each client, or NoWindow
  reply     \* the last answer: the client and whether it was admitted

FWInit ==
  /\ now = 0
  /\ open = [k \in Keys |-> NoWindow]
  /\ reply = <<>>

Begin(k) ==
  /\ open[k] = NoWindow
  /\ open' = [open EXCEPT ![k] = [start |-> now, used |-> 1]]
  /\ reply' = <<k, TRUE>>
  /\ UNCHANGED now

Admit(k) ==
  /\ open[k] # NoWindow /\ open[k].used < Limit
  /\ open' = [open EXCEPT ![k] = [start |-> open[k].start,
                                  used |-> open[k].used + 1]]
  /\ reply' = <<k, TRUE>>
  /\ UNCHANGED now

Refuse(k) ==
  /\ open[k] # NoWindow /\ open[k].used = Limit
  /\ reply' = <<k, FALSE>>
  /\ UNCHANGED <<now, open>>

\* Time passes and ends the windows that are over.
Pass ==
  /\ now' = now + 1
  /\ open' = [k \in Keys |->
                IF open[k] # NoWindow /\ now' - open[k].start <= Window
                THEN open[k] ELSE NoWindow]
  /\ UNCHANGED reply

FWNext == (\E k \in Keys : Begin(k) \/ Admit(k) \/ Refuse(k)) \/ Pass

FWVars == <<now, open, reply>>
FWSpec == FWInit /\ [][FWNext]_FWVars
=============================================================================
