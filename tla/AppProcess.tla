----------------------------- MODULE AppProcess -----------------------------
(***************************************************************************)
(* What package app has in one process: the App, which main starts and     *)
(* shuts down (Lifecycle), and the ShutdownHandler, which goroutines of    *)
(* the application use.  They share nothing but the process: main does not *)
(* wait for the handlers, and its end is theirs.                           *)
(***************************************************************************)
EXTENDS Lifecycle

CONSTANTS Handlers, Hanging, Priorities, Executors

ASSUME HandlersAssumption == Hanging \subseteq Handlers /\ Priorities \subseteq Nat

VARIABLES handlers, executed, exec, all, list, calls, ended

Hooks == INSTANCE ShutdownHandler

hooks == <<handlers, executed, exec, all, list, calls, ended>>
allVars == <<vars, hooks>>

ProcessInit == Init /\ Hooks!Init

ProcessNext ==
  \/ Next /\ UNCHANGED hooks
  \/ status = "up" /\ Hooks!Next /\ UNCHANGED vars

\* main goes on once it has its signal, but for the Close of the queue; requests
\* and dials may take for ever.
\* Execute and its goroutine go on; a handler returns, unless it is Hanging.
ProcessSpec ==
  /\ ProcessInit
  /\ [][ProcessNext]_allVars
  /\ WF_vars(status = "up" /\ ~InQueueClose /\ (Shutdown \/ Closer))
  /\ WF_allVars(status = "up" /\ Hooks!ExecuteAll /\ UNCHANGED vars)
  /\ \A e \in Executors :
       WF_allVars(status = "up" /\ Hooks!Waits(e) /\ UNCHANGED vars)

-----------------------------------------------------------------------------
(* Properties *)

HooksTypeOK == Hooks!HooksTypeOK
CalledInOrder == Hooks!CalledInOrder
NobodyLeftOut == Hooks!NobodyLeftOut

\* Every registration that was accepted is called, also one that raced Execute,
\* unless a handler that does not return comes before it or the process ends.
AcceptedIsCalled ==
  \A h \in Handlers :
    executed /\ Hooks!Reaches(h) ~> h \in Hooks!Called \/ status # "up"

\* Execute returns although a handler hangs.
ExecuteReturns ==
  \A e \in Executors : exec[e] = "sort" ~> exec[e] = "returned" \/ status # "up"
=============================================================================
