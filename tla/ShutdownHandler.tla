-------------------------- MODULE ShutdownHandler --------------------------
(***************************************************************************)
(* app.ShutdownHandler (pkg/app/shutdown.go): goroutines of an application *)
(* register handlers and call Execute, which runs them by priority in a    *)
(* goroutine of its own and gives up waiting for it after a timeout.       *)
(***************************************************************************)
EXTENDS Naturals, Sequences, SequencesExt

CONSTANTS
  Handlers,      \* the registrations, each of a handler
  Hanging,       \* those whose handler does not return
  Priorities,    \* 0 is PriorityHighest
  Executors      \* the calls of Execute

VARIABLES
  handlers,      \* s.handlers: a sequence of [name, priority]
  executed,      \* s.executed
  exec,          \* a call of Execute: "new", "sort", "waiting", "returned"
  all,           \* executeAll: "none", "begun", "looping", "calling" or "done"
  list,          \* the slice it has read
  calls,         \* how many of them it has called
  ended          \* history: the handlers that have returned or panicked

hookVars == <<handlers, executed, exec, all, list, calls, ended>>

Init ==
  /\ handlers = <<>> /\ executed = FALSE
  /\ exec = [e \in Executors |-> "new"]
  /\ all = "none" /\ list = <<>> /\ calls = 0
  /\ ended = {}

Names == {handlers[k].name : k \in DOMAIN handlers}
Called == {list[k].name : k \in 1..calls}

RegisterLate(h, priority) ==    \* mutant: executed is not looked at
  /\ h \notin Names
  /\ handlers' = Append(handlers, [name |-> h, priority |-> priority])
  /\ UNCHANGED <<executed, exec, all, list, calls, ended>>

\* After Execute a registration is ignored.
Register(h, priority) ==
  /\ h \notin Names
  /\ ~executed
  /\ handlers' = Append(handlers, [name |-> h, priority |-> priority])
  /\ UNCHANGED <<executed, exec, all, list, calls, ended>>

ExecuteAgain(e) ==              \* mutant: executed is not looked at
  /\ exec[e] = "new"
  /\ exec' = [exec EXCEPT ![e] = "sort"]
  /\ executed' = TRUE
  /\ UNCHANGED <<handlers, all, list, calls, ended>>

\* The first call goes on, every other returns at once.
Execute(e) ==
  /\ exec[e] = "new"
  /\ exec' = [exec EXCEPT ![e] = IF executed THEN "returned" ELSE "sort"]
  /\ executed' = TRUE
  /\ UNCHANGED <<handlers, all, list, calls, ended>>

ByPriority(s) == \A i, j \in DOMAIN s : i < j => s[i].priority <= s[j].priority

SortNot(e) ==                   \* mutant: the handlers run as registered
  /\ exec[e] = "sort"
  /\ exec' = [exec EXCEPT ![e] = "waiting"]
  /\ all' = "begun"
  /\ UNCHANGED <<handlers, executed, list, calls, ended>>

\* sort.Slice, which may put equal priorities in any order; then the goroutine
\* of executeAll is started.
Sort(e) ==
  /\ exec[e] = "sort"
  /\ handlers' \in {s \in [DOMAIN handlers -> ToSet(handlers)] :
                      IsInjective(s) /\ ByPriority(s)}
  /\ exec' = [exec EXCEPT ![e] = "waiting"]
  /\ all' = "begun"
  /\ UNCHANGED <<executed, list, calls, ended>>

\* The slice is read under the lock.
ReadHandlers ==
  /\ all = "begun"
  /\ list' = handlers /\ calls' = 0
  /\ all' = "looping"
  /\ UNCHANGED <<handlers, executed, exec, ended>>

CallHandler ==
  /\ all = "looping"
  /\ IF calls < Len(list)
     THEN calls' = calls + 1 /\ all' = "calling"
     ELSE all' = "done" /\ UNCHANGED calls
  /\ UNCHANGED <<handlers, executed, exec, list, ended>>

\* It returns, or panics and is recovered.
HandlerEnds ==
  /\ all = "calling" /\ list[calls].name \notin Hanging
  /\ ended' = ended \cup {list[calls].name}
  /\ all' = "looping"
  /\ UNCHANGED <<handlers, executed, exec, list, calls>>

ReturnDoneOnly(e) ==            \* mutant: the timeout is not waited for
  /\ exec[e] = "waiting" /\ all = "done"
  /\ exec' = [exec EXCEPT ![e] = "returned"]
  /\ UNCHANGED <<handlers, executed, all, list, calls, ended>>

\* done is closed, or the timeout is over: the handlers go on all the same.
Return(e) ==
  /\ exec[e] = "waiting"
  /\ exec' = [exec EXCEPT ![e] = "returned"]
  /\ UNCHANGED <<handlers, executed, all, list, calls, ended>>

Waits(e) == Sort(e) \/ Return(e)
ExecuteAll == ReadHandlers \/ CallHandler \/ HandlerEnds

Next ==
  \/ \E h \in Handlers, priority \in Priorities : Register(h, priority)
  \/ \E e \in Executors : Execute(e) \/ Waits(e)
  \/ ExecuteAll

-----------------------------------------------------------------------------
(* Properties *)

Entries == [name : Handlers, priority : Priorities]

HooksTypeOK ==
  /\ handlers \in Seq(Entries) /\ list \in Seq(Entries)
  /\ executed \in BOOLEAN
  /\ exec \in [Executors -> {"new", "sort", "waiting", "returned"}]
  /\ all \in {"none", "begun", "looping", "calling", "done"}
  /\ calls \in 0..Len(list)
  /\ ended \subseteq Handlers

\* h was accepted, and no accepted handler hangs that may come before it.
Reaches(h) ==
  \E x \in ToSet(handlers) : x.name = h /\
    \A y \in ToSet(handlers) : y.name \in Hanging /\ y.name # h => x.priority < y.priority

\* When executeAll is through, every registration that was accepted has been
\* called and its handler has ended, and no other.
NobodyLeftOut == all = "done" => ended = Names

\* A handler is called once, however many calls of Execute race, when every
\* handler of a higher priority that was accepted has ended.
CalledInOrder ==
  [][\A k \in 1..calls' : k > calls =>
       /\ list[k].name \notin Called \cup ended
       /\ \A i \in DOMAIN handlers :
            handlers[i].priority < list[k].priority => handlers[i].name \in ended]_hookVars
=============================================================================
