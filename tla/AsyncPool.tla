----------------------------- MODULE AsyncPool -----------------------------
(***************************************************************************)
(* The pool of pkg/async/async.go around the tasks of AsyncTask: callers   *)
(* of Submit, the dispatcher, the workers with their channels of capacity  *)
(* one, Start and Stop.  The executors of AsyncTask are the workers.       *)
(*                                                                         *)
(* An entry of the queue is the submission that pushed it, so that a task  *)
(* submitted twice is two entries.                                         *)
(***************************************************************************)
EXTENDS AsyncTask, FiniteSets

CONSTANTS
  MaxWorkers,   \* Pool.maxWorkers
  MaxQueue,     \* Pool.maxQueue
  Submissions,  \* the calls of Submit
  TaskOf,       \* the task each of them submits
  Priority,     \* Task.Priority, the smaller the more urgent
  Stoppers,     \* the calls of Stop
  None          \* nil, an empty channel

ASSUME PoolAssumption ==
  /\ MaxWorkers \in Nat /\ MaxQueue \in Nat
  /\ Executors = 1..MaxWorkers
  /\ IsFiniteSet(Submissions)
  /\ TaskOf \in [Submissions -> Tasks]
  /\ Priority \in [Tasks -> Int]
  /\ None \notin Submissions

VARIABLES
  running,      \* Pool.running
  queue,        \* Pool.queue: the submissions in the heap
  sub,          \* how far a call of Submit is
  dpc,          \* where the dispatcher stands
  hand,         \* the task it has popped and not yet passed on
  scan,         \* the worker it tries next
  ch,           \* worker.ch
  wpc,          \* the worker's goroutine
  held,         \* the task a worker has received and not yet entered
  quitClosed,   \* the workers' quit channels are closed
  stop          \* how far a call of Stop is

poolVars == <<running, queue, sub, dpc, hand, scan, ch, wpc, held, quitClosed,
              stop>>
vars == <<taskVars, poolVars>>

Workers == Executors

Init ==
  /\ TaskInit
  /\ running = FALSE
  /\ queue = {}
  /\ sub = [s \in Submissions |-> "new"]
  /\ dpc = "none"
  /\ hand = None
  /\ scan = 1
  /\ ch = [w \in Workers |-> None]
  /\ wpc = [w \in Workers |-> "none"]
  /\ held = [w \in Workers |-> None]
  /\ quitClosed = FALSE
  /\ stop = [c \in Stoppers |-> "new"]

-----------------------------------------------------------------------------
\* Start: bootstrap calls it once; until then every Submit is refused.
PoolStart ==
  /\ ~crashed
  /\ ~running /\ dpc = "none"
  /\ running' = TRUE
  /\ wpc' = [w \in Workers |-> "loop"]
  /\ dpc' = "check"
  /\ UNCHANGED <<taskVars, queue, sub, hand, scan, ch, held, quitClosed, stop>>

\* Submit: the atomic read of running, outside the lock ...
SubmitCheck(s) ==
  /\ sub[s] = "new"
  /\ sub' = [sub EXCEPT ![s] = IF running THEN "checked" ELSE "refused"]
  /\ UNCHANGED <<taskVars, running, queue, dpc, hand, scan, ch, wpc, held,
                 quitClosed, stop>>

\* ... and the push under p.mu.
SubmitPushOneMore(s) ==         \* mutant: Len > maxQueue
  /\ sub[s] = "checked"
  /\ IF Cardinality(queue) > MaxQueue
     THEN /\ sub' = [sub EXCEPT ![s] = "refused"]
          /\ UNCHANGED queue
     ELSE /\ sub' = [sub EXCEPT ![s] = "accepted"]
          /\ queue' = queue \cup {s}
  /\ UNCHANGED <<taskVars, running, dpc, hand, scan, ch, wpc, held,
                 quitClosed, stop>>

SubmitPush(s) ==
  /\ sub[s] = "checked"
  /\ IF Cardinality(queue) >= MaxQueue
     THEN /\ sub' = [sub EXCEPT ![s] = "refused"]
          /\ UNCHANGED queue
     ELSE /\ sub' = [sub EXCEPT ![s] = "accepted"]
          /\ queue' = queue \cup {s}
  /\ UNCHANGED <<taskVars, running, dpc, hand, scan, ch, wpc, held,
                 quitClosed, stop>>

Submit(s) == ~crashed /\ (SubmitCheck(s) \/ SubmitPush(s))

-----------------------------------------------------------------------------
\* The dispatcher: the select on the context,
DispatchCheck ==
  /\ dpc = "check"
  /\ dpc' = IF poolCtxDone THEN "exited" ELSE "pop"
  /\ UNCHANGED <<taskVars, running, queue, sub, hand, scan, ch, wpc, held,
                 quitClosed, stop>>

\* heap.Pop under the lock: any of the most urgent entries (the heap does not
\* keep equal priorities in order), or a sleep and round again.
MostUrgent ==
  {s \in queue : \A r \in queue : Priority[TaskOf[s]] <= Priority[TaskOf[r]]}

DispatchPop ==
  /\ dpc = "pop"
  /\ IF queue = {}
     THEN /\ dpc' = "check"
          /\ UNCHANGED <<queue, hand, scan>>
     ELSE /\ \E s \in MostUrgent : hand' = s /\ queue' = queue \ {s}
          /\ scan' = 1
          /\ dpc' = "scan"
  /\ UNCHANGED <<taskVars, running, sub, ch, wpc, held, quitClosed, stop>>

\* a non-blocking send to one worker after the other: it succeeds when the
\* buffer is empty, whatever the worker is doing,
DispatchSendTwice ==            \* mutant: the scan goes on after a send
  /\ dpc = "scan"
  /\ scan \in Workers
  /\ ch' = IF ch[scan] = None THEN [ch EXCEPT ![scan] = hand] ELSE ch
  /\ scan' = scan + 1
  /\ UNCHANGED <<taskVars, running, queue, sub, dpc, hand, wpc, held, quitClosed,
                 stop>>

DispatchSend ==
  /\ dpc = "scan"
  /\ scan \in Workers
  /\ IF ch[scan] = None
     THEN /\ ch' = [ch EXCEPT ![scan] = hand]
          /\ hand' = None
          /\ dpc' = "check"
          /\ UNCHANGED scan
     ELSE /\ scan' = scan + 1
          /\ UNCHANGED <<ch, hand, dpc>>
  /\ UNCHANGED <<taskVars, running, queue, sub, wpc, held, quitClosed, stop>>

\* and the push back when all are full, without a test of maxQueue.
DispatchRequeueIfRoom ==        \* mutant: the push back obeys maxQueue
  /\ dpc = "scan"
  /\ scan \notin Workers
  /\ queue' = IF Cardinality(queue) >= MaxQueue THEN queue
                                                ELSE queue \cup {hand}
  /\ hand' = None
  /\ dpc' = "check"
  /\ UNCHANGED <<taskVars, running, sub, scan, ch, wpc, held, quitClosed, stop>>

DispatchRequeue ==
  /\ dpc = "scan"
  /\ scan \notin Workers
  /\ queue' = queue \cup {hand}
  /\ hand' = None
  /\ dpc' = "check"
  /\ UNCHANGED <<taskVars, running, sub, scan, ch, wpc, held, quitClosed, stop>>

Dispatch ==
  ~crashed /\ (DispatchCheck \/ DispatchPop \/ DispatchSend \/ DispatchRequeue)

-----------------------------------------------------------------------------
\* A worker in its select: it holds no task and executes none.
Selecting(w) == wpc[w] = "loop" /\ pc[w] = "idle" /\ held[w] = None

WorkerReceive(w) ==
  /\ Selecting(w)
  /\ ch[w] # None
  /\ held' = [held EXCEPT ![w] = ch[w]]
  /\ ch' = [ch EXCEPT ![w] = None]
  /\ UNCHANGED <<taskVars, running, queue, sub, dpc, hand, scan, wpc,
                 quitClosed, stop>>

\* task.execute: the first critical section, or the early return.
WorkerExecute(w) ==
  /\ held[w] # None
  /\ \/ Execute(w, TaskOf[held[w]])
     \/ state[TaskOf[held[w]]] # "pending" /\ UNCHANGED taskVars
  /\ held' = [held EXCEPT ![w] = None]
  /\ UNCHANGED <<running, queue, sub, dpc, hand, scan, ch, wpc, quitClosed,
                 stop>>

\* The quit channel or the context is chosen, even with a task in ch.
WorkerExitBusy(w) ==            \* mutant: wg.Done before the task is finished
  /\ wpc[w] = "loop"
  /\ quitClosed \/ poolCtxDone
  /\ wpc' = [wpc EXCEPT ![w] = "exited"]
  /\ UNCHANGED <<taskVars, running, queue, sub, dpc, hand, scan, ch, held,
                 quitClosed, stop>>

WorkerExitDrained(w) ==         \* mutant: the queue has to be empty as well
  /\ Selecting(w)
  /\ quitClosed \/ poolCtxDone
  /\ queue = {}
  /\ wpc' = [wpc EXCEPT ![w] = "exited"]
  /\ UNCHANGED <<taskVars, running, queue, sub, dpc, hand, scan, ch, held,
                 quitClosed, stop>>

WorkerExit(w) ==
  /\ Selecting(w)
  /\ quitClosed \/ poolCtxDone
  /\ wpc' = [wpc EXCEPT ![w] = "exited"]
  /\ UNCHANGED <<taskVars, running, queue, sub, dpc, hand, scan, ch, held,
                 quitClosed, stop>>

Worker(w) ==
  \/ ~crashed /\ (WorkerReceive(w) \/ WorkerExecute(w) \/ WorkerExit(w))
  \/ ExecutorStep(w) /\ UNCHANGED poolVars

-----------------------------------------------------------------------------
\* Stop: running is cleared,
StopStore(c) ==
  /\ stop[c] = "new" /\ dpc # "none"
  /\ running' = FALSE
  /\ stop' = [stop EXCEPT ![c] = "cancel"]
  /\ UNCHANGED <<taskVars, queue, sub, dpc, hand, scan, ch, wpc, held,
                 quitClosed>>

\* the context is cancelled,
StopCancelAlone(c) ==           \* mutant: the contexts do not derive from the pool's
  /\ stop[c] = "cancel"
  /\ poolCtxDone' = TRUE
  /\ stop' = [stop EXCEPT ![c] = "close"]
  /\ UNCHANGED <<state, err, done, retryCount, ctxErr, pc, cur, attempt, crashed,
                 running, queue, sub, dpc, hand, scan, ch, wpc, held,
                 quitClosed>>

StopCancel(c) ==
  /\ stop[c] = "cancel"
  /\ CancelPoolCtx
  /\ stop' = [stop EXCEPT ![c] = "close"]
  /\ UNCHANGED <<state, err, done, retryCount, pc, cur, attempt, crashed,
                 running, queue, sub, dpc, hand, scan, ch, wpc, held,
                 quitClosed>>

\* the quit channels are closed (nobody can tell the order; closing them again
\* panics),
StopClose(c) ==
  /\ stop[c] = "close"
  /\ IF quitClosed
     THEN crashed' = TRUE /\ UNCHANGED <<quitClosed, stop>>
     ELSE /\ quitClosed' = TRUE
          /\ stop' = [stop EXCEPT ![c] = "wait"]
          /\ UNCHANGED crashed
  /\ UNCHANGED <<state, err, done, retryCount, ctxErr, poolCtxDone, pc, cur,
                 attempt, running, queue, sub, dpc, hand, scan, ch, wpc, held>>

\* and the workers, but not the dispatcher, are waited for.
StopWait(c) ==
  /\ stop[c] = "wait"
  /\ \A w \in Workers : wpc[w] = "exited"
  /\ stop' = [stop EXCEPT ![c] = "returned"]
  /\ UNCHANGED <<taskVars, running, queue, sub, dpc, hand, scan, ch, wpc, held,
                 quitClosed>>

Stop(c) ==
  ~crashed /\ (StopStore(c) \/ StopCancel(c) \/ StopClose(c) \/ StopWait(c))

-----------------------------------------------------------------------------
Next ==
  \/ PoolStart
  \/ \E s \in Submissions : Submit(s)
  \/ Dispatch
  \/ \E w \in Workers : Worker(w)
  \/ \E t \in Tasks : (Cancel(t) \/ Deadline(t)) /\ UNCHANGED poolVars
  \/ \E c \in Stoppers : Stop(c)

Spec == Init /\ [][Next]_vars

\* Goroutines that can go on do, sleeps end, handlers return.  A call of Submit
\* or Stop that was begun is carried through; nobody has to begin one.
FairSpec ==
  /\ Spec
  /\ WF_vars(Dispatch)
  /\ \A w \in Workers : WF_vars(Worker(w))
  /\ \A s \in Submissions : WF_vars(~crashed /\ SubmitPush(s))
  /\ \A c \in Stoppers : WF_vars(stop[c] # "new" /\ Stop(c))

-----------------------------------------------------------------------------
(* Properties *)

PoolTypeOK ==
  /\ TypeOK
  /\ running \in BOOLEAN
  /\ queue \subseteq Submissions
  /\ sub \in [Submissions -> {"new", "checked", "accepted", "refused"}]
  /\ dpc \in {"none", "check", "pop", "scan", "exited"}
  /\ hand \in Submissions \cup {None}
  /\ scan \in 1..(MaxWorkers + 1)
  /\ ch \in [Workers -> Submissions \cup {None}]
  /\ wpc \in [Workers -> {"none", "loop", "exited"}]
  /\ held \in [Workers -> Submissions \cup {None}]
  /\ quitClosed \in BOOLEAN
  /\ stop \in [Stoppers -> {"new", "cancel", "close", "wait", "returned"}]

InHand == IF hand = None THEN {} ELSE {hand}

\* The push back ignores maxQueue, yet the queue exceeds it by one entry at
\* most, because the dispatcher holds one at a time.
QueueBound == Cardinality(queue \cup InHand) <= MaxQueue + 1

\* Where a submission may wait.
Places == {"queue", "hand"} \cup (Workers \X {"ch", "held"})
At(s, p) ==
  CASE p = "queue" -> s \in queue
    [] p = "hand"  -> hand = s
    [] OTHER       -> IF p[2] = "ch" THEN ch[p[1]] = s ELSE held[p[1]] = s
Waiting(s) ==
  \/ s \in queue \/ hand = s
  \/ \E w \in Workers : ch[w] = s \/ held[w] = s

\* No submission waits in two places: it is delivered once.
DeliveredOnce ==
  \A s \in Submissions, p, q \in Places : At(s, p) /\ At(s, q) => p = q

\* An accepted submission is not lost: it waits somewhere until its task has
\* been started.  What waits has been accepted.
NothingLost ==
  \A s \in Submissions :
    /\ sub[s] = "accepted" /\ state[TaskOf[s]] = "pending" => Waiting(s)
    /\ Waiting(s) => sub[s] = "accepted"

Stopped == \E c \in Stoppers : stop[c] = "returned"

\* When Stop has returned no handler runs any more, and none will: the
\* dispatcher, which Stop does not wait for, finds nobody that listens.
StopQuiesces == Stopped => \A t \in Tasks : state[t] # "running"

\* What kills the process: a Cancel, as for the tasks alone, or a Stop that
\* comes to the quit channels after another one has closed them.
CrashExplained ==
  crashed =>
    \/ \E t \in Tasks : Cancelled(t)
    \/ \E c, d \in Stoppers :
         c # d /\ stop[c] = "close" /\ stop[d] \in {"wait", "returned"}

\* The tasks of a pool are the tasks of AsyncTask.
TasksAsSpecified == TaskSpec

\* What was accepted is decided, unless the pool is stopped or the process
\* dies; however busy the workers and however urgent the others of finitely
\* many submissions.
AcceptedIsDecided ==
  \A s \in Submissions :
    sub[s] = "accepted"
      ~> (done[TaskOf[s]] \/ crashed \/ \E c \in Stoppers : stop[c] # "new")

\* Stop returns: a running task, a retry delay or a full channel cannot hold
\* it up for ever.
StopReturns ==
  \A c \in Stoppers : stop[c] # "new" ~> (stop[c] = "returned" \/ crashed)
=============================================================================
