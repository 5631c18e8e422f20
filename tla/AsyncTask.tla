----------------------------- MODULE AsyncTask -----------------------------
(***************************************************************************)
(* One run of Task.execute per executor, against Task.Cancel, the deadline *)
(* of the task's context and the cancellation of the pool's context        *)
(* (pkg/async/async.go).  An action is what happens between two points at  *)
(* which another goroutine may get in: a critical section of t.mu, the     *)
(* choice of a select, the call of the handler.                            *)
(*                                                                         *)
(* close(t.done) on a closed channel panics in a goroutine that has no     *)
(* recover, so the whole process dies: crashed.                            *)
(***************************************************************************)
EXTENDS Integers

CONSTANTS
  Tasks,        \* the *Task values
  Executors,    \* the goroutines that may call execute
  MaxRetries,   \* Task.MaxRetries, an int without lower bound
  NoTask        \* nil

ASSUME MaxRetriesAssumption == MaxRetries \in [Tasks -> Int]
ASSUME NoTaskAssumption == NoTask \notin Tasks

VARIABLES
  state,        \* Task.state
  err,          \* Task.err
  done,         \* Task.done is closed
  retryCount,   \* Task.retryCount
  ctxErr,       \* taskCtx.Err(), "none" while the context is live
  poolCtxDone,  \* Pool.ctx is cancelled
  pc,           \* where an executor stands in execute
  cur,          \* the task it executes
  attempt,      \* the loop variable of its retry loop
  crashed       \* a goroutine panicked: the process is gone

taskVars == <<state, err, done, retryCount, ctxErr, poolCtxDone, pc, cur,
              attempt, crashed>>

Terminal == {"success", "failed", "timeout", "cancelled"}
TaskStates == {"pending", "running"} \cup Terminal
CtxErrs == {"none", "deadline exceeded", "canceled"}
TaskErrs == CtxErrs \cup {"handler error", "task cancelled"}

PcValues == {"idle", "loop", "ctxDone", "calling", "handler", "returned",
             "failed", "delay", "delayDone", "exhausted"}
ClosingPcs == {"ctxDone", "returned", "delayDone", "exhausted"}

TaskInit ==
  /\ state = [t \in Tasks |-> "pending"]
  /\ err = [t \in Tasks |-> "none"]
  /\ done = [t \in Tasks |-> FALSE]
  /\ retryCount = [t \in Tasks |-> 0]
  /\ ctxErr = [t \in Tasks |-> "none"]
  /\ poolCtxDone = FALSE
  /\ pc = [w \in Executors |-> "idle"]
  /\ cur = [w \in Executors |-> NoTask]
  /\ attempt = [w \in Executors |-> 0]
  /\ crashed = FALSE

-----------------------------------------------------------------------------
\* What a caller sees without changing anything.

\* Wait returns TRUE at once when the channel is closed.
Wait(t) == done[t]

\* Result: the error of a task in a terminal state, "task not completed"
\* before.
Result(t) ==
  IF state[t] \in Terminal THEN <<state[t], err[t]>>
                           ELSE <<"task not completed">>

-----------------------------------------------------------------------------
\* The end of a critical section that decides t: the fields, then
\* close(t.done).
CloseLenient(t, s, e) ==        \* mutant: "close only if still open"
  /\ state' = [state EXCEPT ![t] = s]
  /\ err' = [err EXCEPT ![t] = e]
  /\ done' = [done EXCEPT ![t] = TRUE]
  /\ UNCHANGED crashed

CloseForgotten(t, s, e) ==      \* mutant: no close(t.done) on one path
  /\ state' = [state EXCEPT ![t] = s]
  /\ err' = [err EXCEPT ![t] = e]
  /\ done' = [done EXCEPT ![t] = s # "failed"]
  /\ UNCHANGED crashed

Close(t, s, e) ==
  IF done[t]
  THEN /\ crashed' = TRUE
       /\ UNCHANGED <<state, err, done>>
  ELSE /\ state' = [state EXCEPT ![t] = s]
       /\ err' = [err EXCEPT ![t] = e]
       /\ done' = [done EXCEPT ![t] = TRUE]
       /\ UNCHANGED crashed

\* execute returns to its caller.
Return(w) ==
  /\ pc' = [pc EXCEPT ![w] = "idle"]
  /\ cur' = [cur EXCEPT ![w] = NoTask]
  /\ attempt' = [attempt EXCEPT ![w] = 0]

Goto(w, to) ==
  /\ pc' = [pc EXCEPT ![w] = to]
  /\ UNCHANGED <<cur, attempt>>

\* The first critical section of execute.  context.WithTimeout of a cancelled
\* parent is cancelled at once.
ExecuteAgain(w, t) ==           \* mutant: no test of t.state
  /\ pc[w] = "idle"
  /\ state' = [state EXCEPT ![t] = "running"]
  /\ ctxErr' = [ctxErr EXCEPT ![t] = IF poolCtxDone THEN "canceled"
                                                    ELSE "none"]
  /\ pc' = [pc EXCEPT ![w] = IF 0 <= MaxRetries[t] THEN "loop"
                                                   ELSE "exhausted"]
  /\ cur' = [cur EXCEPT ![w] = t]
  /\ UNCHANGED <<err, done, retryCount, poolCtxDone, attempt, crashed>>

Execute(w, t) ==
  /\ pc[w] = "idle"
  /\ state[t] = "pending"
  /\ state' = [state EXCEPT ![t] = "running"]
  /\ ctxErr' = [ctxErr EXCEPT ![t] = IF poolCtxDone THEN "canceled"
                                                    ELSE "none"]
  /\ pc' = [pc EXCEPT ![w] = IF 0 <= MaxRetries[t] THEN "loop"
                                                   ELSE "exhausted"]
  /\ cur' = [cur EXCEPT ![w] = t]
  /\ UNCHANGED <<err, done, retryCount, poolCtxDone, attempt, crashed>>

\* The select at the top of the loop.
CheckCtx(w) ==
  /\ pc[w] = "loop"
  /\ Goto(w, IF ctxErr[cur[w]] # "none" THEN "ctxDone" ELSE "calling")
  /\ UNCHANGED <<state, err, done, retryCount, ctxErr, poolCtxDone, crashed>>

FinishCtx(w) ==
  /\ pc[w] = "ctxDone"
  /\ Close(cur[w],
           IF ctxErr[cur[w]] = "deadline exceeded" THEN "timeout"
                                                   ELSE "cancelled",
           ctxErr[cur[w]])
  /\ Return(w)
  /\ UNCHANGED <<retryCount, ctxErr, poolCtxDone>>

\* The handler is called.  No lock is held since the select: the task may have
\* been decided in between.
HandlerStarts(w) ==
  /\ pc[w] = "calling"
  /\ Goto(w, "handler")
  /\ UNCHANGED <<state, err, done, retryCount, ctxErr, poolCtxDone, crashed>>

\* The handler returns a result, or an error, or panics (recovered into an
\* error).
HandlerReturns(w) ==
  /\ pc[w] = "handler"
  /\ \E to \in {"returned", "failed"} : Goto(w, to)
  /\ UNCHANGED <<state, err, done, retryCount, ctxErr, poolCtxDone, crashed>>

FinishSuccess(w) ==
  /\ pc[w] = "returned"
  /\ Close(cur[w], "success", "none")
  /\ Return(w)
  /\ UNCHANGED <<retryCount, ctxErr, poolCtxDone>>

\* retryCount is written under t.mu; then the test that ends the loop.
RecordFailureOneMore(w) ==      \* mutant: attempt > MaxRetries
  /\ pc[w] = "failed"
  /\ retryCount' = [retryCount EXCEPT ![cur[w]] = attempt[w] + 1]
  /\ Goto(w, IF attempt[w] > MaxRetries[cur[w]] THEN "exhausted" ELSE "delay")
  /\ UNCHANGED <<state, err, done, ctxErr, poolCtxDone, crashed>>

RecordFailure(w) ==
  /\ pc[w] = "failed"
  /\ retryCount' = [retryCount EXCEPT ![cur[w]] = attempt[w] + 1]
  /\ Goto(w, IF attempt[w] >= MaxRetries[cur[w]] THEN "exhausted" ELSE "delay")
  /\ UNCHANGED <<state, err, done, ctxErr, poolCtxDone, crashed>>

\* The select on time.After(t.RetryDelay) and taskCtx.Done(): either may be
\* taken when both are ready.
DelayElapsedSameAttempt(w) ==   \* mutant: the attempt is not counted
  /\ pc[w] = "delay"
  /\ Goto(w, "loop")
  /\ UNCHANGED <<state, err, done, retryCount, ctxErr, poolCtxDone, crashed>>

DelayElapsed(w) ==
  /\ pc[w] = "delay"
  /\ pc' = [pc EXCEPT ![w] = "loop"]
  /\ attempt' = [attempt EXCEPT ![w] = @ + 1]
  /\ UNCHANGED <<state, err, done, retryCount, ctxErr, poolCtxDone, cur,
                 crashed>>

DelayCtxDone(w) ==
  /\ pc[w] = "delay"
  /\ ctxErr[cur[w]] # "none"
  /\ Goto(w, "delayDone")
  /\ UNCHANGED <<state, err, done, retryCount, ctxErr, poolCtxDone, crashed>>

\* Always TaskStateTimeout here, whatever ended the context.
FinishDelay(w) ==
  /\ pc[w] = "delayDone"
  /\ Close(cur[w], "timeout", ctxErr[cur[w]])
  /\ Return(w)
  /\ UNCHANGED <<retryCount, ctxErr, poolCtxDone>>

\* After the loop.  The error is the last one of the handler; a loop that never
\* ran (MaxRetries < 0) leaves it nil.
FinishExhausted(w) ==
  /\ pc[w] = "exhausted"
  /\ Close(cur[w], "failed",
           IF retryCount[cur[w]] = 0 THEN "none" ELSE "handler error")
  /\ Return(w)
  /\ UNCHANGED <<retryCount, ctxErr, poolCtxDone>>

\* The rest of execute, once it has been entered.
ExecutorStep(w) ==
  /\ ~crashed
  /\ \/ CheckCtx(w) \/ FinishCtx(w)
     \/ HandlerStarts(w) \/ HandlerReturns(w) \/ FinishSuccess(w)
     \/ RecordFailure(w) \/ DelayElapsed(w) \/ DelayCtxDone(w)
     \/ FinishDelay(w) \/ FinishExhausted(w)

-----------------------------------------------------------------------------
\* The context of a task: its first error stays.
EndCtx(t, e) == IF ctxErr[t] = "none" THEN e ELSE ctxErr[t]

\* Cancel, when it returns TRUE; otherwise it changes nothing.
CancelKeepsCtx(t) ==            \* mutant: t.cancel() is not called
  /\ ~crashed
  /\ state[t] = "running"
  /\ Close(t, "cancelled", "task cancelled")
  /\ UNCHANGED <<retryCount, ctxErr, poolCtxDone, pc, cur, attempt>>

Cancel(t) ==
  /\ ~crashed
  /\ state[t] = "running"
  /\ ctxErr' = [ctxErr EXCEPT ![t] = EndCtx(t, "canceled")]
  /\ Close(t, "cancelled", "task cancelled")
  /\ UNCHANGED <<retryCount, poolCtxDone, pc, cur, attempt>>

\* The timer of context.WithTimeout fires.  execute never calls t.cancel, so it
\* may fire after the task is finished.
Deadline(t) ==
  /\ ~crashed
  /\ state[t] # "pending"
  /\ ctxErr[t] = "none"
  /\ ctxErr' = [ctxErr EXCEPT ![t] = "deadline exceeded"]
  /\ UNCHANGED <<state, err, done, retryCount, poolCtxDone, pc, cur, attempt,
                 crashed>>

\* p.cancel(): the contexts derived from the pool's are cancelled with it.
CancelPoolCtx ==
  /\ poolCtxDone' = TRUE
  /\ ctxErr' = [t \in Tasks |-> IF state[t] = "pending"
                                THEN ctxErr[t] ELSE EndCtx(t, "canceled")]

PoolCancel ==
  /\ ~crashed
  /\ CancelPoolCtx
  /\ UNCHANGED <<state, err, done, retryCount, pc, cur, attempt, crashed>>

-----------------------------------------------------------------------------
TaskNext ==
  \/ \E w \in Executors : \/ \E t \in Tasks : ~crashed /\ Execute(w, t)
                          \/ ExecutorStep(w)
  \/ \E t \in Tasks : Cancel(t) \/ Deadline(t)
  \/ PoolCancel

TaskSpec == TaskInit /\ [][TaskNext]_taskVars

\* A goroutine is scheduled, a timer fires, and the handler is one that
\* returns.  Nobody is obliged to cancel, and no deadline has to pass.
TaskFairSpec == TaskSpec /\ \A w \in Executors : WF_taskVars(ExecutorStep(w))

-----------------------------------------------------------------------------
(* Properties *)

TypeOK ==
  /\ state \in [Tasks -> TaskStates]
  /\ err \in [Tasks -> TaskErrs]
  /\ done \in [Tasks -> BOOLEAN]
  /\ retryCount \in [Tasks -> Nat]
  /\ ctxErr \in [Tasks -> CtxErrs]
  /\ poolCtxDone \in BOOLEAN
  /\ pc \in [Executors -> PcValues]
  /\ cur \in [Executors -> Tasks \cup {NoTask}]
  /\ attempt \in [Executors -> Nat]
  /\ crashed \in BOOLEAN

Executing(w, t) == pc[w] # "idle" /\ cur[w] = t

\* t.Cancel() has returned TRUE.
Cancelled(t) == err[t] = "task cancelled"

\* A task handed to several executors (submitted twice) is executed by one.
SingleExecution ==
  \A t \in Tasks, v, w \in Executors :
    Executing(v, t) /\ Executing(w, t) => v = w

\* The process is killed by a second close(t.done) only after some Cancel
\* returned TRUE: contexts that end, retries and duplicate submissions never
\* do it.
CrashOnlyAfterCancel == crashed => \E t \in Tasks : Cancelled(t)

\* Whoever sees the channel closed (Wait returned TRUE) gets an outcome from
\* Result, and a decided task never keeps a waiter.
WaitersSeeResult ==
  \A t \in Tasks : Wait(t) <=> Result(t) # <<"task not completed">>

\* How a task ends agrees with the handler calls that were made: failed means
\* that every one of the MaxRetries+1 calls failed and that the error is the
\* handler's, or, when MaxRetries is negative, that no call was made and there
\* is no error; success and timeout mean that the retries were not used up.
\* (A task may be cancelled after its last failure as well as before it.)
OutcomeMatchesRetries ==
  \A t \in Tasks :
    /\ state[t] = "failed" =>
         IF MaxRetries[t] >= 0
         THEN retryCount[t] = MaxRetries[t] + 1 /\ err[t] = "handler error"
         ELSE retryCount[t] = 0 /\ err[t] = "none"
    /\ state[t] \in {"success", "timeout"} => retryCount[t] <= MaxRetries[t]

\* An executor goes past the select of its loop only while its task is
\* undecided.  A Cancel may still come before the handler is called, so a call
\* can begin on a decided task; the context that call is given has then ended.
LateCallIsCancelled ==
  [][\A w \in Executors :
       /\ pc[w] = "loop" /\ pc'[w] = "calling" => ~done[cur[w]]
       /\ pc[w] = "calling" /\ pc'[w] = "handler" /\ done[cur[w]]
            => ctxErr[cur[w]] # "none"]_taskVars

\* What Result returned once it returns for ever.
ResultStable ==
  [][\A t \in Tasks : done[t] => Result(t)' = Result(t)]_taskVars

\* A task that was started is decided, in a process that survives: the retry
\* loop ends without the help of the deadline.
StartedIsDecided ==
  \A t \in Tasks : state[t] = "running" ~> (done[t] \/ crashed)

Promise == INSTANCE TaskPromise WITH outcome <- state

\* The task keeps the promise of TaskPromise.
KeepsPromise == Promise!PromiseSpec

\* README.md:263 "支持重试、超时、取消": a task can be cancelled, so cancelling
\* one must not take the process down.
CancelIsSafe == ~crashed
=============================================================================
