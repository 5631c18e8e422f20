-------------------------- MODULE AsyncTaskProofs --------------------------
(***************************************************************************)
(* The safety properties of AsyncTask, for any number of tasks and         *)
(* executors and any MaxRetries.  One inductive invariant, IInv, carries   *)
(* all of them.                                                            *)
(***************************************************************************)
EXTENDS AsyncTask, TLAPS

-----------------------------------------------------------------------------
(* The inductive invariant. *)

\* An executor that is inside execute holds a task that has been started.
HoldsStarted ==
  \A w \in Executors :
    IF pc[w] = "idle" THEN cur[w] = NoTask /\ attempt[w] = 0
                      ELSE cur[w] \in Tasks /\ state[cur[w]] # "pending"

\* t.state, t.err and t.done are decided together; a task still executed
\* after that was decided by Cancel, which also ended its context.
DecidedTogether ==
  \A t \in Tasks :
    /\ done[t] <=> state[t] \in Terminal
    /\ Cancelled(t) => state[t] = "cancelled" /\ ctxErr[t] # "none"
    /\ \A w \in Executors : Executing(w, t) /\ done[t] => Cancelled(t)

\* Where the retry loop stands against Task.retryCount: p the place in
\* execute, r the count, a the attempt, m the maximum.
Counted(p, r, a, m) ==
  /\ p \in {"loop", "ctxDone", "calling", "handler", "returned", "failed"}
       => r = a /\ a <= m
  /\ p \in {"delay", "delayDone"} => r = a + 1 /\ a < m
  /\ p = "exhausted" => r = IF m < 0 THEN 0 ELSE m + 1

RetriesCounted ==
  /\ \A t \in Tasks : state[t] = "pending" => retryCount[t] = 0
  /\ \A w \in Executors :
       pc[w] # "idle" =>
         Counted(pc[w], retryCount[cur[w]], attempt[w], MaxRetries[cur[w]])

IInv ==
  /\ TypeOK
  /\ HoldsStarted
  /\ SingleExecution
  /\ DecidedTogether
  /\ RetriesCounted
  /\ OutcomeMatchesRetries
  /\ CrashOnlyAfterCancel

-----------------------------------------------------------------------------
LEMMA InitInv == TaskInit => IInv
<1> SUFFICES ASSUME TaskInit PROVE IInv
  OBVIOUS
<1> USE DEF TaskInit, Executing, Cancelled
<1>1. TypeOK
  BY DEF TypeOK, TaskStates, TaskErrs, CtxErrs, PcValues
<1>2. HoldsStarted /\ SingleExecution
  BY DEF HoldsStarted, SingleExecution
<1>3. DecidedTogether
  BY DEF DecidedTogether, Terminal
<1>4. RetriesCounted /\ OutcomeMatchesRetries
  BY DEF RetriesCounted, OutcomeMatchesRetries
<1>5. CrashOnlyAfterCancel
  BY DEF CrashOnlyAfterCancel
<1> QED
  BY <1>1, <1>2, <1>3, <1>4, <1>5 DEF IInv

\* The first critical section of execute: only a pending task, which nobody
\* executes.
LEMMA ExecuteInv ==
  ASSUME IInv, NEW w \in Executors, NEW t \in Tasks, Execute(w, t)
  PROVE  IInv'
<1> USE MaxRetriesAssumption, NoTaskAssumption
    DEF IInv, TypeOK, Execute, Executing, Cancelled
<1>1. TypeOK'
  BY DEF TaskStates, Terminal, CtxErrs, PcValues
<1>2. HoldsStarted'
  BY DEF HoldsStarted
<1>3. SingleExecution'
  BY DEF SingleExecution, HoldsStarted
<1>4. DecidedTogether'
  BY DEF DecidedTogether, Terminal, HoldsStarted
<1>5. RetriesCounted'
  <2>1. \A v \in Executors \ {w} :
          pc'[v] = pc[v] /\ cur'[v] = cur[v] /\ attempt'[v] = attempt[v]
    OBVIOUS
  <2>2. /\ cur'[w] = t /\ attempt'[w] = 0 /\ retryCount'[t] = 0
        /\ pc'[w] = IF 0 <= MaxRetries[t] THEN "loop" ELSE "exhausted"
    BY DEF RetriesCounted, HoldsStarted
  <2>3. \A u \in Tasks : state'[u] = "pending" => retryCount'[u] = 0
    BY DEF RetriesCounted
  <2>4. \A v \in Executors \ {w} : pc'[v] # "idle" =>
          Counted(pc'[v], retryCount'[cur'[v]], attempt'[v],
                  MaxRetries[cur'[v]])
    BY <2>1 DEF RetriesCounted
  <2>5. MaxRetries[t] \in Int
    OBVIOUS
  <2> HIDE DEF IInv, TypeOK, Execute
  <2>6. Counted(pc'[w], retryCount'[cur'[w]], attempt'[w], MaxRetries[cur'[w]])
    <3>1. CASE 0 <= MaxRetries[t]
      BY <2>2, <2>5, <3>1 DEF Counted
    <3>2. CASE MaxRetries[t] < 0
      BY <2>2, <2>5, <3>2 DEF Counted
    <3> QED
      BY <2>5, <3>1, <3>2
  <2> QED
    BY <2>3, <2>4, <2>6 DEF RetriesCounted
<1>6. OutcomeMatchesRetries'
  BY DEF OutcomeMatchesRetries, HoldsStarted
<1>7. CrashOnlyAfterCancel'
  BY DEF CrashOnlyAfterCancel
<1> QED
  BY <1>1, <1>2, <1>3, <1>4, <1>5, <1>6, <1>7

\* The steps inside the loop, which decide nothing.
LoopStep(w) ==
  CheckCtx(w) \/ HandlerStarts(w) \/ HandlerReturns(w) \/ RecordFailure(w)
    \/ DelayElapsed(w) \/ DelayCtxDone(w)

LEMMA LoopInv ==
  ASSUME IInv, NEW w \in Executors, LoopStep(w)
  PROVE  IInv'
<1> USE MaxRetriesAssumption, NoTaskAssumption
    DEF IInv, TypeOK, LoopStep, CheckCtx, HandlerStarts, HandlerReturns,
        RecordFailure, DelayElapsed, DelayCtxDone, Goto, Executing, Cancelled
<1>0. /\ cur[w] \in Tasks /\ cur' = cur
      /\ pc[w] # "idle" /\ pc'[w] # "idle"
      /\ \A v \in Executors \ {w} : pc'[v] = pc[v] /\ attempt'[v] = attempt[v]
      /\ UNCHANGED <<state, err, done, ctxErr, poolCtxDone, crashed>>
  BY DEF HoldsStarted
<1>1. TypeOK'
  BY <1>0 DEF PcValues
<1>2. HoldsStarted'
  BY <1>0 DEF HoldsStarted
<1>3. SingleExecution'
  BY <1>0 DEF SingleExecution
<1>4. DecidedTogether'
  <2>1. \A v \in Executors, t \in Tasks : Executing(v, t)' <=> Executing(v, t)
    BY <1>0
  <2> HIDE DEF TypeOK, Executing, LoopStep
  <2> QED
    BY <1>0, <2>1 DEF DecidedTogether
<1>5. RetriesCounted'
  <2>1. \A t \in Tasks : state'[t] = "pending" => retryCount'[t] = 0
    BY <1>0 DEF RetriesCounted, HoldsStarted
  <2>2. \A v \in Executors \ {w} :
          pc[v] # "idle" => cur[v] # cur[w] /\ cur[v] \in Tasks
    BY <1>0 DEF SingleExecution, HoldsStarted
  <2>3. \A v \in Executors \ {w} : pc'[v] # "idle" =>
          Counted(pc'[v], retryCount'[cur'[v]], attempt'[v],
                  MaxRetries[cur'[v]])
    <3>1. \A v \in Executors \ {w} :
            pc[v] # "idle" => retryCount'[cur[v]] = retryCount[cur[v]]
      BY <1>0, <2>2
    <3> QED
      BY <1>0, <3>1 DEF RetriesCounted
  <2>4. Counted(pc[w], retryCount[cur[w]], attempt[w], MaxRetries[cur[w]])
    BY <1>0 DEF RetriesCounted
  <2>5. Counted(pc'[w], retryCount'[cur[w]], attempt'[w], MaxRetries[cur[w]])
    BY <1>0, <2>4 DEF Counted
  <2> HIDE DEF IInv, TypeOK, LoopStep
  <2> QED
    BY <1>0, <2>1, <2>3, <2>5 DEF RetriesCounted
<1>6. OutcomeMatchesRetries'
  <2>1. state[cur[w]] \notin {"failed", "success", "timeout"}
    BY <1>0 DEF DecidedTogether, Terminal, HoldsStarted
  <2>2. \A t \in Tasks \ {cur[w]} : retryCount'[t] = retryCount[t]
    BY <1>0
  <2> QED
    BY <1>0, <2>1, <2>2 DEF OutcomeMatchesRetries
<1>7. CrashOnlyAfterCancel'
  BY <1>0 DEF CrashOnlyAfterCancel
<1> QED
  BY <1>1, <1>2, <1>3, <1>4, <1>5, <1>6, <1>7

\* The critical sections that end execute.
FinishStep(w) ==
  FinishCtx(w) \/ FinishSuccess(w) \/ FinishDelay(w) \/ FinishExhausted(w)

\* Whichever it is, Close is given an outcome that the retries explain.
LEMMA FinishCloses ==
  ASSUME IInv, NEW w \in Executors, FinishStep(w)
  PROVE  /\ pc[w] # "idle" /\ cur[w] \in Tasks
         /\ Return(w)
         /\ UNCHANGED <<retryCount, ctxErr, poolCtxDone>>
         /\ \E s \in Terminal, e \in TaskErrs \ {"task cancelled"} :
              /\ Close(cur[w], s, e)
              /\ s = "failed" =>
                   IF MaxRetries[cur[w]] >= 0
                   THEN /\ retryCount[cur[w]] = MaxRetries[cur[w]] + 1
                        /\ e = "handler error"
                   ELSE retryCount[cur[w]] = 0 /\ e = "none"
              /\ s \in {"success", "timeout"}
                   => retryCount[cur[w]] <= MaxRetries[cur[w]]
<1> USE MaxRetriesAssumption DEF IInv, TypeOK, HoldsStarted, RetriesCounted, Counted
<1>0. pc[w] # "idle" /\ cur[w] \in Tasks
  BY DEF FinishStep, FinishCtx, FinishSuccess, FinishDelay, FinishExhausted
<1>1. CASE FinishCtx(w)
  <2> DEFINE s == IF ctxErr[cur[w]] = "deadline exceeded" THEN "timeout"
                                                          ELSE "cancelled"
  <2>1. s \in Terminal /\ ctxErr[cur[w]] \in TaskErrs \ {"task cancelled"}
    BY <1>0 DEF Terminal, TaskErrs, CtxErrs
  <2>2. Close(cur[w], s, ctxErr[cur[w]]) /\ s # "failed"
    BY <1>1 DEF FinishCtx
  <2>3. retryCount[cur[w]] <= MaxRetries[cur[w]]
    BY <1>0, <1>1 DEF FinishCtx
  <2> QED
    BY <1>0, <1>1, <2>1, <2>2, <2>3 DEF FinishCtx
<1>2. CASE FinishSuccess(w)
  <2>1. retryCount[cur[w]] <= MaxRetries[cur[w]]
    BY <1>0, <1>2 DEF FinishSuccess
  <2> QED
    BY <1>0, <1>2, <2>1 DEF FinishSuccess, Terminal, TaskErrs, CtxErrs
<1>3. CASE FinishDelay(w)
  <2>1. retryCount[cur[w]] <= MaxRetries[cur[w]]
    BY <1>0, <1>3 DEF FinishDelay
  <2>2. ctxErr[cur[w]] \in TaskErrs \ {"task cancelled"}
    BY <1>0 DEF TaskErrs, CtxErrs
  <2> QED
    BY <1>0, <1>3, <2>1, <2>2 DEF FinishDelay, Terminal
<1>4. CASE FinishExhausted(w)
  <2> DEFINE e == IF retryCount[cur[w]] = 0 THEN "none" ELSE "handler error"
  <2>1. e \in TaskErrs \ {"task cancelled"}
    BY DEF TaskErrs, CtxErrs
  <2>2. Close(cur[w], "failed", e)
    BY <1>4 DEF FinishExhausted
  <2>3. pc[w] = "exhausted" /\ MaxRetries[cur[w]] \in Int
    BY <1>0, <1>4 DEF FinishExhausted
  <2>4. retryCount[cur[w]] =
          IF MaxRetries[cur[w]] < 0 THEN 0 ELSE MaxRetries[cur[w]] + 1
    BY <1>0, <2>3
  <2>5. IF MaxRetries[cur[w]] >= 0
        THEN /\ retryCount[cur[w]] = MaxRetries[cur[w]] + 1
             /\ e = "handler error"
        ELSE retryCount[cur[w]] = 0 /\ e = "none"
    BY <2>3, <2>4
  <2> HIDE DEF e
  <2> QED
    BY <1>0, <1>4, <2>1, <2>2, <2>5 DEF FinishExhausted, Terminal
<1> QED
  BY <1>1, <1>2, <1>3, <1>4 DEF FinishStep

\* The executor is idle afterwards and the others stay where they were.
LEMMA FinishLeaves ==
  ASSUME IInv, NEW w \in Executors, FinishStep(w)
  PROVE  /\ pc'[w] = "idle" /\ cur'[w] = NoTask /\ attempt'[w] = 0
         /\ \A v \in Executors \ {w} :
              pc'[v] = pc[v] /\ cur'[v] = cur[v] /\ attempt'[v] = attempt[v]
         /\ \A v \in Executors, t \in Tasks :
              Executing(v, t)' <=> v # w /\ Executing(v, t)
<1> USE DEF IInv, TypeOK, Executing
<1>1. Return(w)
  BY FinishCloses
<1>2. /\ pc'[w] = "idle" /\ cur'[w] = NoTask /\ attempt'[w] = 0
      /\ \A v \in Executors \ {w} :
           pc'[v] = pc[v] /\ cur'[v] = cur[v] /\ attempt'[v] = attempt[v]
  BY <1>1 DEF Return
<1>3. \A v \in Executors, t \in Tasks :
        Executing(v, t)' <=> v # w /\ Executing(v, t)
  BY <1>2
<1> QED
  BY <1>2, <1>3

LEMMA FinishInv ==
  ASSUME IInv, NEW w \in Executors, FinishStep(w)
  PROVE  IInv'
<1>0. PICK s \in Terminal, e \in TaskErrs \ {"task cancelled"} :
        /\ Close(cur[w], s, e)
        /\ s = "failed" =>
             IF MaxRetries[cur[w]] >= 0
             THEN /\ retryCount[cur[w]] = MaxRetries[cur[w]] + 1
                  /\ e = "handler error"
             ELSE retryCount[cur[w]] = 0 /\ e = "none"
        /\ s \in {"success", "timeout"}
             => retryCount[cur[w]] <= MaxRetries[cur[w]]
  BY FinishCloses
<1>1. /\ pc[w] # "idle" /\ cur[w] \in Tasks /\ Executing(w, cur[w])
      /\ Return(w)
      /\ UNCHANGED <<retryCount, ctxErr, poolCtxDone>>
  BY FinishCloses DEF Executing
<1>2. /\ pc'[w] = "idle" /\ cur'[w] = NoTask /\ attempt'[w] = 0
      /\ \A v \in Executors \ {w} :
           pc'[v] = pc[v] /\ cur'[v] = cur[v] /\ attempt'[v] = attempt[v]
  BY FinishLeaves
<1>3. \A v \in Executors, t \in Tasks :
        Executing(v, t)' <=> v # w /\ Executing(v, t)
  BY FinishLeaves
<1>4. SingleExecution'
  <2> SUFFICES ASSUME NEW t \in Tasks, NEW u \in Executors,
                      NEW v \in Executors, Executing(u, t)', Executing(v, t)'
               PROVE  u = v
    BY DEF SingleExecution
  <2>1. Executing(u, t) /\ Executing(v, t)
    BY <1>3
  <2> QED
    BY <2>1 DEF IInv, SingleExecution
<1>5. /\ pc' \in [Executors -> PcValues]
      /\ cur' \in [Executors -> Tasks \cup {NoTask}]
      /\ attempt' \in [Executors -> Nat]
  BY <1>1 DEF Return, IInv, TypeOK, PcValues
<1>6. CASE done[cur[w]]
  <2>1. crashed' = TRUE /\ UNCHANGED <<state, err, done>>
    BY <1>0, <1>6 DEF Close
  <2>2. Cancelled(cur[w])
    BY <1>1, <1>6 DEF IInv, DecidedTogether
  <2>3. TypeOK'
    BY <1>1, <1>5, <2>1 DEF IInv, TypeOK
  <2>4. HoldsStarted'
    BY <1>2, <2>1 DEF IInv, HoldsStarted
  <2>5. DecidedTogether'
    <3> SUFFICES ASSUME NEW t \in Tasks
                 PROVE  /\ done'[t] <=> state'[t] \in Terminal
                        /\ Cancelled(t)' => /\ state'[t] = "cancelled"
                                            /\ ctxErr'[t] # "none"
                        /\ \A v \in Executors :
                             Executing(v, t)' /\ done'[t] => Cancelled(t)'
      BY DEF DecidedTogether
    <3>1. Cancelled(t)' <=> Cancelled(t)
      BY <2>1 DEF Cancelled
    <3> QED
      BY <1>1, <1>3, <2>1, <3>1 DEF IInv, DecidedTogether
  <2>6. RetriesCounted'
    BY <1>1, <1>2, <2>1 DEF IInv, RetriesCounted
  <2>7. OutcomeMatchesRetries'
    BY <1>1, <2>1 DEF IInv, OutcomeMatchesRetries
  <2>8. CrashOnlyAfterCancel'
    BY <1>1, <2>1, <2>2 DEF CrashOnlyAfterCancel, Cancelled
  <2> QED
    BY <1>4, <2>3, <2>4, <2>5, <2>6, <2>7, <2>8 DEF IInv
<1>7. CASE ~done[cur[w]]
  <2>1. /\ state' = [state EXCEPT ![cur[w]] = s]
        /\ err' = [err EXCEPT ![cur[w]] = e]
        /\ done' = [done EXCEPT ![cur[w]] = TRUE]
        /\ crashed' = crashed
    BY <1>0, <1>7 DEF Close
  <2>2. /\ state'[cur[w]] = s /\ err'[cur[w]] = e /\ done'[cur[w]]
        /\ \A t \in Tasks \ {cur[w]} :
             state'[t] = state[t] /\ err'[t] = err[t] /\ done'[t] = done[t]
    BY <1>1, <2>1 DEF IInv, TypeOK
  <2>3. state[cur[w]] # "cancelled" /\ ~Cancelled(cur[w])
    BY <1>1, <1>7 DEF IInv, DecidedTogether, Terminal
  <2>4. TypeOK'
    BY <1>1, <1>5, <2>1 DEF IInv, TypeOK, TaskStates
  <2>5. HoldsStarted'
    <3>1. \A t \in Tasks : state'[t] = "pending" => state[t] = "pending"
      BY <1>1, <2>2 DEF Terminal
    <3>2. \A v \in Executors :
            IF pc'[v] = "idle" THEN cur'[v] = NoTask /\ attempt'[v] = 0
                               ELSE /\ cur'[v] \in Tasks
                                    /\ state'[cur'[v]] # "pending"
      BY <1>2, <3>1 DEF IInv, HoldsStarted
    <3> QED
      BY <3>2 DEF HoldsStarted
  <2>6. DecidedTogether'
    <3> SUFFICES ASSUME NEW t \in Tasks
                 PROVE  /\ done'[t] <=> state'[t] \in Terminal
                        /\ Cancelled(t)' => /\ state'[t] = "cancelled"
                                            /\ ctxErr'[t] # "none"
                        /\ \A v \in Executors :
                             Executing(v, t)' /\ done'[t] => Cancelled(t)'
      BY DEF DecidedTogether
    <3>1. CASE t = cur[w]
      <4>1. \A v \in Executors : ~Executing(v, t)'
        BY <1>1, <1>3, <3>1 DEF IInv, SingleExecution
      <4>2. done'[t] /\ state'[t] \in Terminal /\ ~Cancelled(t)'
        BY <2>2, <3>1 DEF Cancelled
      <4> QED
        BY <4>1, <4>2
    <3>2. CASE t # cur[w]
      <4>1. /\ done'[t] = done[t] /\ state'[t] = state[t]
            /\ Cancelled(t)' = Cancelled(t) /\ ctxErr'[t] = ctxErr[t]
        BY <1>1, <2>2, <3>2 DEF Cancelled
      <4> QED
        BY <1>3, <4>1 DEF IInv, DecidedTogether
    <3> QED
      BY <3>1, <3>2
  <2>7. RetriesCounted'
    <3>1. \A t \in Tasks : state'[t] = "pending" => retryCount'[t] = 0
      BY <1>1, <2>2 DEF IInv, RetriesCounted, Terminal
    <3>2. \A v \in Executors : pc'[v] # "idle" =>
            /\ pc[v] # "idle"
            /\ Counted(pc'[v], retryCount'[cur'[v]], attempt'[v],
                       MaxRetries[cur'[v]])
      BY <1>1, <1>2 DEF IInv, RetriesCounted
    <3> QED
      BY <3>1, <3>2 DEF RetriesCounted
  <2>8. OutcomeMatchesRetries'
    BY <1>0, <1>1, <2>2 DEF IInv, OutcomeMatchesRetries
  <2>9. CrashOnlyAfterCancel'
    <3>1. \A t \in Tasks : Cancelled(t) => Cancelled(t)'
      BY <2>2, <2>3 DEF Cancelled
    <3> QED
      BY <2>1, <3>1 DEF IInv, CrashOnlyAfterCancel
  <2> QED
    BY <1>4, <2>4, <2>5, <2>6, <2>7, <2>8, <2>9 DEF IInv
<1> QED
  BY <1>6, <1>7

LEMMA CancelInv ==
  ASSUME IInv, NEW t \in Tasks, Cancel(t)
  PROVE  IInv'
<1> USE DEF IInv, TypeOK, Executing, Cancelled
<1>0. /\ state' = [state EXCEPT ![t] = "cancelled"]
      /\ err' = [err EXCEPT ![t] = "task cancelled"]
      /\ done' = [done EXCEPT ![t] = TRUE]
      /\ ctxErr' = [ctxErr EXCEPT ![t] = EndCtx(t, "canceled")]
      /\ EndCtx(t, "canceled") \in CtxErrs \ {"none"}
      /\ state[t] = "running"
      /\ UNCHANGED <<retryCount, poolCtxDone, pc, cur, attempt, crashed>>
  BY DEF Cancel, Close, DecidedTogether, Terminal, EndCtx, CtxErrs
<1>1. TypeOK'
  BY <1>0 DEF TaskStates, Terminal, TaskErrs
<1>2. HoldsStarted'
  BY <1>0 DEF HoldsStarted
<1>6. SingleExecution'
  BY <1>0 DEF SingleExecution
<1>3. DecidedTogether'
  <2> SUFFICES ASSUME NEW u \in Tasks
               PROVE  /\ done'[u] <=> state'[u] \in Terminal
                      /\ Cancelled(u)' => /\ state'[u] = "cancelled"
                                          /\ ctxErr'[u] # "none"
                      /\ \A v \in Executors :
                           Executing(v, u)' /\ done'[u] => Cancelled(u)'
    BY DEF DecidedTogether
  <2>1. CASE u = t
    BY <1>0, <2>1 DEF Terminal
  <2>2. CASE u # t
    <3>1. /\ done'[u] = done[u] /\ state'[u] = state[u]
          /\ err'[u] = err[u] /\ ctxErr'[u] = ctxErr[u]
      BY <1>0, <2>2
    <3> QED
      BY <1>0, <3>1 DEF DecidedTogether
  <2> QED
    BY <2>1, <2>2
<1>4. RetriesCounted' /\ OutcomeMatchesRetries'
  BY <1>0 DEF RetriesCounted, OutcomeMatchesRetries
<1>5. CrashOnlyAfterCancel'
  BY <1>0 DEF CrashOnlyAfterCancel
<1> QED
  BY <1>1, <1>2, <1>3, <1>4, <1>5, <1>6

\* Contexts that end touch nothing but themselves.
LEMMA ContextInv ==
  ASSUME IInv, PoolCancel \/ \E t \in Tasks : Deadline(t)
  PROVE  IInv'
<1> USE DEF IInv, TypeOK, Executing, Cancelled
<1>0. /\ UNCHANGED <<state, err, done, retryCount, pc, cur, attempt, crashed>>
      /\ ctxErr' \in [Tasks -> CtxErrs] /\ poolCtxDone' \in BOOLEAN
      /\ \A t \in Tasks : ctxErr[t] # "none" => ctxErr'[t] # "none"
  BY DEF PoolCancel, CancelPoolCtx, EndCtx, Deadline, CtxErrs
<1>1. TypeOK'
  BY <1>0
<1>2. HoldsStarted' /\ SingleExecution'
  BY <1>0 DEF HoldsStarted, SingleExecution
<1>3. DecidedTogether'
  BY <1>0 DEF DecidedTogether
<1>4. RetriesCounted' /\ OutcomeMatchesRetries'
  BY <1>0 DEF RetriesCounted, OutcomeMatchesRetries
<1>5. CrashOnlyAfterCancel'
  BY <1>0 DEF CrashOnlyAfterCancel
<1> QED
  BY <1>1, <1>2, <1>3, <1>4, <1>5

LEMMA StutterInv == IInv /\ UNCHANGED taskVars => IInv'
<1> SUFFICES ASSUME IInv, UNCHANGED taskVars PROVE IInv'
  OBVIOUS
<1> USE DEF IInv, taskVars, Executing, Cancelled
<1>1. TypeOK' /\ CrashOnlyAfterCancel'
  BY DEF TypeOK, CrashOnlyAfterCancel
<1>2. HoldsStarted' /\ SingleExecution'
  BY DEF HoldsStarted, SingleExecution
<1>3. DecidedTogether'
  BY DEF DecidedTogether
<1>4. RetriesCounted' /\ OutcomeMatchesRetries'
  BY DEF RetriesCounted, OutcomeMatchesRetries
<1> QED
  BY <1>1, <1>2, <1>3, <1>4

LEMMA NextInv == IInv /\ [TaskNext]_taskVars => IInv'
<1> SUFFICES ASSUME IInv, [TaskNext]_taskVars PROVE IInv'
  OBVIOUS
<1>1. ASSUME NEW w \in Executors, NEW t \in Tasks, Execute(w, t) PROVE IInv'
  BY <1>1, ExecuteInv
<1>2. ASSUME NEW w \in Executors, ExecutorStep(w) PROVE IInv'
  BY <1>2, LoopInv, FinishInv DEF ExecutorStep, LoopStep, FinishStep
<1>3. ASSUME NEW t \in Tasks, Cancel(t) PROVE IInv'
  BY <1>3, CancelInv
<1>4. CASE PoolCancel \/ \E t \in Tasks : Deadline(t)
  BY <1>4, ContextInv
<1>5. CASE UNCHANGED taskVars
  BY <1>5, StutterInv
<1> QED
  BY <1>1, <1>2, <1>3, <1>4, <1>5 DEF TaskNext

-----------------------------------------------------------------------------
\* IInv is an invariant of every run of the tasks of a pool.
THEOREM Invariance == TaskSpec => []IInv
<1>1. TaskInit => IInv
  BY InitInv
<1>2. IInv /\ [TaskNext]_taskVars => IInv'
  BY NextInv
<1> QED
  BY <1>1, <1>2, PTL DEF TaskSpec

\* The fields of the tasks keep their types.
THEOREM TypeCorrect == TaskSpec => []TypeOK
<1>1. IInv => TypeOK
  BY DEF IInv
<1> QED
  BY <1>1, Invariance, PTL

\* execute runs a task on one goroutine only, however often it was submitted.
THEOREM ExecutesOnce == TaskSpec => []SingleExecution
<1>1. IInv => SingleExecution
  BY DEF IInv
<1> QED
  BY <1>1, Invariance, PTL

\* close(t.done) is called twice only after a Cancel that returned TRUE.
THEOREM CrashNeedsCancel == TaskSpec => []CrashOnlyAfterCancel
<1>1. IInv => CrashOnlyAfterCancel
  BY DEF IInv
<1> QED
  BY <1>1, Invariance, PTL

\* Wait and Result agree in every state.
THEOREM WaitAgreesWithResult == TaskSpec => []WaitersSeeResult
<1>1. IInv => WaitersSeeResult
  BY DEF IInv, DecidedTogether, WaitersSeeResult, Wait, Result
<1> QED
  BY <1>1, Invariance, PTL

\* The outcome of a task agrees with the number of handler calls made.
THEOREM RetriesExplainOutcome == TaskSpec => []OutcomeMatchesRetries
<1>1. IInv => OutcomeMatchesRetries
  BY DEF IInv
<1> QED
  BY <1>1, Invariance, PTL

\* A step past the select of the loop finds the task undecided, and a call that
\* begins on a decided task has a context that has ended: only a Cancel decides
\* a task that is being executed.
LEMMA StepHeedsContext ==
  ASSUME IInv, [TaskNext]_taskVars, NEW v \in Executors
  PROVE  /\ pc[v] = "loop" /\ pc'[v] = "calling" => ~done[cur[v]]
         /\ pc[v] = "calling" /\ pc'[v] = "handler" /\ done[cur[v]]
              => ctxErr[cur[v]] # "none"
<1>1. ASSUME pc[v] # "idle", done[cur[v]]
      PROVE  ctxErr[cur[v]] # "none"
  <2>1. cur[v] \in Tasks /\ Executing(v, cur[v])
    BY <1>1 DEF IInv, HoldsStarted, Executing
  <2> QED
    BY <1>1, <2>1 DEF IInv, DecidedTogether
<1>2. ASSUME pc[v] = "loop", pc'[v] = "calling" PROVE ctxErr[cur[v]] = "none"
  <2>1. ASSUME NEW w \in Executors, NEW t \in Tasks, Execute(w, t)
        PROVE  FALSE
    BY <1>2, <2>1 DEF Execute, IInv, TypeOK
  <2>2. ASSUME NEW w \in Executors, LoopStep(w)
        PROVE  ctxErr[cur[v]] = "none"
    BY <1>2, <2>2 DEF LoopStep, CheckCtx, HandlerStarts, HandlerReturns,
         RecordFailure, DelayElapsed, DelayCtxDone, Goto, IInv, TypeOK
  <2>3. ASSUME NEW w \in Executors, FinishStep(w) PROVE FALSE
    BY <1>2, <2>3, FinishLeaves
  <2>4. CASE \/ \E t \in Tasks : Cancel(t) \/ Deadline(t)
             \/ PoolCancel \/ UNCHANGED taskVars
    BY <1>2, <2>4 DEF Cancel, Deadline, PoolCancel, taskVars
  <2> QED
    BY <2>1, <2>2, <2>3, <2>4 DEF TaskNext, ExecutorStep, LoopStep, FinishStep
<1> QED
  BY <1>1, <1>2

\* An executor goes past its select only on an undecided task, and a handler
\* call that begins on a decided one has a context that has ended.
THEOREM LateCallsAreCancelled == TaskSpec => LateCallIsCancelled
<1>1. IInv /\ [TaskNext]_taskVars =>
        [\A w \in Executors :
           /\ pc[w] = "loop" /\ pc'[w] = "calling" => ~done[cur[w]]
           /\ pc[w] = "calling" /\ pc'[w] = "handler" /\ done[cur[w]]
                => ctxErr[cur[w]] # "none"]_taskVars
  BY StepHeedsContext
<1> QED
  BY <1>1, Invariance, PTL DEF TaskSpec, LateCallIsCancelled

\* What a step may do to the state of a task: nothing, or start a pending one,
\* or decide a running one.  A decided task keeps its error as well.
LEMMA StepKeepsPromise ==
  ASSUME IInv, [TaskNext]_taskVars
  PROVE  /\ [Promise!PromiseNext]_state
         /\ \A t \in Tasks : done[t] => /\ state'[t] = state[t]
                                        /\ err'[t] = err[t]
<1> USE DEF Promise!PromiseNext, Promise!Start, Promise!Decide,
            Promise!Decided
<1>1. ASSUME NEW w \in Executors, NEW t \in Tasks, Execute(w, t)
      PROVE  /\ Promise!Start(t)
             /\ \A u \in Tasks : done[u] => /\ state'[u] = state[u]
                                            /\ err'[u] = err[u]
  <2>1. ~done[t]
    BY <1>1 DEF Execute, IInv, DecidedTogether, Terminal
  <2> QED
    BY <1>1, <2>1 DEF Execute, IInv, TypeOK
<1>2. ASSUME NEW t \in Tasks, NEW s \in Terminal, NEW e \in TaskErrs,
             Close(t, s, e), state[t] # "pending"
      PROVE  /\ Promise!Decide(t) \/ UNCHANGED state
             /\ \A u \in Tasks : done[u] => /\ state'[u] = state[u]
                                            /\ err'[u] = err[u]
  <2>1. CASE done[t]
    BY <1>2, <2>1 DEF Close
  <2>2. CASE ~done[t]
    <3>1. state[t] = "running"
      BY <1>2, <2>2 DEF IInv, DecidedTogether, TypeOK, TaskStates
    <3>2. state' = [state EXCEPT ![t] = s] /\ err' = [err EXCEPT ![t] = e]
      BY <1>2, <2>2 DEF Close
    <3>3. Promise!Decide(t)
      BY <3>1, <3>2 DEF Terminal
    <3>4. \A u \in Tasks : done[u] => state'[u] = state[u] /\ err'[u] = err[u]
      BY <2>2, <3>2 DEF IInv, TypeOK
    <3> QED
      BY <3>3, <3>4
  <2> QED
    BY <2>1, <2>2
<1>3. ASSUME NEW w \in Executors, LoopStep(w)
      PROVE  UNCHANGED <<state, err>>
  BY <1>3 DEF LoopStep, CheckCtx, HandlerStarts, HandlerReturns, RecordFailure,
              DelayElapsed, DelayCtxDone
<1>4. ASSUME NEW w \in Executors, FinishStep(w)
      PROVE  /\ (\E t \in Tasks : Promise!Decide(t)) \/ UNCHANGED state
             /\ \A u \in Tasks : done[u] => /\ state'[u] = state[u]
                                            /\ err'[u] = err[u]
  <2>1. PICK s \in Terminal, e \in TaskErrs : Close(cur[w], s, e)
    BY <1>4, FinishCloses
  <2>2. cur[w] \in Tasks /\ state[cur[w]] # "pending"
    BY <1>4, FinishCloses DEF IInv, HoldsStarted
  <2> QED
    BY <1>2, <2>1, <2>2
<1>5. ASSUME NEW t \in Tasks, Cancel(t)
      PROVE  /\ Promise!Decide(t) \/ UNCHANGED state
             /\ \A u \in Tasks : done[u] => /\ state'[u] = state[u]
                                            /\ err'[u] = err[u]
  <2>1. Close(t, "cancelled", "task cancelled") /\ state[t] # "pending"
    BY <1>5 DEF Cancel
  <2>2. "cancelled" \in Terminal /\ "task cancelled" \in TaskErrs
    BY DEF Terminal, TaskErrs
  <2> QED
    BY <1>2, <2>1, <2>2
<1>6. CASE \/ \E t \in Tasks : Deadline(t)
           \/ PoolCancel \/ UNCHANGED taskVars
  BY <1>6 DEF Deadline, PoolCancel, taskVars
<1> HIDE DEF Promise!Start, Promise!Decide
<1> QED
  BY <1>1, <1>3, <1>4, <1>5, <1>6
  DEF TaskNext, ExecutorStep, LoopStep, FinishStep

\* What Result returned once it returns for ever.
THEOREM ResultsStay == TaskSpec => ResultStable
<1>1. IInv /\ [TaskNext]_taskVars =>
        [\A t \in Tasks : done[t] => Result(t)' = Result(t)]_taskVars
  <2> SUFFICES ASSUME IInv, [TaskNext]_taskVars, NEW t \in Tasks, done[t]
               PROVE  Result(t)' = Result(t)
    OBVIOUS
  <2>1. state'[t] = state[t] /\ err'[t] = err[t]
    BY StepKeepsPromise
  <2> QED
    BY <2>1 DEF Result
<1> QED
  BY <1>1, Invariance, PTL DEF TaskSpec, ResultStable

\* The machine of execute and Cancel implements the promise made for a task.
THEOREM Refinement == TaskSpec => KeepsPromise
<1>1. TaskInit => Promise!PromiseInit
  BY DEF TaskInit, Promise!PromiseInit
<1>2. IInv /\ [TaskNext]_taskVars => [Promise!PromiseNext]_state
  BY StepKeepsPromise
<1> QED
  BY <1>1, <1>2, Invariance, PTL
  DEF TaskSpec, KeepsPromise, Promise!PromiseSpec
=============================================================================
