-------------------------- MODULE AsyncPoolProofs --------------------------
(***************************************************************************)
(* The safety properties of AsyncPool, for any number of workers, tasks,   *)
(* submissions and calls of Stop, and any size of the queue.  The          *)
(* inductive invariant PInv is the conjunction of what the tasks, the      *)
(* goroutines and the delivery of submissions need.                        *)
(***************************************************************************)
EXTENDS AsyncPool, AsyncTaskProofs, FiniteSetTheorems

-----------------------------------------------------------------------------
(* The inductive invariant. *)

HoldsTask == \A w \in Workers : pc[w] # "idle" => cur[w] \in Tasks

\* A running task has a worker; done is closed for decided tasks only.
RunningIsExecuted ==
  \A t \in Tasks :
    /\ done[t] => state[t] \in Terminal
    /\ state[t] = "running" => \E w \in Workers : Executing(w, t)

TaskInv == TypeOK /\ HoldsTask /\ RunningIsExecuted

\* Where the goroutines are: a worker has a task only inside its loop, and
\* receives another one only when it has finished.
GoroutinesAgree ==
  /\ \A w \in Workers :
       /\ wpc[w] = "none" <=> dpc = "none"
       /\ pc[w] # "idle" \/ held[w] # None => wpc[w] = "loop"
       /\ held[w] # None => pc[w] = "idle"
  /\ hand # None <=> dpc = "scan"
  /\ \A c \in Stoppers :
       /\ stop[c] # "new" => dpc # "none"
       /\ stop[c] = "returned" => \A w \in Workers : wpc[w] = "exited"

\* DeliveredOnce, pair by pair.
Apart ==
  /\ hand \notin queue
  /\ \A w \in Workers :
       /\ ch[w] # None => ch[w] \notin queue /\ ch[w] # hand
       /\ held[w] # None => held[w] \notin queue /\ held[w] # hand
  /\ \A v, w \in Workers :
       /\ ch[v] # None => ch[v] # held[w]
       /\ v # w /\ ch[v] # None => ch[v] # ch[w]
       /\ v # w /\ held[v] # None => held[v] # held[w]

\* The pool's own half of PoolTypeOK.
PoolTypes ==
  /\ running \in BOOLEAN
  /\ queue \subseteq Submissions
  /\ sub \in [Submissions -> {"new", "checked", "accepted", "refused"}]
  /\ dpc \in {"none", "check", "pop", "scan", "exited"}
  /\ hand \in Submissions \cup {None}
  /\ scan \in 1..(MaxWorkers + 1)
  /\ ch \in [Workers -> Submissions \cup {None}]
  /\ wpc \in [Workers -> {"none", "loop", "exited"}]
  /\ held \in [Workers -> Submissions \cup {None}]
  /\ quitClosed \in BOOLEAN
  /\ stop \in [Stoppers -> {"new", "cancel", "close", "wait", "returned"}]

DeliveryInv ==
  /\ PoolTypes
  /\ GoroutinesAgree
  /\ Apart
  /\ NothingLost
  /\ QueueBound

PInv == TaskInv /\ DeliveryInv

-----------------------------------------------------------------------------
(* The tasks *)

\* What the steps of the tasks leave the rest of the pool: the invariant of the
\* tasks, and no task that becomes pending again.
NoneBack == \A t \in Tasks : state'[t] = "pending" => state[t] = "pending"

LEMMA ExecuteTask ==
  ASSUME TaskInv, NEW w \in Workers, NEW t \in Tasks, Execute(w, t)
  PROVE  TaskInv' /\ NoneBack /\ state'[t] # "pending"
<1> USE DEF TaskInv, TypeOK, Execute, Workers
<1>1. TypeOK'
  BY DEF TaskStates, Terminal, CtxErrs, PcValues
<1>2. HoldsTask' /\ NoneBack /\ state'[t] # "pending"
  BY DEF HoldsTask, NoneBack
<1>3. RunningIsExecuted'
  <2>1. /\ Executing(w, t)' /\ ~done[t] /\ done' = done
        /\ \A u \in Tasks \ {t} : state'[u] = state[u]
    BY DEF RunningIsExecuted, Terminal, Executing
  <2>2. \A v \in Workers, u \in Tasks : Executing(v, u) => Executing(v, u)'
    BY DEF Executing
  <2> QED
    BY <2>1, <2>2 DEF RunningIsExecuted
<1> QED
  BY <1>1, <1>2, <1>3

LEMMA LoopTask ==
  ASSUME TaskInv, NEW w \in Workers, LoopStep(w)
  PROVE  TaskInv' /\ NoneBack
<1> USE DEF TaskInv, TypeOK, Workers, LoopStep, CheckCtx, HandlerStarts,
            HandlerReturns, RecordFailure, DelayElapsed, DelayCtxDone, Goto
<1>0. /\ cur' = cur /\ pc[w] # "idle" /\ pc'[w] # "idle"
      /\ \A v \in Workers \ {w} : pc'[v] = pc[v]
      /\ UNCHANGED <<state, done>>
  OBVIOUS
<1>1. TypeOK'
  BY DEF PcValues
<1>2. HoldsTask' /\ NoneBack
  BY <1>0 DEF HoldsTask, NoneBack
<1>3. RunningIsExecuted'
  <2>1. \A v \in Workers, u \in Tasks : Executing(v, u) => Executing(v, u)'
    BY <1>0 DEF Executing
  <2> QED
    BY <1>0, <2>1 DEF RunningIsExecuted
<1> QED
  BY <1>1, <1>2, <1>3

\* Close on a task, decided already or not.
LEMMA CloseTask ==
  ASSUME TaskInv, NEW t \in Tasks, NEW s \in Terminal, NEW e \in TaskErrs,
         Close(t, s, e)
  PROVE  /\ state' \in [Tasks -> TaskStates] /\ err' \in [Tasks -> TaskErrs]
         /\ done' \in [Tasks -> BOOLEAN] /\ crashed' \in BOOLEAN
         /\ NoneBack
         /\ \A u \in Tasks :
              /\ done'[u] => state'[u] \in Terminal
              /\ state'[u] = "running" => u # t /\ state[u] = "running"
<1> USE DEF TaskInv, TypeOK, NoneBack, Close
<1>1. CASE done[t]
  BY <1>1 DEF RunningIsExecuted, Terminal
<1>2. CASE ~done[t]
  BY <1>2 DEF RunningIsExecuted, Terminal, TaskStates
<1> QED
  BY <1>1, <1>2

LEMMA FinishTask ==
  ASSUME TaskInv, NEW w \in Workers, FinishStep(w)
  PROVE  TaskInv' /\ NoneBack
<1> USE DEF Workers
<1>1. /\ cur[w] \in Tasks /\ Return(w)
      /\ UNCHANGED <<retryCount, ctxErr, poolCtxDone>>
  BY DEF FinishStep, FinishCtx, FinishSuccess, FinishDelay, FinishExhausted,
         TaskInv, HoldsTask
<1>2. \E s \in Terminal, e \in TaskErrs : Close(cur[w], s, e)
  BY <1>1 DEF FinishStep, FinishCtx, FinishSuccess, FinishDelay,
              FinishExhausted, TaskInv, TypeOK, Terminal, TaskErrs, CtxErrs
<1>3. PICK s \in Terminal, e \in TaskErrs : Close(cur[w], s, e)
  BY <1>2
<1>4. /\ state' \in [Tasks -> TaskStates] /\ err' \in [Tasks -> TaskErrs]
      /\ done' \in [Tasks -> BOOLEAN] /\ crashed' \in BOOLEAN
      /\ NoneBack
      /\ \A u \in Tasks :
           /\ done'[u] => state'[u] \in Terminal
           /\ state'[u] = "running" => u # cur[w] /\ state[u] = "running"
  BY <1>1, <1>3, CloseTask
<1>5. /\ pc' \in [Workers -> PcValues]
      /\ cur' \in [Workers -> Tasks \cup {NoTask}]
      /\ attempt' \in [Workers -> Nat]
      /\ \A v \in Workers : pc'[v] # "idle"
           => v # w /\ pc'[v] = pc[v] /\ cur'[v] = cur[v]
      /\ \A v \in Workers \ {w} : pc'[v] = pc[v] /\ cur'[v] = cur[v]
  BY <1>1 DEF Return, TaskInv, TypeOK, PcValues
<1>6. TypeOK'
  BY <1>1, <1>4, <1>5 DEF TaskInv, TypeOK
<1>7. HoldsTask'
  BY <1>5 DEF TaskInv, HoldsTask
<1>8. RunningIsExecuted'
  <2> SUFFICES ASSUME NEW u \in Tasks, state'[u] = "running"
               PROVE  \E v \in Workers : Executing(v, u)'
    BY <1>4 DEF RunningIsExecuted
  <2>1. PICK v \in Workers : Executing(v, u)
    BY <1>4 DEF TaskInv, RunningIsExecuted
  <2>2. v # w
    BY <1>4, <2>1 DEF Executing
  <2> QED
    BY <1>5, <2>1, <2>2 DEF Executing
<1> QED
  BY <1>4, <1>6, <1>7, <1>8 DEF TaskInv

LEMMA CancelTask ==
  ASSUME TaskInv, NEW t \in Tasks, Cancel(t)
  PROVE  TaskInv' /\ NoneBack
<1>1. /\ state' \in [Tasks -> TaskStates] /\ err' \in [Tasks -> TaskErrs]
      /\ done' \in [Tasks -> BOOLEAN] /\ crashed' \in BOOLEAN
      /\ NoneBack
      /\ \A u \in Tasks :
           /\ done'[u] => state'[u] \in Terminal
           /\ state'[u] = "running" => state[u] = "running"
  <2>1. Close(t, "cancelled", "task cancelled")
    BY DEF Cancel
  <2>2. "cancelled" \in Terminal /\ "task cancelled" \in TaskErrs
    BY DEF Terminal, TaskErrs
  <2> QED
    BY <2>1, <2>2, CloseTask
<1>2. /\ UNCHANGED <<retryCount, poolCtxDone, pc, cur, attempt>>
      /\ ctxErr' \in [Tasks -> CtxErrs]
  BY DEF Cancel, EndCtx, TaskInv, TypeOK, CtxErrs
<1>3. TypeOK' /\ HoldsTask' /\ RunningIsExecuted'
  BY <1>1, <1>2 DEF TaskInv, TypeOK, HoldsTask, RunningIsExecuted, Executing
<1> QED
  BY <1>1, <1>3 DEF TaskInv

\* Contexts that end and a process that dies touch nothing else.
LEMMA ContextTask ==
  ASSUME TaskInv,
         UNCHANGED <<state, err, done, retryCount, pc, cur, attempt>>,
         ctxErr' \in [Tasks -> CtxErrs], poolCtxDone' \in BOOLEAN,
         crashed' \in BOOLEAN
  PROVE  TaskInv' /\ NoneBack
  BY DEF TaskInv, TypeOK, HoldsTask, RunningIsExecuted, Executing, NoneBack

-----------------------------------------------------------------------------
(* The delivery of submissions *)

LEMMA PoolInitInv == Init => PInv
<1> SUFFICES ASSUME Init PROVE PInv
  OBVIOUS
<1> USE PoolAssumption DEF Init, TaskInit, Workers
<1>1. TaskInv
  BY DEF TaskInv, TypeOK, HoldsTask, RunningIsExecuted, TaskStates, Terminal,
         TaskErrs, CtxErrs, PcValues
<1>2. PoolTypes
  <2>1. 1 \in 1..(MaxWorkers + 1)
    OBVIOUS
  <2> QED
    BY <2>1 DEF PoolTypes
<1>3. GoroutinesAgree
  BY DEF GoroutinesAgree
<1>4. Apart
  BY DEF Apart
<1>5. NothingLost
  BY DEF NothingLost, Waiting
<1>6. QueueBound
  <2>1. queue \cup InHand = {}
    BY DEF InHand
  <2>2. Cardinality(queue \cup InHand) = 0
    BY <2>1, FS_EmptySet, Zenon
  <2> QED
    BY <2>1, <2>2 DEF QueueBound
<1> QED
  BY <1>1, <1>2, <1>3, <1>4, <1>5, <1>6 DEF PInv, DeliveryInv

\* A step of the tasks in which no worker enters execute.
LEMMA TaskMove ==
  ASSUME DeliveryInv, NoneBack, UNCHANGED poolVars,
         \A w \in Workers : pc'[w] # "idle" => pc[w] # "idle"
  PROVE  DeliveryInv'
<1> USE DEF DeliveryInv, poolVars
<1>1. PoolTypes'
  BY DEF PoolTypes
<1>2. GoroutinesAgree'
  BY DEF GoroutinesAgree
<1>3. Apart'
  BY DEF Apart
<1>4. NothingLost'
  BY PoolAssumption DEF NothingLost, NoneBack, Waiting
<1>5. QueueBound'
  BY DEF QueueBound, InHand
<1> QED
  BY <1>1, <1>2, <1>3, <1>4, <1>5

\* The queue and the hand of the dispatcher are what QueueBound speaks about.
LEMMA BoundKept ==
  ASSUME PoolTypes, QueueBound,
         queue' \cup InHand' \subseteq queue \cup InHand
  PROVE  QueueBound'
<1>1. IsFiniteSet(queue \cup InHand)
  <2>1. queue \cup InHand \subseteq Submissions
    BY DEF PoolTypes, InHand
  <2> QED
    BY <2>1, PoolAssumption, FS_Subset
<1>2. /\ Cardinality(queue' \cup InHand') <= Cardinality(queue \cup InHand)
      /\ Cardinality(queue' \cup InHand') \in Nat
      /\ Cardinality(queue \cup InHand) \in Nat
  BY <1>1, FS_Subset, FS_CardinalityType
<1> QED
  BY <1>2, PoolAssumption DEF QueueBound

LEMMA StartInv ==
  ASSUME DeliveryInv, PoolStart
  PROVE  DeliveryInv'
<1> USE DEF DeliveryInv, PoolStart, taskVars
<1>1. PoolTypes'
  BY DEF PoolTypes
<1>2. GoroutinesAgree'
  BY DEF GoroutinesAgree, PoolTypes
<1>3. Apart' /\ NothingLost'
  BY DEF Apart, NothingLost, Waiting
<1>5. QueueBound'
  BY DEF QueueBound, InHand
<1> QED
  BY <1>1, <1>2, <1>3, <1>5

\* A finite set grows by one element at most.
LEMMA AddOne ==
  ASSUME NEW S, NEW x, IsFiniteSet(S)
  PROVE  /\ IsFiniteSet(S \cup {x}) /\ Cardinality(S) \in Nat
         /\ Cardinality(S \cup {x}) \in Nat
         /\ Cardinality(S \cup {x}) <= Cardinality(S) + 1
<1>1. /\ IsFiniteSet(S \cup {x})
      /\ Cardinality(S \cup {x}) =
           IF x \in S THEN Cardinality(S) ELSE Cardinality(S) + 1
  BY FS_AddElement, Zenon
<1>2. Cardinality(S) \in Nat
  BY FS_CardinalityType
<1>3. CASE x \in S
  <2>1. Cardinality(S \cup {x}) = Cardinality(S)
    BY <1>1, <1>3
  <2> QED
    BY <1>1, <1>2, <2>1
<1>4. CASE x \notin S
  <2>1. Cardinality(S \cup {x}) = Cardinality(S) + 1
    BY <1>1, <1>4
  <2> QED
    BY <1>1, <1>2, <2>1
<1> QED
  BY <1>3, <1>4

\* What Submit pushes waits nowhere yet; the test of maxQueue leaves room for
\* it and for the one the dispatcher holds.
LEMMA SubmitInv ==
  ASSUME DeliveryInv, NEW s \in Submissions, Submit(s)
  PROVE  DeliveryInv'
<1> USE DEF DeliveryInv, taskVars
<1>1. CASE SubmitCheck(s)
  <2>1. PoolTypes' /\ GoroutinesAgree' /\ Apart'
    BY <1>1 DEF SubmitCheck, PoolTypes, GoroutinesAgree, Apart
  <2>2. NothingLost'
    BY <1>1 DEF SubmitCheck, PoolTypes, NothingLost, Waiting
  <2>3. QueueBound'
    BY <1>1 DEF SubmitCheck, QueueBound, InHand
  <2> QED
    BY <2>1, <2>2, <2>3
<1>2. CASE SubmitPush(s) /\ queue' = queue
  <2>1. PoolTypes' /\ GoroutinesAgree' /\ Apart'
    BY <1>2 DEF SubmitPush, PoolTypes, GoroutinesAgree, Apart
  <2>2. NothingLost'
    BY <1>2 DEF SubmitPush, PoolTypes, NothingLost, Waiting
  <2>3. QueueBound'
    BY <1>2 DEF SubmitPush, QueueBound, InHand
  <2> QED
    BY <2>1, <2>2, <2>3
<1>3. CASE SubmitPush(s) /\ queue' # queue
  <2>0. /\ sub[s] = "checked" /\ sub' = [sub EXCEPT ![s] = "accepted"]
        /\ queue' = queue \cup {s} /\ ~(Cardinality(queue) >= MaxQueue)
        /\ UNCHANGED <<taskVars, running, dpc, hand, scan, ch, wpc, held,
                       quitClosed, stop>>
    BY <1>3 DEF SubmitPush
  <2>1. ~Waiting(s)
    BY <2>0 DEF NothingLost
  <2>2. PoolTypes' /\ GoroutinesAgree'
    BY <2>0 DEF PoolTypes, GoroutinesAgree
  <2>3. Apart'
    BY <2>0, <2>1 DEF Apart, Waiting
  <2>4. NothingLost'
    BY <2>0 DEF PoolTypes, NothingLost, Waiting
  <2>5. QueueBound'
    <3>1. IsFiniteSet(queue) /\ Cardinality(queue) \in Nat
      BY PoolAssumption, FS_Subset, FS_CardinalityType DEF PoolTypes
    <3>2. /\ IsFiniteSet(queue \cup {s})
          /\ Cardinality(queue \cup {s}) \in Nat
          /\ Cardinality(queue \cup {s}) <= Cardinality(queue) + 1
      BY <3>1, AddOne
    <3>3. /\ IsFiniteSet(queue' \cup {hand})
          /\ Cardinality(queue' \cup {hand}) \in Nat
          /\ Cardinality(queue' \cup {hand}) <= Cardinality(queue) + 2
      <4>1. /\ IsFiniteSet((queue \cup {s}) \cup {hand})
            /\ Cardinality((queue \cup {s}) \cup {hand}) \in Nat
            /\ Cardinality((queue \cup {s}) \cup {hand})
                 <= Cardinality(queue \cup {s}) + 1
        BY <3>2, AddOne
      <4> QED
        BY <2>0, <3>1, <3>2, <4>1
    <3>4. queue' \cup InHand' \in {queue', queue' \cup {hand}}
      BY <2>0 DEF InHand
    <3> QED
      <4>1. MaxQueue \in Nat /\ ~(Cardinality(queue) >= MaxQueue)
        BY <2>0, PoolAssumption
      <4>2. Cardinality(queue') <= MaxQueue + 1
        <5>1. queue' = queue \cup {s}
          BY <2>0
        <5>2. Cardinality(queue \cup {s}) <= MaxQueue + 1
          BY <3>1, <3>2, <4>1
        <5> QED
          BY <5>1, <5>2
      <4>3. Cardinality(queue' \cup {hand}) <= MaxQueue + 1
        BY <3>1, <3>3, <4>1
      <4> QED
        BY <3>4, <4>2, <4>3 DEF QueueBound
  <2> QED
    BY <2>2, <2>3, <2>4, <2>5
<1> QED
  BY <1>1, <1>2, <1>3 DEF Submit

\* The dispatcher moves a submission from one place to the next.
LEMMA DispatchInv ==
  ASSUME DeliveryInv, Dispatch
  PROVE  DeliveryInv'
<1> USE DEF DeliveryInv, taskVars
<1>1. CASE DispatchCheck
  <2>1. PoolTypes' /\ GoroutinesAgree'
    BY <1>1 DEF DispatchCheck, PoolTypes, GoroutinesAgree
  <2>2. Apart' /\ NothingLost'
    BY <1>1 DEF DispatchCheck, Apart, NothingLost, Waiting
  <2>3. QueueBound'
    BY <1>1 DEF DispatchCheck, QueueBound, InHand
  <2> QED
    BY <2>1, <2>2, <2>3
<1>2. CASE DispatchPop /\ queue = {}
  <2>1. PoolTypes' /\ GoroutinesAgree'
    BY <1>2 DEF DispatchPop, PoolTypes, GoroutinesAgree
  <2>2. Apart' /\ NothingLost'
    BY <1>2 DEF DispatchPop, Apart, NothingLost, Waiting
  <2>3. QueueBound'
    BY <1>2 DEF DispatchPop, QueueBound, InHand
  <2> QED
    BY <2>1, <2>2, <2>3
<1>3. CASE DispatchPop /\ queue # {}
  <2>1. PICK s \in queue : hand' = s /\ queue' = queue \ {s}
    BY <1>3 DEF DispatchPop, MostUrgent
  <2>2. /\ dpc = "pop" /\ dpc' = "scan" /\ scan' = 1 /\ hand = None
        /\ s \in Submissions /\ s # None
        /\ UNCHANGED <<taskVars, running, sub, ch, wpc, held, quitClosed, stop>>
    BY <1>3, PoolAssumption DEF DispatchPop, GoroutinesAgree, PoolTypes
  <2>3. scan' \in 1..(MaxWorkers + 1)
    BY <2>2, PoolAssumption
  <2>4. PoolTypes' /\ GoroutinesAgree'
    BY <2>1, <2>2, <2>3 DEF PoolTypes, GoroutinesAgree
  <2>5. Apart'
    <3>1. s \notin queue'
      BY <2>1
    <3>2. \A w \in Workers : (ch[w] # None => ch[w] # s)
                           /\ (held[w] # None => held[w] # s)
      BY <2>1 DEF Apart
    <3> QED
      BY <2>1, <2>2, <3>1, <3>2 DEF Apart
  <2>6. NothingLost'
    <3>1. \A r \in Submissions : Waiting(r)' <=> Waiting(r)
      BY <2>1, <2>2, PoolAssumption DEF Waiting
    <3> QED
      BY <2>2, <3>1 DEF NothingLost, taskVars
  <2>7. queue' \cup InHand' \subseteq queue \cup InHand
    BY <2>1 DEF InHand
  <2> QED
    BY <2>4, <2>5, <2>6, <2>7, BoundKept
<1>4. CASE DispatchSend /\ ch[scan] = None
  <2>1. /\ scan \in Workers /\ ch' = [ch EXCEPT ![scan] = hand]
        /\ hand' = None /\ dpc' = "check" /\ dpc = "scan"
        /\ hand \in Submissions /\ hand # None
        /\ UNCHANGED <<taskVars, running, queue, sub, scan, wpc, held,
                       quitClosed, stop>>
    BY <1>4 DEF DispatchSend, GoroutinesAgree, PoolTypes
  <2>2. /\ ch'[scan] = hand
        /\ \A w \in Workers \ {scan} : ch'[w] = ch[w]
    BY <2>1 DEF PoolTypes
  <2>3. PoolTypes' /\ GoroutinesAgree'
    BY <2>1 DEF PoolTypes, GoroutinesAgree
  <2>4. Apart'
    <3>1. \A w \in Workers : held[w] # hand
      BY <2>1 DEF Apart
    <3>2. \A w \in Workers \ {scan} : ch[w] # hand
      BY <2>1 DEF Apart
    <3>3. hand \notin queue /\ None \notin queue
      BY <2>1, PoolAssumption DEF Apart, PoolTypes
    <3> HIDE DEF DeliveryInv
    <3> QED
      BY <2>1, <2>2, <3>1, <3>2, <3>3 DEF Apart, DeliveryInv
  <2>5. NothingLost'
    <3>1. \A r \in Submissions : Waiting(r)' <=> Waiting(r)
      BY <1>4, <2>1, <2>2 DEF Waiting, PoolTypes
    <3> QED
      BY <2>1, <3>1 DEF NothingLost
  <2>6. queue' \cup InHand' \subseteq queue \cup InHand
    BY <2>1 DEF InHand
  <2> QED
    BY <2>3, <2>4, <2>5, <2>6, BoundKept
<1>5. CASE DispatchSend /\ ch[scan] # None
  <2>1. scan' \in 1..(MaxWorkers + 1)
    BY <1>5, PoolAssumption DEF DispatchSend, Workers
  <2>2. PoolTypes' /\ GoroutinesAgree'
    BY <1>5, <2>1 DEF DispatchSend, PoolTypes, GoroutinesAgree
  <2>3. Apart' /\ NothingLost'
    BY <1>5 DEF DispatchSend, Apart, NothingLost, Waiting
  <2>4. QueueBound'
    BY <1>5 DEF DispatchSend, QueueBound, InHand
  <2> QED
    BY <2>2, <2>3, <2>4
<1>6. CASE DispatchRequeue
  <2>1. /\ queue' = queue \cup {hand} /\ hand' = None /\ dpc' = "check"
        /\ dpc = "scan" /\ hand \in Submissions /\ hand # None
        /\ UNCHANGED <<taskVars, running, sub, scan, ch, wpc, held, quitClosed,
                       stop>>
    BY <1>6 DEF DispatchRequeue, GoroutinesAgree, PoolTypes
  <2>2. PoolTypes' /\ GoroutinesAgree'
    BY <2>1 DEF PoolTypes, GoroutinesAgree
  <2>3. Apart' /\ NothingLost'
    BY <2>1, PoolAssumption DEF Apart, NothingLost, Waiting, PoolTypes
  <2>4. queue' \cup InHand' \subseteq queue \cup InHand
    BY <2>1 DEF InHand
  <2> QED
    BY <2>2, <2>3, <2>4, BoundKept
<1> QED
  BY <1>1, <1>2, <1>3, <1>4, <1>5, <1>6 DEF Dispatch

LEMMA ReceiveInv ==
  ASSUME DeliveryInv, NEW w \in Workers, WorkerReceive(w)
  PROVE  DeliveryInv'
<1> USE DEF DeliveryInv, taskVars
<1>1. /\ held' = [held EXCEPT ![w] = ch[w]] /\ ch' = [ch EXCEPT ![w] = None]
      /\ pc[w] = "idle" /\ held[w] = None /\ wpc[w] = "loop" /\ ch[w] # None
      /\ ch[w] \in Submissions
      /\ UNCHANGED <<taskVars, running, queue, sub, dpc, hand, scan, wpc,
                     quitClosed, stop>>
  BY DEF WorkerReceive, Selecting, PoolTypes
<1>2. /\ held'[w] = ch[w] /\ ch'[w] = None
      /\ \A v \in Workers \ {w} : held'[v] = held[v] /\ ch'[v] = ch[v]
  BY <1>1 DEF PoolTypes
<1>3. PoolTypes'
  BY <1>1 DEF PoolTypes
<1>4. GoroutinesAgree'
  BY <1>1, <1>2 DEF GoroutinesAgree
<1>5. Apart'
  BY <1>1, <1>2 DEF Apart
<1>6. NothingLost'
  <2>1. \A r \in Submissions : Waiting(r)' <=> Waiting(r)
    BY <1>1, <1>2, PoolAssumption DEF Waiting
  <2> QED
    BY <1>1, <2>1 DEF NothingLost
<1>7. QueueBound'
  BY <1>1 DEF QueueBound, InHand
<1> QED
  BY <1>3, <1>4, <1>5, <1>6, <1>7

\* The submission a worker held is used up: its task is not pending any more.
LEMMA EnterInv ==
  ASSUME TaskInv, DeliveryInv, NEW w \in Workers, WorkerExecute(w)
  PROVE  TaskInv' /\ DeliveryInv'
<1> USE DEF DeliveryInv
<1> DEFINE t == TaskOf[held[w]]
<1>0. /\ held[w] \in Submissions /\ t \in Tasks
      /\ held[w] # None /\ pc[w] = "idle" /\ wpc[w] = "loop"
      /\ held' = [held EXCEPT ![w] = None]
      /\ UNCHANGED <<running, queue, sub, dpc, hand, scan, ch, wpc, quitClosed,
                     stop>>
  BY PoolAssumption DEF WorkerExecute, PoolTypes, GoroutinesAgree
<1>1. /\ held'[w] = None
      /\ \A v \in Workers \ {w} : held'[v] = held[v]
  BY <1>0 DEF PoolTypes
<1>2. /\ TaskInv' /\ NoneBack /\ state'[t] # "pending"
      /\ \A v \in Workers \ {w} : pc'[v] = pc[v]
  <2>1. CASE Execute(w, t)
    <3>1. \A v \in Workers \ {w} : pc'[v] = pc[v]
      BY <2>1 DEF Execute, TaskInv, TypeOK, Workers
    <3> QED
      BY <1>0, <2>1, <3>1, ExecuteTask
  <2>2. CASE state[t] # "pending" /\ UNCHANGED taskVars
    <3>1. /\ ctxErr' \in [Tasks -> CtxErrs] /\ poolCtxDone' \in BOOLEAN
          /\ crashed' \in BOOLEAN
      BY <2>2 DEF TaskInv, TypeOK, taskVars
    <3> QED
      BY <2>2, <3>1, ContextTask DEF taskVars
  <2> QED
    BY <2>1, <2>2 DEF WorkerExecute
<1> HIDE DEF t
<1>3. PoolTypes'
  BY <1>0 DEF PoolTypes
<1>4. GoroutinesAgree'
  BY <1>0, <1>1, <1>2 DEF GoroutinesAgree
<1>5. Apart'
  BY <1>0, <1>1 DEF Apart
<1>6. NothingLost'
  <2> SUFFICES ASSUME NEW s \in Submissions
               PROVE  /\ sub'[s] = "accepted" /\ state'[TaskOf[s]] = "pending"
                           => Waiting(s)'
                      /\ Waiting(s)' => sub'[s] = "accepted"
    BY DEF NothingLost
  <2>1. s # None /\ TaskOf[s] \in Tasks
    BY PoolAssumption
  <2>2. Waiting(s)' => Waiting(s)
    BY <1>0, <1>1, <2>1 DEF Waiting
  <2>3. Waiting(s) /\ s # held[w] => Waiting(s)'
    BY <1>0, <1>1 DEF Waiting
  <2>4. state'[TaskOf[s]] = "pending" => s # held[w] /\ state[TaskOf[s]] = "pending"
    BY <1>2, <2>1 DEF t, NoneBack
  <2> QED
    BY <1>0, <2>2, <2>3, <2>4 DEF NothingLost
<1>7. QueueBound'
  BY <1>0 DEF QueueBound, InHand
<1> QED
  BY <1>2, <1>3, <1>4, <1>5, <1>6, <1>7

LEMMA ExitInv ==
  ASSUME DeliveryInv, NEW w \in Workers, WorkerExit(w)
  PROVE  DeliveryInv'
<1> USE DEF DeliveryInv, WorkerExit, Selecting, taskVars
<1>1. PoolTypes' /\ GoroutinesAgree'
  BY DEF PoolTypes, GoroutinesAgree
<1>2. Apart' /\ NothingLost'
  BY DEF Apart, NothingLost, Waiting
<1>3. QueueBound'
  BY DEF QueueBound, InHand
<1> QED
  BY <1>1, <1>2, <1>3

LEMMA StopInv ==
  ASSUME TaskInv, DeliveryInv, NEW c \in Stoppers, Stop(c)
  PROVE  TaskInv' /\ DeliveryInv'
<1> USE DEF DeliveryInv, Stop, StopStore, StopCancel, StopClose, StopWait
<1>1. /\ UNCHANGED <<state, err, done, retryCount, pc, cur, attempt, queue, sub,
                     dpc, hand, scan, ch, wpc, held>>
      /\ ctxErr' \in [Tasks -> CtxErrs] /\ poolCtxDone' \in BOOLEAN
      /\ crashed' \in BOOLEAN
  BY DEF taskVars, CancelPoolCtx, EndCtx, TaskInv, TypeOK, CtxErrs
<1>2. TaskInv'
  BY <1>1, ContextTask
<1>3. PoolTypes' /\ GoroutinesAgree'
  BY <1>1 DEF PoolTypes, GoroutinesAgree
<1>4. Apart' /\ NothingLost'
  BY <1>1 DEF Apart, NothingLost, Waiting
<1>5. QueueBound'
  BY <1>1 DEF QueueBound, InHand
<1> QED
  BY <1>2, <1>3, <1>4, <1>5

-----------------------------------------------------------------------------
LEMMA ExecutorInv ==
  ASSUME TaskInv, DeliveryInv, NEW w \in Workers, ExecutorStep(w),
         UNCHANGED poolVars
  PROVE  TaskInv' /\ DeliveryInv'
<1>1. LoopStep(w) \/ FinishStep(w)
  BY DEF ExecutorStep, LoopStep, FinishStep
<1>2. TaskInv' /\ NoneBack
  BY <1>1, LoopTask, FinishTask
<1>3. \A v \in Workers : pc'[v] # "idle" => pc[v] # "idle"
  <2>1. pc[w] # "idle"
    BY <1>1 DEF LoopStep, FinishStep, CheckCtx, HandlerStarts,
                HandlerReturns, RecordFailure, DelayElapsed, DelayCtxDone, FinishCtx, FinishSuccess,
                FinishDelay, FinishExhausted
  <2>2. \E p : pc' = [pc EXCEPT ![w] = p]
    BY <1>1 DEF LoopStep, FinishStep, CheckCtx, HandlerStarts,
                HandlerReturns, RecordFailure, DelayElapsed, DelayCtxDone, FinishCtx, FinishSuccess,
                FinishDelay, FinishExhausted, Goto, Return
  <2> QED
    BY <2>1, <2>2 DEF TaskInv, TypeOK, Workers
<1> QED
  BY <1>2, <1>3, TaskMove

LEMMA PoolNextInv == PInv /\ [Next]_vars => PInv'
<1> SUFFICES ASSUME TaskInv, DeliveryInv, [Next]_vars
             PROVE  TaskInv' /\ DeliveryInv'
  BY DEF PInv
<1>0. UNCHANGED taskVars => TaskInv' /\ NoneBack
  <2> SUFFICES ASSUME UNCHANGED taskVars PROVE TaskInv' /\ NoneBack
    OBVIOUS
  <2>1. /\ ctxErr' \in [Tasks -> CtxErrs] /\ poolCtxDone' \in BOOLEAN
        /\ crashed' \in BOOLEAN
    BY DEF TaskInv, TypeOK, taskVars
  <2> QED
    BY <2>1, ContextTask DEF taskVars
<1>1. CASE PoolStart
  BY <1>0, <1>1, StartInv DEF PoolStart
<1>2. ASSUME NEW s \in Submissions, Submit(s)
      PROVE  TaskInv' /\ DeliveryInv'
  BY <1>0, <1>2, SubmitInv DEF Submit, SubmitCheck, SubmitPush
<1>3. CASE Dispatch
  BY <1>0, <1>3, DispatchInv
  DEF Dispatch, DispatchCheck, DispatchPop, DispatchSend, DispatchRequeue
<1>4. ASSUME NEW w \in Workers, Worker(w)
      PROVE  TaskInv' /\ DeliveryInv'
  <2>1. CASE WorkerReceive(w)
    BY <1>0, <2>1, ReceiveInv DEF WorkerReceive
  <2>2. CASE WorkerExecute(w)
    BY <2>2, EnterInv
  <2>3. CASE WorkerExit(w)
    BY <1>0, <2>3, ExitInv DEF WorkerExit
  <2>4. CASE ExecutorStep(w) /\ UNCHANGED poolVars
    BY <2>4, ExecutorInv
  <2> QED
    BY <1>4, <2>1, <2>2, <2>3, <2>4 DEF Worker
<1>5. ASSUME NEW t \in Tasks, Cancel(t) \/ Deadline(t), UNCHANGED poolVars
      PROVE  TaskInv' /\ DeliveryInv'
  <2>1. pc' = pc
    BY <1>5 DEF Cancel, Deadline
  <2>2. TaskInv' /\ NoneBack
    <3>1. CASE Cancel(t)
      BY <3>1, CancelTask
    <3>2. CASE Deadline(t)
      <4>1. /\ UNCHANGED <<state, err, done, retryCount, pc, cur, attempt>>
            /\ ctxErr' \in [Tasks -> CtxErrs] /\ poolCtxDone' \in BOOLEAN
            /\ crashed' \in BOOLEAN
        BY <3>2 DEF Deadline, TaskInv, TypeOK, CtxErrs
      <4> QED
        BY <4>1, ContextTask
    <3> QED
      BY <1>5, <3>1, <3>2
  <2> QED
    BY <1>5, <2>1, <2>2, TaskMove
<1>6. ASSUME NEW c \in Stoppers, Stop(c)
      PROVE  TaskInv' /\ DeliveryInv'
  BY <1>6, StopInv
<1>7. CASE UNCHANGED vars
  <2>1. UNCHANGED taskVars /\ UNCHANGED poolVars /\ pc' = pc
    BY <1>7 DEF vars, taskVars
  <2> QED
    BY <1>0, <2>1, TaskMove
<1> QED
  BY <1>1, <1>2, <1>3, <1>4, <1>5, <1>6, <1>7 DEF Next

-----------------------------------------------------------------------------
\* PInv holds in every run of a pool.
THEOREM PoolInvariance == Spec => []PInv
<1>1. Init => PInv
  BY PoolInitInv
<1>2. PInv /\ [Next]_vars => PInv'
  BY PoolNextInv
<1> QED
  BY <1>1, <1>2, PTL DEF Spec

\* The variables of the pool and of its tasks keep their types.
THEOREM PoolTypeCorrect == Spec => []PoolTypeOK
<1>1. PInv => PoolTypeOK
  BY DEF PInv, TaskInv, DeliveryInv, PoolTypes, PoolTypeOK
<1> QED
  BY <1>1, PoolInvariance, PTL

\* The queue and the dispatcher together hold one submission more than maxQueue
\* at most, although the push back does not look at the limit.
THEOREM QueueIsBounded == Spec => []QueueBound
<1>1. PInv => QueueBound
  BY DEF PInv, DeliveryInv
<1> QED
  BY <1>1, PoolInvariance, PTL

\* An accepted submission is somewhere in the pool until its task is started,
\* whatever Stop, Cancel and the contexts do.
THEOREM AcceptedIsKept == Spec => []NothingLost
<1>1. PInv => NothingLost
  BY DEF PInv, DeliveryInv
<1> QED
  BY <1>1, PoolInvariance, PTL

\* No submission is in two places, so none is delivered twice.
THEOREM DeliversOnce == Spec => []DeliveredOnce
<1>1. PInv => DeliveredOnce
  <2> SUFFICES ASSUME PInv, NEW s \in Submissions, NEW p \in Places,
                      NEW q \in Places, At(s, p), At(s, q)
               PROVE  p = q
    BY DEF DeliveredOnce
  <2>1. s # None /\ Apart
    BY PoolAssumption DEF PInv, DeliveryInv
  <2>2. "queue" # "hand"
    OBVIOUS
  <2>3. CASE p = "queue" \/ q = "queue"
    BY <2>1, <2>2, <2>3 DEF At, Apart, Places
  <2>4. CASE p = "hand" \/ q = "hand"
    BY <2>1, <2>2, <2>4 DEF At, Apart, Places
  <2>5. CASE p \notin {"queue", "hand"} /\ q \notin {"queue", "hand"}
    BY <2>1, <2>5 DEF At, Apart, Places
  <2> QED
    BY <2>3, <2>4, <2>5
<1> QED
  BY <1>1, PoolInvariance, PTL

\* Once some Stop has returned, every worker has gone and no task runs, and
\* none is started any more.
THEOREM QuietAfterStop == Spec => []StopQuiesces
<1>1. PInv => StopQuiesces
  BY DEF PInv, TaskInv, DeliveryInv, RunningIsExecuted, GoroutinesAgree,
         Executing, StopQuiesces, Stopped
<1> QED
  BY <1>1, PoolInvariance, PTL

-----------------------------------------------------------------------------
(* The tasks of a pool are the tasks of AsyncTask. *)

\* The channels quit are closed by a Stop that has gone on to wait.
QuitByStop ==
  quitClosed <=> \E c \in Stoppers : stop[c] \in {"wait", "returned"}

\* What IInv says of the tasks, apart from the reason of a crash.
TaskFacts ==
  /\ TypeOK
  /\ HoldsStarted
  /\ SingleExecution
  /\ DecidedTogether
  /\ RetriesCounted
  /\ OutcomeMatchesRetries

TasksInv == TaskFacts /\ QuitByStop /\ CrashExplained

\* A Stop finds the channels closed: the process is gone, and that is all.
StopPanics(c) ==
  /\ ~crashed /\ quitClosed /\ stop[c] = "close"
  /\ crashed' = TRUE
  /\ UNCHANGED <<state, err, done, retryCount, ctxErr, poolCtxDone, pc, cur,
                 attempt, quitClosed, stop>>

\* Nothing moves in a process that is gone.
LEMMA GoneStays ==
  ASSUME crashed, [Next]_vars
  PROVE  UNCHANGED <<taskVars, quitClosed, stop>>
<1>1. ~Next
  <2> USE DEF Next
  <2>1. \A c \in Stoppers : ~Stop(c)
    BY DEF Stop
  <2>2. \A w \in Workers : ~Worker(w)
    BY DEF Worker, ExecutorStep
  <2>3. \A t \in Tasks : ~Cancel(t) /\ ~Deadline(t)
    BY DEF Cancel, Deadline
  <2> QED
    BY <2>1, <2>2, <2>3 DEF PoolStart, Submit, Dispatch
<1> QED
  BY <1>1 DEF vars, poolVars

\* A step of the pool is a step of its tasks, or none to them, or the end.
LEMMA PoolSteps ==
  ASSUME PInv, [Next]_vars
  PROVE  [TaskNext]_taskVars \/ \E c \in Stoppers : StopPanics(c)
<1>1. CASE PoolStart
  BY <1>1 DEF PoolStart
<1>2. ASSUME NEW s \in Submissions, Submit(s) PROVE UNCHANGED taskVars
  BY <1>2 DEF Submit, SubmitCheck, SubmitPush
<1>3. CASE Dispatch
  BY <1>3 DEF Dispatch, DispatchCheck, DispatchPop, DispatchSend,
              DispatchRequeue
<1>4. ASSUME NEW w \in Workers, Worker(w) PROVE TaskNext \/ UNCHANGED taskVars
  <2>1. CASE ~crashed /\ (WorkerReceive(w) \/ WorkerExit(w))
    BY <2>1 DEF WorkerReceive, WorkerExit
  <2>2. CASE ~crashed /\ WorkerExecute(w)
    <3>1. held[w] \in Submissions
      BY <2>2 DEF WorkerExecute, PInv, DeliveryInv, PoolTypes
    <3>2. TaskOf[held[w]] \in Tasks
      BY <3>1, PoolAssumption
    <3> QED
      BY <2>2, <3>2 DEF WorkerExecute, TaskNext, Workers
  <2>3. CASE ExecutorStep(w)
    BY <2>3 DEF TaskNext, Workers
  <2> QED
    BY <1>4, <2>1, <2>2, <2>3 DEF Worker
<1>5. ASSUME NEW t \in Tasks, Cancel(t) \/ Deadline(t) PROVE TaskNext
  BY <1>5 DEF TaskNext
<1>6. ASSUME NEW c \in Stoppers, Stop(c)
      PROVE  TaskNext \/ UNCHANGED taskVars \/ StopPanics(c)
  <2>1. CASE StopStore(c) \/ StopWait(c)
    BY <2>1 DEF StopStore, StopWait
  <2>2. CASE StopCancel(c)
    BY <1>6, <2>2 DEF Stop, StopCancel, PoolCancel, TaskNext
  <2>3. CASE StopClose(c)
    BY <1>6, <2>3 DEF Stop, StopClose, StopPanics, taskVars
  <2> QED
    BY <1>6, <2>1, <2>2, <2>3 DEF Stop
<1>7. CASE UNCHANGED vars
  BY <1>7 DEF vars
<1> QED
  BY <1>1, <1>2, <1>3, <1>4, <1>5, <1>6, <1>7 DEF Next

LEMMA QuitKept ==
  ASSUME PInv, QuitByStop, [Next]_vars
  PROVE  QuitByStop'
<1>1. CASE UNCHANGED <<quitClosed, stop>>
  BY <1>1 DEF QuitByStop
<1>2. ASSUME NEW c \in Stoppers, Stop(c) PROVE QuitByStop'
  <2>0. stop \in [Stoppers -> {"new", "cancel", "close", "wait", "returned"}]
    BY DEF PInv, DeliveryInv, PoolTypes
  <2>1. CASE StopStore(c) \/ StopCancel(c)
    BY <2>0, <2>1 DEF StopStore, StopCancel, QuitByStop
  <2>2. CASE StopClose(c)
    BY <2>0, <2>2 DEF StopClose, QuitByStop
  <2>3. CASE StopWait(c)
    BY <2>0, <2>3 DEF StopWait, QuitByStop
  <2> QED
    BY <1>2, <2>1, <2>2, <2>3 DEF Stop
<1>3. (\E c \in Stoppers : Stop(c)) \/ UNCHANGED <<quitClosed, stop>>
  <2>1. CASE PoolStart \/ Dispatch
    BY <2>1 DEF PoolStart, Dispatch, DispatchCheck, DispatchPop, DispatchSend,
                DispatchRequeue
  <2>2. ASSUME NEW s \in Submissions, Submit(s)
        PROVE  UNCHANGED <<quitClosed, stop>>
    BY <2>2 DEF Submit, SubmitCheck, SubmitPush
  <2>3. ASSUME NEW w \in Workers, Worker(w)
        PROVE  UNCHANGED <<quitClosed, stop>>
    BY <2>3 DEF Worker, WorkerReceive, WorkerExecute, WorkerExit, poolVars
  <2>4. UNCHANGED poolVars \/ UNCHANGED vars => UNCHANGED <<quitClosed, stop>>
    BY DEF vars, poolVars
  <2> QED
    BY <2>1, <2>2, <2>3, <2>4 DEF Next
<1> QED
  BY <1>1, <1>2, <1>3

LEMMA TasksInvInit == Init => TasksInv
<1> SUFFICES ASSUME Init PROVE TasksInv
  OBVIOUS
<1>1. TaskFacts
  BY InitInv DEF Init, IInv, TaskFacts
<1>2. QuitByStop /\ CrashExplained
  BY DEF Init, TaskInit, QuitByStop, CrashExplained
<1> QED
  BY <1>1, <1>2 DEF TasksInv

LEMMA TasksInvNext ==
  ASSUME PInv, TasksInv, [Next]_vars
  PROVE  TasksInv'
<1>1. QuitByStop'
  BY QuitKept DEF TasksInv
<1>2. CASE crashed
  <2>1. UNCHANGED <<taskVars, stop>>
    BY <1>2, GoneStays
  <2>2. TaskFacts'
    <3> USE <2>1 DEF TasksInv, TaskFacts, taskVars, Executing, Cancelled
    <3>1. TypeOK'
      BY DEF TypeOK
    <3>2. HoldsStarted' /\ SingleExecution'
      BY DEF HoldsStarted, SingleExecution
    <3>3. DecidedTogether'
      BY DEF DecidedTogether
    <3>4. RetriesCounted' /\ OutcomeMatchesRetries'
      BY DEF RetriesCounted, OutcomeMatchesRetries
    <3> QED
      BY <3>1, <3>2, <3>3, <3>4
  <2>3. CrashExplained'
    BY <2>1 DEF TasksInv, CrashExplained, Cancelled, taskVars
  <2> QED
    BY <1>1, <2>2, <2>3 DEF TasksInv
<1>3. CASE ~crashed /\ [TaskNext]_taskVars
  <2>1. IInv
    BY <1>3 DEF TasksInv, TaskFacts, IInv, CrashOnlyAfterCancel
  <2>2. IInv'
    BY <1>3, <2>1, NextInv
  <2> QED
    BY <1>1, <2>2 DEF TasksInv, TaskFacts, IInv, CrashOnlyAfterCancel,
                      CrashExplained
<1>4. ASSUME NEW c \in Stoppers, StopPanics(c) PROVE TasksInv'
  <2> USE DEF StopPanics, TasksInv, TaskFacts
  <2>1. TypeOK'
    BY <1>4 DEF TypeOK
  <2>2. HoldsStarted' /\ SingleExecution'
    BY <1>4 DEF HoldsStarted, SingleExecution, Executing
  <2>3. DecidedTogether'
    BY <1>4 DEF DecidedTogether, Executing, Cancelled
  <2>4. RetriesCounted' /\ OutcomeMatchesRetries'
    BY <1>4 DEF RetriesCounted, OutcomeMatchesRetries
  <2>5. CrashExplained'
    <3>1. PICK d \in Stoppers : stop[d] \in {"wait", "returned"}
      BY <1>4 DEF QuitByStop
    <3> QED
      BY <1>4, <3>1 DEF CrashExplained
  <2> QED
    BY <1>1, <2>1, <2>2, <2>3, <2>4, <2>5
<1> QED
  BY <1>2, <1>3, <1>4, PoolSteps

\* What a step of the pool looks like from its tasks: a step of AsyncTask from
\* a state in which IInv holds, or one that leaves them as they are.
LEMMA SeenByTasks ==
  ASSUME PInv, TasksInv, [Next]_vars
  PROVE  \/ IInv /\ [TaskNext]_taskVars
         \/ UNCHANGED <<state, err, done, pc, cur>>
<1>1. CASE crashed
  BY <1>1, GoneStays DEF taskVars
<1>2. CASE ~crashed
  <2>1. IInv
    BY <1>2 DEF TasksInv, TaskFacts, IInv, CrashOnlyAfterCancel
  <2> QED
    BY <2>1, PoolSteps DEF StopPanics
<1> QED
  BY <1>1, <1>2

-----------------------------------------------------------------------------
\* The tasks of a pool keep what IInv says of them, however many Stops there
\* are.
THEOREM PoolTasksInvariance == Spec => []TasksInv
<1>1. Init => TasksInv
  BY TasksInvInit
<1>2. PInv /\ TasksInv /\ [Next]_vars => TasksInv'
  BY TasksInvNext
<1> QED
  BY <1>1, <1>2, PoolInvariance, PTL DEF Spec

\* Through the queue, the channels and the push back a task submitted several
\* times is executed by one worker only.
THEOREM PoolExecutesOnce == Spec => []SingleExecution
<1>1. TasksInv => SingleExecution
  BY DEF TasksInv, TaskFacts
<1> QED
  BY <1>1, PoolTasksInvariance, PTL

\* Wait and Result agree on every task of a pool, also while it is stopped.
THEOREM PoolWaitAgreesWithResult == Spec => []WaitersSeeResult
<1>1. TasksInv => WaitersSeeResult
  BY DEF TasksInv, TaskFacts, DecidedTogether, WaitersSeeResult, Wait, Result
<1> QED
  BY <1>1, PoolTasksInvariance, PTL

\* The outcome of a task of a pool agrees with the handler calls made.
THEOREM PoolRetriesExplainOutcome == Spec => []OutcomeMatchesRetries
<1>1. TasksInv => OutcomeMatchesRetries
  BY DEF TasksInv, TaskFacts
<1> QED
  BY <1>1, PoolTasksInvariance, PTL

\* A pool takes the process down only after a Cancel that returned TRUE, or by
\* a Stop that comes after another Stop.
THEOREM PoolCrashIsExplained == Spec => []CrashExplained
<1>1. TasksInv => CrashExplained
  BY DEF TasksInv
<1> QED
  BY <1>1, PoolTasksInvariance, PTL

\* A worker goes past the select of its loop only on an undecided task, and a
\* handler call that begins on a decided one has a context that has ended.
THEOREM PoolLateCallsAreCancelled == Spec => LateCallIsCancelled
<1>1. PInv /\ TasksInv /\ [Next]_vars =>
        [\A w \in Executors :
           /\ pc[w] = "loop" /\ pc'[w] = "calling" => ~done[cur[w]]
           /\ pc[w] = "calling" /\ pc'[w] = "handler" /\ done[cur[w]]
                => ctxErr[cur[w]] # "none"]_taskVars
  BY SeenByTasks, StepHeedsContext
<1> QED
  BY <1>1, PoolInvariance, PoolTasksInvariance, PTL
  DEF Spec, LateCallIsCancelled

\* What Result returned for a task of a pool, it returns for ever.
THEOREM PoolResultsStay == Spec => ResultStable
<1>1. PInv /\ TasksInv /\ [Next]_vars =>
        [\A t \in Tasks : done[t] => Result(t)' = Result(t)]_taskVars
  <2> SUFFICES ASSUME PInv, TasksInv, [Next]_vars, NEW t \in Tasks, done[t]
               PROVE  Result(t)' = Result(t)
    OBVIOUS
  <2>1. state'[t] = state[t] /\ err'[t] = err[t]
    BY SeenByTasks, StepKeepsPromise
  <2> QED
    BY <2>1 DEF Result
<1> QED
  BY <1>1, PoolInvariance, PoolTasksInvariance, PTL DEF Spec, ResultStable

\* The tasks of a pool implement the promise made for a task, whatever is
\* submitted, cancelled and stopped.
THEOREM PoolKeepsPromise == Spec => KeepsPromise
<1>1. Init => Promise!PromiseInit
  BY DEF Init, TaskInit, Promise!PromiseInit
<1>2. PInv /\ TasksInv /\ [Next]_vars => [Promise!PromiseNext]_state
  BY SeenByTasks, StepKeepsPromise
<1> QED
  BY <1>1, <1>2, PoolInvariance, PoolTasksInvariance, PTL
  DEF Spec, KeepsPromise, Promise!PromiseSpec

\* With one Stop at the most a pool implements AsyncTask in every step: only the
\* panic of a second Stop (async.go:315) is a step that no task takes.
THEOREM PoolImplementsTasks ==
  ASSUME \A c, d \in Stoppers : c = d
  PROVE  Spec => TasksAsSpecified
<1>1. Init => TaskInit
  BY DEF Init
<1>2. PInv /\ TasksInv /\ [Next]_vars => [TaskNext]_taskVars
  <2> SUFFICES ASSUME PInv, TasksInv, [Next]_vars,
                      NEW c \in Stoppers, StopPanics(c)
               PROVE  FALSE
    BY PoolSteps
  <2>1. PICK d \in Stoppers : stop[d] \in {"wait", "returned"}
    BY DEF StopPanics, TasksInv, QuitByStop
  <2>2. d = c
    OBVIOUS
  <2> QED
    BY <2>1, <2>2 DEF StopPanics
<1> QED
  BY <1>1, <1>2, PoolInvariance, PoolTasksInvariance, PTL
  DEF Spec, TasksAsSpecified, TaskSpec
=============================================================================
