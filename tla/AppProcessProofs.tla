-------------------------- MODULE AppProcessProofs --------------------------
(***************************************************************************)
(* The App: whatever Init found configured, whatever fails and however     *)
(* many requests there are, a process that a signal ends has closed what   *)
(* it opened, and no request loses its database early.  The App keeps this *)
(* next to a ShutdownHandler, and the ShutdownHandler in its process calls *)
(* in order, for any number of handlers, of calls of Execute and of        *)
(* priorities.                                                             *)
(***************************************************************************)
EXTENDS AppProcess, Sequences, TLAPS

-----------------------------------------------------------------------------
(* The App. *)


\* What each point of Shutdown and of the Closer has behind it.
DbBehind ==
  pc \in {"cache", "pool", "queue", "closerCache", "closerPool", "closerQueue"}
    \/ (pc = "closerDb" /\ ~panicking) => db # "open"

CacheBehind == pc \in {"closerPool", "closerQueue"} => cache # "open"

PoolBehind == pc = "closerQueue" => pool # "running"

\* Before the Closer only Shutdown stops the pool, and it goes on to the queue.
QueueBehind ==
  pool = "stopped" =>
    /\ pc \notin Booting \cup {"wait", "drain", "db", "cache", "pool"}
    /\ pc \in {"closerDb", "closerCache", "closerPool"} => queue # "open"

\* A server that is shutting down admits nobody.
Drained ==
  /\ pc \in {"drain", "db"} => server = "closed"
  /\ pc = "db" => requests = 0 \/ timedOut

LInv ==
  /\ TypeOK /\ DbBehind /\ CacheBehind /\ PoolBehind /\ QueueBehind /\ Drained
  /\ ClosedAtExit

USE LifecycleAssumption DEF LifecycleAssumption, Booting, Stopping, parts, serving

\* Init meets the invariant: nothing is open and main is at its first step.
LEMMA InitLInv == Init => LInv
<1> SUFFICES ASSUME Init PROVE LInv
  OBVIOUS
<1>1. TypeOK
  <2>1. pc \in Booting /\ started \in BOOLEAN /\ ~started BY DEF Init
  <2>2. timedOut \in BOOLEAN /\ panicking \in BOOLEAN BY DEF Init
  <2>3. requests \in 0..MaxRequests BY DEF Init
  <2> QED BY <2>1, <2>2, <2>3 DEF Init, TypeOK
<1>2. DbBehind /\ CacheBehind /\ PoolBehind /\ QueueBehind
  BY DEF Init, DbBehind, CacheBehind, PoolBehind, QueueBehind
<1>3. Drained /\ ClosedAtExit BY DEF Init, Drained, ClosedAtExit
<1> QED BY <1>1, <1>2, <1>3 DEF LInv

\* bootstrap.Init opens components and closes none.
LEMMA BootstrapLInv ==
  ASSUME LInv, status = "up", Bootstrap \/ RunApp
  PROVE  LInv'
<1> USE DEF LInv, TypeOK, DbBehind, CacheBehind, PoolBehind, QueueBehind,
            Drained, ClosedAtExit, At, Fatal
<1>1. CASE BootConfig BY <1>1 DEF BootConfig
<1>2. CASE BootDatabase BY <1>2 DEF BootDatabase
<1>3. CASE BootCache BY <1>3 DEF BootCache
<1>4. CASE BootPool BY <1>4 DEF BootPool
<1>5. CASE BootStorage BY <1>5 DEF BootStorage
<1>6. CASE BootQueue BY <1>6 DEF BootQueue
<1>7. CASE RunApp BY <1>7 DEF RunApp
<1> QED BY <1>1, <1>2, <1>3, <1>4, <1>5, <1>6, <1>7 DEF Bootstrap

\* The server's goroutine and the requests leave main alone, and a server that
\* is closed is not reopened.
LEMMA ServerLInv ==
  ASSUME LInv, status = "up",
         ServerMake \/ ServerListen \/ RequestBegins \/ RequestEnds \/ QueueGivesUp
  PROVE  LInv'
<1> USE DEF LInv, TypeOK, DbBehind, CacheBehind, PoolBehind, QueueBehind,
            Drained, ClosedAtExit, Fatal
<1>1. CASE ServerMake BY <1>1 DEF ServerMake
<1>2. CASE ServerListen
  <2>1. CASE Fatal BY <2>1
  <2>2. CASE /\ server = "made" /\ server' = "serving"
             /\ UNCHANGED <<pc, parts, started, requests, timedOut, panicking,
                            status>>
    <3>1. TypeOK' BY <2>2
    <3> QED BY <2>2, <3>1
  <2> QED BY <1>2, <2>1, <2>2 DEF ServerListen
<1>3. CASE RequestBegins BY <1>3 DEF RequestBegins
<1>4. CASE RequestEnds BY <1>4 DEF RequestEnds
<1>5. CASE QueueGivesUp BY <1>5 DEF QueueGivesUp
<1> QED BY <1>1, <1>2, <1>3, <1>4, <1>5

\* The signal, and the steps of Shutdown.
LEMMA ShutdownLInv ==
  ASSUME LInv, status = "up", Signal \/ Shutdown
  PROVE  LInv'
<1> USE DEF LInv, TypeOK, DbBehind, CacheBehind, PoolBehind, QueueBehind,
            Drained, ClosedAtExit, At
<1>1. CASE Signal
  <2> USE DEF Signal
  <2>1. TypeOK' BY <1>1
  <2>2. (DbBehind /\ CacheBehind /\ PoolBehind /\ QueueBehind)' BY <1>1
  <2>3. (Drained /\ ClosedAtExit)' BY <1>1
  <2> QED BY <2>1, <2>2, <2>3
<1>2. CASE Drain BY <1>2 DEF Drain
<1>3. CASE CloseDb("db", "cache") BY <1>3 DEF CloseDb
<1>4. CASE CloseCache("cache", "pool") BY <1>4 DEF CloseCache
<1>5. CASE ShutdownPool BY <1>5 DEF ShutdownPool
<1>6. CASE ShutdownQueue
  <2>1. CASE Fatal BY <2>1 DEF Fatal
  <2>2. CASE ~Fatal
    <3>1. /\ pc = "queue" /\ pc' = "closerDb"
          /\ \/ queue' = "closed" /\ panicking' \in BOOLEAN
             \/ queue' = queue /\ panicking' = panicking
          /\ UNCHANGED <<db, cache, pool, serving, status>>
      BY <1>6, <2>2 DEF ShutdownQueue
    <3>2. queue' # "open" BY <1>6, <2>2 DEF ShutdownQueue
    <3>3. TypeOK' BY <3>1
    <3> QED BY <3>1, <3>2, <3>3
  <2> QED BY <2>1, <2>2
<1> QED BY <1>1, <1>2, <1>3, <1>4, <1>5, <1>6 DEF Shutdown

\* The steps of the Closer: where it panics, Shutdown had closed the rest.
LEMMA CloserLInv ==
  ASSUME LInv, status = "up", Closer
  PROVE  LInv'
<1> USE DEF LInv, TypeOK, DbBehind, CacheBehind, PoolBehind, QueueBehind,
            Drained, ClosedAtExit, At
<1>1. CASE CloseDb("closerDb", "closerCache") BY <1>1 DEF CloseDb
<1>2. CASE CloseCache("closerCache", "closerPool") BY <1>2 DEF CloseCache
<1>3. CASE CloserPool BY <1>3 DEF CloserPool
<1>4. CASE CloserQueue BY <1>4 DEF CloserQueue
<1> QED BY <1>1, <1>2, <1>3, <1>4 DEF Closer

\* The invariant holds of every reachable state.
LEMMA Invariant == Spec => []LInv
<1>1. LInv /\ [Next]_vars => LInv'
  <2> SUFFICES ASSUME LInv, [Next]_vars PROVE LInv'
    OBVIOUS
  <2>1. CASE Next
    <3>1. status = "up" BY <2>1 DEF Next
    <3>2. CASE Bootstrap \/ RunApp BY <3>1, <3>2, BootstrapLInv
    <3>3. CASE Signal \/ Shutdown BY <3>1, <3>3, ShutdownLInv
    <3>4. CASE Closer BY <3>1, <3>4, CloserLInv
    <3>5. CASE ServerMake \/ ServerListen \/ RequestBegins \/ RequestEnds
                 \/ QueueGivesUp
      BY <3>1, <3>5, ServerLInv
    <3> QED BY <2>1, <3>2, <3>3, <3>4, <3>5 DEF Next, Main
  <2>2. CASE UNCHANGED vars
    BY <2>2 DEF LInv, TypeOK, DbBehind, CacheBehind, PoolBehind, QueueBehind,
                Drained, ClosedAtExit, vars
  <2> QED BY <2>1, <2>2
<1> QED BY InitLInv, <1>1, PTL DEF Spec

\* Every reachable state is of its types, and the server's goroutine exists
\* exactly from App.Run on (main.go:29).
THEOREM TypeCorrect == Spec => []TypeOK
<1>1. LInv => TypeOK BY DEF LInv
<1> QED BY Invariant, <1>1, PTL

\* Between them Shutdown and the Closer close whatever Init opened, even when
\* one of them panics (app.go:134-156, bootstrap.go:306-316).
THEOREM NothingOpenAtExit == Spec => []ClosedAtExit
<1>1. LInv => ClosedAtExit BY DEF LInv
<1> QED BY Invariant, <1>1, PTL

\* The database is closed under a request only after the timeout, or when
\* Shutdown found no server (app.go:139-145).
THEOREM RequestsOutliveDb == Spec => RequestsKeepDb
<1> DEFINE Kept == db = "open" /\ db' = "closed" => requests = 0 \/ timedOut \/ panicking
<1>1. LInv /\ [Next]_vars => [Kept]_vars
  <2> SUFFICES ASSUME LInv, Next, db = "open", db' = "closed"
               PROVE  requests = 0 \/ timedOut \/ panicking
    BY DEF vars
  <2>1. CloseDb("db", "cache") \/ CloseDb("closerDb", "closerCache")
    BY DEF Next, Main, Bootstrap, BootConfig, BootDatabase, BootCache, BootPool,
           BootStorage, BootQueue, RunApp, Signal, Shutdown, Drain, CloseCache,
           ShutdownPool, ShutdownQueue, Closer, CloserPool, CloserQueue,
           ServerMake, ServerListen, RequestBegins, RequestEnds, QueueGivesUp,
           Fatal, At
  <2> QED BY <2>1 DEF CloseDb, At, LInv, DbBehind, Drained
<1> QED BY Invariant, <1>1, PTL DEF Spec, RequestsKeepDb

\* Shutdown brings main to the Closer with the pool stopped, so that the Closer
\* gets past it only without workers, or when Shutdown has panicked before.
PoolStopped ==
  /\ pc = "queue" => pool = "stopped"
  /\ pc \in {"closerDb", "closerCache", "closerPool"} /\ ~panicking => pool = "stopped"
  /\ pc = "closerQueue" => panicking \/ MaxWorkers = 0

EInv == PoolStopped /\ ExitExplained

\* The steps before the Closer end no process normally, nor by a panic.
LEMMA BeforeCloser ==
  ASSUME EInv, status = "up", Bootstrap \/ RunApp \/ Signal \/ Shutdown
  PROVE  EInv'
<1> USE DEF EInv, PoolStopped, ExitExplained, At, Fatal
<1>1. CASE BootConfig \/ BootStorage
  BY <1>1 DEF BootConfig, BootStorage
<1>2. CASE BootDatabase \/ BootCache \/ BootPool \/ BootQueue
  BY <1>2 DEF BootDatabase, BootCache, BootPool, BootQueue
<1>3. CASE RunApp
  BY <1>3 DEF RunApp
<1>4. CASE Signal
  BY <1>4 DEF Signal
<1>5. CASE Drain
  BY <1>5 DEF Drain
<1>6. CASE CloseDb("db", "cache")
  BY <1>6 DEF CloseDb
<1>7. CASE CloseCache("cache", "pool")
  BY <1>7 DEF CloseCache
<1>8. CASE ShutdownPool
  BY <1>8 DEF ShutdownPool
<1>9. CASE ShutdownQueue
  BY <1>9 DEF ShutdownQueue
<1> QED
  BY <1>1, <1>2, <1>3, <1>4, <1>5, <1>6, <1>7, <1>8, <1>9 DEF Bootstrap, Shutdown

LEMMA CloserExplained ==
  ASSUME EInv, status = "up", Closer
  PROVE  EInv'
<1> USE DEF EInv, PoolStopped, ExitExplained, At
<1>1. CASE CloseDb("closerDb", "closerCache")
  BY <1>1 DEF CloseDb
<1>2. CASE CloseCache("closerCache", "closerPool")
  BY <1>2 DEF CloseCache
<1>3. CASE CloserPool
  BY <1>3 DEF CloserPool
<1>4. CASE CloserQueue
  BY <1>4 DEF CloserQueue
<1> QED
  BY <1>1, <1>2, <1>3, <1>4 DEF Closer

LEMMA ExitInvariant == Spec => []EInv
<1>1. Init => EInv
  BY DEF Init, EInv, PoolStopped, ExitExplained
<1>2. EInv /\ [Next]_vars => EInv'
  <2> SUFFICES ASSUME EInv, [Next]_vars PROVE EInv'
    OBVIOUS
  <2>1. CASE Next /\ (Bootstrap \/ RunApp \/ Signal \/ Shutdown)
    BY <2>1, BeforeCloser DEF Next
  <2>2. CASE Next /\ Closer
    BY <2>2, CloserExplained DEF Next
  <2>3. CASE Next /\ (ServerMake \/ ServerListen \/ RequestBegins \/ RequestEnds
                       \/ QueueGivesUp)
    <3>1. UNCHANGED <<pc, pool, queue, panicking>> /\ status' \in {status, "fatal"}
      BY <2>3 DEF ServerMake, ServerListen, RequestBegins, RequestEnds,
                  QueueGivesUp, Fatal
    <3> QED
      BY <3>1 DEF EInv, PoolStopped, ExitExplained
  <2>4. CASE UNCHANGED vars
    BY <2>4 DEF vars, EInv, PoolStopped, ExitExplained
  <2> QED
    BY <2>1, <2>2, <2>3, <2>4 DEF Next, Main
<1> QED
  BY <1>1, <1>2, PTL DEF Spec

\* A signal ends the process normally only when there is no worker, the queue
\* did not fail and Shutdown did not panic, and in a panic only otherwise: with
\* a worker every end of main is a panic (async.go:315, bootstrap.go:306-316).
THEOREM ExitIsExplained == Spec => []ExitExplained
<1>1. EInv => ExitExplained
  BY DEF EInv
<1> QED
  BY <1>1, ExitInvariant, PTL

HIDE LifecycleAssumption DEF LifecycleAssumption, Booting, Stopping, parts, serving


-----------------------------------------------------------------------------
(* The process does what Lifecycle says of main. *)

\* With the ShutdownHandler next to it the App takes the steps of Lifecycle, so
\* what is proved of Lifecycle's Spec holds of the process.
THEOREM ProcessIsLifecycle == ProcessSpec => Spec
<1>1. [ProcessNext]_allVars => [Next]_vars
  BY DEF ProcessNext, allVars, vars
<1> QED
  BY <1>1, PTL DEF ProcessSpec, ProcessInit, Spec

\* The same of the process with its handlers: it has closed what it opened,
THEOREM ProcessClosesAll == ProcessSpec => []ClosedAtExit
  BY ProcessIsLifecycle, NothingOpenAtExit

\* its requests have their database until the timeout,
THEOREM ProcessKeepsDb == ProcessSpec => RequestsKeepDb
  BY ProcessIsLifecycle, RequestsOutliveDb

\* and its end has the same causes.
THEOREM ProcessExitExplained == ProcessSpec => []ExitExplained
  BY ProcessIsLifecycle, ExitIsExplained

-----------------------------------------------------------------------------
(* The inductive invariant of the handler. *)

\* A handler is registered once.
OneEntryEach(s) == \A i, j \in DOMAIN s : s[i].name = s[j].name => i = j

\* One call of Execute gets past the test of executed; it has not sorted while
\* it is at "sort", and the handlers stay as it has sorted them.
OneExecutes ==
  /\ ~executed => all = "none" /\ \A e \in Executors : exec[e] # "sort"
  /\ \A e, f \in Executors : exec[e] = "sort" /\ exec[f] = "sort" => e = f
  /\ \A e \in Executors : exec[e] = "sort" => all = "none"
  /\ all # "none" => executed /\ Hooks!ByPriority(handlers)

\* executeAll goes through that list, one handler after another.
Progress ==
  /\ all \in {"none", "begun"} => calls = 0 /\ ended = {}
  /\ all \in {"looping", "calling", "done"} => list = handlers
  /\ all \in {"looping", "done"} => ended = {list[k].name : k \in 1..calls}
  /\ all = "done" => calls = Len(list)
  /\ all = "calling" => calls > 0 /\ ended = {list[k].name : k \in 1..(calls - 1)}

HInv ==
  /\ HooksTypeOK
  /\ OneEntryEach(handlers)
  /\ OneExecutes
  /\ Progress

LEMMA HInvInit ==
  ASSUME Hooks!Init PROVE HInv
<1>1. handlers = <<>> /\ list = <<>> /\ Len(list) = 0 /\ DOMAIN handlers = {}
  BY DEF Hooks!Init
<1>2. HooksTypeOK
  <2>1. handlers \in Seq(Hooks!Entries) /\ list \in Seq(Hooks!Entries)
    <3>1. <<>> \in Seq(Hooks!Entries)
      OBVIOUS
    <3> QED
      BY <1>1, <3>1
  <2>2. calls = 0 /\ calls \in 0..Len(list)
    BY <1>1 DEF Hooks!Init
  <2>3. ended \subseteq Handlers /\ executed \in BOOLEAN
    BY DEF Hooks!Init
  <2>4. exec \in [Executors -> {"new", "sort", "waiting", "returned"}]
    BY DEF Hooks!Init
  <2>5. all \in {"none", "begun", "looping", "calling", "done"}
    BY DEF Hooks!Init
  <2> QED
    BY <2>1, <2>2, <2>3, <2>4, <2>5 DEF HooksTypeOK, Hooks!HooksTypeOK
<1>3. OneEntryEach(handlers)
  BY <1>1 DEF OneEntryEach
<1> QED
  BY <1>2, <1>3 DEF Hooks!Init, HInv, OneExecutes, Progress

LEMMA RegisterKeeps ==
  ASSUME HInv, NEW h \in Handlers, NEW p \in Priorities, Hooks!Register(h, p)
  PROVE  HInv'
<1> DEFINE x == [name |-> h, priority |-> p]
<1>1. /\ handlers \in Seq(Hooks!Entries) /\ x \in Hooks!Entries /\ h \notin Hooks!Names
      /\ handlers' = Append(handlers, x) /\ ~executed /\ all = "none"
      /\ UNCHANGED <<executed, exec, all, list, calls, ended>>
  BY DEF HInv, HooksTypeOK, Hooks!HooksTypeOK, Hooks!Entries, Hooks!Register, OneExecutes
<1>2. handlers' \in Seq(Hooks!Entries)
  BY <1>1
<1>3. OneEntryEach(handlers)'
  <2>1. \A i \in DOMAIN handlers : handlers[i].name # h
    BY <1>1 DEF Hooks!Names
  <2>2. /\ DOMAIN handlers' = 1..(Len(handlers) + 1) /\ DOMAIN handlers = 1..Len(handlers)
        /\ Len(handlers) \in Nat
        /\ \A i \in DOMAIN handlers' :
             handlers'[i] = IF i <= Len(handlers) THEN handlers[i] ELSE x
    BY <1>1
  <2> QED
    BY <2>1, <2>2 DEF HInv, OneEntryEach
<1>4. HooksTypeOK'
  BY <1>1, <1>2 DEF HInv, HooksTypeOK, Hooks!HooksTypeOK
<1>5. OneExecutes' /\ Progress'
  BY <1>1 DEF HInv, OneExecutes, Progress
<1> QED
  BY <1>3, <1>4, <1>5 DEF HInv

LEMMA ExecuteKeeps ==
  ASSUME HInv, NEW e \in Executors, Hooks!Execute(e) \/ Hooks!Return(e)
  PROVE  HInv'
<1>1. HooksTypeOK'
  BY DEF HInv, HooksTypeOK, Hooks!HooksTypeOK, Hooks!Execute, Hooks!Return
<1>2. OneExecutes'
  <2>1. CASE Hooks!Execute(e)
    BY <2>1 DEF HInv, HooksTypeOK, Hooks!HooksTypeOK, OneExecutes, Hooks!Execute
  <2>2. CASE Hooks!Return(e)
    BY <2>2 DEF HInv, HooksTypeOK, Hooks!HooksTypeOK, OneExecutes, Hooks!Return
  <2> QED
    BY <2>1, <2>2
<1>3. OneEntryEach(handlers)' /\ Progress'
  BY DEF HInv, OneEntryEach, Progress, Hooks!Execute, Hooks!Return
<1> QED
  BY <1>1, <1>2, <1>3 DEF HInv

\* Sorting leaves every handler with one entry.
LEMMA SortKeeps ==
  ASSUME HInv, NEW e \in Executors, Hooks!Sort(e)
  PROVE  HInv'
<1> DEFINE D == 1..Len(handlers)
           S == {handlers[i] : i \in D}
<1>1. /\ handlers \in Seq(Hooks!Entries) /\ all = "none" /\ exec[e] = "sort" /\ executed
      /\ exec \in [Executors -> {"new", "sort", "waiting", "returned"}]
      /\ Len(handlers) \in Nat /\ DOMAIN handlers = D
  BY DEF HInv, HooksTypeOK, Hooks!HooksTypeOK, OneExecutes, Hooks!Sort
<1>2. Hooks!ToSet(handlers) = S
  BY <1>1 DEF Hooks!ToSet
<1>3. /\ handlers' \in [D -> S]
      /\ \A i, j \in D : handlers'[i] = handlers'[j] => i = j
      /\ Hooks!ByPriority(handlers')
      /\ exec' = [exec EXCEPT ![e] = "waiting"] /\ all' = "begun"
      /\ UNCHANGED <<executed, list, calls, ended>>
  BY <1>1, <1>2 DEF Hooks!Sort, Hooks!IsInjective
<1>4. S \subseteq Hooks!Entries
  BY <1>1
<1>5. handlers' \in Seq(Hooks!Entries) /\ DOMAIN handlers' = D
  BY <1>1, <1>3, <1>4
<1>6. \A x, y \in S : x.name = y.name => x = y
  BY <1>1 DEF HInv, OneEntryEach
<1>7. OneEntryEach(handlers)'
  BY <1>3, <1>5, <1>6 DEF OneEntryEach
<1>8. HooksTypeOK'
  BY <1>1, <1>3, <1>5 DEF HInv, HooksTypeOK, Hooks!HooksTypeOK
<1>9. OneExecutes'
  BY <1>1, <1>3 DEF HInv, OneExecutes, Hooks!ByPriority
<1>10. Progress'
  BY <1>1, <1>3 DEF HInv, Progress
<1> QED
  BY <1>7, <1>8, <1>9, <1>10 DEF HInv

LEMMA ExecuteAllKeeps ==
  ASSUME HInv, Hooks!ExecuteAll
  PROVE  HInv'
<1>1. /\ HooksTypeOK /\ OneExecutes /\ Progress /\ OneEntryEach(handlers)
      /\ list \in Seq(Hooks!Entries) /\ handlers \in Seq(Hooks!Entries)
      /\ calls \in 0..Len(list) /\ Len(list) \in Nat
  BY DEF HInv, HooksTypeOK, Hooks!HooksTypeOK
<1>2. UNCHANGED <<handlers, executed, exec>> /\ all # "none" /\ all' # "none"
  BY DEF Hooks!ExecuteAll, Hooks!ReadHandlers, Hooks!CallHandler, Hooks!HandlerEnds
<1>3. OneEntryEach(handlers)' /\ OneExecutes'
  BY <1>1, <1>2 DEF OneEntryEach, OneExecutes
<1>4. CASE Hooks!ReadHandlers
  <2>1. HooksTypeOK'
    BY <1>1, <1>4 DEF Hooks!ReadHandlers, HooksTypeOK, Hooks!HooksTypeOK
  <2>2. Progress'
    BY <1>1, <1>4 DEF Hooks!ReadHandlers, Progress
  <2> QED
    BY <1>3, <2>1, <2>2 DEF HInv
<1>5. CASE Hooks!CallHandler
  <2>1. HooksTypeOK'
    BY <1>1, <1>5 DEF Hooks!CallHandler, HooksTypeOK, Hooks!HooksTypeOK
  <2>2. Progress'
    BY <1>1, <1>5 DEF Hooks!CallHandler, Progress
  <2> QED
    BY <1>3, <2>1, <2>2 DEF HInv
<1>6. CASE Hooks!HandlerEnds
  <2>1. calls \in 1..Len(list) /\ list[calls] \in Hooks!Entries
    BY <1>1, <1>6 DEF Hooks!HandlerEnds, Progress
  <2>2. HooksTypeOK'
    BY <1>1, <1>6, <2>1 DEF Hooks!HandlerEnds, HooksTypeOK, Hooks!HooksTypeOK, Hooks!Entries
  <2>3. 1..calls = 1..(calls - 1) \cup {calls}
    BY <2>1
  <2>4. Progress'
    BY <1>1, <1>6, <2>3 DEF Hooks!HandlerEnds, Progress
  <2> QED
    BY <1>3, <2>2, <2>4 DEF HInv
<1> QED
  BY <1>4, <1>5, <1>6 DEF Hooks!ExecuteAll

LEMMA HInvNext ==
  ASSUME HInv, [ProcessNext]_allVars
  PROVE  HInv'
<1>1. CASE UNCHANGED hooks
  BY <1>1 DEF HInv, HooksTypeOK, Hooks!HooksTypeOK, OneEntryEach, OneExecutes, Progress, hooks,
     Hooks!ByPriority
<1>2. CASE Hooks!Next
  BY <1>2, RegisterKeeps, ExecuteKeeps, SortKeeps, ExecuteAllKeeps DEF Hooks!Next, Hooks!Waits
<1> QED
  BY <1>1, <1>2 DEF ProcessNext, allVars

\* The invariant of the handler holds in every state of the process.
THEOREM HooksInvariant == ProcessSpec => []HInv
<1>1. Hooks!Init => HInv
  BY HInvInit
<1>2. HInv /\ [ProcessNext]_allVars => HInv'
  BY HInvNext
<1> QED
  BY <1>1, <1>2, PTL DEF ProcessSpec, ProcessInit

\* The registered handlers, the calls of Execute and its goroutine keep their
\* types, and the handlers called are within the list.
THEOREM HooksTypeCorrect == ProcessSpec => []HooksTypeOK
  BY HooksInvariant, PTL DEF HInv

\* When executeAll is through, it has called what was registered, all of it and
\* nothing else; a registration that raced Execute was accepted in time to be
\* called, or was ignored (shutdown.go:50-118).
THEOREM NobodyIsLeftOut == ProcessSpec => []NobodyLeftOut
<1>1. HInv => NobodyLeftOut
  <2> SUFFICES ASSUME HInv, all = "done" PROVE ended = Hooks!Names
    BY DEF NobodyLeftOut, Hooks!NobodyLeftOut
  <2>1. ended = {handlers[k].name : k \in 1..Len(handlers)}
    BY DEF HInv, Progress
  <2>2. DOMAIN handlers = 1..Len(handlers)
    BY DEF HInv, HooksTypeOK, Hooks!HooksTypeOK
  <2> QED
    BY <2>1, <2>2 DEF Hooks!Names
<1> QED
  BY <1>1, HooksInvariant, PTL

\* A handler is called once, however many calls of Execute race, when every
\* handler of a higher priority has ended (shutdown.go:61-118).
THEOREM CallsInOrder == ProcessSpec => CalledInOrder
<1> DEFINE Ordered(k) ==
      /\ list[k].name \notin Hooks!Called \cup ended
      /\ \A i \in DOMAIN handlers :
           handlers[i].priority < list[k].priority => handlers[i].name \in ended
<1>1. ASSUME HInv, [ProcessNext]_allVars, NEW k \in 1..calls', k > calls
      PROVE  Ordered(k)
  <2>1. Progress /\ OneEntryEach(handlers) /\ calls \in 0..Len(list) /\ list \in Seq(Hooks!Entries)
        /\ OneExecutes
    BY <1>1 DEF HInv, HooksTypeOK, Hooks!HooksTypeOK
  <2>2. Hooks!CallHandler /\ calls' = calls + 1 /\ calls < Len(list)
    <3>1. calls' # calls /\ calls' # 0
      BY <1>1, <2>1
    <3>2. Hooks!Next
      BY <1>1, <3>1 DEF ProcessNext, allVars, hooks
    <3>3. Hooks!CallHandler
      BY <3>1, <3>2 DEF Hooks!Next, Hooks!Register, Hooks!Execute, Hooks!Waits, Hooks!Sort,
         Hooks!Return, Hooks!ExecuteAll, Hooks!ReadHandlers, Hooks!HandlerEnds
    <3> QED
      BY <3>1, <3>3 DEF Hooks!CallHandler
  <2>3. k = calls + 1 /\ k \in 1..Len(list)
    BY <1>1, <2>1, <2>2
  <2>4. list = handlers /\ ended = {list[j].name : j \in 1..calls}
        /\ Hooks!ByPriority(handlers)
    BY <2>1, <2>2 DEF Hooks!CallHandler, Progress, OneExecutes
  <2>5. ended = Hooks!Called
    BY <2>4 DEF Hooks!Called
  <2>6. list[k].name \notin ended
    BY <2>1, <2>3, <2>4 DEF OneEntryEach
  <2>7. ASSUME NEW i \in DOMAIN handlers, handlers[i].priority < list[k].priority
        PROVE  handlers[i].name \in ended
    <3>1. i \in 1..Len(list) /\ handlers[i] \in Hooks!Entries /\ list[k] \in Hooks!Entries
      BY <2>1, <2>3, <2>4
    <3>2. handlers[i].priority \in Nat /\ list[k].priority \in Nat
      BY <3>1, HandlersAssumption DEF Hooks!Entries
    <3>3. ~(k <= i)
      BY <2>3, <2>4, <2>7, <3>1, <3>2 DEF Hooks!ByPriority
    <3>4. i \in 1..calls
      BY <2>1, <2>3, <3>1, <3>3
    <3> QED
      BY <2>4, <3>4
  <2> QED
    BY <2>5, <2>6, <2>7
<1>2. HInv /\ [ProcessNext]_allVars
        => [\A k \in 1..calls' : k > calls => Ordered(k)]_(Hooks!hookVars)
  BY <1>1
<1> QED
  BY <1>2, HooksInvariant, PTL DEF ProcessSpec, ProcessInit, CalledInOrder, Hooks!CalledInOrder
=============================================================================
