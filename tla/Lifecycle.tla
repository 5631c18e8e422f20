----------------------------- MODULE Lifecycle -----------------------------
(***************************************************************************)
(* The life of the server process: cmd/server/main.go, bootstrap.Init and  *)
(* its Closer, App.Run, App.Start and App.Shutdown.  The components are    *)
(* seen through whether they are open; AsyncPool and RabbitMQQueue have    *)
(* what happens inside the two that have goroutines.                       *)
(*                                                                         *)
(* net/http is external: a server that is shutting down takes no request,  *)
(* and its Shutdown waits for those it has taken until the timeout.        *)
(***************************************************************************)
EXTENDS Naturals

CONSTANTS
  MaxWorkers,   \* async.max_workers
  MaxRequests   \* bound of the model: requests in flight

ASSUME LifecycleAssumption == MaxWorkers \in Nat /\ MaxRequests \in Nat

VARIABLES
  pc,           \* where the main goroutine is
  db, cache,    \* "none", "open" or "closed"
  pool,         \* "none", "running" or "stopped"
  queue,        \* queueManager: "none", "nil" (a nil *RabbitMQQueue), "open", "closed"
  server,       \* App.httpServer: "none", "made", "serving" or "closed"
  started,      \* the goroutine of App.Run was started
  requests,     \* requests whose handler has not returned
  timedOut,     \* httpServer.Shutdown gave up waiting
  panicking,    \* Shutdown panicked and main's defers are running
  status        \* of the process: "up"; "ok" or "panic" when main ended; "fatal"
                \* when another goroutine ended it, and no defer was run

parts == <<db, cache, pool, queue>>
serving == <<server, started, requests, timedOut>>
vars == <<pc, parts, serving, panicking, status>>

Init ==
  /\ pc = "config"
  /\ db = "none" /\ cache = "none" /\ pool = "none" /\ queue = "none"
  /\ server = "none" /\ started = FALSE /\ requests = 0 /\ timedOut = FALSE
  /\ panicking = FALSE /\ status = "up"

At(here, next) == pc = here /\ pc' = next

\* log.Fatalf, logger.Fatal and a panic of a goroutine other than main's end the
\* process and do not run main's defers.
Fatal == status' = "fatal" /\ UNCHANGED <<pc, parts, serving, panicking>>

-----------------------------------------------------------------------------
(* bootstrap.Init *)

BootConfig ==
  /\ pc = "config"
  /\ \/ Fatal
     \/ pc' = "bootDb" /\ UNCHANGED <<parts, serving, panicking, status>>

\* A database that is not configured, or that cannot be reached, stays nil.
BootDatabase ==
  /\ At("bootDb", "bootCache")
  /\ db' \in {"none", "open"}
  /\ UNCHANGED <<cache, pool, queue, serving, panicking, status>>

\* Redis, or the memory cache in its place.
BootCache ==
  /\ At("bootCache", "bootPool")
  /\ cache' = "open"
  /\ UNCHANGED <<db, pool, queue, serving, panicking, status>>

BootPool ==
  /\ At("bootPool", "bootStorage")
  /\ pool' = "running"
  /\ UNCHANGED <<db, cache, queue, serving, panicking, status>>

BootStorage ==
  /\ pc = "bootStorage"
  /\ \/ Fatal
     \/ pc' = "bootQueue" /\ UNCHANGED <<parts, serving, panicking, status>>

\* Not configured, failed (the interface then holds a nil pointer, and the App
\* is given no queue), or connected.
BootQueue ==
  /\ At("bootQueue", "run")
  /\ queue' \in {"none", "nil", "open"}
  /\ UNCHANGED <<db, cache, pool, serving, panicking, status>>

Bootstrap ==
  BootConfig \/ BootDatabase \/ BootCache \/ BootPool \/ BootStorage \/ BootQueue

-----------------------------------------------------------------------------
(* The goroutines of App.Run and App.Start, and the requests *)

\* App.httpServer is assigned by the goroutine, with no synchronisation.
ServerMake ==
  /\ started /\ server = "none"
  /\ server' = "made"
  /\ UNCHANGED <<pc, parts, started, requests, timedOut, panicking, status>>

\* ListenAndServe; what it fails with, at once or later, is fatal, but for
\* ErrServerClosed.
ServerListen ==
  \/ server \in {"made", "serving"} /\ Fatal
  \/ /\ server = "made" /\ server' = "serving"
     /\ UNCHANGED <<pc, parts, started, requests, timedOut, panicking, status>>

RequestBegins ==
  /\ server = "serving" /\ requests < MaxRequests
  /\ requests' = requests + 1
  /\ UNCHANGED <<pc, parts, server, started, timedOut, panicking, status>>

RequestEnds ==
  /\ requests > 0
  /\ requests' = requests - 1
  /\ UNCHANGED <<pc, parts, server, started, timedOut, panicking, status>>

\* The queue's reconnector has used up its attempts, or the library has panicked
\* (RabbitMQQueue: process).
QueueGivesUp == queue = "open" /\ Fatal

-----------------------------------------------------------------------------
(* main after Init *)

RunApp ==
  /\ At("run", "wait")
  /\ started' = TRUE
  /\ UNCHANGED <<parts, server, requests, timedOut, panicking, status>>

\* A signal; main calls Shutdown, which uses App.httpServer: nil as long as the
\* goroutine has not assigned it.  The panic runs main's deferred Closer.
Signal ==
  /\ pc = "wait"
  /\ IF server = "none"
     THEN /\ pc' = "closerDb" /\ panicking' = TRUE
          /\ UNCHANGED server
     ELSE /\ pc' = "drain"
          /\ server' = "closed"
          /\ UNCHANGED panicking
  /\ UNCHANGED <<parts, started, requests, timedOut, status>>

DrainNot ==                     \* mutant: the requests are not waited for
  /\ At("drain", "db")
  /\ UNCHANGED <<parts, serving, panicking, status>>

DrainForEver ==                 \* mutant: the timeout does not end the wait
  /\ At("drain", "db")
  /\ requests = 0
  /\ UNCHANGED <<parts, serving, panicking, status>>

\* Server.Shutdown returns when no request is left, or at the timeout.
Drain ==
  /\ At("drain", "db")
  /\ IF requests = 0 THEN UNCHANGED timedOut ELSE timedOut' = TRUE
  /\ UNCHANGED <<parts, server, started, requests, panicking, status>>

CloseDb(here, next) ==
  /\ At(here, next)
  /\ db' = IF db = "open" THEN "closed" ELSE db
  /\ UNCHANGED <<cache, pool, queue, serving, panicking, status>>

CloseCache(here, next) ==
  /\ At(here, next)
  /\ cache' = "closed"
  /\ UNCHANGED <<db, pool, queue, serving, panicking, status>>

\* The rest of Shutdown, which does not look whether the pool was stopped.
ShutdownPool ==
  /\ At("pool", "queue")
  /\ pool' = "stopped"
  /\ UNCHANGED <<db, cache, queue, serving, panicking, status>>

\* The queue's Close returns when it finds nothing left to close; the close of
\* an open connection panics, in main or in the library (RabbitMQQueue:
\* CloseConn).
ShutdownQueue ==
  /\ pc = "queue"
  /\ \/ queue = "open" /\ Fatal
     \/ /\ pc' = "closerDb"
        /\ IF queue = "open"
           THEN queue' = "closed" /\ panicking' \in BOOLEAN
           ELSE UNCHANGED <<queue, panicking>>
        /\ UNCHANGED <<db, cache, pool, serving, status>>

Shutdown ==
  \/ Drain \/ CloseDb("db", "cache") \/ CloseCache("cache", "pool")
  \/ ShutdownPool \/ ShutdownQueue

\* The Closer's pool.Stop closes the quit channel of each worker, which panics
\* when Shutdown has done so; what is left of the Closer does not run.
CloserPool ==
  /\ pc = "closerPool"
  /\ IF pool = "stopped" /\ MaxWorkers > 0
     THEN status' = "panic" /\ UNCHANGED <<pc, pool>>
     ELSE pc' = "closerQueue" /\ pool' = "stopped" /\ UNCHANGED status
  /\ UNCHANGED <<db, cache, queue, serving, panicking>>

CloserQueueForgotten ==         \* mutant: the queue is not closed
  /\ pc = "closerQueue"
  /\ status' = IF panicking THEN "panic" ELSE "ok"
  /\ UNCHANGED <<pc, parts, serving, panicking>>

\* The test for nil lets a nil *RabbitMQQueue through.  A queue that is still open
\* is one that a panicking Shutdown has left, whatever its Close does now.
CloserQueue ==
  /\ pc = "closerQueue"
  /\ queue' = IF queue = "open" THEN "closed" ELSE queue
  /\ status' = IF panicking \/ queue = "nil" THEN "panic" ELSE "ok"
  /\ UNCHANGED <<pc, db, cache, pool, serving, panicking>>

Closer ==
  \/ CloseDb("closerDb", "closerCache") \/ CloseCache("closerCache", "closerPool")
  \/ CloserPool \/ CloserQueue

\* main is in the Close of an open queue: CloseEnds of RabbitMQQueue says when that
\* comes to an end.
InQueueClose == pc \in {"queue", "closerQueue"} /\ queue = "open"

Main == Bootstrap \/ RunApp \/ Signal \/ Shutdown \/ Closer

-----------------------------------------------------------------------------
Next ==
  /\ status = "up"
  /\ \/ Main
     \/ ServerMake \/ ServerListen \/ RequestBegins \/ RequestEnds
     \/ QueueGivesUp

Spec == Init /\ [][Next]_vars

-----------------------------------------------------------------------------
(* Properties *)

Booting == {"config", "bootDb", "bootCache", "bootPool", "bootStorage",
            "bootQueue", "run"}
Stopping == {"drain", "db", "cache", "pool", "queue", "closerDb",
             "closerCache", "closerPool", "closerQueue"}

\* Types; and the server's goroutine exists from App.Run on.
TypeOK ==
  /\ pc \in Booting \cup {"wait"} \cup Stopping
  /\ started \in BOOLEAN /\ (started <=> pc \notin Booting)
  /\ db \in {"none", "open", "closed"} /\ cache \in {"none", "open", "closed"}
  /\ pool \in {"none", "running", "stopped"}
  /\ queue \in {"none", "nil", "open", "closed"}
  /\ server \in {"none", "made", "serving", "closed"}
  /\ timedOut \in BOOLEAN /\ panicking \in BOOLEAN
  /\ requests \in 0..MaxRequests
  /\ status \in {"up", "ok", "fatal", "panic"}

\* When a signal has ended the process, normally or by a panic of Shutdown or
\* of the Closer, between them they have closed whatever Init had opened.
ClosedAtExit ==
  status \in {"ok", "panic"} =>
    db # "open" /\ cache # "open" /\ pool # "running" /\ queue # "open"

\* The database is closed under a request only when the request has outlasted
\* the shutdown timeout, or when Shutdown found no server to wait for.
RequestsKeepDb ==
  [][db = "open" /\ db' = "closed" => requests = 0 \/ timedOut \/ panicking]_vars

\* After a signal the process ends, however long a request takes, or waits for
\* the Close of its queue.
SignalEnds == pc = "drain" \/ panicking ~> status # "up" \/ InQueueClose

\* README.md:498 "在收到 SIGTERM/SIGINT 后调用 app.Shutdown() 即可" (to call Shutdown
\* after the signal is enough): a process whose Shutdown has returned, and which
\* has the Closer deferred, ends normally.
ExitIsClean == status = "panic" => panicking

\* What an end by a signal depends on: it is normal when there is no worker to
\* be stopped twice, no nil queue for the Closer to close, and Shutdown did not
\* panic, for want of a server or by closing the queue; each of them alone
\* makes it a panic.
ExitExplained ==
  LET clean == MaxWorkers = 0 /\ queue # "nil" /\ ~panicking
  IN /\ status = "ok" => clean
     /\ status = "panic" => ~clean
=============================================================================
