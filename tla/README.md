# A TLA+ model of dgou-framework

dgou-framework is a Go framework for web services: a bootstrap that assembles
configuration, logging, a database, a cache, authentication, a task pool,
upload, monitoring and a message queue around a gin engine, and an `App` that
starts and stops them. This directory holds TLA+ modules that model the parts
with a state of their own, TLC configurations that check them on small
instances, and proofs, checked by the TLA+ proof system, of what matters most
for every instance. Line numbers are those of the repository's files.

## 1. Inventory

| component | source | state | operations |
|---|---|---|---|
| async task | `pkg/async/async.go` 14-241 | state, err, retryCount, done, the context | NewTask, Wait, Result, State, Cancel, execute |
| async pool | `pkg/async/async.go` 243-384 | running, the heap, a channel of one per worker, quit channels, the context | Start, Stop, Submit, dispatch, run |
| rate limiter | `pkg/middleware/rate_limiter.go` | a counter per client | the middleware, cleanup |
| memory cache | `pkg/cache/memory.go` | items, LRU list, bytes in use | Get, Set, Delete, Exists, Incr, Decr, eviction |
| RabbitMQ queue | `pkg/queue/rabbitmq.go` | connection, channel, notifyClose, closed, done | connect, reconnector, Close, Publish, Consume, declarations |
| life cycle | `cmd/server/main.go`, `pkg/bootstrap/bootstrap.go`, `pkg/app/app.go` | which components are open; httpServer | Init, Closer, Run, Start, Shutdown |
| shutdown handlers | `pkg/app/shutdown.go` | handlers, executed | Register, Execute, executeAll |
| Redis cache, Redis queue | `pkg/cache/redis.go`, `pkg/queue/redis.go` | in Redis | data operations, Lock, Unlock; Publish, Consume |
| authentication | `pkg/auth/auth.go` | refresh tokens in the cache | Generate, Parse, Refresh, Revoke |
| upload | `pkg/upload` (without `oss.go`) | the files below one directory | Manager: Upload, UploadReader, Delete, Validate; LocalStorage: Put, Get, Copy, Move, Delete |
| database | `pkg/database` | connections, a counter | New, Slave, Close |
| configuration, logger, errors, monitor, responses, other middleware | | none that several calls share, or a library's | |

**Interaction.** `main` calls `bootstrap.Init`, which opens the components one
after the other, starts the pool's dispatcher and workers and the queue's
reconnector, and gives them to the `App`; it returns a `Closer` that `main`
defers. `App.Run` and `App.Start` run in goroutines of their own. A `ShutdownHandler` lives in the same process and is
joined to nothing else: whoever makes one registers handlers and calls Execute,
and the end of `main` is the end of its goroutine. Requests call
the middleware (rate limiter, authentication) and through the handlers the
cache, the pool and the queue. A signal makes `main` call `App.Shutdown`, then
return into the `Closer`. The pool executes tasks in its workers; their callers
wait on `done` or call `Cancel`. The upload manager validates a file, makes up
a path and calls the storage; the application may call the storage itself. The
queue's goroutines, its callers and the
broker meet in the current channel.

**What is hard.**

* *Task:* six places write an outcome and close `done`, some of them while a
  handler runs. Correct: an outcome is decided once, never revised, agrees with
  the attempts that were made, and whoever waits sees it.
* *Pool:* the dispatcher holds a task that is in no queue; it pushes back past
  the limit; Stop races all of them. Correct: nothing accepted is lost,
  delivered twice or starved, and Stop returns with nothing left running.
* *Rate limiter:* counters are removed while requests come. Correct: a fixed
  window.
* *Memory cache:* Get releases the lock between finding, judging and touching
  an item. Correct: map, list and byte count agree; a value lives for its time.
* *Queue:* connections are lost at any moment, also while connect is about to
  listen for their loss, and Close races a reconnection that holds the lock; one
  Go channel listens to two objects of the library. Correct: at-least-once
  delivery of what has arrived, Close is final and ends, a lost connection is
  replaced.
* *Redis cache and tokens:* the client repeats commands whose replies are lost,
  a lock's lease ends while its holder works, Refresh looks a token up and issues
  new ones later. Correct: a lock excludes, a revoked token stays revoked.
* *Life cycle:* a signal at any moment, two functions that close the same
  components. Correct: everything opened is closed, requests keep what they use
  as long as they may, and the process ends.
* *Shutdown handlers:* Execute lets go of its lock between the test of
  `executed` and the sort, and leaves its goroutine behind at the timeout.
  Correct: what was accepted is called, once, by priority.
* *Upload:* a text is written block by block under its final name, a Move is a
  copy and a delete, and a call may fail, or the process die, in any of these.
  Correct: what was stored stays whole until somebody else writes or removes it.

`PROJECT.json` lists the hazards line by line.

## 2. Modules

| module | models | abstracts |
|---|---|---|
| `TaskPromise` | abstract: what a task promises its caller | |
| `AsyncTask` | one `execute` per executor, `Cancel`, deadlines, the pool's context | results, time stamps, durations |
| `AsyncPool` | extends `AsyncTask`: Submit, dispatcher, workers, Start, Stop | sleeps; the order of equal priorities |
| `FixedWindow` | abstract: a fixed-window limiter | |
| `RateLimiter` | the middleware as one critical section, `cleanup`, the clock | headers |
| `MemoryCache` | map, list, bytes; clients between the locks of Get and Exists | texts, as members of a small set with a length |
| `RabbitMQQueue` | reconnector, Close, Publish, Consume; broker and amqp library as environment | message options |
| `MessageDelivery` | abstract: a message is kept until a handler has succeeded with it | |
| `Lease` | abstract: a resource has one owner, whose lease ends with the owner's doing or by time | |
| `RedisCache` | Get, Set, Delete; Lock and Unlock with lost replies, repeated commands, leases | values; the other data operations |
| `AuthTokens` | extends `RedisCache`: Generate, Refresh, Revoke, Parse, the middleware | signatures, names and roles |
| `Lifecycle` | main, Init, Closer, Run, Start, Shutdown | what each component does while open |
| `ShutdownHandler` | Register, Execute, executeAll | what a handler does: it returns or hangs |
| `AppProcess` | composes `Lifecycle` and `ShutdownHandler` in one process | |
| `LocalStorage` | each call of the storage, a block at a time; failures and a crash between any two steps | directories, texts (one value per block), Stat and Exists |
| `UploadStore` | abstract: an upload appears whole and is taken out once | |
| `Upload` | extends `LocalStorage`: the Manager, the Validator, an application beside them | names, as a length, an extension and whether they are refused |
| `AsyncTaskProofs`, `AsyncPoolProofs`, `RateLimiterProofs`, `MemoryCacheProofs`, `RabbitMQQueueProofs`, `AuthTokensProofs`, `AppProcessProofs` (with `Lifecycle`), `UploadProofs` | theorems and proofs | |
| `MC*` | instances for TLC | |

**Grain.** An action is what happens between two points at which another
goroutine may get in: a critical section, the choice of a `select`, an atomic
operation, a call that blocks. Variables carry the names of the fields. Where a
goroutine stands is a string: `pc` (execute), `dpc` (dispatch), `wpc` (run),
`rpc` (reconnector), or a `pc` in the record of a call.

**AsyncTask / AsyncPool.** `Execute` is `execute` up to its unlock, `CheckCtx`
the select at the head of the retry loop, `HandlerStarts` the call of the handler
(a Cancel or the deadline may come between the two), `HandlerReturns` its end (a
panic is recovered into an error), `RecordFailure` the count and the test that ends
the loop, `DelayElapsed` and `DelayCtxDone` the select on the delay, and the
four `Finish` actions the four critical sections that decide. `Close` is the
common end of these: it closes `done`, and when `done` is closed already the
process is gone (`crashed`), because the panic is outside the handler's recover.
`AsyncPool` takes the actions of `AsyncTask` for its workers. An entry of the
queue is the *submission*, so a task submitted twice is told apart from a
submission delivered twice. The select of a worker may take quit or the context
although a task lies in its channel; the model leaves the choice open. A pool
is started once, as bootstrap does: Start after Stop would accept tasks for a
context that has ended, and is left out.

**RateLimiter.** Time is counted in ticks. The ticker of `cleanup` has no fixed
phase against the windows, so `Cleanup` may happen at any tick. `admitted` is a
history variable, the ticks at which a client was let through. Under the refinement mapping a counter that is too old is no
window, whether `cleanup` has met it or not.

**MemoryCache.** An item and its list element have an identity, as the pointers
have; Get holds on to the identity across the unlock, and `FreshId` never gives
out one that somebody holds. Set, Delete and Incr are single critical sections,
and the eviction loop is inside them, as the function from a number of rounds to
what is left after them. The run `cache` has no default time to
live (an item Set without one never expires, one that Incr makes expires at
once); `cache_late_delete` has one.

**RabbitMQQueue.** The broker and amqp091-go v1.10.0 are external, and modelled
by what the code meets. A loss of a channel or a connection is found by the
library's reading goroutine, which sends the error to every Go channel registered
with NotifyClose, waiting for the receiver (`"failing"`), and then closes them; a
Close of either closes them too, and a NotifyClose that comes after the end closes
its argument at once. A connection does this for itself and then for its channel.
`connect` registers *one* Go channel with both (`rabbitmq.go:110-111`): whatever
is done for the second of them meets a closed Go channel, and to send on it or to
close it again panics. `notify` is whether that Go channel is closed, `process`
how the process has ended: `"fatal"` after `logger.Fatal` in the reconnector,
`"panic"` after a panic in a goroutine nobody recovers. A second close in `Close`
panics in its caller (`"panicked"`), who lets go of the lock, or in the library's
goroutine, whichever comes first. `connect` dials and publishes the new connection
(`DialSucceeds`), registers with the channel (`NotifyChannel`) and with the
connection (`NotifyConn`); in each gap the connection may be lost unheard
(`ConnLostEarly`). A call reads the channel under the lock and uses it later. A
Publish that returns nil has sent its message (`PublishSend`), which may `Arrive`
or never do so: nothing is confirmed. The broker hands out any number of messages
(`Deliver`); the library keeps them (`buf`) until the consumer's goroutine takes
one (`Receive`). A consumer may leave between two messages (`ConsumerExit`: its
context, `done`, or the end of its channel), and its subscription stays as long as
the channel does. Consumers do not use AutoAck. `Place` says where a
message is at the broker, which is the refinement mapping to `MessageDelivery`:
a message in two of the broker's sets is at a place the promise does not know,
so that a step that loses or doubles one is no step of it.

**RedisCache / AuthTokens.** The server executes a command at one point; its
reply is another step, which may be lost, so that the client library sends the
command again (`MaxRetries`) or gives up with an error. The commands that only
set or delete a key are the same when executed again and are one step; SetNX and
the script of Unlock are not. A call of Lock and its Unlock are one `Lockers`
element, with the Unlock deferred whether or not Lock succeeded, as the
documentation shows it; that a refused caller has no token is why this is
harmless. `generateToken` returns the same text for everybody, as the code does.
`lease` and `maker` are history: whose entry is at the server, and whose time to
live has not passed. Under the refinement mapping to `Lease` the owner of a
resource is the maker of its entry. The Manager of `AuthTokens` is given a cache by bootstrap,
Redis by default; a pair of tokens and its entry have one ID. An entry outlives
its token, because the time to live is counted from a later moment. Redis does
not lose keys and no command is executed after its call has returned.

**Lifecycle.** Each step of Init, Shutdown and the Closer is an action, with the
outcomes the code allows (database missing, queue failed and left as a nil
pointer in the interface, storage fatal). `httpServer` is assigned by the
goroutine of `Run`, so the signal may come first; main then dereferences nil and
its deferred Closer runs. `QueueGivesUp` stands for the ends of `process` in
`RabbitMQQueue`; a Close of an open queue ends well, panics in main (the Closer
still runs) or takes the process with it; and the second Stop of a pool for what `AsyncPool!StopClose` does when the quit
channels are closed. A Stop returns here as it does there, under the assumption
that the handlers of tasks return. A signal before `signal.Notify` ends the
process without a trace and is left out.

**ShutdownHandler / AppProcess.** A registration is one critical section, and so
is the test of `executed`; `Sort` comes after the lock was given back, and with
it the start of the goroutine whose steps are `ReadHandlers`, `CallHandler` and
`HandlerEnds` (a panic is recovered, and counts as an end). `sort.Slice` is not
stable, so `Sort` leaves any order of equal priorities. `Return` is the select on
`done` and the timeout, which may be over at any moment. A handler is a name,
registered once; the ones in `Hanging` do not return. In `AppProcess` a step is
one of `Lifecycle` or, while the process is up, one of `ShutdownHandler`.

**LocalStorage / Upload.** The operating system is external: a path names a file
or nothing, a file that is open outlives its name, `os.Create` empties the file
its path names, and each writer has an offset of its own, so that a write beyond
the end leaves a hole. `Fails` is the failure of a call of the system,
`PutFails` that of a copy under way, after which Put removes what the path names
by then. `Move` copies, closes and deletes; when one of these fails it returns
with what it has done. `Crash` ends every call and leaves the files.
`claim` is a history variable that says what a caller may count on and until
when; the code has nothing like it. `Close` of a
file does not fail: its errors, dropped by the code (`local.go:50,143`), are left
out. `UploadTo` takes a path nobody has used,
because `generatePath` puts a UUID into it. `Upload` validates the name;
`UploadReader` does not, and with a name that has `/../` in it `filepath.Join`
drops the UUID again, so that it may write to any path that an upload under way
does not hide (`UploadOver`). The application uses only paths that
an Upload has returned or that it made up itself. `ExtTypes`, `DetectByMime` and
`TrimDot` are the tables and conversions of the validator.

## 3. Runs

Bounds are named in the cfg files and in the MC modules.

| run | instance | states | shows |
|---|---|---|---|
| task | three tasks (`MaxRetries` -1, 0 and 2), two executors | 75 441 | outcome decided once; agrees with the attempts; a handler that begins after it has a context that has ended; waiters see it; refinement of `TaskPromise`; the retry loop ends |
| pool | one worker, queue of one, three submissions of two tasks, one Stop | 176 113 | queue bound, nothing lost, nothing delivered twice, acceptance leads to a decision, Stop returns and leaves nothing running |
| limiter | two clients, limit 2, window of one tick, clock to 5 | 103 872 | refinement of `FixedWindow`; at most twice the limit in any interval |
| cache | two keys, one reader, four identities, four bytes | 406 396 | bytes, list and map agree; the limit |
| queue | one Close, one publisher, two consumers, one reconnection | 362 124 | refinement of `MessageDelivery` (at-least-once from the arrival); a message the broker waits for is with a consumer that has not left, one open channel at a time, Close is final, a loss that is listened for is replaced or given up, Close ends |
| tokens | three Locks of one resource, one request, one user, two tokens | 1 153 510 | refinement of `Lease`; the lock excludes until an Unlock is late or repeated; a revoked token is not refreshed |
| lifecycle | two requests; two handlers of which one hangs, two priorities, two Executes | 223 626 | what was opened is closed; requests keep the database; the process ends; accepted handlers are called, once and by priority; Execute returns |
| upload | two callers, two paths, three files, one text of two blocks | 363 175 | a success is whole and stays; a Move loses nothing; readers read what they opened; refinement of `UploadStore`; an extension the list has without a dot is not refused |

**Why the bounds are enough.** *Task:* executors interact through one task at a
time; two show every race between a second `execute` and the first, and `Cancel`
and the contexts are not bounded. *Pool:* with one worker, its channel, the
dispatcher's hand and the queue of one are all full with the three submissions,
which is what makes the dispatcher push back past the limit. What a second
worker adds, the same task at two of them, is in the run `task` with its two
executors, and the theorems hold for any number of workers. *Limiter:* the clock
runs over more than two windows, so a window can be reset, cleaned up and
reopened. *Cache:* Set, Delete and Incr are single steps, so other callers than
the one reader are steps of the environment; four identities leave one free when
all are held. *Queue:* one reconnection separates the current connection from an
old one, and two attempts separate the last from the others; messages meet only
in the broker's sets and in a consumer, and two consumers meet over one message
when it is delivered again. One Close shows it against the reconnector; that
several exclude each other is proved. *Tokens:* a third
Lock is needed, because one caller must remove the entry of another for a third
to acquire; with two tokens one is refreshed into the other, and Revoke and the
clock need no caller. *Lifecycle:* two requests, so that one may end while
another stays; two handlers are in either order of priority or equal, and the
second Execute may come between any two steps of the first. *Upload:* two
callers meet on every path; two files may have names while one caller holds
another without. Two blocks make a part differ from the whole. One text is
enough, since who overwrites a file empties it first, and a write that comes
late leaves a hole or nothing to see. The list of extensions has one with and one
without a dot. `Refuse` is allowed only while no call is
going on, because validation looks at nothing but the file.

**Fairness.** Weak fairness of goroutines that can go on: executors and workers
(so handlers are assumed to return), the dispatcher, calls of Submit and Stop
that were begun, the reconnector (dials end, `DialTimeout`), a Close that was
begun, `main` after its signal as long as it is not in the queue's Close (which
need not end, see below), Execute and its goroutine (where handlers are
assumed to return, unless they are in `Hanging`). Nothing obliges anybody to cancel, submit, stop,
publish or fail. In `Lifecycle` requests need not end: the timeout makes the
process end. Deadlock checking is off because each of these systems may stop: a
task that is decided, a pool that was stopped, a process that has ended, a cache
or a storage that nobody calls.

**Disagreements.** Four runs expect a violation, of a sentence of the
documentation or a comment by what the code does.

* `task_cancel`: `Cancel` of a running task closes `done`, and `execute` closes
  it again when the handler returns: the process dies of a panic
  (`async.go:144` against 179, 200, 223, 234).
* `cache_late_delete`: a Get that found an expired item deletes what a Set has
  stored since (`memory.go:56-57`).
* `lifecycle_exit`: `main` calls `Shutdown` and then the deferred `Closer`; the
  second `Pool.Stop` closes closed channels. With at least one worker every stop
  by a signal ends in a panic (`main.go:23,43`, `async.go:315`). The property
  leaves out a process that was panicking before, as it is when the signal comes
  before `httpServer` is assigned.
* `queue_reconnect`: the loss of a connection ends the process with a panic in the
  library instead of a reconnection, because `connect` registers one `notifyClose`
  with the connection and with its channel (`rabbitmq.go:110-111`), where the
  documentation (`README.md:30,346`) promises that the queue reconnects by itself.
  A Close of an open queue panics for the same reason. What reconnects is a queue
  whose channel alone was closed by the broker.

The models have further behaviour that no run holds against a sentence of the
repository, because no sentence speaks of it. The dispatcher takes the first
worker with an empty buffer for an idle one, also when it is busy for long
(`async.go:353`). An Unlock after the end of its lease removes the lock of the
next holder, because all tokens are equal. A refresh token may be used again, and
its storing may fail unseen. Incr does not look at the age of an item
(`memory.go:177`) and lets its value outgrow the size that was counted. After an
error of the channel alone the old connection stays open, and Close does not know
it (`rabbitmq.go:106`). A channel that is lost before its NotifyClose is never
replaced, since the closed `notifyClose` yields nil for ever (line 124). When the
reconnector has left, or waits in `connect` for a mutex that the library holds
while it waits for the reconnector, a Close may wait for ever (`Unheard`). A nil
of Publish does not say that the message arrived, and a consumer whose context
ends leaves what it has been sent unanswered until the channel ends. The reconnector may end the process during a Close, since
it counts its attempts before it looks at `done` (`rabbitmq.go:132`), and a
consumer ends with its channel and is not subscribed again (`rabbitmq.go:279`).
Move or Copy of a path to itself empties the file before it is read;
UploadReader believes the size it is told (`upload.go:118`) and the name; a Put
that fails removes what another has stored at its path meanwhile (`local.go:56`).
`validateExtension` takes the dot from the extension of the file and not from
those of the list (`validator.go:111-116`), so that an entry with a dot, as the
documentation (`README.md:321`) and the defaults (`config.go:320`) write them,
matches no file. Who reads a file
while it is overwritten reads some of both. The hazards say more of some of
these.

## 4. Proofs

`tlapm` proves the following for every value of the constants.

**AsyncTaskProofs** (any set of tasks and executors, any `MaxRetries`, negative
ones included). The safety properties of the run `task` and the refinement of
`TaskPromise` rest on one inductive invariant, `IInv`. The properties are not
inductive: that a second `execute` is refused needs the state of a task to say
whether somebody executes it. So `IInv` says that an executor stands in
`execute` exactly with a task (`pc` and `cur` agree), that a task being executed
has left `pending` and that no two executors have the same one, that `done`
agrees with a terminal state, that a task being executed is decided only if
`Cancel` has decided it, and that `retryCount` follows `attempt` through the
loop. Each action has a lemma; the four `Finish` actions share `FinishCloses`,
`FinishLeaves` and `FinishInv`. `LateCallsAreCancelled` is an action property: no
executor goes past the select of its loop with a decided task, because a
cancelled task's context has ended; and a handler that begins on one that was
decided after the select is given a context that has ended.

**AsyncPoolProofs** (any number of workers, tasks, submissions and calls of
Stop, any size of the queue). `PInv` has a half for the tasks and one for the
delivery. That no submission is in two places (`DeliveredOnce`) is stated place
by place in `Apart`: queue, the dispatcher's hand, a worker's channel, and the
submission a worker has received. A step that moves a submission must leave
nothing behind and find it nowhere else. `GoroutinesAgree` says where hands may
be full: the dispatcher holds a submission only while it looks for a worker, a
worker only in its loop and while it executes nothing. With one submission in
the hand, `QueueBound` follows from the push back adding what the count included
already. A running task has a worker (`RunningIsExecuted`), and a Stop that has
returned has seen every worker out, which gives `StopQuiesces` also when several
Stops run. The lemmas `ExecuteTask` to `ContextTask` say once for each action of
`AsyncTask` what it leaves the pool.

The pool's tasks are those of `AsyncTask`, and what is proved there carries over
(`PoolExecutesOnce` to `PoolKeepsPromise`), again for any number of Stops. A step
of the pool is a step of `AsyncTask`, leaves the tasks alone, or is the panic of
a Stop that finds the quit channels closed (`StopPanics`). The panic ends the
process in a way no task knows of, so the invariant of the tasks cannot be used
as it stands: `CrashOnlyAfterCancel` fails. `TasksInv` keeps its other parts and
says instead who may have crashed the process (`CrashExplained`: a Cancel, or a
second Stop) and who has closed the channels (`QuitByStop`). That the pool
implements the specification `TaskSpec` itself (`PoolImplementsTasks`) has a
hypothesis, no two calls of Stop, because the panic is no step of it; the
instance of the run `pool` has one Stop, and that an application makes two is
the finding of `lifecycle_exit`.

**RateLimiterProofs** (any limit, window, set of clients, clock).
`CountersInvariant` bounds each counter by the limit and its time by the clock;
with it each step of the limiter is a step of `FixedWindow` or a stutter. A
refused request after a window has ended cannot happen, which is where the bound
`Limit >= 1` of the defaults is used; `Cleanup` is a stutter because it removes
only what the mapping does not see. `TwiceAtMost` needs to know what a counter
does not remember. `Histories` says, of a client's open window, that the
requests before it were let through before it began, and no more than the limit
of them within a window's length of its beginning; and of a client without a
counter, that its last request is more than a window's length ago, which is
where the factor two in `cleanup` is used. `FreshWindow` gives the first also to
a window that is about to begin.

**MemoryCacheProofs** (any sets of keys, clients, texts and sizes, any limit,
more identities than keys and clients together). `CacheInv` says that each
element of the list is that of its key's item, one to a key, that the bytes in
use are the sum of their sizes (`Listed`), that every item has an element
(`Covers`), and that the limit is kept. Within one critical section it is
broken: a Set takes the old item out of the list before it takes it out of the
map. What holds from there through each round of the eviction is `Ready`, which
leaves that key out. `EvictUntilFits` goes through the rounds: each shortens the
list unless enough bytes are free, so after as many as the list is long the loop
has ended. Sums are partial sums, and what inserting, removing and moving an
element does to them (`SumFront`, `SumLacks`) and the rounds need induction; it
is stated on sets of numbers (`Induction`) and follows from the existence of a
least one. That the allocator finds an identity (`FreshIdIsId`) is a count.
`LateDropsExplained` is what remains of the claim that `cache_late_delete`
refutes: a Get or Exists may drop a fresh item, but never the one it had looked
up. `PickedUp` says that what a call holds has the expiry of the item with the
same identity, if the map has it still, and that a call that judged it stale was
right; for this no identity that a call holds may be given out again.

**RabbitMQQueueProofs** (any number of callers of Close, Publish and Consume, of
connections and of retries). `QInv` says that connect and Close exclude each
other by the lock (`LockAgrees`); that the reconnector looks for a connection only
after its channel was lost (`ReconnectorAgrees`), so that at most the current
channel is open (`OneChannel`, which is `OneAtATime`); that a Close that is past
the channel has left none open and a flag the reconnector tests under the lock
(`CloseAgrees`); that a consumer about to acknowledge has seen its handler succeed
(`HandledFirst`); and that who uses a channel has read one (`HaveRead`).
`NobodyForgets` is inductive together with `QInv`: a delivery
leaves the broker's hands only into what the library keeps for a consumer, from
there only into its handler, and a consumer lets go of it
only by an answer or because its channel was lost, which makes it ready again.
`NoPublishAfterClose` is an action property: what a late Publish has sent cannot
arrive on a channel that is not open.
`QueueDelivers` is the refinement of `MessageDelivery`. `BrokerInv` makes its
mapping total: a message is in one of the broker's sets at the most and
delivered to one consumer at a time (`OnePlace`), the broker has exactly the
messages that have arrived, and a consumer has only such messages, waiting or in
its handler, although its channel is lost (`OnlyArrived`), so that a
handler that succeeds late is a step of the promise. An acknowledgement drops a
message only if the broker still waits for that delivery.

**AuthTokensProofs** (any number of callers, resources, users and tokens).
`LeaseIsEntry`: until an Unlock comes late, whoever has a lease has the entry at
the server, and is its maker; two holders of one resource are therefore one. It
is not enough to say that the entry exists, since a late Unlock and a new Lock
leave one there. `RevokedIsGone`: a revoked token has no entry, and Generate
stores only under IDs that were not issued. `LocksAreLeases` is the refinement of
`Lease`: an execution of SetNX grants, an execution of Unlock or the passing of
the time to live ends a lease, and all else, repeated commands and lost replies
included, is a stutter. Besides `AInv` it needs `EntryHasMaker`, by which the
maker of an entry is a call for that very resource, so that what ends a lease
removes the entry of one resource and no other. The promise ends with the first
late Unlock (`late`), as the code's does. `RefreshesKeepUser` (a refreshed token
belongs to the user of the one before it) follows from what an entry holds
(`EntryIsUser`) and what a Refresh has read and carries to Generate
(`CallIsUser`), which stays true when the entry is revoked meanwhile.

**AppProcessProofs** (any number of workers, requests, handlers, priorities and
calls of Execute). The invariant `LInv` of `Lifecycle` says what each point of
Shutdown and of the Closer has behind it; in particular a stopped pool before
the Closer's own Stop means that Shutdown has also closed the queue, which is
why the panic there leaves nothing open. `ExitIsExplained` says how a process that
a signal ends does end: normally only when the pool has no worker, the queue did
not fail, and Shutdown found a server and did not panic, in a panic only otherwise. `PoolStopped`
is what makes it inductive: at the Closer's Stop the pool is stopped already,
unless main is panicking. `ProcessIsLifecycle` carries all this over to the
process that also has a `ShutdownHandler` (`ProcessClosesAll`, `ProcessKeepsDb`,
`ProcessExitExplained`). `HInv`, from which
`CalledInOrder` follows, says that a handler has one entry (`OneEntryEach`),
that at most one Execute is past the test and the list does not change once it
is sorted (`OneExecutes`), and that the handlers that have ended are those
called so far, without the one being called (`Progress`), of which `NobodyLeftOut`
is the last case: at the end they are all that were accepted. Sorting keeps the
entries because a permutation is injective (`SortKeeps`).

**UploadProofs** (any number of callers, paths, texts and files, texts of any
length). The properties of the storage follow from `SInv`. `Shape` says what a
call holds at each of its points, `FilesApart` that a file belongs to one path:
nobody who opened one path can write to another. `ClaimShape` says that a claim
lasts only while no other call can get in its way, and `Kept` what it is worth:
what was written so far is a beginning of the content, what is being read is all
of it, and between the copy and the delete of a Move the copy is complete. Only
`Kept` implies the properties, and it is the other three that make it
inductive. Steps that close files, steps that write and steps of other callers
share lemmas (`EndingStep`, `KeptByWrite`, `KeptByKeepFiles`, `OtherCalls`).
`ManagerKeepsUploads` needs `UInv` besides: a hidden path is used by
no call but its upload, and nobody gets in the way of that one, so a published path has
its text until a step that also ends the publication: a Delete, a write by the
application, or an upload by a name that escapes its UUID. `AllowedIsNeverRefused` is
about the Validator: what was refused was refused for a cause (`RefusedForCause`),
and for an extension that the list has without a dot there is none, whatever
letters the two are written in, because both come to the same name without dot in
small letters (`NameDecides`).

The assumptions on constants are the named ASSUMEs of the modules; TLC evaluates
each on the instances.

Type invariants are proved (`TypeCorrect`, `PoolTypeCorrect`, `HooksTypeCorrect`,
`StorageTypes`) and in no run. So are `AckedWasHandled`, which the run `queue`
checks as part of `MessageDelivery`, and five properties stated for the proofs:
`CrashExplained`, `DroppedWasStoredLate`, `RefreshKeepsUser`, `ExitExplained` and
`NobodyLeftOut`. TLC agreed with each of these five before it was proved, on an
instance that fits it (two Stops; the instance of `cache_late_delete`; two users;
no, one and two workers; one like that of `lifecycle`).

**Model-checked only.** Liveness (`StartedIsDecided`, `AcceptedIsDecided`,
`StopReturns`, `LostIsReplaced`, `CloseEnds`, `SignalEnds`,
`AcceptedIsCalled`, `ExecuteReturns`) rests on fairness and ENABLED, which the
prover does not support. Of the rest every property of a run that passes is
proved, `TasksAsSpecified` for one Stop.

## 5. Not modelled

Input and output and calls that pass through to a library: configuration files,
logging, Prometheus, gorm, the OSS client, the counters, sets, hashes and lists
of Redis; functional options and error values, which are assignments.
`RedisQueue` issues one command per operation and keeps nothing; that `BRPOP` has
taken a message when its handler fails is a hazard without a property
(`redis.go:75`). Of `RabbitMQQueue` the calls that declare, bind, purge, delete
and inspect are left out (they begin as Publish does and change nothing of the
queue's own), and so are AutoAck and a loss while NewRabbitMQ makes the first
connection. Of the
upload: directories, URLs, hashes, Stat, Exists, and `ScanVirus`, which does
nothing. The data race on a response header in the rate limiter, and the one on
the text that Get returns, touch nothing the models tell apart. `WatchConfig` is
called by nobody.

## 6. Plan

Done, in the order of their weight: `AsyncTask` and `AsyncPool`, `RateLimiter`,
`MemoryCache`, `RabbitMQQueue`, `Lifecycle`, the lock of `RedisCache` and
`AuthTokens`; then `ShutdownHandler` in `AppProcess`, and `LocalStorage` and
`Upload` with `UploadStore`; then `MessageDelivery` and `Lease`, what the queue and
the lock promise. Left:

1. `AuthTokens` over `MemoryCache`, which evicts.
2. AutoAck of `RabbitMQQueue`; `RedisQueue`, a list and consumers that fail.
3. Pure operators against reference definitions: page count, middleware order,
   round robin of the slaves.
4. Proofs: that the components behave in one process as `Lifecycle` has them,
   when it is composed with them.

`Lifecycle` sees `AsyncPool` and `RabbitMQQueue` through whether they are open;
composing it with the state machines themselves is for after these.
