--------------------------- MODULE RabbitMQQueue ---------------------------
(***************************************************************************)
(* queue.RabbitMQQueue (pkg/queue/rabbitmq.go) after a NewRabbitMQ during  *)
(* which nothing was lost: the goroutine that reconnects, the callers of   *)
(* Close, Publish and Consume, and the goroutines that consume.            *)
(*                                                                         *)
(* The broker and the library (amqp091-go v1.10.0, go.mod:14) are          *)
(* external.  When the library finds a channel or a connection lost it     *)
(* sends the error to every Go channel registered with NotifyClose, which  *)
(* waits for the receiver, and closes them; a NotifyClose that comes later *)
(* closes its argument at once.  A connection does so for itself and then  *)
(* for its channel, and a Close of either closes what is registered too.   *)
(* connect registers ONE Go channel with both: what is done for the second *)
(* of them finds it closed, and to send on a closed Go channel or to close *)
(* it again panics.  A loss is found by the goroutine that reads from the  *)
(* connection, so that nothing more is found while it waits to send.       *)
(*                                                                         *)
(* The queue subscribes without AutoAck.  The library keeps what the       *)
(* broker delivers until the consumer's goroutine receives it, and a       *)
(* publish is not confirmed: it may never arrive.                          *)
(***************************************************************************)
EXTENDS Naturals, FiniteSets

CONSTANTS
  Closers,      \* the calls of Close
  Publishers,   \* the calls of Publish, each with a message of its own
  Consumers,    \* the calls of Consume and the goroutines they start
  MaxRetries,   \* the config's MaxRetries; 10 in its place when it is <= 0
  MaxConns,     \* bound of the model: connections ever opened
  None

ASSUME QueueAssumption == MaxRetries \in Nat /\ MaxConns \in Nat \ {0}

Conns == 1..MaxConns
Retries == IF MaxRetries <= 0 THEN 10 ELSE MaxRetries

VARIABLES
  conn,         \* the connections: "unused", "open", "failing" while the
                \* library waits to send the error of a loss, "closed"
  chan,         \* the channel of each of them, likewise
  notify,       \* its notifyClose, a Go channel: "open" or "closed"
  current,      \* q.conn, q.channel and q.notifyClose
  closed,       \* q.closed
  doneClosed,   \* q.done is closed
  locked,       \* connect or Close holds q.mu for writing
  rpc, retries, \* the reconnector
  process,      \* "up", "fatal" after logger.Fatal, "panic" after a panic in
                \* the library's goroutine or the reconnector's
  closer,       \* how far a call of Close is
  pub,          \* how far a call of Publish and its message are, and the
                \* channel it has read
  con,          \* a call of Consume, its goroutine, and what the library keeps
                \* for it
  ready,        \* messages ready at the broker
  unacked,      \* messages delivered and not acknowledged: [msg, on, to]
  acked,        \* messages the broker has dropped
  handled       \* messages a handler returned nil for (history)

connVars == <<conn, chan, notify, current>>
loopVars == <<rpc, retries>>
msgVars == <<ready, unacked, acked, handled>>
vars == <<connVars, closed, doneClosed, locked, loopVars, process, closer, pub,
          con, msgVars>>

Messages == Publishers

NewCall == [pc |-> "new", on |-> None]
NewCon == [pc |-> "new", on |-> None, msg |-> None, buf |-> {}]

Init ==
  /\ conn = [i \in Conns |-> IF i = 1 THEN "open" ELSE "unused"]
  /\ chan = conn
  /\ notify = [i \in Conns |-> "open"]
  /\ current = 1
  /\ closed = FALSE /\ doneClosed = FALSE /\ locked = FALSE
  /\ rpc = "select" /\ retries = 0 /\ process = "up"
  /\ closer = [c \in Closers |-> "new"]
  /\ pub = [p \in Publishers |-> NewCall]
  /\ con = [c \in Consumers |-> NewCon]
  /\ ready = {} /\ unacked = {} /\ acked = {} /\ handled = {}

Usable(i) == conn[i] = "open" /\ chan[i] = "open"

-----------------------------------------------------------------------------
(* The broker and the library *)

\* The channel of i is gone: its deliveries are ready again, unless they were
\* acknowledged.
ReleaseUnacked(i) ==
  /\ ready' = ready \cup {u.msg : u \in {v \in unacked : v.on = i}}
  /\ unacked' = {u \in unacked : u.on # i}
  /\ UNCHANGED <<acked, handled>>

\* How far connect has come with the connection i.
ChannelRegistered(i) == i = current => rpc # "notify1"
Registered(i) == i = current => rpc \notin {"notify1", "notify2"}

\* A connection is lost.  The error is sent on notifyClose,
ConnLost(i) ==
  /\ Registered(i) /\ notify[i] = "open"
  /\ conn' = [conn EXCEPT ![i] = "failing"]
  /\ UNCHANGED <<chan, process>>

\* or on a notifyClose that the loss of its channel has closed,
ConnLostAgain(i) ==
  /\ Registered(i) /\ notify[i] = "closed"
  /\ process' = "panic"
  /\ UNCHANGED <<conn, chan>>

\* or, where only the channel is registered, on that of the channel, with the
\* connection's mutex held; or nobody is told.
ConnLostEarly(i) ==
  /\ ~Registered(i)
  /\ LET now == IF ChannelRegistered(i) /\ chan[i] = "open" THEN "failing"
                                                          ELSE "closed"
     IN conn' = [conn EXCEPT ![i] = now] /\ chan' = [chan EXCEPT ![i] = now]
  /\ UNCHANGED process

ConnFails(i) ==
  /\ conn[i] = "open" /\ chan[i] # "failing"
  /\ ConnLost(i) \/ ConnLostAgain(i) \/ ConnLostEarly(i)
  /\ ReleaseUnacked(i)
  /\ UNCHANGED <<notify, current, closed, doneClosed, locked, loopVars, closer,
                 pub, con>>

\* The broker closes the channel alone, for an error of one of its calls.
ChannelFails(i) ==
  /\ Usable(i)
  /\ chan' = [chan EXCEPT ![i] =
                IF ChannelRegistered(i) THEN "failing" ELSE "closed"]
  /\ ReleaseUnacked(i)
  /\ UNCHANGED <<conn, notify, current, closed, doneClosed, locked, loopVars,
                 process, closer, pub, con>>

\* A message that Publish has sent arrives.
Arrive(p) ==
  /\ pub[p].pc = "sent" /\ Usable(pub[p].on)
  /\ ready' = ready \cup {p}
  /\ pub' = [pub EXCEPT ![p].pc = "arrived"]
  /\ UNCHANGED <<connVars, closed, doneClosed, locked, loopVars, process, closer,
                 con, unacked, acked, handled>>

\* A subscription lasts as long as its channel: a goroutine that leaves its loop
\* does not cancel it.
Subscribed(c) ==
  con[c].pc \in {"waiting", "handling", "ok", "failed", "exited"}

Deliver(c, m) ==
  /\ Subscribed(c) /\ Usable(con[c].on)
  /\ m \in ready
  /\ ready' = ready \ {m}
  /\ unacked' = unacked \cup {[msg |-> m, on |-> con[c].on, to |-> c]}
  /\ con' = [con EXCEPT ![c].buf = @ \cup {m}]
  /\ UNCHANGED <<connVars, closed, doneClosed, locked, loopVars, process, closer,
                 pub, acked, handled>>

Environment ==
  \/ \E i \in Conns : ConnFails(i) \/ ChannelFails(i)
  \/ \E p \in Publishers : Arrive(p)
  \/ \E c \in Consumers, m \in Messages : Deliver(c, m)

-----------------------------------------------------------------------------
(* The reconnector *)

ReconnectorDone ==
  /\ rpc \in {"select", "wait"}
  /\ doneClosed
  /\ rpc' = "exited"
  /\ UNCHANGED <<connVars, closed, doneClosed, retries, process, locked, closer,
                 pub, con, msgVars>>

ReconnectorImpatient ==         \* mutant: the select has a default case
  /\ rpc = "select"
  /\ rpc' = "loop" /\ retries' = 0
  /\ UNCHANGED <<connVars, closed, doneClosed, process, locked, closer, pub, con,
                 msgVars>>

\* The error of the channel arrives, and the library closes notifyClose; or that
\* of the connection does, and the library closes notifyClose and sends on it
\* again for the channel.  A nil, which a closed notifyClose yields for ever,
\* changes nothing.
ReconnectorNotified ==
  /\ rpc = "select"
  /\ \/ /\ chan[current] = "failing"
        /\ chan' = [chan EXCEPT ![current] = "closed"]
        /\ notify' = [notify EXCEPT ![current] = "closed"]
        /\ rpc' = "loop" /\ retries' = 0
        /\ UNCHANGED process
     \/ /\ conn[current] = "failing"
        /\ process' = "panic"
        /\ UNCHANGED <<chan, notify, loopVars>>
  /\ UNCHANGED <<conn, current, closed, doneClosed, locked, closer, pub, con,
                 msgVars>>

\* The head of the retry loop, before it looks at done.
ReconnectorLoop ==
  /\ rpc = "loop"
  /\ IF retries >= Retries
     THEN process' = "fatal" /\ rpc' = "exited"
     ELSE rpc' = "wait" /\ UNCHANGED process
  /\ UNCHANGED <<connVars, closed, doneClosed, retries, locked, closer, pub,
                 con, msgVars>>

\* RetryDelay is over: connect takes the lock and looks at closed.
ConnectFails ==
  /\ rpc' = "loop" /\ retries' = retries + 1 /\ locked' = FALSE

ConnectBeginAnyway ==           \* mutant: connect does not look at closed
  /\ rpc = "wait" /\ ~locked
  /\ rpc' = "dial" /\ locked' = TRUE /\ UNCHANGED retries
  /\ UNCHANGED <<connVars, closed, doneClosed, process, closer, pub, con, msgVars>>

ConnectBegin ==
  /\ rpc = "wait" /\ ~locked
  /\ IF closed
     THEN ConnectFails
     ELSE rpc' = "dial" /\ locked' = TRUE /\ UNCHANGED retries
  /\ UNCHANGED <<connVars, closed, doneClosed, process, closer, pub, con, msgVars>>

\* Dialling failed, or opening the channel did (the connection is closed then).
DialFailsUncounted ==           \* mutant: retries++ is missing
  /\ rpc = "dial"
  /\ rpc' = "loop" /\ locked' = FALSE
  /\ UNCHANGED <<connVars, process, retries, closed, doneClosed, closer, pub, con,
                 msgVars>>

DialFailsLocked ==              \* mutant: the lock stays taken on an error
  /\ rpc = "dial"
  /\ rpc' = "loop" /\ retries' = retries + 1
  /\ UNCHANGED <<connVars, process, locked, closed, doneClosed, closer, pub, con,
                 msgVars>>

DialFails ==
  /\ rpc = "dial"
  /\ ConnectFails
  /\ UNCHANGED <<connVars, closed, doneClosed, process, closer, pub, con, msgVars>>

\* The new connection takes the place of the old, which is not closed,
DialSucceeds ==
  /\ rpc = "dial"
  /\ \E i \in Conns :
       /\ conn[i] = "unused" /\ \A j \in 1..(i-1) : conn[j] # "unused"
       /\ conn' = [conn EXCEPT ![i] = "open"]
       /\ chan' = [chan EXCEPT ![i] = "open"]
       /\ current' = i
  /\ rpc' = "notify1"
  /\ UNCHANGED <<notify, retries, process, locked, closed, doneClosed, closer,
                 pub, con, msgVars>>

\* its notifyClose is registered with the channel, or closed when that is lost,
NotifyChannel ==
  /\ rpc = "notify1"
  /\ notify' = [notify EXCEPT ![current] =
                  IF chan[current] = "closed" THEN "closed" ELSE @]
  /\ rpc' = "notify2"
  /\ UNCHANGED <<conn, chan, current, retries, process, locked, closed,
                 doneClosed, closer, pub, con, msgVars>>

\* and with the connection; where that is lost it is closed again.  A library
\* that waits to send holds the mutex NotifyClose needs.
NotifyConn ==
  /\ rpc = "notify2" /\ conn[current] # "failing"
  /\ IF conn[current] = "closed"
     THEN process' = "panic" /\ UNCHANGED <<rpc, locked>>
     ELSE rpc' = "select" /\ locked' = FALSE /\ UNCHANGED process
  /\ UNCHANGED <<connVars, retries, closed, doneClosed, closer, pub, con, msgVars>>

Reconnector ==
  \/ ReconnectorDone \/ ReconnectorNotified \/ ReconnectorLoop
  \/ ConnectBegin \/ DialFails \/ DialSucceeds \/ NotifyChannel \/ NotifyConn

-----------------------------------------------------------------------------
(* Close *)

\* The CompareAndSwap, which one caller wins,
CloseMark(c) ==
  /\ closer[c] = "new"
  /\ closer' = [closer EXCEPT ![c] = IF closed THEN "lock" ELSE "won"]
  /\ closed' = TRUE
  /\ UNCHANGED <<connVars, doneClosed, locked, loopVars, process, pub, con,
                 msgVars>>

\* close(q.done) by the winner,
CloseDone(c) ==
  /\ closer[c] = "won"
  /\ doneClosed' = TRUE
  /\ closer' = [closer EXCEPT ![c] = "lock"]
  /\ UNCHANGED <<connVars, closed, locked, loopVars, process, pub, con, msgVars>>

\* and, under the lock, the current channel: nothing is done for one that is
\* lost already.  Closing notifyClose makes a library that waits to send on it
\* panic.
CloseChannel(c) ==
  /\ closer[c] = "lock" /\ ~locked
  /\ locked' = TRUE
  /\ closer' = [closer EXCEPT ![c] = "conn"]
  /\ IF chan[current] = "open"
     THEN /\ chan' = [chan EXCEPT ![current] = "closed"]
          /\ notify' = [notify EXCEPT ![current] = "closed"]
          /\ process' = IF conn[current] = "failing" THEN "panic" ELSE process
          /\ ReleaseUnacked(current)
     ELSE UNCHANGED <<chan, notify, process, msgVars>>
  /\ UNCHANGED <<conn, current, closed, doneClosed, loopVars, pub, con>>

\* Then the connection.  The broker's answer needs the goroutine that reads;
\* when it has come notifyClose is closed, a second time if the channel's end
\* has closed it.  That is a panic of the caller, which releases the lock, or of
\* the goroutine that reads when it finds the end of the socket first.
CloseConn(c) ==
  /\ closer[c] = "conn" /\ chan[current] # "failing"
  /\ locked' = FALSE
  /\ IF conn[current] = "open"
     THEN /\ conn' = [conn EXCEPT ![current] = "closed"]
          /\ notify' = [notify EXCEPT ![current] = "closed"]
          /\ closer' = [closer EXCEPT ![c] =
               IF notify[current] = "closed" THEN "panicked" ELSE "returned"]
          /\ process' \in {process} \cup
               {p \in {"panic"} : notify[current] = "closed"}
     ELSE /\ closer' = [closer EXCEPT ![c] = "returned"]
          /\ UNCHANGED <<conn, notify, process>>
  /\ UNCHANGED <<chan, current, closed, doneClosed, loopVars, pub, con, msgVars>>

Close(c) == CloseMark(c) \/ CloseDone(c) \/ CloseChannel(c) \/ CloseConn(c)

-----------------------------------------------------------------------------
(* Publish; the operations that declare, bind, inspect or delete exchanges and
   queues begin in the same way. *)

\* The test of closed, and the channel read under the read lock.
PublishBegin(p) ==
  /\ pub[p].pc = "new"
  /\ pub' = [pub EXCEPT ![p].pc = IF closed THEN "refused" ELSE "begun"]
  /\ UNCHANGED <<connVars, closed, doneClosed, locked, loopVars, process, closer,
                 con, msgVars>>

PublishSnapshot(p) ==
  /\ pub[p].pc = "begun" /\ ~locked
  /\ pub' = [pub EXCEPT ![p] = [pc |-> "send", on |-> current]]
  /\ UNCHANGED <<connVars, closed, doneClosed, locked, loopVars, process, closer,
                 con, msgVars>>

\* The call on that channel, whichever is current by now.  It waits while the
\* library does, with the mutex of the channel; nil says that the message was
\* sent.
PublishSend(p) ==
  /\ pub[p].pc = "send" /\ chan[pub[p].on] # "failing"
  /\ pub' = [pub EXCEPT ![p].pc = IF Usable(pub[p].on) THEN "sent" ELSE "error"]
  /\ UNCHANGED <<connVars, closed, doneClosed, locked, loopVars, process, closer,
                 con, msgVars>>

Publish(p) == PublishBegin(p) \/ PublishSnapshot(p) \/ PublishSend(p)

-----------------------------------------------------------------------------
(* Consume *)

ConsumeBegin(c) ==
  /\ con[c].pc = "new"
  /\ con' = [con EXCEPT ![c].pc = IF closed THEN "refused" ELSE "begun"]
  /\ UNCHANGED <<connVars, closed, doneClosed, locked, loopVars, process, closer,
                 pub, msgVars>>

ConsumeSnapshot(c) ==
  /\ con[c].pc = "begun" /\ ~locked
  /\ con' = [con EXCEPT ![c].pc = "subscribe", ![c].on = current]
  /\ UNCHANGED <<connVars, closed, doneClosed, locked, loopVars, process, closer,
                 pub, msgVars>>

\* Qos and Consume on the channel; then the goroutine is started.
ConsumeSubscribe(c) ==
  /\ con[c].pc = "subscribe"
  /\ con' = [con EXCEPT ![c].pc =
               IF Usable(con[c].on) THEN "waiting" ELSE "error"]
  /\ UNCHANGED <<connVars, closed, doneClosed, locked, loopVars, process, closer,
                 pub, msgVars>>

\* The select of the goroutine: the caller's context has ended, which it may at
\* any time, or done is closed, or the deliveries are; or there is a message.
ConsumerExit(c) ==
  /\ con[c].pc = "waiting"
  /\ con' = [con EXCEPT ![c].pc = "exited"]
  /\ UNCHANGED <<connVars, closed, doneClosed, locked, loopVars, process, closer,
                 pub, msgVars>>

Receive(c, m) ==
  /\ con[c].pc = "waiting" /\ m \in con[c].buf
  /\ con' = [con EXCEPT ![c].pc = "handling", ![c].msg = m, ![c].buf = @ \ {m}]
  /\ UNCHANGED <<connVars, closed, doneClosed, locked, loopVars, process, closer,
                 pub, msgVars>>

Handle(c) ==
  /\ con[c].pc = "handling"
  /\ \/ /\ con' = [con EXCEPT ![c].pc = "ok"]
        /\ handled' = handled \cup {con[c].msg}
     \/ con' = [con EXCEPT ![c].pc = "failed"] /\ UNCHANGED handled
  /\ UNCHANGED <<connVars, closed, doneClosed, locked, loopVars, process, closer,
                 pub, ready, unacked, acked>>

\* Ack, or Nack with requeue, on the channel of the delivery, which waits like
\* Publish; its error is ignored.
SettleSwapped(c) ==             \* mutant: Ack on an error
  /\ con[c].pc \in {"ok", "failed"} /\ chan[con[c].on] # "failing"
  /\ LET mine == {u \in unacked : u.msg = con[c].msg /\ u.to = c} IN
     IF mine # {}
     THEN unacked' = unacked \ mine /\ acked' = acked \cup {con[c].msg}
     ELSE UNCHANGED <<unacked, acked>>
  /\ con' = [con EXCEPT ![c].pc = "waiting", ![c].msg = None]
  /\ UNCHANGED <<connVars, closed, doneClosed, locked, loopVars, process, closer,
                 pub, handled, ready>>

SettleUnanswered(c) ==          \* mutant: an error is not answered
  /\ con[c].pc \in {"ok", "failed"} /\ chan[con[c].on] # "failing"
  /\ LET mine == {u \in unacked : u.msg = con[c].msg /\ u.to = c} IN
     IF mine # {} /\ con[c].pc = "ok"
     THEN unacked' = unacked \ mine /\ acked' = acked \cup {con[c].msg}
     ELSE UNCHANGED <<unacked, acked>>
  /\ con' = [con EXCEPT ![c].pc = "waiting", ![c].msg = None]
  /\ UNCHANGED <<connVars, closed, doneClosed, locked, loopVars, process, closer,
                 pub, handled, ready>>

Settle(c) ==
  /\ con[c].pc \in {"ok", "failed"} /\ chan[con[c].on] # "failing"
  /\ LET mine == {u \in unacked : u.msg = con[c].msg /\ u.to = c} IN
     IF mine # {}
     THEN /\ unacked' = unacked \ mine
          /\ IF con[c].pc = "ok"
             THEN acked' = acked \cup {con[c].msg} /\ UNCHANGED ready
             ELSE ready' = ready \cup {con[c].msg} /\ UNCHANGED acked
     ELSE UNCHANGED <<ready, unacked, acked>>
  /\ con' = [con EXCEPT ![c].pc = "waiting", ![c].msg = None]
  /\ UNCHANGED <<connVars, closed, doneClosed, locked, loopVars, process, closer,
                 pub, handled>>

Consume(c) == ConsumeBegin(c) \/ ConsumeSnapshot(c) \/ ConsumeSubscribe(c)

Consumer(c) ==
  \/ ConsumerExit(c) \/ Handle(c) \/ Settle(c)
  \/ \E m \in Messages : Receive(c, m)

-----------------------------------------------------------------------------
Next ==
  /\ process = "up"
  /\ \/ Environment
     \/ Reconnector
     \/ \E c \in Closers : Close(c)
     \/ \E p \in Publishers : Publish(p)
     \/ \E c \in Consumers : Consume(c) \/ Consumer(c)

Spec == Init /\ [][Next]_vars

\* Goroutines that can go on do: the reconnector, a Close that was begun.
\* Nothing is said of the broker, of publishers and consumers, or of how
\* dialling ends.
FairSpec ==
  /\ Spec
  /\ WF_vars(process = "up" /\ Reconnector)
  /\ \A c \in Closers :
       WF_vars(process = "up" /\ (CloseDone(c) \/ CloseChannel(c) \/ CloseConn(c)))

-----------------------------------------------------------------------------
(* Properties *)

LinkStates == {"unused", "open", "failing", "closed"}

TypeOK ==
  /\ conn \in [Conns -> LinkStates]
  /\ chan \in [Conns -> LinkStates]
  /\ notify \in [Conns -> {"open", "closed"}]
  /\ current \in Conns
  /\ closed \in BOOLEAN /\ doneClosed \in BOOLEAN /\ locked \in BOOLEAN
  /\ rpc \in {"select", "loop", "wait", "dial", "notify1", "notify2", "exited"}
  /\ retries \in 0..Retries
  /\ process \in {"up", "fatal", "panic"}
  /\ closer \in [Closers -> {"new", "won", "lock", "conn", "panicked", "returned"}]
  /\ pub \in [Publishers ->
                [pc : {"new", "refused", "begun", "send", "sent", "arrived",
                       "error"},
                 on : Conns \cup {None}]]
  /\ con \in [Consumers ->
                [pc : {"new", "refused", "begun", "subscribe", "error",
                       "waiting", "handling", "ok", "failed", "exited"},
                 on : Conns \cup {None}, msg : Messages \cup {None},
                 buf : SUBSET Messages]]
  /\ ready \subseteq Messages
  /\ unacked \subseteq [msg : Messages, on : Conns, to : Consumers]
  /\ acked \subseteq Messages /\ handled \subseteq Messages

\* Some Close has got past the channel: it is closing the connection, or over.
Shut == \E c \in Closers : closer[c] \in {"conn", "panicked", "returned"}

\* At least once: the broker drops a message only when a handler has returned
\* nil for it, whatever channels were lost in between and however late the
\* acknowledgement of an earlier delivery comes.
AckedWasHandled == acked \subseteq handled

\* Where a message is at the broker; in two places it is nowhere the promise
\* knows of.
Unacked(m) == {u \in unacked : u.msg = m}
Place(m) ==
  CASE m \in ready \ acked /\ Unacked(m) = {} -> "ready"
    [] m \notin ready \cup acked /\ (\E u \in unacked : Unacked(m) = {u}) ->
         "delivered"
    [] m \in acked \ ready /\ Unacked(m) = {} -> "dropped"
    [] m \notin ready \cup acked /\ Unacked(m) = {} -> "unsent"
    [] OTHER -> "twice"

Delivery ==
  INSTANCE MessageDelivery WITH place <- [m \in Messages |-> Place(m)]

\* The queue over its broker delivers at least once: no message that has ARRIVED
\* is lost, or delivered to two consumers at a time, or delivered again after it
\* was acknowledged, whatever channels are lost, however late the answers to
\* lost deliveries come, and whoever closes the queue meanwhile.  (A message
\* whose Publish returned nil need not arrive.)
DeliversAtLeastOnce == Delivery!Spec

\* What the broker has handed out on a channel and waits for is kept for its
\* consumer or in the hands of its handler, so that it will be answered, unless
\* that consumer has left its loop.  (Whoever leaves with its context while the
\* channel lives leaves what it is sent unanswered.)
UnackedIsHeld ==
  \A u \in unacked :
    /\ Usable(u.on) /\ con[u.to].on = u.on
    /\ \/ u.msg \in con[u.to].buf
       \/ con[u.to].pc \in {"handling", "ok", "failed"} /\ con[u.to].msg = u.msg
       \/ con[u.to].pc = "exited"

\* The queue has one open channel at the most: what it leaves behind when it
\* reconnects delivers nothing, and carries no publish of a call that had read
\* its channel before.
OneOpenChannel == \A i \in Conns : chan[i] = "open" => i = current

\* Close and the reconnector do not miss each other: from the moment a Close has
\* closed the channel no channel is open, no connection is being made, and none
\* is made later.
ClosedForGood ==
  Shut => /\ \A i \in Conns : chan[i] # "open"
          /\ rpc \notin {"dial", "notify1", "notify2"}

\* No message enters the broker through a queue whose channel was closed by
\* Close, not even from a call that had read the channel before.
NoPublishAfterClose ==
  [][Shut => ready' \cup {u.msg : u \in unacked'} \subseteq
             ready \cup {u.msg : u \in unacked}]_vars

\* A loss that the reconnector is listening for is followed by a connection that
\* works, or by the end of the process, or the queue is being closed: the
\* reconnector neither hangs nor goes on for ever.  (A channel lost before its
\* NotifyClose is one nobody listens for, and is never replaced.)
LostIsReplaced ==
  rpc = "select" /\ notify[current] = "open" /\ ~Usable(current)
    ~> Usable(current) \/ closed \/ process # "up"

\* The library waits for a reconnector that will not listen: it has left, or it
\* waits itself, in connect, for the library.
Unheard ==
  \/ rpc = "exited" /\ chan[current] = "failing"
  \/ rpc = "notify2" /\ conn[current] = "failing"

\* Close gets the lock and is over, returned or panicked: no dial, however it
\* ends, and no step of connect keeps the lock for ever, unless the library
\* waits in vain.
CloseEnds ==
  \A c \in Closers :
    closer[c] = "won" ~> \/ closer[c] \in {"returned", "panicked"}
                        \/ process # "up" \/ Unheard

\* README.md:30 and 346, "自动重连" (reconnects by itself): the loss of a
\* connection does not end a process that is not closing its queue.
LossIsSurvived == process = "panic" => closed
=============================================================================
