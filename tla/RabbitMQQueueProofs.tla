------------------------ MODULE RabbitMQQueueProofs ------------------------
(***************************************************************************)
(* The safety properties of RabbitMQQueue, for any number of callers of    *)
(* Close, Publish and Consume, of connections and of retries.              *)
(***************************************************************************)
EXTENDS RabbitMQQueue, TLAPS

-----------------------------------------------------------------------------
(* The inductive invariant. *)

\* connect is past its test of closed.
Connecting == {"dial", "notify1", "notify2"}

\* connect and Close exclude each other by q.mu.
LockAgrees ==
  /\ rpc \in Connecting => locked
  /\ \A c \in Closers : closer[c] = "conn" => locked /\ rpc \notin Connecting
  /\ \A c, d \in Closers : closer[c] = "conn" /\ closer[d] = "conn" => c = d

\* What the reconnector has behind it where it stands: it dials with an attempt
\* left, and only after its channel was lost.
ReconnectorAgrees ==
  /\ rpc \in {"wait", "dial"} => retries < Retries
  /\ rpc \in {"loop", "wait", "dial"} => chan[current] = "closed"

\* The queue uses one channel at a time: whatever is open is the current one.
OneChannel ==
  \A i \in Conns :
    /\ conn[i] = "unused" <=> chan[i] = "unused"
    /\ chan[i] = "open" => i = current

\* A Close that is past the channel has closed it and keeps the reconnector
\* from opening another.
CloseAgrees ==
  /\ \A c \in Closers : closer[c] # "new" => closed
  /\ ClosedForGood

\* A handler has returned nil before the queue acknowledges.
HandledFirst ==
  /\ \A c \in Consumers : con[c].pc = "ok" => con[c].msg \in handled
  /\ AckedWasHandled

\* A call that goes on to use a channel, and a consumer, have read one; a
\* handler has been given a message.
HaveRead ==
  /\ \A p \in Publishers : pub[p].pc \in {"send", "sent"} => pub[p].on \in Conns
  /\ \A c \in Consumers :
       con[c].pc = "subscribe" \/ Subscribed(c) => con[c].on \in Conns
  /\ \A c \in Consumers :
       con[c].pc \in {"handling", "ok", "failed"} => con[c].msg \in Messages
  /\ \A c \in Consumers : con[c].buf # {} => Subscribed(c)

QInv ==
  /\ TypeOK
  /\ LockAgrees
  /\ ReconnectorAgrees
  /\ OneChannel
  /\ CloseAgrees
  /\ HandledFirst
  /\ HaveRead

-----------------------------------------------------------------------------
LEMMA InitInv == Init => QInv
<1> SUFFICES ASSUME Init PROVE QInv
  OBVIOUS
<1> USE QueueAssumption DEF Init, Conns
<1>1. TypeOK
  <2>1. 1 \in Conns /\ 0 \in 0..Retries
    BY DEF Retries
  <2>2. conn \in [Conns -> LinkStates] /\ chan \in [Conns -> LinkStates]
    BY DEF LinkStates
  <2> QED
    BY <2>1, <2>2 DEF TypeOK, NewCall, NewCon
<1>2. LockAgrees /\ ReconnectorAgrees /\ OneChannel
  BY DEF LockAgrees, Connecting, ReconnectorAgrees, OneChannel
<1>3. CloseAgrees
  BY DEF CloseAgrees, ClosedForGood, Shut
<1>4. HandledFirst /\ HaveRead
  BY DEF HandledFirst, AckedWasHandled, HaveRead, Subscribed, NewCall, NewCon
<1> QED
  BY <1>1, <1>2, <1>3, <1>4 DEF QInv

\* A channel that is lost, alone or with its connection, and a channel that is
\* closed: its deliveries become ready again.
LEMMA ReleaseTypes ==
  ASSUME TypeOK, NEW i \in Conns, ReleaseUnacked(i)
  PROVE  /\ ready' \subseteq Messages
         /\ unacked' \subseteq [msg : Messages, on : Conns, to : Consumers]
         /\ UNCHANGED <<acked, handled>>
  BY DEF TypeOK, ReleaseUnacked

\* What a loss does to the channels: none is opened, and one that is closed
\* stays so.
LEMMA FailureCloses ==
  ASSUME TypeOK, OneChannel, NEW i \in Conns, ConnFails(i) \/ ChannelFails(i)
  PROVE  /\ conn' \in [Conns -> LinkStates] /\ chan' \in [Conns -> LinkStates]
         /\ process' \in {"up", "fatal", "panic"}
         /\ \A j \in Conns :
              /\ chan'[j] = "open" => chan[j] = "open"
              /\ chan[j] = "closed" => chan'[j] = "closed"
              /\ conn'[j] = "unused" <=> conn[j] = "unused"
              /\ chan'[j] = "unused" <=> chan[j] = "unused"
              /\ j # i => conn'[j] = conn[j] /\ chan'[j] = chan[j]
<1> USE DEF TypeOK, OneChannel, LinkStates
<1>0. conn[i] = "open" /\ chan[i] # "unused"
  BY DEF ConnFails, ChannelFails, Usable
<1>1. CASE ChannelFails(i)
  <2>1. /\ chan[i] = "open" /\ UNCHANGED <<conn, process>>
        /\ \E s \in {"failing", "closed"} : chan' = [chan EXCEPT ![i] = s]
    BY <1>1 DEF ChannelFails, Usable
  <2> QED
    BY <2>1
<1>2. CASE ConnFails(i) /\ ConnLost(i)
  BY <1>0, <1>2 DEF ConnLost
<1>3. CASE ConnFails(i) /\ ConnLostAgain(i)
  BY <1>3 DEF ConnLostAgain
<1>4. CASE ConnFails(i) /\ ConnLostEarly(i)
  <2>1. UNCHANGED process
    BY <1>4 DEF ConnLostEarly
  <2>2. \E s \in {"failing", "closed"} :
          /\ chan[i] = "closed" => s = "closed"
          /\ conn' = [conn EXCEPT ![i] = s] /\ chan' = [chan EXCEPT ![i] = s]
    BY <1>4 DEF ConnLostEarly
  <2> QED
    BY <1>0, <2>1, <2>2
<1> QED
  BY <1>1, <1>2, <1>3, <1>4 DEF ConnFails

LEMMA FailureInv ==
  ASSUME QInv, NEW i \in Conns, ConnFails(i) \/ ChannelFails(i)
  PROVE  QInv'
<1>0. /\ UNCHANGED <<notify, current, closed, doneClosed, locked, loopVars,
                     closer, pub, con>>
      /\ ReleaseUnacked(i) /\ current \in Conns
  BY DEF ConnFails, ChannelFails, QInv, TypeOK
<1>1. /\ conn' \in [Conns -> LinkStates] /\ chan' \in [Conns -> LinkStates]
      /\ process' \in {"up", "fatal", "panic"}
      /\ \A j \in Conns :
           /\ chan'[j] = "open" => chan[j] = "open"
           /\ chan[j] = "closed" => chan'[j] = "closed"
           /\ conn'[j] = "unused" <=> conn[j] = "unused"
           /\ chan'[j] = "unused" <=> chan[j] = "unused"
  BY FailureCloses DEF QInv
<1>2. TypeOK'
  BY <1>0, <1>1, ReleaseTypes DEF QInv, TypeOK, loopVars
<1>3. LockAgrees' /\ ReconnectorAgrees' /\ OneChannel'
  BY <1>0, <1>1 DEF QInv, LockAgrees, ReconnectorAgrees, OneChannel, loopVars
<1>4. CloseAgrees'
  BY <1>0, <1>1 DEF QInv, CloseAgrees, ClosedForGood, Shut, loopVars
<1>5. HandledFirst' /\ HaveRead'
  BY <1>0, ReleaseTypes
  DEF QInv, HandledFirst, AckedWasHandled, HaveRead, Subscribed
<1> QED
  BY <1>2, <1>3, <1>4, <1>5 DEF QInv

\* The steps of the reconnector that open nothing: the channel may go from
\* failing to closed.
LEMMA ReconnectorInv ==
  ASSUME QInv, Reconnector, ~DialSucceeds
  PROVE  QInv'
<1>0. /\ UNCHANGED <<conn, current, closed, doneClosed, closer, pub, con, msgVars>>
      /\ current \in Conns
  BY DEF Reconnector, ReconnectorDone, ReconnectorNotified, ReconnectorLoop,
         ConnectBegin, DialFails, NotifyChannel, NotifyConn, connVars, QInv, TypeOK
<1>1. HandledFirst' /\ HaveRead'
  BY <1>0 DEF QInv, HandledFirst, AckedWasHandled, HaveRead, Subscribed, msgVars
<1>2. ASSUME /\ rpc' \in {"select", "loop", "wait", "dial", "notify1", "notify2",
                          "exited"}
             /\ retries' \in 0..Retries /\ locked' \in BOOLEAN
             /\ process' \in {"up", "fatal", "panic"}
             /\ notify' \in [Conns -> {"open", "closed"}]
             /\ chan' \in [Conns -> LinkStates]
      PROVE  TypeOK'
  BY <1>0, <1>2 DEF QInv, TypeOK, msgVars
<1>3. ASSUME /\ rpc' \in Connecting => rpc \in Connecting
             /\ UNCHANGED <<chan, notify>>
             /\ rpc' \in {"loop", "wait", "dial"} => rpc \in {"loop", "wait", "dial"}
             /\ rpc' \in {"wait", "dial"} => retries' < Retries
             /\ \/ locked' = locked
                \/ /\ rpc' \notin Connecting
                   /\ \A c \in Closers : closer[c] # "conn"
      PROVE  LockAgrees' /\ ReconnectorAgrees' /\ OneChannel' /\ CloseAgrees'
  <2>1. LockAgrees'
    BY <1>0, <1>3 DEF QInv, LockAgrees
  <2>2. ReconnectorAgrees' /\ OneChannel'
    BY <1>0, <1>3 DEF QInv, ReconnectorAgrees, OneChannel
  <2>3. CloseAgrees'
    BY <1>0, <1>3 DEF QInv, CloseAgrees, ClosedForGood, Shut, Connecting
  <2> QED
    BY <2>1, <2>2, <2>3
<1>4. CASE ReconnectorDone
  <2>1. UNCHANGED <<chan, notify, retries, process, locked>> /\ rpc' = "exited"
    BY <1>4 DEF ReconnectorDone, connVars
  <2>2. TypeOK'
    BY <1>2, <2>1 DEF QInv, TypeOK
  <2>3. LockAgrees' /\ ReconnectorAgrees' /\ OneChannel' /\ CloseAgrees'
    BY <1>3, <2>1 DEF Connecting
  <2> QED
    BY <1>1, <2>2, <2>3 DEF QInv
<1>5. CASE ReconnectorNotified /\ chan[current] = "failing" /\ rpc' = "loop"
  <2>1. /\ rpc = "select" /\ retries' = 0 /\ locked' = locked
        /\ chan' = [chan EXCEPT ![current] = "closed"]
        /\ notify' = [notify EXCEPT ![current] = "closed"] /\ process' = process
    BY <1>5 DEF ReconnectorNotified, loopVars
  <2>2. TypeOK'
    BY <1>2, <1>5, <2>1, QueueAssumption DEF QInv, TypeOK, Retries, LinkStates
  <2>3. chan'[current] = "closed" /\ \A j \in Conns \ {current} : chan'[j] = chan[j]
    BY <1>0, <2>1 DEF QInv, TypeOK
  <2>4. LockAgrees' /\ ReconnectorAgrees'
    BY <1>0, <1>5, <2>1, <2>3 DEF QInv, LockAgrees, ReconnectorAgrees, Connecting
  <2>5. OneChannel'
    BY <1>0, <1>5, <2>3 DEF QInv, OneChannel
  <2>6. CloseAgrees'
    BY <1>0, <1>5, <2>3 DEF QInv, CloseAgrees, ClosedForGood, Shut
  <2> QED
    BY <1>1, <2>2, <2>4, <2>5, <2>6 DEF QInv
<1>6. CASE ReconnectorNotified /\ UNCHANGED <<chan, notify, loopVars>>
  <2>1. process' \in {"up", "fatal", "panic"} /\ locked' = locked
    BY <1>6 DEF ReconnectorNotified, QInv, TypeOK
  <2>2. UNCHANGED <<rpc, retries>>
    BY <1>6 DEF loopVars
  <2>3. TypeOK'
    BY <1>2, <1>6, <2>1, <2>2 DEF QInv, TypeOK
  <2>4. LockAgrees' /\ ReconnectorAgrees' /\ OneChannel' /\ CloseAgrees'
    BY <1>3, <1>6, <2>1, <2>2 DEF QInv, ReconnectorAgrees
  <2> QED
    BY <1>1, <2>3, <2>4 DEF QInv
<1>7. CASE ReconnectorLoop
  <2>1. /\ UNCHANGED <<chan, notify, retries, locked>> /\ rpc = "loop"
        /\ \/ process' = "fatal" /\ rpc' = "exited"
           \/ ~(retries >= Retries) /\ rpc' = "wait" /\ UNCHANGED process
    BY <1>7 DEF ReconnectorLoop, connVars
  <2>2. rpc' = "wait" => retries' < Retries
    BY <2>1, QueueAssumption DEF QInv, TypeOK, Retries
  <2>3. TypeOK'
    BY <1>2, <2>1 DEF QInv, TypeOK
  <2>4. LockAgrees' /\ ReconnectorAgrees' /\ OneChannel' /\ CloseAgrees'
    BY <1>3, <2>1, <2>2 DEF Connecting
  <2> QED
    BY <1>1, <2>3, <2>4 DEF QInv
<1>8. CASE rpc \in {"wait", "dial"} /\ ConnectFails
           /\ UNCHANGED <<connVars, process>> /\ (rpc = "wait" => ~locked)
  <2>1. /\ UNCHANGED <<chan, notify, process>> /\ rpc' = "loop" /\ locked' = FALSE
        /\ retries' = retries + 1 /\ retries < Retries
    BY <1>8 DEF ConnectFails, QInv, ReconnectorAgrees, connVars
  <2>2. retries' \in 0..Retries
    BY <2>1, QueueAssumption DEF QInv, TypeOK, Retries
  <2>3. \A c \in Closers : closer[c] # "conn"
    BY <1>8 DEF QInv, LockAgrees, Connecting
  <2>4. TypeOK'
    BY <1>2, <2>1, <2>2 DEF QInv, TypeOK
  <2>5. LockAgrees' /\ ReconnectorAgrees' /\ OneChannel' /\ CloseAgrees'
    BY <1>3, <1>8, <2>1, <2>3 DEF Connecting
  <2> QED
    BY <1>1, <2>4, <2>5 DEF QInv
<1>9. CASE ConnectBegin /\ ~closed
  <2>1. /\ UNCHANGED <<chan, notify, retries, process>> /\ rpc = "wait"
        /\ rpc' = "dial" /\ locked' = TRUE
    BY <1>9 DEF ConnectBegin, connVars
  <2>2. TypeOK'
    BY <1>2, <2>1 DEF QInv, TypeOK
  <2>3. \A c \in Closers : closer[c] = "new"
    BY <1>9 DEF QInv, CloseAgrees
  <2>4. LockAgrees' /\ ReconnectorAgrees' /\ OneChannel'
    BY <1>0, <2>1, <2>3 DEF QInv, LockAgrees, ReconnectorAgrees, OneChannel
  <2>5. CloseAgrees'
    BY <1>0, <2>3 DEF CloseAgrees, ClosedForGood, Shut
  <2> QED
    BY <1>1, <2>2, <2>4, <2>5 DEF QInv
<1>10. CASE NotifyChannel
  <2>1. /\ rpc = "notify1" /\ rpc' = "notify2"
        /\ UNCHANGED <<chan, retries, process, locked>>
        /\ notify' \in [Conns -> {"open", "closed"}]
    BY <1>10 DEF NotifyChannel, QInv, TypeOK
  <2>2. TypeOK'
    BY <1>2, <2>1 DEF QInv, TypeOK
  <2>3. LockAgrees' /\ ReconnectorAgrees' /\ OneChannel'
    BY <1>0, <2>1
    DEF QInv, LockAgrees, ReconnectorAgrees, OneChannel, Connecting
  <2>4. CloseAgrees'
    BY <1>0, <2>1 DEF QInv, CloseAgrees, ClosedForGood, Shut
  <2> QED
    BY <1>1, <2>2, <2>3, <2>4 DEF QInv
<1>11. CASE NotifyConn
  <2>1. /\ rpc = "notify2" /\ UNCHANGED <<chan, notify, retries>>
        /\ \/ process' = "panic" /\ UNCHANGED <<rpc, locked>>
           \/ rpc' = "select" /\ locked' = FALSE /\ UNCHANGED process
    BY <1>11 DEF NotifyConn, connVars
  <2>2. \A c \in Closers : closer[c] # "conn"
    BY <2>1 DEF QInv, LockAgrees, Connecting
  <2>3. TypeOK'
    BY <1>2, <2>1 DEF QInv, TypeOK
  <2>4. LockAgrees' /\ ReconnectorAgrees' /\ OneChannel' /\ CloseAgrees'
    BY <1>3, <2>1, <2>2 DEF Connecting
  <2> QED
    BY <1>1, <2>3, <2>4 DEF QInv
<1> QED
  BY <1>4, <1>5, <1>6, <1>7, <1>8, <1>9, <1>10, <1>11
  DEF Reconnector, ReconnectorNotified, ConnectBegin, DialFails

\* The new channel takes the place of one that was closed.
LEMMA ReplaceInv ==
  ASSUME QInv, DialSucceeds
  PROVE  QInv'
<1>1. PICK i \in Conns :
        /\ conn[i] = "unused" /\ conn' = [conn EXCEPT ![i] = "open"]
        /\ chan' = [chan EXCEPT ![i] = "open"] /\ current' = i
  BY DEF DialSucceeds
<1>2. /\ rpc = "dial" /\ rpc' = "notify1"
      /\ UNCHANGED <<notify, retries, process, locked, closed, doneClosed, closer,
                     pub, con, msgVars>>
  BY DEF DialSucceeds
<1>3. ~Shut /\ ~Shut'
  BY <1>2 DEF QInv, CloseAgrees, ClosedForGood, Shut
<1>4. TypeOK'
  BY <1>1, <1>2 DEF QInv, TypeOK, LinkStates, msgVars
<1>5. OneChannel'
  <2>1. \A j \in Conns : chan[j] # "open"
    BY <1>2 DEF QInv, OneChannel, ReconnectorAgrees
  <2> QED
    BY <1>1, <2>1 DEF QInv, OneChannel, TypeOK
<1>6. LockAgrees' /\ ReconnectorAgrees'
  BY <1>2 DEF QInv, LockAgrees, ReconnectorAgrees, Connecting
<1>7. CloseAgrees'
  BY <1>2, <1>3 DEF QInv, CloseAgrees, ClosedForGood
<1>8. HandledFirst' /\ HaveRead'
  BY <1>2 DEF QInv, HandledFirst, AckedWasHandled, HaveRead, Subscribed, msgVars
<1> QED
  BY <1>4, <1>5, <1>6, <1>7, <1>8 DEF QInv

LEMMA CloseInv ==
  ASSUME QInv, NEW c \in Closers, Close(c)
  PROVE  QInv'
<1>1. CASE CloseMark(c) \/ CloseDone(c)
  <2>0. /\ UNCHANGED <<connVars, locked, loopVars, process, pub, con, msgVars>>
        /\ closer[c] \in {"new", "won"}
        /\ \E p \in {"won", "lock"} : closer' = [closer EXCEPT ![c] = p]
        /\ closed' = TRUE /\ doneClosed' \in BOOLEAN
    BY <1>1 DEF CloseMark, CloseDone, QInv, CloseAgrees, TypeOK
  <2>1. TypeOK'
    BY <2>0 DEF QInv, TypeOK, connVars, loopVars, msgVars
  <2>2. OneChannel' /\ ReconnectorAgrees'
    BY <2>0 DEF QInv, OneChannel, ReconnectorAgrees, connVars, loopVars
  <2>3. HandledFirst' /\ HaveRead'
    BY <2>0 DEF QInv, HandledFirst, AckedWasHandled, HaveRead, Subscribed, msgVars
  <2>4. /\ closer'[c] \in {"won", "lock"}
        /\ \A d \in Closers \ {c} : closer'[d] = closer[d]
    BY <2>0 DEF QInv, TypeOK
  <2>5. LockAgrees'
    BY <2>0, <2>4 DEF QInv, LockAgrees, loopVars
  <2>6. CloseAgrees'
    BY <2>0, <2>4 DEF QInv, CloseAgrees, ClosedForGood, Shut, connVars, loopVars
  <2> QED
    BY <2>1, <2>2, <2>3, <2>5, <2>6 DEF QInv
<1>2. CASE CloseChannel(c)
  <2>0. /\ ~locked /\ closer[c] = "lock" /\ locked' = TRUE
        /\ closer' = [closer EXCEPT ![c] = "conn"]
        /\ UNCHANGED <<conn, current, closed, doneClosed, loopVars, pub, con>>
        /\ current \in Conns
    BY <1>2 DEF CloseChannel, QInv, TypeOK
  <2>1. /\ closer'[c] = "conn"
        /\ \A d \in Closers \ {c} : closer'[d] = closer[d]
    BY <2>0 DEF QInv, TypeOK
  <2>2. /\ notify' \in [Conns -> {"open", "closed"}]
        /\ chan' = IF chan[current] = "open"
                   THEN [chan EXCEPT ![current] = "closed"] ELSE chan
        /\ process' \in {"up", "fatal", "panic"}
        /\ ReleaseUnacked(current) \/ UNCHANGED msgVars
    BY <1>2 DEF CloseChannel, QInv, TypeOK
  <2>3. /\ chan' \in [Conns -> LinkStates]
        /\ \A j \in Conns : /\ chan'[j] # "open"
                            /\ chan[j] = "closed" => chan'[j] = "closed"
                            /\ chan'[j] = "unused" <=> chan[j] = "unused"
    BY <2>0, <2>2 DEF QInv, TypeOK, OneChannel, LinkStates
  <2>4. /\ ready' \subseteq Messages
        /\ unacked' \subseteq [msg : Messages, on : Conns, to : Consumers]
        /\ UNCHANGED <<acked, handled>>
    BY <2>0, <2>2, ReleaseTypes DEF QInv, TypeOK, msgVars
  <2>5. TypeOK'
    BY <2>0, <2>2, <2>3, <2>4 DEF QInv, TypeOK, loopVars
  <2>6. rpc \notin Connecting /\ \A d \in Closers : closer[d] # "conn"
    BY <2>0 DEF QInv, LockAgrees
  <2>7. LockAgrees'
    BY <2>0, <2>1, <2>6 DEF LockAgrees, loopVars
  <2>8. ReconnectorAgrees' /\ OneChannel'
    BY <2>0, <2>3 DEF QInv, ReconnectorAgrees, OneChannel, loopVars
  <2>9. CloseAgrees'
    BY <2>0, <2>1, <2>3, <2>6
    DEF QInv, CloseAgrees, ClosedForGood, Connecting, loopVars
  <2>10. HandledFirst' /\ HaveRead'
    BY <2>0, <2>4 DEF QInv, HandledFirst, AckedWasHandled, HaveRead, Subscribed
  <2> QED
    BY <2>5, <2>7, <2>8, <2>9, <2>10 DEF QInv
<1>3. CASE CloseConn(c)
  <2>0. /\ closer[c] = "conn" /\ locked' = FALSE
        /\ UNCHANGED <<chan, current, closed, doneClosed, loopVars, pub, con,
                       msgVars>>
    BY <1>3 DEF CloseConn
  <2>1. /\ \E s \in {"panicked", "returned"} : closer' = [closer EXCEPT ![c] = s]
        /\ \/ UNCHANGED conn
           \/ conn[current] = "open" /\ conn' = [conn EXCEPT ![current] = "closed"]
        /\ notify' \in [Conns -> {"open", "closed"}]
        /\ process' \in {process, "panic"}
    BY <1>3 DEF CloseConn, QInv, TypeOK
  <2>2. /\ closer'[c] \in {"panicked", "returned"}
        /\ \A d \in Closers \ {c} : closer'[d] = closer[d]
    BY <2>1 DEF QInv, TypeOK
  <2>3. TypeOK'
    <3>1. conn' \in [Conns -> LinkStates]
      BY <2>1 DEF QInv, TypeOK, LinkStates
    <3>2. closer' \in [Closers -> {"new", "won", "lock", "conn", "panicked",
                                  "returned"}]
      BY <2>1 DEF QInv, TypeOK
    <3> QED
      BY <2>0, <2>1, <3>1, <3>2 DEF QInv, TypeOK, loopVars, msgVars
  <2>4. rpc \notin Connecting /\ \A d \in Closers \ {c} : closer[d] # "conn"
    BY <2>0 DEF QInv, LockAgrees
  <2>5. LockAgrees'
    BY <2>0, <2>2, <2>4 DEF LockAgrees, loopVars
  <2>6. ReconnectorAgrees'
    BY <2>0 DEF QInv, ReconnectorAgrees, loopVars
  <2>7. OneChannel'
    BY <2>0, <2>1 DEF QInv, TypeOK, OneChannel
  <2>8. CloseAgrees'
    <3>1. Shut
      BY <2>0 DEF Shut
    <3> QED
      BY <2>0, <2>2, <3>1 DEF QInv, CloseAgrees, ClosedForGood, loopVars
  <2>9. HandledFirst' /\ HaveRead'
    BY <2>0 DEF QInv, HandledFirst, AckedWasHandled, HaveRead, Subscribed, msgVars
  <2> QED
    BY <2>3, <2>5, <2>6, <2>7, <2>8, <2>9 DEF QInv
<1> QED
  BY <1>1, <1>2, <1>3 DEF Close

\* What the calls and the consumers do touches neither the connection nor
\* Close.
LEMMA ConnFrame ==
  ASSUME LockAgrees, ReconnectorAgrees, OneChannel, CloseAgrees,
         UNCHANGED <<connVars, closed, locked, loopVars, closer>>
  PROVE  LockAgrees' /\ ReconnectorAgrees' /\ OneChannel' /\ CloseAgrees'
<1> USE DEF connVars, loopVars
<1>1. LockAgrees' /\ ReconnectorAgrees'
  BY DEF LockAgrees, ReconnectorAgrees
<1>2. OneChannel' /\ CloseAgrees'
  BY DEF OneChannel, CloseAgrees, ClosedForGood, Shut
<1> QED
  BY <1>1, <1>2

\* The record of a publisher.
PubRecord ==
  [pc : {"new", "refused", "begun", "send", "sent", "arrived", "error"},
   on : Conns \cup {None}]

\* What a call of Publish, or the broker for its message, may do to its record.
LEMMA PublisherMoves ==
  ASSUME QInv, NEW p \in Publishers, Publish(p) \/ Arrive(p)
  PROVE  /\ pub' \in [Publishers -> PubRecord]
         /\ pub'[p].pc = "arrived" <=> Arrive(p)
         /\ pub[p].pc # "arrived"
         /\ \A q \in Publishers \ {p} : pub'[q] = pub[q]
         /\ \A q \in Publishers :
              pub'[q].pc \in {"send", "sent"} => pub'[q].on \in Conns
<1>0. /\ pub \in [Publishers -> PubRecord] /\ current \in Conns
      /\ \A q \in Publishers : pub[q].pc \in {"send", "sent"} => pub[q].on \in Conns
  BY DEF QInv, TypeOK, PubRecord, HaveRead
<1>1. CASE PublishBegin(p) \/ PublishSend(p) \/ Arrive(p)
  <2>1. \E s \in {"refused", "begun", "sent", "error", "arrived"} :
          /\ pub' = [pub EXCEPT ![p].pc = s]
          /\ s = "sent" => pub[p].on \in Conns
          /\ s = "arrived" <=> Arrive(p)
          /\ pub[p].pc \in {"new", "send", "sent"}
    <3>1. CASE PublishBegin(p)
      BY <3>1 DEF PublishBegin, Arrive
    <3>2. CASE PublishSend(p)
      BY <1>0, <3>2 DEF PublishSend, Arrive
    <3>3. CASE Arrive(p)
      BY <3>3 DEF Arrive
    <3> QED
      BY <1>1, <3>1, <3>2, <3>3
  <2>2. PICK s \in {"refused", "begun", "sent", "error", "arrived"} :
          /\ pub' = [pub EXCEPT ![p].pc = s]
          /\ s = "sent" => pub[p].on \in Conns
          /\ s = "arrived" <=> Arrive(p)
          /\ pub[p].pc \in {"new", "send", "sent"}
    BY <2>1
  <2>3. pub' \in [Publishers -> PubRecord]
    BY <1>0, <2>2 DEF PubRecord
  <2>4. /\ pub'[p].pc = s /\ pub'[p].on = pub[p].on
        /\ \A q \in Publishers \ {p} : pub'[q] = pub[q]
    BY <1>0, <2>2 DEF PubRecord
  <2> QED
    BY <1>0, <2>2, <2>3, <2>4
<1>2. CASE PublishSnapshot(p)
  <2>1. /\ pub' = [pub EXCEPT ![p] = [pc |-> "send", on |-> current]]
        /\ pub[p].pc = "begun"
    BY <1>2 DEF PublishSnapshot
  <2>2. pub' \in [Publishers -> PubRecord] /\ pub'[p] = [pc |-> "send", on |-> current]
    BY <1>0, <2>1 DEF PubRecord
  <2>3. ~Arrive(p) /\ \A q \in Publishers \ {p} : pub'[q] = pub[q]
    BY <1>0, <2>1 DEF Arrive
  <2> QED
    BY <1>0, <2>1, <2>2, <2>3
<1> QED
  BY <1>1, <1>2 DEF Publish

\* A call of Publish, and the arrival of its message.
LEMMA PublishInv ==
  ASSUME QInv, NEW p \in Publishers, Publish(p) \/ Arrive(p)
  PROVE  QInv'
<1>1. /\ UNCHANGED <<connVars, closed, doneClosed, locked, loopVars, process,
                     closer, con, unacked, acked, handled>>
      /\ ready' = ready \/ ready' = ready \cup {p}
  BY DEF Publish, PublishBegin, PublishSnapshot, PublishSend, Arrive, msgVars
<1>2. /\ pub' \in [Publishers -> PubRecord]
      /\ \A q \in Publishers : pub'[q].pc \in {"send", "sent"} => pub'[q].on \in Conns
  BY PublisherMoves
<1>3. TypeOK'
  BY <1>1, <1>2 DEF QInv, TypeOK, connVars, loopVars, Messages, PubRecord
<1>4. LockAgrees' /\ ReconnectorAgrees' /\ OneChannel' /\ CloseAgrees'
  BY <1>1, ConnFrame DEF QInv
<1>5. HandledFirst' /\ HaveRead'
  BY <1>1, <1>2 DEF QInv, HandledFirst, AckedWasHandled, HaveRead, Subscribed
<1> QED
  BY <1>3, <1>4, <1>5 DEF QInv

\* The record of a consumer.
ConRecord ==
  [pc : {"new", "refused", "begun", "subscribe", "error", "waiting", "handling",
         "ok", "failed", "exited"},
   on : Conns \cup {None}, msg : Messages \cup {None}, buf : SUBSET Messages]

\* What a consumer, or the broker for it, may do to its record.
LEMMA ConsumerMoves ==
  ASSUME QInv, NEW c \in Consumers
  PROVE  /\ con \in [Consumers -> ConRecord]
         /\ Consume(c) \/ ConsumerExit(c) =>
              /\ \/ con[c].pc \in {"new", "begun", "subscribe"} /\ con[c].buf = {}
                 \/ con[c].pc = "waiting" /\ con'[c].on = con[c].on
              /\ con' \in [Consumers -> ConRecord]
              /\ con'[c].pc \notin {"handling", "ok", "failed"}
              /\ con'[c].buf = con[c].buf
              /\ con'[c].pc = "subscribe" \/ Subscribed(c)' => con'[c].on \in Conns
              /\ con'[c].buf # {} => Subscribed(c)'
              /\ con[c].pc = "waiting" => con'[c].pc = "exited"
              /\ \A d \in Consumers \ {c} : con'[d] = con[d]
         /\ \A m \in Messages : Deliver(c, m) =>
              /\ con' \in [Consumers -> ConRecord]
              /\ con'[c].pc = con[c].pc /\ con'[c].on = con[c].on
              /\ con'[c].msg = con[c].msg /\ con'[c].buf = con[c].buf \cup {m}
              /\ \A d \in Consumers \ {c} : con'[d] = con[d]
         /\ \A m \in Messages : Receive(c, m) =>
              /\ con' \in [Consumers -> ConRecord]
              /\ con'[c].pc = "handling" /\ con'[c].on = con[c].on
              /\ con'[c].msg = m /\ con'[c].buf = con[c].buf \ {m}
              /\ \A d \in Consumers \ {c} : con'[d] = con[d]
         /\ Handle(c) =>
              /\ con' \in [Consumers -> ConRecord]
              /\ con'[c].pc \in {"ok", "failed"} /\ con'[c].on = con[c].on
              /\ con'[c].msg = con[c].msg /\ con'[c].buf = con[c].buf
              /\ \A d \in Consumers \ {c} : con'[d] = con[d]
         /\ Settle(c) =>
              /\ con' \in [Consumers -> ConRecord]
              /\ con'[c].pc = "waiting" /\ con'[c].on = con[c].on
              /\ con'[c].buf = con[c].buf
              /\ \A d \in Consumers \ {c} : con'[d] = con[d]
<1>1. con \in [Consumers -> ConRecord] /\ current \in Conns
  BY DEF QInv, TypeOK, ConRecord
<1>2. ASSUME Consume(c) \/ ConsumerExit(c)
      PROVE  /\ \/ con[c].pc \in {"new", "begun", "subscribe"} /\ con[c].buf = {}
                \/ con[c].pc = "waiting" /\ con'[c].on = con[c].on
             /\ con' \in [Consumers -> ConRecord]
             /\ con'[c].pc \notin {"handling", "ok", "failed"}
             /\ con'[c].buf = con[c].buf
             /\ con'[c].pc = "subscribe" \/ Subscribed(c)' => con'[c].on \in Conns
             /\ con'[c].buf # {} => Subscribed(c)'
             /\ con[c].pc = "waiting" => con'[c].pc = "exited"
             /\ \A d \in Consumers \ {c} : con'[d] = con[d]
  <2>0. con[c].pc \in {"new", "begun", "subscribe"} => con[c].buf = {}
    BY DEF QInv, HaveRead, Subscribed
  <2>1. CASE ConsumeBegin(c)
    <3>1. /\ con[c].pc = "new"
          /\ \E s \in {"refused", "begun"} : con' = [con EXCEPT ![c].pc = s]
      BY <2>1 DEF ConsumeBegin
    <3>2. /\ con' \in [Consumers -> ConRecord] /\ con'[c].pc \in {"refused", "begun"}
          /\ con'[c].buf = con[c].buf /\ \A d \in Consumers \ {c} : con'[d] = con[d]
      BY <1>1, <3>1 DEF ConRecord
    <3> QED
      BY <2>0, <3>1, <3>2 DEF Subscribed
  <2>2. CASE ConsumeSnapshot(c)
    <3>1. /\ con[c].pc = "begun"
          /\ con' = [con EXCEPT ![c].pc = "subscribe", ![c].on = current]
      BY <2>2 DEF ConsumeSnapshot
    <3> DEFINE r == [con[c] EXCEPT !.pc = "subscribe", !.on = current]
    <3>2. con' = [con EXCEPT ![c] = r]
      BY <1>1, <3>1 DEF ConRecord
    <3>3. r \in ConRecord
      BY <1>1 DEF ConRecord
    <3>4. r.pc = "subscribe" /\ r.on \in Conns /\ r.buf = con[c].buf
      BY <1>1 DEF ConRecord
    <3> HIDE DEF r
    <3>5. /\ con' \in [Consumers -> ConRecord] /\ con'[c] = r
          /\ \A d \in Consumers \ {c} : con'[d] = con[d]
      BY <1>1, <3>2, <3>3
    <3> QED
      BY <2>0, <3>1, <3>4, <3>5 DEF Subscribed
  <2>3. CASE ConsumeSubscribe(c)
    <3>1. /\ con[c].pc = "subscribe" /\ con[c].on \in Conns
          /\ \E s \in {"waiting", "error"} : con' = [con EXCEPT ![c].pc = s]
      BY <2>3 DEF ConsumeSubscribe, QInv, HaveRead
    <3>2. /\ con' \in [Consumers -> ConRecord] /\ con'[c].pc \in {"waiting", "error"}
          /\ con'[c].buf = con[c].buf /\ con'[c].on = con[c].on
          /\ \A d \in Consumers \ {c} : con'[d] = con[d]
      BY <1>1, <3>1 DEF ConRecord
    <3> QED
      BY <2>0, <3>1, <3>2 DEF Subscribed
  <2>4. CASE ConsumerExit(c)
    <3>1. /\ con[c].pc = "waiting" /\ con[c].on \in Conns
          /\ con' = [con EXCEPT ![c].pc = "exited"]
      BY <2>4 DEF ConsumerExit, QInv, HaveRead, Subscribed
    <3>2. /\ con' \in [Consumers -> ConRecord] /\ con'[c].pc = "exited"
          /\ con'[c].buf = con[c].buf /\ con'[c].on = con[c].on
          /\ \A d \in Consumers \ {c} : con'[d] = con[d]
      BY <1>1, <3>1 DEF ConRecord
    <3> QED
      BY <3>1, <3>2 DEF Subscribed
  <2> QED
    BY <1>2, <2>1, <2>2, <2>3, <2>4 DEF Consume
<1>3. ASSUME NEW m \in Messages, Deliver(c, m)
      PROVE  /\ con' \in [Consumers -> ConRecord]
             /\ con'[c].pc = con[c].pc /\ con'[c].on = con[c].on
             /\ con'[c].msg = con[c].msg /\ con'[c].buf = con[c].buf \cup {m}
             /\ \A d \in Consumers \ {c} : con'[d] = con[d]
  <2>1. con' = [con EXCEPT ![c].buf = con[c].buf \cup {m}]
    BY <1>3 DEF Deliver
  <2> QED
    BY <1>1, <2>1 DEF ConRecord
<1>4. ASSUME NEW m \in Messages, Receive(c, m)
      PROVE  /\ con' \in [Consumers -> ConRecord]
             /\ con'[c].pc = "handling" /\ con'[c].on = con[c].on
             /\ con'[c].msg = m /\ con'[c].buf = con[c].buf \ {m}
             /\ \A d \in Consumers \ {c} : con'[d] = con[d]
  <2>1. con' = [con EXCEPT ![c].pc = "handling", ![c].msg = m,
                           ![c].buf = con[c].buf \ {m}]
    BY <1>4 DEF Receive
  <2> DEFINE r == [con[c] EXCEPT !.pc = "handling", !.msg = m,
                                 !.buf = con[c].buf \ {m}]
  <2>2. con' = [con EXCEPT ![c] = r]
    BY <1>1, <2>1 DEF ConRecord
  <2>3. r \in ConRecord
    BY <1>1 DEF ConRecord
  <2>4. /\ r.pc = "handling" /\ r.on = con[c].on
        /\ r.msg = m /\ r.buf = con[c].buf \ {m}
    BY <1>1 DEF ConRecord
  <2> HIDE DEF r
  <2>5. /\ con' \in [Consumers -> ConRecord] /\ con'[c] = r
        /\ \A d \in Consumers \ {c} : con'[d] = con[d]
    BY <1>1, <2>2, <2>3
  <2> QED
    BY <2>4, <2>5
<1>5. ASSUME Handle(c)
      PROVE  /\ con' \in [Consumers -> ConRecord]
             /\ con'[c].pc \in {"ok", "failed"} /\ con'[c].on = con[c].on
             /\ con'[c].msg = con[c].msg /\ con'[c].buf = con[c].buf
             /\ \A d \in Consumers \ {c} : con'[d] = con[d]
  <2>1. \E s \in {"ok", "failed"} : con' = [con EXCEPT ![c].pc = s]
    BY <1>5 DEF Handle
  <2> QED
    BY <1>1, <2>1 DEF ConRecord
<1>6. ASSUME Settle(c)
      PROVE  /\ con' \in [Consumers -> ConRecord]
             /\ con'[c].pc = "waiting" /\ con'[c].on = con[c].on
             /\ con'[c].buf = con[c].buf
             /\ \A d \in Consumers \ {c} : con'[d] = con[d]
  <2>1. con' = [con EXCEPT ![c].pc = "waiting", ![c].msg = None]
    BY <1>6 DEF Settle
  <2> QED
    BY <1>1, <2>1 DEF ConRecord
<1> QED
  BY <1>1, <1>2, <1>3, <1>4, <1>5, <1>6

LEMMA ConsumeInv ==
  ASSUME QInv, NEW c \in Consumers,
         Consume(c) \/ Consumer(c) \/ \E m \in Messages : Deliver(c, m)
  PROVE  QInv'
<1>1. UNCHANGED <<connVars, closed, doneClosed, locked, loopVars, process, closer,
                  pub>>
  BY DEF Consume, ConsumeBegin, ConsumeSnapshot, ConsumeSubscribe, Consumer,
         ConsumerExit, Receive, Deliver, Handle, Settle
<1>2. LockAgrees' /\ ReconnectorAgrees' /\ OneChannel' /\ CloseAgrees'
  BY <1>1, ConnFrame DEF QInv
<1>3. con \in [Consumers -> ConRecord]
  BY ConsumerMoves
<1>4. ASSUME con' \in [Consumers -> ConRecord], ready' \subseteq Messages,
             unacked' \subseteq [msg : Messages, on : Conns, to : Consumers],
             acked' \subseteq Messages, handled' \subseteq Messages
      PROVE  TypeOK'
  BY <1>1, <1>4 DEF QInv, TypeOK, ConRecord, connVars, loopVars
<1>5. ASSUME /\ con'[c].pc = "subscribe" \/ Subscribed(c)' => con'[c].on \in Conns
             /\ con'[c].pc \in {"handling", "ok", "failed"}
                  => con'[c].msg \in Messages
             /\ con'[c].buf # {} => Subscribed(c)'
             /\ \A d \in Consumers \ {c} : con'[d] = con[d]
      PROVE  HaveRead'
  <2>1. \A d \in Consumers \ {c} : Subscribed(d)' <=> Subscribed(d)
    BY <1>5 DEF Subscribed
  <2> QED
    BY <1>1, <1>5, <2>1 DEF QInv, HaveRead
<1>6. CASE Consume(c) \/ ConsumerExit(c)
  <2>1. UNCHANGED msgVars
    BY <1>6 DEF Consume, ConsumeBegin, ConsumeSnapshot, ConsumeSubscribe,
                ConsumerExit
  <2>2. /\ con' \in [Consumers -> ConRecord]
        /\ con'[c].pc \notin {"handling", "ok", "failed"}
        /\ con'[c].pc = "subscribe" \/ Subscribed(c)' => con'[c].on \in Conns
        /\ con'[c].buf # {} => Subscribed(c)'
        /\ \A d \in Consumers \ {c} : con'[d] = con[d]
    BY <1>6, ConsumerMoves
  <2>3. TypeOK'
    BY <1>4, <2>1, <2>2 DEF QInv, TypeOK, msgVars
  <2>4. HaveRead'
    BY <1>5, <2>2
  <2>5. HandledFirst'
    BY <2>1, <2>2 DEF QInv, HandledFirst, AckedWasHandled, msgVars
  <2> QED
    BY <1>2, <2>3, <2>4, <2>5 DEF QInv
<1>7. ASSUME NEW m \in Messages, Deliver(c, m) PROVE QInv'
  <2>1. /\ ready' = ready \ {m} /\ UNCHANGED <<acked, handled>>
        /\ Subscribed(c) /\ con[c].on \in Conns
        /\ unacked' = unacked \cup {[msg |-> m, on |-> con[c].on, to |-> c]}
    BY <1>7 DEF Deliver, QInv, HaveRead
  <2>2. /\ con' \in [Consumers -> ConRecord]
        /\ con'[c].pc = con[c].pc /\ con'[c].on = con[c].on
        /\ con'[c].msg = con[c].msg
        /\ \A d \in Consumers \ {c} : con'[d] = con[d]
    BY <1>7, ConsumerMoves
  <2>3. unacked' \subseteq [msg : Messages, on : Conns, to : Consumers]
    BY <2>1 DEF QInv, TypeOK
  <2>4. TypeOK'
    BY <1>4, <2>1, <2>2, <2>3 DEF QInv, TypeOK
  <2>5. Subscribed(c)'
    BY <2>1, <2>2 DEF Subscribed
  <2>6. con[c].pc \in {"handling", "ok", "failed"} => con[c].msg \in Messages
    BY DEF QInv, HaveRead
  <2>7. HaveRead'
    BY <1>5, <2>1, <2>2, <2>5, <2>6
  <2>8. HandledFirst'
    BY <2>1, <2>2 DEF QInv, HandledFirst, AckedWasHandled
  <2> QED
    BY <1>2, <2>4, <2>7, <2>8 DEF QInv
<1>8. ASSUME NEW m \in Messages, Receive(c, m) PROVE QInv'
  <2>1. /\ UNCHANGED msgVars /\ con[c].pc = "waiting" /\ con[c].on \in Conns
    BY <1>8 DEF Receive, QInv, HaveRead, Subscribed
  <2>2. /\ con' \in [Consumers -> ConRecord]
        /\ con'[c].pc = "handling" /\ con'[c].on = con[c].on
        /\ con'[c].msg = m
        /\ \A d \in Consumers \ {c} : con'[d] = con[d]
    BY <1>8, ConsumerMoves
  <2>3. TypeOK'
    BY <1>4, <2>1, <2>2 DEF QInv, TypeOK, msgVars
  <2>4. Subscribed(c)'
    BY <2>2 DEF Subscribed
  <2>5. HaveRead'
    BY <1>5, <2>1, <2>2, <2>4
  <2>6. HandledFirst'
    BY <2>1, <2>2 DEF QInv, HandledFirst, AckedWasHandled, msgVars
  <2> QED
    BY <1>2, <2>3, <2>5, <2>6 DEF QInv
<1>9. CASE Handle(c)
  <2>1. /\ \/ handled' = handled \cup {con[c].msg}
           \/ con'[c].pc = "failed" /\ UNCHANGED handled
        /\ UNCHANGED <<ready, unacked, acked>> /\ con[c].pc = "handling"
        /\ con[c].msg \in Messages /\ con[c].on \in Conns
    BY <1>3, <1>9 DEF Handle, QInv, HaveRead, Subscribed, ConRecord
  <2>2. /\ con' \in [Consumers -> ConRecord]
        /\ con'[c].pc \in {"ok", "failed"} /\ con'[c].on = con[c].on
        /\ con'[c].msg = con[c].msg
        /\ \A d \in Consumers \ {c} : con'[d] = con[d]
    BY <1>9, ConsumerMoves
  <2>3. TypeOK'
    BY <1>4, <2>1, <2>2 DEF QInv, TypeOK
  <2>4. Subscribed(c)'
    BY <2>2 DEF Subscribed
  <2>5. HaveRead'
    BY <1>5, <2>1, <2>2, <2>4
  <2>6. HandledFirst'
    BY <2>1, <2>2 DEF QInv, HandledFirst, AckedWasHandled
  <2> QED
    BY <1>2, <2>3, <2>5, <2>6 DEF QInv
<1>10. CASE Settle(c)
  <2>1. /\ con[c].pc \in {"ok", "failed"} /\ con[c].msg \in Messages
        /\ con[c].on \in Conns
        /\ unacked' \subseteq unacked /\ UNCHANGED handled
        /\ ready' \subseteq ready \cup {con[c].msg}
        /\ \/ acked' = acked
           \/ con[c].pc = "ok" /\ acked' = acked \cup {con[c].msg}
    BY <1>10 DEF Settle, QInv, HaveRead, Subscribed
  <2>2. /\ con' \in [Consumers -> ConRecord]
        /\ con'[c].pc = "waiting" /\ con'[c].on = con[c].on
        /\ \A d \in Consumers \ {c} : con'[d] = con[d]
    BY <1>10, ConsumerMoves
  <2>3. TypeOK'
    BY <1>4, <2>1, <2>2 DEF QInv, TypeOK
  <2>4. Subscribed(c)'
    BY <2>2 DEF Subscribed
  <2>5. HaveRead'
    BY <1>5, <2>1, <2>2, <2>4
  <2>6. HandledFirst'
    BY <2>1, <2>2 DEF QInv, HandledFirst, AckedWasHandled
  <2> QED
    BY <1>2, <2>3, <2>5, <2>6 DEF QInv
<1> QED
  BY <1>6, <1>7, <1>8, <1>9, <1>10 DEF Consumer

LEMMA NextInv == QInv /\ [Next]_vars => QInv'
<1> SUFFICES ASSUME QInv, [Next]_vars PROVE QInv'
  OBVIOUS
<1>1. CASE UNCHANGED vars
  <2> USE <1>1 DEF QInv, vars, connVars, loopVars, msgVars
  <2>1. TypeOK'
    BY DEF TypeOK
  <2>2. HandledFirst' /\ HaveRead'
    BY DEF HandledFirst, AckedWasHandled, HaveRead, Subscribed
  <2> QED
    BY <2>1, <2>2, ConnFrame
<1>2. CASE Reconnector
  BY <1>2, ReconnectorInv, ReplaceInv
<1>3. CASE Environment
  BY <1>3, FailureInv, PublishInv, ConsumeInv DEF Environment
<1> QED
  BY <1>1, <1>2, <1>3, CloseInv, PublishInv, ConsumeInv DEF Next

-----------------------------------------------------------------------------
\* QInv holds in every run of the queue.
THEOREM Invariance == Spec => []QInv
<1>1. Init => QInv
  BY InitInv
<1>2. QInv /\ [Next]_vars => QInv'
  BY NextInv
<1> QED
  BY <1>1, <1>2, PTL DEF Spec

\* The variables of the queue keep their types.
THEOREM TypeCorrect == Spec => []TypeOK
<1>1. QInv => TypeOK
  BY DEF QInv
<1> QED
  BY <1>1, Invariance, PTL

\* Delivery is at least once: what the broker has dropped was handled.
THEOREM AtLeastOnce == Spec => []AckedWasHandled
<1>1. QInv => AckedWasHandled
  BY DEF QInv, HandledFirst
<1> QED
  BY <1>1, Invariance, PTL

-----------------------------------------------------------------------------
(* What is delivered and not acknowledged. *)

\* A channel of which nothing has been lost keeps what was delivered on it, and
\* the queue opens none that was in use.
LEMMA HeldFrame ==
  ASSUME UnackedIsHeld, UNCHANGED <<con, unacked>>,
         \A u \in unacked : Usable(u.on) => Usable(u.on)'
  PROVE  UnackedIsHeld'
BY DEF UnackedIsHeld, Usable

LEMMA FailureHolds ==
  ASSUME QInv, UnackedIsHeld, NEW i \in Conns, ReleaseUnacked(i), UNCHANGED con,
         \A j \in Conns \ {i} : conn'[j] = conn[j] /\ chan'[j] = chan[j]
  PROVE  UnackedIsHeld'
<1>1. unacked' = {u \in unacked : u.on # i}
  BY DEF ReleaseUnacked
<1>2. \A u \in unacked : u.on \in Conns /\ u.to \in Consumers
  BY DEF QInv, TypeOK
<1> QED
  BY <1>1, <1>2 DEF UnackedIsHeld, Usable

\* A step of a consumer, or a delivery to it, keeps what it has and what the
\* others have.
LEMMA ConsumerHolds ==
  ASSUME QInv, UnackedIsHeld, NEW c \in Consumers,
         Consume(c) \/ Consumer(c) \/ \E m \in Messages : Deliver(c, m)
  PROVE  UnackedIsHeld'
<1>0. /\ \A u \in unacked : u.to \in Consumers
      /\ UNCHANGED <<conn, chan>>
  BY DEF QInv, TypeOK, Consume, ConsumeBegin, ConsumeSnapshot, ConsumeSubscribe,
         Consumer, ConsumerExit, Receive, Deliver, Handle, Settle, connVars
<1> DEFINE held(u) == \/ u.msg \in con[c].buf
                      \/ /\ con[c].pc \in {"handling", "ok", "failed"}
                         /\ con[c].msg = u.msg
                      \/ con[c].pc = "exited"
           held1(u) == \/ u.msg \in con'[c].buf
                       \/ /\ con'[c].pc \in {"handling", "ok", "failed"}
                          /\ con'[c].msg = u.msg
                       \/ con'[c].pc = "exited"
<1>1. \A u \in unacked : u.to = c => con[c].on = u.on /\ held(u)
  BY DEF UnackedIsHeld
<1>2. ASSUME \A d \in Consumers \ {c} : con'[d] = con[d],
             \A u \in unacked' : u.to # c => u \in unacked,
             \A u \in unacked' : u.to = c =>
               Usable(u.on) /\ con'[c].on = u.on /\ held1(u)
      PROVE  UnackedIsHeld'
  <2>1. ASSUME NEW u \in unacked', u.to # c
        PROVE  /\ Usable(u.on) /\ con'[u.to] = con[u.to] /\ con[u.to].on = u.on
               /\ \/ u.msg \in con[u.to].buf
                  \/ /\ con[u.to].pc \in {"handling", "ok", "failed"}
                     /\ con[u.to].msg = u.msg
                  \/ con[u.to].pc = "exited"
    BY <1>0, <1>2, <2>1 DEF UnackedIsHeld
  <2> QED
    BY <1>0, <1>2, <2>1 DEF UnackedIsHeld, Usable
<1>3. CASE Consume(c) \/ ConsumerExit(c)
  <2>1. UNCHANGED unacked
    BY <1>3 DEF Consume, ConsumeBegin, ConsumeSnapshot, ConsumeSubscribe,
                ConsumerExit, msgVars
  <2>2. /\ \/ con[c].pc \in {"new", "begun", "subscribe"} /\ con[c].buf = {}
           \/ con[c].pc = "waiting" /\ con'[c].on = con[c].on
        /\ con'[c].buf = con[c].buf
        /\ \A d \in Consumers \ {c} : con'[d] = con[d]
    BY <1>3, ConsumerMoves
  <2>3. \A u \in unacked : u.to = c => con'[c].on = u.on /\ u.msg \in con'[c].buf
    BY <1>1, <2>2
  <2>4. \A u \in unacked : Usable(u.on)
    BY DEF UnackedIsHeld
  <2> QED
    BY <1>2, <2>1, <2>2, <2>3, <2>4
<1>4. ASSUME NEW m \in Messages, Deliver(c, m) PROVE UnackedIsHeld'
  <2>1. /\ Usable(con[c].on)
        /\ unacked' = unacked \cup {[msg |-> m, on |-> con[c].on, to |-> c]}
    BY <1>4 DEF Deliver
  <2>2. /\ con'[c].pc = con[c].pc /\ con'[c].on = con[c].on
        /\ con'[c].msg = con[c].msg /\ con'[c].buf = con[c].buf \cup {m}
        /\ \A d \in Consumers \ {c} : con'[d] = con[d]
    BY <1>4, ConsumerMoves
  <2>3. \A u \in unacked' : u.to # c => u \in unacked
    BY <2>1
  <2>4. \A u \in unacked : u.to = c => Usable(u.on) /\ con'[c].on = u.on /\ held1(u)
    BY <1>1, <2>2 DEF UnackedIsHeld
  <2>5. \A u \in unacked' \ unacked :
          Usable(u.on) /\ con'[c].on = u.on /\ u.msg \in con'[c].buf
    BY <2>1, <2>2
  <2> QED
    BY <1>2, <2>2, <2>3, <2>4, <2>5
<1>5. ASSUME NEW m \in Messages, Receive(c, m) PROVE UnackedIsHeld'
  <2>1. UNCHANGED unacked /\ con[c].pc = "waiting"
    BY <1>5 DEF Receive, msgVars
  <2>2. /\ con'[c].pc = "handling" /\ con'[c].on = con[c].on
        /\ con'[c].msg = m /\ con'[c].buf = con[c].buf \ {m}
        /\ \A d \in Consumers \ {c} : con'[d] = con[d]
    BY <1>5, ConsumerMoves
  <2>3. \A u \in unacked : u.to = c => Usable(u.on) /\ con'[c].on = u.on /\ held1(u)
    BY <1>1, <2>1, <2>2 DEF UnackedIsHeld
  <2> QED
    BY <1>2, <2>1, <2>2, <2>3
<1>6. CASE Handle(c)
  <2>1. UNCHANGED unacked /\ con[c].pc = "handling"
    BY <1>6 DEF Handle
  <2>2. /\ con'[c].pc \in {"ok", "failed"} /\ con'[c].on = con[c].on
        /\ con'[c].msg = con[c].msg /\ con'[c].buf = con[c].buf
        /\ \A d \in Consumers \ {c} : con'[d] = con[d]
    BY <1>6, ConsumerMoves
  <2>3. \A u \in unacked : u.to = c => Usable(u.on) /\ con'[c].on = u.on /\ held1(u)
    BY <1>1, <2>1, <2>2 DEF UnackedIsHeld
  <2> QED
    BY <1>2, <2>1, <2>2, <2>3
<1>7. CASE Settle(c)
  <2> DEFINE mine == {u \in unacked : u.msg = con[c].msg /\ u.to = c}
  <2>1. unacked' = unacked \ mine /\ con[c].pc \in {"ok", "failed"}
    BY <1>7 DEF Settle
  <2>2. /\ con'[c].pc = "waiting" /\ con'[c].on = con[c].on
        /\ con'[c].buf = con[c].buf
        /\ \A d \in Consumers \ {c} : con'[d] = con[d]
    BY <1>7, ConsumerMoves
  <2>3. \A u \in unacked' : u \in unacked /\ (u.to = c => u.msg # con[c].msg)
    BY <2>1
  <2>4. \A u \in unacked' : u.to = c =>
          Usable(u.on) /\ con'[c].on = u.on /\ u.msg \in con'[c].buf
    BY <1>1, <2>1, <2>2, <2>3 DEF UnackedIsHeld
  <2> QED
    BY <1>2, <2>2, <2>3, <2>4
<1> QED
  BY <1>3, <1>4, <1>5, <1>6, <1>7 DEF Consumer

LEMMA NextHeld ==
  ASSUME QInv, UnackedIsHeld, [Next]_vars
  PROVE  UnackedIsHeld'
<1>1. /\ current \in Conns /\ conn \in [Conns -> LinkStates]
      /\ chan \in [Conns -> LinkStates] /\ \A u \in unacked : u.on \in Conns
  BY DEF QInv, TypeOK
<1>2. ASSUME UNCHANGED <<conn, chan, con, unacked>> PROVE UnackedIsHeld'
  BY <1>2 DEF UnackedIsHeld, Usable
<1>3. CASE UNCHANGED vars
  BY <1>2, <1>3 DEF vars, connVars, msgVars
<1>4. ASSUME NEW i \in Conns, ConnFails(i) \/ ChannelFails(i)
      PROVE  UnackedIsHeld'
  <2>1. ReleaseUnacked(i) /\ UNCHANGED con
    BY <1>4 DEF ConnFails, ChannelFails
  <2>2. \A j \in Conns \ {i} : conn'[j] = conn[j] /\ chan'[j] = chan[j]
    BY <1>4, FailureCloses DEF QInv
  <2> QED
    BY <2>1, <2>2, FailureHolds
<1>5. CASE Reconnector
  <2>1. UNCHANGED <<con, unacked>>
    BY <1>5 DEF Reconnector, ReconnectorDone, ReconnectorNotified,
      ReconnectorLoop, ConnectBegin, DialFails, DialSucceeds, NotifyChannel,
      NotifyConn, msgVars
  <2>2. CASE DialSucceeds
    <3>1. PICK i \in Conns : /\ conn[i] = "unused"
                             /\ conn' = [conn EXCEPT ![i] = "open"]
                             /\ chan' = [chan EXCEPT ![i] = "open"]
      BY <2>2 DEF DialSucceeds
    <3>2. \A j \in Conns : Usable(j) => Usable(j)'
      BY <1>1, <3>1 DEF Usable
    <3> QED
      BY <1>1, <2>1, <3>2, HeldFrame
  <2>3. CASE ReconnectorNotified
    <3>1. UNCHANGED conn /\ \A j \in Conns : chan[j] = "open" => chan'[j] = "open"
      BY <1>1, <2>3 DEF ReconnectorNotified
    <3>2. \A j \in Conns : Usable(j) => Usable(j)'
      BY <3>1 DEF Usable
    <3> QED
      BY <1>1, <2>1, <3>2, HeldFrame
  <2>4. CASE ~DialSucceeds /\ ~ReconnectorNotified
    <3>1. UNCHANGED <<conn, chan>>
      BY <1>5, <2>4 DEF Reconnector, ReconnectorDone, ReconnectorLoop,
        ConnectBegin, DialFails, NotifyChannel, NotifyConn, connVars
    <3> QED
      BY <1>2, <2>1, <3>1
  <2> QED
    BY <2>2, <2>3, <2>4
<1>6. ASSUME NEW c \in Closers, Close(c) PROVE UnackedIsHeld'
  <2>1. CASE CloseMark(c) \/ CloseDone(c)
    BY <1>2, <2>1 DEF CloseMark, CloseDone, connVars, msgVars
  <2>2. CASE CloseChannel(c) /\ chan[current] = "open"
    <3>1. /\ ReleaseUnacked(current) /\ UNCHANGED <<con, conn>>
          /\ chan' = [chan EXCEPT ![current] = "closed"]
      BY <2>2 DEF CloseChannel
    <3>2. \A j \in Conns \ {current} : conn'[j] = conn[j] /\ chan'[j] = chan[j]
      BY <1>1, <3>1
    <3> QED
      BY <1>1, <3>1, <3>2, FailureHolds
  <2>3. CASE CloseChannel(c) /\ chan[current] # "open"
    BY <1>2, <2>3 DEF CloseChannel, msgVars
  <2>4. CASE CloseConn(c)
    <3>1. closer[c] = "conn" /\ UNCHANGED unacked
      BY <2>4 DEF CloseConn, msgVars
    <3>2. \A i \in Conns : chan[i] # "open"
      BY <3>1 DEF QInv, CloseAgrees, ClosedForGood, Shut
    <3>3. unacked = {}
      BY <1>1, <3>2 DEF UnackedIsHeld, Usable
    <3> QED
      BY <3>1, <3>3 DEF UnackedIsHeld
  <2> QED
    BY <1>6, <2>1, <2>2, <2>3, <2>4 DEF Close
<1>7. ASSUME NEW p \in Publishers, Publish(p) \/ Arrive(p) PROVE UnackedIsHeld'
  BY <1>2, <1>7 DEF Publish, PublishBegin, PublishSnapshot, PublishSend, Arrive,
                    connVars, msgVars
<1> QED
  BY <1>3, <1>4, <1>5, <1>6, <1>7, ConsumerHolds DEF Next, Environment

\* What a live channel has delivered and waits for is kept for its consumer or
\* in the hands of its handler, unless the consumer has left (rabbitmq.go:273-313).
THEOREM NobodyForgets == Spec => []UnackedIsHeld
<1>1. Init => UnackedIsHeld
  BY DEF Init, UnackedIsHeld
<1>2. QInv /\ UnackedIsHeld /\ [Next]_vars => UnackedIsHeld'
  BY NextHeld
<1> QED
  BY <1>1, <1>2, Invariance, PTL DEF Spec

\* No two connections have an open channel, however often the queue has
\* reconnected (rabbitmq.go:66-117).
THEOREM OneAtATime == Spec => []OneOpenChannel
<1>1. QInv => OneOpenChannel
  BY DEF QInv, OneChannel, OneOpenChannel
<1> QED
  BY <1>1, Invariance, PTL

\* From the moment a Close has closed the channel the queue has no open channel
\* and gets none, against the reconnector and other calls of Close.
THEOREM CloseIsFinal == Spec => []ClosedForGood
<1>1. QInv => ClosedForGood
  BY DEF QInv, CloseAgrees
<1> QED
  BY <1>1, Invariance, PTL

\* From that moment no call of Publish gets a message into the broker.
THEOREM NothingPublishedLate == Spec => NoPublishAfterClose
<1>1. QInv /\ [Next]_vars =>
        [Shut => ready' \cup {u.msg : u \in unacked'} \subseteq
                 ready \cup {u.msg : u \in unacked}]_vars
  <2> DEFINE inBroker == ready \cup {u.msg : u \in unacked}
  <2> SUFFICES ASSUME QInv, Next, Shut
               PROVE  inBroker' \subseteq inBroker
    BY DEF vars
  <2>1. \A i \in Conns : chan[i] # "open"
    BY DEF QInv, CloseAgrees, ClosedForGood
  <2>2. ASSUME NEW i \in Conns, ReleaseUnacked(i)
        PROVE  inBroker' \subseteq inBroker
    BY <2>2 DEF ReleaseUnacked
  <2>3. ASSUME NEW i \in Conns, ConnFails(i) \/ ChannelFails(i)
        PROVE  inBroker' \subseteq inBroker
    BY <2>2, <2>3 DEF ConnFails, ChannelFails
  <2>4. ASSUME UNCHANGED msgVars PROVE inBroker' \subseteq inBroker
    BY <2>4 DEF msgVars
  <2>5. CASE Reconnector
    <3>1. UNCHANGED msgVars
      BY <2>5 DEF Reconnector, ReconnectorDone, ReconnectorNotified,
                  ReconnectorLoop, ConnectBegin, DialFails, DialSucceeds,
                  NotifyChannel, NotifyConn
    <3> QED
      BY <2>4, <3>1
  <2>6. ASSUME NEW c \in Closers, Close(c) PROVE inBroker' \subseteq inBroker
    <3>1. UNCHANGED msgVars
      BY <2>1, <2>6 DEF Close, CloseMark, CloseDone, CloseChannel, CloseConn,
                        QInv, TypeOK
    <3> QED
      BY <2>4, <3>1
  <2>7. ASSUME NEW p \in Publishers, Publish(p)
        PROVE  inBroker' \subseteq inBroker
    BY <2>4, <2>7 DEF Publish, PublishBegin, PublishSnapshot, PublishSend
  <2>8. ASSUME NEW p \in Publishers, Arrive(p) PROVE inBroker' \subseteq inBroker
    BY <2>1, <2>8 DEF Arrive, Usable, QInv, HaveRead
  <2>9. ASSUME NEW c \in Consumers,
               Consume(c) \/ Consumer(c) \/ \E m \in Messages : Deliver(c, m)
        PROVE  inBroker' \subseteq inBroker
    <3>1. CASE Consume(c) \/ ConsumerExit(c) \/ \E m \in Messages : Receive(c, m)
      BY <2>4, <3>1 DEF Consume, ConsumeBegin, ConsumeSnapshot,
                        ConsumeSubscribe, ConsumerExit, Receive
    <3>2. ASSUME NEW m \in Messages, Deliver(c, m)
          PROVE  inBroker' \subseteq inBroker
      BY <3>2 DEF Deliver
    <3>3. CASE Handle(c)
      BY <3>3 DEF Handle
    <3>4. CASE Settle(c)
      BY <3>4 DEF Settle
    <3> QED
      BY <2>9, <3>1, <3>2, <3>3, <3>4 DEF Consumer
  <2> QED
    BY <2>3, <2>5, <2>6, <2>7, <2>8, <2>9 DEF Next, Environment
<1> QED
  BY <1>1, Invariance, PTL DEF Spec, NoPublishAfterClose

-----------------------------------------------------------------------------
(* The queue implements MessageDelivery. *)

\* A message is in one place at the broker, with one consumer at most.
OnePlace ==
  /\ ready \cap acked = {}
  /\ \A u \in unacked : u.msg \notin ready \cup acked
  /\ \A u, v \in unacked : u.msg = v.msg => u = v

\* What has arrived is at the broker, and nothing else is; a handler works on
\* what has arrived, and so does a consumer that has yet to receive it.
OnlyArrived ==
  /\ \A m \in Messages :
       pub[m].pc = "arrived" <=> m \in ready \cup acked \cup {u.msg : u \in unacked}
  /\ \A c \in Consumers :
       con[c].pc \in {"handling", "ok", "failed"} => pub[con[c].msg].pc = "arrived"
  /\ \A c \in Consumers : \A m \in con[c].buf : pub[m].pc = "arrived"

BrokerInv == OnePlace /\ OnlyArrived

\* Of a message in one place, Place says which.
Placed ==
  [m \in Messages |-> IF m \in ready THEN "ready"
                      ELSE IF m \in acked THEN "dropped"
                      ELSE IF \E u \in unacked : u.msg = m THEN "delivered"
                      ELSE "unsent"]

LEMMA PlacedIsPlace == OnePlace => [m \in Messages |-> Place(m)] = Placed
<1> SUFFICES ASSUME OnePlace, NEW m \in Messages PROVE Place(m) = Placed[m]
  BY DEF Placed
<1> USE DEF OnePlace
<1>1. CASE m \in ready
  <2>1. m \in ready \ acked /\ Unacked(m) = {}
    BY <1>1 DEF Unacked
  <2> QED
    BY <2>1 DEF Place, Placed
<1>2. CASE m \in acked
  <2>1. m \in acked \ ready /\ Unacked(m) = {}
    BY <1>2 DEF Unacked
  <2> QED
    BY <2>1 DEF Place, Placed
<1>3. ASSUME NEW u \in unacked, u.msg = m PROVE Place(m) = Placed[m]
  <2>1. m \notin ready \cup acked /\ Unacked(m) = {u}
    BY <1>3 DEF Unacked
  <2> QED
    BY <1>3, <2>1 DEF Place, Placed
<1>4. CASE m \notin ready \cup acked /\ \A u \in unacked : u.msg # m
  <2>1. Unacked(m) = {}
    BY <1>4 DEF Unacked
  <2> QED
    BY <1>4, <2>1 DEF Place, Placed
<1> QED
  BY <1>1, <1>2, <1>3, <1>4

Mapped == INSTANCE MessageDelivery WITH place <- Placed

LEMMA StepIsDelivery ==
  ASSUME OnePlace, OnePlace', [Mapped!Next]_<<Placed, handled>>
  PROVE  [Delivery!Next]_<<[m \in Messages |-> Place(m)], handled>>
<1>1. [m \in Messages |-> Place(m)] = Placed
  BY PlacedIsPlace
<1>2. (OnePlace => [m \in Messages |-> Place(m)] = Placed)'
  BY PlacedIsPlace, PTL
<1>3. [m \in Messages |-> Place(m)]' = Placed'
  BY <1>2
<1> QED
  BY <1>1, <1>3
  DEF Delivery!Next, Delivery!Accept, Delivery!Deliver, Delivery!Drop,
      Delivery!TakeBack, Delivery!Succeed, Delivery!Move, Mapped!Next,
      Mapped!Accept, Mapped!Deliver, Mapped!Drop, Mapped!TakeBack,
      Mapped!Succeed, Mapped!Move

\* Whatever leaves the messages and the calls that have one as they are.
LEMMA NothingMoves ==
  ASSUME QInv, BrokerInv, UNCHANGED msgVars,
         \A m \in Messages : pub'[m].pc = "arrived" <=> pub[m].pc = "arrived",
         \A c \in Consumers :
           con'[c].pc \in {"handling", "ok", "failed"} =>
             \/ con[c].pc \in {"handling", "ok", "failed"} /\ con'[c].msg = con[c].msg
             \/ con'[c].msg \in con[c].buf,
         \A c \in Consumers : con'[c].buf \subseteq con[c].buf
  PROVE  BrokerInv' /\ UNCHANGED <<Placed, handled>>
<1>1. OnePlace'
  BY DEF BrokerInv, OnePlace, msgVars
<1>2. \A c \in Consumers :
        /\ con[c].pc \in {"handling", "ok", "failed"} => con[c].msg \in Messages
        /\ con[c].buf \subseteq Messages
  BY DEF QInv, TypeOK, HaveRead
<1>3. OnlyArrived'
  <2>1. \A m \in Messages :
          pub'[m].pc = "arrived" <=>
            m \in ready' \cup acked' \cup {u.msg : u \in unacked'}
    BY DEF BrokerInv, OnlyArrived, msgVars
  <2>2. \A c \in Consumers : \A m \in con'[c].buf : pub'[m].pc = "arrived"
    BY <1>2 DEF BrokerInv, OnlyArrived
  <2>3. ASSUME NEW c \in Consumers, con'[c].pc \in {"handling", "ok", "failed"}
        PROVE  pub'[con'[c].msg].pc = "arrived"
    BY <1>2, <2>3 DEF BrokerInv, OnlyArrived
  <2> QED
    BY <2>1, <2>2, <2>3 DEF OnlyArrived
<1> QED
  BY <1>1, <1>3 DEF BrokerInv, Placed, msgVars

\* The deliveries of a lost channel are taken back.
LEMMA ReleaseTakesBack ==
  ASSUME QInv, BrokerInv, NEW i \in Conns, ReleaseUnacked(i), UNCHANGED <<pub, con>>
  PROVE  BrokerInv' /\ Mapped!Next
<1> DEFINE back == {u.msg : u \in {v \in unacked : v.on = i}}
<1>1. /\ ready' = ready \cup back
      /\ unacked' = {u \in unacked : u.on # i}
      /\ UNCHANGED <<acked, handled>>
  BY DEF ReleaseUnacked
<1>2. back \subseteq Messages
  BY DEF QInv, TypeOK
<1>3. \A u \in unacked : u.msg \in back <=> u.on = i
  BY DEF BrokerInv, OnePlace
<1>4. OnePlace'
  BY <1>1, <1>3 DEF BrokerInv, OnePlace
<1>5. \A m \in Messages : m \in ready' \cup acked' \cup {u.msg : u \in unacked'}
                            <=> m \in ready \cup acked \cup {u.msg : u \in unacked}
  BY <1>1, <1>3
<1>6. OnlyArrived'
  BY <1>5 DEF BrokerInv, OnlyArrived
<1>7. \A m \in back : Placed[m] = "delivered"
  BY <1>2 DEF Placed, BrokerInv, OnePlace
<1>8. Placed' = [m \in Messages |-> IF m \in back THEN "ready" ELSE Placed[m]]
  <2> SUFFICES ASSUME NEW m \in Messages
               PROVE  Placed'[m] = IF m \in back THEN "ready" ELSE Placed[m]
    BY DEF Placed
  <2>1. CASE m \in back
    BY <1>1, <2>1 DEF Placed
  <2>2. CASE m \notin back
    <3>1. (\E u \in unacked' : u.msg = m) <=> (\E u \in unacked : u.msg = m)
      BY <1>1, <1>3, <2>2
    <3> QED
      BY <1>1, <2>2, <3>1 DEF Placed
  <2> QED
    BY <2>1, <2>2
<1>9. Mapped!TakeBack(back)
  BY <1>1, <1>7, <1>8 DEF Mapped!TakeBack
<1> QED
  BY <1>2, <1>4, <1>6, <1>9 DEF BrokerInv, Mapped!Next

\* A call of Publish moves nothing,
LEMMA PublishMovesNothing ==
  ASSUME QInv, BrokerInv, NEW p \in Publishers, Publish(p)
  PROVE  BrokerInv' /\ UNCHANGED <<Placed, handled>>
<1>1. UNCHANGED <<msgVars, con>> /\ ~Arrive(p)
  BY DEF Publish, PublishBegin, PublishSnapshot, PublishSend, Arrive
<1>2. /\ pub[p].pc # "arrived" /\ pub'[p].pc # "arrived"
      /\ \A q \in Publishers \ {p} : pub'[q] = pub[q]
  BY <1>1, PublisherMoves
<1> QED
  BY <1>1, <1>2, NothingMoves DEF Messages

\* and what arrives is accepted.
LEMMA ArrivalIsAccepted ==
  ASSUME QInv, BrokerInv, NEW p \in Publishers, Arrive(p)
  PROVE  BrokerInv' /\ Mapped!Next
<1>1. ready' = ready \cup {p} /\ UNCHANGED <<unacked, acked, handled, con>>
  BY DEF Arrive
<1>2. /\ pub[p].pc # "arrived" /\ pub'[p].pc = "arrived"
      /\ \A q \in Publishers \ {p} : pub'[q] = pub[q]
  BY PublisherMoves
<1>3. p \notin ready \cup acked \cup {u.msg : u \in unacked} /\ p \in Messages
  BY <1>2 DEF BrokerInv, OnlyArrived, Messages
<1>4. OnePlace'
  BY <1>1, <1>3 DEF BrokerInv, OnePlace
<1>5. OnlyArrived'
  <2>1. \A m \in Messages :
          pub'[m].pc = "arrived" <=>
            m \in ready' \cup acked' \cup {u.msg : u \in unacked'}
    BY <1>1, <1>2 DEF BrokerInv, OnlyArrived, Messages
  <2>2. \A m \in Messages : pub[m].pc = "arrived" => pub'[m].pc = "arrived"
    BY <1>2 DEF Messages
  <2>3. \A c \in Consumers :
          /\ con[c].pc \in {"handling", "ok", "failed"} => con[c].msg \in Messages
          /\ con[c].buf \subseteq Messages
    BY DEF QInv, TypeOK, HaveRead
  <2> QED
    BY <1>1, <2>1, <2>2, <2>3 DEF BrokerInv, OnlyArrived
<1>6. Placed[p] = "unsent" /\ Placed' = [Placed EXCEPT ![p] = "ready"]
  <2>1. Placed[p] = "unsent"
    BY <1>3 DEF Placed
  <2>2. \A m \in Messages : Placed'[m] = IF m = p THEN "ready" ELSE Placed[m]
    BY <1>1 DEF Placed
  <2> QED
    BY <2>1, <2>2 DEF Placed
<1> QED
  BY <1>1, <1>3, <1>4, <1>5, <1>6 DEF BrokerInv, Mapped!Next, Mapped!Accept,
                                      Mapped!Move

\* A handler succeeds with a message that has arrived.
LEMMA HandlerSucceeds ==
  ASSUME QInv, BrokerInv, NEW c \in Consumers, Handle(c)
  PROVE  BrokerInv' /\ [Mapped!Next]_<<Placed, handled>>
<1>1. /\ con[c].pc = "handling" /\ con[c].msg \in Messages
      /\ UNCHANGED <<pub, ready, unacked, acked>>
  BY DEF Handle, QInv, HaveRead
<1>2. pub[con[c].msg].pc = "arrived"
  BY <1>1 DEF BrokerInv, OnlyArrived
<1>3. /\ \A d \in Consumers : con'[d].msg = con[d].msg /\ con'[d].buf = con[d].buf
      /\ \A d \in Consumers : con'[d].pc \in {"handling", "ok", "failed"}
                                <=> con[d].pc \in {"handling", "ok", "failed"}
  BY <1>1, ConsumerMoves
<1>4. BrokerInv'
  BY <1>1, <1>3 DEF BrokerInv, OnePlace, OnlyArrived
<1>5. Placed' = Placed
  BY <1>1 DEF Placed
<1>6. Placed[con[c].msg] # "unsent"
  BY <1>1, <1>2 DEF Placed, BrokerInv, OnlyArrived
<1>7. handled' = handled \/ handled' = handled \cup {con[c].msg}
  BY DEF Handle
<1> QED
  BY <1>1, <1>4, <1>5, <1>6, <1>7 DEF Mapped!Next, Mapped!Succeed

LEMMA DeliverDelivers ==
  ASSUME QInv, BrokerInv, NEW c \in Consumers, NEW m \in Messages, Deliver(c, m)
  PROVE  BrokerInv' /\ Mapped!Next
<1> DEFINE new == [msg |-> m, on |-> con[c].on, to |-> c]
<1>1. /\ m \in ready /\ ready' = ready \ {m}
      /\ unacked' = unacked \cup {new}
      /\ UNCHANGED <<pub, acked, handled>>
  BY DEF Deliver
<1>2. new.msg = m
  OBVIOUS
<1>3. m \notin acked /\ \A u \in unacked : u.msg # m
  BY <1>1 DEF BrokerInv, OnePlace
<1>4. /\ con'[c].pc = con[c].pc /\ con'[c].msg = con[c].msg
      /\ con'[c].buf = con[c].buf \cup {m}
      /\ \A d \in Consumers \ {c} : con'[d] = con[d]
  BY ConsumerMoves
<1> HIDE DEF new
<1>5. OnePlace'
  BY <1>1, <1>2, <1>3 DEF BrokerInv, OnePlace
<1>6. OnlyArrived'
  <2>1. \A n \in Messages : n \in ready' \cup acked' \cup {u.msg : u \in unacked'}
                              <=> n \in ready \cup acked \cup {u.msg : u \in unacked}
    BY <1>1, <1>2
  <2>2. pub[m].pc = "arrived"
    BY <1>1 DEF BrokerInv, OnlyArrived
  <2> QED
    BY <1>1, <1>4, <2>1, <2>2 DEF BrokerInv, OnlyArrived
<1>7. Placed[m] = "ready"
  BY <1>1 DEF Placed
<1>8. Placed' = [Placed EXCEPT ![m] = "delivered"]
  <2>1. ASSUME NEW n \in Messages, n # m
        PROVE  (\E u \in unacked' : u.msg = n) <=> (\E u \in unacked : u.msg = n)
    BY <1>1, <1>2, <2>1
  <2>2. m \notin ready' /\ m \notin acked' /\ \E u \in unacked' : u.msg = m
    BY <1>1, <1>2, <1>3
  <2>3. ASSUME NEW n \in Messages
        PROVE  Placed'[n] = IF n = m THEN "delivered" ELSE Placed[n]
    BY <1>1, <2>1, <2>2 DEF Placed
  <2> QED
    BY <2>3 DEF Placed
<1> QED
  BY <1>1, <1>5, <1>6, <1>7, <1>8 DEF BrokerInv, Mapped!Next, Mapped!Deliver,
                                      Mapped!Move

\* An answer drops the message, or takes it back, or comes too late to matter.
LEMMA SettleAnswers ==
  ASSUME QInv, BrokerInv, NEW c \in Consumers, Settle(c)
  PROVE  BrokerInv' /\ [Mapped!Next]_<<Placed, handled>>
<1> DEFINE m == con[c].msg
           mine == {u \in unacked : u.msg = m /\ u.to = c}
<1>1. /\ con[c].pc \in {"ok", "failed"} /\ m \in Messages
      /\ UNCHANGED <<pub, handled>>
  BY DEF Settle, QInv, HaveRead
<1>2. /\ con'[c].pc = "waiting" /\ con'[c].buf = con[c].buf
      /\ \A d \in Consumers \ {c} : con'[d] = con[d]
  BY ConsumerMoves
<1>3. CASE mine = {}
  <2>1. UNCHANGED msgVars
    BY <1>3 DEF Settle, msgVars
  <2>2. \A d \in Consumers :
          /\ con'[d].pc \in {"handling", "ok", "failed"} =>
               con[d].pc \in {"handling", "ok", "failed"} /\ con'[d].msg = con[d].msg
          /\ con'[d].buf = con[d].buf
    BY <1>2
  <2> QED
    BY <1>1, <2>1, <2>2, NothingMoves
<1>4. ASSUME NEW v \in unacked, v.msg = m, v.to = c
      PROVE  BrokerInv' /\ [Mapped!Next]_<<Placed, handled>>
  <2>1. mine = {v}
    BY <1>4 DEF BrokerInv, OnePlace
  <2>2. /\ unacked' = unacked \ {v}
        /\ \/ con[c].pc = "ok" /\ acked' = acked \cup {m} /\ UNCHANGED ready
           \/ ready' = ready \cup {m} /\ UNCHANGED acked
    BY <1>1, <2>1 DEF Settle
  <2>3. /\ m \notin ready \cup acked
        /\ \A u \in unacked' : u.msg # m
        /\ \A n \in Messages \ {m} :
             (\E u \in unacked' : u.msg = n) <=> (\E u \in unacked : u.msg = n)
    BY <1>4, <2>2 DEF BrokerInv, OnePlace
  <2>4. OnePlace'
    BY <2>2, <2>3 DEF BrokerInv, OnePlace
  <2>5. OnlyArrived'
    <3>1. \A n \in Messages : n \in ready' \cup acked' \cup {u.msg : u \in unacked'}
                                <=> n \in ready \cup acked \cup {u.msg : u \in unacked}
      BY <1>4, <2>2, <2>3
    <3> QED
      BY <1>1, <1>2, <3>1 DEF BrokerInv, OnlyArrived
  <2>6. Placed[m] = "delivered"
    BY <1>1, <1>4, <2>3 DEF Placed
  <2>7. CASE con[c].pc = "ok" /\ acked' = acked \cup {m} /\ UNCHANGED ready
    <3>1. m \in handled
      BY <2>7 DEF QInv, HandledFirst
    <3>2. ASSUME NEW n \in Messages
          PROVE  Placed'[n] = IF n = m THEN "dropped" ELSE Placed[n]
      BY <2>3, <2>7 DEF Placed
    <3>3. Placed' = [Placed EXCEPT ![m] = "dropped"]
      BY <3>2 DEF Placed
    <3> QED
      BY <1>1, <2>4, <2>5, <2>6, <3>1, <3>3
      DEF BrokerInv, Mapped!Next, Mapped!Drop, Mapped!Move
  <2>8. CASE ready' = ready \cup {m} /\ UNCHANGED acked
    <3>1. ASSUME NEW n \in Messages
          PROVE  Placed'[n] = IF n \in {m} THEN "ready" ELSE Placed[n]
      BY <2>3, <2>8 DEF Placed
    <3>2. Placed' = [n \in Messages |-> IF n \in {m} THEN "ready" ELSE Placed[n]]
      BY <3>1 DEF Placed
    <3>3. Mapped!TakeBack({m})
      BY <1>1, <2>6, <3>2 DEF Mapped!TakeBack
    <3> QED
      BY <1>1, <2>4, <2>5, <3>3 DEF BrokerInv, Mapped!Next
  <2> QED
    BY <2>2, <2>7, <2>8
<1> QED
  BY <1>3, <1>4

LEMMA BrokerStep ==
  ASSUME QInv, BrokerInv, [Next]_vars
  PROVE  BrokerInv' /\ [Mapped!Next]_<<Placed, handled>>
<1>1. ASSUME UNCHANGED <<msgVars, pub, con>>
      PROVE  BrokerInv' /\ [Mapped!Next]_<<Placed, handled>>
  BY <1>1, NothingMoves
<1>2. ASSUME NEW i \in Conns, ConnFails(i) \/ ChannelFails(i)
      PROVE  BrokerInv' /\ [Mapped!Next]_<<Placed, handled>>
  BY <1>2, ReleaseTakesBack DEF ConnFails, ChannelFails
<1>3. CASE Reconnector
  BY <1>1, <1>3 DEF Reconnector, ReconnectorDone, ReconnectorNotified,
    ReconnectorLoop, ConnectBegin, DialFails, DialSucceeds, NotifyChannel, NotifyConn
<1>4. ASSUME NEW c \in Closers, Close(c)
      PROVE  BrokerInv' /\ [Mapped!Next]_<<Placed, handled>>
  <2>1. CASE CloseMark(c) \/ CloseDone(c) \/ CloseConn(c)
    BY <1>1, <2>1 DEF CloseMark, CloseDone, CloseConn
  <2>2. CASE CloseChannel(c) /\ chan[current] = "open"
    <3>1. current \in Conns /\ ReleaseUnacked(current) /\ UNCHANGED <<pub, con>>
      BY <2>2 DEF CloseChannel, QInv, TypeOK
    <3> QED
      BY <3>1, ReleaseTakesBack
  <2>3. CASE CloseChannel(c) /\ chan[current] # "open"
    BY <1>1, <2>3 DEF CloseChannel
  <2> QED
    BY <1>4, <2>1, <2>2, <2>3 DEF Close
<1>5. ASSUME NEW c \in Consumers, Consume(c) \/ ConsumerExit(c)
      PROVE  BrokerInv' /\ [Mapped!Next]_<<Placed, handled>>
  <2>1. UNCHANGED <<msgVars, pub>>
    BY <1>5 DEF Consume, ConsumeBegin, ConsumeSnapshot, ConsumeSubscribe,
                ConsumerExit
  <2>2. /\ con'[c].pc \notin {"handling", "ok", "failed"}
        /\ con'[c].buf = con[c].buf
        /\ \A d \in Consumers \ {c} : con'[d] = con[d]
    BY <1>5, ConsumerMoves
  <2> QED
    BY <2>1, <2>2, NothingMoves
<1>6. ASSUME NEW c \in Consumers, NEW m \in Messages, Receive(c, m)
      PROVE  BrokerInv' /\ [Mapped!Next]_<<Placed, handled>>
  <2>1. UNCHANGED <<msgVars, pub>> /\ m \in con[c].buf
    BY <1>6 DEF Receive
  <2>2. /\ con'[c].msg = m /\ con'[c].buf = con[c].buf \ {m}
        /\ \A d \in Consumers \ {c} : con'[d] = con[d]
    BY <1>6, ConsumerMoves
  <2> QED
    BY <2>1, <2>2, NothingMoves
<1>7. CASE UNCHANGED vars
  BY <1>1, <1>7 DEF vars
<1> QED
  BY <1>2, <1>3, <1>4, <1>5, <1>6, <1>7, PublishMovesNothing, ArrivalIsAccepted,
     HandlerSucceeds, DeliverDelivers, SettleAnswers
  DEF Next, Environment, Consumer

\* A message is in one place, and at the broker exactly when it has arrived.
THEOREM BrokerInvariance == Spec => []BrokerInv
<1>1. Init => BrokerInv
  <2> SUFFICES ASSUME Init PROVE BrokerInv
    OBVIOUS
  <2>1. \A c \in Consumers : con[c].pc = "new" /\ con[c].buf = {}
    BY DEF Init, NewCon
  <2>2. \A m \in Messages : pub[m].pc = "new"
    BY DEF Init, NewCall, Messages
  <2> QED
    BY <2>1, <2>2 DEF Init, BrokerInv, OnePlace, OnlyArrived
<1>2. QInv /\ BrokerInv /\ [Next]_vars => BrokerInv'
  BY BrokerStep
<1> QED
  BY <1>1, <1>2, Invariance, PTL DEF Spec

\* The queue over its broker implements MessageDelivery: what has arrived is
\* delivered at least once, is in one place at a time, and never comes again after
\* it was acknowledged.
THEOREM QueueDelivers == Spec => DeliversAtLeastOnce
<1>1. Init => Delivery!Init
  <2> SUFFICES ASSUME Init, NEW m \in Messages PROVE Place(m) = "unsent"
    BY DEF Init, Delivery!Init
  <2>1. OnePlace
    BY DEF Init, OnePlace
  <2>2. [n \in Messages |-> Place(n)] = Placed
    BY <2>1, PlacedIsPlace
  <2>3. Place(m) = Placed[m]
    BY <2>2
  <2> QED
    BY <2>3 DEF Init, Placed
<1>2. QInv /\ BrokerInv /\ BrokerInv' /\ [Next]_vars
        => [Delivery!Next]_<<[m \in Messages |-> Place(m)], handled>>
  BY BrokerStep, StepIsDelivery DEF BrokerInv
<1> QED
  BY <1>1, <1>2, Invariance, BrokerInvariance, PTL
  DEF Spec, DeliversAtLeastOnce, Delivery!Spec
=============================================================================
