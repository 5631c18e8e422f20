---------------------------- MODULE RateLimiter ----------------------------
(***************************************************************************)
(* middleware.RateLimiter (pkg/middleware/rate_limiter.go): one counter    *)
(* per client address under rl.mu, and the goroutine that drops old ones.  *)
(* A request is one critical section; the headers written after the unlock *)
(* are left out.  Time is counted in ticks, and the ticker of cleanup,     *)
(* which has no fixed phase, may fire at any of them.                      *)
(***************************************************************************)
EXTENDS Integers, Sequences

CONSTANTS
  Keys,         \* client addresses
  LimitArg,     \* the arguments of RateLimiter
  WindowArg,
  Absent,       \* no counter in the map
  MaxTime       \* bound of the model: the clock stops

ASSUME ArgsAssumption ==
  LimitArg \in Int /\ WindowArg \in Int /\ MaxTime \in Nat

\* The defaults of rate_limiter.go:26-31; a tick is then a minute.
Limit == IF LimitArg <= 0 THEN 100 ELSE LimitArg
Window == IF WindowArg <= 0 THEN 1 ELSE WindowArg

Counter == [count : Nat, lastTime : Nat]

\* A counter, or the window it stands for, is not "absent".
ASSUME AbsentAssumption ==
  Absent \notin Counter /\ Absent \notin [start : Nat, used : Nat]

VARIABLES
  now,
  counters,     \* rl.counters
  reply,        \* the last answer (history)
  admitted      \* when each client's requests were admitted (history)

vars == <<now, counters, reply, admitted>>

Init ==
  /\ now = 0
  /\ counters = [k \in Keys |-> Absent]
  /\ reply = <<>>
  /\ admitted = [k \in Keys |-> <<>>]

\* The counter a request of k finds: a new one, the one of the map, or that one
\* reset.
FreshCarriesOver(k) ==          \* mutant: the reset keeps lastTime
  IF counters[k] = Absent THEN [count |-> 0, lastTime |-> now]
  ELSE IF now - counters[k].lastTime > Window
       THEN [count |-> 0, lastTime |-> counters[k].lastTime]
       ELSE counters[k]

Fresh(k) ==
  IF counters[k] = Absent \/ now - counters[k].lastTime > Window
  THEN [count |-> 0, lastTime |-> now]
  ELSE counters[k]

Request(k) ==
  LET c == Fresh(k) IN
  IF c.count >= Limit
  THEN /\ counters' = [counters EXCEPT ![k] = c]
       /\ reply' = <<k, FALSE>>
       /\ UNCHANGED <<now, admitted>>
  ELSE /\ counters' = [counters EXCEPT ![k] = [count |-> c.count + 1,
                                               lastTime |-> c.lastTime]]
       /\ reply' = <<k, TRUE>>
       /\ admitted' = [admitted EXCEPT ![k] = Append(@, now)]
       /\ UNCHANGED now

\* One round of cleanup.
CleanupEager ==                 \* mutant: age > window / 2
  /\ counters' = [k \in Keys |->
                    IF counters[k] # Absent
                         /\ 2 * (now - counters[k].lastTime) > Window
                    THEN Absent ELSE counters[k]]
  /\ UNCHANGED <<now, reply, admitted>>

Cleanup ==
  /\ counters' = [k \in Keys |->
                    IF counters[k] # Absent
                         /\ now - counters[k].lastTime > 2 * Window
                    THEN Absent ELSE counters[k]]
  /\ UNCHANGED <<now, reply, admitted>>

Tick ==
  /\ now < MaxTime
  /\ now' = now + 1
  /\ UNCHANGED <<counters, reply, admitted>>

Next == (\E k \in Keys : Request(k)) \/ Cleanup \/ Tick

Spec == Init /\ [][Next]_vars

-----------------------------------------------------------------------------
(* Properties *)

TypeOK ==
  /\ now \in 0..MaxTime
  /\ counters \in [Keys -> Counter \cup {Absent}]
  /\ reply \in {<<>>} \cup (Keys \X BOOLEAN)
  /\ admitted \in [Keys -> Seq(0..MaxTime)]

\* A window of this limiter is not aligned with anybody else's: whatever
\* interval of the length of a window one looks at, a client gets through at
\* most twice the limit (the end of one window and the beginning of the next).
\* Twice the limit of requests later the window's length is over.
AtMostTwice ==
  \A k \in Keys : \A i \in DOMAIN admitted[k] :
    i > 2 * Limit => admitted[k][i] - admitted[k][i - 2 * Limit] > Window

\* The windows of FixedWindow: a counter that is too old counts for nothing,
\* whether cleanup has met it or not.
OpenWindow ==
  [k \in Keys |->
     IF counters[k] = Absent \/ now - counters[k].lastTime > Window
     THEN Absent
     ELSE [start |-> counters[k].lastTime, used |-> counters[k].count]]

Promise == INSTANCE FixedWindow WITH open <- OpenWindow, NoWindow <- Absent

\* The limiter is a fixed-window limiter; in particular cleanup never forgives
\* a client whose window is still open.
IsFixedWindow == Promise!FWSpec
=============================================================================
