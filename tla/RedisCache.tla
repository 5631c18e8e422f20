---------------------------- MODULE RedisCache ----------------------------
(***************************************************************************)
(* The cache on a Redis server, src/pkg/cache/redis.go: what its commands  *)
(* do to the server's keys, and the lock made of SetNX and a script.       *)
(*                                                                         *)
(* The client library repeats a command whose reply was lost, up to        *)
(* MaxRetries times, and reports an error after that: a command may have   *)
(* been executed once, several times or not at all when the caller sees an *)
(* error.  A call's execution and its reply are therefore steps of their   *)
(* own.  The server keeps a key until it is deleted or its time to live    *)
(* has passed; it does not forget keys and is not restarted.               *)
(***************************************************************************)
EXTENDS Naturals

CONSTANTS
  Keys,         \* the keys of the server, after the prefix
  Resources,    \* those made by Lock, "lock:" + key
  Lockers,      \* calls of Lock, each with its Unlock
  Values,       \* what else is stored
  Absent,       \* no such key
  NoToken       \* "", which Lock returns with an error

VARIABLES
  store,        \* [Keys -> what Get returns]
  lock,         \* [Lockers -> where the caller stands, for what, its token]
  maker,        \* history: whose SetNX made the entry of a resource
  lease,        \* history: the calls whose SetNX has time to live left
  excused       \* history: an Unlock was executed late, or again

lockVars == <<lock, maker, lease, excused>>

\* make([]byte, 16) is never filled: every call returns the same text.
generateToken == "0"

NewCall == [pc |-> "new", on |-> Absent, token |-> NoToken]

ASSUME RedisAssumption ==
  /\ Resources \subseteq Keys
  /\ Absent \notin Values \cup Keys \cup Lockers \cup {generateToken}
  /\ NoToken \notin {generateToken, Absent}

RedisInit ==
  /\ store = [k \in Keys |-> Absent]
  /\ lock = [c \in Lockers |-> NewCall]
  /\ maker = [r \in Resources |-> Absent]
  /\ lease = {} /\ excused = FALSE

-----------------------------------------------------------------------------
(* Commands *)

Get(k) == store[k]
Set(k, v) == store' = [store EXCEPT ![k] = v]
Delete(k) == store' = [store EXCEPT ![k] = Absent]

-----------------------------------------------------------------------------
(* Lock *)

LockBegin(c, r) ==
  /\ lock[c].pc = "new"
  /\ lock' = [lock EXCEPT ![c] =
               [pc |-> "locking", on |-> r, token |-> NoToken]]
  /\ UNCHANGED <<store, maker, lease, excused>>

\* SetNX at the server.
LockExecuteOver(c) ==           \* mutant: SET without NX
  LET r == lock[c].on IN
  /\ lock[c].pc = "locking"
  /\ Set(r, generateToken)
  /\ maker' = [maker EXCEPT ![r] = c]
  /\ lease' = lease \cup {c}
  /\ lock' = [lock EXCEPT ![c].pc = "granted"]
  /\ UNCHANGED excused

LockExecute(c) ==
  LET r == lock[c].on IN
  /\ lock[c].pc = "locking"
  /\ IF Get(r) = Absent
     THEN /\ Set(r, generateToken)
          /\ maker' = [maker EXCEPT ![r] = c]
          /\ lease' = lease \cup {c}
          /\ lock' = [lock EXCEPT ![c].pc = "granted"]
     ELSE /\ lock' = [lock EXCEPT ![c].pc = "denied"]
          /\ UNCHANGED <<store, maker, lease>>
  /\ UNCHANGED excused

LockReply(c) ==
  /\ \/ /\ lock[c].pc = "granted"
        /\ lock' = [lock EXCEPT ![c] =
                      [pc |-> "locked", on |-> @.on, token |-> generateToken]]
     \/ /\ lock[c].pc = "denied"
        /\ lock' = [lock EXCEPT ![c].pc = "refused"]
  /\ UNCHANGED <<store, maker, lease, excused>>

\* A reply that is lost: SetNX is sent again, and will find its own entry,
LockAgain(c) ==
  /\ lock[c].pc \in {"granted", "denied"}
  /\ lock' = [lock EXCEPT ![c].pc = "locking"]
  /\ UNCHANGED <<store, maker, lease, excused>>

\* or the caller sees an error, which the command may have preceded.
LockError(c) ==
  /\ lock[c].pc \in {"locking", "granted", "denied"}
  /\ lock' = [lock EXCEPT ![c].pc = "refused"]
  /\ UNCHANGED <<store, maker, lease, excused>>

-----------------------------------------------------------------------------
(* Unlock, which is deferred whether Lock has succeeded or not. *)

UnlockBegin(c) ==
  /\ lock[c].pc \in {"locked", "refused"}
  /\ lock' = [lock EXCEPT ![c].pc = "unlocking"]
  /\ UNCHANGED <<store, maker, lease, excused>>

\* The script: delete the entry if it holds the caller's token.
UnlockExecuteBlindly(c) ==      \* mutant: the token is not compared
  /\ lock[c].pc = "unlocking"
  /\ Delete(lock[c].on)
  /\ excused' = (excused \/ (lock[c].token # NoToken /\ c \notin lease))
  /\ lease' = lease \ (IF lock[c].token # NoToken THEN {c} ELSE {})
  /\ lock' = [lock EXCEPT ![c].pc = "unlocked"]
  /\ UNCHANGED maker

UnlockExecute(c) ==
  /\ lock[c].pc = "unlocking"
  /\ IF Get(lock[c].on) = lock[c].token
     THEN Delete(lock[c].on)
     ELSE UNCHANGED store
  /\ excused' = (excused \/ (lock[c].token # NoToken /\ c \notin lease))
  /\ lease' = lease \ (IF lock[c].token # NoToken THEN {c} ELSE {})
  /\ lock' = [lock EXCEPT ![c].pc = "unlocked"]
  /\ UNCHANGED maker

UnlockAgain(c) ==
  /\ lock[c].pc = "unlocked"
  /\ lock' = [lock EXCEPT ![c].pc = "unlocking"]
  /\ UNCHANGED <<store, maker, lease, excused>>

\* A reply or an error; the caller looks at neither.
UnlockEnd(c) ==
  /\ lock[c].pc \in {"unlocking", "unlocked"}
  /\ lock' = [lock EXCEPT ![c].pc = "ended"]
  /\ UNCHANGED <<store, maker, lease, excused>>

\* The time to live given to SetNX has passed.
LeaseEnds(c) ==
  /\ c \in lease
  /\ lease' = lease \ {c}
  /\ store' = [k \in Keys |->
                IF k \in Resources /\ maker[k] = c THEN Absent ELSE store[k]]
  /\ UNCHANGED <<lock, maker, excused>>

LockNext ==
  \E c \in Lockers :
    \/ \E r \in Resources : LockBegin(c, r)
    \/ LockExecute(c) \/ LockReply(c) \/ LockAgain(c) \/ LockError(c)
    \/ UnlockBegin(c) \/ UnlockExecute(c) \/ UnlockAgain(c) \/ UnlockEnd(c)
    \/ LeaseEnds(c)
-----------------------------------------------------------------------------
(* Properties *)

RedisTypeOK ==
  /\ store \in [Keys -> Values \cup {Absent, generateToken}]
  /\ \A r \in Resources : store[r] \in {Absent, generateToken}
  /\ lock \in [Lockers ->
                [pc : {"new", "locking", "granted", "denied", "locked",
                       "refused", "unlocking", "unlocked", "ended"},
                 on : Resources \cup {Absent}, token : {NoToken, generateToken}]]
  /\ maker \in [Resources -> Lockers \cup {Absent}]
  /\ lease \subseteq Lockers /\ excused \in BOOLEAN

Holds(c) == lock[c].pc = "locked" /\ c \in lease

\* The lock excludes: two callers hold one resource, each within its time to
\* live, only after an Unlock that was executed when its caller's lease was
\* over, or for a second time.  A refused caller's deferred Unlock, lost
\* replies and repeated commands do not break it.
LockIsExclusive ==
  \A c, d \in Lockers :
    Holds(c) /\ Holds(d) /\ lock[c].on = lock[d].on => c = d \/ excused

\* Lock implements Lease: what the server has under a resource is the lease of
\* one call, which no other call's Unlock, deferred or repeated, and no repeated
\* SetNX can end or take over, until an Unlock is late.
Locks == INSTANCE Lease WITH
  Clients <- Lockers, Nobody <- Absent, leases <- lease, late <- excused,
  owner <- [r \in Resources |-> IF Get(r) = Absent THEN Absent ELSE maker[r]]

LockIsLease == Locks!Spec
=============================================================================
