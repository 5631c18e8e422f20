-------------------------- MODULE AuthTokensProofs --------------------------
(***************************************************************************)
(* The lock of RedisCache and the tokens of AuthTokens, for any number of  *)
(* callers, resources, users and tokens.                                   *)
(***************************************************************************)
EXTENDS AuthTokens, TLAPS

-----------------------------------------------------------------------------
(* The inductive invariant. *)

\* Until an Unlock comes late, an entry with time to live left is at the
\* server and is its maker's own: the leases of one resource are one lease.
LeaseIsEntry ==
  \A c \in lease :
    /\ lock[c].pc # "new" /\ lock[c].on \in Resources
    /\ ~excused => /\ Get(lock[c].on) = generateToken
                   /\ maker[lock[c].on] = c

\* A call names its resource.
CallHasResource ==
  \A c \in Lockers : lock[c].pc # "new" => lock[c].on \in Resources

\* What was revoked has no entry, and gets none again.
RevokedIsGone == \A i \in revoked : Get(i) = Absent

AInv == TypeOK /\ CallHasResource /\ LeaseIsEntry /\ RevokedIsGone

LEMMA InitInv == Init => AInv
<1> SUFFICES ASSUME Init PROVE AInv
  OBVIOUS
<1> USE AuthAssumption, RedisAssumption DEF Init, RedisInit
<1>1. RedisTypeOK /\ CallHasResource
  BY DEF NewCall, RedisTypeOK, CallHasResource
<1>2. TypeOK
  <2>1. \A i \in Ids : store[i] = Absent
    OBVIOUS
  <2>2. \A c \in Callers : call[c].pc = "idle"
    BY DEF NoCall
  <2> QED
    BY <1>1, <2>1, <2>2 DEF TypeOK, NotIssued, NoCall
<1> QED
  BY <1>1, <1>2 DEF AInv, LeaseIsEntry, RevokedIsGone

-----------------------------------------------------------------------------
(* Lock and Unlock *)

\* A step of the lock keeps the entries of tokens out of sight.
LEMMA LockTypes ==
  ASSUME TypeOK, CallHasResource, LockNext, UNCHANGED authVars
  PROVE  TypeOK' /\ CallHasResource'
<1>0. RedisTypeOK
  BY DEF TypeOK
<1>1. /\ RedisTypeOK' /\ CallHasResource'
      /\ \A i \in Ids : store'[i] \in {store[i], Absent}
  <2> USE <1>0, AuthAssumption, RedisAssumption
          DEF RedisTypeOK, CallHasResource, authVars
  <2> SUFFICES ASSUME NEW c \in Lockers,
                      \/ \E r \in Resources : LockBegin(c, r)
                      \/ LockExecute(c) \/ LockReply(c) \/ LockAgain(c)
                      \/ LockError(c) \/ UnlockBegin(c) \/ UnlockExecute(c)
                      \/ UnlockAgain(c) \/ UnlockEnd(c) \/ LeaseEnds(c)
               PROVE  /\ RedisTypeOK' /\ CallHasResource'
                      /\ \A i \in Ids : store'[i] \in {store[i], Absent}
    BY DEF LockNext
  <2>1. CASE \E r \in Resources : LockBegin(c, r)
    BY <2>1 DEF LockBegin
  <2>2. CASE LockExecute(c)
    BY <2>2 DEF LockExecute, Get, Set
  <2>3. CASE LockReply(c)
    BY <2>3 DEF LockReply
  <2>4. CASE LockAgain(c) \/ LockError(c)
    BY <2>4 DEF LockAgain, LockError
  <2>5. CASE UnlockBegin(c) \/ UnlockAgain(c) \/ UnlockEnd(c)
    BY <2>5 DEF UnlockBegin, UnlockAgain, UnlockEnd
  <2>6. CASE UnlockExecute(c)
    BY <2>6 DEF UnlockExecute, Get, Delete
  <2>7. CASE LeaseEnds(c)
    BY <2>7 DEF LeaseEnds
  <2> QED
    BY <2>1, <2>2, <2>3, <2>4, <2>5, <2>6, <2>7
<1> QED
  BY <1>1 DEF TypeOK, authVars, Issued

LEMMA LockLeases ==
  ASSUME AInv, LockNext
  PROVE  LeaseIsEntry'
<1> USE AuthAssumption, RedisAssumption DEF LeaseIsEntry, Get
<1> SUFFICES ASSUME NEW c \in Lockers,
                    \/ \E r \in Resources : LockBegin(c, r)
                    \/ LockExecute(c) \/ LockReply(c) \/ LockAgain(c)
                    \/ LockError(c) \/ UnlockBegin(c) \/ UnlockExecute(c)
                    \/ UnlockAgain(c) \/ UnlockEnd(c) \/ LeaseEnds(c)
             PROVE  LeaseIsEntry'
  BY DEF LockNext
<1>0. RedisTypeOK /\ CallHasResource /\ LeaseIsEntry
  BY DEF AInv, TypeOK
<1>1. CASE \E r \in Resources : LockBegin(c, r)
  BY <1>0, <1>1 DEF LockBegin, RedisTypeOK
<1>2. CASE LockExecute(c)
  BY <1>0, <1>2 DEF LockExecute, Set, RedisTypeOK, CallHasResource
<1>3. CASE LockReply(c) \/ LockAgain(c) \/ LockError(c)
  BY <1>0, <1>3 DEF LockReply, LockAgain, LockError, RedisTypeOK
<1>4. CASE UnlockBegin(c) \/ UnlockAgain(c) \/ UnlockEnd(c)
  BY <1>0, <1>4 DEF UnlockBegin, UnlockAgain, UnlockEnd, RedisTypeOK
<1>5. CASE UnlockExecute(c)
  <2> DEFINE r == lock[c].on
  <2>1. r \in Resources /\ \A d \in Lockers : lock'[d].on = lock[d].on
                              /\ (lock'[d].pc = "new" => lock[d].pc = "new")
    BY <1>0, <1>5 DEF UnlockExecute, RedisTypeOK, CallHasResource
  <2>2. lease' \subseteq lease
    BY <1>5 DEF UnlockExecute
  <2>3. CASE store' = store
    BY <1>0, <1>5, <2>1, <2>2, <2>3 DEF UnlockExecute, RedisTypeOK
  <2>4. CASE store' # store
    <3>1. lock[c].token # NoToken /\ store' = [store EXCEPT ![r] = Absent]
      BY <1>0, <1>5, <2>1, <2>4 DEF UnlockExecute, Delete, RedisTypeOK
    <3>2. excused' \/ (~excused /\ c \in lease /\ maker[r] = c /\ c \notin lease')
      BY <1>0, <1>5, <3>1 DEF UnlockExecute, RedisTypeOK
    <3> QED
      BY <1>0, <1>5, <2>1, <2>2, <3>1, <3>2 DEF UnlockExecute, RedisTypeOK
  <2> QED
    BY <2>3, <2>4
<1>6. CASE LeaseEnds(c)
  BY <1>0, <1>6 DEF LeaseEnds, RedisTypeOK
<1> QED
  BY <1>1, <1>2, <1>3, <1>4, <1>5, <1>6

LEMMA LockInv ==
  ASSUME AInv, LockNext, UNCHANGED authVars
  PROVE  AInv'
<1>1. TypeOK' /\ CallHasResource'
  BY LockTypes DEF AInv
<1>2. \A i \in Ids : Get(i) = Absent => Get(i)' = Absent
  <2> SUFFICES ASSUME NEW i \in Ids, store[i] = Absent
               PROVE  store'[i] = Absent
    BY DEF Get
  <2>1. i \in Keys /\ i \notin Resources
    BY AuthAssumption
  <2>2. TypeOK /\ RedisTypeOK /\ CallHasResource
    BY DEF AInv, TypeOK
  <2> QED
    BY <2>1, <2>2
    DEF LockNext, LockBegin, LockExecute, LockReply, LockAgain, LockError,
        UnlockBegin, UnlockExecute, UnlockAgain, UnlockEnd, LeaseEnds,
        Set, Delete, RedisTypeOK, CallHasResource
<1>3. RevokedIsGone'
  BY <1>2 DEF RevokedIsGone, AInv, TypeOK, Issued, authVars
<1> QED
  BY <1>1, <1>3, LockLeases DEF AInv

-----------------------------------------------------------------------------
(* Tokens *)

\* Tokens and locks are apart: what writes entries of tokens only keeps the
\* leases.
LEMMA TokensApart ==
  ASSUME AInv, UNCHANGED lockVars,
         store' \in [Keys -> Values \cup {Absent, generateToken}],
         \A r \in Resources : store'[r] = store[r]
  PROVE  RedisTypeOK' /\ CallHasResource' /\ LeaseIsEntry'
<1>1. RedisTypeOK'
  BY DEF AInv, TypeOK, RedisTypeOK, lockVars
<1>2. CallHasResource'
  BY DEF AInv, CallHasResource, lockVars
<1>3. LeaseIsEntry'
  BY DEF AInv, LeaseIsEntry, lockVars, Get
<1> QED
  BY <1>1, <1>2, <1>3

LEMMA AuthInv ==
  ASSUME AInv, AuthNext
  PROVE  AInv'
<1> USE AuthAssumption, RedisAssumption
<1>0. TypeOK /\ RedisTypeOK /\ RevokedIsGone
  BY DEF AInv, TypeOK
<1>1. ASSUME NEW c \in Callers, NEW u \in Users, Login(c, u) PROVE AInv'
  <2>1. RedisTypeOK' /\ CallHasResource' /\ LeaseIsEntry'
    BY <1>0, <1>1, TokensApart DEF Login, RedisTypeOK
  <2> QED
    BY <1>0, <1>1, <2>1 DEF Login, AInv, TypeOK, Issued, RevokedIsGone, Get
<1>2. ASSUME NEW c \in Callers, NEW i \in Ids, Refresh(c, i) PROVE AInv'
  <2>1. RedisTypeOK' /\ CallHasResource' /\ LeaseIsEntry'
    BY <1>0, <1>2, TokensApart DEF Refresh, RedisTypeOK
  <2>2. Get(i) \in Users
    BY <1>0, <1>2 DEF Refresh, Get, TypeOK
  <2> QED
    BY <1>0, <1>2, <2>1, <2>2
    DEF Refresh, AInv, TypeOK, Issued, RevokedIsGone, Get
<1>3. ASSUME NEW c \in Callers, Generate(c) PROVE AInv'
  <2>1. PICK i \in Ids \ Issued :
          /\ token' = [token EXCEPT ![i] =
                        [user |-> call[c].user, from |-> call[c].from]]
          /\ live' = live \cup {i}
          /\ Set(i, call[c].user) \/ UNCHANGED store
    BY <1>3 DEF Generate
  <2>2. call[c].user \in Users /\ call[c].from \in Ids \cup {NoId}
    BY <1>0, <1>3 DEF Generate, TypeOK
  <2>3. store' \in [Keys -> Values \cup {Absent, generateToken}]
    BY <1>0, <2>1, <2>2 DEF Set, RedisTypeOK
  <2>4. \A k \in Keys : k # i => store'[k] = store[k]
    BY <1>0, <2>1 DEF Set, RedisTypeOK
  <2>5. RedisTypeOK' /\ CallHasResource' /\ LeaseIsEntry'
    BY <1>3, <2>1, <2>3, <2>4, TokensApart DEF Generate
  <2>6. \A j \in Ids : store'[j] \in Users \cup {Absent}
    BY <1>0, <2>1, <2>2, <2>4 DEF Set, TypeOK, RedisTypeOK
  <2>7. /\ token' \in [Ids -> [user : Users, from : Ids \cup {NoId}]
                                  \cup {NotIssued}]
        /\ Issued' = Issued \cup {i}
    BY <1>0, <2>1, <2>2 DEF TypeOK, Issued, NotIssued
  <2>8. /\ call' \in [Callers -> [pc : {"idle", "generate", "handler"},
                          user : Users \cup {Absent}, from : Ids \cup {NoId}]]
        /\ \A d \in Callers : IF call'[d].pc = "idle" THEN call'[d] = NoCall
                                 ELSE call'[d].user \in Users
    BY <1>0, <1>3 DEF Generate, NoCall, TypeOK
  <2>9. TypeOK'
    BY <1>0, <1>3, <2>1, <2>5, <2>6, <2>7, <2>8 DEF Generate, TypeOK
  <2>10. RevokedIsGone'
    BY <1>0, <1>3, <2>1, <2>4 DEF Generate, TypeOK, RevokedIsGone, Get, Issued
  <2> QED
    BY <2>5, <2>9, <2>10 DEF AInv
<1>4. ASSUME NEW i \in Ids, Revoke(i) \/ TokenExpires(i) \/ EntryExpires(i)
      PROVE  AInv'
  <2>1. store' = store \/ store' = [store EXCEPT ![i] = Absent]
    BY <1>4 DEF Revoke, TokenExpires, EntryExpires, Delete
  <2>2. store' \in [Keys -> Values \cup {Absent, generateToken}]
    BY <1>0, <2>1 DEF RedisTypeOK
  <2>3. \A k \in Keys : store'[k] = store[k] \/ (k = i /\ store'[k] = Absent)
    BY <1>0, <2>1 DEF RedisTypeOK
  <2>4. RedisTypeOK' /\ CallHasResource' /\ LeaseIsEntry'
    BY <1>4, <2>2, <2>3, TokensApart
    DEF Revoke, TokenExpires, EntryExpires, authVars
  <2>5. UNCHANGED <<token, call>> /\ live' \subseteq live
    BY <1>4 DEF Revoke, TokenExpires, EntryExpires, authVars
  <2>6. revoked' = revoked
          \/ (revoked' = revoked \cup {i} /\ i \in Issued /\ store'[i] = Absent)
    BY <1>0, <1>4
    DEF Revoke, TokenExpires, EntryExpires, authVars, Delete, RedisTypeOK
  <2>7. TypeOK'
    BY <1>0, <2>3, <2>4, <2>5, <2>6 DEF TypeOK, Issued
  <2>8. RevokedIsGone'
    BY <1>0, <2>3, <2>6 DEF RevokedIsGone, Get, TypeOK, Issued
  <2> QED
    BY <2>4, <2>7, <2>8 DEF AInv
<1>5. ASSUME NEW c \in Callers, NEW i \in Ids, Auth(c, i) PROVE AInv'
  <2>1. RedisTypeOK' /\ CallHasResource' /\ LeaseIsEntry'
    BY <1>0, <1>5, TokensApart DEF Auth, RedisTypeOK
  <2>2. token[i].user \in Users
    BY <1>0, <1>5 DEF Auth, Parse, Issued, TypeOK, NotIssued
  <2> QED
    BY <1>0, <1>5, <2>1, <2>2
    DEF Auth, AInv, TypeOK, Issued, RevokedIsGone, Get
<1>6. ASSUME NEW c \in Callers, HandlerReturns(c) PROVE AInv'
  <2>1. RedisTypeOK' /\ CallHasResource' /\ LeaseIsEntry'
    BY <1>0, <1>6, TokensApart DEF HandlerReturns, RedisTypeOK
  <2> QED
    BY <1>0, <1>6, <2>1
    DEF HandlerReturns, NoCall, AInv, TypeOK, Issued, RevokedIsGone, Get
<1> QED
  BY <1>1, <1>2, <1>3, <1>4, <1>5, <1>6 DEF AuthNext

LEMMA NextInv == AInv /\ [Next]_vars => AInv'
<1> SUFFICES ASSUME AInv, [Next]_vars PROVE AInv'
  OBVIOUS
<1>1. CASE AuthNext
  BY <1>1, AuthInv
<1>2. CASE LockNext /\ UNCHANGED authVars
  BY <1>2, LockInv
<1>3. CASE UNCHANGED vars
  BY <1>3 DEF vars, lockVars, authVars, AInv, TypeOK, RedisTypeOK, Issued,
              CallHasResource, LeaseIsEntry, RevokedIsGone, Get
<1> QED
  BY <1>1, <1>2, <1>3 DEF Next

-----------------------------------------------------------------------------
\* AInv holds in every run.
THEOREM Invariance == Spec => []AInv
<1>1. Init => AInv
  BY InitInv
<1>2. AInv /\ [Next]_vars => AInv'
  BY NextInv
<1> QED
  BY <1>1, <1>2, PTL DEF Spec

\* The variables keep their types.
THEOREM TypeCorrect == Spec => []TypeOK
<1>1. AInv => TypeOK
  BY DEF AInv
<1> QED
  BY <1>1, Invariance, PTL

\* The lock excludes until an Unlock is late or repeated, for any number of
\* callers and resources.
THEOREM LockExcludes == Spec => []LockIsExclusive
<1>1. AInv => LockIsExclusive
  BY DEF AInv, LeaseIsEntry, LockIsExclusive, Holds
<1> QED
  BY <1>1, Invariance, PTL

\* A revoked token is never refreshed again.
THEOREM RevokeIsFinal == Spec => RevokedIsFinal
<1>1. AInv /\ [Next]_vars =>
        [\A c \in Callers :
           call[c].pc = "idle" /\ call'[c].from \in Ids
             => call'[c].from \notin revoked]_vars
  <2> SUFFICES ASSUME AInv, Next, NEW c \in Callers, call[c].pc = "idle",
                      call'[c].from \in Ids, call'[c].from \in revoked
               PROVE  FALSE
    OBVIOUS
  <2>0. TypeOK /\ RevokedIsGone
    BY DEF AInv
  <2>1. call'[c] # call[c] /\ AuthNext
    <3>1. call[c].from = NoId
      BY <2>0 DEF TypeOK, NoCall
    <3> QED
      BY <3>1, AuthAssumption DEF Next, authVars
  <2>2. PICK i \in Ids : Refresh(c, i) /\ call'[c].from = i
    <3>1. call \in [Callers -> [pc : {"idle", "generate", "handler"},
                        user : Users \cup {Absent}, from : Ids \cup {NoId}]]
      BY <2>0 DEF TypeOK
    <3> QED
      BY <2>1, <3>1, AuthAssumption
      DEF AuthNext, Login, Refresh, Auth, HandlerReturns, Generate,
          Revoke, TokenExpires, EntryExpires, authVars, NoCall
  <2> QED
    BY <2>0, <2>2 DEF Refresh, RevokedIsGone
<1> QED
  BY <1>1, Invariance, PTL DEF Spec, RevokedIsFinal

-----------------------------------------------------------------------------
(* Lock implements Lease. *)

\* The entry of a resource was made by a call for that resource.
EntryHasMaker ==
  \A r \in Resources : Get(r) # Absent =>
    /\ maker[r] \in Lockers
    /\ lock[maker[r]].pc # "new" /\ lock[maker[r]].on = r

LEMMA MakerInit == Init => EntryHasMaker
BY AuthAssumption, RedisAssumption DEF Init, RedisInit, EntryHasMaker, Get

\* A call that has begun keeps its resource.
LEMMA LockStays ==
  ASSUME RedisTypeOK, LockNext
  PROVE  \A d \in Lockers : lock[d].pc # "new" =>
           lock'[d].pc # "new" /\ lock'[d].on = lock[d].on
<1> SUFFICES ASSUME NEW c \in Lockers,
                    \/ \E r \in Resources : LockBegin(c, r)
                    \/ LockExecute(c) \/ LockReply(c) \/ LockAgain(c)
                    \/ LockError(c) \/ UnlockBegin(c) \/ UnlockExecute(c)
                    \/ UnlockAgain(c) \/ UnlockEnd(c) \/ LeaseEnds(c)
             PROVE  \A d \in Lockers : lock[d].pc # "new" =>
                      lock'[d].pc # "new" /\ lock'[d].on = lock[d].on
  BY DEF LockNext
<1> USE DEF RedisTypeOK
<1>1. CASE \E r \in Resources : LockBegin(c, r)
  BY <1>1 DEF LockBegin
<1>2. CASE LockExecute(c)
  BY <1>2 DEF LockExecute
<1>3. CASE LockReply(c) \/ LockAgain(c) \/ LockError(c)
  BY <1>3 DEF LockReply, LockAgain, LockError
<1>4. CASE UnlockBegin(c) \/ UnlockExecute(c) \/ UnlockAgain(c) \/ UnlockEnd(c)
  BY <1>4 DEF UnlockBegin, UnlockExecute, UnlockAgain, UnlockEnd
<1>5. CASE LeaseEnds(c)
  BY <1>5 DEF LeaseEnds
<1> QED
  BY <1>1, <1>2, <1>3, <1>4, <1>5

\* What a step of the lock does to the entries: it makes one, takes one away,
\* or those of a call whose time has passed.
LEMMA EntrySteps ==
  ASSUME RedisTypeOK, CallHasResource, LockNext
  PROVE  \A r \in Resources :
           \/ store'[r] = Absent
           \/ store'[r] = store[r] /\ maker'[r] = maker[r]
           \/ \E c \in Lockers : /\ lock[c].pc # "new" /\ lock[c].on = r
                                /\ maker'[r] = c
<1> USE AuthAssumption, RedisAssumption
<1> SUFFICES ASSUME NEW c \in Lockers,
                    \/ \E r \in Resources : LockBegin(c, r)
                    \/ LockExecute(c) \/ LockReply(c) \/ LockAgain(c)
                    \/ LockError(c) \/ UnlockBegin(c) \/ UnlockExecute(c)
                    \/ UnlockAgain(c) \/ UnlockEnd(c) \/ LeaseEnds(c),
                    NEW r \in Resources
             PROVE  \/ store'[r] = Absent
                    \/ store'[r] = store[r] /\ maker'[r] = maker[r]
                    \/ \E d \in Lockers :
                         /\ lock[d].pc # "new" /\ lock[d].on = r
                         /\ maker'[r] = d
  BY DEF LockNext
<1>0. /\ r \in Keys /\ store \in [Keys -> Values \cup {Absent, generateToken}]
      /\ maker \in [Resources -> Lockers \cup {Absent}]
  BY DEF RedisTypeOK
<1>1. CASE \/ \E q \in Resources : LockBegin(c, q)
           \/ LockReply(c) \/ LockAgain(c) \/ LockError(c)
           \/ UnlockBegin(c) \/ UnlockAgain(c) \/ UnlockEnd(c)
  BY <1>1 DEF LockBegin, LockReply, LockAgain, LockError,
              UnlockBegin, UnlockAgain, UnlockEnd
<1>2. CASE LockExecute(c)
  <2>1. lock[c].pc # "new"
    BY <1>2 DEF LockExecute
  <2>2. CASE r = lock[c].on
    BY <1>0, <1>2, <2>1, <2>2 DEF LockExecute, Set
  <2>3. CASE r # lock[c].on
    BY <1>0, <1>2, <2>3 DEF LockExecute, Set
  <2> QED
    BY <2>2, <2>3
<1>3. CASE UnlockExecute(c)
  BY <1>0, <1>3 DEF UnlockExecute, Delete
<1>4. CASE LeaseEnds(c)
  BY <1>0, <1>4 DEF LeaseEnds
<1> QED
  BY <1>1, <1>2, <1>3, <1>4

\* Steps of the tokens leave the locks' entries alone.
LEMMA ResourcesApart ==
  ASSUME AInv, AuthNext
  PROVE  UNCHANGED lockVars /\ \A r \in Resources : store'[r] = store[r]
<1> USE AuthAssumption, RedisAssumption
<1>0. store \in [Keys -> Values \cup {Absent, generateToken}]
  BY DEF AInv, TypeOK, RedisTypeOK
<1>1. UNCHANGED lockVars
  BY DEF AuthNext, Login, Refresh, Auth, Generate, HandlerReturns, Revoke,
         TokenExpires, EntryExpires
<1>2. \/ store' = store
      \/ \E i \in Ids, v \in Users \cup {Absent} : store' = [store EXCEPT ![i] = v]
  <2>1. ASSUME NEW c \in Callers, Generate(c)
        PROVE  \/ store' = store
               \/ \E i \in Ids, v \in Users \cup {Absent} :
                    store' = [store EXCEPT ![i] = v]
    <3>1. call[c].user \in Users
      BY <2>1 DEF Generate, AInv, TypeOK
    <3> QED
      BY <2>1, <3>1 DEF Generate, Set
  <2>2. ASSUME NEW i \in Ids, Revoke(i) \/ EntryExpires(i)
        PROVE  store' = [store EXCEPT ![i] = Absent]
    BY <2>2 DEF Revoke, EntryExpires, Delete
  <2> QED
    BY <2>1, <2>2
    DEF AuthNext, Login, Refresh, Auth, HandlerReturns, TokenExpires
<1>3. \A r \in Resources : store'[r] = store[r]
  BY <1>0, <1>2
<1> QED
  BY <1>1, <1>3

LEMMA MakerNext == AInv /\ EntryHasMaker /\ [Next]_vars => EntryHasMaker'
<1> SUFFICES ASSUME AInv, EntryHasMaker, [Next]_vars PROVE EntryHasMaker'
  OBVIOUS
<1> USE DEF EntryHasMaker, Get
<1>1. CASE LockNext
  <2> SUFFICES ASSUME NEW r \in Resources, store'[r] # Absent
               PROVE  /\ maker'[r] \in Lockers
                      /\ lock'[maker'[r]].pc # "new" /\ lock'[maker'[r]].on = r
    OBVIOUS
  <2>0. RedisTypeOK /\ CallHasResource
    BY DEF AInv, TypeOK
  <2>1. PICK c \in Lockers : /\ lock[c].pc # "new" /\ lock[c].on = r
                             /\ maker'[r] = c
    BY <1>1, <2>0, EntrySteps
  <2> QED
    BY <1>1, <2>0, <2>1, LockStays
<1>2. CASE AuthNext
  BY <1>2, ResourcesApart DEF lockVars
<1>3. CASE UNCHANGED vars
  BY <1>3 DEF vars, lockVars
<1> QED
  BY <1>1, <1>2, <1>3 DEF Next

LInv == AInv /\ EntryHasMaker

LEMMA LInvariance == Spec => []LInv
<1>1. Init => EntryHasMaker
  BY MakerInit
<1>2. AInv /\ EntryHasMaker /\ [Next]_vars => EntryHasMaker'
  BY MakerNext
<1> QED
  BY <1>1, <1>2, Invariance, PTL DEF Spec, LInv

\* Who has a resource at the server: what the instance of Lease puts for owner.
Owner == [r \in Resources |-> IF Get(r) = Absent THEN Absent ELSE maker[r]]

\* An execution of SetNX is a Grant, or finds the resource taken.
LEMMA ExecuteGrants ==
  ASSUME LInv, NEW c \in Lockers, LockExecute(c)
  PROVE  Locks!Next \/ UNCHANGED <<Owner, lease, excused>>
<1> PICK r \in Resources : r = lock[c].on
  BY DEF LInv, AInv, CallHasResource, LockExecute
<1>0. RedisTypeOK /\ r \in Keys
  BY RedisAssumption DEF LInv, AInv, TypeOK
<1>1. CASE Get(r) # Absent
  BY <1>1 DEF LockExecute, Owner, Get
<1>2. CASE excused
  <2>1. excused'
    BY <1>2 DEF LockExecute
  <2> QED
    BY <2>1 DEF Locks!Next
<1>3. CASE Get(r) = Absent /\ ~excused
  <2>1. /\ store' = [store EXCEPT ![r] = generateToken]
        /\ maker' = [maker EXCEPT ![r] = c]
        /\ lease' = lease \cup {c} /\ excused' = excused
    BY <1>3 DEF LockExecute, Set
  <2>2. c \notin lease
    BY <1>3, RedisAssumption DEF LInv, AInv, LeaseIsEntry
  <2>3. Owner[r] = Absent
    BY <1>0, <1>3 DEF Owner
  <2>4. Owner' = [Owner EXCEPT ![r] = c]
    <3>1. store'[r] = generateToken /\ maker'[r] = c
      BY <1>0, <2>1 DEF RedisTypeOK
    <3>2. \A q \in Resources : q # r => store'[q] = store[q] /\ maker'[q] = maker[q]
      BY <1>0, <2>1, RedisAssumption DEF RedisTypeOK
    <3> QED
      BY <1>0, <3>1, <3>2, RedisAssumption DEF Owner, Get
  <2>5. Locks!Grant(c, r)
    BY <1>0, <2>1, <2>2, <2>3, <2>4 DEF Locks!Grant, Owner
  <2> QED
    BY <2>1, <2>5 DEF Locks!Next
<1> QED
  BY <1>1, <1>2, <1>3

\* The script of Unlock ends the lease of its caller, or does nothing, or is late.
LEMMA UnlockEnds ==
  ASSUME LInv, NEW c \in Lockers, UnlockExecute(c)
  PROVE  Locks!Next \/ UNCHANGED <<Owner, lease, excused>>
<1> DEFINE r == lock[c].on
<1>0. RedisTypeOK /\ r \in Resources /\ r \in Keys
  BY RedisAssumption DEF LInv, AInv, TypeOK, CallHasResource, UnlockExecute
<1>1. CASE excused'
  BY <1>1 DEF Locks!Next
<1>2. CASE lock[c].token = NoToken
  <2>1. store[r] \in {Absent, generateToken}
    BY <1>0 DEF RedisTypeOK
  <2>2. store' = store
    BY <1>2, <2>1, RedisAssumption DEF UnlockExecute, Get
  <2>3. maker' = maker /\ lease' = lease
    BY <1>2 DEF UnlockExecute
  <2>4. excused' = excused
    BY <1>0, <1>2 DEF UnlockExecute, RedisTypeOK
  <2> QED
    BY <2>2, <2>3, <2>4 DEF Owner, Get
<1>3. CASE ~excused' /\ lock[c].token # NoToken
  <2>1. ~excused /\ c \in lease
    BY <1>3 DEF UnlockExecute
  <2>2. store[r] = generateToken /\ maker[r] = c
    BY <2>1 DEF LInv, AInv, LeaseIsEntry, Get
  <2>3. lock[c].token = generateToken
    BY <1>0, <1>3 DEF RedisTypeOK
  <2>4. /\ store' = [store EXCEPT ![r] = Absent] /\ maker' = maker
        /\ lease' = lease \ {c}
    BY <1>3, <2>2, <2>3 DEF UnlockExecute, Get, Delete
  <2>5. excused' = excused
    BY <1>0, <1>3, <2>1 DEF RedisTypeOK, UnlockExecute
  <2>6. \A q \in Resources :
          Owner'[q] = IF Owner[q] = c THEN Absent ELSE Owner[q]
    <3> SUFFICES ASSUME NEW q \in Resources
                 PROVE  Owner'[q] = IF Owner[q] = c THEN Absent ELSE Owner[q]
      OBVIOUS
    <3>1. CASE q = r
      <4>1. store'[q] = Absent
        BY <1>0, <2>4, <3>1 DEF RedisTypeOK
      <4>2. Owner[q] = c
        BY <1>0, <2>2, <3>1, RedisAssumption DEF Owner, Get
      <4> QED
        BY <4>1, <4>2 DEF Owner, Get
    <3>2. CASE q # r
      <4>1. store'[q] = store[q]
        BY <1>0, <2>4, <3>2, RedisAssumption DEF RedisTypeOK
      <4>2. store[q] # Absent => maker[q] # c
        BY <3>2 DEF LInv, EntryHasMaker, Get
      <4> QED
        BY <2>4, <4>1, <4>2, RedisAssumption DEF Owner, Get
    <3> QED
      BY <3>1, <3>2
  <2>7. Owner' = [q \in Resources |-> IF Owner[q] = c THEN Absent ELSE Owner[q]]
    BY <2>6 DEF Owner
  <2>8. Locks!End(c)
    BY <2>1, <2>4, <2>7 DEF Locks!End, Owner
  <2> QED
    BY <2>5, <2>8 DEF Locks!Next
<1> QED
  BY <1>1, <1>2, <1>3

LEMMA TimeEnds ==
  ASSUME LInv, NEW c \in Lockers, LeaseEnds(c)
  PROVE  Locks!Next
<1>0. RedisTypeOK /\ Resources \subseteq Keys
  BY RedisAssumption DEF LInv, AInv, TypeOK
<1>1. \A q \in Resources :
        Owner'[q] = IF Owner[q] = c THEN Absent ELSE Owner[q]
  <2> SUFFICES ASSUME NEW q \in Resources
               PROVE  Owner'[q] = IF Owner[q] = c THEN Absent ELSE Owner[q]
    OBVIOUS
  <2>1. maker' = maker /\ store'[q] = IF maker[q] = c THEN Absent ELSE store[q]
    BY <1>0 DEF LeaseEnds
  <2> QED
    BY <2>1, RedisAssumption DEF Owner, Get
<1>2. Owner' = [q \in Resources |-> IF Owner[q] = c THEN Absent ELSE Owner[q]]
  BY <1>1 DEF Owner
<1>3. Locks!End(c)
  BY <1>2 DEF LeaseEnds, Locks!End, Owner
<1> QED
  BY <1>3 DEF LeaseEnds, Locks!Next

LEMMA LeaseStep ==
  LInv /\ [Next]_vars => [Locks!Next]_<<Owner, lease, excused>>
<1> SUFFICES ASSUME LInv, [Next]_vars
             PROVE  Locks!Next \/ UNCHANGED <<Owner, lease, excused>>
  OBVIOUS
<1>1. CASE LockNext
  <2>1. PICK c \in Lockers :
          \/ \E r \in Resources : LockBegin(c, r)
          \/ LockExecute(c) \/ LockReply(c) \/ LockAgain(c)
          \/ LockError(c) \/ UnlockBegin(c) \/ UnlockExecute(c)
          \/ UnlockAgain(c) \/ UnlockEnd(c) \/ LeaseEnds(c)
    BY <1>1 DEF LockNext
  <2>2. CASE LockExecute(c)
    BY <2>2, ExecuteGrants
  <2>3. CASE UnlockExecute(c)
    BY <2>3, UnlockEnds
  <2>4. CASE LeaseEnds(c)
    BY <2>4, TimeEnds
  <2>5. CASE \/ \E r \in Resources : LockBegin(c, r)
             \/ LockReply(c) \/ LockAgain(c) \/ LockError(c)
             \/ UnlockBegin(c) \/ UnlockAgain(c) \/ UnlockEnd(c)
    <3>1. UNCHANGED <<store, maker, lease, excused>>
      BY <2>5 DEF LockBegin, LockReply, LockAgain, LockError, UnlockBegin,
                  UnlockAgain, UnlockEnd
    <3> QED
      BY <3>1 DEF Owner, Get
  <2> QED
    BY <2>1, <2>2, <2>3, <2>4, <2>5
<1>2. CASE AuthNext
  <2>1. UNCHANGED lockVars /\ \A r \in Resources : store'[r] = store[r]
    BY <1>2, ResourcesApart DEF LInv
  <2> QED
    BY <2>1 DEF Owner, Get, lockVars
<1>3. CASE UNCHANGED vars
  BY <1>3 DEF vars, lockVars, Owner, Get
<1> QED
  BY <1>1, <1>2, <1>3 DEF Next

\* Lock implements Lease (redis.go:152-188): for any number of callers and
\* resources, the entry of a resource is made for one call when there is none,
\* and goes with that call's lease, next to whatever else uses the cache.
THEOREM LocksAreLeases == Spec => LockIsLease
<1>1. Init => Locks!Init
  BY AuthAssumption, RedisAssumption DEF Init, RedisInit, Locks!Init, Get
<1>2. LInv /\ [Next]_vars
        => [Locks!Next]_<<[r \in Resources |-> IF Get(r) = Absent THEN Absent
                                               ELSE maker[r]], lease, excused>>
  BY LeaseStep DEF Owner
<1> QED
  BY <1>1, <1>2, LInvariance, PTL DEF Spec, LockIsLease, Locks!Spec

-----------------------------------------------------------------------------
(* Refreshed tokens keep their user. *)

\* An entry holds the user of the token it was stored for,
EntryIsUser == \A i \in Ids : Get(i) # Absent => i \in Issued /\ Get(i) = token[i].user

\* and a Refresh on its way has read such an entry.
CallIsUser ==
  \A c \in Callers : call[c].pc = "generate" /\ call[c].from \in Ids =>
    call[c].from \in Issued /\ call[c].user = token[call[c].from].user

UserInv == EntryIsUser /\ CallIsUser /\ RefreshKeepsUser

LEMMA UserInit == Init => UserInv
<1> SUFFICES ASSUME Init PROVE UserInv
  OBVIOUS
<1>1. (\A i \in Ids : Get(i) = Absent) /\ Issued = {}
  BY AuthAssumption DEF Init, RedisInit, Get, Issued
<1>2. \A c \in Callers : call[c].pc = "idle"
  BY DEF Init, NoCall
<1> QED
  BY <1>1, <1>2 DEF UserInv, EntryIsUser, CallIsUser, RefreshKeepsUser

\* What issues nothing, makes no entry and begins no Refresh of another user.
LEMMA UserKept ==
  ASSUME UserInv, token' = token,
         \A i \in Ids : store'[i] \in {store[i], Absent},
         \A c \in Callers : \/ call'[c] = call[c] \/ call'[c].pc # "generate"
                            \/ call'[c].from \notin Ids
                            \/ /\ call'[c].from \in Issued
                               /\ call'[c].user = token[call'[c].from].user
  PROVE  UserInv'
<1>0. Issued' = Issued
  BY DEF Issued
<1>1. EntryIsUser'
  BY <1>0 DEF UserInv, EntryIsUser, Get
<1>2. CallIsUser'
  BY <1>0 DEF UserInv, CallIsUser
<1>3. RefreshKeepsUser'
  BY <1>0 DEF UserInv, RefreshKeepsUser
<1> QED
  BY <1>1, <1>2, <1>3 DEF UserInv

LEMMA UserLock ==
  ASSUME AInv, UserInv, LockNext, UNCHANGED authVars
  PROVE  UserInv'
<1>1. \A i \in Ids : store'[i] \in {store[i], Absent}
  <2> SUFFICES ASSUME NEW i \in Ids PROVE store'[i] \in {store[i], Absent}
    OBVIOUS
  <2>1. i \in Keys /\ i \notin Resources
    BY AuthAssumption
  <2>2. RedisTypeOK /\ CallHasResource
    BY DEF AInv, TypeOK
  <2>3. CASE UNCHANGED store
    BY <2>3
  <2>4. ASSUME NEW c \in Lockers, LockExecute(c) PROVE store'[i] \in {store[i], Absent}
    BY <2>1, <2>2, <2>4 DEF LockExecute, Set, RedisTypeOK, CallHasResource
  <2>5. ASSUME NEW c \in Lockers, UnlockExecute(c) PROVE store'[i] \in {store[i], Absent}
    BY <2>1, <2>2, <2>5 DEF UnlockExecute, Delete, RedisTypeOK, CallHasResource
  <2>6. ASSUME NEW c \in Lockers, LeaseEnds(c) PROVE store'[i] \in {store[i], Absent}
    BY <2>1, <2>2, <2>6 DEF LeaseEnds
  <2> QED
    BY <2>3, <2>4, <2>5, <2>6
    DEF LockNext, LockBegin, LockReply, LockAgain, LockError, UnlockBegin,
        UnlockAgain, UnlockEnd
<1> QED
  BY <1>1, UserKept DEF authVars

\* Generate issues a token that is not any Refresh's own, for the user it was
\* called for.
LEMMA UserGenerate ==
  ASSUME AInv, UserInv, NEW c \in Callers, Generate(c)
  PROVE  UserInv'
<1>0. TypeOK
  BY DEF AInv
<1>1. PICK i \in Ids \ Issued :
        /\ token' = [token EXCEPT ![i] =
                      [user |-> call[c].user, from |-> call[c].from]]
        /\ Set(i, call[c].user) \/ UNCHANGED store
  BY DEF Generate
<1>2. /\ call[c].pc = "generate" /\ call[c].user \in Users
      /\ call' = [call EXCEPT ![c] = NoCall]
  BY <1>0 DEF Generate, TypeOK
<1>3. /\ token'[i] = [user |-> call[c].user, from |-> call[c].from]
      /\ \A j \in Ids \ {i} : token'[j] = token[j]
  BY <1>0, <1>1 DEF TypeOK
<1>4. Issued' = Issued \cup {i}
  <2>1. token'[i] # NotIssued
    BY <1>2, <1>3, AuthAssumption DEF NotIssued
  <2> QED
    BY <1>3, <2>1 DEF Issued
<1>5. EntryIsUser'
  <2> SUFFICES ASSUME NEW j \in Ids, store'[j] # Absent
               PROVE  j \in Issued' /\ store'[j] = token'[j].user
    BY DEF EntryIsUser, Get
  <2>1. store[j] # Absent => j \in Issued /\ store[j] = token[j].user
    BY DEF UserInv, EntryIsUser, Get
  <2>2. CASE UNCHANGED store
    BY <1>3, <1>4, <2>1, <2>2
  <2>3. CASE Set(i, call[c].user)
    <3>1. store' = [store EXCEPT ![i] = call[c].user] /\ Ids \subseteq Keys
      BY <2>3, AuthAssumption DEF Set
    <3>2. store'[i] = call[c].user /\ (j # i => store'[j] = store[j])
      BY <1>0, <3>1 DEF TypeOK, RedisTypeOK
    <3> QED
      BY <1>3, <1>4, <2>1, <3>2
  <2> QED
    BY <1>1, <2>2, <2>3
<1>6. CallIsUser'
  <2> SUFFICES ASSUME NEW d \in Callers, call'[d].pc = "generate", call'[d].from \in Ids
               PROVE  /\ call'[d].from \in Issued'
                      /\ call'[d].user = token'[call'[d].from].user
    BY DEF CallIsUser
  <2>1. call'[d] = call[d]
    BY <1>0, <1>2 DEF TypeOK, NoCall
  <2>2. call[d].from \in Issued /\ call[d].user = token[call[d].from].user
    BY <2>1 DEF UserInv, CallIsUser
  <2> QED
    BY <1>1, <1>3, <1>4, <2>1, <2>2
<1>7. RefreshKeepsUser'
  <2> SUFFICES ASSUME NEW j \in Issued', token'[j].from \in Ids
               PROVE  /\ token'[j].from \in Issued'
                      /\ token'[token'[j].from].user = token'[j].user
    BY DEF RefreshKeepsUser
  <2>1. CASE j = i
    <3>1. call[c].from \in Issued /\ call[c].user = token[call[c].from].user
      BY <1>2, <1>3, <2>1 DEF UserInv, CallIsUser
    <3> QED
      BY <1>1, <1>3, <1>4, <2>1, <3>1
  <2>2. CASE j # i
    <3>1. j \in Issued /\ token'[j] = token[j]
      BY <1>3, <1>4, <2>2 DEF Issued
    <3>2. token[j].from \in Issued /\ token[token[j].from].user = token[j].user
      BY <3>1 DEF UserInv, RefreshKeepsUser
    <3> QED
      BY <1>1, <1>3, <1>4, <3>1, <3>2
  <2> QED
    BY <2>1, <2>2
<1> QED
  BY <1>5, <1>6, <1>7 DEF UserInv

LEMMA UserAuth ==
  ASSUME AInv, UserInv, AuthNext
  PROVE  UserInv'
<1>0. TypeOK
  BY DEF AInv
<1>1. ASSUME NEW c \in Callers, NEW u \in Users, Login(c, u) PROVE UserInv'
  <2>1. \A d \in Callers : call'[d] = call[d] \/ call'[d].from \notin Ids
    BY <1>0, <1>1, AuthAssumption DEF Login, TypeOK
  <2> QED
    BY <1>1, <2>1, UserKept DEF Login
<1>2. ASSUME NEW c \in Callers, NEW i \in Ids, Refresh(c, i) PROVE UserInv'
  <2>1. i \in Issued /\ Get(i) = token[i].user
    BY <1>2 DEF Refresh, UserInv, EntryIsUser
  <2>2. \A d \in Callers : \/ call'[d] = call[d]
                           \/ /\ call'[d].from = i
                              /\ call'[d].user = token[i].user
    BY <1>0, <1>2, <2>1 DEF Refresh, TypeOK
  <2> QED
    BY <1>2, <2>1, <2>2, UserKept DEF Refresh
<1>3. ASSUME NEW c \in Callers, Generate(c) PROVE UserInv'
  BY <1>3, UserGenerate
<1>4. ASSUME NEW i \in Ids, Revoke(i) \/ TokenExpires(i) \/ EntryExpires(i)
      PROVE  UserInv'
  <2>1. store' = store \/ store' = [store EXCEPT ![i] = Absent]
    BY <1>4 DEF Revoke, TokenExpires, EntryExpires, Delete
  <2>2. \A j \in Ids : store'[j] \in {store[j], Absent}
    BY <1>0, <2>1, AuthAssumption DEF TypeOK, RedisTypeOK
  <2>3. token' = token /\ call' = call
    BY <1>4 DEF Revoke, TokenExpires, EntryExpires, authVars
  <2> QED
    BY <2>2, <2>3, UserKept
<1>5. ASSUME NEW c \in Callers, NEW i \in Ids, Auth(c, i) PROVE UserInv'
  <2>1. \A d \in Callers : call'[d] = call[d] \/ call'[d].pc = "handler"
    BY <1>0, <1>5 DEF Auth, TypeOK
  <2> QED
    BY <1>5, <2>1, UserKept DEF Auth
<1>6. ASSUME NEW c \in Callers, HandlerReturns(c) PROVE UserInv'
  <2>1. \A d \in Callers : call'[d] = call[d] \/ call'[d].pc = "idle"
    BY <1>0, <1>6 DEF HandlerReturns, NoCall, TypeOK
  <2> QED
    BY <1>6, <2>1, UserKept DEF HandlerReturns
<1> QED
  BY <1>1, <1>2, <1>3, <1>4, <1>5, <1>6 DEF AuthNext

\* However often a token is refreshed, by whom and next to what, the new one is
\* for the same user (auth.go:105-126).
THEOREM RefreshesKeepUser == Spec => []RefreshKeepsUser
<1>1. Init => UserInv
  BY UserInit
<1>2. AInv /\ UserInv /\ [Next]_vars => UserInv'
  <2> SUFFICES ASSUME AInv, UserInv, [Next]_vars PROVE UserInv'
    OBVIOUS
  <2>1. CASE UNCHANGED vars
    BY <2>1 DEF vars, authVars, UserInv, EntryIsUser, CallIsUser,
                RefreshKeepsUser, Issued, Get
  <2> QED
    BY <2>1, UserAuth, UserLock DEF Next
<1>3. UserInv => RefreshKeepsUser
  BY DEF UserInv
<1> QED
  BY <1>1, <1>2, <1>3, Invariance, PTL DEF Spec
=============================================================================
