---------------------------- MODULE AuthTokens ----------------------------
(***************************************************************************)
(* The refresh tokens of src/pkg/auth/auth.go over RedisCache, beside the  *)
(* application's own use of the cache's lock: Generate, Refresh, Revoke,   *)
(* and the middleware that parses the access token issued with it.         *)
(*                                                                         *)
(* A pair of tokens is its ID; what is signed into it (the user, the       *)
(* expiry) is what `token' and `live' say.  Its entry in the cache, under  *)
(* the same ID, is what Revoke deletes.  Keys of tokens and of locks       *)
(* differ by their prefixes.  Signing and verifying are the library's and  *)
(* succeed.                                                                *)
(***************************************************************************)
EXTENDS RedisCache

CONSTANTS
  Ids,          \* IDs of refresh tokens, as many as may be issued
  Users,
  Callers,      \* goroutines of requests
  NoId          \* claims.ID of an access token, and of no token

VARIABLES
  token,        \* [Ids -> the user a token was issued to, and from which token]
  live,         \* refresh tokens before their ExpiresAt
  call,         \* [Callers -> where the call stands]
  revoked       \* history: tokens for which a Revoke has returned nil

authVars == <<token, live, call, revoked>>
vars == <<store, lockVars, authVars>>

NotIssued == [user |-> Absent, from |-> NoId]
NoCall == [pc |-> "idle", user |-> Absent, from |-> NoId]

ASSUME AuthAssumption ==
  /\ Ids \subseteq Keys /\ Ids \cap Resources = {}
  /\ Users \subseteq Values /\ Absent \notin Users
  /\ NoId \notin Ids

Issued == {i \in Ids : token[i] # NotIssued}

Init ==
  /\ RedisInit
  /\ token = [i \in Ids |-> NotIssued]
  /\ live = {} /\ revoked = {}
  /\ call = [c \in Callers |-> NoCall]

-----------------------------------------------------------------------------
\* A login calls Generate for its user,
Login(c, u) ==
  /\ call[c].pc = "idle"
  /\ call' = [call EXCEPT ![c] = [pc |-> "generate", user |-> u, from |-> NoId]]
  /\ UNCHANGED <<store, lockVars, token, live, revoked>>

\* Refresh for the user found under the token's ID.  A token that is too old,
\* an error and a missing entry end it; so does the empty ID of an access
\* token, under which nothing is stored.
Refresh(c, i) ==
  /\ call[c].pc = "idle"
  /\ i \in live /\ Get(i) # Absent
  /\ call' = [call EXCEPT ![c] =
               [pc |-> "generate", user |-> Get(i), from |-> i]]
  /\ UNCHANGED <<store, lockVars, token, live, revoked>>

\* Generate: a new ID, whose entry may fail to be stored, which is ignored.
GenerateAgain(c) ==             \* mutant: a refresh renews its token's entry
  /\ call[c].pc = "generate"
  /\ \E i \in Ids \ Issued :
       /\ token' = [token EXCEPT ![i] =
                     [user |-> call[c].user, from |-> call[c].from]]
       /\ live' = live \cup {i}
       /\ \E stored \in SUBSET {i, call[c].from} :
            store' = [k \in Keys |-> IF k \in stored THEN call[c].user
                                     ELSE store[k]]
  /\ call' = [call EXCEPT ![c] = NoCall]
  /\ UNCHANGED <<lockVars, revoked>>

Generate(c) ==
  /\ call[c].pc = "generate"
  /\ \E i \in Ids \ Issued :
       /\ token' = [token EXCEPT ![i] =
                     [user |-> call[c].user, from |-> call[c].from]]
       /\ live' = live \cup {i}
       /\ Set(i, call[c].user) \/ UNCHANGED store
  /\ call' = [call EXCEPT ![c] = NoCall]
  /\ UNCHANGED <<lockVars, revoked>>

\* Delete of the entry; an error says nothing of whether it was deleted.
Revoke(i) ==
  /\ i \in Issued
  /\ \/ Delete(i) /\ revoked' = revoked \cup {i}
     \/ Delete(i) /\ UNCHANGED revoked
  /\ UNCHANGED <<lockVars, token, live, call>>

\* Time: a token expires, and after it the entry that was stored later.
TokenExpires(i) ==
  /\ i \in live
  /\ live' = live \ {i}
  /\ UNCHANGED <<store, lockVars, token, call, revoked>>

EntryExpires(i) ==
  /\ i \in Issued \ live
  /\ Delete(i)
  /\ UNCHANGED <<lockVars, authVars>>

-----------------------------------------------------------------------------
\* The middleware: a request with a valid access token reaches its handler with
\* the token's user, whatever has become of the refresh token; another ends.
\* Whether the access token is before its ExpiresAt is left open.
Parse(i) == i \in Issued

Auth(c, i) ==
  /\ call[c].pc = "idle" /\ Parse(i)
  /\ call' = [call EXCEPT ![c] =
               [pc |-> "handler", user |-> token[i].user, from |-> NoId]]
  /\ UNCHANGED <<store, lockVars, token, live, revoked>>

HandlerReturns(c) ==
  /\ call[c].pc = "handler"
  /\ call' = [call EXCEPT ![c] = NoCall]
  /\ UNCHANGED <<store, lockVars, token, live, revoked>>

AuthNext ==
  \/ \E c \in Callers :
       \/ \E u \in Users : Login(c, u)
       \/ \E i \in Ids : Refresh(c, i) \/ Auth(c, i)
       \/ Generate(c) \/ HandlerReturns(c)
  \/ \E i \in Ids : Revoke(i) \/ TokenExpires(i) \/ EntryExpires(i)

Next == AuthNext \/ (LockNext /\ UNCHANGED authVars)

Spec == Init /\ [][Next]_vars

-----------------------------------------------------------------------------
(* Properties *)

TypeOK ==
  /\ RedisTypeOK
  /\ \A i \in Ids : store[i] \in Users \cup {Absent}
  /\ token \in [Ids -> [user : Users, from : Ids \cup {NoId}] \cup {NotIssued}]
  /\ live \subseteq Issued /\ revoked \subseteq Issued
  /\ call \in [Callers -> [pc : {"idle", "generate", "handler"},
                           user : Users \cup {Absent}, from : Ids \cup {NoId}]]
  /\ \A c \in Callers : IF call[c].pc = "idle" THEN call[c] = NoCall
                         ELSE call[c].user \in Users

\* A refresh issues tokens for the user its token was issued to: identities do
\* not mix along a chain of refreshes, whatever was revoked or has expired.
RefreshKeepsUser ==
  \A i \in Issued :
    token[i].from \in Ids =>
      token[i].from \in Issued /\ token[token[i].from].user = token[i].user

\* Revoke is final: once it has returned nil, no Refresh of the token succeeds
\* that had not looked it up before, whatever is issued meanwhile.
RevokedIsFinal ==
  [][\A c \in Callers :
       call[c].pc = "idle" /\ call'[c].from \in Ids
         => call'[c].from \notin revoked]_vars
=============================================================================
