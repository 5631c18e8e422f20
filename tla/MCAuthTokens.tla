---------------------------- MODULE MCAuthTokens ----------------------------
(* Three calls of Lock for one resource beside one request that logs in,    *)
(* refreshes and revokes two tokens.                                        *)
EXTENDS AuthTokens, TLC

MCSymmetry ==
  Permutations(Lockers) \cup Permutations(Users) \cup Permutations(Ids)
    \cup Permutations(Callers)
=============================================================================
