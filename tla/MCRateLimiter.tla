--------------------------- MODULE MCRateLimiter ---------------------------
(* Two clients, a limit of two in a window of one tick (closed at both ends, *)
(* as in the code), and time for a counter to be cleaned up and used again.  *)
EXTENDS RateLimiter
=============================================================================
