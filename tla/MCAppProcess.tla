---------------------------- MODULE MCAppProcess ----------------------------
(* Two handlers, of which one hangs, in either order of priority or with    *)
(* the same, and two calls of Execute, so that the second may come between  *)
(* any two steps of the first.  Two requests, so that one may end while     *)
(* another stays.                                                           *)
EXTENDS AppProcess

MCPriorities == {0, 1}
=============================================================================
