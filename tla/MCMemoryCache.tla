--------------------------- MODULE MCMemoryCache ---------------------------
(* Two keys and one client that reads; 0 and -1 are the integers, so that    *)
(* Incr and Decr cross the point where the text of a number grows; two short *)
(* items fit, a long one does not fit beside another.                        *)
EXTENDS MemoryCache

CONSTANTS k1, k2, text

MCNumbers == -1..0
MCKeySize == [k \in {k1, k2} |-> 1]
MCValueSize == [v \in MCNumbers \cup {text} |-> IF v = 0 THEN 1 ELSE 2]
=============================================================================
