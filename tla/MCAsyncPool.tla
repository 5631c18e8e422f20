---------------------------- MODULE MCAsyncPool ----------------------------
(* Task a is submitted twice.  With one worker and a queue of one, the       *)
(* channel, the queue and the dispatcher's hand can all be full; with two    *)
(* workers the two copies of a race for its lock.                            *)
EXTENDS AsyncPool, TLC

CONSTANTS a, b, s1, s2, s3

MCTasks == {a, b}
MCMaxRetries == (a :> 0) @@ (b :> 1)
MCPriority == (a :> 1) @@ (b :> 0)
MCTaskOf == (s1 :> a) @@ (s2 :> a) @@ (s3 :> b)
MCNoRetries == (a :> 0) @@ (b :> 0)
MCSubmissions == {s1, s2, s3}
=============================================================================
