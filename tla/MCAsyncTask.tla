---------------------------- MODULE MCAsyncTask ----------------------------
(* Three tasks of the three shapes the retry loop distinguishes, two         *)
(* executors.                                                                *)
EXTENDS AsyncTask, TLC

CONSTANTS never, once, retried

MCTasks == {never, once, retried}
MCMaxRetries == (never :> -1) @@ (once :> 0) @@ (retried :> 2)
=============================================================================
