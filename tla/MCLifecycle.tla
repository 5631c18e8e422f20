---------------------------- MODULE MCLifecycle ----------------------------
(* One worker is enough for a second Stop to close a closed channel; two    *)
(* requests, so that one may end while another stays.                       *)
EXTENDS Lifecycle
=============================================================================
