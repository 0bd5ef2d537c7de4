----------------------------- MODULE MCWaitExit -----------------------------
(* WaitExit on small process tables. *)
EXTENDS WaitExit
=============================================================================
