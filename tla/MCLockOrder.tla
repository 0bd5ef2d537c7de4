---------------------------- MODULE MCLockOrder -----------------------------
(* LockOrder on small instances. *)
EXTENDS LockOrder
=============================================================================
