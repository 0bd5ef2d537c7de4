-------------------------- MODULE MCAdaptiveSched ---------------------------
(* AdaptiveSched with priorities and int scaled down.                     *)
EXTENDS AdaptiveSched
=============================================================================
