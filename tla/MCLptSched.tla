---------------------------- MODULE MCLptSched -----------------------------
(* LptSched on two machines: one hart with a list of up to three processes, *)
(* and two harts with two processes between them.                          *)
EXTENDS LptSched

CONSTANTS c1, c2

MCBoots == {[harts |-> {c1}, slots |-> 3], [harts |-> {c1, c2}, slots |-> 2]}
=============================================================================
