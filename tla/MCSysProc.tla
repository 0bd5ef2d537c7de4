----------------------------- MODULE MCSysProc -----------------------------
(* SysProc with two processes, a clock that wraps after six ticks, and       *)
(* 4-bit addresses.                                                         *)
EXTENDS SysProc

MCPauses == {-1, 1, 3}
MCIncrements == {-4, -1, 0, 3}
=============================================================================
