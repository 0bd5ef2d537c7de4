------------------------------- MODULE Aging -------------------------------
(***************************************************************************)
(* The effective priority that scheduler() of adaptive/proc.c computes for *)
(* a process that has waited for a number of ticks.  The product is        *)
(* unsigned and wraps at 2^32, and is then converted to int.               *)
(*                                                                         *)
(* p->priority and p->estimated_runtime never differ from PRIORITY_DEFAULT *)
(* (every writer copies one into the other, starting from that value), so  *)
(* both are that constant here.                                            *)
(***************************************************************************)
EXTENDS Integers

CONSTANTS PRIORITY_DEFAULT, PRIORITY_MAX, PRIORITY_MIN, AGING_RATE,
          IntMax    \* 2^31 - 1

ASSUME PriorityAssumption ==
    /\ {PRIORITY_DEFAULT, PRIORITY_MAX, PRIORITY_MIN, AGING_RATE, IntMax} \subseteq Nat
    /\ AGING_RATE > 0
    /\ PRIORITY_MIN <= PRIORITY_DEFAULT /\ PRIORITY_DEFAULT <= PRIORITY_MAX
    /\ PRIORITY_MAX < IntMax

UintMod == 2 * (IntMax + 1)

\* (int) of a uint.
ToInt(x) == IF x > IntMax THEN x - UintMod ELSE x

\* (int)((uint)wait * AGING_RATE).
Boost(wait) == ToInt((wait * AGING_RATE) % UintMod)

\* The boost is the wait times the rate: 2^31 / AGING_RATE ticks, eight months
\* at ten ticks a second.
Fits(wait) == wait * AGING_RATE <= IntMax

\* Slip: p->priority itself is compared.
CurrPriNoAging(wait) == PRIORITY_DEFAULT

\* curr_pri.  For boosts close to -2^31 the difference is no int.  C leaves
\* that undefined; the 32-bit subtraction of the RISC-V build wraps.
CurrPri(wait) ==
    LET pri == ToInt((PRIORITY_DEFAULT - Boost(wait)) % UintMod)
    IN IF pri < PRIORITY_MIN THEN PRIORITY_MIN ELSE pri
=============================================================================
