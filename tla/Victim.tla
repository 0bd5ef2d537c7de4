------------------------------- MODULE Victim -------------------------------
(***************************************************************************)
(* select_victim() of work stealing/proc.c: a linear congruential          *)
(* generator on 32 bits, of which only the remainder by NCPU is used.      *)
(* NCPU is a power of two, so that the remainders of successive seeds are  *)
(* a generator of their own; here the seed is that remainder.  StealSched  *)
(* allows every victim at every draw, because the seed is shared by all    *)
(* harts; this module is about the draws of a hart that steals alone.      *)
(***************************************************************************)
EXTENDS Naturals

CONSTANT NCPU   \* elements of cpus[], a power of two

Seeds == 0..NCPU - 1

rand(seed) == (seed * (1103515245 % NCPU) + (12345 % NCPU)) % NCPU

\* The loop ends with the first draw that is not the hart itself; it is the
\* seed that the next call starts from, and the victim.
select_victim(id, seed) ==
    LET draw[n \in 0..NCPU] == IF n = 0 THEN seed ELSE rand(draw[n - 1])
        n == CHOOSE n \in 1..NCPU : draw[n] # id /\ \A m \in 1..n - 1 : draw[m] = id
    IN draw[n]

\* The victims of NCPU - 1 calls in a row: those of one iteration of
\* scheduler() that finds every queue empty.
Victims(id, seed) ==
    LET v[n \in 0..NCPU - 1] == IF n = 0 THEN seed ELSE select_victim(id, v[n - 1])
    IN {v[n] : n \in 1..NCPU - 1}
=============================================================================
