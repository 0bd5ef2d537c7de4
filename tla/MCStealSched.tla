---------------------------- MODULE MCStealSched ----------------------------
(* StealSched on small instances. *)
EXTENDS StealSched

CpuSymmetry == Permutations(CPU)

\* Before a run: every ring of MAX_TASKS slots, wherever it starts and
\* whatever its unused slots hold, does what the queue of StealSched does.
ASSUME RingIsQueue ==
    \A r \in Rings(Proc) :
        LET q == Contents(r)
        IN  /\ RingFull(r) <=> Len(q) = MAX_TASKS - 1
            /\ RingEmpty(r) <=> q = <<>>
            /\ \A p \in Proc :
                  Contents(RingPush(r, p)) = IF RingFull(r) THEN q ELSE Append(q, p)
            /\ q # <<>> =>
                  /\ FrontEntry(r) = Head(q) /\ Contents(DropFront(r)) = Tail(q)
                  /\ BackEntry(r) = Last(q) /\ Contents(DropBack(r)) = Front(q)

\* Before a run: with NCPU = 8 a hart that steals alone tries every other
\* element of cpus[] once, whatever the seed: the short period of the low
\* bits is just long enough.
V == INSTANCE Victim WITH NCPU <- 8

ASSUME EveryVictimTried ==
    \A id, seed \in V!Seeds : V!Victims(id, seed) = V!Seeds \ {id}
=============================================================================
