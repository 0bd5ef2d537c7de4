-------------------------------- MODULE Ring --------------------------------
(***************************************************************************)
(* The ring buffer of struct cpu (work stealing/proc.h, proc.c): what      *)
(* push_back, pop_front and pop_back do to front, rear and queue[], and    *)
(* the sequence that a ring stands for.  StealSched works on the sequence. *)
(***************************************************************************)
EXTENDS Integers, Sequences

CONSTANT MAX_TASKS      \* slots of a ring; one stays empty

\* A ring of one slot would hold nothing, not even the first process.
ASSUME MaxTasksAssumption == MAX_TASKS \in Nat \ {0, 1}

Slots == 0..MAX_TASKS - 1

\* Every ring over entries of S, the leftovers in the unused slots included.
Rings(S) == [front : Slots, rear : Slots, slot : [Slots -> S]]

Up(i) == (i + 1) % MAX_TASKS

Down(i) == (i - 1 + MAX_TASKS) % MAX_TASKS

RingFull(r) == Up(r.rear) = r.front

RingEmpty(r) == r.front = r.rear

\* A push on a full ring returns without a word.
RingPush(r, p) ==
    IF RingFull(r) THEN r
    ELSE [r EXCEPT !.slot = [@ EXCEPT ![r.rear] = p], !.rear = Up(r.rear)]

\* The popped entry, and the ring without it.
FrontEntry(r) == r.slot[r.front]
DropFront(r) == [r EXCEPT !.front = Up(@)]

BackEntry(r) == r.slot[Down(r.rear)]
DropBack(r) == [r EXCEPT !.rear = Down(@)]

\* The entries from front to rear, across the end of queue[].
Size(r) == (r.rear - r.front + MAX_TASKS) % MAX_TASKS

Contents(r) == [i \in 1..Size(r) |-> r.slot[(r.front + i - 1) % MAX_TASKS]]
=============================================================================
