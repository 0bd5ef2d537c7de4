------------------------------ MODULE UserMem ------------------------------
(***************************************************************************)
(* The arithmetic on user addresses: p->sz and addresses are unsigned      *)
(* 64-bit numbers, the increment of sbrk() is a signed int.  uvmalloc() and *)
(* uvmdealloc() are in vm.c, which is not in the repository.               *)
(***************************************************************************)
EXTENDS Integers

CONSTANTS UintMod,      \* 2^64
          IntMax,       \* 2^31 - 1
          TRAPFRAME,    \* the first address above user memory
          Word          \* sizeof(uint64)

\* The address space is far smaller than 2^64, so that no single int carries
\* a size over it.
ASSUME UserMemAssumption ==
    /\ UintMod \in Nat /\ IntMax \in Nat /\ TRAPFRAME \in Nat /\ Word \in Nat \ {0}
    /\ TRAPFRAME + IntMax + 1 < UintMod
    /\ Word <= IntMax

CInt == (-IntMax - 1)..IntMax

\* One unsigned addition or subtraction, which wraps at most once.
Uint(x) ==
    IF x < 0 THEN x + UintMod ELSE IF x >= UintMod THEN x - UintMod ELSE x

\* A system call that returns -1, or one that returns with the size sz.
Failed(sz) == [ok |-> FALSE, sz |-> sz]
Done(sz) == [ok |-> TRUE, sz |-> sz]

\* Shrinks to newsz; a newsz that is not below oldsz is ignored.
Uvmdealloc(oldsz, newsz) == IF newsz >= oldsz THEN oldsz ELSE newsz

\* growproc(): the outcomes, since uvmalloc() may run out of memory.
Growproc(sz, n) ==
    IF n > 0
    THEN {Failed(sz)} \cup (IF Uint(sz + n) > TRAPFRAME THEN {} ELSE {Done(Uint(sz + n))})
    ELSE {Done(IF n < 0 THEN Uvmdealloc(sz, Uint(sz + n)) ELSE sz)}

\* sys_sbrk(n, t): grows eagerly or lazily, shrinks eagerly always.
Sbrk(sz, n, eager) ==
    IF eager \/ n < 0
    THEN Growproc(sz, n)
    ELSE IF Uint(sz + n) < sz \/ Uint(sz + n) > TRAPFRAME
         THEN {Failed(sz)}
         ELSE {Done(Uint(sz + n))}

\* Slip: "addr >= p->sz" looks redundant.
FetchaddrOneTest(addr, sz) == ~(Uint(addr + Word) > sz)

\* fetchaddr(): the address passes both tests.
Fetchaddr(addr, sz) == ~(addr >= sz \/ Uint(addr + Word) > sz)
=============================================================================
