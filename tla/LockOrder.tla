------------------------------ MODULE LockOrder ------------------------------
(***************************************************************************)
(* The order in which the kernel takes its spinlocks (adaptive/proc.c,     *)
(* trap.c, sysproc.c; the other variants take the same locks, except that  *)
(* their scheduler() holds one p->lock at a time).                         *)
(*                                                                         *)
(* A CPU runs one critical section after another.  A section starts and    *)
(* ends with no spinlock held; interrupts are off in between (push_off),   *)
(* so nothing nests inside it.  What a section does to the data is in the  *)
(* other modules; here it is a sequence of three kinds of steps: acquires, *)
(* releases, and loops over proc[] that lock one slot after the other.     *)
(***************************************************************************)
EXTENDS Integers, Sequences

CONSTANTS CPU,      \* the harts
          Cpu0,     \* the one with cpuid() = 0
          NPROC,    \* number of slots in proc[]
          None      \* no process, no holder; not the number of a lock

ASSUME Cpu0Assumption == Cpu0 \in CPU
ASSUME NPROCAssumption == NPROC \in Nat \ {0}
ASSUME NoneAssumption == None \notin CPU /\ None \notin (-1)..NPROC

Proc == 1..NPROC

VARIABLES holder,   \* the CPU that holds a lock
          todo,     \* the rest of the section a CPU is in
          inner,    \* the slot whose lock the body of a loop over proc[] holds
          chosen,   \* scheduler(): the candidate, whose lock it holds
          myproc    \* the process a CPU is in

vars == <<holder, todo, inner, chosen, myproc>>

\* The locks are numbered in the order in which they should be taken.
wait_lock == -1
tickslock == 0
plock(q) == q

ProcLocks == {plock(q) : q \in Proc}
Locks == ProcLocks \cup {tickslock, wait_lock}

acquire(l) == [op |-> "acquire", lock |-> l]
release(l) == [op |-> "release", lock |-> l]

\* Loops that lock the slots of S in order, one after the other; in scan, the
\* lock of one may stay held until that of a later one replaces it, or to the end.
visit(S) == [op |-> "visit", slots |-> S]
scan(S) == [op |-> "scan", slots |-> S]

Touch(l) == <<acquire(l), release(l)>>

-----------------------------------------------------------------------------
(* The critical sections; p is myproc(), None in scheduler()               *)

\* allocproc(): the slot's lock is held over the reading of ticks.
AllocProc(q) ==
    <<acquire(plock(q)), acquire(tickslock), release(tickslock), release(plock(q))>>

\* Slip: np->lock is held over np->parent = p.
ForkLinkLocked(q) ==
    <<acquire(plock(q)), acquire(wait_lock), release(wait_lock), release(plock(q))>>

\* kfork(): np->parent = p, np->lock released before.
ForkLink(q) == Touch(wait_lock)

\* The loop of wakeup(): every slot but myproc().
Wakeup(p) == visit(Proc \ {p})

\* clockintr(), above whatever CPU 0 was doing.
ClockIntr(p) == <<acquire(tickslock), Wakeup(p), release(tickslock)>>

\* Slip: lk stays held.
SleepKeepsLock(p, lk) == Touch(plock(p))

\* sleep() with lk held, up to the scheduler's release of p->lock.
Sleep(p, lk) == <<acquire(plock(p)), release(lk), release(plock(p))>>

\* sys_pause(): killed(myproc()), then sleep(&ticks, &tickslock), or back.
Pause(p, sleeps) ==
    <<acquire(tickslock), visit({p})>>
        \o (IF sleeps THEN Sleep(p, tickslock) ELSE <<release(tickslock)>>)

\* Slip: p->lock is taken before the wakeups.
ExitLocksFirst(p, kids) ==
    <<acquire(wait_lock), acquire(plock(p)), Wakeup(p), release(wait_lock), release(plock(p))>>

\* kexit(): reparent() calls wakeup(initproc) for each of the kids, which
\* takes the same locks again; wakeup(p->parent); then as in sleep().
Exit(p, kids) ==
    <<acquire(wait_lock), visit(IF kids THEN Proc \ {p} ELSE {}), Wakeup(p)>>
        \o Sleep(p, wait_lock)

\* kwait() and waitx(): the lock of each child up to the first zombie; of p in
\* killed(p), which waitx() does not call; then sleep(p, &wait_lock), or back.
Wait(p, children, asks, sleeps) ==
    <<acquire(wait_lock), visit(children), visit(IF asks THEN {p} ELSE {})>>
        \o (IF sleeps THEN Sleep(p, wait_lock) ELSE <<release(wait_lock)>>)

\* scheduler(): takes every slot in order; a slot that beats the candidate
\* stays locked, and the last candidate's lock is released then.  The final
\* one's is released after the switch, by the process or on return.
Scan == <<scan(Proc)>>

\* What a CPU in process p, or in scheduler(), may start.  Touch(plock) is
\* kkill(), killed(), yield(), the end of kfork() and the slots that
\* allocproc() passes over; Touch(tickslock) is sys_uptime() and the tick
\* read at the start of kexit().
Sections(c, p) ==
    (IF c = Cpu0 THEN {ClockIntr(p)} ELSE {}) \cup
    (IF p = None
     THEN {Scan}
     ELSE {AllocProc(q) : q \in Proc \ {p}}
          \cup {Touch(plock(q)) : q \in Proc}
          \cup {ForkLink(q) : q \in Proc \ {p}}
          \cup {Touch(tickslock)}
          \cup {Pause(p, sleeps) : sleeps \in BOOLEAN}
          \cup {Exit(p, kids) : kids \in BOOLEAN}
          \cup {Wait(p, children, asks, sleeps) :
                    children \in SUBSET (Proc \ {p}), asks \in BOOLEAN, sleeps \in BOOLEAN})

-----------------------------------------------------------------------------
Init ==
    /\ holder = [l \in Locks |-> None]
    /\ todo = [c \in CPU |-> <<>>]
    /\ inner = [c \in CPU |-> None]
    /\ chosen = [c \in CPU |-> None]
    /\ myproc = [c \in CPU |-> None]

\* No process is on two CPUs (ProcCore).
Start(c) ==
    /\ todo[c] = <<>>
    /\ \E p \in {None} \cup (Proc \ {myproc[d] : d \in CPU \ {c}}) :
          /\ myproc' = [myproc EXCEPT ![c] = p]
          /\ \E s \in Sections(c, p) : todo' = [todo EXCEPT ![c] = s]
    /\ UNCHANGED <<holder, inner, chosen>>

At(c, op) == todo[c] # <<>> /\ Head(todo[c]).op = op

Looping(c) == At(c, "visit") \/ At(c, "scan")

Take(c, l) == holder[l] = None /\ holder' = [holder EXCEPT ![l] = c]

Drop(l) == holder' = [holder EXCEPT ![l] = None]

Acquire(c) ==
    /\ At(c, "acquire")
    /\ Take(c, Head(todo[c]).lock)
    /\ todo' = [todo EXCEPT ![c] = Tail(@)]
    /\ UNCHANGED <<inner, chosen, myproc>>

Release(c) ==
    /\ At(c, "release")
    /\ Drop(Head(todo[c]).lock)
    /\ todo' = [todo EXCEPT ![c] = Tail(@)]
    /\ UNCHANGED <<inner, chosen, myproc>>

\* The slots that the loop has yet to lock, and the first of them.
Ahead(c) == Head(todo[c]).slots

NextSlot(c, q) == q \in Ahead(c) /\ \A r \in Ahead(c) : q <= r

LoopAcquire(c) ==
    /\ Looping(c) /\ inner[c] = None
    /\ \E q \in Proc :
          /\ NextSlot(c, q)
          /\ Take(c, plock(q))
          /\ inner' = [inner EXCEPT ![c] = q]
          /\ todo' = [todo EXCEPT ![c] =
                        <<[Head(@) EXCEPT !.slots = Ahead(c) \ {q}]>> \o Tail(@)]
    /\ UNCHANGED <<chosen, myproc>>

LoopRelease(c) ==
    /\ Looping(c) /\ inner[c] # None
    /\ Drop(plock(inner[c]))
    /\ inner' = [inner EXCEPT ![c] = None]
    /\ UNCHANGED <<todo, chosen, myproc>>

\* The lock of the last candidate, if there is one, is released.
DropChosen(c) == IF chosen[c] = None THEN UNCHANGED holder ELSE Drop(plock(chosen[c]))

LoopKeep(c) ==
    /\ At(c, "scan") /\ inner[c] # None
    /\ DropChosen(c)
    /\ chosen' = [chosen EXCEPT ![c] = inner[c]]
    /\ inner' = [inner EXCEPT ![c] = None]
    /\ UNCHANGED <<todo, myproc>>

LoopEnd(c) ==
    /\ Looping(c) /\ inner[c] = None /\ Ahead(c) = {}
    /\ DropChosen(c)
    /\ chosen' = [chosen EXCEPT ![c] = None]
    /\ todo' = [todo EXCEPT ![c] = Tail(@)]
    /\ UNCHANGED <<inner, myproc>>

Next ==
    \E c \in CPU :
        \/ Start(c) \/ Acquire(c) \/ Release(c)
        \/ LoopAcquire(c) \/ LoopRelease(c) \/ LoopKeep(c) \/ LoopEnd(c)

Spec == Init /\ [][Next]_vars

-----------------------------------------------------------------------------
(* Properties                                                              *)

Held(c) == {l \in Locks : holder[l] = c}

\* The lock c spins on, as a set of at most one.
Wanted(c) ==
    {l \in Locks : \/ At(c, "acquire") /\ l = Head(todo[c]).lock
                   \/ Looping(c) /\ inner[c] = None /\ NextSlot(c, l)}

\* What c releases next, or with a later round of its loop.
Releasing(c) ==
    {l \in Locks : \/ At(c, "release") /\ l = Head(todo[c]).lock
                   \/ Looping(c) /\ l \in {inner[c], chosen[c]}}

\* Every CPU of D spins on a lock that a CPU of D holds.
Stuck(D) == D # {} /\ \A c \in D : \E l \in Wanted(c) : holder[l] \in D

\* acquire() panics on a lock the CPU holds already, and sched() on
\* releasing with more than p->lock: no section takes a lock twice, and what
\* it releases it holds.
LocksPaired ==
    \A c \in CPU :
        /\ Wanted(c) \cap Held(c) = {}
        /\ Releasing(c) \subseteq Held(c)
        /\ todo[c] = <<>> => Held(c) = {}

\* wait_lock "must be acquired before any p->lock".
WaitLockFirst == \A c \in CPU : wait_lock \in Wanted(c) => Held(c) = {}

\* The only way to a deadlock is allocproc() reading ticks: every cycle of
\* spinning CPUs has one that holds a p->lock and spins on tickslock.  In
\* particular the adaptive scan, two p->locks at a time, is harmless alone.
OnlyTicksDeadlock ==
    \A D \in SUBSET CPU : Stuck(D) =>
        \E c \in D : tickslock \in Wanted(c) /\ Held(c) \cap ProcLocks # {}

\* "... which prevents deadlock": no CPUs spin on each other's locks.
NoDeadlock == \A D \in SUBSET CPU : ~Stuck(D)
=============================================================================
