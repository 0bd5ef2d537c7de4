------------------------------ MODULE WaitExit ------------------------------
(***************************************************************************)
(* fork, exit, wait, waitx and kill (adaptive/proc.c; lpt and work stealing *)
(* have the same code): how a parent and its children meet under wait_lock *)
(* and the p->locks, through sleep() and wakeup().                         *)
(*                                                                         *)
(* Which CPU runs whom is left to ProcCore: RUNNABLE here is RUNNABLE or   *)
(* RUNNING, and any such process may take its next step.  What remains of  *)
(* the switch is that sleep() and kexit() leave p->lock held until the     *)
(* scheduler, on its own stack, releases it (Switched).  Steps that no     *)
(* other process can tell apart are one action; an acquire() is a guard.   *)
(*                                                                         *)
(* The only sleep is the one in wait(), on the channel p; a process that   *)
(* sleeps on anything else counts as executing outside these functions.    *)
(* So wakeup(chan) concerns the slot chan alone and is one step.           *)
(***************************************************************************)
EXTENDS Naturals, FiniteSets

CONSTANTS NPROC,    \* number of slots in proc[]
          None      \* null pointer, no holder

ASSUME NPROCAssumption == NPROC \in Nat \ {0}
ASSUME NoneAssumption == None \notin 1..NPROC

Proc == 1..NPROC
initproc == 1

VARIABLES
    state,      \* p->state, RUNNING counted as RUNNABLE
    parent,     \* p->parent
    killed,     \* p->killed
    wait_lock,  \* the process that holds wait_lock
    lock,       \* the process that holds p->lock across steps
    pc,         \* where the process is, see Pcs
    child       \* np of a kfork() under way

vars == <<state, parent, killed, wait_lock, lock, pc, child>>

States == {"UNUSED", "USED", "SLEEPING", "RUNNABLE", "ZOMBIE"}

\* free:   the slot is not in use, or its process has not started
\* run:    outside the functions below
\* fork_*: kfork(), before np->parent = p, before np->state = RUNNABLE
\* exit_*: kexit(), holding wait_lock: in reparent(), before ZOMBIE
\* gone:   ZOMBIE, still on its stack
\* wait_*: kwait() or waitx(), holding wait_lock: before the scan, before
\*         sleep() takes p->lock, before it releases wait_lock
\* asleep: in sched() called by sleep(), or woken since
Pcs == {"free", "run", "fork_link", "fork_ready",
        "exit_reparent", "exit_zombie", "gone",
        "wait_scan", "wait_sleep", "wait_release", "asleep"}

WaitTypeOK ==
    /\ state \in [Proc -> States]
    /\ parent \in [Proc -> Proc \cup {None}]
    /\ killed \in [Proc -> BOOLEAN]
    /\ wait_lock \in Proc \cup {None}
    /\ lock \in [Proc -> Proc \cup {None}]
    /\ pc \in [Proc -> Pcs]
    /\ child \in [Proc -> Proc \cup {None}]
    /\ \A p \in Proc : child[p] # None <=> pc[p] \in {"fork_link", "fork_ready"}

Init ==
    /\ state = [p \in Proc |-> IF p = initproc THEN "RUNNABLE" ELSE "UNUSED"]
    /\ parent = [p \in Proc |-> None]
    /\ killed = [p \in Proc |-> FALSE]
    /\ wait_lock = None
    /\ lock = [p \in Proc |-> None]
    /\ pc = [p \in Proc |-> IF p = initproc THEN "run" ELSE "free"]
    /\ child = [p \in Proc |-> None]

Children(p) == {q \in Proc : parent[q] = p}

\* q is the slot of S that a loop over proc[] comes to first.
First(q, S) == q \in S /\ \A r \in S : q <= r

\* p executes at s.  A process that was woken executes once the scheduler
\* can take its lock; all others hold it themselves or nobody does.
At(p, s) == pc[p] = s /\ state[p] = "RUNNABLE"

Goto(p, s) == pc' = [pc EXCEPT ![p] = s]

\* wakeup(q), by a process other than q.
wakeup(q) ==
    /\ lock[q] = None
    /\ state' = [state EXCEPT ![q] = IF @ = "SLEEPING" THEN "RUNNABLE" ELSE @]

-----------------------------------------------------------------------------
(* kfork()                                                                 *)

\* usertrap() starts no system call for a process that is already killed.
\* allocproc() and the copying, np->lock held throughout.
Fork(p, q) ==
    /\ At(p, "run") /\ ~killed[p]
    /\ lock[q] = None /\ state[q] = "UNUSED"
    /\ state' = [state EXCEPT ![q] = "USED"]
    /\ child' = [child EXCEPT ![p] = q]
    /\ Goto(p, "fork_link")
    /\ UNCHANGED <<parent, killed, wait_lock, lock>>

\* acquire(&wait_lock); np->parent = p; release(&wait_lock).
ForkLink(p) ==
    /\ At(p, "fork_link")
    /\ wait_lock = None
    /\ parent' = [parent EXCEPT ![child[p]] = p]
    /\ Goto(p, "fork_ready")
    /\ UNCHANGED <<state, killed, wait_lock, lock, child>>

\* Slip: np is not forgotten.
ForkReadyKeepsChild(p) ==
    /\ At(p, "fork_ready")
    /\ lock[child[p]] = None
    /\ state' = [state EXCEPT ![child[p]] = "RUNNABLE"]
    /\ pc' = [pc EXCEPT ![p] = "run", ![child[p]] = "run"]
    /\ UNCHANGED <<parent, killed, wait_lock, lock, child>>

ForkReady(p) ==
    /\ At(p, "fork_ready")
    /\ lock[child[p]] = None
    /\ state' = [state EXCEPT ![child[p]] = "RUNNABLE"]
    /\ pc' = [pc EXCEPT ![p] = "run", ![child[p]] = "run"]
    /\ child' = [child EXCEPT ![p] = None]
    /\ UNCHANGED <<parent, killed, wait_lock, lock>>

-----------------------------------------------------------------------------
(* kexit() and reparent()                                                  *)

\* The files are closed; acquire(&wait_lock).
Exit(p) ==
    /\ At(p, "run") /\ p # initproc
    /\ wait_lock = None
    /\ wait_lock' = p
    /\ Goto(p, "exit_reparent")
    /\ UNCHANGED <<state, parent, killed, lock, child>>

\* Slip: init is not told of the children it gets.
ReparentSilently(p) ==
    /\ At(p, "exit_reparent")
    /\ \E q \in Proc : /\ First(q, Children(p))
                       /\ parent' = [parent EXCEPT ![q] = initproc]
    /\ UNCHANGED <<state, killed, wait_lock, lock, pc, child>>

\* One child of the loop in reparent(): to init, and wakeup(initproc).
Reparent(p) ==
    /\ At(p, "exit_reparent")
    /\ \E q \in Proc : /\ First(q, Children(p))
                       /\ parent' = [parent EXCEPT ![q] = initproc]
    /\ wakeup(initproc)
    /\ UNCHANGED <<killed, wait_lock, lock, pc, child>>

\* Slip: reparent() stops before the last child.
ExitWakeEarly(p) ==
    /\ At(p, "exit_reparent")
    /\ Cardinality(Children(p)) <= 1
    /\ wakeup(parent[p])
    /\ Goto(p, "exit_zombie")
    /\ UNCHANGED <<parent, killed, wait_lock, lock, child>>

\* reparent() is done: wakeup(p->parent).
ExitWake(p) ==
    /\ At(p, "exit_reparent")
    /\ Children(p) = {}
    /\ wakeup(parent[p])
    /\ Goto(p, "exit_zombie")
    /\ UNCHANGED <<parent, killed, wait_lock, lock, child>>

\* acquire(&p->lock); ZOMBIE; release(&wait_lock); sched().
ExitZombie(p) ==
    /\ At(p, "exit_zombie")
    /\ lock[p] = None
    /\ lock' = [lock EXCEPT ![p] = p]
    /\ state' = [state EXCEPT ![p] = "ZOMBIE"]
    /\ wait_lock' = None
    /\ Goto(p, "gone")
    /\ UNCHANGED <<parent, killed, child>>

\* The scheduler is off p's stack and releases p->lock.
Switched(p) ==
    /\ lock[p] = p
    /\ \/ /\ pc[p] = "gone"
          /\ Goto(p, "free")
       \/ /\ pc[p] = "asleep"
          /\ UNCHANGED pc
    /\ lock' = [lock EXCEPT ![p] = None]
    /\ UNCHANGED <<state, parent, killed, wait_lock, child>>

-----------------------------------------------------------------------------
(* kwait() and waitx()                                                     *)

\* acquire(&wait_lock).
Wait(p) ==
    /\ At(p, "run") /\ ~killed[p]
    /\ wait_lock = None
    /\ wait_lock' = p
    /\ Goto(p, "wait_scan")
    /\ UNCHANGED <<state, parent, killed, lock, child>>

\* Slip: whose child it is is not looked at.
ZombiesOfAll(p) == {q \in Proc : state[q] = "ZOMBIE"}

Zombies(p) == {q \in Children(p) : state[q] = "ZOMBIE"}

WaitReturn(p) ==
    /\ wait_lock' = None
    /\ Goto(p, "run")

freeproc(q) ==
    /\ state' = [state EXCEPT ![q] = "UNUSED"]
    /\ parent' = [parent EXCEPT ![q] = None]
    /\ killed' = [killed EXCEPT ![q] = FALSE]

\* Slip: the scan does not take the children's locks.
ScanUnlocked(p) == TRUE

\* The scan is one step: parent links and the step to ZOMBIE are guarded by
\* wait_lock.  It takes the lock of every child up to the first zombie.
ScanLocksFree(p) ==
    \A q \in Children(p) : (\A z \in Zombies(p) : q <= z) => lock[q] = None

\* The first zombie is reported and freed.
WaitReap(p) ==
    /\ At(p, "wait_scan")
    /\ ScanLocksFree(p)
    /\ \E q \in Proc : First(q, Zombies(p)) /\ freeproc(q)
    /\ WaitReturn(p)
    /\ UNCHANGED <<lock, child>>

\* copyout() fails: kwait() returns -1 and keeps the child, waitx() does
\* not look at the result.  Up to here the two calls are the same.
WaitFault(p) ==
    /\ At(p, "wait_scan")
    /\ Zombies(p) # {} /\ ScanLocksFree(p)
    /\ \/ UNCHANGED <<state, parent, killed>>
       \/ \E q \in Proc : First(q, Zombies(p)) /\ freeproc(q)
    /\ WaitReturn(p)
    /\ UNCHANGED <<lock, child>>

\* No child, or no zombie and killed: return -1.
WaitFail(p) ==
    /\ At(p, "wait_scan")
    /\ Zombies(p) = {} /\ ScanLocksFree(p)
    /\ Children(p) = {} \/ (lock[p] = None /\ killed[p])
    /\ WaitReturn(p)
    /\ UNCHANGED <<state, parent, killed, lock, child>>

\* Slip: havekids is not looked at.
WaitNoneUnchecked(p) ==
    /\ At(p, "wait_scan")
    /\ Zombies(p) = {} /\ ScanLocksFree(p)
    /\ lock[p] = None /\ ~killed[p]
    /\ Goto(p, "wait_sleep")
    /\ UNCHANGED <<state, parent, killed, wait_lock, lock, child>>

\* There are children, none is a zombie, and p is not killed yet.
WaitNone(p) ==
    /\ At(p, "wait_scan")
    /\ Zombies(p) = {} /\ ScanLocksFree(p)
    /\ Children(p) # {} /\ lock[p] = None /\ ~killed[p]
    /\ Goto(p, "wait_sleep")
    /\ UNCHANGED <<state, parent, killed, wait_lock, lock, child>>

\* Slip: sleep() releases wait_lock before it takes p->lock.
SleepReleaseFirst(p) ==
    /\ At(p, "wait_sleep")
    /\ wait_lock' = None
    /\ Goto(p, "wait_release")
    /\ UNCHANGED <<state, parent, killed, lock, child>>

\* sleep(p, &wait_lock): acquire(&p->lock) first ...
SleepAcquire(p) ==
    /\ At(p, "wait_sleep")
    /\ lock[p] = None
    /\ lock' = [lock EXCEPT ![p] = p]
    /\ Goto(p, "wait_release")
    /\ UNCHANGED <<state, parent, killed, wait_lock, child>>

\* ... then release(lk) and SLEEPING, p->lock held into sched().
SleepRelease(p) ==
    /\ At(p, "wait_release")
    /\ wait_lock' = None
    /\ state' = [state EXCEPT ![p] = "SLEEPING"]
    /\ Goto(p, "asleep")
    /\ UNCHANGED <<parent, killed, lock, child>>

\* Woken and scheduled again: acquire(lk), and back to the scan.
SleepReturn(p) ==
    /\ At(p, "asleep")
    /\ lock[p] = None /\ wait_lock = None
    /\ wait_lock' = p
    /\ Goto(p, "wait_scan")
    /\ UNCHANGED <<state, parent, killed, lock, child>>

-----------------------------------------------------------------------------
(* kkill()                                                                 *)

\* Every pid may be passed, 0 included, which is the pid of the UNUSED slots.
\* Nobody kills init: the kernel would panic with "init exiting".
Kill(p, q) ==
    /\ At(p, "run") /\ ~killed[p] /\ q # initproc
    /\ lock[q] = None
    /\ killed' = [killed EXCEPT ![q] = TRUE]
    /\ state' = [state EXCEPT ![q] = IF @ = "SLEEPING" THEN "RUNNABLE" ELSE @]
    /\ UNCHANGED <<parent, wait_lock, lock, pc, child>>

-----------------------------------------------------------------------------
\* What a process goes on to do once it has started a call.
Continue(p) ==
    \/ ForkLink(p) \/ ForkReady(p)
    \/ Reparent(p) \/ ExitWake(p) \/ ExitZombie(p)
    \/ WaitReap(p) \/ WaitFault(p) \/ WaitFail(p) \/ WaitNone(p)
    \/ SleepAcquire(p) \/ SleepRelease(p) \/ SleepReturn(p)

Next ==
    \E p \in Proc :
        \/ Continue(p) \/ Switched(p) \/ Exit(p) \/ Wait(p)
        \/ \E q \in Proc : Fork(p, q) \/ Kill(p, q)

SafetySpec == Init /\ [][Next]_vars

\* A process that can go on is scheduled again and again, and a spinning
\* acquire() that finds its lock free again and again gets it.
Fairness == \A p \in Proc : SF_vars(Continue(p)) /\ WF_vars(Switched(p))

Spec == SafetySpec /\ Fairness

-----------------------------------------------------------------------------
(* Properties                                                              *)

Asleep(p) == state[p] = "SLEEPING"

\* wait_lock "helps ensure that wakeups of wait()ing parents are not lost":
\* once wait_lock is free, nobody sleeps in wait() with a zombie child.
NoLostWakeup == wait_lock = None => \A p \in Proc : Asleep(p) => Zombies(p) = {}

\* A process sleeps in wait() only while it has a child: otherwise nothing
\* but a kill would ever wake it.
SleeperHasChild == \A p \in Proc : Asleep(p) => Children(p) # {}

\* p->parent never points at an exited or freed process, and no zombie is
\* without a parent: every zombie has somebody who can reap it.
ParentLive ==
    \A q \in Proc :
        /\ parent[q] # None => state[parent[q]] \in {"RUNNABLE", "SLEEPING"}
        /\ state[q] = "ZOMBIE" => parent[q] # None

\* "make sure the child isn't still in exit() or swtch()": a slot that is
\* free for the next kfork() has no process on its stack and no lock held,
\* and nobody still points at it.
ReapSafe ==
    \A q \in Proc : state[q] = "UNUSED" =>
        pc[q] = "free" /\ lock[q] = None /\ \A p \in Proc : child[p] # q

\* The family tree behind these steps: a slot counts from the last critical
\* section of kfork() on, and the children of a process that has begun to
\* exit count as init's.
lifeOf ==
    [q \in Proc |-> IF state[q] \in {"UNUSED", "USED"} THEN "none"
                    ELSE IF state[q] = "ZOMBIE" THEN "zombie" ELSE "alive"]

fatherOf ==
    [q \in Proc |-> IF lifeOf[q] = "none" \/ parent[q] = None THEN None
                    ELSE IF pc[parent[q]] = "exit_reparent" THEN initproc
                    ELSE parent[q]]

Waiting(p) == pc[p] \in {"wait_scan", "wait_sleep", "wait_release", "asleep"}

waitsOf == {p \in Proc : Waiting(p)}

Family == INSTANCE FamilyAbs WITH Slot <- Proc, Root <- initproc, Nobody <- None,
                                  life <- lifeOf, father <- fatherOf,
                                  waits <- waitsOf

\* fork, exit and wait implement the family tree: however they interleave,
\* a zombie is freed by the wait() of the process that is its parent then,
\* one for each call; a dying process leaves no child behind, and no child
\* changes hands otherwise.
FamilySpec == Family!Spec

\* A wait() whose caller has a zombie child returns, also when the caller
\* was asleep or about to sleep as the child exited, and when the zombie
\* came to init through reparent().
WaitReturns ==
    \A p \in Proc : (Waiting(p) /\ Zombies(p) # {}) ~> ~Waiting(p)

\* kkill: "Kill the process with the given pid": whoever is marked as killed
\* is a process, so that the next one in the slot does not inherit the mark.
KilledIsProcess == \A q \in Proc : killed[q] => state[q] # "UNUSED"
=============================================================================
