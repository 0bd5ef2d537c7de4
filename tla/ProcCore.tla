------------------------------ MODULE ProcCore ------------------------------
(***************************************************************************)
(* The part of kernel/proc.c that the three variants (lpt, adaptive, work  *)
(* stealing) share: the process table, the per-process spinlocks and the   *)
(* hand-over of a CPU between scheduler() and a process through swtch().   *)
(* The definitions follow lpt/proc.c, whose yield, sleep, wakeup, kkill    *)
(* and kfork are the ones the other two extend.                            *)
(*                                                                         *)
(* The scheduling policy is left open: a CPU inside scheduler() may take   *)
(* and drop any free p->lock and run any RUNNABLE process whose lock it    *)
(* holds.  LptSched, AdaptiveSched and StealSched extend this module with  *)
(* the policy and conjoin their own variables to the actions below.        *)
(*                                                                         *)
(* A critical section that takes one p->lock, changes only that slot and   *)
(* releases it is one action, enabled while the lock is free (acquire()    *)
(* spins until then).  A lock that stays held across steps is in "lock".   *)
(* Parent links, wait_lock, channels and the killed flag are modelled in   *)
(* WaitExit; here a wakeup may match any sleeper and a parent may reap any *)
(* zombie.                                                                 *)
(***************************************************************************)
EXTENDS Naturals

CONSTANTS CPU,      \* the harts that run scheduler()
          NPROC,    \* number of slots in proc[]
          None      \* null pointer: no process, no lock holder

ASSUME NPROCAssumption == NPROC \in Nat \ {0}
ASSUME NoneAssumption == None \notin CPU /\ None \notin 1..NPROC

Proc == 1..NPROC
InitProc == 1       \* allocproc() in userinit() finds the first slot

VARIABLES
    state,    \* p->state
    lock,     \* the CPU that holds p->lock, or None
    cproc,    \* c->proc
    pc,       \* what the CPU executes, see Pcs
    wslot,    \* slot the CPU's wakeup() loop is at, 0 outside wakeup()
    child     \* np of the kfork() that a process is in, None otherwise

coreVars == <<state, lock, cproc, pc, wslot, child>>

States == {"UNUSED", "USED", "SLEEPING", "RUNNABLE", "RUNNING", "ZOMBIE"}

\* loop:   in scheduler(), on the CPU's own stack
\* resume: just switched into the process, which still holds p->lock
\* proc:   in the process, user or kernel code, no p->lock held
\* switch: the process has changed its state and is in sched()
Pcs == {"loop", "resume", "proc", "switch"}

CoreTypeOK ==
    /\ state \in [Proc -> States]
    /\ lock \in [Proc -> CPU \cup {None}]
    /\ cproc \in [CPU -> Proc \cup {None}]
    /\ pc \in [CPU -> Pcs]
    /\ wslot \in [CPU -> 0..NPROC]
    /\ child \in [Proc -> Proc \cup {None}]

\* procinit() and userinit(): the first slot is RUNNABLE, every CPU enters
\* scheduler() with c->proc = 0.
CoreInit ==
    /\ state = [p \in Proc |-> IF p = InitProc THEN "RUNNABLE" ELSE "UNUSED"]
    /\ lock = [p \in Proc |-> None]
    /\ cproc = [c \in CPU |-> None]
    /\ pc = [c \in CPU |-> "loop"]
    /\ wslot = [c \in CPU |-> 0]
    /\ child = [p \in Proc |-> None]

-----------------------------------------------------------------------------
(* In scheduler()                                                          *)

\* The CPU executes its scheduler loop, not an interrupt handler above it.
InLoop(c) == pc[c] = "loop" /\ wslot[c] = 0

SchedAcquire(c, p) ==
    /\ InLoop(c)
    /\ lock[p] = None
    /\ lock' = [lock EXCEPT ![p] = c]
    /\ UNCHANGED <<state, cproc, pc, wslot, child>>

SchedRelease(c, p) ==
    /\ InLoop(c)
    /\ lock[p] = c
    /\ lock' = [lock EXCEPT ![p] = None]
    /\ UNCHANGED <<state, cproc, pc, wslot, child>>

\* p->state = RUNNING; c->proc = p; swtch(&c->context, &p->context).
Dispatch(c, p) ==
    /\ InLoop(c)
    /\ lock[p] = c
    /\ state[p] = "RUNNABLE"
    /\ state' = [state EXCEPT ![p] = "RUNNING"]
    /\ cproc' = [cproc EXCEPT ![c] = p]
    /\ pc' = [pc EXCEPT ![c] = "resume"]
    /\ UNCHANGED <<lock, wslot, child>>

\* The second half of sched(): swtch() back, c->proc = 0, release(&p->lock).
Return(c) ==
    /\ pc[c] = "switch"
    /\ cproc' = [cproc EXCEPT ![c] = None]
    /\ lock' = [lock EXCEPT ![cproc[c]] = None]
    /\ pc' = [pc EXCEPT ![c] = "loop"]
    /\ UNCHANGED <<state, wslot, child>>

-----------------------------------------------------------------------------
(* In the process c->proc                                                  *)

\* forkret(), or the tail of yield() or sleep(): release(&p->lock).
Resume(c) ==
    /\ pc[c] = "resume"
    /\ lock' = [lock EXCEPT ![cproc[c]] = None]
    /\ pc' = [pc EXCEPT ![c] = "proc"]
    /\ UNCHANGED <<state, cproc, wslot, child>>

InProc(c) == pc[c] = "proc" /\ wslot[c] = 0

\* Slip: the lock is released before sched().
GiveUpUnlocked(c, s) ==
    /\ InProc(c)
    /\ lock[cproc[c]] = None
    /\ state' = [state EXCEPT ![cproc[c]] = s]
    /\ pc' = [pc EXCEPT ![c] = "switch"]
    /\ UNCHANGED <<lock, cproc, wslot, child>>

\* The process takes its own lock, sets its state and calls sched(), which
\* switches away with the lock still held.
GiveUp(c, s) ==
    /\ InProc(c)
    /\ lock[cproc[c]] = None
    /\ lock' = [lock EXCEPT ![cproc[c]] = c]
    /\ state' = [state EXCEPT ![cproc[c]] = s]
    /\ pc' = [pc EXCEPT ![c] = "switch"]
    /\ UNCHANGED <<cproc, wslot, child>>

\* yield(), called on a timer interrupt from user or kernel mode.
Yield(c) == GiveUp(c, "RUNNABLE")

\* sleep(): kfork() never sleeps between allocproc() and RUNNABLE.
Sleep(c) ==
    /\ GiveUp(c, "SLEEPING")
    /\ child[cproc[c]] = None

\* kexit(): "init exiting" is a panic.
Exit(c) ==
    /\ GiveUp(c, "ZOMBIE")
    /\ cproc[c] # InitProc
    /\ child[cproc[c]] = None

\* Slip: a slot that another kfork() has claimed passes for a free one.
AllocClaimed(c, q) ==
    /\ InProc(c)
    /\ child[cproc[c]] = None
    /\ lock[q] = None
    /\ state[q] \in {"UNUSED", "USED"}
    /\ state' = [state EXCEPT ![q] = "USED"]
    /\ child' = [child EXCEPT ![cproc[c]] = q]
    /\ UNCHANGED <<lock, cproc, pc, wslot>>

\* kfork(), first critical section: allocproc() claims an UNUSED slot, any of
\* them, since slots it has passed may have become UNUSED since.  A failed
\* allocation frees the slot before it releases the lock: no change.
Alloc(c, q) ==
    /\ InProc(c)
    /\ child[cproc[c]] = None
    /\ lock[q] = None
    /\ state[q] = "UNUSED"
    /\ state' = [state EXCEPT ![q] = "USED"]
    /\ child' = [child EXCEPT ![cproc[c]] = q]
    /\ UNCHANGED <<lock, cproc, pc, wslot>>

\* Slip: the child is marked RUNNING.
MakeRunning(c, q) ==
    /\ InProc(c)
    /\ child[cproc[c]] = q
    /\ lock[q] = None
    /\ state' = [state EXCEPT ![q] = "RUNNING"]
    /\ child' = [child EXCEPT ![cproc[c]] = None]
    /\ UNCHANGED <<lock, cproc, pc, wslot>>

\* kfork(), last critical section.  The parent may have been preempted and
\* have moved to another CPU since Alloc.
MakeRunnable(c, q) ==
    /\ InProc(c)
    /\ child[cproc[c]] = q
    /\ lock[q] = None
    /\ state' = [state EXCEPT ![q] = "RUNNABLE"]
    /\ child' = [child EXCEPT ![cproc[c]] = None]
    /\ UNCHANGED <<lock, cproc, pc, wslot>>

\* kkill() of a sleeping process (of any other it only sets p->killed).
Kill(c, q) ==
    /\ InProc(c)
    /\ lock[q] = None
    /\ state[q] = "SLEEPING"
    /\ state' = [state EXCEPT ![q] = "RUNNABLE"]
    /\ UNCHANGED <<lock, cproc, pc, wslot, child>>

\* kwait() or waitx() finds an exited child: freeproc() under np->lock.
Reap(c, q) ==
    /\ InProc(c)
    /\ child[cproc[c]] = None
    /\ lock[q] = None
    /\ state[q] = "ZOMBIE"
    /\ state' = [state EXCEPT ![q] = "UNUSED"]
    /\ UNCHANGED <<lock, cproc, pc, wslot, child>>

-----------------------------------------------------------------------------
(* wakeup(), called by a process or by an interrupt handler.  The caller    *)
(* holds the condition lock, so nothing preempts the loop.                  *)

\* Interrupts are off while the CPU holds a p->lock.
WakeStart(c) ==
    /\ InLoop(c) \/ InProc(c)
    /\ \A p \in Proc : lock[p] # c
    /\ wslot' = [wslot EXCEPT ![c] = 1]
    /\ UNCHANGED <<state, lock, cproc, pc, child>>

\* Slip: the loop goes one slot too far.
NextSlotPastEnd(c) == wslot' = [wslot EXCEPT ![c] = (@ + 1) % (NPROC + 2)]

NextSlot(c) == wslot' = [wslot EXCEPT ![c] = (@ + 1) % (NPROC + 1)]

\* Slip: the sleeper is woken without its lock.
WakeHitUnlocked(c, q) ==
    /\ wslot[c] = q
    /\ q # cproc[c]
    /\ state[q] = "SLEEPING"
    /\ state' = [state EXCEPT ![q] = "RUNNABLE"]
    /\ NextSlot(c)
    /\ UNCHANGED <<lock, cproc, pc, child>>

\* The slot sleeps on the channel.
WakeHit(c, q) ==
    /\ wslot[c] = q
    /\ q # cproc[c]
    /\ lock[q] = None
    /\ state[q] = "SLEEPING"
    /\ state' = [state EXCEPT ![q] = "RUNNABLE"]
    /\ NextSlot(c)
    /\ UNCHANGED <<lock, cproc, pc, child>>

\* The slot is myproc(), is not sleeping, or sleeps on another channel.
WakeMiss(c, q) ==
    /\ wslot[c] = q
    /\ q = cproc[c] \/ lock[q] = None
    /\ NextSlot(c)
    /\ UNCHANGED <<state, lock, cproc, pc, child>>

-----------------------------------------------------------------------------
CoreNext ==
    \E c \in CPU :
        \/ Return(c) \/ Resume(c) \/ Yield(c) \/ Sleep(c) \/ Exit(c)
        \/ WakeStart(c)
        \/ \E p \in Proc :
              \/ SchedAcquire(c, p) \/ SchedRelease(c, p) \/ Dispatch(c, p)
              \/ Alloc(c, p) \/ MakeRunnable(c, p) \/ Kill(c, p) \/ Reap(c, p)
              \/ WakeHit(c, p) \/ WakeMiss(c, p)

CoreSpec == CoreInit /\ [][CoreNext]_coreVars

-----------------------------------------------------------------------------
(* Properties                                                              *)

\* A process on a CPU is either RUNNING, or has changed its state and then
\* its lock is held by that CPU: this is what lets any other CPU that holds
\* p->lock conclude from p->state that p's registers are saved.
StateMatchesPc(c) ==
    /\ (pc[c] = "loop") <=> (cproc[c] = None)
    /\ pc[c] \in {"resume", "proc"} => state[cproc[c]] = "RUNNING"
    /\ pc[c] = "switch" => state[cproc[c]] \in {"RUNNABLE", "SLEEPING", "ZOMBIE"}

LockHandedOver(c) == pc[c] \in {"resume", "switch"} => lock[cproc[c]] = c

OneCpuPerProc ==
    \A c, d \in CPU : c # d /\ cproc[c] # None => cproc[c] # cproc[d]

Handoff ==
    /\ \A c \in CPU : StateMatchesPc(c) /\ LockHandedOver(c)
    /\ OneCpuPerProc

\* A RUNNING process is on some CPU: no path leaves a slot RUNNING with
\* nobody executing it, where no wakeup or scheduler would ever find it.
RunningHasCpu ==
    \A p \in Proc : state[p] = "RUNNING" => \E c \in CPU : cproc[c] = p

\* A new process stays with its parent's kfork() until it is RUNNABLE: its
\* slot is USED, and no two unfinished kfork() share a slot.
ForkOwnsChild ==
    /\ \A p \in Proc : child[p] # None => state[child[p]] = "USED"
    /\ \A p, q \in Proc : p # q /\ child[p] # None => child[p] # child[q]

Abs == INSTANCE SchedAbs WITH running <- cproc

\* The hand-over protocol implements SchedAbs: under any policy a process
\* is on one CPU at most and is taken up only after it has left the last.
AbsSpec == Abs!Spec
=============================================================================
