--------------------------- MODULE ProcCoreProofs ---------------------------
(***************************************************************************)
(* Proofs about ProcCore for every set of CPUs and every NPROC.            *)
(***************************************************************************)
EXTENDS ProcCore, TLAPS

\* The wakeup() loop leaves the table after its last slot.
LEMMA WrapInRange == \A i \in 0..NPROC : (i + 1) % (NPROC + 1) \in 0..NPROC
BY NPROCAssumption

\* Every step of a scheduler, a process or an interrupt keeps the types.
LEMMA CoreTypeStep == CoreTypeOK /\ [CoreNext]_coreVars => CoreTypeOK'
<1> USE NPROCAssumption, NoneAssumption DEF CoreTypeOK, Proc, States, Pcs
<1> SUFFICES ASSUME CoreTypeOK, [CoreNext]_coreVars
             PROVE  CoreTypeOK'
  OBVIOUS
<1>1. ASSUME NEW c \in CPU, Return(c)
      PROVE  CoreTypeOK'
  BY <1>1 DEF Return
<1>2. ASSUME NEW c \in CPU, Resume(c)
      PROVE  CoreTypeOK'
  BY <1>2 DEF Resume
<1>3. ASSUME NEW c \in CPU, Yield(c)
      PROVE  CoreTypeOK'
  BY <1>3 DEF Yield, GiveUp
<1>4. ASSUME NEW c \in CPU, Sleep(c)
      PROVE  CoreTypeOK'
  BY <1>4 DEF Sleep, GiveUp
<1>5. ASSUME NEW c \in CPU, Exit(c)
      PROVE  CoreTypeOK'
  BY <1>5 DEF Exit, GiveUp
<1>6. ASSUME NEW c \in CPU, WakeStart(c)
      PROVE  CoreTypeOK'
  BY <1>6 DEF WakeStart
<1>7. ASSUME NEW c \in CPU, NEW p \in Proc, SchedAcquire(c, p)
      PROVE  CoreTypeOK'
  BY <1>7 DEF SchedAcquire
<1>8. ASSUME NEW c \in CPU, NEW p \in Proc, SchedRelease(c, p)
      PROVE  CoreTypeOK'
  BY <1>8 DEF SchedRelease
<1>9. ASSUME NEW c \in CPU, NEW p \in Proc, Dispatch(c, p)
      PROVE  CoreTypeOK'
  BY <1>9 DEF Dispatch
<1>10. ASSUME NEW c \in CPU, NEW p \in Proc, Alloc(c, p)
      PROVE  CoreTypeOK'
  BY <1>10 DEF Alloc
<1>11. ASSUME NEW c \in CPU, NEW p \in Proc, MakeRunnable(c, p)
      PROVE  CoreTypeOK'
  BY <1>11 DEF MakeRunnable
<1>12. ASSUME NEW c \in CPU, NEW p \in Proc, Kill(c, p)
      PROVE  CoreTypeOK'
  BY <1>12 DEF Kill
<1>13. ASSUME NEW c \in CPU, NEW p \in Proc, Reap(c, p)
      PROVE  CoreTypeOK'
  BY <1>13 DEF Reap
<1>14. ASSUME NEW c \in CPU, NEW p \in Proc, WakeHit(c, p)
      PROVE  CoreTypeOK'
  BY <1>14, WrapInRange DEF WakeHit, NextSlot
<1>15. ASSUME NEW c \in CPU, NEW p \in Proc, WakeMiss(c, p)
      PROVE  CoreTypeOK'
  BY <1>15, WrapInRange DEF WakeMiss, NextSlot
<1>16. CASE UNCHANGED coreVars
  BY <1>16 DEF coreVars
<1>17. QED
  BY <1>1, <1>2, <1>3, <1>4, <1>5, <1>6, <1>7, <1>8, <1>9, <1>10, <1>11,
     <1>12, <1>13, <1>14, <1>15, <1>16 DEF CoreNext

\* kexit(), kfork(), yield() and the others keep every field in its range.
THEOREM CoreTypeCorrect == CoreSpec => []CoreTypeOK
<1>1. CoreInit => CoreTypeOK
  BY NPROCAssumption, NoneAssumption
     DEF CoreInit, CoreTypeOK, InitProc, Proc, States, Pcs
<1>2. QED
  BY <1>1, CoreTypeStep, PTL DEF CoreSpec

(***************************************************************************)
(* The inductive invariant.  Handoff alone is not inductive: MakeRunnable  *)
(* sets the state of a child without looking at it, so one has to know     *)
(* that a child in mid-fork is USED and therefore on no CPU.               *)
(***************************************************************************)
IInv == CoreTypeOK /\ Handoff /\ RunningHasCpu /\ ForkOwnsChild

\* The CPU hand-over, the fork window and the type invariant hold together
\* initially and after every step of any scheduler, process or interrupt.
LEMMA InitIInv == CoreInit => IInv
BY NPROCAssumption, NoneAssumption
   DEF CoreInit, IInv, CoreTypeOK, Handoff, StateMatchesPc, LockHandedOver,
       OneCpuPerProc, RunningHasCpu, ForkOwnsChild, Proc, InitProc, States, Pcs

LEMMA StepIInv == IInv /\ [CoreNext]_coreVars => IInv'
<1> SUFFICES ASSUME IInv, [CoreNext]_coreVars
             PROVE  IInv'
  OBVIOUS
<1> USE NoneAssumption DEF IInv, Handoff, StateMatchesPc, LockHandedOver,
        OneCpuPerProc, RunningHasCpu, ForkOwnsChild, CoreTypeOK, States, Pcs
<1>t. CoreTypeOK'
  BY CoreTypeStep
<1>1. ASSUME NEW c \in CPU, Return(c)
      PROVE  IInv'
  BY <1>1, <1>t DEF Return, Proc
<1>2. ASSUME NEW c \in CPU, Resume(c)
      PROVE  IInv'
  BY <1>2, <1>t DEF Resume, Proc
<1>3. ASSUME NEW c \in CPU, Yield(c)
      PROVE  IInv'
  BY <1>3, <1>t DEF Yield, GiveUp, InProc, Proc
<1>4. ASSUME NEW c \in CPU, Sleep(c)
      PROVE  IInv'
  BY <1>4, <1>t DEF Sleep, GiveUp, InProc, Proc
<1>5. ASSUME NEW c \in CPU, Exit(c)
      PROVE  IInv'
  BY <1>5, <1>t DEF Exit, GiveUp, InProc, Proc
<1>6. ASSUME NEW c \in CPU, WakeStart(c)
      PROVE  IInv'
  BY <1>6, <1>t DEF WakeStart, InLoop, InProc, Proc
<1>7. ASSUME NEW c \in CPU, NEW p \in Proc, SchedAcquire(c, p)
      PROVE  IInv'
  BY <1>7, <1>t DEF SchedAcquire, InLoop, Proc
<1>8. ASSUME NEW c \in CPU, NEW p \in Proc, SchedRelease(c, p)
      PROVE  IInv'
  BY <1>8, <1>t DEF SchedRelease, InLoop, Proc
<1>9. ASSUME NEW c \in CPU, NEW p \in Proc, Dispatch(c, p)
      PROVE  IInv'
  BY <1>9, <1>t DEF Dispatch, InLoop, Proc
<1>10. ASSUME NEW c \in CPU, NEW p \in Proc, Alloc(c, p)
      PROVE  IInv'
  <2> USE <1>10 DEF Alloc, InProc
  <2>1. Handoff' /\ RunningHasCpu'
    BY DEF Proc
  <2>2. cproc[c] \in Proc /\ child[cproc[c]] = None
    BY DEF Proc
  <2>3. \A q \in Proc : child'[q] = IF q = cproc[c] THEN p ELSE child[q]
    BY <2>2
  <2>4. \A q \in Proc : state'[q] = IF q = p THEN "USED" ELSE state[q]
    OBVIOUS
  <2>5. \A q \in Proc : child[q] # None => child[q] # p
    OBVIOUS
  <2>6. ForkOwnsChild'
    <3>1. \A q \in Proc : child'[q] # None => state'[child'[q]] = "USED"
      BY <2>3, <2>4, <2>5
    <3>2. \A q, r \in Proc : q # r /\ child'[q] # None => child'[q] # child'[r]
      BY <2>3, <2>5
    <3>3. QED
      BY <3>1, <3>2
  <2>7. QED
    BY <1>t, <2>1, <2>6
<1>11. ASSUME NEW c \in CPU, NEW p \in Proc, MakeRunnable(c, p)
      PROVE  IInv'
  BY <1>11, <1>t DEF MakeRunnable, InProc, Proc
<1>12. ASSUME NEW c \in CPU, NEW p \in Proc, Kill(c, p)
      PROVE  IInv'
  BY <1>12, <1>t DEF Kill, InProc, Proc
<1>13. ASSUME NEW c \in CPU, NEW p \in Proc, Reap(c, p)
      PROVE  IInv'
  BY <1>13, <1>t DEF Reap, InProc, Proc
<1>14. ASSUME NEW c \in CPU, NEW p \in Proc, WakeHit(c, p)
      PROVE  IInv'
  BY <1>14, <1>t DEF WakeHit, Proc
<1>15. ASSUME NEW c \in CPU, NEW p \in Proc, WakeMiss(c, p)
      PROVE  IInv'
  BY <1>15, <1>t DEF WakeMiss, Proc
<1>16. CASE UNCHANGED coreVars
  BY <1>16 DEF coreVars
<1>17. QED
  BY <1>1, <1>2, <1>3, <1>4, <1>5, <1>6, <1>7, <1>8, <1>9, <1>10, <1>11,
     <1>12, <1>13, <1>14, <1>15, <1>16 DEF CoreNext

\* Whatever the scheduler, every reachable state satisfies the invariant.
THEOREM CoreInvariant == CoreSpec => []IInv
BY InitIInv, StepIInv, PTL DEF CoreSpec

\* swtch() hand-over: no process is on two CPUs, a CPU inside a process that
\* is entering or leaving it holds that process's lock, and p->state tells
\* whether the process still executes.
THEOREM HandoffCorrect == CoreSpec => []Handoff
<1>1. IInv => Handoff
  BY DEF IInv
<1>2. QED
  BY <1>1, CoreInvariant, PTL

\* No path through scheduler(), sched() or wakeup() leaves a slot RUNNING that
\* nobody executes.
THEOREM RunningOnCpu == CoreSpec => []RunningHasCpu
<1>1. IInv => RunningHasCpu
  BY DEF IInv
<1>2. QED
  BY <1>1, CoreInvariant, PTL

\* The slot that allocproc() has claimed for a kfork() stays that kfork()'s,
\* although its lock is dropped and the parent may change CPUs.
THEOREM ForkSlotOwned == CoreSpec => []ForkOwnsChild
<1>1. IInv => ForkOwnsChild
  BY DEF IInv
<1>2. QED
  BY <1>1, CoreInvariant, PTL

-----------------------------------------------------------------------------
(* ProcCore implements SchedAbs                                            *)

\* The argument behind every critical section in proc.c that looks at
\* another process: if its lock is not in the hands of a CPU that runs it
\* and its state is not RUNNING, its registers are saved.
LEMMA LockedStateIsOffCpu ==
    ASSUME IInv, NEW p \in Proc, state[p] # "RUNNING",
           \A c \in CPU : cproc[c] = p => lock[p] # c
    PROVE  Abs!OffCpu(p)
<1> SUFFICES ASSUME NEW c \in CPU, cproc[c] = p
             PROVE  FALSE
  BY DEF Abs!OffCpu
<1>1. p # None
  BY NoneAssumption DEF Proc
<1>2. pc[c] \in {"resume", "proc", "switch"}
  BY <1>1 DEF IInv, CoreTypeOK, Pcs, Handoff, StateMatchesPc
<1>3. CASE pc[c] \in {"resume", "proc"}
  BY <1>3 DEF IInv, Handoff, StateMatchesPc
<1>4. CASE pc[c] = "switch"
  BY <1>4 DEF IInv, Handoff, LockHandedOver
<1>5. QED
  BY <1>2, <1>3, <1>4

LEMMA StepRefines == IInv /\ [CoreNext]_coreVars => [Abs!Next]_Abs!vars
<1> SUFFICES ASSUME IInv, [CoreNext]_coreVars
             PROVE  [Abs!Next]_Abs!vars
  OBVIOUS
<1>n. \A c \in CPU : cproc[c] # None => cproc[c] \in Proc
  BY DEF IInv, CoreTypeOK
<1>p. None \notin Proc
  BY NoneAssumption DEF Proc
<1>1. ASSUME NEW c \in CPU, Return(c)
      PROVE  Abs!Leave(c)
  BY <1>1, <1>n DEF Return, Abs!Leave, IInv, Handoff, StateMatchesPc
<1>2. ASSUME NEW c \in CPU, NEW s \in {"RUNNABLE", "SLEEPING", "ZOMBIE"},
             GiveUp(c, s)
      PROVE  Abs!Block(c)
  BY <1>2, <1>n DEF GiveUp, InProc, Abs!Block, IInv, Handoff, StateMatchesPc
<1>3. ASSUME NEW c \in CPU, NEW p \in Proc, Dispatch(c, p)
      PROVE  Abs!Dispatch(c, p)
  <2>1. cproc[c] = None /\ state[p] = "RUNNABLE" /\ lock[p] = c
    BY <1>3 DEF Dispatch, InLoop, IInv, Handoff, StateMatchesPc
  <2>2. \A d \in CPU : cproc[d] = p => lock[p] # d
    BY <2>1, <1>p
  <2>3. Abs!OffCpu(p)
    BY <2>1, <2>2, LockedStateIsOffCpu
  <2>4. QED
    BY <1>3, <2>1, <2>3 DEF Dispatch, Abs!Dispatch
<1>4. ASSUME NEW c \in CPU, NEW p \in Proc, Alloc(c, p)
      PROVE  Abs!Create(p)
  BY <1>4 DEF Alloc, Abs!Create
<1>5. ASSUME NEW c \in CPU, NEW p \in Proc, MakeRunnable(c, p)
      PROVE  Abs!Ready(p)
  <2>1. state[p] = "USED" /\ lock[p] = None
    BY <1>5, <1>n, <1>p
       DEF MakeRunnable, InProc, IInv, ForkOwnsChild, Handoff, StateMatchesPc
  <2>2. Abs!OffCpu(p)
    BY <2>1, LockedStateIsOffCpu, NoneAssumption
  <2>3. QED
    BY <1>5, <2>1, <2>2 DEF MakeRunnable, Abs!Ready
<1>6. ASSUME NEW c \in CPU, NEW p \in Proc, Kill(c, p) \/ WakeHit(c, p)
      PROVE  Abs!Ready(p)
  <2>1. state[p] = "SLEEPING" /\ lock[p] = None
    BY <1>6 DEF Kill, WakeHit
  <2>2. Abs!OffCpu(p)
    BY <2>1, LockedStateIsOffCpu, NoneAssumption
  <2>3. QED
    BY <1>6, <2>1, <2>2 DEF Kill, WakeHit, Abs!Ready
<1>7. ASSUME NEW c \in CPU, NEW p \in Proc, Reap(c, p)
      PROVE  Abs!Free(p)
  <2>1. state[p] = "ZOMBIE" /\ lock[p] = None
    BY <1>7 DEF Reap
  <2>2. Abs!OffCpu(p)
    BY <2>1, LockedStateIsOffCpu, NoneAssumption
  <2>3. QED
    BY <1>7, <2>1, <2>2 DEF Reap, Abs!Free
<1>8. ASSUME NEW c \in CPU, Resume(c) \/ WakeStart(c)
      PROVE  UNCHANGED Abs!vars
  BY <1>8 DEF Resume, WakeStart, Abs!vars
<1>9. ASSUME NEW c \in CPU, NEW p \in Proc,
             SchedAcquire(c, p) \/ SchedRelease(c, p) \/ WakeMiss(c, p)
      PROVE  UNCHANGED Abs!vars
  BY <1>9 DEF SchedAcquire, SchedRelease, WakeMiss, Abs!vars
<1>10. CASE UNCHANGED coreVars
  BY <1>10 DEF coreVars, Abs!vars
<1>11. QED
  BY <1>1, <1>2, <1>3, <1>4, <1>5, <1>6, <1>7, <1>8, <1>9, <1>10
     DEF CoreNext, Yield, Sleep, Exit, Abs!Next

\* Under any scheduling policy over ProcCore, a process executes on one CPU
\* at most, is taken up only when RUNNABLE with its registers saved, and is
\* neither woken nor freed before it has left its CPU.
THEOREM CoreImplementsAbs == CoreSpec => AbsSpec
<1>1. CoreInit => Abs!Init
  <2>1. InitProc \in Proc
    BY NPROCAssumption DEF Proc, InitProc
  <2>2. QED
    BY <2>1 DEF CoreInit, Abs!Init
<1>2. QED
  BY <1>1, CoreInvariant, StepRefines, PTL DEF CoreSpec, AbsSpec, Abs!Spec
=============================================================================
