--------------------------- MODULE MetricsProofs ---------------------------
(***************************************************************************)
(* Metrics refines ProcCore, and its counters belong together, for every   *)
(* set of CPUs, every NPROC, and every bound on the counters.              *)
(***************************************************************************)
EXTENDS Metrics, ProcCoreProofs

\* The timer interrupt adds steps, the counters add variables; the process
\* table sees only steps of ProcCore.
LEMMA MetStepIsCoreStep == [MetNext]_metVars => [CoreNext]_coreVars
<1> SUFFICES ASSUME [MetNext]_metVars
             PROVE  [CoreNext]_coreVars
  OBVIOUS
<1>1. CASE UNCHANGED metVars
  BY <1>1 DEF metVars, coreVars
<1>2. CASE ClockIntr
  BY <1>2, MetricsAssumption DEF ClockIntr, CoreNext
<1>3. ASSUME NEW c \in CPU, TimerIntr(c) \/ Charge(c) \/ ExitBegin(c)
      PROVE  [CoreNext]_coreVars
  BY <1>3 DEF TimerIntr, Charge, ExitBegin
<1>4. ASSUME NEW c \in CPU, MetYield(c) \/ MetSleep(c) \/ MetExit(c)
      PROVE  [CoreNext]_coreVars
  BY <1>4 DEF MetYield, MetSleep, MetExit, CoreNext
<1>5. ASSUME NEW c \in CPU, MetOther(c)
      PROVE  [CoreNext]_coreVars
  BY <1>5 DEF MetOther, CoreNext
<1>6. ASSUME NEW c \in CPU, NEW q \in Proc, MetAlloc(c, q) \/ MetCall(c, q)
      PROVE  [CoreNext]_coreVars
  BY <1>6 DEF MetAlloc, MetCall, CoreNext
<1>7. QED
  BY <1>1, <1>2, <1>3, <1>4, <1>5, <1>6 DEF MetNext

\* The accounting never disturbs the hand-over.
THEOREM MetricsImplementCore == MetSpec => CoreSpec
<1>1. MetricsInit => CoreInit
  BY DEF MetricsInit
<1>2. QED
  BY <1>1, MetStepIsCoreStep, PTL DEF MetSpec, CoreSpec

-----------------------------------------------------------------------------
(***************************************************************************)
(* The inductive invariant.  A hart is inside a timer interrupt only in a  *)
(* process, so that a charged tick is never carried over to the next one;  *)
(* a process in kexit() is alive, so that its slot is not allocated anew.  *)
(***************************************************************************)
TrapInProc == \A c \in CPU : trap[c] # "none" => pc[c] = "proc"

ExitingLives == \A p \in exiting : state[p] \in {"RUNNABLE", "RUNNING", "SLEEPING"}

BornBefore == \A p \in Measured : ctime[p] <= ticks

MInv ==
    /\ MetricsTypeOK /\ TrapInProc /\ ExitingLives /\ BornBefore
    /\ SwitchesCoverRuntime /\ TurnaroundInLife

LEMMA InitMInv == MetricsInit => MInv
<1> SUFFICES ASSUME MetricsInit
             PROVE  MInv
  OBVIOUS
<1>1. CoreTypeOK
  BY InitIInv DEF MetricsInit, IInv
<1>2. MetricsTypeOK
  BY <1>1, MetricsAssumption DEF MetricsInit, MetricsTypeOK, TrapSteps
<1>3. \A p \in Measured : state[p] \in {"RUNNABLE", "UNUSED"}
  BY MetricsAssumption DEF MetricsInit, CoreInit
<1>4. QED
  BY <1>2, <1>3
     DEF MetricsInit, MInv, TrapInProc, ExitingLives, BornBefore,
         SwitchesCoverRuntime, TurnaroundInLife

\* MInv over one step: the types first.
LEMMA MetTypeStep ==
    ASSUME MInv, IInv, [MetNext]_metVars
    PROVE  MetricsTypeOK'
<1> USE MetricsAssumption DEF MInv, MetricsTypeOK, TrapSteps
<1>t. CoreTypeOK'
  BY MetStepIsCoreStep, CoreTypeStep
<1>1. CASE UNCHANGED metVars
  BY <1>1, <1>t DEF metVars, counters
<1>2. CASE ClockIntr
  BY <1>2, <1>t DEF ClockIntr, Tick
<1>3. ASSUME NEW c \in CPU, TimerIntr(c)
      PROVE  MetricsTypeOK'
  BY <1>3, <1>t DEF TimerIntr, counters
<1>4. ASSUME NEW c \in CPU, Charge(c)
      PROVE  MetricsTypeOK'
  BY <1>4, <1>t DEF Charge
<1>5. ASSUME NEW c \in CPU, MetYield(c) \/ MetSleep(c) \/ MetExit(c)
      PROVE  MetricsTypeOK'
  BY <1>5, <1>t DEF MetYield, MetSleep, MetExit, CountSwitch
<1>6. ASSUME NEW c \in CPU, ExitBegin(c)
      PROVE  MetricsTypeOK'
  BY <1>6, <1>t DEF ExitBegin
<1>7. ASSUME NEW c \in CPU, MetOther(c)
      PROVE  MetricsTypeOK'
  BY <1>7, <1>t DEF MetOther, counters
<1>8. ASSUME NEW c \in CPU, NEW q \in Proc, MetAlloc(c, q)
      PROVE  MetricsTypeOK'
  BY <1>8, <1>t DEF MetAlloc, StartTimes
<1>9. ASSUME NEW c \in CPU, NEW q \in Proc, MetCall(c, q)
      PROVE  MetricsTypeOK'
  BY <1>9, <1>t DEF MetCall, counters
<1>10. QED
  BY <1>1, <1>2, <1>3, <1>4, <1>5, <1>6, <1>7, <1>8, <1>9 DEF MetNext

LEMMA StepMInv ==
    ASSUME MInv, IInv, IInv', [MetNext]_metVars
    PROVE  MInv'
<1> USE MetricsAssumption, NoneAssumption
    DEF MInv, TrapInProc, ExitingLives, BornBefore, SwitchesCoverRuntime,
        TurnaroundInLife, Charged
<1>t. MetricsTypeOK'
  BY MetTypeStep
<1>n. /\ ticks \in Nat /\ MaxTicks \in Nat /\ MaxSwitches \in Nat \ {0}
      /\ \A p \in Measured : /\ ctime[p] \in Nat /\ etime[p] \in Nat
                             /\ rtime[p] \in 0..MaxSwitches - 1
                             /\ nswtch[p] \in 0..MaxSwitches
  BY DEF MetricsTypeOK
<1>1. CASE UNCHANGED metVars
  BY <1>1, <1>t DEF metVars, counters, coreVars
<1>2. CASE ClockIntr
  BY <1>2, <1>t, <1>n DEF ClockIntr, Tick, WakeStart, MetricsTypeOK
<1>3. ASSUME NEW c \in CPU, TimerIntr(c)
      PROVE  MInv'
  BY <1>3, <1>t DEF TimerIntr, counters, coreVars, InProc, MetricsTypeOK
<1>4. ASSUME NEW c \in CPU, Charge(c)
      PROVE  MInv'
  BY <1>4, <1>t, <1>n DEF Charge, coreVars, MetricsTypeOK, IInv, Handoff,
     OneCpuPerProc, StateMatchesPc
<1>5. ASSUME NEW c \in CPU, MetYield(c)
      PROVE  MInv'
  BY <1>5, <1>t, <1>n DEF MetYield, Yield, GiveUp, InProc, CountSwitch,
     MetricsTypeOK, CoreTypeOK, IInv, Handoff, OneCpuPerProc, StateMatchesPc
<1>6. ASSUME NEW c \in CPU, MetSleep(c)
      PROVE  MInv'
  BY <1>6, <1>t, <1>n DEF MetSleep, Sleep, GiveUp, InProc, CountSwitch,
     MetricsTypeOK, CoreTypeOK, IInv, Handoff, OneCpuPerProc, StateMatchesPc
<1>7. ASSUME NEW c \in CPU, MetExit(c)
      PROVE  MInv'
  BY <1>7, <1>t, <1>n DEF MetExit, Exit, GiveUp, InProc, CountSwitch,
     MetricsTypeOK, CoreTypeOK, IInv, Handoff, OneCpuPerProc, StateMatchesPc
<1>8. ASSUME NEW c \in CPU, ExitBegin(c)
      PROVE  MInv'
  BY <1>8, <1>t, <1>n DEF ExitBegin, InProc, coreVars,
     MetricsTypeOK, CoreTypeOK, IInv, Handoff, OneCpuPerProc, StateMatchesPc
<1>9. ASSUME NEW c \in CPU, NEW q \in Proc, MetAlloc(c, q)
      PROVE  MInv'
  BY <1>9, <1>t, <1>n DEF MetAlloc, Alloc, InCall, StartTimes,
     MetricsTypeOK, CoreTypeOK
<1>10. ASSUME NEW c \in CPU, NEW q \in Proc, MetCall(c, q)
      PROVE  MInv'
  <2>1. cproc[c] \in Proc
    BY <1>10 DEF MetCall, MakeRunnable, Kill, Reap, InProc, IInv, CoreTypeOK,
       Handoff, StateMatchesPc
  <2>2. CASE MakeRunnable(c, q)
    <3>1. state[q] = "USED"
      BY <2>1, <2>2 DEF MakeRunnable, IInv, ForkOwnsChild, Proc
    <3>2. q \notin exiting
      BY <3>1
    <3>3. QED
      BY <1>10, <1>t, <2>2, <3>1, <3>2
         DEF MetCall, MakeRunnable, counters, MetricsTypeOK, CoreTypeOK
  <2>3. CASE Kill(c, q) \/ Reap(c, q)
    BY <1>10, <1>t, <2>3 DEF MetCall, Kill, Reap, counters, MetricsTypeOK, CoreTypeOK
  <2>4. QED
    BY <1>10, <2>2, <2>3 DEF MetCall
<1>11. ASSUME NEW c \in CPU, Return(c) \/ Resume(c) \/ WakeStart(c),
              UNCHANGED <<counters, trap, exiting>>
      PROVE  MInv'
  BY <1>11, <1>t DEF Return, Resume, WakeStart, counters, MetricsTypeOK, CoreTypeOK
<1>12. ASSUME NEW c \in CPU, NEW p \in Proc,
              SchedAcquire(c, p) \/ SchedRelease(c, p) \/ WakeMiss(c, p),
              UNCHANGED <<counters, trap, exiting>>
      PROVE  MInv'
  BY <1>12, <1>t DEF SchedAcquire, SchedRelease, WakeMiss, counters
<1>13. ASSUME NEW c \in CPU, NEW p \in Proc, Dispatch(c, p) \/ WakeHit(c, p),
              UNCHANGED <<counters, trap, exiting>>
      PROVE  MInv'
  BY <1>13, <1>t DEF Dispatch, InLoop, WakeHit, counters, MetricsTypeOK, CoreTypeOK
<1>14. QED
  BY <1>1, <1>2, <1>3, <1>4, <1>5, <1>6, <1>7, <1>8, <1>9, <1>10, <1>11,
     <1>12, <1>13 DEF MetNext, MetOther

THEOREM MetricsInvariant == MetSpec => []MInv
<1>1. MInv /\ IInv /\ IInv' /\ [MetNext]_metVars => MInv'
  BY StepMInv
<1>2. MetSpec => []IInv
  BY MetricsImplementCore, CoreInvariant, PTL
<1>3. QED
  BY InitMInv, <1>1, <1>2, PTL DEF MetSpec

\* Whatever the harts, preemptions and reuses of the slot, waitx() reports
\* fewer ticks than switches.
THEOREM RuntimeCovered == MetSpec => []SwitchesCoverRuntime
<1>1. MInv => SwitchesCoverRuntime
  BY DEF MInv
<1>2. QED
  BY <1>1, MetricsInvariant, PTL

\* And a turnaround time that is not negative and lies in the past.
THEOREM TurnaroundSound == MetSpec => []TurnaroundInLife
<1>1. MInv => TurnaroundInLife
  BY DEF MInv
<1>2. QED
  BY <1>1, MetricsInvariant, PTL

\* Every counter stays in its range.
THEOREM MetricsTypeCorrect == MetSpec => []MetricsTypeOK
<1>1. MInv => MetricsTypeOK
  BY DEF MInv
<1>2. QED
  BY <1>1, MetricsInvariant, PTL

\* With the accounting on, too, no process is on two harts.
THEOREM MetricsHandoff == MetSpec => []Handoff
BY MetricsImplementCore, HandoffCorrect, PTL
=============================================================================
