--------------------------- MODULE SysProcProofs ---------------------------
(***************************************************************************)
(* SysProc's safety properties for any number of processes, any range of   *)
(* ticks, and user memory of any width.                                    *)
(***************************************************************************)
EXTENDS SysProc, TLAPS

-----------------------------------------------------------------------------
(* Sizes and addresses                                                     *)

\* A successful sbrk() moves the size by exactly n, or leaves it alone when n
\* would take it below zero; a failed one leaves it alone; and no outcome is
\* above the trapframe.
THEOREM SbrkExact ==
    ASSUME NEW size \in 0..TRAPFRAME, NEW inc \in CInt, NEW eager \in BOOLEAN,
           NEW r \in Sbrk(size, inc, eager)
    PROVE  /\ r.sz \in 0..TRAPFRAME
           /\ r.ok => r.sz = size + inc \/ (size + inc < 0 /\ r.sz = size)
           /\ ~r.ok => r.sz = size
<1> USE UserMemAssumption DEF CInt, Uint, Failed, Done
<1>1. CASE eager \/ inc < 0
  <2>1. r \in Growproc(size, inc)
    BY <1>1 DEF Sbrk
  <2>2. CASE inc > 0
    BY <2>1, <2>2 DEF Growproc
  <2>3. CASE inc < 0
    BY <2>1, <2>3 DEF Growproc, Uvmdealloc
  <2>4. CASE inc = 0
    BY <2>1, <2>4 DEF Growproc
  <2>5. QED
    BY <2>2, <2>3, <2>4
<1>2. CASE ~(eager \/ inc < 0)
  BY <1>2 DEF Sbrk
<1>3. QED
  BY <1>1, <1>2

\* The two tests of fetchaddr() together keep the word inside the process,
\* although addr + sizeof(uint64) may wrap: for any size, the first test
\* bounds addr, and the wrapped sum is then below addr.
LEMMA FetchInside ==
    ASSUME NEW size \in 0..TRAPFRAME, NEW addr \in 0..UintMod - 1, Fetchaddr(addr, size)
    PROVE  addr + Word <= size
BY UserMemAssumption DEF Fetchaddr, Uint

-----------------------------------------------------------------------------
(***************************************************************************)
(* The inductive invariant.  A process inside the loop of pause() holds    *)
(* tickslock or sleeps; the unsigned difference is the number of ticks     *)
(* gone by, since the pause is looked at before the difference can wrap;   *)
(* one that goes to sleep is short of its time, as the clock cannot move   *)
(* until it is asleep.                                                     *)
(***************************************************************************)
LockHeld ==
    /\ \A p \in Proc : pc[p] \in {"test", "sleep"} <=> tickslock = p
    /\ wslot # 0 <=> tickslock = Clock

TicksCounted ==
    \A p \in Proc : Pausing(p) =>
        elapsed[p] = Since(p) /\ elapsed[p] <= n[p] + Lag /\ n[p] + Lag + 1 < TickMod

SleepsShort ==
    \A p \in Proc : /\ asleep[p] => pc[p] = "wait"
                    /\ pc[p] = "sleep" => elapsed[p] < n[p]

\* Once back in user mode after a kill, a process meets a test of killed
\* before anything else.
MeetsTest ==
    \A p \in Proc : /\ returns[p] > 0 => killed[p] /\ pc[p] \in {"user", "entry", "check", "dead"}
                    /\ returns[p] <= 1

SizesBelow == \A p \in Growing : sz[p] \in 0..TRAPFRAME

SInv ==
    /\ SysTypeOK /\ LockHeld /\ TicksCounted /\ SleepsShort /\ MeetsTest
    /\ SizesBelow /\ NoOversleep

LEMMA InitSInv == Init => SInv
BY SysProcAssumption, UserMemAssumption
   DEF Init, SInv, SysTypeOK, LockHeld, TicksCounted, SleepsShort, MeetsTest,
       SizesBelow, NoOversleep, Pausing, Pcs, Proc, Clock, Free

LEMMA StepSInv == SInv /\ [Next]_vars => SInv'
<1> SUFFICES ASSUME SInv, [Next]_vars
             PROVE  SInv'
  OBVIOUS
<1> USE DEF SInv, Goto
<1>c. /\ NPROC \in Nat \ {0} /\ TickMod \in Nat /\ Lag \in Nat /\ Lag + 1 < TickMod
      /\ Clock \notin Proc /\ Free \notin Proc /\ Clock # Free /\ Growing \subseteq Proc
      /\ \A p \in Proc : p \in Nat \ {0} /\ p <= NPROC
  BY SysProcAssumption DEF Clock, Free, Proc
<1>1. CASE UNCHANGED vars
  BY <1>1 DEF vars, pauseVars, clockVars, SysTypeOK, LockHeld, TicksCounted,
     Pausing, Since, SleepsShort, MeetsTest, SizesBelow, NoOversleep
<1>2. ASSUME NEW p \in Proc, Ecall(p) \/ Interrupt(p) \/ Fault(p)
      PROVE  SInv'
  <2> USE <1>2 DEF Ecall, Interrupt, Fault, pauseVars, clockVars
  <2>1. SysTypeOK'
    BY <1>c DEF SysTypeOK, Pcs
  <2>2. LockHeld'
    BY <1>c DEF SysTypeOK, LockHeld
  <2>3. TicksCounted'
    BY <1>c DEF SysTypeOK, TicksCounted, Pausing, Since
  <2>4. SleepsShort'
    BY <1>c DEF SysTypeOK, SleepsShort
  <2>5. MeetsTest'
    BY <1>c DEF SysTypeOK, MeetsTest
  <2>6. SizesBelow'
    BY <1>c DEF SysTypeOK, SizesBelow
  <2>7. NoOversleep'
    BY <1>c DEF SysTypeOK, NoOversleep
  <2>8. QED
    BY <2>1, <2>2, <2>3, <2>4, <2>5, <2>6, <2>7
<1>3. ASSUME NEW p \in Proc, Entry(p) \/ Check(p)
      PROVE  SInv'
  <2> USE <1>3 DEF Entry, Check, pauseVars, clockVars
  <2>1. SysTypeOK'
    BY <1>c DEF SysTypeOK, Pcs
  <2>2. LockHeld'
    BY <1>c DEF SysTypeOK, LockHeld
  <2>3. TicksCounted'
    BY <1>c DEF SysTypeOK, TicksCounted, Pausing, Since
  <2>4. SleepsShort'
    BY <1>c DEF SysTypeOK, SleepsShort
  <2>5. MeetsTest'
    BY <1>c DEF SysTypeOK, MeetsTest
  <2>6. SizesBelow'
    BY <1>c DEF SysTypeOK, SizesBelow
  <2>7. NoOversleep'
    BY <1>c DEF SysTypeOK, NoOversleep
  <2>8. QED
    BY <2>1, <2>2, <2>3, <2>4, <2>5, <2>6, <2>7
<1>4. ASSUME NEW p \in Proc, Return(p)
      PROVE  SInv'
  <2> USE <1>4 DEF Return, pauseVars, clockVars
  <2>1. SysTypeOK'
    BY <1>c DEF SysTypeOK, Pcs
  <2>2. LockHeld'
    BY <1>c DEF SysTypeOK, LockHeld
  <2>3. TicksCounted'
    BY <1>c DEF SysTypeOK, TicksCounted, Pausing, Since
  <2>4. SleepsShort'
    BY <1>c DEF SysTypeOK, SleepsShort
  <2>5. MeetsTest'
    BY <1>c DEF SysTypeOK, MeetsTest
  <2>6. SizesBelow'
    BY <1>c DEF SysTypeOK, SizesBelow
  <2>7. NoOversleep'
    BY <1>c DEF SysTypeOK, NoOversleep
  <2>8. QED
    BY <2>1, <2>2, <2>3, <2>4, <2>5, <2>6, <2>7
<1>5. ASSUME NEW p \in Proc, OtherCall(p) \/ SysExit(p) \/ SysUptime(p)
      PROVE  SInv'
  <2> USE <1>5 DEF OtherCall, SysExit, SysUptime, pauseVars, clockVars
  <2>1. SysTypeOK'
    BY <1>c DEF SysTypeOK, Pcs
  <2>2. LockHeld'
    BY <1>c DEF SysTypeOK, LockHeld
  <2>3. TicksCounted'
    BY <1>c DEF SysTypeOK, TicksCounted, Pausing, Since
  <2>4. SleepsShort'
    BY <1>c DEF SysTypeOK, SleepsShort
  <2>5. MeetsTest'
    BY <1>c DEF SysTypeOK, MeetsTest
  <2>6. SizesBelow'
    BY <1>c DEF SysTypeOK, SizesBelow
  <2>7. NoOversleep'
    BY <1>c DEF SysTypeOK, NoOversleep
  <2>8. QED
    BY <2>1, <2>2, <2>3, <2>4, <2>5, <2>6, <2>7
<1>6. ASSUME NEW p \in Proc, NEW q \in Proc, SysKill(p, q)
      PROVE  SInv'
  <2> USE <1>6 DEF SysKill, clockVars
  <2>1. SysTypeOK'
    BY <1>c DEF SysTypeOK, Pcs
  <2>2. LockHeld'
    BY <1>c DEF SysTypeOK, LockHeld
  <2>3. TicksCounted'
    BY <1>c DEF SysTypeOK, TicksCounted, Pausing, Since
  <2>4. SleepsShort'
    BY <1>c DEF SysTypeOK, SleepsShort
  <2>5. MeetsTest'
    BY <1>c DEF SysTypeOK, MeetsTest
  <2>6. SizesBelow'
    BY <1>c DEF SysTypeOK, SizesBelow
  <2>7. NoOversleep'
    BY <1>c DEF SysTypeOK, NoOversleep
  <2>8. QED
    BY <2>1, <2>2, <2>3, <2>4, <2>5, <2>6, <2>7
<1>7. ASSUME NEW p \in Growing, NEW inc \in Increments, NEW eager \in BOOLEAN,
             SysSbrk(p, inc, eager)
      PROVE  SInv'
  <2> USE <1>7 DEF SysSbrk, pauseVars, clockVars
  <2>1. SysTypeOK'
    <3>1. PICK r \in Sbrk(sz[p], inc, eager) : sz' = [sz EXCEPT ![p] = r.sz]
      OBVIOUS
    <3>2. inc \in CInt /\ sz[p] \in 0..TRAPFRAME
      BY SysProcAssumption DEF SizesBelow
    <3>3. r.sz \in 0..TRAPFRAME
      BY <3>1, <3>2, SbrkExact
    <3>4. r.sz \in 0..UintMod - 1
      BY <3>3, UserMemAssumption
    <3>5. QED
      BY <1>c, <3>1, <3>4 DEF SysTypeOK, Pcs
  <2>2. LockHeld'
    BY <1>c DEF SysTypeOK, LockHeld
  <2>3. TicksCounted'
    BY <1>c DEF SysTypeOK, TicksCounted, Pausing, Since
  <2>4. SleepsShort'
    BY <1>c DEF SysTypeOK, SleepsShort
  <2>5. MeetsTest'
    BY <1>c DEF SysTypeOK, MeetsTest
  <2>6. SizesBelow'
    <3>1. PICK r \in Sbrk(sz[p], inc, eager) : sz' = [sz EXCEPT ![p] = r.sz]
      OBVIOUS
    <3>2. inc \in CInt /\ sz[p] \in 0..TRAPFRAME
      BY SysProcAssumption DEF SizesBelow
    <3>3. r.sz \in 0..TRAPFRAME
      BY <3>1, <3>2, SbrkExact
    <3>4. QED
      BY <3>1, <3>3 DEF SysTypeOK, SizesBelow
  <2>7. NoOversleep'
    BY <1>c DEF SysTypeOK, NoOversleep
  <2>8. QED
    BY <2>1, <2>2, <2>3, <2>4, <2>5, <2>6, <2>7
<1>8. ASSUME NEW p \in Proc, NEW arg \in Pauses, PauseBegin(p, arg)
      PROVE  SInv'
  <2> USE <1>8 DEF PauseBegin
  <2>1. SysTypeOK'
    BY <1>c, SysProcAssumption DEF SysTypeOK, Pcs
  <2>2. LockHeld'
    BY <1>c DEF SysTypeOK, LockHeld
  <2>3. TicksCounted'
    BY <1>c, SysProcAssumption DEF SysTypeOK, TicksCounted, Pausing, Since
  <2>4. SleepsShort'
    BY <1>c DEF SysTypeOK, SleepsShort
  <2>5. MeetsTest'
    BY <1>c DEF SysTypeOK, MeetsTest
  <2>6. SizesBelow'
    BY <1>c DEF SysTypeOK, SizesBelow
  <2>7. NoOversleep'
    BY <1>c DEF SysTypeOK, NoOversleep
  <2>8. QED
    BY <2>1, <2>2, <2>3, <2>4, <2>5, <2>6, <2>7
<1>9. ASSUME NEW p \in Proc, PauseEnd(p)
      PROVE  SInv'
  <2> USE <1>9 DEF PauseEnd
  <2>1. SysTypeOK'
    BY <1>c DEF SysTypeOK, Pcs
  <2>2. LockHeld'
    BY <1>c DEF SysTypeOK, LockHeld
  <2>3. TicksCounted'
    BY <1>c DEF SysTypeOK, TicksCounted, Pausing, Since
  <2>4. SleepsShort'
    BY <1>c DEF SysTypeOK, SleepsShort
  <2>5. MeetsTest'
    BY <1>c DEF SysTypeOK, MeetsTest
  <2>6. SizesBelow'
    BY <1>c DEF SysTypeOK, SizesBelow
  <2>7. NoOversleep'
    BY <1>c DEF SysTypeOK, NoOversleep
  <2>8. QED
    BY <2>1, <2>2, <2>3, <2>4, <2>5, <2>6, <2>7
<1>10. ASSUME NEW p \in Proc, PauseTest(p)
      PROVE  SInv'
  <2> USE <1>10 DEF PauseTest, Short, pauseVars, clockVars
  <2>1. SysTypeOK'
    BY <1>c DEF SysTypeOK, Pcs
  <2>2. LockHeld'
    BY <1>c DEF SysTypeOK, LockHeld
  <2>3. TicksCounted'
    BY <1>c DEF SysTypeOK, TicksCounted, Pausing, Since
  <2>4. SleepsShort'
    BY <1>c DEF SysTypeOK, SleepsShort, TicksCounted, Pausing
  <2>5. MeetsTest'
    BY <1>c DEF SysTypeOK, MeetsTest
  <2>6. SizesBelow'
    BY <1>c DEF SysTypeOK, SizesBelow
  <2>7. NoOversleep'
    BY <1>c DEF SysTypeOK, NoOversleep
  <2>8. QED
    BY <2>1, <2>2, <2>3, <2>4, <2>5, <2>6, <2>7
<1>11. ASSUME NEW p \in Proc, SleepTicks(p)
      PROVE  SInv'
  <2> USE <1>11 DEF SleepTicks
  <2>1. SysTypeOK'
    BY <1>c DEF SysTypeOK, Pcs
  <2>2. LockHeld'
    BY <1>c DEF SysTypeOK, LockHeld
  <2>3. TicksCounted'
    BY <1>c DEF SysTypeOK, TicksCounted, Pausing, Since
  <2>4. SleepsShort'
    BY <1>c DEF SysTypeOK, SleepsShort
  <2>5. MeetsTest'
    BY <1>c DEF SysTypeOK, MeetsTest
  <2>6. SizesBelow'
    BY <1>c DEF SysTypeOK, SizesBelow
  <2>7. NoOversleep'
    BY <1>c DEF SysTypeOK, NoOversleep, SleepsShort
  <2>8. QED
    BY <2>1, <2>2, <2>3, <2>4, <2>5, <2>6, <2>7
<1>12. ASSUME NEW p \in Proc, Awake(p)
      PROVE  SInv'
  <2> USE <1>12 DEF Awake, pauseVars
  <2>1. SysTypeOK'
    BY <1>c DEF SysTypeOK, Pcs
  <2>2. LockHeld'
    BY <1>c DEF SysTypeOK, LockHeld
  <2>3. TicksCounted'
    BY <1>c DEF SysTypeOK, TicksCounted, Pausing, Since
  <2>4. SleepsShort'
    BY <1>c DEF SysTypeOK, SleepsShort
  <2>5. MeetsTest'
    BY <1>c DEF SysTypeOK, MeetsTest
  <2>6. SizesBelow'
    BY <1>c DEF SysTypeOK, SizesBelow
  <2>7. NoOversleep'
    BY <1>c DEF SysTypeOK, NoOversleep
  <2>8. QED
    BY <2>1, <2>2, <2>3, <2>4, <2>5, <2>6, <2>7
<1>13. CASE Tick
  <2> USE <1>13 DEF Tick
  <2>1. SysTypeOK'
    BY <1>c DEF SysTypeOK, Pcs
  <2>2. LockHeld'
    BY <1>c DEF SysTypeOK, LockHeld
  <2>3. TicksCounted'
    BY <1>c DEF SysTypeOK, TicksCounted, Pausing, Since
  <2>4. SleepsShort'
    BY <1>c DEF SysTypeOK, SleepsShort, LockHeld
  <2>5. MeetsTest'
    BY <1>c DEF SysTypeOK, MeetsTest
  <2>6. SizesBelow'
    BY <1>c DEF SysTypeOK, SizesBelow
  <2>7. NoOversleep'
    BY <1>c DEF SysTypeOK, NoOversleep
  <2>8. QED
    BY <2>1, <2>2, <2>3, <2>4, <2>5, <2>6, <2>7
<1>14. CASE WakeSlot
  <2> USE <1>14 DEF WakeSlot
  <2>1. SysTypeOK'
    <3>1. wslot' \in 0..NPROC
      BY <1>c DEF SysTypeOK
    <3>2. tickslock' \in Proc \cup {Clock, Free}
      BY DEF SysTypeOK
    <3>3. asleep' \in [Proc -> BOOLEAN]
      BY DEF SysTypeOK
    <3>4. QED
      BY <3>1, <3>2, <3>3 DEF SysTypeOK
  <2>2. LockHeld'
    BY <1>c DEF SysTypeOK, LockHeld
  <2>3. TicksCounted'
    BY <1>c DEF SysTypeOK, TicksCounted, Pausing, Since
  <2>4. SleepsShort'
    BY <1>c DEF SysTypeOK, SleepsShort
  <2>5. MeetsTest'
    BY <1>c DEF SysTypeOK, MeetsTest
  <2>6. SizesBelow'
    BY <1>c DEF SysTypeOK, SizesBelow
  <2>7. NoOversleep'
    BY <1>c DEF SysTypeOK, NoOversleep
  <2>8. QED
    BY <2>1, <2>2, <2>3, <2>4, <2>5, <2>6, <2>7
<1>15. QED
  BY <1>c, <1>1, <1>2, <1>3, <1>4, <1>5, <1>6, <1>7, <1>8, <1>9, <1>10, <1>11,
     <1>12, <1>13, <1>14 DEF Next, Call, Kernel

THEOREM SysInvariant == SafetySpec => []SInv
BY InitSInv, StepSInv, PTL DEF SafetySpec

\* Every variable of the trap and of sysproc.c stays in its range.
THEOREM SysTypeCorrect == SafetySpec => []SysTypeOK
<1>1. SInv => SysTypeOK
  BY DEF SInv
<1>2. QED
  BY <1>1, SysInvariant, PTL

\* No wakeup of a pause is lost.
THEOREM PauseWoken == SafetySpec => []NoOversleep
<1>1. SInv => NoOversleep
  BY DEF SInv
<1>2. QED
  BY <1>1, SysInvariant, PTL

\* A pause lasts as many ticks as it was asked for, across the wrap of ticks.
THEOREM PauseExact == SafetySpec => PauseNotEarly
<1>1. SInv /\ [Next]_vars =>
        [\A p \in Proc : Pausing(p) /\ ~Pausing(p)' => elapsed[p] >= n[p] \/ killed[p]]_vars
  <2> SUFFICES ASSUME SInv, Next, NEW p \in Proc, Pausing(p), ~Pausing(p)'
               PROVE  elapsed[p] >= n[p] \/ killed[p]
    OBVIOUS
  <2>1. PauseEnd(p)
    BY DEF Next, Kernel, Call, Pausing, Ecall, Interrupt, Fault, Entry, Check, Return,
       OtherCall, SysExit, SysUptime, SysKill, SysSbrk, PauseBegin, PauseEnd, PauseTest,
       SleepTicks, Awake, Tick, WakeSlot, Goto, SInv, SysTypeOK, clockVars
  <2>2. QED
    BY <2>1 DEF PauseEnd, Short, SInv, SysTypeOK, TicksCounted
<1>2. QED
  BY <1>1, SysInvariant, PTL DEF SafetySpec, PauseNotEarly

\* After a kill: one return to user mode at most, and no system call from it.
THEOREM KillEffective == SafetySpec => []KilledStops
<1>1. SInv => KilledStops
  BY DEF SInv, SysTypeOK, MeetsTest, KilledStops
<1>2. QED
  BY <1>1, SysInvariant, PTL

\* User memory ends below the trapframe and contains what is fetched from it.
THEOREM SizesCorrect == SafetySpec => []SizeSound
<1>1. SInv => SizeSound
  BY FetchInside, UserMemAssumption DEF SInv, SizesBelow, SizeSound
<1>2. QED
  BY <1>1, SysInvariant, PTL
=============================================================================
