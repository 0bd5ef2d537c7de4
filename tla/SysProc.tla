------------------------------ MODULE SysProc ------------------------------
(***************************************************************************)
(* A process in user mode and its traps: usertrap() and its two tests of   *)
(* p->killed (trap.c), the dispatch of a system call (syscall.c), and the  *)
(* calls of sysproc.c that are not fork, wait or waitx: sys_pause(),       *)
(* sys_uptime(), sys_kill(), sys_sbrk(), sys_exit(); with them clockintr(), *)
(* which moves ticks and wakes the processes that pause.                   *)
(*                                                                         *)
(* RUNNING counts as RUNNABLE: which process a hart runs is the business   *)
(* of the schedulers.  A critical section over one p->lock is one step;    *)
(* tickslock stays held over several.  A timer interrupt in the kernel     *)
(* only yields, and is not visible here.                                   *)
(***************************************************************************)
EXTENDS UserMem

CONSTANTS NPROC,
          TickMod,      \* 2^32, the range of ticks
          Pauses,       \* the arguments of pause() that programs use
          Increments,   \* the arguments of sbrk() that programs use
          Growing,      \* bound: the processes that call sbrk()
          Lag           \* bound: a pause that is over is looked at again
                        \* within so many ticks

Proc == 1..NPROC

ASSUME SysProcAssumption ==
    /\ NPROC \in Nat \ {0} /\ TickMod \in Nat /\ Lag \in Nat
    /\ Pauses \subseteq Int /\ Increments \subseteq CInt /\ Growing \subseteq Proc
    /\ Lag + 1 < TickMod /\ \A arg \in Pauses : arg + Lag + 1 < TickMod

Clock == 0      \* holder of tickslock, beside the processes
Free == -1

VARIABLES
    pc,         \* where the process is, see Pcs
    asleep,     \* p->state = SLEEPING, with p->chan = &ticks
    killed,     \* p->killed
    n,          \* n of sys_pause()
    ticks0,     \* ticks0 of sys_pause()
    sz,         \* p->sz
    ticks,
    tickslock,  \* its holder
    wslot,      \* slot that the wakeup() of clockintr() is at, 0 outside
    elapsed,    \* history: the ticks since ticks0 was read
    returns     \* history: how often the process entered user mode since it
                \* was killed

pauseVars == <<asleep, n, ticks0, elapsed>>
clockVars == <<ticks, tickslock, wslot>>
vars == <<pc, killed, sz, returns, pauseVars, clockVars>>

\* user:   in user mode
\* entry:  in usertrap(), ecall, before the first test of killed
\* call:   in syscall()
\* test:   in sys_pause(), holds tickslock, at the head of the loop
\* sleep:  has found killed = 0, calls sleep()
\* wait:   in sleep(), after p->state = SLEEPING; then acquires tickslock
\* check:  in usertrap(), before the second test of killed
\* return: after that test
\* dead:   in kexit()
Pcs == {"user", "entry", "call", "test", "sleep", "wait", "check", "return", "dead"}

SysTypeOK ==
    /\ pc \in [Proc -> Pcs]
    /\ asleep \in [Proc -> BOOLEAN]
    /\ killed \in [Proc -> BOOLEAN]
    /\ n \in [Proc -> Nat]
    /\ ticks0 \in [Proc -> 0..TickMod - 1]
    /\ sz \in [Growing -> 0..UintMod - 1]
    /\ ticks \in 0..TickMod - 1
    /\ tickslock \in Proc \cup {Clock, Free}
    /\ wslot \in 0..NPROC
    /\ elapsed \in [Proc -> Nat]
    /\ returns \in [Proc -> 0..2]

Init ==
    /\ pc = [p \in Proc |-> "user"]
    /\ asleep = [p \in Proc |-> FALSE]
    /\ killed = [p \in Proc |-> FALSE]
    /\ n = [p \in Proc |-> 0]
    /\ ticks0 = [p \in Proc |-> 0]
    /\ sz = [p \in Growing |-> 0]
    /\ ticks = 0
    /\ tickslock = Free
    /\ wslot = 0
    /\ elapsed = [p \in Proc |-> 0]
    /\ returns = [p \in Proc |-> 0]

Goto(p, l) == pc' = [pc EXCEPT ![p] = l]

-----------------------------------------------------------------------------
(* usertrap()                                                              *)

\* ecall.
Ecall(p) ==
    /\ pc[p] = "user"
    /\ Goto(p, "entry")
    /\ UNCHANGED <<killed, sz, returns, pauseVars, clockVars>>

\* A timer or device interrupt, or a page fault that vmfault() mends.
Interrupt(p) ==
    /\ pc[p] = "user"
    /\ Goto(p, "check")
    /\ UNCHANGED <<killed, sz, returns, pauseVars, clockVars>>

\* Any other trap: setkilled(p).
Fault(p) ==
    /\ pc[p] = "user"
    /\ killed' = [killed EXCEPT ![p] = TRUE]
    /\ Goto(p, "check")
    /\ UNCHANGED <<sz, returns, pauseVars, clockVars>>

\* Slip: a system call is begun without a look at killed.
EntryUntested(p) ==
    /\ pc[p] = "entry"
    /\ Goto(p, "call")
    /\ UNCHANGED <<killed, sz, returns, pauseVars, clockVars>>

\* if(killed(p)) kexit(-1), before syscall().
Entry(p) ==
    /\ pc[p] = "entry"
    /\ Goto(p, IF killed[p] THEN "dead" ELSE "call")
    /\ UNCHANGED <<killed, sz, returns, pauseVars, clockVars>>

\* if(killed(p)) kexit(-1), after the trap is handled.  What follows a timer
\* interrupt, yield(), lets others run before prepare_return().
Check(p) ==
    /\ pc[p] = "check"
    /\ Goto(p, IF killed[p] THEN "dead" ELSE "return")
    /\ UNCHANGED <<killed, sz, returns, pauseVars, clockVars>>

\* prepare_return(), and back to user mode.
Return(p) ==
    /\ pc[p] = "return"
    /\ Goto(p, "user")
    /\ returns' = [returns EXCEPT ![p] = IF killed[p] /\ @ < 2 THEN @ + 1 ELSE @]
    /\ UNCHANGED <<killed, sz, pauseVars, clockVars>>

-----------------------------------------------------------------------------
(* syscall(): the calls that return at once                                *)

\* An unknown number, getpid(), or a call of another module that does not
\* sleep: fork(), file system calls.
OtherCall(p) ==
    /\ pc[p] = "call"
    /\ Goto(p, "check")
    /\ UNCHANGED <<killed, sz, returns, pauseVars, clockVars>>

SysExit(p) ==
    /\ pc[p] = "call"
    /\ Goto(p, "dead")
    /\ UNCHANGED <<killed, sz, returns, pauseVars, clockVars>>

\* Takes and drops tickslock.
SysUptime(p) ==
    /\ pc[p] = "call"
    /\ tickslock = Free
    /\ Goto(p, "check")
    /\ UNCHANGED <<killed, sz, returns, pauseVars, clockVars>>

\* kkill(): wakes a sleeper, whatever it sleeps on.
SysKill(p, q) ==
    /\ pc[p] = "call"
    /\ killed' = [killed EXCEPT ![q] = TRUE]
    /\ asleep' = [asleep EXCEPT ![q] = FALSE]
    /\ Goto(p, "check")
    /\ UNCHANGED <<sz, returns, n, ticks0, elapsed, clockVars>>

SysSbrk(p, inc, eager) ==
    /\ pc[p] = "call"
    /\ \E r \in Sbrk(sz[p], inc, eager) : sz' = [sz EXCEPT ![p] = r.sz]
    /\ Goto(p, "check")
    /\ UNCHANGED <<killed, returns, pauseVars, clockVars>>

-----------------------------------------------------------------------------
(* sys_pause()                                                             *)

\* acquire(&tickslock); ticks0 = ticks.
PauseBegin(p, arg) ==
    /\ pc[p] = "call"
    /\ tickslock = Free
    /\ tickslock' = p
    /\ n' = [n EXCEPT ![p] = IF arg < 0 THEN 0 ELSE arg]
    /\ ticks0' = [ticks0 EXCEPT ![p] = ticks]
    /\ elapsed' = [elapsed EXCEPT ![p] = 0]
    /\ Goto(p, "test")
    /\ UNCHANGED <<killed, sz, returns, asleep, ticks, wslot>>

\* ticks - ticks0, in unsigned arithmetic.
Since(p) ==
    IF ticks >= ticks0[p] THEN ticks - ticks0[p] ELSE ticks + TickMod - ticks0[p]

Short(p) == Since(p) < n[p]

\* The loop ends, or the process is killed: release(&tickslock).  The local
\* variables die.
PauseEnd(p) ==
    /\ pc[p] = "test"
    /\ Short(p) => killed[p]
    /\ tickslock' = Free
    /\ n' = [n EXCEPT ![p] = 0]
    /\ ticks0' = [ticks0 EXCEPT ![p] = 0]
    /\ elapsed' = [elapsed EXCEPT ![p] = 0]
    /\ Goto(p, "check")
    /\ UNCHANGED <<killed, sz, returns, asleep, ticks, wslot>>

\* Slip: tickslock is released before p->lock is held.
PauseTestReleases(p) ==
    /\ pc[p] = "test"
    /\ Short(p) /\ ~killed[p]
    /\ tickslock' = Free
    /\ Goto(p, "sleep")
    /\ UNCHANGED <<killed, sz, returns, pauseVars, ticks, wslot>>

\* killed() has taken and dropped p->lock, and sleep() has not taken it yet.
PauseTest(p) ==
    /\ pc[p] = "test"
    /\ Short(p) /\ ~killed[p]
    /\ Goto(p, "sleep")
    /\ UNCHANGED <<killed, sz, returns, pauseVars, clockVars>>

\* sleep(): acquire(&p->lock), release(&tickslock), SLEEPING.  p->lock is
\* held until the switch is over; nobody sees less than the whole.
SleepTicks(p) ==
    /\ pc[p] = "sleep"
    /\ asleep' = [asleep EXCEPT ![p] = TRUE]
    /\ tickslock' = Free
    /\ Goto(p, "wait")
    /\ UNCHANGED <<killed, sz, returns, n, ticks0, elapsed, ticks, wslot>>

\* Slip: the process takes any wakeup for the end of the pause.
AwakeAtOnce(p) ==
    /\ pc[p] = "wait" /\ ~asleep[p]
    /\ Goto(p, "check")
    /\ UNCHANGED <<killed, sz, returns, pauseVars, clockVars>>

\* The end of sleep(): acquire(&tickslock).
Awake(p) ==
    /\ pc[p] = "wait" /\ ~asleep[p]
    /\ tickslock = Free
    /\ tickslock' = p
    /\ Goto(p, "test")
    /\ UNCHANGED <<killed, sz, returns, pauseVars, ticks, wslot>>

-----------------------------------------------------------------------------
(* clockintr() on hart 0                                                   *)

Pausing(p) == pc[p] \in {"test", "sleep", "wait"}

\* acquire(&tickslock); ticks++.
Tick ==
    /\ tickslock = Free
    /\ \A p \in Proc : Pausing(p) => elapsed[p] < n[p] + Lag
    /\ tickslock' = Clock
    /\ ticks' = IF ticks + 1 = TickMod THEN 0 ELSE ticks + 1
    /\ elapsed' = [p \in Proc |-> IF Pausing(p) THEN elapsed[p] + 1 ELSE 0]
    /\ wslot' = 1
    /\ UNCHANGED <<pc, killed, sz, returns, asleep, n, ticks0>>

\* Slip: the loop goes one slot too far.
WakeSlotPastEnd ==
    /\ wslot # 0
    /\ asleep' = [asleep EXCEPT ![wslot] = FALSE]
    /\ wslot' = IF wslot > NPROC THEN 0 ELSE wslot + 1
    /\ tickslock' = IF wslot > NPROC THEN Free ELSE tickslock
    /\ UNCHANGED <<pc, killed, sz, returns, n, ticks0, elapsed, ticks>>

\* Slip: tickslock is not released.
WakeSlotKeepsLock ==
    /\ wslot # 0
    /\ asleep' = [asleep EXCEPT ![wslot] = FALSE]
    /\ wslot' = IF wslot = NPROC THEN 0 ELSE wslot + 1
    /\ UNCHANGED <<pc, killed, sz, returns, n, ticks0, elapsed, ticks, tickslock>>

\* wakeup(&ticks), one slot; after the last, release(&tickslock).
WakeSlot ==
    /\ wslot # 0
    /\ asleep' = [asleep EXCEPT ![wslot] = FALSE]
    /\ wslot' = IF wslot = NPROC THEN 0 ELSE wslot + 1
    /\ tickslock' = IF wslot = NPROC THEN Free ELSE tickslock
    /\ UNCHANGED <<pc, killed, sz, returns, n, ticks0, elapsed, ticks>>

-----------------------------------------------------------------------------
\* What the kernel does for p once p has trapped.
Kernel(p) ==
    \/ Entry(p) \/ Check(p) \/ Return(p)
    \/ PauseEnd(p) \/ PauseTest(p) \/ SleepTicks(p) \/ Awake(p)

Call(p) ==
    \/ OtherCall(p) \/ SysExit(p) \/ SysUptime(p)
    \/ \E q \in Proc : SysKill(p, q)
    \/ \E arg \in Pauses : PauseBegin(p, arg)
    \/ p \in Growing /\ \E inc \in Increments, eager \in BOOLEAN : SysSbrk(p, inc, eager)

Next ==
    \/ Tick \/ WakeSlot
    \/ \E p \in Proc : Ecall(p) \/ Interrupt(p) \/ Fault(p) \/ Call(p) \/ Kernel(p)

SafetySpec == Init /\ [][Next]_vars

\* The clock keeps ticking, and gets tickslock in the end.  A process that
\* has trapped is scheduled again and again and gets its locks; in user mode
\* it is interrupted, if by nothing else then by the timer.
Fairness ==
    /\ SF_vars(Tick) /\ WF_vars(WakeSlot)
    /\ \A p \in Proc : WF_vars(Interrupt(p)) /\ WF_vars(Call(p)) /\ SF_vars(Kernel(p))

Spec == SafetySpec /\ Fairness

-----------------------------------------------------------------------------
(* Properties                                                              *)

\* pause() does not end early: neither a wakeup for an earlier tick nor one
\* from kill() is taken for the end, and ticks may wrap meanwhile.
PauseNotEarly ==
    [][\A p \in Proc :
          Pausing(p) /\ ~Pausing(p)' => elapsed[p] >= n[p] \/ killed[p]]_vars

\* Nor does it oversleep: a process asleep although its time is over is still
\* ahead of the wakeup() loop of the tick that ended it.
NoOversleep ==
    \A p \in Proc :
        pc[p] = "wait" /\ asleep[p] /\ elapsed[p] >= n[p] => wslot \in 1..p

\* A process that has been killed enters user mode once more at most (it was
\* past the last test of killed), and begins no system call there.
KilledStops ==
    \A p \in Proc : returns[p] <= 1 /\ (pc[p] = "call" => returns[p] = 0)

\* The size stays below the trapframe, and what fetchaddr() accepts lies
\* inside it, although both additions may wrap.
SizeSound ==
    \A p \in Growing :
        /\ sz[p] <= TRAPFRAME
        /\ \A addr \in 0..UintMod - 1 : Fetchaddr(addr, sz[p]) => addr + Word <= sz[p]

\* A killed process exits, also when it was killed between the test of
\* killed and sleep(), where kill() finds nobody to wake.
KilledExits == \A p \in Proc : killed[p] ~> (pc[p] = "dead")
=============================================================================
