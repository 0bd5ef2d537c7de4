---------------------------- MODULE AdaptiveSched ----------------------------
(***************************************************************************)
(* adaptive/proc.c: the process with the lowest effective priority runs,   *)
(* where the effective priority falls with the ticks a process has waited. *)
(* scheduler() scans proc[] once, holding the lock of the best candidate   *)
(* so far while it acquires the next one.                                  *)
(* The arithmetic of the priority is in Aging.                             *)
(***************************************************************************)
EXTENDS ProcCore, Aging

CONSTANTS
    Cpu0,               \* the hart that counts ticks: cpuid() = 0
    MaxTicks            \* bound on ticks

ASSUME Cpu0Assumption == Cpu0 \in CPU

ASSUME MaxTicksAssumption == MaxTicks \in Nat

VARIABLES
    ticks,
    age_start,  \* p->age_start
    step,       \* where scheduler() is, see Steps
    idx,        \* slot of the scan
    chosen,     \* best candidate so far, its lock held
    best_pri,   \* its effective priority
    waiting,    \* history: the processes RUNNABLE ever since c began to scan
    scanStart,  \* history: ticks when c began to scan
    ready,      \* history: ticks when p last became RUNNABLE
    credit,     \* history: who has made p RUNNABLE with an older age_start
    trap        \* Cpu0 is in a timer interrupt of its process, before yield()

scanVars == <<step, idx, chosen, best_pri, scanStart>>
ageVars == <<ticks, age_start, credit, trap>>
adaptiveVars == <<coreVars, scanVars, ageVars, waiting, ready>>

\* scan:   about to acquire the lock of slot idx
\* decide: holds it
\* run:    the scan is over and chosen is set
\* back:   has switched to chosen
\* idle:   in wfi
Steps == {"scan", "decide", "run", "back", "idle"}

Credits == {"nobody", "kfork", "kkill"}

AdaptiveTypeOK ==
    /\ CoreTypeOK
    /\ ticks \in 0..MaxTicks
    /\ age_start \in [Proc -> 0..ticks]
    /\ step \in [CPU -> Steps]
    /\ idx \in [CPU -> 1..NPROC]
    /\ chosen \in [CPU -> Proc \cup {None}]
    /\ best_pri \in [CPU -> PRIORITY_MIN..PRIORITY_MAX + 1]
    /\ waiting \in [CPU -> SUBSET Proc]
    /\ scanStart \in [CPU -> 0..ticks]
    /\ ready \in [Proc -> 0..ticks]
    /\ credit \in [Proc -> Credits]
    /\ trap \in BOOLEAN

AdaptiveInit ==
    /\ CoreInit
    /\ ticks = 0
    /\ age_start = [p \in Proc |-> 0]
    /\ step = [c \in CPU |-> "scan"]
    /\ idx = [c \in CPU |-> 1]
    /\ chosen = [c \in CPU |-> None]
    /\ best_pri = [c \in CPU |-> PRIORITY_MAX + 1]
    /\ waiting = [c \in CPU |-> {InitProc}]
    /\ scanStart = [c \in CPU |-> 0]
    /\ ready = [p \in Proc |-> 0]
    /\ credit = [p \in Proc |-> "nobody"]
    /\ trap = FALSE

-----------------------------------------------------------------------------
(* History                                                                 *)

RunnableNext == {p \in Proc : state'[p] = "RUNNABLE"}

Track ==
    /\ waiting' = [c \in CPU |-> waiting[c] \cap RunnableNext]
    /\ ready' = [p \in Proc |-> IF p \in RunnableNext /\ state[p] # "RUNNABLE"
                                THEN ticks ELSE ready[p]]

TrackRestart(c) ==
    /\ waiting' = [d \in CPU |-> IF d = c THEN RunnableNext
                                          ELSE waiting[d] \cap RunnableNext]
    /\ UNCHANGED ready

-----------------------------------------------------------------------------
(* scheduler()                                                             *)

\* The effective priority of p at tick t.
EffAt(p, t) == CurrPri(t - age_start[p])

\* Slip: the sentinel is the default priority.
TopLowSentinel(c) ==
    /\ step' = [step EXCEPT ![c] = "scan"]
    /\ idx' = [idx EXCEPT ![c] = 1]
    /\ chosen' = [chosen EXCEPT ![c] = None]
    /\ best_pri' = [best_pri EXCEPT ![c] = PRIORITY_DEFAULT]
    /\ scanStart' = [scanStart EXCEPT ![c] = ticks]
    /\ TrackRestart(c)

\* The top of for(;;).
Top(c) ==
    /\ step' = [step EXCEPT ![c] = "scan"]
    /\ idx' = [idx EXCEPT ![c] = 1]
    /\ chosen' = [chosen EXCEPT ![c] = None]
    /\ best_pri' = [best_pri EXCEPT ![c] = PRIORITY_MAX + 1]
    /\ scanStart' = [scanStart EXCEPT ![c] = ticks]
    /\ TrackRestart(c)

\* Slip: the index runs past the last slot.
NextScanPastEnd(c, p) ==
    /\ idx' = [idx EXCEPT ![c] = @ + 1]
    /\ step' = [step EXCEPT ![c] = IF idx[c] < NPROC THEN "scan"
                                  ELSE IF p = None THEN "idle" ELSE "run"]

\* The slot just visited is done; p is the best candidate so far.
NextScan(c, p) ==
    \/ /\ idx[c] < NPROC
       /\ idx' = [idx EXCEPT ![c] = @ + 1]
       /\ step' = [step EXCEPT ![c] = "scan"]
    \/ /\ idx[c] = NPROC
       /\ step' = [step EXCEPT ![c] = IF p = None THEN "idle" ELSE "run"]
       /\ UNCHANGED idx

\* Slip: the other harts scan from the end.
SlotFromEnd(c) == IF c = Cpu0 THEN idx[c] ELSE NPROC + 1 - idx[c]

Slot(c) == idx[c]

ScanAcquire(c) ==
    /\ step[c] = "scan"
    /\ SchedAcquire(c, Slot(c))
    /\ step' = [step EXCEPT ![c] = "decide"]
    /\ Track
    /\ UNCHANGED <<idx, chosen, best_pri, scanStart, ageVars>>

\* Slip: the first RUNNABLE process wins.
FirstFound(c) == state[Slot(c)] = "RUNNABLE" /\ best_pri[c] = PRIORITY_MAX + 1

Better(c) == state[Slot(c)] = "RUNNABLE" /\ EffAt(Slot(c), ticks) < best_pri[c]

\* Slip: the lock of the last candidate is not released.
ScanKeepBoth(c) ==
    /\ InLoop(c) /\ step[c] = "decide"
    /\ Better(c)
    /\ UNCHANGED coreVars
    /\ chosen' = [chosen EXCEPT ![c] = Slot(c)]
    /\ best_pri' = [best_pri EXCEPT ![c] = EffAt(Slot(c), ticks)]
    /\ NextScan(c, Slot(c))
    /\ Track
    /\ UNCHANGED <<scanStart, ageVars>>

\* A better candidate: release the lock of the last one, keep this one.
ScanKeep(c) ==
    /\ InLoop(c) /\ step[c] = "decide"
    /\ Better(c)
    /\ IF chosen[c] = None THEN UNCHANGED coreVars ELSE SchedRelease(c, chosen[c])
    /\ chosen' = [chosen EXCEPT ![c] = Slot(c)]
    /\ best_pri' = [best_pri EXCEPT ![c] = EffAt(Slot(c), ticks)]
    /\ NextScan(c, Slot(c))
    /\ Track
    /\ UNCHANGED <<scanStart, ageVars>>

\* Not RUNNABLE, or not better: release at once.
ScanDrop(c) ==
    /\ step[c] = "decide"
    /\ ~Better(c)
    /\ SchedRelease(c, Slot(c))
    /\ NextScan(c, chosen[c])
    /\ Track
    /\ UNCHANGED <<chosen, best_pri, scanStart, ageVars>>

AdaptiveDispatch(c) ==
    /\ step[c] = "run"
    /\ Dispatch(c, chosen[c])
    /\ step' = [step EXCEPT ![c] = "back"]
    /\ credit' = [credit EXCEPT ![chosen[c]] = "nobody"]
    /\ Track
    /\ UNCHANGED <<idx, chosen, best_pri, scanStart, ticks, age_start, trap>>

\* Slip: c->proc is not cleared.
AdaptiveReturnKeepsProc(c) ==
    /\ step[c] = "back" /\ pc[c] = "switch"
    /\ lock' = [lock EXCEPT ![cproc[c]] = None]
    /\ pc' = [pc EXCEPT ![c] = "loop"]
    /\ UNCHANGED <<state, cproc, wslot, child, ageVars>>
    /\ Top(c)

AdaptiveReturn(c) ==
    /\ step[c] = "back"
    /\ Return(c)
    /\ Top(c)
    /\ UNCHANGED ageVars

LeaveIdle(c) ==
    /\ InLoop(c) /\ step[c] = "idle"
    /\ UNCHANGED <<coreVars, ageVars>>
    /\ Top(c)

-----------------------------------------------------------------------------
(* Processes and interrupts                                                *)

\* scheduler() takes interrupts at the top of its loop; one that ends wfi is
\* pending until then.
Interruptible(c) == InLoop(c) => step[c] = "scan" /\ idx[c] = 1

\* c is Cpu0, and the tick that its process was interrupted by is not over.
Trapped(c) == c = Cpu0 /\ trap

\* clockintr() on CPU 0: the tick, then wakeup(&ticks).
ClockIntr(c) ==
    /\ c = Cpu0 /\ ticks < MaxTicks
    /\ Interruptible(c) /\ ~Trapped(c)
    /\ WakeStart(c)
    /\ ticks' = ticks + 1
    /\ trap' = (pc[c] = "proc")
    /\ Track
    /\ UNCHANGED <<scanVars, age_start, credit>>

\* Another interrupt, or a process, calls wakeup().
OtherWakeStart(c) ==
    /\ Interruptible(c) /\ ~Trapped(c)
    /\ WakeStart(c)
    /\ Track
    /\ UNCHANGED <<scanVars, ageVars>>

StartAging(p) ==
    /\ age_start' = [age_start EXCEPT ![p] = ticks]
    /\ UNCHANGED <<scanVars, ticks, credit>>
    /\ Track

LeaveTrap(c) == trap' = (trap /\ c # Cpu0)

\* yield() on a timer interrupt.  On Cpu0 the tick comes first, in a step of
\* its own because other harts run in between; only once ticks has reached
\* MaxTicks is there none.
AdaptiveYield(c) ==
    /\ c = Cpu0 /\ ticks < MaxTicks => trap
    /\ Yield(c)
    /\ LeaveTrap(c)
    /\ StartAging(cproc[c])

\* kexit(), called by the process or, when it has been killed, by usertrap()
\* between the tick and yield().
AdaptiveExit(c) ==
    /\ Exit(c)
    /\ LeaveTrap(c)
    /\ Track
    /\ UNCHANGED <<scanVars, ticks, age_start, credit>>

\* Slip: the woken process keeps its old age_start.
AdaptiveWakeHitUnstamped(c, q) == WakeHit(c, q) /\ Track /\ UNCHANGED <<scanVars, ageVars>>

AdaptiveWakeHit(c, q) == WakeHit(c, q) /\ StartAging(q) /\ UNCHANGED trap

\* kfork() sets age_start here, before the child is RUNNABLE.
AdaptiveAlloc(c, q) == ~Trapped(c) /\ Alloc(c, q) /\ StartAging(q) /\ UNCHANGED trap

\* q becomes RUNNABLE with the age_start that it has.
Credit(q, by) ==
    /\ credit' = IF age_start[q] = ticks THEN credit ELSE [credit EXCEPT ![q] = by]
    /\ Track
    /\ UNCHANGED <<scanVars, ticks, age_start, trap>>

\* kfork() at its end: the time since Alloc counts as time waited.
AdaptiveFork(c, q) == ~Trapped(c) /\ MakeRunnable(c, q) /\ Credit(q, "kfork")

\* kkill(): the time since q was last preempted or woken, the time it ran and
\* slept included, counts as time waited.
AdaptiveKill(c, q) == ~Trapped(c) /\ Kill(c, q) /\ Credit(q, "kkill")

AdaptiveOther(c) ==
    /\ \/ Resume(c)
       \/ ~Trapped(c) /\ Sleep(c)
       \/ \E q \in Proc : WakeMiss(c, q) \/ (~Trapped(c) /\ Reap(c, q))
    /\ Track
    /\ UNCHANGED <<scanVars, ageVars>>

AdaptiveNext ==
    \E c \in CPU :
        \/ ScanAcquire(c) \/ ScanKeep(c) \/ ScanDrop(c) \/ LeaveIdle(c)
        \/ AdaptiveDispatch(c) \/ AdaptiveReturn(c) \/ AdaptiveYield(c)
        \/ ClockIntr(c) \/ OtherWakeStart(c) \/ AdaptiveExit(c) \/ AdaptiveOther(c)
        \/ \E q \in Proc : \/ AdaptiveWakeHit(c, q) \/ AdaptiveAlloc(c, q)
                           \/ AdaptiveFork(c, q) \/ AdaptiveKill(c, q)

AdaptiveSpec == AdaptiveInit /\ [][AdaptiveNext]_adaptiveVars

-----------------------------------------------------------------------------
(* Properties                                                              *)

\* p has not waited so long that its boost overflows.
InRange(p) == Fits(ticks - age_start[p])

\* "select the process with the lowest effective priority": no process that
\* was RUNNABLE during the whole scan was more urgent at its start than the
\* process chosen, although ticks moves and slots change behind the scan.
\* A process whose boost overflows is not compared.
MostUrgentChosen ==
    \A c \in CPU : step[c] = "run" =>
        \A q \in waiting[c] : InRange(q) => best_pri[c] <= EffAt(q, scanStart[c])

\* Aging is first come, first served.  A process that is about to run, and
\* has not waited long enough to be as urgent as can be, has been RUNNABLE no
\* shorter than any that was RUNNABLE during the whole scan, but for the ticks
\* that passed while the scan went on.  Who became RUNNABLE later overtakes
\* only by way of kkill() and kfork(), which keep an old age_start; and only
\* who waits past the overflow is overtaken.
OldestFirst ==
    \A c \in CPU : step[c] = "run" /\ credit[chosen[c]] = "nobody" =>
        \A q \in waiting[c] : InRange(q) =>
            \/ (ticks - ready[chosen[c]]) * AGING_RATE >= PRIORITY_DEFAULT - PRIORITY_MIN
            \/ scanStart[c] - ready[q] <= ticks - ready[chosen[c]]

\* A CPU goes into wfi only when no process was RUNNABLE during the whole
\* scan, but for one whose boost has overflowed.
IdleJustified ==
    \A c \in CPU : step[c] = "idle" => \A q \in waiting[c] : ~InRange(q)

\* "No runnable process found", says scheduler() where it goes into wfi: then
\* there is no process that kkill() has woken and that nobody has run yet.
KilledIsFound ==
    \A c \in CPU : step[c] = "idle" => \A q \in waiting[c] : credit[q] # "kkill"

Held(c) == {p \in Proc : lock[p] = c}

\* sched() panics unless the process holds its own lock and no other
\* ("sched locks"); the scheduler hands over with exactly that lock held.
SchedLocks ==
    \A c \in CPU : pc[c] \in {"resume", "switch"} => Held(c) = {cproc[c]}

\* The lock a CPU spins on, None if it does not.
Wants(c) ==
    IF InLoop(c) /\ step[c] = "scan" THEN Slot(c)
    ELSE IF wslot[c] # 0 /\ wslot[c] # cproc[c] THEN wslot[c] ELSE None

WaitsFor(c, d) == Wants(c) # None /\ lock[Wants(c)] = d

\* Two CPUs never hold what the other spins on, although scheduler() holds
\* one p->lock while it acquires the next.
NoLockCycle == \A c, d \in CPU : ~(WaitsFor(c, d) /\ WaitsFor(d, c))

\* "Compute how long this process has been waiting since it last became
\* RUNNABLE": ticks - age_start is that time exactly, however scans,
\* preemptions, wakeups and ticks interleave, and never less than that.  More
\* it is only for a process that kkill() or kfork() has made RUNNABLE and that
\* has not run since.
WaitMeasured ==
    \A p \in Proc : state[p] = "RUNNABLE" =>
        /\ age_start[p] <= ready[p]
        /\ credit[p] = "nobody" => age_start[p] = ready[p]
=============================================================================
