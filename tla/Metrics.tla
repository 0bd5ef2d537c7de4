------------------------------ MODULE Metrics ------------------------------
(***************************************************************************)
(* The times and counts that waitx() reports of an exited child: ctime,    *)
(* rtime, etime and nswtch, kept in struct proc by allocproc(),            *)
(* update_process_times(), kexit() and sched().  lpt/proc.c is followed;   *)
(* the three variants agree.                                               *)
(*                                                                         *)
(* Every action is one of ProcCore with the counters added, or leaves      *)
(* ProcCore's variables alone.  New is the timer interrupt as three steps: *)
(* clockintr(), update_process_times(), yield(), with the locks free in    *)
(* between, and kexit() as two: it reads ticks when it begins, and goes on *)
(* to run, to be preempted and to sleep before it is a zombie.             *)
(***************************************************************************)
EXTENDS ProcCore

CONSTANTS Cpu0,         \* hart 0, whose timer interrupt is the clock
          Measured,     \* bound: the slots whose counters are followed
          MaxTicks,     \* bound: the clock stops counting here
          MaxSwitches   \* bound: nswtch saturates here, rtime one below

ASSUME MetricsAssumption ==
    /\ Cpu0 \in CPU
    /\ Measured \subseteq Proc
    /\ MaxTicks \in Nat
    /\ MaxSwitches \in Nat \ {0}

VARIABLES
    ticks,
    ctime, rtime, etime, nswtch,    \* of the Measured slots
    trap,       \* how far a hart is in a timer interrupt of its process
    exiting     \* the Measured processes inside kexit(), past p->etime = ticks

counters == <<ticks, ctime, rtime, etime, nswtch>>
metVars == <<coreVars, counters, trap, exiting>>

\* none:   not in one
\* charge: clockintr() is done
\* yield:  update_process_times() is done
TrapSteps == {"none", "charge", "yield"}

MetricsTypeOK ==
    /\ CoreTypeOK
    /\ ticks \in 0..MaxTicks
    /\ ctime \in [Measured -> 0..MaxTicks]
    /\ etime \in [Measured -> 0..MaxTicks]
    /\ rtime \in [Measured -> 0..MaxSwitches - 1]
    /\ nswtch \in [Measured -> 0..MaxSwitches]
    /\ trap \in [CPU -> TrapSteps]
    /\ exiting \subseteq Measured

MetricsInit ==
    /\ CoreInit
    /\ ticks = 0
    /\ ctime = [p \in Measured |-> 0]
    /\ rtime = [p \in Measured |-> 0]
    /\ etime = [p \in Measured |-> 0]
    /\ nswtch = [p \in Measured |-> 0]
    /\ trap = [c \in CPU |-> "none"]
    /\ exiting = {}

-----------------------------------------------------------------------------
(* The timer interrupt                                                     *)

\* ticks++.
Tick == ticks' = IF ticks < MaxTicks THEN ticks + 1 ELSE ticks

\* clockintr() on hart 0, in a process or in scheduler(): ticks++ and the
\* wakeup() of those that sleep on ticks.
ClockIntr ==
    /\ trap[Cpu0] = "none"
    /\ WakeStart(Cpu0)
    /\ Tick
    /\ trap' = [trap EXCEPT ![Cpu0] = IF pc[Cpu0] = "proc" THEN "charge" ELSE "none"]
    /\ UNCHANGED <<ctime, rtime, etime, nswtch, exiting>>

\* clockintr() on another hart changes nothing.
TimerIntr(c) ==
    /\ c # Cpu0 /\ InProc(c) /\ trap[c] = "none"
    /\ trap' = [trap EXCEPT ![c] = "charge"]
    /\ UNCHANGED <<coreVars, counters, exiting>>

\* update_process_times(): p->rtime++ under p->lock if p is RUNNING.
Charge(c) ==
    LET p == cproc[c] IN
    /\ InProc(c) /\ trap[c] = "charge"
    /\ lock[p] = None
    /\ rtime' = [q \in Measured |->
           IF q = p /\ state[p] = "RUNNING" /\ rtime[q] < MaxSwitches - 1
           THEN rtime[q] + 1 ELSE rtime[q]]
    /\ trap' = [trap EXCEPT ![c] = "yield"]
    /\ UNCHANGED <<coreVars, ticks, ctime, etime, nswtch, exiting>>

\* Slip: only a switch away from a process that goes on is counted.
CountSwitchNotExit(p) ==
    nswtch' = [q \in Measured |->
        IF q = p /\ state'[p] # "ZOMBIE" /\ nswtch[q] < MaxSwitches
        THEN nswtch[q] + 1 ELSE nswtch[q]]

\* sched(): p->nswtch++.
CountSwitch(p) ==
    nswtch' = [q \in Measured |->
        IF q = p /\ nswtch[q] < MaxSwitches THEN nswtch[q] + 1 ELSE nswtch[q]]

MetYield(c) ==
    /\ trap[c] = "yield"
    /\ Yield(c)
    /\ CountSwitch(cproc[c])
    /\ trap' = [trap EXCEPT ![c] = "none"]
    /\ UNCHANGED <<ticks, ctime, rtime, etime, exiting>>

-----------------------------------------------------------------------------
(* System calls                                                            *)

MetSleep(c) ==
    /\ trap[c] = "none"
    /\ Sleep(c)
    /\ CountSwitch(cproc[c])
    /\ UNCHANGED <<ticks, ctime, rtime, etime, trap, exiting>>

\* The start of kexit(), from the system call or, if the process is killed,
\* from usertrap() after a timer interrupt, which then charges nothing.
ExitBegin(c) ==
    LET p == cproc[c] IN
    /\ InProc(c) /\ trap[c] \in {"none", "charge"}
    /\ p \in Measured \ exiting /\ p # InitProc /\ child[p] = None
    /\ etime' = [etime EXCEPT ![p] = ticks]
    /\ exiting' = exiting \cup {p}
    /\ trap' = [trap EXCEPT ![c] = "none"]
    /\ UNCHANGED <<coreVars, ticks, ctime, rtime, nswtch>>

\* The end of kexit().
MetExit(c) ==
    LET p == cproc[c] IN
    /\ trap[c] = "none"
    /\ p \in Measured => p \in exiting
    /\ Exit(c)
    /\ CountSwitch(p)
    /\ exiting' = exiting \ {p}
    /\ UNCHANGED <<ticks, ctime, rtime, etime, trap>>

\* Slip: the times of the slot's last process are kept.
StartTimesKept(q) ==
    /\ ctime' = [p \in Measured |-> IF p = q THEN ticks ELSE ctime[p]]
    /\ nswtch' = [p \in Measured |-> IF p = q THEN 0 ELSE nswtch[p]]
    /\ UNCHANGED <<rtime, etime>>

\* allocproc(): p->ctime = ticks, the rest 0.
StartTimes(q) ==
    /\ ctime' = [p \in Measured |-> IF p = q THEN ticks ELSE ctime[p]]
    /\ rtime' = [p \in Measured |-> IF p = q THEN 0 ELSE rtime[p]]
    /\ etime' = [p \in Measured |-> IF p = q THEN 0 ELSE etime[p]]
    /\ nswtch' = [p \in Measured |-> IF p = q THEN 0 ELSE nswtch[p]]

\* What a process does, in a system call, outside kexit() and the interrupt.
InCall(c) == trap[c] = "none" /\ cproc[c] \notin exiting

MetAlloc(c, q) ==
    /\ InCall(c)
    /\ Alloc(c, q)
    /\ StartTimes(q)
    /\ UNCHANGED <<ticks, trap, exiting>>

\* waitx() and kwait() free the slot; its counters stay as they are.
MetCall(c, q) ==
    /\ InCall(c)
    /\ MakeRunnable(c, q) \/ Kill(c, q) \/ Reap(c, q)
    /\ UNCHANGED <<counters, trap, exiting>>

\* A hart switches with one lock held: sched() panics on another.
HoldsOnly(c, p) == \A q \in Proc : lock[q] = c => q = p

\* The scheduler, the tail of a switch, and the wakeups of system calls and
\* device interrupts.
MetOther(c) ==
    /\ \/ Return(c) \/ Resume(c)
       \/ WakeStart(c) /\ trap[c] = "none"
       \/ \E p \in Proc : \/ SchedAcquire(c, p) \/ SchedRelease(c, p)
                          \/ Dispatch(c, p) /\ HoldsOnly(c, p)
                          \/ WakeHit(c, p) \/ WakeMiss(c, p)
    /\ UNCHANGED <<counters, trap, exiting>>

MetNext ==
    \/ ClockIntr
    \/ \E c \in CPU :
          \/ TimerIntr(c) \/ Charge(c) \/ MetYield(c)
          \/ MetSleep(c) \/ ExitBegin(c) \/ MetExit(c) \/ MetOther(c)
          \/ \E q \in Proc : MetAlloc(c, q) \/ MetCall(c, q)

MetSpec == MetricsInit /\ [][MetNext]_metVars

-----------------------------------------------------------------------------
(* Properties                                                              *)

\* Between update_process_times() and the nswtch++ of its yield().
Charged(p) == \E c \in CPU : cproc[c] = p /\ trap[c] = "yield"

\* run_time and num_switches of one report belong together: a charged tick
\* ends in a switch that is counted, and the last switch, into ZOMBIE, comes
\* on top.  So waitx() reports more switches than ticks, whatever happened
\* to the process and whichever process had the slot before.
SwitchesCoverRuntime ==
    \A p \in Measured :
        /\ rtime[p] <= nswtch[p] \/ (Charged(p) /\ rtime[p] = nswtch[p] + 1)
        /\ state[p] = "ZOMBIE" => rtime[p] < nswtch[p]

\* turnaround_time of waitx() is never negative and ends in the past; only a
\* process in kexit(), or a zombie, has an etime.
TurnaroundInLife ==
    \A p \in Measured :
        /\ p \in exiting \/ state[p] = "ZOMBIE" =>
               ctime[p] <= etime[p] /\ etime[p] <= ticks
        /\ state[p] \in {"USED", "RUNNABLE", "RUNNING", "SLEEPING"} /\ p \notin exiting =>
               etime[p] = 0
=============================================================================
