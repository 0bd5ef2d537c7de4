----------------------------- MODULE StealSched -----------------------------
(***************************************************************************)
(* work stealing/proc.c: every CPU has a queue of processes.  Whoever      *)
(* makes a process RUNNABLE pushes it on the queue of the CPU it executes  *)
(* on; scheduler() pops its own queue from the back and, when that yields  *)
(* nothing, other queues from the front.                                   *)
(*                                                                         *)
(* A queue is the sequence the ring of struct cpu stands for (Ring):       *)
(* at most MAX_TASKS - 1 entries, and a push on a full queue is silently   *)
(* lost.                                                                   *)
(* push_back, pop_front and pop_back are one critical section of c->lock   *)
(* each, hence one atomic update; push_back always runs under p->lock.     *)
(* select_victim() is any other element of cpus[].                         *)
(***************************************************************************)
EXTENDS ProcCore, Ring, SequencesExt

CONSTANTS Absent,       \* elements of cpus[] whose hart was never started
          Attempts      \* NCPU - 1: victims tried before wfi

ASSUME AbsentAssumption == Absent \cap CPU = {}
ASSUME AttemptsAssumption == Attempts \in Nat

VARIABLES
    queue,      \* cpus[i].queue[front .. rear - 1]
    step,       \* where scheduler() is, see Steps
    victim,     \* the queue it pops: its own, or the victim's
    temp,       \* the popped process
    count,      \* count or count2: pops from this queue
    attempts,   \* victims tried
    dropped     \* history: processes whose last push found the queue full

loopVars == <<step, victim, temp, count, attempts>>
stealVars == <<coreVars, loopVars, queue, dropped>>

\* pop:   about to pop victim's queue
\* got:   has popped temp, about to acquire its lock
\* check: holds that lock
\* back:  has switched to the process
\* pick:  about to select the next victim
\* idle:  in wfi
Steps == {"pop", "got", "check", "back", "pick", "idle"}

AllCpus == CPU \cup Absent

StealTypeOK ==
    /\ CoreTypeOK
    /\ DOMAIN queue = AllCpus
    /\ \A c \in AllCpus : Len(queue[c]) < MAX_TASKS /\ ToSet(queue[c]) \subseteq Proc
    /\ step \in [CPU -> Steps]
    /\ victim \in [CPU -> AllCpus]
    /\ temp \in [CPU -> Proc \cup {None}]
    /\ count \in [CPU -> 0..MAX_TASKS]
    /\ attempts \in [CPU -> 0..Attempts]
    /\ dropped \subseteq Proc

\* userinit() pushes the first process on the boot CPU's queue.
StealInit ==
    /\ CoreInit
    /\ \E boot \in CPU :
          queue = [c \in AllCpus |-> IF c = boot THEN <<InitProc>> ELSE <<>>]
    /\ step = [c \in CPU |-> "pop"]
    /\ victim = [c \in CPU |-> c]
    /\ temp = [c \in CPU |-> None]
    /\ count = [c \in CPU |-> 0]
    /\ attempts = [c \in CPU |-> 0]
    /\ dropped = {}

-----------------------------------------------------------------------------
(* The queues                                                              *)

\* Slip: the ring is filled to the last slot.
FullAtMax(c) == Len(queue[c]) = MAX_TASKS

Full(c) == Len(queue[c]) = MAX_TASKS - 1

push_back(c, p) ==
    /\ queue' = IF Full(c) THEN queue ELSE [queue EXCEPT ![c] = Append(@, p)]
    /\ dropped' = IF Full(c) THEN dropped \cup {p} ELSE dropped \ {p}

pop_back(c) ==
    /\ temp' = [temp EXCEPT ![c] = Last(queue[c])]
    /\ queue' = [queue EXCEPT ![c] = Front(@)]

pop_front(c, v) ==
    /\ temp' = [temp EXCEPT ![c] = Head(queue[v])]
    /\ queue' = [queue EXCEPT ![v] = Tail(@)]

-----------------------------------------------------------------------------
(* scheduler()                                                             *)

\* The locals of for(;;) are dead while the CPU runs a process or is in wfi,
\* and are set again at the top, where its own queue comes first.
Restart(c, s) ==
    /\ step' = [step EXCEPT ![c] = s]
    /\ victim' = [victim EXCEPT ![c] = c]
    /\ count' = [count EXCEPT ![c] = 0]
    /\ attempts' = [attempts EXCEPT ![c] = 0]
    /\ temp' = [temp EXCEPT ![c] = None]

Pop(c) ==
    /\ InLoop(c) /\ step[c] = "pop"
    /\ count[c] < MAX_TASKS
    /\ queue[victim[c]] # <<>>
    /\ IF victim[c] = c THEN pop_back(c) ELSE pop_front(c, victim[c])
    /\ count' = [count EXCEPT ![c] = @ + 1]
    /\ step' = [step EXCEPT ![c] = "got"]
    /\ UNCHANGED <<coreVars, victim, attempts, dropped>>

\* The queue is empty, or MAX_TASKS entries have been looked at.
PopNothing(c) ==
    /\ InLoop(c) /\ step[c] = "pop"
    /\ count[c] = MAX_TASKS \/ queue[victim[c]] = <<>>
    /\ \/ /\ attempts[c] < Attempts
          /\ step' = [step EXCEPT ![c] = "pick"]
          /\ UNCHANGED <<victim, temp, count, attempts>>
       \/ /\ attempts[c] = Attempts
          /\ Restart(c, "idle")
    /\ UNCHANGED <<coreVars, queue, dropped>>

SelectVictim(c) ==
    /\ InLoop(c) /\ step[c] = "pick"
    /\ \E v \in AllCpus \ {c} : victim' = [victim EXCEPT ![c] = v]
    /\ attempts' = [attempts EXCEPT ![c] = @ + 1]
    /\ count' = [count EXCEPT ![c] = 0]
    /\ step' = [step EXCEPT ![c] = "pop"]
    /\ UNCHANGED <<coreVars, temp, queue, dropped>>

StealAcquire(c) ==
    /\ step[c] = "got"
    /\ SchedAcquire(c, temp[c])
    /\ step' = [step EXCEPT ![c] = "check"]
    /\ UNCHANGED <<victim, temp, count, attempts, queue, dropped>>

\* A stale entry: its process runs, sleeps or is gone.
StealSkip(c) ==
    /\ step[c] = "check"
    /\ state[temp[c]] # "RUNNABLE"
    /\ SchedRelease(c, temp[c])
    /\ step' = [step EXCEPT ![c] = "pop"]
    /\ temp' = [temp EXCEPT ![c] = None]
    /\ UNCHANGED <<victim, count, attempts, queue, dropped>>

\* Slip: the state is not looked at under the lock.
StealDispatchStale(c) ==
    /\ step[c] = "check" /\ InLoop(c)
    /\ state' = [state EXCEPT ![temp[c]] = "RUNNING"]
    /\ cproc' = [cproc EXCEPT ![c] = temp[c]]
    /\ pc' = [pc EXCEPT ![c] = "resume"]
    /\ Restart(c, "back")
    /\ UNCHANGED <<lock, wslot, child, queue, dropped>>

StealDispatch(c) ==
    /\ step[c] = "check"
    /\ Dispatch(c, temp[c])
    /\ Restart(c, "back")
    /\ UNCHANGED <<queue, dropped>>

\* Back from the process, its lock held: push it if it is RUNNABLE, even
\* though yield() has pushed it already.
StealReturn(c) ==
    /\ step[c] = "back"
    /\ Return(c)
    /\ IF state[cproc[c]] = "RUNNABLE" THEN push_back(c, cproc[c])
                                       ELSE UNCHANGED <<queue, dropped>>
    /\ Restart(c, "pop")

LeaveIdle(c) ==
    /\ InLoop(c) /\ step[c] = "idle"
    /\ Restart(c, "pop")
    /\ UNCHANGED <<coreVars, queue, dropped>>

-----------------------------------------------------------------------------
(* Processes and interrupts: every RUNNABLE comes with a push              *)

StealYield(c) == Yield(c) /\ push_back(c, cproc[c]) /\ UNCHANGED loopVars

StealMakeRunnable(c, q) ==
    MakeRunnable(c, q) /\ push_back(c, q) /\ UNCHANGED loopVars

\* Slip: a killed sleeper becomes RUNNABLE without a push.
StealKillNoPush(c, q) == Kill(c, q) /\ UNCHANGED <<loopVars, queue, dropped>>

StealKill(c, q) == Kill(c, q) /\ push_back(c, q) /\ UNCHANGED loopVars

StealWakeHit(c, q) == WakeHit(c, q) /\ push_back(c, q) /\ UNCHANGED loopVars

StealOther(c) ==
    /\ \/ Resume(c) \/ Sleep(c) \/ Exit(c) \/ WakeStart(c)
       \/ \E q \in Proc : Alloc(c, q) \/ Reap(c, q) \/ WakeMiss(c, q)
    /\ UNCHANGED <<loopVars, queue, dropped>>

StealLoop(c) ==
    \/ Pop(c) \/ PopNothing(c) \/ SelectVictim(c) \/ LeaveIdle(c)
    \/ StealAcquire(c) \/ StealSkip(c) \/ StealDispatch(c)

StealNext ==
    \E c \in CPU :
        \/ StealLoop(c) \/ StealReturn(c) \/ StealYield(c) \/ StealOther(c)
        \/ \E q \in Proc :
              StealMakeRunnable(c, q) \/ StealKill(c, q) \/ StealWakeHit(c, q)

StealSafetySpec == StealInit /\ [][StealNext]_stealVars

\* What a CPU goes on to do by itself below its scheduler loop.
StealContinue(c) ==
    \/ StealReturn(c)
    \/ Resume(c) /\ StealOther(c)
    \/ \E q \in Proc : StealWakeHit(c, q) \/ (WakeMiss(c, q) /\ StealOther(c))

\* As in LptSched: a CPU keeps executing, spinlocks are not unfair for ever,
\* and a pending timer interrupt is taken.
StealFairness ==
    \A c \in CPU : /\ SF_stealVars(StealLoop(c))
                   /\ SF_stealVars(StealContinue(c))
                   /\ SF_stealVars(StealYield(c))

StealSpec == StealSafetySpec /\ StealFairness

-----------------------------------------------------------------------------
(* Properties                                                              *)

Queued(p) == \E c \in AllCpus : Contains(queue[c], p)

InHand(p) == \E c \in CPU : temp[c] = p /\ step[c] \in {"got", "check"}

\* A RUNNABLE process is in some queue or in the hands of a scheduler that
\* has popped it, or its last push was lost to a full queue: entries that
\* are stale, duplicated or in flight never make it disappear otherwise.
RunnableReachable ==
    \A p \in Proc : state[p] = "RUNNABLE" => Queued(p) \/ InHand(p) \/ p \in dropped

\* "Wake up all processes sleeping on channel chan": a process that was
\* made RUNNABLE, and has left its CPU, can be found by some scheduler.
NoWakeupLost ==
    \A p \in Proc :
        state[p] = "RUNNABLE" /\ (\A c \in CPU : cproc[c] # p) => Queued(p) \/ InHand(p)

\* "Give up the CPU for one scheduling round": after a yield the others
\* get their turn, so a RUNNABLE process is run in the end.
RunnableRuns ==
    \A p \in Proc : (state[p] = "RUNNABLE") ~> (state[p] = "RUNNING")
=============================================================================
