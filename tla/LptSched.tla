------------------------------ MODULE LptSched ------------------------------
(***************************************************************************)
(* lpt/proc.c: longest processing time first.  Each CPU collects the       *)
(* RUNNABLE processes without taking a lock, sorts its private list by     *)
(* est_time (which lives in the process and is shared by all CPUs), and    *)
(* then runs every entry that is still RUNNABLE, each under its p->lock.   *)
(*                                                                         *)
(* ProcCore supplies the locks and the hand-over; every action here is a   *)
(* core action, or a step of scheduler() on its own list, with the policy  *)
(* variables added.                                                        *)
(***************************************************************************)
EXTENDS ProcCore, Sequences

CONSTANTS RtimeBound,   \* p->rtime saturates here; the code's uint wraps
          Boots         \* what is booted: the harts that are started, of the
                        \* NCPU elements of cpus[], and, a bound, the slots
                        \* up to which the workload then forks

ASSUME RtimeBoundAssumption == RtimeBound \in Nat
ASSUME BootsAssumption == Boots \subseteq [harts : SUBSET CPU, slots : Nat]

VARIABLES
    step,       \* where scheduler() is, see Steps
    idx,        \* slot (collect, est), i (sort) or i (run, check, back)
    jdx,        \* j of the sort
    batch,      \* batch[], then final_list[]
    found,      \* found != 0
    rtime,      \* p->rtime
    est_time,   \* p->est_time
    waiting,    \* history: the processes RUNNABLE ever since c began to collect
    disturbed   \* history: another CPU has changed a key of the list c sorts

schedVars == <<step, idx, jdx, batch, found>>
lptVars == <<coreVars, schedVars, rtime, est_time, waiting, disturbed>>

\* collect: about to read p->state of slot idx
\* est:     has read RUNNABLE there, about to write p->est_time
\* sort:    about to compare entries idx and jdx
\* run:     about to acquire the lock of entry idx
\* check:   holds that lock
\* back:    has switched to the process
\* idle:    in wfi
\* off:     the hart of this element of cpus[] was never started
Steps == {"collect", "est", "sort", "run", "check", "back", "idle", "off"}

LptTypeOK ==
    /\ CoreTypeOK
    /\ step \in [CPU -> Steps]
    /\ idx \in [CPU -> 1..NPROC]
    /\ jdx \in [CPU -> 1..NPROC]
    /\ \A c \in CPU : Len(batch[c]) <= NPROC /\ \A i \in DOMAIN batch[c] : batch[c][i] \in Proc
    /\ found \in [CPU -> BOOLEAN]
    /\ rtime \in [Proc -> 0..RtimeBound]
    /\ est_time \in [Proc -> 0..RtimeBound + 1]
    /\ waiting \in [CPU -> SUBSET Proc]
    /\ disturbed \in [CPU -> BOOLEAN]

Entry(c) == batch[c][idx[c]]

LptInit ==
    /\ CoreInit
    /\ \E b \in Boots :
          /\ step = [c \in CPU |-> IF c \in b.harts THEN "collect" ELSE "off"]
          /\ waiting = [c \in CPU |-> IF c \in b.harts THEN {InitProc} ELSE {}]
    /\ idx = [c \in CPU |-> 1]
    /\ jdx = [c \in CPU |-> 1]
    /\ batch = [c \in CPU |-> <<>>]
    /\ found = [c \in CPU |-> FALSE]
    /\ rtime = [p \in Proc |-> 0]
    /\ est_time = [p \in Proc |-> 0]
    /\ disturbed = [c \in CPU |-> FALSE]

-----------------------------------------------------------------------------
(* History                                                                 *)

RunnableNext == {p \in Proc : state'[p] = "RUNNABLE"}

Track == waiting' = [c \in CPU |-> waiting[c] \cap RunnableNext]

TrackRestart(c) ==
    waiting' = [d \in CPU |-> IF d = c THEN RunnableNext
                                       ELSE waiting[d] \cap RunnableNext]

\* A key that a CPU's sort depends on is changed.
TrackKey(p) ==
    disturbed' = [d \in CPU |->
        \/ disturbed[d]
        \/ /\ step[d] = "sort"
           /\ est_time'[p] # est_time[p]
           /\ \E i \in DOMAIN batch[d] : batch[d][i] = p]

-----------------------------------------------------------------------------
(* scheduler(), STEP 1 and STEP 2: no lock held                            *)

\* Slip: a list of one counts as empty.
AfterSlotOneIsNone(c, b) ==
    /\ batch' = [batch EXCEPT ![c] = b]
    /\ idx' = [idx EXCEPT ![c] = IF @ < NPROC THEN @ + 1 ELSE 1]
    /\ step' = [step EXCEPT ![c] = CASE idx[c] < NPROC -> "collect"
                                     [] idx[c] = NPROC /\ Len(b) <= 1 -> "idle"
                                     [] OTHER -> "sort"]
    /\ jdx' = [jdx EXCEPT ![c] = IF idx[c] = NPROC /\ Len(b) > 1 THEN 2 ELSE 1]

\* Slip: the index runs past the last slot.
AfterSlotPastEnd(c, b) ==
    /\ batch' = [batch EXCEPT ![c] = b]
    /\ idx' = [idx EXCEPT ![c] = @ + 1]
    /\ step' = [step EXCEPT ![c] = IF idx[c] <= NPROC THEN "collect" ELSE "idle"]
    /\ UNCHANGED jdx

\* Slip: the last slot is not visited.
AfterSlotShort(c, b) ==
    /\ batch' = [batch EXCEPT ![c] = b]
    /\ idx' = [idx EXCEPT ![c] = IF @ < NPROC - 1 THEN @ + 1 ELSE 1]
    /\ step' = [step EXCEPT ![c] = CASE idx[c] < NPROC - 1 -> "collect"
                                     [] idx[c] >= NPROC - 1 /\ Len(b) = 0 -> "idle"
                                     [] idx[c] >= NPROC - 1 /\ Len(b) = 1 -> "run"
                                     [] OTHER -> "sort"]
    /\ jdx' = [jdx EXCEPT ![c] = IF idx[c] >= NPROC - 1 /\ Len(b) > 1 THEN 2 ELSE 1]

\* The slot just visited is done; b is the list so far.  After the last
\* slot: wfi if nothing was collected, else sort.
AfterSlot(c, b) ==
    /\ batch' = [batch EXCEPT ![c] = b]
    /\ idx' = [idx EXCEPT ![c] = IF @ < NPROC THEN @ + 1 ELSE 1]
    /\ step' = [step EXCEPT ![c] =
                   CASE idx[c] < NPROC -> "collect"
                     [] idx[c] = NPROC /\ Len(b) = 0 -> "idle"
                     [] idx[c] = NPROC /\ Len(b) = 1 -> "run"
                     [] idx[c] = NPROC /\ Len(b) > 1 -> "sort"]
    /\ jdx' = [jdx EXCEPT ![c] = IF idx[c] = NPROC /\ Len(b) > 1 THEN 2 ELSE 1]

\* The unlocked read of p->state.
Collect(c) ==
    /\ InLoop(c) /\ step[c] = "collect"
    /\ UNCHANGED <<coreVars, found, rtime, est_time, disturbed>>
    /\ \/ /\ state[idx[c]] = "RUNNABLE"
          /\ step' = [step EXCEPT ![c] = "est"]
          /\ UNCHANGED <<idx, jdx, batch>>
       \/ /\ state[idx[c]] # "RUNNABLE"
          /\ AfterSlot(c, batch[c])
    /\ Track

\* p->est_time = p->rtime + 1; batch[batch_count++] = p.
CollectEst(c) ==
    /\ InLoop(c) /\ step[c] = "est"
    /\ est_time' = [est_time EXCEPT ![idx[c]] = rtime[idx[c]] + 1]
    /\ AfterSlot(c, Append(batch[c], idx[c]))
    /\ UNCHANGED <<coreVars, found, rtime>>
    /\ Track
    /\ TrackKey(idx[c])

\* Slip: the sort is ascending.
Shorter(p, q) == est_time[p] < est_time[q]

Longer(p, q) == est_time[p] > est_time[q]

\* Slip: the swap overwrites without saving.
SwapLost(s, i, j) == [s EXCEPT ![i] = s[j]]

Swap(s, i, j) == [s EXCEPT ![i] = s[j], ![j] = s[i]]

\* One comparison of the exchange sort; est_time is read afresh each time.
SortCompare(c) ==
    LET b == batch[c]
        i == idx[c]
        j == jdx[c]
    IN  /\ InLoop(c) /\ step[c] = "sort"
        /\ batch' = [batch EXCEPT ![c] =
                        IF Longer(b[j], b[i]) THEN Swap(b, i, j) ELSE b]
        /\ \/ /\ j < Len(b)
              /\ jdx' = [jdx EXCEPT ![c] = j + 1]
              /\ UNCHANGED <<idx, step, disturbed>>
           \/ /\ j = Len(b) /\ i + 1 < Len(b)
              /\ idx' = [idx EXCEPT ![c] = i + 1]
              /\ jdx' = [jdx EXCEPT ![c] = i + 2]
              /\ UNCHANGED <<step, disturbed>>
           \/ /\ j = Len(b) /\ i + 1 = Len(b)
              /\ step' = [step EXCEPT ![c] = "run"]
              /\ idx' = [idx EXCEPT ![c] = 1]
              /\ jdx' = [jdx EXCEPT ![c] = 1]
              /\ disturbed' = [disturbed EXCEPT ![c] = FALSE]
        /\ UNCHANGED <<coreVars, found, rtime, est_time>>
        /\ Track

-----------------------------------------------------------------------------
(* scheduler(), STEP 4.  STEP 3 copies batch[] to final_list[] in chunks of *)
(* NCPU, in order: the same list.                                          *)

\* The top of for(;;).
Top(c) ==
    /\ step' = [step EXCEPT ![c] = "collect"]
    /\ idx' = [idx EXCEPT ![c] = 1]
    /\ batch' = [batch EXCEPT ![c] = <<>>]
    /\ found' = [found EXCEPT ![c] = FALSE]
    /\ UNCHANGED jdx

\* The end of one iteration of STEP 4.
NextEntry(c) ==
    \/ /\ idx[c] < Len(batch[c])
       /\ idx' = [idx EXCEPT ![c] = @ + 1]
       /\ step' = [step EXCEPT ![c] = "run"]
       /\ UNCHANGED <<jdx, batch, found>>
       /\ Track
    \/ /\ idx[c] = Len(batch[c]) /\ ~found[c]
       /\ step' = [step EXCEPT ![c] = "idle"]
       /\ idx' = [idx EXCEPT ![c] = 1]
       /\ batch' = [batch EXCEPT ![c] = <<>>]
       /\ UNCHANGED <<jdx, found>>
       /\ Track
    \/ /\ idx[c] = Len(batch[c]) /\ found[c]
       /\ Top(c)
       /\ TrackRestart(c)

LptAcquire(c) ==
    /\ step[c] = "run"
    /\ SchedAcquire(c, Entry(c))
    /\ step' = [step EXCEPT ![c] = "check"]
    /\ Track
    /\ UNCHANGED <<idx, jdx, batch, found, rtime, est_time, disturbed>>

\* Slip: the state is not looked at again under the lock.
LptDispatchStale(c) ==
    /\ step[c] = "check" /\ InLoop(c)
    /\ state' = [state EXCEPT ![Entry(c)] = "RUNNING"]
    /\ cproc' = [cproc EXCEPT ![c] = Entry(c)]
    /\ pc' = [pc EXCEPT ![c] = "resume"]
    /\ step' = [step EXCEPT ![c] = "back"]
    /\ found' = [found EXCEPT ![c] = TRUE]
    /\ Track
    /\ UNCHANGED <<lock, wslot, child, idx, jdx, batch, rtime, est_time, disturbed>>

\* Still RUNNABLE under the lock.
LptDispatch(c) ==
    /\ step[c] = "check"
    /\ Dispatch(c, Entry(c))
    /\ step' = [step EXCEPT ![c] = "back"]
    /\ found' = [found EXCEPT ![c] = TRUE]
    /\ Track
    /\ UNCHANGED <<idx, jdx, batch, rtime, est_time, disturbed>>

\* Another CPU took the process, or it went away, since it was collected.
LptSkip(c) ==
    /\ step[c] = "check"
    /\ state[Entry(c)] # "RUNNABLE"
    /\ SchedRelease(c, Entry(c))
    /\ NextEntry(c)
    /\ UNCHANGED <<rtime, est_time, disturbed>>

LptReturn(c) ==
    /\ step[c] = "back"
    /\ Return(c)
    /\ NextEntry(c)
    /\ UNCHANGED <<rtime, est_time, disturbed>>

\* wfi ends with the next timer or device interrupt.
LeaveIdle(c) ==
    /\ InLoop(c) /\ step[c] = "idle"
    /\ UNCHANGED <<coreVars, rtime, est_time, disturbed>>
    /\ Top(c)
    /\ TrackRestart(c)

-----------------------------------------------------------------------------
(* Processes and interrupts                                                *)

\* update_process_times() and yield(), on a timer interrupt.
LptYield(c) ==
    /\ Yield(c)
    /\ rtime' = [rtime EXCEPT ![cproc[c]] = IF @ < RtimeBound THEN @ + 1 ELSE @]
    /\ Track
    /\ UNCHANGED <<schedVars, est_time, disturbed>>

InBounds(q) ==
    \E b \in Boots : b.harts = {c \in CPU : step[c] # "off"} /\ q <= b.slots

\* allocproc() clears rtime, not est_time.
LptAlloc(c, q) ==
    /\ Alloc(c, q)
    /\ InBounds(q)
    /\ rtime' = [rtime EXCEPT ![q] = 0]
    /\ Track
    /\ UNCHANGED <<schedVars, est_time, disturbed>>

\* scheduler() takes interrupts at the top of its loop, and once it has run
\* a process: release(&p->lock) then restores that process's interrupt flag.
Interruptible(c) ==
    InLoop(c) => (step[c] = "collect" /\ idx[c] = 1) \/ (step[c] = "run" /\ found[c])

\* Everything that does not touch the policy's state.
LptOther(c) ==
    /\ \/ Resume(c) \/ Sleep(c) \/ Exit(c)
       \/ WakeStart(c) /\ Interruptible(c)
       \/ \E q \in Proc : \/ MakeRunnable(c, q) \/ Kill(c, q) \/ Reap(c, q)
                          \/ WakeHit(c, q) \/ WakeMiss(c, q)
    /\ Track
    /\ UNCHANGED <<schedVars, rtime, est_time, disturbed>>

LptLoop(c) ==
    \/ Collect(c) \/ CollectEst(c) \/ SortCompare(c)
    \/ LptAcquire(c) \/ LptDispatch(c) \/ LptSkip(c) \/ LeaveIdle(c)

LptNext ==
    \E c \in CPU :
        \/ LptLoop(c) \/ LptReturn(c) \/ LptYield(c) \/ LptOther(c)
        \/ \E q \in Proc : LptAlloc(c, q)

LptSafetySpec == LptInit /\ [][LptNext]_lptVars

\* What a CPU goes on to do by itself below its scheduler loop.
LptContinue(c) ==
    \/ LptReturn(c)
    \/ Resume(c) /\ LptOther(c)
    \/ \E q \in Proc : (WakeHit(c, q) \/ WakeMiss(c, q)) /\ LptOther(c)

\* A CPU keeps executing: a spinning acquire() that finds the lock free again
\* and again gets it in the end, and interrupts do not take all of the
\* loop's time.  The timer interrupt stays pending until taken, so a process
\* that is interruptible again and again is preempted.  (A CPU is in the loop
\* or in a process, so the first line is fairness of both its disjuncts.)
LptFairness ==
    \A c \in CPU : /\ SF_lptVars(LptLoop(c) \/ LptYield(c))
                   /\ SF_lptVars(LptContinue(c))

LptSpec == LptSafetySpec /\ LptFairness

-----------------------------------------------------------------------------
(* Properties                                                              *)

\* A CPU goes into wfi only when no process was RUNNABLE all the time since
\* it began to collect: the list taken without a lock, and gone stale, never
\* makes it overlook one that waits.
IdleJustified == \A c \in CPU : step[c] = "idle" => waiting[c] = {}

\* A process that waits since before the list was made is in the list, and
\* still ahead of the CPU.
WaitingIsListed ==
    \A c \in CPU : step[c] \in {"sort", "run"} =>
        \A p \in waiting[c] :
            \E i \in DOMAIN batch[c] :
                batch[c][i] = p /\ (step[c] = "run" => i >= idx[c])

\* "sort by est_time (descending)": when the sort ends, the list is sorted,
\* unless another CPU, collecting meanwhile, has changed a key of the list:
\* est_time belongs to the process and not to the list.
Sorted(b) ==
    \A i, j \in DOMAIN b : i < j => est_time[b[i]] >= est_time[b[j]]

SortsDescending ==
    [][\A c \in CPU : step[c] = "sort" /\ step'[c] = "run" /\ ~disturbed[c] =>
           Sorted(batch[c])']_lptVars

\* No starvation: longest-first order delays a short process, but the whole
\* list is run before the next one is made.
RunnableRuns ==
    \A p \in Proc : (state[p] = "RUNNABLE") ~> (state[p] = "RUNNING")
=============================================================================
