------------------------ MODULE AdaptiveSchedProofs ------------------------
(***************************************************************************)
(* Aging and AdaptiveSched for every set of CPUs, every NPROC, all         *)
(* priorities, every width of int and every number of ticks.               *)
(***************************************************************************)
EXTENDS AdaptiveSched, ProcCoreProofs

(***************************************************************************)
(* The arithmetic of aging                                                 *)
(***************************************************************************)

LEMMA ModSmall == \A x, m \in Nat : x < m => x % m = x
OBVIOUS

LEMMA ModNegative == \A x \in Int, m \in Nat : -m <= x /\ x < 0 => x % m = x + m
OBVIOUS

LEMMA TimesMonotone == \A v, w, r \in Nat : v <= w => v * r <= w * r /\ v * r \in Nat
<1> SUFFICES ASSUME NEW v \in Nat, NEW w \in Nat, NEW r \in Nat, v <= w
             PROVE  v * r <= w * r /\ v * r \in Nat
  OBVIOUS
<1>1. w - v \in Nat /\ w * r = v * r + (w - v) * r
  OBVIOUS
<1>2. (w - v) * r \in Nat /\ v * r \in Nat /\ w * r \in Nat
  BY <1>1
<1>3. QED
  BY <1>1, <1>2

LEMMA BoostExact ==
    ASSUME NEW wait \in Nat, wait * AGING_RATE <= IntMax
    PROVE  Boost(wait) = wait * AGING_RATE
<1>1. wait * AGING_RATE \in Nat /\ UintMod \in Nat /\ wait * AGING_RATE < UintMod
  BY PriorityAssumption, TimesMonotone DEF UintMod
<1>2. (wait * AGING_RATE) % UintMod = wait * AGING_RATE
  BY <1>1, ModSmall
<1>3. QED
  BY <1>1, <1>2, PriorityAssumption DEF Boost, ToInt

\* What fits an int is not changed by the conversion.
LEMMA ToIntExact ==
    ASSUME NEW d \in Int, -IntMax <= d, d <= IntMax
    PROVE  ToInt(d % UintMod) = d
<1>1. UintMod \in Nat /\ IntMax \in Nat /\ UintMod = 2 * IntMax + 2
  BY PriorityAssumption DEF UintMod
<1>2. CASE d >= 0
  <2>1. d \in Nat /\ d < UintMod
    BY <1>1, <1>2
  <2>2. d % UintMod = d
    BY <1>1, <2>1, ModSmall
  <2>3. QED
    BY <1>1, <2>2 DEF ToInt
<1>3. CASE d < 0
  <2>1. -UintMod <= d
    BY <1>1
  <2>2. d % UintMod = d + UintMod
    BY <1>1, <1>3, <2>1, ModNegative
  <2>3. QED
    BY <1>1, <1>3, <2>2 DEF ToInt
<1>4. QED
  BY <1>2, <1>3

\* Whatever the wait, an effective priority is an int and not below the minimum.
LEMMA CurrPriInt ==
    ASSUME NEW wait \in Nat
    PROVE  CurrPri(wait) \in PRIORITY_MIN..IntMax
<1>1. UintMod \in Nat /\ IntMax \in Nat /\ UintMod = 2 * IntMax + 2
  BY PriorityAssumption DEF UintMod
<1>2. \A x \in Int : x % UintMod \in 0..UintMod - 1
  BY <1>1
<1>3. \A x \in 0..UintMod - 1 : ToInt(x) \in Int /\ ToInt(x) <= IntMax
  BY <1>1 DEF ToInt
<1>4. wait * AGING_RATE \in Int
  BY TimesMonotone, PriorityAssumption
<1>5. Boost(wait) \in Int
  BY <1>2, <1>3, <1>4 DEF Boost
<1>6. PRIORITY_DEFAULT - Boost(wait) \in Int
  BY <1>5, PriorityAssumption
<1>7. QED
  BY <1>2, <1>3, <1>6, PriorityAssumption DEF CurrPri

\* Up to 2^31 / AGING_RATE ticks the effective priority is what the header of
\* scheduler() says: priority - wait * AGING_RATE, between PRIORITY_MIN and
\* PRIORITY_DEFAULT, and longer waits are never less urgent.
THEOREM AgingExact ==
    ASSUME NEW v \in Nat, NEW w \in Nat, v <= w, Fits(w)
    PROVE  /\ CurrPri(w) \in PRIORITY_MIN..PRIORITY_DEFAULT
           /\ CurrPri(w) = IF w * AGING_RATE <= PRIORITY_DEFAULT - PRIORITY_MIN
                           THEN PRIORITY_DEFAULT - w * AGING_RATE ELSE PRIORITY_MIN
           /\ CurrPri(w) <= CurrPri(v)
<1>1. /\ v * AGING_RATE \in Nat /\ w * AGING_RATE \in Nat
      /\ v * AGING_RATE <= w * AGING_RATE /\ w * AGING_RATE <= IntMax
  BY PriorityAssumption, TimesMonotone DEF Fits
<1>2. Boost(v) = v * AGING_RATE /\ Boost(w) = w * AGING_RATE
  BY <1>1, BoostExact, PriorityAssumption
<1>3. /\ ToInt((PRIORITY_DEFAULT - Boost(v)) % UintMod) = PRIORITY_DEFAULT - v * AGING_RATE
      /\ ToInt((PRIORITY_DEFAULT - Boost(w)) % UintMod) = PRIORITY_DEFAULT - w * AGING_RATE
  BY <1>1, <1>2, ToIntExact, PriorityAssumption
<1>4. QED
  BY <1>1, <1>3, PriorityAssumption DEF CurrPri

\* Beyond that, until the product wraps, the boost is negative.  For the first
\* PRIORITY_DEFAULT and one products the subtraction overflows as well, and
\* the clamp takes the result for a high urgency.  From there on the process
\* is above PRIORITY_MAX, and no scan can choose it: the clamp that the header
\* of scheduler() promises at that end is missing.
THEOREM AgingInverted ==
    ASSUME NEW wait \in Nat, ~Fits(wait),
           wait * AGING_RATE < UintMod - (PRIORITY_MAX - PRIORITY_DEFAULT)
    PROVE  /\ wait * AGING_RATE <= IntMax + 1 + PRIORITY_DEFAULT =>
                  CurrPri(wait) = PRIORITY_MIN
           /\ wait * AGING_RATE > IntMax + 1 + PRIORITY_DEFAULT =>
                  /\ CurrPri(wait) = PRIORITY_DEFAULT + UintMod - wait * AGING_RATE
                  /\ CurrPri(wait) > PRIORITY_MAX
<1> DEFINE x == wait * AGING_RATE
           d == PRIORITY_DEFAULT + UintMod - x
<1>1. /\ x \in Nat /\ UintMod \in Nat /\ x < UintMod /\ IntMax < x
      /\ UintMod = 2 * IntMax + 2
  BY PriorityAssumption, TimesMonotone DEF UintMod, Fits
<1>2. x % UintMod = x
  BY <1>1, ModSmall
<1>3. Boost(wait) = x - UintMod
  BY <1>1, <1>2 DEF Boost, ToInt
<1>4. PRIORITY_DEFAULT - Boost(wait) = d /\ d \in Nat /\ d < UintMod /\ d > PRIORITY_MAX
  BY <1>1, <1>3, PriorityAssumption
<1>5. CurrPri(wait) = IF ToInt(d % UintMod) < PRIORITY_MIN THEN PRIORITY_MIN
                                                          ELSE ToInt(d % UintMod)
  BY <1>4 DEF CurrPri
<1>6. d % UintMod = d
  BY <1>1, <1>4, ModSmall
<1>7. ASSUME x <= IntMax + 1 + PRIORITY_DEFAULT
      PROVE  CurrPri(wait) = PRIORITY_MIN
  <2>1. d > IntMax
    BY <1>1, <1>7, PriorityAssumption
  <2>2. ToInt(d % UintMod) = d - UintMod
    BY <1>6, <2>1 DEF ToInt
  <2>3. d - UintMod < PRIORITY_MIN
    BY <1>1, <1>4, PriorityAssumption
  <2>4. QED
    BY <1>5, <2>2, <2>3
<1>8. ASSUME x > IntMax + 1 + PRIORITY_DEFAULT
      PROVE  CurrPri(wait) = d /\ d > PRIORITY_MAX
  <2>1. d <= IntMax
    BY <1>1, <1>8, PriorityAssumption
  <2>2. ToInt(d % UintMod) = d
    BY <1>1, <1>4, <1>6, <2>1, PriorityAssumption DEF ToInt
  <2>3. QED
    BY <1>4, <1>5, <2>2, PriorityAssumption
<1>9. QED
  BY <1>7, <1>8

-----------------------------------------------------------------------------
(***************************************************************************)
(* The inductive invariant of AdaptiveSched                                *)
(***************************************************************************)

\* AdaptiveTypeOK without the table of ProcCore.
AgeTypes ==
    /\ ticks \in 0..MaxTicks
    /\ age_start \in [Proc -> 0..ticks]
    /\ ready \in [Proc -> 0..ticks]
    /\ credit \in [Proc -> Credits]
    /\ trap \in BOOLEAN

ScanTypes ==
    /\ step \in [CPU -> Steps]
    /\ idx \in [CPU -> 1..NPROC]
    /\ chosen \in [CPU -> Proc \cup {None}]
    /\ best_pri \in [CPU -> PRIORITY_MIN..PRIORITY_MAX + 1]
    /\ waiting \in [CPU -> SUBSET Proc]
    /\ scanStart \in [CPU -> 0..ticks]

\* The scan keeps the best slot it has passed; wfi and dispatch come after
\* the last slot.
ScanShape(c) ==
    /\ (step[c] = "back") <=> (pc[c] # "loop")
    /\ step[c] \in {"scan", "decide"} /\ chosen[c] # None => chosen[c] < idx[c]
    /\ step[c] = "run" => chosen[c] # None
    /\ step[c] = "idle" => chosen[c] = None
    /\ chosen[c] = None /\ step[c] # "back" => best_pri[c] = PRIORITY_MAX + 1

\* The locks that a CPU holds: the candidate's and the one of the slot it
\* looks at, or the one that is handed over; none in wakeup().
Holds(c, p) ==
    \/ pc[c] = "loop" /\ chosen[c] = p
    \/ pc[c] = "loop" /\ step[c] = "decide" /\ idx[c] = p
    \/ pc[c] \in {"resume", "switch"} /\ cproc[c] = p

ScanLocks(c) ==
    \A p \in Proc : /\ lock[p] = c <=> Holds(c, p)
                    /\ wslot[c] # 0 => lock[p] # c

\* The slots that the scan of c has dealt with.
Visited(c) ==
    {p \in Proc : \/ step[c] \in {"scan", "decide"} /\ p < idx[c]
                  \/ step[c] \in {"run", "idle"}}

\* None of them that has waited all along is more urgent than the best, unless
\* its boost overflows.
ScanBest(c) ==
    /\ \A p \in waiting[c] : state[p] = "RUNNABLE" /\ age_start[p] <= scanStart[c]
    /\ \A p \in waiting[c] \cap Visited(c) :
           InRange(p) => best_pri[c] <= EffAt(p, scanStart[c])

\* The candidate, whose lock is held, stays RUNNABLE and is at least as urgent
\* as when it was visited, unless its boost overflows in the meantime.
ChosenUrgent(c) ==
    pc[c] = "loop" /\ chosen[c] # None =>
        /\ state[chosen[c]] = "RUNNABLE"
        /\ InRange(chosen[c]) => EffAt(chosen[c], ticks) <= best_pri[c]

AdaptiveInv ==
    /\ IInv
    /\ AgeTypes /\ ScanTypes
    /\ \A c \in CPU : ScanShape(c) /\ ScanLocks(c) /\ ScanBest(c) /\ ChosenUrgent(c)
    /\ WaitMeasured

\* Who has waited no longer than somebody in range is in range.
LEMMA FitsDown ==
    ASSUME NEW v \in Nat, NEW w \in Nat, v <= w, Fits(w)
    PROVE  Fits(v)
<1>1. v * AGING_RATE <= w * AGING_RATE /\ v * AGING_RATE \in Nat /\ w * AGING_RATE \in Nat
  BY TimesMonotone, PriorityAssumption
<1>2. QED
  BY <1>1, PriorityAssumption DEF Fits

\* A process is in range until, as time goes by, it is not.
LEMMA InRangeBefore ==
    ASSUME AgeTypes, NEW p \in Proc, ticks' \in Nat, ticks <= ticks',
           age_start'[p] = age_start[p], InRange(p)'
    PROVE  InRange(p)
<1> DEFINE v == ticks - age_start[p]
           w == ticks' - age_start[p]
<1>1. v \in Nat /\ w \in Nat /\ v <= w
  BY MaxTicksAssumption DEF AgeTypes
<1>2. Fits(w)
  BY DEF InRange, Fits
<1>3. Fits(v)
  BY <1>1, <1>2, FitsDown
<1>4. QED
  BY <1>3 DEF InRange

\* The effective priority of a process in range falls as time goes by.
LEMMA EffFalls ==
    ASSUME AgeTypes, NEW p \in Proc, InRange(p), NEW t \in 0..ticks, NEW u \in 0..ticks,
           age_start[p] <= t, t <= u
    PROVE  /\ EffAt(p, u) \in PRIORITY_MIN..PRIORITY_DEFAULT
           /\ EffAt(p, u) <= EffAt(p, t)
<1> DEFINE v == t - age_start[p]
           w == u - age_start[p]
           x == ticks - age_start[p]
<1>1. v \in Nat /\ w \in Nat /\ v <= w /\ x \in Nat /\ w <= x
  BY MaxTicksAssumption DEF AgeTypes
<1>2. Fits(x)
  BY DEF InRange
<1> HIDE DEF v, w, x
<1>3. Fits(w)
  BY <1>1, <1>2, FitsDown
<1>4. CurrPri(w) \in PRIORITY_MIN..PRIORITY_DEFAULT /\ CurrPri(w) <= CurrPri(v)
  BY <1>1, <1>3, AgingExact
<1>5. QED
  BY <1>4 DEF EffAt, v, w

-----------------------------------------------------------------------------
(* Every step is one of ProcCore                                           *)

LEMMA AdaptiveStepIsCoreStep ==
    AdaptiveInv /\ [AdaptiveNext]_adaptiveVars => [CoreNext]_coreVars
<1> SUFFICES ASSUME AdaptiveInv, [AdaptiveNext]_adaptiveVars
             PROVE  [CoreNext]_coreVars
  OBVIOUS
<1>1. CASE UNCHANGED adaptiveVars
  BY <1>1 DEF adaptiveVars, coreVars
<1>2. ASSUME NEW c \in CPU, ScanAcquire(c)
      PROVE  [CoreNext]_coreVars
  <2>1. idx[c] \in Proc /\ SchedAcquire(c, idx[c])
    BY <1>2 DEF ScanAcquire, Slot, AdaptiveInv, ScanTypes, Proc
  <2>2. QED
    BY <2>1 DEF CoreNext
<1>3. ASSUME NEW c \in CPU, ScanKeep(c)
      PROVE  [CoreNext]_coreVars
  <2>1. CASE chosen[c] = None
    BY <1>3, <2>1 DEF ScanKeep
  <2>2. CASE chosen[c] # None
    <3>1. chosen[c] \in Proc /\ SchedRelease(c, chosen[c])
      BY <1>3, <2>2 DEF ScanKeep, AdaptiveInv, ScanTypes
    <3>2. QED
      BY <3>1 DEF CoreNext
  <2>3. QED
    BY <2>1, <2>2
<1>4. ASSUME NEW c \in CPU, ScanDrop(c)
      PROVE  [CoreNext]_coreVars
  <2>1. idx[c] \in Proc /\ SchedRelease(c, idx[c])
    BY <1>4 DEF ScanDrop, Slot, AdaptiveInv, ScanTypes, Proc
  <2>2. QED
    BY <2>1 DEF CoreNext
<1>5. ASSUME NEW c \in CPU, AdaptiveDispatch(c)
      PROVE  [CoreNext]_coreVars
  <2>1. chosen[c] \in Proc /\ Dispatch(c, chosen[c])
    BY <1>5 DEF AdaptiveDispatch, AdaptiveInv, ScanTypes, ScanShape
  <2>2. QED
    BY <2>1 DEF CoreNext
<1>6. ASSUME NEW c \in CPU, LeaveIdle(c) \/ AdaptiveReturn(c) \/ AdaptiveYield(c)
      PROVE  [CoreNext]_coreVars
  BY <1>6 DEF LeaveIdle, AdaptiveReturn, AdaptiveYield, CoreNext
<1>7. ASSUME NEW c \in CPU,
             ClockIntr(c) \/ OtherWakeStart(c) \/ AdaptiveExit(c) \/ AdaptiveOther(c)
      PROVE  [CoreNext]_coreVars
  BY <1>7 DEF ClockIntr, OtherWakeStart, AdaptiveExit, AdaptiveOther, CoreNext
<1>8. ASSUME NEW c \in CPU, NEW q \in Proc,
             \/ AdaptiveWakeHit(c, q) \/ AdaptiveAlloc(c, q)
             \/ AdaptiveFork(c, q) \/ AdaptiveKill(c, q)
      PROVE  [CoreNext]_coreVars
  BY <1>8 DEF AdaptiveWakeHit, AdaptiveAlloc, AdaptiveFork, AdaptiveKill, CoreNext
<1>9. QED
  BY <1>1, <1>2, <1>3, <1>4, <1>5, <1>6, <1>7, <1>8 DEF AdaptiveNext

-----------------------------------------------------------------------------
(* Aging                                                                   *)

\* A slot's age_start is set only while it is not RUNNABLE, and who becomes
\* RUNNABLE has it set in that step or is credited.
LEMMA AgeStep ==
    ASSUME AdaptiveInv, AdaptiveNext
    PROVE  /\ AgeTypes' /\ WaitMeasured'
           /\ ticks <= ticks'
           /\ \A p \in Proc : state[p] = "RUNNABLE" => age_start'[p] = age_start[p]
<1> USE DEF AdaptiveInv
<1>t. AgeTypes /\ ticks \in Nat /\ MaxTicks \in Nat
  BY MaxTicksAssumption DEF AgeTypes
<1>k. /\ RunnableNext = {p \in Proc : state'[p] = "RUNNABLE"}
      /\ state \in [Proc -> States] /\ pc \in [CPU -> Pcs]
  BY DEF RunnableNext, IInv, CoreTypeOK
<1>1. ASSUME NEW c \in CPU, LeaveIdle(c) \/ AdaptiveReturn(c)
      PROVE  UNCHANGED <<ticks, age_start, ready, credit, trap, state>>
  BY <1>1 DEF LeaveIdle, AdaptiveReturn, Return, Top, TrackRestart, ageVars, coreVars
<1>2. ASSUME NEW c \in CPU,
             \/ ScanAcquire(c) \/ ScanKeep(c) \/ ScanDrop(c) \/ AdaptiveDispatch(c)
             \/ OtherWakeStart(c) \/ AdaptiveOther(c) \/ AdaptiveExit(c) \/ ClockIntr(c)
      PROVE  /\ UNCHANGED age_start /\ Track
             /\ \/ ticks' = ticks
                \/ ticks' = ticks + 1 /\ ticks' <= MaxTicks
             /\ credit' \in [Proc -> Credits] /\ trap' \in BOOLEAN
             /\ \A p \in Proc : state'[p] = "RUNNABLE" =>
                    state[p] = "RUNNABLE" /\ credit'[p] = credit[p]
  <2>1. CASE AdaptiveDispatch(c)
    <3>1. chosen[c] \in Proc /\ chosen[c] # None
      BY <2>1 DEF AdaptiveDispatch, ScanTypes, ScanShape
    <3>2. /\ state' = [state EXCEPT ![chosen[c]] = "RUNNING"]
          /\ credit' = [credit EXCEPT ![chosen[c]] = "nobody"]
          /\ UNCHANGED <<ticks, age_start, trap>> /\ Track
      BY <2>1 DEF AdaptiveDispatch, Dispatch
    <3>3. QED
      BY <1>t, <1>k, <3>1, <3>2 DEF AgeTypes, Credits
  <2>2. CASE ScanAcquire(c) \/ ScanKeep(c) \/ ScanDrop(c) \/ OtherWakeStart(c)
    BY <1>t, <2>2 DEF ScanAcquire, SchedAcquire, ScanKeep, ScanDrop, SchedRelease,
                      OtherWakeStart, WakeStart, ageVars, coreVars, AgeTypes
  <2>3. CASE ClockIntr(c)
    BY <1>t, <2>3 DEF ClockIntr, WakeStart, AgeTypes
  <2>4. CASE AdaptiveOther(c) \/ AdaptiveExit(c)
    <3>1. /\ UNCHANGED <<ticks, age_start, credit>> /\ Track /\ trap' \in BOOLEAN
      BY <1>t, <2>4 DEF AdaptiveOther, AdaptiveExit, LeaveTrap, ageVars, AgeTypes
    <3>2. \A p \in Proc : state'[p] = "RUNNABLE" => state[p] = "RUNNABLE"
      BY <1>k, <2>4 DEF AdaptiveOther, AdaptiveExit, Resume, Sleep, Exit, GiveUp, WakeMiss, Reap
    <3>3. QED
      BY <1>t, <3>1, <3>2 DEF AgeTypes
  <2>5. QED
    BY <1>2, <2>1, <2>2, <2>3, <2>4
<1>3. ASSUME NEW c \in CPU, AdaptiveYield(c)
      PROVE  \E p \in Proc : /\ StartAging(p) /\ state[p] # "RUNNABLE" /\ trap' \in BOOLEAN
                             /\ \A q \in Proc \ {p} : state'[q] = state[q]
  <2>1. cproc[c] \in Proc /\ state[cproc[c]] = "RUNNING"
    BY <1>3 DEF AdaptiveYield, Yield, GiveUp, InProc, IInv, CoreTypeOK, Handoff,
                StateMatchesPc
  <2>2. QED
    BY <1>3, <1>k, <2>1 DEF AdaptiveYield, Yield, GiveUp, LeaveTrap
<1>4. ASSUME NEW c \in CPU, NEW q \in Proc, AdaptiveWakeHit(c, q) \/ AdaptiveAlloc(c, q)
      PROVE  \E p \in Proc : /\ StartAging(p) /\ state[p] # "RUNNABLE" /\ trap' \in BOOLEAN
                             /\ \A r \in Proc \ {p} : state'[r] = state[r]
  BY <1>4, <1>t, <1>k DEF AdaptiveWakeHit, AdaptiveAlloc, WakeHit, Alloc, AgeTypes
<1>5. ASSUME NEW c \in CPU, NEW q \in Proc, AdaptiveFork(c, q) \/ AdaptiveKill(c, q)
      PROVE  \E by \in {"kfork", "kkill"} :
                 /\ Credit(q, by) /\ state[q] # "RUNNABLE"
                 /\ state' = [state EXCEPT ![q] = "RUNNABLE"]
  <2>1. CASE AdaptiveFork(c, q)
    <3>1. MakeRunnable(c, q) /\ cproc[c] \in Proc /\ child[cproc[c]] = q
      BY <2>1 DEF AdaptiveFork, MakeRunnable, InProc, IInv, CoreTypeOK, Handoff, StateMatchesPc
    <3>2. state[q] = "USED"
      BY <3>1, NoneAssumption DEF IInv, ForkOwnsChild, Proc
    <3>3. QED
      BY <2>1, <3>1, <3>2 DEF AdaptiveFork, MakeRunnable
  <2>2. CASE AdaptiveKill(c, q)
    BY <2>2 DEF AdaptiveKill, Kill
  <2>3. QED
    BY <1>5, <2>1, <2>2
<1>6. CASE UNCHANGED <<ticks, age_start, ready, credit, trap, state>>
  BY <1>6, <1>t DEF AgeTypes, WaitMeasured
<1>7. CASE /\ UNCHANGED age_start /\ Track
           /\ ticks' = ticks \/ (ticks' = ticks + 1 /\ ticks' <= MaxTicks)
           /\ credit' \in [Proc -> Credits] /\ trap' \in BOOLEAN
           /\ \A p \in Proc : state'[p] = "RUNNABLE" =>
                  state[p] = "RUNNABLE" /\ credit'[p] = credit[p]
  <2>1. ticks <= ticks' /\ ticks' \in 0..MaxTicks
    BY <1>7, <1>t DEF AgeTypes
  <2>2. AgeTypes'
    BY <1>7, <1>t, <2>1 DEF AgeTypes, Track
  <2>3. \A p \in Proc : state'[p] = "RUNNABLE" => ready'[p] = ready[p]
    BY <1>7, <1>k DEF Track
  <2>4. WaitMeasured'
    BY <1>7, <2>3 DEF WaitMeasured
  <2>5. QED
    BY <1>7, <2>1, <2>2, <2>4
<1>8. CASE \E p \in Proc : /\ StartAging(p) /\ state[p] # "RUNNABLE" /\ trap' \in BOOLEAN
                           /\ \A q \in Proc \ {p} : state'[q] = state[q]
  <2>1. PICK p \in Proc : /\ StartAging(p) /\ state[p] # "RUNNABLE" /\ trap' \in BOOLEAN
                          /\ \A q \in Proc \ {p} : state'[q] = state[q]
    BY <1>8
  <2>2. /\ ticks' = ticks /\ credit' = credit /\ Track
        /\ age_start' = [age_start EXCEPT ![p] = ticks]
    BY <2>1 DEF StartAging
  <2>3. AgeTypes'
    BY <2>1, <2>2, <1>t DEF AgeTypes, Track
  <2>4. WaitMeasured'
    BY <2>1, <2>2, <1>t, <1>k DEF AgeTypes, WaitMeasured, Track
  <2>5. QED
    BY <2>1, <2>2, <2>3, <2>4, <1>t DEF AgeTypes
<1>9. CASE \E q \in Proc, by \in {"kfork", "kkill"} :
               /\ Credit(q, by) /\ state[q] # "RUNNABLE"
               /\ state' = [state EXCEPT ![q] = "RUNNABLE"]
  <2>1. PICK q \in Proc, by \in {"kfork", "kkill"} :
               /\ Credit(q, by) /\ state[q] # "RUNNABLE"
               /\ state' = [state EXCEPT ![q] = "RUNNABLE"]
    BY <1>9
  <2>2. /\ UNCHANGED <<ticks, age_start, trap>> /\ Track
        /\ credit' = IF age_start[q] = ticks THEN credit ELSE [credit EXCEPT ![q] = by]
    BY <2>1 DEF Credit
  <2>3. AgeTypes'
    BY <2>1, <2>2, <1>t DEF AgeTypes, Track, Credits
  <2>4. WaitMeasured'
    BY <2>1, <2>2, <1>t, <1>k DEF AgeTypes, WaitMeasured, Track
  <2>5. QED
    BY <2>2, <2>3, <2>4, <1>t
<1>10. QED
  BY <1>1, <1>2, <1>3, <1>4, <1>5, <1>6, <1>7, <1>8, <1>9 DEF AdaptiveNext

-----------------------------------------------------------------------------
(* The scan                                                                *)

\* The effective priorities that a scan computes, in range or not.
LEMMA EffIsInt ==
    ASSUME AgeTypes, NEW p \in Proc
    PROVE  EffAt(p, ticks) \in Int /\ PRIORITY_MIN <= EffAt(p, ticks)
<1>1. ticks - age_start[p] \in Nat
  BY MaxTicksAssumption DEF AgeTypes
<1>2. CurrPri(ticks - age_start[p]) \in PRIORITY_MIN..IntMax
  BY <1>1, CurrPriInt
<1>3. QED
  BY <1>2, PriorityAssumption DEF EffAt

\* What Top() leaves in c's variables.
LEMMA TopFacts ==
    ASSUME ScanTypes, NEW c \in CPU, Top(c)
    PROVE  /\ step' = [step EXCEPT ![c] = "scan"]
           /\ idx' = [idx EXCEPT ![c] = 1]
           /\ chosen' = [chosen EXCEPT ![c] = None]
           /\ best_pri' = [best_pri EXCEPT ![c] = PRIORITY_MAX + 1]
           /\ scanStart' = [scanStart EXCEPT ![c] = ticks]
           /\ waiting' \in [CPU -> SUBSET Proc]
BY DEF Top, TrackRestart, ScanTypes, RunnableNext

LEMMA TrackTypes ==
    ASSUME ScanTypes, Track
    PROVE  waiting' \in [CPU -> SUBSET Proc]
BY DEF Track, ScanTypes

LEMMA ScanStep ==
    ASSUME AdaptiveInv, AdaptiveNext, AgeTypes', ticks <= ticks'
    PROVE  ScanTypes' /\ \A c \in CPU : ScanShape(c)'
<1> USE PriorityAssumption, NPROCAssumption, NoneAssumption DEF AdaptiveInv
<1>s. ScanTypes /\ \A c \in CPU : ScanShape(c)
  OBVIOUS
<1>t. ticks \in Nat /\ ticks' \in Nat /\ scanStart \in [CPU -> 0..ticks']
  BY MaxTicksAssumption DEF AgeTypes, ScanTypes
<1>1. ASSUME NEW c \in CPU, LeaveIdle(c) \/ AdaptiveReturn(c)
      PROVE  ScanTypes' /\ \A d \in CPU : ScanShape(d)'
  <2>1. Top(c) /\ ticks' = ticks
    BY <1>1 DEF LeaveIdle, AdaptiveReturn, ageVars
  <2>2. pc' = [pc EXCEPT ![c] = "loop"]
    BY <1>1 DEF LeaveIdle, AdaptiveReturn, InLoop, Return, coreVars, IInv, CoreTypeOK
  <2>3. ScanTypes'
    BY <1>t, <2>1, TopFacts DEF ScanTypes, Steps
  <2>4. \A d \in CPU : ScanShape(d)'
    BY <2>1, <2>2, TopFacts DEF ScanTypes, ScanShape, IInv, CoreTypeOK
  <2>5. QED
    BY <2>3, <2>4
<1>2. ASSUME NEW c \in CPU, ScanAcquire(c)
      PROVE  ScanTypes' /\ \A d \in CPU : ScanShape(d)'
  BY <1>2, <1>t, TrackTypes
     DEF ScanAcquire, SchedAcquire, ageVars, ScanTypes, ScanShape, Steps
<1>3. ASSUME NEW c \in CPU, ScanKeep(c)
      PROVE  ScanTypes' /\ \A d \in CPU : ScanShape(d)'
  <2>1. idx[c] \in Proc /\ idx[c] # None
    BY DEF ScanTypes, Proc
  <2>2. EffAt(idx[c], ticks) \in PRIORITY_MIN..PRIORITY_MAX
    BY <1>3, <2>1, EffIsInt DEF ScanKeep, Better, Slot, ScanTypes
  <2>3. /\ step[c] = "decide" /\ pc' = pc /\ NextScan(c, idx[c])
        /\ chosen' = [chosen EXCEPT ![c] = idx[c]]
        /\ best_pri' = [best_pri EXCEPT ![c] = EffAt(idx[c], ticks)]
        /\ scanStart' = scanStart /\ Track
    BY <1>3 DEF ScanKeep, Slot, coreVars, SchedRelease
  <2>4. ScanTypes'
    BY <1>t, <2>1, <2>2, <2>3, TrackTypes DEF NextScan, ScanTypes, Steps
  <2>5. \A d \in CPU : ScanShape(d)'
    BY <2>1, <2>3 DEF NextScan, ScanTypes, ScanShape
  <2>6. QED
    BY <2>4, <2>5
<1>4. ASSUME NEW c \in CPU, ScanDrop(c)
      PROVE  ScanTypes' /\ \A d \in CPU : ScanShape(d)'
  <2>1. /\ step[c] = "decide" /\ pc' = pc /\ NextScan(c, chosen[c])
        /\ chosen' = chosen /\ best_pri' = best_pri
        /\ scanStart' = scanStart /\ Track
    BY <1>4 DEF ScanDrop, SchedRelease
  <2>2. ScanTypes'
    BY <1>t, <2>1, TrackTypes DEF NextScan, ScanTypes, Steps
  <2>3. \A d \in CPU : ScanShape(d)'
    BY <2>1 DEF NextScan, ScanTypes, ScanShape, Proc
  <2>4. QED
    BY <2>2, <2>3
<1>5. ASSUME NEW c \in CPU, AdaptiveDispatch(c)
      PROVE  ScanTypes' /\ \A d \in CPU : ScanShape(d)'
  BY <1>5, <1>t, TrackTypes
     DEF AdaptiveDispatch, Dispatch, ageVars, ScanTypes, ScanShape, Steps, IInv, CoreTypeOK
<1>6. ASSUME NEW c \in CPU,
             \/ AdaptiveYield(c) \/ ClockIntr(c) \/ OtherWakeStart(c)
             \/ AdaptiveExit(c) \/ AdaptiveOther(c)
             \/ \E q \in Proc : \/ AdaptiveWakeHit(c, q) \/ AdaptiveAlloc(c, q)
                                \/ AdaptiveFork(c, q) \/ AdaptiveKill(c, q)
      PROVE  ScanTypes' /\ \A d \in CPU : ScanShape(d)'
  <2>1. UNCHANGED scanVars /\ Track
    BY <1>6 DEF AdaptiveYield, ClockIntr, OtherWakeStart, AdaptiveExit, AdaptiveOther,
                AdaptiveWakeHit, AdaptiveAlloc, AdaptiveFork, AdaptiveKill, StartAging, Credit
  <2>2. \A d \in CPU : pc'[d] = "loop" <=> pc[d] = "loop"
    BY <1>6 DEF AdaptiveYield, ClockIntr, OtherWakeStart, AdaptiveExit, AdaptiveOther,
                AdaptiveWakeHit, AdaptiveAlloc, AdaptiveFork, AdaptiveKill, Yield, Sleep, Exit, GiveUp, InProc, WakeStart,
                Resume, MakeRunnable, Kill, Reap, WakeMiss, WakeHit, Alloc, IInv, CoreTypeOK
  <2>3. QED
    BY <1>t, <2>1, <2>2, TrackTypes DEF scanVars, ScanTypes, ScanShape
<1>7. QED
  BY <1>1, <1>2, <1>3, <1>4, <1>5, <1>6 DEF AdaptiveNext

-----------------------------------------------------------------------------
(* The locks                                                               *)

\* A CPU that takes a free lock, or drops one of its own, changes nothing for
\* the other CPUs.
LEMMA OtherLocks ==
    ASSUME AdaptiveInv, NEW c \in CPU, NEW d \in CPU, c # d,
           \A p \in Proc : lock'[p] = lock[p] \/ (lock[p] \in {None, c} /\ lock'[p] \in {None, c}),
           pc'[d] = pc[d], step'[d] = step[d], chosen'[d] = chosen[d],
           idx'[d] = idx[d], cproc'[d] = cproc[d], wslot'[d] = wslot[d]
    PROVE  ScanLocks(d)'
BY NoneAssumption DEF AdaptiveInv, ScanLocks, Holds

LEMMA LockStep ==
    ASSUME AdaptiveInv, AdaptiveNext
    PROVE  \A c \in CPU : ScanLocks(c)'
<1> USE NoneAssumption DEF AdaptiveInv
<1>k. /\ lock \in [Proc -> CPU \cup {None}] /\ pc \in [CPU -> Pcs]
      /\ cproc \in [CPU -> Proc \cup {None}] /\ wslot \in [CPU -> 0..NPROC]
  BY DEF IInv, CoreTypeOK
<1>s. /\ step \in [CPU -> Steps] /\ idx \in [CPU -> 1..NPROC]
      /\ chosen \in [CPU -> Proc \cup {None}]
  BY DEF ScanTypes
<1>h. \A c \in CPU : ScanShape(c) /\ ScanLocks(c)
  OBVIOUS
<1>p. \A c \in CPU : pc[c] # "loop" => cproc[c] \in Proc
  BY <1>k DEF IInv, Handoff, StateMatchesPc
<1>n. None \notin Proc
  BY DEF Proc
<1>1. ASSUME NEW c \in CPU, ScanAcquire(c)
      PROVE  \A d \in CPU : ScanLocks(d)'
  <2>1. /\ idx[c] \in Proc /\ lock[idx[c]] = None /\ step[c] = "scan" /\ pc[c] = "loop"
        /\ lock' = [lock EXCEPT ![idx[c]] = c] /\ step' = [step EXCEPT ![c] = "decide"]
        /\ wslot[c] = 0 /\ UNCHANGED <<pc, chosen, idx, cproc, wslot>>
    BY <1>1, <1>s DEF ScanAcquire, SchedAcquire, InLoop, Slot, Proc
  <2>2. ScanLocks(c)'
    BY <2>1, <1>k, <1>s, <1>h DEF ScanLocks, Holds
  <2>3. \A d \in CPU \ {c} : ScanLocks(d)'
    BY <2>1, <1>k, <1>s, OtherLocks
  <2>4. QED
    BY <2>2, <2>3
<1>2. ASSUME NEW c \in CPU, ScanKeep(c)
      PROVE  \A d \in CPU : ScanLocks(d)'
  <2>1. /\ step[c] = "decide" /\ pc[c] = "loop" /\ wslot[c] = 0
        /\ chosen' = [chosen EXCEPT ![c] = idx[c]]
        /\ step'[c] # "decide" /\ \A d \in CPU \ {c} : step'[d] = step[d] /\ idx'[d] = idx[d]
        /\ UNCHANGED <<pc, cproc, wslot>>
    BY <1>2, <1>s DEF ScanKeep, NextScan, InLoop, Slot, coreVars, SchedRelease
  <2>2. ASSUME chosen[c] # None
        PROVE  chosen[c] # idx[c] /\ lock[chosen[c]] = c /\ chosen[c] \in Proc
    <3>1. chosen[c] \in Proc /\ chosen[c] < idx[c]
      BY <2>1, <2>2, <1>h, <1>s DEF ScanShape
    <3>2. \A p \in Proc : chosen[c] = p => lock[p] = c
      BY <2>1, <1>h DEF ScanLocks, Holds
    <3>3. chosen[c] # idx[c]
      BY <3>1, <1>s DEF Proc
    <3>4. QED
      BY <3>1, <3>2, <3>3
  <2>3. lock' = IF chosen[c] = None THEN lock ELSE [lock EXCEPT ![chosen[c]] = None]
    BY <1>2 DEF ScanKeep, SchedRelease, coreVars
  <2>4. ScanLocks(c)'
    <3>1. \A p \in Proc : lock[p] = c <=> p = chosen[c] \/ p = idx[c]
      BY <2>1, <1>h DEF ScanLocks, Holds
    <3>2. \A p \in Proc : lock'[p] = c <=> p = idx[c]
      BY <2>2, <2>3, <3>1, <1>k, <1>n
    <3>3. \A p \in Proc : Holds(c, p)' <=> p = idx[c]
      BY <2>1, <1>s DEF Holds
    <3>4. QED
      BY <2>1, <3>2, <3>3 DEF ScanLocks
  <2>5. \A d \in CPU \ {c} : ScanLocks(d)'
    BY <2>1, <2>2, <2>3, <1>k, <1>s, OtherLocks
  <2>6. QED
    BY <2>4, <2>5
<1>3. ASSUME NEW c \in CPU, ScanDrop(c)
      PROVE  \A d \in CPU : ScanLocks(d)'
  <2>1. /\ step[c] = "decide" /\ pc[c] = "loop" /\ wslot[c] = 0 /\ lock[idx[c]] = c
        /\ idx[c] \in Proc /\ lock' = [lock EXCEPT ![idx[c]] = None]
        /\ step'[c] # "decide" /\ \A d \in CPU \ {c} : step'[d] = step[d] /\ idx'[d] = idx[d]
        /\ UNCHANGED <<pc, chosen, cproc, wslot>>
    BY <1>3, <1>s DEF ScanDrop, NextScan, InLoop, Slot, SchedRelease, Proc
  <2>2. chosen[c] # idx[c]
    BY <2>1, <1>h, <1>s, <1>n DEF ScanShape, Proc
  <2>3. ScanLocks(c)'
    BY <2>1, <2>2, <1>k, <1>s, <1>h DEF ScanLocks, Holds
  <2>4. \A d \in CPU \ {c} : ScanLocks(d)'
    BY <2>1, <1>k, <1>s, OtherLocks
  <2>5. QED
    BY <2>3, <2>4
<1>4. ASSUME NEW c \in CPU, AdaptiveDispatch(c)
      PROVE  \A d \in CPU : ScanLocks(d)'
  <2>1. /\ step[c] = "run" /\ pc[c] = "loop" /\ wslot[c] = 0 /\ chosen[c] \in Proc
        /\ cproc' = [cproc EXCEPT ![c] = chosen[c]] /\ pc' = [pc EXCEPT ![c] = "resume"]
        /\ step' = [step EXCEPT ![c] = "back"]
        /\ UNCHANGED <<lock, idx, chosen, wslot>>
    BY <1>4, <1>s, <1>h DEF AdaptiveDispatch, Dispatch, InLoop, ScanShape
  <2>2. ScanLocks(c)'
    BY <2>1, <1>k, <1>s, <1>h DEF ScanLocks, Holds
  <2>3. \A d \in CPU \ {c} : ScanLocks(d)'
    BY <2>1, <1>k, <1>s, OtherLocks
  <2>4. QED
    BY <2>2, <2>3
<1>5. ASSUME NEW c \in CPU, AdaptiveReturn(c)
      PROVE  \A d \in CPU : ScanLocks(d)'
  <2>1. /\ pc[c] = "switch" /\ cproc[c] \in Proc /\ lock' = [lock EXCEPT ![cproc[c]] = None]
        /\ cproc' = [cproc EXCEPT ![c] = None] /\ pc' = [pc EXCEPT ![c] = "loop"]
        /\ wslot' = wslot /\ Top(c)
    BY <1>5, <1>p DEF AdaptiveReturn, Return
  <2>2. lock[cproc[c]] = c
    BY <2>1 DEF IInv, Handoff, LockHandedOver
  <2>3. ScanLocks(c)'
    <3>1. \A p \in Proc : lock[p] = c <=> p = cproc[c]
      BY <2>1, <1>h DEF ScanLocks, Holds
    <3>2. \A p \in Proc : lock'[p] # c
      BY <2>1, <3>1, <1>k
    <3>3. \A p \in Proc : ~Holds(c, p)'
      BY <2>1, <1>k, <1>s, <1>n, TopFacts DEF Holds
    <3>4. QED
      BY <3>2, <3>3 DEF ScanLocks
  <2>4. \A d \in CPU \ {c} : ScanLocks(d)'
    BY <2>1, <2>2, <1>k, <1>s, OtherLocks, TopFacts
  <2>5. QED
    BY <2>3, <2>4
<1>6. ASSUME NEW c \in CPU, LeaveIdle(c)
      PROVE  \A d \in CPU : ScanLocks(d)'
  <2>1. /\ step[c] = "idle" /\ pc[c] = "loop" /\ chosen[c] = None
        /\ UNCHANGED <<pc, lock, cproc, wslot>> /\ Top(c)
    BY <1>6, <1>h DEF LeaveIdle, InLoop, coreVars, ScanShape
  <2>2. ScanLocks(c)'
    <3>1. \A p \in Proc : lock[p] # c
      BY <2>1, <1>h, <1>n DEF ScanLocks, Holds
    <3>2. \A p \in Proc : ~Holds(c, p)'
      BY <2>1, <1>k, <1>s, <1>n, TopFacts DEF Holds
    <3>3. QED
      BY <2>1, <3>1, <3>2 DEF ScanLocks
  <2>3. \A d \in CPU \ {c} : ScanLocks(d)'
    BY <2>1, <1>k, <1>s, OtherLocks, TopFacts
  <2>4. QED
    BY <2>2, <2>3
<1>7. ASSUME NEW c \in CPU, ClockIntr(c) \/ OtherWakeStart(c)
      PROVE  \A d \in CPU : ScanLocks(d)'
  BY <1>7, <1>k, <1>s, <1>h
     DEF ClockIntr, OtherWakeStart, WakeStart, scanVars, ScanLocks, Holds
<1>8. ASSUME NEW c \in CPU, UNCHANGED scanVars,
             \/ Yield(c) \/ Sleep(c) \/ Exit(c) \/ Resume(c)
      PROVE  \A d \in CPU : ScanLocks(d)'
  <2>1. pc[c] \in {"proc", "resume"} /\ cproc[c] \in Proc
    BY <1>8, <1>p DEF Yield, Sleep, Exit, Resume, GiveUp, InProc
  <2>2. step[c] = "back" /\ UNCHANGED <<cproc, wslot, step, idx, chosen>>
    BY <1>8, <2>1, <1>h DEF Yield, Sleep, Exit, Resume, GiveUp, scanVars, ScanShape
  <2>3. \/ /\ pc[c] = "proc" /\ wslot[c] = 0 /\ lock[cproc[c]] = None
           /\ lock' = [lock EXCEPT ![cproc[c]] = c] /\ pc' = [pc EXCEPT ![c] = "switch"]
        \/ /\ pc[c] = "resume" /\ lock[cproc[c]] = c
           /\ lock' = [lock EXCEPT ![cproc[c]] = None] /\ pc' = [pc EXCEPT ![c] = "proc"]
    <3>1. CASE Resume(c)
      BY <3>1 DEF Resume, IInv, Handoff, LockHandedOver
    <3>2. CASE Yield(c) \/ Sleep(c) \/ Exit(c)
      BY <3>2 DEF Yield, Sleep, Exit, GiveUp, InProc
    <3>3. QED
      BY <1>8, <3>1, <3>2
  <2>4. ScanLocks(c)'
    BY <2>1, <2>2, <2>3, <1>k, <1>s, <1>h DEF ScanLocks, Holds
  <2>5. \A d \in CPU \ {c} : ScanLocks(d)'
    BY <2>1, <2>2, <2>3, <1>k, <1>s, OtherLocks
  <2>6. QED
    BY <2>4, <2>5
<1>9. ASSUME NEW c \in CPU, NEW q \in Proc, UNCHANGED scanVars,
             \/ Alloc(c, q) \/ MakeRunnable(c, q) \/ Kill(c, q) \/ Reap(c, q)
             \/ WakeHit(c, q) \/ WakeMiss(c, q)
      PROVE  \A d \in CPU : ScanLocks(d)'
  <2>1. /\ UNCHANGED <<lock, cproc, pc, step, idx, chosen>>
        /\ \A d \in CPU : wslot'[d] # 0 => wslot[d] # 0
    BY <1>9, <1>k DEF Alloc, MakeRunnable, Kill, Reap, WakeHit, WakeMiss, NextSlot,
                      scanVars, Proc
  <2>2. QED
    BY <2>1, <1>h DEF ScanLocks, Holds
<1>10. QED
  BY <1>1, <1>2, <1>3, <1>4, <1>5, <1>6, <1>7, <1>8, <1>9
     DEF AdaptiveNext, AdaptiveYield, AdaptiveExit, AdaptiveOther, AdaptiveWakeHit,
         AdaptiveAlloc, AdaptiveFork, AdaptiveKill, StartAging, Credit

-----------------------------------------------------------------------------
(* The best candidate                                                      *)

\* What a scan has found stays true while it does not go on: who still waits
\* was RUNNABLE all along, and its age_start has not moved.
LEMMA BestKept ==
    ASSUME AdaptiveInv, NEW d \in CPU, ticks' \in Nat, ticks <= ticks',
           \A p \in Proc : state[p] = "RUNNABLE" => age_start'[p] = age_start[p],
           waiting'[d] = waiting[d] \cap RunnableNext, scanStart'[d] = scanStart[d],
           best_pri'[d] = best_pri[d], Visited(d)' \subseteq Visited(d)
    PROVE  ScanBest(d)'
<1>1. ScanBest(d) /\ waiting[d] \subseteq Proc /\ waiting'[d] \subseteq waiting[d]
  BY DEF AdaptiveInv, ScanTypes
<1>2. \A p \in waiting'[d] : /\ p \in Proc /\ state[p] = "RUNNABLE"
                             /\ state'[p] = "RUNNABLE" /\ age_start'[p] = age_start[p]
  BY <1>1 DEF ScanBest, RunnableNext
<1>3. \A p \in waiting'[d] : InRange(p)' => InRange(p)
  BY <1>2, InRangeBefore DEF AdaptiveInv
<1>4. QED
  BY <1>1, <1>2, <1>3 DEF ScanBest, EffAt

\* Of two waiting processes the scan keeps the one that was the more urgent
\* when it began: the other, visited at a later tick, has only become more so.
LEMMA BestVisited ==
    ASSUME AdaptiveInv, NEW c \in CPU, ScanKeep(c) \/ ScanDrop(c),
           \A p \in Proc : state[p] = "RUNNABLE" => age_start'[p] = age_start[p]
    PROVE  ScanBest(c)'
<1> USE DEF AdaptiveInv
<1>1. /\ step \in [CPU -> Steps] /\ idx \in [CPU -> 1..NPROC] /\ idx[c] \in Proc
      /\ waiting \in [CPU -> SUBSET Proc] /\ scanStart[c] \in 0..ticks
      /\ best_pri \in [CPU -> PRIORITY_MIN..PRIORITY_MAX + 1] /\ ScanBest(c)
  BY DEF ScanTypes, Proc
<1>2. /\ step[c] = "decide" /\ waiting'[c] \subseteq waiting[c]
      /\ scanStart' = scanStart /\ ticks' = ticks /\ age_start' = age_start
      /\ \A p \in waiting'[c] : state'[p] = "RUNNABLE"
  BY <1>1 DEF ScanKeep, ScanDrop, Track, RunnableNext, ageVars
<1>3. Visited(c)' \subseteq Visited(c) \cup {idx[c]}
  <2>1. NextScan(c, idx[c]) \/ NextScan(c, chosen[c])
    BY DEF ScanKeep, ScanDrop, Slot
  <2>2. \A p \in Proc : p < idx[c] \/ p = idx[c] \/ (idx[c] < p /\ idx[c] < NPROC)
    BY <1>1, NPROCAssumption DEF Proc
  <2>3. QED
    BY <1>1, <1>2, <2>1, <2>2, NPROCAssumption DEF NextScan, Visited, Proc
<1>4. \A p \in waiting[c] : /\ p \in Proc /\ state[p] = "RUNNABLE"
                            /\ age_start[p] <= scanStart[c] /\ age_start'[p] = age_start[p]
  BY <1>1 DEF ScanBest
<1>5. /\ best_pri'[c] <= best_pri[c]
      /\ state[idx[c]] = "RUNNABLE" => best_pri'[c] <= EffAt(idx[c], ticks)
      /\ best_pri'[c] \in Int /\ best_pri[c] \in Int
  <2>1. EffAt(idx[c], ticks) \in Int /\ best_pri[c] \in Int
    BY <1>1, EffIsInt, PriorityAssumption
  <2>2. CASE ScanKeep(c)
    BY <1>1, <2>1, <2>2 DEF ScanKeep, Better, Slot
  <2>3. CASE ScanDrop(c)
    BY <1>1, <2>1, <2>3 DEF ScanDrop, Better, Slot
  <2>4. QED
    BY <2>2, <2>3
<1>6. ASSUME NEW p \in waiting'[c] \cap Visited(c)', InRange(p)
      PROVE  best_pri'[c] <= EffAt(p, scanStart[c])
  <2>1. /\ EffAt(p, ticks) <= EffAt(p, scanStart[c])
        /\ EffAt(p, ticks) \in Int /\ EffAt(p, scanStart[c]) \in Int
    BY <1>1, <1>2, <1>4, <1>6, EffFalls, MaxTicksAssumption, PriorityAssumption DEF AgeTypes
  <2>2. CASE p = idx[c]
    BY <1>2, <1>4, <1>5, <2>1, <2>2
  <2>3. CASE p \in Visited(c)
    <3>1. best_pri[c] <= EffAt(p, scanStart[c])
      BY <1>1, <1>2, <1>6, <2>3 DEF ScanBest
    <3>2. QED
      BY <1>5, <2>1, <3>1
  <2>4. QED
    BY <1>3, <2>2, <2>3
<1>7. QED
  BY <1>2, <1>4, <1>6 DEF ScanBest, EffAt, InRange

LEMMA BestStep ==
    ASSUME AdaptiveInv, AdaptiveNext
    PROVE  \A c \in CPU : ScanBest(c)'
<1> USE DEF AdaptiveInv
<1>a. /\ \A p \in Proc : state[p] = "RUNNABLE" => age_start'[p] = age_start[p]
      /\ ticks' \in Nat /\ ticks <= ticks'
  BY AgeStep, MaxTicksAssumption DEF AgeTypes
<1>t. /\ step \in [CPU -> Steps] /\ idx \in [CPU -> 1..NPROC]
      /\ waiting \in [CPU -> SUBSET Proc] /\ scanStart \in [CPU -> 0..ticks]
      /\ best_pri \in [CPU -> PRIORITY_MIN..PRIORITY_MAX + 1]
  BY DEF ScanTypes
<1>1. ASSUME NEW c \in CPU, LeaveIdle(c) \/ AdaptiveReturn(c)
      PROVE  \A d \in CPU : ScanBest(d)'
  <2>1. Top(c) /\ TrackRestart(c) /\ age_start' = age_start
    BY <1>1 DEF LeaveIdle, AdaptiveReturn, Top, ageVars
  <2>2. ScanBest(c)'
    <3>1. Visited(c)' = {}
      BY <2>1, <1>t, TopFacts DEF Visited, Proc
    <3>2. waiting'[c] = RunnableNext /\ scanStart'[c] = ticks
      BY <2>1, <1>t, TopFacts DEF TrackRestart
    <3>3. \A p \in Proc : age_start'[p] <= ticks
      BY <2>1, MaxTicksAssumption DEF AgeTypes
    <3>4. QED
      BY <3>1, <3>2, <3>3 DEF ScanBest, RunnableNext
  <2>3. ASSUME NEW d \in CPU \ {c}
        PROVE  ScanBest(d)'
    <3>1. Visited(d)' = Visited(d)
      BY <2>1, <1>t, TopFacts DEF Visited
    <3>2. QED
      BY <2>1, <3>1, <1>t, <1>a, TopFacts, BestKept DEF TrackRestart
  <2>4. QED
    BY <2>2, <2>3
<1>2. ASSUME NEW c \in CPU, ScanKeep(c) \/ ScanDrop(c)
      PROVE  \A d \in CPU : ScanBest(d)'
  <2>1. ScanBest(c)'
    BY <1>2, <1>a, BestVisited
  <2>2. ASSUME NEW d \in CPU \ {c}
        PROVE  ScanBest(d)'
    <3>1. /\ step'[d] = step[d] /\ idx'[d] = idx[d] /\ best_pri'[d] = best_pri[d]
          /\ scanStart' = scanStart /\ Track
      BY <1>2, <1>t DEF ScanKeep, ScanDrop, NextScan
    <3>2. Visited(d)' = Visited(d)
      BY <3>1 DEF Visited
    <3>3. QED
      BY <3>1, <3>2, <1>t, <1>a, BestKept DEF Track
  <2>3. QED
    BY <2>1, <2>2
<1>3. ASSUME NEW c \in CPU, ScanAcquire(c) \/ AdaptiveDispatch(c)
      PROVE  \A d \in CPU : ScanBest(d)'
  <2>1. UNCHANGED <<idx, best_pri, scanStart>> /\ Track
    BY <1>3 DEF ScanAcquire, AdaptiveDispatch
  <2>2. \A d \in CPU : Visited(d)' \subseteq Visited(d)
    BY <1>3, <1>t DEF ScanAcquire, AdaptiveDispatch, Visited
  <2>3. QED
    BY <2>1, <2>2, <1>t, <1>a, BestKept DEF Track
<1>4. ASSUME UNCHANGED scanVars, Track
      PROVE  \A d \in CPU : ScanBest(d)'
  <2>1. \A d \in CPU : Visited(d)' \subseteq Visited(d)
    BY <1>4 DEF scanVars, Visited
  <2>2. QED
    BY <1>4, <2>1, <1>t, <1>a, BestKept DEF Track, scanVars
<1>5. QED
  BY <1>1, <1>2, <1>3, <1>4
     DEF AdaptiveNext, AdaptiveYield, ClockIntr, OtherWakeStart, AdaptiveExit,
         AdaptiveOther, AdaptiveWakeHit, AdaptiveAlloc, AdaptiveFork, AdaptiveKill,
         StartAging, Credit

-----------------------------------------------------------------------------
(* The candidate                                                           *)

\* While d scans, nobody else changes the state of a slot that it has locked.
LEMMA RunnableKept ==
    ASSUME AdaptiveInv, AdaptiveNext, NEW d \in CPU, NEW p \in Proc,
           lock[p] = d, state[p] = "RUNNABLE", pc[d] = "loop", pc'[d] = "loop"
    PROVE  state'[p] = "RUNNABLE"
<1>k. /\ state \in [Proc -> States] /\ pc \in [CPU -> Pcs] /\ lock[p] # None
  BY NoneAssumption DEF AdaptiveInv, IInv, CoreTypeOK
<1>1. ASSUME NEW c \in CPU,
             \/ ScanAcquire(c) \/ ScanKeep(c) \/ ScanDrop(c) \/ LeaveIdle(c)
             \/ AdaptiveReturn(c) \/ ClockIntr(c) \/ OtherWakeStart(c)
      PROVE  state' = state
  BY <1>1 DEF ScanAcquire, SchedAcquire, ScanKeep, SchedRelease, ScanDrop, LeaveIdle, AdaptiveReturn,
              Return, ClockIntr, OtherWakeStart, WakeStart, coreVars
<1>2. ASSUME NEW c \in CPU, AdaptiveDispatch(c)
      PROVE  state'[p] = "RUNNABLE"
  BY <1>2, <1>k DEF AdaptiveDispatch, Dispatch
<1>3. ASSUME NEW c \in CPU, AdaptiveYield(c) \/ AdaptiveExit(c) \/ AdaptiveOther(c)
      PROVE  state'[p] = "RUNNABLE"
  BY <1>3, <1>k DEF AdaptiveYield, AdaptiveExit, AdaptiveOther, Yield, Sleep, Exit, GiveUp,
                    Resume, Reap, WakeMiss
<1>4. ASSUME NEW c \in CPU, NEW q \in Proc,
             \/ AdaptiveWakeHit(c, q) \/ AdaptiveAlloc(c, q)
             \/ AdaptiveFork(c, q) \/ AdaptiveKill(c, q)
      PROVE  state'[p] = "RUNNABLE"
  BY <1>4, <1>k DEF AdaptiveWakeHit, AdaptiveAlloc, AdaptiveFork, AdaptiveKill,
                    WakeHit, Alloc, MakeRunnable, Kill
<1>5. QED
  BY <1>1, <1>2, <1>3, <1>4 DEF AdaptiveNext

LEMMA ChosenKept ==
    ASSUME AdaptiveInv, AdaptiveNext, NEW d \in CPU, pc'[d] = "loop" => pc[d] = "loop",
           chosen'[d] = chosen[d], best_pri'[d] = best_pri[d]
    PROVE  ChosenUrgent(d)'
<1> SUFFICES ASSUME pc'[d] = "loop", chosen[d] # None
             PROVE  /\ state'[chosen[d]] = "RUNNABLE"
                    /\ InRange(chosen[d])' => EffAt(chosen[d], ticks)' <= best_pri[d]
  BY DEF ChosenUrgent, EffAt, InRange
<1> DEFINE p == chosen[d]
           v == ticks - age_start[p]
           w == ticks' - age_start[p]
<1>1. p \in Proc /\ best_pri[d] \in Int
  BY PriorityAssumption DEF AdaptiveInv, ScanTypes
<1>2. /\ state[p] = "RUNNABLE" /\ lock[p] = d
      /\ InRange(p) => EffAt(p, ticks) <= best_pri[d]
  BY <1>1 DEF AdaptiveInv, ChosenUrgent, ScanLocks, Holds
<1>3. state'[p] = "RUNNABLE"
  BY <1>1, <1>2, RunnableKept
<1>4. AgeTypes /\ AgeTypes' /\ ticks <= ticks' /\ ticks' \in Nat /\ age_start'[p] = age_start[p]
  BY <1>1, <1>2, AgeStep, MaxTicksAssumption DEF AdaptiveInv, AgeTypes
<1>5. v \in Nat /\ w \in Nat /\ v <= w
  BY <1>1, <1>4 DEF AgeTypes
<1>6. EffAt(p, ticks) = CurrPri(v) /\ EffAt(p, ticks)' = CurrPri(w)
  BY <1>4 DEF EffAt
<1>7. chosen'[d] = chosen[d] /\ InRange(p)' = Fits(w)
  BY <1>4 DEF InRange, Fits
<1>8. Fits(w) => InRange(p)
  BY <1>1, <1>4, <1>7, InRangeBefore
<1> HIDE DEF p, v, w
<1>9. ASSUME Fits(w)
      PROVE  CurrPri(w) <= CurrPri(v) /\ CurrPri(w) \in Int /\ CurrPri(v) \in Int
  BY <1>5, <1>9, AgingExact, CurrPriInt, PriorityAssumption
<1>10. Fits(w) => CurrPri(w) <= best_pri[d]
  BY <1>1, <1>2, <1>6, <1>8, <1>9
<1>11. QED
  BY <1>3, <1>6, <1>7, <1>10 DEF p

LEMMA ChosenStep ==
    ASSUME AdaptiveInv, AdaptiveNext
    PROVE  \A c \in CPU : ChosenUrgent(c)'
<1>t. /\ chosen \in [CPU -> Proc \cup {None}] /\ pc \in [CPU -> Pcs] /\ ScanTypes
      /\ best_pri \in [CPU -> PRIORITY_MIN..PRIORITY_MAX + 1]
  BY DEF AdaptiveInv, ScanTypes, IInv, CoreTypeOK
<1>1. ASSUME NEW c \in CPU, LeaveIdle(c) \/ AdaptiveReturn(c)
      PROVE  \A d \in CPU : ChosenUrgent(d)'
  <2>1. Top(c) /\ \A d \in CPU \ {c} : pc'[d] = pc[d]
    BY <1>1, <1>t DEF LeaveIdle, AdaptiveReturn, Return, coreVars
  <2>2. ChosenUrgent(c)'
    BY <2>1, <1>t, TopFacts DEF ChosenUrgent
  <2>3. \A d \in CPU \ {c} : ChosenUrgent(d)'
    BY <2>1, <1>t, TopFacts, ChosenKept
  <2>4. QED
    BY <2>2, <2>3
<1>2. ASSUME NEW c \in CPU, ScanKeep(c)
      PROVE  \A d \in CPU : ChosenUrgent(d)'
  <2>1. /\ state' = state /\ pc' = pc /\ UNCHANGED ageVars /\ state[idx[c]] = "RUNNABLE"
        /\ chosen' = [chosen EXCEPT ![c] = idx[c]]
        /\ best_pri' = [best_pri EXCEPT ![c] = EffAt(idx[c], ticks)]
    BY <1>2 DEF ScanKeep, Better, Slot, SchedRelease, coreVars
  <2>2. EffAt(idx[c], ticks) \in Int
    BY <1>t, EffIsInt DEF AdaptiveInv, ScanTypes, Proc
  <2>3. ChosenUrgent(c)'
    BY <2>1, <2>2, <1>t DEF ChosenUrgent, EffAt, ageVars, InRange
  <2>4. \A d \in CPU \ {c} : ChosenUrgent(d)'
    BY <2>1, <1>t, ChosenKept
  <2>5. QED
    BY <2>3, <2>4
<1>3. ASSUME NEW c \in CPU, ScanAcquire(c) \/ ScanDrop(c) \/ AdaptiveDispatch(c)
      PROVE  \A d \in CPU : ChosenUrgent(d)'
  <2>1. chosen' = chosen /\ best_pri' = best_pri /\ \A d \in CPU : pc'[d] = "loop" => pc[d] = "loop"
    BY <1>3, <1>t DEF ScanAcquire, SchedAcquire, ScanDrop, SchedRelease, AdaptiveDispatch, Dispatch
  <2>2. QED
    BY <2>1, ChosenKept
<1>4. ASSUME NEW c \in CPU,
             \/ AdaptiveYield(c) \/ ClockIntr(c) \/ OtherWakeStart(c)
             \/ AdaptiveExit(c) \/ AdaptiveOther(c)
             \/ \E q \in Proc : \/ AdaptiveWakeHit(c, q) \/ AdaptiveAlloc(c, q)
                                \/ AdaptiveFork(c, q) \/ AdaptiveKill(c, q)
      PROVE  \A d \in CPU : ChosenUrgent(d)'
  <2>1. UNCHANGED scanVars
    BY <1>4 DEF AdaptiveYield, ClockIntr, OtherWakeStart, AdaptiveExit, AdaptiveOther,
                AdaptiveWakeHit, AdaptiveAlloc, AdaptiveFork, AdaptiveKill, StartAging, Credit
  <2>2. \A d \in CPU : pc'[d] = "loop" => pc[d] = "loop"
    BY <1>4, <1>t DEF AdaptiveYield, ClockIntr, OtherWakeStart, AdaptiveExit, AdaptiveOther,
                AdaptiveWakeHit, AdaptiveAlloc, AdaptiveFork, AdaptiveKill, Yield, Sleep, Exit, GiveUp, WakeStart,
                Resume, MakeRunnable, Kill, Reap, WakeMiss, WakeHit, Alloc
  <2>3. QED
    BY <2>1, <2>2, ChosenKept DEF scanVars
<1>5. QED
  BY <1>1, <1>2, <1>3, <1>4 DEF AdaptiveNext

-----------------------------------------------------------------------------
(* The invariant and what follows from it                                  *)

LEMMA InitAdaptiveInv == AdaptiveInit => AdaptiveInv
<1> SUFFICES ASSUME AdaptiveInit
             PROVE  AdaptiveInv
  OBVIOUS
<1> USE NPROCAssumption, NoneAssumption, PriorityAssumption, MaxTicksAssumption
<1>1. IInv
  BY InitIInv DEF AdaptiveInit
<1>2. AgeTypes /\ WaitMeasured
  <2>1. AgeTypes
    <3>1. /\ ticks \in 0..MaxTicks
          /\ age_start \in [Proc -> 0..ticks] /\ ready \in [Proc -> 0..ticks]
      BY DEF AdaptiveInit
    <3>2. trap \in BOOLEAN
      BY Zenon DEF AdaptiveInit
    <3>3. credit \in [Proc -> Credits]
      BY DEF AdaptiveInit, Credits
    <3>4. QED
      BY <3>1, <3>2, <3>3 DEF AgeTypes
  <2>2. WaitMeasured
    BY DEF AdaptiveInit, WaitMeasured
  <2>3. QED
    BY <2>1, <2>2
<1>3. ScanTypes
  BY DEF AdaptiveInit, ScanTypes, Steps, Proc, InitProc
<1>4. ASSUME NEW c \in CPU
      PROVE  ScanShape(c) /\ ScanLocks(c) /\ ScanBest(c) /\ ChosenUrgent(c)
  <2>1. ScanShape(c) /\ ScanLocks(c) /\ ChosenUrgent(c)
    BY DEF AdaptiveInit, CoreInit, ScanShape, ScanLocks, Holds, ChosenUrgent, Proc
  <2>2. Visited(c) = {}
    BY DEF AdaptiveInit, Visited, Proc
  <2>3. \A p \in waiting[c] : state[p] = "RUNNABLE" /\ age_start[p] <= scanStart[c]
    BY DEF AdaptiveInit, CoreInit, Proc, InitProc
  <2>4. QED
    BY <2>1, <2>2, <2>3 DEF ScanBest
<1>5. QED
  BY <1>1, <1>2, <1>3, <1>4 DEF AdaptiveInv

LEMMA AdaptiveInvStep == AdaptiveInv /\ [AdaptiveNext]_adaptiveVars => AdaptiveInv'
<1> SUFFICES ASSUME AdaptiveInv, [AdaptiveNext]_adaptiveVars
             PROVE  AdaptiveInv'
  OBVIOUS
<1>1. IInv'
  BY AdaptiveStepIsCoreStep, StepIInv DEF AdaptiveInv
<1>2. CASE AdaptiveNext
  <2>1. AgeTypes' /\ WaitMeasured' /\ ticks <= ticks'
    BY <1>2, AgeStep
  <2>2. ScanTypes' /\ \A c \in CPU : ScanShape(c)'
    BY <1>2, <2>1, ScanStep
  <2>3. QED
    BY <1>1, <1>2, <2>1, <2>2, LockStep, BestStep, ChosenStep DEF AdaptiveInv
<1>3. CASE UNCHANGED adaptiveVars
  BY <1>1, <1>3
     DEF AdaptiveInv, adaptiveVars, coreVars, scanVars, ageVars, AgeTypes, ScanTypes,
         ScanShape, ScanLocks, Holds, ScanBest, Visited, ChosenUrgent, EffAt, InRange, WaitMeasured
<1>4. QED
  BY <1>2, <1>3

\* The invariant that the theorems below rest on.
THEOREM AdaptiveInvariant == AdaptiveSpec => []AdaptiveInv
BY InitAdaptiveInv, AdaptiveInvStep, PTL DEF AdaptiveSpec

\* The scan, the clock and age_start keep their ranges.
THEOREM AdaptiveTypeCorrect == AdaptiveSpec => []AdaptiveTypeOK
<1>1. AdaptiveInv => AdaptiveTypeOK
  BY DEF AdaptiveInv, IInv, AgeTypes, ScanTypes, AdaptiveTypeOK
<1>2. QED
  BY <1>1, AdaptiveInvariant, PTL

\* scheduler() of adaptive/proc.c, which keeps a candidate's lock across the
\* scan, is one of the policies that ProcCore allows.
THEOREM AdaptiveImplementsCore == AdaptiveSpec => CoreSpec
<1>1. AdaptiveInit => CoreInit
  BY DEF AdaptiveInit
<1>2. QED
  BY <1>1, AdaptiveInvariant, AdaptiveStepIsCoreStep, PTL DEF AdaptiveSpec, CoreSpec

\* sched() finds its caller holding p->lock and nothing else.
THEOREM AdaptiveSchedLocks == AdaptiveSpec => []SchedLocks
<1>1. AdaptiveInv => SchedLocks
  <2> SUFFICES ASSUME AdaptiveInv, NEW c \in CPU, pc[c] \in {"resume", "switch"}
               PROVE  Held(c) = {cproc[c]}
    BY DEF SchedLocks
  <2>1. cproc[c] \in Proc
    BY DEF AdaptiveInv, IInv, CoreTypeOK, Handoff, StateMatchesPc
  <2>2. \A p \in Proc : lock[p] = c <=> p = cproc[c]
    BY DEF AdaptiveInv, ScanLocks, Holds
  <2>3. QED
    BY <2>1, <2>2 DEF Held
<1>2. QED
  BY <1>1, AdaptiveInvariant, PTL

\* A CPU that spins on a lock whose holder spins as well wants the lower
\* slot.  So CPUs that wait for each other in a circle, however many, do not
\* exist: scheduler() takes the locks in the order of the slots, and wakeup()
\* holds none.
LEMMA WaitsAscend ==
    ASSUME AdaptiveInv, NEW c \in CPU, NEW d \in CPU, WaitsFor(c, d), Wants(d) # None
    PROVE  /\ Wants(c) \in Proc /\ Wants(d) \in Proc
           /\ Wants(c) < Wants(d)
<1> USE DEF AdaptiveInv
<1>1. \A e \in CPU : /\ wslot[e] \in 0..NPROC /\ idx[e] \in 1..NPROC
                     /\ ScanShape(e) /\ ScanLocks(e)
  BY DEF IInv, CoreTypeOK, ScanTypes
<1>2. Wants(c) \in Proc /\ lock[Wants(c)] = d
  BY <1>1 DEF WaitsFor, Wants, Slot, Proc
<1>3. wslot[d] = 0 /\ Holds(d, Wants(c))
  BY <1>1, <1>2 DEF ScanLocks
<1>4. pc[d] = "loop" /\ step[d] = "scan" /\ Wants(d) = idx[d]
  BY <1>3 DEF Wants, InLoop, Slot
<1>5. chosen[d] = Wants(c)
  BY <1>3, <1>4 DEF Holds
<1>6. QED
  BY <1>1, <1>2, <1>4, <1>5, NoneAssumption DEF ScanShape, Proc

THEOREM LocksAscend ==
    AdaptiveSpec =>
        [](\A c, d \in CPU : WaitsFor(c, d) /\ Wants(d) # None => Wants(c) < Wants(d))
<1>1. AdaptiveInv =>
          \A c, d \in CPU : WaitsFor(c, d) /\ Wants(d) # None => Wants(c) < Wants(d)
  BY WaitsAscend
<1>2. QED
  BY <1>1, AdaptiveInvariant, PTL

\* Two CPUs never hold what the other spins on.
THEOREM AdaptiveNoLockCycle == AdaptiveSpec => []NoLockCycle
<1>1. AdaptiveInv => NoLockCycle
  <2> SUFFICES ASSUME AdaptiveInv, NEW c \in CPU, NEW d \in CPU, WaitsFor(c, d), WaitsFor(d, c)
               PROVE  FALSE
    BY DEF NoLockCycle
  <2>1. Wants(c) # None /\ Wants(d) # None
    BY DEF WaitsFor
  <2>2. /\ Wants(c) \in Proc /\ Wants(d) \in Proc
        /\ Wants(c) < Wants(d) /\ Wants(d) < Wants(c)
    BY <2>1, WaitsAscend
  <2>3. QED
    BY <2>2 DEF Proc
<1>2. QED
  BY <1>1, AdaptiveInvariant, PTL

\* The process that scheduler() runs is the most urgent of those that waited
\* during the whole scan and have boosts that fit an int, however ticks and
\* the slots behind it changed.
THEOREM AdaptiveMostUrgent == AdaptiveSpec => []MostUrgentChosen
<1>1. AdaptiveInv => MostUrgentChosen
  BY DEF AdaptiveInv, ScanTypes, ScanBest, Visited, MostUrgentChosen
<1>2. QED
  BY <1>1, AdaptiveInvariant, PTL

\* Of two waits, the second of which fits, the one with the priority that is
\* not the higher is not the shorter, unless it is as urgent as can be.
LEMMA UrgentWaitsLonger ==
    ASSUME NEW v \in Nat, NEW w \in Nat, Fits(w), CurrPri(v) <= CurrPri(w),
           v * AGING_RATE < PRIORITY_DEFAULT - PRIORITY_MIN
    PROVE  w <= v
<1> SUFFICES ASSUME v < w
             PROVE  FALSE
  OBVIOUS
<1>1. v * AGING_RATE \in Nat /\ w * AGING_RATE \in Nat /\ (w - v) * AGING_RATE \in Nat
  BY TimesMonotone, PriorityAssumption
<1>2. (w - v) * AGING_RATE >= AGING_RATE
  BY TimesMonotone, PriorityAssumption
<1>3. w * AGING_RATE = v * AGING_RATE + (w - v) * AGING_RATE
  BY PriorityAssumption
<1>4. w * AGING_RATE > v * AGING_RATE
  BY <1>1, <1>2, <1>3, PriorityAssumption
<1>5. Fits(v) /\ v <= w
  BY FitsDown
<1>6. CurrPri(v) = PRIORITY_DEFAULT - v * AGING_RATE
  BY <1>1, <1>5, AgingExact, PriorityAssumption
<1>7. CurrPri(w) < CurrPri(v)
  BY <1>1, <1>4, <1>6, AgingExact, PriorityAssumption
<1>8. QED
  BY <1>1, <1>6, <1>7, CurrPriInt, PriorityAssumption

\* Nobody in range who was RUNNABLE during the whole scan has been RUNNABLE
\* longer than the process that scheduler() runs, unless that one is as urgent
\* as aging can make it or was credited by kkill() or kfork().
THEOREM AdaptiveOldestFirst == AdaptiveSpec => []OldestFirst
<1>1. AdaptiveInv => OldestFirst
  <2> SUFFICES ASSUME AdaptiveInv, NEW c \in CPU, step[c] = "run",
                      credit[chosen[c]] = "nobody", NEW q \in waiting[c], InRange(q),
                      ~((ticks - ready[chosen[c]]) * AGING_RATE
                            >= PRIORITY_DEFAULT - PRIORITY_MIN)
               PROVE  scanStart[c] - ready[q] <= ticks - ready[chosen[c]]
    BY DEF OldestFirst
  <2> DEFINE v == ticks - age_start[chosen[c]]
             w == scanStart[c] - age_start[q]
             x == ticks - age_start[q]
  <2>1. /\ chosen[c] \in Proc /\ chosen[c] # None /\ q \in Proc /\ pc[c] = "loop"
        /\ best_pri[c] \in Int
    BY PriorityAssumption DEF AdaptiveInv, ScanTypes, ScanShape
  <2>2. /\ age_start[q] <= scanStart[c] /\ scanStart[c] \in 0..ticks
        /\ state[q] = "RUNNABLE" /\ state[chosen[c]] = "RUNNABLE"
    BY <2>1 DEF AdaptiveInv, ScanTypes, ScanBest, ChosenUrgent
  <2>3. age_start[chosen[c]] = ready[chosen[c]] /\ age_start[q] <= ready[q]
    BY <2>1, <2>2 DEF AdaptiveInv, WaitMeasured
  <2>4. v \in Nat /\ w \in Nat /\ x \in Nat /\ w <= x
    BY <2>1, <2>2, MaxTicksAssumption DEF AdaptiveInv, AgeTypes
  <2>5. best_pri[c] <= CurrPri(w)
    BY <2>1 DEF AdaptiveInv, ScanBest, Visited, EffAt
  <2>6. InRange(chosen[c]) => CurrPri(v) <= best_pri[c]
    BY <2>1 DEF AdaptiveInv, ChosenUrgent, EffAt
  <2>7. Fits(x) /\ InRange(chosen[c]) = Fits(v)
    BY DEF InRange
  <2>8. ~(v * AGING_RATE >= PRIORITY_DEFAULT - PRIORITY_MIN)
    BY <2>3
  <2> HIDE DEF v, w, x
  <2>9. v * AGING_RATE \in Nat /\ v * AGING_RATE < PRIORITY_DEFAULT - PRIORITY_MIN
    BY <2>4, <2>8, TimesMonotone, PriorityAssumption
  <2>10. Fits(v) /\ Fits(w)
    BY <2>4, <2>7, <2>9, FitsDown, PriorityAssumption DEF Fits
  <2>11. CurrPri(v) <= CurrPri(w)
    BY <2>1, <2>4, <2>5, <2>6, <2>7, <2>10, CurrPriInt, PriorityAssumption
  <2>12. w <= v
    BY <2>4, <2>9, <2>10, <2>11, UrgentWaitsLonger
  <2>13. ready[q] \in Nat /\ age_start[q] \in Nat /\ scanStart[c] \in Nat
    BY <2>1, <2>2, MaxTicksAssumption DEF AdaptiveInv, AgeTypes
  <2>14. scanStart[c] - ready[q] <= w
    BY <2>3, <2>13 DEF w
  <2>15. QED
    BY <2>3, <2>4, <2>12, <2>13, <2>14 DEF v
<1>2. QED
  BY <1>1, AdaptiveInvariant, PTL

\* wfi only when nothing whose boost fits an int was RUNNABLE during the whole
\* scan: up to there an effective priority stays below the sentinel.
THEOREM AdaptiveIdleJustified == AdaptiveSpec => []IdleJustified
<1>1. AdaptiveInv => IdleJustified
  <2> SUFFICES ASSUME AdaptiveInv, NEW c \in CPU, step[c] = "idle", NEW p \in waiting[c],
                      InRange(p)
               PROVE  FALSE
    BY DEF IdleJustified
  <2>1. p \in Proc /\ scanStart[c] \in 0..ticks /\ age_start[p] <= scanStart[c]
    BY DEF AdaptiveInv, ScanTypes, ScanBest
  <2>2. best_pri[c] = PRIORITY_MAX + 1
    BY DEF AdaptiveInv, ScanShape
  <2>3. best_pri[c] <= EffAt(p, scanStart[c])
    BY <2>1 DEF AdaptiveInv, ScanBest, Visited
  <2>4. EffAt(p, scanStart[c]) \in PRIORITY_MIN..PRIORITY_DEFAULT
    BY <2>1, EffFalls, MaxTicksAssumption DEF AdaptiveInv, AgeTypes
  <2>5. QED
    BY <2>2, <2>3, <2>4, PriorityAssumption
<1>2. QED
  BY <1>1, AdaptiveInvariant, PTL

\* ticks - age_start is the time a process has been RUNNABLE, and more only
\* for one that kkill() or kfork() has made RUNNABLE and that has not run since.
THEOREM AdaptiveWaits == AdaptiveSpec => []WaitMeasured
BY AdaptiveInvariant, PTL DEF AdaptiveInv

\* The hand-over invariant of ProcCore under this policy.
THEOREM AdaptiveHandoff == AdaptiveSpec => []Handoff
BY AdaptiveInvariant, PTL DEF AdaptiveInv, IInv

\* Priority scheduling with aging keeps the promise of every scheduler, with
\* the candidate's lock held across the scan and dropped for a better one.
THEOREM AdaptiveImplementsAbs == AdaptiveSpec => AbsSpec
BY AdaptiveImplementsCore, CoreImplementsAbs, PTL
=============================================================================
