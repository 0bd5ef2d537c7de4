-------------------------- MODULE StealSchedProofs --------------------------
(***************************************************************************)
(* StealSched for every set of CPUs, every NPROC and every MAX_TASKS: it   *)
(* implements ProcCore, and no RUNNABLE process gets out of reach unless a *)
(* push found a queue full.                                                *)
(***************************************************************************)
EXTENDS StealSched, ProcCoreProofs, SequenceTheorems

\* The queues hold slots of proc[] only and are never full to the last entry.
QueueInv ==
    /\ queue \in [AllCpus -> Seq(Proc)]
    /\ \A c \in AllCpus : Len(queue[c]) < MAX_TASKS
    /\ dropped \subseteq Proc

\* What scheduler() knows of its own variables.
CursorInv ==
    /\ step \in [CPU -> Steps]
    /\ victim \in [CPU -> AllCpus]
    /\ temp \in [CPU -> Proc \cup {None}]
    /\ count \in [CPU -> 0..MAX_TASKS]
    /\ attempts \in [CPU -> 0..Attempts]
    /\ \A c \in CPU : step[c] \in {"got", "check"} => temp[c] \in Proc
    /\ \A c \in CPU : step[c] = "pick" => attempts[c] < Attempts

LoopInv == QueueInv /\ CursorInv

\* IInv is the invariant of ProcCore.
StealInv == IInv /\ LoopInv /\ RunnableReachable

-----------------------------------------------------------------------------
(* What the three operations do to the entries of a queue                  *)

LEMMA PushEntries ==
    ASSUME NEW s \in Seq(Proc), NEW p \in Proc
    PROVE  /\ Append(s, p) \in Seq(Proc)
           /\ Len(Append(s, p)) = Len(s) + 1
           /\ Contains(Append(s, p), p)
           /\ \A q : Contains(s, q) => Contains(Append(s, p), q)
BY DEF Contains

LEMMA PopBackEntries ==
    ASSUME NEW s \in Seq(Proc), s # <<>>
    PROVE  /\ Last(s) \in Proc
           /\ Front(s) \in Seq(Proc)
           /\ Len(Front(s)) = Len(s) - 1
           /\ \A q : Contains(s, q) => Contains(Front(s), q) \/ q = Last(s)
<1>1. Len(s) \in Nat \ {0}
  OBVIOUS
<1>2. Last(s) \in Proc
  BY <1>1 DEF Last
<1> DEFINE n == Len(s) - 1
<1>s. 1 \in Int /\ n \in Int /\ \A i \in 1..n : s[i] \in Proc
  BY <1>1
<1>f. /\ SubSeq(s, 1, n) \in Seq(Proc)
      /\ Len(SubSeq(s, 1, n)) = IF 1 <= n THEN n - 1 + 1 ELSE 0
      /\ \A i \in 1..n - 1 + 1 : SubSeq(s, 1, n)[i] = s[1 + i - 1]
  <2> HIDE DEF n
  <2>1. QED
    BY <1>s, SubSeqProperties
<1>e. Front(s) = SubSeq(s, 1, n)
  BY DEF Front
<1>m. n \in Nat
  BY <1>1
<1>n. /\ (IF 1 <= n THEN n - 1 + 1 ELSE 0) = n
      /\ n - 1 + 1 = n
      /\ \A i \in 1..n : 1 + i - 1 = i
  <2> HIDE DEF n
  <2>1. QED
    BY <1>m
<1> HIDE DEF n
<1>3. Front(s) \in Seq(Proc) /\ Len(Front(s)) = n
  BY <1>f, <1>e, <1>n, Zenon
<1>4. \A i \in 1..n : Front(s)[i] = s[i]
  BY <1>f, <1>e, <1>n, Zenon
<1>5. ASSUME NEW q, Contains(s, q), q # Last(s)
      PROVE  Contains(Front(s), q)
  BY <1>1, <1>3, <1>4, <1>5 DEF Contains, Last, n
<1>6. QED
  BY <1>2, <1>3, <1>5 DEF n

LEMMA PopFrontEntries ==
    ASSUME NEW s \in Seq(Proc), s # <<>>
    PROVE  /\ Head(s) \in Proc
           /\ Tail(s) \in Seq(Proc)
           /\ Len(Tail(s)) = Len(s) - 1
           /\ \A q : Contains(s, q) => Contains(Tail(s), q) \/ q = Head(s)
<1>1. Len(s) \in Nat \ {0} /\ Head(s) = s[1]
  OBVIOUS
<1>2. Head(s) \in Proc /\ Tail(s) \in Seq(Proc) /\ Len(Tail(s)) = Len(s) - 1
  BY <1>1
<1>3. \A i \in 1..Len(s) - 1 : Tail(s)[i] = s[i + 1]
  BY <1>1
<1>4. ASSUME NEW q, Contains(s, q), q # Head(s)
      PROVE  Contains(Tail(s), q)
  <2>1. PICK i \in 1..Len(s) : s[i] = q
    BY <1>4 DEF Contains
  <2>2. i - 1 \in 1..Len(s) - 1 /\ Tail(s)[i - 1] = q
    BY <1>1, <1>3, <1>4, <2>1
  <2>3. QED
    BY <1>2, <2>2 DEF Contains
<1>5. QED
  BY <1>2, <1>4

\* A push leaves the process in a queue or in dropped, takes none out, and
\* keeps the ring below its limit.
LEMMA PushKeeps ==
    ASSUME LoopInv, NEW c \in CPU, NEW p \in Proc, push_back(c, p)
    PROVE  /\ queue' \in [AllCpus -> Seq(Proc)]
           /\ \A d \in AllCpus : Len(queue'[d]) < MAX_TASKS
           /\ dropped' \subseteq Proc
           /\ Queued(p)' \/ p \in dropped'
           /\ \A q : Queued(q) \/ q \in dropped => Queued(q)' \/ q \in dropped'
<1>c. c \in AllCpus /\ queue[c] \in Seq(Proc) /\ Len(queue[c]) < MAX_TASKS
  BY DEF LoopInv, QueueInv, CursorInv, AllCpus
<1>1. CASE Full(c)
  BY <1>1 DEF push_back, LoopInv, QueueInv, CursorInv, Queued
<1>2. CASE ~Full(c)
  <2>1. /\ queue' = [queue EXCEPT ![c] = Append(queue[c], p)]
        /\ dropped' = dropped \ {p}
    BY <1>2 DEF push_back
  <2>2. \A d \in AllCpus :
           queue'[d] = IF d = c THEN Append(queue[c], p) ELSE queue[d]
    BY <2>1 DEF LoopInv, QueueInv, CursorInv
  <2>3. queue' \in [AllCpus -> Seq(Proc)]
    BY <1>c, <2>1, PushEntries DEF LoopInv, QueueInv, CursorInv
  <2>4. Len(Append(queue[c], p)) < MAX_TASKS
    <3>1. Len(queue[c]) \in Nat /\ Len(queue[c]) # MAX_TASKS - 1
      BY <1>c, <1>2 DEF Full
    <3>2. QED
      BY <1>c, <3>1, PushEntries, MaxTasksAssumption
  <2>5. \A d \in AllCpus : Len(queue'[d]) < MAX_TASKS
    BY <2>2, <2>4 DEF LoopInv, QueueInv, CursorInv
  <2>6. Queued(p)'
    BY <1>c, <2>2, PushEntries DEF Queued
  <2>7. ASSUME NEW q, Queued(q)
        PROVE  Queued(q)'
    BY <1>c, <2>2, <2>7, PushEntries DEF Queued
  <2>8. QED
    BY <2>1, <2>3, <2>5, <2>6, <2>7 DEF LoopInv, QueueInv, CursorInv
<1>3. QED
  BY <1>1, <1>2

\* A pop takes at most the process it returns out of the queues.
LEMMA PopKeeps ==
    ASSUME LoopInv, NEW c \in CPU, Pop(c)
    PROVE  /\ queue' \in [AllCpus -> Seq(Proc)]
           /\ \A d \in AllCpus : Len(queue'[d]) < MAX_TASKS
           /\ \E p \in Proc : /\ temp' = [temp EXCEPT ![c] = p]
                             /\ \A q : Queued(q) => Queued(q)' \/ q = p
<1> DEFINE v == victim[c]
<1>v. v \in AllCpus /\ queue[v] \in Seq(Proc) /\ queue[v] # <<>> /\ Len(queue[v]) < MAX_TASKS
  BY DEF Pop, LoopInv, QueueInv, CursorInv
<1>1. ASSUME NEW s \in Seq(Proc), NEW p \in Proc,
             Len(s) = Len(queue[v]) - 1,
             \A q : Contains(queue[v], q) => Contains(s, q) \/ q = p,
             queue' = [queue EXCEPT ![v] = s], temp' = [temp EXCEPT ![c] = p]
      PROVE  /\ queue' \in [AllCpus -> Seq(Proc)]
             /\ \A d \in AllCpus : Len(queue'[d]) < MAX_TASKS
             /\ \A q : Queued(q) => Queued(q)' \/ q = p
  <2>1. \A d \in AllCpus : queue'[d] = IF d = v THEN s ELSE queue[d]
    BY <1>1 DEF LoopInv, QueueInv, CursorInv
  <2>2. Len(s) < MAX_TASKS
    <3>1. Len(queue[v]) \in Nat
      BY <1>v
    <3>2. QED
      BY <1>1, <1>v, <3>1, MaxTasksAssumption
  <2>3. queue' \in [AllCpus -> Seq(Proc)]
    BY <1>1, <1>v DEF LoopInv, QueueInv, CursorInv
  <2>4. \A d \in AllCpus : Len(queue'[d]) < MAX_TASKS
    BY <2>1, <2>2 DEF LoopInv, QueueInv, CursorInv
  <2>5. \A q : Queued(q) => Queued(q)' \/ q = p
    BY <1>1, <1>v, <2>1 DEF Queued
  <2>6. QED
    BY <2>3, <2>4, <2>5
<1>2. CASE v = c
  <2>1. /\ queue' = [queue EXCEPT ![v] = Front(queue[v])]
        /\ temp' = [temp EXCEPT ![c] = Last(queue[v])]
    BY <1>2 DEF Pop, pop_back
  <2>2. QED
    BY <1>1, <1>v, <2>1, PopBackEntries
<1>3. CASE v # c
  <2>1. /\ queue' = [queue EXCEPT ![v] = Tail(queue[v])]
        /\ temp' = [temp EXCEPT ![c] = Head(queue[v])]
    BY <1>3 DEF Pop, pop_front
  <2>2. QED
    BY <1>1, <1>v, <2>1, PopFrontEntries
<1>4. QED
  BY <1>2, <1>3

-----------------------------------------------------------------------------
(* Every step is one of ProcCore                                           *)

LEMMA StealStepIsCoreStep ==
    LoopInv /\ [StealNext]_stealVars => [CoreNext]_coreVars
<1> SUFFICES ASSUME LoopInv, [StealNext]_stealVars
             PROVE  [CoreNext]_coreVars
  OBVIOUS
<1>1. CASE UNCHANGED stealVars
  BY <1>1 DEF stealVars, coreVars
<1>2. ASSUME NEW c \in CPU, StealLoop(c)
      PROVE  [CoreNext]_coreVars
  <2>1. CASE Pop(c) \/ PopNothing(c) \/ SelectVictim(c) \/ LeaveIdle(c)
    BY <2>1 DEF Pop, PopNothing, SelectVictim, LeaveIdle
  <2>2. CASE StealAcquire(c)
    <3>1. temp[c] \in Proc /\ SchedAcquire(c, temp[c])
      BY <2>2 DEF StealAcquire, LoopInv, QueueInv, CursorInv
    <3>2. QED
      BY <3>1 DEF CoreNext
  <2>3. CASE StealSkip(c)
    <3>1. temp[c] \in Proc /\ SchedRelease(c, temp[c])
      BY <2>3 DEF StealSkip, LoopInv, QueueInv, CursorInv
    <3>2. QED
      BY <3>1 DEF CoreNext
  <2>4. CASE StealDispatch(c)
    <3>1. temp[c] \in Proc /\ Dispatch(c, temp[c])
      BY <2>4 DEF StealDispatch, LoopInv, QueueInv, CursorInv
    <3>2. QED
      BY <3>1 DEF CoreNext
  <2>5. QED
    BY <1>2, <2>1, <2>2, <2>3, <2>4 DEF StealLoop
<1>3. ASSUME NEW c \in CPU, StealReturn(c) \/ StealYield(c)
      PROVE  [CoreNext]_coreVars
  BY <1>3 DEF StealReturn, StealYield, CoreNext
<1>4. ASSUME NEW c \in CPU, StealOther(c)
      PROVE  [CoreNext]_coreVars
  BY <1>4 DEF StealOther, CoreNext
<1>5. ASSUME NEW c \in CPU, NEW q \in Proc,
             StealMakeRunnable(c, q) \/ StealKill(c, q) \/ StealWakeHit(c, q)
      PROVE  [CoreNext]_coreVars
  BY <1>5 DEF StealMakeRunnable, StealKill, StealWakeHit, CoreNext
<1>6. QED
  BY <1>1, <1>2, <1>3, <1>4, <1>5 DEF StealNext

-----------------------------------------------------------------------------
(* The invariant                                                           *)

LEMMA InitStealInv == StealInit => StealInv
<1> SUFFICES ASSUME StealInit
             PROVE  StealInv
  OBVIOUS
<1>1. IInv
  BY InitIInv DEF StealInit
<1>2. InitProc \in Proc
  BY NPROCAssumption DEF Proc, InitProc
<1>3. PICK boot \in CPU :
         queue = [c \in AllCpus |-> IF c = boot THEN <<InitProc>> ELSE <<>>]
  BY DEF StealInit
<1>4. QueueInv
  <2>1. <<InitProc>> \in Seq(Proc) /\ Len(<<InitProc>>) = 1
    BY <1>2
  <2>2. <<>> \in Seq(Proc) /\ Len(<<>>) = 0
    OBVIOUS
  <2>3. dropped = {}
    BY DEF StealInit
  <2>4. QED
    BY <1>3, <2>1, <2>2, <2>3, MaxTasksAssumption DEF QueueInv
<1>5. CursorInv
  BY MaxTasksAssumption, AttemptsAssumption
     DEF StealInit, CursorInv, Steps, AllCpus
<1>6. RunnableReachable
  <2>1. boot \in AllCpus /\ queue[boot] = <<InitProc>>
    BY <1>3 DEF AllCpus
  <2>2. Queued(InitProc)
    BY <2>1 DEF Queued, Contains
  <2>3. \A p \in Proc : state[p] = "RUNNABLE" => p = InitProc
    BY DEF StealInit, CoreInit
  <2>4. QED
    BY <2>2, <2>3 DEF RunnableReachable
<1>7. QED
  BY <1>1, <1>4, <1>5, <1>6 DEF StealInv, LoopInv

\* The process on a CPU is a slot of proc[].
LEMMA OnCpuIsProc ==
    ASSUME IInv, NEW c \in CPU, pc[c] \in {"proc", "switch"}
    PROVE  cproc[c] \in Proc
BY DEF IInv, CoreTypeOK, Handoff, StateMatchesPc

LEMMA RestartKeeps ==
    ASSUME CursorInv, NEW c \in CPU, NEW s \in {"pop", "back", "idle"}, Restart(c, s)
    PROVE  CursorInv'
BY AttemptsAssumption, MaxTasksAssumption
   DEF CursorInv, Restart, Steps, AllCpus

\* A process in the hands of a CPU stays there if that CPU keeps it.
LEMMA HandKeeps ==
    ASSUME NEW c \in CPU, NEW p,
           \A d \in CPU \ {c} : temp'[d] = temp[d] /\ step'[d] = step[d],
           \/ step[c] \notin {"got", "check"}
           \/ temp[c] # p
           \/ temp'[c] = temp[c] /\ step'[c] \in {"got", "check"},
           InHand(p)
    PROVE  InHand(p)'
BY DEF InHand

\* A push by a process or an interrupt.
LEMMA PushStep ==
    ASSUME LoopInv, RunnableReachable, NEW c \in CPU, NEW p \in Proc,
           push_back(c, p), UNCHANGED loopVars,
           \A q \in Proc : q # p /\ state'[q] = "RUNNABLE" => state[q] = "RUNNABLE"
    PROVE  LoopInv' /\ RunnableReachable'
<1>1. QueueInv'
  BY PushKeeps DEF QueueInv
<1>2. CursorInv'
  BY DEF LoopInv, CursorInv, loopVars
<1>3. RunnableReachable'
  <2> SUFFICES ASSUME NEW q \in Proc, state'[q] = "RUNNABLE"
               PROVE  Queued(q)' \/ InHand(q)' \/ q \in dropped'
    BY DEF RunnableReachable
  <2>1. CASE q = p
    BY <2>1, PushKeeps
  <2>2. CASE q # p
    <3>1. Queued(q) \/ InHand(q) \/ q \in dropped
      BY <2>2 DEF RunnableReachable
    <3>2. InHand(q) => InHand(q)'
      BY DEF InHand, loopVars
    <3>3. QED
      BY <3>1, <3>2, PushKeeps
  <2>3. QED
    BY <2>1, <2>2
<1>4. QED
  BY <1>1, <1>2, <1>3 DEF LoopInv

LEMMA PopStep ==
    ASSUME LoopInv, RunnableReachable, NEW c \in CPU, Pop(c)
    PROVE  LoopInv' /\ RunnableReachable'
<1>1. PICK p \in Proc : /\ temp' = [temp EXCEPT ![c] = p]
                        /\ \A q : Queued(q) => Queued(q)' \/ q = p
  BY PopKeeps
<1>2. QueueInv'
  BY PopKeeps DEF Pop, LoopInv, QueueInv
<1>3. CursorInv'
  <2>1. count[c] + 1 \in 0..MAX_TASKS
    BY MaxTasksAssumption DEF Pop, LoopInv, CursorInv
  <2>2. QED
    BY <1>1, <2>1 DEF Pop, LoopInv, CursorInv, Steps
<1>4. RunnableReachable'
  <2>1. temp'[c] = p /\ step'[c] = "got"
    BY <1>1 DEF Pop, LoopInv, CursorInv
  <2>2. \A d \in CPU \ {c} : temp'[d] = temp[d] /\ step'[d] = step[d]
    BY <1>1 DEF Pop, LoopInv, CursorInv
  <2>3. InHand(p)'
    BY <2>1 DEF InHand
  <2>4. \A q : InHand(q) => InHand(q)'
    BY <2>2, HandKeeps DEF Pop
  <2>5. UNCHANGED <<state, dropped>>
    BY DEF Pop, coreVars
  <2>6. QED
    BY <1>1, <2>3, <2>4, <2>5 DEF RunnableReachable
<1>5. QED
  BY <1>2, <1>3, <1>4 DEF LoopInv

\* A step that makes no process RUNNABLE and leaves the queues alone.
LEMMA QuietStep ==
    ASSUME LoopInv, RunnableReachable, CursorInv', UNCHANGED <<queue, dropped>>,
           \A p \in Proc : state'[p] = "RUNNABLE" =>
               state[p] = "RUNNABLE" /\ (InHand(p) => InHand(p)')
    PROVE  LoopInv' /\ RunnableReachable'
BY DEF LoopInv, QueueInv, RunnableReachable, Queued

\* The steps of scheduler() up to swtch(): the popped process stays in hand
\* until it is seen to be stale or is run.
LEMMA LoopStep ==
    ASSUME LoopInv, RunnableReachable, NEW c \in CPU, StealLoop(c), IInv
    PROVE  LoopInv' /\ RunnableReachable'
<1> USE DEF LoopInv
<1>1. CASE PopNothing(c)
  <2>1. CursorInv'
    BY <1>1, RestartKeeps DEF PopNothing, CursorInv, Steps
  <2>2. \A p \in Proc : InHand(p) => InHand(p)'
    BY <1>1, HandKeeps DEF PopNothing, Restart, CursorInv
  <2>3. QED
    BY <1>1, <2>1, <2>2, QuietStep DEF PopNothing, coreVars
<1>2. CASE SelectVictim(c)
  <2>1. CursorInv'
    <3>1. PICK v \in AllCpus : victim' = [victim EXCEPT ![c] = v]
      BY <1>2 DEF SelectVictim
    <3>2. attempts[c] + 1 \in 0..Attempts
      BY <1>2, AttemptsAssumption DEF SelectVictim, CursorInv
    <3>3. QED
      BY <1>2, <3>1, <3>2, MaxTasksAssumption DEF SelectVictim, CursorInv, Steps
  <2>2. \A p \in Proc : InHand(p) => InHand(p)'
    BY <1>2, HandKeeps DEF SelectVictim, CursorInv
  <2>3. QED
    BY <1>2, <2>1, <2>2, QuietStep DEF SelectVictim, coreVars
<1>3. CASE LeaveIdle(c)
  <2>1. CursorInv'
    BY <1>3, RestartKeeps DEF LeaveIdle
  <2>2. \A p \in Proc : InHand(p) => InHand(p)'
    BY <1>3, HandKeeps DEF LeaveIdle, Restart, CursorInv
  <2>3. QED
    BY <1>3, <2>1, <2>2, QuietStep DEF LeaveIdle, coreVars
<1>4. CASE StealAcquire(c)
  <2>1. CursorInv'
    BY <1>4 DEF StealAcquire, CursorInv, Steps
  <2>2. \A p \in Proc : InHand(p) => InHand(p)'
    BY <1>4, HandKeeps DEF StealAcquire, CursorInv
  <2>3. QED
    BY <1>4, <2>1, <2>2, QuietStep DEF StealAcquire, SchedAcquire
<1>5. CASE StealSkip(c)
  <2>1. CursorInv'
    BY <1>5 DEF StealSkip, CursorInv, Steps
  <2>2. \A p \in Proc : state[p] = "RUNNABLE" => p # temp[c]
    BY <1>5 DEF StealSkip
  <2>3. \A p \in Proc : state[p] = "RUNNABLE" /\ InHand(p) => InHand(p)'
    BY <1>5, <2>2, HandKeeps DEF StealSkip, CursorInv
  <2>4. QED
    BY <1>5, <2>1, <2>3, QuietStep DEF StealSkip, SchedRelease
<1>6. CASE StealDispatch(c)
  <2>1. CursorInv'
    BY <1>6, RestartKeeps DEF StealDispatch
  <2>2. state' = [state EXCEPT ![temp[c]] = "RUNNING"] /\ temp[c] \in Proc
    BY <1>6 DEF StealDispatch, Dispatch, CursorInv
  <2>3. \A p \in Proc : state'[p] = "RUNNABLE" => state[p] = "RUNNABLE" /\ p # temp[c]
    BY <2>2 DEF IInv, CoreTypeOK
  <2>4. \A p \in Proc : p # temp[c] /\ InHand(p) => InHand(p)'
    BY <1>6, HandKeeps DEF StealDispatch, Restart, CursorInv
  <2>5. QED
    BY <1>6, <2>1, <2>3, <2>4, QuietStep DEF StealDispatch
<1>7. QED
  BY <1>1, <1>2, <1>3, <1>4, <1>5, <1>6, PopStep DEF StealLoop

\* Back from swtch(): nothing is in hand, and a preempted process is pushed.
LEMMA ReturnStep ==
    ASSUME LoopInv, RunnableReachable, NEW c \in CPU, StealReturn(c), IInv
    PROVE  LoopInv' /\ RunnableReachable'
<1> USE DEF LoopInv
<1>1. CursorInv'
  BY RestartKeeps DEF StealReturn
<1>2. UNCHANGED state /\ \A p \in Proc : InHand(p) => InHand(p)'
  BY HandKeeps DEF StealReturn, Return, Restart, CursorInv
<1>3. CASE state[cproc[c]] = "RUNNABLE"
  <2>1. cproc[c] \in Proc /\ push_back(c, cproc[c])
    BY <1>3, OnCpuIsProc DEF StealReturn, Return
  <2>2. QED
    BY <1>1, <1>2, <2>1, PushKeeps DEF QueueInv, RunnableReachable
<1>4. CASE state[cproc[c]] # "RUNNABLE"
  BY <1>1, <1>2, <1>4, QuietStep DEF StealReturn
<1>5. QED
  BY <1>3, <1>4

LEMMA OtherStep ==
    ASSUME LoopInv, RunnableReachable, NEW c \in CPU, StealOther(c), IInv
    PROVE  LoopInv' /\ RunnableReachable'
<1>1. UNCHANGED <<loopVars, queue, dropped>>
  BY DEF StealOther
<1>2. CursorInv' /\ \A p \in Proc : InHand(p) => InHand(p)'
  BY <1>1 DEF loopVars, LoopInv, CursorInv, InHand
<1>3. \A p \in Proc : state'[p] = "RUNNABLE" => state[p] = "RUNNABLE"
  BY DEF StealOther, Resume, Sleep, Exit, GiveUp, WakeStart, Alloc, Reap, WakeMiss,
         IInv, CoreTypeOK
<1>4. QED
  BY <1>1, <1>2, <1>3, QuietStep

LEMMA StealInvStep == StealInv /\ [StealNext]_stealVars => StealInv'
<1> SUFFICES ASSUME StealInv, [StealNext]_stealVars
             PROVE  StealInv'
  OBVIOUS
<1> USE DEF StealInv
<1>1. IInv'
  BY StealStepIsCoreStep, StepIInv
<1>2. CASE UNCHANGED stealVars
  BY <1>1, <1>2 DEF stealVars, loopVars, coreVars, LoopInv, QueueInv, CursorInv,
                    RunnableReachable, Queued, InHand
<1>3. ASSUME NEW c \in CPU, StealYield(c)
      PROVE  StealInv'
  <2>1. cproc[c] \in Proc
    BY <1>3, OnCpuIsProc DEF StealYield, Yield, GiveUp, InProc
  <2>2. \A q \in Proc : q # cproc[c] => state'[q] = state[q]
    BY <1>3 DEF StealYield, Yield, GiveUp, IInv, CoreTypeOK
  <2>3. QED
    BY <1>1, <1>3, <2>1, <2>2, PushStep DEF StealYield
<1>4. ASSUME NEW c \in CPU, NEW p \in Proc,
             StealMakeRunnable(c, p) \/ StealKill(c, p) \/ StealWakeHit(c, p)
      PROVE  StealInv'
  <2>1. \A q \in Proc : q # p => state'[q] = state[q]
    BY <1>4 DEF StealMakeRunnable, StealKill, StealWakeHit, MakeRunnable, Kill,
                WakeHit, IInv, CoreTypeOK
  <2>2. QED
    BY <1>1, <1>4, <2>1, PushStep DEF StealMakeRunnable, StealKill, StealWakeHit
<1>5. QED
  BY <1>1, <1>2, <1>3, <1>4, LoopStep, ReturnStep, OtherStep DEF StealNext

THEOREM StealInvariant == StealSafetySpec => []StealInv
BY InitStealInv, StealInvStep, PTL DEF StealSafetySpec

-----------------------------------------------------------------------------
(* Theorems                                                                *)

\* Types of the queues, the loop of scheduler() and the table; a ring never
\* holds MAX_TASKS entries.
THEOREM StealTypeCorrect == StealSafetySpec => []StealTypeOK
<1>1. StealInv => StealTypeOK
  BY DEF StealInv, IInv, LoopInv, QueueInv, CursorInv, StealTypeOK, ToSet
<1>2. QED
  BY <1>1, StealInvariant, PTL

\* A process that yield(), wakeup(), kkill() or kfork() made RUNNABLE is in a
\* queue, in the hands of a scheduler(), or its push was lost to a full ring.
THEOREM StealReachable == StealSafetySpec => []RunnableReachable
<1>1. StealInv => RunnableReachable
  BY DEF StealInv
<1>2. QED
  BY <1>1, StealInvariant, PTL

\* Popping and stealing stale, duplicate entries is an instance of the
\* hand-over protocol.
THEOREM StealImplementsCore == StealSafetySpec => CoreSpec
<1>1. StealInit => CoreInit
  BY DEF StealInit
<1>2. StealInv /\ [StealNext]_stealVars => [CoreNext]_coreVars
  BY StealStepIsCoreStep DEF StealInv
<1>3. QED
  BY <1>1, <1>2, StealInvariant, PTL DEF StealSafetySpec, CoreSpec

\* So two harts never run one process, however often it is queued.
THEOREM StealHandoff == StealSafetySpec => []Handoff
BY StealImplementsCore, HandoffCorrect, PTL

\* Work stealing keeps the promise of every scheduler: a process is dispatched
\* only when it is RUNNABLE and off every stack, by one hart, however it came
\* out of whichever queue.
THEOREM StealImplementsAbs == StealSafetySpec => AbsSpec
BY StealImplementsCore, CoreImplementsAbs, PTL

-----------------------------------------------------------------------------
(* The ring buffer behind a queue is a bounded sequence, for every         *)
(* MAX_TASKS, wherever front stands and whatever the unused slots hold.    *)

\* Wrapping around once.
LEMMA ModWrap ==
    ASSUME NEW x \in 0..2 * MAX_TASKS - 1
    PROVE  x % MAX_TASKS = IF x < MAX_TASKS THEN x ELSE x - MAX_TASKS
<1>1. MAX_TASKS \in Nat /\ MAX_TASKS > 1
  BY MaxTasksAssumption
<1>2. QED
  BY <1>1

LEMMA UpDown ==
    ASSUME NEW i \in Slots
    PROVE  /\ Up(i) = IF i = MAX_TASKS - 1 THEN 0 ELSE i + 1
           /\ Down(i) = IF i = 0 THEN MAX_TASKS - 1 ELSE i - 1
<1>1. i + 1 \in 0..2 * MAX_TASKS - 1 /\ i - 1 + MAX_TASKS \in 0..2 * MAX_TASKS - 1
  BY MaxTasksAssumption DEF Slots
<1>2. QED
  BY <1>1, ModWrap, MaxTasksAssumption DEF Slots, Up, Down

LEMMA SizeWrap ==
    ASSUME NEW f \in Slots, NEW b \in Slots
    PROVE  /\ (b - f + MAX_TASKS) % MAX_TASKS = IF f <= b THEN b - f ELSE b - f + MAX_TASKS
           /\ (b - f + MAX_TASKS) % MAX_TASKS \in Slots
<1>1. b - f + MAX_TASKS \in 0..2 * MAX_TASKS - 1
  BY MaxTasksAssumption DEF Slots
<1>2. (b - f + MAX_TASKS) % MAX_TASKS = IF f <= b THEN b - f ELSE b - f + MAX_TASKS
  BY <1>1, ModWrap, MaxTasksAssumption DEF Slots
<1>3. QED
  BY <1>2, MaxTasksAssumption DEF Slots

\* The slot of the i-th entry of a ring that starts at f.
Place(f, i) == IF f + i - 1 < MAX_TASKS THEN f + i - 1 ELSE f + i - 1 - MAX_TASKS

LEMMA PlaceMod ==
    ASSUME NEW f \in Slots, NEW i \in 1..MAX_TASKS
    PROVE  (f + i - 1) % MAX_TASKS = Place(f, i) /\ Place(f, i) \in Slots
<1>1. f + i - 1 \in 0..2 * MAX_TASKS - 1
  BY MaxTasksAssumption DEF Slots
<1>2. Place(f, i) \in Slots
  BY MaxTasksAssumption DEF Slots, Place
<1>3. (f + i - 1) % MAX_TASKS = Place(f, i)
  <2> DEFINE x == f + i - 1
  <2>1. Place(f, i) = IF x < MAX_TASKS THEN x ELSE x - MAX_TASKS
    BY MaxTasksAssumption DEF Slots, Place
  <2> HIDE DEF x
  <2>2. x % MAX_TASKS = IF x < MAX_TASKS THEN x ELSE x - MAX_TASKS
    BY <1>1, ModWrap DEF x
  <2>3. x % MAX_TASKS = Place(f, i)
    BY <2>1, <2>2, Zenon
  <2>4. QED
    BY <2>3 DEF x
<1>4. QED
  BY <1>2, <1>3

\* One slot further than the last entry is rear.
LEMMA NextIsRear ==
    ASSUME NEW f \in Slots, NEW b \in Slots, NEW n \in Nat,
           n = IF f <= b THEN b - f ELSE b - f + MAX_TASKS,
           NEW i \in 1..n + 1
    PROVE  Place(f, i) \in Slots /\ (Place(f, i) = b <=> i = n + 1)
BY MaxTasksAssumption DEF Slots, Place

\* The length and the entries, without the remainder.
LEMMA RingParts ==
    ASSUME NEW S, NEW r \in Rings(S)
    PROVE  /\ Size(r) = IF r.front <= r.rear THEN r.rear - r.front
                        ELSE r.rear - r.front + MAX_TASKS
           /\ Size(r) \in 0..MAX_TASKS - 1
           /\ Contents(r) \in Seq(S)
           /\ Len(Contents(r)) = Size(r)
           /\ \A i \in 1..Size(r) : Contents(r)[i] = r.slot[Place(r.front, i)]
<1>1. r.front \in Slots /\ r.rear \in Slots /\ r.slot \in [Slots -> S]
  BY DEF Rings
<1>2. /\ Size(r) = IF r.front <= r.rear THEN r.rear - r.front
                   ELSE r.rear - r.front + MAX_TASKS
      /\ Size(r) \in 0..MAX_TASKS - 1
  BY <1>1, SizeWrap DEF Size, Slots
<1>3. ASSUME NEW i \in 1..Size(r)
      PROVE  /\ (r.front + i - 1) % MAX_TASKS = Place(r.front, i)
             /\ Place(r.front, i) \in Slots
  <2>1. i \in 1..MAX_TASKS
    BY <1>2, MaxTasksAssumption
  <2>2. QED
    BY <1>1, <2>1, PlaceMod
<1>4. \A i \in 1..Size(r) : r.slot[Place(r.front, i)] \in S
  BY <1>1, <1>3
<1>5. Contents(r) = [i \in 1..Size(r) |-> r.slot[Place(r.front, i)]]
  BY <1>3 DEF Contents
<1>6. Contents(r) \in Seq(S)
  BY <1>2, <1>4, <1>5, IsASeq
<1>7. Len(Contents(r)) = Size(r)
  BY <1>2, <1>5, <1>6, LenProperties
<1>8. \A i \in 1..Size(r) : Contents(r)[i] = r.slot[Place(r.front, i)]
  BY <1>5
<1>9. QED
  BY <1>2, <1>6, <1>7, <1>8

-----------------------------------------------------------------------------
\* front = rear means empty, and the test of push_back means MAX_TASKS - 1
\* entries: the two never look the same.
THEOREM RingEnds ==
    ASSUME NEW S, NEW r \in Rings(S)
    PROVE  /\ RingEmpty(r) <=> Contents(r) = <<>>
           /\ RingFull(r) <=> Len(Contents(r)) = MAX_TASKS - 1
<1>1. r.front \in Slots /\ r.rear \in Slots
  BY DEF Rings
<1>2. Up(r.rear) = IF r.rear = MAX_TASKS - 1 THEN 0 ELSE r.rear + 1
  BY <1>1, UpDown
<1>3. Contents(r) = <<>> <=> Size(r) = 0
  BY RingParts, EmptySeq
<1>4. /\ Size(r) = IF r.front <= r.rear THEN r.rear - r.front
                   ELSE r.rear - r.front + MAX_TASKS
      /\ Len(Contents(r)) = Size(r)
  BY RingParts
<1>5. QED
  BY <1>1, <1>2, <1>3, <1>4, MaxTasksAssumption DEF RingEmpty, RingFull, Slots

\* push_back appends, except to a full ring.
THEOREM RingPushes ==
    ASSUME NEW S, NEW r \in Rings(S), NEW p \in S
    PROVE  /\ RingPush(r, p) \in Rings(S)
           /\ Contents(RingPush(r, p)) = IF Len(Contents(r)) = MAX_TASKS - 1 THEN Contents(r)
                                         ELSE Append(Contents(r), p)
<1>1. CASE RingFull(r)
  BY <1>1, RingEnds DEF RingPush
<1>2. CASE ~RingFull(r)
  <2> DEFINE t == RingPush(r, p)
             n == Size(r)
  <2>1. /\ r.front \in Slots /\ r.rear \in Slots /\ r.slot \in [Slots -> S]
        /\ Up(r.rear) = IF r.rear = MAX_TASKS - 1 THEN 0 ELSE r.rear + 1
    BY UpDown DEF Rings
  <2>2. Up(r.rear) \in Slots /\ Up(r.rear) # r.front
    BY <1>2, <2>1, MaxTasksAssumption DEF RingFull, Slots
  <2>3. /\ t \in Rings(S) /\ t.front = r.front /\ t.rear = Up(r.rear)
        /\ t.slot = [r.slot EXCEPT ![r.rear] = p]
    BY <1>2, <2>1, <2>2 DEF RingPush, Rings
  <2> HIDE DEF t
  <2>4. /\ n = IF r.front <= r.rear THEN r.rear - r.front ELSE r.rear - r.front + MAX_TASKS
        /\ n \in 0..MAX_TASKS - 1 /\ Size(t) = n + 1
    <3>1. n = IF r.front <= r.rear THEN r.rear - r.front ELSE r.rear - r.front + MAX_TASKS
      BY RingParts
    <3>2. Size(t) = IF r.front <= Up(r.rear) THEN Up(r.rear) - r.front
                    ELSE Up(r.rear) - r.front + MAX_TASKS
      BY <2>3, RingParts
    <3>3. n \in 0..MAX_TASKS - 1
      BY RingParts
    <3> HIDE DEF n
    <3>4. QED
      BY <2>1, <2>2, <3>1, <3>2, <3>3, MaxTasksAssumption DEF Slots
  <2> HIDE DEF n
  <2>5. ASSUME NEW i \in 1..n + 1
        PROVE  Contents(t)[i] = Append(Contents(r), p)[i]
    <3> DEFINE j == Place(r.front, i)
    <3>a. n \in Nat /\ Len(Contents(r)) = n /\ Contents(r) \in Seq(S)
      BY <2>4, RingParts DEF n
    <3>b. j \in Slots /\ (j = r.rear <=> i = n + 1)
      BY <2>1, <2>4, <3>a, NextIsRear
    <3>c. Contents(t)[i] = t.slot[j]
      <4>1. i \in 1..Size(t)
        BY <2>4
      <4>2. Contents(t)[i] = t.slot[Place(t.front, i)]
        BY <2>3, <4>1, RingParts
      <4>3. QED
        BY <2>3, <4>2
    <3> HIDE DEF j
    <3>2. CASE i = n + 1
      <4>1. j = r.rear
        BY <3>b, <3>2
      <4>2. Append(Contents(r), p)[i] = p
        BY <3>a, <3>2, AppendProperties
      <4>3. QED
        BY <2>1, <2>3, <3>c, <4>1, <4>2
    <3>3. CASE i \in 1..n
      <4>1. j # r.rear /\ j \in Slots
        BY <3>a, <3>b, <3>3
      <4>2. Append(Contents(r), p)[i] = Contents(r)[i]
        BY <3>a, <3>3, AppendProperties
      <4>3. Contents(r)[i] = r.slot[j]
        BY <3>3, RingParts DEF n, j
      <4>4. QED
        BY <2>1, <2>3, <3>c, <4>1, <4>2, <4>3
    <3>4. i = n + 1 \/ i \in 1..n
      BY <3>a
    <3>5. QED
      BY <3>2, <3>3, <3>4
  <2>6. /\ Contents(t) \in Seq(S) /\ Append(Contents(r), p) \in Seq(S)
        /\ Len(Contents(t)) = n + 1 /\ Len(Append(Contents(r), p)) = n + 1
    BY <2>3, <2>4, RingParts, AppendProperties DEF n
  <2>7. Contents(t) = Append(Contents(r), p)
    BY <2>5, <2>6, SeqEqual
  <2>8. Len(Contents(r)) # MAX_TASKS - 1
    BY <1>2, RingEnds
  <2>9. QED
    BY <2>3, <2>7, <2>8 DEF t
<1>3. QED
  BY <1>1, <1>2

\* pop_front takes the head.
THEOREM RingPopsFront ==
    ASSUME NEW S, NEW r \in Rings(S), ~RingEmpty(r)
    PROVE  /\ DropFront(r) \in Rings(S)
           /\ FrontEntry(r) = Head(Contents(r))
           /\ Contents(DropFront(r)) = Tail(Contents(r))
<1> DEFINE t == DropFront(r)
           n == Size(r)
<1>1. /\ r.front \in Slots /\ r.rear \in Slots /\ r.slot \in [Slots -> S]
      /\ Up(r.front) = IF r.front = MAX_TASKS - 1 THEN 0 ELSE r.front + 1
  BY UpDown DEF Rings
<1>2. /\ t \in Rings(S) /\ t.front = Up(r.front) /\ t.rear = r.rear /\ t.slot = r.slot
  <2>1. Up(r.front) \in Slots
    BY <1>1, MaxTasksAssumption DEF Slots
  <2>2. QED
    BY <1>1, <2>1 DEF DropFront, Rings
<1> HIDE DEF t
<1>3. /\ n = IF r.front <= r.rear THEN r.rear - r.front ELSE r.rear - r.front + MAX_TASKS
      /\ n \in 1..MAX_TASKS - 1 /\ Size(t) = n - 1
  BY <1>1, <1>2, RingParts, MaxTasksAssumption DEF Slots, RingEmpty
<1>4. /\ Contents(r) \in Seq(S) /\ Len(Contents(r)) = n /\ Contents(r) # <<>>
      /\ Contents(t) \in Seq(S) /\ Len(Contents(t)) = n - 1
  BY <1>2, <1>3, RingParts, RingEnds
<1>5. /\ Head(Contents(r)) = Contents(r)[1]
      /\ Tail(Contents(r)) \in Seq(S) /\ Len(Tail(Contents(r))) = n - 1
      /\ \A i \in 1..n - 1 : Tail(Contents(r))[i] = Contents(r)[i + 1]
  BY <1>3, <1>4, HeadTailProperties
<1>6. Contents(r)[1] = r.slot[r.front]
  <2>1. Place(r.front, 1) = r.front
    BY <1>1, MaxTasksAssumption DEF Slots, Place
  <2>2. QED
    BY <1>3, <2>1, RingParts
<1>7. ASSUME NEW i \in 1..n - 1
      PROVE  Contents(t)[i] = Tail(Contents(r))[i]
  <2>1. Contents(r)[i + 1] = r.slot[Place(r.front, i + 1)]
    <3>1. i + 1 \in 1..n
      BY <1>3
    <3>2. QED
      BY <3>1, RingParts
  <2>2. Contents(t)[i] = t.slot[Place(t.front, i)]
    BY <1>2, <1>3, RingParts
  <2>3. Place(t.front, i) = Place(r.front, i + 1)
    BY <1>1, <1>2, <1>3, MaxTasksAssumption DEF Slots, Place
  <2>4. QED
    BY <1>2, <1>5, <2>1, <2>2, <2>3
<1>8. Contents(t) = Tail(Contents(r))
  BY <1>4, <1>5, <1>7, SeqEqual
<1>9. QED
  BY <1>2, <1>5, <1>6, <1>8 DEF t, FrontEntry

\* pop_back takes the last, also across the start of queue[].
THEOREM RingPopsBack ==
    ASSUME NEW S, NEW r \in Rings(S), ~RingEmpty(r)
    PROVE  /\ DropBack(r) \in Rings(S)
           /\ BackEntry(r) = Last(Contents(r))
           /\ Contents(DropBack(r)) = Front(Contents(r))
<1> DEFINE t == DropBack(r)
           n == Size(r)
<1>1. /\ r.front \in Slots /\ r.rear \in Slots /\ r.slot \in [Slots -> S]
      /\ Down(r.rear) = IF r.rear = 0 THEN MAX_TASKS - 1 ELSE r.rear - 1
  BY UpDown DEF Rings
<1>2. /\ t \in Rings(S) /\ t.front = r.front /\ t.rear = Down(r.rear) /\ t.slot = r.slot
  <2>1. Down(r.rear) \in Slots
    BY <1>1, MaxTasksAssumption DEF Slots
  <2>2. QED
    BY <1>1, <2>1 DEF DropBack, Rings
<1> HIDE DEF t
<1>3. /\ n = IF r.front <= r.rear THEN r.rear - r.front ELSE r.rear - r.front + MAX_TASKS
      /\ n \in 1..MAX_TASKS - 1 /\ Size(t) = n - 1
  BY <1>1, <1>2, RingParts, MaxTasksAssumption DEF Slots, RingEmpty
<1>4. /\ Contents(r) \in Seq(S) /\ Len(Contents(r)) = n
      /\ Contents(t) \in Seq(S) /\ Len(Contents(t)) = n - 1
  BY <1>2, <1>3, RingParts
<1>5. /\ Front(Contents(r)) \in Seq(S) /\ Len(Front(Contents(r))) = n - 1
      /\ \A i \in 1..n - 1 : Front(Contents(r))[i] = Contents(r)[i]
  BY <1>3, <1>4 DEF Front
<1>6. Contents(r)[n] = r.slot[Down(r.rear)]
  <2>1. Contents(r)[n] = r.slot[Place(r.front, n)]
    BY <1>3, RingParts
  <2>2. Place(r.front, n) = Down(r.rear)
    BY <1>1, <1>3, MaxTasksAssumption DEF Slots, Place
  <2>3. QED
    BY <2>1, <2>2
<1>7. ASSUME NEW i \in 1..n - 1
      PROVE  Contents(t)[i] = Front(Contents(r))[i]
  <2>1. i \in 1..n /\ i \in 1..Size(t)
    BY <1>3
  <2>2. Contents(r)[i] = r.slot[Place(r.front, i)]
    BY <2>1, RingParts
  <2>3. Contents(t)[i] = t.slot[Place(r.front, i)]
    BY <1>2, <2>1, RingParts
  <2>4. QED
    BY <1>2, <1>5, <2>2, <2>3
<1>8. Contents(t) = Front(Contents(r))
  BY <1>4, <1>5, <1>7, SeqEqual
<1>9. QED
  BY <1>2, <1>4, <1>6, <1>8 DEF t, BackEntry, Last
=============================================================================
