--------------------------- MODULE LptSchedProofs ---------------------------
(***************************************************************************)
(* LptSched for every set of CPUs, every NPROC and every RtimeBound.       *)
(* It implements ProcCore: whatever the batch holds, and however stale it  *)
(* is, scheduler() takes only the steps that the hand-over allows.  The    *)
(* batch overlooks no process that waits, and is sorted.                   *)
(***************************************************************************)
EXTENDS LptSched, ProcCoreProofs

\* What scheduler() knows of its own list: the entry it is at is in the list,
\* the two entries it compares are in the list, and each entry is a slot.
ListOf(c) ==
    /\ batch[c] \in Seq(Proc) /\ Len(batch[c]) <= NPROC
    /\ idx[c] \in 1..NPROC /\ jdx[c] \in 1..NPROC
    /\ step[c] \in {"collect", "est"} => Len(batch[c]) < idx[c]
    /\ step[c] = "sort" => idx[c] < jdx[c] /\ jdx[c] <= Len(batch[c])
    /\ step[c] \in {"run", "check", "back"} => idx[c] <= Len(batch[c])

ListInv ==
    /\ step \in [CPU -> Steps]
    /\ DOMAIN batch = CPU
    /\ idx \in [CPU -> Nat] /\ jdx \in [CPU -> Nat]
    /\ \A c \in CPU : ListOf(c)

\* The entry about to be run is a slot of proc[].
LEMMA EntryIsSlot ==
    ASSUME ListInv, NEW c \in CPU, step[c] \in {"run", "check", "back"}
    PROVE  Entry(c) \in Proc
BY NPROCAssumption DEF ListInv, ListOf, Entry

\* Reading, sorting and idling leave the process table alone; every other
\* step takes a lock, drops it, switches, or is the step of a process.
LEMMA LptStepIsCoreStep == ListInv /\ [LptNext]_lptVars => [CoreNext]_coreVars
<1> SUFFICES ASSUME ListInv, [LptNext]_lptVars
             PROVE  [CoreNext]_coreVars
  OBVIOUS
<1>1. CASE UNCHANGED lptVars
  BY <1>1 DEF lptVars, coreVars
<1>2. ASSUME NEW c \in CPU, LptLoop(c)
      PROVE  [CoreNext]_coreVars
  <2>1. CASE Collect(c) \/ CollectEst(c) \/ SortCompare(c) \/ LeaveIdle(c)
    BY <2>1 DEF Collect, CollectEst, SortCompare, LeaveIdle
  <2>2. CASE LptAcquire(c)
    <3>1. Entry(c) \in Proc /\ SchedAcquire(c, Entry(c))
      BY <2>2, EntryIsSlot DEF LptAcquire
    <3>2. QED
      BY <3>1 DEF CoreNext
  <2>3. CASE LptDispatch(c)
    <3>1. Entry(c) \in Proc /\ Dispatch(c, Entry(c))
      BY <2>3, EntryIsSlot DEF LptDispatch
    <3>2. QED
      BY <3>1 DEF CoreNext
  <2>4. CASE LptSkip(c)
    <3>1. Entry(c) \in Proc /\ SchedRelease(c, Entry(c))
      BY <2>4, EntryIsSlot DEF LptSkip
    <3>2. QED
      BY <3>1 DEF CoreNext
  <2>5. QED
    BY <1>2, <2>1, <2>2, <2>3, <2>4 DEF LptLoop
<1>3. ASSUME NEW c \in CPU, LptReturn(c) \/ LptYield(c)
      PROVE  [CoreNext]_coreVars
  BY <1>3 DEF LptReturn, LptYield, CoreNext
<1>4. ASSUME NEW c \in CPU, LptOther(c)
      PROVE  [CoreNext]_coreVars
  BY <1>4 DEF LptOther, CoreNext
<1>5. ASSUME NEW c \in CPU, NEW q \in Proc, LptAlloc(c, q)
      PROVE  [CoreNext]_coreVars
  BY <1>5 DEF LptAlloc, CoreNext
<1>6. QED
  BY <1>1, <1>2, <1>3, <1>4, <1>5 DEF LptNext

-----------------------------------------------------------------------------
(* The steps of scheduler() on its own list                                *)

\* A step of CPU c on its list leaves the lists of the other CPUs alone.
LEMMA OtherLists ==
    ASSUME ListInv, NEW c \in CPU, NEW s \in Steps, NEW i, NEW j, NEW b,
           step' = [step EXCEPT ![c] = s], idx' = [idx EXCEPT ![c] = i],
           jdx' = [jdx EXCEPT ![c] = j], batch' = [batch EXCEPT ![c] = b],
           ListOf(c)'
    PROVE  ListInv'
<1>1. ASSUME NEW d \in CPU, d # c
      PROVE  ListOf(d)'
  BY <1>1 DEF ListInv, ListOf
<1>2. i \in Nat /\ j \in Nat
  BY NPROCAssumption DEF ListInv, ListOf
<1>3. idx' \in [CPU -> Nat] /\ jdx' \in [CPU -> Nat]
  BY <1>2 DEF ListInv
<1>4. QED
  BY <1>1, <1>3 DEF ListInv

LEMMA AfterSlotKeepsList ==
    ASSUME ListInv, NEW c \in CPU, step[c] \in {"collect", "est"},
           NEW b \in Seq(Proc), Len(b) <= idx[c], AfterSlot(c, b)
    PROVE  ListInv'
<1> DEFINE s == CASE idx[c] < NPROC -> "collect"
                  [] idx[c] = NPROC /\ Len(b) = 0 -> "idle"
                  [] idx[c] = NPROC /\ Len(b) = 1 -> "run"
                  [] idx[c] = NPROC /\ Len(b) > 1 -> "sort"
           i == IF idx[c] < NPROC THEN idx[c] + 1 ELSE 1
           j == IF idx[c] = NPROC /\ Len(b) > 1 THEN 2 ELSE 1
<1>1. /\ step' = [step EXCEPT ![c] = s] /\ idx' = [idx EXCEPT ![c] = i]
      /\ jdx' = [jdx EXCEPT ![c] = j] /\ batch' = [batch EXCEPT ![c] = b]
  BY DEF AfterSlot, ListInv
<1>2. /\ step'[c] = s /\ idx'[c] = i /\ jdx'[c] = j /\ batch'[c] = b
  BY <1>1 DEF ListInv
<1>3. idx[c] \in Nat \ {0} /\ idx[c] <= NPROC /\ NPROC \in Nat \ {0} /\ Len(b) \in Nat
  BY NPROCAssumption DEF ListInv, ListOf
<1>4. s \in Steps /\ ListOf(c)'
  <2>1. CASE idx[c] < NPROC
    BY <1>2, <1>3, <2>1 DEF ListOf, Steps
  <2>2. CASE idx[c] = NPROC /\ Len(b) = 0
    BY <1>2, <1>3, <2>2 DEF ListOf, Steps
  <2>3. CASE idx[c] = NPROC /\ Len(b) = 1
    BY <1>2, <1>3, <2>3 DEF ListOf, Steps
  <2>4. CASE idx[c] = NPROC /\ Len(b) > 1
    BY <1>2, <1>3, <2>4 DEF ListOf, Steps
  <2> HIDE DEF s, i, j
  <2>5. \/ idx[c] < NPROC
        \/ idx[c] = NPROC /\ Len(b) = 0
        \/ idx[c] = NPROC /\ Len(b) = 1
        \/ idx[c] = NPROC /\ Len(b) > 1
    <3>1. \A x, y, n \in Nat :
            x <= y => x < y \/ (x = y /\ n = 0) \/ (x = y /\ n = 1) \/ (x = y /\ n > 1)
      OBVIOUS
    <3>2. idx[c] \in Nat /\ NPROC \in Nat /\ Len(b) \in Nat /\ idx[c] <= NPROC
      BY <1>3
    <3>3. QED
      BY <3>1, <3>2, Zenon
  <2>6. QED
    BY <2>1, <2>2, <2>3, <2>4, <2>5, Zenon
<1> HIDE DEF s, i, j
<1>5. QED
  BY <1>1, <1>4, OtherLists

LEMMA SortKeepsList ==
    ASSUME ListInv, NEW c \in CPU, SortCompare(c)
    PROVE  ListInv'
<1> DEFINE b == batch[c]
           t == IF Longer(b[jdx[c]], b[idx[c]]) THEN Swap(b, idx[c], jdx[c]) ELSE b
<1>1. /\ b \in Seq(Proc) /\ step[c] = "sort" /\ NPROC \in Nat
      /\ idx[c] \in Nat \ {0} /\ jdx[c] \in Nat /\ Len(b) \in Nat
      /\ idx[c] < jdx[c] /\ jdx[c] <= Len(b) /\ Len(b) <= NPROC
  BY NPROCAssumption DEF ListInv, ListOf, SortCompare
<1>2. t \in Seq(Proc) /\ Len(t) = Len(b)
  BY <1>1 DEF Swap
<1>3. batch' = [batch EXCEPT ![c] = t] /\ batch'[c] = t
  BY DEF SortCompare, ListInv
<1> HIDE DEF t
<1>4. CASE jdx[c] < Len(b) /\ jdx' = [jdx EXCEPT ![c] = jdx[c] + 1]
           /\ UNCHANGED <<idx, step>>
  <2>1. ListOf(c)'
    BY <1>1, <1>2, <1>3, <1>4 DEF ListOf, ListInv
  <2>2. \A d \in CPU : d # c => ListOf(d)'
    BY <1>3, <1>4 DEF ListOf, ListInv
  <2>3. QED
    BY <1>3, <1>4, <2>1, <2>2 DEF ListInv
<1>5. CASE /\ jdx[c] = Len(b) /\ idx[c] + 1 < Len(b)
           /\ idx' = [idx EXCEPT ![c] = idx[c] + 1]
           /\ jdx' = [jdx EXCEPT ![c] = idx[c] + 2]
           /\ UNCHANGED step
  <2>1. ListOf(c)'
    BY <1>1, <1>2, <1>3, <1>5 DEF ListOf, ListInv
  <2>2. \A d \in CPU : d # c => ListOf(d)'
    BY <1>3, <1>5 DEF ListOf, ListInv
  <2>3. QED
    BY <1>3, <1>5, <2>1, <2>2 DEF ListInv
<1>6. CASE /\ jdx[c] = Len(b) /\ idx[c] + 1 = Len(b)
           /\ step' = [step EXCEPT ![c] = "run"]
           /\ idx' = [idx EXCEPT ![c] = 1]
           /\ jdx' = [jdx EXCEPT ![c] = 1]
  <2>1. ListOf(c)'
    BY <1>1, <1>2, <1>3, <1>6 DEF ListOf, ListInv
  <2>2. QED
    BY <1>3, <1>6, <2>1, OtherLists DEF Steps
<1>7. QED
  BY <1>4, <1>5, <1>6 DEF SortCompare

\* A step that moves on to "check" or "back" stays at its entry.
LEMMA SameEntryKeepsList ==
    ASSUME ListInv, NEW c \in CPU, step[c] \in {"run", "check"},
           NEW s \in {"check", "back"}, step' = [step EXCEPT ![c] = s],
           UNCHANGED <<idx, jdx, batch>>
    PROVE  ListInv'
BY DEF ListInv, ListOf, Steps

LEMMA TopKeepsList ==
    ASSUME ListInv, NEW c \in CPU, Top(c)
    PROVE  ListInv'
<1>1. batch'[c] = <<>> /\ idx'[c] = 1 /\ step'[c] = "collect" /\ jdx' = jdx
  BY DEF Top, ListInv
<1>2. ListOf(c)'
  BY <1>1, NPROCAssumption DEF ListOf, ListInv
<1>3. \A d \in CPU : d # c => ListOf(d)'
  BY DEF Top, ListOf, ListInv
<1>4. QED
  BY <1>2, <1>3 DEF Top, ListInv, Steps

LEMMA NextEntryKeepsList ==
    ASSUME ListInv, NEW c \in CPU, step[c] \in {"check", "back"}, NextEntry(c)
    PROVE  ListInv'
<1>0. Len(batch[c]) \in Nat /\ NPROC \in Nat \ {0}
  BY NPROCAssumption DEF ListInv, ListOf
<1>1. CASE Top(c)
  BY <1>1, TopKeepsList
<1>2. CASE /\ idx[c] < Len(batch[c])
           /\ idx' = [idx EXCEPT ![c] = @ + 1]
           /\ step' = [step EXCEPT ![c] = "run"]
           /\ UNCHANGED <<jdx, batch>>
  BY <1>0, <1>2 DEF ListInv, ListOf, Steps
<1>3. CASE /\ step' = [step EXCEPT ![c] = "idle"]
           /\ idx' = [idx EXCEPT ![c] = 1]
           /\ batch' = [batch EXCEPT ![c] = <<>>]
           /\ UNCHANGED jdx
  BY <1>0, <1>3 DEF ListInv, ListOf, Steps
<1>4. QED
  BY <1>1, <1>2, <1>3 DEF NextEntry

LEMMA ListInvStep == ListInv /\ [LptNext]_lptVars => ListInv'
<1> SUFFICES ASSUME ListInv, [LptNext]_lptVars
             PROVE  ListInv'
  OBVIOUS
<1>1. CASE UNCHANGED schedVars
  BY <1>1 DEF schedVars, ListInv, ListOf
<1>2. ASSUME NEW c \in CPU, Collect(c)
      PROVE  ListInv'
  <2>1. CASE step' = [step EXCEPT ![c] = "est"] /\ UNCHANGED <<idx, jdx, batch>>
    BY <1>2, <2>1 DEF Collect, ListInv, ListOf, Steps
  <2>2. CASE AfterSlot(c, batch[c])
    <3>1. step[c] = "collect" /\ batch[c] \in Seq(Proc) /\ Len(batch[c]) <= idx[c]
      BY <1>2, NPROCAssumption DEF Collect, ListInv, ListOf
    <3>2. QED
      BY <2>2, <3>1, AfterSlotKeepsList
  <2>3. QED
    BY <1>2, <2>1, <2>2 DEF Collect
<1>3. ASSUME NEW c \in CPU, CollectEst(c)
      PROVE  ListInv'
  <2>1. /\ step[c] = "est" /\ batch[c] \in Seq(Proc) /\ idx[c] \in Proc
        /\ Len(batch[c]) < idx[c] /\ idx[c] \in Nat
    BY <1>3, NPROCAssumption DEF CollectEst, ListInv, ListOf, Proc
  <2>2. Append(batch[c], idx[c]) \in Seq(Proc) /\ Len(Append(batch[c], idx[c])) <= idx[c]
    BY <2>1
  <2>3. QED
    BY <1>3, <2>1, <2>2, AfterSlotKeepsList DEF CollectEst
<1>4. ASSUME NEW c \in CPU, LptLoop(c)
      PROVE  ListInv'
  <2>1. CASE LptAcquire(c) \/ LptDispatch(c)
    BY <2>1, SameEntryKeepsList DEF LptAcquire, LptDispatch
  <2>2. CASE LptSkip(c)
    BY <2>2, NextEntryKeepsList DEF LptSkip
  <2>3. CASE LeaveIdle(c)
    BY <2>3, TopKeepsList DEF LeaveIdle
  <2>4. QED
    BY <1>2, <1>3, <1>4, <2>1, <2>2, <2>3, SortKeepsList DEF LptLoop
<1>5. ASSUME NEW c \in CPU, LptReturn(c)
      PROVE  ListInv'
  BY <1>5, NextEntryKeepsList DEF LptReturn
<1>6. ASSUME NEW c \in CPU,
             LptYield(c) \/ LptOther(c) \/ \E q \in Proc : LptAlloc(c, q)
      PROVE  ListInv'
  BY <1>1, <1>6 DEF LptYield, LptOther, LptAlloc
<1>7. QED
  BY <1>1, <1>4, <1>5, <1>6 DEF LptNext, lptVars

-----------------------------------------------------------------------------
(***************************************************************************)
(* That no waiting process is overlooked.  The inductive invariant says    *)
(* for every place of scheduler() where a process that has been RUNNABLE   *)
(* since the CPU began to collect still is: in a slot not yet read, or in  *)
(* the list, and once the list is being run, ahead in it.                  *)
(***************************************************************************)
Ahead(c, p, k) == \E i \in DOMAIN batch[c] : batch[c][i] = p /\ i >= k

Covered(c) ==
    /\ waiting[c] \subseteq {p \in Proc : state[p] = "RUNNABLE"}
    /\ step[c] \in {"collect", "est"} =>
           \A p \in waiting[c] : p >= idx[c] \/ Ahead(c, p, 1)
    /\ step[c] = "sort" => \A p \in waiting[c] : Ahead(c, p, 1)
    /\ step[c] \in {"run", "check"} => \A p \in waiting[c] : Ahead(c, p, idx[c])
    /\ step[c] = "back" => \A p \in waiting[c] : Ahead(c, p, idx[c] + 1)
    /\ step[c] = "idle" => waiting[c] = {}

CoverInv == DOMAIN waiting = CPU /\ \A c \in CPU : Covered(c)

\* A CPU whose scheduler() does not move loses waiting processes only because
\* they are no longer RUNNABLE.
LEMMA StillCovered ==
    ASSUME NEW c \in CPU, Covered(c),
           step'[c] = step[c], idx'[c] = idx[c], batch'[c] = batch[c],
           waiting'[c] = waiting[c] \cap RunnableNext
    PROVE  Covered(c)'
BY DEF Covered, Ahead, RunnableNext

LEMMA RestCovered ==
    ASSUME ListInv, CoverInv, NEW c \in CPU, NEW s, NEW i, NEW b,
           step' = [step EXCEPT ![c] = s], idx' = [idx EXCEPT ![c] = i],
           batch' = [batch EXCEPT ![c] = b],
           Track \/ TrackRestart(c), Covered(c)'
    PROVE  CoverInv'
<1>1. ASSUME NEW d \in CPU, d # c
      PROVE  Covered(d)'
  <2>1. /\ step'[d] = step[d] /\ idx'[d] = idx[d] /\ batch'[d] = batch[d]
        /\ waiting'[d] = waiting[d] \cap RunnableNext
    BY <1>1 DEF ListInv, Track, TrackRestart
  <2>2. QED
    BY <2>1, StillCovered DEF CoverInv
<1>2. QED
  BY <1>1 DEF CoverInv, Track, TrackRestart

LEMMA AfterSlotCovers ==
    ASSUME ListInv, CoverInv, NEW c \in CPU, step[c] \in {"collect", "est"},
           NEW b \in Seq(Proc), AfterSlot(c, b), Track,
           \A p \in waiting'[c] : p > idx[c] \/ \E i \in DOMAIN b : b[i] = p
    PROVE  CoverInv'
<1> DEFINE s == CASE idx[c] < NPROC -> "collect"
                  [] idx[c] = NPROC /\ Len(b) = 0 -> "idle"
                  [] idx[c] = NPROC /\ Len(b) = 1 -> "run"
                  [] idx[c] = NPROC /\ Len(b) > 1 -> "sort"
           i == IF idx[c] < NPROC THEN idx[c] + 1 ELSE 1
<1>1. /\ step' = [step EXCEPT ![c] = s] /\ idx' = [idx EXCEPT ![c] = i]
      /\ batch' = [batch EXCEPT ![c] = b]
  BY DEF AfterSlot
<1>2. step'[c] = s /\ idx'[c] = i /\ batch'[c] = b
  BY <1>1 DEF ListInv
<1>3. /\ idx[c] \in Nat /\ idx[c] <= NPROC /\ NPROC \in Nat \ {0} /\ Len(b) \in Nat
      /\ DOMAIN b = 1..Len(b)
  BY NPROCAssumption DEF ListInv, ListOf
<1>4. waiting'[c] \subseteq {p \in Proc : state'[p] = "RUNNABLE"}
  BY DEF Track, RunnableNext
<1>5. \A p \in waiting'[c] : p \in Nat /\ p <= NPROC
  BY <1>3, <1>4 DEF Proc
<1>6. Covered(c)'
  <2>1. CASE idx[c] < NPROC
    <3>1. step'[c] = "collect" /\ idx'[c] = idx[c] + 1
      BY <1>2, <1>3, <2>1
    <3>2. \A p \in waiting'[c] : p >= idx'[c] \/ Ahead(c, p, 1)'
      BY <1>2, <1>3, <1>5, <3>1 DEF Ahead
    <3>3. QED
      BY <1>4, <3>1, <3>2 DEF Covered
  <2>2. CASE ~(idx[c] < NPROC)
    <3>1. \A p \in waiting'[c] : \E k \in DOMAIN b : b[k] = p
      BY <1>3, <1>5, <2>2
    <3>2. \A p \in waiting'[c] : Ahead(c, p, 1)'
      BY <1>2, <1>3, <3>1 DEF Ahead
    <3>3. idx'[c] = 1
      BY <1>2, <2>2
    <3>4. CASE Len(b) = 0
      <4>1. step'[c] = "idle"
        BY <1>2, <1>3, <2>2, <3>4
      <4>2. waiting'[c] = {}
        BY <1>3, <3>1, <3>4
      <4>3. QED
        BY <4>1, <4>2 DEF Covered
    <3>5. CASE Len(b) = 1
      <4>1. step'[c] = "run"
        BY <1>2, <1>3, <2>2, <3>5
      <4>2. QED
        BY <1>4, <3>2, <3>3, <4>1 DEF Covered
    <3>6. CASE Len(b) > 1
      <4>1. step'[c] = "sort"
        BY <1>2, <1>3, <2>2, <3>6
      <4>2. QED
        BY <1>4, <3>2, <4>1 DEF Covered
    <3>7. Len(b) = 0 \/ Len(b) = 1 \/ Len(b) > 1
      BY <1>3
    <3>8. QED
      BY <3>4, <3>5, <3>6, <3>7
  <2>3. QED
    BY <2>1, <2>2
<1> HIDE DEF s, i
<1>7. QED
  BY <1>1, <1>6, RestCovered

\* Sorting loses nobody.
LEMMA SortCovers ==
    ASSUME ListInv, CoverInv, NEW c \in CPU, SortCompare(c)
    PROVE  CoverInv'
<1> DEFINE b == batch[c]
           t == IF Longer(b[jdx[c]], b[idx[c]]) THEN Swap(b, idx[c], jdx[c]) ELSE b
<1>1. /\ b \in Seq(Proc) /\ step[c] = "sort"
      /\ idx[c] \in DOMAIN b /\ jdx[c] \in DOMAIN b
      /\ DOMAIN b = 1..Len(b)
  BY NPROCAssumption DEF ListInv, ListOf, SortCompare
<1>2. DOMAIN t = DOMAIN b /\ \A p : (\E i \in DOMAIN b : b[i] = p) => \E i \in DOMAIN b : t[i] = p
  BY <1>1 DEF Swap
<1>3. batch' = [batch EXCEPT ![c] = t] /\ batch'[c] = t
  BY DEF SortCompare, ListInv
<1> HIDE DEF t
<1>4. Track /\ waiting'[c] = waiting[c] \cap RunnableNext
  BY DEF SortCompare, Track
<1>5. \A p \in waiting[c] : \E i \in DOMAIN b : b[i] = p
  BY <1>1 DEF CoverInv, Covered, Ahead
<1>6. ASSUME NEW p \in waiting'[c]
      PROVE  Ahead(c, p, 1)'
  <2>1. PICK i \in DOMAIN b : t[i] = p
    BY <1>2, <1>4, <1>5
  <2>2. i \in DOMAIN batch'[c] /\ i >= 1
    BY <1>1, <1>2, <1>3
  <2>3. QED
    BY <1>3, <2>1, <2>2 DEF Ahead
<1>7. waiting'[c] \subseteq {p \in Proc : state'[p] = "RUNNABLE"}
  BY <1>4 DEF RunnableNext
<1>8. CASE UNCHANGED step
  <2>1. Covered(c)'
    BY <1>1, <1>6, <1>7, <1>8 DEF Covered
  <2>2. \A d \in CPU : d # c => Covered(d)'
    BY <1>3, <1>4, <1>8, StillCovered DEF CoverInv, SortCompare, ListInv, Track
  <2>3. QED
    BY <1>4, <2>1, <2>2 DEF CoverInv, Track
<1>9. CASE step' = [step EXCEPT ![c] = "run"] /\ idx' = [idx EXCEPT ![c] = 1]
  <2>1. Covered(c)'
    BY <1>6, <1>7, <1>9 DEF Covered, ListInv
  <2>2. QED
    BY <1>3, <1>4, <1>9, <2>1, RestCovered
<1>10. QED
  BY <1>8, <1>9 DEF SortCompare

LEMMA NextEntryCovers ==
    ASSUME ListInv, CoverInv, NEW c \in CPU, NextEntry(c),
           Track => \A p \in waiting'[c] : Ahead(c, p, idx[c] + 1)
    PROVE  CoverInv'
<1>0. /\ DOMAIN batch[c] = 1..Len(batch[c]) /\ Len(batch[c]) \in Nat
      /\ idx[c] \in Nat /\ NPROC \in Nat \ {0}
  BY NPROCAssumption DEF ListInv, ListOf
<1>1. CASE Top(c) /\ TrackRestart(c)
  <2>1. step'[c] = "collect" /\ idx'[c] = 1
    BY <1>1 DEF Top, ListInv
  <2>2. waiting'[c] = {p \in Proc : state'[p] = "RUNNABLE"}
    BY <1>1 DEF TrackRestart, RunnableNext
  <2>3. Covered(c)'
    BY <1>0, <2>1, <2>2 DEF Covered, Proc
  <2>4. QED
    BY <1>1, <2>3, RestCovered DEF Top
<1>2. CASE Track
  <2>1. waiting'[c] \subseteq {p \in Proc : state'[p] = "RUNNABLE"}
    BY <1>2 DEF Track, RunnableNext
  <2>2. CASE /\ idx[c] < Len(batch[c])
             /\ idx' = [idx EXCEPT ![c] = @ + 1]
             /\ step' = [step EXCEPT ![c] = "run"]
             /\ UNCHANGED batch
    <3>1. step'[c] = "run" /\ idx'[c] = idx[c] + 1
      BY <2>2 DEF ListInv
    <3>2. Covered(c)'
      BY <1>2, <2>1, <2>2, <3>1 DEF Covered, Ahead
    <3>3. \A d \in CPU : d # c => Covered(d)'
      BY <1>2, <2>2, StillCovered DEF CoverInv, ListInv, Track
    <3>4. QED
      BY <1>2, <3>2, <3>3 DEF CoverInv, Track
  <2>3. CASE /\ idx[c] = Len(batch[c])
             /\ step' = [step EXCEPT ![c] = "idle"]
             /\ idx' = [idx EXCEPT ![c] = 1]
             /\ batch' = [batch EXCEPT ![c] = <<>>]
    <3>1. step'[c] = "idle"
      BY <2>3 DEF ListInv
    <3>2. waiting'[c] = {}
      BY <1>0, <1>2, <2>3 DEF Ahead
    <3>3. Covered(c)'
      BY <3>1, <3>2 DEF Covered
    <3>4. QED
      BY <1>2, <2>3, <3>3, RestCovered
  <2>4. CASE Top(c) /\ TrackRestart(c)
    BY <1>1, <2>4
  <2>5. QED
    BY <2>2, <2>3, <2>4 DEF NextEntry
<1>3. QED
  BY <1>1, <1>2 DEF NextEntry

LEMMA CoverStep == ListInv /\ CoreTypeOK /\ CoverInv /\ [LptNext]_lptVars => CoverInv'
<1> SUFFICES ASSUME ListInv, CoreTypeOK, CoverInv, [LptNext]_lptVars
             PROVE  CoverInv'
  OBVIOUS
<1>1. CASE UNCHANGED schedVars /\ Track
  BY <1>1, StillCovered DEF schedVars, CoverInv, Track
<1>2. CASE UNCHANGED lptVars
  BY <1>2 DEF lptVars, coreVars, schedVars, CoverInv, Covered, Ahead
<1>3. ASSUME NEW c \in CPU, Collect(c)
      PROVE  CoverInv'
  <2>1. /\ step[c] = "collect" /\ Track /\ state' = state
        /\ idx[c] \in Nat /\ waiting'[c] \subseteq waiting[c]
        /\ batch[c] \in Seq(Proc)
        /\ \A p \in waiting'[c] : state[p] = "RUNNABLE" /\ p \in Nat
        /\ \A p \in waiting[c] : p >= idx[c] \/ Ahead(c, p, 1)
    BY <1>3, NPROCAssumption
       DEF Collect, coreVars, Track, RunnableNext, CoverInv, Covered, ListInv, ListOf, Proc
  <2>2. CASE step' = [step EXCEPT ![c] = "est"] /\ UNCHANGED <<idx, batch>>
    <3>1. step'[c] = "est" /\ idx'[c] = idx[c] /\ batch'[c] = batch[c]
      BY <2>2 DEF ListInv
    <3>2. Covered(c)'
      BY <2>1, <3>1 DEF Covered, Ahead, Track, RunnableNext
    <3>3. \A d \in CPU : d # c => Covered(d)'
      BY <2>1, <2>2, StillCovered DEF CoverInv, ListInv, Track
    <3>4. QED
      BY <2>1, <3>2, <3>3 DEF CoverInv, Track
  <2>3. CASE state[idx[c]] # "RUNNABLE" /\ AfterSlot(c, batch[c])
    <3>1. ASSUME NEW p \in waiting'[c]
          PROVE  p > idx[c] \/ \E i \in DOMAIN batch[c] : batch[c][i] = p
      BY <2>1, <2>3 DEF Ahead
    <3>2. QED
      BY <2>1, <2>3, <3>1, AfterSlotCovers
  <2>4. QED
    BY <1>3, <2>2, <2>3 DEF Collect
<1>4. ASSUME NEW c \in CPU, CollectEst(c)
      PROVE  CoverInv'
  <2> DEFINE b == Append(batch[c], idx[c])
  <2>1. /\ step[c] = "est" /\ Track /\ AfterSlot(c, b)
        /\ batch[c] \in Seq(Proc) /\ idx[c] \in Proc /\ idx[c] \in Nat
        /\ waiting'[c] \subseteq waiting[c] /\ waiting[c] \subseteq Nat
        /\ \A p \in waiting[c] : p >= idx[c] \/ Ahead(c, p, 1)
    BY <1>4, NPROCAssumption
       DEF CollectEst, Track, CoverInv, Covered, ListInv, ListOf, Proc
  <2>2. /\ b \in Seq(Proc) /\ DOMAIN batch[c] \subseteq DOMAIN b
        /\ \A i \in DOMAIN batch[c] : b[i] = batch[c][i]
        /\ \E i \in DOMAIN b : b[i] = idx[c]
    <3>1. /\ b \in Seq(Proc) /\ Len(b) = Len(batch[c]) + 1 /\ Len(batch[c]) \in Nat
          /\ \A i \in 1..Len(batch[c]) : b[i] = batch[c][i]
          /\ b[Len(batch[c]) + 1] = idx[c]
      BY <2>1
    <3>2. DOMAIN b = 1..Len(b) /\ DOMAIN batch[c] = 1..Len(batch[c])
      BY <2>1, <3>1
    <3> HIDE DEF b
    <3>3. QED
      BY <3>1, <3>2
  <2> HIDE DEF b
  <2>3. ASSUME NEW p \in waiting'[c]
        PROVE  p > idx[c] \/ \E i \in DOMAIN b : b[i] = p
    <3>1. p \in Nat /\ (p >= idx[c] \/ Ahead(c, p, 1))
      BY <2>1
    <3>2. CASE Ahead(c, p, 1)
      BY <2>2, <3>2 DEF Ahead
    <3>3. CASE p >= idx[c]
      BY <2>1, <2>2, <3>1, <3>3
    <3>4. QED
      BY <3>1, <3>2, <3>3
  <2>4. QED
    BY <2>1, <2>2, <2>3, AfterSlotCovers
<1>5. ASSUME NEW c \in CPU, LptAcquire(c)
      PROVE  CoverInv'
  <2>1. step'[c] = "check" /\ step[c] = "run" /\ Track
    BY <1>5 DEF LptAcquire, ListInv
  <2>2. Covered(c)'
    BY <1>5, <2>1 DEF LptAcquire, CoverInv, Covered, Ahead, Track, RunnableNext
  <2>3. \A d \in CPU : d # c => Covered(d)'
    BY <1>5, StillCovered DEF LptAcquire, CoverInv, ListInv, Track
  <2>4. QED
    BY <2>1, <2>2, <2>3 DEF CoverInv, Track
<1>6. ASSUME NEW c \in CPU, LptDispatch(c) \/ LptSkip(c),
             NEW p \in waiting'[c], Track
      PROVE  Ahead(c, p, idx[c] + 1)
  <2>1. /\ step[c] = "check" /\ Entry(c) \in Proc /\ idx[c] \in Nat
        /\ batch[c] \in Seq(Proc)
    BY <1>6, EntryIsSlot, NPROCAssumption DEF LptDispatch, LptSkip, ListInv, ListOf
  <2>2. p \in waiting[c] /\ state'[p] = "RUNNABLE" /\ state[p] = "RUNNABLE"
    BY <1>6 DEF Track, RunnableNext, CoverInv, Covered
  <2>3. p # Entry(c)
    <3>1. CASE LptSkip(c)
      BY <2>2, <3>1 DEF LptSkip
    <3>2. CASE LptDispatch(c)
      <4>1. state' = [state EXCEPT ![Entry(c)] = "RUNNING"]
        BY <3>2 DEF LptDispatch, Dispatch
      <4>2. p \in Proc
        BY <1>6 DEF Track, RunnableNext
      <4>3. state'[p] = IF p = Entry(c) THEN "RUNNING" ELSE state[p]
        BY <4>1, <4>2 DEF CoreTypeOK
      <4>4. QED
        BY <2>2, <4>3
    <3>3. QED
      BY <1>6, <3>1, <3>2
  <2>4. PICK i \in DOMAIN batch[c] : batch[c][i] = p /\ i >= idx[c]
    BY <2>1, <2>2 DEF CoverInv, Covered, Ahead
  <2>5. i \in Nat /\ i # idx[c]
    BY <2>1, <2>3, <2>4 DEF Entry
  <2>6. QED
    BY <2>1, <2>4, <2>5 DEF Ahead
<1>7. ASSUME NEW c \in CPU, LptDispatch(c)
      PROVE  CoverInv'
  <2>1. step'[c] = "back" /\ Track /\ idx' = idx /\ batch' = batch
    BY <1>7 DEF LptDispatch, ListInv
  <2>2. \A p \in waiting'[c] : Ahead(c, p, idx[c] + 1)'
    BY <1>6, <1>7, <2>1 DEF Ahead
  <2>3. Covered(c)'
    BY <2>1, <2>2 DEF Covered, Track, RunnableNext
  <2>4. \A d \in CPU : d # c => Covered(d)'
    BY <1>7, <2>1, StillCovered DEF LptDispatch, CoverInv, ListInv, Track
  <2>5. QED
    BY <2>1, <2>3, <2>4 DEF CoverInv, Track
<1>8. ASSUME NEW c \in CPU, LptSkip(c)
      PROVE  CoverInv'
  BY <1>6, <1>8, NextEntryCovers DEF LptSkip
<1>9. ASSUME NEW c \in CPU, LptReturn(c)
      PROVE  CoverInv'
  <2>1. NextEntry(c) /\ step[c] = "back"
    BY <1>9 DEF LptReturn
  <2>2. Track => \A p \in waiting'[c] : Ahead(c, p, idx[c] + 1)
    BY <2>1 DEF Track, CoverInv, Covered
  <2>3. QED
    BY <2>1, <2>2, NextEntryCovers
<1>10. ASSUME NEW c \in CPU, LeaveIdle(c)
       PROVE  CoverInv'
  <2>1. step'[c] = "collect" /\ idx'[c] = 1 /\ TrackRestart(c) /\ Top(c)
    BY <1>10 DEF LeaveIdle, Top, ListInv
  <2>2. waiting'[c] = {p \in Proc : state'[p] = "RUNNABLE"}
    BY <2>1 DEF TrackRestart, RunnableNext
  <2>3. Covered(c)'
    BY <2>1, <2>2, NPROCAssumption DEF Covered, Proc
  <2>4. QED
    BY <2>1, <2>3, RestCovered DEF Top
<1>11. ASSUME NEW c \in CPU, LptLoop(c)
       PROVE  CoverInv'
  BY <1>3, <1>4, <1>5, <1>7, <1>8, <1>10, <1>11, SortCovers DEF LptLoop
<1>12. ASSUME NEW c \in CPU,
              LptYield(c) \/ LptOther(c) \/ \E q \in Proc : LptAlloc(c, q)
       PROVE  CoverInv'
  BY <1>1, <1>12 DEF LptYield, LptOther, LptAlloc
<1>13. QED
  BY <1>2, <1>9, <1>11, <1>12 DEF LptNext

-----------------------------------------------------------------------------
(* The types of the policy's variables                                     *)

MoreTypes ==
    /\ found \in [CPU -> BOOLEAN]
    /\ rtime \in [Proc -> 0..RtimeBound]
    /\ est_time \in [Proc -> 0..RtimeBound + 1]
    /\ waiting \in [CPU -> SUBSET Proc]
    /\ disturbed \in [CPU -> BOOLEAN]

LEMMA MoreTypesStep == ListInv /\ MoreTypes /\ [LptNext]_lptVars => MoreTypes'
<1> SUFFICES ASSUME ListInv, MoreTypes, [LptNext]_lptVars
             PROVE  MoreTypes'
  OBVIOUS
<1>1. CASE UNCHANGED lptVars
  BY <1>1 DEF lptVars, schedVars, MoreTypes
<1>2. ASSUME NEW c \in CPU, Track \/ TrackRestart(c)
      PROVE  waiting' \in [CPU -> SUBSET Proc]
  BY <1>2 DEF Track, TrackRestart, RunnableNext
<1>3. ASSUME NEW c \in CPU, Collect(c)
      PROVE  MoreTypes'
  BY <1>2, <1>3 DEF Collect, MoreTypes
<1>4. ASSUME NEW c \in CPU, CollectEst(c)
      PROVE  MoreTypes'
  <2>1. idx[c] \in Proc
    BY <1>4, NPROCAssumption DEF CollectEst, ListInv, ListOf, Proc
  <2>2. est_time' \in [Proc -> 0..RtimeBound + 1]
    BY <1>4, <2>1, RtimeBoundAssumption DEF CollectEst, MoreTypes
  <2>3. disturbed' \in [CPU -> BOOLEAN]
    <3>1. PICK d : d = disturbed /\ TrackKey(idx[c])
      BY <1>4 DEF CollectEst
    <3>2. QED
      BY <3>1 DEF TrackKey, MoreTypes
  <2>4. QED
    BY <1>2, <1>4, <2>2, <2>3 DEF CollectEst, MoreTypes
<1>5. ASSUME NEW c \in CPU, SortCompare(c)
      PROVE  MoreTypes'
  BY <1>2, <1>5 DEF SortCompare, MoreTypes
<1>6. ASSUME NEW c \in CPU, LptAcquire(c) \/ LptDispatch(c)
      PROVE  MoreTypes'
  BY <1>2, <1>6 DEF LptAcquire, LptDispatch, MoreTypes
<1>7. ASSUME NEW c \in CPU, Top(c) \/ NextEntry(c)
      PROVE  found' \in [CPU -> BOOLEAN]
  BY <1>7 DEF Top, NextEntry, MoreTypes
<1>8. ASSUME NEW c \in CPU, LptSkip(c) \/ LptReturn(c) \/ LeaveIdle(c)
      PROVE  MoreTypes'
  <2>1. found' \in [CPU -> BOOLEAN]
    BY <1>7, <1>8 DEF LptSkip, LptReturn, LeaveIdle
  <2>2. Track \/ TrackRestart(c)
    BY <1>8 DEF LptSkip, LptReturn, LeaveIdle, NextEntry
  <2>3. UNCHANGED <<rtime, est_time, disturbed>>
    BY <1>8 DEF LptSkip, LptReturn, LeaveIdle
  <2>4. QED
    BY <1>2, <2>1, <2>2, <2>3 DEF MoreTypes
<1>9. ASSUME NEW c \in CPU, LptYield(c)
      PROVE  MoreTypes'
  <2> DEFINE p == cproc[c]
             n == IF rtime[p] < RtimeBound THEN rtime[p] + 1 ELSE rtime[p]
  <2>0. rtime' = [rtime EXCEPT ![p] = n]
    BY <1>9 DEF LptYield
  <2>1. rtime' \in [Proc -> 0..RtimeBound]
    <3>1. p \in Proc => n \in 0..RtimeBound
      BY RtimeBoundAssumption DEF MoreTypes
    <3> HIDE DEF p, n
    <3>2. QED
      BY <2>0, <3>1 DEF MoreTypes
  <2>2. QED
    BY <1>2, <1>9, <2>1 DEF LptYield, MoreTypes, schedVars
<1>10. ASSUME NEW c \in CPU, NEW q \in Proc, LptAlloc(c, q)
       PROVE  MoreTypes'
  BY <1>2, <1>10, RtimeBoundAssumption DEF LptAlloc, MoreTypes, schedVars
<1>11. ASSUME NEW c \in CPU, LptOther(c)
       PROVE  MoreTypes'
  BY <1>2, <1>11 DEF LptOther, MoreTypes, schedVars
<1>12. QED
  BY <1>1, <1>3, <1>4, <1>5, <1>6, <1>8, <1>9, <1>10, <1>11 DEF LptNext, LptLoop

-----------------------------------------------------------------------------
(***************************************************************************)
(* The exchange sort over keys that other CPUs may write.  As long as they *)
(* do not: no entry before idx is shorter than one behind it, and the      *)
(* entry at idx is not shorter than those it has been compared with.       *)
(***************************************************************************)
SortedUpTo(b, k, i, j) ==
    /\ \A x, y \in DOMAIN b : x < i /\ x < y => k[b[x]] >= k[b[y]]
    /\ \A y \in DOMAIN b : i < y /\ y < j => k[b[i]] >= k[b[y]]

SortedTo(c) ==
    step[c] = "sort" /\ ~disturbed[c] =>
        SortedUpTo(batch[c], est_time, idx[c], jdx[c])

SortInv == \A c \in CPU : SortedTo(c)

LEMMA StillSorted ==
    ASSUME NEW c \in CPU, SortedTo(c), est_time' = est_time, disturbed' = disturbed,
           step'[c] = step[c], idx'[c] = idx[c], jdx'[c] = jdx[c], batch'[c] = batch[c]
    PROVE  SortedTo(c)'
BY DEF SortedTo

\* One comparison, over the list b and the keys k of its processes.
LEMMA ExchangeStep ==
    ASSUME NEW b \in Seq(Proc), NEW k \in [Proc -> Nat],
           NEW i \in DOMAIN b, NEW j \in DOMAIN b, i < j,
           SortedUpTo(b, k, i, j),
           NEW t, t = IF k[b[j]] > k[b[i]] THEN Swap(b, i, j) ELSE b
    PROVE  DOMAIN t = DOMAIN b /\ SortedUpTo(t, k, i, j + 1)
<1>0. /\ DOMAIN b = 1..Len(b) /\ Len(b) \in Nat /\ i \in Nat /\ j \in Nat
      /\ \A x \in DOMAIN b : b[x] \in Proc /\ k[b[x]] \in Nat
      /\ \A x, y \in DOMAIN b : x < i /\ x < y => k[b[x]] >= k[b[y]]
      /\ \A y \in DOMAIN b : i < y /\ y < j => k[b[i]] >= k[b[y]]
  BY DEF SortedUpTo
<1>1. CASE ~(k[b[j]] > k[b[i]])
  <2>1. t = b
    BY <1>1
  <2>2. k[b[i]] >= k[b[j]]
    BY <1>0, <1>1
  <2>3. ASSUME NEW y \in DOMAIN b, i < y, y < j + 1
        PROVE  k[b[i]] >= k[b[y]]
    BY <1>0, <2>2, <2>3
  <2>4. QED
    BY <1>0, <2>1, <2>3 DEF SortedUpTo
<1>2. CASE k[b[j]] > k[b[i]]
  <2>1. t = [b EXCEPT ![i] = b[j], ![j] = b[i]]
    BY <1>2 DEF Swap
  <2>2. /\ DOMAIN t = DOMAIN b /\ t[i] = b[j] /\ t[j] = b[i]
        /\ \A x \in DOMAIN b : x # i /\ x # j => t[x] = b[x]
    BY <1>0, <2>1
  <2>3. ASSUME NEW x \in DOMAIN b, NEW y \in DOMAIN b, x < i, x < y
        PROVE  k[t[x]] >= k[t[y]]
    <3>1. t[x] = b[x]
      <4>1. x \in Nat /\ x # i /\ x # j
        BY <1>0, <2>3
      <4>2. QED
        BY <2>2, <4>1
    <3>2. k[b[x]] >= k[b[i]] /\ k[b[x]] >= k[b[j]] /\ k[b[x]] >= k[b[y]]
      BY <1>0, <2>3
    <3>3. QED
      BY <2>2, <3>1, <3>2
  <2>4. ASSUME NEW y \in DOMAIN b, i < y, y < j + 1
        PROVE  k[t[i]] >= k[t[y]]
    <3>1. CASE y = j
      BY <1>0, <1>2, <2>2, <3>1
    <3>2. CASE y # j
      <4>1. k[b[i]] >= k[b[y]] /\ t[y] = b[y] /\ t[i] = b[j]
        BY <1>0, <2>2, <2>4, <3>2
      <4>2. QED
        BY <1>0, <1>2, <4>1
    <3>3. QED
      BY <3>1, <3>2
  <2>5. QED
    BY <2>2, <2>3, <2>4 DEF SortedUpTo
<1>3. QED
  BY <1>1, <1>2

LEMMA SortCompareSorts ==
    ASSUME ListInv, MoreTypes, NEW c \in CPU, SortedTo(c), SortCompare(c)
    PROVE  /\ SortedTo(c)'
           /\ step'[c] = "run" /\ ~disturbed[c] => Sorted(batch[c])'
<1> DEFINE b == batch[c]
           i == idx[c]
           j == jdx[c]
           t == IF Longer(b[j], b[i]) THEN Swap(b, i, j) ELSE b
<1>1. /\ b \in Seq(Proc) /\ step[c] = "sort" /\ est_time' = est_time
      /\ i \in DOMAIN b /\ j \in DOMAIN b /\ i < j
      /\ DOMAIN b = 1..Len(b) /\ Len(b) \in Nat /\ i \in Nat /\ j \in Nat
  BY NPROCAssumption DEF ListInv, ListOf, SortCompare
<1>2. est_time \in [Proc -> Nat]
  BY RtimeBoundAssumption DEF MoreTypes
<1>3. batch'[c] = t
  BY DEF SortCompare, ListInv
<1>4. t = IF est_time[b[j]] > est_time[b[i]] THEN Swap(b, i, j) ELSE b
  BY DEF Longer
<1> HIDE DEF t
<1>5. ASSUME ~disturbed[c]
      PROVE  DOMAIN t = DOMAIN b /\ SortedUpTo(t, est_time, i, j + 1)
  <2>1. SortedUpTo(b, est_time, i, j)
    BY <1>1, <1>5 DEF SortedTo
  <2> HIDE DEF b, i, j
  <2>2. QED
    BY <1>1, <1>2, <1>4, <2>1, ExchangeStep
<1>6. CASE /\ j < Len(b) /\ jdx' = [jdx EXCEPT ![c] = j + 1]
           /\ UNCHANGED <<idx, step, disturbed>>
  <2>1. jdx'[c] = j + 1 /\ idx'[c] = i /\ step'[c] = "sort" /\ disturbed'[c] = disturbed[c]
    BY <1>1, <1>6 DEF ListInv
  <2>2. SortedTo(c)'
    BY <1>1, <1>3, <1>5, <2>1 DEF SortedTo
  <2>3. QED
    BY <2>1, <2>2
<1>7. CASE /\ j = Len(b) /\ i + 1 < Len(b)
           /\ idx' = [idx EXCEPT ![c] = i + 1]
           /\ jdx' = [jdx EXCEPT ![c] = i + 2]
           /\ UNCHANGED <<step, disturbed>>
  <2>1. /\ jdx'[c] = i + 2 /\ idx'[c] = i + 1 /\ step'[c] = "sort"
        /\ disturbed'[c] = disturbed[c]
    BY <1>1, <1>7 DEF ListInv
  <2>2. SortedTo(c)'
    <3> SUFFICES ASSUME ~disturbed[c]
                 PROVE  SortedUpTo(t, est_time, i + 1, i + 2)
      BY <1>1, <1>3, <2>1 DEF SortedTo
    <3>1. DOMAIN t = 1..Len(b) /\ SortedUpTo(t, est_time, i, j + 1)
      BY <1>1, <1>5
    <3>2. ASSUME NEW x \in DOMAIN t, NEW y \in DOMAIN t, x < i + 1, x < y
          PROVE  est_time[t[x]] >= est_time[t[y]]
      <4>1. x < i \/ (x = i /\ i < y /\ y < j + 1)
        BY <1>1, <1>7, <3>1, <3>2
      <4>2. QED
        BY <3>1, <3>2, <4>1 DEF SortedUpTo
    <3>3. \A y \in DOMAIN t : ~(i + 1 < y /\ y < i + 2)
      BY <1>1, <3>1
    <3>4. QED
      BY <3>2, <3>3 DEF SortedUpTo
  <2>3. QED
    BY <2>1, <2>2
<1>8. CASE /\ j = Len(b) /\ i + 1 = Len(b)
           /\ step' = [step EXCEPT ![c] = "run"]
  <2>1. step'[c] = "run"
    BY <1>8 DEF ListInv
  <2>2. ASSUME ~disturbed[c]
        PROVE  Sorted(batch[c])'
    <3>1. DOMAIN t = 1..Len(b) /\ SortedUpTo(t, est_time, i, j + 1)
      BY <1>1, <1>5, <2>2
    <3>2. ASSUME NEW x \in DOMAIN t, NEW y \in DOMAIN t, x < y
          PROVE  est_time[t[x]] >= est_time[t[y]]
      <4>1. x < i \/ (x = i /\ i < y /\ y < j + 1)
        BY <1>1, <1>8, <3>1, <3>2
      <4>2. QED
        BY <3>1, <3>2, <4>1 DEF SortedUpTo
    <3>3. QED
      BY <1>1, <1>3, <3>2 DEF Sorted
  <2>3. QED
    BY <2>1, <2>2 DEF SortedTo
<1>9. QED
  BY <1>6, <1>7, <1>8 DEF SortCompare

\* AfterSlot begins a sort at its first comparison.
LEMMA AfterSlotSorts ==
    ASSUME ListInv, NEW c \in CPU, step[c] \in {"collect", "est"},
           NEW b \in Seq(Proc), AfterSlot(c, b)
    PROVE  SortedTo(c)'
<1>1. idx[c] \in Nat /\ idx[c] <= NPROC /\ NPROC \in Nat /\ Len(b) \in Nat
  BY NPROCAssumption DEF ListInv, ListOf
<1>2. CASE idx[c] < NPROC
  <2>1. step'[c] = "collect"
    BY <1>1, <1>2 DEF AfterSlot, ListInv
  <2>2. QED
    BY <2>1 DEF SortedTo
<1>3. CASE ~(idx[c] < NPROC)
  <2>0. idx[c] = NPROC
    BY <1>1, <1>3
  <2>1. idx'[c] = 1 /\ batch'[c] = b
    BY <1>3 DEF AfterSlot, ListInv
  <2>2. CASE Len(b) > 1
    <3>1. jdx'[c] = 2
      BY <2>0, <2>2 DEF AfterSlot, ListInv
    <3>2. DOMAIN b = 1..Len(b)
      OBVIOUS
    <3>3. SortedUpTo(b, est_time', 1, 2)
      BY <1>1, <3>2 DEF SortedUpTo
    <3>4. QED
      BY <2>1, <3>1, <3>3 DEF SortedTo
  <2>3. CASE Len(b) = 0
    <3>1. step'[c] = "idle"
      BY <2>0, <2>3 DEF AfterSlot, ListInv
    <3>2. QED
      BY <3>1 DEF SortedTo
  <2>4. CASE Len(b) = 1
    <3>1. step'[c] = "run"
      BY <2>0, <2>4 DEF AfterSlot, ListInv
    <3>2. QED
      BY <3>1 DEF SortedTo
  <2>5. Len(b) = 0 \/ Len(b) = 1 \/ Len(b) > 1
    <3>1. \A n \in Nat : n = 0 \/ n = 1 \/ n > 1
      OBVIOUS
    <3>2. QED
      BY <1>1, <3>1, Zenon
  <2>6. QED
    BY <2>2, <2>3, <2>4, <2>5
<1>4. QED
  BY <1>2, <1>3

SortsNow ==
    \A c \in CPU : step[c] = "sort" /\ step'[c] = "run" /\ ~disturbed[c] => Sorted(batch[c])'

LEMMA SortStep ==
    ListInv /\ MoreTypes /\ SortInv /\ [LptNext]_lptVars => SortInv' /\ SortsNow
<1> SUFFICES ASSUME ListInv, MoreTypes, SortInv, [LptNext]_lptVars
             PROVE  SortInv' /\ SortsNow
  OBVIOUS
<1> DEFINE Good(c) == /\ SortedTo(c)'
                      /\ step[c] = "sort" /\ step'[c] = "run" /\ ~disturbed[c] =>
                             Sorted(batch[c])'
<1> SUFFICES ASSUME NEW c \in CPU
             PROVE  Good(c)
  BY DEF SortInv, SortsNow
<1>0. SortedTo(c)
  BY DEF SortInv
<1>1. CASE UNCHANGED <<step, idx, jdx, batch, est_time, disturbed>>
  BY <1>0, <1>1, StillSorted
<1>2. CASE /\ est_time' = est_time
           /\ step[c] # "sort" /\ step'[c] # "sort"
  BY <1>2 DEF SortedTo
<1>3. CASE /\ step'[c] = step[c] /\ idx'[c] = idx[c] /\ jdx'[c] = jdx[c]
           /\ batch'[c] = batch[c] /\ disturbed'[c] = disturbed[c]
           /\ est_time' = est_time
  BY <1>0, <1>3 DEF SortedTo
<1>4. ASSUME NEW d \in CPU, Collect(d)
      PROVE  Good(c)
  <2>1. CASE d # c
    BY <1>3, <1>4, <2>1 DEF Collect, AfterSlot, ListInv
  <2>2. CASE d = c /\ step' = [step EXCEPT ![c] = "est"]
    BY <1>2, <1>4, <2>2 DEF Collect, ListInv
  <2>3. CASE d = c /\ AfterSlot(c, batch[c])
    <3>1. step[c] = "collect" /\ batch[c] \in Seq(Proc)
      BY <1>4, <2>3 DEF Collect, ListInv, ListOf
    <3>2. QED
      BY <2>3, <3>1, AfterSlotSorts
  <2>4. QED
    BY <1>4, <2>1, <2>2, <2>3 DEF Collect
<1>5. ASSUME NEW d \in CPU, CollectEst(d)
      PROVE  Good(c)
  <2>1. CASE d = c
    <3>1. step[c] = "est" /\ Append(batch[c], idx[c]) \in Seq(Proc)
      BY <1>5, <2>1, NPROCAssumption DEF CollectEst, ListInv, ListOf, Proc
    <3>2. QED
      BY <1>5, <2>1, <3>1, AfterSlotSorts DEF CollectEst
  <2>2. CASE d # c
    <3>1. /\ step'[c] = step[c] /\ idx'[c] = idx[c] /\ jdx'[c] = jdx[c]
          /\ batch'[c] = batch[c]
      BY <1>5, <2>2 DEF CollectEst, AfterSlot, ListInv
    <3>2. CASE step[c] # "sort"
      BY <3>1, <3>2 DEF SortedTo
    <3>3. CASE step[c] = "sort" /\ disturbed'[c]
      BY <3>1, <3>3 DEF SortedTo
    <3>4. CASE step[c] = "sort" /\ ~disturbed'[c]
      <4>1. /\ ~disturbed[c]
            /\ \/ est_time'[idx[d]] = est_time[idx[d]]
               \/ \A i \in DOMAIN batch[c] : batch[c][i] # idx[d]
        BY <1>5, <3>4 DEF CollectEst, TrackKey
      <4>2. /\ est_time' = [est_time EXCEPT ![idx[d]] = rtime[idx[d]] + 1]
            /\ \A i \in DOMAIN batch[c] : batch[c][i] \in Proc
        BY <1>5 DEF CollectEst, ListInv, ListOf
      <4>3. \A i \in DOMAIN batch[c] : est_time'[batch[c][i]] = est_time[batch[c][i]]
        BY <4>1, <4>2 DEF MoreTypes
      <4>4. /\ SortedUpTo(batch[c], est_time, idx[c], jdx[c])
            /\ idx[c] \in DOMAIN batch[c]
        BY <1>0, <3>4, <4>1, NPROCAssumption DEF SortedTo, ListInv, ListOf
      <4>5. SortedUpTo(batch[c], est_time', idx[c], jdx[c])
        BY <4>3, <4>4 DEF SortedUpTo
      <4>6. QED
        BY <3>1, <3>4, <4>5 DEF SortedTo
    <3>5. QED
      BY <3>2, <3>3, <3>4
  <2>3. QED
    BY <2>1, <2>2
<1>6. ASSUME NEW d \in CPU, SortCompare(d)
      PROVE  Good(c)
  <2>1. CASE d = c
    BY <1>0, <1>6, <2>1, SortCompareSorts
  <2>2. CASE d # c
    <3>1. disturbed'[c] = disturbed[c]
      BY <1>6, <2>2 DEF SortCompare, MoreTypes
    <3>2. QED
      BY <1>3, <1>6, <2>2, <3>1 DEF SortCompare, ListInv
  <2>3. QED
    BY <2>1, <2>2
<1>7. ASSUME NEW d \in CPU,
             \/ LptAcquire(d) \/ LptDispatch(d) \/ LptSkip(d) \/ LptReturn(d)
             \/ LeaveIdle(d)
      PROVE  Good(c)
  <2>1. UNCHANGED <<est_time, disturbed>>
    BY <1>7 DEF LptAcquire, LptDispatch, LptSkip, LptReturn, LeaveIdle
  <2>2. CASE d # c
    BY <1>3, <1>7, <2>1, <2>2
       DEF LptAcquire, LptDispatch, LptSkip, LptReturn, LeaveIdle, NextEntry, Top, ListInv
  <2>3. CASE d = c
    <3>1. step[c] # "sort"
      BY <1>7, <2>3 DEF LptAcquire, LptDispatch, LptSkip, LptReturn, LeaveIdle
    <3>2. step'[c] # "sort"
      BY <1>7, <2>3
         DEF LptAcquire, LptDispatch, LptSkip, LptReturn, LeaveIdle, NextEntry, Top, ListInv
    <3>3. QED
      BY <1>2, <2>1, <3>1, <3>2
  <2>4. QED
    BY <2>2, <2>3
<1>8. ASSUME NEW d \in CPU,
             LptYield(d) \/ LptOther(d) \/ \E q \in Proc : LptAlloc(d, q)
      PROVE  Good(c)
  BY <1>1, <1>8 DEF LptYield, LptOther, LptAlloc, schedVars
<1>9. CASE UNCHANGED lptVars
  BY <1>1, <1>9 DEF lptVars, schedVars
<1>10. QED
  BY <1>4, <1>5, <1>6, <1>7, <1>8, <1>9 DEF LptNext, LptLoop

-----------------------------------------------------------------------------
\* The longest-first policy, with its unlocked reads, its private lists and
\* its shared est_time, implements the hand-over protocol.
THEOREM LptImplementsCore == LptSafetySpec => CoreSpec
<1>1. LptInit => ListInv /\ CoreInit
  BY NPROCAssumption DEF LptInit, ListInv, ListOf, Steps
<1>2. QED
  BY <1>1, ListInvStep, LptStepIsCoreStep, PTL DEF LptSafetySpec, CoreSpec

\* So no two CPUs run a process, whichever lists they hold.
THEOREM LptHandoff == LptSafetySpec => []Handoff
BY LptImplementsCore, HandoffCorrect, PTL

\* And under this policy a process is on one CPU at most, and is taken up only
\* after it has left the last.
THEOREM LptImplementsAbs == LptSafetySpec => AbsSpec
BY LptImplementsCore, CoreImplementsAbs, PTL

LptInv == ListInv /\ CoreTypeOK /\ CoverInv /\ MoreTypes

\* The lists, who is in them, and the types: initially, and after every step
\* of any CPU.
THEOREM LptInvariant == LptSafetySpec => []LptInv
<1>1. LptInit => ListInv /\ CoverInv /\ MoreTypes
  <2> SUFFICES ASSUME LptInit
               PROVE  ListInv /\ CoverInv /\ MoreTypes
    OBVIOUS
  <2>1. ListInv
    BY NPROCAssumption DEF LptInit, ListInv, ListOf, Steps
  <2>2. \A c \in CPU : /\ step[c] \in {"collect", "off"} /\ idx[c] = 1
                       /\ waiting[c] \subseteq {InitProc}
    BY DEF LptInit
  <2>3. InitProc \in Proc /\ InitProc >= 1 /\ state[InitProc] = "RUNNABLE"
    BY NPROCAssumption DEF LptInit, CoreInit, InitProc, Proc
  <2>4. CoverInv
    BY <2>2, <2>3 DEF LptInit, CoverInv, Covered
  <2>5. MoreTypes
    BY <2>3, RtimeBoundAssumption DEF LptInit, MoreTypes
  <2>6. QED
    BY <2>1, <2>4, <2>5
<1>2. LptSafetySpec => []CoreTypeOK
  BY LptImplementsCore, CoreTypeCorrect, PTL
<1>3. QED
  BY <1>1, <1>2, ListInvStep, CoverStep, MoreTypesStep, PTL DEF LptSafetySpec, LptInv

\* Every variable of the policy keeps its range: no list outgrows the process
\* table and no index leaves it.
THEOREM LptTypeCorrect == LptSafetySpec => []LptTypeOK
<1>1. LptInv => LptTypeOK
  BY DEF LptInv, LptTypeOK, ListInv, ListOf, MoreTypes
<1>2. QED
  BY <1>1, LptInvariant, PTL

\* No process that has waited since before the list was made is missing from
\* it, or passed by while the list is run.
THEOREM NobodyMissing == LptSafetySpec => []WaitingIsListed
<1>1. LptInv => WaitingIsListed
  BY DEF LptInv, CoverInv, Covered, Ahead, WaitingIsListed
<1>2. QED
  BY <1>1, LptInvariant, PTL

\* No CPU goes into wfi over a process that has waited all the time since it
\* began to collect, although it read the table without a lock.
THEOREM IdleOnlyWhenNobodyWaits == LptSafetySpec => []IdleJustified
<1>1. LptInv => IdleJustified
  BY DEF LptInv, CoverInv, Covered, IdleJustified
<1>2. QED
  BY <1>1, LptInvariant, PTL

\* The exchange sort sorts: whenever the keys have been left alone meanwhile,
\* the list that STEP 4 runs is in descending order, for every length.
THEOREM LongestFirst == LptSafetySpec => SortsDescending
<1>1. LptInit => SortInv
  BY DEF LptInit, SortInv, SortedTo
<1>2. LptInv => ListInv /\ MoreTypes
  BY DEF LptInv
<1>3. LptSafetySpec => []SortInv
  BY <1>1, <1>2, LptInvariant, SortStep, PTL DEF LptSafetySpec
<1>4. SortsNow <=> (\A c \in CPU : step[c] = "sort" /\ step'[c] = "run" /\ ~disturbed[c] =>
                        Sorted(batch[c])')
  BY DEF SortsNow
<1>5. QED
  BY <1>2, <1>3, <1>4, LptInvariant, SortStep, PTL DEF LptSafetySpec, SortsDescending
=============================================================================
