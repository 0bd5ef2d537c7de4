--------------------------- MODULE WaitExitProofs ---------------------------
(***************************************************************************)
(* Proofs about WaitExit for every NPROC: the meeting of a parent and its  *)
(* children, whoever forks, exits, waits and kills.                        *)
(***************************************************************************)
EXTENDS WaitExit, TLAPS

(***************************************************************************)
(* The inductive invariant                                                 *)
(***************************************************************************)

\* What p->state says of where the process is.
PcMatchesState(p) ==
    /\ pc[p] = "free" => state[p] \in {"UNUSED", "USED", "ZOMBIE"}
    /\ pc[p] = "gone" => state[p] = "ZOMBIE"
    /\ pc[p] = "asleep" => state[p] \in {"SLEEPING", "RUNNABLE"}
    /\ pc[p] \notin {"free", "gone", "asleep"} => state[p] = "RUNNABLE"

\* wait_lock is held in reparent() and kexit() and from the scan of wait()
\* until sleep() has p->lock; p->lock is held from there, or from ZOMBIE on,
\* until the scheduler has switched.
LocksMatchPc(p) ==
    /\ wait_lock = p <=> pc[p] \in {"exit_reparent", "exit_zombie",
                                    "wait_scan", "wait_sleep", "wait_release"}
    /\ lock[p] # None => lock[p] = p /\ pc[p] \in {"gone", "asleep", "wait_release"}
    /\ pc[p] \in {"gone", "wait_release"} => lock[p] = p

\* The child of a kfork() under way is USED, nobody else's, and linked to a
\* parent before it can run.
ForkSound(p) ==
    /\ child[p] # None => state[child[p]] = "USED"
    /\ \A q \in Proc : q # p /\ child[p] # None => child[p] # child[q]
    /\ pc[p] = "fork_link" => parent[child[p]] = None
    /\ pc[p] = "fork_ready" => parent[child[p]] = p

\* Whoever has started has a parent, except init; a parent is alive, and one
\* that is about to be a ZOMBIE has no children left.
FamilySound(q) ==
    /\ parent[q] # None =>
           state[parent[q]] \in {"RUNNABLE", "SLEEPING"} /\ pc[parent[q]] # "exit_zombie"
    /\ state[q] \in {"RUNNABLE", "SLEEPING", "ZOMBIE"} => q = initproc \/ parent[q] # None
    /\ state[q] = "UNUSED" => parent[q] = None

\* init does not exit.
InitLives == pc[initproc] \notin {"free", "exit_reparent", "exit_zombie", "gone"}

\* Who sleeps in wait(), or has decided to, has children and none of them is
\* a zombie; a child that is about to be one has woken its parent.
SleepSound(p) ==
    /\ state[p] = "SLEEPING" \/ pc[p] \in {"wait_sleep", "wait_release"} =>
           /\ \E q \in Proc : parent[q] = p
           /\ \A q \in Proc : parent[q] = p => state[q] # "ZOMBIE"
    /\ pc[p] = "exit_zombie" => state[parent[p]] # "SLEEPING"

WaitInv ==
    /\ WaitTypeOK
    /\ InitLives
    /\ \A p \in Proc : /\ PcMatchesState(p) /\ LocksMatchPc(p) /\ ForkSound(p)
                       /\ FamilySound(p) /\ SleepSound(p)

LEMMA InitWaitInv == Init => WaitInv
<1> SUFFICES ASSUME Init
             PROVE  WaitInv
  OBVIOUS
<1> USE NPROCAssumption, NoneAssumption DEF Init, Proc, initproc
<1>1. WaitTypeOK
  BY DEF WaitTypeOK, States, Pcs
<1>2. InitLives
  BY DEF InitLives
<1>3. \A p \in Proc : /\ PcMatchesState(p) /\ LocksMatchPc(p) /\ ForkSound(p)
                      /\ FamilySound(p) /\ SleepSound(p)
  BY DEF PcMatchesState, LocksMatchPc, ForkSound, FamilySound, SleepSound
<1>4. QED
  BY <1>1, <1>2, <1>3 DEF WaitInv

\* The zombie that wait() finds first has left its stack: the scan has had
\* its lock.
LEMMA FirstZombieOff ==
    ASSUME NEW p, NEW q \in Proc, First(q, Zombies(p)), ScanLocksFree(p)
    PROVE  parent[q] = p /\ state[q] = "ZOMBIE" /\ lock[q] = None
BY DEF First, Zombies, Children, ScanLocksFree

LEMMA WaitInvStep == WaitInv /\ [Next]_vars => WaitInv'
<1> SUFFICES ASSUME WaitInv, [Next]_vars
             PROVE  WaitInv'
  OBVIOUS
<1> USE NoneAssumption, NPROCAssumption
<1>n. None \notin Proc /\ initproc \in Proc
  BY DEF Proc, initproc
<1> USE <1>n DEF WaitInv, WaitTypeOK, States, Pcs, InitLives, PcMatchesState, LocksMatchPc, ForkSound,
        FamilySound, SleepSound
<1>1. ASSUME NEW p \in Proc, NEW q \in Proc, Fork(p, q)
      PROVE  WaitInv'
  BY <1>1 DEF Fork, At, Goto
<1>2. ASSUME NEW p \in Proc, ForkLink(p)
      PROVE  WaitInv'
  BY <1>2 DEF ForkLink, At, Goto
<1>3. ASSUME NEW p \in Proc, ForkReady(p)
      PROVE  WaitInv'
  BY <1>3 DEF ForkReady, At, Goto
<1>4. ASSUME NEW p \in Proc, Exit(p)
      PROVE  WaitInv'
  BY <1>4 DEF Exit, At, Goto
<1>5. ASSUME NEW p \in Proc, Reparent(p)
      PROVE  WaitInv'
  BY <1>5 DEF Reparent, At, Goto, First, Children, wakeup
<1>6. ASSUME NEW p \in Proc, ExitWake(p)
      PROVE  WaitInv'
  BY <1>6 DEF ExitWake, At, Goto, Children, wakeup
<1>7. ASSUME NEW p \in Proc, ExitZombie(p)
      PROVE  WaitInv'
  BY <1>7 DEF ExitZombie, At, Goto
<1>8. ASSUME NEW p \in Proc, Switched(p)
      PROVE  WaitInv'
  BY <1>8 DEF Switched, Goto
<1>9. ASSUME NEW p \in Proc, Wait(p)
      PROVE  WaitInv'
  BY <1>9 DEF Wait, At, Goto
<1>10. ASSUME NEW p \in Proc, NEW q \in Proc, At(p, "wait_scan"), parent[q] = p,
              state[q] = "ZOMBIE", lock[q] = None, freeproc(q), WaitReturn(p),
              UNCHANGED <<lock, child>>
       PROVE  WaitInv'
  BY <1>10 DEF At, Goto, freeproc, WaitReturn
<1>11. ASSUME NEW p \in Proc, At(p, "wait_scan"), WaitReturn(p),
              UNCHANGED <<state, parent, killed, lock, child>>
       PROVE  WaitInv'
  BY <1>11 DEF At, Goto, WaitReturn
<1>12. ASSUME NEW p \in Proc, WaitReap(p) \/ WaitFault(p) \/ WaitFail(p)
       PROVE  WaitInv'
  <2>1. ASSUME NEW q \in Proc, First(q, Zombies(p)), ScanLocksFree(p),
               At(p, "wait_scan"), freeproc(q), WaitReturn(p),
               UNCHANGED <<lock, child>>
        PROVE  WaitInv'
    BY <1>10, <2>1, FirstZombieOff
  <2>2. CASE WaitReap(p)
    BY <2>1, <2>2 DEF WaitReap
  <2>3. CASE WaitFault(p)
    BY <1>11, <2>1, <2>3 DEF WaitFault
  <2>4. CASE WaitFail(p)
    BY <1>11, <2>4 DEF WaitFail
  <2>5. QED
    BY <1>12, <2>2, <2>3, <2>4
<1>13. ASSUME NEW p \in Proc, WaitNone(p)
       PROVE  WaitInv'
  BY <1>13 DEF WaitNone, At, Goto, Zombies, Children
<1>14. ASSUME NEW p \in Proc, SleepAcquire(p)
       PROVE  WaitInv'
  BY <1>14 DEF SleepAcquire, At, Goto
<1>15. ASSUME NEW p \in Proc, SleepRelease(p)
       PROVE  WaitInv'
  BY <1>15 DEF SleepRelease, At, Goto
<1>16. ASSUME NEW p \in Proc, SleepReturn(p)
       PROVE  WaitInv'
  BY <1>16 DEF SleepReturn, At, Goto
<1>17. ASSUME NEW p \in Proc, NEW q \in Proc, Kill(p, q)
       PROVE  WaitInv'
  BY <1>17 DEF Kill, At
<1>18. CASE UNCHANGED vars
  BY <1>18 DEF vars
<1>19. QED
  BY <1>1, <1>2, <1>3, <1>4, <1>5, <1>6, <1>7, <1>8, <1>9, <1>12, <1>13, <1>14,
     <1>15, <1>16, <1>17, <1>18 DEF Next, Continue

-----------------------------------------------------------------------------
\* The invariant that the theorems below rest on.
THEOREM WaitInvariant == SafetySpec => []WaitInv
BY InitWaitInv, WaitInvStep, PTL DEF SafetySpec

\* fork, exit, wait and kill keep every field in its range.
THEOREM WaitTypeCorrect == SafetySpec => []WaitTypeOK
<1>1. WaitInv => WaitTypeOK
  BY DEF WaitInv
<1>2. QED
  BY <1>1, WaitInvariant, PTL

\* Nobody sleeps in wait() with a zombie child: no wakeup is lost.
THEOREM WakeupNotLost == SafetySpec => []NoLostWakeup
<1>1. WaitInv => NoLostWakeup
  BY DEF WaitInv, SleepSound, NoLostWakeup, Asleep, Zombies, Children
<1>2. QED
  BY <1>1, WaitInvariant, PTL

\* Nobody sleeps in wait() without a child.
THEOREM SleepersHaveChildren == SafetySpec => []SleeperHasChild
<1>1. WaitInv => SleeperHasChild
  BY DEF WaitInv, SleepSound, SleeperHasChild, Asleep, Children
<1>2. QED
  BY <1>1, WaitInvariant, PTL

\* A parent is alive, and every zombie has one.
THEOREM ParentsLive == SafetySpec => []ParentLive
<1>1. WaitInv => ParentLive
  BY DEF WaitInv, FamilySound, PcMatchesState, InitLives, ParentLive, initproc
<1>2. QED
  BY <1>1, WaitInvariant, PTL

\* A slot that is free has nobody on its stack, nobody at its lock and
\* nobody who still means it.
THEOREM ReapsSafe == SafetySpec => []ReapSafe
<1>1. WaitInv => ReapSafe
  <2> SUFFICES ASSUME WaitInv, NEW q \in Proc, state[q] = "UNUSED"
               PROVE  pc[q] = "free" /\ lock[q] = None /\ \A p \in Proc : child[p] # q
    BY DEF ReapSafe
  <2>1. pc[q] = "free" /\ lock[q] = None
    BY DEF WaitInv, PcMatchesState, LocksMatchPc
  <2>2. \A p \in Proc : child[p] # q
    BY NoneAssumption DEF WaitInv, ForkSound, Proc
  <2>3. QED
    BY <2>1, <2>2
<1>2. QED
  BY <1>1, WaitInvariant, PTL

-----------------------------------------------------------------------------
(* The family tree                                                         *)

\* No process is its own ancestor and no group of them has lost the way to
\* init: every set of slots without init has a member whose parent is
\* outside.  Such a group would be collected by nobody.
NoLoop ==
    \A S \in SUBSET Proc : S # {} /\ initproc \notin S => \E q \in S : parent[q] \notin S

\* Everyone who has started, zombies included, descends from init.
DescendFromInit ==
    /\ \A q \in Proc : state[q] \in {"RUNNABLE", "SLEEPING", "ZOMBIE"} =>
           q = initproc \/ parent[q] \in Proc
    /\ NoLoop

\* kfork() hangs a leaf into the tree, reparent() moves a child below init
\* and freeproc() takes a leaf away; none of them closes a loop.
LEMMA NoLoopStep == WaitInv /\ NoLoop /\ [Next]_vars => NoLoop'
<1> SUFFICES ASSUME WaitInv, NoLoop, [Next]_vars
             PROVE  NoLoop'
  OBVIOUS
<1>n. None \notin Proc /\ initproc \in Proc /\ parent \in [Proc -> Proc \cup {None}]
  BY NPROCAssumption, NoneAssumption DEF Proc, initproc, WaitInv, WaitTypeOK
<1>1. ASSUME UNCHANGED parent
      PROVE  NoLoop'
  BY <1>1 DEF NoLoop
<1>2. ASSUME NEW q \in Proc, NEW r \in {None, initproc}, parent' = [parent EXCEPT ![q] = r]
      PROVE  NoLoop'
  <2> SUFFICES ASSUME NEW S \in SUBSET Proc, S # {}, initproc \notin S
               PROVE  \E x \in S : parent'[x] \notin S
    BY DEF NoLoop, initproc
  <2>1. PICK x \in S : parent[x] \notin S
    BY DEF NoLoop
  <2>2. QED
    BY <1>2, <1>n, <2>1
<1>3. ASSUME NEW p \in Proc, ForkLink(p)
      PROVE  NoLoop'
  <2> DEFINE q == child[p]
  <2>1. /\ q \in Proc /\ p # q /\ parent' = [parent EXCEPT ![q] = p]
        /\ \A x \in Proc : parent[x] # q
    BY <1>3, <1>n DEF ForkLink, At, WaitInv, WaitTypeOK, ForkSound, FamilySound
  <2> HIDE DEF q
  <2> SUFFICES ASSUME NEW S \in SUBSET Proc, S # {}, initproc \notin S
               PROVE  \E x \in S : parent'[x] \notin S
    BY DEF NoLoop, initproc
  <2>2. CASE S \subseteq {q}
    BY <1>n, <2>1, <2>2
  <2>3. CASE ~(S \subseteq {q})
    <3>1. PICK x \in S \ {q} : parent[x] \notin S \ {q}
      BY <2>3 DEF NoLoop
    <3>2. QED
      BY <1>n, <2>1, <3>1
  <2>4. QED
    BY <2>2, <2>3
<1>4. ASSUME NEW p \in Proc, Reparent(p)
      PROVE  NoLoop'
  BY <1>2, <1>4 DEF Reparent
<1>5. ASSUME NEW p \in Proc, WaitReap(p) \/ WaitFault(p) \/ WaitFail(p)
      PROVE  NoLoop'
  BY <1>1, <1>2, <1>5 DEF WaitReap, WaitFault, WaitFail, freeproc
<1>6. CASE UNCHANGED vars
  BY <1>1, <1>6 DEF vars
<1>7. ASSUME NEW p \in Proc,
             \/ \E q \in Proc : Fork(p, q) \/ Kill(p, q)
             \/ ForkReady(p) \/ Exit(p) \/ ExitWake(p) \/ ExitZombie(p) \/ Switched(p)
             \/ Wait(p) \/ WaitNone(p) \/ SleepAcquire(p) \/ SleepRelease(p) \/ SleepReturn(p)
      PROVE  NoLoop'
  <2>1. UNCHANGED parent
    BY <1>7 DEF Fork, Kill, ForkReady, Exit, ExitWake, ExitZombie, Switched, Wait, WaitNone,
                SleepAcquire, SleepRelease, SleepReturn
  <2>2. QED
    BY <1>1, <2>1
<1>8. QED
  BY <1>3, <1>4, <1>5, <1>6, <1>7 DEF Next, Continue

\* The processes are one tree under init, whoever forks, exits, is handed
\* over by reparent() and is freed: nobody becomes his own ancestor, and
\* nobody who has started is cut off from those who would collect him.
THEOREM OneFamily == SafetySpec => []DescendFromInit
<1>1. Init => NoLoop
  <2>1. ASSUME Init, NEW S \in SUBSET Proc, NEW q \in S
        PROVE  parent[q] \notin S
    BY <2>1, NoneAssumption DEF Init, Proc
  <2>2. QED
    BY <2>1 DEF NoLoop
<1>2. WaitInv /\ NoLoop => DescendFromInit
  BY DEF WaitInv, WaitTypeOK, FamilySound, DescendFromInit
<1>3. QED
  BY <1>1, <1>2, NoLoopStep, WaitInvariant, PTL DEF SafetySpec

-----------------------------------------------------------------------------
(***************************************************************************)
(* The family tree                                                         *)
(***************************************************************************)

\* A step that leaves the links alone and starts, ends or orphans nobody.
LEMMA FamilyUnchanged ==
    ASSUME WaitInv, UNCHANGED parent, \A q \in Proc : lifeOf'[q] = lifeOf[q],
           \A q \in Proc : pc[q] = "exit_reparent" \/ pc'[q] = "exit_reparent" =>
                               pc'[q] = pc[q] \/ \A r \in Proc : parent[r] # q
    PROVE  lifeOf' = lifeOf /\ fatherOf' = fatherOf
<1>1. lifeOf' = lifeOf
  BY DEF lifeOf
<1>2. \A q \in Proc : parent[q] \in Proc \cup {None}
  BY DEF WaitInv, WaitTypeOK
<1>3. \A q \in Proc : parent[q] # None =>
          (pc'[parent[q]] = "exit_reparent" <=> pc[parent[q]] = "exit_reparent")
  BY <1>2
<1>4. QED
  BY <1>1, <1>3 DEF fatherOf

LEMMA FamilyStep == WaitInv /\ [Next]_vars => [Family!Next]_(Family!familyVars)
<1> SUFFICES ASSUME WaitInv, [Next]_vars
             PROVE  [Family!Next]_(Family!familyVars)
  OBVIOUS
<1> USE NoneAssumption, NPROCAssumption
<1>n. None \notin Proc /\ initproc \in Proc
  BY DEF Proc, initproc
<1>t. /\ state \in [Proc -> States] /\ pc \in [Proc -> Pcs]
      /\ parent \in [Proc -> Proc \cup {None}] /\ child \in [Proc -> Proc \cup {None}]
  BY DEF WaitInv, WaitTypeOK
<1>s. SUFFICES \/ lifeOf' = lifeOf /\ fatherOf' = fatherOf /\ waitsOf' = waitsOf
               \/ Family!Next
  BY DEF Family!familyVars
<1>1. ASSUME NEW p \in Proc, NEW q \in Proc, Fork(p, q) \/ Kill(p, q)
      PROVE  lifeOf' = lifeOf /\ fatherOf' = fatherOf /\ waitsOf' = waitsOf
  <2>1. \A r \in Proc : lifeOf'[r] = lifeOf[r]
    BY <1>1, <1>t DEF Fork, Kill, lifeOf
  <2>2. /\ UNCHANGED parent
        /\ \A r \in Proc : pc[r] # "exit_reparent" => pc'[r] # "exit_reparent"
        /\ \A r \in Proc : pc[r] = "exit_reparent" => pc'[r] = pc[r]
    BY <1>1, <1>t DEF Fork, Kill, At, Goto
  <2>3. waitsOf' = waitsOf
    BY <1>1, <1>t DEF Fork, Kill, At, Goto, waitsOf, Waiting
  <2>4. QED
    BY <2>1, <2>2, <2>3, FamilyUnchanged
<1>2. ASSUME NEW p \in Proc, ForkLink(p)
      PROVE  lifeOf' = lifeOf /\ fatherOf' = fatherOf /\ waitsOf' = waitsOf
  <2>1. child[p] \in Proc /\ lifeOf[child[p]] = "none"
    BY <1>2, <1>t DEF ForkLink, At, WaitInv, WaitTypeOK, ForkSound, lifeOf
  <2>2. lifeOf' = lifeOf
    BY <1>2 DEF ForkLink, lifeOf
  <2>3. waitsOf' = waitsOf
    BY <1>2, <1>t DEF ForkLink, At, Goto, waitsOf, Waiting
  <2>4. fatherOf' = fatherOf
    BY <1>2, <1>t, <2>1, <2>2 DEF ForkLink, At, Goto, fatherOf
  <2>5. QED
    BY <2>2, <2>3, <2>4
<1>3. ASSUME NEW p \in Proc, ForkReady(p)
      PROVE  Family!Fork(p, child[p]) /\ child[p] \in Proc
  <2>1. /\ child[p] \in Proc /\ state[child[p]] = "USED" /\ parent[child[p]] = p
        /\ child[p] # p /\ pc[child[p]] = "free"
    BY <1>3, <1>t DEF ForkReady, At, WaitInv, WaitTypeOK, ForkSound, PcMatchesState
  <2>2. /\ lifeOf[p] = "alive" /\ lifeOf[child[p]] = "none"
        /\ lifeOf' = [lifeOf EXCEPT ![child[p]] = "alive"]
    BY <1>3, <1>t, <2>1 DEF ForkReady, At, lifeOf
  <2>3. \A q \in Proc : pc'[q] = "exit_reparent" <=> pc[q] = "exit_reparent"
    BY <1>3, <1>t, <2>1 DEF ForkReady, At
  <2>4. fatherOf' = [fatherOf EXCEPT ![child[p]] = p]
    <3>1. UNCHANGED parent /\ \A q \in Proc : q # child[p] => lifeOf'[q] = lifeOf[q]
      BY <1>3, <2>2 DEF ForkReady, lifeOf
    <3>2. pc[p] # "exit_reparent" /\ p # None /\ lifeOf'[child[p]] = "alive"
      BY <1>3, <2>1, <2>2, <1>n DEF ForkReady, At, lifeOf
    <3>3. \A q \in Proc : q # child[p] => fatherOf'[q] = fatherOf[q]
      BY <1>t, <2>3, <3>1 DEF fatherOf
    <3>4. fatherOf'[child[p]] = p
      BY <2>1, <2>3, <3>1, <3>2 DEF fatherOf
    <3>5. QED
      BY <3>3, <3>4 DEF fatherOf
  <2>5. waitsOf' = waitsOf /\ p \notin waitsOf
    BY <1>3, <1>t, <2>1 DEF ForkReady, At, waitsOf, Waiting
  <2>6. QED
    BY <2>1, <2>2, <2>4, <2>5 DEF Family!Fork, Family!Active
<1>4. ASSUME NEW p \in Proc, Exit(p)
      PROVE  Family!Orphan(p)
  <2>1. lifeOf' = lifeOf /\ lifeOf[p] = "alive" /\ p # initproc
    BY <1>4, <1>t DEF Exit, At, lifeOf
  <2>2. \A q \in Proc : pc'[q] = IF q = p THEN "exit_reparent" ELSE pc[q]
    BY <1>4, <1>t DEF Exit, Goto
  <2>3. fatherOf' = [q \in Proc |-> IF fatherOf[q] = p THEN initproc ELSE fatherOf[q]]
    BY <1>4, <1>t, <1>n, <2>1, <2>2 DEF Exit, At, fatherOf
  <2>4. waitsOf' = waitsOf /\ p \notin waitsOf
    BY <1>4, <1>t DEF Exit, At, Goto, waitsOf, Waiting
  <2>5. QED
    BY <2>1, <2>3, <2>4 DEF Family!Orphan, Family!Active
<1>5. ASSUME NEW p \in Proc, Reparent(p)
      PROVE  lifeOf' = lifeOf /\ fatherOf' = fatherOf /\ waitsOf' = waitsOf
  <2>1. lifeOf' = lifeOf
    BY <1>5, <1>t DEF Reparent, wakeup, lifeOf
  <2>2. PICK q \in Proc : parent[q] = p /\ parent' = [parent EXCEPT ![q] = initproc]
    BY <1>5 DEF Reparent, First, Children
  <2>3. pc' = pc /\ pc[p] = "exit_reparent" /\ pc[initproc] # "exit_reparent"
    BY <1>5 DEF Reparent, At, WaitInv, InitLives
  <2>4. fatherOf' = fatherOf
    BY <1>t, <1>n, <2>1, <2>2, <2>3 DEF fatherOf
  <2>5. QED
    BY <2>1, <2>3, <2>4 DEF waitsOf, Waiting
<1>6. ASSUME NEW p \in Proc, ExitWake(p)
      PROVE  lifeOf' = lifeOf /\ fatherOf' = fatherOf /\ waitsOf' = waitsOf
  <2>1. \A r \in Proc : lifeOf'[r] = lifeOf[r]
    BY <1>6, <1>t DEF ExitWake, wakeup, lifeOf
  <2>2. UNCHANGED parent /\ \A r \in Proc : parent[r] # p
    BY <1>6 DEF ExitWake, Children
  <2>3. \A r \in Proc : r # p => pc'[r] = pc[r]
    BY <1>6, <1>t DEF ExitWake, Goto
  <2>4. waitsOf' = waitsOf
    BY <1>6, <1>t DEF ExitWake, At, Goto, waitsOf, Waiting
  <2>5. QED
    BY <2>1, <2>2, <2>3, <2>4, FamilyUnchanged
<1>7. ASSUME NEW p \in Proc, ExitZombie(p)
      PROVE  Family!Die(p)
  <2>1. lifeOf[p] = "alive" /\ lifeOf' = [lifeOf EXCEPT ![p] = "zombie"]
    BY <1>7, <1>t DEF ExitZombie, At, lifeOf
  <2>2. p # initproc /\ \A q \in Proc : parent[q] # p
    BY <1>7, <1>n DEF ExitZombie, At, WaitInv, InitLives, FamilySound
  <2>3. \A q \in Proc : fatherOf[q] # p
    BY <1>n, <2>2 DEF fatherOf
  <2>4. fatherOf' = fatherOf
    BY <1>7, <1>t, <2>1, <2>2 DEF ExitZombie, At, Goto, fatherOf, lifeOf
  <2>5. waitsOf' = waitsOf /\ p \notin waitsOf
    BY <1>7, <1>t DEF ExitZombie, At, Goto, waitsOf, Waiting
  <2>6. QED
    BY <2>1, <2>2, <2>3, <2>4, <2>5 DEF Family!Die, Family!Active
<1>8. ASSUME NEW p \in Proc, NEW q \in Proc, At(p, "wait_scan"), parent[q] = p,
             state[q] = "ZOMBIE", freeproc(q), WaitReturn(p)
      PROVE  Family!Collect(p, q)
  <2>1. /\ lifeOf[p] = "alive" /\ lifeOf[q] = "zombie" /\ p # q
        /\ lifeOf' = [lifeOf EXCEPT ![q] = "none"]
    BY <1>8, <1>t DEF At, freeproc, lifeOf
  <2>2. \A r \in Proc : pc'[r] = "exit_reparent" <=> pc[r] = "exit_reparent"
    BY <1>8, <1>t DEF WaitReturn, Goto, At
  <2>3. fatherOf[q] = p
    BY <1>8, <1>n, <2>1 DEF fatherOf, At
  <2>4. fatherOf' = [fatherOf EXCEPT ![q] = None]
    <3>1. \A r \in Proc : r # q => parent'[r] = parent[r] /\ lifeOf'[r] = lifeOf[r]
      BY <1>8, <1>t, <2>1 DEF freeproc, lifeOf
    <3>2. \A r \in Proc : r # q => fatherOf'[r] = fatherOf[r]
      BY <1>t, <2>2, <3>1 DEF fatherOf
    <3>3. lifeOf'[q] = "none"
      BY <2>1 DEF lifeOf
    <3>4. fatherOf'[q] = None
      BY <3>3 DEF fatherOf
    <3>5. QED
      BY <3>2, <3>4 DEF fatherOf
  <2>5. p \in waitsOf /\ waitsOf' = waitsOf \ {p}
    BY <1>8, <1>t DEF At, WaitReturn, Goto, waitsOf, Waiting
  <2>6. QED
    BY <2>1, <2>3, <2>4, <2>5 DEF Family!Collect
<1>9. ASSUME NEW p \in Proc, UNCHANGED parent,
             \A r \in Proc : lifeOf'[r] = lifeOf[r],
             pc[p] # "exit_reparent", pc'[p] # "exit_reparent",
             \A r \in Proc : r # p => pc'[r] = pc[r]
      PROVE  lifeOf' = lifeOf /\ fatherOf' = fatherOf
  BY <1>9, FamilyUnchanged
<1>10. ASSUME NEW p \in Proc,
              \/ WaitNone(p) \/ SleepAcquire(p) \/ SleepRelease(p) \/ SleepReturn(p)
              \/ Switched(p)
       PROVE  lifeOf' = lifeOf /\ fatherOf' = fatherOf /\ waitsOf' = waitsOf
  <2>1. UNCHANGED parent /\ \A r \in Proc : lifeOf'[r] = lifeOf[r]
    BY <1>10, <1>t DEF WaitNone, SleepAcquire, SleepRelease, SleepReturn, Switched, At, lifeOf
  <2>2. /\ pc[p] # "exit_reparent" /\ pc'[p] # "exit_reparent"
        /\ \A r \in Proc : r # p => pc'[r] = pc[r]
    BY <1>10, <1>t DEF WaitNone, SleepAcquire, SleepRelease, SleepReturn, Switched, At, Goto
  <2>3. waitsOf' = waitsOf
    BY <1>10, <1>t DEF WaitNone, SleepAcquire, SleepRelease, SleepReturn, Switched, At, Goto,
                       waitsOf, Waiting
  <2>4. QED
    BY <1>9, <2>1, <2>2, <2>3
<1>11. ASSUME NEW p \in Proc, Wait(p)
       PROVE  Family!Wait(p)
  <2>1. /\ UNCHANGED parent /\ \A r \in Proc : lifeOf'[r] = lifeOf[r]
        /\ lifeOf[p] = "alive" /\ pc[p] # "exit_reparent" /\ pc'[p] # "exit_reparent"
        /\ \A r \in Proc : r # p => pc'[r] = pc[r]
    BY <1>11, <1>t DEF Wait, At, Goto, lifeOf
  <2>2. p \notin waitsOf /\ waitsOf' = waitsOf \cup {p}
    BY <1>11, <1>t DEF Wait, At, Goto, waitsOf, Waiting
  <2>3. QED
    BY <1>9, <2>1, <2>2 DEF Family!Wait, Family!Active
<1>12. ASSUME NEW p \in Proc, UNCHANGED <<state, parent>>, At(p, "wait_scan"), WaitReturn(p)
       PROVE  Family!GiveUp(p)
  <2>1. \A r \in Proc : lifeOf'[r] = lifeOf[r]
    BY <1>12 DEF lifeOf
  <2>2. /\ pc[p] # "exit_reparent" /\ pc'[p] # "exit_reparent"
        /\ \A r \in Proc : r # p => pc'[r] = pc[r]
    BY <1>12, <1>t DEF At, WaitReturn, Goto
  <2>3. p \in waitsOf /\ waitsOf' = waitsOf \ {p}
    BY <1>12, <1>t DEF At, WaitReturn, Goto, waitsOf, Waiting
  <2>4. QED
    BY <1>9, <1>12, <2>1, <2>2, <2>3 DEF Family!GiveUp
<1>13. ASSUME NEW p \in Proc, WaitReap(p) \/ WaitFault(p) \/ WaitFail(p)
       PROVE  Family!Next
  <2>1. ASSUME NEW q \in Proc, First(q, Zombies(p)), ScanLocksFree(p),
               At(p, "wait_scan"), freeproc(q), WaitReturn(p)
        PROVE  Family!Next
    BY <1>8, <2>1, FirstZombieOff DEF Family!Next
  <2>2. CASE UNCHANGED <<state, parent>> /\ At(p, "wait_scan") /\ WaitReturn(p)
    BY <1>12, <2>2 DEF Family!Next
  <2>3. QED
    BY <1>13, <2>1, <2>2 DEF WaitReap, WaitFault, WaitFail
<1>14. CASE UNCHANGED vars
  BY <1>14 DEF vars, lifeOf, fatherOf, waitsOf, Waiting
<1>15. QED
  BY <1>1, <1>2, <1>3, <1>4, <1>5, <1>6, <1>7, <1>10, <1>11, <1>13, <1>14
     DEF Next, Continue, Family!Next

\* fork(), exit(), wait(), waitx() and kill() together implement the family
\* tree: exit() hands the children over as if at once, and only the parent of
\* the moment frees a zombie.
THEOREM WaitImplementsFamily == SafetySpec => FamilySpec
<1>1. Init => Family!Init
  BY NPROCAssumption, NoneAssumption
     DEF Init, Family!Init, lifeOf, fatherOf, waitsOf, Waiting, Proc, initproc
<1>2. QED
  BY <1>1, WaitInvariant, FamilyStep, PTL DEF SafetySpec, FamilySpec, Family!Spec
=============================================================================
