# Verification of the parallel-scheduling kernel

TLA+ models of the process and scheduling code of this repository: three
variants of an xv6 (RISC-V) kernel's `proc.c`, each with another scheduler,
and the `trap.c`, `sysproc.c` and `syscall.c` they share.  TLC checks the models on small
instances; TLAPS proves nearly every safety property for every number of harts
and processes.

## The system

| component | state | operations | with whom it interacts |
|---|---|---|---|
| process table and hand-over (`*/proc.c`: procinit, allocproc, sched, yield, sleep, wakeup, forkret) | `p->state`, `p->lock`, `c->proc`, saved contexts | claim a slot, make RUNNABLE, dispatch, give up, wake, free | every scheduler and every system call, through `p->lock` and `swtch()` |
| LPT scheduler (`lpt/proc.c`) | a private batch per hart, `p->est_time`, `p->rtime` | collect, sort, run the batch | reads `p->state` and shares `est_time` without a lock |
| work-stealing scheduler (`work stealing/proc.c`) | a ring of processes per hart under `c->lock` | push, pop own back, steal other's front | every path that makes a process RUNNABLE pushes |
| adaptive scheduler (`adaptive/proc.c`) | `p->age_start`, `ticks`, the candidate whose lock is held | scan for the lowest effective priority, run it | `clockintr()` moves `ticks` on hart 0 |
| fork, exit, wait, waitx, kill | `p->parent`, `wait_lock`, `p->killed`, `p->chan` | the system calls, `reparent()`, `freeproc()` | parents sleep on their own slot, children wake them |
| spinlocks | `wait_lock`, `p->lock` of each slot, `tickslock` | the acquire and release sequence of every critical section | interrupts on hart 0 take `tickslock` and then every `p->lock` |
| metrics (`ctime`, `rtime`, `etime`, `nswtch`, results of `waitx`) | counters in the process | start in `allocproc()`, charge on ticks, count in `sched()`, stop in `kexit()` | the timer interrupt of every hart, the parent that calls `waitx()` |
| user memory size (`sys_sbrk`, `growproc`, `fetchaddr`) | `p->sz` | grow eagerly or lazily, shrink, bounds test | `uvmalloc()`, `uvmdealloc()`, which are not in the repository |
| traps, `sys_pause`, `ticks` (`usertrap`, `clockintr`, `sysproc.c`) | the tick counter, `p->killed` as the process itself sees it | enter and leave the kernel, sleep for n ticks, exit when killed | `clockintr()` wakes what sleeps on `ticks`; `kkill()` wakes anything |
| argument fetching, system call table, trap vectors, page tables, procdump, user programs, build | - | - | not modelled: lookup tables, machine registers, I/O, code that is not in the repository |

What is hard in it: the schedulers of all harts run at once, each takes a
process from the same table, and a process that gives up a hart goes on executing
on its kernel stack until the switch is complete.  Parents and children meet
through `wait_lock`, `sleep()` and `wakeup()` without ever missing each other.
Two schedulers decide from data they read without a lock, or that grew old in
a queue.  Interrupt handlers take the same locks as the code they interrupt.
A process is killed at any point of a call, `ticks` wraps during a pause, and
addresses, priorities and ring indices are computed modulo something.

What makes each part correct:

- hand-over: no process on two harts; nobody runs, wakes or frees a process
  that is still on its stack.
- LPT: a stale list may cost time but never runs a wrong process, never
  overlooks one that waits, and starves nobody; the list is in the order promised
  unless another hart changed a key while it was sorted.
- work stealing: a RUNNABLE process can be found by some hart; an old or
  duplicate entry does no harm; nobody starves.
- adaptive: nobody who waited throughout the scan was more urgent than the
  process chosen; who has waited longer goes first; the wait is measured from the
  moment a process becomes RUNNABLE; the two locks that the scan holds close no cycle.
- fork, exit, wait: no lost wakeup, no reuse of a slot in use, every zombie
  has a live parent, a waiting parent gets its answer, a zombie is collected once.
- metrics: the numbers `waitx()` reports belong together and to one life of the slot.
- pause and kill: a pause ends neither early nor late, also across the wrap; a
  killed process exits, and runs user code at most once more.
- user memory: no size beyond the trapframe, no address accepted outside it.
- locks: one order, no deadlock.

`PROJECT.json` lists the hazards of the code with the line where each bites.

## Modules

    SchedAbs        what any scheduler promises (no code)
      ^ implements (AbsSpec)
    ProcCore        process table, locks, hand-over, open policy
      ^ implement (CoreSpec)
    LptSched  StealSched  AdaptiveSched     the three policies
               |           `- Aging         the priority arithmetic, at its width
               `- Ring, Victim              the ring buffer, the choice of a victim
    Metrics         ctime, rtime, etime, nswtch under any policy (CoreSpec too)

    FamilyAbs       what fork, exit and wait promise (no code)
      ^ implements (FamilySpec)
    WaitExit        parents and children, finer than ProcCore's Reap and Kill

    SysProc         traps, pause, kill, sbrk, the clock
      `- UserMem    arithmetic on addresses
    LockOrder       the acquire/release sequences alone

    ProcCoreProofs  LptSchedProofs  StealSchedProofs  AdaptiveSchedProofs
    MetricsProofs  WaitExitProofs  SysProcProofs  LockOrderProofs      the theorems

`MC*.tla` extend a module for TLC; most add nothing but symmetry.  Operators
marked "Slip" are wrong variants of the definition that follows them; each is
a mistake that some property is there to catch, and none is part of a model.

**ProcCore** is the code that the three variants have in common.  `state` is
`p->state`, `lock` the hart that holds `p->lock`, `cproc` is `c->proc`.  `pc`
says whether a hart is in `scheduler()` ("loop"), has switched to a process that
still holds its lock ("resume"), is in the process ("proc"), or is in
`sched()` with the state changed and the lock held ("switch").  A critical section
that takes one `p->lock`, changes that slot and releases it is one action
(`Alloc`, `MakeRunnable`, `Kill`, `Reap`, `WakeHit`).  A lock that stays held
over other steps is in `lock`.  `wakeup()` visits one slot per step (`wslot`).
`kfork()` is two sections with a window in between (`child`).  The policy
is open: inside its loop a hart may take and drop any lock and run any RUNNABLE
process whose lock it holds.  Sleepers wait on anything, and a parent reaps any
zombie; that is refined by WaitExit.  `Alloc` claims any UNUSED slot, because a
slot the scan has passed may have become free since.  `/init` never exits.

**LptSched, StealSched, AdaptiveSched** extend ProcCore.  Each action of theirs
is a ProcCore action with the policy's variables conjoined, or a step of
`scheduler()` that leaves ProcCore's variables alone; `step` is the position
in `scheduler()`.

- LptSched reads `p->state`, writes `p->est_time` and compares two entries in
  separate steps, because no lock is held.  STEP 3 of the code copies the
  sorted list in order, so the list is one variable.  Interrupts are taken at
  the top of the loop and, once a process has been run, between entries: the
  `release()` after `swtch()` restores the process's interrupt flag.  `Boots` is
  the set of machines that may be booted; a hart that is not started is "off".
  `disturbed` records that another hart changed a key of the list being sorted.
- StealSched represents a ring by the sequence it stands for; **Ring** has the
  ring itself, with `front`, `rear` and `queue[]`, and what the four operations
  do to it.  A ring of `MAX_TASKS` slots holds one less.  A preempted process is
  pushed twice, by `yield()` and by `scheduler()`.  The victim is any other
  element of `cpus[]`; `Absent` are the elements whose hart was never started
  (`NCPU` against `CPUS := 3` in the Makefile).  **Victim** is the generator
  behind `select_victim()`, reduced to the remainder modulo `NCPU` it uses.
- AdaptiveSched has `clockintr()` on hart 0 and the scan with the candidate's
  lock held.  `p->priority` never differs from `PRIORITY_DEFAULT`, so it is
  that constant.  A tick and the `yield()` after it are two steps, as other
  harts run in between; `trap` says that hart 0 is between them.  History says who has
  waited since the scan began (`waiting`), since which tick a process has been
  RUNNABLE (`ready`, against the code's own `age_start`), and whether `kkill()` or
  `kfork()` made it so with an older `age_start` (`credit`).  **Aging** computes
  the effective priority as the code does: an unsigned product modulo 2^32,
  converted to `int`, subtracted, clamped at `PRIORITY_MIN`.  The subtraction of
  two `int`s can overflow, which C leaves undefined; the model wraps it, as the
  32-bit subtraction of RISC-V does.

**Metrics** extends ProcCore, with its open policy.  The timer interrupt is three
steps, `clockintr()`, `update_process_times()` and `yield()`, with the
locks free in between; `kexit()` is two, since it reads `ticks` at its start and may be
preempted or sleep before it is a zombie.  In the code a hart switches with one
lock held, and the open policy of ProcCore is cut down to that (`HoldsOnly`).

**WaitExit** gives a process a program counter in `kfork`, `kexit`, `kwait` and
`waitx`, with `parent`, `killed`, `wait_lock`, and `lock` where `p->lock` is held
over `sched()`.  RUNNING is counted as RUNNABLE.  The scan over the children is
one step, since `wait_lock` guards parent links and the step to ZOMBIE; it
needs the locks of the children it looks at.  `copyout()` may fail
(`WaitFault`).  Sleeping on other channels counts as executing elsewhere.
`kkill()` accepts pid 0, the pid of UNUSED slots.  FamilyAbs sees of a process only
its life, its parent and whether it is in a wait; reparenting there is atomic,
as it is to everybody who takes `wait_lock`.

**SysProc** is a process between user mode and the kernel: `usertrap()` with its
two tests of `killed`, the system calls of `sysproc.c` that are not fork or wait, and
`clockintr()`.  `sys_pause()` is split where another process or the clock can get
in: at the test under `tickslock`, between `killed()` and `sleep()`, between
SLEEPING and the second `acquire(&tickslock)`.  `ticks` wraps at `TickMod`.
`elapsed` counts the true ticks of a pause, `returns` the entries into user mode
after a kill; both are history.  **UserMem** has the sums on addresses
with the one wrap they can make, and `uvmalloc()`'s failure as a choice.

**LockOrder** turns every critical section into its list of acquires and
releases and lets each hart run one after another.  A loop over `proc[]` is one
entry of the list: `visit` takes and drops the lock of each slot in turn, as
`wakeup()` does, `scan` may keep the lock of the best slot so far and drop it for
a better one, as the adaptive `scheduler()` does.  The locks are numbered as the code
orders them: `wait_lock`, `tickslock`, then the slots from low to high.  Sections
start and end with no lock held.  Locks that are always taken last and lead to no other (`pid_lock`, queue locks, the allocator's) cannot be in
a cycle and are left out.

## Runs

All bounds are constants in the `.cfg` files.

| run | instance | shows |
|---|---|---|
| core | MCMetrics: 2 harts, 3 slots, the second one's counters, 2 ticks, 3 switches | `Handoff`, `RunningHasCpu`, `ForkOwnsChild` and AbsSpec under any policy; `SwitchesCoverRuntime`, `TurnaroundInLife` |
| lpt | 1 hart with 3 slots and 2 harts with 2, run time up to 1 | `IdleJustified`: wfi only when nobody waited all the time; `WaitingIsListed`; `SortsDescending`; CoreSpec; `RunnableRuns`: no starvation |
| steal | 2 harts, 2 slots, rings of 3, one steal attempt | `RunnableReachable`: every RUNNABLE process is queued, in a scheduler's hand, or its push was dropped; CoreSpec.  Evaluated before: `RingIsQueue`, `EveryVictimTried` |
| adaptive | 2 harts, 3 slots, 1 tick | `MostUrgentChosen`, `OldestFirst`, `IdleJustified`, `SchedLocks`, `NoLockCycle`, `WaitMeasured`; CoreSpec |
| wait_exit | 4 slots | `NoLostWakeup`, `SleeperHasChild`, `ParentLive`, `ReapSafe`; FamilySpec: WaitExit implements FamilyAbs; `WaitReturns` under fairness |
| lock_order | 3 harts, 2 slots | `LocksPaired`, `WaitLockFirst`, `OnlyTicksDeadlock` |
| sysproc | 2 processes, `ticks` modulo 6, pauses of -1, 1 and 3, increments -4, -1, 0 and 3, addresses modulo 16 | `PauseNotEarly`, `NoOversleep`, `KilledStops`, `SizeSound`; `KilledExits` under fairness |

Why the bounds are enough: the hand-over and the races on one process involve
two harts, so two harts and two or three slots (the boot process, a child, a third
to be overtaken) reach all of them.  Three counted switches let a process be
charged, preempted, exit, and its slot start a second life.  LPT needs three
processes on one hart for a list that takes more than one exchange, and two harts
for a key that changes under the sort.  Four slots let WaitExit build init, a
parent, its child and a sibling or grandchild, so that orphans and zombies
reach init through `reparent()` while init waits.  Rings of three slots hold two entries
and overflow at once, and `MAX_TASKS >= NPROC` as in the code (64 and 64).  One
steal attempt with two harts is the whole set of victims.  Priorities are
scaled to default 2, one per tick; one tick separates a process that was
stamped before it from one that was stamped after it.  In aging_overflow a tick adds 6
and the largest `int` is 7, so that the second tick without a new stamp overflows; the
code takes 214,748,365 ticks for it, eight months, which only a process that sleeps
can let pass.  A lock cycle of the
sections here needs two harts; three allow one longer, and two slots tell the order of
slots; the theorems about LockOrder hold for any number of both.  Six ticks let a pause of
three straddle the wrap at every offset; -1 is the negative argument that counts
as 0.  `Lag` bounds by how much a pause may be overdue before it is looked at
again; without it `ticks` could go round unseen, which needs 2^32 ticks in the code.
Sixteen addresses under a trapframe at 9 have room for sizes that meet it, shrinks
that go below 0 and words that end past the size.  Deadlock checking is on
in every run but those of LockOrder, where the system really can deadlock.

Runs that end in a counterexample, each against what a comment of the code says:

| run | what the code does |
|---|---|
| lock_deadlock | `allocproc()` takes `tickslock` under `p->lock`; `clockintr()` takes every `p->lock` under `tickslock`.  Two harts spin for ever.  `OnlyTicksDeadlock` says this is the only way. |
| steal_lost | a push on a full ring is dropped, duplicates fill rings, and the process is RUNNABLE but nowhere |
| steal_starve | a yielding process is pushed where the hart pops next, and runs again while another waits for ever |
| aging_overflow | `kkill()` makes a sleeper RUNNABLE with its old `age_start`.  If the product of that wait no longer fits an `int`, the boost is negative, no scan chooses the process, nothing stamps it again, and the hart goes into wfi: the process is never run, and so never dies |
| kill_free_slot | `kkill(0)` matches an UNUSED slot; `allocproc()` does not clear `killed`, so the next process in the slot exits at its first trap |

Other places where code and comments differ, seen while modelling and not run
separately:

- The adaptive scan holds two `p->lock`s at a time (`adaptive/proc.c:540` against
  `:507-510` and `:559`).  `NoLockCycle` and `LocksAscend` show it does no harm by itself.
- `adaptive/proc.c:492` promises a priority clamped to `[PRIORITY_MIN, PRIORITY_MAX]`;
  only the lower end is.  It does not matter until the product leaves `int`; then the
  process is first the most urgent, as the subtraction overflows, and after that
  cannot be chosen at all (`AgingInverted`, and the run aging_overflow).
- `kkill()` and `kfork()` make a process RUNNABLE without setting `age_start`
  (against `adaptive/proc.h:128-131`), so that it overtakes processes that have waited
  longer.  `WaitMeasured` shows that these are the only two ways to be credited with
  more than the time waited, and that nobody is credited with less; `OldestFirst`
  excepts a process so credited.
- `waitx()` ignores the result of `copyout()` and frees the child (`adaptive/proc.c:899-908`),
  where `kwait()` returns -1 and keeps it (`:457-461`), against "Functions exactly like
  wait()" (`:874`).  `WaitFault` is that step, in both forms.
- `user.h` declares `waitx()` with two pointers, `test_workload.c` and the kernel use three.
- The `wait_time` of `waitx()` can be negative: `rtime` counts the ticks of every hart
  and goes on after `etime` is taken.
- `sbrk()` with a decrement beyond the size succeeds and changes nothing (`SbrkExact`).
- A kill between `killed(p)` and `sleep()` in `kwait()` leaves the process asleep until a
  child exits.

## Fairness

`LptSpec` and `StealSpec` assume strong fairness, per hart, of the scheduler
loop, of finishing what was begun below it (return from `swtch()`, release,
the `wakeup()` loop), and of preemption.  A hart never stops executing; a
spinning `acquire()` that finds its lock free again and again gets it (the
code's spinlocks rely on the same of the hardware); a timer
interrupt stays pending until it is taken.  System calls, sleeping and exiting carry no
fairness: user programs need not make them.

`Spec` of WaitExit assumes strong fairness of a process's next step inside a
call it has begun, which is that it is scheduled again and gets its locks, and
weak fairness of the scheduler's release after the switch.  That a process
is scheduled is what `RunnableRuns` checks for LPT, and what steal_starve
refutes for work stealing: there `WaitReturns` is conditional on it.

`Spec` of SysProc assumes strong fairness of the tick, which means that the clock
goes on and hart 0 gets `tickslock` in the end; weak fairness of its `wakeup()`
loop, of the interrupt that ends a stretch of user mode, and of a call that was begun;
and strong fairness of what the kernel does for a process that has trapped, which again
is scheduling and locks.  `KilledExits` covers processes in `sys_pause()`; calls that
sleep on other channels test `killed` in code of their own, of which only that of
`wait()` and `waitx()` is in the repository.

## Proofs

Each `*Proofs` module proves its component for every value of the constants:
any set of harts, infinite even, any number of slots, any width.  The
assumptions are the ASSUMEs beside the CONSTANTS: `NPROC \in Nat \ {0}`, `None`
is neither a hart nor a slot, rings have two slots or more, `0 <= PRIORITY_MIN <=
PRIORITY_DEFAULT <= PRIORITY_MAX` below the largest `int`, and the two named below.  Every safety property of every passing run, the refinements included, is the subject
of a theorem there.  In each module the argument is an
inductive invariant, established by `Init` and kept by one step per action.

- **ProcCoreProofs**: `IInv == CoreTypeOK /\ Handoff /\ RunningHasCpu /\ ForkOwnsChild`.
  `Handoff` alone is not inductive: `kfork()` sets the child RUNNABLE without looking
  at its state, so one has to know that a child in the fork window is USED, hence on no
  hart, and belongs to one `kfork()`.  `LockedStateIsOffCpu` is the argument of
  every critical section that looks at another process: if its state is not
  RUNNING and no hart that executes it holds its lock, no hart executes it at all.
  From it, each step of ProcCore is a step of SchedAbs or a stutter; that each of
  the three schedulers implements SchedAbs follows in its own module.
- **LptSchedProofs**: `ListInv` gives the shape of a hart's list in each phase of
  `scheduler()`; the lock taken is that of `batch[i]`, so a step is one of ProcCore
  only if that is a slot.  `CoverInv` says for each phase where a process that has
  waited all along is to be found: in a slot not yet read, or in the list, ahead
  of the index; `NobodyMissing` and `IdleOnlyWhenNobodyWaits` follow.  `SortInv` is the
  loop invariant of the exchange sort under keys that others may write; that one
  exchange keeps it is a lemma over any list and keys, and `LongestFirst` follows.
- **StealSchedProofs**: `StealInv` adds to `IInv` the shape of queues and loop
  counters and `RunnableReachable`, which is inductive with them: a popped entry is in
  `temp` until the hart has looked at the state under the lock.  Below the scheduler
  lies the ring: with wrapping indices it is the sequence StealSched uses.  Equal ends mean
  empty and never full, a push appends or does nothing, each pop takes its
  end, for any `MAX_TASKS` (`RingEnds`, `RingPushes`, `RingPopsFront`, `RingPopsBack`).
- **AdaptiveSchedProofs**: `AdaptiveInv` has four parts per hart.  `ScanShape` is the
  place of the candidate behind the index; `ScanLocks` says that a hart holds exactly the
  locks of candidate and slot, and none in `wakeup()`; `ScanBest` that no process that
  waited all along, in a slot already visited, is more urgent than the candidate;
  `ChosenUrgent` that the candidate is at least as urgent now as the priority it was
  chosen for, which carries `ScanBest` over to `OldestFirst`: priorities fall with the wait and,
  above the clamp, strictly, so whoever is not less urgent has not waited less
  (`UrgentWaitsLonger`), and `WaitMeasured` says that what was compared is the time since RUNNABLE.
  `LocksAscend` is what `NoLockCycle` rests on: a hart waits only for a slot above
  those it holds, which excludes circles of any length.  `ScanBest` needs aging
  to be monotone, which it is for a process whose product fits an `int` (`InRange`).
  A process beyond that is excepted in the properties, for itself alone: the others are still
  chosen by their urgency while it waits, for any number of ticks.  What happens to it is
  stated as well: `AgingExact` up to the limit, `AgingInverted` beyond.
- **MetricsProofs**: `MInv` adds to the two properties that a hart in a timer interrupt is in
  its process (`TrapInProc`, or a tick would be carried over to the next one), that a
  process in `kexit()` is alive (`ExitingLives`, or its slot could be given away
  under it) and that no `ctime` is in the future.
- **WaitExitProofs**: `WaitInv`: who holds `wait_lock` and which `p->lock` at each
  place, what the fork window owns, that parents are alive and have no children left
  when they turn ZOMBIE, and `SleepSound`: who sleeps in `wait()`, or has decided to, has
  children and no zombie among them.  The last covers the window between the scan and
  SLEEPING, which `NoLostWakeup` does not mention.  `OneFamily` says that the parent links
  form one tree under init: no set of processes ever closes on itself.
  `WaitImplementsFamily` maps each step to one of FamilyAbs or a stutter.
- **SysProcProofs**: `SInv`.  `TicksCounted` says that the unsigned difference is the true
  number of ticks, which holds while no pause, with `Lag`, is as long as the range of
  `ticks` (an assumption); `SleepsShort` that the clock cannot move between the test and
  SLEEPING, so that `NoOversleep` follows.  `MeetsTest`: after a kill and one return,
  the process is on its way to a test of `killed`.  `SbrkExact` assumes that the
  trapframe is further below 2^64 than an `int` reaches.
- **LockOrderProofs**: `OrderInv` is the outline of every section: at each entry of its
  list, which locks the hart holds and which slot its loop has come to.
  `LocksPaired` and `WaitLockFirst` are read off it.  `TakenInOrder` says that a
  hart waits only for a lock with a number above all it holds, except for `tickslock`
  in `allocproc()`.
  `DeadlockNeedsTicks` (`OnlyTicksDeadlock`) takes any set of harts, each waiting
  for a lock that another of the set holds, and looks at the highest lock that is waited for:
  whoever holds it waits for a higher one, unless somebody is in `allocproc()`.  As
  there is always a highest one, circles of any length are excluded.

Only model-checked: the liveness properties `RunnableRuns`, `WaitReturns` and `KilledExits`,
which are out of the prover's reach; the counterexamples; and `EveryVictimTried`, a
calculation for `NCPU = 8`.  `RingIsQueue` is evaluated for rings of three slots
although it is proved for all, so that the definitions are also seen to compute.

## Not modelled

Page tables and kernel stacks, which are calls into `vm.c`, a file that is not in the
repository; `copyin`/`copyout` beyond their failing; file descriptors and `cwd`, which `kfork()`
and `kexit()` hand to the file system; trap vectors and registers; `procdump` and printing;
argument fetching and the lookup in the system call table, which hold no state;
`test_workload.c`, which measures; the build.

Weak memory is not modelled: unlocked reads are atomic and see the latest
write.  The seed of the victim generator is shared by all harts without a lock:
StealSched therefore lets every draw be any victim, and Victim speaks of
one hart alone.  Wrap-around of `rtime`, `nswtch` and of the `ticks` that aging subtracts is
replaced by bounds.  Panics are modelled as properties (`SchedLocks`, `LocksPaired`) or as
guards (`init` does not exit).

Five hazards are described in `PROJECT.json` and have no property of a run.  For two of them
neither code nor comments promise anything: a killed process that sleeps in `kwait()`
until a child exits, and a zombie in a high slot that its parent never gets to because
lower slots fill again.  The third is the failed `copyout()` of
`waitx()`, see above.  The last two are arithmetic that StealSched abstracts from, the
wrapping ring and the draw of a victim: the theorems about rings, `RingIsQueue` and
`EveryVictimTried` are about them.

## Plan

1. Starvation freedom of the adaptive scheduler under a clock that keeps ticking:
   it needs priorities relative to the current tick, so that the state space stays
   finite.
2. One composition of WaitExit and SysProc, in which a kill meets a process in any
   sleeping call of the repository.
