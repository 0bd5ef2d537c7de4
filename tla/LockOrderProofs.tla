--------------------------- MODULE LockOrderProofs ---------------------------
(***************************************************************************)
(* The order of the spinlocks, for every set of CPUs and every NPROC: each *)
(* section has an outline, the locks held before each of its steps, and    *)
(* by that outline a CPU takes its locks in ascending order, allocproc()'s *)
(* reading of ticks excepted.                                              *)
(***************************************************************************)
EXTENDS LockOrder, SequenceTheorems, WellFoundedInduction, TLAPS

(***************************************************************************)
(* The inductive invariant                                                 *)
(***************************************************************************)

Steps == {acquire(l) : l \in Locks} \cup {release(l) : l \in Locks}
             \cup {visit(S) : S \in SUBSET Proc} \cup {scan(S) : S \in SUBSET Proc}

\* The locks that a loop over proc[] holds beyond those of its section.
LoopLocks(c) == {inner[c], chosen[c]} \ {None}

\* It is in order to spin on l while the locks of H are held: they come
\* before l, or it is allocproc() that reads ticks.
InOrder(H, l) == l \notin H /\ ((\A m \in H : m < l) \/ (l = tickslock /\ H # {} /\ H \subseteq ProcLocks))

\* A step of a section is sound with pre held before it, and leaves post.
StepOutline(st, pre, post) ==
    \/ st.op = "acquire" /\ InOrder(pre, st.lock) /\ post = pre \cup {st.lock}
    \/ st.op = "release" /\ st.lock \in pre /\ post = pre \ {st.lock}
    \/ st.op \in {"visit", "scan"} /\ pre \cap ProcLocks = {} /\ post = pre

\* h[i] are the locks held before the i-th step of s; after the last, none.
Outline(s, h) ==
    /\ h \in Seq(SUBSET Locks) /\ Len(h) = Len(s) + 1
    /\ h[Len(s) + 1] = {}
    /\ \A i \in 1..Len(s) : StepOutline(s[i], h[i], h[i + 1])

\* s can be run from where exactly the locks of H are held.
Sound(s, H) == s \in Seq(Steps) /\ \E h : Outline(s, h) /\ h[1] = H

OrderTypeOK ==
    /\ holder \in [Locks -> CPU \cup {None}]
    /\ todo \in [CPU -> Seq(Steps)]
    /\ inner \in [CPU -> Proc \cup {None}]
    /\ chosen \in [CPU -> Proc \cup {None}]
    /\ myproc \in [CPU -> Proc \cup {None}]

\* A loop holds locks only while it runs, in the order of the slots, and
\* none that it has yet to take.
LoopSound(c) ==
    /\ LoopLocks(c) # {} => Looping(c)
    /\ chosen[c] # None => inner[c] = None \/ chosen[c] < inner[c]
    /\ \A q \in LoopLocks(c) : \A r \in Ahead(c) : q < r

\* What c holds is what the outline of its section says, and its loop's locks.
HeldSound(c) == \E H : Sound(todo[c], H) /\ Held(c) = H \cup LoopLocks(c)

OrderInv == OrderTypeOK /\ \A c \in CPU : LoopSound(c) /\ HeldSound(c)

(***************************************************************************)
(* Locks and steps                                                         *)
(***************************************************************************)

LEMMA LockFacts ==
    /\ Proc \subseteq Locks /\ ProcLocks = Proc /\ Locks \subseteq Int /\ Proc \subseteq Int
    /\ wait_lock = -1 /\ tickslock = 0 /\ wait_lock \in Locks /\ tickslock \in Locks
    /\ \A l \in Locks : l >= -1 /\ l <= NPROC /\ (l \in Proc <=> l > 0)
    /\ None \notin Locks /\ None \notin Proc
BY NPROCAssumption, NoneAssumption
   DEF Proc, Locks, ProcLocks, plock, wait_lock, tickslock

LEMMA StepKinds ==
    /\ \A l \in Locks : acquire(l) \in Steps /\ release(l) \in Steps
    /\ \A S \in SUBSET Proc : visit(S) \in Steps /\ scan(S) \in Steps
    /\ \A st \in Steps :
          /\ st.op \in {"acquire", "release", "visit", "scan"}
          /\ st.op \in {"acquire", "release"} => st.lock \in Locks
          /\ st.op \in {"visit", "scan"} =>
                 /\ st.slots \subseteq Proc
                 /\ \A S : LET t == [st EXCEPT !.slots = S]
                           IN  t.op = st.op /\ t.slots = S /\ (S \subseteq Proc => t \in Steps)
<1>1. \A l \in Locks : acquire(l) \in Steps /\ release(l) \in Steps
  BY DEF Steps
<1>2. \A S \in SUBSET Proc : visit(S) \in Steps /\ scan(S) \in Steps
  BY DEF Steps
<1>3. ASSUME NEW st \in Steps
      PROVE  /\ st.op \in {"acquire", "release", "visit", "scan"}
             /\ st.op \in {"acquire", "release"} => st.lock \in Locks
             /\ st.op \in {"visit", "scan"} =>
                    /\ st.slots \subseteq Proc
                    /\ \A S : LET t == [st EXCEPT !.slots = S]
                              IN  t.op = st.op /\ t.slots = S /\ (S \subseteq Proc => t \in Steps)
  <2>1. CASE \E l \in Locks : st = acquire(l)
    BY <2>1 DEF acquire
  <2>2. CASE \E l \in Locks : st = release(l)
    BY <2>2 DEF release
  <2>3. CASE \E S \in SUBSET Proc : st = visit(S)
    <3>1. PICK S0 \in SUBSET Proc : st = visit(S0)
      BY <2>3
    <3>2. \A S : [st EXCEPT !.slots = S] = visit(S)
      BY <3>1 DEF visit
    <3>3. \A S : visit(S).op = "visit" /\ visit(S).slots = S
      BY DEF visit
    <3>4. QED
      BY <1>2, <3>1, <3>2, <3>3
  <2>4. CASE \E S \in SUBSET Proc : st = scan(S)
    <3>1. PICK S0 \in SUBSET Proc : st = scan(S0)
      BY <2>4
    <3>2. \A S : [st EXCEPT !.slots = S] = scan(S)
      BY <3>1 DEF scan
    <3>3. \A S : scan(S).op = "scan" /\ scan(S).slots = S
      BY DEF scan
    <3>4. QED
      BY <1>2, <3>1, <3>2, <3>3
  <2>5. QED
    BY <2>1, <2>2, <2>3, <2>4 DEF Steps
<1>4. QED
  BY <1>1, <1>2, <1>3

\* The first step of a sound sequence leads to where the rest is sound.
LEMMA SoundTail ==
    ASSUME NEW s, NEW H, Sound(s, H), s # <<>>
    PROVE  \E H2 : StepOutline(Head(s), H, H2) /\ Sound(Tail(s), H2)
<1>1. PICK h : Outline(s, h) /\ h[1] = H
  BY DEF Sound
<1>2. s \in Seq(Steps) /\ h \in Seq(SUBSET Locks) /\ Len(h) = Len(s) + 1 /\ Len(s) \in Nat \ {0}
  BY <1>1, EmptySeq DEF Sound, Outline
<1>3. h # <<>>
  BY <1>2, EmptySeq
<1>4. /\ Tail(s) \in Seq(Steps) /\ Len(Tail(s)) = Len(s) - 1
      /\ \A i \in 1..Len(Tail(s)) : Tail(s)[i] = s[i + 1]
  BY <1>2, HeadTailProperties
<1>5. /\ Tail(h) \in Seq(SUBSET Locks) /\ Len(Tail(h)) = Len(h) - 1
      /\ \A i \in 1..Len(Tail(h)) : Tail(h)[i] = h[i + 1]
  BY <1>2, <1>3, HeadTailProperties
<1>6. StepOutline(Head(s), H, h[2])
  BY <1>1, <1>2 DEF Outline
<1>7. Outline(Tail(s), Tail(h)) /\ Tail(h)[1] = h[2]
  <2>1. Tail(h)[Len(Tail(s)) + 1] = {}
    BY <1>1, <1>2, <1>4, <1>5 DEF Outline
  <2>2. ASSUME NEW i \in 1..Len(Tail(s))
        PROVE  StepOutline(Tail(s)[i], Tail(h)[i], Tail(h)[i + 1])
    <3>1. i + 1 \in 1..Len(s) /\ i \in 1..Len(Tail(h)) /\ i + 1 \in 1..Len(Tail(h))
      BY <1>2, <1>4, <1>5
    <3>2. StepOutline(s[i + 1], h[i + 1], h[i + 1 + 1])
      BY <1>1, <3>1 DEF Outline
    <3>3. QED
      BY <1>4, <1>5, <3>1, <3>2
  <2>3. Tail(h)[1] = h[2]
    BY <1>2, <1>5
  <2>4. QED
    BY <1>2, <1>4, <1>5, <2>1, <2>2, <2>3 DEF Outline
<1>8. QED
  BY <1>4, <1>6, <1>7 DEF Sound

LEMMA SoundEmpty == \A H : Sound(<<>>, H) <=> H = {}
<1>1. Sound(<<>>, {})
  <2>1. Outline(<<>>, <<{}>>)
    BY DEF Outline
  <2>2. QED
    BY <2>1 DEF Sound
<1>2. ASSUME NEW H, Sound(<<>>, H)
      PROVE  H = {}
  BY <1>2 DEF Sound, Outline
<1>3. QED
  BY <1>1, <1>2

\* A loop that has locked one slot more is as sound as before.
LEMMA SoundVisit ==
    ASSUME NEW s, NEW H, Sound(s, H), s # <<>>,
           NEW st \in Steps, st.op = Head(s).op, st.op \in {"visit", "scan"}
    PROVE  Sound(<<st>> \o Tail(s), H)
<1> DEFINE t == <<st>> \o Tail(s)
<1>1. PICK h : Outline(s, h) /\ h[1] = H
  BY DEF Sound
<1>2. s \in Seq(Steps) /\ Len(s) \in Nat \ {0}
  BY EmptySeq DEF Sound
<1>3. /\ Tail(s) \in Seq(Steps) /\ Len(Tail(s)) = Len(s) - 1
      /\ \A i \in 1..Len(Tail(s)) : Tail(s)[i] = s[i + 1]
  BY <1>2, HeadTailProperties
<1>4. <<st>> \in Seq(Steps) /\ Len(<<st>>) = 1
  OBVIOUS
<1>5. /\ t \in Seq(Steps) /\ Len(t) = Len(s)
      /\ \A i \in 1..Len(s) : t[i] = IF i = 1 THEN st ELSE s[i]
  <2>1. /\ t \in Seq(Steps) /\ Len(t) = 1 + (Len(s) - 1)
        /\ \A i \in 1..1 + (Len(s) - 1) : t[i] = IF i <= 1 THEN <<st>>[i]
                                                 ELSE Tail(s)[i - 1]
    BY <1>3, <1>4, ConcatProperties
  <2> HIDE DEF t
  <2>2. QED
    BY <1>2, <1>3, <2>1
<1> HIDE DEF t
<1>6. Outline(t, h)
  <2>1. StepOutline(s[1], h[1], h[2]) /\ s[1].op = st.op
    BY <1>1, <1>2 DEF Outline
  <2>2. StepOutline(st, h[1], h[2])
    BY <2>1 DEF StepOutline
  <2>3. QED
    BY <1>1, <1>2, <1>5, <2>2 DEF Outline
<1>7. QED
  BY <1>1, <1>5, <1>6 DEF Sound, t

(***************************************************************************)
(* The outline of each section                                             *)
(***************************************************************************)

\* The three steps, as they are used below.
LEMMA StepRules ==
    /\ \A pre, l : InOrder(pre, l) => StepOutline(acquire(l), pre, pre \cup {l})
    /\ \A pre, l : l \in pre => StepOutline(release(l), pre, pre \ {l})
    /\ \A pre, S : pre \cap ProcLocks = {} => /\ StepOutline(visit(S), pre, pre)
                                             /\ StepOutline(scan(S), pre, pre)
BY DEF StepOutline, acquire, release, visit, scan

LEMMA TouchSound == \A l \in Locks : Sound(Touch(l), {})
<1> TAKE l \in Locks
<1>1. Outline(Touch(l), <<{}, {l}, {}>>)
  BY StepRules DEF Outline, Touch, InOrder
<1>2. QED
  BY <1>1, StepKinds DEF Sound, Touch

LEMMA AllocSound == \A q \in Proc : Sound(AllocProc(q), {})
<1> TAKE q \in Proc
<1>1. Outline(AllocProc(q), <<{}, {q}, {q, tickslock}, {q}, {}>>)
  BY StepRules, LockFacts DEF Outline, AllocProc, InOrder, plock
<1>2. QED
  BY <1>1, StepKinds, LockFacts DEF Sound, AllocProc, plock

\* A step before what is sound.
LEMMA SoundCons ==
    ASSUME NEW s, NEW H2, Sound(s, H2), NEW st \in Steps, NEW H \in SUBSET Locks,
           StepOutline(st, H, H2)
    PROVE  Sound(<<st>> \o s, H)
<1> DEFINE t == <<st>> \o s
<1>1. PICK h : Outline(s, h) /\ h[1] = H2
  BY DEF Sound
<1> DEFINE g == <<H>> \o h
<1>2. /\ s \in Seq(Steps) /\ <<st>> \in Seq(Steps) /\ Len(s) \in Nat
      /\ h \in Seq(SUBSET Locks) /\ <<H>> \in Seq(SUBSET Locks) /\ Len(h) = Len(s) + 1
  BY <1>1 DEF Sound, Outline
<1>3. /\ t \in Seq(Steps) /\ Len(t) = 1 + Len(s)
      /\ \A i \in 1..1 + Len(s) : t[i] = IF i <= 1 THEN <<st>>[i] ELSE s[i - 1]
  BY <1>2, ConcatProperties
<1>4. /\ g \in Seq(SUBSET Locks) /\ Len(g) = 1 + (1 + Len(s))
      /\ \A i \in 1..1 + (1 + Len(s)) : g[i] = IF i <= 1 THEN <<H>>[i] ELSE h[i - 1]
  BY <1>2, ConcatProperties
<1> HIDE DEF t, g
<1>5. Outline(t, g) /\ g[1] = H
  <2>1. ASSUME NEW i \in 1..Len(t)
        PROVE  StepOutline(t[i], g[i], g[i + 1])
    <3>1. CASE i = 1
      <4>1. t[i] = st
        BY <1>2, <1>3, <3>1
      <4>2. g[i] = H /\ g[i + 1] = h[1]
        BY <1>2, <1>4, <3>1
      <4>3. QED
        BY <1>1, <4>1, <4>2
    <3>2. CASE i # 1
      <4>1. i - 1 \in 1..Len(s)
        BY <1>2, <1>3, <3>2
      <4>2. StepOutline(s[i - 1], h[i - 1], h[i - 1 + 1])
        BY <1>1, <4>1 DEF Outline
      <4>3. t[i] = s[i - 1] /\ g[i] = h[i - 1] /\ g[i + 1] = h[i - 1 + 1]
        BY <1>2, <1>3, <1>4, <3>2
      <4>4. QED
        BY <4>2, <4>3
    <3>3. QED
      BY <3>1, <3>2
  <2>2. g[Len(t) + 1] = {}
    <3>1. h[Len(s) + 1] = {}
      BY <1>1 DEF Outline
    <3>2. QED
      BY <1>2, <1>3, <1>4, <3>1
  <2>3. QED
    BY <1>2, <1>3, <1>4, <2>1, <2>2 DEF Outline
<1>6. QED
  BY <1>3, <1>5 DEF Sound, t

LEMMA Pair == ASSUME NEW x, NEW y PROVE <<x, y>> = <<x>> \o <<y>>
<1>1. <<x>> \in Seq({x, y}) /\ <<y>> \in Seq({x, y}) /\ <<x, y>> \in Seq({x, y})
  OBVIOUS
<1>2. Len(<<x>>) = 1 /\ Len(<<y>>) = 1 /\ Len(<<x, y>>) = 2
  OBVIOUS
<1>3. /\ <<x>> \o <<y>> \in Seq({x, y}) /\ Len(<<x>> \o <<y>>) = 2
      /\ \A i \in 1..2 : (<<x>> \o <<y>>)[i] = IF i <= 1 THEN <<x>>[i] ELSE <<y>>[i - 1]
  BY <1>1, <1>2, ConcatProperties
<1>4. \A i \in 1..2 : <<x, y>>[i] = (<<x>> \o <<y>>)[i]
  BY <1>3
<1>5. QED
  BY <1>1, <1>2, <1>3, <1>4, SeqEqual

LEMMA Triple == ASSUME NEW x, NEW y, NEW z PROVE <<x, y, z>> = <<x>> \o <<y, z>>
OBVIOUS

LEMMA Peel ==
    ASSUME NEW a \in Steps, NEW b \in Steps, NEW s \in Seq(Steps)
    PROVE  /\ <<a, b>> \o s = <<a>> \o (<<b>> \o s)
           /\ \A d \in Steps : <<a, b, d>> \o s = <<a>> \o (<<b>> \o (<<d>> \o s))
<1>1. ASSUME NEW x \in Steps, NEW y \in Steps, NEW t \in Seq(Steps)
      PROVE  <<x, y>> \o t = <<x>> \o (<<y>> \o t)
  <2>1. <<x>> \in Seq(Steps) /\ <<y>> \in Seq(Steps)
    OBVIOUS
  <2>2. <<x, y>> = <<x>> \o <<y>>
    BY Pair
  <2>3. QED
    BY <2>1, <2>2, ConcatAssociative
<1>2. ASSUME NEW d \in Steps
      PROVE  <<a, b, d>> \o s = <<a>> \o (<<b>> \o (<<d>> \o s))
  <2>1. <<a>> \in Seq(Steps) /\ <<b, d>> \in Seq(Steps)
    OBVIOUS
  <2>2. <<a, b, d>> = <<a>> \o <<b, d>>
    BY Triple
  <2>3. <<a, b, d>> \o s = <<a>> \o (<<b, d>> \o s)
    BY <2>1, <2>2, ConcatAssociative
  <2>4. QED
    BY <1>1, <2>3
<1>3. QED
  BY <1>1, <1>2

\* A section that takes wait_lock or tickslock and then runs a loop ...
LEMMA SoundHead ==
    ASSUME NEW lk \in {wait_lock, tickslock}, NEW s, Sound(s, {lk}), NEW S \in SUBSET Proc
    PROVE  /\ Sound(<<visit(S)>> \o s, {lk})
           /\ Sound(<<acquire(lk)>> \o s, {})
           /\ Sound(<<acquire(lk), visit(S)>> \o s, {})
<1>1. /\ lk \in Locks /\ {lk} \cap ProcLocks = {} /\ s \in Seq(Steps)
      /\ acquire(lk) \in Steps /\ visit(S) \in Steps
  BY LockFacts, StepKinds DEF Sound
<1>2. StepOutline(acquire(lk), {}, {lk}) /\ StepOutline(visit(S), {lk}, {lk})
  BY <1>1 DEF InOrder, StepOutline, acquire, visit
<1>3. ASSUME NEW t, Sound(t, {lk})
      PROVE  Sound(<<acquire(lk)>> \o t, {}) /\ Sound(<<visit(S)>> \o t, {lk})
  BY <1>1, <1>2, <1>3, SoundCons
<1>4. Sound(<<acquire(lk), visit(S)>> \o s, {})
  <2>1. <<acquire(lk), visit(S)>> \o s = <<acquire(lk)>> \o (<<visit(S)>> \o s)
    BY <1>1, Peel
  <2>2. QED
    BY <1>3, <2>1
<1>5. QED
  BY <1>3, <1>4

\* ... or two.
LEMMA SoundLoops ==
    ASSUME NEW lk \in {wait_lock, tickslock}, NEW s, Sound(s, {lk}),
           NEW S \in SUBSET Proc, NEW T \in SUBSET Proc
    PROVE  Sound(<<acquire(lk), visit(S), visit(T)>> \o s, {})
<1>1. /\ s \in Seq(Steps) /\ acquire(lk) \in Steps
      /\ visit(S) \in Steps /\ visit(T) \in Steps
  BY LockFacts, StepKinds DEF Sound
<1>2. <<acquire(lk), visit(S), visit(T)>> \o s =
          <<acquire(lk)>> \o (<<visit(S)>> \o (<<visit(T)>> \o s))
  BY <1>1, Peel
<1>3. Sound(<<visit(T)>> \o s, {lk})
  BY SoundHead
<1>4. Sound(<<visit(S)>> \o (<<visit(T)>> \o s), {lk})
  BY <1>3, SoundHead
<1>5. QED
  BY <1>2, <1>4, SoundHead

\* ... and goes to sleep with it or releases it.
LEMMA SoundEnd ==
    ASSUME NEW lk \in {wait_lock, tickslock}
    PROVE  Sound(<<release(lk)>>, {lk}) /\ \A p \in Proc : Sound(Sleep(p, lk), {lk})
<1>1. lk \in Locks
  BY LockFacts
<1>2. Sound(<<release(lk)>>, {lk})
  <2>1. Outline(<<release(lk)>>, <<{lk}, {}>>)
    BY <1>1, StepRules DEF Outline
  <2>2. QED
    BY <1>1, <2>1, StepKinds DEF Sound
<1>3. ASSUME NEW p \in Proc
      PROVE  Sound(Sleep(p, lk), {lk})
  <2>1. p \in Locks /\ lk < p
    BY LockFacts
  <2>2. StepOutline(acquire(p), {lk}, {lk, p})
    <3>1. InOrder({lk}, p)
      BY <1>1, <2>1, LockFacts DEF InOrder
    <3>2. {lk} \cup {p} = {lk, p}
      OBVIOUS
    <3>3. QED
      BY <3>1, <3>2, StepRules
  <2>3. StepOutline(release(lk), {lk, p}, {p}) /\ StepOutline(release(p), {p}, {})
    BY <1>1, <2>1, LockFacts DEF StepOutline, release
  <2>4. Outline(Sleep(p, lk), <<{lk}, {lk, p}, {p}, {}>>)
    <3> DEFINE h == <<{lk}, {lk, p}, {p}, {}>>
               s == Sleep(p, lk)
    <3>1. h \in Seq(SUBSET Locks) /\ Len(h) = 4
      BY <1>1, <2>1
    <3>2. h[1] = {lk} /\ h[2] = {lk, p} /\ h[3] = {p} /\ h[4] = {}
      OBVIOUS
    <3>3. Len(s) = 3 /\ s[1] = acquire(p) /\ s[2] = release(lk) /\ s[3] = release(p)
      BY DEF Sleep, plock
    <3> HIDE DEF h, s
    <3>4. \A i \in 1..3 : StepOutline(s[i], h[i], h[i + 1])
      <4>1. /\ StepOutline(s[1], h[1], h[2]) /\ StepOutline(s[2], h[2], h[3])
            /\ StepOutline(s[3], h[3], h[4])
        BY <2>2, <2>3, <3>2, <3>3
      <4>2. QED
        BY <4>1
    <3>5. QED
      BY <3>1, <3>2, <3>3, <3>4 DEF Outline, h, s
  <2>5. QED
    BY <1>1, <2>1, <2>4, StepKinds DEF Sound, Sleep, plock
<1>4. QED
  BY <1>2, <1>3

LEMMA ClockSound == \A p \in Proc \cup {None} : Sound(ClockIntr(p), {})
<1> TAKE p \in Proc \cup {None}
<1>1. ClockIntr(p) = <<acquire(tickslock), visit(Proc \ {p})>> \o <<release(tickslock)>>
  BY DEF ClockIntr, Wakeup
<1>2. QED
  BY <1>1, SoundEnd, SoundHead

LEMMA PauseSound == \A p \in Proc, sleeps \in BOOLEAN : Sound(Pause(p, sleeps), {})
<1> TAKE p \in Proc, sleeps \in BOOLEAN
<1>1. Sound(IF sleeps THEN Sleep(p, tickslock) ELSE <<release(tickslock)>>, {tickslock})
  BY SoundEnd
<1>2. QED
  BY <1>1, SoundHead DEF Pause

LEMMA ExitSound == \A p \in Proc, kids \in BOOLEAN : Sound(Exit(p, kids), {})
BY SoundEnd, SoundLoops DEF Exit, Wakeup

LEMMA WaitSound ==
    \A p \in Proc, children \in SUBSET Proc, asks \in BOOLEAN, sleeps \in BOOLEAN :
        Sound(Wait(p, children, asks, sleeps), {})
<1> TAKE p \in Proc, children \in SUBSET Proc, asks \in BOOLEAN, sleeps \in BOOLEAN
<1>1. Sound(IF sleeps THEN Sleep(p, wait_lock) ELSE <<release(wait_lock)>>, {wait_lock})
  BY SoundEnd
<1>2. (IF asks THEN {p} ELSE {}) \in SUBSET Proc
  OBVIOUS
<1>3. QED
  BY <1>1, <1>2, SoundLoops DEF Wait

LEMMA ScanSound == Sound(Scan, {})
<1>1. Outline(Scan, <<{}, {}>>)
  BY StepRules DEF Outline, Scan
<1>2. QED
  BY <1>1, StepKinds DEF Sound, Scan

LEMMA SectionsSound ==
    \A c \in CPU, p \in Proc \cup {None} : \A s \in Sections(c, p) : Sound(s, {})
<1> SUFFICES ASSUME NEW c \in CPU, NEW p \in Proc \cup {None}, NEW s \in Sections(c, p)
             PROVE  Sound(s, {})
  OBVIOUS
<1>1. CASE s = ClockIntr(p)
  BY <1>1, ClockSound
<1>2. CASE p = None /\ s = Scan
  BY <1>2, ScanSound
<1>3. CASE p # None /\ \E q \in Proc : s = AllocProc(q) \/ s = Touch(plock(q)) \/ s = ForkLink(q)
  BY <1>3, AllocSound, TouchSound, LockFacts DEF plock, ForkLink
<1>4. CASE s = Touch(tickslock)
  BY <1>4, TouchSound, LockFacts
<1>5. CASE p # None /\ \E sleeps \in BOOLEAN : s = Pause(p, sleeps)
  BY <1>5, PauseSound
<1>6. CASE p # None /\ \E kids \in BOOLEAN : s = Exit(p, kids)
  BY <1>6, ExitSound
<1>7. CASE p # None /\ \E children \in SUBSET Proc, asks \in BOOLEAN, sleeps \in BOOLEAN :
                s = Wait(p, children, asks, sleeps)
  BY <1>7, WaitSound
<1>8. QED
  BY <1>1, <1>2, <1>3, <1>4, <1>5, <1>6, <1>7 DEF Sections

(***************************************************************************)
(* Each step keeps the invariant                                           *)
(***************************************************************************)

\* What a CPU holds after it takes or drops a lock; the others hold the same.
LEMMA HeldAfterTake ==
    ASSUME OrderTypeOK, NEW c \in CPU, NEW l \in Locks, Take(c, l)
    PROVE  /\ holder' \in [Locks -> CPU \cup {None}]
           /\ Held(c)' = Held(c) \cup {l}
           /\ \A d \in CPU \ {c} : Held(d)' = Held(d)
BY NoneAssumption DEF OrderTypeOK, Take, Held

LEMMA HeldAfterDrop ==
    ASSUME OrderTypeOK, NEW c \in CPU, NEW l \in Held(c), Drop(l)
    PROVE  /\ holder' \in [Locks -> CPU \cup {None}]
           /\ Held(c)' = Held(c) \ {l}
           /\ \A d \in CPU \ {c} : Held(d)' = Held(d)
BY NoneAssumption DEF OrderTypeOK, Drop, Held

\* What the invariant says of the step that c is at.
LEMMA HeadFacts ==
    ASSUME OrderInv, NEW c \in CPU
    PROVE  \E H : /\ Sound(todo[c], H) /\ Held(c) = H \cup LoopLocks(c)
                  /\ todo[c] = <<>> => H = {}
                  /\ todo[c] # <<>> => /\ Head(todo[c]) \in Steps
                                       /\ \E H2 : /\ StepOutline(Head(todo[c]), H, H2)
                                                  /\ Sound(Tail(todo[c]), H2)
                  /\ Looping(c) => /\ H \cap ProcLocks = {} /\ Ahead(c) \subseteq Proc
                                   /\ Sound(Tail(todo[c]), H)
                  /\ ~Looping(c) => inner[c] = None /\ chosen[c] = None /\ LoopLocks(c) = {}
<1>1. PICK H : Sound(todo[c], H) /\ Held(c) = H \cup LoopLocks(c)
  BY DEF OrderInv, HeldSound
<1>2. todo[c] = <<>> => H = {}
  BY <1>1, SoundEmpty
<1>3. todo[c] # <<>> => Head(todo[c]) \in Steps
  BY <1>1, HeadTailProperties DEF Sound
<1>4. ASSUME todo[c] # <<>>
      PROVE  \E H2 : StepOutline(Head(todo[c]), H, H2) /\ Sound(Tail(todo[c]), H2)
  BY <1>1, <1>4, SoundTail
<1>5. ASSUME Looping(c)
      PROVE  H \cap ProcLocks = {} /\ Ahead(c) \subseteq Proc /\ Sound(Tail(todo[c]), H)
  <2>1. todo[c] # <<>> /\ Head(todo[c]).op \in {"visit", "scan"}
    BY <1>5 DEF Looping, At
  <2>2. Ahead(c) \subseteq Proc
    BY <1>3, <2>1, StepKinds DEF Ahead
  <2>3. PICK H2 : StepOutline(Head(todo[c]), H, H2) /\ Sound(Tail(todo[c]), H2)
    BY <1>4, <2>1
  <2>4. H \cap ProcLocks = {} /\ H2 = H
    BY <2>1, <2>3 DEF StepOutline
  <2>5. QED
    BY <2>2, <2>3, <2>4
<1>6. ~Looping(c) => inner[c] = None /\ chosen[c] = None /\ LoopLocks(c) = {}
  BY DEF OrderInv, LoopSound, LoopLocks
<1>7. QED
  BY <1>1, <1>2, <1>3, <1>4, <1>5, <1>6

\* A step of c leaves what the invariant says of the other CPUs alone.
Alone(c) ==
    /\ myproc' \in [CPU -> Proc \cup {None}]
    /\ \A d \in CPU \ {c} : /\ todo'[d] = todo[d] /\ inner'[d] = inner[d]
                            /\ chosen'[d] = chosen[d] /\ Held(d)' = Held(d)

LEMMA AloneKeeps ==
    ASSUME OrderInv, NEW c \in CPU, Alone(c), OrderTypeOK', LoopSound(c)', HeldSound(c)'
    PROVE  OrderInv'
<1>1. ASSUME NEW d \in CPU \ {c}
      PROVE  LoopSound(d)' /\ HeldSound(d)'
  <2>1. LoopSound(d) /\ HeldSound(d)
    BY DEF OrderInv
  <2>2. /\ todo'[d] = todo[d] /\ inner'[d] = inner[d]
        /\ chosen'[d] = chosen[d] /\ Held(d)' = Held(d)
    BY DEF Alone
  <2>3. LoopLocks(d)' = LoopLocks(d)
    BY <2>2 DEF LoopLocks
  <2>4. HeldSound(d)'
    BY <2>1, <2>2, <2>3 DEF HeldSound
  <2>5. (Looping(d) <=> Looping(d)') /\ Ahead(d)' = Ahead(d)
    BY <2>2 DEF Looping, At, Ahead
  <2>6. LoopSound(d)'
    BY <2>1, <2>2, <2>3, <2>5 DEF LoopSound
  <2>7. QED
    BY <2>4, <2>6
<1>2. QED
  BY <1>1 DEF OrderInv

LEMMA StartStep ==
    ASSUME OrderInv, NEW c \in CPU, Start(c)
    PROVE  OrderInv'
<1>1. PICK p \in {None} \cup Proc :
          /\ myproc' = [myproc EXCEPT ![c] = p]
          /\ \E s \in Sections(c, p) : todo' = [todo EXCEPT ![c] = s]
  BY DEF Start
<1>2. PICK s \in Sections(c, p) : todo' = [todo EXCEPT ![c] = s]
  BY <1>1
<1>3. Sound(s, {}) /\ s \in Seq(Steps)
  BY <1>1, SectionsSound DEF Sound
<1>4. todo[c] = <<>> /\ UNCHANGED <<holder, inner, chosen>> /\ OrderTypeOK
  BY DEF Start, OrderInv
<1>5. Held(c) = {} /\ inner[c] = None /\ chosen[c] = None
  BY <1>4, HeadFacts DEF Looping, At
<1>6. OrderTypeOK'
  BY <1>1, <1>2, <1>3, <1>4 DEF OrderTypeOK
<1>7. Alone(c)
  BY <1>1, <1>2, <1>4 DEF Alone, OrderTypeOK, Held
<1>8. LoopLocks(c)' = {} /\ Held(c)' = {} /\ todo'[c] = s /\ chosen'[c] = None
  BY <1>2, <1>4, <1>5 DEF LoopLocks, Held, OrderTypeOK
<1>9. LoopSound(c)' /\ HeldSound(c)'
  BY <1>3, <1>8 DEF LoopSound, HeldSound
<1>10. QED
  BY <1>6, <1>7, <1>9, AloneKeeps

LEMMA AcquireStep ==
    ASSUME OrderInv, NEW c \in CPU, Acquire(c)
    PROVE  OrderInv'
<1> DEFINE l == Head(todo[c]).lock
<1>1. /\ todo[c] # <<>> /\ Head(todo[c]).op = "acquire" /\ Take(c, l) /\ OrderTypeOK
      /\ todo' = [todo EXCEPT ![c] = Tail(@)] /\ UNCHANGED <<inner, chosen, myproc>>
  BY DEF Acquire, At, OrderInv
<1>2. ~Looping(c)
  BY <1>1 DEF Looping, At
<1>3. PICK H : /\ Held(c) = H /\ Head(todo[c]) \in Steps
               /\ \E H2 : StepOutline(Head(todo[c]), H, H2) /\ Sound(Tail(todo[c]), H2)
  BY <1>1, <1>2, HeadFacts
<1>4. Sound(Tail(todo[c]), H \cup {l}) /\ l \in Locks
  BY <1>1, <1>3, StepKinds DEF StepOutline
<1> HIDE DEF l
<1>5. /\ holder' \in [Locks -> CPU \cup {None}] /\ Held(c)' = H \cup {l}
      /\ \A d \in CPU \ {c} : Held(d)' = Held(d)
  BY <1>1, <1>3, <1>4, HeldAfterTake
<1>6. OrderTypeOK'
  BY <1>1, <1>4, <1>5 DEF OrderTypeOK, Sound
<1>7. Alone(c)
  BY <1>1, <1>5 DEF Alone, OrderTypeOK
<1>8. inner'[c] = None /\ chosen'[c] = None /\ LoopLocks(c)' = {} /\ todo'[c] = Tail(todo[c])
  BY <1>1, <1>2, HeadFacts DEF LoopLocks, OrderTypeOK
<1>9. LoopSound(c)' /\ HeldSound(c)'
  BY <1>4, <1>5, <1>8 DEF LoopSound, HeldSound
<1>10. QED
  BY <1>6, <1>7, <1>9, AloneKeeps

LEMMA ReleaseStep ==
    ASSUME OrderInv, NEW c \in CPU, Release(c)
    PROVE  OrderInv'
<1> DEFINE l == Head(todo[c]).lock
<1>1. /\ todo[c] # <<>> /\ Head(todo[c]).op = "release" /\ Drop(l) /\ OrderTypeOK
      /\ todo' = [todo EXCEPT ![c] = Tail(@)] /\ UNCHANGED <<inner, chosen, myproc>>
  BY DEF Release, At, OrderInv
<1>2. ~Looping(c)
  BY <1>1 DEF Looping, At
<1>3. PICK H : /\ Held(c) = H /\ Head(todo[c]) \in Steps
               /\ \E H2 : StepOutline(Head(todo[c]), H, H2) /\ Sound(Tail(todo[c]), H2)
  BY <1>1, <1>2, HeadFacts
<1>4. Sound(Tail(todo[c]), H \ {l}) /\ l \in H
  BY <1>1, <1>3 DEF StepOutline
<1> HIDE DEF l
<1>5. /\ holder' \in [Locks -> CPU \cup {None}] /\ Held(c)' = H \ {l}
      /\ \A d \in CPU \ {c} : Held(d)' = Held(d)
  BY <1>1, <1>3, <1>4, HeldAfterDrop
<1>6. OrderTypeOK'
  BY <1>1, <1>4, <1>5 DEF OrderTypeOK, Sound
<1>7. Alone(c)
  BY <1>1, <1>5 DEF Alone, OrderTypeOK
<1>8. inner'[c] = None /\ chosen'[c] = None /\ LoopLocks(c)' = {} /\ todo'[c] = Tail(todo[c])
  BY <1>1, <1>2, HeadFacts DEF LoopLocks, OrderTypeOK
<1>9. LoopSound(c)' /\ HeldSound(c)'
  BY <1>4, <1>5, <1>8 DEF LoopSound, HeldSound
<1>10. QED
  BY <1>6, <1>7, <1>9, AloneKeeps

LEMMA LoopAcquireStep ==
    ASSUME OrderInv, NEW c \in CPU, LoopAcquire(c)
    PROVE  OrderInv'
<1>1. PICK q \in Proc :
          /\ NextSlot(c, q) /\ Take(c, q) /\ inner' = [inner EXCEPT ![c] = q]
          /\ todo' = [todo EXCEPT ![c] = <<[Head(@) EXCEPT !.slots = Ahead(c) \ {q}]>> \o Tail(@)]
  BY DEF LoopAcquire, plock
<1>2. Looping(c) /\ inner[c] = None /\ UNCHANGED <<chosen, myproc>> /\ OrderTypeOK /\ LoopSound(c)
  BY DEF LoopAcquire, OrderInv
<1>3. todo[c] # <<>> /\ Head(todo[c]).op \in {"visit", "scan"}
  BY <1>2 DEF Looping, At
<1>4. PICK H : /\ Sound(todo[c], H) /\ Held(c) = H \cup LoopLocks(c)
               /\ Head(todo[c]) \in Steps /\ Ahead(c) \subseteq Proc
  BY <1>2, <1>3, HeadFacts
<1> DEFINE st == [Head(todo[c]) EXCEPT !.slots = Ahead(c) \ {q}]
           t == <<st>> \o Tail(todo[c])
<1>5. st \in Steps /\ st.op = Head(todo[c]).op /\ st.slots = Ahead(c) \ {q}
  BY <1>3, <1>4, StepKinds
<1>6. todo' = [todo EXCEPT ![c] = t]
  BY <1>1 DEF Ahead
<1> HIDE DEF st
<1>7. Sound(t, H)
  BY <1>3, <1>4, <1>5, SoundVisit
<1>8. t # <<>> /\ Head(t) = st /\ t \in Seq(Steps)
  <2>1. t \in Seq(Steps)
    BY <1>7 DEF Sound
  <2>2. /\ <<st>> \in Seq(Steps) /\ Tail(todo[c]) \in Seq(Steps) /\ Len(<<st>>) = 1
    BY <1>3, <1>4, <1>5, HeadTailProperties DEF Sound
  <2>3. Len(t) = 1 + Len(Tail(todo[c])) /\ t[1] = st
    BY <2>2, ConcatProperties, LenProperties
  <2>4. QED
    BY <2>1, <2>2, <2>3, LenProperties
<1> HIDE DEF t
<1>9. /\ holder' \in [Locks -> CPU \cup {None}] /\ Held(c)' = Held(c) \cup {q}
      /\ \A d \in CPU \ {c} : Held(d)' = Held(d)
  BY <1>1, <1>2, LockFacts, HeldAfterTake
<1>10. OrderTypeOK'
  BY <1>1, <1>2, <1>6, <1>8, <1>9 DEF OrderTypeOK
<1>11. Alone(c)
  BY <1>1, <1>2, <1>6, <1>9 DEF Alone, OrderTypeOK
<1>12. /\ todo'[c] = t /\ inner'[c] = q /\ chosen'[c] = chosen[c]
       /\ LoopLocks(c)' = LoopLocks(c) \cup {q}
  BY <1>1, <1>2, <1>6, LockFacts DEF LoopLocks, OrderTypeOK
<1>13. Looping(c)' /\ Ahead(c)' = Ahead(c) \ {q}
  BY <1>3, <1>5, <1>8, <1>12 DEF Looping, At, Ahead
<1>14. LoopSound(c)'
  <2>1. q \in Ahead(c) /\ \A r \in Ahead(c) \ {q} : q < r
    BY <1>1, <1>4, LockFacts DEF NextSlot
  <2>2. chosen'[c] # None => chosen'[c] < q
    BY <1>2, <1>12, <2>1 DEF LoopSound, LoopLocks
  <2>3. \A k \in LoopLocks(c)' : \A r \in Ahead(c)' : k < r
    BY <1>2, <1>12, <1>13, <2>1 DEF LoopSound
  <2>4. QED
    BY <1>12, <1>13, <2>2, <2>3 DEF LoopSound
<1>15. HeldSound(c)'
  <2>1. Held(c)' = H \cup LoopLocks(c)'
    BY <1>4, <1>9, <1>12
  <2>2. QED
    BY <1>7, <1>12, <2>1 DEF HeldSound
<1>16. QED
  BY <1>10, <1>11, <1>14, <1>15, AloneKeeps

\* The candidate is not the slot that the body looks at.
LEMMA TwoSlots ==
    ASSUME OrderTypeOK, NEW c \in CPU, LoopSound(c), inner[c] # None
    PROVE  inner[c] \in Proc /\ chosen[c] # inner[c]
<1>1. inner[c] \in Proc /\ inner[c] \in Int
  BY LockFacts DEF OrderTypeOK
<1>2. chosen[c] # None => chosen[c] < inner[c]
  BY DEF LoopSound
<1>3. ~(inner[c] < inner[c])
  BY <1>1
<1>4. QED
  BY <1>1, <1>2, <1>3

LEMMA LoopReleaseStep ==
    ASSUME OrderInv, NEW c \in CPU, LoopRelease(c)
    PROVE  OrderInv'
<1>1. /\ Looping(c) /\ inner[c] # None /\ Drop(inner[c]) /\ inner' = [inner EXCEPT ![c] = None]
      /\ UNCHANGED <<todo, chosen, myproc>> /\ OrderTypeOK /\ LoopSound(c)
  BY DEF LoopRelease, OrderInv, plock
<1>2. PICK H : /\ Sound(todo[c], H) /\ Held(c) = H \cup LoopLocks(c) /\ H \cap ProcLocks = {}
  BY <1>1, HeadFacts
<1>3. inner[c] \in Proc /\ inner[c] \in Held(c) /\ inner[c] \notin H
  BY <1>1, <1>2, LockFacts DEF OrderTypeOK, LoopLocks
<1>4. /\ holder' \in [Locks -> CPU \cup {None}] /\ Held(c)' = Held(c) \ {inner[c]}
      /\ \A d \in CPU \ {c} : Held(d)' = Held(d)
  BY <1>1, <1>3, HeldAfterDrop
<1>5. chosen[c] # inner[c]
  BY <1>1, TwoSlots
<1>6. inner'[c] = None /\ LoopLocks(c)' = LoopLocks(c) \ {inner[c]}
  BY <1>1, <1>5 DEF LoopLocks, OrderTypeOK
<1>7. OrderTypeOK' /\ Alone(c)
  BY <1>1, <1>4 DEF OrderTypeOK, Alone
<1>8. LoopSound(c)'
  BY <1>1, <1>6 DEF LoopSound, Looping, At, Ahead
<1>9. HeldSound(c)'
  <2>1. Held(c)' = H \cup LoopLocks(c)'
    BY <1>2, <1>3, <1>4, <1>6
  <2>2. QED
    BY <1>1, <1>2, <2>1 DEF HeldSound
<1>10. QED
  BY <1>7, <1>8, <1>9, AloneKeeps

\* Of the locks of the loop, the candidate's goes.
LEMMA HeldAfterDropChosen ==
    ASSUME OrderInv, NEW c \in CPU, NEW H, Held(c) = H \cup LoopLocks(c), H \cap ProcLocks = {},
           DropChosen(c)
    PROVE  /\ holder' \in [Locks -> CPU \cup {None}]
           /\ Held(c)' = H \cup (LoopLocks(c) \ {chosen[c]})
           /\ \A d \in CPU \ {c} : Held(d)' = Held(d)
<1>1. OrderTypeOK
  BY DEF OrderInv
<1>2. CASE chosen[c] = None
  BY <1>1, <1>2 DEF DropChosen, Held, LoopLocks, OrderTypeOK
<1>3. CASE chosen[c] # None
  <2>1. chosen[c] \in Held(c) /\ chosen[c] \notin H /\ Drop(chosen[c])
    BY <1>1, <1>3, LockFacts DEF OrderTypeOK, LoopLocks, DropChosen, plock
  <2>2. QED
    BY <1>1, <2>1, HeldAfterDrop
<1>4. QED
  BY <1>2, <1>3

LEMMA LoopKeepStep ==
    ASSUME OrderInv, NEW c \in CPU, LoopKeep(c)
    PROVE  OrderInv'
<1>1. /\ Looping(c) /\ inner[c] # None /\ DropChosen(c) /\ inner' = [inner EXCEPT ![c] = None]
      /\ chosen' = [chosen EXCEPT ![c] = inner[c]]
      /\ UNCHANGED <<todo, myproc>> /\ OrderTypeOK /\ LoopSound(c)
  BY DEF LoopKeep, OrderInv, Looping
<1>2. PICK H : /\ Sound(todo[c], H) /\ Held(c) = H \cup LoopLocks(c) /\ H \cap ProcLocks = {}
  BY <1>1, HeadFacts
<1>3. /\ holder' \in [Locks -> CPU \cup {None}]
      /\ Held(c)' = H \cup (LoopLocks(c) \ {chosen[c]})
      /\ \A d \in CPU \ {c} : Held(d)' = Held(d)
  BY <1>1, <1>2, HeldAfterDropChosen
<1>4. inner[c] \in Proc /\ chosen[c] # inner[c]
  BY <1>1, TwoSlots
<1>5. /\ inner'[c] = None /\ chosen'[c] = inner[c]
      /\ LoopLocks(c)' = {inner[c]} /\ LoopLocks(c) \ {chosen[c]} = {inner[c]}
  BY <1>1, <1>4 DEF LoopLocks, OrderTypeOK
<1>6. OrderTypeOK' /\ Alone(c)
  BY <1>1, <1>3, <1>4 DEF OrderTypeOK, Alone
<1>7. LoopSound(c)'
  <2>1. inner[c] \in LoopLocks(c)
    BY <1>5
  <2>2. QED
    BY <1>1, <1>5, <2>1 DEF LoopSound, Looping, At, Ahead
<1>8. HeldSound(c)'
  BY <1>1, <1>2, <1>3, <1>5 DEF HeldSound
<1>9. QED
  BY <1>6, <1>7, <1>8, AloneKeeps

LEMMA LoopEndStep ==
    ASSUME OrderInv, NEW c \in CPU, LoopEnd(c)
    PROVE  OrderInv'
<1>1. /\ Looping(c) /\ inner[c] = None /\ DropChosen(c)
      /\ chosen' = [chosen EXCEPT ![c] = None]
      /\ todo' = [todo EXCEPT ![c] = Tail(@)]
      /\ UNCHANGED <<inner, myproc>> /\ OrderTypeOK
  BY DEF LoopEnd, OrderInv
<1>2. PICK H : /\ Sound(Tail(todo[c]), H) /\ Held(c) = H \cup LoopLocks(c) /\ H \cap ProcLocks = {}
  BY <1>1, HeadFacts
<1>3. /\ holder' \in [Locks -> CPU \cup {None}]
      /\ Held(c)' = H \cup (LoopLocks(c) \ {chosen[c]})
      /\ \A d \in CPU \ {c} : Held(d)' = Held(d)
  BY <1>1, <1>2, HeldAfterDropChosen
<1>4. /\ inner'[c] = None /\ chosen'[c] = None /\ todo'[c] = Tail(todo[c])
      /\ LoopLocks(c)' = {} /\ LoopLocks(c) \ {chosen[c]} = {}
  BY <1>1 DEF LoopLocks, OrderTypeOK
<1>5. OrderTypeOK' /\ Alone(c)
  BY <1>1, <1>2, <1>3 DEF OrderTypeOK, Alone, Sound
<1>6. LoopSound(c)'
  BY <1>4 DEF LoopSound
<1>7. HeldSound(c)'
  BY <1>2, <1>3, <1>4 DEF HeldSound
<1>8. QED
  BY <1>5, <1>6, <1>7, AloneKeeps

LEMMA OrderInvStep == OrderInv /\ [Next]_vars => OrderInv'
<1> SUFFICES ASSUME OrderInv, [Next]_vars
             PROVE  OrderInv'
  OBVIOUS
<1>1. CASE UNCHANGED vars
  BY <1>1 DEF vars, OrderInv, OrderTypeOK, LoopSound, HeldSound, LoopLocks, Looping, At, Ahead, Held
<1>2. CASE \E c \in CPU : \/ Start(c) \/ Acquire(c) \/ Release(c)
                          \/ LoopAcquire(c) \/ LoopRelease(c) \/ LoopKeep(c) \/ LoopEnd(c)
  BY <1>2, StartStep, AcquireStep, ReleaseStep, LoopAcquireStep, LoopReleaseStep, LoopKeepStep,
     LoopEndStep
<1>3. QED
  BY <1>1, <1>2 DEF Next

LEMMA InitOrderInv == Init => OrderInv
<1> SUFFICES ASSUME Init
             PROVE  OrderInv
  OBVIOUS
<1>1. OrderTypeOK
  BY DEF Init, OrderTypeOK
<1>2. ASSUME NEW c \in CPU
      PROVE  LoopSound(c) /\ HeldSound(c)
  <2>1. Held(c) = {} /\ LoopLocks(c) = {} /\ todo[c] = <<>> /\ chosen[c] = None
    BY NoneAssumption DEF Init, Held, LoopLocks
  <2>2. QED
    BY <2>1, SoundEmpty DEF LoopSound, HeldSound
<1>3. QED
  BY <1>1, <1>2 DEF OrderInv

(***************************************************************************)
(* What follows                                                            *)
(***************************************************************************)

LEMMA WantedInOrder ==
    ASSUME OrderInv, NEW c \in CPU, NEW l \in Wanted(c)
    PROVE  InOrder(Held(c), l)
<1>1. PICK H : /\ Sound(todo[c], H) /\ Held(c) = H \cup LoopLocks(c)
               /\ todo[c] # <<>> => \E H2 : StepOutline(Head(todo[c]), H, H2)
               /\ Looping(c) => H \cap ProcLocks = {} /\ Ahead(c) \subseteq Proc
               /\ ~Looping(c) => LoopLocks(c) = {}
  BY HeadFacts
<1>2. LoopSound(c) /\ OrderTypeOK /\ l \in Locks /\ Held(c) \subseteq Locks
  BY DEF OrderInv, Wanted, Held
<1>3. CASE At(c, "acquire") /\ l = Head(todo[c]).lock
  <2>1. ~Looping(c) /\ Held(c) = H
    BY <1>1, <1>3 DEF Looping, At
  <2>2. PICK H2 : StepOutline(Head(todo[c]), H, H2)
    BY <1>1, <1>3 DEF At
  <2>3. QED
    BY <1>3, <2>1, <2>2 DEF StepOutline, At
<1>4. CASE Looping(c) /\ inner[c] = None /\ NextSlot(c, l)
  <2>1. l \in Ahead(c) /\ l \in Proc /\ l \in Int
    BY <1>1, <1>4, LockFacts DEF NextSlot
  <2>2. \A m \in LoopLocks(c) : m < l
    BY <1>2, <2>1 DEF LoopSound
  <2>3. ASSUME NEW m \in H
        PROVE  m < l
    <3>1. m \in Int /\ m \in Locks /\ m \notin Proc
      BY <1>1, <1>2, <1>4, LockFacts
    <3>2. m <= 0 /\ l > 0
      BY <1>2, <2>1, <3>1, LockFacts
    <3>3. QED
      BY <2>1, <3>1, <3>2
  <2>4. \A m \in Held(c) : m < l
    BY <1>1, <2>2, <2>3
  <2>5. ~(l < l)
    BY <2>1
  <2>6. QED
    BY <2>4, <2>5 DEF InOrder
<1>5. QED
  BY <1>3, <1>4 DEF Wanted

LEMMA ReleasingHeld ==
    ASSUME OrderInv, NEW c \in CPU
    PROVE  Releasing(c) \subseteq Held(c) /\ (todo[c] = <<>> => Held(c) = {})
<1>1. PICK H : /\ Held(c) = H \cup LoopLocks(c)
               /\ todo[c] = <<>> => H = {}
               /\ todo[c] # <<>> => \E H2 : StepOutline(Head(todo[c]), H, H2)
               /\ ~Looping(c) => LoopLocks(c) = {}
  BY HeadFacts
<1>2. ASSUME NEW l \in Releasing(c)
      PROVE  l \in Held(c)
  <2>1. CASE At(c, "release") /\ l = Head(todo[c]).lock
    BY <1>1, <2>1 DEF At, StepOutline
  <2>2. CASE Looping(c) /\ l \in {inner[c], chosen[c]}
    <3>1. l # None
      BY LockFacts DEF Releasing
    <3>2. QED
      BY <1>1, <2>2, <3>1 DEF LoopLocks
  <2>3. QED
    BY <2>1, <2>2 DEF Releasing
<1>3. todo[c] = <<>> => ~Looping(c)
  BY DEF Looping, At
<1>4. QED
  BY <1>1, <1>2, <1>3

\* Of finitely many locks one comes last.
LEMMA LastLock ==
    ASSUME NEW W \in SUBSET Locks, W # {}
    PROVE  \E l \in W : \A m \in W : ~(l < m)
<1> DEFINE Below == {NPROC - l : l \in W}
<1>1. /\ \A l \in W : l \in Int /\ NPROC - l \in Nat
      /\ NPROC \in Nat
  BY LockFacts, NPROCAssumption
<1>2. Below \subseteq Nat /\ Below # {}
  BY <1>1
<1>3. PICK x \in Below : \A y \in Below : <<y, x>> \notin OpToRel(<, Nat)
  <2> HIDE DEF Below
  <2>1. QED
    BY <1>2, NatLessThanWellFounded, WFMin
<1>4. \A y \in Below : ~(y < x)
  BY <1>2, <1>3 DEF OpToRel
<1>5. PICK l \in W : x = NPROC - l
  BY <1>3
<1>6. ASSUME NEW m \in W, l < m
      PROVE  FALSE
  <2>1. NPROC - m < NPROC - l
    BY <1>1, <1>6
  <2>2. QED
    BY <1>4, <1>5, <2>1
<1>7. QED
  BY <1>6

\* Everybody in D wants a later lock than the one before it in the cycle, so
\* there is no cycle, or somebody in it takes tickslock out of order.
LEMMA StuckIsTicks ==
    ASSUME OrderInv, NEW D \in SUBSET CPU, Stuck(D)
    PROVE  \E c \in D : tickslock \in Wanted(c) /\ Held(c) \cap ProcLocks # {}
<1> SUFFICES ASSUME \A c \in D : tickslock \in Wanted(c) => Held(c) \cap ProcLocks = {}
             PROVE  FALSE
  OBVIOUS
<1> DEFINE W == {l \in Locks : \E c \in D : l \in Wanted(c) /\ holder[l] \in D}
<1>1. ASSUME NEW c \in D, NEW l \in Wanted(c), NEW m \in Held(c)
      PROVE  m < l
  <2>1. InOrder(Held(c), l)
    BY WantedInOrder
  <2>2. ~(l = tickslock /\ Held(c) # {} /\ Held(c) \subseteq ProcLocks)
    OBVIOUS
  <2>3. QED
    BY <2>1, <2>2 DEF InOrder
<1>2. \A c \in D : \E l \in W : l \in Wanted(c)
  BY DEF Stuck, Wanted
<1>3. W # {}
  BY <1>2 DEF Stuck
<1>4. PICK l \in W : \A m \in W : ~(l < m)
  <2> HIDE DEF W
  <2>1. W \in SUBSET Locks
    BY DEF W
  <2>2. QED
    BY <1>3, <2>1, LastLock
<1>5. holder[l] \in D /\ l \in Held(holder[l])
  BY DEF Held
<1>6. PICK m \in W : m \in Wanted(holder[l])
  BY <1>2, <1>5
<1>7. l < m
  BY <1>1, <1>5, <1>6
<1>8. QED
  BY <1>4, <1>7

-----------------------------------------------------------------------------
THEOREM OrderInvariant == Spec => []OrderInv
<1>1. Init => OrderInv
  BY InitOrderInv
<1>2. OrderInv /\ [Next]_vars => OrderInv'
  BY OrderInvStep
<1>3. QED
  BY <1>1, <1>2, PTL DEF Spec

\* Whatever the sections of the other CPUs: no acquire() of a lock the CPU
\* holds, no release() of one it does not, and nothing held between sections.
THEOREM LocksAlwaysPaired == Spec => []LocksPaired
<1>1. OrderInv => LocksPaired
  <2> SUFFICES ASSUME OrderInv, NEW c \in CPU
               PROVE  /\ Wanted(c) \cap Held(c) = {}
                      /\ Releasing(c) \subseteq Held(c)
                      /\ todo[c] = <<>> => Held(c) = {}
    BY DEF LocksPaired
  <2>1. Wanted(c) \cap Held(c) = {}
    BY WantedInOrder DEF InOrder
  <2>2. QED
    BY <2>1, ReleasingHeld
<1>2. QED
  BY <1>1, OrderInvariant, PTL

\* wait_lock is taken with no other lock held, in kfork(), kexit(), kwait()
\* and waitx(), as the comment at its declaration demands.
THEOREM WaitLockAlwaysFirst == Spec => []WaitLockFirst
<1>1. OrderInv => WaitLockFirst
  <2> SUFFICES ASSUME OrderInv, NEW c \in CPU, wait_lock \in Wanted(c), NEW m \in Held(c)
               PROVE  FALSE
    BY DEF WaitLockFirst
  <2>1. InOrder(Held(c), wait_lock)
    BY WantedInOrder
  <2>2. m < wait_lock
    BY <2>1, LockFacts DEF InOrder
  <2>3. m \in Locks
    BY DEF Held
  <2>4. QED
    BY <2>2, <2>3, LockFacts
<1>2. QED
  BY <1>1, OrderInvariant, PTL

\* Every lock is taken after the ones already held, in the order wait_lock,
\* tickslock, proc[0].lock, proc[1].lock, ..., except tickslock in allocproc(),
\* which holds nothing but p->locks then.  That is the order sleep(), wakeup()
\* and the scan of the adaptive scheduler() rely on.
TakenInOrder == \A c \in CPU : \A l \in Wanted(c) : InOrder(Held(c), l)

THEOREM LocksTakenInOrder == Spec => []TakenInOrder
<1>1. OrderInv => TakenInOrder
  BY WantedInOrder DEF TakenInOrder
<1>2. QED
  BY <1>1, OrderInvariant, PTL

\* CPUs that spin on each other's locks for ever: one of them, at least, is in
\* allocproc(), reading ticks with the slot's p->lock held.
THEOREM DeadlockNeedsTicks == Spec => []OnlyTicksDeadlock
<1>1. OrderInv => OnlyTicksDeadlock
  BY StuckIsTicks DEF OnlyTicksDeadlock
<1>2. QED
  BY <1>1, OrderInvariant, PTL
=============================================================================
