------------------------------ MODULE FamilyAbs ------------------------------
(***************************************************************************)
(* What fork(), exit() and wait() promise: the family tree of the          *)
(* processes.  A process that exits hands all its children to init at once *)
(* and stays, as a zombie, until its parent's wait() collects it; a wait() *)
(* collects one child and ends with that.                                  *)
(*                                                                         *)
(* Nothing here is code: WaitExit implements this module.                  *)
(***************************************************************************)
CONSTANTS Slot,     \* the slots of the process table
          Root,     \* that of the first process, init
          Nobody

VARIABLES
    life,       \* "none", "alive" or "zombie"
    father,     \* who may collect it; Nobody for init and for a free slot
    waits       \* the processes that are in wait()

familyVars == <<life, father, waits>>

Init ==
    /\ life = [p \in Slot |-> IF p = Root THEN "alive" ELSE "none"]
    /\ father = [p \in Slot |-> Nobody]
    /\ waits = {}

Active(p) == life[p] = "alive" /\ p \notin waits

Fork(p, q) ==
    /\ Active(p) /\ life[q] = "none"
    /\ life' = [life EXCEPT ![q] = "alive"]
    /\ father' = [father EXCEPT ![q] = p]
    /\ UNCHANGED waits

\* init adopts the children.
Orphan(p) ==
    /\ Active(p) /\ p # Root
    /\ father' = [q \in Slot |-> IF father[q] = p THEN Root ELSE father[q]]
    /\ UNCHANGED <<life, waits>>

Die(p) ==
    /\ Active(p) /\ p # Root
    /\ \A q \in Slot : father[q] # p
    /\ life' = [life EXCEPT ![p] = "zombie"]
    /\ UNCHANGED <<father, waits>>

Wait(p) ==
    /\ Active(p)
    /\ waits' = waits \cup {p}
    /\ UNCHANGED <<life, father>>

\* wait() returns a child ...
Collect(p, q) ==
    /\ p \in waits /\ father[q] = p /\ life[q] = "zombie"
    /\ life' = [life EXCEPT ![q] = "none"]
    /\ father' = [father EXCEPT ![q] = Nobody]
    /\ waits' = waits \ {p}

\* ... or -1.
GiveUp(p) ==
    /\ p \in waits
    /\ waits' = waits \ {p}
    /\ UNCHANGED <<life, father>>

Next ==
    \E p \in Slot :
        \/ Orphan(p) \/ Die(p) \/ Wait(p) \/ GiveUp(p)
        \/ \E q \in Slot : Fork(p, q) \/ Collect(p, q)

Spec == Init /\ [][Next]_familyVars
=============================================================================
