------------------------------ MODULE SchedAbs ------------------------------
(***************************************************************************)
(* What every scheduler of this repository promises, whatever its policy:  *)
(* a process executes on at most one CPU at a time, a CPU takes up only a  *)
(* process that is RUNNABLE and whose registers are saved (no CPU is still *)
(* on its kernel stack), and nothing wakes or frees a process before it    *)
(* has left its CPU.                                                       *)
(*                                                                         *)
(* Nothing here is code: the detailed modules implement this one.          *)
(***************************************************************************)
CONSTANTS CPU,      \* the harts
          Proc,     \* the slots of proc[]
          None      \* "no process", the null pointer

VARIABLES state,    \* p->state
          running   \* the process whose kernel stack a CPU executes on

vars == <<state, running>>

States == {"UNUSED", "USED", "SLEEPING", "RUNNABLE", "RUNNING", "ZOMBIE"}

Init ==
    /\ \E init \in Proc :
          state = [p \in Proc |-> IF p = init THEN "RUNNABLE" ELSE "UNUSED"]
    /\ running = [c \in CPU |-> None]

OffCpu(p) == \A c \in CPU : running[c] # p

\* A slot is claimed for a new process.
Create(p) ==
    /\ state[p] = "UNUSED"
    /\ state' = [state EXCEPT ![p] = "USED"]
    /\ UNCHANGED running

\* A new or a sleeping process becomes eligible to run.
Ready(p) ==
    /\ state[p] \in {"USED", "SLEEPING"}
    /\ OffCpu(p)
    /\ state' = [state EXCEPT ![p] = "RUNNABLE"]
    /\ UNCHANGED running

\* A CPU with nothing to do takes up an eligible process.
Dispatch(c, p) ==
    /\ running[c] = None
    /\ state[p] = "RUNNABLE"
    /\ OffCpu(p)
    /\ state' = [state EXCEPT ![p] = "RUNNING"]
    /\ running' = [running EXCEPT ![c] = p]

\* The process on c gives the CPU up; it is still on its kernel stack.
Block(c) ==
    /\ running[c] # None
    /\ state[running[c]] = "RUNNING"
    /\ \E s \in {"RUNNABLE", "SLEEPING", "ZOMBIE"} :
          state' = [state EXCEPT ![running[c]] = s]
    /\ UNCHANGED running

\* The registers are saved and the CPU is back on its own stack.
Leave(c) ==
    /\ running[c] # None
    /\ state[running[c]] # "RUNNING"
    /\ running' = [running EXCEPT ![c] = None]
    /\ UNCHANGED state

\* The slot of an exited process is given back.
Free(p) ==
    /\ state[p] = "ZOMBIE"
    /\ OffCpu(p)
    /\ state' = [state EXCEPT ![p] = "UNUSED"]
    /\ UNCHANGED running

Next ==
    \/ \E p \in Proc : Create(p) \/ Ready(p) \/ Free(p)
    \/ \E c \in CPU : Block(c) \/ Leave(c) \/ \E p \in Proc : Dispatch(c, p)

Spec == Init /\ [][Next]_vars
=============================================================================
