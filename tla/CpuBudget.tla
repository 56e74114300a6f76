----------------------------- MODULE CpuBudget ------------------------------
(***************************************************************************)
(* What both pools of internal/runqueue promise their callers: a command   *)
(* gets its whole share of the machine in one indivisible step, keeps it   *)
(* unchanged until it gives it back, and the shares given out never exceed *)
(* the capacity.  There is no lock, no file and no poll loop here.         *)
(***************************************************************************)
EXTENDS Integers, FiniteSets

CONSTANTS Jobs, Capacity

VARIABLE granted   \* the units each command holds; 0 when it holds none

\* The units that are out, one by one.
Total == Cardinality(UNION {{j} \X (1..granted[j]) : j \in Jobs})

Init == granted = [j \in Jobs |-> 0]

Grant(j) ==
    /\ granted[j] = 0
    /\ \E u \in 1..(Capacity - Total) : granted' = [granted EXCEPT ![j] = u]

\* A command ends, or all commands of a process die together.
Return(S) == granted' = [j \in Jobs |-> IF j \in S THEN 0 ELSE granted[j]]

Next ==
    \/ \E j \in Jobs : Grant(j)
    \/ \E S \in SUBSET Jobs : Return(S)

Spec == Init /\ [][Next]_granted
=============================================================================
