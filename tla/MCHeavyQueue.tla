---------------------------- MODULE MCHeavyQueue ----------------------------
(* Small instances of HeavyQueue for TLC. *)
EXTENDS HeavyQueue, TLC

CONSTANTS j1, j2, j3, j4, j5

\* Every job in a process of its own.
OwnProcess == [j \in Jobs |-> j]

\* The third job runs in the process of the first.
TwoProcesses == [j \in Jobs |-> IF j = j2 THEN j2 ELSE j1]

\* Three jobs while nothing stalls or dies, otherwise two and one such event.
\* Joining, stalling and dying are what this cuts off, and no fairness is assumed
\* of them.
ThirdOnlyWhenCalm == stalls + crashes <= IF pc[j3] = "idle" THEN 1 ELSE 0

JobSymmetry == Permutations(Jobs)
=============================================================================
