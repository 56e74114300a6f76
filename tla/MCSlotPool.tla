----------------------------- MODULE MCSlotPool -----------------------------
(* Small instances of SlotPool for TLC. *)
EXTENDS SlotPool

CONSTANTS a, b, c

\* A focused job, a broad one, and one that asks for more than there is
\* (smallMachineUnits, AdmitExplicit).
MixedUnits == [j \in Jobs |-> IF j = a THEN 1 ELSE IF j = b THEN 2 ELSE Budget + 1]
=============================================================================
