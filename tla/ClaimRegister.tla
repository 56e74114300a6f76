---------------------------- MODULE ClaimRegister ---------------------------
(***************************************************************************)
(* What the claims of one task would be with a server that arbitrates: a   *)
(* register that names the holder, changed in one step by a machine that   *)
(* holds the claim, finds none, or was asked to replace the holder it      *)
(* finds.  There are no clones, pushes, rebases or lost answers here.      *)
(***************************************************************************)
CONSTANTS Machines, Free, Bad

VARIABLES
    holder,     \* who holds the claim: a machine, Free, or Bad if unreadable
    asked,      \* per machine: the holders it has been asked to replace
    believes,   \* machines last told that the claim is theirs
    displaced   \* machines whose claim was replaced on purpose

Init ==
    /\ holder \in {Free, Bad}
    /\ asked = [m \in Machines |-> {}]
    /\ believes = {} /\ displaced = {}

\* A machine is asked to replace some holders, or no longer is; when it asks
\* for a release it ceases to count on its claim.
Ask(m) ==
    /\ \E H \in SUBSET (Machines \cup {Bad}) : asked' = [asked EXCEPT ![m] = H]
    /\ believes' \in {believes, believes \ {m}}
    /\ UNCHANGED <<holder, displaced>>

\* Compare and swap.  Only a machine that does not count on its claim frees
\* the register, and a machine may be told that the claim is now its own.
Swap(m) ==
    /\ holder \in {m, Free} \cup asked[m]
    /\ \E new \in {m, Free} :
         /\ holder' = new
         /\ new = Free => m \notin believes
         /\ displaced' = (displaced \cup ({holder} \cap asked[m] \cap Machines)) \ {new}
         /\ believes' \in {believes, believes \cup ({new} \cap {m})}
    /\ asked' = [asked EXCEPT ![m] = {}]

\* A machine is told late: the claim is its own, or was until it was displaced.
Confirm(m) ==
    /\ m = holder \/ m \in displaced
    /\ believes' = believes \cup {m}
    /\ asked' = [asked EXCEPT ![m] = {}]
    /\ UNCHANGED <<holder, displaced>>

Next == \E m \in Machines : Ask(m) \/ Swap(m) \/ Confirm(m)

Spec == Init /\ [][Next]_<<holder, asked, believes, displaced>>
=============================================================================
