------------------------- MODULE OperationLifecycle -------------------------
(***************************************************************************)
(* What the daemon promises about an operation: its command starts at most *)
(* once and never while the operation is queued, its result is recorded    *)
(* once, and it comes to rest in a state that is true.  There are no       *)
(* files, goroutines, leases or worker processes here; a failure shows     *)
(* only as "recovery", the state that asks a person to look.               *)
(***************************************************************************)
EXTENDS Naturals

CONSTANT Ids

VARIABLES
    state,   \* per operation: its state as reported
    runs,    \* per operation: how often its command was started
    result   \* per operation: how its command ended

Init ==
    /\ state = [o \in Ids |-> "absent"]
    /\ runs = [o \in Ids |-> 0]
    /\ result = [o \in Ids |-> "none"]

Submit(o) ==
    /\ state[o] = "absent"
    /\ state' = [state EXCEPT ![o] = "queued"]
    /\ UNCHANGED <<runs, result>>

Launch(o) ==
    /\ state[o] = "queued"
    /\ state' = [state EXCEPT ![o] = "running"]
    /\ UNCHANGED <<runs, result>>

\* Whoever has been given the operation may start it before it hears that it
\* was cancelled or given up.  Whether one in these states was ever given to
\* anybody is not recorded here.
Start(o) ==
    /\ state[o] \in {"running", "cancelled", "recovery"}
    /\ runs[o] = 0 /\ result[o] = "none"
    /\ runs' = [runs EXCEPT ![o] = 1]
    /\ UNCHANGED <<state, result>>

\* The command ends; one that was not started, for want of permission or of
\* time, has failed.
End(o, r) ==
    /\ result[o] = "none"
    /\ runs[o] = 1 \/ r = "bad"
    /\ result' = [result EXCEPT ![o] = r]
    /\ UNCHANGED <<state, runs>>

\* The states an operation that is queued or running may end in.
Ends(o) ==
    {"cancelled", "recovery"}
        \cup (IF runs[o] = 1 /\ result[o] = "ok" THEN {"succeeded"} ELSE {})
        \cup (IF state[o] = "running" /\ result[o] = "bad" THEN {"failed"} ELSE {})

Settle(o) ==
    /\ state[o] \in {"queued", "running"}
    /\ \E s \in Ends(o) : state' = [state EXCEPT ![o] = s]
    /\ UNCHANGED <<runs, result>>

\* A worker or the daemon is gone.  What they had in hand is left to a person,
\* and a launch of which no trace was written is taken back.
Recover(lost, unlaunched) ==
    /\ \A o \in lost : state[o] \in {"queued", "running"}
    /\ \A o \in unlaunched : state[o] = "recovery" /\ runs[o] = 0 /\ result[o] = "none"
    /\ state' = [o \in Ids |-> IF o \in lost THEN "recovery"
                               ELSE IF o \in unlaunched THEN "queued" ELSE state[o]]
    /\ UNCHANGED <<runs, result>>

Next ==
    \/ \E o \in Ids : Submit(o) \/ Launch(o) \/ Start(o) \/ Settle(o)
    \/ \E o \in Ids, r \in {"ok", "bad"} : End(o, r)
    \/ \E lost, unlaunched \in SUBSET Ids : Recover(lost, unlaunched)

Spec == Init /\ [][Next]_<<state, runs, result>>
=============================================================================
