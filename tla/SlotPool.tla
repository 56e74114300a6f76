------------------------------ MODULE SlotPool ------------------------------
(***************************************************************************)
(* The budget-sum pool of internal/runqueue (Acquire, Lease.Release and    *)
(* admitLegacy in queue.go; Announce, Heartbeat, Cleanup and readHolders   *)
(* in visibility.go), used on small machines, by AdmitExplicit and by      *)
(* repository events.                                                      *)
(*                                                                         *)
(* The budget is a row of slot files.  A command takes slots one flock at  *)
(* a time, never waits while it holds some, and describes every slot it    *)
(* got in a holder record beside the slot file, for `wb run --queue`.      *)
(***************************************************************************)
EXTENDS Integers, FiniteSets

CONSTANTS
    Jobs,         \* the callers: each runs one command after the other, every
                  \* command in a process of its own
    None,         \* no owner, no record
    Units,        \* the units each command asks for
    Budget,       \* the number of slots
    MaxFaults     \* bound: how often a command may die, a slot open or a record
                  \* write may fail, or records may go unrefreshed for staleAfter

ASSUME JobsAssumption == None \notin Jobs /\ IsFiniteSet(Jobs)

ASSUME UnitsAssumption == Budget \in Nat \ {0} /\ Units \in [Jobs -> Nat \ {0}]

ASSUME BoundsAssumption == MaxFaults \in Nat

Slots == 0..(Budget - 1)

VARIABLES
    pc,         \* where each command is in admitLegacy / Release
    next,       \* the slot its current pass looks at next
    flock,      \* who holds each slot file
    record,     \* whose holder record lies beside each slot file
    stale,      \* the records not refreshed for staleAfter
    paths,      \* Announcement.paths: the records a command believes it wrote
    hb,         \* the Lease's heartbeat goroutine
    beating,    \* the records its write in flight covers
    doomed,     \* the records a reader found dead and is about to delete
    faults      \* faults so far

vars == <<pc, next, flock, record, stale, paths, hb, beating, doomed, faults>>
recordVars == <<record, stale, paths, hb, beating, doomed>>

\* The phases in which a command has its units, in which Release lets go of
\* its slots one by one, and in which the lease still owes a cleanup.
Using == {"announcing", "running", "stopping"}
LettingGo == {"undoing", "abandoning", "unlocking"}
Phases == Using \cup LettingGo \cup {"idle", "scanning", "sleeping", "cleaning", "dead"}

\* A request beyond the budget is clamped to it.
Want(j) == IF Units[j] > Budget THEN Budget ELSE Units[j]

\* lease.files
Held(j) == {s \in Slots : flock[s] = j}

Init ==
    /\ pc = [j \in Jobs |-> "idle"]
    /\ next = [j \in Jobs |-> 0]
    /\ flock = [s \in Slots |-> None]
    /\ record = [s \in Slots |-> None]
    /\ stale = {}
    /\ paths = [j \in Jobs |-> {}]
    /\ hb = [j \in Jobs |-> "off"]
    /\ beating = [j \in Jobs |-> {}]
    /\ doomed = {}
    /\ faults = 0

\* The first and the last slot of a list of slots.
Lowest(S) == {s \in S : \A t \in S : s <= t}
Highest(S) == {s \in S : \A t \in S : t <= s}

Goto(j, from, to) == pc[j] = from /\ pc' = [pc EXCEPT ![j] = to]

Fault == faults < MaxFaults /\ faults' = faults + 1

-----------------------------------------------------------------------------
(* Acquire. *)

\* Mutant: a retry goes on behind the last slot of the pass before.
AttemptWithoutRewind(j) ==
    /\ Goto(j, "idle", "scanning") \/ Goto(j, "sleeping", "scanning")
    /\ UNCHANGED <<next, flock, recordVars, faults>>

\* A new attempt: with nothing in hand, from slot 0.
Attempt(j) ==
    /\ Goto(j, "idle", "scanning") \/ Goto(j, "sleeping", "scanning")
    /\ next' = [next EXCEPT ![j] = 0]
    /\ UNCHANGED <<flock, recordVars, faults>>

\* Mutant: a slot in use is taken all the same.
TrySlotUnchecked(j) ==
    /\ pc[j] = "scanning"
    /\ next[j] < Budget /\ Cardinality(Held(j)) < Want(j)
    /\ flock' = [flock EXCEPT ![next[j]] = j]
    /\ next' = [next EXCEPT ![j] = @ + 1]
    /\ UNCHANGED <<pc, recordVars, faults>>

\* Try the next slot without blocking; a slot in use is skipped.
TrySlot(j) ==
    /\ pc[j] = "scanning"
    /\ next[j] < Budget /\ Cardinality(Held(j)) < Want(j)
    /\ flock' = IF flock[next[j]] = None THEN [flock EXCEPT ![next[j]] = j] ELSE flock
    /\ next' = [next EXCEPT ![j] = @ + 1]
    /\ UNCHANGED <<pc, recordVars, faults>>

\* The slot file cannot be opened: give everything back, return the error.
OpenFails(j) ==
    /\ next[j] < Budget /\ Cardinality(Held(j)) < Want(j)
    /\ Goto(j, "scanning", "abandoning")
    /\ next' = [next EXCEPT ![j] = 0]
    /\ Fault
    /\ UNCHANGED <<flock, recordVars>>

Acquired(j) ==
    /\ Cardinality(Held(j)) = Want(j)
    /\ Goto(j, "scanning", "announcing")
    /\ next' = [next EXCEPT ![j] = 0]
    /\ UNCHANGED <<flock, recordVars, faults>>

\* Not enough slots in this pass: give the partial locks back, then sleep.
Short(j) ==
    /\ next[j] = Budget /\ Cardinality(Held(j)) < Want(j)
    /\ Goto(j, "scanning", "undoing")
    /\ UNCHANGED <<next, flock, recordVars, faults>>

\* The context ends while the command sleeps.
Cancel(j) ==
    /\ Goto(j, "sleeping", "idle")
    /\ next' = [next EXCEPT ![j] = 0]
    /\ UNCHANGED <<flock, recordVars, faults>>

-----------------------------------------------------------------------------
(* Announce, the heartbeat, Release and Cleanup. *)

\* The slots of j that a pass over lease.files has still to visit.
Left(j) == {s \in Held(j) : s >= next[j]}

\* Announce describes the slots in turn; one it cannot write stays anonymous.
Announce(j) ==
    /\ pc[j] = "announcing"
    /\ \E s \in Lowest(Left(j)) :
           /\ next' = [next EXCEPT ![j] = s + 1]
           /\ \/ /\ record' = [record EXCEPT ![s] = j]
                 /\ stale' = stale \ {s}
                 /\ paths' = [paths EXCEPT ![j] = @ \cup {s}]
                 /\ UNCHANGED faults
              \/ Fault /\ UNCHANGED <<record, stale, paths>>
    /\ UNCHANGED <<pc, flock, hb, beating, doomed>>

\* Everything is announced: arm the heartbeat, run the command.
Run(j) ==
    /\ Left(j) = {}
    /\ Goto(j, "announcing", "running")
    /\ next' = [next EXCEPT ![j] = 0]
    /\ hb' = [hb EXCEPT ![j] = "idle"]
    /\ UNCHANGED <<flock, record, stale, paths, beating, doomed, faults>>

HeartbeatTick(j) ==
    /\ hb[j] = "idle"
    /\ hb' = [hb EXCEPT ![j] = "writing"]
    /\ beating' = [beating EXCEPT ![j] = paths[j]]
    /\ UNCHANGED <<pc, next, flock, record, stale, paths, doomed, faults>>

\* Write the records again, those that a reader deleted included.
HeartbeatWrite(j) ==
    /\ hb[j] = "writing"
    /\ hb' = [hb EXCEPT ![j] = "idle"]
    /\ beating' = [beating EXCEPT ![j] = {}]
    /\ record' = [s \in Slots |-> IF s \in beating[j] THEN j ELSE record[s]]
    /\ stale' = stale \ beating[j]
    /\ UNCHANGED <<pc, next, flock, paths, doomed, faults>>

HeartbeatExit(j) ==
    /\ hb[j] = "idle" /\ pc[j] = "stopping"
    /\ hb' = [hb EXCEPT ![j] = "off"]
    /\ UNCHANGED <<pc, next, flock, record, stale, paths, beating, doomed, faults>>

Release(j) ==
    /\ Goto(j, "running", "stopping")
    /\ UNCHANGED <<next, flock, recordVars, faults>>

\* Mutant: Release does not wait for the heartbeat goroutine to end.
StoppedAtOnce(j) ==
    /\ Goto(j, "stopping", "unlocking")
    /\ UNCHANGED <<next, flock, recordVars, faults>>

\* The heartbeat goroutine has ended.
Stopped(j) ==
    /\ hb[j] = "off"
    /\ Goto(j, "stopping", "unlocking")
    /\ UNCHANGED <<next, flock, recordVars, faults>>

\* Mutant: the loop over lease.files stops short of its first element.
UnlockAllButFirst(j) ==
    /\ pc[j] \in LettingGo
    /\ \/ /\ Cardinality(Held(j)) > 1
          /\ \E s \in Highest(Held(j)) : flock' = [flock EXCEPT ![s] = None]
          /\ UNCHANGED pc
       \/ /\ Cardinality(Held(j)) <= 1
          /\ \/ Goto(j, "undoing", "sleeping")
             \/ Goto(j, "abandoning", "idle")
             \/ Goto(j, "unlocking", "cleaning")
          /\ UNCHANGED flock
    /\ UNCHANGED <<next, recordVars, faults>>

\* Unlock the slots, last one first; then sleep, fail, or clean up.
Unlock(j) ==
    /\ pc[j] \in LettingGo
    /\ \/ /\ Held(j) # {}
          /\ \E s \in Highest(Held(j)) : flock' = [flock EXCEPT ![s] = None]
          /\ UNCHANGED pc
       \/ /\ Held(j) = {}
          /\ \/ Goto(j, "undoing", "sleeping")
             \/ Goto(j, "abandoning", "idle")
             \/ Goto(j, "unlocking", "cleaning")
          /\ UNCHANGED flock
    /\ UNCHANGED <<next, recordVars, faults>>

\* extraRelease, after the unlock: delete the records by path.
Cleanup(j) ==
    /\ pc[j] = "cleaning"
    /\ \/ /\ paths[j] # {}
          /\ \E s \in Lowest(paths[j]) :
                 /\ record' = [record EXCEPT ![s] = None]
                 /\ stale' = stale \ {s}
                 /\ paths' = [paths EXCEPT ![j] = @ \ {s}]
          /\ UNCHANGED pc
       \/ /\ paths[j] = {}
          /\ Goto(j, "cleaning", "idle")
          /\ UNCHANGED <<record, stale, paths>>
    /\ UNCHANGED <<next, flock, hb, beating, doomed, faults>>

-----------------------------------------------------------------------------
(* readHolders, by `wb run --queue` and by waiting commands. *)

Dead == {s \in Slots : record[s] # None /\ (s \in stale \/ pc[record[s]] = "dead")}

\* A reader looks at one slot after the other, and deletes the record it finds
\* dead by its path, whatever lies there by then.
Observe ==
    /\ \E s \in Dead \ doomed : doomed' = doomed \cup {s}
    /\ UNCHANGED <<pc, next, flock, record, stale, paths, hb, beating, faults>>

Reap ==
    /\ \E s \in doomed :
         /\ doomed' = doomed \ {s}
         /\ record' = [record EXCEPT ![s] = None]
         /\ stale' = stale \ {s}
    /\ UNCHANGED <<pc, next, flock, paths, hb, beating, faults>>

(* The environment. *)

Stall(S) ==
    /\ Fault
    /\ \E s \in S : record[s] # None
    /\ stale' = stale \cup {s \in S : record[s] # None}
    /\ UNCHANGED <<pc, next, flock, record, paths, hb, beating, doomed>>

\* A command dies and the kernel drops its flocks; its records stay.
Crash(j) ==
    /\ pc[j] \notin {"idle", "dead"}
    /\ Fault
    /\ pc' = [pc EXCEPT ![j] = "dead"]
    /\ flock' = [s \in Slots |-> IF flock[s] = j THEN None ELSE flock[s]]
    /\ hb' = [hb EXCEPT ![j] = "off"]
    /\ beating' = [beating EXCEPT ![j] = {}]
    /\ paths' = [paths EXCEPT ![j] = {}]
    /\ next' = [next EXCEPT ![j] = 0]
    /\ UNCHANGED <<record, stale, doomed>>

-----------------------------------------------------------------------------
Step(j) ==
    \/ TrySlot(j) \/ Acquired(j) \/ Short(j) \/ Announce(j) \/ Run(j)
    \/ Stopped(j) \/ Unlock(j) \/ Cleanup(j)

Next ==
    \/ \E j \in Jobs :
         \/ Attempt(j) \/ Step(j) \/ OpenFails(j) \/ Cancel(j)
         \/ HeartbeatTick(j) \/ HeartbeatWrite(j) \/ HeartbeatExit(j) \/ Release(j)
         \/ Crash(j)
    \/ Observe \/ Reap
    \/ \E S \in SUBSET Slots : Stall(S)

Spec == Init /\ [][Next]_vars

\* A running process keeps taking steps and retries after it slept, a command
\* ends, and a heartbeat that is told to stop does so between two ticks.
Fairness ==
    \A j \in Jobs :
        /\ WF_vars(Step(j) \/ Release(j) \/ (pc[j] = "sleeping" /\ Attempt(j)))
        /\ WF_vars(HeartbeatWrite(j)) /\ SF_vars(HeartbeatExit(j))

FairSpec == Spec /\ Fairness

-----------------------------------------------------------------------------
TypeOK ==
    /\ pc \in [Jobs -> Phases]
    /\ next \in [Jobs -> 0..Budget]
    /\ flock \in [Slots -> Jobs \cup {None}]
    /\ record \in [Slots -> Jobs \cup {None}]
    /\ stale \in SUBSET {s \in Slots : record[s] # None}
    /\ paths \in [Jobs -> SUBSET Slots]
    /\ hb \in [Jobs -> {"off", "idle", "writing"}]
    /\ beating \in [Jobs -> SUBSET Slots]
    /\ doomed \in SUBSET Slots
    /\ faults \in 0..MaxFaults

\* A command never waits while it holds slots, so multi-unit commands cannot
\* deadlock one another: after a failed pass, and after the whole lease, every
\* slot is back, whatever the other commands did meanwhile (queue.go:473-476).
NoHoldAndWait == \A j \in Jobs : pc[j] \in {"idle", "sleeping", "cleaning", "dead"} => Held(j) = {}

\* A command runs only with all its units, and keeps them until it ends
\* (queue.go:474, "either acquires every requested slot or releases all").
FullyGranted == \A j \in Jobs : pc[j] \in Using => Cardinality(Held(j)) = Want(j)

\* No holder record outlives its lease, unless the command died: a heartbeat
\* in flight never brings a record back after Cleanup (queue.go:400-415).
NoGhostRecord ==
    \A s \in Slots : record[s] # None =>
        \/ pc[record[s]] = "dead"
        \/ pc[record[s]] \in Using \cup {"unlocking", "cleaning"} /\ s \in paths[record[s]]

\* The units each command has.
granted == [j \in Jobs |-> IF pc[j] \in Using THEN Want(j) ELSE 0]

\* The pool behaves as a counting budget: units are taken all at once, kept,
\* and given back, and never more than Budget of them are out (queue.go:471).
Pool == INSTANCE CpuBudget WITH Capacity <- Budget

CountingBudget == Pool!Spec

\* Two commands that both need several slots are trying for them.
Contended ==
    \E i, j \in Jobs : /\ i # j /\ Want(i) > 1 /\ Want(j) > 1
                       /\ {pc[i], pc[j]} \subseteq {"scanning", "undoing", "sleeping"}

\* Another command has just got its slots.
Overtaken(j) == \E i \in Jobs \ {j} : pc[i] = "announcing"

\* Without a fairness ordering (queue.go:476) a command can starve, in two ways
\* only: two that need several slots keep taking partial locks from each other,
\* and from whoever else asks; or the slots keep going to others, that is, to
\* commands that keep coming.  A command that asked, of several units too, is
\* served in the end when neither goes on for ever and commands end, unless it
\* is cancelled or dies.
ServedUnlessCrowdedOut ==
    \A j \in Jobs :
        pc[j] = "scanning" ~> pc[j] \in {"running", "idle", "dead"} \/ Contended \/ Overtaken(j)
=============================================================================
