----------------------------- MODULE HeavyQueue -----------------------------
(***************************************************************************)
(* The adaptive queue of CPU-heavy commands on a large machine             *)
(* (internal/runqueue/heavy.go, with the ticket and holder records of      *)
(* visibility.go and the Lease of queue.go).                               *)
(*                                                                         *)
(* Every WB process on the machine shares two directories: one file per    *)
(* waiting job ("ticket") and one per running job ("holder").  There is no *)
(* server: a job polls the directories, and admits itself under a flock.   *)
(* A record counts only while its process is alive and it was refreshed    *)
(* less than staleAfter ago; any reader deletes a record that does not     *)
(* count, AFTER it has read it, without a lock.                            *)
(*                                                                         *)
(* A job is one command, from RegisterHeavy to Lease.Release.  Wall-clock  *)
(* time is abstracted to whether a record is "fresh" or "stale".           *)
(***************************************************************************)
EXTENDS Integers, FiniteSets

CONSTANTS
    Jobs,         \* the heavy commands that may ask to run
    Pids,         \* the WB processes they run in
    PidOf,        \* the process of each job; the daemon runs several jobs
    Observer,     \* `wb run --queue`: reads the queue, never joins it
    None,         \* no job holds the admission lock
    N,            \* logical CPUs of the machine (numCPU)
    MaxStalls,    \* bound: how often records may go unrefreshed for staleAfter
    MaxCrashes,   \* bound: how many processes may die
    MaxFailures   \* bound: how many record writes or lock opens may fail

ASSUME JobsAssumption ==
    /\ IsFiniteSet(Jobs)
    /\ None \notin Jobs
    /\ Observer \notin Jobs
    /\ PidOf \in [Jobs -> Pids]

ASSUME NAssumption == N \in Nat /\ N >= 8

ASSUME BoundsAssumption ==
    MaxStalls \in Nat /\ MaxCrashes \in Nat /\ MaxFailures \in Nat

VARIABLES
    pc,          \* where each job is in RegisterHeavy / admitHeavy / Release
    alive,       \* which process ids name a running process
    path,        \* ticket.path # "": the job believes it has a ticket file
    older,       \* ticket.createdAt: the tickets with an earlier one
    ticket,      \* each job's file in heavy/waiting
    holder,      \* each job's file in heavy/running
    units,       \* the share decided for the job, stored in its holder file
    lock,        \* who holds heavy/admission.lock
    queued,      \* len(waitingTickets), read by the job that holds the lock
    hb,          \* the Lease's heartbeat goroutine
    deadTickets, \* the tickets a reader found dead and is about to delete
    deadHolders, \* likewise, the holder records
    ahead,       \* history: who was in line when a job joined, and still is
    overlooked,  \* history: jobs in good standing that a reader found dead
    stalls, crashes, failures

vars == <<pc, alive, path, older, ticket, holder, units, lock, queued, hb,
          deadTickets, deadHolders, ahead, overlooked, stalls, crashes, failures>>

queueVars == <<older, ahead>>
lockVars == <<lock, queued>>
doomed == <<deadTickets, deadHolders>>
boundVars == <<stalls, crashes, failures>>

-----------------------------------------------------------------------------
(* Admission arithmetic. *)

heavyDefensiveMax == 3

HeavyCap == (N * 3) \div 2

HeavyFloor == N \div 4

HeavyShare(k) == IF k <= 1 THEN N ELSE IF k = 2 THEN (N * 2) \div 3 ELSE N \div 2

\* The sum of the units already given to the holders in H: how many there are.
Allocated(H) == Cardinality(UNION {{j} \X (1..units[j]) : j \in H})

\* Mutant: the share is not clamped to the room that is left.
CandidateIgnoringRoom(H, w) == HeavyShare(Cardinality(H) + w)

\* The share of the next job when the holders in H run and w jobs wait.
HeavyAdmissionCandidate(H, w) ==
    LET share == HeavyShare(Cardinality(H) + w)
        room  == HeavyCap - Allocated(H)
    IN  IF share > room THEN room ELSE share

-----------------------------------------------------------------------------
(* Records. *)

FileState == {"absent", "fresh", "stale"}

\* Mutant: a record counts as long as its file exists.
IsLiveWhilePresent(file, j) == file[j] # "absent"

\* isLive: the process exists and the record was refreshed recently.
IsLive(file, j) == file[j] = "fresh" /\ alive[PidOf[j]]

Live(file) == {j \in Jobs : IsLive(file, j)}

Dead(file) == {j \in Jobs : file[j] # "absent" /\ ~IsLive(file, j)}

\* The phases in which a job waits for admission, and in which it holds a
\* share (its command runs, or its holder record is still to be removed).
Waiting == {"top", "peek", "trylock", "deciding", "counting", "refused", "announcing"}
Holding == {"forgetting", "unlocking", "running", "stopping"}

Phases == Waiting \cup Holding \cup {"idle", "stamped", "gone", "dead"}

Scanners == Jobs \cup {Observer}

\* Mutant: any live ticket may go first.
IsHeadUnordered(j) == path[j] /\ IsLive(ticket, j)

\* The oldest live ticket is j's own.
IsHead(j) ==
    /\ path[j]
    /\ IsLive(ticket, j)
    /\ Live(ticket) \cap older[j] = {}

\* A reader s has listed the tickets, or the holders: it is about to delete
\* every record that does not count.
ScanTickets(s) ==
    /\ deadTickets' = [deadTickets EXCEPT ![s] = Dead(ticket)]
    /\ overlooked' = overlooked \cup {j \in Dead(ticket) : pc[j] \in Waiting}
    /\ UNCHANGED deadHolders

ScanHolders(s) ==
    /\ deadHolders' = [deadHolders EXCEPT ![s] = Dead(holder)]
    /\ overlooked' = overlooked \cup {j \in Dead(holder) : pc[j] \in Holding}
    /\ UNCHANGED deadTickets

Idle(s) == deadTickets[s] = {} /\ deadHolders[s] = {}

-----------------------------------------------------------------------------
Init ==
    /\ pc = [j \in Jobs |-> "idle"]
    /\ alive = [p \in Pids |-> TRUE]
    /\ path = [j \in Jobs |-> FALSE]
    /\ older = [j \in Jobs |-> {}]
    /\ ticket = [j \in Jobs |-> "absent"]
    /\ holder = [j \in Jobs |-> "absent"]
    /\ units = [j \in Jobs |-> 0]
    /\ lock = None
    /\ queued = 0
    /\ hb = [j \in Jobs |-> "off"]
    /\ deadTickets = [s \in Scanners |-> {}]
    /\ deadHolders = [s \in Scanners |-> {}]
    /\ ahead = [j \in Jobs |-> {}]
    /\ overlooked = {}
    /\ stalls = 0
    /\ crashes = 0
    /\ failures = 0

\* j's goroutine is at `from`, has finished deleting what it found dead, and
\* moves to `to`.
Goto(j, from, to) ==
    /\ pc[j] = from
    /\ Idle(j)
    /\ pc' = [pc EXCEPT ![j] = to]

Fail == failures < MaxFailures /\ failures' = failures + 1

(* RegisterHeavy: take the creation time, then write the ticket file.  A    *)
(* failed write leaves a ticket without a path.                             *)
Stamp(j) ==
    /\ alive[PidOf[j]]
    /\ Goto(j, "idle", "stamped")
    /\ older' = [older EXCEPT ![j] =
                   {i \in Jobs : pc[i] \in Waiting \cup {"stamped", "forgetting", "dead"}}]
    /\ UNCHANGED <<alive, path, ticket, holder, units, lockVars, hb, doomed,
                   ahead, overlooked, boundVars>>

WriteTicket(j) ==
    /\ Goto(j, "stamped", "top")
    /\ path' = [path EXCEPT ![j] = TRUE]
    /\ ticket' = [ticket EXCEPT ![j] = "fresh"]
    /\ ahead' = [ahead EXCEPT ![j] =
                   {i \in older[j] : ticket[i] # "absent"}]
    /\ UNCHANGED <<alive, older, holder, units, lockVars, hb, doomed,
                   overlooked, boundVars>>

WriteTicketFails(j) ==
    /\ Goto(j, "stamped", "top")
    /\ Fail
    /\ UNCHANGED <<alive, path, queueVars, ticket, holder, units, lockVars, hb,
                   doomed, overlooked, stalls, crashes>>

(* admitHeavy, one round of its loop: refresh the ticket ... *)
Heartbeat(j) ==
    /\ Goto(j, "top", "peek")
    /\ ticket' = IF path[j] THEN [ticket EXCEPT ![j] = "fresh"] ELSE ticket
    /\ UNCHANGED <<alive, path, queueVars, holder, units, lockVars, hb, doomed,
                   overlooked, boundVars>>

\* ... look whether this job is the head of the queue ...
Peek(j) ==
    /\ \/ IsHead(j) /\ Goto(j, "peek", "trylock")
       \/ ~IsHead(j) /\ Goto(j, "peek", "top")
    /\ ScanTickets(j)
    /\ UNCHANGED <<alive, path, queueVars, ticket, holder, units, lockVars, hb,
                   boundVars>>

\* ... try the admission lock, without blocking ...
TryLock(j) ==
    /\ \/ /\ lock = None
          /\ lock' = j
          /\ Goto(j, "trylock", "deciding")
       \/ /\ lock # None
          /\ Goto(j, "trylock", "top")
          /\ UNCHANGED lock
    /\ UNCHANGED <<alive, path, queueVars, ticket, holder, units, queued, hb,
                   doomed, overlooked, boundVars>>

\* ... and, under the lock, look again ...
Decide(j) ==
    /\ \/ /\ IsHead(j)
          /\ Goto(j, "deciding", "counting")
          /\ queued' = Cardinality(Live(ticket))
       \/ /\ ~IsHead(j)
          /\ Goto(j, "deciding", "refused")
          /\ UNCHANGED queued
    /\ ScanTickets(j)
    /\ UNCHANGED <<alive, path, queueVars, ticket, holder, units, lock, hb,
                   boundVars>>

\* ... count the holders, and decide.
Admissible ==
    /\ Cardinality(Live(holder)) < heavyDefensiveMax
    /\ HeavyAdmissionCandidate(Live(holder), queued) >= HeavyFloor

Count(j) ==
    /\ \/ /\ Admissible
          /\ Goto(j, "counting", "announcing")
          /\ units' = [units EXCEPT ![j] =
                         HeavyAdmissionCandidate(Live(holder), queued)]
       \/ /\ ~Admissible
          /\ Goto(j, "counting", "refused")
          /\ UNCHANGED units
    /\ queued' = 0
    /\ ScanHolders(j)
    /\ UNCHANGED <<alive, path, queueVars, ticket, holder, lock, hb, boundVars>>

\* Mutant: the lock is released as soon as the holder record is written.
AnnounceThenUnlock(j) ==
    /\ Goto(j, "announcing", "forgetting")
    /\ holder' = [holder EXCEPT ![j] = "fresh"]
    /\ lock' = None
    /\ UNCHANGED <<alive, path, queueVars, ticket, units, queued, hb, doomed,
                   overlooked, boundVars>>

Announce(j) ==
    /\ Goto(j, "announcing", "forgetting")
    /\ holder' = [holder EXCEPT ![j] = "fresh"]
    /\ UNCHANGED <<alive, path, queueVars, ticket, units, lockVars, hb, doomed,
                   overlooked, boundVars>>

\* Mutant: a job is admitted although no holder record accounts for it.
AdmitUnannounced(j) ==
    /\ Goto(j, "announcing", "forgetting")
    /\ Fail
    /\ UNCHANGED <<alive, path, queueVars, ticket, holder, units, lockVars, hb,
                   doomed, overlooked, stalls, crashes>>

AnnounceFails(j) ==
    /\ Goto(j, "announcing", "refused")
    /\ Fail
    /\ UNCHANGED <<alive, path, queueVars, ticket, holder, units, lockVars, hb,
                   doomed, overlooked, stalls, crashes>>

\* Mutant: the refused job keeps the lock.
BackOffLocked(j) ==
    /\ Goto(j, "refused", "top")
    /\ units' = [units EXCEPT ![j] = 0]
    /\ UNCHANGED <<alive, path, queueVars, ticket, holder, lock, queued, hb, doomed,
                   overlooked, boundVars>>

\* Not the head any more, too many holders, too little room, or a failed
\* announcement: release the lock and wait for the next round.
BackOff(j) ==
    /\ Goto(j, "refused", "top")
    /\ lock' = None
    /\ units' = [units EXCEPT ![j] = 0]
    /\ UNCHANGED <<alive, path, queueVars, ticket, holder, queued, hb, doomed,
                   overlooked, boundVars>>

\* The ticket file of j is removed, and j is out of line.
LeaveQueue(j) ==
    /\ path' = [path EXCEPT ![j] = FALSE]
    /\ ticket' = IF path[j] THEN [ticket EXCEPT ![j] = "absent"] ELSE ticket
    /\ older' = [i \in Jobs |-> IF i = j THEN {} ELSE older[i] \ {j}]

\* ticket.Forget, still under the lock.
Forget(j) ==
    /\ Goto(j, "forgetting", "unlocking")
    /\ LeaveQueue(j)
    /\ ahead' = [i \in Jobs |-> ahead[i] \ {j}]
    /\ UNCHANGED <<alive, holder, units, lockVars, hb, doomed, overlooked,
                   boundVars>>

\* Release the admission lock and arm the Lease's heartbeat.
Unlock(j) ==
    /\ Goto(j, "unlocking", "running")
    /\ lock' = None
    /\ hb' = [hb EXCEPT ![j] = "idle"]
    /\ UNCHANGED <<alive, path, queueVars, ticket, holder, units, queued, doomed,
                   overlooked, boundVars>>

(* The context is cancelled while the job waits, or the lock file cannot be *)
(* opened: admitHeavy returns an error and the caller forgets the ticket.   *)
GiveUp(j, from) ==
    /\ Goto(j, from, "gone")
    /\ LeaveQueue(j)
    /\ ahead' = [i \in Jobs |-> IF i = j THEN {} ELSE ahead[i] \ {j}]
    /\ UNCHANGED <<alive, holder, units, lockVars, hb, doomed, overlooked, stalls,
                   crashes>>

Cancel(j) == GiveUp(j, "top") /\ UNCHANGED failures

LockError(j) == GiveUp(j, "trylock") /\ Fail

(* While admitHeavy waits in its goroutine, its caller also refreshes the  *)
(* ticket; a mutex orders this with Forget.                                *)
Refresh(j) ==
    /\ pc[j] \in Waiting \cup {"forgetting"}
    /\ path[j]
    /\ ticket' = [ticket EXCEPT ![j] = "fresh"]
    /\ UNCHANGED <<pc, alive, path, queueVars, holder, units, lockVars, hb,
                   doomed, overlooked, boundVars>>

(* The heartbeat goroutine rewrites the holder file, creating it again if a *)
(* reader has deleted it.                                                   *)
HeartbeatTick(j) ==
    /\ hb[j] = "idle"
    /\ hb' = [hb EXCEPT ![j] = "writing"]
    /\ UNCHANGED <<pc, alive, path, queueVars, ticket, holder, units, lockVars,
                   doomed, overlooked, boundVars>>

HeartbeatWrite(j) ==
    /\ hb[j] = "writing"
    /\ hb' = [hb EXCEPT ![j] = "idle"]
    /\ holder' = [holder EXCEPT ![j] = "fresh"]
    /\ UNCHANGED <<pc, alive, path, queueVars, ticket, units, lockVars, doomed,
                   overlooked, boundVars>>

HeartbeatExit(j) ==
    /\ hb[j] = "idle"
    /\ pc[j] = "stopping"
    /\ hb' = [hb EXCEPT ![j] = "off"]
    /\ UNCHANGED <<pc, alive, path, queueVars, ticket, holder, units, lockVars,
                   doomed, overlooked, boundVars>>

(* Lease.Release: ask the heartbeat to stop, wait for it, remove the record.*)
Release(j) ==
    /\ Goto(j, "running", "stopping")
    /\ UNCHANGED <<alive, path, queueVars, ticket, holder, units, lockVars, hb,
                   doomed, overlooked, boundVars>>

\* Mutant: Release does not wait for the heartbeat goroutine to end.
RemoveHolderAtOnce(j) ==
    /\ Goto(j, "stopping", "gone")
    /\ holder' = [holder EXCEPT ![j] = "absent"]
    /\ units' = [units EXCEPT ![j] = 0]
    /\ ahead' = [ahead EXCEPT ![j] = {}]
    /\ UNCHANGED <<alive, path, older, ticket, lockVars, hb, doomed, overlooked,
                   boundVars>>

RemoveHolder(j) ==
    /\ hb[j] = "off"
    /\ Goto(j, "stopping", "gone")
    /\ holder' = [holder EXCEPT ![j] = "absent"]
    /\ units' = [units EXCEPT ![j] = 0]
    /\ ahead' = [ahead EXCEPT ![j] = {}]
    /\ UNCHANGED <<alive, path, older, ticket, lockVars, hb, doomed, overlooked,
                   boundVars>>

-----------------------------------------------------------------------------
(* Readers delete what they found dead: by path, whatever it holds by now. *)
ReapTicket(s) ==
    /\ \E j \in deadTickets[s] :
         /\ deadTickets' = [deadTickets EXCEPT ![s] = @ \ {j}]
         /\ ticket' = [ticket EXCEPT ![j] = "absent"]
    /\ UNCHANGED <<pc, alive, path, queueVars, holder, units, lockVars, hb,
                   deadHolders, overlooked, boundVars>>

ReapHolder(s) ==
    /\ \E j \in deadHolders[s] :
         /\ deadHolders' = [deadHolders EXCEPT ![s] = @ \ {j}]
         /\ holder' = [holder EXCEPT ![j] = "absent"]
    /\ UNCHANGED <<pc, alive, path, queueVars, ticket, units, lockVars, hb,
                   deadTickets, overlooked, boundVars>>

\* ListQueue, Snapshot: the same readers, outside the lock.
Observe ==
    /\ Idle(Observer)
    /\ ScanTickets(Observer) \/ ScanHolders(Observer)
    /\ UNCHANGED <<pc, alive, path, queueVars, ticket, holder, units, lockVars,
                   hb, boundVars>>

-----------------------------------------------------------------------------
(* The environment. *)

Age(file, S) ==
    [j \in Jobs |-> IF j \in S /\ file[j] = "fresh" THEN "stale" ELSE file[j]]

\* The jobs of some processes do not refresh their records for staleAfter:
\* a suspended process, a machine that slept, a disk that is full.
Stall(P) ==
    /\ stalls < MaxStalls
    /\ stalls' = stalls + 1
    /\ LET S == {j \in Jobs : PidOf[j] \in P}
       IN  /\ ticket' = Age(ticket, S)
           /\ holder' = Age(holder, S)
    /\ UNCHANGED <<pc, alive, path, queueVars, units, lockVars, hb, doomed,
                   overlooked, crashes, failures>>

\* Nobody refreshes the records of a job that died.
Expire(j) ==
    /\ pc[j] = "dead"
    /\ ticket[j] = "fresh" \/ holder[j] = "fresh"
    /\ ticket' = Age(ticket, {j})
    /\ holder' = Age(holder, {j})
    /\ UNCHANGED <<pc, alive, path, queueVars, units, lockVars, hb, doomed,
                   overlooked, boundVars>>

\* A process dies with all its jobs; the kernel drops its flock.
Crash(p) ==
    /\ alive[p]
    /\ crashes < MaxCrashes
    /\ crashes' = crashes + 1
    /\ alive' = [alive EXCEPT ![p] = FALSE]
    /\ LET lost == {j \in Jobs : PidOf[j] = p /\ pc[j] \notin {"idle", "gone"}}
       IN  /\ pc' = [j \in Jobs |-> IF j \in lost THEN "dead" ELSE pc[j]]
           /\ hb' = [j \in Jobs |-> IF j \in lost THEN "off" ELSE hb[j]]
           /\ path' = [j \in Jobs |-> IF j \in lost THEN FALSE ELSE path[j]]
           /\ deadTickets' = [s \in Scanners |-> IF s \in lost THEN {} ELSE deadTickets[s]]
           /\ deadHolders' = [s \in Scanners |-> IF s \in lost THEN {} ELSE deadHolders[s]]
           /\ lock' = IF lock \in lost THEN None ELSE lock
           /\ queued' = IF lock \in lost THEN 0 ELSE queued
    /\ UNCHANGED <<queueVars, ticket, holder, units, overlooked, stalls, failures>>

\* The id of a dead process is given to a new one.
Reuse(p) ==
    /\ ~alive[p]
    /\ alive' = [alive EXCEPT ![p] = TRUE]
    /\ UNCHANGED <<pc, path, queueVars, ticket, holder, units, lockVars, hb, doomed,
                   overlooked, boundVars>>

-----------------------------------------------------------------------------
\* The steps a job takes by itself, once it has asked to run.
Step(j) ==
    \/ WriteTicket(j) \/ Heartbeat(j) \/ Peek(j) \/ TryLock(j)
    \/ Decide(j) \/ Count(j) \/ Announce(j) \/ BackOff(j) \/ Forget(j)
    \/ Unlock(j) \/ RemoveHolder(j) \/ ReapTicket(j) \/ ReapHolder(j)

Next ==
    \/ \E j \in Jobs :
         \/ Stamp(j) \/ Step(j) \/ Release(j)
         \/ HeartbeatTick(j) \/ HeartbeatWrite(j) \/ HeartbeatExit(j)
         \/ WriteTicketFails(j) \/ AnnounceFails(j) \/ LockError(j) \/ Cancel(j)
         \/ Refresh(j) \/ Expire(j)
    \/ Observe \/ ReapTicket(Observer) \/ ReapHolder(Observer)
    \/ \E P \in SUBSET Pids : Stall(P)
    \/ \E p \in Pids : Crash(p) \/ Reuse(p)

Spec == Init /\ [][Next]_vars

\* A running process keeps taking steps, an admitted command ends, a heartbeat
\* that is told to stop does so between two ticks, and the record of a dead
\* job ages.
Fairness ==
    \A j \in Jobs :
        /\ WF_vars(Step(j)) /\ WF_vars(Release(j)) /\ WF_vars(Expire(j))
        /\ WF_vars(HeartbeatWrite(j)) /\ SF_vars(HeartbeatExit(j))

FairSpec == Spec /\ Fairness

-----------------------------------------------------------------------------
TypeOK ==
    /\ pc \in [Jobs -> Phases]
    /\ alive \in [Pids -> BOOLEAN]
    /\ path \in [Jobs -> BOOLEAN]
    /\ older \in [Jobs -> SUBSET Jobs]
    /\ ticket \in [Jobs -> FileState]
    /\ holder \in [Jobs -> FileState]
    /\ lock \in Jobs \cup {None}
    /\ queued \in 0..Cardinality(Jobs)
    /\ hb \in [Jobs -> {"off", "idle", "writing"}]
    /\ deadTickets \in [Scanners -> SUBSET Jobs]
    /\ deadHolders \in [Scanners -> SUBSET Jobs]
    /\ ahead \in [Jobs -> SUBSET Jobs]
    /\ overlooked \in SUBSET Jobs
    /\ stalls \in Nat /\ crashes \in Nat /\ failures \in Nat

Holders == {j \in Jobs : pc[j] \in Holding}

\* Unless some reader has taken a running job for dead, the shares of the
\* jobs that hold one never exceed 1.5 N in total, however admissions,
\* releases, crashes and deletions interleave (heavy.go:40-43, 59-63).
CapRespected == overlooked = {} => Allocated(Holders) <= HeavyCap

\* The share each command holds.
granted == [j \in Jobs |-> IF pc[j] \in Holding THEN units[j] ELSE 0]

\* As long as no record goes unrefreshed (MaxStalls = 0) the queue behaves as
\* an indivisible budget of 1.5 N units: a share is given in one step, never
\* revised, and given back by the end of the command or the death of its
\* process (heavy.go:40-49, 135-139).
Budget == INSTANCE CpuBudget WITH Capacity <- HeavyCap

SharedBudget == Budget!Spec

\* Under the same condition at most heavyDefensiveMax jobs hold a share at
\* once: the count taken under the lock is never behind (heavy.go:65-78).
AtMostThree == overlooked = {} => Cardinality(Holders) <= heavyDefensiveMax

\* A holder record outlives its lease only when the process died: the
\* heartbeat never brings back a record that Release has removed
\* (queue.go:400-415, "resurrecting a ghost holder").
NoGhostHolder == \A j \in Jobs : holder[j] # "absent" => pc[j] \in Holding \cup {"dead"}

\* A job is on disk both as a waiter and as a holder only while it holds the
\* admission lock, so no admission decision counts it twice in k
\* (heavy.go:216-218).
NotCountedTwice ==
    \A j \in Jobs :
        pc[j] # "dead" /\ ticket[j] # "absent" /\ holder[j] # "absent" => lock = j

\* Strict FIFO: a job never gets a share before a job whose ticket was
\* already queued ahead of it and that still waits, unless a reader took the
\* latter for dead (heavy.go:43-44, "in strict FIFO order").
NoOvertaking ==
    \A j \in Holders : \A i \in ahead[j] : pc[i] \in Waiting => i \in overlooked

\* Every job that has a ticket is eventually admitted, unless it is cancelled
\* or its process dies: dead tickets do not block the queue, and a head that was
\* refused for want of room finds it once those that hold it have ended
\* (heavy.go:213-218).
WaiterServed ==
    \A j \in Jobs :
        (pc[j] \in Waiting /\ path[j]) ~> (pc[j] \in {"running", "gone", "dead"})
=============================================================================
