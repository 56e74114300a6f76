---------------------------- MODULE LandingLane -----------------------------
(***************************************************************************)
(* Ownership of one landing lane, a (repository, target branch) pair       *)
(* (internal/landinglane), as the landing commands use it                  *)
(* (internal/orchestrate/landing_lane_guard.go and its callers,            *)
(* internal/landingcontext, cmd/wb/lane.go).                               *)
(*                                                                         *)
(* The lane is a record on disk, not a lock: it names the session and the  *)
(* command that drive the lane.  A flock makes every single Acquire,       *)
(* Heartbeat, Release and ReleaseIdle indivisible; between those calls     *)
(* commands run, exit, crash and are taken over in any order.              *)
(*                                                                         *)
(* Time is abstracted to whether the record's heartbeat is older than      *)
(* DefaultDeadOperationStaleAfter.                                         *)
(***************************************************************************)
EXTENDS Integers, FiniteSets

CONSTANTS
    Sessions,        \* WB sessions: an agent or a person with a harness
    Ops,             \* landing commands
    SessionOf,       \* the session that runs each command
    LegacyOwners,    \* the sessions that may own the lane by a legacy record at first
    Kind,            \* "pr": wb pr land / create; "prepare", "land": wb worktree merge
    None,            \* no record; also the operation of a legacy record
    Corrupt,         \* a record that cannot be parsed
    MaxTakeovers,    \* bound: explicit --take-over-lane overrides
    MaxFaults,       \* bound: damaged records and failed writes
    MaxReuses        \* bound: how often a process id is given out again

\* What a lane's file can hold.
Records == [session : Sessions, op : Ops \cup {None}, age : {"fresh", "old"}]

ASSUME LaneAssumption ==
    /\ SessionOf \in [Ops -> Sessions]
    /\ LegacyOwners \in SUBSET Sessions
    /\ Kind \in [Ops -> {"pr", "prepare", "land"}]
    /\ None \notin Ops
    /\ None \notin Records /\ Corrupt \notin Records /\ None # Corrupt
    /\ MaxTakeovers \in Nat /\ MaxFaults \in Nat /\ MaxReuses \in Nat

VARIABLES
    op,         \* what each command is doing
    session,    \* the sessions whose harness runs (the session registry)
    lane,       \* the lane record
    reused,     \* commands that ended and whose process id names another process
    stolen,     \* history: drivers whose lane was taken over explicitly
    dropped,    \* history: drivers whose record a command of their own session removed
    takeovers, faults, reuses

vars == <<op, session, lane, reused, stolen, dropped, takeovers, faults, reuses>>
boundVars == <<takeovers, faults, reuses>>

Found == lane \notin {None, Corrupt}

\* What a process table says: a command that runs, or a process that was given
\* the id of one that ran.
Running == {"asking", "driving", "unguarded", "leaving"}

Alive(o) == op[o] \in Running \/ o \in reused

\* The commands that drive the lane because Acquire admitted them.
Drivers == {o \in Ops : op[o] = "driving"}

\* legacyOperationActive: another WB command runs.
OtherRunning(o) == \E i \in Ops \ {o} : op[i] \in Running

Init ==
    /\ op = [o \in Ops |-> "new"]
    /\ session = Sessions
    /\ \/ lane = None
       \/ \E s \in LegacyOwners : lane = [session |-> s, op |-> None, age |-> "fresh"]
    /\ reused = {} /\ stolen = {} /\ dropped = {}
    /\ takeovers = 0 /\ faults = 0 /\ reuses = 0

-----------------------------------------------------------------------------
(* Acquire. *)

Own(o) == [session |-> SessionOf[o], op |-> o, age |-> "fresh"]

\* The same session has another command on the lane, as far as can be told.
Busy(o) ==
    /\ Found /\ lane.session = SessionOf[o]
    /\ IF lane.op = None THEN OtherRunning(o) ELSE lane.op # o /\ Alive(lane.op)

\* defaultOwnerLive
OwnerLive == (lane.op # None /\ Alive(lane.op)) \/ lane.session \in session

\* Mutant: a command that exited keeps the lane while its session lives.
DeadOpOfDeadSession == lane.op # None /\ ~Alive(lane.op) /\ lane.session \notin session

\* The owner's command has exited and nothing refreshed the record since.
DeadOpStale == lane.op # None /\ ~Alive(lane.op) /\ lane.age = "old"

\* Mutant: an old heartbeat is enough, whatever the owner's command does.
HeldByAgeOnly(o) == Found /\ lane.session # SessionOf[o] /\ OwnerLive /\ lane.age = "fresh"

\* A different owner that may not be taken over implicitly.
Held(o) == Found /\ lane.session # SessionOf[o] /\ OwnerLive /\ ~DeadOpStale

Refused(o) == Busy(o) \/ Held(o) \/ lane = Corrupt

\* ResolveOwner: the command looks its session up once, before it asks.  A
\* session that is not registered is not guarded at all.
Resolve(o) ==
    /\ op[o] = "new"
    /\ op' = [op EXCEPT ![o] = IF SessionOf[o] \in session THEN "asking" ELSE "unguarded"]
    /\ UNCHANGED <<session, lane, reused, stolen, dropped, boundVars>>

\* `wb worktree merge` acquires again before it lands what it prepared.
Acquiring(o) == op[o] = "asking" \/ (op[o] = "driving" /\ Kind[o] = "land")

Acquire(o) ==
    /\ Acquiring(o)
    /\ ~Refused(o)
    /\ lane' = Own(o)
    /\ op' = [op EXCEPT ![o] = "driving"]
    /\ stolen' = stolen \ {o} /\ dropped' = dropped \ {o}
    /\ UNCHANGED <<session, reused, boundVars>>

\* An explicit override passes everything but a running command of its own
\* session.
TakeOver(o) ==
    /\ Acquiring(o)
    /\ Held(o) \/ lane = Corrupt
    /\ takeovers < MaxTakeovers
    /\ takeovers' = takeovers + 1
    /\ lane' = Own(o)
    /\ op' = [op EXCEPT ![o] = "driving"]
    /\ stolen' = (stolen \cup Drivers) \ {o} /\ dropped' = dropped \ {o}
    /\ UNCHANGED <<session, reused, faults, reuses>>

\* A refused command ends; `wb worktree merge land` still has its receipt, and
\* goes on to the release that follows every landing.
GiveUp(o) == op' = [op EXCEPT ![o] = IF Kind[o] = "land" THEN "leaving" ELSE "refused"]

Refuse(o) ==
    /\ Acquiring(o)
    /\ Refused(o)
    /\ GiveUp(o)
    /\ UNCHANGED <<session, lane, reused, stolen, dropped, boundVars>>

\* The lock, the read or the write of the record fails; the write is a rename,
\* so the record stays what it was.
AcquireFails(o) ==
    /\ Acquiring(o)
    /\ faults < MaxFaults
    /\ faults' = faults + 1
    /\ GiveUp(o)
    /\ UNCHANGED <<session, lane, reused, stolen, dropped, takeovers, reuses>>

\* `wb worktree merge land` of a receipt that is already complete returns
\* before it acquires anything.
NothingToLand(o) ==
    /\ op[o] = "asking" /\ Kind[o] = "land"
    /\ op' = [op EXCEPT ![o] = "leaving"]
    /\ UNCHANGED <<session, lane, reused, stolen, dropped, boundVars>>

\* The refused command is run again later.
Retry(o) ==
    /\ op[o] = "refused"
    /\ op' = [op EXCEPT ![o] = "new"]
    /\ UNCHANGED <<session, lane, reused, stolen, dropped, boundVars>>

-----------------------------------------------------------------------------
(* Heartbeat, Release, ReleaseIdle: they know the owner by its session. *)

Owns(s) == Found /\ lane.session = s

\* The 60 s refresh while a command waits for CI.
Heartbeat(o) ==
    /\ o \in Drivers
    /\ Owns(SessionOf[o])
    /\ lane' = [lane EXCEPT !.age = "fresh"]
    /\ UNCHANGED <<op, session, reused, stolen, dropped, boundVars>>

Release(o) ==
    IF Owns(SessionOf[o])
    THEN /\ lane' = None
         /\ dropped' = dropped \cup ({lane.op} \cap (Drivers \ {o}))
    ELSE UNCHANGED <<lane, dropped>>

\* The command returns.  `wb pr land` always releases, `wb worktree merge`
\* only when its receipt needs the lane no longer and its session can still
\* be resolved.
Return(o) ==
    /\ op[o] \in Running \ {"asking"}
    /\ op' = [op EXCEPT ![o] = "done"]
    /\ \/ op[o] = "driving" /\ Kind[o] # "land" /\ Release(o)
       \/ op[o] # "unguarded" /\ Kind[o] = "land" /\ SessionOf[o] \in session /\ Release(o)
       \/ op[o] = "unguarded" /\ UNCHANGED <<lane, dropped>>
       \/ Kind[o] # "pr" /\ UNCHANGED <<lane, dropped>>
    /\ UNCHANGED <<session, reused, stolen, boundVars>>

\* Mutant: the command that drives is not looked at.
ReleaseIdleUnchecked(s) ==
    /\ s \in session
    /\ Owns(s)
    /\ lane' = None
    /\ UNCHANGED <<op, session, reused, stolen, dropped, boundVars>>

\* `wb lane release`: only once the owning command has exited.
ReleaseIdle(s) ==
    /\ s \in session
    /\ Owns(s)
    /\ IF lane.op = None THEN \A o \in Ops : op[o] \notin Running ELSE ~Alive(lane.op)
    /\ lane' = None
    /\ UNCHANGED <<op, session, reused, stolen, dropped, boundVars>>

-----------------------------------------------------------------------------
(* The environment. *)

Crash(o) ==
    /\ op[o] \in Running
    /\ op' = [op EXCEPT ![o] = "done"]
    /\ UNCHANGED <<session, lane, reused, stolen, dropped, boundVars>>

\* The harness of a session ends; its commands may still run.
EndSession(s) ==
    /\ s \in session
    /\ session' = session \ {s}
    /\ UNCHANGED <<op, lane, reused, stolen, dropped, boundVars>>

Age ==
    /\ Found /\ lane.age = "fresh"
    /\ lane' = [lane EXCEPT !.age = "old"]
    /\ UNCHANGED <<op, session, reused, stolen, dropped, boundVars>>

Damage ==
    /\ Found
    /\ faults < MaxFaults
    /\ faults' = faults + 1
    /\ lane' = Corrupt
    /\ UNCHANGED <<op, session, reused, stolen, dropped, takeovers, reuses>>

ReusePid(o) ==
    /\ op[o] = "done" /\ o \notin reused
    /\ reuses < MaxReuses
    /\ reuses' = reuses + 1
    /\ reused' = reused \cup {o}
    /\ UNCHANGED <<op, session, lane, stolen, dropped, takeovers, faults>>

-----------------------------------------------------------------------------
Next ==
    \/ \E o \in Ops :
         \/ Resolve(o) \/ Acquire(o) \/ TakeOver(o) \/ Refuse(o) \/ AcquireFails(o)
         \/ NothingToLand(o)
         \/ Retry(o) \/ Heartbeat(o) \/ Return(o) \/ Crash(o) \/ ReusePid(o)
    \/ \E s \in Sessions : ReleaseIdle(s) \/ EndSession(s)
    \/ Age \/ Damage

Spec == Init /\ [][Next]_vars

\* A refused command is run again, a command ends, and time passes.
Fairness ==
    /\ \A o \in Ops :
         /\ WF_vars(Resolve(o)) /\ WF_vars(Acquire(o) \/ Refuse(o))
         /\ WF_vars(Retry(o)) /\ WF_vars(Return(o))
    /\ WF_vars(Age)

FairSpec == Spec /\ Fairness

-----------------------------------------------------------------------------
TypeOK ==
    /\ op \in [Ops -> Running \cup {"new", "refused", "done"}]
    /\ session \in SUBSET Sessions
    /\ lane \in Records \cup {None, Corrupt}
    /\ reused \in SUBSET Ops /\ stolen \in SUBSET Ops /\ dropped \in SUBSET Ops
    /\ takeovers \in Nat /\ faults \in Nat /\ reuses \in Nat

\* Two commands drive the lane at once only after an explicit takeover, or
\* after a command of the driver's own session removed the driver's record
\* (landinglane.go:1-3, 284-286): aging, crashes, ended sessions, damaged
\* records, failed writes and `wb lane release` never let a second one in,
\* of another session or of the same one.
OneDriver == \A o, i \in Drivers \ (stolen \cup dropped) : o = i

\* While a command drives and neither accident has happened, the record names
\* it or has been damaged: the claim that survives the command is the one of
\* the command that runs (landinglane.go:11-17).
DriverRecorded ==
    \A o \in Drivers \ (stolen \cup dropped) : lane = Corrupt \/ (Found /\ lane.op = o)

\* What only an explicit override clears: a damaged record, one that names no
\* command, and one whose command's process id now names another process.
NeedsOverride == lane = Corrupt \/ (Found /\ (lane.op = None \/ lane.op \in reused))

\* An idle session does not block the lane for ever: a command that keeps
\* asking is admitted in the end, although the command that holds the lane
\* has exited without releasing it and its harness stays open
\* (landinglane.go:46-52, "preventing an idle IDE or harness process from
\* blocking other sessions indefinitely").  Only a record that needs an
\* override keeps it out.
NeverBlockedForGood ==
    \A o \in Ops : op[o] = "new" ~> op[o] \in {"driving", "unguarded", "done"} \/ NeedsOverride

\* "so two live sessions never drive `wb pr land` or `wb worktree merge`
\* toward the same target branch at once" (landinglane.go:2-3), as long as
\* nobody overrides explicitly.
TwoSessionsNeverDrive ==
    \A o, i \in Drivers : SessionOf[o] # SessionOf[i] => {o, i} \cap stolen # {}
=============================================================================
