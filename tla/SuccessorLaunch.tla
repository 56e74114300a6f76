-------------------------- MODULE SuccessorLaunch --------------------------
(***************************************************************************)
(* The receiving side of a session hand-off (internal/sessionreceive and   *)
(* internal/sessionlaunch): a receiver turns an admitted request into      *)
(* exactly one agent harness that runs in a tmux session.  It claims a     *)
(* launch attempt, has tmux start a private launcher, waits until the      *)
(* launcher has registered itself, publishes an immutable release that     *)
(* names the launcher's PID, and concludes from a lock the launcher loses  *)
(* by exec that the harness runs.  Every fact is a file, so that a receiver *)
(* that is called again continues where an earlier one died.               *)
(*                                                                         *)
(* The execution lock of the hand-off admits one receiver at a time; the   *)
(* kernel drops it when its holder dies.  The receiver is therefore one    *)
(* process with a program counter, and a crash takes it back to the start. *)
(* Launchers, harnesses and tmux run beside it and take no lock.           *)
(*                                                                         *)
(* tmux, the process table and the worktree are external.  A process that  *)
(* has exited keeps its PID until its parent has collected it; tmux does   *)
(* so when it marks the pane dead.  One that left no file cannot be told   *)
(* from one that never was, and its PID may be used again.                 *)
(***************************************************************************)
EXTENDS Naturals, FiniteSets

CONSTANTS Procs,        \* PIDs of launchers
          NoPid,        \* no process; as a pane: no tmux session
          Remains,      \* the pane of a tmux session whose process is gone
          MaxAttempts,  \* how many launch attempts may be claimed
          MaxFaults     \* how many things may go wrong

ASSUME ConstantsOK ==
    /\ NoPid \notin Procs /\ Remains \notin Procs /\ NoPid # Remains
    /\ MaxAttempts \in Nat \ {0} /\ MaxFaults \in Nat

VARIABLES
    proc,        \* per PID: what the process is doing
    at,          \* per PID: the attempt it was started for
    pane,        \* the pane of the successor's tmux session
    inFlight,    \* attempts for which a dead receiver's new-session is under way
    claimed,     \* how many attempts are claimed; the last is the latest
    fence,       \* PIDs with an exec/<pid>.lock in their attempt
    ready,       \* PIDs with a ready/<pid>.json in their attempt
    halfReady,   \* PIDs whose ready file still has its temporary link
    release,     \* per attempt: the PID its release.json names
    halfRelease, \* attempts whose release.json still has its temporary link
    failure,     \* PIDs with an exec/<pid>.failure.json in their attempt
    abandoned,   \* per attempt: the PID its abandoned.json names
    owner,       \* per attempt: the PID the Work Log records as its owner
    started,     \* the attempt started.json selects; 0: none
    phases,      \* phases of the hand-off recorded so far
    receipt,     \* the attempt the receipt names; 0: none
    co,          \* the receiver that holds the execution lock
    ran,         \* PIDs that became a harness
    misled,      \* PIDs that met release.json while it had two links
    faults       \* what went wrong so far

launcherFiles == <<fence, ready, halfReady>>
receiverFiles == <<claimed, release, halfRelease, abandoned, owner, started, phases, receipt>>
history == <<ran, misled>>
vars == <<proc, at, pane, inFlight, launcherFiles, failure, receiverFiles, co, history, faults>>

Attempts == 1..MaxAttempts
Pids == Procs \cup {NoPid}

ProcStates == {"none", "checking", "clear", "fenced", "linked", "polling",
               "verifying", "harness", "leaving", "dead"}

RECEIVER_STEPS == {"idle", "inspect", "worktree", "start", "pane", "evidence", "abandoned",
                   "replace", "spawn", "create", "ready", "prepare", "release", "unlink",
                   "exec", "live", "failed", "retry", "finish", "complete", "receipt", "completed"}

\* att: the attempt in hand; from: who called inspectReleased; seen: the live
\* pane it found; got: the launcher whose ready file it read.
Receiver == [pc : RECEIVER_STEPS, att : 0..MaxAttempts, from : {"inspect", "select", "start"},
             seen : Pids, got : Pids]

Idle == [pc |-> "idle", att |-> 0, from |-> "inspect", seen |-> NoPid, got |-> NoPid]

Phases == {"received", "worktree_ready", "successor_started", "completed"}

TypeOK ==
    /\ proc \in [Procs -> ProcStates]
    /\ at \in [Procs -> 0..MaxAttempts]
    /\ pane \in Pids \cup {Remains}
    /\ inFlight \subseteq Attempts
    /\ fence \subseteq Procs /\ ready \subseteq Procs /\ halfReady \subseteq Procs
    /\ failure \subseteq Procs /\ ran \subseteq Procs /\ misled \subseteq Procs
    /\ claimed \in 0..MaxAttempts /\ started \in 0..MaxAttempts /\ receipt \in 0..MaxAttempts
    /\ release \in [Attempts -> Pids]
    /\ abandoned \in [Attempts -> Pids]
    /\ owner \in [Attempts -> Pids]
    /\ halfRelease \subseteq Attempts
    /\ phases \subseteq Phases
    /\ co \in Receiver
    /\ faults \in 0..MaxFaults

Init ==
    /\ proc = [p \in Procs |-> "none"] /\ at = [p \in Procs |-> 0]
    /\ pane = NoPid /\ inFlight = {}
    /\ fence = {} /\ ready = {} /\ halfReady = {} /\ failure = {}
    /\ claimed = 0 /\ started = 0 /\ receipt = 0
    /\ release = [a \in Attempts |-> NoPid] /\ halfRelease = {}
    /\ abandoned = [a \in Attempts |-> NoPid]
    /\ owner = [a \in Attempts |-> NoPid]
    /\ phases = {}
    /\ co = Idle
    /\ ran = {} /\ misled = {}
    /\ faults = 0

-----------------------------------------------------------------------------
(* What the receiver and the launchers can observe. *)

\* proveProcessDead: kill(pid, 0) finds no process.
Gone(p) == proc[p] \in {"none", "dead"}

\* execFenceHeld: the launcher holds its lock until it execs or returns.
FenceHeld(p) == p \in fence /\ proc[p] \in {"fenced", "linked", "polling", "verifying"}

\* PanePID: a session without a pane process, or none at all, is "not there".
LivePane == IF pane \in Procs THEN pane ELSE NoPid

\* PaneFailure: tmux keeps the pane of a process that has ended.
PaneFailureIgnored == FALSE
PaneFailure == pane = Remains

\* loadExecFailure
FailureUnread(p) == FALSE
FailureFound(p) == p \in failure

\* session.Lookup: registered, which comes just before the ready file, and alive.
Registered(p) == p \in ready /\ ~Gone(p)

FencesOf(a) == {p \in fence : at[p] = a}

\* preReleaseProcessEvidence refuses files of two processes, and the
\* temporary file of a ready file that was never finished.
Ambiguous(a) == Cardinality(FencesOf(a)) > 1 \/ \E p \in halfReady : at[p] = a

\* A fault happens and is counted.
Fault == faults < MaxFaults /\ faults' = faults + 1

\* Receive returns to its caller.
Return == co' = Idle
Go(step) == co' = [co EXCEPT !.pc = step]

\* failedAttemptRetryable
RetryableWhileAlive(a) ==
    /\ abandoned[a] = NoPid /\ started = 0
    /\ ~FenceHeld(release[a]) /\ FailureFound(release[a]) /\ LivePane = NoPid

Retryable(a) ==
    /\ abandoned[a] = NoPid /\ started = 0
    /\ release[a] \notin halfReady
    /\ ~FenceHeld(release[a])
    /\ FailureFound(release[a])
    /\ LivePane = NoPid
    /\ Gone(release[a])

\* validateAbandonment
AbandonmentHolds(a) ==
    /\ release[a] = NoPid /\ started = 0
    /\ ~Ambiguous(a) /\ FencesOf(a) = {abandoned[a]}
    /\ ~FenceHeld(abandoned[a])
    /\ LivePane = NoPid
    /\ Gone(abandoned[a])

-----------------------------------------------------------------------------
(* Receive: decide from the recorded phases how far the hand-off is. *)

\* A receipt answers every later call; its completed phase is repaired.
ReplayReceipt ==
    /\ co.pc = "idle" /\ receipt # 0 /\ "completed" \notin phases
    /\ phases' = phases \cup {"completed"}
    /\ UNCHANGED <<proc, at, pane, inFlight, launcherFiles, failure, claimed, release,
                   halfRelease, abandoned, owner, started, receipt, co, history, faults>>

BeginReceive ==
    /\ co.pc = "idle" /\ receipt = 0
    /\ phases' = phases \cup {"received"}
    /\ Go(IF phases \cap {"worktree_ready", "successor_started"} # {} THEN "inspect" ELSE "worktree")
    /\ UNCHANGED <<proc, at, pane, inFlight, launcherFiles, failure, claimed, release,
                   halfRelease, abandoned, owner, started, receipt, history, faults>>

\* The attempt that inspect and selectAttemptForStart look at.
Selected == IF started # 0 THEN started ELSE claimed

Unreleased == started = 0 /\ (claimed # 0 => release[claimed] = NoPid)

\* inspectReleased begins with the release and the ready file of its attempt.
Unreadable(a) ==
    \/ a \in halfRelease
    \/ abandoned[a] # NoPid
    \/ release[a] \notin ready \/ release[a] \in halfReady

\* Inspect: only a launch that was never released lets the receiver go on
\* to the worktree, and only while no successor was seen running.
Inspect ==
    /\ co.pc = "inspect"
    /\ \/ Unreleased /\ IF "successor_started" \in phases THEN Return ELSE Go("worktree")
       \/ ~Unreleased /\ Unreadable(Selected) /\ Return
       \/ ~Unreleased /\ ~Unreadable(Selected)
          /\ co' = [co EXCEPT !.pc = "exec", !.att = Selected, !.from = "inspect"]
    /\ UNCHANGED <<proc, at, pane, inFlight, launcherFiles, failure, receiverFiles, history, faults>>

\* ReceiveSessionBundle or, once the worktree is there, its verification.
PrepareWorktree ==
    /\ co.pc = "worktree"
    /\ \/ phases' = phases \cup {"worktree_ready"} /\ Go("start") /\ UNCHANGED faults
       \/ Fault /\ Return /\ UNCHANGED phases
    /\ UNCHANGED <<proc, at, pane, inFlight, launcherFiles, failure, claimed, release,
                   halfRelease, abandoned, owner, started, receipt, history>>

-----------------------------------------------------------------------------
(* Start: select an attempt, start its launcher, release it. *)

\* selectAttemptForStart
SelectAttempt ==
    /\ co.pc = "start"
    /\ \/ /\ claimed = 0
          /\ claimed' = 1
          /\ co' = [co EXCEPT !.pc = "pane", !.att = 1]
       \/ /\ claimed # 0 /\ Unreleased
          /\ co' = [co EXCEPT !.pc = "pane", !.att = claimed]
          /\ UNCHANGED claimed
       \/ /\ ~Unreleased
          /\ IF Unreadable(Selected) THEN Return
             ELSE co' = [co EXCEPT !.pc = "exec", !.att = Selected, !.from = "select"]
          /\ UNCHANGED claimed
    /\ UNCHANGED <<proc, at, pane, inFlight, launcherFiles, failure, release, halfRelease,
                   abandoned, owner, started, phases, receipt, history, faults>>

\* Is there a live pane?  One that is there is adopted, unless the attempt
\* was abandoned.
LookAtPane ==
    /\ co.pc = "pane"
    /\ \/ abandoned[co.att] # NoPid /\ IF LivePane = NoPid THEN Go("abandoned") ELSE Return
       \/ abandoned[co.att] = NoPid /\ LivePane # NoPid
          /\ co' = [co EXCEPT !.pc = "ready", !.seen = LivePane]
       \/ abandoned[co.att] = NoPid /\ LivePane = NoPid /\ Go("evidence")
    /\ UNCHANGED <<proc, at, pane, inFlight, launcherFiles, failure, receiverFiles, history, faults>>

\* Without a pane, a launcher that left files must be proved gone, and the
\* attempt is abandoned for good; without files the attempt is still unused.
LookForEvidence ==
    /\ co.pc = "evidence"
    /\ \/ FencesOf(co.att) = {} /\ ~Ambiguous(co.att) /\ Go("spawn") /\ UNCHANGED abandoned
       \/ Ambiguous(co.att) /\ Return /\ UNCHANGED abandoned
       \/ \E p \in FencesOf(co.att) :
             /\ ~Ambiguous(co.att)
             /\ \/ ~Gone(p) /\ Return /\ UNCHANGED abandoned
                \/ Gone(p) /\ abandoned' = [abandoned EXCEPT ![co.att] = p] /\ Go("abandoned")
    /\ UNCHANGED <<proc, at, pane, inFlight, launcherFiles, failure, claimed, release,
                   halfRelease, owner, started, phases, receipt, history, faults>>

CheckAbandonment ==
    /\ co.pc = "abandoned"
    /\ \/ AbandonmentHolds(co.att) /\ Go("replace")
       \/ ~AbandonmentHolds(co.att) /\ Return
    /\ UNCHANGED <<proc, at, pane, inFlight, launcherFiles, failure, receiverFiles, history, faults>>

\* verifyPinned, then createAttempt: after an abandonment the receiver goes
\* straight to tmux, after a failed attempt it looks at the pane again.
ClaimNextAttempt ==
    /\ co.pc \in {"replace", "retry"}
    /\ \/ /\ claimed < MaxAttempts
          /\ claimed' = claimed + 1
          /\ co' = [co EXCEPT !.pc = IF co.pc = "replace" THEN "spawn" ELSE "pane",
                              !.att = claimed + 1]
          /\ UNCHANGED faults
       \/ Fault /\ Return /\ UNCHANGED claimed
    /\ UNCHANGED <<proc, at, pane, inFlight, launcherFiles, failure, release, halfRelease,
                   abandoned, owner, started, phases, receipt, history>>

\* StartDetached first removes what is left of an earlier pane.
RemoveRemains ==
    /\ co.pc = "spawn"
    /\ pane' = IF PaneFailure THEN NoPid ELSE pane
    /\ Go("create")
    /\ UNCHANGED <<proc, at, inFlight, launcherFiles, failure, receiverFiles, history, faults>>

\* tmux new-session, which refuses a name that is taken.
NewSession(p, a) ==
    /\ pane = NoPid /\ proc[p] = "none"
    /\ proc' = [proc EXCEPT ![p] = "checking"]
    /\ at' = [at EXCEPT ![p] = a]
    /\ pane' = p

\* A refused new-session adopts the pane that was in the way, if it lives.
StartDetached ==
    /\ co.pc = "create"
    /\ \/ \E p \in Procs : NewSession(p, co.att) /\ Go("ready")
       \/ /\ LivePane # NoPid
          /\ co' = [co EXCEPT !.pc = "ready", !.seen = LivePane]
          /\ UNCHANGED <<proc, at, pane>>
       \/ pane = Remains /\ Return /\ UNCHANGED <<proc, at, pane>>
    /\ UNCHANGED <<inFlight, launcherFiles, failure, receiverFiles, history, faults>>

\* waitReady polls the pane and its launcher's ready file until it times out.
WaitReady ==
    /\ co.pc = "ready"
    /\ LET q == LivePane
           found == q # NoPid /\ q \in ready /\ at[q] = co.att
           usable == /\ q \notin halfReady /\ FenceHeld(q)
                     /\ co.seen \in {NoPid, q}
       IN \/ found /\ usable /\ co' = [co EXCEPT !.pc = "prepare", !.got = q]
          \/ ~(found /\ usable) /\ Return
    /\ UNCHANGED <<proc, at, pane, inFlight, launcherFiles, failure, receiverFiles, history, faults>>

\* verifyPinned and BeforeRelease: the Work Log gets the attempt's owner
\* before the launcher may run.
PrepareWorkLog ==
    /\ co.pc = "prepare"
    /\ \/ /\ IF owner[co.att] \in {NoPid, co.got}
             THEN owner' = [owner EXCEPT ![co.att] = co.got] /\ Go("release")
             ELSE Return /\ UNCHANGED owner
          /\ UNCHANGED faults
       \/ Fault /\ Return /\ UNCHANGED owner
    /\ UNCHANGED <<proc, at, pane, inFlight, launcherFiles, failure, claimed, release,
                   halfRelease, abandoned, started, phases, receipt, history>>

\* saveRelease links the file under its name and then removes the temporary
\* one; a file with two links is refused by every reader.
PublishRelease ==
    /\ co.pc = "release"
    /\ \/ /\ abandoned[co.att] = NoPid /\ co.got \notin halfReady /\ FenceHeld(co.got)
          /\ release' = [release EXCEPT ![co.att] = co.got]
          /\ halfRelease' = halfRelease \cup {co.att}
          /\ Go("unlink")
       \/ ~FenceHeld(co.got) /\ Return /\ UNCHANGED <<release, halfRelease>>
    /\ UNCHANGED <<proc, at, pane, inFlight, launcherFiles, failure, claimed, abandoned,
                   owner, started, phases, receipt, history, faults>>

FinishRelease ==
    /\ co.pc = "unlink"
    /\ halfRelease' = halfRelease \ {co.att}
    /\ co' = [co EXCEPT !.pc = "exec", !.from = "start"]
    /\ UNCHANGED <<proc, at, pane, inFlight, launcherFiles, failure, claimed, release,
                   abandoned, owner, started, phases, receipt, history, faults>>

-----------------------------------------------------------------------------
(* inspectReleased: does the released launcher run its harness? *)

\* An error of inspectReleased: Inspect and selectAttemptForStart ask whether
\* the attempt can be replaced; anyone else gives up.
NotRunning == IF co.from = "start" \/ started # 0 THEN Return ELSE Go("failed")

\* waitExecSuccess.  A lock that is free without a failure file means that
\* the launcher became the harness, unless tmux shows that it is gone: then
\* the receiver writes the failure file itself and looks again.
WaitExecSuccess ==
    /\ co.pc = "exec"
    /\ LET p == release[co.att]
       IN \/ FenceHeld(p) /\ NotRunning /\ UNCHANGED failure            \* timed out
          \/ ~FenceHeld(p) /\ FailureFound(p) /\ NotRunning /\ UNCHANGED failure
          \/ /\ ~FenceHeld(p) /\ ~FailureFound(p) /\ PaneFailure
             /\ failure' = failure \cup {p} /\ UNCHANGED co
          \/ ~FenceHeld(p) /\ ~FailureFound(p) /\ ~PaneFailure /\ Go("live") /\ UNCHANGED failure
    /\ UNCHANGED <<proc, at, pane, inFlight, launcherFiles, receiverFiles, history, faults>>

\* The pane must still be the released process, registered; then started.json
\* selects the attempt for good (finalizeStarted).
ConfirmLive ==
    /\ co.pc = "live"
    /\ LET p == release[co.att]
       IN \/ pane = p /\ Registered(p) /\ started' = co.att /\ Go("finish")
          \/ ~(pane = p /\ Registered(p)) /\ NotRunning /\ UNCHANGED started
    /\ UNCHANGED <<proc, at, pane, inFlight, launcherFiles, failure, claimed, release,
                   halfRelease, abandoned, owner, phases, receipt, history, faults>>

\* Receive goes from a retryable attempt to Start, which asks once more and
\* then claims the next one.
JudgeFailure ==
    /\ co.pc = "failed"
    /\ \/ Retryable(co.att) /\ Go(IF co.from = "inspect" THEN "start" ELSE "retry")
       \/ ~Retryable(co.att) /\ Return
    /\ UNCHANGED <<proc, at, pane, inFlight, launcherFiles, failure, receiverFiles, history, faults>>

-----------------------------------------------------------------------------
(* finalizeTargetReceipt *)

RecordStartedPhase ==
    /\ co.pc = "finish"
    /\ phases' = phases \cup {"successor_started"}
    /\ Go("complete")
    /\ UNCHANGED <<proc, at, pane, inFlight, launcherFiles, failure, claimed, release,
                   halfRelease, abandoned, owner, started, receipt, history, faults>>

\* RecordExternalTargetCompleted: the process must be alive and the latest
\* owner that the Work Log knows.
IsLatestOwner(a) ==
    /\ owner[a] = release[a]
    /\ \A b \in Attempts : b > a => owner[b] = NoPid

CompleteWorkLog ==
    /\ co.pc = "complete"
    /\ LET proved == IsLatestOwner(co.att) /\ ~Gone(release[co.att])
       IN \/ proved /\ Go("receipt")
          \/ ~proved /\ Return
    /\ UNCHANGED <<proc, at, pane, inFlight, launcherFiles, failure, receiverFiles, history, faults>>

SaveReceipt ==
    /\ co.pc = "receipt"
    /\ receipt' = co.att
    /\ Go("completed")
    /\ UNCHANGED <<proc, at, pane, inFlight, launcherFiles, failure, claimed, release,
                   halfRelease, abandoned, owner, started, phases, history, faults>>

RecordCompleted ==
    /\ co.pc = "completed"
    /\ phases' = phases \cup {"completed"}
    /\ Return
    /\ UNCHANGED <<proc, at, pane, inFlight, launcherFiles, failure, claimed, release,
                   halfRelease, abandoned, owner, started, receipt, history, faults>>

\* The receiver dies.  A tmux command it has started is carried out without it.
ReceiverCrash ==
    /\ co.pc # "idle" /\ Fault /\ Return
    /\ \/ UNCHANGED inFlight
       \/ co.pc = "create" /\ inFlight' = inFlight \cup {co.att}
    /\ UNCHANGED <<proc, at, pane, launcherFiles, failure, receiverFiles, history>>

-----------------------------------------------------------------------------
(* The private launcher. *)

Becomes(p, state) == proc' = [proc EXCEPT ![p] = state]
Step(p, from, to) == proc[p] = from /\ Becomes(p, to)

\* It refuses an attempt that was abandoned or released or in which another
\* process left files.
CheckAttempt(p) ==
    /\ proc[p] = "checking"
    /\ LET a == at[p]
           unused == /\ abandoned[a] = NoPid /\ release[a] = NoPid
                     /\ FencesOf(a) = {} /\ ~Ambiguous(a)
       IN Becomes(p, IF unused THEN "clear" ELSE "leaving")
    /\ UNCHANGED <<at, pane, inFlight, launcherFiles, failure, receiverFiles, co, history, faults>>

\* It refuses while another process is registered under the successor's ID.
AcquireFence(p) ==
    /\ \/ /\ \E q \in Procs \ {p} : Registered(q)
          /\ Step(p, "clear", "leaving")
          /\ UNCHANGED fence
       \/ /\ ~\E q \in Procs \ {p} : Registered(q)
          /\ Step(p, "clear", "fenced")
          /\ fence' = fence \cup {p}
    /\ UNCHANGED <<at, pane, inFlight, ready, halfReady, failure, receiverFiles, co, history, faults>>

\* Register, then publish the ready file: link it, remove the temporary link.
LinkReady(p) ==
    /\ Step(p, "fenced", "linked")
    /\ ready' = ready \cup {p} /\ halfReady' = halfReady \cup {p}
    /\ UNCHANGED <<at, pane, inFlight, fence, failure, receiverFiles, co, history, faults>>

UnlinkReady(p) ==
    /\ Step(p, "linked", "polling")
    /\ halfReady' = halfReady \ {p}
    /\ UNCHANGED <<at, pane, inFlight, fence, ready, failure, receiverFiles, co, history, faults>>

\* The release names the process that reads it.
SelectsAnyone(p) == TRUE
Selects(p) == release[at[p]] = p

\* It polls for the release.  Anything but "not there" ends it, a release
\* that still has two links included; to look while the receiver is between
\* the two counts as something gone wrong.
ReadRelease(p) ==
    /\ proc[p] = "polling"
    /\ LET a == at[p]
       IN /\ release[a] # NoPid
          /\ Becomes(p,
                  IF a \notin halfRelease /\ Selects(p) THEN "verifying" ELSE "leaving")
          /\ misled' = IF a \in halfRelease THEN misled \cup {p} ELSE misled
          /\ IF a \in halfRelease /\ co.pc = "unlink" THEN Fault ELSE UNCHANGED faults
    /\ UNCHANGED <<at, pane, inFlight, launcherFiles, failure, receiverFiles, co, ran>>

\* verifyPinned and exec.  A successful exec closes the lock; a failure is
\* recorded before the lock is given up.
ExecHarness(p) ==
    /\ \/ Step(p, "verifying", "harness") /\ ran' = ran \cup {p} /\ UNCHANGED <<failure, faults>>
       \/ /\ Fault /\ Step(p, "verifying", "leaving")
          /\ failure' = failure \cup {p} /\ UNCHANGED ran
    /\ UNCHANGED <<at, pane, inFlight, launcherFiles, receiverFiles, co, misled>>

\* A harness that ends before there is a receipt is something gone wrong.
HarnessExits(p) ==
    /\ Step(p, "harness", "leaving")
    /\ IF receipt = 0 THEN Fault ELSE UNCHANGED faults
    /\ UNCHANGED <<at, pane, inFlight, launcherFiles, failure, receiverFiles, co, history>>

-----------------------------------------------------------------------------
(* The operating system and tmux. *)

\* The parent collects an exited process; tmux keeps the pane (remain-on-exit).
Collected(p) ==
    /\ proc' = [proc EXCEPT ![p] = IF p \in fence THEN "dead" ELSE "none"]
    /\ at' = IF p \in fence THEN at ELSE [at EXCEPT ![p] = 0]
    /\ pane' = IF pane = p THEN Remains ELSE pane

Collect(p) ==
    /\ proc[p] = "leaving" /\ Collected(p)
    /\ UNCHANGED <<inFlight, launcherFiles, failure, receiverFiles, co, history, faults>>

\* A launcher is killed; the temporary link of a ready file it was writing
\* may stay behind.
LauncherKilled(p) ==
    /\ proc[p] \in {"checking", "clear", "fenced", "linked", "polling", "verifying"}
    /\ Fault /\ Collected(p)
    /\ \/ UNCHANGED halfReady
       \/ proc[p] = "fenced" /\ halfReady' = halfReady \cup {p}
    /\ UNCHANGED <<inFlight, fence, ready, failure, receiverFiles, co, history>>

\* The tmux session is removed.  Its process is hung up on and may take its
\* time to end, or ignore it.
SessionKilled ==
    /\ pane # NoPid /\ Fault
    /\ pane' = NoPid
    /\ UNCHANGED <<proc, at, inFlight, launcherFiles, failure, receiverFiles, co, history>>

\* The new-session of a receiver that died is carried out, or refused.
LateNewSession(a) ==
    /\ a \in inFlight /\ inFlight' = inFlight \ {a}
    /\ \/ \E p \in Procs : NewSession(p, a)
       \/ pane # NoPid /\ UNCHANGED <<proc, at, pane>>
    /\ UNCHANGED <<launcherFiles, failure, receiverFiles, co, history, faults>>

-----------------------------------------------------------------------------
Receive ==
    \/ ReplayReceipt \/ BeginReceive \/ Inspect \/ PrepareWorktree
    \/ SelectAttempt \/ LookAtPane \/ LookForEvidence \/ CheckAbandonment \/ ClaimNextAttempt
    \/ RemoveRemains \/ StartDetached \/ WaitReady \/ PrepareWorkLog
    \/ PublishRelease \/ FinishRelease
    \/ WaitExecSuccess \/ ConfirmLive \/ JudgeFailure
    \/ RecordStartedPhase \/ CompleteWorkLog \/ SaveReceipt \/ RecordCompleted

Launcher(p) ==
    \/ CheckAttempt(p) \/ AcquireFence(p) \/ LinkReady(p) \/ UnlinkReady(p)
    \/ ReadRelease(p) \/ ExecHarness(p) \/ Collect(p)

Next ==
    \/ Receive \/ ReceiverCrash \/ SessionKilled
    \/ \E p \in Procs : Launcher(p) \/ HarnessExits(p) \/ LauncherKilled(p)
    \/ \E a \in Attempts : LateNewSession(a)

Spec == Init /\ [][Next]_vars

\* The source delivers an unanswered request again, the receiver's own steps
\* and its launchers' are finite, and tmux collects its children.
FairSpec ==
    /\ Spec
    /\ WF_vars(Receive)
    /\ \A p \in Procs : WF_vars(Launcher(p))
    /\ \A a \in Attempts : WF_vars(LateNewSession(a))

-----------------------------------------------------------------------------
(* Properties. *)

\* However often Receive is repeated, and whatever dies in between, at most
\* one agent harness of the hand-off is running: saveRelease names one
\* launcher, and failedAttemptRetryable lets an attempt be replaced only
\* after that launcher.
OneHarness == \A p, q \in Procs : proc[p] = "harness" /\ proc[q] = "harness" => p = q

\* createAttempt replaces an attempt that was released only when its process
\* is gone (launch.go:692-744), and one that was abandoned without a release
\* (launch.go:746-809) can never be released any more.
ReplacedOnlyWhenGone ==
    \A a \in Attempts : a < claimed =>
        \/ abandoned[a] # NoPid /\ release[a] = NoPid
        \/ release[a] # NoPid /\ Gone(release[a])

\* Once finalizeStarted (launch.go:829) has written started.json no other
\* process becomes a harness, not even after that successor has ended.
StartedIsFinal ==
    started # 0 => \A p \in Procs : proc[p] \in {"verifying", "harness"} => p = release[started]

\* The receipt of finalizeTargetReceipt (receive.go:296) names the selected
\* attempt and a process that did become the harness, except where the
\* launcher met its release file while the file had two links: it then exits
\* without a failure file, and its free lock looks like a successful exec.
ReceiptIsTrue ==
    receipt # 0 => /\ receipt = started
                   /\ release[receipt] \in ran \cup misled

\* States in which no retry can complete the hand-off.  Two launchers in one
\* attempt stop it once both are lost, which takes three faults.
Orphan == \E p \in Procs : pane # p /\ proc[p] \notin {"none", "dead"}
SuccessorLost == started # 0 /\ pane # release[started]
EvidenceLost ==
    /\ started = 0 /\ claimed # 0 /\ release[claimed] # NoPid
    /\ Gone(release[claimed]) /\ release[claimed] \notin failure /\ pane = NoPid
HalfPublished == claimed # 0 /\ (claimed \in halfRelease \/ \E p \in halfReady : at[p] = claimed)
TwoLaunchers == claimed # 0 /\ Cardinality(FencesOf(claimed)) > 1

\* Receive, called again and again with the identical request (receive.go:159-190
\* continues from the recorded phases), ends with a receipt, or in one of the
\* five states above that a retry does not leave.
RetrySettles ==
    <>[](receipt # 0 \/ Orphan \/ SuccessorLost \/ EvidenceLost \/ HalfPublished \/ TwoLaunchers)
=============================================================================
