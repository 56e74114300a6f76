----------------------- MODULE SuccessorLaunchProofs ------------------------
(***************************************************************************)
(* Proofs about SuccessorLaunch, for every set of PIDs, every number of    *)
(* attempts and every number of faults.                                    *)
(*                                                                         *)
(* The argument: only the launcher a release names may go on to exec, an   *)
(* attempt has one release, and the latest attempt is replaced only when   *)
(* it was given up unreleased or its released process is gone.  Hence a    *)
(* running harness belongs to the latest attempt, and there is one.        *)
(***************************************************************************)
EXTENDS SuccessorLaunch, TLAPS

-----------------------------------------------------------------------------
(* The inductive invariant, in parts. *)

\* Files are left by processes that exist or existed.
FilesInv ==
    /\ ready \subseteq fence /\ halfReady \subseteq fence
    /\ \A p \in Procs :
        /\ proc[p] \in {"none", "checking", "clear"} => p \notin fence
        /\ proc[p] # "none" => at[p] \in Attempts /\ at[p] <= claimed
        /\ proc[p] \in {"fenced", "linked", "polling", "verifying", "harness"} => p \in fence
        /\ proc[p] \in {"verifying", "harness"} => release[at[p]] = p
        /\ pane = p => proc[p] \notin {"none", "dead"}
    /\ \A a \in inFlight : a <= claimed

\* A release names one launcher of its attempt and excludes an abandonment.
ReleaseInv ==
    \A a \in Attempts :
        /\ release[a] # NoPid => /\ release[a] \in fence /\ at[release[a]] = a
                                 /\ abandoned[a] = NoPid /\ a <= claimed
        /\ abandoned[a] # NoPid => a <= claimed

\* What the receiver knows at each of its steps.
BeforeRelease == {"pane", "evidence", "abandoned", "replace", "spawn", "create", "ready",
                  "prepare", "release"}
AfterRelease == {"unlink", "exec", "live", "failed", "retry", "finish", "complete",
                 "receipt", "completed"}

ReceiverInv ==
    /\ co.pc \in BeforeRelease =>
          /\ co.att \in Attempts /\ co.att = claimed /\ release[co.att] = NoPid /\ started = 0
    /\ co.pc \in {"abandoned", "replace"} => abandoned[co.att] # NoPid
    /\ co.pc \in {"evidence", "spawn", "create", "ready", "prepare", "release"} =>
          abandoned[co.att] = NoPid
    /\ co.pc \in {"prepare", "release"} => co.got \in fence /\ at[co.got] = co.att
    /\ co.pc \in AfterRelease =>
          /\ co.att \in Attempts /\ co.att = claimed /\ release[co.att] # NoPid
          /\ started # 0 => started = co.att
    /\ co.pc \in {"failed", "retry", "unlink"} => started = 0
    /\ co.pc = "retry" => Gone(release[co.att])
    /\ co.pc \in {"finish", "complete", "receipt", "completed"} => started = co.att

\* What started.json and the receipt say.
StartedInv ==
    /\ started # 0 => started \in Attempts /\ started = claimed /\ release[started] # NoPid
    /\ receipt # 0 => receipt = started

SafeInv == TypeOK /\ FilesInv /\ ReleaseInv /\ ReceiverInv /\ StartedInv /\ ReplacedOnlyWhenGone

\* Why a process that gave up its lock did so.
LeftProcs ==
    \A p \in Procs :
        /\ proc[p] = "harness" => p \in ran
        /\ proc[p] = "leaving" /\ p \in fence =>
              \/ p \in ran \cup misled \cup failure
              \/ release[at[p]] \notin {NoPid, p}

\* A receiver that is about to look for the live harness has seen the lock
\* free and no failure.
LeftLive ==
    co.pc = "live" => ~FenceHeld(release[co.att]) /\ release[co.att] \notin failure

LeftStarted == started # 0 => release[started] \in ran \cup misled

LeftInv == LeftProcs /\ LeftLive /\ LeftStarted

-----------------------------------------------------------------------------
(* Facts used throughout. *)

\* A step that leaves the processes and the files of the launch alone.
LEMMA FilesKept ==
    ASSUME FilesInv, ReleaseInv, ReplacedOnlyWhenGone,
           UNCHANGED <<proc, at, pane, inFlight, fence, ready, halfReady, claimed, release,
                       abandoned>>
    PROVE  FilesInv' /\ ReleaseInv' /\ ReplacedOnlyWhenGone'
<1>1. FilesInv' BY DEF FilesInv
<1>2. ReleaseInv' BY DEF ReleaseInv
<1>3. ReplacedOnlyWhenGone' BY DEF ReplacedOnlyWhenGone, Gone
<1> QED BY <1>1, <1>2, <1>3

\* Return forgets everything.
LEMMA ReturnCo == Return => co' \in Receiver /\ co'.pc = "idle"
BY ConstantsOK DEF Return, Idle, Receiver, RECEIVER_STEPS, Pids

\* Go changes the step and nothing else.
LEMMA GoCo ==
    ASSUME TypeOK, NEW s \in RECEIVER_STEPS, Go(s)
    PROVE  /\ co' \in Receiver
           /\ co'.pc = s /\ co'.att = co.att /\ co'.from = co.from /\ co'.got = co.got
BY DEF TypeOK, Receiver, Go

\* The number of faults stays within its bound.
LEMMA FaultBound == TypeOK /\ Fault => faults' \in 0..MaxFaults
BY ConstantsOK DEF TypeOK, Fault

\* An error of inspectReleased ends the call or leads to JudgeFailure.
LEMMA NotRunningCo ==
    ASSUME TypeOK, NotRunning
    PROVE  /\ co' \in Receiver
           /\ \/ co'.pc = "idle"
              \/ co'.pc = "failed" /\ co'.att = co.att /\ started = 0
BY ReturnCo, GoCo DEF NotRunning, RECEIVER_STEPS

-----------------------------------------------------------------------------
(* Steps of the receiver that change none of the files the argument is about. *)

LEMMA ReplayReceiptSafe == SafeInv /\ ReplayReceipt => SafeInv'
<1> SUFFICES ASSUME SafeInv, ReplayReceipt PROVE SafeInv' OBVIOUS
<1> USE DEF SafeInv, launcherFiles, receiverFiles, history
<1>1. co' \in Receiver BY ConstantsOK DEF ReplayReceipt, TypeOK
<1>2. TypeOK' BY <1>1, ConstantsOK DEF ReplayReceipt, TypeOK, Pids, Attempts, Phases
<1>3. FilesInv' /\ ReleaseInv' /\ ReplacedOnlyWhenGone' BY FilesKept DEF ReplayReceipt
<1>4. ReceiverInv'
  BY ConstantsOK DEF ReplayReceipt, ReceiverInv, BeforeRelease, AfterRelease, RECEIVER_STEPS,
     Gone
<1>5. StartedInv' BY DEF ReplayReceipt, StartedInv, ReceiverInv, AfterRelease
<1> QED BY <1>2, <1>3, <1>4, <1>5

LEMMA BeginReceiveSafe == SafeInv /\ BeginReceive => SafeInv'
<1> SUFFICES ASSUME SafeInv, BeginReceive PROVE SafeInv' OBVIOUS
<1> USE DEF SafeInv, launcherFiles, receiverFiles, history
<1>1. co' \in Receiver BY GoCo, ConstantsOK DEF BeginReceive, RECEIVER_STEPS
<1>2. TypeOK' BY <1>1, ConstantsOK DEF BeginReceive, TypeOK, Pids, Attempts, Phases
<1>3. FilesInv' /\ ReleaseInv' /\ ReplacedOnlyWhenGone' BY FilesKept DEF BeginReceive
<1>4. ReceiverInv'
  BY GoCo, ConstantsOK DEF BeginReceive, ReceiverInv, BeforeRelease, AfterRelease,
     RECEIVER_STEPS, Gone
<1>5. StartedInv' BY DEF BeginReceive, StartedInv, ReceiverInv, AfterRelease
<1> QED BY <1>2, <1>3, <1>4, <1>5

LEMMA InspectSafe == SafeInv /\ Inspect => SafeInv'
<1> SUFFICES ASSUME SafeInv, Inspect PROVE SafeInv' OBVIOUS
<1> USE DEF SafeInv, launcherFiles, receiverFiles, history
<1>1. co' \in Receiver
  <2>1. CASE co' = [co EXCEPT !.pc = "exec", !.att = Selected, !.from = "inspect"]
    BY <2>1 DEF Selected, TypeOK, Receiver, RECEIVER_STEPS
  <2> QED BY <2>1, GoCo, ReturnCo DEF Inspect, RECEIVER_STEPS
<1>2. TypeOK' BY <1>1, ConstantsOK DEF Inspect, TypeOK, Pids, Attempts, Phases
<1>3. FilesInv' /\ ReleaseInv' /\ ReplacedOnlyWhenGone' BY FilesKept DEF Inspect
<1>4. ReceiverInv'
  <2>1. CASE Unreleased
    BY <2>1, GoCo, ReturnCo DEF Inspect, ReceiverInv, BeforeRelease, AfterRelease,
       RECEIVER_STEPS
  <2>2. CASE ~Unreleased
    <3>1. claimed \in Attempts /\ Selected = claimed /\ release[claimed] # NoPid
      BY <2>2 DEF Unreleased, Selected, StartedInv, TypeOK, Attempts
    <3>2. co'.pc # "idle" => co'.pc = "exec" /\ co'.att = claimed
      BY <2>2, <3>1, ReturnCo DEF Inspect, TypeOK, Receiver
    <3> QED BY <3>1, <3>2 DEF Inspect, ReceiverInv, BeforeRelease, AfterRelease, StartedInv
  <2> QED BY <2>1, <2>2
<1>5. StartedInv' BY DEF Inspect, StartedInv, ReceiverInv, AfterRelease
<1> QED BY <1>2, <1>3, <1>4, <1>5

LEMMA PrepareWorktreeSafe == SafeInv /\ PrepareWorktree => SafeInv'
<1> SUFFICES ASSUME SafeInv, PrepareWorktree PROVE SafeInv' OBVIOUS
<1> USE DEF SafeInv, launcherFiles, receiverFiles, history
<1>1. co' \in Receiver BY GoCo, ReturnCo, ConstantsOK DEF PrepareWorktree, RECEIVER_STEPS
<1>2. TypeOK'
  BY <1>1, FaultBound, ConstantsOK DEF PrepareWorktree, TypeOK, Pids, Attempts, Phases
<1>3. FilesInv' /\ ReleaseInv' /\ ReplacedOnlyWhenGone' BY FilesKept DEF PrepareWorktree
<1>4. ReceiverInv'
  BY GoCo, ReturnCo, ConstantsOK DEF PrepareWorktree, ReceiverInv, BeforeRelease,
     AfterRelease, RECEIVER_STEPS, Gone
<1>5. StartedInv' BY DEF PrepareWorktree, StartedInv, ReceiverInv, AfterRelease
<1> QED BY <1>2, <1>3, <1>4, <1>5

LEMMA LookAtPaneSafe == SafeInv /\ LookAtPane => SafeInv'
<1> SUFFICES ASSUME SafeInv, LookAtPane PROVE SafeInv' OBVIOUS
<1> USE DEF SafeInv, launcherFiles, receiverFiles, history
<1>1. co' \in Receiver
  <2>1. CASE co' = [co EXCEPT !.pc = "ready", !.seen = LivePane]
    BY <2>1 DEF LivePane, TypeOK, Receiver, RECEIVER_STEPS, Pids
  <2> QED BY <2>1, GoCo, ReturnCo DEF LookAtPane, RECEIVER_STEPS
<1>2. TypeOK' BY <1>1, ConstantsOK DEF LookAtPane, TypeOK, Pids, Attempts, Phases
<1>3. FilesInv' /\ ReleaseInv' /\ ReplacedOnlyWhenGone' BY FilesKept DEF LookAtPane
<1>4. ReceiverInv'
  <2>1. CASE abandoned[co.att] = NoPid /\ co' = [co EXCEPT !.pc = "ready", !.seen = LivePane]
    <3>1. co'.pc = "ready" /\ co'.att = co.att BY <2>1 DEF TypeOK, Receiver
    <3> QED BY <2>1, <3>1 DEF LookAtPane, ReceiverInv, BeforeRelease, AfterRelease
  <2>2. CASE abandoned[co.att] = NoPid /\ Go("evidence")
    BY <2>2, GoCo DEF LookAtPane, ReceiverInv, BeforeRelease, AfterRelease, RECEIVER_STEPS
  <2>3. CASE abandoned[co.att] # NoPid /\ (Go("abandoned") \/ Return)
    BY <2>3, GoCo, ReturnCo
    DEF LookAtPane, ReceiverInv, BeforeRelease, AfterRelease, RECEIVER_STEPS
  <2> QED BY <2>1, <2>2, <2>3 DEF LookAtPane
<1>5. StartedInv' BY DEF LookAtPane, StartedInv, ReceiverInv, AfterRelease
<1> QED BY <1>2, <1>3, <1>4, <1>5

LEMMA CheckAbandonmentSafe == SafeInv /\ CheckAbandonment => SafeInv'
<1> SUFFICES ASSUME SafeInv, CheckAbandonment PROVE SafeInv' OBVIOUS
<1> USE DEF SafeInv, launcherFiles, receiverFiles, history
<1>1. co' \in Receiver BY GoCo, ReturnCo, ConstantsOK DEF CheckAbandonment, RECEIVER_STEPS
<1>2. TypeOK' BY <1>1, ConstantsOK DEF CheckAbandonment, TypeOK, Pids, Attempts, Phases
<1>3. FilesInv' /\ ReleaseInv' /\ ReplacedOnlyWhenGone' BY FilesKept DEF CheckAbandonment
<1>4. ReceiverInv'
  BY GoCo, ReturnCo, ConstantsOK DEF CheckAbandonment, ReceiverInv, BeforeRelease,
     AfterRelease, RECEIVER_STEPS, Gone, AbandonmentHolds, TypeOK
<1>5. StartedInv' BY DEF CheckAbandonment, StartedInv, ReceiverInv, AfterRelease
<1> QED BY <1>2, <1>3, <1>4, <1>5

LEMMA WaitReadySafe == SafeInv /\ WaitReady => SafeInv'
<1> SUFFICES ASSUME SafeInv, WaitReady PROVE SafeInv' OBVIOUS
<1> USE DEF SafeInv, launcherFiles, receiverFiles, history
<1>1. co' \in Receiver
  <2>1. CASE co' = [co EXCEPT !.pc = "prepare", !.got = LivePane]
    BY <2>1 DEF LivePane, TypeOK, Receiver, RECEIVER_STEPS, Pids
  <2> QED BY <2>1, ReturnCo DEF WaitReady
<1>2. TypeOK' BY <1>1, ConstantsOK DEF WaitReady, TypeOK, Pids, Attempts, Phases
<1>3. FilesInv' /\ ReleaseInv' /\ ReplacedOnlyWhenGone' BY FilesKept DEF WaitReady
<1>4. ReceiverInv'
  <2>1. CASE /\ co' = [co EXCEPT !.pc = "prepare", !.got = LivePane]
             /\ FenceHeld(LivePane) /\ at[LivePane] = co.att
    <3>1. co'.pc = "prepare" /\ co'.att = co.att /\ co'.got = LivePane
      BY <2>1 DEF TypeOK, Receiver
    <3> QED BY <2>1, <3>1 DEF WaitReady, ReceiverInv, BeforeRelease, AfterRelease, FenceHeld
  <2>2. CASE Return
    BY <2>2, ReturnCo DEF WaitReady, ReceiverInv, BeforeRelease, AfterRelease
  <2> QED BY <2>1, <2>2 DEF WaitReady
<1>5. StartedInv' BY DEF WaitReady, StartedInv, ReceiverInv, AfterRelease
<1> QED BY <1>2, <1>3, <1>4, <1>5

LEMMA PrepareWorkLogSafe == SafeInv /\ PrepareWorkLog => SafeInv'
<1> SUFFICES ASSUME SafeInv, PrepareWorkLog PROVE SafeInv' OBVIOUS
<1> USE DEF SafeInv, launcherFiles, receiverFiles, history
<1>1. co' \in Receiver BY GoCo, ReturnCo, ConstantsOK DEF PrepareWorkLog, RECEIVER_STEPS
<1>2. TypeOK'
  BY <1>1, FaultBound, ConstantsOK DEF PrepareWorkLog, TypeOK, Pids, Attempts, Phases,
     ReceiverInv, BeforeRelease, Receiver
<1>3. FilesInv' /\ ReleaseInv' /\ ReplacedOnlyWhenGone' BY FilesKept DEF PrepareWorkLog
<1>4. ReceiverInv'
  BY GoCo, ReturnCo, ConstantsOK DEF PrepareWorkLog, ReceiverInv, BeforeRelease,
     AfterRelease, RECEIVER_STEPS, Gone, TypeOK
<1>5. StartedInv' BY DEF PrepareWorkLog, StartedInv, ReceiverInv, AfterRelease
<1> QED BY <1>2, <1>3, <1>4, <1>5

LEMMA FinishReleaseSafe == SafeInv /\ FinishRelease => SafeInv'
<1> SUFFICES ASSUME SafeInv, FinishRelease PROVE SafeInv' OBVIOUS
<1> USE DEF SafeInv, launcherFiles, receiverFiles, history
<1>1. co' \in Receiver BY ConstantsOK DEF FinishRelease, TypeOK, Receiver, RECEIVER_STEPS
<1>2. TypeOK' BY <1>1, ConstantsOK DEF FinishRelease, TypeOK, Pids, Attempts, Phases
<1>3. FilesInv' /\ ReleaseInv' /\ ReplacedOnlyWhenGone' BY FilesKept DEF FinishRelease
<1>4. ReceiverInv'
  BY ConstantsOK DEF FinishRelease, ReceiverInv, BeforeRelease, AfterRelease, RECEIVER_STEPS,
     Gone, TypeOK, Receiver
<1>5. StartedInv' BY DEF FinishRelease, StartedInv, ReceiverInv, AfterRelease
<1> QED BY <1>2, <1>3, <1>4, <1>5

LEMMA WaitExecSuccessSafe == SafeInv /\ WaitExecSuccess => SafeInv'
<1> SUFFICES ASSUME SafeInv, WaitExecSuccess PROVE SafeInv' OBVIOUS
<1> USE DEF SafeInv, launcherFiles, receiverFiles, history
<1>1. co' \in Receiver
  BY GoCo, NotRunningCo, ConstantsOK DEF WaitExecSuccess, RECEIVER_STEPS, TypeOK
<1>2. TypeOK'
  BY <1>1, ConstantsOK DEF WaitExecSuccess, TypeOK, Pids, Attempts, Phases, ReceiverInv,
     AfterRelease
<1>3. FilesInv' /\ ReleaseInv' /\ ReplacedOnlyWhenGone' BY FilesKept DEF WaitExecSuccess
<1>4. ReceiverInv'
  BY GoCo, NotRunningCo, ConstantsOK DEF WaitExecSuccess, ReceiverInv, BeforeRelease,
     AfterRelease, RECEIVER_STEPS, Gone, TypeOK
<1>5. StartedInv' BY DEF WaitExecSuccess, StartedInv, ReceiverInv, AfterRelease
<1> QED BY <1>2, <1>3, <1>4, <1>5

LEMMA ConfirmLiveSafe == SafeInv /\ ConfirmLive => SafeInv'
<1> SUFFICES ASSUME SafeInv, ConfirmLive PROVE SafeInv' OBVIOUS
<1> USE DEF SafeInv, launcherFiles, receiverFiles, history
<1>1. co' \in Receiver BY GoCo, NotRunningCo, ConstantsOK DEF ConfirmLive, RECEIVER_STEPS
<1>2. TypeOK' BY <1>1, ConstantsOK DEF ConfirmLive, TypeOK, Pids, Attempts, Phases, Receiver
<1>3. FilesInv' /\ ReleaseInv' /\ ReplacedOnlyWhenGone' BY FilesKept DEF ConfirmLive
<1>4. ReceiverInv'
  BY GoCo, NotRunningCo, ConstantsOK DEF ConfirmLive, ReceiverInv, BeforeRelease,
     AfterRelease, RECEIVER_STEPS, Gone, TypeOK, StartedInv
<1>5. StartedInv' BY DEF ConfirmLive, StartedInv, ReceiverInv, AfterRelease
<1> QED BY <1>2, <1>3, <1>4, <1>5

LEMMA JudgeFailureSafe == SafeInv /\ JudgeFailure => SafeInv'
<1> SUFFICES ASSUME SafeInv, JudgeFailure PROVE SafeInv' OBVIOUS
<1> USE DEF SafeInv, launcherFiles, receiverFiles, history
<1>1. co' \in Receiver BY GoCo, ReturnCo, ConstantsOK DEF JudgeFailure, RECEIVER_STEPS
<1>2. TypeOK' BY <1>1, ConstantsOK DEF JudgeFailure, TypeOK, Pids, Attempts, Phases
<1>3. FilesInv' /\ ReleaseInv' /\ ReplacedOnlyWhenGone' BY FilesKept DEF JudgeFailure
<1>4. ReceiverInv'
  BY GoCo, ReturnCo, ConstantsOK DEF JudgeFailure, ReceiverInv, BeforeRelease, AfterRelease,
     RECEIVER_STEPS, Gone, Retryable
<1>5. StartedInv' BY DEF JudgeFailure, StartedInv, ReceiverInv, AfterRelease
<1> QED BY <1>2, <1>3, <1>4, <1>5

LEMMA RecordStartedPhaseSafe == SafeInv /\ RecordStartedPhase => SafeInv'
<1> SUFFICES ASSUME SafeInv, RecordStartedPhase PROVE SafeInv' OBVIOUS
<1> USE DEF SafeInv, launcherFiles, receiverFiles, history
<1>1. co' \in Receiver BY GoCo, ConstantsOK DEF RecordStartedPhase, RECEIVER_STEPS
<1>2. TypeOK' BY <1>1, ConstantsOK DEF RecordStartedPhase, TypeOK, Pids, Attempts, Phases
<1>3. FilesInv' /\ ReleaseInv' /\ ReplacedOnlyWhenGone' BY FilesKept DEF RecordStartedPhase
<1>4. ReceiverInv'
  BY GoCo, ConstantsOK DEF RecordStartedPhase, ReceiverInv, BeforeRelease, AfterRelease,
     RECEIVER_STEPS, Gone
<1>5. StartedInv' BY DEF RecordStartedPhase, StartedInv, ReceiverInv, AfterRelease
<1> QED BY <1>2, <1>3, <1>4, <1>5

LEMMA CompleteWorkLogSafe == SafeInv /\ CompleteWorkLog => SafeInv'
<1> SUFFICES ASSUME SafeInv, CompleteWorkLog PROVE SafeInv' OBVIOUS
<1> USE DEF SafeInv, launcherFiles, receiverFiles, history
<1>1. co' \in Receiver BY GoCo, ReturnCo, ConstantsOK DEF CompleteWorkLog, RECEIVER_STEPS
<1>2. TypeOK' BY <1>1, ConstantsOK DEF CompleteWorkLog, TypeOK, Pids, Attempts, Phases
<1>3. FilesInv' /\ ReleaseInv' /\ ReplacedOnlyWhenGone' BY FilesKept DEF CompleteWorkLog
<1>4. ReceiverInv'
  BY GoCo, ReturnCo, ConstantsOK DEF CompleteWorkLog, ReceiverInv, BeforeRelease,
     AfterRelease, RECEIVER_STEPS, Gone
<1>5. StartedInv' BY DEF CompleteWorkLog, StartedInv, ReceiverInv, AfterRelease
<1> QED BY <1>2, <1>3, <1>4, <1>5

LEMMA SaveReceiptSafe == SafeInv /\ SaveReceipt => SafeInv'
<1> SUFFICES ASSUME SafeInv, SaveReceipt PROVE SafeInv' OBVIOUS
<1> USE DEF SafeInv, launcherFiles, receiverFiles, history
<1>1. co' \in Receiver BY GoCo, ConstantsOK DEF SaveReceipt, RECEIVER_STEPS
<1>2. TypeOK' BY <1>1, ConstantsOK DEF SaveReceipt, TypeOK, Pids, Attempts, Phases, Receiver
<1>3. FilesInv' /\ ReleaseInv' /\ ReplacedOnlyWhenGone' BY FilesKept DEF SaveReceipt
<1>4. ReceiverInv'
  BY GoCo, ConstantsOK DEF SaveReceipt, ReceiverInv, BeforeRelease, AfterRelease,
     RECEIVER_STEPS, Gone
<1>5. StartedInv' BY DEF SaveReceipt, StartedInv, ReceiverInv, AfterRelease
<1> QED BY <1>2, <1>3, <1>4, <1>5

LEMMA RecordCompletedSafe == SafeInv /\ RecordCompleted => SafeInv'
<1> SUFFICES ASSUME SafeInv, RecordCompleted PROVE SafeInv' OBVIOUS
<1> USE DEF SafeInv, launcherFiles, receiverFiles, history
<1>1. co' \in Receiver BY ReturnCo, ConstantsOK DEF RecordCompleted
<1>2. TypeOK' BY <1>1, ConstantsOK DEF RecordCompleted, TypeOK, Pids, Attempts, Phases
<1>3. FilesInv' /\ ReleaseInv' /\ ReplacedOnlyWhenGone' BY FilesKept DEF RecordCompleted
<1>4. ReceiverInv'
  BY ReturnCo, ConstantsOK DEF RecordCompleted, ReceiverInv, BeforeRelease, AfterRelease,
     RECEIVER_STEPS, Gone
<1>5. StartedInv' BY DEF RecordCompleted, StartedInv, ReceiverInv, AfterRelease
<1> QED BY <1>2, <1>3, <1>4, <1>5

-----------------------------------------------------------------------------
(* Steps of the receiver that claim, give up, start or release an attempt. *)

LEMMA SelectAttemptSafe == SafeInv /\ SelectAttempt => SafeInv'
<1> SUFFICES ASSUME SafeInv, SelectAttempt PROVE SafeInv' OBVIOUS
<1> USE DEF SafeInv, launcherFiles, receiverFiles, history
<1>0. claimed <= claimed' /\ (claimed' # claimed => claimed = 0 /\ claimed' = 1 /\ started = 0)
  BY DEF SelectAttempt, TypeOK, StartedInv, Attempts
<1>1. co' \in Receiver
  <2>1. claimed' \in 0..MaxAttempts /\ claimed \in 0..MaxAttempts /\ Selected \in 0..MaxAttempts
    BY ConstantsOK DEF SelectAttempt, TypeOK, Selected
  <2>2. CASE co' = [co EXCEPT !.pc = "pane", !.att = claimed']
    BY <2>1, <2>2 DEF TypeOK, Receiver, RECEIVER_STEPS
  <2>3. CASE co' = [co EXCEPT !.pc = "exec", !.att = Selected, !.from = "select"]
    BY <2>1, <2>3 DEF TypeOK, Receiver, RECEIVER_STEPS
  <2> QED BY <2>2, <2>3, ReturnCo DEF SelectAttempt
<1>2. TypeOK' BY <1>1, ConstantsOK DEF SelectAttempt, TypeOK, Pids, Attempts, Phases
<1>3. FilesInv' BY <1>0 DEF SelectAttempt, FilesInv, TypeOK, Attempts
<1>4. ReleaseInv' BY <1>0 DEF SelectAttempt, ReleaseInv, TypeOK, Attempts
<1>5. ReplacedOnlyWhenGone'
  BY <1>0 DEF SelectAttempt, ReplacedOnlyWhenGone, Gone, TypeOK, Attempts
<1>6. ReceiverInv'
  <2>1. CASE Unreleased
    <3>0. co' = [co EXCEPT !.pc = "pane", !.att = claimed'] /\ claimed' # 0
      <4>1. CASE claimed = 0 BY <2>1, <4>1 DEF SelectAttempt, Unreleased
      <4>2. CASE claimed # 0 BY <2>1, <4>2 DEF SelectAttempt, Unreleased
      <4> QED BY <4>1, <4>2
    <3>1. co'.pc = "pane" /\ co'.att = claimed' /\ claimed' \in Attempts
      BY <1>2, <3>0, ConstantsOK DEF TypeOK, Receiver, Attempts
    <3>2. release[claimed'] = NoPid /\ started = 0
      BY <1>0, <2>1, <3>1, ConstantsOK DEF Unreleased, ReleaseInv, TypeOK, Attempts
    <3> QED BY <3>1, <3>2 DEF SelectAttempt, ReceiverInv, BeforeRelease, AfterRelease
  <2>2. CASE ~Unreleased
    <3>1. claimed # 0 /\ claimed \in Attempts /\ Selected = claimed /\ release[claimed] # NoPid
      BY <2>2 DEF Unreleased, Selected, StartedInv, TypeOK, Attempts
    <3>2. claimed' = claimed /\ (co'.pc # "idle" => co'.pc = "exec" /\ co'.att = claimed)
      BY <2>2, <3>1, ReturnCo DEF SelectAttempt, TypeOK, Receiver
    <3> QED
      BY <3>1, <3>2 DEF SelectAttempt, ReceiverInv, BeforeRelease, AfterRelease, StartedInv
  <2> QED BY <2>1, <2>2
<1>7. StartedInv' BY <1>0 DEF SelectAttempt, StartedInv
<1> QED BY <1>2, <1>3, <1>4, <1>5, <1>6, <1>7

LEMMA LookForEvidenceSafe == SafeInv /\ LookForEvidence => SafeInv'
<1> SUFFICES ASSUME SafeInv, LookForEvidence PROVE SafeInv' OBVIOUS
<1> USE DEF SafeInv, launcherFiles, receiverFiles, history
<1>0. co.att \in Attempts /\ co.att = claimed /\ release[co.att] = NoPid
  BY DEF LookForEvidence, ReceiverInv, BeforeRelease
<1>1. CASE UNCHANGED abandoned /\ (Return \/ Go("spawn"))
  <2>1. /\ co' \in Receiver /\ co'.pc \in {"idle", "spawn"}
        /\ co'.pc # "idle" => co'.att = co.att
    BY <1>1, GoCo, ReturnCo DEF RECEIVER_STEPS
  <2>2. TypeOK' BY <1>1, <2>1 DEF LookForEvidence, TypeOK
  <2>3. FilesInv' /\ ReleaseInv' /\ ReplacedOnlyWhenGone' BY <1>1, FilesKept DEF LookForEvidence
  <2>4. ReceiverInv' /\ StartedInv'
    BY <1>1, <2>1
    DEF LookForEvidence, ReceiverInv, BeforeRelease, AfterRelease, StartedInv
  <2> QED BY <2>2, <2>3, <2>4
<1>2. ASSUME NEW p \in FencesOf(co.att), Go("abandoned"),
             abandoned' = [abandoned EXCEPT ![co.att] = p]
      PROVE  SafeInv'
  <2>0. p \in Procs BY DEF FencesOf, TypeOK
  <2>1. co' \in Receiver /\ co'.pc = "abandoned" /\ co'.att = co.att
    BY <1>2, GoCo DEF RECEIVER_STEPS
  <2>2. TypeOK' BY <1>2, <2>0, <2>1 DEF LookForEvidence, TypeOK, Pids
  <2>3. FilesInv' BY DEF LookForEvidence, FilesInv
  <2>4. ReleaseInv' BY <1>0, <1>2 DEF LookForEvidence, ReleaseInv, TypeOK, Attempts
  <2>5. ReplacedOnlyWhenGone'
    BY <1>0, <1>2 DEF LookForEvidence, ReplacedOnlyWhenGone, Gone, TypeOK, Attempts
  <2>6. ReceiverInv' /\ StartedInv'
    BY <1>0, <1>2, <2>0, <2>1, ConstantsOK
    DEF LookForEvidence, ReceiverInv, BeforeRelease, AfterRelease, StartedInv, TypeOK
  <2> QED BY <2>2, <2>3, <2>4, <2>5, <2>6
<1> QED BY <1>1, <1>2 DEF LookForEvidence

LEMMA ClaimNextAttemptSafe == SafeInv /\ ClaimNextAttempt => SafeInv'
<1> SUFFICES ASSUME SafeInv, ClaimNextAttempt PROVE SafeInv' OBVIOUS
<1> USE DEF SafeInv, launcherFiles, receiverFiles, history
<1>0. /\ co.att \in Attempts /\ co.att = claimed /\ started = 0
      /\ \/ release[co.att] = NoPid /\ abandoned[co.att] # NoPid
         \/ release[co.att] # NoPid /\ Gone(release[co.att])
  BY DEF ClaimNextAttempt, ReceiverInv, BeforeRelease, AfterRelease
<1>1. CASE claimed' = claimed + 1 /\ claimed < MaxAttempts
           /\ co' = [co EXCEPT !.pc = IF co.pc = "replace" THEN "spawn" ELSE "pane",
                               !.att = claimed + 1]
           /\ UNCHANGED faults
  <2>1. /\ co' \in Receiver /\ co'.pc \in {"spawn", "pane"} /\ co'.att = claimed + 1
        /\ claimed + 1 \in Attempts
    <3>1. claimed + 1 \in Attempts /\ claimed + 1 \in 0..MaxAttempts
      BY <1>1, ConstantsOK DEF TypeOK, Attempts
    <3>2. CASE co' = [co EXCEPT !.pc = "spawn", !.att = claimed + 1]
      BY <3>1, <3>2 DEF TypeOK, Receiver, RECEIVER_STEPS
    <3>3. CASE co' = [co EXCEPT !.pc = "pane", !.att = claimed + 1]
      BY <3>1, <3>3 DEF TypeOK, Receiver, RECEIVER_STEPS
    <3> QED BY <1>1, <3>2, <3>3
  <2>2. TypeOK' BY <1>1, <2>1 DEF ClaimNextAttempt, TypeOK, Attempts
  <2>3. FilesInv' BY <1>1 DEF ClaimNextAttempt, FilesInv, TypeOK, Attempts
  <2>4. ReleaseInv' BY <1>1 DEF ClaimNextAttempt, ReleaseInv, TypeOK, Attempts
  <2>5. ReplacedOnlyWhenGone'
    BY <1>0, <1>1 DEF ClaimNextAttempt, ReplacedOnlyWhenGone, Gone, TypeOK, Attempts
  <2>6. release[claimed + 1] = NoPid /\ abandoned[claimed + 1] = NoPid
    BY <2>1 DEF ReleaseInv, TypeOK, Attempts
  <2>7. ReceiverInv' /\ StartedInv'
    BY <1>0, <1>1, <2>1, <2>6
    DEF ClaimNextAttempt, ReceiverInv, BeforeRelease, AfterRelease, StartedInv
  <2> QED BY <2>2, <2>3, <2>4, <2>5, <2>7
<1>2. CASE Fault /\ Return /\ UNCHANGED claimed
  <2>1. TypeOK' BY <1>2, ReturnCo, FaultBound DEF ClaimNextAttempt, TypeOK
  <2>2. FilesInv' /\ ReleaseInv' /\ ReplacedOnlyWhenGone'
    BY <1>2, FilesKept DEF ClaimNextAttempt
  <2>3. ReceiverInv' /\ StartedInv'
    BY <1>2, ReturnCo DEF ClaimNextAttempt, ReceiverInv, BeforeRelease, AfterRelease, StartedInv
  <2> QED BY <2>1, <2>2, <2>3
<1> QED BY <1>1, <1>2 DEF ClaimNextAttempt

LEMMA RemoveRemainsSafe == SafeInv /\ RemoveRemains => SafeInv'
<1> SUFFICES ASSUME SafeInv, RemoveRemains PROVE SafeInv' OBVIOUS
<1> USE DEF SafeInv, launcherFiles, receiverFiles, history
<1>1. TypeOK' BY GoCo DEF RemoveRemains, RECEIVER_STEPS, TypeOK, Pids
<1>2. FilesInv' BY ConstantsOK DEF RemoveRemains, FilesInv
<1>3. ReleaseInv' /\ StartedInv' BY DEF RemoveRemains, ReleaseInv, StartedInv
<1>4. ReplacedOnlyWhenGone' BY DEF RemoveRemains, ReplacedOnlyWhenGone, Gone
<1>5. ReceiverInv'
  BY GoCo DEF RemoveRemains, ReceiverInv, BeforeRelease, AfterRelease, RECEIVER_STEPS
<1> QED BY <1>1, <1>2, <1>3, <1>4, <1>5

-----------------------------------------------------------------------------
(* The launchers, tmux and the operating system. *)

\* What a launcher, a harness or the operating system does is nothing to the
\* receiver, as long as files stay and the dead stay dead.
LEMMA ReceiverKept ==
    ASSUME SafeInv, UNCHANGED <<co, claimed, release, abandoned, started, receipt>>,
           fence \subseteq fence',
           \A p \in fence : at'[p] = at[p] /\ (Gone(p) => proc'[p] \in {"none", "dead"})
    PROVE  ReleaseInv' /\ ReceiverInv' /\ StartedInv' /\ ReplacedOnlyWhenGone'
<1> USE DEF SafeInv
<1>1. ReleaseInv' BY DEF ReleaseInv
<1>2. ReplacedOnlyWhenGone' BY DEF ReplacedOnlyWhenGone, ReleaseInv, Gone
<1>3. ReceiverInv' BY DEF ReceiverInv, ReleaseInv, AfterRelease, BeforeRelease, Gone
<1>4. StartedInv' BY DEF StartedInv
<1> QED BY <1>1, <1>2, <1>3, <1>4

\* A new process has left no files.
LEMMA NewSessionSafe ==
    ASSUME SafeInv, NEW p \in Procs, NEW a \in Attempts, NewSession(p, a), a <= claimed,
           UNCHANGED <<launcherFiles, failure, receiverFiles, history, faults>>,
           inFlight' \subseteq inFlight
    PROVE  /\ co' \in Receiver => TypeOK'
           /\ FilesInv' /\ ReleaseInv' /\ ReplacedOnlyWhenGone' /\ StartedInv'
           /\ UNCHANGED co => ReceiverInv'
<1> USE DEF SafeInv, launcherFiles, receiverFiles, history
<1>1. co' \in Receiver => TypeOK'
  BY DEF NewSession, TypeOK, Pids, ProcStates, Attempts
<1>2. p \notin fence BY DEF NewSession, FilesInv
<1>3. FilesInv' BY <1>2 DEF NewSession, FilesInv, TypeOK
<1>4. \A q \in fence : at'[q] = at[q] /\ proc'[q] = proc[q]
  BY <1>2 DEF NewSession, TypeOK
<1>5. ReleaseInv' BY <1>4 DEF ReleaseInv
<1>6. ReplacedOnlyWhenGone' BY <1>4 DEF ReplacedOnlyWhenGone, ReleaseInv, Gone
<1>7. StartedInv' BY DEF StartedInv
<1>8. UNCHANGED co => ReceiverInv' BY <1>4, ReceiverKept DEF Gone
<1> QED BY <1>1, <1>3, <1>5, <1>6, <1>7, <1>8

LEMMA StartDetachedSafe == SafeInv /\ StartDetached => SafeInv'
<1> SUFFICES ASSUME SafeInv, StartDetached PROVE SafeInv' OBVIOUS
<1> USE DEF SafeInv, launcherFiles, receiverFiles, history
<1>0. co.att \in Attempts /\ co.att = claimed
  BY DEF StartDetached, ReceiverInv, BeforeRelease
<1>1. ASSUME NEW p \in Procs, NewSession(p, co.att), Go("ready") PROVE SafeInv'
  <2>1. co' \in Receiver /\ co'.pc = "ready" /\ co'.att = co.att
    BY <1>1, GoCo DEF RECEIVER_STEPS
  <2>2. TypeOK' /\ FilesInv' /\ ReleaseInv' /\ ReplacedOnlyWhenGone' /\ StartedInv'
    BY <1>0, <1>1, <2>1, NewSessionSafe DEF StartDetached, TypeOK
  <2>3. ReceiverInv'
    BY <2>1 DEF StartDetached, ReceiverInv, BeforeRelease, AfterRelease
  <2> QED BY <2>2, <2>3
<1>2. CASE UNCHANGED <<proc, at, pane>> /\ co' = [co EXCEPT !.pc = "ready", !.seen = LivePane]
  <2>1. co' \in Receiver /\ co'.pc = "ready" /\ co'.att = co.att
    BY <1>2 DEF TypeOK, Receiver, RECEIVER_STEPS, LivePane, Pids
  <2>2. TypeOK' BY <1>2, <2>1 DEF StartDetached, TypeOK
  <2>3. FilesInv' /\ ReleaseInv' /\ ReplacedOnlyWhenGone' BY <1>2, FilesKept DEF StartDetached
  <2>4. ReceiverInv' /\ StartedInv'
    BY <2>1 DEF StartDetached, ReceiverInv, BeforeRelease, AfterRelease, StartedInv
  <2> QED BY <2>2, <2>3, <2>4
<1>3. CASE UNCHANGED <<proc, at, pane>> /\ Return
  <2>2. TypeOK' BY <1>3, ReturnCo DEF StartDetached, TypeOK
  <2>3. FilesInv' /\ ReleaseInv' /\ ReplacedOnlyWhenGone' BY <1>3, FilesKept DEF StartDetached
  <2>4. ReceiverInv' /\ StartedInv'
    BY <1>3, ReturnCo DEF StartDetached, ReceiverInv, BeforeRelease, AfterRelease, StartedInv
  <2> QED BY <2>2, <2>3, <2>4
<1> QED BY <1>1, <1>2, <1>3 DEF StartDetached

LEMMA PublishReleaseSafe == SafeInv /\ PublishRelease => SafeInv'
<1> SUFFICES ASSUME SafeInv, PublishRelease PROVE SafeInv' OBVIOUS
<1> USE DEF SafeInv, launcherFiles, receiverFiles, history
<1>0. /\ co.att \in Attempts /\ co.att = claimed /\ release[co.att] = NoPid /\ started = 0
      /\ abandoned[co.att] = NoPid /\ co.got \in fence /\ at[co.got] = co.att
      /\ co.got \in Procs /\ co.got # NoPid
  BY ConstantsOK DEF PublishRelease, ReceiverInv, BeforeRelease, TypeOK
<1>1. CASE /\ release' = [release EXCEPT ![co.att] = co.got]
           /\ halfRelease' = halfRelease \cup {co.att} /\ Go("unlink")
  <2>1. co' \in Receiver /\ co'.pc = "unlink" /\ co'.att = co.att
    BY <1>1, GoCo DEF RECEIVER_STEPS
  <2>2. TypeOK' BY <1>0, <1>1, <2>1 DEF PublishRelease, TypeOK, Pids
  <2>3. \A a \in Attempts : release[a] # NoPid => release'[a] = release[a]
    BY <1>0, <1>1 DEF TypeOK
  <2>4. \A p \in Procs : proc[p] \in {"verifying", "harness"} => release'[at[p]] = p
    BY <2>3, ConstantsOK DEF FilesInv
  <2>5. FilesInv' BY <2>4 DEF PublishRelease, FilesInv
  <2>6. ReleaseInv' BY <1>0, <1>1 DEF PublishRelease, ReleaseInv, TypeOK, Attempts
  <2>7. ReplacedOnlyWhenGone'
    BY <1>0, <1>1 DEF PublishRelease, ReplacedOnlyWhenGone, Gone, TypeOK, Attempts
  <2>8. ReceiverInv' /\ StartedInv'
    BY <1>0, <1>1, <2>1
    DEF PublishRelease, ReceiverInv, BeforeRelease, AfterRelease, StartedInv, TypeOK
  <2> QED BY <2>2, <2>5, <2>6, <2>7, <2>8
<1>2. CASE Return /\ UNCHANGED <<release, halfRelease>>
  <2>1. TypeOK' BY <1>2, ReturnCo DEF PublishRelease, TypeOK
  <2>2. FilesInv' /\ ReleaseInv' /\ ReplacedOnlyWhenGone' BY <1>2, FilesKept DEF PublishRelease
  <2>3. ReceiverInv' /\ StartedInv'
    BY <1>2, ReturnCo DEF PublishRelease, ReceiverInv, BeforeRelease, AfterRelease, StartedInv
  <2> QED BY <2>1, <2>2, <2>3
<1> QED BY <1>1, <1>2 DEF PublishRelease

LEMMA ReceiverCrashSafe == SafeInv /\ ReceiverCrash => SafeInv'
<1> SUFFICES ASSUME SafeInv, ReceiverCrash PROVE SafeInv' OBVIOUS
<1> USE DEF SafeInv, launcherFiles, receiverFiles, history
<1>1. co' \in Receiver /\ co'.pc = "idle" BY ReturnCo DEF ReceiverCrash
<1>2. \A a \in inFlight' : a \in Attempts /\ a <= claimed
  <2>1. co.pc = "create" => co.att \in Attempts /\ co.att = claimed
    BY DEF ReceiverInv, BeforeRelease
  <2>2. inFlight' = inFlight \/ (co.pc = "create" /\ inFlight' = inFlight \cup {co.att})
    BY DEF ReceiverCrash
  <2>3. \A a \in inFlight : a \in Attempts /\ a <= claimed BY DEF FilesInv, TypeOK
  <2>4. claimed <= claimed BY DEF TypeOK
  <2> QED BY <2>1, <2>2, <2>3, <2>4
<1>3. TypeOK' BY <1>1, <1>2, FaultBound DEF ReceiverCrash, TypeOK
<1>4. FilesInv' BY <1>2 DEF ReceiverCrash, FilesInv
<1>5. ReleaseInv' /\ StartedInv' BY DEF ReceiverCrash, ReleaseInv, StartedInv
<1>6. ReplacedOnlyWhenGone' BY DEF ReceiverCrash, ReplacedOnlyWhenGone, Gone
<1>7. ReceiverInv' BY <1>1 DEF ReceiverInv, BeforeRelease, AfterRelease
<1> QED BY <1>3, <1>4, <1>5, <1>6, <1>7

LEMMA LateNewSessionSafe ==
    ASSUME NEW a \in Attempts PROVE SafeInv /\ LateNewSession(a) => SafeInv'
<1> SUFFICES ASSUME SafeInv, LateNewSession(a) PROVE SafeInv' OBVIOUS
<1> USE DEF SafeInv, launcherFiles, receiverFiles, history
<1>0. a <= claimed BY DEF LateNewSession, FilesInv
<1>1. ASSUME NEW p \in Procs, NewSession(p, a) PROVE SafeInv'
  BY <1>0, <1>1, NewSessionSafe DEF LateNewSession, TypeOK
<1>2. CASE UNCHANGED <<proc, at, pane>>
  <2>1. TypeOK' BY <1>2 DEF LateNewSession, TypeOK
  <2>2. FilesInv' BY <1>2 DEF LateNewSession, FilesInv
  <2>3. ReleaseInv' /\ ReceiverInv' /\ StartedInv' /\ ReplacedOnlyWhenGone'
    BY <1>2, ReceiverKept DEF LateNewSession, Gone
  <2> QED BY <2>1, <2>2, <2>3
<1> QED BY <1>1, <1>2 DEF LateNewSession

LEMMA SessionKilledSafe == SafeInv /\ SessionKilled => SafeInv'
<1> SUFFICES ASSUME SafeInv, SessionKilled PROVE SafeInv' OBVIOUS
<1> USE DEF SafeInv, launcherFiles, receiverFiles, history
<1>1. TypeOK' BY FaultBound DEF SessionKilled, TypeOK, Pids
<1>2. FilesInv' BY ConstantsOK DEF SessionKilled, FilesInv
<1>3. ReleaseInv' /\ ReceiverInv' /\ StartedInv' /\ ReplacedOnlyWhenGone'
  BY ReceiverKept DEF SessionKilled, Gone
<1> QED BY <1>1, <1>2, <1>3

\* The steps of a launcher and its end.
LEMMA CheckAttemptSafe ==
    ASSUME NEW p \in Procs PROVE SafeInv /\ CheckAttempt(p) => SafeInv'
<1> SUFFICES ASSUME SafeInv, CheckAttempt(p) PROVE SafeInv' OBVIOUS
<1> USE DEF SafeInv, launcherFiles, receiverFiles, history
<1>1. TypeOK' BY ConstantsOK DEF CheckAttempt, Becomes, TypeOK, ProcStates, Pids
<1>2. FilesInv' BY ConstantsOK DEF CheckAttempt, Becomes, FilesInv, TypeOK
<1>3. ReleaseInv' /\ ReceiverInv' /\ StartedInv' /\ ReplacedOnlyWhenGone'
  BY ReceiverKept DEF CheckAttempt, Becomes, Gone, TypeOK, FilesInv
<1> QED BY <1>1, <1>2, <1>3

LEMMA AcquireFenceSafe ==
    ASSUME NEW p \in Procs PROVE SafeInv /\ AcquireFence(p) => SafeInv'
<1> SUFFICES ASSUME SafeInv, AcquireFence(p) PROVE SafeInv' OBVIOUS
<1> USE DEF SafeInv, launcherFiles, receiverFiles, history
<1>1. TypeOK' BY ConstantsOK DEF AcquireFence, Step, Becomes, TypeOK, ProcStates, Pids
<1>2. FilesInv' BY ConstantsOK DEF AcquireFence, Step, Becomes, FilesInv, TypeOK
<1>3. ReleaseInv' /\ ReceiverInv' /\ StartedInv' /\ ReplacedOnlyWhenGone'
  BY ReceiverKept DEF AcquireFence, Step, Becomes, Gone, TypeOK, FilesInv
<1> QED BY <1>1, <1>2, <1>3

LEMMA LinkReadySafe ==
    ASSUME NEW p \in Procs PROVE SafeInv /\ LinkReady(p) => SafeInv'
<1> SUFFICES ASSUME SafeInv, LinkReady(p) PROVE SafeInv' OBVIOUS
<1> USE DEF SafeInv, launcherFiles, receiverFiles, history
<1>1. TypeOK' BY ConstantsOK DEF LinkReady, Step, Becomes, TypeOK, ProcStates, Pids
<1>2. FilesInv' BY ConstantsOK DEF LinkReady, Step, Becomes, FilesInv, TypeOK
<1>3. ReleaseInv' /\ ReceiverInv' /\ StartedInv' /\ ReplacedOnlyWhenGone'
  BY ReceiverKept DEF LinkReady, Step, Becomes, Gone, TypeOK, FilesInv
<1> QED BY <1>1, <1>2, <1>3

LEMMA UnlinkReadySafe ==
    ASSUME NEW p \in Procs PROVE SafeInv /\ UnlinkReady(p) => SafeInv'
<1> SUFFICES ASSUME SafeInv, UnlinkReady(p) PROVE SafeInv' OBVIOUS
<1> USE DEF SafeInv, launcherFiles, receiverFiles, history
<1>1. TypeOK' BY ConstantsOK DEF UnlinkReady, Step, Becomes, TypeOK, ProcStates, Pids
<1>2. FilesInv' BY ConstantsOK DEF UnlinkReady, Step, Becomes, FilesInv, TypeOK
<1>3. ReleaseInv' /\ ReceiverInv' /\ StartedInv' /\ ReplacedOnlyWhenGone'
  BY ReceiverKept DEF UnlinkReady, Step, Becomes, Gone, TypeOK, FilesInv
<1> QED BY <1>1, <1>2, <1>3

LEMMA ReadReleaseSafe ==
    ASSUME NEW p \in Procs PROVE SafeInv /\ ReadRelease(p) => SafeInv'
<1> SUFFICES ASSUME SafeInv, ReadRelease(p) PROVE SafeInv' OBVIOUS
<1> USE DEF SafeInv, launcherFiles, receiverFiles, history
<1>1. TypeOK' BY FaultBound, ConstantsOK DEF ReadRelease, Becomes, TypeOK, ProcStates, Pids
<1>2. FilesInv' BY ConstantsOK DEF ReadRelease, Becomes, Selects, FilesInv, TypeOK
<1>3. ReleaseInv' /\ ReceiverInv' /\ StartedInv' /\ ReplacedOnlyWhenGone'
  BY ReceiverKept DEF ReadRelease, Becomes, Gone, TypeOK, FilesInv
<1> QED BY <1>1, <1>2, <1>3

LEMMA ExecHarnessSafe ==
    ASSUME NEW p \in Procs PROVE SafeInv /\ ExecHarness(p) => SafeInv'
<1> SUFFICES ASSUME SafeInv, ExecHarness(p) PROVE SafeInv' OBVIOUS
<1> USE DEF SafeInv, launcherFiles, receiverFiles, history
<1>1. TypeOK'
  BY FaultBound, ConstantsOK DEF ExecHarness, Step, Becomes, TypeOK, ProcStates, Pids
<1>2. FilesInv' BY ConstantsOK DEF ExecHarness, Step, Becomes, FilesInv, TypeOK
<1>3. ReleaseInv' /\ ReceiverInv' /\ StartedInv' /\ ReplacedOnlyWhenGone'
  BY ReceiverKept DEF ExecHarness, Step, Becomes, Gone, TypeOK, FilesInv
<1> QED BY <1>1, <1>2, <1>3

LEMMA HarnessExitsSafe ==
    ASSUME NEW p \in Procs PROVE SafeInv /\ HarnessExits(p) => SafeInv'
<1> SUFFICES ASSUME SafeInv, HarnessExits(p) PROVE SafeInv' OBVIOUS
<1> USE DEF SafeInv, launcherFiles, receiverFiles, history
<1>1. TypeOK'
  BY FaultBound, ConstantsOK DEF HarnessExits, Step, Becomes, TypeOK, ProcStates, Pids
<1>2. FilesInv' BY ConstantsOK DEF HarnessExits, Step, Becomes, FilesInv, TypeOK
<1>3. ReleaseInv' /\ ReceiverInv' /\ StartedInv' /\ ReplacedOnlyWhenGone'
  BY ReceiverKept DEF HarnessExits, Step, Becomes, Gone, TypeOK, FilesInv
<1> QED BY <1>1, <1>2, <1>3

LEMMA CollectSafe ==
    ASSUME NEW p \in Procs PROVE SafeInv /\ Collect(p) => SafeInv'
<1> SUFFICES ASSUME SafeInv, Collect(p) PROVE SafeInv' OBVIOUS
<1> USE DEF SafeInv, launcherFiles, receiverFiles, history
<1>1. TypeOK' BY ConstantsOK DEF Collect, Collected, TypeOK, ProcStates, Pids
<1>2. FilesInv' BY ConstantsOK DEF Collect, Collected, FilesInv, TypeOK
<1>3. ReleaseInv' /\ ReceiverInv' /\ StartedInv' /\ ReplacedOnlyWhenGone'
  BY ReceiverKept DEF Collect, Collected, Gone, TypeOK, FilesInv
<1> QED BY <1>1, <1>2, <1>3

LEMMA LauncherKilledSafe ==
    ASSUME NEW p \in Procs PROVE SafeInv /\ LauncherKilled(p) => SafeInv'
<1> SUFFICES ASSUME SafeInv, LauncherKilled(p) PROVE SafeInv' OBVIOUS
<1> USE DEF SafeInv, launcherFiles, receiverFiles, history
<1>1. TypeOK' BY FaultBound, ConstantsOK DEF LauncherKilled, Collected, TypeOK, ProcStates, Pids
<1>2. FilesInv' BY ConstantsOK DEF LauncherKilled, Collected, FilesInv, TypeOK
<1>3. ReleaseInv' /\ ReceiverInv' /\ StartedInv' /\ ReplacedOnlyWhenGone'
  BY ReceiverKept DEF LauncherKilled, Collected, Gone, TypeOK, FilesInv
<1> QED BY <1>1, <1>2, <1>3

-----------------------------------------------------------------------------
(* The safety invariant. *)

LEMMA InitSafe == Init => SafeInv
<1> SUFFICES ASSUME Init PROVE SafeInv OBVIOUS
<1>1. Idle \in Receiver BY ConstantsOK DEF Idle, Receiver, RECEIVER_STEPS, Pids
<1>2. TypeOK BY <1>1, ConstantsOK DEF Init, TypeOK, ProcStates, Pids, Attempts
<1>3. FilesInv BY ConstantsOK DEF Init, FilesInv
<1>4. ReleaseInv BY DEF Init, ReleaseInv
<1>5. ReceiverInv BY DEF Init, Idle, ReceiverInv, BeforeRelease, AfterRelease
<1>6. StartedInv BY DEF Init, StartedInv
<1>7. ReplacedOnlyWhenGone BY DEF Init, ReplacedOnlyWhenGone, Attempts
<1> QED BY <1>2, <1>3, <1>4, <1>5, <1>6, <1>7 DEF SafeInv

LEMMA StutterSafe == SafeInv /\ UNCHANGED vars => SafeInv'
<1> SUFFICES ASSUME SafeInv, UNCHANGED vars PROVE SafeInv' OBVIOUS
<1> USE DEF SafeInv, vars, launcherFiles, receiverFiles, history
<1>1. TypeOK' BY DEF TypeOK
<1>2. FilesInv' /\ ReleaseInv' /\ ReplacedOnlyWhenGone' BY FilesKept
<1>3. ReceiverInv' BY DEF ReceiverInv, Gone
<1>4. StartedInv' BY DEF StartedInv
<1> QED BY <1>1, <1>2, <1>3, <1>4

LEMMA NextSafe == SafeInv /\ [Next]_vars => SafeInv'
<1> SUFFICES ASSUME SafeInv, [Next]_vars PROVE SafeInv' OBVIOUS
<1>1. CASE Receive
  BY <1>1, ReplayReceiptSafe, BeginReceiveSafe, InspectSafe, PrepareWorktreeSafe,
     SelectAttemptSafe, LookAtPaneSafe, LookForEvidenceSafe, CheckAbandonmentSafe,
     ClaimNextAttemptSafe, RemoveRemainsSafe, StartDetachedSafe, WaitReadySafe,
     PrepareWorkLogSafe, PublishReleaseSafe, FinishReleaseSafe, WaitExecSuccessSafe,
     ConfirmLiveSafe, JudgeFailureSafe, RecordStartedPhaseSafe, CompleteWorkLogSafe,
     SaveReceiptSafe, RecordCompletedSafe DEF Receive
<1>2. CASE ReceiverCrash BY <1>2, ReceiverCrashSafe
<1>3. CASE SessionKilled BY <1>3, SessionKilledSafe
<1>4. ASSUME NEW p \in Procs, Launcher(p) PROVE SafeInv'
  BY <1>4, CheckAttemptSafe, AcquireFenceSafe, LinkReadySafe, UnlinkReadySafe,
     ReadReleaseSafe, ExecHarnessSafe, CollectSafe DEF Launcher
<1>5. ASSUME NEW p \in Procs, HarnessExits(p) \/ LauncherKilled(p) PROVE SafeInv'
  BY <1>5, HarnessExitsSafe, LauncherKilledSafe
<1>6. ASSUME NEW a \in Attempts, LateNewSession(a) PROVE SafeInv'
  BY <1>6, LateNewSessionSafe
<1>7. CASE UNCHANGED vars BY <1>7, StutterSafe
<1> QED BY <1>1, <1>2, <1>3, <1>4, <1>5, <1>6, <1>7 DEF Next

\* SafeInv is inductive: it holds in every state that Receive, its crashes,
\* the launchers, tmux and the operating system reach.
THEOREM LaunchSafe == Spec => []SafeInv
BY InitSafe, NextSafe, PTL DEF Spec

\* Every variable keeps its type.
THEOREM LaunchTypeCorrect == Spec => []TypeOK
<1>1. SafeInv => TypeOK BY DEF SafeInv
<1> QED BY <1>1, LaunchSafe, PTL

\* A launcher that passed its release, or its harness, is the process that
\* the latest attempt's release names.
LEMMA RunnerIsReleased ==
    ASSUME SafeInv, NEW p \in Procs, proc[p] \in {"verifying", "harness"}
    PROVE  at[p] = claimed /\ release[claimed] = p
<1>1. at[p] \in Attempts /\ at[p] <= claimed /\ release[at[p]] = p
  BY DEF SafeInv, FilesInv
<1>2. ~ Gone(p) BY DEF Gone
<1>3. ~(at[p] < claimed)
  BY <1>1, <1>2, ConstantsOK DEF SafeInv, ReplacedOnlyWhenGone
<1> QED BY <1>1, <1>3 DEF SafeInv, TypeOK, Attempts

\* At most one harness of the hand-off runs at any time (launch.go: the
\* release, and failedAttemptRetryable before a replacement).
THEOREM AtMostOneHarness == Spec => []OneHarness
<1>1. SafeInv => OneHarness BY RunnerIsReleased DEF OneHarness
<1> QED BY <1>1, LaunchSafe, PTL

\* An attempt is replaced only when nothing of it can run any more
\* (launch.go: failedAttemptRetryable, validateAbandonment).
THEOREM AttemptsReplacedSafely == Spec => []ReplacedOnlyWhenGone
<1>1. SafeInv => ReplacedOnlyWhenGone BY DEF SafeInv
<1> QED BY <1>1, LaunchSafe, PTL

\* started.json selects the last process that may ever become the harness
\* (launch.go: finalizeStarted).
THEOREM SelectionIsFinal == Spec => []StartedIsFinal
<1>1. SafeInv => StartedIsFinal
  BY RunnerIsReleased DEF StartedIsFinal, SafeInv, StartedInv
<1> QED BY <1>1, LaunchSafe, PTL

-----------------------------------------------------------------------------
(* The receipt. *)

\* A step that lets nobody leave and removes no evidence.
LEMMA LeftProcsKept ==
    ASSUME TypeOK, FilesInv, LeftProcs,
           \A p \in Procs : proc'[p] \in {"harness", "leaving"} =>
               proc'[p] = proc[p] /\ at'[p] = at[p] /\ (p \in fence' => p \in fence),
           \A a \in Attempts : release[a] # NoPid => release'[a] = release[a],
           ran \subseteq ran', misled \subseteq misled', failure \subseteq failure'
    PROVE  LeftProcs'
BY DEF LeftProcs, FilesInv

\* The receiver: only WaitExecSuccess and ConfirmLive matter.
LEMMA ReceiveLeft == SafeInv /\ LeftInv /\ Receive => LeftInv'
<1> SUFFICES ASSUME SafeInv, LeftInv, Receive PROVE LeftInv' OBVIOUS
<1> USE DEF LeftInv, launcherFiles, receiverFiles, history
<1>0. TypeOK /\ FilesInv BY DEF SafeInv
<1>1. /\ UNCHANGED <<fence, ran, misled>> /\ failure \subseteq failure'
      /\ co.pc # "release" => UNCHANGED release
      /\ co.pc # "create" => UNCHANGED <<proc, at>>
      /\ co.pc # "live" => UNCHANGED started
  BY DEF Receive, ReplayReceipt, BeginReceive, Inspect, PrepareWorktree,
     SelectAttempt, LookAtPane, LookForEvidence, CheckAbandonment, ClaimNextAttempt,
     RemoveRemains, StartDetached, WaitReady, PrepareWorkLog, PublishRelease, FinishRelease,
     WaitExecSuccess, ConfirmLive, JudgeFailure, RecordStartedPhase, CompleteWorkLog,
     SaveReceipt, RecordCompleted
<1>2. /\ co.pc = "release" => PublishRelease
      /\ co.pc = "create" => StartDetached
      /\ co.pc = "live" => ConfirmLive
  BY DEF Receive, ReplayReceipt, BeginReceive, Inspect, PrepareWorktree,
     SelectAttempt, LookAtPane, LookForEvidence, CheckAbandonment, ClaimNextAttempt,
     RemoveRemains, StartDetached, WaitReady, PrepareWorkLog, PublishRelease, FinishRelease,
     WaitExecSuccess, ConfirmLive, JudgeFailure, RecordStartedPhase, CompleteWorkLog,
     SaveReceipt, RecordCompleted
<1>3. \A a \in Attempts : release[a] # NoPid => release'[a] = release[a]
  BY <1>1, <1>2 DEF PublishRelease, SafeInv, ReceiverInv, BeforeRelease, TypeOK
<1>4. UNCHANGED <<proc, at>> \/ \E p \in Procs, a \in Attempts : NewSession(p, a)
  BY <1>1, <1>2 DEF StartDetached, SafeInv, ReceiverInv, BeforeRelease
<1>5. \A p \in Procs : proc'[p] \in {"harness", "leaving"} =>
          proc'[p] = proc[p] /\ at'[p] = at[p]
  BY <1>0, <1>4 DEF NewSession, TypeOK
<1>6. LeftProcs'
  BY <1>0, <1>1, <1>3, <1>5, LeftProcsKept
<1>7. LeftLive' /\ LeftStarted'
  <2>1. CASE WaitExecSuccess
    <3>1. LeftLive'
      BY <2>1, <1>0, GoCo, NotRunningCo
      DEF WaitExecSuccess, LeftLive, RECEIVER_STEPS, FenceHeld, FailureFound
    <3>2. LeftStarted' BY <2>1 DEF WaitExecSuccess, LeftStarted
    <3> QED BY <3>1, <3>2
  <2>2. CASE ConfirmLive
    <3>1. LeftLive'
      BY <2>2, <1>0, GoCo, NotRunningCo DEF ConfirmLive, LeftLive, RECEIVER_STEPS
    <3>2. CASE UNCHANGED started BY <2>2, <3>1, <3>2 DEF ConfirmLive, LeftStarted
    <3>3. CASE /\ pane = release[co.att] /\ Registered(release[co.att])
               /\ started' = co.att
      <4> DEFINE p == release[co.att]
      <4>1. /\ p \in Procs /\ p \in fence /\ at[p] = co.att /\ release[at[p]] = p
        BY <2>2 DEF ConfirmLive, SafeInv, ReceiverInv, AfterRelease, ReleaseInv, TypeOK
      <4>2. proc[p] \in {"harness", "leaving"}
        BY <2>2, <3>3, <4>1 DEF ConfirmLive, LeftLive, Registered, Gone, FenceHeld, SafeInv,
           TypeOK, ProcStates, FilesInv
      <4>3. p \in ran \cup misled
        BY <2>2, <4>1, <4>2 DEF ConfirmLive, LeftProcs, LeftLive
      <4> QED BY <2>2, <3>1, <3>3, <4>3 DEF ConfirmLive, LeftStarted
    <3> QED BY <2>2, <3>1, <3>2, <3>3 DEF ConfirmLive
  <2>3. CASE ~WaitExecSuccess /\ ~ConfirmLive
    <3>1. LeftLive'
      <4>1. CASE Inspect BY <4>1, <1>0, GoCo, ReturnCo
        DEF Inspect, LeftLive, RECEIVER_STEPS, TypeOK, Receiver
      <4>2. CASE SelectAttempt BY <4>2, <1>0, ReturnCo
        DEF SelectAttempt, LeftLive, TypeOK, Receiver
      <4>3. CASE LookAtPane BY <4>3, <1>0, GoCo, ReturnCo
        DEF LookAtPane, LeftLive, RECEIVER_STEPS, TypeOK, Receiver
      <4>4. CASE ClaimNextAttempt BY <4>4, <1>0, ReturnCo
        DEF ClaimNextAttempt, LeftLive, TypeOK, Receiver
      <4>5. CASE StartDetached BY <4>5, <1>0, GoCo, ReturnCo
        DEF StartDetached, LeftLive, RECEIVER_STEPS, TypeOK, Receiver
      <4>6. CASE WaitReady BY <4>6, <1>0, ReturnCo DEF WaitReady, LeftLive, TypeOK, Receiver
      <4>7. CASE FinishRelease BY <4>7, <1>0 DEF FinishRelease, LeftLive, TypeOK, Receiver
      <4>8. CASE \/ BeginReceive \/ PrepareWorktree \/ LookForEvidence \/ CheckAbandonment
                 \/ RemoveRemains \/ PrepareWorkLog \/ PublishRelease \/ JudgeFailure
        BY <4>8, <1>0, GoCo, ReturnCo
        DEF BeginReceive, PrepareWorktree, LookForEvidence, CheckAbandonment, RemoveRemains,
            PrepareWorkLog, PublishRelease, JudgeFailure, LeftLive, RECEIVER_STEPS
      <4>9. CASE \/ ReplayReceipt \/ RecordStartedPhase \/ CompleteWorkLog \/ SaveReceipt
                 \/ RecordCompleted
        BY <4>9, <1>0, GoCo, ReturnCo
        DEF ReplayReceipt, RecordStartedPhase, CompleteWorkLog, SaveReceipt, RecordCompleted,
            LeftLive, RECEIVER_STEPS
      <4> QED BY <2>3, <4>1, <4>2, <4>3, <4>4, <4>5, <4>6, <4>7, <4>8, <4>9 DEF Receive
    <3>2. LeftStarted' BY <1>1, <1>2, <1>3, <2>3 DEF LeftStarted, SafeInv, StartedInv
    <3> QED BY <3>1, <3>2
  <2> QED BY <2>1, <2>2, <2>3
<1> QED BY <1>6, <1>7

\* A step of anyone but the receiver.
LEMMA LiveKept ==
    ASSUME SafeInv, LeftLive, LeftStarted, UNCHANGED <<co, release, started>>,
           ran \subseteq ran', misled \subseteq misled',
           \A p \in fence : ~FenceHeld(p) =>
               /\ proc'[p] \notin {"fenced", "linked", "polling", "verifying"}
               /\ p \in failure' => p \in failure
    PROVE  LeftLive' /\ LeftStarted'
<1>1. co.pc = "live" => release[co.att] \in fence
  BY DEF SafeInv, ReceiverInv, AfterRelease, ReleaseInv
<1>2. LeftLive' BY <1>1 DEF LeftLive, FenceHeld
<1>3. LeftStarted' BY DEF LeftStarted
<1> QED BY <1>2, <1>3

\* A new process has not left.
LEMMA NewSessionLeft ==
    ASSUME SafeInv, LeftInv, NEW p \in Procs, NEW a \in Attempts, NewSession(p, a),
           UNCHANGED <<launcherFiles, failure, receiverFiles, co, history>>
    PROVE  LeftInv'
<1> USE DEF LeftInv, launcherFiles, receiverFiles, history
<1>1. TypeOK /\ FilesInv /\ p \notin fence BY DEF SafeInv, FilesInv, NewSession
<1>2. \A q \in fence : proc'[q] = proc[q] BY <1>1 DEF NewSession, TypeOK
<1>3. \A q \in Procs : proc'[q] \in {"harness", "leaving"} =>
          proc'[q] = proc[q] /\ at'[q] = at[q]
  BY <1>1 DEF NewSession, TypeOK
<1>4. LeftProcs' BY <1>1, <1>3, LeftProcsKept
<1>5. LeftLive' /\ LeftStarted' BY <1>2, LiveKept DEF FenceHeld
<1> QED BY <1>4, <1>5

LEMMA CheckAttemptLeft ==
    ASSUME NEW p \in Procs PROVE SafeInv /\ LeftInv /\ CheckAttempt(p) => LeftInv'
<1> SUFFICES ASSUME SafeInv, LeftInv, CheckAttempt(p) PROVE LeftInv' OBVIOUS
<1> USE DEF LeftInv, launcherFiles, receiverFiles, history
<1>1. TypeOK /\ FilesInv BY DEF SafeInv
<1>2. LeftProcs' BY <1>1 DEF CheckAttempt, Becomes, LeftProcs, TypeOK, FilesInv
<1>3. LeftLive' /\ LeftStarted'
  BY <1>1, LiveKept DEF CheckAttempt, Becomes, FenceHeld, TypeOK, FilesInv
<1> QED BY <1>2, <1>3

LEMMA AcquireFenceLeft ==
    ASSUME NEW p \in Procs PROVE SafeInv /\ LeftInv /\ AcquireFence(p) => LeftInv'
<1> SUFFICES ASSUME SafeInv, LeftInv, AcquireFence(p) PROVE LeftInv' OBVIOUS
<1> USE DEF LeftInv, launcherFiles, receiverFiles, history
<1>1. TypeOK /\ FilesInv BY DEF SafeInv
<1>2. LeftProcs' BY <1>1 DEF AcquireFence, Step, Becomes, LeftProcs, TypeOK, FilesInv
<1>3. LeftLive' /\ LeftStarted'
  BY <1>1, LiveKept DEF AcquireFence, Step, Becomes, FenceHeld, TypeOK, FilesInv
<1> QED BY <1>2, <1>3

LEMMA LinkReadyLeft ==
    ASSUME NEW p \in Procs PROVE SafeInv /\ LeftInv /\ LinkReady(p) => LeftInv'
<1> SUFFICES ASSUME SafeInv, LeftInv, LinkReady(p) PROVE LeftInv' OBVIOUS
<1> USE DEF LeftInv, launcherFiles, receiverFiles, history
<1>1. TypeOK /\ FilesInv BY DEF SafeInv
<1>2. LeftProcs' BY <1>1 DEF LinkReady, Step, Becomes, LeftProcs, TypeOK, FilesInv
<1>3. LeftLive' /\ LeftStarted'
  BY <1>1, LiveKept DEF LinkReady, Step, Becomes, FenceHeld, TypeOK, FilesInv
<1> QED BY <1>2, <1>3

LEMMA UnlinkReadyLeft ==
    ASSUME NEW p \in Procs PROVE SafeInv /\ LeftInv /\ UnlinkReady(p) => LeftInv'
<1> SUFFICES ASSUME SafeInv, LeftInv, UnlinkReady(p) PROVE LeftInv' OBVIOUS
<1> USE DEF LeftInv, launcherFiles, receiverFiles, history
<1>1. TypeOK /\ FilesInv BY DEF SafeInv
<1>2. LeftProcs' BY <1>1 DEF UnlinkReady, Step, Becomes, LeftProcs, TypeOK, FilesInv
<1>3. LeftLive' /\ LeftStarted'
  BY <1>1, LiveKept DEF UnlinkReady, Step, Becomes, FenceHeld, TypeOK, FilesInv
<1> QED BY <1>2, <1>3

LEMMA ReadReleaseLeft ==
    ASSUME NEW p \in Procs PROVE SafeInv /\ LeftInv /\ ReadRelease(p) => LeftInv'
<1> SUFFICES ASSUME SafeInv, LeftInv, ReadRelease(p) PROVE LeftInv' OBVIOUS
<1> USE DEF LeftInv, launcherFiles, receiverFiles, history
<1>1. TypeOK /\ FilesInv BY DEF SafeInv
<1>2. LeftProcs' BY <1>1 DEF ReadRelease, Becomes, Selects, LeftProcs, TypeOK, FilesInv
<1>3. LeftLive' /\ LeftStarted'
  BY <1>1, LiveKept DEF ReadRelease, Becomes, Selects, FenceHeld, TypeOK, FilesInv
<1> QED BY <1>2, <1>3

LEMMA ExecHarnessLeft ==
    ASSUME NEW p \in Procs PROVE SafeInv /\ LeftInv /\ ExecHarness(p) => LeftInv'
<1> SUFFICES ASSUME SafeInv, LeftInv, ExecHarness(p) PROVE LeftInv' OBVIOUS
<1> USE DEF LeftInv, launcherFiles, receiverFiles, history
<1>1. TypeOK /\ FilesInv BY DEF SafeInv
<1>2. LeftProcs' BY <1>1 DEF ExecHarness, Step, Becomes, LeftProcs, TypeOK, FilesInv
<1>3. LeftLive' /\ LeftStarted'
  BY <1>1, LiveKept DEF ExecHarness, Step, Becomes, FenceHeld, TypeOK, FilesInv
<1> QED BY <1>2, <1>3

LEMMA HarnessExitsLeft ==
    ASSUME NEW p \in Procs PROVE SafeInv /\ LeftInv /\ HarnessExits(p) => LeftInv'
<1> SUFFICES ASSUME SafeInv, LeftInv, HarnessExits(p) PROVE LeftInv' OBVIOUS
<1> USE DEF LeftInv, launcherFiles, receiverFiles, history
<1>1. TypeOK /\ FilesInv BY DEF SafeInv
<1>2. LeftProcs' BY <1>1 DEF HarnessExits, Step, Becomes, LeftProcs, TypeOK, FilesInv
<1>3. LeftLive' /\ LeftStarted'
  BY <1>1, LiveKept DEF HarnessExits, Step, Becomes, FenceHeld, TypeOK, FilesInv
<1> QED BY <1>2, <1>3

LEMMA CollectLeft ==
    ASSUME NEW p \in Procs PROVE SafeInv /\ LeftInv /\ Collect(p) => LeftInv'
<1> SUFFICES ASSUME SafeInv, LeftInv, Collect(p) PROVE LeftInv' OBVIOUS
<1> USE DEF LeftInv, launcherFiles, receiverFiles, history
<1>1. TypeOK /\ FilesInv BY DEF SafeInv
<1>2. LeftProcs' BY <1>1 DEF Collect, Collected, LeftProcs, TypeOK, FilesInv
<1>3. LeftLive' /\ LeftStarted'
  BY <1>1, LiveKept DEF Collect, Collected, FenceHeld, TypeOK, FilesInv
<1> QED BY <1>2, <1>3

LEMMA LauncherKilledLeft ==
    ASSUME NEW p \in Procs PROVE SafeInv /\ LeftInv /\ LauncherKilled(p) => LeftInv'
<1> SUFFICES ASSUME SafeInv, LeftInv, LauncherKilled(p) PROVE LeftInv' OBVIOUS
<1> USE DEF LeftInv, launcherFiles, receiverFiles, history
<1>1. TypeOK /\ FilesInv BY DEF SafeInv
<1>2. LeftProcs' BY <1>1 DEF LauncherKilled, Collected, LeftProcs, TypeOK, FilesInv
<1>3. LeftLive' /\ LeftStarted'
  BY <1>1, LiveKept DEF LauncherKilled, Collected, FenceHeld, TypeOK, FilesInv
<1> QED BY <1>2, <1>3

LEMMA NextLeft == SafeInv /\ LeftInv /\ [Next]_vars => LeftInv'
<1> SUFFICES ASSUME SafeInv, LeftInv, [Next]_vars PROVE LeftInv' OBVIOUS
<1> USE DEF launcherFiles, receiverFiles, history
<1>1. CASE Receive BY <1>1, ReceiveLeft
<1>2. CASE ReceiverCrash
  <2>1. co'.pc # "live" BY <1>2, ReturnCo DEF ReceiverCrash
  <2> QED BY <1>2, <2>1 DEF ReceiverCrash, LeftInv, LeftProcs, LeftLive, LeftStarted
<1>3. CASE SessionKilled
  BY <1>3 DEF SessionKilled, LeftInv, LeftProcs, LeftLive, LeftStarted, FenceHeld
<1>4. ASSUME NEW p \in Procs, Launcher(p) PROVE LeftInv'
  BY <1>4, CheckAttemptLeft, AcquireFenceLeft, LinkReadyLeft, UnlinkReadyLeft,
     ReadReleaseLeft, ExecHarnessLeft, CollectLeft DEF Launcher
<1>5. ASSUME NEW p \in Procs, HarnessExits(p) \/ LauncherKilled(p) PROVE LeftInv'
  BY <1>5, HarnessExitsLeft, LauncherKilledLeft
<1>6. ASSUME NEW a \in Attempts, LateNewSession(a) PROVE LeftInv'
  <2>1. ASSUME NEW p \in Procs, NewSession(p, a) PROVE LeftInv'
    BY <1>6, <2>1, NewSessionLeft DEF LateNewSession
  <2>2. CASE UNCHANGED <<proc, at, pane>>
    BY <1>6, <2>2 DEF LateNewSession, LeftInv, LeftProcs, LeftLive, LeftStarted, FenceHeld
  <2> QED BY <1>6, <2>1, <2>2 DEF LateNewSession
<1>7. CASE UNCHANGED vars
  BY <1>7 DEF vars, LeftInv, LeftProcs, LeftLive, LeftStarted, FenceHeld
<1> QED BY <1>1, <1>2, <1>3, <1>4, <1>5, <1>6, <1>7 DEF Next

\* A receipt names the selected attempt, and the process it names became the
\* harness or met its release file half published (receive.go:
\* finalizeTargetReceipt).
THEOREM ReceiptNamesHarness == Spec => []ReceiptIsTrue
<1>1. Init => LeftInv BY DEF Init, Idle, LeftInv, LeftProcs, LeftLive, LeftStarted
<1>2. SafeInv /\ LeftInv => ReceiptIsTrue
  BY DEF SafeInv, StartedInv, LeftInv, LeftStarted, ReceiptIsTrue
<1> QED BY <1>1, <1>2, NextLeft, LaunchSafe, PTL DEF Spec

=============================================================================
