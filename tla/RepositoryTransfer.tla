------------------------- MODULE RepositoryTransfer -------------------------
(***************************************************************************)
(* A repository_renamed job of the event queue: the processor moves the    *)
(* canonical clone to its new path (worktrees.RelocateRepository), first   *)
(* quarantining a disposable clone that already sits there, and retires    *)
(* the quarantine under an immutable receipt.  The queue checkpoints that  *)
(* receipt in the job so that a later attempt can finish the cleanup.      *)
(*                                                                         *)
(* RepositoryEvents schedules the job; here it is the only one, with its   *)
(* record in memory and in its file, and the attempt is taken apart into   *)
(* the steps between which the process may stop.  An operation is named by *)
(* the remote HEAD it was planned for, as in its digest and in the path of *)
(* its quarantine.  Any step may fail, which costs one of MaxFaults.       *)
(***************************************************************************)
EXTENDS Naturals

CONSTANTS MaxHead,      \* the remote default branch has heads 1..MaxHead
          MaxFaults,    \* how many steps may fail
          MaxCrashes    \* how often the process may stop

ASSUME ConstantsOK == MaxHead \in Nat \ {0} /\ MaxFaults \in Nat /\ MaxCrashes \in Nat

VARIABLES
    repo,       \* the clone being renamed: its path, its origin, and the path
                \* its linked worktrees point to
    repl,       \* the disposable clone at the destination, if any: where it
                \* is, its HEAD, and the operation that quarantined it
    worklog,    \* the claim of a linked worktree: unclaimed, or how far its
                \* relocation is recorded
    evidence,   \* receipts on file: pending, retired, restored operations
    remote,     \* external: HEAD of the remote default branch
    mem, disk,  \* the job's state and cleanup receipt, in memory and on file
    att,        \* the attempt
    up,         \* the daemon is running
    faults, crashes

vars == <<repo, repl, worklog, evidence, remote, mem, disk, att, up, faults, crashes>>

-----------------------------------------------------------------------------
Heads == 1..MaxHead
Operations == Heads \cup {0}        \* 0: none

Record == [state : {"queued", "running", "succeeded"}, receipt : Operations]

\* cleared: the attempt recovered a cleanup and so reports CleanupStateSet.
\* exists, head: what prepareRepositoryTransfer found; op: the operation whose
\* quarantine this attempt made; outcome: what finish is to write.
Idle == [pc |-> "idle", cleared |-> FALSE, exists |-> FALSE, head |-> 0, op |-> 0,
         outcome |-> [state |-> "queued", receipt |-> 0]]

Steps == {"idle", "recover", "retired", "restored", "locate", "intend", "quarantine", "receipt",
          "putBack", "checkpoint", "move", "origin", "repair", "verify", "publish", "retire",
          "complete", "finalize", "sync", "undoOrigin", "undoMove", "undoRepair", "restore",
          "restoredTerminal", "finish"}

TypeOK ==
    /\ repo \in [at : {"old", "new"}, origin : {"old", "new"}, linked : {"old", "new"},
                 fetched : Operations]
    /\ repl \in [at : {"none", "dest", "quarantine", "gone"}, head : Heads, op : Operations]
    /\ worklog \in {"unclaimed", "claimed", "intended", "recorded"}
    /\ evidence \in [pending : SUBSET Heads, retired : SUBSET Heads, restored : SUBSET Heads]
    /\ remote \in Heads
    /\ mem \in Record /\ disk \in Record
    /\ att \in [pc : Steps, cleared : BOOLEAN, exists : BOOLEAN, head : Operations, op : Operations,
               outcome : Record]
    /\ up \in BOOLEAN
    /\ faults \in 0..MaxFaults /\ crashes \in 0..MaxCrashes

Init ==
    /\ repo = [at |-> "old", origin |-> "old", linked |-> "old", fetched |-> 0]
    /\ \E where \in {"none", "dest"} : repl = [at |-> where, head |-> 1, op |-> 0]
    /\ worklog \in {"unclaimed", "claimed"}
    /\ evidence = [pending |-> {}, retired |-> {}, restored |-> {}]
    /\ remote = 1
    /\ mem = [state |-> "queued", receipt |-> 0] /\ disk = mem
    /\ att = Idle
    /\ up = TRUE
    /\ faults = 0 /\ crashes = 0

At(pc) == up /\ att.pc = pc
Goto(pc) == att' = [att EXCEPT !.pc = pc]
Fault == faults < MaxFaults /\ faults' = faults + 1

World == <<repo, repl, worklog, evidence, remote>>
Kept == UNCHANGED <<mem, disk, up, crashes>>     \* a step between Start and Finish

-----------------------------------------------------------------------------
(* The queue's side. *)

\* claimNext, runClaimed and the start of Process.
Start ==
    /\ At("idle") /\ mem.state = "queued"
    /\ mem' = [mem EXCEPT !.state = "running"] /\ disk' = mem'
    /\ att' = [Idle EXCEPT !.pc = IF mem.receipt # 0 THEN "recover" ELSE "locate"]
    /\ UNCHANGED <<World, up, faults, crashes>>

\* The cleanup state a failed attempt leaves in the job: the receipt it returns,
\* if it sets one, or else the one checkpointed.
Returned(kept) ==
    IF kept # 0 THEN kept ELSE IF att.cleared THEN 0 ELSE mem.receipt

Ends(job) == att' = [att EXCEPT !.pc = "finish", !.outcome = job]

\* The attempt fails and returns the receipt kept; as a fault, or because of what
\* it found.
Fails(kept) ==
    Ends([state |-> "queued", receipt |-> Returned(kept)]) /\ Kept /\ UNCHANGED faults
Breaks(kept) ==
    Ends([state |-> "queued", receipt |-> Returned(kept)]) /\ Kept /\ Fault
BreaksInto(pc) == Goto(pc) /\ Kept /\ Fault

\* A failed write makes any outcome a retry with the checkpointed receipt.
Finish ==
    /\ At("finish")
    /\ \/ mem' = att.outcome /\ disk' = att.outcome /\ UNCHANGED faults
       \/ /\ mem' = [state |-> "queued", receipt |-> mem.receipt]
          /\ disk' \in {disk, att.outcome}
          /\ Fault
    /\ att' = Idle
    /\ UNCHANGED <<World, up, crashes>>

-----------------------------------------------------------------------------
(* RecoverRepositoryTransferCleanup with the job's receipt. *)

Quarantined(o) == repl.at = "quarantine" /\ repl.op = o

AbsentMeansRetired(o) == "retired"

\* What an absent quarantine of o means: the replacement is back, or it was
\* retired by a transfer that reached exactly this HEAD; anything else is refused.
AbsentOutcome(o) ==
    IF repl.at = "dest" THEN "restored"
    ELSE IF repo.at = "new" /\ repo.origin = "new" /\ remote = o /\ repo.fetched = o THEN "retired"
    ELSE "refused"

Recover ==
    /\ At("recover")
    /\ \/ /\ Quarantined(mem.receipt)
          /\ repl' = [repl EXCEPT !.at = "gone"]
          /\ Goto("retired") /\ Kept
          /\ UNCHANGED <<repo, worklog, evidence, remote, faults>>
       \/ /\ ~Quarantined(mem.receipt) /\ AbsentOutcome(mem.receipt) # "refused"
          /\ Goto(AbsentOutcome(mem.receipt)) /\ Kept
          /\ UNCHANGED <<World, faults>>
       \/ /\ ~Quarantined(mem.receipt) /\ AbsentOutcome(mem.receipt) = "refused"
          /\ Fails(mem.receipt) /\ UNCHANGED World
       \/ Breaks(mem.receipt) /\ UNCHANGED World

\* The terminal receipt, written once.
RecordTerminal(outcome) == evidence' = [evidence EXCEPT ![outcome] = @ \cup {mem.receipt}]

RecoveryRecorded ==
    /\ At("retired") \/ At("restored")
    /\ \/ /\ RecordTerminal(att.pc)
          /\ att' = [att EXCEPT !.pc = "locate", !.cleared = TRUE]
          /\ Kept /\ UNCHANGED <<repo, repl, worklog, remote, faults>>
       \/ Breaks(mem.receipt) /\ UNCHANGED World

-----------------------------------------------------------------------------
(* RelocateRepository. *)

\* Is the repository still at its old path?  prepareRepositoryTransfer refuses a
\* clone whose origin or worktrees are not the old ones and a destination that
\* is not at the remote's HEAD.
Plans ==
    /\ repo.origin = "old" /\ repo.linked = "old"
    /\ repl.at = "dest" => repl.head = remote

Locate ==
    /\ At("locate")
    /\ \/ /\ repo.at = "new"
          /\ Goto("finalize") /\ Kept /\ UNCHANGED faults
       \/ /\ repo.at = "old" /\ Plans
          /\ att' = [att EXCEPT !.pc = "intend", !.head = remote, !.exists = repl.at = "dest"]
          /\ Kept /\ UNCHANGED faults
       \/ repo.at = "old" /\ ~Plans /\ Fails(0)
       \/ repo.at = "old" /\ Breaks(0)
    /\ UNCHANGED World

\* The destination is inspected again and the work-log intents are appended; an
\* intent that is already pending is reused.
Intend ==
    /\ At("intend")
    /\ \/ /\ att.exists => repl.head = att.head
          /\ worklog' = IF worklog = "claimed" THEN "intended" ELSE worklog
          /\ Goto(IF att.exists THEN "quarantine" ELSE "move")
          /\ Kept /\ UNCHANGED <<repo, repl, evidence, remote, faults>>
       \/ /\ att.exists /\ repl.head # att.head
          /\ Fails(0) /\ UNCHANGED World
       \/ Breaks(0) /\ UNCHANGED World

Quarantine ==
    /\ At("quarantine")
    /\ \/ /\ repl' = [repl EXCEPT !.at = "quarantine", !.op = att.head]
          /\ att' = [att EXCEPT !.pc = "receipt", !.op = att.head]
          /\ Kept /\ UNCHANGED <<repo, worklog, evidence, remote, faults>>
       \/ Breaks(0) /\ UNCHANGED World

\* The pending receipt is immutable and carries its time, so a second one for
\* the same operation is an error.
PendingReceipt ==
    /\ At("receipt")
    /\ \/ /\ att.op \notin evidence.pending
          /\ evidence' = [evidence EXCEPT !.pending = @ \cup {att.op}]
          /\ Goto("checkpoint") /\ Kept /\ UNCHANGED faults
       \/ /\ att.op \in evidence.pending
          /\ Goto("putBack") /\ Kept /\ UNCHANGED <<evidence, faults>>
       \/ /\ \E written \in SUBSET {att.op} : evidence' = [evidence EXCEPT !.pending = @ \cup written]
          /\ BreaksInto("putBack")
    /\ UNCHANGED <<repo, repl, worklog, remote>>

\* Without its receipt the quarantine is put back, and no more.
PutBack ==
    /\ At("putBack")
    /\ \/ repl' = [repl EXCEPT !.at = "dest"] /\ Fails(0) /\ UNCHANGED <<repo, worklog, evidence, remote>>
       \/ Breaks(0) /\ UNCHANGED World

CheckpointFailureIgnored ==
    /\ disk' \in {disk, [disk EXCEPT !.receipt = att.op]}
    /\ Goto("move") /\ Fault
    /\ UNCHANGED mem

\* checkpointCleanup fails: the memory is put back, the file may have either.
CheckpointFails ==
    /\ disk' \in {disk, [disk EXCEPT !.receipt = att.op]}
    /\ Goto("restore") /\ Fault
    /\ UNCHANGED mem

Checkpoint ==
    /\ At("checkpoint")
    /\ \/ /\ mem' = [mem EXCEPT !.receipt = att.op] /\ disk' = mem'
          /\ Goto("move") /\ UNCHANGED faults
       \/ CheckpointFails
    /\ UNCHANGED <<World, up, crashes>>

Move ==
    /\ At("move")
    /\ \/ /\ repl.at # "dest"
          /\ repo' = [repo EXCEPT !.at = "new"]
          /\ Goto("origin") /\ Kept /\ UNCHANGED <<repl, worklog, evidence, remote, faults>>
       \/ BreaksInto("restore") /\ UNCHANGED World

SetOrigin ==
    /\ At("origin")
    /\ \/ /\ repo' = [repo EXCEPT !.origin = "new"]
          /\ Goto("repair") /\ Kept /\ UNCHANGED <<repl, worklog, evidence, remote, faults>>
       \/ /\ \E url \in {"old", "new"} : repo' = [repo EXCEPT !.origin = url]
          /\ BreaksInto("undoOrigin") /\ UNCHANGED <<repl, worklog, evidence, remote>>

Repair ==
    /\ At("repair")
    /\ \/ /\ repo' = [repo EXCEPT !.linked = "new"]
          /\ Goto("verify") /\ Kept /\ UNCHANGED <<repl, worklog, evidence, remote, faults>>
       \/ BreaksInto("undoOrigin") /\ UNCHANGED World

\* Fetch the default branch; it must be the HEAD the transfer was planned for.
Verify ==
    /\ At("verify")
    /\ \/ /\ repo' = [repo EXCEPT !.fetched = remote]
          /\ Goto(IF remote = att.head THEN "publish" ELSE "undoOrigin")
          /\ Kept /\ UNCHANGED <<repl, worklog, evidence, remote, faults>>
       \/ BreaksInto("undoOrigin") /\ UNCHANGED World

IntentLeftPending == worklog

\* A pending relocation intent is completed by a receipt.
Completed == IF worklog = "intended" THEN "recorded" ELSE worklog

RollsBackOnPublish == BreaksInto("undoOrigin")

PublishFails == Breaks(0)

\* The relocation receipts are appended.  From here on a failure leaves the
\* repository where it is; one of several receipts may already be published.
Publish ==
    /\ At("publish")
    /\ \/ /\ worklog' = Completed
          /\ Goto(IF att.op # 0 THEN "retire" ELSE "sync")
          /\ Kept /\ UNCHANGED faults
       \/ /\ worklog' \in {worklog, Completed}
          /\ PublishFails
    /\ UNCHANGED <<repo, repl, evidence, remote>>

Retire ==
    /\ At("retire")
    /\ \/ /\ repl' = [repl EXCEPT !.at = "gone"]
          /\ Goto("complete") /\ Kept /\ UNCHANGED <<repo, worklog, evidence, remote, faults>>
       \/ Breaks(att.op) /\ UNCHANGED World

Complete ==
    /\ At("complete")
    /\ \/ /\ evidence' = [evidence EXCEPT !.retired = @ \cup {att.op}]
          /\ Goto("sync") /\ Kept /\ UNCHANGED <<repo, repl, worklog, remote, faults>>
       \/ Breaks(att.op) /\ UNCHANGED World

-----------------------------------------------------------------------------
(* rollback and restoreReplacement; rollback ignores its own failures. *)

UndoOrigin ==
    /\ At("undoOrigin")
    /\ \/ repo' = [repo EXCEPT !.origin = "old"] /\ UNCHANGED faults
       \/ UNCHANGED repo /\ Fault
    /\ Goto("undoMove") /\ Kept
    /\ UNCHANGED <<repl, worklog, evidence, remote>>

UndoMove ==
    /\ At("undoMove")
    /\ \/ repo' = [repo EXCEPT !.at = "old"] /\ UNCHANGED faults
       \/ UNCHANGED repo /\ Fault
    /\ Goto("undoRepair") /\ Kept
    /\ UNCHANGED <<repl, worklog, evidence, remote>>

UndoRepair ==
    /\ At("undoRepair")
    /\ \/ /\ repo' = IF repo.at = "old" THEN [repo EXCEPT !.linked = "old"] ELSE repo
          /\ UNCHANGED faults
       \/ UNCHANGED repo /\ Fault
    /\ Goto("restore") /\ Kept
    /\ UNCHANGED <<repl, worklog, evidence, remote>>

\* The quarantine goes back if there is one and its place is free.
Restore ==
    /\ At("restore")
    /\ \/ /\ att.op # 0 /\ repo.at = "old"
          /\ repl' = [repl EXCEPT !.at = "dest"]
          /\ Goto("restoredTerminal") /\ Kept /\ UNCHANGED <<repo, worklog, evidence, remote, faults>>
       \/ /\ att.op = 0 \/ repo.at = "new"
          /\ Fails(0) /\ UNCHANGED World
       \/ att.op # 0 /\ Breaks(0) /\ UNCHANGED World

RecordRestored ==
    /\ At("restoredTerminal")
    /\ \/ /\ evidence' = [evidence EXCEPT !.restored = @ \cup {att.op}]
          /\ Fails(0) /\ UNCHANGED <<repo, repl, worklog, remote>>
       \/ Breaks(0) /\ UNCHANGED World

-----------------------------------------------------------------------------
(* The rest of Process. *)

\* FinalizeRepositoryTransferWorkLogs reads every registered worktree, and
\* completes a pending intent only below the new origin.
CanFinalize == repo.linked = "new" /\ (worklog = "intended" => repo.origin = "new")

Finalize ==
    /\ At("finalize")
    /\ \/ /\ CanFinalize
          /\ worklog' = Completed
          /\ Goto("sync") /\ Kept /\ UNCHANGED <<repo, repl, evidence, remote, faults>>
       \/ ~CanFinalize /\ Fails(0) /\ UNCHANGED World
       \/ CanFinalize /\ Breaks(0) /\ UNCHANGED World

\* verifyOrigin, then a sync that fetches unless another branch is checked out.
Sync ==
    /\ At("sync")
    /\ \/ /\ repo.origin = "new"
          /\ repo' \in {repo, [repo EXCEPT !.fetched = remote]}
          /\ Ends([state |-> "succeeded", receipt |-> 0])
          /\ Kept /\ UNCHANGED <<repl, worklog, evidence, remote, faults>>
       \/ repo.origin = "old" /\ Fails(0) /\ UNCHANGED World
       \/ Breaks(0) /\ UNCHANGED World

-----------------------------------------------------------------------------
(* The environment. *)

Advance ==
    /\ remote < MaxHead
    /\ remote' = remote + 1
    /\ UNCHANGED <<repo, repl, worklog, evidence, mem, disk, att, up, faults, crashes>>

\* The user syncs the clone at the destination.
UserSync ==
    /\ repl.at = "dest" /\ repl.head # remote
    /\ repl' = [repl EXCEPT !.head = remote]
    /\ UNCHANGED <<repo, worklog, evidence, remote, mem, disk, att, up, faults, crashes>>

Crash ==
    /\ up /\ crashes < MaxCrashes
    /\ crashes' = crashes + 1
    /\ up' = FALSE /\ att' = Idle
    /\ UNCHANGED <<World, mem, disk, faults>>

Reload ==
    /\ ~up
    /\ up' = TRUE
    /\ disk' = IF disk.state = "running" THEN [disk EXCEPT !.state = "queued"] ELSE disk
    /\ mem' = disk'
    /\ UNCHANGED <<World, att, faults, crashes>>

Process ==
    \/ Start \/ Recover \/ RecoveryRecorded \/ Locate \/ Intend \/ Quarantine
    \/ PendingReceipt \/ PutBack \/ Checkpoint \/ Move \/ SetOrigin \/ Repair \/ Verify
    \/ Publish \/ Retire \/ Complete \/ UndoOrigin \/ UndoMove \/ UndoRepair
    \/ Restore \/ RecordRestored \/ Finalize \/ Sync \/ Finish

Next == Process \/ Advance \/ UserSync \/ Crash \/ Reload

Spec == Init /\ [][Next]_vars

-----------------------------------------------------------------------------
(* Properties. *)

\* A relocation receipt in the Work Log is never contradicted: once it is
\* published the repository, its origin and its worktrees are at the new path
\* and no failure, crash or retry takes them back.
WorkLogTruthful ==
    worklog = "recorded" => repo.at = "new" /\ repo.origin = "new" /\ repo.linked = "new"

\* A receipt that says "retired", whether the transfer wrote it or a recovery
\* concluded it from an absent quarantine, is true: the replacement is gone.
RetiredEvidenceTrue == evidence.retired # {} => repl.at = "gone"

\* The job file names the cleanup receipt before the source repository moves,
\* and until the cleanup is over: a crash from the move on finds it there.
MoveIsCheckpointed ==
    att.op # 0 /\ att.pc \in {"move", "origin", "repair", "verify", "publish", "retire", "complete"}
        => disk.receipt = att.op

\* An event that succeeded left a repository that is wholly at its new name:
\* path, origin, worktree administration and Work Log, however many attempts,
\* rollbacks and crashes it took.
SucceededIsComplete ==
    "succeeded" \in {mem.state, disk.state} =>
        /\ repo.at = "new" /\ repo.origin = "new" /\ repo.linked = "new"
        /\ worklog \in {"unclaimed", "recorded"}
=============================================================================
