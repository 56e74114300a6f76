---------------------- MODULE RepositoryTransferProofs ----------------------
(***************************************************************************)
(* Proofs about RepositoryTransfer, for every number of heads, faults and  *)
(* crashes.  The inductive invariant has a part that holds wherever the    *)
(* attempt is (Settled) and parts that say what each of its steps may rely *)
(* on: that the job file names the operation (Recorded, Operation), which  *)
(* of the moves were made (Position), and which operation has the          *)
(* replacement (Replacement).                                              *)
(***************************************************************************)
EXTENDS RepositoryTransfer, TLAPS

Whole == repo.at = "new" /\ repo.origin = "new" /\ repo.linked = "new"
Logged == worklog \in {"unclaimed", "recorded"}

\* A receipt names a replacement there was, and while that is quarantined for
\* another operation the repository has not moved.
Backed(r) ==
    r # 0 => /\ repl.at # "none"
             /\ repl.at = "quarantine" /\ repl.op # r => repo.at = "old"

Settled ==
    /\ worklog = "recorded" => Whole
    /\ repo.at = "new" => worklog # "claimed"
    /\ evidence.retired # {} => repl.at = "gone"
    /\ Backed(mem.receipt) /\ Backed(disk.receipt)

Undoing == {"undoOrigin", "undoMove", "undoRepair"}
Moved == {"origin", "repair", "verify", "publish", "retire", "complete"}

\* The job's record while there is an attempt, and what it says once there is none.
Recorded ==
    /\ att.pc # "idle" => up /\ mem.state = "running" /\ disk.state = "running"
    /\ "succeeded" \in {mem.state, disk.state} => Whole /\ Logged
    /\ att.pc = "finish" => Backed(att.outcome.receipt)
    /\ att.pc = "finish" /\ att.outcome.state = "succeeded" => Whole /\ Logged

\* Where the repository and its Work Log are.
Position ==
    /\ att.pc \in {"intend", "quarantine", "receipt", "putBack", "checkpoint", "move"} => repo.at = "old"
    /\ att.pc \in Moved \cup {"sync", "finalize"} => repo.at = "new"
    /\ att.pc \in Moved \ {"origin"} => repo.origin = "new"
    /\ att.pc \in (Moved \ {"origin", "repair"}) \cup {"sync"} => repo.linked = "new"
    /\ att.pc \in {"retire", "complete", "sync"} => Logged
    /\ att.pc \in {"origin", "repair", "verify"} \cup Undoing => worklog # "recorded"
    /\ att.pc \in {"quarantine", "receipt", "putBack", "checkpoint", "move", "restore"} \cup Undoing
         => worklog # "claimed"

\* The operation of the attempt and the receipt that names it.
Operation ==
    /\ att.pc \notin {"idle", "restore", "restoredTerminal", "finish"} => disk.receipt = mem.receipt
    /\ att.pc \in {"recover", "retired", "restored"} => mem.receipt # 0
    /\ att.pc \in {"recover", "retired", "restored", "locate", "intend", "quarantine", "finalize"}
         => att.op = 0
    /\ att.pc \in {"intend", "quarantine"} => att.head # 0
    /\ att.pc \in {"receipt", "putBack", "checkpoint", "retire", "complete", "restoredTerminal"}
         => att.op # 0
    /\ att.pc \in Moved \cup {"move"} /\ att.op # 0 => mem.receipt = att.op

\* Where the replacement is.
Replacement ==
    /\ att.pc = "intend" /\ att.exists => repl.at = "dest"
    /\ att.pc \in {"quarantine", "restored", "restoredTerminal"} => repl.at = "dest"
    /\ att.pc \in {"receipt", "putBack", "checkpoint"} => Quarantined(att.op)
    /\ att.op # 0 /\ att.pc \in (Moved \ {"complete"}) \cup {"move", "restore"} \cup Undoing
         => Quarantined(att.op)
    /\ att.pc \in {"retired", "complete"} => repl.at = "gone"
    /\ mem.receipt # 0 =>
        /\ att.pc \in {"locate", "intend"} => repl.at \in {"dest", "gone"}
        /\ att.pc = "intend" /\ ~att.exists => repl.at = "gone"
        /\ att.pc = "move" /\ att.op = 0 => repl.at # "quarantine"

IInv == TypeOK /\ Settled /\ Recorded /\ Position /\ Operation /\ Replacement

-----------------------------------------------------------------------------
(* Types.  TypeOK is taken apart into the part of each group of variables. *)

Attempt == [pc : Steps, cleared : BOOLEAN, exists : BOOLEAN, head : Operations, op : Operations,
            outcome : Record]
WorldTyped ==
    /\ repo \in [at : {"old", "new"}, origin : {"old", "new"}, linked : {"old", "new"},
                 fetched : Operations]
    /\ repl \in [at : {"none", "dest", "quarantine", "gone"}, head : Heads, op : Operations]
    /\ worklog \in {"unclaimed", "claimed", "intended", "recorded"}
    /\ evidence \in [pending : SUBSET Heads, retired : SUBSET Heads, restored : SUBSET Heads]
    /\ remote \in Heads
JobTyped == mem \in Record /\ disk \in Record
CountersTyped == up \in BOOLEAN /\ faults \in 0..MaxFaults /\ crashes \in 0..MaxCrashes

LEMMA TypeParts == TypeOK <=> WorldTyped /\ JobTyped /\ att \in Attempt /\ CountersTyped
BY DEF TypeOK, WorldTyped, JobTyped, Attempt, CountersTyped

LEMMA TypePartsNext == TypeOK' <=> WorldTyped' /\ JobTyped' /\ att' \in Attempt /\ CountersTyped'
BY DEF TypeOK, WorldTyped, JobTyped, Attempt, CountersTyped

LEMMA FaultTyped ==
    ASSUME CountersTyped, Fault PROVE faults' \in 0..MaxFaults
BY ConstantsOK DEF CountersTyped, Fault

LEMMA KeptTyped ==
    ASSUME JobTyped, CountersTyped, Kept, UNCHANGED faults \/ Fault
    PROVE  /\ JobTyped' /\ CountersTyped'
           /\ mem' = mem /\ disk' = disk /\ up' = up
BY FaultTyped DEF JobTyped, CountersTyped, Kept

LEMMA WorldKept == ASSUME WorldTyped, UNCHANGED World PROVE WorldTyped'
BY DEF World, WorldTyped

\* What a step between Start and Finish leaves alone, and what is typed after it.
Carried ==
    /\ JobTyped' /\ att' \in Attempt /\ CountersTyped'
    /\ mem' = mem /\ disk' = disk /\ up' = up
    /\ att'.op = att.op

LEMMA Going ==
    ASSUME TypeOK, NEW pc \in Steps, Goto(pc), Kept, UNCHANGED faults \/ Fault
    PROVE  /\ Carried /\ att'.pc = pc
           /\ att'.exists = att.exists /\ att'.head = att.head
<1>1. /\ att' \in Attempt /\ att'.pc = pc /\ att'.op = att.op
      /\ att'.exists = att.exists /\ att'.head = att.head
  BY TypeParts DEF Goto, Attempt
<1>2. QED
  BY <1>1, TypeParts, KeptTyped DEF Carried

LEMMA GoingWrong ==
    ASSUME TypeOK, NEW pc \in Steps, BreaksInto(pc)
    PROVE  Carried /\ att'.pc = pc
BY Going DEF BreaksInto

LEMMA Failing ==
    ASSUME TypeOK, NEW kept \in {0, mem.receipt}, Fails(kept) \/ Breaks(kept)
    PROVE  /\ Carried /\ att'.pc = "finish"
           /\ att'.outcome.state = "queued"
           /\ att'.outcome.receipt \in {0, mem.receipt}
<1>1. mem.receipt \in Operations /\ Returned(kept) \in {0, mem.receipt}
  BY TypeParts DEF Returned, JobTyped, Record
<1>2. [state |-> "queued", receipt |-> Returned(kept)] \in Record
  BY <1>1 DEF Record, Operations
<1>3. /\ att' \in Attempt /\ att'.pc = "finish" /\ att'.op = att.op
      /\ att'.outcome = [state |-> "queued", receipt |-> Returned(kept)]
  BY <1>2, TypeParts DEF Fails, Breaks, Ends, Attempt, Steps
<1>4. Carried
  BY <1>3, KeptTyped, TypeParts DEF Fails, Breaks, Carried
<1>5. QED
  BY <1>1, <1>3, <1>4

-----------------------------------------------------------------------------
(* An attempt that fails: what holds everywhere is all there is to check. *)

LEMMA FailingKeeps ==
    ASSUME IInv, att.pc # "idle", NEW kept \in {0, mem.receipt}, Fails(kept) \/ Breaks(kept),
           WorldTyped', Settled'
    PROVE  IInv'
<1>1. /\ Carried /\ att'.pc = "finish" /\ att'.outcome.state = "queued"
      /\ att'.outcome.receipt \in {0, mem.receipt}
  BY Failing DEF IInv
<1>2. TypeOK'
  BY <1>1, TypePartsNext DEF Carried
<1>3. Recorded'
  BY <1>1 DEF IInv, Recorded, Carried, Settled, Backed
<1>4. Position' /\ Operation' /\ Replacement'
  BY <1>1 DEF Position, Operation, Replacement, Moved, Undoing
<1>5. QED
  BY <1>2, <1>3, <1>4 DEF IInv

LEMMA FailingInPlace ==
    ASSUME IInv, att.pc # "idle", NEW kept \in {0, mem.receipt}, Fails(kept) \/ Breaks(kept),
           UNCHANGED World
    PROVE  IInv'
<1>1. Carried
  BY Failing DEF IInv
<1>2. WorldTyped'
  BY WorldKept, TypeParts DEF IInv
<1>3. Settled'
  BY <1>1 DEF IInv, Settled, Whole, Backed, World, Carried
<1>4. QED
  BY <1>2, <1>3, FailingKeeps

-----------------------------------------------------------------------------
(* The steps of an attempt. *)

LEMMA Onward ==
    ASSUME IInv, att.pc # "idle", Carried, att'.pc \notin {"idle", "finish"},
           WorldTyped', Settled', Position' /\ Operation' /\ Replacement'
    PROVE  IInv'
<1>1. TypeOK'
  BY TypePartsNext DEF Carried
<1>2. Recorded'
  BY DEF IInv, Recorded, Carried
<1>3. QED
  BY <1>1, <1>2 DEF IInv

LEMMA RecoverStep == ASSUME IInv, Recover PROVE IInv'
<1>0. TypeOK /\ WorldTyped /\ att.pc # "idle"
  BY TypeParts DEF IInv, Recover, At
<1>1. CASE Fails(mem.receipt) /\ UNCHANGED World
  BY <1>0, <1>1, FailingInPlace
<1>2. CASE Breaks(mem.receipt) /\ UNCHANGED World
  BY <1>0, <1>2, FailingInPlace
<1>3. CASE /\ Quarantined(mem.receipt)
           /\ repl' = [repl EXCEPT !.at = "gone"]
           /\ Goto("retired") /\ Kept
           /\ UNCHANGED <<repo, worklog, evidence, remote, faults>>
  <2>1. Carried /\ att'.pc = "retired"
    BY <1>0, <1>3, Going DEF Steps
  <2>2. WorldTyped' /\ repl'.at = "gone"
    BY <1>0, <1>3 DEF WorldTyped
  <2>3. Settled'
    BY <1>0, <2>1, <2>2, <1>3 DEF IInv, Settled, Whole, Backed, Carried, World,
           Recover, At, Position, Operation, Replacement, Moved, Undoing,
           Quarantined
  <2>4. Position' /\ Operation' /\ Replacement'
    BY <1>0, <2>1, <2>2, <1>3 DEF IInv, Position, Operation, Replacement,
           Moved, Undoing, Carried, Quarantined, Settled, Backed, Whole,
           Logged, World, Recover, At
  <2>5. QED
    BY <1>0, <2>1, <2>2, <2>3, <2>4, Onward
<1>4. CASE /\ ~Quarantined(mem.receipt) /\ AbsentOutcome(mem.receipt) # "refused"
           /\ Goto(AbsentOutcome(mem.receipt)) /\ Kept
           /\ UNCHANGED <<World, faults>>
  <2>0. \/ AbsentOutcome(mem.receipt) = "restored" /\ repl.at = "dest"
        \/ AbsentOutcome(mem.receipt) = "retired" /\ repl.at = "gone"
    BY <1>0, <1>4 DEF AbsentOutcome, Recover, At, IInv, Settled, Backed,
           Operation, WorldTyped, Quarantined
  <2>1. Carried /\ att'.pc = AbsentOutcome(mem.receipt)
    BY <1>0, <2>0, <1>4, Going DEF Steps
  <2>2. WorldTyped'
    BY <1>0, <1>4, WorldKept DEF World
  <2>3. Settled'
    BY <1>0, <2>0, <2>1, <2>2, <1>4 DEF IInv, Settled, Whole, Backed, Carried,
           World, Recover, At, Position, Operation, Replacement, Moved,
           Undoing, Quarantined
  <2>4. Position' /\ Operation' /\ Replacement'
    BY <1>0, <2>0, <2>1, <2>2, <1>4 DEF IInv, Position, Operation, Replacement,
           Moved, Undoing, Carried, Quarantined, Settled, Backed, Whole,
           Logged, World, Recover, At
  <2>5. QED
    BY <1>0, <2>1, <2>2, <2>3, <2>4, <2>0, Onward
<1>5. QED
  BY <1>1, <1>2, <1>3, <1>4 DEF Recover

LEMMA RecoveryRecordedStep == ASSUME IInv, RecoveryRecorded PROVE IInv'
<1>0. TypeOK /\ WorldTyped /\ att.pc # "idle"
  BY TypeParts DEF IInv, RecoveryRecorded, At
<1>1. CASE Breaks(mem.receipt) /\ UNCHANGED World
  BY <1>0, <1>1, FailingInPlace
<1>2. CASE /\ RecordTerminal(att.pc)
           /\ att' = [att EXCEPT !.pc = "locate", !.cleared = TRUE]
           /\ Kept /\ UNCHANGED <<repo, repl, worklog, remote, faults>>
  <2>1. /\ att' \in Attempt /\ att'.pc = "locate" /\ att'.op = att.op
    BY <1>0, <1>2, TypeParts DEF Attempt, Steps
  <2>a. Carried
    BY <1>0, <2>1, <1>2, TypeParts, KeptTyped DEF Carried
  <2>b. att.pc \in {"retired", "restored"} /\ mem.receipt \in Heads
    BY <1>0, TypeParts DEF RecoveryRecorded, At, IInv, Operation, JobTyped,
           Record, Operations
  <2>2. /\ WorldTyped'
        /\ evidence'.retired # {} => evidence.retired # {} \/ att.pc = "retired"
    BY <1>0, <2>b, <1>2 DEF WorldTyped, RecordTerminal
  <2>3. Settled'
    BY <2>a, <2>b, <2>2, <1>2 DEF IInv, Settled, Whole, Backed, Carried,
           Replacement
  <2>4. Position' /\ Operation' /\ Replacement'
    BY <2>a, <2>b, <2>1, <1>2 DEF IInv, Position, Operation, Replacement,
           Moved, Undoing, Carried, Quarantined
  <2>5. QED
    BY <1>0, <2>a, <2>1, <2>2, <2>3, <2>4, Onward
<1>3. QED
  BY <1>1, <1>2 DEF RecoveryRecorded

LEMMA LocateStep == ASSUME IInv, Locate PROVE IInv'
<1>0. TypeOK /\ WorldTyped /\ att.pc # "idle"
  BY TypeParts DEF IInv, Locate, At
<1>1. CASE (Fails(0) \/ Breaks(0)) /\ UNCHANGED World
  BY <1>0, <1>1, FailingInPlace
<1>2. CASE repo.at = "new" /\ Goto("finalize") /\ Kept /\ UNCHANGED faults /\ UNCHANGED World
  <2>1. Carried /\ att'.pc = "finalize"
    BY <1>0, <1>2, Going DEF Steps
  <2>2. WorldTyped'
    BY <1>0, <1>2, WorldKept DEF World
  <2>3. Settled'
    BY <1>0, <2>1, <2>2, <1>2 DEF IInv, Settled, Whole, Backed, Carried, World,
           Locate, At, Position, Operation, Replacement, Moved, Undoing,
           Quarantined
  <2>4. Position' /\ Operation' /\ Replacement'
    BY <1>0, <2>1, <2>2, <1>2 DEF IInv, Position, Operation, Replacement,
           Moved, Undoing, Carried, Quarantined, Settled, Backed, Whole,
           Logged, World, Locate, At
  <2>5. QED
    BY <1>0, <2>1, <2>2, <2>3, <2>4, Onward
<1>3. CASE /\ repo.at = "old"
           /\ att' = [att EXCEPT !.pc = "intend", !.head = remote, !.exists = repl.at = "dest"]
           /\ Kept /\ UNCHANGED faults /\ UNCHANGED World
  <2>0. remote \in Operations /\ remote # 0 /\ (repl.at = "dest") \in BOOLEAN
    BY <1>0, ConstantsOK DEF WorldTyped, Heads, Operations
  <2>1. /\ att' \in Attempt /\ att'.pc = "intend" /\ att'.op = att.op
        /\ att'.head = remote /\ att'.exists = (repl.at = "dest")
    BY <1>0, <2>0, <1>3, TypeParts DEF Attempt, Steps
  <2>a. Carried
    BY <1>0, <2>1, <1>3, TypeParts, KeptTyped DEF Carried
  <2>2. WorldTyped'
    BY <1>0, <1>3, WorldKept
  <2>3. Settled'
    BY <2>a, <1>3 DEF IInv, Settled, Whole, Backed, Carried, World
  <2>4. Position' /\ Operation' /\ Replacement'
    BY <1>0, <2>0, <2>a, <2>1, <1>3 DEF IInv, Position, Operation, Replacement,
           Moved, Undoing, Carried, Quarantined, World, Locate, At
  <2>5. QED
    BY <1>0, <2>a, <2>1, <2>2, <2>3, <2>4, Onward
<1>4. QED
  BY <1>1, <1>2, <1>3 DEF Locate

LEMMA IntendStep == ASSUME IInv, Intend PROVE IInv'
<1>0. TypeOK /\ WorldTyped /\ att.pc # "idle"
  BY TypeParts DEF IInv, Intend, At
<1>1. CASE (Fails(0) \/ Breaks(0)) /\ UNCHANGED World
  BY <1>0, <1>1, FailingInPlace
<1>2. CASE /\ worklog' = IF worklog = "claimed" THEN "intended" ELSE worklog
           /\ Goto(IF att.exists THEN "quarantine" ELSE "move")
           /\ Kept /\ UNCHANGED <<repo, repl, evidence, remote, faults>>
  <2>1. Carried /\ att'.pc = (IF att.exists THEN "quarantine" ELSE "move") /\ att'.exists = att.exists /\ att'.head = att.head
    BY <1>0, <1>2, Going DEF Steps
  <2>2. WorldTyped' /\ worklog' # "claimed"
    BY <1>0, <1>2 DEF WorldTyped
  <2>3. Settled'
    BY <1>0, <2>1, <2>2, <1>2 DEF IInv, Settled, Whole, Backed, Carried, World,
           Intend, At, Position, Operation, Replacement, Moved, Undoing,
           Quarantined
  <2>4. Position' /\ Operation' /\ Replacement'
    BY <1>0, <2>1, <2>2, <1>2 DEF IInv, Position, Operation, Replacement,
           Moved, Undoing, Carried, Quarantined, Settled, Backed, Whole,
           Logged, World, Intend, At
  <2>5. QED
    BY <1>0, <2>1, <2>2, <2>3, <2>4, Onward
<1>3. QED
  BY <1>1, <1>2 DEF Intend

LEMMA QuarantineStep == ASSUME IInv, Quarantine PROVE IInv'
<1>0. TypeOK /\ WorldTyped /\ att.pc # "idle"
  BY TypeParts DEF IInv, Quarantine, At
<1>1. CASE Breaks(0) /\ UNCHANGED World
  BY <1>0, <1>1, FailingInPlace
<1>2. CASE /\ repl' = [repl EXCEPT !.at = "quarantine", !.op = att.head]
           /\ att' = [att EXCEPT !.pc = "receipt", !.op = att.head]
           /\ Kept /\ UNCHANGED <<repo, worklog, evidence, remote, faults>>
  <2>0. att.head \in Operations
    BY <1>0, TypeParts DEF Attempt
  <2>1. att' \in Attempt /\ att'.pc = "receipt" /\ att'.op = att.head
    BY <1>0, <2>0, <1>2, TypeParts DEF Attempt, Steps
  <2>a. JobTyped' /\ CountersTyped' /\ mem' = mem /\ disk' = disk /\ up' = up
    BY <1>0, <1>2, TypeParts, KeptTyped
  <2>2. WorldTyped' /\ repl'.at = "quarantine" /\ repl'.op = att.head
    BY <1>0, <2>0, <1>2 DEF WorldTyped
  <2>3. Settled'
    BY <1>0, <2>a, <2>2, <1>2 DEF IInv, Settled, Whole, Backed, Position,
           Replacement, Quarantine, At
  <2>4. Position' /\ Operation' /\ Replacement'
    BY <1>0, <2>a, <2>1, <2>2, <1>2 DEF IInv, Position, Operation, Replacement,
           Moved, Undoing, Quarantined, Quarantine, At
  <2>5. Recorded'
    BY <1>0, <2>a, <2>1 DEF IInv, Recorded
  <2>6. QED
    BY <2>a, <2>1, <2>2, <2>3, <2>4, <2>5, TypePartsNext DEF IInv
<1>3. QED
  BY <1>1, <1>2 DEF Quarantine

LEMMA PendingReceiptStep == ASSUME IInv, PendingReceipt PROVE IInv'
<1>0. TypeOK /\ WorldTyped /\ att.pc # "idle"
  BY TypeParts DEF IInv, PendingReceipt, At
<1>1. CASE /\ \E pending \in SUBSET {att.op} : evidence' = [evidence EXCEPT !.pending = @ \cup pending]
           /\ \/ Goto("checkpoint") /\ Kept /\ UNCHANGED faults
              \/ BreaksInto("putBack")
           /\ UNCHANGED <<repo, repl, worklog, remote>>
  <2>0. att.op \in Heads
    BY <1>0, TypeParts DEF Attempt, Operations, IInv, Operation,
           PendingReceipt, At
  <2>1. Carried /\ att'.pc \in {"checkpoint", "putBack"}
    BY <1>0, <1>1, Going, GoingWrong DEF Steps
  <2>2. WorldTyped' /\ evidence'.retired = evidence.retired
    BY <1>0, <2>0, <1>1 DEF WorldTyped
  <2>3. Settled'
    BY <1>0, <2>1, <2>2, <1>1 DEF IInv, Settled, Whole, Backed, Carried, World,
           PendingReceipt, At, Position, Operation, Replacement, Moved,
           Undoing, Quarantined
  <2>4. Position' /\ Operation' /\ Replacement'
    BY <1>0, <2>1, <2>2, <1>1 DEF IInv, Position, Operation, Replacement,
           Moved, Undoing, Carried, Quarantined, Settled, Backed, Whole,
           Logged, World, PendingReceipt, At
  <2>5. QED
    BY <1>0, <2>1, <2>2, <2>3, <2>4, Onward
<1>2. CASE /\ Goto("putBack") /\ Kept /\ UNCHANGED <<evidence, faults>>
           /\ UNCHANGED <<repo, repl, worklog, remote>>
  <2>1. Carried /\ att'.pc = "putBack"
    BY <1>0, <1>2, Going DEF Steps
  <2>2. WorldTyped'
    BY <1>0, <1>2, WorldKept DEF World
  <2>3. Settled'
    BY <1>0, <2>1, <2>2, <1>2 DEF IInv, Settled, Whole, Backed, Carried, World,
           PendingReceipt, At, Position, Operation, Replacement, Moved,
           Undoing, Quarantined
  <2>4. Position' /\ Operation' /\ Replacement'
    BY <1>0, <2>1, <2>2, <1>2 DEF IInv, Position, Operation, Replacement,
           Moved, Undoing, Carried, Quarantined, Settled, Backed, Whole,
           Logged, World, PendingReceipt, At
  <2>5. QED
    BY <1>0, <2>1, <2>2, <2>3, <2>4, Onward
<1>3. QED
  BY <1>1, <1>2 DEF PendingReceipt, BreaksInto

LEMMA PutBackStep == ASSUME IInv, PutBack PROVE IInv'
<1>0. TypeOK /\ WorldTyped /\ att.pc # "idle"
  BY TypeParts DEF IInv, PutBack, At
<1>1. CASE Breaks(0) /\ UNCHANGED World
  BY <1>0, <1>1, FailingInPlace
<1>2. CASE /\ repl' = [repl EXCEPT !.at = "dest"] /\ Fails(0)
           /\ UNCHANGED <<repo, worklog, evidence, remote>>
  <2>1. Carried
    BY <1>0, <1>2, Failing
  <2>2. WorldTyped' /\ repl'.at = "dest"
    BY <1>0, <1>2 DEF WorldTyped
  <2>3. Settled'
    BY <1>0, <2>1, <2>2, <1>2 DEF IInv, Settled, Whole, Backed, Carried,
           Replacement, PutBack, At, Quarantined
  <2>4. QED
    BY <1>0, <2>2, <2>3, <1>2, FailingKeeps
<1>3. QED
  BY <1>1, <1>2 DEF PutBack

LEMMA CheckpointStep == ASSUME IInv, Checkpoint PROVE IInv'
<1>0. TypeOK /\ WorldTyped /\ att.pc = "checkpoint" /\ up
  BY TypeParts DEF IInv, Checkpoint, At
<1>1. /\ mem \in Record /\ disk \in Record /\ att \in Attempt /\ att.op \in Operations
      /\ CountersTyped
  BY <1>0, TypeParts DEF JobTyped, Attempt
<1>2. mem.state = "running" /\ disk.state = "running"
  BY <1>0 DEF IInv, Recorded
<1>3. PICK next \in {"move", "restore"} : Goto(next) /\ (next = "move" => mem' = [mem EXCEPT !.receipt = att.op] /\ disk' = mem')
  BY DEF Checkpoint, CheckpointFails
<1>4. /\ att' \in Attempt /\ att'.pc = next /\ att'.op = att.op
  BY <1>1, <1>3 DEF Goto, Attempt, Steps
<1>5. /\ mem' \in Record /\ disk' \in Record
      /\ mem'.state = "running" /\ disk'.state = "running"
      /\ mem'.receipt \in {mem.receipt, att.op} /\ disk'.receipt \in {disk.receipt, att.op}
      /\ next = "move" => mem'.receipt = att.op /\ disk'.receipt = att.op
  BY <1>1, <1>2, <1>3 DEF Checkpoint, CheckpointFails, Record
<1>6. WorldTyped' /\ up' = up /\ faults' \in 0..MaxFaults /\ crashes' = crashes
  BY <1>0, <1>1, WorldKept, FaultTyped DEF Checkpoint, CheckpointFails,
         CountersTyped
<1>7. TypeOK'
  BY <1>1, <1>4, <1>5, <1>6, TypePartsNext DEF JobTyped, CountersTyped
<1>8. Settled'
  BY <1>0, <1>5 DEF IInv, Settled, Whole, Backed, Checkpoint, World,
         Replacement, Quarantined
<1>9. Recorded'
  BY <1>0, <1>3, <1>4, <1>5, <1>6 DEF Recorded
<1>10. Position' /\ Operation' /\ Replacement'
  BY <1>0, <1>3, <1>4, <1>5 DEF IInv, Position, Operation, Replacement, Moved,
         Undoing, Quarantined, Checkpoint, World
<1>11. QED
  BY <1>7, <1>8, <1>9, <1>10 DEF IInv

LEMMA MoveStep == ASSUME IInv, Move PROVE IInv'
<1>0. TypeOK /\ WorldTyped /\ att.pc # "idle"
  BY TypeParts DEF IInv, Move, At
<1>1. CASE /\ repo' = [repo EXCEPT !.at = "new"]
           /\ Goto("origin") /\ Kept /\ UNCHANGED <<repl, worklog, evidence, remote, faults>>
  <2>1. Carried /\ att'.pc = "origin"
    BY <1>0, <1>1, Going DEF Steps
  <2>2. WorldTyped' /\ repo'.at = "new" /\ repo'.origin = repo.origin /\ repo'.linked = repo.linked
    BY <1>0, <1>1 DEF WorldTyped
  <2>3. Settled'
    BY <1>0, <2>1, <2>2, <1>1 DEF IInv, Settled, Whole, Backed, Carried, World,
           Move, At, Position, Operation, Replacement, Moved, Undoing,
           Quarantined
  <2>4. Position' /\ Operation' /\ Replacement'
    BY <1>0, <2>1, <2>2, <1>1 DEF IInv, Position, Operation, Replacement,
           Moved, Undoing, Carried, Quarantined, Settled, Backed, Whole,
           Logged, World, Move, At
  <2>5. QED
    BY <1>0, <2>1, <2>2, <2>3, <2>4, Onward
<1>2. CASE BreaksInto("restore") /\ UNCHANGED World
  <2>1. Carried /\ att'.pc = "restore"
    BY <1>0, <1>2, GoingWrong DEF Steps
  <2>2. WorldTyped'
    BY <1>0, <1>2, WorldKept DEF World
  <2>3. Settled'
    BY <1>0, <2>1, <2>2, <1>2 DEF IInv, Settled, Whole, Backed, Carried, World,
           Move, At, Position, Operation, Replacement, Moved, Undoing,
           Quarantined
  <2>4. Position' /\ Operation' /\ Replacement'
    BY <1>0, <2>1, <2>2, <1>2 DEF IInv, Position, Operation, Replacement,
           Moved, Undoing, Carried, Quarantined, Settled, Backed, Whole,
           Logged, World, Move, At
  <2>5. QED
    BY <1>0, <2>1, <2>2, <2>3, <2>4, Onward
<1>3. QED
  BY <1>1, <1>2 DEF Move

LEMMA SetOriginStep == ASSUME IInv, SetOrigin PROVE IInv'
<1>0. TypeOK /\ WorldTyped /\ att.pc # "idle"
  BY TypeParts DEF IInv, SetOrigin, At
<1>1. CASE /\ repo' = [repo EXCEPT !.origin = "new"]
           /\ Goto("repair") /\ Kept /\ UNCHANGED <<repl, worklog, evidence, remote, faults>>
  <2>1. Carried /\ att'.pc = "repair"
    BY <1>0, <1>1, Going DEF Steps
  <2>2. WorldTyped' /\ repo'.at = repo.at /\ repo'.origin = "new" /\ repo'.linked = repo.linked
    BY <1>0, <1>1 DEF WorldTyped
  <2>3. Settled'
    BY <1>0, <2>1, <2>2, <1>1 DEF IInv, Settled, Whole, Backed, Carried, World,
           SetOrigin, At, Position, Operation, Replacement, Moved, Undoing,
           Quarantined
  <2>4. Position' /\ Operation' /\ Replacement'
    BY <1>0, <2>1, <2>2, <1>1 DEF IInv, Position, Operation, Replacement,
           Moved, Undoing, Carried, Quarantined, Settled, Backed, Whole,
           Logged, World, SetOrigin, At
  <2>5. QED
    BY <1>0, <2>1, <2>2, <2>3, <2>4, Onward
<1>2. CASE /\ \E url \in {"old", "new"} : repo' = [repo EXCEPT !.origin = url]
           /\ BreaksInto("undoOrigin") /\ UNCHANGED <<repl, worklog, evidence, remote>>
  <2>1. Carried /\ att'.pc = "undoOrigin"
    BY <1>0, <1>2, GoingWrong DEF Steps
  <2>2. WorldTyped' /\ repo'.at = repo.at /\ repo'.linked = repo.linked
    BY <1>0, <1>2 DEF WorldTyped
  <2>3. Settled'
    BY <1>0, <2>1, <2>2, <1>2 DEF IInv, Settled, Whole, Backed, Carried, World,
           SetOrigin, At, Position, Operation, Replacement, Moved, Undoing,
           Quarantined
  <2>4. Position' /\ Operation' /\ Replacement'
    BY <1>0, <2>1, <2>2, <1>2 DEF IInv, Position, Operation, Replacement,
           Moved, Undoing, Carried, Quarantined, Settled, Backed, Whole,
           Logged, World, SetOrigin, At
  <2>5. QED
    BY <1>0, <2>1, <2>2, <2>3, <2>4, Onward
<1>3. QED
  BY <1>1, <1>2 DEF SetOrigin

LEMMA RepairStep == ASSUME IInv, Repair PROVE IInv'
<1>0. TypeOK /\ WorldTyped /\ att.pc # "idle"
  BY TypeParts DEF IInv, Repair, At
<1>1. CASE /\ repo' = [repo EXCEPT !.linked = "new"]
           /\ Goto("verify") /\ Kept /\ UNCHANGED <<repl, worklog, evidence, remote, faults>>
  <2>1. Carried /\ att'.pc = "verify"
    BY <1>0, <1>1, Going DEF Steps
  <2>2. WorldTyped' /\ repo'.at = repo.at /\ repo'.origin = repo.origin /\ repo'.linked = "new"
    BY <1>0, <1>1 DEF WorldTyped
  <2>3. Settled'
    BY <1>0, <2>1, <2>2, <1>1 DEF IInv, Settled, Whole, Backed, Carried, World,
           Repair, At, Position, Operation, Replacement, Moved, Undoing,
           Quarantined
  <2>4. Position' /\ Operation' /\ Replacement'
    BY <1>0, <2>1, <2>2, <1>1 DEF IInv, Position, Operation, Replacement,
           Moved, Undoing, Carried, Quarantined, Settled, Backed, Whole,
           Logged, World, Repair, At
  <2>5. QED
    BY <1>0, <2>1, <2>2, <2>3, <2>4, Onward
<1>2. CASE BreaksInto("undoOrigin") /\ UNCHANGED World
  <2>1. Carried /\ att'.pc = "undoOrigin"
    BY <1>0, <1>2, GoingWrong DEF Steps
  <2>2. WorldTyped'
    BY <1>0, <1>2, WorldKept DEF World
  <2>3. Settled'
    BY <1>0, <2>1, <2>2, <1>2 DEF IInv, Settled, Whole, Backed, Carried, World,
           Repair, At, Position, Operation, Replacement, Moved, Undoing,
           Quarantined
  <2>4. Position' /\ Operation' /\ Replacement'
    BY <1>0, <2>1, <2>2, <1>2 DEF IInv, Position, Operation, Replacement,
           Moved, Undoing, Carried, Quarantined, Settled, Backed, Whole,
           Logged, World, Repair, At
  <2>5. QED
    BY <1>0, <2>1, <2>2, <2>3, <2>4, Onward
<1>3. QED
  BY <1>1, <1>2 DEF Repair

LEMMA VerifyStep == ASSUME IInv, Verify PROVE IInv'
<1>0. TypeOK /\ WorldTyped /\ att.pc # "idle"
  BY TypeParts DEF IInv, Verify, At
<1>1. CASE /\ repo' = [repo EXCEPT !.fetched = remote]
           /\ Goto(IF remote = att.head THEN "publish" ELSE "undoOrigin")
           /\ Kept /\ UNCHANGED <<repl, worklog, evidence, remote, faults>>
  <2>1. Carried /\ att'.pc \in {"publish", "undoOrigin"}
    BY <1>0, <1>1, Going DEF Steps
  <2>2. WorldTyped' /\ repo'.at = repo.at /\ repo'.origin = repo.origin /\ repo'.linked = repo.linked
    BY <1>0, <1>1 DEF WorldTyped, Operations
  <2>3. Settled'
    BY <1>0, <2>1, <2>2, <1>1 DEF IInv, Settled, Whole, Backed, Carried, World,
           Verify, At, Position, Operation, Replacement, Moved, Undoing,
           Quarantined
  <2>4. Position' /\ Operation' /\ Replacement'
    BY <1>0, <2>1, <2>2, <1>1 DEF IInv, Position, Operation, Replacement,
           Moved, Undoing, Carried, Quarantined, Settled, Backed, Whole,
           Logged, World, Verify, At
  <2>5. QED
    BY <1>0, <2>1, <2>2, <2>3, <2>4, Onward
<1>2. CASE BreaksInto("undoOrigin") /\ UNCHANGED World
  <2>1. Carried /\ att'.pc = "undoOrigin"
    BY <1>0, <1>2, GoingWrong DEF Steps
  <2>2. WorldTyped'
    BY <1>0, <1>2, WorldKept DEF World
  <2>3. Settled'
    BY <1>0, <2>1, <2>2, <1>2 DEF IInv, Settled, Whole, Backed, Carried, World,
           Verify, At, Position, Operation, Replacement, Moved, Undoing,
           Quarantined
  <2>4. Position' /\ Operation' /\ Replacement'
    BY <1>0, <2>1, <2>2, <1>2 DEF IInv, Position, Operation, Replacement,
           Moved, Undoing, Carried, Quarantined, Settled, Backed, Whole,
           Logged, World, Verify, At
  <2>5. QED
    BY <1>0, <2>1, <2>2, <2>3, <2>4, Onward
<1>3. QED
  BY <1>1, <1>2 DEF Verify

LEMMA PublishStep == ASSUME IInv, Publish PROVE IInv'
<1>0. TypeOK /\ WorldTyped /\ att.pc # "idle"
  BY TypeParts DEF IInv, Publish, At
<1>1. CASE /\ worklog' = Completed
           /\ Goto(IF att.op # 0 THEN "retire" ELSE "sync")
           /\ Kept /\ UNCHANGED faults
           /\ UNCHANGED <<repo, repl, evidence, remote>>
  <2>1. Carried /\ att'.pc = IF att.op # 0 THEN "retire" ELSE "sync"
    BY <1>0, <1>1, Going DEF Steps
  <2>2. WorldTyped' /\ worklog' = Completed
    BY <1>0, <1>1 DEF WorldTyped, Completed
  <2>3. Settled'
    BY <1>0, <2>1, <2>2, <1>1 DEF IInv, Settled, Whole, Backed, Carried, World,
           Publish, At, Position, Operation, Replacement, Moved, Undoing,
           Quarantined, Completed
  <2>4. Position' /\ Operation' /\ Replacement'
    BY <1>0, <2>1, <2>2, <1>1 DEF IInv, Position, Operation, Replacement,
           Moved, Undoing, Carried, Quarantined, Settled, Backed, Whole,
           Logged, World, Publish, At, Completed, WorldTyped
  <2>5. QED
    BY <1>0, <2>1, <2>2, <2>3, <2>4, Onward
<1>2. CASE /\ worklog' \in {worklog, Completed} /\ Breaks(0)
           /\ UNCHANGED <<repo, repl, evidence, remote>>
  <2>1. Carried
    BY <1>0, <1>2, Failing
  <2>2. WorldTyped'
    BY <1>0, <1>2 DEF WorldTyped, Completed
  <2>3. Settled'
    BY <1>0, <2>1, <1>2 DEF IInv, Settled, Whole, Backed, Carried, Position,
           Moved, Publish, At, Completed
  <2>4. QED
    BY <1>0, <2>2, <2>3, <1>2, FailingKeeps
<1>3. QED
  BY <1>1, <1>2 DEF Publish, PublishFails

LEMMA RetireStep == ASSUME IInv, Retire PROVE IInv'
<1>0. TypeOK /\ WorldTyped /\ att.pc # "idle"
  BY TypeParts DEF IInv, Retire, At
<1>1. CASE Breaks(att.op) /\ UNCHANGED World
  <2>1. att.op = mem.receipt
    BY <1>0 DEF IInv, Operation, Retire, At, Moved
  <2>2. QED
    BY <1>0, <2>1, <1>1, FailingInPlace
<1>2. CASE /\ repl' = [repl EXCEPT !.at = "gone"]
           /\ Goto("complete") /\ Kept /\ UNCHANGED <<repo, worklog, evidence, remote, faults>>
  <2>1. Carried /\ att'.pc = "complete"
    BY <1>0, <1>2, Going DEF Steps
  <2>2. WorldTyped' /\ repl'.at = "gone"
    BY <1>0, <1>2 DEF WorldTyped
  <2>3. Settled'
    BY <1>0, <2>1, <2>2, <1>2 DEF IInv, Settled, Whole, Backed, Carried, World,
           Retire, At, Position, Operation, Replacement, Moved, Undoing,
           Quarantined
  <2>4. Position' /\ Operation' /\ Replacement'
    BY <1>0, <2>1, <2>2, <1>2 DEF IInv, Position, Operation, Replacement,
           Moved, Undoing, Carried, Quarantined, Settled, Backed, Whole,
           Logged, World, Retire, At
  <2>5. QED
    BY <1>0, <2>1, <2>2, <2>3, <2>4, Onward
<1>3. QED
  BY <1>1, <1>2 DEF Retire

LEMMA CompleteStep == ASSUME IInv, Complete PROVE IInv'
<1>0. TypeOK /\ WorldTyped /\ att.pc # "idle"
  BY TypeParts DEF IInv, Complete, At
<1>1. CASE Breaks(att.op) /\ UNCHANGED World
  <2>1. att.op = mem.receipt
    BY <1>0 DEF IInv, Operation, Complete, At, Moved
  <2>2. QED
    BY <1>0, <2>1, <1>1, FailingInPlace
<1>2. CASE /\ evidence' = [evidence EXCEPT !.retired = @ \cup {att.op}]
           /\ Goto("sync") /\ Kept /\ UNCHANGED <<repo, repl, worklog, remote, faults>>
  <2>0. att.op \in Heads /\ repl.at = "gone"
    BY <1>0, TypeParts DEF Attempt, Operations, IInv, Operation, Replacement,
           Complete, At
  <2>1. Carried /\ att'.pc = "sync"
    BY <1>0, <1>2, Going DEF Steps
  <2>2. WorldTyped' /\ repl'.at = "gone" /\ UNCHANGED <<repo, repl, worklog>>
    BY <1>0, <2>0, <1>2 DEF WorldTyped
  <2>3. Settled'
    BY <1>0, <2>1, <2>2 DEF IInv, Settled, Whole, Backed, Carried
  <2>4. Position' /\ Operation' /\ Replacement'
    BY <1>0, <2>1, <2>2, <1>2 DEF IInv, Position, Operation, Replacement,
           Moved, Undoing, Carried, Quarantined, Settled, Backed, Whole,
           Logged, World, Complete, At
  <2>5. QED
    BY <1>0, <2>1, <2>2, <2>3, <2>4, Onward
<1>3. QED
  BY <1>1, <1>2 DEF Complete

LEMMA UndoOriginStep == ASSUME IInv, UndoOrigin PROVE IInv'
<1>0. TypeOK /\ WorldTyped /\ att.pc # "idle"
  BY TypeParts DEF IInv, UndoOrigin, At
<1>1. CASE /\ repo' = [repo EXCEPT !.origin = "old"] \/ UNCHANGED repo
           /\ UNCHANGED faults \/ Fault
           /\ Goto("undoMove") /\ Kept
           /\ UNCHANGED <<repl, worklog, evidence, remote>>
  <2>1. Carried /\ att'.pc = "undoMove"
    BY <1>0, <1>1, Going DEF Steps
  <2>2. WorldTyped' /\ repo'.at = repo.at
    BY <1>0, <1>1 DEF WorldTyped
  <2>3. Settled'
    BY <1>0, <2>1, <2>2, <1>1 DEF IInv, Settled, Whole, Backed, Carried, World,
           UndoOrigin, At, Position, Operation, Replacement, Moved, Undoing,
           Quarantined
  <2>4. Position' /\ Operation' /\ Replacement'
    BY <1>0, <2>1, <2>2, <1>1 DEF IInv, Position, Operation, Replacement,
           Moved, Undoing, Carried, Quarantined, Settled, Backed, Whole,
           Logged, World, UndoOrigin, At
  <2>5. QED
    BY <1>0, <2>1, <2>2, <2>3, <2>4, Onward
<1>2. QED
  BY <1>1 DEF UndoOrigin

LEMMA UndoMoveStep == ASSUME IInv, UndoMove PROVE IInv'
<1>0. TypeOK /\ WorldTyped /\ att.pc # "idle"
  BY TypeParts DEF IInv, UndoMove, At
<1>1. CASE /\ repo' = [repo EXCEPT !.at = "old"] \/ UNCHANGED repo
           /\ UNCHANGED faults \/ Fault
           /\ Goto("undoRepair") /\ Kept
           /\ UNCHANGED <<repl, worklog, evidence, remote>>
  <2>1. Carried /\ att'.pc = "undoRepair"
    BY <1>0, <1>1, Going DEF Steps
  <2>2. WorldTyped' /\ repo'.at \in {repo.at, "old"}
    BY <1>0, <1>1 DEF WorldTyped
  <2>3. Settled'
    BY <1>0, <2>1, <2>2, <1>1 DEF IInv, Settled, Whole, Backed, Carried, World,
           UndoMove, At, Position, Operation, Replacement, Moved, Undoing,
           Quarantined
  <2>4. Position' /\ Operation' /\ Replacement'
    BY <1>0, <2>1, <2>2, <1>1 DEF IInv, Position, Operation, Replacement,
           Moved, Undoing, Carried, Quarantined, Settled, Backed, Whole,
           Logged, World, UndoMove, At
  <2>5. QED
    BY <1>0, <2>1, <2>2, <2>3, <2>4, Onward
<1>2. QED
  BY <1>1 DEF UndoMove

LEMMA UndoRepairStep == ASSUME IInv, UndoRepair PROVE IInv'
<1>0. TypeOK /\ WorldTyped /\ att.pc # "idle"
  BY TypeParts DEF IInv, UndoRepair, At
<1>1. CASE /\ repo' = [repo EXCEPT !.linked = "old"] \/ UNCHANGED repo
           /\ UNCHANGED faults \/ Fault
           /\ Goto("restore") /\ Kept
           /\ UNCHANGED <<repl, worklog, evidence, remote>>
  <2>1. Carried /\ att'.pc = "restore"
    BY <1>0, <1>1, Going DEF Steps
  <2>2. WorldTyped' /\ repo'.at = repo.at
    BY <1>0, <1>1 DEF WorldTyped
  <2>3. Settled'
    BY <1>0, <2>1, <2>2, <1>1 DEF IInv, Settled, Whole, Backed, Carried, World,
           UndoRepair, At, Position, Operation, Replacement, Moved, Undoing,
           Quarantined
  <2>4. Position' /\ Operation' /\ Replacement'
    BY <1>0, <2>1, <2>2, <1>1 DEF IInv, Position, Operation, Replacement,
           Moved, Undoing, Carried, Quarantined, Settled, Backed, Whole,
           Logged, World, UndoRepair, At
  <2>5. QED
    BY <1>0, <2>1, <2>2, <2>3, <2>4, Onward
<1>2. QED
  BY <1>1 DEF UndoRepair

LEMMA RestoreStep == ASSUME IInv, Restore PROVE IInv'
<1>0. TypeOK /\ WorldTyped /\ att.pc # "idle"
  BY TypeParts DEF IInv, Restore, At
<1>1. CASE (Fails(0) \/ Breaks(0)) /\ UNCHANGED World
  BY <1>0, <1>1, FailingInPlace
<1>2. CASE /\ att.op # 0
           /\ repl' = [repl EXCEPT !.at = "dest"]
           /\ Goto("restoredTerminal") /\ Kept /\ UNCHANGED <<repo, worklog, evidence, remote, faults>>
  <2>1. Carried /\ att'.pc = "restoredTerminal"
    BY <1>0, <1>2, Going DEF Steps
  <2>2. WorldTyped' /\ repl'.at = "dest"
    BY <1>0, <1>2 DEF WorldTyped
  <2>3. Settled'
    BY <1>0, <2>1, <2>2, <1>2 DEF IInv, Settled, Whole, Backed, Carried, World,
           Restore, At, Position, Operation, Replacement, Moved, Undoing,
           Quarantined
  <2>4. Position' /\ Operation' /\ Replacement'
    BY <1>0, <2>1, <2>2, <1>2 DEF IInv, Position, Operation, Replacement,
           Moved, Undoing, Carried, Quarantined, Settled, Backed, Whole,
           Logged, World, Restore, At
  <2>5. QED
    BY <1>0, <2>1, <2>2, <2>3, <2>4, Onward
<1>3. QED
  BY <1>1, <1>2 DEF Restore

LEMMA RecordRestoredStep == ASSUME IInv, RecordRestored PROVE IInv'
<1>0. TypeOK /\ WorldTyped /\ att.pc # "idle"
  BY TypeParts DEF IInv, RecordRestored, At
<1>1. CASE Breaks(0) /\ UNCHANGED World
  BY <1>0, <1>1, FailingInPlace
<1>2. CASE /\ evidence' = [evidence EXCEPT !.restored = @ \cup {att.op}] /\ Fails(0)
           /\ UNCHANGED <<repo, repl, worklog, remote>>
  <2>0. att.op \in Heads
    BY <1>0, TypeParts DEF Attempt, Operations, IInv, Operation,
           RecordRestored, At
  <2>1. Carried
    BY <1>0, <1>2, Failing
  <2>2. WorldTyped' /\ evidence'.retired = evidence.retired
    BY <1>0, <2>0, <1>2 DEF WorldTyped
  <2>3. Settled'
    BY <1>0, <2>1, <2>2, <1>2 DEF IInv, Settled, Whole, Backed, Carried
  <2>4. QED
    BY <1>0, <2>2, <2>3, <1>2, FailingKeeps
<1>3. QED
  BY <1>1, <1>2 DEF RecordRestored

LEMMA FinalizeStep == ASSUME IInv, Finalize PROVE IInv'
<1>0. TypeOK /\ WorldTyped /\ att.pc # "idle"
  BY TypeParts DEF IInv, Finalize, At
<1>1. CASE (Fails(0) \/ Breaks(0)) /\ UNCHANGED World
  BY <1>0, <1>1, FailingInPlace
<1>2. CASE /\ CanFinalize
           /\ worklog' = Completed
           /\ Goto("sync") /\ Kept /\ UNCHANGED <<repo, repl, evidence, remote, faults>>
  <2>1. Carried /\ att'.pc = "sync"
    BY <1>0, <1>2, Going DEF Steps
  <2>2. WorldTyped'
    BY <1>0, <1>2 DEF WorldTyped, Completed
  <2>3. Settled'
    BY <1>0, <2>1, <2>2, <1>2 DEF IInv, Settled, Whole, Backed, Carried, World,
           Finalize, At, Position, Operation, Replacement, Moved, Undoing,
           Quarantined, Completed, CanFinalize
  <2>4. Position' /\ Operation' /\ Replacement'
    BY <1>0, <2>1, <2>2, <1>2 DEF IInv, Position, Operation, Replacement,
           Moved, Undoing, Carried, Quarantined, Settled, Backed, Whole,
           Logged, World, Finalize, At, Completed, CanFinalize, WorldTyped
  <2>5. QED
    BY <1>0, <2>1, <2>2, <2>3, <2>4, Onward
<1>3. QED
  BY <1>1, <1>2 DEF Finalize

LEMMA SyncStep == ASSUME IInv, Sync PROVE IInv'
<1>0. TypeOK /\ WorldTyped /\ att.pc # "idle"
  BY TypeParts DEF IInv, Sync, At
<1>1. CASE (Fails(0) \/ Breaks(0)) /\ UNCHANGED World
  BY <1>0, <1>1, FailingInPlace
<1>2. CASE /\ repo.origin = "new"
           /\ repo' \in {repo, [repo EXCEPT !.fetched = remote]}
           /\ Ends([state |-> "succeeded", receipt |-> 0])
           /\ Kept /\ UNCHANGED <<repl, worklog, evidence, remote, faults>>
  <2>1. /\ att' \in Attempt /\ att'.pc = "finish" /\ att'.op = att.op
        /\ att'.outcome.state = "succeeded" /\ att'.outcome.receipt = 0
    BY <1>0, <1>2, TypeParts DEF Ends, Attempt, Steps, Record, Operations
  <2>2. Carried
    BY <1>0, <2>1, <1>2, TypeParts, KeptTyped DEF Carried
  <2>3. WorldTyped' /\ repo'.at = repo.at /\ repo'.origin = repo.origin /\ repo'.linked = repo.linked
    BY <1>0, <1>2 DEF WorldTyped, Operations
  <2>4. Settled'
    BY <2>2, <2>3, <1>2 DEF IInv, Settled, Whole, Backed, Carried
  <2>5. Recorded'
    BY <1>0, <2>1, <2>2, <2>3, <1>2 DEF IInv, Recorded, Carried, Whole, Logged,
           Backed, Position, Moved, Sync, At
  <2>6. Position' /\ Operation' /\ Replacement'
    BY <2>1 DEF Position, Operation, Replacement, Moved, Undoing
  <2>7. QED
    BY <2>1, <2>2, <2>3, <2>4, <2>5, <2>6, TypePartsNext DEF IInv, Carried
<1>3. QED
  BY <1>1, <1>2 DEF Sync

-----------------------------------------------------------------------------
(* The queue's steps and the environment's. *)

LEMMA IdleFacts == Idle \in Attempt /\ Idle.pc = "idle"
BY DEF Idle, Attempt, Record, Operations, Steps

LEMMA StartStep == ASSUME IInv, Start PROVE IInv'
<1>0. /\ WorldTyped /\ JobTyped /\ CountersTyped
      /\ att.pc = "idle" /\ mem.state = "queued"
  BY TypeParts DEF IInv, Start, At
<1>1. PICK pc \in {"recover", "locate"} :
        /\ att' = [Idle EXCEPT !.pc = pc]
        /\ pc = "recover" <=> mem.receipt # 0
  BY DEF Start
<1>2. /\ att' \in Attempt /\ att'.pc = pc /\ att'.op = 0
  BY <1>1 DEF Idle, Attempt, Record, Operations, Steps
<1>3. /\ mem' \in Record /\ mem'.state = "running" /\ mem'.receipt = mem.receipt /\ disk' = mem'
  BY <1>0 DEF Start, JobTyped, Record
<1>4. WorldTyped' /\ CountersTyped'
  BY <1>0, WorldKept DEF Start, CountersTyped
<1>5. Settled'
  BY <1>3 DEF IInv, Settled, Whole, Backed, Start, World
<1>6. Recorded'
  BY <1>2, <1>3 DEF IInv, Recorded, Start, At
<1>7. Position' /\ Operation' /\ Replacement'
  BY <1>1, <1>2, <1>3 DEF Position, Operation, Replacement, Moved, Undoing,
         Quarantined
<1>8. QED
  BY <1>2, <1>3, <1>4, <1>5, <1>6, <1>7, TypePartsNext DEF IInv, JobTyped

LEMMA FinishStep == ASSUME IInv, Finish PROVE IInv'
<1>0. /\ WorldTyped /\ JobTyped /\ CountersTyped /\ att \in Attempt
      /\ att.pc = "finish" /\ att.outcome \in Record
  BY TypeParts DEF IInv, Finish, At, Attempt
<1>1. att' \in Attempt /\ att'.pc = "idle"
  BY IdleFacts DEF Finish
<1>2. WorldTyped' /\ CountersTyped'
  BY <1>0, WorldKept, FaultTyped DEF Finish, CountersTyped
<1>3. /\ mem' \in {att.outcome, [state |-> "queued", receipt |-> mem.receipt]}
      /\ disk' \in {disk, att.outcome}
  BY DEF Finish
<1>4. mem' \in Record /\ disk' \in Record
  BY <1>0, <1>3 DEF JobTyped, Record
<1>5. Settled'
  BY <1>0, <1>3 DEF IInv, Settled, Recorded, Whole, Backed, Finish, World
<1>6. Recorded'
  BY <1>0, <1>1, <1>3 DEF IInv, Recorded, Whole, Logged, Finish, World
<1>7. Position' /\ Operation' /\ Replacement'
  BY <1>1 DEF Position, Operation, Replacement, Moved, Undoing
<1>8. QED
  BY <1>1, <1>2, <1>4, <1>5, <1>6, <1>7, TypePartsNext DEF IInv, JobTyped

LEMMA EnvironmentStep == ASSUME IInv, Advance \/ UserSync PROVE IInv'
<1>0. WorldTyped /\ JobTyped /\ CountersTyped /\ att \in Attempt
  BY TypeParts DEF IInv
<1>1. /\ WorldTyped' /\ repl'.at = repl.at /\ repl'.op = repl.op
      /\ UNCHANGED <<repo, worklog, evidence, mem, disk, att, up, faults, crashes>>
  BY <1>0, ConstantsOK DEF Advance, UserSync, WorldTyped, Heads
<1>2. TypeOK'
  BY <1>0, <1>1, TypePartsNext DEF JobTyped, CountersTyped
<1>3. Settled' /\ Recorded'
  BY <1>1 DEF IInv, Settled, Recorded, Whole, Logged, Backed
<1>4. Position' /\ Operation' /\ Replacement'
  BY <1>1 DEF IInv, Position, Operation, Replacement, Moved, Undoing,
         Quarantined, Logged
<1>5. QED
  BY <1>2, <1>3, <1>4 DEF IInv

LEMMA RestartStep == ASSUME IInv, Crash \/ Reload PROVE IInv'
<1>0. /\ WorldTyped /\ JobTyped /\ CountersTyped /\ att \in Attempt
      /\ disk \in Record /\ disk.receipt \in Operations
  BY TypeParts DEF IInv, JobTyped, Record
<1>1. att' \in Attempt /\ att'.pc = "idle"
  BY <1>0, IdleFacts DEF Crash, Reload, IInv, Recorded
<1>a. WorldTyped'
  BY <1>0, WorldKept DEF Crash, Reload
<1>2. CountersTyped'
  <2>1. CASE Crash
    <3>1. crashes' = crashes + 1 /\ crashes < MaxCrashes /\ faults' = faults
      BY <2>1 DEF Crash
    <3>2. crashes \in 0..MaxCrashes /\ faults \in 0..MaxFaults
      BY <1>0 DEF CountersTyped
    <3>3. crashes' \in 0..MaxCrashes
      BY <3>1, <3>2, ConstantsOK
    <3>4. up' \in BOOLEAN
      BY <2>1 DEF Crash
    <3>5. QED
      BY <3>1, <3>2, <3>3, <3>4 DEF CountersTyped
  <2>2. CASE Reload
    <3>1. up' = TRUE /\ faults' = faults /\ crashes' = crashes
      BY <2>2 DEF Reload
    <3>2. QED
      BY <1>0, <3>1 DEF CountersTyped
  <2>3. QED
    BY <2>1, <2>2
<1>3. /\ mem' \in Record /\ disk' \in Record
      /\ mem'.receipt \in {mem.receipt, disk.receipt} /\ disk'.receipt = disk.receipt
      /\ "succeeded" \in {mem'.state, disk'.state} => "succeeded" \in {mem.state, disk.state}
  BY <1>0 DEF Crash, Reload, JobTyped, Record
<1>4. Settled' /\ Recorded'
  BY <1>1, <1>3 DEF IInv, Settled, Recorded, Whole, Logged, Backed, Crash,
         Reload, World
<1>5. Position' /\ Operation' /\ Replacement'
  BY <1>1 DEF Position, Operation, Replacement, Moved, Undoing
<1>6. QED
  BY <1>1, <1>a, <1>2, <1>3, <1>4, <1>5, TypePartsNext DEF IInv, JobTyped

-----------------------------------------------------------------------------
(* The theorems. *)

LEMMA Invariant == Spec => []IInv
<1>1. ASSUME Init PROVE IInv
  <2>1. TypeOK
    BY <1>1, ConstantsOK DEF Init, TypeOK, Heads, Operations, Record, Idle,
           Steps
  <2>2. /\ att.pc = "idle" /\ mem.state = "queued" /\ disk.state = "queued"
        /\ mem.receipt = 0 /\ disk.receipt = 0
        /\ repo.at = "old" /\ worklog # "recorded" /\ evidence.retired = {}
    BY <1>1 DEF Init, Idle
  <2>3. QED
    BY <2>1, <2>2 DEF IInv, Settled, Recorded, Position, Operation,
           Replacement, Backed, Moved, Undoing
<1>2. ASSUME IInv, [Next]_vars PROVE IInv'
  <2>1. CASE UNCHANGED vars
    BY <1>2, <2>1 DEF vars, IInv, TypeOK, Settled, Recorded, Position,
           Operation, Replacement, Whole, Logged, Backed, Quarantined
  <2>2. CASE Process
    BY <1>2, <2>2, StartStep, RecoverStep, RecoveryRecordedStep, LocateStep,
           IntendStep, QuarantineStep, PendingReceiptStep, PutBackStep,
           CheckpointStep, MoveStep, SetOriginStep, RepairStep, VerifyStep,
           PublishStep, RetireStep, CompleteStep, UndoOriginStep, UndoMoveStep,
           UndoRepairStep, RestoreStep, RecordRestoredStep, FinalizeStep,
           SyncStep, FinishStep DEF Process
  <2>3. CASE Advance \/ UserSync \/ Crash \/ Reload
    BY <1>2, <2>3, EnvironmentStep, RestartStep
  <2>4. QED
    BY <1>2, <2>1, <2>2, <2>3 DEF Next
<1>3. QED
  BY <1>1, <1>2, PTL DEF Spec

\* The positions, receipts and job records that attempts, rollbacks and restarts
\* produce stay in their ranges; the evidence never names operation 0.
THEOREM TransferTypeCorrect == Spec => []TypeOK
BY Invariant, PTL DEF IInv

\* A published relocation receipt is never contradicted (publish and rollback in
\* RelocateRepository), for any number of heads, faults and crashes.
THEOREM WorkLogAlwaysTruthful == Spec => []WorkLogTruthful
<1>1. IInv => WorkLogTruthful
  BY DEF IInv, Settled, Whole, WorkLogTruthful
<1>2. QED
  BY <1>1, Invariant, PTL

\* A receipt that says "retired" is true, also when a recovery inferred it from
\* an absent quarantine (RecoverRepositoryTransferCleanup).
THEOREM RetiredEvidenceAlwaysTrue == Spec => []RetiredEvidenceTrue
<1>1. IInv => RetiredEvidenceTrue
  BY DEF IInv, Settled, RetiredEvidenceTrue
<1>2. QED
  BY <1>1, Invariant, PTL

\* From the move to the end of the cleanup the job file names the operation
\* whose quarantine has to be retired (checkpointCleanup).
THEOREM MoveAlwaysCheckpointed == Spec => []MoveIsCheckpointed
<1>1. IInv => MoveIsCheckpointed
  BY DEF IInv, Operation, Moved, MoveIsCheckpointed
<1>2. QED
  BY <1>1, Invariant, PTL

\* Success means that path, origin, worktrees and Work Log all say the new name.
THEOREM SuccessIsComplete == Spec => []SucceededIsComplete
<1>1. IInv => SucceededIsComplete
  BY DEF IInv, Recorded, Whole, Logged, SucceededIsComplete
<1>2. QED
  BY <1>1, Invariant, PTL
=============================================================================
