----------------------- MODULE DaemonOperationsProofs -----------------------
(***************************************************************************)
(* Proofs about DaemonOperations, for any number of operations, keys and   *)
(* worker processes and any bounds.  The inductive invariant says what a   *)
(* file may hold given what was reported (FileOK), that only an operation  *)
(* whose file is no longer queued was started or is in somebody's hands    *)
(* (StartOK, ExecOK, ProcOK), and that no two processes have the same one. *)
(* What is added at the end about results (ResultInv) gives the refinement *)
(* of OperationLifecycle.                                                  *)
(***************************************************************************)
EXTENDS DaemonOperations, TLAPS

Written == {"running", "succeeded", "failed", "cancelled", "recovery"}
Holding(p) == pc[p] \in {"assigned", "running", "stopping", "report"}

\* The file agrees with what was reported, or lags behind a recovery.
FileOK(o) ==
    /\ mem[o] = "absent" <=> disk[o] = "absent"
    /\ up /\ mem[o] \in {"queued", "running"} => disk[o] = mem[o]
    /\ mem[o] \in Final \/ disk[o] \in Final => disk[o] = mem[o]
    /\ mem[o] = "recovery" => disk[o] \in {"recovery", "running", "queued"}

StartOK(o) ==
    /\ starts[o] \in {0, 1}
    /\ starts[o] = 1 => disk[o] \in Written

\* The goroutine that executes a raw operation.
ExecOK(o) ==
    /\ exec[o] # "none" => up /\ Mode[o] = "raw"
    /\ exec[o] \in {"spawned", "admit"} => mem[o] \in {"queued", "cancelled"}
    /\ exec[o] \in {"launch", "child", "finish"} => mem[o] \in {"running", "cancelled"}
    /\ exec[o] = "launch" => starts[o] = 0
    /\ exec[o] = "child" \/ (exec[o] = "finish" /\ outcome[o] = "ok") => starts[o] = 1

\* A process that has an operation.
ProcOK(p) ==
    /\ pc[p] # "off" => gen[p] # 0
    /\ Holding(p) => /\ task[p] \in Ids
                     /\ Mode[task[p]] = "worker"
                     /\ disk[task[p]] \in Written \ {"succeeded"}
    /\ pc[p] = "assigned" => starts[task[p]] = 0
    /\ pc[p] \in {"running", "stopping"} => starts[task[p]] = 1
    /\ pc[p] = "report" /\ outcome[task[p]] = "ok" => starts[task[p]] = 1

Exclusive ==
    \A p, q \in Procs : Holding(p) /\ Holding(q) /\ task[p] = task[q] => p = q

LeaseOK(o) ==
    /\ Mode[o] = "raw" => lease[o] = 0
    /\ up /\ mem[o] = "running" /\ Mode[o] = "worker" =>
           lease[o] = registered /\ registered # 0

KeyOK(o) ==
    disk[o] # "absent" /\ key[o] # None /\ up => byKey[key[o]] = o

OperationOK(o) == FileOK(o) /\ StartOK(o) /\ ExecOK(o) /\ LeaseOK(o) /\ KeyOK(o)

IInv ==
    /\ TypeOK
    /\ \A o \in Ids : OperationOK(o)
    /\ \A p \in Procs : ProcOK(p)
    /\ Exclusive
    /\ OneOperationPerKey
    /\ SucceededIsTrue

-----------------------------------------------------------------------------
(* Each action keeps the invariant: one lemma per action, and in each one  *)
(* step per part of IInv.                                                  *)

\* A new operation is queued under a key no other has; a rejected write leaves none.
LEMMA SubmitOperationKeeps ==
    ASSUME IInv, NEW o \in Ids, NEW k \in Keys \cup {None}, SubmitOperation(o, k)
    PROVE  IInv'
<1>1. TypeOK'
    BY ConstantsOK DEF IInv, TypeOK, SubmitOperation, Saved, RolledBack, Fault,
           worker, history, Final, Terminal, States
<1>2. ASSUME NEW x \in Ids PROVE OperationOK(x)'
    BY ConstantsOK DEF IInv, TypeOK, OperationOK, FileOK, StartOK, ExecOK,
           LeaseOK, KeyOK, ProcOK, Holding, OneOperationPerKey,
           SubmitOperation, Saved, RolledBack, Fault, worker, history, Final,
           Terminal, States, Written
<1>3. ASSUME NEW q \in Procs PROVE ProcOK(q)'
    BY ConstantsOK DEF IInv, TypeOK, OperationOK, FileOK, StartOK, ExecOK,
           LeaseOK, ProcOK, Holding, Exclusive, SubmitOperation, Saved,
           RolledBack, Fault, worker, history, Final, Terminal, States, Written
<1>4. Exclusive'
    BY DEF IInv, TypeOK, OperationOK, FileOK, ProcOK, Holding, Exclusive,
           SubmitOperation, Saved, RolledBack, Fault, worker, history, Final,
           Terminal, States, Written
<1>5. OneOperationPerKey'
    BY ConstantsOK DEF IInv, TypeOK, OperationOK, FileOK, KeyOK,
           OneOperationPerKey, SubmitOperation, Saved, RolledBack, Fault,
           worker, history, Final, Terminal, States, Written
<1>6. SucceededIsTrue'
    BY DEF IInv, TypeOK, OperationOK, FileOK, StartOK, ExecOK, ProcOK, Holding,
           Exclusive, SucceededIsTrue, SubmitOperation, Saved, RolledBack,
           Fault, worker, history, Final, Terminal, States, Written
<1>. QED
    BY <1>1, <1>2, <1>3, <1>4, <1>5, <1>6 DEF IInv

\* A queued or running operation becomes cancelled in memory and in its file.
LEMMA CancelOperationKeeps ==
    ASSUME IInv, NEW o \in Ids, CancelOperation(o)
    PROVE  IInv'
<1>1. TypeOK'
    BY ConstantsOK DEF IInv, TypeOK, CancelOperation, Saved, RolledBack, Fault,
           worker, history, Final, Terminal, States
<1>2. ASSUME NEW x \in Ids PROVE OperationOK(x)'
    BY ConstantsOK DEF IInv, TypeOK, OperationOK, FileOK, StartOK, ExecOK,
           LeaseOK, KeyOK, ProcOK, Holding, OneOperationPerKey,
           CancelOperation, Saved, RolledBack, Fault, worker, history, Final,
           Terminal, States, Written
<1>3. ASSUME NEW q \in Procs PROVE ProcOK(q)'
    BY ConstantsOK DEF IInv, TypeOK, OperationOK, FileOK, StartOK, ExecOK,
           LeaseOK, ProcOK, Holding, Exclusive, CancelOperation, Saved,
           RolledBack, Fault, worker, history, Final, Terminal, States, Written
<1>4. Exclusive'
    BY DEF IInv, TypeOK, OperationOK, FileOK, ProcOK, Holding, Exclusive,
           CancelOperation, Saved, RolledBack, Fault, worker, history, Final,
           Terminal, States, Written
<1>5. OneOperationPerKey'
    BY ConstantsOK DEF IInv, TypeOK, OperationOK, FileOK, KeyOK,
           OneOperationPerKey, CancelOperation, Saved, RolledBack, Fault,
           worker, history, Final, Terminal, States, Written
<1>6. SucceededIsTrue'
    BY DEF IInv, TypeOK, OperationOK, FileOK, StartOK, ExecOK, ProcOK, Holding,
           Exclusive, SucceededIsTrue, CancelOperation, Saved, RolledBack,
           Fault, worker, history, Final, Terminal, States, Written
<1>. QED
    BY <1>1, <1>2, <1>3, <1>4, <1>5, <1>6 DEF IInv

\* The goroutine of execute begins, or finds its operation cancelled.
LEMMA ExecBeginKeeps ==
    ASSUME IInv, NEW o \in Ids, ExecBegin(o)
    PROVE  IInv'
<1>1. TypeOK'
    BY ConstantsOK DEF IInv, TypeOK, ExecBegin, ExecStep, worker, history,
           Final, Terminal, States
<1>2. ASSUME NEW x \in Ids PROVE OperationOK(x)'
    BY ConstantsOK DEF IInv, TypeOK, OperationOK, FileOK, StartOK, ExecOK,
           LeaseOK, KeyOK, ProcOK, Holding, OneOperationPerKey, ExecBegin,
           ExecStep, worker, history, Final, Terminal, States, Written
<1>3. ASSUME NEW q \in Procs PROVE ProcOK(q)'
    BY ConstantsOK DEF IInv, TypeOK, OperationOK, FileOK, StartOK, ExecOK,
           LeaseOK, ProcOK, Holding, Exclusive, ExecBegin, ExecStep, worker,
           history, Final, Terminal, States, Written
<1>4. Exclusive'
    BY DEF IInv, TypeOK, OperationOK, FileOK, ProcOK, Holding, Exclusive,
           ExecBegin, ExecStep, worker, history, Final, Terminal, States,
           Written
<1>5. OneOperationPerKey'
    BY ConstantsOK DEF IInv, TypeOK, OperationOK, FileOK, KeyOK,
           OneOperationPerKey, ExecBegin, ExecStep, worker, history, Final,
           Terminal, States, Written
<1>6. SucceededIsTrue'
    BY DEF IInv, TypeOK, OperationOK, FileOK, StartOK, ExecOK, ProcOK, Holding,
           Exclusive, SucceededIsTrue, ExecBegin, ExecStep, worker, history,
           Final, Terminal, States, Written
<1>. QED
    BY <1>1, <1>2, <1>3, <1>4, <1>5, <1>6 DEF IInv

\* Admission fails: the operation fails without a start.
LEMMA AdmissionFailsKeeps ==
    ASSUME IInv, NEW o \in Ids, AdmissionFails(o)
    PROVE  IInv'
<1>1. TypeOK'
    BY ConstantsOK DEF IInv, TypeOK, AdmissionFails, ExecStep, FinishAs,
           SavedOrRecovery, worker, history, Final, Terminal, States
<1>2. ASSUME NEW x \in Ids PROVE OperationOK(x)'
    BY ConstantsOK DEF IInv, TypeOK, OperationOK, FileOK, StartOK, ExecOK,
           LeaseOK, KeyOK, ProcOK, Holding, OneOperationPerKey, AdmissionFails,
           ExecStep, FinishAs, SavedOrRecovery, worker, history, Final,
           Terminal, States, Written
<1>3. ASSUME NEW q \in Procs PROVE ProcOK(q)'
    BY ConstantsOK DEF IInv, TypeOK, OperationOK, FileOK, StartOK, ExecOK,
           LeaseOK, ProcOK, Holding, Exclusive, AdmissionFails, ExecStep,
           FinishAs, SavedOrRecovery, worker, history, Final, Terminal, States,
           Written
<1>4. Exclusive'
    BY DEF IInv, TypeOK, OperationOK, FileOK, ProcOK, Holding, Exclusive,
           AdmissionFails, ExecStep, FinishAs, SavedOrRecovery, worker,
           history, Final, Terminal, States, Written
<1>5. OneOperationPerKey'
  <2>1. key' = key /\ \A x \in Ids : disk'[x] # "absent" => disk[x] # "absent"
    BY DEF IInv, TypeOK, OperationOK, FileOK, ExecOK, AdmissionFails, ExecStep,
           FinishAs, SavedOrRecovery, worker, history, Final, Terminal, States,
           Written
  <2>. QED
    BY <2>1 DEF IInv, OneOperationPerKey
<1>6. SucceededIsTrue'
    BY DEF IInv, TypeOK, OperationOK, FileOK, StartOK, ExecOK, ProcOK, Holding,
           Exclusive, SucceededIsTrue, AdmissionFails, ExecStep, FinishAs,
           SavedOrRecovery, worker, history, Final, Terminal, States, Written
<1>. QED
    BY <1>1, <1>2, <1>3, <1>4, <1>5, <1>6 DEF IInv

\* RUNNING is written before the command is started.
LEMMA LaunchKeeps ==
    ASSUME IInv, NEW o \in Ids, Launch(o)
    PROVE  IInv'
<1>1. TypeOK'
    BY ConstantsOK DEF IInv, TypeOK, Launch, ExecStep, SavedOrRecovery, worker,
           history, Final, Terminal, States
<1>2. ASSUME NEW x \in Ids PROVE OperationOK(x)'
    BY ConstantsOK DEF IInv, TypeOK, OperationOK, FileOK, StartOK, ExecOK,
           LeaseOK, KeyOK, ProcOK, Holding, OneOperationPerKey, Launch,
           ExecStep, SavedOrRecovery, worker, history, Final, Terminal, States,
           Written
<1>3. ASSUME NEW q \in Procs PROVE ProcOK(q)'
    BY ConstantsOK DEF IInv, TypeOK, OperationOK, FileOK, StartOK, ExecOK,
           LeaseOK, ProcOK, Holding, Exclusive, Launch, ExecStep,
           SavedOrRecovery, worker, history, Final, Terminal, States, Written
<1>4. Exclusive'
    BY DEF IInv, TypeOK, OperationOK, FileOK, ProcOK, Holding, Exclusive,
           Launch, ExecStep, SavedOrRecovery, worker, history, Final, Terminal,
           States, Written
<1>5. OneOperationPerKey'
  <2>1. key' = key /\ \A x \in Ids : disk'[x] # "absent" => disk[x] # "absent"
    BY DEF IInv, TypeOK, OperationOK, FileOK, ExecOK, Launch, ExecStep,
           SavedOrRecovery, worker, history, Final, Terminal, States, Written
  <2>. QED
    BY <2>1 DEF IInv, OneOperationPerKey
<1>6. SucceededIsTrue'
    BY DEF IInv, TypeOK, OperationOK, FileOK, StartOK, ExecOK, ProcOK, Holding,
           Exclusive, SucceededIsTrue, Launch, ExecStep, SavedOrRecovery,
           worker, history, Final, Terminal, States, Written
<1>. QED
    BY <1>1, <1>2, <1>3, <1>4, <1>5, <1>6 DEF IInv

\* The command of a running raw operation is started, for the first time.
LEMMA StartChildKeeps ==
    ASSUME IInv, NEW o \in Ids, StartChild(o)
    PROVE  IInv'
<1>1. TypeOK'
    BY ConstantsOK DEF IInv, TypeOK, StartChild, ExecStep, worker, Final,
           Terminal, States
<1>2. ASSUME NEW x \in Ids PROVE OperationOK(x)'
    BY ConstantsOK DEF IInv, TypeOK, OperationOK, FileOK, StartOK, ExecOK,
           LeaseOK, KeyOK, ProcOK, Holding, OneOperationPerKey, StartChild,
           ExecStep, worker, Final, Terminal, States, Written
<1>3. ASSUME NEW q \in Procs PROVE ProcOK(q)'
    BY ConstantsOK DEF IInv, TypeOK, OperationOK, FileOK, StartOK, ExecOK,
           LeaseOK, ProcOK, Holding, Exclusive, StartChild, ExecStep, worker,
           Final, Terminal, States, Written
<1>4. Exclusive'
    BY DEF IInv, TypeOK, OperationOK, FileOK, ProcOK, Holding, Exclusive,
           StartChild, ExecStep, worker, Final, Terminal, States, Written
<1>5. OneOperationPerKey'
    BY ConstantsOK DEF IInv, TypeOK, OperationOK, FileOK, KeyOK,
           OneOperationPerKey, StartChild, ExecStep, worker, Final, Terminal,
           States, Written
<1>6. SucceededIsTrue'
    BY DEF IInv, TypeOK, OperationOK, FileOK, StartOK, ExecOK, ProcOK, Holding,
           Exclusive, SucceededIsTrue, StartChild, ExecStep, worker, Final,
           Terminal, States, Written
<1>. QED
    BY <1>1, <1>2, <1>3, <1>4, <1>5, <1>6 DEF IInv

\* The command ends and its outcome waits for finish.
LEMMA EndChildKeeps ==
    ASSUME IInv, NEW o \in Ids, EndChild(o)
    PROVE  IInv'
<1>1. TypeOK'
    BY ConstantsOK DEF IInv, TypeOK, EndChild, ExecStep, worker, Final,
           Terminal, States
<1>2. ASSUME NEW x \in Ids PROVE OperationOK(x)'
    BY ConstantsOK DEF IInv, TypeOK, OperationOK, FileOK, StartOK, ExecOK,
           LeaseOK, KeyOK, ProcOK, Holding, OneOperationPerKey, EndChild,
           ExecStep, worker, Final, Terminal, States, Written
<1>3. ASSUME NEW q \in Procs PROVE ProcOK(q)'
    BY ConstantsOK DEF IInv, TypeOK, OperationOK, FileOK, StartOK, ExecOK,
           LeaseOK, ProcOK, Holding, Exclusive, EndChild, ExecStep, worker,
           Final, Terminal, States, Written
<1>4. Exclusive'
    BY DEF IInv, TypeOK, OperationOK, FileOK, ProcOK, Holding, Exclusive,
           EndChild, ExecStep, worker, Final, Terminal, States, Written
<1>5. OneOperationPerKey'
    BY ConstantsOK DEF IInv, TypeOK, OperationOK, FileOK, KeyOK,
           OneOperationPerKey, EndChild, ExecStep, worker, Final, Terminal,
           States, Written
<1>6. SucceededIsTrue'
    BY DEF IInv, TypeOK, OperationOK, FileOK, StartOK, ExecOK, ProcOK, Holding,
           Exclusive, SucceededIsTrue, EndChild, ExecStep, worker, Final,
           Terminal, States, Written
<1>. QED
    BY <1>1, <1>2, <1>3, <1>4, <1>5, <1>6 DEF IInv

\* finish records the outcome unless the operation is cancelled already.
LEMMA FinishKeeps ==
    ASSUME IInv, NEW o \in Ids, Finish(o)
    PROVE  IInv'
<1>1. TypeOK'
    BY ConstantsOK DEF IInv, TypeOK, Finish, ExecStep, FinishAs,
           SavedOrRecovery, worker, history, Final, Terminal, States
<1>2. ASSUME NEW x \in Ids PROVE OperationOK(x)'
    BY ConstantsOK DEF IInv, TypeOK, OperationOK, FileOK, StartOK, ExecOK,
           LeaseOK, KeyOK, ProcOK, Holding, OneOperationPerKey, Finish,
           ExecStep, FinishAs, SavedOrRecovery, worker, history, Final,
           Terminal, States, Written
<1>3. ASSUME NEW q \in Procs PROVE ProcOK(q)'
    BY ConstantsOK DEF IInv, TypeOK, OperationOK, FileOK, StartOK, ExecOK,
           LeaseOK, ProcOK, Holding, Exclusive, Finish, ExecStep, FinishAs,
           SavedOrRecovery, worker, history, Final, Terminal, States, Written
<1>4. Exclusive'
    BY DEF IInv, TypeOK, OperationOK, FileOK, ProcOK, Holding, Exclusive,
           Finish, ExecStep, FinishAs, SavedOrRecovery, worker, history, Final,
           Terminal, States, Written
<1>5. OneOperationPerKey'
  <2>1. key' = key /\ \A x \in Ids : disk'[x] # "absent" => disk[x] # "absent"
    BY DEF IInv, TypeOK, OperationOK, FileOK, ExecOK, Finish, ExecStep,
           FinishAs, SavedOrRecovery, worker, history, Final, Terminal, States,
           Written
  <2>. QED
    BY <2>1 DEF IInv, OneOperationPerKey
<1>6. SucceededIsTrue'
    BY DEF IInv, TypeOK, OperationOK, FileOK, StartOK, ExecOK, ProcOK, Holding,
           Exclusive, SucceededIsTrue, Finish, ExecStep, FinishAs,
           SavedOrRecovery, worker, history, Final, Terminal, States, Written
<1>. QED
    BY <1>1, <1>2, <1>3, <1>4, <1>5, <1>6 DEF IInv

\* An operation whose lease ran out needs recovery.
LEMMA ReapKeeps ==
    ASSUME IInv, NEW o \in Ids, Reap(o)
    PROVE  IInv'
<1>1. TypeOK'
    BY ConstantsOK DEF IInv, TypeOK, Reap, SavedOrRecovery, worker, history,
           Final, Terminal, States
<1>2. ASSUME NEW x \in Ids PROVE OperationOK(x)'
    BY ConstantsOK DEF IInv, TypeOK, OperationOK, FileOK, StartOK, ExecOK,
           LeaseOK, KeyOK, ProcOK, Holding, OneOperationPerKey, Reap,
           SavedOrRecovery, worker, history, Final, Terminal, States, Written
<1>3. ASSUME NEW q \in Procs PROVE ProcOK(q)'
    BY ConstantsOK DEF IInv, TypeOK, OperationOK, FileOK, StartOK, ExecOK,
           LeaseOK, ProcOK, Holding, Exclusive, Reap, SavedOrRecovery, worker,
           history, Final, Terminal, States, Written
<1>4. Exclusive'
    BY DEF IInv, TypeOK, OperationOK, FileOK, ProcOK, Holding, Exclusive, Reap,
           SavedOrRecovery, worker, history, Final, Terminal, States, Written
<1>5. OneOperationPerKey'
  <2>1. key' = key /\ \A x \in Ids : disk'[x] # "absent" => disk[x] # "absent"
    BY DEF IInv, TypeOK, OperationOK, FileOK, ExecOK, Reap, SavedOrRecovery,
           worker, history, Final, Terminal, States, Written
  <2>. QED
    BY <2>1 DEF IInv, OneOperationPerKey
<1>6. SucceededIsTrue'
    BY DEF IInv, TypeOK, OperationOK, FileOK, StartOK, ExecOK, ProcOK, Holding,
           Exclusive, SucceededIsTrue, Reap, SavedOrRecovery, worker, history,
           Final, Terminal, States, Written
<1>. QED
    BY <1>1, <1>2, <1>3, <1>4, <1>5, <1>6 DEF IInv

\* A crash loses the memory, the goroutines and their commands, never a file.
LEMMA CrashKeeps ==
    ASSUME IInv, Crash
    PROVE  IInv'
<1>1. TypeOK'
  <2>1. crashes' \in 0..MaxCrashes
    BY ConstantsOK DEF IInv, TypeOK, Crash
  <2>. QED
    BY <2>1 DEF IInv, TypeOK, Crash, worker, history, Final, Terminal, States
<1>2. ASSUME NEW x \in Ids PROVE OperationOK(x)'
    BY ConstantsOK DEF IInv, TypeOK, OperationOK, FileOK, StartOK, ExecOK,
           LeaseOK, KeyOK, ProcOK, Holding, OneOperationPerKey, Crash, worker,
           history, Final, Terminal, States, Written
<1>3. ASSUME NEW q \in Procs PROVE ProcOK(q)'
    BY ConstantsOK DEF IInv, TypeOK, OperationOK, FileOK, StartOK, ExecOK,
           LeaseOK, ProcOK, Holding, Exclusive, Crash, worker, history, Final,
           Terminal, States, Written
<1>4. Exclusive'
    BY DEF IInv, TypeOK, OperationOK, FileOK, ProcOK, Holding, Exclusive,
           Crash, worker, history, Final, Terminal, States, Written
<1>5. OneOperationPerKey'
    BY ConstantsOK DEF IInv, TypeOK, OperationOK, FileOK, KeyOK,
           OneOperationPerKey, Crash, worker, history, Final, Terminal, States,
           Written
<1>6. SucceededIsTrue'
    BY DEF IInv, TypeOK, OperationOK, FileOK, StartOK, ExecOK, ProcOK, Holding,
           Exclusive, SucceededIsTrue, Crash, worker, history, Final, Terminal,
           States, Written
<1>. QED
    BY <1>1, <1>2, <1>3, <1>4, <1>5, <1>6 DEF IInv

\* A restart reads the files back and turns RUNNING into recovery-required.
LEMMA NewServiceKeeps ==
    ASSUME IInv, NewService
    PROVE  IInv'
<1>1. TypeOK'
    BY ConstantsOK DEF IInv, TypeOK, NewService, Reloaded, KeyIndex, worker,
           history, Final, Terminal, States
<1>2. ASSUME NEW x \in Ids PROVE OperationOK(x)'
    BY ConstantsOK DEF IInv, TypeOK, OperationOK, FileOK, StartOK, ExecOK,
           LeaseOK, KeyOK, ProcOK, Holding, OneOperationPerKey, NewService,
           Reloaded, KeyIndex, worker, history, Final, Terminal, States,
           Written
<1>3. ASSUME NEW q \in Procs PROVE ProcOK(q)'
    BY ConstantsOK DEF IInv, TypeOK, OperationOK, FileOK, StartOK, ExecOK,
           LeaseOK, ProcOK, Holding, Exclusive, NewService, Reloaded, KeyIndex,
           worker, history, Final, Terminal, States, Written
<1>4. Exclusive'
    BY DEF IInv, TypeOK, OperationOK, FileOK, ProcOK, Holding, Exclusive,
           NewService, Reloaded, KeyIndex, worker, history, Final, Terminal,
           States, Written
<1>5. OneOperationPerKey'
    BY ConstantsOK DEF IInv, TypeOK, OperationOK, FileOK, KeyOK,
           OneOperationPerKey, NewService, Reloaded, KeyIndex, worker, history,
           Final, Terminal, States, Written
<1>6. SucceededIsTrue'
    BY DEF IInv, TypeOK, OperationOK, FileOK, StartOK, ExecOK, ProcOK, Holding,
           Exclusive, SucceededIsTrue, NewService, Reloaded, KeyIndex, worker,
           history, Final, Terminal, States, Written
<1>. QED
    BY <1>1, <1>2, <1>3, <1>4, <1>5, <1>6 DEF IInv

\* A restart that cannot write stops with what it had written.
LEMMA NewServiceFailsKeeps ==
    ASSUME IInv, NewServiceFails
    PROVE  IInv'
<1>1. TypeOK'
    BY ConstantsOK DEF IInv, TypeOK, NewServiceFails, Reloaded, Fault, worker,
           history, Final, Terminal, States
<1>2. ASSUME NEW x \in Ids PROVE OperationOK(x)'
    BY ConstantsOK DEF IInv, TypeOK, OperationOK, FileOK, StartOK, ExecOK,
           LeaseOK, KeyOK, ProcOK, Holding, OneOperationPerKey,
           NewServiceFails, Reloaded, Fault, worker, history, Final, Terminal,
           States, Written
<1>3. ASSUME NEW q \in Procs PROVE ProcOK(q)'
    BY ConstantsOK DEF IInv, TypeOK, OperationOK, FileOK, StartOK, ExecOK,
           LeaseOK, ProcOK, Holding, Exclusive, NewServiceFails, Reloaded,
           Fault, worker, history, Final, Terminal, States, Written
<1>4. Exclusive'
    BY DEF IInv, TypeOK, OperationOK, FileOK, ProcOK, Holding, Exclusive,
           NewServiceFails, Reloaded, Fault, worker, history, Final, Terminal,
           States, Written
<1>5. OneOperationPerKey'
    BY ConstantsOK DEF IInv, TypeOK, OperationOK, FileOK, KeyOK,
           OneOperationPerKey, NewServiceFails, Reloaded, Fault, worker,
           history, Final, Terminal, States, Written
<1>6. SucceededIsTrue'
    BY DEF IInv, TypeOK, OperationOK, FileOK, StartOK, ExecOK, ProcOK, Holding,
           Exclusive, SucceededIsTrue, NewServiceFails, Reloaded, Fault,
           worker, history, Final, Terminal, States, Written
<1>. QED
    BY <1>1, <1>2, <1>3, <1>4, <1>5, <1>6 DEF IInv

\* A new generation takes over: what the old one ran needs recovery.
LEMMA RegisterWorkerKeeps ==
    ASSUME IInv, NEW p \in Procs, RegisterWorker(p)
    PROVE  IInv'
<1>1. TypeOK'
    BY ConstantsOK DEF IInv, TypeOK, RegisterWorker, RecoverWorker,
           RecoverWorkerFails, Held, Fault, Becomes, WorkerCall, history,
           Final, Terminal, States
<1>2. ASSUME NEW x \in Ids PROVE OperationOK(x)'
    BY ConstantsOK DEF IInv, TypeOK, OperationOK, FileOK, StartOK, ExecOK,
           LeaseOK, KeyOK, ProcOK, Holding, OneOperationPerKey, RegisterWorker,
           RecoverWorker, RecoverWorkerFails, Held, Fault, Becomes, WorkerCall,
           history, Final, Terminal, States, Written
<1>3. ASSUME NEW q \in Procs PROVE ProcOK(q)'
    BY ConstantsOK DEF IInv, TypeOK, OperationOK, FileOK, StartOK, ExecOK,
           LeaseOK, ProcOK, Holding, Exclusive, RegisterWorker, RecoverWorker,
           RecoverWorkerFails, Held, Fault, Becomes, WorkerCall, history,
           Final, Terminal, States, Written
<1>4. Exclusive'
    BY DEF IInv, TypeOK, OperationOK, FileOK, ProcOK, Holding, Exclusive,
           RegisterWorker, RecoverWorker, RecoverWorkerFails, Held, Fault,
           Becomes, WorkerCall, history, Final, Terminal, States, Written
<1>5. OneOperationPerKey'
    BY ConstantsOK DEF IInv, TypeOK, OperationOK, FileOK, KeyOK,
           OneOperationPerKey, RegisterWorker, RecoverWorker,
           RecoverWorkerFails, Held, Fault, Becomes, WorkerCall, history,
           Final, Terminal, States, Written
<1>6. SucceededIsTrue'
    BY DEF IInv, TypeOK, OperationOK, FileOK, StartOK, ExecOK, ProcOK, Holding,
           Exclusive, SucceededIsTrue, RegisterWorker, RecoverWorker,
           RecoverWorkerFails, Held, Fault, Becomes, WorkerCall, history,
           Final, Terminal, States, Written
<1>. QED
    BY <1>1, <1>2, <1>3, <1>4, <1>5, <1>6 DEF IInv

\* A queued operation is written as RUNNING and handed to one process.
LEMMA LeaseOperationKeeps ==
    ASSUME IInv, NEW p \in Procs, NEW o \in Ids, LeaseOperation(p, o)
    PROVE  IInv'
<1>1. TypeOK'
    BY ConstantsOK DEF IInv, TypeOK, LeaseOperation, Saved, RolledBack, Fault,
           Becomes, Current, WorkerCall, history, Final, Terminal, States
<1>2. ASSUME NEW x \in Ids PROVE OperationOK(x)'
    BY ConstantsOK DEF IInv, TypeOK, OperationOK, FileOK, StartOK, ExecOK,
           LeaseOK, KeyOK, ProcOK, Holding, OneOperationPerKey, LeaseOperation,
           Saved, RolledBack, Fault, Becomes, Current, WorkerCall, history,
           Final, Terminal, States, Written
<1>3. ASSUME NEW q \in Procs PROVE ProcOK(q)'
    BY ConstantsOK DEF IInv, TypeOK, OperationOK, FileOK, StartOK, ExecOK,
           LeaseOK, ProcOK, Holding, Exclusive, LeaseOperation, Saved,
           RolledBack, Fault, Becomes, Current, WorkerCall, history, Final,
           Terminal, States, Written
<1>4. Exclusive'
    BY DEF IInv, TypeOK, OperationOK, FileOK, ProcOK, Holding, Exclusive,
           LeaseOperation, Saved, RolledBack, Fault, Becomes, Current,
           WorkerCall, history, Final, Terminal, States, Written
<1>5. OneOperationPerKey'
    BY ConstantsOK DEF IInv, TypeOK, OperationOK, FileOK, KeyOK,
           OneOperationPerKey, LeaseOperation, Saved, RolledBack, Fault,
           Becomes, Current, WorkerCall, history, Final, Terminal, States,
           Written
<1>6. SucceededIsTrue'
    BY DEF IInv, TypeOK, OperationOK, FileOK, StartOK, ExecOK, ProcOK, Holding,
           Exclusive, SucceededIsTrue, LeaseOperation, Saved, RolledBack,
           Fault, Becomes, Current, WorkerCall, history, Final, Terminal,
           States, Written
<1>. QED
    BY <1>1, <1>2, <1>3, <1>4, <1>5, <1>6 DEF IInv

\* A report by the generation that holds the lease is recorded once.
LEMMA CompleteOperationKeeps ==
    ASSUME IInv, NEW p \in Procs, CompleteOperation(p)
    PROVE  IInv'
<1>1. TypeOK'
    BY ConstantsOK DEF IInv, TypeOK, CompleteOperation, Saved, RolledBack,
           Fault, Becomes, Current, Owns, WorkerCall, history, Final, Terminal,
           States
<1>2. ASSUME NEW x \in Ids PROVE OperationOK(x)'
    BY ConstantsOK DEF IInv, TypeOK, OperationOK, FileOK, StartOK, ExecOK,
           LeaseOK, KeyOK, ProcOK, Holding, OneOperationPerKey,
           CompleteOperation, Saved, RolledBack, Fault, Becomes, Current, Owns,
           WorkerCall, history, Final, Terminal, States, Written
<1>3. ASSUME NEW q \in Procs PROVE ProcOK(q)'
    BY ConstantsOK DEF IInv, TypeOK, OperationOK, FileOK, StartOK, ExecOK,
           LeaseOK, ProcOK, Holding, Exclusive, CompleteOperation, Saved,
           RolledBack, Fault, Becomes, Current, Owns, WorkerCall, history,
           Final, Terminal, States, Written
<1>4. Exclusive'
    BY DEF IInv, TypeOK, OperationOK, FileOK, ProcOK, Holding, Exclusive,
           CompleteOperation, Saved, RolledBack, Fault, Becomes, Current, Owns,
           WorkerCall, history, Final, Terminal, States, Written
<1>5. OneOperationPerKey'
    BY ConstantsOK DEF IInv, TypeOK, OperationOK, FileOK, KeyOK,
           OneOperationPerKey, CompleteOperation, Saved, RolledBack, Fault,
           Becomes, Current, Owns, WorkerCall, history, Final, Terminal,
           States, Written
<1>6. SucceededIsTrue'
    BY DEF IInv, TypeOK, OperationOK, FileOK, StartOK, ExecOK, ProcOK, Holding,
           Exclusive, SucceededIsTrue, CompleteOperation, Saved, RolledBack,
           Fault, Becomes, Current, Owns, WorkerCall, history, Final, Terminal,
           States, Written
<1>. QED
    BY <1>1, <1>2, <1>3, <1>4, <1>5, <1>6 DEF IInv

\* A worker that says good-bye leaves nothing running behind.
LEMMA DisconnectWorkerKeeps ==
    ASSUME IInv, NEW p \in Procs, DisconnectWorker(p)
    PROVE  IInv'
<1>1. TypeOK'
    BY ConstantsOK DEF IInv, TypeOK, DisconnectWorker, RecoverWorker,
           RecoverWorkerFails, Held, Fault, Becomes, Off, Current, WorkerCall,
           history, Final, Terminal, States
<1>2. ASSUME NEW x \in Ids PROVE OperationOK(x)'
    BY ConstantsOK DEF IInv, TypeOK, OperationOK, FileOK, StartOK, ExecOK,
           LeaseOK, KeyOK, ProcOK, Holding, OneOperationPerKey,
           DisconnectWorker, RecoverWorker, RecoverWorkerFails, Held, Fault,
           Becomes, Off, Current, WorkerCall, history, Final, Terminal, States,
           Written
<1>3. ASSUME NEW q \in Procs PROVE ProcOK(q)'
    BY ConstantsOK DEF IInv, TypeOK, OperationOK, FileOK, StartOK, ExecOK,
           LeaseOK, ProcOK, Holding, Exclusive, DisconnectWorker,
           RecoverWorker, RecoverWorkerFails, Held, Fault, Becomes, Off,
           Current, WorkerCall, history, Final, Terminal, States, Written
<1>4. Exclusive'
    BY DEF IInv, TypeOK, OperationOK, FileOK, ProcOK, Holding, Exclusive,
           DisconnectWorker, RecoverWorker, RecoverWorkerFails, Held, Fault,
           Becomes, Off, Current, WorkerCall, history, Final, Terminal, States,
           Written
<1>5. OneOperationPerKey'
    BY ConstantsOK DEF IInv, TypeOK, OperationOK, FileOK, KeyOK,
           OneOperationPerKey, DisconnectWorker, RecoverWorker,
           RecoverWorkerFails, Held, Fault, Becomes, Off, Current, WorkerCall,
           history, Final, Terminal, States, Written
<1>6. SucceededIsTrue'
    BY DEF IInv, TypeOK, OperationOK, FileOK, StartOK, ExecOK, ProcOK, Holding,
           Exclusive, SucceededIsTrue, DisconnectWorker, RecoverWorker,
           RecoverWorkerFails, Held, Fault, Becomes, Off, Current, WorkerCall,
           history, Final, Terminal, States, Written
<1>. QED
    BY <1>1, <1>2, <1>3, <1>4, <1>5, <1>6 DEF IInv

\* A process whose generation was replaced gives up.
LEMMA TurnedAwayKeeps ==
    ASSUME IInv, NEW p \in Procs, TurnedAway(p)
    PROVE  IInv'
<1>1. TypeOK'
    BY ConstantsOK DEF IInv, TypeOK, TurnedAway, Becomes, Local, service,
           history, Final, Terminal, States
<1>2. ASSUME NEW x \in Ids PROVE OperationOK(x)'
    BY ConstantsOK DEF IInv, TypeOK, OperationOK, FileOK, StartOK, ExecOK,
           LeaseOK, KeyOK, ProcOK, Holding, OneOperationPerKey, TurnedAway,
           Becomes, Local, service, history, Final, Terminal, States, Written
<1>3. ASSUME NEW q \in Procs PROVE ProcOK(q)'
    BY ConstantsOK DEF IInv, TypeOK, OperationOK, FileOK, StartOK, ExecOK,
           LeaseOK, ProcOK, Holding, Exclusive, TurnedAway, Becomes, Local,
           service, history, Final, Terminal, States, Written
<1>4. Exclusive'
    BY DEF IInv, TypeOK, OperationOK, FileOK, ProcOK, Holding, Exclusive,
           TurnedAway, Becomes, Local, service, history, Final, Terminal,
           States, Written
<1>5. OneOperationPerKey'
    BY ConstantsOK DEF IInv, TypeOK, OperationOK, FileOK, KeyOK,
           OneOperationPerKey, TurnedAway, Becomes, Local, service, history,
           Final, Terminal, States, Written
<1>6. SucceededIsTrue'
    BY DEF IInv, TypeOK, OperationOK, FileOK, StartOK, ExecOK, ProcOK, Holding,
           Exclusive, SucceededIsTrue, TurnedAway, Becomes, Local, service,
           history, Final, Terminal, States, Written
<1>. QED
    BY <1>1, <1>2, <1>3, <1>4, <1>5, <1>6 DEF IInv

\* A process refuses a task it was handed and reports the failure.
LEMMA RefuseTaskKeeps ==
    ASSUME IInv, NEW p \in Procs, RefuseTask(p)
    PROVE  IInv'
<1>1. TypeOK'
    BY ConstantsOK DEF IInv, TypeOK, ProcOK, Holding, RefuseTask, Fault,
           Becomes, Local, service, Final, Terminal, States, Written
<1>2. ASSUME NEW x \in Ids PROVE OperationOK(x)'
    BY ConstantsOK DEF IInv, TypeOK, OperationOK, FileOK, StartOK, ExecOK,
           LeaseOK, KeyOK, ProcOK, Holding, OneOperationPerKey, RefuseTask,
           Fault, Becomes, Local, service, Final, Terminal, States, Written
<1>3. ASSUME NEW q \in Procs PROVE ProcOK(q)'
    BY ConstantsOK DEF IInv, TypeOK, OperationOK, FileOK, StartOK, ExecOK,
           LeaseOK, ProcOK, Holding, Exclusive, RefuseTask, Fault, Becomes,
           Local, service, Final, Terminal, States, Written
<1>4. Exclusive'
    BY DEF IInv, TypeOK, OperationOK, FileOK, ProcOK, Holding, Exclusive,
           RefuseTask, Fault, Becomes, Local, service, Final, Terminal, States,
           Written
<1>5. OneOperationPerKey'
    BY ConstantsOK DEF IInv, TypeOK, OperationOK, FileOK, KeyOK,
           OneOperationPerKey, RefuseTask, Fault, Becomes, Local, service,
           Final, Terminal, States, Written
<1>6. SucceededIsTrue'
    BY DEF IInv, TypeOK, OperationOK, FileOK, StartOK, ExecOK, ProcOK, Holding,
           Exclusive, SucceededIsTrue, RefuseTask, Fault, Becomes, Local,
           service, Final, Terminal, States, Written
<1>. QED
    BY <1>1, <1>2, <1>3, <1>4, <1>5, <1>6 DEF IInv

\* A process starts the command it was handed, for the first time.
LEMMA StartTaskKeeps ==
    ASSUME IInv, NEW p \in Procs, StartTask(p)
    PROVE  IInv'
<1>1. TypeOK'
    BY ConstantsOK DEF IInv, TypeOK, ProcOK, Holding, StartTask, Becomes,
           Local, service, Final, Terminal, States, Written
<1>2. ASSUME NEW x \in Ids PROVE OperationOK(x)'
    BY ConstantsOK DEF IInv, TypeOK, OperationOK, FileOK, StartOK, ExecOK,
           LeaseOK, KeyOK, ProcOK, Holding, OneOperationPerKey, StartTask,
           Becomes, Local, service, Final, Terminal, States, Written
<1>3. ASSUME NEW q \in Procs PROVE ProcOK(q)'
    BY ConstantsOK DEF IInv, TypeOK, OperationOK, FileOK, StartOK, ExecOK,
           LeaseOK, ProcOK, Holding, Exclusive, StartTask, Becomes, Local,
           service, Final, Terminal, States, Written
<1>4. Exclusive'
    BY DEF IInv, TypeOK, OperationOK, FileOK, ProcOK, Holding, Exclusive,
           StartTask, Becomes, Local, service, Final, Terminal, States, Written
<1>5. OneOperationPerKey'
    BY ConstantsOK DEF IInv, TypeOK, OperationOK, FileOK, KeyOK,
           OneOperationPerKey, StartTask, Becomes, Local, service, Final,
           Terminal, States, Written
<1>6. SucceededIsTrue'
    BY DEF IInv, TypeOK, OperationOK, FileOK, StartOK, ExecOK, ProcOK, Holding,
           Exclusive, SucceededIsTrue, StartTask, Becomes, Local, service,
           Final, Terminal, States, Written
<1>. QED
    BY <1>1, <1>2, <1>3, <1>4, <1>5, <1>6 DEF IInv

\* A refused heartbeat makes the process stop its command.
LEMMA HeartbeatRefusedKeeps ==
    ASSUME IInv, NEW p \in Procs, HeartbeatRefused(p)
    PROVE  IInv'
<1>1. TypeOK'
    BY ConstantsOK DEF IInv, TypeOK, HeartbeatRefused, Abandon, Becomes, Local,
           service, history, Final, Terminal, States
<1>2. ASSUME NEW x \in Ids PROVE OperationOK(x)'
    BY ConstantsOK DEF IInv, TypeOK, OperationOK, FileOK, StartOK, ExecOK,
           LeaseOK, KeyOK, ProcOK, Holding, OneOperationPerKey,
           HeartbeatRefused, Abandon, Becomes, Local, service, history, Final,
           Terminal, States, Written
<1>3. ASSUME NEW q \in Procs PROVE ProcOK(q)'
    BY ConstantsOK DEF IInv, TypeOK, OperationOK, FileOK, StartOK, ExecOK,
           LeaseOK, ProcOK, Holding, Exclusive, HeartbeatRefused, Abandon,
           Becomes, Local, service, history, Final, Terminal, States, Written
<1>4. Exclusive'
    BY DEF IInv, TypeOK, OperationOK, FileOK, ProcOK, Holding, Exclusive,
           HeartbeatRefused, Abandon, Becomes, Local, service, history, Final,
           Terminal, States, Written
<1>5. OneOperationPerKey'
    BY ConstantsOK DEF IInv, TypeOK, OperationOK, FileOK, KeyOK,
           OneOperationPerKey, HeartbeatRefused, Abandon, Becomes, Local,
           service, history, Final, Terminal, States, Written
<1>6. SucceededIsTrue'
    BY DEF IInv, TypeOK, OperationOK, FileOK, StartOK, ExecOK, ProcOK, Holding,
           Exclusive, SucceededIsTrue, HeartbeatRefused, Abandon, Becomes,
           Local, service, history, Final, Terminal, States, Written
<1>. QED
    BY <1>1, <1>2, <1>3, <1>4, <1>5, <1>6 DEF IInv

\* A process that is interrupted stops its command.
LEMMA InterruptedKeeps ==
    ASSUME IInv, NEW p \in Procs, Interrupted(p)
    PROVE  IInv'
<1>1. TypeOK'
    BY ConstantsOK DEF IInv, TypeOK, Interrupted, Fault, Abandon, Becomes,
           Local, service, history, Final, Terminal, States
<1>2. ASSUME NEW x \in Ids PROVE OperationOK(x)'
    BY ConstantsOK DEF IInv, TypeOK, OperationOK, FileOK, StartOK, ExecOK,
           LeaseOK, KeyOK, ProcOK, Holding, OneOperationPerKey, Interrupted,
           Fault, Abandon, Becomes, Local, service, history, Final, Terminal,
           States, Written
<1>3. ASSUME NEW q \in Procs PROVE ProcOK(q)'
    BY ConstantsOK DEF IInv, TypeOK, OperationOK, FileOK, StartOK, ExecOK,
           LeaseOK, ProcOK, Holding, Exclusive, Interrupted, Fault, Abandon,
           Becomes, Local, service, history, Final, Terminal, States, Written
<1>4. Exclusive'
    BY DEF IInv, TypeOK, OperationOK, FileOK, ProcOK, Holding, Exclusive,
           Interrupted, Fault, Abandon, Becomes, Local, service, history,
           Final, Terminal, States, Written
<1>5. OneOperationPerKey'
    BY ConstantsOK DEF IInv, TypeOK, OperationOK, FileOK, KeyOK,
           OneOperationPerKey, Interrupted, Fault, Abandon, Becomes, Local,
           service, history, Final, Terminal, States, Written
<1>6. SucceededIsTrue'
    BY DEF IInv, TypeOK, OperationOK, FileOK, StartOK, ExecOK, ProcOK, Holding,
           Exclusive, SucceededIsTrue, Interrupted, Fault, Abandon, Becomes,
           Local, service, history, Final, Terminal, States, Written
<1>. QED
    BY <1>1, <1>2, <1>3, <1>4, <1>5, <1>6 DEF IInv

\* The command of a process ends and its outcome waits to be reported.
LEMMA EndTaskKeeps ==
    ASSUME IInv, NEW p \in Procs, EndTask(p)
    PROVE  IInv'
<1>1. TypeOK'
    BY ConstantsOK DEF IInv, TypeOK, ProcOK, Holding, EndTask, Becomes, Local,
           service, Final, Terminal, States, Written
<1>2. ASSUME NEW x \in Ids PROVE OperationOK(x)'
    BY ConstantsOK DEF IInv, TypeOK, OperationOK, FileOK, StartOK, ExecOK,
           LeaseOK, KeyOK, ProcOK, Holding, OneOperationPerKey, EndTask,
           Becomes, Local, service, Final, Terminal, States, Written
<1>3. ASSUME NEW q \in Procs PROVE ProcOK(q)'
    BY ConstantsOK DEF IInv, TypeOK, OperationOK, FileOK, StartOK, ExecOK,
           LeaseOK, ProcOK, Holding, Exclusive, EndTask, Becomes, Local,
           service, Final, Terminal, States, Written
<1>4. Exclusive'
    BY DEF IInv, TypeOK, OperationOK, FileOK, ProcOK, Holding, Exclusive,
           EndTask, Becomes, Local, service, Final, Terminal, States, Written
<1>5. OneOperationPerKey'
    BY ConstantsOK DEF IInv, TypeOK, OperationOK, FileOK, KeyOK,
           OneOperationPerKey, EndTask, Becomes, Local, service, Final,
           Terminal, States, Written
<1>6. SucceededIsTrue'
    BY DEF IInv, TypeOK, OperationOK, FileOK, StartOK, ExecOK, ProcOK, Holding,
           Exclusive, SucceededIsTrue, EndTask, Becomes, Local, service, Final,
           Terminal, States, Written
<1>. QED
    BY <1>1, <1>2, <1>3, <1>4, <1>5, <1>6 DEF IInv

\* A stopping process has ended its command.
LEMMA StopTaskKeeps ==
    ASSUME IInv, NEW p \in Procs, StopTask(p)
    PROVE  IInv'
<1>1. TypeOK'
    BY ConstantsOK DEF IInv, TypeOK, ProcOK, Holding, StopTask, Becomes, Local,
           service, Final, Terminal, States, Written
<1>2. ASSUME NEW x \in Ids PROVE OperationOK(x)'
    BY ConstantsOK DEF IInv, TypeOK, OperationOK, FileOK, StartOK, ExecOK,
           LeaseOK, KeyOK, ProcOK, Holding, OneOperationPerKey, StopTask,
           Becomes, Local, service, Final, Terminal, States, Written
<1>3. ASSUME NEW q \in Procs PROVE ProcOK(q)'
    BY ConstantsOK DEF IInv, TypeOK, OperationOK, FileOK, StartOK, ExecOK,
           LeaseOK, ProcOK, Holding, Exclusive, StopTask, Becomes, Local,
           service, Final, Terminal, States, Written
<1>4. Exclusive'
    BY DEF IInv, TypeOK, OperationOK, FileOK, ProcOK, Holding, Exclusive,
           StopTask, Becomes, Local, service, Final, Terminal, States, Written
<1>5. OneOperationPerKey'
    BY ConstantsOK DEF IInv, TypeOK, OperationOK, FileOK, KeyOK,
           OneOperationPerKey, StopTask, Becomes, Local, service, Final,
           Terminal, States, Written
<1>6. SucceededIsTrue'
    BY DEF IInv, TypeOK, OperationOK, FileOK, StartOK, ExecOK, ProcOK, Holding,
           Exclusive, SucceededIsTrue, StopTask, Becomes, Local, service,
           Final, Terminal, States, Written
<1>. QED
    BY <1>1, <1>2, <1>3, <1>4, <1>5, <1>6 DEF IInv

\* A process that dies leaves the files as they are.
LEMMA WorkerDiesKeeps ==
    ASSUME IInv, NEW p \in Procs, WorkerDies(p)
    PROVE  IInv'
<1>1. TypeOK'
    BY ConstantsOK DEF IInv, TypeOK, WorkerDies, Fault, Becomes, Off, service,
           history, Final, Terminal, States
<1>2. ASSUME NEW x \in Ids PROVE OperationOK(x)'
    BY ConstantsOK DEF IInv, TypeOK, OperationOK, FileOK, StartOK, ExecOK,
           LeaseOK, KeyOK, ProcOK, Holding, OneOperationPerKey, WorkerDies,
           Fault, Becomes, Off, service, history, Final, Terminal, States,
           Written
<1>3. ASSUME NEW q \in Procs PROVE ProcOK(q)'
    BY ConstantsOK DEF IInv, TypeOK, OperationOK, FileOK, StartOK, ExecOK,
           LeaseOK, ProcOK, Holding, Exclusive, WorkerDies, Fault, Becomes,
           Off, service, history, Final, Terminal, States, Written
<1>4. Exclusive'
    BY DEF IInv, TypeOK, OperationOK, FileOK, ProcOK, Holding, Exclusive,
           WorkerDies, Fault, Becomes, Off, service, history, Final, Terminal,
           States, Written
<1>5. OneOperationPerKey'
    BY ConstantsOK DEF IInv, TypeOK, OperationOK, FileOK, KeyOK,
           OneOperationPerKey, WorkerDies, Fault, Becomes, Off, service,
           history, Final, Terminal, States, Written
<1>6. SucceededIsTrue'
    BY DEF IInv, TypeOK, OperationOK, FileOK, StartOK, ExecOK, ProcOK, Holding,
           Exclusive, SucceededIsTrue, WorkerDies, Fault, Becomes, Off,
           service, history, Final, Terminal, States, Written
<1>. QED
    BY <1>1, <1>2, <1>3, <1>4, <1>5, <1>6 DEF IInv

-----------------------------------------------------------------------------
\* The service starts with no operation and no worker.
LEMMA InitOK == Init => IInv
<1>. SUFFICES ASSUME Init PROVE IInv
    OBVIOUS
<1>1. TypeOK
    BY ConstantsOK DEF Init, TypeOK, Final, Terminal, States
<1>2. ASSUME NEW o \in Ids PROVE OperationOK(o)
    BY DEF Init, OperationOK, FileOK, StartOK, ExecOK, LeaseOK, KeyOK, Final,
           Written
<1>3. /\ \A p \in Procs : ProcOK(p)
      /\ Exclusive
      /\ OneOperationPerKey
      /\ SucceededIsTrue
    BY DEF Init, ProcOK, Exclusive, Holding, OneOperationPerKey,
           SucceededIsTrue
<1>. QED
    BY <1>1, <1>2, <1>3 DEF IInv

\* A step that changes no variable keeps every part.
LEMMA StutterKeeps ==
    ASSUME IInv, UNCHANGED vars
    PROVE  IInv'
    BY DEF IInv, vars, service, worker, history, TypeOK, OperationOK, FileOK,
           StartOK, ExecOK, LeaseOK, KeyOK, ProcOK, Holding, Exclusive,
           OneOperationPerKey, SucceededIsTrue

\* The invariant is inductive.
LEMMA NextKeeps == IInv /\ [Next]_vars => IInv'
<1>. SUFFICES ASSUME IInv, Next PROVE IInv'
    BY StutterKeeps
<1>1. CASE \E o \in Ids, k \in Keys \cup {None} : SubmitOperation(o, k)
    BY <1>1, SubmitOperationKeeps
<1>2. ASSUME NEW o \in Ids,
             \/ CancelOperation(o) \/ ExecBegin(o) \/ AdmissionFails(o) \/ Launch(o)
             \/ StartChild(o) \/ EndChild(o) \/ Finish(o) \/ Reap(o)
      PROVE  IInv'
    BY <1>2, CancelOperationKeeps, ExecBeginKeeps, AdmissionFailsKeeps,
           LaunchKeeps, StartChildKeeps, EndChildKeeps, FinishKeeps, ReapKeeps
<1>3. CASE Crash \/ NewService \/ NewServiceFails
    BY <1>3, CrashKeeps, NewServiceKeeps, NewServiceFailsKeeps
<1>4. ASSUME NEW p \in Procs,
             \/ RegisterWorker(p) \/ \E o \in Ids : LeaseOperation(p, o)
             \/ CompleteOperation(p) \/ DisconnectWorker(p)
      PROVE  IInv'
    BY <1>4, RegisterWorkerKeeps, LeaseOperationKeeps, CompleteOperationKeeps,
           DisconnectWorkerKeeps
<1>5. ASSUME NEW p \in Procs,
             \/ TurnedAway(p) \/ RefuseTask(p) \/ StartTask(p) \/ HeartbeatRefused(p)
             \/ Interrupted(p) \/ EndTask(p) \/ StopTask(p) \/ WorkerDies(p)
      PROVE  IInv'
    BY <1>5, TurnedAwayKeeps, RefuseTaskKeeps, StartTaskKeeps,
           HeartbeatRefusedKeeps, InterruptedKeeps, EndTaskKeeps,
           StopTaskKeeps, WorkerDiesKeeps
<1>. QED
    BY <1>1, <1>2, <1>3, <1>4, <1>5 DEF Next

\* IInv holds in every state of every behaviour of the service and its workers.
THEOREM Inductive == Spec => []IInv
    BY InitOK, NextKeeps, PTL DEF Spec

\* Every variable keeps its type: a file, an index or a process never holds a
\* value the service would not recognise.
THEOREM OperationsTypeCorrect == Spec => []TypeOK
<1>1. IInv => TypeOK
    BY DEF IInv
<1>. QED
    BY <1>1, Inductive, PTL

\* execute and assignLocked write RUNNING before anybody starts the command, and
\* nothing makes a file queued again, so no command is started twice.
THEOREM CommandsStartOnce == Spec => []StartedOnce
<1>1. ASSUME IInv, NEW o \in Ids PROVE starts[o] <= 1
  <2>1. starts[o] \in {0, 1}
    BY <1>1 DEF IInv, OperationOK, StartOK
  <2>. QED
    BY <2>1
<1>2. IInv => StartedOnce
    BY <1>1 DEF StartedOnce
<1>. QED
    BY <1>2, Inductive, PTL

\* SubmitOperation looks the key up in an index that NewService rebuilds from the
\* files, so a key never gets a second operation.
THEOREM KeysNeverShared == Spec => []OneOperationPerKey
<1>1. IInv => OneOperationPerKey
    BY DEF IInv
<1>. QED
    BY <1>1, Inductive, PTL

\* A success is recorded by finish or CompleteOperation for a command that was
\* started and ended well, and stays true afterwards.
THEOREM SuccessIsAlwaysTrue == Spec => []SucceededIsTrue
<1>1. IInv => SucceededIsTrue
    BY DEF IInv
<1>. QED
    BY <1>1, Inductive, PTL

\* RegisterWorker and DisconnectWorker leave nothing running under the generation
\* they replace, even when they fail half-way.
THEOREM OldGenerationsNeverHold == Spec => []OldGenerationsHoldNothing
<1>1. IInv => OldGenerationsHoldNothing
    BY DEF IInv, OperationOK, LeaseOK, OldGenerationsHoldNothing
<1>. QED
    BY <1>1, Inductive, PTL

\* No step of a state in the invariant changes a state that was reported as final.
LEMMA StepIsFinal ==
    ASSUME IInv, Next, NEW x \in Ids, mem[x] \in Terminal, disk[x] # "queued"
    PROVE  mem'[x] = mem[x]
<1>1. ASSUME NEW o \in Ids, NEW k \in Keys \cup {None}, SubmitOperation(o, k)
      PROVE  mem'[x] = mem[x]
    BY <1>1 DEF IInv, TypeOK, OperationOK, FileOK, ExecOK, ProcOK, Holding,
           Final, Terminal, Written, SubmitOperation, Saved, RolledBack, Fault,
           worker, history
<1>2. ASSUME NEW o \in Ids, CancelOperation(o)
      PROVE  mem'[x] = mem[x]
    BY <1>2 DEF IInv, TypeOK, OperationOK, FileOK, ExecOK, ProcOK, Holding,
           Final, Terminal, Written, CancelOperation, Saved, RolledBack, Fault,
           worker, history
<1>3. ASSUME NEW o \in Ids, ExecBegin(o)
      PROVE  mem'[x] = mem[x]
    BY <1>3 DEF IInv, TypeOK, OperationOK, FileOK, ExecOK, ProcOK, Holding,
           Final, Terminal, Written, ExecBegin, ExecStep, worker, history
<1>4. ASSUME NEW o \in Ids, AdmissionFails(o)
      PROVE  mem'[x] = mem[x]
    BY <1>4 DEF IInv, TypeOK, OperationOK, FileOK, ExecOK, ProcOK, Holding,
           Final, Terminal, Written, AdmissionFails, ExecStep, FinishAs,
           SavedOrRecovery, worker, history
<1>5. ASSUME NEW o \in Ids, Launch(o)
      PROVE  mem'[x] = mem[x]
    BY <1>5 DEF IInv, TypeOK, OperationOK, FileOK, ExecOK, ProcOK, Holding,
           Final, Terminal, Written, Launch, ExecStep, SavedOrRecovery, worker,
           history
<1>6. ASSUME NEW o \in Ids, StartChild(o)
      PROVE  mem'[x] = mem[x]
    BY <1>6 DEF IInv, TypeOK, OperationOK, FileOK, ExecOK, ProcOK, Holding,
           Final, Terminal, Written, StartChild, ExecStep, worker
<1>7. ASSUME NEW o \in Ids, EndChild(o)
      PROVE  mem'[x] = mem[x]
    BY <1>7 DEF IInv, TypeOK, OperationOK, FileOK, ExecOK, ProcOK, Holding,
           Final, Terminal, Written, EndChild, ExecStep, worker
<1>8. ASSUME NEW o \in Ids, Finish(o)
      PROVE  mem'[x] = mem[x]
    BY <1>8 DEF IInv, TypeOK, OperationOK, FileOK, ExecOK, ProcOK, Holding,
           Final, Terminal, Written, Finish, ExecStep, FinishAs,
           SavedOrRecovery, worker, history
<1>9. ASSUME NEW o \in Ids, Reap(o)
      PROVE  mem'[x] = mem[x]
    BY <1>9 DEF IInv, TypeOK, OperationOK, FileOK, ExecOK, ProcOK, Holding,
           Final, Terminal, Written, Reap, SavedOrRecovery, worker, history
<1>10. CASE Crash
    BY <1>10 DEF IInv, TypeOK, OperationOK, FileOK, ExecOK, ProcOK, Holding,
           Final, Terminal, Written, Crash, worker, history
<1>11. CASE NewService
    BY <1>11 DEF IInv, TypeOK, OperationOK, FileOK, ExecOK, ProcOK, Holding,
           Final, Terminal, Written, NewService, Reloaded, KeyIndex, worker,
           history
<1>12. CASE NewServiceFails
    BY <1>12 DEF IInv, TypeOK, OperationOK, FileOK, ExecOK, ProcOK, Holding,
           Final, Terminal, Written, NewServiceFails, Reloaded, Fault, worker,
           history
<1>13. ASSUME NEW p \in Procs, RegisterWorker(p)
      PROVE  mem'[x] = mem[x]
    BY <1>13 DEF IInv, TypeOK, OperationOK, FileOK, ExecOK, ProcOK, Holding,
           Final, Terminal, Written, RegisterWorker, RecoverWorker,
           RecoverWorkerFails, Held, Fault, Becomes, WorkerCall, history
<1>14. ASSUME NEW p \in Procs, NEW o \in Ids, LeaseOperation(p, o)
      PROVE  mem'[x] = mem[x]
    BY <1>14 DEF IInv, TypeOK, OperationOK, FileOK, ExecOK, ProcOK, Holding,
           Final, Terminal, Written, LeaseOperation, Saved, RolledBack, Fault,
           Becomes, Current, WorkerCall, history
<1>15. ASSUME NEW p \in Procs, CompleteOperation(p)
      PROVE  mem'[x] = mem[x]
    BY <1>15 DEF IInv, TypeOK, OperationOK, FileOK, ExecOK, ProcOK, Holding,
           Final, Terminal, Written, CompleteOperation, Saved, RolledBack,
           Fault, Becomes, Current, Owns, WorkerCall, history
<1>16. ASSUME NEW p \in Procs, DisconnectWorker(p)
      PROVE  mem'[x] = mem[x]
    BY <1>16 DEF IInv, TypeOK, OperationOK, FileOK, ExecOK, ProcOK, Holding,
           Final, Terminal, Written, DisconnectWorker, RecoverWorker,
           RecoverWorkerFails, Held, Fault, Becomes, Off, Current, WorkerCall,
           history
<1>17. ASSUME NEW p \in Procs, TurnedAway(p)
      PROVE  mem'[x] = mem[x]
    BY <1>17 DEF IInv, TypeOK, OperationOK, FileOK, ExecOK, ProcOK, Holding,
           Final, Terminal, Written, TurnedAway, Becomes, Local, service,
           history
<1>18. ASSUME NEW p \in Procs, RefuseTask(p)
      PROVE  mem'[x] = mem[x]
    BY <1>18 DEF IInv, TypeOK, OperationOK, FileOK, ExecOK, ProcOK, Holding,
           Final, Terminal, Written, RefuseTask, Fault, Becomes, Local, service
<1>19. ASSUME NEW p \in Procs, StartTask(p)
      PROVE  mem'[x] = mem[x]
    BY <1>19 DEF IInv, TypeOK, OperationOK, FileOK, ExecOK, ProcOK, Holding,
           Final, Terminal, Written, StartTask, Becomes, Local, service
<1>20. ASSUME NEW p \in Procs, HeartbeatRefused(p)
      PROVE  mem'[x] = mem[x]
    BY <1>20 DEF IInv, TypeOK, OperationOK, FileOK, ExecOK, ProcOK, Holding,
           Final, Terminal, Written, HeartbeatRefused, Abandon, Becomes, Local,
           service, history
<1>21. ASSUME NEW p \in Procs, Interrupted(p)
      PROVE  mem'[x] = mem[x]
    BY <1>21 DEF IInv, TypeOK, OperationOK, FileOK, ExecOK, ProcOK, Holding,
           Final, Terminal, Written, Interrupted, Fault, Abandon, Becomes,
           Local, service, history
<1>22. ASSUME NEW p \in Procs, EndTask(p)
      PROVE  mem'[x] = mem[x]
    BY <1>22 DEF IInv, TypeOK, OperationOK, FileOK, ExecOK, ProcOK, Holding,
           Final, Terminal, Written, EndTask, Becomes, Local, service
<1>23. ASSUME NEW p \in Procs, StopTask(p)
      PROVE  mem'[x] = mem[x]
    BY <1>23 DEF IInv, TypeOK, OperationOK, FileOK, ExecOK, ProcOK, Holding,
           Final, Terminal, Written, StopTask, Becomes, Local, service
<1>24. ASSUME NEW p \in Procs, WorkerDies(p)
      PROVE  mem'[x] = mem[x]
    BY <1>24 DEF IInv, TypeOK, OperationOK, FileOK, ExecOK, ProcOK, Holding,
           Final, Terminal, Written, WorkerDies, Fault, Becomes, Off, service,
           history
<1>. QED
    BY <1>1, <1>2, <1>3, <1>4, <1>5, <1>6, <1>7, <1>8, <1>9, <1>10, <1>11,
           <1>12, <1>13, <1>14, <1>15, <1>16, <1>17, <1>18, <1>19, <1>20,
           <1>21, <1>22, <1>23, <1>24 DEF Next

\* Terminal states are final: no handler but a reload touches a terminal operation,
\* and a reload finds it in its file or finds RUNNING, which it turns into
\* recovery-required.
THEOREM TerminalStatesAreFinal == Spec => TerminalIsFinal
<1>1. IInv /\ [Next]_vars =>
         [\A o \in Ids : mem[o] \in Terminal /\ disk[o] # "queued" => mem'[o] = mem[o]]_vars
    BY StepIsFinal
<1>. QED
    BY <1>1, Inductive, PTL DEF Spec, TerminalIsFinal

-----------------------------------------------------------------------------
(* The life of an operation, as callers see it. *)

\* A result is known of launched operations only, and not before the command
\* has ended or was refused; what failed has a bad one.  While the daemon is down
\* the file of an operation that ran is not queued.
ResultOK(o) ==
    /\ outcome[o] # "none" => disk[o] \in Written
    /\ disk[o] = "failed" => outcome[o] = "bad"
    /\ exec[o] \in {"launch", "child"} => outcome[o] = "none"
    /\ exec[o] = "finish" => outcome[o] # "none"
    /\ Mode[o] = "worker" /\ mem[o] = "queued" => disk[o] = "queued"
    /\ mem[o] = "running" => disk[o] \in {"running", "recovery"}

TaskOK(p) ==
    /\ pc[p] \in {"assigned", "running", "stopping"} => outcome[task[p]] = "none"
    /\ pc[p] = "report" => outcome[task[p]] # "none"

ResultInv == (\A o \in Ids : ResultOK(o)) /\ (\A p \in Procs : TaskOK(p))

LEMMA ResultInit == Init => ResultInv
    BY DEF Init, ResultInv, ResultOK, TaskOK

LEMMA ResultStep == IInv /\ ResultInv /\ [Next]_vars => ResultInv'
<1>. SUFFICES ASSUME IInv, ResultInv, [Next]_vars PROVE ResultInv'
    OBVIOUS
<1>. USE ConstantsOK DEF IInv, TypeOK, OperationOK, FileOK, ExecOK, ProcOK, Exclusive, Holding,
             ResultInv, ResultOK, TaskOK, Written, Final
<1>1. ASSUME NEW o \in Ids, NEW k \in Keys \cup {None}, SubmitOperation(o, k) PROVE ResultInv'
    BY <1>1 DEF SubmitOperation, Saved, RolledBack, worker, history
<1>2. ASSUME NEW o \in Ids, CancelOperation(o) PROVE ResultInv'
    BY <1>2 DEF CancelOperation, Saved, RolledBack, Fault, worker, history
<1>3. ASSUME NEW o \in Ids, ExecBegin(o) PROVE ResultInv'
    BY <1>3 DEF ExecBegin, ExecStep, worker, history
<1>4. ASSUME NEW o \in Ids, AdmissionFails(o) PROVE ResultInv'
    BY <1>4 DEF AdmissionFails, ExecStep, FinishAs, SavedOrRecovery, worker, history
<1>5. ASSUME NEW o \in Ids, Launch(o) PROVE ResultInv'
    BY <1>5 DEF Launch, ExecStep, SavedOrRecovery, worker, history
<1>6. ASSUME NEW o \in Ids, StartChild(o) PROVE ResultInv'
    BY <1>6 DEF StartChild, ExecStep, worker
<1>7. ASSUME NEW o \in Ids, EndChild(o) PROVE ResultInv'
    BY <1>7 DEF EndChild, ExecStep, worker
<1>8. ASSUME NEW o \in Ids, Finish(o) PROVE ResultInv'
    BY <1>8 DEF Finish, ExecStep, FinishAs, SavedOrRecovery, worker, history
<1>9. ASSUME NEW o \in Ids, Reap(o) PROVE ResultInv'
    BY <1>9 DEF Reap, SavedOrRecovery, worker, history
<1>10. CASE Crash
    BY <1>10 DEF Crash, worker, history
<1>11. CASE NewService
    BY <1>11 DEF NewService, Reloaded, worker, history
<1>12. CASE NewServiceFails
    BY <1>12 DEF NewServiceFails, Reloaded, Fault, worker, history
<1>13. ASSUME NEW p \in Procs, NEW o \in Ids, LeaseOperation(p, o) PROVE ResultInv'
    BY <1>13 DEF LeaseOperation, Saved, RolledBack, Becomes, Current, WorkerCall, history
<1>14. ASSUME NEW p \in Procs, RegisterWorker(p) PROVE ResultInv'
    BY <1>14 DEF RegisterWorker, RecoverWorker, RecoverWorkerFails, Held, Becomes, WorkerCall, history
<1>15. ASSUME NEW p \in Procs, CompleteOperation(p) PROVE ResultInv'
    BY <1>15 DEF CompleteOperation, Saved, RolledBack, Becomes, Current, Owns, WorkerCall, history
<1>16. ASSUME NEW p \in Procs, DisconnectWorker(p) PROVE ResultInv'
    BY <1>16 DEF DisconnectWorker, RecoverWorker, RecoverWorkerFails, Held, Becomes, Off, Current,
                 WorkerCall, history
<1>17. ASSUME NEW p \in Procs, TurnedAway(p) PROVE ResultInv'
    BY <1>17 DEF TurnedAway, Becomes, Local, service, history
<1>18. ASSUME NEW p \in Procs, RefuseTask(p) PROVE ResultInv'
    BY <1>18 DEF RefuseTask, Becomes, Local, service
<1>19. ASSUME NEW p \in Procs, StartTask(p) PROVE ResultInv'
    BY <1>19 DEF StartTask, Becomes, Local, service
<1>20. ASSUME NEW p \in Procs, HeartbeatRefused(p) PROVE ResultInv'
    BY <1>20 DEF HeartbeatRefused, Abandon, Becomes, Local, service, history
<1>21. ASSUME NEW p \in Procs, Interrupted(p) PROVE ResultInv'
    BY <1>21 DEF Interrupted, Abandon, Becomes, Local, service, history
<1>22. ASSUME NEW p \in Procs, EndTask(p) PROVE ResultInv'
    BY <1>22 DEF EndTask, Becomes, Local, service
<1>23. ASSUME NEW p \in Procs, StopTask(p) PROVE ResultInv'
    BY <1>23 DEF StopTask, Becomes, Local, service
<1>24. ASSUME NEW p \in Procs, WorkerDies(p) PROVE ResultInv'
    BY <1>24 DEF WorkerDies, Becomes, Off, service, history
<1>25. CASE UNCHANGED vars
    BY <1>25 DEF vars, service, worker, history
<1>. QED
    BY <1>1, <1>2, <1>3, <1>4, <1>5, <1>6, <1>7, <1>8, <1>9, <1>10, <1>11,
       <1>12, <1>13, <1>14, <1>15, <1>16, <1>17, <1>18, <1>19, <1>20, <1>21,
       <1>22, <1>23, <1>24, <1>25 DEF Next

\* A step of the service or of a worker is one step in the life of one operation,
\* or the loss of what a worker or the daemon had in hand.
LEMMA LifeStep ==
    IInv /\ ResultInv /\ [Next]_vars => [Lifecycle!Next]_<<mem, starts, outcome>>
<1>. SUFFICES ASSUME IInv, ResultInv, [Next]_vars
              PROVE  Lifecycle!Next \/ UNCHANGED <<mem, starts, outcome>>
    OBVIOUS
<1>t. /\ mem \in [Ids -> States] /\ disk \in [Ids -> States] /\ starts \in [Ids -> Nat]
      /\ outcome \in [Ids -> {"none", "ok", "bad"}]
    BY DEF IInv, TypeOK
<1>o. \A o \in Ids : OperationOK(o) /\ ResultOK(o)
    BY DEF IInv, ResultInv
<1>p. \A p \in Procs : ProcOK(p) /\ TaskOK(p)
    BY DEF IInv, ResultInv
<1>s. ASSUME NEW o \in Ids, Lifecycle!Submit(o) \/ Lifecycle!Launch(o) \/ Lifecycle!Start(o) \/ Lifecycle!Settle(o)
      PROVE  Lifecycle!Next
    BY <1>s DEF Lifecycle!Next
<1>e. ASSUME NEW o \in Ids, NEW r \in {"ok", "bad"}, Lifecycle!End(o, r) PROVE Lifecycle!Next
    BY <1>e DEF Lifecycle!Next
<1>1. CASE \/ Crash \/ NewServiceFails \/ UNCHANGED vars \/ (\E o \in Ids : ExecBegin(o))
           \/ \E p \in Procs : TurnedAway(p) \/ HeartbeatRefused(p) \/ Interrupted(p) \/ WorkerDies(p)
    BY <1>1 DEF Crash, NewServiceFails, vars, ExecBegin, TurnedAway, HeartbeatRefused, Interrupted,
                WorkerDies, Local, service, history
<1>2. ASSUME NEW o \in Ids, NEW k \in Keys \cup {None}, SubmitOperation(o, k)
      PROVE  Lifecycle!Next \/ UNCHANGED <<mem, starts, outcome>>
    BY <1>2, <1>s DEF SubmitOperation, Saved, RolledBack, history, Lifecycle!Submit
<1>3. ASSUME NEW o \in Ids, NEW s \in Terminal, mem[o] \in {"queued", "running"}, mem' = [mem EXCEPT ![o] = s],
             \/ s \in {"cancelled", "recovery"}
             \/ s = "succeeded" /\ starts[o] = 1 /\ outcome[o] = "ok"
             \/ s = "failed" /\ mem[o] = "running" /\ outcome[o] = "bad",
             UNCHANGED history
      PROVE  Lifecycle!Next
    BY <1>3, <1>s DEF history, Lifecycle!Settle, Lifecycle!Ends
<1>4. ASSUME NEW o \in Ids, CancelOperation(o)
      PROVE  Lifecycle!Next \/ UNCHANGED <<mem, starts, outcome>>
  <2>1. CASE Saved(o, "cancelled")
    <3>1. /\ mem[o] \in {"queued", "running"} /\ mem' = [mem EXCEPT ![o] = "cancelled"]
          /\ UNCHANGED history /\ "cancelled" \in Terminal
      BY <1>4, <2>1 DEF CancelOperation, Saved, Terminal, Final
    <3>. QED
      BY <1>3, <3>1
  <2>. QED
    BY <1>4, <2>1 DEF CancelOperation, RolledBack, history
<1>5. ASSUME NEW o \in Ids, AdmissionFails(o)
      PROVE  Lifecycle!Next \/ UNCHANGED <<mem, starts, outcome>>
  <2>1. mem[o] \in {"queued", "cancelled"} /\ UNCHANGED history
    BY <1>5, <1>o DEF AdmissionFails, ExecStep, FinishAs, OperationOK, ExecOK
  <2>2. CASE mem[o] = "queued"
    <3>1. mem' = [mem EXCEPT ![o] = "cancelled"] \/ mem' = [mem EXCEPT ![o] = "recovery"]
      BY <1>5, <2>2 DEF AdmissionFails, FinishAs, SavedOrRecovery
    <3>2. {"cancelled", "recovery"} \subseteq Terminal
      BY DEF Terminal, Final
    <3>. QED
      BY <1>3, <2>1, <2>2, <3>1, <3>2
  <2>. QED
    BY <1>5, <2>1, <2>2 DEF AdmissionFails, FinishAs, history
<1>6. ASSUME NEW o \in Ids, Launch(o)
      PROVE  Lifecycle!Next \/ UNCHANGED <<mem, starts, outcome>>
  <2>1. CASE mem[o] = "queued"
    <3>1. /\ mem' = [mem EXCEPT ![o] = "running"] \/ mem' = [mem EXCEPT ![o] = "recovery"]
          /\ UNCHANGED history
      BY <1>6, <2>1 DEF Launch, SavedOrRecovery
    <3>2. CASE mem' = [mem EXCEPT ![o] = "running"]
      BY <1>s, <2>1, <3>1, <3>2 DEF Lifecycle!Launch, history
    <3>3. "recovery" \in Terminal
      BY DEF Terminal
    <3>. QED
      BY <1>3, <2>1, <3>1, <3>2, <3>3
  <2>. QED
    BY <1>6, <2>1 DEF Launch, history
<1>7. ASSUME NEW o \in Ids, StartChild(o) PROVE Lifecycle!Next
  <2>1. /\ mem[o] \in {"running", "cancelled"} /\ starts[o] = 0 /\ outcome[o] = "none" /\ mem' = mem
        /\ \/ outcome' = [outcome EXCEPT ![o] = "bad"] /\ UNCHANGED starts
           \/ starts' = [starts EXCEPT ![o] = @ + 1] /\ UNCHANGED outcome
    BY <1>7, <1>o DEF StartChild, ExecStep, OperationOK, ExecOK, ResultOK
  <2>2. CASE outcome' = [outcome EXCEPT ![o] = "bad"] /\ UNCHANGED starts
    BY <1>e, <2>1, <2>2 DEF Lifecycle!End
  <2>3. CASE starts' = [starts EXCEPT ![o] = @ + 1] /\ UNCHANGED outcome
    <3>1. starts' = [starts EXCEPT ![o] = 1]
      BY <1>t, <2>1, <2>3
    <3>. QED
      BY <1>s, <2>1, <2>3, <3>1 DEF Lifecycle!Start
  <2>. QED
    BY <2>1, <2>2, <2>3
<1>8. ASSUME NEW o \in Ids, EndChild(o) PROVE Lifecycle!Next
  <2>1. PICK r \in {"ok", "bad"} : outcome' = [outcome EXCEPT ![o] = r]
    BY <1>8 DEF EndChild
  <2>2. outcome[o] = "none" /\ starts[o] = 1 /\ UNCHANGED <<mem, starts>>
    BY <1>8, <1>o DEF EndChild, ExecStep, OperationOK, ExecOK, ResultOK
  <2>. QED
    BY <1>e, <2>1, <2>2 DEF Lifecycle!End
<1>9. ASSUME NEW o \in Ids, Finish(o)
      PROVE  Lifecycle!Next \/ UNCHANGED <<mem, starts, outcome>>
  <2>1. /\ mem[o] \in {"running", "cancelled"} /\ UNCHANGED history
        /\ outcome[o] = "bad" \/ (outcome[o] = "ok" /\ starts[o] = 1)
    BY <1>9, <1>o, <1>t DEF Finish, ExecStep, FinishAs, OperationOK, ExecOK, ResultOK
  <2>2. CASE mem[o] = "running"
    <3>1. \/ mem' = [mem EXCEPT ![o] = IF outcome[o] = "ok" THEN "succeeded" ELSE "failed"]
          \/ mem' = [mem EXCEPT ![o] = "recovery"]
      BY <1>9, <2>2 DEF Finish, FinishAs, SavedOrRecovery
    <3>2. {"succeeded", "failed", "recovery"} \subseteq Terminal
      BY DEF Terminal, Final
    <3>. QED
      BY <1>3, <2>1, <2>2, <3>1, <3>2
  <2>. QED
    BY <1>9, <2>1, <2>2 DEF Finish, FinishAs, history
<1>10. ASSUME NEW o \in Ids, Reap(o) PROVE Lifecycle!Next
  <2>1. mem[o] = "running" /\ mem' = [mem EXCEPT ![o] = "recovery"] /\ UNCHANGED history
        /\ "recovery" \in Terminal
    BY <1>10 DEF Reap, SavedOrRecovery, Terminal
  <2>. QED
    BY <1>3, <2>1
<1>11. ASSUME NEW lost \in SUBSET Ids, \A o \in lost : mem[o] \in {"queued", "running"},
              mem' = [o \in Ids |-> IF o \in lost THEN "recovery" ELSE mem[o]], UNCHANGED history
       PROVE  Lifecycle!Next
  <2>1. Lifecycle!Recover(lost, {})
    BY <1>11 DEF Lifecycle!Recover, history
  <2>. QED
    BY <2>1 DEF Lifecycle!Next
<1>12. CASE NewService
  <2> DEFINE lost == {o \in Ids : mem'[o] = "recovery" /\ mem[o] # "recovery"}
             unlaunched == {o \in Ids : mem'[o] = "queued" /\ mem[o] = "recovery"}
  <2>1. PICK revoked \in SUBSET Ids : mem' = Reloaded(revoked)
    BY <1>12 DEF NewService
  <2>2. UNCHANGED <<starts, outcome>>
    BY <1>12 DEF NewService, history
  <2>3. ASSUME NEW o \in Ids
        PROVE  /\ o \in lost => mem[o] \in {"queued", "running"}
               /\ o \in unlaunched => starts[o] = 0 /\ outcome[o] = "none"
               /\ o \notin lost \cup unlaunched => mem'[o] = mem[o]
    <3>1. /\ FileOK(o) /\ mem[o] \in States /\ disk[o] \in States
          /\ mem[o] = "running" => disk[o] \in {"running", "recovery"}
          /\ disk[o] = "queued" => starts[o] = 0 /\ outcome[o] = "none"
      BY <1>o, <1>t DEF OperationOK, StartOK, ResultOK, Written
    <3>2. \/ disk[o] \in {"running", "queued"} /\ mem'[o] = "recovery"
          \/ disk[o] # "running" /\ mem'[o] = disk[o]
      BY <2>1 DEF Reloaded
    <3>. QED
      BY <3>1, <3>2 DEF FileOK, States, Terminal, Final
  <2>4. mem' = [o \in Ids |-> IF o \in lost THEN "recovery"
                              ELSE IF o \in unlaunched THEN "queued" ELSE mem[o]]
    BY <2>1, <2>3 DEF Reloaded
  <2>5. Lifecycle!Recover(lost, unlaunched)
    BY <2>2, <2>3, <2>4 DEF Lifecycle!Recover
  <2>. QED
    BY <2>5 DEF Lifecycle!Next
<1>13. ASSUME NEW p \in Procs, RegisterWorker(p) \/ DisconnectWorker(p)
       PROVE  Lifecycle!Next \/ UNCHANGED <<mem, starts, outcome>>
  <2>1. UNCHANGED history /\ (RecoverWorker \/ RecoverWorkerFails \/ UNCHANGED mem)
    BY <1>13 DEF RegisterWorker, DisconnectWorker
  <2>2. CASE RecoverWorker
    BY <1>11, <2>1, <2>2 DEF RecoverWorker, Held
  <2>3. CASE RecoverWorkerFails
    <3>1. PICK o \in Held, done \in SUBSET Held :
             mem' = [x \in Ids |-> IF x \in done \cup {o} THEN "recovery" ELSE mem[x]]
      BY <2>3 DEF RecoverWorkerFails
    <3>2. done \cup {o} \in SUBSET Ids /\ \A x \in done \cup {o} : mem[x] \in {"queued", "running"}
      BY DEF Held
    <3>. QED
      BY <1>11, <2>1, <3>1, <3>2
  <2>. QED
    BY <2>1, <2>2, <2>3 DEF history
<1>14. ASSUME NEW p \in Procs, NEW o \in Ids, LeaseOperation(p, o)
       PROVE  Lifecycle!Next \/ UNCHANGED <<mem, starts, outcome>>
    BY <1>14, <1>s DEF LeaseOperation, Saved, RolledBack, history, Lifecycle!Launch
<1>15. ASSUME NEW p \in Procs, CompleteOperation(p)
       PROVE  Lifecycle!Next \/ UNCHANGED <<mem, starts, outcome>>
  <2>1. CASE Owns(p) /\ Saved(task[p], IF outcome[task[p]] = "ok" THEN "succeeded" ELSE "failed")
    <3>1. /\ task[p] \in Ids /\ mem[task[p]] = "running" /\ UNCHANGED history
          /\ outcome[task[p]] = "bad" \/ (outcome[task[p]] = "ok" /\ starts[task[p]] = 1)
      BY <1>15, <1>p, <1>t, <2>1 DEF CompleteOperation, Owns, ProcOK, TaskOK, Holding
    <3>2. /\ mem' = [mem EXCEPT ![task[p]] = IF outcome[task[p]] = "ok" THEN "succeeded" ELSE "failed"]
          /\ {"succeeded", "failed"} \subseteq Terminal
      BY <2>1 DEF Saved, Terminal, Final
    <3>. QED
      BY <1>3, <3>1, <3>2
  <2>. QED
    BY <1>15, <2>1 DEF CompleteOperation, RolledBack, history
<1>16. ASSUME NEW p \in Procs, RefuseTask(p) \/ EndTask(p) \/ StopTask(p) PROVE Lifecycle!Next
  <2>1. /\ task[p] \in Ids /\ outcome[task[p]] = "none" /\ UNCHANGED <<mem, starts>>
        /\ RefuseTask(p) \/ starts[task[p]] = 1
    BY <1>16, <1>p DEF RefuseTask, EndTask, StopTask, Local, service, ProcOK, TaskOK, Holding
  <2>2. PICK r \in {"ok", "bad"} :
           outcome' = [outcome EXCEPT ![task[p]] = r] /\ (starts[task[p]] = 1 \/ r = "bad")
    BY <1>16, <2>1 DEF RefuseTask, EndTask, StopTask
  <2>. QED
    BY <1>e, <2>1, <2>2 DEF Lifecycle!End
<1>17. ASSUME NEW p \in Procs, StartTask(p) PROVE Lifecycle!Next
  <2>1. /\ task[p] \in Ids /\ Mode[task[p]] = "worker" /\ disk[task[p]] \in Written \ {"succeeded"}
        /\ starts[task[p]] = 0 /\ outcome[task[p]] = "none"
    BY <1>17, <1>p DEF StartTask, ProcOK, TaskOK, Holding
  <2>2. mem[task[p]] \in {"running", "cancelled", "recovery"}
    BY <2>1, <1>o, <1>t DEF OperationOK, FileOK, ResultOK, Written, States, Terminal, Final
  <2>3. starts' = [starts EXCEPT ![task[p]] = 1] /\ UNCHANGED <<mem, outcome>>
    BY <1>17, <1>t, <2>1 DEF StartTask, Local, service
  <2>. QED
    BY <1>s, <2>1, <2>2, <2>3 DEF Lifecycle!Start
<1>. QED
    BY <1>1, <1>2, <1>4, <1>5, <1>6, <1>7, <1>8, <1>9, <1>10, <1>12, <1>13,
       <1>14, <1>15, <1>16, <1>17 DEF Next

\* Every behaviour of the daemon and its workers is, for its callers, a life of
\* each operation: one start at most and none while it is queued, one result, a
\* true end; and only a launch of which no trace was written is
\* taken back by a restart (execute, finish, NewService, recoverWorkerLocked).
THEOREM OperationsHaveOneLife == Spec => OneLife
<1>1. Init => Lifecycle!Init
    BY DEF Init, Lifecycle!Init
<1>. QED
    BY <1>1, Inductive, ResultInit, ResultStep, LifeStep, PTL DEF Spec, OneLife, Lifecycle!Spec
=============================================================================
