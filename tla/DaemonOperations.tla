-------------------------- MODULE DaemonOperations --------------------------
(***************************************************************************)
(* The durable operation queue of the daemon (internal/daemon/service.go,  *)
(* worker.go) and the worker processes that execute what it leases to them *)
(* (internal/workerrun).                                                   *)
(*                                                                         *)
(* An operation is a file written before its state is told to anybody.  A  *)
(* "raw" operation is executed by a goroutine of the daemon, a "worker"    *)
(* operation is leased to the worker it names: here one stable worker id,  *)
(* which any process of Procs may connect under, each connection with a    *)
(* generation of its own.  Handlers run under Service.mu, so each is one   *)
(* action; a persist inside it may fail.  A worker's call may get lost     *)
(* before or after it is served; the worker then disconnects and connects  *)
(* anew, it never repeats a call.                                          *)
(*                                                                         *)
(* Time is left out: a lease expires 20 s after the last heartbeat, that   *)
(* is, when nobody renews it, or when its holder is held up.  Which queued *)
(* operation a worker gets (CPU units, permitted roots, submission time)   *)
(* is left open.                                                           *)
(***************************************************************************)
EXTENDS Naturals

CONSTANTS Ids,          \* operation ids
          Mode,         \* per operation: the ExecutionMode it is submitted with
          Keys,         \* idempotency keys
          None,         \* no key, no operation
          Procs,        \* processes that connect under the worker id
          MaxGen,       \* bound on the number of worker generations
          MaxFaults,    \* bound on failed writes, lost calls and worker deaths
          MaxCrashes    \* bound on the number of times the daemon dies

ASSUME ConstantsOK ==
    /\ None \notin Ids \cup Keys
    /\ Mode \in [Ids -> {"raw", "worker"}]
    /\ MaxGen \in Nat /\ MaxFaults \in Nat /\ MaxCrashes \in Nat

VARIABLES
    up,         \* the daemon is running
    mem,        \* per operation: its state as the service last reported it
    disk,       \* per operation: its state in its file
    key,        \* per operation: IdempotencyKey
    byKey,      \* Service.byKey
    lease,      \* per operation: WorkerGeneration it was leased to
    registered, \* generation of the registered worker, 0 when there is none
    lastGen,    \* generations handed out so far
    exec,       \* per operation: where its goroutine execute is
    pc,         \* per process: where it is in Connect
    gen,        \* per process: the generation it registered
    task,       \* per process: the operation assigned to it
    starts,     \* history: how often the operation's command was started
    outcome,    \* history: how the command ended
    faults, crashes

service == <<up, mem, disk, key, byKey, lease, registered, lastGen, exec, crashes>>
worker == <<pc, gen, task>>
history == <<starts, outcome>>
vars == <<service, worker, history, faults>>

Final == {"succeeded", "failed", "cancelled"}
Terminal == Final \cup {"recovery"}
States == Terminal \cup {"absent", "queued", "running"}

TypeOK ==
    /\ up \in BOOLEAN
    /\ mem \in [Ids -> States] /\ disk \in [Ids -> States]
    /\ key \in [Ids -> Keys \cup {None}]
    /\ byKey \in [Keys -> Ids \cup {None}]
    /\ lease \in [Ids -> Nat] /\ registered \in Nat /\ lastGen \in Nat
    /\ exec \in [Ids -> {"none", "spawned", "admit", "launch", "child", "finish"}]
    /\ pc \in [Procs -> {"off", "ready", "assigned", "running", "stopping", "report", "leave"}]
    /\ gen \in [Procs -> Nat]
    /\ task \in [Procs -> Ids \cup {None}]
    /\ starts \in [Ids -> Nat]
    /\ outcome \in [Ids -> {"none", "ok", "bad"}]
    /\ faults \in 0..MaxFaults /\ crashes \in 0..MaxCrashes

Init ==
    /\ up = TRUE
    /\ mem = [o \in Ids |-> "absent"] /\ disk = mem
    /\ key = [o \in Ids |-> None]
    /\ byKey = [k \in Keys |-> None]
    /\ lease = [o \in Ids |-> 0] /\ registered = 0 /\ lastGen = 0
    /\ exec = [o \in Ids |-> "none"]
    /\ pc = [p \in Procs |-> "off"]
    /\ gen = [p \in Procs |-> 0]
    /\ task = [p \in Procs |-> None]
    /\ starts = [o \in Ids |-> 0]
    /\ outcome = [o \in Ids |-> "none"]
    /\ faults = 0 /\ crashes = 0

-----------------------------------------------------------------------------
(* Writing operation files: the rename at the end makes it all or nothing. *)

Fault == faults < MaxFaults /\ faults' = faults + 1

\* Mutant: an assignment is not written before the worker gets it.
SavedUnlessRunning(o, s) ==
    /\ mem' = [mem EXCEPT ![o] = s]
    /\ disk' = IF s = "running" THEN disk ELSE [disk EXCEPT ![o] = s]

Saved(o, s) ==
    /\ mem' = [mem EXCEPT ![o] = s]
    /\ disk' = [disk EXCEPT ![o] = s]

\* A failed write is undone in memory and reported.
RolledBack == Fault /\ UNCHANGED <<mem, disk>>

\* A failed write is not undone: the operation becomes recovery-required, and
\* that is written if the second write succeeds (markPersistenceFailureLocked).
\* n counts the faults of the step that are not failed writes.
SavedOrRecovery(o, s, n) ==
    \E failed \in 0..2 :
        /\ faults + n + failed <= MaxFaults
        /\ faults' = faults + n + failed
        /\ mem' = [mem EXCEPT ![o] = IF failed = 0 THEN s ELSE "recovery"]
        /\ disk' = IF failed = 2 THEN disk ELSE [disk EXCEPT ![o] = mem'[o]]

-----------------------------------------------------------------------------
(* Callers. *)

\* A key that is known returns its operation or is refused: nothing changes.
SubmitOperation(o, k) ==
    /\ up
    /\ mem[o] = "absent"
    /\ k # None => byKey[k] = None
    /\ \/ /\ Saved(o, "queued")
          /\ key' = [key EXCEPT ![o] = k]
          /\ byKey' = IF k = None THEN byKey ELSE [byKey EXCEPT ![k] = o]
          /\ exec' = IF Mode[o] = "raw" THEN [exec EXCEPT ![o] = "spawned"] ELSE exec
          /\ UNCHANGED faults
       \/ RolledBack /\ UNCHANGED <<key, byKey, exec>>
    /\ UNCHANGED <<up, lease, registered, lastGen, crashes, worker, history>>

\* The context of a running goroutine is cancelled with the state.
CancelOperation(o) ==
    /\ up
    /\ mem[o] \in {"queued", "running"}
    /\ \/ Saved(o, "cancelled") /\ UNCHANGED faults
       \/ RolledBack
    /\ UNCHANGED <<up, key, byKey, lease, registered, lastGen, exec, crashes,
                   worker, history>>

-----------------------------------------------------------------------------
(* The goroutine that executes a raw operation. *)

ExecStep(o, from) ==
    /\ up
    /\ exec[o] = from
    /\ UNCHANGED <<up, key, byKey, lease, registered, lastGen, crashes, worker>>

ExecBegin(o) ==
    /\ ExecStep(o, "spawned")
    /\ exec' = [exec EXCEPT ![o] = IF mem[o] = "queued" THEN "admit" ELSE "none"]
    /\ UNCHANGED <<mem, disk, faults, history>>

\* Mutant: the result of the command overwrites a cancel.
FinishAnyway(o, s, n) ==
    /\ exec' = [exec EXCEPT ![o] = "none"]
    /\ SavedOrRecovery(o, s, n)
    /\ UNCHANGED history

\* finish: a cancelled operation stays cancelled.
FinishAs(o, s, n) ==
    /\ exec' = [exec EXCEPT ![o] = "none"]
    /\ IF mem[o] = "cancelled"
         THEN faults + n <= MaxFaults /\ faults' = faults + n /\ UNCHANGED <<mem, disk>>
         ELSE SavedOrRecovery(o, s, n)
    /\ UNCHANGED history

\* runqueue.Admit returns an error: the context was cancelled, or it failed.
AdmissionFails(o) ==
    /\ ExecStep(o, "admit")
    /\ FinishAs(o, "cancelled", IF mem[o] = "cancelled" THEN 0 ELSE 1)

\* Admitted.  The policy is read again before the launch (failAuthorization).
Launch(o) ==
    /\ ExecStep(o, "admit")
    /\ \/ /\ mem[o] = "queued"
          /\ \E authorized \in BOOLEAN :
                 SavedOrRecovery(o, IF authorized THEN "running" ELSE "recovery", 0)
          /\ exec' = [exec EXCEPT ![o] = IF mem'[o] = "running" THEN "launch" ELSE "none"]
       \/ /\ mem[o] # "queued"
          /\ exec' = [exec EXCEPT ![o] = "none"]
          /\ UNCHANGED <<mem, disk, faults>>
    /\ UNCHANGED history

\* child.Run does not start a command whose context is cancelled.
StartChild(o) ==
    /\ ExecStep(o, "launch")
    /\ IF mem[o] = "cancelled"
         THEN /\ exec' = [exec EXCEPT ![o] = "finish"]
              /\ outcome' = [outcome EXCEPT ![o] = "bad"]
              /\ UNCHANGED starts
         ELSE /\ exec' = [exec EXCEPT ![o] = "child"]
              /\ starts' = [starts EXCEPT ![o] = @ + 1]
              /\ UNCHANGED outcome
    /\ UNCHANGED <<mem, disk, faults>>

EndChild(o) ==
    /\ ExecStep(o, "child")
    /\ exec' = [exec EXCEPT ![o] = "finish"]
    /\ \E r \in {"ok", "bad"} : outcome' = [outcome EXCEPT ![o] = r]
    /\ UNCHANGED <<mem, disk, faults, starts>>

Finish(o) ==
    /\ ExecStep(o, "finish")
    /\ FinishAs(o, IF outcome[o] = "ok" THEN "succeeded" ELSE "failed", 0)

-----------------------------------------------------------------------------
(* The daemon dies and is started again. *)

Crash ==
    /\ up
    /\ crashes < MaxCrashes
    /\ crashes' = crashes + 1
    /\ up' = FALSE
    /\ exec' = [o \in Ids |-> "none"]
    /\ registered' = 0
    /\ UNCHANGED <<mem, disk, key, byKey, lease, lastGen, worker, history, faults>>

\* Mutant: what was running when the daemon died is queued again.
RunningResumed(revoked) ==
    [o \in Ids |->
        IF disk[o] = "queued" /\ Mode[o] = "raw" /\ o \in revoked THEN "recovery"
        ELSE IF disk[o] = "running" THEN "queued" ELSE disk[o]]

\* What NewService makes of the files when it is not authorized to resume the
\* raw operations of revoked.
Reloaded(revoked) ==
    [o \in Ids |->
        IF disk[o] = "running" \/ (disk[o] = "queued" /\ Mode[o] = "raw" /\ o \in revoked)
        THEN "recovery" ELSE disk[o]]

\* Mutant: the index is not rebuilt from the files.
KeysForgotten == [k \in Keys |-> None]

KeyIndex == [k \in Keys |->
                IF \E o \in Ids : disk[o] # "absent" /\ key[o] = k
                THEN CHOOSE o \in Ids : disk[o] # "absent" /\ key[o] = k
                ELSE None]

NewService ==
    /\ ~up
    /\ up' = TRUE
    /\ \E revoked \in SUBSET Ids :
           mem' = Reloaded(revoked) /\ disk' = Reloaded(revoked)
    /\ byKey' = KeyIndex
    /\ exec' = [o \in Ids |->
                   IF mem'[o] = "queued" /\ Mode[o] = "raw" THEN "spawned" ELSE "none"]
    /\ UNCHANGED <<key, lease, registered, lastGen, crashes, worker, history, faults>>

\* A file cannot be rewritten: the daemon does not start, the files it came to
\* before are rewritten.
NewServiceFails ==
    /\ ~up
    /\ Fault
    /\ \E revoked, done \in SUBSET Ids :
           /\ \E o \in Ids \ done : Reloaded(revoked)[o] # disk[o]
           /\ disk' = [o \in Ids |-> IF o \in done THEN Reloaded(revoked)[o] ELSE disk[o]]
    /\ UNCHANGED <<up, mem, key, byKey, lease, registered, lastGen, exec, crashes,
                   worker, history>>

-----------------------------------------------------------------------------
(* Worker calls, as the service serves them. *)

\* The operations of the registered generation.
Held == {o \in Ids : registered # 0 /\ mem[o] = "running" /\ lease[o] = registered}

\* Mutant: the operations of the previous generation stay running.
RecoverNothing == UNCHANGED <<mem, disk>>

\* recoverWorkerLocked, and its early return at the first failed write.
RecoverWorker ==
    /\ mem' = [o \in Ids |-> IF o \in Held THEN "recovery" ELSE mem[o]]
    /\ disk' = [o \in Ids |-> IF o \in Held THEN "recovery" ELSE disk[o]]

RecoverWorkerFails ==
    /\ Fault
    /\ \E o \in Held : \E done \in SUBSET (Held \ {o}) :
           /\ mem' = [x \in Ids |-> IF x \in done \cup {o} THEN "recovery" ELSE mem[x]]
           /\ disk' = [x \in Ids |-> IF x \in done THEN "recovery" ELSE disk[x]]

Current(p) == up /\ registered = gen[p]                         \* workerLocked
Owns(p) == /\ Current(p)                                        \* workerLeaseLocked
           /\ mem[task[p]] = "running" /\ lease[task[p]] = gen[p]

Becomes(p, to) == pc' = [pc EXCEPT ![p] = to]
Off(p) ==
    /\ Becomes(p, "off")
    /\ gen' = [gen EXCEPT ![p] = 0]
    /\ task' = [task EXCEPT ![p] = None]

\* What no call of a worker changes.
WorkerCall ==
    UNCHANGED <<up, key, byKey, exec, crashes>>

RegisterWorker(p) ==
    /\ up /\ pc[p] = "off" /\ lastGen < MaxGen
    /\ \/ /\ RecoverWorker
          /\ registered' = lastGen + 1 /\ lastGen' = lastGen + 1
          /\ \/ /\ Becomes(p, "ready")
                /\ gen' = [gen EXCEPT ![p] = lastGen + 1]
                /\ UNCHANGED faults
             \/ Fault /\ UNCHANGED <<pc, gen>>            \* the answer is lost
       \/ RecoverWorkerFails /\ UNCHANGED <<registered, lastGen, pc, gen>>
    /\ WorkerCall /\ UNCHANGED <<lease, task, history>>

LeaseOperation(p, o) ==
    /\ pc[p] = "ready" /\ Current(p)
    /\ Mode[o] = "worker" /\ mem[o] = "queued"
    /\ \/ /\ Saved(o, "running")
          /\ lease' = [lease EXCEPT ![o] = gen[p]]
          /\ \/ /\ Becomes(p, "assigned")
                /\ task' = [task EXCEPT ![p] = o]
                /\ UNCHANGED faults
             \/ Fault /\ Becomes(p, "leave") /\ UNCHANGED task   \* the answer is lost
       \/ RolledBack /\ Becomes(p, "leave") /\ UNCHANGED <<lease, task>>
    /\ WorkerCall /\ UNCHANGED <<registered, lastGen, gen, history>>

CompleteOperation(p) ==
    /\ pc[p] = "report"
    /\ \/ /\ Owns(p)
          /\ \/ /\ Saved(task[p], IF outcome[task[p]] = "ok" THEN "succeeded" ELSE "failed")
                /\ \/ Becomes(p, "ready") /\ task' = [task EXCEPT ![p] = None] /\ UNCHANGED faults
                   \/ Becomes(p, "leave") /\ UNCHANGED task /\ Fault
             \/ RolledBack /\ Becomes(p, "leave") /\ UNCHANGED task
       \/ ~Owns(p) /\ Becomes(p, "leave") /\ UNCHANGED <<mem, disk, task, faults>>
    /\ WorkerCall /\ UNCHANGED <<lease, registered, lastGen, gen, history>>

DisconnectWorker(p) ==
    /\ pc[p] = "leave"
    /\ Off(p)
    /\ \/ Current(p) /\ RecoverWorker /\ registered' = 0 /\ UNCHANGED faults
       \/ Current(p) /\ RecoverWorkerFails /\ UNCHANGED registered
       \/ ~Current(p) /\ UNCHANGED <<mem, disk, registered, faults>>
    /\ WorkerCall /\ UNCHANGED <<lease, lastGen, history>>

\* A process renews the lease of o, or is about to report or to disconnect.
Attended(o) ==
    \E p \in Procs : task[p] = o /\ gen[p] = lease[o] /\ pc[p] # "ready"

\* Mutant: only leases of earlier generations are reaped.
ReapSuperseded(o) ==
    /\ up
    /\ Mode[o] = "worker" /\ mem[o] = "running" /\ lease[o] # registered
    /\ SavedOrRecovery(o, "recovery", 0)
    /\ UNCHANGED <<up, key, byKey, lease, registered, lastGen, exec, crashes, worker, history>>

\* reapExpiredWorkerLeasesLocked.  Every handler that reads an operation calls
\* it first, so an expired lease is never seen.
Reap(o) ==
    /\ up
    /\ Mode[o] = "worker" /\ mem[o] = "running"
    /\ SavedOrRecovery(o, "recovery", IF Attended(o) THEN 1 ELSE 0)
    /\ UNCHANGED <<up, key, byKey, lease, registered, lastGen, exec, crashes,
                   worker, history>>

-----------------------------------------------------------------------------
(* The worker's own steps. *)

Local == UNCHANGED <<service, gen, task>>

\* A refused LeaseOperation ends the connection.
TurnedAway(p) ==
    /\ pc[p] = "ready" /\ ~Current(p)
    /\ Becomes(p, "leave")
    /\ Local /\ UNCHANGED <<history, faults>>

\* Mutant: a command that was not started is reported with exit code 0.
RefuseQuietly(p) ==
    /\ pc[p] = "assigned" /\ Fault
    /\ outcome' = [outcome EXCEPT ![task[p]] = "ok"]
    /\ Becomes(p, "report")
    /\ Local /\ UNCHANGED starts

\* The directory is not permitted, or no CPU is granted: reported as a failure.
RefuseTask(p) ==
    /\ pc[p] = "assigned" /\ Fault
    /\ outcome' = [outcome EXCEPT ![task[p]] = "bad"]
    /\ Becomes(p, "report")
    /\ Local /\ UNCHANGED starts

StartTask(p) ==
    /\ pc[p] = "assigned"
    /\ starts' = [starts EXCEPT ![task[p]] = @ + 1]
    /\ Becomes(p, "running")
    /\ Local /\ UNCHANGED <<outcome, faults>>

\* A heartbeat that fails stops the command; nothing is reported then.  One
\* that is accepted changes nothing but the lease's deadline.
Abandon(p) == Becomes(p, IF pc[p] = "running" THEN "stopping" ELSE "leave")

\* Mutant: a heartbeat is only refused to a superseded generation.
HeartbeatOfCurrent(p) ==
    /\ pc[p] \in {"assigned", "running"} /\ ~Current(p)
    /\ Abandon(p)
    /\ Local /\ UNCHANGED <<history, faults>>

HeartbeatRefused(p) ==
    /\ pc[p] \in {"assigned", "running"} /\ ~Owns(p)
    /\ Abandon(p)
    /\ Local /\ UNCHANGED <<history, faults>>

\* A call is lost, or the process is told to stop.
Interrupted(p) ==
    /\ pc[p] \in {"ready", "assigned", "running", "report"} /\ Fault
    /\ Abandon(p)
    /\ Local /\ UNCHANGED history

\* When the command ends, a heartbeat that is under way is cancelled, which
\* assignment takes for a failed one.
EndTask(p) ==
    /\ pc[p] = "running"
    /\ \E r \in {"ok", "bad"} : outcome' = [outcome EXCEPT ![task[p]] = r]
    /\ \E next \in {"report", "leave"} : Becomes(p, next)
    /\ Local /\ UNCHANGED <<starts, faults>>

StopTask(p) ==
    /\ pc[p] = "stopping"
    /\ \E r \in {"ok", "bad"} : outcome' = [outcome EXCEPT ![task[p]] = r]
    /\ Becomes(p, "leave")
    /\ Local /\ UNCHANGED <<starts, faults>>

WorkerDies(p) ==
    /\ pc[p] # "off" /\ Fault
    /\ Off(p)
    /\ UNCHANGED <<service, history>>

-----------------------------------------------------------------------------
Next ==
    \/ \E o \in Ids, k \in Keys \cup {None} : SubmitOperation(o, k)
    \/ \E o \in Ids :
           \/ CancelOperation(o) \/ ExecBegin(o) \/ AdmissionFails(o) \/ Launch(o)
           \/ StartChild(o) \/ EndChild(o) \/ Finish(o) \/ Reap(o)
    \/ Crash \/ NewService \/ NewServiceFails
    \/ \E p \in Procs :
           \/ RegisterWorker(p) \/ \E o \in Ids : LeaseOperation(p, o)
           \/ CompleteOperation(p) \/ DisconnectWorker(p)
           \/ TurnedAway(p) \/ RefuseTask(p) \/ StartTask(p) \/ HeartbeatRefused(p)
           \/ Interrupted(p) \/ EndTask(p) \/ StopTask(p) \/ WorkerDies(p)

Spec == Init /\ [][Next]_vars

\* What a goroutine and a connected worker do of themselves, a heartbeat that is
\* refused and the killing of a cancelled command included.
ExecutorStep(o) ==
    \/ ExecBegin(o) \/ StartChild(o) \/ Finish(o)
    \/ mem[o] = "cancelled" /\ EndChild(o)

WorkerStep(p) ==
    \/ HeartbeatRefused(p) \/ StopTask(p) \/ CompleteOperation(p) \/ DisconnectWorker(p)

\* They keep going, and the ticker of StartLeaseRecovery fires.  CPU need not be
\* granted (Launch, StartTask), since those who have it need not end; neither
\* need a command.  A daemon need not come back, a caller or a worker need not
\* turn up.
FairSpec ==
    /\ Spec
    /\ \A o \in Ids : WF_vars(ExecutorStep(o)) /\ WF_vars(~Attended(o) /\ Reap(o))
    /\ \A p \in Procs : WF_vars(WorkerStep(p))

-----------------------------------------------------------------------------
(* Properties. *)

\* A command is started at most once, whatever of the daemon, its files, the
\* worker or their calls fails, and however often the daemon restarts: the
\* RUNNING record is on disk before the launch and is never queued again.
StartedOnce == \A o \in Ids : starts[o] <= 1

\* Two operations never share an idempotency key, so a caller that repeats a
\* submission whose answer it did not get, also after a restart, never causes a
\* second execution.
OneOperationPerKey ==
    \A o, x \in Ids :
        disk[o] # "absent" /\ disk[x] # "absent" /\ key[o] = key[x] /\ key[o] # None => o = x

\* An operation reported as succeeded is one whose command ended well: neither a
\* late report of a superseded process, nor a cancel, nor a reload of the files
\* makes it so.
SucceededIsTrue ==
    \A o \in Ids : "succeeded" \in {mem[o], disk[o]} => outcome[o] = "ok" /\ starts[o] = 1

\* What runs is leased to the generation that is registered: when a process
\* connects under the id of another one, or leaves, nothing stays with the old
\* generation (recoverWorkerLocked).
OldGenerationsHoldNothing ==
    \A o \in Ids :
        up /\ mem[o] = "running" /\ Mode[o] = "worker" => lease[o] = registered

\* A terminal state that was reported is final: a finished command does not
\* overwrite a cancel, a late result does not overwrite recovery-required, and a
\* restart changes neither.  The exception is an operation that was never
\* launched and of which only the queued record could be written.
TerminalIsFinal ==
    [][\A o \in Ids :
          mem[o] \in Terminal /\ disk[o] # "queued" => mem'[o] = mem[o]]_vars

\* Callers see an operation go through one life, whatever of the daemon, its
\* files and its workers fails: no command starts while its operation is queued
\* or after it succeeded or failed, none starts or ends twice, no result is made
\* up, and only an operation that was never started is queued again.
Lifecycle == INSTANCE OperationLifecycle WITH state <- mem, runs <- starts, result <- outcome

OneLife == Lifecycle!Spec

Executing(o) ==
    \/ exec[o] = "child"
    \/ \E p \in Procs : task[p] = o /\ pc[p] \in {"running", "stopping"}

\* A worker to which o is leased asks for CPU, and its heartbeats are accepted.
WaitsForCPU(o) == \E p \in Procs : task[p] = o /\ pc[p] = "assigned" /\ Owns(p)

\* An operation that is recorded as running is in somebody's hands or does not
\* stay so: its command is started, the worker that has it waits for CPU and
\* says so, its result is recorded, or its lease expires, also when the answer
\* to the lease was lost or its worker died.
RunningIsInHand ==
    \A o \in Ids :
        up /\ mem[o] = "running" ~>
            mem[o] # "running" \/ Executing(o) \/ WaitsForCPU(o) \/ ~up

\* A command whose operation was cancelled, reaped or taken over by another
\* generation is stopped, and so is every worker's command when the daemon
\* stays away: the next heartbeat is refused.  A worker that still waits for CPU
\* gives up in the same way.
RevokedIsStopped ==
    /\ \A p \in Procs :
           pc[p] \in {"assigned", "running"} /\ (mem[task[p]] \in Terminal \/ ~up)
               ~> pc[p] \notin {"assigned", "running"}
    /\ \A o \in Ids : exec[o] = "child" /\ mem[o] = "cancelled" ~> exec[o] # "child"

\* A command that ended is one whose operation ends with its receipt, when no
\* call, write or process fails.
EndsWithReceipt ==
    faults + crashes = 0 => \A o \in Ids : outcome[o] # "none" => mem[o] # "recovery"

=============================================================================
