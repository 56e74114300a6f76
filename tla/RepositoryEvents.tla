-------------------------- MODULE RepositoryEvents --------------------------
(***************************************************************************)
(* Repository events (internal/repositoryevents): a receiver long-polls a  *)
(* provider, turns each event into a job file, acknowledges the batch and  *)
(* advances its cursor; a pool of workers runs the jobs, one at a time per *)
(* repository, in the provider's order, and an update that is overtaken by *)
(* a newer one of the same repository and ref is superseded.               *)
(*                                                                         *)
(* Every record is kept twice: in memory, which the workers act on, and in *)
(* a file, which is what a restarted daemon finds.  A write replaces the   *)
(* file by a rename and then syncs the directory, so one that reports an   *)
(* error may or may not have changed it.                                   *)
(***************************************************************************)
EXTENDS Naturals, Sequences, FiniteSets

CONSTANTS Feed,        \* the provider's events, in its order
          Workers,     \* the queue's workers
          BatchMax,    \* how many events one poll returns at most
          MaxFaults    \* how many failed writes, calls, attempts and crashes

Repositories == UNION {{Feed[i].repo, Feed[i].previous} : i \in DOMAIN Feed}

ASSUME ConstantsOK ==
    /\ Feed \in Seq([reason : {"updated", "renamed"}, repo : Repositories,
                     previous : Repositories, ref : STRING])
    /\ \A i \in DOMAIN Feed : Feed[i].reason = "updated" => Feed[i].previous = Feed[i].repo
    /\ BatchMax \in Nat \ {0} /\ MaxFaults \in Nat

VARIABLES
    mem,        \* Queue.jobs
    disk,       \* the job files
    nextSeq,    \* Queue.nextSequence
    active,     \* Queue.activeRepos
    worker,     \* per worker: where it is and the job it has claimed
    receiver,   \* where ReceiveOnce is, its state and what it polled
    cursorFile, \* the receiver's state file
    acked,      \* external: how many events the provider saw acknowledged
    up,         \* the daemon is running
    faults      \* failures so far

vars == <<mem, disk, nextSeq, active, worker, receiver, cursorFile, acked, up, faults>>
queueVars == <<mem, disk, nextSeq, active, worker>>
feedVars == <<receiver, cursorFile, acked>>

-----------------------------------------------------------------------------
(* Events and jobs. *)

Events == DOMAIN Feed

\* repositoryAliases: a rename concerns the repository under both names.
Aliases(i) == {Feed[i].repo, Feed[i].previous}
Overlap(i, j) == Aliases(i) \cap Aliases(j) # {}

Job == [state : {"none", "queued", "running", "succeeded", "superseded"},
        seq : Nat, waiting : BOOLEAN, supersedes : SUBSET Events]
NoJob == [state |-> "none", seq |-> 0, waiting |-> FALSE, supersedes |-> {}]

Known(jobs) == {i \in Events : jobs[i].state # "none"}
Queued(jobs) == {i \in Events : jobs[i].state = "queued"}

TypeOK ==
    /\ mem \in [Events -> Job] /\ disk \in [Events -> Job]
    /\ nextSeq \in Nat \ {0}
    /\ active \subseteq Repositories
    /\ worker \in [Workers -> [pc : {"idle", "deciding", "asleep", "claimed", "processing"},
                               job : Events \cup {0}]]
    /\ receiver \in [pc : {"load", "resume", "resumed", "poll", "enqueue", "pending", "ack", "acked"},
                     cursor : 0..Len(Feed), pending : 0..Len(Feed), at : 0..Len(Feed), last : 0..Len(Feed)]
    /\ cursorFile \in [cursor : 0..Len(Feed), pending : 0..Len(Feed)]
    /\ acked \in 0..Len(Feed)
    /\ up \in BOOLEAN
    /\ faults \in 0..MaxFaults

Idle == [pc |-> "idle", job |-> 0]
NothingPolled == [pc |-> "load", cursor |-> 0, pending |-> 0, at |-> 0, last |-> 0]

Init ==
    /\ mem = [i \in Events |-> NoJob] /\ disk = [i \in Events |-> NoJob]
    /\ nextSeq = 1
    /\ active = {}
    /\ worker = [w \in Workers |-> Idle]
    /\ receiver = NothingPolled
    /\ cursorFile = [cursor |-> 0, pending |-> 0]
    /\ acked = 0
    /\ up = TRUE
    /\ faults = 0

Fault == faults < MaxFaults /\ faults' = faults + 1

-----------------------------------------------------------------------------
(* The queue: Enqueue and the workers. *)

\* Closing the changed channel wakes the workers that already wait on it.
Notified(workers) ==
    [w \in Workers |-> IF workers[w].pc = "asleep" THEN Idle ELSE workers[w]]

\* lastRenameSequence: updates before it were for another life of the name.
RenamesOf(repo) == {i \in Known(mem) : Feed[i].reason = "renamed" /\ repo \in Aliases(i)}

SupersedableAcrossRename(i) ==
    {k \in Queued(mem) : /\ Feed[k].reason = "updated" /\ Feed[i].reason = "updated"
                         /\ Feed[k].repo = Feed[i].repo /\ Feed[k].ref = Feed[i].ref}

Supersedable(i) ==
    IF Feed[i].reason # "updated" THEN {}
    ELSE {k \in Queued(mem) :
             /\ Feed[k].reason = "updated"
             /\ Feed[k].repo = Feed[i].repo /\ Feed[k].ref = Feed[i].ref
             /\ \A r \in RenamesOf(Feed[i].repo) : mem[r].seq < mem[k].seq}

MarkSuperseded(jobs, S) ==
    [i \in Events |-> IF i \in S THEN [jobs[i] EXCEPT !.state = "superseded"] ELSE jobs[i]]

\* applySupersedes from memory m and files d: candidates that are still queued
\* are marked one by one; a failed write stops it with that one marked in
\* memory only, or in both.
AppliesAll(m, d, S) ==
    LET C == S \cap Queued(m)
    IN  mem' = MarkSuperseded(m, C) /\ disk' = [i \in Events |-> IF i \in C THEN mem'[i] ELSE d[i]]

AppliesSome(m, d, S) ==
    \E C \in SUBSET (S \cap Queued(m)) : \E k \in C : \E written \in {C, C \ {k}} :
        /\ mem' = MarkSuperseded(m, C)
        /\ disk' = [i \in Events |-> IF i \in written THEN mem'[i] ELSE d[i]]

Advance == receiver' = IF receiver.at = receiver.last
                       THEN [receiver EXCEPT !.pc = "pending"]
                       ELSE [receiver EXCEPT !.at = @ + 1]

GiveUp == receiver' = [receiver EXCEPT !.pc = "load"]

NewJob(i) == [state |-> "queued", seq |-> nextSeq, waiting |-> FALSE,
              supersedes |-> Supersedable(i)]

EnqueueNew(i) ==
    /\ mem[i].state = "none"
    /\ nextSeq' = nextSeq + 1
    /\ LET m == [mem EXCEPT ![i] = NewJob(i)]
           d == [disk EXCEPT ![i] = NewJob(i)]
       IN  \/ /\ AppliesAll(m, d, NewJob(i).supersedes)
              /\ worker' = Notified(worker)
              /\ Advance
              /\ UNCHANGED faults
           \/ /\ AppliesSome(m, d, NewJob(i).supersedes)
              /\ Fault /\ GiveUp
              /\ UNCHANGED worker
           \/ /\ disk' \in {disk, d}
              /\ Fault /\ GiveUp
              /\ UNCHANGED <<mem, worker>>

\* A redelivered event is not enqueued again, but what it supersedes is.
EnqueueAgain(i) ==
    /\ mem[i].state # "none"
    /\ \/ /\ AppliesAll(mem, disk, mem[i].supersedes)
          /\ Advance
          /\ UNCHANGED faults
       \/ /\ AppliesSome(mem, disk, mem[i].supersedes)
          /\ Fault /\ GiveUp
    /\ UNCHANGED <<nextSeq, worker>>

Enqueue ==
    /\ up /\ receiver.pc = "enqueue"
    /\ EnqueueNew(receiver.at) \/ EnqueueAgain(receiver.at)
    /\ UNCHANGED <<active, cursorFile, acked, up>>

ClaimableBesideActive(i) ==
    /\ i \in Queued(mem)
    /\ ~mem[i].waiting
    /\ \A k \in Queued(mem) : mem[k].seq < mem[i].seq => ~Overlap(i, k)

ClaimableOutOfTurn(i) ==
    i \in Queued(mem) /\ ~mem[i].waiting /\ Aliases(i) \cap active = {}

\* claimNext's choice: the queued job of lowest sequence that is due and that
\* neither a running job nor an earlier queued one keeps off its repository.
Claimable(i) ==
    /\ i \in Queued(mem)
    /\ ~mem[i].waiting
    /\ Aliases(i) \cap active = {}
    /\ \A k \in Queued(mem) : mem[k].seq < mem[i].seq => ~Overlap(i, k)

First == {i \in Events : Claimable(i) /\ \A k \in Events : Claimable(k) => mem[i].seq <= mem[k].seq}

ClaimNext(w) ==
    /\ up /\ worker[w].pc = "idle"
    /\ \E i \in First :
        LET job == [mem[i] EXCEPT !.state = "running"]
        IN  \/ /\ mem' = [mem EXCEPT ![i] = job] /\ disk' = [disk EXCEPT ![i] = job]
               /\ active' = active \cup Aliases(i)
               /\ worker' = [worker EXCEPT ![w] = [pc |-> "claimed", job |-> i]]
               /\ UNCHANGED faults
            \/ /\ Fault
               /\ disk' \in {disk, [disk EXCEPT ![i] = job]}
               /\ worker' = [worker EXCEPT ![w].pc = "deciding"]
               /\ UNCHANGED <<mem, active>>
    /\ UNCHANGED <<nextSeq, feedVars, up>>

NothingToClaim(w) ==
    /\ up /\ worker[w].pc = "idle"
    /\ First = {}
    /\ worker' = [worker EXCEPT ![w].pc = "deciding"]
    /\ UNCHANGED <<mem, disk, nextSeq, active, feedVars, up, faults>>

\* claimNext has returned nil and given up the lock; only now does the worker
\* read the channel it will wait on.
Sleep(w) ==
    /\ up /\ worker[w].pc = "deciding"
    /\ worker' = [worker EXCEPT ![w].pc = "asleep"]
    /\ UNCHANGED <<mem, disk, nextSeq, active, feedVars, up, faults>>

\* The worker waits for retryDelay at most.
WakeUp(w) ==
    /\ up /\ worker[w].pc = "asleep"
    /\ worker' = [worker EXCEPT ![w] = Idle]
    /\ UNCHANGED <<mem, disk, nextSeq, active, feedVars, up, faults>>

FreedCurrentName(i) == active \ {Feed[i].repo}

Freed(i) == active \ Aliases(i)

\* finish: success or retry, written to the file; a failed write turns either
\* into a retry.  The repository is free again and every worker is notified.
Finish(w, ok) ==
    LET i == worker[w].job
        retry == [mem[i] EXCEPT !.state = "queued", !.waiting = TRUE]
        job == IF ok THEN [mem[i] EXCEPT !.state = "succeeded", !.waiting = FALSE] ELSE retry
    IN  /\ \/ /\ mem' = [mem EXCEPT ![i] = job] /\ disk' = [disk EXCEPT ![i] = job]
              /\ IF ok THEN UNCHANGED faults ELSE Fault
           \/ /\ mem' = [mem EXCEPT ![i] = retry]
              /\ disk' \in {disk, [disk EXCEPT ![i] = job]}
              /\ Fault
        /\ active' = Freed(i)
        /\ worker' = Notified([worker EXCEPT ![w] = Idle])
        /\ UNCHANGED <<nextSeq, feedVars, up>>

\* runClaimed: admission to the run queue and a write of the progress line,
\* either of which may fail, then the processor.
Admit(w) ==
    /\ up /\ worker[w].pc = "claimed"
    /\ \/ /\ worker' = [worker EXCEPT ![w].pc = "processing"]
          /\ disk' = [disk EXCEPT ![worker[w].job] = mem[worker[w].job]]
          /\ UNCHANGED <<mem, nextSeq, active, feedVars, up, faults>>
       \/ Finish(w, FALSE)

Process(w) ==
    /\ up /\ worker[w].pc = "processing"
    /\ \E ok \in BOOLEAN : Finish(w, ok)

\* retryDelay passes.
Elapse(i) ==
    /\ mem[i].waiting \/ disk[i].waiting
    /\ mem' = [mem EXCEPT ![i].waiting = FALSE]
    /\ disk' = [disk EXCEPT ![i].waiting = FALSE]
    /\ UNCHANGED <<nextSeq, active, worker, feedVars, up, faults>>

-----------------------------------------------------------------------------
(* The receiver. *)

Receives(pc) == up /\ receiver.pc = pc
QueueIdle == UNCHANGED <<queueVars, up>>

\* saveState, whose failure may leave either content in the file.
SaveState(s, next) ==
    \/ /\ cursorFile' = s
       /\ receiver' = [receiver EXCEPT !.pc = next, !.cursor = s.cursor, !.pending = s.pending]
       /\ UNCHANGED faults
    \/ /\ cursorFile' \in {cursorFile, s}
       /\ GiveUp
       /\ Fault

LoadState ==
    /\ Receives("load")
    /\ receiver' = [NothingPolled EXCEPT !.pc = IF cursorFile.pending = 0 THEN "poll" ELSE "resume",
                                         !.cursor = cursorFile.cursor, !.pending = cursorFile.pending]
    /\ QueueIdle /\ UNCHANGED <<cursorFile, acked, faults>>

\* AckRepositoryEvents: an error may hide an acknowledgement that counted.
AckUpTo(k, next) ==
    \/ /\ acked' = k
       /\ receiver' = [receiver EXCEPT !.pc = next]
       /\ UNCHANGED faults
    \/ /\ acked' \in {acked, k}
       /\ GiveUp
       /\ Fault

ResumeAck ==
    /\ Receives("resume")
    /\ AckUpTo(receiver.pending, "resumed")
    /\ QueueIdle /\ UNCHANGED cursorFile

SaveResumed ==
    /\ Receives("resumed")
    /\ SaveState([cursor |-> receiver.pending, pending |-> 0], "poll")
    /\ QueueIdle /\ UNCHANGED acked

\* The provider answers with the next events it has, if any.
Poll ==
    /\ Receives("poll")
    /\ \E k \in receiver.cursor + 1 .. Len(Feed) :
        /\ k <= receiver.cursor + BatchMax
        /\ receiver' = [receiver EXCEPT !.pc = "enqueue", !.at = receiver.cursor + 1, !.last = k]
    /\ QueueIdle /\ UNCHANGED <<cursorFile, acked, faults>>

PollFails ==
    /\ Receives("poll")
    /\ GiveUp /\ Fault
    /\ QueueIdle /\ UNCHANGED <<cursorFile, acked>>

SavePending ==
    /\ Receives("pending")
    /\ SaveState([cursor |-> receiver.cursor, pending |-> receiver.last], "ack")
    /\ QueueIdle /\ UNCHANGED acked

Ack ==
    /\ Receives("ack")
    /\ AckUpTo(receiver.last, "acked")
    /\ QueueIdle /\ UNCHANGED cursorFile

SaveCursor ==
    /\ Receives("acked")
    /\ SaveState([cursor |-> receiver.last, pending |-> 0], "load")
    /\ QueueIdle /\ UNCHANGED acked

-----------------------------------------------------------------------------
(* The daemon stops anywhere and is started again. *)

Crash ==
    /\ up /\ Fault
    /\ up' = FALSE
    /\ mem' = [i \in Events |-> NoJob]
    /\ active' = {}
    /\ worker' = [w \in Workers |-> Idle]
    /\ receiver' = NothingPolled
    /\ UNCHANGED <<disk, nextSeq, cursorFile, acked>>

\* NewQueue requeues what was running, then reconcileSuperseded applies every
\* job's supersession again.
Requeued(d) ==
    [i \in Events |-> IF d[i].state = "running" THEN [d[i] EXCEPT !.state = "queued"] ELSE d[i]]

Reconciled(d) ==
    MarkSuperseded(d, Queued(d) \cap UNION {d[i].supersedes : i \in Known(d)})

Mixed(old, new, S) == [i \in Events |-> IF i \in S THEN new[i] ELSE old[i]]

SequenceNumbers(d) == {0} \cup {d[i].seq : i \in Known(d)}
CountOfJobs(d) == Cardinality(Known(d))

LastSequence(d) == CHOOSE n \in SequenceNumbers(d) : \A k \in SequenceNumbers(d) : k <= n

Reload ==
    /\ ~up
    /\ \A i, k \in Known(disk) : i # k => disk[i].seq # disk[k].seq
    /\ mem' = Reconciled(Requeued(disk))
    /\ disk' = mem'
    /\ nextSeq' = 1 + LastSequence(disk)
    /\ up' = TRUE
    /\ UNCHANGED <<active, worker, feedVars, faults>>

\* A failed write ends the start; the files already written stay.
ReloadFails ==
    /\ ~up /\ Fault
    /\ \E S \in SUBSET Events :
        \/ disk' = Mixed(disk, Requeued(disk), S)
        \/ disk' = Mixed(Requeued(disk), Reconciled(Requeued(disk)), S)
    /\ UNCHANGED <<mem, nextSeq, active, worker, feedVars, up>>

-----------------------------------------------------------------------------
WorkerStep(w) ==
    ClaimNext(w) \/ NothingToClaim(w) \/ Sleep(w) \/ WakeUp(w) \/ Admit(w) \/ Process(w)

\* The steps in which a worker does not wait for CPU.
PromptStep(w) ==
    ClaimNext(w) \/ NothingToClaim(w) \/ Sleep(w) \/ WakeUp(w) \/ Process(w)

ReceiverStep ==
    \/ LoadState \/ ResumeAck \/ SaveResumed \/ Poll \/ PollFails
    \/ Enqueue \/ SavePending \/ Ack \/ SaveCursor

Next ==
    \/ \E w \in Workers : WorkerStep(w)
    \/ \E i \in Events : Elapse(i)
    \/ ReceiverStep
    \/ Crash \/ Reload \/ ReloadFails

Spec == Init /\ [][Next]_vars

\* Every goroutine of a running daemon goes on unless it waits for CPU, time
\* passes, and a daemon that stopped is started again.
FairSpec ==
    /\ Spec
    /\ \A w \in Workers : WF_vars(PromptStep(w))
    /\ WF_vars(\E i \in Events : Elapse(i))
    /\ WF_vars(ReceiverStep)
    /\ WF_vars(Reload)

-----------------------------------------------------------------------------
(* Properties. *)

Writing(w) == worker[w].pc \in {"claimed", "processing"}

\* Two workers never write to the same repository at once, under whatever name
\* a rename gives it (claimNext, activeRepos): not after a failed write that
\* requeued a job, and not after a restart.
OneWriterPerRepository ==
    \A v, w \in Workers :
        v # w /\ Writing(v) /\ Writing(w) => ~Overlap(worker[v].job, worker[w].job)

Done(jobs, i) == jobs[i].state \in {"succeeded", "superseded"}

\* An event is processed only when every earlier event of the provider that
\* concerns its repository is done with: a rename before the updates that
\* follow it, whatever is retried, redelivered or reloaded in between.
ProviderOrder ==
    \A w \in Workers : Writing(w) =>
        \A i \in Events : i < worker[w].job /\ Overlap(i, worker[w].job) => Done(mem, i)

\* The update that covers i: a later one of the same repository and ref with no
\* rename of that repository in between.
Covers(j, i) ==
    /\ i < j
    /\ Feed[j].reason = "updated" /\ Feed[j].repo = Feed[i].repo /\ Feed[j].ref = Feed[i].ref
    /\ \A r \in Events : i < r /\ r < j /\ Feed[r].reason = "renamed" => Feed[i].repo \notin Aliases(r)

\* Once the provider has seen an event acknowledged, and may forget it, the
\* files alone are enough to handle it: it has a job file, and if that says
\* superseded then a covering update has one that does not.
AcknowledgedIsDurable ==
    \A i \in 1..acked :
        /\ disk[i].state # "none"
        /\ disk[i].state = "superseded" =>
            \E j \in Events : Covers(j, i) /\ disk[j].state \notin {"none", "superseded"}

\* A restarted daemon accepts its own files: no two carry one sequence number,
\* and the numbers follow the provider's order.
SequencesFollowFeed ==
    \A i, j \in Known(disk) : i < j => disk[i].seq < disk[j].seq

\* With finitely many failures every event the provider has is received and
\* carried out or superseded, although a notification can be missed
\* between claimNext and the wait on the channel.  The one thing that can hold
\* it up is a worker that asks the slot pool for CPU and never gets it.
EveryEventHandled ==
    \/ <>[](up /\ \A i \in Events : Done(mem, i))
    \/ \E w \in Workers : <>[](worker[w].pc = "claimed")
=============================================================================
