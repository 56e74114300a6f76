# A verification project for WB

WB (`wb`) coordinates coding agents and people who work on many git
repositories on many machines. It runs commands under a machine-wide CPU
budget, keeps worktrees, lands pull requests one owner at a time, moves
sessions between machines, and reports all of it. There is no central server
on a machine: independent `wb` processes share a directory, and coordinate
through files, flocks, heartbeats and process ids. That is where its hard
behaviour lies, and what the modules here describe.

All line numbers refer to the sources under `internal/` unless a path says
otherwise. `PROJECT.json` maps every definition that models code to its lines.

## Inventory

| Component | State | Operations | Interacts with | Hard behaviour |
|---|---|---|---|---|
| heavy admission (`runqueue/heavy.go`, `visibility.go`) | ticket files, holder files, admission flock | register, wait, admit, heartbeat, release, list | `runexec`, daemon and worker executors | polling readers delete records, crashes, stale clocks, integer shares |
| slot pool (`runqueue/queue.go`) | slot flocks, holder records | `Acquire`, `Announce`, heartbeat, `Release`, `Cleanup` | repository events, `AdmitExplicit` | partial acquisition, release order |
| landing lane (`landinglane`, `landingcontext`, `orchestrate/landing_lane_guard.go`) | one record per (repository, target) | `Acquire`, `Heartbeat`, `Release`, `ReleaseIdle` | `wb pr land`, `wb pr create`, `wb worktree merge`, `wb lane release`, session registry | ownership survives commands, takeover, dead owners, process-id reuse |
| session registry (`session`) | one record per harness process | register, lookup, resolve | everything that names a session | stale records, ancestry lookup |
| remote claims (`remotestate`) | claims in a shared git repository or the hub | claim, release, heal, synchronise | worktree claims, fleet views | concurrent pushes, lost answers, two machines |
| session hand-off (`sessionmove`, `sessioncourier`, `sessionreceive`, `sessionlaunch`) | durable outbox, received messages, launch receipts | prepare, send, receive, launch, acknowledge | remote machines over SSH or a relay | lost and repeated messages, crash between two durable steps |
| session parking (`sessionpark*`) | parked custody records | park, receive, resume | hand-off | the same |
| repository events (`repositoryevents`) | job files, cursor file | poll, enqueue, acknowledge, claim, process, finish | hub, slot pool, transfer | duplicates, restart in the middle of a batch, order per repository |
| repository transfer (`repositoryevents/processor.go`, `worktrees`) | the clone's path and remotes, quarantine, receipts, Work Log | locate, quarantine, move, verify, roll back, retire | event queue | a crash or a failure between any two steps |
| daemon operations (`daemon/service.go`, `worker.go`, `workerrun`) | one file per operation, idempotency index, leases | submit, cancel, execute, register, lease, heartbeat, complete, disconnect | run queue, workers | restart, lost answers, superseded workers, writes that fail |
| GitHub observer (`githubobserver`) | cached observations, rate limits | observe, wait | landing | shared cache, limits |
| wait registry (`waitregistry`) | records of long waits | register, refresh, list | cockpit | stale records |
| merge orchestration (`orchestrate`) | receipts, git and GitHub state | prepare, publish, land, verify, resume | landing lane, worktrees | resuming a half-finished landing |
| worktrees (`worktrees`, `worktreeclaims`, `worktreejournal`, ...) | git worktrees, claims, journals | create, claim, retire | nearly everything | file-system races |
| hub (`hub/`, `api/`) | databases | HTTP, polling, redelivery | GitHub, machines | webhook loss, redelivery |
| agents, hooks, deps, quality, streams, fleet, cockpit, CLI, migration | files and output | | | mostly data transformation and presentation |

What makes each of the modelled components correct:

* heavy admission: shares given out never exceed 1.5 N, at most three jobs run,
  admission is FIFO, nobody waits for a dead job for ever, no record outlives
  its lease, nobody is counted twice;
* slot pool: a command has all its slots or none, the pool is a counting
  budget, a finished or dead command gives its slots back, and a command is
  starved only by two others that need several slots each or by commands that
  keep coming;
* landing lane: one command drives a lane, the record names it, an owner that
  is gone does not block the lane;
* remote claims: a machine that was told the claim is its own holds it on the
  shared branch unless somebody replaced it on purpose, and a failed command
  leaves nothing behind that a later one would publish;
* repository events: every event of the feed ends handled, jobs of one
  repository run one at a time in the provider's order, and what has been
  acknowledged is on file;
* repository transfer: a receipt, a Work Log entry and a success of the job each
  say what really happened to the clones, whatever failed in between;
* daemon operations: a command is started once, a success is a command that
  ended well, a terminal state is final, one key names one operation, and a
  superseded worker holds nothing;
* session hand-off, on the receiving machine: at most one successor runs however
  often the request is repeated, an attempt is replaced only when nothing of it
  can run any more, and a receipt names a process that became the successor.

## Modules

| Module | Models | Used by |
|---|---|---|
| `CpuBudget` | what both pools promise: an indivisible budget | refinement target of the next two |
| `HeavyQueue` | heavy admission | `MCHeavyQueue`, `HeavyQueueProofs` |
| `SlotPool` | the slot pool | `MCSlotPool`, `SlotPoolProofs` |
| `LandingLane` | the landing lane and the commands that use it | `MCLandingLane`, `LandingLaneProofs` |
| `ClaimRegister` | what claims promise: an atomic register | refinement target of the next |
| `RemoteClaims` | task claims in a shared git repository | `MCRemoteClaims`, `RemoteClaimsProofs` |
| `RepositoryEvents` | receiver, job queue and workers | `MCRepositoryEvents`, `RepositoryEventsProofs` |
| `RepositoryTransfer` | one rename job, step by step | `MCRepositoryTransfer`, `RepositoryTransferProofs` |
| `OperationLifecycle` | what the daemon promises: one life per operation | refinement target of the next |
| `DaemonOperations` | the daemon's operations and its workers | `MCDaemonOperations`, `DaemonOperationsProofs` |
| `SuccessorLaunch` | the receiving side of a session hand-off | `MCSuccessorLaunch`, `SuccessorLaunchProofs` |

The `MC` modules only define values for constants (process maps, feeds, symmetry
sets); the `Proofs` modules hold theorems.

### HeavyQueue

A job is one call of the run path: it registers a ticket, polls in
`admitHeavyWithLock`, holds a share, releases it. `pc` names the place in that
code; every file operation and every lock operation is a step of its own, and
the steps between which nothing shared is touched are merged. Processes
(`PidOf`) may run several jobs, as the daemon does; the proofs cover that, the
instances below give each job a process of its own.

* `ticket`, `holder`: the file of each job is absent, fresh, or stale, that is
  not refreshed for `staleAfter`. `isLive` is `IsLive`: fresh, and the process
  id exists.
* `older` is the order of the queue: the tickets with an earlier time stamp
  (and path, for equal stamps). The stamp is taken in `Stamp`, before the file
  exists (`WriteTicket`).
* `deadTickets`, `deadHolders`: `readTicketsIn` and `readHolderRecords` delete
  what they found dead *by path*. The judgement and the deletion are two steps,
  and the owner may refresh the file in between. `Observer` is any reader
  outside the queue, `wb run --queue` above all.
* `hb`: the goroutine of `armHeartbeat`, with its write in two steps so that
  `Release` can meet a write in flight.
* `Refresh`: while a job waits in its goroutine, `runexec` refreshes its ticket
  too.
* `Stall`, `Expire`, `Crash`, `Reuse`: a suspended process or a sleeping
  machine; the aging of a dead process's records; death; reuse of a process id.
* `overlooked` and `ahead` are history: the live jobs a reader has taken for
  dead, and the jobs whose ticket was queued when this job's was written.

Abstractions. A directory listing is one step; the code reads the files of one
listing one after the other. A record that cannot be read or parsed is skipped
by the code; since records are renamed into place this needs a failing disk,
and is left out. `path = FALSE` stands for the empty path of a ticket that
could not be written. Shares are exact integers; `N` is the number of CPUs. A
total of shares (`Allocated`, and `Total` of `CpuBudget`) is the number of pairs
of a job and one of its units, which the provers can reason about, unlike a
fold.

### SlotPool

A command takes slot files by non-blocking flocks in ascending order
(`TrySlot`), gives all of them back when a pass did not find enough, and
describes each one in a holder record. `Announce`, `Unlock` and `Cleanup` are
one step per slot, in the order of the code's loops, because the release order
(unlock first, delete records afterwards) is what matters. A reader looks at
one slot at a time. A heartbeat write covers the paths it read when it began
(`beating`), so a `Release` that did not wait for it would meet a write in
flight. A job is a caller, idle when no command of it is under way: it may
submit the next one at any time, so commands may keep coming. A dead command's
process id is not reused here; the records carry no accounting, only what `wb run --queue` shows.

### LandingLane

Each of `Acquire`, `Heartbeat`, `Release` and `ReleaseIdle` holds the lane's
flock from its read to its write, so each is one step; what interleaves are
the commands. A command resolves its session (`Resolve`), asks, drives, and
returns. `Kind` says which command it is, because they release differently:
`wb pr land` and `wb pr create` always (`pr_land.go:680-707`), a failed
prepare itself (`worktree_merge.go:569-584`), `wb worktree merge` and its
subcommands by the status of the receipt they hold, *also when they were
refused or had nothing to land* (`cli/cmdworktree/merge.go:564`). The status
is abstracted to a choice in `Return`: release or keep.

The record keeps what the decisions read: the session, the command (`None` in
a legacy record without `operation_pid`), and whether the heartbeat is older
than `DefaultDeadOperationStaleAfter`. The 30-minute `StaleAfter` only selects
the wording of a note. `stolen` and `dropped` are history: drivers who lost
the lane to an explicit `--take-over-lane`, and drivers whose record was
removed by a command of their own session. A session that ends does not come
back, and an unregistered session is not guarded at all (`Unguarded` phase),
as in the code. An explicit takeover of a record that would be granted anyway
is the same step as `Acquire`.

### RemoteClaims

A claim is a file `claims/<task>.yaml` in a repository every machine clones.
`Claim`, `Release` and `Publish` fetch, commit in the clone and push; a rejected
push is rebased and retried once (`mutateStore`). The store is the content of
that file at the tip of the branch. A clone is the sequence of contents from its
base commit to its HEAD: commits that were made and not pushed are the rest of
that sequence, which is where the trouble of this design lies. `behind` says
whose base is no longer the tip; a rebase of a clone whose commits and the
branch both changed the file conflicts.

Every call of git is a step and may fail, before or after it took effect (a push
whose answer is lost). A crash leaves the clone as it is. `licence` is history:
the holders, or the unreadable file, that a machine's unpushed commits were asked
to replace, by a take-over or a forced command. `believes` is what the last
command of a machine told its caller. The command's reaction to a claim that is
held (`Judge`: take over a stale holder, force, or give up) is included. One task
is enough: files of different tasks never conflict, and `Publish` stands for
every commit that does not touch the file.

### RepositoryEvents

The receiver is `ReceiveOnce` with its state file: resume an interrupted
acknowledgement, poll, enqueue each event, write the pending cursor, acknowledge,
write the cursor. The queue keeps its jobs twice, in `mem` and in `disk`; a write
that reports an error may or may not have replaced the file. Workers claim the
oldest runnable job (`claimNext`), run it without the lock, and finish; a rename
concerns a repository under both of its names, an update that a newer one of the
same repository and ref overtakes is superseded. `Crash` loses `mem` and
`Reload` is `NewQueue`: running jobs are queued again. The provider (`acked`) is
external: it repeats what has not been acknowledged.

### RepositoryTransfer

A `repository_renamed` job taken apart into its durable steps, in the order of
`processor.go` and `RelocateRepository`: recover an earlier cleanup receipt,
locate the clone, record the relocation intent, quarantine a disposable clone at
the destination, write the pending receipt, checkpoint it in the job, move, set
the remote, repair linked worktrees, verify, publish and retire the quarantine,
finalise the Work Log; or undo in the order of the code's rollback. Each step
may fail, and the process may stop between any two. The remote's HEAD moves
meanwhile (`remote`), because an operation is identified by the HEAD it was
planned for.

### DaemonOperations

Handlers of the service hold `Service.mu`, so each is one action, with the write
of the operation's file inside it, which may fail, and is then written again by
`markPersistenceFailureLocked`. `exec` follows the goroutine that executes a raw
operation; `pc`, `gen` and `task` follow a worker process through `Connect`,
with two processes that may connect under one worker id. A call may be lost on
its way or its answer may be; the worker does not repeat it, it disconnects.
Time is left out: `Attended` says that somebody renews a lease, `Reap` expires
one, possibly also an attended one whose holder was held up. `starts` and
`outcome` are history: how often a command was started, how it ended.

### SuccessorLaunch

The receiver is `sessionreceive.Receive` with `sessionlaunch.Inspect` and
`Start`. The execution lock admits one at a time and dies with its holder, so
the receiver is one process, `co`, whose `pc` follows the code; a step ends
where something another process can see has been read or written.
`ReceiverCrash` takes it back to the start and leaves the files: it also stands
for every error return the model does not name. A crash while tmux is being
called leaves a new-session under way (`inFlight`), which is carried out later or
refused.

An attempt has a directory with the files the variables are named after: the
launcher's lock (`fence`) and `ready`, the receiver's `release` and `abandoned`,
and `failure`, which either may write; `started` and the receipt exist once per
hand-off. A launcher (`proc`, `at`) checks that its attempt is unused, takes its
lock, registers, publishes its ready file, polls for a release that names its
PID, verifies the worktree and execs the harness, which gives up the lock.
"Lock free and no failure file" is how the receiver recognises the exec.

Files are published by linking a temporary file and removing the temporary
name. The window between the two is modelled for the ready file and for
`release.json` (`halfReady`, `halfRelease`), the files somebody polls; a crash
in the same window of another file stops a hand-off in the same way. tmux, the
process table and the Work Log's owner record (`owner`) are external. A PID is
reused only when its process left no files behind. `ran` and `misled` are
history: who became a harness, and who met a half-published release. Every
failure, crash and kill takes one of `MaxFaults`.

## Runs

| Run | Instance | Result |
|---|---|---|
| `heavy_cap` | 4 jobs, one process each, N = 8, one failed write; symmetry | AtMostThree, NotCountedTwice, NoOvertaking hold; implements `CpuBudget` (SharedBudget) |
| `heavy_live` | 2 jobs with a stall or a crash with id reuse, or 3 jobs without, fair | NoGhostHolder, CapRespected and WaiterServed hold |
| `slot_safety` | callers of 1, 2 and 3 units on 2 slots, 1 fault, fair; deadlock checked | NoHoldAndWait, NoGhostRecord hold; implements `CpuBudget` (CountingBudget); ServedUnlessCrowdedOut holds |
| `lane_safety` | 2 sessions, 3 commands of the three kinds, 1 takeover, 1 fault, 1 id reuse, legacy records, fair | OneDriver, DriverRecorded, NeverBlockedForGood hold |
| `lane_dropped` | as `lane_safety`, without takeover | **violated**: two sessions drive |
| `claims` | 2 machines, 1 fault, fair | BelievedClaimStands, NothingLeftBehind, CommandEnds hold; implements `ClaimRegister` (AtomicRegister) |
| `claims_release` | 2 machines, 1 fault | **violated**: a release says the claim is gone, and it stands |
| `events` | 4 events, 2 repositories with a rename between them, 2 workers, batches of 2, 2 faults, fair | OneWriterPerRepository, ProviderOrder, AcknowledgedIsDurable, SequencesFollowFeed, EveryEventHandled hold |
| `transfer` | 2 remote heads, 3 failures, 2 crashes | WorkLogTruthful, RetiredEvidenceTrue, MoveIsCheckpointed, SucceededIsComplete hold |
| `operations` | a raw and a leased operation, 1 key, 2 processes, 2 generations, 1 fault, 1 crash, fair | StartedOnce, OneOperationPerKey, SucceededIsTrue, OldGenerationsHoldNothing, TerminalIsFinal, RunningIsInHand, RevokedIsStopped hold; implements `OperationLifecycle` (OneLife) |
| `operations_lost` | one leased operation, no fault at all | **violated**: a command that ended well is recorded as recovery_required |
| `launch` | 4 PIDs, 3 attempts, 2 faults, fair | OneHarness, ReplacedOnlyWhenGone, StartedIsFinal, ReceiptIsTrue, RetrySettles hold |

The `TypeOK` of every module is proved. Deadlock checking is off where
everything may come to rest: heavy, lane, `transfer`, `operations` and `launch`
(a job that succeeded, operations that are all terminal, a receipt whose harness
has ended). The other runs check deadlock.

Bounds. N = 8 is the smallest machine that uses the heavy pool; with it the
floor is 2, the cap 12, the shares 8, 5 and 4, and both the clamping to the
room and the refusal at the floor occur. Four jobs are the least with which
the three-job bound can be exceeded. Two jobs always fit (8 and 4), so three are
the least with which one has to wait for room; with a stall or a crash as well,
three jobs are too many for TLC with liveness, so `heavy_live` lets the third
ask only while nothing has stalled or died (`ThirdOnlyWhenCalm`, a constraint
that cuts off no step of which fairness is assumed). Two jobs with a stall and a
crash were also checked by themselves. Three landing commands are the least that
give one session two commands and leave one for the other. Two slots and
commands of one, two and three units are the least with which a pass finds only
a part of what it needs and a request is clamped. Two machines and one fault
give every race of a push with another push, and a lost answer of each; the
conflict needs two sides only. The feed of four events has two updates of one
ref (supersession), a rename that joins two names, and an update of the old name
after it; two faults let a write fail and the daemon crash afterwards. Three
failures and two crashes let an attempt fail, its rollback fail, and the next
attempt be cut off. Two generations let a worker be superseded by another
process of its id. Every replacement of a launch attempt takes a fault, so two
faults need three attempts; four PIDs leave one for a late new-session beside
the launcher of each attempt.

Fairness. A process that lives keeps taking steps, its sleeps end, a command
that was admitted ends, and a heartbeat told to stop does so at its next
`select` (strong fairness: it competes with the ticker). That admitted commands
end is assumed in the two pools and in the lane only, where it is what a waiter
waits for. The record of a dead process ages by itself. In the lane, a refused
command is run again, which is what the refusal tells its reader to do; `NeverBlockedForGood` excepts records
that need an override by design (damaged, legacy, or kept by a reused process
id). In `claims` a machine finishes the operation it began. In `events` workers,
the receiver, its back-off timer and the restart of the daemon are fair, but a
worker that asks for CPU need not get it. In `operations` the daemon's
goroutines and the worker processes are fair, and a lease nobody renews is
reaped; CPU need not be granted, commands need not end and the daemon need not
come back. In `launch` the source delivers the request again until it has a receipt,
the steps of receiver and launchers end, and tmux collects its children and
carries out the commands it was given; a harness need not end. Nothing is
assumed of crashes, failures, cancellation or stalls.

What the liveness properties say is meant to be as strong as the code allows.
`ServedUnlessCrowdedOut` is the form of "every command gets its slots" that
holds: a command starves only while two commands that both need several slots
keep taking partial locks from each other, or while the slots keep going to
commands that keep coming. Both happen: when one of the two exceptions is taken
out, TLC finds a command that starves. `RunningIsInHand` says that an operation
shown as running is executed, or waited for by a worker that asks for CPU and renews the lease
(`workerrun/service.go:141-158`), or ceases to be running. `EveryEventHandled`
excepts a worker that asks for CPU and never gets it. `RetrySettles` names
the states in which repeating the request does not help: a launcher or harness
that outlived its pane, a selected successor that ended before the receipt, a
released launcher that vanished together with its pane, a file left half
published, two lost launchers in one attempt.

## Findings

1. `wb worktree merge land` removes the lane record of another running command
   of its session, and another session is let in (`lane_dropped`).
2. A `Release` whose commit was left in the clone by a failed push is reported
   as `ReleaseNoop` the next time, while the shared branch still names this
   machine (`claims_release`). `claims.go:149` returns without the reset the
   comment above `mutateStore` promises.
3. A worker whose command ends while a heartbeat is under way cancels that
   heartbeat, takes the cancellation for a failed heartbeat and never calls
   `CompleteOperation`; the operation becomes `recovery_required` although
   nothing went wrong (`operations_lost`).

Met while modelling, and not a run of their own:

* `heavy.go:66-67` argues that floor and cap exclude a fourth job. They do not,
  because a clamped share may be below N/2: on 8 CPUs the shares 2, 4 and 4
  leave room 2, which meets the floor. `heavyDefensiveMax` is what bounds the
  number of jobs (`AtMostThree`).
* A ticket that could not be written (`heavy.go:233`) makes the command poll a
  queue it is not in, against `visibility.go:243-246`; `WaiterServed` is about
  commands whose ticket was written.
* `Lease.Release` unlocks slots before it deletes their records by path
  (`visibility.go:612-614`), and so may delete the next owner's. The record
  comes back with the next heartbeat; only a display is affected.
* The liveness of a lane's owner starts from a bare process id
  (`landinglane.go:522`), which the comment above it says it never does.
* A take-over compares only the holder (`claims.go:225-232`), so it also takes a
  claim its holder released and made anew since.
* `applySupersedes` marks a job superseded in memory before the write that may
  fail (`queue.go:410`).
* An attempt that recovered an old cleanup receipt reports an empty cleanup
  state, which overwrites the checkpoint a later quarantine of the same attempt
  made (`processor.go:54`, `queue.go:364-366`); if that attempt fails, the next
  one succeeds with the quarantine left behind. The specification asks that a
  retry recover that exact receipt first
  (`spec/features/github-app-repository-events/README.md:107-109`).
* Some faults wedge a rename job until somebody intervenes: a pending receipt
  for an operation planned anew, an absent quarantine with a HEAD that moved on,
  a crash between the move and the repair of linked worktrees. A crash between
  quarantine and checkpoint orphans the quarantine.
* `markPersistenceFailureLocked` assumes that the file is no longer queued
  (`service.go:550-552`). When the write of the running transition fails twice
  it still is; callers saw `recovery_required`, and the next start of the daemon
  executes the operation. `TerminalIsFinal` excepts exactly this.
* Two processes with one worker id supersede each other for as long as both
  live.
* The states `RetrySettles` excepts need a person, against "Every phase MUST be
  retryable from the durable handoff aggregate"
  (`spec/features/agent-session-move/README.md:192`): an artifact with two links
  is refused by every reader for ever, and `started.json` or a release without
  failure evidence is never given up.
* A launcher that polls `release.json` between its link and the removal of the
  temporary name exits without failure evidence (`private.go:193`). While the
  process lingers the receiver takes its free lock for a successful exec, and the
  receipt names a process that never became a harness (`misled` in
  `ReceiptIsTrue`); `spec/ideas/unify-session-move-and-park-continuation-storage.md:63`
  has the receipt prove that the successor is live.
* A requested model is used for the launch (`harness.go:82`), while the owner
  recorded in the Work Log only knows the source's model
  (`session_custody.go:1048`), so a hand-off that asks for another model is
  refused before its release.

## Proofs

For every number of jobs and processes, every N and all bounds,
`HeavyQueueProofs` proves:

* `TypeCorrect`: `TypeOK`;
* `RecordsConsistent`: `RecordInv`, which ties phases, lock, heartbeat and
  files together: who is past the decision holds the lock, a job's heartbeat
  runs only while it holds a share, a ticket on disk belongs to a job that
  waits or died. It is the strengthening the next two need, since what a
  heartbeat or a deletion does to a file depends on where its owner is;
* `NoGhost`, `CountedOnce`: from `RecordInv`;
* `Fifo`: `NoOvertaking`, from `QueueInv`. The history `ahead` is tied to
  `older`, which the code really compares: whoever was queued ahead and still
  waits has a ticket that counts, or has been overlooked;
* `BoundedConcurrency`: `AtMostThree`. Its invariant says that every holder has
  a live record unless it was overlooked, and that the number counted under
  the lock is still an upper bound when the record is written, because only
  the owner of the lock adds one;
* `CapAlwaysRespected`: `CapRespected`. A share is decided in `Count` and takes
  effect in `Announce`, a step of its own with others in between, so the
  invariant (`CapInv`) already counts the share of the job that is about to
  announce. It is kept because the records read under the lock stand for all
  holders unless one was overlooked (`HolderRecords`), shares in use never change
  (`SharesKept`), and a set of holders and one more need no more units than both
  together (`TokensAdd`);
* `BudgetUnlessOverlooked`: the refinement. `Announce` is the abstract `Grant`,
  with the room that `CapInv` promises; every other step, of whatever process,
  returns the shares of the jobs that stop holding one, or stutters. It holds in
  every behaviour in which `overlooked` stays empty, stalls included;
* `QueueIsBudget`: `SharedBudget` with `MaxStalls = 0`, the value the run has.
  It adds to the former that nobody is overlooked then: a job that is in the
  queue or holds a share has a living process (`AliveInv`), and only a dead job's
  record grows stale (`FreshInv`), so what a reader finds dead is dead. Crashes,
  reused process ids and failed writes are unrestricted. The hypothesis cannot go:
  after a stall a reader may delete the record of a running job, and the next
  admission gives its share out again.

`LandingLaneProofs` proves `TypeOK`, `OneDriver` and `DriverRecorded` for all
sessions and commands. Neither of the last two is inductive alone: an Acquire
keeps `OneDriver` because the record names the driver, and a damaged record
keeps `DriverRecorded` only vacuously. Their conjunction is; the one lemma
about the code (`NamedExcludes`) is that a record that names a running command
refuses every other command, of the same session by `Busy` and of another one
by `Held`.

`SlotPoolProofs` proves `TypeOK`, `NoHoldAndWait`, `FullyGranted` and
`NoGhostRecord` for every budget and every set of commands. The invariants
say, phase by phase, which slots a command may hold, which records it believes it
wrote and what a heartbeat in flight covers (`SlotRules`, `RecordRules`).
`PoolIsBudget` is the refinement of `CpuBudget` (`CountingBudget`): the end of a
complete pass (`Acquired`) is the abstract `Grant`, the end of the use (`Stopped`)
and `Crash` are returns, all others stutter, the taking and giving back of single
slots among them. That there
is room for the grant is a counting argument: the units granted, and those of the
command that just completed its pass, can be mapped one to one into the slots,
since every such command holds as many slots as it has units and no slot has two
owners.

`RemoteClaimsProofs` proves `TypeOK`, `BelievedClaimStands` and
`NothingLeftBehind` for every set of machines. A machine's belief survives the
pushes of the others only because the unpushed commits of a clone name their own
machine or nobody, and replace a content that named nobody else or a holder they
have a licence for; and because a machine whose push went through with its answer
lost is entitled to the claim before it is told. The invariant (`Fine`) states
that for every clone, wherever its operation is. `ClaimsAreRegister` is the
refinement of `ClaimRegister` (`AtomicRegister`), from which
`BelievedClaimStands` would follow: a push that lands commits is a compare and
swap of the register, licensed by what `Fine` says of the commits at the bottom
and the top of the clone; a second push that finds its commits on the branch is a
late confirmation; commits, rebases, resets and conflicts only change what a machine
has been asked to do. It adds that an unreadable claim file is replaced by a
forced command only, which `Fine` has to carry through rebases and left-over commits.

`RepositoryEventsProofs` proves `TypeOK`, `OneWriterPerRepository`,
`ProviderOrder`, `SequencesFollowFeed` and `AcknowledgedIsDurable` for every feed,
every number of workers and every batch size. Besides types its invariant has
four parts: `Down` (a daemon that
is down runs nothing), `Numbering` (sequence numbers in memory and on file agree,
grow with the feed and lie below the next one), `Delivery` (what the receiver has passed
is known to the queue, and what the cursor file has passed is known to its
files), and `Exclusion` (a running job has one worker, which has reserved its names).
That a reloaded queue continues above the greatest number on file uses the
well-foundedness of the naturals. `AcknowledgedIsDurable` needs a fifth part,
`Durable`: whatever a record, in memory or on file, says it supersedes or is
superseded by is covered in the sense of the feed, and the covering job has a file.
Covering is transitive (`CoversTransitive`) because an update that covers is
not a rename; the covering job that is not itself superseded is then the last one
in the feed. A failed write between the job's own file and those it supersedes,
and the repair of half-written supersessions at start, keep it.

`RepositoryTransferProofs` proves `TypeOK`, `WorkLogTruthful`,
`RetiredEvidenceTrue`, `MoveIsCheckpointed` and `SucceededIsComplete` for every
number of heads, failures and crashes. The invariant says at every step of an
attempt, the rollback's included, where both clones are (`Position`), which
operation is under way (`Operation`), what became of the disposable clone
(`Replacement`), and what is on file (`Recorded`, `Settled`).

`DaemonOperationsProofs` proves `TypeOK`, `StartedOnce`, `OneOperationPerKey`,
`SucceededIsTrue`, `OldGenerationsHoldNothing` and the action property
`TerminalIsFinal` for all operations, keys and processes. The invariant relates,
for each operation, memory and file (`FileOK`), the number of starts to both
(`StartOK`), the goroutine (`ExecOK`), the lease (`LeaseOK`) and the key
(`KeyOK`), and, for each process, its generation and its task (`ProcOK`); no
two processes hold one generation (`Exclusive`). A start is counted once only
because the file stops being queued before the command starts, or the service
has forgotten how to start it.

`OperationsHaveOneLife` proves that the module implements `OperationLifecycle`,
whose variables are what callers can see (`mem`) and the two histories. A
submission is `Submit`; the RUNNING record, or a lease, is `Launch`; the start
and the end of a command are `Start` and `End`; finish, complete, cancel, reap
and a failed authorization are `Settle`; the takeover of a worker and a restart
are `Recover`; crashes, refused calls and failed writes stutter. The invariant
needs more for it (`ResultInv`): whoever is about to start or to end a command
finds no result, whoever is about to report it finds one, and an operation whose
file is still queued has neither a start nor a result. The last is what lets a
restart queue it again: after two failed writes an operation is reported as
recovery-required while its file says queued. That takes two faults and a crash,
one fault more than the run has; `OneLife` and `ResultInv` were also checked
with `MaxFaults = 2`, and the theorem covers every bound.

`SuccessorLaunchProofs` proves `TypeOK`, `OneHarness`, `ReplacedOnlyWhenGone`,
`StartedIsFinal` and `ReceiptIsTrue` for any number of PIDs, attempts and faults.
Only the launcher a release names can become a harness, and an attempt is
released once; an attempt below the latest is abandoned unreleased, or its
released process is gone. So a process that runs a harness belongs to the latest
attempt and is the one its release names. The invariant adds what the receiver
knows at each step (`ReceiverInv`: what it has read stays true because only a
holder of the lock writes it), what the files of a launcher say of its process
(`FilesInv`, `ReleaseInv`) and what a selection excludes (`StartedInv`). The
receipt needs a second one, `LeftInv`: a released process that exists and has
given up its lock without a failure file is a harness, was one, or met a
half-published release.

The assumptions are those the modules state on their constants: finite sets,
values distinct from `None` and the like, naturals as bounds. The inductive
invariants were model-checked on the instances above before they were proved.

Only model-checked: everything under fairness (`WaiterServed`,
`ServedUnlessCrowdedOut`, `NeverBlockedForGood`, `CommandEnds`, `EveryEventHandled`,
`RunningIsInHand`, `RevokedIsStopped`, `RetrySettles`), which is out of the
prover's reach. Every safety property of a passing run is proved.

## Plan

Done: the modules and proofs above. Left, in this order:

1. The sending side of the session hand-off (`sessionmove`, `sessioncourier`):
   sealing, sending, retrying, the end of the predecessor, and the exchange of
   messages between live sessions; composed with `SuccessorLaunch`, that a
   session runs on at most one machine.
2. Parking, which is the hand-off with another receiver.
3. Landing receipts: resuming a half-finished merge (`orchestrate`).
4. The file bridge by which a client reaches the daemon without a socket.

## Not modelled

The modules cover about 5000 of the repository's 263,000 lines of implementation
(1.9%): the protocols in which processes, files and failures interact. The
statements about them say nothing of the rest.

Git plumbing, GitHub API calls, parsing, rendering, configuration and command
lines: they hold no protocol state of their own, or state TLC cannot hold.
Classification of commands (`Classify`) is string matching; the models take
its result as a parameter. The legacy ticket namespace of small machines only
feeds a display. Windows-specific process checks are the same predicate. A power loss that undoes a rename that was not followed by a
directory sync is left out; so are worker records of an older schema that name
no worker. The file bridge and the start of the daemon are process and socket
handling.
