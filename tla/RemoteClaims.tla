---------------------------- MODULE RemoteClaims ----------------------------
(***************************************************************************)
(* Task claims kept as files of a git repository that every machine        *)
(* clones (internal/remotestate/gitrepo): claims/<task>.yaml exists while   *)
(* its holder works on the task.  There is no server that arbitrates: a    *)
(* machine commits to its clone, pushes, and learns from a rejected push   *)
(* and a conflicting rebase that another machine was faster.               *)
(*                                                                         *)
(* One task is modelled, so the store is the content of one file.  Commits *)
(* that touch other files (a snapshot, another task's claim) rebase        *)
(* cleanly; Publish stands for all of them.  A clone is the sequence of    *)
(* contents of that file from the upstream commit it is based on to HEAD,  *)
(* which is all a three-way merge looks at.  The clone lock admits one     *)
(* process of a machine at a time, hence one operation per machine.        *)
(***************************************************************************)
EXTENDS Naturals, Sequences

CONSTANTS Machines,     \* login/machine identities, each with one clone
          Free,         \* the claim file is absent
          Bad,          \* the claim file is there and cannot be decoded
          MaxFaults     \* how many network failures and crashes may happen

ASSUME ConstantsOK ==
    /\ Machines # {} /\ Free \notin Machines /\ Bad \notin Machines /\ Free # Bad
    /\ MaxFaults \in Nat

VARIABLES
    store,      \* the claim file on the shared branch
    clone,      \* per machine: contents from the clone's base commit to HEAD
    behind,     \* machines whose base commit is no longer the branch's tip
    op,         \* per machine: the operation it is in
    licence,    \* per machine: holders its unpushed commits may replace
    believes,   \* machines last told that the claim is theirs
    overridden, \* machines whose claim was replaced on purpose
    toldGone,   \* machines last told that they hold no claim any more
    faults      \* failures so far

vars == <<store, clone, behind, op, licence, believes, overridden,
          toldGone, faults>>

-----------------------------------------------------------------------------
(* Claim files and operations. *)

\* A claim names its holder; at is ClaimedAt, of which only "not the instant
\* of the claim it replaces" matters.
Claims == [holder : Machines, at : 0..1]
Contents == Claims \cup {[holder |-> Free, at |-> 0], [holder |-> Bad, at |-> 0]}
Occupants == Machines \cup {Bad}     \* whom a file that is there names

NoClaim == [holder |-> Free, at |-> 0]
Unreadable == [holder |-> Bad, at |-> 0]

Modes == {"normal", "takeover", "force"}
Idle == [kind |-> "none", pc |-> "idle", mode |-> "normal", expected |-> Free, retried |-> FALSE]

\* An operation that is about to fetch.
Asked(kind, mode) == [Idle EXCEPT !.kind = kind, !.pc = "fetch", !.mode = mode]

Operation == [kind : {"none", "claim", "release", "publish"},
              pc : {"idle", "fetch", "push", "rebase", "again", "judge"},
              mode : Modes, expected : Machines \cup {Free}, retried : BOOLEAN]

TypeOK ==
    /\ store \in Contents
    /\ clone \in [Machines -> Seq(Contents)] /\ \A m \in Machines : clone[m] # <<>>
    /\ behind \subseteq Machines
    /\ op \in [Machines -> Operation]
    /\ licence \in [Machines -> SUBSET Occupants]
    /\ {believes, overridden, toldGone} \subseteq SUBSET Machines
    /\ faults \in 0..MaxFaults

Tip(c) == c[Len(c)]
HeadOf(m) == Tip(clone[m])           \* what the clone's working tree holds
Pending(m) == Len(clone[m]) > 1     \* commits that are not on the branch

Init ==
    /\ store \in {NoClaim, Unreadable}
    /\ clone = [m \in Machines |-> <<store>>]
    /\ behind = {}
    /\ op = [m \in Machines |-> Idle]
    /\ licence = [m \in Machines |-> {}]
    /\ believes = {} /\ overridden = {} /\ toldGone = {}
    /\ faults = 0

-----------------------------------------------------------------------------
(* Git, as the provider uses it. *)

\* A local commit whose parent content is upstream's applies, one whose result
\* upstream already has is dropped, anything else conflicts (PullRebase).
CanRebase(c) == Len(c) > 1 => store \in {c[1], c[2]}
Rebased(c) ==
    IF Len(c) = 1 THEN <<store>> ELSE IF store = c[1] THEN c ELSE Tail(c)

\* The branch takes HEAD, and with it every commit that was still pending;
\* every other clone is then behind.  A holder is overridden when it is replaced
\* by a commit that was licensed to replace it.
Land(m) ==
    /\ store' = HeadOf(m)
    /\ overridden' = (overridden \cup ({store.holder} \cap licence[m] \cap Machines))
                         \ {HeadOf(m).holder}

Fault == faults < MaxFaults /\ faults' = faults + 1

\* The operation reports an error.  A claim command that was given --force and
\* failed its first, normal attempt goes on to force the claim.
Fails(m) ==
    /\ \/ op' = [op EXCEPT ![m] = Idle]
       \/ /\ op[m].kind = "claim" /\ op[m].mode = "normal" /\ op[m].pc # "judge"
          /\ op' = [op EXCEPT ![m] = Asked("claim", "force")]
    /\ UNCHANGED toldGone

-----------------------------------------------------------------------------
(* Starting an operation. *)

Begin(m, o) ==
    /\ op[m].pc = "idle"
    /\ op' = [op EXCEPT ![m] = o]
    /\ toldGone' = toldGone \ {m}
    /\ UNCHANGED <<store, clone, behind, licence, overridden, faults>>

Claim(m) ==
    /\ Begin(m, Asked("claim", "normal"))
    /\ UNCHANGED believes

\* Once it asks for a release a machine no longer counts on its claim,
\* whatever the answer.
Release(m, mode) ==
    /\ Begin(m, Asked("release", mode))
    /\ believes' = believes \ {m}

Publish(m) ==
    /\ Begin(m, Asked("publish", "normal"))
    /\ UNCHANGED believes

-----------------------------------------------------------------------------
(* Fetch, then what the operation does with the file it finds. *)

\* Whether the operation may replace cur, the content it commits to do so, and
\* the other holders, or unreadable file, it was asked to replace.
ReplacesAnyHolder(m, o, cur) ==
    \/ o.kind = "claim" /\ (o.mode = "force" \/ cur.holder # Bad)
    \/ o.kind = "release" /\ cur.holder # Free /\ (o.mode = "force" \/ cur.holder = m)

ReplacesUnreadable(m, o, cur) ==
    \/ o.kind = "claim" /\ (o.mode = "force" \/ cur.holder \in {Free, Bad, m})
    \/ o.kind = "release" /\ cur.holder # Free /\ (o.mode = "force" \/ cur.holder = m)

Replaces(m, o, cur) ==
    \/ o.kind = "claim" /\ cur.holder \in {Free, m}
    \/ o.kind = "claim" /\ o.mode = "force"
    \/ o.kind = "claim" /\ o.mode = "takeover" /\ cur.holder = o.expected
    \/ o.kind = "release" /\ cur.holder = m
    \/ o.kind = "release" /\ o.mode = "force" /\ cur.holder # Free

Written(m, o, cur) ==
    IF o.kind = "claim"
    THEN {[holder |-> m, at |-> t] : t \in {u \in 0..1 : cur.holder = m => u # cur.at}}
    ELSE {NoClaim}

Authorises(o) ==
    CASE o.mode = "force" -> Occupants
      [] o.mode = "takeover" -> {o.expected}
      [] OTHER -> {}

\* What a pull leaves of the clone, and of the licence of its pending commits.
Pulled(m, c) ==
    /\ clone' = [clone EXCEPT ![m] = c]
    /\ licence' = [licence EXCEPT ![m] = IF Len(c) > 1 THEN @ ELSE {}]
    /\ behind' = behind \ {m}

\* The file allows the operation: write it and commit.
Commit(m, c) ==
    /\ Replaces(m, op[m], Tip(c))
    /\ \E new \in Written(m, op[m], Tip(c)) : clone' = [clone EXCEPT ![m] = Append(c, new)]
    /\ licence' = [licence EXCEPT ![m] = Authorises(op[m]) \cup IF Len(c) > 1 THEN @ ELSE {}]
    /\ behind' = behind \ {m}
    /\ op' = [op EXCEPT ![m].pc = "push"]
    /\ UNCHANGED toldGone

\* A claim another machine holds: the command looks at the holder's heartbeat.
Held(m, c) ==
    /\ op[m].kind = "claim" /\ ~Replaces(m, op[m], Tip(c)) /\ Tip(c).holder \in Machines
    /\ Pulled(m, c)
    /\ op' = [op EXCEPT ![m] = IF @.mode = "normal"
                              THEN [@ EXCEPT !.pc = "judge", !.expected = Tip(c).holder]
                              ELSE Idle]
    /\ UNCHANGED toldGone

\* A release that finds no claim, or another machine's, has nothing to do.
NothingToRelease(m, c) ==
    /\ op[m].kind = "release" /\ ~Replaces(m, op[m], Tip(c)) /\ Tip(c).holder # Bad
    /\ Pulled(m, c)
    /\ op' = [op EXCEPT ![m] = Idle]
    /\ toldGone' = toldGone \cup {m}

\* An unreadable claim file is never treated as unheld.
Refuses(m, c) ==
    /\ op[m].kind \in {"claim", "release"} /\ op[m].mode # "force" /\ Tip(c).holder = Bad
    /\ Pulled(m, c)
    /\ Fails(m)

CommitSnapshot(m, c) ==
    /\ op[m].kind = "publish"
    /\ Pulled(m, c)
    /\ op' = [op EXCEPT ![m].pc = "push"]
    /\ UNCHANGED toldGone

Fetch(m) ==
    /\ op[m].pc = "fetch"
    /\ CanRebase(clone[m])
    /\ LET c == Rebased(clone[m])
       IN  \/ Commit(m, c) \/ Held(m, c) \/ NothingToRelease(m, c)
           \/ Refuses(m, c) \/ CommitSnapshot(m, c)
    /\ UNCHANGED <<store, overridden, believes, faults>>

\* The rebase conflicts: Fetch aborts it, keeps the commits and gives up.
FetchConflicts(m) ==
    /\ op[m].pc = "fetch"
    /\ ~CanRebase(clone[m])
    /\ Fails(m)
    /\ UNCHANGED <<store, clone, behind, licence, overridden, believes, faults>>

\* The network is down for the three attempts.
FetchFails(m) ==
    /\ op[m].pc \in {"fetch", "judge"}
    /\ Fault
    /\ Fails(m)
    /\ UNCHANGED <<store, clone, behind, licence, overridden, believes>>

-----------------------------------------------------------------------------
(* Push, and mutateStore's one retry after a rejection. *)

Succeeds(m) ==
    /\ op' = [op EXCEPT ![m] = Idle]
    /\ believes' = believes \cup IF op[m].kind = "claim" THEN {m} ELSE {}
    /\ toldGone' = IF op[m].kind = "release" THEN toldGone \cup {m} ELSE toldGone

Push(m) ==
    /\ op[m].pc \in {"push", "again"}
    /\ m \notin behind
    /\ Land(m)
    /\ behind' = Machines \ {m}
    /\ clone' = [clone EXCEPT ![m] = <<HeadOf(m)>>]
    /\ licence' = [licence EXCEPT ![m] = {}]
    /\ Succeeds(m)
    /\ UNCHANGED faults

\* The first push is turned away, because the branch moved or the network did.
PushRejected(m) ==
    /\ op[m].pc = "push"
    /\ \/ m \in behind /\ UNCHANGED faults
       \/ m \notin behind /\ Fault
    /\ op' = [op EXCEPT ![m].pc = "rebase"]
    /\ UNCHANGED <<store, clone, behind, licence, overridden, believes, toldGone>>

\* The push lands and its answer is lost: HEAD is upstream's tip, the machine
\* takes it for a rejection.
PushAnswerLost(m) ==
    /\ op[m].pc = "push"
    /\ m \notin behind
    /\ Fault
    /\ Land(m)
    /\ behind' = Machines \ {m}
    /\ clone' = [clone EXCEPT ![m] = <<HeadOf(m)>>]
    /\ licence' = [licence EXCEPT ![m] = {}]
    /\ op' = [op EXCEPT ![m].pc = "rebase"]
    /\ UNCHANGED <<believes, toldGone>>

Rebase(m) ==
    /\ op[m].pc = "rebase"
    /\ CanRebase(clone[m])
    /\ Pulled(m, Rebased(clone[m]))
    /\ op' = [op EXCEPT ![m].pc = "again"]
    /\ UNCHANGED <<store, overridden, believes, toldGone, faults>>

RetriesWhenFreed(o) == store.holder = Free
MayRetry(o) ==
    /\ ~o.retried
    /\ store.holder = Free \/ (store.holder = Bad /\ o.mode = "force")

\* A conflict: the clone is reset to upstream and the file read again.  Held
\* is a lost race; a file that is gone (or that force may overwrite) is worth
\* the one retry of the whole operation.
RebaseConflicts(m) ==
    /\ op[m].pc = "rebase"
    /\ op[m].kind # "publish"
    /\ ~CanRebase(clone[m])
    /\ Pulled(m, <<store>>)
    /\ \/ /\ MayRetry(op[m])
          /\ op' = [op EXCEPT ![m].pc = "fetch", ![m].retried = TRUE]
          /\ UNCHANGED toldGone
       \/ /\ ~MayRetry(op[m])
          /\ Fails(m)
    /\ UNCHANGED <<store, overridden, believes, faults>>

\* Publish aborts the rebase and keeps its commits.
PublishConflicts(m) ==
    /\ op[m].pc = "rebase"
    /\ op[m].kind = "publish"
    /\ ~CanRebase(clone[m])
    /\ Fails(m)
    /\ UNCHANGED <<store, clone, behind, licence, overridden, believes, faults>>

\* The rebase cannot even fetch: the error goes to the caller, the commit stays.
RebaseFails(m) ==
    /\ op[m].pc = "rebase"
    /\ Fault
    /\ Fails(m)
    /\ UNCHANGED <<store, clone, behind, licence, overridden, believes>>

KeepsCommit(m) == UNCHANGED <<clone, licence>>

Discards(m) ==
    IF op[m].kind = "publish"
    THEN UNCHANGED <<clone, licence>>
    ELSE /\ clone' = [clone EXCEPT ![m] = <<@[1]>>]
         /\ licence' = [licence EXCEPT ![m] = {}]

\* A second rejection, real or a lost answer: a claim's commit is discarded
\* (reset to the commit fetched last), a publish commit is kept.
PushRejectedAgain(m) ==
    /\ op[m].pc = "again"
    /\ \/ m \in behind /\ UNCHANGED faults
       \/ m \notin behind /\ Fault
    /\ Discards(m)
    /\ Fails(m)
    /\ UNCHANGED <<store, behind, overridden, believes>>

SecondAnswerLost(m) ==
    /\ op[m].pc = "again"
    /\ m \notin behind
    /\ Fault
    /\ Land(m)
    /\ IF op[m].kind = "publish"
       THEN /\ clone' = [clone EXCEPT ![m] = <<HeadOf(m)>>]
            /\ licence' = [licence EXCEPT ![m] = {}]
            /\ behind' = Machines \ {m}
       ELSE Discards(m) /\ behind' = Machines
    /\ Fails(m)
    /\ UNCHANGED believes

-----------------------------------------------------------------------------
(* The claim command's reaction to a claim that is held. *)

\* List fetches and reads the holder's heartbeat: a stale holder is taken over,
\* --force replaces any, and otherwise the command reports who holds the task.
\* Which of them happens is up to clocks and flags; the provider never judges.
\* The clone of a machine that saw another holder has nothing pending, so this
\* fetch does not conflict.
Judge(m) ==
    /\ op[m].pc = "judge"
    /\ CanRebase(clone[m])
    /\ Pulled(m, Rebased(clone[m]))
    /\ \/ op' = [op EXCEPT ![m].pc = "fetch", ![m].mode = "takeover"]
       \/ op' = [op EXCEPT ![m].pc = "fetch", ![m].mode = "force", ![m].expected = Free]
       \/ op' = [op EXCEPT ![m] = Idle]
    /\ UNCHANGED <<store, overridden, believes, toldGone, faults>>

-----------------------------------------------------------------------------
(* The environment. *)

\* A killed process: what it committed stays in the clone, what it only wrote
\* is discarded by the next Fetch (healClone).
Crash(m) ==
    /\ op[m].pc # "idle"
    /\ Fault
    /\ op' = [op EXCEPT ![m] = Idle]
    /\ UNCHANGED <<store, clone, behind, licence, overridden, believes, toldGone>>

Step(m) ==
    \/ Fetch(m) \/ FetchConflicts(m) \/ Push(m) \/ PushRejected(m)
    \/ Rebase(m) \/ RebaseConflicts(m) \/ PublishConflicts(m)
    \/ PushRejectedAgain(m) \/ Judge(m)

Next ==
    \E m \in Machines :
        \/ Claim(m) \/ Publish(m)
        \/ \E mode \in {"normal", "force"} : Release(m, mode)
        \/ Step(m)
        \/ FetchFails(m) \/ PushAnswerLost(m) \/ SecondAnswerLost(m) \/ RebaseFails(m)
        \/ Crash(m)

Spec == Init /\ [][Next]_vars

\* A command that runs ends its git calls; nobody has to start one.
FairSpec == Spec /\ \A m \in Machines : WF_vars(Step(m))

-----------------------------------------------------------------------------
(* Properties. *)

\* A machine that was told it acquired, refreshed or took over the claim is
\* the holder on the shared branch until it asks for a release or is replaced
\* by a take-over or a force aimed at it: neither a race, nor a commit that a
\* failed operation left in a clone, nor a lost answer takes it away.
BelievedClaimStands == \A m \in believes : store.holder = m \/ m \in overridden

\* Without a failure no operation leaves a claim commit behind in its clone,
\* whoever it raced with: a clone between operations is upstream's content
\* (mutateStore discards a commit it could not push).
NothingLeftBehind ==
    faults = 0 => \A m \in Machines : op[m].pc = "idle" => ~Pending(m)

\* Clones that commit, push, rebase, lose answers and crash implement an atomic
\* register: no push or replayed commit replaces a claim, or an unreadable file,
\* that its machine was not asked to replace, and a machine that is told the
\* claim is its own has it, or had it until it was displaced on purpose
\* (claims.go:141-182, 198-241).
Register == INSTANCE ClaimRegister WITH
    holder <- store.holder, asked <- licence, displaced <- overridden

AtomicRegister == Register!Spec

\* A command ends, however often the claim changes hands under it: the whole
\* operation is retried once and no more.
CommandEnds == \A m \in Machines : op[m].pc # "idle" ~> op[m].pc = "idle"

\* A release that reported success, or that there was nothing to release, means
\* that the shared branch holds no claim of that machine.
ReleasedMeansGone == \A m \in toldGone : store.holder # m
=============================================================================
