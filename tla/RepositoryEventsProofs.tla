----------------------- MODULE RepositoryEventsProofs -----------------------
(***************************************************************************)
(* Proofs about RepositoryEvents, for every feed, every number of workers  *)
(* and every number of failures.  The order in which jobs run follows from *)
(* the sequence numbers, and these from the receiver: it never reaches an  *)
(* event before the earlier ones are in the queue, in memory and on file.  *)
(* What it has acknowledged is on file, or covered by what is on file.     *)
(***************************************************************************)
EXTENDS RepositoryEvents, WellFoundedInduction, TLAPS

\* Sequence numbers (Enqueue, NewQueue): what is in memory is on file with the
\* same number; both hold an initial part of the feed, in its order; a job that
\* is only on file, left by a failed write, comes right after those.
Agree == \A i \in Known(mem) : i \in Known(disk) /\ disk[i].seq = mem[i].seq
Ordered(jobs) ==
    \A i \in Known(jobs) : \A j \in Events : j < i => j \in Known(jobs) /\ jobs[j].seq < jobs[i].seq
BelowNext == \A i \in Known(mem) : mem[i].seq < nextSeq
Ahead ==
    up => \A i \in Known(disk) \ Known(mem) : \A j \in Events :
              j < i => j \in Known(mem) /\ mem[j].seq < disk[i].seq
Numbering == Agree /\ Ordered(mem) /\ Ordered(disk) /\ BelowNext /\ Ahead

\* The receiver's cursor never passes an event that is not in the queue.
KnownUpTo(jobs, n) == \A j \in Events : j <= n => j \in Known(jobs)
CursorOK ==
    /\ KnownUpTo(disk, cursorFile.cursor) /\ KnownUpTo(disk, cursorFile.pending)
    /\ up => KnownUpTo(mem, cursorFile.cursor) /\ KnownUpTo(mem, cursorFile.pending)
ReceiverOK ==
    /\ receiver.pc \in {"resume", "resumed"} => KnownUpTo(mem, receiver.pending)
    /\ receiver.pc \in {"poll", "enqueue", "pending", "ack", "acked"} => KnownUpTo(mem, receiver.cursor)
    /\ receiver.pc = "enqueue" =>
        receiver.at \in Events /\ receiver.at <= receiver.last /\ KnownUpTo(mem, receiver.at - 1)
    /\ receiver.pc \in {"pending", "ack", "acked"} => KnownUpTo(mem, receiver.last)
Delivery == CursorOK /\ ReceiverOK

\* The workers and the jobs they run.
WorkersOK ==
    \A w \in Workers : Writing(w) =>
        /\ worker[w].job \in Events /\ mem[worker[w].job].state = "running"
        /\ Aliases(worker[w].job) \subseteq active
RunningOwned ==
    \A i \in Events : mem[i].state = "running" => \E w \in Workers : Writing(w) /\ worker[w].job = i
Exclusion == WorkersOK /\ RunningOwned /\ OneWriterPerRepository /\ ProviderOrder

Down ==
    ~up => /\ \A i \in Events : mem[i].state = "none"
           /\ \A w \in Workers : worker[w].pc = "idle"
           /\ receiver.pc = "load"

IInv == TypeOK /\ Down /\ Numbering /\ Delivery /\ Exclusion

-----------------------------------------------------------------------------
(* Natural numbers: a set of events has a greatest one. *)

LEMMA Smallest ==
  ASSUME NEW T \in SUBSET Nat, T # {}
  PROVE  \E n \in T : \A k \in T : n <= k
<1> DEFINE R == OpToRel(<, Nat)
<1>1. \A x, y \in Nat : <<x, y>> \in R <=> x < y
  BY DEF OpToRel
<1>2. IsWellFoundedOn(R, Nat)
  BY NatLessThanWellFounded
<1> HIDE DEF R
<1>3. PICK n \in T : \A k \in T : ~(<<k, n>> \in R)
  BY <1>2, WFMin
<1>4. \A k \in T : ~(k < n)
  BY <1>1, <1>3
<1>5. \A k \in T : n <= k
  BY <1>4
<1>6. QED
  BY <1>5

LEMMA Greatest ==
  ASSUME NEW N \in Nat, NEW S \in SUBSET (1..N), S # {}
  PROVE  \E n \in S : \A k \in S : k <= n
<1> DEFINE B == {n \in Nat : \A k \in S : k <= n}
<1>1. N \in B
  OBVIOUS
<1>2. PICK n \in B : \A k \in B : n <= k
  <2> HIDE DEF B
  <2>1. B \in SUBSET Nat
    BY DEF B
  <2>2. QED
    BY <1>1, <2>1, Smallest
<1>3. n \in S
  <2> SUFFICES ASSUME n \notin S PROVE FALSE
    OBVIOUS
  <2>1. n \in Nat /\ \A k \in S : k \in Nat /\ 1 <= k /\ k <= n /\ k # n
    OBVIOUS
  <2>2. PICK m \in S : TRUE
    OBVIOUS
  <2>3. n - 1 \in Nat
    BY <2>1, <2>2
  <2>4. ASSUME NEW k \in S PROVE k <= n - 1
    <3>1. k \in Nat /\ k <= n /\ k # n /\ n \in Nat
      BY <2>1, <2>4
    <3>2. QED
      BY <3>1
  <2>5. n - 1 \in B
    BY <2>3, <2>4
  <2>6. QED
    BY <1>2, <2>1, <2>5
<1>4. QED
  BY <1>2, <1>3

-----------------------------------------------------------------------------
(* Types, in the parts the groups of actions change. *)

LEMMA EventsFacts == Len(Feed) \in Nat /\ Events = 1..Len(Feed)
BY ConstantsOK DEF Events

LEMMA AliasesFacts == \A i \in Events : Aliases(i) \subseteq Repositories
BY DEF Aliases, Repositories, Events

Worker == [pc : {"idle", "deciding", "asleep", "claimed", "processing"}, job : Events \cup {0}]
JobsTyped == mem \in [Events -> Job] /\ disk \in [Events -> Job]
WorkersTyped == active \subseteq Repositories /\ worker \in [Workers -> Worker]
ReceiverTyped ==
    receiver \in [pc : {"load", "resume", "resumed", "poll", "enqueue", "pending", "ack", "acked"},
                  cursor : 0..Len(Feed), pending : 0..Len(Feed), at : 0..Len(Feed), last : 0..Len(Feed)]
FeedTyped ==
    /\ cursorFile \in [cursor : 0..Len(Feed), pending : 0..Len(Feed)]
    /\ acked \in 0..Len(Feed)
CountersTyped == up \in BOOLEAN /\ faults \in 0..MaxFaults
NextSeqTyped == nextSeq \in Nat \ {0}

LEMMA TypeParts ==
    TypeOK <=> /\ JobsTyped /\ WorkersTyped /\ ReceiverTyped /\ FeedTyped
               /\ CountersTyped /\ NextSeqTyped
BY DEF TypeOK, JobsTyped, WorkersTyped, ReceiverTyped, FeedTyped, CountersTyped, NextSeqTyped, Worker

LEMMA TypePartsNext ==
    TypeOK' <=> /\ JobsTyped' /\ WorkersTyped' /\ ReceiverTyped' /\ FeedTyped'
                /\ CountersTyped' /\ NextSeqTyped'
BY DEF TypeOK, JobsTyped, WorkersTyped, ReceiverTyped, FeedTyped, CountersTyped, NextSeqTyped, Worker

LEMMA FaultTyped ==
    ASSUME CountersTyped, Fault \/ UNCHANGED faults, up' = up \/ up' = TRUE \/ up' = FALSE
    PROVE  CountersTyped'
<1>1. faults' \in 0..MaxFaults
  BY ConstantsOK DEF CountersTyped, Fault
<1>2. up' \in BOOLEAN
  BY DEF CountersTyped
<1>3. QED
  BY <1>1, <1>2 DEF CountersTyped

-----------------------------------------------------------------------------
(* Steps that give no number and forget none. *)

Alike(a, b) == \A i \in Events : a[i].seq = b[i].seq /\ (a[i].state = "none" <=> b[i].state = "none")

LEMMA AlikeKnown ==
    ASSUME NEW a, NEW b, Alike(a, b)
    PROVE  Known(a) = Known(b) /\ \A n : KnownUpTo(a, n) <=> KnownUpTo(b, n)
BY DEF Alike, Known, KnownUpTo

LEMMA AlikeOrdered ==
    ASSUME NEW a, NEW b, Alike(a, b), Ordered(b) PROVE Ordered(a)
BY AlikeKnown DEF Alike, Ordered, Known

LEMMA NumberingKept ==
    ASSUME Numbering, Alike(mem', mem), Alike(disk', disk), nextSeq' = nextSeq, up' = up
    PROVE  Numbering'
<1>1. Known(mem') = Known(mem) /\ Known(disk') = Known(disk)
  BY AlikeKnown
<1>2. \A i \in Events : mem'[i].seq = mem[i].seq /\ disk'[i].seq = disk[i].seq
  BY DEF Alike
<1>3. Ordered(mem') /\ Ordered(disk')
  BY AlikeOrdered DEF Numbering
<1>4. Agree' /\ BelowNext' /\ Ahead'
  BY <1>1, <1>2 DEF Numbering, Agree, BelowNext, Ahead, Known
<1>5. QED
  BY <1>3, <1>4 DEF Numbering, Ordered, Known

LEMMA DeliveryKept ==
    ASSUME Delivery, Alike(mem', mem), Alike(disk', disk), up' = up,
           UNCHANGED <<receiver, cursorFile>>
    PROVE  Delivery'
<1>1. \A n : (KnownUpTo(mem', n) <=> KnownUpTo(mem, n)) /\ (KnownUpTo(disk', n) <=> KnownUpTo(disk, n))
  BY AlikeKnown
<1>2. QED
  BY <1>1 DEF Delivery, CursorOK, ReceiverOK, KnownUpTo, Known

\* A step that starts and ends no job and takes back none that is done with.
LEMMA ExclusionKept ==
    ASSUME Exclusion, active' = active,
           \A w \in Workers : (Writing(w)' <=> Writing(w)) /\ (Writing(w) => worker'[w].job = worker[w].job),
           \A i \in Events : /\ mem'[i].state = "running" <=> mem[i].state = "running"
                             /\ Done(mem, i) => Done(mem', i)
    PROVE  Exclusion'
<1>1. WorkersOK'
  BY DEF Exclusion, WorkersOK
<1>2. RunningOwned'
  BY DEF Exclusion, RunningOwned
<1>3. OneWriterPerRepository'
  BY DEF Exclusion, OneWriterPerRepository
<1>4. ProviderOrder'
  BY DEF Exclusion, ProviderOrder, Done
<1>5. QED
  BY <1>1, <1>2, <1>3, <1>4 DEF Exclusion

LEMMA AlikeItself == ASSUME NEW a, NEW b, a = b PROVE Alike(a, b)
BY DEF Alike

\* A worker that neither starts nor ends a job.
LEMMA WaitingStep ==
    ASSUME IInv, NEW w \in Workers, NothingToClaim(w) \/ Sleep(w) \/ WakeUp(w)
    PROVE  IInv'
<1>1. /\ worker' \in [Workers -> Worker]
      /\ worker'[w].pc \in {"idle", "deciding", "asleep"}
      /\ \A u \in Workers \ {w} : worker'[u] = worker[u]
  <2>1. worker \in [Workers -> Worker]
    BY TypeParts DEF IInv, WorkersTyped
  <2>2. CASE NothingToClaim(w)
    BY <2>1, <2>2 DEF NothingToClaim, Worker
  <2>3. CASE Sleep(w)
    BY <2>1, <2>3 DEF Sleep, Worker
  <2>4. CASE WakeUp(w)
    BY <2>1, <2>4 DEF WakeUp, Idle, Worker
  <2>5. QED
    BY <2>2, <2>3, <2>4
<1>2. /\ worker[w].pc \in {"idle", "deciding", "asleep"} /\ up
      /\ UNCHANGED <<mem, disk, nextSeq, active, receiver, cursorFile, acked, up, faults>>
  BY DEF NothingToClaim, Sleep, WakeUp, feedVars
<1>3. TypeOK'
  BY <1>1, <1>2, TypeParts, TypePartsNext
     DEF IInv, JobsTyped, WorkersTyped, ReceiverTyped, FeedTyped, CountersTyped, NextSeqTyped
<1>4. Down'
  BY <1>2 DEF Down
<1>5. Numbering' /\ Delivery'
  BY <1>2, AlikeItself, NumberingKept, DeliveryKept DEF IInv
<1>6. Exclusion'
  <2>1. \A u \in Workers : (Writing(u)' <=> Writing(u)) /\ (Writing(u) => worker'[u].job = worker[u].job)
    BY <1>1, <1>2 DEF Writing
  <2>2. QED
    BY <1>2, <2>1, ExclusionKept DEF IInv
<1>7. QED
  BY <1>3, <1>4, <1>5, <1>6 DEF IInv

\* retryDelay passes: only the due time of a job changes.
LEMMA ElapseStep == ASSUME IInv, NEW i \in Events, Elapse(i) PROVE IInv'
<1>1. /\ mem \in [Events -> Job] /\ disk \in [Events -> Job]
      /\ mem' = [mem EXCEPT ![i].waiting = FALSE] /\ disk' = [disk EXCEPT ![i].waiting = FALSE]
      /\ UNCHANGED <<nextSeq, active, worker, receiver, cursorFile, acked, up, faults>>
  BY TypeParts DEF IInv, JobsTyped, Elapse, feedVars
<1>a. /\ mem' \in [Events -> Job]
      /\ \A k \in Events : mem'[k].state = mem[k].state /\ mem'[k].seq = mem[k].seq
  <2> DEFINE job == [mem[i] EXCEPT !.waiting = FALSE]
  <2>0. mem[i] \in Job
    BY <1>1
  <2>1. job \in Job /\ job.state = mem[i].state /\ job.seq = mem[i].seq
    BY <2>0 DEF Job
  <2>2. mem' = [mem EXCEPT ![i] = job]
    BY Zenon DEF Elapse
  <2> HIDE DEF job
  <2>3. QED
    BY <1>1, <2>1, <2>2
<1>b. /\ disk' \in [Events -> Job]
      /\ \A k \in Events : disk'[k].state = disk[k].state /\ disk'[k].seq = disk[k].seq
  <2> DEFINE job == [disk[i] EXCEPT !.waiting = FALSE]
  <2>0. disk[i] \in Job
    BY <1>1
  <2>1. job \in Job /\ job.state = disk[i].state /\ job.seq = disk[i].seq
    BY <2>0 DEF Job
  <2>2. disk' = [disk EXCEPT ![i] = job]
    BY Zenon DEF Elapse
  <2> HIDE DEF job
  <2>3. QED
    BY <1>1, <2>1, <2>2
<1>2. /\ mem' \in [Events -> Job] /\ disk' \in [Events -> Job]
      /\ \A k \in Events : /\ mem'[k].state = mem[k].state /\ mem'[k].seq = mem[k].seq
                           /\ disk'[k].state = disk[k].state /\ disk'[k].seq = disk[k].seq
  BY <1>a, <1>b
<1>3. TypeOK'
  BY <1>1, <1>2, TypeParts, TypePartsNext
     DEF IInv, JobsTyped, WorkersTyped, ReceiverTyped, FeedTyped, CountersTyped, NextSeqTyped
<1>4. Alike(mem', mem) /\ Alike(disk', disk)
  BY <1>2 DEF Alike
<1>5. Numbering' /\ Delivery'
  BY <1>1, <1>4, NumberingKept, DeliveryKept DEF IInv
<1>6. Exclusion'
  BY <1>1, <1>2, ExclusionKept DEF IInv, Writing, Done
<1>7. Down'
  BY <1>1, <1>2 DEF IInv, Down
<1>8. QED
  BY <1>3, <1>5, <1>6, <1>7 DEF IInv

-----------------------------------------------------------------------------
(* applySupersedes marks queued jobs, in memory and then on file. *)

LEMMA MarkFacts ==
    ASSUME NEW m \in [Events -> Job], NEW C \in SUBSET Queued(m)
    PROVE  /\ MarkSuperseded(m, C) \in [Events -> Job]
           /\ Alike(MarkSuperseded(m, C), m)
           /\ \A i \in Events : /\ MarkSuperseded(m, C)[i].state = "running" <=> m[i].state = "running"
                                /\ Done(m, i) => Done(MarkSuperseded(m, C), i)
<1>1. \A i \in Events : MarkSuperseded(m, C)[i] = IF i \in C THEN [m[i] EXCEPT !.state = "superseded"] ELSE m[i]
  BY DEF MarkSuperseded
<1>2. ASSUME NEW i \in Events
      PROVE  /\ MarkSuperseded(m, C)[i] \in Job
             /\ MarkSuperseded(m, C)[i].seq = m[i].seq
             /\ MarkSuperseded(m, C)[i].state = IF i \in C THEN "superseded" ELSE m[i].state
  <2>1. m[i] \in Job
    OBVIOUS
  <2>2. QED
    BY <1>1, <2>1 DEF Job
<1>3. \A i \in C : m[i].state = "queued"
  BY DEF Queued
<1>4. MarkSuperseded(m, C) \in [Events -> Job]
  BY <1>2 DEF MarkSuperseded
<1>5. Alike(MarkSuperseded(m, C), m)
  BY <1>2, <1>3 DEF Alike
<1>6. QED
  BY <1>2, <1>3, <1>4, <1>5 DEF Done

LEMMA AppliesFacts ==
    ASSUME NEW m \in [Events -> Job], NEW d \in [Events -> Job], NEW S,
           \A i \in Known(m) : i \in Known(d) /\ d[i].seq = m[i].seq,
           AppliesAll(m, d, S) \/ AppliesSome(m, d, S)
    PROVE  /\ mem' \in [Events -> Job] /\ disk' \in [Events -> Job]
           /\ Alike(mem', m) /\ Alike(disk', d)
           /\ \A i \in Events : /\ mem'[i].state = "running" <=> m[i].state = "running"
                                /\ Done(m, i) => Done(mem', i)
<1>1. \E C \in SUBSET Queued(m) : \E W \in SUBSET C :
          mem' = MarkSuperseded(m, C) /\ disk' = [i \in Events |-> IF i \in W THEN mem'[i] ELSE d[i]]
  <2>1. CASE AppliesAll(m, d, S)
    BY <2>1 DEF AppliesAll
  <2>2. CASE AppliesSome(m, d, S)
    BY <2>2 DEF AppliesSome
  <2>3. QED
    BY <2>1, <2>2
<1>2. PICK C \in SUBSET Queued(m) : \E W \in SUBSET C :
          mem' = MarkSuperseded(m, C) /\ disk' = [i \in Events |-> IF i \in W THEN mem'[i] ELSE d[i]]
  BY <1>1
<1>3. PICK W \in SUBSET C :
          mem' = MarkSuperseded(m, C) /\ disk' = [i \in Events |-> IF i \in W THEN mem'[i] ELSE d[i]]
  BY <1>2
<1>4. /\ mem' \in [Events -> Job] /\ Alike(mem', m)
      /\ \A i \in Events : /\ mem'[i].state = "running" <=> m[i].state = "running"
                           /\ Done(m, i) => Done(mem', i)
  BY <1>3, MarkFacts
<1>5. disk' \in [Events -> Job]
  BY <1>3, <1>4
<1>6. \A i \in W : i \in Events /\ m[i].state = "queued"
  BY DEF Queued
<1>7. \A i \in W : mem'[i].seq = d[i].seq /\ mem'[i].state # "none" /\ d[i].state # "none"
  BY <1>4, <1>6 DEF Alike, Known
<1>8. Alike(disk', d)
  BY <1>3, <1>6, <1>7 DEF Alike
<1>9. QED
  BY <1>4, <1>5, <1>8

-----------------------------------------------------------------------------
(* The workers. *)

LEMMA SetJob ==
    ASSUME NEW a \in [Events -> Job], NEW i \in Events, NEW job \in Job,
           job.seq = a[i].seq, job.state # "none", a[i].state # "none"
    PROVE  [a EXCEPT ![i] = job] \in [Events -> Job] /\ Alike([a EXCEPT ![i] = job], a)
BY DEF Alike

\* A file that gets the record of a job that memory knows.
LEMMA SetFile ==
    ASSUME IInv, NEW i \in Known(mem), NEW job \in Job, job.seq = mem[i].seq, job.state # "none"
    PROVE  [disk EXCEPT ![i] = job] \in [Events -> Job] /\ Alike([disk EXCEPT ![i] = job], disk)
<1>1. i \in Known(disk) /\ disk[i].seq = mem[i].seq
  BY DEF IInv, Numbering, Agree
<1>2. i \in Events /\ disk[i].state # "none" /\ disk \in [Events -> Job]
  BY <1>1, TypeParts DEF IInv, JobsTyped, Known
<1>3. QED
  BY <1>1, <1>2, SetJob

LEMMA ClaimNextStep == ASSUME IInv, NEW w \in Workers, ClaimNext(w) PROVE IInv'
<1>1. /\ up /\ worker[w].pc = "idle"
      /\ UNCHANGED <<nextSeq, receiver, cursorFile, acked, up>>
  BY DEF ClaimNext, feedVars
<1>2. PICK i \in First :
        LET job == [mem[i] EXCEPT !.state = "running"]
        IN  \/ /\ mem' = [mem EXCEPT ![i] = job] /\ disk' = [disk EXCEPT ![i] = job]
               /\ active' = active \cup Aliases(i)
               /\ worker' = [worker EXCEPT ![w] = [pc |-> "claimed", job |-> i]]
               /\ UNCHANGED faults
            \/ /\ Fault
               /\ disk' \in {disk, [disk EXCEPT ![i] = job]}
               /\ worker' = [worker EXCEPT ![w].pc = "deciding"]
               /\ UNCHANGED <<mem, active>>
  BY DEF ClaimNext
<1> DEFINE job == [mem[i] EXCEPT !.state = "running"]
<1>3. mem \in [Events -> Job] /\ disk \in [Events -> Job] /\ worker \in [Workers -> Worker]
  BY TypeParts DEF IInv, JobsTyped, WorkersTyped
<1>4. i \in Events /\ Claimable(i) /\ mem[i].state = "queued" /\ i \in Known(mem)
  BY DEF First, Claimable, Queued, Known
<1>5. job \in Job /\ job.state = "running" /\ job.seq = mem[i].seq
  <2>1. mem[i] \in Job
    BY <1>3, <1>4
  <2>2. QED
    BY <2>1 DEF Job
<1>6. \/ /\ mem' = [mem EXCEPT ![i] = job] /\ disk' = [disk EXCEPT ![i] = job]
         /\ active' = active \cup Aliases(i)
         /\ worker' = [worker EXCEPT ![w] = [pc |-> "claimed", job |-> i]]
         /\ UNCHANGED faults
      \/ /\ Fault
         /\ disk' \in {disk, [disk EXCEPT ![i] = job]}
         /\ worker' = [worker EXCEPT ![w].pc = "deciding"]
         /\ UNCHANGED <<mem, active>>
  BY <1>2
<1> HIDE DEF job
<1>7. [disk EXCEPT ![i] = job] \in [Events -> Job] /\ Alike([disk EXCEPT ![i] = job], disk)
  BY <1>4, <1>5, SetFile
<1>8. [mem EXCEPT ![i] = job] \in [Events -> Job] /\ Alike([mem EXCEPT ![i] = job], mem)
  BY <1>3, <1>4, <1>5, SetJob
<1>9. /\ mem' \in [Events -> Job] /\ disk' \in [Events -> Job]
      /\ Alike(mem', mem) /\ Alike(disk', disk)
  BY <1>3, <1>6, <1>7, <1>8, AlikeItself
<1>10. Numbering' /\ Delivery' /\ Down'
  BY <1>1, <1>9, NumberingKept, DeliveryKept DEF IInv, Down
<1>11. worker' \in [Workers -> Worker] /\ active' \subseteq Repositories
  <2>1. worker' \in [Workers -> Worker]
    BY <1>3, <1>4, <1>6 DEF Worker
  <2>2. active' \subseteq Repositories
    BY <1>4, <1>6, AliasesFacts, TypeParts DEF IInv, WorkersTyped
  <2>3. QED
    BY <2>1, <2>2
<1>12. TypeOK'
  <2>1. CountersTyped'
    BY <1>1, <1>6, FaultTyped, TypeParts DEF IInv
  <2>2. QED
    BY <1>1, <1>9, <1>11, <2>1, TypeParts, TypePartsNext
       DEF IInv, JobsTyped, WorkersTyped, ReceiverTyped, FeedTyped, NextSeqTyped
<1>13. Exclusion'
  <2>1. CASE UNCHANGED <<mem, active>> /\ worker' = [worker EXCEPT ![w].pc = "deciding"]
    <3>1. \A u \in Workers : (Writing(u)' <=> Writing(u)) /\ (Writing(u) => worker'[u].job = worker[u].job)
      BY <1>1, <1>3, <2>1 DEF Writing, Worker
    <3>2. QED
      BY <2>1, <3>1, ExclusionKept DEF IInv
  <2>2. CASE /\ mem' = [mem EXCEPT ![i] = job] /\ active' = active \cup Aliases(i)
             /\ worker' = [worker EXCEPT ![w] = [pc |-> "claimed", job |-> i]]
    <3>1. /\ Writing(w)' /\ worker'[w].job = i /\ ~Writing(w)
          /\ \A u \in Workers \ {w} : (Writing(u)' <=> Writing(u)) /\ worker'[u] = worker[u]
      BY <1>1, <1>3, <2>2 DEF Writing
    <3>2. mem'[i].state = "running" /\ \A k \in Events \ {i} : mem'[k] = mem[k]
      BY <1>3, <1>4, <1>5, <2>2
    <3>3. WorkersOK'
      BY <1>4, <2>2, <3>1, <3>2 DEF IInv, Exclusion, WorkersOK
    <3>4. RunningOwned'
      BY <3>1, <3>2 DEF IInv, Exclusion, RunningOwned
    <3>5. \A u \in Workers : Writing(u) => ~Overlap(worker[u].job, i) /\ ~Overlap(i, worker[u].job)
      BY <1>4 DEF IInv, Exclusion, WorkersOK, Claimable, Overlap
    <3>6. OneWriterPerRepository'
      BY <3>1, <3>5 DEF IInv, Exclusion, OneWriterPerRepository
    <3>7. ASSUME NEW j \in Events, j < i, Overlap(j, i) PROVE Done(mem, j)
      <4>1. j \in Known(mem) /\ mem[j].seq < mem[i].seq
        BY <1>4, <3>7 DEF IInv, Numbering, Ordered
      <4>2. ~Overlap(i, j) <=> ~Overlap(j, i)
        BY DEF Overlap
      <4>3. mem[j].state # "queued"
        BY <1>4, <3>7, <4>1, <4>2 DEF Claimable, Queued
      <4>4. mem[j].state # "running"
        BY <3>5, <3>7 DEF IInv, Exclusion, RunningOwned
      <4>5. mem[j] \in Job
        BY <1>3
      <4>6. QED
        BY <4>1, <4>3, <4>4, <4>5 DEF Done, Known, Job
    <3>8. \A k \in Events : Done(mem, k) => Done(mem', k)
      BY <1>4, <3>2 DEF Done
    <3>9. ProviderOrder'
      BY <3>1, <3>7, <3>8 DEF IInv, Exclusion, ProviderOrder, Done
    <3>10. QED
      BY <3>3, <3>4, <3>6, <3>9 DEF Exclusion
  <2>3. QED
    BY <1>6, <2>1, <2>2
<1>14. QED
  BY <1>10, <1>12, <1>13 DEF IInv

\* The notification concerns only workers that sleep.
LEMMA NotifiedFacts ==
    ASSUME NEW v \in [Workers -> Worker]
    PROVE  /\ Notified(v) \in [Workers -> Worker]
           /\ \A u \in Workers :
                /\ Notified(v)[u].pc \in {"claimed", "processing"} <=> v[u].pc \in {"claimed", "processing"}
                /\ v[u].pc \in {"claimed", "processing"} => Notified(v)[u] = v[u]
<1>1. Idle \in Worker /\ Idle.pc = "idle"
  BY DEF Idle, Worker
<1>2. \A u \in Workers : Notified(v)[u] = IF v[u].pc = "asleep" THEN Idle ELSE v[u]
  BY DEF Notified
<1>3. Notified(v) \in [Workers -> Worker]
  BY <1>1 DEF Notified
<1>4. QED
  BY <1>1, <1>2, <1>3

LEMMA FinishStep ==
    ASSUME IInv, NEW w \in Workers, Writing(w), up, NEW ok \in BOOLEAN, Finish(w, ok)
    PROVE  IInv'
<1> DEFINE i == worker[w].job
           retry == [mem[i] EXCEPT !.state = "queued", !.waiting = TRUE]
           good == [mem[i] EXCEPT !.state = "succeeded", !.waiting = FALSE]
<1>1. mem \in [Events -> Job] /\ disk \in [Events -> Job] /\ worker \in [Workers -> Worker]
  BY TypeParts DEF IInv, JobsTyped, WorkersTyped
<1>2. i \in Events /\ mem[i].state = "running" /\ i \in Known(mem) /\ Aliases(i) \subseteq active
  BY DEF IInv, Exclusion, WorkersOK, Known
<1>3. mem[i] \in Job
  BY <1>1, <1>2
<1>4. retry \in Job /\ retry.state = "queued" /\ retry.seq = mem[i].seq
  BY <1>3 DEF Job
<1>5. good \in Job /\ good.state = "succeeded" /\ good.seq = mem[i].seq
  BY <1>3 DEF Job
<1>6. \E job \in {good, retry}, file \in {good, retry} :
        /\ mem' = [mem EXCEPT ![i] = job]
        /\ disk' \in {disk, [disk EXCEPT ![i] = file]}
  BY DEF Finish
<1>7. /\ active' = Freed(i)
      /\ worker' = Notified([worker EXCEPT ![w] = Idle])
      /\ UNCHANGED <<nextSeq, receiver, cursorFile, acked, up>>
      /\ Fault \/ UNCHANGED faults
  BY DEF Finish, feedVars
<1> HIDE DEF i, retry, good
<1>8. PICK job \in {good, retry}, file \in {good, retry} :
        /\ mem' = [mem EXCEPT ![i] = job]
        /\ disk' \in {disk, [disk EXCEPT ![i] = file]}
  BY <1>6
<1>9. /\ job \in Job /\ job.seq = mem[i].seq /\ job.state \in {"queued", "succeeded"}
      /\ file \in Job /\ file.seq = mem[i].seq /\ file.state \in {"queued", "succeeded"}
  BY <1>4, <1>5
<1>10. [mem EXCEPT ![i] = job] \in [Events -> Job] /\ Alike([mem EXCEPT ![i] = job], mem)
  BY <1>1, <1>2, <1>9, SetJob
<1>11. [disk EXCEPT ![i] = file] \in [Events -> Job] /\ Alike([disk EXCEPT ![i] = file], disk)
  BY <1>2, <1>9, SetFile
<1>12. /\ mem' \in [Events -> Job] /\ disk' \in [Events -> Job]
       /\ Alike(mem', mem) /\ Alike(disk', disk)
  BY <1>1, <1>8, <1>10, <1>11, AlikeItself
<1>13. Numbering' /\ Delivery' /\ Down'
  BY <1>7, <1>12, NumberingKept, DeliveryKept DEF IInv, Down
<1>14. /\ worker' \in [Workers -> Worker]
       /\ ~Writing(w)'
       /\ \A u \in Workers \ {w} : (Writing(u)' <=> Writing(u)) /\ (Writing(u) => worker'[u] = worker[u])
  <2> DEFINE v == [worker EXCEPT ![w] = Idle]
  <2>1. v \in [Workers -> Worker] /\ v[w].pc = "idle" /\ \A u \in Workers \ {w} : v[u] = worker[u]
    BY <1>1 DEF Idle, Worker
  <2>2. worker' = Notified(v)
    BY <1>7
  <2> HIDE DEF v
  <2>3. QED
    BY <2>1, <2>2, NotifiedFacts DEF Writing
<1>15. TypeOK'
  <2>1. CountersTyped'
    BY <1>7, FaultTyped, TypeParts DEF IInv
  <2>2. active' \subseteq Repositories
    BY <1>7, TypeParts DEF IInv, WorkersTyped, Freed
  <2>3. QED
    BY <1>7, <1>12, <1>14, <2>1, <2>2, TypeParts, TypePartsNext
       DEF IInv, JobsTyped, WorkersTyped, ReceiverTyped, FeedTyped, NextSeqTyped
<1>16. mem'[i].state \in {"queued", "succeeded"} /\ \A k \in Events \ {i} : mem'[k] = mem[k]
  BY <1>1, <1>2, <1>8, <1>9
<1>17. ASSUME NEW u \in Workers \ {w}, Writing(u)
       PROVE  /\ worker[u].job \in Events \ {i}
              /\ Aliases(worker[u].job) \cap Aliases(i) = {}
  <2>1. ~Overlap(worker[u].job, i)
    BY <1>17 DEF IInv, Exclusion, OneWriterPerRepository, i
  <2>2. worker[u].job \in Events
    BY <1>17 DEF IInv, Exclusion, WorkersOK
  <2>3. QED
    BY <2>1, <2>2 DEF Overlap, Aliases
<1>18. WorkersOK'
  BY <1>7, <1>14, <1>16, <1>17, ZenonT(90) DEF IInv, Exclusion, WorkersOK, Freed
<1>19. RunningOwned'
  BY <1>14, <1>16 DEF IInv, Exclusion, RunningOwned, i
<1>20. OneWriterPerRepository'
  BY <1>14 DEF IInv, Exclusion, OneWriterPerRepository
<1>21. \A k \in Events : Done(mem, k) => Done(mem', k)
  BY <1>2, <1>16 DEF Done
<1>22. ProviderOrder'
  BY <1>14, <1>21 DEF IInv, Exclusion, ProviderOrder, Done
<1>23. QED
  BY <1>13, <1>15, <1>18, <1>19, <1>20, <1>22 DEF IInv, Exclusion

LEMMA AdmitStep == ASSUME IInv, NEW w \in Workers, Admit(w) PROVE IInv'
<1>1. up /\ worker[w].pc = "claimed" /\ Writing(w)
  BY DEF Admit, Writing
<1>2. CASE Finish(w, FALSE)
  BY <1>1, <1>2, FinishStep
<1>3. CASE /\ worker' = [worker EXCEPT ![w].pc = "processing"]
           /\ disk' = [disk EXCEPT ![worker[w].job] = mem[worker[w].job]]
           /\ UNCHANGED <<mem, nextSeq, active, feedVars, up, faults>>
  <2>1. mem \in [Events -> Job] /\ worker \in [Workers -> Worker]
    BY TypeParts DEF IInv, JobsTyped, WorkersTyped
  <2>2. worker[w].job \in Known(mem) /\ worker[w].job \in Events
    BY <1>1 DEF IInv, Exclusion, WorkersOK, Known
  <2>3. mem[worker[w].job] \in Job /\ mem[worker[w].job].state # "none"
    BY <2>1, <2>2 DEF Known
  <2>4. disk' \in [Events -> Job] /\ Alike(disk', disk)
    BY <1>3, <2>2, <2>3, SetFile
  <2>5. UNCHANGED <<mem, nextSeq, active, receiver, cursorFile, acked, up, faults>>
    BY <1>3 DEF feedVars
  <2>6. Numbering' /\ Delivery' /\ Down'
    BY <1>1, <2>4, <2>5, AlikeItself, NumberingKept, DeliveryKept DEF IInv, Down
  <2>7. worker' \in [Workers -> Worker]
    BY <1>3, <2>1 DEF Worker
  <2>8. TypeOK'
    BY <2>4, <2>5, <2>7, TypeParts, TypePartsNext
       DEF IInv, JobsTyped, WorkersTyped, ReceiverTyped, FeedTyped, CountersTyped, NextSeqTyped
  <2>9. \A u \in Workers : (Writing(u)' <=> Writing(u)) /\ (Writing(u) => worker'[u].job = worker[u].job)
    BY <1>1, <1>3, <2>1 DEF Writing, Worker
  <2>10. Exclusion'
    BY <2>5, <2>9, ExclusionKept DEF IInv
  <2>11. QED
    BY <2>6, <2>8, <2>10 DEF IInv
<1>4. QED
  BY <1>2, <1>3 DEF Admit

LEMMA ProcessStep == ASSUME IInv, NEW w \in Workers, Process(w) PROVE IInv'
BY FinishStep DEF Process, Writing

-----------------------------------------------------------------------------
(* Enqueue. *)

Numbers(m, d, n) ==
    /\ \A k \in Known(m) : k \in Known(d) /\ d[k].seq = m[k].seq
    /\ Ordered(m) /\ Ordered(d)
    /\ \A k \in Known(m) : m[k].seq < n
    /\ \A k \in Known(d) \ Known(m) : \A j \in Events : j < k => j \in Known(m) /\ m[j].seq < d[k].seq

LEMMA NumbersFacts ==
    /\ up /\ Numbering => Numbers(mem, disk, nextSeq)
    /\ Numbers(mem', disk', nextSeq') => Numbering'
BY DEF Numbering, Numbers, Agree, BelowNext, Ahead, Ordered, Known

LEMMA NumbersAlike ==
    ASSUME NEW m, NEW d, NEW n, NEW a, NEW b, Numbers(m, d, n), Alike(a, m), Alike(b, d)
    PROVE  Numbers(a, b, n)
<1>1. Known(a) = Known(m) /\ Known(b) = Known(d) /\ Ordered(a) /\ Ordered(b)
  BY AlikeKnown, AlikeOrdered DEF Numbers
<1>2. \A i \in Events : a[i].seq = m[i].seq /\ b[i].seq = d[i].seq
  BY DEF Alike
<1>3. QED
  BY <1>1, <1>2 DEF Numbers, Known

\* The next number goes to the first event that memory does not know.
LEMMA NumbersNew ==
    ASSUME NEW m \in [Events -> Job], NEW d \in [Events -> Job], NEW n \in Nat, Numbers(m, d, n),
           NEW i \in Events, i \notin Known(m), KnownUpTo(m, i - 1),
           NEW job \in Job, job.state = "queued", job.seq = n,
           NEW a, \A k \in Events : a[k] = IF k = i THEN job ELSE m[k],
           NEW b, \A k \in Events : b[k] = IF k = i THEN job ELSE d[k]
    PROVE  /\ Numbers(a, b, n + 1) /\ Numbers(m, b, n + 1) /\ Numbers(m, d, n + 1)
           /\ Known(a) = Known(m) \cup {i} /\ Known(b) = Known(d) \cup {i}
<1>1. \A k \in Events : a[k] = IF k = i THEN job ELSE m[k]
  OBVIOUS
<1>2. \A k \in Events : b[k] = IF k = i THEN job ELSE d[k]
  OBVIOUS
<1>3. Known(a) = Known(m) \cup {i} /\ Known(b) = Known(d) \cup {i}
  BY <1>1, <1>2 DEF Known
<1>4. \A k \in Events : k \in Nat /\ m[k].seq \in Nat /\ d[k].seq \in Nat
  BY EventsFacts DEF Job
<1>5. \A k \in Events : k < i => k \in Known(m)
  BY <1>4 DEF KnownUpTo
<1>6. \A k \in Known(m) \cup Known(d) : k \in Events /\ k <= i
  BY <1>4 DEF Numbers, Ordered, Known
<1>7. \A k \in Known(m) : k \in Known(d) /\ d[k].seq = m[k].seq /\ m[k].seq < n /\ k # i
  BY DEF Numbers
<1>8. Ordered(a)
  <2> SUFFICES ASSUME NEW k \in Known(a), NEW j \in Events, j < k
               PROVE  j \in Known(a) /\ a[j].seq < a[k].seq
    BY DEF Ordered
  <2>1. CASE k = i
    BY <2>1, <1>1, <1>3, <1>4, <1>5, <1>7
  <2>2. CASE k # i
    BY <2>2, <1>1, <1>3, <1>4, <1>5, <1>6, <1>7 DEF Numbers, Ordered, Known
  <2>3. QED
    BY <2>1, <2>2
<1>9. Ordered(b)
  <2> SUFFICES ASSUME NEW k \in Known(b), NEW j \in Events, j < k
               PROVE  j \in Known(b) /\ b[j].seq < b[k].seq
    BY DEF Ordered
  <2>1. CASE k = i
    BY <2>1, <1>2, <1>3, <1>4, <1>5, <1>7
  <2>2. CASE k # i
    BY <2>2, <1>2, <1>3, <1>4, <1>5, <1>6, <1>7 DEF Numbers, Ordered, Known
  <2>3. QED
    BY <2>1, <2>2
<1>10. \A k \in Known(d) \ Known(m) : k = i
  BY <1>4, <1>5, <1>6, SMTT(30) DEF Known
<1>11. Numbers(a, b, n + 1)
  <2>1. \A k \in Known(a) : k \in Known(b) /\ b[k].seq = a[k].seq
    BY <1>1, <1>2, <1>3, <1>7 DEF Known
  <2>2. \A k \in Known(a) : a[k].seq < n + 1
    BY <1>1, <1>3, <1>4, <1>7 DEF Known
  <2>3. Known(b) \ Known(a) = {}
    BY <1>3, <1>10
  <2>4. QED
    BY <1>8, <1>9, <2>1, <2>2, <2>3 DEF Numbers
<1>12. Numbers(m, b, n + 1)
  <2>1. \A k \in Known(m) : k \in Known(b) /\ b[k].seq = m[k].seq
    BY <1>2, <1>3, <1>7 DEF Known
  <2>2. \A k \in Known(m) : m[k].seq < n + 1
    BY <1>4, <1>7 DEF Known
  <2>3. \A k \in Known(b) \ Known(m) : k = i /\ b[k].seq = n
    BY <1>2, <1>3, <1>10
  <2>4. \A k \in Known(b) \ Known(m) : \A j \in Events : j < k => j \in Known(m) /\ m[j].seq < b[k].seq
    BY <1>5, <1>7, <2>3
  <2>5. QED
    BY <1>9, <2>1, <2>2, <2>4 DEF Numbers
<1>13. Numbers(m, d, n + 1)
  BY <1>4 DEF Numbers, Known
<1>14. QED
  BY <1>3, <1>11, <1>12, <1>13

LEMMA KnownGrows ==
    ASSUME NEW a, NEW b, Known(a) \subseteq Known(b), NEW n, KnownUpTo(a, n) PROVE KnownUpTo(b, n)
BY DEF KnownUpTo

LEMMA CursorGrows ==
    ASSUME CursorOK, up, Known(mem) \subseteq Known(mem'), Known(disk) \subseteq Known(disk'),
           cursorFile' = cursorFile
    PROVE  CursorOK'
<1>1. /\ KnownUpTo(mem', cursorFile.cursor) /\ KnownUpTo(mem', cursorFile.pending)
      /\ KnownUpTo(disk', cursorFile.cursor) /\ KnownUpTo(disk', cursorFile.pending)
  BY KnownGrows DEF CursorOK
<1>2. QED
  BY <1>1 DEF CursorOK, KnownUpTo, Known

LEMMA GiveUpFacts ==
    ASSUME ReceiverTyped, GiveUp PROVE ReceiverTyped' /\ ReceiverOK'
<1>1. ReceiverTyped' /\ receiver'.pc = "load"
  BY DEF ReceiverTyped, GiveUp
<1>2. QED
  BY <1>1 DEF ReceiverOK

\* The receiver goes to the next event of its batch when this one is known.
LEMMA AdvanceFacts ==
    ASSUME IInv, receiver.pc = "enqueue", Advance,
           Known(mem) \subseteq Known(mem'), receiver.at \in Known(mem')
    PROVE  ReceiverTyped' /\ ReceiverOK'
<1>1. /\ ReceiverTyped /\ receiver.at \in Events /\ receiver.at <= receiver.last
      /\ KnownUpTo(mem', receiver.at - 1) /\ KnownUpTo(mem', receiver.cursor)
  BY TypeParts, KnownGrows DEF IInv, Delivery, ReceiverOK
<1>2. /\ receiver.at \in Nat \ {0} /\ receiver.last \in 0..Len(Feed) /\ Len(Feed) \in Nat
  BY <1>1, EventsFacts DEF ReceiverTyped
<1>3. \A j \in Events : j \in Nat
  BY EventsFacts
<1>4. KnownUpTo(mem', receiver.at)
  BY <1>1, <1>2, <1>3 DEF KnownUpTo
<1>5. CASE receiver.at = receiver.last
  <2>1. /\ ReceiverTyped' /\ receiver'.pc = "pending"
        /\ receiver'.cursor = receiver.cursor /\ receiver'.last = receiver.at
    BY <1>1, <1>5 DEF Advance, ReceiverTyped
  <2>2. QED
    BY <1>1, <1>4, <2>1 DEF ReceiverOK, KnownUpTo, Known
<1>6. CASE receiver.at # receiver.last
  <2>1. receiver.at + 1 \in Events /\ receiver.at + 1 <= receiver.last /\ receiver.at + 1 \in 0..Len(Feed)
    BY <1>1, <1>2, <1>6, EventsFacts
  <2>2. /\ ReceiverTyped' /\ receiver'.pc = "enqueue" /\ receiver'.at = receiver.at + 1
        /\ receiver'.cursor = receiver.cursor /\ receiver'.last = receiver.last
    <3>1. receiver' = [receiver EXCEPT !.at = receiver.at + 1]
      BY <1>6 DEF Advance
    <3>2. QED
      BY <1>1, <2>1, <3>1 DEF ReceiverTyped
  <2>3. receiver'.at - 1 = receiver.at
    BY <1>2, <2>2
  <2>4. QED
    BY <1>1, <1>4, <2>1, <2>2, <2>3 DEF ReceiverOK, KnownUpTo, Known
<1>7. QED
  BY <1>5, <1>6

\* What an Enqueue that ends with this memory and these files leaves true.
LEMMA EnqueueEnds ==
    ASSUME IInv, up, UNCHANGED <<active, cursorFile, acked, up>>,
           mem' \in [Events -> Job], disk' \in [Events -> Job], nextSeq' \in Nat \ {0},
           worker' = worker \/ worker' = Notified(worker),
           Fault \/ UNCHANGED faults,
           Numbers(mem', disk', nextSeq'),
           Known(mem) \subseteq Known(mem'), Known(disk) \subseteq Known(disk'),
           \A i \in Events : /\ mem'[i].state = "running" <=> mem[i].state = "running"
                             /\ Done(mem, i) => Done(mem', i),
           ReceiverTyped' /\ ReceiverOK'
    PROVE  IInv'
<1>1. /\ worker' \in [Workers -> Worker]
      /\ \A u \in Workers : (Writing(u)' <=> Writing(u)) /\ (Writing(u) => worker'[u].job = worker[u].job)
  <2>1. worker \in [Workers -> Worker]
    BY TypeParts DEF IInv, WorkersTyped
  <2>2. QED
    BY <2>1, NotifiedFacts DEF Writing
<1>2. Exclusion'
  BY <1>1, ExclusionKept DEF IInv
<1>3. Numbering' /\ Down'
  BY NumbersFacts DEF Down
<1>4. Delivery'
  BY CursorGrows DEF IInv, Delivery
<1>5. TypeOK'
  <2>1. CountersTyped'
    BY FaultTyped, TypeParts DEF IInv
  <2>2. QED
    BY <1>1, <2>1, TypeParts, TypePartsNext
       DEF IInv, JobsTyped, WorkersTyped, FeedTyped, NextSeqTyped
<1>6. QED
  BY <1>2, <1>3, <1>4, <1>5 DEF IInv

LEMMA EnqueueStep == ASSUME IInv, Enqueue PROVE IInv'
<1>1. /\ up /\ receiver.pc = "enqueue" /\ UNCHANGED <<active, cursorFile, acked, up>>
      /\ EnqueueNew(receiver.at) \/ EnqueueAgain(receiver.at)
  BY DEF Enqueue
<1>2. /\ mem \in [Events -> Job] /\ disk \in [Events -> Job] /\ nextSeq \in Nat \ {0} /\ ReceiverTyped
      /\ Numbers(mem, disk, nextSeq)
      /\ receiver.at \in Events /\ KnownUpTo(mem, receiver.at - 1)
  BY <1>1, TypeParts, NumbersFacts DEF IInv, JobsTyped, NextSeqTyped, Delivery, ReceiverOK
<1> DEFINE i == receiver.at
<1>3. CASE EnqueueNew(i)
  <2> DEFINE job == NewJob(i)
             m == [mem EXCEPT ![i] = job]
             d == [disk EXCEPT ![i] = job]
  <2>1. i \notin Known(mem) /\ nextSeq' = nextSeq + 1 /\ nextSeq' \in Nat \ {0}
    BY <1>2, <1>3 DEF EnqueueNew, Known
  <2>2. job \in Job /\ job.state = "queued" /\ job.seq = nextSeq
    BY <1>2 DEF NewJob, Supersedable, Queued, Job
  <2>3. \/ /\ AppliesAll(m, d, job.supersedes) /\ worker' = Notified(worker)
           /\ Advance /\ UNCHANGED faults
        \/ AppliesSome(m, d, job.supersedes) /\ Fault /\ GiveUp /\ UNCHANGED worker
        \/ disk' \in {disk, d} /\ Fault /\ GiveUp /\ UNCHANGED <<mem, worker>>
    BY <1>3 DEF EnqueueNew
  <2> HIDE DEF job
  <2>4. m \in [Events -> Job] /\ d \in [Events -> Job]
    BY <1>2, <2>2
  <2>5. /\ Numbers(m, d, nextSeq + 1) /\ Numbers(mem, d, nextSeq + 1) /\ Numbers(mem, disk, nextSeq + 1)
        /\ Known(m) = Known(mem) \cup {i} /\ Known(d) = Known(disk) \cup {i}
    <3>1. nextSeq \in Nat /\ i \in Events /\ KnownUpTo(mem, i - 1) /\ i \notin Known(mem)
      BY <1>2, <2>1
    <3>2. mem \in [Events -> Job] /\ disk \in [Events -> Job] /\ Numbers(mem, disk, nextSeq)
      BY <1>2
    <3>3. \A k \in Events : /\ m[k] = IF k = i THEN job ELSE mem[k]
                            /\ d[k] = IF k = i THEN job ELSE disk[k]
      BY <3>2
    <3> HIDE DEF i, m, d
    <3>4. QED
      BY <2>2, <3>1, <3>2, <3>3, NumbersNew
  <2>6. \A k \in Events : /\ m[k].state = "running" <=> mem[k].state = "running"
                          /\ Done(mem, k) => Done(m, k)
    <3>1. \A k \in Events : m[k] = IF k = i THEN job ELSE mem[k]
      BY <1>2
    <3>2. mem[i].state = "none"
      BY <1>2, <2>1 DEF Known
    <3>3. QED
      BY <2>2, <3>1, <3>2 DEF Done
  <2> HIDE DEF m, d
  <2>7. CASE AppliesAll(m, d, job.supersedes) \/ AppliesSome(m, d, job.supersedes)
    <3>1. \A k \in Known(m) : k \in Known(d) /\ d[k].seq = m[k].seq
      BY <2>5 DEF Numbers
    <3>2. /\ mem' \in [Events -> Job] /\ disk' \in [Events -> Job]
          /\ Alike(mem', m) /\ Alike(disk', d)
          /\ \A k \in Events : /\ mem'[k].state = "running" <=> m[k].state = "running"
                               /\ Done(m, k) => Done(mem', k)
      BY <2>4, <2>7, <3>1, AppliesFacts
    <3>3. Numbers(mem', disk', nextSeq')
      BY <2>1, <2>5, <3>2, NumbersAlike
    <3>4. Known(mem') = Known(m) /\ Known(disk') = Known(d)
      BY <3>2, AlikeKnown
    <3>5. /\ Known(mem) \subseteq Known(mem') /\ Known(disk) \subseteq Known(disk')
          /\ i \in Known(mem')
      BY <2>5, <3>4
    <3>6. \A k \in Events : /\ mem'[k].state = "running" <=> mem[k].state = "running"
                            /\ Done(mem, k) => Done(mem', k)
      BY <2>6, <3>2
    <3>7. /\ ReceiverTyped' /\ ReceiverOK'
          /\ worker' = worker \/ worker' = Notified(worker)
          /\ Fault \/ UNCHANGED faults
      <4>1. CASE Advance /\ worker' = Notified(worker) /\ UNCHANGED faults
        BY <1>1, <3>5, <4>1, AdvanceFacts
      <4>2. CASE GiveUp /\ Fault /\ UNCHANGED worker
        BY <1>2, <4>2, GiveUpFacts
      <4>3. QED
        BY <2>3, <4>1, <4>2
    <3>8. QED
      BY <1>1, <2>1, <3>2, <3>3, <3>5, <3>6, <3>7, EnqueueEnds
  <2>8. CASE disk' \in {disk, d} /\ Fault /\ GiveUp /\ UNCHANGED <<mem, worker>>
    <3>1. mem' \in [Events -> Job] /\ disk' \in [Events -> Job] /\ Numbers(mem', disk', nextSeq')
      BY <1>2, <2>1, <2>4, <2>5, <2>8
    <3>2. Known(mem) \subseteq Known(mem') /\ Known(disk) \subseteq Known(disk')
      BY <2>5, <2>8
    <3>3. ReceiverTyped' /\ ReceiverOK'
      BY <1>2, <2>8, GiveUpFacts
    <3>4. QED
      BY <1>1, <2>1, <2>8, <3>1, <3>2, <3>3, EnqueueEnds
  <2>9. QED
    BY <2>3, <2>7, <2>8
<1>4. CASE EnqueueAgain(i)
  <2>1. /\ i \in Known(mem) /\ UNCHANGED <<nextSeq, worker>>
        /\ AppliesAll(mem, disk, mem[i].supersedes) \/ AppliesSome(mem, disk, mem[i].supersedes)
        /\ (Advance /\ UNCHANGED faults) \/ (GiveUp /\ Fault)
    BY <1>2, <1>4 DEF EnqueueAgain, Known
  <2>2. \A k \in Known(mem) : k \in Known(disk) /\ disk[k].seq = mem[k].seq
    BY <1>2 DEF Numbers
  <2>3. /\ mem' \in [Events -> Job] /\ disk' \in [Events -> Job]
        /\ Alike(mem', mem) /\ Alike(disk', disk)
        /\ \A k \in Events : /\ mem'[k].state = "running" <=> mem[k].state = "running"
                             /\ Done(mem, k) => Done(mem', k)
    BY <1>2, <2>1, <2>2, AppliesFacts
  <2>4. Numbers(mem', disk', nextSeq') /\ nextSeq' \in Nat \ {0}
    BY <1>2, <2>1, <2>3, NumbersAlike
  <2>5. Known(mem') = Known(mem) /\ Known(disk') = Known(disk)
    BY <2>3, AlikeKnown
  <2>6. ReceiverTyped' /\ ReceiverOK'
    BY <1>1, <1>2, <2>1, <2>5, AdvanceFacts, GiveUpFacts
  <2>7. QED
    BY <1>1, <2>1, <2>3, <2>4, <2>5, <2>6, EnqueueEnds
<1>5. QED
  BY <1>1, <1>3, <1>4

-----------------------------------------------------------------------------
(* The receiver. *)

LEMMA ReceiverEnds ==
    ASSUME IInv, up, QueueIdle, ReceiverTyped', FeedTyped', Fault \/ UNCHANGED faults,
           CursorOK', ReceiverOK'
    PROVE  IInv'
<1>1. UNCHANGED <<mem, disk, nextSeq, active, worker, up>>
  BY DEF QueueIdle, queueVars
<1>2. TypeOK'
  <2>1. CountersTyped'
    BY <1>1, FaultTyped, TypeParts DEF IInv
  <2>2. QED
    BY <1>1, <2>1, TypeParts, TypePartsNext DEF IInv, JobsTyped, WorkersTyped, NextSeqTyped
<1>3. Numbering' /\ Down'
  BY <1>1, AlikeItself, NumberingKept DEF IInv, Down
<1>4. Exclusion'
  BY <1>1, ExclusionKept DEF IInv, Writing
<1>5. QED
  BY <1>2, <1>3, <1>4 DEF IInv, Delivery

\* Queue and cursor stay; the receiver moves.
LEMMA CursorStays ==
    ASSUME IInv, up, QueueIdle, cursorFile' = cursorFile PROVE CursorOK'
BY CursorGrows DEF IInv, Delivery, QueueIdle, queueVars

LEMMA SaveFacts ==
    ASSUME IInv, up, QueueIdle, UNCHANGED acked,
           NEW s \in [cursor : 0..Len(Feed), pending : 0..Len(Feed)],
           KnownUpTo(mem, s.cursor), KnownUpTo(mem, s.pending),
           NEW next \in {"poll", "ack", "load"}, next = "ack" => KnownUpTo(mem, receiver.last),
           SaveState(s, next)
    PROVE  IInv'
<1>1. UNCHANGED <<mem, disk, up>>
  BY DEF QueueIdle, queueVars
<1>2. Known(mem) \subseteq Known(disk)
  BY DEF IInv, Numbering, Agree
<1>3. KnownUpTo(disk, s.cursor) /\ KnownUpTo(disk, s.pending)
  BY <1>2, KnownGrows
<1>4. cursorFile' \in {cursorFile, s} /\ (Fault \/ UNCHANGED faults)
  BY DEF SaveState
<1>5. FeedTyped' /\ CursorOK'
  BY <1>1, <1>3, <1>4, TypeParts DEF IInv, Delivery, CursorOK, FeedTyped, KnownUpTo, Known
<1>6. ReceiverTyped' /\ ReceiverOK'
  <2>1. ReceiverTyped
    BY TypeParts DEF IInv
  <2>2. CASE GiveUp
    BY <2>1, <2>2, GiveUpFacts
  <2>3. CASE receiver' = [receiver EXCEPT !.pc = next, !.cursor = s.cursor, !.pending = s.pending]
    <3>1. /\ ReceiverTyped' /\ receiver'.pc = next /\ receiver'.cursor = s.cursor
          /\ receiver'.last = receiver.last
      BY <2>1, <2>3 DEF ReceiverTyped
    <3>2. QED
      BY <1>1, <3>1 DEF ReceiverOK, KnownUpTo, Known
  <2>4. QED
    BY <2>2, <2>3 DEF SaveState
<1>7. QED
  BY <1>4, <1>5, <1>6, ReceiverEnds

LEMMA AckFacts ==
    ASSUME IInv, up, QueueIdle, UNCHANGED cursorFile, NEW k \in 0..Len(Feed),
           NEW next \in {"resumed", "acked"},
           next = "resumed" => receiver.pc = "resume", next = "acked" => receiver.pc = "ack",
           AckUpTo(k, next)
    PROVE  IInv'
<1>1. UNCHANGED <<mem, disk, up>>
  BY DEF QueueIdle, queueVars
<1>2. acked' \in {acked, k} /\ (Fault \/ UNCHANGED faults)
  BY DEF AckUpTo
<1>3. FeedTyped'
  BY <1>2, TypeParts DEF IInv, FeedTyped
<1>4. ReceiverTyped' /\ ReceiverOK'
  <2>1. ReceiverTyped /\ ReceiverOK
    BY TypeParts DEF IInv, Delivery
  <2>2. CASE GiveUp
    BY <2>1, <2>2, GiveUpFacts
  <2>3. CASE receiver' = [receiver EXCEPT !.pc = next]
    <3>1. /\ ReceiverTyped' /\ receiver'.pc = next /\ receiver'.cursor = receiver.cursor
          /\ receiver'.pending = receiver.pending /\ receiver'.last = receiver.last
      BY <2>1, <2>3 DEF ReceiverTyped
    <3>2. QED
      BY <1>1, <2>1, <3>1 DEF ReceiverOK, KnownUpTo, Known
  <2>4. QED
    BY <2>2, <2>3 DEF AckUpTo
<1>5. QED
  BY <1>2, <1>3, <1>4, CursorStays, ReceiverEnds

LEMMA LoadStateStep == ASSUME IInv, LoadState PROVE IInv'
<1>1. /\ up /\ QueueIdle /\ UNCHANGED <<cursorFile, acked, faults>> /\ UNCHANGED mem
      /\ FeedTyped /\ KnownUpTo(mem, cursorFile.cursor) /\ KnownUpTo(mem, cursorFile.pending)
  BY TypeParts DEF LoadState, Receives, QueueIdle, queueVars, IInv, Delivery, CursorOK
<1>2. PICK next \in {"poll", "resume"} :
        receiver' = [NothingPolled EXCEPT !.pc = next, !.cursor = cursorFile.cursor,
                                          !.pending = cursorFile.pending]
  BY DEF LoadState
<1>3. /\ ReceiverTyped' /\ receiver'.pc = next
      /\ receiver'.cursor = cursorFile.cursor /\ receiver'.pending = cursorFile.pending
  <2>1. /\ cursorFile.cursor \in 0..Len(Feed) /\ cursorFile.pending \in 0..Len(Feed) /\ 0 \in 0..Len(Feed)
    BY <1>1, EventsFacts DEF FeedTyped
  <2>2. receiver' = [pc |-> next, cursor |-> cursorFile.cursor, pending |-> cursorFile.pending,
                     at |-> 0, last |-> 0]
    BY <1>2 DEF NothingPolled
  <2>3. QED
    BY <2>1, <2>2 DEF ReceiverTyped
<1>4. ReceiverOK'
  BY <1>1, <1>3 DEF ReceiverOK, KnownUpTo, Known
<1>5. QED
  BY <1>1, <1>3, <1>4, CursorStays, ReceiverEnds DEF FeedTyped

LEMMA PollStep == ASSUME IInv, Poll \/ PollFails PROVE IInv'
<1>1. /\ up /\ receiver.pc = "poll" /\ QueueIdle /\ UNCHANGED <<cursorFile, acked>> /\ UNCHANGED mem
      /\ ReceiverTyped /\ FeedTyped /\ KnownUpTo(mem, receiver.cursor)
  BY TypeParts DEF Poll, PollFails, Receives, QueueIdle, queueVars, IInv, Delivery, ReceiverOK
<1>2. FeedTyped'
  BY <1>1 DEF FeedTyped
<1>3. CASE PollFails
  BY <1>1, <1>2, <1>3, GiveUpFacts, CursorStays, ReceiverEnds DEF PollFails
<1>4. CASE Poll
  <2>1. PICK k \in receiver.cursor + 1 .. Len(Feed) :
          receiver' = [receiver EXCEPT !.pc = "enqueue", !.at = receiver.cursor + 1, !.last = k]
    BY <1>4 DEF Poll
  <2>2. receiver.cursor \in 0..Len(Feed) /\ Len(Feed) \in Nat
    BY <1>1, EventsFacts DEF ReceiverTyped
  <2>3. /\ receiver.cursor + 1 \in 0..Len(Feed) /\ k \in 0..Len(Feed) /\ receiver.cursor + 1 <= k
        /\ receiver.cursor + 1 \in Events /\ (receiver.cursor + 1) - 1 = receiver.cursor
    BY <2>2, EventsFacts
  <2>4. /\ ReceiverTyped' /\ receiver'.pc = "enqueue" /\ receiver'.cursor = receiver.cursor
        /\ receiver'.at = receiver.cursor + 1 /\ receiver'.last = k
    BY <1>1, <2>1, <2>3 DEF ReceiverTyped
  <2>5. ReceiverOK'
    BY <1>1, <2>3, <2>4 DEF ReceiverOK, KnownUpTo, Known
  <2>6. UNCHANGED faults
    BY <1>4 DEF Poll
  <2>7. QED
    BY <1>1, <1>2, <2>4, <2>5, <2>6, CursorStays, ReceiverEnds
<1>5. QED
  BY <1>3, <1>4

LEMMA ReceiverStepKeeps == ASSUME IInv, ReceiverStep PROVE IInv'
<1>1. /\ ReceiverTyped /\ ReceiverOK /\ KnownUpTo(mem, 0) /\ 0 \in 0..Len(Feed)
  BY TypeParts, EventsFacts DEF IInv, Delivery, KnownUpTo
<1>2. /\ receiver.cursor \in 0..Len(Feed) /\ receiver.pending \in 0..Len(Feed)
      /\ receiver.last \in 0..Len(Feed)
  BY <1>1 DEF ReceiverTyped
<1>3. CASE ResumeAck
  BY <1>2, <1>3, AckFacts DEF ResumeAck, Receives
<1>4. CASE Ack
  BY <1>2, <1>4, AckFacts DEF Ack, Receives
<1>5. CASE SaveResumed
  <2>1. KnownUpTo(mem, receiver.pending)
    BY <1>1, <1>5 DEF SaveResumed, Receives, ReceiverOK
  <2>2. QED
    BY <1>1, <1>2, <1>5, <2>1, SaveFacts DEF SaveResumed, Receives
<1>6. CASE SavePending
  <2>1. KnownUpTo(mem, receiver.cursor) /\ KnownUpTo(mem, receiver.last)
    BY <1>1, <1>6 DEF SavePending, Receives, ReceiverOK
  <2>2. QED
    BY <1>2, <1>6, <2>1, SaveFacts DEF SavePending, Receives
<1>7. CASE SaveCursor
  <2>1. KnownUpTo(mem, receiver.last)
    BY <1>1, <1>7 DEF SaveCursor, Receives, ReceiverOK
  <2>2. QED
    BY <1>1, <1>2, <1>7, <2>1, SaveFacts DEF SaveCursor, Receives
<1>8. QED
  BY <1>3, <1>4, <1>5, <1>6, <1>7, LoadStateStep, PollStep, EnqueueStep DEF ReceiverStep

-----------------------------------------------------------------------------
(* Stop and start. *)

\* NewQueue: the highest number on file.
LEMMA LastSequenceFacts ==
    ASSUME NEW d \in [Events -> Job], Ordered(d)
    PROVE  LastSequence(d) \in Nat /\ \A k \in Known(d) : d[k].seq <= LastSequence(d)
<1>1. \A k \in Events : k \in Nat /\ d[k].seq \in Nat
  BY EventsFacts DEF Job
<1>2. \E n \in SequenceNumbers(d) : \A k \in SequenceNumbers(d) : k <= n
  <2>1. CASE Known(d) = {}
    BY <2>1 DEF SequenceNumbers
  <2>2. CASE Known(d) # {}
    <3>1. Known(d) \in SUBSET (1..Len(Feed)) /\ Len(Feed) \in Nat
      BY EventsFacts DEF Known
    <3>2. PICK last \in Known(d) : \A k \in Known(d) : k <= last
      BY <2>2, <3>1, Greatest
    <3>3. \A k \in Known(d) : k \in Events
      BY DEF Known
    <3>4. \A k \in Known(d) : d[k].seq <= d[last].seq
      BY <1>1, <3>2, <3>3 DEF Ordered
    <3>5. QED
      BY <1>1, <3>2, <3>3, <3>4 DEF SequenceNumbers
  <2>3. QED
    BY <2>1, <2>2
<1>3. LastSequence(d) \in SequenceNumbers(d) /\ \A k \in SequenceNumbers(d) : k <= LastSequence(d)
  BY <1>2 DEF LastSequence
<1>4. QED
  BY <1>1, <1>3 DEF SequenceNumbers, Known

LEMMA RequeuedFacts ==
    ASSUME NEW d \in [Events -> Job]
    PROVE  /\ Requeued(d) \in [Events -> Job] /\ Alike(Requeued(d), d)
           /\ \A i \in Events : Requeued(d)[i].state # "running"
<1>1. ASSUME NEW i \in Events
      PROVE  /\ Requeued(d)[i] \in Job /\ Requeued(d)[i].seq = d[i].seq
             /\ Requeued(d)[i].state = IF d[i].state = "running" THEN "queued" ELSE d[i].state
  <2>1. d[i] \in Job
    OBVIOUS
  <2>2. Requeued(d)[i] = IF d[i].state = "running" THEN [d[i] EXCEPT !.state = "queued"] ELSE d[i]
    BY DEF Requeued
  <2>3. QED
    BY <2>1, <2>2 DEF Job
<1>2. Requeued(d) \in [Events -> Job]
  BY <1>1 DEF Requeued
<1>3. QED
  BY <1>1, <1>2 DEF Alike

LEMMA ReconciledFacts ==
    ASSUME NEW d \in [Events -> Job]
    PROVE  /\ Reconciled(d) \in [Events -> Job] /\ Alike(Reconciled(d), d)
           /\ \A i \in Events : Reconciled(d)[i].state = "running" <=> d[i].state = "running"
BY MarkFacts DEF Reconciled

LEMMA AlikeChain ==
    ASSUME NEW a, NEW b, NEW c, Alike(a, b), Alike(b, c) PROVE Alike(a, c)
BY DEF Alike

LEMMA MixedFacts ==
    ASSUME NEW a \in [Events -> Job], NEW b \in [Events -> Job], Alike(b, a), NEW S
    PROVE  Mixed(a, b, S) \in [Events -> Job] /\ Alike(Mixed(a, b, S), a)
BY DEF Mixed, Alike

LEMMA CrashStep == ASSUME IInv, Crash PROVE IInv'
<1>1. /\ mem' = [i \in Events |-> NoJob] /\ active' = {}
      /\ worker' = [w \in Workers |-> Idle] /\ receiver' = NothingPolled /\ up' = FALSE
      /\ UNCHANGED <<disk, nextSeq, cursorFile, acked>> /\ Fault
  BY DEF Crash
<1>2. mem' \in [Events -> Job] /\ \A i \in Events : mem'[i].state = "none"
  BY <1>1 DEF NoJob, Job
<1>3. worker' \in [Workers -> Worker] /\ \A w \in Workers : worker'[w].pc = "idle" /\ ~Writing(w)'
  BY <1>1 DEF Idle, Worker, Writing
<1>4. ReceiverTyped' /\ receiver'.pc = "load"
  BY <1>1, EventsFacts DEF NothingPolled, ReceiverTyped
<1>5. TypeOK'
  <2>1. CountersTyped'
    BY <1>1, FaultTyped, TypeParts DEF IInv
  <2>2. QED
    BY <1>1, <1>2, <1>3, <1>4, <2>1, TypeParts, TypePartsNext
       DEF IInv, JobsTyped, WorkersTyped, FeedTyped, NextSeqTyped
<1>6. Down'
  BY <1>2, <1>3, <1>4 DEF Down
<1>7. Numbering'
  BY <1>1, <1>2 DEF IInv, Numbering, Agree, BelowNext, Ahead, Ordered, Known
<1>8. Delivery'
  BY <1>1, <1>4 DEF IInv, Delivery, CursorOK, ReceiverOK, KnownUpTo, Known
<1>9. Exclusion'
  BY <1>2, <1>3 DEF Exclusion, WorkersOK, RunningOwned, OneWriterPerRepository, ProviderOrder
<1>10. QED
  BY <1>5, <1>6, <1>7, <1>8, <1>9 DEF IInv

LEMMA ReloadStep == ASSUME IInv, Reload PROVE IInv'
<1>1. /\ mem' = Reconciled(Requeued(disk)) /\ disk' = mem' /\ nextSeq' = 1 + LastSequence(disk)
      /\ ~up /\ up' = TRUE /\ UNCHANGED <<active, worker, receiver, cursorFile, acked, faults>>
  BY DEF Reload, feedVars
<1>2. disk \in [Events -> Job] /\ Ordered(disk) /\ worker \in [Workers -> Worker]
  BY TypeParts DEF IInv, JobsTyped, Numbering, WorkersTyped
<1>3. mem' \in [Events -> Job] /\ Alike(mem', disk) /\ \A i \in Events : mem'[i].state # "running"
  <2>1. /\ Requeued(disk) \in [Events -> Job] /\ Alike(Requeued(disk), disk)
        /\ \A i \in Events : Requeued(disk)[i].state # "running"
    BY <1>2, RequeuedFacts
  <2>2. /\ mem' \in [Events -> Job] /\ Alike(mem', Requeued(disk))
        /\ \A i \in Events : mem'[i].state # "running"
    BY <1>1, <2>1, ReconciledFacts
  <2>3. QED
    BY <2>1, <2>2, AlikeChain
<1>4. nextSeq' \in Nat \ {0} /\ \A k \in Known(disk) : disk[k].seq < nextSeq'
  <2>1. LastSequence(disk) \in Nat /\ \A k \in Known(disk) : disk[k].seq <= LastSequence(disk)
    BY <1>2, LastSequenceFacts
  <2>2. \A k \in Known(disk) : disk[k].seq \in Nat
    BY <1>2 DEF Known, Job
  <2>3. QED
    BY <1>1, <2>1, <2>2
<1>5. Known(mem') = Known(disk) /\ Ordered(mem') /\ \A n : KnownUpTo(mem', n) <=> KnownUpTo(disk, n)
  BY <1>2, <1>3, AlikeKnown, AlikeOrdered
<1>6. \A k \in Known(mem') : mem'[k].seq < nextSeq'
  BY <1>3, <1>4, <1>5 DEF Alike, Known
<1>7. Numbers(mem', disk', nextSeq')
  BY <1>1, <1>5, <1>6 DEF Numbers
<1>8. Numbering' /\ Down'
  BY <1>1, <1>7, NumbersFacts DEF Down
<1>9. Delivery'
  <2>1. receiver'.pc = "load"
    BY <1>1 DEF IInv, Down
  <2>2. /\ KnownUpTo(mem', cursorFile.cursor) /\ KnownUpTo(mem', cursorFile.pending)
    BY <1>5 DEF IInv, Delivery, CursorOK
  <2>3. QED
    BY <1>1, <2>1, <2>2 DEF Delivery, CursorOK, ReceiverOK, KnownUpTo, Known
<1>10. Exclusion'
  <2>1. \A w \in Workers : ~Writing(w)'
    BY <1>1 DEF IInv, Down, Writing
  <2>2. QED
    BY <1>3, <2>1 DEF Exclusion, WorkersOK, RunningOwned, OneWriterPerRepository, ProviderOrder
<1>11. TypeOK'
  <2>1. CountersTyped'
    BY <1>1, FaultTyped, TypeParts DEF IInv
  <2>2. QED
    BY <1>1, <1>3, <1>4, <2>1, TypeParts, TypePartsNext
       DEF IInv, JobsTyped, WorkersTyped, ReceiverTyped, FeedTyped, NextSeqTyped
<1>12. QED
  BY <1>8, <1>9, <1>10, <1>11 DEF IInv

LEMMA ReloadFailsStep == ASSUME IInv, ReloadFails PROVE IInv'
<1>1. /\ UNCHANGED <<mem, nextSeq, active, worker, receiver, cursorFile, acked, up>> /\ Fault
  BY DEF ReloadFails, feedVars
<1>2. disk \in [Events -> Job]
  BY TypeParts DEF IInv, JobsTyped
<1>3. disk' \in [Events -> Job] /\ Alike(disk', disk)
  <2> DEFINE r == Requeued(disk)
  <2>1. r \in [Events -> Job] /\ Alike(r, disk)
    BY <1>2, RequeuedFacts
  <2> HIDE DEF r
  <2>2. Reconciled(r) \in [Events -> Job] /\ Alike(Reconciled(r), r)
    BY <2>1, ReconciledFacts
  <2>3. \A S : /\ Mixed(disk, r, S) \in [Events -> Job] /\ Alike(Mixed(disk, r, S), disk)
               /\ Mixed(r, Reconciled(r), S) \in [Events -> Job] /\ Alike(Mixed(r, Reconciled(r), S), disk)
    BY <1>2, <2>1, <2>2, MixedFacts, AlikeChain
  <2>4. QED
    BY <2>3 DEF ReloadFails, r
<1>4. Numbering' /\ Delivery' /\ Down'
  BY <1>1, <1>3, AlikeItself, NumberingKept, DeliveryKept DEF IInv, Down
<1>5. Exclusion'
  BY <1>1, ExclusionKept DEF IInv, Writing
<1>6. TypeOK'
  <2>1. CountersTyped'
    BY <1>1, FaultTyped, TypeParts DEF IInv
  <2>2. QED
    BY <1>1, <1>3, <2>1, TypeParts, TypePartsNext
       DEF IInv, JobsTyped, WorkersTyped, ReceiverTyped, FeedTyped, NextSeqTyped
<1>7. QED
  BY <1>4, <1>5, <1>6 DEF IInv

-----------------------------------------------------------------------------
(* What the files say of superseded jobs. *)

\* A record of event i tells the truth: what its job supersedes it covers, and
\* if it says superseded then an event of K covers i.
Sound(job, i, K) ==
    /\ \A k \in job.supersedes : Covers(i, k)
    /\ job.state = "superseded" => \E j \in K : Covers(j, i)
AllSound(jobs, K) == \A i \in Events : Sound(jobs[i], i, K)

\* What the provider may forget has a file, and every record, in memory or on
\* file, is sound with respect to the files.
Durable == KnownUpTo(disk, acked) /\ AllSound(mem, Known(disk)) /\ AllSound(disk, Known(disk))

\* A covering update is not a rename, so what covers it covers the same.
LEMMA CoversTransitive ==
    ASSUME NEW i \in Events, NEW n \in Events, NEW j \in Events, Covers(n, i), Covers(j, n)
    PROVE  Covers(j, i)
<1>1. i \in Nat /\ n \in Nat /\ j \in Nat /\ i < n /\ n < j
  BY EventsFacts DEF Covers
<1>2. /\ Feed[j].reason = "updated" /\ Feed[n].reason = "updated"
      /\ Feed[j].repo = Feed[i].repo /\ Feed[n].repo = Feed[i].repo /\ Feed[j].ref = Feed[i].ref
  BY DEF Covers
<1>3. ASSUME NEW r \in Events, i < r, r < j, Feed[r].reason = "renamed"
      PROVE  Feed[i].repo \notin Aliases(r)
  <2>1. r \in Nat /\ r # n
    BY <1>2, <1>3, EventsFacts
  <2>2. CASE r < n
    BY <1>3, <2>2 DEF Covers
  <2>3. CASE n < r
    BY <1>2, <1>3, <2>3 DEF Covers
  <2>4. QED
    BY <1>1, <2>1, <2>2, <2>3
<1>4. QED
  BY <1>1, <1>2, <1>3 DEF Covers

\* Enqueue: the jobs a new update supersedes came before it, and no rename of
\* the repository in between (lastRenameSequence).
LEMMA NewCovers ==
    ASSUME IInv, NEW i \in Events, i \notin Known(mem), KnownUpTo(mem, i - 1), NEW k \in Supersedable(i)
    PROVE  Covers(i, k)
<1>1. /\ Feed[i].reason = "updated" /\ k \in Events /\ mem[k].state = "queued" /\ k \in Known(mem)
      /\ Feed[k].repo = Feed[i].repo /\ Feed[k].ref = Feed[i].ref
      /\ \A r \in RenamesOf(Feed[i].repo) : mem[r].seq < mem[k].seq
  BY DEF Supersedable, Queued, Known
<1>2. i \in Nat /\ k \in Nat /\ \A r \in Events : r \in Nat /\ mem[r].seq \in Nat
  <2>1. mem \in [Events -> Job]
    BY TypeParts DEF IInv, JobsTyped
  <2>2. QED
    BY <1>1, <2>1, EventsFacts DEF Job
<1>3. k < i
  <2>1. ~(i < k)
    BY <1>1 DEF IInv, Numbering, Ordered
  <2>2. QED
    BY <1>1, <1>2, <2>1
<1>4. ASSUME NEW r \in Events, k < r, r < i, Feed[r].reason = "renamed"
      PROVE  Feed[k].repo \notin Aliases(r)
  <2>1. r \in Known(mem)
    BY <1>2, <1>4 DEF KnownUpTo
  <2>2. mem[k].seq < mem[r].seq
    BY <1>1, <1>4, <2>1 DEF IInv, Numbering, Ordered
  <2>3. ~(mem[r].seq < mem[k].seq)
    BY <1>1, <1>2, <2>2
  <2>4. QED
    BY <1>1, <1>4, <2>1, <2>3 DEF RenamesOf
<1>5. QED
  BY <1>1, <1>3, <1>4 DEF Covers

\* A record that keeps what it supersedes and is not newly superseded.
LEMMA SoundEdit ==
    ASSUME NEW K, NEW i \in Events, NEW old, NEW new, Sound(old, i, K),
           new.supersedes = old.supersedes,
           new.state = "superseded" => old.state = "superseded"
    PROVE  Sound(new, i, K)
BY DEF Sound

LEMMA SoundGrows ==
    ASSUME NEW jobs, NEW K, NEW L, K \subseteq L, AllSound(jobs, K) PROVE AllSound(jobs, L)
BY DEF AllSound, Sound

LEMMA SoundSet ==
    ASSUME NEW K, NEW a \in [Events -> Job], AllSound(a, K), NEW i \in Events, NEW job, Sound(job, i, K)
    PROVE  AllSound([a EXCEPT ![i] = job], K)
BY DEF AllSound

LEMMA MarkSound ==
    ASSUME NEW K, NEW m \in [Events -> Job], AllSound(m, K), NEW C \in SUBSET Events,
           \A k \in C : \E j \in K : Covers(j, k)
    PROVE  AllSound(MarkSuperseded(m, C), K)
<1> SUFFICES ASSUME NEW i \in Events PROVE Sound(MarkSuperseded(m, C)[i], i, K)
  BY DEF AllSound
<1>1. MarkSuperseded(m, C)[i] = IF i \in C THEN [m[i] EXCEPT !.state = "superseded"] ELSE m[i]
  BY DEF MarkSuperseded
<1>2. m[i] \in Job /\ Sound(m[i], i, K)
  BY DEF AllSound
<1> DEFINE job == [m[i] EXCEPT !.state = "superseded"]
<1>3. job.supersedes = m[i].supersedes
  BY <1>2 DEF Job
<1> HIDE DEF job
<1>4. CASE i \in C
  <2>1. MarkSuperseded(m, C)[i] = job
    BY <1>1, <1>4 DEF job
  <2>2. QED
    BY <1>2, <1>3, <1>4, <2>1 DEF Sound
<1>5. CASE i \notin C
  BY <1>1, <1>2, <1>5
<1>6. QED
  BY <1>4, <1>5

LEMMA AppliesSound ==
    ASSUME NEW K, NEW m \in [Events -> Job], NEW d \in [Events -> Job], AllSound(m, K), AllSound(d, K),
           NEW S, \A k \in S : \E j \in K : Covers(j, k),
           AppliesAll(m, d, S) \/ AppliesSome(m, d, S)
    PROVE  AllSound(mem', K) /\ AllSound(disk', K)
<1>1. \E C \in SUBSET (S \cap Queued(m)) : \E W \in SUBSET C :
          mem' = MarkSuperseded(m, C) /\ disk' = [i \in Events |-> IF i \in W THEN mem'[i] ELSE d[i]]
  <2>1. CASE AppliesAll(m, d, S)
    BY <2>1 DEF AppliesAll
  <2>2. CASE AppliesSome(m, d, S)
    BY <2>2 DEF AppliesSome
  <2>3. QED
    BY <2>1, <2>2
<1>2. PICK C \in SUBSET (S \cap Queued(m)) : \E W \in SUBSET C :
          mem' = MarkSuperseded(m, C) /\ disk' = [i \in Events |-> IF i \in W THEN mem'[i] ELSE d[i]]
  BY <1>1
<1>3. C \in SUBSET Events /\ \A k \in C : \E j \in K : Covers(j, k)
  BY DEF Queued
<1>4. AllSound(mem', K)
  BY <1>2, <1>3, MarkSound
<1>5. QED
  BY <1>2, <1>4 DEF AllSound

\* NewQueue: a job that was running is queued again; reconcileSuperseded marks
\* what some file supersedes.
LEMMA RequeuedSound ==
    ASSUME NEW K, NEW d \in [Events -> Job], AllSound(d, K) PROVE AllSound(Requeued(d), K)
<1> SUFFICES ASSUME NEW i \in Events PROVE Sound(Requeued(d)[i], i, K)
  BY DEF AllSound
<1>1. d[i] \in Job /\ Sound(d[i], i, K)
  BY DEF AllSound
<1> DEFINE job == [d[i] EXCEPT !.state = "queued"]
<1>2. job.supersedes = d[i].supersedes /\ job.state = "queued"
  BY <1>1 DEF Job
<1>3. Requeued(d)[i] \in {job, d[i]}
  BY DEF Requeued
<1> HIDE DEF job
<1>4. QED
  BY <1>1, <1>2, <1>3, SoundEdit

LEMMA ReconciledSound ==
    ASSUME NEW K, NEW d \in [Events -> Job], AllSound(d, K), Known(d) \subseteq K
    PROVE  AllSound(Reconciled(d), K)
<1> DEFINE C == Queued(d) \cap UNION {d[i].supersedes : i \in Known(d)}
<1>1. C \in SUBSET Events
  BY DEF Queued
<1>2. ASSUME NEW k \in C PROVE \E j \in K : Covers(j, k)
  <2>1. PICK j \in Known(d) : k \in d[j].supersedes
    OBVIOUS
  <2>2. QED
    BY <2>1 DEF AllSound, Sound, Known
<1>3. Reconciled(d) = MarkSuperseded(d, C)
  BY DEF Reconciled
<1> HIDE DEF C
<1>4. QED
  BY <1>1, <1>2, <1>3, MarkSound

-----------------------------------------------------------------------------
(* Every step keeps the records sound. *)

\* A step that leaves the provider alone, forgets no file and writes only sound
\* records.
LEMMA DurableKept ==
    ASSUME Durable, acked' = acked, Known(disk) \subseteq Known(disk'),
           AllSound(mem', Known(disk)) /\ AllSound(disk', Known(disk))
    PROVE  Durable'
<1>1. KnownUpTo(disk', acked')
  BY KnownGrows DEF Durable
<1>2. AllSound(mem', Known(disk')) /\ AllSound(disk', Known(disk'))
  BY SoundGrows
<1>3. QED
  BY <1>1, <1>2 DEF Durable, AllSound, Sound, KnownUpTo, Known

LEMMA DurableWorker ==
    ASSUME IInv, Durable, NEW w \in Workers, WorkerStep(w) PROVE Durable'
<1> DEFINE K == Known(disk)
<1>1. /\ mem \in [Events -> Job] /\ disk \in [Events -> Job]
      /\ AllSound(mem, K) /\ AllSound(disk, K)
  BY TypeParts DEF IInv, JobsTyped, Durable
<1>2. ASSUME NEW i \in Known(mem), NEW job \in Job, NEW file \in Job,
             job.supersedes = mem[i].supersedes, file.supersedes = mem[i].supersedes,
             job.state \notin {"none", "superseded"}, file.state \notin {"none", "superseded"},
             mem' \in {mem, [mem EXCEPT ![i] = job]}, disk' \in {disk, [disk EXCEPT ![i] = file]},
             acked' = acked
      PROVE  Durable'
  <2>1. i \in Events /\ Sound(mem[i], i, K)
    BY <1>1 DEF AllSound, Known
  <2>2. Sound(job, i, K) /\ Sound(file, i, K)
    BY <1>2, <2>1, SoundEdit
  <2>3. AllSound(mem', K) /\ AllSound(disk', K)
    BY <1>1, <1>2, <2>1, <2>2, SoundSet
  <2>4. K \subseteq Known(disk')
    BY <1>1, <1>2, <2>1 DEF Known
  <2>5. QED
    BY <1>2, <2>3, <2>4, DurableKept
<1>3. ASSUME NEW ok \in BOOLEAN, Writing(w), Finish(w, ok) PROVE Durable'
  <2> DEFINE i == worker[w].job
             retry == [mem[i] EXCEPT !.state = "queued", !.waiting = TRUE]
             good == [mem[i] EXCEPT !.state = "succeeded", !.waiting = FALSE]
  <2>1. i \in Events /\ i \in Known(mem) /\ mem[i] \in Job
    BY <1>1, <1>3 DEF IInv, Exclusion, WorkersOK, Known
  <2>2. retry \in Job /\ retry.state = "queued" /\ retry.supersedes = mem[i].supersedes
    BY <2>1 DEF Job
  <2>3. good \in Job /\ good.state = "succeeded" /\ good.supersedes = mem[i].supersedes
    BY <2>1 DEF Job
  <2>4. \E job \in {good, retry}, file \in {good, retry} :
          mem' = [mem EXCEPT ![i] = job] /\ disk' \in {disk, [disk EXCEPT ![i] = file]}
    BY <1>3 DEF Finish
  <2>5. acked' = acked
    BY <1>3 DEF Finish, feedVars
  <2> HIDE DEF i, retry, good
  <2>6. PICK job \in {good, retry}, file \in {good, retry} :
          mem' = [mem EXCEPT ![i] = job] /\ disk' \in {disk, [disk EXCEPT ![i] = file]}
    BY <2>4
  <2>7. QED
    BY <1>2, <2>1, <2>2, <2>3, <2>5, <2>6
<1>4. CASE ClaimNext(w)
  <2>1. PICK i \in First :
          /\ mem' \in {mem, [mem EXCEPT ![i] = [mem[i] EXCEPT !.state = "running"]]}
          /\ disk' \in {disk, [disk EXCEPT ![i] = [mem[i] EXCEPT !.state = "running"]]}
    BY <1>4 DEF ClaimNext
  <2> DEFINE job == [mem[i] EXCEPT !.state = "running"]
  <2>2. i \in Events /\ i \in Known(mem) /\ mem[i] \in Job
    BY <1>1 DEF First, Claimable, Queued, Known
  <2>3. job \in Job /\ job.state = "running" /\ job.supersedes = mem[i].supersedes
    BY <2>2 DEF Job
  <2>4. mem' \in {mem, [mem EXCEPT ![i] = job]} /\ disk' \in {disk, [disk EXCEPT ![i] = job]}
    BY <2>1
  <2>5. acked' = acked
    BY <1>4 DEF ClaimNext, feedVars
  <2> HIDE DEF job
  <2>6. QED
    BY <1>2, <2>2, <2>3, <2>4, <2>5
<1>5. CASE Admit(w)
  <2>1. Writing(w)
    BY <1>5 DEF Admit, Writing
  <2>2. CASE Finish(w, FALSE)
    BY <1>3, <2>1, <2>2
  <2>3. CASE /\ disk' = [disk EXCEPT ![worker[w].job] = mem[worker[w].job]]
             /\ UNCHANGED <<mem, nextSeq, active, feedVars, up, faults>>
    <3> DEFINE i == worker[w].job
    <3>1. i \in Known(mem) /\ i \in Events /\ mem[i].state = "running" /\ mem[i] \in Job
      BY <1>1, <2>1 DEF IInv, Exclusion, WorkersOK, Known
    <3>2. mem' = mem /\ disk' = [disk EXCEPT ![i] = mem[i]] /\ acked' = acked
      BY <2>3 DEF feedVars
    <3> HIDE DEF i
    <3>3. QED
      BY <1>2, <3>1, <3>2
  <2>4. QED
    BY <1>5, <2>2, <2>3 DEF Admit
<1>6. CASE Process(w)
  BY <1>3, <1>6 DEF Process, Writing
<1>7. CASE NothingToClaim(w) \/ Sleep(w) \/ WakeUp(w)
  <2>1. mem' = mem /\ disk' = disk /\ acked' = acked
    BY <1>7 DEF NothingToClaim, Sleep, WakeUp, feedVars
  <2>2. QED
    BY <1>1, <2>1, DurableKept
<1>8. QED
  BY <1>4, <1>5, <1>6, <1>7 DEF WorkerStep

LEMMA DurableElapse ==
    ASSUME IInv, Durable, NEW i \in Events, Elapse(i) PROVE Durable'
<1> DEFINE K == Known(disk)
           job == [mem[i] EXCEPT !.waiting = FALSE]
           file == [disk[i] EXCEPT !.waiting = FALSE]
<1>1. /\ mem \in [Events -> Job] /\ disk \in [Events -> Job]
      /\ AllSound(mem, K) /\ AllSound(disk, K) /\ acked' = acked
  BY TypeParts DEF IInv, JobsTyped, Durable, Elapse, feedVars
<1>2. mem[i] \in Job /\ disk[i] \in Job /\ Sound(mem[i], i, K) /\ Sound(disk[i], i, K)
  BY <1>1 DEF AllSound
<1>3. job.supersedes = mem[i].supersedes /\ job.state = mem[i].state
  BY <1>2 DEF Job
<1>4. file.supersedes = disk[i].supersedes /\ file.state = disk[i].state
  BY <1>2 DEF Job
<1>5. mem' = [mem EXCEPT ![i] = job]
  BY Zenon DEF Elapse
<1>6. disk' = [disk EXCEPT ![i] = file]
  BY Zenon DEF Elapse
<1> HIDE DEF job, file
<1>7. Sound(job, i, K) /\ Sound(file, i, K)
  BY <1>2, <1>3, <1>4, SoundEdit
<1>8. AllSound(mem', K) /\ AllSound(disk', K)
  BY <1>1, <1>5, <1>6, <1>7, SoundSet
<1>9. K \subseteq Known(disk')
  BY <1>1, <1>4, <1>6 DEF Known
<1>10. QED
  BY <1>1, <1>8, <1>9, DurableKept

LEMMA DurableEnqueue == ASSUME IInv, Durable, Enqueue PROVE Durable'
<1> DEFINE i == receiver.at
<1>1. /\ acked' = acked /\ (EnqueueNew(i) \/ EnqueueAgain(i))
      /\ mem \in [Events -> Job] /\ disk \in [Events -> Job]
      /\ AllSound(mem, Known(disk)) /\ AllSound(disk, Known(disk)) /\ KnownUpTo(disk, acked)
  BY TypeParts DEF Enqueue, IInv, JobsTyped, Durable
<1>2. /\ i \in Events /\ KnownUpTo(mem, i - 1) /\ nextSeq \in Nat
      /\ \A k \in Known(mem) : k \in Known(disk) /\ disk[k].seq = mem[k].seq
  BY TypeParts DEF Enqueue, IInv, Delivery, ReceiverOK, NextSeqTyped, Numbering, Agree
<1>3. CASE EnqueueNew(i)
  <2> DEFINE job == NewJob(i)
             m == [mem EXCEPT ![i] = job]
             d == [disk EXCEPT ![i] = job]
             K == Known(disk) \cup {i}
  <2>1. i \notin Known(mem)
    BY <1>2, <1>3 DEF EnqueueNew, Known
  <2>2. job \in Job /\ job.state = "queued" /\ job.supersedes = Supersedable(i)
    BY <1>2 DEF NewJob, Supersedable, Queued, Job
  <2>3. \A k \in job.supersedes : Covers(i, k)
    BY <1>2, <2>1, <2>2, NewCovers
  <2>4. \/ AppliesAll(m, d, job.supersedes)
        \/ AppliesSome(m, d, job.supersedes)
        \/ disk' \in {disk, d} /\ mem' = mem
    BY <1>3 DEF EnqueueNew
  <2> HIDE DEF job, i
  <2>5. m \in [Events -> Job] /\ d \in [Events -> Job] /\ Known(d) = K
    BY <1>1, <1>2, <2>2 DEF Known
  <2>6. Sound(job, i, K)
    BY <2>2, <2>3 DEF Sound
  <2>7. AllSound(mem, K) /\ AllSound(disk, K)
    BY <1>1, SoundGrows
  <2>8. AllSound(m, K) /\ AllSound(d, K)
    BY <1>1, <1>2, <2>6, <2>7, SoundSet
  <2>9. \A k \in Known(m) : k \in Known(d) /\ d[k].seq = m[k].seq
    BY <1>1, <1>2, <2>2 DEF Known
  <2> HIDE DEF m, d
  <2>10. CASE AppliesAll(m, d, job.supersedes) \/ AppliesSome(m, d, job.supersedes)
    <3>1. AllSound(mem', K) /\ AllSound(disk', K)
      BY <2>3, <2>5, <2>8, <2>10, AppliesSound
    <3>2. Known(disk') = K
      BY <2>5, <2>9, <2>10, AppliesFacts, AlikeKnown
    <3>3. KnownUpTo(disk', acked')
      BY <1>1, <3>2, KnownGrows
    <3>4. QED
      BY <3>1, <3>2, <3>3 DEF Durable, AllSound, Sound, KnownUpTo, Known
  <2>11. CASE disk' = disk /\ mem' = mem
    BY <1>1, <2>11, DurableKept
  <2>12. CASE disk' = d /\ mem' = mem
    <3>1. KnownUpTo(disk', acked')
      BY <1>1, <2>5, <2>12, KnownGrows
    <3>2. QED
      BY <2>5, <2>7, <2>8, <2>12, <3>1 DEF Durable, AllSound, Sound, KnownUpTo, Known
  <2>13. QED
    BY <2>4, <2>10, <2>11, <2>12
<1>4. CASE EnqueueAgain(i)
  <2>1. /\ i \in Known(mem)
        /\ AllSound(mem, Known(disk))
        /\ AppliesAll(mem, disk, mem[i].supersedes) \/ AppliesSome(mem, disk, mem[i].supersedes)
    BY <1>1, <1>2, <1>4 DEF EnqueueAgain, Known
  <2> HIDE DEF i
  <2>2. i \in Known(disk) /\ \A k \in mem[i].supersedes : Covers(i, k)
    BY <1>2, <2>1 DEF AllSound, Sound
  <2>3. AllSound(mem', Known(disk)) /\ AllSound(disk', Known(disk))
    BY <1>1, <2>1, <2>2, AppliesSound
  <2>4. Known(disk') = Known(disk)
    BY <1>1, <1>2, <2>1, AppliesFacts, AlikeKnown
  <2>5. QED
    BY <1>1, <2>3, <2>4, DurableKept
<1>5. QED
  BY <1>1, <1>3, <1>4

LEMMA DurableReceiver == ASSUME IInv, Durable, ReceiverStep PROVE Durable'
<1>1. CASE Enqueue
  BY <1>1, DurableEnqueue
<1>2. ASSUME UNCHANGED <<mem, disk>>, KnownUpTo(disk, acked') PROVE Durable'
  BY <1>2 DEF Durable, AllSound, Sound, KnownUpTo, Known
<1>3. CASE ResumeAck \/ Ack
  <2>1. PICK k \in {receiver.pending, receiver.last} : acked' \in {acked, k} /\ KnownUpTo(mem, k)
    BY <1>3 DEF ResumeAck, Ack, AckUpTo, Receives, IInv, Delivery, ReceiverOK
  <2>2. KnownUpTo(disk, k)
    <3>1. Known(mem) \subseteq Known(disk)
      BY DEF IInv, Numbering, Agree
    <3>2. QED
      BY <2>1, <3>1, KnownGrows
  <2>3. UNCHANGED <<mem, disk>>
    BY <1>3 DEF ResumeAck, Ack, QueueIdle, queueVars
  <2>4. KnownUpTo(disk, acked')
    BY <2>1, <2>2 DEF Durable
  <2>5. QED
    BY <1>2, <2>3, <2>4
<1>4. CASE LoadState \/ SaveResumed \/ Poll \/ PollFails \/ SavePending \/ SaveCursor
  <2>1. UNCHANGED <<mem, disk, acked>>
    BY <1>4 DEF LoadState, SaveResumed, Poll, PollFails, SavePending, SaveCursor, QueueIdle, queueVars
  <2>2. QED
    BY <1>2, <2>1 DEF Durable
<1>5. QED
  BY <1>1, <1>3, <1>4 DEF ReceiverStep

LEMMA DurableRestart ==
    ASSUME IInv, Durable, Crash \/ Reload \/ ReloadFails PROVE Durable'
<1> DEFINE K == Known(disk)
           r == Requeued(disk)
<1>1. /\ disk \in [Events -> Job] /\ AllSound(mem, K) /\ AllSound(disk, K) /\ acked' = acked
  BY TypeParts DEF IInv, JobsTyped, Durable, Crash, Reload, ReloadFails, feedVars
<1>2. r \in [Events -> Job] /\ AllSound(r, K) /\ Known(r) = K
  BY <1>1, RequeuedFacts, RequeuedSound, AlikeKnown
<1> HIDE DEF r
<1>3. Reconciled(r) \in [Events -> Job] /\ AllSound(Reconciled(r), K) /\ Known(Reconciled(r)) = K
  BY <1>2, ReconciledFacts, ReconciledSound, AlikeKnown
<1>4. CASE Crash
  <2>1. mem' = [i \in Events |-> NoJob] /\ disk' = disk
    BY <1>4 DEF Crash
  <2>2. AllSound(mem', K)
    BY <2>1 DEF AllSound, Sound, NoJob
  <2>3. QED
    BY <1>1, <2>1, <2>2, DurableKept
<1>5. CASE Reload
  <2>1. mem' = Reconciled(r) /\ disk' = Reconciled(r)
    BY <1>5 DEF Reload, r
  <2>2. QED
    BY <1>1, <1>3, <2>1, DurableKept
<1>6. CASE ReloadFails
  <2>1. mem' = mem /\ \E S \in SUBSET Events : disk' = Mixed(disk, r, S) \/ disk' = Mixed(r, Reconciled(r), S)
    BY <1>6 DEF ReloadFails, r
  <2>2. \A i \in Events : disk'[i] \in {disk[i], r[i], Reconciled(r)[i]}
    BY <2>1 DEF Mixed
  <2>3. AllSound(disk', K)
    BY <1>1, <1>2, <1>3, <2>2 DEF AllSound
  <2>4. K \subseteq Known(disk')
    BY <1>2, <1>3, <2>2 DEF Known
  <2>5. QED
    BY <1>1, <2>1, <2>3, <2>4, DurableKept
<1>7. QED
  BY <1>4, <1>5, <1>6

-----------------------------------------------------------------------------
(* The theorems. *)

LEMMA Invariant == Spec => []IInv
<1>1. ASSUME Init PROVE IInv
  <2>1. mem \in [Events -> Job] /\ disk \in [Events -> Job] /\ worker \in [Workers -> Worker]
    BY <1>1 DEF Init, NoJob, Job, Idle, Worker
  <2>2. ReceiverTyped /\ receiver.pc = "load" /\ FeedTyped
    BY <1>1, EventsFacts DEF Init, NothingPolled, ReceiverTyped, FeedTyped
  <2>3. CountersTyped /\ NextSeqTyped /\ active = {}
    BY <1>1, ConstantsOK DEF Init, CountersTyped, NextSeqTyped
  <2>4. TypeOK
    BY <2>1, <2>2, <2>3, TypeParts DEF JobsTyped, WorkersTyped
  <2>5. Known(mem) = {} /\ Known(disk) = {} /\ \A i \in Events : mem[i].state = "none"
    BY <1>1 DEF Init, Known, NoJob
  <2>6. Numbering
    BY <2>5 DEF Numbering, Agree, Ordered, BelowNext, Ahead
  <2>7. \A i \in Events : ~(i <= 0)
    BY EventsFacts
  <2>8. Delivery
    BY <1>1, <2>2, <2>7 DEF Init, Delivery, CursorOK, ReceiverOK, KnownUpTo
  <2>9. \A w \in Workers : ~Writing(w)
    BY <1>1 DEF Init, Idle, Writing
  <2>10. Exclusion
    BY <2>5, <2>9 DEF Exclusion, WorkersOK, RunningOwned, OneWriterPerRepository, ProviderOrder
  <2>11. Down
    BY <1>1 DEF Init, Down
  <2>12. QED
    BY <2>4, <2>6, <2>8, <2>10, <2>11 DEF IInv
<1>2. ASSUME IInv, [Next]_vars PROVE IInv'
  <2>1. CASE UNCHANGED vars
    <3>1. UNCHANGED <<mem, disk, nextSeq, active, worker, receiver, cursorFile, acked, up, faults>>
      BY <2>1 DEF vars
    <3>2. TypeOK'
      BY <1>2, <3>1, TypeParts, TypePartsNext
         DEF IInv, JobsTyped, WorkersTyped, ReceiverTyped, FeedTyped, CountersTyped, NextSeqTyped
    <3>3. Numbering' /\ Delivery' /\ Down'
      BY <1>2, <3>1, AlikeItself, NumberingKept, DeliveryKept DEF IInv, Down
    <3>4. Exclusion'
      BY <1>2, <3>1, ExclusionKept DEF IInv, Writing
    <3>5. QED
      BY <3>2, <3>3, <3>4 DEF IInv
  <2>2. CASE \E w \in Workers : WorkerStep(w)
    BY <1>2, <2>2, ClaimNextStep, WaitingStep, AdmitStep, ProcessStep DEF WorkerStep
  <2>3. CASE \E i \in Events : Elapse(i)
    BY <1>2, <2>3, ElapseStep
  <2>4. CASE ReceiverStep
    BY <1>2, <2>4, ReceiverStepKeeps
  <2>5. CASE Crash \/ Reload \/ ReloadFails
    BY <1>2, <2>5, CrashStep, ReloadStep, ReloadFailsStep
  <2>6. QED
    BY <1>2, <2>1, <2>2, <2>3, <2>4, <2>5 DEF Next
<1>3. QED
  BY <1>1, <1>2, PTL DEF Spec

\* The records, the numbers and the cursors of a receiver and a queue that fail
\* and restart stay in their ranges, for every feed.
THEOREM EventsTypeCorrect == Spec => []TypeOK
BY Invariant, PTL DEF IInv

\* Two workers never run jobs of one repository at once, under whatever name
\* (claimNext, finish), for every feed and number of workers.
THEOREM AlwaysOneWriter == Spec => []OneWriterPerRepository
<1>1. IInv => OneWriterPerRepository
  BY DEF IInv, Exclusion
<1>2. QED
  BY <1>1, Invariant, PTL

\* A job starts only when the earlier events of its repository are done with.
THEOREM AlwaysInProviderOrder == Spec => []ProviderOrder
<1>1. IInv => ProviderOrder
  BY DEF IInv, Exclusion
<1>2. QED
  BY <1>1, Invariant, PTL

\* The files NewQueue reads carry different numbers, in the provider's order.
THEOREM SequencesAlwaysFollowFeed == Spec => []SequencesFollowFeed
<1>1. IInv => SequencesFollowFeed
  BY DEF IInv, Numbering, Ordered, SequencesFollowFeed, Known
<1>2. QED
  BY <1>1, Invariant, PTL

\* An acknowledged event is never lost to a superseded file (ReceiveOnce,
\* applySupersedes, NewQueue): it has a file, and the last of the updates that
\* cover it has one that does not say superseded, for every feed and whatever
\* writes, calls and restarts fail.
THEOREM AcknowledgedAlwaysDurable == Spec => []AcknowledgedIsDurable
<1>1. Init => Durable
  <2> SUFFICES ASSUME Init PROVE Durable
    OBVIOUS
  <2>1. \A i \in Events : i \in Nat \ {0}
    BY EventsFacts
  <2>2. KnownUpTo(disk, acked)
    BY <2>1 DEF Init, KnownUpTo
  <2>3. QED
    BY <2>2 DEF Init, Durable, AllSound, Sound, NoJob
<1>2. IInv /\ Durable /\ [Next]_vars => Durable'
  <2> SUFFICES ASSUME IInv, Durable, [Next]_vars PROVE Durable'
    OBVIOUS
  <2>1. CASE UNCHANGED vars
    BY <2>1 DEF vars, Durable, AllSound, Sound, KnownUpTo, Known
  <2>2. CASE Next
    BY <2>2, DurableWorker, DurableElapse, DurableReceiver, DurableRestart DEF Next
  <2>3. QED
    BY <2>1, <2>2
<1>3. IInv /\ Durable => AcknowledgedIsDurable
  <2> SUFFICES ASSUME IInv, Durable, NEW i \in 1..acked
               PROVE  /\ disk[i].state # "none"
                      /\ disk[i].state = "superseded" =>
                           \E j \in Events : Covers(j, i) /\ disk[j].state \notin {"none", "superseded"}
    BY DEF AcknowledgedIsDurable
  <2>1. i \in Events /\ disk[i].state # "none"
    BY EventsFacts, TypeParts DEF IInv, FeedTyped, Durable, KnownUpTo, Known
  <2>2. ASSUME disk[i].state = "superseded"
        PROVE  \E j \in Events : Covers(j, i) /\ disk[j].state \notin {"none", "superseded"}
    <3> DEFINE S == {j \in Known(disk) : Covers(j, i)}
    <3>1. S # {}
      BY <2>1, <2>2 DEF Durable, AllSound, Sound
    <3>2. S \in SUBSET (1..Len(Feed)) /\ Len(Feed) \in Nat
      BY EventsFacts DEF Known
    <3>3. PICK n \in S : \A k \in S : k <= n
      BY <3>1, <3>2, Greatest
    <3>4. n \in Events /\ disk[n].state # "none" /\ Covers(n, i)
      BY DEF Known
    <3>5. disk[n].state # "superseded"
      <4> SUFFICES ASSUME disk[n].state = "superseded" PROVE FALSE
        OBVIOUS
      <4>1. PICK j \in Known(disk) : Covers(j, n)
        BY <3>4 DEF Durable, AllSound, Sound
      <4>2. j \in Events /\ j \in Nat /\ n \in Nat
        BY <3>4, EventsFacts DEF Known
      <4>3. Covers(j, i)
        BY <2>1, <3>4, <4>1, <4>2, CoversTransitive
      <4>4. j <= n /\ n < j
        BY <3>3, <4>1, <4>3 DEF Covers
      <4>5. QED
        BY <4>2, <4>4
    <3>6. QED
      BY <3>4, <3>5
  <2>3. QED
    BY <2>1, <2>2
<1>4. QED
  BY <1>1, <1>2, <1>3, Invariant, PTL DEF Spec
=============================================================================
