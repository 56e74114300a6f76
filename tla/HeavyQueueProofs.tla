-------------------------- MODULE HeavyQueueProofs --------------------------
(***************************************************************************)
(* Proofs about the adaptive queue, for every set of jobs, every           *)
(* assignment of jobs to processes, every machine size and every number of *)
(* stalls, crashes and failures: order, number of holders, total of the    *)
(* shares, and the indivisible budget that the queue implements.           *)
(***************************************************************************)
EXTENDS HeavyQueue, FiniteSetTheorems, TLAPS

\* The phases in which a job holds the admission lock.
Locked == {"deciding", "counting", "refused", "announcing", "forgetting", "unlocking"}

LockInv == \A j \in Jobs : pc[j] \in Locked <=> lock = j

\* What the files and goroutines of a job say about where it is.
PathInv == \A j \in Jobs : path[j] => pc[j] \in Waiting \cup {"forgetting"}

TicketInv == \A j \in Jobs : ticket[j] # "absent" => path[j] \/ pc[j] = "dead"

HbInv == \A j \in Jobs : hb[j] # "off" => pc[j] \in {"running", "stopping"}

RecordInv == TypeOK /\ LockInv /\ PathInv /\ TicketInv /\ HbInv /\ NoGhostHolder

\* A ticket is missing or about to be deleted only for a job that a reader
\* took for dead, that is past the queue, or whose process died.
PresentInv ==
    \A i \in Jobs : pc[i] \in Waiting /\ path[i] /\ i \notin overlooked => ticket[i] # "absent"

DoomedTicketInv ==
    \A s \in Scanners : \A i \in deadTickets[s] :
        i \in overlooked \/ pc[i] \in Holding \cup {"gone", "dead"}

\* Who was in line ahead of j has a ticket, and an older one.
AheadInv ==
    \A j \in Jobs : \A i \in ahead[j] :
        /\ pc[i] \notin {"idle", "stamped"} /\ pc[j] \notin {"idle", "stamped"}
        /\ pc[i] \in Waiting => path[i]
        /\ pc[j] \in Waiting => i \in older[j]

\* NoOvertaking already holds from the moment the head has looked again.
OvertakeInv ==
    \A j \in Jobs : pc[j] \in {"counting", "announcing"} \cup Holding =>
        \A i \in ahead[j] : pc[i] \in Waiting => i \in overlooked

QueueInv == PresentInv /\ DoomedTicketInv /\ AheadInv /\ OvertakeInv

\* The same for holder records, and the room that the count has found.
HeldInv == \A j \in Jobs : pc[j] \in Holding /\ j \notin overlooked => holder[j] # "absent"

DoomedHolderInv ==
    \A s \in Scanners : \A i \in deadHolders[s] : i \in overlooked \/ pc[i] = "dead"

RoomInv ==
    \A j \in Jobs : pc[j] = "announcing" /\ overlooked = {}
                      => Cardinality(Holders) < heavyDefensiveMax

-----------------------------------------------------------------------------
\* The ticket count read under the lock stays within the number of jobs.
LEMMA LiveBound == TypeOK => Cardinality(Live(ticket)) \in 0..Cardinality(Jobs)
<1>. SUFFICES ASSUME TypeOK PROVE Cardinality(Live(ticket)) \in 0..Cardinality(Jobs)
  OBVIOUS
<1>1. Live(ticket) \in SUBSET Jobs
  BY DEF Live
<1>2. IsFiniteSet(Jobs)
  BY JobsAssumption
<1>3. IsFiniteSet(Live(ticket)) /\ Cardinality(Live(ticket)) <= Cardinality(Jobs)
  BY <1>1, <1>2, FS_Subset
<1>. QED
  BY <1>2, <1>3, FS_CardinalityType

LEMMA JobsFinite == IsFiniteSet(Jobs) /\ Cardinality(Jobs) \in Nat
BY JobsAssumption, FS_CardinalityType

LEMMA TypeInit == Init => TypeOK
BY JobsFinite DEF Init, TypeOK, Phases, Waiting, FileState, Scanners

LEMMA TypeStep == TypeOK /\ [Next]_vars => TypeOK'
<1>. SUFFICES ASSUME TypeOK, [Next]_vars PROVE TypeOK'
  OBVIOUS
<1>. USE BoundsAssumption DEF TypeOK, Goto, Phases, Waiting, Holding, FileState, Scanners,
     queueVars, lockVars, boundVars, doomed
<1>1. ASSUME NEW j \in Jobs,
             Stamp(j) \/ WriteTicket(j) \/ WriteTicketFails(j) \/ Heartbeat(j) \/ TryLock(j)
      PROVE  TypeOK'
  <2>1. CASE Stamp(j)
    BY <2>1 DEF Stamp
  <2>2. CASE WriteTicket(j)
    BY <2>2 DEF WriteTicket
  <2>3. CASE WriteTicketFails(j)
    BY <2>3 DEF WriteTicketFails, Fail
  <2>4. CASE Heartbeat(j)
    BY <2>4 DEF Heartbeat
  <2>5. CASE TryLock(j)
    BY <2>5 DEF TryLock
  <2>. QED
    BY <1>1, <2>1, <2>2, <2>3, <2>4, <2>5
<1>2. ASSUME NEW j \in Jobs, Peek(j) \/ Count(j)
      PROVE  TypeOK'
  <2>1. CASE Peek(j)
    BY <2>1 DEF Peek, ScanTickets, Dead
  <2>2. CASE Count(j)
    BY <2>2, JobsFinite DEF Count, ScanHolders, Dead
  <2>. QED
    BY <1>2, <2>1, <2>2
<1>3. ASSUME NEW j \in Jobs, Decide(j)
      PROVE  TypeOK'
  BY <1>3, LiveBound DEF Decide, ScanTickets, Dead
<1>4. ASSUME NEW j \in Jobs,
             Announce(j) \/ AnnounceFails(j) \/ BackOff(j) \/ Unlock(j) \/ Refresh(j)
      PROVE  TypeOK'
  BY <1>4 DEF Announce, AnnounceFails, BackOff, Unlock, Refresh, Fail
<1>5. ASSUME NEW j \in Jobs, Forget(j) \/ Cancel(j) \/ LockError(j)
      PROVE  TypeOK'
  <2>1. CASE Forget(j)
    BY <2>1 DEF Forget, LeaveQueue
  <2>2. ASSUME NEW from \in Phases, GiveUp(j, from), failures' \in Nat
        PROVE  TypeOK'
    BY <2>2 DEF GiveUp, LeaveQueue
  <2>. QED
    BY <1>5, <2>1, <2>2 DEF Cancel, LockError, Fail
<1>6. ASSUME NEW j \in Jobs,
             HeartbeatTick(j) \/ HeartbeatWrite(j) \/ HeartbeatExit(j)
               \/ Release(j) \/ RemoveHolder(j)
      PROVE  TypeOK'
  BY <1>6, SMTT(30) DEF HeartbeatTick, HeartbeatWrite, HeartbeatExit, Release, RemoveHolder
<1>7. ASSUME NEW s \in Scanners, ReapTicket(s) \/ ReapHolder(s)
      PROVE  TypeOK'
  BY <1>7, SMTT(30) DEF ReapTicket, ReapHolder
<1>8. CASE Observe
  BY <1>8 DEF Observe, ScanTickets, ScanHolders, Dead
<1>9. ASSUME NEW j \in Jobs, Expire(j)
      PROVE  TypeOK'
  BY <1>9 DEF Expire, Age
<1>10. ASSUME NEW P \in SUBSET Pids, Stall(P)
       PROVE  TypeOK'
  BY <1>10 DEF Stall, Age
<1>11. ASSUME NEW p \in Pids, Crash(p) \/ Reuse(p)
       PROVE  TypeOK'
  <2>1. CASE Crash(p)
    <3>1. pc' \in [Jobs -> Phases] /\ hb' \in [Jobs -> {"off", "idle", "writing"}]
      BY <2>1 DEF Crash
    <3>2. path' \in [Jobs -> BOOLEAN] /\ alive' \in [Pids -> BOOLEAN]
      BY <2>1 DEF Crash
    <3>3. /\ deadTickets' \in [Scanners -> SUBSET Jobs]
          /\ deadHolders' \in [Scanners -> SUBSET Jobs]
      BY <2>1 DEF Crash
    <3>4. lock' \in Jobs \cup {None} /\ queued' \in 0..Cardinality(Jobs)
      BY <2>1, JobsFinite DEF Crash
    <3>5. crashes' \in Nat /\ UNCHANGED <<older, ticket, holder, ahead, overlooked, stalls, failures>>
      BY <2>1 DEF Crash
    <3>. QED
      BY <3>1, <3>2, <3>3, <3>4, <3>5
  <2>2. CASE Reuse(p)
    BY <2>2 DEF Reuse
  <2>. QED
    BY <1>11, <2>1, <2>2
<1>12. CASE UNCHANGED vars
  BY <1>12 DEF vars
<1>. QED
  BY <1>1, <1>2, <1>3, <1>4, <1>5, <1>6, <1>7, <1>8, <1>9, <1>10, <1>11, <1>12
     DEF Next, Step

\* Type correctness: whatever the jobs, the readers and the environment do,
\* every variable of the queue stays in its type (heavy.go, visibility.go).
THEOREM TypeCorrect == Spec => []TypeOK
BY TypeInit, TypeStep, PTL DEF Spec
-----------------------------------------------------------------------------
LEMMA RecordInit == Init => RecordInv
BY TypeInit, JobsAssumption
   DEF Init, RecordInv, LockInv, PathInv, TicketInv, HbInv, NoGhostHolder, Locked

LEMMA RecordStep == RecordInv /\ [Next]_vars => RecordInv'
<1>. SUFFICES ASSUME RecordInv, [Next]_vars PROVE RecordInv'
  OBVIOUS
<1>0. TypeOK /\ TypeOK'
  BY TypeStep DEF RecordInv
<1>. USE <1>0, JobsAssumption
     DEF RecordInv, TypeOK, LockInv, PathInv, TicketInv, HbInv, NoGhostHolder, Goto, Phases,
         Waiting, Holding, Locked, FileState, queueVars, lockVars, boundVars, doomed
<1>1. ASSUME NEW j \in Jobs, Stamp(j) PROVE RecordInv'
  BY <1>1 DEF Stamp
<1>2. ASSUME NEW j \in Jobs, WriteTicket(j) PROVE RecordInv'
  BY <1>2 DEF WriteTicket
<1>3. ASSUME NEW j \in Jobs, WriteTicketFails(j) PROVE RecordInv'
  BY <1>3 DEF WriteTicketFails, Fail
<1>4. ASSUME NEW j \in Jobs, Heartbeat(j) PROVE RecordInv'
  BY <1>4 DEF Heartbeat
<1>5. ASSUME NEW j \in Jobs, Peek(j) PROVE RecordInv'
  BY <1>5, SMTT(30) DEF Peek, ScanTickets
<1>6. ASSUME NEW j \in Jobs, TryLock(j) PROVE RecordInv'
  BY <1>6, SMTT(30) DEF TryLock
<1>7. ASSUME NEW j \in Jobs, Decide(j) PROVE RecordInv'
  BY <1>7, SMTT(30) DEF Decide, ScanTickets
<1>8. ASSUME NEW j \in Jobs, Count(j) PROVE RecordInv'
  <2>1. /\ pc[j] = "counting"
        /\ \E to \in {"announcing", "refused"} : pc' = [pc EXCEPT ![j] = to]
        /\ UNCHANGED <<path, ticket, holder, lock, hb>>
    BY <1>8 DEF Count
  <2>. QED
    BY <2>1
<1>9. ASSUME NEW j \in Jobs, Announce(j) PROVE RecordInv'
  BY <1>9 DEF Announce
<1>10. ASSUME NEW j \in Jobs, AnnounceFails(j) PROVE RecordInv'
  BY <1>10 DEF AnnounceFails, Fail
<1>11. ASSUME NEW j \in Jobs, BackOff(j) PROVE RecordInv'
  BY <1>11 DEF BackOff
<1>12. ASSUME NEW j \in Jobs, Forget(j) PROVE RecordInv'
  BY <1>12 DEF Forget, LeaveQueue
<1>13. ASSUME NEW j \in Jobs, Unlock(j) PROVE RecordInv'
  BY <1>13 DEF Unlock
<1>14. ASSUME NEW j \in Jobs, Cancel(j) PROVE RecordInv'
  BY <1>14 DEF Cancel, GiveUp, LeaveQueue
<1>15. ASSUME NEW j \in Jobs, LockError(j) PROVE RecordInv'
  BY <1>15 DEF LockError, GiveUp, LeaveQueue, Fail
<1>16. ASSUME NEW j \in Jobs, Refresh(j) PROVE RecordInv'
  BY <1>16 DEF Refresh
<1>17. ASSUME NEW j \in Jobs, HeartbeatTick(j) PROVE RecordInv'
  BY <1>17 DEF HeartbeatTick
<1>18. ASSUME NEW j \in Jobs, HeartbeatWrite(j) PROVE RecordInv'
  BY <1>18 DEF HeartbeatWrite
<1>19. ASSUME NEW j \in Jobs, HeartbeatExit(j) PROVE RecordInv'
  BY <1>19 DEF HeartbeatExit
<1>20. ASSUME NEW j \in Jobs, Release(j) PROVE RecordInv'
  BY <1>20 DEF Release
<1>21. ASSUME NEW j \in Jobs, RemoveHolder(j) PROVE RecordInv'
  BY <1>21 DEF RemoveHolder
<1>22. ASSUME NEW j \in Jobs, Expire(j) PROVE RecordInv'
  BY <1>22 DEF Expire, Age
<1>23. ASSUME NEW s \in Scanners, ReapTicket(s) PROVE RecordInv'
  BY <1>23 DEF ReapTicket
<1>24. ASSUME NEW s \in Scanners, ReapHolder(s) PROVE RecordInv'
  BY <1>24 DEF ReapHolder
<1>25. CASE Observe
  BY <1>25 DEF Observe, ScanTickets, ScanHolders
<1>26. ASSUME NEW P \in SUBSET Pids, Stall(P) PROVE RecordInv'
  BY <1>26 DEF Stall, Age
<1>27. ASSUME NEW p \in Pids, Crash(p) PROVE RecordInv'
  <2>. DEFINE lost == {j \in Jobs : PidOf[j] = p /\ pc[j] \notin {"idle", "gone"}}
  <2>1. /\ \A j \in lost : pc'[j] = "dead" /\ ~path'[j] /\ hb'[j] = "off"
        /\ \A j \in Jobs \ lost : pc'[j] = pc[j] /\ path'[j] = path[j] /\ hb'[j] = hb[j]
        /\ lock' = IF lock \in lost THEN None ELSE lock
        /\ UNCHANGED <<ticket, holder>>
    BY <1>27 DEF Crash
  <2>2. LockInv'
    BY <2>1
  <2>3. PathInv' /\ HbInv' /\ NoGhostHolder'
    BY <2>1
  <2>4. TicketInv'
    BY <2>1
  <2>. QED
    BY <2>2, <2>3, <2>4
<1>28. ASSUME NEW p \in Pids, Reuse(p) PROVE RecordInv'
  BY <1>28 DEF Reuse
<1>29. CASE UNCHANGED vars
  BY <1>29 DEF vars
<1>. QED
  BY <1>1, <1>2, <1>3, <1>4, <1>5, <1>6, <1>7, <1>8, <1>9, <1>10, <1>11,
     <1>12, <1>13, <1>14, <1>15, <1>16, <1>17, <1>18, <1>19, <1>20, <1>21,
     <1>22, <1>23, <1>24, <1>25, <1>26, <1>27, <1>28, <1>29
     DEF Next, Step, Scanners

\* In every reachable state the lock, the files and the goroutines of a job
\* agree with the point its code has reached.
THEOREM RecordsConsistent == Spec => []RecordInv
BY RecordInit, RecordStep, PTL DEF Spec

\* A holder record exists only while its lease is held or after its process
\* died: Release never leaves a heartbeat behind that brings the record back
\* (queue.go:400-415, 447-459).
THEOREM NoGhost == Spec => []NoGhostHolder
<1>1. RecordInv => NoGhostHolder
  BY DEF RecordInv
<1>. QED
  BY <1>1, RecordsConsistent, PTL

\* No admission decision counts a job twice (heavy.go:216-218).
THEOREM CountedOnce == Spec => []NotCountedTwice
<1>1. RecordInv => NotCountedTwice
  BY DEF RecordInv, TicketInv, PathInv, NoGhostHolder, LockInv, NotCountedTwice, Waiting,
         Holding, Locked, TypeOK
<1>. QED
  BY <1>1, RecordsConsistent, PTL

-----------------------------------------------------------------------------
LEMMA QueueInit == Init => QueueInv
BY DEF Init, QueueInv, PresentInv, DoomedTicketInv, AheadInv, OvertakeInv, Waiting, Holding

\* A ticket that a reader finds dead belongs to a job that waits, that has
\* just been admitted, or that died.
LEMMA DeadTickets ==
    RecordInv => \A i \in Dead(ticket) : i \in Jobs /\ pc[i] \in Waiting \cup {"forgetting", "dead"}
BY DEF RecordInv, TicketInv, PathInv, Dead

LEMMA QueueStep == RecordInv /\ QueueInv /\ [Next]_vars => QueueInv'
<1>. SUFFICES ASSUME RecordInv, QueueInv, [Next]_vars PROVE QueueInv'
  OBVIOUS
<1>0. TypeOK /\ TypeOK'
  BY TypeStep DEF RecordInv
<1>. USE <1>0, JobsAssumption
     DEF QueueInv, TypeOK, PresentInv, DoomedTicketInv, AheadInv, OvertakeInv, Goto, Phases,
         Waiting, Holding, FileState, queueVars, lockVars, boundVars, doomed
<1>1. ASSUME NEW j \in Jobs, Stamp(j) PROVE QueueInv'
  BY <1>1 DEF Stamp
<1>2. ASSUME NEW j \in Jobs, WriteTicket(j) PROVE QueueInv'
  BY <1>2 DEF WriteTicket, RecordInv, TicketInv, PathInv
<1>3. ASSUME NEW j \in Jobs, WriteTicketFails(j) PROVE QueueInv'
  BY <1>3 DEF WriteTicketFails, RecordInv, TicketInv, PathInv
<1>4. ASSUME NEW j \in Jobs, Heartbeat(j) PROVE QueueInv'
  BY <1>4 DEF Heartbeat
<1>5. ASSUME NEW j \in Jobs, Peek(j) PROVE QueueInv'
  <2>1. /\ pc[j] = "peek"
        /\ \E to \in {"trylock", "top"} : pc' = [pc EXCEPT ![j] = to]
        /\ UNCHANGED <<path, older, ahead, ticket>>
    BY <1>5 DEF Peek
  <2>2. DoomedTicketInv'
    BY <1>5, <2>1, DeadTickets DEF Peek, ScanTickets
  <2>3. PresentInv' /\ AheadInv' /\ OvertakeInv'
    BY <1>5, <2>1 DEF Peek, ScanTickets
  <2>. QED
    BY <2>2, <2>3
<1>6. ASSUME NEW j \in Jobs, TryLock(j) PROVE QueueInv'
  BY <1>6, SMTT(30) DEF TryLock
<1>7. ASSUME NEW j \in Jobs, Decide(j) PROVE QueueInv'
  <2>1. /\ pc[j] = "deciding"
        /\ \E to \in {"counting", "refused"} : pc' = [pc EXCEPT ![j] = to]
        /\ pc'[j] = "counting" => IsHead(j)
        /\ UNCHANGED <<path, older, ahead, ticket>>
    BY <1>7 DEF Decide
  <2>2. DoomedTicketInv'
    BY <1>7, <2>1, DeadTickets DEF Decide, ScanTickets
  <2>3. PresentInv' /\ AheadInv'
    BY <1>7, <2>1 DEF Decide, ScanTickets
  <2>4. OvertakeInv'
    <3>1. ASSUME NEW i \in ahead[j], pc[i] \in Waiting, IsHead(j) PROVE i \in overlooked'
      <4>1. i \in Jobs /\ i \in older[j] /\ path[i]
        BY <2>1, <3>1
      <4>2. i \notin Live(ticket)
        BY <3>1, <4>1 DEF IsHead
      <4>3. i \in overlooked \/ i \in Dead(ticket)
        BY <3>1, <4>1, <4>2 DEF Live, Dead
      <4>. QED
        BY <1>7, <3>1, <4>3 DEF Decide, ScanTickets
    <3>2. overlooked \subseteq overlooked'
      BY <1>7 DEF Decide, ScanTickets
    <3>3. SUFFICES ASSUME NEW k \in Jobs, pc'[k] \in {"counting", "announcing"} \cup Holding,
                          NEW i \in ahead[k], pc'[i] \in Waiting
                   PROVE  i \in overlooked'
      BY <2>1
    <3>4. i \in Jobs /\ pc[i] \in Waiting
      BY <2>1, <3>3
    <3>. QED
      BY <2>1, <3>1, <3>2, <3>3, <3>4
  <2>. QED
    BY <2>2, <2>3, <2>4
<1>8. ASSUME NEW j \in Jobs, Count(j) PROVE QueueInv'
  <2>1. /\ pc[j] = "counting"
        /\ \E to \in {"announcing", "refused"} : pc' = [pc EXCEPT ![j] = to]
        /\ overlooked \subseteq overlooked'
        /\ UNCHANGED <<path, older, ahead, ticket, deadTickets>>
    BY <1>8 DEF Count, ScanHolders
  <2>. QED
    BY <2>1
<1>9. ASSUME NEW j \in Jobs, Announce(j) PROVE QueueInv'
  BY <1>9 DEF Announce
<1>10. ASSUME NEW j \in Jobs, AnnounceFails(j) PROVE QueueInv'
  BY <1>10 DEF AnnounceFails, Fail
<1>11. ASSUME NEW j \in Jobs, BackOff(j) PROVE QueueInv'
  BY <1>11 DEF BackOff
<1>12. ASSUME NEW j \in Jobs, Forget(j) PROVE QueueInv'
  BY <1>12 DEF Forget, LeaveQueue
<1>13. ASSUME NEW j \in Jobs, Unlock(j) PROVE QueueInv'
  BY <1>13 DEF Unlock
<1>14. ASSUME NEW j \in Jobs, Cancel(j) PROVE QueueInv'
  BY <1>14 DEF Cancel, GiveUp, LeaveQueue
<1>15. ASSUME NEW j \in Jobs, LockError(j) PROVE QueueInv'
  BY <1>15 DEF LockError, GiveUp, LeaveQueue, Fail
<1>16. ASSUME NEW j \in Jobs, Refresh(j) PROVE QueueInv'
  BY <1>16 DEF Refresh
<1>17. ASSUME NEW j \in Jobs, HeartbeatTick(j) PROVE QueueInv'
  BY <1>17 DEF HeartbeatTick
<1>18. ASSUME NEW j \in Jobs, HeartbeatWrite(j) PROVE QueueInv'
  BY <1>18 DEF HeartbeatWrite
<1>19. ASSUME NEW j \in Jobs, HeartbeatExit(j) PROVE QueueInv'
  BY <1>19 DEF HeartbeatExit
<1>20. ASSUME NEW j \in Jobs, Release(j) PROVE QueueInv'
  BY <1>20 DEF Release
<1>21. ASSUME NEW j \in Jobs, RemoveHolder(j) PROVE QueueInv'
  BY <1>21 DEF RemoveHolder
<1>22. ASSUME NEW j \in Jobs, Expire(j) PROVE QueueInv'
  BY <1>22 DEF Expire, Age
<1>23. ASSUME NEW s \in Scanners, ReapTicket(s) PROVE QueueInv'
  BY <1>23, SMTT(30) DEF ReapTicket
<1>24. ASSUME NEW s \in Scanners, ReapHolder(s) PROVE QueueInv'
  BY <1>24 DEF ReapHolder
<1>25. CASE Observe
  BY <1>25, DeadTickets, SMTT(30) DEF Observe, ScanTickets, ScanHolders
<1>26. ASSUME NEW P \in SUBSET Pids, Stall(P) PROVE QueueInv'
  BY <1>26 DEF Stall, Age
<1>27. ASSUME NEW p \in Pids, Crash(p) PROVE QueueInv'
  BY <1>27, ZenonT(60) DEF Crash
<1>28. ASSUME NEW p \in Pids, Reuse(p) PROVE QueueInv'
  BY <1>28 DEF Reuse
<1>29. CASE UNCHANGED vars
  BY <1>29 DEF vars
<1>. QED
  BY <1>1, <1>2, <1>3, <1>4, <1>5, <1>6, <1>7, <1>8, <1>9, <1>10, <1>11,
     <1>12, <1>13, <1>14, <1>15, <1>16, <1>17, <1>18, <1>19, <1>20, <1>21,
     <1>22, <1>23, <1>24, <1>25, <1>26, <1>27, <1>28, <1>29
     DEF Next, Step, Scanners

\* Strict FIFO: no job gets a share before a job that was in line ahead of it
\* and still waits, unless a reader took that job for dead (heavy.go:43-44).
THEOREM Fifo == Spec => []NoOvertaking
<1>1. Init => RecordInv /\ QueueInv
  BY RecordInit, QueueInit
<1>2. RecordInv /\ QueueInv /\ [Next]_vars => (RecordInv /\ QueueInv)'
  BY RecordStep, QueueStep
<1>3. RecordInv /\ QueueInv => NoOvertaking
  BY DEF QueueInv, OvertakeInv, NoOvertaking, Holders
<1>. QED
  BY <1>1, <1>2, <1>3, PTL DEF Spec

-----------------------------------------------------------------------------
HolderRecords == HeldInv /\ DoomedHolderInv

LEMMA HolderRecordsInit == Init => HolderRecords
BY DEF Init, HolderRecords, HeldInv, DoomedHolderInv, Holding

LEMMA HolderRecordsStep == RecordInv /\ HolderRecords /\ [Next]_vars => HolderRecords'
<1>. SUFFICES ASSUME RecordInv, HolderRecords, [Next]_vars PROVE HolderRecords'
  OBVIOUS
<1>0. TypeOK /\ TypeOK' /\ NoGhostHolder
  BY TypeStep DEF RecordInv
<1>. USE <1>0, JobsAssumption
     DEF HolderRecords, TypeOK, HeldInv, DoomedHolderInv, NoGhostHolder, Goto, Phases,
         Waiting, Holding, FileState, queueVars, lockVars, boundVars, doomed
<1>1. ASSUME NEW j \in Jobs, Stamp(j) PROVE HolderRecords'
  BY <1>1 DEF Stamp
<1>2. ASSUME NEW j \in Jobs, WriteTicket(j) PROVE HolderRecords'
  BY <1>2 DEF WriteTicket
<1>3. ASSUME NEW j \in Jobs, WriteTicketFails(j) PROVE HolderRecords'
  BY <1>3 DEF WriteTicketFails, Fail
<1>4. ASSUME NEW j \in Jobs, Heartbeat(j) PROVE HolderRecords'
  BY <1>4 DEF Heartbeat
<1>5. ASSUME NEW j \in Jobs, Peek(j) PROVE HolderRecords'
  BY <1>5 DEF Peek, ScanTickets
<1>6. ASSUME NEW j \in Jobs, TryLock(j) PROVE HolderRecords'
  BY <1>6 DEF TryLock
<1>7. ASSUME NEW j \in Jobs, Decide(j) PROVE HolderRecords'
  BY <1>7 DEF Decide, ScanTickets
<1>8. ASSUME NEW j \in Jobs, Count(j) PROVE HolderRecords'
  BY <1>8 DEF Count, ScanHolders, Dead
<1>9. ASSUME NEW j \in Jobs, Announce(j) PROVE HolderRecords'
  BY <1>9 DEF Announce
<1>10. ASSUME NEW j \in Jobs, AnnounceFails(j) PROVE HolderRecords'
  BY <1>10 DEF AnnounceFails, Fail
<1>11. ASSUME NEW j \in Jobs, BackOff(j) PROVE HolderRecords'
  BY <1>11 DEF BackOff
<1>12. ASSUME NEW j \in Jobs, Forget(j) PROVE HolderRecords'
  BY <1>12 DEF Forget, LeaveQueue
<1>13. ASSUME NEW j \in Jobs, Unlock(j) PROVE HolderRecords'
  BY <1>13 DEF Unlock
<1>14. ASSUME NEW j \in Jobs, Cancel(j) PROVE HolderRecords'
  BY <1>14 DEF Cancel, GiveUp, LeaveQueue
<1>15. ASSUME NEW j \in Jobs, LockError(j) PROVE HolderRecords'
  BY <1>15 DEF LockError, GiveUp, LeaveQueue, Fail
<1>16. ASSUME NEW j \in Jobs, Refresh(j) PROVE HolderRecords'
  BY <1>16 DEF Refresh
<1>17. ASSUME NEW j \in Jobs, HeartbeatTick(j) PROVE HolderRecords'
  BY <1>17 DEF HeartbeatTick
<1>18. ASSUME NEW j \in Jobs, HeartbeatWrite(j) PROVE HolderRecords'
  BY <1>18 DEF HeartbeatWrite
<1>19. ASSUME NEW j \in Jobs, HeartbeatExit(j) PROVE HolderRecords'
  BY <1>19 DEF HeartbeatExit
<1>20. ASSUME NEW j \in Jobs, Release(j) PROVE HolderRecords'
  BY <1>20 DEF Release
<1>21. ASSUME NEW j \in Jobs, RemoveHolder(j) PROVE HolderRecords'
  BY <1>21 DEF RemoveHolder
<1>22. ASSUME NEW j \in Jobs, Expire(j) PROVE HolderRecords'
  BY <1>22 DEF Expire, Age
<1>23. ASSUME NEW s \in Scanners, ReapTicket(s) PROVE HolderRecords'
  BY <1>23 DEF ReapTicket
<1>24. ASSUME NEW s \in Scanners, ReapHolder(s) PROVE HolderRecords'
  BY <1>24 DEF ReapHolder
<1>25. CASE Observe
  BY <1>25 DEF Observe, ScanTickets, ScanHolders, Dead
<1>26. ASSUME NEW P \in SUBSET Pids, Stall(P) PROVE HolderRecords'
  BY <1>26 DEF Stall, Age
<1>27. ASSUME NEW p \in Pids, Crash(p) PROVE HolderRecords'
  BY <1>27 DEF Crash
<1>28. ASSUME NEW p \in Pids, Reuse(p) PROVE HolderRecords'
  BY <1>28 DEF Reuse
<1>29. CASE UNCHANGED vars
  BY <1>29 DEF vars
<1>. QED
  BY <1>1, <1>2, <1>3, <1>4, <1>5, <1>6, <1>7, <1>8, <1>9, <1>10, <1>11,
     <1>12, <1>13, <1>14, <1>15, <1>16, <1>17, <1>18, <1>19, <1>20, <1>21,
     <1>22, <1>23, <1>24, <1>25, <1>26, <1>27, <1>28, <1>29
     DEF Next, Step, Scanners

\* Only an announcement adds a holder, and only a count opens the way to it.
Quiet ==
    /\ Holders' \subseteq Holders
    /\ overlooked \subseteq overlooked'
    /\ \A k \in Jobs : pc'[k] = "announcing" => pc[k] = "announcing"

LEMMA QuietSteps ==
    ASSUME TypeOK, [Next]_vars,
           \A j \in Jobs : ~Announce(j) /\ ~Count(j)
    PROVE  Quiet
<1>0. TypeOK'
  BY TypeStep
<1>. USE <1>0 DEF Quiet, Holders, TypeOK, Goto, Phases, Waiting, Holding, queueVars, lockVars,
     boundVars, doomed
<1>1. ASSUME NEW j \in Jobs, Stamp(j) PROVE Quiet
  BY <1>1 DEF Stamp
<1>2. ASSUME NEW j \in Jobs, WriteTicket(j) PROVE Quiet
  BY <1>2 DEF WriteTicket
<1>3. ASSUME NEW j \in Jobs, WriteTicketFails(j) PROVE Quiet
  BY <1>3 DEF WriteTicketFails, Fail
<1>4. ASSUME NEW j \in Jobs, Heartbeat(j) PROVE Quiet
  BY <1>4 DEF Heartbeat
<1>5. ASSUME NEW j \in Jobs, Peek(j) PROVE Quiet
  BY <1>5 DEF Peek, ScanTickets
<1>6. ASSUME NEW j \in Jobs, TryLock(j) PROVE Quiet
  BY <1>6 DEF TryLock
<1>7. ASSUME NEW j \in Jobs, Decide(j) PROVE Quiet
  BY <1>7 DEF Decide, ScanTickets
<1>8. ASSUME NEW j \in Jobs, Count(j) PROVE Quiet
  BY <1>8
<1>9. ASSUME NEW j \in Jobs, Announce(j) PROVE Quiet
  BY <1>9
<1>10. ASSUME NEW j \in Jobs, AnnounceFails(j) PROVE Quiet
  BY <1>10 DEF AnnounceFails, Fail
<1>11. ASSUME NEW j \in Jobs, BackOff(j) PROVE Quiet
  BY <1>11 DEF BackOff
<1>12. ASSUME NEW j \in Jobs, Forget(j) PROVE Quiet
  BY <1>12 DEF Forget, LeaveQueue
<1>13. ASSUME NEW j \in Jobs, Unlock(j) PROVE Quiet
  BY <1>13 DEF Unlock
<1>14. ASSUME NEW j \in Jobs, Cancel(j) PROVE Quiet
  BY <1>14 DEF Cancel, GiveUp, LeaveQueue
<1>15. ASSUME NEW j \in Jobs, LockError(j) PROVE Quiet
  BY <1>15 DEF LockError, GiveUp, LeaveQueue, Fail
<1>16. ASSUME NEW j \in Jobs, Refresh(j) PROVE Quiet
  BY <1>16 DEF Refresh
<1>17. ASSUME NEW j \in Jobs, HeartbeatTick(j) PROVE Quiet
  BY <1>17 DEF HeartbeatTick
<1>18. ASSUME NEW j \in Jobs, HeartbeatWrite(j) PROVE Quiet
  BY <1>18 DEF HeartbeatWrite
<1>19. ASSUME NEW j \in Jobs, HeartbeatExit(j) PROVE Quiet
  BY <1>19 DEF HeartbeatExit
<1>20. ASSUME NEW j \in Jobs, Release(j) PROVE Quiet
  BY <1>20 DEF Release
<1>21. ASSUME NEW j \in Jobs, RemoveHolder(j) PROVE Quiet
  BY <1>21 DEF RemoveHolder
<1>22. ASSUME NEW j \in Jobs, Expire(j) PROVE Quiet
  BY <1>22 DEF Expire, Age
<1>23. ASSUME NEW s \in Scanners, ReapTicket(s) PROVE Quiet
  BY <1>23 DEF ReapTicket
<1>24. ASSUME NEW s \in Scanners, ReapHolder(s) PROVE Quiet
  BY <1>24 DEF ReapHolder
<1>25. CASE Observe
  BY <1>25 DEF Observe, ScanTickets, ScanHolders
<1>26. ASSUME NEW P \in SUBSET Pids, Stall(P) PROVE Quiet
  BY <1>26 DEF Stall, Age
<1>27. ASSUME NEW p \in Pids, Crash(p) PROVE Quiet
  BY <1>27 DEF Crash
<1>28. ASSUME NEW p \in Pids, Reuse(p) PROVE Quiet
  BY <1>28 DEF Reuse
<1>29. CASE UNCHANGED vars
  BY <1>29 DEF vars
<1>. QED
  BY <1>1, <1>2, <1>3, <1>4, <1>5, <1>6, <1>7, <1>8, <1>9, <1>10, <1>11,
     <1>12, <1>13, <1>14, <1>15, <1>16, <1>17, <1>18, <1>19, <1>20, <1>21,
     <1>22, <1>23, <1>24, <1>25, <1>26, <1>27, <1>28, <1>29
     DEF Next, Step, Scanners

LEMMA HoldersFinite ==
    IsFiniteSet(Holders) /\ Cardinality(Holders) \in Nat
<1>1. Holders \in SUBSET Jobs
  BY DEF Holders
<1>. QED
  BY <1>1, JobsFinite, FS_Subset, FS_CardinalityType

CountInv == RoomInv /\ AtMostThree

LEMMA CountInit == Init => CountInv
<1>. SUFFICES ASSUME Init PROVE CountInv
  OBVIOUS
<1>1. Holders = {}
  BY DEF Init, Holders, Holding
<1>2. Cardinality(Holders) = 0
  BY <1>1, FS_EmptySet
<1>. QED
  BY <1>2 DEF Init, CountInv, RoomInv, AtMostThree, heavyDefensiveMax

LEMMA CountStep == RecordInv /\ HolderRecords /\ CountInv /\ [Next]_vars => CountInv'
<1>. SUFFICES ASSUME RecordInv, HolderRecords, CountInv, [Next]_vars PROVE CountInv'
  OBVIOUS
<1>0. TypeOK /\ TypeOK'
  BY TypeStep DEF RecordInv
<1>1. /\ IsFiniteSet(Holders) /\ Cardinality(Holders) \in Nat
      /\ IsFiniteSet(Holders') /\ Cardinality(Holders') \in Nat
  <2>1. Holders' \in SUBSET Jobs
    BY DEF Holders
  <2>. QED
    BY <2>1, HoldersFinite, JobsFinite, FS_Subset, FS_CardinalityType
<1>2. CASE \A j \in Jobs : ~Announce(j) /\ ~Count(j)
  <2>1. Quiet
    BY <1>0, <1>2, QuietSteps
  <2>2. Cardinality(Holders') <= Cardinality(Holders)
    BY <1>1, <2>1, FS_Subset DEF Quiet
  <2>3. overlooked' = {} => overlooked = {}
    BY <2>1 DEF Quiet
  <2>4. \A k \in Jobs : pc'[k] = "announcing" => pc[k] = "announcing"
    BY <2>1 DEF Quiet
  <2>. QED
    BY <1>1, <2>2, <2>3, <2>4 DEF CountInv, RoomInv, AtMostThree, heavyDefensiveMax
<1>3. ASSUME NEW j \in Jobs, Announce(j) PROVE CountInv'
  <2>1. pc[j] = "announcing" /\ pc' = [pc EXCEPT ![j] = "forgetting"] /\ UNCHANGED overlooked
    BY <1>3 DEF Announce, Goto
  <2>2. Holders' = Holders \cup {j} /\ j \notin Holders
    BY <1>0, <2>1 DEF TypeOK, Holders, Holding
  <2>3. Cardinality(Holders') = Cardinality(Holders) + 1
    BY <1>1, <2>2, FS_AddElement
  <2>4. overlooked = {} => Cardinality(Holders) < heavyDefensiveMax
    BY <2>1 DEF CountInv, RoomInv
  <2>5. AtMostThree'
    BY <1>1, <2>1, <2>3, <2>4 DEF AtMostThree, heavyDefensiveMax
  <2>6. \A k \in Jobs : pc'[k] # "announcing"
    <3>1. \A k \in Jobs : pc[k] = "announcing" => k = j
      BY <2>1 DEF RecordInv, LockInv, Locked
    <3>. QED
      BY <1>0, <2>1, <3>1 DEF TypeOK
  <2>. QED
    BY <2>5, <2>6 DEF CountInv, RoomInv
<1>4. ASSUME NEW j \in Jobs, Count(j) PROVE CountInv'
  <2>1. /\ pc[j] = "counting"
        /\ \E to \in {"announcing", "refused"} : pc' = [pc EXCEPT ![j] = to]
        /\ pc'[j] = "announcing" => Admissible
        /\ overlooked' = overlooked \cup {i \in Dead(holder) : pc[i] \in Holding}
    BY <1>0, <1>4 DEF Count, Goto, ScanHolders, TypeOK
  <2>2. Holders' = Holders
    BY <1>0, <2>1 DEF TypeOK, Holders, Holding
  <2>3. AtMostThree'
    BY <2>1, <2>2 DEF CountInv, AtMostThree
  <2>4. ASSUME pc'[j] = "announcing", overlooked' = {} PROVE Cardinality(Holders) < heavyDefensiveMax
    <3>1. Holders \subseteq Live(holder)
      BY <2>1, <2>4 DEF HolderRecords, HeldInv, Holders, Live, Dead
    <3>2. IsFiniteSet(Live(holder)) /\ Cardinality(Live(holder)) \in Nat
      <4>1. Live(holder) \in SUBSET Jobs
        BY DEF Live
      <4>. QED
        BY <4>1, JobsFinite, FS_Subset, FS_CardinalityType
    <3>3. Cardinality(Holders) <= Cardinality(Live(holder))
      BY <3>1, <3>2, FS_Subset
    <3>4. Cardinality(Live(holder)) < heavyDefensiveMax
      BY <2>1, <2>4 DEF Admissible
    <3>. QED
      BY <1>1, <3>2, <3>3, <3>4 DEF heavyDefensiveMax
  <2>5. \A k \in Jobs : pc'[k] = "announcing" => k = j
    <3>1. \A k \in Jobs : pc[k] = "announcing" => k = j
      BY <2>1 DEF RecordInv, LockInv, Locked
    <3>. QED
      BY <1>0, <2>1, <3>1 DEF TypeOK
  <2>. QED
    BY <2>2, <2>3, <2>4, <2>5 DEF CountInv, RoomInv
<1>. QED
  BY <1>2, <1>3, <1>4

\* At most three heavy jobs hold a share at once, on a machine of any size,
\* as long as no reader has taken a running job for dead (heavy.go:65-78).
THEOREM BoundedConcurrency == Spec => []AtMostThree
<1>. DEFINE Inv == RecordInv /\ HolderRecords /\ CountInv
<1>1. Init => Inv
  BY RecordInit, HolderRecordsInit, CountInit
<1>2. Inv /\ [Next]_vars => Inv'
  BY RecordStep, HolderRecordsStep, CountStep
<1>3. Inv => AtMostThree
  BY DEF CountInv
<1>. QED
  BY <1>1, <1>2, <1>3, PTL DEF Spec

-----------------------------------------------------------------------------
(* The sum of the shares. *)

\* The units of the jobs in H, job j having f[j], one by one.
Tokens(f, H) == UNION {{j} \X (1..f[j]) : j \in H}

LEMMA TokensAre ==
    ASSUME NEW f, NEW H
    PROVE  /\ \A j \in H : \A u \in 1..f[j] : <<j, u>> \in Tokens(f, H)
           /\ \A t \in Tokens(f, H) : t[1] \in H /\ t[2] \in 1..f[t[1]] /\ t = <<t[1], t[2]>>
BY DEF Tokens

LEMMA TokensFinite ==
    ASSUME NEW f \in [Jobs -> Nat], NEW H \in SUBSET Jobs
    PROVE  IsFiniteSet(Tokens(f, H)) /\ Cardinality(Tokens(f, H)) \in Nat
<1>. DEFINE G == [j \in H |-> {j} \X (1..f[j])]
            Parts == {{j} \X (1..f[j]) : j \in H}
<1>1. G \in Surjection(H, Parts)
  BY DEF Surjection
<1>2. IsFiniteSet(H)
  BY JobsFinite, FS_Subset
<1>3. ASSUME NEW P \in Parts PROVE IsFiniteSet(P)
  <2>1. PICK j \in H : P = {j} \X (1..f[j])
    OBVIOUS
  <2>2. f[j] \in Nat
    OBVIOUS
  <2>3. IsFiniteSet({j})
    BY FS_Singleton
  <2>4. IsFiniteSet(1..f[j])
    BY <2>2, FS_Interval
  <2>. QED
    BY <2>1, <2>3, <2>4, FS_Product
<1>. HIDE DEF G, Parts
<1>4. IsFiniteSet(Parts)
  BY <1>1, <1>2, FS_Surjection
<1>5. IsFiniteSet(UNION Parts)
  BY <1>3, <1>4, FS_UNION
<1>6. Tokens(f, H) = UNION Parts
  BY DEF Tokens, Parts
<1>. QED
  BY <1>5, <1>6, FS_CardinalityType

\* Fewer jobs have no more units, and only the jobs in question matter.
LEMMA TokensMonotone ==
    ASSUME NEW f \in [Jobs -> Nat], NEW g, NEW H, NEW G \in SUBSET Jobs, H \subseteq G,
           \A j \in H : g[j] = f[j]
    PROVE  Cardinality(Tokens(g, H)) <= Cardinality(Tokens(f, G))
<1>1. Tokens(g, H) \in SUBSET Tokens(f, G)
  <2>. SUFFICES ASSUME NEW t \in Tokens(g, H) PROVE t \in Tokens(f, G)
    OBVIOUS
  <2>1. t[1] \in H /\ t[2] \in 1..g[t[1]] /\ t = <<t[1], t[2]>>
    BY TokensAre
  <2>2. t[1] \in G /\ t[2] \in 1..f[t[1]]
    BY <2>1
  <2>. QED
    BY <2>1, <2>2, TokensAre
<1>. QED
  BY <1>1, TokensFinite, FS_Subset

LEMMA TokensAdd ==
    ASSUME NEW f \in [Jobs -> Nat], NEW H \in SUBSET Jobs, NEW j \in Jobs, j \notin H
    PROVE  Cardinality(Tokens(f, H \cup {j})) = Cardinality(Tokens(f, H)) + f[j]
<1>. DEFINE own == {j} \X (1..f[j])
<1>1. Tokens(f, H \cup {j}) = Tokens(f, H) \cup own
  BY DEF Tokens
<1>2. Tokens(f, H) \cap own = {}
  <2>. SUFFICES ASSUME NEW t \in Tokens(f, H), t \in own PROVE FALSE
    OBVIOUS
  <2>1. t[1] \in H /\ t[1] = j
    BY TokensAre
  <2>. QED
    BY <2>1
<1>3. IsFiniteSet(own) /\ Cardinality(own) = f[j] /\ f[j] \in Nat
  <2>1. f[j] \in Nat
    OBVIOUS
  <2>2. IsFiniteSet({j}) /\ Cardinality({j}) = 1
    BY FS_Singleton
  <2>3. IsFiniteSet(1..f[j]) /\ Cardinality(1..f[j]) = f[j]
    BY <2>1, FS_Interval
  <2>4. IsFiniteSet(own) /\ Cardinality(own) = 1 * f[j]
    BY <2>2, <2>3, FS_Product
  <2>. QED
    BY <2>1, <2>4
<1>. HIDE DEF own
<1>4. IsFiniteSet(Tokens(f, H)) /\ Cardinality(Tokens(f, H)) \in Nat
  BY TokensFinite
<1>5. Cardinality(Tokens(f, H \cup {j})) =
        Cardinality(Tokens(f, H)) + Cardinality(own) - Cardinality(Tokens(f, H) \cap own)
  BY <1>1, <1>3, <1>4, FS_Union
<1>6. Cardinality(Tokens(f, H) \cap own) = 0
  BY <1>2, FS_EmptySet
<1>. QED
  BY <1>3, <1>4, <1>5, <1>6

LEMMA AllocatedIs ==
    /\ \A H : Allocated(H) = Cardinality(Tokens(units, H))
    /\ Allocated(Holders)' = Cardinality(Tokens(units', Holders'))
BY DEF Allocated, Tokens

\* heavyAdmissionCandidate never exceeds the room, and a share that reaches the
\* floor is not empty.
LEMMA CandidateFacts ==
    ASSUME units \in [Jobs -> Nat], NEW H \in SUBSET Jobs, NEW w \in Nat
    PROVE  /\ HeavyCap \in Nat /\ HeavyFloor \in Nat /\ HeavyFloor >= 2
           /\ HeavyAdmissionCandidate(H, w) \in Int
           /\ HeavyAdmissionCandidate(H, w) <= HeavyCap - Allocated(H)
<1>1. HeavyCap \in Nat /\ HeavyFloor \in Nat /\ HeavyFloor >= 2
  BY NAssumption DEF HeavyCap, HeavyFloor
<1>2. Allocated(H) \in Nat
  BY AllocatedIs, TokensFinite
<1>3. Cardinality(H) \in Nat
  BY JobsFinite, FS_Subset, FS_CardinalityType
<1>4. HeavyShare(Cardinality(H) + w) \in Int
  BY <1>3, NAssumption DEF HeavyShare
<1>. QED
  BY <1>1, <1>2, <1>4 DEF HeavyAdmissionCandidate

-----------------------------------------------------------------------------
(* The cap. *)

\* A share is a number, and not an empty one when it is about to be announced.
UnitsInv == units \in [Jobs -> Nat] /\ \A j \in Jobs : pc[j] = "announcing" => units[j] > 0

\* CapRespected already holds for the share that is decided and not announced.
CapInv ==
    overlooked = {} =>
        /\ Cardinality(Tokens(units, Holders)) <= HeavyCap
        /\ \A j \in Jobs : pc[j] = "announcing" =>
               Cardinality(Tokens(units, Holders \cup {j})) <= HeavyCap

\* Only a count decides a share, and a share that is in use is never changed.
LEMMA SharesKept ==
    ASSUME TypeOK, UnitsInv, [Next]_vars, \A j \in Jobs : ~Announce(j) /\ ~Count(j)
    PROVE  /\ units' \in [Jobs -> Nat]
           /\ \A k \in Jobs : pc'[k] \in Holding \cup {"announcing"} => units'[k] = units[k]
<1>1. ASSUME NEW j \in Jobs, BackOff(j) \/ RemoveHolder(j)
      PROVE  /\ units' \in [Jobs -> Nat]
             /\ \A k \in Jobs : pc'[k] \in Holding \cup {"announcing"} => units'[k] = units[k]
  <2>1. units' = [units EXCEPT ![j] = 0] /\ pc'[j] \in {"top", "gone"}
    BY <1>1 DEF BackOff, RemoveHolder, Goto, TypeOK
  <2>. QED
    BY <2>1 DEF UnitsInv, Holding
<1>2. CASE UNCHANGED units
  BY <1>2 DEF UnitsInv
<1>3. ASSUME NEW j \in Jobs,
             \/ Stamp(j) \/ WriteTicket(j) \/ WriteTicketFails(j) \/ Heartbeat(j) \/ Peek(j)
             \/ TryLock(j) \/ Decide(j) \/ AnnounceFails(j) \/ Forget(j) \/ Unlock(j)
      PROVE  UNCHANGED units
  BY <1>3 DEF Stamp, WriteTicket, WriteTicketFails, Heartbeat, Peek, TryLock, Decide, AnnounceFails,
              Forget, Unlock
<1>4. ASSUME NEW j \in Jobs,
             \/ Cancel(j) \/ LockError(j) \/ Refresh(j) \/ HeartbeatTick(j) \/ HeartbeatWrite(j)
             \/ HeartbeatExit(j) \/ Release(j) \/ Expire(j)
      PROVE  UNCHANGED units
  BY <1>4 DEF Cancel, LockError, GiveUp, Refresh, HeartbeatTick, HeartbeatWrite, HeartbeatExit,
              Release, Expire
<1>5. ASSUME NEW s \in Scanners, ReapTicket(s) \/ ReapHolder(s) PROVE UNCHANGED units
  BY <1>5 DEF ReapTicket, ReapHolder
<1>6. CASE \/ Observe \/ (\E P \in SUBSET Pids : Stall(P))
           \/ (\E p \in Pids : Crash(p) \/ Reuse(p)) \/ UNCHANGED vars
  <2>1. UNCHANGED units
    BY <1>6 DEF Observe, Stall, Crash, Reuse, vars
  <2>. QED
    BY <1>2, <2>1
<1>. QED
  BY <1>1, <1>2, <1>3, <1>4, <1>5, <1>6 DEF Next, Step, Scanners

LEMMA CapInit == Init => UnitsInv /\ CapInv
<1>. SUFFICES ASSUME Init PROVE UnitsInv /\ CapInv
  OBVIOUS
<1>1. Tokens(units, Holders) = {}
  BY DEF Init, Tokens, Holders, Holding
<1>2. HeavyCap \in Nat
  BY NAssumption DEF HeavyCap
<1>3. Cardinality(Tokens(units, Holders)) <= HeavyCap
  BY <1>1, <1>2, FS_EmptySet
<1>. QED
  BY <1>3 DEF Init, UnitsInv, CapInv

\* What a count does: it finds every holder, and decides on a share within the
\* room they leave.
LEMMA CountFacts ==
    ASSUME RecordInv, HolderRecords, UnitsInv, NEW j \in Jobs, Count(j)
    PROVE  /\ pc[j] = "counting" /\ Holders' = Holders /\ j \notin Holders
           /\ overlooked \subseteq overlooked'
           /\ \A k \in Jobs : pc'[k] = "announcing" => k = j
           /\ units' \in [Jobs -> Nat] /\ \A k \in Jobs \ {j} : units'[k] = units[k]
           /\ pc'[j] = "announcing" =>
                /\ units'[j] > 0
                /\ overlooked' = {} => Cardinality(Tokens(units', Holders \cup {j})) <= HeavyCap
<1>0. TypeOK /\ units \in [Jobs -> Nat]
  BY DEF RecordInv, UnitsInv
<1>1. /\ pc[j] = "counting"
      /\ \E to \in {"announcing", "refused"} : pc' = [pc EXCEPT ![j] = to]
      /\ pc'[j] = "announcing" =>
           Admissible /\ units' = [units EXCEPT ![j] = HeavyAdmissionCandidate(Live(holder), queued)]
      /\ pc'[j] # "announcing" => UNCHANGED units
      /\ overlooked' = overlooked \cup {i \in Dead(holder) : pc[i] \in Holding}
  BY <1>0 DEF Count, Goto, ScanHolders, TypeOK
<1>2. Holders' = Holders /\ j \notin Holders
  BY <1>0, <1>1 DEF TypeOK, Holders, Holding
<1>3. \A k \in Jobs : pc'[k] = "announcing" => k = j
  <2>1. \A k \in Jobs : pc[k] = "announcing" => k = j
    BY <1>1 DEF RecordInv, LockInv, Locked
  <2>. QED
    BY <1>0, <1>1, <2>1 DEF TypeOK
<1>4. CASE pc'[j] = "announcing"
  <2>. DEFINE u == HeavyAdmissionCandidate(Live(holder), queued)
              L == Live(holder)
  <2>1. L \in SUBSET Jobs /\ queued \in Nat
    BY <1>0, JobsFinite DEF Live, TypeOK
  <2>2. /\ HeavyCap \in Nat /\ u \in Int /\ u <= HeavyCap - Allocated(L)
        /\ HeavyFloor \in Nat /\ HeavyFloor >= 2 /\ u >= HeavyFloor
    BY <1>0, <1>1, <1>4, <2>1, CandidateFacts DEF Admissible
  <2>3. units' = [units EXCEPT ![j] = u]
    BY <1>1, <1>4
  <2>. HIDE DEF u
  <2>4. u \in Nat /\ u > 0
    BY <2>2
  <2>5. /\ units' \in [Jobs -> Nat] /\ units'[j] = u
        /\ \A k \in Jobs \ {j} : units'[k] = units[k]
    BY <1>0, <2>3, <2>4
  <2>6. ASSUME overlooked' = {} PROVE Cardinality(Tokens(units', Holders \cup {j})) <= HeavyCap
    <3>1. Holders \subseteq L
      BY <1>1, <2>6 DEF HolderRecords, HeldInv, Holders, Live, Dead
    <3>2. j \notin L
      BY <1>0, <1>1 DEF RecordInv, NoGhostHolder, Live, IsLive, Holding
    <3>. HIDE DEF L
    <3>3. Cardinality(Tokens(units', L \cup {j})) = Cardinality(Tokens(units', L)) + u
      BY <2>1, <2>5, <3>2, TokensAdd
    <3>4. \A k \in L : units'[k] = units[k]
      BY <2>1, <2>5, <3>2
    <3>5. Cardinality(Tokens(units', L)) <= Allocated(L)
      BY <1>0, <2>1, <3>4, TokensMonotone, AllocatedIs
    <3>6. Cardinality(Tokens(units', Holders \cup {j})) <= Cardinality(Tokens(units', L \cup {j}))
      <4>1. Holders \cup {j} \subseteq L \cup {j} /\ L \cup {j} \in SUBSET Jobs
        BY <2>1, <3>1
      <4>. QED
        BY <2>5, <4>1, TokensMonotone
    <3>7. /\ Allocated(L) \in Nat /\ Cardinality(Tokens(units', L)) \in Nat
          /\ Cardinality(Tokens(units', L \cup {j})) \in Nat
          /\ Cardinality(Tokens(units', Holders \cup {j})) \in Nat
      <4>1. Holders \cup {j} \in SUBSET Jobs /\ L \cup {j} \in SUBSET Jobs
        BY <2>1 DEF Holders
      <4>. QED
        BY <1>0, <2>1, <2>5, <4>1, TokensFinite, AllocatedIs
    <3>. QED
      BY <2>2, <2>4, <3>3, <3>5, <3>6, <3>7
  <2>. QED
    BY <1>1, <1>2, <1>3, <2>4, <2>5, <2>6
<1>5. CASE pc'[j] # "announcing"
  BY <1>0, <1>1, <1>2, <1>3, <1>5
<1>. QED
  BY <1>4, <1>5

LEMMA CapStep ==
    RecordInv /\ HolderRecords /\ UnitsInv /\ CapInv /\ [Next]_vars => UnitsInv' /\ CapInv'
<1>. SUFFICES ASSUME RecordInv, HolderRecords, UnitsInv, CapInv, [Next]_vars PROVE UnitsInv' /\ CapInv'
  OBVIOUS
<1>0. TypeOK /\ TypeOK' /\ units \in [Jobs -> Nat] /\ HeavyCap \in Nat
  BY TypeStep, NAssumption DEF RecordInv, UnitsInv, HeavyCap
<1>1. /\ Holders \in SUBSET Jobs /\ Holders' \in SUBSET Jobs
      /\ \A j \in Jobs : Holders \cup {j} \in SUBSET Jobs
  BY DEF Holders
<1>2. /\ Cardinality(Tokens(units, Holders)) \in Nat
      /\ \A j \in Jobs : Cardinality(Tokens(units, Holders \cup {j})) \in Nat
  BY <1>0, <1>1, TokensFinite
<1>3. CASE \A j \in Jobs : ~Announce(j) /\ ~Count(j)
  <2>1. /\ Holders' \subseteq Holders /\ overlooked \subseteq overlooked'
        /\ \A k \in Jobs : pc'[k] = "announcing" => pc[k] = "announcing"
    BY <1>0, <1>3, QuietSteps DEF Quiet
  <2>2. /\ units' \in [Jobs -> Nat]
        /\ \A k \in Jobs : pc'[k] \in Holding \cup {"announcing"} => units'[k] = units[k]
    BY <1>0, <1>3, SharesKept
  <2>3. UnitsInv'
    BY <2>1, <2>2 DEF UnitsInv
  <2>4. \A k \in Holders' : units'[k] = units[k]
    BY <2>2 DEF Holders
  <2>5. Cardinality(Tokens(units', Holders')) <= Cardinality(Tokens(units, Holders))
    BY <1>0, <1>1, <2>1, <2>4, TokensMonotone
  <2>6. Cardinality(Tokens(units', Holders')) \in Nat
    BY <1>1, <2>2, TokensFinite
  <2>7. ASSUME NEW j \in Jobs, pc'[j] = "announcing", overlooked = {}
        PROVE  Cardinality(Tokens(units', Holders' \cup {j})) <= HeavyCap
    <3>1. /\ Holders' \cup {j} \subseteq Holders \cup {j} /\ Holders \cup {j} \in SUBSET Jobs
          /\ \A k \in Holders' \cup {j} : units'[k] = units[k]
      BY <1>1, <2>1, <2>2, <2>4, <2>7
    <3>2. Cardinality(Tokens(units', Holders' \cup {j})) <= Cardinality(Tokens(units, Holders \cup {j}))
      BY <1>0, <3>1, TokensMonotone
    <3>3. Cardinality(Tokens(units', Holders' \cup {j})) \in Nat
      <4>1. Holders' \cup {j} \in SUBSET Jobs
        BY <1>1
      <4>. QED
        BY <2>2, <4>1, TokensFinite
    <3>4. Cardinality(Tokens(units, Holders \cup {j})) <= HeavyCap
      BY <2>1, <2>7 DEF CapInv
    <3>. QED
      BY <1>0, <1>2, <3>2, <3>3, <3>4
  <2>8. CapInv'
    BY <1>0, <1>2, <2>1, <2>5, <2>6, <2>7 DEF CapInv
  <2>. QED
    BY <2>3, <2>8
<1>4. ASSUME NEW j \in Jobs, Announce(j) PROVE UnitsInv' /\ CapInv'
  <2>1. /\ pc[j] = "announcing" /\ pc' = [pc EXCEPT ![j] = "forgetting"]
        /\ UNCHANGED overlooked /\ UNCHANGED units
    BY <1>4 DEF Announce, Goto
  <2>2. Holders' = Holders \cup {j}
    BY <1>0, <2>1 DEF TypeOK, Holders, Holding
  <2>3. \A k \in Jobs : pc'[k] # "announcing"
    <3>1. \A k \in Jobs : pc[k] = "announcing" => k = j
      BY <2>1 DEF RecordInv, LockInv, Locked
    <3>. QED
      BY <1>0, <2>1, <3>1 DEF TypeOK
  <2>. QED
    BY <2>1, <2>2, <2>3 DEF UnitsInv, CapInv
<1>5. ASSUME NEW j \in Jobs, Count(j) PROVE UnitsInv' /\ CapInv'
  <2>1. /\ Holders' = Holders /\ j \notin Holders
        /\ overlooked \subseteq overlooked'
        /\ \A k \in Jobs : pc'[k] = "announcing" => k = j
        /\ units' \in [Jobs -> Nat] /\ \A k \in Jobs \ {j} : units'[k] = units[k]
        /\ pc'[j] = "announcing" =>
             /\ units'[j] > 0
             /\ overlooked' = {} => Cardinality(Tokens(units', Holders \cup {j})) <= HeavyCap
    BY <1>5, CountFacts
  <2>2. Cardinality(Tokens(units', Holders)) <= Cardinality(Tokens(units, Holders))
    <3>1. \A k \in Holders : units'[k] = units[k]
      BY <1>1, <2>1
    <3>. QED
      BY <1>0, <1>1, <3>1, TokensMonotone
  <2>3. Cardinality(Tokens(units', Holders)) \in Nat
    BY <1>1, <2>1, TokensFinite
  <2>4. overlooked' = {} => Cardinality(Tokens(units', Holders')) <= HeavyCap
    BY <1>0, <1>2, <2>1, <2>2, <2>3 DEF CapInv
  <2>5. UnitsInv'
    BY <2>1 DEF UnitsInv
  <2>. QED
    BY <2>1, <2>4, <2>5 DEF CapInv
<1>. QED
  BY <1>3, <1>4, <1>5

ShareInv == RecordInv /\ HolderRecords /\ UnitsInv /\ CapInv

LEMMA ShareInvariant == Spec => []ShareInv
<1>1. Init => ShareInv
  BY RecordInit, HolderRecordsInit, CapInit DEF ShareInv
<1>2. ShareInv /\ [Next]_vars => ShareInv'
  BY RecordStep, HolderRecordsStep, CapStep DEF ShareInv
<1>. QED
  BY <1>1, <1>2, PTL DEF Spec

\* The shares of the jobs that hold one never exceed 1.5 N in total, on a
\* machine of any size, as long as no reader has taken a running job for dead
\* (heavy.go:40-43, 59-63).
THEOREM CapAlwaysRespected == Spec => []CapRespected
<1>1. ShareInv => CapRespected
  BY AllocatedIs DEF ShareInv, CapInv, CapRespected
<1>. QED
  BY <1>1, ShareInvariant, PTL

-----------------------------------------------------------------------------
(* The queue as an indivisible budget. *)

LEMMA TotalIsAllocated ==
    ASSUME TypeOK, units \in [Jobs -> Nat]
    PROVE  Budget!Total = Cardinality(Tokens(units, Holders))
<1>1. \A j \in Jobs : granted[j] = IF pc[j] \in Holding THEN units[j] ELSE 0
  BY DEF granted
<1>2. Tokens(granted, Jobs) = Tokens(units, Holders)
  <2>1. ASSUME NEW t \in Tokens(granted, Jobs) PROVE t \in Tokens(units, Holders)
    <3>1. t[1] \in Jobs /\ t[2] \in 1..granted[t[1]] /\ t = <<t[1], t[2]>>
      BY TokensAre
    <3>2. pc[t[1]] \in Holding
      BY <1>1, <3>1
    <3>3. t[1] \in Holders /\ t[2] \in 1..units[t[1]]
      BY <1>1, <3>1, <3>2 DEF Holders
    <3>. QED
      BY <3>1, <3>3, TokensAre
  <2>2. ASSUME NEW t \in Tokens(units, Holders) PROVE t \in Tokens(granted, Jobs)
    <3>1. t[1] \in Holders /\ t[2] \in 1..units[t[1]] /\ t = <<t[1], t[2]>>
      BY TokensAre
    <3>2. t[1] \in Jobs /\ t[2] \in 1..granted[t[1]]
      BY <1>1, <3>1 DEF Holders
    <3>. QED
      BY <3>1, <3>2, TokensAre
  <2>. QED
    BY <2>1, <2>2
<1>3. Budget!Total = Cardinality(Tokens(granted, Jobs))
  BY DEF Budget!Total, Budget!Cardinality, Cardinality, Tokens
<1>. QED
  BY <1>2, <1>3

\* Writing the holder record is the step in which the share is given.
LEMMA AnnounceGrants ==
    ASSUME ShareInv, overlooked = {}, NEW j \in Jobs, Announce(j) PROVE Budget!Grant(j)
<1>0. TypeOK /\ units \in [Jobs -> Nat] /\ HeavyCap \in Nat
  BY NAssumption DEF ShareInv, RecordInv, UnitsInv, HeavyCap
<1>1. pc[j] = "announcing" /\ pc' = [pc EXCEPT ![j] = "forgetting"] /\ UNCHANGED units
  BY DEF Announce, Goto
<1>2. Holders \in SUBSET Jobs /\ j \notin Holders
  BY <1>1 DEF Holders, Holding
<1>3. Cardinality(Tokens(units, Holders \cup {j})) <= HeavyCap /\ units[j] > 0 /\ units[j] \in Nat
  BY <1>0, <1>1 DEF ShareInv, CapInv, UnitsInv
<1>4. /\ Cardinality(Tokens(units, Holders \cup {j})) = Cardinality(Tokens(units, Holders)) + units[j]
      /\ Cardinality(Tokens(units, Holders)) \in Nat
  BY <1>0, <1>2, TokensAdd, TokensFinite
<1>5. Budget!Total = Cardinality(Tokens(units, Holders))
  BY <1>0, TotalIsAllocated
<1>6. units[j] \in 1..(HeavyCap - Budget!Total)
  BY <1>0, <1>3, <1>4, <1>5
<1>7. granted[j] = 0 /\ granted' = [granted EXCEPT ![j] = units[j]]
  BY <1>0, <1>1 DEF granted, TypeOK, Holding
<1>. QED
  BY <1>6, <1>7 DEF Budget!Grant

\* Every other step gives the shares of some jobs back, or none.
LEMMA OthersReturn ==
    ASSUME ShareInv, [Next]_vars, \A j \in Jobs : ~Announce(j)
    PROVE  Budget!Return({j \in Jobs : pc'[j] \notin Holding})
<1>0. TypeOK /\ RecordInv /\ HolderRecords /\ UnitsInv
  BY DEF ShareInv, RecordInv
<1>1. ASSUME NEW j \in Jobs, pc'[j] \in Holding PROVE pc[j] \in Holding /\ units'[j] = units[j]
  <2>1. CASE \A i \in Jobs : ~Count(i)
    <3>1. Holders' \subseteq Holders
      BY <1>0, <2>1, QuietSteps DEF Quiet
    <3>2. units'[j] = units[j]
      BY <1>0, <1>1, <2>1, SharesKept
    <3>. QED
      BY <1>1, <3>1, <3>2 DEF Holders
  <2>2. ASSUME NEW i \in Jobs, Count(i) PROVE pc[j] \in Holding /\ units'[j] = units[j]
    <3>1. Holders' = Holders /\ i \notin Holders /\ \A k \in Jobs \ {i} : units'[k] = units[k]
      BY <1>0, <2>2, CountFacts
    <3>. QED
      BY <1>1, <3>1 DEF Holders
  <2>. QED
    BY <2>1, <2>2
<1>. QED
  BY <1>1 DEF Budget!Return, granted

LEMMA BudgetStep == ShareInv /\ overlooked = {} /\ [Next]_vars => [Budget!Next]_granted
<1>. SUFFICES ASSUME ShareInv, overlooked = {}, [Next]_vars PROVE Budget!Next
  OBVIOUS
<1>1. CASE \E j \in Jobs : Announce(j)
  BY <1>1, AnnounceGrants DEF Budget!Next
<1>2. CASE \A j \in Jobs : ~Announce(j)
  <2>1. {j \in Jobs : pc'[j] \notin Holding} \in SUBSET Jobs
    OBVIOUS
  <2>. QED
    BY <1>2, <2>1, OthersReturn DEF Budget!Next
<1>. QED
  BY <1>1, <1>2

LEMMA BudgetInit == Init => Budget!Init
BY DEF Init, Budget!Init, granted, Holding

\* Tickets, the admission lock and holder records of processes that poll, fail
\* and crash implement an indivisible budget of 1.5 N units in every behaviour
\* in which no reader takes a job in good standing for dead (heavy.go:40-49,
\* 135-139): writing the holder record gives the share decided under the lock,
\* and every other step gives shares back or changes none.
THEOREM BudgetUnlessOverlooked == Spec /\ [](overlooked = {}) => SharedBudget
BY BudgetInit, BudgetStep, ShareInvariant, PTL DEF Spec, SharedBudget, Budget!Spec

-----------------------------------------------------------------------------
(* Nobody in good standing is overlooked while all records are refreshed. *)

AliveInv == \A j \in Jobs : pc[j] \notin {"idle", "gone", "dead"} => alive[PidOf[j]]

FreshInv ==
    /\ overlooked = {}
    /\ \A j \in Jobs : pc[j] # "dead" => ticket[j] # "stale" /\ holder[j] # "stale"

LEMMA FreshInit == Init => AliveInv /\ FreshInv
BY DEF Init, AliveInv, FreshInv

\* The records that a reader finds dead are those of jobs that died.
LEMMA DeadRecords ==
    ASSUME RecordInv, AliveInv, FreshInv
    PROVE  \A j \in Dead(ticket) \cup Dead(holder) : pc[j] = "dead"
<1>. SUFFICES ASSUME NEW j \in Dead(ticket) \cup Dead(holder), pc[j] # "dead" PROVE FALSE
  OBVIOUS
<1>0. TypeOK /\ j \in Jobs /\ ~(ticket[j] = "stale") /\ ~(holder[j] = "stale")
  BY DEF RecordInv, FreshInv, Dead
<1>1. ticket[j] \in FileState /\ holder[j] \in FileState /\ pc[j] \in Phases
  BY <1>0 DEF TypeOK
<1>2. ~alive[PidOf[j]]
  BY <1>0, <1>1 DEF Dead, IsLive, FileState
<1>3. pc[j] \in {"idle", "gone"}
  BY <1>0, <1>2 DEF AliveInv
<1>4. ticket[j] = "absent" /\ holder[j] = "absent"
  BY <1>0, <1>3 DEF RecordInv, TicketInv, PathInv, NoGhostHolder, Waiting, Holding
<1>. QED
  BY <1>4 DEF Dead

LEMMA AliveStep == TypeOK /\ AliveInv /\ [Next]_vars => AliveInv'
<1>. SUFFICES ASSUME TypeOK, AliveInv, [Next]_vars PROVE AliveInv'
  OBVIOUS
<1>. USE JobsAssumption DEF AliveInv, Goto, TypeOK
<1>1. ASSUME NEW j \in Jobs, Stamp(j) PROVE AliveInv'
  BY <1>1 DEF Stamp
<1>2. ASSUME NEW j \in Jobs,
             \/ WriteTicket(j) \/ WriteTicketFails(j) \/ Heartbeat(j) \/ Peek(j) \/ TryLock(j)
             \/ Decide(j) \/ Count(j) \/ Announce(j) \/ AnnounceFails(j) \/ BackOff(j)
             \/ Forget(j) \/ Unlock(j) \/ Cancel(j) \/ LockError(j) \/ Release(j) \/ RemoveHolder(j)
      PROVE  AliveInv'
  <2>1. /\ pc[j] \notin {"idle", "gone", "dead"} /\ alive' = alive
        /\ \E to \in Phases : pc' = [pc EXCEPT ![j] = to]
    BY <1>2 DEF WriteTicket, WriteTicketFails, Heartbeat, Peek, TryLock, Decide, Count, Announce,
                AnnounceFails, BackOff, Forget, Unlock, Cancel, LockError, GiveUp, Release,
                RemoveHolder, Phases, Waiting, Holding
  <2>. QED
    BY <2>1
<1>3. ASSUME NEW j \in Jobs,
             Refresh(j) \/ HeartbeatTick(j) \/ HeartbeatWrite(j) \/ HeartbeatExit(j) \/ Expire(j)
      PROVE  AliveInv'
  BY <1>3 DEF Refresh, HeartbeatTick, HeartbeatWrite, HeartbeatExit, Expire
<1>4. ASSUME NEW s \in Scanners, ReapTicket(s) \/ ReapHolder(s) PROVE AliveInv'
  BY <1>4 DEF ReapTicket, ReapHolder
<1>5. CASE Observe \/ (\E P \in SUBSET Pids : Stall(P)) \/ UNCHANGED vars
  BY <1>5 DEF Observe, Stall, vars
<1>6. ASSUME NEW p \in Pids, Crash(p) PROVE AliveInv'
  <2>. SUFFICES ASSUME NEW j \in Jobs, pc'[j] \notin {"idle", "gone", "dead"}
                PROVE  alive'[PidOf[j]]
    OBVIOUS
  <2>1. /\ alive' = [alive EXCEPT ![p] = FALSE]
        /\ pc'[j] = IF PidOf[j] = p /\ pc[j] \notin {"idle", "gone"} THEN "dead" ELSE pc[j]
    BY <1>6 DEF Crash
  <2>2. pc[j] \notin {"idle", "gone", "dead"} /\ PidOf[j] # p
    BY <2>1
  <2>. QED
    BY <2>1, <2>2
<1>7. ASSUME NEW p \in Pids, Reuse(p) PROVE AliveInv'
  <2>1. alive' = [alive EXCEPT ![p] = TRUE] /\ pc' = pc
    BY <1>7 DEF Reuse
  <2>. QED
    BY <2>1
<1>. QED
  BY <1>1, <1>2, <1>3, <1>4, <1>5, <1>6, <1>7 DEF Next, Step, Scanners

LEMMA FreshStep ==
    MaxStalls = 0 /\ RecordInv /\ AliveInv /\ FreshInv /\ [Next]_vars => FreshInv'
<1>. SUFFICES ASSUME MaxStalls = 0, RecordInv, AliveInv, FreshInv, [Next]_vars PROVE FreshInv'
  OBVIOUS
<1>0. TypeOK /\ TypeOK'
  BY TypeStep DEF RecordInv
<1>d. \A j \in Dead(ticket) \cup Dead(holder) : pc[j] = "dead"
  BY DeadRecords
\* A step that overlooks nobody, brings nobody back and makes no record stale.
<1>k. ASSUME overlooked' = overlooked,
             \A j \in Jobs : pc'[j] # "dead" =>
                 /\ pc[j] # "dead"
                 /\ ticket'[j] \in {ticket[j], "fresh", "absent"}
                 /\ holder'[j] \in {holder[j], "fresh", "absent"}
      PROVE  FreshInv'
  BY <1>k DEF FreshInv
<1>s. ASSUME NEW s, ScanTickets(s) \/ ScanHolders(s) PROVE overlooked' = overlooked
  BY <1>d, <1>s DEF ScanTickets, ScanHolders, Waiting, Holding
<1>1. ASSUME NEW j \in Jobs,
             \/ Stamp(j) \/ WriteTicket(j) \/ WriteTicketFails(j) \/ Heartbeat(j) \/ TryLock(j)
      PROVE  FreshInv'
  BY <1>0, <1>1, <1>k DEF TypeOK, Stamp, WriteTicket, WriteTicketFails, Heartbeat, TryLock, Goto
<1>2. ASSUME NEW j \in Jobs, Peek(j) \/ Decide(j) \/ Count(j) PROVE FreshInv'
  <2>1. overlooked' = overlooked
    BY <1>2, <1>s DEF Peek, Decide, Count
  <2>2. /\ pc[j] # "dead" /\ (\E to : pc' = [pc EXCEPT ![j] = to])
        /\ ticket' = ticket /\ holder' = holder
    BY <1>2 DEF Peek, Decide, Count, Goto
  <2>. QED
    BY <1>0, <1>k, <2>1, <2>2 DEF TypeOK
<1>3. ASSUME NEW j \in Jobs, Announce(j) \/ AnnounceFails(j) \/ BackOff(j) \/ Unlock(j) \/ Release(j)
      PROVE  FreshInv'
  BY <1>0, <1>3, <1>k DEF TypeOK, Announce, AnnounceFails, BackOff, Unlock, Release, Goto
<1>4. ASSUME NEW j \in Jobs, Forget(j) \/ Cancel(j) \/ LockError(j) PROVE FreshInv'
  <2>1. /\ pc[j] # "dead" /\ (\E to : pc' = [pc EXCEPT ![j] = to])
        /\ ticket' \in {ticket, [ticket EXCEPT ![j] = "absent"]} /\ holder' = holder
        /\ overlooked' = overlooked
    BY <1>4 DEF Forget, Cancel, LockError, GiveUp, LeaveQueue, Goto
  <2>. QED
    BY <1>0, <1>k, <2>1 DEF TypeOK
<1>5. ASSUME NEW j \in Jobs,
             Refresh(j) \/ HeartbeatTick(j) \/ HeartbeatWrite(j) \/ HeartbeatExit(j) \/ RemoveHolder(j)
      PROVE  FreshInv'
  BY <1>0, <1>5, <1>k
     DEF TypeOK, Refresh, HeartbeatTick, HeartbeatWrite, HeartbeatExit, RemoveHolder, Goto
<1>6. ASSUME NEW j \in Jobs, Expire(j) PROVE FreshInv'
  BY <1>0, <1>6, <1>k DEF TypeOK, Expire, Age
<1>7. ASSUME NEW s \in Scanners, ReapTicket(s) \/ ReapHolder(s) PROVE FreshInv'
  BY <1>0, <1>7, <1>k DEF TypeOK, ReapTicket, ReapHolder
<1>8. CASE Observe
  BY <1>8, <1>k, <1>s DEF Observe
<1>9. ASSUME NEW P \in SUBSET Pids, Stall(P) PROVE FreshInv'
  BY <1>0, <1>9 DEF TypeOK, Stall
<1>10. ASSUME NEW p \in Pids, Crash(p) \/ Reuse(p) PROVE FreshInv'
  BY <1>0, <1>10, <1>k DEF TypeOK, Crash, Reuse
<1>11. CASE UNCHANGED vars
  BY <1>11, <1>k DEF vars
<1>. QED
  BY <1>1, <1>2, <1>3, <1>4, <1>5, <1>6, <1>7, <1>8, <1>9, <1>10, <1>11 DEF Next, Step, Scanners

\* As long as every process refreshes its records in time (MaxStalls = 0),
\* the queue is an indivisible budget of 1.5 N units on a machine of any size,
\* however processes crash, process ids are reused and writes fail.
THEOREM QueueIsBudget == ASSUME MaxStalls = 0 PROVE Spec => SharedBudget
<1>1. Init => AliveInv /\ FreshInv
  BY FreshInit
<1>2. RecordInv /\ AliveInv /\ FreshInv /\ [Next]_vars => AliveInv' /\ FreshInv'
  BY AliveStep, FreshStep DEF RecordInv
<1>3. FreshInv => overlooked = {}
  BY DEF FreshInv
<1>4. Spec => [](overlooked = {})
  BY <1>1, <1>2, <1>3, RecordsConsistent, PTL DEF Spec
<1>. QED
  BY <1>4, BudgetUnlessOverlooked, PTL
=============================================================================
