------------------------- MODULE LandingLaneProofs --------------------------
(***************************************************************************)
(* What the landing lane guarantees for every number of sessions and       *)
(* commands: the record stays well formed, it names the command that       *)
(* drives, and two commands drive at once only after one of the two        *)
(* accidents the model records (stolen, dropped).                          *)
(***************************************************************************)
EXTENDS LandingLane, TLAPS

\* A record is always well typed, whatever the commands and their environment
\* do to it (landinglane.go, Record).
LEMMA TypeInit == Init => TypeOK
  BY LaneAssumption DEF Init, TypeOK, Records, Running

LEMMA TypeStep == TypeOK /\ [Next]_vars => TypeOK'
<1> SUFFICES ASSUME TypeOK, [Next]_vars PROVE TypeOK'
  OBVIOUS
<1> USE LaneAssumption DEF TypeOK, boundVars
<1> DEFINE Phase == {"asking", "driving", "unguarded", "leaving", "new", "refused", "done"}
<1>p. op \in [Ops -> Phase]
  BY DEF Running
<1>q. ASSUME op' \in [Ops -> Phase] PROVE op' \in [Ops -> Running \cup {"new", "refused", "done"}]
  BY <1>q DEF Running
<1>own. \A o \in Ops : Own(o) \in Records
  BY DEF Own, Records
<1>aged. ASSUME Found, NEW a \in {"fresh", "old"} PROVE [lane EXCEPT !.age = a] \in Records
  BY <1>aged DEF Found, Records
<1>none. None \in Records \cup {None, Corrupt} /\ Corrupt \in Records \cup {None, Corrupt}
  OBVIOUS
<1>1. ASSUME NEW o \in Ops,
             Resolve(o) \/ Refuse(o) \/ AcquireFails(o) \/ NothingToLand(o) \/ Retry(o) \/ Crash(o)
      PROVE TypeOK'
  <2>1. op' \in [Ops -> Phase]
    BY <1>1, <1>p DEF Resolve, Refuse, AcquireFails, NothingToLand, Retry, Crash, GiveUp
  <2>2. QED
    BY <1>1, <1>q, <2>1 DEF Resolve, Refuse, AcquireFails, NothingToLand, Retry, Crash
<1>2. ASSUME NEW o \in Ops, Acquire(o) \/ TakeOver(o) PROVE TypeOK'
  <2>1. op' \in [Ops -> Phase]
    BY <1>2, <1>p DEF Acquire, TakeOver
  <2>2. Drivers \in SUBSET Ops
    BY DEF Drivers
  <2>3. QED
    BY <1>2, <1>q, <1>own, <2>1, <2>2 DEF Acquire, TakeOver
<1>3. ASSUME NEW o \in Ops, Heartbeat(o) PROVE TypeOK'
  BY <1>3, <1>aged DEF Heartbeat, Owns
<1>4. ASSUME NEW o \in Ops, Return(o) PROVE TypeOK'
  <2>1. op' \in [Ops -> Phase]
    BY <1>4, <1>p DEF Return
  <2>2. lane' \in Records \cup {None, Corrupt} /\ dropped' \in SUBSET Ops
    BY <1>4, <1>none DEF Return, Release, Drivers
  <2>3. QED
    BY <1>4, <1>q, <2>1, <2>2 DEF Return
<1>5. ASSUME NEW s \in Sessions, ReleaseIdle(s) \/ EndSession(s) PROVE TypeOK'
  BY <1>5, <1>none DEF ReleaseIdle, EndSession
<1>6. CASE Age \/ Damage
  BY <1>6, <1>aged, <1>none DEF Age, Damage
<1>7. ASSUME NEW o \in Ops, ReusePid(o) PROVE TypeOK'
  BY <1>7 DEF ReusePid
<1>8. CASE UNCHANGED vars
  BY <1>8 DEF vars
<1>9. QED
  BY <1>1, <1>2, <1>3, <1>4, <1>5, <1>6, <1>7, <1>8 DEF Next

\* TypeOK holds of every reachable state.
THEOREM LaneTypeCorrect == Spec => []TypeOK
  BY TypeInit, TypeStep, PTL DEF Spec

-----------------------------------------------------------------------------
(* The record follows the driver. *)

\* The drivers neither accident has happened to.
Clean == Drivers \ (stolen \cup dropped)

\* A command that drives is never refused in favour of, or overlooked by,
\* another one: while the record names a running command, every other command
\* is refused.
LEMMA NamedExcludes ==
    ASSUME NEW o \in Ops, NEW i \in Ops, o # i, op[i] = "driving",
           Found, lane.op = i
    PROVE  Refused(o)
<1>1. i # None /\ Alive(i)
  BY LaneAssumption DEF Alive, Running
<1>2. CASE lane.session = SessionOf[o]
  BY <1>1, <1>2 DEF Refused, Busy
<1>3. CASE lane.session # SessionOf[o]
  BY <1>1, <1>3 DEF Refused, Held, OwnerLive, DeadOpStale
<1>4. QED
  BY <1>2, <1>3

\* The inductive invariant: DriverRecorded alone does not exclude two drivers
\* behind a damaged record, OneDriver alone does not survive an Acquire.
LaneInv == TypeOK /\ DriverRecorded /\ OneDriver

LEMMA LaneInit == Init => LaneInv
  BY TypeInit DEF Init, LaneInv, DriverRecorded, OneDriver, Drivers

LEMMA LaneStep == LaneInv /\ [Next]_vars => LaneInv'
<1> SUFFICES ASSUME LaneInv, [Next]_vars PROVE LaneInv'
  OBVIOUS
<1>t. TypeOK /\ TypeOK'
  BY TypeStep DEF LaneInv
<1>d. DriverRecorded /\ OneDriver
  BY DEF LaneInv
<1> SUFFICES DriverRecorded' /\ OneDriver'
  BY <1>t DEF LaneInv
<1>f. op \in [Ops -> Running \cup {"new", "refused", "done"}]
  BY <1>t DEF TypeOK
\* Steps that admit nobody and leave the record alone.
<1>q. ASSUME Clean' \subseteq Clean, UNCHANGED lane PROVE DriverRecorded' /\ OneDriver'
  BY <1>q, <1>d DEF DriverRecorded, OneDriver, Clean, Found
<1>1. ASSUME NEW o \in Ops, Acquire(o) PROVE DriverRecorded' /\ OneDriver'
  <2>1. \A i \in Clean : i = o
    BY <1>1, <1>d, NamedExcludes DEF Acquire, Clean, DriverRecorded, Drivers, Refused
  <2>2. Clean' \subseteq Clean \cup {o}
    BY <1>1, <1>f DEF Acquire, Clean, Drivers
  <2>3. lane' = Own(o) /\ Own(o).op = o
    BY <1>1 DEF Acquire, Own
  <2>own. Own(o) \in Records
    BY LaneAssumption DEF Own, Records
  <2>4. Found'
    BY <2>3, <2>own, LaneAssumption DEF Found
  <2>5. QED
    BY <2>1, <2>2, <2>3, <2>4 DEF DriverRecorded, OneDriver, Clean
<1>2. ASSUME NEW o \in Ops, TakeOver(o) PROVE DriverRecorded' /\ OneDriver'
  <2>1. Clean' \subseteq {o}
    BY <1>2, <1>f DEF TakeOver, Clean, Drivers
  <2>3. lane' = Own(o) /\ Own(o).op = o
    BY <1>2 DEF TakeOver, Own
  <2>own. Own(o) \in Records
    BY LaneAssumption DEF Own, Records
  <2>4. Found'
    BY <2>3, <2>own, LaneAssumption DEF Found
  <2>5. QED
    BY <2>1, <2>3, <2>4 DEF DriverRecorded, OneDriver, Clean
<1>3. ASSUME NEW o \in Ops,
             Resolve(o) \/ Refuse(o) \/ AcquireFails(o) \/ NothingToLand(o) \/ Retry(o)
               \/ Crash(o) \/ ReusePid(o)
      PROVE DriverRecorded' /\ OneDriver'
  <2>1. Clean' \subseteq Clean /\ UNCHANGED lane
    BY <1>3, <1>f
    DEF Resolve, Refuse, AcquireFails, NothingToLand, Retry, Crash, ReusePid, GiveUp, Clean, Drivers
  <2>2. QED
    BY <2>1, <1>q
<1>4. ASSUME NEW o \in Ops, Heartbeat(o) PROVE DriverRecorded' /\ OneDriver'
  <2>1. lane' = [lane EXCEPT !.age = "fresh"] /\ Found /\ Clean' = Clean
    BY <1>4 DEF Heartbeat, Owns, Clean, Drivers
  <2>2. lane \in Records
    BY <2>1, <1>t DEF TypeOK, Found
  <2>3. lane'.op = lane.op /\ lane' \in Records
    BY <2>1, <2>2 DEF Records
  <2>4. QED
    BY <2>1, <2>3, <1>d, LaneAssumption DEF DriverRecorded, OneDriver, Clean, Found
<1>5. ASSUME NEW o \in Ops, Return(o) PROVE DriverRecorded' /\ OneDriver'
  <2>1. CASE UNCHANGED <<lane, dropped>>
    <3>1. Clean' \subseteq Clean
      BY <1>5, <2>1, <1>f DEF Return, Clean, Drivers
    <3>2. QED
      BY <3>1, <2>1, <1>q
  <2>2. CASE Owns(SessionOf[o]) /\ lane' = None
               /\ dropped' = dropped \cup ({lane.op} \cap (Drivers \ {o}))
    \* The record named the only clean driver there could be.
    <3>1. \A i \in Clean : lane.op = i
      BY <2>2, <1>d, LaneAssumption DEF DriverRecorded, Clean, Owns, Found
    <3>2. Clean' \subseteq {}
      BY <3>1, <2>2, <1>5, <1>f DEF Return, Clean, Drivers
    <3>3. QED
      BY <3>2 DEF DriverRecorded, OneDriver, Clean
  <2>3. QED
    BY <1>5, <2>1, <2>2 DEF Return, Release
<1>6. ASSUME NEW s \in Sessions, ReleaseIdle(s) PROVE DriverRecorded' /\ OneDriver'
  <2>1. Found /\ lane' = None /\ Clean' = Clean
    BY <1>6 DEF ReleaseIdle, Owns, Clean, Drivers
  <2>2. \A i \in Clean : lane.op = i /\ op[i] = "driving" /\ i \in Ops
    BY <2>1, <1>d DEF DriverRecorded, Clean, Found, Drivers
  <2>3. Clean = {}
    BY <2>2, <1>6, LaneAssumption DEF ReleaseIdle, Alive, Running
  <2>4. QED
    BY <2>1, <2>3 DEF DriverRecorded, OneDriver, Clean
<1>7. ASSUME NEW s \in Sessions, EndSession(s) PROVE DriverRecorded' /\ OneDriver'
  BY <1>7, <1>q DEF EndSession, Clean, Drivers
<1>8. CASE Age
  <2>1. lane' = [lane EXCEPT !.age = "old"] /\ Found /\ Clean' = Clean
    BY <1>8 DEF Age, Clean, Drivers
  <2>2. lane \in Records
    BY <2>1, <1>t DEF TypeOK, Found
  <2>3. lane'.op = lane.op /\ lane' \in Records
    BY <2>1, <2>2 DEF Records
  <2>4. QED
    BY <2>1, <2>3, <1>d, LaneAssumption DEF DriverRecorded, OneDriver, Clean, Found
<1>9. CASE Damage
  BY <1>9, <1>d DEF Damage, DriverRecorded, OneDriver, Drivers
<1>10. CASE UNCHANGED vars
  BY <1>10, <1>q DEF vars, Clean, Drivers
<1>11. QED
  BY <1>1, <1>2, <1>3, <1>4, <1>5, <1>6, <1>7, <1>8, <1>9, <1>10 DEF Next

\* At most one command drives the lane, of all sessions, unless the driver
\* was taken over explicitly or its own session removed its record
\* (Acquire, ReleaseIdle and the guard of the landing commands).
THEOREM OneDriverAlways == Spec => []OneDriver
<1>1. LaneInv => OneDriver
  BY DEF LaneInv
<1>2. QED
  BY LaneInit, LaneStep, <1>1, PTL DEF Spec

\* The record names the command that drives, or is damaged, under the same
\* proviso: what a later command compares itself with is the truth.
THEOREM DriverRecordedAlways == Spec => []DriverRecorded
<1>1. LaneInv => DriverRecorded
  BY DEF LaneInv
<1>2. QED
  BY LaneInit, LaneStep, <1>1, PTL DEF Spec
=============================================================================
