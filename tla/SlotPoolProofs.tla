--------------------------- MODULE SlotPoolProofs ---------------------------
(***************************************************************************)
(* What the slot pool guarantees for every number of commands, slots and   *)
(* units, whatever crashes, stalls and failed writes: a command never      *)
(* waits while it holds slots, runs with all its units, and leaves no      *)
(* holder record behind unless it died; the slots together are a budget    *)
(* that grants and takes back a command's units in one step.               *)
(***************************************************************************)
EXTENDS SlotPool, FiniteSetTheorems, FunctionTheorems, TLAPS

Assumptions == /\ None \notin Jobs /\ Budget \in Nat \ {0}
               /\ Units \in [Jobs -> Nat \ {0}] /\ MaxFaults \in Nat

LEMMA Assumed == Assumptions
  BY JobsAssumption, UnitsAssumption, BoundsAssumption DEF Assumptions

-----------------------------------------------------------------------------
\* The state stays well typed: a pass over the slots never leaves their row,
\* and only a record that exists is stale (queue.go, visibility.go).
LEMMA SlotTypeInit == Init => TypeOK
  BY Assumed DEF Init, TypeOK, Assumptions, Slots, Phases, Using, LettingGo

LEMMA SlotTypeStep == TypeOK /\ [Next]_vars => TypeOK'
<1> SUFFICES ASSUME TypeOK, [Next]_vars PROVE TypeOK'
  OBVIOUS
<1> USE Assumed DEF TypeOK, Assumptions
<1> DEFINE Phase == {"announcing", "running", "stopping", "undoing", "abandoning", "unlocking",
                     "idle", "scanning", "sleeping", "cleaning", "dead"}
<1>p. Phases = Phase
  BY DEF Phases, Using, LettingGo
<1>h. \A j \in Jobs : Held(j) \subseteq Slots /\ Left(j) \subseteq Slots
  BY DEF Held, Left
<1>s. Slots \subseteq 0..Budget /\ \A s \in Slots : s + 1 \in 0..Budget
  BY DEF Slots
<1>g. ASSUME NEW j \in Jobs, NEW from, NEW to \in Phase, Goto(j, from, to)
      PROVE  pc' \in [Jobs -> Phases]
  BY <1>g, <1>p DEF Goto
<1>f. Fault => faults' \in 0..MaxFaults
  BY DEF Fault
<1>1. ASSUME NEW j \in Jobs, Attempt(j) \/ Acquired(j) PROVE TypeOK'
  <2>1. pc' \in [Jobs -> Phases]
    BY <1>1, <1>p DEF Attempt, Acquired, Goto
  <2>2. QED
    BY <1>1, <2>1 DEF Attempt, Acquired, recordVars
<1>2. ASSUME NEW j \in Jobs, TrySlot(j) PROVE TypeOK'
  <2>1. next' \in [Jobs -> 0..Budget]
    BY <1>2, <1>s DEF TrySlot
  <2>2. flock' \in [Slots -> Jobs \cup {None}]
    BY <1>2 DEF TrySlot
  <2>3. QED
    BY <1>2, <2>1, <2>2 DEF TrySlot, recordVars
<1>3. ASSUME NEW j \in Jobs, OpenFails(j) PROVE TypeOK'
  BY <1>3, <1>p, <1>f DEF OpenFails, Goto, recordVars
<1>4. ASSUME NEW j \in Jobs, Short(j) \/ Cancel(j) \/ Release(j) \/ Stopped(j) PROVE TypeOK'
  BY <1>4, <1>p DEF Short, Cancel, Release, Stopped, Goto, recordVars
<1>5. ASSUME NEW j \in Jobs, Announce(j) PROVE TypeOK'
  <2>1. PICK s \in Lowest(Left(j)) :
          /\ next' = [next EXCEPT ![j] = s + 1]
          /\ \/ /\ record' = [record EXCEPT ![s] = j]
                /\ stale' = stale \ {s}
                /\ paths' = [paths EXCEPT ![j] = @ \cup {s}]
                /\ UNCHANGED faults
             \/ Fault /\ UNCHANGED <<record, stale, paths>>
    BY <1>5 DEF Announce
  <2>2. s \in Slots
    BY <1>h DEF Lowest
  <2>3. next' \in [Jobs -> 0..Budget] /\ paths' \in [Jobs -> SUBSET Slots]
    BY <2>1, <2>2, <1>s
  <2>4. record' \in [Slots -> Jobs \cup {None}] /\ stale' \in SUBSET {t \in Slots : record'[t] # None}
    BY <2>1, <2>2
  <2>5. faults' \in 0..MaxFaults
    BY <2>1, <1>f
  <2>6. QED
    BY <1>5, <2>3, <2>4, <2>5 DEF Announce
<1>6. ASSUME NEW j \in Jobs, Run(j) PROVE TypeOK'
  BY <1>6, <1>p DEF Run, Goto
<1>7. ASSUME NEW j \in Jobs, HeartbeatTick(j) \/ HeartbeatWrite(j) \/ HeartbeatExit(j) PROVE TypeOK'
  <2>1. hb' \in [Jobs -> {"off", "idle", "writing"}] /\ beating' \in [Jobs -> SUBSET Slots]
    BY <1>7 DEF HeartbeatTick, HeartbeatWrite, HeartbeatExit
  <2>2. record' \in [Slots -> Jobs \cup {None}] /\ stale' \in SUBSET {t \in Slots : record'[t] # None}
    BY <1>7 DEF HeartbeatTick, HeartbeatWrite, HeartbeatExit
  <2>3. QED
    BY <1>7, <2>1, <2>2 DEF HeartbeatTick, HeartbeatWrite, HeartbeatExit
<1>8. ASSUME NEW j \in Jobs, Unlock(j) PROVE TypeOK'
  <2>1. pc' \in [Jobs -> Phases]
    BY <1>8, <1>p DEF Unlock, Goto
  <2>2. flock' \in [Slots -> Jobs \cup {None}]
    BY <1>8 DEF Unlock
  <2>3. QED
    BY <1>8, <2>1, <2>2 DEF Unlock, recordVars
<1>9. ASSUME NEW j \in Jobs, Cleanup(j) PROVE TypeOK'
  <2>1. pc' \in [Jobs -> Phases] /\ paths' \in [Jobs -> SUBSET Slots]
    BY <1>9, <1>p DEF Cleanup, Goto, Lowest
  <2>2. record' \in [Slots -> Jobs \cup {None}] /\ stale' \in SUBSET {t \in Slots : record'[t] # None}
    BY <1>9 DEF Cleanup, Lowest
  <2>3. QED
    BY <1>9, <2>1, <2>2 DEF Cleanup
<1>10. CASE Observe \/ Reap
  <2>1. record' \in [Slots -> Jobs \cup {None}] /\ stale' \in SUBSET {t \in Slots : record'[t] # None}
    BY <1>10 DEF Observe, Reap
  <2>2. QED
    BY <1>10, <2>1 DEF Observe, Reap, Dead
<1>11. ASSUME NEW S \in SUBSET Slots, Stall(S) PROVE TypeOK'
  BY <1>11, <1>f DEF Stall
<1>12. ASSUME NEW j \in Jobs, Crash(j) PROVE TypeOK'
  BY <1>12, <1>p, <1>f DEF Crash
<1>13. CASE UNCHANGED vars
  BY <1>13 DEF vars
<1>14. QED
  BY <1>1, <1>2, <1>3, <1>4, <1>5, <1>6, <1>7, <1>8, <1>9, <1>10, <1>11, <1>12, <1>13
     DEF Next, Step

\* The slot pool's state is well typed in every behaviour.
THEOREM SlotTypeCorrect == Spec => []TypeOK
  BY SlotTypeInit, SlotTypeStep, PTL DEF Spec

-----------------------------------------------------------------------------
\* What makes the two rules about slots inductive: they speak of phases in
\* which a command neither takes nor gives a slot, and no command touches a
\* slot that another one has.
SlotRules == NoHoldAndWait /\ FullyGranted

LEMMA SlotRulesStep == TypeOK /\ SlotRules /\ [Next]_vars => SlotRules'
<1> SUFFICES ASSUME TypeOK, SlotRules, [Next]_vars PROVE SlotRules'
  OBVIOUS
<1> USE Assumed DEF TypeOK, Assumptions, SlotRules, NoHoldAndWait, FullyGranted
<1> DEFINE Quiet == {"idle", "sleeping", "cleaning", "dead"}
<1>w. \A j \in Jobs : Want(j)' = Want(j)
  BY DEF Want
<1>u. Using = {"announcing", "running", "stopping"}
  BY DEF Using
\* A step that leaves the slots alone.
<1>k. ASSUME UNCHANGED flock,
             \A j \in Jobs : pc'[j] \in Quiet => pc[j] \in Quiet \/ Held(j) = {},
             \A j \in Jobs : pc'[j] \in Using => pc[j] \in Using \/ Cardinality(Held(j)) = Want(j)
      PROVE  SlotRules'
  <2>1. \A j \in Jobs : Held(j)' = Held(j)
    BY <1>k DEF Held
  <2>2. QED
    BY <1>k, <1>w, <1>u, <2>1
\* A step of j that changes the slots of j only, outside the phases in question.
<1>l. ASSUME NEW j \in Jobs, pc'[j] \notin Quiet \cup Using \/ (pc'[j] \in Quiet /\ Held(j)' = {}),
             \A i \in Jobs \ {j} : pc'[i] = pc[i] /\ Held(i)' = Held(i)
      PROVE  SlotRules'
  BY <1>l, <1>w, <1>u
<1>1. ASSUME NEW j \in Jobs, Attempt(j) \/ Short(j) \/ OpenFails(j) PROVE SlotRules'
  BY <1>1, <1>k, <1>u DEF Attempt, Short, OpenFails, Goto
<1>2. ASSUME NEW j \in Jobs, TrySlot(j) PROVE SlotRules'
  <2>1. next[j] \in Slots
    BY <1>2 DEF TrySlot, Slots
  <2>2. \A i \in Jobs \ {j} : pc'[i] = pc[i] /\ Held(i)' = Held(i)
    BY <1>2, <2>1 DEF TrySlot, Held
  <2>3. pc'[j] \notin Quiet \cup Using
    BY <1>2, <1>u DEF TrySlot
  <2>4. QED
    BY <1>l, <2>2, <2>3
<1>3. ASSUME NEW j \in Jobs, Acquired(j) PROVE SlotRules'
  BY <1>3, <1>k, <1>u DEF Acquired, Goto
<1>4. ASSUME NEW j \in Jobs, Cancel(j) \/ Run(j) \/ Release(j) PROVE SlotRules'
  BY <1>4, <1>k, <1>u DEF Cancel, Run, Release, Goto
<1>5. ASSUME NEW j \in Jobs, Stopped(j) PROVE SlotRules'
  BY <1>5, <1>k, <1>u DEF Stopped, Goto
<1>6. ASSUME NEW j \in Jobs, Announce(j) \/ HeartbeatTick(j) \/ HeartbeatWrite(j) \/ HeartbeatExit(j)
      PROVE SlotRules'
  BY <1>6, <1>k DEF Announce, HeartbeatTick, HeartbeatWrite, HeartbeatExit
<1>7. ASSUME NEW j \in Jobs, Unlock(j) PROVE SlotRules'
  <2>1. CASE Held(j) # {} /\ UNCHANGED pc /\ \E s \in Highest(Held(j)) : flock' = [flock EXCEPT ![s] = None]
    <3>1. \A i \in Jobs \ {j} : pc'[i] = pc[i] /\ Held(i)' = Held(i)
      BY <2>1 DEF Held, Highest
    <3>2. pc'[j] \notin Quiet \cup Using
      BY <2>1, <1>7, <1>u DEF Unlock, LettingGo
    <3>3. QED
      BY <1>l, <3>1, <3>2
  <2>2. CASE Held(j) = {} /\ UNCHANGED flock
    BY <2>2, <1>7, <1>k, <1>u DEF Unlock, Goto, LettingGo
  <2>3. QED
    BY <1>7, <2>1, <2>2 DEF Unlock
<1>8. ASSUME NEW j \in Jobs, Cleanup(j) PROVE SlotRules'
  BY <1>8, <1>k, <1>u DEF Cleanup, Goto
<1>9. CASE Observe \/ Reap \/ (\E S \in SUBSET Slots : Stall(S)) \/ UNCHANGED vars
  BY <1>9, <1>k DEF Observe, Reap, Stall, vars
<1>10. ASSUME NEW j \in Jobs, Crash(j) PROVE SlotRules'
  <2>1. \A i \in Jobs \ {j} : pc'[i] = pc[i] /\ Held(i)' = Held(i)
    BY <1>10 DEF Crash, Held
  <2>2. pc'[j] \in Quiet /\ Held(j)' = {}
    BY <1>10 DEF Crash, Held
  <2>3. QED
    BY <1>l, <2>1, <2>2
<1>11. QED
  BY <1>1, <1>2, <1>3, <1>4, <1>5, <1>6, <1>7, <1>8, <1>9, <1>10 DEF Next, Step

LEMMA SlotRulesInit == Init => SlotRules
  BY Assumed DEF Init, SlotRules, NoHoldAndWait, FullyGranted, Held, Using, Assumptions

\* No command waits, or has ended, with slots in its hands (queue.go:473-476).
THEOREM NeverHoldsAndWaits == Spec => []NoHoldAndWait
  BY SlotTypeCorrect, SlotRulesInit, SlotRulesStep, PTL DEF Spec, SlotRules

\* A command that runs has every unit it asked for (queue.go:474).
THEOREM AlwaysFullyGranted == Spec => []FullyGranted
  BY SlotTypeCorrect, SlotRulesInit, SlotRulesStep, PTL DEF Spec, SlotRules

-----------------------------------------------------------------------------
\* The strengthening for the holder records: the heartbeat runs only between
\* Run and Stopped, writes only what the lease announced, and the lease knows
\* every record it may have left.
RecordRules ==
    /\ \A j \in Jobs :
         /\ hb[j] # "off" => pc[j] \in {"running", "stopping"}
         /\ hb[j] # "writing" => beating[j] = {}
         /\ beating[j] \subseteq paths[j]
         /\ paths[j] # {} => pc[j] \in Using \cup {"unlocking", "cleaning"}
    /\ \A s \in Slots : \A j \in Jobs : record[s] = j => pc[j] = "dead" \/ s \in paths[j]

LEMMA RecordRulesInit == Init => RecordRules
  BY Assumed DEF Init, RecordRules, Assumptions

LEMMA RecordRulesStep == TypeOK /\ RecordRules /\ [Next]_vars => RecordRules'
<1> SUFFICES ASSUME TypeOK, RecordRules, [Next]_vars PROVE RecordRules'
  OBVIOUS
<1> USE Assumed DEF TypeOK, Assumptions, RecordRules
<1>u. Using = {"announcing", "running", "stopping"}
  BY DEF Using
<1>1. ASSUME NEW j \in Jobs, Attempt(j) \/ Acquired(j) \/ Short(j) \/ OpenFails(j) \/ Cancel(j)
      PROVE RecordRules'
  BY <1>1, <1>u DEF Attempt, Acquired, Short, OpenFails, Cancel, Goto, recordVars
<1>2. ASSUME NEW j \in Jobs, TrySlot(j) PROVE RecordRules'
  BY <1>2 DEF TrySlot, recordVars
<1>3. ASSUME NEW j \in Jobs, Announce(j) PROVE RecordRules'
  <2>1. PICK s \in Lowest(Left(j)) :
             \/ /\ record' = [record EXCEPT ![s] = j]
                /\ stale' = stale \ {s}
                /\ paths' = [paths EXCEPT ![j] = @ \cup {s}]
             \/ UNCHANGED <<record, stale, paths>>
    BY <1>3 DEF Announce
  <2>2. s \in Slots
    BY DEF Lowest, Left, Held
  <2>3. QED
    BY <1>3, <1>u, <2>1, <2>2 DEF Announce
<1>4. ASSUME NEW j \in Jobs, Run(j) \/ Release(j) \/ Stopped(j) PROVE RecordRules'
  BY <1>4, <1>u DEF Run, Release, Stopped, Goto, recordVars
<1>5. ASSUME NEW j \in Jobs, HeartbeatTick(j) \/ HeartbeatExit(j) PROVE RecordRules'
  BY <1>5, <1>u DEF HeartbeatTick, HeartbeatExit
<1>6. ASSUME NEW j \in Jobs, HeartbeatWrite(j) PROVE RecordRules'
  BY <1>6, <1>u DEF HeartbeatWrite
<1>7. ASSUME NEW j \in Jobs, Unlock(j) PROVE RecordRules'
  BY <1>7, <1>u DEF Unlock, Goto, recordVars
<1>8. ASSUME NEW j \in Jobs, Cleanup(j) PROVE RecordRules'
  <2>1. CASE \E s \in Lowest(paths[j]) :
                 /\ record' = [record EXCEPT ![s] = None]
                 /\ stale' = stale \ {s}
                 /\ paths' = [paths EXCEPT ![j] = @ \ {s}]
                 /\ UNCHANGED pc
    BY <2>1, <1>8, <1>u DEF Cleanup, Lowest
  <2>2. CASE paths[j] = {} /\ Goto(j, "cleaning", "idle") /\ UNCHANGED <<record, stale, paths>>
    BY <2>2, <1>8, <1>u DEF Cleanup, Goto
  <2>3. QED
    BY <1>8, <2>1, <2>2 DEF Cleanup
<1>9. CASE Observe \/ Reap \/ (\E S \in SUBSET Slots : Stall(S)) \/ UNCHANGED vars
  BY <1>9 DEF Observe, Reap, Stall, vars
<1>10. ASSUME NEW j \in Jobs, Crash(j) PROVE RecordRules'
  BY <1>10, <1>u DEF Crash
<1>11. QED
  BY <1>1, <1>2, <1>3, <1>4, <1>5, <1>6, <1>7, <1>8, <1>9, <1>10 DEF Next, Step

LEMMA RecordRulesSuffice == TypeOK /\ RecordRules => NoGhostRecord
  BY DEF TypeOK, RecordRules, NoGhostRecord

\* A holder record outlives its lease only when the command died: no heartbeat
\* in flight brings one back after Cleanup (queue.go:400-415).
THEOREM NoRecordOutlivesLease == Spec => []NoGhostRecord
  BY SlotTypeCorrect, RecordRulesInit, RecordRulesStep, RecordRulesSuffice, PTL DEF Spec

-----------------------------------------------------------------------------
(* The pool as a counting budget. *)

\* The units that the jobs of H have when job j has f[j], one by one.
Tokens(f, H) == UNION {{j} \X (1..f[j]) : j \in H}

LEMMA TokensAre ==
    ASSUME NEW f, NEW H
    PROVE  /\ \A j \in H : \A u \in 1..f[j] : <<j, u>> \in Tokens(f, H)
           /\ \A t \in Tokens(f, H) : t[1] \in H /\ t[2] \in 1..f[t[1]] /\ t = <<t[1], t[2]>>
  BY DEF Tokens

\* Units that stand for disjoint sets of slots are no more than the slots.
LEMMA TokensFit ==
    ASSUME NEW f, NEW H, NEW P, NEW U, IsFiniteSet(U),
           \A j \in H : P[j] \in SUBSET U /\ Cardinality(P[j]) = f[j],
           \A i, j \in H : i # j => P[i] \cap P[j] = {}
    PROVE  IsFiniteSet(Tokens(f, H)) /\ Cardinality(Tokens(f, H)) <= Cardinality(U)
<1> DEFINE B == [j \in H |-> CHOOSE g : g \in Bijection(1..f[j], P[j])]
           F == [t \in Tokens(f, H) |-> B[t[1]][t[2]]]
<1>1. ASSUME NEW j \in H
      PROVE  /\ B[j] \in [1..f[j] -> P[j]]
             /\ \A u, v \in 1..f[j] : B[j][u] = B[j][v] => u = v
  <2>1. ExistsBijection(1..f[j], P[j])
    BY FS_Subset, FS_CardinalityType
  <2>2. B[j] \in Bijection(1..f[j], P[j])
    BY <2>1 DEF ExistsBijection
  <2>3. QED
    BY <2>2 DEF Bijection, Injection, IsInjective
<1> HIDE DEF B
<1>2. \A t \in Tokens(f, H) : /\ t[1] \in H /\ t[2] \in 1..f[t[1]] /\ t = <<t[1], t[2]>>
                              /\ F[t] = B[t[1]][t[2]] /\ F[t] \in P[t[1]]
  <2> SUFFICES ASSUME NEW t \in Tokens(f, H)
               PROVE  /\ t[1] \in H /\ t[2] \in 1..f[t[1]] /\ t = <<t[1], t[2]>>
                      /\ F[t] = B[t[1]][t[2]] /\ F[t] \in P[t[1]]
    BY Zenon
  <2>1. t[1] \in H /\ t[2] \in 1..f[t[1]] /\ t = <<t[1], t[2]>>
    BY TokensAre
  <2>2. B[t[1]] \in [1..f[t[1]] -> P[t[1]]]
    BY <1>1, <2>1
  <2>3. B[t[1]][t[2]] \in P[t[1]]
    BY <2>1, <2>2
  <2>4. F[t] = B[t[1]][t[2]]
    OBVIOUS
  <2>5. QED
    BY <2>1, <2>3, <2>4
<1>3. F \in [Tokens(f, H) -> U]
  BY <1>2
<1> HIDE DEF F
<1>4. ASSUME NEW s \in Tokens(f, H), NEW t \in Tokens(f, H), F[s] = F[t] PROVE s = t
  <2>1. s[1] \in H /\ t[1] \in H /\ F[s] \in P[s[1]] /\ F[s] \in P[t[1]]
    BY <1>2, <1>4
  <2>2. s[1] = t[1]
    BY <2>1
  <2>3. s[2] = t[2]
    BY <1>1, <1>2, <1>4, <2>2
  <2>4. QED
    BY <1>2, <2>2, <2>3
<1>5. F \in Injection(Tokens(f, H), U)
  BY <1>3, <1>4, Fun_IsInj
<1>6. QED
  BY <1>5, FS_Injection

\* The units a job gets come on top of those that are out.
LEMMA TokensAdd ==
    ASSUME NEW f, NEW g, NEW H, NEW j \in H, f[j] = 0, NEW n \in Nat, g[j] = n,
           \A i \in H \ {j} : g[i] = f[i],
           IsFiniteSet(Tokens(g, H))
    PROVE  /\ Cardinality(Tokens(f, H)) \in Nat
           /\ Cardinality(Tokens(g, H)) = Cardinality(Tokens(f, H)) + n
<1>1. Tokens(g, H) = Tokens(f, H) \cup ({j} \X (1..n))
  <2>1. ASSUME NEW t \in Tokens(g, H) PROVE t \in Tokens(f, H) \cup ({j} \X (1..n))
    <3>1. t[1] \in H /\ t[2] \in 1..g[t[1]] /\ t = <<t[1], t[2]>>
      BY TokensAre
    <3>2. CASE t[1] = j
      BY <3>1, <3>2
    <3>3. CASE t[1] # j
      BY <3>1, <3>3, TokensAre
    <3>4. QED
      BY <3>2, <3>3
  <2>2. ASSUME NEW t \in Tokens(f, H) PROVE t \in Tokens(g, H)
    <3>1. t[1] \in H /\ t[2] \in 1..f[t[1]] /\ t = <<t[1], t[2]>>
      BY TokensAre
    <3>2. t[1] # j
      BY <3>1
    <3>3. QED
      BY <3>1, <3>2, TokensAre
  <2>3. {j} \X (1..n) \subseteq Tokens(g, H)
    BY TokensAre
  <2>4. QED
    BY <2>1, <2>2, <2>3
<1>2. Tokens(f, H) \cap ({j} \X (1..n)) = {}
  <2> SUFFICES ASSUME NEW t \in Tokens(f, H), t \in {j} \X (1..n) PROVE FALSE
    OBVIOUS
  <2>1. t[1] = j /\ t[2] \in 1..f[t[1]]
    BY TokensAre
  <2>2. QED
    BY <2>1
<1>3. IsFiniteSet(Tokens(f, H))
  BY <1>1, FS_Subset
<1>4. IsFiniteSet({j} \X (1..n)) /\ Cardinality({j} \X (1..n)) = n
  <2>1. IsFiniteSet({j}) /\ Cardinality({j}) = 1
    BY FS_Singleton
  <2>2. IsFiniteSet(1..n) /\ Cardinality(1..n) = n
    BY FS_Interval
  <2>3. IsFiniteSet({j} \X (1..n)) /\ Cardinality({j} \X (1..n)) = 1 * n
    BY <2>1, <2>2, FS_Product
  <2>4. QED
    BY <2>3
<1>5. Cardinality(Tokens(f, H)) \in Nat
  BY <1>3, FS_CardinalityType
<1>6. Cardinality(Tokens(g, H)) =
        Cardinality(Tokens(f, H)) + Cardinality({j} \X (1..n)) - Cardinality(Tokens(f, H) \cap ({j} \X (1..n)))
  BY <1>1, <1>3, <1>4, FS_Union
<1>7. QED
  BY <1>2, <1>4, <1>5, <1>6, FS_EmptySet

LEMMA WantFacts == \A j \in Jobs : Want(j) \in Nat \ {0}
  BY Assumed DEF Want, Assumptions

\* A command that has found all its slots fits in the budget.
LEMMA AcquiredGrants ==
    ASSUME TypeOK, SlotRules, NEW j \in Jobs, Acquired(j) PROVE Pool!Grant(j)
<1>1. /\ pc[j] = "scanning" /\ pc' = [pc EXCEPT ![j] = "announcing"] /\ Cardinality(Held(j)) = Want(j)
  BY DEF Acquired, Goto
<1>2. pc \in [Jobs -> Phases] /\ Using = {"announcing", "running", "stopping"}
  BY DEF TypeOK, Using
<1> DEFINE f == granted
           g == [granted EXCEPT ![j] = Want(j)]
<1>3. /\ f \in [Jobs -> Nat] /\ f[j] = 0 /\ \A i \in Jobs : pc[i] \notin Using => f[i] = 0
      /\ \A i \in Jobs : pc[i] \in Using => f[i] = Want(i)
  BY <1>1, <1>2, WantFacts DEF granted
<1>4. granted' = g
  BY <1>1, <1>2 DEF granted, Want
<1>5. g[j] = Want(j) /\ \A i \in Jobs \ {j} : g[i] = f[i]
  BY <1>3
<1> HIDE DEF f, g
<1> DEFINE P == [i \in Jobs |-> IF i = j \/ pc[i] \in Using THEN Held(i) ELSE {}]
<1>6. IsFiniteSet(Slots) /\ Cardinality(Slots) = Budget
  <2>1. Budget \in Nat \ {0}
    BY Assumed DEF Assumptions
  <2>2. QED
    BY <2>1, FS_Interval DEF Slots
<1>7. \A i \in Jobs : P[i] \in SUBSET Slots /\ Cardinality(P[i]) = g[i]
  <2>1. \A i \in Jobs : i = j \/ pc[i] \in Using => Cardinality(Held(i)) = g[i]
    BY <1>1, <1>3, <1>5 DEF SlotRules, FullyGranted
  <2>2. \A i \in Jobs : ~(i = j \/ pc[i] \in Using) => g[i] = 0
    BY <1>3, <1>5
  <2>3. QED
    BY <2>1, <2>2, FS_EmptySet DEF Held
<1>8. \A i, k \in Jobs : i # k => P[i] \cap P[k] = {}
  BY DEF Held
<1> HIDE DEF P
<1>9. IsFiniteSet(Tokens(g, Jobs)) /\ Cardinality(Tokens(g, Jobs)) <= Budget
  BY <1>6, <1>7, <1>8, TokensFit
<1>10. /\ Cardinality(Tokens(f, Jobs)) \in Nat
       /\ Cardinality(Tokens(g, Jobs)) = Cardinality(Tokens(f, Jobs)) + Want(j)
  BY <1>3, <1>5, <1>9, WantFacts, TokensAdd
<1>11. Pool!Total = Cardinality(Tokens(f, Jobs))
  BY DEF Pool!Total, Pool!Cardinality, Cardinality, Tokens, f
<1>12. Want(j) \in 1..(Budget - Pool!Total)
  BY <1>9, <1>10, <1>11, WantFacts, Assumed DEF Assumptions
<1>13. QED
  BY <1>3, <1>4, <1>12 DEF Pool!Grant, f, g

\* Every other step gives the units of some commands back, or none.
LEMMA StepReturns ==
    ASSUME TypeOK, [Next]_vars, \A j \in Jobs : ~Acquired(j)
    PROVE  Pool!Return({j \in Jobs : pc'[j] \notin Using})
<1>1. ASSUME NEW j \in Jobs, pc'[j] \in Using PROVE pc[j] \in Using
  <2> USE <1>1 DEF Using, Goto, TypeOK
  <2>1. ASSUME NEW i \in Jobs, Attempt(i) \/ TrySlot(i) \/ Short(i) \/ OpenFails(i) \/ Cancel(i)
        PROVE  pc[j] \in Using
    BY <2>1 DEF Attempt, TrySlot, Short, OpenFails, Cancel
  <2>2. ASSUME NEW i \in Jobs, Announce(i) \/ Run(i) \/ Release(i) \/ Stopped(i) PROVE pc[j] \in Using
    BY <2>2 DEF Announce, Run, Release, Stopped
  <2>3. ASSUME NEW i \in Jobs, Unlock(i) \/ Cleanup(i) \/ Crash(i) PROVE pc[j] \in Using
    BY <2>3 DEF Unlock, Cleanup, Crash
  <2>4. ASSUME NEW i \in Jobs, HeartbeatTick(i) \/ HeartbeatWrite(i) \/ HeartbeatExit(i)
        PROVE  pc[j] \in Using
    BY <2>4 DEF HeartbeatTick, HeartbeatWrite, HeartbeatExit
  <2>5. CASE Observe \/ Reap \/ (\E S \in SUBSET Slots : Stall(S)) \/ UNCHANGED vars
    BY <2>5 DEF Observe, Reap, Stall, vars
  <2>6. QED
    BY <2>1, <2>2, <2>3, <2>4, <2>5 DEF Next, Step
<1>2. \A j \in Jobs : Want(j)' = Want(j)
  BY DEF Want
<1>3. QED
  BY <1>1, <1>2 DEF Pool!Return, granted

\* The flocks, the passes over the slots and the releases, one slot at a time
\* and failing anywhere, implement the counting budget (queue.go:471-476):
\* every step takes all the units of one command, gives all the units of some
\* commands back, or changes nothing, and what is out never exceeds Budget.
THEOREM PoolIsBudget == Spec => CountingBudget
<1>1. Init => Pool!Init
  BY DEF Init, Pool!Init, granted, Using
<1>2. TypeOK /\ SlotRules /\ [Next]_vars => [Pool!Next]_granted
  <2> SUFFICES ASSUME TypeOK, SlotRules, [Next]_vars PROVE Pool!Next
    OBVIOUS
  <2>1. CASE \E j \in Jobs : Acquired(j)
    BY <2>1, AcquiredGrants DEF Pool!Next
  <2>2. CASE \A j \in Jobs : ~Acquired(j)
    <3>1. {j \in Jobs : pc'[j] \notin Using} \in SUBSET Jobs
      OBVIOUS
    <3>2. QED
      BY <2>2, <3>1, StepReturns DEF Pool!Next
  <2>3. QED
    BY <2>1, <2>2
<1>3. QED
  BY <1>1, <1>2, SlotTypeCorrect, SlotRulesInit, SlotRulesStep, PTL DEF Spec, CountingBudget, Pool!Spec
=============================================================================
