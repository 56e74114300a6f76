------------------------- MODULE RemoteClaimsProofs -------------------------
(***************************************************************************)
(* For every number of machines and of failures: a machine that was told   *)
(* the claim is its own keeps it until it asks for a release or is         *)
(* replaced on purpose.  There is no arbiter, so the argument is about     *)
(* what the clones carry: a commit in a clone replaces only a claim it was *)
(* allowed to replace, and a push needs the branch to be where the clone   *)
(* was last in step with it.                                               *)
(***************************************************************************)
EXTENDS RemoteClaims, SequenceTheorems, TLAPS

Committed(m) == op[m].kind = "claim" /\ op[m].pc \in {"push", "rebase", "again"}

\* Machines that were told the claim is theirs, or will be if the next push
\* goes through: their claim is on the branch already and the answer was lost.
Entitled(m) == m \in believes \/ (Committed(m) /\ Len(clone[m]) = 1)

\* The inductive invariant, machine by machine.
Fine(m) ==
    /\ m \notin behind => clone[m][1] = store
    /\ \A k \in 2..Len(clone[m]) :
          clone[m][k].holder \in {m, Free} /\ (m \in believes => clone[m][k].holder = m)
    /\ Len(clone[m]) > 1 => clone[m][1].holder \in {m, Free} \cup licence[m]
    /\ op[m].mode = "takeover" \/ op[m].pc = "judge" => op[m].expected \in Machines
    /\ op[m].kind = "release" => m \notin believes
    /\ Committed(m) /\ Len(clone[m]) > 1 => Tip(clone[m]).holder = m
    /\ Entitled(m) => store.holder = m \/ m \in overridden

IInv == TypeOK /\ \A m \in Machines : Fine(m)

-----------------------------------------------------------------------------
(* Sequences: what a rebase and a commit do to a clone. *)

LEMMA LengthFacts ==
  ASSUME NEW c \in Seq(Contents), c # <<>>
  PROVE  /\ Len(c) \in Nat \ {0}
         /\ Len(c) = 1 \/ (Len(c) > 1 /\ 2 \in 2..Len(c) /\ Len(c) \in 2..Len(c))
<1>1. Len(c) \in Nat \ {0}
  BY EmptySeq
<1>2. \A k \in Nat \ {0} : k = 1 \/ (k > 1 /\ 2 \in 2..k /\ k \in 2..k)
  OBVIOUS
<1>3. QED
  BY <1>1, <1>2, Zenon

\* A rebase brings the clone in step with the branch and keeps its own commits,
\* apart from a first one that the branch already has (PullRebase).
LEMMA RebaseFacts ==
  ASSUME NEW c \in Seq(Contents), c # <<>>, store \in Contents, CanRebase(c)
  PROVE  /\ Rebased(c) \in Seq(Contents) /\ Rebased(c) # <<>>
         /\ Rebased(c)[1] = store
         /\ Len(Rebased(c)) > 1 => Len(c) > 1
         /\ Len(c) > 1 => Tip(Rebased(c)) = Tip(c)
         /\ \A k \in 2..Len(Rebased(c)) : \E i \in 2..Len(c) : Rebased(c)[k] = c[i]
         /\ Len(Rebased(c)) > 1 => Rebased(c)[1] = c[1] \/ Rebased(c)[1] = c[2]
<1>1. Len(c) \in Nat \ {0}
  BY EmptySeq, LenProperties
<1>2. CASE Len(c) = 1
  BY <1>2 DEF Rebased, Tip
<1>3. CASE Len(c) > 1 /\ store = c[1]
  BY <1>3, <1>1 DEF Rebased, Tip
<1>4. CASE Len(c) > 1 /\ store # c[1]
  <2>1. Rebased(c) = Tail(c) /\ store = c[2]
    BY <1>4 DEF Rebased, CanRebase
  <2>2. /\ Tail(c) \in Seq(Contents) /\ Len(Tail(c)) = Len(c) - 1
        /\ \A i \in 1..Len(Tail(c)) : Tail(c)[i] = c[i + 1]
    BY HeadTailProperties
  <2>3. Tail(c) # <<>> /\ Tail(c)[1] = c[2] /\ Tip(Tail(c)) = Tip(c)
    <3>1. 1 \in 1..Len(Tail(c)) /\ Len(Tail(c)) \in 1..Len(Tail(c)) /\ Len(Tail(c)) + 1 = Len(c)
      BY <2>2, <1>4, <1>1
    <3>2. Tail(c)[1] = c[2] /\ Tail(c)[Len(Tail(c))] = c[Len(c)]
      BY <2>2, <3>1
    <3>3. Tail(c) # <<>>
      BY <3>1, EmptySeq, SMTT(30)
    <3>4. QED
      BY <3>2, <3>3 DEF Tip
  <2>4. \A k \in 2..Len(Tail(c)) : \E i \in 2..Len(c) : Tail(c)[k] = c[i]
    <3> SUFFICES ASSUME NEW k \in 2..Len(Tail(c)) PROVE \E i \in 2..Len(c) : Tail(c)[k] = c[i]
      OBVIOUS
    <3>1. k + 1 \in 2..Len(c) /\ Tail(c)[k] = c[k + 1]
      BY <2>2, <1>1
    <3>2. QED
      BY <3>1
  <2>5. QED
    BY <2>1, <2>2, <2>3, <2>4, <1>1
<1>5. Len(c) = 1 \/ (Len(c) > 1 /\ store = c[1]) \/ (Len(c) > 1 /\ store # c[1])
  BY <1>1
<1>6. QED
  BY <1>2, <1>3, <1>4, <1>5, Zenon

LEMMA CommitFacts ==
  ASSUME NEW c \in Seq(Contents), c # <<>>, NEW new \in Contents
  PROVE  /\ Append(c, new) \in Seq(Contents) /\ Append(c, new) # <<>>
         /\ Len(Append(c, new)) = Len(c) + 1 /\ Len(c) \in Nat \ {0}
         /\ Append(c, new)[1] = c[1]
         /\ Tip(Append(c, new)) = new
         /\ \A k \in 2..Len(Append(c, new)) :
               Append(c, new)[k] = new \/ (k \in 2..Len(c) /\ Append(c, new)[k] = c[k])
<1>1. Len(c) \in Nat \ {0}
  BY EmptySeq, LenProperties
<1>2. QED
  BY <1>1, AppendProperties DEF Tip

LEMMA SingleFacts ==
  ASSUME NEW x \in Contents
  PROVE  <<x>> \in Seq(Contents) /\ <<x>> # <<>> /\ Len(<<x>>) = 1 /\ <<x>>[1] = x /\ Tip(<<x>>) = x
  BY DEF Tip

LEMMA CloneFacts ==
  ASSUME TypeOK, NEW m \in Machines
  PROVE  /\ clone[m] \in Seq(Contents) /\ clone[m] # <<>> /\ Len(clone[m]) \in Nat \ {0}
         /\ HeadOf(m) \in Contents /\ clone[m][1] \in Contents
         /\ HeadOf(m) = clone[m][Len(clone[m])]
         /\ Len(clone[m]) = 1 \/ (Len(clone[m]) > 1 /\ Len(clone[m]) \in 2..Len(clone[m]))
<1>1. clone[m] \in Seq(Contents) /\ clone[m] # <<>>
  BY DEF TypeOK
<1>2. Len(clone[m]) \in Nat \ {0}
  BY <1>1, LengthFacts
<1>3. Len(clone[m]) = 1 \/ (Len(clone[m]) > 1 /\ Len(clone[m]) \in 2..Len(clone[m]))
  BY <1>1, LengthFacts, Zenon
<1>4. QED
  BY <1>1, <1>2, <1>3, ElementOfSeq DEF HeadOf, Tip

-----------------------------------------------------------------------------
(* Operations. *)

Resting(o) ==
    o.pc \in {"idle", "fetch"} /\ o.mode \in {"normal", "force"} /\ o.kind \in {"none", "claim"}

LEMMA FailsFacts ==
  ASSUME TypeOK, NEW m \in Machines, Fails(m)
  PROVE  /\ op' \in [Machines -> Operation] /\ toldGone' = toldGone
         /\ Resting(op'[m]) /\ \A n \in Machines \ {m} : op'[n] = op[n]
<1>1. op \in [Machines -> Operation]
  BY DEF TypeOK
<1> DEFINE Forced == Asked("claim", "force")
<1>2. Idle \in Operation /\ Resting(Idle)
  BY DEF Idle, Operation, Modes, Resting
<1>3. Forced \in Operation /\ Resting(Forced)
  BY DEF Asked, Idle, Operation, Modes, Resting
<1>4. op' = [op EXCEPT ![m] = Idle] \/ op' = [op EXCEPT ![m] = Forced]
  BY DEF Fails
<1> HIDE DEF Forced
<1>5. QED
  BY <1>1, <1>2, <1>3, <1>4 DEF Fails

\* A machine that takes no part in a step which leaves the branch alone.
LEMMA Bystander ==
  ASSUME NEW n \in Machines, Fine(n),
         clone'[n] = clone[n], op'[n] = op[n], licence'[n] = licence[n],
         n \in believes' <=> n \in believes, n \in behind => n \in behind',
         store' = store, overridden' = overridden
  PROVE  Fine(n)'
  BY DEF Fine, Entitled, Committed, Tip

\* Landing replaces another machine's claim only with a licence to do so.
LEMMA LandOthers ==
  ASSUME IInv, NEW m \in Machines, NEW n \in Machines \ {m}, m \notin behind, Land(m),
         n \in behind', clone'[n] = clone[n], op'[n] = op[n], licence'[n] = licence[n],
         n \in believes' <=> n \in believes
  PROVE  Fine(n)'
<1> USE ConstantsOK DEF IInv
<1>0. /\ Len(clone[m]) = 1 \/ Len(clone[m]) > 1
      /\ HeadOf(m) = clone[m][Len(clone[m])]
  <2>1. TypeOK
    OBVIOUS
  <2>2. QED
    BY <2>1, CloneFacts, Zenon
<1>1. clone[m][1] = store /\ store' = HeadOf(m)
  BY DEF Fine, Land
<1>2. Fine(n) /\ Fine(m)
  OBVIOUS
<1>3. ASSUME Entitled(n) PROVE store'.holder = n \/ n \in overridden'
  <2>1. CASE n \in overridden
    BY <2>1, <1>1 DEF Land
  <2>2. CASE store.holder = n
    <3>1. CASE Len(clone[m]) = 1
      BY <3>1, <2>2, <1>0, <1>1
    <3>2. CASE Len(clone[m]) > 1
      <4>1. n \in licence[m]
        BY <3>2, <2>2, <1>1, <1>2 DEF Fine
      <4>2. QED
        BY <4>1, <2>2, <1>1 DEF Land
    <3>3. QED
      BY <1>0, <3>1, <3>2
  <2>3. QED
    BY <2>1, <2>2, <1>2, <1>3 DEF Fine
<1>4. Entitled(n)' => Entitled(n)
  BY DEF Entitled, Committed
<1>5. QED
  BY <1>2, <1>3, <1>4 DEF Fine, Committed, Tip

\* A machine that lands its own commits keeps, or gets, the claim.
LEMMA LandOwn ==
  ASSUME IInv, NEW m \in Machines, m \notin behind, Land(m), m \in believes \/ Committed(m)
  PROVE  store'.holder = m \/ m \in overridden'
<1> USE DEF IInv
<1>0. /\ Len(clone[m]) = 1 \/ (Len(clone[m]) > 1 /\ Len(clone[m]) \in 2..Len(clone[m]))
      /\ HeadOf(m) = clone[m][Len(clone[m])]
  <2>1. TypeOK
    OBVIOUS
  <2>2. QED
    BY <2>1, CloneFacts, Zenon
<1>1. clone[m][1] = store /\ store' = HeadOf(m) /\ Fine(m)
  BY DEF Fine, Land
<1>2. CASE Len(clone[m]) = 1
  <2>1. store' = store
    BY <1>0, <1>1, <1>2
  <2>2. store.holder = m \/ m \in overridden
    BY <1>1, <1>2 DEF Fine, Entitled
  <2>3. QED
    BY <2>1, <2>2, <1>1 DEF Land
<1>3. CASE Len(clone[m]) > 1
  <2>1. Len(clone[m]) \in 2..Len(clone[m])
    BY <1>0, <1>3
  <2>2. HeadOf(m).holder = m
    BY <2>1, <1>0, <1>1, <1>3 DEF Fine, HeadOf
  <2>3. QED
    BY <2>2, <1>1
<1>4. QED
  BY <1>0, <1>2, <1>3

-----------------------------------------------------------------------------
(* What a step does to the machine that takes it. *)

\* It goes back to rest, or starts, with its clone as it was.
LEMMA SelfRest ==
  ASSUME NEW m \in Machines, Fine(m),
         op'[m].pc \in {"idle", "fetch"}, op'[m].mode # "takeover",
         op'[m].kind = "release" => m \notin believes',
         clone'[m] = clone[m], licence'[m] = licence[m],
         m \in believes' => m \in believes, m \in behind => m \in behind',
         store' = store, overridden' = overridden
  PROVE  Fine(m)'
  BY DEF Fine, Entitled, Committed, Tip

\* It pulls without a conflict.
LEMMA SelfPulled ==
  ASSUME IInv, NEW m \in Machines, CanRebase(clone[m]),
         clone'[m] = Rebased(clone[m]),
         licence'[m] = IF Len(Rebased(clone[m])) > 1 THEN licence[m] ELSE {},
         store' = store, overridden' = overridden, believes' = believes,
         op'[m].mode = "takeover" \/ op'[m].pc = "judge" => op'[m].expected \in Machines,
         op'[m].kind = "release" => m \notin believes,
         Committed(m)' => Committed(m)
  PROVE  Fine(m)'
<1> DEFINE r == Rebased(clone[m])
<1>1. TypeOK /\ Fine(m) /\ store \in Contents /\ clone[m] \in Seq(Contents) /\ clone[m] # <<>>
  BY DEF IInv, TypeOK
<1>2. /\ r \in Seq(Contents) /\ r # <<>> /\ r[1] = store
      /\ Len(r) > 1 => Len(clone[m]) > 1
      /\ Len(clone[m]) > 1 => Tip(r) = Tip(clone[m])
      /\ \A k \in 2..Len(r) : \E i \in 2..Len(clone[m]) : r[k] = clone[m][i]
      /\ Len(r) > 1 => r[1] = clone[m][1] \/ r[1] = clone[m][2]
  BY <1>1, RebaseFacts
<1>3. Len(clone[m]) = 1 \/ (Len(clone[m]) > 1 /\ 2 \in 2..Len(clone[m]))
  BY <1>1, LengthFacts, Zenon
<1>4. r = clone'[m] /\ licence'[m] = IF Len(r) > 1 THEN licence[m] ELSE {}
  OBVIOUS
<1> HIDE DEF r
<1>5. \A k \in 2..Len(r) : r[k].holder \in {m, Free} /\ (m \in believes => r[k].holder = m)
  BY <1>1, <1>2 DEF Fine
<1>6. Len(r) > 1 => r[1].holder \in {m, Free} \cup licence[m]
  BY <1>1, <1>2, <1>3 DEF Fine
<1>7. Committed(m) /\ Len(r) > 1 => Tip(r).holder = m
  BY <1>1, <1>2 DEF Fine
<1>8. ASSUME Committed(m), Len(r) = 1 PROVE store.holder = m \/ m \in overridden
  <2>1. CASE Len(clone[m]) = 1
    BY <2>1, <1>1, <1>8 DEF Fine, Entitled
  <2>2. CASE Len(clone[m]) > 1
    BY <2>2, <1>1, <1>2, <1>8 DEF Fine, Tip
  <2>3. QED
    BY <1>3, <2>1, <2>2
<1>9. m \in believes => store.holder = m \/ m \in overridden
  BY <1>1 DEF Fine, Entitled
<1>10. QED
  BY <1>2, <1>4, <1>5, <1>6, <1>7, <1>8, <1>9 DEF Fine, Entitled, Tip

\* Its clone is reset, or is what the branch has just taken.
LEMMA SelfReset ==
  ASSUME NEW m \in Machines, NEW x \in Contents, clone'[m] = <<x>>,
         m \notin behind' => x = store',
         op'[m].mode = "takeover" \/ op'[m].pc = "judge" => op'[m].expected \in Machines,
         op'[m].kind = "release" => m \notin believes',
         m \in believes' \/ Committed(m)' => store'.holder = m \/ m \in overridden'
  PROVE  Fine(m)'
<1>1. Len(clone'[m]) = 1 /\ clone'[m][1] = x
  BY SingleFacts
<1>2. 2..Len(clone'[m]) = {}
  BY <1>1
<1>3. ~(Len(clone'[m]) > 1)
  BY <1>1
<1>4. QED
  BY <1>1, <1>2, <1>3 DEF Fine, Entitled

\* It commits the claim, or the removal of the claim, that the file allows.
LEMMA SelfCommit ==
  ASSUME IInv, NEW m \in Machines, op[m].pc = "fetch", CanRebase(clone[m]),
         Commit(m, Rebased(clone[m])),
         store' = store, overridden' = overridden, believes' = believes
  PROVE  /\ Fine(m)'
         /\ clone' \in [Machines -> Seq(Contents)] /\ \A n \in Machines : clone'[n] # <<>>
         /\ licence' \in [Machines -> SUBSET Occupants]
<1> DEFINE c == Rebased(clone[m])
           o == op[m]
<1>1. /\ TypeOK /\ Fine(m) /\ store \in Contents /\ clone[m] \in Seq(Contents) /\ clone[m] # <<>>
      /\ o \in Operation
  BY DEF IInv, TypeOK
<1>2. /\ c \in Seq(Contents) /\ c # <<>> /\ c[1] = store
      /\ Len(c) > 1 => Len(clone[m]) > 1
      /\ \A k \in 2..Len(c) : \E i \in 2..Len(clone[m]) : c[k] = clone[m][i]
      /\ Len(c) > 1 => c[1] = clone[m][1] \/ c[1] = clone[m][2]
  BY <1>1, RebaseFacts
<1>3. Len(clone[m]) > 1 => 2 \in 2..Len(clone[m])
  BY <1>1
<1>4. PICK new \in Written(m, o, Tip(c)) : clone' = [clone EXCEPT ![m] = Append(c, new)]
  BY DEF Commit
<1>5. /\ Replaces(m, o, Tip(c))
      /\ licence' = [licence EXCEPT ![m] = Authorises(o) \cup IF Len(c) > 1 THEN licence[m] ELSE {}]
      /\ op'[m].kind = o.kind /\ op'[m].pc = "push" /\ op'[m].mode = o.mode
      /\ op'[m].expected = o.expected
  <2>1. op' = [op EXCEPT ![m].pc = "push"] /\ op \in [Machines -> Operation]
    BY DEF Commit, IInv, TypeOK
  <2>2. QED
    BY <2>1 DEF Commit, Operation
<1>6. \/ o.kind = "claim" /\ new \in Claims /\ new.holder = m
      \/ o.kind = "release" /\ new = NoClaim
  BY <1>4, <1>5 DEF Written, Replaces, Claims
<1>7. new \in Contents /\ new.holder \in {m, Free} /\ (m \in believes => new.holder = m)
  <2>1. new \in Contents
    BY <1>6 DEF Contents, NoClaim
  <2>2. new.holder \in {m, Free}
    BY <1>6 DEF NoClaim
  <2>3. m \in believes => new.holder = m
    BY <1>6, <1>1 DEF Fine
  <2>4. QED
    BY <2>1, <2>2, <2>3
<1> HIDE DEF c
<1> DEFINE d == Append(c, new)
<1>8. /\ d \in Seq(Contents) /\ d # <<>> /\ Len(d) = Len(c) + 1 /\ Len(c) \in Nat \ {0}
      /\ d[1] = c[1] /\ Tip(d) = new
      /\ \A k \in 2..Len(d) : d[k] = new \/ (k \in 2..Len(c) /\ d[k] = c[k])
  BY <1>2, <1>7, CommitFacts
<1>9. clone'[m] = d
  BY <1>1, <1>4 DEF TypeOK
<1> HIDE DEF d
<1>10. Authorises(o) \in SUBSET Occupants
  <2>1. o.mode = "takeover" => o.expected \in Machines
    BY <1>1 DEF Fine
  <2>2. QED
    BY <2>1 DEF Authorises, Occupants
<1>11. licence'[m] = Authorises(o) \cup IF Len(c) > 1 THEN licence[m] ELSE {}
  BY <1>5, <1>1 DEF TypeOK
<1>12. \A k \in 2..Len(d) : d[k].holder \in {m, Free} /\ (m \in believes => d[k].holder = m)
  BY <1>1, <1>2, <1>7, <1>8, SMTT(30) DEF Fine
<1>13. d[1].holder \in {m, Free} \cup licence'[m]
  <2>1. CASE Len(c) > 1
    BY <2>1, <1>1, <1>2, <1>3, <1>8, <1>11 DEF Fine
  <2>2. CASE Len(c) = 1
    <3>1. Tip(c) = d[1] /\ d[1] \in Contents
      BY <2>2, <1>1, <1>2, <1>8 DEF Tip
    <3>2. d[1].holder \in Machines \cup {Free, Bad}
      BY <3>1 DEF Contents, Claims
    <3>3. Authorises(o) = IF o.mode = "force" THEN Machines \cup {Bad}
                          ELSE IF o.mode = "takeover" THEN {o.expected} ELSE {}
      BY <1>1 DEF Authorises, Occupants
    <3>4. QED
      BY <3>1, <3>2, <3>3, <1>5, <1>6, <1>11 DEF Replaces
  <2>3. Len(c) = 1 \/ Len(c) > 1
    BY <1>2, LengthFacts, Zenon
  <2>4. QED
    BY <2>1, <2>2, <2>3
<1>14. Len(d) # 1
  BY <1>8
<1>15. Fine(m)'
  <2>1. m \notin behind' => d[1] = store'
    BY <1>2, <1>8
  <2>2. Committed(m)' => Tip(d).holder = m
    BY <1>5, <1>6, <1>8 DEF Committed
  <2>3. m \in believes => store.holder = m \/ m \in overridden
    BY <1>1 DEF Fine, Entitled
  <2>4. o.mode = "takeover" => o.expected \in Machines
    BY <1>1 DEF Fine
  <2>5. o.kind = "release" => m \notin believes
    BY <1>1 DEF Fine
  <2>6. QED
    BY <2>1, <2>2, <2>3, <2>4, <2>5, <1>5, <1>9, <1>12, <1>13, <1>14 DEF Fine, Entitled
<1>16. clone' \in [Machines -> Seq(Contents)] /\ \A n \in Machines : clone'[n] # <<>>
  BY <1>1, <1>4, <1>8, <1>9 DEF TypeOK, d
<1>17. licence' \in [Machines -> SUBSET Occupants]
  BY <1>1, <1>5, <1>10 DEF TypeOK
<1>18. QED
  BY <1>15, <1>16, <1>17

-----------------------------------------------------------------------------
(* The invariant holds initially and is kept by every step. *)

LEMMA ClaimsInit == Init => IInv
<1> SUFFICES ASSUME Init PROVE IInv
  OBVIOUS
<1> USE ConstantsOK
<1>1. store \in Contents /\ clone = [m \in Machines |-> <<store>>]
  BY DEF Init, Contents, NoClaim, Unreadable
<1>2. \A m \in Machines : clone[m] \in Seq(Contents) /\ clone[m] # <<>> /\ Len(clone[m]) = 1 /\ clone[m][1] = store
  BY <1>1, SingleFacts
<1>3. Idle \in Operation
  BY DEF Idle, Operation, Modes
<1>4. TypeOK
  BY <1>1, <1>2, <1>3 DEF Init, TypeOK
<1>5. ASSUME NEW m \in Machines PROVE Fine(m)
  <2>1. 2..Len(clone[m]) = {} /\ ~(Len(clone[m]) > 1)
    <3>1. Len(clone[m]) = 1
      BY <1>2
    <3>2. 2..1 = {} /\ ~(1 > 1)
      OBVIOUS
    <3>3. QED
      BY <3>1, <3>2, Zenon
  <2>2. op[m].mode = "normal" /\ op[m].pc = "idle" /\ op[m].kind = "none" /\ m \notin believes
    BY DEF Init, Idle
  <2>3. ~Committed(m) /\ ~Entitled(m)
    BY <2>2 DEF Committed, Entitled
  <2>4. QED
    BY <1>2, <2>1, <2>2, <2>3 DEF Fine
<1>6. QED
  BY <1>4, <1>5 DEF IInv

\* Starting an operation, failing, dying: nothing but op and the histories move.
LEMMA QuietSteps ==
  ASSUME IInv, NEW m \in Machines,
         UNCHANGED <<store, clone, licence, overridden>>,
         behind \subseteq behind', behind' \subseteq Machines,
         op' \in [Machines -> Operation], \A n \in Machines \ {m} : op'[n] = op[n],
         op'[m].pc \in {"idle", "fetch"}, op'[m].mode # "takeover",
         op'[m].kind = "release" => m \notin believes',
         believes' \subseteq believes, \A n \in Machines \ {m} : n \in believes => n \in believes',
         toldGone' \subseteq Machines, faults' \in 0..MaxFaults
  PROVE  IInv'
<1>1. TypeOK'
  BY DEF IInv, TypeOK
<1>2. Fine(m)'
  BY SelfRest DEF IInv
<1>3. ASSUME NEW n \in Machines \ {m} PROVE Fine(n)'
  BY <1>3, Bystander DEF IInv
<1>4. QED
  BY <1>1, <1>2, <1>3 DEF IInv

\* Pulling, and what follows from the file that was pulled.
LEMMA PullSteps ==
  ASSUME IInv, NEW m \in Machines, CanRebase(clone[m]), Pulled(m, Rebased(clone[m])),
         UNCHANGED <<store, overridden, believes>>,
         op' \in [Machines -> Operation], \A n \in Machines \ {m} : op'[n] = op[n],
         op'[m].mode = "takeover" \/ op'[m].pc = "judge" => op'[m].expected \in Machines,
         op'[m].kind = "release" => m \notin believes,
         Committed(m)' => Committed(m),
         toldGone' \subseteq Machines, faults' = faults
  PROVE  IInv'
<1>1. TypeOK
  BY DEF IInv
<1>2. Rebased(clone[m]) \in Seq(Contents) /\ Rebased(clone[m]) # <<>>
  BY <1>1, RebaseFacts DEF TypeOK
<1>3. TypeOK'
  BY <1>1, <1>2 DEF TypeOK, Pulled
<1>4. Fine(m)'
  <2>1. /\ clone'[m] = Rebased(clone[m])
        /\ licence'[m] = IF Len(Rebased(clone[m])) > 1 THEN licence[m] ELSE {}
    BY <1>1 DEF TypeOK, Pulled
  <2>2. QED
    BY <2>1, SelfPulled
<1>5. ASSUME NEW n \in Machines \ {m} PROVE Fine(n)'
  <2>1. clone'[n] = clone[n] /\ licence'[n] = licence[n] /\ (n \in behind => n \in behind')
    BY <1>1 DEF TypeOK, Pulled
  <2>2. Fine(n)
    BY DEF IInv
  <2>3. QED
    BY <2>1, <2>2, Bystander
<1>6. QED
  BY <1>3, <1>4, <1>5 DEF IInv

\* The branch takes the commits of m, whether or not m hears of it; the clone is
\* then what landed, or what it was based on.
LEMMA LandSteps ==
  ASSUME IInv, NEW m \in Machines, m \notin behind, Land(m), NEW x \in Contents,
         clone' = [clone EXCEPT ![m] = <<x>>], licence' = [licence EXCEPT ![m] = {}],
         behind' \in {Machines, Machines \ {m}}, m \notin behind' => x = HeadOf(m),
         op' \in [Machines -> Operation], \A n \in Machines \ {m} : op'[n] = op[n],
         op'[m].mode = "takeover" \/ op'[m].pc = "judge" => op'[m].expected \in Machines,
         op'[m].kind = "release" => m \notin believes',
         m \in believes' \/ Committed(m)' => m \in believes \/ Committed(m),
         believes' \subseteq Machines, \A n \in Machines \ {m} : n \in believes' <=> n \in believes,
         toldGone' \subseteq Machines, faults' \in 0..MaxFaults
  PROVE  IInv'
<1>1. TypeOK /\ store' = HeadOf(m) /\ HeadOf(m) \in Contents
  BY CloneFacts DEF IInv, Land
<1>2. <<x>> \in Seq(Contents) /\ <<x>> # <<>>
  BY SingleFacts
<1>3. overridden' \subseteq Machines
  BY <1>1 DEF TypeOK, Land
<1>4. TypeOK'
  BY <1>1, <1>2, <1>3 DEF TypeOK
<1>5. Fine(m)'
  <2>1. clone'[m] = <<x>>
    BY <1>1 DEF TypeOK
  <2>2. m \in believes' \/ Committed(m)' => store'.holder = m \/ m \in overridden'
    BY LandOwn
  <2>3. QED
    BY <1>1, <2>1, <2>2, SelfReset
<1>6. ASSUME NEW n \in Machines \ {m} PROVE Fine(n)'
  <2>1. clone'[n] = clone[n] /\ licence'[n] = licence[n] /\ n \in behind'
    BY <1>1 DEF TypeOK
  <2>2. QED
    BY <2>1, LandOthers
<1>7. QED
  BY <1>4, <1>5, <1>6 DEF IInv

\* The clone is reset without landing anything.
LEMMA ResetSteps ==
  ASSUME IInv, NEW m \in Machines, NEW x \in Contents,
         clone' = [clone EXCEPT ![m] = <<x>>], licence' = [licence EXCEPT ![m] = {}],
         behind' \subseteq behind, behind \ {m} \subseteq behind', m \notin behind' => x = store,
         UNCHANGED <<store, overridden, believes>>,
         op' \in [Machines -> Operation], \A n \in Machines \ {m} : op'[n] = op[n],
         op'[m].mode = "takeover" => op'[m].expected \in Machines,
         op'[m].kind = "release" => m \notin believes,
         op'[m].pc \in {"idle", "fetch"},
         toldGone' \subseteq Machines, faults' \in 0..MaxFaults
  PROVE  IInv'
<1>1. TypeOK
  BY DEF IInv
<1>2. <<x>> \in Seq(Contents) /\ <<x>> # <<>>
  BY SingleFacts
<1>3. TypeOK'
  BY <1>1, <1>2 DEF TypeOK
<1>4. Fine(m)'
  <2>1. clone'[m] = <<x>> /\ ~Committed(m)' /\ op'[m].pc # "judge"
    BY <1>1 DEF TypeOK, Committed
  <2>2. m \in believes => store.holder = m \/ m \in overridden
    BY DEF IInv, Fine, Entitled
  <2>3. QED
    BY <2>1, <2>2, SelfReset
<1>5. ASSUME NEW n \in Machines \ {m} PROVE Fine(n)'
  <2>1. clone'[n] = clone[n] /\ licence'[n] = licence[n] /\ (n \in behind => n \in behind')
    BY <1>1 DEF TypeOK
  <2>2. Fine(n)
    BY DEF IInv
  <2>3. QED
    BY <2>1, <2>2, Bystander
<1>6. QED
  BY <1>3, <1>4, <1>5 DEF IInv

LEMMA ClaimsStep == IInv /\ [Next]_vars => IInv'
<1> SUFFICES ASSUME IInv, [Next]_vars PROVE IInv'
  OBVIOUS
<1> USE ConstantsOK
<1>t. /\ TypeOK /\ op \in [Machines -> Operation] /\ store \in Contents
      /\ behind \subseteq Machines /\ licence \in [Machines -> SUBSET Occupants]
      /\ believes \subseteq Machines /\ overridden \subseteq Machines /\ toldGone \subseteq Machines
      /\ faults \in 0..MaxFaults
  BY DEF IInv, TypeOK
<1>f. Fault => faults' \in 0..MaxFaults
  BY <1>t DEF Fault
<1>o. \A m \in Machines : /\ op[m].mode = "takeover" \/ op[m].pc = "judge" => op[m].expected \in Machines
                          /\ op[m].kind = "release" => m \notin believes
  BY DEF IInv, Fine
<1>i. Idle \in Operation /\ Resting(Idle)
  BY DEF Idle, Operation, Modes, Resting
<1>pc. ASSUME NEW m \in Machines, NEW p \in {"fetch", "push", "rebase", "again"},
              op' = [op EXCEPT ![m].pc = p]
       PROVE  /\ op' \in [Machines -> Operation] /\ \A n \in Machines \ {m} : op'[n] = op[n]
              /\ op'[m].pc = p /\ op'[m].kind = op[m].kind /\ op'[m].mode = op[m].mode
              /\ op'[m].expected = op[m].expected
  BY <1>t, <1>pc DEF Operation
<1>id. ASSUME NEW m \in Machines, op' = [op EXCEPT ![m] = Idle]
       PROVE  /\ op' \in [Machines -> Operation] /\ \A n \in Machines \ {m} : op'[n] = op[n]
              /\ Resting(op'[m])
  BY <1>t, <1>i, <1>id
<1>r. ASSUME NEW m \in Machines, Resting(op'[m])
      PROVE  /\ op'[m].pc \in {"idle", "fetch"} /\ op'[m].mode # "takeover"
             /\ op'[m].pc # "judge" /\ op'[m].kind # "release" /\ ~Committed(m)'
  BY <1>r DEF Resting, Committed
<1>1. ASSUME NEW m \in Machines, NEW k \in {"claim", "release", "publish"}, NEW d \in {"normal", "force"},
             Begin(m, Asked(k, d)),
             believes' \subseteq believes, believes \ {m} \subseteq believes',
             k = "release" => m \notin believes'
      PROVE  IInv'
  <2> DEFINE o == Asked(k, d)
  <2>1. o \in Operation /\ o.pc = "fetch" /\ o.mode # "takeover" /\ o.kind = k
    BY DEF Asked, Idle, Operation, Modes
  <2>2. op' = [op EXCEPT ![m] = o] /\ UNCHANGED <<store, clone, behind, licence, overridden, faults>>
        /\ toldGone' = toldGone \ {m}
    BY <1>1 DEF Begin
  <2> HIDE DEF o
  <2>3. op' \in [Machines -> Operation] /\ op'[m] = o /\ \A n \in Machines \ {m} : op'[n] = op[n]
    BY <1>t, <2>1, <2>2
  <2>4. /\ behind \subseteq behind' /\ behind' \subseteq Machines
        /\ \A n \in Machines \ {m} : n \in believes => n \in believes'
        /\ toldGone' \subseteq Machines /\ faults' \in 0..MaxFaults
    BY <1>t, <1>1, <2>2
  <2>5. QED
    BY <1>1, <2>1, <2>2, <2>3, <2>4, QuietSteps
<1>2. ASSUME NEW m \in Machines, Claim(m) \/ Publish(m) \/ \E d \in {"normal", "force"} : Release(m, d)
      PROVE  IInv'
  <2>1. CASE Claim(m)
    <3>1. Begin(m, Asked("claim", "normal")) /\ believes' = believes
      BY <2>1 DEF Claim
    <3>2. believes' \subseteq believes /\ believes \ {m} \subseteq believes'
      BY <3>1
    <3>3. QED
      BY <3>1, <3>2, <1>1
  <2>2. CASE Publish(m)
    <3>1. Begin(m, Asked("publish", "normal")) /\ believes' = believes
      BY <2>2 DEF Publish
    <3>2. believes' \subseteq believes /\ believes \ {m} \subseteq believes'
      BY <3>1
    <3>3. QED
      BY <3>1, <3>2, <1>1
  <2>3. ASSUME NEW d \in {"normal", "force"}, Release(m, d) PROVE IInv'
    <3>1. Begin(m, Asked("release", d)) /\ believes' = believes \ {m}
      BY <2>3 DEF Release
    <3>2. QED
      BY <3>1, <1>1
  <2>4. QED
    BY <1>2, <2>1, <2>2, <2>3
\* Failures before anything is committed, and those that keep what was.
<1>3. ASSUME NEW m \in Machines, Fails(m), UNCHANGED <<store, clone, behind, licence, overridden, believes>>,
             Fault \/ UNCHANGED faults
      PROVE  IInv'
  <2>1. /\ op' \in [Machines -> Operation] /\ toldGone' = toldGone /\ Resting(op'[m])
        /\ \A n \in Machines \ {m} : op'[n] = op[n]
    BY <1>t, <1>3, FailsFacts
  <2>2. /\ op'[m].pc \in {"idle", "fetch"} /\ op'[m].mode # "takeover" /\ op'[m].kind # "release"
    BY <2>1, <1>r
  <2>3. /\ behind \subseteq behind' /\ behind' \subseteq Machines /\ faults' \in 0..MaxFaults
        /\ toldGone' \subseteq Machines /\ believes' \subseteq believes
        /\ \A n \in Machines \ {m} : n \in believes => n \in believes'
    BY <1>t, <1>f, <1>3, <2>1
  <2>4. QED
    BY <1>3, <2>1, <2>2, <2>3, QuietSteps
<1>4. ASSUME NEW m \in Machines,
             FetchConflicts(m) \/ FetchFails(m) \/ PublishConflicts(m) \/ RebaseFails(m)
      PROVE  IInv'
  BY <1>3, <1>4 DEF FetchConflicts, FetchFails, PublishConflicts, RebaseFails
<1>5. ASSUME NEW m \in Machines, Crash(m) PROVE IInv'
  <2>1. /\ op' = [op EXCEPT ![m] = Idle] /\ Fault
        /\ UNCHANGED <<store, clone, behind, licence, overridden, believes, toldGone>>
    BY <1>5 DEF Crash
  <2>2. /\ op' \in [Machines -> Operation] /\ Resting(op'[m])
        /\ \A n \in Machines \ {m} : op'[n] = op[n]
    BY <2>1, <1>id
  <2>3. /\ op'[m].pc \in {"idle", "fetch"} /\ op'[m].mode # "takeover" /\ op'[m].kind # "release"
    BY <2>2, <1>r
  <2>4. /\ behind \subseteq behind' /\ behind' \subseteq Machines /\ faults' \in 0..MaxFaults
        /\ toldGone' \subseteq Machines /\ believes' \subseteq believes
        /\ \A n \in Machines \ {m} : n \in believes => n \in believes'
    BY <1>t, <1>f, <2>1
  <2>5. QED
    BY <2>1, <2>2, <2>3, <2>4, QuietSteps
<1>6. ASSUME NEW m \in Machines, Fetch(m) PROVE IInv'
  <2> DEFINE c == Rebased(clone[m])
  <2>0. /\ op[m].pc = "fetch" /\ CanRebase(clone[m]) /\ UNCHANGED <<store, overridden, believes, faults>>
        /\ Commit(m, c) \/ Held(m, c) \/ NothingToRelease(m, c) \/ Refuses(m, c) \/ CommitSnapshot(m, c)
    BY <1>6 DEF Fetch
  <2> HIDE DEF c
  <2>1. CASE Commit(m, c)
    <3>1. /\ Fine(m)' /\ clone' \in [Machines -> Seq(Contents)] /\ \A n \in Machines : clone'[n] # <<>>
          /\ licence' \in [Machines -> SUBSET Occupants]
      BY <2>0, <2>1, SelfCommit DEF c
    <3>2. /\ behind' = behind \ {m} /\ op' = [op EXCEPT ![m].pc = "push"] /\ toldGone' = toldGone
          /\ \A n \in Machines \ {m} : clone'[n] = clone[n] /\ licence'[n] = licence[n]
      BY <2>1, <1>t DEF Commit, TypeOK
    <3>3. op' \in [Machines -> Operation] /\ \A n \in Machines \ {m} : op'[n] = op[n]
      BY <3>2, <1>pc
    <3>4. TypeOK'
      BY <1>t, <2>0, <3>1, <3>2, <3>3 DEF TypeOK
    <3>5. ASSUME NEW n \in Machines \ {m} PROVE Fine(n)'
      <4>1. Fine(n)
        BY DEF IInv
      <4>2. QED
        BY <4>1, <2>0, <3>2, <3>3, Bystander
    <3>6. QED
      BY <3>1, <3>4, <3>5 DEF IInv
  <2>2. CASE Held(m, c)
    <3>1. /\ op[m].kind = "claim" /\ Tip(c).holder \in Machines /\ Pulled(m, c) /\ toldGone' = toldGone
          /\ op' = [op EXCEPT ![m] = IF op[m].mode = "normal"
                                     THEN [op[m] EXCEPT !.pc = "judge", !.expected = Tip(c).holder]
                                     ELSE Idle]
      BY <2>2 DEF Held
    <3>2. /\ op' \in [Machines -> Operation] /\ \A n \in Machines \ {m} : op'[n] = op[n]
          /\ op'[m].mode = "takeover" \/ op'[m].pc = "judge" => op'[m].expected \in Machines
          /\ op'[m].kind # "release" /\ op'[m].pc \notin {"push", "rebase", "again"}
      BY <1>t, <1>i, <3>1 DEF Operation, Resting
    <3>3. ~Committed(m)'
      BY <3>2 DEF Committed
    <3>4. QED
      BY <1>t, <2>0, <3>1, <3>2, <3>3, PullSteps DEF c
  <2>3. CASE NothingToRelease(m, c)
    <3>1. Pulled(m, c) /\ op' = [op EXCEPT ![m] = Idle] /\ toldGone' = toldGone \cup {m}
      BY <2>3 DEF NothingToRelease
    <3>2. /\ op' \in [Machines -> Operation] /\ Resting(op'[m])
          /\ \A n \in Machines \ {m} : op'[n] = op[n]
      BY <3>1, <1>id
    <3>3. QED
      BY <1>t, <1>r, <2>0, <3>1, <3>2, PullSteps DEF c
  <2>4. CASE Refuses(m, c)
    <3>1. /\ Pulled(m, c) /\ toldGone' = toldGone /\ op' \in [Machines -> Operation] /\ Resting(op'[m])
          /\ \A n \in Machines \ {m} : op'[n] = op[n]
      BY <2>4, <1>t, FailsFacts DEF Refuses
    <3>2. QED
      BY <1>t, <1>r, <2>0, <3>1, PullSteps DEF c
  <2>5. CASE CommitSnapshot(m, c)
    <3>1. /\ op[m].kind = "publish" /\ Pulled(m, c) /\ toldGone' = toldGone
          /\ op' = [op EXCEPT ![m].pc = "push"]
      BY <2>5 DEF CommitSnapshot
    <3>2. /\ op' \in [Machines -> Operation] /\ \A n \in Machines \ {m} : op'[n] = op[n]
          /\ op'[m].pc = "push" /\ op'[m].kind = "publish" /\ op'[m].mode = op[m].mode
          /\ op'[m].expected = op[m].expected
      BY <3>1, <1>pc
    <3>3. ~Committed(m)'
      BY <3>2 DEF Committed
    <3>4. QED
      BY <1>t, <1>o, <2>0, <3>1, <3>2, <3>3, PullSteps DEF c
  <2>6. QED
    BY <2>0, <2>1, <2>2, <2>3, <2>4, <2>5
<1>7. ASSUME NEW m \in Machines, Rebase(m) PROVE IInv'
  <2>1. /\ op[m].pc = "rebase" /\ CanRebase(clone[m]) /\ Pulled(m, Rebased(clone[m]))
        /\ op' = [op EXCEPT ![m].pc = "again"]
        /\ UNCHANGED <<store, overridden, believes, toldGone, faults>>
    BY <1>7 DEF Rebase
  <2>2. /\ op' \in [Machines -> Operation] /\ \A n \in Machines \ {m} : op'[n] = op[n]
        /\ op'[m].pc = "again" /\ op'[m].kind = op[m].kind /\ op'[m].mode = op[m].mode
        /\ op'[m].expected = op[m].expected
    BY <2>1, <1>pc
  <2>3. Committed(m)' => Committed(m)
    BY <2>1, <2>2 DEF Committed
  <2>4. QED
    BY <1>t, <1>o, <2>1, <2>2, <2>3, PullSteps
<1>8. ASSUME NEW m \in Machines, Judge(m) PROVE IInv'
  <2>1. /\ op[m].pc = "judge" /\ CanRebase(clone[m]) /\ Pulled(m, Rebased(clone[m]))
        /\ UNCHANGED <<store, overridden, believes, toldGone, faults>>
        /\ \/ op' = [op EXCEPT ![m].pc = "fetch", ![m].mode = "takeover"]
           \/ op' = [op EXCEPT ![m].pc = "fetch", ![m].mode = "force", ![m].expected = Free]
           \/ op' = [op EXCEPT ![m] = Idle]
    BY <1>8 DEF Judge
  <2>2. op[m].expected \in Machines
    BY <2>1, <1>o
  <2>3. /\ op' \in [Machines -> Operation] /\ \A n \in Machines \ {m} : op'[n] = op[n]
        /\ op'[m].pc \in {"idle", "fetch"} /\ op'[m].kind \in {op[m].kind, "none"}
        /\ op'[m].mode = "takeover" => op'[m].expected \in Machines
    <3> DEFINE over == [op[m] EXCEPT !.pc = "fetch", !.mode = "takeover"]
               force == [op[m] EXCEPT !.pc = "fetch", !.mode = "force", !.expected = Free]
    <3>1. op[m] \in Operation
      BY <1>t
    <3>2. /\ over \in Operation /\ over.pc = "fetch" /\ over.kind = op[m].kind
          /\ over.expected \in Machines
      BY <3>1, <2>2 DEF Operation, Modes
    <3>3. /\ force \in Operation /\ force.pc = "fetch" /\ force.kind = op[m].kind
          /\ force.mode = "force"
      BY <3>1 DEF Operation, Modes
    <3>4. Idle \in Operation /\ Idle.pc = "idle" /\ Idle.kind = "none" /\ Idle.mode = "normal"
      BY <1>i DEF Idle
    <3>5. op' = [op EXCEPT ![m] = over] \/ op' = [op EXCEPT ![m] = force] \/ op' = [op EXCEPT ![m] = Idle]
      BY <2>1, <1>t
    <3> HIDE DEF over, force
    <3>6. QED
      BY <1>t, <3>2, <3>3, <3>4, <3>5
  <2>4. ~Committed(m)' /\ op'[m].pc # "judge" /\ (op'[m].kind = "release" => m \notin believes)
    BY <2>3, <1>o DEF Committed
  <2>5. QED
    BY <1>t, <2>1, <2>3, <2>4, PullSteps
<1>9. ASSUME NEW m \in Machines, PushRejected(m) PROVE IInv'
  <2>1. /\ op[m].pc = "push" /\ op' = [op EXCEPT ![m].pc = "rebase"] /\ faults' \in 0..MaxFaults
        /\ UNCHANGED <<store, clone, behind, licence, overridden, believes, toldGone>>
    BY <1>9, <1>t, <1>f DEF PushRejected
  <2>2. /\ op' \in [Machines -> Operation] /\ \A n \in Machines \ {m} : op'[n] = op[n]
        /\ op'[m].pc = "rebase" /\ op'[m].kind = op[m].kind /\ op'[m].mode = op[m].mode
        /\ op'[m].expected = op[m].expected
    BY <2>1, <1>pc
  <2>3. TypeOK'
    BY <1>t, <2>1, <2>2 DEF TypeOK
  <2>4. Committed(m)' <=> Committed(m)
    BY <2>1, <2>2 DEF Committed
  <2>5. Fine(m)'
    BY <2>1, <2>2, <2>4 DEF IInv, Fine, Entitled, Tip
  <2>6. ASSUME NEW n \in Machines \ {m} PROVE Fine(n)'
    BY <2>1, <2>2, Bystander DEF IInv
  <2>7. QED
    BY <2>3, <2>5, <2>6 DEF IInv
<1>h. \A m \in Machines : HeadOf(m) \in Contents /\ clone[m][1] \in Contents
  BY <1>t, CloneFacts
<1>10. ASSUME NEW m \in Machines, Push(m) PROVE IInv'
  <2>1. /\ op[m].pc \in {"push", "again"} /\ m \notin behind /\ Land(m) /\ behind' = Machines \ {m}
        /\ clone' = [clone EXCEPT ![m] = <<HeadOf(m)>>] /\ licence' = [licence EXCEPT ![m] = {}]
        /\ faults' = faults /\ op' = [op EXCEPT ![m] = Idle]
        /\ believes' = believes \cup (IF op[m].kind = "claim" THEN {m} ELSE {})
        /\ toldGone' = (IF op[m].kind = "release" THEN toldGone \cup {m} ELSE toldGone)
    BY <1>10 DEF Push, Succeeds
  <2>2. /\ op' \in [Machines -> Operation] /\ Resting(op'[m])
        /\ \A n \in Machines \ {m} : op'[n] = op[n]
    BY <2>1, <1>id
  <2>3. op[m].kind = "claim" => Committed(m)
    BY <2>1 DEF Committed
  <2>4. /\ believes' \subseteq Machines /\ toldGone' \subseteq Machines
        /\ \A n \in Machines \ {m} : n \in believes' <=> n \in believes
        /\ m \in believes' => m \in believes \/ Committed(m)
    BY <1>t, <2>1, <2>3
  <2>5. QED
    BY <1>t, <1>r, <1>h, <2>1, <2>2, <2>4, LandSteps
<1>11. ASSUME NEW m \in Machines, PushAnswerLost(m) PROVE IInv'
  <2>1. /\ op[m].pc = "push" /\ m \notin behind /\ Fault /\ Land(m) /\ behind' = Machines \ {m}
        /\ clone' = [clone EXCEPT ![m] = <<HeadOf(m)>>] /\ licence' = [licence EXCEPT ![m] = {}]
        /\ op' = [op EXCEPT ![m].pc = "rebase"] /\ UNCHANGED <<believes, toldGone>>
    BY <1>11 DEF PushAnswerLost
  <2>2. /\ op' \in [Machines -> Operation] /\ \A n \in Machines \ {m} : op'[n] = op[n]
        /\ op'[m].pc = "rebase" /\ op'[m].kind = op[m].kind /\ op'[m].mode = op[m].mode
        /\ op'[m].expected = op[m].expected
    BY <2>1, <1>pc
  <2>3. Committed(m)' => Committed(m)
    BY <2>1, <2>2 DEF Committed
  <2>4. QED
    BY <1>t, <1>f, <1>o, <1>h, <2>1, <2>2, <2>3, LandSteps, ZenonT(60)
<1>12. ASSUME NEW m \in Machines, SecondAnswerLost(m) PROVE IInv'
  <2>1. /\ m \notin behind /\ Fault /\ Land(m) /\ UNCHANGED believes
        /\ op' \in [Machines -> Operation] /\ toldGone' = toldGone /\ Resting(op'[m])
        /\ \A n \in Machines \ {m} : op'[n] = op[n]
    BY <1>12, <1>t, FailsFacts DEF SecondAnswerLost
  <2>2. PICK x \in {HeadOf(m), clone[m][1]} :
          /\ clone' = [clone EXCEPT ![m] = <<x>>] /\ licence' = [licence EXCEPT ![m] = {}]
          /\ behind' \in {Machines, Machines \ {m}} /\ (m \notin behind' => x = HeadOf(m))
    BY <1>12 DEF SecondAnswerLost, Discards
  <2>3. x \in Contents
    BY <1>h
  <2>4. QED
    BY <1>t, <1>f, <1>r, <2>1, <2>2, <2>3, LandSteps
<1>13. ASSUME NEW m \in Machines, RebaseConflicts(m) PROVE IInv'
  <2>1. Pulled(m, <<store>>) /\ UNCHANGED <<store, overridden, believes, faults>>
    BY <1>13 DEF RebaseConflicts
  <2>2. ~(Len(<<store>>) > 1)
    OBVIOUS
  <2>3. /\ clone' = [clone EXCEPT ![m] = <<store>>] /\ licence' = [licence EXCEPT ![m] = {}]
        /\ behind' = behind \ {m}
    BY <2>1, <2>2 DEF Pulled
  <2>4. CASE Fails(m)
    <3>1. /\ op' \in [Machines -> Operation] /\ toldGone' = toldGone /\ Resting(op'[m])
          /\ \A n \in Machines \ {m} : op'[n] = op[n]
      BY <2>4, <1>t, FailsFacts
    <3>2. QED
      BY <1>t, <1>r, <2>1, <2>3, <3>1, ResetSteps
  <2>5. CASE op' = [op EXCEPT ![m].pc = "fetch", ![m].retried = TRUE] /\ toldGone' = toldGone
    <3>1. /\ op' \in [Machines -> Operation] /\ \A n \in Machines \ {m} : op'[n] = op[n]
          /\ op'[m].pc = "fetch" /\ op'[m].kind = op[m].kind /\ op'[m].mode = op[m].mode
          /\ op'[m].expected = op[m].expected
      <4> DEFINE again == [op[m] EXCEPT !.pc = "fetch", !.retried = TRUE]
      <4>1. op[m] \in Operation
        BY <1>t
      <4>2. /\ again \in Operation /\ again.pc = "fetch" /\ again.kind = op[m].kind
            /\ again.mode = op[m].mode /\ again.expected = op[m].expected
        BY <4>1 DEF Operation
      <4>3. op' = [op EXCEPT ![m] = again]
        BY <2>5, <1>t
      <4> HIDE DEF again
      <4>4. QED
        BY <1>t, <4>2, <4>3
    <3>2. QED
      BY <1>t, <1>o, <2>1, <2>3, <2>5, <3>1, ResetSteps
  <2>6. QED
    BY <1>13, <2>4, <2>5 DEF RebaseConflicts
<1>14. ASSUME NEW m \in Machines, PushRejectedAgain(m) PROVE IInv'
  <2>1. /\ Discards(m) /\ Fails(m) /\ UNCHANGED <<store, behind, overridden, believes>>
        /\ Fault \/ UNCHANGED faults
    BY <1>14 DEF PushRejectedAgain
  <2>2. CASE UNCHANGED <<clone, licence>>
    BY <2>1, <2>2, <1>3
  <2>3. CASE clone' = [clone EXCEPT ![m] = <<clone[m][1]>>] /\ licence' = [licence EXCEPT ![m] = {}]
    <3>1. /\ op' \in [Machines -> Operation] /\ toldGone' = toldGone /\ Resting(op'[m])
          /\ \A n \in Machines \ {m} : op'[n] = op[n]
      BY <2>1, <1>t, FailsFacts
    <3>2. m \notin behind => clone[m][1] = store
      BY DEF IInv, Fine
    <3>3. QED
      BY <1>t, <1>f, <1>r, <1>h, <2>1, <2>3, <3>1, <3>2, ResetSteps
  <2>4. QED
    BY <2>1, <2>2, <2>3 DEF Discards
<1>15. CASE UNCHANGED vars
  <2>1. TypeOK'
    BY <1>t, <1>15 DEF TypeOK, vars
  <2>2. ASSUME NEW n \in Machines PROVE Fine(n)'
    BY <1>15, Bystander DEF IInv, vars
  <2>3. QED
    BY <2>1, <2>2 DEF IInv
<1>16. QED
  BY <1>2, <1>4, <1>5, <1>6, <1>7, <1>8, <1>9, <1>10, <1>11, <1>12, <1>13, <1>14, <1>15 DEF Next, Step

\* The store, the clones and the operations stay well typed: a take-over always
\* names the machine it expects to replace (claims.go, provider.go).
THEOREM ClaimsTypeCorrect == Spec => []TypeOK
<1>1. IInv => TypeOK
  BY DEF IInv
<1>2. QED
  BY <1>1, ClaimsInit, ClaimsStep, PTL DEF Spec

\* A machine that was told it holds the claim holds it on the shared branch
\* until it asks for a release or is replaced on purpose, whatever is lost,
\* left over or raced in between (mutateStore, Fetch, Publish).
THEOREM BelievedClaimAlwaysStands == Spec => []BelievedClaimStands
<1>1. IInv => BelievedClaimStands
  BY DEF IInv, TypeOK, Fine, Entitled, BelievedClaimStands
<1>2. QED
  BY <1>1, ClaimsInit, ClaimsStep, PTL DEF Spec

-----------------------------------------------------------------------------
(* Without a failure nothing is left behind. *)

\* Only a claim or a release between its commit and its push has a commit that
\* is not on the branch.
Clean(m) ==
    Len(clone[m]) > 1 => op[m].kind \in {"claim", "release"} /\ op[m].pc \in {"push", "rebase", "again"}

CleanSoFar == faults = 0 => \A m \in Machines : Clean(m)

LEMMA CleanStep == IInv /\ CleanSoFar /\ [Next]_vars => CleanSoFar'
<1> SUFFICES ASSUME IInv, CleanSoFar, [Next]_vars, faults' = 0 PROVE \A m \in Machines : Clean(m)'
  BY DEF CleanSoFar
<1>t. /\ TypeOK /\ op \in [Machines -> Operation] /\ store \in Contents /\ faults \in Nat
      /\ clone \in [Machines -> Seq(Contents)]
  BY ConstantsOK DEF IInv, TypeOK
<1>f. ~Fault
  BY <1>t DEF Fault
<1>0. CASE UNCHANGED vars
  BY <1>0 DEF vars, CleanSoFar, Clean
<1>1. ASSUME NEW m \in Machines, faults' = faults,
             \A n \in Machines \ {m} : clone'[n] = clone[n] /\ op'[n] = op[n], Clean(m) => Clean(m)'
      PROVE  \A n \in Machines : Clean(n)'
  <2>1. \A n \in Machines : Clean(n)
    BY <1>1 DEF CleanSoFar
  <2>2. QED
    BY <1>1, <2>1 DEF Clean
<1>c. \A m \in Machines : clone[m] \in Seq(Contents) /\ clone[m] # <<>>
  BY <1>t DEF TypeOK
<1>r. \A m \in Machines : CanRebase(clone[m]) /\ ~(Len(clone[m]) > 1) => ~(Len(Rebased(clone[m])) > 1)
  BY <1>t, <1>c, RebaseFacts
<1>x. \A x : ~(Len(<<x>>) > 1)
  OBVIOUS
<1>2. ASSUME NEW m \in Machines, Claim(m) \/ Publish(m) \/ \E d \in {"normal", "force"} : Release(m, d)
      PROVE  \A n \in Machines : Clean(n)'
  <2>1. /\ op[m].pc = "idle" /\ UNCHANGED <<clone, faults>>
        /\ \A n \in Machines \ {m} : op'[n] = op[n]
    BY <1>2, <1>t DEF Claim, Publish, Release, Begin
  <2>2. QED
    BY <2>1, <1>1 DEF Clean
<1>3. ASSUME NEW m \in Machines, FetchConflicts(m) \/ PublishConflicts(m)
      PROVE  \A n \in Machines : Clean(n)'
  <2>1. /\ op[m].pc = "fetch" \/ op[m].kind = "publish"
        /\ UNCHANGED <<clone, faults>> /\ Fails(m)
    BY <1>3 DEF FetchConflicts, PublishConflicts
  <2>2. \A n \in Machines \ {m} : op'[n] = op[n]
    BY <2>1, <1>t, FailsFacts
  <2>3. QED
    BY <2>1, <2>2, <1>1 DEF Clean
<1>4. ASSUME NEW m \in Machines, Fetch(m) PROVE \A n \in Machines : Clean(n)'
  <2>1. /\ op[m].pc = "fetch" /\ CanRebase(clone[m]) /\ faults' = faults
    BY <1>4 DEF Fetch
  <2>2. CASE Commit(m, Rebased(clone[m]))
    <3>1. /\ op' = [op EXCEPT ![m].pc = "push"] /\ op[m].kind \in {"claim", "release"}
          /\ \A n \in Machines \ {m} : clone'[n] = clone[n]
      BY <2>2, <1>t DEF Commit, Replaces
    <3>2. op'[m].pc = "push" /\ op'[m].kind = op[m].kind /\ \A n \in Machines \ {m} : op'[n] = op[n]
      BY <3>1, <1>t DEF Operation
    <3>3. QED
      BY <2>1, <3>1, <3>2, <1>1 DEF Clean
  <2>3. CASE ~Commit(m, Rebased(clone[m]))
    <3>1. Pulled(m, Rebased(clone[m])) /\ \A n \in Machines \ {m} : op'[n] = op[n]
      BY <1>4, <2>3, <1>t, FailsFacts DEF Fetch, Held, NothingToRelease, Refuses, CommitSnapshot
    <3>2. clone'[m] = Rebased(clone[m]) /\ \A n \in Machines \ {m} : clone'[n] = clone[n]
      BY <3>1, <1>t DEF Pulled
    <3>3. Clean(m) => Clean(m)'
      BY <2>1, <3>2, <1>r DEF Clean
    <3>4. QED
      BY <2>1, <3>1, <3>2, <3>3, <1>1
  <2>4. QED
    BY <2>2, <2>3
<1>5. ASSUME NEW m \in Machines, Push(m) \/ RebaseConflicts(m) PROVE \A n \in Machines : Clean(n)'
  <2>1. PICK x : clone' = [clone EXCEPT ![m] = <<x>>]
    BY <1>5 DEF Push, RebaseConflicts, Pulled
  <2>2. faults' = faults /\ \A n \in Machines \ {m} : op'[n] = op[n]
    BY <1>5, <1>t, FailsFacts DEF Push, Succeeds, RebaseConflicts
  <2>3. clone'[m] = <<x>> /\ \A n \in Machines \ {m} : clone'[n] = clone[n]
    BY <2>1, <1>t
  <2>4. Clean(m)'
    BY <2>3, <1>x DEF Clean
  <2>5. QED
    BY <2>2, <2>3, <2>4, <1>1
<1>6. ASSUME NEW m \in Machines, PushRejected(m) PROVE \A n \in Machines : Clean(n)'
  <2>1. faults' = faults /\ UNCHANGED clone /\ op' = [op EXCEPT ![m].pc = "rebase"] /\ op[m].pc = "push"
    BY <1>6, <1>f DEF PushRejected
  <2>2. op'[m].pc = "rebase" /\ op'[m].kind = op[m].kind /\ \A n \in Machines \ {m} : op'[n] = op[n]
    BY <2>1, <1>t DEF Operation
  <2>3. QED
    BY <2>1, <2>2, <1>1 DEF Clean
<1>7. ASSUME NEW m \in Machines, Rebase(m) PROVE \A n \in Machines : Clean(n)'
  <2>1. /\ faults' = faults /\ Pulled(m, Rebased(clone[m])) /\ op' = [op EXCEPT ![m].pc = "again"]
        /\ CanRebase(clone[m])
    BY <1>7 DEF Rebase
  <2>2. op'[m].pc = "again" /\ op'[m].kind = op[m].kind /\ \A n \in Machines \ {m} : op'[n] = op[n]
    BY <2>1, <1>t DEF Operation
  <2>3. clone'[m] = Rebased(clone[m]) /\ \A n \in Machines \ {m} : clone'[n] = clone[n]
    BY <2>1, <1>t DEF Pulled
  <2>4. Clean(m) => Clean(m)'
    BY <2>1, <2>2, <2>3, <1>r DEF Clean
  <2>5. QED
    BY <2>1, <2>2, <2>3, <2>4, <1>1
<1>8. ASSUME NEW m \in Machines, PushRejectedAgain(m) PROVE \A n \in Machines : Clean(n)'
  <2>1. /\ faults' = faults /\ Discards(m) /\ \A n \in Machines \ {m} : op'[n] = op[n]
    BY <1>8, <1>f, <1>t, FailsFacts DEF PushRejectedAgain
  <2>2. CASE op[m].kind = "publish"
    <3>1. UNCHANGED clone
      BY <2>1, <2>2 DEF Discards
    <3>2. QED
      BY <2>1, <2>2, <3>1, <1>1 DEF Clean
  <2>3. CASE op[m].kind # "publish"
    <3>1. clone' = [clone EXCEPT ![m] = <<clone[m][1]>>]
      BY <2>1, <2>3 DEF Discards
    <3>2. clone'[m] = <<clone[m][1]>> /\ \A n \in Machines \ {m} : clone'[n] = clone[n]
      BY <3>1, <1>t
    <3>3. Clean(m)'
      BY <3>2, <1>x DEF Clean
    <3>4. QED
      BY <2>1, <3>2, <3>3, <1>1
  <2>4. QED
    BY <2>2, <2>3
<1>9. ASSUME NEW m \in Machines, Judge(m) PROVE \A n \in Machines : Clean(n)'
  <2>1. /\ op[m].pc = "judge" /\ faults' = faults /\ Pulled(m, Rebased(clone[m])) /\ CanRebase(clone[m])
        /\ \A n \in Machines \ {m} : op'[n] = op[n]
    BY <1>9, <1>t DEF Judge
  <2>2. clone'[m] = Rebased(clone[m]) /\ \A n \in Machines \ {m} : clone'[n] = clone[n]
    BY <2>1, <1>t DEF Pulled
  <2>3. Clean(m) => Clean(m)'
    BY <2>1, <2>2, <1>r DEF Clean
  <2>4. QED
    BY <2>1, <2>2, <2>3, <1>1
<1>10. ASSUME NEW m \in Machines,
              FetchFails(m) \/ PushAnswerLost(m) \/ SecondAnswerLost(m) \/ RebaseFails(m) \/ Crash(m)
       PROVE  FALSE
  BY <1>10, <1>f DEF FetchFails, PushAnswerLost, SecondAnswerLost, RebaseFails, Crash
<1>11. QED
  BY <1>0, <1>2, <1>3, <1>4, <1>5, <1>6, <1>7, <1>8, <1>9, <1>10 DEF Next, Step

\* As long as nothing fails, no operation leaves a commit behind in its clone,
\* whoever it raced with (mutateStore discards what it could not push).
THEOREM NothingIsLeftBehind == Spec => []NothingLeftBehind
<1>1. Init => CleanSoFar
  <2>1. ASSUME Init, NEW m \in Machines PROVE Clean(m)
    <3>1. clone[m] = <<store>>
      BY <2>1 DEF Init
    <3>2. Len(<<store>>) = 1
      OBVIOUS
    <3>3. ~(Len(<<store>>) > 1)
      BY <3>2
    <3>4. QED
      BY <3>1, <3>3 DEF Clean
  <2>2. QED
    BY <2>1 DEF CleanSoFar
<1>2. CleanSoFar => NothingLeftBehind
  BY DEF CleanSoFar, Clean, NothingLeftBehind, Pending
<1>3. QED
  BY <1>1, <1>2, ClaimsInit, ClaimsStep, CleanStep, PTL DEF Spec

-----------------------------------------------------------------------------
(* The clones together are an atomic register. *)

\* The holder on the branch has not been displaced; a machine whose claim is
\* replaced and that claims again is in place again.
InPlace == store.holder \notin overridden

LEMMA InPlaceStep == InPlace /\ [Next]_vars => InPlace'
<1> SUFFICES ASSUME InPlace, [Next]_vars PROVE InPlace'
  OBVIOUS
<1>1. (\E m \in Machines : Land(m)) \/ UNCHANGED <<store, overridden>>
  <2>1. ASSUME NEW m \in Machines, Claim(m) \/ Publish(m) \/ \E d \in {"normal", "force"} : Release(m, d)
        PROVE  UNCHANGED <<store, overridden>>
    BY <2>1 DEF Claim, Publish, Release, Begin
  <2>2. ASSUME NEW m \in Machines, Push(m) \/ PushAnswerLost(m) \/ SecondAnswerLost(m)
        PROVE  Land(m)
    BY <2>2 DEF Push, PushAnswerLost, SecondAnswerLost
  <2>3. ASSUME NEW m \in Machines,
               \/ Fetch(m) \/ FetchConflicts(m) \/ FetchFails(m) \/ PushRejected(m) \/ Rebase(m)
               \/ RebaseConflicts(m) \/ PublishConflicts(m) \/ RebaseFails(m)
               \/ PushRejectedAgain(m) \/ Judge(m) \/ Crash(m)
        PROVE  UNCHANGED <<store, overridden>>
    BY <2>3 DEF Fetch, FetchConflicts, FetchFails, PushRejected, Rebase, RebaseConflicts,
                PublishConflicts, RebaseFails, PushRejectedAgain, Judge, Crash
  <2>4. QED
    BY <2>1, <2>2, <2>3 DEF Next, Step, vars
<1>2. QED
  BY <1>1 DEF InPlace, Land

\* A step that leaves the branch alone may change what its machine was asked to
\* replace, and whether it still counts on the claim.
LEMMA AskSteps ==
  ASSUME TypeOK, NEW m \in Machines, UNCHANGED <<store, overridden>>,
         believes' \in {believes, believes \ {m}},
         licence' \in [Machines -> SUBSET Occupants], \A n \in Machines \ {m} : licence'[n] = licence[n]
  PROVE  Register!Ask(m)
<1>1. licence \in [Machines -> SUBSET Occupants]
  BY DEF TypeOK
<1>2. licence' = [licence EXCEPT ![m] = licence'[m]] /\ licence'[m] \in SUBSET Occupants
  BY <1>1
<1>3. QED
  BY <1>2 DEF Register!Ask, Occupants

\* What lands replaces a claim its machine may replace; a push that has nothing
\* to land tells a machine of what landed before.
LEMMA LandIsSwap ==
  ASSUME IInv, InPlace, NEW m \in Machines, m \notin behind, Land(m),
         licence' = [licence EXCEPT ![m] = {}],
         believes' \in {believes, believes \cup {m}},
         believes' = believes \/ Committed(m)
  PROVE  Register!Ask(m) \/ Register!Swap(m) \/ Register!Confirm(m)
<1>0. /\ TypeOK /\ Fine(m) /\ clone[m][1] = store /\ store' = HeadOf(m)
      /\ overridden' = (overridden \cup ({store.holder} \cap licence[m] \cap Machines))
                          \ {HeadOf(m).holder}
  BY DEF IInv, Fine, Land
<1>1. /\ HeadOf(m) = clone[m][Len(clone[m])] /\ HeadOf(m) = Tip(clone[m])
      /\ Len(clone[m]) = 1 \/ (Len(clone[m]) > 1 /\ Len(clone[m]) \in 2..Len(clone[m]))
  <2>1. HeadOf(m) = Tip(clone[m])
    BY DEF HeadOf
  <2>2. QED
    BY <1>0, <2>1, CloneFacts, Zenon
<1>2. CASE Len(clone[m]) = 1
  <2>1. HeadOf(m) = store
    BY <1>0, <1>1, <1>2
  <2>2. UNCHANGED <<store, overridden>>
    BY <1>0, <2>1 DEF InPlace
  <2>3. CASE believes' = believes
    <3>1. licence' \in [Machines -> SUBSET Occupants] /\ \A n \in Machines \ {m} : licence'[n] = licence[n]
      BY <1>0 DEF TypeOK
    <3>2. QED
      BY <1>0, <2>2, <2>3, <3>1, AskSteps
  <2>4. CASE believes' = believes \cup {m} /\ Committed(m)
    <3>1. store.holder = m \/ m \in overridden
      BY <1>0, <1>2, <2>4 DEF Fine, Entitled
    <3>2. QED
      BY <2>2, <2>4, <3>1 DEF Register!Confirm
  <2>5. QED
    BY <2>3, <2>4
<1>3. CASE Len(clone[m]) > 1
  <2>1. HeadOf(m).holder \in {m, Free} /\ (m \in believes => HeadOf(m).holder = m)
    <3>1. Len(clone[m]) \in 2..Len(clone[m])
      BY <1>1, <1>3
    <3>2. \A k \in 2..Len(clone[m]) :
            clone[m][k].holder \in {m, Free} /\ (m \in believes => clone[m][k].holder = m)
      BY <1>0 DEF Fine
    <3>3. QED
      BY <1>1, <3>1, <3>2, Zenon
  <2>2. store.holder \in {m, Free} \cup licence[m]
    BY <1>0, <1>3 DEF Fine
  <2>3. Committed(m) => HeadOf(m).holder = m
    BY <1>0, <1>1, <1>3 DEF Fine
  <2>4. m \in believes => HeadOf(m).holder # Free
    BY <2>1, ConstantsOK
  <2>5. believes' \in {believes, believes \cup ({HeadOf(m).holder} \cap {m})}
    BY <2>3
  <2>6. Register!Swap(m)
    BY <1>0, <2>1, <2>2, <2>4, <2>5 DEF Register!Swap
  <2>7. QED
    BY <2>6
<1>4. QED
  BY <1>1, <1>2, <1>3

LEMMA RegisterInit == Init => Register!Init
<1> SUFFICES ASSUME Init PROVE Register!Init
  OBVIOUS
<1>1. store.holder \in {Free, Bad}
  BY DEF Init, NoClaim, Unreadable
<1>2. QED
  BY <1>1 DEF Init, Register!Init

LEMMA RegisterStep ==
  IInv /\ InPlace /\ [Next]_vars
    => [Register!Next]_<<store.holder, licence, believes, overridden>>
<1> SUFFICES ASSUME IInv, InPlace, [Next]_vars
             PROVE  Register!Next \/ UNCHANGED <<store.holder, licence, believes, overridden>>
  OBVIOUS
<1>t. TypeOK /\ licence \in [Machines -> SUBSET Occupants]
  BY DEF IInv, TypeOK
<1>1. ASSUME NEW m \in Machines, Claim(m) \/ Publish(m) \/ \E d \in {"normal", "force"} : Release(m, d)
      PROVE  Register!Next
  <2>1. UNCHANGED <<store, overridden, licence>> /\ believes' \in {believes, believes \ {m}}
    BY <1>1 DEF Claim, Publish, Release, Begin
  <2>2. Register!Ask(m)
    BY <1>t, <2>1, AskSteps
  <2>3. QED
    BY <2>2 DEF Register!Next
<1>2. ASSUME NEW m \in Machines,
             \/ FetchConflicts(m) \/ FetchFails(m) \/ PushRejected(m) \/ PublishConflicts(m)
             \/ RebaseFails(m) \/ Crash(m)
      PROVE  UNCHANGED <<store.holder, licence, believes, overridden>>
  BY <1>2 DEF FetchConflicts, FetchFails, PushRejected, PublishConflicts, RebaseFails, Crash
<1>p. ASSUME NEW m \in Machines, NEW c, Pulled(m, c)
      PROVE  licence' \in [Machines -> SUBSET Occupants] /\ \A n \in Machines \ {m} : licence'[n] = licence[n]
  BY <1>p, <1>t DEF Pulled
<1>3. ASSUME NEW m \in Machines, Fetch(m) PROVE Register!Next
  <2>0. UNCHANGED <<store, overridden, believes>> /\ op[m].pc = "fetch" /\ CanRebase(clone[m])
    BY <1>3 DEF Fetch
  <2>1. licence' \in [Machines -> SUBSET Occupants] /\ \A n \in Machines \ {m} : licence'[n] = licence[n]
    <3>1. CASE Commit(m, Rebased(clone[m]))
      <4>1. licence' \in [Machines -> SUBSET Occupants]
        BY <2>0, <3>1, SelfCommit
      <4>2. QED
        BY <1>t, <3>1, <4>1 DEF Commit
    <3>2. CASE Pulled(m, Rebased(clone[m]))
      BY <3>2, <1>p
    <3>3. QED
      BY <1>3, <3>1, <3>2 DEF Fetch, Held, NothingToRelease, Refuses, CommitSnapshot
  <2>2. Register!Ask(m)
    BY <1>t, <2>0, <2>1, AskSteps
  <2>3. QED
    BY <2>2 DEF Register!Next
<1>4. ASSUME NEW m \in Machines, Rebase(m) \/ RebaseConflicts(m) \/ Judge(m) PROVE Register!Next
  <2>1. UNCHANGED <<store, overridden, believes>> /\ \E c : Pulled(m, c)
    BY <1>4 DEF Rebase, RebaseConflicts, Judge
  <2>2. licence' \in [Machines -> SUBSET Occupants] /\ \A n \in Machines \ {m} : licence'[n] = licence[n]
    BY <2>1, <1>p
  <2>3. Register!Ask(m)
    BY <1>t, <2>1, <2>2, AskSteps
  <2>4. QED
    BY <2>3 DEF Register!Next
<1>5. ASSUME NEW m \in Machines, PushRejectedAgain(m) PROVE Register!Next
  <2>1. UNCHANGED <<store, overridden, believes>> /\ licence' \in {licence, [licence EXCEPT ![m] = {}]}
    BY <1>5 DEF PushRejectedAgain, Discards
  <2>2. licence' \in [Machines -> SUBSET Occupants] /\ \A n \in Machines \ {m} : licence'[n] = licence[n]
    BY <1>t, <2>1
  <2>3. Register!Ask(m)
    BY <1>t, <2>1, <2>2, AskSteps
  <2>4. QED
    BY <2>3 DEF Register!Next
<1>6. ASSUME NEW m \in Machines, Push(m) \/ PushAnswerLost(m) \/ SecondAnswerLost(m)
      PROVE  Register!Next
  <2>1. m \notin behind /\ Land(m)
    BY <1>6 DEF Push, PushAnswerLost, SecondAnswerLost
  <2>2. licence' = [licence EXCEPT ![m] = {}]
    BY <1>6 DEF Push, PushAnswerLost, SecondAnswerLost, Discards
  <2>3. /\ believes' \in {believes, believes \cup {m}}
        /\ believes' = believes \/ Committed(m)
    BY <1>6 DEF Push, PushAnswerLost, SecondAnswerLost, Succeeds, Committed
  <2>4. Register!Ask(m) \/ Register!Swap(m) \/ Register!Confirm(m)
    BY <2>1, <2>2, <2>3, LandIsSwap
  <2>5. QED
    BY <2>4 DEF Register!Next
<1>7. QED
  BY <1>1, <1>2, <1>3, <1>4, <1>5, <1>6 DEF Next, Step, vars

\* Without an arbiter, the claim file in a repository that every machine clones
\* is an atomic register for any number of machines and failures: what lands
\* is a compare and swap, and neither a rebase nor a commit left in a clone nor a
\* lost answer replaces a claim, or an unreadable file, that the machine was not
\* asked to replace (Fetch, mutateStore, claim, release).
THEOREM ClaimsAreRegister == Spec => AtomicRegister
<1>1. Init => InPlace
  BY DEF Init, InPlace
<1>2. QED
  BY <1>1, ClaimsInit, ClaimsStep, InPlaceStep, RegisterInit, RegisterStep, PTL
     DEF Spec, AtomicRegister, Register!Spec
=============================================================================
