------------------------- MODULE RepairLadderProofs -------------------------
(***************************************************************************)
(* Theorems about the repair ladder, for every policy, every number of     *)
(* rewind depths and every set of heights.                                 *)
(***************************************************************************)
EXTENDS RepairLadder, TLAPS

USE DEF Retry, Rewind, RescanFromBirthday, Park, PolicyNormalized

(* A recovery is a record of the ladder's type or the absent value, never  *)
(* both: the code's Option has no overlap.                                 *)
LEMMA RecoveryFields ==
  ASSUME NEW r \in RecoveryState
  PROVE  /\ r # NoRecovery
         /\ r.rung \in Rungs
         /\ r.attempts \in 0..CounterMax
         /\ r.depth \in DepthIndexes
         /\ r.faults \in 0..CounterMax
         /\ r.faultHeight \in ReportedHeights
         /\ r.dormant \in BOOLEAN
         /\ r.parked \in BOOLEAN
  BY NoRecoveryAssumption DEF RecoveryState

(* Reported heights are natural numbers.                                   *)
LEMMA ReportedHeightsNat == ReportedHeights \subseteq Nat
  BY PolicyAssumption DEF ReportedHeights

(* A counter that saturates stays in its range. *)
LEMMA SaturatingIncType ==
  ASSUME NEW n \in 0..CounterMax
  PROVE  SaturatingInc(n) \in 0..CounterMax
  BY PolicyAssumption DEF SaturatingInc

(* Entering a rung gives a well-formed recovery. *)
LEMMA EnteringType ==
  ASSUME NEW c \in FaultClasses
  PROVE  Entering(c) \in RecoveryState
  BY PolicyAssumption
  DEF Entering, FaultClasses, RecoveryState, Rungs, DepthIndexes, ReportedHeights

(* Moving a recovery to another rung and depth changes nothing else.       *)
LEMMA MoveToFields ==
  ASSUME NEW r \in RecoveryState, NEW g \in Rungs, NEW d \in DepthIndexes
  PROVE  /\ MoveTo(r, g, d) \in RecoveryState
         /\ MoveTo(r, g, d).rung = g
         /\ MoveTo(r, g, d).attempts = 0
         /\ MoveTo(r, g, d).depth = d
         /\ MoveTo(r, g, d).faultHeight = r.faultHeight
         /\ MoveTo(r, g, d).dormant = r.dormant
         /\ MoveTo(r, g, d).parked = r.parked
  <1>1. 0 \in 0..CounterMax
    BY PolicyAssumption
  <1> QED
    BY <1>1 DEF MoveTo, RecoveryState

(***************************************************************************)
(* What fold_fault does to each field but the fault count.  The three      *)
(* cases are its branches.                                                 *)
(***************************************************************************)
LEMMA ClimbFields ==
  ASSUME NEW r \in RecoveryState, NEW c \in FaultClasses
  PROVE  /\ Climb(r, c) \in RecoveryState
         /\ Climb(r, c).faultHeight = r.faultHeight
         /\ Climb(r, c).dormant = r.dormant
         /\ Climb(r, c).parked = r.parked
         /\ c > r.rung =>
              /\ Climb(r, c).rung = c
              /\ Climb(r, c).attempts = 0
              /\ Climb(r, c).depth = IF c = Rewind THEN 1 ELSE r.depth
         /\ (~(c > r.rung) /\ ~Exhausted(r)) => Climb(r, c) = r
         /\ (~(c > r.rung) /\ Exhausted(r)) =>
              /\ Climb(r, c).attempts = 0
              /\ r.rung # Retry
              /\ IF r.rung = Rewind /\ r.depth < RewindDepths
                   THEN /\ Climb(r, c).rung = Rewind
                        /\ Climb(r, c).depth = r.depth + 1
                   ELSE /\ Climb(r, c).rung =
                             IF r.rung = Park THEN Park ELSE r.rung + 1
                        /\ Climb(r, c).depth = r.depth
  <1>0. /\ r.rung \in 0..3
        /\ r.depth \in 1..RewindDepths
        /\ RewindDepths \in Nat \ {0}
        /\ c \in {0, 1, 3}
    BY RecoveryFields, PolicyAssumption DEF Rungs, DepthIndexes, FaultClasses
  <1>1. CASE c > r.rung
    <2>1. /\ c \in Rungs
          /\ (IF c = Rewind THEN 1 ELSE r.depth) \in DepthIndexes
      BY <1>0 DEF Rungs, DepthIndexes
    <2>2. Climb(r, c) = MoveTo(r, c, IF c = Rewind THEN 1 ELSE r.depth)
      BY <1>1 DEF Climb, Lift
    <2> QED
      BY <1>1, <2>1, <2>2, MoveToFields
  <1>2. CASE ~(c > r.rung) /\ Exhausted(r)
    <2>1. Climb(r, c) = Escalate(r)
      BY <1>2 DEF Climb
    <2>2. r.rung # Retry
      BY <1>2 DEF Exhausted
    <2>3. CASE r.rung = Rewind /\ r.depth < RewindDepths
      <3>1. Rewind \in Rungs /\ r.depth + 1 \in DepthIndexes
        BY <1>0, <2>3 DEF Rungs, DepthIndexes
      <3>2. Climb(r, c) = MoveTo(r, Rewind, r.depth + 1)
        BY <2>1, <2>3 DEF Escalate
      <3> QED
        BY <1>2, <2>2, <2>3, <3>1, <3>2, MoveToFields
    <2>4. CASE ~(r.rung = Rewind /\ r.depth < RewindDepths)
      <3>1. /\ (IF r.rung = Park THEN Park ELSE r.rung + 1) \in Rungs
            /\ r.depth \in DepthIndexes
        BY <1>0 DEF Rungs, DepthIndexes
      <3>2. Climb(r, c) =
              MoveTo(r, IF r.rung = Park THEN Park ELSE r.rung + 1, r.depth)
        BY <2>1, <2>4 DEF Escalate
      <3> QED
        BY <1>2, <2>2, <2>4, <3>1, <3>2, MoveToFields
    <2> QED
      BY <2>3, <2>4
  <1>3. CASE ~(c > r.rung) /\ ~Exhausted(r)
    <2>1. Climb(r, c) = r
      BY <1>3 DEF Climb
    <2> QED
      BY <1>3, <2>1
  <1> QED
    BY <1>1, <1>2, <1>3

-----------------------------------------------------------------------------
(* Waking a recovery keeps its rung and never lowers its boundary.         *)
LEMMA WokenFields ==
  ASSUME NEW r \in RecoveryState, NEW h \in ReportedHeights
  PROVE  /\ Woken(r, h) \in RecoveryState
         /\ Woken(r, h).rung = r.rung
         /\ Woken(r, h).attempts = r.attempts
         /\ Woken(r, h).depth = r.depth
         /\ Woken(r, h).parked = r.parked
         /\ Woken(r, h).dormant = FALSE
         /\ Woken(r, h).faultHeight >= r.faultHeight
  <1>1. Higher(r.faultHeight, h) \in ReportedHeights
    BY RecoveryFields DEF Higher
  <1>2. r.faultHeight \in Nat /\ h \in Nat
    BY RecoveryFields, ReportedHeightsNat
  <1>3. Higher(r.faultHeight, h) >= r.faultHeight
    BY <1>2 DEF Higher
  <1> QED
    BY <1>1, <1>3 DEF Woken, RecoveryState

(* Counting a fault touches no other field.                                *)
LEMMA CountFault ==
  ASSUME NEW r \in RecoveryState
  PROVE  LET m == [r EXCEPT !.faults = SaturatingInc(@)]
         IN  /\ m \in RecoveryState
             /\ m.rung = r.rung
             /\ m.attempts = r.attempts
             /\ m.depth = r.depth
             /\ m.parked = r.parked
             /\ m.dormant = r.dormant
             /\ m.faultHeight = r.faultHeight
  <1>1. SaturatingInc(r.faults) \in 0..CounterMax
    BY RecoveryFields, SaturatingIncType
  <1> QED
    BY <1>1 DEF RecoveryState

(***************************************************************************)
(* record_fault as a whole: the recovery it leaves in terms of the one it  *)
(* folded into.                                                            *)
(***************************************************************************)
LEMMA FoldedFields ==
  ASSUME NEW r \in RecoveryState, NEW c \in FaultClasses,
         NEW h \in ReportedHeights
  PROVE  LET n == FoldFault(Woken(r, h), c)
         IN  /\ n \in RecoveryState
             /\ ~n.dormant
             /\ n.parked = r.parked
             /\ n.faultHeight >= r.faultHeight
             /\ c > r.rung =>
                  /\ n.rung = c
                  /\ n.attempts = 0
                  /\ n.depth = IF c = Rewind THEN 1 ELSE r.depth
             /\ (~(c > r.rung) /\ ~Exhausted(r)) =>
                  /\ n.rung = r.rung
                  /\ n.attempts = r.attempts
                  /\ n.depth = r.depth
             /\ (~(c > r.rung) /\ Exhausted(r)) =>
                  /\ n.attempts = 0
                  /\ r.rung # Retry
                  /\ IF r.rung = Rewind /\ r.depth < RewindDepths
                       THEN /\ n.rung = Rewind
                            /\ n.depth = r.depth + 1
                       ELSE /\ n.rung = IF r.rung = Park THEN Park ELSE r.rung + 1
                            /\ n.depth = r.depth
  <1> DEFINE w == Woken(r, h)
             m == Climb(w, c)
             n == FoldFault(w, c)
  <1>1. /\ w \in RecoveryState
        /\ w.rung = r.rung
        /\ w.attempts = r.attempts
        /\ w.depth = r.depth
        /\ w.parked = r.parked
        /\ ~w.dormant
        /\ w.faultHeight >= r.faultHeight
    BY WokenFields
  <1>2. Exhausted(w) <=> Exhausted(r)
    BY <1>1 DEF Exhausted
  <1>3. n = [m EXCEPT !.faults = SaturatingInc(@)]
    BY DEF FoldFault
  <1> HIDE DEF w
  <1>4. m \in RecoveryState
    BY <1>1, ClimbFields
  <1>5. /\ n \in RecoveryState
        /\ n.rung = m.rung
        /\ n.attempts = m.attempts
        /\ n.depth = m.depth
        /\ n.parked = m.parked
        /\ n.dormant = m.dormant
        /\ n.faultHeight = m.faultHeight
    BY <1>3, <1>4, CountFault
  <1>6. /\ m.parked = w.parked
        /\ m.dormant = w.dormant
        /\ m.faultHeight = w.faultHeight
    BY <1>1, ClimbFields
  <1>7. CASE c > r.rung
    <2>1. /\ m.rung = c
          /\ m.attempts = 0
          /\ m.depth = IF c = Rewind THEN 1 ELSE w.depth
      BY <1>1, <1>7, ClimbFields
    <2> HIDE DEF m, n
    <2> QED
      BY <1>1, <1>5, <1>6, <1>7, <2>1 DEF w, n
  <1>8. CASE ~(c > r.rung) /\ ~Exhausted(r)
    <2>1. m = w
      BY <1>1, <1>2, <1>8, ClimbFields
    <2> HIDE DEF m, n
    <2> QED
      BY <1>1, <1>5, <1>6, <1>8, <2>1 DEF w, n
  <1>9. CASE ~(c > r.rung) /\ Exhausted(r)
    <2>1. /\ m.attempts = 0
          /\ w.rung # Retry
          /\ IF w.rung = Rewind /\ w.depth < RewindDepths
               THEN m.rung = Rewind /\ m.depth = w.depth + 1
               ELSE /\ m.rung = IF w.rung = Park THEN Park ELSE w.rung + 1
                    /\ m.depth = w.depth
      BY <1>1, <1>2, <1>9, ClimbFields
    <2> HIDE DEF m, n
    <2> QED
      BY <1>1, <1>5, <1>6, <1>9, <2>1 DEF w, n
  <1> QED
    BY <1>7, <1>8, <1>9

-----------------------------------------------------------------------------
(* The inductive invariant.                                                *)
IInv == LadderTypeOK /\ LadderInv

(* The ladder starts with no recovery and no history.                      *)
LEMMA InitIInv == LadderInit => IInv
  <1> SUFFICES ASSUME LadderInit PROVE IInv
    OBVIOUS
  <1>1. LadderTypeOK
    BY DEF LadderInit, LadderTypeOK
  <1>2. LadderInv
    BY DEF LadderInit, LadderInv, AtRetry
  <1> QED
    BY <1>1, <1>2 DEF IInv

(* A fault moves the recovery only when the rung is used up, so the repair *)
(* counts of the rung it leaves are complete.                              *)
LEMMA RecordFaultIInv ==
  ASSUME IInv, NEW c \in FaultClasses, NEW h \in ReportedHeights,
         RecordFault(c, h)
  PROVE  IInv'
  <1> DEFINE base == IF recovery = NoRecovery THEN Entering(c) ELSE recovery
  <1>1. /\ ~due /\ due' = TRUE
        /\ recovery' = FoldFault(Woken(base, h), c)
        /\ operatorFault' = (operatorFault \/ c = Park)
        /\ rewinds' = rewinds /\ rebuilds' = rebuilds
    BY DEF RecordFault, FaultRecorded, Faulted
  <1>2. base \in RecoveryState
    BY EnteringType DEF IInv, LadderTypeOK
  <1>3. /\ base.rung \in 0..3
        /\ base.attempts \in Nat
        /\ base.depth \in 1..RewindDepths
        /\ c \in {0, 1, 3}
        /\ EscalateAfterFaults \in Nat \ {0}
        /\ MaxRescanAttempts \in Nat \ {0}
        /\ RewindDepths \in Nat \ {0}
    BY <1>2, RecoveryFields, PolicyAssumption
    DEF Rungs, DepthIndexes, FaultClasses
  <1> DEFINE n == FoldFault(Woken(base, h), c)
  <1>4. /\ n \in RecoveryState
        /\ ~n.dormant
        /\ n.parked = base.parked
        /\ c > base.rung =>
             /\ n.rung = c
             /\ n.attempts = 0
             /\ n.depth = IF c = Rewind THEN 1 ELSE base.depth
        /\ (~(c > base.rung) /\ ~Exhausted(base)) =>
             /\ n.rung = base.rung
             /\ n.attempts = base.attempts
             /\ n.depth = base.depth
        /\ (~(c > base.rung) /\ Exhausted(base)) =>
             /\ n.attempts = 0
             /\ base.rung # Retry
             /\ IF base.rung = Rewind /\ base.depth < RewindDepths
                  THEN n.rung = Rewind /\ n.depth = base.depth + 1
                  ELSE /\ n.rung = IF base.rung = Park THEN Park
                                   ELSE base.rung + 1
                       /\ n.depth = base.depth
    BY <1>2, FoldedFields
  <1>5. LadderTypeOK'
    BY <1>1, <1>4 DEF IInv, LadderTypeOK
  <1>6. /\ base.rung = Retry => AtRetry
        /\ (base.rung = Rewind /\ recovery # NoRecovery) => AtRewind
        /\ base.rung = RescanFromBirthday => AtRescan
        /\ (recovery = NoRecovery) => /\ AtRetry
                                      /\ base.rung = c
                                      /\ base.attempts = 0
                                      /\ base.depth = 1
                                      /\ ~base.parked
        /\ recovery # NoRecovery => base = recovery /\ base.rung # Park
        /\ ~base.parked
    <2>1. CASE recovery = NoRecovery
      <3>1. /\ base.rung = c
            /\ base.attempts = 0
            /\ base.depth = 1
            /\ base.parked = FALSE
        BY <2>1 DEF Entering
      <3>2. AtRetry
        BY <2>1 DEF IInv, LadderInv
      <3> QED
        BY <1>3, <2>1, <3>1, <3>2
    <2>2. CASE recovery # NoRecovery
      <3>1. base = recovery
        BY <2>2
      <3>2. /\ recovery.rung = Retry => AtRetry
            /\ recovery.rung = Rewind => AtRewind
            /\ recovery.rung = RescanFromBirthday => AtRescan
            /\ recovery.rung # Park
            /\ recovery.parked => recovery.rung = Park
        BY <1>1, <2>2 DEF IInv, LadderInv, AtPark
      <3> QED
        BY <2>2, <3>1, <3>2
    <2> QED
      BY <2>1, <2>2
  <1>7. n # NoRecovery
    BY <1>4, RecoveryFields
  <1> HIDE DEF n, base
  <1>8. n.rung = Retry => AtRetry'
    <2>1. n.rung = Retry => base.rung = Retry
      BY <1>3, <1>4
    <2> QED
      BY <2>1, <1>1, <1>6 DEF AtRetry
  <1>9. n.rung = Rewind => AtRewind'
    <2> SUFFICES ASSUME n.rung = Rewind PROVE AtRewind'
      OBVIOUS
    <2>0. recovery' = n
      BY <1>1 DEF n
    <2>1. CASE recovery = NoRecovery \/ base.rung = Retry
      <3>1. n.attempts = 0 /\ n.depth = 1 /\ AtRetry
        BY <2>1, <1>3, <1>4, <1>6 DEF Exhausted
      <3> QED
        BY <3>1, <2>0, <1>1, <1>3 DEF AtRetry, AtRewind, DepthIndexes
    <2>2. CASE recovery # NoRecovery /\ base.rung # Retry
      <3>1. base.rung = Rewind /\ AtRewind /\ base = recovery
        BY <2>2, <1>3, <1>4, <1>6
      <3>2. CASE ~Exhausted(base)
        <4>1. /\ n.attempts = base.attempts /\ n.depth = base.depth
              /\ base.attempts < EscalateAfterFaults
          BY <3>1, <3>2, <1>3, <1>4 DEF Exhausted
        <4> QED
          BY <4>1, <3>1, <2>0, <1>1, <1>3 DEF AtRewind, DepthIndexes
      <3>3. CASE Exhausted(base)
        <4>1. /\ n.attempts = 0 /\ n.depth = base.depth + 1
              /\ base.attempts = EscalateAfterFaults
          BY <3>1, <3>3, <1>3, <1>4 DEF Exhausted, AtRewind
        <4> QED
          BY <4>1, <3>1, <2>0, <1>1, <1>3 DEF AtRewind, DepthIndexes
      <3> QED
        BY <3>2, <3>3
    <2> QED
      BY <2>1, <2>2
  <1>10. n.rung = RescanFromBirthday => AtRescan'
    <2> SUFFICES ASSUME n.rung = RescanFromBirthday PROVE AtRescan'
      OBVIOUS
    <2>0. recovery' = n
      BY <1>1 DEF n
    <2>1. base.rung \in {Rewind, RescanFromBirthday} /\ c # n.rung
      BY <1>3, <1>4
    <2>2. recovery # NoRecovery /\ base = recovery
      BY <2>1, <1>3, <1>4, <1>6 DEF Exhausted
    <2>3. CASE base.rung = Rewind
      <3>1. /\ AtRewind
            /\ base.attempts = EscalateAfterFaults
            /\ base.depth = RewindDepths
            /\ n.attempts = 0
        BY <2>2, <2>3, <1>3, <1>4, <1>6 DEF Exhausted, AtRewind
      <3> QED
        BY <3>1, <2>0, <2>2, <1>1, <1>3 DEF AtRewind, AtRescan, DepthIndexes
    <2>4. CASE base.rung = RescanFromBirthday
      <3>1. /\ AtRescan
            /\ ~Exhausted(base)
            /\ n.attempts = base.attempts
            /\ base.attempts < MaxRescanAttempts
        BY <2>4, <1>3, <1>4, <1>6 DEF Exhausted
      <3> QED
        BY <3>1, <2>0, <2>2, <1>1, <1>3 DEF AtRescan
    <2> QED
      BY <2>1, <2>3, <2>4
  <1>11. n.rung = Park => AtPark'
    <2> SUFFICES ASSUME n.rung = Park PROVE AtPark'
      OBVIOUS
    <2>0. recovery' = n
      BY <1>1 DEF n
    <2>1. CASE c = Park
      <3>1. n.attempts = 0
        BY <2>1, <1>3, <1>4, <1>6 DEF Exhausted
      <3>2. /\ rebuilds <= MaxRescanAttempts
            /\ rebuilds > 0 =>
                 \A d \in DepthIndexes : rewinds[d] = EscalateAfterFaults
        BY <1>3, <1>6 DEF AtRetry, AtRewind, AtRescan
      <3> QED
        BY <3>1, <3>2, <2>0, <2>1, <1>1 DEF AtPark
    <2>2. CASE c # Park
      <3>1. /\ base.rung = RescanFromBirthday
            /\ Exhausted(base)
            /\ n.attempts = 0
        BY <2>2, <1>3, <1>4, <1>6
      <3>2. recovery # NoRecovery /\ base = recovery /\ AtRescan
        BY <2>2, <3>1, <1>3, <1>6
      <3>3. rebuilds = MaxRescanAttempts
        BY <3>1, <3>2, <1>3 DEF Exhausted, AtRescan
      <3> QED
        BY <3>1, <3>2, <3>3, <2>0, <1>1, <1>3 DEF AtRescan, AtPark
    <2> QED
      BY <2>1, <2>2
  <1>12. LadderInv'
    BY <1>1, <1>4, <1>6, <1>7, <1>8, <1>9, <1>10, <1>11 DEF LadderInv, n
  <1> QED
    BY <1>5, <1>12 DEF IInv

(* A repair counts itself where the rung's row of the invariant looks.     *)
LEMMA ApplyRepairIInv ==
  ASSUME IInv, ApplyRepair
  PROVE  IInv'
  <1> DEFINE n == [recovery EXCEPT !.attempts = SaturatingInc(@)]
  <1>1. /\ due /\ due' = FALSE
        /\ recovery \in RecoveryState /\ recovery # NoRecovery
        /\ recovery.rung # Park
        /\ recovery' = n
        /\ operatorFault' = operatorFault
    BY RecoveryFields DEF ApplyRepair, RepairStarted, IInv, LadderTypeOK, LadderInv
  <1>2. /\ recovery.rung \in 0..3
        /\ recovery.attempts \in 0..CounterMax
        /\ recovery.depth \in DepthIndexes
        /\ CounterMax \in Nat
        /\ EscalateAfterFaults \in Nat \ {0} /\ EscalateAfterFaults <= CounterMax
        /\ MaxRescanAttempts \in Nat \ {0} /\ MaxRescanAttempts <= CounterMax
    BY <1>1, RecoveryFields, PolicyAssumption DEF Rungs
  <1>3. SaturatingInc(recovery.attempts) \in 0..CounterMax
    BY <1>2, SaturatingIncType
  <1>4. /\ n \in RecoveryState
        /\ n.rung = recovery.rung
        /\ n.attempts = SaturatingInc(recovery.attempts)
        /\ n.depth = recovery.depth
        /\ n.parked = recovery.parked
        /\ n.dormant = recovery.dormant
    BY <1>1, <1>3 DEF RecoveryState
  <1>5. n # NoRecovery
    BY <1>4, RecoveryFields
  <1> HIDE DEF n
  <1>6. /\ rewinds \in [DepthIndexes -> Nat]
        /\ rebuilds \in Nat
        /\ operatorFault \in BOOLEAN
    BY DEF IInv, LadderTypeOK
  <1>7. LadderTypeOK'
    <2>1. rewinds' \in [DepthIndexes -> Nat] /\ rebuilds' \in Nat
      BY <1>2, <1>6 DEF ApplyRepair, RepairStarted
    <2> QED
      BY <1>1, <1>4, <1>6, <2>1 DEF LadderTypeOK
  <1>8. n.rung = Retry => AtRetry'
    BY <1>1, <1>4 DEF ApplyRepair, RepairStarted, IInv, LadderInv, AtRetry
  <1>9. n.rung = Rewind => AtRewind'
    <2> SUFFICES ASSUME n.rung = Rewind PROVE AtRewind'
      OBVIOUS
    <2>1. AtRewind /\ recovery.attempts < EscalateAfterFaults
      BY <1>1, <1>4 DEF IInv, LadderInv, AtRewind
    <2>2. n.attempts = recovery.attempts + 1
      BY <2>1, <1>2, <1>4 DEF SaturatingInc
    <2>3. /\ rewinds' = [rewinds EXCEPT ![recovery.depth] = @ + 1]
          /\ rebuilds' = rebuilds
      BY <1>4 DEF ApplyRepair, RepairStarted
    <2>4. \A d \in DepthIndexes :
            rewinds'[d] = IF d = recovery.depth THEN rewinds[d] + 1
                          ELSE rewinds[d]
      BY <2>3, <1>2, <1>6
    <2> QED
      BY <2>1, <2>2, <2>3, <2>4, <1>1, <1>2, <1>4 DEF AtRewind, DepthIndexes
  <1>10. n.rung = RescanFromBirthday => AtRescan'
    <2> SUFFICES ASSUME n.rung = RescanFromBirthday PROVE AtRescan'
      OBVIOUS
    <2>1. AtRescan /\ recovery.attempts < MaxRescanAttempts
      BY <1>1, <1>4 DEF IInv, LadderInv, AtRescan
    <2>2. n.attempts = recovery.attempts + 1
      BY <2>1, <1>2, <1>4 DEF SaturatingInc
    <2>3. rewinds' = rewinds /\ rebuilds' = rebuilds + 1
      BY <1>4 DEF ApplyRepair, RepairStarted
    <2> QED
      BY <2>1, <2>2, <2>3, <1>1, <1>2, <1>4 DEF AtRescan
  <1>11. LadderInv'
    BY <1>1, <1>4, <1>5, <1>8, <1>9, <1>10 DEF LadderInv, IInv
  <1> QED
    BY <1>7, <1>11 DEF IInv

(* Ending an episode starts the next one from the initial facts.           *)
LEMMA NoHistoryIInv ==
  ASSUME NoHistory, recovery' = NoRecovery, due' = FALSE
  PROVE  IInv'
  <1>1. LadderTypeOK'
    BY DEF NoHistory, LadderTypeOK
  <1>2. LadderInv'
    BY DEF NoHistory, LadderInv, AtRetry
  <1> QED
    BY <1>1, <1>2 DEF IInv

(* A recovery that survives a scan keeps its rung and its counters.        *)
LEMMA SettleIInv ==
  ASSUME IInv, NEW h \in ReportedHeights, SettleRecovery(h)
  PROVE  IInv'
  <1>1. ~due /\ due' = due
    BY DEF SettleRecovery, Settled
  <1>2. CASE ~Survives(h)
    BY <1>1, <1>2, NoHistoryIInv DEF SettleRecovery, Settled, IInv, LadderTypeOK
  <1>3. CASE Survives(h)
    <2> DEFINE n == [recovery EXCEPT !.dormant = TRUE]
    <2>1. /\ recovery \in RecoveryState /\ recovery # NoRecovery
          /\ recovery' = n
          /\ UNCHANGED <<due, rewinds, rebuilds, operatorFault>>
      BY <1>3 DEF SettleRecovery, Settled, Survives, IInv, LadderTypeOK
    <2>2. /\ n \in RecoveryState
          /\ n.rung = recovery.rung
          /\ n.attempts = recovery.attempts
          /\ n.depth = recovery.depth
          /\ n.parked = recovery.parked
      BY <2>1 DEF RecoveryState
    <2>3. n # NoRecovery
      BY <2>2, RecoveryFields
    <2> HIDE DEF n
    <2>4. LadderTypeOK'
      BY <2>1, <2>2 DEF IInv, LadderTypeOK
    <2>5. LadderInv'
      BY <1>1, <2>1, <2>2, <2>3
      DEF IInv, LadderInv, AtRetry, AtRewind, AtRescan, AtPark
    <2> QED
      BY <2>4, <2>5 DEF IInv
  <1> QED
    BY <1>2, <1>3

(* Parking marks the recovery and keeps everything the Park row says.      *)
LEMMA EnterParkIInv ==
  ASSUME IInv, EnterPark
  PROVE  IInv'
  <1> DEFINE n == [recovery EXCEPT !.parked = TRUE]
  <1>1. /\ due
        /\ recovery \in RecoveryState /\ recovery # NoRecovery
        /\ recovery.rung = Park
        /\ recovery' = n
        /\ UNCHANGED <<due, rewinds, rebuilds, operatorFault>>
    BY DEF EnterPark, ParkEntered, IInv, LadderTypeOK, LadderInv
  <1>2. /\ n \in RecoveryState
        /\ n.rung = recovery.rung
        /\ n.attempts = recovery.attempts
        /\ n.dormant = recovery.dormant
    BY <1>1 DEF RecoveryState
  <1>3. n # NoRecovery
    BY <1>2, RecoveryFields
  <1> HIDE DEF n
  <1>4. LadderTypeOK'
    BY <1>1, <1>2 DEF IInv, LadderTypeOK
  <1>5. AtPark'
    BY <1>1, <1>2 DEF IInv, LadderInv, AtPark
  <1>6. LadderInv'
    BY <1>1, <1>2, <1>3, <1>5 DEF IInv, LadderInv
  <1> QED
    BY <1>4, <1>6 DEF IInv

(* A step that leaves the ladder alone leaves the invariant alone.         *)
LEMMA StutterIInv ==
  ASSUME IInv, UNCHANGED ladderVars
  PROVE  IInv'
  <1>1. LadderTypeOK'
    BY DEF IInv, LadderTypeOK, ladderVars
  <1>2. LadderInv'
    BY DEF IInv, LadderInv, AtRetry, AtRewind, AtRescan, AtPark, ladderVars
  <1> QED
    BY <1>1, <1>2 DEF IInv

(* Every step of the ladder preserves the invariant.                       *)
LEMMA NextIInv == IInv /\ [LadderNext]_ladderVars => IInv'
  <1> SUFFICES ASSUME IInv, [LadderNext]_ladderVars PROVE IInv'
    OBVIOUS
  <1>1. ASSUME NEW c \in FaultClasses, NEW h \in ReportedHeights,
               RecordFault(c, h)
        PROVE  IInv'
    BY <1>1, RecordFaultIInv
  <1>2. CASE ApplyRepair
    BY <1>2, ApplyRepairIInv
  <1>3. ASSUME NEW h \in ReportedHeights, SettleRecovery(h)
        PROVE  IInv'
    BY <1>3, SettleIInv
  <1>4. CASE EnterPark
    BY <1>4, EnterParkIInv
  <1>5. CASE ReprobePark
    BY <1>5, NoHistoryIInv DEF ReprobePark, Rearmed
  <1>6. CASE UNCHANGED ladderVars
    BY <1>6, StutterIInv
  <1> QED
    BY <1>1, <1>2, <1>3, <1>4, <1>5, <1>6 DEF LadderNext

(***************************************************************************)
(* The ladder's bookkeeping: at every rung the repairs applied in this     *)
(* episode are exactly the ones the policy asks for below it.              *)
(***************************************************************************)
THEOREM LadderBookkeeping == LadderSpec => []LadderInv
  <1>1. IInv => LadderInv
    BY DEF IInv
  <1> QED
    BY <1>1, InitIInv, NextIInv, PTL DEF LadderSpec

(* Every reachable recovery is a well-formed RecoveryState or absent.      *)
THEOREM LadderTypes == LadderSpec => []LadderTypeOK
  <1>1. IInv => LadderTypeOK
    BY DEF IInv
  <1> QED
    BY <1>1, InitIInv, NextIInv, PTL DEF LadderSpec

(***************************************************************************)
(* Park is a dead end (record_fault, repair_for, escalate): the driver     *)
(* stops repairing by itself only after an operator fault, or after every  *)
(* rewind depth and every rebuild the policy allows.                       *)
(***************************************************************************)
THEOREM ParksOnlyAtADeadEnd == LadderSpec => []ParkIsDeadEnd
  <1>1. IInv => ParkIsDeadEnd
    BY DEF IInv, LadderInv, AtPark, ParkIsDeadEnd
  <1> QED
    BY <1>1, InitIInv, NextIInv, PTL DEF LadderSpec

(***************************************************************************)
(* The wallet database is rebuilt at most max_rescan_attempts times in an  *)
(* episode, and never before every rewind depth has been spent.            *)
(***************************************************************************)
THEOREM RebuildsLast == LadderSpec => []RebuildIsLastResort
  <1>1. ASSUME IInv PROVE RebuildIsLastResort
    <2>1. /\ EscalateAfterFaults \in Nat \ {0}
          /\ MaxRescanAttempts \in Nat \ {0}
      BY PolicyAssumption
    <2>2. CASE recovery = NoRecovery
      BY <1>1, <2>1, <2>2 DEF IInv, LadderInv, AtRetry, RebuildIsLastResort
    <2>3. CASE recovery # NoRecovery
      <3>1. recovery.rung \in 0..3
        BY <1>1, <2>3, RecoveryFields DEF IInv, LadderTypeOK, Rungs
      <3>2. CASE recovery.rung \in {Retry, Rewind}
        BY <1>1, <2>1, <2>3, <3>2
        DEF IInv, LadderInv, AtRetry, AtRewind, RebuildIsLastResort
      <3>3. CASE recovery.rung = RescanFromBirthday
        BY <1>1, <2>3, <3>3
        DEF IInv, LadderInv, AtRescan, RebuildIsLastResort
      <3>4. CASE recovery.rung = Park
        BY <1>1, <2>3, <3>4
        DEF IInv, LadderInv, AtPark, RebuildIsLastResort
      <3> QED
        BY <3>1, <3>2, <3>3, <3>4
    <2> QED
      BY <2>2, <2>3
  <1> QED
    BY <1>1, InitIInv, NextIInv, PTL DEF LadderSpec

(***************************************************************************)
(* No step lowers the rung, the rewind depth or the fault boundary while   *)
(* an episode lasts (RecoveryState::fold_fault, DriverState::record_fault).*)
(***************************************************************************)
THEOREM LadderOnlyClimbs == LadderSpec => NeverDeEscalates
  <1> DEFINE Step == (recovery # NoRecovery /\ recovery' # NoRecovery) =>
               /\ recovery'.rung >= recovery.rung
               /\ recovery'.faultHeight >= recovery.faultHeight
               /\ (recovery.rung = Rewind /\ recovery'.rung = Rewind) =>
                     recovery'.depth >= recovery.depth
  <1>1. IInv /\ [LadderNext]_ladderVars => [Step]_ladderVars
    <2> SUFFICES ASSUME IInv, LadderNext, recovery # NoRecovery,
                        recovery' # NoRecovery
                 PROVE  Step
      OBVIOUS
    <2>1. recovery \in RecoveryState
      BY DEF IInv, LadderTypeOK
    <2>2. /\ recovery.rung \in 0..3
          /\ recovery.depth \in 1..RewindDepths
          /\ recovery.faultHeight \in Nat
          /\ RewindDepths \in Nat
      BY <2>1, RecoveryFields, ReportedHeightsNat, PolicyAssumption
      DEF Rungs, DepthIndexes
    <2>3. ASSUME NEW c \in FaultClasses, NEW h \in ReportedHeights,
                 RecordFault(c, h)
          PROVE  Step
      <3> DEFINE n == FoldFault(Woken(recovery, h), c)
      <3>1. recovery' = n
        BY <2>3 DEF RecordFault, FaultRecorded, Faulted
      <3>2. /\ n.faultHeight >= recovery.faultHeight
            /\ c > recovery.rung => n.rung = c
            /\ (~(c > recovery.rung) /\ ~Exhausted(recovery)) =>
                 n.rung = recovery.rung /\ n.depth = recovery.depth
            /\ (~(c > recovery.rung) /\ Exhausted(recovery)) =>
                 IF recovery.rung = Rewind /\ recovery.depth < RewindDepths
                   THEN n.rung = Rewind /\ n.depth = recovery.depth + 1
                   ELSE n.rung = IF recovery.rung = Park THEN Park
                                 ELSE recovery.rung + 1
        BY <2>1, FoldedFields
      <3>3. c \in {0, 1, 3}
        BY DEF FaultClasses
      <3> HIDE DEF n
      <3> QED
        BY <2>2, <3>1, <3>2, <3>3
    <2>4. ASSUME recovery' = recovery
                 \/ recovery' = [recovery EXCEPT !.attempts = SaturatingInc(@)]
                 \/ recovery' = [recovery EXCEPT !.dormant = TRUE]
                 \/ recovery' = [recovery EXCEPT !.parked = TRUE]
          PROVE  Step
      <3>1. /\ recovery'.rung = recovery.rung
            /\ recovery'.depth = recovery.depth
            /\ recovery'.faultHeight = recovery.faultHeight
        BY <2>1, <2>4 DEF RecoveryState
      <3> QED
        BY <2>2, <3>1
    <2>5. CASE ApplyRepair
      BY <2>4, <2>5 DEF ApplyRepair, RepairStarted
    <2>6. ASSUME NEW h \in ReportedHeights, SettleRecovery(h)
          PROVE  Step
      BY <2>4, <2>6 DEF SettleRecovery, Settled
    <2>7. CASE EnterPark
      BY <2>4, <2>7 DEF EnterPark, ParkEntered
    <2>8. CASE ReprobePark
      BY <2>8 DEF ReprobePark, Rearmed
    <2> QED
      BY <2>3, <2>5, <2>6, <2>7, <2>8 DEF LadderNext
  <1> QED
    BY <1>1, InitIInv, NextIInv, PTL DEF LadderSpec, NeverDeEscalates
=============================================================================
