---------------------------- MODULE SyncDriverProofs ----------------------------
(***************************************************************************)
(* Theorems about the sync driver: it uses the repair ladder only as       *)
(* RepairLadder allows, and scans and reports only what its repairs and    *)
(* its attempts entitle it to.  For every policy, chain, chunk size, retry *)
(* budget and number of faults, but for the last four theorems, which      *)
(* state the conditions they need.                                         *)
(***************************************************************************)
EXTENDS SyncDriver, RepairLadderProofs, TLAPS

-----------------------------------------------------------------------------
(* One scan attempt, the repairs of the wallet database and the chain      *)
(* source: what each does to the types and to DrainedToPinnedTip, for      *)
(* every chunk size, retry budget and chain.                               *)

AttemptInv == AttemptTypeOK /\ DrainedToPinnedTip

(* The types, one variable at a time.                                      *)
LEMMA AttemptTypes ==
  AttemptTypeOK <=>
    /\ tip \in 0..MaxHeight /\ frontier \in 0..MaxHeight
    /\ queuedTo \in 0..MaxHeight /\ checkedTo \in 0..MaxHeight
    /\ epochTip \in 0..MaxHeight /\ chunkEnd \in 0..MaxHeight
    /\ orphanedFrom \in 1..NoOrphan
    /\ undelivered \in 0..MaxChainChanges /\ changes \in 0..MaxChainChanges
    /\ dbOpen \in BOOLEAN /\ recordsTip \in BOOLEAN
    /\ pinned \in BOOLEAN /\ scanned \in BOOLEAN /\ unchecked \in BOOLEAN
    /\ stage \in Stages
    /\ tries \in 0..MaxAttempts
    /\ result \in (IF stage = "done" THEN Outcomes ELSE {NoResult})
    /\ faults \in 0..MaxFaults
  BY DEF AttemptTypeOK

(* The lower of two heights is a height, and below both.                   *)
LEMMA LowerHeight ==
  ASSUME NEW a \in Nat, NEW b \in Nat
  PROVE  /\ Lower(a, b) \in Nat
         /\ Lower(a, b) <= a /\ Lower(a, b) <= b
         /\ Lower(a, b) = a \/ Lower(a, b) = b
  BY DEF Lower

(* What an attempt may return.                                             *)
LEMMA OutcomeFields ==
  /\ \A h \in 0..MaxHeight, b \in BOOLEAN :
       Completed(h, b) \in Outcomes /\ Completed(h, b).kind = "Completed"
       /\ Completed(h, b).blocks = b
  /\ \A f \in Faults, c \in BOOLEAN :
       Failed(f, c) \in Outcomes /\ Failed(f, c).kind = "Faulted"
  /\ \A r \in Outcomes :
       \/ r.kind = "Completed" /\ r.scannedTo \in 0..MaxHeight /\ r.blocks \in BOOLEAN
       \/ r.kind = "Faulted" /\ r.fault \in Faults /\ r.checked \in BOOLEAN
  BY DEF Outcomes, Completed, Failed

(* The faults counter stays within its bound.                              *)
LEMMA InjectFaultType ==
  ASSUME AttemptTypeOK, NEW kind, InjectFault(kind)
  PROVE  faults' \in 0..MaxFaults /\ kind \in Faults
  BY AttemptAssumption DEF InjectFault, AttemptTypeOK

(* A failed try either starts over with the same plan or returns a fault.  *)
LEMMA TryFailsInv ==
  ASSUME AttemptInv, UNCHANGED chainVars, NEW kind \in Faults, TryFails(kind),
         faults' \in 0..MaxFaults
  PROVE  AttemptInv' /\ stage' # "idle" /\ recordsTip' = recordsTip
  <1>1. /\ tip' = tip /\ orphanedFrom' = orphanedFrom
        /\ undelivered' = undelivered /\ changes' = changes
        /\ frontier' = frontier /\ queuedTo' = queuedTo
        /\ checkedTo' = checkedTo /\ dbOpen' = dbOpen
    BY DEF TryFails, chainVars, walletVars
  <1>2. CASE StartTry /\ tries < MaxAttempts /\ tries' = tries + 1
             /\ unchecked' = (unchecked \/ stage = "verify")
             /\ UNCHANGED recordsTip
    <2>0. /\ tries' \in 0..MaxAttempts /\ recordsTip' = recordsTip
          /\ unchecked' \in BOOLEAN
      BY <1>2, AttemptAssumption DEF AttemptInv, AttemptTypeOK
    <2>1. AttemptTypeOK'
      <3>1. 0 \in 0..MaxHeight
        BY AttemptAssumption
      <3> QED
        BY <1>1, <1>2, <2>0, <3>1 DEF AttemptInv, AttemptTypeOK, StartTry, Stages, NoOrphan
    <2>2. DrainedToPinnedTip'
      BY <1>2 DEF StartTry, DrainedToPinnedTip
    <2> QED
      BY <1>2, <2>1, <2>2 DEF AttemptInv, StartTry
  <1>3. CASE Return(Failed(kind, stage # "verify"))
    <2>1. Failed(kind, stage # "verify") \in Outcomes
      BY OutcomeFields
    <2>2. AttemptTypeOK'
      BY <1>1, <1>3, <2>1 DEF AttemptInv, AttemptTypeOK, Return, Stages
    <2>3. DrainedToPinnedTip'
      BY <1>3, OutcomeFields DEF Return, DrainedToPinnedTip, Failed
    <2> QED
      BY <1>3, <2>2, <2>3 DEF AttemptInv, Return
  <1> QED
    BY <1>2, <1>3 DEF TryFails

-----------------------------------------------------------------------------
(* A step of an attempt keeps it typed, and its plan with it.              *)
LEMMA AttemptStepInv ==
  ASSUME AttemptInv, stage # "idle", AttemptStep, UNCHANGED chainVars
  PROVE  AttemptInv' /\ stage' # "idle" /\ recordsTip' = recordsTip
  <1>1. /\ tip' = tip /\ orphanedFrom' = orphanedFrom
        /\ undelivered' = undelivered /\ changes' = changes
    BY DEF chainVars
  <1>2. /\ tip \in 0..MaxHeight /\ frontier \in 0..MaxHeight
        /\ queuedTo \in 0..MaxHeight /\ epochTip \in 0..MaxHeight
        /\ chunkEnd \in 0..MaxHeight /\ dbOpen \in BOOLEAN
        /\ recordsTip \in BOOLEAN /\ scanned \in BOOLEAN
        /\ faults \in 0..MaxFaults
        /\ MaxHeight \in Nat /\ ChunkBlocks \in Nat \ {0}
    BY AttemptAssumption DEF AttemptInv, AttemptTypeOK
  <1>3. CASE PinEpoch
    <2>1. AttemptTypeOK'
      BY <1>1, <1>2, <1>3 DEF PinEpoch, AttemptInv, AttemptTypeOK, Stages
    <2>2. DrainedToPinnedTip'
      BY <1>2, <1>3 DEF PinEpoch, DrainedToPinnedTip
    <2> QED
      BY <1>3, <2>1, <2>2 DEF PinEpoch, AttemptInv
  <1>4. CASE ScanChunk
    <2>1. PICK end \in (frontier + 1)..Lower(frontier + ChunkBlocks, PlannedEnd) :
            frontier' = end /\ chunkEnd' = end
      BY <1>4 DEF ScanChunk
    <2>2. end \in 0..MaxHeight
      BY <1>2, <2>1 DEF Lower, PlannedEnd
    <2>3. AttemptTypeOK'
      BY <1>1, <1>4, <2>1, <2>2 DEF ScanChunk, AttemptInv, AttemptTypeOK, Stages
    <2>4. DrainedToPinnedTip'
      BY <1>4 DEF ScanChunk, DrainedToPinnedTip
    <2> QED
      BY <1>4, <2>3, <2>4 DEF ScanChunk, AttemptInv
  <1>5. CASE NothingToScan
    <2>1. AttemptTypeOK'
      BY <1>1, <1>2, <1>5
      DEF NothingToScan, AttemptInv, AttemptTypeOK, Stages, walletVars
    <2>2. DrainedToPinnedTip'
      BY <1>2, <1>5
      DEF NothingToScan, AttemptInv, DrainedToPinnedTip, PlannedEnd, Lower,
          walletVars
    <2> QED
      BY <1>5, <2>1, <2>2 DEF NothingToScan, AttemptInv
  <1>6. CASE VerifyRoots
    <2>1. AttemptTypeOK'
      BY <1>1, <1>2, <1>6 DEF VerifyRoots, AttemptInv, AttemptTypeOK, Stages
    <2>2. DrainedToPinnedTip'
      BY <1>6 DEF VerifyRoots, AttemptInv, DrainedToPinnedTip
    <2> QED
      BY <1>6, <2>1, <2>2 DEF VerifyRoots, AttemptInv
  <1>7. CASE FinishAttempt
    <2>1. Completed(chunkEnd, scanned) \in Outcomes
      BY <1>2, OutcomeFields
    <2>2. AttemptTypeOK'
      BY <1>1, <1>7, <2>1
      DEF FinishAttempt, Return, AttemptInv, AttemptTypeOK, Stages, walletVars
    <2>3. DrainedToPinnedTip'
      BY <1>7
      DEF FinishAttempt, Return, Completed, AttemptInv, DrainedToPinnedTip,
          walletVars
    <2> QED
      BY <1>7, <2>2, <2>3 DEF FinishAttempt, Return, AttemptInv
  <1>8. ASSUME NEW kind \in FaultKinds, AttemptFails(kind)
        PROVE  AttemptInv' /\ stage' # "idle" /\ recordsTip' = recordsTip
    BY <1>8, InjectFaultType, TryFailsInv DEF AttemptFails, AttemptInv
  <1>9. CASE PinExpires \/ ReorgDetected \/ StorageNotOpened
    <2>1. \E kind \in Faults : TryFails(kind)
      BY <1>9 DEF PinExpires, ReorgDetected, StorageNotOpened, Faults
    <2>2. faults' \in 0..MaxFaults
      BY <1>2, <1>9 DEF PinExpires, ReorgDetected, StorageNotOpened
    <2> QED
      BY <2>1, <2>2, TryFailsInv
  <1> QED
    BY <1>3, <1>4, <1>5, <1>6, <1>7, <1>8, <1>9 DEF AttemptStep
-----------------------------------------------------------------------------
(* The driver starts an attempt from its first pin, with its plan made.    *)
LEMMA BeginAttemptInv ==
  ASSUME AttemptInv, NEW records \in BOOLEAN, BeginAttempt(records),
         UNCHANGED <<chainVars, walletVars, faults>>
  PROVE  AttemptInv' /\ stage' = "pin" /\ recordsTip' = records
  <1>1. 0 \in 0..MaxHeight /\ 1 \in 0..MaxAttempts
    BY AttemptAssumption
  <1>2. AttemptTypeOK'
    BY <1>1
    DEF AttemptInv, AttemptTypeOK, BeginAttempt, StartTry, Stages, NoOrphan,
        chainVars, walletVars
  <1>3. DrainedToPinnedTip'
    BY DEF BeginAttempt, StartTry, DrainedToPinnedTip
  <1> QED
    BY <1>2, <1>3 DEF AttemptInv, BeginAttempt, StartTry

(* The driver drops an attempt it no longer awaits.                        *)
LEMMA ForgetAttemptInv ==
  ASSUME AttemptInv, ForgetAttempt, UNCHANGED <<chainVars, walletVars, faults>>
  PROVE  AttemptInv' /\ stage' = "idle"
  <1>1. 0 \in 0..MaxHeight /\ 0 \in 0..MaxAttempts
    BY AttemptAssumption
  <1>2. AttemptTypeOK'
    BY <1>1
    DEF AttemptInv, AttemptTypeOK, ForgetAttempt, Stages, NoOrphan, chainVars,
        walletVars
  <1>3. DrainedToPinnedTip'
    BY DEF ForgetAttempt, DrainedToPinnedTip
  <1> QED
    BY <1>2, <1>3 DEF AttemptInv, ForgetAttempt

(* An attempt that overran its deadline returns a fault of its own.        *)
LEMMA DeadlineInv ==
  ASSUME AttemptInv, InjectFault("Transient"),
         Return(Failed("Transient", FALSE)), UNCHANGED <<chainVars, walletVars>>
  PROVE  AttemptInv' /\ stage' = "done" /\ recordsTip' = recordsTip
  <1>1. faults' \in 0..MaxFaults
    BY InjectFaultType DEF AttemptInv
  <1>2. Failed("Transient", FALSE) \in Outcomes
    BY OutcomeFields DEF Faults
  <1>3. AttemptTypeOK'
    BY <1>1, <1>2
    DEF AttemptInv, AttemptTypeOK, Return, Stages, NoOrphan, chainVars, walletVars
  <1>4. DrainedToPinnedTip'
    BY DEF Return, Failed, DrainedToPinnedTip
  <1> QED
    BY <1>3, <1>4 DEF AttemptInv, Return

(* A truncation between attempts only ever lowers what the wallet holds.   *)
LEMMA TruncateInv ==
  ASSUME AttemptInv, stage = "idle", NEW h \in 0..MaxHeight, TruncateTo(h),
         dbOpen' \in BOOLEAN, faults' \in 0..MaxFaults,
         UNCHANGED <<tip, undelivered, changes, attemptVars>>
  PROVE  AttemptInv' /\ frontier' <= frontier
  <1>1. /\ MaxHeight \in Nat /\ h \in 0..MaxHeight
        /\ frontier \in 0..MaxHeight /\ queuedTo \in 0..MaxHeight
        /\ checkedTo \in 0..MaxHeight /\ orphanedFrom \in 1..NoOrphan
    BY AttemptAssumption DEF AttemptInv, AttemptTypeOK
  <1>2. /\ frontier' \in 0..MaxHeight /\ queuedTo' \in 0..MaxHeight
        /\ checkedTo' \in 0..MaxHeight /\ orphanedFrom' \in 1..NoOrphan
        /\ frontier' <= frontier
    BY <1>1 DEF TruncateTo, Lower, NoOrphan
  <1>3. AttemptTypeOK'
    BY <1>2 DEF AttemptInv, AttemptTypeOK, attemptVars
  <1>4. DrainedToPinnedTip'
    BY DEF DrainedToPinnedTip, attemptVars
  <1> QED
    BY <1>2, <1>3, <1>4 DEF AttemptInv

(* The chain moves under the attempt and never touches the wallet.         *)
LEMMA ChainMovesInv ==
  ASSUME AttemptInv, undelivered <= changes, ChainMoves
  PROVE  /\ AttemptInv'
         /\ undelivered' <= changes'
         /\ frontier' = frontier
         /\ stage' = stage
         /\ recordsTip' = recordsTip
  <1>1. /\ MaxHeight \in Nat /\ MaxChainChanges \in Nat
        /\ tip \in 0..MaxHeight /\ frontier \in 0..MaxHeight
        /\ undelivered \in 0..MaxChainChanges /\ changes \in 0..MaxChainChanges
        /\ orphanedFrom \in 1..NoOrphan /\ pinned \in BOOLEAN
    BY AttemptAssumption DEF AttemptInv, AttemptTypeOK
  <1>2. /\ changes' \in 0..MaxChainChanges
        /\ undelivered' \in 0..MaxChainChanges
        /\ undelivered' <= changes'
    <2>1. ChainChanges
      BY DEF ChainMoves, AdvanceTip, Reorg
    <2> QED
      BY <1>1, <2>1 DEF ChainChanges
  <1>3. UNCHANGED <<walletVars, stage, tries, recordsTip, epochTip, chunkEnd,
                    scanned, result, unchecked, faults>>
    BY DEF ChainMoves
  <1>4. /\ tip' \in 0..MaxHeight
        /\ orphanedFrom' \in 1..NoOrphan
        /\ pinned' \in BOOLEAN
    <2>1. CASE AdvanceTip
      <3>1. tip' \in 0..MaxHeight /\ orphanedFrom' = orphanedFrom
        BY <1>1, <2>1 DEF AdvanceTip
      <3>2. pinned' \in BOOLEAN
        BY <1>1, <2>1, Zenon DEF AdvanceTip
      <3> QED
        BY <1>1, <3>1, <3>2
    <2>2. CASE Reorg
      <3>1. PICK from \in 1..tip :
              /\ tip' \in {h \in {tip, tip - 1} : h >= from}
              /\ orphanedFrom' =
                   IF from <= frontier THEN Lower(from, orphanedFrom)
                   ELSE orphanedFrom
        BY <2>2 DEF Reorg
      <3>2. tip' >= from /\ (tip' = tip \/ tip' = tip - 1)
        BY <3>1
      <3>3. tip' \in 0..MaxHeight
        BY <1>1, <3>2
      <3>4. orphanedFrom' \in 1..NoOrphan
        BY <1>1, <3>1 DEF Lower, NoOrphan
      <3>5. pinned' \in BOOLEAN
        BY <2>2 DEF Reorg
      <3> QED
        BY <3>3, <3>4, <3>5
    <2> QED
      BY <2>1, <2>2 DEF ChainMoves
  <1>5. AttemptTypeOK'
    BY <1>2, <1>3, <1>4 DEF AttemptInv, AttemptTypeOK, walletVars
  <1>6. DrainedToPinnedTip'
    BY <1>3 DEF AttemptInv, DrainedToPinnedTip, walletVars
  <1> QED
    BY <1>2, <1>3, <1>5, <1>6 DEF AttemptInv, walletVars

-----------------------------------------------------------------------------
(* The driver.                                                             *)

USE DEF Retry, Rewind, RescanFromBirthday, Park, PolicyNormalized

(* The inductive invariant, by the module each part is about.              *)
DInv ==
  /\ IInv
  /\ AttemptInv
  /\ DriverTypeOK
  /\ DriverControl
  /\ ParkStaysVisible

(* The inductive invariant is the two that TLC checks.                     *)
LEMMA DInvMeaning == DInv <=> TypeOK /\ DriverInv
  BY DEF DInv, IInv, AttemptInv, TypeOK, DriverInv

(* Every height the driver reports to the ladder is one it knows.          *)
LEMMA HeightsReported == ReportedHeights = 0..MaxHeight
  BY DriverAssumption, AttemptAssumption DEF ReportedHeights

(* A status read gives the wallet's frontier or nothing.                   *)
LEMMA FrontierReadsTyped ==
  ASSUME AttemptTypeOK, NEW after \in FrontierReads
  PROVE  /\ after = Unknown \/ after = frontier
         /\ after \in 0..MaxHeight \cup {Unknown}
         /\ HeightOf(after) \in 0..MaxHeight
         /\ HeightOf(after) <= frontier
  <1>1. /\ frontier \in 0..MaxHeight
        /\ MaxHeight \in Nat
    BY AttemptAssumption DEF AttemptTypeOK
  <1>2. after = Unknown \/ after = frontier
    BY DEF FrontierReads
  <1> QED
    BY <1>1, <1>2 DEF HeightOf

(* repair_for always answers with a rung a fault may enter.                *)
LEMMA RepairForClass == \A fault : RepairFor(fault) \in FaultClasses
  BY DEF RepairFor, FaultClasses

-----------------------------------------------------------------------------
(* The three ways a step leaves the driver's loop variables.               *)
LEMMA LoopEntered ==
  ASSUME NEW sync \in BOOLEAN, EnterLoop(sync)
  PROVE  /\ pc' \in {"wake", "select"}
         /\ pc' = "wake" => ~Parked'
         /\ iter' \in 0..MaxSyncIterations
         /\ tipRecord' = "Stale"
         /\ frontierBefore' = Unknown
         /\ shouldSync' = sync
  BY DriverAssumption DEF EnterLoop

(* A wakeup that is over hands should_sync to the select.                  *)
LEMMA WakeupEnded ==
  ASSUME NEW sync \in BOOLEAN, EndWakeup(sync)
  PROVE  /\ pc' = "select"
         /\ iter' \in 0..MaxSyncIterations
         /\ tipRecord' = "Stale"
         /\ frontierBefore' = Unknown
         /\ shouldSync' = sync
  BY DriverAssumption DEF EndWakeup

(* An iteration that is over either starts the next or ends the wakeup.    *)
LEMMA IterationEnded ==
  ASSUME DriverTypeOK, NEW record \in {"Stale", "Current"}, NextIteration(record)
  PROVE  /\ pc' \in {"wake", "select"}
         /\ iter' \in 0..MaxSyncIterations
         /\ tipRecord' \in {"Stale", "Current"}
         /\ frontierBefore' = Unknown
         /\ shouldSync' \in BOOLEAN
         /\ pc' = "select" => shouldSync'
  <1>1. /\ MaxSyncIterations \in Nat \ {0}
        /\ iter \in 0..MaxSyncIterations
        /\ shouldSync \in BOOLEAN
    BY DriverAssumption DEF DriverTypeOK
  <1>2. CASE iter < MaxSyncIterations
    BY <1>1, <1>2 DEF NextIteration
  <1>3. CASE ~(iter < MaxSyncIterations)
    BY <1>1, <1>3, WakeupEnded DEF NextIteration
  <1> QED
    BY <1>2, <1>3

-----------------------------------------------------------------------------
(* What the ladder's steps do to the predicates the driver branches on.    *)
LEMMA LadderKept ==
  ASSUME UNCHANGED ladderVars
  PROVE  /\ Active' = Active
         /\ Parked' = Parked
         /\ due' = due
         /\ recovery' = recovery
  BY DEF ladderVars, Active, Parked

(* record_fault leaves a repair due and never parks by itself.             *)
LEMMA AfterFault ==
  ASSUME IInv, NEW c \in FaultClasses, NEW h \in ReportedHeights,
         FaultRecorded(c, h)
  PROVE  /\ recovery' # NoRecovery
         /\ due'
         /\ Parked' => Parked
  <1> DEFINE base == IF recovery = NoRecovery THEN Entering(c) ELSE recovery
             n == FoldFault(Woken(base, h), c)
  <1>1. base \in RecoveryState
    BY EnteringType DEF IInv, LadderTypeOK
  <1>2. n \in RecoveryState /\ n.parked = base.parked
    BY <1>1, FoldedFields
  <1>3. recovery' = n /\ due' = TRUE
    BY DEF FaultRecorded, Faulted
  <1>4. n # NoRecovery
    BY <1>2, RecoveryFields
  <1>5. recovery = NoRecovery => ~base.parked
    BY DEF Entering
  <1> HIDE DEF n
  <1> QED
    BY <1>2, <1>3, <1>4, <1>5 DEF Parked

(* apply_repair answers the fault and never unparks.                       *)
LEMMA AfterRepair ==
  ASSUME IInv, recovery # NoRecovery, RepairStarted
  PROVE  /\ recovery' # NoRecovery
         /\ ~due'
         /\ Parked' = Parked
  <1> DEFINE n == [recovery EXCEPT !.attempts = SaturatingInc(@)]
  <1>1. recovery \in RecoveryState
    BY DEF IInv, LadderTypeOK
  <1>2. n \in RecoveryState /\ n.parked = recovery.parked
    BY <1>1, RecoveryFields, SaturatingIncType DEF RecoveryState
  <1>3. recovery' = n /\ due' = FALSE
    BY DEF RepairStarted
  <1>4. n # NoRecovery
    BY <1>2, RecoveryFields
  <1> HIDE DEF n
  <1> QED
    BY <1>2, <1>3, <1>4 DEF Parked

(* A settled recovery is gone or dormant: there is nothing to repair.      *)
LEMMA AfterSettled ==
  ASSUME IInv, NEW h, Settled(h)
  PROVE  /\ ~Active'
         /\ due' = due
         /\ Parked' => Parked
  <1>1. CASE ~Survives(h)
    BY <1>1 DEF Settled, Active, Parked
  <1>2. CASE Survives(h)
    <2>1. /\ recovery \in RecoveryState /\ recovery # NoRecovery
          /\ recovery' = [recovery EXCEPT !.dormant = TRUE]
          /\ due' = due
      BY <1>2 DEF Settled, Survives, IInv, LadderTypeOK
    <2>2. recovery'.dormant /\ recovery'.parked = recovery.parked
      BY <2>1 DEF RecoveryState
    <2> QED
      BY <2>1, <2>2 DEF Active, Parked
  <1> QED
    BY <1>1, <1>2
-----------------------------------------------------------------------------
(* The result of an attempt the driver reads is one an attempt may return. *)
LEMMA ResultRead ==
  ASSUME DInv, NEW kind, AttemptReturned(kind)
  PROVE  /\ pc = "attempt"
         /\ ~due
         /\ result \in Outcomes
         /\ kind = "Completed" =>
              result.scannedTo \in 0..MaxHeight /\ result.blocks \in BOOLEAN
         /\ kind = "Faulted" =>
              result.fault \in Faults /\ result.checked \in BOOLEAN
  <1>1. pc = "attempt" /\ ~due /\ stage = "done" /\ result.kind = kind
    BY DEF AttemptReturned, DInv, DriverControl
  <1>2. result \in Outcomes
    BY <1>1 DEF DInv, AttemptInv, AttemptTypeOK
  <1> QED
    BY <1>1, <1>2, OutcomeFields

(* Recording a fault of an attempt is the ladder's RecordFault.            *)
LEMMA FaultsAreLadderSteps ==
  ASSUME DInv, ~due, NEW fault, NEW h \in 0..MaxHeight,
         FaultRecorded(RepairFor(fault), h)
  PROVE  LadderNext
  BY HeightsReported, RepairForClass DEF LadderNext, RecordFault

(* Settling after an attempt is the ladder's SettleRecovery.               *)
LEMMA SettlingsAreLadderSteps ==
  ASSUME DInv, ~due, NEW h \in 0..MaxHeight, Settled(h)
  PROVE  LadderNext
  BY HeightsReported DEF LadderNext, SettleRecovery

(* A failed repair is the ladder's RecordFault, at no height.              *)
LEMMA RepairFaultedIsLadderStep ==
  ASSUME DInv, NEW fault, RepairFaulted(fault)
  PROVE  LadderNext
  <1>1. ~due /\ FaultRecorded(RepairFor(fault), 0)
    BY DEF RepairFaulted, RecordAndPublish, DInv, DriverControl
  <1>2. 0 \in 0..MaxHeight
    BY AttemptAssumption
  <1> QED
    BY <1>1, <1>2, FaultsAreLadderSteps

(***************************************************************************)
(* Every step of the driver is a step of the ladder or leaves it alone.    *)
(* The guards the ladder asks for come from where the driver is: it        *)
(* records a fault only where no repair is due, it settles only after an   *)
(* attempt, and it parks only with the repair of the Park rung due.        *)
(***************************************************************************)
LEMMA DriverUsesLadderStep ==
  ASSUME DInv, [Next]_vars
  PROVE  [LadderNext]_ladderVars
  <1>1. CASE EnterParkRung
    <2>1. recovery # NoRecovery /\ recovery.rung = Park /\ ~recovery.parked
      BY <1>1 DEF EnterParkRung, Active, DInv, DriverControl, Parked
    <2>2. due
      BY <2>1 DEF DInv, IInv, LadderInv, AtPark
    <2> QED
      BY <1>1, <2>1, <2>2 DEF EnterParkRung, EnterPark, LadderNext
  <1>2. CASE BeginRepair
    <2>1. due /\ recovery.rung # Park /\ RepairStarted
      BY <1>2 DEF BeginRepair, DInv, DriverControl
    <2> QED
      BY <2>1 DEF ApplyRepair, LadderNext
  <1>3. ASSUME NEW fault, RepairFaulted(fault)
        PROVE  LadderNext
    BY <1>3, RepairFaultedIsLadderStep
  <1>4. CASE CompleteSync
    <2>1. ~due /\ result.scannedTo \in 0..MaxHeight /\ Settled(result.scannedTo)
      BY <1>4, ResultRead DEF CompleteSync
    <2> QED
      BY <2>1, SettlingsAreLadderSteps
  <1>5. CASE NoteSlowProgress
    <2>1. PICK after \in FrontierReads : Settled(HeightOf(after))
      BY <1>5 DEF NoteSlowProgress
    <2>2. ~due /\ HeightOf(after) \in 0..MaxHeight
      BY <1>5, ResultRead, FrontierReadsTyped
      DEF NoteSlowProgress, DInv, AttemptInv
    <2> QED
      BY <2>1, <2>2, SettlingsAreLadderSteps
  <1>6. CASE RecordSyncFault
    <2>1. PICK after \in FrontierReads :
            FaultRecorded(RepairFor(result.fault), HeightOf(after))
      BY <1>6 DEF RecordSyncFault, RecordAndPublish
    <2>2. ~due /\ HeightOf(after) \in 0..MaxHeight
      BY <1>6, ResultRead, FrontierReadsTyped
      DEF RecordSyncFault, DInv, AttemptInv
    <2> QED
      BY <2>1, <2>2, FaultsAreLadderSteps
  <1>7. CASE PollWhileParked
    <2>1. recovery # NoRecovery /\ recovery.parked
      BY <1>7 DEF PollWhileParked, Parked
    <2>2. CASE ReprobesPark /\ Rearmed
      BY <2>1, <2>2 DEF ReprobePark, LadderNext
    <2>3. CASE UNCHANGED ladderVars
      BY <2>3
    <2> QED
      BY <1>7, <2>2, <2>3 DEF PollWhileParked
  <1>8. CASE UNCHANGED ladderVars
    BY <1>8
  <1>9. Environment => UNCHANGED ladderVars
    BY DEF Environment, RequestClose
  <1>10. (Start \/ RewindWallet \/ RebuildWallet \/ ReadFrontier \/ RunAttempt
           \/ AttemptTimesOut \/ CloseDriver) => UNCHANGED ladderVars
    BY DEF Start, RewindWallet, RebuildWallet, RepairDone, ReadFrontier,
           RunAttempt, AttemptTimesOut, CloseDriver
  <1>11. (PollIdle \/ PollReopens \/ ChainEvent \/ StreamExpires \/ StreamErrs
           \/ StreamEnds) => UNCHANGED ladderVars
    BY DEF PollIdle, PollReopens, ChainEvent, StreamExpires, StreamErrs, StreamEnds
  <1>12. Closed \/ UNCHANGED vars => UNCHANGED ladderVars
    BY DEF Closed, vars
  <1>13. ASSUME NEW fault, RepairFails(fault) \/ RebuildFails(fault)
         PROVE  RepairFaulted(fault)
    BY <1>13 DEF RepairFails, RebuildFails
  <1>14. RepairImpossible => RepairFaulted("Corrupt")
    BY DEF RepairImpossible
  <1> QED
    BY <1>1, <1>2, <1>3, <1>4, <1>5, <1>6, <1>7, <1>8, <1>9, <1>10, <1>11,
       <1>12, <1>13, <1>14 DEF Next, DriverStep
-----------------------------------------------------------------------------
(* The invariant beside the ladder's part, which NextIInv preserves.       *)
Rest ==
  /\ AttemptInv
  /\ DriverTypeOK
  /\ DriverControl
  /\ ParkStaysVisible

(* What an arm of the select may do to the stream and to the status.       *)
StreamEffect ==
  /\ stream' \in {"open", "down"}
  /\ cursor' \in {"EarliestRetained", "AfterCursor"}
  /\ streamFaulted' \in BOOLEAN
  /\ lastFault' \in {"None", "Sync", "Stream"}
  /\ phase' \in {"Starting", "Syncing", "Waiting", "Recovering", "Parked", "Closed"}
  /\ observation' \in 0..MaxHeight
  /\ undelivered' \in 0..undelivered
  /\ faults' \in 0..MaxFaults

(* The types, one variable at a time.                                      *)
LEMMA DriverFields ==
  DriverTypeOK <=>
    /\ pc \in {"start", "wake", "repair", "ready", "attempt", "select", "closed"}
    /\ iter \in 0..MaxSyncIterations
    /\ tipRecord \in {"Stale", "Current"}
    /\ frontierBefore \in 0..MaxHeight \cup {Unknown}
    /\ shouldSync \in BOOLEAN
    /\ closeRequested \in BOOLEAN
    /\ streamFaulted \in BOOLEAN
    /\ observation \in 0..MaxHeight
    /\ lastFault \in {"None", "Sync", "Stream"}
    /\ phase \in {"Starting", "Syncing", "Waiting", "Recovering", "Parked", "Closed"}
    /\ stream \in {"open", "down"}
    /\ cursor \in {"EarliestRetained", "AfterCursor"}
  BY DEF DriverTypeOK

(* One turn of run_sync_driver's loop: it re-enters with the ladder as the *)
(* arm left it, and never wakes a parked driver.                           *)
LEMMA LoopTurn ==
  ASSUME Rest, pc \in {"start", "select"}, NEW sync \in BOOLEAN, EnterLoop(sync),
         StreamEffect, UNCHANGED <<walletVars, attemptVars, closeRequested>>,
         UNCHANGED <<tip, orphanedFrom, changes>>,
         Active' => due', Parked' => phase' \in {"Parked", "Closed"}
  PROVE  Rest'
  <1>1. /\ pc' \in {"wake", "select"}
        /\ pc' = "wake" => ~Parked'
        /\ iter' \in 0..MaxSyncIterations
        /\ tipRecord' = "Stale"
        /\ frontierBefore' = Unknown
        /\ shouldSync' \in BOOLEAN
    BY LoopEntered
  <1>2. /\ undelivered \in 0..MaxChainChanges /\ changes \in 0..MaxChainChanges
        /\ undelivered <= changes
        /\ stage = "idle" /\ stage' = stage
        /\ MaxChainChanges \in Nat
    BY AttemptAssumption
    DEF Rest, AttemptInv, AttemptTypeOK, DriverControl, attemptVars
  <1>3. undelivered' \in 0..MaxChainChanges /\ undelivered' <= changes'
    BY <1>2 DEF StreamEffect
  <1>4. AttemptInv'
    <2>1. AttemptTypeOK'
      BY <1>3
      DEF Rest, AttemptInv, AttemptTypeOK, StreamEffect, walletVars, attemptVars
    <2>2. DrainedToPinnedTip'
      BY DEF Rest, AttemptInv, DrainedToPinnedTip, walletVars, attemptVars
    <2> QED
      BY <2>1, <2>2 DEF AttemptInv
  <1>5. DriverTypeOK'
    BY <1>1 DEF Rest, DriverTypeOK, StreamEffect
  <1>6. DriverControl'
    BY <1>1, <1>2, <1>3 DEF DriverControl
  <1>7. ParkStaysVisible'
    BY DEF ParkStaysVisible
  <1> QED
    BY <1>4, <1>5, <1>6, <1>7 DEF Rest

(* open_chain_events changes nothing but the stream and the status.        *)
LEMMA OpenStreamEffect ==
  ASSUME Rest, NEW catchUp \in BOOLEAN, OpenStream(catchUp)
  PROVE  StreamEffect
  <1>1. /\ undelivered \in Nat
        /\ undelivered \in 0..undelivered /\ 0 \in 0..undelivered
        /\ faults \in 0..MaxFaults
    BY DEF Rest, AttemptInv, AttemptTypeOK
  <1>2. CASE StreamOpens(catchUp)
    BY <1>1, <1>2 DEF StreamOpens, Rest, DriverTypeOK, StreamEffect
  <1>3. CASE CursorExpired /\ UNCHANGED faults
    BY <1>1, <1>3 DEF CursorExpired, statusVars, Rest, DriverTypeOK, StreamEffect
  <1>4. CASE StreamOpenFails
    <2>1. faults' \in 0..MaxFaults
      BY <1>4, InjectFaultType DEF StreamOpenFails, Rest, AttemptInv
    <2> QED
      BY <1>1, <1>4, <2>1
      DEF StreamOpenFails, StreamFaultRecorded, Rest, DriverTypeOK, StreamEffect
  <1> QED
    BY <1>2, <1>3, <1>4 DEF OpenStream
-----------------------------------------------------------------------------
(* Starting up, and every arm of run_sync_driver's select.                 *)
LEMMA SelectInv ==
  ASSUME DInv,
         \/ Start \/ PollWhileParked \/ PollIdle \/ PollReopens \/ ChainEvent
         \/ StreamExpires \/ StreamErrs \/ StreamEnds
  PROVE  Rest'
  <1>1. Rest /\ IInv
    BY DEF DInv, Rest
  <1>2. /\ undelivered \in Nat
        /\ undelivered \in 0..undelivered /\ 0 \in 0..undelivered
        /\ faults \in 0..MaxFaults
        /\ shouldSync \in BOOLEAN
        /\ Parked \in BOOLEAN
    BY <1>1 DEF Rest, AttemptInv, AttemptTypeOK, DriverTypeOK, IInv,
                LadderTypeOK, RecoveryState, Parked
  <1>3. UNCHANGED statusVars => (Parked => phase' \in {"Parked", "Closed"})
    BY <1>1 DEF Rest, ParkStaysVisible, statusVars
  <1>4. (pc \in {"start", "select"} /\ Active) => due
    BY <1>1 DEF Rest, DriverControl
  <1>5. CASE Start
    <2>1. pc = "start" /\ OpenStream(FALSE) /\ EnterLoop(TRUE)
      BY <1>5 DEF Start
    <2>2. ~Parked' /\ (Active' => due')
      BY <1>1, <1>4, <1>5, <2>1, LadderKept DEF Start, Rest, DriverControl
    <2> QED
      BY <1>1, <1>5, <2>1, <2>2, OpenStreamEffect, LoopTurn DEF Start
  <1>6. CASE PollWhileParked
    <2>1. /\ pc = "select" /\ Parked
          /\ UNCHANGED <<observation, lastFault, streamVars, undelivered, faults>>
      BY <1>6 DEF PollWhileParked, Selecting
    <2>2. CASE Rearmed /\ phase' = "Waiting" /\ EnterLoop(TRUE)
      <3>1. ~Parked' /\ ~Active'
        BY <2>2 DEF Rearmed, Parked, Active
      <3>2. StreamEffect
        BY <1>1, <1>2, <2>1, <2>2 DEF StreamEffect, Rest, DriverTypeOK, streamVars
      <3> QED
        BY <1>1, <1>6, <2>1, <2>2, <3>1, <3>2, LoopTurn
        DEF PollWhileParked, Selecting
    <2>3. CASE UNCHANGED <<phase, ladderVars>> /\ EnterLoop(FALSE)
      <3>1. StreamEffect
        BY <1>1, <1>2, <2>1, <2>3 DEF StreamEffect, Rest, DriverTypeOK, streamVars
      <3>2. (Active' => due') /\ (Parked' => phase' \in {"Parked", "Closed"})
        BY <1>1, <1>4, <2>1, <2>3, LadderKept DEF Rest, ParkStaysVisible
      <3> QED
        BY <1>1, <1>6, <2>1, <2>3, <3>1, <3>2, LoopTurn
        DEF PollWhileParked, Selecting
    <2> QED
      BY <1>6, <2>2, <2>3 DEF PollWhileParked
  <1>7. CASE PollReopens
    <2>1. PICK catchUp \in BOOLEAN : OpenStream(catchUp) /\ EnterLoop(catchUp)
      BY <1>7 DEF PollReopens
    <2>2. pc = "select" /\ ~Parked' /\ (Active' => due')
      BY <1>4, <1>7, LadderKept DEF PollReopens, Selecting
    <2> QED
      BY <1>1, <1>7, <2>1, <2>2, OpenStreamEffect, LoopTurn
      DEF PollReopens, Selecting
  <1>8. CASE PollIdle \/ ChainEvent \/ StreamExpires \/ StreamErrs \/ StreamEnds
    <2>1. Selecting /\ pc = "select" /\ UNCHANGED ladderVars
      BY <1>8 DEF PollIdle, ChainEvent, StreamExpires, StreamErrs, StreamEnds,
                  Selecting
    <2>2. PICK sync \in BOOLEAN : EnterLoop(sync)
      BY <1>2, <1>8
      DEF PollIdle, ChainEvent, StreamExpires, StreamErrs, StreamEnds
    <2>3. StreamEffect
      <3>1. CASE PollIdle
        BY <1>1, <1>2, <3>1
        DEF PollIdle, StreamEffect, Rest, DriverTypeOK, streamVars, statusVars
      <3>2. CASE ChainEvent
        <4>1. undelivered' \in 0..undelivered
          BY <1>2, <3>2 DEF ChainEvent
        <4> QED
          BY <1>1, <1>2, <3>2, <4>1
          DEF ChainEvent, StreamEffect, Rest, DriverTypeOK, statusVars
      <3>3. CASE StreamExpires
        BY <1>1, <1>2, <3>3
        DEF StreamExpires, CursorExpired, StreamEffect, Rest, DriverTypeOK,
            statusVars
      <3>4. CASE StreamErrs \/ StreamEnds
        <4>1. faults' \in 0..MaxFaults /\ undelivered' = undelivered
          BY <1>1, <3>4, InjectFaultType
          DEF StreamErrs, StreamEnds, Rest, AttemptInv
        <4> QED
          BY <1>1, <1>2, <3>4, <4>1
          DEF StreamErrs, StreamEnds, StreamFaultRecorded, StreamEffect, Rest,
              DriverTypeOK, statusVars
      <3> QED
        BY <1>8, <3>1, <3>2, <3>3, <3>4
    <2>4. Parked => UNCHANGED statusVars
      BY <1>8 DEF PollIdle, ChainEvent, StreamExpires, CursorExpired, StreamErrs,
                  StreamEnds
    <2>5. (Active' => due') /\ (Parked' => phase' \in {"Parked", "Closed"})
      BY <1>3, <1>4, <2>1, <2>4, LadderKept
    <2> QED
      BY <1>1, <2>1, <2>2, <2>3, <2>5, LoopTurn DEF Selecting
  <1> QED
    BY <1>5, <1>6, <1>7, <1>8
-----------------------------------------------------------------------------
(* The world moves, the host asks to close, or nothing happens.            *)
LEMMA EnvironmentInv ==
  ASSUME DInv, Environment
  PROVE  Rest'
  <1>1. UNCHANGED ladderVars
    BY DEF Environment, RequestClose
  <1>2. CASE ChainMoves /\ UNCHANGED driverVars
    <2>1. /\ AttemptInv' /\ undelivered' <= changes'
          /\ stage' = stage /\ recordsTip' = recordsTip
      BY <1>2, ChainMovesInv DEF DInv, DriverControl
    <2>2. DriverTypeOK'
      BY <1>2 DEF DInv, DriverTypeOK, driverVars, loopVars, statusVars, streamVars
    <2>3. DriverControl'
      BY <1>1, <1>2, <2>1, LadderKept DEF DInv, DriverControl, driverVars, loopVars
    <2>4. ParkStaysVisible'
      BY <1>1, <1>2, LadderKept DEF DInv, ParkStaysVisible, driverVars, statusVars
    <2> QED
      BY <2>1, <2>2, <2>3, <2>4 DEF Rest
  <1>3. CASE RequestClose
    <2>1. AttemptInv'
      BY <1>3
      DEF RequestClose, worldVars, chainVars, walletVars, attemptVars, DInv,
          AttemptInv, AttemptTypeOK, DrainedToPinnedTip
    <2>2. DriverTypeOK'
      BY <1>3 DEF RequestClose, DInv, DriverTypeOK, loopVars, statusVars, streamVars
    <2>3. DriverControl'
      BY <1>1, <1>3, LadderKept
      DEF RequestClose, DInv, DriverControl, loopVars, worldVars, chainVars,
          attemptVars
    <2>4. ParkStaysVisible'
      BY <1>1, <1>3, LadderKept
      DEF RequestClose, DInv, ParkStaysVisible, statusVars
    <2> QED
      BY <2>1, <2>2, <2>3, <2>4 DEF Rest
  <1> QED
    BY <1>2, <1>3 DEF Environment

(* A step that changes nothing.                                            *)
LEMMA StutterInv ==
  ASSUME DInv, UNCHANGED vars
  PROVE  Rest'
  <1>1. UNCHANGED ladderVars
    BY DEF vars
  <1>2. AttemptInv'
    BY DEF vars, worldVars, chainVars, walletVars, attemptVars, DInv,
           AttemptInv, AttemptTypeOK, DrainedToPinnedTip
  <1>3. DriverTypeOK'
    BY DEF vars, driverVars, loopVars, statusVars, streamVars, DInv, DriverTypeOK
  <1>4. DriverControl'
    BY <1>1, LadderKept
    DEF vars, driverVars, loopVars, worldVars, chainVars, attemptVars, DInv,
        DriverControl
  <1>5. ParkStaysVisible'
    BY <1>1, LadderKept
    DEF vars, driverVars, statusVars, DInv, ParkStaysVisible
  <1> QED
    BY <1>2, <1>3, <1>4, <1>5 DEF Rest

(* A step of the attempt in flight, or its deadline.                       *)
LEMMA AttemptInFlightInv ==
  ASSUME DInv, RunAttempt \/ AttemptTimesOut
  PROVE  Rest'
  <1>1. /\ UNCHANGED ladderVars /\ UNCHANGED driverVars /\ UNCHANGED chainVars
        /\ pc = "attempt" /\ stage # "idle"
    BY DEF RunAttempt, AttemptTimesOut, DInv, DriverControl
  <1>2. AttemptInv' /\ stage' # "idle" /\ recordsTip' = recordsTip
    <2>1. CASE RunAttempt
      BY <1>1, <2>1, AttemptStepInv DEF RunAttempt, DInv
    <2>2. CASE AttemptTimesOut
      BY <1>1, <2>2, DeadlineInv DEF AttemptTimesOut, DInv
    <2> QED
      BY <2>1, <2>2
  <1>3. DriverTypeOK'
    BY <1>1 DEF DInv, DriverTypeOK, driverVars, loopVars, statusVars, streamVars
  <1>4. DriverControl'
    BY <1>1, <1>2, LadderKept DEF DInv, DriverControl, driverVars, loopVars, chainVars
  <1>5. ParkStaysVisible'
    BY <1>1, LadderKept DEF DInv, ParkStaysVisible, driverVars, statusVars
  <1> QED
    BY <1>2, <1>3, <1>4, <1>5 DEF Rest

-----------------------------------------------------------------------------
(* The driver enters the park, the only repair that is not applied.        *)
LEMMA EnterParkRungInv ==
  ASSUME DInv, EnterParkRung
  PROVE  Rest'
  <1>1. /\ pc = "wake" /\ Active /\ due /\ ParkEntered /\ phase' = "Parked"
        /\ stage = "idle"
    BY DEF EnterParkRung, DInv, DriverControl
  <1>2. /\ pc' = "select" /\ iter' \in 0..MaxSyncIterations
        /\ tipRecord' = "Stale" /\ frontierBefore' = Unknown
        /\ shouldSync' = TRUE
    BY WakeupEnded DEF EnterParkRung
  <1>3. UNCHANGED <<chainVars, walletVars, attemptVars, faults>>
    BY DEF EnterParkRung, worldVars
  <1>4. AttemptInv'
    BY <1>3 DEF chainVars, walletVars, attemptVars, DInv, AttemptInv,
                AttemptTypeOK, DrainedToPinnedTip
  <1>5. DriverTypeOK'
    BY <1>1, <1>2 DEF EnterParkRung, DInv, DriverTypeOK, streamVars
  <1>6. DriverControl'
    BY <1>1, <1>2, <1>3 DEF DInv, DriverControl, ParkEntered, chainVars, attemptVars
  <1>7. ParkStaysVisible'
    BY <1>1 DEF ParkStaysVisible
  <1> QED
    BY <1>4, <1>5, <1>6, <1>7 DEF Rest

(* The backoff is over and the repair counts its attempt.                  *)
LEMMA BeginRepairInv ==
  ASSUME DInv, BeginRepair
  PROVE  Rest'
  <1>1. /\ pc = "wake" /\ Active /\ RepairStarted
        /\ stage = "idle" /\ ~Parked
    BY DEF BeginRepair, DInv, DriverControl
  <1>2. recovery' # NoRecovery /\ ~due' /\ ~Parked'
    BY <1>1, AfterRepair DEF DInv, Active
  <1>3. UNCHANGED <<chainVars, walletVars, attemptVars, faults>>
    BY DEF BeginRepair, worldVars
  <1>4. pc' \in {"ready", "repair"}
    BY DEF BeginRepair
  <1>5. AttemptInv'
    BY <1>3 DEF chainVars, walletVars, attemptVars, DInv, AttemptInv,
                AttemptTypeOK, DrainedToPinnedTip
  <1>6. DriverTypeOK'
    BY <1>4 DEF BeginRepair, DInv, DriverTypeOK, streamVars
  <1>7. DriverControl'
    BY <1>1, <1>2, <1>3, <1>4 DEF DInv, DriverControl, chainVars, attemptVars
  <1>8. ParkStaysVisible'
    BY <1>2 DEF ParkStaysVisible
  <1> QED
    BY <1>5, <1>6, <1>7, <1>8 DEF Rest
-----------------------------------------------------------------------------
(* A repair that is applied truncates the wallet, to a rewind target or to *)
(* nothing.                                                                *)
LEMMA RewindTargetTyped ==
  ASSUME DInv, recovery # NoRecovery
  PROVE  RewindTarget \in 0..MaxHeight
  <1>1. recovery.depth \in DepthIndexes
    BY RecoveryFields DEF DInv, IInv, LadderTypeOK
  <1>2. RewindLadderBlocks[recovery.depth] \in Nat \ {0}
    BY <1>1, DriverAssumption
  <1>3. frontier \in 0..MaxHeight /\ MaxHeight \in Nat
    BY AttemptAssumption DEF DInv, AttemptInv, AttemptTypeOK
  <1> QED
    BY <1>2, <1>3 DEF RewindTarget

(* A wallet left as it is has been truncated to the highest height.        *)
LEMMA UntouchedIsTruncation ==
  ASSUME AttemptTypeOK, UNCHANGED <<walletVars, orphanedFrom>>
  PROVE  TruncateTo(MaxHeight)
  <1>1. /\ frontier \in 0..MaxHeight /\ queuedTo \in 0..MaxHeight
        /\ checkedTo \in 0..MaxHeight /\ orphanedFrom \in 1..NoOrphan
        /\ MaxHeight \in Nat
    BY AttemptAssumption, AttemptTypes
  <1> QED
    BY <1>1 DEF TruncateTo, Lower, NoOrphan, walletVars

(* A repair that succeeds only ever lowers the frontier.                   *)
LEMMA RepairDoneInv ==
  ASSUME DInv, RewindWallet \/ RebuildWallet
  PROVE  Rest' /\ frontier' <= frontier
  <1>1. /\ pc = "repair" /\ pc' = "ready"
        /\ UNCHANGED <<iter, tipRecord, frontierBefore, shouldSync>>
        /\ UNCHANGED <<statusVars, streamVars, closeRequested, ladderVars>>
        /\ UNCHANGED <<tip, undelivered, changes, attemptVars, faults>>
    BY DEF RewindWallet, RebuildWallet, RepairDone
  <1>2. /\ recovery # NoRecovery /\ ~due /\ stage = "idle" /\ ~Parked
        /\ undelivered <= changes
    BY <1>1 DEF DInv, DriverControl
  <1>3. 0 \in 0..MaxHeight /\ RewindTarget \in 0..MaxHeight
    BY <1>2, AttemptAssumption, RewindTargetTyped
  <1>4. /\ \E h \in 0..MaxHeight : TruncateTo(h)
        /\ dbOpen' \in BOOLEAN
    <2>1. CASE UNCHANGED <<walletVars, orphanedFrom>>
      <3>1. MaxHeight \in 0..MaxHeight
        BY AttemptAssumption
      <3>2. dbOpen' \in BOOLEAN
        BY <2>1 DEF walletVars, DInv, AttemptInv, AttemptTypeOK
      <3> QED
        BY <2>1, <3>1, <3>2, UntouchedIsTruncation DEF DInv, AttemptInv
    <2>2. CASE ~UNCHANGED <<walletVars, orphanedFrom>>
      BY <1>3, <2>2 DEF RewindWallet, RebuildWallet, Recreate, DInv, AttemptInv,
                        AttemptTypeOK
    <2> QED
      BY <2>1, <2>2
  <1>5. faults' \in 0..MaxFaults
    BY <1>1 DEF DInv, AttemptInv, AttemptTypeOK
  <1>6. AttemptInv' /\ frontier' <= frontier
    BY <1>1, <1>2, <1>4, <1>5, TruncateInv DEF DInv
  <1>7. DriverTypeOK'
    BY <1>1 DEF DInv, DriverTypeOK, statusVars, streamVars
  <1>8. DriverControl'
    BY <1>1, <1>2, LadderKept DEF DriverControl, attemptVars
  <1>9. ParkStaysVisible'
    BY <1>1, <1>2, LadderKept DEF ParkStaysVisible
  <1> QED
    BY <1>6, <1>7, <1>8, <1>9 DEF Rest

(* A repair that fails leaves the wallet as it was, or without a database. *)
LEMMA RepairFaultedInv ==
  ASSUME DInv, NEW fault,
         RepairFails(fault) \/ RebuildFails(fault)
           \/ (RepairImpossible /\ fault = "Corrupt")
  PROVE  Rest' /\ frontier' <= frontier
  <1>1. RepairFaulted(fault)
    BY DEF RepairFails, RebuildFails, RepairImpossible
  <1>2. /\ pc = "repair" /\ FaultRecorded(RepairFor(fault), 0)
        /\ lastFault' = "Sync" /\ phase' = "Recovering"
        /\ observation' = observation /\ NextIteration("Stale")
        /\ UNCHANGED <<streamVars, closeRequested, attemptVars>>
        /\ UNCHANGED <<tip, undelivered, changes>>
    BY <1>1 DEF RepairFaulted, RecordAndPublish
  <1>3. /\ stage = "idle" /\ ~Parked /\ undelivered <= changes
        /\ frontier \in Nat
    BY <1>2 DEF DInv, DriverControl, AttemptInv, AttemptTypeOK
  <1>4. /\ pc' \in {"wake", "select"} /\ iter' \in 0..MaxSyncIterations
        /\ tipRecord' \in {"Stale", "Current"}
        /\ frontierBefore' = Unknown /\ shouldSync' \in BOOLEAN
    BY <1>2, IterationEnded DEF DInv
  <1>5. recovery' # NoRecovery /\ due' /\ ~Parked'
    <2>1. 0 \in ReportedHeights
      BY DEF ReportedHeights
    <2> QED
      BY <1>2, <1>3, <2>1, RepairForClass, AfterFault DEF DInv
  <1>6. AttemptInv' /\ frontier' <= frontier
    <2>1. CASE RepairFails(fault) \/ RepairImpossible
      <3>1. UNCHANGED <<chainVars, walletVars, attemptVars>>
        BY <1>2, <2>1 DEF RepairFails, RepairImpossible, chainVars
      <3>2. faults' \in 0..MaxFaults
        BY <2>1, InjectFaultType
        DEF RepairFails, RepairImpossible, DInv, AttemptInv, AttemptTypeOK
      <3> QED
        BY <1>3, <3>1, <3>2
        DEF chainVars, walletVars, attemptVars, DInv, AttemptInv, AttemptTypeOK,
            DrainedToPinnedTip
    <2>2. CASE RebuildFails(fault)
      <3>1. 0 \in 0..MaxHeight /\ TruncateTo(0) /\ dbOpen' = FALSE
        BY <2>2, AttemptAssumption DEF RebuildFails, Recreate
      <3>2. faults' \in 0..MaxFaults
        BY <2>2, InjectFaultType DEF RebuildFails, DInv, AttemptInv
      <3> QED
        BY <1>2, <1>3, <3>1, <3>2, TruncateInv DEF DInv
    <2> QED
      BY <2>1, <2>2
  <1>7. DriverTypeOK'
    BY <1>2, <1>4 DEF DInv, DriverTypeOK, streamVars
  <1>8. DriverControl'
    BY <1>2, <1>3, <1>4, <1>5 DEF DriverControl, attemptVars
  <1>9. ParkStaysVisible'
    BY <1>5 DEF ParkStaysVisible
  <1> QED
    BY <1>6, <1>7, <1>8, <1>9 DEF Rest

-----------------------------------------------------------------------------
(* An attempt begins, with no repair due and the plan its record asks for. *)
LEMMA ReadFrontierInv ==
  ASSUME DInv, ReadFrontier
  PROVE  Rest'
  <1>1. /\ pc \in {"ready", "wake"} /\ pc' = "attempt"
        /\ frontierBefore' \in FrontierReads /\ phase' = "Syncing"
        /\ BeginAttempt(tipRecord = "Stale")
        /\ UNCHANGED <<iter, tipRecord, shouldSync, observation, lastFault>>
        /\ UNCHANGED <<streamVars, closeRequested, ladderVars, chainVars>>
        /\ UNCHANGED <<walletVars, faults>>
    BY DEF ReadFrontier
  <1>2. ~due
    <2>1. CASE pc = "ready"
      BY <2>1 DEF DInv, DriverControl
    <2>2. CASE pc = "wake" /\ ~Active
      BY <2>2 DEF DInv, IInv, LadderTypeOK, LadderInv, Active
    <2> QED
      BY <2>1, <2>2 DEF ReadFrontier
  <1>3. ~Parked /\ undelivered <= changes
    BY <1>1 DEF DInv, DriverControl
  <1>4. AttemptInv' /\ stage' = "pin" /\ recordsTip' = (tipRecord = "Stale")
    <2>1. (tipRecord = "Stale") \in BOOLEAN /\ AttemptInv
      BY DEF DInv
    <2> QED
      BY <1>1, <2>1, BeginAttemptInv
  <1>5. frontierBefore' \in 0..MaxHeight \cup {Unknown}
    BY <1>1, FrontierReadsTyped DEF DInv, AttemptInv
  <1>6. DriverTypeOK'
    BY <1>1, <1>5 DEF DInv, DriverTypeOK, streamVars
  <1>7. DriverControl'
    <2>1. ~due' /\ ~Parked'
      BY <1>1, <1>2, <1>3, LadderKept
    <2>2. recordsTip' <=> (tipRecord' = "Stale")
      BY <1>1, <1>4, Zenon
    <2>3. undelivered' <= changes'
      BY <1>1, <1>3 DEF chainVars
    <2> QED
      BY <1>1, <1>4, <2>1, <2>2, <2>3 DEF DriverControl
  <1>8. ParkStaysVisible'
    BY <1>1, <1>3, LadderKept DEF ParkStaysVisible
  <1> QED
    BY <1>4, <1>6, <1>7, <1>8 DEF Rest
-----------------------------------------------------------------------------
(* The driver reads the result of an attempt and forgets the attempt: the  *)
(* ladder either settles or has one repair due.                            *)
LEMMA ReturnedInv ==
  ASSUME DInv, NEW kind, AttemptReturned(kind),
         pc' \in {"wake", "select"}, iter' \in 0..MaxSyncIterations,
         tipRecord' \in {"Stale", "Current"}, frontierBefore' = Unknown,
         shouldSync' \in BOOLEAN, observation' \in 0..MaxHeight,
         lastFault' \in {"None", "Sync"},
         phase' \in {"Syncing", "Waiting", "Recovering"},
         Active' => due', Parked' => Parked
  PROVE  Rest'
  <1>1. /\ pc = "attempt"
        /\ UNCHANGED <<streamVars, closeRequested, chainVars, walletVars, faults>>
        /\ ForgetAttempt
    BY DEF AttemptReturned
  <1>2. ~Parked' /\ undelivered <= changes
    BY <1>1 DEF DInv, DriverControl
  <1>3. AttemptInv' /\ stage' = "idle"
    BY <1>1, ForgetAttemptInv DEF DInv
  <1>4. DriverTypeOK'
    BY <1>1 DEF DInv, DriverTypeOK, streamVars
  <1>5. DriverControl'
    BY <1>1, <1>2, <1>3 DEF DriverControl, chainVars
  <1>6. ParkStaysVisible'
    BY <1>2 DEF ParkStaysVisible
  <1> QED
    BY <1>3, <1>4, <1>5, <1>6 DEF Rest

(* complete_sync settles the recovery or keeps it dormant.                 *)
LEMMA CompleteSyncInv ==
  ASSUME DInv, CompleteSync
  PROVE  Rest'
  <1>1. /\ AttemptReturned("Completed") /\ Settled(result.scannedTo)
        /\ observation' = ObservedRun(result.scannedTo, result.blocks)
        /\ lastFault' = "None"
        /\ phase' \in {"Syncing", "Waiting"}
    BY DEF CompleteSync
  <1>2. result.scannedTo \in 0..MaxHeight /\ observation \in 0..MaxHeight
    BY <1>1, ResultRead DEF DInv, DriverTypeOK
  <1>3. observation' \in 0..MaxHeight
    BY <1>1, <1>2 DEF ObservedRun
  <1>4. /\ pc' \in {"wake", "select"} /\ iter' \in 0..MaxSyncIterations
        /\ tipRecord' \in {"Stale", "Current"} /\ frontierBefore' = Unknown
        /\ shouldSync' \in BOOLEAN
    <2>1. CASE \E record \in {"Stale", "Current"} : NextIteration(record)
      BY <2>1, IterationEnded DEF DInv
    <2>2. CASE EndWakeup(FALSE)
      BY <2>2, WakeupEnded
    <2> QED
      BY <2>1, <2>2 DEF CompleteSync
  <1>5. ~Active' /\ (Parked' => Parked)
    BY <1>1, AfterSettled DEF DInv
  <1> QED
    BY <1>1, <1>3, <1>4, <1>5, ReturnedInv

(* note_slow_progress settles with the height the attempt reached.         *)
LEMMA NoteSlowProgressInv ==
  ASSUME DInv, NoteSlowProgress
  PROVE  Rest'
  <1>1. PICK after \in FrontierReads :
          /\ observation' = ObservedChunk(result.checked, after)
          /\ Settled(HeightOf(after))
          /\ NextIteration(RecordAfterFault(after))
    BY DEF NoteSlowProgress
  <1>2. /\ AttemptReturned("Faulted")
        /\ lastFault' = "None" /\ phase' = "Syncing"
    BY DEF NoteSlowProgress
  <1>3. observation' \in 0..MaxHeight
    <2>1. after \in 0..MaxHeight \/ HeightOf(after) = 0
      BY FrontierReadsTyped DEF HeightOf, DInv, AttemptInv
    <2> QED
      BY <1>1, <2>1 DEF ObservedChunk, DInv, DriverTypeOK
  <1>4. RecordAfterFault(after) \in {"Stale", "Current"}
    BY DEF RecordAfterFault, DInv, DriverTypeOK
  <1>5. /\ pc' \in {"wake", "select"} /\ iter' \in 0..MaxSyncIterations
        /\ tipRecord' \in {"Stale", "Current"} /\ frontierBefore' = Unknown
        /\ shouldSync' \in BOOLEAN
    BY <1>1, <1>4, IterationEnded DEF DInv
  <1>6. ~Active' /\ (Parked' => Parked)
    BY <1>1, AfterSettled DEF DInv
  <1> QED
    BY <1>2, <1>3, <1>5, <1>6, ReturnedInv

(* The Faulted arm leaves one repair due.                                  *)
LEMMA RecordSyncFaultInv ==
  ASSUME DInv, RecordSyncFault
  PROVE  Rest'
  <1>1. PICK after \in FrontierReads :
          /\ RecordAndPublish(result.fault, HeightOf(after))
          /\ NextIteration(RecordAfterFault(after))
    BY DEF RecordSyncFault
  <1>2. AttemptReturned("Faulted")
    BY DEF RecordSyncFault
  <1>3. /\ FaultRecorded(RepairFor(result.fault), HeightOf(after))
        /\ lastFault' = "Sync" /\ phase' = "Recovering"
        /\ observation' \in 0..MaxHeight
    BY <1>1 DEF RecordAndPublish, DInv, DriverTypeOK
  <1>4. RecordAfterFault(after) \in {"Stale", "Current"}
    BY DEF RecordAfterFault, DInv, DriverTypeOK
  <1>5. /\ pc' \in {"wake", "select"} /\ iter' \in 0..MaxSyncIterations
        /\ tipRecord' \in {"Stale", "Current"} /\ frontierBefore' = Unknown
        /\ shouldSync' \in BOOLEAN
    BY <1>1, <1>4, IterationEnded DEF DInv
  <1>6. due' /\ (Parked' => Parked)
    <2>1. HeightOf(after) \in ReportedHeights
      BY FrontierReadsTyped, HeightsReported DEF DInv, AttemptInv
    <2> QED
      BY <1>3, <2>1, RepairForClass, AfterFault DEF DInv
  <1> QED
    BY <1>2, <1>3, <1>5, <1>6, ReturnedInv

(* Closing drops the attempt in flight.                                    *)
LEMMA CloseDriverInv ==
  ASSUME DInv, CloseDriver
  PROVE  Rest'
  <1>1. /\ pc' = "closed" /\ phase' = "Closed" /\ ForgetAttempt
        /\ UNCHANGED <<iter, tipRecord, frontierBefore, shouldSync, closeRequested>>
        /\ UNCHANGED <<observation, lastFault, streamVars, chainVars, walletVars>>
        /\ UNCHANGED <<ladderVars, faults>>
    BY DEF CloseDriver
  <1>2. AttemptInv' /\ stage' = "idle"
    BY <1>1, ForgetAttemptInv DEF DInv
  <1>3. DriverTypeOK'
    BY <1>1 DEF DInv, DriverTypeOK, streamVars
  <1>4. DriverControl'
    BY <1>1, <1>2 DEF DInv, DriverControl, chainVars
  <1>5. ParkStaysVisible'
    BY <1>1 DEF ParkStaysVisible
  <1> QED
    BY <1>2, <1>3, <1>4, <1>5 DEF Rest

-----------------------------------------------------------------------------
(* Every initial state satisfies the invariant.                            *)
LEMMA DriverInit == Init => DInv
  <1> SUFFICES ASSUME Init PROVE DInv
    OBVIOUS
  <1>1. IInv
    BY InitIInv DEF Init
  <1>2. AttemptInv
    <2>1. 0 \in 0..MaxHeight /\ 0 \in 0..MaxChainChanges /\ 0 \in 0..MaxFaults
          /\ 0 \in 0..MaxAttempts /\ tip \in 0..MaxHeight
          /\ NoOrphan \in 1..NoOrphan
      BY AttemptAssumption DEF Init, AttemptInit, NoOrphan
    <2>2. AttemptTypeOK
      BY <2>1 DEF Init, AttemptInit, AttemptTypeOK, Stages
    <2>3. DrainedToPinnedTip
      BY DEF Init, AttemptInit, DrainedToPinnedTip
    <2> QED
      BY <2>2, <2>3 DEF AttemptInv
  <1>3. DriverTypeOK
    <2>1. 0 \in 0..MaxSyncIterations /\ 0 \in 0..MaxHeight
      BY DriverAssumption, AttemptAssumption
    <2> QED
      BY <2>1, DriverFields DEF Init
  <1>4. DriverControl
    <2>1. /\ recovery = NoRecovery /\ due = FALSE /\ pc = "start"
          /\ stage = "idle" /\ undelivered = 0 /\ changes = 0
      BY DEF Init, LadderInit, AttemptInit
    <2> QED
      BY <2>1 DEF DriverControl, Active, Parked
  <1>5. ParkStaysVisible
    BY DEF Init, LadderInit, ParkStaysVisible, Parked
  <1> QED
    BY <1>1, <1>2, <1>3, <1>4, <1>5 DEF DInv

(* Every step preserves it: the ladder's part by NextIInv.                 *)
LEMMA DriverNext == DInv /\ [Next]_vars => DInv'
  <1> SUFFICES ASSUME DInv, [Next]_vars PROVE DInv'
    OBVIOUS
  <1>1. IInv'
    BY DriverUsesLadderStep, NextIInv DEF DInv
  <1>2. Rest'
    <2>1. CASE Environment
      BY <2>1, EnvironmentInv
    <2>2. CASE Closed \/ UNCHANGED vars
      BY <2>2, StutterInv DEF Closed
    <2>3. CASE Start \/ PollWhileParked \/ PollIdle \/ PollReopens \/ ChainEvent
               \/ StreamExpires \/ StreamErrs \/ StreamEnds
      BY <2>3, SelectInv
    <2>4. CASE EnterParkRung
      BY <2>4, EnterParkRungInv
    <2>5. CASE BeginRepair
      BY <2>5, BeginRepairInv
    <2>6. CASE RewindWallet \/ RebuildWallet
      BY <2>6, RepairDoneInv
    <2>7. ASSUME NEW fault \in FaultKinds, RepairFails(fault) \/ RebuildFails(fault)
          PROVE  Rest'
      BY <2>7, RepairFaultedInv
    <2>8. CASE RepairImpossible
      BY <2>8, RepairFaultedInv
    <2>9. CASE ReadFrontier
      BY <2>9, ReadFrontierInv
    <2>10. CASE RunAttempt \/ AttemptTimesOut
      BY <2>10, AttemptInFlightInv
    <2>11. CASE CompleteSync
      BY <2>11, CompleteSyncInv
    <2>12. CASE NoteSlowProgress
      BY <2>12, NoteSlowProgressInv
    <2>13. CASE RecordSyncFault
      BY <2>13, RecordSyncFaultInv
    <2>14. CASE CloseDriver
      BY <2>14, CloseDriverInv
    <2> QED
      BY <2>1, <2>2, <2>3, <2>4, <2>5, <2>6, <2>7, <2>8, <2>9, <2>10, <2>11,
         <2>12, <2>13, <2>14 DEF Next, DriverStep
  <1> QED
    BY <1>1, <1>2 DEF DInv, Rest
-----------------------------------------------------------------------------
(* The driver's variables keep their types (DriverState, SyncObservation,  *)
(* the wallet's frontiers, the attempt in flight).                         *)
THEOREM DriverTypes == Spec => []TypeOK
  <1>1. DInv => TypeOK
    BY DInvMeaning
  <1> QED
    BY <1>1, DriverInit, DriverNext, PTL DEF Spec

(***************************************************************************)
(* The driver's control and the ladder's bookkeeping, and that a parked    *)
(* driver is seen parked, hold in every state of run_sync_driver.          *)
(***************************************************************************)
THEOREM DriverBookkeeping == Spec => []DriverInv
  <1>1. DInv => DriverInv
    BY DInvMeaning
  <1> QED
    BY <1>1, DriverInit, DriverNext, PTL DEF Spec

(***************************************************************************)
(* Observers of a parked driver keep seeing it parked: no arm of the       *)
(* select publishes another phase while parked is set.                     *)
(***************************************************************************)
THEOREM ParkIsVisible == Spec => []ParkStaysVisible
  <1>1. DInv => ParkStaysVisible
    BY DEF DInv
  <1> QED
    BY <1>1, DriverInit, DriverNext, PTL DEF Spec

(***************************************************************************)
(* The driver implements the ladder: every step of its loop, its wakeups   *)
(* and its attempts maps to one step of RepairLadder or to a stutter, so   *)
(* every theorem about LadderSpec is a theorem about the driver.           *)
(***************************************************************************)
THEOREM DriverImplementsLadder == Spec => UsesLadder
  <1>1. Init => LadderInit
    BY DEF Init
  <1> QED
    BY <1>1, DriverInit, DriverNext, DriverUsesLadderStep, PTL
    DEF Spec, UsesLadder, LadderSpec

(***************************************************************************)
(* What RepairLadderProofs shows of the ladder, for the driver that runs   *)
(* it: it parks only at a dead end and rebuilds the wallet last.           *)
(***************************************************************************)
THEOREM DriverParksAndRebuildsLast ==
  Spec => [](ParkIsDeadEnd /\ RebuildIsLastResort)
  BY DriverImplementsLadder, ParksOnlyAtADeadEnd, RebuildsLast, PTL DEF UsesLadder

(***************************************************************************)
(* A block is committed only while no recorded fault waits for its repair: *)
(* the only step that raises the frontier is a scan of an attempt, and an  *)
(* attempt is in flight only between repairs.                              *)
(***************************************************************************)
THEOREM DriverScansOnlyRepaired == Spec => ScansOnlyRepaired
  <1> DEFINE Step == frontier' > frontier => ~due
  <1>1. DInv /\ [Next]_vars => [Step]_vars
    <2> SUFFICES ASSUME DInv, Next, frontier' > frontier PROVE ~due
      OBVIOUS
    <2>1. frontier \in Nat
      BY DEF DInv, AttemptInv, AttemptTypeOK
    <2>2. frontier' # frontier /\ ~(frontier' <= frontier)
      <3>1. frontier' \in Nat
        BY DriverNext DEF DInv, AttemptInv, AttemptTypeOK
      <3> QED
        BY <2>1, <3>1
    <2>3. CASE RunAttempt
      BY <2>3 DEF RunAttempt, DInv, DriverControl
    <2>4. CASE RewindWallet \/ RebuildWallet
      BY <2>2, <2>4, RepairDoneInv
    <2>5. ASSUME NEW fault \in FaultKinds, RepairFails(fault) \/ RebuildFails(fault)
          PROVE  FALSE
      BY <2>2, <2>5, RepairFaultedInv
    <2>6. ~RepairImpossible
      BY <2>2, RepairFaultedInv
    <2>7. Environment => frontier' = frontier
      BY DEF Environment, ChainMoves, RequestClose, worldVars, walletVars
    <2>8. (Start \/ PollWhileParked \/ PollIdle \/ PollReopens \/ ChainEvent
             \/ StreamExpires \/ StreamErrs \/ StreamEnds) => frontier' = frontier
      BY DEF Start, PollWhileParked, PollIdle, PollReopens, ChainEvent,
             StreamExpires, StreamErrs, StreamEnds, Selecting, walletVars
    <2>9. (EnterParkRung \/ BeginRepair \/ ReadFrontier \/ AttemptTimesOut
             \/ CloseDriver) => frontier' = frontier
      BY DEF EnterParkRung, BeginRepair, ReadFrontier, AttemptTimesOut,
             CloseDriver, worldVars, walletVars
    <2>10. (CompleteSync \/ NoteSlowProgress \/ RecordSyncFault)
             => frontier' = frontier
      BY DEF CompleteSync, NoteSlowProgress, RecordSyncFault, AttemptReturned,
             walletVars
    <2>11. Closed => frontier' = frontier
      BY DEF Closed, vars, worldVars, walletVars
    <2> QED
      BY <2>2, <2>3, <2>4, <2>5, <2>6, <2>7, <2>8, <2>9, <2>10, <2>11
      DEF Next, DriverStep
  <1> QED
    BY <1>1, DriverInit, DriverNext, PTL DEF Spec, ScansOnlyRepaired

(***************************************************************************)
(* The driver reports itself caught up only against a tip that the same    *)
(* attempt recorded and with all of it scanned, however the chain moved    *)
(* while the attempt ran (complete_sync, should_continue_syncing).         *)
(***************************************************************************)
THEOREM CatchesUpAgainstFreshTip == Spec => CaughtUpAgainstFreshTip
  <1> DEFINE Step == (pc = "attempt" /\ pc' = "select" /\ ~shouldSync') =>
                        recordsTip /\ frontier >= epochTip
  <1>1. DInv /\ [Next]_vars => [Step]_vars
    <2> SUFFICES ASSUME DInv, Next, pc = "attempt", pc' = "select", ~shouldSync'
                 PROVE  recordsTip /\ frontier >= epochTip
      OBVIOUS
    <2>1. CASE CompleteSync
      <3>1. \A record \in {"Stale", "Current"} : ~NextIteration(record)
        BY IterationEnded DEF DInv
      <3>2. ~result.blocks /\ tipRecord # "Current"
        BY <2>1, <3>1 DEF CompleteSync
      <3>3. recordsTip
        BY <3>2 DEF DInv, DriverControl, DriverTypeOK
      <3>4. stage = "done" /\ result.kind = "Completed"
        BY <2>1 DEF CompleteSync, AttemptReturned
      <3> QED
        BY <3>2, <3>3, <3>4 DEF DInv, AttemptInv, DrainedToPinnedTip
    <2>2. CASE NoteSlowProgress \/ RecordSyncFault
      <3>1. PICK after \in FrontierReads : NextIteration(RecordAfterFault(after))
        BY <2>2 DEF NoteSlowProgress, RecordSyncFault
      <3>2. RecordAfterFault(after) \in {"Stale", "Current"}
        BY DEF RecordAfterFault, DInv, DriverTypeOK
      <3> QED
        BY <3>1, <3>2, IterationEnded DEF DInv
    <2>3. ~(Start \/ PollWhileParked \/ PollIdle \/ PollReopens \/ ChainEvent
              \/ StreamExpires \/ StreamErrs \/ StreamEnds)
      BY DEF Start, PollWhileParked, PollIdle, PollReopens, ChainEvent,
             StreamExpires, StreamErrs, StreamEnds, Selecting
    <2>4. ~(EnterParkRung \/ BeginRepair \/ ReadFrontier \/ CloseDriver
              \/ RewindWallet \/ RebuildWallet \/ RepairImpossible)
      BY DEF EnterParkRung, BeginRepair, ReadFrontier, CloseDriver, RewindWallet,
             RebuildWallet, RepairDone, RepairImpossible, RepairFaulted
    <2>5. \A fault : ~RepairFails(fault) /\ ~RebuildFails(fault)
      BY DEF RepairFails, RebuildFails, RepairFaulted
    <2>6. ~(RunAttempt \/ AttemptTimesOut \/ Environment \/ Closed)
      BY DEF RunAttempt, AttemptTimesOut, Environment, RequestClose, Closed,
             driverVars, loopVars
    <2> QED
      BY <2>1, <2>2, <2>3, <2>4, <2>5, <2>6 DEF Next, DriverStep
  <1> QED
    BY <1>1, DriverInit, DriverNext, PTL DEF Spec, CaughtUpAgainstFreshTip
-----------------------------------------------------------------------------
(* A driver that has gone quiet, while no wakeup spends its budget.        *)

BudgetLeft == iter < MaxSyncIterations

\* The attempt has planned against the pinned tip and may still complete.
Reporting ==
  \/ stage \in {"scan", "verify", "tail"}
  \/ stage = "done" /\ result.kind = "Completed"

(* Beside NoMissedBlocks: a driver that selects with should_sync set is    *)
(* parked, and a tip that moved since the pin has an event to show for it. *)
QuietInv ==
  /\ NoMissedBlocks
  /\ (pc = "select" /\ shouldSync) => Parked
  /\ Reporting => epochTip >= tip \/ undelivered > 0

(* With iterations left the wakeup goes on.                                *)
LEMMA WakeupGoesOn ==
  ASSUME BudgetLeft, NEW record, NextIteration(record)
  PROVE  pc' = "wake"
  BY DEF BudgetLeft, NextIteration

LEMMA AwakeIsQuiet ==
  ASSUME pc' # "select", ~Reporting'
  PROVE  QuietInv'
  BY DEF QuietInv, NoMissedBlocks

LEMMA IdleReportsNothing ==
  ASSUME DInv
  PROVE  /\ pc # "attempt" => ~Reporting
         /\ (UNCHANGED attemptVars \/ ForgetAttempt) /\ pc # "attempt" => ~Reporting'
         /\ ForgetAttempt => ~Reporting'
  BY DEF DInv, DriverControl, Reporting, attemptVars, ForgetAttempt

(* The select: whoever goes back to it without a wakeup had missed nothing *)
(* and takes no event off the stream, or is parked.                        *)
LEMMA SelectStaysQuiet ==
  ASSUME DInv, QuietInv,
         \/ Start \/ PollWhileParked \/ PollIdle \/ PollReopens \/ ChainEvent
         \/ StreamExpires \/ StreamErrs \/ StreamEnds
  PROVE  QuietInv'
  <1>1. /\ pc \in {"start", "select"} /\ ~Reporting'
        /\ UNCHANGED <<tip, frontier>>
    BY IdleReportsNothing
    DEF Start, PollWhileParked, PollIdle, PollReopens, ChainEvent, StreamExpires,
        StreamErrs, StreamEnds, Selecting, walletVars
  <1>2. ASSUME NEW sync \in BOOLEAN, EnterLoop(sync),
               \/ sync /\ ~Parked'
               \/ Parked'
               \/ ~sync /\ (frontier >= tip \/ undelivered' > 0)
        PROVE  QuietInv'
    BY <1>1, <1>2 DEF EnterLoop, QuietInv, NoMissedBlocks
  <1>3. pc = "select" /\ ~Parked => ~shouldSync /\ (frontier >= tip \/ undelivered > 0)
    BY DEF QuietInv, NoMissedBlocks, DInv, DriverTypeOK
  <1>4. shouldSync \in BOOLEAN /\ Parked \in BOOLEAN
    BY DEF DInv, DriverTypeOK, IInv, LadderTypeOK, RecoveryState, Parked
  <1>5. CASE Start
    BY <1>2, <1>5, LadderKept DEF Start, DInv, DriverControl
  <1>6. CASE PollWhileParked
    BY <1>2, <1>6, LadderKept DEF PollWhileParked, Rearmed, Parked
  <1>7. CASE PollIdle
    BY <1>2, <1>3, <1>7, LadderKept DEF PollIdle, Selecting
  <1>8. CASE PollReopens
    <2>1. PICK catchUp \in BOOLEAN : OpenStream(catchUp) /\ EnterLoop(catchUp)
      BY <1>8 DEF PollReopens
    <2>2. pc = "select" /\ ~Parked /\ ~Parked'
      BY <1>8, LadderKept DEF PollReopens, Selecting
    <2>3. ~catchUp => undelivered' = undelivered
      BY <2>1 DEF OpenStream, StreamOpens, StreamOpenFails
    <2> QED
      BY <1>2, <1>3, <2>1, <2>2, <2>3
  <1>9. CASE ChainEvent \/ StreamExpires
    <2>1. EnterLoop(~Parked) /\ Parked' = Parked
      BY <1>9, LadderKept DEF ChainEvent, StreamExpires
    <2> QED
      BY <1>2, <1>4, <2>1
  <1>10. CASE StreamErrs \/ StreamEnds
    <2>1. /\ EnterLoop(shouldSync) /\ Parked' = Parked
          /\ pc = "select" /\ undelivered' = undelivered
      BY <1>10, LadderKept DEF StreamErrs, StreamEnds, Selecting
    <2> QED
      BY <1>2, <1>3, <1>4, <2>1
  <1> QED
    BY <1>5, <1>6, <1>7, <1>8, <1>9, <1>10

(* The attempt pins the tip it plans against; a failed one reports nothing. *)
LEMMA AttemptStaysQuiet ==
  ASSUME DInv, QuietInv, RunAttempt \/ AttemptTimesOut
  PROVE  QuietInv'
  <1>1. /\ pc = "attempt" /\ pc' = "attempt"
        /\ UNCHANGED <<tip, undelivered>>
    BY DEF RunAttempt, AttemptTimesOut, driverVars, loopVars, chainVars
  <1>2. ~Reporting' \/ (Reporting /\ epochTip' = epochTip) \/ epochTip' = tip
    <2>1. \A kind : TryFails(kind) => ~Reporting'
      BY OutcomeFields DEF TryFails, StartTry, Return, Failed, Reporting
    <2>2. CASE \/ \E kind \in FaultKinds : AttemptFails(kind)
               \/ PinExpires \/ ReorgDetected \/ StorageNotOpened
      BY <2>1, <2>2 DEF AttemptFails, PinExpires, ReorgDetected, StorageNotOpened
    <2>3. CASE PinEpoch \/ ScanChunk \/ NothingToScan \/ VerifyRoots \/ FinishAttempt
      BY <2>3
      DEF PinEpoch, ScanChunk, NothingToScan, VerifyRoots, FinishAttempt, Return, Reporting
    <2>4. CASE AttemptTimesOut
      BY <2>4 DEF AttemptTimesOut, Return, Failed, Reporting
    <2> QED
      BY <2>2, <2>3, <2>4 DEF RunAttempt, AttemptStep
  <1>3. tip \in Nat
    BY DEF DInv, AttemptInv, AttemptTypeOK
  <1> QED
    BY <1>1, <1>2, <1>3 DEF QuietInv, NoMissedBlocks

(* Only a drained queue lets a wakeup end, and its tip was just recorded.  *)
LEMMA CompletedStaysQuiet ==
  ASSUME DInv, QuietInv, BudgetLeft, CompleteSync
  PROVE  QuietInv'
  <1>1. /\ ~Reporting' /\ UNCHANGED <<tip, frontier, undelivered>>
    BY IdleReportsNothing DEF CompleteSync, AttemptReturned, chainVars, walletVars
  <1>2. CASE result.blocks \/ tipRecord = "Current"
    <2>1. pc' = "wake"
      BY <1>2, WakeupGoesOn DEF CompleteSync
    <2> QED
      BY <1>1, <2>1, AwakeIsQuiet
  <1>3. CASE ~(result.blocks \/ tipRecord = "Current")
    <2>1. /\ stage = "done" /\ result.kind = "Completed" /\ pc = "attempt"
          /\ pc' = "select" /\ ~shouldSync'
      BY <1>3 DEF CompleteSync, AttemptReturned, EndWakeup
    <2>2. recordsTip
      BY <1>3, <2>1 DEF DInv, DriverControl, DriverTypeOK
    <2>3. frontier >= epochTip
      BY <1>3, <2>1, <2>2 DEF DInv, AttemptInv, DrainedToPinnedTip
    <2>4. epochTip >= tip \/ undelivered > 0
      BY <2>1 DEF QuietInv, Reporting
    <2>5. frontier \in Nat /\ tip \in Nat /\ epochTip \in Nat
      BY DEF DInv, AttemptInv, AttemptTypeOK
    <2>6. frontier >= tip \/ undelivered > 0
      BY <2>3, <2>4, <2>5
    <2> QED
      BY <1>1, <2>1, <2>6 DEF QuietInv, NoMissedBlocks
  <1> QED
    BY <1>2, <1>3

LEMMA QuietNext ==
  ASSUME DInv, QuietInv, BudgetLeft, [Next]_vars
  PROVE  QuietInv'
  <1>1. CASE Environment
    <2>1. CASE ChainMoves /\ UNCHANGED <<driverVars, ladderVars>>
      <3>1. undelivered \in Nat
        BY AttemptTypes DEF DInv, AttemptInv
      <3>2. undelivered' = undelivered + 1
        BY <2>1 DEF ChainMoves, AdvanceTip, Reorg, ChainChanges
      <3>3. undelivered' > 0
        BY <3>1, <3>2
      <3>4. pc' = pc /\ shouldSync' = shouldSync /\ Parked' = Parked
        BY <2>1, LadderKept DEF driverVars, loopVars
      <3> QED
        BY <3>3, <3>4 DEF QuietInv, NoMissedBlocks
    <2>2. CASE RequestClose
      BY <2>2, LadderKept
      DEF RequestClose, loopVars, worldVars, chainVars, walletVars, attemptVars, QuietInv,
          NoMissedBlocks, Reporting
    <2> QED
      BY <1>1, <2>1, <2>2 DEF Environment
  <1>2. CASE Start \/ PollWhileParked \/ PollIdle \/ PollReopens \/ ChainEvent
             \/ StreamExpires \/ StreamErrs \/ StreamEnds
    BY <1>2, SelectStaysQuiet
  <1>3. CASE RunAttempt \/ AttemptTimesOut
    BY <1>3, AttemptStaysQuiet
  <1>4. CASE CompleteSync
    BY <1>4, CompletedStaysQuiet
  <1>5. CASE NoteSlowProgress \/ RecordSyncFault
    <2>1. pc' = "wake" /\ ForgetAttempt
      BY <1>5, WakeupGoesOn DEF NoteSlowProgress, RecordSyncFault, AttemptReturned
    <2> QED
      BY <2>1, IdleReportsNothing, AwakeIsQuiet
  <1>6. CASE EnterParkRung
    <2>1. /\ pc = "wake" /\ UNCHANGED attemptVars /\ ParkEntered /\ recovery # NoRecovery
          /\ pc' = "select" /\ shouldSync'
      BY <1>6 DEF EnterParkRung, EndWakeup, worldVars, Active
    <2>2. recovery \in RecoveryState
      BY <2>1 DEF DInv, IInv, LadderTypeOK
    <2>3. recovery' \in RecoveryState /\ recovery'.parked
      BY <2>1, <2>2 DEF ParkEntered, RecoveryState
    <2>4. Parked' /\ ~Reporting'
      BY <2>1, <2>3, IdleReportsNothing, RecoveryFields DEF Parked
    <2> QED
      BY <2>1, <2>4 DEF QuietInv, NoMissedBlocks
  <1>7. CASE BeginRepair
    <2>1. pc = "wake" /\ pc' # "select" /\ UNCHANGED attemptVars
      BY <1>7 DEF BeginRepair, worldVars
    <2> QED
      BY <2>1, IdleReportsNothing, AwakeIsQuiet
  <1>8. CASE RewindWallet \/ RebuildWallet
    <2>1. pc = "repair" /\ pc' = "ready" /\ UNCHANGED attemptVars
      BY <1>8 DEF RewindWallet, RebuildWallet, RepairDone
    <2> QED
      BY <2>1, IdleReportsNothing, AwakeIsQuiet
  <1>9. ASSUME NEW fault, RepairFaulted(fault) PROVE QuietInv'
    <2>1. pc = "repair" /\ pc' = "wake" /\ UNCHANGED attemptVars
      BY <1>9, WakeupGoesOn DEF RepairFaulted
    <2> QED
      BY <2>1, IdleReportsNothing, AwakeIsQuiet
  <1>10. CASE ReadFrontier
    <2>1. pc' = "attempt" /\ stage' = "pin"
      BY <1>10 DEF ReadFrontier, BeginAttempt, StartTry
    <2> QED
      BY <2>1, AwakeIsQuiet DEF Reporting
  <1>11. CASE CloseDriver
    <2>1. pc' = "closed" /\ ForgetAttempt
      BY <1>11 DEF CloseDriver
    <2> QED
      BY <2>1, IdleReportsNothing, AwakeIsQuiet
  <1>12. CASE Closed \/ UNCHANGED vars
    BY <1>12, LadderKept
    DEF Closed, vars, driverVars, loopVars, worldVars, chainVars, walletVars, attemptVars,
        QuietInv, NoMissedBlocks, Reporting
  <1> QED
    BY <1>1, <1>2, <1>3, <1>4, <1>5, <1>6, <1>7, <1>8, <1>9, <1>10, <1>11, <1>12
    DEF Next, DriverStep, RepairFails, RebuildFails, RepairImpossible

(***************************************************************************)
(* A driver that has gone quiet misses nothing, whatever faults, reorgs,   *)
(* expired cursors and failed rebuilds it meets: as long as no wakeup      *)
(* comes to its last iteration, after which the select forgets that it     *)
(* has to sync (run_sync_driver, handle_poll_tick).                        *)
(***************************************************************************)
THEOREM QuietMissesNothing == Spec /\ []BudgetLeft => []NoMissedBlocks
  <1>1. Init => QuietInv
    BY DEF Init, AttemptInit, QuietInv, NoMissedBlocks, Reporting
  <1>2. DInv /\ QuietInv /\ BudgetLeft /\ [Next]_vars => QuietInv'
    BY QuietNext
  <1>3. QuietInv => NoMissedBlocks
    BY DEF QuietInv
  <1> QED
    BY <1>1, <1>2, <1>3, DriverInit, DriverNext, PTL DEF Spec
-----------------------------------------------------------------------------
(* Faults of the environment alone: retries and parks, never a repair.     *)

EnvironmentFaults == FaultKinds \subseteq {"Transient", "DeadEnd"} /\ ~ReorgsHappen

(* Nothing diverges, so the ladder stays off its two database rungs.       *)
UntouchedInv ==
  /\ dbOpen
  /\ orphanedFrom = NoOrphan
  /\ pc # "repair"
  /\ recovery # NoRecovery => recovery.rung \in {Retry, Park}
  /\ (stage = "done" /\ result.kind = "Faulted") => result.fault \in {"Transient", "DeadEnd"}

(* From Retry an environment fault leads to Retry or Park: Retry is never  *)
(* exhausted, and Park escalates to itself.                                *)
LEMMA EnvironmentFaultRung ==
  ASSUME IInv, NEW c \in {Retry, Park}, NEW h \in ReportedHeights, FaultRecorded(c, h),
         recovery # NoRecovery => recovery.rung \in {Retry, Park}
  PROVE  recovery' # NoRecovery => recovery'.rung \in {Retry, Park}
  <1> DEFINE base == IF recovery = NoRecovery THEN Entering(c) ELSE recovery
             n == FoldFault(Woken(base, h), c)
  <1>1. base \in RecoveryState /\ base.rung \in {Retry, Park}
    BY EnteringType DEF IInv, LadderTypeOK, Entering, FaultClasses
  <1>2. c \in FaultClasses
    BY DEF FaultClasses
  <1>3. n.rung \in {Retry, Park}
    <2>1. CASE c > base.rung
      BY <1>1, <1>2, <2>1, FoldedFields
    <2>2. CASE ~(c > base.rung) /\ ~Exhausted(base)
      BY <1>1, <1>2, <2>2, FoldedFields
    <2>3. CASE ~(c > base.rung) /\ Exhausted(base)
      <3>1. base.rung = Park
        BY <1>1, <2>3 DEF Exhausted
      <3> QED
        BY <1>1, <1>2, <2>3, <3>1, FoldedFields
    <2> QED
      BY <2>1, <2>2, <2>3
  <1>4. recovery' = n
    BY DEF FaultRecorded, Faulted
  <1> QED
    BY <1>3, <1>4

LEMMA UntouchedAttempt ==
  ASSUME EnvironmentFaults, DInv, UntouchedInv, RunAttempt \/ AttemptTimesOut
  PROVE  UntouchedInv' /\ frontier' >= frontier
  <1>1. /\ pc' = pc /\ recovery' = recovery /\ orphanedFrom' = orphanedFrom
    BY DEF RunAttempt, AttemptTimesOut, driverVars, loopVars, chainVars, ladderVars
  <1>2. frontier \in Nat /\ orphanedFrom = MaxHeight + 1 /\ frontier <= MaxHeight
        /\ MaxHeight \in Nat
    BY AttemptAssumption DEF DInv, AttemptInv, AttemptTypeOK, UntouchedInv, NoOrphan
  <1>3. ASSUME NEW kind \in {"Transient", "DeadEnd"}, TryFails(kind)
        PROVE  UntouchedInv' /\ frontier' >= frontier
    BY <1>1, <1>2, <1>3
    DEF TryFails, StartTry, Return, Failed, UntouchedInv, walletVars, NoOrphan
  <1>4. CASE \E kind \in FaultKinds : AttemptFails(kind)
    BY <1>3, <1>4 DEF AttemptFails, EnvironmentFaults
  <1>5. CASE PinExpires
    BY <1>3, <1>5 DEF PinExpires
  <1>6. ~ReorgDetected /\ ~StorageNotOpened
    BY <1>2 DEF ReorgDetected, StorageNotOpened, UntouchedInv
  <1>7. CASE PinEpoch \/ NothingToScan \/ VerifyRoots
    <2>1. frontier' = frontier /\ dbOpen' = dbOpen /\ stage' # "done"
      BY <1>7 DEF PinEpoch, NothingToScan, VerifyRoots, walletVars
    <2> QED
      BY <1>1, <1>2, <2>1 DEF UntouchedInv, NoOrphan
  <1>8. CASE FinishAttempt
    BY <1>1, <1>2, <1>8
    DEF FinishAttempt, Return, Completed, UntouchedInv, walletVars, NoOrphan
  <1>9. CASE ScanChunk
    <2>1. PICK end \in (frontier + 1)..Lower(frontier + ChunkBlocks, PlannedEnd) :
            frontier' = end
      BY <1>9 DEF ScanChunk
    <2>2. frontier' >= frontier
      BY <1>2, <2>1
    <2> QED
      BY <1>1, <1>9, <2>2 DEF ScanChunk, UntouchedInv, NoOrphan
  <1>10. CASE AttemptTimesOut
    BY <1>1, <1>2, <1>10
    DEF AttemptTimesOut, Return, Failed, UntouchedInv, walletVars, NoOrphan
  <1> QED
    BY <1>4, <1>5, <1>6, <1>7, <1>8, <1>9, <1>10 DEF RunAttempt, AttemptStep

LEMMA UntouchedNext ==
  ASSUME EnvironmentFaults, DInv, UntouchedInv, [Next]_vars
  PROVE  UntouchedInv' /\ frontier' >= frontier
  <1>0. frontier \in Nat
    BY AttemptTypes DEF DInv, AttemptInv
  <1>1. ASSUME UNCHANGED <<walletVars, orphanedFrom>>, pc' # "repair",
               \/ recovery' = recovery
               \/ recovery' = NoRecovery
               \/ recovery' # NoRecovery => recovery'.rung \in {Retry, Park},
               stage' # "done" \/ UNCHANGED <<stage, result>>
        PROVE  UntouchedInv' /\ frontier' >= frontier
    BY <1>0, <1>1 DEF UntouchedInv, walletVars, NoOrphan
  <1>2. CASE Environment
    <2>1. CASE ChainMoves /\ UNCHANGED <<driverVars, ladderVars>>
      <3>1. AdvanceTip
        BY <2>1 DEF ChainMoves, Reorg, EnvironmentFaults
      <3> QED
        BY <1>1, <2>1, <3>1
        DEF ChainMoves, AdvanceTip, driverVars, loopVars, ladderVars, UntouchedInv
    <2>2. CASE RequestClose
      BY <1>1, <2>2
      DEF RequestClose, loopVars, ladderVars, worldVars, chainVars, attemptVars, UntouchedInv
    <2> QED
      BY <1>2, <2>1, <2>2 DEF Environment
  <1>3. CASE Start \/ PollWhileParked \/ PollIdle \/ PollReopens \/ ChainEvent
             \/ StreamExpires \/ StreamErrs \/ StreamEnds
    <2>1. /\ UNCHANGED <<walletVars, attemptVars, orphanedFrom>>
          /\ recovery' = recovery \/ recovery' = NoRecovery
          /\ \E sync : EnterLoop(sync)
      BY <1>3
      DEF Start, PollWhileParked, PollIdle, PollReopens, ChainEvent, StreamExpires,
          StreamErrs, StreamEnds, Selecting, ladderVars, Rearmed
    <2>2. pc' # "repair"
      BY <2>1 DEF EnterLoop
    <2> QED
      BY <1>1, <2>1, <2>2 DEF attemptVars
  <1>4. CASE RunAttempt \/ AttemptTimesOut
    BY <1>4, UntouchedAttempt
  <1>5. CASE CompleteSync \/ NoteSlowProgress
    <2>1. /\ UNCHANGED walletVars /\ orphanedFrom' = orphanedFrom /\ stage' = "idle"
          /\ pc' # "repair"
          /\ \E h : Settled(h)
      BY <1>5
      DEF CompleteSync, NoteSlowProgress, AttemptReturned, ForgetAttempt, chainVars,
          NextIteration, EndWakeup
    <2>2. recovery \in RecoveryState \cup {NoRecovery}
      BY DEF DInv, IInv, LadderTypeOK
    <2>3. recovery' = NoRecovery \/ (recovery # NoRecovery /\ recovery'.rung = recovery.rung)
      BY <2>1, <2>2 DEF Settled, Survives, RecoveryState
    <2> QED
      BY <1>1, <2>1, <2>3 DEF UntouchedInv
  <1>6. CASE RecordSyncFault
    <2>1. PICK after \in FrontierReads : /\ RecordAndPublish(result.fault, HeightOf(after))
                                         /\ NextIteration(RecordAfterFault(after))
      BY <1>6 DEF RecordSyncFault
    <2>2. result.fault \in {"Transient", "DeadEnd"}
      BY <1>6 DEF RecordSyncFault, AttemptReturned, UntouchedInv
    <2>3. RepairFor(result.fault) \in {Retry, Park}
      BY <2>2 DEF RepairFor
    <2>4. HeightOf(after) \in ReportedHeights
      BY FrontierReadsTyped, HeightsReported DEF DInv, AttemptInv
    <2>5. recovery' # NoRecovery => recovery'.rung \in {Retry, Park}
      BY <2>1, <2>3, <2>4, EnvironmentFaultRung DEF RecordAndPublish, DInv, UntouchedInv
    <2>6. /\ UNCHANGED walletVars /\ orphanedFrom' = orphanedFrom /\ stage' = "idle"
          /\ pc' # "repair"
      BY <1>6, <2>1
      DEF RecordSyncFault, AttemptReturned, ForgetAttempt, chainVars, NextIteration, EndWakeup
    <2> QED
      BY <1>1, <2>5, <2>6
  <1>7. CASE BeginRepair
    <2>1. recovery # NoRecovery /\ recovery.rung = Retry /\ RepairStarted
      BY <1>7 DEF BeginRepair, Active, UntouchedInv
    <2>2. recovery'.rung = Retry
      BY <2>1 DEF RepairStarted, DInv, IInv, LadderTypeOK, RecoveryState
    <2> QED
      BY <1>1, <1>7, <2>1, <2>2 DEF BeginRepair, worldVars, chainVars, attemptVars
  <1>8. CASE EnterParkRung
    <2>1. recovery # NoRecovery /\ recovery.rung = Park /\ ParkEntered
      BY <1>8 DEF EnterParkRung, Active
    <2>2. recovery'.rung = Park
      BY <2>1 DEF ParkEntered, DInv, IInv, LadderTypeOK, RecoveryState
    <2> QED
      BY <1>1, <1>8, <2>1, <2>2 DEF EnterParkRung, EndWakeup, worldVars, chainVars, attemptVars
  <1>9. CASE ReadFrontier
    BY <1>1, <1>9
    DEF ReadFrontier, BeginAttempt, StartTry, ladderVars, chainVars
  <1>10. CASE CloseDriver
    BY <1>1, <1>10 DEF CloseDriver, ForgetAttempt, ladderVars, chainVars
  <1>11. CASE Closed \/ UNCHANGED vars
    BY <1>1, <1>11
    DEF Closed, vars, driverVars, loopVars, ladderVars, worldVars, chainVars, attemptVars,
        UntouchedInv
  <1>12. /\ ~RewindWallet /\ ~RebuildWallet /\ ~RepairImpossible
         /\ \A fault : ~RepairFails(fault) /\ ~RebuildFails(fault)
    BY DEF RewindWallet, RebuildWallet, RepairDone, RepairImpossible, RepairFails,
           RebuildFails, RepairFaulted, UntouchedInv
  <1> QED
    BY <1>2, <1>3, <1>4, <1>5, <1>6, <1>7, <1>8, <1>9, <1>10, <1>11, <1>12
    DEF Next, DriverStep

(***************************************************************************)
(* Whatever a source that does not reorganize does, unavailable, expiring  *)
(* its pins or asking for the operator, no scanned block is given up: such *)
(* faults are retried or parked on, and Retry never escalates (repair_for, *)
(* escalation_threshold).                                                  *)
(***************************************************************************)
THEOREM EnvironmentCostsNoBlocks ==
  ASSUME EnvironmentFaults
  PROVE  Spec => NeverLosesBlocks
  <1>1. Init => UntouchedInv
    BY DEF Init, AttemptInit, LadderInit, UntouchedInv
  <1>2. DInv /\ UntouchedInv /\ [Next]_vars => UntouchedInv' /\ [frontier' >= frontier]_vars
    BY UntouchedNext
  <1> QED
    BY <1>1, <1>2, DriverInit, DriverNext, PTL DEF Spec, NeverLosesBlocks
-----------------------------------------------------------------------------
(* Observations: what the blocks behind them have been compared with.      *)

\* The frontier the driver read before the attempt is still the frontier.
UnmovedSince == frontierBefore \in {Unknown, frontier}

\* What the attempt committed so far is compared, or known to be unchecked.
Accounted == UnmovedSince \/ checkedTo = frontier \/ unchecked

(* What an attempt has compared with the chain, stage by stage.            *)
ComparedInv ==
  /\ checkedTo <= frontier
  /\ stage \in {"pin", "scan"} => Accounted /\ ~scanned
  /\ stage = "verify" => scanned /\ chunkEnd = frontier
  /\ stage = "tail" => IF scanned THEN chunkEnd = frontier /\ checkedTo = frontier
                                  ELSE Accounted /\ chunkEnd = epochTip
  /\ (stage = "done" /\ result.kind = "Completed") =>
        result.scannedTo = IF result.blocks THEN checkedTo ELSE epochTip
  /\ (stage = "done" /\ result.kind = "Faulted" /\ result.checked) => Accounted

LEMMA ComparedTypes ==
  ASSUME DInv
  PROVE  /\ frontier \in Nat /\ checkedTo \in Nat /\ chunkEnd \in Nat /\ tip \in Nat
         /\ epochTip \in Nat /\ queuedTo \in Nat /\ observation \in Nat
         /\ scanned \in BOOLEAN /\ ChunkBlocks \in Nat
  BY AttemptAssumption DEF DInv, AttemptInv, AttemptTypeOK, DriverTypeOK

(* A try that fails leaves its attempt accounted for: a chunk it did not   *)
(* compare is reported as such or remembered as unchecked.                 *)
LEMMA FailedTry ==
  ASSUME DInv, ComparedInv, NEW kind \in Faults, TryFails(kind),
         stage \in {"pin", "scan", "verify", "tail"}, frontierBefore' = frontierBefore
  PROVE  ComparedInv'
  <1>1. UNCHANGED <<frontier, checkedTo>>
    BY DEF TryFails, walletVars
  <1>2. stage \in {"pin", "scan", "tail"} => Accounted
    BY ComparedTypes DEF ComparedInv, Accounted
  <1>3. CASE StartTry /\ unchecked' = (unchecked \/ stage = "verify")
    <2>1. stage' = "pin" /\ ~scanned'
      BY <1>3 DEF StartTry
    <2>2. Accounted'
      BY <1>1, <1>2, <1>3 DEF Accounted, UnmovedSince
    <2> QED
      BY <1>1, <2>1, <2>2 DEF ComparedInv
  <1>4. CASE Return(Failed(kind, stage # "verify"))
    <2>1. /\ stage' = "done" /\ result' = Failed(kind, stage # "verify")
          /\ unchecked' = unchecked
      BY <1>4 DEF Return
    <2>2. stage # "verify" => Accounted'
      BY <1>1, <1>2, <2>1 DEF Accounted, UnmovedSince
    <2> QED
      BY <1>1, <2>1, <2>2 DEF ComparedInv, Failed
  <1> QED
    BY <1>3, <1>4 DEF TryFails

LEMMA ComparedAttempt ==
  ASSUME DInv, ComparedInv, RunAttempt \/ AttemptTimesOut
  PROVE  ComparedInv'
  <1>1. /\ pc = "attempt" /\ frontierBefore' = frontierBefore
        /\ tip' = tip /\ observation' = observation
    BY DEF RunAttempt, AttemptTimesOut, driverVars, loopVars, statusVars, chainVars
  <1>2. CASE \E kind \in FaultKinds : AttemptFails(kind)
    BY <1>1, <1>2, FailedTry, AttemptAssumption DEF AttemptFails
  <1>3. CASE PinExpires \/ ReorgDetected \/ StorageNotOpened
    <2>1. stage \in {"scan", "verify"} /\ \E kind \in Faults : TryFails(kind)
      BY <1>3 DEF PinExpires, ReorgDetected, StorageNotOpened, Faults
    <2> QED
      BY <1>1, <2>1, FailedTry
  <1>4. CASE PinEpoch
    BY <1>1, <1>4 DEF PinEpoch, ComparedInv, Accounted, UnmovedSince
  <1>5. CASE ScanChunk
    <2>1. PICK end \in (frontier + 1)..Lower(frontier + ChunkBlocks, PlannedEnd) :
            frontier' = end /\ chunkEnd' = end
      BY <1>5 DEF ScanChunk
    <2>2. checkedTo' <= frontier'
      BY <1>5, <2>1, ComparedTypes DEF ScanChunk, ComparedInv
    <2> QED
      BY <1>5, <2>1, <2>2 DEF ScanChunk, ComparedInv
  <1>6. CASE NothingToScan
    BY <1>1, <1>6 DEF NothingToScan, ComparedInv, Accounted, UnmovedSince, walletVars
  <1>7. CASE VerifyRoots
    <2>1. /\ checkedTo' = frontier' /\ chunkEnd' = frontier' /\ scanned' /\ stage' = "tail"
          /\ frontier' = frontier
      BY <1>7 DEF VerifyRoots, ComparedInv
    <2> QED
      BY <2>1, ComparedTypes DEF ComparedInv
  <1>8. CASE FinishAttempt
    <2>1. /\ stage = "tail" /\ stage' = "done" /\ result' = Completed(chunkEnd, scanned)
          /\ UNCHANGED <<frontier, checkedTo, epochTip>>
      BY <1>8 DEF FinishAttempt, Return, walletVars
    <2> QED
      BY <2>1 DEF Completed, ComparedInv
  <1>9. CASE AttemptTimesOut
    <2>1. /\ stage # "idle" /\ stage' = "done" /\ result' = Failed("Transient", FALSE)
          /\ UNCHANGED <<frontier, checkedTo>>
      BY <1>9 DEF AttemptTimesOut, Return, walletVars
    <2> QED
      BY <2>1 DEF Failed, ComparedInv
  <1> QED
    BY <1>2, <1>3, <1>4, <1>5, <1>6, <1>7, <1>8, <1>9 DEF RunAttempt, AttemptStep

(* A repair lowers the three heights of the wallet together.               *)
LEMMA TruncatedTogether ==
  ASSUME NEW h \in Nat, frontier \in Nat, checkedTo \in Nat, checkedTo <= frontier,
         TruncateTo(h)
  PROVE  checkedTo' <= frontier' /\ frontier' <= frontier
  BY DEF TruncateTo, Lower

(* Outside an attempt nothing is scanned.                                  *)
LEMMA IdleSteps ==
  ASSUME DInv, Next, ~RunAttempt, ~AttemptTimesOut
  PROVE  /\ \/ UNCHANGED <<frontier, checkedTo>>
            \/ pc = "repair" /\ stage' = "idle" /\ \E h \in Nat : TruncateTo(h)
         /\ \/ stage' = "idle"
            \/ ReadFrontier
            \/ UNCHANGED <<stage, scanned, chunkEnd, epochTip, result, unchecked, frontierBefore>>
               /\ (Environment \/ Closed)
         /\ \/ UNCHANGED observation
            \/ CompleteSync \/ NoteSlowProgress
  <1>1. pc # "attempt" => stage = "idle"
    BY DEF DInv, DriverControl
  <1>2. CASE Environment
    BY <1>2
    DEF Environment, ChainMoves, RequestClose, walletVars, attemptVars, driverVars, loopVars,
        statusVars, worldVars
  <1>3. CASE Start \/ PollWhileParked \/ PollIdle \/ PollReopens \/ ChainEvent
             \/ StreamExpires \/ StreamErrs \/ StreamEnds
    <2>1. pc # "attempt" /\ UNCHANGED <<walletVars, attemptVars>>
      BY <1>3
      DEF Start, PollWhileParked, PollIdle, PollReopens, ChainEvent, StreamExpires,
          StreamErrs, StreamEnds, Selecting
    <2>2. observation' = observation
      BY <1>3
      DEF Start, PollWhileParked, PollIdle, PollReopens, ChainEvent, StreamExpires,
          StreamErrs, StreamEnds, OpenStream, StreamOpens, CursorExpired, StreamOpenFails,
          StreamFaultRecorded, statusVars
    <2> QED
      BY <1>1, <2>1, <2>2 DEF walletVars, attemptVars
  <1>4. CASE EnterParkRung \/ BeginRepair
    BY <1>1, <1>4 DEF EnterParkRung, BeginRepair, worldVars, walletVars, attemptVars
  <1>5. CASE RewindWallet \/ RebuildWallet
    <2>1. /\ pc = "repair" /\ UNCHANGED <<attemptVars, observation>>
          /\ \/ UNCHANGED walletVars
             \/ TruncateTo(0)
             \/ RewindWallet /\ TruncateTo(RewindTarget)
      BY <1>5 DEF RewindWallet, RebuildWallet, RepairDone, Recreate, statusVars
    <2>2. RewindWallet => RewindTarget \in Nat
      <3>1. recovery # NoRecovery
        BY <2>1 DEF DInv, DriverControl
      <3> QED
        BY <3>1, RewindTargetTyped, AttemptAssumption
    <2> QED
      BY <1>1, <1>5, <2>1, <2>2 DEF walletVars, attemptVars
  <1>6. ASSUME NEW fault, RepairFails(fault) \/ RebuildFails(fault) \/ RepairImpossible
        PROVE  /\ pc = "repair" /\ stage' = "idle" /\ observation' = observation
               /\ UNCHANGED <<frontier, checkedTo>> \/ TruncateTo(0)
    <2>1. pc = "repair" /\ UNCHANGED <<attemptVars, observation>>
      BY <1>6
      DEF RepairFails, RebuildFails, RepairImpossible, RepairFaulted, RecordAndPublish
    <2> QED
      BY <1>1, <1>6, <2>1
      DEF RepairFails, RebuildFails, RepairImpossible, Recreate, walletVars, attemptVars
  <1>7. CASE ReadFrontier
    BY <1>7 DEF ReadFrontier, walletVars
  <1>8. CASE CompleteSync \/ NoteSlowProgress \/ RecordSyncFault
    BY <1>8
    DEF CompleteSync, NoteSlowProgress, RecordSyncFault, RecordAndPublish, AttemptReturned,
        ForgetAttempt, walletVars
  <1>9. CASE CloseDriver
    BY <1>9 DEF CloseDriver, ForgetAttempt, walletVars
  <1>10. CASE Closed
    BY <1>10
    DEF Closed, vars, driverVars, loopVars, statusVars, worldVars, walletVars, attemptVars
  <1> QED
    BY <1>2, <1>3, <1>4, <1>5, <1>6, <1>7, <1>8, <1>9, <1>10 DEF Next, DriverStep

LEMMA ComparedNext ==
  ASSUME DInv, ComparedInv, [Next]_vars
  PROVE  ComparedInv'
  <1>1. CASE RunAttempt \/ AttemptTimesOut
    BY <1>1, ComparedAttempt
  <1>2. CASE Next /\ ~RunAttempt /\ ~AttemptTimesOut
    <2>1. checkedTo' <= frontier'
      BY <1>2, IdleSteps, TruncatedTogether, ComparedTypes DEF ComparedInv
    <2>2. CASE stage' = "idle"
      BY <2>1, <2>2 DEF ComparedInv
    <2>3. CASE ReadFrontier
      <3>1. /\ stage' = "pin" /\ ~scanned' /\ frontier' = frontier
            /\ frontierBefore' \in FrontierReads
        BY <2>3 DEF ReadFrontier, BeginAttempt, StartTry, walletVars
      <3> QED
        BY <2>1, <3>1 DEF ComparedInv, Accounted, UnmovedSince, FrontierReads
    <2>4. CASE UNCHANGED <<stage, scanned, chunkEnd, epochTip, result, unchecked, frontierBefore>>
               /\ (Environment \/ Closed)
      <3>1. UNCHANGED <<frontier, checkedTo>>
        BY <2>4
        DEF Environment, ChainMoves, RequestClose, Closed, vars, worldVars, walletVars
      <3> QED
        BY <2>4, <3>1 DEF ComparedInv, Accounted, UnmovedSince
    <2> QED
      BY <1>2, <2>2, <2>3, <2>4, IdleSteps
  <1>3. CASE UNCHANGED vars
    BY <1>3
    DEF vars, driverVars, loopVars, worldVars, walletVars, attemptVars, ComparedInv,
        Accounted, UnmovedSince
  <1> QED
    BY <1>1, <1>2, <1>3

(* A completed run raises an observation only to the chunk it compared: a  *)
(* run without blocks never raises one.                                    *)
LEMMA CompletedRunCompared ==
  ASSUME DInv, ComparedInv, CompleteSync
  PROVE  observation' <= observation \/ observation' = checkedTo
  <1>1. /\ stage = "done" /\ result.kind = "Completed"
        /\ observation' = ObservedRun(result.scannedTo, result.blocks)
    BY DEF CompleteSync, AttemptReturned
  <1>2. result \in Outcomes
    BY <1>1 DEF DInv, AttemptInv, AttemptTypeOK
  <1>3. result.scannedTo = IF result.blocks THEN checkedTo ELSE epochTip
    BY <1>1 DEF ComparedInv
  <1> QED
    BY <1>1, <1>3, ComparedTypes DEF ObservedRun

(* An attempt that failed after it advanced raises it to the frontier.     *)
LEMMA SlowProgressCompared ==
  ASSUME DInv, ComparedInv, NoteSlowProgress
  PROVE  \/ observation' \in {observation, checkedTo}
         \/ unchecked /\ result.kind = "Faulted"
  <1>1. PICK after \in FrontierReads :
          /\ SlowProgress(after)
          /\ observation' = ObservedChunk(result.checked, after)
          /\ stage = "done" /\ result.kind = "Faulted"
    BY DEF NoteSlowProgress, AttemptReturned
  <1>2. CASE result.checked
    <2>1. Accounted
      BY <1>1, <1>2 DEF ComparedInv
    <2>2. after = frontier /\ ~UnmovedSince
      BY <1>1, ComparedTypes, FrontierReadsTyped
      DEF SlowProgress, Advanced, UnmovedSince, FrontierReads, DInv, AttemptInv
    <2> QED
      BY <1>1, <2>1, <2>2 DEF Accounted, ObservedChunk
  <1>3. CASE ~result.checked
    BY <1>1, <1>3 DEF ObservedChunk
  <1> QED
    BY <1>2, <1>3

(***************************************************************************)
(* An observation rises only to blocks whose roots were compared with the  *)
(* chain, whatever faults, reorgs, inner retries, repairs and failing      *)
(* rebuilds the driver meets; the one exception is a chunk an earlier try  *)
(* left unchecked when its attempt ends in an error (observe_completed_run,*)
(* observe_committed_chunk, committed_chunk_for).                          *)
(***************************************************************************)
THEOREM RisingObservations == Spec => ObservationsCompared
  <1> DEFINE Compared == observation' <= checkedTo \/ (unchecked /\ result.kind = "Faulted")
             Step == observation' > observation => Compared
  <1>1. Init => ComparedInv
    BY AttemptAssumption DEF Init, AttemptInit, ComparedInv
  <1>2. DInv /\ ComparedInv /\ [Next]_vars => ComparedInv'
    BY ComparedNext
  <1>3. DInv /\ DInv' /\ ComparedInv /\ [Next]_vars => [Step]_vars
    <2> SUFFICES ASSUME DInv, DInv', ComparedInv, Next, observation' > observation
                 PROVE  Compared
      OBVIOUS
    <2>1. observation \in Nat /\ observation' \in Nat /\ checkedTo \in Nat
      BY ComparedTypes DEF DInv, DriverTypeOK
    <2>2. CASE CompleteSync
      BY <2>1, <2>2, CompletedRunCompared
    <2>3. CASE NoteSlowProgress
      BY <2>1, <2>3, SlowProgressCompared
    <2>4. CASE UNCHANGED observation
      BY <2>1, <2>4
    <2>5. RunAttempt \/ AttemptTimesOut => UNCHANGED observation
      BY DEF RunAttempt, AttemptTimesOut, driverVars, statusVars
    <2> QED
      BY <2>2, <2>3, <2>4, <2>5, IdleSteps
  <1> QED
    BY <1>1, <1>2, <1>3, DriverInit, DriverNext, PTL DEF Spec, ObservationsCompared
=============================================================================
