------------------------------ MODULE SyncDriver ------------------------------
(***************************************************************************)
(* The long-lived sync driver (zally-wallet/src/sync.rs): run_sync_driver  *)
(* around run_sync_wakeup, with its repair ladder (RepairLadder), the scan *)
(* attempts it runs and the chain source that changes meanwhile            *)
(* (ScanAttempt), the chain-event stream, polling, parking and closing.    *)
(*                                                                         *)
(* Steps are cut where the code awaits something that can fail, be         *)
(* cancelled or see the world move.  Time is abstract: a backoff or a      *)
(* deadline may elapse at any step.                                        *)
(***************************************************************************)
EXTENDS RepairLadder, ScanAttempt

CONSTANTS
  RewindLadderBlocks,  \* REWIND_LADDER_BLOCKS: blocks rewound at each depth
  MaxSyncIterations,   \* max_sync_iterations_per_wake_count
  RebuildCanFail,      \* recreate_with_account may fail once it deleted the files
  CloseAllowed,        \* the host may call SyncHandle::close
  Unknown              \* ScanFrontier::Unknown: the status read failed

ASSUME DriverAssumption ==
  /\ Heights = 1..MaxHeight
  /\ RewindLadderBlocks \in [DepthIndexes -> Nat \ {0}]
  /\ MaxSyncIterations \in Nat \ {0}
  /\ RebuildCanFail \in BOOLEAN
  /\ CloseAllowed \in BOOLEAN
  /\ Unknown \notin Nat

VARIABLES
  pc,              \* where the driver task is
  iter,            \* iterations of this wakeup
  tipRecord,       \* ChainTipRecord of this wakeup
  frontierBefore,  \* ScanFrontier read before the attempt
  shouldSync,      \* the should_sync local of run_sync_driver
  closeRequested,  \* the host called close
  observation,     \* last_observation.scanned_to_height, 0 for None
  lastFault,       \* which fault last_fault holds
  phase,           \* phase of the last published snapshot
  stream,          \* chain_events: "open" or "down"
  cursor,          \* chain_events_start
  streamFaulted    \* stream_consecutive_faults > 0

loopVars    == <<pc, iter, tipRecord, frontierBefore, shouldSync>>
statusVars  == <<observation, lastFault, phase>>
streamVars  == <<stream, cursor, streamFaulted>>
driverVars  == <<loopVars, statusVars, streamVars, closeRequested>>
worldVars   == <<chainVars, walletVars, attemptVars>>
vars        == <<driverVars, worldVars, ladderVars, faults>>

-----------------------------------------------------------------------------
Parked == recovery # NoRecovery /\ recovery.parked

\* Mutant: the posture alone decides, so a retryable divergence is retried.
RepairForPosture(fault) ==
  CASE AllowsRetry(fault) -> Retry
    [] fault = "DeadEnd" -> Park
    [] OTHER -> Rewind

(* repair_for, on the postures of ScanAttempt.                              *)
RepairFor(fault) ==
  CASE fault = "Transient" -> Retry
    [] fault = "DeadEnd" -> Park
    [] OTHER -> Rewind

\* A status read may fail on its own; without a database it always does.
FrontierReads == {Unknown} \cup (IF dbOpen THEN {frontier} ELSE {})

Advanced(before, after) ==
  before # Unknown /\ after # Unknown /\ before < after

\* ScanFrontier::height: neither an unread nor an empty frontier has one.
HeightOf(read) == IF read = Unknown THEN 0 ELSE read

\* observe_completed_run
ObservedRun(scannedTo, blocks) ==
  IF blocks \/ (observation # 0 /\ observation >= scannedTo)
    THEN scannedTo ELSE observation

\* Mutant: a chunk whose comparison failed counts as well.
ObservedAnyChunk(checked, after) ==
  IF HeightOf(after) # 0 THEN after ELSE observation

\* observe_committed_chunk
ObservedChunk(checked, after) ==
  IF checked /\ HeightOf(after) # 0 THEN after ELSE observation

-----------------------------------------------------------------------------
(* Control flow.                                                            *)
\* Top of run_sync_driver's loop, with should_sync as the last arm left it.
EnterLoop(sync) ==
  /\ shouldSync' = sync
  /\ frontierBefore' = Unknown
  /\ tipRecord' = "Stale"
  /\ IF sync /\ ~Parked'
       THEN pc' = "wake" /\ iter' = 1
       ELSE pc' = "select" /\ iter' = 0

\* run_sync_wakeup returned: the loop goes on to its select.
EndWakeup(sync) ==
  /\ shouldSync' = sync
  /\ frontierBefore' = Unknown
  /\ tipRecord' = "Stale"
  /\ pc' = "select"
  /\ iter' = 0

\* Mutant: one iteration too many.
NextIterationLate(record) ==
  IF iter <= MaxSyncIterations
    THEN /\ pc' = "wake"
         /\ iter' = iter + 1
         /\ tipRecord' = record
         /\ frontierBefore' = Unknown
         /\ UNCHANGED shouldSync
    ELSE EndWakeup(TRUE)

\* One iteration is over; a spent budget ends the wakeup Pending.
NextIteration(record) ==
  IF iter < MaxSyncIterations
    THEN /\ pc' = "wake"
         /\ iter' = iter + 1
         /\ tipRecord' = record
         /\ frontierBefore' = Unknown
         /\ UNCHANGED shouldSync
    ELSE EndWakeup(TRUE)

\* record_fault and what it publishes.
RecordAndPublish(fault, height) ==
  /\ FaultRecorded(RepairFor(fault), height)
  /\ lastFault' = "Sync"
  /\ phase' = "Recovering"
  /\ UNCHANGED observation

-----------------------------------------------------------------------------
(* open_chain_events, from startup and from the polling tick; catchUp is    *)
(* the catch_up_pending it leaves, which the tick takes in the same call.   *)
StreamOpens(catchUp) ==
  /\ catchUp = streamFaulted
  /\ stream' = "open"
  /\ IF streamFaulted
       THEN lastFault' = "None" /\ phase' = "Waiting"
       ELSE UNCHANGED <<lastFault, phase>>
  /\ UNCHANGED <<cursor, streamFaulted, undelivered, faults, observation>>

\* Events between the expired cursor and the earliest retained one are gone.
CursorExpired ==
  /\ cursor = "AfterCursor"
  /\ cursor' = "EarliestRetained"
  /\ stream' = "down"
  /\ undelivered' \in {0, undelivered}
  /\ UNCHANGED <<streamFaulted, statusVars>>

\* record_stream_fault
StreamFaultRecorded ==
  /\ streamFaulted' = TRUE
  /\ lastFault' = "Stream"
  /\ phase' = "Recovering"
  /\ UNCHANGED observation

StreamOpenFails ==
  /\ InjectFault("Transient")
  /\ StreamFaultRecorded
  /\ stream' = "down"
  /\ UNCHANGED <<cursor, undelivered>>

\* Mutant: an expired cursor restarts the stream and nothing else.
OpenStreamOnly(catchUp) ==
  \/ StreamOpens(catchUp)
  \/ ~catchUp /\ CursorExpired /\ UNCHANGED faults
  \/ ~catchUp /\ StreamOpenFails

OpenStream(catchUp) ==
  \/ StreamOpens(catchUp)
  \/ catchUp /\ CursorExpired /\ UNCHANGED faults
  \/ ~catchUp /\ StreamOpenFails

Start ==
  /\ pc = "start"
  /\ OpenStream(FALSE)
  /\ UNCHANGED ladderVars
  /\ EnterLoop(TRUE)
  /\ UNCHANGED <<walletVars, attemptVars, closeRequested>>
  /\ UNCHANGED <<tip, orphanedFrom, changes>>

-----------------------------------------------------------------------------
(* run_sync_wakeup: the head of an iteration.                               *)
EnterParkRung ==
  /\ pc = "wake"
  /\ Active
  /\ recovery.rung = Park
  /\ ParkEntered
  /\ phase' = "Parked"
  /\ EndWakeup(TRUE)
  /\ UNCHANGED <<observation, lastFault, streamVars, closeRequested>>
  /\ UNCHANGED <<worldVars, faults>>

\* The backoff elapses and apply_repair counts the attempt.
BeginRepair ==
  /\ pc = "wake"
  /\ Active
  /\ recovery.rung # Park
  /\ ~closeRequested
  /\ RepairStarted
  /\ tipRecord' = "Stale"
  /\ phase' = "Recovering"
  /\ pc' = IF recovery.rung = Retry THEN "ready" ELSE "repair"
  /\ UNCHANGED <<iter, frontierBefore, shouldSync, observation, lastFault>>
  /\ UNCHANGED <<streamVars, closeRequested, worldVars, faults>>

RepairDone ==
  /\ pc = "repair"
  /\ dbOpen
  /\ pc' = "ready"
  /\ UNCHANGED <<iter, tipRecord, frontierBefore, shouldSync>>
  /\ UNCHANGED <<statusVars, streamVars, closeRequested, ladderVars>>
  /\ UNCHANGED <<tip, undelivered, changes, attemptVars, faults>>

RewindTarget ==
  LET depth == RewindLadderBlocks[recovery.depth]
  IN  IF frontier > depth THEN frontier - depth ELSE 0

\* A wallet without a scanned block has nowhere to rewind from.
RewindWallet ==
  /\ RepairDone
  /\ recovery.rung = Rewind
  /\ \/ frontier = 0 /\ UNCHANGED <<walletVars, orphanedFrom>>
     \/ /\ frontier > 0
        /\ RewindTarget <= tip
        /\ TruncateTo(RewindTarget)
        /\ UNCHANGED dbOpen

RebuildWallet ==
  /\ RepairDone
  /\ recovery.rung = RescanFromBirthday
  /\ Recreate(TRUE)

\* Mutant: the error of a repair is recorded, and the attempt runs anyway.
RepairFaultedGoesOn(fault) ==
  /\ pc = "repair"
  /\ RecordAndPublish(fault, 0)
  /\ pc' = "ready"
  /\ UNCHANGED <<iter, tipRecord, frontierBefore, shouldSync>>
  /\ UNCHANGED <<streamVars, closeRequested, attemptVars>>
  /\ UNCHANGED <<tip, undelivered, changes>>

\* A failed repair is itself a fault, recorded without a height.
RepairFaulted(fault) ==
  /\ pc = "repair"
  /\ RecordAndPublish(fault, 0)
  /\ NextIteration("Stale")
  /\ UNCHANGED <<streamVars, closeRequested, attemptVars>>
  /\ UNCHANGED <<tip, undelivered, changes>>

RepairFails(fault) ==
  /\ RepairFaulted(fault)
  /\ InjectFault(fault)
  /\ UNCHANGED <<walletVars, orphanedFrom>>

\* status_snapshot or account_birthday on a closed database, or a tree state
\* asked above the visible tip.
RepairImpossible ==
  /\ RepairFaulted("Corrupt")
  /\ ~dbOpen \/ (recovery.rung = Rewind /\ RewindTarget > tip)
  /\ UNCHANGED <<walletVars, orphanedFrom, faults>>

RebuildFails(fault) ==
  /\ RebuildCanFail
  /\ RepairFaulted(fault)
  /\ recovery.rung = RescanFromBirthday
  /\ dbOpen
  /\ InjectFault(fault)
  /\ Recreate(FALSE)

-----------------------------------------------------------------------------
(* run_sync_wakeup: one attempt.                                            *)
ReadFrontier ==
  /\ pc = "ready" \/ (pc = "wake" /\ ~Active)
  /\ ~closeRequested
  /\ frontierBefore' \in FrontierReads
  /\ phase' = "Syncing"
  /\ BeginAttempt(tipRecord = "Stale")
  /\ pc' = "attempt"
  /\ UNCHANGED <<iter, tipRecord, shouldSync, observation, lastFault>>
  /\ UNCHANGED <<streamVars, closeRequested, ladderVars, chainVars>>
  /\ UNCHANGED <<walletVars, faults>>

RunAttempt ==
  /\ pc = "attempt"
  /\ ~closeRequested
  /\ AttemptStep
  /\ UNCHANGED <<driverVars, ladderVars, chainVars>>

\* run_one_sync's deadline, wherever the attempt is: never checked.
AttemptTimesOut ==
  /\ pc = "attempt"
  /\ stage \notin {"idle", "done"}
  /\ InjectFault("Transient")
  /\ Return(Failed("Transient", FALSE))
  /\ UNCHANGED <<driverVars, ladderVars, chainVars, walletVars>>

AttemptReturned(kind) ==
  /\ pc = "attempt"
  /\ stage = "done"
  /\ result.kind = kind
  /\ ForgetAttempt
  /\ UNCHANGED <<streamVars, closeRequested, chainVars, walletVars, faults>>

\* Mutant: a drained queue ends the wakeup, whenever its tip was recorded.
CompleteSyncOnDrain ==
  /\ AttemptReturned("Completed")
  /\ Settled(result.scannedTo)
  /\ observation' = ObservedRun(result.scannedTo, result.blocks)
  /\ lastFault' = "None"
  /\ phase' = IF result.blocks THEN "Syncing" ELSE "Waiting"
  /\ IF result.blocks THEN NextIteration("Current") ELSE EndWakeup(FALSE)

\* complete_sync
CompleteSync ==
  LET continues == result.blocks \/ tipRecord = "Current"
  IN  /\ AttemptReturned("Completed")
      /\ Settled(result.scannedTo)
      /\ observation' = ObservedRun(result.scannedTo, result.blocks)
      /\ lastFault' = "None"
      /\ phase' = IF continues THEN "Syncing" ELSE "Waiting"
      /\ IF continues
           THEN NextIteration(IF result.blocks THEN "Current" ELSE "Stale")
           ELSE EndWakeup(FALSE)

\* chain_tip_after_fault
RecordAfterFault(after) ==
  IF Advanced(frontierBefore, after) THEN "Current" ELSE tipRecord

\* is_slow_progress: only an environment fault is excused by progress.
SlowProgress(after) ==
  RepairFor(result.fault) = Retry /\ Advanced(frontierBefore, after)

NoteSlowProgress ==
  /\ AttemptReturned("Faulted")
  /\ \E after \in FrontierReads :
       /\ SlowProgress(after)
       /\ observation' = ObservedChunk(result.checked, after)
       /\ Settled(HeightOf(after))
       /\ NextIteration(RecordAfterFault(after))
  /\ lastFault' = "None"
  /\ phase' = "Syncing"

RecordSyncFault ==
  /\ AttemptReturned("Faulted")
  /\ \E after \in FrontierReads :
       /\ ~SlowProgress(after)
       /\ RecordAndPublish(result.fault, HeightOf(after))
       /\ NextIteration(RecordAfterFault(after))

-----------------------------------------------------------------------------
(* run_sync_driver's select.                                                *)
Selecting ==
  /\ pc = "select"
  /\ UNCHANGED <<closeRequested, walletVars, attemptVars>>
  /\ UNCHANGED <<tip, orphanedFrom, changes>>

\* Mutant: the tick of a parked driver only republishes.
PollParkedForever ==
  /\ Selecting
  /\ Parked
  /\ UNCHANGED <<phase, ladderVars>>
  /\ EnterLoop(FALSE)
  /\ UNCHANGED <<observation, lastFault, streamVars, undelivered, faults>>

PollWhileParked ==
  /\ Selecting
  /\ Parked
  /\ \/ /\ ReprobesPark
        /\ Rearmed
        /\ phase' = "Waiting"
        /\ EnterLoop(TRUE)
     \/ /\ UNCHANGED <<phase, ladderVars>>
        /\ EnterLoop(FALSE)
  /\ UNCHANGED <<observation, lastFault, streamVars, undelivered, faults>>

\* The stream is open, or its reconnect backoff has not elapsed: there is no
\* catch-up to take, and should_sync is overwritten with that.
PollIdle ==
  /\ Selecting
  /\ ~Parked
  /\ stream = "open" \/ streamFaulted
  /\ UNCHANGED ladderVars
  /\ EnterLoop(FALSE)
  /\ UNCHANGED <<streamVars, statusVars, undelivered, faults>>

PollReopens ==
  /\ Selecting
  /\ ~Parked
  /\ stream = "down"
  /\ UNCHANGED ladderVars
  /\ \E catchUp \in BOOLEAN : OpenStream(catchUp) /\ EnterLoop(catchUp)

ChainEvent ==
  /\ Selecting
  /\ stream = "open"
  /\ undelivered > 0
  /\ undelivered' = undelivered - 1
  /\ cursor' = "AfterCursor"
  /\ streamFaulted' = FALSE
  /\ UNCHANGED ladderVars
  /\ EnterLoop(~Parked)
  /\ UNCHANGED <<stream, statusVars, faults>>

\* The stream yields an error: an expired cursor syncs at once, any other error
\* waits for the reconnect unless the driver is parked.
StreamExpires ==
  /\ Selecting
  /\ stream = "open"
  /\ CursorExpired
  /\ UNCHANGED ladderVars
  /\ EnterLoop(~Parked)
  /\ UNCHANGED faults

\* Mutant: a parked driver records stream faults as well.
StreamErrsEvenParked ==
  /\ Selecting
  /\ stream = "open"
  /\ InjectFault("Transient")
  /\ stream' = "down"
  /\ StreamFaultRecorded
  /\ UNCHANGED ladderVars
  /\ EnterLoop(shouldSync)
  /\ UNCHANGED <<cursor, undelivered>>

StreamErrs ==
  /\ Selecting
  /\ stream = "open"
  /\ InjectFault("Transient")
  /\ stream' = "down"
  /\ IF Parked THEN UNCHANGED <<streamFaulted, statusVars>>
     ELSE StreamFaultRecorded
  /\ UNCHANGED ladderVars
  /\ EnterLoop(shouldSync)
  /\ UNCHANGED <<cursor, undelivered>>

StreamEnds ==
  /\ Selecting
  /\ stream = "open"
  /\ InjectFault("Transient")
  /\ stream' = "down"
  /\ UNCHANGED ladderVars
  /\ EnterLoop(shouldSync)
  /\ UNCHANGED <<cursor, undelivered, streamFaulted, statusVars>>

-----------------------------------------------------------------------------
(* Closing.  A wakeup checks the request first wherever it awaits, except   *)
(* while it applies a repair or enters the park.                            *)
RequestClose ==
  /\ CloseAllowed
  /\ pc # "closed"
  /\ ~closeRequested
  /\ closeRequested' = TRUE
  /\ UNCHANGED <<loopVars, statusVars, streamVars, worldVars, ladderVars, faults>>

\* Mutant: the backoff before a repair does not listen for the request.
ClosableOutsideBackoff ==
  \/ pc \in {"ready", "select"}
  \/ pc = "wake" /\ ~Active
  \/ pc = "attempt" /\ stage # "done"

Closable ==
  \/ pc \in {"ready", "select"}
  \/ pc = "wake" /\ ~(Active /\ recovery.rung = Park)
  \/ pc = "attempt" /\ stage # "done"

CloseDriver ==
  /\ closeRequested
  /\ Closable
  /\ pc' = "closed"
  /\ phase' = "Closed"
  /\ ForgetAttempt
  /\ UNCHANGED <<iter, tipRecord, frontierBefore, shouldSync, closeRequested>>
  /\ UNCHANGED <<observation, lastFault, streamVars, chainVars, walletVars>>
  /\ UNCHANGED <<ladderVars, faults>>

Closed == pc = "closed" /\ UNCHANGED vars

-----------------------------------------------------------------------------
Environment ==
  \/ pc # "closed" /\ ChainMoves /\ UNCHANGED <<driverVars, ladderVars>>
  \/ RequestClose

DriverStep ==
  \/ Start
  \/ EnterParkRung
  \/ BeginRepair
  \/ RewindWallet
  \/ RebuildWallet
  \/ \E fault \in FaultKinds : RepairFails(fault) \/ RebuildFails(fault)
  \/ RepairImpossible
  \/ ReadFrontier
  \/ RunAttempt
  \/ AttemptTimesOut
  \/ CompleteSync
  \/ NoteSlowProgress
  \/ RecordSyncFault
  \/ PollWhileParked
  \/ PollIdle
  \/ PollReopens
  \/ ChainEvent
  \/ StreamExpires
  \/ StreamErrs
  \/ StreamEnds
  \/ CloseDriver

Next == Environment \/ DriverStep \/ Closed

Init ==
  /\ LadderInit
  /\ AttemptInit
  /\ pc = "start"
  /\ iter = 0
  /\ tipRecord = "Stale"
  /\ frontierBefore = Unknown
  /\ shouldSync = TRUE
  /\ closeRequested = FALSE
  /\ observation = 0
  /\ lastFault = "None"
  /\ phase = "Starting"
  /\ stream = "down"
  /\ cursor = "EarliestRetained"
  /\ streamFaulted = FALSE

(***************************************************************************)
(* The runtime keeps polling the driver task; its select picks a ready     *)
(* branch at random, so a close request and an elapsed reprobe deadline    *)
(* that stay ready are picked in the end.                                  *)
(***************************************************************************)
Fairness ==
  /\ WF_vars(DriverStep)
  /\ SF_vars(CloseDriver)

Spec == Init /\ [][Next]_vars /\ Fairness

-----------------------------------------------------------------------------
(* Types of the driver's own variables.                                     *)
DriverTypeOK ==
  /\ pc \in {"start", "wake", "repair", "ready", "attempt", "select", "closed"}
  /\ iter \in 0..MaxSyncIterations
  /\ tipRecord \in {"Stale", "Current"}
  /\ frontierBefore \in 0..MaxHeight \cup {Unknown}
  /\ {shouldSync, closeRequested, streamFaulted} \subseteq BOOLEAN
  /\ observation \in 0..MaxHeight
  /\ lastFault \in {"None", "Sync", "Stream"}
  /\ phase \in {"Starting", "Syncing", "Waiting", "Recovering", "Parked", "Closed"}
  /\ stream \in {"open", "down"}
  /\ cursor \in {"EarliestRetained", "AfterCursor"}

(* Types of all variables.                                                  *)
TypeOK == LadderTypeOK /\ AttemptTypeOK /\ DriverTypeOK

(***************************************************************************)
(* A driver that has gone quiet misses nothing: whatever the chain holds   *)
(* above the wallet's frontier, an event that will wake the driver is      *)
(* still to come.  Holds while a wakeup never spends its iteration budget. *)
(***************************************************************************)
NoMissedBlocks ==
  (pc = "select" /\ ~shouldSync /\ ~Parked) =>
    frontier >= tip \/ undelivered > 0

(***************************************************************************)
(* A wakeup reports the driver caught up only when that same attempt       *)
(* recorded the tip, and the wallet has scanned all of it                  *)
(* (run_sync_wakeup, should_continue_syncing).                             *)
(***************************************************************************)
CaughtUpAgainstFreshTip ==
  [][(pc = "attempt" /\ pc' = "select" /\ ~shouldSync') =>
        recordsTip /\ frontier >= epochTip]_vars

(***************************************************************************)
(* No block is scanned on top of a state whose recorded fault has not been *)
(* answered by a repair (is_slow_progress, apply_repair's error path).     *)
(***************************************************************************)
ScansOnlyRepaired == [][frontier' > frontier => ~due]_vars

(***************************************************************************)
(* While the driver is parked observers keep seeing it parked, whatever    *)
(* the chain-event stream does meanwhile.                                  *)
(***************************************************************************)
ParkStaysVisible == Parked => phase \in {"Parked", "Closed"}

(***************************************************************************)
(* Where the driver may be while a fault waits for its repair, while it is *)
(* parked and while an attempt is in flight: what run_sync_driver's and    *)
(* run_sync_wakeup's control flow guarantees without a variable for it.    *)
(***************************************************************************)
DriverControl ==
  /\ pc \in {"repair", "ready", "attempt"} => ~due
  /\ (Active /\ pc \in {"start", "wake", "select"}) => due
  /\ Parked => pc \in {"select", "closed"}
  /\ pc = "repair" => recovery # NoRecovery
  /\ (stage # "idle") <=> (pc = "attempt")
  /\ pc = "attempt" => (recordsTip <=> (tipRecord = "Stale"))
  /\ undelivered <= changes

(***************************************************************************)
(* The driver's inductive invariant: the ladder's bookkeeping, the         *)
(* driver's control, and the tip an attempt planned against.               *)
(***************************************************************************)
DriverInv ==
  /\ LadderInv
  /\ DriverControl
  /\ DrainedToPinnedTip
  /\ ParkStaysVisible

(***************************************************************************)
(* The driver uses the ladder only as RepairLadder allows: one repair per  *)
(* recorded fault, no settling over an unanswered fault, parking once.     *)
(***************************************************************************)
UsesLadder == LadderSpec

(***************************************************************************)
(* An observation that moves is about committed blocks whose roots were    *)
(* compared with the chain (SyncObservation).                              *)
(***************************************************************************)
ObservationChecked ==
  [][observation' # observation => observation' <= checkedTo]_vars

(***************************************************************************)
(* An observation rises only to compared blocks, whatever the retry loop   *)
(* hides and wherever the chain goes.  The one way past the comparison is  *)
(* a chunk that an earlier try of an attempt left uncompared, when that    *)
(* attempt ends in an error (observe_completed_run,                        *)
(* observe_committed_chunk, committed_chunk_for).                          *)
(***************************************************************************)
ObservationsCompared ==
  [][observation' > observation =>
       observation' <= checkedTo \/ (unchecked /\ result.kind = "Faulted")]_vars

(***************************************************************************)
(* Clearing the recovery, other than by re-arming a park, means the wallet *)
(* holds a block above the fault boundary (RecoveryState::fault_height).   *)
(***************************************************************************)
ClearedAboveBoundary ==
  [][(recovery # NoRecovery /\ ~recovery.parked /\ recovery' = NoRecovery) =>
        recovery.faultHeight = 0 \/ frontier > recovery.faultHeight]_vars

(***************************************************************************)
(* A rebuild that fails leaves a wallet the next rebuild can rebuild: the  *)
(* database is never lost for good (reset_to_birthday).                    *)
(***************************************************************************)
WalletComesBack == ~dbOpen ~> (dbOpen \/ closeRequested)

(***************************************************************************)
(* Environment faults never cost the wallet a scanned block.               *)
(***************************************************************************)
NeverLosesBlocks == [][frontier' >= frontier]_vars

(***************************************************************************)
(* When faults stop and the chain stands still, the wallet reaches the tip *)
(* and stays there.                                                        *)
(***************************************************************************)
Converges == <>[](frontier >= tip \/ closeRequested)

(***************************************************************************)
(* Every recorded fault is answered: the driver keeps applying the repair  *)
(* of its rung, a retry under the capped backoff included, or parks and    *)
(* re-arms.  Holds while a wakeup never spends its iteration budget.       *)
(***************************************************************************)
RepairFollows == due ~> (~due \/ closeRequested)

(* A close request closes the driver, whatever it was doing.               *)
CloseCompletes == closeRequested ~> pc = "closed"
=============================================================================
