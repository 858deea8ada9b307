----------------------------- MODULE ScanAttempt -----------------------------
(***************************************************************************)
(* One scan attempt of the wallet against a chain source that moves under  *)
(* it: Wallet::sync and Wallet::scan_queued_range (zally-wallet/src/       *)
(* sync.rs) inside their retry loop (retry.rs), from pinning an epoch to   *)
(* the outcome the sync driver reads.                                      *)
(*                                                                         *)
(* Heights count from the account birthday.  The wallet scans upwards, so  *)
(* its scan queue is the heights frontier+1..queuedTo; the priorities of   *)
(* zcash_client_sqlite, which may scan the tip first, are not modelled.    *)
(* A fault is any error an await may return; it is abstracted to what the  *)
(* retry loop and the driver tell apart.                                   *)
(***************************************************************************)
EXTENDS Naturals

CONSTANTS
  MaxHeight,       \* bound: highest block the chain reaches
  ChunkBlocks,     \* MAX_BLOCKS_PER_SYNC
  MaxAttempts,     \* RetryPolicy::max_attempts of the inner retry loop
  FaultKinds,      \* the faults this instance injects
  MaxFaults,       \* bound: faults injected in a behaviour
  MaxChainChanges, \* bound: new blocks and reorgs in a behaviour
  ReorgsHappen,    \* the chain may replace blocks, not only add them
  NoResult         \* the attempt has not returned

(* What an error may be, to the retry loop and to the driver.               *)
Faults == {"Transient", "Divergence", "Corrupt", "DeadEnd"}

ASSUME AttemptAssumption ==
  /\ MaxHeight \in Nat \ {0}
  /\ ChunkBlocks \in Nat \ {0}
  /\ MaxAttempts \in Nat \ {0}
  /\ FaultKinds \subseteq Faults
  /\ MaxFaults \in Nat
  /\ MaxChainChanges \in Nat
  /\ ReorgsHappen \in BOOLEAN

VARIABLES
  \* chain source
  tip,           \* visible tip
  orphanedFrom,  \* lowest wallet block the chain replaced; NoOrphan if none
  undelivered,   \* chain events the driver has not received
  changes,       \* chain changes so far
  \* wallet database
  frontier,      \* fully scanned height, 0 before the first block
  queuedTo,      \* end of the scan queue: the recorded chain tip
  checkedTo,     \* history: up to where the wallet's roots matched the chain's,
                 \* or its trees were empty and there was none to compare
  dbOpen,        \* WalletDbState is Opened
  \* attempt
  stage,         \* where the attempt awaits
  tries,         \* operation() calls of the inner retry loop
  recordsTip,    \* Wallet::sync, which records the tip, not scan_queued_range
  epochTip,      \* visible tip of the pinned epoch
  pinned,        \* the source still serves the pinned epoch
  chunkEnd,      \* height the attempt reports as scanned to
  scanned,       \* the current try committed a chunk (block_count > 0)
  result,        \* NoResult, Completed or Faulted
  unchecked,     \* history: an earlier try committed a chunk and failed before
                 \* its comparison, and no later one compared above it
  faults         \* faults injected so far

chainVars   == <<tip, orphanedFrom, undelivered, changes>>
walletVars  == <<frontier, queuedTo, checkedTo, dbOpen>>
attemptVars == <<stage, tries, recordsTip, epochTip, pinned, chunkEnd, scanned,
                 result, unchecked>>

-----------------------------------------------------------------------------
Lower(a, b) == IF a < b THEN a ELSE b

NoOrphan == MaxHeight + 1

Stages == {"idle", "pin", "scan", "verify", "tail", "done"}

(* FailurePosture::allows_retry.  Transient: an unavailable source, an       *)
(* expired pin, a busy database.  Divergence: ChainReorgDetected and        *)
(* BlockingTaskFailed.  Corrupt: every NotRetryable error, among them       *)
(* TreeRootsDiverged, CommitmentTreeConflict and NotOpened.  DeadEnd:       *)
(* RequiresOperator.                                                        *)
AllowsRetry(kind) == kind \in {"Transient", "Divergence"}

Completed(scannedTo, blocks) ==
  [kind |-> "Completed", scannedTo |-> scannedTo, blocks |-> blocks]

Failed(fault, checked) ==
  [kind |-> "Faulted", fault |-> fault, checked |-> checked]

Outcomes ==
  [kind: {"Completed"}, scannedTo: 0..MaxHeight, blocks: BOOLEAN] \cup
  [kind: {"Faulted"}, fault: Faults, checked: BOOLEAN]

InjectFault(kind) ==
  /\ kind \in FaultKinds
  /\ faults < MaxFaults
  /\ faults' = faults + 1

-----------------------------------------------------------------------------
(* The retry loop runs the whole attempt again, from a fresh pin.           *)
StartTry ==
  /\ stage' = "pin"
  /\ epochTip' = 0
  /\ pinned' = FALSE
  /\ chunkEnd' = 0
  /\ scanned' = FALSE
  /\ result' = NoResult

BeginAttempt(records) ==
  /\ StartTry
  /\ tries' = 1
  /\ unchecked' = FALSE
  /\ recordsTip' = records

ForgetAttempt ==
  /\ stage' = "idle"
  /\ tries' = 0
  /\ recordsTip' = FALSE
  /\ epochTip' = 0
  /\ pinned' = FALSE
  /\ chunkEnd' = 0
  /\ scanned' = FALSE
  /\ result' = NoResult
  /\ unchecked' = FALSE

Return(r) ==
  /\ stage' = "done"
  /\ result' = r
  /\ UNCHANGED <<tries, recordsTip, epochTip, pinned, chunkEnd, scanned, unchecked>>

\* Retiring aged-out broadcasts runs after the retry loop: no retry there.
InsideRetryLoop == stage # "tail" \/ scanned

\* The comparison is missing only when the error left it as UnverifiedScanChunk.
TryFails(kind) ==
  /\ UNCHANGED walletVars
  /\ \/ /\ InsideRetryLoop
        /\ AllowsRetry(kind)
        /\ tries < MaxAttempts
        /\ StartTry
        /\ tries' = tries + 1
        /\ unchecked' = (unchecked \/ stage = "verify")
        /\ UNCHANGED recordsTip
     \/ /\ ~AllowsRetry(kind) \/ tries = MaxAttempts \/ stage = "tail"
        /\ Return(Failed(kind, stage # "verify"))

-----------------------------------------------------------------------------
\* Mutant: the attempt pins the epoch but never records its tip.
PinEpochOnly ==
  /\ stage = "pin"
  /\ stage' = "scan"
  /\ epochTip' = tip
  /\ pinned' = TRUE
  /\ UNCHANGED <<tries, recordsTip, chunkEnd, scanned, result, unchecked>>
  /\ UNCHANGED <<walletVars, faults>>

(* pin_chain_epoch, then for Wallet::sync update_chain_tip: the queue grows *)
(* to the pinned tip and never shrinks to it.                              *)
PinEpoch ==
  /\ stage = "pin"
  /\ stage' = "scan"
  /\ epochTip' = tip
  /\ pinned' = TRUE
  /\ queuedTo' = IF recordsTip /\ dbOpen /\ queuedTo < tip THEN tip ELSE queuedTo
  /\ UNCHANGED <<tries, recordsTip, chunkEnd, scanned, result, unchecked>>
  /\ UNCHANGED <<frontier, checkedTo, dbOpen, faults>>

PlannedEnd == Lower(queuedTo, epochTip)

\* Fetches under the pin and scan_blocks, which refuses an orphaned parent.
ScanChunk ==
  /\ stage = "scan"
  /\ dbOpen
  /\ frontier < PlannedEnd
  /\ pinned
  /\ frontier < orphanedFrom
  /\ \E end \in (frontier + 1)..Lower(frontier + ChunkBlocks, PlannedEnd) :
       /\ frontier' = end
       /\ chunkEnd' = end
  /\ scanned' = TRUE
  /\ stage' = "verify"
  /\ UNCHANGED <<queuedTo, checkedTo, dbOpen, faults>>
  /\ UNCHANGED <<tries, recordsTip, epochTip, pinned, result, unchecked>>

\* emit_caught_up reports the pinned tip, wherever the frontier is.  Below the
\* tip it first backfills subtree roots, which reads the source.
NothingToScan ==
  /\ stage = "scan"
  /\ dbOpen
  /\ frontier >= PlannedEnd
  /\ frontier >= epochTip \/ pinned
  /\ chunkEnd' = epochTip
  /\ stage' = "tail"
  /\ UNCHANGED <<tries, recordsTip, epochTip, pinned, scanned, result, unchecked>>
  /\ UNCHANGED <<walletVars, faults>>

\* verify_tree_roots agrees with the chain at the end of the chunk, or finds the
\* wallet's trees empty and has nothing to compare: the chunk stands either way.
VerifyRoots ==
  /\ stage = "verify"
  /\ pinned
  /\ checkedTo' = chunkEnd
  /\ unchecked' = FALSE
  /\ stage' = "tail"
  /\ UNCHANGED <<tries, recordsTip, epochTip, pinned, chunkEnd, scanned, result>>
  /\ UNCHANGED <<frontier, queuedTo, dbOpen, faults>>

\* The rest of scan_and_emit only reads and publishes.
FinishAttempt ==
  /\ stage = "tail"
  /\ Return(Completed(chunkEnd, scanned))
  /\ UNCHANGED <<walletVars, faults>>

-----------------------------------------------------------------------------
\* Any await of the attempt may fail.
AttemptFails(kind) ==
  /\ stage \in {"pin", "scan", "verify", "tail"}
  /\ InjectFault(kind)
  /\ TryFails(kind)

\* The source no longer serves the pinned epoch: ChainEpochPinUnavailable.
PinExpires ==
  /\ stage \in {"scan", "verify"}
  /\ ~pinned
  /\ stage = "scan" => dbOpen /\ frontier < epochTip
  /\ TryFails("Transient")
  /\ UNCHANGED faults

\* scan_blocks finds that the next block does not extend the wallet's.
ReorgDetected ==
  /\ stage = "scan"
  /\ dbOpen
  /\ frontier < PlannedEnd
  /\ pinned
  /\ orphanedFrom <= frontier
  /\ TryFails("Divergence")
  /\ UNCHANGED faults

\* Every storage call of a wallet whose database is not open: NotOpened.
StorageNotOpened ==
  /\ stage = "scan"
  /\ ~dbOpen
  /\ TryFails("Corrupt")
  /\ UNCHANGED faults

AttemptStep ==
  \/ PinEpoch
  \/ ScanChunk
  \/ NothingToScan
  \/ VerifyRoots
  \/ FinishAttempt
  \/ \E kind \in FaultKinds : AttemptFails(kind)
  \/ PinExpires
  \/ ReorgDetected
  \/ StorageNotOpened

-----------------------------------------------------------------------------
(* The chain source.  A new block may retire the pinned epoch; a reorg      *)
(* always does.  Each change is one event on the chain-event stream.        *)
ChainChanges ==
  /\ changes < MaxChainChanges
  /\ changes' = changes + 1
  /\ undelivered' = undelivered + 1

AdvanceTip ==
  /\ ChainChanges
  /\ tip < MaxHeight
  /\ tip' = tip + 1
  /\ pinned' \in {pinned, FALSE}
  /\ UNCHANGED orphanedFrom

\* Blocks from `from` on are replaced, by as many or by one fewer.
Reorg ==
  /\ ReorgsHappen
  /\ ChainChanges
  /\ \E from \in 1..tip :
       /\ tip' \in {h \in {tip, tip - 1} : h >= from}
       /\ orphanedFrom' =
            IF from <= frontier THEN Lower(from, orphanedFrom) ELSE orphanedFrom
  /\ pinned' = FALSE

ChainMoves ==
  /\ AdvanceTip \/ Reorg
  /\ UNCHANGED <<walletVars, stage, tries, recordsTip, epochTip, chunkEnd,
                 scanned, result, unchecked, faults>>

-----------------------------------------------------------------------------
(* Repairs of the wallet database.                                          *)
\* truncate_to_chain_state lands at exactly the height and trims the queue.
TruncateTo(height) ==
  /\ frontier' = Lower(frontier, height)
  /\ queuedTo' = Lower(queuedTo, height)
  /\ checkedTo' = Lower(checkedTo, height)
  /\ orphanedFrom' = IF orphanedFrom <= height THEN orphanedFrom ELSE NoOrphan

\* recreate_with_account deletes the database before it builds the new one;
\* a failure in between leaves the actor NotOpened.
Recreate(opens) ==
  /\ TruncateTo(0)
  /\ dbOpen' = opens

AttemptInit ==
  /\ tip \in 1..MaxHeight
  /\ orphanedFrom = NoOrphan
  /\ undelivered = 0
  /\ changes = 0
  /\ frontier = 0
  /\ queuedTo = 0
  /\ checkedTo = 0
  /\ dbOpen = TRUE
  /\ stage = "idle"
  /\ tries = 0
  /\ recordsTip = FALSE
  /\ epochTip = 0
  /\ pinned = FALSE
  /\ chunkEnd = 0
  /\ scanned = FALSE
  /\ result = NoResult
  /\ unchecked = FALSE
  /\ faults = 0

-----------------------------------------------------------------------------
(* Types of the chain's, the wallet's and the attempt's variables; an       *)
(* attempt has a result exactly when it is done.                            *)
AttemptTypeOK ==
  /\ {tip, frontier, queuedTo, checkedTo, epochTip, chunkEnd} \subseteq
       0..MaxHeight
  /\ orphanedFrom \in 1..NoOrphan
  /\ {undelivered, changes} \subseteq 0..MaxChainChanges
  /\ {dbOpen, recordsTip, pinned, scanned, unchecked} \subseteq BOOLEAN
  /\ stage \in Stages
  /\ tries \in 0..MaxAttempts
  /\ result \in (IF stage = "done" THEN Outcomes ELSE {NoResult})
  /\ faults \in 0..MaxFaults

(***************************************************************************)
(* An attempt that records the tip plans against it: what it reports as    *)
(* drained without a block is drained up to the tip it pinned, whatever    *)
(* the chain did since (Wallet::sync, emit_caught_up).                     *)
(***************************************************************************)
DrainedToPinnedTip ==
  recordsTip =>
    /\ (stage = "scan" /\ dbOpen) => queuedTo >= epochTip
    /\ stage = "verify" => scanned
    /\ (stage = "tail" /\ ~scanned) => frontier >= epochTip
    /\ (stage = "done" /\ result.kind = "Completed" /\ ~result.blocks) =>
         frontier >= epochTip
=============================================================================
