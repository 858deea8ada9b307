# Zally in TLA+

Zally is a Zcash wallet library for operators: it scans the chain into a
SQLite wallet database, keeps scanning for as long as the host runs, repairs
itself when its view of the chain breaks, and builds, signs and submits
payments out of it. These modules model the part of it where ordering, failure
and time decide whether it is correct, check it with TLC and prove parts of it
with TLAPS.

All line numbers are of `src/crates/zally-wallet/src/sync.rs` unless a file is
named. The wallet's life has four models, which share no state and are checked
apart: scanning (`SyncDriver`), spending (`Spending`), the files of a wallet
with what lives in them (`WalletStore`), and the disclosure of a payment
(`Disclosure`); a fifth, `CircuitBreaker`, is shared by all calls to the chain.

## Inventory

| Part | State | Operations | What is hard about it |
|---|---|---|---|
| **Sync driver** (`run_sync_driver`, 879) | `should_sync`, the chain-event stream and its cursor, `DriverState`, the published snapshot | a wakeup drains the scan queue; a select over the polling tick, chain events and close; parking and re-probing | one task that must never lose a wakeup, never stay faulted, never wait on anything a close request cannot interrupt |
| **Repair ladder** (`RecoveryState`, 698) | rung, attempts at it, rewind depth, faults, fault boundary, dormant, parked | record a fault, apply a repair, settle, park, re-arm | a long mix of faults and partial recoveries must spend every shallower repair before a deeper one |
| **Scan attempt** (`Wallet::sync`, 1730) | the pinned epoch, the chunk it commits, the subtree roots and tip it records | pin, plan, backfill roots, fetch, commit, compare roots, retire old broadcasts | the source moves under it and may answer anything; it may fail, or be cut, between the commit and its comparison; an inner retry loop runs it again |
| **Wallet database** (`zally-storage/src/sqlite.rs`) | the SQLite file behind one actor thread, `NotOpened` or `Opened` | scan, truncate, rebuild, every ledger operation | one FIFO actor that runs work whose caller was cancelled; a rebuild that deletes before it creates |
| **Chain source** (`zally-chain`) | visible and settled tip, chain epochs, chain events | pin an epoch, read under it, stream events from a cursor | blocks and reorgs at any step, pins and cursors that expire |
| **Retry and circuit breaker** (`retry.rs`, `circuit_breaker.rs`) | a counter, an opening time | `with_retry`, `with_breaker_and_retry` | results of calls admitted before the breaker changed state |
| **Spending** (`spend.rs`) | idempotency records, pending-broadcast inputs | `send_payment`, `shield_transparent_funds` | two calls with one key, a crash or a timeout between submission and record, proposals of several transactions |
| **Dispense reservations** (`wallet.rs:411`, `sqlite.rs:2166`) | holds: active, released, finalized | reserve, release, finalize | notes read in one request to the actor and summed against in another, while holds and blocks come and go |
| **PCZT flow** (`pczt.rs`, `sqlite.rs:287`) | input locks, pending-input rows, finalized PCZTs | propose, prove, sign, extract, abandon | a handshake that must release the locks of a cancelled caller; an extraction of three commits; locks that lapse under a PCZT |
| **Transparent refresh** (`transparent_utxo_refresh.rs`) | a pinned epoch, a scanned-height floor | walk receivers, commit each | runs beside the driver's scans, rewinds and rebuilds |
| **Wallet construction** (`wallet.rs:610`) | identity, sealed seed, account | create, open, open_or_create_account, reset | a crash between any two of the files; a rebuild that deletes before it creates |
| **Payment disclosure** (`zcash-payment-disclosure`, `zally-pczt/src/disclosure.rs`) | the retained PCZT | export, encode, decode, verify | two formats with variable-length numbers; a signature over bytes that will contain it; evidence that must have one reading |
| **Read models, events, metrics** | none of their own | queries, broadcasts | no control of their own |
| **Keys, core types, submitters** | the sealed files | cryptography, encodings, transport | what they can answer matters, how they do it does not |

How they interact: the host owns a `Wallet` (cheap clones sharing storage,
sealing, breaker and event channel) and starts one driver task and one refresh
task. Both call the chain source and the storage actor; host threads call
spending, reservations and PCZT operations on the same actor at the same time.
The driver publishes snapshots on a watch channel and listens to a one-shot
close channel. It is the only caller of rewinds and rebuilds, and both change
the state everything else reads.

What makes each part correct:

- *ladder*: parks only at a dead end, rebuilds only as a last resort, never
  de-escalates in an episode;
- *driver*: answers every fault, misses no block, says caught-up only against a
  tip it has just recorded, keeps a park visible, closes when asked, and reaches
  the tip once faults stop;
- *attempt*: an observation rises to compared blocks only; environment faults
  lose no block; the error it ends with sends the repair to the right party
  (source, chain or wallet); no subtree root is on record above the blocks scanned;
- *database repairs*: a failed repair is followed by another one before any
  scan, and leaves something the next repair can repair;
- *spending*: one payment bound to an idempotency key and the same answer to every
  retry, no output spent by two transactions that may both be mined, inputs in
  flight reported as pending;
- *PCZT*: locks outlive their creation only for a caller who can give them back,
  the actor never waits for a lost caller, a submitted PCZT can be disclosed;
- *reservations*: one active hold per request, overlapping reservations never
  hold more than the wallet had;
- *transparent refresh*: a rewind leaves no row of the blocks it took away;
- *construction and reset*: whatever the process died in, seed file, identity and
  accounts belong to one wallet, and there is a way back to it;
- *disclosure*: one encoding per disclosure, an honest one always verifies, an
  altered one never, and what verifies has one reading;
- *breaker*: it opens at a full streak of failures and for nothing else, only a
  completed call closes it, and it recovers with its source.

## Modules

    RepairLadder         the ladder; also the abstract specification of it
    ScanAttempt          wallet, attempt, retry loop and chain source: actions
                         without a control loop of their own
    SyncDriver           EXTENDS both: the driver's loop, stream, park and close
    SyncDriverMC         the constants of its runs
    CircuitBreaker       the breaker all chain calls share, on its own
    Spending             payments, shielding, PCZTs and their network
    PaymentRegister      the abstract specification of the idempotency ledger
    Reservations         dispense reservations: actions without a control loop
    UtxoRefresh          the transparent refresh beside the block scan
    ScanIngest           EXTENDS UtxoRefresh: what one scan reads, checks, writes
    WalletStore          EXTENDS Reservations and ScanIngest: building, resetting
                         and losing a process
    WalletStoreMC        the symmetry of its run
    DisclosureCodec      the wire form of disclosures: pure operators
    Disclosure           EXTENDS it: from the payer's request to the verdict
    DisclosureMC         the messages of its run
    RepairLadderProofs   theorems about the ladder
    SyncDriverProofs     EXTENDS it: lemmas about an attempt, a truncation and
                         the chain, theorems about the driver
    CircuitBreakerProofs theorems about the breaker
    SpendingProofs       theorems about spending, and its refinement
    ScanIngestProofs     lemmas about what a scan reads, checks and writes
    FiniteSums           lemmas about sums over finite sets
    WalletStoreProofs    EXTENDS both: theorems about the files and what lives in them
    DisclosureProofs     EXTENDS FiniteSums: theorems about the wire form, the
                         export and the verdict

`RepairLadder` separates what a step does (`FaultRecorded`, `RepairStarted`,
`Settled`, `ParkEntered`, `Rearmed`) from when it may happen (`RecordFault`,
`ApplyRepair`, ...). Alone, it is the promise: any driver that takes one repair
per recorded fault, settles only when nothing is due and parks once. `SyncDriver`
uses the same effects under the guards of its own code, and the property
`UsesLadder` (`== LadderSpec`) checks that it implements that promise, and
`DriverImplementsLadder` proves it. No refinement mapping is needed, the
variables are the same.

### RepairLadder

| TLA+ | code |
|---|---|
| `recovery` | `DriverState::recovery`; `faultHeight = 0` is `None` |
| `FaultRecorded` | `record_fault` (1213) with `fold_fault` (732) and `escalate` (1266) |
| `RepairStarted` | the attempt `apply_repair` counts before it repairs (1351) |
| `Settled` | `settle_recovery` (636): forgotten above the boundary, dormant at or below it |
| `ParkEntered`, `Rearmed` | `enter_park` (1399), the reprobe of `handle_poll_tick` (967) |
| `due`, `rewinds`, `rebuilds`, `operatorFault` | history, and the control of `run_sync_wakeup` as far as the ladder needs it |

`faults` and `attempts` saturate at `CounterMax`, as `u32::saturating_add` does.

### ScanAttempt

`stage` is where the attempt awaits: `pin` → `scan` → `verify` → `tail` →
`done`. `PinEpoch` includes `update_chain_tip` for `Wallet::sync`
(`recordsTip`); `ScanChunk` is planning, fetching and the commit; `VerifyRoots`
is `verify_tree_roots`; `FinishAttempt` is what comes after and only reads.
`TryFails` is the inner retry loop: a retryable error before the last try starts
the attempt over, any other returns. Errors are reduced to four kinds by what
`allows_retry` and `repair_for` tell apart:

| kind | retried inside | rung | examples |
|---|---|---|---|
| `Transient` | yes | Retry | unavailable source, expired pin, open breaker, busy database |
| `Divergence` | yes | Rewind | `ChainReorgDetected`, `BlockingTaskFailed` of storage |
| `Corrupt` | no | Rewind | `TreeRootsDiverged`, `CommitmentTreeConflict`, `NotOpened` |
| `DeadEnd` | no | Park | `RequiresOperator` |

What the attempt reads, and which checks make which error of it, is `ScanIngest`
below; here an answer that fails a check is one of these kinds.

The chain source grows (`AdvanceTip`) or replaces blocks (`Reorg`) at any step
and may retire the attempt's pin; `orphanedFrom` is the lowest wallet block it
replaced. `TruncateTo` and `Recreate` are the database side of the repairs.
`checkedTo` and `unchecked` are history. `checkedTo` is up to where the wallet's
roots matched the chain's, or its trees were empty and `verify_tree_roots` skipped
the comparison: there is nothing there that could differ. `unchecked` says that an
earlier try of the attempt committed a chunk and failed before its comparison, and
no later try has compared the tree above it.

A timeout drops the attempt's future, but the storage actor still runs work
already queued. The driver's next status read queues behind that work, so a
commit that lands after the timeout is seen by it: `AttemptTimesOut` at
`verify` is that case.

### SyncDriver

`pc` is where the task is: `start`, `wake` (head of an iteration), `repair`,
`ready` (repaired, about to read the frontier), `attempt`, `select`, `closed`.

| TLA+ | code |
|---|---|
| `Start`, `OpenStream` | the first lines of `run_sync_driver`, `open_chain_events` (1655) |
| `EnterLoop` | loop head and `should_sync` (902); every arm of the select ends in it |
| `EnterParkRung`, `BeginRepair` | head of an iteration (1019): park, or backoff and repair |
| `RewindWallet`, `RebuildWallet`, `RepairFails`, `RepairImpossible`, `RebuildFails` | `apply_repair` (1347) and its outcomes; a wallet without a scanned block is not rewound; an error is recorded and the iteration is over |
| `ReadFrontier`, `RunAttempt`, `AttemptTimesOut` | status read, `run_one_sync` (1436) |
| `CompleteSync`, `NoteSlowProgress`, `RecordSyncFault` | the match on the attempt (1054) |
| `PollWhileParked`, `PollIdle`, `PollReopens` | `handle_poll_tick` (961); `catch_up_pending` is set and taken in one call, so it is a parameter here |
| `ChainEvent`, `StreamExpires`, `StreamErrs`, `StreamEnds` | the chain-event arm (930) |
| `RequestClose`, `CloseDriver` | `SyncHandle::close`, `close_sync_driver` (987) |

`Closable` lists where the task listens for a close: every await of a wakeup
except applying a repair, entering the park and publishing.

### CircuitBreaker

The sync driver, the transparent refresh, spending and PCZT submission call
through one breaker and overlap. `with_breaker_and_retry` admits, tries and
records in critical sections of their own, so `Admit`, `TryReturns` and `Record`
are actions a caller takes one after the other with the others in between.

| TLA+ | code |
|---|---|
| `state`, `failures` | `CircuitState` and its `consecutive_failures` |
| `cooled`, `CooldownElapses` | `opened_at.elapsed() >= cooldown`; the length is some time |
| `Admit` | `allow_call` (`circuit_breaker.rs:109`); a refused call changes nothing |
| `TryReturns` | one turn of the loop of `with_retry` (`retry.rs:157`) |
| `Record` | `record_success`, `record_failure`, or neither for what `trips_circuit_breaker` excludes |
| `Cancel` | a deadline (`run_one_sync`) or a closing driver drops the future |
| `healthy`, `SourceTurns` | the source, which may break and mend at any time |
| `streak` | history: transient failures recorded since the last completion |

A half-open breaker admits every caller, not one: the mutant that admits only
the call that half-opened it never recovers from a cancelled probe, because
nothing else would decide it. A call admitted before the breaker opened may
complete after it, and closes it before its cooldown is over; `OpensOnEvidence`
and `ClosesOnCompletion` say what still holds then. In `ScanAttempt` an open
breaker is one more `Transient` fault.

### Spending and PaymentRegister

A call of `send_payment`, `shield_transparent_funds` or the PCZT operations is a
record `call[c]`: its kind, key, target expiry and number of transactions, and
where it is. A retry is another call with the same key. A storage operation is a
job of the one actor and runs alone, but its commits are separate, so it may fail
or die after any of them. Input selection may pick any set of outputs neither
locked nor spent; amounts are left out.

| TLA+ | code |
|---|---|
| `Begin`, `Lookup` | heads of `send_payment` (`spend.rs:345`), with or without a target expiry, and of `shield_transparent_funds` (513) |
| `Prepare`, `ProposalFails`, `ProposalLeaks` | `prepare_payment`, `shield_transparent_funds` in `sqlite.rs`; a failed build unlocks what it locked, or fails to |
| `CreatePczt`, `Acknowledge`, `ReleaseUnacknowledged` | `dispatch_pczt_creation` (`sqlite.rs:287`): the actor offers the bytes and waits; a dropped receiver makes it release |
| `Authorize`, `RoleFails` | `prove_pczt`, `sign_pczt`: signatures are random, so `version` counts the different bytes of one transaction |
| `Proposable`, `RecordRows`, `ReleaseRows`, `ReleaseCutShort` | what input selection may take; the lock rows of a PCZT, written and given back, or given back only in part |
| `Extract`, `ExtractFails` | `extract_and_store_pczt` (`sqlite.rs:1312`): transaction, finalized PCZT, pending rows, in three commits; `Retain` is the second |
| `Abandon` | `abandon_pczt`, by an embedder at any time or by a failed send |
| `RecordPending`, `Attempt`, `SubmitAccepted`, `SubmitFails`, `ClearPending` | `submit_and_record_pending` (`spend.rs:596`) and the retry loop in it |
| `PendingInputs` | the rows of `ext_zally_pending_broadcast_inputs`: each a transparent input of a transaction in flight |
| `Record` | `record_idempotent_submission` (`sqlite.rs:1389`), after the last transaction |
| `FacilitatorSubmits` | whoever `extract_pczt` handed the transaction to |
| `Cancel`, `Crash` | a dropped future, the end of the process: rows, locks and PCZT bytes persist |
| `NewBlock`, `Mine`, `RetirePending` | locks and expiries come closer; the network mines what arrived in time, late or never; the sync attempt retires rows of what it saw mined (`RetireMined`) or expired (`RetireExpired`) |

The network loses, delays and repeats: what was put on the wire may be mined at
any block up to its expiry whatever its submission answered, so an error
(`SubmitFails`) proves nothing. `acked` and `leaked` are history: what callers were
told, and locks whose release failed or was cut by a crash.

`PaymentRegister` is what the ledger promises: a key is bound once, to a payment
all of whose transactions were accepted, and every call that succeeds answers
with it. `Spending` implements it under the mapping `bound <- ledger`,
`complete <-` the payments with every step acknowledged, `answer <-` what calls
returned. Nothing serializes two calls under one key: both may build, submit and
be paid, and only one can record; the other gets a conflict. The register
therefore does not promise one *payment* per key, only one *binding*, and
`LateCallsBuildNothing` is the part of the idempotency that does hold for payments:
a call that began when its key was bound builds nothing.

`Loose` names what is outside the wallet's protection: a PCZT its holder abandoned
and extracted nevertheless, one whose target expiry lies beyond
`PROPOSAL_INPUT_LOCK_BLOCKS`, one extracted after it expired.

### Reservations, UtxoRefresh and WalletStore

`WalletStore` is one wallet's files over any number of processes. Each step of a
builder or of a reset that writes is an action, and `Crash` may follow any of them.

| TLA+ | code |
|---|---|
| `StartBuild` ... `Assemble`, `BuildFails` | `create`, `open`, `open_or_create_account` (`wallet.rs:610`), with `create_account_on` and `seal_blocking` |
| `RemoveFiles`, `ResetImport`, `ResetTip`, `ResetFails` | `reset_to_birthday`, `recreate_with_account` (`sqlite.rs:598`) on the actor's thread |
| `FindHold`, `ReadNotes`, `CheckFunds`, `CreateHold` | `reserve_for_dispense` (`wallet.rs:411`), four requests to the actor; `create_hold` sums again inside its transaction |
| `ReleaseHold`, `FinalizeHold` | their columns are independent; a second call changes nothing |
| `PinEpoch`, `ReadFloor`, `ListReceivers`, `FetchReceiver`, `CommitReceiver`, `EndWalk` | `refresh_transparent_utxos` and its driver's retries |
| `Receded` | `ScanFrontierReceded` in `record_transparent_utxos` (`sqlite.rs:714`) |
| `ScanBlocks`, `RewindTo` | the frontier under the walk; `truncate_to_chain_state` un-mines rows |
| `NotOpened`, `Crash` | requests to a database that is not open; the process is gone |

`peak` is history: the largest balance since there last was neither an active hold
nor a reservation that had read the notes. `HoldsBacked` compares with it, not with
the balance, because the code promises no more: the balance may fall under holds
that were right when they were made. A row of `rows` carries the floor of the walk
that wrote it, also history; `RowsAttested` speaks of the blocks the walk had
scanned, since the source may report UTXOs in blocks the wallet has not.

### ScanIngest

`scan` is the attempt in flight and `scan.at` the await it is at. It runs inside
`WalletStore`, on the database that crashes and resets take away.

| TLA+ | code |
|---|---|
| `BeginScan`, `PinScan`, `EpochRefused` | `sync_inner` (1793) or `scan_queued_range_inner` (1804), told apart by `records`; `pin_chain_epoch` (1813), `translate_chain_epoch` |
| `UpdateTip`, `RecordTips` | `update_chain_tip` (`sqlite.rs:899`), `record_chain_tips` (1597 there): two transactions |
| `PlanScan`, `Replan`, `ScanRange` | `scan_one_range` (1826), `plan_scan_range` (1885): the queue's range clamped to the pin and cut to a chunk, or a backfill and a second look |
| `FetchRoots` | one page of `backfill_subtree_roots` (1944): `ValidPage` is `validate_subtree_root_page`, `Keeps` is `subtree_roots_completed_at_or_below`, `Installed` is `put_subtree_roots` (`sqlite.rs:811`) |
| `FetchAnchor`, `TreeState` | `chain_state_at` (2329) with `decode_tree_state` |
| `FetchBlocks` | `fetch_compact_blocks` (2247): any stream, of which only the whole range in order passes |
| `ScanFetched` | `scan_blocks` (`sqlite.rs:749`): unusable input, a block that does not link, a tree that conflicts, or the commit |
| `VerifyScan` | `verify_tree_roots` (2129) |
| `ReadFails`, `SourceRefused`, `FrontierMissing`, `BlockMalformed` | what every read, and what single reads, may answer instead |
| `RewindWallet` | `rewind_to_height`: blocks, queue and roots above the target go |
| `TreeDamaged`, `ChainAdvances`, `ChainReorgs` | a tree gone wrong, which the ladder is there for; the chain |
| `TipSet`, `IngestDropped` | what `create_account_on` and the removal of the database do to all this |

The source is not trusted with the *shape* of an answer: a page is any sequence of
indexes and heights, a stream any sequence of heights, a tree state may be of any
height, lack a frontier or be one the storage cannot write down. What has the right
shape is of the pinned epoch's chain. `breached` is history: whether an answer of
this attempt was outside the contract. A refusal of another kind that calls for the
operator (a revision, a capability or a network other than the one asked for)
counts as a breach, too. Pools are backfilled in any order; the code's order is one
of them.

`best` and `mine` tell two chains apart by where the one reorg began: two views have
the same block at a height when both or neither are past their fork there. The
verdict an attempt ends with names its error, and with it the repair of the table
under `ScanAttempt`: `retry` is `Transient`, `reorg` is `Divergence`, `conflict`,
`diverged` and `refused` are `Corrupt`, `operator` is `DeadEnd`.

### DisclosureCodec and Disclosure

`DisclosureCodec` is `codec.rs` as operators over sequences of tokens: writers
(`CompactSize`, `Body`, `ToBytes`, `Digest`), the shape both sides validate
(`WellShaped`), and readers (`ReadSize`, `ReadSpend`, `ReadOutput`, `ReadList`,
`FromBytes`). The code's cursor is a position: a reader returns what stands there
(`Got`) and the position behind it, 0 when the code returns an error; a list reads
each entry behind the one before (`Behind`). A byte has `Base` values, and numbers of
1, 2, 4 and 8 of them as in the code, so every width and its boundary is reached with
small numbers. `Messages` is what a payee may ask to be bound in, any set of byte
strings, and `MaxListed` the length of a PCZT's lists.

`Disclosure` runs one: `Export` (or `Refuse`) from a retained PCZT and a request,
`Deliver` or `Damage` on the way, `Verify` against a transaction and on a network.
`ExportErrors` and `VerificationErrors` are the sets of errors that apply; the code
returns the first of them it meets, and succeeds when there is none.
Cryptography is symbolic: a signature verifies for its own key and digest, a
proof for its own spend, an outgoing cipher key for its own output. The initial
states are all PCZTs of up to two spends and two outputs with all kinds of owner,
value, recipient and cipher key, of either pool, and all requests.

## Runs

| run | config | shows |
|---|---|---|
| `ladder` | `RepairLadder.cfg` | the ladder alone, all interleavings of faults at three heights, two rewind depths, saturating counters |
| `breaker` | `CircuitBreaker.cfg` | three overlapping callers with two tries each, a threshold of two, cancellations, an outage that comes and goes: safety and recovery |
| `driver` | `SyncDriver.cfg` | safety of the whole driver: four fault kinds, three faults, a reorg, failing rebuilds, an inner retry, two iterations per wakeup; what an observation may rise to; also the inductive invariant of the proofs |
| `progress` | `SyncDriverLive.cfg` | nothing missed or lost, faults answered, close completes: transient and operator faults, two new blocks, twelve iterations |
| `healing` | `SyncDriverHeal.cfg` | convergence after reorgs and a divergence |
| `spending` | `Spending.cfg` | two calls of any kind under one key, competing for a note and a transparent output: double spends, locks, retention, pending rows, idempotency and its refinement, and that the actor is always served again |
| `store` | `WalletStore.cfg` | two reservations of two requests, a refresh of two receivers, or scans of a source that may break its contract, under every crash, rebuild and failed reset |
| `disclosure` | `Disclosure.cfg` | every small payment, every request and every single alteration of the bytes |
| `spent_budget` | `SyncDriverBudget.cfg` | *violation*: a wakeup that spends its iterations |
| `inner_retry` | `SyncDriverRetry.cfg` | *violation*: what an inner retry hides |
| `drained_boundary` | `SyncDriverBoundary.cfg` | *violation*: clearing the ladder on a drained queue |
| `failed_rebuild` | `SyncDriverRebuild.cfg` | *violation*: a rebuild that fails half way |

Bounds. Three heights give a wallet below, at and above a fault boundary and
leave room for a chunk of two; rewinds of one and three blocks keep the code's
shape (a shallow one that leaves blocks, a deep one that does not). Both
thresholds are one in the driver's runs, so that every rung is reached within
`MaxFaults`; the ladder's own run uses larger ones. `MaxFaults` and
`MaxChainChanges` sit in guards, never in constraints, so liveness is checked on
complete behaviours: faults are finite, which is what the liveness properties
are about. `MaxSyncIterations` is 12 or 14 where the budget is to spare and 2
where it runs out (1 000 by default in the code, `sync.rs:307`; the options take any
value from 1).

In `breaker` a third caller lets one result close the breaker while another
re-opens it and a third is still out; no count is bounded apart from the
saturating one, so recovery is checked on complete behaviours too.

In `spending` one lock block and one block to an expiry make the lock, the expiry
and the order between them change in one step; target expiries of 0 and 2 are one
that has passed and one beyond the lock window. `MaxVersions` 2 gives a PCZT that is
signed again after it was retained. Two calls are the fewest that compete; more
add no new pair, and the theorems below hold for any number.

In `store` two hold identifiers let a request's hold be replaced once, a balance of
up to 3 covers one hold and not both or both and not more, and three heights give a
frontier below, at and above a floor. One outpoint reported for two receivers is the
duplicate the walk refuses. `MaxHeight` 2 makes those heights 0, 1 and 2: the block
below the birthday, one that a chunk of two scans with the next, and one that a reorg,
a rewind or a lower tip takes back alone. A page of one root and two subtrees need two
pages to finish, with an expired pin, a reorg or a root above the frontier between
them, and a page or a stream may be one too long. Of the two pools one has no note on
the chain, for which there is no root to compare. A behaviour has one of three
workloads, dispensing, refreshing or scanning: each meets every crash and reset, and
the frontier under a refresh moves by `ScanBlocks` and `RewindTo` instead. Reservers,
requests, holds and seeds are interchangeable, and there is no liveness, so
symmetry is sound.

In `disclosure`, two spends and two outputs are the fewest with an order, a
duplicate, a dummy beside a real one and two outputs that both match. `MaxEntries`
and `MaxMessage` are above the first width of a number; a message of five bytes is
the shortest whose length takes several (`ShortAndLonger`). The theorems are about
any of these sizes, and about any string made of the tokens there are instead of the
exported one altered once.

### What the violations say

The four violation runs each check a sentence of the repository:

1. **A spent wakeup waits for a chain event.** `run_sync_wakeup` returns
   `Pending` and the loop keeps `should_sync = true`, but the select runs first
   and the tick's arm assigns it `handle_poll_tick`'s result, which is
   `catch_up_pending`. ADR-0002 promises a retry within one capped backoff of
   the source answering again. With budget to spare (`progress`) the same
   property holds.
2. **An unchecked chunk becomes an observation.** `committed_chunk_for` sees the
   last error of the retry loop only.
3. **A drained queue clears the ladder.** `emit_caught_up` reports the pinned
   tip; with `scan_queued_range` nothing was scanned towards it.
4. **A failed rebuild is final.** After `*state = NotOpened`, `account_birthday`
   fails before the next rebuild starts; no step of the driver reopens the
   database.

## Fairness

`WF_vars(DriverStep)`: the runtime keeps polling the driver's task, backoffs and
deadlines elapse, and every await returns. Attempts are bounded by
`sync_timeout_seconds`; that the other awaits (status reads, opening the stream,
a repair) return is an assumption. `SF_vars(CloseDriver)`: every select of the
driver has the close branch, a `biased` one checks it first and the other picks
a ready branch at random, so a request that stays ready is taken in the end
although other steps come in between. Nothing is assumed of the environment: the
chain need not grow, faults need not happen, events may stay undelivered.

Which branch the outer select takes is not assumed fair. A stream delivers
finitely many events and errors, so the polling tick is left as the only branch
in the end. A tick of a parked driver before its deadline only republishes,
which changes no modelled state, a stutter; weak fairness therefore says that
the reprobe deadline passes at last, which it does when `park_reprobe_ms` is set
(the default), and all runs set it.

In `CircuitBreaker`: `WF_vars(CooldownElapses)`, time passes;
`WF_vars(\E c \in Callers : Admit(c))`, somebody keeps calling, as the driver does
under its capped backoff and its polling tick; `WF_vars(Record(c))`, a call that
ended is recorded by the same task without an await; and strong fairness of
`TryReturns`, which says that a caller admitted again and again is not cancelled
every time. `Recovers` assumes a source that serves in the end; a source that
answers with neutral errors only may leave the breaker half-open for good, as
ADR-0002 says.

In `Spending`, only `ActorServes` uses fairness: weak fairness of `Acknowledge` and
`ReleaseUnacknowledged`. A future that is not dropped is polled again and then
acknowledges, and the actor's thread, woken by a dropped channel, runs on.
`WalletStore` and `Disclosure` state no fairness.

## Proofs

`RepairLadderProofs` proves, for every policy, number of rewind depths, set of
heights and saturation bound that `PolicyAssumption` allows:

- `LadderTypes`: `LadderSpec => []LadderTypeOK`
- `LadderBookkeeping`: `LadderSpec => []LadderInv`
- `ParksOnlyAtADeadEnd`: `LadderSpec => []ParkIsDeadEnd`
- `RebuildsLast`: `LadderSpec => []RebuildIsLastResort`
- `LadderOnlyClimbs`: `LadderSpec => NeverDeEscalates`

`ParkIsDeadEnd` and `RebuildIsLastResort` are not inductive: that the ladder
stands at Park says nothing of how it came there unless one knows, at every
lower rung, exactly which repairs were spent. `LadderInv` says that, rung by
rung: at `Retry` none; at `Rewind` every shallower depth fully, the current one
`attempts` times and fewer than the threshold while a fault is due; at
`RescanFromBirthday` every rewind fully and `attempts` rebuilds; at `Park`
either an operator fault or everything. The step that needs it is `RecordFault`,
where a fault may stay, escalate by a depth or a rung, or lift onto its class.
Saturation matters there: a counter that saturates below its threshold would
never exhaust its rung, hence `EscalateAfterFaults <= CounterMax`.

`SyncDriverProofs` proves of the whole driver, for every policy, chain, chunk
size, iteration budget, retry budget and number of faults:

- `DriverImplementsLadder`: `Spec => LadderSpec`, and with the ladder's theorems
  `DriverParksAndRebuildsLast`: `Spec => [](ParkIsDeadEnd /\ RebuildIsLastResort)`
- `DriverScansOnlyRepaired`: `Spec => ScansOnlyRepaired`
- `CatchesUpAgainstFreshTip`: `Spec => CaughtUpAgainstFreshTip`
- `ParkIsVisible`: `Spec => []ParkStaysVisible`
- `DriverTypes`, `DriverBookkeeping`: `Spec => []TypeOK`, `Spec => []DriverInv`
- `QuietMissesNothing`: `Spec /\ []BudgetLeft => []NoMissedBlocks`
- `EnvironmentCostsNoBlocks`: `Spec => NeverLosesBlocks`, if `FaultKinds` has no
  other kind than `Transient` and `DeadEnd` and the chain does not reorganize
- `RisingObservations`: `Spec => ObservationsCompared`

The ladder's guards are nowhere in the driver's code: nothing checks that no
repair is due when a fault is recorded. They hold because of where the driver
is, so the inductive invariant `DInv` (`TypeOK /\ DriverInv`) joins three parts.
`DriverControl` says where the task may be: no repair is due while one is
applied or an attempt is in flight; an active recovery at the head of an
iteration has one due; a parked driver is in its select. `DrainedToPinnedTip`
says what an attempt that records the tip may conclude at each of its stages.
`LadderInv` is the ladder's own. The proof goes in two passes: every step is
first shown to be a ladder step or a stutter (`DriverUsesLadderStep`), which
gives `LadderInv'` from `NextIInv` without opening the ladder again; then each
action preserves the rest, with one lemma per action. `EnterParkRung` shows why
both halves are needed: that a repair is due there is `AtPark`, a row of the
ladder's invariant, and that the driver is not parked already is
`DriverControl`.

Two of the theorems state conditions, because without them they are false:

- `BudgetLeft` says that no wakeup comes to its last iteration. The run
  `spent_budget` shows what happens otherwise. `QuietInv` adds to the
  property that a driver in its select owes a sync only while parked, and that the
  tip an attempt reports is the chain's unless events are still on their way.
- A divergence or a conflict is repaired by giving blocks up, which is right, so
  `NeverLosesBlocks` is about the faults that are not the chain's or the wallet's
  doing. `UntouchedInv` says that then only the rungs Retry and Park occur:
  a transient fault never escalates (`escalation_threshold`).

`RisingObservations` needs no condition. `ObservationsCompared` names the one way past the
comparison instead: a try that fails after its chunk committed leaves that chunk to
the next try, and when that one fails before it commits anything, the driver reads
its error only. `ComparedInv` is the invariant: stage by stage, what an attempt has
committed is compared, was there before it began, or is known to be `unchecked`. A
completed run compared its chunk in the try that completed it, and a run without
blocks only lowers an observation, so the exception is left to attempts that end in
an error. Rewinds and rebuilds lower the frontier and `checkedTo` together, and a
reorg lowers neither.

`CircuitBreakerProofs` proves, for any number of callers, any threshold
(zero included), saturation bound and number of attempts:

- `BreakerCounts`: `Spec => []BreakerInv`
- `BreakerTypes`, `BreakerOpensOnEvidence`: `Spec => []BreakerTypeOK`,
  `Spec => []OpensOnEvidence`
- `BreakerClosesOnCompletion`: `Spec => ClosesOnCompletion`

`OpensOnEvidence` speaks of a breaker that is not closed and so says nothing of
how it got there; `BreakerInv` adds that a closed breaker's counter is the
streak, below the threshold. `RecordFailure` is where all of it meets: a late
failure may find the breaker closed, half-open or open already.

`SpendingProofs` proves, for any number of calls, keys, outputs and target
expiries, and any lock window not shorter than the default expiry:

- `NoDoubleSpend`: `Spec => []OneSpendPerOutput`
- `LocksAreReleasable`, `SubmittedRetained`, `InFlightPending`,
  `RetriesBuildNothing`, `SpendingTypes`: `Spec => []` of the run's other
  invariants
- `SpendingImplementsRegister`: `Spec => ImplementsRegister`
- `SpendingInvariant`: `Spec => []SpendingInv`, which they follow from

`OneSpendPerOutput` is not inductive: two PCZTs that hold one output as an input
break it when both are extracted, and nothing in it says they cannot. The
strengthening is `OneClaimPerOutput` with `LocksOutliveClaims`: a PCZT claims its
inputs by its lock as long as it has not expired, a recorded transaction by its
record, input selection respects both, and the lock of a claim has at least as
many blocks left as the claim. `NewBlock` is where `ExpiryBlocks <= LockBlocks`
matters, and extraction, where a claim by lock becomes one by record. The rest of
`SpendingInv` says, part by part, what a call has left behind by where it is. Each
part has a lemma of its own, which works from what a step leaves of a call
(`GotoFields`, `MarkFields`, ...) rather than from the record updates. For the
refinement, `OneCompletes` says that a step completes at most one payment, and each
step then is `Complete`, `Bind`, `Answer` or a stutter.

`WalletStoreProofs` proves, for any number of everything:

- `RequestHeldOnce`: `Spec => []OneHoldPerRequest`
- `HoldsAreBacked`: `Spec => []HoldsBacked`
- `RefreshAttested`: `Spec => []RowsAttested`
- `CrashesKeepTheWallet`: `Spec => []FilesBelongTogether`
- `RootsStayBehind`: `Spec => []RootsBehindFrontier`
- `VerdictsFit`: `Spec => VerdictFits`
- `StoreTypeCorrect`: `Spec => []TypeOK`

`RequestHeldOnce` and `RefreshAttested` are inductive with the types, each over the
steps of its own component; the composition splits on who moved. `HoldsBacked` is
about a sum over the set of active holds and needs the lemmas of `FiniteSums`: the
sum over a finite set unfolds by any of its elements, so a hold more adds its
amount, and fewer holds sum to no more. `FiniteSums` derives induction over finite
sets from the well-foundedness of strict inclusion, by a set that has no smallest
counterexample, and recovers from it that the fold of the community modules, which
takes elements by `CHOOSE`, does not depend on what it chooses. The invariant around
it is `BackedInv`: what a call has read of the balance is, while it still waits to
create its hold, at most `peak`. `RootsBehindFrontier` and
`VerdictFits` rest on what an attempt has in hand from one await to the next
(`IngestInv` in `ScanIngestProofs`, its part `InHand`): the floor a backfill read is
not above the frontier, since nothing rewinds beside an attempt, and the roots below
the one it asks for next are on record; an attempt that goes on was answered within
the contract, but for an answer that passes the client and that the storage is going
to refuse; and behind the chunk it is about to verify the wallet's blocks are those of
the epoch, which is the link check of `ScanFetched` carried back to the fork.
`FilesBelongTogether` is not inductive either: it
needs `BuildFollows`, which says what the builder call carries at each step (after
the sealing its seed is the sealed one; while a handle exists nothing builds) and
at which steps of a reset there is an account.

`DisclosureProofs` proves, for every base of at least four values to a byte, every
bound on messages and lists, every set of messages and every length of a PCZT's
lists:

- `ReadsWire`: what a well-shaped disclosure is written as is read as that disclosure
- `WritesWire`: what is read from any string is well-shaped and written as that
  string, so `from_bytes` and `to_bytes` are inverses
- `UnsignedTells`: two disclosures with the same unsigned bytes, which the digest is
  of, differ in nothing but their signatures
- `ExportFaithful`: an export without errors is of the wallet's transaction, shows
  spends and the one matching output of the PCZT at their indexes, and every signature
  is of its digest
- `OnlyFaithfulPasses`: of all the strings over the tokens there are, what is
  decoded and passes `verify_disclosure` is the disclosure that was signed
- `DisclosureInvariant`: `Spec => []DisclosureInv`
- `BytesAreCanonical`, `ExportsAreNotInVain`, `OnlyTheSignedIsAccepted`,
  `AcceptedAnswers`, `DisclosureTypes`: `Spec => []` of the run's invariants

The difficulty is induction. `Power`, `ValueAt`, `FlattenSeq` and `Behind` are
recursive functions, and the induction theorems of the library cannot be instantiated
here. What is needed of each is proved by the least counterexample (`NaturalInduction`
in `FiniteSums`, which is about a set and not a predicate): that the function exists, that it unfolds, and what it computes: that
digits below the base determine their number, and the number below a power its
digits; that flattened strings stand one behind another (`Places`). On top of this
every writer has one lemma and every reader two, all in one form: a reader returns a
value and the position behind it if and only if the value's string stands there
(`At`). The step from numbers to strings is where *minimal* matters: without
`Minimal` a number would stand in four ways and `WritesWire` fail, as the mutant
`AnyWidth` does in the run.

The alphabet of `OnlyFaithfulPasses` (`Tokens`) is what may stand on the wire: any
byte, the payer's commitments, keys, proofs, signatures and cipher keys for any index,
the name of another transaction, and junk. In particular the only signatures are the
payer's, of the one digest, which is what unforgeability means here. `AcceptedMeansSigned` alone is not inductive: it needs
that the bytes received are such a string and that the disclosure decoded from them is
`FromBytes` of them, and before that, that what was exported is `Faithful`.
`DisclosureInv` says this stage by stage. `EvidenceAnswers` then follows from
`Faithful` alone, as what is accepted is what was exported.

Assumptions: `SpendingAssumption` (locks last at least one block and no less than
a default expiry, the two kinds of outputs differ, `Nobody` is not a call),
`ReservationsAssumption`, `UtxoRefreshAssumption` (numbers are numbers),
`ScanIngestAssumption` (positive sizes, an empty pool is a pool),
`WalletStoreAssumption` (`None` is no seed), `CodecAssumption` (a byte has at least
the four values of a `CompactSize`'s prefixes, and the bounds fit two bytes, as 65535
and 4096 do), `DisclosureAssumption` (lists no longer than a `u32` can index, messages
of bytes), `BreakerAssumption` (a threshold the counter can reach, at least one
attempt), `PolicyAssumption` (`PolicyNormalized`, what `normalized` guarantees, and numbers),
`NoRecoveryAssumption` (the marker for no recovery is not a recovery),
`AttemptAssumption` and `DriverAssumption` (positive sizes and budgets, heights
counted from 1, a positive number of blocks per rewind depth). TLC evaluates
them in the `breaker`, `driver`, `spending`, `store` and `disclosure` runs. The bounds of the runs are constants of the
theorems, any natural number.

## What is model-checked only

Everything temporal (`RepairFollows`, `CloseCompletes`, `Converges`, `Recovers`,
`ActorServes`): liveness under fairness is out of TLAPS' reach.

`ObservationChecked` is checked in `inner_retry` only, where it is violated: it is
the sentence of `SyncObservation`'s doc without the exception of
`ObservationsCompared`, and about every change, not only about a rise. Where chains
reorganize it fails with a single inner try too: a rewind, an uncompared chunk
behind it and a tip that shrank, and an empty run re-dates the observation downwards
to a block nobody compared.

What a property exempts, it does not show. `LocksReleasable` leaves out `leaked`, to
which a crash adds the PCZT that awaits its caller's acknowledgement: only the lock
window frees those inputs, and `OneSpendPerOutput` shows that this spends nothing
twice. `PendingWhileInFlight` leaves out calls that answered a failure.
`FilesBelongTogether` allows a database without an account and a handle whose
database is closed. `ImplementsRegister` is about the binding of a key: two calls
that both found it unbound each submit a payment. `VerdictFits` does not say that
nothing was written before a breach was found. `HoldsBacked` compares with `peak`,
`EvidenceAnswers` speaks of values on record; both are among the differences below.

## Differences met on the way

Places where a comment and the code differ that no run is spent on:

- `release_hold`'s doc (`zally-storage/src/wallet.rs:1005`) says that it updates
  active rows only; the code marks a finalized row as released too. `Active` is
  the same either way.
- A hold is created against the balance gross of the other holds; the doc of the
  record (`zally-storage/src/wallet.rs:387`) calls it net spendable. The sum inside
  the transaction makes the gross value the right one.
- Two reservations cannot both take the last note as the doc of
  `reserve_for_dispense` says, but a hold finalized and spent between the reading
  of the notes and the creation frees its sum while the notes read still count it:
  hence `peak`.
- `create` looks at the sealed seed only, its error is called `AccountAlreadyExists`.
  After a crash between sealing and the account only `open_or_create_account` goes
  on, and the mnemonic was never shown.
- After a reset that failed, every operation of the handle answers `NotOpened`, the
  next reset included, until the process is replaced (`failed_rebuild` shows it for
  the driver).
- `Wallet::sync`'s doc (1707) says that a step primes the subtree roots and then
  scans. It backfills them only when the queue has no range left and the pinned tip
  is above the fully scanned height, which `PlanScan` follows.
- A source's broken contract that the client finds calls for the operator; one that
  the storage finds (`ScanArtifactInvalid`, a page `put_subtree_roots` cannot store)
  is not retryable and is answered with a rewind, although the source will give the
  same answer again. A transaction fee above `u32` is lawful and ends there as well:
  `VerdictFits` therefore says nothing of `refused`.
- `export_payment_disclosure`'s doc (`zally-wallet/src/disclosure.rs:93`) files
  invalid retained proof inputs under `not_retryable`; the errors for an incomplete
  or invalid spend call for the operator.
- A rewind followed by a rescan up to the floor, between two commits of one walk,
  goes unnoticed by the floor. Rows of the old branch then stay until the next walk;
  `RowsAttested` holds, since the wallet has scanned that far again.
- `collect_ironwood_spends` takes a redacted value for a dummy's zero and leaves the
  spend out, where the Sapling export refuses. `EvidenceAnswers` says so: inputs
  *whose value is on record* are shown.

## What is not modelled

- The scan queue's priorities: `zcash_client_sqlite` may scan a range at the tip
  first, so `fully_scanned_height` may stand still while chunks commit. The
  model scans upwards only.
- What a source may answer in content: an answer of the right shape is of the pinned
  chain. Wrong content is `TreeDamaged` or a fault of `ScanAttempt`.
- A host that rewinds or calls `reset_to_birthday` beside an attempt of its own: the
  driver is the only caller of rewinds and makes them between attempts.
- The event channel, logging, metrics.
- Durations: backoff lengths, poll intervals and deadlines are "some time".
- Restarts of the process in the driver: all driver state is rebuilt from the
  wallet database at start, which `Init` allows with an empty wallet only.
- Two builders on the same files, several accounts in one database, and a
  reservation beside a spend: reservations are advisory, nothing in `spend.rs`
  reads them, and `BalanceMoves` stands for every spend.
- The refresh driver's own faults and reprobes, which only restart walks.
- The bytes of keys, notes, addresses, memos and proofs; note commitments of the
  outputs the export discloses are not recomputed by the code either.
- Submitters' and the chain client's transport and decoding (`zally-chain`): what
  they may answer is modelled, how is I/O.
- Read models, wallet events and metrics: projections of the database and
  best-effort broadcasts, which nothing modelled reads.

## Plan

1. *(done)* `RepairLadder`, `ScanAttempt` and `SyncDriver` with their proofs.
2. *(done)* `CircuitBreaker`, with the proof of its counter invariant.
3. *(done)* `Spending` with the PCZT flow, its refinement of `PaymentRegister`, and
   their proofs.
4. *(done)* `Reservations`, `UtxoRefresh` and `WalletStore` with their proofs.
5. *(done)* `DisclosureCodec` and `Disclosure`.
6. *(done)* `ScanIngest` in `WalletStore`, with the proofs of `RootsBehindFrontier`
   and `VerdictFits`.
7. *(done)* `NoMissedBlocks`, `NeverLosesBlocks`, `ObservationsCompared` and
   `HoldsBacked` as theorems.
8. *(done)* the five invariants of `Disclosure` as theorems.
9. Two builders on one wallet's files, once the code says what it promises there.
10. The scan queue's priorities in `ScanAttempt`, with the upstream planner as an
   external definition.
