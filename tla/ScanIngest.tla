------------------------------ MODULE ScanIngest ------------------------------
(***************************************************************************)
(* What one scan attempt reads from a chain source, checks and writes:     *)
(* Wallet::sync and scan_queued_range down to scan_blocks and              *)
(* verify_tree_roots (zally-wallet/src/sync.rs, zally-storage/src/         *)
(* sqlite.rs), over a source that may break its contract (zally-chain/src/ *)
(* source.rs, zinder_source.rs).  ScanAttempt abstracts all of this to a   *)
(* fault's kind; here the kind is what the checks make of the answer.      *)
(*                                                                         *)
(* Heights count from the block below the birthday.  As in ScanAttempt the *)
(* wallet scans upwards, its queue being scanned+1..queued.  A source      *)
(* answers under a pinned epoch from that epoch's chain, or breaks the     *)
(* contract in the shape of its answer.  One attempt runs at a time.       *)
(***************************************************************************)
EXTENDS UtxoRefresh, Sequences

CONSTANTS
  Pools,        \* shielded pools
  EmptyPools,   \* pools without a note on this chain
  ChunkBlocks,  \* MAX_BLOCKS_PER_SYNC
  PageRoots,    \* SUBTREE_ROOT_PAGE
  MaxRoots      \* bound: subtrees a pool completes

ASSUME ScanIngestAssumption ==
  /\ "none" \notin Pools
  /\ EmptyPools \subseteq Pools
  /\ {MaxHeight, ChunkBlocks, PageRoots} \subseteq Nat \ {0}
  /\ MaxRoots \in Nat

VARIABLES
  best,     \* the source's chain: its tip, and where its one reorg began
  mine,     \* where the wallet's blocks of that reorg begin
  queued,   \* end of the scan queue
  tipRow,   \* visible tip of ext_zally_chain_tips
  roots,    \* subtree roots on record: their completing height, by pool and index
  damaged,  \* pools whose commitment tree in the database is not the chain's
  scan      \* the attempt in flight

ingestVars == <<best, mine, queued, tipRow, roots, damaged, scan>>

NoFork == MaxHeight + 1   \* bound: at most one reorg

Views == [tip : Heights, fork : 1..NoFork]

\* Two views, each told by where its reorg began, hold the same block.
SameBlock(fork, other, h) == (h >= fork) = (h >= other)

NoScan == [at |-> "idle", records |-> FALSE, epoch |-> [tip |-> 0, fork |-> NoFork],
           to |-> 0, anchor |-> 0, blocks |-> <<>>, fit |-> TRUE,
           floor |-> NoHeight, todo |-> {}, pool |-> "none", next |-> 0,
           breached |-> FALSE, verdict |-> "none"]

NoRoots == [p \in Pools |-> <<>>]

ScanIngestInit ==
  /\ best = [tip |-> 0, fork |-> NoFork]
  /\ mine = NoFork
  /\ queued = NoHeight
  /\ tipRow = NoHeight
  /\ roots = NoRoots
  /\ damaged = {}
  /\ scan = NoScan

-----------------------------------------------------------------------------
(* Ends of an attempt, named for the error that ends it.                   *)

Ended(verdict, breached) ==
  scan' = [NoScan EXCEPT !.at = "ended", !.verdict = verdict, !.breached = breached]

EndScan(verdict) == Ended(verdict, scan.breached)

\* A ChainSourceError of posture RequiresOperator.
Refused(lawful) == Ended("operator", scan.breached \/ ~lawful)

\* A wrong answer the client lets pass; the storage is to find it.
Unfit(s) == [s EXCEPT !.fit = FALSE, !.breached = TRUE]

database == <<mine, queued, tipRow, roots, damaged, scanned>>

Resting == scan.at \in {"idle", "ended"}

\* Every read asks for the source's revision and capabilities and for its
\* network first (ensure_capabilities, pinned_epoch).
SourceRefused == Refused(FALSE)

\* Any read may find the source away or the epoch's pin gone.
ReadFails ==
  /\ scan.at \in {"pin", "roots", "state", "blocks", "verify"}
  /\ EndScan("retry") \/ SourceRefused
  /\ UNCHANGED <<best, database>>

-----------------------------------------------------------------------------
(* sync_inner and scan_queued_range_inner.                                 *)

BeginScan(records) ==
  /\ Resting
  /\ scan' = [NoScan EXCEPT !.at = "pin", !.records = records]
  /\ UNCHANGED <<best, database>>

\* translate_chain_epoch: an epoch of another network, or one whose settled tip
\* is not on its visible chain.
EpochRefused == Refused(FALSE)

PinScan ==
  /\ scan.at = "pin"
  /\ \/ scan' = [scan EXCEPT !.at = IF scan.records THEN "tip" ELSE "plan",
                             !.records = FALSE, !.epoch = best]
     \/ EpochRefused
  /\ UNCHANGED <<best, database>>

\* update_chain_tip queues up to a higher tip; the first sets the frontier.
UpdateTip ==
  /\ scan.at = "tip"
  /\ scan' = [scan EXCEPT !.at = "tipRow"]
  /\ queued' = IF queued < scan.epoch.tip THEN scan.epoch.tip ELSE queued
  /\ scanned' = IF scanned = NoHeight THEN 0 ELSE scanned
  /\ UNCHANGED <<best, mine, tipRow, roots, damaged>>

\* record_chain_tips, a transaction of its own.
RecordTips ==
  /\ scan.at = "tipRow"
  /\ scan' = [scan EXCEPT !.at = "plan"]
  /\ tipRow' = scan.epoch.tip
  /\ UNCHANGED <<best, mine, queued, roots, damaged, scanned>>

-----------------------------------------------------------------------------
(* plan_scan_range.                                                        *)

Smaller(a, b) == IF a < b THEN a ELSE b

\* The queue's range, clamped to the pinned tip and cut to a chunk.
QueueEnd == Smaller(queued, scan.epoch.tip)
RangeLeft == scanned # NoHeight /\ scanned < QueueEnd
ScanRange ==
  scan' = [scan EXCEPT !.at = "state", !.floor = NoHeight,
                       !.to = Smaller(scanned + ChunkBlocks, QueueEnd)]

CaughtUp == scanned # NoHeight /\ scan.epoch.tip <= scanned

\* A wallet below the tip without a range to scan backfills subtree roots.
PlanScan ==
  /\ scan.at = "plan"
  /\ \/ RangeLeft /\ ScanRange
     \/ /\ ~RangeLeft /\ ~CaughtUp
        /\ scan' = [scan EXCEPT !.at = "roots", !.floor = scanned, !.todo = Pools]
     \/ ~RangeLeft /\ CaughtUp /\ EndScan("completed")
  /\ UNCHANGED <<best, database>>

Replan ==
  /\ scan.at = "roots"
  /\ scan.todo = {}
  /\ IF RangeLeft THEN ScanRange ELSE EndScan("completed")
  /\ UNCHANGED <<best, database>>

-----------------------------------------------------------------------------
(* backfill_subtree_roots.                                                 *)

\* Bound: a page is one root too long at most.
Pages == UNION {[1..n -> [index : 0..(MaxRoots - 1), end : Heights]] : n \in 0..(PageRoots + 1)}

\* The contract: at most a page of roots, from the one asked for on.
InContract(page) ==
  /\ Len(page) <= PageRoots
  /\ \A k \in scan.next..(scan.next + Len(page) - 1) : page[k - scan.next + 1].index = k
  /\ \A i, j \in DOMAIN page : i < j => page[i].end <= page[j].end

\* validate_subtree_root_page
ValidPage(page) ==
  /\ Len(page) <= PageRoots
  /\ \A i \in DOMAIN page : page[i].index = scan.next + i - 1
  /\ \A i, j \in DOMAIN page : i < j => page[i].end <= page[j].end

\* Mutant: roots above the scanned frontier are not deferred.
KeepsAll(page, kept) == kept = Len(page)

\* subtree_roots_completed_at_or_below: how many roots of the page stay.
Keeps(page, kept) ==
  /\ \A i \in 1..kept : page[i].end <= scan.floor
  /\ kept < Len(page) => page[kept + 1].end > scan.floor

\* put_subtree_roots: kept roots take consecutive indexes from the first's.
Installed(old, page, kept) ==
  [k \in DOMAIN old \cup {page[1].index + i - 1 : i \in 1..kept} |->
     IF k \in page[1].index..(page[1].index + kept - 1)
       THEN page[k - page[1].index + 1].end ELSE old[k]]

\* A root completed in a block the wallet does not have.
Foreign(page, kept) ==
  \E i \in 1..kept : ~SameBlock(mine, scan.epoch.fork, page[i].end)

\* What is wrong with a valid page is its bytes, or that a root is not the one
\* the tree holds: put_subtree_roots reports either as SqliteFailed.
PageFails == EndScan("refused")

FetchRoots(p) ==
  /\ scan.at = "roots"
  /\ p \in scan.todo
  /\ scan.pool \in {p, "none"}
  /\ \E page \in Pages : \E kept \in 0..Len(page) :
       LET last == kept < Len(page) \/ Len(page) < PageRoots
           read == [scan EXCEPT !.pool = IF last THEN "none" ELSE p,
                                !.todo = IF last THEN @ \ {p} ELSE @,
                                !.next = IF last THEN 0 ELSE page[kept].index + 1,
                                !.breached = @ \/ ~InContract(page)]
       IN /\ Keeps(page, kept)
          /\ \/ ValidPage(page) /\ kept = 0 /\ scan' = read /\ UNCHANGED <<roots, damaged>>
             \/ /\ ValidPage(page) /\ kept # 0
                /\ roots' = [roots EXCEPT ![p] = Installed(@, page, kept)]
                /\ IF Foreign(page, kept)
                     THEN damaged' \in {damaged, damaged \cup ({p} \ EmptyPools)}
                     ELSE UNCHANGED damaged
                /\ scan' = read
             \/ ValidPage(page) /\ kept # 0 /\ PageFails /\ UNCHANGED <<roots, damaged>>
             \/ ~ValidPage(page) /\ Refused(InContract(page)) /\ UNCHANGED <<roots, damaged>>
  /\ UNCHANGED <<best, mine, queued, tipRow, scanned>>

-----------------------------------------------------------------------------
(* scan_one_range and scan_and_emit.                                       *)

\* decode_tree_state: the payload has no frontier of an active pool.
FrontierMissing == Refused(FALSE)

\* chain_state_at: a tree state of the asked height.  A source other than the
\* Zinder client may leave a frontier out.
TreeState(asked, next) ==
  \/ \E h \in Heights : IF h = asked THEN scan' = next ELSE Refused(FALSE)
  \/ FrontierMissing
  \/ scan' = Unfit(next)

FetchAnchor ==
  /\ scan.at = "state"
  /\ TreeState(scanned, [scan EXCEPT !.at = "blocks", !.anchor = scanned])
  /\ UNCHANGED <<best, database>>

Expected == scan.to - scanned

Asked == [i \in 1..Expected |-> scanned + i]

\* Bound: a stream is one block too long at most.
Streams == UNION {[1..n -> Heights] : n \in 0..(Expected + 1)}

InOrder(stream) == \A i \in DOMAIN stream : stream[i] = scanned + i /\ stream[i] <= scan.to

\* Mutant: a stream that ends early is taken for the whole range.
InOrderOnly(stream) == InOrder(stream)

\* validate_compact_block_height and validate_compact_block_count
WholeRange(stream) == InOrder(stream) /\ Len(stream) = Expected

\* decode_compact_block: an amount out of range.
BlockMalformed == Refused(FALSE)

\* A fee above u32 is lawful and passes like a block of another format.
FetchBlocks ==
  /\ scan.at = "blocks"
  /\ \/ \E stream \in Streams :
          IF WholeRange(stream)
            THEN scan' = [scan EXCEPT !.at = "scan", !.blocks = stream,
                                      !.breached = @ \/ stream # Asked]
            ELSE Refused(stream = Asked)
     \/ BlockMalformed
     \/ \E next \in {[scan EXCEPT !.at = "scan", !.blocks = Asked]} :
          scan' = Unfit(next) \/ scan' = [next EXCEPT !.fit = FALSE]
  /\ UNCHANGED <<best, database>>

\* The first block extends the wallet's last, each other one its predecessor.
Linked ==
  /\ SameBlock(mine, scan.epoch.fork, scanned)
  /\ \A i \in DOMAIN scan.blocks : scan.blocks[i] = scanned + i

\* compact_block_to_upstream and tree_state_to_upstream can write down what was
\* fetched, and the state immediately precedes the blocks.
Usable == scan.fit /\ scan.anchor = scanned

\* scan_blocks, with map_scan_error for what scan_cached_blocks finds.
ScanFetched ==
  /\ scan.at = "scan"
  /\ LET reached == scanned + Len(scan.blocks)
     IN \/ ~Usable /\ EndScan("refused") /\ UNCHANGED <<scanned, mine>>
        \/ Usable /\ ~Linked /\ EndScan("reorg") /\ UNCHANGED <<scanned, mine>>
        \/ /\ Usable /\ Linked /\ damaged # {}
           /\ EndScan("conflict")
           /\ UNCHANGED <<scanned, mine>>
        \/ /\ Usable /\ Linked
           /\ scanned' = reached
           /\ mine' = IF reached >= scan.epoch.fork THEN scan.epoch.fork ELSE mine
           /\ scan' = [scan EXCEPT !.at = "verify", !.blocks = <<>>]
  /\ UNCHANGED <<best, queued, tipRow, roots, damaged>>

\* A pool without a leaf has no root to compare.
RootsDiffer == \E p \in Pools \ EmptyPools : p \in damaged

VerifyScan ==
  /\ scan.at = "verify"
  /\ \/ \E h \in Heights :
          IF h = scanned
            THEN EndScan(IF RootsDiffer THEN "diverged" ELSE "completed")
            ELSE Refused(FALSE)
     \/ FrontierMissing
     \/ Ended("refused", TRUE)
  /\ UNCHANGED <<best, database>>

-----------------------------------------------------------------------------
(* Beside the attempts.                                                    *)

\* rewind_to_height fetches the target's tree state, of exactly that height,
\* and truncates to it: blocks, queue and roots above it go.
RewindWallet(h) ==
  /\ Resting
  /\ RewindTo(h)
  /\ mine' = IF mine > h THEN NoFork ELSE mine
  /\ queued' = Smaller(queued, h)
  /\ roots' = [p \in Pools |->
                 [k \in {k \in DOMAIN roots[p] : \A j \in 0..k : roots[p][j] <= h} |-> roots[p][k]]]
  /\ damaged' \in SUBSET damaged
  /\ UNCHANGED <<best, tipRow, scan>>

\* A defect the repair ladder is there for.
TreeDamaged(p) ==
  /\ p \in Pools \ (damaged \cup EmptyPools)
  /\ scanned > 0
  /\ damaged' = damaged \cup {p}
  /\ UNCHANGED <<best, mine, queued, tipRow, roots, scan, scanned>>

ChainAdvances ==
  /\ best.tip < MaxHeight
  /\ best' = [best EXCEPT !.tip = @ + 1]
  /\ UNCHANGED <<scan, database>>

ChainReorgs ==
  /\ best.fork = NoFork
  /\ \E h \in 1..best.tip :
       \E t \in h..best.tip : best' = [tip |-> t, fork |-> h]
  /\ UNCHANGED <<scan, database>>

ScanIngestStep ==
  \/ /\ \/ ReadFails
        \/ \E records \in BOOLEAN : BeginScan(records)
        \/ PinScan
        \/ UpdateTip
        \/ RecordTips
        \/ PlanScan
        \/ Replan
        \/ \E p \in Pools : FetchRoots(p)
        \/ FetchAnchor
        \/ FetchBlocks
        \/ ScanFetched
        \/ VerifyScan
        \/ \E p \in Pools : TreeDamaged(p)
        \/ ChainAdvances
        \/ ChainReorgs
     /\ UNCHANGED <<rows, walk>>
  \/ \E h \in Heights : RewindWallet(h)

\* create_account_on sets the tip to the birthday block, there yet or not.
TipSet ==
  /\ scanned' = IF scanned = NoHeight THEN 0 ELSE scanned
  /\ queued' = IF queued < 1 THEN 1 ELSE queued
  /\ UNCHANGED <<best, mine, tipRow, roots, damaged, scan>>

\* The database is removed.
IngestDropped ==
  /\ mine' = NoFork
  /\ queued' = NoHeight
  /\ tipRow' = NoHeight
  /\ roots' = NoRoots
  /\ damaged' = {}
  /\ UNCHANGED <<best, scan>>

-----------------------------------------------------------------------------
ScanStages == {"idle", "pin", "tip", "tipRow", "plan", "roots", "state", "blocks",
               "scan", "verify", "ended"}
Verdicts   == {"none", "completed", "operator", "retry", "refused", "reorg",
               "conflict", "diverged"}

ScanIngestTypeOK ==
  /\ best \in Views
  /\ mine \in 1..NoFork
  /\ {queued, tipRow} \subseteq Frontiers
  /\ DOMAIN roots = Pools
  /\ \A p \in Pools : /\ DOMAIN roots[p] \subseteq Nat
                       /\ roots[p] \in [DOMAIN roots[p] -> Heights]
  /\ damaged \subseteq Pools \ EmptyPools
  /\ scan \in [at : ScanStages, records : BOOLEAN, epoch : Views, to : Heights,
               anchor : Frontiers, blocks : UNION {[1..n -> Heights] : n \in Heights},
               fit : BOOLEAN, floor : Frontiers, todo : SUBSET Pools,
               pool : Pools \cup {"none"}, next : Nat, breached : BOOLEAN,
               verdict : Verdicts]

(***************************************************************************)
(* No subtree root is on record that completes above the fully scanned     *)
(* height, and a pool's roots are those of its first subtrees without a    *)
(* gap: a root above would commit reads to blocks the wallet has not       *)
(* scanned (subtree_roots_completed_at_or_below).  It has to survive pages *)
(* of any shape, expired pins between them, reorgs, rewinds and resets.    *)
(***************************************************************************)
RootsBehindFrontier ==
  \A p \in Pools : \A k \in DOMAIN roots[p] :
    /\ roots[p][k] <= scanned
    /\ 0..k \subseteq DOMAIN roots[p]

EndsScan == scan.at # "ended" /\ scan'.at = "ended"

EndFits ==
  /\ scan'.verdict = "operator" => scan'.breached
  /\ scan'.verdict = "reorg" => ~SameBlock(mine, scan.epoch.fork, scanned)
  /\ scan'.verdict = "diverged" => damaged # {}
  /\ scan'.verdict = "completed" =>
       /\ ~scan'.breached
       /\ scan.at = "verify" =>
            /\ damaged = {}
            /\ \A h \in 0..scanned : SameBlock(mine, scan.epoch.fork, h)

(***************************************************************************)
(* What an attempt ends with fits what happened, so that the repair chosen *)
(* from it treats the right party: the operator is called only for a       *)
(* source that broke its contract, a reorg is reported only when the       *)
(* wallet's last block is not on the chain it read, a divergence only when *)
(* the tree is damaged; and an attempt that completes was answered within  *)
(* the contract throughout, on a wallet whose blocks are the epoch's.      *)
(***************************************************************************)
VerdictFits == [][EndsScan => EndFits]_scan
=============================================================================
