-------------------------- MODULE ScanIngestProofs --------------------------
(***************************************************************************)
(* What a scan attempt keeps, for any pools, heights, page and chunk       *)
(* sizes: lemmas over the steps of ScanIngest, for WalletStoreProofs to    *)
(* compose.                                                                *)
(*                                                                         *)
(* RootsBehindFrontier is inductive with InHand: the floor of a backfill   *)
(* is not above the frontier, and the roots below the one asked for are on *)
(* record.  VerdictFits rests on the rest of InHand: an attempt that goes  *)
(* on was answered within the contract, but for an answer the storage is   *)
(* going to refuse, and behind the chunk verified the wallet's blocks are  *)
(* the epoch's.                                                            *)
(***************************************************************************)
EXTENDS ScanIngest, TLAPS

Blocks == UNION {[1..n -> Heights] : n \in Heights}

Attempt ==
  [at : ScanStages, records : BOOLEAN, epoch : Views, to : Heights, anchor : Frontiers,
   blocks : Blocks, fit : BOOLEAN, floor : Frontiers, todo : SUBSET Pools,
   pool : Pools \cup {"none"}, next : Nat, breached : BOOLEAN, verdict : Verdicts]

\* What the attempt has in hand, stage by stage.
InHand ==
  /\ scan.at \in {"state", "blocks", "scan"} => scanned \in Heights /\ scanned < scan.to
  /\ scan.at = "scan" => scan.blocks = Asked
  /\ scan.at = "roots" => scan.floor <= scanned
  /\ scan.pool = "none" => scan.next = 0
  /\ scan.pool # "none" =>
       /\ scan.at = "roots" /\ scan.pool \in scan.todo
       /\ 0..(scan.next - 1) \subseteq DOMAIN roots[scan.pool]
  /\ scan.breached /\ scan.at # "ended" => scan.at \in {"blocks", "scan"} /\ ~scan.fit
  /\ scan.at = "verify" =>
       IF scanned < scan.epoch.fork THEN scanned < mine ELSE mine = scan.epoch.fork

MineScanned == mine <= scanned \/ mine = NoFork

IngestInv ==
  /\ scanned \in Frontiers
  /\ ScanIngestTypeOK
  /\ RootsBehindFrontier
  /\ InHand
  /\ MineScanned

-----------------------------------------------------------------------------
(* Types.                                                                  *)

LEMMA BoundsTyped ==
  ASSUME ScanIngestAssumption, UtxoRefreshAssumption
  PROVE  /\ MaxHeight \in Nat \ {0}
         /\ 0 \in Heights /\ 1 \in Heights
         /\ NoFork \in 1..NoFork
         /\ NoHeight \in Frontiers
         /\ [tip |-> 0, fork |-> NoFork] \in Views
BY DEF ScanIngestAssumption, UtxoRefreshAssumption, Heights, NoFork, Frontiers, Views

LEMMA NoBlocks ==
  ASSUME ScanIngestAssumption, UtxoRefreshAssumption
  PROVE  <<>> \in Blocks
<1>1. <<>> \in [1..0 -> Heights]
  OBVIOUS
<1>. QED
  BY <1>1, BoundsTyped DEF Blocks

LEMMA NoScanTyped ==
  ASSUME ScanIngestAssumption, UtxoRefreshAssumption
  PROVE  NoScan \in Attempt
<1>. DEFINE nothing == [tip |-> 0, fork |-> NoFork]
<1>1. nothing \in Views /\ 0 \in Heights /\ NoHeight \in Frontiers /\ <<>> \in Blocks
  BY BoundsTyped, NoBlocks
<1>2. "idle" \in ScanStages /\ "none" \in Verdicts
  BY DEF ScanStages, Verdicts
<1>3. NoScan = [at |-> "idle", records |-> FALSE, epoch |-> nothing, to |-> 0,
                anchor |-> 0, blocks |-> <<>>, fit |-> TRUE, floor |-> NoHeight,
                todo |-> {}, pool |-> "none", next |-> 0, breached |-> FALSE,
                verdict |-> "none"]
  BY DEF NoScan
<1>. HIDE DEF nothing
<1>. QED
  BY <1>1, <1>2, <1>3 DEF Attempt, Frontiers

LEMMA IngestTypes ==
  ScanIngestTypeOK <=>
    /\ best \in Views
    /\ mine \in 1..NoFork
    /\ {queued, tipRow} \subseteq Frontiers
    /\ DOMAIN roots = Pools
    /\ \A p \in Pools : /\ DOMAIN roots[p] \subseteq Nat
                        /\ roots[p] \in [DOMAIN roots[p] -> Heights]
    /\ damaged \subseteq Pools \ EmptyPools
    /\ scan \in Attempt
BY DEF ScanIngestTypeOK, Attempt, Blocks

LEMMA EndedKeeps ==
  ASSUME ScanIngestAssumption, UtxoRefreshAssumption, IngestInv,
         NEW v \in Verdicts, NEW b \in BOOLEAN, Ended(v, b)
  PROVE  scan' \in Attempt /\ (UNCHANGED <<database, best>> => InHand')
<1>1. scan' = [NoScan EXCEPT !.at = "ended", !.verdict = v, !.breached = b]
  BY DEF Ended
<1>2. scan' \in Attempt
  BY <1>1, NoScanTyped DEF Attempt, ScanStages
<1>3. scan'.at = "ended" /\ scan'.pool = "none" /\ scan'.next = 0
  BY <1>1 DEF NoScan
<1>. QED
  BY <1>2, <1>3 DEF InHand

\* Only the attempt moves.
LEMMA AttemptMoves ==
  ASSUME IngestInv, scan' \in Attempt, InHand', UNCHANGED <<best, database>>
  PROVE  IngestInv'
BY DEF IngestInv, ScanIngestTypeOK, RootsBehindFrontier, MineScanned, database, Attempt, Blocks

LEMMA AttemptEnds ==
  ASSUME ScanIngestAssumption, UtxoRefreshAssumption, IngestInv,
         NEW v \in Verdicts, NEW b \in BOOLEAN, Ended(v, b), UNCHANGED <<best, database>>
  PROVE  IngestInv'
BY EndedKeeps, AttemptMoves

LEMMA InTypes ==
  ASSUME IngestInv
  PROVE  /\ scan \in Attempt
         /\ scanned \in Frontiers
         /\ scan.breached \in BOOLEAN /\ scan.fit \in BOOLEAN
         /\ InHand
BY IngestTypes DEF IngestInv, Attempt

-----------------------------------------------------------------------------
(* The reads and the plan.                                                 *)

LEMMA ReadFailsKeeps ==
  ASSUME ScanIngestAssumption, UtxoRefreshAssumption, IngestInv, ReadFails
  PROVE  IngestInv'
BY InTypes, AttemptEnds DEF ReadFails, EndScan, SourceRefused, Refused, Verdicts

LEMMA BeginScanKeeps ==
  ASSUME ScanIngestAssumption, UtxoRefreshAssumption, IngestInv,
         NEW r \in BOOLEAN, BeginScan(r)
  PROVE  IngestInv'
<1>1. scan' = [NoScan EXCEPT !.at = "pin", !.records = r]
  BY DEF BeginScan
<1>2. scan' \in Attempt
  BY <1>1, NoScanTyped DEF Attempt, ScanStages
<1>3. scan'.at = "pin" /\ scan'.pool = "none" /\ scan'.next = 0 /\ ~scan'.breached
  BY <1>1 DEF NoScan
<1>. QED
  BY <1>2, <1>3, AttemptMoves DEF BeginScan, InHand

LEMMA PinScanKeeps ==
  ASSUME ScanIngestAssumption, UtxoRefreshAssumption, IngestInv, PinScan
  PROVE  IngestInv'
<1>0. scan \in Attempt /\ best \in Views /\ InHand
  BY InTypes, IngestTypes DEF IngestInv
<1>1. CASE Refused(FALSE)
  BY <1>1, AttemptEnds DEF PinScan, Refused, Verdicts
<1>2. CASE scan' = [scan EXCEPT !.at = IF scan.records THEN "tip" ELSE "plan",
                                !.records = FALSE, !.epoch = best]
  <2>1. scan' \in Attempt
    BY <1>0, <1>2 DEF Attempt, ScanStages
  <2>2. /\ scan'.at \in {"tip", "plan"} /\ scan'.pool = scan.pool /\ scan'.next = scan.next
        /\ scan'.breached = scan.breached
    BY <1>0, <1>2 DEF Attempt
  <2>3. InHand'
    BY <1>0, <2>2 DEF InHand, PinScan
  <2>. QED
    BY <2>1, <2>3, AttemptMoves DEF PinScan
<1>. QED
  BY <1>1, <1>2 DEF PinScan, EpochRefused

LEMMA TipKeeps ==
  ASSUME ScanIngestAssumption, UtxoRefreshAssumption, IngestInv, UpdateTip \/ RecordTips
  PROVE  IngestInv'
<1>0. scan \in Attempt /\ scan.epoch.tip \in Heights /\ scanned \in Frontiers /\ InHand
  BY InTypes DEF Attempt, Views
<1>1. scan' \in Attempt /\ scan'.at \in {"tipRow", "plan"} /\ scan'.pool = scan.pool
      /\ scan'.next = scan.next /\ scan'.breached = scan.breached
  BY <1>0 DEF UpdateTip, RecordTips, Attempt, ScanStages
<1>2. /\ queued' \in Frontiers /\ tipRow' \in Frontiers /\ scanned' \in Frontiers
      /\ scanned' >= scanned
  BY <1>0, BoundsTyped DEF UpdateTip, RecordTips, IngestInv, ScanIngestTypeOK, Frontiers,
     Heights, NoHeight
<1>3. UNCHANGED <<best, mine, roots, damaged>>
  BY DEF UpdateTip, RecordTips
<1>4. ScanIngestTypeOK'
  BY <1>1, <1>2, <1>3, IngestTypes DEF IngestInv, ScanIngestTypeOK, Attempt, Blocks
<1>5. InHand'
  BY <1>0, <1>1, <1>3 DEF InHand, UpdateTip, RecordTips
<1>6. RootsBehindFrontier' /\ MineScanned'
  BY <1>0, <1>2, <1>3, BoundsTyped DEF IngestInv, RootsBehindFrontier, MineScanned,
     ScanIngestTypeOK, Frontiers, Heights, NoHeight, NoFork
<1>. QED
  BY <1>2, <1>4, <1>5, <1>6 DEF IngestInv

LEMMA ScanRangeKeeps ==
  ASSUME ScanIngestAssumption, UtxoRefreshAssumption, IngestInv, RangeLeft, ScanRange,
         scan.at = "plan" \/ (scan.at = "roots" /\ scan.pool = "none"),
         UNCHANGED <<best, database>>
  PROVE  IngestInv'
<1>0. /\ scan \in Attempt /\ scan.epoch.tip \in Heights /\ scanned \in Frontiers /\ InHand
      /\ queued \in Frontiers
  BY InTypes DEF Attempt, Views, IngestInv, ScanIngestTypeOK
<1>. DEFINE to == Smaller(scanned + ChunkBlocks, QueueEnd)
<1>1. QueueEnd \in Frontiers /\ scanned \in Heights /\ scanned < QueueEnd
  BY <1>0 DEF RangeLeft, QueueEnd, Smaller, Frontiers, NoHeight, Heights
<1>2. to \in Heights /\ scanned < to
  BY <1>1, BoundsTyped DEF Smaller, Frontiers, Heights, NoHeight, ScanIngestAssumption
<1>3. scan' = [scan EXCEPT !.at = "state", !.floor = NoHeight, !.to = to]
  BY DEF ScanRange
<1>. HIDE DEF to
<1>4. scan' \in Attempt
  BY <1>0, <1>2, <1>3, BoundsTyped DEF Attempt, ScanStages
<1>5. scan'.at = "state" /\ scan'.to = to /\ scan'.pool = scan.pool /\ scan'.next = scan.next
      /\ scan'.breached = scan.breached
  BY <1>0, <1>3 DEF Attempt
<1>6. InHand'
  BY <1>0, <1>1, <1>2, <1>5 DEF InHand, database
<1>. QED
  BY <1>4, <1>6, AttemptMoves

LEMMA PlanKeeps ==
  ASSUME ScanIngestAssumption, UtxoRefreshAssumption, IngestInv, PlanScan \/ Replan
  PROVE  IngestInv'
<1>0. scan \in Attempt /\ scanned \in Frontiers /\ InHand
  BY InTypes
<1>1. CASE PlanScan /\ ~RangeLeft /\ ~CaughtUp
  <2>1. scan' = [scan EXCEPT !.at = "roots", !.floor = scanned, !.todo = Pools]
    BY <1>1 DEF PlanScan
  <2>2. scan' \in Attempt
    BY <1>0, <2>1 DEF Attempt, ScanStages
  <2>3. /\ scan'.at = "roots" /\ scan'.floor = scanned /\ scan'.pool = scan.pool
        /\ scan'.next = scan.next /\ scan'.breached = scan.breached
    BY <1>0, <2>1 DEF Attempt
  <2>4. InHand'
    BY <1>0, <1>1, <2>3 DEF InHand, PlanScan, database, Frontiers, Heights, NoHeight
  <2>. QED
    BY <1>1, <2>2, <2>4, AttemptMoves DEF PlanScan
<1>2. CASE EndScan("completed")
  BY <1>2, InTypes, AttemptEnds DEF PlanScan, Replan, EndScan, Verdicts
<1>3. CASE PlanScan /\ RangeLeft
  <2>1. ScanRange /\ scan.at = "plan" /\ UNCHANGED <<best, database>>
    BY <1>3 DEF PlanScan
  <2>. QED
    BY <1>3, <2>1, ScanRangeKeeps
<1>4. CASE Replan /\ RangeLeft
  <2>1. scan.pool = "none"
    BY <1>0, <1>4 DEF Replan, InHand
  <2>2. ScanRange /\ scan.at = "roots" /\ UNCHANGED <<best, database>>
    BY <1>4 DEF Replan
  <2>. QED
    BY <1>4, <2>1, <2>2, ScanRangeKeeps
<1>. QED
  BY <1>1, <1>2, <1>3, <1>4 DEF PlanScan, Replan

-----------------------------------------------------------------------------
(* The backfill.                                                           *)

LEMMA PageTyped ==
  ASSUME ScanIngestAssumption, NEW page \in Pages
  PROVE  /\ Len(page) \in Nat
         /\ DOMAIN page = 1..Len(page)
         /\ \A i \in 1..Len(page) : page[i].index \in Nat /\ page[i].end \in Heights
<1>1. PICK n \in 0..(PageRoots + 1) : page \in [1..n -> [index : 0..(MaxRoots - 1), end : Heights]]
  BY DEF Pages
<1>2. n \in Nat /\ MaxRoots \in Nat
  BY DEF ScanIngestAssumption
<1>3. Len(page) = n
  BY <1>1, <1>2
<1>. QED
  BY <1>1, <1>2, <1>3

\* A page that passes is within the contract.
LEMMA ValidPageInContract ==
  ASSUME ScanIngestAssumption, NEW page \in Pages, ValidPage(page), scan.next \in Nat
  PROVE  InContract(page)
<1>. DEFINE n == Len(page)
<1>1. n \in Nat /\ DOMAIN page = 1..n
  BY PageTyped
<1>2. \A i \in 1..n : page[i].index = scan.next + i - 1
  BY <1>1 DEF ValidPage
<1>. HIDE DEF n
<1>3. \A k \in scan.next..(scan.next + n - 1) :
        k - scan.next + 1 \in 1..n /\ page[k - scan.next + 1].index = k
  <2>. SUFFICES ASSUME NEW k \in scan.next..(scan.next + n - 1)
                PROVE  k - scan.next + 1 \in 1..n /\ page[k - scan.next + 1].index = k
    OBVIOUS
  <2>. DEFINE i == k - scan.next + 1
  <2>1. i \in 1..n /\ scan.next + i - 1 = k
    BY <1>1
  <2>. HIDE DEF i
  <2>2. page[i].index = k
    BY <1>2, <2>1
  <2>. QED
    BY <2>1, <2>2 DEF i
<1>. QED
  BY <1>1, <1>3 DEF InContract, ValidPage, n

\* Installing a page's first roots, asked for from the first index missing.
LEMMA InstalledTyped ==
  ASSUME ScanIngestAssumption, NEW page \in Pages, ValidPage(page),
         NEW kept \in 1..Len(page), Keeps(page, kept), scan.next \in Nat,
         NEW old, DOMAIN old \subseteq Nat, old \in [DOMAIN old -> Heights],
         0..(scan.next - 1) \subseteq DOMAIN old,
         scan.floor \in Frontiers, scanned \in Frontiers, scan.floor <= scanned,
         \A k \in DOMAIN old : old[k] <= scanned /\ 0..k \subseteq DOMAIN old,
         NEW new, new = Installed(old, page, kept)
  PROVE  /\ DOMAIN new \subseteq Nat
         /\ new \in [DOMAIN new -> Heights]
         /\ \A k \in DOMAIN new : new[k] <= scanned /\ 0..k \subseteq DOMAIN new
         /\ page[kept].index \in Nat
         /\ 0..page[kept].index \subseteq DOMAIN new
<1>1. /\ Len(page) \in Nat /\ kept \in Nat \ {0} /\ kept <= Len(page)
      /\ DOMAIN page = 1..Len(page)
      /\ \A i \in 1..kept : page[i].index = scan.next + i - 1
      /\ \A i \in 1..kept : page[i].end \in Heights /\ page[i].end <= scanned
  <2>1. Len(page) \in Nat /\ DOMAIN page = 1..Len(page) /\ kept \in 1..Len(page)
    BY PageTyped
  <2>2. \A i \in 1..kept : i \in DOMAIN page /\ page[i].end \in Heights
    BY <2>1, PageTyped
  <2>3. \A i \in 1..kept : page[i].index = scan.next + i - 1
    BY <2>2 DEF ValidPage
  <2>4. \A i \in 1..kept : page[i].end <= scan.floor
    BY DEF Keeps
  <2>5. \A i \in 1..kept : page[i].end <= scanned
    BY <2>2, <2>4 DEF Frontiers, Heights, NoHeight
  <2>. QED
    BY <2>1, <2>2, <2>3, <2>5
<1>2. page[1].index = scan.next /\ page[kept].index = scan.next + kept - 1
  BY <1>1
<1>3. {page[1].index + i - 1 : i \in 1..kept} = scan.next..(scan.next + kept - 1)
  <2>1. \A k \in scan.next..(scan.next + kept - 1) :
          k - scan.next + 1 \in 1..kept /\ k = page[1].index + (k - scan.next + 1) - 1
    BY <1>1, <1>2
  <2>2. \A i \in 1..kept : page[1].index + i - 1 \in scan.next..(scan.next + kept - 1)
    BY <1>1, <1>2
  <2>. QED
    BY <2>1, <2>2
<1>4. new = [k \in DOMAIN old \cup (scan.next..(scan.next + kept - 1)) |->
               IF k \in scan.next..(scan.next + kept - 1)
                 THEN page[k - scan.next + 1].end ELSE old[k]]
  BY <1>2, <1>3 DEF Installed
<1>5. DOMAIN new = DOMAIN old \cup (scan.next..(scan.next + kept - 1))
  BY <1>4
<1>6. \A k \in scan.next..(scan.next + kept - 1) : k - scan.next + 1 \in 1..kept
  BY SMTT(30), <1>1
<1>7. \A k \in DOMAIN new : new[k] \in Heights /\ new[k] <= scanned
  BY <1>1, <1>4, <1>5, <1>6
<1>8. ASSUME NEW k \in DOMAIN new PROVE 0..k \subseteq DOMAIN new
  BY <1>1, <1>5
<1>9. 0..page[kept].index \subseteq DOMAIN new
  BY <1>1, <1>2, <1>5
<1>10. new \in [DOMAIN new -> Heights]
  BY <1>4, <1>5, <1>7
<1>11. DOMAIN new \subseteq Nat
  BY <1>1, <1>5
<1>12. page[kept].index \in Nat
  BY <1>1, <1>2
<1>. QED
  BY <1>7, <1>8, <1>9, <1>10, <1>11, <1>12

LEMMA RootsGrow ==
  ASSUME IngestInv, NEW p \in Pools, NEW new, roots' = [roots EXCEPT ![p] = new],
         DOMAIN new \subseteq Nat, new \in [DOMAIN new -> Heights],
         \A k \in DOMAIN new : new[k] <= scanned /\ 0..k \subseteq DOMAIN new,
         damaged' \subseteq Pools \ EmptyPools, scan' \in Attempt, InHand',
         UNCHANGED <<best, mine, queued, tipRow, scanned>>
  PROVE  IngestInv'
<1>1. DOMAIN roots = Pools
  BY DEF IngestInv, ScanIngestTypeOK
<1>2. DOMAIN roots' = Pools /\ \A q \in Pools : roots'[q] = IF q = p THEN new ELSE roots[q]
  BY <1>1
<1>3. \A q \in Pools : /\ DOMAIN roots'[q] \subseteq Nat
                       /\ roots'[q] \in [DOMAIN roots'[q] -> Heights]
  BY <1>2 DEF IngestInv, ScanIngestTypeOK
<1>4. ScanIngestTypeOK'
  BY <1>2, <1>3 DEF IngestInv, ScanIngestTypeOK, Attempt, Blocks
<1>5. RootsBehindFrontier'
  <2>. SUFFICES ASSUME NEW q \in Pools, NEW k \in DOMAIN roots'[q]
                PROVE  roots'[q][k] <= scanned /\ 0..k \subseteq DOMAIN roots'[q]
    BY DEF RootsBehindFrontier
  <2>1. CASE q = p
    BY <1>2, <2>1
  <2>2. CASE q # p
    BY <1>2, <2>2 DEF IngestInv, RootsBehindFrontier
  <2>. QED
    BY <2>1, <2>2
<1>. QED
  BY <1>4, <1>5 DEF IngestInv, MineScanned

LEMMA FetchRootsKeeps ==
  ASSUME ScanIngestAssumption, UtxoRefreshAssumption, IngestInv,
         NEW p \in Pools, FetchRoots(p)
  PROVE  IngestInv'
<1>0. /\ scan \in Attempt /\ scanned \in Frontiers /\ InHand
      /\ scan.at = "roots" /\ p \in scan.todo /\ scan.pool \in {p, "none"}
      /\ scan.breached \in BOOLEAN /\ scan.next \in Nat /\ scan.floor \in Frontiers
      /\ UNCHANGED <<best, mine, queued, tipRow, scanned>>
  BY InTypes DEF FetchRoots, Attempt
<1>. DEFINE last(page, kept) == kept < Len(page) \/ Len(page) < PageRoots
            read(page, kept) == [scan EXCEPT !.pool = IF last(page, kept) THEN "none" ELSE p,
                                   !.todo = IF last(page, kept) THEN @ \ {p} ELSE @,
                                   !.next = IF last(page, kept) THEN 0 ELSE page[kept].index + 1,
                                   !.breached = @ \/ ~InContract(page)]
<1>a. PICK page \in Pages : \E kept \in 0..Len(page) :
        /\ Keeps(page, kept)
        /\ \/ /\ ValidPage(page) /\ kept = 0 /\ scan' = read(page, kept)
              /\ UNCHANGED <<roots, damaged>>
           \/ /\ ValidPage(page) /\ kept # 0
              /\ roots' = [roots EXCEPT ![p] = Installed(@, page, kept)]
              /\ IF Foreign(page, kept)
                   THEN damaged' \in {damaged, damaged \cup ({p} \ EmptyPools)}
                   ELSE UNCHANGED damaged
              /\ scan' = read(page, kept)
           \/ ValidPage(page) /\ kept # 0 /\ PageFails /\ UNCHANGED <<roots, damaged>>
           \/ ~ValidPage(page) /\ Refused(InContract(page)) /\ UNCHANGED <<roots, damaged>>
  BY DEF FetchRoots
<1>1. PICK kept \in 0..Len(page) :
        /\ Keeps(page, kept)
        /\ \/ /\ ValidPage(page) /\ kept = 0 /\ scan' = read(page, kept)
              /\ UNCHANGED <<roots, damaged>>
           \/ /\ ValidPage(page) /\ kept # 0
              /\ roots' = [roots EXCEPT ![p] = Installed(@, page, kept)]
              /\ IF Foreign(page, kept)
                   THEN damaged' \in {damaged, damaged \cup ({p} \ EmptyPools)}
                   ELSE UNCHANGED damaged
              /\ scan' = read(page, kept)
           \/ ValidPage(page) /\ kept # 0 /\ PageFails /\ UNCHANGED <<roots, damaged>>
           \/ ~ValidPage(page) /\ Refused(InContract(page)) /\ UNCHANGED <<roots, damaged>>
  BY <1>a
<1>2. Len(page) \in Nat /\ PageRoots \in Nat \ {0}
  BY PageTyped DEF ScanIngestAssumption
<1>3. CASE PageFails /\ UNCHANGED <<roots, damaged>>
  BY <1>0, <1>3, AttemptEnds DEF PageFails, EndScan, Verdicts, database
<1>4. CASE Refused(InContract(page)) /\ UNCHANGED <<roots, damaged>>
  <2>1. (scan.breached \/ ~InContract(page)) \in BOOLEAN
    OBVIOUS
  <2>. QED
    BY <1>0, <1>4, <2>1, AttemptEnds DEF Refused, Verdicts, database
<1>5. ASSUME ValidPage(page), scan' = read(page, kept),
             ~last(page, kept) => page[kept].index \in Nat
      PROVE  /\ scan' \in Attempt
             /\ scan'.at = "roots" /\ scan'.floor = scan.floor /\ ~scan'.breached
             /\ last(page, kept) => scan'.pool = "none" /\ scan'.next = 0
             /\ ~last(page, kept) => /\ scan'.pool = p /\ p \in scan'.todo
                                     /\ scan'.next = page[kept].index + 1
  <2>1. InContract(page)
    BY <1>0, <1>5, ValidPageInContract
  <2>2. ~scan.breached
    BY <1>0 DEF InHand
  <2>3. scan' = [scan EXCEPT !.pool = IF last(page, kept) THEN "none" ELSE p,
                   !.todo = IF last(page, kept) THEN @ \ {p} ELSE @,
                   !.next = IF last(page, kept) THEN 0 ELSE page[kept].index + 1,
                   !.breached = FALSE]
    BY <1>0, <1>5, <2>1, <2>2
  <2>4. CASE last(page, kept)
    <3>1. scan' = [scan EXCEPT !.pool = "none", !.todo = @ \ {p}, !.next = 0,
                               !.breached = FALSE]
      BY <2>3, <2>4
    <3>. QED
      BY <1>0, <2>4, <3>1 DEF Attempt
  <2>5. CASE ~last(page, kept)
    <3>1. scan' = [scan EXCEPT !.pool = p, !.todo = @, !.next = page[kept].index + 1,
                               !.breached = FALSE]
      BY <2>3, <2>5
    <3>. DEFINE n == page[kept].index + 1
    <3>2. n \in Nat
      BY <1>5, <2>5
    <3>. HIDE DEF n
    <3>3. scan' = [scan EXCEPT !.pool = p, !.todo = @, !.next = n, !.breached = FALSE]
      BY <3>1 DEF n
    <3>4. /\ scan' \in Attempt
          /\ scan'.at = "roots" /\ scan'.floor = scan.floor /\ ~scan'.breached
          /\ scan'.pool = p /\ p \in scan'.todo /\ scan'.next = n
      BY <1>0, <3>2, <3>3 DEF Attempt
    <3>. QED
      BY <2>5, <3>4 DEF n
  <2>. QED
    BY <2>4, <2>5
<1>6. CASE /\ ValidPage(page) /\ kept = 0 /\ scan' = read(page, kept)
           /\ UNCHANGED <<roots, damaged>>
  <2>1. last(page, kept)
    BY <1>2, <1>6
  <2>2. /\ scan' \in Attempt /\ scan'.at = "roots" /\ scan'.floor = scan.floor
        /\ ~scan'.breached /\ scan'.pool = "none" /\ scan'.next = 0
    BY <1>5, <1>6, <2>1
  <2>3. InHand'
    BY <1>0, <2>2 DEF InHand
  <2>. QED
    BY <1>0, <1>6, <2>2, <2>3, AttemptMoves DEF database
<1>7. CASE /\ ValidPage(page) /\ kept # 0
           /\ roots' = [roots EXCEPT ![p] = Installed(@, page, kept)]
           /\ IF Foreign(page, kept)
                THEN damaged' \in {damaged, damaged \cup ({p} \ EmptyPools)}
                ELSE UNCHANGED damaged
           /\ scan' = read(page, kept)
  <2>. DEFINE new == Installed(roots[p], page, kept)
  <2>1. DOMAIN roots = Pools /\ damaged \subseteq Pools \ EmptyPools
    BY DEF IngestInv, ScanIngestTypeOK
  <2>2. roots' = [roots EXCEPT ![p] = new] /\ roots'[p] = new
    BY <1>7, <2>1
  <2>3. kept \in 1..Len(page)
    BY <1>2, <1>7
  <2>4. 0..(scan.next - 1) \subseteq DOMAIN roots[p]
    BY <1>0 DEF InHand
  <2>5. /\ DOMAIN roots[p] \subseteq Nat /\ roots[p] \in [DOMAIN roots[p] -> Heights]
        /\ \A k \in DOMAIN roots[p] : roots[p][k] <= scanned /\ 0..k \subseteq DOMAIN roots[p]
    BY DEF IngestInv, ScanIngestTypeOK, RootsBehindFrontier
  <2>6. scan.floor <= scanned
    BY <1>0 DEF InHand
  <2>7. /\ DOMAIN new \subseteq Nat /\ new \in [DOMAIN new -> Heights]
        /\ \A k \in DOMAIN new : new[k] <= scanned /\ 0..k \subseteq DOMAIN new
        /\ page[kept].index \in Nat /\ 0..page[kept].index \subseteq DOMAIN new
    BY <1>0, <1>1, <1>7, <2>3, <2>4, <2>5, <2>6, InstalledTyped
  <2>. HIDE DEF new
  <2>8. damaged' \subseteq Pools \ EmptyPools
    BY <1>7, <2>1
  <2>9. /\ scan' \in Attempt /\ scan'.at = "roots" /\ scan'.floor = scan.floor
        /\ ~scan'.breached
        /\ last(page, kept) => scan'.pool = "none" /\ scan'.next = 0
        /\ ~last(page, kept) => /\ scan'.pool = p /\ p \in scan'.todo
                                /\ scan'.next = page[kept].index + 1
    BY <1>5, <1>7, <2>7
  <2>. HIDE DEF last, read
  <2>10. scan'.pool # "none" =>
           scan'.pool \in scan'.todo /\ 0..(scan'.next - 1) \subseteq DOMAIN roots'[scan'.pool]
    BY <2>2, <2>7, <2>9
  <2>11. scan'.pool = "none" => scan'.next = 0
    BY <2>9 DEF ScanIngestAssumption
  <2>12. InHand'
    BY <1>0, <2>6, <2>9, <2>10, <2>11 DEF InHand
  <2>. QED
    BY <1>0, <2>2, <2>7, <2>8, <2>9, <2>12, RootsGrow
<1>. QED
  BY <1>1, <1>3, <1>4, <1>6, <1>7

-----------------------------------------------------------------------------
(* The scan.                                                               *)

LEMMA AskedTyped ==
  ASSUME ScanIngestAssumption, UtxoRefreshAssumption, scan \in Attempt,
         scanned \in Heights, scanned < scan.to
  PROVE  Asked \in Blocks /\ Len(Asked) = scan.to - scanned
<1>1. scan.to \in Heights /\ Expected \in Heights
  BY DEF Attempt, Expected, Heights
<1>2. \A i \in 1..Expected : scanned + i \in Heights
  BY <1>1 DEF Expected, Heights
<1>3. Asked \in [1..Expected -> Heights]
  BY <1>2 DEF Asked
<1>4. Len(Asked) = Expected
  BY <1>1, <1>3 DEF Heights
<1>. QED
  BY <1>1, <1>3, <1>4 DEF Blocks, Expected

LEMMA WholeRangeAsked ==
  ASSUME scan \in Attempt, scanned \in Heights, scanned < scan.to,
         NEW stream \in Streams, WholeRange(stream)
  PROVE  stream = Asked
<1>1. scan.to \in Heights /\ Expected \in Nat
  BY DEF Attempt, Expected, Heights
<1>2. PICK n \in 0..(Expected + 1) : stream \in [1..n -> Heights]
  BY DEF Streams
<1>3. Len(stream) = n
  BY <1>1, <1>2
<1>4. n = Expected
  BY <1>3 DEF WholeRange
<1>5. \A i \in 1..Expected : stream[i] = scanned + i
  BY <1>2, <1>4 DEF WholeRange, InOrder
<1>. QED
  BY <1>2, <1>4, <1>5 DEF Asked

LEMMA FetchAnchorKeeps ==
  ASSUME ScanIngestAssumption, UtxoRefreshAssumption, IngestInv, FetchAnchor
  PROVE  IngestInv'
<1>0. scan \in Attempt /\ scanned \in Frontiers /\ InHand /\ scan.at = "state"
  BY InTypes DEF FetchAnchor
<1>1. CASE Refused(FALSE)
  BY <1>1, AttemptEnds DEF FetchAnchor, Refused, Verdicts
<1>2. ASSUME NEW b \in BOOLEAN, NEW f \in BOOLEAN, f => b = scan.breached,
             scan' = [scan EXCEPT !.at = "blocks", !.anchor = scanned, !.fit = f, !.breached = b]
      PROVE  IngestInv'
  <2>1. scan' \in Attempt
    BY <1>0, <1>2 DEF Attempt, ScanStages
  <2>2. /\ scan'.at = "blocks" /\ scan'.pool = scan.pool /\ scan'.next = scan.next
        /\ scan'.to = scan.to /\ scan'.fit = f /\ scan'.breached = b
    BY <1>0, <1>2 DEF Attempt
  <2>3. InHand'
    BY <1>0, <1>2, <2>2 DEF InHand, FetchAnchor, database
  <2>. QED
    BY <2>1, <2>3, AttemptMoves DEF FetchAnchor
<1>3. CASE scan' = [scan EXCEPT !.at = "blocks", !.anchor = scanned]
  <2>1. scan' = [scan EXCEPT !.at = "blocks", !.anchor = scanned, !.fit = scan.fit,
                             !.breached = scan.breached]
    BY <1>0, <1>3 DEF Attempt
  <2>. QED
    BY <1>2, <2>1, InTypes
<1>4. CASE scan' = Unfit([scan EXCEPT !.at = "blocks", !.anchor = scanned])
  <2>1. scan' = [scan EXCEPT !.at = "blocks", !.anchor = scanned, !.fit = FALSE,
                             !.breached = TRUE]
    BY <1>0, <1>4 DEF Attempt, Unfit
  <2>. QED
    BY <1>2, <2>1
<1>. QED
  BY <1>1, <1>3, <1>4 DEF FetchAnchor, TreeState, FrontierMissing

LEMMA FetchBlocksKeeps ==
  ASSUME ScanIngestAssumption, UtxoRefreshAssumption, IngestInv, FetchBlocks
  PROVE  IngestInv'
<1>0. /\ scan \in Attempt /\ scanned \in Heights /\ scanned < scan.to /\ InHand
      /\ scan.at = "blocks" /\ scan.breached \in BOOLEAN /\ scan.fit \in BOOLEAN
  BY InTypes DEF FetchBlocks, InHand
<1>1. ASSUME NEW lawful \in BOOLEAN, Refused(lawful) PROVE IngestInv'
  BY <1>0, <1>1, AttemptEnds DEF FetchBlocks, Refused, Verdicts
<1>2. ASSUME NEW b \in BOOLEAN, NEW f \in BOOLEAN, f => f = scan.fit /\ b = scan.breached,
             scan' = [scan EXCEPT !.at = "scan", !.blocks = Asked, !.fit = f, !.breached = b]
      PROVE  IngestInv'
  <2>0. Asked \in Blocks
    BY <1>0, AskedTyped
  <2>. HIDE DEF Asked
  <2>1. scan' \in Attempt
    BY <1>0, <1>2, <2>0 DEF Attempt, ScanStages
  <2>2. /\ scan'.at = "scan" /\ scan'.pool = scan.pool /\ scan'.next = scan.next
        /\ scan'.to = scan.to /\ scan'.fit = f /\ scan'.breached = b /\ scan'.blocks = Asked
    BY <1>0, <1>2 DEF Attempt
  <2>3. Asked' = Asked
    BY <2>2 DEF Asked, Expected, FetchBlocks, database
  <2>4. InHand'
    BY <1>0, <1>2, <2>2, <2>3 DEF InHand, FetchBlocks, database
  <2>. QED
    BY <2>1, <2>4, AttemptMoves DEF FetchBlocks
<1>3. ASSUME NEW stream \in Streams, WholeRange(stream),
             scan' = [scan EXCEPT !.at = "scan", !.blocks = stream,
                                  !.breached = @ \/ stream # Asked]
      PROVE  IngestInv'
  <2>1. stream = Asked
    BY <1>0, <1>3, WholeRangeAsked
  <2>2. scan' = [scan EXCEPT !.at = "scan", !.blocks = Asked, !.fit = scan.fit,
                             !.breached = scan.breached]
    BY <1>0, <1>3, <2>1 DEF Attempt
  <2>. QED
    BY <1>0, <1>2, <2>2
<1>4. CASE scan' = Unfit([scan EXCEPT !.at = "scan", !.blocks = Asked])
  <2>1. scan' = [scan EXCEPT !.at = "scan", !.blocks = Asked, !.fit = FALSE,
                             !.breached = TRUE]
    BY <1>0, <1>4 DEF Attempt, Unfit
  <2>. QED
    BY <1>2, <2>1
<1>5. CASE scan' = [[scan EXCEPT !.at = "scan", !.blocks = Asked] EXCEPT !.fit = FALSE]
  <2>1. scan' = [scan EXCEPT !.at = "scan", !.blocks = Asked, !.fit = FALSE,
                             !.breached = scan.breached]
    BY <1>0, <1>5 DEF Attempt
  <2>. QED
    BY <1>0, <1>2, <2>1
<1>. QED
  BY <1>1, <1>3, <1>4, <1>5 DEF FetchBlocks, BlockMalformed

LEMMA ScanFetchedKeeps ==
  ASSUME ScanIngestAssumption, UtxoRefreshAssumption, IngestInv, ScanFetched
  PROVE  /\ IngestInv'
         /\ scanned' >= scanned
<1>0. /\ scan \in Attempt /\ scanned \in Heights /\ scanned < scan.to /\ scan.to \in Heights
      /\ InHand /\ scan.at = "scan" /\ scan.breached \in BOOLEAN
  BY InTypes DEF ScanFetched, InHand, Attempt
<1>1. ASSUME NEW v \in {"refused", "reorg", "conflict"}, EndScan(v),
             UNCHANGED <<scanned, mine>>
      PROVE  IngestInv' /\ scanned' >= scanned
  <2>1. UNCHANGED <<best, database>>
    BY <1>1 DEF ScanFetched, database
  <2>. QED
    BY <1>0, <1>1, <2>1, AttemptEnds DEF EndScan, Verdicts, Heights
<1>2. CASE /\ scan.fit /\ Linked
           /\ scanned' = scanned + Len(scan.blocks)
           /\ mine' = IF scanned' >= scan.epoch.fork THEN scan.epoch.fork ELSE mine
           /\ scan' = [scan EXCEPT !.at = "verify", !.blocks = <<>>]
  <2>1. scanned' = scan.to
    BY <1>0, <1>2, AskedTyped DEF InHand, Heights
  <2>2. scan' \in Attempt
    BY <1>0, <1>2, NoBlocks DEF Attempt, ScanStages
  <2>3. /\ scan'.at = "verify" /\ scan'.pool = scan.pool /\ scan'.next = scan.next
        /\ scan'.breached = scan.breached /\ scan'.epoch = scan.epoch
    BY <1>0, <1>2 DEF Attempt
  <2>4. /\ UNCHANGED <<best, queued, tipRow, roots, damaged>>
        /\ scan.epoch.fork \in 1..NoFork /\ mine \in 1..NoFork /\ MaxHeight \in Nat
    BY <1>0 DEF ScanFetched, Attempt, Views, IngestInv, ScanIngestTypeOK, UtxoRefreshAssumption
  <2>5. scanned' \in Heights /\ scanned' >= scanned
    BY <1>0, <2>1 DEF Heights
  <2>6. ASSUME scanned' < scan.epoch.fork
        PROVE  scanned' < mine' /\ MineScanned' /\ mine' \in 1..NoFork
    <3>1. mine' = mine /\ scanned < scan.epoch.fork
      BY <1>0, <1>2, <2>4, <2>5, <2>6 DEF Heights, NoFork
    <3>2. ~(scanned >= mine)
      BY <1>0, <1>2, <2>4, <3>1 DEF Linked, SameBlock, Heights, NoFork
    <3>3. mine = NoFork
      BY <1>0, <2>4, <3>2 DEF IngestInv, MineScanned, Heights, NoFork
    <3>4. scanned' < mine' /\ mine' = NoFork /\ mine' \in 1..NoFork
      BY <2>4, <2>5, <3>1, <3>3 DEF Heights, NoFork
    <3>. QED
      BY <2>6, <3>4 DEF MineScanned, NoFork
  <2>7. ASSUME ~(scanned' < scan.epoch.fork)
        PROVE  mine' = scan.epoch.fork /\ MineScanned' /\ mine' \in 1..NoFork
    <3>1. mine' = scan.epoch.fork
      BY <1>2, <2>4, <2>5, <2>7 DEF Heights, NoFork
    <3>2. mine' <= scanned'
      BY <2>4, <2>5, <2>7, <3>1 DEF Heights, NoFork
    <3>. QED
      BY <2>4, <2>7, <3>1, <3>2 DEF MineScanned
  <2>8. InHand' /\ MineScanned' /\ mine' \in 1..NoFork
    <3>1. ~scan.breached
      BY <1>0, <1>2 DEF InHand
    <3>2. scan.pool = "none" /\ scan.next = 0
      BY <1>0 DEF InHand
    <3>. QED
      BY <2>3, <2>6, <2>7, <3>1, <3>2 DEF InHand
  <2>9. ScanIngestTypeOK'
    BY <2>2, <2>4, <2>8 DEF IngestInv, ScanIngestTypeOK, Attempt, Blocks
  <2>10. RootsBehindFrontier'
    <3>1. \A p \in Pools : \A k \in DOMAIN roots[p] : roots[p][k] \in Heights
      BY DEF IngestInv, ScanIngestTypeOK
    <3>. QED
      BY <1>0, <2>4, <2>5, <3>1 DEF IngestInv, RootsBehindFrontier, Heights
  <2>. QED
    BY <2>5, <2>8, <2>9, <2>10 DEF IngestInv, Frontiers
<1>. QED
  BY <1>1, <1>2 DEF ScanFetched, Usable

LEMMA VerifyScanKeeps ==
  ASSUME ScanIngestAssumption, UtxoRefreshAssumption, IngestInv, VerifyScan
  PROVE  IngestInv'
<1>0. scan.breached \in BOOLEAN
  BY InTypes
<1>1. ASSUME NEW v \in {"diverged", "completed"}, EndScan(v) PROVE IngestInv'
  BY <1>0, <1>1, AttemptEnds DEF VerifyScan, EndScan, Verdicts
<1>2. CASE Refused(FALSE) \/ Ended("refused", TRUE)
  BY <1>0, <1>2, AttemptEnds DEF VerifyScan, Refused, Verdicts
<1>. QED
  BY <1>1, <1>2 DEF VerifyScan, FrontierMissing

-----------------------------------------------------------------------------
(* Beside the attempts.                                                    *)

LEMMA RestingHand ==
  ASSUME IngestInv, Resting, scan' = scan \/ scan' = NoScan
  PROVE  InHand'
BY DEF IngestInv, InHand, Resting, NoScan

LEMMA RewindWalletKeeps ==
  ASSUME ScanIngestAssumption, UtxoRefreshAssumption, IngestInv, NEW h, RewindWallet(h)
  PROVE  IngestInv'
<1>0. /\ scanned' = h /\ h \in Heights /\ MaxHeight \in Nat /\ h < scanned
      /\ scanned \in Frontiers /\ queued \in Frontiers /\ mine \in 1..NoFork
      /\ UNCHANGED <<best, tipRow, scan>>
  BY DEF RewindWallet, RewindTo, IngestInv, ScanIngestTypeOK, UtxoRefreshAssumption
<1>1. mine' \in 1..NoFork /\ MineScanned'
  BY <1>0 DEF RewindWallet, MineScanned, NoFork, Heights
<1>2. queued' \in Frontiers
  BY <1>0 DEF RewindWallet, Smaller, Frontiers
<1>3. damaged' \subseteq Pools \ EmptyPools
  BY DEF RewindWallet, IngestInv, ScanIngestTypeOK
<1>. DEFINE kept(p) == {k \in DOMAIN roots[p] : \A j \in 0..k : roots[p][j] <= h}
<1>4. roots' = [p \in Pools |-> [k \in kept(p) |-> roots[p][k]]]
  BY DEF RewindWallet
<1>5. /\ DOMAIN roots' = Pools
      /\ \A p \in Pools : /\ DOMAIN roots'[p] = kept(p)
                          /\ \A k \in kept(p) : roots'[p][k] = roots[p][k]
                          /\ roots'[p] = [k \in kept(p) |-> roots[p][k]]
  BY <1>4
<1>6. \A p \in Pools : /\ DOMAIN roots'[p] \subseteq Nat
                       /\ roots'[p] \in [DOMAIN roots'[p] -> Heights]
  <2>. SUFFICES ASSUME NEW p \in Pools
                PROVE  /\ DOMAIN roots'[p] \subseteq Nat
                       /\ roots'[p] \in [DOMAIN roots'[p] -> Heights]
    OBVIOUS
  <2>1. DOMAIN roots[p] \subseteq Nat /\ roots[p] \in [DOMAIN roots[p] -> Heights]
    BY DEF IngestInv, ScanIngestTypeOK
  <2>2. kept(p) \subseteq DOMAIN roots[p]
    OBVIOUS
  <2>3. DOMAIN roots'[p] = kept(p) /\ roots'[p] = [k \in kept(p) |-> roots[p][k]]
    BY <1>5
  <2>. HIDE DEF kept
  <2>. QED
    BY <2>1, <2>2, <2>3
<1>7. RootsBehindFrontier'
  <2>. SUFFICES ASSUME NEW p \in Pools, NEW k \in DOMAIN roots'[p]
                PROVE  roots'[p][k] <= scanned' /\ 0..k \subseteq DOMAIN roots'[p]
    BY DEF RootsBehindFrontier
  <2>0. k \in kept(p) /\ roots'[p][k] = roots[p][k] /\ DOMAIN roots'[p] = kept(p)
    BY <1>5
  <2>1. k \in Nat /\ 0..k \subseteq DOMAIN roots[p]
    BY <2>0 DEF IngestInv, ScanIngestTypeOK, RootsBehindFrontier
  <2>2. \A j \in 0..k : roots[p][j] <= h
    BY <2>0
  <2>3. ASSUME NEW j \in 0..k PROVE j \in kept(p)
    <3>1. j \in DOMAIN roots[p] /\ 0..j \subseteq 0..k
      BY <2>1
    <3>. QED
      BY <2>2, <3>1
  <2>. QED
    BY <1>0, <2>0, <2>1, <2>2, <2>3
<1>8. InHand'
  BY <1>0, RestingHand DEF RewindWallet
<1>. QED
  BY <1>0, <1>1, <1>2, <1>3, <1>5, <1>6, <1>7, <1>8
     DEF IngestInv, ScanIngestTypeOK, Frontiers

LEMMA TreeDamagedKeeps ==
  ASSUME IngestInv, NEW p \in Pools, TreeDamaged(p)
  PROVE  IngestInv'
<1>1. damaged' \subseteq Pools \ EmptyPools
  BY DEF TreeDamaged, IngestInv, ScanIngestTypeOK
<1>2. UNCHANGED <<best, mine, queued, tipRow, roots, scan, scanned>>
  BY DEF TreeDamaged
<1>3. InHand' /\ RootsBehindFrontier' /\ MineScanned'
  BY <1>2 DEF IngestInv, InHand, RootsBehindFrontier, MineScanned, Asked, Expected
<1>. QED
  BY <1>1, <1>2, <1>3 DEF IngestInv, ScanIngestTypeOK

LEMMA ChainMovesKeeps ==
  ASSUME ScanIngestAssumption, UtxoRefreshAssumption, IngestInv, ChainAdvances \/ ChainReorgs
  PROVE  IngestInv'
<1>1. best' \in Views
  BY SMTT(30) DEF ChainAdvances, ChainReorgs, IngestInv, ScanIngestTypeOK, Views, Heights, NoFork,
     UtxoRefreshAssumption
<1>2. UNCHANGED <<scan, mine, queued, tipRow, roots, damaged, scanned>>
  BY DEF ChainAdvances, ChainReorgs, database
<1>3. InHand' /\ RootsBehindFrontier' /\ MineScanned'
  BY <1>2 DEF IngestInv, InHand, RootsBehindFrontier, MineScanned, Asked, Expected
<1>. QED
  BY <1>1, <1>2, <1>3 DEF IngestInv, ScanIngestTypeOK

-----------------------------------------------------------------------------
(* What the composition cites.                                             *)

LEMMA IngestInitially ==
  ASSUME ScanIngestAssumption, UtxoRefreshAssumption, UtxoRefreshInit, ScanIngestInit
  PROVE  IngestInv
<1>1. roots = [p \in Pools |-> <<>>]
  BY DEF ScanIngestInit, NoRoots
<1>2. \A p \in Pools : DOMAIN roots[p] = {} /\ roots[p] \in [{} -> Heights]
  BY <1>1
<1>3. ScanIngestTypeOK
  BY <1>1, <1>2, BoundsTyped, NoScanTyped, IngestTypes DEF ScanIngestInit
<1>4. InHand
  BY DEF ScanIngestInit, InHand, NoScan
<1>. QED
  BY <1>2, <1>3, <1>4, BoundsTyped
     DEF IngestInv, RootsBehindFrontier, MineScanned, ScanIngestInit, UtxoRefreshInit

LEMMA IngestKeeps ==
  ASSUME ScanIngestAssumption, UtxoRefreshAssumption, IngestInv, ScanIngestStep
  PROVE  IngestInv'
BY ReadFailsKeeps, BeginScanKeeps, PinScanKeeps, TipKeeps, PlanKeeps, FetchRootsKeeps,
   FetchAnchorKeeps, FetchBlocksKeeps, ScanFetchedKeeps, VerifyScanKeeps,
   RewindWalletKeeps, TreeDamagedKeeps, ChainMovesKeeps DEF ScanIngestStep

\* For the refresh: a scan moves the frontier up, a rewind un-mines its rows.
LEMMA IngestMovesFrontier ==
  ASSUME ScanIngestAssumption, UtxoRefreshAssumption, IngestInv, ScanIngestStep
  PROVE  \/ scanned' >= scanned /\ UNCHANGED <<rows, walk>>
         \/ \E h \in Heights : RewindTo(h)
<1>0. scanned \in Frontiers
  BY DEF IngestInv
<1>1. CASE scanned' = scanned /\ UNCHANGED <<rows, walk>>
  BY <1>0, <1>1 DEF Frontiers, Heights, NoHeight
<1>2. CASE UpdateTip /\ UNCHANGED <<rows, walk>>
  BY <1>0, <1>2 DEF UpdateTip, Frontiers, Heights, NoHeight
<1>3. CASE ScanFetched /\ UNCHANGED <<rows, walk>>
  BY <1>3, ScanFetchedKeeps
<1>4. CASE \E h \in Heights : RewindWallet(h)
  BY <1>4 DEF RewindWallet
<1>. QED
  BY <1>1, <1>2, <1>3, <1>4 DEF ScanIngestStep, ReadFails, BeginScan, PinScan, RecordTips,
     PlanScan, Replan, FetchRoots, FetchAnchor, FetchBlocks, VerifyScan, TreeDamaged,
     ChainAdvances, ChainReorgs, database

LEMMA TipSetKeeps ==
  ASSUME ScanIngestAssumption, UtxoRefreshAssumption, IngestInv, TipSet, Resting
  PROVE  IngestInv' /\ scanned' >= scanned
<1>0. scanned \in Frontiers /\ queued \in Frontiers
  BY DEF IngestInv, ScanIngestTypeOK
<1>1. scanned' \in Frontiers /\ queued' \in Frontiers /\ scanned' >= scanned
  BY <1>0, BoundsTyped DEF TipSet, Frontiers, Heights, NoHeight
<1>2. UNCHANGED <<best, mine, tipRow, roots, damaged, scan>>
  BY DEF TipSet
<1>3. InHand'
  BY <1>2, RestingHand
<1>4. RootsBehindFrontier' /\ MineScanned'
  BY <1>0, <1>1, <1>2, BoundsTyped DEF IngestInv, RootsBehindFrontier, MineScanned,
     ScanIngestTypeOK, Frontiers, Heights, NoHeight, NoFork
<1>. QED
  BY <1>1, <1>2, <1>3, <1>4 DEF IngestInv, ScanIngestTypeOK

LEMMA IngestDroppedKeeps ==
  ASSUME ScanIngestAssumption, UtxoRefreshAssumption, IngestInv, Resting,
         scanned' = NoHeight, IngestDropped
  PROVE  IngestInv'
<1>1. roots' = [p \in Pools |-> <<>>]
  BY DEF IngestDropped, NoRoots
<1>2. \A p \in Pools : DOMAIN roots'[p] = {} /\ roots'[p] \in [{} -> Heights]
  BY <1>1
<1>3. ScanIngestTypeOK'
  BY <1>1, <1>2, BoundsTyped DEF IngestDropped, IngestInv, ScanIngestTypeOK
<1>4. InHand'
  BY RestingHand DEF IngestDropped
<1>. QED
  BY <1>2, <1>3, <1>4, BoundsTyped
     DEF IngestInv, RootsBehindFrontier, MineScanned, IngestDropped

\* A crash ends the attempt; what it wrote stays.
LEMMA AttemptDies ==
  ASSUME ScanIngestAssumption, UtxoRefreshAssumption, IngestInv,
         scan' = NoScan, UNCHANGED <<best, database>>
  PROVE  IngestInv'
<1>1. InHand'
  BY DEF InHand, NoScan
<1>. QED
  BY <1>1, NoScanTyped, AttemptMoves

LEMMA FrontierMovesAlone ==
  ASSUME ScanIngestAssumption, UtxoRefreshAssumption, IngestInv, Resting,
         roots = NoRoots, mine = NoFork, scanned' \in Frontiers, UNCHANGED ingestVars
  PROVE  IngestInv'
<1>1. \A p \in Pools : DOMAIN roots'[p] = {}
  BY DEF NoRoots, ingestVars
<1>2. InHand'
  BY RestingHand DEF ingestVars
<1>. QED
  BY <1>1, <1>2 DEF IngestInv, ScanIngestTypeOK, RootsBehindFrontier, MineScanned, ingestVars

LEMMA IngestUnchanged ==
  ASSUME IngestInv, UNCHANGED <<scanned, ingestVars>>
  PROVE  IngestInv'
BY DEF IngestInv, ScanIngestTypeOK, RootsBehindFrontier, InHand, MineScanned, ingestVars,
   Asked, Expected

LEMMA ContractPageValid ==
  ASSUME ScanIngestAssumption, NEW page \in Pages, InContract(page), scan.next \in Nat
  PROVE  ValidPage(page)
<1>. DEFINE n == Len(page)
<1>1. n \in Nat /\ DOMAIN page = 1..n /\ \A i \in 1..n : page[i].index \in Nat
  BY PageTyped
<1>2. \A k \in scan.next..(scan.next + n - 1) : page[k - scan.next + 1].index = k
  BY DEF InContract
<1>3. ASSUME NEW i \in 1..n PROVE page[i].index = scan.next + i - 1
  <2>. DEFINE k == scan.next + i - 1
  <2>1. k \in scan.next..(scan.next + n - 1) /\ k - scan.next + 1 = i
    BY <1>1
  <2>. HIDE DEF k, n
  <2>2. page[i].index = k
    BY <1>2, <2>1
  <2>. QED
    BY <2>2 DEF k
<1>. QED
  BY <1>1, <1>3 DEF InContract, ValidPage

LEMMA AskedWholeRange ==
  ASSUME ScanIngestAssumption, UtxoRefreshAssumption, scan \in Attempt,
         scanned \in Heights, scanned < scan.to
  PROVE  WholeRange(Asked)
<1>1. Asked \in Blocks /\ Len(Asked) = scan.to - scanned
  BY AskedTyped
<1>2. scan.to \in Heights
  BY DEF Attempt
<1>3. DOMAIN Asked = 1..Expected /\ \A i \in 1..Expected : Asked[i] = scanned + i
  BY DEF Asked
<1>4. \A i \in 1..Expected : scanned + i <= scan.to
  BY <1>2 DEF Expected, Heights
<1>. QED
  BY <1>1, <1>3, <1>4 DEF WholeRange, InOrder, Expected

\* Steps that end no attempt.
LEMMA NeverEnds ==
  ASSUME ScanIngestAssumption, UtxoRefreshAssumption, IngestInv,
         \/ \E r \in BOOLEAN : BeginScan(r)
         \/ UpdateTip \/ RecordTips \/ ChainAdvances \/ ChainReorgs
         \/ \E p \in Pools : TreeDamaged(p)
         \/ \E h \in Heights : RewindWallet(h)
  PROVE  ~EndsScan
<1>1. scan \in Attempt
  BY InTypes
<1>. QED
  BY <1>1 DEF BeginScan, NoScan, UpdateTip, RecordTips, ChainAdvances, ChainReorgs,
     TreeDamaged, RewindWallet, EndsScan, Attempt

LEMMA EndsFit ==
  ASSUME ScanIngestAssumption, UtxoRefreshAssumption, IngestInv, ScanIngestStep, EndsScan
  PROVE  EndFits
<1>0. /\ scan \in Attempt /\ InHand /\ scan.breached \in BOOLEAN
      /\ mine \in 1..NoFork /\ scan.epoch.fork \in 1..NoFork /\ scanned \in Frontiers
      /\ MaxHeight \in Nat /\ damaged \subseteq Pools \ EmptyPools
  BY InTypes DEF Attempt, Views, IngestInv, ScanIngestTypeOK, UtxoRefreshAssumption
<1>1. ASSUME NEW v, NEW b \in BOOLEAN, Ended(v, b) PROVE scan'.verdict = v /\ scan'.breached = b
  BY <1>1 DEF Ended, NoScan
<1>2. ASSUME NEW lawful \in BOOLEAN, ~lawful, Refused(lawful) PROVE EndFits
  <2>1. scan' = [NoScan EXCEPT !.at = "ended", !.verdict = "operator", !.breached = TRUE]
    BY <1>2 DEF Refused, Ended
  <2>2. scan'.verdict = "operator" /\ scan'.breached
    BY <2>1 DEF NoScan
  <2>. QED
    BY <2>2 DEF EndFits
<1>3. ASSUME NEW v \in {"retry", "refused", "conflict"}, EndScan(v) PROVE EndFits
  BY <1>0, <1>1, <1>3 DEF EndScan, EndFits
<1>4. ASSUME ReadFails PROVE EndFits
  BY <1>2, <1>3, <1>4 DEF ReadFails, SourceRefused
<1>5. ASSUME PinScan PROVE EndFits
  BY <1>0, <1>2, <1>5 DEF PinScan, EpochRefused, EndsScan, Attempt
<1>6. ASSUME PlanScan \/ Replan PROVE EndFits
  <2>1. scan'.at = "ended" /\ scan.at \in {"plan", "roots"}
    BY <1>6 DEF PlanScan, Replan, EndsScan
  <2>2. EndScan("completed")
    BY <1>0, <1>6, <2>1 DEF PlanScan, Replan, ScanRange, Attempt
  <2>3. ~scan.breached
    BY <1>0, <2>1 DEF InHand
  <2>. QED
    BY <1>0, <1>1, <2>1, <2>2, <2>3 DEF EndScan, EndFits
<1>7. ASSUME NEW p \in Pools, FetchRoots(p) PROVE EndFits
  <2>1. scan'.at = "ended" /\ scan.at = "roots" /\ scan.next \in Nat
    BY <1>0, <1>7 DEF FetchRoots, EndsScan, Attempt
  <2>2. PICK page \in Pages : \E kept \in 0..Len(page) :
          \/ scan'.at = scan.at
          \/ PageFails
          \/ ~ValidPage(page) /\ Refused(InContract(page))
    BY <1>0, <1>7 DEF FetchRoots, Attempt
  <2>3. CASE PageFails
    BY <1>3, <2>3 DEF PageFails
  <2>4. CASE ~ValidPage(page) /\ Refused(InContract(page))
    <3>1. ~InContract(page)
      BY <2>1, <2>4, ContractPageValid
    <3>2. Refused(FALSE)
      BY <2>4, <3>1 DEF Refused
    <3>. QED
      BY <1>2, <3>2
  <2>. QED
    BY <2>1, <2>2, <2>3, <2>4
<1>8. ASSUME FetchAnchor PROVE EndFits
  <2>1. scan'.at = "ended"
    BY DEF EndsScan
  <2>2. Refused(FALSE)
    BY <1>0, <1>8, <2>1 DEF FetchAnchor, TreeState, FrontierMissing, Unfit, Attempt
  <2>. QED
    BY <1>2, <2>2
<1>9. ASSUME FetchBlocks PROVE EndFits
  <2>1. scan'.at = "ended" /\ scan.at = "blocks" /\ scanned \in Heights /\ scanned < scan.to
    BY <1>0, <1>9 DEF EndsScan, FetchBlocks, InHand
  <2>2. \/ Refused(FALSE)
        \/ \E stream \in Streams : ~WholeRange(stream) /\ Refused(stream = Asked)
    BY ZenonT(40), <1>0, <1>9, <2>1 DEF FetchBlocks, BlockMalformed, Unfit, Attempt
  <2>3. ASSUME NEW stream \in Streams, ~WholeRange(stream) PROVE stream # Asked
    BY <1>0, <2>1, <2>3, AskedWholeRange
  <2>. QED
    BY <1>2, <2>2, <2>3
<1>10. ASSUME ScanFetched PROVE EndFits
  <2>1. scan'.at = "ended" /\ scan.at = "scan"
    BY <1>10 DEF EndsScan, ScanFetched
  <2>2. \/ EndScan("refused") \/ EndScan("conflict")
        \/ ~Linked /\ EndScan("reorg")
    BY <1>0, <1>10, <2>1 DEF ScanFetched, Attempt
  <2>3. CASE ~Linked /\ EndScan("reorg")
    <3>1. scan.blocks = Asked
      BY <1>0, <2>1 DEF InHand
    <3>2. \A i \in DOMAIN scan.blocks : scan.blocks[i] = scanned + i
      BY <3>1 DEF Asked
    <3>3. ~SameBlock(mine, scan.epoch.fork, scanned)
      BY <2>3, <3>2 DEF Linked
    <3>. QED
      BY <1>0, <1>1, <2>3, <3>3 DEF EndScan, EndFits
  <2>. QED
    BY <1>3, <2>2, <2>3
<1>11. ASSUME VerifyScan PROVE EndFits
  <2>0. scan.at = "verify" /\ ~scan.breached
    BY <1>0, <1>11 DEF VerifyScan, InHand
  <2>1. CASE Refused(FALSE)
    BY <1>2, <2>1
  <2>2. CASE Ended("refused", TRUE)
    <3>1. scan'.verdict = "refused"
      BY <2>2 DEF Ended, NoScan
    <3>. QED
      BY <3>1 DEF EndFits
  <2>3. CASE RootsDiffer /\ EndScan("diverged")
    <3>1. damaged # {}
      BY <2>3 DEF RootsDiffer
    <3>. QED
      BY <1>0, <1>1, <2>3, <3>1 DEF EndScan, EndFits
  <2>4. CASE ~RootsDiffer /\ EndScan("completed")
    <3>1. damaged = {}
      BY <1>0, <2>4 DEF RootsDiffer
    <3>2. ASSUME NEW h \in 0..scanned PROVE SameBlock(mine, scan.epoch.fork, h)
      BY <1>0, <2>0 DEF InHand, SameBlock, Frontiers, Heights, NoHeight, NoFork
    <3>. QED
      BY <1>0, <1>1, <2>0, <2>4, <3>1, <3>2 DEF EndScan, EndFits
  <2>. QED
    BY <1>11, <2>1, <2>2, <2>3, <2>4 DEF VerifyScan, FrontierMissing
<1>12. scan' = scan => FALSE
  BY DEF EndsScan
<1>. QED
  BY <1>4, <1>5, <1>6, <1>7, <1>8, <1>9, <1>10, <1>11, <1>12, NeverEnds DEF ScanIngestStep
=============================================================================
