-------------------------- MODULE WalletStoreProofs --------------------------
(***************************************************************************)
(* The wallet store's invariants for any number of calls, requests, hold   *)
(* identifiers, receivers, outpoints, seeds, pools and blocks.             *)
(*                                                                         *)
(* Each component's invariant is proved over its own steps first; the      *)
(* composition then splits on who moved (ScanIngestProofs has the scans'   *)
(* lemmas).  RowsAttested and OneHoldPerRequest are inductive with the     *)
(* types.  HoldsBacked needs BackedInv: what a reservation has read of the *)
(* balance.  FilesBelongTogether needs BuildFollows: what the builder call *)
(* in flight carries at each of its steps, and in which steps of a reset   *)
(* there is an account.                                                    *)
(***************************************************************************)
EXTENDS WalletStore, ScanIngestProofs, FiniteSums

Calling == [at : Stages, request : Requests \cup {None}, amount : Nat, seen : Nat]

Row == [request : Requests \cup {None}, amount : Nat]

ReservationsInv == ReservationsTypeOK /\ OneHoldPerRequest

-----------------------------------------------------------------------------
(* Reservations.                                                           *)

LEMMA ReservationsInitially ==
  ASSUME ReservationsInit
  PROVE  ReservationsInv
<1>1. DOMAIN holds = {}
  BY DEF ReservationsInit
<1>2. holds \in [{} -> Row]
  BY <1>1 DEF ReservationsInit, Row
<1>3. resv \in [Reservers -> Calling]
  BY DEF ReservationsInit, Rested, Calling, Stages
<1>. QED
  BY <1>1, <1>2, <1>3 DEF ReservationsInit, ReservationsInv, ReservationsTypeOK,
     OneHoldPerRequest, ActiveOf, Active, Calling, Row

LEMMA PeakTyped ==
  ASSUME balance' \in Nat, peak \in Nat, PeakMoves
  PROVE  peak' \in Nat
BY DEF PeakMoves

LEMMA OneHoldShrinks ==
  ASSUME OneHoldPerRequest, holds' = holds, Active' \subseteq Active
  PROVE  OneHoldPerRequest'
BY DEF OneHoldPerRequest, ActiveOf

LEMMA RowsKept ==
  ASSUME ReservationsInv, holds' = holds, finalized' = finalized, released' = released,
         resv' \in [Reservers -> Calling], balance' \in Nat, PeakMoves
  PROVE  ReservationsInv'
<1>1. peak' \in Nat
  BY PeakTyped DEF ReservationsInv, ReservationsTypeOK
<1>2. OneHoldPerRequest'
  BY OneHoldShrinks DEF ReservationsInv, Active
<1>. QED
  BY <1>1, <1>2 DEF ReservationsInv, ReservationsTypeOK, Calling

LEMMA CallUpdated ==
  ASSUME NEW w \in Reservers, resv \in [Reservers -> Calling], NEW c \in Calling,
         resv' = [resv EXCEPT ![w] = c]
  PROVE  resv' \in [Reservers -> Calling]
OBVIOUS

LEMMA RestedTyped == Rested \in Calling
BY DEF Rested, Calling, Stages

LEMMA CreateHoldKeeps ==
  ASSUME NEW w \in Reservers, ReservationsInv, CreateHold(w), PeakMoves
  PROVE  ReservationsInv'
<1>. USE DEF ReservationsInv
<1>1. resv' \in [Reservers -> Calling]
  BY CallUpdated, RestedTyped DEF CreateHold, Ends, ReservationsTypeOK, Calling
<1>2. balance' \in Nat
  BY DEF CreateHold, ReservationsTypeOK
<1>3. CASE holds' = holds
  BY <1>1, <1>2, <1>3, RowsKept DEF CreateHold
<1>4. CASE RequestFree(w) /\ FundsStillFree(w)
  <2>1. PICK h \in HoldIds \ DOMAIN holds :
          holds' = [x \in DOMAIN holds \cup {h} |->
                      IF x = h THEN [request |-> resv[w].request,
                                     amount |-> resv[w].amount]
                               ELSE holds[x]]
    BY <1>4 DEF CreateHold
  <2>2. [request |-> resv[w].request, amount |-> resv[w].amount] \in Row
    BY DEF ReservationsTypeOK, Row
  <2>3. holds \in [DOMAIN holds -> Row]
    BY DEF ReservationsTypeOK, Row
  <2>4. holds' \in [DOMAIN holds \cup {h} -> Row]
    BY <2>1, <2>2, <2>3
  <2>5. /\ DOMAIN holds' = DOMAIN holds \cup {h}
        /\ \A x \in DOMAIN holds : holds'[x] = holds[x]
        /\ holds'[h].request = resv[w].request
    BY <2>1
  <2>6. finalized' = finalized /\ released' = released
    BY DEF CreateHold
  <2>7. Active' = Active \cup {h}
    BY <2>5, <2>6 DEF Active, ReservationsTypeOK
  <2>8. OneHoldPerRequest'
    <3>. SUFFICES ASSUME NEW r \in Requests, NEW g \in ActiveOf(r)', NEW k \in ActiveOf(r)'
                  PROVE  g = k
      BY DEF OneHoldPerRequest
    <3>1. Active \subseteq DOMAIN holds
      BY DEF Active
    <3>2. CASE r = resv[w].request
      <4>1. ActiveOf(r) = {}
        BY <1>4, <3>2 DEF RequestFree
      <4>2. ActiveOf(r)' \subseteq {h}
        BY <4>1, <2>5, <2>7, <3>1 DEF ActiveOf
      <4>. QED BY <4>2
    <3>3. CASE r # resv[w].request
      <4>1. ActiveOf(r)' \subseteq ActiveOf(r)
        BY <3>3, <2>5, <2>7, <3>1 DEF ActiveOf
      <4>. QED BY <4>1 DEF OneHoldPerRequest
    <3>. QED BY <3>2, <3>3
  <2>9. peak' \in Nat
    BY <1>2, PeakTyped DEF ReservationsTypeOK
  <2>. QED
    BY <1>1, <1>2, <2>4, <2>5, <2>6, <2>8, <2>9 DEF ReservationsTypeOK, Calling, Row
<1>. QED
  BY <1>3, <1>4 DEF CreateHold

LEMMA ReservationsKeep ==
  ASSUME ReservationsAssumption, ReservationsInv, ReservationsStep
  PROVE  ReservationsInv'
<1>. USE DEF ReservationsInv
<1>0. PeakMoves /\ resv \in [Reservers -> Calling] /\ balance \in Nat
  BY DEF ReservationsStep, ReservationsTypeOK, Calling
<1>1. ASSUME NEW w \in Reservers, NEW r \in Requests, NEW a \in Amounts, FindHold(w, r, a)
      PROVE  ReservationsInv'
  <2>1. [at |-> "notes", request |-> r, amount |-> a, seen |-> 0] \in Calling
    BY DEF Calling, Stages, ReservationsAssumption
  <2>2. resv' \in [Reservers -> Calling]
    BY <1>0, <1>1, <2>1, CallUpdated DEF FindHold
  <2>. QED
    BY <1>0, <1>1, <2>2, RowsKept DEF FindHold, holdVars
<1>2. ASSUME NEW w \in Reservers, ReadNotes(w) PROVE ReservationsInv'
  <2>1. [resv[w] EXCEPT !.at = "sum", !.seen = balance] \in Calling
    BY <1>0 DEF Calling, Stages
  <2>2. resv' = [resv EXCEPT ![w] = [resv[w] EXCEPT !.at = "sum", !.seen = balance]]
    BY <1>0, <1>2 DEF ReadNotes
  <2>. QED
    BY <1>0, <1>2, <2>1, <2>2, CallUpdated, RowsKept DEF ReadNotes, holdVars
<1>3. ASSUME NEW w \in Reservers, CheckFunds(w) PROVE ReservationsInv'
  <2>1. [resv[w] EXCEPT !.at = "create"] \in Calling
    BY <1>0 DEF Calling, Stages
  <2>2. \/ resv' = [resv EXCEPT ![w] = Rested]
        \/ resv' = [resv EXCEPT ![w] = [resv[w] EXCEPT !.at = "create"]]
    BY <1>0, <1>3 DEF CheckFunds, Ends
  <2>. QED
    BY <1>0, <1>3, <2>1, <2>2, CallUpdated, RestedTyped, RowsKept DEF CheckFunds, holdVars
<1>4. ASSUME NEW w \in Reservers, CreateHold(w) PROVE ReservationsInv'
  BY <1>0, <1>4, CreateHoldKeeps
<1>5. ASSUME NEW w \in Reservers, ReserveFails(w) PROVE ReservationsInv'
  BY <1>0, <1>5, CallUpdated, RestedTyped, RowsKept DEF ReserveFails, Ends, holdVars
<1>6. ASSUME NEW h \in HoldIds, ReleaseHold(h) \/ FinalizeHold(h) PROVE ReservationsInv'
  <2>1. Active' \subseteq Active
    BY <1>6 DEF ReleaseHold, FinalizeHold, Active
  <2>2. OneHoldPerRequest'
    BY <1>6, <2>1, OneHoldShrinks DEF ReleaseHold, FinalizeHold
  <2>3. peak' \in Nat
    BY <1>0, <1>6, PeakTyped DEF ReleaseHold, FinalizeHold, ReservationsTypeOK
  <2>. QED
    BY <1>6, <2>2, <2>3 DEF ReleaseHold, FinalizeHold, ReservationsTypeOK
<1>7. ASSUME BalanceMoves PROVE ReservationsInv'
  BY <1>0, <1>7, RowsKept DEF BalanceMoves, holdVars, ReservationsAssumption
<1>. QED
  BY <1>1, <1>2, <1>3, <1>4, <1>5, <1>6, <1>7 DEF ReservationsStep

LEMMA HoldsDroppedKeeps ==
  ASSUME ReservationsInv, HoldsDropped
  PROVE  ReservationsInv'
<1>1. DOMAIN holds' = {}
  BY DEF HoldsDropped
<1>2. holds' \in [{} -> Row]
  BY <1>1 DEF HoldsDropped, Row
<1>3. peak' \in Nat
  BY PeakTyped DEF HoldsDropped, ReservationsInv, ReservationsTypeOK
<1>. QED
  BY <1>1, <1>2, <1>3 DEF HoldsDropped, ReservationsInv, ReservationsTypeOK,
     OneHoldPerRequest, ActiveOf, Active, Row

LEMMA ReserversDroppedKeeps ==
  ASSUME ReservationsInv, ReserversDropped
  PROVE  ReservationsInv'
BY RestedTyped, RowsKept DEF ReserversDropped, holdVars, ReservationsInv,
   ReservationsTypeOK

LEMMA ReservationsUnchanged ==
  ASSUME ReservationsInv, UNCHANGED reservationVars
  PROVE  ReservationsInv'
BY DEF ReservationsInv, ReservationsTypeOK, OneHoldPerRequest, ActiveOf, Active,
   reservationVars

-----------------------------------------------------------------------------
(* What the holds are backed by.                                           *)

\* The notes a call has read were the wallet's at some time the peak knows.
BackedInv ==
  /\ IsFiniteSet(DOMAIN holds)
  /\ HoldsBacked
  /\ balance <= peak
  /\ \A w \in Reservers : Reading(w) => resv[w].seen <= peak

LEMMA ReservedIsTotal ==
  /\ Reserved = Total(holds, Active)
  /\ Reserved' = Total(holds', Active')
BY DEF Reserved, Total, MapThenSumSet, MapThenFoldSet

LEMMA ReservedTotals ==
  ASSUME ReservationsTypeOK, IsFiniteSet(DOMAIN holds)
  PROVE  /\ IsFiniteSet(Active)
         /\ \A h \in Active : holds[h].amount \in Nat
         /\ Reserved \in Nat
<1>1. IsFiniteSet(Active)
  BY FS_Subset DEF Active
<1>2. \A h \in Active : holds[h].amount \in Nat
  BY DEF Active, ReservationsTypeOK
<1>. QED
  BY <1>1, <1>2, ReservedIsTotal, TotalNat

\* The peak falls only when it backs nothing.
LEMMA PeakHolds ==
  ASSUME PeakMoves, peak \in Nat, balance' \in Nat
  PROVE  /\ balance' <= peak'
         /\ peak' < peak => Active' = {} /\ \A w \in Reservers : ~Reading(w)'
BY DEF PeakMoves, Reading

\* No row comes and the calls that read go on reading what they read.
LEMMA HoldsShrink ==
  ASSUME ReservationsTypeOK, ReservationsTypeOK', BackedInv, PeakMoves,
         IsFiniteSet(DOMAIN holds'), Active' \subseteq Active,
         \A h \in Active' : holds'[h] = holds[h],
         \A w \in Reservers : Reading(w)' => \/ resv'[w].seen = balance'
                                             \/ Reading(w) /\ resv'[w].seen = resv[w].seen
  PROVE  BackedInv'
<1>1. Reserved' <= Reserved
  <2>1. Total(holds', Active') = Total(holds, Active')
    <3>1. IsFiniteSet(Active')
      BY ReservedTotals, FS_Subset DEF BackedInv
    <3>. QED BY <3>1, TotalSame
  <2>2. Total(holds, Active') <= Total(holds, Active)
    BY ReservedTotals, TotalPart DEF BackedInv
  <2>3. Reserved' = Total(holds', Active')
    BY ReservedIsTotal
  <2>. QED BY <2>1, <2>2, <2>3, ReservedIsTotal
<1>2. Active' = {} => Reserved' = 0
  BY TotalUnfolds, FS_EmptySet, ReservedIsTotal
<1>3. Reserved \in Nat /\ Reserved' \in Nat
  <2>1. IsFiniteSet(Active') /\ \A h \in Active' : holds'[h].amount \in Nat
    BY FS_Subset DEF Active, ReservationsTypeOK
  <2>. QED
    BY <2>1, ReservedTotals, ReservedIsTotal, TotalNat DEF BackedInv
<1>4. peak \in Nat /\ peak' \in Nat /\ balance' \in Nat
  BY DEF ReservationsTypeOK
<1>5. HoldsBacked'
  BY <1>1, <1>2, <1>3, <1>4, PeakHolds DEF BackedInv, HoldsBacked
<1>6. ASSUME NEW w \in Reservers, Reading(w)' PROVE resv'[w].seen <= peak'
  BY <1>4, <1>6, PeakHolds DEF BackedInv, ReservationsTypeOK
<1>. QED
  BY <1>4, <1>5, <1>6, PeakHolds DEF BackedInv

LEMMA HoldCreated ==
  ASSUME NEW w \in Reservers, ReservationsTypeOK, ReservationsTypeOK', BackedInv,
         CreateHold(w), PeakMoves, FundsStillFree(w), NEW h \in HoldIds \ DOMAIN holds,
         holds' = [x \in DOMAIN holds \cup {h} |->
                     IF x = h THEN [request |-> resv[w].request, amount |-> resv[w].amount]
                              ELSE holds[x]]
  PROVE  BackedInv'
<1>1. /\ DOMAIN holds' = DOMAIN holds \cup {h}
      /\ \A x \in DOMAIN holds : holds'[x] = holds[x]
      /\ holds'[h].amount = resv[w].amount
      /\ finalized' = finalized /\ released' = released
  BY DEF CreateHold
<1>2. IsFiniteSet(DOMAIN holds')
  BY <1>1, FS_AddElement DEF BackedInv
<1>3. Active' = Active \cup {h} /\ h \notin Active /\ Active \subseteq DOMAIN holds
  BY <1>1 DEF Active, ReservationsTypeOK
<1>4. Reserved' = resv[w].amount + Reserved
  <2>1. IsFiniteSet(Active)
    BY ReservedTotals DEF BackedInv
  <2>2. \A x \in Active \cup {h} : holds'[x].amount \in Nat
    BY <1>3 DEF ReservationsTypeOK, Active
  <2>3. Total(holds', Active \cup {h}) = resv[w].amount + Total(holds', Active)
    BY <1>1, <1>3, <2>1, <2>2, TotalWith
  <2>4. Total(holds', Active) = Total(holds, Active)
    BY <1>1, <1>3, <2>1, TotalSame
  <2>5. Reserved' = Total(holds', Active')
    BY ReservedIsTotal
  <2>. QED BY <1>3, <2>3, <2>4, <2>5, ReservedIsTotal
<1>5. resv[w].seen <= peak
  BY DEF CreateHold, Reading, BackedInv
<1>6. peak \in Nat /\ peak' \in Nat /\ balance' \in Nat /\ balance' <= peak' /\ peak <= peak'
  BY <1>3, PeakHolds DEF ReservationsTypeOK
<1>7. HoldsBacked'
  <2>1. resv[w].amount \in Nat /\ resv[w].seen \in Nat
    BY DEF ReservationsTypeOK
  <2>2. Reserved \in Nat
    BY ReservedTotals DEF BackedInv
  <2>. QED
    BY <1>4, <1>5, <1>6, <2>1, <2>2 DEF HoldsBacked, FundsStillFree
<1>8. ASSUME NEW v \in Reservers, Reading(v)' PROVE resv'[v].seen <= peak'
  <2>1. resv[v].seen \in Nat /\ Reading(v) /\ resv'[v].seen = resv[v].seen
    BY <1>8 DEF CreateHold, Ends, Rested, Reading, ReservationsTypeOK
  <2>. QED
    BY <1>6, <2>1 DEF BackedInv
<1>. QED
  BY <1>2, <1>6, <1>7, <1>8 DEF BackedInv

LEMMA ReservationsKeepBacked ==
  ASSUME ReservationsTypeOK, ReservationsTypeOK', BackedInv, ReservationsStep
  PROVE  BackedInv'
<1>. DEFINE Calm(w) == Reading(w)' => \/ resv'[w].seen = balance'
                                      \/ Reading(w) /\ resv'[w].seen = resv[w].seen
<1>0. PeakMoves
  BY DEF ReservationsStep
<1>1. CASE UNCHANGED holdVars /\ \A w \in Reservers : Calm(w)
  BY <1>0, <1>1, HoldsShrink DEF BackedInv, holdVars, Active
<1>2. ASSUME NEW v \in Reservers, NEW r \in Requests, NEW a \in Amounts, FindHold(v, r, a)
      PROVE  UNCHANGED holdVars /\ \A w \in Reservers : Calm(w)
  BY <1>2 DEF FindHold, Reading, ReservationsTypeOK
<1>3. ASSUME NEW v \in Reservers, ReadNotes(v) \/ CheckFunds(v) \/ ReserveFails(v)
      PROVE  UNCHANGED holdVars /\ \A w \in Reservers : Calm(w)
  BY <1>3 DEF ReadNotes, CheckFunds, ReserveFails, Ends, Rested, Reading, ReservationsTypeOK
<1>4. ASSUME NEW v \in Reservers, CreateHold(v) PROVE BackedInv'
  <2>1. CASE RequestFree(v) /\ FundsStillFree(v)
    BY <1>0, <1>4, <2>1, HoldCreated DEF CreateHold
  <2>2. CASE UNCHANGED holds
    <3>1. UNCHANGED holdVars /\ \A w \in Reservers : Calm(w)
      BY <1>4, <2>2 DEF CreateHold, Ends, Rested, Reading, ReservationsTypeOK, holdVars
    <3>. QED BY <1>1, <3>1
  <2>. QED
    BY <1>4, <2>1, <2>2 DEF CreateHold
<1>5. ASSUME NEW h \in HoldIds, ReleaseHold(h) \/ FinalizeHold(h) PROVE BackedInv'
  <2>1. /\ Active' \subseteq Active /\ holds' = holds
        /\ \A w \in Reservers : Calm(w)
    BY <1>5 DEF ReleaseHold, FinalizeHold, Active, Reading
  <2>. QED
    BY <1>0, <2>1, HoldsShrink DEF BackedInv
<1>6. ASSUME BalanceMoves PROVE UNCHANGED holdVars /\ \A w \in Reservers : Calm(w)
  BY <1>6 DEF BalanceMoves, Reading
<1>. QED
  <2>. HIDE DEF Calm
  <2>. QED
    BY <1>1, <1>2, <1>3, <1>4, <1>5, <1>6 DEF ReservationsStep

LEMMA DropsKeepBacked ==
  ASSUME ReservationsTypeOK, ReservationsTypeOK', BackedInv, HoldsDropped \/ ReserversDropped
  PROVE  BackedInv'
<1>1. IsFiniteSet(DOMAIN holds')
  BY FS_EmptySet DEF HoldsDropped, ReserversDropped, holdVars, BackedInv
<1>2. Active' \subseteq Active /\ \A h \in Active' : holds'[h] = holds[h]
  BY DEF HoldsDropped, ReserversDropped, holdVars, Active
<1>3. \A w \in Reservers : Reading(w)' => Reading(w) /\ resv'[w].seen = resv[w].seen
  BY DEF HoldsDropped, ReserversDropped, Rested, Reading, ReservationsTypeOK
<1>. QED
  BY <1>1, <1>2, <1>3, HoldsShrink DEF HoldsDropped, ReserversDropped

LEMMA BackedUnchanged ==
  ASSUME BackedInv, UNCHANGED reservationVars
  PROVE  BackedInv'
<1>1. Active' = Active /\ Reserved' = Reserved
  BY ReservedIsTotal DEF Active, reservationVars
<1>. QED
  BY <1>1 DEF BackedInv, HoldsBacked, Reading, reservationVars

LEMMA BackedInitially ==
  ASSUME ReservationsInit
  PROVE  BackedInv
<1>1. DOMAIN holds = {} /\ Active = {}
  BY DEF ReservationsInit, Active
<1>2. Reserved = 0
  BY <1>1, ReservedIsTotal, TotalUnfolds, FS_EmptySet
<1>. QED
  BY <1>1, <1>2, FS_EmptySet DEF ReservationsInit, BackedInv, HoldsBacked, Reading, Rested

-----------------------------------------------------------------------------
(* The refresh.                                                            *)

Found == [outpoint : Outpoints, height : Heights]

UtxoRow == [outpoint : Outpoints, height : Heights, floor : Frontiers]

Walk == [at : WalkStages, tip : Heights, floor : Frontiers,
         todo : SUBSET Receivers, seen : SUBSET Outpoints, batch : SUBSET Found]

RefreshInv == UtxoRefreshTypeOK /\ RowsAttested

LEMMA ZeroIsAHeight ==
  ASSUME UtxoRefreshAssumption
  PROVE  0 \in Heights
BY DEF UtxoRefreshAssumption, Heights

LEMMA NoWalkTyped ==
  ASSUME UtxoRefreshAssumption
  PROVE  NoWalk \in Walk
BY ZeroIsAHeight DEF NoWalk, Walk, WalkStages, Frontiers

LEMMA RefreshTypes ==
  UtxoRefreshTypeOK <=> scanned \in Frontiers /\ rows \subseteq UtxoRow /\ walk \in Walk
BY DEF UtxoRefreshTypeOK, UtxoRow, Walk, Found

LEMMA RefreshInitially ==
  ASSUME UtxoRefreshAssumption, UtxoRefreshInit
  PROVE  RefreshInv
BY NoWalkTyped, RefreshTypes DEF UtxoRefreshInit, RefreshInv, RowsAttested, Frontiers

LEMMA FrontierRises ==
  ASSUME RefreshInv, scanned' \in Frontiers, scanned' >= scanned, rows' = rows,
         walk' \in Walk
  PROVE  RefreshInv'
<1>1. UtxoRefreshTypeOK'
  BY DEF RefreshInv, UtxoRefreshTypeOK, Walk, Found
<1>2. ASSUME NEW x \in rows, x.height <= x.floor PROVE x.height <= scanned'
  <2>1. x \in UtxoRow
    BY RefreshTypes DEF RefreshInv
  <2>2. x.height \in Int /\ scanned \in Int /\ scanned' \in Int
    BY <2>1 DEF RefreshInv, UtxoRefreshTypeOK, UtxoRow, Frontiers, Heights, NoHeight
  <2>. QED
    BY <1>2, <2>2 DEF RefreshInv, RowsAttested
<1>. QED
  BY <1>1, <1>2 DEF RefreshInv, RowsAttested

LEMMA WalkMoves ==
  ASSUME RefreshInv, scanned' = scanned, rows' = rows, walk' \in Walk
  PROVE  RefreshInv'
BY DEF RefreshInv, UtxoRefreshTypeOK, RowsAttested, Walk, Found

LEMMA CommitReceiverKeeps ==
  ASSUME UtxoRefreshAssumption, RefreshInv, CommitReceiver
  PROVE  RefreshInv'
<1>0. /\ scanned \in Frontiers
      /\ rows \subseteq UtxoRow
      /\ walk \in Walk
  BY RefreshTypes DEF RefreshInv
<1>1. CASE Receded
  BY <1>1, NoWalkTyped, WalkMoves DEF CommitReceiver
<1>2. CASE ~Receded
  <2>1. walk' \in Walk
    <3>1. walk' = [walk EXCEPT !.at = "fetch", !.batch = {}]
      BY <1>2 DEF CommitReceiver
    <3>. QED
      BY <1>0, <3>1 DEF Walk, WalkStages
  <2>2. rows' = Written \cup {x \in rows : \A b \in walk.batch : b.outpoint # x.outpoint}
    BY <1>2 DEF CommitReceiver
  <2>3. Written \subseteq UtxoRow
    BY <1>0 DEF Written, Walk, Found, UtxoRow
  <2>4. ASSUME NEW x \in Written, x.height <= x.floor PROVE x.height <= scanned
    <3>1. x.floor = walk.floor /\ x.height \in Heights
      BY <1>0, <2>4 DEF Written, Walk, Found
    <3>2. walk.floor \in Frontiers
      BY <1>0 DEF Walk
    <3>3. walk.floor # NoHeight
      BY <2>4, <3>1 DEF Heights, NoHeight
    <3>. QED
      BY <1>0, <1>2, <2>4, <3>1, <3>2, <3>3
         DEF Receded, Heights, Frontiers, NoHeight
  <2>5. scanned' = scanned
    BY DEF CommitReceiver
  <2>6. RowsAttested'
    BY <2>2, <2>4, <2>5 DEF RowsAttested, RefreshInv
  <2>. QED
    BY <1>0, <2>1, <2>2, <2>3, <2>5, <2>6
       DEF RefreshInv, UtxoRefreshTypeOK, Walk, Found, UtxoRow
<1>. QED
  BY <1>1, <1>2

LEMMA RewindToKeeps ==
  ASSUME NEW h, RefreshInv, RewindTo(h)
  PROVE  RefreshInv'
<1>1. scanned' = h /\ h \in Heights /\ walk' = walk
      /\ rows' = {x \in rows : x.height <= h}
  BY DEF RewindTo, RowsUpTo
<1>. QED
  BY <1>1 DEF RefreshInv, UtxoRefreshTypeOK, RowsAttested, Frontiers

LEMMA RefreshKeeps ==
  ASSUME UtxoRefreshAssumption, RefreshInv, NEW known \in BOOLEAN,
         WalkStep(known) \/ FrontierStep(known)
  PROVE  RefreshInv'
<1>0. walk \in Walk /\ scanned \in Frontiers
  BY RefreshTypes DEF RefreshInv
<1>1. ASSUME PinEpoch PROVE RefreshInv'
  <2>1. PICK t \in Heights : walk' = [NoWalk EXCEPT !.at = "floor", !.tip = t]
    BY <1>1 DEF PinEpoch
  <2>2. walk' \in Walk
    BY <2>1, NoWalkTyped DEF Walk, WalkStages
  <2>. QED
    BY <1>1, <2>2, WalkMoves DEF PinEpoch
<1>2. ASSUME ReadFloor PROVE RefreshInv'
  <2>1. walk' \in Walk
    BY <1>0, <1>2 DEF ReadFloor, Walk, WalkStages
  <2>. QED
    BY <1>2, <2>1, WalkMoves DEF ReadFloor
<1>3. ASSUME ListReceivers(known) PROVE RefreshInv'
  <2>1. walk' \in Walk
    BY <1>0, <1>3 DEF ListReceivers, Walk, WalkStages
  <2>. QED
    BY <1>3, <2>1, WalkMoves DEF ListReceivers
<1>4. ASSUME NEW r \in Receivers, FetchReceiver(r) PROVE RefreshInv'
  <2>1. PICK utxos \in Reports :
          walk' = IF Valid(r, utxos)
                    THEN [walk EXCEPT !.at = "commit", !.todo = @ \ {r},
                            !.seen = @ \cup {u.outpoint : u \in utxos},
                            !.batch = {[outpoint |-> u.outpoint, height |-> u.height] : u \in utxos}]
                    ELSE NoWalk
    BY <1>4 DEF FetchReceiver
  <2>2. utxos \subseteq [outpoint : Outpoints, height : Heights, script : Receivers]
    BY DEF Reports
  <2>3. /\ {u.outpoint : u \in utxos} \subseteq Outpoints
        /\ {[outpoint |-> u.outpoint, height |-> u.height] : u \in utxos} \subseteq Found
    BY <2>2 DEF Found
  <2>4. walk' \in Walk
    BY <1>0, <2>1, <2>3, NoWalkTyped DEF Walk, WalkStages
  <2>. QED
    BY <1>4, <2>4, WalkMoves DEF FetchReceiver
<1>5. ASSUME CommitReceiver PROVE RefreshInv'
  BY <1>5, CommitReceiverKeeps
<1>6. ASSUME EndWalk PROVE RefreshInv'
  BY <1>6, NoWalkTyped, WalkMoves DEF EndWalk
<1>7. ASSUME ScanBlocks PROVE RefreshInv'
  <2>1. scanned' \in Frontiers /\ scanned' >= scanned
    BY <1>0, <1>7 DEF ScanBlocks, Frontiers, Heights, NoHeight
  <2>. QED
    BY <1>0, <1>7, <2>1, FrontierRises DEF ScanBlocks
<1>8. ASSUME NEW h \in Heights, RewindTo(h) PROVE RefreshInv'
  BY <1>8, RewindToKeeps
<1>. QED
  BY <1>1, <1>2, <1>3, <1>4, <1>5, <1>6, <1>7, <1>8 DEF WalkStep, FrontierStep

LEMMA RowsDroppedKeeps ==
  ASSUME RefreshInv, RowsDropped
  PROVE  RefreshInv'
BY DEF RefreshInv, RowsDropped, UtxoRefreshTypeOK, RowsAttested, Frontiers

LEMMA ScanKeepsRows ==
  ASSUME ScanIngestAssumption, UtxoRefreshAssumption, IngestInv, RefreshInv, ScanIngestStep
  PROVE  RefreshInv'
<1>1. CASE scanned' >= scanned /\ UNCHANGED <<rows, walk>>
  <2>1. scanned' \in Frontiers
    BY IngestKeeps DEF IngestInv
  <2>2. walk' \in Walk
    BY <1>1, RefreshTypes DEF RefreshInv
  <2>. QED
    BY <1>1, <2>1, <2>2, FrontierRises
<1>2. CASE \E h \in Heights : RewindTo(h)
  BY <1>2, RewindToKeeps
<1>. QED
  BY <1>1, <1>2, IngestMovesFrontier

LEMMA TipSetKeepsRows ==
  ASSUME ScanIngestAssumption, UtxoRefreshAssumption, IngestInv, RefreshInv, Resting,
         TipSet, rows' = rows, walk' = walk
  PROVE  RefreshInv'
<1>1. walk \in Walk
  BY RefreshTypes DEF RefreshInv
<1>2. scanned' \in Frontiers /\ scanned' >= scanned
  BY TipSetKeeps DEF IngestInv
<1>. QED
  BY <1>1, <1>2, FrontierRises

LEMMA RefreshUnchanged ==
  ASSUME RefreshInv, UNCHANGED <<scanned, rows, walk>>
  PROVE  RefreshInv'
BY DEF RefreshInv, UtxoRefreshTypeOK, RowsAttested

-----------------------------------------------------------------------------
(* The files.                                                              *)

FilesTypeOK ==
  /\ identity \in {"absent", "written"}
  /\ sealed \in Seeds \cup {None}
  /\ accounts \subseteq Seeds
  /\ build \in [call : Calls \cup {None}, at : BuildStages, seed : Seeds \cup {None}]
  /\ live \in Seeds \cup {None}
  /\ actor \in ActorStages
  /\ workload \subseteq Activities

\* What the call in flight carries, and where a reset stands.
BuildFollows ==
  /\ build.at # "idle" => live = None
  /\ build.at \in {"find", "import", "tip", "assemble"} => build.seed = sealed /\ sealed # None
  /\ build.at = "find" => build.call # "create"
  /\ build.at = "chain" => (IF build.call = "create" THEN sealed = None
                                                     ELSE build.seed = sealed /\ sealed # None)
  /\ build.at \in {"identity", "seal"} => sealed = None /\ build.seed \in Seeds
  /\ build.at = "seal" => identity = "written"
  /\ build.at \in {"tip", "assemble"} => accounts = {sealed}
  /\ actor # "notOpened" => live # None
  /\ actor = "resetTip" => accounts = {live}

FilesInv == FilesTypeOK /\ BuildFollows /\ FilesBelongTogether

LEMMA FilesInitially ==
  ASSUME WalletStoreAssumption, Init
  PROVE  FilesInv
BY DEF WalletStoreAssumption, Init, FilesInv, FilesTypeOK, BuildFollows,
   FilesBelongTogether, NoBuild, BuildStages, ActorStages

LEMMA BuildKeepsFiles ==
  ASSUME WalletStoreAssumption, FilesInv, Build
  PROVE  FilesInv'
<1>. USE DEF FilesInv, FilesTypeOK, BuildFollows, FilesBelongTogether, files, handleVars
<1>. USE DEF WalletStoreAssumption
<1>1. ASSUME NEW c \in Calls, StartBuild(c) PROVE FilesInv'
  BY <1>1 DEF StartBuild, BuildStages
<1>2. ASSUME Unseal PROVE FilesInv'
  BY <1>2 DEF Unseal, AfterUnseal, NoBuild, BuildStages
<1>3. ASSUME FindAccount PROVE FilesInv'
  <2>1. \/ build' = NoBuild
        \/ build' = [build EXCEPT !.at = "assemble"] /\ build.seed \in accounts
        \/ build' = [build EXCEPT !.at = "chain"] /\ build.call # "open"
    BY <1>3 DEF FindAccount
  <2>. QED
    BY <1>3, <2>1 DEF FindAccount, NoBuild, BuildStages
<1>4. ASSUME FetchState PROVE FilesInv'
  BY <1>4 DEF FetchState, BuildStages
<1>5. ASSUME SealIdentity PROVE FilesInv'
  BY <1>5 DEF SealIdentity, BuildStep, BuildStages
<1>6. ASSUME SealSeed PROVE FilesInv'
  BY <1>6 DEF SealSeed, BuildStep, BuildStages
<1>7. ASSUME ImportAccount PROVE FilesInv'
  BY <1>7 DEF ImportAccount, BuildStep, BuildStages
<1>8. ASSUME SetBuildTip PROVE FilesInv'
  BY <1>8 DEF SetBuildTip, BuildStep, BuildStages
<1>9. ASSUME Assemble PROVE FilesInv'
  BY <1>9 DEF Assemble, NoBuild, BuildStages, ActorStages
<1>10. ASSUME BuildFails PROVE FilesInv'
  BY <1>10 DEF BuildFails, NoBuild, BuildStages
<1>. QED
  BY <1>1, <1>2, <1>3, <1>4, <1>5, <1>6, <1>7, <1>8, <1>9, <1>10 DEF Build

LEMMA OthersKeepFiles ==
  ASSUME FilesInv, Reset \/ Dispense \/ Refresh \/ Scan \/ NotOpened \/ Crash \/ UNCHANGED vars
  PROVE  FilesInv'
<1>. USE DEF FilesInv, FilesTypeOK, BuildFollows, FilesBelongTogether, files, handleVars
<1>1. ASSUME RemoveFiles PROVE FilesInv'
  BY <1>1 DEF RemoveFiles, ActorStages
<1>2. ASSUME ResetImport PROVE FilesInv'
  BY <1>2 DEF ResetImport, ActorStages
<1>3. ASSUME ResetTip PROVE FilesInv'
  BY <1>3 DEF ResetTip, ActorStages
<1>4. ASSUME ResetFails PROVE FilesInv'
  BY <1>4 DEF ResetFails, ActorStages
<1>5. ASSUME Dispense \/ Refresh \/ Scan \/ NotOpened \/ UNCHANGED vars PROVE FilesInv'
  BY <1>5 DEF Dispense, Refresh, Scan, NotOpened, vars
<1>6. ASSUME Crash PROVE FilesInv'
  BY <1>6 DEF Crash, NoBuild, BuildStages, ActorStages
<1>. QED
  BY <1>1, <1>2, <1>3, <1>4, <1>5, <1>6 DEF Reset

-----------------------------------------------------------------------------
(* The composition.                                                        *)

\* An attempt needs an open database.
ScanOnHandle == actor # "opened" => Resting

\* Without scans of its own the refresh has the frontier move as it may.
IngestAsleep == "scan" \notin workload => Resting /\ roots = NoRoots /\ mine = NoFork

Inv == FilesInv /\ ReservationsInv /\ RefreshInv /\ IngestInv /\ ScanOnHandle /\ IngestAsleep

LEMMA Initially ==
  ASSUME WalletStoreAssumption, UtxoRefreshAssumption, ScanIngestAssumption, Init
  PROVE  Inv
<1>1. ScanOnHandle /\ IngestAsleep
  BY DEF Init, ScanIngestInit, ScanOnHandle, IngestAsleep, Resting, NoScan
<1>. QED
  BY <1>1, FilesInitially, ReservationsInitially, RefreshInitially, IngestInitially
     DEF Init, Inv

LEMMA BuildKeeps ==
  ASSUME WalletStoreAssumption, UtxoRefreshAssumption, ScanIngestAssumption, Inv, Build
  PROVE  Inv'
<1>1. FilesInv'
  BY BuildKeepsFiles DEF Inv
<1>2. UNCHANGED reservationVars
  BY DEF Build, StartBuild, Unseal, FindAccount, FetchState, SealIdentity, SealSeed,
     ImportAccount, SetBuildTip, Assemble, BuildFails
<1>7. workload' = workload
  BY DEF Build, StartBuild, Unseal, FindAccount, FetchState, SealIdentity, SealSeed,
     ImportAccount, SetBuildTip, Assemble, BuildFails
<1>3. \/ UNCHANGED syncVars
      \/ TipSet /\ rows' = rows /\ walk' = walk
  BY DEF Build, StartBuild, Unseal, FindAccount, FetchState, SealIdentity, SealSeed,
     ImportAccount, SetBuildTip, Assemble, BuildFails
<1>4. Resting
  <2>1. live = None
    BY DEF Build, StartBuild, Unseal, FindAccount, FetchState, SealIdentity, SealSeed,
       ImportAccount, SetBuildTip, Assemble, BuildFails, BuildStep, Inv, FilesInv, BuildFollows
  <2>. QED
    BY <2>1 DEF Inv, ScanOnHandle, FilesInv, BuildFollows
<1>5. CASE UNCHANGED syncVars
  <2>1. ScanOnHandle' /\ IngestAsleep'
    BY <1>7, <1>4, <1>5 DEF ScanOnHandle, IngestAsleep, Resting, syncVars, ingestVars, Inv
  <2>. QED
    BY <1>1, <1>2, <1>5, <2>1, ReservationsUnchanged, RefreshUnchanged, IngestUnchanged
       DEF Inv, syncVars
<1>6. CASE TipSet /\ rows' = rows /\ walk' = walk
  <2>1. ScanOnHandle' /\ IngestAsleep'
    BY <1>7, <1>4, <1>6 DEF ScanOnHandle, IngestAsleep, Resting, TipSet, Inv
  <2>. QED
    BY <1>1, <1>2, <1>4, <1>6, <2>1, ReservationsUnchanged, TipSetKeepsRows, TipSetKeeps
       DEF Inv
<1>. QED
  BY <1>3, <1>5, <1>6

LEMMA ResetKeeps ==
  ASSUME UtxoRefreshAssumption, ScanIngestAssumption, Inv, Reset
  PROVE  Inv'
<1>1. FilesInv'
  BY OthersKeepFiles DEF Inv
<1>2. ReservationsInv'
  <2>1. UNCHANGED reservationVars \/ HoldsDropped
    BY DEF Reset, RemoveFiles, ResetImport, ResetTip, ResetFails
  <2>. QED
    BY <2>1, ReservationsUnchanged, HoldsDroppedKeeps DEF Inv
<1>3. CASE UNCHANGED <<syncVars, workload>> /\ (actor' = "opened" \/ Resting)
  <2>1. ScanOnHandle' /\ IngestAsleep'
    BY <1>3 DEF Inv, ScanOnHandle, IngestAsleep, Resting, syncVars, ingestVars
  <2>. QED
    BY <1>1, <1>2, <1>3, <2>1, RefreshUnchanged, IngestUnchanged DEF Inv, syncVars
<1>4. CASE RemoveFiles
  <2>1. RowsDropped /\ IngestDropped /\ Resting /\ scan' = scan /\ scanned' = NoHeight
    BY <1>4 DEF RemoveFiles, RowsDropped, IngestDropped
  <2>2. ScanOnHandle' /\ IngestAsleep'
    BY <2>1 DEF ScanOnHandle, IngestAsleep, Resting, IngestDropped
  <2>. QED
    BY <1>1, <1>2, <2>1, <2>2, RowsDroppedKeeps, IngestDroppedKeeps DEF Inv
<1>5. CASE ResetTip
  <2>1. /\ TipSet /\ rows' = rows /\ walk' = walk /\ workload' = workload
        /\ actor = "resetTip"
    BY <1>5 DEF ResetTip
  <2>2. Resting
    BY <2>1 DEF Inv, ScanOnHandle
  <2>3. ScanOnHandle' /\ IngestAsleep'
    BY <2>1, <2>2 DEF ScanOnHandle, IngestAsleep, Resting, TipSet, Inv
  <2>. QED
    BY <1>1, <1>2, <2>1, <2>2, <2>3, TipSetKeepsRows, TipSetKeeps DEF Inv
<1>. QED
  <2>1. CASE ResetImport
    <3>1. Resting
      BY <2>1 DEF ResetImport, Inv, ScanOnHandle
    <3>. QED
      BY <1>3, <2>1, <3>1 DEF ResetImport
  <2>2. CASE ResetFails
    BY <1>3, <2>2 DEF ResetFails
  <2>. QED
    BY <1>4, <1>5, <2>1, <2>2 DEF Reset

LEMMA HostKeeps ==
  ASSUME ReservationsAssumption, UtxoRefreshAssumption, ScanIngestAssumption, Inv,
         Dispense \/ Refresh \/ Scan \/ NotOpened \/ Crash \/ UNCHANGED vars
  PROVE  Inv'
<1>1. FilesInv'
  BY OthersKeepFiles DEF Inv
<1>2. ReservationsInv'
  <2>1. ReservationsStep \/ ReserversDropped \/ UNCHANGED reservationVars
    BY DEF Dispense, Refresh, Scan, NotOpened, Crash, vars
  <2>. QED
    BY <2>1, ReservationsKeep, ReserversDroppedKeeps, ReservationsUnchanged DEF Inv
<1>3. RefreshInv'
  <2>1. \/ WalkStep(accounts # {}) \/ FrontierStep(accounts # {})
        \/ ScanIngestStep
        \/ scanned' = scanned /\ rows' = rows /\ walk' = NoWalk
        \/ UNCHANGED <<scanned, rows, walk>>
    BY DEF Dispense, Refresh, Scan, NotOpened, Crash, vars, syncVars
  <2>2. (accounts # {}) \in BOOLEAN
    OBVIOUS
  <2>. QED
    BY <2>1, <2>2, RefreshKeeps, ScanKeepsRows, NoWalkTyped, WalkMoves, RefreshUnchanged
       DEF Inv
<1>4. IngestInv' /\ ScanOnHandle' /\ IngestAsleep'
  <2>1. CASE Scan
    <3>1. ScanOnHandle' /\ IngestAsleep'
      BY <2>1 DEF Scan, ScanOnHandle, IngestAsleep, handleVars
    <3>. QED
      BY <2>1, <3>1, IngestKeeps DEF Scan, Inv
  <2>2. CASE Crash
    <3>1. scan' = NoScan /\ UNCHANGED <<best, database, workload>>
      BY <2>2 DEF Crash, database
    <3>2. Resting' /\ UNCHANGED <<roots, mine>>
      BY <3>1 DEF Resting, NoScan, database
    <3>. QED
      BY <3>1, <3>2, AttemptDies DEF Inv, ScanOnHandle, IngestAsleep
  <2>3. CASE UNCHANGED <<scanned, ingestVars, actor, workload>>
    BY <2>3, IngestUnchanged DEF Inv, ScanOnHandle, IngestAsleep, Resting, ingestVars
  <2>4. CASE /\ "scan" \notin workload /\ FrontierStep(accounts # {})
             /\ UNCHANGED <<ingestVars, actor, workload>>
    <3>1. scanned' \in Frontiers
      BY <1>3 DEF RefreshInv, UtxoRefreshTypeOK
    <3>2. Resting /\ roots = NoRoots /\ mine = NoFork
      BY <2>4 DEF Inv, IngestAsleep
    <3>. QED
      BY <2>4, <3>1, <3>2, FrontierMovesAlone DEF Inv, ScanOnHandle, IngestAsleep, Resting,
         ingestVars
  <2>. QED
    BY <2>1, <2>2, <2>3, <2>4 DEF Dispense, Refresh, WalkStep, PinEpoch, ReadFloor,
       ListReceivers, FetchReceiver, CommitReceiver, EndWalk, NotOpened, vars, syncVars,
       handleVars
<1>. QED
  BY <1>1, <1>2, <1>3, <1>4 DEF Inv

LEMMA Invariant == Spec => []Inv
<1>. USE ReservationsAssumption, UtxoRefreshAssumption, ScanIngestAssumption,
         WalletStoreAssumption
<1>1. Init => Inv
  BY Initially
<1>2. Inv /\ [Next]_vars => Inv'
  BY BuildKeeps, ResetKeeps, HostKeeps DEF Next
<1>. QED
  BY <1>1, <1>2, PTL DEF Spec

(***************************************************************************)
(* Every variable stays in its type.                                       *)
(***************************************************************************)
THEOREM StoreTypeCorrect == Spec => []TypeOK
<1>1. Inv => TypeOK
  BY DEF Inv, FilesInv, FilesTypeOK, ReservationsInv, RefreshInv, IngestInv, TypeOK
<1>. QED
  BY <1>1, Invariant, PTL

(***************************************************************************)
(* No request ever has two active holds, however many calls race for it    *)
(* (create_hold).                                                          *)
(***************************************************************************)
THEOREM RequestHeldOnce == Spec => []OneHoldPerRequest
<1>1. Inv => OneHoldPerRequest
  BY DEF Inv, ReservationsInv
<1>. QED
  BY <1>1, Invariant, PTL

(***************************************************************************)
(* However many calls reserve at once, and whatever moves the balance in   *)
(* between, the active holds never sum to more than the wallet could once  *)
(* have spent (reserve_for_dispense, create_hold).                         *)
(***************************************************************************)
THEOREM HoldsAreBacked == Spec => []HoldsBacked
<1>. USE ReservationsAssumption
<1>1. Init => BackedInv
  BY BackedInitially DEF Init
<1>2. Inv /\ Inv' /\ BackedInv /\ [Next]_vars => BackedInv'
  <2>. SUFFICES ASSUME Inv, Inv', BackedInv, [Next]_vars PROVE BackedInv'
    OBVIOUS
  <2>1. ReservationsTypeOK /\ ReservationsTypeOK'
    BY DEF Inv, ReservationsInv
  <2>2. ReservationsStep \/ HoldsDropped \/ ReserversDropped \/ UNCHANGED reservationVars
    BY DEF Next, Build, StartBuild, Unseal, FindAccount, FetchState, SealIdentity, SealSeed,
       ImportAccount, SetBuildTip, Assemble, BuildFails, Reset, RemoveFiles, ResetImport,
       ResetTip, ResetFails, Dispense, Refresh, Scan, NotOpened, Crash, vars
  <2>. QED
    BY <2>1, <2>2, ReservationsKeepBacked, DropsKeepBacked, BackedUnchanged
<1>3. BackedInv => HoldsBacked
  BY DEF BackedInv
<1>. QED
  BY <1>1, <1>2, <1>3, Invariant, PTL DEF Spec

(***************************************************************************)
(* No rewind, however it falls among the fetches and commits of a walk,    *)
(* leaves a row of the walk's attested blocks above the frontier           *)
(* (record_transparent_utxos, truncate_to_chain_state).                    *)
(***************************************************************************)
THEOREM RefreshAttested == Spec => []RowsAttested
<1>1. Inv => RowsAttested
  BY DEF Inv, RefreshInv
<1>. QED
  BY <1>1, Invariant, PTL

(***************************************************************************)
(* Whatever pages a source serves, and wherever its pin expires, no        *)
(* subtree root is installed above the scanned frontier or past a gap      *)
(* (backfill_subtree_roots, put_subtree_roots).                            *)
(***************************************************************************)
THEOREM RootsStayBehind == Spec => []RootsBehindFrontier
<1>1. Inv => RootsBehindFrontier
  BY DEF Inv, IngestInv
<1>. QED
  BY <1>1, Invariant, PTL

(***************************************************************************)
(* The error or the outcome an attempt returns is what happened: to the    *)
(* source, to the chain or to the wallet's tree (plan_scan_range,          *)
(* fetch_compact_blocks, scan_blocks, verify_tree_roots).                  *)
(***************************************************************************)
THEOREM VerdictsFit == Spec => VerdictFits
<1>1. Inv /\ [Next]_vars => [EndsScan => EndFits]_scan
  <2>. SUFFICES ASSUME Inv, Next, EndsScan PROVE EndFits
    BY DEF vars, syncVars, ingestVars
  <2>1. CASE Scan
    BY <2>1, EndsFit, UtxoRefreshAssumption, ScanIngestAssumption DEF Scan, Inv
  <2>2. CASE Crash
    BY <2>2 DEF Crash, EndsScan, NoScan
  <2>3. CASE scan' = scan
    BY <2>3 DEF EndsScan
  <2>. QED
    BY <2>1, <2>2, <2>3 DEF Next, Build, StartBuild, Unseal, FindAccount, FetchState,
       SealIdentity, SealSeed, ImportAccount, SetBuildTip, Assemble, BuildFails, Reset,
       RemoveFiles, ResetImport, ResetTip, ResetFails, Dispense, Refresh, NotOpened,
       TipSet, IngestDropped, syncVars, ingestVars
<1>. QED
  BY <1>1, Invariant, PTL DEF Spec, VerdictFits

(***************************************************************************)
(* Wherever a process dies, the identity, the sealed seed and the accounts *)
(* it leaves belong together (WalletBuilder, reset_to_birthday).           *)
(***************************************************************************)
THEOREM CrashesKeepTheWallet == Spec => []FilesBelongTogether
<1>1. Inv => FilesBelongTogether
  BY DEF Inv, FilesInv
<1>. QED
  BY <1>1, Invariant, PTL
=============================================================================
