---------------------------- MODULE Reservations ----------------------------
(***************************************************************************)
(* Dispense reservations: reserve_for_dispense, release_hold and           *)
(* finalize_hold of zally-wallet/src/wallet.rs over the table              *)
(* ext_zally_holds (zally-storage/src/sqlite.rs).                          *)
(*                                                                         *)
(* A reservation is a sequence of separate requests to the database actor: *)
(* it looks its request up, reads the spendable notes, reads the sum of    *)
(* the active holds, and records the hold in one transaction that checks   *)
(* the sum again, against the notes read before.  Requests of other        *)
(* callers run in between.                                                 *)
(***************************************************************************)
EXTENDS Naturals, FiniteSets, Functions, FiniteSetsExt

CONSTANTS
  Reservers,   \* calls of reserve_for_dispense in flight
  Requests,    \* request identifiers, the idempotency anchors
  Amounts,     \* amounts a caller may ask for
  HoldIds,     \* HoldId::new(): an identifier names one row
  MaxBalance,  \* bound: the value of the spendable notes
  None

ASSUME ReservationsAssumption ==
  /\ Amounts \subseteq Nat
  /\ MaxBalance \in Nat

VARIABLES
  holds,      \* holds[h]: request and amount of the rows of ext_zally_holds
  finalized,  \* holds whose finalized_tx_id is set
  released,   \* holds whose released_at_ms is set
  resv,       \* resv[w]: where call w is, and what it has read
  balance,    \* value of the spendable notes, by the proposal selector
  peak        \* history: see PeakMoves

holdVars == <<holds, finalized, released>>

Rested == [at |-> "idle", request |-> None, amount |-> 0, seen |-> 0]

ReservationsInit ==
  /\ holds = <<>>
  /\ finalized = {}
  /\ released = {}
  /\ resv = [w \in Reservers |-> Rested]
  /\ balance = 0
  /\ peak = 0

\* HoldRow::is_active, and the condition of the partial unique index.
Active == DOMAIN holds \ (finalized \cup released)

ActiveOf(r) == {h \in Active : holds[h].request = r}

\* sum_active_reservations
Reserved == MapThenSumSet(LAMBDA h : holds[h].amount, Active)

Reading(w) == resv[w].at \in {"sum", "create"}

\* History.  peak is the largest balance the wallet has had since it last
\* had no active hold and no reservation that has read the notes.
PeakMoves ==
  peak' = IF Active' = {} /\ \A w \in Reservers : resv'[w].at \notin {"sum", "create"}
            THEN balance'
            ELSE IF balance' > peak THEN balance' ELSE peak

Ends(w) == resv' = [resv EXCEPT ![w] = Rested]

-----------------------------------------------------------------------------
(* reserve_for_dispense.                                                   *)

\* find_hold_by_request_id takes the newest row of the request by its wall-
\* clock stamp.  A clock that stepped back or stood still may let it see any
\* row of the request.
MayFindNoneActive(r) ==
  LET rows == {h \in DOMAIN holds : holds[h].request = r}
  IN  rows # {} => \E h \in rows : h \notin Active

\* An active row is returned unchanged, which changes nothing; a row that is
\* not, or none, lets the call go on.
FindHold(w, r, a) ==
  /\ resv[w].at = "idle"
  /\ a > 0
  /\ MayFindNoneActive(r)
  /\ resv' = [resv EXCEPT ![w] = [at |-> "notes", request |-> r,
                                  amount |-> a, seen |-> 0]]
  /\ UNCHANGED <<holdVars, balance>>

\* spendable_notes_for_next_dispense: the tip, then the notes.
ReadNotes(w) ==
  /\ resv[w].at = "notes"
  /\ resv' = [resv EXCEPT ![w].at = "sum", ![w].seen = balance]
  /\ UNCHANGED <<holdVars, balance>>

\* sum_active_dispense_reserved_zat and the precondition it serves.
CheckFunds(w) ==
  /\ resv[w].at = "sum"
  /\ IF resv[w].amount + Reserved > resv[w].seen
       THEN Ends(w)
       ELSE resv' = [resv EXCEPT ![w].at = "create"]
  /\ UNCHANGED <<holdVars, balance>>

\* Mutant: the wallet's own check is trusted, the transaction sums nothing.
NoRecheck(w) == TRUE

\* Mutant: the transaction looks for no active hold of the request.
AnyRequest(w) == TRUE

\* create_hold's two checks, in the transaction that inserts.
FundsStillFree(w) == Reserved + resv[w].amount <= resv[w].seen
RequestFree(w) == ActiveOf(resv[w].request) = {}

\* create_hold: HoldRequestConflict, InsufficientFunds or a new row.
CreateHold(w) ==
  /\ resv[w].at = "create"
  /\ Ends(w)
  /\ IF RequestFree(w) /\ FundsStillFree(w)
       THEN \E h \in HoldIds \ DOMAIN holds :
              holds' = [x \in DOMAIN holds \cup {h} |->
                          IF x = h THEN [request |-> resv[w].request,
                                         amount |-> resv[w].amount]
                                   ELSE holds[x]]
       ELSE UNCHANGED holds
  /\ UNCHANGED <<finalized, released, balance>>

\* A read or the insertion fails, or the caller drops the future.
ReserveFails(w) ==
  /\ resv[w].at # "idle"
  /\ Ends(w)
  /\ UNCHANGED <<holdVars, balance>>

-----------------------------------------------------------------------------
(* release_hold and finalize_hold do not look at each other's column; the   *)
(* second call of either changes nothing.                                  *)

ReleaseHold(h) ==
  /\ h \in DOMAIN holds \ released
  /\ released' = released \cup {h}
  /\ UNCHANGED <<holds, finalized, resv, balance>>

FinalizeHold(h) ==
  /\ h \in DOMAIN holds \ finalized
  /\ finalized' = finalized \cup {h}
  /\ UNCHANGED <<holds, released, resv, balance>>

\* Scans, rewinds and sends move the balance under the reservations.
BalanceMoves ==
  /\ \E b \in 0..MaxBalance : b # balance /\ balance' = b
  /\ UNCHANGED <<holdVars, resv>>

ReservationsStep ==
  /\ \/ \E w \in Reservers :
          \/ \E r \in Requests, a \in Amounts : FindHold(w, r, a)
          \/ ReadNotes(w)
          \/ CheckFunds(w)
          \/ CreateHold(w)
          \/ ReserveFails(w)
     \/ \E h \in HoldIds : ReleaseHold(h) \/ FinalizeHold(h)
     \/ BalanceMoves
  /\ PeakMoves

\* The database is gone: deleted by a reset, calls in flight remain.
HoldsDropped ==
  /\ holds' = <<>>
  /\ finalized' = {}
  /\ released' = {}
  /\ balance' = 0
  /\ UNCHANGED resv
  /\ PeakMoves

\* The process is gone: the rows persist, calls in flight do not.
ReserversDropped ==
  /\ resv' = [w \in Reservers |-> Rested]
  /\ UNCHANGED <<holdVars, balance>>
  /\ PeakMoves

-----------------------------------------------------------------------------
Stages == {"idle", "notes", "sum", "create"}

ReservationsTypeOK ==
  /\ DOMAIN holds \subseteq HoldIds
  /\ holds \in [DOMAIN holds -> [request : Requests \cup {None}, amount : Nat]]
  /\ finalized \subseteq DOMAIN holds
  /\ released \subseteq DOMAIN holds
  /\ resv \in [Reservers -> [at : Stages, request : Requests \cup {None},
                             amount : Nat, seen : Nat]]
  /\ balance \in Nat
  /\ peak \in Nat

(***************************************************************************)
(* Reservations that overlap in time never together hold more than the     *)
(* wallet could ever have spent: the active holds sum to at most the       *)
(* largest balance seen since there last was neither an active hold nor a  *)
(* reservation under way.  The notes a reservation read may be stale when  *)
(* its hold is recorded; only the second sum, inside the transaction, is   *)
(* fresh (reserve_for_dispense, create_hold).                              *)
(***************************************************************************)
HoldsBacked == Reserved <= peak

(***************************************************************************)
(* A request identifier has at most one active hold, although two calls    *)
(* may both have found none before either records its own (create_hold,    *)
(* idx_holds_active_request).                                              *)
(***************************************************************************)
OneHoldPerRequest == \A r \in Requests : \A g, h \in ActiveOf(r) : g = h
=============================================================================
