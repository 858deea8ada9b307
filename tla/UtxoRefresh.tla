----------------------------- MODULE UtxoRefresh -----------------------------
(***************************************************************************)
(* The transparent refresh walk (zally-wallet/src/                         *)
(* transparent_utxo_refresh.rs) beside the block scan that moves the       *)
(* frontier it commits against (record_transparent_utxos and               *)
(* truncate_to_chain_state, zally-storage/src/sqlite.rs).                  *)
(*                                                                         *)
(* A walk pins an epoch, reads the scanned frontier as its floor, lists    *)
(* the receivers and fetches and commits them one by one.  Scans and       *)
(* rewinds run in between.  A row stands for a mined UTXO row; rewinding   *)
(* un-mines the rows above its target.                                     *)
(***************************************************************************)
EXTENDS Integers

CONSTANTS
  Receivers,   \* transparent receivers of the wallet
  Outpoints,   \* outpoints the source may report
  MaxHeight    \* bound: the highest block

ASSUME UtxoRefreshAssumption == MaxHeight \in Nat

Heights  == 0..MaxHeight
NoHeight == -1   \* fully_scanned_height is None until the tip is set

VARIABLES
  scanned,  \* fully_scanned_height of the wallet database
  rows,     \* mined UTXO rows, each with the floor of the walk that wrote it
  walk      \* the refresh walk in flight

NoWalk == [at |-> "idle", tip |-> 0, floor |-> NoHeight, todo |-> {},
           seen |-> {}, batch |-> {}]

UtxoRefreshInit ==
  /\ scanned = NoHeight
  /\ rows = {}
  /\ walk = NoWalk

Goto(at) == walk' = [walk EXCEPT !.at = at]

-----------------------------------------------------------------------------
PinEpoch ==
  /\ walk.at = "idle"
  /\ \E t \in Heights : walk' = [NoWalk EXCEPT !.at = "floor", !.tip = t]
  /\ UNCHANGED <<scanned, rows>>

ReadFloor ==
  /\ walk.at = "floor"
  /\ walk' = [walk EXCEPT !.at = "list", !.floor = scanned]
  /\ UNCHANGED <<scanned, rows>>

\* list_transparent_receivers; none without an account.
ListReceivers(hasAccount) ==
  /\ walk.at = "list"
  /\ walk' = [walk EXCEPT !.at = "fetch",
                          !.todo = IF hasAccount THEN Receivers ELSE {}]
  /\ UNCHANGED <<scanned, rows>>

\* What the source reports for a receiver: nothing, or one UTXO, under its
\* script or another's (bound: one per receiver).
Reports == {{}} \cup {{u} : u \in [outpoint : Outpoints, height : Heights,
                                   script : Receivers]}

\* validate_transparent_utxo_batch
Valid(r, utxos) ==
  \A u \in utxos : /\ u.height <= walk.tip
                   /\ u.outpoint \notin walk.seen
                   /\ u.script = r

\* A malformed report aborts the walk; what it committed before stays.
FetchReceiver(r) ==
  /\ walk.at = "fetch"
  /\ r \in walk.todo
  /\ \E utxos \in Reports :
       walk' = IF Valid(r, utxos)
                 THEN [walk EXCEPT !.at = "commit", !.todo = @ \ {r},
                         !.seen = @ \cup {u.outpoint : u \in utxos},
                         !.batch = {[outpoint |-> u.outpoint, height |-> u.height] : u \in utxos}]
                 ELSE NoWalk
  /\ UNCHANGED <<scanned, rows>>

\* Mutant: only a wallet that has scanned nothing at all has receded.
RecededToNothing == walk.floor # NoHeight /\ scanned = NoHeight

\* ScanFrontierReceded
Receded == walk.floor # NoHeight /\ (scanned = NoHeight \/ scanned < walk.floor)

Written == {[outpoint |-> b.outpoint, height |-> b.height, floor |-> walk.floor] :
              b \in walk.batch}

\* record_transparent_utxos: the check and the upserts are one request.
CommitReceiver ==
  /\ walk.at = "commit"
  /\ IF Receded
       THEN walk' = NoWalk /\ UNCHANGED rows
       ELSE /\ rows' = Written \cup {x \in rows : \A b \in walk.batch :
                                                    b.outpoint # x.outpoint}
            /\ walk' = [walk EXCEPT !.at = "fetch", !.batch = {}]
  /\ UNCHANGED scanned

\* Every receiver is done, a read fails, the epoch's pin is gone, or the
\* driver's timeout drops the attempt.  The retry is another walk.
EndWalk ==
  /\ walk.at # "idle"
  /\ walk' = NoWalk
  /\ UNCHANGED <<scanned, rows>>

-----------------------------------------------------------------------------
(* The block scan's side.                                                  *)

\* Scans move the frontier up; the first sets the tip of an account whose
\* creation died before it could.
ScanBlocks ==
  /\ \E h \in Heights : h > scanned /\ scanned' = h
  /\ UNCHANGED <<rows, walk>>

\* Mutant: a rewind leaves the transparent rows as they are.
KeepRows(h) == rows

\* truncate_to_chain_state un-mines what is above its target.
RowsUpTo(h) == {x \in rows : x.height <= h}

RewindTo(h) ==
  /\ h \in Heights
  /\ h < scanned
  /\ scanned' = h
  /\ rows' = RowsUpTo(h)
  /\ UNCHANGED walk

WalkStep(hasAccount) ==
  \/ PinEpoch
  \/ ReadFloor
  \/ ListReceivers(hasAccount)
  \/ \E r \in Receivers : FetchReceiver(r)
  \/ CommitReceiver
  \/ EndWalk

FrontierStep(hasAccount) ==
  \/ hasAccount /\ ScanBlocks
  \/ \E h \in Heights : RewindTo(h)

RowsDropped == rows' = {} /\ scanned' = NoHeight /\ UNCHANGED walk

-----------------------------------------------------------------------------
WalkStages == {"idle", "floor", "list", "fetch", "commit"}
Frontiers  == Heights \cup {NoHeight}

UtxoRefreshTypeOK ==
  /\ scanned \in Frontiers
  /\ rows \subseteq [outpoint : Outpoints, height : Heights, floor : Frontiers]
  /\ walk \in [at : WalkStages, tip : Heights, floor : Frontiers,
               todo : SUBSET Receivers, seen : SUBSET Outpoints,
               batch : SUBSET [outpoint : Outpoints, height : Heights]]

(***************************************************************************)
(* A wallet that has rewound shows no UTXO its walk found in blocks below  *)
(* the rewind's reach: a mined row at or below the frontier its walk       *)
(* started from is at or below the frontier now.  The rewind takes away    *)
(* the rows that were there, and a walk that started before it can write   *)
(* none until the wallet has scanned that far again (the floor of          *)
(* record_transparent_utxos).                                              *)
(***************************************************************************)
RowsAttested == \A x \in rows : x.height <= x.floor => x.height <= scanned
=============================================================================
