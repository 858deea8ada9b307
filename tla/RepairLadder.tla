---------------------------- MODULE RepairLadder ----------------------------
(***************************************************************************)
(* The sync driver's repair ladder (zally-wallet/src/sync.rs): the         *)
(* `recovery` field of DriverState and every step that changes it.         *)
(*                                                                         *)
(* A degraded episode starts with the first fault the driver records and   *)
(* ends when a scan passes the fault boundary or a parked driver re-arms.  *)
(* Inside an episode the driver alternates between recording a fault and   *)
(* applying the repair of the current rung.  The module says nothing of    *)
(* scanning: SyncDriver composes it with the wallet and the chain.         *)
(*                                                                         *)
(* `due`, `rewinds`, `rebuilds` and `operatorFault` are history: what this *)
(* episode has recorded and applied so far.  `due` stands for the driver's *)
(* control: run_sync_wakeup applies one repair per recorded fault before   *)
(* it scans again.                                                         *)
(***************************************************************************)
EXTENDS Naturals

CONSTANTS
  Heights,              \* block heights above the birthday; 0 is "none"
  RewindDepths,         \* entries of REWIND_LADDER_BLOCKS (2 in the code)
  EscalateAfterFaults,  \* SyncRecoveryPolicy::escalate_after_faults, normalized
  MaxRescanAttempts,    \* SyncRecoveryPolicy::max_rescan_attempts, normalized
  CounterMax,           \* where the counters saturate (u32::MAX in the code)
  ReprobesPark,         \* park_reprobe_ms.is_some()
  NoRecovery            \* DriverState::recovery = None

\* What normalized() makes of any policy: thresholds of at least one.
PolicyNormalized ==
  /\ EscalateAfterFaults \in 1..CounterMax
  /\ MaxRescanAttempts \in 1..CounterMax
  /\ ReprobesPark \in BOOLEAN

ASSUME PolicyAssumption ==
  /\ Heights \subseteq Nat
  /\ RewindDepths \in Nat \ {0}
  /\ CounterMax \in Nat
  /\ PolicyNormalized

VARIABLES
  recovery,       \* NoRecovery or a RecoveryState
  due,            \* a recorded fault has not been answered by a repair yet
  rewinds,        \* rewinds[d]: rewinds applied at depth index d this episode
  rebuilds,       \* rebuilds from the birthday applied this episode
  operatorFault   \* this episode recorded a requires_operator fault

ladderVars == <<recovery, due, rewinds, rebuilds, operatorFault>>

-----------------------------------------------------------------------------
(* SyncRepair derives Ord from its declaration order. *)
Retry              == 0
Rewind             == 1
RescanFromBirthday == 2
Park               == 3

Rungs == Retry..Park

\* repair_for never classifies a fault straight onto RescanFromBirthday.
FaultClasses == {Retry, Rewind, Park}

DepthIndexes == 1..RewindDepths

\* A frontier the driver could not read, or an empty one, has no height: 0.
ReportedHeights == Heights \cup {0}

RecoveryState ==
  [rung: Rungs, attempts: 0..CounterMax, depth: DepthIndexes,
   faults: 0..CounterMax, faultHeight: ReportedHeights,
   dormant: BOOLEAN, parked: BOOLEAN]

ASSUME NoRecoveryAssumption == NoRecovery \notin RecoveryState

SaturatingInc(n) == IF n < CounterMax THEN n + 1 ELSE n

Higher(g, h) == IF g < h THEN h ELSE g

Entering(rung) ==
  [rung |-> rung, attempts |-> 0, depth |-> 1, faults |-> 0,
   faultHeight |-> 0, dormant |-> FALSE, parked |-> FALSE]

\* Mutant: one attempt more than the policy allows.
ExhaustedLate(r) ==
  \/ r.rung = RescanFromBirthday /\ r.attempts > MaxRescanAttempts
  \/ r.rung \in {Rewind, Park} /\ r.attempts > EscalateAfterFaults

\* Mutant: a streak of environment faults escalates like any other.
ExhaustedAtAnyRung(r) ==
  r.attempts >= IF r.rung = RescanFromBirthday THEN MaxRescanAttempts
                ELSE EscalateAfterFaults

\* The rung has used up its attempts: Retry never does.
Exhausted(r) ==
  \/ r.rung = RescanFromBirthday /\ r.attempts >= MaxRescanAttempts
  \/ r.rung \in {Rewind, Park} /\ r.attempts >= EscalateAfterFaults

\* Mutant: the attempts of the rung below count towards the next one.
MoveToKeepingAttempts(r, rung, depth) ==
  [r EXCEPT !.rung = rung, !.depth = depth]

\* Landing on a rung or on a deeper rewind starts its attempts over.
MoveTo(r, rung, depth) ==
  [r EXCEPT !.rung = rung, !.attempts = 0, !.depth = depth]

\* Mutant: the first rewind depth is the only one.
EscalatePastDepths(r) ==
  MoveTo(r, IF r.rung = Park THEN Park ELSE r.rung + 1, r.depth)

\* escalate: one rewind depth further while there is one, else one rung up.
Escalate(r) ==
  IF r.rung = Rewind /\ r.depth < RewindDepths
    THEN MoveTo(r, Rewind, r.depth + 1)
    ELSE MoveTo(r, IF r.rung = Park THEN Park ELSE r.rung + 1, r.depth)

\* A fault classified above the current rung lifts the ladder onto its class.
Lift(r, classified) ==
  MoveTo(r, classified, IF classified = Rewind THEN 1 ELSE r.depth)

Climb(r, classified) ==
  IF classified > r.rung THEN Lift(r, classified)
  ELSE IF Exhausted(r) THEN Escalate(r)
  ELSE r

FoldFault(r, classified) ==
  LET climbed == Climb(r, classified)
  IN  [climbed EXCEPT !.faults = SaturatingInc(@)]

\* Mutant: the last fault sets the boundary, even after a rewind lowered it.
WokenAtLastFault(r, height) ==
  [r EXCEPT !.dormant = FALSE, !.faultHeight = height]

\* record_fault wakes a dormant recovery and only ever raises its boundary.
Woken(r, height) ==
  [r EXCEPT !.dormant = FALSE, !.faultHeight = Higher(r.faultHeight, height)]

Faulted(classified, height) ==
  LET base == IF recovery = NoRecovery THEN Entering(classified) ELSE recovery
  IN  FoldFault(Woken(base, height), classified)

\* Mutant: a dormant recovery still applies repairs.
ActiveEvenDormant == recovery # NoRecovery

Active == recovery # NoRecovery /\ ~recovery.dormant

\* settle_recovery's `survives`: the scan did not pass the fault boundary.
Survives(scannedTo) ==
  /\ recovery # NoRecovery
  /\ recovery.faultHeight # 0
  /\ scannedTo <= recovery.faultHeight

-----------------------------------------------------------------------------
NoHistory ==
  /\ rewinds' = [d \in DepthIndexes |-> 0]
  /\ rebuilds' = 0
  /\ operatorFault' = FALSE

LadderInit ==
  /\ recovery = NoRecovery
  /\ due = FALSE
  /\ rewinds = [d \in DepthIndexes |-> 0]
  /\ rebuilds = 0
  /\ operatorFault = FALSE

(***************************************************************************)
(* What each step does to the ladder.  The actions below them add when the *)
(* driver may take the step; SyncDriver uses the effects with the guards   *)
(* of its own code and is shown to respect these.                          *)
(***************************************************************************)
FaultRecorded(classified, height) ==
  /\ recovery' = Faulted(classified, height)
  /\ due' = TRUE
  /\ operatorFault' = (operatorFault \/ classified = Park)
  /\ UNCHANGED <<rewinds, rebuilds>>

\* apply_repair counts the attempt before it repairs anything.
RepairStarted ==
  /\ recovery' = [recovery EXCEPT !.attempts = SaturatingInc(@)]
  /\ due' = FALSE
  /\ rewinds' = IF recovery.rung = Rewind
                  THEN [rewinds EXCEPT ![recovery.depth] = @ + 1]
                  ELSE rewinds
  /\ rebuilds' = IF recovery.rung = RescanFromBirthday
                   THEN rebuilds + 1 ELSE rebuilds
  /\ UNCHANGED operatorFault

Settled(scannedTo) ==
  \/ /\ Survives(scannedTo)
     /\ recovery' = [recovery EXCEPT !.dormant = TRUE]
     /\ UNCHANGED <<due, rewinds, rebuilds, operatorFault>>
  \/ /\ ~Survives(scannedTo)
     /\ recovery' = NoRecovery
     /\ NoHistory
     /\ UNCHANGED due

ParkEntered ==
  /\ recovery' = [recovery EXCEPT !.parked = TRUE]
  /\ UNCHANGED <<due, rewinds, rebuilds, operatorFault>>

Rearmed ==
  /\ recovery' = NoRecovery
  /\ due' = FALSE
  /\ NoHistory

-----------------------------------------------------------------------------
(* A sync attempt or a repair failed: record_fault. *)
RecordFault(classified, height) ==
  /\ ~due
  /\ FaultRecorded(classified, height)

(* The next iteration of the wakeup answers the fault: apply_repair. *)
ApplyRepair ==
  /\ due
  /\ recovery.rung # Park
  /\ RepairStarted

(* A scan up to scannedTo completed, or faulted after it advanced. *)
SettleRecovery(scannedTo) ==
  /\ ~due
  /\ Settled(scannedTo)

(* The wakeup found the Park rung: enter_park. *)
EnterPark ==
  /\ due
  /\ recovery.rung = Park
  /\ ~recovery.parked
  /\ ParkEntered

(* handle_poll_tick past the reprobe deadline re-arms the whole ladder. *)
ReprobePark ==
  /\ ReprobesPark
  /\ recovery # NoRecovery
  /\ recovery.parked
  /\ Rearmed

LadderNext ==
  \/ \E c \in FaultClasses, h \in ReportedHeights : RecordFault(c, h)
  \/ ApplyRepair
  \/ \E h \in ReportedHeights : SettleRecovery(h)
  \/ EnterPark
  \/ ReprobePark

LadderSpec == LadderInit /\ [][LadderNext]_ladderVars

-----------------------------------------------------------------------------
(* Types of the ladder's variables. *)
LadderTypeOK ==
  /\ recovery \in RecoveryState \cup {NoRecovery}
  /\ due \in BOOLEAN
  /\ rewinds \in [DepthIndexes -> Nat]
  /\ rebuilds \in Nat
  /\ operatorFault \in BOOLEAN

(***************************************************************************)
(* The driver parks only at a dead end: an operator fault was recorded, or *)
(* every rewind depth was tried escalate_after_faults times and the        *)
(* rebuild max_rescan_attempts times, all within the same episode.         *)
(* ADR-0002 decision 6 reserves Park for exactly these two.                *)
(***************************************************************************)
ParkIsDeadEnd ==
  (recovery # NoRecovery /\ recovery.rung = Park) =>
    \/ operatorFault
    \/ /\ \A d \in DepthIndexes : rewinds[d] = EscalateAfterFaults
       /\ rebuilds = MaxRescanAttempts

(***************************************************************************)
(* The wallet database is never rebuilt before every shallower repair has  *)
(* been spent, and never more often than the policy allows: a rebuild      *)
(* drops the send ledger and the holds with it.                            *)
(***************************************************************************)
RebuildIsLastResort ==
  /\ rebuilds <= MaxRescanAttempts
  /\ rebuilds > 0 =>
       \A d \in DepthIndexes : rewinds[d] = EscalateAfterFaults

(***************************************************************************)
(* Within one episode the ladder never de-escalates: neither the rung, nor *)
(* the rewind depth at the Rewind rung, nor the boundary that ends the     *)
(* episode, whatever mix of faults, rewinds and dormant spells it sees.    *)
(***************************************************************************)
NeverDeEscalates ==
  [][(recovery # NoRecovery /\ recovery' # NoRecovery) =>
        /\ recovery'.rung >= recovery.rung
        /\ recovery'.faultHeight >= recovery.faultHeight
        /\ (recovery.rung = Rewind /\ recovery'.rung = Rewind) =>
              recovery'.depth >= recovery.depth]_ladderVars

(***************************************************************************)
(* What each rung says of the repairs applied so far: the inductive        *)
(* invariant behind ParkIsDeadEnd and RebuildIsLastResort.                 *)
(***************************************************************************)
AtRetry ==
  /\ rewinds = [d \in DepthIndexes |-> 0]
  /\ rebuilds = 0

AtRewind ==
  /\ \A d \in DepthIndexes :
       rewinds[d] = IF d < recovery.depth THEN EscalateAfterFaults
                    ELSE IF d = recovery.depth THEN recovery.attempts ELSE 0
  /\ recovery.attempts <= EscalateAfterFaults
  /\ due => recovery.attempts < EscalateAfterFaults
  /\ rebuilds = 0

AtRescan ==
  /\ \A d \in DepthIndexes : rewinds[d] = EscalateAfterFaults
  /\ rebuilds = recovery.attempts
  /\ recovery.attempts <= MaxRescanAttempts
  /\ due => recovery.attempts < MaxRescanAttempts

AtPark ==
  /\ due
  /\ recovery.attempts = 0
  /\ rebuilds <= MaxRescanAttempts
  /\ rebuilds > 0 =>
       \A d \in DepthIndexes : rewinds[d] = EscalateAfterFaults
  /\ \/ operatorFault
     \/ /\ \A d \in DepthIndexes : rewinds[d] = EscalateAfterFaults
        /\ rebuilds = MaxRescanAttempts

LadderInv ==
  /\ recovery = NoRecovery => ~due /\ AtRetry
  /\ recovery # NoRecovery =>
       /\ due => ~recovery.dormant
       /\ recovery.parked => recovery.rung = Park
       /\ recovery.rung = Retry => AtRetry
       /\ recovery.rung = Rewind => AtRewind
       /\ recovery.rung = RescanFromBirthday => AtRescan
       /\ recovery.rung = Park => AtPark
=============================================================================
