--------------------------- MODULE SpendingProofs ---------------------------
(***************************************************************************)
(* Theorems about Spending, for any number of calls, keys, outputs and     *)
(* blocks.  The argument: SpendingInv says, part by part, what a call has  *)
(* left behind by where it is; every part is kept by every action.  The    *)
(* heart are the claims at the end: a PCZT claims its inputs by its locks  *)
(* until it expires, a recorded transaction by its record, and input       *)
(* selection respects both.                                                *)
(***************************************************************************)
EXTENDS Spending, TLAPS

\* Parts of actions, expanded wherever their actions are.
USE DEF Proposable, RecordRows, ReleaseRows, ReleaseCutShort, Retain,
        AfterAbandon, SeenMined, Retire, RetireMined, RetireExpired

CallType == call \in [Callers -> CallRecords]

\* Nothing of the other calls changes, and of this one not what it was begun for.
SameCall(c) ==
  /\ \A d \in Callers : d # c => call'[d] = call[d]
  /\ call'[c].kind = call[c].kind /\ call'[c].key = call[c].key
  /\ call'[c].target = call[c].target /\ call'[c].steps = call[c].steps

-----------------------------------------------------------------------------
(* What each way to change a call leaves of it.  The invariants are proved *)
(* from these facts; the updates themselves stay folded.                   *)

(* A call that moves. *)
LEMMA GotoFields ==
  ASSUME CallType, NEW c \in Callers, NEW at, Goto(c, at)
  PROVE  /\ SameCall(c) /\ call'[c].at = at
         /\ call'[c].step = call[c].step /\ call'[c].version = call[c].version
         /\ call'[c].marks = call[c].marks /\ call'[c].answer = call[c].answer
  BY DEF CallType, Goto, CallRecords, SameCall

(* A call that gains marks as it moves. *)
LEMMA MarkFields ==
  ASSUME CallType, NEW c \in Callers, NEW at, NEW new, Mark(c, at, new)
  PROVE  /\ SameCall(c) /\ call'[c].at = at
         /\ call'[c].step = call[c].step /\ call'[c].version = call[c].version
         /\ call'[c].marks = call[c].marks \cup new
         /\ call'[c].answer = call[c].answer
<1>1. call[c] \in CallRecords
  BY DEF CallType
<1>2. call' = [call EXCEPT ![c] =
                 [call[c] EXCEPT !.at = at, !.marks = call[c].marks \cup new]]
  BY DEF CallType, Mark
<1>3. call'[c] = [call[c] EXCEPT !.at = at, !.marks = call[c].marks \cup new]
  BY <1>2 DEF CallType
<1> QED
  BY <1>1, <1>2, <1>3 DEF CallRecords, SameCall, CallType

(* A call that succeeds under its key. *)
LEMMA ReturnFields ==
  ASSUME CallType, NEW c \in Callers, NEW p, Return(c, p)
  PROVE  /\ SameCall(c) /\ call'[c].at = "done"
         /\ call'[c].step = call[c].step /\ call'[c].version = call[c].version
         /\ call'[c].marks = call[c].marks
         /\ call'[c].answer = <<call[c].key, p>>
  BY DEF CallType, CallRecords, SameCall, Return

(* A call that goes on to its next transaction. *)
LEMMA AdvanceFields ==
  ASSUME CallType, NEW c \in Callers, Advance(c)
  PROVE  /\ SameCall(c) /\ call'[c].at = "pending"
         /\ call'[c].step = call[c].step + 1 /\ call'[c].version = call[c].version
         /\ call'[c].marks = call[c].marks /\ call'[c].answer = call[c].answer
  BY DEF CallType, CallRecords, SameCall, Advance

(* A call that signs its PCZT. *)
LEMMA SignFields ==
  ASSUME CallType, NEW c \in Callers, Sign(c)
  PROVE  /\ SameCall(c) /\ call'[c].at = call[c].at
         /\ call'[c].step = call[c].step /\ call'[c].version = call[c].version + 1
         /\ call'[c].marks = call[c].marks /\ call'[c].answer = call[c].answer
  BY DEF CallType, CallRecords, SameCall, Sign

(* A call that begins. *)
LEMMA StartFields ==
  ASSUME CallType, NEW c \in Callers, NEW kind, NEW key, NEW target, NEW steps,
         StartAs(c, kind, key, target, steps)
  PROVE  /\ \A d \in Callers : d # c => call'[d] = call[d]
         /\ call'[c].kind = kind /\ call'[c].key = key
         /\ call'[c].target = target /\ call'[c].steps = steps
         /\ call'[c].at = IF kind = "pczt" THEN "propose" ELSE "lookup"
         /\ call'[c].step = call[c].step /\ call'[c].version = call[c].version
         /\ call'[c].marks = {m \in {"late"} : ledger[key] # Nobody}
         /\ call'[c].answer = call[c].answer
<1>1. call[c] \in CallRecords
  BY DEF CallType
<1> DEFINE at == IF kind = "pczt" THEN "propose" ELSE "lookup"
           late == {m \in {"late"} : ledger[key] # Nobody}
           new == [call[c] EXCEPT !.kind = kind, !.key = key, !.target = target,
                                  !.steps = steps, !.marks = late, !.at = at]
<1>2. call' = [call EXCEPT ![c] = new]
  BY DEF CallType, StartAs
<1>3. call'[c] = new
  BY <1>2 DEF CallType
<1>4. \A d \in Callers : d # c => call'[d] = call[d]
  BY <1>2 DEF CallType
<1> HIDE DEF at, late
<1>5. /\ new.kind = kind /\ new.key = key /\ new.target = target /\ new.steps = steps
      /\ new.at = at /\ new.marks = late /\ new.step = call[c].step
      /\ new.version = call[c].version /\ new.answer = call[c].answer
  BY <1>1 DEF CallRecords
<1> QED
  BY <1>3, <1>4, <1>5 DEF at, late

(* All calls when the process dies. *)
LEMMA DeathFields ==
  ASSUME CallType, CallsDie
  PROVE  \A c \in Callers :
           /\ call'[c].kind = call[c].kind /\ call'[c].key = call[c].key
           /\ call'[c].target = call[c].target /\ call'[c].steps = call[c].steps
           /\ call'[c].step = call[c].step /\ call'[c].version = call[c].version
           /\ call'[c].marks = call[c].marks /\ call'[c].answer = call[c].answer
           /\ \/ /\ call'[c].at = call[c].at
                 /\ \/ call[c].at \in Terminal \cup {"idle"}
                    \/ call[c].at \in {"roles", "handed"} /\ call[c].kind = "pczt"
              \/ call'[c].at = "gone" /\ call[c].at \notin Terminal \cup {"idle"}
  BY DEF CallType, CallRecords, CallsDie

(* A call begins under its key, and knows whether the key was bound then. *)
LEMMA BeginFields ==
  ASSUME CallType, NEW c \in Callers, Begin(c)
  PROVE  /\ call[c].at = "idle"
         /\ \A d \in Callers : d # c => call'[d] = call[d]
         /\ call'[c].at \in {"propose", "lookup"} /\ call'[c].key \in Keys
         /\ call'[c].kind # "pczt" => call'[c].at = "lookup"
         /\ call'[c].steps \in {1, 2}
         /\ call'[c].kind # "send" => call'[c].steps = 1
         /\ call'[c].step = call[c].step /\ call'[c].answer = call[c].answer
         /\ \A m \in call'[c].marks : m = "late" /\ ledger[call'[c].key] # Nobody
         /\ UNCHANGED <<dbVars, pcztVars, pending, ledger, awaiting, chainVars,
                        acked>>
<1>1. call[c].at = "idle" /\ UNCHANGED <<dbVars, pcztVars, pending, ledger, awaiting,
                                        chainVars, acked>>
  BY DEF Begin
<1>2. PICK kind \in Kinds, key \in Keys, steps \in {1, 2},
           target \in Targets \cup {ExpiryBlocks} :
        /\ steps = 2 => kind = "send"
        /\ StartAs(c, kind, key, target, steps)
  BY DEF Begin
<1> QED
  BY <1>1, <1>2, StartFields

(* A call finds its key bound and answers, or goes on without it. *)
LEMMA LookupFields ==
  ASSUME CallType, NEW c \in Callers, Lookup(c)
  PROVE  /\ call[c].at = "lookup" /\ SameCall(c)
         /\ call'[c].at \in {"done", "failed", "propose"}
         /\ call'[c].at # "done" => ledger[call[c].key] = Nobody
         /\ call'[c].step = call[c].step /\ call'[c].marks = call[c].marks
         /\ call'[c].at = "done" \/ call'[c].answer = call[c].answer
         /\ UNCHANGED <<dbVars, pcztVars, pending, ledger, awaiting, chainVars,
                        acked>>
  BY GotoFields, ReturnFields DEF Lookup

(* A call binds its key, or finds another payment there. *)
LEMMA RecordFields ==
  ASSUME CallType, NEW c \in Callers, Record(c)
  PROVE  /\ call[c].at = "record" /\ SameCall(c) /\ call'[c].at \in Terminal
         /\ call'[c].step = call[c].step /\ call'[c].marks = call[c].marks
         /\ call'[c].at = "done" \/ call'[c].answer = call[c].answer
         /\ \/ ledger' = [ledger EXCEPT ![call[c].key] = c]
            \/ UNCHANGED ledger
         /\ UNCHANGED <<dbVars, pcztVars, pending, awaiting, chainVars, acked>>
  BY GotoFields, ReturnFields DEF Record, Terminal

(* The steps that only move their call: it fails, gives up or is dropped. *)
Moves(c) == \/ ProposalFails(c) \/ RoleFails(c) \/ ExtractFails(c)
            \/ SubmitFails(c) \/ Cancel(c)

LEMMA MovesFields ==
  ASSUME CallType, NEW c \in Callers, Moves(c)
  PROVE  /\ call[c].at \notin Terminal \cup {"idle"} /\ SameCall(c)
         /\ call'[c].at \in {"failed", "roles", "abandon", "clear", "gone"}
         /\ call'[c].at = "roles" => call[c].at = "roles"
         /\ call'[c].at = "abandon" => call[c].at = "roles" /\ call[c].kind # "pczt"
         /\ call'[c].at = "clear" => call[c].at = "submit"
         /\ call[c].at = "created" => call'[c].at = "gone"
         /\ call'[c].step = call[c].step /\ call'[c].marks = call[c].marks
         /\ call'[c].answer = call[c].answer
         /\ UNCHANGED <<dbVars, pcztVars, pending, ledger, awaiting, chainVars,
                        acked>>
<1>1. PICK at : Goto(c, at) /\ at \in {"failed", "roles", "abandon", "clear", "gone"}
  BY DEF Moves, ProposalFails, RoleFails, ExtractFails, SubmitFails, Cancel,
     AfterExtractError
<1>2. /\ call[c].at \notin Terminal \cup {"idle"}
      /\ UNCHANGED <<dbVars, pcztVars, pending, ledger, awaiting, chainVars, acked>>
  BY DEF Moves, ProposalFails, RoleFails, ExtractFails, SubmitFails, Cancel,
     Terminal
<1>3. /\ call'[c].at = "roles" => call[c].at = "roles"
      /\ call'[c].at = "abandon" => call[c].at = "roles" /\ call[c].kind # "pczt"
      /\ call'[c].at = "clear" => call[c].at = "submit"
      /\ call[c].at = "created" => call'[c].at = "gone"
  BY GotoFields DEF Moves, ProposalFails, RoleFails, ExtractFails, SubmitFails, Cancel,
     AfterExtractError
<1> QED
  BY <1>1, <1>2, <1>3, GotoFields

-----------------------------------------------------------------------------
(* Types.                                                                  *)

(* A call that only moves keeps its type.                                  *)
LEMMA GotoType ==
  ASSUME CallType, NEW c \in Callers, NEW at \in Places, Goto(c, at)
  PROVE  CallType'
  BY DEF CallType, Goto, CallRecords

(* So does one that gains a mark.                                          *)
LEMMA MarkType ==
  ASSUME CallType, NEW c \in Callers, NEW at \in Places, NEW new \in SUBSET Marks,
         Mark(c, at, new)
  PROVE  CallType'
<1>1. call[c] \in CallRecords
  BY DEF CallType
<1>2. call[c].marks \cup new \in SUBSET Marks
  BY <1>1 DEF CallRecords
<1>3. [call[c] EXCEPT !.at = at, !.marks = @ \cup new] \in CallRecords
  BY <1>1, <1>2 DEF CallRecords
<1>4. call' = [call EXCEPT ![c] = [call[c] EXCEPT !.at = at, !.marks = @ \cup new]]
  BY DEF CallType, Mark
<1> QED
  BY <1>3, <1>4 DEF CallType

(* And one that answers with a payment.                                    *)
LEMMA ReturnType ==
  ASSUME CallType, NEW c \in Callers, NEW p \in Callers, Return(c, p)
  PROVE  CallType'
<1>1. call[c] \in CallRecords
  BY DEF CallType
<1>2. <<call[c].key, p>> \in Keys \X Callers
  BY <1>1 DEF CallRecords
<1>3. [call[c] EXCEPT !.at = "done", !.answer = <<call[c].key, p>>] \in CallRecords
  BY <1>1, <1>2 DEF CallRecords, Places, Terminal
<1>4. call' = [call EXCEPT ![c] = [call[c] EXCEPT !.at = "done",
                                                  !.answer = <<call[c].key, p>>]]
  BY DEF CallType, Return
<1> QED
  BY <1>3, <1>4 DEF CallType

(* The places named by the actions are places.                             *)
LEMMA PlacesNamed ==
  {"done", "failed", "gone", "propose", "created", "roles", "handed", "abandon",
   "pending", "submit", "clear", "record"} \subseteq Places
  BY DEF Places, Terminal

(* Expiries are numbers of blocks.                                         *)
LEMMA TargetType == Targets \cup {ExpiryBlocks} \subseteq Nat
<1>1. ExpiryBlocks \in Nat
  BY SpendingAssumption
<1> QED
  BY <1>1, SpendingAssumption

LEMMA CallTypes ==
  ASSUME TypeOK, NEW c \in Callers, CallerStep(c)
  PROVE  CallType'
<1>0. CallType
  BY DEF TypeOK, CallType
<1>1. CASE Begin(c)
  BY <1>0, <1>1, SpendingAssumption
  DEF Begin, StartAs, CallType, CallRecords, Marks, Kinds, Places, Terminal
<1>2. CASE Lookup(c)
  <2>1. CASE ledger[call[c].key] # Nobody
    <3>1. ledger[call[c].key] \in Callers
      BY <1>0, <2>1 DEF TypeOK, CallType, CallRecords
    <3> QED
      BY <1>0, <1>2, <2>1, <3>1, ReturnType DEF Lookup
  <2>2. CASE ledger[call[c].key] = Nobody
    BY <1>0, <1>2, <2>2, GotoType, PlacesNamed DEF Lookup
  <2> QED
    BY <2>1, <2>2
<1>3. CASE ProposalFails(c)
  BY <1>0, <1>3, GotoType, PlacesNamed DEF ProposalFails
<1>4. CASE ProposalLeaks(c)
  BY <1>0, <1>4, GotoType, PlacesNamed DEF ProposalLeaks
<1>5. CASE Prepare(c)
  BY <1>0, <1>5, GotoType, PlacesNamed DEF Prepare
<1>6. CASE CreatePczt(c)
  BY <1>0, <1>6, GotoType, PlacesNamed DEF CreatePczt
<1>7. CASE Acknowledge(c)
  <2>1. {"taken"} \subseteq Marks
    BY DEF Marks
  <2> QED
    BY <1>0, <1>7, <2>1, MarkType, PlacesNamed DEF Acknowledge
<1>8. CASE ReleaseUnacknowledged(c)
  BY <1>0, <1>8 DEF ReleaseUnacknowledged, CallType
<1>9. CASE Authorize(c)
  BY <1>0, <1>9, SpendingAssumption DEF Authorize, Sign, CallType, CallRecords
<1>10. CASE RoleFails(c)
  BY <1>0, <1>10, GotoType, PlacesNamed DEF RoleFails
<1>11. CASE ExtractFails(c)
  BY <1>0, <1>11, GotoType, PlacesNamed DEF ExtractFails, AfterExtractError
<1>12. CASE Extract(c)
  <2>1. {m \in {"overdue"} : life[c] = 0} \subseteq Marks
    BY DEF Marks
  <2>2. AfterExtractError(c) \in Places
    BY PlacesNamed DEF AfterExtractError
  <2>3. PICK at \in Places : Extracted(c, at)
    BY <1>12, <2>2, PlacesNamed DEF Extract
  <2> QED
    BY <1>0, <2>1, <2>3, MarkType DEF Extracted
<1>13. CASE FacilitatorSubmits(c)
  BY <1>0, <1>13, GotoType, PlacesNamed DEF FacilitatorSubmits
<1>14. CASE Abandon(c)
  <2>1. {"abandoned"} \subseteq Marks
    BY DEF Marks
  <2>2. CASE call[c].kind = "pczt"
    BY <1>0, <1>14, <2>1, <2>2, MarkType, PlacesNamed DEF Abandon
  <2>3. CASE call[c].kind # "pczt"
    BY <1>0, <1>14, <2>1, <2>3, MarkType, PlacesNamed DEF Abandon
  <2> QED
    BY <2>2, <2>3
<1>15. CASE RecordPending(c)
  BY <1>0, <1>15, GotoType, PlacesNamed DEF RecordPending
<1>16. CASE Attempt(c)
  BY <1>0, <1>16 DEF Attempt, CallType
<1>17. CASE SubmitAccepted(c)
  BY <1>0, <1>17
  DEF SubmitAccepted, Advance, Goto, CallType, CallRecords, Places, Terminal
<1>18. CASE SubmitFails(c)
  BY <1>0, <1>18, GotoType, PlacesNamed DEF SubmitFails
<1>19. CASE ClearPending(c)
  BY <1>0, <1>19, GotoType, PlacesNamed DEF ClearPending
<1>20. CASE Record(c)
  <2>1. CASE Return(c, c)
    BY <1>0, <2>1, ReturnType
  <2>2. CASE \E at \in Places : Goto(c, at)
    BY <1>0, <2>2, GotoType
  <2> QED
    BY <1>20, <2>1, <2>2, PlacesNamed DEF Record
<1>21. CASE Cancel(c)
  BY <1>0, <1>21, GotoType, PlacesNamed DEF Cancel
<1> QED
  BY <1>1, <1>2, <1>3, <1>4, <1>5, <1>6, <1>7, <1>8, <1>9, <1>10, <1>11, <1>12, <1>13, <1>14, <1>15, <1>16, <1>17, <1>18, <1>19, <1>20, <1>21 DEF CallerStep

(* Types are preserved.                                                    *)
LEMMA StepTypes ==
  ASSUME TypeOK, [Next]_vars
  PROVE  TypeOK'
<1> USE SpendingAssumption DEF TypeOK, dbVars, pcztVars, chainVars
<1>A. ASSUME NEW c \in Callers, CallerStep(c) PROVE TypeOK'
  <2>0. call' \in [Callers -> CallRecords]
    BY <1>A, CallTypes DEF CallType
  <2>s. /\ call[c].step \in {1, 2} /\ call[c].steps \in {1, 2} /\ call[c].target \in Nat
        /\ call[c].version \in 0..MaxVersions /\ call[c].key \in Keys
    <3>1. call[c] \in CallRecords
      OBVIOUS
    <3>2. call[c].target \in Targets \cup {ExpiryBlocks}
          /\ call[c].step \in {1, 2} /\ call[c].steps \in {1, 2}
          /\ call[c].version \in 0..MaxVersions /\ call[c].key \in Keys
      BY <3>1 DEF CallRecords
    <3> QED
      BY <3>2, TargetType
  <2>1. CASE Begin(c)
    BY <2>0, <2>s, <2>1 DEF Begin
  <2>2. CASE Lookup(c)
    BY <2>0, <2>s, <2>2 DEF Lookup, ActorFree, Goto
  <2>3. CASE ProposalFails(c)
    BY <2>0, <2>s, <2>3 DEF ProposalFails, Goto
  <2>4. CASE ProposalLeaks(c)
    BY <2>0, <2>s, <2>4 DEF ProposalLeaks, Goto, LockedBy, Selectable, Unlocked
  <2>5. CASE Prepare(c)
    <3>1. PICK os \in SUBSET Selectable(c) :
            picks' = [picks EXCEPT ![c] = os] /\ locks' = SpentOf(os)
      BY <2>5 DEF Prepare
    <3>2. os \subseteq Outputs
      BY DEF Selectable, Outputs
    <3>3. locks' \in [Outputs -> [by : Callers \cup {Nobody}, left : 0..LockBlocks]]
      BY <3>1 DEF SpentOf, Unlocked
    <3>4. picks' \in [Callers -> SUBSET Outputs]
      BY <3>1, <3>2
    <3>5. stored' \subseteq Txs
      BY <2>s, <2>5 DEF Prepare, Txs
    <3>6. life' \in [Callers -> Nat]
      BY <2>5, TargetType DEF Prepare
    <3> QED
      BY <2>0, <2>5, <3>3, <3>4, <3>5, <3>6 DEF Prepare
  <2>6. CASE CreatePczt(c)
    <3>1. PICK os \in SUBSET Selectable(c) :
            /\ picks' = [picks EXCEPT ![c] = os] /\ locks' = LockedBy(c, os)
            /\ rows' = [rows EXCEPT ![c] = os]
      BY <2>6 DEF CreatePczt
    <3>2. os \subseteq Outputs
      BY DEF Selectable, Outputs
    <3>3. locks' \in [Outputs -> [by : Callers \cup {Nobody}, left : 0..LockBlocks]]
      BY <3>1 DEF LockedBy
    <3>4. picks' \in [Callers -> SUBSET Outputs] /\ rows' \in [Callers -> SUBSET Outputs]
      BY <3>1, <3>2
    <3> QED
      BY <2>0, <2>s, <2>6, <3>3, <3>4 DEF CreatePczt
  <2>7. CASE Acknowledge(c)
    BY <2>0, <2>s, <2>7 DEF Acknowledge
  <2>8. CASE ReleaseUnacknowledged(c)
    BY <2>0, <2>s, <2>8 DEF ReleaseUnacknowledged, UnlockedBy, Unlocked
  <2>9. CASE Authorize(c)
    BY <2>0, <2>s, <2>9 DEF Authorize
  <2>10. CASE RoleFails(c)
    BY <2>0, <2>s, <2>10 DEF RoleFails, Goto
  <2>11. CASE ExtractFails(c)
    BY <2>0, <2>s, <2>11 DEF ExtractFails, Goto, AfterExtractError
  <2>12. CASE Extract(c)
    <3>1. locks' \in [Outputs -> [by : Callers \cup {Nobody}, left : 0..LockBlocks]]
      BY <2>12 DEF Extract, SpentOf, Unlocked
    <3>2. stored' \subseteq Txs /\ rows' \in [Callers -> SUBSET Outputs]
      BY <2>12 DEF Extract, Txs
    <3>3. finalized' \in [Callers -> 0..MaxVersions]
      BY <2>s, <2>12 DEF Extract
    <3> QED
      BY <2>0, <2>12, <3>1, <3>2, <3>3 DEF Extract
  <2>13. CASE FacilitatorSubmits(c)
    BY <2>0, <2>s, <2>13 DEF FacilitatorSubmits, Goto, Txs
  <2>14. CASE Abandon(c)
    BY <2>0, <2>s, <2>14 DEF Abandon, UnlockedBy, Unlocked
  <2>15. CASE RecordPending(c)
    BY <2>0, <2>s, <2>15 DEF RecordPending, Goto, Current, Txs
  <2>16. CASE Attempt(c)
    BY <2>0, <2>s, <2>16 DEF Attempt, Current, Txs
  <2>17. CASE SubmitAccepted(c)
    BY <2>0, <2>s, <2>17 DEF SubmitAccepted, Goto, Current, Txs
  <2>18. CASE SubmitFails(c)
    BY <2>0, <2>s, <2>18 DEF SubmitFails, Goto
  <2>19. CASE ClearPending(c)
    BY <2>0, <2>s, <2>19 DEF ClearPending, Goto, Current
  <2>20. CASE Record(c)
    BY <2>0, <2>s, <2>20 DEF Record, Goto
  <2>21. CASE Cancel(c)
    BY <2>0, <2>s, <2>21 DEF Cancel, Goto
  <2> QED
    BY <1>A, <2>1, <2>2, <2>3, <2>4, <2>5, <2>6, <2>7, <2>8, <2>9, <2>10, <2>11, <2>12, <2>13, <2>14, <2>15, <2>16, <2>17, <2>18, <2>19, <2>20, <2>21 DEF CallerStep
<1>1. CASE Crash
  <2>1. call' \in [Callers -> CallRecords]
    <3>1. ASSUME NEW c \in Callers PROVE call'[c] \in CallRecords
      <4>1. call[c] \in CallRecords
        OBVIOUS
      <4>2. [call[c] EXCEPT !.at = "gone"] \in CallRecords
        BY <4>1, PlacesNamed DEF CallRecords
      <4> QED
        BY <1>1, <4>1, <4>2 DEF Crash, CallsDie
    <3> QED
      BY <1>1, <3>1 DEF Crash, CallsDie
  <2> QED
    BY <1>1, <2>1 DEF Crash
<1>2. CASE NewBlock
  BY <1>2 DEF NewBlock, Tick, Less, Unlocked
<1>3. ASSUME NEW t \in Txs, Mine(t) \/ RetirePending(t) PROVE TypeOK'
  BY <1>3 DEF Mine, RetirePending
<1>4. CASE UNCHANGED vars
  BY <1>4 DEF vars
<1> QED
  BY <1>A, <1>1, <1>2, <1>3, <1>4 DEF Next

-----------------------------------------------------------------------------
(* The inductive invariant, part by part.                                  *)

Early(c) == call[c].at \in {"idle", "lookup", "propose"}
Submitting(c) == call[c].at \in {"pending", "submit", "clear", "record"}

\* Before it proposes, a call has left no trace.
EarlyIsClean ==
  \A c \in Callers : Early(c) =>
    /\ picks[c] = {} /\ rows[c] = {} /\ finalized[c] = 0
    /\ "taken" \notin call[c].marks /\ call[c].step = 1 /\ c \notin leaked
    /\ <<c, 1>> \notin stored /\ <<c, 2>> \notin stored

\* The actor waits for a call that was offered its PCZT and has not taken it.
CreatedIsAwaited == \A c \in Callers : call[c].at = "created" => awaiting = c

AwaitedIsUntaken ==
  \A c \in Callers : awaiting = c =>
    /\ call[c].at \in {"created", "gone"}
    /\ "taken" \notin call[c].marks /\ c \notin leaked

LeakedIsOver == \A c \in Callers : c \in leaked => call[c].at \in Terminal

\* A PCZT is in the hands of its call from the time it was taken.
PcztPlaces ==
  \A c \in Callers :
    call[c].at \in {"created", "roles", "handed", "abandon"} => UsesPczt(c)

TakenPlaces ==
  \A c \in Callers :
    call[c].at \in {"roles", "handed", "abandon"} => "taken" \in call[c].marks

HandedIsStored ==
  \A c \in Callers : call[c].at = "handed" =>
    call[c].kind = "pczt" /\ <<c, 1>> \in stored

AbandonsOwn ==
  \A c \in Callers : call[c].at = "abandon" => call[c].kind = "sendTarget"

SubmittedWasRetained ==
  \A c \in Callers :
    call[c].at \in {"handed", "pending", "submit"} /\ UsesPczt(c) =>
      finalized[c] # 0

\* What is submitted was recorded, and its steps are taken in order.
SubmitsRecorded ==
  \A c \in Callers :
    Submitting(c) => /\ <<c, 1>> \in stored
                     /\ call[c].steps = 2 => <<c, 2>> \in stored

StepsInOrder ==
  \A c \in Callers :
    /\ call[c].step <= call[c].steps
    /\ call[c].kind # "send" => call[c].steps = 1

\* A call that began under a bound key does not get past its lookup.
LateStopsAtLookup ==
  \A c \in Callers : "late" \in call[c].marks =>
    /\ call[c].at = "lookup" => ledger[call[c].key] # Nobody
    /\ call[c].kind # "pczt" => call[c].at \in Terminal \cup {"lookup"}

AnsweredIsDone ==
  \A c \in Callers : call[c].answer # Nobody => call[c].at = "done"

\* What is on the wire was recorded; what was acknowledged was on the wire.
NetworkOrder ==
  \A t \in Txs : /\ t \in wire => t \in stored
                 /\ t \in acked => t \in wire
                 /\ t \in mined => t \in wire

\* The steps of a payment are acknowledged one after the other.
EarlierStepsAcked ==
  \A c \in Callers :
    call[c].at \in {"pending", "submit", "clear"} /\ call[c].step = 2 =>
      <<c, 1>> \in acked

Complete(c) == <<c, 1>> \in acked /\ (call[c].steps = 2 => <<c, 2>> \in acked)

RecordsComplete ==
  \A c \in Callers : call[c].at = "record" => Complete(c)

BoundIsComplete ==
  \A k \in Keys : ledger[k] # Nobody => Complete(ledger[k]) /\ ~ Early(ledger[k])

\* The rows of a PCZT cover its locks and only its inputs.
RowsArePicked == \A c \in Callers : rows[c] \subseteq picks[c]

ShieldOnly ==
  \A c \in Callers : call[c].kind # "shield" => picks[c] \cap Transparent = {}

AwaitedRows ==
  \A c \in Callers : awaiting = c =>
    \A o \in Outputs : locks[o].by = c => o \in rows[c]

\* What LocksReleasable says, output by output.
LocksTaken ==
  \A c \in Callers : (awaiting # c /\ c \notin leaked) =>
    \A o \in Outputs : locks[o].by = c => "taken" \in call[c].marks /\ o \in rows[c]

RowsTaken ==
  \A c \in Callers :
    (awaiting # c /\ c \notin leaked /\ rows[c] # {}) => "taken" \in call[c].marks

PendingBeforeSubmit ==
  \A c \in Callers :
    /\ call[c].at = "submit" /\ call[c].step = 1
    /\ picks[c] \cap Transparent # {}
    /\ life[c] > 0 /\ <<c, 1>> \notin mined
    => <<c, 1>> \in pending

\* What PendingWhileInFlight says, call by call.
InFlightIsPending ==
  \A c \in Callers :
    /\ <<c, 1>> \in wire /\ picks[c] \cap Transparent # {}
    /\ life[c] > 0 /\ <<c, 1>> \notin mined /\ call[c].at # "failed"
    => <<c, 1>> \in pending

(* A PCZT that can still be extracted in time claims its inputs by its     *)
(* locks, a recorded transaction by its record.                            *)
ClaimsByLock(c, o) ==
  /\ o \in picks[c]
  /\ <<c, 1>> \notin stored
  /\ call[c].at \in {"created", "roles"}
  /\ life[c] > 0

Claims(c, o) == Spends(c, o) \/ ClaimsByLock(c, o)

\* No loose PCZT ever picked the output.
Tight(o) == \A c \in Callers : o \in picks[c] => ~ Loose(c)

\* The lock of a PCZT outlives its expiry.
LocksOutliveClaims ==
  \A o \in Outputs, c \in Callers :
    Tight(o) /\ ClaimsByLock(c, o) =>
      locks[o].by = c /\ locks[o].left >= life[c]

OneClaimPerOutput ==
  \A o \in Outputs : Tight(o) =>
    \A c, d \in Callers : Claims(c, o) /\ Claims(d, o) => c = d

\* What was picked stays picked, and the reasons to be loose remain.
PicksKept ==
  \A d \in Callers : picks[d] # {} =>
    /\ picks'[d] = picks[d]
    /\ call'[d].kind = call[d].kind /\ call'[d].target = call[d].target
    /\ call[d].marks \subseteq call'[d].marks

\* Only one call a step claims anew, and only what was free.
FewNewClaims ==
  \A o \in Outputs, d, e \in Callers :
    Claims(d, o)' /\ Claims(e, o)' =>
      \/ d = e
      \/ Claims(d, o) /\ Claims(e, o)
      \/ Free(o) /\ (Claims(d, o) \/ Claims(e, o))

SpendingInv ==
  /\ TypeOK
  /\ EarlyIsClean /\ CreatedIsAwaited /\ AwaitedIsUntaken /\ LeakedIsOver
  /\ PcztPlaces /\ TakenPlaces /\ HandedIsStored /\ AbandonsOwn
  /\ SubmittedWasRetained /\ SubmitsRecorded /\ StepsInOrder
  /\ LateStopsAtLookup /\ AnsweredIsDone /\ LateCallsBuildNothing
  /\ NetworkOrder /\ EarlierStepsAcked /\ RecordsComplete /\ BoundIsComplete
  /\ RowsArePicked /\ ShieldOnly /\ AwaitedRows /\ LocksTaken /\ RowsTaken
  /\ SubmittedIsRetained /\ PendingBeforeSubmit /\ InFlightIsPending
  /\ LocksOutliveClaims /\ OneClaimPerOutput

\* A proposal has one transaction or two.
StepRanges ==
  \A d \in Callers : /\ call[d].step \in {1, 2} /\ call[d].steps \in {1, 2}
                     /\ call'[d].step \in {1, 2} /\ call'[d].steps \in {1, 2}

LEMMA BoundPayments ==
  ASSUME TypeOK
  PROVE  \A k \in Keys : ledger[k] # Nobody => ledger[k] \in Callers
  BY DEF TypeOK

(* A call that has not proposed yet has left no trace, whatever the others do. *)
LEMMA EarlyIsCleanStep ==
  ASSUME SpendingInv, [Next]_vars
  PROVE  EarlyIsClean'
<1>c. CallType /\ CallType'
  BY StepTypes DEF TypeOK, CallType, SpendingInv
<1>i. TypeOK /\ EarlyIsClean /\ LeakedIsOver /\ AwaitedIsUntaken
  BY DEF SpendingInv
<1>t. StepRanges
  BY <1>c DEF CallType, CallRecords, StepRanges
<1> USE SpendingAssumption, <1>c DEF TypeOK, SameCall, dbVars, pcztVars, chainVars, ActorFree,
        Terminal
<1>1. ASSUME NEW c \in Callers, Begin(c) PROVE EarlyIsClean'
  BY <1>i, <1>t, <1>1, BeginFields DEF AwaitedIsUntaken, Early, EarlyIsClean,
    LeakedIsOver, StepRanges
<1>2. ASSUME NEW c \in Callers, Lookup(c) PROVE EarlyIsClean'
  BY <1>i, <1>t, <1>2, LookupFields DEF ActorFree, AwaitedIsUntaken, Early,
    EarlyIsClean, LeakedIsOver, StepRanges
<1>3. ASSUME NEW c \in Callers, ProposalLeaks(c) PROVE EarlyIsClean'
  BY <1>i, <1>t, <1>3, GotoFields DEF AwaitedIsUntaken, Early, EarlyIsClean,
    LeakedIsOver, LockedBy, ProposalLeaks, Selectable, StepRanges, Unlocked
<1>4. ASSUME NEW c \in Callers, Prepare(c) PROVE EarlyIsClean'
  BY <1>i, <1>t, <1>4, GotoFields DEF AwaitedIsUntaken, Early, EarlyIsClean,
    LeakedIsOver, Outputs, Prepare, Selectable, SpentOf, StepRanges,
    Unlocked, UsesPczt
<1>5. ASSUME NEW c \in Callers, CreatePczt(c) PROVE EarlyIsClean'
  BY <1>i, <1>t, <1>5, GotoFields DEF AwaitedIsUntaken, CreatePczt, Early,
    EarlyIsClean, LeakedIsOver, LockedBy, Selectable, StepRanges, UsesPczt
<1>6. ASSUME NEW c \in Callers, Acknowledge(c) PROVE EarlyIsClean'
  BY <1>i, <1>t, <1>6, MarkFields DEF Acknowledge, AwaitedIsUntaken, Early,
    EarlyIsClean, LeakedIsOver, StepRanges
<1>7. ASSUME NEW c \in Callers, ReleaseUnacknowledged(c) PROVE EarlyIsClean'
  BY <1>i, <1>t, <1>7 DEF AwaitedIsUntaken, Early, EarlyIsClean,
    LeakedIsOver, ReleaseUnacknowledged, StepRanges, Unlocked, UnlockedBy
<1>8. ASSUME NEW c \in Callers, Authorize(c) PROVE EarlyIsClean'
  BY <1>i, <1>t, <1>8, SignFields DEF Authorize, AwaitedIsUntaken, Early,
    EarlyIsClean, LeakedIsOver, StepRanges
<1>9. ASSUME NEW c \in Callers, Extract(c) PROVE EarlyIsClean'
  BY <1>i, <1>t, <1>9, MarkFields DEF AfterExtractError, AwaitedIsUntaken,
    Early, EarlyIsClean, Extract, Extracted, LeakedIsOver, SpentOf,
    StepRanges, Unlocked
<1>10. ASSUME NEW c \in Callers, FacilitatorSubmits(c) PROVE EarlyIsClean'
  BY <1>i, <1>t, <1>10, GotoFields DEF AwaitedIsUntaken, Early, EarlyIsClean,
    FacilitatorSubmits, LeakedIsOver, StepRanges
<1>11. ASSUME NEW c \in Callers, Abandon(c) PROVE EarlyIsClean'
  BY <1>i, <1>t, <1>11, MarkFields DEF Abandon, AwaitedIsUntaken, Early,
    EarlyIsClean, LeakedIsOver, StepRanges, Unlocked, UnlockedBy
<1>12. ASSUME NEW c \in Callers, RecordPending(c) PROVE EarlyIsClean'
  BY <1>i, <1>t, <1>12, GotoFields DEF AwaitedIsUntaken, Current, Early,
    EarlyIsClean, LeakedIsOver, RecordPending, StepRanges
<1>13. ASSUME NEW c \in Callers, Attempt(c) PROVE EarlyIsClean'
  BY <1>i, <1>t, <1>13 DEF Attempt, AwaitedIsUntaken, Current, Early,
    EarlyIsClean, LeakedIsOver, StepRanges
<1>14. ASSUME NEW c \in Callers, SubmitAccepted(c) PROVE EarlyIsClean'
  BY <1>i, <1>t, <1>14, GotoFields, AdvanceFields DEF AwaitedIsUntaken,
    Current, Early, EarlyIsClean, LeakedIsOver, StepRanges, SubmitAccepted
<1>15. ASSUME NEW c \in Callers, ClearPending(c) PROVE EarlyIsClean'
  BY <1>i, <1>t, <1>15, GotoFields DEF AwaitedIsUntaken, ClearPending,
    Current, Early, EarlyIsClean, LeakedIsOver, StepRanges
<1>16. ASSUME NEW c \in Callers, Record(c) PROVE EarlyIsClean'
  BY <1>i, <1>t, <1>16, RecordFields DEF AwaitedIsUntaken, Early,
    EarlyIsClean, LeakedIsOver, StepRanges
<1>17. ASSUME NEW c \in Callers, Moves(c) PROVE EarlyIsClean'
  BY <1>i, <1>t, <1>17, MovesFields DEF AwaitedIsUntaken, Early,
    EarlyIsClean, LeakedIsOver, StepRanges
<1>18. ASSUME Crash PROVE EarlyIsClean'
  <2>1. \A d \in Callers : Early(d)' => Early(d) /\ call[d].at # "created"
    BY <1>i, <1>18, DeathFields DEF Crash, Early
  <2>2. \A d \in Callers : d \in leaked' => d \in leaked \/ d = awaiting
    BY <1>18 DEF Crash
  <2>3. \A d \in Callers : d = awaiting => ~ Early(d)
    BY <1>i DEF AwaitedIsUntaken, Early
  <2>4. UNCHANGED <<picks, rows, finalized, stored>>
    BY <1>18 DEF Crash
  <2>5. \A d \in Callers : call'[d].marks = call[d].marks /\ call'[d].step = call[d].step
    BY <1>i, <1>18, DeathFields DEF Crash
  <2> QED
    BY <1>i, <2>1, <2>2, <2>3, <2>4, <2>5 DEF EarlyIsClean
<1>19. ASSUME NewBlock PROVE EarlyIsClean'
  BY <1>i, <1>t, <1>19 DEF AwaitedIsUntaken, Early, EarlyIsClean,
    LeakedIsOver, Less, NewBlock, StepRanges, Tick, Unlocked
<1>20. ASSUME NEW t \in Txs, Mine(t) PROVE EarlyIsClean'
  BY <1>i, <1>t, <1>20 DEF AwaitedIsUntaken, Early, EarlyIsClean,
    LeakedIsOver, Mine, StepRanges
<1>21. ASSUME NEW t \in Txs, RetirePending(t) PROVE EarlyIsClean'
  BY <1>i, <1>t, <1>21 DEF AwaitedIsUntaken, Early, EarlyIsClean,
    LeakedIsOver, RetirePending, StepRanges
<1>22. CASE UNCHANGED vars
  BY <1>i, <1>22 DEF AwaitedIsUntaken, Early, EarlyIsClean, LeakedIsOver,
    StepRanges, vars
<1> QED
  BY <1>1, <1>2, <1>3, <1>4, <1>5, <1>6, <1>7, <1>8, <1>9, <1>10, <1>11,
    <1>12, <1>13, <1>14, <1>15, <1>16, <1>17, <1>18, <1>19, <1>20, <1>21,
    <1>22 DEF Next, CallerStep, Moves

(* The actor waits for every call it has offered a PCZT. *)
LEMMA CreatedIsAwaitedStep ==
  ASSUME SpendingInv, [Next]_vars
  PROVE  CreatedIsAwaited'
<1>c. CallType /\ CallType'
  BY StepTypes DEF TypeOK, CallType, SpendingInv
<1>i. TypeOK /\ CreatedIsAwaited
  BY DEF SpendingInv
<1> USE SpendingAssumption, <1>c DEF TypeOK, SameCall, dbVars, pcztVars, chainVars, ActorFree,
        Terminal
<1>1. ASSUME NEW c \in Callers, Begin(c) PROVE CreatedIsAwaited'
  BY <1>i, <1>1, BeginFields DEF CreatedIsAwaited
<1>2. ASSUME NEW c \in Callers, Lookup(c) PROVE CreatedIsAwaited'
  BY <1>i, <1>2, LookupFields DEF ActorFree, CreatedIsAwaited
<1>3. ASSUME NEW c \in Callers, ProposalLeaks(c) PROVE CreatedIsAwaited'
  BY <1>i, <1>3, GotoFields DEF CreatedIsAwaited, LockedBy, ProposalLeaks,
    Selectable, Unlocked
<1>4. ASSUME NEW c \in Callers, Prepare(c) PROVE CreatedIsAwaited'
  BY <1>i, <1>4, GotoFields DEF CreatedIsAwaited, Outputs, Prepare,
    Selectable, SpentOf, Unlocked, UsesPczt
<1>5. ASSUME NEW c \in Callers, CreatePczt(c) PROVE CreatedIsAwaited'
  BY <1>i, <1>5, GotoFields DEF CreatePczt, CreatedIsAwaited, LockedBy,
    Selectable, UsesPczt
<1>6. ASSUME NEW c \in Callers, Acknowledge(c) PROVE CreatedIsAwaited'
  BY <1>i, <1>6, MarkFields DEF Acknowledge, CreatedIsAwaited
<1>7. ASSUME NEW c \in Callers, ReleaseUnacknowledged(c) PROVE CreatedIsAwaited'
  BY <1>i, <1>7 DEF CreatedIsAwaited, ReleaseUnacknowledged, Unlocked,
    UnlockedBy
<1>8. ASSUME NEW c \in Callers, Authorize(c) PROVE CreatedIsAwaited'
  BY <1>i, <1>8, SignFields DEF Authorize, CreatedIsAwaited
<1>9. ASSUME NEW c \in Callers, Extract(c) PROVE CreatedIsAwaited'
  BY <1>i, <1>9, MarkFields DEF AfterExtractError, CreatedIsAwaited, Extract,
    Extracted, SpentOf, Unlocked
<1>10. ASSUME NEW c \in Callers, FacilitatorSubmits(c) PROVE CreatedIsAwaited'
  BY <1>i, <1>10, GotoFields DEF CreatedIsAwaited, FacilitatorSubmits
<1>11. ASSUME NEW c \in Callers, Abandon(c) PROVE CreatedIsAwaited'
  BY <1>i, <1>11, MarkFields DEF Abandon, CreatedIsAwaited, Unlocked,
    UnlockedBy
<1>12. ASSUME NEW c \in Callers, RecordPending(c) PROVE CreatedIsAwaited'
  BY <1>i, <1>12, GotoFields DEF CreatedIsAwaited, Current, RecordPending
<1>13. ASSUME NEW c \in Callers, Attempt(c) PROVE CreatedIsAwaited'
  BY <1>i, <1>13 DEF Attempt, CreatedIsAwaited, Current
<1>14. ASSUME NEW c \in Callers, SubmitAccepted(c) PROVE CreatedIsAwaited'
  BY <1>i, <1>14, GotoFields, AdvanceFields DEF CreatedIsAwaited, Current,
    SubmitAccepted
<1>15. ASSUME NEW c \in Callers, ClearPending(c) PROVE CreatedIsAwaited'
  BY <1>i, <1>15, GotoFields DEF ClearPending, CreatedIsAwaited, Current
<1>16. ASSUME NEW c \in Callers, Record(c) PROVE CreatedIsAwaited'
  BY <1>i, <1>16, RecordFields DEF CreatedIsAwaited
<1>17. ASSUME NEW c \in Callers, Moves(c) PROVE CreatedIsAwaited'
  BY <1>i, <1>17, MovesFields DEF CreatedIsAwaited
<1>18. ASSUME Crash PROVE CreatedIsAwaited'
  BY <1>i, <1>18, DeathFields DEF Crash, CreatedIsAwaited
<1>19. ASSUME NewBlock PROVE CreatedIsAwaited'
  BY <1>i, <1>19 DEF CreatedIsAwaited, Less, NewBlock, Tick, Unlocked
<1>20. ASSUME NEW t \in Txs, Mine(t) PROVE CreatedIsAwaited'
  BY <1>i, <1>20 DEF CreatedIsAwaited, Mine
<1>21. ASSUME NEW t \in Txs, RetirePending(t) PROVE CreatedIsAwaited'
  BY <1>i, <1>21 DEF CreatedIsAwaited, RetirePending
<1>22. CASE UNCHANGED vars
  BY <1>i, <1>22 DEF CreatedIsAwaited, vars
<1> QED
  BY <1>1, <1>2, <1>3, <1>4, <1>5, <1>6, <1>7, <1>8, <1>9, <1>10, <1>11,
    <1>12, <1>13, <1>14, <1>15, <1>16, <1>17, <1>18, <1>19, <1>20, <1>21,
    <1>22 DEF Next, CallerStep, Moves

(* Nobody is waited for after it took its PCZT or its locks leaked. *)
LEMMA AwaitedIsUntakenStep ==
  ASSUME SpendingInv, [Next]_vars
  PROVE  AwaitedIsUntaken'
<1>c. CallType /\ CallType'
  BY StepTypes DEF TypeOK, CallType, SpendingInv
<1>i. TypeOK /\ AwaitedIsUntaken /\ CreatedIsAwaited /\ EarlyIsClean /\ LeakedIsOver
  BY DEF SpendingInv
<1> USE SpendingAssumption, <1>c DEF TypeOK, SameCall, dbVars, pcztVars, chainVars, ActorFree,
        Terminal
<1>1. ASSUME NEW c \in Callers, Begin(c) PROVE AwaitedIsUntaken'
  BY <1>i, <1>1, BeginFields DEF AwaitedIsUntaken, CreatedIsAwaited, Early,
    EarlyIsClean, LeakedIsOver
<1>2. ASSUME NEW c \in Callers, Lookup(c) PROVE AwaitedIsUntaken'
  BY <1>i, <1>2, LookupFields DEF ActorFree, AwaitedIsUntaken,
    CreatedIsAwaited, Early, EarlyIsClean, LeakedIsOver
<1>3. ASSUME NEW c \in Callers, ProposalLeaks(c) PROVE AwaitedIsUntaken'
  BY <1>i, <1>3, GotoFields DEF AwaitedIsUntaken, CreatedIsAwaited, Early,
    EarlyIsClean, LeakedIsOver, LockedBy, ProposalLeaks, Selectable, Unlocked
<1>4. ASSUME NEW c \in Callers, Prepare(c) PROVE AwaitedIsUntaken'
  BY <1>i, <1>4, GotoFields DEF AwaitedIsUntaken, CreatedIsAwaited, Early,
    EarlyIsClean, LeakedIsOver, Outputs, Prepare, Selectable, SpentOf,
    Unlocked, UsesPczt
<1>5. ASSUME NEW c \in Callers, CreatePczt(c) PROVE AwaitedIsUntaken'
  <2>1. awaiting' = c /\ Goto(c, "created") /\ UNCHANGED leaked
    BY <1>5 DEF CreatePczt
  <2>2. "taken" \notin call[c].marks /\ c \notin leaked
    BY <1>i, <1>5 DEF CreatePczt, EarlyIsClean, Early
  <2> QED
    BY <1>i, <2>1, <2>2, GotoFields DEF AwaitedIsUntaken
<1>6. ASSUME NEW c \in Callers, Acknowledge(c) PROVE AwaitedIsUntaken'
  BY <1>i, <1>6, MarkFields DEF Acknowledge, AwaitedIsUntaken,
    CreatedIsAwaited, Early, EarlyIsClean, LeakedIsOver
<1>7. ASSUME NEW c \in Callers, ReleaseUnacknowledged(c) PROVE AwaitedIsUntaken'
  BY <1>i, <1>7 DEF AwaitedIsUntaken, CreatedIsAwaited, Early, EarlyIsClean,
    LeakedIsOver, ReleaseUnacknowledged, Unlocked, UnlockedBy
<1>8. ASSUME NEW c \in Callers, Authorize(c) PROVE AwaitedIsUntaken'
  BY <1>i, <1>8, SignFields DEF Authorize, AwaitedIsUntaken,
    CreatedIsAwaited, Early, EarlyIsClean, LeakedIsOver
<1>9. ASSUME NEW c \in Callers, Extract(c) PROVE AwaitedIsUntaken'
  BY <1>i, <1>9, MarkFields DEF AfterExtractError, AwaitedIsUntaken,
    CreatedIsAwaited, Early, EarlyIsClean, Extract, Extracted, LeakedIsOver,
    SpentOf, Unlocked
<1>10. ASSUME NEW c \in Callers, FacilitatorSubmits(c) PROVE AwaitedIsUntaken'
  BY <1>i, <1>10, GotoFields DEF AwaitedIsUntaken, CreatedIsAwaited, Early,
    EarlyIsClean, FacilitatorSubmits, LeakedIsOver
<1>11. ASSUME NEW c \in Callers, Abandon(c) PROVE AwaitedIsUntaken'
  BY <1>i, <1>11, MarkFields DEF Abandon, AwaitedIsUntaken, CreatedIsAwaited,
    Early, EarlyIsClean, LeakedIsOver, Unlocked, UnlockedBy
<1>12. ASSUME NEW c \in Callers, RecordPending(c) PROVE AwaitedIsUntaken'
  BY <1>i, <1>12, GotoFields DEF AwaitedIsUntaken, CreatedIsAwaited, Current,
    Early, EarlyIsClean, LeakedIsOver, RecordPending
<1>13. ASSUME NEW c \in Callers, Attempt(c) PROVE AwaitedIsUntaken'
  BY <1>i, <1>13 DEF Attempt, AwaitedIsUntaken, CreatedIsAwaited, Current,
    Early, EarlyIsClean, LeakedIsOver
<1>14. ASSUME NEW c \in Callers, SubmitAccepted(c) PROVE AwaitedIsUntaken'
  BY <1>i, <1>14, GotoFields, AdvanceFields DEF AwaitedIsUntaken,
    CreatedIsAwaited, Current, Early, EarlyIsClean, LeakedIsOver,
    SubmitAccepted
<1>15. ASSUME NEW c \in Callers, ClearPending(c) PROVE AwaitedIsUntaken'
  BY <1>i, <1>15, GotoFields DEF AwaitedIsUntaken, ClearPending,
    CreatedIsAwaited, Current, Early, EarlyIsClean, LeakedIsOver
<1>16. ASSUME NEW c \in Callers, Record(c) PROVE AwaitedIsUntaken'
  BY <1>i, <1>16, RecordFields DEF AwaitedIsUntaken, CreatedIsAwaited, Early,
    EarlyIsClean, LeakedIsOver
<1>17. ASSUME NEW c \in Callers, Moves(c) PROVE AwaitedIsUntaken'
  BY <1>i, <1>17, MovesFields DEF AwaitedIsUntaken, CreatedIsAwaited, Early,
    EarlyIsClean, LeakedIsOver
<1>18. ASSUME Crash PROVE AwaitedIsUntaken'
  BY <1>i, <1>18, DeathFields DEF AwaitedIsUntaken, Crash, CreatedIsAwaited,
    Early, EarlyIsClean, LeakedIsOver
<1>19. ASSUME NewBlock PROVE AwaitedIsUntaken'
  BY <1>i, <1>19 DEF AwaitedIsUntaken, CreatedIsAwaited, Early, EarlyIsClean,
    LeakedIsOver, Less, NewBlock, Tick, Unlocked
<1>20. ASSUME NEW t \in Txs, Mine(t) PROVE AwaitedIsUntaken'
  BY <1>i, <1>20 DEF AwaitedIsUntaken, CreatedIsAwaited, Early, EarlyIsClean,
    LeakedIsOver, Mine
<1>21. ASSUME NEW t \in Txs, RetirePending(t) PROVE AwaitedIsUntaken'
  BY <1>i, <1>21 DEF AwaitedIsUntaken, CreatedIsAwaited, Early, EarlyIsClean,
    LeakedIsOver, RetirePending
<1>22. CASE UNCHANGED vars
  BY <1>i, <1>22 DEF AwaitedIsUntaken, CreatedIsAwaited, Early, EarlyIsClean,
    LeakedIsOver, vars
<1> QED
  BY <1>1, <1>2, <1>3, <1>4, <1>5, <1>6, <1>7, <1>8, <1>9, <1>10, <1>11,
    <1>12, <1>13, <1>14, <1>15, <1>16, <1>17, <1>18, <1>19, <1>20, <1>21,
    <1>22 DEF Next, CallerStep, Moves

(* A call whose release failed is over. *)
LEMMA LeakedIsOverStep ==
  ASSUME SpendingInv, [Next]_vars
  PROVE  LeakedIsOver'
<1>c. CallType /\ CallType'
  BY StepTypes DEF TypeOK, CallType, SpendingInv
<1>i. TypeOK /\ LeakedIsOver /\ AwaitedIsUntaken
  BY DEF SpendingInv
<1> USE SpendingAssumption, <1>c DEF TypeOK, SameCall, dbVars, pcztVars, chainVars, ActorFree,
        Terminal
<1>1. ASSUME NEW c \in Callers, Begin(c) PROVE LeakedIsOver'
  BY <1>i, <1>1, BeginFields DEF AwaitedIsUntaken, LeakedIsOver
<1>2. ASSUME NEW c \in Callers, Lookup(c) PROVE LeakedIsOver'
  BY <1>i, <1>2, LookupFields DEF ActorFree, AwaitedIsUntaken, LeakedIsOver
<1>3. ASSUME NEW c \in Callers, ProposalLeaks(c) PROVE LeakedIsOver'
  BY <1>i, <1>3, GotoFields DEF AwaitedIsUntaken, LeakedIsOver, LockedBy,
    ProposalLeaks, Selectable, Unlocked
<1>4. ASSUME NEW c \in Callers, Prepare(c) PROVE LeakedIsOver'
  BY <1>i, <1>4, GotoFields DEF AwaitedIsUntaken, LeakedIsOver, Outputs,
    Prepare, Selectable, SpentOf, Unlocked, UsesPczt
<1>5. ASSUME NEW c \in Callers, CreatePczt(c) PROVE LeakedIsOver'
  BY <1>i, <1>5, GotoFields DEF AwaitedIsUntaken, CreatePczt, LeakedIsOver,
    LockedBy, Selectable, UsesPczt
<1>6. ASSUME NEW c \in Callers, Acknowledge(c) PROVE LeakedIsOver'
  BY <1>i, <1>6, MarkFields DEF Acknowledge, AwaitedIsUntaken, LeakedIsOver
<1>7. ASSUME NEW c \in Callers, ReleaseUnacknowledged(c) PROVE LeakedIsOver'
  BY <1>i, <1>7 DEF AwaitedIsUntaken, LeakedIsOver, ReleaseUnacknowledged,
    Unlocked, UnlockedBy
<1>8. ASSUME NEW c \in Callers, Authorize(c) PROVE LeakedIsOver'
  BY <1>i, <1>8, SignFields DEF Authorize, AwaitedIsUntaken, LeakedIsOver
<1>9. ASSUME NEW c \in Callers, Extract(c) PROVE LeakedIsOver'
  BY <1>i, <1>9, MarkFields DEF AfterExtractError, AwaitedIsUntaken, Extract,
    Extracted, LeakedIsOver, SpentOf, Unlocked
<1>10. ASSUME NEW c \in Callers, FacilitatorSubmits(c) PROVE LeakedIsOver'
  BY <1>i, <1>10, GotoFields DEF AwaitedIsUntaken, FacilitatorSubmits,
    LeakedIsOver
<1>11. ASSUME NEW c \in Callers, Abandon(c) PROVE LeakedIsOver'
  BY <1>i, <1>11, MarkFields DEF Abandon, AwaitedIsUntaken, LeakedIsOver,
    Unlocked, UnlockedBy
<1>12. ASSUME NEW c \in Callers, RecordPending(c) PROVE LeakedIsOver'
  BY <1>i, <1>12, GotoFields DEF AwaitedIsUntaken, Current, LeakedIsOver,
    RecordPending
<1>13. ASSUME NEW c \in Callers, Attempt(c) PROVE LeakedIsOver'
  BY <1>i, <1>13 DEF Attempt, AwaitedIsUntaken, Current, LeakedIsOver
<1>14. ASSUME NEW c \in Callers, SubmitAccepted(c) PROVE LeakedIsOver'
  BY <1>i, <1>14, GotoFields, AdvanceFields DEF AwaitedIsUntaken, Current,
    LeakedIsOver, SubmitAccepted
<1>15. ASSUME NEW c \in Callers, ClearPending(c) PROVE LeakedIsOver'
  BY <1>i, <1>15, GotoFields DEF AwaitedIsUntaken, ClearPending, Current,
    LeakedIsOver
<1>16. ASSUME NEW c \in Callers, Record(c) PROVE LeakedIsOver'
  BY <1>i, <1>16, RecordFields DEF AwaitedIsUntaken, LeakedIsOver
<1>17. ASSUME NEW c \in Callers, Moves(c) PROVE LeakedIsOver'
  BY <1>i, <1>17, MovesFields DEF AwaitedIsUntaken, LeakedIsOver
<1>18. ASSUME Crash PROVE LeakedIsOver'
  BY <1>i, <1>18, DeathFields DEF AwaitedIsUntaken, Crash, LeakedIsOver
<1>19. ASSUME NewBlock PROVE LeakedIsOver'
  BY <1>i, <1>19 DEF AwaitedIsUntaken, LeakedIsOver, Less, NewBlock, Tick,
    Unlocked
<1>20. ASSUME NEW t \in Txs, Mine(t) PROVE LeakedIsOver'
  BY <1>i, <1>20 DEF AwaitedIsUntaken, LeakedIsOver, Mine
<1>21. ASSUME NEW t \in Txs, RetirePending(t) PROVE LeakedIsOver'
  BY <1>i, <1>21 DEF AwaitedIsUntaken, LeakedIsOver, RetirePending
<1>22. CASE UNCHANGED vars
  BY <1>i, <1>22 DEF AwaitedIsUntaken, LeakedIsOver, vars
<1> QED
  BY <1>1, <1>2, <1>3, <1>4, <1>5, <1>6, <1>7, <1>8, <1>9, <1>10, <1>11,
    <1>12, <1>13, <1>14, <1>15, <1>16, <1>17, <1>18, <1>19, <1>20, <1>21,
    <1>22 DEF Next, CallerStep, Moves

(* Only a call with a PCZT reaches the roles. *)
LEMMA PcztPlacesStep ==
  ASSUME SpendingInv, [Next]_vars
  PROVE  PcztPlaces'
<1>c. CallType /\ CallType'
  BY StepTypes DEF TypeOK, CallType, SpendingInv
<1>i. TypeOK /\ PcztPlaces
  BY DEF SpendingInv
<1> USE SpendingAssumption, <1>c DEF TypeOK, SameCall, dbVars, pcztVars, chainVars, ActorFree,
        Terminal
<1>1. ASSUME NEW c \in Callers, Begin(c) PROVE PcztPlaces'
  BY <1>i, <1>1, BeginFields DEF PcztPlaces, UsesPczt
<1>2. ASSUME NEW c \in Callers, Lookup(c) PROVE PcztPlaces'
  BY <1>i, <1>2, LookupFields DEF ActorFree, PcztPlaces, UsesPczt
<1>3. ASSUME NEW c \in Callers, ProposalLeaks(c) PROVE PcztPlaces'
  BY <1>i, <1>3, GotoFields DEF LockedBy, PcztPlaces, ProposalLeaks,
    Selectable, Unlocked, UsesPczt
<1>4. ASSUME NEW c \in Callers, Prepare(c) PROVE PcztPlaces'
  BY <1>i, <1>4, GotoFields DEF Outputs, PcztPlaces, Prepare, Selectable,
    SpentOf, Unlocked, UsesPczt
<1>5. ASSUME NEW c \in Callers, CreatePczt(c) PROVE PcztPlaces'
  BY <1>i, <1>5, GotoFields DEF CreatePczt, LockedBy, PcztPlaces, Selectable,
    UsesPczt
<1>6. ASSUME NEW c \in Callers, Acknowledge(c) PROVE PcztPlaces'
  BY <1>i, <1>6, MarkFields DEF Acknowledge, PcztPlaces, UsesPczt
<1>7. ASSUME NEW c \in Callers, ReleaseUnacknowledged(c) PROVE PcztPlaces'
  BY <1>i, <1>7 DEF PcztPlaces, ReleaseUnacknowledged, Unlocked, UnlockedBy,
    UsesPczt
<1>8. ASSUME NEW c \in Callers, Authorize(c) PROVE PcztPlaces'
  BY <1>i, <1>8, SignFields DEF Authorize, PcztPlaces, UsesPczt
<1>9. ASSUME NEW c \in Callers, Extract(c) PROVE PcztPlaces'
  BY <1>i, <1>9, MarkFields DEF AfterExtractError, Extract, Extracted,
    PcztPlaces, SpentOf, Unlocked, UsesPczt
<1>10. ASSUME NEW c \in Callers, FacilitatorSubmits(c) PROVE PcztPlaces'
  BY <1>i, <1>10, GotoFields DEF FacilitatorSubmits, PcztPlaces, UsesPczt
<1>11. ASSUME NEW c \in Callers, Abandon(c) PROVE PcztPlaces'
  BY <1>i, <1>11, MarkFields DEF Abandon, PcztPlaces, Unlocked, UnlockedBy,
    UsesPczt
<1>12. ASSUME NEW c \in Callers, RecordPending(c) PROVE PcztPlaces'
  BY <1>i, <1>12, GotoFields DEF Current, PcztPlaces, RecordPending, UsesPczt
<1>13. ASSUME NEW c \in Callers, Attempt(c) PROVE PcztPlaces'
  BY <1>i, <1>13 DEF Attempt, Current, PcztPlaces, UsesPczt
<1>14. ASSUME NEW c \in Callers, SubmitAccepted(c) PROVE PcztPlaces'
  BY <1>i, <1>14, GotoFields, AdvanceFields DEF Current, PcztPlaces,
    SubmitAccepted, UsesPczt
<1>15. ASSUME NEW c \in Callers, ClearPending(c) PROVE PcztPlaces'
  BY <1>i, <1>15, GotoFields DEF ClearPending, Current, PcztPlaces, UsesPczt
<1>16. ASSUME NEW c \in Callers, Record(c) PROVE PcztPlaces'
  BY <1>i, <1>16, RecordFields DEF PcztPlaces, UsesPczt
<1>17. ASSUME NEW c \in Callers, Moves(c) PROVE PcztPlaces'
  BY <1>i, <1>17, MovesFields DEF PcztPlaces, UsesPczt
<1>18. ASSUME Crash PROVE PcztPlaces'
  BY <1>i, <1>18, DeathFields DEF Crash, PcztPlaces, UsesPczt
<1>19. ASSUME NewBlock PROVE PcztPlaces'
  BY <1>i, <1>19 DEF Less, NewBlock, PcztPlaces, Tick, Unlocked, UsesPczt
<1>20. ASSUME NEW t \in Txs, Mine(t) PROVE PcztPlaces'
  BY <1>i, <1>20 DEF Mine, PcztPlaces, UsesPczt
<1>21. ASSUME NEW t \in Txs, RetirePending(t) PROVE PcztPlaces'
  BY <1>i, <1>21 DEF PcztPlaces, RetirePending, UsesPczt
<1>22. CASE UNCHANGED vars
  BY <1>i, <1>22 DEF PcztPlaces, UsesPczt, vars
<1> QED
  BY <1>1, <1>2, <1>3, <1>4, <1>5, <1>6, <1>7, <1>8, <1>9, <1>10, <1>11,
    <1>12, <1>13, <1>14, <1>15, <1>16, <1>17, <1>18, <1>19, <1>20, <1>21,
    <1>22 DEF Next, CallerStep, Moves

(* A call in the roles took its PCZT. *)
LEMMA TakenPlacesStep ==
  ASSUME SpendingInv, [Next]_vars
  PROVE  TakenPlaces'
<1>c. CallType /\ CallType'
  BY StepTypes DEF TypeOK, CallType, SpendingInv
<1>i. TypeOK /\ TakenPlaces /\ PcztPlaces
  BY DEF SpendingInv
<1> USE SpendingAssumption, <1>c DEF TypeOK, SameCall, dbVars, pcztVars, chainVars, ActorFree,
        Terminal
<1>1. ASSUME NEW c \in Callers, Begin(c) PROVE TakenPlaces'
  BY <1>i, <1>1, BeginFields DEF PcztPlaces, TakenPlaces, UsesPczt
<1>2. ASSUME NEW c \in Callers, Lookup(c) PROVE TakenPlaces'
  BY <1>i, <1>2, LookupFields DEF ActorFree, PcztPlaces, TakenPlaces, UsesPczt
<1>3. ASSUME NEW c \in Callers, ProposalLeaks(c) PROVE TakenPlaces'
  BY <1>i, <1>3, GotoFields DEF LockedBy, PcztPlaces, ProposalLeaks,
    Selectable, TakenPlaces, Unlocked, UsesPczt
<1>4. ASSUME NEW c \in Callers, Prepare(c) PROVE TakenPlaces'
  BY <1>i, <1>4, GotoFields DEF Outputs, PcztPlaces, Prepare, Selectable,
    SpentOf, TakenPlaces, Unlocked, UsesPczt
<1>5. ASSUME NEW c \in Callers, CreatePczt(c) PROVE TakenPlaces'
  BY <1>i, <1>5, GotoFields DEF CreatePczt, LockedBy, PcztPlaces, Selectable,
    TakenPlaces, UsesPczt
<1>6. ASSUME NEW c \in Callers, Acknowledge(c) PROVE TakenPlaces'
  BY <1>i, <1>6, MarkFields DEF Acknowledge, PcztPlaces, TakenPlaces, UsesPczt
<1>7. ASSUME NEW c \in Callers, ReleaseUnacknowledged(c) PROVE TakenPlaces'
  BY <1>i, <1>7 DEF PcztPlaces, ReleaseUnacknowledged, TakenPlaces, Unlocked,
    UnlockedBy, UsesPczt
<1>8. ASSUME NEW c \in Callers, Authorize(c) PROVE TakenPlaces'
  BY <1>i, <1>8, SignFields DEF Authorize, PcztPlaces, TakenPlaces, UsesPczt
<1>9. ASSUME NEW c \in Callers, Extract(c) PROVE TakenPlaces'
  BY <1>i, <1>9, MarkFields DEF AfterExtractError, Extract, Extracted,
    PcztPlaces, SpentOf, TakenPlaces, Unlocked, UsesPczt
<1>10. ASSUME NEW c \in Callers, FacilitatorSubmits(c) PROVE TakenPlaces'
  BY <1>i, <1>10, GotoFields DEF FacilitatorSubmits, PcztPlaces, TakenPlaces,
    UsesPczt
<1>11. ASSUME NEW c \in Callers, Abandon(c) PROVE TakenPlaces'
  BY <1>i, <1>11, MarkFields DEF Abandon, PcztPlaces, TakenPlaces, Unlocked,
    UnlockedBy, UsesPczt
<1>12. ASSUME NEW c \in Callers, RecordPending(c) PROVE TakenPlaces'
  BY <1>i, <1>12, GotoFields DEF Current, PcztPlaces, RecordPending,
    TakenPlaces, UsesPczt
<1>13. ASSUME NEW c \in Callers, Attempt(c) PROVE TakenPlaces'
  BY <1>i, <1>13 DEF Attempt, Current, PcztPlaces, TakenPlaces, UsesPczt
<1>14. ASSUME NEW c \in Callers, SubmitAccepted(c) PROVE TakenPlaces'
  BY <1>i, <1>14, GotoFields, AdvanceFields DEF Current, PcztPlaces,
    SubmitAccepted, TakenPlaces, UsesPczt
<1>15. ASSUME NEW c \in Callers, ClearPending(c) PROVE TakenPlaces'
  BY <1>i, <1>15, GotoFields DEF ClearPending, Current, PcztPlaces,
    TakenPlaces, UsesPczt
<1>16. ASSUME NEW c \in Callers, Record(c) PROVE TakenPlaces'
  BY <1>i, <1>16, RecordFields DEF PcztPlaces, TakenPlaces, UsesPczt
<1>17. ASSUME NEW c \in Callers, Moves(c) PROVE TakenPlaces'
  BY <1>i, <1>17, MovesFields DEF PcztPlaces, TakenPlaces, UsesPczt
<1>18. ASSUME Crash PROVE TakenPlaces'
  BY <1>i, <1>18, DeathFields DEF Crash, PcztPlaces, TakenPlaces, UsesPczt
<1>19. ASSUME NewBlock PROVE TakenPlaces'
  BY <1>i, <1>19 DEF Less, NewBlock, PcztPlaces, TakenPlaces, Tick, Unlocked,
    UsesPczt
<1>20. ASSUME NEW t \in Txs, Mine(t) PROVE TakenPlaces'
  BY <1>i, <1>20 DEF Mine, PcztPlaces, TakenPlaces, UsesPczt
<1>21. ASSUME NEW t \in Txs, RetirePending(t) PROVE TakenPlaces'
  BY <1>i, <1>21 DEF PcztPlaces, RetirePending, TakenPlaces, UsesPczt
<1>22. CASE UNCHANGED vars
  BY <1>i, <1>22 DEF PcztPlaces, TakenPlaces, UsesPczt, vars
<1> QED
  BY <1>1, <1>2, <1>3, <1>4, <1>5, <1>6, <1>7, <1>8, <1>9, <1>10, <1>11,
    <1>12, <1>13, <1>14, <1>15, <1>16, <1>17, <1>18, <1>19, <1>20, <1>21,
    <1>22 DEF Next, CallerStep, Moves

(* A transaction is handed out when it is recorded. *)
LEMMA HandedIsStoredStep ==
  ASSUME SpendingInv, [Next]_vars
  PROVE  HandedIsStored'
<1>c. CallType /\ CallType'
  BY StepTypes DEF TypeOK, CallType, SpendingInv
<1>i. TypeOK /\ HandedIsStored
  BY DEF SpendingInv
<1> USE SpendingAssumption, <1>c DEF TypeOK, SameCall, dbVars, pcztVars, chainVars, ActorFree,
        Terminal
<1>1. ASSUME NEW c \in Callers, Begin(c) PROVE HandedIsStored'
  BY <1>i, <1>1, BeginFields DEF HandedIsStored
<1>2. ASSUME NEW c \in Callers, Lookup(c) PROVE HandedIsStored'
  BY <1>i, <1>2, LookupFields DEF ActorFree, HandedIsStored
<1>3. ASSUME NEW c \in Callers, ProposalLeaks(c) PROVE HandedIsStored'
  BY <1>i, <1>3, GotoFields DEF HandedIsStored, LockedBy, ProposalLeaks,
    Selectable, Unlocked
<1>4. ASSUME NEW c \in Callers, Prepare(c) PROVE HandedIsStored'
  BY <1>i, <1>4, GotoFields DEF HandedIsStored, Outputs, Prepare, Selectable,
    SpentOf, Unlocked, UsesPczt
<1>5. ASSUME NEW c \in Callers, CreatePczt(c) PROVE HandedIsStored'
  BY <1>i, <1>5, GotoFields DEF CreatePczt, HandedIsStored, LockedBy,
    Selectable, UsesPczt
<1>6. ASSUME NEW c \in Callers, Acknowledge(c) PROVE HandedIsStored'
  BY <1>i, <1>6, MarkFields DEF Acknowledge, HandedIsStored
<1>7. ASSUME NEW c \in Callers, ReleaseUnacknowledged(c) PROVE HandedIsStored'
  BY <1>i, <1>7 DEF HandedIsStored, ReleaseUnacknowledged, Unlocked,
    UnlockedBy
<1>8. ASSUME NEW c \in Callers, Authorize(c) PROVE HandedIsStored'
  BY <1>i, <1>8, SignFields DEF Authorize, HandedIsStored
<1>9. ASSUME NEW c \in Callers, Extract(c) PROVE HandedIsStored'
  BY <1>i, <1>9, MarkFields DEF AfterExtractError, Extract, Extracted,
    HandedIsStored, SpentOf, Unlocked
<1>10. ASSUME NEW c \in Callers, FacilitatorSubmits(c) PROVE HandedIsStored'
  BY <1>i, <1>10, GotoFields DEF FacilitatorSubmits, HandedIsStored
<1>11. ASSUME NEW c \in Callers, Abandon(c) PROVE HandedIsStored'
  BY <1>i, <1>11, MarkFields DEF Abandon, HandedIsStored, Unlocked, UnlockedBy
<1>12. ASSUME NEW c \in Callers, RecordPending(c) PROVE HandedIsStored'
  BY <1>i, <1>12, GotoFields DEF Current, HandedIsStored, RecordPending
<1>13. ASSUME NEW c \in Callers, Attempt(c) PROVE HandedIsStored'
  BY <1>i, <1>13 DEF Attempt, Current, HandedIsStored
<1>14. ASSUME NEW c \in Callers, SubmitAccepted(c) PROVE HandedIsStored'
  BY <1>i, <1>14, GotoFields, AdvanceFields DEF Current, HandedIsStored,
    SubmitAccepted
<1>15. ASSUME NEW c \in Callers, ClearPending(c) PROVE HandedIsStored'
  BY <1>i, <1>15, GotoFields DEF ClearPending, Current, HandedIsStored
<1>16. ASSUME NEW c \in Callers, Record(c) PROVE HandedIsStored'
  BY <1>i, <1>16, RecordFields DEF HandedIsStored
<1>17. ASSUME NEW c \in Callers, Moves(c) PROVE HandedIsStored'
  BY <1>i, <1>17, MovesFields DEF HandedIsStored
<1>18. ASSUME Crash PROVE HandedIsStored'
  BY <1>i, <1>18, DeathFields DEF Crash, HandedIsStored
<1>19. ASSUME NewBlock PROVE HandedIsStored'
  BY <1>i, <1>19 DEF HandedIsStored, Less, NewBlock, Tick, Unlocked
<1>20. ASSUME NEW t \in Txs, Mine(t) PROVE HandedIsStored'
  BY <1>i, <1>20 DEF HandedIsStored, Mine
<1>21. ASSUME NEW t \in Txs, RetirePending(t) PROVE HandedIsStored'
  BY <1>i, <1>21 DEF HandedIsStored, RetirePending
<1>22. CASE UNCHANGED vars
  BY <1>i, <1>22 DEF HandedIsStored, vars
<1> QED
  BY <1>1, <1>2, <1>3, <1>4, <1>5, <1>6, <1>7, <1>8, <1>9, <1>10, <1>11,
    <1>12, <1>13, <1>14, <1>15, <1>16, <1>17, <1>18, <1>19, <1>20, <1>21,
    <1>22 DEF Next, CallerStep, Moves

(* Only a send with a target expiry abandons by itself. *)
LEMMA AbandonsOwnStep ==
  ASSUME SpendingInv, [Next]_vars
  PROVE  AbandonsOwn'
<1>c. CallType /\ CallType'
  BY StepTypes DEF TypeOK, CallType, SpendingInv
<1>i. TypeOK /\ AbandonsOwn /\ PcztPlaces
  BY DEF SpendingInv
<1> USE SpendingAssumption, <1>c DEF TypeOK, SameCall, dbVars, pcztVars, chainVars, ActorFree,
        Terminal
<1>1. ASSUME NEW c \in Callers, Begin(c) PROVE AbandonsOwn'
  BY <1>i, <1>1, BeginFields DEF AbandonsOwn, PcztPlaces, UsesPczt
<1>2. ASSUME NEW c \in Callers, Lookup(c) PROVE AbandonsOwn'
  BY <1>i, <1>2, LookupFields DEF AbandonsOwn, ActorFree, PcztPlaces, UsesPczt
<1>3. ASSUME NEW c \in Callers, ProposalLeaks(c) PROVE AbandonsOwn'
  BY <1>i, <1>3, GotoFields DEF AbandonsOwn, LockedBy, PcztPlaces,
    ProposalLeaks, Selectable, Unlocked, UsesPczt
<1>4. ASSUME NEW c \in Callers, Prepare(c) PROVE AbandonsOwn'
  BY <1>i, <1>4, GotoFields DEF AbandonsOwn, Outputs, PcztPlaces, Prepare,
    Selectable, SpentOf, Unlocked, UsesPczt
<1>5. ASSUME NEW c \in Callers, CreatePczt(c) PROVE AbandonsOwn'
  BY <1>i, <1>5, GotoFields DEF AbandonsOwn, CreatePczt, LockedBy,
    PcztPlaces, Selectable, UsesPczt
<1>6. ASSUME NEW c \in Callers, Acknowledge(c) PROVE AbandonsOwn'
  BY <1>i, <1>6, MarkFields DEF AbandonsOwn, Acknowledge, PcztPlaces, UsesPczt
<1>7. ASSUME NEW c \in Callers, ReleaseUnacknowledged(c) PROVE AbandonsOwn'
  BY <1>i, <1>7 DEF AbandonsOwn, PcztPlaces, ReleaseUnacknowledged, Unlocked,
    UnlockedBy, UsesPczt
<1>8. ASSUME NEW c \in Callers, Authorize(c) PROVE AbandonsOwn'
  BY <1>i, <1>8, SignFields DEF AbandonsOwn, Authorize, PcztPlaces, UsesPczt
<1>9. ASSUME NEW c \in Callers, Extract(c) PROVE AbandonsOwn'
  BY <1>i, <1>9, MarkFields DEF AbandonsOwn, AfterExtractError, Extract,
    Extracted, PcztPlaces, SpentOf, Unlocked, UsesPczt
<1>10. ASSUME NEW c \in Callers, FacilitatorSubmits(c) PROVE AbandonsOwn'
  BY <1>i, <1>10, GotoFields DEF AbandonsOwn, FacilitatorSubmits, PcztPlaces,
    UsesPczt
<1>11. ASSUME NEW c \in Callers, Abandon(c) PROVE AbandonsOwn'
  BY <1>i, <1>11, MarkFields DEF Abandon, AbandonsOwn, PcztPlaces, Unlocked,
    UnlockedBy, UsesPczt
<1>12. ASSUME NEW c \in Callers, RecordPending(c) PROVE AbandonsOwn'
  BY <1>i, <1>12, GotoFields DEF AbandonsOwn, Current, PcztPlaces,
    RecordPending, UsesPczt
<1>13. ASSUME NEW c \in Callers, Attempt(c) PROVE AbandonsOwn'
  BY <1>i, <1>13 DEF AbandonsOwn, Attempt, Current, PcztPlaces, UsesPczt
<1>14. ASSUME NEW c \in Callers, SubmitAccepted(c) PROVE AbandonsOwn'
  BY <1>i, <1>14, GotoFields, AdvanceFields DEF AbandonsOwn, Current,
    PcztPlaces, SubmitAccepted, UsesPczt
<1>15. ASSUME NEW c \in Callers, ClearPending(c) PROVE AbandonsOwn'
  BY <1>i, <1>15, GotoFields DEF AbandonsOwn, ClearPending, Current,
    PcztPlaces, UsesPczt
<1>16. ASSUME NEW c \in Callers, Record(c) PROVE AbandonsOwn'
  BY <1>i, <1>16, RecordFields DEF AbandonsOwn, PcztPlaces, UsesPczt
<1>17. ASSUME NEW c \in Callers, Moves(c) PROVE AbandonsOwn'
  BY <1>i, <1>17, MovesFields DEF AbandonsOwn, PcztPlaces, UsesPczt
<1>18. ASSUME Crash PROVE AbandonsOwn'
  BY <1>i, <1>18, DeathFields DEF AbandonsOwn, Crash, PcztPlaces, UsesPczt
<1>19. ASSUME NewBlock PROVE AbandonsOwn'
  BY <1>i, <1>19 DEF AbandonsOwn, Less, NewBlock, PcztPlaces, Tick, Unlocked,
    UsesPczt
<1>20. ASSUME NEW t \in Txs, Mine(t) PROVE AbandonsOwn'
  BY <1>i, <1>20 DEF AbandonsOwn, Mine, PcztPlaces, UsesPczt
<1>21. ASSUME NEW t \in Txs, RetirePending(t) PROVE AbandonsOwn'
  BY <1>i, <1>21 DEF AbandonsOwn, PcztPlaces, RetirePending, UsesPczt
<1>22. CASE UNCHANGED vars
  BY <1>i, <1>22 DEF AbandonsOwn, PcztPlaces, UsesPczt, vars
<1> QED
  BY <1>1, <1>2, <1>3, <1>4, <1>5, <1>6, <1>7, <1>8, <1>9, <1>10, <1>11,
    <1>12, <1>13, <1>14, <1>15, <1>16, <1>17, <1>18, <1>19, <1>20, <1>21,
    <1>22 DEF Next, CallerStep, Moves

(* A PCZT on its way to the network was retained. *)
LEMMA SubmittedWasRetainedStep ==
  ASSUME SpendingInv, [Next]_vars
  PROVE  SubmittedWasRetained'
<1>c. CallType /\ CallType'
  BY StepTypes DEF TypeOK, CallType, SpendingInv
<1>i. TypeOK /\ SubmittedWasRetained /\ PcztPlaces
  BY DEF SpendingInv
<1> USE SpendingAssumption, <1>c DEF TypeOK, SameCall, dbVars, pcztVars, chainVars, ActorFree,
        Terminal
<1>1. ASSUME NEW c \in Callers, Begin(c) PROVE SubmittedWasRetained'
  BY <1>i, <1>1, BeginFields DEF PcztPlaces, SubmittedWasRetained, UsesPczt
<1>2. ASSUME NEW c \in Callers, Lookup(c) PROVE SubmittedWasRetained'
  BY <1>i, <1>2, LookupFields DEF ActorFree, PcztPlaces,
    SubmittedWasRetained, UsesPczt
<1>3. ASSUME NEW c \in Callers, ProposalLeaks(c) PROVE SubmittedWasRetained'
  BY <1>i, <1>3, GotoFields DEF LockedBy, PcztPlaces, ProposalLeaks,
    Selectable, SubmittedWasRetained, Unlocked, UsesPczt
<1>4. ASSUME NEW c \in Callers, Prepare(c) PROVE SubmittedWasRetained'
  BY <1>i, <1>4, GotoFields DEF Outputs, PcztPlaces, Prepare, Selectable,
    SpentOf, SubmittedWasRetained, Unlocked, UsesPczt
<1>5. ASSUME NEW c \in Callers, CreatePczt(c) PROVE SubmittedWasRetained'
  BY <1>i, <1>5, GotoFields DEF CreatePczt, LockedBy, PcztPlaces, Selectable,
    SubmittedWasRetained, UsesPczt
<1>6. ASSUME NEW c \in Callers, Acknowledge(c) PROVE SubmittedWasRetained'
  BY <1>i, <1>6, MarkFields DEF Acknowledge, PcztPlaces,
    SubmittedWasRetained, UsesPczt
<1>7. ASSUME NEW c \in Callers, ReleaseUnacknowledged(c) PROVE SubmittedWasRetained'
  BY <1>i, <1>7 DEF PcztPlaces, ReleaseUnacknowledged, SubmittedWasRetained,
    Unlocked, UnlockedBy, UsesPczt
<1>8. ASSUME NEW c \in Callers, Authorize(c) PROVE SubmittedWasRetained'
  BY <1>i, <1>8, SignFields DEF Authorize, PcztPlaces, SubmittedWasRetained,
    UsesPczt
<1>9. ASSUME NEW c \in Callers, Extract(c) PROVE SubmittedWasRetained'
  BY <1>i, <1>9, MarkFields DEF AfterExtractError, Extract, Extracted,
    PcztPlaces, SpentOf, SubmittedWasRetained, Unlocked, UsesPczt
<1>10. ASSUME NEW c \in Callers, FacilitatorSubmits(c) PROVE SubmittedWasRetained'
  BY <1>i, <1>10, GotoFields DEF FacilitatorSubmits, PcztPlaces,
    SubmittedWasRetained, UsesPczt
<1>11. ASSUME NEW c \in Callers, Abandon(c) PROVE SubmittedWasRetained'
  BY <1>i, <1>11, MarkFields DEF Abandon, PcztPlaces, SubmittedWasRetained,
    Unlocked, UnlockedBy, UsesPczt
<1>12. ASSUME NEW c \in Callers, RecordPending(c) PROVE SubmittedWasRetained'
  BY <1>i, <1>12, GotoFields DEF Current, PcztPlaces, RecordPending,
    SubmittedWasRetained, UsesPczt
<1>13. ASSUME NEW c \in Callers, Attempt(c) PROVE SubmittedWasRetained'
  BY <1>i, <1>13 DEF Attempt, Current, PcztPlaces, SubmittedWasRetained,
    UsesPczt
<1>14. ASSUME NEW c \in Callers, SubmitAccepted(c) PROVE SubmittedWasRetained'
  BY <1>i, <1>14, GotoFields, AdvanceFields DEF Current, PcztPlaces,
    SubmitAccepted, SubmittedWasRetained, UsesPczt
<1>15. ASSUME NEW c \in Callers, ClearPending(c) PROVE SubmittedWasRetained'
  BY <1>i, <1>15, GotoFields DEF ClearPending, Current, PcztPlaces,
    SubmittedWasRetained, UsesPczt
<1>16. ASSUME NEW c \in Callers, Record(c) PROVE SubmittedWasRetained'
  BY <1>i, <1>16, RecordFields DEF PcztPlaces, SubmittedWasRetained, UsesPczt
<1>17. ASSUME NEW c \in Callers, Moves(c) PROVE SubmittedWasRetained'
  BY <1>i, <1>17, MovesFields DEF PcztPlaces, SubmittedWasRetained, UsesPczt
<1>18. ASSUME Crash PROVE SubmittedWasRetained'
  BY <1>i, <1>18, DeathFields DEF Crash, PcztPlaces, SubmittedWasRetained,
    UsesPczt
<1>19. ASSUME NewBlock PROVE SubmittedWasRetained'
  BY <1>i, <1>19 DEF Less, NewBlock, PcztPlaces, SubmittedWasRetained, Tick,
    Unlocked, UsesPczt
<1>20. ASSUME NEW t \in Txs, Mine(t) PROVE SubmittedWasRetained'
  BY <1>i, <1>20 DEF Mine, PcztPlaces, SubmittedWasRetained, UsesPczt
<1>21. ASSUME NEW t \in Txs, RetirePending(t) PROVE SubmittedWasRetained'
  BY <1>i, <1>21 DEF PcztPlaces, RetirePending, SubmittedWasRetained, UsesPczt
<1>22. CASE UNCHANGED vars
  BY <1>i, <1>22 DEF PcztPlaces, SubmittedWasRetained, UsesPczt, vars
<1> QED
  BY <1>1, <1>2, <1>3, <1>4, <1>5, <1>6, <1>7, <1>8, <1>9, <1>10, <1>11,
    <1>12, <1>13, <1>14, <1>15, <1>16, <1>17, <1>18, <1>19, <1>20, <1>21,
    <1>22 DEF Next, CallerStep, Moves

(* What a call submits was recorded. *)
LEMMA SubmitsRecordedStep ==
  ASSUME SpendingInv, [Next]_vars
  PROVE  SubmitsRecorded'
<1>c. CallType /\ CallType'
  BY StepTypes DEF TypeOK, CallType, SpendingInv
<1>i. TypeOK /\ SubmitsRecorded /\ HandedIsStored /\ EarlyIsClean /\ StepsInOrder /\ PcztPlaces
  BY DEF SpendingInv
<1>t. StepRanges
  BY <1>c DEF CallType, CallRecords, StepRanges
<1> USE SpendingAssumption, <1>c DEF TypeOK, SameCall, dbVars, pcztVars, chainVars, ActorFree,
        Terminal
<1>1. ASSUME NEW c \in Callers, Begin(c) PROVE SubmitsRecorded'
  BY <1>i, <1>t, <1>1, BeginFields DEF Early, EarlyIsClean, HandedIsStored,
    PcztPlaces, StepRanges, StepsInOrder, SubmitsRecorded, Submitting,
    UsesPczt
<1>2. ASSUME NEW c \in Callers, Lookup(c) PROVE SubmitsRecorded'
  BY <1>i, <1>t, <1>2, LookupFields DEF ActorFree, Early, EarlyIsClean,
    HandedIsStored, PcztPlaces, StepRanges, StepsInOrder, SubmitsRecorded,
    Submitting, UsesPczt
<1>3. ASSUME NEW c \in Callers, ProposalLeaks(c) PROVE SubmitsRecorded'
  BY <1>i, <1>t, <1>3, GotoFields DEF Early, EarlyIsClean, HandedIsStored,
    LockedBy, PcztPlaces, ProposalLeaks, Selectable, StepRanges,
    StepsInOrder, SubmitsRecorded, Submitting, Unlocked, UsesPczt
<1>4. ASSUME NEW c \in Callers, Prepare(c) PROVE SubmitsRecorded'
  BY <1>i, <1>t, <1>4, GotoFields DEF Early, EarlyIsClean, HandedIsStored,
    Outputs, PcztPlaces, Prepare, Selectable, SpentOf, StepRanges,
    StepsInOrder, SubmitsRecorded, Submitting, Unlocked, UsesPczt
<1>5. ASSUME NEW c \in Callers, CreatePczt(c) PROVE SubmitsRecorded'
  BY <1>i, <1>t, <1>5, GotoFields DEF CreatePczt, Early, EarlyIsClean,
    HandedIsStored, LockedBy, PcztPlaces, Selectable, StepRanges,
    StepsInOrder, SubmitsRecorded, Submitting, UsesPczt
<1>6. ASSUME NEW c \in Callers, Acknowledge(c) PROVE SubmitsRecorded'
  BY <1>i, <1>t, <1>6, MarkFields DEF Acknowledge, Early, EarlyIsClean,
    HandedIsStored, PcztPlaces, StepRanges, StepsInOrder, SubmitsRecorded,
    Submitting, UsesPczt
<1>7. ASSUME NEW c \in Callers, ReleaseUnacknowledged(c) PROVE SubmitsRecorded'
  BY <1>i, <1>t, <1>7 DEF Early, EarlyIsClean, HandedIsStored, PcztPlaces,
    ReleaseUnacknowledged, StepRanges, StepsInOrder, SubmitsRecorded,
    Submitting, Unlocked, UnlockedBy, UsesPczt
<1>8. ASSUME NEW c \in Callers, Authorize(c) PROVE SubmitsRecorded'
  BY <1>i, <1>t, <1>8, SignFields DEF Authorize, Early, EarlyIsClean,
    HandedIsStored, PcztPlaces, StepRanges, StepsInOrder, SubmitsRecorded,
    Submitting, UsesPczt
<1>9. ASSUME NEW c \in Callers, Extract(c) PROVE SubmitsRecorded'
  BY <1>i, <1>t, <1>9, MarkFields DEF AfterExtractError, Early, EarlyIsClean,
    Extract, Extracted, HandedIsStored, PcztPlaces, SpentOf, StepRanges,
    StepsInOrder, SubmitsRecorded, Submitting, Unlocked, UsesPczt
<1>10. ASSUME NEW c \in Callers, FacilitatorSubmits(c) PROVE SubmitsRecorded'
  BY <1>i, <1>t, <1>10, GotoFields DEF Early, EarlyIsClean,
    FacilitatorSubmits, HandedIsStored, PcztPlaces, StepRanges, StepsInOrder,
    SubmitsRecorded, Submitting, UsesPczt
<1>11. ASSUME NEW c \in Callers, Abandon(c) PROVE SubmitsRecorded'
  BY <1>i, <1>t, <1>11, MarkFields DEF Abandon, Early, EarlyIsClean,
    HandedIsStored, PcztPlaces, StepRanges, StepsInOrder, SubmitsRecorded,
    Submitting, Unlocked, UnlockedBy, UsesPczt
<1>12. ASSUME NEW c \in Callers, RecordPending(c) PROVE SubmitsRecorded'
  BY <1>i, <1>t, <1>12, GotoFields DEF Current, Early, EarlyIsClean,
    HandedIsStored, PcztPlaces, RecordPending, StepRanges, StepsInOrder,
    SubmitsRecorded, Submitting, UsesPczt
<1>13. ASSUME NEW c \in Callers, Attempt(c) PROVE SubmitsRecorded'
  BY <1>i, <1>t, <1>13 DEF Attempt, Current, Early, EarlyIsClean,
    HandedIsStored, PcztPlaces, StepRanges, StepsInOrder, SubmitsRecorded,
    Submitting, UsesPczt
<1>14. ASSUME NEW c \in Callers, SubmitAccepted(c) PROVE SubmitsRecorded'
  BY <1>i, <1>t, <1>14, GotoFields, AdvanceFields DEF Current, Early,
    EarlyIsClean, HandedIsStored, PcztPlaces, StepRanges, StepsInOrder,
    SubmitAccepted, SubmitsRecorded, Submitting, UsesPczt
<1>15. ASSUME NEW c \in Callers, ClearPending(c) PROVE SubmitsRecorded'
  BY <1>i, <1>t, <1>15, GotoFields DEF ClearPending, Current, Early,
    EarlyIsClean, HandedIsStored, PcztPlaces, StepRanges, StepsInOrder,
    SubmitsRecorded, Submitting, UsesPczt
<1>16. ASSUME NEW c \in Callers, Record(c) PROVE SubmitsRecorded'
  BY <1>i, <1>t, <1>16, RecordFields DEF Early, EarlyIsClean, HandedIsStored,
    PcztPlaces, StepRanges, StepsInOrder, SubmitsRecorded, Submitting,
    UsesPczt
<1>17. ASSUME NEW c \in Callers, Moves(c) PROVE SubmitsRecorded'
  BY <1>i, <1>t, <1>17, MovesFields DEF Early, EarlyIsClean, HandedIsStored,
    PcztPlaces, StepRanges, StepsInOrder, SubmitsRecorded, Submitting,
    UsesPczt
<1>18. ASSUME Crash PROVE SubmitsRecorded'
  BY <1>i, <1>t, <1>18, DeathFields DEF Crash, Early, EarlyIsClean,
    HandedIsStored, PcztPlaces, StepRanges, StepsInOrder, SubmitsRecorded,
    Submitting, UsesPczt
<1>19. ASSUME NewBlock PROVE SubmitsRecorded'
  BY <1>i, <1>t, <1>19 DEF Early, EarlyIsClean, HandedIsStored, Less,
    NewBlock, PcztPlaces, StepRanges, StepsInOrder, SubmitsRecorded,
    Submitting, Tick, Unlocked, UsesPczt
<1>20. ASSUME NEW t \in Txs, Mine(t) PROVE SubmitsRecorded'
  BY <1>i, <1>t, <1>20 DEF Early, EarlyIsClean, HandedIsStored, Mine,
    PcztPlaces, StepRanges, StepsInOrder, SubmitsRecorded, Submitting,
    UsesPczt
<1>21. ASSUME NEW t \in Txs, RetirePending(t) PROVE SubmitsRecorded'
  BY <1>i, <1>t, <1>21 DEF Early, EarlyIsClean, HandedIsStored, PcztPlaces,
    RetirePending, StepRanges, StepsInOrder, SubmitsRecorded, Submitting,
    UsesPczt
<1>22. CASE UNCHANGED vars
  BY <1>i, <1>22 DEF Early, EarlyIsClean, HandedIsStored, PcztPlaces,
    StepRanges, StepsInOrder, SubmitsRecorded, Submitting, UsesPczt, vars
<1> QED
  BY <1>1, <1>2, <1>3, <1>4, <1>5, <1>6, <1>7, <1>8, <1>9, <1>10, <1>11,
    <1>12, <1>13, <1>14, <1>15, <1>16, <1>17, <1>18, <1>19, <1>20, <1>21,
    <1>22 DEF Next, CallerStep, Moves

(* A call takes no more steps than its proposal has. *)
LEMMA StepsInOrderStep ==
  ASSUME SpendingInv, [Next]_vars
  PROVE  StepsInOrder'
<1>c. CallType /\ CallType'
  BY StepTypes DEF TypeOK, CallType, SpendingInv
<1>i. TypeOK /\ StepsInOrder /\ EarlyIsClean
  BY DEF SpendingInv
<1>t. StepRanges
  BY <1>c DEF CallType, CallRecords, StepRanges
<1> USE SpendingAssumption, <1>c DEF TypeOK, SameCall, dbVars, pcztVars, chainVars, ActorFree,
        Terminal
<1>1. ASSUME NEW c \in Callers, Begin(c) PROVE StepsInOrder'
  <2>1. call[c].step = 1
    BY <1>i, <1>1, BeginFields DEF EarlyIsClean, Early
  <2> QED
    BY <1>i, <1>t, <1>1, <2>1, BeginFields DEF StepsInOrder, StepRanges
<1>2. ASSUME NEW c \in Callers, Lookup(c) PROVE StepsInOrder'
  BY <1>i, <1>t, <1>2, LookupFields DEF ActorFree, Early, EarlyIsClean,
    StepRanges, StepsInOrder
<1>3. ASSUME NEW c \in Callers, ProposalLeaks(c) PROVE StepsInOrder'
  BY <1>i, <1>t, <1>3, GotoFields DEF Early, EarlyIsClean, LockedBy,
    ProposalLeaks, Selectable, StepRanges, StepsInOrder, Unlocked
<1>4. ASSUME NEW c \in Callers, Prepare(c) PROVE StepsInOrder'
  BY <1>i, <1>t, <1>4, GotoFields DEF Early, EarlyIsClean, Outputs, Prepare,
    Selectable, SpentOf, StepRanges, StepsInOrder, Unlocked, UsesPczt
<1>5. ASSUME NEW c \in Callers, CreatePczt(c) PROVE StepsInOrder'
  BY <1>i, <1>t, <1>5, GotoFields DEF CreatePczt, Early, EarlyIsClean,
    LockedBy, Selectable, StepRanges, StepsInOrder, UsesPczt
<1>6. ASSUME NEW c \in Callers, Acknowledge(c) PROVE StepsInOrder'
  BY <1>i, <1>t, <1>6, MarkFields DEF Acknowledge, Early, EarlyIsClean,
    StepRanges, StepsInOrder
<1>7. ASSUME NEW c \in Callers, ReleaseUnacknowledged(c) PROVE StepsInOrder'
  BY <1>i, <1>t, <1>7 DEF Early, EarlyIsClean, ReleaseUnacknowledged,
    StepRanges, StepsInOrder, Unlocked, UnlockedBy
<1>8. ASSUME NEW c \in Callers, Authorize(c) PROVE StepsInOrder'
  BY <1>i, <1>t, <1>8, SignFields DEF Authorize, Early, EarlyIsClean,
    StepRanges, StepsInOrder
<1>9. ASSUME NEW c \in Callers, Extract(c) PROVE StepsInOrder'
  BY <1>i, <1>t, <1>9, MarkFields DEF AfterExtractError, Early, EarlyIsClean,
    Extract, Extracted, SpentOf, StepRanges, StepsInOrder, Unlocked
<1>10. ASSUME NEW c \in Callers, FacilitatorSubmits(c) PROVE StepsInOrder'
  BY <1>i, <1>t, <1>10, GotoFields DEF Early, EarlyIsClean,
    FacilitatorSubmits, StepRanges, StepsInOrder
<1>11. ASSUME NEW c \in Callers, Abandon(c) PROVE StepsInOrder'
  BY <1>i, <1>t, <1>11, MarkFields DEF Abandon, Early, EarlyIsClean,
    StepRanges, StepsInOrder, Unlocked, UnlockedBy
<1>12. ASSUME NEW c \in Callers, RecordPending(c) PROVE StepsInOrder'
  BY <1>i, <1>t, <1>12, GotoFields DEF Current, Early, EarlyIsClean,
    RecordPending, StepRanges, StepsInOrder
<1>13. ASSUME NEW c \in Callers, Attempt(c) PROVE StepsInOrder'
  BY <1>i, <1>t, <1>13 DEF Attempt, Current, Early, EarlyIsClean, StepRanges,
    StepsInOrder
<1>14. ASSUME NEW c \in Callers, SubmitAccepted(c) PROVE StepsInOrder'
  BY <1>i, <1>t, <1>14, GotoFields, AdvanceFields DEF Current, Early,
    EarlyIsClean, StepRanges, StepsInOrder, SubmitAccepted
<1>15. ASSUME NEW c \in Callers, ClearPending(c) PROVE StepsInOrder'
  BY <1>i, <1>t, <1>15, GotoFields DEF ClearPending, Current, Early,
    EarlyIsClean, StepRanges, StepsInOrder
<1>16. ASSUME NEW c \in Callers, Record(c) PROVE StepsInOrder'
  BY <1>i, <1>t, <1>16, RecordFields DEF Early, EarlyIsClean, StepRanges,
    StepsInOrder
<1>17. ASSUME NEW c \in Callers, Moves(c) PROVE StepsInOrder'
  BY <1>i, <1>t, <1>17, MovesFields DEF Early, EarlyIsClean, StepRanges,
    StepsInOrder
<1>18. ASSUME Crash PROVE StepsInOrder'
  BY <1>i, <1>t, <1>18, DeathFields DEF Crash, Early, EarlyIsClean,
    StepRanges, StepsInOrder
<1>19. ASSUME NewBlock PROVE StepsInOrder'
  BY <1>i, <1>t, <1>19 DEF Early, EarlyIsClean, Less, NewBlock, StepRanges,
    StepsInOrder, Tick, Unlocked
<1>20. ASSUME NEW t \in Txs, Mine(t) PROVE StepsInOrder'
  BY <1>i, <1>t, <1>20 DEF Early, EarlyIsClean, Mine, StepRanges, StepsInOrder
<1>21. ASSUME NEW t \in Txs, RetirePending(t) PROVE StepsInOrder'
  BY <1>i, <1>t, <1>21 DEF Early, EarlyIsClean, RetirePending, StepRanges,
    StepsInOrder
<1>22. CASE UNCHANGED vars
  BY <1>i, <1>22 DEF Early, EarlyIsClean, StepRanges, StepsInOrder, vars
<1> QED
  BY <1>1, <1>2, <1>3, <1>4, <1>5, <1>6, <1>7, <1>8, <1>9, <1>10, <1>11,
    <1>12, <1>13, <1>14, <1>15, <1>16, <1>17, <1>18, <1>19, <1>20, <1>21,
    <1>22 DEF Next, CallerStep, Moves

(* A call that began under a bound key ends at its lookup. *)
LEMMA LateStopsAtLookupStep ==
  ASSUME SpendingInv, [Next]_vars
  PROVE  LateStopsAtLookup'
<1>c. CallType /\ CallType'
  BY StepTypes DEF TypeOK, CallType, SpendingInv
<1>i. TypeOK /\ LateStopsAtLookup /\ PcztPlaces
  BY DEF SpendingInv
<1> USE SpendingAssumption, <1>c DEF TypeOK, SameCall, dbVars, pcztVars, chainVars, ActorFree,
        Terminal
<1>1. ASSUME NEW c \in Callers, Begin(c) PROVE LateStopsAtLookup'
  BY <1>i, <1>1, BeginFields DEF LateStopsAtLookup, PcztPlaces, UsesPczt
<1>2. ASSUME NEW c \in Callers, Lookup(c) PROVE LateStopsAtLookup'
  BY <1>i, <1>2, LookupFields DEF ActorFree, LateStopsAtLookup, PcztPlaces,
    UsesPczt
<1>3. ASSUME NEW c \in Callers, ProposalLeaks(c) PROVE LateStopsAtLookup'
  BY <1>i, <1>3, GotoFields DEF LateStopsAtLookup, LockedBy, PcztPlaces,
    ProposalLeaks, Selectable, Unlocked, UsesPczt
<1>4. ASSUME NEW c \in Callers, Prepare(c) PROVE LateStopsAtLookup'
  BY <1>i, <1>4, GotoFields DEF LateStopsAtLookup, Outputs, PcztPlaces,
    Prepare, Selectable, SpentOf, Unlocked, UsesPczt
<1>5. ASSUME NEW c \in Callers, CreatePczt(c) PROVE LateStopsAtLookup'
  BY <1>i, <1>5, GotoFields DEF CreatePczt, LateStopsAtLookup, LockedBy,
    PcztPlaces, Selectable, UsesPczt
<1>6. ASSUME NEW c \in Callers, Acknowledge(c) PROVE LateStopsAtLookup'
  BY <1>i, <1>6, MarkFields DEF Acknowledge, LateStopsAtLookup, PcztPlaces,
    UsesPczt
<1>7. ASSUME NEW c \in Callers, ReleaseUnacknowledged(c) PROVE LateStopsAtLookup'
  BY <1>i, <1>7 DEF LateStopsAtLookup, PcztPlaces, ReleaseUnacknowledged,
    Unlocked, UnlockedBy, UsesPczt
<1>8. ASSUME NEW c \in Callers, Authorize(c) PROVE LateStopsAtLookup'
  BY <1>i, <1>8, SignFields DEF Authorize, LateStopsAtLookup, PcztPlaces,
    UsesPczt
<1>9. ASSUME NEW c \in Callers, Extract(c) PROVE LateStopsAtLookup'
  BY <1>i, <1>9, MarkFields DEF AfterExtractError, Extract, Extracted,
    LateStopsAtLookup, PcztPlaces, SpentOf, Unlocked, UsesPczt
<1>10. ASSUME NEW c \in Callers, FacilitatorSubmits(c) PROVE LateStopsAtLookup'
  BY <1>i, <1>10, GotoFields DEF FacilitatorSubmits, LateStopsAtLookup,
    PcztPlaces, UsesPczt
<1>11. ASSUME NEW c \in Callers, Abandon(c) PROVE LateStopsAtLookup'
  BY <1>i, <1>11, MarkFields DEF Abandon, LateStopsAtLookup, PcztPlaces,
    Unlocked, UnlockedBy, UsesPczt
<1>12. ASSUME NEW c \in Callers, RecordPending(c) PROVE LateStopsAtLookup'
  BY <1>i, <1>12, GotoFields DEF Current, LateStopsAtLookup, PcztPlaces,
    RecordPending, UsesPczt
<1>13. ASSUME NEW c \in Callers, Attempt(c) PROVE LateStopsAtLookup'
  BY <1>i, <1>13 DEF Attempt, Current, LateStopsAtLookup, PcztPlaces, UsesPczt
<1>14. ASSUME NEW c \in Callers, SubmitAccepted(c) PROVE LateStopsAtLookup'
  BY <1>i, <1>14, GotoFields, AdvanceFields DEF Current, LateStopsAtLookup,
    PcztPlaces, SubmitAccepted, UsesPczt
<1>15. ASSUME NEW c \in Callers, ClearPending(c) PROVE LateStopsAtLookup'
  BY <1>i, <1>15, GotoFields DEF ClearPending, Current, LateStopsAtLookup,
    PcztPlaces, UsesPczt
<1>16. ASSUME NEW c \in Callers, Record(c) PROVE LateStopsAtLookup'
  <2>1. SameCall(c) /\ call'[c].at \in Terminal /\ call'[c].marks = call[c].marks
    BY <1>i, <1>16, RecordFields
  <2>2. \A k \in Keys : ledger[k] # Nobody => ledger'[k] # Nobody
    BY <1>i, <1>16, RecordFields
  <2>3. \A d \in Callers : call[d].key \in Keys
    BY <1>c DEF CallType, CallRecords
  <2> QED
    BY <1>i, <2>1, <2>2, <2>3 DEF LateStopsAtLookup
<1>17. ASSUME NEW c \in Callers, Moves(c) PROVE LateStopsAtLookup'
  BY <1>i, <1>17, MovesFields DEF LateStopsAtLookup, PcztPlaces, UsesPczt
<1>18. ASSUME Crash PROVE LateStopsAtLookup'
  BY <1>i, <1>18, DeathFields DEF Crash, LateStopsAtLookup, PcztPlaces,
    UsesPczt
<1>19. ASSUME NewBlock PROVE LateStopsAtLookup'
  BY <1>i, <1>19 DEF LateStopsAtLookup, Less, NewBlock, PcztPlaces, Tick,
    Unlocked, UsesPczt
<1>20. ASSUME NEW t \in Txs, Mine(t) PROVE LateStopsAtLookup'
  BY <1>i, <1>20 DEF LateStopsAtLookup, Mine, PcztPlaces, UsesPczt
<1>21. ASSUME NEW t \in Txs, RetirePending(t) PROVE LateStopsAtLookup'
  BY <1>i, <1>21 DEF LateStopsAtLookup, PcztPlaces, RetirePending, UsesPczt
<1>22. CASE UNCHANGED vars
  BY <1>i, <1>22 DEF LateStopsAtLookup, PcztPlaces, UsesPczt, vars
<1> QED
  BY <1>1, <1>2, <1>3, <1>4, <1>5, <1>6, <1>7, <1>8, <1>9, <1>10, <1>11,
    <1>12, <1>13, <1>14, <1>15, <1>16, <1>17, <1>18, <1>19, <1>20, <1>21,
    <1>22 DEF Next, CallerStep, Moves

(* A call that answered is done. *)
LEMMA AnsweredIsDoneStep ==
  ASSUME SpendingInv, [Next]_vars
  PROVE  AnsweredIsDone'
<1>c. CallType /\ CallType'
  BY StepTypes DEF TypeOK, CallType, SpendingInv
<1>i. TypeOK /\ AnsweredIsDone
  BY DEF SpendingInv
<1> USE SpendingAssumption, <1>c DEF TypeOK, SameCall, dbVars, pcztVars, chainVars, ActorFree,
        Terminal
<1>1. ASSUME NEW c \in Callers, Begin(c) PROVE AnsweredIsDone'
  BY <1>i, <1>1, BeginFields DEF AnsweredIsDone
<1>2. ASSUME NEW c \in Callers, Lookup(c) PROVE AnsweredIsDone'
  BY <1>i, <1>2, LookupFields DEF ActorFree, AnsweredIsDone
<1>3. ASSUME NEW c \in Callers, ProposalLeaks(c) PROVE AnsweredIsDone'
  BY <1>i, <1>3, GotoFields DEF AnsweredIsDone, LockedBy, ProposalLeaks,
    Selectable, Unlocked
<1>4. ASSUME NEW c \in Callers, Prepare(c) PROVE AnsweredIsDone'
  BY <1>i, <1>4, GotoFields DEF AnsweredIsDone, Outputs, Prepare, Selectable,
    SpentOf, Unlocked, UsesPczt
<1>5. ASSUME NEW c \in Callers, CreatePczt(c) PROVE AnsweredIsDone'
  BY <1>i, <1>5, GotoFields DEF AnsweredIsDone, CreatePczt, LockedBy,
    Selectable, UsesPczt
<1>6. ASSUME NEW c \in Callers, Acknowledge(c) PROVE AnsweredIsDone'
  BY <1>i, <1>6, MarkFields DEF Acknowledge, AnsweredIsDone
<1>7. ASSUME NEW c \in Callers, ReleaseUnacknowledged(c) PROVE AnsweredIsDone'
  BY <1>i, <1>7 DEF AnsweredIsDone, ReleaseUnacknowledged, Unlocked,
    UnlockedBy
<1>8. ASSUME NEW c \in Callers, Authorize(c) PROVE AnsweredIsDone'
  BY <1>i, <1>8, SignFields DEF AnsweredIsDone, Authorize
<1>9. ASSUME NEW c \in Callers, Extract(c) PROVE AnsweredIsDone'
  BY <1>i, <1>9, MarkFields DEF AfterExtractError, AnsweredIsDone, Extract,
    Extracted, SpentOf, Unlocked
<1>10. ASSUME NEW c \in Callers, FacilitatorSubmits(c) PROVE AnsweredIsDone'
  BY <1>i, <1>10, GotoFields DEF AnsweredIsDone, FacilitatorSubmits
<1>11. ASSUME NEW c \in Callers, Abandon(c) PROVE AnsweredIsDone'
  BY <1>i, <1>11, MarkFields DEF Abandon, AnsweredIsDone, Unlocked, UnlockedBy
<1>12. ASSUME NEW c \in Callers, RecordPending(c) PROVE AnsweredIsDone'
  BY <1>i, <1>12, GotoFields DEF AnsweredIsDone, Current, RecordPending
<1>13. ASSUME NEW c \in Callers, Attempt(c) PROVE AnsweredIsDone'
  BY <1>i, <1>13 DEF AnsweredIsDone, Attempt, Current
<1>14. ASSUME NEW c \in Callers, SubmitAccepted(c) PROVE AnsweredIsDone'
  BY <1>i, <1>14, GotoFields, AdvanceFields DEF AnsweredIsDone, Current,
    SubmitAccepted
<1>15. ASSUME NEW c \in Callers, ClearPending(c) PROVE AnsweredIsDone'
  BY <1>i, <1>15, GotoFields DEF AnsweredIsDone, ClearPending, Current
<1>16. ASSUME NEW c \in Callers, Record(c) PROVE AnsweredIsDone'
  BY <1>i, <1>16, RecordFields DEF AnsweredIsDone
<1>17. ASSUME NEW c \in Callers, Moves(c) PROVE AnsweredIsDone'
  BY <1>i, <1>17, MovesFields DEF AnsweredIsDone
<1>18. ASSUME Crash PROVE AnsweredIsDone'
  BY <1>i, <1>18, DeathFields DEF AnsweredIsDone, Crash
<1>19. ASSUME NewBlock PROVE AnsweredIsDone'
  BY <1>i, <1>19 DEF AnsweredIsDone, Less, NewBlock, Tick, Unlocked
<1>20. ASSUME NEW t \in Txs, Mine(t) PROVE AnsweredIsDone'
  BY <1>i, <1>20 DEF AnsweredIsDone, Mine
<1>21. ASSUME NEW t \in Txs, RetirePending(t) PROVE AnsweredIsDone'
  BY <1>i, <1>21 DEF AnsweredIsDone, RetirePending
<1>22. CASE UNCHANGED vars
  BY <1>i, <1>22 DEF AnsweredIsDone, vars
<1> QED
  BY <1>1, <1>2, <1>3, <1>4, <1>5, <1>6, <1>7, <1>8, <1>9, <1>10, <1>11,
    <1>12, <1>13, <1>14, <1>15, <1>16, <1>17, <1>18, <1>19, <1>20, <1>21,
    <1>22 DEF Next, CallerStep, Moves

(* Recorded, then on the wire, then acknowledged or mined. *)
LEMMA NetworkOrderStep ==
  ASSUME SpendingInv, [Next]_vars
  PROVE  NetworkOrder'
<1>c. CallType /\ CallType'
  BY StepTypes DEF TypeOK, CallType, SpendingInv
<1>i. TypeOK /\ NetworkOrder /\ SubmitsRecorded /\ StepsInOrder /\ HandedIsStored
  BY DEF SpendingInv
<1>t. StepRanges
  BY <1>c DEF CallType, CallRecords, StepRanges
<1> USE SpendingAssumption, <1>c DEF TypeOK, SameCall, dbVars, pcztVars, chainVars, ActorFree,
        Terminal
<1>1. ASSUME NEW c \in Callers, Begin(c) PROVE NetworkOrder'
  BY <1>i, <1>t, <1>1, BeginFields DEF Current, HandedIsStored, NetworkOrder,
    StepRanges, StepsInOrder, SubmitsRecorded, Submitting
<1>2. ASSUME NEW c \in Callers, Lookup(c) PROVE NetworkOrder'
  BY <1>i, <1>t, <1>2, LookupFields DEF ActorFree, Current, HandedIsStored,
    NetworkOrder, StepRanges, StepsInOrder, SubmitsRecorded, Submitting
<1>3. ASSUME NEW c \in Callers, ProposalLeaks(c) PROVE NetworkOrder'
  BY <1>i, <1>t, <1>3, GotoFields DEF Current, HandedIsStored, LockedBy,
    NetworkOrder, ProposalLeaks, Selectable, StepRanges, StepsInOrder,
    SubmitsRecorded, Submitting, Unlocked
<1>4. ASSUME NEW c \in Callers, Prepare(c) PROVE NetworkOrder'
  BY <1>i, <1>t, <1>4, GotoFields DEF Current, HandedIsStored, NetworkOrder,
    Outputs, Prepare, Selectable, SpentOf, StepRanges, StepsInOrder,
    SubmitsRecorded, Submitting, Unlocked, UsesPczt
<1>5. ASSUME NEW c \in Callers, CreatePczt(c) PROVE NetworkOrder'
  BY <1>i, <1>t, <1>5, GotoFields DEF CreatePczt, Current, HandedIsStored,
    LockedBy, NetworkOrder, Selectable, StepRanges, StepsInOrder,
    SubmitsRecorded, Submitting, UsesPczt
<1>6. ASSUME NEW c \in Callers, Acknowledge(c) PROVE NetworkOrder'
  BY <1>i, <1>t, <1>6, MarkFields DEF Acknowledge, Current, HandedIsStored,
    NetworkOrder, StepRanges, StepsInOrder, SubmitsRecorded, Submitting
<1>7. ASSUME NEW c \in Callers, ReleaseUnacknowledged(c) PROVE NetworkOrder'
  BY <1>i, <1>t, <1>7 DEF Current, HandedIsStored, NetworkOrder,
    ReleaseUnacknowledged, StepRanges, StepsInOrder, SubmitsRecorded,
    Submitting, Unlocked, UnlockedBy
<1>8. ASSUME NEW c \in Callers, Authorize(c) PROVE NetworkOrder'
  BY <1>i, <1>t, <1>8, SignFields DEF Authorize, Current, HandedIsStored,
    NetworkOrder, StepRanges, StepsInOrder, SubmitsRecorded, Submitting
<1>9. ASSUME NEW c \in Callers, Extract(c) PROVE NetworkOrder'
  BY <1>i, <1>t, <1>9, MarkFields DEF AfterExtractError, Current, Extract,
    Extracted, HandedIsStored, NetworkOrder, SpentOf, StepRanges,
    StepsInOrder, SubmitsRecorded, Submitting, Unlocked
<1>10. ASSUME NEW c \in Callers, FacilitatorSubmits(c) PROVE NetworkOrder'
  BY <1>i, <1>t, <1>10, GotoFields DEF Current, FacilitatorSubmits,
    HandedIsStored, NetworkOrder, StepRanges, StepsInOrder, SubmitsRecorded,
    Submitting
<1>11. ASSUME NEW c \in Callers, Abandon(c) PROVE NetworkOrder'
  BY <1>i, <1>t, <1>11, MarkFields DEF Abandon, Current, HandedIsStored,
    NetworkOrder, StepRanges, StepsInOrder, SubmitsRecorded, Submitting,
    Unlocked, UnlockedBy
<1>12. ASSUME NEW c \in Callers, RecordPending(c) PROVE NetworkOrder'
  BY <1>i, <1>t, <1>12, GotoFields DEF Current, HandedIsStored, NetworkOrder,
    RecordPending, StepRanges, StepsInOrder, SubmitsRecorded, Submitting
<1>13. ASSUME NEW c \in Callers, Attempt(c) PROVE NetworkOrder'
  <2>1. <<c, 1>> \in stored /\ (call[c].steps = 2 => <<c, 2>> \in stored)
    BY <1>i, <1>13 DEF Attempt, SubmitsRecorded, Submitting
  <2>2. call[c].step = 1 \/ (call[c].step = 2 /\ call[c].steps = 2)
    BY <1>i, <1>t DEF StepsInOrder, StepRanges
  <2>3. Current(c) \in stored
    BY <2>1, <2>2 DEF Current
  <2> QED
    BY <1>i, <1>13, <2>3 DEF NetworkOrder, Attempt
<1>14. ASSUME NEW c \in Callers, SubmitAccepted(c) PROVE NetworkOrder'
  BY <1>i, <1>t, <1>14, GotoFields, AdvanceFields DEF Current,
    HandedIsStored, NetworkOrder, StepRanges, StepsInOrder, SubmitAccepted,
    SubmitsRecorded, Submitting
<1>15. ASSUME NEW c \in Callers, ClearPending(c) PROVE NetworkOrder'
  BY <1>i, <1>t, <1>15, GotoFields DEF ClearPending, Current, HandedIsStored,
    NetworkOrder, StepRanges, StepsInOrder, SubmitsRecorded, Submitting
<1>16. ASSUME NEW c \in Callers, Record(c) PROVE NetworkOrder'
  BY <1>i, <1>t, <1>16, RecordFields DEF Current, HandedIsStored,
    NetworkOrder, StepRanges, StepsInOrder, SubmitsRecorded, Submitting
<1>17. ASSUME NEW c \in Callers, Moves(c) PROVE NetworkOrder'
  BY <1>i, <1>t, <1>17, MovesFields DEF Current, HandedIsStored,
    NetworkOrder, StepRanges, StepsInOrder, SubmitsRecorded, Submitting
<1>18. ASSUME Crash PROVE NetworkOrder'
  BY <1>i, <1>t, <1>18, DeathFields DEF Crash, Current, HandedIsStored,
    NetworkOrder, StepRanges, StepsInOrder, SubmitsRecorded, Submitting
<1>19. ASSUME NewBlock PROVE NetworkOrder'
  BY <1>i, <1>t, <1>19 DEF Current, HandedIsStored, Less, NetworkOrder,
    NewBlock, StepRanges, StepsInOrder, SubmitsRecorded, Submitting, Tick,
    Unlocked
<1>20. ASSUME NEW t \in Txs, Mine(t) PROVE NetworkOrder'
  BY <1>i, <1>t, <1>20 DEF Current, HandedIsStored, Mine, NetworkOrder,
    StepRanges, StepsInOrder, SubmitsRecorded, Submitting
<1>21. ASSUME NEW t \in Txs, RetirePending(t) PROVE NetworkOrder'
  BY <1>i, <1>t, <1>21 DEF Current, HandedIsStored, NetworkOrder,
    RetirePending, StepRanges, StepsInOrder, SubmitsRecorded, Submitting
<1>22. CASE UNCHANGED vars
  BY <1>i, <1>22 DEF Current, HandedIsStored, NetworkOrder, StepRanges,
    StepsInOrder, SubmitsRecorded, Submitting, vars
<1> QED
  BY <1>1, <1>2, <1>3, <1>4, <1>5, <1>6, <1>7, <1>8, <1>9, <1>10, <1>11,
    <1>12, <1>13, <1>14, <1>15, <1>16, <1>17, <1>18, <1>19, <1>20, <1>21,
    <1>22 DEF Next, CallerStep, Moves

(* A second transaction follows the acknowledgement of the first. *)
LEMMA EarlierStepsAckedStep ==
  ASSUME SpendingInv, [Next]_vars
  PROVE  EarlierStepsAcked'
<1>c. CallType /\ CallType'
  BY StepTypes DEF TypeOK, CallType, SpendingInv
<1>i. TypeOK /\ EarlierStepsAcked /\ EarlyIsClean /\ StepsInOrder /\ PcztPlaces
  BY DEF SpendingInv
<1>t. StepRanges
  BY <1>c DEF CallType, CallRecords, StepRanges
<1> USE SpendingAssumption, <1>c DEF TypeOK, SameCall, dbVars, pcztVars, chainVars, ActorFree,
        Terminal
<1>1. ASSUME NEW c \in Callers, Begin(c) PROVE EarlierStepsAcked'
  BY <1>i, <1>t, <1>1, BeginFields DEF Current, EarlierStepsAcked, Early,
    EarlyIsClean, PcztPlaces, StepRanges, StepsInOrder, UsesPczt
<1>2. ASSUME NEW c \in Callers, Lookup(c) PROVE EarlierStepsAcked'
  BY <1>i, <1>t, <1>2, LookupFields DEF ActorFree, Current,
    EarlierStepsAcked, Early, EarlyIsClean, PcztPlaces, StepRanges,
    StepsInOrder, UsesPczt
<1>3. ASSUME NEW c \in Callers, ProposalLeaks(c) PROVE EarlierStepsAcked'
  BY <1>i, <1>t, <1>3, GotoFields DEF Current, EarlierStepsAcked, Early,
    EarlyIsClean, LockedBy, PcztPlaces, ProposalLeaks, Selectable,
    StepRanges, StepsInOrder, Unlocked, UsesPczt
<1>4. ASSUME NEW c \in Callers, Prepare(c) PROVE EarlierStepsAcked'
  <2>1. call[c].step = 1 /\ UNCHANGED acked
    BY <1>i, <1>4 DEF Prepare, EarlyIsClean, Early
  <2>2. PICK at : Goto(c, at)
    BY <1>4 DEF Prepare
  <2> QED
    BY <1>i, <2>1, <2>2, GotoFields DEF EarlierStepsAcked
<1>5. ASSUME NEW c \in Callers, CreatePczt(c) PROVE EarlierStepsAcked'
  BY <1>i, <1>t, <1>5, GotoFields DEF CreatePczt, Current, EarlierStepsAcked,
    Early, EarlyIsClean, LockedBy, PcztPlaces, Selectable, StepRanges,
    StepsInOrder, UsesPczt
<1>6. ASSUME NEW c \in Callers, Acknowledge(c) PROVE EarlierStepsAcked'
  BY <1>i, <1>t, <1>6, MarkFields DEF Acknowledge, Current,
    EarlierStepsAcked, Early, EarlyIsClean, PcztPlaces, StepRanges,
    StepsInOrder, UsesPczt
<1>7. ASSUME NEW c \in Callers, ReleaseUnacknowledged(c) PROVE EarlierStepsAcked'
  BY <1>i, <1>t, <1>7 DEF Current, EarlierStepsAcked, Early, EarlyIsClean,
    PcztPlaces, ReleaseUnacknowledged, StepRanges, StepsInOrder, Unlocked,
    UnlockedBy, UsesPczt
<1>8. ASSUME NEW c \in Callers, Authorize(c) PROVE EarlierStepsAcked'
  BY <1>i, <1>t, <1>8, SignFields DEF Authorize, Current, EarlierStepsAcked,
    Early, EarlyIsClean, PcztPlaces, StepRanges, StepsInOrder, UsesPczt
<1>9. ASSUME NEW c \in Callers, Extract(c) PROVE EarlierStepsAcked'
  BY <1>i, <1>t, <1>9, MarkFields DEF AfterExtractError, Current,
    EarlierStepsAcked, Early, EarlyIsClean, Extract, Extracted, PcztPlaces,
    SpentOf, StepRanges, StepsInOrder, Unlocked, UsesPczt
<1>10. ASSUME NEW c \in Callers, FacilitatorSubmits(c) PROVE EarlierStepsAcked'
  BY <1>i, <1>t, <1>10, GotoFields DEF Current, EarlierStepsAcked, Early,
    EarlyIsClean, FacilitatorSubmits, PcztPlaces, StepRanges, StepsInOrder,
    UsesPczt
<1>11. ASSUME NEW c \in Callers, Abandon(c) PROVE EarlierStepsAcked'
  BY <1>i, <1>t, <1>11, MarkFields DEF Abandon, Current, EarlierStepsAcked,
    Early, EarlyIsClean, PcztPlaces, StepRanges, StepsInOrder, Unlocked,
    UnlockedBy, UsesPczt
<1>12. ASSUME NEW c \in Callers, RecordPending(c) PROVE EarlierStepsAcked'
  BY <1>i, <1>t, <1>12, GotoFields DEF Current, EarlierStepsAcked, Early,
    EarlyIsClean, PcztPlaces, RecordPending, StepRanges, StepsInOrder,
    UsesPczt
<1>13. ASSUME NEW c \in Callers, Attempt(c) PROVE EarlierStepsAcked'
  BY <1>i, <1>t, <1>13 DEF Attempt, Current, EarlierStepsAcked, Early,
    EarlyIsClean, PcztPlaces, StepRanges, StepsInOrder, UsesPczt
<1>14. ASSUME NEW c \in Callers, SubmitAccepted(c) PROVE EarlierStepsAcked'
  BY <1>i, <1>t, <1>14, GotoFields, AdvanceFields DEF Current,
    EarlierStepsAcked, Early, EarlyIsClean, PcztPlaces, StepRanges,
    StepsInOrder, SubmitAccepted, UsesPczt
<1>15. ASSUME NEW c \in Callers, ClearPending(c) PROVE EarlierStepsAcked'
  BY <1>i, <1>t, <1>15, GotoFields DEF ClearPending, Current,
    EarlierStepsAcked, Early, EarlyIsClean, PcztPlaces, StepRanges,
    StepsInOrder, UsesPczt
<1>16. ASSUME NEW c \in Callers, Record(c) PROVE EarlierStepsAcked'
  BY <1>i, <1>t, <1>16, RecordFields DEF Current, EarlierStepsAcked, Early,
    EarlyIsClean, PcztPlaces, StepRanges, StepsInOrder, UsesPczt
<1>17. ASSUME NEW c \in Callers, Moves(c) PROVE EarlierStepsAcked'
  BY <1>i, <1>t, <1>17, MovesFields DEF Current, EarlierStepsAcked, Early,
    EarlyIsClean, PcztPlaces, StepRanges, StepsInOrder, UsesPczt
<1>18. ASSUME Crash PROVE EarlierStepsAcked'
  BY <1>i, <1>t, <1>18, DeathFields DEF Crash, Current, EarlierStepsAcked,
    Early, EarlyIsClean, PcztPlaces, StepRanges, StepsInOrder, UsesPczt
<1>19. ASSUME NewBlock PROVE EarlierStepsAcked'
  BY <1>i, <1>t, <1>19 DEF Current, EarlierStepsAcked, Early, EarlyIsClean,
    Less, NewBlock, PcztPlaces, StepRanges, StepsInOrder, Tick, Unlocked,
    UsesPczt
<1>20. ASSUME NEW t \in Txs, Mine(t) PROVE EarlierStepsAcked'
  BY <1>i, <1>t, <1>20 DEF Current, EarlierStepsAcked, Early, EarlyIsClean,
    Mine, PcztPlaces, StepRanges, StepsInOrder, UsesPczt
<1>21. ASSUME NEW t \in Txs, RetirePending(t) PROVE EarlierStepsAcked'
  BY <1>i, <1>t, <1>21 DEF Current, EarlierStepsAcked, Early, EarlyIsClean,
    PcztPlaces, RetirePending, StepRanges, StepsInOrder, UsesPczt
<1>22. CASE UNCHANGED vars
  BY <1>i, <1>22 DEF Current, EarlierStepsAcked, Early, EarlyIsClean,
    PcztPlaces, StepRanges, StepsInOrder, UsesPczt, vars
<1> QED
  BY <1>1, <1>2, <1>3, <1>4, <1>5, <1>6, <1>7, <1>8, <1>9, <1>10, <1>11,
    <1>12, <1>13, <1>14, <1>15, <1>16, <1>17, <1>18, <1>19, <1>20, <1>21,
    <1>22 DEF Next, CallerStep, Moves

(* A call that records its key has all its acknowledgements. *)
LEMMA RecordsCompleteStep ==
  ASSUME SpendingInv, [Next]_vars
  PROVE  RecordsComplete'
<1>c. CallType /\ CallType'
  BY StepTypes DEF TypeOK, CallType, SpendingInv
<1>i. TypeOK /\ RecordsComplete /\ EarlierStepsAcked /\ StepsInOrder
  BY DEF SpendingInv
<1>t. StepRanges
  BY <1>c DEF CallType, CallRecords, StepRanges
<1> USE SpendingAssumption, <1>c DEF TypeOK, SameCall, dbVars, pcztVars, chainVars, ActorFree,
        Terminal
<1>1. ASSUME NEW c \in Callers, Begin(c) PROVE RecordsComplete'
  BY <1>i, <1>t, <1>1, BeginFields DEF Complete, Current, EarlierStepsAcked,
    RecordsComplete, StepRanges, StepsInOrder
<1>2. ASSUME NEW c \in Callers, Lookup(c) PROVE RecordsComplete'
  BY <1>i, <1>t, <1>2, LookupFields DEF ActorFree, Complete, Current,
    EarlierStepsAcked, RecordsComplete, StepRanges, StepsInOrder
<1>3. ASSUME NEW c \in Callers, ProposalLeaks(c) PROVE RecordsComplete'
  BY <1>i, <1>t, <1>3, GotoFields DEF Complete, Current, EarlierStepsAcked,
    LockedBy, ProposalLeaks, RecordsComplete, Selectable, StepRanges,
    StepsInOrder, Unlocked
<1>4. ASSUME NEW c \in Callers, Prepare(c) PROVE RecordsComplete'
  BY <1>i, <1>t, <1>4, GotoFields DEF Complete, Current, EarlierStepsAcked,
    Outputs, Prepare, RecordsComplete, Selectable, SpentOf, StepRanges,
    StepsInOrder, Unlocked, UsesPczt
<1>5. ASSUME NEW c \in Callers, CreatePczt(c) PROVE RecordsComplete'
  BY <1>i, <1>t, <1>5, GotoFields DEF Complete, CreatePczt, Current,
    EarlierStepsAcked, LockedBy, RecordsComplete, Selectable, StepRanges,
    StepsInOrder, UsesPczt
<1>6. ASSUME NEW c \in Callers, Acknowledge(c) PROVE RecordsComplete'
  BY <1>i, <1>t, <1>6, MarkFields DEF Acknowledge, Complete, Current,
    EarlierStepsAcked, RecordsComplete, StepRanges, StepsInOrder
<1>7. ASSUME NEW c \in Callers, ReleaseUnacknowledged(c) PROVE RecordsComplete'
  BY <1>i, <1>t, <1>7 DEF Complete, Current, EarlierStepsAcked,
    RecordsComplete, ReleaseUnacknowledged, StepRanges, StepsInOrder,
    Unlocked, UnlockedBy
<1>8. ASSUME NEW c \in Callers, Authorize(c) PROVE RecordsComplete'
  BY <1>i, <1>t, <1>8, SignFields DEF Authorize, Complete, Current,
    EarlierStepsAcked, RecordsComplete, StepRanges, StepsInOrder
<1>9. ASSUME NEW c \in Callers, Extract(c) PROVE RecordsComplete'
  BY <1>i, <1>t, <1>9, MarkFields DEF AfterExtractError, Complete, Current,
    EarlierStepsAcked, Extract, Extracted, RecordsComplete, SpentOf,
    StepRanges, StepsInOrder, Unlocked
<1>10. ASSUME NEW c \in Callers, FacilitatorSubmits(c) PROVE RecordsComplete'
  BY <1>i, <1>t, <1>10, GotoFields DEF Complete, Current, EarlierStepsAcked,
    FacilitatorSubmits, RecordsComplete, StepRanges, StepsInOrder
<1>11. ASSUME NEW c \in Callers, Abandon(c) PROVE RecordsComplete'
  BY <1>i, <1>t, <1>11, MarkFields DEF Abandon, Complete, Current,
    EarlierStepsAcked, RecordsComplete, StepRanges, StepsInOrder, Unlocked,
    UnlockedBy
<1>12. ASSUME NEW c \in Callers, RecordPending(c) PROVE RecordsComplete'
  BY <1>i, <1>t, <1>12, GotoFields DEF Complete, Current, EarlierStepsAcked,
    RecordPending, RecordsComplete, StepRanges, StepsInOrder
<1>13. ASSUME NEW c \in Callers, Attempt(c) PROVE RecordsComplete'
  BY <1>i, <1>t, <1>13 DEF Attempt, Complete, Current, EarlierStepsAcked,
    RecordsComplete, StepRanges, StepsInOrder
<1>14. ASSUME NEW c \in Callers, SubmitAccepted(c) PROVE RecordsComplete'
  BY <1>i, <1>t, <1>14, GotoFields, AdvanceFields DEF Complete, Current,
    EarlierStepsAcked, RecordsComplete, StepRanges, StepsInOrder,
    SubmitAccepted
<1>15. ASSUME NEW c \in Callers, ClearPending(c) PROVE RecordsComplete'
  BY <1>i, <1>t, <1>15, GotoFields DEF ClearPending, Complete, Current,
    EarlierStepsAcked, RecordsComplete, StepRanges, StepsInOrder
<1>16. ASSUME NEW c \in Callers, Record(c) PROVE RecordsComplete'
  BY <1>i, <1>t, <1>16, RecordFields DEF Complete, Current,
    EarlierStepsAcked, RecordsComplete, StepRanges, StepsInOrder
<1>17. ASSUME NEW c \in Callers, Moves(c) PROVE RecordsComplete'
  BY <1>i, <1>t, <1>17, MovesFields DEF Complete, Current, EarlierStepsAcked,
    RecordsComplete, StepRanges, StepsInOrder
<1>18. ASSUME Crash PROVE RecordsComplete'
  BY <1>i, <1>t, <1>18, DeathFields DEF Complete, Crash, Current,
    EarlierStepsAcked, RecordsComplete, StepRanges, StepsInOrder
<1>19. ASSUME NewBlock PROVE RecordsComplete'
  BY <1>i, <1>t, <1>19 DEF Complete, Current, EarlierStepsAcked, Less,
    NewBlock, RecordsComplete, StepRanges, StepsInOrder, Tick, Unlocked
<1>20. ASSUME NEW t \in Txs, Mine(t) PROVE RecordsComplete'
  BY <1>i, <1>t, <1>20 DEF Complete, Current, EarlierStepsAcked, Mine,
    RecordsComplete, StepRanges, StepsInOrder
<1>21. ASSUME NEW t \in Txs, RetirePending(t) PROVE RecordsComplete'
  BY <1>i, <1>t, <1>21 DEF Complete, Current, EarlierStepsAcked,
    RecordsComplete, RetirePending, StepRanges, StepsInOrder
<1>22. CASE UNCHANGED vars
  BY <1>i, <1>22 DEF Complete, Current, EarlierStepsAcked, RecordsComplete,
    StepRanges, StepsInOrder, vars
<1> QED
  BY <1>1, <1>2, <1>3, <1>4, <1>5, <1>6, <1>7, <1>8, <1>9, <1>10, <1>11,
    <1>12, <1>13, <1>14, <1>15, <1>16, <1>17, <1>18, <1>19, <1>20, <1>21,
    <1>22 DEF Next, CallerStep, Moves

(* A bound key names a completely acknowledged payment. *)
LEMMA BoundIsCompleteStep ==
  ASSUME SpendingInv, [Next]_vars
  PROVE  BoundIsComplete'
<1>c. CallType /\ CallType'
  BY StepTypes DEF TypeOK, CallType, SpendingInv
<1>i. TypeOK /\ BoundIsComplete /\ RecordsComplete
  BY DEF SpendingInv
<1>t. StepRanges
  BY <1>c DEF CallType, CallRecords, StepRanges
<1> USE SpendingAssumption, <1>c DEF TypeOK, SameCall, dbVars, pcztVars, chainVars, ActorFree,
        Terminal
<1>1. ASSUME NEW c \in Callers, Begin(c) PROVE BoundIsComplete'
  BY <1>i, <1>t, <1>1, BeginFields DEF BoundIsComplete, Complete, Current,
    Early, RecordsComplete, StepRanges
<1>2. ASSUME NEW c \in Callers, Lookup(c) PROVE BoundIsComplete'
  BY <1>i, <1>t, <1>2, LookupFields DEF ActorFree, BoundIsComplete, Complete,
    Current, Early, RecordsComplete, StepRanges
<1>3. ASSUME NEW c \in Callers, ProposalLeaks(c) PROVE BoundIsComplete'
  BY <1>i, <1>t, <1>3, GotoFields DEF BoundIsComplete, Complete, Current,
    Early, LockedBy, ProposalLeaks, RecordsComplete, Selectable, StepRanges,
    Unlocked
<1>4. ASSUME NEW c \in Callers, Prepare(c) PROVE BoundIsComplete'
  BY <1>i, <1>t, <1>4, GotoFields DEF BoundIsComplete, Complete, Current,
    Early, Outputs, Prepare, RecordsComplete, Selectable, SpentOf,
    StepRanges, Unlocked, UsesPczt
<1>5. ASSUME NEW c \in Callers, CreatePczt(c) PROVE BoundIsComplete'
  BY <1>i, <1>t, <1>5, GotoFields DEF BoundIsComplete, Complete, CreatePczt,
    Current, Early, LockedBy, RecordsComplete, Selectable, StepRanges,
    UsesPczt
<1>6. ASSUME NEW c \in Callers, Acknowledge(c) PROVE BoundIsComplete'
  BY <1>i, <1>t, <1>6, MarkFields DEF Acknowledge, BoundIsComplete, Complete,
    Current, Early, RecordsComplete, StepRanges
<1>7. ASSUME NEW c \in Callers, ReleaseUnacknowledged(c) PROVE BoundIsComplete'
  BY <1>i, <1>t, <1>7 DEF BoundIsComplete, Complete, Current, Early,
    RecordsComplete, ReleaseUnacknowledged, StepRanges, Unlocked, UnlockedBy
<1>8. ASSUME NEW c \in Callers, Authorize(c) PROVE BoundIsComplete'
  BY <1>i, <1>t, <1>8, SignFields DEF Authorize, BoundIsComplete, Complete,
    Current, Early, RecordsComplete, StepRanges
<1>9. ASSUME NEW c \in Callers, Extract(c) PROVE BoundIsComplete'
  BY <1>i, <1>t, <1>9, MarkFields DEF AfterExtractError, BoundIsComplete,
    Complete, Current, Early, Extract, Extracted, RecordsComplete, SpentOf,
    StepRanges, Unlocked
<1>10. ASSUME NEW c \in Callers, FacilitatorSubmits(c) PROVE BoundIsComplete'
  BY <1>i, <1>t, <1>10, GotoFields DEF BoundIsComplete, Complete, Current,
    Early, FacilitatorSubmits, RecordsComplete, StepRanges
<1>11. ASSUME NEW c \in Callers, Abandon(c) PROVE BoundIsComplete'
  <2>1. UNCHANGED <<ledger, acked>>
    BY <1>11 DEF Abandon
  <2>2. PICK at \in {"roles", "failed"} : Mark(c, at, {"abandoned"})
    BY <1>11 DEF Abandon
  <2> QED
    BY <1>i, <2>1, <2>2, MarkFields, BoundPayments DEF BoundIsComplete, Complete,
      Early
<1>12. ASSUME NEW c \in Callers, RecordPending(c) PROVE BoundIsComplete'
  BY <1>i, <1>t, <1>12, GotoFields DEF BoundIsComplete, Complete, Current,
    Early, RecordPending, RecordsComplete, StepRanges
<1>13. ASSUME NEW c \in Callers, Attempt(c) PROVE BoundIsComplete'
  BY <1>i, <1>t, <1>13 DEF Attempt, BoundIsComplete, Complete, Current,
    Early, RecordsComplete, StepRanges
<1>14. ASSUME NEW c \in Callers, SubmitAccepted(c) PROVE BoundIsComplete'
  BY <1>i, <1>t, <1>14, GotoFields, AdvanceFields DEF BoundIsComplete,
    Complete, Current, Early, RecordsComplete, StepRanges, SubmitAccepted
<1>15. ASSUME NEW c \in Callers, ClearPending(c) PROVE BoundIsComplete'
  BY <1>i, <1>t, <1>15, GotoFields DEF BoundIsComplete, ClearPending,
    Complete, Current, Early, RecordsComplete, StepRanges
<1>16. ASSUME NEW c \in Callers, Record(c) PROVE BoundIsComplete'
  <2>1. Complete(c) /\ SameCall(c) /\ call'[c].at \in Terminal /\ UNCHANGED acked
    BY <1>i, <1>16, RecordFields DEF RecordsComplete
  <2>2. \A k \in Keys : ledger'[k] \in {ledger[k], c}
    BY <1>i, <1>16, RecordFields
  <2>3. \A p \in Callers : Complete(p) => Complete(p)'
    BY <2>1 DEF Complete
  <2>4. \A p \in Callers : ~ Early(p) => ~ Early(p)'
    BY <2>1 DEF Early
  <2>5. ~ Early(c)'
    BY <2>1 DEF Early
  <2> QED
    BY <1>i, <2>1, <2>2, <2>3, <2>4, <2>5, BoundPayments DEF BoundIsComplete
<1>17. ASSUME NEW c \in Callers, Moves(c) PROVE BoundIsComplete'
  BY <1>i, <1>t, <1>17, MovesFields DEF BoundIsComplete, Complete, Current,
    Early, RecordsComplete, StepRanges
<1>18. ASSUME Crash PROVE BoundIsComplete'
  BY <1>i, <1>t, <1>18, DeathFields DEF BoundIsComplete, Complete, Crash,
    Current, Early, RecordsComplete, StepRanges
<1>19. ASSUME NewBlock PROVE BoundIsComplete'
  BY <1>i, <1>t, <1>19 DEF BoundIsComplete, Complete, Current, Early, Less,
    NewBlock, RecordsComplete, StepRanges, Tick, Unlocked
<1>20. ASSUME NEW t \in Txs, Mine(t) PROVE BoundIsComplete'
  BY <1>i, <1>t, <1>20 DEF BoundIsComplete, Complete, Current, Early, Mine,
    RecordsComplete, StepRanges
<1>21. ASSUME NEW t \in Txs, RetirePending(t) PROVE BoundIsComplete'
  BY <1>i, <1>t, <1>21 DEF BoundIsComplete, Complete, Current, Early,
    RecordsComplete, RetirePending, StepRanges
<1>22. CASE UNCHANGED vars
  BY <1>i, <1>22 DEF BoundIsComplete, Complete, Current, Early,
    RecordsComplete, StepRanges, vars
<1> QED
  BY <1>1, <1>2, <1>3, <1>4, <1>5, <1>6, <1>7, <1>8, <1>9, <1>10, <1>11,
    <1>12, <1>13, <1>14, <1>15, <1>16, <1>17, <1>18, <1>19, <1>20, <1>21,
    <1>22 DEF Next, CallerStep, Moves

(* The rows of a PCZT are inputs of its proposal. *)
LEMMA RowsArePickedStep ==
  ASSUME SpendingInv, [Next]_vars
  PROVE  RowsArePicked'
<1>c. CallType /\ CallType'
  BY StepTypes DEF TypeOK, CallType, SpendingInv
<1>i. TypeOK /\ RowsArePicked /\ EarlyIsClean
  BY DEF SpendingInv
<1> USE SpendingAssumption, <1>c DEF TypeOK, SameCall, dbVars, pcztVars, chainVars, ActorFree,
        Terminal
<1>1. ASSUME NEW c \in Callers, Begin(c) PROVE RowsArePicked'
  BY <1>i, <1>1, BeginFields DEF Early, EarlyIsClean, RowsArePicked
<1>2. ASSUME NEW c \in Callers, Lookup(c) PROVE RowsArePicked'
  BY <1>i, <1>2, LookupFields DEF ActorFree, Early, EarlyIsClean,
    RowsArePicked
<1>3. ASSUME NEW c \in Callers, ProposalLeaks(c) PROVE RowsArePicked'
  BY <1>i, <1>3, GotoFields DEF Early, EarlyIsClean, LockedBy, ProposalLeaks,
    RowsArePicked, Selectable, Unlocked
<1>4. ASSUME NEW c \in Callers, Prepare(c) PROVE RowsArePicked'
  <2>1. PICK os \in SUBSET Selectable(c) :
          picks' = [picks EXCEPT ![c] = os]
    BY <1>4 DEF Prepare
  <2>2. UNCHANGED rows /\ rows[c] = {}
    BY <1>i, <1>4 DEF Prepare, EarlyIsClean, Early
  <2> QED
    BY <1>i, <2>1, <2>2 DEF RowsArePicked
<1>5. ASSUME NEW c \in Callers, CreatePczt(c) PROVE RowsArePicked'
  BY <1>i, <1>5, GotoFields DEF CreatePczt, Early, EarlyIsClean, LockedBy,
    RowsArePicked, Selectable, UsesPczt
<1>6. ASSUME NEW c \in Callers, Acknowledge(c) PROVE RowsArePicked'
  BY <1>i, <1>6, MarkFields DEF Acknowledge, Early, EarlyIsClean,
    RowsArePicked
<1>7. ASSUME NEW c \in Callers, ReleaseUnacknowledged(c) PROVE RowsArePicked'
  BY <1>i, <1>7 DEF Early, EarlyIsClean, ReleaseUnacknowledged,
    RowsArePicked, Unlocked, UnlockedBy
<1>8. ASSUME NEW c \in Callers, Authorize(c) PROVE RowsArePicked'
  BY <1>i, <1>8, SignFields DEF Authorize, Early, EarlyIsClean, RowsArePicked
<1>9. ASSUME NEW c \in Callers, Extract(c) PROVE RowsArePicked'
  BY <1>i, <1>9, MarkFields DEF AfterExtractError, Early, EarlyIsClean,
    Extract, Extracted, RowsArePicked, SpentOf, Unlocked
<1>10. ASSUME NEW c \in Callers, FacilitatorSubmits(c) PROVE RowsArePicked'
  BY <1>i, <1>10, GotoFields DEF Early, EarlyIsClean, FacilitatorSubmits,
    RowsArePicked
<1>11. ASSUME NEW c \in Callers, Abandon(c) PROVE RowsArePicked'
  BY <1>i, <1>11, MarkFields DEF Abandon, Early, EarlyIsClean, RowsArePicked,
    Unlocked, UnlockedBy
<1>12. ASSUME NEW c \in Callers, RecordPending(c) PROVE RowsArePicked'
  BY <1>i, <1>12, GotoFields DEF Current, Early, EarlyIsClean, RecordPending,
    RowsArePicked
<1>13. ASSUME NEW c \in Callers, Attempt(c) PROVE RowsArePicked'
  BY <1>i, <1>13 DEF Attempt, Current, Early, EarlyIsClean, RowsArePicked
<1>14. ASSUME NEW c \in Callers, SubmitAccepted(c) PROVE RowsArePicked'
  BY <1>i, <1>14, GotoFields, AdvanceFields DEF Current, Early, EarlyIsClean,
    RowsArePicked, SubmitAccepted
<1>15. ASSUME NEW c \in Callers, ClearPending(c) PROVE RowsArePicked'
  BY <1>i, <1>15, GotoFields DEF ClearPending, Current, Early, EarlyIsClean,
    RowsArePicked
<1>16. ASSUME NEW c \in Callers, Record(c) PROVE RowsArePicked'
  BY <1>i, <1>16, RecordFields DEF Early, EarlyIsClean, RowsArePicked
<1>17. ASSUME NEW c \in Callers, Moves(c) PROVE RowsArePicked'
  BY <1>i, <1>17, MovesFields DEF Early, EarlyIsClean, RowsArePicked
<1>18. ASSUME Crash PROVE RowsArePicked'
  BY <1>i, <1>18, DeathFields DEF Crash, Early, EarlyIsClean, RowsArePicked
<1>19. ASSUME NewBlock PROVE RowsArePicked'
  BY <1>i, <1>19 DEF Early, EarlyIsClean, Less, NewBlock, RowsArePicked,
    Tick, Unlocked
<1>20. ASSUME NEW t \in Txs, Mine(t) PROVE RowsArePicked'
  BY <1>i, <1>20 DEF Early, EarlyIsClean, Mine, RowsArePicked
<1>21. ASSUME NEW t \in Txs, RetirePending(t) PROVE RowsArePicked'
  BY <1>i, <1>21 DEF Early, EarlyIsClean, RetirePending, RowsArePicked
<1>22. CASE UNCHANGED vars
  BY <1>i, <1>22 DEF Early, EarlyIsClean, RowsArePicked, vars
<1> QED
  BY <1>1, <1>2, <1>3, <1>4, <1>5, <1>6, <1>7, <1>8, <1>9, <1>10, <1>11,
    <1>12, <1>13, <1>14, <1>15, <1>16, <1>17, <1>18, <1>19, <1>20, <1>21,
    <1>22 DEF Next, CallerStep, Moves

(* Only shielding spends transparent outputs. *)
LEMMA ShieldOnlyStep ==
  ASSUME SpendingInv, [Next]_vars
  PROVE  ShieldOnly'
<1>c. CallType /\ CallType'
  BY StepTypes DEF TypeOK, CallType, SpendingInv
<1>i. TypeOK /\ ShieldOnly /\ EarlyIsClean
  BY DEF SpendingInv
<1> USE SpendingAssumption, <1>c DEF TypeOK, SameCall, dbVars, pcztVars, chainVars, ActorFree,
        Terminal
<1>1. ASSUME NEW c \in Callers, Begin(c) PROVE ShieldOnly'
  <2>1. picks[c] = {} /\ UNCHANGED picks
    BY <1>i, <1>1, BeginFields DEF EarlyIsClean, Early
  <2>2. \A d \in Callers : d # c => call'[d] = call[d]
    BY <1>1, BeginFields
  <2> QED
    BY <1>i, <2>1, <2>2 DEF ShieldOnly
<1>2. ASSUME NEW c \in Callers, Lookup(c) PROVE ShieldOnly'
  BY <1>i, <1>2, LookupFields DEF ActorFree, Early, EarlyIsClean, ShieldOnly
<1>3. ASSUME NEW c \in Callers, ProposalLeaks(c) PROVE ShieldOnly'
  BY <1>i, <1>3, GotoFields DEF Early, EarlyIsClean, LockedBy, ProposalLeaks,
    Selectable, ShieldOnly, Unlocked
<1>4. ASSUME NEW c \in Callers, Prepare(c) PROVE ShieldOnly'
  BY <1>i, <1>4, GotoFields DEF Early, EarlyIsClean, Outputs, Prepare,
    Selectable, ShieldOnly, SpentOf, Unlocked, UsesPczt
<1>5. ASSUME NEW c \in Callers, CreatePczt(c) PROVE ShieldOnly'
  BY <1>i, <1>5, GotoFields DEF CreatePczt, Early, EarlyIsClean, LockedBy,
    Selectable, ShieldOnly, UsesPczt
<1>6. ASSUME NEW c \in Callers, Acknowledge(c) PROVE ShieldOnly'
  BY <1>i, <1>6, MarkFields DEF Acknowledge, Early, EarlyIsClean, ShieldOnly
<1>7. ASSUME NEW c \in Callers, ReleaseUnacknowledged(c) PROVE ShieldOnly'
  BY <1>i, <1>7 DEF Early, EarlyIsClean, ReleaseUnacknowledged, ShieldOnly,
    Unlocked, UnlockedBy
<1>8. ASSUME NEW c \in Callers, Authorize(c) PROVE ShieldOnly'
  BY <1>i, <1>8, SignFields DEF Authorize, Early, EarlyIsClean, ShieldOnly
<1>9. ASSUME NEW c \in Callers, Extract(c) PROVE ShieldOnly'
  <2>1. UNCHANGED picks /\ \E at : Extracted(c, at)
    BY <1>9 DEF Extract
  <2> QED
    BY <1>i, <2>1, MarkFields DEF ShieldOnly, Extracted
<1>10. ASSUME NEW c \in Callers, FacilitatorSubmits(c) PROVE ShieldOnly'
  BY <1>i, <1>10, GotoFields DEF Early, EarlyIsClean, FacilitatorSubmits,
    ShieldOnly
<1>11. ASSUME NEW c \in Callers, Abandon(c) PROVE ShieldOnly'
  BY <1>i, <1>11, MarkFields DEF Abandon, Early, EarlyIsClean, ShieldOnly,
    Unlocked, UnlockedBy
<1>12. ASSUME NEW c \in Callers, RecordPending(c) PROVE ShieldOnly'
  BY <1>i, <1>12, GotoFields DEF Current, Early, EarlyIsClean, RecordPending,
    ShieldOnly
<1>13. ASSUME NEW c \in Callers, Attempt(c) PROVE ShieldOnly'
  BY <1>i, <1>13 DEF Attempt, Current, Early, EarlyIsClean, ShieldOnly
<1>14. ASSUME NEW c \in Callers, SubmitAccepted(c) PROVE ShieldOnly'
  <2>1. UNCHANGED picks /\ (Advance(c) \/ \E at : Goto(c, at))
    BY <1>14 DEF SubmitAccepted
  <2> QED
    BY <1>i, <2>1, GotoFields, AdvanceFields DEF ShieldOnly
<1>15. ASSUME NEW c \in Callers, ClearPending(c) PROVE ShieldOnly'
  BY <1>i, <1>15, GotoFields DEF ClearPending, Current, Early, EarlyIsClean,
    ShieldOnly
<1>16. ASSUME NEW c \in Callers, Record(c) PROVE ShieldOnly'
  BY <1>i, <1>16, RecordFields DEF Early, EarlyIsClean, ShieldOnly
<1>17. ASSUME NEW c \in Callers, Moves(c) PROVE ShieldOnly'
  BY <1>i, <1>17, MovesFields DEF Early, EarlyIsClean, ShieldOnly
<1>18. ASSUME Crash PROVE ShieldOnly'
  BY <1>i, <1>18, DeathFields DEF Crash, Early, EarlyIsClean, ShieldOnly
<1>19. ASSUME NewBlock PROVE ShieldOnly'
  BY <1>i, <1>19 DEF Early, EarlyIsClean, Less, NewBlock, ShieldOnly, Tick,
    Unlocked
<1>20. ASSUME NEW t \in Txs, Mine(t) PROVE ShieldOnly'
  BY <1>i, <1>20 DEF Early, EarlyIsClean, Mine, ShieldOnly
<1>21. ASSUME NEW t \in Txs, RetirePending(t) PROVE ShieldOnly'
  BY <1>i, <1>21 DEF Early, EarlyIsClean, RetirePending, ShieldOnly
<1>22. CASE UNCHANGED vars
  BY <1>i, <1>22 DEF Early, EarlyIsClean, ShieldOnly, vars
<1> QED
  BY <1>1, <1>2, <1>3, <1>4, <1>5, <1>6, <1>7, <1>8, <1>9, <1>10, <1>11,
    <1>12, <1>13, <1>14, <1>15, <1>16, <1>17, <1>18, <1>19, <1>20, <1>21,
    <1>22 DEF Next, CallerStep, Moves

(* While the actor waits for a call, the rows cover its locks. *)
LEMMA AwaitedRowsStep ==
  ASSUME SpendingInv, [Next]_vars
  PROVE  AwaitedRows'
<1>c. CallType /\ CallType'
  BY StepTypes DEF TypeOK, CallType, SpendingInv
<1>i. TypeOK /\ AwaitedRows /\ LocksTaken /\ EarlyIsClean /\ AwaitedIsUntaken
  BY DEF SpendingInv
<1> USE SpendingAssumption, <1>c DEF TypeOK, SameCall, dbVars, pcztVars, chainVars, ActorFree,
        Terminal
<1>1. ASSUME NEW c \in Callers, Begin(c) PROVE AwaitedRows'
  BY <1>i, <1>1, BeginFields DEF AwaitedIsUntaken, AwaitedRows, Early,
    EarlyIsClean, LocksTaken
<1>2. ASSUME NEW c \in Callers, Lookup(c) PROVE AwaitedRows'
  BY <1>i, <1>2, LookupFields DEF ActorFree, AwaitedIsUntaken, AwaitedRows,
    Early, EarlyIsClean, LocksTaken
<1>3. ASSUME NEW c \in Callers, ProposalLeaks(c) PROVE AwaitedRows'
  BY <1>i, <1>3, GotoFields DEF AwaitedIsUntaken, AwaitedRows, Early,
    EarlyIsClean, LockedBy, LocksTaken, ProposalLeaks, Selectable, Unlocked
<1>4. ASSUME NEW c \in Callers, Prepare(c) PROVE AwaitedRows'
  BY <1>i, <1>4, GotoFields DEF AwaitedIsUntaken, AwaitedRows, Early,
    EarlyIsClean, LocksTaken, Outputs, Prepare, Selectable, SpentOf,
    Unlocked, UsesPczt
<1>5. ASSUME NEW c \in Callers, CreatePczt(c) PROVE AwaitedRows'
  <2>1. PICK os \in SUBSET Selectable(c) :
          /\ \A o \in os : Free(o)
          /\ locks' = LockedBy(c, os) /\ rows' = [rows EXCEPT ![c] = os]
    BY <1>5 DEF CreatePczt
  <2>2. awaiting = Nobody /\ awaiting' = c /\ c \notin leaked /\ rows[c] = {}
    BY <1>i, <1>5 DEF CreatePczt, EarlyIsClean, Early
  <2>3. \A o \in Outputs : locks[o].by # c
    BY <1>i, <2>2 DEF LocksTaken
  <2> QED
    BY <1>i, <2>1, <2>2, <2>3 DEF AwaitedRows, LockedBy
<1>6. ASSUME NEW c \in Callers, Acknowledge(c) PROVE AwaitedRows'
  BY <1>i, <1>6, MarkFields DEF Acknowledge, AwaitedIsUntaken, AwaitedRows,
    Early, EarlyIsClean, LocksTaken
<1>7. ASSUME NEW c \in Callers, ReleaseUnacknowledged(c) PROVE AwaitedRows'
  BY <1>i, <1>7 DEF AwaitedIsUntaken, AwaitedRows, Early, EarlyIsClean,
    LocksTaken, ReleaseUnacknowledged, Unlocked, UnlockedBy
<1>8. ASSUME NEW c \in Callers, Authorize(c) PROVE AwaitedRows'
  BY <1>i, <1>8, SignFields DEF Authorize, AwaitedIsUntaken, AwaitedRows,
    Early, EarlyIsClean, LocksTaken
<1>9. ASSUME NEW c \in Callers, Extract(c) PROVE AwaitedRows'
  BY <1>i, <1>9, MarkFields DEF AfterExtractError, AwaitedIsUntaken,
    AwaitedRows, Early, EarlyIsClean, Extract, Extracted, LocksTaken,
    SpentOf, Unlocked
<1>10. ASSUME NEW c \in Callers, FacilitatorSubmits(c) PROVE AwaitedRows'
  BY <1>i, <1>10, GotoFields DEF AwaitedIsUntaken, AwaitedRows, Early,
    EarlyIsClean, FacilitatorSubmits, LocksTaken
<1>11. ASSUME NEW c \in Callers, Abandon(c) PROVE AwaitedRows'
  BY <1>i, <1>11, MarkFields DEF Abandon, AwaitedIsUntaken, AwaitedRows,
    Early, EarlyIsClean, LocksTaken, Unlocked, UnlockedBy
<1>12. ASSUME NEW c \in Callers, RecordPending(c) PROVE AwaitedRows'
  BY <1>i, <1>12, GotoFields DEF AwaitedIsUntaken, AwaitedRows, Current,
    Early, EarlyIsClean, LocksTaken, RecordPending
<1>13. ASSUME NEW c \in Callers, Attempt(c) PROVE AwaitedRows'
  BY <1>i, <1>13 DEF Attempt, AwaitedIsUntaken, AwaitedRows, Current, Early,
    EarlyIsClean, LocksTaken
<1>14. ASSUME NEW c \in Callers, SubmitAccepted(c) PROVE AwaitedRows'
  BY <1>i, <1>14, GotoFields, AdvanceFields DEF AwaitedIsUntaken,
    AwaitedRows, Current, Early, EarlyIsClean, LocksTaken, SubmitAccepted
<1>15. ASSUME NEW c \in Callers, ClearPending(c) PROVE AwaitedRows'
  BY <1>i, <1>15, GotoFields DEF AwaitedIsUntaken, AwaitedRows, ClearPending,
    Current, Early, EarlyIsClean, LocksTaken
<1>16. ASSUME NEW c \in Callers, Record(c) PROVE AwaitedRows'
  BY <1>i, <1>16, RecordFields DEF AwaitedIsUntaken, AwaitedRows, Early,
    EarlyIsClean, LocksTaken
<1>17. ASSUME NEW c \in Callers, Moves(c) PROVE AwaitedRows'
  BY <1>i, <1>17, MovesFields DEF AwaitedIsUntaken, AwaitedRows, Early,
    EarlyIsClean, LocksTaken
<1>18. ASSUME Crash PROVE AwaitedRows'
  BY <1>i, <1>18, DeathFields DEF AwaitedIsUntaken, AwaitedRows, Crash,
    Early, EarlyIsClean, LocksTaken
<1>19. ASSUME NewBlock PROVE AwaitedRows'
  BY <1>i, <1>19 DEF AwaitedIsUntaken, AwaitedRows, Early, EarlyIsClean,
    Less, LocksTaken, NewBlock, Tick, Unlocked
<1>20. ASSUME NEW t \in Txs, Mine(t) PROVE AwaitedRows'
  BY <1>i, <1>20 DEF AwaitedIsUntaken, AwaitedRows, Early, EarlyIsClean,
    LocksTaken, Mine
<1>21. ASSUME NEW t \in Txs, RetirePending(t) PROVE AwaitedRows'
  BY <1>i, <1>21 DEF AwaitedIsUntaken, AwaitedRows, Early, EarlyIsClean,
    LocksTaken, RetirePending
<1>22. CASE UNCHANGED vars
  BY <1>i, <1>22 DEF AwaitedIsUntaken, AwaitedRows, Early, EarlyIsClean,
    LocksTaken, vars
<1> QED
  BY <1>1, <1>2, <1>3, <1>4, <1>5, <1>6, <1>7, <1>8, <1>9, <1>10, <1>11,
    <1>12, <1>13, <1>14, <1>15, <1>16, <1>17, <1>18, <1>19, <1>20, <1>21,
    <1>22 DEF Next, CallerStep, Moves

(* A lock nobody waits for is in the rows of a call that took its PCZT. *)
LEMMA LocksTakenStep ==
  ASSUME SpendingInv, [Next]_vars
  PROVE  LocksTaken'
<1>c. CallType /\ CallType'
  BY StepTypes DEF TypeOK, CallType, SpendingInv
<1>i. TypeOK /\ LocksTaken /\ AwaitedRows /\ EarlyIsClean /\ AwaitedIsUntaken /\ PcztPlaces /\ TakenPlaces /\ RowsArePicked
  BY DEF SpendingInv
<1> USE SpendingAssumption, <1>c DEF TypeOK, SameCall, dbVars, pcztVars, chainVars, ActorFree,
        Terminal
<1>1. ASSUME NEW c \in Callers, Begin(c) PROVE LocksTaken'
  <2>1. \A d \in Callers : d # c => call'[d] = call[d]
    BY <1>i, <1>1, BeginFields
  <2>2. rows[c] = {} /\ "taken" \notin call[c].marks
    BY <1>i, <1>1, BeginFields DEF EarlyIsClean, Early
  <2>3. UNCHANGED <<locks, rows, awaiting, leaked>>
    BY <1>i, <1>1, BeginFields
  <2>4. \A o \in Outputs : locks[o].by = c => awaiting = c \/ c \in leaked
    BY <1>i, <2>2 DEF LocksTaken
  <2> QED
    BY <1>i, <2>1, <2>3, <2>4 DEF LocksTaken
<1>2. ASSUME NEW c \in Callers, Lookup(c) PROVE LocksTaken'
  BY <1>i, <1>2, LookupFields DEF ActorFree, AwaitedIsUntaken, AwaitedRows,
    Early, EarlyIsClean, LocksTaken, PcztPlaces, RowsArePicked, TakenPlaces,
    UsesPczt
<1>3. ASSUME NEW c \in Callers, ProposalLeaks(c) PROVE LocksTaken'
  BY <1>i, <1>3, GotoFields DEF AwaitedIsUntaken, AwaitedRows, Early,
    EarlyIsClean, LockedBy, LocksTaken, PcztPlaces, ProposalLeaks,
    RowsArePicked, Selectable, TakenPlaces, Unlocked, UsesPczt
<1>4. ASSUME NEW c \in Callers, Prepare(c) PROVE LocksTaken'
  BY <1>i, <1>4, GotoFields DEF AwaitedIsUntaken, AwaitedRows, Early,
    EarlyIsClean, LocksTaken, Outputs, PcztPlaces, Prepare, RowsArePicked,
    Selectable, SpentOf, TakenPlaces, Unlocked, UsesPczt
<1>5. ASSUME NEW c \in Callers, CreatePczt(c) PROVE LocksTaken'
  BY <1>i, <1>5, GotoFields DEF AwaitedIsUntaken, AwaitedRows, CreatePczt,
    Early, EarlyIsClean, LockedBy, LocksTaken, PcztPlaces, RowsArePicked,
    Selectable, TakenPlaces, UsesPczt
<1>6. ASSUME NEW c \in Callers, Acknowledge(c) PROVE LocksTaken'
  BY <1>i, <1>6, MarkFields DEF Acknowledge, AwaitedIsUntaken, AwaitedRows,
    Early, EarlyIsClean, LocksTaken, PcztPlaces, RowsArePicked, TakenPlaces,
    UsesPczt
<1>7. ASSUME NEW c \in Callers, ReleaseUnacknowledged(c) PROVE LocksTaken'
  BY <1>i, <1>7 DEF AwaitedIsUntaken, AwaitedRows, Early, EarlyIsClean,
    LocksTaken, PcztPlaces, ReleaseUnacknowledged, RowsArePicked,
    TakenPlaces, Unlocked, UnlockedBy, UsesPczt
<1>8. ASSUME NEW c \in Callers, Authorize(c) PROVE LocksTaken'
  BY <1>i, <1>8, SignFields DEF Authorize, AwaitedIsUntaken, AwaitedRows,
    Early, EarlyIsClean, LocksTaken, PcztPlaces, RowsArePicked, TakenPlaces,
    UsesPczt
<1>9. ASSUME NEW c \in Callers, Extract(c) PROVE LocksTaken'
  BY <1>i, <1>9, MarkFields DEF AfterExtractError, AwaitedIsUntaken,
    AwaitedRows, Early, EarlyIsClean, Extract, Extracted, LocksTaken,
    PcztPlaces, RowsArePicked, SpentOf, TakenPlaces, Unlocked, UsesPczt
<1>10. ASSUME NEW c \in Callers, FacilitatorSubmits(c) PROVE LocksTaken'
  BY <1>i, <1>10, GotoFields DEF AwaitedIsUntaken, AwaitedRows, Early,
    EarlyIsClean, FacilitatorSubmits, LocksTaken, PcztPlaces, RowsArePicked,
    TakenPlaces, UsesPczt
<1>11. ASSUME NEW c \in Callers, Abandon(c) PROVE LocksTaken'
  BY <1>i, <1>11, MarkFields DEF Abandon, AwaitedIsUntaken, AwaitedRows,
    Early, EarlyIsClean, LocksTaken, PcztPlaces, RowsArePicked, TakenPlaces,
    Unlocked, UnlockedBy, UsesPczt
<1>12. ASSUME NEW c \in Callers, RecordPending(c) PROVE LocksTaken'
  BY <1>i, <1>12, GotoFields DEF AwaitedIsUntaken, AwaitedRows, Current,
    Early, EarlyIsClean, LocksTaken, PcztPlaces, RecordPending,
    RowsArePicked, TakenPlaces, UsesPczt
<1>13. ASSUME NEW c \in Callers, Attempt(c) PROVE LocksTaken'
  BY <1>i, <1>13 DEF Attempt, AwaitedIsUntaken, AwaitedRows, Current, Early,
    EarlyIsClean, LocksTaken, PcztPlaces, RowsArePicked, TakenPlaces, UsesPczt
<1>14. ASSUME NEW c \in Callers, SubmitAccepted(c) PROVE LocksTaken'
  BY <1>i, <1>14, GotoFields, AdvanceFields DEF AwaitedIsUntaken,
    AwaitedRows, Current, Early, EarlyIsClean, LocksTaken, PcztPlaces,
    RowsArePicked, SubmitAccepted, TakenPlaces, UsesPczt
<1>15. ASSUME NEW c \in Callers, ClearPending(c) PROVE LocksTaken'
  BY <1>i, <1>15, GotoFields DEF AwaitedIsUntaken, AwaitedRows, ClearPending,
    Current, Early, EarlyIsClean, LocksTaken, PcztPlaces, RowsArePicked,
    TakenPlaces, UsesPczt
<1>16. ASSUME NEW c \in Callers, Record(c) PROVE LocksTaken'
  BY <1>i, <1>16, RecordFields DEF AwaitedIsUntaken, AwaitedRows, Early,
    EarlyIsClean, LocksTaken, PcztPlaces, RowsArePicked, TakenPlaces, UsesPczt
<1>17. ASSUME NEW c \in Callers, Moves(c) PROVE LocksTaken'
  BY <1>i, <1>17, MovesFields DEF AwaitedIsUntaken, AwaitedRows, Early,
    EarlyIsClean, LocksTaken, PcztPlaces, RowsArePicked, TakenPlaces, UsesPczt
<1>18. ASSUME Crash PROVE LocksTaken'
  BY <1>i, <1>18, DeathFields DEF AwaitedIsUntaken, AwaitedRows, Crash,
    Early, EarlyIsClean, LocksTaken, PcztPlaces, RowsArePicked, TakenPlaces,
    UsesPczt
<1>19. ASSUME NewBlock PROVE LocksTaken'
  BY <1>i, <1>19 DEF AwaitedIsUntaken, AwaitedRows, Early, EarlyIsClean,
    Less, LocksTaken, NewBlock, PcztPlaces, RowsArePicked, TakenPlaces, Tick,
    Unlocked, UsesPczt
<1>20. ASSUME NEW t \in Txs, Mine(t) PROVE LocksTaken'
  BY <1>i, <1>20 DEF AwaitedIsUntaken, AwaitedRows, Early, EarlyIsClean,
    LocksTaken, Mine, PcztPlaces, RowsArePicked, TakenPlaces, UsesPczt
<1>21. ASSUME NEW t \in Txs, RetirePending(t) PROVE LocksTaken'
  BY <1>i, <1>21 DEF AwaitedIsUntaken, AwaitedRows, Early, EarlyIsClean,
    LocksTaken, PcztPlaces, RetirePending, RowsArePicked, TakenPlaces,
    UsesPczt
<1>22. CASE UNCHANGED vars
  BY <1>i, <1>22 DEF AwaitedIsUntaken, AwaitedRows, Early, EarlyIsClean,
    LocksTaken, PcztPlaces, RowsArePicked, TakenPlaces, UsesPczt, vars
<1> QED
  BY <1>1, <1>2, <1>3, <1>4, <1>5, <1>6, <1>7, <1>8, <1>9, <1>10, <1>11,
    <1>12, <1>13, <1>14, <1>15, <1>16, <1>17, <1>18, <1>19, <1>20, <1>21,
    <1>22 DEF Next, CallerStep, Moves

(* And so are the rows. *)
LEMMA RowsTakenStep ==
  ASSUME SpendingInv, [Next]_vars
  PROVE  RowsTaken'
<1>c. CallType /\ CallType'
  BY StepTypes DEF TypeOK, CallType, SpendingInv
<1>i. TypeOK /\ RowsTaken /\ EarlyIsClean /\ AwaitedIsUntaken /\ PcztPlaces /\ TakenPlaces
  BY DEF SpendingInv
<1> USE SpendingAssumption, <1>c DEF TypeOK, SameCall, dbVars, pcztVars, chainVars, ActorFree,
        Terminal
<1>1. ASSUME NEW c \in Callers, Begin(c) PROVE RowsTaken'
  <2>1. rows[c] = {} /\ UNCHANGED <<rows, awaiting, leaked>>
    BY <1>i, <1>1, BeginFields DEF EarlyIsClean, Early
  <2>2. \A d \in Callers : d # c => call'[d] = call[d]
    BY <1>1, BeginFields
  <2> QED
    BY <1>i, <2>1, <2>2 DEF RowsTaken
<1>2. ASSUME NEW c \in Callers, Lookup(c) PROVE RowsTaken'
  BY <1>i, <1>2, LookupFields DEF ActorFree, AwaitedIsUntaken, Early,
    EarlyIsClean, PcztPlaces, RowsTaken, TakenPlaces, UsesPczt
<1>3. ASSUME NEW c \in Callers, ProposalLeaks(c) PROVE RowsTaken'
  BY <1>i, <1>3, GotoFields DEF AwaitedIsUntaken, Early, EarlyIsClean,
    LockedBy, PcztPlaces, ProposalLeaks, RowsTaken, Selectable, TakenPlaces,
    Unlocked, UsesPczt
<1>4. ASSUME NEW c \in Callers, Prepare(c) PROVE RowsTaken'
  BY <1>i, <1>4, GotoFields DEF AwaitedIsUntaken, Early, EarlyIsClean,
    Outputs, PcztPlaces, Prepare, RowsTaken, Selectable, SpentOf,
    TakenPlaces, Unlocked, UsesPczt
<1>5. ASSUME NEW c \in Callers, CreatePczt(c) PROVE RowsTaken'
  <2>1. \A d \in Callers : d # c => rows'[d] = rows[d] /\ call'[d] = call[d]
    BY <1>5, GotoFields DEF CreatePczt
  <2>2. awaiting = Nobody /\ awaiting' = c /\ UNCHANGED leaked
    BY <1>5 DEF CreatePczt
  <2> QED
    BY <1>i, <2>1, <2>2 DEF RowsTaken
<1>6. ASSUME NEW c \in Callers, Acknowledge(c) PROVE RowsTaken'
  BY <1>i, <1>6, MarkFields DEF Acknowledge, AwaitedIsUntaken, Early,
    EarlyIsClean, PcztPlaces, RowsTaken, TakenPlaces, UsesPczt
<1>7. ASSUME NEW c \in Callers, ReleaseUnacknowledged(c) PROVE RowsTaken'
  BY <1>i, <1>7 DEF AwaitedIsUntaken, Early, EarlyIsClean, PcztPlaces,
    ReleaseUnacknowledged, RowsTaken, TakenPlaces, Unlocked, UnlockedBy,
    UsesPczt
<1>8. ASSUME NEW c \in Callers, Authorize(c) PROVE RowsTaken'
  BY <1>i, <1>8, SignFields DEF Authorize, AwaitedIsUntaken, Early,
    EarlyIsClean, PcztPlaces, RowsTaken, TakenPlaces, UsesPczt
<1>9. ASSUME NEW c \in Callers, Extract(c) PROVE RowsTaken'
  BY <1>i, <1>9, MarkFields DEF AfterExtractError, AwaitedIsUntaken, Early,
    EarlyIsClean, Extract, Extracted, PcztPlaces, RowsTaken, SpentOf,
    TakenPlaces, Unlocked, UsesPczt
<1>10. ASSUME NEW c \in Callers, FacilitatorSubmits(c) PROVE RowsTaken'
  BY <1>i, <1>10, GotoFields DEF AwaitedIsUntaken, Early, EarlyIsClean,
    FacilitatorSubmits, PcztPlaces, RowsTaken, TakenPlaces, UsesPczt
<1>11. ASSUME NEW c \in Callers, Abandon(c) PROVE RowsTaken'
  BY <1>i, <1>11, MarkFields DEF Abandon, AwaitedIsUntaken, Early,
    EarlyIsClean, PcztPlaces, RowsTaken, TakenPlaces, Unlocked, UnlockedBy,
    UsesPczt
<1>12. ASSUME NEW c \in Callers, RecordPending(c) PROVE RowsTaken'
  BY <1>i, <1>12, GotoFields DEF AwaitedIsUntaken, Current, Early,
    EarlyIsClean, PcztPlaces, RecordPending, RowsTaken, TakenPlaces, UsesPczt
<1>13. ASSUME NEW c \in Callers, Attempt(c) PROVE RowsTaken'
  BY <1>i, <1>13 DEF Attempt, AwaitedIsUntaken, Current, Early, EarlyIsClean,
    PcztPlaces, RowsTaken, TakenPlaces, UsesPczt
<1>14. ASSUME NEW c \in Callers, SubmitAccepted(c) PROVE RowsTaken'
  <2>1. UNCHANGED <<rows, awaiting, leaked>> /\ (Advance(c) \/ \E at : Goto(c, at))
    BY <1>14 DEF SubmitAccepted
  <2> QED
    BY <1>i, <2>1, GotoFields, AdvanceFields DEF RowsTaken
<1>15. ASSUME NEW c \in Callers, ClearPending(c) PROVE RowsTaken'
  BY <1>i, <1>15, GotoFields DEF AwaitedIsUntaken, ClearPending, Current,
    Early, EarlyIsClean, PcztPlaces, RowsTaken, TakenPlaces, UsesPczt
<1>16. ASSUME NEW c \in Callers, Record(c) PROVE RowsTaken'
  BY <1>i, <1>16, RecordFields DEF AwaitedIsUntaken, Early, EarlyIsClean,
    PcztPlaces, RowsTaken, TakenPlaces, UsesPczt
<1>17. ASSUME NEW c \in Callers, Moves(c) PROVE RowsTaken'
  BY <1>i, <1>17, MovesFields DEF AwaitedIsUntaken, Early, EarlyIsClean,
    PcztPlaces, RowsTaken, TakenPlaces, UsesPczt
<1>18. ASSUME Crash PROVE RowsTaken'
  BY <1>i, <1>18, DeathFields DEF AwaitedIsUntaken, Crash, Early,
    EarlyIsClean, PcztPlaces, RowsTaken, TakenPlaces, UsesPczt
<1>19. ASSUME NewBlock PROVE RowsTaken'
  BY <1>i, <1>19 DEF AwaitedIsUntaken, Early, EarlyIsClean, Less, NewBlock,
    PcztPlaces, RowsTaken, TakenPlaces, Tick, Unlocked, UsesPczt
<1>20. ASSUME NEW t \in Txs, Mine(t) PROVE RowsTaken'
  BY <1>i, <1>20 DEF AwaitedIsUntaken, Early, EarlyIsClean, Mine, PcztPlaces,
    RowsTaken, TakenPlaces, UsesPczt
<1>21. ASSUME NEW t \in Txs, RetirePending(t) PROVE RowsTaken'
  BY <1>i, <1>21 DEF AwaitedIsUntaken, Early, EarlyIsClean, PcztPlaces,
    RetirePending, RowsTaken, TakenPlaces, UsesPczt
<1>22. CASE UNCHANGED vars
  BY <1>i, <1>22 DEF AwaitedIsUntaken, Early, EarlyIsClean, PcztPlaces,
    RowsTaken, TakenPlaces, UsesPczt, vars
<1> QED
  BY <1>1, <1>2, <1>3, <1>4, <1>5, <1>6, <1>7, <1>8, <1>9, <1>10, <1>11,
    <1>12, <1>13, <1>14, <1>15, <1>16, <1>17, <1>18, <1>19, <1>20, <1>21,
    <1>22 DEF Next, CallerStep, Moves

(* The rows of a pending broadcast precede its submission. *)
LEMMA PendingBeforeSubmitStep ==
  ASSUME SpendingInv, [Next]_vars
  PROVE  PendingBeforeSubmit'
<1>c. CallType /\ CallType'
  BY StepTypes DEF TypeOK, CallType, SpendingInv
<1>i. TypeOK /\ PendingBeforeSubmit /\ EarlyIsClean /\ ShieldOnly /\ RowsArePicked /\ PcztPlaces
  BY DEF SpendingInv
<1>t. StepRanges
  BY <1>c DEF CallType, CallRecords, StepRanges
<1> USE SpendingAssumption, <1>c DEF TypeOK, SameCall, dbVars, pcztVars, chainVars, ActorFree,
        Terminal
<1>1. ASSUME NEW c \in Callers, Begin(c) PROVE PendingBeforeSubmit'
  BY <1>i, <1>t, <1>1, BeginFields DEF Current, Early, EarlyIsClean,
    HasTransparentInputs, Inputs, PcztPlaces, PendingBeforeSubmit,
    RowsArePicked, ShieldOnly, StepRanges, UsesPczt
<1>2. ASSUME NEW c \in Callers, Lookup(c) PROVE PendingBeforeSubmit'
  BY <1>i, <1>t, <1>2, LookupFields DEF ActorFree, Current, Early,
    EarlyIsClean, HasTransparentInputs, Inputs, PcztPlaces,
    PendingBeforeSubmit, RowsArePicked, ShieldOnly, StepRanges, UsesPczt
<1>3. ASSUME NEW c \in Callers, ProposalLeaks(c) PROVE PendingBeforeSubmit'
  BY <1>i, <1>t, <1>3, GotoFields DEF Current, Early, EarlyIsClean,
    HasTransparentInputs, Inputs, LockedBy, PcztPlaces, PendingBeforeSubmit,
    ProposalLeaks, RowsArePicked, Selectable, ShieldOnly, StepRanges,
    Unlocked, UsesPczt
<1>4. ASSUME NEW c \in Callers, Prepare(c) PROVE PendingBeforeSubmit'
  BY <1>i, <1>t, <1>4, GotoFields DEF Current, Early, EarlyIsClean,
    HasTransparentInputs, Inputs, Outputs, PcztPlaces, PendingBeforeSubmit,
    Prepare, RowsArePicked, Selectable, ShieldOnly, SpentOf, StepRanges,
    Unlocked, UsesPczt
<1>5. ASSUME NEW c \in Callers, CreatePczt(c) PROVE PendingBeforeSubmit'
  BY <1>i, <1>t, <1>5, GotoFields DEF CreatePczt, Current, Early,
    EarlyIsClean, HasTransparentInputs, Inputs, LockedBy, PcztPlaces,
    PendingBeforeSubmit, RowsArePicked, Selectable, ShieldOnly, StepRanges,
    UsesPczt
<1>6. ASSUME NEW c \in Callers, Acknowledge(c) PROVE PendingBeforeSubmit'
  BY <1>i, <1>t, <1>6, MarkFields DEF Acknowledge, Current, Early,
    EarlyIsClean, HasTransparentInputs, Inputs, PcztPlaces,
    PendingBeforeSubmit, RowsArePicked, ShieldOnly, StepRanges, UsesPczt
<1>7. ASSUME NEW c \in Callers, ReleaseUnacknowledged(c) PROVE PendingBeforeSubmit'
  BY <1>i, <1>t, <1>7 DEF Current, Early, EarlyIsClean, HasTransparentInputs,
    Inputs, PcztPlaces, PendingBeforeSubmit, ReleaseUnacknowledged,
    RowsArePicked, ShieldOnly, StepRanges, Unlocked, UnlockedBy, UsesPczt
<1>8. ASSUME NEW c \in Callers, Authorize(c) PROVE PendingBeforeSubmit'
  BY <1>i, <1>t, <1>8, SignFields DEF Authorize, Current, Early,
    EarlyIsClean, HasTransparentInputs, Inputs, PcztPlaces,
    PendingBeforeSubmit, RowsArePicked, ShieldOnly, StepRanges, UsesPczt
<1>9. ASSUME NEW c \in Callers, Extract(c) PROVE PendingBeforeSubmit'
  BY <1>i, <1>t, <1>9, MarkFields DEF AfterExtractError, Current, Early,
    EarlyIsClean, Extract, Extracted, HasTransparentInputs, Inputs,
    PcztPlaces, PendingBeforeSubmit, RowsArePicked, ShieldOnly, SpentOf,
    StepRanges, Unlocked, UsesPczt
<1>10. ASSUME NEW c \in Callers, FacilitatorSubmits(c) PROVE PendingBeforeSubmit'
  BY <1>i, <1>t, <1>10, GotoFields DEF Current, Early, EarlyIsClean,
    FacilitatorSubmits, HasTransparentInputs, Inputs, PcztPlaces,
    PendingBeforeSubmit, RowsArePicked, ShieldOnly, StepRanges, UsesPczt
<1>11. ASSUME NEW c \in Callers, Abandon(c) PROVE PendingBeforeSubmit'
  BY <1>i, <1>t, <1>11, MarkFields DEF Abandon, Current, Early, EarlyIsClean,
    HasTransparentInputs, Inputs, PcztPlaces, PendingBeforeSubmit,
    RowsArePicked, ShieldOnly, StepRanges, Unlocked, UnlockedBy, UsesPczt
<1>12. ASSUME NEW c \in Callers, RecordPending(c) PROVE PendingBeforeSubmit'
  <2>1. PICK at : Goto(c, at)
    BY <1>12 DEF RecordPending
  <2>2. UNCHANGED <<picks, life, wire, mined>> /\ call[c].at = "pending"
    BY <1>12 DEF RecordPending
  <2>3. \A d \in Callers : <<d, 1>> \in pending => <<d, 1>> \in pending'
    BY <1>12 DEF RecordPending
  <2>4. at = "submit" /\ call[c].step = 1 /\ picks[c] \cap Transparent # {} =>
          <<c, 1>> \in pending'
    <3>1. CASE HasTransparentInputs(Current(c))
      BY <1>12, <2>1, <3>1, GotoFields DEF RecordPending, Current
    <3>2. CASE ~ HasTransparentInputs(Current(c))
      BY <3>2 DEF HasTransparentInputs, Inputs, Current
    <3> QED
      BY <3>1, <3>2
  <2>5. SameCall(c) /\ call'[c].at = at /\ call'[c].step = call[c].step
    BY <2>1, GotoFields
  <2> QED
    BY <1>i, <2>2, <2>3, <2>4, <2>5 DEF PendingBeforeSubmit
<1>13. ASSUME NEW c \in Callers, Attempt(c) PROVE PendingBeforeSubmit'
  BY <1>i, <1>t, <1>13 DEF Attempt, Current, Early, EarlyIsClean,
    HasTransparentInputs, Inputs, PcztPlaces, PendingBeforeSubmit,
    RowsArePicked, ShieldOnly, StepRanges, UsesPczt
<1>14. ASSUME NEW c \in Callers, SubmitAccepted(c) PROVE PendingBeforeSubmit'
  BY <1>i, <1>t, <1>14, GotoFields, AdvanceFields DEF Current, Early,
    EarlyIsClean, HasTransparentInputs, Inputs, PcztPlaces,
    PendingBeforeSubmit, RowsArePicked, ShieldOnly, StepRanges,
    SubmitAccepted, UsesPczt
<1>15. ASSUME NEW c \in Callers, ClearPending(c) PROVE PendingBeforeSubmit'
  BY <1>i, <1>t, <1>15, GotoFields DEF ClearPending, Current, Early,
    EarlyIsClean, HasTransparentInputs, Inputs, PcztPlaces,
    PendingBeforeSubmit, RowsArePicked, ShieldOnly, StepRanges, UsesPczt
<1>16. ASSUME NEW c \in Callers, Record(c) PROVE PendingBeforeSubmit'
  BY <1>i, <1>t, <1>16, RecordFields DEF Current, Early, EarlyIsClean,
    HasTransparentInputs, Inputs, PcztPlaces, PendingBeforeSubmit,
    RowsArePicked, ShieldOnly, StepRanges, UsesPczt
<1>17. ASSUME NEW c \in Callers, Moves(c) PROVE PendingBeforeSubmit'
  BY <1>i, <1>t, <1>17, MovesFields DEF Current, Early, EarlyIsClean,
    HasTransparentInputs, Inputs, PcztPlaces, PendingBeforeSubmit,
    RowsArePicked, ShieldOnly, StepRanges, UsesPczt
<1>18. ASSUME Crash PROVE PendingBeforeSubmit'
  BY <1>i, <1>t, <1>18, DeathFields DEF Crash, Current, Early, EarlyIsClean,
    HasTransparentInputs, Inputs, PcztPlaces, PendingBeforeSubmit,
    RowsArePicked, ShieldOnly, StepRanges, UsesPczt
<1>19. ASSUME NewBlock PROVE PendingBeforeSubmit'
  BY <1>i, <1>t, <1>19 DEF Current, Early, EarlyIsClean,
    HasTransparentInputs, Inputs, Less, NewBlock, PcztPlaces,
    PendingBeforeSubmit, RowsArePicked, ShieldOnly, StepRanges, Tick,
    Unlocked, UsesPczt
<1>20. ASSUME NEW t \in Txs, Mine(t) PROVE PendingBeforeSubmit'
  BY <1>i, <1>t, <1>20 DEF Current, Early, EarlyIsClean,
    HasTransparentInputs, Inputs, Mine, PcztPlaces, PendingBeforeSubmit,
    RowsArePicked, ShieldOnly, StepRanges, UsesPczt
<1>21. ASSUME NEW t \in Txs, RetirePending(t) PROVE PendingBeforeSubmit'
  BY <1>i, <1>t, <1>21 DEF Current, Early, EarlyIsClean,
    HasTransparentInputs, Inputs, PcztPlaces, PendingBeforeSubmit,
    RetirePending, RowsArePicked, ShieldOnly, StepRanges, UsesPczt
<1>22. CASE UNCHANGED vars
  BY <1>i, <1>22 DEF Current, Early, EarlyIsClean, HasTransparentInputs,
    Inputs, PcztPlaces, PendingBeforeSubmit, RowsArePicked, ShieldOnly,
    StepRanges, UsesPczt, vars
<1> QED
  BY <1>1, <1>2, <1>3, <1>4, <1>5, <1>6, <1>7, <1>8, <1>9, <1>10, <1>11,
    <1>12, <1>13, <1>14, <1>15, <1>16, <1>17, <1>18, <1>19, <1>20, <1>21,
    <1>22 DEF Next, CallerStep, Moves

(* A PCZT whose transaction is on the wire is retained. *)
LEMMA SubmittedIsRetainedStep ==
  ASSUME SpendingInv, [Next]_vars
  PROVE  SubmittedIsRetained'
<1>c. CallType /\ CallType'
  BY StepTypes DEF TypeOK, CallType, SpendingInv
<1>i. TypeOK /\ SubmittedIsRetained /\ EarlyIsClean /\ SubmittedWasRetained /\ NetworkOrder /\ StepsInOrder
  BY DEF SpendingInv
<1>t. StepRanges
  BY <1>c DEF CallType, CallRecords, StepRanges
<1> USE SpendingAssumption, <1>c DEF TypeOK, SameCall, dbVars, pcztVars, chainVars, ActorFree,
        Terminal
<1>1. ASSUME NEW c \in Callers, Begin(c) PROVE SubmittedIsRetained'
  <2>1. <<c, 1>> \notin wire
    BY <1>i, <1>1, BeginFields DEF EarlyIsClean, Early, NetworkOrder, Txs
  <2>2. \A d \in Callers : d # c => call'[d] = call[d]
    BY <1>i, <1>1, BeginFields
  <2>3. UNCHANGED <<wire, finalized>>
    BY <1>i, <1>1, BeginFields
  <2> QED
    BY <1>i, <2>1, <2>2, <2>3 DEF SubmittedIsRetained, UsesPczt
<1>2. ASSUME NEW c \in Callers, Lookup(c) PROVE SubmittedIsRetained'
  BY <1>i, <1>t, <1>2, LookupFields DEF ActorFree, Current, Early,
    EarlyIsClean, NetworkOrder, StepRanges, StepsInOrder,
    SubmittedIsRetained, SubmittedWasRetained, UsesPczt
<1>3. ASSUME NEW c \in Callers, ProposalLeaks(c) PROVE SubmittedIsRetained'
  BY <1>i, <1>t, <1>3, GotoFields DEF Current, Early, EarlyIsClean, LockedBy,
    NetworkOrder, ProposalLeaks, Selectable, StepRanges, StepsInOrder,
    SubmittedIsRetained, SubmittedWasRetained, Unlocked, UsesPczt
<1>4. ASSUME NEW c \in Callers, Prepare(c) PROVE SubmittedIsRetained'
  BY <1>i, <1>t, <1>4, GotoFields DEF Current, Early, EarlyIsClean,
    NetworkOrder, Outputs, Prepare, Selectable, SpentOf, StepRanges,
    StepsInOrder, SubmittedIsRetained, SubmittedWasRetained, Unlocked,
    UsesPczt
<1>5. ASSUME NEW c \in Callers, CreatePczt(c) PROVE SubmittedIsRetained'
  BY <1>i, <1>t, <1>5, GotoFields DEF CreatePczt, Current, Early,
    EarlyIsClean, LockedBy, NetworkOrder, Selectable, StepRanges,
    StepsInOrder, SubmittedIsRetained, SubmittedWasRetained, UsesPczt
<1>6. ASSUME NEW c \in Callers, Acknowledge(c) PROVE SubmittedIsRetained'
  BY <1>i, <1>t, <1>6, MarkFields DEF Acknowledge, Current, Early,
    EarlyIsClean, NetworkOrder, StepRanges, StepsInOrder,
    SubmittedIsRetained, SubmittedWasRetained, UsesPczt
<1>7. ASSUME NEW c \in Callers, ReleaseUnacknowledged(c) PROVE SubmittedIsRetained'
  BY <1>i, <1>t, <1>7 DEF Current, Early, EarlyIsClean, NetworkOrder,
    ReleaseUnacknowledged, StepRanges, StepsInOrder, SubmittedIsRetained,
    SubmittedWasRetained, Unlocked, UnlockedBy, UsesPczt
<1>8. ASSUME NEW c \in Callers, Authorize(c) PROVE SubmittedIsRetained'
  BY <1>i, <1>t, <1>8, SignFields DEF Authorize, Current, Early,
    EarlyIsClean, NetworkOrder, StepRanges, StepsInOrder,
    SubmittedIsRetained, SubmittedWasRetained, UsesPczt
<1>9. ASSUME NEW c \in Callers, Extract(c) PROVE SubmittedIsRetained'
  BY <1>i, <1>t, <1>9, MarkFields DEF AfterExtractError, Current, Early,
    EarlyIsClean, Extract, Extracted, NetworkOrder, SpentOf, StepRanges,
    StepsInOrder, SubmittedIsRetained, SubmittedWasRetained, Unlocked,
    UsesPczt
<1>10. ASSUME NEW c \in Callers, FacilitatorSubmits(c) PROVE SubmittedIsRetained'
  BY <1>i, <1>t, <1>10, GotoFields DEF Current, Early, EarlyIsClean,
    FacilitatorSubmits, NetworkOrder, StepRanges, StepsInOrder,
    SubmittedIsRetained, SubmittedWasRetained, UsesPczt
<1>11. ASSUME NEW c \in Callers, Abandon(c) PROVE SubmittedIsRetained'
  BY <1>i, <1>t, <1>11, MarkFields DEF Abandon, Current, Early, EarlyIsClean,
    NetworkOrder, StepRanges, StepsInOrder, SubmittedIsRetained,
    SubmittedWasRetained, Unlocked, UnlockedBy, UsesPczt
<1>12. ASSUME NEW c \in Callers, RecordPending(c) PROVE SubmittedIsRetained'
  BY <1>i, <1>t, <1>12, GotoFields DEF Current, Early, EarlyIsClean,
    NetworkOrder, RecordPending, StepRanges, StepsInOrder,
    SubmittedIsRetained, SubmittedWasRetained, UsesPczt
<1>13. ASSUME NEW c \in Callers, Attempt(c) PROVE SubmittedIsRetained'
  BY <1>i, <1>t, <1>13 DEF Attempt, Current, Early, EarlyIsClean,
    NetworkOrder, StepRanges, StepsInOrder, SubmittedIsRetained,
    SubmittedWasRetained, UsesPczt
<1>14. ASSUME NEW c \in Callers, SubmitAccepted(c) PROVE SubmittedIsRetained'
  BY <1>i, <1>t, <1>14, GotoFields, AdvanceFields DEF Current, Early,
    EarlyIsClean, NetworkOrder, StepRanges, StepsInOrder, SubmitAccepted,
    SubmittedIsRetained, SubmittedWasRetained, UsesPczt
<1>15. ASSUME NEW c \in Callers, ClearPending(c) PROVE SubmittedIsRetained'
  BY <1>i, <1>t, <1>15, GotoFields DEF ClearPending, Current, Early,
    EarlyIsClean, NetworkOrder, StepRanges, StepsInOrder,
    SubmittedIsRetained, SubmittedWasRetained, UsesPczt
<1>16. ASSUME NEW c \in Callers, Record(c) PROVE SubmittedIsRetained'
  BY <1>i, <1>t, <1>16, RecordFields DEF Current, Early, EarlyIsClean,
    NetworkOrder, StepRanges, StepsInOrder, SubmittedIsRetained,
    SubmittedWasRetained, UsesPczt
<1>17. ASSUME NEW c \in Callers, Moves(c) PROVE SubmittedIsRetained'
  BY <1>i, <1>t, <1>17, MovesFields DEF Current, Early, EarlyIsClean,
    NetworkOrder, StepRanges, StepsInOrder, SubmittedIsRetained,
    SubmittedWasRetained, UsesPczt
<1>18. ASSUME Crash PROVE SubmittedIsRetained'
  BY <1>i, <1>t, <1>18, DeathFields DEF Crash, Current, Early, EarlyIsClean,
    NetworkOrder, StepRanges, StepsInOrder, SubmittedIsRetained,
    SubmittedWasRetained, UsesPczt
<1>19. ASSUME NewBlock PROVE SubmittedIsRetained'
  BY <1>i, <1>t, <1>19 DEF Current, Early, EarlyIsClean, Less, NetworkOrder,
    NewBlock, StepRanges, StepsInOrder, SubmittedIsRetained,
    SubmittedWasRetained, Tick, Unlocked, UsesPczt
<1>20. ASSUME NEW t \in Txs, Mine(t) PROVE SubmittedIsRetained'
  BY <1>i, <1>t, <1>20 DEF Current, Early, EarlyIsClean, Mine, NetworkOrder,
    StepRanges, StepsInOrder, SubmittedIsRetained, SubmittedWasRetained,
    UsesPczt
<1>21. ASSUME NEW t \in Txs, RetirePending(t) PROVE SubmittedIsRetained'
  BY <1>i, <1>t, <1>21 DEF Current, Early, EarlyIsClean, NetworkOrder,
    RetirePending, StepRanges, StepsInOrder, SubmittedIsRetained,
    SubmittedWasRetained, UsesPczt
<1>22. CASE UNCHANGED vars
  BY <1>i, <1>22 DEF Current, Early, EarlyIsClean, NetworkOrder, StepRanges,
    StepsInOrder, SubmittedIsRetained, SubmittedWasRetained, UsesPczt, vars
<1> QED
  BY <1>1, <1>2, <1>3, <1>4, <1>5, <1>6, <1>7, <1>8, <1>9, <1>10, <1>11,
    <1>12, <1>13, <1>14, <1>15, <1>16, <1>17, <1>18, <1>19, <1>20, <1>21,
    <1>22 DEF Next, CallerStep, Moves

(* A call that began under a bound key records no transaction. *)
LEMMA LateCallsBuildNothingStep ==
  ASSUME SpendingInv, [Next]_vars
  PROVE  LateCallsBuildNothing'
<1>c. CallType /\ CallType'
  BY StepTypes DEF TypeOK, CallType, SpendingInv
<1>i. TypeOK /\ LateCallsBuildNothing /\ EarlyIsClean /\ LateStopsAtLookup
  BY DEF SpendingInv
<1> USE SpendingAssumption, <1>c DEF TypeOK, SameCall, dbVars, pcztVars, chainVars, ActorFree,
        Terminal
<1>1. ASSUME NEW c \in Callers, Begin(c) PROVE LateCallsBuildNothing'
  <2>1. <<c, 1>> \notin stored /\ UNCHANGED stored
    BY <1>i, <1>1, BeginFields DEF EarlyIsClean, Early
  <2>2. \A d \in Callers : d # c => call'[d] = call[d]
    BY <1>1, BeginFields
  <2> QED
    BY <1>i, <2>1, <2>2 DEF LateCallsBuildNothing
<1>2. ASSUME NEW c \in Callers, Lookup(c) PROVE LateCallsBuildNothing'
  BY <1>i, <1>2, LookupFields DEF ActorFree, Early, EarlyIsClean,
    LateCallsBuildNothing, LateStopsAtLookup
<1>3. ASSUME NEW c \in Callers, ProposalLeaks(c) PROVE LateCallsBuildNothing'
  BY <1>i, <1>3, GotoFields DEF Early, EarlyIsClean, LateCallsBuildNothing,
    LateStopsAtLookup, LockedBy, ProposalLeaks, Selectable, Unlocked
<1>4. ASSUME NEW c \in Callers, Prepare(c) PROVE LateCallsBuildNothing'
  BY <1>i, <1>4, GotoFields DEF Early, EarlyIsClean, LateCallsBuildNothing,
    LateStopsAtLookup, Outputs, Prepare, Selectable, SpentOf, Unlocked,
    UsesPczt
<1>5. ASSUME NEW c \in Callers, CreatePczt(c) PROVE LateCallsBuildNothing'
  BY <1>i, <1>5, GotoFields DEF CreatePczt, Early, EarlyIsClean,
    LateCallsBuildNothing, LateStopsAtLookup, LockedBy, Selectable, UsesPczt
<1>6. ASSUME NEW c \in Callers, Acknowledge(c) PROVE LateCallsBuildNothing'
  BY <1>i, <1>6, MarkFields DEF Acknowledge, Early, EarlyIsClean,
    LateCallsBuildNothing, LateStopsAtLookup
<1>7. ASSUME NEW c \in Callers, ReleaseUnacknowledged(c) PROVE LateCallsBuildNothing'
  BY <1>i, <1>7 DEF Early, EarlyIsClean, LateCallsBuildNothing,
    LateStopsAtLookup, ReleaseUnacknowledged, Unlocked, UnlockedBy
<1>8. ASSUME NEW c \in Callers, Authorize(c) PROVE LateCallsBuildNothing'
  BY <1>i, <1>8, SignFields DEF Authorize, Early, EarlyIsClean,
    LateCallsBuildNothing, LateStopsAtLookup
<1>9. ASSUME NEW c \in Callers, Extract(c) PROVE LateCallsBuildNothing'
  BY <1>i, <1>9, MarkFields DEF AfterExtractError, Early, EarlyIsClean,
    Extract, Extracted, LateCallsBuildNothing, LateStopsAtLookup, SpentOf,
    Unlocked
<1>10. ASSUME NEW c \in Callers, FacilitatorSubmits(c) PROVE LateCallsBuildNothing'
  BY <1>i, <1>10, GotoFields DEF Early, EarlyIsClean, FacilitatorSubmits,
    LateCallsBuildNothing, LateStopsAtLookup
<1>11. ASSUME NEW c \in Callers, Abandon(c) PROVE LateCallsBuildNothing'
  BY <1>i, <1>11, MarkFields DEF Abandon, Early, EarlyIsClean,
    LateCallsBuildNothing, LateStopsAtLookup, Unlocked, UnlockedBy
<1>12. ASSUME NEW c \in Callers, RecordPending(c) PROVE LateCallsBuildNothing'
  BY <1>i, <1>12, GotoFields DEF Current, Early, EarlyIsClean,
    LateCallsBuildNothing, LateStopsAtLookup, RecordPending
<1>13. ASSUME NEW c \in Callers, Attempt(c) PROVE LateCallsBuildNothing'
  BY <1>i, <1>13 DEF Attempt, Current, Early, EarlyIsClean,
    LateCallsBuildNothing, LateStopsAtLookup
<1>14. ASSUME NEW c \in Callers, SubmitAccepted(c) PROVE LateCallsBuildNothing'
  BY <1>i, <1>14, GotoFields, AdvanceFields DEF Current, Early, EarlyIsClean,
    LateCallsBuildNothing, LateStopsAtLookup, SubmitAccepted
<1>15. ASSUME NEW c \in Callers, ClearPending(c) PROVE LateCallsBuildNothing'
  BY <1>i, <1>15, GotoFields DEF ClearPending, Current, Early, EarlyIsClean,
    LateCallsBuildNothing, LateStopsAtLookup
<1>16. ASSUME NEW c \in Callers, Record(c) PROVE LateCallsBuildNothing'
  BY <1>i, <1>16, RecordFields DEF Early, EarlyIsClean,
    LateCallsBuildNothing, LateStopsAtLookup
<1>17. ASSUME NEW c \in Callers, Moves(c) PROVE LateCallsBuildNothing'
  BY <1>i, <1>17, MovesFields DEF Early, EarlyIsClean, LateCallsBuildNothing,
    LateStopsAtLookup
<1>18. ASSUME Crash PROVE LateCallsBuildNothing'
  BY <1>i, <1>18, DeathFields DEF Crash, Early, EarlyIsClean,
    LateCallsBuildNothing, LateStopsAtLookup
<1>19. ASSUME NewBlock PROVE LateCallsBuildNothing'
  BY <1>i, <1>19 DEF Early, EarlyIsClean, LateCallsBuildNothing,
    LateStopsAtLookup, Less, NewBlock, Tick, Unlocked
<1>20. ASSUME NEW t \in Txs, Mine(t) PROVE LateCallsBuildNothing'
  BY <1>i, <1>20 DEF Early, EarlyIsClean, LateCallsBuildNothing,
    LateStopsAtLookup, Mine
<1>21. ASSUME NEW t \in Txs, RetirePending(t) PROVE LateCallsBuildNothing'
  BY <1>i, <1>21 DEF Early, EarlyIsClean, LateCallsBuildNothing,
    LateStopsAtLookup, RetirePending
<1>22. CASE UNCHANGED vars
  BY <1>i, <1>22 DEF Early, EarlyIsClean, LateCallsBuildNothing,
    LateStopsAtLookup, vars
<1> QED
  BY <1>1, <1>2, <1>3, <1>4, <1>5, <1>6, <1>7, <1>8, <1>9, <1>10, <1>11,
    <1>12, <1>13, <1>14, <1>15, <1>16, <1>17, <1>18, <1>19, <1>20, <1>21,
    <1>22 DEF Next, CallerStep, Moves

(* And stay while the transaction may still be mined. *)
LEMMA InFlightIsPendingStep ==
  ASSUME SpendingInv, [Next]_vars
  PROVE  InFlightIsPending'
<1>c. CallType /\ CallType'
  BY StepTypes DEF TypeOK, CallType, SpendingInv
<1>i. TypeOK /\ InFlightIsPending /\ PendingBeforeSubmit /\ EarlyIsClean /\ NetworkOrder /\ SubmitsRecorded /\ ShieldOnly /\ HandedIsStored
  BY DEF SpendingInv
<1>t. StepRanges
  BY <1>c DEF CallType, CallRecords, StepRanges
<1> USE SpendingAssumption, <1>c DEF TypeOK, SameCall, dbVars, pcztVars, chainVars, ActorFree,
        Terminal
<1>1. ASSUME NEW c \in Callers, Begin(c) PROVE InFlightIsPending'
  BY <1>i, <1>t, <1>1, BeginFields DEF Current, Early, EarlyIsClean,
    HandedIsStored, HasTransparentInputs, InFlightIsPending, Inputs,
    NetworkOrder, PendingBeforeSubmit, ShieldOnly, StepRanges,
    SubmitsRecorded, Submitting
<1>2. ASSUME NEW c \in Callers, Lookup(c) PROVE InFlightIsPending'
  BY <1>i, <1>t, <1>2, LookupFields DEF ActorFree, Current, Early,
    EarlyIsClean, HandedIsStored, HasTransparentInputs, InFlightIsPending,
    Inputs, NetworkOrder, PendingBeforeSubmit, ShieldOnly, StepRanges,
    SubmitsRecorded, Submitting
<1>3. ASSUME NEW c \in Callers, ProposalLeaks(c) PROVE InFlightIsPending'
  BY <1>i, <1>t, <1>3, GotoFields DEF Current, Early, EarlyIsClean,
    HandedIsStored, HasTransparentInputs, InFlightIsPending, Inputs,
    LockedBy, NetworkOrder, PendingBeforeSubmit, ProposalLeaks, Selectable,
    ShieldOnly, StepRanges, SubmitsRecorded, Submitting, Unlocked
<1>4. ASSUME NEW c \in Callers, Prepare(c) PROVE InFlightIsPending'
  <2>1. <<c, 1>> \notin wire
    BY <1>i, <1>4 DEF Prepare, EarlyIsClean, Early, NetworkOrder, Txs
  <2>2. PICK at : Goto(c, at)
    BY <1>4 DEF Prepare
  <2>3. \A d \in Callers : d # c => picks'[d] = picks[d] /\ life'[d] = life[d]
    BY <1>4 DEF Prepare
  <2>4. UNCHANGED <<wire, mined, pending>>
    BY <1>4 DEF Prepare
  <2> QED
    BY <1>i, <2>1, <2>2, <2>3, <2>4, GotoFields DEF InFlightIsPending
<1>5. ASSUME NEW c \in Callers, CreatePczt(c) PROVE InFlightIsPending'
  BY <1>i, <1>t, <1>5, GotoFields DEF CreatePczt, Current, Early,
    EarlyIsClean, HandedIsStored, HasTransparentInputs, InFlightIsPending,
    Inputs, LockedBy, NetworkOrder, PendingBeforeSubmit, Selectable,
    ShieldOnly, StepRanges, SubmitsRecorded, Submitting, UsesPczt
<1>6. ASSUME NEW c \in Callers, Acknowledge(c) PROVE InFlightIsPending'
  BY <1>i, <1>t, <1>6, MarkFields DEF Acknowledge, Current, Early,
    EarlyIsClean, HandedIsStored, HasTransparentInputs, InFlightIsPending,
    Inputs, NetworkOrder, PendingBeforeSubmit, ShieldOnly, StepRanges,
    SubmitsRecorded, Submitting
<1>7. ASSUME NEW c \in Callers, ReleaseUnacknowledged(c) PROVE InFlightIsPending'
  BY <1>i, <1>t, <1>7 DEF Current, Early, EarlyIsClean, HandedIsStored,
    HasTransparentInputs, InFlightIsPending, Inputs, NetworkOrder,
    PendingBeforeSubmit, ReleaseUnacknowledged, ShieldOnly, StepRanges,
    SubmitsRecorded, Submitting, Unlocked, UnlockedBy
<1>8. ASSUME NEW c \in Callers, Authorize(c) PROVE InFlightIsPending'
  BY <1>i, <1>t, <1>8, SignFields DEF Authorize, Current, Early,
    EarlyIsClean, HandedIsStored, HasTransparentInputs, InFlightIsPending,
    Inputs, NetworkOrder, PendingBeforeSubmit, ShieldOnly, StepRanges,
    SubmitsRecorded, Submitting
<1>9. ASSUME NEW c \in Callers, Extract(c) PROVE InFlightIsPending'
  BY <1>i, <1>t, <1>9, MarkFields DEF AfterExtractError, Current, Early,
    EarlyIsClean, Extract, Extracted, HandedIsStored, HasTransparentInputs,
    InFlightIsPending, Inputs, NetworkOrder, PendingBeforeSubmit, ShieldOnly,
    SpentOf, StepRanges, SubmitsRecorded, Submitting, Unlocked
<1>10. ASSUME NEW c \in Callers, FacilitatorSubmits(c) PROVE InFlightIsPending'
  BY <1>i, <1>t, <1>10, GotoFields DEF Current, Early, EarlyIsClean,
    FacilitatorSubmits, HandedIsStored, HasTransparentInputs,
    InFlightIsPending, Inputs, NetworkOrder, PendingBeforeSubmit, ShieldOnly,
    StepRanges, SubmitsRecorded, Submitting
<1>11. ASSUME NEW c \in Callers, Abandon(c) PROVE InFlightIsPending'
  <2>1. UNCHANGED <<picks, life, wire, mined, pending>>
    BY <1>11 DEF Abandon
  <2>2. PICK at : Mark(c, at, {"abandoned"})
    BY <1>11 DEF Abandon
  <2> QED
    BY <1>i, <1>11, <2>1, <2>2, MarkFields DEF InFlightIsPending, Abandon
<1>12. ASSUME NEW c \in Callers, RecordPending(c) PROVE InFlightIsPending'
  <2>1. PICK at : Goto(c, at)
    BY <1>12 DEF RecordPending
  <2>2. UNCHANGED <<picks, life, wire, mined>> /\ call[c].at = "pending"
    BY <1>12 DEF RecordPending
  <2>3. \A d \in Callers : <<d, 1>> \in pending => <<d, 1>> \in pending'
    BY <1>12 DEF RecordPending
  <2>4. at = "submit" /\ call[c].step = 1 /\ picks[c] \cap Transparent # {} =>
          <<c, 1>> \in pending'
    <3>1. CASE HasTransparentInputs(Current(c))
      BY <1>12, <2>1, <3>1, GotoFields DEF RecordPending, Current
    <3>2. CASE ~ HasTransparentInputs(Current(c))
      BY <3>2 DEF HasTransparentInputs, Inputs, Current
    <3> QED
      BY <3>1, <3>2
  <2>5. SameCall(c) /\ call'[c].at = at /\ call'[c].step = call[c].step
    BY <2>1, GotoFields
  <2> QED
    BY <1>i, <2>2, <2>3, <2>4, <2>5 DEF InFlightIsPending
<1>13. ASSUME NEW c \in Callers, Attempt(c) PROVE InFlightIsPending'
  BY <1>i, <1>t, <1>13 DEF Attempt, Current, Early, EarlyIsClean,
    HandedIsStored, HasTransparentInputs, InFlightIsPending, Inputs,
    NetworkOrder, PendingBeforeSubmit, ShieldOnly, StepRanges,
    SubmitsRecorded, Submitting
<1>14. ASSUME NEW c \in Callers, SubmitAccepted(c) PROVE InFlightIsPending'
  BY <1>i, <1>t, <1>14, GotoFields, AdvanceFields DEF Current, Early,
    EarlyIsClean, HandedIsStored, HasTransparentInputs, InFlightIsPending,
    Inputs, NetworkOrder, PendingBeforeSubmit, ShieldOnly, StepRanges,
    SubmitAccepted, SubmitsRecorded, Submitting
<1>15. ASSUME NEW c \in Callers, ClearPending(c) PROVE InFlightIsPending'
  BY <1>i, <1>t, <1>15, GotoFields DEF ClearPending, Current, Early,
    EarlyIsClean, HandedIsStored, HasTransparentInputs, InFlightIsPending,
    Inputs, NetworkOrder, PendingBeforeSubmit, ShieldOnly, StepRanges,
    SubmitsRecorded, Submitting
<1>16. ASSUME NEW c \in Callers, Record(c) PROVE InFlightIsPending'
  BY <1>i, <1>t, <1>16, RecordFields DEF Current, Early, EarlyIsClean,
    HandedIsStored, HasTransparentInputs, InFlightIsPending, Inputs,
    NetworkOrder, PendingBeforeSubmit, ShieldOnly, StepRanges,
    SubmitsRecorded, Submitting
<1>17. ASSUME NEW c \in Callers, Moves(c) PROVE InFlightIsPending'
  BY <1>i, <1>t, <1>17, MovesFields DEF Current, Early, EarlyIsClean,
    HandedIsStored, HasTransparentInputs, InFlightIsPending, Inputs,
    NetworkOrder, PendingBeforeSubmit, ShieldOnly, StepRanges,
    SubmitsRecorded, Submitting
<1>18. ASSUME Crash PROVE InFlightIsPending'
  BY <1>i, <1>t, <1>18, DeathFields DEF Crash, Current, Early, EarlyIsClean,
    HandedIsStored, HasTransparentInputs, InFlightIsPending, Inputs,
    NetworkOrder, PendingBeforeSubmit, ShieldOnly, StepRanges,
    SubmitsRecorded, Submitting
<1>19. ASSUME NewBlock PROVE InFlightIsPending'
  BY <1>i, <1>t, <1>19 DEF Current, Early, EarlyIsClean, HandedIsStored,
    HasTransparentInputs, InFlightIsPending, Inputs, Less, NetworkOrder,
    NewBlock, PendingBeforeSubmit, ShieldOnly, StepRanges, SubmitsRecorded,
    Submitting, Tick, Unlocked
<1>20. ASSUME NEW t \in Txs, Mine(t) PROVE InFlightIsPending'
  BY <1>i, <1>t, <1>20 DEF Current, Early, EarlyIsClean, HandedIsStored,
    HasTransparentInputs, InFlightIsPending, Inputs, Mine, NetworkOrder,
    PendingBeforeSubmit, ShieldOnly, StepRanges, SubmitsRecorded, Submitting
<1>21. ASSUME NEW t \in Txs, RetirePending(t) PROVE InFlightIsPending'
  <2>1. t \in mined \/ life[t[1]] = 0
    BY <1>21 DEF RetirePending
  <2>2. UNCHANGED <<picks, life, wire, mined, call>> /\ pending' = pending \ {t}
    BY <1>21 DEF RetirePending
  <2> QED
    BY <1>i, <2>1, <2>2 DEF InFlightIsPending
<1>22. CASE UNCHANGED vars
  BY <1>i, <1>22 DEF Current, Early, EarlyIsClean, HandedIsStored,
    HasTransparentInputs, InFlightIsPending, Inputs, NetworkOrder,
    PendingBeforeSubmit, ShieldOnly, StepRanges, SubmitsRecorded, Submitting,
    vars
<1> QED
  BY <1>1, <1>2, <1>3, <1>4, <1>5, <1>6, <1>7, <1>8, <1>9, <1>10, <1>11,
    <1>12, <1>13, <1>14, <1>15, <1>16, <1>17, <1>18, <1>19, <1>20, <1>21,
    <1>22 DEF Next, CallerStep, Moves

(* No step forgets what was picked or why a PCZT is loose. *)
LEMMA PicksKeptStep ==
  ASSUME SpendingInv, [Next]_vars
  PROVE  PicksKept
<1>c. CallType /\ CallType'
  BY StepTypes DEF TypeOK, CallType, SpendingInv
<1>i. TypeOK /\ EarlyIsClean
  BY DEF SpendingInv
<1> USE SpendingAssumption, <1>c DEF TypeOK, SameCall, dbVars, pcztVars, chainVars, ActorFree,
        Terminal
<1>1. ASSUME NEW c \in Callers, Begin(c) PROVE PicksKept
  <2>1. picks[c] = {} /\ UNCHANGED picks
    BY <1>i, <1>1, BeginFields DEF EarlyIsClean, Early
  <2>2. \A d \in Callers : d # c => call'[d] = call[d]
    BY <1>1, BeginFields
  <2> QED
    BY <2>1, <2>2 DEF PicksKept
<1>2. ASSUME NEW c \in Callers, Lookup(c) PROVE PicksKept
  BY <1>i, <1>2, LookupFields DEF ActorFree, Early, EarlyIsClean, PicksKept
<1>3. ASSUME NEW c \in Callers, ProposalLeaks(c) PROVE PicksKept
  BY <1>i, <1>3, GotoFields DEF Early, EarlyIsClean, LockedBy, PicksKept,
    ProposalLeaks, Selectable, Unlocked
<1>4. ASSUME NEW c \in Callers, Prepare(c) PROVE PicksKept
  <2>1. picks[c] = {}
    BY <1>i, <1>4 DEF Prepare, EarlyIsClean, Early
  <2>2. \A d \in Callers : d # c => picks'[d] = picks[d] /\ call'[d] = call[d]
    BY <1>4, GotoFields DEF Prepare
  <2> QED
    BY <2>1, <2>2 DEF PicksKept
<1>5. ASSUME NEW c \in Callers, CreatePczt(c) PROVE PicksKept
  <2>1. picks[c] = {}
    BY <1>i, <1>5 DEF CreatePczt, EarlyIsClean, Early
  <2>2. \A d \in Callers : d # c => picks'[d] = picks[d] /\ call'[d] = call[d]
    BY <1>5, GotoFields DEF CreatePczt
  <2> QED
    BY <2>1, <2>2 DEF PicksKept
<1>6. ASSUME NEW c \in Callers, Acknowledge(c) PROVE PicksKept
  BY <1>i, <1>6, MarkFields DEF Acknowledge, Early, EarlyIsClean, PicksKept
<1>7. ASSUME NEW c \in Callers, ReleaseUnacknowledged(c) PROVE PicksKept
  BY <1>i, <1>7 DEF Early, EarlyIsClean, PicksKept, ReleaseUnacknowledged,
    Unlocked, UnlockedBy
<1>8. ASSUME NEW c \in Callers, Authorize(c) PROVE PicksKept
  BY <1>i, <1>8, SignFields DEF Authorize, Early, EarlyIsClean, PicksKept
<1>9. ASSUME NEW c \in Callers, Extract(c) PROVE PicksKept
  <2>1. UNCHANGED picks /\ \E at : Extracted(c, at)
    BY <1>9 DEF Extract
  <2> QED
    BY <2>1, MarkFields DEF PicksKept, Extracted
<1>10. ASSUME NEW c \in Callers, FacilitatorSubmits(c) PROVE PicksKept
  BY <1>i, <1>10, GotoFields DEF Early, EarlyIsClean, FacilitatorSubmits,
    PicksKept
<1>11. ASSUME NEW c \in Callers, Abandon(c) PROVE PicksKept
  BY <1>i, <1>11, MarkFields DEF Abandon, Early, EarlyIsClean, PicksKept,
    Unlocked, UnlockedBy
<1>12. ASSUME NEW c \in Callers, RecordPending(c) PROVE PicksKept
  BY <1>i, <1>12, GotoFields DEF Current, Early, EarlyIsClean, PicksKept,
    RecordPending
<1>13. ASSUME NEW c \in Callers, Attempt(c) PROVE PicksKept
  BY <1>i, <1>13 DEF Attempt, Current, Early, EarlyIsClean, PicksKept
<1>14. ASSUME NEW c \in Callers, SubmitAccepted(c) PROVE PicksKept
  BY <1>i, <1>14, GotoFields, AdvanceFields DEF Current, Early, EarlyIsClean,
    PicksKept, SubmitAccepted
<1>15. ASSUME NEW c \in Callers, ClearPending(c) PROVE PicksKept
  BY <1>i, <1>15, GotoFields DEF ClearPending, Current, Early, EarlyIsClean,
    PicksKept
<1>16. ASSUME NEW c \in Callers, Record(c) PROVE PicksKept
  BY <1>i, <1>16, RecordFields DEF Early, EarlyIsClean, PicksKept
<1>17. ASSUME NEW c \in Callers, Moves(c) PROVE PicksKept
  BY <1>i, <1>17, MovesFields DEF Early, EarlyIsClean, PicksKept
<1>18. ASSUME Crash PROVE PicksKept
  BY <1>i, <1>18, DeathFields DEF Crash, Early, EarlyIsClean, PicksKept
<1>19. ASSUME NewBlock PROVE PicksKept
  BY <1>i, <1>19 DEF Early, EarlyIsClean, Less, NewBlock, PicksKept, Tick,
    Unlocked
<1>20. ASSUME NEW t \in Txs, Mine(t) PROVE PicksKept
  BY <1>i, <1>20 DEF Early, EarlyIsClean, Mine, PicksKept
<1>21. ASSUME NEW t \in Txs, RetirePending(t) PROVE PicksKept
  BY <1>i, <1>21 DEF Early, EarlyIsClean, PicksKept, RetirePending
<1>22. CASE UNCHANGED vars
  BY <1>i, <1>22 DEF Early, EarlyIsClean, PicksKept, vars
<1> QED
  BY <1>1, <1>2, <1>3, <1>4, <1>5, <1>6, <1>7, <1>8, <1>9, <1>10, <1>11,
    <1>12, <1>13, <1>14, <1>15, <1>16, <1>17, <1>18, <1>19, <1>20, <1>21,
    <1>22 DEF Next, CallerStep, Moves

(* An output without a loose PCZT had none before. *)
LEMMA TightBack ==
  ASSUME PicksKept
  PROVE  \A o \in Outputs : Tight(o)' => Tight(o)
  BY DEF PicksKept, Tight, Loose, UsesPczt

(* Whoever claims an output anew found it free. *)
LEMMA FewNewClaimsStep ==
  ASSUME SpendingInv, [Next]_vars
  PROVE  FewNewClaims
<1>c. CallType /\ CallType'
  BY StepTypes DEF TypeOK, CallType, SpendingInv
<1>i. TypeOK /\ NetworkOrder /\ HandedIsStored /\ AbandonsOwn /\ EarlyIsClean
  BY DEF SpendingInv
<1> USE SpendingAssumption, <1>c DEF TypeOK, SameCall, dbVars, pcztVars, chainVars, ActorFree,
        Terminal
<1>1. ASSUME NEW c \in Callers, Begin(c) PROVE FewNewClaims
  BY <1>i, <1>1, BeginFields DEF AbandonsOwn, Claims, ClaimsByLock, Current,
    Early, EarlyIsClean, FewNewClaims, HandedIsStored, NetworkOrder, Spends
<1>2. ASSUME NEW c \in Callers, Lookup(c) PROVE FewNewClaims
  BY <1>i, <1>2, LookupFields DEF AbandonsOwn, ActorFree, Claims,
    ClaimsByLock, Current, Early, EarlyIsClean, FewNewClaims, HandedIsStored,
    NetworkOrder, Spends
<1>3. ASSUME NEW c \in Callers, ProposalLeaks(c) PROVE FewNewClaims
  BY <1>i, <1>3, GotoFields DEF AbandonsOwn, Claims, ClaimsByLock, Current,
    Early, EarlyIsClean, FewNewClaims, HandedIsStored, LockedBy,
    NetworkOrder, ProposalLeaks, Selectable, Spends, Unlocked
<1>4. ASSUME NEW c \in Callers, Prepare(c) PROVE FewNewClaims
  <2>1. \A o \in picks'[c] : Free(o)
    BY <1>i, <1>4 DEF Prepare
  <2>2. \A d \in Callers : d # c =>
          /\ picks'[d] = picks[d] /\ call'[d] = call[d] /\ life'[d] = life[d]
          /\ <<d, 1>> \in stored' <=> <<d, 1>> \in stored
    BY <1>4, GotoFields DEF Prepare
  <2>3. UNCHANGED mined
    BY <1>4 DEF Prepare
  <2>4. \A o \in Outputs : Claims(c, o)' => Free(o)
    BY <2>1 DEF Claims, ClaimsByLock, Spends
  <2>5. \A d \in Callers, o \in Outputs : d # c /\ Claims(d, o)' => Claims(d, o)
    BY <2>2, <2>3 DEF Claims, ClaimsByLock, Spends
  <2> QED
    BY <2>4, <2>5 DEF FewNewClaims
<1>5. ASSUME NEW c \in Callers, CreatePczt(c) PROVE FewNewClaims
  <2>1. \A o \in picks'[c] : Free(o)
    BY <1>i, <1>5 DEF CreatePczt
  <2>2. \A d \in Callers : d # c =>
          /\ picks'[d] = picks[d] /\ call'[d] = call[d] /\ life'[d] = life[d]
          /\ <<d, 1>> \in stored' <=> <<d, 1>> \in stored
    BY <1>5, GotoFields DEF CreatePczt
  <2>3. UNCHANGED mined
    BY <1>5 DEF CreatePczt
  <2>4. \A o \in Outputs : Claims(c, o)' => Free(o)
    BY <2>1 DEF Claims, ClaimsByLock, Spends
  <2>5. \A d \in Callers, o \in Outputs : d # c /\ Claims(d, o)' => Claims(d, o)
    BY <2>2, <2>3 DEF Claims, ClaimsByLock, Spends
  <2> QED
    BY <2>4, <2>5 DEF FewNewClaims
<1>6. ASSUME NEW c \in Callers, Acknowledge(c) PROVE FewNewClaims
  BY <1>i, <1>6, MarkFields DEF AbandonsOwn, Acknowledge, Claims,
    ClaimsByLock, Current, Early, EarlyIsClean, FewNewClaims, HandedIsStored,
    NetworkOrder, Spends
<1>7. ASSUME NEW c \in Callers, ReleaseUnacknowledged(c) PROVE FewNewClaims
  BY <1>i, <1>7 DEF AbandonsOwn, Claims, ClaimsByLock, Current, Early,
    EarlyIsClean, FewNewClaims, HandedIsStored, NetworkOrder,
    ReleaseUnacknowledged, Spends, Unlocked, UnlockedBy
<1>8. ASSUME NEW c \in Callers, Authorize(c) PROVE FewNewClaims
  BY <1>i, <1>8, SignFields DEF AbandonsOwn, Authorize, Claims, ClaimsByLock,
    Current, Early, EarlyIsClean, FewNewClaims, HandedIsStored, NetworkOrder,
    Spends
<1>9. ASSUME NEW c \in Callers, Extract(c) PROVE FewNewClaims
  BY <1>i, <1>9, MarkFields DEF AbandonsOwn, AfterExtractError, Claims,
    ClaimsByLock, Current, Early, EarlyIsClean, Extract, Extracted,
    FewNewClaims, HandedIsStored, NetworkOrder, Spends, SpentOf, Unlocked
<1>10. ASSUME NEW c \in Callers, FacilitatorSubmits(c) PROVE FewNewClaims
  BY <1>i, <1>10, GotoFields DEF AbandonsOwn, Claims, ClaimsByLock, Current,
    Early, EarlyIsClean, FacilitatorSubmits, FewNewClaims, HandedIsStored,
    NetworkOrder, Spends
<1>11. ASSUME NEW c \in Callers, Abandon(c) PROVE FewNewClaims
  <2>1. UNCHANGED <<picks, stored, life, mined>>
    BY <1>11 DEF Abandon
  <2>2. /\ \A d \in Callers : d # c => call'[d] = call[d]
        /\ call'[c].at \in {"roles", "failed"}
        /\ call'[c].at = "roles" => call[c].at = "roles"
    <3>1. PICK at : /\ Mark(c, at, {"abandoned"})
                    /\ at = IF call[c].kind = "pczt" THEN "roles" ELSE "failed"
      BY <1>11 DEF Abandon
    <3> QED
      BY <1>i, <1>11, <3>1, MarkFields DEF Abandon, AbandonsOwn
  <2>3. \A d \in Callers, o \in Outputs : Claims(d, o)' => Claims(d, o)
    BY <2>1, <2>2 DEF Claims, ClaimsByLock, Spends
  <2> QED
    BY <2>3 DEF FewNewClaims
<1>12. ASSUME NEW c \in Callers, RecordPending(c) PROVE FewNewClaims
  BY <1>i, <1>12, GotoFields DEF AbandonsOwn, Claims, ClaimsByLock, Current,
    Early, EarlyIsClean, FewNewClaims, HandedIsStored, NetworkOrder,
    RecordPending, Spends
<1>13. ASSUME NEW c \in Callers, Attempt(c) PROVE FewNewClaims
  BY <1>i, <1>13 DEF AbandonsOwn, Attempt, Claims, ClaimsByLock, Current,
    Early, EarlyIsClean, FewNewClaims, HandedIsStored, NetworkOrder, Spends
<1>14. ASSUME NEW c \in Callers, SubmitAccepted(c) PROVE FewNewClaims
  <2>1. UNCHANGED <<picks, stored, life, mined>>
    BY <1>14 DEF SubmitAccepted
  <2>2. /\ \A d \in Callers : d # c => call'[d] = call[d]
        /\ call'[c].at \in {"done", "record", "pending"}
    BY <1>14, GotoFields, AdvanceFields DEF SubmitAccepted
  <2>3. \A d \in Callers, o \in Outputs : Claims(d, o)' => Claims(d, o)
    BY <2>1, <2>2 DEF Claims, ClaimsByLock, Spends
  <2> QED
    BY <2>3 DEF FewNewClaims
<1>15. ASSUME NEW c \in Callers, ClearPending(c) PROVE FewNewClaims
  BY <1>i, <1>15, GotoFields DEF AbandonsOwn, Claims, ClaimsByLock,
    ClearPending, Current, Early, EarlyIsClean, FewNewClaims, HandedIsStored,
    NetworkOrder, Spends
<1>16. ASSUME NEW c \in Callers, Record(c) PROVE FewNewClaims
  BY <1>i, <1>16, RecordFields DEF AbandonsOwn, Claims, ClaimsByLock,
    Current, Early, EarlyIsClean, FewNewClaims, HandedIsStored, NetworkOrder,
    Spends
<1>17. ASSUME NEW c \in Callers, Moves(c) PROVE FewNewClaims
  BY <1>i, <1>17, MovesFields DEF AbandonsOwn, Claims, ClaimsByLock, Current,
    Early, EarlyIsClean, FewNewClaims, HandedIsStored, NetworkOrder, Spends
<1>18. ASSUME Crash PROVE FewNewClaims
  BY <1>i, <1>18, DeathFields DEF AbandonsOwn, Claims, ClaimsByLock, Crash,
    Current, Early, EarlyIsClean, FewNewClaims, HandedIsStored, NetworkOrder,
    Spends
<1>19. ASSUME NewBlock PROVE FewNewClaims
  BY <1>i, <1>19 DEF AbandonsOwn, Claims, ClaimsByLock, Current, Early,
    EarlyIsClean, FewNewClaims, HandedIsStored, Less, NetworkOrder, NewBlock,
    Spends, Tick, Unlocked
<1>20. ASSUME NEW t \in Txs, Mine(t) PROVE FewNewClaims
  BY <1>i, <1>20 DEF AbandonsOwn, Claims, ClaimsByLock, Current, Early,
    EarlyIsClean, FewNewClaims, HandedIsStored, Mine, NetworkOrder, Spends
<1>21. ASSUME NEW t \in Txs, RetirePending(t) PROVE FewNewClaims
  BY <1>i, <1>21 DEF AbandonsOwn, Claims, ClaimsByLock, Current, Early,
    EarlyIsClean, FewNewClaims, HandedIsStored, NetworkOrder, RetirePending,
    Spends
<1>22. CASE UNCHANGED vars
  BY <1>i, <1>22 DEF AbandonsOwn, Claims, ClaimsByLock, Current, Early,
    EarlyIsClean, FewNewClaims, HandedIsStored, NetworkOrder, Spends, vars
<1> QED
  BY <1>1, <1>2, <1>3, <1>4, <1>5, <1>6, <1>7, <1>8, <1>9, <1>10, <1>11,
    <1>12, <1>13, <1>14, <1>15, <1>16, <1>17, <1>18, <1>19, <1>20, <1>21,
    <1>22 DEF Next, CallerStep, Moves

(* Locks outlive the claims they stand for: an output that is locked is not
   picked, and extraction clears only locks of its own claim. *)
LEMMA LocksOutliveClaimsStep ==
  ASSUME SpendingInv, [Next]_vars
  PROVE  LocksOutliveClaims'
<1>c. CallType /\ CallType'
  BY StepTypes DEF TypeOK, CallType, SpendingInv
<1>i. TypeOK /\ LocksOutliveClaims /\ EarlyIsClean /\ PcztPlaces /\ AbandonsOwn /\ OneClaimPerOutput
  BY DEF SpendingInv
<1> USE SpendingAssumption, <1>c DEF TypeOK, SameCall, dbVars, pcztVars, chainVars, ActorFree,
        Terminal
<1>k. \A o \in Outputs : Tight(o)' => Tight(o)
  BY PicksKeptStep, TightBack
<1>1. ASSUME NEW c \in Callers, Begin(c) PROVE LocksOutliveClaims'
  BY <1>i, <1>k, <1>1, BeginFields DEF AbandonsOwn, Claims, ClaimsByLock,
    Early, EarlyIsClean, Free, LocksOutliveClaims, Loose, OneClaimPerOutput,
    PcztPlaces, Spends, Tight, UsesPczt
<1>2. ASSUME NEW c \in Callers, Lookup(c) PROVE LocksOutliveClaims'
  BY <1>i, <1>k, <1>2, LookupFields DEF AbandonsOwn, ActorFree, Claims,
    ClaimsByLock, Early, EarlyIsClean, Free, LocksOutliveClaims, Loose,
    OneClaimPerOutput, PcztPlaces, Spends, Tight, UsesPczt
<1>3. ASSUME NEW c \in Callers, ProposalLeaks(c) PROVE LocksOutliveClaims'
  <2>1. \A d \in Callers, o \in Outputs :
          ClaimsByLock(d, o)' => ClaimsByLock(d, o) /\ life'[d] = life[d]
    BY <1>i, <1>3, GotoFields DEF ProposalLeaks, ClaimsByLock
  <2>2. \A o \in Outputs : Free(o) \/ locks'[o] = locks[o]
    BY <1>i, <1>3 DEF ProposalLeaks, SpentOf, LockedBy
  <2> QED
    BY <1>i, <1>k, <2>1, <2>2 DEF LocksOutliveClaims, Free, ClaimsByLock
<1>4. ASSUME NEW c \in Callers, Prepare(c) PROVE LocksOutliveClaims'
  <2>1. \A d \in Callers, o \in Outputs :
          ClaimsByLock(d, o)' => ClaimsByLock(d, o) /\ life'[d] = life[d]
    BY <1>i, <1>4, GotoFields DEF Prepare, ClaimsByLock
  <2>2. \A o \in Outputs : Free(o) \/ locks'[o] = locks[o]
    BY <1>i, <1>4 DEF Prepare, SpentOf, LockedBy
  <2> QED
    BY <1>i, <1>k, <2>1, <2>2 DEF LocksOutliveClaims, Free, ClaimsByLock
<1>5. ASSUME NEW c \in Callers, CreatePczt(c) PROVE LocksOutliveClaims'
  <2>1. \A d \in Callers, o \in Outputs :
          d # c /\ ClaimsByLock(d, o)' => ClaimsByLock(d, o) /\ life'[d] = life[d]
    BY <1>i, <1>5, GotoFields DEF CreatePczt, ClaimsByLock
  <2>2. \A o \in Outputs : o \notin picks'[c] => locks'[o] = locks[o]
    BY <1>i, <1>5 DEF CreatePczt, LockedBy
  <2>3. \A o \in Outputs : o \in picks'[c] =>
          Free(o) /\ locks'[o].by = c /\ locks'[o].left = LockBlocks
    BY <1>i, <1>5 DEF CreatePczt, LockedBy
  <2>4. \A o \in Outputs : Tight(o)' /\ o \in picks'[c] => life'[c] <= LockBlocks
    <3>1. UsesPczt(c)' /\ life'[c] = call'[c].target /\ life'[c] \in Nat
      <4>1. UsesPczt(c) /\ life'[c] = call[c].target /\ Goto(c, "created")
        BY <1>i, <1>5 DEF CreatePczt
      <4>2. call[c].target \in Nat
        BY <1>c, TargetType DEF CallType, CallRecords
      <4> QED
        BY <4>1, <4>2, GotoFields DEF UsesPczt
    <3> QED
      BY <3>1 DEF Tight, Loose
  <2>5. \A d \in Callers, o \in Outputs :
          d # c /\ Tight(o)' /\ ClaimsByLock(d, o)' => o \notin picks'[c]
    BY <1>i, <1>k, <2>1, <2>3 DEF LocksOutliveClaims, Free, ClaimsByLock
  <2> QED
    BY <1>i, <1>k, <2>1, <2>2, <2>3, <2>4, <2>5 DEF LocksOutliveClaims, ClaimsByLock
<1>6. ASSUME NEW c \in Callers, Acknowledge(c) PROVE LocksOutliveClaims'
  BY <1>i, <1>k, <1>6, MarkFields DEF AbandonsOwn, Acknowledge, Claims,
    ClaimsByLock, Early, EarlyIsClean, Free, LocksOutliveClaims, Loose,
    OneClaimPerOutput, PcztPlaces, Spends, Tight, UsesPczt
<1>7. ASSUME NEW c \in Callers, ReleaseUnacknowledged(c) PROVE LocksOutliveClaims'
  <2>1. call[c].at = "gone" /\ UNCHANGED <<picks, life, stored, call>>
    BY <1>7 DEF ReleaseUnacknowledged
  <2>2. \A o \in Outputs : locks[o].by # c => locks'[o] = locks[o]
    BY <1>i, <1>7 DEF ReleaseUnacknowledged, UnlockedBy
  <2>3. \A d \in Callers, o \in Outputs :
          ClaimsByLock(d, o)' => d # c /\ ClaimsByLock(d, o)
    BY <2>1 DEF ClaimsByLock
  <2> QED
    BY <1>i, <1>k, <2>1, <2>2, <2>3 DEF LocksOutliveClaims
<1>8. ASSUME NEW c \in Callers, Authorize(c) PROVE LocksOutliveClaims'
  BY <1>i, <1>k, <1>8, SignFields DEF AbandonsOwn, Authorize, Claims,
    ClaimsByLock, Early, EarlyIsClean, Free, LocksOutliveClaims, Loose,
    OneClaimPerOutput, PcztPlaces, Spends, Tight, UsesPczt
<1>9. ASSUME NEW c \in Callers, Extract(c) PROVE LocksOutliveClaims'
  <2>1. <<c, 1>> \in stored' /\ UNCHANGED <<picks, life>> /\ call[c].at = "roles"
    BY <1>9 DEF Extract
  <2>2. PICK at : Extracted(c, at)
    BY <1>9 DEF Extract
  <2>3. \A d \in Callers, o \in Outputs :
          ClaimsByLock(d, o)' => d # c /\ ClaimsByLock(d, o)
    BY <1>9, <2>1, <2>2, MarkFields DEF ClaimsByLock, Extracted, Extract
  <2>4. \A o \in Outputs : Tight(o)' /\ o \in picks[c] => Claims(c, o)
    <3>1. UsesPczt(c)'
      <4>1. UsesPczt(c)
        BY <1>i, <2>1 DEF PcztPlaces
      <4> QED
        BY <2>2, <4>1, MarkFields DEF Extracted, UsesPczt
    <3>2. call'[c].marks = call[c].marks \cup {m \in {"overdue"} : life[c] = 0}
      BY <2>2, MarkFields DEF Extracted
    <3>3. \A o \in Outputs : Tight(o)' /\ o \in picks[c] => life[c] # 0
      BY <2>1, <3>1, <3>2 DEF Tight, Loose
    <3> QED
      BY <1>i, <2>1, <3>3 DEF Claims, Spends, ClaimsByLock
  <2>5. \A o \in Outputs : o \notin picks[c] => locks'[o] = locks[o]
    BY <1>i, <1>9 DEF Extract, SpentOf
  <2>6. \A d \in Callers, o \in Outputs :
          Tight(o)' /\ ClaimsByLock(d, o)' => o \notin picks[c]
    BY <1>i, <1>k, <2>3, <2>4 DEF OneClaimPerOutput, Claims
  <2> QED
    BY <1>i, <1>k, <2>1, <2>3, <2>5, <2>6 DEF LocksOutliveClaims
<1>10. ASSUME NEW c \in Callers, FacilitatorSubmits(c) PROVE LocksOutliveClaims'
  BY <1>i, <1>k, <1>10, GotoFields DEF AbandonsOwn, Claims, ClaimsByLock,
    Early, EarlyIsClean, FacilitatorSubmits, Free, LocksOutliveClaims, Loose,
    OneClaimPerOutput, PcztPlaces, Spends, Tight, UsesPczt
<1>11. ASSUME NEW c \in Callers, Abandon(c) PROVE LocksOutliveClaims'
  <2>1. UNCHANGED <<picks, life, stored>>
    BY <1>11 DEF Abandon
  <2>2. PICK at \in {"roles", "failed"} :
          /\ Mark(c, at, {"abandoned"})
          /\ at = "roles" => call[c].at = "roles" /\ call[c].kind = "pczt"
    BY <1>i, <1>11 DEF Abandon, AbandonsOwn
  <2>3. \A d \in Callers, o \in Outputs : ClaimsByLock(d, o)' => ClaimsByLock(d, o)
    BY <2>1, <2>2, MarkFields DEF ClaimsByLock
  <2>4. \A o \in Outputs : ~ (Tight(o)' /\ ClaimsByLock(c, o)')
    <3>1. call'[c].at = "roles" => UsesPczt(c)' /\ "abandoned" \in call'[c].marks
      BY <2>2, MarkFields DEF UsesPczt
    <3>2. call'[c].at # "created"
      BY <2>2, MarkFields
    <3> QED
      BY <3>1, <3>2 DEF Tight, Loose, ClaimsByLock
  <2>5. \A o \in Outputs : locks[o].by # c => locks'[o] = locks[o]
    BY <1>i, <1>11 DEF Abandon, UnlockedBy
  <2> QED
    BY <1>i, <1>k, <2>1, <2>3, <2>4, <2>5 DEF LocksOutliveClaims
<1>12. ASSUME NEW c \in Callers, RecordPending(c) PROVE LocksOutliveClaims'
  BY <1>i, <1>k, <1>12, GotoFields DEF AbandonsOwn, Claims, ClaimsByLock,
    Current, Early, EarlyIsClean, Free, LocksOutliveClaims, Loose,
    OneClaimPerOutput, PcztPlaces, RecordPending, Spends, Tight, UsesPczt
<1>13. ASSUME NEW c \in Callers, Attempt(c) PROVE LocksOutliveClaims'
  BY <1>i, <1>k, <1>13 DEF AbandonsOwn, Attempt, Claims, ClaimsByLock,
    Current, Early, EarlyIsClean, Free, LocksOutliveClaims, Loose,
    OneClaimPerOutput, PcztPlaces, Spends, Tight, UsesPczt
<1>14. ASSUME NEW c \in Callers, SubmitAccepted(c) PROVE LocksOutliveClaims'
  BY <1>i, <1>k, <1>14, GotoFields, AdvanceFields DEF AbandonsOwn, Claims,
    ClaimsByLock, Current, Early, EarlyIsClean, Free, LocksOutliveClaims,
    Loose, OneClaimPerOutput, PcztPlaces, Spends, SubmitAccepted, Tight,
    UsesPczt
<1>15. ASSUME NEW c \in Callers, ClearPending(c) PROVE LocksOutliveClaims'
  BY <1>i, <1>k, <1>15, GotoFields DEF AbandonsOwn, Claims, ClaimsByLock,
    ClearPending, Current, Early, EarlyIsClean, Free, LocksOutliveClaims,
    Loose, OneClaimPerOutput, PcztPlaces, Spends, Tight, UsesPczt
<1>16. ASSUME NEW c \in Callers, Record(c) PROVE LocksOutliveClaims'
  BY <1>i, <1>k, <1>16, RecordFields DEF AbandonsOwn, Claims, ClaimsByLock,
    Early, EarlyIsClean, Free, LocksOutliveClaims, Loose, OneClaimPerOutput,
    PcztPlaces, Spends, Tight, UsesPczt
<1>17. ASSUME NEW c \in Callers, Moves(c) PROVE LocksOutliveClaims'
  BY <1>i, <1>k, <1>17, MovesFields DEF AbandonsOwn, Claims, ClaimsByLock,
    Early, EarlyIsClean, Free, LocksOutliveClaims, Loose, OneClaimPerOutput,
    PcztPlaces, Spends, Tight, UsesPczt
<1>18. ASSUME Crash PROVE LocksOutliveClaims'
  BY <1>i, <1>k, <1>18, DeathFields DEF AbandonsOwn, Claims, ClaimsByLock,
    Crash, Early, EarlyIsClean, Free, LocksOutliveClaims, Loose,
    OneClaimPerOutput, PcztPlaces, Spends, Tight, UsesPczt
<1>19. ASSUME NewBlock PROVE LocksOutliveClaims'
  BY <1>i, <1>k, <1>19 DEF AbandonsOwn, Claims, ClaimsByLock, Early,
    EarlyIsClean, Free, Less, LocksOutliveClaims, Loose, NewBlock,
    OneClaimPerOutput, PcztPlaces, Spends, Tick, Tight, Unlocked, UsesPczt
<1>20. ASSUME NEW t \in Txs, Mine(t) PROVE LocksOutliveClaims'
  BY <1>i, <1>k, <1>20 DEF AbandonsOwn, Claims, ClaimsByLock, Early,
    EarlyIsClean, Free, LocksOutliveClaims, Loose, Mine, OneClaimPerOutput,
    PcztPlaces, Spends, Tight, UsesPczt
<1>21. ASSUME NEW t \in Txs, RetirePending(t) PROVE LocksOutliveClaims'
  BY <1>i, <1>k, <1>21 DEF AbandonsOwn, Claims, ClaimsByLock, Early,
    EarlyIsClean, Free, LocksOutliveClaims, Loose, OneClaimPerOutput,
    PcztPlaces, RetirePending, Spends, Tight, UsesPczt
<1>22. CASE UNCHANGED vars
  BY <1>i, <1>22 DEF AbandonsOwn, Claims, ClaimsByLock, Early, EarlyIsClean,
    Free, LocksOutliveClaims, Loose, OneClaimPerOutput, PcztPlaces, Spends,
    Tight, UsesPczt, vars
<1> QED
  BY <1>1, <1>2, <1>3, <1>4, <1>5, <1>6, <1>7, <1>8, <1>9, <1>10, <1>11,
    <1>12, <1>13, <1>14, <1>15, <1>16, <1>17, <1>18, <1>19, <1>20, <1>21,
    <1>22 DEF Next, CallerStep, Moves

(* No two proposals claim an output: whoever claims it anew found it free. *)
LEMMA OneClaimPerOutputStep ==
  ASSUME SpendingInv, [Next]_vars
  PROVE  OneClaimPerOutput'
<1>1. FewNewClaims /\ \A o \in Outputs : Tight(o)' => Tight(o)
  BY FewNewClaimsStep, PicksKeptStep, TightBack
<1>2. TypeOK /\ LocksOutliveClaims /\ OneClaimPerOutput
  BY DEF SpendingInv
<1>3. ASSUME NEW o \in Outputs, Tight(o), Free(o), NEW d \in Callers
      PROVE  ~ Claims(d, o)
  <2>1. ~ Spends(d, o)
    BY <1>3 DEF Free
  <2>2. ASSUME ClaimsByLock(d, o) PROVE FALSE
    <3>1. locks[o].left >= life[d] /\ life[d] > 0
      BY <1>2, <1>3, <2>2 DEF LocksOutliveClaims, ClaimsByLock
    <3>2. locks[o].left = 0 /\ life[d] \in Nat
      BY <1>2, <1>3 DEF Free, TypeOK
    <3> QED
      BY <3>1, <3>2
  <2> QED
    BY <2>1, <2>2 DEF Claims
<1> QED
  BY <1>1, <1>2, <1>3 DEF FewNewClaims, OneClaimPerOutput

-----------------------------------------------------------------------------
(* Initially no call has left anything behind. *)
LEMMA InitInv ==
  ASSUME Init
  PROVE  SpendingInv
<1> USE DEF Init, Idle, Unlocked
<1>1. TypeOK
  <2>1. Idle \in CallRecords
    BY SpendingAssumption DEF CallRecords, Kinds, Places, Marks
  <2>2. \A c \in Callers : call[c] = Idle
    OBVIOUS
  <2>3. call \in [Callers -> CallRecords]
    BY <2>1 DEF Init
  <2> HIDE DEF Idle
  <2> QED
    BY <2>3, SpendingAssumption DEF TypeOK
<1>2. /\ EarlyIsClean /\ CreatedIsAwaited /\ AwaitedIsUntaken /\ LeakedIsOver
      /\ PcztPlaces /\ TakenPlaces /\ HandedIsStored /\ AbandonsOwn
  BY SpendingAssumption DEF EarlyIsClean, CreatedIsAwaited, AwaitedIsUntaken,
     LeakedIsOver, PcztPlaces, TakenPlaces, HandedIsStored, AbandonsOwn
<1>3. /\ SubmittedWasRetained /\ SubmitsRecorded /\ StepsInOrder
      /\ LateStopsAtLookup /\ AnsweredIsDone /\ LateCallsBuildNothing
  BY DEF SubmittedWasRetained, SubmitsRecorded, StepsInOrder, Submitting,
     LateStopsAtLookup, AnsweredIsDone, LateCallsBuildNothing
<1>4. /\ NetworkOrder /\ EarlierStepsAcked /\ RecordsComplete /\ BoundIsComplete
  BY DEF NetworkOrder, EarlierStepsAcked, RecordsComplete, BoundIsComplete
<1>5. /\ RowsArePicked /\ ShieldOnly /\ AwaitedRows /\ LocksTaken /\ RowsTaken
  BY SpendingAssumption DEF RowsArePicked, ShieldOnly, AwaitedRows, LocksTaken,
     RowsTaken
<1>6. /\ SubmittedIsRetained /\ PendingBeforeSubmit /\ InFlightIsPending
      /\ LocksOutliveClaims /\ OneClaimPerOutput
  BY DEF SubmittedIsRetained, PendingBeforeSubmit, InFlightIsPending,
     LocksOutliveClaims, OneClaimPerOutput, Claims, ClaimsByLock, Spends
<1> QED
  BY <1>1, <1>2, <1>3, <1>4, <1>5, <1>6 DEF SpendingInv

(* Each part is kept by every step. *)
LEMMA StepInv ==
  ASSUME SpendingInv, [Next]_vars
  PROVE  SpendingInv'
<1>1. TypeOK'
  BY StepTypes DEF SpendingInv
<1> QED
  BY <1>1, EarlyIsCleanStep, CreatedIsAwaitedStep, AwaitedIsUntakenStep,
    LeakedIsOverStep, PcztPlacesStep, TakenPlacesStep, HandedIsStoredStep,
    AbandonsOwnStep, SubmittedWasRetainedStep, SubmitsRecordedStep,
    StepsInOrderStep, LateStopsAtLookupStep, AnsweredIsDoneStep,
    NetworkOrderStep, EarlierStepsAckedStep, RecordsCompleteStep,
    BoundIsCompleteStep, RowsArePickedStep, ShieldOnlyStep, AwaitedRowsStep,
    LocksTakenStep, RowsTakenStep, PendingBeforeSubmitStep,
    SubmittedIsRetainedStep, LateCallsBuildNothingStep,
    InFlightIsPendingStep, LocksOutliveClaimsStep, OneClaimPerOutputStep
  DEF SpendingInv

(***************************************************************************)
(* The inductive invariant of spending: where a call is says what it left  *)
(* behind, and no two proposals claim one output.                          *)
(***************************************************************************)
THEOREM SpendingInvariant == Spec => []SpendingInv
  BY InitInv, StepInv, PTL DEF Spec

(***************************************************************************)
(* Types of the database, the ledger, the calls and the network.           *)
(***************************************************************************)
THEOREM SpendingTypes == Spec => []TypeOK
<1>1. SpendingInv => TypeOK
  BY DEF SpendingInv
<1> QED
  BY <1>1, SpendingInvariant, PTL

(***************************************************************************)
(* No output is spent by two transactions that are mined or may still be,  *)
(* for any number of calls, outputs and blocks (sqlite.rs:3424).           *)
(***************************************************************************)
THEOREM NoDoubleSpend == Spec => []OneSpendPerOutput
<1>1. SpendingInv => OneSpendPerOutput
  BY DEF SpendingInv, OneClaimPerOutput, OneSpendPerOutput, Claims, Tight
<1> QED
  BY <1>1, SpendingInvariant, PTL

(***************************************************************************)
(* Input locks are held only for a caller that can give them back          *)
(* (dispatch_pczt_creation, sqlite.rs:287).                                *)
(***************************************************************************)
THEOREM LocksAreReleasable == Spec => []LocksReleasable
<1>1. SpendingInv => LocksReleasable
  BY DEF SpendingInv, LocksTaken, RowsTaken, LocksReleasable
<1> QED
  BY <1>1, SpendingInvariant, PTL

(***************************************************************************)
(* A submitted PCZT is retained for disclosure (sqlite.rs:1312).           *)
(***************************************************************************)
THEOREM SubmittedRetained == Spec => []SubmittedIsRetained
<1>1. SpendingInv => SubmittedIsRetained
  BY DEF SpendingInv
<1> QED
  BY <1>1, SpendingInvariant, PTL

(***************************************************************************)
(* Transparent inputs in flight are reported as pending (spend.rs:596).    *)
(***************************************************************************)
THEOREM InFlightPending == Spec => []PendingWhileInFlight
<1>1. ASSUME SpendingInv, NEW t \in wire, HasTransparentInputs(t), life[t[1]] > 0,
             t \notin mined, call[t[1]].at # "failed"
      PROVE  t \in pending
  <2>1. TypeOK /\ InFlightIsPending
    BY <1>1 DEF SpendingInv
  <2>2. t \in Txs
    BY <2>1 DEF TypeOK
  <2>3. t[2] = 1 /\ picks[t[1]] \cap Transparent # {}
    BY <1>1 DEF HasTransparentInputs, Inputs
  <2>4. t = <<t[1], 1>> /\ t[1] \in Callers
    BY <2>2, <2>3 DEF Txs
  <2> QED
    BY <1>1, <2>1, <2>3, <2>4 DEF InFlightIsPending
<1>2. ASSUME SpendingInv, NEW t \in wire, life[t[1]] > 0, t \notin mined,
             call[t[1]].at # "failed", NEW o \in Inputs(t) \cap Transparent
      PROVE  <<o, t>> \in PendingInputs
  <2>1. t \in pending
    BY <1>1, <1>2 DEF HasTransparentInputs
  <2> QED
    BY <1>2, <2>1 DEF PendingInputs
<1>3. SpendingInv => PendingWhileInFlight
  BY <1>2 DEF PendingWhileInFlight
<1> QED
  BY <1>3, SpendingInvariant, PTL

(***************************************************************************)
(* A retry under a bound key builds no second payment (spend.rs:359).      *)
(***************************************************************************)
THEOREM RetriesBuildNothing == Spec => []LateCallsBuildNothing
<1>1. SpendingInv => LateCallsBuildNothing
  BY DEF SpendingInv
<1> QED
  BY <1>1, SpendingInvariant, PTL

-----------------------------------------------------------------------------
(* The refinement.                                                         *)

\* At most one payment completes in a step, and none is undone.
OneCompletes ==
  /\ \A d \in Callers : Complete(d) => Complete(d)'
  /\ \A d, e \in Callers :
       Complete(d)' /\ Complete(e)' => d = e \/ Complete(d) \/ Complete(e)

\* A call finds or binds its key; nothing else touches ledger and answers.
RegisterStep ==
  \/ /\ UNCHANGED ledger /\ OneCompletes
     /\ \A d \in Callers : call'[d].answer = call[d].answer
  \/ /\ \A d \in Callers : Complete(d)' <=> Complete(d)
     /\ \E c, p \in Callers, k \in Keys :
          /\ Complete(p) /\ ledger[k] \in {Nobody, p}
          /\ ledger' = [ledger EXCEPT ![k] = p]
          /\ \A d \in Callers : d # c => call'[d].answer = call[d].answer
          /\ \/ call[c].answer = Nobody /\ call'[c].answer = <<k, p>>
             \/ ledger[k] = Nobody /\ call'[c].answer = call[c].answer

(* A step that leaves ledger, answers and acknowledgements leaves the register. *)
LEMMA RegisterIdle ==
  ASSUME UNCHANGED <<ledger, acked>>,
         \A d \in Callers : /\ call'[d].steps = call[d].steps
                            /\ call'[d].answer = call[d].answer
  PROVE  RegisterStep
<1>1. \A d \in Callers : Complete(d)' <=> Complete(d)
  BY DEF Complete
<1> QED
  BY <1>1 DEF RegisterStep, OneCompletes

(* Every step is one of the register or leaves it alone. *)
LEMMA RegisterStepStep ==
  ASSUME SpendingInv, [Next]_vars
  PROVE  RegisterStep
<1>c. CallType /\ CallType'
  BY StepTypes DEF TypeOK, CallType, SpendingInv
<1>i. TypeOK /\ NetworkOrder /\ EarlyIsClean /\ BoundIsComplete /\ AnsweredIsDone /\ RecordsComplete
  BY DEF SpendingInv
<1>t. StepRanges
  BY <1>c DEF CallType, CallRecords, StepRanges
<1> USE SpendingAssumption, <1>c DEF TypeOK, SameCall, dbVars, pcztVars, chainVars, ActorFree,
        Terminal
<1>1. ASSUME NEW c \in Callers, Begin(c) PROVE RegisterStep
  <2>1. <<c, 1>> \notin acked /\ UNCHANGED <<acked, ledger>>
    BY <1>i, <1>1, BeginFields DEF EarlyIsClean, Early, NetworkOrder, Txs
  <2>2. /\ \A d \in Callers : d # c => call'[d] = call[d]
        /\ call'[c].answer = call[c].answer
    BY <1>1, BeginFields
  <2> QED
    BY <2>1, <2>2 DEF RegisterStep, OneCompletes, Complete
<1>2. ASSUME NEW c \in Callers, Lookup(c) PROVE RegisterStep
  <2>1. \A d \in Callers : Complete(d)' <=> Complete(d)
    BY <1>2, LookupFields DEF Complete
  <2>2. UNCHANGED ledger /\ \A d \in Callers : d # c => call'[d] = call[d]
    BY <1>2, LookupFields
  <2>3. CASE ledger[call[c].key] # Nobody
    <3> DEFINE k == call[c].key
               p == ledger[k]
    <3>1. k \in Keys
      BY <1>c DEF CallType, CallRecords
    <3>2. /\ p \in Callers /\ Complete(p) /\ ledger[k] = p
          /\ ledger' = [ledger EXCEPT ![k] = p]
      BY <1>i, <2>2, <2>3, <3>1, BoundPayments DEF BoundIsComplete
    <3>3. call[c].answer = Nobody
      BY <1>i, <1>2, LookupFields DEF AnsweredIsDone
    <3>4. call'[c].answer = <<k, p>>
      BY <1>2, <2>3, ReturnFields DEF Lookup
    <3> HIDE DEF k, p
    <3>5. \A d \in Callers : d # c => call'[d].answer = call[d].answer
      BY <2>2
    <3> QED
      BY <2>1, <3>1, <3>2, <3>3, <3>4, <3>5 DEF RegisterStep
  <2>4. CASE ledger[call[c].key] = Nobody
    <3>1. call'[c].answer = call[c].answer
      BY <1>2, <2>4, GotoFields DEF Lookup
    <3> QED
      BY <2>1, <2>2, <3>1 DEF RegisterStep, OneCompletes
  <2> QED
    BY <2>3, <2>4
<1>3. ASSUME NEW c \in Callers, ProposalLeaks(c) PROVE RegisterStep
  <2>1. /\ UNCHANGED <<ledger, acked>>
        /\ \A d \in Callers : /\ call'[d].steps = call[d].steps
                              /\ call'[d].answer = call[d].answer
    BY <1>3, GotoFields DEF ProposalLeaks
  <2> QED
    BY <2>1, RegisterIdle
<1>4. ASSUME NEW c \in Callers, Prepare(c) PROVE RegisterStep
  <2>1. /\ UNCHANGED <<ledger, acked>>
        /\ \A d \in Callers : /\ call'[d].steps = call[d].steps
                              /\ call'[d].answer = call[d].answer
    BY <1>4, GotoFields DEF Prepare
  <2> QED
    BY <2>1, RegisterIdle
<1>5. ASSUME NEW c \in Callers, CreatePczt(c) PROVE RegisterStep
  <2>1. /\ UNCHANGED <<ledger, acked>>
        /\ \A d \in Callers : /\ call'[d].steps = call[d].steps
                              /\ call'[d].answer = call[d].answer
    BY <1>5, GotoFields DEF CreatePczt
  <2> QED
    BY <2>1, RegisterIdle
<1>6. ASSUME NEW c \in Callers, Acknowledge(c) PROVE RegisterStep
  <2>1. /\ UNCHANGED <<ledger, acked>>
        /\ \A d \in Callers : /\ call'[d].steps = call[d].steps
                              /\ call'[d].answer = call[d].answer
    BY <1>6, MarkFields DEF Acknowledge
  <2> QED
    BY <2>1, RegisterIdle
<1>7. ASSUME NEW c \in Callers, ReleaseUnacknowledged(c) PROVE RegisterStep
  <2>1. /\ UNCHANGED <<ledger, acked>>
        /\ \A d \in Callers : /\ call'[d].steps = call[d].steps
                              /\ call'[d].answer = call[d].answer
    BY <1>7 DEF ReleaseUnacknowledged
  <2> QED
    BY <2>1, RegisterIdle
<1>8. ASSUME NEW c \in Callers, Authorize(c) PROVE RegisterStep
  <2>1. /\ UNCHANGED <<ledger, acked>>
        /\ \A d \in Callers : /\ call'[d].steps = call[d].steps
                              /\ call'[d].answer = call[d].answer
    BY <1>8, SignFields DEF Authorize
  <2> QED
    BY <2>1, RegisterIdle
<1>9. ASSUME NEW c \in Callers, Extract(c) PROVE RegisterStep
  <2>1. /\ UNCHANGED <<ledger, acked>>
        /\ \A d \in Callers : /\ call'[d].steps = call[d].steps
                              /\ call'[d].answer = call[d].answer
    BY <1>9, MarkFields DEF Extract, Extracted
  <2> QED
    BY <2>1, RegisterIdle
<1>10. ASSUME NEW c \in Callers, FacilitatorSubmits(c) PROVE RegisterStep
  <2>1. /\ UNCHANGED <<ledger, acked>>
        /\ \A d \in Callers : /\ call'[d].steps = call[d].steps
                              /\ call'[d].answer = call[d].answer
    BY <1>10, GotoFields DEF FacilitatorSubmits
  <2> QED
    BY <2>1, RegisterIdle
<1>11. ASSUME NEW c \in Callers, Abandon(c) PROVE RegisterStep
  <2>1. /\ UNCHANGED <<ledger, acked>>
        /\ \A d \in Callers : /\ call'[d].steps = call[d].steps
                              /\ call'[d].answer = call[d].answer
    BY <1>11, MarkFields DEF Abandon
  <2> QED
    BY <2>1, RegisterIdle
<1>12. ASSUME NEW c \in Callers, RecordPending(c) PROVE RegisterStep
  <2>1. /\ UNCHANGED <<ledger, acked>>
        /\ \A d \in Callers : /\ call'[d].steps = call[d].steps
                              /\ call'[d].answer = call[d].answer
    BY <1>12, GotoFields DEF RecordPending
  <2> QED
    BY <2>1, RegisterIdle
<1>13. ASSUME NEW c \in Callers, Attempt(c) PROVE RegisterStep
  <2>1. /\ UNCHANGED <<ledger, acked>>
        /\ \A d \in Callers : /\ call'[d].steps = call[d].steps
                              /\ call'[d].answer = call[d].answer
    BY <1>13 DEF Attempt
  <2> QED
    BY <2>1, RegisterIdle
<1>14. ASSUME NEW c \in Callers, SubmitAccepted(c) PROVE RegisterStep
  <2>1. /\ UNCHANGED ledger /\ acked' = acked \cup {Current(c)}
        /\ \A d \in Callers : call'[d].answer = call[d].answer /\ call'[d].steps = call[d].steps
    BY <1>14, GotoFields, AdvanceFields DEF SubmitAccepted
  <2>2. \A d \in Callers : Complete(d) => Complete(d)'
    BY <2>1 DEF Complete
  <2>3. \A d \in Callers : d # c => (Complete(d)' => Complete(d))
    BY <2>1 DEF Complete, Current
  <2> QED
    BY <2>1, <2>2, <2>3 DEF RegisterStep, OneCompletes
<1>15. ASSUME NEW c \in Callers, ClearPending(c) PROVE RegisterStep
  <2>1. /\ UNCHANGED <<ledger, acked>>
        /\ \A d \in Callers : /\ call'[d].steps = call[d].steps
                              /\ call'[d].answer = call[d].answer
    BY <1>15, GotoFields DEF ClearPending
  <2> QED
    BY <2>1, RegisterIdle
<1>16. ASSUME NEW c \in Callers, Record(c) PROVE RegisterStep
  <2>1. \A d \in Callers : Complete(d)' <=> Complete(d)
    BY <1>16, RecordFields DEF Complete
  <2>2. \A d \in Callers : d # c => call'[d] = call[d]
    BY <1>16, RecordFields
  <2>3. CASE UNCHANGED ledger /\ call'[c].answer = call[c].answer
    BY <2>1, <2>2, <2>3 DEF RegisterStep, OneCompletes
  <2>4. CASE ~ (UNCHANGED ledger /\ call'[c].answer = call[c].answer)
    <3> DEFINE k == call[c].key
    <3>1. k \in Keys
      BY <1>c DEF CallType, CallRecords
    <3>2. /\ ledger[k] \in {Nobody, c} /\ ledger' = [ledger EXCEPT ![k] = c]
          /\ Return(c, c) \/ Goto(c, "gone")
      BY <1>i, <1>16, <2>4, GotoFields DEF Record
    <3>3. Complete(c) /\ call[c].answer = Nobody
      BY <1>i, <1>16 DEF Record, RecordsComplete, AnsweredIsDone
    <3>4. \/ call'[c].answer = <<k, c>>
          \/ ledger[k] = Nobody /\ call'[c].answer = call[c].answer
      BY <1>i, <2>4, <3>1, <3>2, ReturnFields, GotoFields
    <3> HIDE DEF k
    <3> QED
      BY <2>1, <2>2, <3>1, <3>2, <3>3, <3>4 DEF RegisterStep
  <2> QED
    BY <2>3, <2>4
<1>17. ASSUME NEW c \in Callers, Moves(c) PROVE RegisterStep
  <2>1. /\ UNCHANGED <<ledger, acked>>
        /\ \A d \in Callers : /\ call'[d].steps = call[d].steps
                              /\ call'[d].answer = call[d].answer
    BY <1>17, MovesFields
  <2> QED
    BY <2>1, RegisterIdle
<1>18. ASSUME Crash PROVE RegisterStep
  <2>1. /\ UNCHANGED <<ledger, acked>>
        /\ \A d \in Callers : /\ call'[d].steps = call[d].steps
                              /\ call'[d].answer = call[d].answer
    BY <1>18, DeathFields DEF Crash
  <2> QED
    BY <2>1, RegisterIdle
<1>19. ASSUME NewBlock PROVE RegisterStep
  <2>1. /\ UNCHANGED <<ledger, acked>>
        /\ \A d \in Callers : /\ call'[d].steps = call[d].steps
                              /\ call'[d].answer = call[d].answer
    BY <1>19 DEF NewBlock
  <2> QED
    BY <2>1, RegisterIdle
<1>20. ASSUME NEW t \in Txs, Mine(t) PROVE RegisterStep
  <2>1. /\ UNCHANGED <<ledger, acked>>
        /\ \A d \in Callers : /\ call'[d].steps = call[d].steps
                              /\ call'[d].answer = call[d].answer
    BY <1>20 DEF Mine
  <2> QED
    BY <2>1, RegisterIdle
<1>21. ASSUME NEW t \in Txs, RetirePending(t) PROVE RegisterStep
  <2>1. /\ UNCHANGED <<ledger, acked>>
        /\ \A d \in Callers : /\ call'[d].steps = call[d].steps
                              /\ call'[d].answer = call[d].answer
    BY <1>21 DEF RetirePending
  <2> QED
    BY <2>1, RegisterIdle
<1>22. CASE UNCHANGED vars
  BY <1>i, <1>22 DEF AnsweredIsDone, BoundIsComplete, Complete, Current,
    Early, EarlyIsClean, NetworkOrder, OneCompletes, RecordsComplete,
    RegisterStep, StepRanges, vars
<1> QED
  BY <1>1, <1>2, <1>3, <1>4, <1>5, <1>6, <1>7, <1>8, <1>9, <1>10, <1>11,
    <1>12, <1>13, <1>14, <1>15, <1>16, <1>17, <1>18, <1>19, <1>20, <1>21,
    <1>22 DEF Next, CallerStep, Moves

(* The steps 1..steps of a payment, spelled out. *)
LEMMA CompleteIsComplete ==
  TypeOK => \A c \in Callers : PaymentComplete(c) <=> Complete(c)
<1> SUFFICES ASSUME TypeOK, NEW c \in Callers
             PROVE  PaymentComplete(c) <=> Complete(c)
  OBVIOUS
<1>1. call[c].steps \in {1, 2}
  BY DEF TypeOK, CallRecords
<1>2. CASE call[c].steps = 1
  BY <1>2 DEF PaymentComplete, Complete
<1>3. CASE call[c].steps = 2
  BY <1>3 DEF PaymentComplete, Complete
<1> QED
  BY <1>1, <1>2, <1>3

(***************************************************************************)
(* The keyed operations implement the register, for any number of calls,   *)
(* keys and crashes (spend.rs:417, sqlite.rs:1389).                        *)
(***************************************************************************)
THEOREM SpendingImplementsRegister == Spec => ImplementsRegister
<1>1. Init => Register!RegInit
  <2> SUFFICES ASSUME Init PROVE Register!RegInit
    OBVIOUS
  <2>1. TypeOK
    BY InitInv DEF SpendingInv
  <2>2. \A c \in Callers : ~ PaymentComplete(c)
    BY <2>1, CompleteIsComplete DEF Complete, Init
  <2>3. \A c \in Callers : call[c].answer = Nobody
    BY DEF Init, Idle
  <2> QED
    BY <2>2, <2>3 DEF Register!RegInit, Init
<1>2. ASSUME SpendingInv, [Next]_vars
      PROVE  [Register!RegNext]_Register!regVars
  <2> DEFINE done == {c \in Callers : PaymentComplete(c)}
             answer == [c \in Callers |-> call[c].answer]
  <2>1. RegisterStep /\ TypeOK /\ TypeOK'
    BY <1>2, RegisterStepStep, StepTypes DEF SpendingInv
  <2>2. done = {c \in Callers : Complete(c)} /\ done' = {c \in Callers : Complete(c)'}
    <3>1. (TypeOK => \A c \in Callers : PaymentComplete(c) <=> Complete(c))'
      BY CompleteIsComplete, PTL
    <3> QED
      BY <2>1, <3>1, CompleteIsComplete
  <2>3. CASE /\ UNCHANGED ledger /\ OneCompletes
             /\ \A d \in Callers : call'[d].answer = call[d].answer
    <3>1. answer' = answer
      BY <2>3
    <3>2. done' = done \/ \E p \in Callers : done' = done \cup {p}
      BY <2>2, <2>3 DEF OneCompletes
    <3> QED
      BY <2>3, <3>1, <3>2 DEF Register!RegNext, Register!Complete, Register!regVars
  <2>4. ASSUME \A d \in Callers : Complete(d)' <=> Complete(d),
               NEW c \in Callers, NEW p \in Callers, NEW k \in Keys,
               Complete(p), ledger[k] \in {Nobody, p},
               ledger' = [ledger EXCEPT ![k] = p],
               \A d \in Callers : d # c => call'[d].answer = call[d].answer,
               \/ call[c].answer = Nobody /\ call'[c].answer = <<k, p>>
               \/ ledger[k] = Nobody /\ call'[c].answer = call[c].answer
        PROVE  Register!RegNext
    <3>1. done' = done /\ p \in done
      BY <2>2, <2>4
    <3>2. CASE call[c].answer = Nobody /\ call'[c].answer = <<k, p>>
      <4>1. answer' = [answer EXCEPT ![c] = <<k, p>>] /\ answer[c] = Nobody
        BY <2>4, <3>2
      <4> QED
        BY <2>4, <3>1, <4>1 DEF Register!RegNext, Register!Answer
    <3>3. CASE ledger[k] = Nobody /\ call'[c].answer = call[c].answer
      <4>1. answer' = answer
        BY <2>4, <3>3
      <4> QED
        BY <2>4, <3>1, <3>3, <4>1 DEF Register!RegNext, Register!Bind
    <3> QED
      BY <2>4, <3>2, <3>3
  <2> QED
    BY <2>1, <2>3, <2>4 DEF RegisterStep
<1> QED
  BY <1>1, <1>2, SpendingInvariant, PTL DEF Spec, ImplementsRegister, Register!RegSpec
=============================================================================
