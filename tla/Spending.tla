------------------------------ MODULE Spending ------------------------------
(***************************************************************************)
(* Spending out of the wallet: send_payment, send_payment with a target    *)
(* expiry, shield_transparent_funds (zally-wallet/src/spend.rs) and the    *)
(* PCZT operations (pczt.rs), over the wallet database and its ledger      *)
(* behind one actor (zally-storage/src/sqlite.rs) and a network that       *)
(* loses, delays and repeats what is submitted.                            *)
(*                                                                         *)
(* A storage operation is one job of the actor.  Its commits are separate, *)
(* so a job that fails or dies between two of them leaves the first: an    *)
(* error after a prefix of the commits stands for both.  The one job that  *)
(* waits for its caller is the creation of a PCZT.  A call is identified   *)
(* with the one proposal it may build: transaction <<c, i>> is the i-th    *)
(* step of the proposal of call c, and c its lock owner.                   *)
(***************************************************************************)
EXTENDS Naturals

CONSTANTS
  Callers,       \* calls in flight; a retry is another call with the same key
  Keys,          \* IdempotencyKey
  Shielded,      \* spendable notes
  Transparent,   \* spendable transparent outputs
  LockBlocks,    \* PROPOSAL_INPUT_LOCK_BLOCKS
  ExpiryBlocks,  \* blocks to a transaction's default expiry
  Targets,       \* target expiries a caller may ask for, in blocks from now
  MaxVersions,   \* bound: how often one PCZT is signed
  Nobody

Kinds == {"send", "sendTarget", "shield", "pczt"}
Outputs == Shielded \cup Transparent
Txs == Callers \X {1, 2}

ASSUME SpendingAssumption ==
  /\ LockBlocks \in Nat \ {0}
  /\ ExpiryBlocks \in 1..LockBlocks
  /\ Targets \subseteq Nat
  /\ MaxVersions \in Nat
  /\ Shielded \cap Transparent = {}
  /\ Keys # {}
  /\ Nobody \notin Callers
  /\ Nobody \notin Keys \X Callers

VARIABLES
  locks,      \* locks[o]: lock owner and blocks left, upstream's output locks
  picks,      \* picks[c]: inputs of the first transaction of c's proposal
  life,       \* life[c]: blocks in which c's transactions can still be mined
  stored,     \* transactions the wallet database has recorded as sent
  rows,       \* rows[c]: ext_zally_pending_pczt_inputs of lock owner c
  finalized,  \* finalized[c]: the bytes ext_zally_finalized_pczts retains, 0 none
  pending,    \* transactions with ext_zally_pending_broadcast_inputs rows
  ledger,     \* ledger[k]: ext_zally_idempotency, the payment k is bound to
  awaiting,   \* the call whose acknowledgement the actor waits for
  call,       \* the calls: where each is and what it holds
  wire,       \* transactions put on the wire: each may arrive late, or never
  mined,      \* transactions in blocks
  acked,      \* history: transactions some call was told were accepted
  leaked      \* history: calls the release of whose locks failed or was cut

dbVars     == <<locks, picks, life, stored>>
pcztVars   == <<rows, finalized, leaked>>
chainVars  == <<wire, mined>>
vars == <<dbVars, pcztVars, pending, ledger, awaiting, call, chainVars,
          acked>>

-----------------------------------------------------------------------------
Terminal == {"done", "failed", "gone"}

Unlocked == [by |-> Nobody, left |-> 0]

\* A call: the operation, its key, target expiry and number of transactions;
\* where it is and at which transaction; how often its PCZT was signed; what
\* became of it (Marks) and what it returned.
Idle == [kind |-> "send", key |-> CHOOSE k \in Keys : TRUE,
         target |-> ExpiryBlocks, steps |-> 1, at |-> "idle", step |-> 1,
         version |-> 0, marks |-> {}, answer |-> Nobody]

Init ==
  /\ locks = [o \in Outputs |-> Unlocked]
  /\ picks = [c \in Callers |-> {}]
  /\ life = [c \in Callers |-> 0]
  /\ stored = {}
  /\ rows = [c \in Callers |-> {}]
  /\ finalized = [c \in Callers |-> 0]
  /\ leaked = {}
  /\ pending = {}
  /\ ledger = [k \in Keys |-> Nobody]
  /\ awaiting = Nobody
  /\ call = [c \in Callers |-> Idle]
  /\ wire = {} /\ mined = {}
  /\ acked = {}

UsesPczt(c) == call[c].kind \in {"sendTarget", "pczt"}
Current(c) == <<c, call[c].step>>

\* The second step of a proposal spends outputs of the first, not the wallet's.
Inputs(t) == IF t[2] = 1 THEN picks[t[1]] ELSE {}

\* What a recorded transaction spends is spent until it can no longer be mined.
Spends(c, o) ==
  /\ o \in picks[c]
  /\ <<c, 1>> \in stored
  /\ life[c] > 0 \/ <<c, 1>> \in mined

\* What input selection may pick: neither locked nor spent.
Free(o) == locks[o].left = 0 /\ \A c \in Callers : ~ Spends(c, o)

Selectable(c) == IF call[c].kind = "shield" THEN Transparent ELSE Shielded

\* What a proposal may spend: which free inputs cover its amount is not modelled.
Proposable(c) == {os \in SUBSET Selectable(c) : os # {} /\ \A o \in os : Free(o)}

\* Mutant: the lock ends one block before the transaction's expiry.
LockedTooBriefly(c, os) ==
  [o \in Outputs |-> IF o \in os THEN [by |-> c, left |-> LockBlocks - 1] ELSE locks[o]]

LockedBy(c, os) ==
  [o \in Outputs |-> IF o \in os THEN [by |-> c, left |-> LockBlocks] ELSE locks[o]]

\* One transaction records all inputs of a new PCZT.
RecordRows(c, os) == rows' = [rows EXCEPT ![c] = os]

\* unlock_output gives back a lock of its owner and of nobody else.
UnlockedBy(c, os) ==
  [o \in Outputs |-> IF o \in os /\ locks[o].by = c THEN Unlocked ELSE locks[o]]

\* The inputs are unlocked row by row and the rows deleted last.
ReleaseRows(c) ==
  /\ locks' = UnlockedBy(c, rows[c])
  /\ rows' = [rows EXCEPT ![c] = {}]

\* A row that cannot be read or unlocked ends the release and keeps the rows.
ReleaseCutShort(c) ==
  /\ \E os \in SUBSET rows[c] : locks' = UnlockedBy(c, os)
  /\ UNCHANGED rows

\* The bytes of a transaction are retained once: the same again is fine, others
\* are a conflict.
Retain(c) ==
  /\ finalized[c] \in {0, call[c].version}
  /\ finalized' = [finalized EXCEPT ![c] = call[c].version]

\* Recording a spend clears the locks of its inputs.
SpentOf(os) == [o \in Outputs |-> IF o \in os THEN Unlocked ELSE locks[o]]

Goto(c, at) == call' = [call EXCEPT ![c].at = at]

Return(c, payment) ==
  call' = [call EXCEPT ![c].at = "done",
                       ![c].answer = <<call[c].key, payment>>]

Mark(c, at, new) ==
  call' = [call EXCEPT ![c].at = at, ![c].marks = @ \cup new]

StartAs(c, kind, key, target, steps) ==
  call' = [call EXCEPT ![c].kind = kind, ![c].key = key,
                       ![c].target = target, ![c].steps = steps,
                       ![c].marks = {m \in {"late"} : ledger[key] # Nobody},
                       ![c].at = IF kind = "pczt" THEN "propose" ELSE "lookup"]

\* A job of the actor starts when the actor waits for nobody.
ActorFree == awaiting = Nobody

-----------------------------------------------------------------------------
(* A call begins.  Its validations have no effect beyond an error.  Bound: *)
(* nobody asks for a PCZT that has expired before it exists.               *)

Begin(c) ==
  /\ call[c].at = "idle"
  /\ \E kind \in Kinds, key \in Keys, steps \in {1, 2},
        target \in Targets \cup {ExpiryBlocks} :
       /\ kind \in {"send", "shield"} => target = ExpiryBlocks
       /\ kind = "pczt" => target > 0
       /\ steps = 2 => kind = "send"
       /\ StartAs(c, kind, key, target, steps)
  /\ UNCHANGED <<dbVars, pcztVars, pending, ledger, awaiting, chainVars, acked>>

\* Mutant: a target expiry is checked and proposed before the key is looked up.
LookupAfterTarget(c) ==
  /\ call[c].at = "lookup" /\ ActorFree
  /\ IF call[c].kind # "sendTarget" /\ ledger[call[c].key] # Nobody
     THEN Return(c, ledger[call[c].key])
     ELSE Goto(c, "propose")
  /\ UNCHANGED <<dbVars, pcztVars, pending, ledger, awaiting, chainVars, acked>>

\* A bound key answers at once; a stale target expiry is refused after that.
Lookup(c) ==
  /\ call[c].at = "lookup" /\ ActorFree
  /\ LET prior == ledger[call[c].key] IN
     \/ /\ prior # Nobody
        /\ Return(c, prior)
     \/ /\ prior = Nobody
        /\ IF call[c].kind = "sendTarget" /\ call[c].target = 0
           THEN Goto(c, "failed")
           ELSE Goto(c, "propose")
  /\ UNCHANGED <<dbVars, pcztVars, pending, ledger, awaiting, chainVars, acked>>

-----------------------------------------------------------------------------
(* Jobs that propose: they lock inputs, then build, and unlock when the    *)
(* build fails.                                                            *)

\* No inputs, no seed, or a failed build whose inputs were unlocked again.
ProposalFails(c) ==
  /\ call[c].at = "propose" /\ ActorFree
  /\ Goto(c, "failed")
  /\ UNCHANGED <<dbVars, pcztVars, pending, ledger, awaiting, chainVars, acked>>

\* The build failed and unlocking its inputs failed too.
ProposalLeaks(c) ==
  /\ call[c].at = "propose" /\ ActorFree
  /\ \E os \in Proposable(c) : locks' = LockedBy(c, os)
  /\ leaked' = leaked \cup {c}
  /\ Goto(c, "failed")
  /\ UNCHANGED <<picks, life, stored, rows, finalized, pending, ledger, awaiting,
                 chainVars, acked>>

\* prepare_payment and shield_transparent_funds: every step is recorded as
\* sent; reading one back may fail after that.
Prepare(c) ==
  /\ call[c].at = "propose" /\ ActorFree
  /\ ~ UsesPczt(c)
  /\ \E os \in Proposable(c) :
       /\ picks' = [picks EXCEPT ![c] = os]
       /\ locks' = SpentOf(os)
  /\ life' = [life EXCEPT ![c] = ExpiryBlocks]
  /\ stored' = stored \cup {<<c, i>> : i \in 1..call[c].steps}
  /\ \E at \in {"pending", "failed"} : Goto(c, at)
  /\ UNCHANGED <<pcztVars, pending, ledger, awaiting, chainVars, acked>>

\* create_pczt: the inputs are locked, the expiry is pinned and the inputs
\* are recorded for the owner; the actor then offers the bytes and waits.
CreatePczt(c) ==
  /\ call[c].at = "propose" /\ ActorFree
  /\ UsesPczt(c)
  /\ \E os \in Proposable(c) :
       /\ picks' = [picks EXCEPT ![c] = os]
       /\ locks' = LockedBy(c, os)
       /\ RecordRows(c, os)
  /\ life' = [life EXCEPT ![c] = call[c].target]
  /\ awaiting' = c
  /\ Goto(c, "created")
  /\ UNCHANGED <<stored, finalized, leaked, pending, ledger, chainVars, acked>>

Acknowledge(c) ==
  /\ awaiting = c /\ call[c].at = "created"
  /\ Mark(c, "roles", {"taken"})
  /\ awaiting' = Nobody
  /\ UNCHANGED <<dbVars, pcztVars, pending, ledger, chainVars, acked>>

\* Mutant: the actor does not notice that the caller it waits for is gone.
NeverNotices(c) == FALSE /\ UNCHANGED vars

\* The caller is gone: the actor gives its inputs back, as far as it can.
ReleaseUnacknowledged(c) ==
  /\ awaiting = c /\ call[c].at = "gone"
  /\ awaiting' = Nobody
  /\ \/ /\ ReleaseRows(c)
        /\ UNCHANGED leaked
     \/ /\ ReleaseCutShort(c)
        /\ leaked' = leaked \cup {c}
  /\ UNCHANGED <<picks, life, stored, finalized, pending, ledger, call, chainVars,
                 acked>>

-----------------------------------------------------------------------------
(* The roles of a PCZT the caller holds.                                   *)

Sign(c) == call' = [call EXCEPT ![c].version = @ + 1]

\* prove_pczt and sign_pczt: signatures are randomised, so the bytes differ
\* each time; the transaction does not.  A send with a target signs once.
Authorize(c) ==
  /\ call[c].at = "roles" /\ call[c].version < MaxVersions
  /\ call[c].kind = "sendTarget" => call[c].version = 0
  /\ Sign(c)
  /\ UNCHANGED <<dbVars, pcztVars, pending, ledger, awaiting, chainVars, acked>>

\* A role fails inside a send with a target expiry, which abandons the PCZT.
RoleFails(c) ==
  /\ call[c].at = "roles" /\ call[c].kind = "sendTarget"
  /\ Goto(c, "abandon")
  /\ UNCHANGED <<dbVars, pcztVars, pending, ledger, awaiting, chainVars, acked>>

AfterExtractError(c) == IF call[c].kind = "pczt" THEN "roles" ELSE "abandon"

\* The mark is history: the PCZT had expired when it was extracted.
Extracted(c, at) == Mark(c, at, {m \in {"overdue"} : life[c] = 0})

\* Mutant: the transaction is returned although its PCZT was not retained.
ExtractIgnoresRetention(c) ==
  /\ call[c].at = "roles" /\ call[c].version > 0 /\ ActorFree
  /\ stored' = stored \cup {<<c, 1>>}
  /\ locks' = SpentOf(picks[c])
  /\ rows' = [rows EXCEPT ![c] = {}]
  /\ Extracted(c, IF call[c].kind = "pczt" THEN "submit" ELSE "pending")
  /\ UNCHANGED <<picks, life, finalized, leaked, pending, ledger, awaiting,
                 chainVars, acked>>

\* extract_and_store_pczt: three commits, in this order.  The first fails on a
\* PCZT that is not final and then nothing happened.
ExtractFails(c) ==
  /\ call[c].at = "roles" /\ call[c].version > 0 /\ ActorFree
  /\ Goto(c, AfterExtractError(c))
  /\ UNCHANGED <<dbVars, pcztVars, pending, ledger, awaiting, chainVars, acked>>

\* The second fails when other bytes of the same transaction are retained;
\* each may fail by itself.  After the third the transaction is handed out, or
\* its expiry found not to be the caller's.
Extract(c) ==
  /\ call[c].at = "roles" /\ call[c].version > 0 /\ ActorFree
  /\ stored' = stored \cup {<<c, 1>>}
  /\ locks' = SpentOf(picks[c])
  /\ \/ /\ Extracted(c, AfterExtractError(c))
        /\ UNCHANGED <<finalized, rows>>
     \/ /\ Retain(c)
        /\ \/ /\ Extracted(c, AfterExtractError(c))
              /\ UNCHANGED rows
           \/ /\ rows' = [rows EXCEPT ![c] = {}]
              /\ \E at \in IF call[c].kind = "pczt" THEN {"submit", "handed"}
                                                    ELSE {"pending", "failed"} :
                   Extracted(c, at)
  /\ UNCHANGED <<picks, life, leaked, pending, ledger, awaiting, chainVars, acked>>

\* Whoever extract_pczt handed the transaction to submits it.
FacilitatorSubmits(c) ==
  /\ call[c].at = "handed"
  /\ wire' = wire \cup {<<c, 1>>}
  /\ Goto(c, "done")
  /\ UNCHANGED <<dbVars, pcztVars, pending, ledger, awaiting, mined, acked>>

\* The failed send returns its error, or that of the release.
AfterAbandon(c) == IF call[c].kind = "pczt" THEN "roles" ELSE "failed"

\* Mutant: abandoning deletes the rows of a PCZT it could not unlock.
AbandonDeletesAnyway(c) ==
  /\ call[c].at \in {"roles", "abandon"} /\ ActorFree
  /\ call[c].at = "roles" => call[c].kind = "pczt"
  /\ \E os \in SUBSET rows[c] : locks' = UnlockedBy(c, os)
  /\ rows' = [rows EXCEPT ![c] = {}]
  /\ Mark(c, AfterAbandon(c), {"abandoned"})
  /\ UNCHANGED <<picks, life, stored, finalized, leaked, pending, ledger, awaiting,
                 chainVars, acked>>

\* abandon_pczt, by an embedder at any time or by a failed send: the inputs
\* are unlocked one by one and the rows deleted last; an error keeps the rows.
Abandon(c) ==
  /\ call[c].at \in {"roles", "abandon"} /\ ActorFree
  /\ call[c].at = "roles" => call[c].kind = "pczt"
  /\ ReleaseRows(c) \/ ReleaseCutShort(c)
  /\ Mark(c, AfterAbandon(c), {"abandoned"})
  /\ UNCHANGED <<picks, life, stored, finalized, leaked, pending, ledger, awaiting,
                 chainVars, acked>>

-----------------------------------------------------------------------------
(* Submission: submit_and_record_pending, step by step, and the record of  *)
(* the key after the last.                                                 *)

HasTransparentInputs(t) == Inputs(t) \cap Transparent # {}

\* What the wallet reports as pending: each input with the transaction it is
\* pending for.
PendingInputs == {p \in Transparent \X pending : p[1] \in Inputs(p[2])}

\* Mutant: the rows are written after the transaction was submitted.
RecordPendingLate(c) ==
  /\ call[c].at = "pending"
  /\ Goto(c, "submit")
  /\ UNCHANGED <<dbVars, pcztVars, pending, ledger, awaiting, chainVars, acked>>

\* record_broadcast_inputs: nothing to do without transparent inputs.
RecordPending(c) ==
  /\ call[c].at = "pending"
  /\ \/ /\ HasTransparentInputs(Current(c)) /\ ActorFree
        /\ \/ /\ pending' = pending \cup {Current(c)}
              /\ Goto(c, "submit")
           \/ /\ Goto(c, "failed")
              /\ UNCHANGED pending
     \/ /\ ~ HasTransparentInputs(Current(c))
        /\ Goto(c, "submit")
        /\ UNCHANGED pending
  /\ UNCHANGED <<dbVars, pcztVars, ledger, awaiting, chainVars, acked>>

\* One try of the retry loop puts the transaction on the wire.
Attempt(c) ==
  /\ call[c].at = "submit" /\ Current(c) \notin wire
  /\ wire' = wire \cup {Current(c)}
  /\ UNCHANGED <<dbVars, pcztVars, pending, ledger, awaiting, call, mined,
                 acked>>

Advance(c) == call' = [call EXCEPT ![c].at = "pending", ![c].step = @ + 1]

\* Accepted, duplicate or queued: a queued one has no verdict yet.
SubmitAccepted(c) ==
  /\ call[c].at = "submit"
  /\ Current(c) \in wire
  /\ acked' = acked \cup {Current(c)}
  /\ \/ /\ call[c].kind = "pczt"
        /\ Goto(c, "done")
     \/ /\ call[c].kind # "pczt" /\ call[c].step = call[c].steps
        /\ Goto(c, "record")
     \/ /\ call[c].step < call[c].steps
        /\ Advance(c)
  /\ UNCHANGED <<dbVars, pcztVars, pending, ledger, awaiting, chainVars>>

\* Rejected, out of tries, breaker open or another transaction's id: none of
\* them says that the transaction did not reach the network.
SubmitFails(c) ==
  /\ call[c].at = "submit"
  /\ Goto(c, IF call[c].kind = "pczt" THEN "failed" ELSE "clear")
  /\ UNCHANGED <<dbVars, pcztVars, pending, ledger, awaiting, chainVars, acked>>

\* clear_pending_after_failed_submit, whose own failure is ignored.
ClearPending(c) ==
  /\ call[c].at = "clear" /\ ActorFree
  /\ \E cleared \in {{}, {Current(c)}} : pending' = pending \ cleared
  /\ Goto(c, "failed")
  /\ UNCHANGED <<dbVars, pcztVars, ledger, awaiting, chainVars, acked>>

\* Mutant: the last call to record wins the key.
RecordOverwrites(c) ==
  /\ call[c].at = "record" /\ ActorFree
  /\ ledger' = [ledger EXCEPT ![call[c].key] = c]
  /\ Return(c, c)
  /\ UNCHANGED <<dbVars, pcztVars, pending, awaiting, chainVars, acked>>

\* record_idempotent_submission: the first binds the key, another payment is
\* a conflict.  The caller may never hear that it was recorded.
Record(c) ==
  /\ call[c].at = "record" /\ ActorFree
  /\ LET key == call[c].key IN
     \/ /\ ledger[key] \in {Nobody, c}
        /\ ledger' = [ledger EXCEPT ![key] = c]
        /\ \/ Return(c, c)
           \/ Goto(c, "gone")
     \/ /\ Goto(c, "failed")
        /\ UNCHANGED ledger
  /\ UNCHANGED <<dbVars, pcztVars, pending, awaiting, chainVars, acked>>

-----------------------------------------------------------------------------
(* What happens around the calls.                                          *)

\* The future is dropped, or the PCZT's holder loses it.
Cancel(c) ==
  /\ call[c].at \notin Terminal \cup {"idle"}
  /\ Goto(c, "gone")
  /\ UNCHANGED <<dbVars, pcztVars, pending, ledger, awaiting, chainVars, acked>>

CallsDie ==
  call' = [c \in Callers |->
    IF \/ call[c].at \in Terminal \cup {"idle"}
       \/ call[c].at \in {"roles", "handed"} /\ call[c].kind = "pczt"
    THEN call[c] ELSE [call[c] EXCEPT !.at = "gone"]]

\* The process dies.  The database, the ledger, the network and a PCZT its
\* holder has kept outlive it.
Crash ==
  /\ CallsDie
  /\ awaiting' = Nobody
  /\ leaked' = leaked \cup ({awaiting} \cap Callers)
  /\ UNCHANGED <<dbVars, rows, finalized, pending, ledger, chainVars, acked>>

Less(n) == IF n = 0 THEN 0 ELSE n - 1

\* Mutant: the last block of a lock does not end it.
TickUnderflows(l) == [l EXCEPT !.left = @ - 1]

\* A lock lapses by itself.
Tick(l) == IF l.left <= 1 THEN Unlocked ELSE [l EXCEPT !.left = @ - 1]

\* A block: locks and expiries come closer.
NewBlock ==
  /\ \/ \E o \in Outputs : locks[o].left > 0
     \/ \E c \in Callers : life[c] > 0
  /\ locks' = [o \in Outputs |-> Tick(locks[o])]
  /\ life' = [c \in Callers |-> Less(life[c])]
  /\ UNCHANGED <<picks, stored, pcztVars, pending, ledger, awaiting, call, chainVars,
                 acked>>

\* The network mines what arrived in time and spends nothing spent before.
Mine(t) ==
  /\ t \in wire \ mined
  /\ life[t[1]] > 0
  /\ t[2] = 2 => <<t[1], 1>> \in mined
  /\ \A u \in mined : Inputs(u) \cap Inputs(t) = {}
  /\ mined' = mined \cup {t}
  /\ UNCHANGED <<dbVars, pcztVars, pending, ledger, awaiting, call, wire, acked>>

\* The wallet's transactions a scan finds in its blocks.
SeenMined == mined \cap stored

Retire(t) ==
  /\ t \in pending /\ ActorFree
  /\ pending' = pending \ {t}
  /\ UNCHANGED <<dbVars, pcztVars, ledger, awaiting, call, chainVars, acked>>

\* A sync attempt retires the rows of what it saw mined ...
RetireMined(t) == t \in SeenMined /\ Retire(t)

\* ... and the rows older than the window, which outlasts the blocks to a
\* transaction's expiry.
RetireExpired(t) == life[t[1]] = 0 /\ Retire(t)

RetirePending(t) == RetireMined(t) \/ RetireExpired(t)

-----------------------------------------------------------------------------
CallerStep(c) ==
  \/ Begin(c) \/ Lookup(c)
  \/ ProposalFails(c) \/ ProposalLeaks(c) \/ Prepare(c)
  \/ CreatePczt(c) \/ Acknowledge(c) \/ ReleaseUnacknowledged(c)
  \/ Authorize(c) \/ RoleFails(c) \/ ExtractFails(c) \/ Extract(c)
  \/ FacilitatorSubmits(c) \/ Abandon(c)
  \/ RecordPending(c) \/ Attempt(c) \/ SubmitAccepted(c) \/ SubmitFails(c)
  \/ ClearPending(c) \/ Record(c)
  \/ Cancel(c)

Next ==
  \/ \E c \in Callers : CallerStep(c)
  \/ Crash
  \/ NewBlock
  \/ \E t \in Txs : Mine(t) \/ RetirePending(t)

\* The actor's thread runs, and a future that is not dropped is polled again.
Fairness ==
  \A c \in Callers : /\ WF_vars(Acknowledge(c))
                     /\ WF_vars(ReleaseUnacknowledged(c))

Spec == Init /\ [][Next]_vars /\ Fairness

-----------------------------------------------------------------------------
Places == Terminal \cup
  {"idle", "lookup", "propose", "created", "roles", "handed", "abandon", "pending",
   "submit", "clear", "record"}

\* took the PCZT; abandoned it; extracted it after it expired; began when the
\* key was bound
Marks == {"taken", "abandoned", "overdue", "late"}

CallRecords ==
  [kind : Kinds, key : Keys, target : Targets \cup {ExpiryBlocks}, steps : {1, 2},
   at : Places,
   step : {1, 2}, version : 0..MaxVersions,
   marks : SUBSET Marks,
   answer : {Nobody} \cup (Keys \X Callers)]

(***************************************************************************)
(* Types of the wallet database, its ledger, the calls and the network.    *)
(***************************************************************************)
TypeOK ==
  /\ locks \in [Outputs -> [by : Callers \cup {Nobody}, left : 0..LockBlocks]]
  /\ picks \in [Callers -> SUBSET Outputs]
  /\ life \in [Callers -> Nat]
  /\ stored \subseteq Txs
  /\ rows \in [Callers -> SUBSET Outputs]
  /\ finalized \in [Callers -> 0..MaxVersions]
  /\ leaked \subseteq Callers
  /\ pending \subseteq Txs
  /\ ledger \in [Keys -> Callers \cup {Nobody}]
  /\ awaiting \in Callers \cup {Nobody}
  /\ call \in [Callers -> CallRecords]
  /\ wire \subseteq Txs /\ mined \subseteq Txs
  /\ acked \subseteq Txs

\* A PCZT that was abandoned, whose target expiry lies beyond the lock window,
\* or that was extracted when it had expired: its inputs may have been picked
\* again, and its extraction may clear the locks of whoever did.
Loose(c) ==
  /\ UsesPczt(c)
  /\ \/ {"abandoned", "overdue"} \cap call[c].marks # {}
     \/ call[c].target > LockBlocks

(***************************************************************************)
(* No output is spent by two transactions of this wallet that are mined or *)
(* may still be: across locks that lapse, failed and timed-out             *)
(* submissions, crashes, and PCZTs extracted long after they were proposed *)
(* (PROPOSAL_INPUT_LOCK_BLOCKS against the expiries, sqlite.rs:3424).  Only *)
(* a loose PCZT among those that picked the output can break it.           *)
(***************************************************************************)
OneSpendPerOutput ==
  \A o \in Outputs :
    (\A c \in Callers : o \in picks[c] => ~ Loose(c)) =>
      \A c, d \in Callers : Spends(c, o) /\ Spends(d, o) => c = d

(***************************************************************************)
(* The creation handshake (dispatch_pczt_creation, sqlite.rs:287): locks   *)
(* outlive their job only for a caller that took the PCZT, and abandoning  *)
(* that PCZT gives every one of them back; a creation nobody took leaves   *)
(* neither locks nor rows.  Only a release that itself failed or was cut   *)
(* by a crash escapes, and then the lock lapses.                           *)
(***************************************************************************)
LocksReleasable ==
  \A c \in Callers :
    (awaiting # c /\ c \notin leaked) =>
      /\ \A o \in Outputs : locks[o].by = c => "taken" \in call[c].marks /\ o \in rows[c]
      /\ rows[c] # {} => "taken" \in call[c].marks

(***************************************************************************)
(* A PCZT whose transaction reached the network is retained, so a payment  *)
(* disclosure can be made of it (extract_and_store_pczt, sqlite.rs:1312:   *)
(* the record of the transaction and of the PCZT are separate commits).    *)
(***************************************************************************)
SubmittedIsRetained ==
  \A c \in Callers :
    UsesPczt(c) /\ <<c, 1>> \in wire => finalized[c] # 0

(***************************************************************************)
(* While a submitted shielding transaction may still be mined, its         *)
(* transparent inputs are reported as pending, through crashes and         *)
(* cancellations (submit_and_record_pending, spend.rs:596), unless its     *)
(* call found the submission failed and cleared them.                      *)
(***************************************************************************)
PendingWhileInFlight ==
  \A t \in wire :
    /\ life[t[1]] > 0
    /\ t \notin mined
    /\ call[t[1]].at # "failed"
    => \A o \in Inputs(t) \cap Transparent : <<o, t>> \in PendingInputs

(***************************************************************************)
(* A retry under a key that was bound when it began builds no second       *)
(* payment, whichever of the keyed operations it is (spend.rs:359, 532).   *)
(***************************************************************************)
LateCallsBuildNothing ==
  \A c \in Callers : "late" \in call[c].marks /\ call[c].kind # "pczt" => <<c, 1>> \notin stored

\* The ledger as the register it implements.
PaymentComplete(c) == \A i \in 1..call[c].steps : <<c, i>> \in acked

Register == INSTANCE PaymentRegister WITH
  bound    <- ledger,
  complete <- {c \in Callers : PaymentComplete(c)},
  answer   <- [c \in Callers |-> call[c].answer]

(***************************************************************************)
(* Concurrent calls, crashes and lost replies included, the keyed          *)
(* operations implement the register: a key is bound to one payment, only  *)
(* when all of its transactions were accepted, and every call that         *)
(* succeeds answers with that payment (spend.rs:417, sqlite.rs:1389).      *)
(***************************************************************************)
ImplementsRegister == Register!RegSpec

(***************************************************************************)
(* The actor, which everything else waits for, never waits for good on the *)
(* acknowledgement of one caller (sqlite.rs:300): its future goes on or is *)
(* dropped.                                                                *)
(***************************************************************************)
ActorServes == awaiting # Nobody ~> awaiting = Nobody
=============================================================================
