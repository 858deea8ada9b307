------------------------------ MODULE Disclosure ------------------------------
(***************************************************************************)
(* A payment disclosure, from the payer's request to the payee's verdict:  *)
(* Wallet::export_payment_disclosure (zally-wallet/src/disclosure.rs), the *)
(* export from the PCZT retained at extraction (zally-pczt/src/            *)
(* disclosure.rs), the proving and signing (zcash-payment-disclosure/src/  *)
(* produce.rs) and the verification against the mined transaction          *)
(* (verify.rs of the same crate).                                          *)
(*                                                                         *)
(* Cryptography is symbolic: a Sapling proof is a token that names the     *)
(* spend, the commitment and the key it was made for, a signature one that *)
(* names its key and its digest, an outgoing cipher key one that names its *)
(* output.  On its way the byte string may be altered once (the bound on   *)
(* the faults of the channel): cut, lengthened, one token replaced, or one *)
(* number written in a longer form.                                        *)
(***************************************************************************)
EXTENDS DisclosureCodec, FiniteSets

CONSTANTS
  MaxListed,  \* spends, and outputs, of a retained PCZT
  Messages    \* what a payee may ask to be bound into the disclosure

\* An index is a u32, and a message is bytes.
ASSUME DisclosureAssumption ==
  /\ MaxListed \in 0..(MaxIndex + 1)
  /\ Messages \subseteq Seq({Byte(b) : b \in 0..(Base - 1)})

VARIABLES
  pczt,     \* the finalized PCZT the wallet retained for the transaction
  plan,     \* ExportPaymentDisclosurePlan
  stage,    \* how far the disclosure got
  exported, \* the disclosure the payer signed, as a set of one, or none
  wire,     \* its bytes, as the payee has them
  decoded,  \* what from_bytes made of them, as a set of one, or none
  against   \* what the payee verified with, network and transaction: one, or none

vars == <<pczt, plan, stage, exported, wire, decoded, against>>

Redacted == -1   \* a value that is not in the PCZT any more

WalletNetwork == "test"
Networks      == {"main", "test", "regtest"}

\* The coin type SLIP 44 gives a network: the test networks share theirs.
CoinType(network) == IF network = "main" THEN 133 ELSE 1

SameCoin(network) == CoinType(network) = CoinType(WalletNetwork)

Asked == 1   \* the amount asked for, and a valued spend's value

-----------------------------------------------------------------------------
(* Retained PCZTs, requests, and the mined transactions.                   *)

Kind(owner, value, whole) == [owner |-> owner, value |-> value, whole |-> whole]

\* A spend: whose key it takes, its value, and
\* whether the rest of what a proof or signature needs is there.
SpendKinds ==
  {Kind("payer", Asked, TRUE), Kind("payer", Asked, FALSE), Kind("payer", Redacted, TRUE),
   Kind("dummy", 0, TRUE), Kind("stranger", Asked, TRUE)}

Paid(label, receiver, value, ock) ==
  [label |-> label, receiver |-> receiver, value |-> value, ock |-> ock]

\* An output: whether its user_address and its receiver are the ones asked
\* for, its value, and its cipher key: kept, lost, or derivable from the
\* payer's outgoing viewing keys.
OutputKinds ==
  {Paid(TRUE, TRUE, Asked, ock) : ock \in {"kept", "derivable", "lost"}}
    \cup {Paid(TRUE, TRUE, 2, "kept"), Paid(TRUE, FALSE, Asked, "kept"),
          Paid(FALSE, TRUE, Asked, "kept")}

Listed(S) == UNION {[1..n -> S] : n \in 0..MaxListed}

\* Every Ironwood action has a spend and an output; Sapling has any number
\* of each.
Pczts ==
  {p \in [pool     : {Draft1, Ironwood},
          spends   : Listed(SpendKinds),
          outputs  : Listed(OutputKinds),
          elsewhere : BOOLEAN] :   \* transparent inputs or Orchard actions
     p.pool = Ironwood => Len(p.spends) = Len(p.outputs)}

\* network: the recipient's; receiver: the kind of its address; known: the
\* wallet retained a PCZT for the transaction.
Plans == [profile : {Draft1, Ironwood}, message : Messages, known : BOOLEAN,
          network : {WalletNetwork, "main"},
          receiver : {"sapling", "unified", "transparent"}]

\* The tokens of transaction tx, and those the payer makes for its spends.
Tx(tx)           == <<"tx", tx>>
Commitment(i)    == <<"cv", i>>
FreshKey(i)      == <<"rk", i>>
Proof(tx, i, cv, rk) == <<"proof", tx, i, cv, rk>>
ActionKey(tx, i) == <<"action key", tx, i>>
Signature(key, digest) == <<"sig", key, digest>>
CipherKey(tx, i) == <<"ock", tx, i>>

Blank == <<"blank">>   \* 64 zero bytes, where a signature will stand

-----------------------------------------------------------------------------
(* Export.                                                                 *)

\* has_profile_receiver, and the decoding of the recipient it repeats.
ReceiverSupported ==
  plan.receiver \in IF plan.profile = Draft1 THEN {"sapling", "unified"} ELSE {"unified"}

Matching ==
  {i \in DOMAIN pczt.outputs : /\ pczt.outputs[i].label /\ pczt.outputs[i].receiver
                               /\ pczt.outputs[i].value = Asked}

\* Only the Ironwood export derives a cipher key that was not kept.
HasCipherKey(i) ==
  pczt.outputs[i].ock \in {"kept"} \cup IF plan.profile = Ironwood THEN {"derivable"} ELSE {}

\* Mutant: of several outputs that match, the first is disclosed.
FirstMatch == IF Matching = {} THEN {} ELSE {CHOOSE i \in Matching : \A j \in Matching : i <= j}

\* The one output that matches: none, or several, is an error.
TheMatch == IF Cardinality(Matching) = 1 THEN Matching ELSE {}

\* collect_ironwood_spends leaves out a spend of no value, or of a value
\* that is not there; collect_sapling_spends takes every one.
Collected ==
  IF plan.profile = Draft1
    THEN DOMAIN pczt.spends
    ELSE {i \in DOMAIN pczt.spends : pczt.spends[i].value \notin {0, Redacted}}

\* What collect_*_spends and the circuit need of a spend.
Complete(spend) == spend.whole /\ spend.value # Redacted

\* prove_disclosure and sign_ironwood_disclosure: the wallet's key signs for it.
Authorized(spend) == spend.owner = "payer"

\* What the PCZT has in sections the profile does not disclose.
Elsewhere ==
  \/ pczt.elsewhere
  \/ pczt.pool # plan.profile /\ pczt.spends \o pczt.outputs # <<>>

InOrder(S) ==
  CHOOSE f \in [1..Cardinality(S) -> S] :
    \A i, j \in 1..Cardinality(S) : i < j => f[i] < f[j]

UnsignedSpend(i) ==
  [index  |-> i - 1,
   fields |-> IF plan.profile = Draft1
                THEN <<Commitment(i), FreshKey(i),
                       Proof("own", i, Commitment(i), FreshKey(i))>>
                ELSE <<>>,
   sig    |-> Blank]

Unsigned ==
  LET spends  == InOrder(Collected)
      outputs == InOrder(TheMatch)
  IN [profile |-> plan.profile,
      tx      |-> Tx("own"),
      message |-> plan.message,
      spends  |-> [k \in DOMAIN spends |-> UnsignedSpend(spends[k])],
      outputs |-> [k \in DOMAIN outputs |->
                     [index |-> outputs[k] - 1, ock |-> CipherKey("own", outputs[k])]]]

\* The errors that apply, of which the code returns the first it meets; those of
\* one meaning for either profile have one name.
ExportErrors ==
  {error \in {"NetworkMismatch", "RecipientUnsupported", "SourceMissing",
              "ActionsUnsupported", "SpendIncomplete", "SpendsMissing",
              "OutputOckMissing", "OutputNotOne", "SpendAuthorizingKeyMismatch",
              "Codec"} :
     \/ error = "NetworkMismatch" /\ plan.network # WalletNetwork
     \/ error = "RecipientUnsupported" /\ ~ReceiverSupported
     \/ error = "SourceMissing" /\ ~plan.known
     \/ error = "ActionsUnsupported" /\ Elsewhere
     \/ error = "SpendIncomplete" /\ \E i \in Collected : ~Complete(pczt.spends[i])
     \/ error = "SpendsMissing" /\ Collected = {}
     \/ error = "OutputOckMissing" /\ \E i \in Matching : ~HasCipherKey(i)
     \/ error = "OutputNotOne" /\ TheMatch = {}
     \/ /\ error = "SpendAuthorizingKeyMismatch"
        /\ \E i \in Collected : ~Authorized(pczt.spends[i])
     \/ error = "Codec" /\ ~WellShaped(Unsigned)}

SigningKey(spend) ==
  IF plan.profile = Draft1 THEN spend.fields[2] ELSE ActionKey("own", spend.index + 1)

Signed(d) ==
  LET digest == Digest(d, CoinType(WalletNetwork))
  IN  [d EXCEPT !.spends = [k \in DOMAIN d.spends |->
         [d.spends[k] EXCEPT !.sig = Signature(SigningKey(d.spends[k]), digest)]]]

Init ==
  /\ pczt \in Pczts /\ plan \in Plans
  /\ stage = "asked"
  /\ exported = {} /\ wire = <<>> /\ decoded = {}
  /\ against = {}

\* export_payment_disclosure, and to_bytes
Export ==
  /\ stage = "asked"
  /\ ExportErrors = {}
  /\ stage' = "exported"
  /\ exported' = {Signed(Unsigned)}
  /\ wire' = ToBytes(Signed(Unsigned))
  /\ UNCHANGED <<pczt, plan, decoded, against>>

Refuse ==
  /\ stage = "asked"
  /\ ExportErrors # {}
  /\ stage' = "refused"
  /\ UNCHANGED <<pczt, plan, exported, wire, decoded, against>>

-----------------------------------------------------------------------------
(* The way to the payee.                                                   *)

Foreign == {Byte(b) : b \in 0..(Base - 1)} \cup {Tx("another"), <<"junk">>}

\* Token i of s, a byte, as a CompactSize of three.
Widened(s, i) ==
  SubSeq(s, 1, i - 1) \o <<Byte(Base - 3), s[i], Byte(0)>> \o SubSeq(s, i + 1, Len(s))

Altered(s) ==
  {Front(s), Append(s, Byte(0))}
    \cup {[s EXCEPT ![i] = token] : i \in DOMAIN s, token \in Foreign}
    \cup {Widened(s, i) : i \in {j \in DOMAIN s : IsByteAt(s, j)}}

\* from_bytes, on the bytes as they arrive.
Receive(bytes) ==
  /\ stage = "exported"
  /\ wire' = bytes
  /\ decoded' = FromBytes(bytes)
  /\ stage' = IF FromBytes(bytes) = {} THEN "unreadable" ELSE "received"
  /\ UNCHANGED <<pczt, plan, exported, against>>

Deliver == Receive(wire)

Damage == \E bytes \in Altered(wire) \ {wire} : Receive(bytes)

-----------------------------------------------------------------------------
(* Verification, with the transaction the payee fetched: the payment's, or *)
(* another one with two spends and two outputs in either pool.             *)

SpendsOf(tx)  == IF tx = "own" THEN DOMAIN pczt.spends ELSE 1..2
OutputsOf(tx) == IF tx = "own" THEN DOMAIN pczt.outputs ELSE 1..2

HasBundle(tx, profile) == tx = "own" => profile = pczt.pool

\* verify_sapling_spends and verify_ironwood_spends, on one spend
SpendVerifies(d, spend, tx, digest) ==
  LET i == spend.index + 1 IN
  /\ i \in SpendsOf(tx)
  /\ IF d.profile = Draft1
       THEN /\ spend.fields[3] = Proof(tx, i, spend.fields[1], spend.fields[2])
            /\ spend.sig = Signature(spend.fields[2], digest)
       ELSE spend.sig = Signature(ActionKey(tx, i), digest)

\* recover_sapling_outputs and recover_ironwood_outputs, on one output
OutputRecovers(output, tx) ==
  /\ output.index + 1 \in OutputsOf(tx)
  /\ output.ock = CipherKey(tx, output.index + 1)

\* verify_disclosure: the errors that apply, the first of which it returns.
VerificationErrors(d, network, tx) ==
  LET digest == Digest(d, CoinType(network)) IN
  {error \in {"TransactionIdMismatch", "BundleMissing", "SpendAuthorityInvalid",
              "OutputRecoveryFailed"} :
     \/ error = "TransactionIdMismatch" /\ d.tx # Tx(tx)
     \/ error = "BundleMissing" /\ ~HasBundle(tx, d.profile)
     \/ /\ error = "SpendAuthorityInvalid"
        /\ \E k \in DOMAIN d.spends : ~SpendVerifies(d, d.spends[k], tx, digest)
     \/ /\ error = "OutputRecoveryFailed"
        /\ \E k \in DOMAIN d.outputs : ~OutputRecovers(d.outputs[k], tx)}

Verifies(d, network, tx) == VerificationErrors(d, network, tx) = {}

Verify(network, tx) ==
  /\ stage = "received"
  /\ against' = {[network |-> network, tx |-> tx]}
  /\ stage' = IF \A d \in decoded : Verifies(d, network, tx) THEN "accepted" ELSE "rejected"
  /\ UNCHANGED <<pczt, plan, exported, wire, decoded>>

Next == \/ Export \/ Refuse
        \/ Deliver \/ Damage
        \/ \E network \in Networks, tx \in {"own", "another"} : Verify(network, tx)

Spec == Init /\ [][Next]_vars

-----------------------------------------------------------------------------
(***************************************************************************)
(* The states the pipeline can be in.  Whatever was decoded, from bytes    *)
(* damaged or not, has the shape the constructors demand: no index twice,  *)
(* no message or list beyond its bound.                                    *)
(***************************************************************************)
TypeOK ==
  /\ pczt \in Pczts /\ plan \in Plans
  /\ stage \in {"asked", "refused", "exported", "received", "unreadable", "accepted", "rejected"}
  /\ Cardinality(exported) <= 1 /\ Cardinality(decoded) <= 1
  /\ \A d \in exported \cup decoded :
       /\ Len(d.message) <= MaxMessage
       /\ d.profile \in {Draft1, Ironwood}
       /\ Cardinality({e.index : e \in Range(d.spends)}) = Len(d.spends)
       /\ Cardinality({e.index : e \in Range(d.outputs)}) = Len(d.outputs)
       /\ \A e \in Range(d.spends) \cup Range(d.outputs) : e.index \in 0..MaxIndex
  /\ (decoded # {}) <=> (stage \in {"received", "accepted", "rejected"})
  /\ Cardinality(against) <= 1
  /\ (against = {}) <=> (stage \notin {"accepted", "rejected"})

(***************************************************************************)
(* The format is canonical: what was decoded encodes to the very bytes it  *)
(* was decoded from, so no two byte strings are the same disclosure (codec *)
(* .rs refuses a number in a longer form than it needs, and bytes behind   *)
(* the last entry).                                                        *)
(***************************************************************************)
OneEncoding == \A d \in decoded : ToBytes(d) = wire

(***************************************************************************)
(* An export is never in vain: the bytes to_bytes made, unaltered, decode  *)
(* to the disclosure that was signed, and the payee who fetches the        *)
(* payment's transaction accepts it, on every network of that coin type.   *)
(***************************************************************************)
ExportVerifies ==
  \A d \in exported :
    wire = ToBytes(d) =>
      /\ stage # "unreadable"
      /\ decoded \subseteq {d}
      /\ (stage = "rejected") =>
           \A a \in against : ~(a.tx = "own" /\ SameCoin(a.network))

(***************************************************************************)
(* Nothing but what the payer signed is ever accepted: not an altered      *)
(* message, index, key or list, not another transaction, and not on a      *)
(* network with another coin type.                                         *)
(***************************************************************************)
AcceptedMeansSigned ==
  stage = "accepted" =>
    /\ decoded = exported
    /\ \A a \in against : a.tx = "own" /\ SameCoin(a.network)

(***************************************************************************)
(* What the payee accepts answers the request, and leaves no other reading *)
(* of the transaction: every input shown is the payer's, every input whose *)
(* value is on record is shown, none is elsewhere, and the one output      *)
(* shown is the only one that pays the recipient the amount.               *)
(***************************************************************************)
EvidenceAnswers ==
  stage = "accepted" =>
    \A d \in decoded :
      LET shown == {e.index + 1 : e \in Range(d.spends)}
          paid  == {e.index + 1 : e \in Range(d.outputs)}
      IN /\ ~pczt.elsewhere
         /\ d.message = plan.message
         /\ \A i \in shown : pczt.spends[i].owner = "payer"
         /\ \A i \in DOMAIN pczt.spends :
              pczt.spends[i].value \notin {0, Redacted} => i \in shown
         /\ \A i \in DOMAIN pczt.outputs :
              i \in paid <=> /\ pczt.outputs[i].label /\ pczt.outputs[i].receiver
                             /\ pczt.outputs[i].value = Asked
=============================================================================
