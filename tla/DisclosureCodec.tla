--------------------------- MODULE DisclosureCodec ---------------------------
(***************************************************************************)
(* The wire form of payment disclosures (zcash-payment-disclosure/src/     *)
(* codec.rs).                                                              *)
(*                                                                         *)
(* A byte string is a sequence of tokens: <<"byte", b>> for a byte that    *)
(* the format reads as one, and one token for each fixed-length field (a   *)
(* transaction id, a commitment, a signature).  A byte has Base values     *)
(* (256 in the code) and a CompactSize 1, 2, 4 or 8 of them, as there.  A  *)
(* field whose bytes would be read as a number is refused: the model does  *)
(* not tell its bytes apart.                                               *)
(***************************************************************************)
EXTENDS Integers, Sequences, SequencesExt

CONSTANTS
  Base,        \* values of a byte
  MaxMessage,  \* MAX_MESSAGE_BYTES
  MaxEntries   \* MAX_DISCLOSURE_ENTRIES

\* The number of values of k bytes.
Power[k \in 0..8] == IF k = 0 THEN 1 ELSE Base * Power[k - 1]

ASSUME CodecAssumption ==
  /\ Base \in Nat /\ Base >= 4
  /\ MaxMessage \in 0..(Power[2] - 1)
  /\ MaxEntries \in Base..(Power[2] - 1)

Draft1   == 1   \* DRAFT1_PROFILE_BYTE
Ironwood == 2   \* ZALLY_IRONWOOD_PROFILE_BYTE
MaxIndex == Power[4] - 1   \* u32::MAX

Byte(b) == <<"byte", b>>

-----------------------------------------------------------------------------
(* Writing.                                                                *)

LittleEndian(n, width) == [i \in 1..width |-> Byte((n \div Power[i - 1]) % Base)]

\* write_compact_size
CompactSize(n) ==
  CASE n < Base - 3                    -> <<Byte(n)>>
    [] n >= Base - 3 /\ n < Power[2]   -> <<Byte(Base - 3)>> \o LittleEndian(n, 2)
    [] n >= Power[2] /\ n < Power[4]   -> <<Byte(Base - 2)>> \o LittleEndian(n, 4)
    [] n >= Power[4]                   -> <<Byte(Base - 1)>> \o LittleEndian(n, 8)

\* A disclosure: profile, transaction, message, and the entries.  fields are
\* what a Sapling spend shows beside its index and signature: cv, rk, zkproof.
FieldsOf(profile) == IF profile = Draft1 THEN 3 ELSE 0

Header(d) == <<Byte(d.profile), d.tx>> \o CompactSize(Len(d.message)) \o d.message

\* The Draft1 format has a byte for the address proof it does not support.
SpendBytes(profile, spend, signed) ==
  CompactSize(spend.index) \o spend.fields
    \o (IF profile = Draft1 THEN <<Byte(0)>> ELSE <<>>)
    \o (IF signed THEN <<spend.sig>> ELSE <<>>)

OutputBytes(output) == CompactSize(output.index) \o <<output.ock>>

\* write_draft1_body (which starts with its count of transparent inputs, 0)
\* and write_ironwood_body
Body(d, signed) ==
  (IF d.profile = Draft1 THEN CompactSize(0) ELSE <<>>)
    \o CompactSize(Len(d.spends))
    \o FlattenSeq([i \in 1..Len(d.spends) |-> SpendBytes(d.profile, d.spends[i], signed)])
    \o CompactSize(Len(d.outputs))
    \o FlattenSeq([i \in 1..Len(d.outputs) |-> OutputBytes(d.outputs[i])])

ToBytes(d)       == Header(d) \o Body(d, TRUE)
UnsignedBytes(d) == Header(d) \o Body(d, FALSE)

\* Mutant: the digest covers the signatures, blank while it is signed.
SignedDigest(d, coin) == <<"digest", coin, ToBytes(d)>>

\* Mutant: the digest leaves the message out.
DigestOfBody(d, coin) == <<"digest", coin, d.profile, d.tx, Body(d, FALSE)>>

\* compute_digest: a hash personalised with the coin type of the network.
Digest(d, coin) == <<"digest", coin, UnsignedBytes(d)>>

-----------------------------------------------------------------------------
(* Validation: the one shape both constructors and both plans demand.      *)

\* Mutant: a repeated index passes.
NeverDecreasing(entries) ==
  \A i \in 1..Len(entries) - 1 : entries[i].index <= entries[i + 1].index

\* require_strictly_increasing
StrictlyIncreasing(entries) ==
  \A i \in 1..Len(entries) - 1 : entries[i].index < entries[i + 1].index

\* validate_indexed_disclosure_shape
WellShaped(d) ==
  /\ Len(d.message) <= MaxMessage
  /\ Len(d.spends) <= MaxEntries
  /\ Len(d.outputs) <= MaxEntries
  /\ d.spends # <<>>
  /\ StrictlyIncreasing(d.spends)
  /\ StrictlyIncreasing(d.outputs)

-----------------------------------------------------------------------------
(* Reading.  What is read at a position is a value and the position behind *)
(* it, which is 0 when nothing could be read there; nothing is read at 0.  *)

Got(value, next) == [value |-> value, next |-> next]

Broken == Got(<<>>, 0)

IsByteAt(s, i) == i \in 1..Len(s) /\ s[i][1] = "byte"

\* A byte that must be 0, and is not kept.
IsZeroAt(s, i) == IsByteAt(s, i) /\ s[i][2] = 0

\* Mutant: any width is taken for any number.
AnyWidth(n, width) == TRUE

\* A number too small for its width is not canonical.
Minimal(n, width) ==
  CASE width = 0 -> TRUE
    [] width = 2 -> n >= Base - 3
    [] width = 4 -> n >= Power[2]
    [] width = 8 -> n >= Power[4]

WidthAfter(prefix) ==
  CASE prefix < Base - 3 -> 0
    [] prefix = Base - 3 -> 2
    [] prefix = Base - 2 -> 4
    [] prefix = Base - 1 -> 8

ValueAt(s, i, width) ==
  LET upTo[k \in 0..width] == IF k = 0 THEN 0 ELSE upTo[k - 1] + s[i + k - 1][2] * Power[k - 1]
  IN  upTo[width]

\* read_compact_size
ReadSize(s, i, bound) ==
  IF ~IsByteAt(s, i) THEN Broken
  ELSE LET width == WidthAfter(s[i][2])
           n     == IF width = 0 THEN s[i][2] ELSE ValueAt(s, i + 1, width)
       IN  IF (\A k \in 1..width : IsByteAt(s, i + k)) /\ Minimal(n, width) /\ n <= bound
             THEN Got(n, i + 1 + width)
             ELSE Broken

ReadSpend(profile, s, i) ==
  LET index == ReadSize(s, i, MaxIndex)
      end   == index.next + FieldsOf(profile)   \* where the fields end
      sig   == IF profile = Draft1 THEN end + 1 ELSE end
  IN  IF index.next = 0 \/ sig > Len(s) \/ (profile = Draft1 /\ ~IsZeroAt(s, end))
        THEN Broken
        ELSE Got([index  |-> index.value,
                  fields |-> SubSeq(s, index.next, end - 1),
                  sig    |-> s[sig]],
                 sig + 1)

ReadOutput(s, i) ==
  LET index == ReadSize(s, i, MaxIndex)
  IN  IF index.next \in 1..Len(s)
        THEN Got([index |-> index.value, ock |-> s[index.next]], index.next + 1)
        ELSE Broken

\* What the entries of a list are at every position they may be read at.
SpendsIn(profile, s) == [i \in 0..Len(s) + 1 |-> ReadSpend(profile, s, i)]
OutputsIn(s)         == [i \in 0..Len(s) + 1 |-> ReadOutput(s, i)]

\* The position behind each of n entries that follow one another from start.
Behind(entryAt, start, n) ==
  LET behind[k \in 0..n] == IF k = 0 THEN start ELSE entryAt[behind[k - 1]].next
  IN  behind

\* A count, then that many entries.
ReadList(entryAt, s, i) ==
  LET count  == ReadSize(s, i, MaxEntries)
      behind == Behind(entryAt, count.next, count.value)
  IN  IF count.next = 0 THEN Broken
      ELSE Got([k \in 1..count.value |-> entryAt[behind[k - 1]].value], behind[count.value])

\* from_bytes with parse_draft1_body and parse_ironwood_body: the disclosures
\* a byte string stands for, one or none.
FromBytes(s) ==
  LET profile == s[1][2]
      length  == ReadSize(s, 3, MaxMessage)
      body    == length.next + length.value
      draft   == profile = Draft1
      spends  == ReadList(SpendsIn(profile, s), s, IF draft THEN body + 1 ELSE body)
      outputs == ReadList(OutputsIn(s), s, spends.next)
      d == [profile |-> profile, tx |-> s[2], message |-> SubSeq(s, length.next, body - 1),
            spends  |-> spends.value, outputs |-> outputs.value]
  IN  IF /\ IsByteAt(s, 1) /\ profile \in {Draft1, Ironwood}
         /\ length.next # 0 /\ body <= Len(s) + 1
         /\ draft => IsZeroAt(s, body)
         /\ outputs.next = Len(s) + 1
         /\ WellShaped(d)
        THEN {d} ELSE {}
=============================================================================
