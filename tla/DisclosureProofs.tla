-------------------------- MODULE DisclosureProofs --------------------------
(***************************************************************************)
(* Theorems about payment disclosures, for every base of the bytes, every  *)
(* bound on messages and lists, and every retained PCZT.                   *)
(*                                                                         *)
(* The first half is about the wire form.  A string stands at a position   *)
(* of another (At); each writer's string is shown to stand where its parts *)
(* stand, and each reader to return a value with the position behind it    *)
(* exactly when that value's string stands there.  A CompactSize is the    *)
(* digits of its number (Sums); a list is strings at places, each behind   *)
(* the last (Places).  So from_bytes and to_bytes are inverses (ReadsWire, *)
(* WritesWire), and the digest's preimage tells disclosures apart          *)
(* (UnsignedTells).                                                        *)
(*                                                                         *)
(* The second half is about the export and the verdict: an export is       *)
(* Faithful to the PCZT, a faithful disclosure verifies, and of all the    *)
(* strings over the tokens there are (Tokens) nothing else does, because a *)
(* signature in them is of the one digest and the digest is of the one     *)
(* disclosure.  DisclosureInv, which says that the bytes on their way are  *)
(* such a string, is inductive and implies the five invariants.            *)
(***************************************************************************)
EXTENDS Disclosure, FiniteSums, SequenceTheorems, TLAPS

(* f starts at x and goes on as g says.                                    *)
Iterates(n, S, x, g, f) ==
  /\ f \in [0..n -> S]
  /\ f[0] = x
  /\ \A k \in 1..n : f[k] = g[k][f[k - 1]]

(* A recursive function over an interval exists.                           *)
LEMMA IterationExists ==
  ASSUME NEW n \in Nat, NEW S, NEW x \in S, NEW g \in [1..n -> [S -> S]]
  PROVE  \E f : Iterates(n, S, x, g, f)
<1>. DEFINE Upto(m, f) == f \in [0..m -> S] /\ f[0] = x /\ \A k \in 1..m : f[k] = g[k][f[k - 1]]
            P == {m \in Nat : m <= n => \E f : Upto(m, f)}
<1>1. 0 \in P
  <2>1. Upto(0, [k \in 0..0 |-> x])
    OBVIOUS
  <2>. QED BY <2>1
<1>2. ASSUME NEW m \in Nat, m \in P PROVE m + 1 \in P
  <2>. SUFFICES ASSUME m + 1 <= n PROVE \E f : Upto(m + 1, f)
    OBVIOUS
  <2>1. PICK f : Upto(m, f)
    BY <1>2
  <2>. DEFINE h == [k \in 0..m + 1 |-> IF k <= m THEN f[k] ELSE g[k][f[k - 1]]]
  <2>2. f[m] \in S /\ m + 1 \in 1..n
    BY <2>1
  <2>3. h \in [0..m + 1 -> S]
    BY <2>1, <2>2
  <2>4. \A k \in 0..m : h[k] = f[k]
    OBVIOUS
  <2>5. ASSUME NEW k \in 1..m + 1 PROVE h[k] = g[k][h[k - 1]]
    <3>1. k - 1 \in 0..m
      OBVIOUS
    <3>2. CASE k <= m
      BY <3>1, <3>2, <2>1, <2>4
    <3>3. CASE k = m + 1
      BY <3>1, <3>3, <2>4
    <3>. QED BY <3>2, <3>3
  <2>6. h[0] = x
    BY <2>1
  <2>. HIDE DEF h
  <2>. QED BY <2>3, <2>5, <2>6
<1>3. n \in P
  <2>. HIDE DEF P
  <2>. QED BY <1>1, <1>2, NaturalInduction
<1>. QED BY <1>3 DEF Iterates

-----------------------------------------------------------------------------
(* Numbers.                                                                *)

(* Division with remainder is unique.                                      *)
LEMMA DivisionUnique ==
  ASSUME NEW P \in Nat, P > 0, NEW q1 \in Nat, NEW q2 \in Nat,
         NEW r1 \in 0..P - 1, NEW r2 \in 0..P - 1, q1 * P + r1 = q2 * P + r2
  PROVE  q1 = q2 /\ r1 = r2
<1>1. ASSUME NEW a \in Nat, NEW b \in Nat, a < b PROVE a * P + P <= b * P
  <2>0. b - a - 1 \in Nat
    BY <1>1
  <2>1. (b - a - 1) * P >= 0
    BY <2>0
  <2>2. (b - a - 1) * P = b * P - a * P - P
    OBVIOUS
  <2>. QED BY <2>1, <2>2
<1>2. ~(q1 < q2) /\ ~(q2 < q1)
  BY <1>1
<1>. QED BY <1>2

(* What is divided is the quotient's multiple and the remainder.           *)
LEMMA Quotient ==
  ASSUME NEW P \in Nat, P > 0, NEW q \in Nat, NEW r \in 0..P - 1
  PROVE  (q * P + r) \div P = q /\ (q * P + r) % P = r
<1>. DEFINE n == q * P + r
<1>1. n \in Nat
  OBVIOUS
<1>2. n \div P \in Nat /\ n % P \in 0..P - 1 /\ n = (n \div P) * P + (n % P)
  <2>. HIDE DEF n
  <2>. QED BY <1>1
<1>. HIDE DEF n
<1>3. (n \div P) * P + (n % P) = q * P + r
  BY <1>2 DEF n
<1>4. n \div P = q /\ n % P = r
  BY <1>2, <1>3, DivisionUnique
<1>. QED BY <1>4 DEF n

(* Power is what its recursive definition says.                            *)
LEMMA PowerIs ==
  /\ Power \in [0..8 -> Nat]
  /\ Power[0] = 1
  /\ \A k \in 1..8 : Power[k] = Base * Power[k - 1]
  /\ \A k \in 0..8 : Power[k] > 0
<1>. DEFINE Is(f) == f = [k \in 0..8 |-> IF k = 0 THEN 1 ELSE Base * f[k - 1]]
            g == [k \in 1..8 |-> [v \in Nat |-> Base * v]]
<1>0. Base \in Nat /\ Base > 0
  BY CodecAssumption
<1>1. g \in [1..8 -> [Nat -> Nat]]
  BY <1>0
<1>2. PICK f : Iterates(8, Nat, 1, g, f)
  <2>1. 8 \in Nat /\ 1 \in Nat
    OBVIOUS
  <2>. HIDE DEF g
  <2>. QED BY <1>1, <2>1, IterationExists
<1>3. \A k \in 1..8 : f[k] = Base * f[k - 1]
  <2>1. \A k \in 1..8 : k - 1 \in 0..8
    OBVIOUS
  <2>. QED BY <1>2, <2>1 DEF Iterates
<1>4. Is(f)
  BY <1>2, <1>3 DEF Iterates
<1>5. Is(Power)
  <2>. HIDE DEF Is
  <2>1. Is(CHOOSE h : Is(h))
    BY <1>4
  <2>. QED BY <2>1 DEF Power, Is
<1>6. Power[0] = 1 /\ \A k \in 1..8 : Power[k] = Base * Power[k - 1]
  BY <1>5
<1>. DEFINE Good == {k \in Nat : k <= 8 => Power[k] \in Nat /\ Power[k] > 0}
<1>7. Nat \subseteq Good
  <2>1. 0 \in Good
    BY <1>6
  <2>2. ASSUME NEW k \in Nat, k \in Good PROVE k + 1 \in Good
    <3>. SUFFICES ASSUME k + 1 <= 8 PROVE Power[k + 1] \in Nat /\ Power[k + 1] > 0
      OBVIOUS
    <3>1. Power[k] \in Nat /\ Power[k] > 0
      BY <2>2
    <3>2. Power[k + 1] = Base * Power[k]
      BY <1>6
    <3>3. Base * Power[k] > 0 /\ Base * Power[k] \in Nat
      BY <1>0, <3>1
    <3>. QED BY <3>2, <3>3
  <2>. HIDE DEF Good
  <2>. QED BY <2>1, <2>2, NaturalInduction
<1>8. \A k \in 0..8 : Power[k] \in Nat /\ Power[k] > 0
  BY <1>7
<1>9. Power \in [0..8 -> Nat]
  BY <1>5, <1>8
<1>. QED BY <1>6, <1>8, <1>9

(* A power of the base is a positive natural.                              *)
LEMMA PowerAt ==
  ASSUME NEW k \in 0..8
  PROVE  Power[k] \in Nat /\ Power[k] > 0
BY PowerIs

(* The next power is one more factor.                                      *)
LEMMA PowerNext ==
  ASSUME NEW k \in 0..7
  PROVE  Power[k + 1] = Base * Power[k]
<1>1. k + 1 \in 1..8 /\ k + 1 - 1 = k
  OBVIOUS
<1>. QED BY <1>1, PowerIs

(* One digit more of n, to a base of B.                                    *)
LEMMA NextDigit ==
  ASSUME NEW P \in Nat, P > 0, NEW B \in Nat, B > 0, NEW n \in Nat
  PROVE  n % (P * B) = ((n \div P) % B) * P + (n % P)
<1>. DEFINE q == n \div P
            r == n % P
            c == q \div B
            d == q % B
<1>1. q \in Nat /\ r \in Nat /\ r < P /\ n = q * P + r
  OBVIOUS
<1>2. c \in Nat /\ d \in Nat /\ d < B /\ q = c * B + d
  <2>. HIDE DEF q
  <2>. QED BY <1>1
<1>. HIDE DEF q, r, c, d
<1>3. d * P + r \in Nat /\ d * P + r < P * B
  <2>1. (B - d - 1) * P >= 0
    <3>1. B - d - 1 \in Nat
      BY <1>2
    <3>. QED BY <3>1
  <2>2. (B - d - 1) * P = P * B - d * P - P
    BY <1>2
  <2>3. d * P \in Nat
    BY <1>2
  <2>. QED BY <2>1, <2>2, <2>3, <1>1
<1>4. n = c * (P * B) + (d * P + r)
  <2>1. q * P = c * (P * B) + d * P
    BY <1>2
  <2>. QED BY <1>1, <1>2, <2>1
<1>5. P * B \in Nat /\ P * B > 0
  OBVIOUS
<1>6. (c * (P * B) + (d * P + r)) % (P * B) = d * P + r
  <2>. DEFINE M == P * B
              x == d * P + r
  <2>1. x \in 0..M - 1 /\ M \in Nat /\ M > 0
    BY <1>3, <1>5
  <2>. HIDE DEF M, x
  <2>2. (c * M + x) % M = x
    BY <2>1, <1>2, Quotient
  <2>. QED BY <2>2 DEF M, x
<1>. QED BY <1>4, <1>6 DEF q, r, d

(* v is the sums of the digits d, taken by their weight.                   *)
Sums(w, d, v) ==
  /\ v \in [0..w -> Nat]
  /\ v[0] = 0
  /\ \A k \in 1..w : v[k] = v[k - 1] + d[k] * Power[k - 1]

(* One digit more adds its weight.                                         *)
LEMMA SumsNext ==
  ASSUME NEW w \in 0..8, NEW d, NEW v, Sums(w, d, v)
  PROVE  \A k \in Nat : k + 1 <= w => v[k + 1] = v[k] + d[k + 1] * Power[k]
<1>. SUFFICES ASSUME NEW k \in Nat, k + 1 <= w
              PROVE  v[k + 1] = v[k] + d[k + 1] * Power[k]
  OBVIOUS
<1>1. k + 1 \in 1..w /\ k + 1 - 1 = k
  OBVIOUS
<1>. QED BY <1>1 DEF Sums

(* a with the digit x behind it is b with y, if a and b are below M.       *)
SameSum(M, a, x, b, y) ==
  /\ M \in Nat /\ M > 0
  /\ a \in 0..M - 1 /\ b \in 0..M - 1 /\ x \in Nat /\ y \in Nat
  /\ a + x * M = b + y * M

(* A last digit can be told from the digits before it.                     *)
LEMMA LastDigit ==
  ASSUME NEW M, NEW a, NEW x, NEW b, NEW y, SameSum(M, a, x, b, y)
  PROVE  a = b /\ x = y
<1>1. /\ M \in Nat /\ M > 0
      /\ a \in 0..M - 1 /\ b \in 0..M - 1 /\ x \in Nat /\ y \in Nat
      /\ a + x * M = b + y * M
  BY Zenon DEF SameSum
<1>2. x * M \in Nat /\ y * M \in Nat
  BY <1>1
<1>3. x * M + a = y * M + b
  BY <1>1, <1>2
<1>. QED BY <1>1, <1>3, DivisionUnique

(* NextDigit, with the digit behind the others.                            *)
LEMMA DigitBehind ==
  ASSUME NEW M \in Nat, M > 0, NEW B \in Nat, B > 0, NEW n \in Nat
  PROVE  (n % M) + ((n \div M) % B) * M = n % (B * M)
<1>1. n % (M * B) = ((n \div M) % B) * M + (n % M)
  BY NextDigit
<1>2. M * B = B * M
  OBVIOUS
<1>. DEFINE r == n % M
            d == (n \div M) % B
            p == d * M
<1>3. r \in Nat /\ d \in Nat
  OBVIOUS
<1>. HIDE DEF r, d
<1>4. p \in Nat
  BY <1>3
<1>. HIDE DEF p
<1>5. p + r = r + p
  BY <1>3, <1>4
<1>. QED BY <1>1, <1>2, <1>5 DEF p, r, d

(* A digit more than fits M values fits B times as many.                   *)
LEMMA DigitFits ==
  ASSUME NEW B \in Nat, NEW M \in Nat, NEW a \in Nat, a < M, NEW x \in 0..B - 1
  PROVE  x * M \in Nat /\ a + x * M < B * M
<1>. DEFINE p == x * M
            q == B * M
            r == (B - x - 1) * M
<1>1. p \in Nat /\ q \in Nat
  OBVIOUS
<1>2. r \in Nat
  <2>1. B - x - 1 \in Nat
    OBVIOUS
  <2>. QED BY <2>1
<1>3. r = q - p - M
  OBVIOUS
<1>. HIDE DEF p, q, r
<1>4. a + p < q
  BY <1>1, <1>2, <1>3
<1>. QED BY <1>1, <1>4 DEF p, q

(* The sum of k digits is below Power[k].                                  *)
LEMMA SumsBounded ==
  ASSUME NEW w \in 0..8, NEW d \in [1..w -> 0..Base - 1], NEW v, Sums(w, d, v)
  PROVE  \A k \in 0..w : v[k] \in Nat /\ v[k] < Power[k]
<1>. DEFINE P == {k \in Nat : k <= w => v[k] < Power[k]}
<1>0. Base \in Nat /\ Base > 0
  BY CodecAssumption
<1>1. 0 \in P
  BY PowerIs DEF Sums
<1>2. ASSUME NEW k \in Nat, k \in P PROVE k + 1 \in P
  <2>. SUFFICES ASSUME k + 1 <= w PROVE v[k + 1] < Power[k + 1]
    OBVIOUS
  <2>1. v[k] \in Nat /\ v[k] < Power[k] /\ v[k + 1] = v[k] + d[k + 1] * Power[k]
    <3>1. k \in 0..w /\ k <= w
      OBVIOUS
    <3>2. v[k] \in Nat
      BY <3>1 DEF Sums
    <3>3. v[k] < Power[k]
      BY <1>2, <3>1
    <3>4. d \in [1..w -> Nat]
      BY <1>0
    <3>5. v[k + 1] = v[k] + d[k + 1] * Power[k]
      <4>. HIDE DEF P
      <4>. QED BY ZenonT(40), <3>4, SumsNext
    <3>. QED BY <3>2, <3>3, <3>5
  <2>2. Power[k] \in Nat /\ Power[k] > 0 /\ Power[k + 1] = Base * Power[k]
    <3>1. k \in 0..7 /\ k \in 0..8
      OBVIOUS
    <3>. QED BY <3>1, PowerAt, PowerNext
  <2>3. d[k + 1] \in 0..Base - 1
    <3>1. k + 1 \in 1..w
      OBVIOUS
    <3>. QED BY <3>1
  <2>. HIDE DEF P
  <2>4. v[k] + d[k + 1] * Power[k] < Base * Power[k]
    BY ZenonT(40), <1>0, <2>1, <2>2, <2>3, DigitFits
  <2>. QED BY <2>1, <2>2, <2>4
<1>3. Nat \subseteq P
  <2>. HIDE DEF P
  <2>. QED BY <1>1, <1>2, NaturalInduction
<1>. QED BY <1>3 DEF Sums

(* The digits of n sum to n.                                               *)
LEMMA DigitsSum ==
  ASSUME NEW n \in Nat, NEW w \in 0..8, NEW v,
         Sums(w, [k \in 1..w |-> (n \div Power[k - 1]) % Base], v)
  PROVE  \A k \in 0..w : v[k] = n % Power[k]
<1>. DEFINE P == {k \in Nat : k <= w => v[k] = n % Power[k]}
<1>0. Base \in Nat /\ Base > 0
  BY CodecAssumption
<1>1. 0 \in P
  <2>1. n % 1 = 0
    OBVIOUS
  <2>. QED BY <2>1, PowerIs DEF Sums
<1>2. ASSUME NEW k \in Nat, k \in P PROVE k + 1 \in P
  <2>. SUFFICES ASSUME k + 1 <= w PROVE v[k + 1] = n % Power[k + 1]
    OBVIOUS
  <2>. HIDE DEF P
  <2>1. v[k] = n % Power[k] /\ v[k + 1] = v[k] + ((n \div Power[k]) % Base) * Power[k]
    BY <1>2 DEF P, Sums
  <2>2. Power[k] \in Nat /\ Power[k] > 0 /\ Power[k + 1] = Base * Power[k]
    <3>1. k \in 0..7 /\ k \in 0..8
      BY SMTT(30)
    <3>. QED BY <3>1, PowerAt, PowerNext
  <2>3. (n % Power[k]) + ((n \div Power[k]) % Base) * Power[k] = n % (Base * Power[k])
    BY ZenonT(40), <1>0, <2>2, DigitBehind
  <2>. QED BY ZenonT(40), <2>1, <2>2, <2>3
<1>3. Nat \subseteq P
  <2>. HIDE DEF P
  <2>. QED BY <1>1, <1>2, NaturalInduction
<1>. QED BY <1>3

(* A sum determines its digits.                                            *)
LEMMA DigitsUnique ==
  ASSUME NEW w \in 0..8, NEW d \in [1..w -> 0..Base - 1], NEW e \in [1..w -> 0..Base - 1],
         NEW v, NEW u, Sums(w, d, v), Sums(w, e, u), v[w] = u[w]
  PROVE  d = e
<1>. DEFINE P == {k \in Nat : k <= w /\ v[k] = u[k] => \A j \in 1..k : d[j] = e[j]}
<1>0. Base \in Nat /\ Base > 0
  BY CodecAssumption
<1>1. 0 \in P
  OBVIOUS
<1>2. ASSUME NEW k \in Nat, k \in P PROVE k + 1 \in P
  <2>. SUFFICES ASSUME k + 1 <= w, v[k + 1] = u[k + 1]
                PROVE  \A j \in 1..k + 1 : d[j] = e[j]
    OBVIOUS
  <2>1. v[k + 1] = v[k] + d[k + 1] * Power[k] /\ u[k + 1] = u[k] + e[k + 1] * Power[k]
    BY ZenonT(40), SumsNext
  <2>2. Power[k] \in Nat /\ Power[k] > 0
    <3>1. k \in 0..8
      OBVIOUS
    <3>. QED BY <3>1, PowerAt
  <2>3. v[k] \in 0..Power[k] - 1 /\ u[k] \in 0..Power[k] - 1
    <3>1. k \in 0..w
      OBVIOUS
    <3>2. v[k] \in Nat /\ v[k] < Power[k]
      BY <3>1, SumsBounded
    <3>3. u[k] \in Nat /\ u[k] < Power[k]
      BY <3>1, SumsBounded
    <3>. QED BY SMTT(30), <3>2, <3>3, <2>2
  <2>4. d[k + 1] \in Nat /\ e[k + 1] \in Nat
    <3>1. k + 1 \in 1..w
      OBVIOUS
    <3>. QED BY <1>0, <3>1
  <2>5. v[k] + d[k + 1] * Power[k] = u[k] + e[k + 1] * Power[k]
    BY ZenonT(40), <2>1
  <2>6. d[k + 1] = e[k + 1] /\ v[k] = u[k]
    <3>. HIDE DEF P
    <3>1. SameSum(Power[k], v[k], d[k + 1], u[k], e[k + 1])
      BY Zenon, <2>2, <2>3, <2>4, <2>5 DEF SameSum
    <3>. QED BY <3>1, LastDigit
  <2>7. \A j \in 1..k : d[j] = e[j]
    BY <1>2, <2>6
  <2>. QED BY SMTT(30), <2>6, <2>7
<1>3. Nat \subseteq P
  <2>. HIDE DEF P
  <2>. QED BY <1>1, <1>2, NaturalInduction
<1>4. \A j \in 1..w : d[j] = e[j]
  BY <1>3
<1>. QED BY <1>4

(* The sums of any digits.                                                 *)
LEMMA SumsExist ==
  ASSUME NEW w \in 0..8, NEW d \in [1..w -> Nat]
  PROVE  \E v : Sums(w, d, v)
<1>. DEFINE g == [k \in 1..w |-> [x \in Nat |-> x + d[k] * Power[k - 1]]]
<1>1. g \in [1..w -> [Nat -> Nat]]
  <2>1. ASSUME NEW k \in 1..w PROVE d[k] \in Nat /\ Power[k - 1] \in Nat
    <3>1. k - 1 \in 0..8
      OBVIOUS
    <3>. QED BY <3>1, PowerAt
  <2>2. \A k \in 1..w : d[k] * Power[k - 1] \in Nat
    BY <2>1
  <2>. QED BY SMTT(30), <2>2
<1>2. w \in Nat /\ 0 \in Nat
  OBVIOUS
<1>3. PICK v : Iterates(w, Nat, 0, g, v)
  <2>. HIDE DEF g
  <2>. QED BY <1>1, <1>2, IterationExists
<1>4. Sums(w, d, v)
  <2>1. \A k \in 1..w : k - 1 \in 0..w
    OBVIOUS
  <2>. QED BY <1>3, <2>1 DEF Iterates, Sums
<1>. QED BY <1>4

(* What the assumption on the constants says of the bounds that are        *)
(* powers.                                                                 *)
LEMMA PowersGrow ==
  /\ Base \in Nat /\ Base >= 4
  /\ Power[2] \in Nat /\ Power[4] \in Nat /\ Power[8] \in Nat
  /\ Base < Power[2] /\ Power[2] < Power[4]
  /\ MaxMessage \in 0..MaxIndex /\ MaxEntries \in 0..MaxIndex /\ MaxIndex \in Nat
<1>0. Base \in Nat /\ Base >= 4
  BY CodecAssumption
<1>1. Power[0] = 1 /\ Power[1] = Base * Power[0] /\ Power[2] = Base * Power[1]
      /\ Power[3] = Base * Power[2] /\ Power[4] = Base * Power[3]
  <2>1. Power[0] = 1 /\ Power[0 + 1] = Base * Power[0] /\ Power[1 + 1] = Base * Power[1]
        /\ Power[2 + 1] = Base * Power[2] /\ Power[3 + 1] = Base * Power[3]
    BY PowerIs, PowerNext
  <2>. QED BY <2>1
<1>2. Power[2] \in Nat /\ Power[3] \in Nat /\ Power[4] \in Nat /\ Power[8] \in Nat
      /\ Power[2] > 0 /\ Power[3] > 0
  BY PowerAt
<1>3. Power[1] = Base
  BY <1>0, <1>1
<1>4. ASSUME NEW x \in Nat, x > 0 PROVE x < Base * x
  <2>1. (Base - 1) * x >= 3 * x
    BY <1>0, <1>4
  <2>2. (Base - 1) * x = Base * x - x
    BY <1>0
  <2>. QED BY <2>1, <2>2, <1>4, <1>0
<1>5. Base < Power[2] /\ Power[2] < Power[3] /\ Power[3] < Power[4]
  BY <1>0, <1>1, <1>2, <1>3, <1>4
<1>6. Power[2] < Power[4]
  BY <1>2, <1>5
<1>. QED BY <1>0, <1>2, <1>5, <1>6, CodecAssumption DEF MaxIndex

-----------------------------------------------------------------------------
(* What stands where in a byte string.                                     *)

(* t stands at i in s.                                                     *)
At(s, i, t) ==
  /\ i \in 1..Len(s) + 1
  /\ i + Len(t) <= Len(s) + 1
  /\ \A j \in 1..Len(t) : s[i + j - 1] = t[j]

(* Two strings in a row stand one behind the other.                        *)
LEMMA AtConcat ==
  ASSUME NEW T, NEW s \in Seq(T), NEW t \in Seq(T), NEW u \in Seq(T), NEW i \in Nat
  PROVE  At(s, i, t \o u) <=> At(s, i, t) /\ At(s, i + Len(t), u)
<1>0. Len(s) \in Nat /\ Len(t) \in Nat /\ Len(u) \in Nat
  BY LenProperties
<1>1. /\ Len(t \o u) = Len(t) + Len(u)
      /\ \A j \in 1..Len(t) + Len(u) :
           (t \o u)[j] = IF j <= Len(t) THEN t[j] ELSE u[j - Len(t)]
  BY ConcatProperties
<1>2. ASSUME At(s, i, t \o u) PROVE At(s, i, t) /\ At(s, i + Len(t), u)
  <2>1. ASSUME NEW j \in 1..Len(t) PROVE s[i + j - 1] = t[j]
    BY <1>0, <1>1, <1>2 DEF At
  <2>2. ASSUME NEW j \in 1..Len(u) PROVE s[i + Len(t) + j - 1] = u[j]
    <3>1. Len(t) + j \in 1..Len(t) + Len(u) /\ ~(Len(t) + j <= Len(t)) /\ Len(t) + j - Len(t) = j
      BY <1>0
    <3>2. s[i + (Len(t) + j) - 1] = (t \o u)[Len(t) + j]
      BY <1>1, <1>2, <3>1 DEF At
    <3>3. i + (Len(t) + j) - 1 = i + Len(t) + j - 1
      BY <1>0
    <3>. QED BY SMTT(30), <1>1, <3>1, <3>2, <3>3
  <2>. QED BY <1>0, <1>1, <1>2, <2>1, <2>2 DEF At
<1>3. ASSUME At(s, i, t), At(s, i + Len(t), u) PROVE At(s, i, t \o u)
  <2>1. ASSUME NEW j \in 1..Len(t \o u) PROVE s[i + j - 1] = (t \o u)[j]
    <3>1. CASE j <= Len(t)
      BY <1>0, <1>1, <1>3, <3>1 DEF At
    <3>2. CASE ~(j <= Len(t))
      <4>1. j - Len(t) \in 1..Len(u) /\ i + Len(t) + (j - Len(t)) - 1 = i + j - 1
        BY <1>0, <1>1, <3>2
      <4>2. s[i + Len(t) + (j - Len(t)) - 1] = u[j - Len(t)]
        BY <1>3, <4>1 DEF At
      <4>. QED BY <1>1, <3>2, <4>1, <4>2
    <3>. QED BY <3>1, <3>2
  <2>. QED BY SMTT(30), <1>0, <1>1, <1>3, <2>1 DEF At
<1>. QED BY <1>2, <1>3

(* A string of one token.                                                  *)
LEMMA AtOne ==
  ASSUME NEW T, NEW s \in Seq(T), NEW x, NEW i
  PROVE  At(s, i, <<x>>) <=> i \in 1..Len(s) /\ s[i] = x
<1>0. Len(s) \in Nat /\ Len(<<x>>) = 1 /\ <<x>>[1] = x
  BY LenProperties
<1>. QED BY <1>0 DEF At

(* The empty string stands anywhere, and at the end.                       *)
LEMMA AtEmpty ==
  ASSUME NEW T, NEW s \in Seq(T), NEW i
  PROVE  At(s, i, <<>>) <=> i \in 1..Len(s) + 1
<1>0. Len(s) \in Nat /\ Len(<<>>) = 0
  BY LenProperties
<1>. QED BY <1>0 DEF At

(* Two strings of one length at one place are the same.                    *)
LEMMA AtSame ==
  ASSUME NEW T, NEW t \in Seq(T), NEW u \in Seq(T), NEW s, NEW i,
         At(s, i, t), At(s, i, u), Len(t) = Len(u)
  PROVE  t = u
BY SeqEqual DEF At

(* A string is another if that stands at its start and ends with it.       *)
LEMMA AtWhole ==
  ASSUME NEW T, NEW s \in Seq(T), NEW t \in Seq(T)
  PROVE  s = t <=> At(s, 1, t) /\ 1 + Len(t) = Len(s) + 1
<1>0. Len(s) \in Nat /\ Len(t) \in Nat
  BY LenProperties
<1>1. \A j \in Nat : 1 + j - 1 = j
  OBVIOUS
<1>2. s = t => At(s, 1, t) /\ 1 + Len(t) = Len(s) + 1
  BY <1>0, <1>1 DEF At
<1>3. ASSUME At(s, 1, t), 1 + Len(t) = Len(s) + 1 PROVE s = t
  <2>1. Len(s) = Len(t)
    BY <1>0, <1>3
  <2>2. \A j \in 1..Len(t) : s[j] = t[j]
    BY <1>0, <1>1, <1>3 DEF At
  <2>. QED BY <2>1, <2>2, SeqEqual
<1>. QED BY <1>2, <1>3

(* A part of a string stands where it was taken from.                      *)
LEMMA AtSub ==
  ASSUME NEW T, NEW s \in Seq(T), NEW i \in 1..Len(s) + 1, NEW j \in i..Len(s) + 1
  PROVE  /\ SubSeq(s, i, j - 1) \in Seq(T)
         /\ Len(SubSeq(s, i, j - 1)) = j - i
         /\ At(s, i, SubSeq(s, i, j - 1))
<1>0. Len(s) \in Nat /\ i \in Nat /\ j \in Nat /\ i <= j
  BY LenProperties
<1>1. i \in 1..Len(s) + 1 /\ j - 1 \in i - 1..Len(s)
  BY <1>0
<1>2. SubSeq(s, i, j - 1) \in Seq(T) /\ Len(SubSeq(s, i, j - 1)) = (j - 1) - i + 1
      /\ \A k \in 1..j - 1 - i + 1 : SubSeq(s, i, j - 1)[k] = s[i + k - 1]
  BY <1>0, <1>1, SubSeqProperties
<1>. QED BY <1>0, <1>2 DEF At

(* The tokens the format reads as bytes.                                   *)
Bytes == {Byte(b) : b \in 0..Base - 1}

(* Tokens of which those that read as bytes are bytes.                     *)
Alphabet(T) ==
  /\ Bytes \subseteq T
  /\ \A t \in T : t[1] = "byte" => t \in Bytes

(* A byte's token names its value, and no other token is read as a byte.   *)
LEMMA ByteIs ==
  /\ \A b : Byte(b)[1] = "byte" /\ Byte(b)[2] = b
  /\ \A t \in Bytes : t[2] \in 0..Base - 1 /\ t = Byte(t[2]) /\ t[1] = "byte"
BY DEF Byte, Bytes

(* c is n, in a CompactSize of w bytes behind its first.                   *)
Encodes(c, n, w) ==
  /\ c \in Seq(Bytes) /\ Len(c) = 1 + w
  /\ WidthAfter(c[1][2]) = w
  /\ Minimal(n, w)
  /\ IF w = 0 THEN c[1][2] = n
              ELSE /\ n < Power[w]
                   /\ \A k \in 1..w : c[1 + k] = LittleEndian(n, w)[k]

(* The first byte determines the width, and the width what is canonical.   *)
LEMMA Widths ==
  /\ \A p \in 0..Base - 1 :
       /\ WidthAfter(p) \in {0, 2, 4, 8}
       /\ WidthAfter(p) = 0 <=> p < Base - 3
       /\ WidthAfter(p) = 2 <=> p = Base - 3
       /\ WidthAfter(p) = 4 <=> p = Base - 2
       /\ WidthAfter(p) = 8 <=> p = Base - 1
  /\ \A n : /\ Minimal(n, 0) = TRUE
            /\ Minimal(n, 2) <=> n >= Base - 3
            /\ Minimal(n, 4) <=> n >= Power[2]
            /\ Minimal(n, 8) <=> n >= Power[4]
<1>1. ASSUME NEW p \in 0..Base - 1
      PROVE  p \in Int /\ Base \in Nat /\ (p < Base - 3 \/ p = Base - 3 \/ p = Base - 2 \/ p = Base - 1)
  BY PowersGrow
<1>2. ASSUME NEW p \in 0..Base - 1
      PROVE /\ WidthAfter(p) \in {0, 2, 4, 8}
            /\ WidthAfter(p) = 0 <=> p < Base - 3
            /\ WidthAfter(p) = 2 <=> p = Base - 3
            /\ WidthAfter(p) = 4 <=> p = Base - 2
            /\ WidthAfter(p) = 8 <=> p = Base - 1
  BY <1>1 DEF WidthAfter
<1>3. ASSUME NEW n
      PROVE  /\ Minimal(n, 0) = TRUE
             /\ Minimal(n, 2) <=> n >= Base - 3
             /\ Minimal(n, 4) <=> n >= Power[2]
             /\ Minimal(n, 8) <=> n >= Power[4]
  BY DEF Minimal
<1>. QED BY <1>2, <1>3

(* The bytes of a number, least first, are its digits.                     *)
LEMMA LittleEndianIs ==
  ASSUME NEW n \in Nat, NEW w \in 0..8
  PROVE  /\ LittleEndian(n, w) \in Seq(Bytes)
         /\ Len(LittleEndian(n, w)) = w
         /\ \A k \in 1..w : LittleEndian(n, w)[k] = Byte((n \div Power[k - 1]) % Base)
<1>1. ASSUME NEW k \in 1..w PROVE (n \div Power[k - 1]) % Base \in 0..Base - 1
  <2>1. k - 1 \in 0..8
    OBVIOUS
  <2>2. Power[k - 1] \in Nat /\ Power[k - 1] > 0
    BY <2>1, PowerAt
  <2>3. n \div Power[k - 1] \in Nat
    BY <2>2
  <2>. QED BY <2>3, PowersGrow
<1>2. LittleEndian(n, w) \in [1..w -> Bytes]
  BY <1>1 DEF LittleEndian, Bytes
<1>. QED BY <1>2, LenProperties DEF LittleEndian

(* A number below the range of u32 is encoded by CompactSize ...           *)
LEMMA CompactSizeEncodes ==
  ASSUME NEW n \in 0..MaxIndex
  PROVE  \E w \in {0, 2, 4} : Encodes(CompactSize(n), n, w)
<1>0. n \in Nat /\ n < Power[4] /\ Base \in Nat /\ Base >= 4 /\ Power[2] \in Nat
  BY PowersGrow DEF MaxIndex
<1>1. ASSUME NEW b \in 0..Base - 1 PROVE <<Byte(b)>> \in Seq(Bytes) /\ Len(<<Byte(b)>>) = 1
  BY DEF Bytes
<1>2. CASE n < Base - 3
  <2>1. CompactSize(n) = <<Byte(n)>> /\ n \in 0..Base - 1
    BY SMTT(30), <1>0, <1>2, PowersGrow DEF CompactSize
  <2>2. Encodes(CompactSize(n), n, 0)
    BY <1>0, <1>1, <1>2, <2>1, Widths, ByteIs DEF Encodes
  <2>. QED BY <2>2
<1>3. ASSUME NEW w \in {2, 4}, NEW p \in 0..Base - 1, WidthAfter(p) = w, Minimal(n, w),
             n < Power[w], CompactSize(n) = <<Byte(p)>> \o LittleEndian(n, w)
      PROVE  Encodes(CompactSize(n), n, w)
  <2>. DEFINE c == CompactSize(n)
              e == LittleEndian(n, w)
  <2>1. w \in 0..8 /\ w \in Nat /\ w # 0
    OBVIOUS
  <2>2. e \in Seq(Bytes) /\ Len(e) = w
    BY <1>0, <2>1, LittleEndianIs
  <2>3. c \in Seq(Bytes) /\ Len(c) = 1 + w
        /\ \A j \in 1..1 + w : c[j] = IF j <= 1 THEN <<Byte(p)>>[j] ELSE e[j - 1]
    <3>1. <<Byte(p)>> \in Seq(Bytes) /\ Len(<<Byte(p)>>) = 1
      BY <1>1
    <3>2. c = <<Byte(p)>> \o e
      BY <1>3
    <3>. HIDE DEF e, c
    <3>. QED BY <2>2, <3>1, <3>2, ConcatProperties
  <2>4. c[1] = Byte(p)
    BY <2>1, <2>3
  <2>5. ASSUME NEW k \in 1..w PROVE c[1 + k] = e[k]
    <3>1. 1 + k \in 1..1 + w /\ ~(1 + k <= 1) /\ 1 + k - 1 = k
      BY <2>1
    <3>. HIDE DEF e, c
    <3>. QED BY <2>3, <3>1
  <2>6. c[1][2] = p
    BY <2>4, ByteIs
  <2>7. \A k \in 1..w : c[1 + k] = LittleEndian(n, w)[k]
    BY <2>5
  <2>. HIDE DEF c, e
  <2>8. Encodes(c, n, w)
    BY <1>3, <2>1, <2>3, <2>6, <2>7 DEF Encodes
  <2>. QED BY <2>8 DEF c
<1>4. CASE n >= Base - 3 /\ n < Power[2]
  <2>1. CompactSize(n) = <<Byte(Base - 3)>> \o LittleEndian(n, 2)
    <3>1. ~(n < Base - 3) /\ ~(n >= Power[2]) /\ ~(n >= Power[4])
      BY <1>0, <1>4, PowersGrow
    <3>. QED BY <1>4, <3>1 DEF CompactSize
  <2>2. Base - 3 \in 0..Base - 1
    BY <1>0
  <2>3. Encodes(CompactSize(n), n, 2)
    BY <1>3, <1>4, <2>1, <2>2, Widths
  <2>. QED BY <2>3
<1>5. CASE n >= Power[2] /\ n < Power[4]
  <2>1. CompactSize(n) = <<Byte(Base - 2)>> \o LittleEndian(n, 4)
    <3>1. ~(n < Base - 3) /\ ~(n < Power[2]) /\ ~(n >= Power[4])
      BY <1>0, <1>5, PowersGrow
    <3>. QED BY <1>5, <3>1 DEF CompactSize
  <2>2. Base - 2 \in 0..Base - 1
    BY <1>0
  <2>3. Encodes(CompactSize(n), n, 4)
    BY <1>3, <1>5, <2>1, <2>2, Widths
  <2>. QED BY <2>3
<1>. QED BY <1>0, <1>2, <1>4, <1>5

(* The number determines the width and the first byte ...                  *)
LEMMA EncodesFirst ==
  ASSUME NEW n \in Nat, NEW c, NEW w \in {0, 2, 4}, Encodes(c, n, w)
  PROVE  /\ c[1] \in Bytes
         /\ IF n < Base - 3 THEN w = 0 /\ c[1][2] = n
            ELSE IF n < Power[2] THEN w = 2 /\ c[1][2] = Base - 3
            ELSE w = 4 /\ c[1][2] = Base - 2
<1>0. Base \in Nat /\ Base >= 4 /\ Power[2] \in Nat /\ Base < Power[2]
  BY PowersGrow
<1>1. c \in Seq(Bytes) /\ Len(c) = 1 + w /\ 1 \in 1..1 + w
  BY DEF Encodes
<1>2. c[1] \in Bytes
  BY <1>1, ElementOfSeq
<1>3. c[1][2] \in 0..Base - 1 /\ c[1][2] \in Int
  BY <1>0, <1>2, ByteIs
<1>4. CASE w = 0
  <2>1. c[1][2] = n /\ n < Base - 3
    BY <1>3, <1>4, Widths DEF Encodes
  <2>. QED BY <1>2, <1>4, <2>1
<1>5. CASE w = 2
  <2>1. c[1][2] = Base - 3 /\ n >= Base - 3 /\ n < Power[2]
    BY <1>3, <1>5, Widths DEF Encodes
  <2>. QED BY <1>0, <1>2, <1>5, <2>1
<1>6. CASE w = 4
  <2>1. c[1][2] = Base - 2 /\ n >= Power[2]
    BY <1>3, <1>6, Widths DEF Encodes
  <2>. QED BY <1>0, <1>2, <1>6, <2>1
<1>. QED BY <1>4, <1>5, <1>6

(* ... and so the encoding.                                                *)
LEMMA EncodesUnique ==
  ASSUME NEW n \in Nat, NEW c, NEW e, NEW v \in {0, 2, 4}, NEW w \in {0, 2, 4},
         Encodes(c, n, v), Encodes(e, n, w)
  PROVE  c = e /\ v = w
<1>2. v = w /\ c[1] = e[1]
  <2>1. v = w /\ c[1][2] = e[1][2] /\ c[1] \in Bytes /\ e[1] \in Bytes
    BY EncodesFirst
  <2>. QED BY <2>1, ByteIs
<1>3. Len(c) = Len(e) /\ c \in Seq(Bytes) /\ e \in Seq(Bytes)
  BY <1>2 DEF Encodes
<1>4. ASSUME NEW j \in 1..Len(c) PROVE c[j] = e[j]
  <2>1. CASE j = 1
    BY <1>2, <2>1
  <2>2. CASE j # 1
    <3>1. Len(c) = 1 + v
      BY DEF Encodes
    <3>2. v # 0 /\ j - 1 \in 1..v /\ 1 + (j - 1) = j
      BY <2>2, <3>1
    <3>. QED BY <1>2, <3>2 DEF Encodes
  <2>. QED BY <2>1, <2>2
<1>. QED BY <1>2, <1>3, <1>4, SeqEqual

(* The digits d stand at i in s.                                           *)
Digits(s, i, w, d) == \A k \in 1..w : s[i + k - 1][2] = d[k]

(* What ValueAt computes is the sum of the digits that stand there.        *)
LEMMA ValueIs ==
  ASSUME NEW w \in 0..8, NEW d \in [1..w -> Nat], NEW s, NEW i \in Nat, Digits(s, i, w, d)
  PROVE  \E v : Sums(w, d, v) /\ ValueAt(s, i, w) = v[w]
<1>. DEFINE Is(f) == f = [k \in 0..w |-> IF k = 0 THEN 0
                                         ELSE f[k - 1] + s[i + k - 1][2] * Power[k - 1]]
            u == CHOOSE f : Is(f)
<1>1. PICK v : Sums(w, d, v)
  BY SumsExist
<1>2. Is(v)
  <2>1. v = [k \in 0..w |-> v[k]]
    BY <1>1 DEF Sums
  <2>2. \A k \in 1..w : v[k] = v[k - 1] + s[i + k - 1][2] * Power[k - 1]
    BY <1>1 DEF Sums, Digits
  <2>3. v[0] = 0
    BY <1>1 DEF Sums
  <2>4. \A k \in 0..w : v[k] = IF k = 0 THEN 0 ELSE v[k - 1] + s[i + k - 1][2] * Power[k - 1]
    <3>1. \A k \in 0..w : k = 0 \/ k \in 1..w
      OBVIOUS
    <3>. QED BY <2>2, <2>3, <3>1
  <2>. QED BY <2>1, <2>4
<1>3. Is(u)
  <2>. HIDE DEF Is
  <2>. QED BY <1>2
<1>4. ValueAt(s, i, w) = u[w]
  BY DEF ValueAt
<1>5. u[0] = 0 /\ \A k \in 1..w : u[k] = u[k - 1] + s[i + k - 1][2] * Power[k - 1]
  <2>. HIDE DEF u
  <2>1. \A k \in 0..w : u[k] = IF k = 0 THEN 0 ELSE u[k - 1] + s[i + k - 1][2] * Power[k - 1]
    BY ZenonT(30), <1>3
  <2>2. 0 \in 0..w /\ \A k \in 1..w : k \in 0..w /\ k # 0
    OBVIOUS
  <2>. HIDE DEF Is
  <2>. QED BY ZenonT(30), <2>1, <2>2
<1>. HIDE DEF u, Is
<1>. DEFINE P == {k \in Nat : k <= w => u[k] = v[k]}
<1>6. 0 \in P
  BY <1>1, <1>5 DEF Sums
<1>7. ASSUME NEW k \in Nat, k \in P PROVE k + 1 \in P
  <2>. SUFFICES ASSUME k + 1 <= w PROVE u[k + 1] = v[k + 1]
    OBVIOUS
  <2>1. k + 1 \in 1..w /\ k + 1 - 1 = k /\ i + (k + 1) - 1 = i + k
    OBVIOUS
  <2>2. v[k + 1] = v[k] + d[k + 1] * Power[k]
    BY ZenonT(40), <1>1, SumsNext
  <2>3. s[i + (k + 1) - 1][2] = d[k + 1]
    BY <2>1 DEF Digits
  <2>4. u[k + 1] = u[k] + s[i + (k + 1) - 1][2] * Power[k]
    BY <1>5, <2>1
  <2>5. u[k] = v[k]
    BY <1>7
  <2>. QED BY <2>2, <2>3, <2>4, <2>5
<1>8. Nat \subseteq P
  <2>. HIDE DEF P
  <2>. QED BY <1>6, <1>7, NaturalInduction
<1>9. u[w] = v[w]
  BY <1>8
<1>. QED BY <1>1, <1>4, <1>9

(* Reading undoes the writing of a number's bytes ...                      *)
LEMMA ReadsValue ==
  ASSUME NEW w \in 0..8, NEW n \in Nat, n < Power[w], NEW s, NEW i \in Nat,
         \A k \in 1..w : s[i + k - 1] = LittleEndian(n, w)[k]
  PROVE  ValueAt(s, i, w) = n
<1>. DEFINE d == [k \in 1..w |-> (n \div Power[k - 1]) % Base]
<1>1. \A k \in 1..w : LittleEndian(n, w)[k] = Byte(d[k])
  BY LittleEndianIs
<1>2. ASSUME NEW k \in 1..w PROVE d[k] \in Nat
  <2>1. k - 1 \in 0..8
    OBVIOUS
  <2>2. Power[k - 1] \in Nat /\ Power[k - 1] > 0
    BY <2>1, PowerAt
  <2>3. n \div Power[k - 1] \in Nat
    BY <2>2
  <2>. QED BY <2>3, PowersGrow
<1>3. Digits(s, i, w, d)
  <2>. HIDE DEF d
  <2>. QED BY <1>1, ByteIs DEF Digits
<1>4. d \in [1..w -> Nat]
  BY <1>2
<1>5. PICK v : Sums(w, d, v) /\ ValueAt(s, i, w) = v[w]
  <2>. HIDE DEF d
  <2>. QED BY <1>3, <1>4, ValueIs
<1>6. v[w] = n % Power[w]
  <2>1. w \in 0..w
    OBVIOUS
  <2>. QED BY <1>5, <2>1, DigitsSum
<1>7. n % Power[w] = n
  BY PowerAt
<1>. QED BY <1>5, <1>6, <1>7

(* ... and writing undoes the reading of any bytes.                        *)
LEMMA WritesValue ==
  ASSUME NEW w \in 0..8, NEW s, NEW i \in Nat, \A k \in 1..w : s[i + k - 1] \in Bytes
  PROVE  /\ ValueAt(s, i, w) \in Nat
         /\ ValueAt(s, i, w) < Power[w]
         /\ \A k \in 1..w : s[i + k - 1] = LittleEndian(ValueAt(s, i, w), w)[k]
<1>. DEFINE n == ValueAt(s, i, w)
            d == [k \in 1..w |-> s[i + k - 1][2]]
            e == [k \in 1..w |-> (n \div Power[k - 1]) % Base]
<1>0. Base \in Nat /\ Base > 0
  BY PowersGrow
<1>1. d \in [1..w -> 0..Base - 1]
  BY ByteIs
<1>2. d \in [1..w -> Nat]
  <2>1. 0..Base - 1 \subseteq Nat
    BY <1>0
  <2>. HIDE DEF d
  <2>. QED BY <1>1, <2>1
<1>3. PICK v : Sums(w, d, v) /\ n = v[w]
  <2>1. Digits(s, i, w, d)
    BY DEF Digits
  <2>. HIDE DEF d
  <2>. QED BY <1>2, <2>1, ValueIs
<1>4. n \in Nat /\ n < Power[w]
  <2>1. w \in 0..w
    OBVIOUS
  <2>. HIDE DEF d, n
  <2>. QED BY <1>1, <1>3, <2>1, SumsBounded
<1>. HIDE DEF n
<1>5. ASSUME NEW k \in 1..w PROVE e[k] \in 0..Base - 1
  <2>1. k - 1 \in 0..8
    OBVIOUS
  <2>2. Power[k - 1] \in Nat /\ Power[k - 1] > 0
    BY <2>1, PowerAt
  <2>3. n \div Power[k - 1] \in Nat
    BY <1>4, <2>2
  <2>. QED BY <1>0, <2>3
<1>6. e \in [1..w -> 0..Base - 1]
  BY <1>5
<1>7. PICK u : Sums(w, e, u)
  <2>. HIDE DEF e
  <2>1. 0..Base - 1 \subseteq Nat
    BY <1>0
  <2>2. e \in [1..w -> Nat]
    BY <1>6, <2>1
  <2>. QED BY <2>2, SumsExist
<1>8. u[w] = n
  <2>1. w \in 0..w
    OBVIOUS
  <2>2. u[w] = n % Power[w]
    BY ZenonT(40), <1>4, <1>7, <2>1, DigitsSum
  <2>. QED BY <1>4, <2>2, PowerAt
<1>9. d = e
  <2>. HIDE DEF d, e
  <2>. QED BY <1>1, <1>3, <1>6, <1>7, <1>8, DigitsUnique
<1>10. ASSUME NEW k \in 1..w PROVE s[i + k - 1] = LittleEndian(n, w)[k]
  <2>1. s[i + k - 1] = Byte(d[k])
    BY ByteIs
  <2>2. LittleEndian(n, w)[k] = Byte(e[k])
    BY <1>4, LittleEndianIs
  <2>. QED BY <1>9, <2>1, <2>2
<1>. QED BY <1>4, <1>10 DEF n

(* What IsByteAt finds in a string is a byte.                              *)
LEMMA AlphabetBytes ==
  ASSUME NEW T, Alphabet(T), NEW s \in Seq(T)
  PROVE  /\ Len(s) \in Nat
         /\ Bytes \subseteq T
         /\ \A i : IsByteAt(s, i) => i \in 1..Len(s) /\ s[i] \in Bytes /\ s[i][2] \in 0..Base - 1
<1>1. ASSUME NEW i, IsByteAt(s, i)
      PROVE  i \in 1..Len(s) /\ s[i] \in Bytes /\ s[i][2] \in 0..Base - 1
  <2>1. i \in 1..Len(s) /\ s[i][1] = "byte"
    BY <1>1 DEF IsByteAt
  <2>2. s[i] \in T
    BY <2>1, ElementOfSeq
  <2>. QED BY <2>1, <2>2, ByteIs DEF Alphabet
<1>. QED BY <1>1, LenProperties DEF Alphabet

(* A number that stands in s is read ...                                   *)
LEMMA ReadsSize ==
  ASSUME NEW T, Alphabet(T), NEW s \in Seq(T), NEW i \in Nat, NEW bound \in 0..MaxIndex,
         NEW n \in 0..bound, NEW c, NEW w \in {0, 2, 4}, Encodes(c, n, w), At(s, i, c)
  PROVE  ReadSize(s, i, bound) = Got(n, i + Len(c))
<1>0. c \in Seq(Bytes) /\ Len(c) = 1 + w /\ Len(s) \in Nat /\ w \in 0..8 /\ n \in Nat
  BY AlphabetBytes DEF Encodes
<1>1. ASSUME NEW j \in 0..w PROVE IsByteAt(s, i + j) /\ s[i + j] = c[1 + j]
  <2>1. 1 + j \in 1..Len(c) /\ i + (1 + j) - 1 = i + j
    BY <1>0
  <2>2. s[i + j] = c[1 + j] /\ i + j \in 1..Len(s)
    <3>1. s[i + (1 + j) - 1] = c[1 + j] /\ i + Len(c) <= Len(s) + 1 /\ i \in 1..Len(s) + 1
      BY <2>1 DEF At
    <3>. QED BY SMTT(30), <1>0, <2>1, <3>1
  <2>3. c[1 + j] \in Bytes
    BY <1>0, <2>1, ElementOfSeq
  <2>. QED BY <2>2, <2>3, ByteIs DEF IsByteAt
<1>2. IsByteAt(s, i) /\ s[i] = c[1]
  <2>1. 0 \in 0..w /\ i + 0 = i /\ 1 + 0 = 1
    BY <1>0
  <2>. QED BY <1>1, <2>1
<1>3. WidthAfter(s[i][2]) = w
  BY <1>2 DEF Encodes
<1>4. \A k \in 1..w : IsByteAt(s, i + k)
  BY <1>0, <1>1
<1>5. (IF w = 0 THEN s[i][2] ELSE ValueAt(s, i + 1, w)) = n
  <2>1. CASE w = 0
    BY <1>2, <2>1 DEF Encodes
  <2>2. CASE w # 0
    <3>1. n < Power[w] /\ \A k \in 1..w : c[1 + k] = LittleEndian(n, w)[k]
      BY <2>2 DEF Encodes
    <3>2. ASSUME NEW k \in 1..w PROVE s[i + 1 + k - 1] = LittleEndian(n, w)[k]
      <4>1. i + 1 + k - 1 = i + k /\ k \in 0..w
        BY <1>0
      <4>. QED BY <1>1, <3>1, <4>1
    <3>3. i + 1 \in Nat
      OBVIOUS
    <3>4. ValueAt(s, i + 1, w) = n
      BY ZenonT(40), <1>0, <3>1, <3>2, <3>3, ReadsValue
    <3>. QED BY <2>2, <3>4
  <2>. QED BY <2>1, <2>2
<1>6. Minimal(n, w) /\ n <= bound
  BY <1>0, PowersGrow DEF Encodes
<1>7. i + 1 + w = i + Len(c)
  BY <1>0
<1>. QED BY <1>2, <1>3, <1>4, <1>5, <1>6, <1>7 DEF ReadSize

(* The two parts of what is read.                                          *)
LEMMA GotIs == \A value, next : Got(value, next).value = value /\ Got(value, next).next = next
BY DEF Got

(* Nothing read has no position behind it.                                 *)
LEMMA BrokenIs == Broken.next = 0
BY DEF Broken, Got

(* ... and what is read stands in s.                                       *)
LEMMA WritesSize ==
  ASSUME NEW T, Alphabet(T), NEW s \in Seq(T), NEW i, NEW bound \in 0..MaxIndex,
         ReadSize(s, i, bound).next # 0
  PROVE  /\ i \in 1..Len(s)
         /\ ReadSize(s, i, bound).value \in 0..bound
         /\ \E c : \E w \in {0, 2, 4} :
              /\ Encodes(c, ReadSize(s, i, bound).value, w)
              /\ At(s, i, c)
              /\ ReadSize(s, i, bound).next = i + Len(c)
<1>. DEFINE w == WidthAfter(s[i][2])
            n == IF w = 0 THEN s[i][2] ELSE ValueAt(s, i + 1, w)
<1>1. IsByteAt(s, i)
  BY BrokenIs DEF ReadSize
<1>2. (\A k \in 1..w : IsByteAt(s, i + k)) /\ Minimal(n, w) /\ n <= bound
  BY <1>1, BrokenIs DEF ReadSize
<1>3. ReadSize(s, i, bound).value = n /\ ReadSize(s, i, bound).next = i + 1 + w
  BY <1>1, <1>2, GotIs DEF ReadSize
<1>4. i \in 1..Len(s) /\ s[i] \in Bytes /\ s[i][2] \in 0..Base - 1 /\ Len(s) \in Nat
      /\ Base \in Nat /\ bound \in Nat /\ bound < Power[4] /\ Power[4] \in Nat
      /\ Bytes \subseteq T
  BY SMTT(40), <1>1, AlphabetBytes, PowersGrow DEF MaxIndex
<1>5. w \in {0, 2, 4, 8}
  BY <1>4, Widths
<1>. DEFINE c == SubSeq(s, i, i + w)
<1>6. ASSUME NEW j \in 0..w PROVE i + j \in 1..Len(s) /\ s[i + j] \in Bytes
  <2>1. CASE j = 0
    BY <1>4, <2>1
  <2>2. CASE j # 0
    <3>. HIDE DEF w
    <3>1. j \in 1..w
      BY <1>5, <2>2
    <3>. QED BY <1>2, <3>1, AlphabetBytes
  <2>. QED BY <2>1, <2>2
<1>. HIDE DEF w
<1>7. w \in Nat /\ i + w \in 1..Len(s) /\ i \in Nat
  BY <1>4, <1>5, <1>6
<1>8. c \in Seq(Bytes) /\ Len(c) = 1 + w /\ At(s, i, c)
      /\ \A j \in 0..w : c[1 + j] = s[i + j]
  <2>1. ASSUME NEW j \in i..i + w PROVE s[j] \in Bytes
    <3>1. j - i \in 0..w /\ i + (j - i) = j
      BY <1>7
    <3>. QED BY <1>6, <3>1
  <2>2. /\ c \in Seq(Bytes)
        /\ Len(c) = IF i <= i + w THEN i + w - i + 1 ELSE 0
        /\ \A j \in 1..i + w - i + 1 : c[j] = s[i + j - 1]
    BY SMTT(30), <1>7, <2>1, SubSeqProperties
  <2>3. Len(c) = 1 + w
    BY <1>7, <2>2
  <2>4. ASSUME NEW j \in 0..w PROVE c[1 + j] = s[i + j]
    <3>1. 1 + j \in 1..i + w - i + 1 /\ i + (1 + j) - 1 = i + j
      BY <1>7
    <3>. QED BY <2>2, <3>1
  <2>5. At(s, i, c)
    <3>1. \A j \in 1..Len(c) : s[i + j - 1] = c[j]
      BY <1>7, <2>2, <2>3
    <3>. HIDE DEF c
    <3>. QED BY <1>4, <1>7, <2>3, <3>1 DEF At
  <2>. QED BY <2>2, <2>3, <2>4, <2>5
<1>9. c[1] = s[i]
  <2>1. 0 \in 0..w /\ 1 + 0 = 1 /\ i + 0 = i
    BY <1>7
  <2>. HIDE DEF c
  <2>. QED BY <1>8, <2>1
<1>. HIDE DEF c
<1>10. CASE w = 0
  <2>1. n = s[i][2] /\ n \in 0..bound
    <3>1. n = s[i][2]
      BY <1>10
    <3>2. s[i][2] <= bound
      BY <1>2, <3>1
    <3>. QED BY <1>4, <3>1, <3>2
  <2>2. Encodes(c, n, w)
    <3>. HIDE DEF n
    <3>. QED BY <1>2, <1>8, <1>9, <1>10, <2>1 DEF Encodes, w
  <2>3. i + 1 + w = i + Len(c)
    BY <1>7, <1>8
  <2>. QED BY <1>3, <1>4, <1>8, <1>10, <2>1, <2>2, <2>3
<1>11. CASE w # 0
  <2>1. n = ValueAt(s, i + 1, w) /\ w \in 0..8 /\ i + 1 \in Nat
    BY <1>5, <1>7, <1>11
  <2>2. ASSUME NEW k \in 1..w PROVE s[i + 1 + k - 1] \in Bytes /\ s[i + 1 + k - 1] = c[1 + k]
    <3>1. i + 1 + k - 1 = i + k /\ k \in 0..w
      BY <1>7
    <3>. QED BY <1>6, <1>8, <3>1
  <2>3. /\ ValueAt(s, i + 1, w) \in Nat
        /\ ValueAt(s, i + 1, w) < Power[w]
        /\ \A k \in 1..w : s[i + 1 + k - 1] = LittleEndian(ValueAt(s, i + 1, w), w)[k]
    BY <2>1, <2>2, WritesValue
  <2>. HIDE DEF n
  <2>4. n \in Nat /\ n < Power[w] /\ \A k \in 1..w : c[1 + k] = LittleEndian(n, w)[k]
    BY <2>1, <2>2, <2>3
  <2>5. n \in 0..bound
    BY <1>2, <1>4, <2>4
  <2>6. w \in {2, 4}
    <3>1. ~(n >= Power[4])
      BY <1>4, <2>4, <2>5
    <3>2. w # 8
      BY <1>2, <3>1, Widths
    <3>. QED BY <1>5, <1>11, <3>2
  <2>7. Encodes(c, n, w)
    BY <1>2, <1>8, <1>9, <1>11, <2>4 DEF Encodes, w
  <2>8. i + 1 + w = i + Len(c)
    BY <1>7, <1>8
  <2>. QED BY <1>3, <1>4, <1>8, <2>5, <2>6, <2>7, <2>8
<1>. QED BY <1>10, <1>11

(* A number has no encoding but the one that is written.                   *)
LEMMA CompactSizeOnly ==
  ASSUME NEW n \in 0..MaxIndex, NEW c, NEW v \in {0, 2, 4}, Encodes(c, n, v)
  PROVE  c = CompactSize(n)
<1>0. n \in Nat
  BY PowersGrow
<1>1. \A e : \A w \in {0, 2, 4} : Encodes(e, n, w) => c = e
  <2>1. SUFFICES ASSUME NEW e, NEW w \in {0, 2, 4}, Encodes(e, n, w) PROVE c = e
    OBVIOUS
  <2>2. c = e /\ v = w
    BY <1>0, <2>1, EncodesUnique
  <2>. QED BY <2>2
<1>2. PICK w \in {0, 2, 4} : Encodes(CompactSize(n), n, w)
  BY CompactSizeEncodes
<1>. DEFINE e == CompactSize(n)
<1>3. Encodes(e, n, w)
  BY <1>2
<1>. HIDE DEF e
<1>4. c = e
  BY <1>1, <1>3
<1>. QED BY <1>4 DEF e

(* Type and length of two strings in a row.                                *)
LEMMA ConcatLength ==
  ASSUME NEW T, NEW t \in Seq(T), NEW u \in Seq(T)
  PROVE  t \o u \in Seq(T) /\ Len(t \o u) = Len(t) + Len(u)
BY ConcatProperties

(* A CompactSize is some bytes, and at least one.                          *)
LEMMA CompactSizeIsBytes ==
  ASSUME NEW n \in 0..MaxIndex
  PROVE  CompactSize(n) \in Seq(Bytes) /\ Len(CompactSize(n)) \in Nat \ {0}
<1>1. PICK w \in {0, 2, 4} : Encodes(CompactSize(n), n, w)
  BY CompactSizeEncodes
<1>. QED BY <1>1 DEF Encodes

(* read_compact_size undoes write_compact_size, wherever its bytes stand,  *)
(* ...                                                                     *)
LEMMA ReadsCompactSize ==
  ASSUME NEW T, Alphabet(T), NEW s \in Seq(T), NEW i \in Nat, NEW bound \in 0..MaxIndex,
         NEW n \in 0..bound, At(s, i, CompactSize(n))
  PROVE  ReadSize(s, i, bound) = Got(n, i + Len(CompactSize(n)))
<1>1. n \in 0..MaxIndex
  BY PowersGrow
<1>2. PICK w \in {0, 2, 4} : Encodes(CompactSize(n), n, w)
  BY <1>1, CompactSizeEncodes
<1>. QED BY <1>2, ReadsSize

(* ... and takes no bytes but those write_compact_size makes.              *)
LEMMA WritesCompactSize ==
  ASSUME NEW T, Alphabet(T), NEW s \in Seq(T), NEW i, NEW bound \in 0..MaxIndex,
         ReadSize(s, i, bound).next # 0
  PROVE  /\ i \in 1..Len(s)
         /\ ReadSize(s, i, bound).value \in 0..bound
         /\ At(s, i, CompactSize(ReadSize(s, i, bound).value))
         /\ ReadSize(s, i, bound).next = i + Len(CompactSize(ReadSize(s, i, bound).value))
<1>. DEFINE n == ReadSize(s, i, bound).value
<1>1. /\ i \in 1..Len(s) /\ n \in 0..bound
      /\ \E c : \E w \in {0, 2, 4} :
              /\ Encodes(c, n, w) /\ At(s, i, c) /\ ReadSize(s, i, bound).next = i + Len(c)
  BY WritesSize
<1>2. PICK c : \E w \in {0, 2, 4} :
              /\ Encodes(c, n, w) /\ At(s, i, c) /\ ReadSize(s, i, bound).next = i + Len(c)
  BY <1>1
<1>6. PICK v \in {0, 2, 4} : /\ Encodes(c, n, v) /\ At(s, i, c)
                            /\ ReadSize(s, i, bound).next = i + Len(c)
  BY <1>2
<1>. HIDE DEF n
<1>3. n \in 0..MaxIndex /\ n \in Nat
  BY <1>1, PowersGrow
<1>5. c = CompactSize(n)
  BY <1>3, <1>6, CompactSizeOnly
<1>. QED BY <1>1, <1>6, <1>5 DEF n

(* Two numbers at one place are the same.                                  *)
LEMMA SizesAtOnePlace ==
  ASSUME NEW T, Alphabet(T), NEW s \in Seq(T), NEW i \in Nat, NEW m \in 0..MaxIndex,
         NEW n \in 0..MaxIndex, At(s, i, CompactSize(m)), At(s, i, CompactSize(n))
  PROVE  m = n
<1>1. MaxIndex \in 0..MaxIndex
  BY PowersGrow
<1>2. /\ ReadSize(s, i, MaxIndex) = Got(m, i + Len(CompactSize(m)))
      /\ ReadSize(s, i, MaxIndex) = Got(n, i + Len(CompactSize(n)))
  BY <1>1, ReadsCompactSize
<1>. QED BY <1>2, GotIs

(* What is read stays within the string.                                   *)
LEMMA ReadSizeNext ==
  ASSUME NEW T, Alphabet(T), NEW s \in Seq(T), NEW i, NEW bound \in 0..MaxIndex
  PROVE  ReadSize(s, i, bound).next \in 0..Len(s) + 1
<1>. DEFINE n == ReadSize(s, i, bound).value
<1>1. CASE ReadSize(s, i, bound).next = 0
  BY <1>1, AlphabetBytes
<1>2. CASE ReadSize(s, i, bound).next # 0
  <2>1. /\ i \in 1..Len(s) /\ n \in 0..bound /\ At(s, i, CompactSize(n))
        /\ ReadSize(s, i, bound).next = i + Len(CompactSize(n))
    BY <1>2, WritesCompactSize
  <2>. HIDE DEF n
  <2>2. n \in 0..MaxIndex
    BY <2>1, PowersGrow
  <2>3. Len(CompactSize(n)) \in Nat /\ Len(s) \in Nat
    BY <2>2, CompactSizeIsBytes, AlphabetBytes
  <2>. QED BY <2>1, <2>3 DEF At
<1>. QED BY <1>1, <1>2

-----------------------------------------------------------------------------
(* The entries of a disclosure.                                            *)

(* The entries there are, of tokens of T.                                  *)
SpendsOver(T, profile) ==
  [index : 0..MaxIndex, fields : {f \in Seq(T) : Len(f) = FieldsOf(profile)}, sig : T]

OutputsOver(T) == [index : 0..MaxIndex, ock : T]

(* The byte a Draft1 spend has for the address proof, and a Draft1 body    *)
(* for its transparent inputs; and the signature, when it is written.      *)
Filler(profile) == IF profile = Draft1 THEN 1 ELSE 0
Shown(signed)   == IF signed THEN 1 ELSE 0

(* The bytes of a spend stand where its parts stand, one behind the other. *)
LEMMA SpendBytesAre ==
  ASSUME NEW T, Alphabet(T), NEW profile \in {Draft1, Ironwood},
         NEW x \in SpendsOver(T, profile), NEW signed \in BOOLEAN
  PROVE  /\ SpendBytes(profile, x, signed) \in Seq(T)
         /\ Len(SpendBytes(profile, x, signed))
              = Len(CompactSize(x.index)) + FieldsOf(profile) + Filler(profile) + Shown(signed)
         /\ \A s \in Seq(T), i \in Nat :
              At(s, i, SpendBytes(profile, x, signed)) <=>
                LET j == i + Len(CompactSize(x.index))
                    k == j + FieldsOf(profile)
                IN  /\ At(s, i, CompactSize(x.index))
                    /\ At(s, j, x.fields)
                    /\ At(s, k, IF profile = Draft1 THEN <<Byte(0)>> ELSE <<>>)
                    /\ At(s, k + Filler(profile), IF signed THEN <<x.sig>> ELSE <<>>)
<1>. DEFINE c == CompactSize(x.index)
            f == x.fields
            z == IF profile = Draft1 THEN <<Byte(0)>> ELSE <<>>
            g == IF signed THEN <<x.sig>> ELSE <<>>
<1>1. x.index \in 0..MaxIndex /\ f \in Seq(T) /\ Len(f) = FieldsOf(profile) /\ x.sig \in T
  BY DEF SpendsOver
<1>2. Bytes \subseteq T /\ Byte(0) \in T
  BY PowersGrow DEF Alphabet, Bytes
<1>3. c \in Seq(T) /\ Len(c) \in Nat
  BY <1>1, <1>2, CompactSizeIsBytes, SeqMonotonic
<1>4. z \in Seq(T) /\ Len(z) = Filler(profile)
  <2>1. CASE profile = Draft1
    <3>1. z = <<Byte(0)>>
      BY <2>1
    <3>. QED BY <1>2, <2>1, <3>1 DEF Filler
  <2>2. CASE profile # Draft1
    BY <2>2 DEF Filler
  <2>. QED BY <2>1, <2>2
<1>5. g \in Seq(T) /\ Len(g) = Shown(signed)
  <2>1. CASE signed
    BY <1>1, <2>1 DEF Shown
  <2>2. CASE ~signed
    BY <2>2 DEF Shown
  <2>. QED BY <2>1, <2>2
<1>6. SpendBytes(profile, x, signed) = ((c \o f) \o z) \o g
  BY DEF SpendBytes
<1>7. FieldsOf(profile) \in Nat /\ Filler(profile) \in Nat /\ Shown(signed) \in Nat
  BY DEF FieldsOf, Filler, Shown
<1>. HIDE DEF c, f, z, g
<1>8. c \o f \in Seq(T) /\ Len(c \o f) = Len(c) + FieldsOf(profile)
  BY <1>1, <1>3, ConcatProperties
<1>9. (c \o f) \o z \in Seq(T)
      /\ Len((c \o f) \o z) = Len(c) + FieldsOf(profile) + Filler(profile)
  <2>1. (c \o f) \o z \in Seq(T) /\ Len((c \o f) \o z) = Len(c \o f) + Len(z)
    BY <1>4, <1>8, ConcatLength
  <2>. QED BY <2>1, <1>4, <1>8
<1>10. ((c \o f) \o z) \o g \in Seq(T)
       /\ Len(((c \o f) \o z) \o g) = Len(c) + FieldsOf(profile) + Filler(profile) + Shown(signed)
  <2>1. /\ ((c \o f) \o z) \o g \in Seq(T)
        /\ Len(((c \o f) \o z) \o g) = Len((c \o f) \o z) + Len(g)
    BY <1>5, <1>9, ConcatLength
  <2>. QED BY <2>1, <1>5, <1>9
<1>11. ASSUME NEW s \in Seq(T), NEW i \in Nat
       PROVE  At(s, i, ((c \o f) \o z) \o g) <=>
                /\ At(s, i, c)
                /\ At(s, i + Len(c), f)
                /\ At(s, i + Len(c) + FieldsOf(profile), z)
                /\ At(s, i + Len(c) + FieldsOf(profile) + Filler(profile), g)
  <2>1. At(s, i, ((c \o f) \o z) \o g) <=>
          At(s, i, (c \o f) \o z) /\ At(s, i + (Len(c) + FieldsOf(profile) + Filler(profile)), g)
    BY <1>5, <1>9, AtConcat
  <2>2. At(s, i, (c \o f) \o z) <=>
          At(s, i, c \o f) /\ At(s, i + (Len(c) + FieldsOf(profile)), z)
    BY <1>4, <1>8, AtConcat
  <2>3. At(s, i, c \o f) <=> At(s, i, c) /\ At(s, i + Len(c), f)
    BY <1>1, <1>3, AtConcat
  <2>4. /\ i + (Len(c) + FieldsOf(profile)) = i + Len(c) + FieldsOf(profile)
        /\ i + (Len(c) + FieldsOf(profile) + Filler(profile))
             = i + Len(c) + FieldsOf(profile) + Filler(profile)
    BY <1>3, <1>7
  <2>. QED BY <2>1, <2>2, <2>3, <2>4
<1>12. /\ SpendBytes(profile, x, signed) \in Seq(T)
       /\ Len(SpendBytes(profile, x, signed))
            = Len(c) + FieldsOf(profile) + Filler(profile) + Shown(signed)
  BY <1>6, <1>10
<1>13. \A s \in Seq(T), i \in Nat :
         At(s, i, SpendBytes(profile, x, signed)) <=>
                /\ At(s, i, c)
                /\ At(s, i + Len(c), f)
                /\ At(s, i + Len(c) + FieldsOf(profile), z)
                /\ At(s, i + Len(c) + FieldsOf(profile) + Filler(profile), g)
  BY <1>6, <1>11
<1>. QED BY <1>12, <1>13 DEF c, f, z, g

(* So do those of an output.                                               *)
LEMMA OutputBytesAre ==
  ASSUME NEW T, Alphabet(T), NEW x \in OutputsOver(T)
  PROVE  /\ OutputBytes(x) \in Seq(T)
         /\ Len(OutputBytes(x)) = Len(CompactSize(x.index)) + 1
         /\ \A s \in Seq(T), i \in Nat :
              At(s, i, OutputBytes(x)) <=>
                /\ At(s, i, CompactSize(x.index))
                /\ i + Len(CompactSize(x.index)) \in 1..Len(s)
                /\ s[i + Len(CompactSize(x.index))] = x.ock
<1>. DEFINE c == CompactSize(x.index)
            k == <<x.ock>>
<1>1. x.index \in 0..MaxIndex /\ x.ock \in T
  BY DEF OutputsOver
<1>2. Bytes \subseteq T
  BY DEF Alphabet
<1>3. c \in Seq(T) /\ Len(c) \in Nat
  BY <1>1, <1>2, CompactSizeIsBytes, SeqMonotonic
<1>4. k \in Seq(T) /\ Len(k) = 1
  BY <1>1
<1>5. OutputBytes(x) = c \o k
  BY DEF OutputBytes
<1>6. \A s \in Seq(T), i \in Nat : At(s, i, k) <=> i \in 1..Len(s) /\ s[i] = x.ock
  BY AtOne
<1>. HIDE DEF c, k
<1>7. c \o k \in Seq(T) /\ Len(c \o k) = Len(c) + 1
  BY SMTT(30), <1>3, <1>4, ConcatProperties
<1>8. ASSUME NEW s \in Seq(T), NEW i \in Nat
      PROVE  At(s, i, c \o k) <=>
               At(s, i, c) /\ i + Len(c) \in 1..Len(s) /\ s[i + Len(c)] = x.ock
  <2>1. At(s, i, c \o k) <=> At(s, i, c) /\ At(s, i + Len(c), k)
    BY <1>3, <1>4, AtConcat
  <2>2. i + Len(c) \in Nat
    BY <1>3
  <2>. QED BY <1>6, <2>1, <2>2
<1>. QED BY <1>5, <1>7, <1>8 DEF c

(* An entry that stands in a byte string is read there, ...                *)
LEMMA ReadsSpend ==
  ASSUME NEW T, Alphabet(T), NEW s \in Seq(T), NEW profile \in {Draft1, Ironwood},
         NEW x \in SpendsOver(T, profile), NEW i \in Nat,
         At(s, i, SpendBytes(profile, x, TRUE))
  PROVE  ReadSpend(profile, s, i) = Got(x, i + Len(SpendBytes(profile, x, TRUE)))
<1>. DEFINE c == CompactSize(x.index)
            j == i + Len(c)
            k == j + FieldsOf(profile)
            l == k + Filler(profile)
<1>1. /\ x.index \in 0..MaxIndex /\ x.fields \in Seq(T)
      /\ Len(x.fields) = FieldsOf(profile)
      /\ x = [index |-> x.index, fields |-> x.fields, sig |-> x.sig]
  BY DEF SpendsOver
<1>2. Len(c) \in Nat /\ FieldsOf(profile) \in Nat /\ Filler(profile) \in Nat
  BY <1>1, CompactSizeIsBytes DEF FieldsOf, Filler
<1>3. j \in Nat /\ k \in Nat /\ l \in Nat
  BY <1>2
<1>4. /\ At(s, i, c)
      /\ At(s, j, x.fields)
      /\ At(s, k, IF profile = Draft1 THEN <<Byte(0)>> ELSE <<>>)
      /\ At(s, l, <<x.sig>>)
  BY SpendBytesAre
<1>5. Len(SpendBytes(profile, x, TRUE)) = Len(c) + FieldsOf(profile) + Filler(profile) + 1
  BY SpendBytesAre DEF Shown
<1>6. MaxIndex \in 0..MaxIndex
  BY PowersGrow
<1>7. ReadSize(s, i, MaxIndex) = Got(x.index, j)
  BY <1>1, <1>4, <1>6, ReadsCompactSize
<1>8. ReadSize(s, i, MaxIndex).next = j /\ ReadSize(s, i, MaxIndex).value = x.index
  BY <1>7, GotIs
<1>9. i \in 1..Len(s) + 1 /\ j # 0
  BY <1>2, <1>4 DEF At
<1>10. l \in 1..Len(s) /\ s[l] = x.sig
  BY <1>3, <1>4, AtOne
<1>11. profile = Draft1 => IsZeroAt(s, k) /\ l = k + 1
  <2>1. SUFFICES ASSUME profile = Draft1 PROVE IsZeroAt(s, k) /\ l = k + 1
    OBVIOUS
  <2>2. At(s, k, <<Byte(0)>>)
    BY <1>4, <2>1
  <2>3. k \in 1..Len(s) /\ s[k] = Byte(0)
    BY <1>3, <2>2, AtOne
  <2>4. s[k][1] = "byte" /\ s[k][2] = 0
    BY <2>3 DEF Byte
  <2>. QED BY <2>1, <2>3, <2>4 DEF IsZeroAt, IsByteAt, Filler
<1>12. profile # Draft1 => l = k
  BY <1>3 DEF Filler
<1>13. SubSeq(s, j, k - 1) = x.fields
  <2>1. j \in 1..Len(s) + 1 /\ k \in j..Len(s) + 1 /\ k - j = FieldsOf(profile)
    <3>1. k \in 1..Len(s) + 1
      BY <1>3, <1>4 DEF At
    <3>2. j # 0
      BY <1>2, <1>9
    <3>. QED BY SMTT(30), <1>2, <1>3, <3>1, <3>2
  <2>. HIDE DEF j, k
  <2>2. /\ SubSeq(s, j, k - 1) \in Seq(T) /\ Len(SubSeq(s, j, k - 1)) = FieldsOf(profile)
        /\ At(s, j, SubSeq(s, j, k - 1))
    BY <2>1, AtSub
  <2>. DEFINE u == SubSeq(s, j, k - 1)
  <2>3. u \in Seq(T) /\ Len(u) = Len(x.fields) /\ At(s, j, u) /\ At(s, j, x.fields)
    BY <1>1, <1>4, <2>2
  <2>4. x.fields \in Seq(T)
    BY <1>1
  <2>. HIDE DEF u
  <2>5. u = x.fields
    BY <2>3, <2>4, AtSame
  <2>. QED BY <2>5 DEF u
<1>14. l + 1 = i + Len(SpendBytes(profile, x, TRUE))
  <2>1. i + Len(SpendBytes(profile, x, TRUE)) = i + (Len(c) + FieldsOf(profile) + Filler(profile) + 1)
    BY <1>5
  <2>2. ASSUME NEW a \in Nat, NEW b \in Nat, NEW d \in Nat
        PROVE  i + (a + b + d + 1) = ((i + a) + b) + d + 1
    OBVIOUS
  <2>. HIDE DEF c
  <2>. QED BY ZenonT(40), <1>2, <2>1, <2>2
<1>15. Len(s) \in Nat
  BY LenProperties
<1>. DEFINE sig == IF profile = Draft1 THEN k + 1 ELSE k
<1>16. sig = l
  BY <1>11, <1>12
<1>17. ReadSpend(profile, s, i) =
         IF j = 0 \/ sig > Len(s) \/ (profile = Draft1 /\ ~IsZeroAt(s, k))
           THEN Broken
           ELSE Got([index |-> x.index, fields |-> SubSeq(s, j, k - 1), sig |-> s[sig]], sig + 1)
  BY <1>8 DEF ReadSpend
<1>18. ~(j = 0 \/ sig > Len(s) \/ (profile = Draft1 /\ ~IsZeroAt(s, k)))
  BY <1>9, <1>10, <1>11, <1>15, <1>16
<1>. QED BY <1>1, <1>10, <1>13, <1>14, <1>16, <1>17, <1>18

(* ... and what is read as an entry stands there.                          *)
LEMMA WritesSpend ==
  ASSUME NEW T, Alphabet(T), NEW s \in Seq(T), NEW profile \in {Draft1, Ironwood}, NEW i,
         ReadSpend(profile, s, i).next # 0
  PROVE  /\ i \in 1..Len(s)
         /\ ReadSpend(profile, s, i).value \in SpendsOver(T, profile)
         /\ At(s, i, SpendBytes(profile, ReadSpend(profile, s, i).value, TRUE))
         /\ ReadSpend(profile, s, i).next
              = i + Len(SpendBytes(profile, ReadSpend(profile, s, i).value, TRUE))
<1>. DEFINE n == ReadSize(s, i, MaxIndex).value
            c == CompactSize(n)
            j == ReadSize(s, i, MaxIndex).next
            k == j + FieldsOf(profile)
            l == IF profile = Draft1 THEN k + 1 ELSE k
            x == [index |-> n, fields |-> SubSeq(s, j, k - 1), sig |-> s[l]]
<1>1. ReadSpend(profile, s, i) =
        IF j = 0 \/ l > Len(s) \/ (profile = Draft1 /\ ~IsZeroAt(s, k))
          THEN Broken ELSE Got(x, l + 1)
  BY DEF ReadSpend
<1>2. /\ j # 0 /\ ~(l > Len(s)) /\ (profile = Draft1 => IsZeroAt(s, k))
      /\ ReadSpend(profile, s, i).value = x /\ ReadSpend(profile, s, i).next = l + 1
  <2>. HIDE DEF j, k, l, x
  <2>. QED BY <1>1, GotIs, BrokenIs
<1>3. MaxIndex \in 0..MaxIndex
  BY PowersGrow
<1>4. i \in 1..Len(s) /\ n \in 0..MaxIndex /\ At(s, i, c) /\ j = i + Len(c)
  BY <1>2, <1>3, WritesCompactSize
<1>. HIDE DEF n, j
<1>5. Len(c) \in Nat /\ FieldsOf(profile) \in Nat /\ Len(s) \in Nat
  BY <1>4, CompactSizeIsBytes, LenProperties DEF FieldsOf
<1>6. /\ i \in Nat /\ j \in Nat \ {0} /\ k \in Nat /\ k >= j /\ l \in 1..Len(s) /\ k <= l
      /\ l = k + Filler(profile)
  <2>1. i \in Nat /\ j \in Nat \ {0}
    BY <1>4, <1>5
  <2>2. k \in Nat /\ k >= j
    BY <1>5, <2>1
  <2>3. l = k + Filler(profile) /\ l <= Len(s) /\ Filler(profile) \in {0, 1}
    <3>1. l \in Nat
      BY <2>2
    <3>2. l <= Len(s)
      <4>. HIDE DEF l
      <4>. QED BY <1>2, <1>5, <3>1
    <3>. QED BY <2>2, <3>2 DEF Filler
  <2>. HIDE DEF k, l
  <2>4. l \in Nat /\ k <= l /\ l >= 1
    BY <2>1, <2>2, <2>3
  <2>. QED BY <1>5, <2>1, <2>2, <2>3, <2>4
<1>7. /\ SubSeq(s, j, k - 1) \in Seq(T) /\ Len(SubSeq(s, j, k - 1)) = FieldsOf(profile)
      /\ \A m \in 1..FieldsOf(profile) : SubSeq(s, j, k - 1)[m] = s[j + m - 1]
  <2>1. /\ j \in 1..Len(s) + 1 /\ k - 1 \in (j - 1)..Len(s) /\ k - 1 - j + 1 = FieldsOf(profile)
    BY SMTT(30), <1>5, <1>6
  <2>. HIDE DEF k, l
  <2>. QED BY <2>1, SubSeqProperties
<1>8. x \in SpendsOver(T, profile)
  <2>1. s[l] \in T
    BY <1>6, ElementOfSeq
  <2>. QED BY <1>4, <1>7, <2>1 DEF SpendsOver
<1>9. At(s, j, SubSeq(s, j, k - 1))
  <2>1. j \in 1..Len(s) + 1 /\ k \in j..Len(s) + 1
    BY <1>5, <1>6
  <2>. HIDE DEF k
  <2>. QED BY <2>1, AtSub
<1>10. At(s, l, <<s[l]>>)
  BY <1>6, AtOne
<1>11. At(s, k, IF profile = Draft1 THEN <<Byte(0)>> ELSE <<>>)
  <2>1. CASE profile = Draft1
    <3>1. k \in 1..Len(s) /\ s[k][1] = "byte" /\ s[k][2] = 0
      BY <1>2, <2>1 DEF IsZeroAt, IsByteAt
    <3>2. s[k] \in T
      BY <3>1, ElementOfSeq
    <3>3. s[k] \in Bytes
      BY <3>1, <3>2, AlphabetBytes DEF IsByteAt
    <3>4. s[k] = Byte(0)
      BY <3>1, <3>3, ByteIs
    <3>5. At(s, k, <<Byte(0)>>)
      BY <1>6, <3>1, <3>4, AtOne
    <3>. QED BY <2>1, <3>5
  <2>2. CASE profile # Draft1
    BY <1>5, <1>6, <2>2, AtEmpty
  <2>. QED BY <2>1, <2>2
<1>. HIDE DEF x
<1>12. x.index = n /\ x.fields = SubSeq(s, j, k - 1) /\ x.sig = s[l]
  BY DEF x
<1>13. /\ At(s, i, c) /\ At(s, i + Len(c), x.fields)
       /\ At(s, i + Len(c) + FieldsOf(profile), IF profile = Draft1 THEN <<Byte(0)>> ELSE <<>>)
       /\ At(s, i + Len(c) + FieldsOf(profile) + Filler(profile), <<x.sig>>)
  BY <1>4, <1>6, <1>9, <1>10, <1>11, <1>12
<1>14. At(s, i, SpendBytes(profile, x, TRUE))
  BY <1>6, <1>8, <1>12, <1>13, SpendBytesAre
<1>15. Len(SpendBytes(profile, x, TRUE)) = Len(c) + FieldsOf(profile) + Filler(profile) + 1
  BY <1>8, <1>12, SpendBytesAre DEF Shown
<1>16. l + 1 = i + Len(SpendBytes(profile, x, TRUE))
  <2>1. i + Len(SpendBytes(profile, x, TRUE)) = i + (Len(c) + FieldsOf(profile) + Filler(profile) + 1)
    BY <1>15
  <2>2. ASSUME NEW a \in Nat, NEW b \in Nat, NEW d \in Nat
        PROVE  i + (a + b + d + 1) = ((i + a) + b) + d + 1
    BY <1>6
  <2>3. l + 1 = ((i + Len(c)) + FieldsOf(profile)) + Filler(profile) + 1
    BY <1>4, <1>6
  <2>4. Filler(profile) \in Nat
    BY DEF Filler
  <2>. HIDE DEF c, l
  <2>. QED BY ZenonT(40), <1>5, <2>1, <2>2, <2>3, <2>4
<1>. QED BY <1>2, <1>4, <1>8, <1>14, <1>16

(* The same of outputs: what stands there is read, ...                     *)
LEMMA ReadsOutput ==
  ASSUME NEW T, Alphabet(T), NEW s \in Seq(T), NEW x \in OutputsOver(T), NEW i \in Nat,
         At(s, i, OutputBytes(x))
  PROVE  ReadOutput(s, i) = Got(x, i + Len(OutputBytes(x)))
<1>. DEFINE c == CompactSize(x.index)
            j == i + Len(c)
<1>1. x.index \in 0..MaxIndex /\ x = [index |-> x.index, ock |-> x.ock]
  BY DEF OutputsOver
<1>2. /\ At(s, i, c) /\ j \in 1..Len(s) /\ s[j] = x.ock
      /\ Len(OutputBytes(x)) = Len(c) + 1
  BY OutputBytesAre
<1>3. MaxIndex \in 0..MaxIndex
  BY PowersGrow
<1>4. ReadSize(s, i, MaxIndex) = Got(x.index, j)
  BY <1>1, <1>2, <1>3, ReadsCompactSize
<1>5. ReadSize(s, i, MaxIndex).next = j /\ ReadSize(s, i, MaxIndex).value = x.index
  BY <1>4, GotIs
<1>6. j + 1 = i + Len(OutputBytes(x))
  BY <1>1, <1>2, CompactSizeIsBytes
<1>7. ReadOutput(s, i) = Got([index |-> x.index, ock |-> s[j]], j + 1)
  BY <1>2, <1>5 DEF ReadOutput
<1>. QED BY <1>1, <1>2, <1>6, <1>7

(* ... and what is read stands there.                                      *)
LEMMA WritesOutput ==
  ASSUME NEW T, Alphabet(T), NEW s \in Seq(T), NEW i, ReadOutput(s, i).next # 0
  PROVE  /\ i \in 1..Len(s)
         /\ ReadOutput(s, i).value \in OutputsOver(T)
         /\ At(s, i, OutputBytes(ReadOutput(s, i).value))
         /\ ReadOutput(s, i).next = i + Len(OutputBytes(ReadOutput(s, i).value))
<1>. DEFINE n == ReadSize(s, i, MaxIndex).value
            c == CompactSize(n)
            j == ReadSize(s, i, MaxIndex).next
            x == [index |-> n, ock |-> s[j]]
<1>1. ReadOutput(s, i) = IF j \in 1..Len(s) THEN Got(x, j + 1) ELSE Broken
  BY DEF ReadOutput
<1>2. j \in 1..Len(s) /\ ReadOutput(s, i).value = x /\ ReadOutput(s, i).next = j + 1
  <2>. HIDE DEF j, x
  <2>. QED BY <1>1, GotIs, BrokenIs
<1>3. MaxIndex \in 0..MaxIndex
  BY PowersGrow
<1>4. i \in 1..Len(s) /\ n \in 0..MaxIndex /\ At(s, i, c) /\ j = i + Len(c)
  BY <1>2, <1>3, WritesCompactSize
<1>. HIDE DEF n, j
<1>5. Len(c) \in Nat
  BY <1>4, CompactSizeIsBytes
<1>6. s[j] \in T
  BY <1>2, ElementOfSeq
<1>7. x \in OutputsOver(T) /\ x.index = n /\ x.ock = s[j]
  BY <1>4, <1>6 DEF OutputsOver
<1>. HIDE DEF x
<1>8. i \in Nat
  BY <1>4
<1>9. At(s, i, OutputBytes(x)) /\ Len(OutputBytes(x)) = Len(c) + 1
  BY <1>2, <1>4, <1>7, <1>8, OutputBytesAre
<1>10. j + 1 = i + Len(OutputBytes(x))
  BY <1>4, <1>5, <1>8, <1>9
<1>. QED BY <1>2, <1>4, <1>7, <1>9, <1>10

(* A spend as it is written for the digest.                                *)
Blanked(profile, x) == SpendBytes(profile, x, FALSE)

(* Two entries at one place agree, but for what is not shown of them.      *)
LEMMA SpendsAtOnePlace ==
  ASSUME NEW T, Alphabet(T), NEW s \in Seq(T), NEW profile \in {Draft1, Ironwood},
         NEW x \in SpendsOver(T, profile), NEW y \in SpendsOver(T, profile), NEW i \in Nat,
         At(s, i, Blanked(profile, x)), At(s, i, Blanked(profile, y))
  PROVE  /\ x.index = y.index /\ x.fields = y.fields
         /\ Len(Blanked(profile, x)) = Len(Blanked(profile, y))
<1>1. /\ x.index \in 0..MaxIndex /\ x.fields \in Seq(T) /\ Len(x.fields) = FieldsOf(profile)
      /\ y.index \in 0..MaxIndex /\ y.fields \in Seq(T) /\ Len(y.fields) = FieldsOf(profile)
  BY DEF SpendsOver
<1>2. At(s, i, CompactSize(x.index)) /\ At(s, i + Len(CompactSize(x.index)), x.fields)
  BY SpendBytesAre DEF Blanked
<1>3. At(s, i, CompactSize(y.index)) /\ At(s, i + Len(CompactSize(y.index)), y.fields)
  BY SpendBytesAre DEF Blanked
<1>4. x.index = y.index
  BY <1>1, <1>2, <1>3, SizesAtOnePlace
<1>5. x.fields = y.fields
  BY <1>1, <1>2, <1>3, <1>4, AtSame
<1>6. Len(Blanked(profile, x)) = Len(Blanked(profile, y))
  BY ZenonT(40), <1>4, SpendBytesAre DEF Blanked
<1>. QED BY <1>4, <1>5, <1>6

(* Two outputs at one place are the same.                                  *)
LEMMA OutputsAtOnePlace ==
  ASSUME NEW T, Alphabet(T), NEW s \in Seq(T), NEW x \in OutputsOver(T),
         NEW y \in OutputsOver(T), NEW i \in Nat,
         At(s, i, OutputBytes(x)), At(s, i, OutputBytes(y))
  PROVE  x = y
<1>1. /\ x.index \in 0..MaxIndex /\ x = [index |-> x.index, ock |-> x.ock]
      /\ y.index \in 0..MaxIndex /\ y = [index |-> y.index, ock |-> y.ock]
  BY DEF OutputsOver
<1>2. At(s, i, CompactSize(x.index)) /\ s[i + Len(CompactSize(x.index))] = x.ock
  BY OutputBytesAre
<1>3. At(s, i, CompactSize(y.index)) /\ s[i + Len(CompactSize(y.index))] = y.ock
  BY OutputBytesAre
<1>4. x.index = y.index
  BY <1>1, <1>2, <1>3, SizesAtOnePlace
<1>. QED BY <1>1, <1>2, <1>3, <1>4

-----------------------------------------------------------------------------
(* Lists of entries.                                                       *)

(* n strings.                                                              *)
Strings(T, n, E) == E \in [1..n -> Seq(T)]

(* Where n strings that follow one another from i on begin and end.        *)
Places(n, E, i, p) ==
  /\ p \in [0..n -> Nat]
  /\ p[0] = i
  /\ \A k \in 1..n : p[k] = p[k - 1] + Len(E[k])

(* The first k of n strings, one after the other.                          *)
Joins(T, n, E, h) ==
  /\ h \in [0..n -> Seq(T)]
  /\ h[0] = <<>>
  /\ \A k \in 1..n : h[k] = h[k - 1] \o E[k]

(* There is such a row of joins ...                                        *)
LEMMA JoinsExist ==
  ASSUME NEW T, NEW n \in Nat, NEW E \in [1..n -> Seq(T)]
  PROVE  \E h : Joins(T, n, E, h)
<1>. DEFINE g == [k \in 1..n |-> [v \in Seq(T) |-> v \o E[k]]]
<1>1. g \in [1..n -> [Seq(T) -> Seq(T)]]
  <2>1. ASSUME NEW k \in 1..n, NEW v \in Seq(T) PROVE v \o E[k] \in Seq(T)
    BY ConcatLength
  <2>. QED BY <2>1
<1>2. <<>> \in Seq(T)
  OBVIOUS
<1>3. \A k \in 1..n, v \in Seq(T) : g[k][v] = v \o E[k]
  OBVIOUS
<1>. HIDE DEF g
<1>4. PICK h : Iterates(n, Seq(T), <<>>, g, h)
  BY <1>1, <1>2, IterationExists
<1>5. ASSUME NEW k \in 1..n PROVE h[k] = h[k - 1] \o E[k]
  <2>1. h[k - 1] \in Seq(T) /\ h[k] = g[k][h[k - 1]]
    <3>1. k - 1 \in 0..n
      OBVIOUS
    <3>. QED BY <1>4, <3>1 DEF Iterates
  <2>. QED BY <1>3, <2>1
<1>. QED BY <1>4, <1>5 DEF Joins, Iterates

(* The place behind one string is its length further.                      *)
LEMMA PlacesNext ==
  ASSUME NEW n \in Nat, NEW E, NEW i, NEW p, Places(n, E, i, p),
         NEW k \in 0..n, NEW j \in 1..n, j = k + 1
  PROVE  p[k] \in Nat /\ p[j] = p[k] + Len(E[j])
<1>1. j - 1 = k
  OBVIOUS
<1>. QED BY <1>1 DEF Places

(* What FlattenSeq makes of them.                                          *)
LEMMA FlattenIs ==
  ASSUME NEW T, NEW n \in Nat, NEW E \in [1..n -> Seq(T)]
  PROVE  \E h : Joins(T, n, E, h) /\ h[n] = FlattenSeq(E)
<1>1. E \in Seq(Seq(T)) /\ Len(E) = n
  OBVIOUS
<1>2. PICK h : Joins(T, n, E, h)
  BY JoinsExist
<1>3. CASE n = 0
  <2>1. E = <<>>
    BY <1>1, <1>3, EmptySeq
  <2>2. FlattenSeq(E) = E
    BY <1>1, <1>3 DEF FlattenSeq
  <2>. QED BY <1>2, <1>3, <2>1, <2>2 DEF Joins
<1>4. CASE n # 0
  <2>. DEFINE Is(f) == f = [i \in 1..Len(E) |-> IF i = 1 THEN E[i] ELSE f[i - 1] \o E[i]]
              flatten == CHOOSE f : Is(f)
              f0 == [i \in 1..n |-> h[i]]
  <2>1. FlattenSeq(E) = flatten[Len(E)]
    BY <1>1, <1>4 DEF FlattenSeq
  <2>2. Is(f0)
    <3>1. ASSUME NEW i \in 1..n PROVE f0[i] = IF i = 1 THEN E[i] ELSE f0[i - 1] \o E[i]
      <4>1. h[i] = h[i - 1] \o E[i]
        BY <1>2 DEF Joins
      <4>2. CASE i = 1
        <5>1. h[0] = <<>> /\ E[i] \in Seq(T)
          BY <1>2 DEF Joins
        <5>2. <<>> \o E[i] = E[i]
          BY <5>1, ConcatEmptySeq
        <5>3. h[i - 1] = h[0]
          BY <4>2
        <5>4. h[i] = E[i]
          BY <4>1, <5>1, <5>2, <5>3
        <5>. QED BY <4>2, <5>4
      <4>3. CASE i # 1
        <5>1. i - 1 \in 1..n
          BY <4>3
        <5>. QED BY <4>1, <4>3, <5>1
      <4>. QED BY <4>2, <4>3
    <3>. HIDE DEF f0
    <3>. QED BY <1>1, <3>1 DEF f0
  <2>3. Is(flatten)
    <3>. HIDE DEF Is
    <3>. QED BY <2>2
  <2>. HIDE DEF flatten
  <2>4. ASSUME NEW i \in 1..n
        PROVE  flatten[i] = IF i = 1 THEN E[i] ELSE flatten[i - 1] \o E[i]
    <3>1. \A j \in 1..Len(E) : flatten[j] = IF j = 1 THEN E[j] ELSE flatten[j - 1] \o E[j]
      BY <2>3, Zenon
    <3>. QED BY <1>1, <3>1
  <2>. DEFINE P == {k \in Nat : k >= 1 /\ k <= n => flatten[k] = h[k]}
  <2>5. 0 \in P
    OBVIOUS
  <2>6. ASSUME NEW k \in Nat, k \in P PROVE k + 1 \in P
    <3>. DEFINE j == k + 1
    <3>. SUFFICES ASSUME j <= n PROVE flatten[j] = h[j]
      OBVIOUS
    <3>1. j \in 1..n /\ k \in 0..n /\ j = k + 1 /\ j - 1 = k
      OBVIOUS
    <3>2. k >= 1 => flatten[k] = h[k]
      BY <2>6, <3>1
    <3>. HIDE DEF j
    <3>3. E[j] \in Seq(T) /\ h[j] = h[k] \o E[j]
      <4>1. E[j] \in Seq(T)
        BY <3>1
      <4>2. h[j] = h[k] \o E[j]
        BY <1>2, <3>1 DEF Joins
      <4>. QED BY <4>1, <4>2
    <3>4. CASE k = 0
      <4>1. h[k] = <<>> /\ <<>> \o E[j] = E[j]
        BY <1>2, <3>3, <3>4, ConcatEmptySeq DEF Joins
      <4>2. j = 1
        BY <3>1, <3>4
      <4>. QED BY <2>4, <3>1, <3>3, <4>1, <4>2
    <3>5. CASE k # 0
      <4>1. j # 1 /\ k >= 1
        BY <3>1, <3>5
      <4>2. flatten[j] = flatten[k] \o E[j]
        BY <2>4, <3>1, <4>1
      <4>. QED BY <3>2, <3>3, <4>1, <4>2
    <3>. QED BY <3>4, <3>5
  <2>7. n \in P
    <3>. HIDE DEF P
    <3>. QED BY <2>5, <2>6, NaturalInduction
  <2>8. flatten[n] = h[n]
    BY <1>4, <2>7
  <2>. QED BY <1>1, <1>2, <2>1, <2>8
<1>. QED BY <1>3, <1>4

(* Strings, one after the other, stand where each stands behind the last.  *)
LEMMA FlattenAt ==
  ASSUME NEW T, NEW n \in Nat, NEW E, Strings(T, n, E), NEW i \in Nat, NEW p,
         Places(n, E, i, p)
  PROVE  /\ FlattenSeq(E) \in Seq(T)
         /\ p[n] = i + Len(FlattenSeq(E))
         /\ \A s \in Seq(T) : At(s, i, FlattenSeq(E)) <=>
              i \in 1..Len(s) + 1 /\ \A m \in 1..n : At(s, p[m - 1], E[m])
<1>0. E \in [1..n -> Seq(T)]
  BY DEF Strings
<1>1. PICK h : Joins(T, n, E, h) /\ h[n] = FlattenSeq(E)
  BY <1>0, FlattenIs
<1>. DEFINE P == {k \in Nat : k <= n =>
                    /\ p[k] = i + Len(h[k])
                    /\ \A s \in Seq(T) : At(s, i, h[k]) <=>
                         i \in 1..Len(s) + 1 /\ \A m \in 1..k : At(s, p[m - 1], E[m])}
<1>2. 0 \in P
  <2>1. p[0] = i /\ h[0] = <<>>
    BY <1>1 DEF Places, Joins
  <2>2. \A s \in Seq(T) : At(s, i, <<>>) <=> i \in 1..Len(s) + 1
    BY AtEmpty
  <2>. QED BY <2>1, <2>2
<1>3. ASSUME NEW k \in Nat, k \in P PROVE k + 1 \in P
  <2>. DEFINE j == k + 1
              u == E[j]
              t == h[k]
  <2>. SUFFICES ASSUME j <= n
                PROVE  /\ p[j] = i + Len(h[j])
                       /\ \A s \in Seq(T) : At(s, i, h[j]) <=>
                            i \in 1..Len(s) + 1 /\ \A m \in 1..j : At(s, p[m - 1], E[m])
    OBVIOUS
  <2>1. j \in 1..n /\ k \in 0..n /\ j = k + 1 /\ j - 1 = k /\ 1..j = 1..k \cup {j}
    OBVIOUS
  <2>2. /\ p[k] = i + Len(t)
        /\ \A s \in Seq(T) : At(s, i, t) <=>
             i \in 1..Len(s) + 1 /\ \A m \in 1..k : At(s, p[m - 1], E[m])
    BY <1>3, <2>1
  <2>. HIDE DEF j, t, u
  <2>3. t \in Seq(T) /\ u \in Seq(T) /\ h[j] = t \o u
    <3>1. E[j] \in Seq(T)
      BY <1>0, <2>1
    <3>2. h[k] \in Seq(T) /\ h[j] = h[k] \o E[j]
      BY <1>1, <2>1 DEF Joins
    <3>. QED BY <3>1, <3>2 DEF t, u
  <2>4. p[j] = p[k] + Len(u)
    BY <2>1, PlacesNext DEF u
  <2>5. p[j] = i + Len(h[j])
    <3>1. Len(t) \in Nat /\ Len(u) \in Nat /\ Len(h[j]) = Len(t) + Len(u)
      BY <2>3, ConcatLength, LenProperties
    <3>. QED BY <2>2, <2>4, <3>1
  <2>6. ASSUME NEW s \in Seq(T)
        PROVE  At(s, i, h[j]) <=>
                 i \in 1..Len(s) + 1 /\ \A m \in 1..j : At(s, p[m - 1], E[m])
    <3>1. At(s, i, t \o u) <=> At(s, i, t) /\ At(s, i + Len(t), u)
      BY <2>3, AtConcat
    <3>2. At(s, i + Len(t), u) <=> At(s, p[j - 1], E[j])
      BY <2>1, <2>2 DEF u
    <3>3. (\A m \in 1..j : At(s, p[m - 1], E[m]))
             <=> (\A m \in 1..k : At(s, p[m - 1], E[m])) /\ At(s, p[j - 1], E[j])
      BY <2>1
    <3>. QED BY <2>2, <2>3, <3>1, <3>2, <3>3
  <2>. QED BY <2>5, <2>6
<1>4. n \in P
  <2>. HIDE DEF P
  <2>. QED BY <1>2, <1>3, NaturalInduction
<1>5. FlattenSeq(E) \in Seq(T)
  BY <1>1 DEF Joins
<1>6. /\ p[n] = i + Len(h[n])
      /\ \A s \in Seq(T) : At(s, i, h[n]) <=>
           i \in 1..Len(s) + 1 /\ \A m \in 1..n : At(s, p[m - 1], E[m])
  BY <1>4
<1>. QED BY <1>1, <1>5, <1>6

(* Strings have places ...                                                 *)
LEMMA PlacesExist ==
  ASSUME NEW T, NEW n \in Nat, NEW E \in [1..n -> Seq(T)], NEW i \in Nat
  PROVE  \E p : Places(n, E, i, p)
<1>. DEFINE g == [k \in 1..n |-> [v \in Nat |-> v + Len(E[k])]]
<1>1. g \in [1..n -> [Nat -> Nat]]
  <2>1. ASSUME NEW k \in 1..n, NEW v \in Nat PROVE v + Len(E[k]) \in Nat
    <3>1. E[k] \in Seq(T)
      OBVIOUS
    <3>2. Len(E[k]) \in Nat
      BY <3>1, LenProperties
    <3>. QED BY <3>2
  <2>. QED BY <2>1
<1>2. \A k \in 1..n, v \in Nat : g[k][v] = v + Len(E[k])
  OBVIOUS
<1>. HIDE DEF g
<1>3. PICK p : Iterates(n, Nat, i, g, p)
  BY <1>1, IterationExists
<1>4. ASSUME NEW k \in 1..n PROVE p[k] = p[k - 1] + Len(E[k])
  <2>1. k - 1 \in 0..n
    OBVIOUS
  <2>2. p[k - 1] \in Nat /\ p[k] = g[k][p[k - 1]]
    BY <1>3, <2>1 DEF Iterates
  <2>. QED BY <1>2, <2>2
<1>. QED BY <1>3, <1>4 DEF Places, Iterates

(* ... and no others.                                                      *)
LEMMA PlacesUnique ==
  ASSUME NEW n \in Nat, NEW E, NEW i, NEW p, NEW q, Places(n, E, i, p), Places(n, E, i, q)
  PROVE  \A k \in 0..n : p[k] = q[k]
<1>. DEFINE P == {k \in Nat : k <= n => p[k] = q[k]}
<1>1. 0 \in P
  BY DEF Places
<1>2. ASSUME NEW k \in Nat, k \in P PROVE k + 1 \in P
  <2>. DEFINE j == k + 1
  <2>. SUFFICES ASSUME j <= n PROVE p[j] = q[j]
    OBVIOUS
  <2>1. j \in 1..n /\ k \in 0..n /\ j = k + 1 /\ j - 1 = k /\ p[k] = q[k]
    BY <1>2
  <2>. HIDE DEF j
  <2>. QED BY <2>1 DEF Places
<1>3. \A k \in Nat : k \in P
  <2>. HIDE DEF P
  <2>. QED BY <1>1, <1>2, NaturalInduction
<1>. QED BY <1>3

(* An entry reader never reads past the end, and nothing at 0.             *)
Stays(s, entryAt) ==
  /\ \A i \in 0..Len(s) + 1 : entryAt[i].next \in 0..Len(s) + 1
  /\ entryAt[0].next = 0

(* Reading goes on where the last entry ended.                             *)
LEMMA BehindIs ==
  ASSUME NEW s, Len(s) \in Nat, NEW entryAt, Stays(s, entryAt),
         NEW start \in 0..Len(s) + 1, NEW n \in Nat
  PROVE  /\ Behind(entryAt, start, n) \in [0..n -> 0..Len(s) + 1]
         /\ Behind(entryAt, start, n)[0] = start
         /\ \A k \in 1..n :
              Behind(entryAt, start, n)[k] = entryAt[Behind(entryAt, start, n)[k - 1]].next
<1>. DEFINE S == 0..Len(s) + 1
            g == [k \in 1..n |-> [v \in S |-> entryAt[v].next]]
            Is(f) == f = [k \in 0..n |-> IF k = 0 THEN start ELSE entryAt[f[k - 1]].next]
            b == Behind(entryAt, start, n)
<1>1. g \in [1..n -> [S -> S]]
  BY DEF Stays
<1>2. \A k \in 1..n, v \in S : g[k][v] = entryAt[v].next
  OBVIOUS
<1>3. start \in S
  OBVIOUS
<1>. HIDE DEF g, S
<1>4. PICK f : Iterates(n, S, start, g, f)
  BY <1>1, <1>3, IterationExists
<1>5. Is(f)
  <2>1. ASSUME NEW k \in 1..n PROVE f[k] = entryAt[f[k - 1]].next
    <3>1. k - 1 \in 0..n
      OBVIOUS
    <3>2. f[k - 1] \in S /\ f[k] = g[k][f[k - 1]]
      BY <1>4, <3>1 DEF Iterates
    <3>. QED BY <1>2, <3>2
  <2>. QED BY <1>4, <2>1 DEF Iterates
<1>6. Is(b)
  <2>1. b = CHOOSE h : Is(h)
    BY DEF Behind
  <2>. HIDE DEF Is, b
  <2>. QED BY <1>5, <2>1
<1>7. b[0] = start /\ \A k \in 1..n : b[k] = entryAt[b[k - 1]].next
  <2>. HIDE DEF b
  <2>. QED BY SMTT(30), <1>6
<1>. HIDE DEF b
<1>. DEFINE P == {k \in Nat : k <= n => b[k] \in S}
<1>8. 0 \in P
  BY <1>3, <1>7
<1>9. ASSUME NEW k \in Nat, k \in P PROVE k + 1 \in P
  <2>. DEFINE j == k + 1
  <2>. SUFFICES ASSUME j <= n PROVE b[j] \in S
    OBVIOUS
  <2>1. j \in 1..n /\ j - 1 = k /\ b[k] \in S
    BY <1>9
  <2>. HIDE DEF j
  <2>2. b[j] = entryAt[b[k]].next
    BY <1>7, <2>1
  <2>. QED BY <2>1, <2>2 DEF Stays, S
<1>10. \A k \in Nat : k \in P
  <2>. HIDE DEF P
  <2>. QED BY <1>8, <1>9, NaturalInduction
<1>11. \A k \in 0..n : b[k] \in S
  BY <1>10
<1>12. b \in [0..n -> S]
  <2>. HIDE DEF S
  <2>1. b = [k \in 0..n |-> b[k]]
    BY <1>6
  <2>. QED BY <1>11, <2>1
<1>. QED BY <1>7, <1>12 DEF b, S

(* entryAt reads the strings that the function B gives to the values V.    *)
Reads(T, s, entryAt, V, B) ==
  /\ Stays(s, entryAt)
  /\ B \in [V -> Seq(T)]
  /\ \A i \in 0..Len(s) + 1, x \in V : At(s, i, B[x]) => entryAt[i] = Got(x, i + Len(B[x]))
  /\ \A i \in 0..Len(s) + 1 : entryAt[i].next # 0 =>
       /\ entryAt[i].value \in V
       /\ At(s, i, B[entryAt[i].value])
       /\ entryAt[i].next = i + Len(B[entryAt[i].value])

(* A count, then that many strings.                                        *)
Listing(B, xs) == CompactSize(Len(xs)) \o FlattenSeq([k \in 1..Len(xs) |-> B[xs[k]]])

(* A listing stands where its count stands and each string behind the      *)
(* last.                                                                   *)
LEMMA ListingAt ==
  ASSUME NEW T, Alphabet(T), NEW V, NEW B \in [V -> Seq(T)], NEW xs \in Seq(V),
         Len(xs) \in 0..MaxEntries, NEW i \in Nat
  PROVE  \E p : /\ Places(Len(xs), [k \in 1..Len(xs) |-> B[xs[k]]],
                          i + Len(CompactSize(Len(xs))), p)
                /\ Listing(B, xs) \in Seq(T)
                /\ Len(CompactSize(Len(xs))) \in Nat
                /\ p[Len(xs)] = i + Len(Listing(B, xs))
                /\ \A s \in Seq(T) : At(s, i, Listing(B, xs)) <=>
                     /\ At(s, i, CompactSize(Len(xs)))
                     /\ \A k \in 1..Len(xs) : At(s, p[k - 1], B[xs[k]])
<1>. DEFINE n == Len(xs)
            c == CompactSize(n)
            E == [k \in 1..n |-> B[xs[k]]]
            j == i + Len(c)
<1>1. n \in Nat /\ n \in 0..MaxIndex
  BY PowersGrow
<1>2. E \in [1..n -> Seq(T)]
  <2>1. ASSUME NEW k \in 1..n PROVE B[xs[k]] \in Seq(T)
    <3>1. xs[k] \in V
      BY ElementOfSeq
    <3>. QED BY <3>1
  <2>. HIDE DEF n
  <2>. QED BY <2>1
<1>3. Bytes \subseteq T
  BY DEF Alphabet
<1>4. c \in Seq(T) /\ Len(c) \in Nat
  BY <1>1, <1>3, CompactSizeIsBytes, SeqMonotonic
<1>5. j \in Nat
  BY <1>4
<1>6. \A k \in 1..n : E[k] = B[xs[k]]
  OBVIOUS
<1>7. Listing(B, xs) = c \o FlattenSeq(E)
  BY DEF Listing
<1>. HIDE DEF n, c, E
<1>8. PICK p : Places(n, E, j, p)
  <2>. HIDE DEF j
  <2>. QED BY <1>1, <1>2, <1>5, PlacesExist
<1>. DEFINE F == FlattenSeq(E)
<1>9. /\ F \in Seq(T) /\ p[n] = j + Len(F)
      /\ \A s \in Seq(T) : At(s, j, F) <=>
           j \in 1..Len(s) + 1 /\ \A m \in 1..n : At(s, p[m - 1], E[m])
  <2>. HIDE DEF j
  <2>0. Strings(T, n, E)
    BY <1>2 DEF Strings
  <2>1. FlattenSeq(E) \in Seq(T)
    BY <1>1, <1>5, <1>8, <2>0, FlattenAt
  <2>2. p[n] = j + Len(FlattenSeq(E))
    BY <1>1, <1>5, <1>8, <2>0, FlattenAt
  <2>3. ASSUME NEW s \in Seq(T)
        PROVE  At(s, j, FlattenSeq(E)) <=>
                 j \in 1..Len(s) + 1 /\ \A m \in 1..n : At(s, p[m - 1], E[m])
    BY <1>1, <1>5, <1>8, <2>0, FlattenAt
  <2>. QED BY <2>1, <2>2, <2>3
<1>. HIDE DEF F
<1>10. c \o F \in Seq(T) /\ p[n] = i + Len(c \o F)
  <2>1. c \o F \in Seq(T) /\ Len(c \o F) = Len(c) + Len(F) /\ Len(F) \in Nat
    BY <1>4, <1>9, ConcatLength, LenProperties
  <2>. QED BY <1>4, <1>9, <2>1
<1>11. ASSUME NEW s \in Seq(T)
       PROVE  At(s, i, c \o F) <=>
                At(s, i, c) /\ \A k \in 1..n : At(s, p[k - 1], B[xs[k]])
  <2>1. At(s, i, c \o F) <=> At(s, i, c) /\ At(s, j, F)
    BY <1>4, <1>9, AtConcat
  <2>2. At(s, i, c) => j \in 1..Len(s) + 1
    BY <1>4, LenProperties DEF At
  <2>. QED BY <1>6, <1>9, <2>1, <2>2
<1>12. Listing(B, xs) = c \o F
  BY <1>7 DEF F
<1>13. /\ Places(n, E, j, p) /\ Listing(B, xs) \in Seq(T) /\ Len(c) \in Nat
       /\ p[n] = i + Len(Listing(B, xs))
       /\ \A s \in Seq(T) : At(s, i, Listing(B, xs)) <=>
            At(s, i, c) /\ \A k \in 1..n : At(s, p[k - 1], B[xs[k]])
  BY <1>4, <1>8, <1>10, <1>11, <1>12
<1>. QED BY <1>13 DEF n, c, E, j

(* A list that stands in a byte string is read there, ...                  *)
LEMMA ReadsList ==
  ASSUME NEW T, Alphabet(T), NEW s \in Seq(T), NEW V, NEW B, NEW entryAt,
         Reads(T, s, entryAt, V, B), NEW xs \in Seq(V), Len(xs) \in 0..MaxEntries,
         NEW i \in Nat, At(s, i, Listing(B, xs))
  PROVE  ReadList(entryAt, s, i) = Got(xs, i + Len(Listing(B, xs)))
<1>. DEFINE n == Len(xs)
            c == CompactSize(n)
            j == i + Len(c)
            E == [k \in 1..n |-> B[xs[k]]]
            b == Behind(entryAt, j, n)
<1>1. B \in [V -> Seq(T)] /\ Stays(s, entryAt)
  BY DEF Reads
<1>2. PICK p : /\ Places(n, E, j, p)
               /\ Len(c) \in Nat
               /\ p[n] = i + Len(Listing(B, xs))
               /\ At(s, i, c)
               /\ \A k \in 1..n : At(s, p[k - 1], B[xs[k]])
  BY ZenonT(40), <1>1, ListingAt
<1>3. Len(s) \in Nat /\ n \in Nat /\ MaxEntries \in 0..MaxIndex
  BY LenProperties, PowersGrow
<1>4. ReadSize(s, i, MaxEntries) = Got(n, j)
  BY <1>2, <1>3, ReadsCompactSize
<1>5. j \in 0..Len(s) + 1 /\ j # 0
  BY <1>2, <1>3 DEF At
<1>6. \A k \in 1..n : xs[k] \in V /\ E[k] = B[xs[k]] /\ B[xs[k]] \in Seq(T)
  <2>1. ASSUME NEW k \in 1..n PROVE xs[k] \in V
    BY ElementOfSeq
  <2>. QED BY <1>1, <2>1
<1>. HIDE DEF n, c, j, E
<1>7. /\ b \in [0..n -> 0..Len(s) + 1]
      /\ b[0] = j
      /\ \A k \in 1..n : b[k] = entryAt[b[k - 1]].next
  <2>1. Len(s) \in Nat /\ n \in Nat /\ j \in 0..Len(s) + 1 /\ Stays(s, entryAt)
    BY <1>1, <1>3, <1>5
  <2>2. Behind(entryAt, j, n) \in [0..n -> 0..Len(s) + 1]
    BY <2>1, BehindIs
  <2>3. Behind(entryAt, j, n)[0] = j
    BY <2>1, <2>2, BehindIs, SMTT(30)
  <2>4. ASSUME NEW k \in 1..n
        PROVE  Behind(entryAt, j, n)[k] = entryAt[Behind(entryAt, j, n)[k - 1]].next
    BY <2>1, BehindIs
  <2>. QED BY <2>2, <2>3, <2>4
<1>. HIDE DEF b
<1>8. ASSUME NEW k \in 1..n, b[k - 1] = p[k - 1]
      PROVE  entryAt[b[k - 1]].value = xs[k] /\ b[k] = p[k]
  <2>1. k - 1 \in 0..n
    BY <1>3
  <2>2. b[k - 1] \in 0..Len(s) + 1 /\ At(s, b[k - 1], B[xs[k]]) /\ xs[k] \in V
    BY <1>2, <1>6, <1>7, <1>8, <2>1
  <2>3. entryAt[b[k - 1]] = Got(xs[k], b[k - 1] + Len(B[xs[k]]))
    BY <2>2 DEF Reads
  <2>4. entryAt[b[k - 1]].value = xs[k] /\ entryAt[b[k - 1]].next = b[k - 1] + Len(B[xs[k]])
    BY <2>3, GotIs
  <2>5. p[k] = p[k - 1] + Len(B[xs[k]])
    BY <1>2, <1>6 DEF Places
  <2>. QED BY <1>7, <1>8, <2>4, <2>5
<1>. DEFINE P == {k \in Nat : k <= n => b[k] = p[k]}
<1>9. 0 \in P
  BY <1>2, <1>7 DEF Places
<1>10. ASSUME NEW k \in Nat, k \in P PROVE k + 1 \in P
  <2>. DEFINE m == k + 1
  <2>. SUFFICES ASSUME m <= n PROVE b[m] = p[m]
    OBVIOUS
  <2>1. m \in 1..n /\ m - 1 = k /\ b[k] = p[k]
    BY <1>3, <1>10
  <2>. HIDE DEF m
  <2>. QED BY <1>8, <2>1
<1>11. \A k \in Nat : k \in P
  <2>. HIDE DEF P
  <2>. QED BY <1>9, <1>10, NaturalInduction
<1>12. \A k \in 0..n : b[k] = p[k]
  BY <1>11
<1>. HIDE DEF P
<1>13. \A k \in 1..n : entryAt[b[k - 1]].value = xs[k]
  <2>1. ASSUME NEW k \in 1..n PROVE entryAt[b[k - 1]].value = xs[k]
    <3>1. k - 1 \in 0..n
      BY <1>3
    <3>. QED BY <1>8, <1>12, <3>1
  <2>. QED BY <2>1
<1>14. [k \in 1..n |-> entryAt[b[k - 1]].value] = xs
  <2>1. xs = [k \in 1..n |-> xs[k]]
    BY DEF n
  <2>. QED BY <1>13, <2>1
<1>15. b[n] = i + Len(Listing(B, xs))
  BY <1>2, <1>3, <1>12
<1>16. ReadSize(s, i, MaxEntries).next = j /\ ReadSize(s, i, MaxEntries).value = n
  BY <1>4, GotIs
<1>17. ReadList(entryAt, s, i) = Got([k \in 1..n |-> entryAt[b[k - 1]].value], b[n])
  BY <1>5, <1>16 DEF ReadList, b
<1>. QED BY <1>14, <1>15, <1>17

(* ... and what is read as a list stands there.                            *)
LEMMA WritesList ==
  ASSUME NEW T, Alphabet(T), NEW s \in Seq(T), NEW V, NEW B, NEW entryAt,
         Reads(T, s, entryAt, V, B), NEW i, ReadList(entryAt, s, i).next # 0
  PROVE  /\ i \in 1..Len(s)
         /\ ReadList(entryAt, s, i).value \in Seq(V)
         /\ Len(ReadList(entryAt, s, i).value) \in 0..MaxEntries
         /\ At(s, i, Listing(B, ReadList(entryAt, s, i).value))
         /\ ReadList(entryAt, s, i).next = i + Len(Listing(B, ReadList(entryAt, s, i).value))
<1>. DEFINE n == ReadSize(s, i, MaxEntries).value
            j == ReadSize(s, i, MaxEntries).next
            c == CompactSize(n)
            b == Behind(entryAt, j, n)
            xs == [k \in 1..n |-> entryAt[b[k - 1]].value]
            E == [k \in 1..n |-> B[xs[k]]]
<1>1. B \in [V -> Seq(T)] /\ Stays(s, entryAt)
  BY DEF Reads
<1>2. j # 0 /\ ReadList(entryAt, s, i).value = xs /\ ReadList(entryAt, s, i).next = b[n] /\ b[n] # 0
  <2>1. ReadList(entryAt, s, i) = IF j = 0 THEN Broken ELSE Got(xs, b[n])
    BY DEF ReadList
  <2>. HIDE DEF j, xs, b, n
  <2>. QED BY SMTT(30), <2>1, GotIs, BrokenIs
<1>3. Len(s) \in Nat /\ MaxEntries \in 0..MaxIndex
  BY LenProperties, PowersGrow
<1>4. i \in 1..Len(s) /\ n \in 0..MaxEntries /\ At(s, i, c) /\ j = i + Len(c)
  BY <1>2, <1>3, WritesCompactSize
<1>5. j \in 0..Len(s) + 1
  BY <1>3, ReadSizeNext
<1>. HIDE DEF n, j, c
<1>6. n \in Nat
  BY <1>3, <1>4, PowersGrow
<1>7. /\ b \in [0..n -> 0..Len(s) + 1]
      /\ b[0] = j
      /\ \A k \in 1..n : b[k] = entryAt[b[k - 1]].next
  BY <1>1, <1>3, <1>5, <1>6, BehindIs
<1>. HIDE DEF b
<1>. DEFINE P == {m \in Nat : m <= n => b[n - m] # 0}
<1>8. 0 \in P
  BY <1>2, <1>6
<1>9. ASSUME NEW m \in Nat, m \in P PROVE m + 1 \in P
  <2>. SUFFICES ASSUME m + 1 <= n PROVE b[n - (m + 1)] # 0
    OBVIOUS
  <2>. DEFINE k == n - m
  <2>1. k \in 1..n /\ k - 1 = n - (m + 1) /\ b[k] # 0
    BY <1>6, <1>9
  <2>. HIDE DEF k
  <2>2. b[k] = entryAt[b[k - 1]].next
    BY <1>7, <2>1
  <2>. QED BY <1>1, <2>1, <2>2 DEF Stays
<1>10. \A m \in Nat : m \in P
  <2>. HIDE DEF P
  <2>. QED BY <1>8, <1>9, NaturalInduction
<1>11. ASSUME NEW k \in 0..n PROVE b[k] # 0
  <2>1. n - k \in Nat /\ n - k <= n /\ n - (n - k) = k
    BY <1>6
  <2>2. n - k \in P
    BY <1>10, <2>1
  <2>. QED BY <2>1, <2>2
<1>. HIDE DEF P
<1>12. ASSUME NEW k \in 1..n
       PROVE  /\ entryAt[b[k - 1]].value \in V
              /\ At(s, b[k - 1], B[entryAt[b[k - 1]].value])
              /\ b[k] = b[k - 1] + Len(B[entryAt[b[k - 1]].value])
  <2>1. k - 1 \in 0..n /\ k \in 0..n
    BY <1>6
  <2>2. b[k - 1] \in 0..Len(s) + 1 /\ b[k] = entryAt[b[k - 1]].next /\ b[k] # 0
    BY <1>7, <1>11, <2>1
  <2>. QED BY <2>2 DEF Reads
<1>13. xs \in Seq(V) /\ Len(xs) = n /\ \A k \in 1..n : xs[k] = entryAt[b[k - 1]].value
  <2>1. \A k \in 1..n : entryAt[b[k - 1]].value \in V
    BY <1>12
  <2>. QED BY <1>6, <2>1
<1>. HIDE DEF xs
<1>14. \A k \in 1..n : E[k] = B[xs[k]]
  OBVIOUS
<1>. HIDE DEF E
<1>15. Places(n, E, j, b)
  <2>1. b \in [0..n -> Nat]
    <3>1. 0..Len(s) + 1 \subseteq Nat
      BY <1>3
    <3>. QED BY <1>7, <3>1
  <2>. QED BY ZenonT(40), <1>7, <1>12, <1>13, <1>14, <2>1 DEF Places
<1>16. PICK p : /\ Places(n, E, j, p)
                /\ p[n] = i + Len(Listing(B, xs))
                /\ At(s, i, Listing(B, xs)) <=>
                     At(s, i, c) /\ \A k \in 1..n : At(s, p[k - 1], B[xs[k]])
  <2>1. i \in Nat /\ Len(xs) \in 0..MaxEntries
    BY <1>4, <1>13
  <2>2. PICK p : /\ Places(Len(xs), [k \in 1..Len(xs) |-> B[xs[k]]],
                            i + Len(CompactSize(Len(xs))), p)
                 /\ p[Len(xs)] = i + Len(Listing(B, xs))
                 /\ \A t \in Seq(T) : At(t, i, Listing(B, xs)) <=>
                      /\ At(t, i, CompactSize(Len(xs)))
                      /\ \A k \in 1..Len(xs) : At(t, p[k - 1], B[xs[k]])
    BY <1>1, <1>13, <2>1, ListingAt
  <2>3. Places(n, E, j, p)
    BY <1>4, <1>13, <2>2 DEF c, E
  <2>4. At(s, i, Listing(B, xs)) <=>
          At(s, i, c) /\ \A k \in 1..n : At(s, p[k - 1], B[xs[k]])
    BY <1>13, <2>2 DEF c
  <2>. QED BY <1>13, <2>2, <2>3, <2>4
<1>17. \A k \in 0..n : p[k] = b[k]
  BY <1>6, <1>15, <1>16, PlacesUnique
<1>18. At(s, i, Listing(B, xs))
  <2>1. ASSUME NEW k \in 1..n PROVE At(s, p[k - 1], B[xs[k]])
    <3>1. k - 1 \in 0..n
      BY <1>6
    <3>. QED BY <1>12, <1>13, <1>17, <3>1
  <2>. QED BY <1>4, <1>16, <2>1
<1>19. b[n] = i + Len(Listing(B, xs))
  BY <1>6, <1>16, <1>17
<1>. QED BY <1>2, <1>4, <1>13, <1>18, <1>19

(* Two values whose strings stand at one place show the same.              *)
Tells(T, V, B, K) ==
  \A s \in Seq(T), i \in Nat : \A x, y \in V :
    At(s, i, B[x]) /\ At(s, i, B[y]) => K[x] = K[y] /\ Len(B[x]) = Len(B[y])

(* Two lists of one length show the same, entry by entry.                  *)
ShowSame(K, xs, ys) ==
  Len(xs) = Len(ys) /\ \A k \in 1..Len(xs) : K[xs[k]] = K[ys[k]]

(* So do two lists.                                                        *)
LEMMA ListsAtOnePlace ==
  ASSUME NEW T, Alphabet(T), NEW s \in Seq(T), NEW V, NEW B \in [V -> Seq(T)], NEW K,
         Tells(T, V, B, K), NEW xs \in Seq(V), NEW ys \in Seq(V),
         Len(xs) \in 0..MaxEntries, Len(ys) \in 0..MaxEntries, NEW i \in Nat,
         At(s, i, Listing(B, xs)), At(s, i, Listing(B, ys))
  PROVE  /\ ShowSame(K, xs, ys)
         /\ Len(Listing(B, xs)) = Len(Listing(B, ys))
<1>. DEFINE n == Len(xs)
            c == CompactSize(n)
            j == i + Len(c)
            E == [k \in 1..n |-> B[xs[k]]]
            D == [k \in 1..n |-> B[ys[k]]]
<1>1. PICK p : /\ Places(n, E, j, p)
               /\ Listing(B, xs) \in Seq(T)
               /\ Len(c) \in Nat
               /\ p[n] = i + Len(Listing(B, xs))
               /\ At(s, i, c)
               /\ \A k \in 1..n : At(s, p[k - 1], B[xs[k]])
  BY ZenonT(40), ListingAt
<1>2. PICK q : /\ Places(Len(ys), [k \in 1..Len(ys) |-> B[ys[k]]],
                         i + Len(CompactSize(Len(ys))), q)
               /\ Listing(B, ys) \in Seq(T)
               /\ q[Len(ys)] = i + Len(Listing(B, ys))
               /\ At(s, i, CompactSize(Len(ys)))
               /\ \A k \in 1..Len(ys) : At(s, q[k - 1], B[ys[k]])
  BY ZenonT(40), ListingAt
<1>3. n \in Nat /\ n \in 0..MaxIndex /\ Len(ys) \in 0..MaxIndex
  BY SMTT(30), PowersGrow
<1>4. Len(ys) = n
  BY <1>1, <1>2, <1>3, SizesAtOnePlace
<1>5. /\ Places(n, D, j, q)
      /\ q[n] = i + Len(Listing(B, ys))
      /\ \A k \in 1..n : At(s, q[k - 1], B[ys[k]])
  BY <1>2, <1>4
<1>6. \A k \in 1..n : xs[k] \in V /\ ys[k] \in V /\ E[k] = B[xs[k]] /\ D[k] = B[ys[k]]
  BY <1>4, ElementOfSeq
<1>. HIDE DEF n, c, j, E, D
<1>7. p[0] = q[0] /\ \A k \in 0..n : p[k] \in Nat /\ q[k] \in Nat
  BY <1>1, <1>3, <1>5 DEF Places
<1>8. ASSUME NEW k \in 1..n, p[k - 1] = q[k - 1]
      PROVE  K[xs[k]] = K[ys[k]] /\ p[k] = q[k]
  <2>1. k - 1 \in 0..n
    BY <1>3
  <2>. DEFINE x == xs[k]
              y == ys[k]
              m == p[k - 1]
  <2>2. x \in V /\ y \in V /\ m \in Nat /\ At(s, m, B[x]) /\ At(s, m, B[y])
    BY <1>1, <1>5, <1>6, <1>7, <1>8, <2>1
  <2>3. K[x] = K[y] /\ Len(B[x]) = Len(B[y])
    <3>. HIDE DEF x, y, m
    <3>. QED BY <2>2 DEF Tells
  <2>4. p[k] = p[k - 1] + Len(B[x]) /\ q[k] = q[k - 1] + Len(B[y])
    BY ZenonT(40), <1>1, <1>5, <1>6 DEF Places
  <2>. QED BY <1>8, <2>3, <2>4
<1>. DEFINE P == {k \in Nat : k <= n => p[k] = q[k]}
<1>9. 0 \in P
  BY <1>7
<1>10. ASSUME NEW k \in Nat, k \in P PROVE k + 1 \in P
  <2>. DEFINE m == k + 1
  <2>. SUFFICES ASSUME m <= n PROVE p[m] = q[m]
    OBVIOUS
  <2>1. m \in 1..n /\ m - 1 = k /\ p[k] = q[k]
    BY <1>3, <1>10
  <2>. HIDE DEF m
  <2>. QED BY <1>8, <2>1
<1>11. \A k \in Nat : k \in P
  <2>. HIDE DEF P
  <2>. QED BY <1>9, <1>10, NaturalInduction
<1>12. \A k \in 0..n : p[k] = q[k]
  BY <1>11
<1>13. ASSUME NEW k \in 1..n PROVE K[xs[k]] = K[ys[k]]
  <2>1. k - 1 \in 0..n
    BY <1>3
  <2>. QED BY <1>8, <1>12, <2>1
<1>14. Len(Listing(B, xs)) = Len(Listing(B, ys))
  <2>1. p[n] = q[n]
    BY <1>3, <1>12
  <2>2. Len(Listing(B, xs)) \in Nat /\ Len(Listing(B, ys)) \in Nat
    BY <1>1, <1>2, LenProperties
  <2>. QED BY <1>1, <1>5, <2>1, <2>2
<1>. QED BY <1>4, <1>13, <1>14 DEF n, ShowSame

-----------------------------------------------------------------------------
(* The lists of a disclosure.                                              *)

(* The strings of the entries, as functions.                               *)
SpendStrings(T, profile, signed) ==
  [x \in SpendsOver(T, profile) |-> SpendBytes(profile, x, signed)]

OutputStrings(T) == [x \in OutputsOver(T) |-> OutputBytes(x)]

(* ReadSpend reads the signed spends ...                                   *)
LEMMA ReadsSpends ==
  ASSUME NEW T, Alphabet(T), NEW s \in Seq(T), NEW profile \in {Draft1, Ironwood}
  PROVE  Reads(T, s, SpendsIn(profile, s), SpendsOver(T, profile), SpendStrings(T, profile, TRUE))
<1>. DEFINE entryAt == SpendsIn(profile, s)
            V == SpendsOver(T, profile)
            B == SpendStrings(T, profile, TRUE)
<1>1. \A i \in 0..Len(s) + 1 : entryAt[i] = ReadSpend(profile, s, i)
  BY DEF SpendsIn
<1>2. \A x \in V : B[x] = SpendBytes(profile, x, TRUE)
  BY DEF SpendStrings
<1>3. B \in [V -> Seq(T)]
  <2>1. ASSUME NEW x \in V PROVE SpendBytes(profile, x, TRUE) \in Seq(T)
    BY SpendBytesAre
  <2>. QED BY <2>1 DEF SpendStrings
<1>4. Len(s) \in Nat
  BY LenProperties
<1>. HIDE DEF entryAt, B
<1>5. ASSUME NEW i \in 0..Len(s) + 1, NEW x \in V, At(s, i, B[x])
      PROVE  entryAt[i] = Got(x, i + Len(B[x]))
  <2>1. i \in Nat
    BY <1>4
  <2>2. ReadSpend(profile, s, i) = Got(x, i + Len(SpendBytes(profile, x, TRUE)))
    BY <1>2, <1>5, <2>1, ReadsSpend
  <2>. QED BY <1>1, <1>2, <2>2
<1>6. ASSUME NEW i \in 0..Len(s) + 1, entryAt[i].next # 0
      PROVE  /\ i \in 1..Len(s)
             /\ entryAt[i].value \in V
             /\ At(s, i, B[entryAt[i].value])
             /\ entryAt[i].next = i + Len(B[entryAt[i].value])
  <2>1. ReadSpend(profile, s, i).next # 0
    BY <1>1, <1>6
  <2>. DEFINE x == ReadSpend(profile, s, i).value
  <2>2. /\ i \in 1..Len(s) /\ x \in V
        /\ At(s, i, SpendBytes(profile, x, TRUE))
        /\ ReadSpend(profile, s, i).next = i + Len(SpendBytes(profile, x, TRUE))
    BY ZenonT(40), <2>1, WritesSpend
  <2>. QED BY <1>1, <1>2, <2>2
<1>7. ASSUME NEW i \in 0..Len(s) + 1 PROVE entryAt[i].next \in 0..Len(s) + 1
  <2>1. CASE entryAt[i].next = 0
    BY <1>4, <2>1
  <2>2. CASE entryAt[i].next # 0
    <3>. DEFINE t == B[entryAt[i].value]
    <3>1. i \in Nat /\ At(s, i, t) /\ entryAt[i].next = i + Len(t) /\ t \in Seq(T)
      <4>1. /\ entryAt[i].value \in V /\ At(s, i, t) /\ entryAt[i].next = i + Len(t)
        BY <1>6, <2>2
      <4>2. t \in Seq(T)
        BY <1>3, <4>1
      <4>. QED BY <1>4, <4>1, <4>2
    <3>2. Len(t) \in Nat
      BY <3>1, LenProperties
    <3>. HIDE DEF t
    <3>. QED BY <1>4, <3>1, <3>2 DEF At
  <2>. QED BY <2>1, <2>2
<1>8. entryAt[0].next = 0
  <2>1. 0 \in 0..Len(s) + 1 /\ 0 \notin 1..Len(s)
    BY <1>4
  <2>. QED BY <1>6, <2>1
<1>. QED BY <1>3, <1>5, <1>6, <1>7, <1>8 DEF Reads, Stays, entryAt, B

(* ... and ReadOutput the outputs.                                         *)
LEMMA ReadsOutputs ==
  ASSUME NEW T, Alphabet(T), NEW s \in Seq(T)
  PROVE  Reads(T, s, OutputsIn(s), OutputsOver(T), OutputStrings(T))
<1>. DEFINE entryAt == OutputsIn(s)
            V == OutputsOver(T)
            B == OutputStrings(T)
<1>1. \A i \in 0..Len(s) + 1 : entryAt[i] = ReadOutput(s, i)
  BY DEF OutputsIn
<1>2. \A x \in V : B[x] = OutputBytes(x)
  BY DEF OutputStrings
<1>3. B \in [V -> Seq(T)]
  <2>1. ASSUME NEW x \in V PROVE OutputBytes(x) \in Seq(T)
    BY OutputBytesAre
  <2>. QED BY <2>1 DEF OutputStrings
<1>4. Len(s) \in Nat
  BY LenProperties
<1>. HIDE DEF entryAt, B
<1>5. ASSUME NEW i \in 0..Len(s) + 1, NEW x \in V, At(s, i, B[x])
      PROVE  entryAt[i] = Got(x, i + Len(B[x]))
  <2>1. i \in Nat
    BY <1>4
  <2>2. ReadOutput(s, i) = Got(x, i + Len(OutputBytes(x)))
    BY <1>2, <1>5, <2>1, ReadsOutput
  <2>. QED BY <1>1, <1>2, <2>2
<1>6. ASSUME NEW i \in 0..Len(s) + 1, entryAt[i].next # 0
      PROVE  /\ i \in 1..Len(s)
             /\ entryAt[i].value \in V
             /\ At(s, i, B[entryAt[i].value])
             /\ entryAt[i].next = i + Len(B[entryAt[i].value])
  <2>1. ReadOutput(s, i).next # 0
    BY <1>1, <1>6
  <2>. DEFINE x == ReadOutput(s, i).value
  <2>2. /\ i \in 1..Len(s) /\ x \in V
        /\ At(s, i, OutputBytes(x))
        /\ ReadOutput(s, i).next = i + Len(OutputBytes(x))
    BY <2>1, WritesOutput
  <2>. QED BY <1>1, <1>2, <2>2
<1>7. ASSUME NEW i \in 0..Len(s) + 1 PROVE entryAt[i].next \in 0..Len(s) + 1
  <2>1. CASE entryAt[i].next = 0
    BY <1>4, <2>1
  <2>2. CASE entryAt[i].next # 0
    <3>. DEFINE t == B[entryAt[i].value]
    <3>1. i \in Nat /\ At(s, i, t) /\ entryAt[i].next = i + Len(t) /\ t \in Seq(T)
      <4>1. /\ entryAt[i].value \in V /\ At(s, i, t) /\ entryAt[i].next = i + Len(t)
        BY <1>6, <2>2
      <4>2. t \in Seq(T)
        BY <1>3, <4>1
      <4>. QED BY <1>4, <4>1, <4>2
    <3>2. Len(t) \in Nat
      BY <3>1, LenProperties
    <3>. HIDE DEF t
    <3>. QED BY <1>4, <3>1, <3>2 DEF At
  <2>. QED BY <2>1, <2>2
<1>8. entryAt[0].next = 0
  <2>1. 0 \in 0..Len(s) + 1 /\ 0 \notin 1..Len(s)
    BY <1>4
  <2>. QED BY <1>6, <2>1
<1>. QED BY <1>3, <1>5, <1>6, <1>7, <1>8 DEF Reads, Stays, entryAt, B

(* What a spend shows but its signature.                                   *)
Unproven(T, profile) ==
  [x \in SpendsOver(T, profile) |-> [index |-> x.index, fields |-> x.fields]]

(* Spends without signatures show their index and fields ...               *)
LEMMA SpendsTell ==
  ASSUME NEW T, Alphabet(T), NEW profile \in {Draft1, Ironwood}
  PROVE  /\ SpendStrings(T, profile, FALSE) \in [SpendsOver(T, profile) -> Seq(T)]
         /\ Tells(T, SpendsOver(T, profile), SpendStrings(T, profile, FALSE),
                  Unproven(T, profile))
<1>1. ASSUME NEW x \in SpendsOver(T, profile) PROVE Blanked(profile, x) \in Seq(T)
  BY SpendBytesAre DEF Blanked
<1>2. ASSUME NEW s \in Seq(T), NEW i \in Nat,
             NEW x \in SpendsOver(T, profile), NEW y \in SpendsOver(T, profile),
             At(s, i, Blanked(profile, x)), At(s, i, Blanked(profile, y))
      PROVE  /\ [index |-> x.index, fields |-> x.fields] = [index |-> y.index, fields |-> y.fields]
             /\ Len(Blanked(profile, x)) = Len(Blanked(profile, y))
  <2>1. /\ x.index = y.index /\ x.fields = y.fields
        /\ Len(Blanked(profile, x)) = Len(Blanked(profile, y))
    <3>1. x.index = y.index
      BY <1>2, SpendsAtOnePlace
    <3>2. x.fields = y.fields
      BY <1>2, SpendsAtOnePlace
    <3>3. Len(Blanked(profile, x)) = Len(Blanked(profile, y))
      BY <1>2, SpendsAtOnePlace
    <3>. QED BY <3>1, <3>2, <3>3
  <2>. QED BY <2>1
<1>3. SpendStrings(T, profile, FALSE) \in [SpendsOver(T, profile) -> Seq(T)]
  BY <1>1 DEF SpendStrings, Blanked
<1>4. \A x \in SpendsOver(T, profile) :
        /\ SpendStrings(T, profile, FALSE)[x] = Blanked(profile, x)
        /\ Unproven(T, profile)[x] = [index |-> x.index, fields |-> x.fields]
  BY DEF SpendStrings, Unproven, Blanked
<1>. DEFINE B == SpendStrings(T, profile, FALSE)
            K == Unproven(T, profile)
<1>. HIDE DEF B, K
<1>5. ASSUME NEW s \in Seq(T), NEW i \in Nat,
             NEW x \in SpendsOver(T, profile), NEW y \in SpendsOver(T, profile),
             At(s, i, B[x]), At(s, i, B[y])
      PROVE  K[x] = K[y] /\ Len(B[x]) = Len(B[y])
  <2>1. /\ B[x] = Blanked(profile, x) /\ B[y] = Blanked(profile, y)
        /\ K[x] = [index |-> x.index, fields |-> x.fields]
        /\ K[y] = [index |-> y.index, fields |-> y.fields]
    BY <1>4 DEF B, K
  <2>2. At(s, i, Blanked(profile, x)) /\ At(s, i, Blanked(profile, y))
    BY <1>5, <2>1
  <2>. QED BY <1>2, <2>1, <2>2
<1>6. Tells(T, SpendsOver(T, profile), B, K)
  BY <1>5 DEF Tells
<1>. QED BY <1>3, <1>6 DEF B, K

(* ... and outputs all they are.                                           *)
LEMMA OutputsTell ==
  ASSUME NEW T, Alphabet(T)
  PROVE  /\ OutputStrings(T) \in [OutputsOver(T) -> Seq(T)]
         /\ Tells(T, OutputsOver(T), OutputStrings(T), [x \in OutputsOver(T) |-> x])
<1>1. ASSUME NEW x \in OutputsOver(T) PROVE OutputBytes(x) \in Seq(T)
  BY OutputBytesAre
<1>2. ASSUME NEW s \in Seq(T), NEW i \in Nat, NEW x \in OutputsOver(T), NEW y \in OutputsOver(T),
             At(s, i, OutputBytes(x)), At(s, i, OutputBytes(y))
      PROVE  x = y
  BY <1>2, OutputsAtOnePlace
<1>3. OutputStrings(T) \in [OutputsOver(T) -> Seq(T)]
  BY <1>1 DEF OutputStrings
<1>4. \A x \in OutputsOver(T) : OutputStrings(T)[x] = OutputBytes(x)
  BY DEF OutputStrings
<1>. DEFINE B == OutputStrings(T)
            K == [x \in OutputsOver(T) |-> x]
<1>5. \A x \in OutputsOver(T) : K[x] = x
  OBVIOUS
<1>. HIDE DEF B, K
<1>6. ASSUME NEW s \in Seq(T), NEW i \in Nat, NEW x \in OutputsOver(T), NEW y \in OutputsOver(T),
             At(s, i, B[x]), At(s, i, B[y])
      PROVE  K[x] = K[y] /\ Len(B[x]) = Len(B[y])
  <2>1. B[x] = OutputBytes(x) /\ B[y] = OutputBytes(y)
    BY <1>4 DEF B
  <2>2. x = y
    BY <1>2, <1>6, <2>1
  <2>. QED BY <2>2
<1>7. Tells(T, OutputsOver(T), B, K)
  BY <1>6 DEF Tells
<1>. QED BY <1>3, <1>7 DEF B, K

-----------------------------------------------------------------------------
(* The whole byte string.                                                  *)

(* Strings, one after the other, are a string.                             *)
LEMMA FlattenType ==
  ASSUME NEW T, NEW n \in Nat, NEW E \in [1..n -> Seq(T)]
  PROVE  FlattenSeq(E) \in Seq(T)
<1>1. PICK h : Joins(T, n, E, h) /\ h[n] = FlattenSeq(E)
  BY FlattenIs
<1>. QED BY <1>1 DEF Joins

(* What a disclosure is made of.                                           *)
IsDisclosure(T, d) ==
  /\ d = [profile |-> d.profile, tx |-> d.tx, message |-> d.message,
          spends |-> d.spends, outputs |-> d.outputs]
  /\ d.profile \in {Draft1, Ironwood}
  /\ d.tx \in T
  /\ d.message \in Seq(T) /\ Len(d.message) \in 0..MaxMessage
  /\ d.spends \in Seq(SpendsOver(T, d.profile)) /\ Len(d.spends) \in 0..MaxEntries
  /\ d.outputs \in Seq(OutputsOver(T)) /\ Len(d.outputs) \in 0..MaxEntries

(* Its bytes, when B writes the spends.                                    *)
Wire(T, d, B) ==
  Header(d) \o
    ((IF d.profile = Draft1 THEN CompactSize(0) ELSE <<>>)
       \o CompactSize(Len(d.spends))
       \o FlattenSeq([i \in 1..Len(d.spends) |-> B[d.spends[i]]])
       \o CompactSize(Len(d.outputs))
       \o FlattenSeq([i \in 1..Len(d.outputs) |-> OutputStrings(T)[d.outputs[i]]]))

(* Where its parts begin.                                                  *)
MessageAt(d)  == 3 + Len(CompactSize(Len(d.message)))
BodyAt(d)     == MessageAt(d) + Len(d.message)
SpendsAt(d)   == BodyAt(d) + Filler(d.profile)
OutputsAt(d, B) == SpendsAt(d) + Len(Listing(B, d.spends))

(* The parts of d stand in s, one behind the other.                        *)
Stands(T, s, d, B) ==
  /\ At(s, 1, <<Byte(d.profile)>>)
  /\ At(s, 2, <<d.tx>>)
  /\ At(s, 3, CompactSize(Len(d.message)))
  /\ At(s, MessageAt(d), d.message)
  /\ At(s, BodyAt(d), IF d.profile = Draft1 THEN <<Byte(0)>> ELSE <<>>)
  /\ At(s, SpendsAt(d), Listing(B, d.spends))
  /\ At(s, OutputsAt(d, B), Listing(OutputStrings(T), d.outputs))

(* Six strings in a row, and that they, or three, are strings.             *)
Six(a, b, c, d, e, f) == ((a \o b) \o c) \o ((d \o e) \o f)

Parts(T, a, b, c, d, e, f) ==
  /\ a \in Seq(T) /\ b \in Seq(T) /\ c \in Seq(T)
  /\ d \in Seq(T) /\ e \in Seq(T) /\ f \in Seq(T)

Three(T, a, b, c) == a \in Seq(T) /\ b \in Seq(T) /\ c \in Seq(T)

(* Two ways to put three strings in a row.                                 *)
LEMMA Associative ==
  ASSUME NEW T, NEW a, NEW b, NEW c, Three(T, a, b, c)
  PROVE  (a \o b) \o c = a \o (b \o c)
BY SMTT(30), ConcatAssociative DEF Three

(* A row of six stands where each stands behind the last.                  *)
LEMMA SixAt ==
  ASSUME NEW T, NEW a, NEW b, NEW c, NEW d, NEW e, NEW f, Parts(T, a, b, c, d, e, f),
         NEW s \in Seq(T), NEW i \in Nat
  PROVE  /\ Six(a, b, c, d, e, f) \in Seq(T)
         /\ Len(Six(a, b, c, d, e, f))
              = Len(a) + Len(b) + Len(c) + Len(d) + Len(e) + Len(f)
         /\ At(s, i, Six(a, b, c, d, e, f)) <=>
              /\ At(s, i, a)
              /\ At(s, i + Len(a), b)
              /\ At(s, i + Len(a) + Len(b), c)
              /\ At(s, i + Len(a) + Len(b) + Len(c), d)
              /\ At(s, i + Len(a) + Len(b) + Len(c) + Len(d), e)
              /\ At(s, i + Len(a) + Len(b) + Len(c) + Len(d) + Len(e), f)
<1>. DEFINE ab == a \o b
            abc == ab \o c
            de == d \o e
            def == de \o f
            j == i + Len(a) + Len(b) + Len(c)
<1>0. /\ a \in Seq(T) /\ b \in Seq(T) /\ c \in Seq(T)
      /\ d \in Seq(T) /\ e \in Seq(T) /\ f \in Seq(T)
  BY DEF Parts
<1>1. /\ Len(a) \in Nat /\ Len(b) \in Nat /\ Len(c) \in Nat
      /\ Len(d) \in Nat /\ Len(e) \in Nat /\ Len(f) \in Nat
  BY <1>0, LenProperties
<1>2. ab \in Seq(T) /\ Len(ab) = Len(a) + Len(b) /\ de \in Seq(T) /\ Len(de) = Len(d) + Len(e)
  BY <1>0, ConcatLength
<1>. HIDE DEF ab, de
<1>3. /\ abc \in Seq(T) /\ Len(abc) = Len(ab) + Len(c)
      /\ def \in Seq(T) /\ Len(def) = Len(de) + Len(f)
  BY <1>0, <1>2, ConcatLength
<1>. HIDE DEF abc, def
<1>4. abc \o def \in Seq(T) /\ Len(abc \o def) = Len(abc) + Len(def)
  BY <1>3, ConcatLength
<1>5. At(s, i, abc \o def) <=> At(s, i, abc) /\ At(s, i + Len(abc), def)
  BY <1>3, AtConcat
<1>6. i + Len(abc) = j /\ j \in Nat
  BY <1>1, <1>2, <1>3
<1>7. At(s, i, abc) <=> At(s, i, ab) /\ At(s, i + Len(ab), c)
  BY <1>0, <1>2, AtConcat DEF abc
<1>8. At(s, i, ab) <=> At(s, i, a) /\ At(s, i + Len(a), b)
  BY <1>0, AtConcat DEF ab
<1>. HIDE DEF j
<1>9. At(s, j, def) <=> At(s, j, de) /\ At(s, j + Len(de), f)
  BY <1>0, <1>2, <1>6, AtConcat DEF def
<1>10. At(s, j, de) <=> At(s, j, d) /\ At(s, j + Len(d), e)
  BY <1>0, <1>6, AtConcat DEF de
<1>11. i + Len(ab) = i + Len(a) + Len(b) /\ j + Len(de) = j + Len(d) + Len(e)
  BY <1>1, <1>2, <1>6
<1>12. Len(abc \o def) = Len(a) + Len(b) + Len(c) + Len(d) + Len(e) + Len(f)
  BY <1>1, <1>2, <1>3, <1>4
<1>13. At(s, i, abc \o def) <=>
         /\ At(s, i, a) /\ At(s, i + Len(a), b) /\ At(s, i + Len(a) + Len(b), c)
         /\ At(s, j, d) /\ At(s, j + Len(d), e) /\ At(s, j + Len(d) + Len(e), f)
  BY <1>5, <1>6, <1>7, <1>8, <1>9, <1>10, <1>11
<1>. QED BY <1>4, <1>12, <1>13 DEF ab, abc, de, def, j, Six

(* A disclosure's bytes stand where its parts stand.                       *)
LEMMA WireAt ==
  ASSUME NEW T, Alphabet(T), NEW d, IsDisclosure(T, d),
         NEW B \in [SpendsOver(T, d.profile) -> Seq(T)], NEW s \in Seq(T)
  PROVE  /\ Wire(T, d, B) \in Seq(T)
         /\ Len(Wire(T, d, B)) + 1 = OutputsAt(d, B) + Len(Listing(OutputStrings(T), d.outputs))
         /\ At(s, 1, Wire(T, d, B)) <=> Stands(T, s, d, B)
<1>. DEFINE h == <<Byte(d.profile), d.tx>>
            cm == CompactSize(Len(d.message))
            m == d.message
            z == IF d.profile = Draft1 THEN <<Byte(0)>> ELSE <<>>
            cs == CompactSize(Len(d.spends))
            E == [i \in 1..Len(d.spends) |-> B[d.spends[i]]]
            fs == FlattenSeq(E)
            co == CompactSize(Len(d.outputs))
            D == [i \in 1..Len(d.outputs) |-> OutputStrings(T)[d.outputs[i]]]
            fo == FlattenSeq(D)
            X == Listing(B, d.spends)
            Y == Listing(OutputStrings(T), d.outputs)
<1>1. /\ d.profile \in {Draft1, Ironwood} /\ d.tx \in T /\ m \in Seq(T)
      /\ Len(m) \in 0..MaxIndex /\ Len(d.spends) \in 0..MaxIndex /\ Len(d.outputs) \in 0..MaxIndex
      /\ Len(d.spends) \in 0..MaxEntries /\ Len(d.outputs) \in 0..MaxEntries
      /\ d.spends \in Seq(SpendsOver(T, d.profile)) /\ d.outputs \in Seq(OutputsOver(T))
  BY SMTT(30), PowersGrow DEF IsDisclosure
<1>2. Bytes \subseteq T /\ Byte(0) \in T /\ Byte(d.profile) \in T
  <2>1. 0 \in 0..Base - 1 /\ d.profile \in 0..Base - 1
    BY SMTT(30), <1>1, PowersGrow DEF Draft1, Ironwood
  <2>2. Byte(0) \in Bytes /\ Byte(d.profile) \in Bytes
    BY <2>1 DEF Bytes
  <2>. QED BY <2>2 DEF Alphabet
<1>3. \A n \in 0..MaxIndex : CompactSize(n) \in Seq(T) /\ Len(CompactSize(n)) \in Nat
  BY <1>2, CompactSizeIsBytes, SeqMonotonic
<1>4. cm \in Seq(T) /\ cs \in Seq(T) /\ co \in Seq(T)
  BY <1>1, <1>3
<1>5. h \in Seq(T) /\ Len(h) = 2
  BY <1>1, <1>2
<1>6. z \in Seq(T) /\ Len(z) = Filler(d.profile)
  <2>1. CASE d.profile = Draft1
    <3>1. z = <<Byte(0)>>
      BY <2>1
    <3>. QED BY <1>2, <2>1, <3>1 DEF Filler
  <2>2. CASE d.profile # Draft1
    BY <2>2 DEF Filler
  <2>. QED BY <2>1, <2>2
<1>7. z = IF d.profile = Draft1 THEN CompactSize(0) ELSE <<>>
  <2>1. 0 < Base - 3
    BY PowersGrow
  <2>2. ~(0 >= Base - 3) /\ ~(0 >= Power[2]) /\ ~(0 >= Power[4])
    BY PowersGrow
  <2>3. CompactSize(0) = <<Byte(0)>>
    BY <2>1, <2>2 DEF CompactSize
  <2>. QED BY <2>3
<1>8. OutputStrings(T) \in [OutputsOver(T) -> Seq(T)]
  BY OutputsTell
<1>9. fs \in Seq(T) /\ fo \in Seq(T)
  <2>1. Len(d.spends) \in Nat /\ Len(d.outputs) \in Nat
    BY <1>1, LenProperties
  <2>2. E \in [1..Len(d.spends) -> Seq(T)]
    <3>1. ASSUME NEW i \in 1..Len(d.spends) PROVE B[d.spends[i]] \in Seq(T)
      <4>1. d.spends[i] \in SpendsOver(T, d.profile)
        BY <1>1, ElementOfSeq
      <4>. QED BY <4>1
    <3>. QED BY <3>1
  <2>3. D \in [1..Len(d.outputs) -> Seq(T)]
    <3>1. ASSUME NEW i \in 1..Len(d.outputs) PROVE OutputStrings(T)[d.outputs[i]] \in Seq(T)
      <4>1. d.outputs[i] \in OutputsOver(T)
        BY <1>1, ElementOfSeq
      <4>. QED BY <1>8, <4>1
    <3>. QED BY <3>1
  <2>. HIDE DEF E, D
  <2>. QED BY <2>1, <2>2, <2>3, FlattenType
<1>10. X = cs \o fs /\ Y = co \o fo
  BY DEF Listing
<1>11. Header(d) = (h \o cm) \o m
  BY DEF Header
<1>12. Wire(T, d, B) = ((h \o cm) \o m) \o ((((z \o cs) \o fs) \o co) \o fo)
  BY ZenonT(40), <1>7, <1>11 DEF Wire
<1>. HIDE DEF h, cm, m, z, cs, E, fs, co, D, fo, X, Y
<1>13. X \in Seq(T) /\ Y \in Seq(T)
  BY <1>4, <1>9, <1>10, ConcatLength
<1>14. (((z \o cs) \o fs) \o co) \o fo = (z \o X) \o Y
  <2>1. (z \o cs) \o fs = z \o X
    <3>0. Three(T, z, cs, fs)
      BY <1>4, <1>6, <1>9 DEF Three
    <3>1. (z \o cs) \o fs = z \o (cs \o fs)
      BY SMTT(30), <3>0, Associative
    <3>. QED BY <1>10, <3>1
  <2>2. z \o X \in Seq(T)
    BY <1>6, <1>13, ConcatLength
  <2>3. ((z \o X) \o co) \o fo = (z \o X) \o Y
    <3>. DEFINE zX == z \o X
    <3>1. zX \in Seq(T)
      BY <2>2
    <3>. HIDE DEF zX
    <3>3. Three(T, zX, co, fo)
      BY <1>4, <1>9, <3>1 DEF Three
    <3>2. (zX \o co) \o fo = zX \o (co \o fo)
      BY SMTT(30), <3>3, Associative
    <3>. QED BY <1>10, <3>2 DEF zX
  <2>. QED BY <2>1, <2>3
<1>15. Wire(T, d, B) = ((h \o cm) \o m) \o ((z \o X) \o Y)
  BY <1>12, <1>14
<1>. DEFINE W == Six(h, cm, m, z, X, Y)
<1>16. /\ Len(h) = 2 /\ Len(cm) \in Nat /\ Len(m) \in Nat /\ Len(z) = Filler(d.profile)
       /\ Len(X) \in Nat /\ Len(Y) \in Nat /\ Filler(d.profile) \in Nat
  BY <1>1, <1>4, <1>5, <1>6, <1>13, LenProperties DEF Filler
<1>23. Parts(T, h, cm, m, z, X, Y)
  BY <1>1, <1>4, <1>5, <1>6, <1>13 DEF Parts
<1>17. W \in Seq(T) /\ Len(W) = Len(h) + Len(cm) + Len(m) + Len(z) + Len(X) + Len(Y)
  BY <1>23, SixAt
<1>18. At(s, 1, W) <=>
              /\ At(s, 1, h)
              /\ At(s, 1 + Len(h), cm)
              /\ At(s, 1 + Len(h) + Len(cm), m)
              /\ At(s, 1 + Len(h) + Len(cm) + Len(m), z)
              /\ At(s, 1 + Len(h) + Len(cm) + Len(m) + Len(z), X)
              /\ At(s, 1 + Len(h) + Len(cm) + Len(m) + Len(z) + Len(X), Y)
  BY <1>23, SixAt
<1>. HIDE DEF W
<1>19. /\ 1 + Len(h) = 3
       /\ 1 + Len(h) + Len(cm) = MessageAt(d)
       /\ 1 + Len(h) + Len(cm) + Len(m) = BodyAt(d)
       /\ 1 + Len(h) + Len(cm) + Len(m) + Len(z) = SpendsAt(d)
       /\ 1 + Len(h) + Len(cm) + Len(m) + Len(z) + Len(X) = OutputsAt(d, B)
  BY <1>16 DEF MessageAt, BodyAt, SpendsAt, OutputsAt, cm, m, X
<1>20. At(s, 1, h) <=> At(s, 1, <<Byte(d.profile)>>) /\ At(s, 2, <<d.tx>>)
  <2>1. h = <<Byte(d.profile)>> \o <<d.tx>> /\ Len(<<Byte(d.profile)>>) = 1
    BY DEF h
  <2>2. <<Byte(d.profile)>> \in Seq(T) /\ <<d.tx>> \in Seq(T)
    BY <1>1, <1>2
  <2>3. 1 + Len(<<Byte(d.profile)>>) = 2
    BY <2>1
  <2>. DEFINE g == <<Byte(d.profile)>>
              k == <<d.tx>>
  <2>. HIDE DEF g, k
  <2>4. g \in Seq(T) /\ k \in Seq(T) /\ h = g \o k /\ 1 + Len(g) = 2
    BY <2>1, <2>2, <2>3 DEF g, k
  <2>5. At(s, 1, g \o k) <=> At(s, 1, g) /\ At(s, 1 + Len(g), k)
    BY <2>4, AtConcat
  <2>. QED BY <2>4, <2>5 DEF g, k
<1>21. At(s, 1, W) <=> Stands(T, s, d, B)
  BY <1>18, <1>19, <1>20 DEF Stands, cm, m, z, X, Y
<1>22. Len(W) + 1 = OutputsAt(d, B) + Len(Y)
  BY SMTT(30), <1>16, <1>17, <1>19
<1>. QED BY <1>15, <1>17, <1>21, <1>22 DEF W, Y, Six

(* The spends of d as to_bytes, and as compute_digest, writes them.        *)
SignedStrings(T, d) == SpendStrings(T, d.profile, TRUE)
BlankStrings(T, d)  == SpendStrings(T, d.profile, FALSE)

(* to_bytes and the preimage of the digest are two such strings.           *)
LEMMA WireIs ==
  ASSUME NEW T, Alphabet(T), NEW d, IsDisclosure(T, d)
  PROVE  /\ SignedStrings(T, d) \in [SpendsOver(T, d.profile) -> Seq(T)]
         /\ BlankStrings(T, d) \in [SpendsOver(T, d.profile) -> Seq(T)]
         /\ ToBytes(d) = Wire(T, d, SignedStrings(T, d))
         /\ UnsignedBytes(d) = Wire(T, d, BlankStrings(T, d))
<1>. DEFINE p == d.profile
            xs == d.spends
            ys == d.outputs
<1>1. p \in {Draft1, Ironwood} /\ xs \in Seq(SpendsOver(T, p)) /\ ys \in Seq(OutputsOver(T))
  BY DEF IsDisclosure
<1>2. ASSUME NEW signed \in BOOLEAN
      PROVE  /\ SpendStrings(T, p, signed) \in [SpendsOver(T, p) -> Seq(T)]
             /\ Header(d) \o Body(d, signed) = Wire(T, d, SpendStrings(T, p, signed))
  <2>1. SpendStrings(T, p, signed) \in [SpendsOver(T, p) -> Seq(T)]
    <3>1. ASSUME NEW x \in SpendsOver(T, p) PROVE SpendBytes(p, x, signed) \in Seq(T)
      BY <1>1, SpendBytesAre
    <3>. QED BY <3>1 DEF SpendStrings
  <2>2. \A i \in 1..Len(xs) : SpendStrings(T, p, signed)[xs[i]] = SpendBytes(p, xs[i], signed)
    <3>1. ASSUME NEW i \in 1..Len(xs) PROVE xs[i] \in SpendsOver(T, p)
      BY <1>1, ElementOfSeq
    <3>. QED BY <3>1 DEF SpendStrings
  <2>3. \A i \in 1..Len(ys) : OutputStrings(T)[ys[i]] = OutputBytes(ys[i])
    <3>1. ASSUME NEW i \in 1..Len(ys) PROVE ys[i] \in OutputsOver(T)
      BY <1>1, ElementOfSeq
    <3>. QED BY <3>1 DEF OutputStrings
  <2>4. /\ [i \in 1..Len(xs) |-> SpendStrings(T, p, signed)[xs[i]]]
             = [i \in 1..Len(xs) |-> SpendBytes(p, xs[i], signed)]
        /\ [i \in 1..Len(ys) |-> OutputStrings(T)[ys[i]]] = [i \in 1..Len(ys) |-> OutputBytes(ys[i])]
    <3>. HIDE DEF p, xs, ys
    <3>. QED BY ZenonT(40), <2>2, <2>3
  <2>5. Header(d) \o Body(d, signed) = Wire(T, d, SpendStrings(T, p, signed))
    BY <2>4 DEF Wire, Body
  <2>. QED BY <2>1, <2>5
<1>3. /\ SpendStrings(T, p, TRUE) \in [SpendsOver(T, p) -> Seq(T)]
      /\ Header(d) \o Body(d, TRUE) = Wire(T, d, SpendStrings(T, p, TRUE))
  BY <1>2
<1>4. /\ SpendStrings(T, p, FALSE) \in [SpendsOver(T, p) -> Seq(T)]
      /\ Header(d) \o Body(d, FALSE) = Wire(T, d, SpendStrings(T, p, FALSE))
  BY <1>2
<1>. QED BY <1>3, <1>4 DEF ToBytes, UnsignedBytes, SignedStrings, BlankStrings

(* from_bytes undoes to_bytes (codec.rs): whatever disclosure of the       *)
(* demanded shape is encoded, of any tokens, decodes to itself and nothing *)
(* else.                                                                   *)
THEOREM ReadsWire ==
  ASSUME NEW T, Alphabet(T), NEW d, IsDisclosure(T, d), WellShaped(d)
  PROVE  ToBytes(d) \in Seq(T) /\ FromBytes(ToBytes(d)) = {d}
<1>. DEFINE B == SignedStrings(T, d)
            C == OutputStrings(T)
            s == Wire(T, d, B)
            p == d.profile
            m == MessageAt(d)
            b == BodyAt(d)
            i == SpendsAt(d)
            j == OutputsAt(d, B)
<1>1. /\ p \in {Draft1, Ironwood} /\ d.tx \in T
      /\ d.message \in Seq(T) /\ Len(d.message) \in 0..MaxMessage
      /\ d.spends \in Seq(SpendsOver(T, p)) /\ Len(d.spends) \in 0..MaxEntries
      /\ d.outputs \in Seq(OutputsOver(T)) /\ Len(d.outputs) \in 0..MaxEntries
      /\ d = [profile |-> p, tx |-> d.tx, message |-> d.message,
              spends |-> d.spends, outputs |-> d.outputs]
  BY DEF IsDisclosure
<1>2. B \in [SpendsOver(T, p) -> Seq(T)] /\ ToBytes(d) = s
  BY WireIs
<1>. HIDE DEF B
<1>3. s \in Seq(T)
  <2>1. <<>> \in Seq(T)
    OBVIOUS
  <2>. QED BY <1>2, <2>1, WireAt
<1>4. Len(s) + 1 = j + Len(Listing(C, d.outputs)) /\ Stands(T, s, d, B)
  <2>. HIDE DEF s
  <2>1. At(s, 1, s)
    BY <1>3, AtWhole
  <2>. QED BY <1>2, <1>3, <2>1, WireAt DEF s
<1>. HIDE DEF s, C
<1>5. /\ At(s, 1, <<Byte(p)>>) /\ At(s, 2, <<d.tx>>)
      /\ At(s, 3, CompactSize(Len(d.message))) /\ At(s, m, d.message)
      /\ At(s, b, IF p = Draft1 THEN <<Byte(0)>> ELSE <<>>)
      /\ At(s, i, Listing(B, d.spends)) /\ At(s, j, Listing(C, d.outputs))
  BY <1>4 DEF Stands, C
<1>6. Len(s) \in Nat /\ MaxMessage \in 0..MaxIndex
  BY <1>3, LenProperties, PowersGrow
<1>7. m \in 1..Len(s) + 1 /\ b \in 1..Len(s) + 1 /\ i \in 1..Len(s) + 1 /\ j \in 1..Len(s) + 1
  BY <1>5 DEF At
<1>8. s[1] = Byte(p) /\ 1 \in 1..Len(s) /\ s[2] = d.tx
  <2>1. 1 \in 1..Len(s) /\ s[1] = Byte(p)
    BY <1>3, <1>5, AtOne
  <2>2. s[2] = d.tx
    BY <1>3, <1>5, AtOne
  <2>. QED BY <2>1, <2>2
<1>9. s[1][2] = p /\ IsByteAt(s, 1)
  BY <1>8 DEF Byte, IsByteAt
<1>10. ReadSize(s, 3, MaxMessage) = Got(Len(d.message), m)
  <2>. DEFINE k == Len(d.message)
  <2>1. k \in 0..MaxMessage /\ At(s, 3, CompactSize(k)) /\ m = 3 + Len(CompactSize(k))
    BY <1>1, <1>5 DEF MessageAt
  <2>2. 3 \in Nat
    OBVIOUS
  <2>. HIDE DEF k, m
  <2>3. ReadSize(s, 3, MaxMessage) = Got(k, 3 + Len(CompactSize(k)))
    BY <1>3, <1>6, <2>1, <2>2, ReadsCompactSize
  <2>. QED BY <2>1, <2>3 DEF k
<1>11. ReadSize(s, 3, MaxMessage).next = m /\ ReadSize(s, 3, MaxMessage).value = Len(d.message)
  BY <1>10, GotIs
<1>12. b = m + Len(d.message)
  BY DEF BodyAt
<1>13. p = Draft1 => IsZeroAt(s, b) /\ i = b + 1
  <2>. SUFFICES ASSUME p = Draft1 PROVE IsZeroAt(s, b) /\ i = b + 1
    OBVIOUS
  <2>1. At(s, b, <<Byte(0)>>)
    BY <1>5
  <2>2. b \in 1..Len(s) /\ s[b] = Byte(0)
    BY <1>3, <2>1, AtOne
  <2>3. s[b][1] = "byte" /\ s[b][2] = 0
    BY <2>2 DEF Byte
  <2>4. i = b + 1
    BY DEF SpendsAt, Filler
  <2>. QED BY <2>2, <2>3, <2>4 DEF IsZeroAt, IsByteAt
<1>14. p # Draft1 => i = b
  BY <1>7 DEF SpendsAt, Filler
<1>15. ReadList(SpendsIn(p, s), s, i) = Got(d.spends, j)
  <2>1. Reads(T, s, SpendsIn(p, s), SpendsOver(T, p), B)
    BY <1>1, <1>3, ReadsSpends DEF B, SignedStrings
  <2>2. i \in Nat
    BY <1>7
  <2>3. ReadList(SpendsIn(p, s), s, i) = Got(d.spends, i + Len(Listing(B, d.spends)))
    BY <1>1, <1>3, <1>5, <2>1, <2>2, ReadsList
  <2>. QED BY <2>3 DEF OutputsAt
<1>16. ReadList(OutputsIn(s), s, j) = Got(d.outputs, Len(s) + 1)
  <2>1. Reads(T, s, OutputsIn(s), OutputsOver(T), C)
    BY <1>3, ReadsOutputs DEF C
  <2>2. j \in Nat
    BY <1>7
  <2>3. ReadList(OutputsIn(s), s, j) = Got(d.outputs, j + Len(Listing(C, d.outputs)))
    BY <1>1, <1>3, <1>5, <2>1, <2>2, ReadsList
  <2>. QED BY <1>4, <2>3 DEF C
<1>17. SubSeq(s, m, b - 1) = d.message
  <2>. DEFINE u == SubSeq(s, m, b - 1)
  <2>1. b \in m..Len(s) + 1 /\ b - m = Len(d.message)
    BY SMTT(30), <1>1, <1>6, <1>7, <1>12, LenProperties
  <2>. HIDE DEF m, b
  <2>2. u \in Seq(T) /\ Len(u) = Len(d.message) /\ At(s, m, u)
    BY <1>3, <1>7, <2>1, AtSub
  <2>. HIDE DEF u
  <2>3. u = d.message
    BY <1>1, <1>5, <2>2, AtSame
  <2>. QED BY <2>3 DEF u
<1>. HIDE DEF m, b, i, j
<1>18. (IF p = Draft1 THEN b + 1 ELSE b) = i
  BY <1>13, <1>14
<1>. DEFINE spends == ReadList(SpendsIn(p, s), s, i)
            outputs == ReadList(OutputsIn(s), s, spends.next)
<1>19. spends.value = d.spends /\ spends.next = j
  BY <1>15, GotIs
<1>20. outputs.value = d.outputs /\ outputs.next = Len(s) + 1
  BY SMTT(30), <1>16, <1>19, GotIs
<1>21. FromBytes(s) =
         IF /\ IsByteAt(s, 1) /\ p \in {Draft1, Ironwood}
            /\ m # 0 /\ b <= Len(s) + 1
            /\ p = Draft1 => IsZeroAt(s, b)
            /\ outputs.next = Len(s) + 1
            /\ WellShaped([profile |-> p, tx |-> s[2], message |-> SubSeq(s, m, b - 1),
                           spends |-> spends.value, outputs |-> outputs.value])
           THEN {[profile |-> p, tx |-> s[2], message |-> SubSeq(s, m, b - 1),
                  spends |-> spends.value, outputs |-> outputs.value]}
           ELSE {}
  BY ZenonT(40), <1>9, <1>11, <1>12, <1>18 DEF FromBytes
<1>. HIDE DEF spends, outputs
<1>22. [profile |-> p, tx |-> s[2], message |-> SubSeq(s, m, b - 1),
        spends |-> spends.value, outputs |-> outputs.value] = d
  BY <1>1, <1>8, <1>17, <1>19, <1>20
<1>23. m # 0 /\ b <= Len(s) + 1
  BY <1>6, <1>7
<1>24. FromBytes(s) = {d}
  BY <1>1, <1>9, <1>13, <1>20, <1>21, <1>22, <1>23
<1>. QED BY <1>2, <1>3, <1>24

(* The format is canonical (codec.rs): whatever bytes from_bytes accepts,  *)
(* it decodes to a disclosure of the demanded shape whose encoding they    *)
(* are, so no disclosure has two encodings.                                *)
THEOREM WritesWire ==
  ASSUME NEW T, Alphabet(T), NEW s \in Seq(T), NEW d \in FromBytes(s)
  PROVE  IsDisclosure(T, d) /\ WellShaped(d) /\ ToBytes(d) = s
<1>. DEFINE p == s[1][2]
            k == ReadSize(s, 3, MaxMessage).value
            m == ReadSize(s, 3, MaxMessage).next
            b == m + k
            i == IF p = Draft1 THEN b + 1 ELSE b
            xs == ReadList(SpendsIn(p, s), s, i)
            ys == ReadList(OutputsIn(s), s, xs.next)
            D == [profile |-> p, tx |-> s[2], message |-> SubSeq(s, m, b - 1),
                  spends |-> xs.value, outputs |-> ys.value]
<1>1. FromBytes(s) =
         IF /\ IsByteAt(s, 1) /\ p \in {Draft1, Ironwood}
            /\ m # 0 /\ b <= Len(s) + 1
            /\ p = Draft1 => IsZeroAt(s, b)
            /\ ys.next = Len(s) + 1
            /\ WellShaped(D)
           THEN {D} ELSE {}
  BY DEF FromBytes
<1>. HIDE DEF p, k, m, b, i, xs, ys, D
<1>2. /\ IsByteAt(s, 1) /\ p \in {Draft1, Ironwood}
      /\ m # 0 /\ b <= Len(s) + 1
      /\ p = Draft1 => IsZeroAt(s, b)
      /\ ys.next = Len(s) + 1
      /\ WellShaped(D) /\ d = D
  BY <1>1
<1>3. Len(s) \in Nat /\ MaxMessage \in 0..MaxIndex
  BY LenProperties, PowersGrow
<1>4. /\ k \in 0..MaxMessage /\ At(s, 3, CompactSize(k)) /\ m = 3 + Len(CompactSize(k))
      /\ 3 \in 1..Len(s)
  BY <1>2, <1>3, WritesCompactSize DEF k, m
<1>5. k \in Nat /\ Len(CompactSize(k)) \in Nat
  <2>1. k \in 0..MaxIndex /\ k \in Nat
    BY <1>3, <1>4, PowersGrow
  <2>. QED BY <2>1, CompactSizeIsBytes
<1>6. m \in 1..Len(s) + 1 /\ b \in m..Len(s) + 1 /\ b - m = k
  BY <1>2, <1>3, <1>4, <1>5 DEF b
<1>. DEFINE u == SubSeq(s, m, b - 1)
<1>7. u \in Seq(T) /\ Len(u) = k /\ At(s, m, u)
  BY <1>6, AtSub
<1>. HIDE DEF u
<1>. DEFINE B == SpendStrings(T, p, TRUE)
            C == OutputStrings(T)
<1>8. Reads(T, s, SpendsIn(p, s), SpendsOver(T, p), B)
  BY <1>2, ReadsSpends
<1>9. Reads(T, s, OutputsIn(s), OutputsOver(T), C)
  BY ReadsOutputs
<1>. HIDE DEF B, C
<1>10. /\ xs.next \in 1..Len(s)
       /\ ys.value \in Seq(OutputsOver(T))
       /\ Len(ys.value) \in 0..MaxEntries
       /\ At(s, xs.next, Listing(C, ys.value))
       /\ ys.next = xs.next + Len(Listing(C, ys.value))
  <2>1. ys.next # 0
    BY <1>2, <1>3
  <2>. QED BY <1>9, <2>1, WritesList DEF ys
<1>11. /\ i \in 1..Len(s)
       /\ xs.value \in Seq(SpendsOver(T, p))
       /\ Len(xs.value) \in 0..MaxEntries
       /\ At(s, i, Listing(B, xs.value))
       /\ xs.next = i + Len(Listing(B, xs.value))
  <2>1. xs.next # 0
    BY <1>10
  <2>. QED BY <1>8, <2>1, WritesList DEF xs
<1>12. /\ D.profile = p /\ D.tx = s[2] /\ D.message = u
       /\ D.spends = xs.value /\ D.outputs = ys.value
       /\ D = [profile |-> D.profile, tx |-> D.tx, message |-> D.message,
               spends |-> D.spends, outputs |-> D.outputs]
  BY DEF D, u
<1>13. s[2] \in T /\ 2 \in 1..Len(s) /\ 1 \in 1..Len(s)
  <2>1. 2 \in 1..Len(s) /\ 1 \in 1..Len(s)
    BY <1>3, <1>4
  <2>. QED BY <2>1, ElementOfSeq
<1>14. IsDisclosure(T, D)
  BY <1>2, <1>4, <1>7, <1>10, <1>11, <1>12, <1>13 DEF IsDisclosure
<1>15. At(s, 1, <<Byte(p)>>) /\ At(s, 2, <<s[2]>>)
  <2>1. s[1] = Byte(p)
    <3>1. s[1] \in Bytes
      BY <1>2, AlphabetBytes
    <3>. QED BY <3>1, ByteIs DEF p
  <2>. QED BY <1>13, <2>1, AtOne
<1>16. At(s, b, IF p = Draft1 THEN <<Byte(0)>> ELSE <<>>) /\ i = b + Filler(p)
  <2>1. CASE p = Draft1
    <3>1. IsByteAt(s, b) /\ s[b][2] = 0
      BY <1>2, <2>1 DEF IsZeroAt
    <3>2. b \in 1..Len(s) /\ s[b] = Byte(0)
      <4>1. b \in 1..Len(s) /\ s[b] \in Bytes
        BY <3>1, AlphabetBytes
      <4>. QED BY <3>1, <4>1, ByteIs
    <3>3. At(s, b, <<Byte(0)>>)
      BY <3>2, AtOne
    <3>. QED BY <2>1, <3>3 DEF i, Filler
  <2>2. CASE p # Draft1
    <3>1. At(s, b, <<>>)
      BY <1>3, <1>6, AtEmpty
    <3>2. i = b + 0 /\ Filler(p) = 0
      BY <1>3, <1>6, <2>2 DEF i, Filler
    <3>. QED BY <2>2, <3>1, <3>2
  <2>. QED BY <2>1, <2>2
<1>17. /\ MessageAt(D) = m /\ BodyAt(D) = b /\ SpendsAt(D) = i
       /\ OutputsAt(D, B) = xs.next
  BY <1>4, <1>6, <1>7, <1>11, <1>12, <1>16 DEF MessageAt, BodyAt, SpendsAt, OutputsAt, b
<1>18. Stands(T, s, D, B)
  BY <1>4, <1>7, <1>10, <1>11, <1>12, <1>15, <1>16, <1>17 DEF Stands, C
<1>19. B = SignedStrings(T, D)
  BY <1>12 DEF SignedStrings, B
<1>20. B \in [SpendsOver(T, D.profile) -> Seq(T)] /\ ToBytes(D) = Wire(T, D, B)
  BY <1>14, <1>19, WireIs
<1>. DEFINE w == Wire(T, D, B)
<1>21. w \in Seq(T) /\ At(s, 1, w)
  BY <1>14, <1>18, <1>20, WireAt
<1>22. Len(w) + 1 = OutputsAt(D, B) + Len(Listing(C, D.outputs))
  BY <1>14, <1>20, WireAt DEF C
<1>23. s = w
  <2>1. Len(w) + 1 = Len(s) + 1
    BY <1>2, <1>10, <1>12, <1>17, <1>22
  <2>. HIDE DEF w
  <2>2. 1 + Len(w) = Len(s) + 1
    BY <1>3, <1>21, <2>1, LenProperties
  <2>. QED BY <1>21, <2>2, AtWhole
<1>. QED BY <1>2, <1>14, <1>20, <1>23

(* compute_digest hashes all but the signatures: two disclosures with one  *)
(* preimage have the same profile, transaction, message and outputs, and   *)
(* the same indices and fields in their spends.                            *)
THEOREM UnsignedTells ==
  ASSUME NEW T, Alphabet(T), NEW d, IsDisclosure(T, d), NEW e, IsDisclosure(T, e),
         UnsignedBytes(d) = UnsignedBytes(e)
  PROVE  /\ d.profile = e.profile /\ d.tx = e.tx /\ d.message = e.message
         /\ d.outputs = e.outputs
         /\ Len(d.spends) = Len(e.spends)
         /\ \A k \in 1..Len(d.spends) :
              /\ d.spends[k].index = e.spends[k].index
              /\ d.spends[k].fields = e.spends[k].fields
<1>. DEFINE B == BlankStrings(T, d)
            G == BlankStrings(T, e)
            C == OutputStrings(T)
            s == UnsignedBytes(d)
<1>1. /\ d.profile \in {Draft1, Ironwood}
      /\ d.message \in Seq(T) /\ Len(d.message) \in 0..MaxMessage
      /\ d.spends \in Seq(SpendsOver(T, d.profile)) /\ Len(d.spends) \in 0..MaxEntries
      /\ d.outputs \in Seq(OutputsOver(T)) /\ Len(d.outputs) \in 0..MaxEntries
  BY DEF IsDisclosure
<1>2. /\ e.profile \in {Draft1, Ironwood}
      /\ e.message \in Seq(T) /\ Len(e.message) \in 0..MaxMessage
      /\ e.spends \in Seq(SpendsOver(T, e.profile)) /\ Len(e.spends) \in 0..MaxEntries
      /\ e.outputs \in Seq(OutputsOver(T)) /\ Len(e.outputs) \in 0..MaxEntries
  BY DEF IsDisclosure
<1>3. B \in [SpendsOver(T, d.profile) -> Seq(T)] /\ s = Wire(T, d, B)
  BY WireIs
<1>4. G \in [SpendsOver(T, e.profile) -> Seq(T)] /\ s = Wire(T, e, G)
  BY WireIs
<1>. HIDE DEF B, G, s, C
<1>5. s \in Seq(T)
  <2>1. <<>> \in Seq(T)
    OBVIOUS
  <2>. QED BY <1>3, <2>1, WireAt
<1>6. At(s, 1, s)
  BY <1>5, AtWhole
<1>7. Stands(T, s, d, B)
  BY <1>3, <1>5, <1>6, WireAt
<1>8. Stands(T, s, e, G)
  BY <1>4, <1>5, <1>6, WireAt
<1>9. d.profile = e.profile
  <2>1. At(s, 1, <<Byte(d.profile)>>) /\ At(s, 1, <<Byte(e.profile)>>)
    BY <1>7, <1>8 DEF Stands
  <2>2. s[1] = Byte(d.profile) /\ s[1] = Byte(e.profile)
    BY <1>5, <2>1, AtOne
  <2>. QED BY <2>2, ByteIs
<1>10. d.tx = e.tx
  <2>1. At(s, 2, <<d.tx>>) /\ At(s, 2, <<e.tx>>)
    BY <1>7, <1>8 DEF Stands
  <2>. QED BY <1>5, <2>1, AtOne
<1>11. Len(d.message) = Len(e.message)
  <2>. DEFINE k == Len(d.message)
              l == Len(e.message)
  <2>1. At(s, 3, CompactSize(k)) /\ At(s, 3, CompactSize(l))
    BY <1>7, <1>8 DEF Stands
  <2>2. k \in 0..MaxMessage /\ l \in 0..MaxMessage
    BY <1>1, <1>2
  <2>. HIDE DEF k, l
  <2>3. k \in 0..MaxIndex /\ l \in 0..MaxIndex /\ 3 \in Nat
    BY <2>2, PowersGrow
  <2>4. k = l
    BY <1>5, <2>1, <2>3, SizesAtOnePlace
  <2>. QED BY <2>4 DEF k, l
<1>12. MessageAt(d) = MessageAt(e)
  BY <1>11 DEF MessageAt
<1>13. d.message = e.message
  <2>. DEFINE t == d.message
              u == e.message
              m == MessageAt(d)
  <2>1. t \in Seq(T) /\ u \in Seq(T) /\ At(s, m, t) /\ At(s, m, u) /\ Len(t) = Len(u)
    BY <1>1, <1>2, <1>7, <1>8, <1>11, <1>12 DEF Stands
  <2>. HIDE DEF t, u, m
  <2>2. t = u
    BY <2>1, AtSame
  <2>. QED BY <2>2 DEF t, u
<1>14. SpendsAt(d) = SpendsAt(e)
  BY <1>9, <1>12, <1>13 DEF SpendsAt, BodyAt
<1>15. B = G
  BY <1>9 DEF B, G, BlankStrings
<1>. DEFINE V == SpendsOver(T, d.profile)
            K == Unproven(T, d.profile)
            xs == d.spends
            zs == e.spends
            i == SpendsAt(d)
<1>16. /\ xs \in Seq(V) /\ zs \in Seq(V) /\ Len(xs) \in 0..MaxEntries /\ Len(zs) \in 0..MaxEntries
       /\ At(s, i, Listing(B, xs)) /\ At(s, i, Listing(B, zs))
  BY <1>1, <1>2, <1>7, <1>8, <1>9, <1>14, <1>15 DEF Stands
<1>17. B \in [V -> Seq(T)] /\ Tells(T, V, B, K)
  BY <1>1, SpendsTell DEF B, BlankStrings
<1>18. i \in Nat
  BY <1>16 DEF At
<1>. HIDE DEF V, K, xs, zs, i
<1>19. ShowSame(K, xs, zs)
  BY <1>5, <1>16, <1>17, <1>18, ListsAtOnePlace
<1>20. Len(xs) = Len(zs) /\ \A k \in 1..Len(xs) : K[xs[k]] = K[zs[k]]
  BY <1>19 DEF ShowSame
<1>21. Len(Listing(B, xs)) = Len(Listing(B, zs))
  BY SMTT(30), <1>5, <1>16, <1>17, <1>18, ListsAtOnePlace
<1>22. ASSUME NEW k \in 1..Len(xs)
       PROVE  xs[k].index = zs[k].index /\ xs[k].fields = zs[k].fields
  <2>1. xs[k] \in V /\ zs[k] \in V
    BY <1>16, <1>20, ElementOfSeq
  <2>2. \A x \in V : K[x] = [index |-> x.index, fields |-> x.fields]
    BY DEF K, V, Unproven
  <2>3. [index |-> xs[k].index, fields |-> xs[k].fields]
          = [index |-> zs[k].index, fields |-> zs[k].fields]
    BY <1>20, <2>1, <2>2
  <2>. QED BY <2>3
<1>23. OutputsAt(d, B) = OutputsAt(e, G)
  BY <1>14, <1>15, <1>21 DEF OutputsAt, xs, zs
<1>. DEFINE W == OutputsOver(T)
            I == [x \in W |-> x]
            ys == d.outputs
            vs == e.outputs
            j == OutputsAt(d, B)
<1>24. /\ ys \in Seq(W) /\ vs \in Seq(W) /\ Len(ys) \in 0..MaxEntries /\ Len(vs) \in 0..MaxEntries
       /\ At(s, j, Listing(C, ys)) /\ At(s, j, Listing(C, vs))
  BY <1>1, <1>2, <1>7, <1>8, <1>23 DEF Stands, C
<1>25. C \in [W -> Seq(T)] /\ Tells(T, W, C, I) /\ \A x \in W : I[x] = x
  BY OutputsTell DEF C
<1>26. j \in Nat
  BY <1>24 DEF At
<1>. HIDE DEF W, I, ys, vs, j
<1>27. ShowSame(I, ys, vs)
  BY <1>5, <1>24, <1>25, <1>26, ListsAtOnePlace
<1>28. Len(ys) = Len(vs) /\ \A k \in 1..Len(ys) : I[ys[k]] = I[vs[k]]
  BY <1>27 DEF ShowSame
<1>29. ys = vs
  <2>1. ASSUME NEW k \in 1..Len(ys) PROVE ys[k] = vs[k]
    <3>1. ys[k] \in W /\ vs[k] \in W
      BY <1>24, <1>28, ElementOfSeq
    <3>. QED BY <1>25, <1>28, <3>1
  <2>. QED BY <1>24, <1>28, <2>1, SeqEqual
<1>. QED BY <1>9, <1>10, <1>13, <1>20, <1>22, <1>29 DEF xs, zs, ys, vs

-----------------------------------------------------------------------------
(* The members of a finite set of naturals in their order.                 *)

(* f takes 1..n to S and rises.                                            *)
Rises(n, S, f) ==
  /\ f \in [1..n -> S]
  /\ \A i, j \in 1..n : i < j => f[i] < f[j]

(* A set of such numbers can be put in order.                              *)
LEMMA OrderExists ==
  ASSUME NEW n \in Nat, NEW S \in SUBSET (1..n)
  PROVE  IsFiniteSet(S) /\ Cardinality(S) \in Nat /\ \E f : Rises(Cardinality(S), S, f)
<1>. DEFINE P == {m \in Nat : \A R \in SUBSET (1..m) :
                    /\ IsFiniteSet(R) /\ Cardinality(R) \in Nat
                    /\ \E f : Rises(Cardinality(R), R, f)}
<1>1. 0 \in P
  <2>1. ASSUME NEW R \in SUBSET (1..0)
        PROVE  /\ IsFiniteSet(R) /\ Cardinality(R) \in Nat
               /\ \E f : Rises(Cardinality(R), R, f)
    <3>0. R = {}
      OBVIOUS
    <3>1. R = {} /\ IsFiniteSet(R) /\ Cardinality(R) = 0
      BY <3>0, FS_EmptySet
    <3>2. Rises(0, {}, [i \in {} |-> i])
      BY DEF Rises
    <3>. QED BY <3>1, <3>2
  <2>. QED BY <2>1
<1>2. ASSUME NEW m \in Nat, m \in P PROVE m + 1 \in P
  <2>1. ASSUME NEW R \in SUBSET (1..m + 1)
        PROVE  /\ IsFiniteSet(R) /\ Cardinality(R) \in Nat
               /\ \E f : Rises(Cardinality(R), R, f)
    <3>. DEFINE Q == R \ {m + 1}
    <3>1. Q \in SUBSET (1..m)
      OBVIOUS
    <3>2. IsFiniteSet(Q) /\ Cardinality(Q) \in Nat /\ \E f : Rises(Cardinality(Q), Q, f)
      BY <1>2, <3>1
    <3>3. CASE m + 1 \notin R
      <4>1. Q = R
        BY <3>3
      <4>. QED BY <3>2, <4>1
    <3>4. CASE m + 1 \in R
      <4>1. R = Q \cup {m + 1} /\ m + 1 \notin Q
        BY <3>4
      <4>. DEFINE c == Cardinality(Q)
      <4>. HIDE DEF Q
      <4>2. IsFiniteSet(R) /\ Cardinality(R) = c + 1
        BY <3>2, <4>1, FS_AddElement
      <4>3. PICK f : Rises(c, Q, f)
        BY <3>2
      <4>4. c \in Nat
        BY <3>2
      <4>. HIDE DEF c
      <4>. DEFINE h == [i \in 1..c + 1 |-> IF i = c + 1 THEN m + 1 ELSE f[i]]
      <4>5. ASSUME NEW i \in 1..c PROVE h[i] = f[i] /\ h[i] \in Q /\ h[i] < m + 1
        <5>1. i \in 1..c + 1 /\ i # c + 1
          BY <4>4
        <5>2. f[i] \in Q
          BY <4>3 DEF Rises
        <5>3. h[i] = f[i]
          BY <5>1
        <5>4. f[i] < m + 1
          <6>1. f[i] \in 1..m
            BY <3>1, <5>2
          <6>. QED BY <6>1
        <5>. QED BY <5>2, <5>3, <5>4
      <4>6. h[c + 1] = m + 1
        BY <4>4
      <4>7. h \in [1..c + 1 -> R]
        <5>1. ASSUME NEW i \in 1..c + 1 PROVE (IF i = c + 1 THEN m + 1 ELSE f[i]) \in R
          <6>1. CASE i = c + 1
            BY <4>1, <6>1
          <6>2. CASE i # c + 1
            <7>1. i \in 1..c
              BY <4>4, <6>2
            <7>2. f[i] \in Q
              BY <4>3, <7>1 DEF Rises
            <7>. QED BY <4>1, <6>2, <7>2
          <6>. QED BY <6>1, <6>2
        <5>. QED BY <5>1
      <4>8. ASSUME NEW i \in 1..c + 1, NEW j \in 1..c + 1, i < j PROVE h[i] < h[j]
        <5>1. i \in 1..c
          BY <4>4, <4>8
        <5>2. CASE j = c + 1
          BY <4>5, <4>6, <5>1, <5>2
        <5>3. CASE j # c + 1
          <6>1. j \in 1..c
            BY <4>4, <5>3
          <6>2. f[i] < f[j]
            BY <4>3, <4>8, <5>1, <6>1 DEF Rises
          <6>. QED BY <4>5, <5>1, <6>1, <6>2
        <5>. QED BY <5>2, <5>3
      <4>. HIDE DEF h
      <4>9. Rises(c + 1, R, h)
        BY <4>7, <4>8 DEF Rises
      <4>. QED BY <4>2, <4>4, <4>9
    <3>. QED BY <3>3, <3>4
  <2>. QED BY <2>1
<1>3. n \in P
  <2>. HIDE DEF P
  <2>. QED BY <1>1, <1>2, NaturalInduction
<1>. QED BY <1>3

(* InOrder lists every member of its set once.                             *)
LEMMA InOrderIs ==
  ASSUME NEW n \in Nat, NEW S \in SUBSET (1..n)
  PROVE  /\ Cardinality(S) \in Nat
         /\ InOrder(S) \in [1..Cardinality(S) -> S]
         /\ \A i \in S : \E k \in 1..Cardinality(S) : InOrder(S)[k] = i
<1>. DEFINE c == Cardinality(S)
            f == InOrder(S)
<1>1. IsFiniteSet(S) /\ c \in Nat /\ \E g : Rises(c, S, g)
  BY OrderExists
<1>2. f = CHOOSE g \in [1..c -> S] : \A i, j \in 1..c : i < j => g[i] < g[j]
  BY DEF InOrder
<1>3. \E g \in [1..c -> S] : \A i, j \in 1..c : i < j => g[i] < g[j]
  BY <1>1 DEF Rises
<1>. HIDE DEF f, c
<1>4. f \in [1..c -> S] /\ \A i, j \in 1..c : i < j => f[i] < f[j]
  BY <1>2, <1>3
<1>5. \A i, j \in 1..c : f[i] = f[j] => i = j
  <2>1. ASSUME NEW i \in 1..c, NEW j \in 1..c, i # j PROVE f[i] # f[j]
    <3>0. f[i] \in S /\ f[j] \in S
      BY <1>4
    <3>. DEFINE a == f[i]
                b == f[j]
    <3>. HIDE DEF a, b
    <3>5. a \in S /\ b \in S
      BY <3>0 DEF a, b
    <3>6. a \in Nat /\ b \in Nat
      BY <3>5
    <3>1. f[i] \in Nat /\ f[j] \in Nat
      BY <3>6 DEF a, b
    <3>2. i < j \/ j < i
      BY <1>1, <2>1
    <3>. QED BY <1>4, <3>1, <3>2
  <2>. QED BY <2>1
<1>6. f \in Injection(1..c, S)
  BY <1>4, <1>5 DEF Injection, IsInjective
<1>7. Cardinality(1..c) = c
  BY <1>1, FS_Interval
<1>8. f \in Surjection(1..c, S)
  BY <1>1, <1>6, <1>7, FS_Injection DEF c
<1>9. \A i \in S : \E k \in 1..c : f[k] = i
  BY <1>8 DEF Surjection
<1>. QED BY <1>1, <1>4, <1>9 DEF c, f

(* A list whose indices rise has as many of them as entries.               *)
LEMMA IndicesCounted ==
  ASSUME NEW V, NEW xs \in Seq(V), \A x \in V : x.index \in Nat, StrictlyIncreasing(xs)
  PROVE  Cardinality({x.index : x \in Range(xs)}) = Len(xs)
<1>. DEFINE n == Len(xs)
            S == {x.index : x \in Range(xs)}
            f == [i \in 1..n |-> xs[i].index]
            P == {d \in Nat : \A i \in 1..n : i + d + 1 <= n => f[i] < f[i + d + 1]}
<1>1. n \in Nat /\ DOMAIN xs = 1..n
  BY LenProperties
<1>2. \A i \in 1..n : xs[i] \in V /\ f[i] \in Nat /\ f[i] = xs[i].index
  BY ElementOfSeq
<1>3. \A i \in 1..n - 1 : xs[i].index < xs[i + 1].index
  BY DEF StrictlyIncreasing
<1>. HIDE DEF n
<1>4. \A i \in 1..n - 1 : f[i] < f[i + 1]
  <2>1. ASSUME NEW i \in 1..n - 1 PROVE f[i] < f[i + 1]
    <3>1. i \in 1..n /\ i + 1 \in 1..n
      BY <1>1
    <3>. QED BY <1>2, <1>3, <3>1
  <2>. QED BY <2>1
<1>. HIDE DEF f
<1>5. 0 \in P
  <2>1. ASSUME NEW i \in 1..n, i + 0 + 1 <= n PROVE f[i] < f[i + 0 + 1]
    <3>1. i \in 1..n - 1 /\ i + 0 + 1 = i + 1
      BY <1>1, <2>1
    <3>. QED BY <1>4, <3>1
  <2>. QED BY <2>1
<1>6. ASSUME NEW d \in Nat, d \in P PROVE d + 1 \in P
  <2>1. ASSUME NEW i \in 1..n, i + (d + 1) + 1 <= n PROVE f[i] < f[i + (d + 1) + 1]
    <3>. DEFINE j == i + d + 1
    <3>1. j \in 1..n - 1 /\ j + 1 = i + (d + 1) + 1 /\ j \in 1..n /\ j + 1 \in 1..n
      BY <1>1, <2>1
    <3>2. f[i] < f[j]
      BY <1>6, <3>1
    <3>. HIDE DEF j
    <3>3. f[j] < f[j + 1]
      BY <1>4, <3>1
    <3>4. f[i] \in Nat /\ f[j] \in Nat /\ f[j + 1] \in Nat
      BY <1>2, <3>1
    <3>5. f[i] < f[j + 1]
      BY <3>2, <3>3, <3>4
    <3>. QED BY <3>1, <3>5
  <2>. QED BY <2>1
<1>7. Nat \subseteq P
  <2>. HIDE DEF P
  <2>. QED BY <1>5, <1>6, NaturalInduction
<1>8. \A i, j \in 1..n : i < j => f[i] < f[j]
  <2>1. ASSUME NEW i \in 1..n, NEW j \in 1..n, i < j PROVE f[i] < f[j]
    <3>. DEFINE d == j - i - 1
    <3>1. d \in Nat /\ i + d + 1 = j /\ j <= n
      BY <1>1, <2>1
    <3>. HIDE DEF d
    <3>. QED BY <1>7, <3>1
  <2>. QED BY <2>1
<1>9. \A i, j \in 1..n : f[i] = f[j] => i = j
  <2>1. ASSUME NEW i \in 1..n, NEW j \in 1..n, i # j PROVE f[i] # f[j]
    <3>1. f[i] \in Nat /\ f[j] \in Nat
      BY <1>2
    <3>2. i < j \/ j < i
      BY <1>1, <2>1
    <3>. QED BY <1>8, <3>1, <3>2
  <2>. QED BY <2>1
<1>10. f \in [1..n -> S] /\ \A y \in S : \E i \in 1..n : f[i] = y
  <2>1. ASSUME NEW i \in 1..n PROVE f[i] \in S
    <3>1. xs[i] \in Range(xs)
      BY <1>1 DEF Range
    <3>. QED BY <1>2, <3>1
  <2>2. ASSUME NEW y \in S PROVE \E i \in 1..n : f[i] = y
    <3>1. PICK x \in Range(xs) : y = x.index
      OBVIOUS
    <3>2. PICK i \in 1..n : x = xs[i]
      BY <1>1 DEF Range
    <3>. QED BY <1>2, <3>1, <3>2
  <2>3. f \in [1..n -> S]
    <3>. HIDE DEF S
    <3>. QED BY <2>1 DEF f
  <2>. QED BY <2>2, <2>3
<1>. HIDE DEF S
<1>11. f \in Injection(1..n, S) /\ f \in Surjection(1..n, S)
  BY <1>9, <1>10 DEF Injection, IsInjective, Surjection
<1>12. IsFiniteSet(1..n) /\ Cardinality(1..n) = n
  BY <1>1, FS_Interval
<1>13. Cardinality(S) = n
  BY <1>11, <1>12, FS_Surjection
<1>. QED BY <1>13 DEF S, n

-----------------------------------------------------------------------------
(* What the payer exports.                                                 *)

(* What a string on its way to the payee is made of: bytes, what is the    *)
(* payment's, what comes from elsewhere, and signatures of one digest.     *)
Tokens(digest) ==
  Bytes \cup {Tx("own"), Tx("another"), <<"junk">>, Blank}
    \cup {Commitment(i) : i \in Nat} \cup {FreshKey(i) : i \in Nat}
    \cup {Proof("own", i, Commitment(i), FreshKey(i)) : i \in Nat}
    \cup {CipherKey("own", i) : i \in Nat}
    \cup {Signature(FreshKey(i), digest) : i \in Nat}
    \cup {Signature(ActionKey("own", i), digest) : i \in Nat}

(* Of the tokens, only the bytes read as bytes.                            *)
LEMMA TokensAlphabet == \A digest : Alphabet(Tokens(digest))
<1>. SUFFICES ASSUME NEW digest PROVE Alphabet(Tokens(digest))
  OBVIOUS
<1>1. Bytes \subseteq Tokens(digest)
  BY DEF Tokens
<1>2. ASSUME NEW t \in Tokens(digest), t \notin Bytes PROVE t[1] # "byte"
  BY <1>2 DEF Tokens, Tx, Blank, Commitment, FreshKey, Proof, CipherKey, Signature
<1>. QED BY <1>1, <1>2 DEF Alphabet

(* The digest the payer signs.                                             *)
Made(d) == Digest(d, CoinType(WalletNetwork))

(* d says of the payment what the PCZT does, and is signed for it.         *)
FaithfulSpend(d, k) ==
  LET i == d.spends[k].index + 1
  IN  /\ i \in DOMAIN pczt.spends
      /\ pczt.spends[i].owner = "payer"
      /\ d.profile = Draft1 =>
           /\ d.spends[k].fields = <<Commitment(i), FreshKey(i),
                                     Proof("own", i, Commitment(i), FreshKey(i))>>
           /\ d.spends[k].sig = Signature(FreshKey(i), Made(d))
      /\ d.profile = Ironwood => d.spends[k].sig = Signature(ActionKey("own", i), Made(d))

FaithfulOutput(d, k) ==
  LET i == d.outputs[k].index + 1
  IN  /\ i \in DOMAIN pczt.outputs
      /\ pczt.outputs[i].label /\ pczt.outputs[i].receiver /\ pczt.outputs[i].value = Asked
      /\ d.outputs[k].ock = CipherKey("own", i)

Faithful(d) ==
  /\ IsDisclosure(Tokens(Made(d)), d) /\ WellShaped(d)
  /\ d.tx = Tx("own") /\ d.profile = pczt.pool /\ d.message = plan.message
  /\ ~pczt.elsewhere
  /\ \A k \in 1..Len(d.spends) : FaithfulSpend(d, k)
  /\ \A i \in DOMAIN pczt.spends : pczt.spends[i].value \notin {0, Redacted} =>
       \E k \in 1..Len(d.spends) : d.spends[k].index + 1 = i
  /\ \A k \in 1..Len(d.outputs) : FaithfulOutput(d, k)
  /\ \A i \in DOMAIN pczt.outputs :
       pczt.outputs[i].label /\ pczt.outputs[i].receiver /\ pczt.outputs[i].value = Asked =>
         \E k \in 1..Len(d.outputs) : d.outputs[k].index + 1 = i

(* What a retained PCZT is made of.                                        *)
LEMMA PcztIs ==
  ASSUME pczt \in Pczts
  PROVE  /\ pczt.pool \in {Draft1, Ironwood} /\ pczt.elsewhere \in BOOLEAN
         /\ \E n \in 0..MaxListed : pczt.spends \in [1..n -> SpendKinds]
         /\ \E n \in 0..MaxListed : pczt.outputs \in [1..n -> OutputKinds]
<1>1. /\ pczt \in [pool : {Draft1, Ironwood}, spends : Listed(SpendKinds),
                   outputs : Listed(OutputKinds), elsewhere : BOOLEAN]
  BY DEF Pczts
<1>2. pczt.spends \in Listed(SpendKinds) /\ pczt.outputs \in Listed(OutputKinds)
  BY <1>1
<1>3. \E n \in 0..MaxListed : pczt.spends \in [1..n -> SpendKinds]
  BY <1>2 DEF Listed
<1>4. \E n \in 0..MaxListed : pczt.outputs \in [1..n -> OutputKinds]
  BY <1>2 DEF Listed
<1>. QED BY <1>1, <1>3, <1>4

(* What holds when no error of the export applies.                         *)
LEMMA NoExportErrors ==
  ASSUME ExportErrors = {}
  PROVE  /\ ~Elsewhere /\ Collected # {} /\ TheMatch # {}
         /\ \A i \in Collected : Authorized(pczt.spends[i])
         /\ WellShaped(Unsigned)
<1>1. "ActionsUnsupported" \notin ExportErrors /\ "SpendsMissing" \notin ExportErrors
      /\ "OutputNotOne" \notin ExportErrors /\ "SpendAuthorizingKeyMismatch" \notin ExportErrors
      /\ "Codec" \notin ExportErrors
  OBVIOUS
<1>2. ~Elsewhere
  BY <1>1 DEF ExportErrors
<1>3. Collected # {}
  BY <1>1 DEF ExportErrors
<1>4. TheMatch # {}
  BY <1>1 DEF ExportErrors
<1>5. \A i \in Collected : Authorized(pczt.spends[i])
  BY <1>1 DEF ExportErrors
<1>6. WellShaped(Unsigned)
  BY <1>1 DEF ExportErrors
<1>. QED BY <1>2, <1>3, <1>4, <1>5, <1>6

(* The lists of a disclosure, before it is signed.                         *)
LEMMA UnsignedLists ==
  ASSUME pczt \in Pczts, plan \in Plans, ExportErrors = {}
  PROVE  /\ \E n \in Nat :
              /\ Unsigned.spends \in [1..n -> {UnsignedSpend(i) : i \in Collected}]
              /\ \A i \in Collected : \E k \in 1..n : Unsigned.spends[k] = UnsignedSpend(i)
         /\ \E n \in Nat :
              /\ Unsigned.outputs \in
                   [1..n -> {[index |-> i - 1, ock |-> CipherKey("own", i)] : i \in Matching}]
              /\ \A i \in Matching : \E k \in 1..n : Unsigned.outputs[k].index = i - 1
         /\ Unsigned = [profile |-> plan.profile, tx |-> Tx("own"), message |-> plan.message,
                        spends |-> Unsigned.spends, outputs |-> Unsigned.outputs]
         /\ Collected \subseteq DOMAIN pczt.spends /\ Matching \subseteq DOMAIN pczt.outputs
<1>. DEFINE f == InOrder(Collected)
            g == InOrder(Matching)
            c == Cardinality(Collected)
            m == Cardinality(Matching)
<1>1. Collected \subseteq DOMAIN pczt.spends /\ Matching \subseteq DOMAIN pczt.outputs
  BY DEF Collected, Matching
<1>2. TheMatch = Matching
  BY NoExportErrors DEF TheMatch
<1>3. PICK n \in 0..MaxListed : DOMAIN pczt.spends = 1..n
  BY PcztIs
<1>4. PICK l \in 0..MaxListed : DOMAIN pczt.outputs = 1..l
  BY PcztIs
<1>5. n \in Nat /\ l \in Nat
  BY DisclosureAssumption, PowersGrow
<1>6. /\ c \in Nat /\ f \in [1..c -> Collected]
      /\ \A i \in Collected : \E k \in 1..c : f[k] = i
  <2>1. Collected \in SUBSET (1..n)
    BY <1>1, <1>3
  <2>. QED BY <1>5, <2>1, InOrderIs
<1>7. /\ m \in Nat /\ g \in [1..m -> Matching]
      /\ \A i \in Matching : \E k \in 1..m : g[k] = i
  <2>1. Matching \in SUBSET (1..l)
    BY <1>1, <1>4
  <2>. QED BY <1>5, <2>1, InOrderIs
<1>8. /\ Unsigned.spends = [k \in DOMAIN f |-> UnsignedSpend(f[k])]
      /\ Unsigned.outputs = [k \in DOMAIN g |-> [index |-> g[k] - 1, ock |-> CipherKey("own", g[k])]]
      /\ Unsigned = [profile |-> plan.profile, tx |-> Tx("own"), message |-> plan.message,
                     spends |-> Unsigned.spends, outputs |-> Unsigned.outputs]
  BY <1>2 DEF Unsigned
<1>. HIDE DEF f, g, c, m
<1>. DEFINE X == {UnsignedSpend(i) : i \in Collected}
            Y == {[index |-> i - 1, ock |-> CipherKey("own", i)] : i \in Matching}
<1>9. /\ Unsigned.spends \in [1..c -> X]
      /\ \A i \in Collected : \E k \in 1..c : Unsigned.spends[k] = UnsignedSpend(i)
  <2>1. DOMAIN f = 1..c
    BY <1>6
  <2>2. Unsigned.spends = [k \in 1..c |-> UnsignedSpend(f[k])]
    BY <1>8, <2>1
  <2>3. \A k \in 1..c : f[k] \in Collected
    BY <1>6
  <2>4. \A k \in 1..c : UnsignedSpend(f[k]) \in X
    BY <2>3
  <2>. HIDE DEF X
  <2>5. Unsigned.spends \in [1..c -> X]
    BY <2>2, <2>4
  <2>6. \A i \in Collected : \E k \in 1..c : Unsigned.spends[k] = UnsignedSpend(i)
    BY <1>6, <2>2
  <2>. QED BY <2>5, <2>6
<1>10. /\ Unsigned.outputs \in [1..m -> Y]
       /\ \A i \in Matching : \E k \in 1..m : Unsigned.outputs[k].index = i - 1
  <2>1. DOMAIN g = 1..m
    BY <1>7
  <2>2. Unsigned.outputs = [k \in 1..m |-> [index |-> g[k] - 1, ock |-> CipherKey("own", g[k])]]
    BY <1>8, <2>1
  <2>3. \A k \in 1..m : g[k] \in Matching
    BY <1>7
  <2>4. \A k \in 1..m : [index |-> g[k] - 1, ock |-> CipherKey("own", g[k])] \in Y
    BY <2>3
  <2>. HIDE DEF Y
  <2>5. Unsigned.outputs \in [1..m -> Y]
    BY <2>2, <2>4
  <2>6. \A i \in Matching : \E k \in 1..m : Unsigned.outputs[k].index = i - 1
    BY <1>7, <2>2
  <2>. QED BY <2>5, <2>6
<1>11. \E w \in Nat :
              /\ Unsigned.spends \in [1..w -> X]
              /\ \A i \in Collected : \E k \in 1..w : Unsigned.spends[k] = UnsignedSpend(i)
  <2>. HIDE DEF X
  <2>. QED BY <1>6, <1>9
<1>12. \E w \in Nat :
              /\ Unsigned.outputs \in [1..w -> Y]
              /\ \A i \in Matching : \E k \in 1..w : Unsigned.outputs[k].index = i - 1
  <2>. HIDE DEF Y
  <2>. QED BY <1>7, <1>10
<1>. QED BY <1>1, <1>8, <1>11, <1>12

(* A spend of the export is one, but for a signature that is blank.        *)
LEMMA UnsignedSpendIs ==
  ASSUME pczt \in Pczts, plan \in Plans, NEW digest, NEW i \in DOMAIN pczt.spends
  PROVE  UnsignedSpend(i) \in SpendsOver(Tokens(digest), plan.profile)
<1>1. i \in 1..MaxListed
  <2>1. PICK n \in 0..MaxListed : DOMAIN pczt.spends = 1..n
    BY PcztIs
  <2>2. MaxListed \in Nat
    BY DisclosureAssumption, PowersGrow
  <2>. QED BY <2>1, <2>2
<1>2. i \in Nat /\ i - 1 \in 0..MaxIndex
  BY SMTT(30), <1>1, DisclosureAssumption, PowersGrow
<1>3. plan.profile \in {Draft1, Ironwood}
  BY DEF Plans
<1>. DEFINE T == Tokens(digest)
            q == <<Commitment(i), FreshKey(i), Proof("own", i, Commitment(i), FreshKey(i))>>
<1>4. /\ Commitment(i) \in T /\ FreshKey(i) \in T /\ Blank \in T
      /\ Proof("own", i, Commitment(i), FreshKey(i)) \in T
  BY <1>2 DEF Tokens
<1>. HIDE DEF T
<1>5. q \in Seq(T) /\ Len(q) = 3 /\ <<>> \in Seq(T) /\ Len(<<>>) = 0
  BY <1>4
<1>6. UnsignedSpend(i).fields \in {r \in Seq(T) : Len(r) = FieldsOf(plan.profile)}
  <2>1. CASE plan.profile = Draft1
    <3>1. UnsignedSpend(i).fields = q /\ FieldsOf(plan.profile) = 3
      BY <2>1 DEF UnsignedSpend, FieldsOf
    <3>. QED BY <1>5, <3>1
  <2>2. CASE plan.profile # Draft1
    <3>1. UnsignedSpend(i).fields = <<>> /\ FieldsOf(plan.profile) = 0
      BY <2>2 DEF UnsignedSpend, FieldsOf
    <3>. QED BY <1>5, <3>1
  <2>. QED BY <2>1, <2>2
<1>7. /\ UnsignedSpend(i) = [index |-> i - 1, fields |-> UnsignedSpend(i).fields, sig |-> Blank]
  BY DEF UnsignedSpend
<1>. QED BY <1>2, <1>4, <1>6, <1>7 DEF SpendsOver, T

(* What is to be signed is a disclosure already.                           *)
LEMMA UnsignedIs ==
  ASSUME pczt \in Pczts, plan \in Plans, ExportErrors = {}, NEW digest
  PROVE  IsDisclosure(Tokens(digest), Unsigned)
<1>. DEFINE T == Tokens(digest)
            d == Unsigned
<1>1. /\ d = [profile |-> plan.profile, tx |-> Tx("own"), message |-> plan.message,
              spends |-> d.spends, outputs |-> d.outputs]
      /\ Collected \subseteq DOMAIN pczt.spends /\ Matching \subseteq DOMAIN pczt.outputs
  BY UnsignedLists
<1>2. d.profile = plan.profile /\ d.tx = Tx("own") /\ d.message = plan.message
  BY <1>1
<1>3. plan.profile \in {Draft1, Ironwood} /\ plan.message \in Messages
  BY DEF Plans
<1>4. plan.message \in Seq(Bytes) /\ Bytes \subseteq T
  BY <1>3, DisclosureAssumption DEF Bytes, Tokens
<1>5. plan.message \in Seq(T)
  BY <1>4, SeqMonotonic
<1>6. WellShaped(d)
  BY NoExportErrors
<1>7. d.spends \in Seq(SpendsOver(T, plan.profile))
  <2>1. PICK n \in Nat : d.spends \in [1..n -> {UnsignedSpend(i) : i \in Collected}]
    BY UnsignedLists
  <2>2. \A i \in Collected : UnsignedSpend(i) \in SpendsOver(T, plan.profile)
    BY <1>1, UnsignedSpendIs
  <2>. HIDE DEF d, T
  <2>3. {UnsignedSpend(i) : i \in Collected} \subseteq SpendsOver(T, plan.profile)
    BY <2>2
  <2>. DEFINE V == SpendsOver(T, plan.profile)
              X == {UnsignedSpend(i) : i \in Collected}
  <2>. HIDE DEF V, X
  <2>4. d.spends \in [1..n -> V]
    BY <2>1, <2>3 DEF V, X
  <2>. QED BY <2>4 DEF V
<1>8. d.outputs \in Seq(OutputsOver(T))
  <2>1. PICK n \in Nat :
          d.outputs \in [1..n -> {[index |-> i - 1, ock |-> CipherKey("own", i)] : i \in Matching}]
    BY UnsignedLists
  <2>2. ASSUME NEW i \in Matching
        PROVE  [index |-> i - 1, ock |-> CipherKey("own", i)] \in OutputsOver(T)
    <3>1. PICK l \in 0..MaxListed : DOMAIN pczt.outputs = 1..l
      BY PcztIs
    <3>2. MaxListed \in Nat
      BY DisclosureAssumption, PowersGrow
    <3>3. i \in 1..MaxListed
      BY <1>1, <3>1, <3>2
    <3>4. i \in Nat /\ i - 1 \in 0..MaxIndex
      BY <3>3, DisclosureAssumption, PowersGrow
    <3>5. CipherKey("own", i) \in T
      BY <3>4 DEF Tokens
    <3>. QED BY <3>4, <3>5 DEF OutputsOver
  <2>. HIDE DEF d, T
  <2>. DEFINE V == OutputsOver(T)
              X == {[index |-> i - 1, ock |-> CipherKey("own", i)] : i \in Matching}
  <2>3. X \subseteq V
    BY <2>2
  <2>. HIDE DEF V, X
  <2>4. d.outputs \in [1..n -> V]
    BY <2>1, <2>3 DEF X
  <2>. QED BY <2>4 DEF V
<1>9. Tx("own") \in T
  BY DEF Tokens
<1>10. /\ Len(d.message) \in 0..MaxMessage /\ Len(d.spends) \in 0..MaxEntries
       /\ Len(d.outputs) \in 0..MaxEntries
  <2>1. Len(d.message) <= MaxMessage /\ Len(d.spends) <= MaxEntries /\ Len(d.outputs) <= MaxEntries
    BY <1>6 DEF WellShaped
  <2>2. Len(d.message) \in Nat /\ Len(d.spends) \in Nat /\ Len(d.outputs) \in Nat
    BY <1>2, <1>5, <1>7, <1>8, LenProperties
  <2>. QED BY SMTT(30), <2>1, <2>2, PowersGrow
<1>. HIDE DEF d
<1>. QED BY <1>1, <1>2, <1>3, <1>5, <1>7, <1>8, <1>9, <1>10 DEF IsDisclosure, d

(* Signing leaves everything but the signatures, and what is signed, ...   *)
LEMMA SignedIs ==
  ASSUME NEW T, NEW d, IsDisclosure(T, d), WellShaped(d)
  PROVE  LET e == Signed(d)
         IN  /\ e = [profile |-> d.profile, tx |-> d.tx, message |-> d.message,
                     spends |-> e.spends, outputs |-> d.outputs]
             /\ Len(e.spends) = Len(d.spends)
             /\ e.spends = [k \in 1..Len(d.spends) |->
                  [index |-> d.spends[k].index, fields |-> d.spends[k].fields,
                   sig |-> Signature(SigningKey(d.spends[k]), Made(d))]]
             /\ WellShaped(e)
             /\ UnsignedBytes(e) = UnsignedBytes(d)
             /\ Made(e) = Made(d)
<1>. DEFINE e == Signed(d)
            n == Len(d.spends)
            p == d.profile
            sg == [k \in 1..n |-> Signature(SigningKey(d.spends[k]), Made(d))]
<1>1. /\ d = [profile |-> p, tx |-> d.tx, message |-> d.message,
              spends |-> d.spends, outputs |-> d.outputs]
      /\ d.spends \in Seq(SpendsOver(T, p)) /\ p \in {Draft1, Ironwood}
      /\ n \in 0..MaxEntries
  BY DEF IsDisclosure
<1>2. DOMAIN d.spends = 1..n /\ n \in Nat
  BY <1>1, LenProperties
<1>3. e = [d EXCEPT !.spends = [k \in DOMAIN d.spends |->
              [d.spends[k] EXCEPT !.sig = Signature(SigningKey(d.spends[k]), Made(d))]]]
  BY DEF Signed, Made
<1>4. \A k \in 1..n : d.spends[k] \in SpendsOver(T, p)
  BY <1>1, ElementOfSeq
<1>5. \A k \in 1..n :
        [d.spends[k] EXCEPT !.sig = Signature(SigningKey(d.spends[k]), Made(d))]
          = [index |-> d.spends[k].index, fields |-> d.spends[k].fields, sig |-> sg[k]]
  <2>1. ASSUME NEW k \in 1..n
        PROVE  [d.spends[k] EXCEPT !.sig = Signature(SigningKey(d.spends[k]), Made(d))]
                 = [index |-> d.spends[k].index, fields |-> d.spends[k].fields, sig |-> sg[k]]
    <3>. DEFINE x == d.spends[k]
                v == Signature(SigningKey(d.spends[k]), Made(d))
    <3>1. x \in SpendsOver(T, p)
      BY <1>4
    <3>2. v = sg[k]
      OBVIOUS
    <3>. HIDE DEF v, sg
    <3>3. [x EXCEPT !.sig = v] = [index |-> x.index, fields |-> x.fields, sig |-> v]
      <4>. HIDE DEF x
      <4>. QED BY <3>1 DEF SpendsOver
    <3>. QED BY <3>2, <3>3 DEF v
  <2>. QED BY <2>1
<1>. DEFINE zs == [k \in 1..n |->
              [index |-> d.spends[k].index, fields |-> d.spends[k].fields, sig |-> sg[k]]]
<1>6. [k \in DOMAIN d.spends |->
              [d.spends[k] EXCEPT !.sig = Signature(SigningKey(d.spends[k]), Made(d))]] = zs
  BY <1>2, <1>5
<1>7. /\ e = [profile |-> p, tx |-> d.tx, message |-> d.message,
             spends |-> zs, outputs |-> d.outputs]
  <2>. HIDE DEF zs, e
  <2>1. e = [d EXCEPT !.spends = zs]
    BY <1>3, <1>6
  <2>. QED BY <1>1, <2>1
<1>8. /\ e.profile = p /\ e.tx = d.tx /\ e.message = d.message /\ e.spends = zs
      /\ e.outputs = d.outputs
  <2>. HIDE DEF zs, e
  <2>. QED BY <1>7
<1>9. zs \in Seq([index : {d.spends[k].index : k \in 1..n}, fields : {d.spends[k].fields : k \in 1..n},
                  sig : {sg[k] : k \in 1..n}])
      /\ Len(zs) = n
  BY <1>2
<1>10. \A k \in 1..n : zs[k].index = d.spends[k].index /\ zs[k].fields = d.spends[k].fields
  BY <1>2
<1>11. WellShaped(e)
  <2>1. /\ Len(d.message) <= MaxMessage /\ n <= MaxEntries /\ Len(d.outputs) <= MaxEntries
        /\ d.spends # <<>> /\ StrictlyIncreasing(d.spends) /\ StrictlyIncreasing(d.outputs)
    BY DEF WellShaped
  <2>2. zs # <<>>
    <3>1. n # 0
      BY <1>1, <2>1, EmptySeq
    <3>. HIDE DEF zs
    <3>. QED BY <1>9, <3>1, EmptySeq
  <2>3. StrictlyIncreasing(zs)
    <3>. HIDE DEF zs, n
    <3>1. ASSUME NEW i \in 1..n - 1 PROVE zs[i].index < zs[i + 1].index
      <4>1. i \in 1..n /\ i + 1 \in 1..n
        BY <1>2
      <4>2. d.spends[i].index < d.spends[i + 1].index
        BY <2>1 DEF StrictlyIncreasing, n
      <4>. QED BY <1>10, <4>1, <4>2
    <3>. QED BY <1>9, <3>1 DEF StrictlyIncreasing
  <2>. HIDE DEF zs, e
  <2>. QED BY <1>8, <1>9, <2>1, <2>2, <2>3 DEF WellShaped
<1>12. UnsignedBytes(e) = UnsignedBytes(d)
  <2>1. \A k \in 1..n : SpendBytes(p, zs[k], FALSE) = SpendBytes(p, d.spends[k], FALSE)
    <3>. HIDE DEF zs, n
    <3>. QED BY <1>10 DEF SpendBytes
  <2>. HIDE DEF zs, e
  <2>2. [k \in 1..Len(zs) |-> SpendBytes(p, zs[k], FALSE)]
          = [k \in 1..n |-> SpendBytes(p, d.spends[k], FALSE)]
    <3>. HIDE DEF n
    <3>. QED BY <1>9, <2>1
  <2>3. Body(e, FALSE) = Body(d, FALSE)
    BY ZenonT(40), <1>8, <1>9, <2>2 DEF Body
  <2>4. Header(e) = Header(d)
    BY <1>8 DEF Header
  <2>. QED BY <2>3, <2>4 DEF UnsignedBytes
<1>13. Made(e) = Made(d)
  BY <1>12 DEF Made, Digest
<1>14. zs = [k \in 1..Len(d.spends) |->
                  [index |-> d.spends[k].index, fields |-> d.spends[k].fields,
                   sig |-> Signature(SigningKey(d.spends[k]), Made(d))]]
  OBVIOUS
<1>. HIDE DEF e, zs
<1>. QED BY <1>7, <1>8, <1>9, <1>11, <1>12, <1>13, <1>14 DEF e

(* What export_payment_disclosure signs, when no error applies, is         *)
(* faithful to the retained PCZT: every spend of value on record is in it  *)
(* and is the payer's, and its outputs are those that match the request.   *)
THEOREM ExportFaithful ==
  ASSUME pczt \in Pczts, plan \in Plans, ExportErrors = {}
  PROVE  Faithful(Signed(Unsigned))
<1>. DEFINE d == Unsigned
            e == Signed(d)
            g == Made(d)
            T == Tokens(g)
            p == plan.profile
            n == Len(d.spends)
<1>1. IsDisclosure(T, d) /\ WellShaped(d)
  BY UnsignedIs, NoExportErrors
<1>2. /\ e = [profile |-> d.profile, tx |-> d.tx, message |-> d.message,
              spends |-> e.spends, outputs |-> d.outputs]
      /\ Len(e.spends) = n
      /\ e.spends = [k \in 1..n |->
           [index |-> d.spends[k].index, fields |-> d.spends[k].fields,
            sig |-> Signature(SigningKey(d.spends[k]), g)]]
      /\ WellShaped(e)
      /\ Made(e) = g
  BY <1>1, SignedIs
<1>3. /\ d.profile = p /\ d.tx = Tx("own") /\ d.message = plan.message
      /\ Collected \subseteq DOMAIN pczt.spends /\ Matching \subseteq DOMAIN pczt.outputs
  <2>1. d = [profile |-> p, tx |-> Tx("own"), message |-> plan.message,
             spends |-> d.spends, outputs |-> d.outputs]
    BY UnsignedLists
  <2>. HIDE DEF d
  <2>2. d.profile = p /\ d.tx = Tx("own") /\ d.message = plan.message
    BY <2>1
  <2>. QED BY <2>2, UnsignedLists
<1>4. p \in {Draft1, Ironwood}
  BY DEF Plans
<1>5. /\ \A k \in 1..n : \E i \in Collected : d.spends[k] = UnsignedSpend(i)
      /\ \A i \in Collected : \E k \in 1..n : d.spends[k] = UnsignedSpend(i)
  <2>1. PICK m \in Nat :
              /\ d.spends \in [1..m -> {UnsignedSpend(i) : i \in Collected}]
              /\ \A i \in Collected : \E k \in 1..m : d.spends[k] = UnsignedSpend(i)
    BY UnsignedLists
  <2>. HIDE DEF d
  <2>2. n = m
    <3>1. d.spends \in Seq(SpendsOver(T, d.profile))
      BY <1>1 DEF IsDisclosure
    <3>2. DOMAIN d.spends = 1..n /\ n \in Nat
      BY <3>1, LenProperties
    <3>3. DOMAIN d.spends = 1..m
      BY <2>1
    <3>. HIDE DEF n
    <3>. QED BY <3>2, <3>3
  <2>3. \A k \in 1..n : d.spends[k] \in {UnsignedSpend(i) : i \in Collected}
    BY <2>1, <2>2
  <2>. QED BY <2>1, <2>2, <2>3
<1>6. /\ \A k \in 1..Len(d.outputs) : \E i \in Matching :
            d.outputs[k] = [index |-> i - 1, ock |-> CipherKey("own", i)]
      /\ \A i \in Matching : \E k \in 1..Len(d.outputs) : d.outputs[k].index = i - 1
  <2>. DEFINE l == Len(d.outputs)
              Y == {[index |-> i - 1, ock |-> CipherKey("own", i)] : i \in Matching}
  <2>1. PICK m \in Nat :
              /\ d.outputs \in [1..m -> Y]
              /\ \A i \in Matching : \E k \in 1..m : d.outputs[k].index = i - 1
    BY UnsignedLists
  <2>. HIDE DEF d
  <2>2. l = m
    <3>1. d.outputs \in Seq(OutputsOver(T))
      BY <1>1 DEF IsDisclosure
    <3>2. DOMAIN d.outputs = 1..l /\ l \in Nat
      BY <3>1, LenProperties
    <3>. HIDE DEF Y
    <3>3. DOMAIN d.outputs = 1..m
      BY <2>1
    <3>. HIDE DEF l
    <3>. QED BY <3>2, <3>3
  <2>3. \A k \in 1..l : d.outputs[k] \in Y
    <3>. HIDE DEF Y
    <3>. QED BY <2>1, <2>2
  <2>. QED BY <2>1, <2>2, <2>3
<1>7. /\ Collected # {} /\ ~Elsewhere
      /\ \A i \in Collected : pczt.spends[i].owner = "payer"
  BY NoExportErrors DEF Authorized
<1>8. p = pczt.pool /\ ~pczt.elsewhere
  <2>1. pczt.spends \o pczt.outputs # <<>>
    <3>1. PICK m \in 0..MaxListed : pczt.spends \in [1..m -> SpendKinds]
      BY PcztIs
    <3>2. PICK l \in 0..MaxListed : pczt.outputs \in [1..l -> OutputKinds]
      BY PcztIs
    <3>3. m \in Nat /\ l \in Nat
      BY DisclosureAssumption, PowersGrow
    <3>4. m # 0
      BY <1>3, <1>7, <3>1
    <3>5. pczt.spends \in Seq(SpendKinds \cup OutputKinds)
      BY <3>1, <3>3
    <3>6. pczt.outputs \in Seq(SpendKinds \cup OutputKinds)
      BY <3>2, <3>3
    <3>7. Len(pczt.spends) = m
      BY <3>1, <3>3, <3>5, LenProperties
    <3>8. Len(pczt.spends \o pczt.outputs) = m + Len(pczt.outputs) /\ Len(pczt.outputs) \in Nat
      BY <3>5, <3>6, <3>7, ConcatLength, LenProperties
    <3>9. Len(pczt.spends \o pczt.outputs) # 0
      BY <3>3, <3>4, <3>8
    <3>10. Len(<<>>) = 0
      OBVIOUS
    <3>. QED BY <3>9, <3>10
  <2>. QED BY <1>7, <2>1 DEF Elsewhere
<1>9. \A i \in Collected \cup Matching : i \in Nat
  <2>1. PICK m \in 0..MaxListed : DOMAIN pczt.spends = 1..m
    BY PcztIs
  <2>2. PICK l \in 0..MaxListed : DOMAIN pczt.outputs = 1..l
    BY PcztIs
  <2>. QED BY <1>3, <2>1, <2>2
<1>10. ASSUME NEW i \in Collected
       PROVE  /\ UnsignedSpend(i).index = i - 1
              /\ i - 1 + 1 = i
              /\ p = Draft1 => /\ SigningKey(UnsignedSpend(i)) = FreshKey(i)
                               /\ UnsignedSpend(i).fields =
                                    <<Commitment(i), FreshKey(i),
                                      Proof("own", i, Commitment(i), FreshKey(i))>>
              /\ p = Ironwood => SigningKey(UnsignedSpend(i)) = ActionKey("own", i)
              /\ Signature(SigningKey(UnsignedSpend(i)), g) \in T
  <2>1. i \in Nat /\ i - 1 + 1 = i
    BY <1>9
  <2>2. UnsignedSpend(i).index = i - 1
    BY DEF UnsignedSpend
  <2>3. p = Draft1 => /\ SigningKey(UnsignedSpend(i)) = FreshKey(i)
                      /\ UnsignedSpend(i).fields =
                           <<Commitment(i), FreshKey(i),
                             Proof("own", i, Commitment(i), FreshKey(i))>>
    BY DEF UnsignedSpend, SigningKey
  <2>4. p = Ironwood => SigningKey(UnsignedSpend(i)) = ActionKey("own", i)
    BY <2>1, <2>2 DEF SigningKey, Draft1, Ironwood
  <2>. HIDE DEF g
  <2>5. Signature(FreshKey(i), g) \in T /\ Signature(ActionKey("own", i), g) \in T
    BY <2>1 DEF Tokens
  <2>. HIDE DEF T, p
  <2>. QED BY <1>4, <2>1, <2>2, <2>3, <2>4, <2>5
<1>. HIDE DEF d, g, T, p, n, e
<1>11. ASSUME NEW k \in 1..n
       PROVE  \E i \in Collected :
                /\ d.spends[k] = UnsignedSpend(i)
                /\ e.spends[k] = [index |-> i - 1, fields |-> UnsignedSpend(i).fields,
                                  sig |-> Signature(SigningKey(UnsignedSpend(i)), g)]
  BY <1>2, <1>5, <1>10
<1>12. /\ e.profile = p /\ e.tx = Tx("own") /\ e.message = plan.message /\ e.outputs = d.outputs
       /\ e = [profile |-> e.profile, tx |-> e.tx, message |-> e.message,
               spends |-> e.spends, outputs |-> e.outputs]
  BY <1>2, <1>3
<1>13. IsDisclosure(T, e)
  <2>1. /\ d.tx \in T /\ d.message \in Seq(T) /\ Len(d.message) \in 0..MaxMessage
        /\ d.spends \in Seq(SpendsOver(T, p)) /\ n \in 0..MaxEntries
        /\ d.outputs \in Seq(OutputsOver(T)) /\ Len(d.outputs) \in 0..MaxEntries
    BY <1>1, <1>3 DEF IsDisclosure, n
  <2>2. n \in Nat
    BY <2>1, LenProperties DEF n
  <2>3. \A k \in 1..n : e.spends[k] \in SpendsOver(T, p)
    <3>1. ASSUME NEW k \in 1..n PROVE e.spends[k] \in SpendsOver(T, p)
      <4>1. PICK i \in Collected :
                /\ d.spends[k] = UnsignedSpend(i)
                /\ e.spends[k] = [index |-> i - 1, fields |-> UnsignedSpend(i).fields,
                                  sig |-> Signature(SigningKey(UnsignedSpend(i)), g)]
        BY <1>11
      <4>2. d.spends[k] \in SpendsOver(T, p)
        BY <2>1, ElementOfSeq DEF n
      <4>3. UnsignedSpend(i).index \in 0..MaxIndex /\ UnsignedSpend(i).fields \in
              {f \in Seq(T) : Len(f) = FieldsOf(p)}
        BY <4>1, <4>2 DEF SpendsOver
      <4>. QED BY <1>10, <4>1, <4>3 DEF SpendsOver
    <3>. QED BY <3>1
  <2>4. e.spends \in Seq(SpendsOver(T, p))
    <3>. DEFINE V == SpendsOver(T, p)
                z == e.spends
    <3>1. z = [k \in 1..n |-> z[k]] /\ \A k \in 1..n : z[k] \in V
      BY <1>2, <2>3
    <3>. HIDE DEF V, z
    <3>2. z \in [1..n -> V]
      BY <3>1
    <3>3. z \in Seq(V)
      BY SMTT(30), <2>2, <3>2
    <3>. QED BY <3>3 DEF V, z
  <2>. QED BY <1>2, <1>3, <1>4, <1>12, <2>1, <2>4 DEF IsDisclosure
<1>14. ASSUME NEW k \in 1..Len(e.spends) PROVE FaithfulSpend(e, k)
  <2>1. k \in 1..n
    BY <1>2
  <2>2. PICK i \in Collected :
                /\ d.spends[k] = UnsignedSpend(i)
                /\ e.spends[k] = [index |-> i - 1, fields |-> UnsignedSpend(i).fields,
                                  sig |-> Signature(SigningKey(UnsignedSpend(i)), g)]
    BY <1>11, <2>1
  <2>3. e.spends[k].index + 1 = i
    BY <1>10, <2>2
  <2>4. i \in DOMAIN pczt.spends /\ pczt.spends[i].owner = "payer"
    BY <1>3, <1>7
  <2>5. p = Draft1 =>
           /\ e.spends[k].fields = <<Commitment(i), FreshKey(i),
                                     Proof("own", i, Commitment(i), FreshKey(i))>>
           /\ e.spends[k].sig = Signature(FreshKey(i), g)
    BY <1>10, <2>2
  <2>6. p = Ironwood => e.spends[k].sig = Signature(ActionKey("own", i), g)
    BY <1>10, <2>2
  <2>. QED BY <1>2, <1>12, <2>3, <2>4, <2>5, <2>6 DEF FaithfulSpend
<1>15. ASSUME NEW i \in DOMAIN pczt.spends, pczt.spends[i].value \notin {0, Redacted}
       PROVE  \E k \in 1..Len(e.spends) : e.spends[k].index + 1 = i
  <2>1. i \in Collected
    BY <1>15 DEF Collected
  <2>2. PICK k \in 1..n : d.spends[k] = UnsignedSpend(i)
    BY <1>5, <2>1
  <2>3. e.spends[k].index = d.spends[k].index
    BY <1>2, <2>2
  <2>4. e.spends[k].index + 1 = i
    BY <1>10, <2>1, <2>2, <2>3
  <2>. QED BY <1>2, <2>4
<1>16. ASSUME NEW k \in 1..Len(e.outputs) PROVE FaithfulOutput(e, k)
  <2>1. PICK i \in Matching :
            e.outputs[k] = [index |-> i - 1, ock |-> CipherKey("own", i)]
    BY <1>6, <1>12
  <2>2. e.outputs[k].index + 1 = i /\ e.outputs[k].ock = CipherKey("own", i)
    BY <1>9, <2>1
  <2>3. i \in DOMAIN pczt.outputs /\ pczt.outputs[i].label /\ pczt.outputs[i].receiver
        /\ pczt.outputs[i].value = Asked
    BY DEF Matching
  <2>. QED BY <2>2, <2>3 DEF FaithfulOutput
<1>17. ASSUME NEW i \in DOMAIN pczt.outputs,
              pczt.outputs[i].label /\ pczt.outputs[i].receiver /\ pczt.outputs[i].value = Asked
       PROVE  \E k \in 1..Len(e.outputs) : e.outputs[k].index + 1 = i
  <2>1. i \in Matching
    BY <1>17 DEF Matching
  <2>2. PICK k \in 1..Len(d.outputs) : d.outputs[k].index = i - 1
    BY <1>6, <2>1
  <2>3. i - 1 + 1 = i
    BY <1>9, <2>1
  <2>. QED BY <1>12, <2>2, <2>3
<1>18. Faithful(e)
  BY <1>2, <1>8, <1>12, <1>13, <1>14, <1>15, <1>16, <1>17 DEF Faithful, T
<1>. QED BY <1>18 DEF e, d

-----------------------------------------------------------------------------
(* The way to the payee, and the verdict.                                  *)

(* An altered string is made of the same tokens.                           *)
LEMMA AlteredIs ==
  ASSUME NEW digest, NEW s \in Seq(Tokens(digest)), s # <<>>, NEW t \in Altered(s)
  PROVE  t \in Seq(Tokens(digest))
<1>. DEFINE T == Tokens(digest)
            n == Len(s)
<1>1. /\ Byte(0) \in T /\ Byte(Base - 3) \in T /\ Foreign \subseteq T
  <2>1. 0 \in 0..Base - 1 /\ Base - 3 \in 0..Base - 1
    BY PowersGrow
  <2>2. Byte(0) \in Bytes /\ Byte(Base - 3) \in Bytes
    BY <2>1 DEF Bytes
  <2>3. Foreign = Bytes \cup {Tx("another"), <<"junk">>}
    BY DEF Foreign, Bytes
  <2>. QED BY <2>2, <2>3 DEF Tokens
<1>2. s \in Seq(T) /\ s # <<>>
  OBVIOUS
<1>3. t = Front(s) \/ t = Append(s, Byte(0))
      \/ (\E i \in DOMAIN s, token \in Foreign : t = [s EXCEPT ![i] = token])
      \/ (\E i \in DOMAIN s : IsByteAt(s, i) /\ t = Widened(s, i))
  BY DEF Altered
<1>. HIDE DEF T
<1>4. n \in Nat /\ n # 0 /\ DOMAIN s = 1..n
  BY <1>2, LenProperties, EmptySeq
<1>5. CASE t = Front(s)
  <2>1. t = SubSeq(s, 1, n - 1)
    BY <1>5 DEF Front
  <2>3. SubSeq(s, 1, n - 1) \in Seq(T)
    BY <1>2, <1>4, SubSeqProperties
  <2>. QED BY <2>1, <2>3 DEF T
<1>6. CASE t = Append(s, Byte(0))
  <2>1. t \in Seq(T)
    BY <1>1, <1>2, <1>6
  <2>. QED BY <2>1 DEF T
<1>7. ASSUME NEW i \in DOMAIN s, NEW token \in Foreign, t = [s EXCEPT ![i] = token]
      PROVE  t \in Seq(T)
  <2>1. token \in T
    BY <1>1
  <2>. QED BY <1>2, <1>7, <2>1
<1>8. ASSUME NEW i \in DOMAIN s, IsByteAt(s, i), t = Widened(s, i)
      PROVE  t \in Seq(T)
  <2>. DEFINE a == SubSeq(s, 1, i - 1)
              b == <<Byte(Base - 3), s[i], Byte(0)>>
              c == SubSeq(s, i + 1, n)
  <2>1. t = (a \o b) \o c
    BY <1>8 DEF Widened
  <2>2. i \in 1..n
    BY <1>4
  <2>3. a \in Seq(T) /\ c \in Seq(T)
    <3>3. a \in Seq(T)
      BY <1>2, <1>4, <2>2, SubSeqProperties
    <3>4. c \in Seq(T)
      BY <1>2, <1>4, <2>2, SubSeqProperties
    <3>. QED BY <3>3, <3>4
  <2>4. b \in Seq(T)
    <3>1. s[i] \in T
      BY <1>2, <2>2
    <3>. QED BY <1>1, <3>1
  <2>. HIDE DEF a, b, c
  <2>5. a \o b \in Seq(T)
    BY <2>3, <2>4, ConcatLength
  <2>6. (a \o b) \o c \in Seq(T)
    BY <2>3, <2>5, ConcatLength
  <2>. QED BY <2>1, <2>6
<1>. QED BY <1>3, <1>5, <1>6, <1>7, <1>8 DEF T

(* No error applies.                                                       *)
Passes(d, network, tx) ==
  /\ d.tx = Tx(tx) /\ HasBundle(tx, d.profile)
  /\ \A k \in 1..Len(d.spends) :
       SpendVerifies(d, d.spends[k], tx, Digest(d, CoinType(network)))
  /\ \A k \in 1..Len(d.outputs) : OutputRecovers(d.outputs[k], tx)

(* verify_disclosure returns no error when none of its checks fails.       *)
LEMMA VerifiesIs ==
  ASSUME NEW T, NEW d, IsDisclosure(T, d), NEW network, NEW tx
  PROVE  Verifies(d, network, tx) <=> Passes(d, network, tx)
<1>1. DOMAIN d.spends = 1..Len(d.spends) /\ DOMAIN d.outputs = 1..Len(d.outputs)
  BY LenProperties DEF IsDisclosure
<1>. DEFINE E == VerificationErrors(d, network, tx)
<1>2. /\ "TransactionIdMismatch" \in E <=> d.tx # Tx(tx)
      /\ "BundleMissing" \in E <=> ~HasBundle(tx, d.profile)
      /\ "SpendAuthorityInvalid" \in E <=>
           \E k \in DOMAIN d.spends :
             ~SpendVerifies(d, d.spends[k], tx, Digest(d, CoinType(network)))
      /\ "OutputRecoveryFailed" \in E <=>
           \E k \in DOMAIN d.outputs : ~OutputRecovers(d.outputs[k], tx)
  BY DEF VerificationErrors
<1>3. E \subseteq {"TransactionIdMismatch", "BundleMissing", "SpendAuthorityInvalid",
                   "OutputRecoveryFailed"}
  BY DEF VerificationErrors
<1>. HIDE DEF E
<1>4. E = {} <=> /\ "TransactionIdMismatch" \notin E /\ "BundleMissing" \notin E
                 /\ "SpendAuthorityInvalid" \notin E /\ "OutputRecoveryFailed" \notin E
  BY <1>3
<1>. QED BY <1>1, <1>2, <1>4 DEF Verifies, Passes, E

(* The only signatures there are are the payer's, of one digest ...        *)
LEMMA SignatureIn ==
  ASSUME NEW g, NEW key, NEW h, Signature(key, h) \in Tokens(g)
  PROVE  h = g /\ \E i \in Nat : key = FreshKey(i) \/ key = ActionKey("own", i)
<1>. DEFINE t == Signature(key, h)
<1>1. t[1] = "sig" /\ t[2] = key /\ t[3] = h
  BY DEF Signature
<1>. HIDE DEF t
<1>2. t \notin Bytes
  BY <1>1, ByteIs
<1>3. t \notin {Tx("own"), Tx("another"), <<"junk">>, Blank}
  BY <1>1 DEF Tx, Blank
<1>4. /\ t \notin {Commitment(i) : i \in Nat} /\ t \notin {FreshKey(i) : i \in Nat}
      /\ t \notin {Proof("own", i, Commitment(i), FreshKey(i)) : i \in Nat}
      /\ t \notin {CipherKey("own", i) : i \in Nat}
  BY <1>1 DEF Commitment, FreshKey, Proof, CipherKey
<1>5. t \in Tokens(g)
  BY DEF t
<1>6. CASE t \in {Signature(FreshKey(i), g) : i \in Nat}
  <2>1. PICK i \in Nat : t = Signature(FreshKey(i), g)
    BY <1>6
  <2>2. t[2] = FreshKey(i) /\ t[3] = g
    BY <2>1 DEF Signature
  <2>. QED BY <1>1, <2>2
<1>7. CASE t \in {Signature(ActionKey("own", i), g) : i \in Nat}
  <2>1. PICK i \in Nat : t = Signature(ActionKey("own", i), g)
    BY <1>7
  <2>2. t[2] = ActionKey("own", i) /\ t[3] = g
    BY <2>1 DEF Signature
  <2>. QED BY <1>1, <2>2
<1>. QED BY <1>2, <1>3, <1>4, <1>5, <1>6, <1>7 DEF Tokens

(* ... and the only proofs are of the payment's spends.                    *)
LEMMA ProofIn ==
  ASSUME NEW g, NEW tx, NEW i, NEW cv, NEW rk, Proof(tx, i, cv, rk) \in Tokens(g)
  PROVE  tx = "own"
<1>. DEFINE t == Proof(tx, i, cv, rk)
<1>1. t[1] = "proof" /\ t[2] = tx
  BY DEF Proof
<1>2. t \in Tokens(g)
  OBVIOUS
<1>. HIDE DEF t
<1>3. t \notin Bytes
  BY <1>1, ByteIs
<1>4. t \notin {Tx("own"), Tx("another"), <<"junk">>, Blank}
  BY <1>1 DEF Tx, Blank
<1>5. /\ t \notin {Commitment(j) : j \in Nat} /\ t \notin {FreshKey(j) : j \in Nat}
      /\ t \notin {CipherKey("own", j) : j \in Nat}
      /\ t \notin {Signature(FreshKey(j), g) : j \in Nat}
      /\ t \notin {Signature(ActionKey("own", j), g) : j \in Nat}
  BY <1>1 DEF Commitment, FreshKey, Signature, CipherKey
<1>6. PICK j \in Nat : t = Proof("own", j, Commitment(j), FreshKey(j))
  BY <1>2, <1>3, <1>4, <1>5 DEF Tokens
<1>7. t[2] = "own"
  BY <1>6 DEF Proof
<1>. QED BY <1>1, <1>7

(* What is faithful passes verify_disclosure on the payment's transaction, *)
(* on every network of its coin type, ...                                  *)
LEMMA FaithfulPasses ==
  ASSUME NEW d, Faithful(d), NEW network, SameCoin(network)
  PROVE  Passes(d, network, "own")
<1>. DEFINE g == Made(d)
<1>1. Digest(d, CoinType(network)) = g
  BY DEF SameCoin, Made
<1>2. /\ IsDisclosure(Tokens(g), d)
      /\ d.tx = Tx("own") /\ d.profile = pczt.pool
      /\ \A k \in 1..Len(d.spends) : FaithfulSpend(d, k)
      /\ \A k \in 1..Len(d.outputs) : FaithfulOutput(d, k)
  BY DEF Faithful
<1>3. d.profile \in {Draft1, Ironwood}
  BY <1>2 DEF IsDisclosure
<1>. HIDE DEF g
<1>4. ASSUME NEW k \in 1..Len(d.spends) PROVE SpendVerifies(d, d.spends[k], "own", g)
  <2>. DEFINE x == d.spends[k]
              i == x.index + 1
  <2>1. /\ i \in DOMAIN pczt.spends
        /\ d.profile = Draft1 =>
             /\ x.fields = <<Commitment(i), FreshKey(i),
                             Proof("own", i, Commitment(i), FreshKey(i))>>
             /\ x.sig = Signature(FreshKey(i), g)
        /\ d.profile = Ironwood => x.sig = Signature(ActionKey("own", i), g)
    BY <1>2 DEF FaithfulSpend, g
  <2>. HIDE DEF x
  <2>2. i \in SpendsOf("own")
    BY <2>1 DEF SpendsOf
  <2>3. CASE d.profile = Draft1
    <3>1. /\ x.fields[1] = Commitment(i) /\ x.fields[2] = FreshKey(i)
          /\ x.fields[3] = Proof("own", i, Commitment(i), FreshKey(i))
      BY <2>1, <2>3
    <3>. QED BY <2>1, <2>2, <2>3, <3>1 DEF SpendVerifies, x
  <2>4. CASE d.profile = Ironwood
    <3>1. d.profile # Draft1
      BY <2>4 DEF Draft1, Ironwood
    <3>. QED BY <2>1, <2>2, <2>4, <3>1 DEF SpendVerifies, x
  <2>. QED BY <1>3, <2>3, <2>4
<1>5. ASSUME NEW k \in 1..Len(d.outputs) PROVE OutputRecovers(d.outputs[k], "own")
  BY <1>2 DEF FaithfulOutput, OutputRecovers, OutputsOf
<1>6. HasBundle("own", d.profile)
  BY <1>2 DEF HasBundle
<1>. QED BY <1>1, <1>2, <1>4, <1>5, <1>6 DEF Passes

(* ... and of all byte strings that can be put together from the tokens    *)
(* there are, not only those altered in one place, none passes             *)
(* verify_disclosure but one that decodes to what was signed, and that on  *)
(* the payment's transaction and its coin type only.                       *)
THEOREM OnlyFaithfulPasses ==
  ASSUME NEW d, Faithful(d), NEW s \in Seq(Tokens(Made(d))), NEW e \in FromBytes(s),
         NEW network, NEW tx, Passes(e, network, tx)
  PROVE  e = d /\ tx = "own" /\ SameCoin(network)
<1>. DEFINE g == Made(d)
            T == Tokens(g)
            h == Digest(e, CoinType(network))
<1>1. /\ IsDisclosure(T, d) /\ WellShaped(d)
      /\ \A k \in 1..Len(d.spends) : FaithfulSpend(d, k)
  BY DEF Faithful
<1>2. Alphabet(T)
  BY TokensAlphabet
<1>3. IsDisclosure(T, e) /\ WellShaped(e)
  BY <1>2, WritesWire
<1>4. \A k \in 1..Len(e.spends) : SpendVerifies(e, e.spends[k], tx, h)
  BY DEF Passes
<1>. HIDE DEF g, T, h
<1>5. /\ e = [profile |-> e.profile, tx |-> e.tx, message |-> e.message,
              spends |-> e.spends, outputs |-> e.outputs]
      /\ e.profile \in {Draft1, Ironwood}
      /\ e.spends \in Seq(SpendsOver(T, e.profile))
  BY <1>3 DEF IsDisclosure
<1>6. /\ d = [profile |-> d.profile, tx |-> d.tx, message |-> d.message,
              spends |-> d.spends, outputs |-> d.outputs]
      /\ d.profile \in {Draft1, Ironwood}
      /\ d.spends \in Seq(SpendsOver(T, d.profile))
  BY <1>1 DEF IsDisclosure
<1>7. ASSUME NEW k \in 1..Len(e.spends)
      PROVE  /\ e.spends[k].sig \in T
             /\ e.profile = Draft1 => /\ e.spends[k].fields[3] \in T
                                      /\ e.spends[k].sig = Signature(e.spends[k].fields[2], h)
                                      /\ \E i, cv, rk : e.spends[k].fields[3] = Proof(tx, i, cv, rk)
             /\ e.profile = Ironwood =>
                  e.spends[k].sig = Signature(ActionKey(tx, e.spends[k].index + 1), h)
  <2>. DEFINE x == e.spends[k]
  <2>1. x \in SpendsOver(T, e.profile)
    BY <1>5, ElementOfSeq
  <2>2. SpendVerifies(e, x, tx, h)
    BY <1>4
  <2>. HIDE DEF x
  <2>3. x.sig \in T /\ x.fields \in Seq(T) /\ Len(x.fields) = FieldsOf(e.profile)
    BY <2>1 DEF SpendsOver
  <2>4. e.profile = Draft1 => x.fields[3] \in T
    <3>. SUFFICES ASSUME e.profile = Draft1 PROVE x.fields[3] \in T
      OBVIOUS
    <3>1. 3 \in 1..Len(x.fields)
      BY <2>3 DEF FieldsOf
    <3>. QED BY <2>3, <3>1, ElementOfSeq
  <2>5. e.profile = Draft1 => /\ x.sig = Signature(x.fields[2], h)
                              /\ \E i, cv, rk : x.fields[3] = Proof(tx, i, cv, rk)
    BY <2>2 DEF SpendVerifies
  <2>6. e.profile = Ironwood => x.sig = Signature(ActionKey(tx, x.index + 1), h)
    <3>. SUFFICES ASSUME e.profile = Ironwood PROVE x.sig = Signature(ActionKey(tx, x.index + 1), h)
      OBVIOUS
    <3>1. e.profile # Draft1
      BY DEF Draft1, Ironwood
    <3>. QED BY <2>2, <3>1 DEF SpendVerifies
  <2>. QED BY <2>3, <2>4, <2>5, <2>6 DEF x
<1>8. 1 \in 1..Len(e.spends)
  <2>1. e.spends # <<>>
    BY <1>3 DEF WellShaped
  <2>2. Len(e.spends) \in Nat /\ Len(e.spends) # 0
    BY <1>5, <2>1, LenProperties, EmptySeq
  <2>. QED BY <2>2
<1>9. h = g
  <2>1. PICK key : e.spends[1].sig = Signature(key, h)
    BY <1>5, <1>7, <1>8
  <2>2. Signature(key, h) \in Tokens(g)
    BY <1>7, <1>8, <2>1 DEF T
  <2>. QED BY <2>2, SignatureIn
<1>10. tx = "own"
  <2>1. CASE e.profile = Draft1
    <3>1. PICK i, cv, rk : e.spends[1].fields[3] = Proof(tx, i, cv, rk)
      BY <1>7, <1>8, <2>1
    <3>2. Proof(tx, i, cv, rk) \in Tokens(g)
      BY <1>7, <1>8, <2>1, <3>1 DEF T
    <3>. QED BY <3>2, ProofIn
  <2>2. CASE e.profile = Ironwood
    <3>. DEFINE a == e.spends[1].index + 1
    <3>1. Signature(ActionKey(tx, a), h) \in Tokens(g)
      BY <1>7, <1>8, <2>2 DEF T
    <3>. HIDE DEF a
    <3>2. PICK i \in Nat : ActionKey(tx, a) = FreshKey(i) \/ ActionKey(tx, a) = ActionKey("own", i)
      BY <3>1, SignatureIn
    <3>3. ActionKey(tx, a)[1] = "action key" /\ ActionKey(tx, a)[2] = tx
      BY DEF ActionKey
    <3>4. FreshKey(i)[1] = "rk" /\ ActionKey("own", i)[2] = "own"
      BY DEF FreshKey, ActionKey
    <3>5. "rk" # "action key"
      OBVIOUS
    <3>. QED BY ZenonT(40), <3>2, <3>3, <3>4, <3>5
  <2>. QED BY <1>5, <2>1, <2>2
<1>11. CoinType(network) = CoinType(WalletNetwork) /\ UnsignedBytes(e) = UnsignedBytes(d)
  <2>1. /\ h[2] = CoinType(network) /\ h[3] = UnsignedBytes(e)
        /\ g[2] = CoinType(WalletNetwork) /\ g[3] = UnsignedBytes(d)
    BY DEF h, g, Made, Digest
  <2>. QED BY <1>9, <2>1
<1>12. /\ d.profile = e.profile /\ d.tx = e.tx /\ d.message = e.message
       /\ d.outputs = e.outputs
       /\ Len(d.spends) = Len(e.spends)
       /\ \A k \in 1..Len(d.spends) :
            /\ d.spends[k].index = e.spends[k].index
            /\ d.spends[k].fields = e.spends[k].fields
  BY <1>1, <1>2, <1>3, <1>11, UnsignedTells
<1>13. ASSUME NEW k \in 1..Len(d.spends) PROVE d.spends[k] = e.spends[k]
  <2>. DEFINE x == d.spends[k]
              y == e.spends[k]
              i == x.index + 1
  <2>1. /\ x \in SpendsOver(T, d.profile) /\ y \in SpendsOver(T, d.profile)
        /\ x.index = y.index /\ x.fields = y.fields
    BY <1>5, <1>6, <1>12, ElementOfSeq
  <2>2. /\ d.profile = Draft1 =>
             /\ x.fields = <<Commitment(i), FreshKey(i),
                             Proof("own", i, Commitment(i), FreshKey(i))>>
             /\ x.sig = Signature(FreshKey(i), g)
        /\ d.profile = Ironwood => x.sig = Signature(ActionKey("own", i), g)
    BY <1>1 DEF FaithfulSpend, g
  <2>3. /\ d.profile = Draft1 => y.sig = Signature(y.fields[2], g)
        /\ d.profile = Ironwood => y.sig = Signature(ActionKey("own", y.index + 1), g)
    BY <1>7, <1>9, <1>10, <1>12
  <2>. HIDE DEF x, y
  <2>4. x.sig = y.sig
    <3>1. CASE d.profile = Draft1
      <4>1. x.fields[2] = FreshKey(i)
        BY <2>2, <3>1
      <4>. QED BY <2>1, <2>2, <2>3, <3>1, <4>1
    <3>2. CASE d.profile = Ironwood
      BY <2>1, <2>2, <2>3, <3>2
    <3>. QED BY <1>6, <3>1, <3>2
  <2>5. x = y
    BY SMTT(30), <2>1, <2>4 DEF SpendsOver
  <2>. QED BY <2>5 DEF x, y
<1>14. d.spends = e.spends
  <2>. DEFINE V == SpendsOver(T, d.profile)
              xs == d.spends
              ys == e.spends
  <2>1. xs \in Seq(V) /\ ys \in Seq(V) /\ Len(xs) = Len(ys) /\ \A k \in 1..Len(xs) : xs[k] = ys[k]
    BY <1>5, <1>6, <1>12, <1>13
  <2>. HIDE DEF V, xs, ys
  <2>2. xs = ys
    BY <2>1, SeqEqual
  <2>. QED BY <2>2 DEF xs, ys
<1>15. e = d
  BY <1>5, <1>6, <1>12, <1>14
<1>. QED BY <1>10, <1>11, <1>15 DEF SameCoin

-----------------------------------------------------------------------------
(* The inductive invariant.                                                *)

(* The bytes are d's until the payee has them; then they are what they are *)
(* read as, whatever they have become.                                     *)
Travels(d) ==
  /\ wire \in Seq(Tokens(Made(d)))
  /\ stage = "exported" => wire = ToBytes(d) /\ decoded = {}
  /\ stage # "exported" => decoded = FromBytes(wire)
  /\ stage # "exported" => (stage = "unreadable" <=> decoded = {})

(* The verdict is that of the network and transaction verified with.       *)
Judged ==
  /\ stage \notin {"accepted", "rejected"} => against = {}
  /\ stage \in {"accepted", "rejected"} =>
       \E network \in Networks, tx \in {"own", "another"} :
         /\ against = {[network |-> network, tx |-> tx]}
         /\ stage = "accepted" <=> \A e \in decoded : Passes(e, network, tx)

(* The inductive invariant: until there is an export nothing was sent or   *)
(* decoded; from then on it is a faithful one, its bytes travel and are    *)
(* judged.                                                                 *)
DisclosureInv ==
  /\ pczt \in Pczts /\ plan \in Plans
  /\ stage \in {"asked", "refused", "exported", "received", "unreadable", "accepted", "rejected"}
  /\ stage \in {"asked", "refused"} => exported = {} /\ decoded = {}
  /\ stage \notin {"asked", "refused"} => \E d : exported = {d} /\ Faithful(d) /\ Travels(d)
  /\ Judged

(* It holds at first, ...                                                  *)
LEMMA InvStarts == Init => DisclosureInv
BY DEF Init, DisclosureInv, Judged

(* ... an export establishes its second half, ...                          *)
LEMMA ExportInv ==
  ASSUME DisclosureInv, Export
  PROVE  DisclosureInv'
<1>. DEFINE d == Signed(Unsigned)
<1>1. pczt \in Pczts /\ plan \in Plans /\ decoded = {} /\ stage = "asked" /\ against = {}
  BY DEF DisclosureInv, Export, Judged
<1>2. /\ pczt' = pczt /\ plan' = plan /\ decoded' = {} /\ stage' = "exported" /\ against' = {}
      /\ exported' = {d} /\ wire' = ToBytes(d) /\ ExportErrors = {}
  BY <1>1 DEF Export
<1>3. Faithful(d)
  BY <1>1, <1>2, ExportFaithful
<1>. HIDE DEF d
<1>4. ToBytes(d) \in Seq(Tokens(Made(d)))
  <2>1. IsDisclosure(Tokens(Made(d)), d) /\ WellShaped(d)
    BY <1>3 DEF Faithful
  <2>. QED BY <2>1, TokensAlphabet, ReadsWire
<1>5. ASSUME NEW e, e = d PROVE exported' = {e} /\ Faithful(e)' /\ Travels(e)'
  <2>1. Faithful(e)'
    BY ZenonT(40), <1>2, <1>3, <1>5 DEF Faithful, FaithfulSpend, FaithfulOutput
  <2>2. Travels(e)'
    BY <1>2, <1>4, <1>5 DEF Travels
  <2>. QED BY <1>2, <1>5, <2>1, <2>2
<1>6. (\E e : exported = {e} /\ Faithful(e) /\ Travels(e))'
  BY <1>5
<1>7. Judged'
  BY <1>2 DEF Judged
<1>. QED BY <1>1, <1>2, <1>6, <1>7 DEF DisclosureInv

(* ... a refusal leaves it alone, ...                                      *)
LEMMA RefuseInv ==
  ASSUME DisclosureInv, Refuse
  PROVE  DisclosureInv'
BY DEF DisclosureInv, Refuse, Judged

(* ... bytes that arrive, altered or not, are made of the same tokens, ... *)
LEMMA ReceiveInv ==
  ASSUME DisclosureInv, NEW bytes \in {wire} \cup Altered(wire), Receive(bytes)
  PROVE  DisclosureInv'
<1>1. /\ pczt \in Pczts /\ plan \in Plans /\ stage = "exported" /\ against = {}
      /\ pczt' = pczt /\ plan' = plan /\ exported' = exported /\ against' = against
      /\ wire' = bytes /\ decoded' = FromBytes(bytes)
      /\ stage' = IF FromBytes(bytes) = {} THEN "unreadable" ELSE "received"
  BY DEF DisclosureInv, Receive, Judged
<1>2. PICK d : exported = {d} /\ Faithful(d) /\ Travels(d)
  BY <1>1 DEF DisclosureInv
<1>3. wire = ToBytes(d) /\ wire \in Seq(Tokens(Made(d)))
  BY <1>1, <1>2 DEF Travels
<1>4. bytes \in Seq(Tokens(Made(d)))
  <2>1. CASE bytes = wire
    BY <1>3, <2>1
  <2>2. CASE bytes \in Altered(wire)
    <3>1. FromBytes(wire) = {d}
      BY ZenonT(40), <1>2, <1>3, TokensAlphabet, ReadsWire DEF Faithful
    <3>2. IsByteAt(wire, 1)
      BY <3>1 DEF FromBytes
    <3>3. wire # <<>>
      BY <3>2 DEF IsByteAt
    <3>. QED BY <1>3, <2>2, <3>3, AlteredIs
  <2>. QED BY <2>1, <2>2
<1>5. Faithful(d)'
  BY ZenonT(40), <1>1, <1>2 DEF Faithful, FaithfulSpend, FaithfulOutput
<1>6. Travels(d)'
  BY <1>1, <1>4 DEF Travels
<1>7. Judged'
  BY <1>1 DEF Judged
<1>. QED BY <1>1, <1>2, <1>5, <1>6, <1>7 DEF DisclosureInv

(* ... and a verdict is what the checks say.                               *)
LEMMA VerifyInv ==
  ASSUME DisclosureInv, NEW network \in Networks, NEW tx \in {"own", "another"},
         Verify(network, tx)
  PROVE  DisclosureInv'
<1>1. /\ pczt \in Pczts /\ plan \in Plans /\ stage = "received"
      /\ pczt' = pczt /\ plan' = plan /\ exported' = exported
      /\ wire' = wire /\ decoded' = decoded
      /\ against' = {[network |-> network, tx |-> tx]}
      /\ stage' = IF \A e \in decoded : Verifies(e, network, tx) THEN "accepted" ELSE "rejected"
  BY DEF DisclosureInv, Verify
<1>2. PICK d : exported = {d} /\ Faithful(d) /\ Travels(d)
  BY <1>1 DEF DisclosureInv
<1>3. Faithful(d)'
  BY ZenonT(40), <1>1, <1>2 DEF Faithful, FaithfulSpend, FaithfulOutput
<1>4. Travels(d)'
  BY <1>1, <1>2 DEF Travels
<1>5. \A e \in decoded : Verifies(e, network, tx) <=> Passes(e, network, tx)
  <2>1. ASSUME NEW e \in decoded PROVE Verifies(e, network, tx) <=> Passes(e, network, tx)
    <3>1. wire \in Seq(Tokens(Made(d))) /\ e \in FromBytes(wire)
      BY <1>1, <1>2 DEF Travels
    <3>2. IsDisclosure(Tokens(Made(d)), e)
      BY <3>1, TokensAlphabet, WritesWire
    <3>. QED BY <3>2, VerifiesIs
  <2>. QED BY <2>1
<1>6. stage' = "accepted" <=> \A e \in decoded : Passes(e, network, tx)
  BY <1>1, <1>5
<1>7. Judged'
  <2>1. (\A e \in decoded : Passes(e, network, tx)) <=> (\A e \in decoded : Passes(e, network, tx))'
    BY <1>1 DEF Passes, HasBundle, SpendVerifies, SpendsOf, OutputRecovers, OutputsOf
  <2>2. stage' \in {"accepted", "rejected"}
    BY <1>1
  <2>. QED BY <1>1, <1>6, <2>1, <2>2 DEF Judged
<1>. QED BY <1>1, <1>2, <1>3, <1>4, <1>7 DEF DisclosureInv

(* It does not depend on anything but the variables.                       *)
LEMMA StutterInv ==
  ASSUME DisclosureInv, UNCHANGED vars
  PROVE  DisclosureInv'
<1>1. /\ pczt' = pczt /\ plan' = plan /\ stage' = stage /\ exported' = exported
      /\ wire' = wire /\ decoded' = decoded /\ against' = against
  BY DEF vars
<1>2. Judged'
  <2>1. \A e, network, tx : Passes(e, network, tx) <=> Passes(e, network, tx)'
    BY <1>1 DEF Passes, HasBundle, SpendVerifies, SpendsOf, OutputRecovers, OutputsOf
  <2>. QED BY <1>1, <2>1 DEF DisclosureInv, Judged
<1>3. ASSUME NEW d, Faithful(d), Travels(d) PROVE Faithful(d)' /\ Travels(d)'
  <2>1. Faithful(d)'
    BY ZenonT(40), <1>1, <1>3 DEF Faithful, FaithfulSpend, FaithfulOutput
  <2>2. Travels(d)'
    BY <1>1, <1>3 DEF Travels
  <2>. QED BY <2>1, <2>2
<1>. QED BY <1>1, <1>2, <1>3 DEF DisclosureInv

(* Every step keeps it.                                                    *)
LEMMA NextInv == DisclosureInv /\ [Next]_vars => DisclosureInv'
<1>. SUFFICES ASSUME DisclosureInv, [Next]_vars PROVE DisclosureInv'
  OBVIOUS
<1>1. CASE Export
  BY <1>1, ExportInv
<1>2. CASE Refuse
  BY <1>2, RefuseInv
<1>3. CASE Deliver
  BY <1>3, ReceiveInv DEF Deliver
<1>4. CASE Damage
  <2>1. PICK bytes \in Altered(wire) : Receive(bytes)
    BY <1>4 DEF Damage
  <2>. QED BY <2>1, ReceiveInv
<1>5. ASSUME NEW network \in Networks, NEW tx \in {"own", "another"}, Verify(network, tx)
      PROVE  DisclosureInv'
  BY <1>5, VerifyInv
<1>6. CASE UNCHANGED vars
  BY <1>6, StutterInv
<1>. QED BY <1>1, <1>2, <1>3, <1>4, <1>5, <1>6 DEF Next

(* What decoded bytes have in every state: the shape, and the tokens.      *)
LEMMA DecodedIs ==
  ASSUME DisclosureInv, NEW e \in exported \cup decoded
  PROVE  /\ stage \notin {"asked", "refused"}
         /\ \E T : Alphabet(T) /\ IsDisclosure(T, e) /\ WellShaped(e)
<1>1. stage \notin {"asked", "refused"}
  BY DEF DisclosureInv
<1>2. PICK d : exported = {d} /\ Faithful(d) /\ Travels(d)
  BY <1>1 DEF DisclosureInv
<1>. DEFINE T == Tokens(Made(d))
<1>3. Alphabet(T)
  BY TokensAlphabet
<1>4. CASE e \in exported
  BY <1>1, <1>2, <1>3, <1>4 DEF Faithful
<1>5. CASE e \in decoded
  <2>1. wire \in Seq(T) /\ e \in FromBytes(wire)
    BY <1>2, <1>5 DEF Travels
  <2>2. IsDisclosure(T, e) /\ WellShaped(e)
    BY <1>3, <2>1, WritesWire
  <2>. QED BY <1>1, <1>3, <2>2
<1>. QED BY <1>4, <1>5

(* The invariant implies each of the properties.                           *)
LEMMA InvImpliesTypes == DisclosureInv => TypeOK
<1>. SUFFICES ASSUME DisclosureInv PROVE TypeOK
  OBVIOUS
<1>1. /\ pczt \in Pczts /\ plan \in Plans
      /\ stage \in {"asked", "refused", "exported", "received", "unreadable", "accepted", "rejected"}
      /\ stage \in {"asked", "refused"} => exported = {} /\ decoded = {}
      /\ Judged
  BY DEF DisclosureInv
<1>2. Cardinality(against) <= 1 /\ ((against = {}) <=> (stage \notin {"accepted", "rejected"}))
  <2>1. CASE stage \notin {"accepted", "rejected"}
    <3>1. against = {}
      BY <1>1, <2>1 DEF Judged
    <3>2. Cardinality({}) = 0
      BY FS_EmptySet
    <3>. QED BY <2>1, <3>1, <3>2
  <2>2. CASE stage \in {"accepted", "rejected"}
    <3>1. \E a : against = {a}
      BY <1>1, <2>2 DEF Judged
    <3>2. PICK a : against = {a}
      BY <3>1
    <3>3. Cardinality(against) = 1
      BY <3>2, FS_Singleton
    <3>. QED BY <2>2, <3>2, <3>3
  <2>. QED BY <2>1, <2>2
<1>3. /\ Cardinality(exported) <= 1 /\ Cardinality(decoded) <= 1
      /\ (decoded # {}) <=> (stage \in {"received", "accepted", "rejected"})
  <2>1. CASE stage \in {"asked", "refused"}
    <3>1. Cardinality({}) = 0
      BY FS_EmptySet
    <3>. QED BY <1>1, <2>1, <3>1
  <2>2. CASE stage \notin {"asked", "refused"}
    <3>1. PICK d : exported = {d} /\ Faithful(d) /\ Travels(d)
      BY <2>2 DEF DisclosureInv
    <3>2. Cardinality(exported) = 1
      BY <3>1, FS_Singleton
    <3>3. decoded = {} \/ decoded = FromBytes(wire)
      BY <3>1 DEF Travels
    <3>4. decoded = {} \/ \E e : decoded = {e}
      BY ZenonT(40), <3>3 DEF FromBytes
    <3>5. Cardinality(decoded) <= 1
      <4>1. CASE decoded = {}
        BY <4>1, FS_EmptySet
      <4>2. CASE \E e : decoded = {e}
        <5>1. PICK e : decoded = {e}
          BY <4>2
        <5>2. Cardinality(decoded) = 1
          BY <5>1, FS_Singleton
        <5>. QED BY <5>2
      <4>. QED BY <3>4, <4>1, <4>2
    <3>6. /\ stage = "exported" => decoded = {}
          /\ stage # "exported" => (stage = "unreadable" <=> decoded = {})
      BY <3>1 DEF Travels
    <3>7. (decoded # {}) <=> (stage \in {"received", "accepted", "rejected"})
      BY <1>1, <2>2, <3>6
    <3>. QED BY <3>2, <3>5, <3>7
  <2>. QED BY <2>1, <2>2
<1>4. ASSUME NEW d \in exported \cup decoded
      PROVE  /\ Len(d.message) <= MaxMessage
             /\ d.profile \in {Draft1, Ironwood}
             /\ Cardinality({e.index : e \in Range(d.spends)}) = Len(d.spends)
             /\ Cardinality({e.index : e \in Range(d.outputs)}) = Len(d.outputs)
             /\ \A e \in Range(d.spends) \cup Range(d.outputs) : e.index \in 0..MaxIndex
  <2>1. PICK T : Alphabet(T) /\ IsDisclosure(T, d) /\ WellShaped(d)
    BY DecodedIs
  <2>. DEFINE V == SpendsOver(T, d.profile)
              W == OutputsOver(T)
              xs == d.spends
              ys == d.outputs
  <2>2. /\ d.profile \in {Draft1, Ironwood} /\ xs \in Seq(V) /\ ys \in Seq(W)
        /\ Len(d.message) <= MaxMessage
        /\ StrictlyIncreasing(xs) /\ StrictlyIncreasing(ys)
    BY <2>1 DEF IsDisclosure, WellShaped
  <2>3. /\ \A x \in V : x.index \in 0..MaxIndex
        /\ \A y \in W : y.index \in 0..MaxIndex
    BY DEF SpendsOver, OutputsOver
  <2>. HIDE DEF V, W, xs, ys
  <2>4. /\ \A x \in V : x.index \in Nat
        /\ \A y \in W : y.index \in Nat
    BY <2>3, PowersGrow
  <2>5. Cardinality({e.index : e \in Range(xs)}) = Len(xs)
    BY <2>2, <2>4, IndicesCounted
  <2>6. Cardinality({e.index : e \in Range(ys)}) = Len(ys)
    BY <2>2, <2>4, IndicesCounted
  <2>7. Range(xs) \subseteq V /\ Range(ys) \subseteq W
    BY <2>2, LenProperties, ElementOfSeq DEF Range
  <2>8. \A e \in Range(xs) \cup Range(ys) : e.index \in 0..MaxIndex
    BY <2>3, <2>7
  <2>. QED BY <2>2, <2>5, <2>6, <2>8 DEF xs, ys
<1>. QED BY <1>1, <1>2, <1>3, <1>4 DEF TypeOK

(* What was decoded encodes to the bytes that arrived.                     *)
LEMMA InvImpliesOneEncoding == DisclosureInv => OneEncoding
<1>. SUFFICES ASSUME DisclosureInv, NEW e \in decoded PROVE ToBytes(e) = wire
  BY DEF OneEncoding
<1>1. stage \notin {"asked", "refused"}
  BY DEF DisclosureInv
<1>2. PICK d : exported = {d} /\ Faithful(d) /\ Travels(d)
  BY <1>1 DEF DisclosureInv
<1>3. wire \in Seq(Tokens(Made(d))) /\ e \in FromBytes(wire)
  BY <1>2 DEF Travels
<1>. QED BY <1>3, TokensAlphabet, WritesWire

(* The bytes of an export are decoded to it, and pass.                     *)
LEMMA InvImpliesExportVerifies == DisclosureInv => ExportVerifies
<1>. SUFFICES ASSUME DisclosureInv, NEW d \in exported, wire = ToBytes(d)
              PROVE  /\ stage # "unreadable" /\ decoded \subseteq {d}
                     /\ (stage = "rejected") =>
                          \A a \in against : ~(a.tx = "own" /\ SameCoin(a.network))
  BY DEF ExportVerifies
<1>1. stage \notin {"asked", "refused"}
  BY DEF DisclosureInv
<1>2. exported = {d} /\ Faithful(d) /\ Travels(d)
  BY <1>1 DEF DisclosureInv
<1>3. FromBytes(wire) = {d}
  BY <1>2, TokensAlphabet, ReadsWire DEF Faithful
<1>4. stage # "unreadable" /\ decoded \subseteq {d}
  BY <1>2, <1>3 DEF Travels
<1>5. ASSUME stage = "rejected", NEW a \in against, a.tx = "own", SameCoin(a.network)
      PROVE  FALSE
  <2>1. decoded = {d}
    BY <1>2, <1>3, <1>5 DEF Travels
  <2>2. Judged
    BY DEF DisclosureInv
  <2>3. PICK network \in Networks, tx \in {"own", "another"} :
              /\ against = {[network |-> network, tx |-> tx]}
              /\ stage = "accepted" <=> \A e \in decoded : Passes(e, network, tx)
    BY <1>5, <2>2 DEF Judged
  <2>4. a = [network |-> network, tx |-> tx]
    BY <1>5, <2>3
  <2>5. tx = "own" /\ SameCoin(network)
    BY <1>5, <2>4
  <2>6. Passes(d, network, tx)
    BY <1>2, <2>5, FaithfulPasses
  <2>. QED BY <1>5, <2>1, <2>3, <2>6
<1>. QED BY <1>4, <1>5

(* What an accepted disclosure is.                                         *)
LEMMA InvAccepted ==
  ASSUME DisclosureInv, stage = "accepted"
  PROVE  \E d : /\ exported = {d} /\ decoded = {d} /\ Faithful(d)
                /\ \A a \in against : a.tx = "own" /\ SameCoin(a.network)
<1>1. PICK d : exported = {d} /\ Faithful(d) /\ Travels(d)
  BY DEF DisclosureInv
<1>2. Judged
  BY DEF DisclosureInv
<1>3. PICK network \in Networks, tx \in {"own", "another"} :
              /\ against = {[network |-> network, tx |-> tx]}
              /\ stage = "accepted" <=> \A e \in decoded : Passes(e, network, tx)
  BY <1>2 DEF Judged
<1>4. wire \in Seq(Tokens(Made(d))) /\ decoded = FromBytes(wire) /\ decoded # {}
  BY <1>1 DEF Travels
<1>5. ASSUME NEW e \in decoded PROVE e = d /\ tx = "own" /\ SameCoin(network)
  <2>1. Passes(e, network, tx) /\ e \in FromBytes(wire)
    BY <1>3, <1>4
  <2>. QED BY <1>1, <1>4, <2>1, OnlyFaithfulPasses
<1>6. decoded = {d} /\ tx = "own" /\ SameCoin(network)
  BY <1>4, <1>5
<1>7. \A a \in against : a.tx = "own" /\ SameCoin(a.network)
  BY <1>3, <1>6
<1>. QED BY <1>1, <1>6, <1>7

(* Nothing else is accepted, ...                                           *)
LEMMA InvImpliesAcceptedMeansSigned == DisclosureInv => AcceptedMeansSigned
BY InvAccepted DEF AcceptedMeansSigned

(* ... and what is accepted is faithful to the PCZT.                       *)
LEMMA InvImpliesEvidenceAnswers == DisclosureInv => EvidenceAnswers
<1>. SUFFICES ASSUME DisclosureInv, stage = "accepted" PROVE EvidenceAnswers
  BY DEF EvidenceAnswers
<1>1. PICK d : decoded = {d} /\ Faithful(d)
  BY InvAccepted
<1>. DEFINE shown == {e.index + 1 : e \in Range(d.spends)}
            paid  == {e.index + 1 : e \in Range(d.outputs)}
<1>2. DOMAIN d.spends = 1..Len(d.spends) /\ DOMAIN d.outputs = 1..Len(d.outputs)
  <2>1. PICK T : IsDisclosure(T, d)
    BY <1>1 DEF Faithful
  <2>2. d.spends \in Seq(SpendsOver(T, d.profile)) /\ d.outputs \in Seq(OutputsOver(T))
    BY <2>1 DEF IsDisclosure
  <2>. QED BY <2>2, LenProperties
<1>3. /\ \A i : i \in shown <=> \E k \in 1..Len(d.spends) : d.spends[k].index + 1 = i
      /\ \A i : i \in paid <=> \E k \in 1..Len(d.outputs) : d.outputs[k].index + 1 = i
  BY <1>2 DEF Range
<1>. HIDE DEF shown, paid
<1>4. ~pczt.elsewhere /\ d.message = plan.message
  BY <1>1 DEF Faithful
<1>5. \A i \in shown : pczt.spends[i].owner = "payer"
  BY <1>1, <1>3 DEF Faithful, FaithfulSpend
<1>6. \A i \in DOMAIN pczt.spends : pczt.spends[i].value \notin {0, Redacted} => i \in shown
  BY <1>1, <1>3 DEF Faithful
<1>7. \A i \in DOMAIN pczt.outputs :
        i \in paid <=> /\ pczt.outputs[i].label /\ pczt.outputs[i].receiver
                       /\ pczt.outputs[i].value = Asked
  BY <1>1, <1>3 DEF Faithful, FaithfulOutput
<1>. QED BY <1>1, <1>4, <1>5, <1>6, <1>7 DEF EvidenceAnswers, shown, paid

(* The invariant holds throughout an export, its way and its verification. *)
THEOREM DisclosureInvariant == Spec => []DisclosureInv
BY InvStarts, NextInv, PTL DEF Spec

(* The types, and the shape require_strictly_increasing and the bounds of  *)
(* codec.rs give to whatever was decoded.                                  *)
THEOREM DisclosureTypes == Spec => []TypeOK
BY DisclosureInvariant, InvImpliesTypes, PTL

(* What was decoded encodes to the very bytes that arrived: from_bytes     *)
(* takes no second encoding.                                               *)
THEOREM BytesAreCanonical == Spec => []OneEncoding
BY DisclosureInvariant, InvImpliesOneEncoding, PTL

(* The payee who has the exported bytes and the payment's transaction      *)
(* decodes and accepts what was signed, on every network of that coin      *)
(* type.                                                                   *)
THEOREM ExportsAreNotInVain == Spec => []ExportVerifies
BY DisclosureInvariant, InvImpliesExportVerifies, PTL

(* verify_disclosure accepts nothing but what the payer signed, for the    *)
(* payment's transaction and coin type.                                    *)
THEOREM OnlyTheSignedIsAccepted == Spec => []AcceptedMeansSigned
BY DisclosureInvariant, InvImpliesAcceptedMeansSigned, PTL

(* What is accepted answers the request: it shows every input whose value  *)
(* is on record, all of them the payer's, and the one output that pays the *)
(* recipient the amount.                                                   *)
THEOREM AcceptedAnswers == Spec => []EvidenceAnswers
BY DisclosureInvariant, InvImpliesEvidenceAnswers, PTL
=============================================================================
