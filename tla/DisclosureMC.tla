----------------------------- MODULE DisclosureMC -----------------------------
(***************************************************************************)
(* Disclosures for TLC.                                                    *)
(***************************************************************************)
EXTENDS Disclosure

\* An empty message, and the shortest one with a length of several bytes.
ShortAndLonger == {<<>>, [i \in 1..(Base - 3) |-> Byte(1)]}
=============================================================================
