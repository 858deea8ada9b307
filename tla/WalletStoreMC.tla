---------------------------- MODULE WalletStoreMC ----------------------------
(***************************************************************************)
(* The wallet store for TLC: no definition tells two calls, requests, hold *)
(* identifiers or seeds apart.                                             *)
(***************************************************************************)
EXTENDS WalletStore, TLC

Interchangeable ==
  Permutations(Reservers) \cup Permutations(Requests) \cup Permutations(HoldIds)
    \cup Permutations(Seeds)
=============================================================================
