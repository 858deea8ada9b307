----------------------------- MODULE SyncDriverMC -----------------------------
(***************************************************************************)
(* Constants of the sync driver's runs.                                    *)
(***************************************************************************)
EXTENDS SyncDriver

\* Two depths, a shallow and a deep one: 10 and 100 blocks in the code.
MCRewindLadderBlocks == <<1, 3>>
=============================================================================
