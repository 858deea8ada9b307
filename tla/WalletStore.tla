----------------------------- MODULE WalletStore -----------------------------
(***************************************************************************)
(* One wallet's files over the life of its processes: the seed file and    *)
(* its identity (zally-keys/src/age_file_sealing.rs), the wallet database  *)
(* (zally-storage/src/sqlite.rs) and the operations that create, open and  *)
(* rebuild them (WalletBuilder and reset_to_birthday of                    *)
(* zally-wallet/src/wallet.rs), composed with the reservations, the        *)
(* transparent refresh and the scans that live in the same database.       *)
(*                                                                         *)
(* A process dies between any two writes.  One process at a time holds the *)
(* files, and builds one wallet handle (assumption: two builders on the    *)
(* same files are not modelled).                                           *)
(***************************************************************************)
EXTENDS Reservations, ScanIngest

CONSTANTS
  Seeds,      \* seeds Mnemonic::generate can return, each once
  Workloads   \* bound: what a host does with the wallet, see Init

Activities == {"dispense", "refresh", "scan"}

ASSUME WalletStoreAssumption ==
  /\ None \notin Seeds
  /\ Workloads \subseteq SUBSET Activities

VARIABLES
  identity,   \* the age identity file: "absent" or "written"
  sealed,     \* the seed in the sealed seed file, None without the file
  accounts,   \* seeds of the accounts in the wallet database
  build,      \* the builder call in flight
  live,       \* the seed of the wallet handle the process holds, or None
  actor,      \* the handle's database: "opened", "notOpened" or at a reset step
  workload    \* the activities of this behaviour

files == <<identity, sealed>>
handleVars == <<live, actor>>
reservationVars == <<holds, finalized, released, resv, balance, peak>>
syncVars == <<scanned, rows, walk, ingestVars>>
vars == <<files, accounts, build, handleVars, workload, reservationVars,
          syncVars>>

NoBuild == [call |-> None, at |-> "idle", seed |-> None]

Init ==
  /\ identity = "absent"
  /\ sealed = None
  /\ accounts = {}
  /\ build = NoBuild
  /\ live = None
  /\ actor = "notOpened"
  /\ workload \in Workloads
  /\ ReservationsInit
  /\ UtxoRefreshInit
  /\ ScanIngestInit

-----------------------------------------------------------------------------
(* WalletBuilder.                                                          *)

Calls == {"create", "open", "openOrCreate"}

BuildStep(from, to) ==
  /\ build.at = from
  /\ build' = [build EXCEPT !.at = to]

\* storage.open_or_create: the file and its schema are there afterwards.
StartBuild(c) ==
  /\ live = None
  /\ build.at = "idle"
  /\ build' = [call |-> c, at |-> "unseal", seed |-> None]
  /\ UNCHANGED <<files, accounts, handleVars, workload, reservationVars, syncVars>>

\* Mutant: create does not look for a sealed seed.
CreateOverSeal == IF build.call = "create" THEN "chain"
                  ELSE IF sealed = None THEN "idle" ELSE "find"

\* Mutant: a missing seed file is no reason to stop.
OpenUnsealed == IF build.call = "create" THEN IF sealed = None THEN "chain" ELSE "idle"
                ELSE "find"

\* create goes on without a sealed seed, the others with one.
AfterUnseal ==
  IF build.call = "create" THEN IF sealed = None THEN "chain" ELSE "idle"
                           ELSE IF sealed = None THEN "idle" ELSE "find"

Unseal ==
  /\ build.at = "unseal"
  /\ build' = IF AfterUnseal = "idle" THEN NoBuild
              ELSE [build EXCEPT !.at = AfterUnseal,
                                 !.seed = IF build.call = "create" THEN None ELSE sealed]
  /\ UNCHANGED <<files, accounts, handleVars, workload, reservationVars, syncVars>>

\* find_account_for_seed: open fails without the account.
FindAccount ==
  /\ build.at = "find"
  /\ build' = CASE build.seed \in accounts -> [build EXCEPT !.at = "assemble"]
                [] build.seed \notin accounts /\ build.call = "open" -> NoBuild
                [] build.seed \notin accounts /\ build.call # "open" ->
                     [build EXCEPT !.at = "chain"]
  /\ UNCHANGED <<files, accounts, handleVars, workload, reservationVars, syncVars>>

\* current_epoch and fetch_prior_chain_state; create then generates a seed.
FetchState ==
  /\ build.at = "chain"
  /\ IF build.call = "create"
       THEN \E s \in Seeds \ (accounts \cup {sealed}) :
              build' = [build EXCEPT !.at = "identity", !.seed = s]
       ELSE build' = [build EXCEPT !.at = "import"]
  /\ UNCHANGED <<files, accounts, handleVars, workload, reservationVars, syncVars>>

\* seal_blocking: load_or_create_identity, then the seed file; each appears
\* whole, by a rename.
SealIdentity ==
  /\ BuildStep("identity", "seal")
  /\ identity' = "written"
  /\ UNCHANGED <<sealed, accounts, handleVars, workload, reservationVars, syncVars>>

SealSeed ==
  /\ BuildStep("seal", "import")
  /\ sealed' = build.seed
  /\ UNCHANGED <<identity, accounts, handleVars, workload, reservationVars, syncVars>>

\* create_account_on: the account, then the chain tip.
ImportAccount ==
  /\ BuildStep("import", "tip")
  /\ accounts' = accounts \cup {build.seed}
  /\ UNCHANGED <<files, handleVars, workload, reservationVars, syncVars>>

SetBuildTip ==
  /\ BuildStep("tip", "assemble")
  /\ TipSet
  /\ UNCHANGED <<files, accounts, handleVars, workload, reservationVars, rows, walk>>

Assemble ==
  /\ build.at = "assemble"
  /\ build' = NoBuild
  /\ live' = build.seed
  /\ actor' = "opened"
  /\ UNCHANGED <<files, accounts, workload, reservationVars, syncVars>>

\* A file, the database or the chain source fails.
BuildFails ==
  /\ build.at \notin {"idle", "assemble"}
  /\ build' = NoBuild
  /\ UNCHANGED <<files, accounts, handleVars, workload, reservationVars, syncVars>>

Build ==
  \/ \E c \in Calls : StartBuild(c)
  \/ Unseal
  \/ FindAccount
  \/ FetchState
  \/ SealIdentity
  \/ SealSeed
  \/ ImportAccount
  \/ SetBuildTip
  \/ Assemble
  \/ BuildFails

-----------------------------------------------------------------------------
(* reset_to_birthday.  Its reads change nothing and need an open database  *)
(* and an account, the birthday being read first; recreate_with_account    *)
(* runs on the actor's thread, so no other request is served until it ends.*)
(* The driver's task, which also scans, calls it between two attempts      *)
(* (assumption: no host calls it beside a scan in flight).                 *)

RemoveFiles ==
  /\ actor = "opened"
  /\ accounts # {}
  /\ actor' = "resetImport"
  /\ accounts' = {}
  /\ Resting
  /\ HoldsDropped
  /\ RowsDropped
  /\ IngestDropped
  /\ UNCHANGED <<files, build, live, workload>>

ResetImport ==
  /\ actor = "resetImport"
  /\ actor' = "resetTip"
  /\ accounts' = {sealed}
  /\ UNCHANGED <<files, build, live, workload, reservationVars, syncVars>>

ResetTip ==
  /\ actor = "resetTip"
  /\ actor' = "opened"
  /\ TipSet
  /\ UNCHANGED <<files, accounts, build, live, workload, reservationVars, rows, walk>>

\* The removal or the rebuild fails.  The actor has let go of the database
\* first, and nothing in the process opens it again: requests, another reset
\* among them, fail until the process is replaced.
ResetFails ==
  /\ actor \in {"opened", "resetImport", "resetTip"}
  /\ accounts # {} \/ actor # "opened"
  /\ Resting
  /\ actor' = "notOpened"
  /\ UNCHANGED <<files, accounts, build, live, workload, reservationVars, syncVars>>

Reset == RemoveFiles \/ ResetImport \/ ResetTip \/ ResetFails

-----------------------------------------------------------------------------
(* What the host does with the handle, and the end of the process.         *)

Dispense ==
  /\ "dispense" \in workload
  /\ live # None
  /\ actor = "opened"
  /\ ReservationsStep
  /\ UNCHANGED <<files, accounts, build, handleVars, workload, syncVars>>

Refresh ==
  /\ "refresh" \in workload
  /\ live # None
  /\ actor = "opened"
  /\ \/ WalkStep(accounts # {})
     \/ "scan" \notin workload /\ FrontierStep(accounts # {})
  /\ UNCHANGED <<files, accounts, build, handleVars, workload, reservationVars,
                 ingestVars>>

Scan ==
  /\ "scan" \in workload
  /\ live # None
  /\ actor = "opened"
  /\ ScanIngestStep
  /\ UNCHANGED <<files, accounts, build, handleVars, workload, reservationVars>>

\* Requests to a database that is not open fail, and end who sent them.
NotOpened ==
  /\ actor = "notOpened"
  /\ live # None
  /\ \/ walk.at # "idle"
     \/ \E w \in Reservers : resv[w].at # "idle"
  /\ walk' = NoWalk
  /\ ReserversDropped
  /\ UNCHANGED <<files, accounts, build, handleVars, workload, scanned, rows,
                 ingestVars>>

\* The process dies, or the host drops the handle.
Crash ==
  /\ build.at # "idle" \/ live # None
  /\ build' = NoBuild
  /\ live' = None
  /\ actor' = "notOpened"
  /\ walk' = NoWalk
  /\ scan' = NoScan
  /\ ReserversDropped
  /\ UNCHANGED <<files, accounts, workload, scanned, rows, best, mine, queued,
                 tipRow, roots, damaged>>

Next == Build \/ Reset \/ Dispense \/ Refresh \/ Scan \/ NotOpened \/ Crash

Spec == Init /\ [][Next]_vars

-----------------------------------------------------------------------------
BuildStages == {"idle", "unseal", "find", "chain", "identity", "seal",
                "import", "tip", "assemble"}
ActorStages == {"notOpened", "opened", "resetImport", "resetTip"}

TypeOK ==
  /\ identity \in {"absent", "written"}
  /\ sealed \in Seeds \cup {None}
  /\ accounts \subseteq Seeds
  /\ build \in [call : Calls \cup {None}, at : BuildStages, seed : Seeds \cup {None}]
  /\ live \in Seeds \cup {None}
  /\ actor \in ActorStages
  /\ workload \subseteq Activities
  /\ ReservationsTypeOK
  /\ UtxoRefreshTypeOK
  /\ ScanIngestTypeOK

(***************************************************************************)
(* Whatever the process died in, the files belong together: every account  *)
(* of the database is of the seed in the seed file, the seed file has its  *)
(* identity beside it, and a wallet handle is of that seed and, but for a  *)
(* reset that failed under it, of an account that exists.  In particular   *)
(* openOrCreate brings the same wallet back after a crash between the      *)
(* sealing and the account, or inside a reset (WalletBuilder,              *)
(* reset_to_birthday).                                                     *)
(***************************************************************************)
FilesBelongTogether ==
  /\ accounts \subseteq {sealed}
  /\ sealed # None => identity = "written"
  /\ live # None => live = sealed
  /\ live # None /\ actor = "opened" => accounts = {live}
=============================================================================
