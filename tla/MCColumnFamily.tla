-------------------------- MODULE MCColumnFamily --------------------------
(***************************************************************************)
(* Instances of ColumnFamily for TLC.  The configurations differ in who    *)
(* compacts, where the process may die and which selection rules apply.    *)
(***************************************************************************)
EXTENDS ColumnFamily

(* Crash points: before the flush has changed what a restart loads, or any *)
(* step of it.                                                             *)
BeforeInstall == {"idle", "frozen", "written"}
AnyStep == FlushStep
UpToInstalled == FlushStep \ {"emptied"}

(* Where a flush may stop with an I/O error. *)
AnyFailure == {"frozen", "written", "installed"}
OnlyWrite == {"frozen"}
OnlyCut == {"installed"}

(* A memtable that one write fills, for long behaviours of few states. *)
Filled == mem = {}

(* What auto_compact's loop waits for: needs_compact does not stay true.   *)
NeedsNothing == \A limit \in Limits : NeedsCompact(limit) ~> ~NeedsCompact(limit)
===========================================================================
