--------------------------- MODULE MCSnapshotFile ---------------------------
(***************************************************************************)
(* TLC instance of SnapshotFile: two process ids and three saves, enough   *)
(* for a save that races another while it sweeps the leftovers of a third. *)
(***************************************************************************)
EXTENDS SnapshotFile
=============================================================================
