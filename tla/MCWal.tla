------------------------------- MODULE MCWal -------------------------------
(***************************************************************************)
(* TLC instance of Wal: two interchangeable records, group commits of up   *)
(* to two of them, a file of up to four frames.  That is enough for a      *)
(* fragment with acknowledged frames on both sides of it, and for a        *)
(* truncation between two fills of the log.                                *)
(***************************************************************************)
EXTENDS Wal, TLC

Symmetry == Permutations(Record)
=============================================================================
