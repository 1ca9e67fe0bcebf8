-------------------------- MODULE MCDurableCorpus --------------------------
(***************************************************************************)
(* TLC instance of DurableCorpus.                                          *)
(***************************************************************************)
EXTENDS DurableCorpus, TLC

Symmetry == Permutations(Uri)
=============================================================================
