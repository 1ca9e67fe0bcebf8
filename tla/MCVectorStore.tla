--------------------------- MODULE MCVectorStore ---------------------------
(***************************************************************************)
(* TLC instance of VectorStore.  The vectors lie on a line at the marks of *)
(* a Golomb ruler: no two pairs of them are equally far apart.             *)
(***************************************************************************)
EXTENDS VectorStore, TLC

Distance(a, b) == IF a < b THEN a - b ELSE b - a

Symmetry == Permutations(Id)
=============================================================================
