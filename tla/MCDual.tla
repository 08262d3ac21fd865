------------------------------- MODULE MCDual -------------------------------
(***************************************************************************)
(* Small instance of DualImage: two processes that may run sysupgrade, two *)
(* revisions, an image that is given up after one start.                   *)
(***************************************************************************)
EXTENDS DualImage, TLC

(* The processes differ in nothing, and revisions are only compared.       *)
Symmetry == Permutations(Runs) \cup Permutations(Revs)
=============================================================================
