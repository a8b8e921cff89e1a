----------------------------- MODULE MCCowStore -----------------------------
(***************************************************************************)
(* Instances of CowStore for TLC.                                          *)
(***************************************************************************)
EXTENDS CowStore, TLC

Symmetry == Permutations(Readers)
=============================================================================
