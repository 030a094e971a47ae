----------------------------- MODULE MCWriteLease -----------------------------
(* WriteLease for TLC.                                                     *)
EXTENDS WriteLease, TLC

(* Sessions are interchangeable when none of them steals.                  *)
SessionSymmetry == Permutations(Sessions)
=============================================================================
