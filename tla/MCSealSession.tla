---------------------------- MODULE MCSealSession ----------------------------
(* SealSession for TLC.                                                    *)
EXTENDS SealSession, TLC

(* Sessions are interchangeable when none of them steals.                  *)
SessionSymmetry == Permutations(Sessions)
=============================================================================
