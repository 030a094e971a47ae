----------------------------- MODULE MCBranchFlip -----------------------------
(* BranchFlip for TLC.                                                     *)
EXTENDS BranchFlip, TLC

(* Mounts are interchangeable, and so are commands.                        *)
WriterSymmetry == Permutations(Sealers) \cup Permutations(Flippers)
=============================================================================
