-------------------------- MODULE MCMemtableFlush --------------------------
(* Instances of MemtableFlush for TLC. *)
EXTENDS MemtableFlush, TLC

\* Files and bodies play the same part.
Symmetric == Permutations(Inodes) \cup Permutations(Data)
=============================================================================
