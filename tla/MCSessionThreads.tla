-------------------------- MODULE MCSessionThreads --------------------------
(* SessionThreads for TLC.                                                 *)
EXTENDS SessionThreads, TLC

(* A browse session interleaves more threads: one write is enough there to *)
(* be staged, frozen, stranded or published; a mount has a second one, to  *)
(* land during the seal of the first.                                      *)
Writes == [f \in Frontends |-> IF f = "browse" THEN 1 ELSE 2]
=============================================================================
