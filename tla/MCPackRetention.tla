-------------------------- MODULE MCPackRetention ---------------------------
(* PackRetention for TLC.                                                  *)
EXTENDS PackRetention, TLC
=============================================================================
