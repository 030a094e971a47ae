---------------------------- MODULE MCKeyRotation ----------------------------
(* KeyRotation for TLC.                                                    *)
EXTENDS KeyRotation, TLC
=============================================================================
