---------------------------- MODULE MCQMPBridge ----------------------------
(* TLC instances of QMPBridge. *)
EXTENDS QMPBridge, TLC
=============================================================================
