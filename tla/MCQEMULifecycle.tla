-------------------------- MODULE MCQEMULifecycle --------------------------
(* TLC instances of QEMULifecycle. *)
EXTENDS QEMULifecycle, TLC
=============================================================================
