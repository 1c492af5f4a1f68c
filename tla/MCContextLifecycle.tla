-------------------------- MODULE MCContextLifecycle --------------------------
(* Values of ContextLifecycle's constants for TLC. *)
EXTENDS ContextLifecycle, TLC

CONSTANT d1
=============================================================================
