----------------------------- MODULE MCLifecycle -----------------------------
(* Model values for Lifecycle.                                             *)
EXTENDS Lifecycle
=============================================================================
