----------------------------- MODULE MCLifecycle ----------------------------
(***************************************************************************)
(* Model checking of the lifecycle on one or two workers.                  *)
(***************************************************************************)
EXTENDS Lifecycle
=============================================================================
