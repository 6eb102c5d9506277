---------------------------- MODULE MCLifecycle ----------------------------
(***************************************************************************)
(* Instances of the lifecycle monitor for TLC.                             *)
(***************************************************************************)
EXTENDS LifecycleProperties
=============================================================================
