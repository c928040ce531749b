----------------------------- MODULE MCLifecycle ----------------------------
(* LifecycleProperties on a small instance. *)
EXTENDS LifecycleProperties, TLC

=============================================================================
