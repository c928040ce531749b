------------------------------ MODULE MCCatchUp -----------------------------
(* CatchUpProperties on a small instance. *)
EXTENDS CatchUpProperties, TLC
=============================================================================
