------------------------------- MODULE MCRuns -------------------------------
(* RunProperties on a small instance. *)
EXTENDS RunProperties, TLC

\* Jobs, workers and request slots are interchangeable.
Symmetry == Permutations(Jobs) \cup Permutations(Workers) \cup Permutations(Requests)
=============================================================================
