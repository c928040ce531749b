------------------------------ MODULE MCLookup ------------------------------
(* LookupProperties on a small instance. *)
EXTENDS LookupProperties, TLC

\* Jobs, workers and request slots are interchangeable.
Symmetry == Permutations(Jobs) \cup Permutations(Workers) \cup Permutations(Requests)
=============================================================================
