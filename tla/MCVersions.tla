----------------------------- MODULE MCVersions -----------------------------
(* BlueprintVersions on small instances. *)
EXTENDS BlueprintVersions, TLC

Symmetry == Permutations(Ids) \cup Permutations(Names) \cup Permutations(Contents)
              \cup Permutations(Requests)
=============================================================================
