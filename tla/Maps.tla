-------------------------------- MODULE Maps --------------------------------
(***************************************************************************)
(* Objects that the pages spread into new ones (the copy that               *)
(* views/ExperimentWizardView.tsx makes of the draft, and                   *)
(* views/BlueprintWizardView.tsx of the configuration): a map is a function *)
(* on the fields it has.                                                    *)
(***************************************************************************)

\* { ...g, ...f }
Over(f, g) == [k \in (DOMAIN f) \cup (DOMAIN g) |-> IF k \in DOMAIN f THEN f[k] ELSE g[k]]

\* { ...g, [key]: value }
Put(g, key, value) == [k \in (DOMAIN g) \cup {key} |-> IF k = key THEN value ELSE g[k]]
=============================================================================
