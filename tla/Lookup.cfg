SPECIFICATION LookupSpec
CONSTANTS
  Experiments = {e1}
  Jobs = {j1, j2}
  Workers = {w1, w2}
  Requests = {r1, r2}
  NPerms = 1
  Endpoints = {"retry", "refresh"}
  NoJob = NoJob
  NoExperiment = NoExperiment
SYMMETRY Symmetry
INVARIANTS
  ReconcileOnlyAfterGap
CHECK_DEADLOCK FALSE
