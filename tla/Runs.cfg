SPECIFICATION RunSpec
CONSTANTS
  Experiments = {e1}
  Jobs = {j1, j2}
  Workers = {w1, w2}
  Requests = {r1}
  NPerms = 2
  Endpoints = {"retry", "refresh", "cancel", "jobcancel", "delete"}
  NoJob = NoJob
  NoExperiment = NoExperiment
SYMMETRY Symmetry
INVARIANTS
  LifecycleInv
  RunsHaveCommittedRows
  CancelBoundsWork
  UndisturbedRunIsWhole
PROPERTIES
  NoResurrection
  UndisturbedPath
  ExecutesAtMostOnce
CHECK_DEADLOCK FALSE
