SPECIFICATION Spec
CONSTANTS
  Experiments = {e1}
  Jobs = {j1}
  Workers = {w1}
  Requests = {r1}
  NPerms = 1
  Endpoints = {"retry", "refresh", "cancel", "jobcancel", "delete"}
  NoJob = NoJob
  NoExperiment = NoExperiment
PROPERTIES
  CancelledStaysStopped
CHECK_DEADLOCK FALSE
