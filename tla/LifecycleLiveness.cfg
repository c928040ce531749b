SPECIFICATION FairSpec
CONSTANTS
  Experiments = {e1}
  Jobs = {j1, j2}
  Workers = {w1}
  Requests = {r1}
  NPerms = 1
  Endpoints = {"retry", "refresh", "cancel", "jobcancel", "delete"}
  NoJob = NoJob
  NoExperiment = NoExperiment
PROPERTIES
  EventuallySettled
CHECK_DEADLOCK FALSE
