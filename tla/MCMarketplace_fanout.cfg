\* One connection more than a broadcast reaches.
CONSTANTS
  Job = {j1}
  Worker = {w1, w2}
  Coordinator = coordinator
  Outsider = outsider
  NoOne = nobody
  Foreign = {}
  Outsiders = {}
  OnChain = FALSE
  DefaultDeadline = 1
  MaxClock = 2
  MaxInFlight = 1
  Fanout = 1
  Faults = {}
  MaxCrashes = 0
SPECIFICATION FairSpec
PROPERTIES ClaimResolves
\* Jobs are finite and time is bounded: the system comes to rest.
CHECK_DEADLOCK FALSE
