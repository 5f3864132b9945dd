\* A proof is mined while the coordinator is down.
CONSTANTS
  Job = {j1}
  Worker = {w1}
  Coordinator = coordinator
  Outsider = outsider
  NoOne = nobody
  Foreign = {}
  Outsiders = {}
  OnChain = TRUE
  DefaultDeadline = 1
  MaxClock = 2
  MaxInFlight = 2
  Fanout = 3
  Faults = {"crash"}
  MaxCrashes = 1
SPECIFICATION FairSpec
PROPERTIES KnownPaymentIsReported
\* Jobs are finite and time is bounded: the system comes to rest.
CHECK_DEADLOCK FALSE
