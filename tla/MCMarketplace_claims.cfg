\* Two workers, one job, as many workers as one broadcast reaches.
CONSTANTS
  Job = {j1}
  Worker = {w1, w2}
  Coordinator = coordinator
  Outsider = outsider
  NoOne = nobody
  Foreign = {}
  Outsiders = {}
  OnChain = FALSE
  DefaultDeadline = 1
  MaxClock = 1
  MaxInFlight = 1
  Fanout = 2
  Faults = {"prover"}
  MaxCrashes = 0
SPECIFICATION FairSpec
INVARIANTS SoleProver ClaimUnderWay
PROPERTIES ClaimResolves
\* Jobs are finite and time is bounded: the system comes to rest.
CHECK_DEADLOCK FALSE
