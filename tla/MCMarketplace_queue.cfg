\* One worker and two jobs: one of them is announced while it is busy.
CONSTANTS
  Job = {j1, j2}
  Worker = {w1}
  Coordinator = coordinator
  Outsider = outsider
  NoOne = nobody
  Foreign = {}
  Outsiders = {}
  OnChain = FALSE
  DefaultDeadline = 1
  MaxClock = 1
  MaxInFlight = 2
  Fanout = 3
  Faults = {"prover"}
  MaxCrashes = 0
SPECIFICATION FairSpec
INVARIANTS BusyWhileProving
PROPERTIES PendingIsTaken
\* Jobs are finite and time is bounded: the system comes to rest.
CHECK_DEADLOCK FALSE
