\* A job is expired while the proof is in the mempool.
CONSTANTS
  Job = {j1}
  Worker = {w1, w2}
  Coordinator = coordinator
  Outsider = outsider
  NoOne = nobody
  Foreign = {}
  Outsiders = {}
  OnChain = TRUE
  DefaultDeadline = 1
  MaxClock = 2
  MaxInFlight = 2
  Fanout = 3
  Faults = {}
  MaxCrashes = 0
SPECIFICATION Spec
SYMMETRY WorkerSymmetry
INVARIANTS CompletedMeansPaid
\* Jobs are finite and time is bounded: the system comes to rest.
CHECK_DEADLOCK FALSE
