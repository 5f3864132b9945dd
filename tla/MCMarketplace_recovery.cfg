\* The coordinator crashes once and restarts from any earlier snapshot, which may
\* make it give the job to a second worker, while an outsider proves it as well.
CONSTANTS
  Job = {j1}
  Worker = {w1, w2}
  Coordinator = coordinator
  Outsider = outsider
  NoOne = nobody
  Foreign = {}
  Outsiders = {j1}
  OnChain = TRUE
  DefaultDeadline = 1
  MaxClock = 2
  MaxInFlight = 1
  Fanout = 1
  Faults = {"crash", "rpc"}
  MaxCrashes = 1
SPECIFICATION Spec
SYMMETRY WorkerSymmetry
INVARIANTS SoleProver BusyWhileProving CompletedIsSettled
PROPERTIES NeverReopened
\* Jobs are finite and time is bounded: the system comes to rest.
CHECK_DEADLOCK FALSE
