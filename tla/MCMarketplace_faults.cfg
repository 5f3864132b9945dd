\* Two workers and an outsider race for one job; messages are skipped,
\* connections break and their dead handles still take the single fanout slot,
\* requests are abandoned, the node does not answer, provers fail.
CONSTANTS
  Job = {j1}
  Worker = {w1, w2}
  Coordinator = coordinator
  Outsider = outsider
  NoOne = nobody
  Foreign = {}
  Outsiders = {j1}
  OnChain = TRUE
  DefaultDeadline = 1
  MaxClock = 2
  MaxInFlight = 1
  Fanout = 1
  Faults = {"loss", "disconnect", "rpc", "prover", "abandon"}
  MaxCrashes = 0
SPECIFICATION Spec
SYMMETRY WorkerSymmetry
INVARIANTS TypeOK SoleProver ProverIsAssigned BusyWhileProving CompletedIsSettled PaymentUnderWay
PROPERTIES NeverReopened ProvedOnce
\* Jobs are finite and time is bounded: the system comes to rest.
CHECK_DEADLOCK FALSE
