\* No gossip message can be relied on: only the indexer is left.  Somebody else's
\* job may expire in between, which puts an entry into the log that the indexer
\* must step over; nobody proves it, and no property demands anything of it.
CONSTANTS
  Job = {j1, j2}
  Worker = {w1}
  Coordinator = coordinator
  Outsider = outsider
  NoOne = nobody
  Foreign = {j2}
  Outsiders = {}
  OnChain = TRUE
  DefaultDeadline = 1
  MaxClock = 2
  MaxInFlight = 2
  Fanout = 3
  Faults = {"loss", "rpc", "prover", "abandon"}
  MaxCrashes = 0
SPECIFICATION FairSpec
INVARIANTS PaymentUnderWay
PROPERTIES PaymentIsReported
\* Jobs are finite and time is bounded: the system comes to rest.
CHECK_DEADLOCK FALSE
