\* An outsider proves the job while create_job waits for its receipt.
CONSTANTS
  Job = {j1}
  Worker = {w1}
  Coordinator = coordinator
  Outsider = outsider
  NoOne = nobody
  Foreign = {}
  Outsiders = {j1}
  OnChain = TRUE
  DefaultDeadline = 1
  MaxClock = 2
  MaxInFlight = 2
  Fanout = 3
  Faults = {}
  MaxCrashes = 0
SPECIFICATION FairSpec
PROPERTIES PaymentIsReported
\* Jobs are finite and time is bounded: the system comes to rest.
CHECK_DEADLOCK FALSE
