\* Two rewards of different size, an owner and an account that is a contract:
\* it may call back or revert while it is paid, and bring any journal.
CONSTANTS
  job1 = job1
  job2 = job2
  owner = owner
  recipient = recipient
  Base = 4
  WordBytes = 2
  FieldBytes = 1
  Sha256 <- Digest
  Data <- ShortInputs
  Job = {job1, job2}
  Account = {owner, recipient}
  Contracts = {recipient}
  ZeroAddress = zero
  Payload <- TwoPayloads
  EmptyPayload <- EmptyInput
  Result <- Results
  NoResult = none
  GuestResult <- Computed
  ShortJournal = short
  Reward <- UnequalRewards
  Funds <- UnequalFunds
  MockVerifier = FALSE
  MaxClock = 2
  MaxDepth = 2
SPECIFICATION FairSpec
INVARIANTS TypeOK SettledOnce Solvent Explained PaidWorkWasProved PaidForFibonacci
PROPERTIES ImplementsEscrow RewardLeaves
\* Time is bounded: once every job is settled nothing is left to call.
CHECK_DEADLOCK FALSE
