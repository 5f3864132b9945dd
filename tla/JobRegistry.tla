----------------------------- MODULE JobRegistry -----------------------------
(***************************************************************************)
(* contracts/src/JobRegistry.sol.  Each external function is one action up *)
(* to the point where the EVM leaves the contract: submitProof and         *)
(* expireJob hand control to the account they pay, which may be a contract *)
(* that calls back before it returns, or reverts.  `calls` is the stack of *)
(* such unfinished payments; each keeps the storage found on entry, which  *)
(* `revert TransferFailed()` restores.                                     *)
(***************************************************************************)
EXTENDS Integers, Sequences, FiniteSets, FiniteSetsExt

CONSTANTS Job,           \* bytes32 job identifiers
          Account,       \* addresses that send transactions
          Contracts,     \* those with code: may call back, may reject ether
          ZeroAddress,   \* owner of a job that was never submitted
          Payload,       \* job inputs; sha256 is taken to be injective on them
          EmptyPayload,  \* bytes("")
          Result,        \* what a journal may carry after its first 64 bytes
          NoResult,      \* field of an event that has no result
          GuestResult,   \* what the guest program computes for each payload
          ShortJournal,  \* a journal of fewer than 64 bytes
          Reward,        \* msg.value of submitJob
          Funds,         \* ether each account starts with
          MockVerifier,  \* TRUE: MockRiscZeroVerifier, which accepts any seal
          MaxClock,      \* bound on block.timestamp
          MaxDepth       \* bound on nested calls (gas and 1024 in the EVM)

ASSUME ConstantsAssumption ==
  /\ IsFiniteSet(Job)
  /\ Contracts \subseteq Account
  /\ ZeroAddress \notin Account
  /\ EmptyPayload \in Payload
  /\ GuestResult \in [Payload -> Result]
  /\ NoResult \notin Result
  /\ Reward \subseteq Nat
  /\ Funds \in [Account -> Nat]
  /\ MockVerifier \in BOOLEAN
  /\ MaxClock \in Nat
  /\ MaxDepth \in Nat

VARIABLES clock,      \* block.timestamp
          jobs,       \* mapping jobs
          completed,  \* mapping completed: proved or expired
          balance,    \* ether held by the contract
          wallet,     \* ether held by each account
          events,     \* the event log, in order
          calls,      \* payments whose recipient has not returned, innermost last
          proved      \* <<job, payload>> pairs some guest execution has a receipt for

storage == <<jobs, completed, balance, wallet, events>>
vars == <<clock, jobs, completed, balance, wallet, events, calls, proved>>

Journal == [job : Job, payload : Payload, result : Result] \cup {ShortJournal}

NullJob == [owner |-> ZeroAddress, payload |-> EmptyPayload, reward |-> 0,
            deadline |-> 0, exists |-> FALSE]

JobRecord == [owner : Account, payload : Payload, reward : Nat \ {0},
              deadline : Nat, exists : {TRUE}] \cup {NullJob}

EventRecord == [type : {"JobSubmitted", "JobCompleted", "JobExpired"}, job : Job,
                who : Account \cup {ZeroAddress}, result : Result \cup {NoResult}]

Storage == [jobs : [Job -> JobRecord], completed : [Job -> BOOLEAN], balance : Nat,
            wallet : [Account -> Nat], events : Seq(EventRecord)]

CallRecord == [event : EventRecord, to : Account, entry : Storage]

Snapshot == [jobs |-> jobs, completed |-> completed, balance |-> balance,
             wallet |-> wallet, events |-> events]

Top == calls[Len(calls)]

Init == /\ clock = 0
        /\ jobs = [j \in Job |-> NullJob]
        /\ completed = [j \in Job |-> FALSE]
        /\ balance = 0
        /\ wallet = Funds
        /\ events = <<>>
        /\ calls = <<>>
        /\ proved = {}

-----------------------------------------------------------------------------

(* A transaction starts when none runs; inside one, only code reached from *)
(* the account being paid can call the registry.                           *)
MayCall(a) == \/ calls = <<>>
              \/ /\ calls # <<>>
                 /\ Len(calls) < MaxDepth
                 /\ Top.to \in Contracts
                 /\ a \in Contracts

(* IRiscZeroVerifier.verify: a seal exists for the journals the guest      *)
(* committed in some execution, and for no others.                         *)
Verified(journal) == \/ MockVerifier
                     \/ /\ <<journal.job, journal.payload>> \in proved
                        /\ journal.result = GuestResult[journal.payload]

Unmarked(j) == completed

Marked(j) == [completed EXCEPT ![j] = TRUE]

(* `completed[jobId] = true`, then `to.call{value: reward}("")` up to the  *)
(* first instruction of `to`.  Without enough ether the call fails and the *)
(* function reverts.                                                       *)
Settle(to, j, event) ==
  /\ balance >= jobs[j].reward
  /\ completed' = Marked(j)
  /\ balance' = balance - jobs[j].reward
  /\ wallet' = [wallet EXCEPT ![to] = @ + jobs[j].reward]
  /\ calls' = Append(calls, [event |-> event, to |-> to, entry |-> Snapshot])
  /\ UNCHANGED <<clock, jobs, events, proved>>

Tick == /\ calls = <<>>
        /\ clock < MaxClock
        /\ clock' = clock + 1
        /\ UNCHANGED <<storage, calls, proved>>

(* Off chain: somebody runs the guest on an input of its choice.           *)
GuestRuns(j, p) == /\ proved' = proved \cup {<<j, p>>}
                   /\ UNCHANGED <<clock, storage, calls>>

AcceptsFreeJob(j, value, deadline) == ~jobs[j].exists /\ deadline > clock

Accepts(j, value, deadline) == ~jobs[j].exists /\ value # 0 /\ deadline > clock

MaySettleAgain(j) == jobs[j].exists

MaySettle(j) == jobs[j].exists /\ ~completed[j]

PastDeadlineEarly(j) == clock >= jobs[j].deadline

PastDeadline(j) == clock > jobs[j].deadline

JournalMatchesId(j, journal) == journal # ShortJournal /\ journal.job = j

JournalMatches(j, journal) == /\ journal # ShortJournal
                              /\ journal.job = j
                              /\ journal.payload = jobs[j].payload

SubmitJob(a, j, p, value, deadline) ==
  /\ MayCall(a)
  /\ wallet[a] >= value
  /\ Accepts(j, value, deadline)
  /\ jobs' = [jobs EXCEPT ![j] = [owner |-> a, payload |-> p, reward |-> value,
                                  deadline |-> deadline, exists |-> TRUE]]
  /\ balance' = balance + value
  /\ wallet' = [wallet EXCEPT ![a] = @ - value]
  /\ events' = Append(events, [type |-> "JobSubmitted", job |-> j, who |-> a,
                               result |-> NoResult])
  /\ UNCHANGED <<clock, completed, calls, proved>>

SubmitProof(a, j, journal) ==
  /\ MayCall(a)
  /\ MaySettle(j)
  /\ ~PastDeadline(j)
  /\ JournalMatches(j, journal)
  /\ Verified(journal)
  /\ Settle(a, j, [type |-> "JobCompleted", job |-> j, who |-> a, result |-> journal.result])

ExpireJob(a, j) ==
  /\ MayCall(a)
  /\ MaySettle(j)
  /\ PastDeadline(j)
  /\ Settle(jobs[j].owner, j, [type |-> "JobExpired", job |-> j, who |-> ZeroAddress,
                               result |-> NoResult])

(* success: the event is emitted and the function returns to its caller.   *)
CallReturns ==
  /\ calls # <<>>
  /\ events' = Append(events, Top.event)
  /\ calls' = SubSeq(calls, 1, Len(calls) - 1)
  /\ UNCHANGED <<clock, jobs, completed, balance, wallet, proved>>

(* The recipient reverts: so does everything since the function's entry.   *)
CallFails ==
  /\ calls # <<>>
  /\ Top.to \in Contracts
  /\ jobs' = Top.entry.jobs
  /\ completed' = Top.entry.completed
  /\ balance' = Top.entry.balance
  /\ wallet' = Top.entry.wallet
  /\ events' = Top.entry.events
  /\ calls' = SubSeq(calls, 1, Len(calls) - 1)
  /\ UNCHANGED <<clock, proved>>

Next == \/ Tick
        \/ \E j \in Job, p \in Payload : GuestRuns(j, p)
        \/ \E a \in Account, j \in Job, p \in Payload, value \in Reward,
              deadline \in 0..MaxClock : SubmitJob(a, j, p, value, deadline)
        \/ \E a \in Account, j \in Job, journal \in Journal : SubmitProof(a, j, journal)
        \/ \E a \in Account, j \in Job : ExpireJob(a, j)
        \/ CallReturns
        \/ CallFails

Spec == Init /\ [][Next]_vars

TransactionEnds == Len(calls) = 1 /\ (CallReturns \/ CallFails)

(* Gas: recipients return or revert in the end, and a transaction does not *)
(* go on for ever, however often calls return inside it.                   *)
FairSpec == /\ Spec
            /\ WF_vars(CallReturns \/ CallFails)
            /\ SF_vars(TransactionEnds)

-----------------------------------------------------------------------------

(* Every variable stays in its type: storage, saved storage and events are *)
(* ones the Solidity types allow.                                          *)
TypeOK == /\ clock \in 0..MaxClock
          /\ Snapshot \in Storage
          /\ calls \in Seq(CallRecord)
          /\ proved \subseteq Job \X Payload

IsSettlement(event, j) == event.job = j /\ event.type \in {"JobCompleted", "JobExpired"}

SettledIn(log, j) == {i \in DOMAIN log : IsSettlement(log[i], j)}

PendingIn(stack, j) == {i \in DOMAIN stack : IsSettlement(stack[i].event, j)}

(* A job whose `completed` flag is set has been settled exactly once: by   *)
(* one JobCompleted or JobExpired event, or by one payment still under     *)
(* way; and a job that was settled carries the flag.  Reentrant calls that *)
(* return, revert or are swallowed by the caller must not break the pairing.*)
SettledOnce == \A j \in Job :
  Cardinality(SettledIn(events, j)) + Cardinality(PendingIn(calls, j))
    = IF completed[j] THEN 1 ELSE 0

Open == {j \in Job : jobs[j].exists /\ ~completed[j]}

Rewards == [j \in Job |-> jobs[j].reward]

(* The contract always holds exactly the rewards of the jobs that are      *)
(* still open, in the middle of a reentrant payment too: no reward is paid *)
(* out of another job's deposit, and none is stranded.                     *)
Solvent == balance = SumFunctionOnSet(Rewards, Open)

Recipient(event) == IF event.type = "JobCompleted" THEN event.who ELSE jobs[event.job].owner

(* The log and the stack explain every wallet: an account has spent the    *)
(* rewards of the jobs it owns and received the rewards of the jobs the    *)
(* log or an unfinished call says it was paid for.                         *)
Explained ==
  \A a \in Account :
    LET spent == {j \in Job : jobs[j].owner = a}
        got == {j \in Job : \/ \E i \in SettledIn(events, j) : Recipient(events[i]) = a
                            \/ \E i \in PendingIn(calls, j) : calls[i].to = a}
    IN wallet[a] = Funds[a] - SumFunctionOnSet(Rewards, spent)
                            + SumFunctionOnSet(Rewards, got)

(* With the real verifier a reward leaves for a prover only if some guest  *)
(* execution was run for that very job on the payload its owner submitted, *)
(* and the JobCompleted event carries that execution's result.             *)
PaidWorkWasProved ==
  ~MockVerifier =>
    \A i \in DOMAIN events : events[i].type = "JobCompleted" =>
      LET j == events[i].job IN
        /\ <<j, jobs[j].payload>> \in proved
        /\ events[i].result = GuestResult[jobs[j].payload]

Expires(j) == calls = <<>> /\ \E a \in Account : ExpireJob(a, j)

Refuses(j) == Len(calls) = 1 /\ Top.event.job = j /\ CallFails

(* Whoever keeps calling expireJob on a job past its deadline gets its     *)
(* reward out for good, unless the recipient refuses it for ever: no other *)
(* job, no payment nested in another one and no failure of one can lock it.*)
RewardLeaves ==
  \A j \in Job :
    SF_vars(Expires(j)) /\ <>[][~Refuses(j)]_vars =>
      (jobs[j].exists /\ PastDeadline(j) ~> []completed[j])

-----------------------------------------------------------------------------

(* The state the rest of the world sees: between transactions, the storage; *)
(* during one, the storage the outermost call started from.                *)
Committed == IF calls = <<>> THEN Snapshot ELSE calls[1].entry

LastEvent(log, j) == log[CHOOSE i \in SettledIn(log, j) : TRUE]

EscrowOf(s, j) ==
  [state |-> IF ~s.jobs[j].exists THEN "none"
             ELSE IF SettledIn(s.events, j) = {} THEN "open"
             ELSE IF LastEvent(s.events, j).type = "JobCompleted" THEN "paid" ELSE "refunded",
   owner |-> s.jobs[j].owner,
   deadline |-> s.jobs[j].deadline,
   payee |-> IF SettledIn(s.events, j) = {} THEN ZeroAddress
             ELSE IF LastEvent(s.events, j).type = "JobCompleted" THEN LastEvent(s.events, j).who
             ELSE s.jobs[j].owner]

Promise == INSTANCE Escrow WITH NoAccount <- ZeroAddress,
                                escrow <- [j \in Job |-> EscrowOf(Committed, j)]

(* The contract implements the escrow: whatever the recipients do, each    *)
(* transaction moves each reward as one step of the abstract escrow, with  *)
(* its deadlines, owners and payees.                                       *)
ImplementsEscrow == Promise!Spec
=============================================================================
