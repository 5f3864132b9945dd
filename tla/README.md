# Specification of proof-job-zk

proof-job-zk is a market for zero-knowledge proofs. A coordinator locks a reward in a
contract and announces the job over gossip; a worker claims it, proves it and submits the
proof; the contract checks the proof and pays. This directory holds TLA+ specifications of
that system, the TLC configurations that check them, and proofs checked by TLAPS.

```
tlc -workers 2 -config MCJobRegistry_contract.cfg MCJobRegistry.tla
tlc -workers 2 -config MCMarketplace_faults.cfg MCMarketplace.tla
tlc -workers 2 -config MCGossip_overlay.cfg MCGossip.tla
tlc -workers 2 -config MCGossipChannels_channels.cfg MCGossipChannels.tla
tlapm FiniteSums.tla
tlapm JobRegistryProofs.tla
tlapm EscrowProofs.tla
tlapm GuestProofs.tla
tlapm GossipProofs.tla
tlapm GossipChannelsProofs.tla
tlapm MarketplaceTypes.tla
tlapm MarketplaceProofs.tla
```

## 1. Inventory

Paths are relative to the repository root.

| Part | State | Operations | Correct when |
| --- | --- | --- | --- |
| **JobRegistry** `contracts/src/JobRegistry.sol` | `jobs`, `completed`, ether, event log | `submitJob`, `submitProof`, `expireJob`, `getJob` | each reward leaves once, to a prover in time or to the owner after the deadline, whatever recipients do while they are paid; only proofs of the submitted work are paid |
| **contract-client** `crates/contract-client` | none (each call builds a provider) | `submit_job`, `submit_proof`, `is_completed` | what it reports of a transaction is what happened to it |
| **Coordinator** `crates/coordinator` | `AppState.jobs` (a DashMap), `coordinator_jobs.json` | `POST /jobs`, claim arbitration, completion messages, rebroadcast, snapshots | one worker per job; the job map follows the chain and never goes back |
| **Worker** `crates/worker` | `status` under a lock, spawned `run_proving` tasks | JobAvailable, ClaimAccepted, ClaimRejected, prove, submit, announce | one task at a time, the status says which; it is idle again in the end |
| **Gossip** `crates/gossip` | connections, seen cache, bounded channels | `broadcast`, `send`, forwarding, `connect`, `accept`, connection tasks | a message is taken once, travels no further than its TTL, and reaches those who wait for it; a connection neither loses nor reorders while it stands; waiting ends |
| **Indexer** `crates/indexer` | `last_block`; writes the coordinator's map | `poll_events` every two seconds | every payment ends up in the map |
| **Prover and guest** `crates/prover`, `crates/methods` | none | `prove`, `verify`; the guest's `main` | the journal binds job, payload and result the way the contract reads it |
| **Core types** `crates/core` | none | statuses, messages, signatures | |
| Scripts, build files, `crates/e2e` | none | | not modelled |

How they interact: HTTP clients call the coordinator; coordinator and workers exchange
gossip envelopes (each worker dials the coordinator once, so the overlay is a star); both
call the contract through contract-client; the indexer reads the contract's log and writes
the same `DashMap` as the coordinator's tasks, without a lock spanning their awaits.

What is hard to test here, and what the properties are aimed at:

* the contract calls its recipients before it has finished (`JobRegistry.sol:78`, `:96`);
* every await of a coordinator task lets the others, the indexer included, change the map;
* answers to claims are broadcasts, and `ClaimRejected` does not say whom it rejects;
* messages get lost (lagging receivers, broken connections, random fanout) and clones are
  rebroadcast late;
* copies of a message meet on several paths, and what recognises them is a cache that
  evicts (`gossip/mod.rs:185`); the TTL is not signed;
* every gossip channel is bounded and every send waits, in tasks that do nothing else
  meanwhile (`gossip/mod.rs:166`, `:237`, `:251`), so waits can close a ring;
* the guest, the prover and the contract must cut the same bytes the same way;
* transactions revert after they were sent, and calls fail after they took effect;
* the coordinator crashes and comes back with an old snapshot and an indexer that begins at
  the current block.

The full list, with the line of each, is under `hazards` in `PROJECT.json`.

## 2. Modules

| Module | Models | Remarks |
| --- | --- | --- |
| `Escrow` | what the contract promises | abstract: a reward is `none`, `open`, `paid` or `refunded` |
| `JobRegistry` | `JobRegistry.sol` | down to the points where control leaves the contract |
| `Guest` | `methods/guest`, the journal's readers | pure operators: input, Fibonacci loop, journal |
| `FibonacciJobs` | the contract with that guest | results are bytes the guest computes |
| `MCJobRegistry` | | instances for TLC |
| `JobRegistryProofs`, `EscrowProofs`, `GuestProofs` | | TLAPS proofs |
| `ProofCore` | `crates/core` | statuses and messages |
| `Chain` | the chain as seen by the processes, `contract-client` | the escrow, a mempool, the log |
| `GossipLinks` | `crates/gossip`, as the star uses it | connections and queues |
| `Gossip` | `crates/gossip` over any overlay | TTL, fanout, signatures, seen cache |
| `Delivery` | what a connection promises | abstract: one queue per direction |
| `GossipChannels` | tasks, sockets, bounded channels of `crates/gossip` | implements `Delivery` |
| `MCGossip`, `MCGossipChannels` | | instances for TLC |
| `GossipProofs`, `GossipChannelsProofs` | | TLAPS proofs |
| `FiniteSums` | | sums over finite sets: lemmas the proofs use |
| `CoordinatorNode` | `crates/coordinator` | job map, requests, handler, rebroadcast, snapshot |
| `WorkerNode` | `crates/worker`, `crates/prover` | status and tasks |
| `Indexer` | `crates/indexer` | extends `CoordinatorNode`, whose map it writes |
| `Marketplace` | the system | composes the above; crashes, fairness, properties |
| `MCMarketplace` | | instances for TLC |
| `MarketplaceTypes`, `MarketplaceProofs` | | TLAPS proofs |

### JobRegistry

`jobs`, `completed`, `balance` are the contract's storage, `wallet` the accounts' ether,
`events` the log, `clock` the block timestamp. `SubmitJob`, `SubmitProof` and `ExpireJob` are
the three functions; a call whose checks fail reverts and changes nothing, so it is no step.
`submitProof` and `expireJob` are cut at the external call: the action marks the job, moves
the ether and pushes a frame on `calls`. While there are frames, only contracts can call
(the code being run is the recipient's), which is reentrancy; `CallReturns` pops the frame
and emits the event, `CallFails` pops it and restores the storage the function started from.
`GuestRuns` is somebody running the guest off chain, for any job and payload: `proved` is the
set of runs a receipt exists for, and `Verified` is `verify()` (or the mock, which accepts
everything). A journal is a record of its three fields, or too short; sha256 is injective.
That a record may stand for the bytes is what `Guest` shows (`JournalsAreRead`).

`Guest` has the other half: `GuestMain` joins the job id, the hash of the whole input and the
result; `ReadJournal` takes the bytes apart where `submitProof` and `prove_sync` do. `Input`
pads short inputs and cuts long ones to a word, `Fibonacci` is the guest's loop with
`wrapping_add`. Widths are constants, so that all inputs up to a byte more than a word can be
enumerated. Words are read and written byte by byte by recursive functions, and `AB[i]` is what
`a` and `b` hold after the turn for i of the loop. `FibonacciJobs` puts the two together: it
assumes that `GuestResult` is what `Guest` computes, and states `PaidForFibonacci`.

`Escrow` is the promise: per job one record, per transaction one legal change of each
record. `JobRegistry` implements it with the refinement mapping `EscrowOf(Committed, j)`:
what the world sees during a transaction is the storage it began with.

### Gossip

The crate is modelled three times, each time with what the others leave out.

`Gossip` has the decisions. `Broadcast` is `broadcast()`: sign, note the id as seen, send to
chosen connections; `Send` is `send()`, which takes an envelope as it is, signed or not, new
or kept from earlier. `send_to_peers` is a loop with an await per connection, so it is an
element of `sending` that `SendNext` works off one connection at a time; broadcasts and
forwards interleave. `ProcessIncoming` is `process_incoming`: drop what is not signed, then
what is in the cache, else note the id, hand it to subscribers and, if the TTL allows, send it
on, minus one hop, to all connections but the one it came by. While a node's own loop forwards
(`Forwarding`), it takes nothing else. `seen` is the LRU cache, most recent first; `Used` is
`get` of an id that is there and `put` of one that is not. `calls` and `heard` are histories:
what was called for, and what each node met, in order.

`GossipChannels` has the tasks. A message passes five places: the channel of a connection
(`outgoing`), the task that writes it (`writing`), the socket (`wire`), the task that read it
(`delivering`), and the one channel of the receiving loop (`incoming`). `Reads`, `Delivers`,
`Takes`, `Writes` are the arms of the connection task's `select!` and the awaits inside them:
a task that waits in one arm does nothing else. Handles of connections that ended stay in
`Inner.connections`, and sending to them fails at once. Which messages are new is left open.

`Delivery` is what remains when places and waits are forgotten: one queue per direction, cut
from its end when the connection breaks. `GossipChannels` implements it (`ImplementsDelivery`,
with `Path` as the mapping); `Gossip` and `GossipLinks` start from it.

Waits can close a ring in two ways. Two tasks at the ends of a connection each write to a full
socket and read no more. Or a node's loop waits for room in an outgoing channel while the task
of that connection waits for room in the loop's own channel. Nothing breaks either ring.
`JamNeedsLoad` says how much traffic it takes: with the code's capacities (64 and 256) 322
messages at once, or two full sockets and two. It is stated with `CanMove`, the guards of the
program's own actions (`Moves`), so that it can be proved: the proof system does not do `ENABLED`.

A copy with a smaller TTL that arrives first makes a node drop the one with the larger TTL as
a duplicate, and so ends the message's way there earlier than its TTL says. The model does
that; `Spreads` therefore promises a message to neighbours, not to a radius.

### Marketplace

Every await of the Rust code at which another task can run ends an action.

* `create_job`: `CreateJob` (deadline computed) → `SendSubmitJob` (gas estimation passes, the
  transaction is sent) → `SubmitJobReceipt` (the entry is inserted) → `AnnounceJob`;
  `SubmitJobError` is each failure, `AbandonRequest` the client going away, at which axum
  drops the handler where it awaits. `request[j]` is the place it is at.
* `run_gossip_handler`: `HandleClaim` reads a claim and decides under the entry's lock,
  `ReplyToClaim` broadcasts; `HandleJobCompleted` → `VerifyOnChain` → `MarkCompleted`.
* `run_pending_rebroadcast`: `CollectPending` clones, `RebroadcastJob` sends one clone.
* persistence: `SaveJobs`; `Crash`; `Restart` loads the file and starts the indexer at the
  current block.
* worker: `HandleJobAvailable`, `HandleClaimAccepted`, `HandleClaimRejected` are the three
  handlers, each under the status lock to its end. A spawned `run_proving` is an element of
  `tasks[w]` at `prove` (`ProvingEnds`, `ProvingFails`), `submit` (`SendSubmitProof`),
  `receipt` (`SubmitProofReceipt`), `announce`, `retire`; `SubmitProofError` is each failure.
* indexer: `StartPoll` reads the block number, `ProcessJobCompletedEvents` and
  `ProcessJobExpiredEvents` are the two queries with the loops over their results,
  `PollFails` a failed query, after which the same blocks are read again.
* chain: transactions are sent and mined later, against the state found then
  (`MineSubmitJob`, `MineSubmitProof`); anybody may expire a job (`ExpireJob`; no code in the
  repository does), submit one with any deadline (`ForeignJob`, the jobs in `Foreign`) or prove
  one (`OutsiderProves`, the jobs in `Outsiders`).

`Faults` says which failures may happen: `loss` (a receiver lags), `disconnect`, `rpc`,
`prover`, `abandon`, `crash`.

Abstractions worth knowing:

* A job is its id (`generate_job_id` draws a nonce); a transaction hash is the account that
  sent the transaction; the journal is right by construction here, since `JobRegistry` covers
  wrong ones.
* One queue per direction stands for the channels and the socket between two nodes. A
  broadcast puts the message into all chosen queues in one step; the code visits them one by
  one, so two concurrent broadcasts of the coordinator may arrive in different orders at two
  workers, which the model does not do.
* A worker restarted draws a new peer id: it is another worker. A worker that died is one
  that takes no more steps, which `Spec` (no fairness) allows at any point.
* Messages broadcast between `Worker::start` and the `subscribe` in `Worker::run` have no
  reader; that is the fault `loss`.
* `OnChain = FALSE` is a coordinator without a contract; workers always have one, and their
  submissions fail at gas estimation.

## 3. Runs

Sizes are those of two TLC workers.

| Run | Question | Instance | States |
| --- | --- | --- | --- |
| `contract` | `TypeOK`, `SettledOnce`, `Solvent`, `Explained`, `PaidWorkWasProved`, `PaidForFibonacci`, `ImplementsEscrow`, `RewardLeaves` (liveness) | 2 jobs, rewards 1 and 2, 2 payloads, an owner and a recipient that is a contract, depth 2, real verifier; guest with 2 bytes of 4 values per word | 143 k |
| `faults` | `TypeOK`, `SoleProver`, `ProverIsAssigned`, `BusyWhileProving`, `CompletedIsSettled`, `PaymentUnderWay`, `NeverReopened`, `ProvedOnce` | 1 job, 2 workers, outsiders prove, fanout 1, loss, disconnect, rpc, prover, abandon | 855 k |
| `recovery` | `SoleProver`, `BusyWhileProving`, `CompletedIsSettled`, `NeverReopened` | 1 job, 2 workers, outsiders prove, fanout 1, rpc, one crash | 2.0 M |
| `claims` | `SoleProver`, `ClaimUnderWay`, `ClaimResolves` (liveness) | 1 job, 2 workers, fanout 2, prover | 17 k |
| `queue` | `BusyWhileProving`, `PendingIsTaken` (liveness) | 2 jobs, 1 worker, prover | 21 k |
| `reported` | `PaymentUnderWay`, `PaymentIsReported` (liveness) | 2 jobs, one of somebody else that may expire, 1 worker, loss, rpc, prover, abandon | 45 k |
| `overlay` | `TypeOK`, `NoEarlyRepeat`, `HopBound`, `StormBound`, `SpreadUnderWay`, `Spreads` (liveness) | ring of 3 nodes and a fourth behind one, fanout 2, TTL 3, cache of 1 id, 2 calls, a forged and a replayed envelope | 85 k |
| `channels` | `TypeOK`, `JamNeedsLoad`, `ImplementsDelivery` | 2 nodes that dialled each other, all capacities 1, TTL 2, 2 messages, one connection breaks | 125 k |

Bounds. Two jobs are enough for one to be settled inside the payment of another, and two
levels of calls for a frame to fail above one that returns and below one that failed; the
proofs of section 5 have no such bound. In the marketplace the interesting contests are
between two workers for a job (`faults`, `recovery`, `claims`) and between two jobs for a worker
(`queue`). `faults` and `recovery` have a fanout of one, so that the choice of connections
matters with two workers; in `claims` both workers hear everything. In `recovery` the job does
get two provers, one in each life of the coordinator. While the restored status is Pending it
may have one only, so that two workers are enough to violate `SoleProver` after a crash as well.
`MaxClock = 2` with deadlines one tick after submission gives an instant before the deadline,
the deadline itself and an instant after it. `MaxInFlight` stops the rebroadcast timer while a
worker has that many messages queued: the timer fires every five seconds, so rounds pile up
only behind a stalled reader; one or two stale copies are what a late answer needs to be
overtaken, and more add none that the properties tell apart. `MaxCrashes = 1`: a second
restart finds the same disk as the first or a later one. Workers are symmetric in `faults`
and `recovery`; the runs that check liveness do not use symmetry.

In `overlay` the ring makes copies of a message meet on two paths, the tail makes distances
differ, and node c has more connections than the fanout, so that the random choice leaves one
out. A cache of one id forgets as soon as two messages cross, which is when `NoEarlyRepeat` and
`StormBound` say something. In `channels` two connections between two nodes are the smallest
overlay in which a copy is forwarded at all; with every capacity 1, four copies suffice for
both rings of waits, and both occur. `PaidForFibonacci` evaluates every input of up to three
bytes of four values: shorter, as long as, and longer than a word, and results that wrap.

### Fairness

`FairSpec` assumes weak fairness of every tokio task that can run (handlers, requests,
rebroadcast timer, `run_proving`), of connecting, of mining and of restarting. The indexer's
two queries get strong fairness: with `rpc` faults each may fail any number of times, but the
node answers again and again. Nothing is assumed of clients, time, outsiders, `expireJob`, or
of the failures. `ProvingEnds` and `ProvingFails` are one fair disjunction: a prover ends, one
way or the other. In `JobRegistry` fairness stands for gas: a recipient returns or reverts in the
end (weak fairness of `CallReturns` and `CallFails`), and so does the outermost one, which calls
that go in and out of the contract could otherwise put off for ever (strong fairness of
`TransactionEnds`). That somebody calls `expireJob` again and again is no assumption of the
specification but a hypothesis of `RewardLeaves`. `Gossip` assumes weak fairness of each node's
loop, as tokio runs what can run, and of `SendNext` as a whole: its sends wait for nothing there.
The ways in which they may wait for ever are the subject of `GossipChannels`, which has no
liveness property, because with enough traffic none holds.

### Where code and documents disagree

Four runs are expected to find a violation; `findings` in `PROJECT.json` quotes what each
contradicts.

| Run | What the trace shows |
| --- | --- |
| `reverted` | a `submitProof` overtaken by `expireJob` reverts; contract-client returns its hash all the same, the worker announces it, `is_completed` is true of an expired job, and the map says Completed |
| `fanout` | the answer to a claim misses the claimant, who stays Claiming for ever |
| `downtime` | a proof mined while the coordinator is down is never indexed |
| `overwritten` | `create_job` writes Pending over the Completed the indexer inserted while it was waiting for its receipt |

One more disagreement is recorded here and is the subject of no run. The indexer inserts a
completed job that is not in the map (`indexer/src/lib.rs:193`), and `indexer_tests.rs:132` asserts
"unknown job should not be added to state". (The test does not get that far: `indexer_tests.rs:124`
submits a one-byte journal, which the contract rejects since it checks for 64 bytes.) The model
does what the code does. No property of a passing run depends on
which of the two is meant: `PaymentIsReported` and `PaymentUnderWay` are about the coordinator's own
jobs and its workers' payments, and nobody proves the foreign job of the run `reported`.

## 4. What the properties say

* `SettledOnce`: a completed job has one settlement, in the log or in an unfinished call.
* `Solvent`, `Explained`: the contract holds exactly the open rewards, and every wallet is
  what the log and the stack say it is, in the middle of any call.
* `ImplementsEscrow`: the transactions of the contract move rewards by the rules of `Escrow`. (The
  marketplace is built on these rules: `Chain` takes them over.)
* `PaidWorkWasProved`: no replay of a receipt for another job or another payload.
* `PaidForFibonacci`: guest, prover and contract agree on the bytes, and the event of a paid job
  carries the Fibonacci number, modulo the width, of the payload its owner sent.
* `RewardLeaves`: if somebody keeps calling `expireJob` on a job past its deadline, its reward
  leaves for good, unless its recipient refuses it for ever. It fails when another job's payment
  can empty the contract, or when a payment that reverts can undo this one after it was made.
* `SoleProver`, `ProverIsAssigned`: arbitration. Nobody proves a job before it is given away, and
  one worker does afterwards; a restarted coordinator, which may have forgotten whom it chose,
  adds one prover and no more. Until a crash, a worker proves only what the coordinator thinks it
  proves.
* `BusyWhileProving`: a worker's status and its tasks agree, so a worker cannot remain busy
  with no task, nor hold two.
* `CompletedIsSettled`, `NeverReopened`, `PaymentIsReported`: the job
  map and the chain, in both directions, through both paths.
* `PaymentUnderWay`: the safety half of `PaymentIsReported`; the other half is that the indexer
  polls. The map says Completed of a paid job, or the event is in a block it has yet to ask for:
  `last_block` must not pass a block whose events were not applied, and what was applied must not
  be undone. It does not speak of a coordinator that crashed (the run `downtime`), nor of payments
  to outsiders, which a `create_job` call may overwrite (the run `overwritten`).
* `ProvedOnce`: the work is not done twice. A `submit_proof` call may fail after its transaction was
  sent; the worker is idle again, the job is Assigned until the chain has settled it, and offers of
  the job, claims and answers to them are still queued, also for workers that were busy. Once a
  proof was sent none of these starts another task for the job, until a crash makes the coordinator
  forget whom it chose (then a second worker does begin).
* `ClaimUnderWay`: a worker in Claiming waits for its own claim, which is still queued, or for an
  answer that exists. Nothing in the worker ends that state, so a claim that is taken without an
  answer, or an answer that misses the claimant, would leave it there for ever. Three things do
  make it fail, and the property excludes them: a reader that skips messages, a broken connection,
  and more handles than the fanout (the run `fanout`).
* `ClaimResolves`, `PendingIsTaken`: progress of claims and of jobs. `ClaimUnderWay` is the safety
  half of the first; the other half is that queues are read.
* `NoEarlyRepeat`: a node takes an id as new again only after as many other ids as its cache
  holds. `StormBound`: one call costs at most Fanout + Fanout^2 + ... copies, as many terms as
  its TTL, even when the caches forget everything.
* `HopBound`: what a subscriber is given was called for and signed, by a node exactly as many
  connections away as its TTL has lost, and no further than the TTL allows.
* `Spreads`: whoever has a message and hops left, and no more connections than the fanout,
  makes all its neighbours know it, forged and replayed copies notwithstanding.
* `SpreadUnderWay`: the safety half of `Spreads`. A neighbour that does not know the message has
  a genuine copy of it coming over the connection, or a loop that has still to visit the
  connection; if it was left out, it is because the copy came from there. A forged copy that
  is noted, a connection forgotten in the choice, or an id in the cache of a node that does not
  know the message would break it, and no later step would make up for it.
* `ImplementsDelivery`, `JamNeedsLoad`: see the section on gossip above.

## 5. What is proved

### The contract

`JobRegistryProofs` proves, for every set of jobs, accounts, contracts, payloads and rewards,
both verifiers, and calls nested to any depth, from `ConstantsAssumption` only:

* `TypeCorrect`: `Spec => []TypeOK`;
* `RegistrySafe`: `Spec => []RegistryInv`;
* `SettledExactlyOnce`: `Spec => []SettledOnce`;
* `OnlyProvedWorkIsPaid`: `Spec => []PaidWorkWasProved`.

`SettledOnce` is not inductive: when a payment fails, the storage becomes one saved earlier,
of which `SettledOnce` says nothing. `RegistryInv` therefore speaks of every storage the
contract is in or could fall back to. Level k is the storage saved by the k-th unfinished
call, the level above the last call is the current one, and `Sound(s, calls, k, proved)` says
of the storage s of level k what `SettledOnce` and `PaidWorkWasProved` say of the current one,
counting only the k - 1 calls below. Then

* settling pushes a level: the new top has one more settlement pending and one more flag
  (`SettleSound`, with `CountBelow`);
* returning merges the two topmost levels: the settlement moves from the stack to the log
  (`CallReturnsSound`, with `CountAppend` and `CountBelow`);
* failing drops the top: the level below was sound (`CallFailsSound`);
* the rest leaves saved levels alone (`SoundBelow`, `SameCallsSound`). A submission writes a
  job that did not exist, so no event that needs backing is about it (`SubmitJobSound`), and
  guest executions only add to `proved`.

`EscrowProofs` proves `ContractKeepsEscrow`, `Spec => ImplementsEscrow`: the contract implements
`Escrow`. A transaction of the contract takes many steps of which the world sees the last, so
the invariant `EscrowInv` says of every level of the stack what has become of the rewards since
the transaction began: `OneStep(clock, Committed, s)`, each is one legal move away. It is kept
because moves made at one instant add up to a move (`MovesAddUp`: what is settled stays, and
what was opened now is not yet due for a refund). That a payment that returns makes a legal move
needs two more facts of the levels above it: the job is there and its deadline is on the right
side of the clock (`Due`), and the log has no settlement of it yet (`DueIsOpen`, from
`RegistryInv`). Time stands still inside a transaction, so `Due` does not go stale.

The rest of `JobRegistryProofs` shows that no wei appears or disappears, for any finite set of
job ids (an id has 32 bytes), any rewards and initial wallets:

* `BooksAreKept`: `Spec => []BalanceInv`;
* `AlwaysSolvent`: `Spec => []Solvent`;
* `AlwaysExplained`: `Spec => []Explained`;
* `RefundsAreCovered`: `Spec => []Covered`: any open job can be paid out, and any two of them one
  inside the other, so that no settlement reverts for lack of ether. That is the part of
  `RewardLeaves` that does not depend on fairness.

`Solvent` and `Explained` are sums over all jobs, and neither is inductive, for the same reason as
above: a failing payment brings back a balance and wallets of which they say nothing.
`BalanceInv` keeps the books at every level of the stack: the storage of level k holds the
rewards of the jobs open at level k, and its wallets are explained by its log and by the k - 1
calls below it (`Accounted`). It takes two facts about the calls, that only open jobs are
being settled (`Marks`) and that each payment goes to whom its event will name (`Addressed`).
A settlement moves one reward from the first sum to the second (`SettleAccounted`), a return
moves it from the stack to the log (`CallReturnsAccounted`), a failure drops a level
(`CallFailsAccounted`). The lemmas about sums are in `FiniteSums`: what `SumFunctionOnSet`
computes follows from its definition by induction over finite sets, written as a least
counterexample, since the library's induction theorems cannot be used here.

`GuestProofs` proves `PaidWorkIsFibonacci`, `Spec => []PaidForFibonacci`, for bytes of any number
of values, words and fields of any number of bytes and inputs of any length, hence for the 8 bits,
8 and 32 bytes of the code. It assumes what `GuestAssumption` and `ResultsAssumption` say: a hash
is a field, and results are the guest's. Three lemmas about the guest do the work:

* `LoopIsFibonacci`: `FibonacciModuloWidth`, and a result fits into a word;
* `InputIsNumber`: padding a short input and cutting a long one gives the number that the whole
  input stands for, modulo the width (what is cut off is a multiple of it: `DividesBelow`);
* `EveryJournalIsRead`: `JournalsAreRead`. The parts of the journal are cut where they were joined
  (`CutWhereJoined`), and what `to_le_bytes` writes is read again (`ReadsWhatIsWritten`).

With them the theorem follows from `OnlyProvedWorkIsPaid`. The recursive functions of `Guest` are
related to their equations by `StepByStep`: a function that is computed step by step exists, so
the one the definition chooses is it.

### Gossip

`GossipProofs` proves, for any finite overlay, fanout, TTL, capacity of the cache, set of injected
envelopes and number of calls, from `OverlayAssumption` only:

* `TypeCorrect`: `Spec => []TypeOK`, the capacity of the cache included;
* `NoRepeatWhileRemembered`: `Spec => []NoEarlyRepeat`;
* `NoFurtherThanTtl`: `Spec => []HopBound`;
* `StormsEnd`: `Spec => []StormBound`;
* `NoNeighbourForgotten`: `Spec => []SpreadUnderWay`.

`NoEarlyRepeat` counts ids in a history, but the code decides by a cache; `CacheSound` connects
the two. The cache holds an id once (`Distinct`), an id in front of another was met after it
(`Recent`), and nothing that was ever met is missing unless the cache is full (`Kept`). Then an
id that is missing is missing from a full cache, all of whose ids were met since: the cache is an
injection of its positions into the ids met (`FullCacheCounts`). Using an id keeps the three
(`DistinctKept`, `RecentKept`, `KeptKept`, over the position an id is moved from).

`HopBound` speaks of what was heard; the invariant `HopInv` says the same of the copies in
queues (`Arrives`) and of the envelopes loops are sending (`Leaves`): each is at the end of a
walk from its origin as long as the hops it has lost. Sending makes the walk longer by one
(`LeavesArrives`, `WalkGrows`), taking a copy costs a hop (`ArrivesLeaves`).

`StormBound` counts copies that were made; `CostInv` also counts those that can still be made.
A copy with hops left weighs one and the cost of a call with that many hops, a loop over senders
weighs that for each connection on its list, and a message that was met weighs one. The weights
of all copies of a message together never exceed what its calls were billed
(`Cost[Hops(ttl)]` each): a call adds its bill and plans at most Fanout copies
(`StartSendingPlans`), `SendNext` turns a planned copy into one under way (`SendNextCost`), and
taking a copy of weight w leaves one met and at most Fanout planned copies, which together weigh
no more than w (`ProcessIncomingCost`). No cache is mentioned: a duplicate only takes weight
away. The cost is a recursive function of the hops rather than a sum of powers, of which the
provers know nothing; nodes and connections are finitely many.

`SpreadUnderWay` needs to know that what is in a node's cache, what a loop of it sends and what
it has put on a connection are messages that it knows (`SpreadInv`): else the neighbour that is
left out, or that drops the copy as a duplicate, might never have had it. `SpreadStep` says what
a step may do to the spreading of a message, and each action is shown to do no more: what is to
be sent moves onto the connection (`SendNextSpreads`), what is on it into the neighbour's
knowledge, which in turn owes it to its own neighbours (`ProcessIncomingSpreads`). That a choice
of at most Fanout connections leaves none out is `StartSendingReaches`.

`GossipChannelsProofs` proves, for any finite network, any capacities of channels and sockets
but zero, any fanout, TTL and number of breaking connections, from `ChannelsAssumption` only:

* `TypeCorrect`: `Spec => []TypeOK`: no channel, socket or task holds more than it can;
* `ChannelsKeepDelivery`: `Spec => ImplementsDelivery`, the refinement of `Delivery`;
* `JamsTakeLoad`: `Spec => []JamNeedsLoad`.

For the refinement, `Path(n, c)` is four parts put together: what waits for the loop, what the
reading task holds, the socket, and what the other end has yet to write, of which nothing
counts once the connection is broken. A step moves a message from one part to the next and
leaves the whole as it is (`ReadsKeeps`, `DeliversKeeps`, `TakesKeeps`, `WritesKeeps`), appends
to the last (`SendNextSteps`), takes from the first (`ProcessIncomingSteps`), or cuts the end off
(`CutSteps`, `TaskEndsSteps`). `From`, which picks one connection's messages out of the loop's
channel, is a recursive function; `FromAppend` and `FromTail` say what it does to both ends of
the channel. The one invariant it takes beyond the types is that a node runs tasks for its own
connections only (`OwnTasks`): what is sent into a handle of another would be on no path.

`JamNeedsLoad` follows chains of waits in a state where nothing can move. A loop that does not
listen waits for a full outgoing channel whose task is busy (`LoopWaits`); a task that delivers
waits for a full incoming channel whose loop does not listen, which closes one ring
(`DeliveringWaits`); a task that writes waits for a full socket (`WritingWaits`) whose reader
writes as well, which closes the other (`TwoWritingWait`), or delivers, or does not run yet
because its loop has not accepted the connection. That these are all the cases takes an
invariant: only a running task holds messages, one that ended has nothing left to read and its
connection is broken, nothing is on a connection that nobody dialled (`Tended`), and a loop over
senders has only handles of tasks that were started on its list (`Knows`).

### The marketplace

`MarketplaceTypes` proves `TypeCorrect` (`Spec => []TypeOK`) and the facts about queues and
messages the rest uses; `MarketplaceProofs` proves every safety property of `Marketplace`
that holds, for any number of jobs and workers, any fanout, deadline, number of crashes and set
of faults. The assumptions are those the modules state of their constants; no theorem assumes
that the coordinator does not crash.

| Theorem | | After a crash |
| --- | --- | --- |
| `AlwaysBusyWhileProving` | `Spec => []BusyWhileProving` | holds |
| `AlwaysSoleProver` | `Spec => []SoleProver` | one more prover per crash at most |
| `ProverIsAlwaysAssigned` | `Spec => []ProverIsAssigned` | says nothing |
| `JobMapNeverGoesBack` | `Spec => NeverReopened` | holds within each life |
| `ClaimIsAlwaysUnderWay` | `Spec => []ClaimUnderWay` | holds for the workers that connect later |
| `JobsAreProvedOnce` | `Spec => ProvedOnce` | says nothing |
| `CompletedIsAlwaysSettled` | `Spec => []CompletedIsSettled` | holds |
| `PaymentIsAlwaysUnderWay` | `Spec => []PaymentUnderWay` | says nothing |

* Arbitration. `SoleProver` speaks of tasks, but the decision is taken long before there is one,
  so the invariant follows the right to prove a job from the coordinator's decision to the end
  of the task: `Token(j, a)` holds while the handler is about to answer that a has job j, while
  that answer is in the queue of any worker (not only a's: everybody hears it), and while a has
  a task for j. `Holders(j)` are the workers with a token. `Arbitration` says that a job has at
  most as many holders as the coordinator has had lives, and one less as long as it has still to
  be given in this one (`StillOpen`), or to be inserted by its `create_job` call, which may
  write Pending over what the indexer has put there. Until the first crash the holder is the
  worker the status is Assigned to, unless the job is done. Only `HandleClaim` creates a token
  (`CoordinatorGrants`, `WorkerGrants`), and only of a Pending job; every step within a life
  changes statuses in one of four ways (`Evolves`), and from both `ArbitrationKept` follows.
  `Evolves` is also what `NeverReopened` needs. A crash takes tokens away or leaves them, and
  begins a life that has given nothing (`CrashArbitration`); a restart may take up any status
  the snapshot has (`RestartArbitration`). A coordinator without a contract inserts a job at
  once, which takes nothing back only because nothing else can have put it into the map: hence
  the conjunct on `~OnChain` in `Recorded`.
* Claims. `ClaimUnderWay` needs `Links`: an open connection has its handle, so a broadcast to every
  handle puts the answer into the claimant's queue (`BroadcastReaches`); what the handler replies
  is an answer; and a worker that has not connected has received nothing, hence claims nothing
  when it does. The coordinator takes a claim only by turning it into a reply, and a reply only
  by turning it into messages (`CoordinatorAwaited`). A worker takes an answer to the job it is
  claiming only by leaving Claiming, whoever the answer was meant for (`WorkerAwaited`): an answer
  that another worker caused may end its wait early, and then the late one is no harm.
* Work. `Busy(w)` is `BusyWhileProving` without cardinality, and is inductive: a claim is made
  by an idle worker only, accepted by a claiming one only, so a task starts when there is none.
* Reporting. What says "completed" is the map, the snapshot, a handler that has its answer
  from the chain, or a log entry the indexer has yet to read; each is of a settled job
  (`Reported`, `Logged`), and what is settled stays settled (`SettledStays`), since each step of
  `Chain` is one of `Escrow` (`ChainKeepsEscrow`) and no other process touches the rewards.
* Payments. `Accounted` is `PaymentUnderWay` at a finer grain: between the two queries of a poll
  the completed events up to the end of the range are dealt with although `last_block` is still
  where it was (`Dealt`), so a failure of the second query asks for them twice and loses none
  (`IndexerAccounts`). What is Completed stays so (`CompletionStays`) unless a `create_job` call
  is still to insert the job. For a job a worker is paid for there is no such call: the worker
  has sent a proof, hence had a task (`ProofsSent`), hence by `Arbitration` the coordinator had
  given the job away, which it does only of a job in its map. Every payment is logged in the step
  that makes it (`PaymentsLogged`).
* Work done once. That one worker has the right to a job (`OneHolder`) does not keep it from using
  the right twice. `GivenOnce` follows the right through its forms: the answer about to be sent, one
  copy of it in the queue of its worker (`OnceKept`), a task, and never two of these at once
  (`Fresh`); before it is a task nobody has sent a proof. Starting the task uses the copy up
  (`WorkerStartsOnce`), and a new right is made only of a job that is Pending, to which nobody has
  one (`CoordinatorGivesOnce`).

### What is only model-checked

Every liveness property (`RewardLeaves`, `ClaimResolves`, `PendingIsTaken`, `PaymentIsReported`,
`Spreads`), since fairness is beyond the proof system.

## 6. Not modelled

* Gossip: frames that do not decode or are too long (only a foreign program sends them), errors
  of `accept()`, ids that collide, the subscribers' broadcast channel beyond the loss of messages
  it causes (the fault `loss` of `Marketplace`), cryptography (`Verify` is a flag of the envelope).
* RISC Zero: sessions, receipts, seals, how long proving takes; `verify()`, which only a test calls.
  A Fibonacci loop of 2^64 turns never ends in practice; a prover of the model always ends.
* Chain reorganisations, gas, nonces, transactions that are never mined (`Spec` allows a
  pending transaction to stay so; `FairSpec` does not).
* HTTP decoding and formatting, logging, environment variables, deployment, tests.
* A snapshot that cannot be parsed or written.

Two limits of the design are not stated as properties because nothing claims otherwise: a job
stays Assigned when its worker fails, for nothing releases it and nobody calls `expireJob`; and
a worker never dials again after its connection broke.

## 7. Plan

Done: the contract with the guest's results, its abstract specification, and proofs of its
safety invariants, its books, the results it pays for and the refinement; the marketplace with
all its processes and proofs of all its safety properties; gossip over any overlay with proofs
about its cache, its TTL and the cost of a call; its channels with proofs of the refinement of
`Delivery` and of what a jam takes; eight passing runs and four that end in a violation.

Left: `Gossip` in place of `GossipLinks` inside the marketplace. A worker dials one address, which
may be that of another worker, so that overlays other than the star are trees.
