----------------------------- MODULE Marketplace -----------------------------
(***************************************************************************)
(* The whole system: one coordinator with its indexer, workers connected   *)
(* to it, and the chain.                                                   *)
(***************************************************************************)
EXTENDS Indexer, WorkerNode

CONSTANT MaxCrashes  \* bound on the crashes of the coordinator

ASSUME CrashAssumption == MaxCrashes \in Nat

VARIABLE crashes     \* how often the coordinator has crashed

vars == <<chainVars, linkVars, coordinatorVars, indexerVars, workerVars, crashes>>

Init == /\ ChainInit
        /\ LinkInit
        /\ CoordinatorInit
        /\ IndexerInit
        /\ WorkerInit
        /\ crashes = 0

-----------------------------------------------------------------------------

(* The process dies.  Its memory and what it had not read yet are gone; a  *)
(* worker still gets what had reached its side of the connection.          *)
Crash ==
  /\ "crash" \in Faults
  /\ running
  /\ crashes < MaxCrashes
  /\ crashes' = crashes + 1
  /\ running' = FALSE
  /\ jobs' = [j \in Job |-> Absent]
  /\ request' = [j \in Job |-> IF request[j] \in {"none", "done"} THEN request[j] ELSE "failed"]
  /\ pending' = {}
  /\ handler' = Idle
  /\ poll' = Waiting
  /\ link' = [w \in Worker |-> IF link[w] = "open" THEN "closed" ELSE link[w]]
  /\ handles' = {}
  /\ up' = [w \in Worker |-> <<>>]
  /\ \E d \in [Worker -> UNION {Prefixes(down[w]) : w \in Worker}] :
       /\ \A w \in Worker : d[w] \in Prefixes(down[w])
       /\ down' = d
  /\ UNCHANGED <<chainVars, disk, lastBlock, workerVars>>

(* main: the snapshot is loaded, and the indexer starts at the block the   *)
(* chain is at (start_block: None).                                        *)
Restart ==
  /\ ~running
  /\ running' = TRUE
  /\ jobs' = disk
  /\ lastBlock' = Len(events)
  /\ UNCHANGED <<chainVars, linkVars, disk, request, pending, handler, poll, workerVars, crashes>>

Network == \E w \in Worker : \/ running /\ Connect(w)
                             \/ Lose(w)
                             \/ Disconnect(w)

OfChain(A) == A /\ UNCHANGED <<linkVars, coordinatorVars, indexerVars, workerVars, crashes>>
OfNetwork(A) == A /\ UNCHANGED <<chainVars, coordinatorVars, indexerVars, workerVars, crashes>>
OfCoordinator(A) == running /\ A /\ UNCHANGED <<indexerVars, workerVars, crashes>>
OfIndexer(A) == running /\ A /\ UNCHANGED <<workerVars, crashes>>
OfWorker(A) == A /\ UNCHANGED <<coordinatorVars, indexerVars, crashes>>

Next == \/ OfChain(ChainStep)
        \/ OfNetwork(Network)
        \/ OfCoordinator(CoordinatorStep)
        \/ OfIndexer(IndexerStep)
        \/ \E w \in Worker : OfWorker(WorkerStep(w))
        \/ Crash
        \/ Restart

Spec == Init /\ [][Next]_vars

(***************************************************************************)
(* Every tokio task that can run runs, provers finish, the chain mines.    *)
(* The node answers the indexer again and again, if not every time.        *)
(* Nothing makes clients submit, time pass or anybody call expireJob.      *)
(***************************************************************************)
Fairness ==
  /\ \A j \in Job : /\ WF_vars(OfChain(MineSubmitJob(j)))
                    /\ WF_vars(OfCoordinator(SendSubmitJob(j) \/ SubmitJobReceipt(j)
                                             \/ SubmitJobError(j) \/ AnnounceJob(j)))
                    /\ WF_vars(OfCoordinator(RebroadcastJob(j)))
  /\ WF_vars(OfCoordinator(CollectPending))
  /\ WF_vars(OfCoordinator(\E w \in Worker : HandleClaim(w) \/ HandleJobCompleted(w)))
  /\ WF_vars(OfCoordinator(ReplyToClaim \/ VerifyOnChain \/ MarkCompleted))
  /\ WF_vars(OfIndexer(StartPoll))
  /\ SF_vars(OfIndexer(ProcessJobCompletedEvents))
  /\ SF_vars(OfIndexer(ProcessJobExpiredEvents))
  /\ \A w \in Worker : /\ WF_vars(OfNetwork(running /\ Connect(w)))
                       /\ WF_vars(OfWorker(HandleMessage(w)))
                       /\ WF_vars(OfWorker(\E t \in tasks[w] : TaskStep(w, t)))
                       /\ \A j \in Job : WF_vars(OfChain(MineSubmitProof(w, j)))
  /\ WF_vars(Restart)

FairSpec == Spec /\ Fairness

-----------------------------------------------------------------------------

(* Every variable of every component stays in its type.                    *)
TypeOK == /\ ChainTypeOK
          /\ LinkTypeOK
          /\ CoordinatorTypeOK
          /\ IndexerTypeOK
          /\ WorkerTypeOK
          /\ crashes \in 0..MaxCrashes

Provers(j) == {w \in Worker : \E t \in tasks[w] : t.job = j}

(* The coordinator has not given the job away in its present life.         *)
StillOpen(j) == jobs[j].state \in {"Absent", "Pending"}

(* First-wins arbitration: however claims, replies and rebroadcasts cross  *)
(* on the links, nobody proves a job before it is given and one worker at  *)
(* most afterwards.  A restarted coordinator may have forgotten to whom it *)
(* gave the job and give it once more, which adds one prover to those of   *)
(* its earlier lives and never two.                                        *)
SoleProver ==
  \A j \in Job : Cardinality(Provers(j)) <= crashes + IF StillOpen(j) THEN 0 ELSE 1

Done(s) == s.state \in {"Completed", "Expired"}

(* Until the coordinator crashes, a worker proves only jobs that are       *)
(* assigned to it, or that were finished behind its back.                  *)
ProverIsAssigned ==
  crashes = 0 => \A j \in Job : \A w \in Provers(j) : jobs[j] = Assigned(w) \/ Done(jobs[j])

(* A worker's status and its run_proving tasks agree: one task at most,    *)
(* on the job of the status and in the phase it says, and no status that   *)
(* stays busy after its task has gone, which nothing would ever undo.      *)
BusyWhileProving ==
  \A w \in Worker :
    /\ Cardinality(tasks[w]) <= 1
    /\ \A t \in tasks[w] :
         status[w] = Holding(IF t.at = "prove" THEN "Proving" ELSE "Submitting", t.job)
    /\ tasks[w] = {} => status[w].state \in {"Idle", "Claiming"}

(* No gossip message makes the coordinator report a job as completed while *)
(* the contract still holds its reward.                                    *)
CompletedIsSettled == \A j \in Job : jobs[j].state = "Completed" => IsCompleted(j)

(* While the process lives the job map never goes back, whatever snapshot  *)
(* it began with: an assigned job keeps its worker until it is done, a     *)
(* completed one its transaction hash, and no message or log entry returns *)
(* a job to Pending.  The one exception is a job somebody proves before    *)
(* its own create_job call has the submitJob receipt: that call then       *)
(* writes Pending over what the indexer inserted.                          *)
NeverReopened ==
  [][running' => \A j \in Job : request[j] # "receipt" =>
       /\ Done(jobs[j]) => Done(jobs'[j])
       /\ jobs[j].state = "Completed" => jobs'[j] = jobs[j]
       /\ jobs[j].state = "Assigned" => jobs'[j] = jobs[j] \/ Done(jobs'[j])]_vars

(* Once a worker has sent a proof of a job, nobody begins to prove it any  *)
(* more, until a crash makes the coordinator forget.  The call may have    *)
(* failed while the transaction goes on, the worker be idle again, the job *)
(* still Assigned to it, and offers of the job, claims and answers to them *)
(* still queued: none of them may start the work once more.                *)
ProvedOnce ==
  [][crashes' = 0 => \A j \in Job :
       (\E w \in Worker : proofTx[w][j] # "none") => Provers(j)' \subseteq Provers(j)]_vars

Has(q, m) == \E i \in 1..Len(q) : q[i] = m

Answers(m, j) == m.type \in {"ClaimAccepted", "ClaimRejected"} /\ m.job = j

(* A worker that is claiming a job is not forgotten while its connection   *)
(* stands and a broadcast goes to every handle: its claim, or an answer    *)
(* that will end its wait, is on the way.  Nothing in the worker itself    *)
(* would end it: there is no timeout, and it takes no other job meanwhile. *)
ClaimUnderWay ==
  "loss" \notin Faults /\ Cardinality(handles) <= Fanout =>
    \A w \in Worker, j \in Job : IsClaiming(w, j) /\ link[w] = "open" =>
      \/ Has(up[w], ClaimJob(j, w))
      \/ handler.at = "reply" /\ Answers(handler.msg, j)
      \/ \E m \in GossipMessage : Answers(m, j) /\ Has(down[w], m)

(* A worker that has claimed a job gets an answer to it, positive or not,  *)
(* and does not wait for ever.                                             *)
ClaimResolves == \A w \in Worker, j \in Job : IsClaiming(w, j) ~> ~IsClaiming(w, j)

(* A pending job does not stay pending before its deadline: the immediate  *)
(* broadcast or a later rebroadcast finds a worker that is free.           *)
PendingIsTaken == \A j \in Job : jobs[j].state = "Pending"
                                   ~> jobs[j].state # "Pending" \/ clock >= due[j]

(* Of its own jobs, what the contract has paid for the coordinator reports *)
(* as completed, whatever became of the worker's own message.              *)
PaymentIsReported ==
  \A j \in Job \ Foreign : escrow[j].state = "paid" ~> jobs[j].state = "Completed"

Unread(j) == \E i \in lastBlock + 1 .. Len(events) :
               events[i].type = "JobCompleted" /\ events[i].job = j

(* The indexer overlooks no payment to a worker, whatever queries fail,    *)
(* blocks arrive between two of them or messages come first: the map says  *)
(* Completed, or the block is one it will ask for.  (An outsider may be    *)
(* paid for a job that create_job writes into the map only afterwards.)    *)
PaymentUnderWay ==
  crashes = 0 => \A j \in Job :
    escrow[j].state = "paid" /\ escrow[j].payee \in Worker =>
      jobs[j].state = "Completed" \/ Unread(j)

(* The same for the jobs that are in the map only: the contract has paid   *)
(* for none that stays Pending, Assigned or Expired there for ever.        *)
KnownPaymentIsReported ==
  \A j \in Job : escrow[j].state = "paid" /\ jobs[j].state # "Absent"
                  ~> jobs[j].state \in {"Completed", "Absent"}

(* A completed job was paid for, by the transaction its status names.      *)
CompletedMeansPaid ==
  \A j \in Job : jobs[j].state = "Completed" =>
    escrow[j].state = "paid" /\ escrow[j].payee = jobs[j].by
=============================================================================
