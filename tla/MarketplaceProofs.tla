--------------------------- MODULE MarketplaceProofs ---------------------------
(***************************************************************************)
(* What the coordinator and its workers promise about the jobs they share, *)
(* for every set of jobs and workers, fanout and deadline.                 *)
(***************************************************************************)
EXTENDS MarketplaceTypes

-----------------------------------------------------------------------------
(* Work and status                                                         *)

Phase(t) == IF t.at = "prove" THEN "Proving" ELSE "Submitting"

(* BusyWhileProving of one worker, in a form that a step keeps as it is.   *)
Busy(w) == \/ tasks[w] = {} /\ status[w].state \in {"Idle", "Claiming"}
           \/ \E t \in tasks[w] : tasks[w] = {t} /\ status[w] = Holding(Phase(t), t.job)

(* A step of a worker leaves the others alone.                             *)
LEMMA OthersIdle ==
  ASSUME TypeOK, NEW w \in Worker, WorkerStep(w), NEW v \in Worker, v # w
  PROVE  status'[v] = status[v] /\ tasks'[v] = tasks[v]
<1>1. DOMAIN status = Worker /\ DOMAIN tasks = Worker
  BY Types
<1>2. \A s : SetStatus(w, s) => status'[v] = status[v]
  BY <1>1 DEF SetStatus
<1>3. CASE HandleMessage(w)
  BY <1>1, <1>2, <1>3 DEF HandleMessage, HandleJobAvailable, HandleClaimAccepted,
     HandleClaimRejected, Accept, workerVars
<1>4. ASSUME NEW t \in tasks[w], TaskStep(w, t)
      PROVE  status'[v] = status[v] /\ tasks'[v] = tasks[v]
  <2>1. \A at : Moves(w, t, at) \/ Ends(w, t) => tasks'[v] = tasks[v]
    BY <1>1 DEF Moves, Ends
  <2>2. \A j, states : Release(w, j, states) => status'[v] = status[v]
    BY <1>2 DEF Release
  <2> QED
    BY <1>2, <1>4, <2>1, <2>2 DEF TaskStep, ProvingEnds, ProvingFails, SendSubmitProof,
       SubmitProofReceipt, SubmitProofError, AnnounceCompletion, Retire, TransitionToIdle
<1> QED BY <1>3, <1>4 DEF WorkerStep

(* A step of a worker keeps its own status and tasks in agreement.         *)
LEMMA BusyKept ==
  ASSUME TypeOK, NEW w \in Worker, WorkerStep(w), Busy(w)
  PROVE  Busy(w)'
<1>1. DOMAIN status = Worker /\ DOMAIN tasks = Worker
  BY Types
<1>2. \A s : SetStatus(w, s) => status'[w] = s
  BY <1>1 DEF SetStatus
<1>3. CASE status'[w] = status[w] /\ tasks'[w] = tasks[w]
  BY <1>3 DEF Busy
<1>4. ASSUME status[w].state \in {"Idle", "Claiming"}
      PROVE  tasks[w] = {}
  <2>1. \A t : Holding(Phase(t), t.job).state \in {"Proving", "Submitting"}
    BY DEF Holding, Phase
  <2> QED BY <1>4, <2>1 DEF Busy
<1>5. CASE HandleJobAvailable(w)
  <2> DEFINE j == Head(down[w]).job
  <2>1. tasks' = tasks
    BY <1>5 DEF HandleJobAvailable
  <2>2. CASE Takes(w, j) /\ SetStatus(w, Holding("Claiming", j))
    <3>1. tasks[w] = {}
      BY <1>4, <2>2 DEF Takes
    <3>2. status'[w].state = "Claiming"
      BY <1>2, <2>2 DEF Holding
    <3> QED BY <2>1, <3>1, <3>2 DEF Busy
  <2> QED BY <1>3, <1>5, <2>1, <2>2 DEF HandleJobAvailable
<1>6. CASE HandleClaimAccepted(w)
  <2> DEFINE j == Head(down[w]).job
             t == Task("prove", j)
  <2>1. CASE IsClaiming(w, j) /\ Accept(w, Head(down[w]))
    <3>1. tasks[w] = {}
      BY <1>4, <2>1 DEF IsClaiming, Holding
    <3>2. CASE tasks'[w] = {t} /\ status'[w] = Holding("Proving", j)
      BY <3>2 DEF Busy, Phase, Task
    <3>3. CASE tasks'[w] = {} /\ status'[w] = NoJob
      BY <3>3 DEF Busy, NoJob
    <3> QED BY <1>1, <1>2, <2>1, <3>1, <3>2, <3>3 DEF Accept
  <2> QED BY <1>3, <1>6, <2>1 DEF HandleClaimAccepted, workerVars
<1>7. CASE HandleClaimRejected(w)
  <2>1. tasks' = tasks
    BY <1>7 DEF HandleClaimRejected
  <2>2. CASE status' = status
    BY <1>3, <2>1, <2>2
  <2>3. CASE IsClaiming(w, Head(down[w]).job) /\ SetStatus(w, NoJob)
    <3>1. tasks[w] = {}
      BY <1>4, <2>3 DEF IsClaiming, Holding
    <3>2. status'[w] = NoJob
      BY <1>2, <2>3
    <3> QED BY <2>1, <3>1, <3>2 DEF Busy, NoJob
  <2> QED BY <1>7, <2>2, <2>3 DEF HandleClaimRejected
<1>8. ASSUME NEW t \in tasks[w], TaskStep(w, t)
      PROVE  Busy(w)'
  <2>1. tasks[w] = {t} /\ status[w] = Holding(Phase(t), t.job)
    BY <1>8 DEF Busy
  <2>2. CASE tasks'[w] = {} /\ status'[w] = NoJob
    BY <2>2 DEF Busy, NoJob
  <2>3. ASSUME NEW at, tasks'[w] = {Task(at, t.job)}, at # "prove",
               status'[w] = Holding("Submitting", t.job)
        PROVE  Busy(w)'
    BY <2>3 DEF Busy, Phase, Task
  <2>4. \A at : Moves(w, t, at) => tasks'[w] = {Task(at, t.job)}
    BY <1>1, <2>1 DEF Moves
  <2>5. Ends(w, t) => tasks'[w] = {}
    BY <1>1, <2>1 DEF Ends
  <2>6. \A states : Release(w, t.job, states) /\ Phase(t) \in states => status'[w] = NoJob
    BY <1>2, <2>1 DEF Release, Holding
  <2>7. CASE ProvingEnds(w, t)
    BY <1>2, <2>1, <2>3, <2>4, <2>7 DEF ProvingEnds, Phase
  <2>8. CASE ProvingFails(w, t)
    BY <2>2, <2>5, <2>6, <2>8 DEF ProvingFails, Phase
  <2>9. CASE SendSubmitProof(w, t) \/ SubmitProofReceipt(w, t) \/ AnnounceCompletion(w, t)
    BY <2>1, <2>3, <2>4, <2>9
    DEF SendSubmitProof, SubmitProofReceipt, AnnounceCompletion, Phase
  <2>10. CASE SubmitProofError(w, t) \/ Retire(w, t)
    BY <2>2, <2>5, <2>6, <2>10 DEF SubmitProofError, Retire, TransitionToIdle, Phase
  <2> QED BY <1>8, <2>7, <2>8, <2>9, <2>10 DEF TaskStep
<1> QED BY <1>5, <1>6, <1>7, <1>8 DEF WorkerStep, HandleMessage

(* Whatever crosses on the links, a worker runs one task at most and its   *)
(* status says so: no status stays busy after its task has gone.           *)
THEOREM AlwaysBusyWhileProving == Spec => []BusyWhileProving
<1> DEFINE Inv == TypeOK /\ \A w \in Worker : Busy(w)
<1>1. Init => Inv
  BY InitType DEF Init, WorkerInit, NoJob, Busy
<1>2. Inv /\ [Next]_vars => Inv'
  <2> SUFFICES ASSUME Inv, [Next]_vars
               PROVE  Inv'
    OBVIOUS
  <2>1. TypeOK'
    BY StepType
  <2>2. CASE UNCHANGED workerVars
    BY <2>1, <2>2 DEF workerVars, Busy
  <2>3. ASSUME NEW w \in Worker, WorkerStep(w), NEW v \in Worker
        PROVE  Busy(v)'
    BY <2>3, BusyKept, OthersIdle DEF Busy
  <2> QED
    BY <2>1, <2>2, <2>3 DEF Next, OfChain, OfNetwork, OfCoordinator, OfIndexer, OfWorker, vars,
       Crash, Restart
<1>3. Inv => BusyWhileProving
  <2> SUFFICES ASSUME NEW w \in Worker, Busy(w)
               PROVE  /\ Cardinality(tasks[w]) <= 1
                      /\ \A t \in tasks[w] : status[w] = Holding(Phase(t), t.job)
                      /\ tasks[w] = {} => status[w].state \in {"Idle", "Claiming"}
    BY DEF BusyWhileProving, Phase
  <2>1. Cardinality(tasks[w]) <= 1
    BY FS_EmptySet, FS_Singleton DEF Busy
  <2> QED BY <2>1 DEF Busy
<1> QED BY <1>1, <1>2, <1>3, PTL DEF Spec

-----------------------------------------------------------------------------
(* Arbitration                                                             *)

By == Worker \cup {NoOne}

(* The right to prove a job, once the coordinator has given it: the answer *)
(* about to be sent, the answer on its way to any worker, a task at work.  *)
Token(j, a) == \/ handler = [at |-> "reply", msg |-> ClaimAccepted(j, a)]
               \/ \E w \in Worker : Has(down[w], ClaimAccepted(j, a))
               \/ a \in Provers(j)

(* create_job has not put the job into the map yet.                        *)
Unsubmitted(j) == request[j] \in {"none", "submit", "receipt"}

Holders(j) == {a \in By : Token(j, a)}

AtMost(n, S) == IsFiniteSet(S) /\ Cardinality(S) <= n

(* What create_job has not put into the map is not there as Pending.       *)
Recorded ==
  /\ ~OnChain => poll = Waiting /\ handler.at \notin {"verify", "confirmed"}
  /\ \A j \in Job :
       /\ ~running => jobs[j] = Absent
       /\ Unsubmitted(j) => /\ jobs[j].state \in {"Absent", "Completed"}
                            /\ disk[j].state \in {"Absent", "Completed"}
       /\ ~OnChain /\ request[j] = "none" => jobs[j] = Absent /\ disk[j] = Absent

(* The coordinator gives each job once in each of its lives.  Rights to a  *)
(* job that it has still to give, or to insert, are of earlier lives.      *)
Arbitration ==
  /\ Recorded
  /\ \A j \in Job :
       /\ AtMost(crashes + 1, Holders(j))
       /\ StillOpen(j) \/ Unsubmitted(j) => AtMost(crashes, Holders(j))
  /\ crashes = 0 =>
       /\ running
       /\ \A j \in Job, a \in By : Token(j, a) => jobs[j] = Assigned(a) \/ Done(jobs[j])

(* What a step does to the status of a job: nothing, finish it, assign it, *)
(* or insert it where create_job does.                                     *)
Finishes(j) == /\ Done(jobs'[j])
               /\ jobs[j].state # "Completed"
               /\ jobs[j].state = "Absent" => OnChain /\ jobs'[j].state = "Completed"

Assigns(j) == jobs[j].state = "Pending" /\ jobs'[j].state = "Assigned"

Inserts(j) == /\ request[j] = "receipt" \/ (request[j] = "none" /\ ~OnChain)
              /\ request'[j] = "announce"

Evolves(j) == /\ jobs'[j] = jobs[j] \/ Finishes(j) \/ Assigns(j) \/ Inserts(j)
              /\ Unsubmitted(j)' => Unsubmitted(j) /\ ~Inserts(j)
              /\ ~OnChain /\ request'[j] = "none" => request[j] = "none"

(* No step of the coordinator changes a status in another way.             *)
LEMMA CoordinatorEvolves ==
  ASSUME TypeOK, Recorded, CoordinatorStep, NEW j \in Job
  PROVE  Evolves(j)
<1>1. /\ jobs \in [Job -> JobStatus]
      /\ request \in [Job -> {"none", "submit", "receipt", "announce", "done", "failed"}]
  BY Types
<1>2. ~OnChain => handler.at \notin {"verify", "confirmed"}
  BY DEF Recorded
<1>3. CASE jobs' = jobs /\ request' = request
  BY <1>1, <1>3 DEF Evolves, Unsubmitted, Inserts
<1>4. ASSUME NEW i \in Job, CreateJob(i) \/ SendSubmitJob(i) \/ SubmitJobReceipt(i) \/ FailRequest(i)
      PROVE  Evolves(j)
  <2>1. CASE i # j
    <3>1. jobs'[j] = jobs[j] /\ request'[j] = request[j]
      BY <1>1, <1>4, <2>1 DEF CreateJob, SendSubmitJob, SubmitJobReceipt, FailRequest, Insert
    <3> QED BY <1>1, <3>1 DEF Evolves, Unsubmitted, Inserts
  <2>2. CASE i = j
    BY <1>1, <1>4, <2>2 DEF CreateJob, SendSubmitJob, SubmitJobReceipt, FailRequest, Insert,
       Evolves, Unsubmitted, Inserts
  <2> QED BY <2>1, <2>2
<1>5. ASSUME NEW i \in Job, AnnounceJob(i)
      PROVE  Evolves(j)
  BY <1>1, <1>5 DEF AnnounceJob, Evolves, Unsubmitted, Inserts
<1>6. ASSUME NEW i \in Job, RebroadcastJob(i)
      PROVE  Evolves(j)
  BY <1>3, <1>6 DEF RebroadcastJob
<1>7. ASSUME NEW w \in Worker, HandleClaim(w)
      PROVE  Evolves(j)
  <2> DEFINE m == Head(up[w])
  <2>1. request' = request
    BY <1>7 DEF HandleClaim
  <2>2. CASE jobs' = jobs
    BY <2>1, <2>2 DEF Evolves, Unsubmitted, Inserts
  <2>3. CASE Claimable(jobs[m.job]) /\ jobs' = [jobs EXCEPT ![m.job] = Assigned(m.by)]
    <3>1. jobs'[j] = jobs[j] \/ Assigns(j)
      BY <1>1, <2>3 DEF Claimable, Assigns, Assigned
    <3> QED BY <2>1, <3>1 DEF Evolves, Unsubmitted, Inserts
  <2> QED BY <1>7, <2>2, <2>3 DEF HandleClaim
<1>8. ASSUME NEW w \in Worker, HandleJobCompleted(w)
      PROVE  Evolves(j)
  BY <1>3, <1>8 DEF HandleJobCompleted
<1>9. CASE ReplyToClaim
  BY <1>3, <1>9 DEF ReplyToClaim
<1>10. CASE VerifyOnChain
  BY <1>3, <1>10 DEF VerifyOnChain
<1>11. CASE MarkCompleted
  <2>1. /\ request' = request
        /\ OnChain
        /\ jobs' = [jobs EXCEPT ![handler.msg.job] = CompletedUnlessDone(@, handler.msg.by)]
    BY <1>2, <1>11 DEF MarkCompleted
  <2>2. jobs'[j] = jobs[j] \/ Finishes(j)
    BY <1>1, <2>1 DEF CompletedUnlessDone, Finishes, Done, Completed
  <2> QED BY <2>1, <2>2 DEF Evolves, Unsubmitted, Inserts
<1>12. CASE CollectPending \/ SaveJobs
  BY <1>3, <1>12 DEF CollectPending, SaveJobs
<1> QED
  BY <1>4, <1>5, <1>6, <1>7, <1>8, <1>9, <1>10, <1>11, <1>12
  DEF CoordinatorStep, SubmitJobError, AbandonRequest

(* Nor does a step of the indexer.                                         *)
LEMMA IndexerEvolves ==
  ASSUME TypeOK, Recorded, IndexerStep, NEW j \in Job
  PROVE  Evolves(j)
<1>1. /\ jobs \in [Job -> JobStatus]
      /\ ~OnChain => poll = Waiting
  BY Types DEF Recorded
<1>2. request' = request
  BY IndexerType
<1>3. CASE StartPoll \/ PollFails
  BY <1>2, <1>3 DEF StartPoll, PollFails, coordinatorVars, Evolves, Unsubmitted, Inserts
<1>4. CASE ProcessJobCompletedEvents
  <2>1. OnChain
    BY <1>1, <1>4, CoordinatorAssumption DEF ProcessJobCompletedEvents, Waiting
  <2>2. PICK by : jobs'[j] = jobs[j] \/ jobs'[j] = NoteCompleted(jobs[j], by)
    BY <1>4 DEF ProcessJobCompletedEvents
  <2>3. jobs'[j] = jobs[j] \/ Finishes(j)
    BY <2>1, <2>2 DEF NoteCompleted, Finishes, Done, Completed
  <2> QED BY <1>2, <2>1, <2>3 DEF Evolves, Unsubmitted, Inserts
<1>5. CASE ProcessJobExpiredEvents
  <2>1. OnChain
    BY <1>1, <1>5, CoordinatorAssumption DEF ProcessJobExpiredEvents, Waiting
  <2>2. jobs'[j] = jobs[j] \/ jobs'[j] = NoteExpired(jobs[j])
    BY <1>5 DEF ProcessJobExpiredEvents
  <2>3. jobs'[j] = jobs[j] \/ Finishes(j)
    BY <2>1, <2>2 DEF NoteExpired, Finishes, Done, Expired
  <2> QED BY <1>2, <2>1, <2>3 DEF Evolves, Unsubmitted, Inserts
<1> QED BY <1>3, <1>4, <1>5 DEF IndexerStep

(* Messages are told apart by their types.                                 *)
LEMMA MessagesDiffer ==
  /\ \A m \in GossipMessage : m.type = "ClaimAccepted" => m = ClaimAccepted(m.job, m.by)
  /\ \A j, a, i : JobAvailable(i) # ClaimAccepted(j, a) /\ ClaimRejected(i) # ClaimAccepted(j, a)
  /\ \A j, a, i, b : ClaimAccepted(j, a) = ClaimAccepted(i, b) => j = i /\ a = b
<1>1. \A j, a, i : JobAvailable(i) # ClaimAccepted(j, a) /\ ClaimRejected(i) # ClaimAccepted(j, a)
  <2> TAKE j, a, i
  <2>1. /\ JobAvailable(i).type = "JobAvailable"
        /\ ClaimRejected(i).type = "ClaimRejected"
        /\ ClaimAccepted(j, a).type = "ClaimAccepted"
    BY DEF JobAvailable, ClaimRejected, ClaimAccepted
  <2> QED BY <2>1
<1>2. \A j, a, i, b : ClaimAccepted(j, a) = ClaimAccepted(i, b) => j = i /\ a = b
  <2> SUFFICES ASSUME NEW j, NEW a, NEW i, NEW b, ClaimAccepted(j, a) = ClaimAccepted(i, b)
               PROVE  j = i /\ a = b
    OBVIOUS
  <2>1. /\ ClaimAccepted(j, a).job = j /\ ClaimAccepted(j, a).by = a
        /\ ClaimAccepted(i, b).job = i /\ ClaimAccepted(i, b).by = b
    BY DEF ClaimAccepted
  <2> QED BY <2>1
<1>3. \A m \in GossipMessage : m.type = "ClaimAccepted" => m = ClaimAccepted(m.job, m.by)
  BY DEF GossipMessage, ClaimAccepted
<1> QED BY <1>1, <1>2, <1>3

(* The coordinator gives out rights to jobs by granting claims only.       *)
LEMMA CoordinatorGrants ==
  ASSUME TypeOK, CoordinatorStep, UNCHANGED workerVars, NEW j \in Job, NEW a \in By, Token(j, a)'
  PROVE  \/ Token(j, a)
         \/ /\ jobs[j].state = "Pending"
            /\ jobs' = [jobs EXCEPT ![j] = Assigned(a)]
            /\ handler' = [at |-> "reply", msg |-> ClaimAccepted(j, a)]
            /\ down' = down
<1> DEFINE answer == [at |-> "reply", msg |-> ClaimAccepted(j, a)]
<1>1. Provers(j)' = Provers(j)
  BY DEF workerVars, Provers
<1>2. answer.at = "reply" /\ answer.msg = ClaimAccepted(j, a) /\ answer # Idle
  BY DEF Idle
<1> HIDE DEF answer
<1>3. ASSUME \A w \in Worker : Has(down'[w], ClaimAccepted(j, a)) => Token(j, a),
             handler' = answer => handler = answer
      PROVE  Token(j, a)
  BY <1>1, <1>3 DEF Token, answer
<1>4. down' = down => \A w \in Worker : Has(down'[w], ClaimAccepted(j, a)) => Token(j, a)
  BY DEF Token
<1>5. ASSUME NEW i \in Job, Broadcast(JobAvailable(i)), handler' = handler
      PROVE  Token(j, a)
  <2>1. \A w \in Worker : Has(down'[w], ClaimAccepted(j, a)) => Has(down[w], ClaimAccepted(j, a))
    <3>1. JobAvailable(i) \in GossipMessage /\ JobAvailable(i) # ClaimAccepted(j, a)
      BY Constructors, MessagesDiffer
    <3>2. \A w \in Worker : \A x : Has(down'[w], x) => Has(down[w], x) \/ x = JobAvailable(i)
      BY <1>5, <3>1, BroadcastType
    <3> QED BY <3>1, <3>2
  <2> QED BY <1>3, <1>5, <2>1 DEF Token
<1>6. ASSUME NEW i \in Job,
             CreateJob(i) \/ SendSubmitJob(i) \/ SubmitJobReceipt(i) \/ FailRequest(i)
      PROVE  Token(j, a)
  BY <1>3, <1>4, <1>6 DEF CreateJob, SendSubmitJob, SubmitJobReceipt, FailRequest, linkVars
<1>7. ASSUME NEW i \in Job, AnnounceJob(i) \/ RebroadcastJob(i)
      PROVE  Token(j, a)
  BY <1>5, <1>7 DEF AnnounceJob, RebroadcastJob
<1>8. ASSUME NEW w \in Worker, HandleClaim(w), ~Token(j, a)
      PROVE  /\ jobs[j].state = "Pending"
             /\ jobs' = [jobs EXCEPT ![j] = Assigned(a)]
             /\ handler' = answer
             /\ down' = down
  <2> DEFINE m == Head(up[w])
  <2>1. down' = down
    BY <1>8 DEF HandleClaim
  <2>2. handler' = answer /\ handler # answer
    BY <1>3, <1>4, <1>8, <2>1
  <2>3. handler' # [at |-> "reply", msg |-> ClaimRejected(m.job)]
    BY <1>2, <2>2, MessagesDiffer
  <2>4. /\ Claimable(jobs[m.job])
        /\ jobs' = [jobs EXCEPT ![m.job] = Assigned(m.by)]
        /\ handler' = [at |-> "reply", msg |-> ClaimAccepted(m.job, m.by)]
    BY <1>8, <2>3 DEF HandleClaim
  <2>5. m.job = j /\ m.by = a
    BY <1>2, <2>2, <2>4, MessagesDiffer
  <2> QED BY <2>1, <2>2, <2>4, <2>5 DEF Claimable
<1>9. ASSUME NEW w \in Worker, HandleJobCompleted(w)
      PROVE  Token(j, a)
  <2>1. handler'.at # "reply" /\ down' = down
    BY <1>9 DEF HandleJobCompleted, Idle
  <2> QED BY <1>2, <1>3, <1>4, <2>1
<1>10. CASE ReplyToClaim
  <2>1. handler \in [at : {"reply", "verify", "confirmed"}, msg : GossipMessage]
    BY <1>10, Types DEF ReplyToClaim, Idle
  <2>2. \A w \in Worker : Has(down'[w], ClaimAccepted(j, a)) =>
          Has(down[w], ClaimAccepted(j, a)) \/ ClaimAccepted(j, a) = handler.msg
    BY <1>10, <2>1, BroadcastType DEF ReplyToClaim
  <2>3. ClaimAccepted(j, a) = handler.msg => handler = answer
    BY <1>10, <2>1 DEF ReplyToClaim, answer
  <2> QED BY <1>2, <1>3, <1>10, <2>2, <2>3 DEF Token, answer, ReplyToClaim
<1>11. CASE VerifyOnChain
  <2>1. handler'.at # "reply" /\ down' = down
    BY <1>11, Types DEF VerifyOnChain, Idle, linkVars
  <2> QED BY <1>2, <1>3, <1>4, <2>1
<1>12. CASE MarkCompleted \/ CollectPending \/ SaveJobs
  BY <1>2, <1>3, <1>4, <1>12 DEF MarkCompleted, CollectPending, SaveJobs, linkVars
<1> QED
  BY <1>6, <1>7, <1>8, <1>9, <1>10, <1>11, <1>12
  DEF CoordinatorStep, SubmitJobError, AbandonRequest, answer

(* A worker never has a right to a job that the coordinator did not give.  *)
LEMMA WorkerGrants ==
  ASSUME TypeOK, NEW w \in Worker, WorkerStep(w), UNCHANGED handler,
         NEW j \in Job, NEW a \in By, Token(j, a)'
  PROVE  Token(j, a)
<1>1. /\ down \in [Worker -> Seq(GossipMessage)]
      /\ DOMAIN tasks = Worker
  BY Types
<1>2. ASSUME \A v \in Worker : Has(down'[v], ClaimAccepted(j, a)) => Token(j, a),
             a \in Provers(j)' => Token(j, a)
      PROVE  Token(j, a)
  BY <1>2 DEF Token
<1>3. ASSUME NEW type, Take(w, type)
      PROVE  /\ \A v \in Worker : Has(down'[v], ClaimAccepted(j, a)) => Token(j, a)
             /\ Head(down[w]) \in GossipMessage
             /\ Head(down[w]).type = type
             /\ Has(down[w], Head(down[w]))
  <2>1. /\ Head(down[w]) \in GossipMessage
        /\ Has(down[w], Head(down[w]))
        /\ \A m : Has(Tail(down[w]), m) => Has(down[w], m)
    BY <1>1, <1>3, TailOfQueue DEF Take
  <2>2. \A v \in Worker : Has(down'[v], ClaimAccepted(j, a)) => Has(down[v], ClaimAccepted(j, a))
    BY <1>1, <1>3, <2>1 DEF Take
  <2> QED BY <1>3, <2>1, <2>2 DEF Take, Token
<1>4. down' = down => \A v \in Worker : Has(down'[v], ClaimAccepted(j, a)) => Token(j, a)
  BY DEF Token
<1>5. tasks' = tasks => (a \in Provers(j)' => Token(j, a))
  BY DEF Provers, Token
<1>6. CASE HandleJobAvailable(w) \/ HandleClaimRejected(w)
  BY <1>2, <1>3, <1>5, <1>6 DEF HandleJobAvailable, HandleClaimRejected
<1>7. CASE HandleClaimAccepted(w)
  <2> DEFINE m == Head(down[w])
  <2>1. /\ m = ClaimAccepted(m.job, m.by)
        /\ Has(down[w], m)
        /\ \A v \in Worker : Has(down'[v], ClaimAccepted(j, a)) => Token(j, a)
    BY <1>3, <1>7, MessagesDiffer DEF HandleClaimAccepted
  <2>2. CASE Accept(w, m) /\ m.by = w
    <3>1. \A v \in Worker : \A t \in tasks'[v] : t \in tasks[v] \/ (v = w /\ t = Task("prove", m.job))
      BY <1>1, <2>2 DEF Accept
    <3>2. a \in Provers(j)' => a \in Provers(j) \/ (a = w /\ j = m.job)
      BY <3>1 DEF Provers, Task
    <3>3. a \in Provers(j)' => Token(j, a)
      BY <2>1, <2>2, <3>2 DEF Token
    <3> QED BY <1>2, <2>1, <3>3
  <2>3. CASE tasks' = tasks
    BY <1>2, <1>5, <2>1, <2>3
  <2> QED BY <1>7, <2>2, <2>3 DEF HandleClaimAccepted, Accept, workerVars
<1>8. ASSUME NEW t \in tasks[w], TaskStep(w, t)
      PROVE  Token(j, a)
  <2>1. ASSUME NEW at, Moves(w, t, at) \/ Ends(w, t)
        PROVE  a \in Provers(j)' => Token(j, a)
    <3>1. \A v \in Worker : \A u \in tasks'[v] : u \in tasks[v] \/ (v = w /\ u = Task(at, t.job))
      BY <1>1, <2>1 DEF Moves, Ends
    <3>2. a \in Provers(j)' => a \in Provers(j)
      BY <3>1 DEF Provers, Task
    <3> QED BY <3>2 DEF Token
  <2>2. down' = down
    BY <1>8 DEF TaskStep, ProvingEnds, ProvingFails, SendSubmitProof, SubmitProofReceipt,
       SubmitProofError, AnnounceCompletion, Retire, linkVars
  <2>3. \E at : Moves(w, t, at) \/ Ends(w, t)
    BY <1>8 DEF TaskStep, ProvingEnds, ProvingFails, SendSubmitProof, SubmitProofReceipt,
       SubmitProofError, AnnounceCompletion, Retire
  <2> QED BY <1>2, <1>4, <2>1, <2>2, <2>3
<1> QED BY <1>6, <1>7, <1>8 DEF WorkerStep, HandleMessage

(* Sets of at most n elements.                                             *)
LEMMA AtMostFacts ==
  ASSUME NEW S, NEW n \in Nat, AtMost(n, S)
  PROVE  /\ \A T : T \subseteq S => AtMost(n, T)
         /\ AtMost(n + 1, S)
         /\ \A T, x : T \subseteq S \cup {x} => AtMost(n + 1, T)
         /\ n = 0 => S = {}
<1>1. IsFiniteSet(S) /\ Cardinality(S) \in Nat /\ Cardinality(S) <= n
  BY FS_CardinalityType DEF AtMost
<1>2. ASSUME NEW T, NEW U, T \subseteq U, NEW m \in Nat, AtMost(m, U)
      PROVE  AtMost(m, T)
  <2>1. IsFiniteSet(U) /\ Cardinality(U) \in Nat /\ Cardinality(U) <= m
    BY <1>2, FS_CardinalityType DEF AtMost
  <2>2. IsFiniteSet(T) /\ Cardinality(T) <= Cardinality(U)
    BY <1>2, <2>1, FS_Subset
  <2>3. Cardinality(T) \in Nat
    BY <2>2, FS_CardinalityType
  <2> QED BY <2>1, <2>2, <2>3 DEF AtMost
<1>3. AtMost(n + 1, S)
  BY <1>1 DEF AtMost
<1>4. ASSUME NEW x
      PROVE  AtMost(n + 1, S \cup {x})
  <2>1. /\ IsFiniteSet(S \cup {x})
        /\ Cardinality(S \cup {x}) = IF x \in S THEN Cardinality(S) ELSE Cardinality(S) + 1
    BY <1>1, FS_AddElement
  <2> QED BY <1>1, <2>1 DEF AtMost
<1>5. n = 0 => S = {}
  BY <1>1, FS_EmptySet
<1>6. n + 1 \in Nat
  OBVIOUS
<1> QED BY <1>2, <1>3, <1>4, <1>5, <1>6

(* If every status evolves as it may, and nobody but the worker that is    *)
(* assigned gets a right to a job, arbitration stays as it is.             *)
LEMMA ArbitrationKept ==
  ASSUME TypeOK, Arbitration, running' = running, crashes' = crashes,
         ~OnChain => poll' = Waiting,
         ~OnChain => handler'.at \notin {"verify", "confirmed"},
         \A j \in Job : Evolves(j),
         \A j \in Job : disk'[j] \in {disk[j], jobs[j]},
         ~running => jobs' = jobs,
         \A j \in Job, a \in By : Token(j, a)' =>
           \/ Token(j, a)
           \/ /\ running
              /\ jobs[j].state = "Pending"
              /\ \A b \in By : Token(j, b)' => Token(j, b) \/ b = a
              /\ jobs'[j] = Assigned(a)
  PROVE  Arbitration'
<1> USE DEF Done
<1>0. crashes \in Nat
  BY Types, CrashAssumption
<1>1. ASSUME NEW j \in Job
      PROVE  /\ ~running => jobs[j] = Absent /\ jobs'[j] = Absent
             /\ Unsubmitted(j) => /\ jobs[j].state \in {"Absent", "Completed"}
                                  /\ disk[j].state \in {"Absent", "Completed"}
             /\ ~OnChain /\ request[j] = "none" => jobs[j] = Absent /\ disk[j] = Absent
             /\ AtMost(crashes + 1, Holders(j))
             /\ StillOpen(j) \/ Unsubmitted(j) => AtMost(crashes, Holders(j))
             /\ Evolves(j)
             /\ disk'[j] \in {disk[j], jobs[j]}
  BY <1>1 DEF Arbitration, Recorded
<1>2. Recorded'
  <2> SUFFICES ASSUME NEW j \in Job
               PROVE  /\ ~running' => jobs'[j] = Absent
                      /\ Unsubmitted(j)' => /\ jobs'[j].state \in {"Absent", "Completed"}
                                            /\ disk'[j].state \in {"Absent", "Completed"}
                      /\ ~OnChain /\ request'[j] = "none" => jobs'[j] = Absent /\ disk'[j] = Absent
    BY DEF Recorded
  <2>1. Unsubmitted(j)' => Unsubmitted(j) /\ ~Inserts(j)
    BY <1>1 DEF Evolves
  <2>2. Unsubmitted(j)' => jobs'[j].state \in {"Absent", "Completed"}
    BY <1>1, <2>1 DEF Evolves, Finishes, Assigns
  <2>3. ~OnChain /\ request'[j] = "none" => request[j] = "none" /\ jobs'[j] = Absent
    BY <1>1 DEF Evolves, Finishes, Assigns, Inserts, Absent
  <2> QED BY <1>1, <2>1, <2>2, <2>3
<1>3. ASSUME NEW j \in Job
      PROVE  /\ AtMost(crashes + 1, Holders(j)')
             /\ StillOpen(j)' \/ Unsubmitted(j)' => AtMost(crashes, Holders(j)')
  <2>1. CASE Holders(j)' \subseteq Holders(j)
    <3>1. AtMost(crashes + 1, Holders(j)')
      BY <1>0, <1>1, <2>1, AtMostFacts
    <3>2. StillOpen(j)' => StillOpen(j) \/ Unsubmitted(j)
      BY <1>1 DEF Evolves, Finishes, Assigns, Inserts, Unsubmitted, StillOpen
    <3>3. Unsubmitted(j)' => Unsubmitted(j)
      BY <1>1 DEF Evolves
    <3> QED BY <1>0, <1>1, <2>1, <3>1, <3>2, <3>3, AtMostFacts
  <2>2. ASSUME NEW a \in By, Token(j, a)', ~Token(j, a)
        PROVE  /\ AtMost(crashes + 1, Holders(j)')
               /\ ~Unsubmitted(j)' /\ ~StillOpen(j)'
    <3>1. /\ running
          /\ jobs[j].state = "Pending"
          /\ \A b \in By : Token(j, b)' => Token(j, b) \/ b = a
          /\ jobs'[j] = Assigned(a)
      BY <2>2
    <3>2. Holders(j)' \subseteq Holders(j) \cup {a}
      BY <3>1 DEF Holders
    <3>3. AtMost(crashes + 1, Holders(j)')
      BY <1>0, <1>1, <3>1, <3>2, AtMostFacts DEF StillOpen
    <3>4. ~Unsubmitted(j)'
      BY <1>1, <3>1 DEF Evolves
    <3> QED BY <3>1, <3>3, <3>4 DEF Assigned, StillOpen
  <2>3. Holders(j)' \subseteq Holders(j) \/ \E a \in By : Token(j, a)' /\ ~Token(j, a)
    BY DEF Holders
  <2> QED BY <2>1, <2>2, <2>3
<1>4. ASSUME crashes = 0
      PROVE  /\ running
             /\ \A j \in Job, a \in By : Token(j, a)' => jobs'[j] = Assigned(a) \/ Done(jobs'[j])
  <2>1. /\ running
        /\ \A j \in Job, a \in By : Token(j, a) => jobs[j] = Assigned(a) \/ Done(jobs[j])
    BY <1>4 DEF Arbitration
  <2>2. ASSUME NEW j \in Job, NEW a \in By, Token(j, a)', Token(j, a)
        PROVE  jobs'[j] = Assigned(a) \/ Done(jobs'[j])
    <3>1. Holders(j) # {}
      BY <2>2 DEF Holders
    <3>2. ~Unsubmitted(j) /\ jobs[j].state # "Pending"
      BY <1>1, <1>4, <3>1, AtMostFacts DEF StillOpen
    <3> QED BY <1>1, <2>1, <2>2, <3>2 DEF Evolves, Finishes, Assigns, Inserts, Unsubmitted
  <2> QED BY <2>1, <2>2
<1> QED BY <1>2, <1>3, <1>4 DEF Arbitration

(* Nobody has a right to a job at the start.                               *)
LEMMA InitArbitration ==
  Init => Arbitration
<1> SUFFICES ASSUME Init
             PROVE  Arbitration
  OBVIOUS
<1>1. \A j \in Job : Holders(j) = {}
  BY DEF Init, CoordinatorInit, LinkInit, WorkerInit, Holders, Token, Has, Provers, Idle
<1>2. AtMost(0, {}) /\ AtMost(0 + 1, {})
  BY FS_EmptySet DEF AtMost
<1>3. crashes = 0 /\ running /\ Recorded
  BY DEF Init, CoordinatorInit, IndexerInit, Recorded, Absent, Idle
<1>4. \A j \in Job, a \in By : ~Token(j, a)
  BY <1>1 DEF Holders
<1> QED BY <1>1, <1>2, <1>3, <1>4 DEF Arbitration

(* A crash keeps no more rights than there were, and leaves room for one.  *)
LEMMA CrashArbitration ==
  ASSUME TypeOK, Arbitration, Crash
  PROVE  Arbitration'
<1>0. crashes \in Nat /\ crashes' = crashes + 1 /\ ~running'
  BY Types, CrashAssumption DEF Crash
<1>1. Recorded'
  <2>1. \A j \in Job : Unsubmitted(j)' => Unsubmitted(j)
    BY DEF Crash, Unsubmitted
  <2>2. \A j \in Job : request'[j] = "none" => request[j] = "none"
    BY DEF Crash
  <2>3. /\ \A j \in Job : jobs'[j] = Absent
        /\ disk' = disk /\ poll' = Waiting /\ handler' = Idle
    BY DEF Crash
  <2> QED BY <2>1, <2>2, <2>3 DEF Arbitration, Recorded, Absent, Idle
<1>2. ASSUME NEW j \in Job
      PROVE  Holders(j)' \subseteq Holders(j)
  <2>1. \A v \in Worker : \A x : Has(down'[v], x) => Has(down[v], x)
    BY Types, PrefixOfQueue DEF Crash
  <2>2. Provers(j)' = Provers(j)
    BY DEF Crash, Provers, workerVars
  <2>3. handler'.at = "recv"
    BY DEF Crash, Idle
  <2> QED BY <2>1, <2>2, <2>3 DEF Holders, Token
<1>3. \A j \in Job : AtMost(crashes + 1, Holders(j)')
  BY <1>0, <1>2, AtMostFacts DEF Arbitration
<1>4. \A j \in Job : AtMost(crashes + 1 + 1, Holders(j)')
  BY <1>0, <1>3, AtMostFacts
<1> QED BY <1>0, <1>1, <1>3, <1>4 DEF Arbitration

(* Whatever the snapshot says, a restart begins with what the crashes left.*)
LEMMA RestartArbitration ==
  ASSUME TypeOK, Arbitration, Restart
  PROVE  Arbitration'
<1>1. /\ ~running /\ running' /\ crashes \in Nat /\ crashes' = crashes /\ jobs' = disk
      /\ UNCHANGED <<linkVars, disk, request, handler, poll, workerVars>>
  BY Types, CrashAssumption DEF Restart
<1>2. Recorded'
  <2>1. \A j \in Job : Unsubmitted(j)' => Unsubmitted(j)
    BY <1>1 DEF Unsubmitted
  <2> QED BY <1>1, <2>1 DEF Arbitration, Recorded
<1>3. \A j \in Job : Holders(j)' = Holders(j)
  BY <1>1 DEF Holders, Token, Provers, linkVars, workerVars
<1>4. \A j \in Job : StillOpen(j)
  BY <1>1 DEF Arbitration, Recorded, StillOpen, Absent
<1>5. crashes # 0
  BY <1>1 DEF Arbitration
<1>6. \A j \in Job : AtMost(crashes, Holders(j)) /\ AtMost(crashes + 1, Holders(j))
  BY <1>4 DEF Arbitration
<1> QED BY <1>1, <1>2, <1>3, <1>5, <1>6 DEF Arbitration

(* Every step keeps the arbitration, and while the process lives changes   *)
(* no status in any other way than these.                                  *)
LEMMA StepArbitration ==
  ASSUME TypeOK, Arbitration, [Next]_vars
  PROVE  Arbitration' /\ \A j \in Job : running' => Evolves(j) \/ jobs[j] = Absent
<1>2. /\ UNCHANGED coordinatorVars => /\ running' = running /\ handler' = handler
                                      /\ jobs' = jobs /\ disk' = disk
                                      /\ \A j \in Job : Evolves(j)
      /\ UNCHANGED indexerVars => poll' = poll
  BY DEF coordinatorVars, indexerVars, Evolves, Unsubmitted, Inserts
<1>3. /\ ~OnChain => poll = Waiting
      /\ ~OnChain => handler.at \notin {"verify", "confirmed"}
      /\ Recorded
  BY DEF Arbitration, Recorded
<1>4. ASSUME UNCHANGED workerVars, handler' = handler,
             \A v \in Worker : \A x : Has(down'[v], x) => Has(down[v], x)
      PROVE  \A j \in Job, a \in By : Token(j, a)' => Token(j, a)
  BY <1>4 DEF workerVars, Token, Provers
<1>5. CASE UNCHANGED vars \/ OfChain(ChainStep)
  <2>1. /\ UNCHANGED coordinatorVars
        /\ UNCHANGED indexerVars
        /\ UNCHANGED workerVars
        /\ UNCHANGED linkVars
        /\ crashes' = crashes
    BY <1>5 DEF vars, OfChain
  <2>2. \A j \in Job, a \in By : Token(j, a)' => Token(j, a)
    BY <1>2, <1>4, <2>1 DEF linkVars
  <2> QED BY <1>2, <1>3, <2>1, <2>2, ArbitrationKept
<1>6. CASE OfNetwork(Network)
  <2>1. /\ UNCHANGED coordinatorVars
        /\ UNCHANGED indexerVars
        /\ UNCHANGED workerVars
        /\ crashes' = crashes
        /\ \A v \in Worker : \A x : Has(down'[v], x) => Has(down[v], x)
    BY <1>6, NetworkType DEF OfNetwork, Network
  <2>2. \A j \in Job, a \in By : Token(j, a)' => Token(j, a)
    BY <1>2, <1>4, <2>1
  <2> QED BY <1>2, <1>3, <2>1, <2>2, ArbitrationKept
<1>7. CASE OfCoordinator(CoordinatorStep)
  <2>1. /\ UNCHANGED indexerVars
        /\ UNCHANGED workerVars
        /\ crashes' = crashes
        /\ running
        /\ CoordinatorStep
    BY <1>7 DEF OfCoordinator
  <2>2. running' = running /\ \A j \in Job : disk'[j] \in {disk[j], jobs[j]}
    BY <2>1 DEF CoordinatorStep, CreateJob, SendSubmitJob, SubmitJobReceipt, SubmitJobError,
       AbandonRequest, FailRequest, AnnounceJob, RebroadcastJob, HandleClaim, HandleJobCompleted,
       ReplyToClaim, VerifyOnChain, MarkCompleted, CollectPending, SaveJobs
  <2>3. \A j \in Job : Evolves(j)
    BY <1>3, <2>1, CoordinatorEvolves
  <2>4. ASSUME NEW j \in Job, NEW a \in By, Token(j, a)', ~Token(j, a)
        PROVE  /\ jobs[j].state = "Pending"
               /\ \A b \in By : Token(j, b)' => Token(j, b) \/ b = a
               /\ jobs'[j] = Assigned(a)
    <3>1. /\ jobs[j].state = "Pending"
          /\ jobs' = [jobs EXCEPT ![j] = Assigned(a)]
          /\ handler' = [at |-> "reply", msg |-> ClaimAccepted(j, a)]
      BY <2>1, <2>4, CoordinatorGrants
    <3>2. jobs'[j] = Assigned(a)
      BY <3>1, Types
    <3>3. ASSUME NEW b \in By, Token(j, b)', ~Token(j, b)
          PROVE  b = a
      <4>1. handler' = [at |-> "reply", msg |-> ClaimAccepted(j, b)]
        BY <2>1, <3>3, CoordinatorGrants
      <4>2. ClaimAccepted(j, b) = ClaimAccepted(j, a)
        BY <3>1, <4>1
      <4> QED BY <4>2, MessagesDiffer
    <3> QED BY <3>1, <3>2, <3>3
  <2>5. ~OnChain => handler'.at \notin {"verify", "confirmed"}
    <3>1. ASSUME ~OnChain
          PROVE  ~VerifyOnChain /\ ~MarkCompleted
      BY <1>3, <3>1 DEF VerifyOnChain, MarkCompleted
    <3>2. ASSUME NEW w \in Worker, HandleClaim(w) \/ HandleJobCompleted(w)
          PROVE  handler'.at = "reply" \/ OnChain \/ handler' = Idle
      BY <3>2 DEF HandleClaim, HandleJobCompleted
    <3>3. handler'.at = "reply" \/ OnChain \/ handler' = Idle \/ handler' = handler
      BY <2>1, <3>1, <3>2 DEF CoordinatorStep, CreateJob, SendSubmitJob, SubmitJobReceipt,
         SubmitJobError, AbandonRequest, FailRequest, AnnounceJob, RebroadcastJob, ReplyToClaim,
         CollectPending, SaveJobs
    <3> QED BY <1>3, <3>3 DEF Idle
  <2>6. ~OnChain => poll' = Waiting
    BY <1>2, <1>3, <2>1
  <2>7. \A j \in Job, a \in By : Token(j, a)' =>
          \/ Token(j, a)
          \/ /\ running
             /\ jobs[j].state = "Pending"
             /\ \A b \in By : Token(j, b)' => Token(j, b) \/ b = a
             /\ jobs'[j] = Assigned(a)
    BY <2>1, <2>4
  <2> QED BY <2>1, <2>2, <2>3, <2>5, <2>6, <2>7, ArbitrationKept
<1>8. CASE OfIndexer(IndexerStep)
  <2>1. /\ UNCHANGED workerVars
        /\ UNCHANGED <<chainVars, linkVars, running, disk, request, pending, handler>>
        /\ \A j \in Job : Evolves(j)
        /\ running
        /\ crashes' = crashes
    BY <1>3, <1>8, IndexerType, IndexerEvolves DEF OfIndexer
  <2>2. OnChain
    <3>1. Waiting.at = "wait"
      BY DEF Waiting
    <3>2. IndexerStep
      BY <1>8 DEF OfIndexer
    <3>3. OnChain \/ poll # Waiting
      BY <3>1, <3>2 DEF IndexerStep, StartPoll, ProcessJobCompletedEvents,
         ProcessJobExpiredEvents, PollFails
    <3> QED BY <1>3, <3>3
  <2>3. \A j \in Job, a \in By : Token(j, a)' => Token(j, a)
    BY <1>4, <2>1 DEF linkVars
  <2> QED BY <1>3, <2>1, <2>2, <2>3, ArbitrationKept
<1>9. ASSUME NEW w \in Worker, OfWorker(WorkerStep(w))
      PROVE  Arbitration' /\ \A j \in Job : Evolves(j)
  <2>1. /\ UNCHANGED coordinatorVars /\ UNCHANGED indexerVars /\ WorkerStep(w)
        /\ crashes' = crashes
    BY <1>9 DEF OfWorker
  <2>2. \A j \in Job, a \in By : Token(j, a)' => Token(j, a)
    BY <1>2, <2>1, WorkerGrants
  <2> QED BY <1>2, <1>3, <2>1, <2>2, ArbitrationKept
<1>10. Crash => Arbitration' /\ ~running'
  BY CrashArbitration DEF Crash
<1>11. Restart => Arbitration' /\ \A j \in Job : jobs[j] = Absent
  BY RestartArbitration DEF Restart, Arbitration, Recorded
<1> QED BY <1>5, <1>6, <1>7, <1>8, <1>9, <1>10, <1>11 DEF Next

(* The inductive invariant of the next three theorems.                     *)
LEMMA ArbitrationHolds == Spec => [](TypeOK /\ Arbitration)
<1>1. Init => TypeOK /\ Arbitration
  BY InitType, InitArbitration
<1>2. TypeOK /\ Arbitration /\ [Next]_vars => TypeOK' /\ Arbitration'
  BY StepType, StepArbitration
<1> QED BY <1>1, <1>2, PTL DEF Spec

(* First-wins arbitration holds for any number of workers, whatever is     *)
(* lost or delayed on the links: each life of the coordinator adds one     *)
(* prover of a job at most, and none before it has given the job away.     *)
THEOREM AlwaysSoleProver == Spec => []SoleProver
<1>1. TypeOK /\ Arbitration => SoleProver
  <2> SUFFICES ASSUME TypeOK, Arbitration, NEW j \in Job
               PROVE  Cardinality(Provers(j)) <= crashes + IF StillOpen(j) THEN 0 ELSE 1
    BY DEF SoleProver
  <2>1. crashes \in Nat /\ crashes + 1 \in Nat
    BY Types, CrashAssumption
  <2>2. Provers(j) \subseteq Holders(j)
    BY DEF Holders, Token, By, Provers
  <2>3. AtMost(crashes + 1, Provers(j))
    BY <2>1, <2>2, AtMostFacts DEF Arbitration
  <2>4. StillOpen(j) => AtMost(crashes, Provers(j))
    BY <2>1, <2>2, AtMostFacts DEF Arbitration
  <2>5. Cardinality(Provers(j)) \in Nat
    BY <2>3, FS_CardinalityType DEF AtMost
  <2> QED BY <2>1, <2>3, <2>4, <2>5 DEF AtMost
<1> QED BY <1>1, ArbitrationHolds, PTL

(* Until the first crash a worker proves only what the coordinator has     *)
(* assigned to it, unless the chain has finished the job meanwhile.        *)
THEOREM ProverIsAlwaysAssigned == Spec => []ProverIsAssigned
<1>1. TypeOK /\ Arbitration => ProverIsAssigned
  BY DEF Arbitration, Token, By, Provers, ProverIsAssigned
<1> QED BY <1>1, ArbitrationHolds, PTL

(* While the process lives the job map never takes back an assignment or a *)
(* completion, but for a create_job call that waits for its receipt.       *)
THEOREM JobMapNeverGoesBack == Spec => NeverReopened
<1> DEFINE Forward ==
      running' => \A j \in Job : request[j] # "receipt" =>
        /\ Done(jobs[j]) => Done(jobs'[j])
        /\ jobs[j].state = "Completed" => jobs'[j] = jobs[j]
        /\ jobs[j].state = "Assigned" => jobs'[j] = jobs[j] \/ Done(jobs'[j])
<1>1. TypeOK /\ Arbitration /\ [Next]_vars => Forward
  <2> SUFFICES ASSUME TypeOK, Arbitration, [Next]_vars, running',
                      NEW j \in Job, request[j] # "receipt"
               PROVE  /\ Done(jobs[j]) => Done(jobs'[j])
                      /\ jobs[j].state = "Completed" => jobs'[j] = jobs[j]
                      /\ jobs[j].state = "Assigned" => jobs'[j] = jobs[j] \/ Done(jobs'[j])
    OBVIOUS
  <2>1. Evolves(j) \/ jobs[j] = Absent
    BY StepArbitration
  <2>2. Inserts(j) => jobs[j].state = "Absent"
    BY DEF Inserts, Arbitration, Recorded, Absent
  <2> QED BY <2>1, <2>2 DEF Evolves, Finishes, Assigns, Done, Absent
<1>2. TypeOK /\ Arbitration /\ [Next]_vars => [Forward]_vars
  BY <1>1
<1>3. [](TypeOK /\ Arbitration) /\ [][Next]_vars => [][Forward]_vars
  BY <1>2, PTL
<1> QED BY <1>3, ArbitrationHolds, PTL DEF Spec, NeverReopened

-----------------------------------------------------------------------------
(* Claims under way                                                        *)

AnswerTypes == {"ClaimAccepted", "ClaimRejected"}

(* The claim of a worker, or something that will end its wait.             *)
Awaited(w, j) == \/ Has(up[w], ClaimJob(j, w))
                 \/ handler.at = "reply" /\ Answers(handler.msg, j)
                 \/ \E m \in GossipMessage : Answers(m, j) /\ Has(down[w], m)

(* Every open connection has its handle, and before it connects a worker   *)
(* has received nothing that it could claim.                               *)
Links == /\ IsFiniteSet(handles)
         /\ handler.at = "reply" => handler.msg.type \in AnswerTypes
         /\ \A w \in Worker :
              /\ link[w] = "open" => w \in handles
              /\ link[w] = "none" => down[w] = <<>> /\ status[w].state # "Claiming"

(* A broadcast takes nothing from a queue, adds nothing to one without a   *)
(* connection, and misses nobody if there are few enough handles.          *)
LEMMA BroadcastReaches ==
  ASSUME TypeOK, NEW m \in GossipMessage, Broadcast(m), NEW w \in Worker
  PROVE  /\ \A x : Has(down[w], x) => Has(down'[w], x)
         /\ link[w] # "open" => down'[w] = down[w]
         /\ Links /\ link[w] = "open" /\ Cardinality(handles) <= Fanout => Has(down'[w], m)
<1>1. PICK targets \in Targets : SendTo(targets, m)
  BY DEF Broadcast
<1>2. /\ down[w] \in Seq(GossipMessage)
      /\ down'[w] = IF w \in targets /\ link[w] = "open" THEN Append(down[w], m) ELSE down[w]
  BY <1>1, Types DEF SendTo
<1>3. /\ Has(Append(down[w], m), m)
      /\ \A x : Has(down[w], x) => Has(Append(down[w], m), x)
  BY <1>2, AppendKeeps
<1>4. Links /\ link[w] = "open" /\ Cardinality(handles) <= Fanout => w \in targets
  BY <1>1 DEF Targets, Links
<1> QED BY <1>2, <1>3, <1>4

(* The coordinator takes a claim only to answer it, and forgets no answer. *)
LEMMA CoordinatorAwaited ==
  ASSUME TypeOK, Links, CoordinatorStep, NEW w \in Worker, NEW j \in Job,
         link[w] = "open", Cardinality(handles) <= Fanout, Awaited(w, j)
  PROVE  Awaited(w, j)'
<1>1. /\ up \in [Worker -> Seq(GossipMessage)]
      /\ handler.at # "recv" => handler.msg \in GossipMessage
  BY Types DEF Idle
<1>2. CASE up' = up /\ handler' = handler /\ \A x : Has(down[w], x) => Has(down'[w], x)
  BY <1>2 DEF Awaited
<1>3. ASSUME NEW i \in Job, AnnounceJob(i) \/ RebroadcastJob(i)
      PROVE  Awaited(w, j)'
  <2>1. up' = up /\ handler' = handler /\ Broadcast(JobAvailable(i))
    BY <1>3 DEF AnnounceJob, RebroadcastJob
  <2> QED BY <1>2, <2>1, BroadcastReaches, Constructors
<1>4. ASSUME NEW i \in Job,
             CreateJob(i) \/ SendSubmitJob(i) \/ SubmitJobReceipt(i) \/ FailRequest(i)
      PROVE  Awaited(w, j)'
  BY <1>2, <1>4 DEF CreateJob, SendSubmitJob, SubmitJobReceipt, FailRequest, linkVars
<1>5. ASSUME NEW v \in Worker, NEW type, Receive(v, type), down' = down,
             type = "ClaimJob" => /\ handler'.at = "reply"
                                  /\ Answers(handler'.msg, Head(up[v]).job),
             type # "ClaimJob" => type = "JobCompleted"
      PROVE  Awaited(w, j)'
  <2>1. handler.at # "reply"
    BY <1>5 DEF Receive, Idle
  <2>2. /\ ClaimJob(j, w).type = "ClaimJob" /\ ClaimJob(j, w).job = j
        /\ Head(up[v]).type = type
        /\ up'[w] = IF v = w THEN Tail(up[w]) ELSE up[w]
    BY <1>1, <1>5 DEF Receive, ClaimJob
  <2>3. CASE Has(up[w], ClaimJob(j, w))
    <3>1. CASE v = w /\ ClaimJob(j, w) = Head(up[w])
      BY <1>5, <2>2, <3>1 DEF Awaited
    <3>2. CASE v = w /\ ClaimJob(j, w) # Head(up[w])
      <4>1. Has(Tail(up[w]), ClaimJob(j, w))
        BY <1>1, <2>3, <3>2, TailKeeps
      <4> QED BY <2>2, <3>2, <4>1 DEF Awaited
    <3>3. CASE v # w
      BY <2>2, <2>3, <3>3 DEF Awaited
    <3> QED BY <3>1, <3>2, <3>3
  <2> QED BY <1>5, <2>1, <2>3 DEF Awaited
<1>6. ASSUME NEW v \in Worker, HandleClaim(v)
      PROVE  Awaited(w, j)'
  <2>1. \A i, b : Answers(ClaimAccepted(i, b), i) /\ Answers(ClaimRejected(i), i)
    BY DEF Answers, ClaimAccepted, ClaimRejected
  <2>2. handler'.at = "reply" /\ Answers(handler'.msg, Head(up[v]).job)
    BY <1>6, <2>1 DEF HandleClaim
  <2> QED BY <1>5, <1>6, <2>2 DEF HandleClaim
<1>7. ASSUME NEW v \in Worker, HandleJobCompleted(v)
      PROVE  Awaited(w, j)'
  BY <1>5, <1>7 DEF HandleJobCompleted
<1>8. CASE ReplyToClaim
  <2>1. /\ up' = up
        /\ handler.msg \in GossipMessage
        /\ \A x : Has(down[w], x) => Has(down'[w], x)
        /\ Has(down'[w], handler.msg)
    BY <1>1, <1>8, BroadcastReaches DEF ReplyToClaim
  <2> QED BY <2>1 DEF Awaited
<1>9. ASSUME handler.at # "reply", up' = up, down' = down
      PROVE  Awaited(w, j)'
  BY <1>9 DEF Awaited
<1>10. CASE VerifyOnChain \/ MarkCompleted
  BY <1>9, <1>10 DEF VerifyOnChain, MarkCompleted, linkVars
<1>11. CASE CollectPending \/ SaveJobs
  BY <1>2, <1>11 DEF CollectPending, SaveJobs, linkVars
<1> QED
  BY <1>3, <1>4, <1>6, <1>7, <1>8, <1>10, <1>11
  DEF CoordinatorStep, SubmitJobError, AbandonRequest

(* The coordinator sends over open connections only, and replies with      *)
(* answers only.                                                           *)
LEMMA CoordinatorLinks ==
  ASSUME TypeOK, Links, CoordinatorStep, UNCHANGED workerVars
  PROVE  Links'
<1>1. ASSUME link' = link, handles' = handles,
             handler'.at = "reply" => handler' = handler \/ handler'.msg.type \in AnswerTypes,
             \A w \in Worker : link[w] # "open" => down'[w] = down[w]
      PROVE  Links'
  BY <1>1 DEF Links, workerVars
<1>2. ASSUME NEW i \in Job, AnnounceJob(i) \/ RebroadcastJob(i)
      PROVE  Links'
  <2>1. Broadcast(JobAvailable(i)) /\ link' = link /\ handles' = handles /\ handler' = handler
    BY <1>2 DEF AnnounceJob, RebroadcastJob
  <2> QED BY <1>1, <2>1, BroadcastReaches, Constructors
<1>3. ASSUME NEW i \in Job,
             CreateJob(i) \/ SendSubmitJob(i) \/ SubmitJobReceipt(i) \/ FailRequest(i)
      PROVE  Links'
  BY <1>1, <1>3 DEF CreateJob, SendSubmitJob, SubmitJobReceipt, FailRequest, linkVars
<1>4. ASSUME NEW v \in Worker, HandleClaim(v)
      PROVE  Links'
  <2>1. \A i, b : ClaimAccepted(i, b).type \in AnswerTypes /\ ClaimRejected(i).type \in AnswerTypes
    BY DEF ClaimAccepted, ClaimRejected, AnswerTypes
  <2>2. handler'.msg.type \in AnswerTypes
    BY <1>4, <2>1 DEF HandleClaim
  <2> QED BY <1>1, <1>4, <2>2 DEF HandleClaim
<1>5. ASSUME NEW v \in Worker, HandleJobCompleted(v)
      PROVE  Links'
  <2>1. handler'.at # "reply"
    BY <1>5 DEF HandleJobCompleted, Idle
  <2> QED BY <1>1, <1>5, <2>1 DEF HandleJobCompleted
<1>6. CASE ReplyToClaim
  <2>1. handler.msg \in GossipMessage /\ handler'.at # "reply"
    BY <1>6, Types DEF ReplyToClaim, Idle
  <2> QED BY <1>1, <1>6, <2>1, BroadcastReaches DEF ReplyToClaim
<1>7. CASE VerifyOnChain \/ MarkCompleted
  <2>1. handler'.at # "reply"
    BY <1>7, Types DEF VerifyOnChain, MarkCompleted, Idle
  <2> QED BY <1>1, <1>7, <2>1 DEF VerifyOnChain, MarkCompleted, linkVars
<1>8. CASE CollectPending \/ SaveJobs
  BY <1>1, <1>8 DEF CollectPending, SaveJobs, linkVars
<1> QED
  BY <1>2, <1>3, <1>4, <1>5, <1>6, <1>7, <1>8
  DEF CoordinatorStep, SubmitJobError, AbandonRequest

(* A worker sends and receives over its own connection.                    *)
LEMMA OthersQueues ==
  ASSUME TypeOK, NEW w \in Worker, WorkerStep(w), NEW v \in Worker, v # w
  PROVE  up'[v] = up[v] /\ down'[v] = down[v]
<1>1. DOMAIN up = Worker /\ DOMAIN down = Worker
  BY Types
<1>2. \A m : SendUp(w, m) => up'[v] = up[v]
  BY <1>1 DEF SendUp
<1>3. \A type : Take(w, type) => down'[v] = down[v]
  BY <1>1 DEF Take
<1> QED
  BY <1>2, <1>3 DEF WorkerStep, HandleMessage, HandleJobAvailable, HandleClaimAccepted,
     HandleClaimRejected, TaskStep, ProvingEnds, ProvingFails, SendSubmitProof, SubmitProofReceipt,
     SubmitProofError, AnnounceCompletion, Retire, linkVars

(* A worker that goes on waiting has not taken what it waits for, and one  *)
(* that begins to wait has sent its claim.                                 *)
LEMMA WorkerAwaited ==
  ASSUME TypeOK, NEW w \in Worker, WorkerStep(w), UNCHANGED handler, NEW j \in Job,
         link[w] = "open", IsClaiming(w, j)', IsClaiming(w, j) => Awaited(w, j)
  PROVE  Awaited(w, j)'
<1>1. /\ up \in [Worker -> Seq(GossipMessage)]
      /\ down \in [Worker -> Seq(GossipMessage)]
      /\ DOMAIN status = Worker
  BY Types
<1>2. \A s : SetStatus(w, s) => status'[w] = s
  BY <1>1 DEF SetStatus
<1>3. \A s : IsClaiming(w, j)' /\ status'[w] = s => s.state = "Claiming" /\ s.job = j
  BY DEF IsClaiming, Holding
<1>4. ASSUME \A m : Has(up[w], m) => Has(up'[w], m),
             \A m : Answers(m, j) /\ Has(down[w], m) => Has(down'[w], m),
             status'[w] = status[w]
      PROVE  Awaited(w, j)'
  <2>1. Awaited(w, j)
    BY <1>4 DEF IsClaiming
  <2> QED BY <1>4, <2>1 DEF Awaited
<1>5. ASSUME NEW type, Take(w, type), ~Answers(Head(down[w]), j)
      PROVE  \A m : Answers(m, j) /\ Has(down[w], m) => Has(down'[w], m)
  <2>1. down'[w] = Tail(down[w]) /\ down[w] \in Seq(GossipMessage)
    BY <1>1, <1>5 DEF Take
  <2> QED BY <1>5, <2>1, TailKeeps
<1>6. CASE HandleJobAvailable(w)
  <2> DEFINE i == Head(down[w]).job
  <2>1. CASE SetStatus(w, Holding("Claiming", i)) /\ SendUp(w, ClaimJob(i, w))
    <3>1. i = j
      BY <1>2, <1>3, <2>1 DEF Holding
    <3>2. up'[w] = Append(up[w], ClaimJob(j, w))
      BY <1>1, <2>1, <3>1 DEF SendUp
    <3>3. Has(up'[w], ClaimJob(j, w))
      BY <1>1, <3>2, AppendKeeps, Constructors
    <3> QED BY <3>3 DEF Awaited
  <2>2. CASE UNCHANGED <<status, up>>
    <3>1. Take(w, "JobAvailable") /\ ~Answers(Head(down[w]), j)
      BY <1>6 DEF HandleJobAvailable, Take, Answers
    <3> QED BY <1>4, <1>5, <2>2, <3>1
  <2> QED BY <1>6, <2>1, <2>2 DEF HandleJobAvailable
<1>7. ASSUME NEW type, Take(w, type), up' = up,
             IsClaiming(w, Head(down[w]).job) => status'[w].state # "Claiming",
             ~IsClaiming(w, Head(down[w]).job) => status' = status
      PROVE  Awaited(w, j)'
  <2>1. ~IsClaiming(w, Head(down[w]).job) /\ status' = status
    BY <1>3, <1>7
  <2>2. ~Answers(Head(down[w]), j)
    BY <2>1 DEF IsClaiming, Answers
  <2> QED BY <1>4, <1>5, <1>7, <2>1, <2>2
<1>8. \A i : NoJob.state # "Claiming" /\ Holding("Proving", i).state # "Claiming"
             /\ Holding("Submitting", i).state # "Claiming"
  BY DEF NoJob, Holding
<1>9. CASE HandleClaimAccepted(w)
  BY <1>2, <1>7, <1>8, <1>9 DEF HandleClaimAccepted, Accept, workerVars
<1>10. CASE HandleClaimRejected(w)
  BY <1>2, <1>7, <1>8, <1>10 DEF HandleClaimRejected
<1>11. ASSUME NEW t \in tasks[w], TaskStep(w, t)
       PROVE  Awaited(w, j)'
  <2>1. \A i, states : Release(w, i, states) => status'[w] \in {NoJob, status[w]}
    BY <1>2 DEF Release
  <2>2. status'[w] \in {NoJob, Holding("Submitting", t.job), status[w]}
    BY <1>2, <1>11, <2>1 DEF TaskStep, ProvingEnds, ProvingFails, SendSubmitProof,
       SubmitProofReceipt, SubmitProofError, AnnounceCompletion, Retire, TransitionToIdle
  <2>3. status'[w] = status[w]
    BY <1>3, <1>8, <2>2
  <2>4. down' = down /\ (linkVars' = linkVars \/ SendUp(w, JobCompleted(t.job, w)))
    BY <1>11 DEF TaskStep, ProvingEnds, ProvingFails, SendSubmitProof,
       SubmitProofReceipt, SubmitProofError, AnnounceCompletion, Retire, linkVars
  <2>5. \A m : Has(up[w], m) => Has(up'[w], m)
    <3>1. CASE SendUp(w, JobCompleted(t.job, w))
      <4>1. JobCompleted(t.job, w) \in GossipMessage
        BY TaskType, Constructors
      <4>2. up'[w] = Append(up[w], JobCompleted(t.job, w))
        BY <1>1, <3>1 DEF SendUp
      <4> QED BY <1>1, <4>1, <4>2, AppendKeeps
    <3> QED BY <2>4, <3>1 DEF linkVars
  <2> QED BY <1>4, <2>3, <2>4, <2>5
<1> QED BY <1>6, <1>9, <1>10, <1>11 DEF WorkerStep, HandleMessage

(* A worker without a connection has nothing to receive and claims nothing.*)
LEMMA WorkerLinks ==
  ASSUME TypeOK, Links, NEW w \in Worker, WorkerStep(w), UNCHANGED handler
  PROVE  Links' /\ UNCHANGED <<link, handles>>
<1>1. UNCHANGED <<link, handles>>
  BY DEF WorkerStep, HandleMessage, HandleJobAvailable, HandleClaimAccepted,
     HandleClaimRejected, TaskStep, ProvingEnds, ProvingFails, SendSubmitProof, SubmitProofReceipt,
     SubmitProofError, AnnounceCompletion, Retire, linkVars
<1>2. ASSUME link[w] = "none"
      PROVE  down'[w] = <<>> /\ status'[w].state # "Claiming"
  <2>1. down[w] = <<>> /\ status[w].state # "Claiming" /\ DOMAIN status = Worker
    BY <1>2, Types DEF Links
  <2>2. PICK t \in tasks[w] : TaskStep(w, t)
    BY <2>1 DEF WorkerStep, HandleMessage, HandleJobAvailable, HandleClaimAccepted,
       HandleClaimRejected, Take
  <2>3. \A s : SetStatus(w, s) => status'[w] = s
    BY <2>1 DEF SetStatus
  <2>4. \A i, states : Release(w, i, states) => status'[w] \in {NoJob, status[w]}
    BY <2>3 DEF Release
  <2>5. /\ status'[w] \in {NoJob, Holding("Submitting", t.job), status[w]}
        /\ down' = down
    BY <2>2, <2>3, <2>4 DEF TaskStep, ProvingEnds, ProvingFails, SendSubmitProof,
       SubmitProofReceipt, SubmitProofError, AnnounceCompletion, Retire, TransitionToIdle, linkVars
  <2> QED BY <2>1, <2>5 DEF NoJob, Holding
<1>3. \A v \in Worker : v # w => down'[v] = down[v] /\ status'[v] = status[v]
  BY OthersIdle, OthersQueues
<1> QED BY <1>1, <1>2, <1>3 DEF Links

(* What is under way stays under way, whoever connects or breaks down.     *)
LEMMA StepUnderWay ==
  ASSUME TypeOK, Links, ClaimUnderWay, [Next]_vars
  PROVE  Links' /\ ClaimUnderWay'
<1>1. ASSUME "loss" \notin Faults, NEW w \in Worker, NEW j \in Job,
             link[w] = "open", Cardinality(handles) <= Fanout, IsClaiming(w, j)
      PROVE  Awaited(w, j)
  BY <1>1 DEF ClaimUnderWay, Awaited
<1> DEFINE Goal ==
      /\ Links'
      /\ \A w \in Worker, j \in Job :
           /\ "loss" \notin Faults
           /\ link'[w] = "open"
           /\ Cardinality(handles') <= Fanout
           /\ IsClaiming(w, j)'
           => Awaited(w, j)'
<1>2. SUFFICES Goal
  BY DEF ClaimUnderWay, Awaited
<1>3. CASE UNCHANGED <<linkVars, handler, workerVars>>
  BY <1>1, <1>3 DEF linkVars, workerVars, Links, IsClaiming, Awaited
<1>4. CASE OfCoordinator(CoordinatorStep)
  <2>1. /\ CoordinatorStep
        /\ UNCHANGED workerVars
        /\ UNCHANGED <<link, handles>>
    BY <1>4 DEF OfCoordinator, CoordinatorStep, CreateJob, SendSubmitJob, SubmitJobReceipt,
       SubmitJobError, AbandonRequest, FailRequest, AnnounceJob, RebroadcastJob, HandleClaim,
       HandleJobCompleted, ReplyToClaim, VerifyOnChain, MarkCompleted, CollectPending, SaveJobs,
       linkVars
  <2> QED BY <1>1, <2>1, CoordinatorLinks, CoordinatorAwaited DEF workerVars, IsClaiming
<1>5. ASSUME NEW v \in Worker, OfWorker(WorkerStep(v))
      PROVE  Goal
  <2>1. WorkerStep(v) /\ UNCHANGED handler
    BY <1>5 DEF OfWorker, coordinatorVars
  <2>2. Links' /\ UNCHANGED <<link, handles>>
    BY <2>1, WorkerLinks
  <2>3. ASSUME "loss" \notin Faults, NEW w \in Worker, NEW j \in Job, link'[w] = "open",
               Cardinality(handles') <= Fanout, IsClaiming(w, j)'
        PROVE  Awaited(w, j)'
    <3>1. IsClaiming(w, j) => Awaited(w, j)
      BY <1>1, <2>2, <2>3
    <3>2. CASE w = v
      BY <2>1, <2>2, <2>3, <3>1, <3>2, WorkerAwaited
    <3>3. CASE w # v
      <4>1. up'[w] = up[w] /\ down'[w] = down[w] /\ status'[w] = status[w]
        BY <2>1, <3>3, OthersIdle, OthersQueues
      <4> QED BY <2>1, <2>3, <3>1, <4>1 DEF IsClaiming, Awaited
    <3> QED BY <3>2, <3>3
  <2> QED BY <2>2, <2>3
<1>6. ASSUME NEW v \in Worker, OfNetwork(Connect(v))
      PROVE  Goal
  <2>1. /\ link[v] = "none"
        /\ handles' = handles \cup {v}
        /\ \A w \in Worker : link'[w] = IF w = v THEN "open" ELSE link[w]
        /\ UNCHANGED <<up, down, status, handler>>
    BY <1>6, Types DEF OfNetwork, Connect, coordinatorVars, workerVars
  <2>2. /\ IsFiniteSet(handles')
        /\ Cardinality(handles') <= Fanout => Cardinality(handles) <= Fanout
    <3>1. /\ IsFiniteSet(handles')
          /\ Cardinality(handles') \in {Cardinality(handles), Cardinality(handles) + 1}
      BY <2>1, FS_AddElement DEF Links
    <3>2. Cardinality(handles) \in Nat /\ Fanout \in Nat
      BY FS_CardinalityType, GossipAssumption DEF Links
    <3> QED BY <3>1, <3>2
  <2>3. Links'
    BY <2>1, <2>2 DEF Links
  <2>4. ASSUME "loss" \notin Faults, NEW w \in Worker, NEW j \in Job, link'[w] = "open",
               Cardinality(handles') <= Fanout, IsClaiming(w, j)'
        PROVE  Awaited(w, j)'
    <3>1. IsClaiming(w, j) /\ status[w].state = "Claiming"
      BY <2>1, <2>4 DEF IsClaiming, Holding
    <3>2. w # v
      BY <2>1, <3>1 DEF Links
    <3>3. Awaited(w, j)
      BY <1>1, <2>1, <2>2, <2>4, <3>1, <3>2
    <3> QED BY <2>1, <3>3 DEF Awaited
  <2> QED BY <2>3, <2>4
<1>7. ASSUME NEW v \in Worker, OfNetwork(Lose(v))
      PROVE  Goal
  <2>1. /\ "loss" \in Faults
        /\ UNCHANGED <<link, handles, status, handler>>
        /\ \A w \in Worker : down[w] = <<>> => down'[w] = <<>>
    BY <1>7, Types DEF OfNetwork, Lose, coordinatorVars, workerVars
  <2> QED BY <2>1 DEF Links
<1>8. ASSUME NEW v \in Worker, OfNetwork(Disconnect(v))
      PROVE  Goal
  <2>1. /\ UNCHANGED <<handles, status, handler>>
        /\ link[v] = "open" /\ link'[v] = "closed"
        /\ \A w \in Worker : w # v => /\ link'[w] = link[w]
                                      /\ up'[w] = up[w] /\ down'[w] = down[w]
    BY <1>8, Types DEF OfNetwork, Disconnect, coordinatorVars, workerVars
  <2>2. Links'
    BY <2>1 DEF Links
  <2>3. ASSUME "loss" \notin Faults, NEW w \in Worker, NEW j \in Job, link'[w] = "open",
               Cardinality(handles') <= Fanout, IsClaiming(w, j)'
        PROVE  Awaited(w, j)'
    <3>1. w # v /\ IsClaiming(w, j)
      BY <2>1, <2>3 DEF IsClaiming
    <3>2. Awaited(w, j)
      BY <1>1, <2>1, <2>3, <3>1
    <3> QED BY <2>1, <3>1, <3>2 DEF Awaited
  <2> QED BY <2>2, <2>3
<1>9. CASE Crash
  <2>1. /\ \A w \in Worker : link'[w] # "open" /\ (link'[w] = "none" => link[w] = "none")
        /\ handles' = {} /\ handler'.at # "reply" /\ UNCHANGED status
        /\ \A w \in Worker : down'[w] \in Prefixes(down[w])
    BY <1>9, Types DEF Crash, Idle, workerVars
  <2>2. ASSUME NEW w \in Worker, link'[w] = "none"
        PROVE  down'[w] = <<>>
    <3>1. down[w] = <<>>
      BY <2>1, <2>2 DEF Links
    <3>2. down'[w] \in Prefixes(<<>>)
      BY <2>1, <3>1
    <3> QED BY <3>2 DEF Prefixes
  <2> QED BY <2>1, <2>2, FS_EmptySet DEF Links
<1>10. CASE Restart
  BY <1>3, <1>10 DEF Restart
<1>11. CASE OfChain(ChainStep) \/ UNCHANGED vars
  BY <1>3, <1>11 DEF OfChain, vars, coordinatorVars
<1>12. CASE OfIndexer(IndexerStep)
  BY <1>3, <1>12, IndexerType DEF OfIndexer
<1> QED
  BY <1>4, <1>5, <1>6, <1>7, <1>8, <1>9, <1>10, <1>11, <1>12 DEF Next, OfNetwork, Network

(* However many workers and jobs there are and whatever breaks, a worker   *)
(* that is claiming over a standing connection waits for something that is *)
(* on the way, as long as every broadcast goes to every handle.            *)
THEOREM ClaimIsAlwaysUnderWay == Spec => []ClaimUnderWay
<1>1. Init => Links /\ ClaimUnderWay
  BY FS_EmptySet DEF Init, LinkInit, CoordinatorInit, WorkerInit, Links, ClaimUnderWay, Idle, NoJob
<1>2. TypeOK /\ [Next]_vars /\ Links /\ ClaimUnderWay => Links' /\ ClaimUnderWay'
  BY StepUnderWay
<1> QED BY <1>1, <1>2, TypeCorrect, PTL DEF Spec

-----------------------------------------------------------------------------
(* The chain and what is reported of it                                    *)

(* Only the chain moves rewards, and only time moves the clock.            *)
LEMMA EscrowUntouched ==
  ASSUME TypeOK, [Next]_vars, ~OfChain(ChainStep)
  PROVE  UNCHANGED <<clock, escrow, events>>
<1>1. UNCHANGED chainVars => UNCHANGED <<clock, escrow, events>>
  BY DEF chainVars
<1>2. ASSUME CoordinatorStep
      PROVE  UNCHANGED <<clock, escrow, events>>
  BY <1>1, <1>2 DEF CoordinatorStep, CreateJob, SendSubmitJob, SubmitJobReceipt, SubmitJobError,
     AbandonRequest, FailRequest, AnnounceJob, RebroadcastJob, HandleClaim, HandleJobCompleted,
     ReplyToClaim, VerifyOnChain, MarkCompleted, CollectPending, SaveJobs
<1>3. ASSUME NEW w \in Worker, WorkerStep(w)
      PROVE  UNCHANGED <<clock, escrow, events>>
  BY <1>1, <1>3 DEF WorkerStep, HandleMessage, HandleJobAvailable, HandleClaimAccepted,
     HandleClaimRejected, TaskStep, ProvingEnds, ProvingFails, SendSubmitProof, SubmitProofReceipt,
     SubmitProofError, AnnounceCompletion, Retire
<1>4. ASSUME IndexerStep
      PROVE  UNCHANGED chainVars
  BY <1>4, IndexerType
<1> QED
  BY <1>1, <1>2, <1>3, <1>4 DEF Next, vars, OfChain, OfNetwork, OfCoordinator, OfIndexer, OfWorker,
     Crash, Restart

(* Every step of the chain is one that the escrow allows.                  *)
LEMMA ChainKeepsEscrow ==
  ASSUME TypeOK, ChainStep
  PROVE  [Contract!Next]_<<clock, escrow>>
<1>1. /\ clock \in Nat
      /\ due \in [Job -> Nat]
      /\ escrow \in [Job -> EscrowRecord]
      /\ MaxClock \in Nat
      /\ Worker \cup {Coordinator, Outsider} = Account
  BY ChainAssumption DEF TypeOK, ChainTypeOK, Account
<1>2. CASE Tick
  BY <1>1, <1>2 DEF Tick, Contract!Next, Contract!Tick
<1>3. ASSUME UNCHANGED clock, NEW j \in Job, NEW f, Contract!Legal(escrow[j], f),
             escrow' = [escrow EXCEPT ![j] = f]
      PROVE  Contract!Next
  <2>1. escrow' = [i \in Job |-> escrow'[i]]
    BY <1>1, <1>3
  <2>2. \A i \in Job : escrow'[i] = escrow[i] \/ (i = j /\ escrow'[i] = f)
    BY <1>1, <1>3
  <2>3. \A i \in Job : Contract!Legal(escrow[i], escrow'[i])
    BY <1>3, <2>2 DEF Contract!Legal
  <2> QED BY <1>3, <2>1, <2>3 DEF Contract!Next, Contract!Transact
<1>4. ASSUME UNCHANGED clock, NEW j \in Job, NEW owner \in Account, NEW deadline \in Nat,
             escrow[j] = Contract!Nothing, deadline > clock, Open(j, owner, deadline)
      PROVE  Contract!Next
  <2> DEFINE f == [state |-> "open", owner |-> owner, deadline |-> deadline, payee |-> NoOne]
  <2>1. f = [Contract!Nothing EXCEPT !.state = "open", !.owner = owner, !.deadline = deadline]
    <3> DEFINE opened == [Contract!Nothing EXCEPT !.state = "open"]
               owned == [opened EXCEPT !.owner = owner]
    <3>1. opened = [state |-> "open", owner |-> NoOne, deadline |-> 0, payee |-> NoOne]
      BY DEF Contract!Nothing
    <3> HIDE DEF opened
    <3>2. owned = [state |-> "open", owner |-> owner, deadline |-> 0, payee |-> NoOne]
      BY <3>1
    <3> HIDE DEF owned
    <3>3. f = [owned EXCEPT !.deadline = deadline]
      BY <3>2
    <3> QED BY <3>3 DEF owned, opened
  <2>2. f.owner = owner /\ f.deadline = deadline
    OBVIOUS
  <2>3. escrow' = [escrow EXCEPT ![j] = f]
    BY <1>4 DEF Open
  <2> HIDE DEF f
  <2>4. Contract!Opens(escrow[j], f)
    BY <1>4, <2>1, <2>2 DEF Contract!Opens
  <2> QED BY <1>3, <1>4, <2>3, <2>4 DEF Contract!Legal
<1>5. ASSUME UNCHANGED clock, NEW j \in Job, NEW a \in Account, SubmitProofSucceeds(j), Pay(j, a)
      PROVE  Contract!Next
  <2> DEFINE f == [escrow[j] EXCEPT !.state = "paid", !.payee = a]
  <2>1. f.payee = a /\ escrow' = [escrow EXCEPT ![j] = f]
    BY <1>1, <1>5 DEF EscrowRecord, Pay
  <2>2. Contract!Pays(escrow[j], f)
    BY <1>5, <2>1 DEF Contract!Pays, SubmitProofSucceeds
  <2> HIDE DEF f
  <2> QED BY <1>3, <1>5, <2>1, <2>2 DEF Contract!Legal
<1>6. ASSUME NEW j \in Job, ExpireJob(j)
      PROVE  Contract!Next
  <2> DEFINE f == [escrow[j] EXCEPT !.state = "refunded", !.payee = escrow[j].owner]
  <2>1. Contract!Refunds(escrow[j], f)
    BY <1>6 DEF ExpireJob, ExpireJobSucceeds, Contract!Refunds
  <2>2. UNCHANGED clock /\ escrow' = [escrow EXCEPT ![j] = f]
    BY <1>6 DEF ExpireJob
  <2> HIDE DEF f
  <2> QED BY <1>3, <2>1, <2>2 DEF Contract!Legal
<1>7. ASSUME NEW j \in Job, MineSubmitJob(j)
      PROVE  Contract!Next \/ UNCHANGED <<clock, escrow>>
  BY <1>1, <1>4, <1>7 DEF MineSubmitJob, SubmitJobSucceeds
<1>8. ASSUME NEW j \in Job, ForeignJob(j)
      PROVE  Contract!Next
  <2>1. PICK deadline \in clock + 1 .. MaxClock : Open(j, Outsider, deadline)
    BY <1>8 DEF ForeignJob
  <2>2. deadline \in Nat /\ deadline > clock
    BY <1>1
  <2> QED BY <1>1, <1>4, <1>8, <2>1, <2>2 DEF ForeignJob
<1>9. ASSUME NEW j \in Job, OutsiderProves(j)
      PROVE  Contract!Next
  BY <1>1, <1>5, <1>9 DEF OutsiderProves
<1>10. ASSUME NEW w \in Worker, NEW j \in Job, MineSubmitProof(w, j)
       PROVE  Contract!Next \/ UNCHANGED <<clock, escrow>>
  BY <1>1, <1>5, <1>10 DEF MineSubmitProof
<1> QED BY <1>2, <1>6, <1>7, <1>8, <1>9, <1>10 DEF ChainStep, Tick, Contract!Next

(* What is settled stays settled.                                          *)
LEMMA SettledStays ==
  ASSUME TypeOK, [Next]_vars, NEW j \in Job, IsCompleted(j)
  PROVE  IsCompleted(j)'
<1>1. [Contract!Next]_<<clock, escrow>>
  BY EscrowUntouched, ChainKeepsEscrow DEF OfChain
<1>2. CASE UNCHANGED escrow
  BY <1>2 DEF IsCompleted
<1>3. CASE Contract!Transact
  <2>1. Contract!Legal(escrow[j], escrow'[j])
    BY <1>3 DEF Contract!Transact
  <2>2. escrow[j].state \notin {"none", "open"} /\ Contract!Nothing.state = "none"
    BY DEF IsCompleted, Contract!Nothing
  <2>3. escrow'[j] = escrow[j]
    BY <2>1, <2>2 DEF Contract!Legal, Contract!Opens, Contract!Pays, Contract!Refunds,
       Contract!OpensAndPays
  <2> QED BY <2>3 DEF IsCompleted
<1> QED BY <1>1, <1>2, <1>3 DEF Contract!Next, Contract!Tick

Logged == \A i \in 1..Len(events) : events[i].type = "JobCompleted" => IsCompleted(events[i].job)

(* The log has a JobCompleted entry for settled jobs only.                 *)
LEMMA LoggedKept ==
  ASSUME TypeOK, [Next]_vars, Logged
  PROVE  Logged'
<1>1. events \in Seq(Log) /\ escrow \in [Job -> EscrowRecord]
  BY DEF TypeOK, ChainTypeOK
<1>2. \A i \in 1..Len(events) : events[i].job \in Job
  <2>1. \A i \in 1..Len(events) : events[i] \in Log
    BY <1>1
  <2> QED BY <2>1 DEF Log
<1>3. CASE events' = events
  BY <1>2, <1>3, SettledStays DEF Logged
<1>4. ASSUME NEW e \in Log, events' = Append(events, e),
             e.type = "JobCompleted" => IsCompleted(e.job)'
      PROVE  Logged'
  <2>1. /\ Len(events') = Len(events) + 1
        /\ \A i \in 1..Len(events) : events'[i] = events[i]
        /\ events'[Len(events) + 1] = e
        /\ Len(events) \in Nat
    BY <1>1, <1>4, AppendProperties
  <2>2. \A i \in 1..Len(events') : i \in 1..Len(events) \/ i = Len(events) + 1
    BY <2>1
  <2>3. \A i \in 1..Len(events) : events[i].type = "JobCompleted" =>
          escrow'[events[i].job].state \in {"paid", "refunded"}
    BY <1>2, SettledStays DEF Logged, IsCompleted
  <2> QED BY <1>4, <2>1, <2>2, <2>3 DEF Logged, IsCompleted
<1>5. ASSUME NEW j \in Job, NEW a \in Worker \cup {Outsider}, Pay(j, a)
      PROVE  Logged'
  <2> DEFINE e == [type |-> "JobCompleted", job |-> j, by |-> a]
  <2>1. e \in Log /\ e.job = j
    BY DEF Log
  <2>2. escrow'[j].state = "paid"
    BY <1>1, <1>5 DEF Pay, EscrowRecord
  <2> QED BY <1>4, <1>5, <2>1, <2>2 DEF Pay, IsCompleted
<1>6. ASSUME NEW j \in Job, ExpireJob(j)
      PROVE  Logged'
  <2> DEFINE e == [type |-> "JobExpired", job |-> j, by |-> NoOne]
  <2>1. e \in Log /\ e.type # "JobCompleted"
    BY DEF Log
  <2> QED BY <1>4, <1>6, <2>1 DEF ExpireJob
<1>7. CASE ChainStep
  BY <1>3, <1>5, <1>6, <1>7 DEF ChainStep, Tick, MineSubmitJob, MineSubmitProof, ForeignJob,
     OutsiderProves
<1> QED BY <1>3, <1>7, EscrowUntouched DEF OfChain

(* Whatever says that a job is completed, now or after a restart.          *)
Reported == /\ \A j \in Job : /\ jobs[j].state = "Completed" => IsCompleted(j)
                              /\ disk[j].state = "Completed" => IsCompleted(j)
            /\ handler.at = "confirmed" => IsCompleted(handler.msg.job)

(* Nothing reports a job before it is settled.                             *)
LEMMA ReportedKept ==
  ASSUME TypeOK, [Next]_vars, Logged, Reported
  PROVE  Reported'
<1>1. /\ jobs \in [Job -> JobStatus]
      /\ disk \in [Job -> JobStatus]
      /\ handler.at # "recv" => handler.msg.job \in Job
      /\ events \in Seq(Log)
      /\ poll \in [at : {"wait", "completed", "expired"}, to : 0..Len(events)]
      /\ lastBlock \in 0..Len(events)
  BY Types DEF TypeOK, ChainTypeOK, Idle, GossipMessage
<1>2. ASSUME \A j \in Job : jobs'[j].state = "Completed" =>
               jobs[j].state = "Completed" \/ IsCompleted(j)',
             disk' = disk \/ disk' = jobs,
             handler' = handler \/ handler'.at # "confirmed"
      PROVE  Reported'
  <2>1. \A j \in Job : IsCompleted(j) => IsCompleted(j)'
    BY SettledStays
  <2>2. handler'.at = "confirmed" => IsCompleted(handler.msg.job) /\ handler' = handler
    BY <1>2 DEF Reported
  <2>3. handler'.at = "confirmed" => IsCompleted(handler.msg.job)'
    BY <1>1, <2>1, <2>2 DEF IsCompleted
  <2> QED BY <1>2, <2>1, <2>3 DEF Reported
<1>3. CASE jobs' = jobs /\ disk' = disk /\ handler' = handler
  BY <1>2, <1>3
<1>4. CASE CoordinatorStep
  <2>1. ASSUME NEW i \in Job,
               CreateJob(i) \/ SendSubmitJob(i) \/ SubmitJobReceipt(i) \/ FailRequest(i)
        PROVE  Reported'
    <3>1. \A j \in Job : jobs'[j].state = "Completed" => jobs[j].state = "Completed"
      BY <1>1, <2>1 DEF CreateJob, SendSubmitJob, SubmitJobReceipt, FailRequest, Insert, Pending
    <3> QED BY <1>2, <2>1, <3>1 DEF CreateJob, SendSubmitJob, SubmitJobReceipt, FailRequest
  <2>2. ASSUME NEW i \in Job, AnnounceJob(i) \/ RebroadcastJob(i)
        PROVE  Reported'
    BY <1>3, <2>2 DEF AnnounceJob, RebroadcastJob
  <2>3. ASSUME NEW w \in Worker, HandleClaim(w)
        PROVE  Reported'
    <3>1. \A j \in Job : jobs'[j].state = "Completed" => jobs[j].state = "Completed"
      BY <1>1, <2>3 DEF HandleClaim, Assigned
    <3>2. disk' = disk /\ handler'.at # "confirmed"
      BY <2>3 DEF HandleClaim
    <3> QED BY <1>2, <3>1, <3>2
  <2>4. ASSUME NEW w \in Worker, HandleJobCompleted(w)
        PROVE  Reported'
    <3>1. handler'.at # "confirmed"
      BY <2>4 DEF HandleJobCompleted, Idle
    <3> QED BY <1>2, <2>4, <3>1 DEF HandleJobCompleted
  <2>5. CASE ReplyToClaim
    <3>1. handler'.at # "confirmed"
      BY <2>5 DEF ReplyToClaim, Idle
    <3> QED BY <1>2, <2>5, <3>1 DEF ReplyToClaim
  <2>6. CASE VerifyOnChain
    <3>1. /\ jobs' = jobs /\ disk' = disk /\ escrow' = escrow
          /\ \/ IsCompleted(handler.msg.job) /\ handler' = [handler EXCEPT !.at = "confirmed"]
             \/ handler' = Idle
      BY <2>6 DEF VerifyOnChain, Confirmed, chainVars
    <3>2. Idle.at # "confirmed"
      BY DEF Idle
    <3>3. handler'.at = "confirmed" => IsCompleted(handler'.msg.job)
      <4>1. handler \in [at : {"reply", "verify", "confirmed"}, msg : GossipMessage]
        BY <2>6, Types DEF VerifyOnChain, Idle
      <4> QED BY <3>1, <3>2, <4>1
    <3> QED BY <3>1, <3>3 DEF Reported, IsCompleted
  <2>7. CASE MarkCompleted
    <3> DEFINE i == handler.msg.job
    <3>1. /\ i \in Job /\ IsCompleted(i)
          /\ jobs' = [jobs EXCEPT ![handler.msg.job] = CompletedUnlessDone(@, handler.msg.by)]
          /\ disk' = disk /\ handler' = Idle
      BY <1>1, <2>7 DEF MarkCompleted, Reported
    <3>2. \A j \in Job : jobs'[j] = jobs[j] \/ (IsCompleted(j) /\ j = i)
      BY <1>1, <3>1
    <3>3. Idle.at # "confirmed"
      BY DEF Idle
    <3>4. \A j \in Job : jobs'[j].state = "Completed" =>
            jobs[j].state = "Completed" \/ IsCompleted(j)'
      BY <3>2, SettledStays
    <3> QED BY <1>2, <3>1, <3>3, <3>4
  <2>8. CASE CollectPending
    BY <1>3, <2>8 DEF CollectPending
  <2>9. CASE SaveJobs
    BY <1>2, <2>9 DEF SaveJobs
  <2> QED
    BY <1>4, <2>1, <2>2, <2>3, <2>4, <2>5, <2>6, <2>7, <2>8, <2>9
    DEF CoordinatorStep, SubmitJobError, AbandonRequest
<1>5. CASE IndexerStep
  <2>1. UNCHANGED <<chainVars, linkVars, running, disk, request, pending, handler>>
    BY <1>5, IndexerType
  <2>2. CASE StartPoll \/ PollFails
    BY <1>3, <2>1, <2>2 DEF StartPoll, PollFails, coordinatorVars
  <2>3. CASE ProcessJobCompletedEvents
    <3> DEFINE settled(j) == {e \in LogsOf("JobCompleted") : e.job = j}
    <3>1. \A j \in Job : jobs'[j] = jobs[j] \/ settled(j) # {}
      BY <2>3 DEF ProcessJobCompletedEvents
    <3>2. \A e \in LogsOf("JobCompleted") : IsCompleted(e.job)
      BY <1>1 DEF LogsOf, Logged
    <3>3. \A j \in Job : jobs'[j] = jobs[j] \/ IsCompleted(j)'
      BY <3>1, <3>2, SettledStays
    <3> QED BY <1>2, <2>1, <3>3
  <2>4. CASE ProcessJobExpiredEvents
    <3>1. \A j \in Job : jobs'[j] = jobs[j] \/ jobs'[j].state = "Expired"
      BY <2>4 DEF ProcessJobExpiredEvents, NoteExpired, Expired
    <3> QED BY <1>2, <2>1, <3>1
  <2> QED BY <1>5, <2>2, <2>3, <2>4 DEF IndexerStep
<1>6. CASE Crash
  <2>1. handler'.at # "confirmed"
    BY <1>6 DEF Crash, Idle
  <2>2. \A j \in Job : jobs'[j].state = "Absent"
    BY <1>6 DEF Crash, Absent
  <2> QED BY <1>2, <1>6, <2>1, <2>2 DEF Crash
<1>7. CASE Restart
  BY <1>7, SettledStays DEF Restart, Reported, chainVars, IsCompleted
<1>8. UNCHANGED coordinatorVars => Reported'
  BY <1>3 DEF coordinatorVars
<1> QED
  BY <1>4, <1>5, <1>6, <1>7, <1>8 DEF Next, OfChain, OfNetwork, OfCoordinator, OfIndexer, OfWorker,
     vars

(* No gossip message, log entry or snapshot makes the coordinator report a *)
(* job as completed while the contract still holds its reward, whatever    *)
(* crashes and is restarted.                                               *)
THEOREM CompletedIsAlwaysSettled == Spec => []CompletedIsSettled
<1>1. Init => Logged /\ Reported
  BY DEF Init, ChainInit, CoordinatorInit, Logged, Reported, Absent, Idle
<1>2. TypeOK /\ [Next]_vars /\ Logged /\ Reported => Logged' /\ Reported'
  BY LoggedKept, ReportedKept
<1>3. Reported => CompletedIsSettled
  BY DEF Reported, CompletedIsSettled
<1> QED BY <1>1, <1>2, <1>3, TypeCorrect, PTL DEF Spec
(* What the indexer has dealt with as far as JobCompleted entries go.      *)
Dealt == IF poll.at = "expired" THEN poll.to ELSE lastBlock

Beyond(n, j) == \E i \in n + 1 .. Len(events) :
                  events[i].type = "JobCompleted" /\ events[i].job = j

(* The payments that PaymentUnderWay is about.                             *)
Earned(j) == escrow[j].state = "paid" /\ escrow[j].payee \in Worker

(* Until a crash, what a worker sends a proof of has been put into the map,*)
(* so that no create_job call is left to write over its completion.        *)
Accounted ==
  crashes = 0 =>
    /\ poll.at # "wait" => lastBlock <= poll.to
    /\ \A j \in Job :
         /\ Unsubmitted(j) => \A w \in Worker : proofTx[w][j] = "none"
         /\ Earned(j) => /\ ~Unsubmitted(j)
                         /\ jobs[j].state = "Completed" \/ Beyond(Dealt, j)

(* A create_job call never goes back.                                      *)
LEMMA RequestsAdvance ==
  ASSUME TypeOK, Arbitration, [Next]_vars, NEW j \in Job, Unsubmitted(j)'
  PROVE  Unsubmitted(j)
<1>1. CASE request' = request
  BY <1>1 DEF Unsubmitted
<1>2. CASE CoordinatorStep
  BY <1>2, CoordinatorEvolves DEF Arbitration, Evolves
<1>3. CASE Crash
  BY <1>3 DEF Crash, Unsubmitted
<1> QED
  BY <1>1, <1>2, <1>3, IndexerType DEF Next, OfChain, OfNetwork, OfCoordinator, OfIndexer, OfWorker,
     Restart, vars, coordinatorVars

(* Only workers send proofs.                                               *)
LEMMA ProofsKept ==
  ASSUME CoordinatorStep
  PROVE  proofTx' = proofTx
BY DEF chainVars, CoordinatorStep, CreateJob, SendSubmitJob, SubmitJobReceipt, SubmitJobError,
   AbandonRequest, FailRequest, AnnounceJob, RebroadcastJob, HandleClaim, HandleJobCompleted,
   ReplyToClaim, VerifyOnChain, MarkCompleted, CollectPending, SaveJobs

(* A worker sends proofs of the jobs it has tasks for.                     *)
LEMMA ProofsSent ==
  ASSUME TypeOK, [Next]_vars, ~OfChain(ChainStep), NEW w \in Worker, NEW j \in Job, proofTx[w][j] = "none"
  PROVE  proofTx'[w][j] = "none" \/ w \in Provers(j)
<1>1. proofTx \in [Worker -> [Job -> TxStatus]]
  BY DEF TypeOK, ChainTypeOK
<1>2. CASE proofTx' = proofTx
  BY <1>2
<1>3. UNCHANGED chainVars => proofTx' = proofTx
  BY DEF chainVars
<1>4. ASSUME NEW v \in Worker, WorkerStep(v), proofTx' # proofTx
      PROVE  proofTx'[w][j] = "none" \/ w \in Provers(j)
  <2>1. PICK t \in tasks[v] : SendSubmitProof(v, t)
    BY <1>3, <1>4 DEF WorkerStep, HandleMessage, HandleJobAvailable, HandleClaimAccepted,
       HandleClaimRejected, TaskStep, ProvingEnds, ProvingFails, SubmitProofReceipt,
       SubmitProofError, AnnounceCompletion, Retire
  <2>2. proofTx' = [proofTx EXCEPT ![v][t.job] = "pending"]
    BY <2>1 DEF SendSubmitProof
  <2>3. proofTx'[w][j] = proofTx[w][j] \/ (v = w /\ t.job = j)
    BY <1>1, <2>2
  <2> QED BY <2>1, <2>3 DEF Provers
<1>5. ASSUME IndexerStep
      PROVE  proofTx' = proofTx
  BY <1>3, <1>5, IndexerType
<1> QED
  BY <1>2, <1>3, <1>4, <1>5, ProofsKept DEF Next, vars, OfChain, OfNetwork, OfCoordinator, OfIndexer,
     OfWorker, Crash, Restart

(* Every payment is logged, and a worker's is for a proof it has sent.     *)
LEMMA PaymentsLogged ==
  ASSUME TypeOK, ChainStep, NEW j \in Job, NEW n \in 0..Len(events)
  PROVE  /\ Beyond(n, j) => Beyond(n, j)'
         /\ Earned(j)' => \/ Earned(j)
                          \/ Beyond(n, j)' /\ \E w \in Worker : proofTx[w][j] # "none"
         /\ \A w \in Worker : proofTx[w][j] = "none" => proofTx'[w][j] = "none"
<1>1. /\ events \in Seq(Log)
      /\ escrow \in [Job -> EscrowRecord]
      /\ proofTx \in [Worker -> [Job -> TxStatus]]
      /\ Len(events) \in Nat
  BY DEF TypeOK, ChainTypeOK
<1>2. ASSUME NEW e, events' = Append(events, e)
      PROVE  /\ Beyond(n, j) => Beyond(n, j)'
             /\ e.type = "JobCompleted" /\ e.job = j => Beyond(n, j)'
  <2>1. /\ Len(events') = Len(events) + 1
        /\ \A i \in 1..Len(events) : events'[i] = events[i]
        /\ events'[Len(events) + 1] = e
    BY <1>1, <1>2
  <2>2. \A i \in n + 1 .. Len(events) : i \in 1..Len(events) /\ i \in n + 1 .. Len(events')
    BY <1>1, <2>1
  <2>3. Len(events) + 1 \in n + 1 .. Len(events')
    BY <1>1, <2>1
  <2> QED BY <2>1, <2>2, <2>3 DEF Beyond
<1>3. events' = events => (Beyond(n, j) => Beyond(n, j)')
  BY DEF Beyond
<1>4. escrow' = escrow => (Earned(j)' => Earned(j))
  BY DEF Earned
<1>5. ASSUME NEW i \in Job, NEW a, Pay(i, a)
      PROVE  /\ Beyond(n, j) => Beyond(n, j)'
             /\ Earned(j)' => Earned(j) \/ (i = j /\ Beyond(n, j)' /\ a \in Worker)
  <2> DEFINE e == [type |-> "JobCompleted", job |-> i, by |-> a]
  <2>1. e.type = "JobCompleted" /\ e.job = i /\ events' = Append(events, e)
    BY <1>5 DEF Pay
  <2>2. /\ i # j => escrow'[j] = escrow[j]
        /\ i = j => escrow'[j].payee = a
    BY <1>1, <1>5 DEF Pay, EscrowRecord
  <2> HIDE DEF e
  <2> QED BY <1>2, <2>1, <2>2 DEF Earned
<1>6. CASE Tick
  BY <1>3, <1>4, <1>6 DEF Tick
<1>7. ASSUME NEW i \in Job, MineSubmitJob(i) \/ ForeignJob(i)
      PROVE  /\ events' = events /\ proofTx' = proofTx
             /\ Earned(j)' => Earned(j)
  <2>1. escrow' = escrow \/ \E owner, deadline : Open(i, owner, deadline)
    BY <1>7 DEF MineSubmitJob, ForeignJob
  <2>2. escrow'[j] = escrow[j] \/ escrow'[j].state = "open"
    BY <1>1, <2>1 DEF Open
  <2> QED BY <1>7, <2>2 DEF Earned, MineSubmitJob, ForeignJob
<1>8. ASSUME NEW i \in Job, ExpireJob(i)
      PROVE  /\ Beyond(n, j) => Beyond(n, j)'
             /\ Earned(j)' => Earned(j)
             /\ proofTx' = proofTx
  <2>1. escrow'[j] = escrow[j] \/ escrow'[j].state = "refunded"
    BY <1>1, <1>8 DEF ExpireJob, EscrowRecord
  <2> QED BY <1>2, <1>8, <2>1 DEF Earned, ExpireJob
<1>9. ASSUME NEW i \in Job, OutsiderProves(i)
      PROVE  /\ Beyond(n, j) => Beyond(n, j)'
             /\ Earned(j)' => Earned(j)
             /\ proofTx' = proofTx
  BY <1>5, <1>9, AccountsAssumption DEF OutsiderProves
<1>10. ASSUME NEW w \in Worker, NEW i \in Job, MineSubmitProof(w, i)
       PROVE  /\ Beyond(n, j) => Beyond(n, j)'
              /\ Earned(j)' => Earned(j) \/ (Beyond(n, j)' /\ proofTx[w][j] # "none")
              /\ \A v \in Worker : proofTx[v][j] = "none" => proofTx'[v][j] = "none"
  <2>1. \A v \in Worker : proofTx'[v][j] = proofTx[v][j] \/ (v = w /\ i = j)
    BY <1>1, <1>10 DEF MineSubmitProof
  <2> QED BY <1>3, <1>4, <1>5, <1>10, <2>1 DEF MineSubmitProof
<1> QED BY <1>3, <1>6, <1>7, <1>8, <1>9, <1>10 DEF ChainStep

(* The indexer passes an entry only when the map says Completed.           *)
LEMMA IndexerAccounts ==
  ASSUME TypeOK, IndexerStep, poll.at # "wait" => lastBlock <= poll.to
  PROVE  /\ poll'.at # "wait" => lastBlock' <= poll'.to
         /\ \A j \in Job : Beyond(Dealt, j) => jobs'[j].state = "Completed" \/ Beyond(Dealt, j)'
<1>1. /\ lastBlock \in 0..Len(events) /\ Len(events) \in Nat
      /\ poll \in [at : {"wait", "completed", "expired"}, to : 0..Len(events)]
      /\ events' = events
  BY Types, IndexerType DEF chainVars, TypeOK, ChainTypeOK
<1>2. Waiting.at = "wait"
  BY DEF Waiting
<1>3. Dealt \in Nat /\ lastBlock <= Dealt
  BY <1>1 DEF Dealt
<1>4. \A j \in Job, n \in Nat : n <= Dealt /\ Beyond(Dealt, j) => Beyond(n, j)
  BY <1>1, <1>3 DEF Beyond
<1>5. \A n \in Nat, j \in Job : Beyond(n, j)' = Beyond(n, j)
  BY <1>1 DEF Beyond
<1>6. CASE StartPoll
  <2>1. /\ poll'.at = "completed" /\ poll'.to = Len(events)
        /\ lastBlock' = lastBlock /\ poll.at = "wait"
    BY <1>2, <1>6 DEF StartPoll
  <2>2. Dealt' = Dealt
    BY <2>1 DEF Dealt
  <2>3. \A j \in Job : Beyond(Dealt, j)' = Beyond(Dealt, j)
    BY <1>1, <2>2 DEF Beyond
  <2> QED BY <1>1, <2>1, <2>3
<1>7. CASE ProcessJobCompletedEvents
  <2> DEFINE settled(j) == {e \in LogsOf("JobCompleted") : e.job = j}
  <2>1. /\ poll.at = "completed" /\ poll'.at = "expired" /\ poll'.to = poll.to
        /\ lastBlock' = lastBlock
    BY <1>1, <1>7 DEF ProcessJobCompletedEvents
  <2>2. Dealt = lastBlock /\ Dealt' = poll.to
    BY <2>1 DEF Dealt
  <2>3. ASSUME NEW j \in Job, settled(j) # {}
        PROVE  jobs'[j].state = "Completed"
    BY <1>7, <2>3 DEF ProcessJobCompletedEvents, NoteCompleted, Completed
  <2>4. ASSUME NEW j \in Job, Beyond(lastBlock, j)
        PROVE  settled(j) # {} \/ Beyond(Dealt, j)'
    <3>1. PICK i \in lastBlock + 1 .. Len(events) :
            events[i].type = "JobCompleted" /\ events[i].job = j
      BY <2>4 DEF Beyond
    <3>2. CASE i <= poll.to
      <4>1. i \in lastBlock + 1 .. poll.to
        BY <1>1, <3>2
      <4>2. events[i] \in settled(j)
        BY <3>1, <4>1 DEF LogsOf
      <4> QED BY <4>2
    <3>3. CASE ~(i <= poll.to)
      <4>1. i \in poll.to + 1 .. Len(events)
        BY <1>1, <3>3
      <4> QED BY <1>1, <2>2, <3>1, <4>1 DEF Beyond
    <3> QED BY <3>2, <3>3
  <2> QED BY <2>1, <2>2, <2>3, <2>4
<1>8. CASE ProcessJobExpiredEvents
  <2>1. poll.at = "expired" /\ poll'.at = "wait" /\ lastBlock' = poll.to
    BY <1>2, <1>8 DEF ProcessJobExpiredEvents, Processed
  <2>2. Dealt' = Dealt
    BY <2>1 DEF Dealt
  <2>3. \A j \in Job : Beyond(Dealt, j)' = Beyond(Dealt, j)
    BY <1>1, <2>2 DEF Beyond
  <2> QED BY <2>1, <2>3
<1>9. CASE PollFails
  <2>1. poll'.at = "wait" /\ lastBlock' = lastBlock
    BY <1>2, <1>9 DEF PollFails
  <2>2. Dealt' = lastBlock
    BY <2>1 DEF Dealt
  <2>3. \A j \in Job : Beyond(Dealt, j) => Beyond(Dealt, j)'
    <3> SUFFICES ASSUME NEW j \in Job, Beyond(Dealt, j)
                 PROVE  Beyond(Dealt, j)'
      OBVIOUS
    <3>1. Beyond(lastBlock, j)
      BY <1>1, <1>3, <1>4
    <3> QED BY <1>1, <2>2, <3>1 DEF Beyond
  <2> QED BY <2>1, <2>3
<1> QED BY <1>6, <1>7, <1>8, <1>9 DEF IndexerStep

(* Nothing but an insertion by create_job takes a completion back.         *)
LEMMA CompletionStays ==
  ASSUME TypeOK, Arbitration, [Next]_vars, running', NEW j \in Job, jobs[j].state = "Completed",
         ~Unsubmitted(j)
  PROVE  jobs'[j].state = "Completed"
<1>1. Evolves(j)
  BY StepArbitration DEF Absent
<1>2. ~Inserts(j)
  BY DEF Inserts, Unsubmitted
<1> QED BY <1>1, <1>2 DEF Evolves, Finishes, Assigns

(* No crash lies behind a step that ends without one.                      *)
LEMMA FirstLife ==
  ASSUME TypeOK, Arbitration, [Next]_vars, crashes' = 0
  PROVE  crashes = 0 /\ running' /\ ~Crash /\ ~Restart
<1>1. crashes \in Nat
  BY Types, CrashAssumption
<1>2. running'
  BY StepArbitration DEF Arbitration
<1>3. ~Crash
  BY <1>1 DEF Crash
<1>4. crashes' = crashes
  BY <1>3 DEF Next, vars, OfChain, OfNetwork, OfCoordinator, OfIndexer, OfWorker, Restart
<1> QED BY <1>2, <1>3, <1>4 DEF Restart, Arbitration

(* The accounts are kept by every step.                                    *)
LEMMA StepAccounted ==
  ASSUME TypeOK, Arbitration, Accounted, [Next]_vars
  PROVE  Accounted'
<1>1. /\ Len(events) \in Nat /\ lastBlock \in 0..Len(events)
      /\ poll \in [at : {"wait", "completed", "expired"}, to : 0..Len(events)]
  BY Types DEF TypeOK, ChainTypeOK
<1>2. Dealt \in 0..Len(events)
  BY <1>1 DEF Dealt
<1>3. crashes' = 0 => crashes = 0 /\ running' /\ ~Crash /\ ~Restart
  BY FirstLife
<1>4. ASSUME crashes = 0, NEW j \in Job, Unsubmitted(j)
      PROVE  Provers(j) = {} /\ \A w \in Worker : proofTx[w][j] = "none"
  <2>1. Holders(j) = {}
    BY <1>4, AtMostFacts DEF Arbitration
  <2>2. Provers(j) \subseteq Holders(j)
    BY DEF Holders, Token, By, Provers
  <2> QED BY <1>4, <2>1, <2>2 DEF Accounted
<1>5. ASSUME crashes = 0, NEW j \in Job, Unsubmitted(j)'
      PROVE  \A w \in Worker : proofTx'[w][j] = "none"
  <2>1. Unsubmitted(j)
    BY <1>5, RequestsAdvance
  <2>2. CASE OfChain(ChainStep)
    BY <1>2, <1>4, <1>5, <2>1, <2>2, PaymentsLogged DEF OfChain
  <2>3. CASE ~OfChain(ChainStep)
    BY <1>4, <1>5, <2>1, <2>3, ProofsSent
  <2> QED BY <2>2, <2>3
<1>6. ASSUME crashes' = 0, ~OfChain(ChainStep)
      PROVE  /\ (poll.at # "wait" => lastBlock <= poll.to)'
             /\ \A j \in Job : Beyond(Dealt, j) => jobs'[j].state = "Completed" \/ Beyond(Dealt, j)'
  <2>1. events' = events
    BY <1>6, EscrowUntouched
  <2>2. CASE UNCHANGED indexerVars
    <3>1. Dealt' = Dealt
      BY <2>2 DEF Dealt, indexerVars
    <3>2. \A j \in Job : Beyond(Dealt, j)' = Beyond(Dealt, j)
      BY <2>1, <3>1 DEF Beyond
    <3> QED BY <1>3, <1>6, <2>2, <3>2 DEF Accounted, indexerVars
  <2>3. CASE IndexerStep
    BY <1>3, <1>6, <2>3, IndexerAccounts DEF Accounted
  <2> QED
    BY <1>3, <1>6, <2>2, <2>3 DEF Next, vars, OfNetwork, OfCoordinator, OfIndexer, OfWorker
<1>7. ASSUME crashes' = 0, OfChain(ChainStep)
      PROVE  (poll.at # "wait" => lastBlock <= poll.to)' /\ Dealt' = Dealt
  BY <1>3, <1>7 DEF OfChain, indexerVars, Dealt, Accounted
<1>8. ASSUME crashes' = 0, NEW j \in Job, Earned(j)'
       PROVE  /\ ~Unsubmitted(j)'
              /\ (jobs[j].state = "Completed" \/ Beyond(Dealt, j))'
  <2>1. CASE ~OfChain(ChainStep)
    <3>1. Earned(j)
      BY <1>8, <2>1, EscrowUntouched DEF Earned
    <3>2. /\ ~Unsubmitted(j)
          /\ jobs[j].state = "Completed" \/ Beyond(Dealt, j)
      BY <1>3, <1>8, <3>1 DEF Accounted
    <3>3. jobs[j].state = "Completed" => jobs'[j].state = "Completed"
      BY <1>3, <1>8, <3>2, CompletionStays
    <3> QED BY <1>6, <1>8, <2>1, <3>2, <3>3, RequestsAdvance
  <2>2. CASE OfChain(ChainStep)
    <3>1. /\ jobs' = jobs /\ ChainStep /\ request' = request
      BY <2>2 DEF OfChain, coordinatorVars
    <3>2. /\ Beyond(Dealt, j) => Beyond(Dealt, j)'
          /\ Earned(j) \/ (Beyond(Dealt, j)' /\ \E w \in Worker : proofTx[w][j] # "none")
      <4>1. PICK n \in 0..Len(events) : n = Dealt
        BY <1>2
      <4>2. /\ Beyond(n, j) => Beyond(n, j)'
            /\ Earned(j) \/ (Beyond(n, j)' /\ \E w \in Worker : proofTx[w][j] # "none")
        BY <1>8, <3>1, PaymentsLogged
      <4>3. Dealt' = n
        BY <1>7, <1>8, <2>2, <4>1
      <4> QED BY <4>1, <4>2, <4>3 DEF Beyond
    <3> QED BY <1>3, <1>4, <1>8, <3>1, <3>2 DEF Accounted, Unsubmitted
  <2> QED BY <2>1, <2>2
<1> QED BY <1>3, <1>5, <1>6, <1>7, <1>8 DEF Accounted

(* No failing query, message or interleaving makes the indexer pass over a *)
(* payment: until the first crash, a job a worker was paid for is reported *)
(* as completed, or will be by a query still to come.                      *)
THEOREM PaymentIsAlwaysUnderWay == Spec => []PaymentUnderWay
<1>1. Init => Accounted
  BY DEF Init, ChainInit, CoordinatorInit, IndexerInit, Waiting, Accounted, Earned,
     Contract!Nothing
<1>2. TypeOK /\ Arbitration /\ [Next]_vars /\ Accounted => Accounted'
  BY StepAccounted
<1>3. TypeOK /\ Accounted => PaymentUnderWay
  <2> SUFFICES ASSUME TypeOK, Accounted, crashes = 0, NEW j \in Job, Earned(j),
                      jobs[j].state # "Completed"
               PROVE  Unread(j)
    BY DEF PaymentUnderWay, Earned
  <2>1. Beyond(Dealt, j) /\ (poll.at # "wait" => lastBlock <= poll.to)
    BY DEF Accounted
  <2>2. /\ lastBlock \in Nat /\ poll.to \in Nat /\ Len(events) \in Nat
    BY Types DEF TypeOK, ChainTypeOK
  <2>3. lastBlock <= Dealt /\ Dealt \in Nat
    BY <2>1, <2>2 DEF Dealt
  <2>4. \A i \in Dealt + 1 .. Len(events) : i \in lastBlock + 1 .. Len(events)
    BY <2>2, <2>3
  <2> QED BY <2>1, <2>4 DEF Beyond, Unread
<1> QED BY <1>1, <1>2, <1>3, ArbitrationHolds, PTL DEF Spec

-----------------------------------------------------------------------------
(* Work that is done once                                                  *)

Sent(j) == \E w \in Worker : proofTx[w][j] # "none"

Grant(j, a) == [at |-> "reply", msg |-> ClaimAccepted(j, a)]

OnceIn(q, m) == \A i, k \in 1..Len(q) : q[i] = m /\ q[k] = m => i = k

(* The right to a job is one thing at a time: what the handler is about to *)
(* send, one message in the queue of the worker it is for, or its task.    *)
(* Before it is a task, nobody has sent a proof.                           *)
Fresh(j, a) ==
  /\ handler = Grant(j, a) => ~Has(down[a], ClaimAccepted(j, a))
  /\ handler = Grant(j, a) \/ Has(down[a], ClaimAccepted(j, a)) => a \notin Provers(j) /\ ~Sent(j)
  /\ OnceIn(down[a], ClaimAccepted(j, a))

GivenOnce ==
  crashes = 0 => \A j \in Job : /\ StillOpen(j) \/ Unsubmitted(j) => ~Sent(j)
                                /\ \A a \in Worker : Fresh(j, a)

(* A message that is in a queue once stays so.                             *)
LEMMA OnceKept ==
  ASSUME NEW S, NEW q \in Seq(S), NEW m, OnceIn(q, m)
  PROVE  /\ q # <<>> => OnceIn(Tail(q), m) /\ (Head(q) = m => ~Has(Tail(q), m))
         /\ \A p \in Prefixes(q) : OnceIn(p, m)
         /\ \A x \in S : x # m \/ ~Has(q, m) => OnceIn(Append(q, x), m)
<1>1. ASSUME q # <<>>
      PROVE  OnceIn(Tail(q), m) /\ (Head(q) = m => ~Has(Tail(q), m))
  <2>1. /\ Head(q) = q[1]
        /\ Len(q) \in Nat \ {0}
        /\ Len(Tail(q)) = Len(q) - 1
        /\ \A i \in 1..Len(Tail(q)) : Tail(q)[i] = q[i + 1]
    BY <1>1, HeadTailProperties
  <2>2. \A i \in 1..Len(Tail(q)) : i + 1 \in 1..Len(q) /\ i + 1 # 1
    BY <2>1
  <2>3. 1 \in 1..Len(q)
    BY <2>1
  <2>4. \A i, k \in 1..Len(Tail(q)) : i + 1 = k + 1 => i = k
    BY <2>1
  <2> QED BY <2>1, <2>2, <2>3, <2>4 DEF OnceIn, Has
<1>2. ASSUME NEW p \in Prefixes(q)
      PROVE  OnceIn(p, m)
  <2>1. PICK n \in 0..Len(q) : p = SubSeq(q, 1, n)
    BY DEF Prefixes
  <2> DEFINE s == SubSeq(q, 1, n)
  <2>2. n \in Nat /\ Len(q) \in Nat /\ n <= Len(q)
    OBVIOUS
  <2>3. \A i \in 1..n : i \in 1..Len(q) /\ q[i] \in S
    BY <2>2
  <2>4. /\ Len(s) = IF 1 <= n THEN n - 1 + 1 ELSE 0
        /\ \A k \in 1..(n - 1 + 1) : s[k] = q[1 + k - 1]
    BY <2>2, <2>3, SubSeqProperties
  <2> HIDE DEF s
  <2>5. Len(s) = n /\ \A k \in 1..n : s[k] = q[k]
    BY <2>2, <2>4
  <2>6. OnceIn(s, m)
    BY <2>3, <2>5 DEF OnceIn
  <2> QED BY <2>1, <2>6 DEF s
<1>3. ASSUME NEW x \in S, x # m \/ ~Has(q, m)
      PROVE  OnceIn(Append(q, x), m)
  <2>1. /\ Len(q) \in Nat
        /\ Len(Append(q, x)) = Len(q) + 1
        /\ \A i \in 1..Len(q) : Append(q, x)[i] = q[i]
        /\ Append(q, x)[Len(q) + 1] = x
    BY AppendProperties
  <2>2. \A i \in 1..Len(Append(q, x)) : i \in 1..Len(q) \/ i = Len(q) + 1
    BY <2>1
  <2> QED BY <1>3, <2>1, <2>2 DEF OnceIn, Has
<1> QED BY <1>1, <1>2, <1>3

(* A step that adds nothing to what there is of a right.                   *)
LEMMA FreshKept ==
  ASSUME NEW j \in Job, NEW a \in Worker, Fresh(j, a),
         handler' = Grant(j, a) => handler = Grant(j, a),
         Has(down'[a], ClaimAccepted(j, a)) => Has(down[a], ClaimAccepted(j, a)),
         OnceIn(down'[a], ClaimAccepted(j, a)),
         a \in Provers(j)' => a \in Provers(j),
         Sent(j)' => Sent(j)
  PROVE  Fresh(j, a)'
BY DEF Fresh, Grant

(* Until the first crash one worker has a right to a job, and none as long *)
(* as the job has still to be given or inserted.                           *)
LEMMA OneHolder ==
  ASSUME Arbitration, crashes = 0, NEW j \in Job, NEW a \in By, Token(j, a)
  PROVE  /\ ~StillOpen(j) /\ ~Unsubmitted(j)
         /\ \A b \in By : Token(j, b) => b = a
<1>1. a \in Holders(j) /\ AtMost(1, Holders(j))
  BY DEF Holders, Arbitration
<1>2. ~StillOpen(j) /\ ~Unsubmitted(j)
  BY <1>1, AtMostFacts DEF Arbitration
<1>3. ASSUME NEW b \in By, Token(j, b), b # a
      PROVE  FALSE
  <2>1. b \in Holders(j) \ {a}
    BY <1>3 DEF Holders
  <2>2. /\ IsFiniteSet(Holders(j) \ {a})
        /\ Cardinality(Holders(j) \ {a}) = Cardinality(Holders(j)) - 1
        /\ Cardinality(Holders(j)) \in Nat /\ Cardinality(Holders(j)) <= 1
        /\ Cardinality(Holders(j) \ {a}) \in Nat
    BY <1>1, FS_RemoveElement, FS_CardinalityType DEF AtMost
  <2>3. Cardinality(Holders(j) \ {a}) = 0
    BY <2>2
  <2> QED BY <2>1, <2>2, <2>3, FS_EmptySet
<1> QED BY <1>2, <1>3

(* The coordinator makes a right of a job nobody has one to, and turns it  *)
(* into one message per queue.                                             *)
LEMMA CoordinatorGivesOnce ==
  ASSUME TypeOK, Arbitration, GivenOnce, crashes = 0, CoordinatorStep, UNCHANGED workerVars,
         NEW j \in Job, NEW a \in Worker
  PROVE  /\ StillOpen(j)' \/ Unsubmitted(j)' => ~Sent(j)'
         /\ Fresh(j, a)'
<1> DEFINE m == ClaimAccepted(j, a)
<1>1. /\ Provers(j)' = Provers(j)
      /\ Sent(j)' = Sent(j)
  BY ProofsKept DEF workerVars, Provers, Sent
<1>2. Fresh(j, a) /\ (StillOpen(j) \/ Unsubmitted(j) => ~Sent(j))
  BY DEF GivenOnce
<1>3. StillOpen(j)' \/ Unsubmitted(j)' => StillOpen(j) \/ Unsubmitted(j)
  BY CoordinatorEvolves
  DEF Arbitration, Evolves, Finishes, Assigns, Inserts, Unsubmitted, StillOpen, Done
<1>4. /\ down \in [Worker -> Seq(GossipMessage)]
      /\ m \in GossipMessage
      /\ Grant(j, a).at = "reply" /\ Grant(j, a).msg = m /\ Grant(j, a) # Idle
      /\ OnceIn(down[a], m)
  BY <1>2, Types, Constructors DEF Grant, Idle, Fresh
<1>5. ASSUME down' = down, handler' = Grant(j, a) => handler = Grant(j, a)
      PROVE  Fresh(j, a)'
  BY <1>1, <1>2, <1>4, <1>5, FreshKept
<1>6. ASSUME NEW x \in GossipMessage, Broadcast(x), x # m,
             handler' = Grant(j, a) => handler = Grant(j, a)
      PROVE  Fresh(j, a)'
  <2>1. down'[a] = down[a] \/ down'[a] = Append(down[a], x)
    BY <1>6 DEF Broadcast, SendTo
  <2>2. /\ down[a] \in Seq(GossipMessage)
        /\ Has(Append(down[a], x), m) => Has(down[a], m)
    BY <1>4, <1>6, AppendToQueue
  <2>3. OnceIn(Append(down[a], x), m)
    BY <1>4, <1>6, <2>2, OnceKept
  <2> QED BY <1>1, <1>2, <1>4, <1>6, <2>1, <2>2, <2>3, FreshKept
<1>7. ASSUME NEW i \in Job,
             CreateJob(i) \/ SendSubmitJob(i) \/ SubmitJobReceipt(i) \/ FailRequest(i)
      PROVE  Fresh(j, a)'
  BY <1>5, <1>7 DEF CreateJob, SendSubmitJob, SubmitJobReceipt, FailRequest, linkVars
<1>8. ASSUME NEW i \in Job, AnnounceJob(i) \/ RebroadcastJob(i)
      PROVE  Fresh(j, a)'
  <2>1. JobAvailable(i) \in GossipMessage /\ JobAvailable(i) # m
    BY Constructors, MessagesDiffer
  <2> QED BY <1>6, <1>8, <2>1 DEF AnnounceJob, RebroadcastJob
<1>9. ASSUME NEW w \in Worker, HandleClaim(w)
      PROVE  Fresh(j, a)'
  <2> DEFINE c == Head(up[w])
  <2>1. down' = down
    BY <1>9 DEF HandleClaim
  <2>2. ASSUME handler' = Grant(j, a)
        PROVE  jobs[j].state = "Pending"
    <3>1. handler' # [at |-> "reply", msg |-> ClaimRejected(c.job)]
      BY <1>4, <2>2, MessagesDiffer
    <3>2. Claimable(jobs[c.job]) /\ handler' = [at |-> "reply", msg |-> ClaimAccepted(c.job, c.by)]
      BY <1>9, <3>1 DEF HandleClaim
    <3>3. c.job = j
      BY <1>4, <2>2, <3>2, MessagesDiffer
    <3> QED BY <3>2, <3>3 DEF Claimable
  <2>3. CASE handler' = Grant(j, a)
    <3>1. StillOpen(j)
      BY <2>2, <2>3 DEF StillOpen
    <3>2. ~Token(j, a)
      BY <3>1, OneHolder DEF By
    <3> QED BY <1>1, <1>2, <1>4, <2>1, <3>1, <3>2 DEF Fresh, Token
  <2> QED BY <1>5, <2>1, <2>3
<1>10. ASSUME ReplyToClaim
       PROVE  Fresh(j, a)'
  <2>1. /\ handler \in [at : {"reply", "verify", "confirmed"}, msg : GossipMessage]
        /\ handler' = Idle /\ Broadcast(handler.msg)
    BY <1>10, Types DEF ReplyToClaim, Idle
  <2>2. CASE handler.msg # m
    BY <1>4, <1>6, <2>1, <2>2
  <2>3. CASE handler.msg = m
    <3>1. handler = Grant(j, a)
      BY <1>10, <2>1, <2>3 DEF ReplyToClaim, Grant
    <3>2. ~Has(down[a], m) /\ a \notin Provers(j) /\ ~Sent(j)
      BY <1>2, <3>1 DEF Fresh
    <3>3. down'[a] = down[a] \/ down'[a] = Append(down[a], m)
      BY <2>1, <2>3 DEF Broadcast, SendTo
    <3>4. down[a] \in Seq(GossipMessage)
      BY <1>4
    <3>5. OnceIn(Append(down[a], m), m)
      BY <1>4, <3>2, <3>4, OnceKept
    <3>6. OnceIn(down'[a], m)
      BY <1>4, <3>3, <3>5
    <3> QED BY <1>1, <1>4, <2>1, <3>2, <3>6 DEF Fresh, Grant
  <2> QED BY <2>2, <2>3
<1>11. ASSUME NEW w \in Worker, HandleJobCompleted(w)
       PROVE  Fresh(j, a)'
  <2>1. handler'.at # "reply" /\ down' = down
    BY <1>11 DEF HandleJobCompleted, Idle
  <2> QED BY <1>4, <1>5, <2>1
<1>12. ASSUME VerifyOnChain
       PROVE  Fresh(j, a)'
  <2>1. handler'.at # "reply" /\ down' = down
    BY <1>12, Types DEF VerifyOnChain, Idle, linkVars
  <2> QED BY <1>4, <1>5, <2>1
<1>13. ASSUME MarkCompleted \/ CollectPending \/ SaveJobs
       PROVE  Fresh(j, a)'
  BY <1>4, <1>5, <1>13 DEF MarkCompleted, CollectPending, SaveJobs, linkVars
<1>14. Fresh(j, a)'
  BY <1>7, <1>8, <1>9, <1>10, <1>11, <1>12, <1>13
  DEF CoordinatorStep, SubmitJobError, AbandonRequest
<1> QED BY <1>1, <1>2, <1>3, <1>14

(* A worker uses the message up when it starts the task, and sends a proof *)
(* when nobody else can have a right to the job.                           *)
LEMMA WorkerStartsOnce ==
  ASSUME TypeOK, Arbitration, GivenOnce, crashes = 0, NEW w \in Worker, WorkerStep(w),
         UNCHANGED coordinatorVars, NEW j \in Job, NEW a \in Worker
  PROVE  /\ StillOpen(j)' \/ Unsubmitted(j)' => ~Sent(j)'
         /\ Fresh(j, a)'
         /\ a \in Provers(j)' => a \in Provers(j) \/ Has(down[a], ClaimAccepted(j, a))
<1> DEFINE m == ClaimAccepted(j, a)
           Goal == /\ StillOpen(j)' \/ Unsubmitted(j)' => ~Sent(j)'
                   /\ Fresh(j, a)'
                   /\ a \in Provers(j)' => a \in Provers(j) \/ Has(down[a], m)
<1>1. /\ down \in [Worker -> Seq(GossipMessage)]
      /\ DOMAIN tasks = Worker
      /\ proofTx \in [Worker -> [Job -> TxStatus]]
  BY Types DEF TypeOK, ChainTypeOK
<1>2. /\ Fresh(j, a) /\ (StillOpen(j) \/ Unsubmitted(j) => ~Sent(j))
      /\ OnceIn(down[a], m)
  BY DEF GivenOnce, Fresh
<1>3. /\ handler' = handler
      /\ StillOpen(j)' = StillOpen(j) /\ Unsubmitted(j)' = Unsubmitted(j)
  BY DEF coordinatorVars, StillOpen, Unsubmitted
<1>4. CASE HandleMessage(w)
  <2>1. /\ down[w] # <<>> /\ down' = [down EXCEPT ![w] = Tail(@)]
        /\ proofTx' = proofTx
    BY <1>4 DEF HandleMessage, HandleJobAvailable, HandleClaimAccepted, HandleClaimRejected, Take,
       chainVars
  <2>2. Sent(j)' = Sent(j)
    BY <2>1 DEF Sent
  <2>3. OnceIn(down'[a], m) /\ (Has(down'[a], m) => Has(down[a], m))
    BY <1>1, <1>2, <2>1, OnceKept, TailOfQueue
  <2>4. CASE a \in Provers(j)' => a \in Provers(j)
    BY <1>2, <1>3, <2>2, <2>3, <2>4, FreshKept
  <2>5. CASE ~(a \in Provers(j)' => a \in Provers(j))
    <3> DEFINE h == Head(down[w])
    <3>1. HandleClaimAccepted(w) /\ IsClaiming(w, h.job) /\ Accept(w, h)
      BY <1>4, <2>5 DEF HandleMessage, HandleJobAvailable, HandleClaimRejected,
         HandleClaimAccepted, workerVars, Provers
    <3>2. h \in GossipMessage /\ h.type = "ClaimAccepted" /\ Has(down[w], h)
      BY <1>1, <2>1, <3>1, TailOfQueue DEF HandleClaimAccepted, Take
    <3>3. /\ h.by = w
          /\ \A v \in Worker : \A t \in tasks'[v] :
               t \in tasks[v] \/ (v = w /\ t = Task("prove", h.job))
      BY <1>1, <2>5, <3>1 DEF Accept, Provers
    <3>4. a = w /\ h.job = j
      BY <2>5, <3>3 DEF Provers, Task
    <3>5. h = m
      BY <3>2, <3>3, <3>4, MessagesDiffer
    <3>6. handler # Grant(j, a) /\ ~Sent(j) /\ Has(down[a], m)
      BY <1>2, <3>2, <3>4, <3>5 DEF Fresh
    <3>7. ~Has(down'[a], m)
      BY <1>1, <1>2, <2>1, <3>4, <3>5, OnceKept
    <3> QED BY <1>2, <1>3, <2>2, <2>3, <3>6, <3>7 DEF Fresh, Grant
  <2> QED BY <2>4, <2>5
<1>5. ASSUME NEW t \in tasks[w], TaskStep(w, t)
      PROVE  Goal
  <2>1. /\ down' = down
        /\ \E at : Moves(w, t, at) \/ Ends(w, t)
        /\ proofTx' = proofTx \/ proofTx' = [proofTx EXCEPT ![w][t.job] = "pending"]
    BY <1>5 DEF TaskStep, ProvingEnds, ProvingFails, SendSubmitProof, SubmitProofReceipt,
       SubmitProofError, AnnounceCompletion, Retire, linkVars, chainVars
  <2>2. a \in Provers(j)' => a \in Provers(j)
    <3>1. PICK at : Moves(w, t, at) \/ Ends(w, t)
      BY <2>1
    <3>2. \A v \in Worker : \A u \in tasks'[v] : u \in tasks[v] \/ (v = w /\ u = Task(at, t.job))
      BY <1>1, <3>1 DEF Moves, Ends
    <3> QED BY <3>2 DEF Provers, Task
  <2>3. CASE Sent(j)' => Sent(j)
    BY <1>2, <1>3, <2>1, <2>2, <2>3, FreshKept
  <2>4. CASE t.job = j
    <3>1. w \in Provers(j) /\ Token(j, w) /\ w \in By
      BY <2>4 DEF Provers, Token, By
    <3>2. /\ ~StillOpen(j) /\ ~Unsubmitted(j)
          /\ Token(j, a) => a = w
      BY <3>1, OneHolder DEF By
    <3>3. handler # Grant(j, a) /\ ~Has(down[a], m)
      BY <1>2, <3>1, <3>2 DEF Fresh, Token, Grant
    <3> QED BY <1>2, <1>3, <2>1, <2>2, <3>2, <3>3 DEF Fresh, Grant
  <2>5. t.job # j => (Sent(j)' => Sent(j))
    <3>1. ASSUME t.job # j, proofTx' = [proofTx EXCEPT ![w][t.job] = "pending"], NEW v \in Worker
          PROVE  proofTx'[v][j] = proofTx[v][j]
      <4>1. v # w => proofTx'[v] = proofTx[v]
        BY <1>1, <3>1
      <4>2. proofTx'[w] = [proofTx[w] EXCEPT ![t.job] = "pending"]
        BY <1>1, <3>1
      <4> QED BY <1>1, <3>1, <4>1, <4>2
    <3> QED BY <2>1, <3>1 DEF Sent
  <2> QED BY <2>3, <2>4, <2>5
<1> QED BY <1>4, <1>5 DEF WorkerStep

(* Each step keeps it, and starts a task only with a right that is unused. *)
LEMMA StepGivenOnce ==
  ASSUME TypeOK, Arbitration, GivenOnce, [Next]_vars, crashes' = 0, NEW j \in Job, NEW a \in Worker
  PROVE  /\ StillOpen(j)' \/ Unsubmitted(j)' => ~Sent(j)'
         /\ Fresh(j, a)'
         /\ a \in Provers(j)' => a \in Provers(j) \/ Has(down[a], ClaimAccepted(j, a))
<1> DEFINE m == ClaimAccepted(j, a)
           Goal == /\ StillOpen(j)' \/ Unsubmitted(j)' => ~Sent(j)'
                   /\ Fresh(j, a)'
                   /\ a \in Provers(j)' => a \in Provers(j) \/ Has(down[a], m)
<1>1. crashes = 0 /\ ~Crash /\ ~Restart
  BY FirstLife
<1>2. /\ Fresh(j, a) /\ (StillOpen(j) \/ Unsubmitted(j) => ~Sent(j))
      /\ OnceIn(down[a], m)
      /\ down \in [Worker -> Seq(GossipMessage)]
  BY <1>1, Types DEF GivenOnce, Fresh
<1>3. ASSUME UNCHANGED workerVars, handler' = handler, Sent(j)' => Sent(j),
             StillOpen(j)' \/ Unsubmitted(j)' => StillOpen(j) \/ Unsubmitted(j),
             Has(down'[a], m) => Has(down[a], m), OnceIn(down'[a], m)
      PROVE  Goal
  <2>1. Provers(j)' = Provers(j)
    BY <1>3 DEF workerVars, Provers
  <2> QED BY <1>2, <1>3, <2>1, FreshKept
<1>4. UNCHANGED coordinatorVars => StillOpen(j)' = StillOpen(j) /\ Unsubmitted(j)' = Unsubmitted(j)
  BY DEF coordinatorVars, StillOpen, Unsubmitted
<1>5. UNCHANGED chainVars => Sent(j)' = Sent(j)
  BY DEF chainVars, Sent
<1>6. CASE UNCHANGED vars
  BY <1>2, <1>3, <1>4, <1>5, <1>6 DEF vars, linkVars, coordinatorVars
<1>7. CASE OfChain(ChainStep)
  <2>1. PICK n \in 0..Len(events) : n = 0
    BY DEF TypeOK, ChainTypeOK
  <2>2. Sent(j)' => Sent(j)
    BY <1>7, <2>1, PaymentsLogged DEF OfChain, Sent
  <2> QED BY <1>2, <1>3, <1>4, <1>7, <2>2 DEF OfChain, linkVars, coordinatorVars
<1>8. CASE OfNetwork(Network)
  <2>1. PICK w \in Worker : Connect(w) \/ Lose(w) \/ Disconnect(w)
    BY <1>8 DEF OfNetwork, Network
  <2>2. \/ down'[a] = down[a]
        \/ down[a] # <<>> /\ down'[a] = Tail(down[a])
        \/ down'[a] \in Prefixes(down[a])
    BY <1>2, <2>1 DEF Connect, Lose, Disconnect
  <2>3. OnceIn(down'[a], m)
    <3>1. down[a] \in Seq(GossipMessage)
      BY <1>2
    <3>2. /\ down[a] # <<>> => OnceIn(Tail(down[a]), m)
          /\ \A p \in Prefixes(down[a]) : OnceIn(p, m)
      BY <1>2, <3>1, OnceKept
    <3> QED BY <1>2, <2>2, <3>2
  <2>4. Has(down'[a], m) => Has(down[a], m)
    BY <2>1, NetworkType
  <2> QED BY <1>3, <1>4, <1>5, <1>8, <2>3, <2>4 DEF OfNetwork, coordinatorVars
<1>9. CASE OfCoordinator(CoordinatorStep)
  <2>1. CoordinatorStep /\ UNCHANGED workerVars
    BY <1>9 DEF OfCoordinator
  <2>2. Provers(j)' = Provers(j)
    BY <2>1 DEF workerVars, Provers
  <2> QED BY <1>1, <2>1, <2>2, CoordinatorGivesOnce
<1>10. CASE OfIndexer(IndexerStep)
  <2>1. /\ UNCHANGED workerVars
        /\ UNCHANGED <<chainVars, linkVars, running, disk, request, pending, handler>>
        /\ Evolves(j)
    BY <1>10, IndexerType, IndexerEvolves DEF OfIndexer, Arbitration
  <2>2. StillOpen(j)' \/ Unsubmitted(j)' => StillOpen(j) \/ Unsubmitted(j)
    BY <2>1 DEF Evolves, Finishes, Assigns, Inserts, Unsubmitted, StillOpen, Done
  <2> QED BY <1>2, <1>3, <1>5, <2>1, <2>2 DEF linkVars
<1>11. ASSUME NEW w \in Worker, OfWorker(WorkerStep(w))
       PROVE  Goal
  BY <1>1, <1>11, WorkerStartsOnce DEF OfWorker
<1> QED BY <1>1, <1>6, <1>7, <1>8, <1>9, <1>10, <1>11 DEF Next

(* Until a crash a job is proved once: whatever calls fail and whatever is *)
(* still queued, when a worker has sent a proof nobody starts another.     *)
THEOREM JobsAreProvedOnce == Spec => ProvedOnce
<1>1. Init => GivenOnce
  <2> SUFFICES ASSUME Init
               PROVE  GivenOnce
    OBVIOUS
  <2>1. \A j \in Job : ~Sent(j)
    BY DEF Init, ChainInit, Sent
  <2>2. \A a \in Worker : down[a] = <<>>
    BY DEF Init, LinkInit
  <2>3. \A j \in Job, a \in Worker : handler # Grant(j, a) /\ ~Has(down[a], ClaimAccepted(j, a))
    BY <2>2 DEF Init, CoordinatorInit, Idle, Grant, Has
  <2>4. \A j \in Job, a \in Worker : OnceIn(down[a], ClaimAccepted(j, a))
    BY <2>2 DEF OnceIn
  <2> QED BY <2>1, <2>3, <2>4 DEF GivenOnce, Fresh
<1>2. TypeOK /\ Arbitration /\ [Next]_vars /\ GivenOnce => GivenOnce'
  <2> SUFFICES ASSUME TypeOK, Arbitration, [Next]_vars, GivenOnce, crashes' = 0, NEW j \in Job
               PROVE  /\ StillOpen(j)' \/ Unsubmitted(j)' => ~Sent(j)'
                      /\ \A a \in Worker : Fresh(j, a)'
    BY DEF GivenOnce
  <2>1. ASSUME NEW a \in Worker
        PROVE  Fresh(j, a)' /\ (StillOpen(j)' \/ Unsubmitted(j)' => ~Sent(j)')
    BY StepGivenOnce
  <2>2. Worker = {} => ~Sent(j)'
    BY DEF Sent
  <2> QED BY <2>1, <2>2
<1>3. TypeOK /\ Arbitration /\ [Next]_vars /\ GivenOnce =>
        [crashes' = 0 => \A j \in Job :
           (\E w \in Worker : proofTx[w][j] # "none") => Provers(j)' \subseteq Provers(j)]_vars
  <2> SUFFICES ASSUME TypeOK, Arbitration, [Next]_vars, GivenOnce, crashes' = 0,
                      NEW j \in Job, Sent(j), NEW a \in Provers(j)'
               PROVE  a \in Provers(j)
    BY DEF Sent
  <2>1. a \in Worker /\ crashes = 0
    BY FirstLife DEF Provers
  <2>2. ~Has(down[a], ClaimAccepted(j, a))
    BY <2>1 DEF GivenOnce, Fresh
  <2> QED BY <2>1, <2>2, StepGivenOnce
<1> QED BY <1>1, <1>2, <1>3, ArbitrationHolds, PTL DEF Spec, ProvedOnce
=============================================================================
