--------------------------- MODULE CoordinatorNode ---------------------------
(***************************************************************************)
(* crates/coordinator: the job map and the tasks that change it.  Every    *)
(* await at which another task can run ends an action, so each task keeps  *)
(* the place it stopped at.                                                *)
(***************************************************************************)
EXTENDS Chain, GossipLinks

CONSTANTS OnChain,          \* state.contract is Some
          DefaultDeadline,  \* config.default_deadline_secs
          MaxInFlight       \* bound on the messages queued for a worker when
                            \* the rebroadcast timer (5 s) starts a round

ASSUME CoordinatorAssumption == /\ OnChain \in BOOLEAN
                                /\ DefaultDeadline \in Nat
                                /\ MaxInFlight \in Nat

VARIABLES running,  \* FALSE while the process is down
          jobs,     \* AppState.jobs
          disk,     \* coordinator_jobs.json
          request,  \* for each job, where its create_job call is
          pending,  \* the jobs the current rebroadcast round has yet to send
          handler   \* what run_gossip_handler is doing

coordinatorVars == <<running, jobs, disk, request, pending, handler>>

Idle == [at |-> "recv", msg |-> NoOne]

CoordinatorTypeOK ==
  /\ running \in BOOLEAN
  /\ jobs \in [Job -> JobStatus]
  /\ disk \in [Job -> JobStatus]
  /\ request \in [Job -> {"none", "submit", "receipt", "announce", "done", "failed"}]
  /\ pending \subseteq Job
  /\ handler \in {Idle} \cup [at : {"reply", "verify", "confirmed"}, msg : GossipMessage]

CoordinatorInit ==
  /\ running = TRUE
  /\ jobs = [j \in Job |-> Absent]
  /\ disk = [j \in Job |-> Absent]
  /\ request = [j \in Job |-> "none"]
  /\ pending = {}
  /\ handler = Idle

-----------------------------------------------------------------------------
(* create_job                                                              *)

Insert(j) == /\ jobs' = [jobs EXCEPT ![j] = Pending]
             /\ request' = [request EXCEPT ![j] = "announce"]

(* Deadline computed; without a contract the job is inserted at once.      *)
CreateJob(j) ==
  /\ request[j] = "none"
  /\ j \notin Foreign
  /\ due' = [due EXCEPT ![j] = clock + DefaultDeadline]
  /\ IF OnChain THEN request' = [request EXCEPT ![j] = "submit"] /\ UNCHANGED jobs
                ELSE Insert(j)
  /\ UNCHANGED <<clock, escrow, events, submitTx, proofTx, linkVars, running, disk,
                 pending, handler>>

FailRequest(j) == /\ request' = [request EXCEPT ![j] = "failed"]
                  /\ UNCHANGED <<chainVars, linkVars, running, jobs, disk, pending, handler>>

(* contract.submit_job(..).send(): sent if gas estimation succeeds.        *)
SendSubmitJob(j) ==
  /\ request[j] = "submit"
  /\ SubmitJobSucceeds(j)
  /\ submitTx' = [submitTx EXCEPT ![j] = "pending"]
  /\ request' = [request EXCEPT ![j] = "receipt"]
  /\ UNCHANGED <<clock, due, escrow, events, proofTx, linkVars, running, jobs, disk,
                 pending, handler>>

(* get_receipt(): the receipt of a reverted transaction is a receipt too.  *)
SubmitJobReceipt(j) ==
  /\ request[j] = "receipt"
  /\ submitTx[j] \in {"ok", "reverted"}
  /\ Insert(j)
  /\ UNCHANGED <<chainVars, linkVars, running, disk, pending, handler>>

SubmitJobError(j) ==
  /\ \/ request[j] = "submit" /\ ("rpc" \in Faults \/ ~SubmitJobSucceeds(j))
     \/ request[j] = "receipt" /\ "rpc" \in Faults
  /\ FailRequest(j)

AnnounceJob(j) ==
  /\ request[j] = "announce"
  /\ Broadcast(JobAvailable(j))
  /\ request' = [request EXCEPT ![j] = "done"]
  /\ UNCHANGED <<chainVars, link, handles, up, running, jobs, disk, pending, handler>>

(* The HTTP client goes away: axum drops the future where it awaits.       *)
AbandonRequest(j) ==
  /\ "abandon" \in Faults
  /\ request[j] \in {"submit", "receipt", "announce"}
  /\ FailRequest(j)

-----------------------------------------------------------------------------
(* run_gossip_handler: one message at a time, from any worker.             *)

Receive(w, type) == /\ handler = Idle
                    /\ up[w] # <<>>
                    /\ Head(up[w]).type = type
                    /\ up' = [up EXCEPT ![w] = Tail(@)]

ClaimableTwice(status) == status.state \in {"Pending", "Assigned"}

Claimable(status) == status.state = "Pending"

HandleClaim(w) ==
  /\ Receive(w, "ClaimJob")
  /\ LET m == Head(up[w]) IN
       IF Claimable(jobs[m.job])
       THEN /\ jobs' = [jobs EXCEPT ![m.job] = Assigned(m.by)]
            /\ handler' = [at |-> "reply", msg |-> ClaimAccepted(m.job, m.by)]
       ELSE /\ handler' = [at |-> "reply", msg |-> ClaimRejected(m.job)]
            /\ UNCHANGED jobs
  /\ UNCHANGED <<chainVars, link, handles, down, running, disk, request, pending>>

ReplyToClaim ==
  /\ handler.at = "reply"
  /\ Broadcast(handler.msg)
  /\ handler' = Idle
  /\ UNCHANGED <<chainVars, link, handles, up, running, jobs, disk, request, pending>>

(* Without a contract the message is ignored.                              *)
HandleJobCompleted(w) ==
  /\ Receive(w, "JobCompleted")
  /\ handler' = IF OnChain THEN [at |-> "verify", msg |-> Head(up[w])] ELSE Idle
  /\ UNCHANGED <<chainVars, link, handles, down, running, jobs, disk, request, pending>>

ConfirmedBySubmission(j) == escrow[j].state # "none"

(* contract.is_completed(job_id): true, or false or an error.              *)
Confirmed(j) == IsCompleted(j)

VerifyOnChain ==
  /\ handler.at = "verify"
  /\ \/ Confirmed(handler.msg.job) /\ handler' = [handler EXCEPT !.at = "confirmed"]
     \/ (~Confirmed(handler.msg.job) \/ "rpc" \in Faults) /\ handler' = Idle
  /\ UNCHANGED <<chainVars, linkVars, running, jobs, disk, request, pending>>

CompletedAgain(status, by) == IF status.state = "Absent" THEN status ELSE Completed(by)

CompletedUnlessDone(status, by) ==
  IF status.state \in {"Absent", "Completed"} THEN status ELSE Completed(by)

MarkCompleted ==
  /\ handler.at = "confirmed"
  /\ jobs' = [jobs EXCEPT ![handler.msg.job] = CompletedUnlessDone(@, handler.msg.by)]
  /\ handler' = Idle
  /\ UNCHANGED <<chainVars, linkVars, running, disk, request, pending>>

-----------------------------------------------------------------------------
(* run_pending_rebroadcast: clones of the pending jobs, sent one by one.   *)

IsAssigned(status) == status.state = "Assigned"

IsPending(status) == status.state = "Pending"

CollectPending ==
  /\ pending = {}
  /\ \A w \in Worker : Len(down[w]) < MaxInFlight
  /\ pending' = {j \in Job : IsPending(jobs[j])}
  /\ pending' # {}
  /\ UNCHANGED <<chainVars, linkVars, running, jobs, disk, request, handler>>

RebroadcastJob(j) ==
  /\ j \in pending
  /\ Broadcast(JobAvailable(j))
  /\ pending' = pending \ {j}
  /\ UNCHANGED <<chainVars, link, handles, up, running, jobs, disk, request, handler>>

-----------------------------------------------------------------------------
(* save_jobs, every five seconds, through a temporary file and a rename.   *)
(* Not a step of interest when nothing reads the file back.                *)

SaveJobs ==
  /\ "crash" \in Faults
  /\ disk' = jobs
  /\ disk' # disk
  /\ UNCHANGED <<chainVars, linkVars, running, jobs, request, pending, handler>>

CoordinatorStep ==
  \/ \E j \in Job : \/ CreateJob(j)
                    \/ SendSubmitJob(j)
                    \/ SubmitJobReceipt(j)
                    \/ SubmitJobError(j)
                    \/ AnnounceJob(j)
                    \/ AbandonRequest(j)
                    \/ RebroadcastJob(j)
  \/ \E w \in Worker : HandleClaim(w) \/ HandleJobCompleted(w)
  \/ ReplyToClaim
  \/ VerifyOnChain
  \/ MarkCompleted
  \/ CollectPending
  \/ SaveJobs
=============================================================================
