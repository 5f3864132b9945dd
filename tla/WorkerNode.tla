----------------------------- MODULE WorkerNode -----------------------------
(***************************************************************************)
(* crates/worker: the status a worker keeps under its lock, the loop that  *)
(* handles gossip, and the run_proving tasks it spawns.  Nothing but the   *)
(* status stops two tasks from living at once, so a worker has a set.      *)
(***************************************************************************)
EXTENDS Chain, GossipLinks

VARIABLES status,  \* for each worker, WorkerStatus
          tasks    \* for each worker, its run_proving tasks and where they are

workerVars == <<status, tasks>>

NoJob == [state |-> "Idle", job |-> NoOne]
Holding(state, j) == [state |-> state, job |-> j]
Task(at, j) == [at |-> at, job |-> j]

(* ProofReady is declared in the source and never set.                     *)
WorkerTypeOK ==
  /\ status \in [Worker -> [state : {"Idle", "Claiming", "Proving", "Submitting"},
                         job : Job \cup {NoOne}]]
  /\ tasks \in [Worker -> SUBSET [at : {"prove", "submit", "receipt", "announce", "retire"},
                                  job : Job]]

WorkerInit == /\ status = [w \in Worker |-> NoJob]
              /\ tasks = [w \in Worker |-> {}]

-----------------------------------------------------------------------------
(* Worker::run and handle_message                                          *)

Take(w, type) == /\ down[w] # <<>>
                 /\ Head(down[w]).type = type
                 /\ down' = [down EXCEPT ![w] = Tail(@)]

SetStatus(w, s) == status' = [status EXCEPT ![w] = s]

TakesWhileBusy(w, j) == due[j] > clock

Takes(w, j) == status[w].state = "Idle" /\ due[j] > clock

HandleJobAvailable(w) ==
  /\ Take(w, "JobAvailable")
  /\ LET j == Head(down[w]).job IN
       IF Takes(w, j)
       THEN SetStatus(w, Holding("Claiming", j)) /\ SendUp(w, ClaimJob(j, w))
       ELSE UNCHANGED <<status, up>>
  /\ UNCHANGED <<chainVars, link, handles, tasks>>

IsClaiming(w, j) == status[w] = Holding("Claiming", j)

AcceptAny(w, m) == /\ SetStatus(w, Holding("Proving", m.job))
                   /\ tasks' = [tasks EXCEPT ![w] = @ \cup {Task("prove", m.job)}]

(* The claim of this worker starts a task; another worker's ends its own.  *)
Accept(w, m) == IF m.by = w THEN /\ SetStatus(w, Holding("Proving", m.job))
                                 /\ tasks' = [tasks EXCEPT ![w] = @ \cup {Task("prove", m.job)}]
                            ELSE SetStatus(w, NoJob) /\ UNCHANGED tasks

HandleClaimAccepted(w) ==
  /\ Take(w, "ClaimAccepted")
  /\ LET m == Head(down[w])
     IN IF IsClaiming(w, m.job) THEN Accept(w, m) ELSE UNCHANGED workerVars
  /\ UNCHANGED <<chainVars, link, handles, up>>

HandleClaimRejected(w) ==
  /\ Take(w, "ClaimRejected")
  /\ IF IsClaiming(w, Head(down[w]).job) THEN SetStatus(w, NoJob) ELSE UNCHANGED status
  /\ UNCHANGED <<chainVars, link, handles, up, tasks>>

-----------------------------------------------------------------------------
(* run_proving and submit_proof_onchain                                    *)

Moves(w, t, at) == tasks' = [tasks EXCEPT ![w] = (@ \ {t}) \cup {Task(at, t.job)}]
Ends(w, t) == tasks' = [tasks EXCEPT ![w] = @ \ {t}]

Release(w, j, states) ==
  IF status[w].job = j /\ status[w].state \in states THEN SetStatus(w, NoJob)
                                                     ELSE UNCHANGED status

OnlyFromProving(w, j) == Release(w, j, {"Proving"})

TransitionToIdle(w, j) == Release(w, j, {"Submitting", "Proving"})

(* The proof is there: submit it if the status is still Proving this job.  *)
ProvingEnds(w, t) ==
  /\ t.at = "prove"
  /\ IF status[w] = Holding("Proving", t.job)
     THEN SetStatus(w, Holding("Submitting", t.job)) /\ Moves(w, t, "submit")
     ELSE Ends(w, t) /\ UNCHANGED status
  /\ UNCHANGED <<chainVars, linkVars>>

ProvingFails(w, t) ==
  /\ "prover" \in Faults
  /\ t.at = "prove"
  /\ Release(w, t.job, {"Proving"})
  /\ Ends(w, t)
  /\ UNCHANGED <<chainVars, linkVars>>

SendSubmitProof(w, t) ==
  /\ t.at = "submit"
  /\ SubmitProofSucceeds(t.job)
  /\ proofTx' = [proofTx EXCEPT ![w][t.job] = "pending"]
  /\ Moves(w, t, "receipt")
  /\ UNCHANGED <<clock, due, escrow, events, submitTx, linkVars, status>>

(* get_receipt() of contract-client hands back the hash of any receipt.    *)
SubmitProofReceipt(w, t) ==
  /\ t.at = "receipt"
  /\ proofTx[w][t.job] \in {"ok", "reverted"}
  /\ Moves(w, t, "announce")
  /\ UNCHANGED <<chainVars, linkVars, status>>

(* The receipt cannot be decoded, gas estimation finds a revert, or the    *)
(* node does not answer: the transaction may be mined all the same.        *)
SubmitProofError(w, t) ==
  /\ \/ t.at = "submit" /\ ({"rpc", "prover"} \cap Faults # {} \/ ~SubmitProofSucceeds(t.job))
     \/ t.at = "receipt" /\ "rpc" \in Faults
  /\ TransitionToIdle(w, t.job)
  /\ Ends(w, t)
  /\ UNCHANGED <<chainVars, linkVars>>

AnnounceCompletion(w, t) ==
  /\ t.at = "announce"
  /\ SendUp(w, JobCompleted(t.job, w))
  /\ Moves(w, t, "retire")
  /\ UNCHANGED <<chainVars, link, handles, down, status>>

Retire(w, t) ==
  /\ t.at = "retire"
  /\ TransitionToIdle(w, t.job)
  /\ Ends(w, t)
  /\ UNCHANGED <<chainVars, linkVars>>

HandleMessage(w) == HandleJobAvailable(w) \/ HandleClaimAccepted(w) \/ HandleClaimRejected(w)

TaskStep(w, t) == \/ ProvingEnds(w, t)
                  \/ ProvingFails(w, t)
                  \/ SendSubmitProof(w, t)
                  \/ SubmitProofReceipt(w, t)
                  \/ SubmitProofError(w, t)
                  \/ AnnounceCompletion(w, t)
                  \/ Retire(w, t)

WorkerStep(w) == HandleMessage(w) \/ \E t \in tasks[w] : TaskStep(w, t)
=============================================================================
