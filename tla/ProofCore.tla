----------------------------- MODULE ProofCore -----------------------------
(***************************************************************************)
(* crates/core: what coordinator, workers and indexer share.  A job is its *)
(* id; a transaction hash is the account that sent the transaction, which  *)
(* with the job tells two proofs of one job apart.                         *)
(***************************************************************************)
EXTENDS Integers, Sequences, FiniteSets

CONSTANTS Job,          \* jobs
          Worker,       \* worker processes, by the peer id each draws at start
          Coordinator,  \* the coordinator's account, owner of the jobs it submits
          Outsider,     \* any other account of the chain
          NoOne         \* no account

ASSUME AccountsAssumption ==
  /\ Cardinality({Coordinator, Outsider, NoOne}) = 3
  /\ {Coordinator, Outsider, NoOne} \cap Worker = {}

Account == Worker \cup {Coordinator, Outsider}

(* enum JobStatus; Absent is a job that is not in the map.  Proving and    *)
(* Failed are declared in the source and never set.                        *)
JobStatus == [state : {"Absent", "Pending", "Assigned", "Completed", "Expired"},
              by : Worker \cup {Outsider, NoOne}]

Absent       == [state |-> "Absent", by |-> NoOne]
Pending      == [state |-> "Pending", by |-> NoOne]
Assigned(w)  == [state |-> "Assigned", by |-> w]
Completed(a) == [state |-> "Completed", by |-> a]
Expired      == [state |-> "Expired", by |-> NoOne]

(* enum GossipMessage.  ClaimRejected names the job but no worker.         *)
GossipMessage == [type : {"JobAvailable", "ClaimJob", "ClaimAccepted", "ClaimRejected",
                          "JobCompleted"},
                  job : Job, by : Worker \cup {NoOne}]

JobAvailable(j)     == [type |-> "JobAvailable", job |-> j, by |-> NoOne]
ClaimJob(j, w)      == [type |-> "ClaimJob", job |-> j, by |-> w]
ClaimAccepted(j, w) == [type |-> "ClaimAccepted", job |-> j, by |-> w]
ClaimRejected(j)    == [type |-> "ClaimRejected", job |-> j, by |-> NoOne]
JobCompleted(j, w)  == [type |-> "JobCompleted", job |-> j, by |-> w]
=============================================================================
