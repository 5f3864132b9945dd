------------------------------- MODULE Chain -------------------------------
(***************************************************************************)
(* The blockchain as the Rust processes see it through contract-client and *)
(* the indexer's provider: the JobRegistry reduced to its escrow (module   *)
(* JobRegistry implements Escrow), a mempool, and the event log.  A        *)
(* transaction is sent, and mined some time later against the state found  *)
(* then; each block holds one transaction.                                 *)
(***************************************************************************)
EXTENDS ProofCore

CONSTANTS Foreign,    \* jobs that are submitted on chain by somebody else
          Outsiders,  \* jobs that accounts outside the network prove too
          MaxClock    \* bound on time

ASSUME ChainAssumption == /\ Foreign \subseteq Job
                          /\ Outsiders \subseteq Job
                          /\ MaxClock \in Nat

VARIABLES clock,     \* wall clock and block.timestamp
          due,       \* the deadline create_job computed for each job, 0 before
          escrow,    \* the contract's state for each job
          events,    \* JobCompleted and JobExpired logs, one block each
          submitTx,  \* for each job, its submitJob transaction
          proofTx    \* for each worker and job, its submitProof transaction

chainVars == <<clock, due, escrow, events, submitTx, proofTx>>

Contract == INSTANCE Escrow WITH NoAccount <- NoOne

TxStatus == {"none", "pending", "ok", "reverted"}

EscrowRecord == [state : {"none", "open", "paid", "refunded"}, owner : Account \cup {NoOne},
                 deadline : Nat, payee : Account \cup {NoOne}]

Log == [type : {"JobCompleted", "JobExpired"}, job : Job, by : Worker \cup {Outsider, NoOne}]

ChainTypeOK ==
  /\ clock \in 0..MaxClock
  /\ due \in [Job -> Nat]
  /\ escrow \in [Job -> EscrowRecord]
  /\ events \in Seq(Log)
  /\ submitTx \in [Job -> TxStatus]
  /\ proofTx \in [Worker -> [Job -> TxStatus]]

ChainInit ==
  /\ clock = 0
  /\ due = [j \in Job |-> 0]
  /\ escrow = [j \in Job |-> Contract!Nothing]
  /\ events = <<>>
  /\ submitTx = [j \in Job |-> "none"]
  /\ proofTx = [w \in Worker |-> [j \in Job |-> "none"]]

(* The conditions under which submitJob, submitProof and expireJob do not  *)
(* revert; the first two are also what gas estimation finds before a       *)
(* transaction is sent.                                                    *)
SubmitJobSucceeds(j) == escrow[j] = Contract!Nothing /\ due[j] > clock
SubmitProofSucceeds(j) == escrow[j].state = "open" /\ clock <= escrow[j].deadline
ExpireJobSucceeds(j) == escrow[j].state = "open" /\ clock > escrow[j].deadline

IsCompleted(j) == escrow[j].state \in {"paid", "refunded"}

Open(j, owner, deadline) ==
  escrow' = [escrow EXCEPT ![j] = [state |-> "open", owner |-> owner,
                                   deadline |-> deadline, payee |-> NoOne]]

Pay(j, a) ==
  /\ escrow' = [escrow EXCEPT ![j] = [@ EXCEPT !.state = "paid", !.payee = a]]
  /\ events' = Append(events, [type |-> "JobCompleted", job |-> j, by |-> a])

-----------------------------------------------------------------------------

Tick == /\ clock < MaxClock
        /\ clock' = clock + 1
        /\ UNCHANGED <<due, escrow, events, submitTx, proofTx>>

MineSubmitJob(j) ==
  /\ submitTx[j] = "pending"
  /\ \/ /\ SubmitJobSucceeds(j)
        /\ Open(j, Coordinator, due[j])
        /\ submitTx' = [submitTx EXCEPT ![j] = "ok"]
     \/ /\ ~SubmitJobSucceeds(j)
        /\ submitTx' = [submitTx EXCEPT ![j] = "reverted"]
        /\ UNCHANGED escrow
  /\ UNCHANGED <<clock, due, events, proofTx>>

MineSubmitProof(w, j) ==
  /\ proofTx[w][j] = "pending"
  /\ \/ /\ SubmitProofSucceeds(j)
        /\ Pay(j, w)
        /\ proofTx' = [proofTx EXCEPT ![w][j] = "ok"]
     \/ /\ ~SubmitProofSucceeds(j)
        /\ proofTx' = [proofTx EXCEPT ![w][j] = "reverted"]
        /\ UNCHANGED <<escrow, events>>
  /\ UNCHANGED <<clock, due, submitTx>>

(* expireJob is open to everybody, and nothing in the repository calls it. *)
ExpireJob(j) ==
  /\ ExpireJobSucceeds(j)
  /\ escrow' = [escrow EXCEPT ![j] = [@ EXCEPT !.state = "refunded", !.payee = escrow[j].owner]]
  /\ events' = Append(events, [type |-> "JobExpired", job |-> j, by |-> NoOne])
  /\ UNCHANGED <<clock, due, submitTx, proofTx>>

ForeignJob(j) ==
  /\ j \in Foreign
  /\ escrow[j] = Contract!Nothing
  /\ \E deadline \in clock + 1 .. MaxClock : Open(j, Outsider, deadline)
  /\ UNCHANGED <<clock, due, events, submitTx, proofTx>>

OutsiderProves(j) ==
  /\ j \in Outsiders
  /\ SubmitProofSucceeds(j)
  /\ Pay(j, Outsider)
  /\ UNCHANGED <<clock, due, submitTx, proofTx>>

ChainStep == \/ Tick
             \/ \E j \in Job : \/ MineSubmitJob(j)
                               \/ ExpireJob(j)
                               \/ ForeignJob(j)
                               \/ OutsiderProves(j)
             \/ \E w \in Worker, j \in Job : MineSubmitProof(w, j)
=============================================================================
