--------------------------- MODULE MarketplaceTypes ---------------------------
(***************************************************************************)
(* The types of Marketplace are kept by every step, for every set of jobs  *)
(* and workers, fanout and deadline, and the facts about queues, messages  *)
(* and single components that other proofs need too.                       *)
(***************************************************************************)
EXTENDS Marketplace, TLAPS, FiniteSetTheorems, SequenceTheorems

-----------------------------------------------------------------------------
(* Queues                                                                  *)

(* A queue without its first message holds messages it held before.        *)
LEMMA TailOfQueue ==
  ASSUME NEW S, NEW q \in Seq(S), q # <<>>
  PROVE  /\ Head(q) \in S
         /\ Has(q, Head(q))
         /\ Tail(q) \in Seq(S)
         /\ \A m : Has(Tail(q), m) => Has(q, m)
<1>1. /\ Head(q) = q[1]
      /\ Len(q) \in Nat \ {0}
      /\ Tail(q) \in Seq(S)
      /\ Len(Tail(q)) = Len(q) - 1
      /\ \A i \in 1..Len(Tail(q)) : Tail(q)[i] = q[i + 1]
  BY HeadTailProperties
<1>2. \A i \in 1..Len(Tail(q)) : i + 1 \in 1..Len(q)
  BY <1>1
<1>3. 1 \in 1..Len(q)
  BY <1>1
<1> QED BY <1>1, <1>2, <1>3 DEF Has

(* So does a queue whose last messages are lost.                           *)
LEMMA PrefixOfQueue ==
  ASSUME NEW S, NEW q \in Seq(S), NEW p \in Prefixes(q)
  PROVE  /\ p \in Seq(S)
         /\ \A m : Has(p, m) => Has(q, m)
<1>0. PICK n \in 0..Len(q) : p = SubSeq(q, 1, n)
  BY DEF Prefixes
<1> DEFINE s == SubSeq(q, 1, n)
<1>1. n \in Nat /\ Len(q) \in Nat /\ n <= Len(q)
  OBVIOUS
<1>2. \A i \in 1..n : i \in 1..Len(q) /\ q[i] \in S
  BY <1>1
<1>3. /\ s \in Seq(S)
      /\ Len(s) = IF 1 <= n THEN n - 1 + 1 ELSE 0
      /\ \A k \in 1..(n - 1 + 1) : s[k] = q[1 + k - 1]
  BY <1>1, <1>2, SubSeqProperties
<1> HIDE DEF s
<1>4. Len(s) = n /\ \A k \in 1..n : s[k] = q[k]
  BY <1>1, <1>3
<1>5. \A m : Has(s, m) => Has(q, m)
  BY <1>2, <1>4 DEF Has
<1> QED BY <1>0, <1>3, <1>5 DEF s

(* A queue that gets a message holds that and what it held before.         *)
LEMMA AppendToQueue ==
  ASSUME NEW S, NEW q \in Seq(S), NEW x \in S
  PROVE  /\ Append(q, x) \in Seq(S)
         /\ \A m : Has(Append(q, x), m) => Has(q, m) \/ m = x
<1>1. /\ Append(q, x) \in Seq(S)
      /\ Len(q) \in Nat
      /\ Len(Append(q, x)) = Len(q) + 1
      /\ \A i \in 1..Len(q) : Append(q, x)[i] = q[i]
      /\ Append(q, x)[Len(q) + 1] = x
  BY AppendProperties
<1>2. \A i \in 1..Len(q) + 1 : i \in 1..Len(q) \/ i = Len(q) + 1
  BY <1>1
<1> QED BY <1>1, <1>2 DEF Has

(* Taking the first message of a queue takes no other.                     *)
LEMMA TailKeeps ==
  ASSUME NEW S, NEW q \in Seq(S), NEW m, Has(q, m), m # Head(q)
  PROVE  Has(Tail(q), m)
<1>1. PICK i \in 1..Len(q) : q[i] = m
  BY DEF Has
<1>2. q # <<>> /\ Len(q) \in Nat
  BY <1>1
<1>3. /\ Head(q) = q[1]
      /\ Len(Tail(q)) = Len(q) - 1
      /\ \A k \in 1..Len(Tail(q)) : Tail(q)[k] = q[k + 1]
  BY <1>2, HeadTailProperties
<1>4. i - 1 \in 1..Len(Tail(q)) /\ (i - 1) + 1 = i
  BY <1>1, <1>2, <1>3
<1>5. Tail(q)[i - 1] = m
  BY <1>1, <1>3, <1>4
<1> QED BY <1>4, <1>5 DEF Has

(* Appending to a queue adds the message and keeps the others.             *)
LEMMA AppendKeeps ==
  ASSUME NEW S, NEW q \in Seq(S), NEW x \in S
  PROVE  /\ Has(Append(q, x), x)
         /\ \A m : Has(q, m) => Has(Append(q, x), m)
<1>1. /\ Len(q) \in Nat
      /\ Len(Append(q, x)) = Len(q) + 1
      /\ \A i \in 1..Len(q) : Append(q, x)[i] = q[i]
      /\ Append(q, x)[Len(q) + 1] = x
  BY AppendProperties
<1>2. /\ Len(q) + 1 \in 1..Len(Append(q, x))
      /\ \A i \in 1..Len(q) : i \in 1..Len(Append(q, x))
  BY <1>1
<1> QED BY <1>1, <1>2 DEF Has

-----------------------------------------------------------------------------
(* Types                                                                   *)

(* The parts of the type invariant, for use one by one.                    *)
LEMMA Types ==
  ASSUME TypeOK
  PROVE  /\ link \in [Worker -> {"none", "open", "closed"}]
         /\ handles \subseteq Worker
         /\ up \in [Worker -> Seq(GossipMessage)]
         /\ down \in [Worker -> Seq(GossipMessage)]
         /\ running \in BOOLEAN
         /\ jobs \in [Job -> JobStatus]
         /\ disk \in [Job -> JobStatus]
         /\ request \in [Job -> {"none", "submit", "receipt", "announce", "done", "failed"}]
         /\ pending \subseteq Job
         /\ handler \in {Idle} \cup [at : {"reply", "verify", "confirmed"}, msg : GossipMessage]
         /\ lastBlock \in 0..Len(events)
         /\ poll \in [at : {"wait", "completed", "expired"}, to : 0..Len(events)]
         /\ status \in [Worker -> [state : {"Idle", "Claiming", "Proving", "Submitting"},
                                  job : Job \cup {NoOne}]]
         /\ tasks \in [Worker -> SUBSET [at : {"prove", "submit", "receipt", "announce", "retire"},
                                         job : Job]]
         /\ crashes \in 0..MaxCrashes
BY DEF TypeOK, LinkTypeOK, CoordinatorTypeOK, IndexerTypeOK, WorkerTypeOK

(* A step of the chain keeps the types of the chain's own variables, and   *)
(* its log only grows.                                                     *)
LEMMA ChainType ==
  ASSUME TypeOK, ChainStep
  PROVE  ChainTypeOK' /\ Len(events') \in Nat /\ Len(events') >= Len(events)
<1> USE ChainAssumption
<1>1. /\ clock \in 0..MaxClock
      /\ due \in [Job -> Nat]
      /\ escrow \in [Job -> EscrowRecord]
      /\ events \in Seq(Log)
      /\ submitTx \in [Job -> TxStatus]
      /\ proofTx \in [Worker -> [Job -> TxStatus]]
  BY DEF TypeOK, ChainTypeOK
<1>2. Len(events) \in Nat
  BY <1>1
<1>3. CASE Tick
  BY <1>1, <1>2, <1>3 DEF Tick, ChainTypeOK
<1>4. ASSUME NEW j \in Job, MineSubmitJob(j)
      PROVE  ChainTypeOK' /\ events' = events
  <2>1. submitTx' \in [Job -> TxStatus]
    BY <1>1, <1>4 DEF MineSubmitJob, TxStatus
  <2>2. escrow' \in [Job -> EscrowRecord]
    <3>1. [state |-> "open", owner |-> Coordinator, deadline |-> due[j], payee |-> NoOne]
            \in EscrowRecord
      BY <1>1 DEF EscrowRecord, Account
    <3> QED BY <1>1, <1>4, <3>1 DEF MineSubmitJob, Open
  <2> QED BY <1>1, <1>4, <2>1, <2>2 DEF MineSubmitJob, ChainTypeOK
<1>5. ASSUME NEW j \in Job, NEW a \in Worker \cup {Outsider}, Pay(j, a)
      PROVE  /\ escrow' \in [Job -> EscrowRecord]
             /\ events' \in Seq(Log)
             /\ Len(events') = Len(events) + 1
  <2>1. escrow[j] \in EscrowRecord
    BY <1>1
  <2>2. [escrow[j] EXCEPT !.state = "paid", !.payee = a] \in EscrowRecord
    BY <2>1 DEF EscrowRecord, Account
  <2>3. [type |-> "JobCompleted", job |-> j, by |-> a] \in Log
    BY DEF Log
  <2> QED BY <1>1, <1>5, <2>2, <2>3 DEF Pay
<1>6. ASSUME NEW j \in Job, ExpireJob(j)
      PROVE  ChainTypeOK' /\ Len(events') = Len(events) + 1
  <2>1. escrow' \in [Job -> EscrowRecord]
    <3>1. escrow[j] \in EscrowRecord
      BY <1>1
    <3>2. [escrow[j] EXCEPT !.state = "refunded", !.payee = escrow[j].owner] \in EscrowRecord
      BY <3>1 DEF EscrowRecord
    <3> QED BY <1>1, <1>6, <3>2 DEF ExpireJob
  <2>2. /\ events' \in Seq(Log)
        /\ Len(events') = Len(events) + 1
    <3>1. [type |-> "JobExpired", job |-> j, by |-> NoOne] \in Log
      BY DEF Log
    <3> QED BY <1>1, <1>6, <3>1 DEF ExpireJob
  <2> QED BY <1>1, <1>6, <2>1, <2>2 DEF ExpireJob, ChainTypeOK
<1>7. ASSUME NEW j \in Job, ForeignJob(j)
      PROVE  ChainTypeOK' /\ events' = events
  <2>1. escrow' \in [Job -> EscrowRecord]
    <3>1. PICK deadline \in clock + 1 .. MaxClock : Open(j, Outsider, deadline)
      BY <1>7 DEF ForeignJob
    <3>2. deadline \in Nat
      BY <1>1
    <3>3. [state |-> "open", owner |-> Outsider, deadline |-> deadline, payee |-> NoOne]
            \in EscrowRecord
      BY <3>2 DEF EscrowRecord, Account
    <3> QED BY <1>1, <3>1, <3>3 DEF Open
  <2> QED BY <1>1, <1>7, <2>1 DEF ForeignJob, ChainTypeOK
<1>8. ASSUME NEW j \in Job, OutsiderProves(j)
      PROVE  ChainTypeOK' /\ Len(events') = Len(events) + 1
  BY <1>1, <1>5, <1>8 DEF OutsiderProves, ChainTypeOK
<1>9. ASSUME NEW w \in Worker, NEW j \in Job, MineSubmitProof(w, j)
      PROVE  ChainTypeOK' /\ (events' = events \/ Len(events') = Len(events) + 1)
  <2>1. proofTx' \in [Worker -> [Job -> TxStatus]]
    <3>1. PICK s \in TxStatus : proofTx' = [proofTx EXCEPT ![w][j] = s]
      BY <1>9 DEF MineSubmitProof, TxStatus
    <3>2. [proofTx[w] EXCEPT ![j] = s] \in [Job -> TxStatus]
      BY <1>1
    <3>3. proofTx' = [proofTx EXCEPT ![w] = [proofTx[w] EXCEPT ![j] = s]]
      BY <3>1
    <3> QED BY <1>1, <3>2, <3>3
  <2> QED BY <1>1, <1>5, <1>9, <2>1 DEF MineSubmitProof, ChainTypeOK
<1> QED BY <1>2, <1>3, <1>4, <1>6, <1>7, <1>8, <1>9 DEF ChainStep, Tick

(* Sending to any set of workers adds at most that message to each queue.  *)
LEMMA SendType ==
  ASSUME TypeOK, NEW targets, NEW m \in GossipMessage, SendTo(targets, m)
  PROVE  /\ down' \in [Worker -> Seq(GossipMessage)]
         /\ \A w \in Worker : \A x : Has(down'[w], x) => Has(down[w], x) \/ x = m
<1>1. down \in [Worker -> Seq(GossipMessage)]
  BY Types
<1>2. \A w \in Worker : /\ Append(down[w], m) \in Seq(GossipMessage)
                        /\ \A x : Has(Append(down[w], m), x) => Has(down[w], x) \/ x = m
  BY <1>1, AppendToQueue
<1>3. \A w \in Worker : down'[w] = Append(down[w], m) \/ down'[w] = down[w]
  BY DEF SendTo
<1>4. down' \in [Worker -> Seq(GossipMessage)]
  BY <1>1, <1>2 DEF SendTo
<1> QED BY <1>2, <1>3, <1>4

(* So does a broadcast, whichever connections it chooses.                  *)
LEMMA BroadcastType ==
  ASSUME TypeOK, NEW m \in GossipMessage, Broadcast(m)
  PROVE  /\ down' \in [Worker -> Seq(GossipMessage)]
         /\ \A w \in Worker : \A x : Has(down'[w], x) => Has(down[w], x) \/ x = m
<1>1. PICK targets \in Targets : SendTo(targets, m)
  BY DEF Broadcast
<1> QED BY <1>1, SendType

(* A worker sends to its own queue.                                        *)
LEMMA SendUpType ==
  ASSUME TypeOK, NEW w \in Worker, NEW m \in GossipMessage, SendUp(w, m)
  PROVE  up' \in [Worker -> Seq(GossipMessage)]
<1>1. up \in [Worker -> Seq(GossipMessage)]
  BY Types
<1>2. Append(up[w], m) \in Seq(GossipMessage)
  BY <1>1, AppendToQueue
<1> QED BY <1>1, <1>2 DEF SendUp

(* Connections come and go, and queues only lose messages.                 *)
LEMMA NetworkType ==
  ASSUME TypeOK, NEW w \in Worker, Connect(w) \/ Lose(w) \/ Disconnect(w)
  PROVE  /\ LinkTypeOK'
         /\ \A v \in Worker : \A x : Has(down'[v], x) => Has(down[v], x)
<1>1. /\ link \in [Worker -> {"none", "open", "closed"}]
      /\ handles \subseteq Worker
      /\ up \in [Worker -> Seq(GossipMessage)]
      /\ down \in [Worker -> Seq(GossipMessage)]
  BY Types
<1>2. CASE Connect(w)
  BY <1>1, <1>2 DEF Connect, LinkTypeOK
<1>3. CASE Lose(w)
  <2>1. CASE up[w] # <<>> /\ up' = [up EXCEPT ![w] = Tail(@)] /\ UNCHANGED down
    <3>1. Tail(up[w]) \in Seq(GossipMessage)
      BY <1>1, <2>1, TailOfQueue
    <3> QED BY <1>1, <1>3, <2>1, <3>1 DEF Lose, LinkTypeOK
  <2>2. CASE down[w] # <<>> /\ down' = [down EXCEPT ![w] = Tail(@)] /\ UNCHANGED up
    <3>1. /\ Tail(down[w]) \in Seq(GossipMessage)
          /\ \A x : Has(Tail(down[w]), x) => Has(down[w], x)
      BY <1>1, <2>2, TailOfQueue
    <3> QED BY <1>1, <1>3, <2>2, <3>1 DEF Lose, LinkTypeOK
  <2> QED BY <1>3, <2>1, <2>2 DEF Lose
<1>4. CASE Disconnect(w)
  <2>1. PICK u \in Prefixes(up[w]), d \in Prefixes(down[w]) :
          /\ up' = [up EXCEPT ![w] = u]
          /\ down' = [down EXCEPT ![w] = d]
    BY <1>4 DEF Disconnect
  <2>2. u \in Seq(GossipMessage)
    BY <1>1, PrefixOfQueue
  <2>3. d \in Seq(GossipMessage) /\ \A x : Has(d, x) => Has(down[w], x)
    BY <1>1, PrefixOfQueue
  <2>4. up' \in [Worker -> Seq(GossipMessage)] /\ down' \in [Worker -> Seq(GossipMessage)]
    BY <1>1, <2>1, <2>2, <2>3
  <2>5. \A v \in Worker : \A x : Has(down'[v], x) => Has(down[v], x)
    BY <1>1, <2>1, <2>3
  <2> QED BY <1>1, <1>4, <2>4, <2>5 DEF Disconnect, LinkTypeOK
<1> QED BY <1>2, <1>3, <1>4

(* Statuses and messages are built of parts of the right types.            *)
LEMMA Constructors ==
  /\ Absent \in JobStatus /\ Pending \in JobStatus /\ Expired \in JobStatus
  /\ \A a \in Worker \cup {Outsider, NoOne} : Completed(a) \in JobStatus
  /\ \A a \in Worker \cup {NoOne} : Assigned(a) \in JobStatus
  /\ \A j \in Job : JobAvailable(j) \in GossipMessage /\ ClaimRejected(j) \in GossipMessage
  /\ \A j \in Job, w \in Worker \cup {NoOne} :
       /\ ClaimJob(j, w) \in GossipMessage
       /\ ClaimAccepted(j, w) \in GossipMessage
       /\ JobCompleted(j, w) \in GossipMessage
BY DEF Absent, Pending, Expired, Completed, Assigned, JobStatus, JobAvailable, ClaimRejected,
       ClaimJob, ClaimAccepted, JobCompleted, GossipMessage

(* The handler takes one message off a queue.                              *)
LEMMA ReceiveType ==
  ASSUME TypeOK, NEW w \in Worker, NEW type, Receive(w, type)
  PROVE  /\ up' \in [Worker -> Seq(GossipMessage)]
         /\ Head(up[w]) \in GossipMessage
         /\ Head(up[w]).job \in Job
         /\ Head(up[w]).by \in Worker \cup {NoOne}
<1>1. up \in [Worker -> Seq(GossipMessage)]
  BY Types
<1>2. Head(up[w]) \in GossipMessage /\ Tail(up[w]) \in Seq(GossipMessage)
  BY <1>1, TailOfQueue DEF Receive
<1>3. up' \in [Worker -> Seq(GossipMessage)]
  BY <1>1, <1>2 DEF Receive
<1> QED BY <1>2, <1>3 DEF GossipMessage

(* A step of the coordinator keeps the types of all it can change, and     *)
(* leaves the log alone.                                                   *)
LEMMA CoordinatorType ==
  ASSUME TypeOK, CoordinatorStep
  PROVE  ChainTypeOK' /\ LinkTypeOK' /\ CoordinatorTypeOK' /\ events' = events
<1> DEFINE Goal == ChainTypeOK' /\ LinkTypeOK' /\ CoordinatorTypeOK' /\ events' = events
<1>1. /\ ChainTypeOK
      /\ LinkTypeOK
      /\ CoordinatorTypeOK
  BY DEF TypeOK
<1>2. UNCHANGED chainVars => ChainTypeOK' /\ events' = events
  BY <1>1 DEF chainVars, ChainTypeOK
<1>3. UNCHANGED linkVars => LinkTypeOK'
  BY <1>1 DEF linkVars, LinkTypeOK
<1>4. ASSUME NEW j \in Job, CreateJob(j)
      PROVE  Goal
  <2>1. clock + DefaultDeadline \in Nat
    BY <1>1, ChainAssumption, CoordinatorAssumption DEF ChainTypeOK
  <2>2. due' \in [Job -> Nat]
    BY <1>1, <1>4, <2>1 DEF CreateJob, ChainTypeOK
  <2>3. ChainTypeOK' /\ events' = events
    BY <1>1, <1>4, <2>2 DEF CreateJob, ChainTypeOK
  <2>4. CoordinatorTypeOK'
    BY <1>1, <1>4, Constructors DEF CreateJob, Insert, CoordinatorTypeOK
  <2> QED BY <1>3, <1>4, <2>3, <2>4 DEF CreateJob
<1>5. ASSUME NEW j \in Job, SendSubmitJob(j)
      PROVE  Goal
  <2>1. ChainTypeOK' /\ events' = events
    BY <1>1, <1>5 DEF SendSubmitJob, ChainTypeOK, TxStatus
  <2>2. CoordinatorTypeOK'
    BY <1>1, <1>5 DEF SendSubmitJob, CoordinatorTypeOK
  <2> QED BY <1>3, <1>5, <2>1, <2>2 DEF SendSubmitJob
<1>6. ASSUME NEW j \in Job, SubmitJobReceipt(j)
      PROVE  Goal
  <2>1. CoordinatorTypeOK'
    BY <1>1, <1>6, Constructors DEF SubmitJobReceipt, Insert, CoordinatorTypeOK
  <2> QED BY <1>2, <1>3, <1>6, <2>1 DEF SubmitJobReceipt
<1>7. ASSUME NEW j \in Job, FailRequest(j)
      PROVE  Goal
  <2>1. CoordinatorTypeOK'
    BY <1>1, <1>7 DEF FailRequest, CoordinatorTypeOK
  <2> QED BY <1>2, <1>3, <1>7, <2>1 DEF FailRequest
<1>8. ASSUME NEW j \in Job, AnnounceJob(j)
      PROVE  Goal
  <2>1. CoordinatorTypeOK'
    BY <1>1, <1>8 DEF AnnounceJob, CoordinatorTypeOK
  <2>2. LinkTypeOK'
    BY <1>1, <1>8, Constructors, BroadcastType DEF AnnounceJob, LinkTypeOK
  <2> QED BY <1>2, <1>8, <2>1, <2>2 DEF AnnounceJob
<1>9. ASSUME NEW j \in Job, RebroadcastJob(j)
      PROVE  Goal
  <2>1. CoordinatorTypeOK'
    BY <1>1, <1>9 DEF RebroadcastJob, CoordinatorTypeOK
  <2>2. LinkTypeOK'
    BY <1>1, <1>9, Constructors, BroadcastType DEF RebroadcastJob, LinkTypeOK
  <2> QED BY <1>2, <1>9, <2>1, <2>2 DEF RebroadcastJob
<1>10. ASSUME NEW w \in Worker, HandleClaim(w)
       PROVE  Goal
  <2>1. /\ up' \in [Worker -> Seq(GossipMessage)]
        /\ Head(up[w]).job \in Job
        /\ Head(up[w]).by \in Worker \cup {NoOne}
    BY <1>10, ReceiveType DEF HandleClaim
  <2>2. LinkTypeOK'
    BY <1>1, <1>10, <2>1 DEF HandleClaim, LinkTypeOK
  <2>3. jobs' \in [Job -> JobStatus]
    BY <1>1, <1>10, <2>1, Constructors DEF HandleClaim, CoordinatorTypeOK
  <2>4. handler' \in [at : {"reply", "verify", "confirmed"}, msg : GossipMessage]
    BY <1>10, <2>1, Constructors DEF HandleClaim
  <2>5. CoordinatorTypeOK'
    BY <1>1, <1>10, <2>3, <2>4 DEF HandleClaim, CoordinatorTypeOK
  <2> QED BY <1>2, <1>10, <2>2, <2>5 DEF HandleClaim
<1>11. ASSUME NEW w \in Worker, HandleJobCompleted(w)
       PROVE  Goal
  <2>1. /\ up' \in [Worker -> Seq(GossipMessage)]
        /\ Head(up[w]) \in GossipMessage
    BY <1>11, ReceiveType DEF HandleJobCompleted
  <2>2. LinkTypeOK'
    BY <1>1, <1>11, <2>1 DEF HandleJobCompleted, LinkTypeOK
  <2>3. CoordinatorTypeOK'
    BY <1>1, <1>11, <2>1 DEF HandleJobCompleted, CoordinatorTypeOK, Idle
  <2> QED BY <1>2, <1>11, <2>2, <2>3 DEF HandleJobCompleted
<1>12. CASE ReplyToClaim
  <2>1. CoordinatorTypeOK'
    BY <1>1, <1>12 DEF ReplyToClaim, CoordinatorTypeOK, Idle
  <2>2. handler.msg \in GossipMessage
    BY <1>1, <1>12 DEF ReplyToClaim, CoordinatorTypeOK, Idle
  <2>3. LinkTypeOK'
    BY <1>1, <1>12, <2>2, BroadcastType DEF ReplyToClaim, LinkTypeOK
  <2> QED BY <1>2, <1>12, <2>1, <2>3 DEF ReplyToClaim
<1>13. CASE VerifyOnChain
  <2>1. /\ handler.msg \in GossipMessage
        /\ handler \in [at : {"reply", "verify", "confirmed"}, msg : GossipMessage]
    BY <1>1, <1>13 DEF VerifyOnChain, CoordinatorTypeOK, Idle
  <2>2. CoordinatorTypeOK'
    BY <1>1, <1>13, <2>1 DEF VerifyOnChain, CoordinatorTypeOK
  <2> QED BY <1>2, <1>3, <1>13, <2>2 DEF VerifyOnChain
<1>14. CASE MarkCompleted
  <2>1. handler.msg.job \in Job /\ handler.msg.by \in Worker \cup {NoOne}
    BY <1>1, <1>14 DEF MarkCompleted, CoordinatorTypeOK, Idle, GossipMessage
  <2>2. jobs' \in [Job -> JobStatus]
    BY <1>1, <1>14, <2>1, Constructors DEF MarkCompleted, CoordinatorTypeOK, CompletedUnlessDone
  <2>3. CoordinatorTypeOK'
    BY <1>1, <1>14, <2>2 DEF MarkCompleted, CoordinatorTypeOK
  <2> QED BY <1>2, <1>3, <1>14, <2>3 DEF MarkCompleted
<1>15. CASE CollectPending
  <2>1. CoordinatorTypeOK'
    BY <1>1, <1>15 DEF CollectPending, CoordinatorTypeOK
  <2> QED BY <1>2, <1>3, <1>15, <2>1 DEF CollectPending
<1>16. CASE SaveJobs
  <2>1. CoordinatorTypeOK'
    BY <1>1, <1>16 DEF SaveJobs, CoordinatorTypeOK
  <2> QED BY <1>2, <1>3, <1>16, <2>1 DEF SaveJobs
<1> QED
  BY <1>4, <1>5, <1>6, <1>7, <1>8, <1>9, <1>10, <1>11, <1>12, <1>13, <1>14, <1>15, <1>16
  DEF CoordinatorStep, SubmitJobError, AbandonRequest

(* A step of the indexer keeps the types of the job map and its own, and   *)
(* leaves everything else alone.                                           *)
LEMMA IndexerType ==
  ASSUME TypeOK, IndexerStep
  PROVE  /\ CoordinatorTypeOK' /\ IndexerTypeOK'
         /\ UNCHANGED <<chainVars, linkVars, running, disk, request, pending, handler>>
<1> DEFINE Goal ==
      /\ CoordinatorTypeOK' /\ IndexerTypeOK'
      /\ UNCHANGED <<chainVars, linkVars, running, disk, request, pending, handler>>
<1>1. /\ CoordinatorTypeOK
      /\ lastBlock \in 0..Len(events)
      /\ poll \in [at : {"wait", "completed", "expired"}, to : 0..Len(events)]
      /\ events \in Seq(Log)
      /\ Len(events) \in Nat
  BY DEF TypeOK, IndexerTypeOK, ChainTypeOK
<1>2. Waiting \in [at : {"wait", "completed", "expired"}, to : 0..Len(events)]
  BY <1>1 DEF Waiting
<1>3. UNCHANGED coordinatorVars => CoordinatorTypeOK'
  BY <1>1 DEF coordinatorVars, CoordinatorTypeOK
<1>4. CASE StartPoll
  <2>1. [at |-> "completed", to |-> Len(events)]
          \in [at : {"wait", "completed", "expired"}, to : 0..Len(events)]
    BY <1>1
  <2> QED BY <1>1, <1>3, <1>4, <2>1 DEF StartPoll, IndexerTypeOK, chainVars, coordinatorVars
<1>5. CASE ProcessJobCompletedEvents
  <2> DEFINE settled(j) == {e \in LogsOf("JobCompleted") : e.job = j}
             by(j) == (CHOOSE e \in settled(j) : TRUE).by
  <2>1. LogsOf("JobCompleted") \subseteq Log
    BY <1>1 DEF LogsOf
  <2>2. \A j \in Job : settled(j) # {} => by(j) \in Worker \cup {Outsider, NoOne}
    BY <2>1 DEF Log
  <2>3. jobs' = [j \in Job |-> IF settled(j) = {} THEN jobs[j] ELSE NoteCompleted(jobs[j], by(j))]
    BY <1>5 DEF ProcessJobCompletedEvents
  <2> HIDE DEF settled, by
  <2>4. jobs' \in [Job -> JobStatus]
    BY <1>1, <2>2, <2>3, Constructors DEF CoordinatorTypeOK, NoteCompleted
  <2>5. CoordinatorTypeOK'
    BY <1>1, <1>5, <2>4 DEF ProcessJobCompletedEvents, CoordinatorTypeOK
  <2>6. IndexerTypeOK'
    BY <1>1, <1>5 DEF ProcessJobCompletedEvents, IndexerTypeOK, chainVars
  <2> QED BY <1>5, <2>5, <2>6 DEF ProcessJobCompletedEvents
<1>6. CASE ProcessJobExpiredEvents
  <2>1. jobs' \in [Job -> JobStatus]
    BY <1>1, <1>6, Constructors DEF ProcessJobExpiredEvents, CoordinatorTypeOK, NoteExpired
  <2>2. CoordinatorTypeOK'
    BY <1>1, <1>6, <2>1 DEF ProcessJobExpiredEvents, CoordinatorTypeOK
  <2>3. IndexerTypeOK'
    BY <1>1, <1>2, <1>6 DEF ProcessJobExpiredEvents, IndexerTypeOK, Processed, chainVars
  <2> QED BY <1>6, <2>2, <2>3 DEF ProcessJobExpiredEvents
<1>7. CASE PollFails
  BY <1>1, <1>2, <1>3, <1>7 DEF PollFails, IndexerTypeOK, chainVars, coordinatorVars
<1> QED BY <1>4, <1>5, <1>6, <1>7 DEF IndexerStep

(* A step of a task of a worker moves it on or ends it.                    *)
LEMMA TaskType ==
  ASSUME TypeOK, NEW w \in Worker, NEW t \in tasks[w], NEW at,
         at \in {"submit", "receipt", "announce", "retire"}
  PROVE  /\ t.job \in Job
         /\ Moves(w, t, at) \/ Ends(w, t) =>
              tasks' \in [Worker -> SUBSET [at : {"prove", "submit", "receipt", "announce", "retire"},
                                            job : Job]]
<1> DEFINE T == [at : {"prove", "submit", "receipt", "announce", "retire"}, job : Job]
<1>1. tasks \in [Worker -> SUBSET T]
  BY Types
<1>2. t.job \in Job
  BY <1>1
<1>3. Task(at, t.job) \in T
  BY <1>2 DEF Task
<1>4. /\ (tasks[w] \ {t}) \cup {Task(at, t.job)} \in SUBSET T
      /\ tasks[w] \ {t} \in SUBSET T
  BY <1>1, <1>3
<1> HIDE DEF T
<1>5. Moves(w, t, at) \/ Ends(w, t) => tasks' \in [Worker -> SUBSET T]
  BY <1>1, <1>4 DEF Moves, Ends
<1> QED BY <1>2, <1>5 DEF T

(* A step of a worker keeps the types of the links, the transactions and   *)
(* its own variables.                                                      *)
LEMMA WorkerType ==
  ASSUME TypeOK, NEW w \in Worker, WorkerStep(w)
  PROVE  ChainTypeOK' /\ LinkTypeOK' /\ WorkerTypeOK' /\ events' = events
<1> DEFINE S == [state : {"Idle", "Claiming", "Proving", "Submitting"}, job : Job \cup {NoOne}]
           T == [at : {"prove", "submit", "receipt", "announce", "retire"}, job : Job]
           Goal == ChainTypeOK' /\ LinkTypeOK' /\ WorkerTypeOK' /\ events' = events
<1>1. /\ ChainTypeOK
      /\ LinkTypeOK
      /\ status \in [Worker -> S]
      /\ tasks \in [Worker -> SUBSET T]
      /\ up \in [Worker -> Seq(GossipMessage)]
      /\ down \in [Worker -> Seq(GossipMessage)]
  BY Types DEF TypeOK
<1>2. /\ UNCHANGED chainVars => ChainTypeOK' /\ events' = events
      /\ UNCHANGED linkVars => LinkTypeOK'
  BY <1>1 DEF chainVars, linkVars, ChainTypeOK, LinkTypeOK
<1>3. /\ NoJob \in S
      /\ \A j \in Job : /\ Holding("Claiming", j) \in S
                        /\ Holding("Proving", j) \in S
                        /\ Holding("Submitting", j) \in S
                        /\ Task("prove", j) \in T
  BY DEF NoJob, Holding, Task
<1>4. \A s \in S : SetStatus(w, s) => status' \in [Worker -> S]
  BY <1>1 DEF SetStatus
<1>5. \A j, states : Release(w, j, states) => status' \in [Worker -> S]
  BY <1>1, <1>3, <1>4 DEF Release
<1>6. status' \in [Worker -> S] /\ tasks' \in [Worker -> SUBSET T] => WorkerTypeOK'
  BY DEF WorkerTypeOK
<1>7. ASSUME NEW type, Take(w, type)
      PROVE  /\ down' \in [Worker -> Seq(GossipMessage)]
             /\ Head(down[w]) \in GossipMessage
             /\ Head(down[w]).job \in Job
  <2>1. Head(down[w]) \in GossipMessage /\ Tail(down[w]) \in Seq(GossipMessage)
    BY <1>1, <1>7, TailOfQueue DEF Take
  <2>2. down' \in [Worker -> Seq(GossipMessage)]
    BY <1>1, <1>7, <2>1 DEF Take
  <2> QED BY <2>1, <2>2 DEF GossipMessage
<1> HIDE DEF S, T
<1>8. CASE HandleJobAvailable(w)
  <2> DEFINE j == Head(down[w]).job
  <2>1. down' \in [Worker -> Seq(GossipMessage)] /\ j \in Job
    BY <1>7, <1>8 DEF HandleJobAvailable
  <2>2. up' \in [Worker -> Seq(GossipMessage)]
    <3>1. ClaimJob(j, w) \in GossipMessage
      BY <2>1, Constructors
    <3> QED BY <1>1, <1>8, <3>1, SendUpType DEF HandleJobAvailable
  <2>3. status' \in [Worker -> S]
    BY <1>1, <1>3, <1>4, <1>8, <2>1 DEF HandleJobAvailable
  <2>4. LinkTypeOK'
    BY <1>1, <1>8, <2>1, <2>2 DEF HandleJobAvailable, LinkTypeOK
  <2> QED BY <1>1, <1>2, <1>6, <1>8, <2>3, <2>4 DEF HandleJobAvailable
<1>9. CASE HandleClaimAccepted(w)
  <2> DEFINE m == Head(down[w])
  <2>1. down' \in [Worker -> Seq(GossipMessage)] /\ m.job \in Job
    BY <1>7, <1>9 DEF HandleClaimAccepted
  <2>2. LinkTypeOK'
    BY <1>1, <1>9, <2>1 DEF HandleClaimAccepted, LinkTypeOK
  <2>3. Accept(w, m) \/ UNCHANGED workerVars
    BY <1>9 DEF HandleClaimAccepted
  <2> HIDE DEF m
  <2>4. status' \in [Worker -> S]
    BY <1>1, <1>3, <1>4, <2>1, <2>3 DEF Accept, workerVars
  <2>5. tasks' \in [Worker -> SUBSET T]
    <3>1. tasks[w] \cup {Task("prove", m.job)} \in SUBSET T
      BY <1>1, <1>3, <2>1
    <3> QED BY <1>1, <2>3, <3>1 DEF Accept, workerVars
  <2>6. UNCHANGED chainVars
    BY <1>9 DEF HandleClaimAccepted
  <2> QED BY <1>2, <1>6, <2>2, <2>4, <2>5, <2>6
<1>10. CASE HandleClaimRejected(w)
  <2>1. down' \in [Worker -> Seq(GossipMessage)]
    BY <1>7, <1>10 DEF HandleClaimRejected
  <2>2. LinkTypeOK'
    BY <1>1, <1>10, <2>1 DEF HandleClaimRejected, LinkTypeOK
  <2>3. status' \in [Worker -> S]
    BY <1>1, <1>3, <1>4, <1>10 DEF HandleClaimRejected
  <2> QED BY <1>1, <1>2, <1>6, <1>10, <2>2, <2>3 DEF HandleClaimRejected
<1>11. ASSUME NEW t \in tasks[w], TaskStep(w, t)
       PROVE  Goal
  <2>1. t.job \in Job
    BY TaskType
  <2>2. /\ Moves(w, t, "submit") => tasks' \in [Worker -> SUBSET T]
        /\ Moves(w, t, "receipt") => tasks' \in [Worker -> SUBSET T]
        /\ Moves(w, t, "announce") => tasks' \in [Worker -> SUBSET T]
        /\ Moves(w, t, "retire") => tasks' \in [Worker -> SUBSET T]
        /\ Ends(w, t) => tasks' \in [Worker -> SUBSET T]
    BY TaskType DEF T
  <2>3. CASE ProvingEnds(w, t)
    BY <1>1, <1>2, <1>3, <1>4, <1>6, <2>1, <2>2, <2>3 DEF ProvingEnds
  <2>4. CASE ProvingFails(w, t)
    BY <1>2, <1>5, <1>6, <2>2, <2>4 DEF ProvingFails
  <2>5. CASE SendSubmitProof(w, t)
    <3>1. proofTx' \in [Worker -> [Job -> TxStatus]]
      <4>1. [proofTx[w] EXCEPT ![t.job] = "pending"] \in [Job -> TxStatus]
        BY <1>1 DEF ChainTypeOK, TxStatus
      <4>2. proofTx' = [proofTx EXCEPT ![w] = [proofTx[w] EXCEPT ![t.job] = "pending"]]
        BY <2>5 DEF SendSubmitProof
      <4> QED BY <1>1, <4>1, <4>2 DEF ChainTypeOK
    <3>2. ChainTypeOK' /\ events' = events
      BY <1>1, <2>5, <3>1 DEF SendSubmitProof, ChainTypeOK
    <3> QED BY <1>1, <1>2, <1>6, <2>2, <2>5, <3>2 DEF SendSubmitProof
  <2>6. CASE SubmitProofReceipt(w, t)
    BY <1>1, <1>2, <1>6, <2>2, <2>6 DEF SubmitProofReceipt
  <2>7. CASE SubmitProofError(w, t)
    BY <1>2, <1>5, <1>6, <2>2, <2>7 DEF SubmitProofError, TransitionToIdle
  <2>8. CASE AnnounceCompletion(w, t)
    <3>1. JobCompleted(t.job, w) \in GossipMessage
      BY <2>1, Constructors
    <3>2. LinkTypeOK'
      BY <1>1, <2>8, <3>1, SendUpType DEF AnnounceCompletion, LinkTypeOK
    <3> QED BY <1>1, <1>2, <1>6, <2>2, <2>8, <3>2 DEF AnnounceCompletion
  <2>9. CASE Retire(w, t)
    BY <1>2, <1>5, <1>6, <2>2, <2>9 DEF Retire, TransitionToIdle
  <2> QED BY <1>11, <2>3, <2>4, <2>5, <2>6, <2>7, <2>8, <2>9 DEF TaskStep
<1> QED BY <1>8, <1>9, <1>10, <1>11 DEF WorkerStep, HandleMessage

(* The system starts with every variable in its type.                      *)
LEMMA InitType ==
  Init => TypeOK
<1> SUFFICES ASSUME Init
             PROVE  TypeOK
  OBVIOUS
<1>1. ChainTypeOK
  <2>1. Contract!Nothing \in EscrowRecord
    BY DEF Contract!Nothing, EscrowRecord, Account
  <2>2. <<>> \in Seq(Log)
    OBVIOUS
  <2> QED BY <2>1, <2>2, ChainAssumption DEF Init, ChainInit, ChainTypeOK, TxStatus
<1>2. LinkTypeOK
  <2>1. <<>> \in Seq(GossipMessage)
    OBVIOUS
  <2> QED BY <2>1 DEF Init, LinkInit, LinkTypeOK
<1>3. CoordinatorTypeOK
  BY Constructors DEF Init, CoordinatorInit, CoordinatorTypeOK
<1>4. IndexerTypeOK
  <2>1. Len(events) = 0
    BY DEF Init, ChainInit
  <2> QED BY <2>1 DEF Init, IndexerInit, IndexerTypeOK, Waiting
<1>5. WorkerTypeOK
  BY DEF Init, WorkerInit, WorkerTypeOK, NoJob
<1>6. crashes \in 0..MaxCrashes
  BY CrashAssumption DEF Init
<1> QED BY <1>1, <1>2, <1>3, <1>4, <1>5, <1>6 DEF TypeOK

(* Every step of the system keeps the types, and the log only grows.       *)
LEMMA StepType ==
  TypeOK /\ [Next]_vars => TypeOK'
<1> SUFFICES ASSUME TypeOK, [Next]_vars
             PROVE  TypeOK'
  OBVIOUS
<1>1. /\ ChainTypeOK /\ LinkTypeOK /\ CoordinatorTypeOK /\ IndexerTypeOK /\ WorkerTypeOK
      /\ crashes \in 0..MaxCrashes
  BY DEF TypeOK
<1>2. /\ UNCHANGED linkVars => LinkTypeOK'
      /\ UNCHANGED coordinatorVars => CoordinatorTypeOK'
      /\ UNCHANGED workerVars => WorkerTypeOK'
      /\ UNCHANGED crashes => (crashes \in 0..MaxCrashes)'
  BY <1>1 DEF linkVars, LinkTypeOK, coordinatorVars, CoordinatorTypeOK, workerVars, WorkerTypeOK
<1>3. UNCHANGED chainVars => ChainTypeOK' /\ events' = events
  BY <1>1 DEF chainVars, ChainTypeOK
<1>4. Len(events) \in Nat
  BY <1>1 DEF ChainTypeOK
<1>5. Len(events') \in Nat /\ Len(events') >= Len(events) /\ UNCHANGED indexerVars => IndexerTypeOK'
  BY <1>1, <1>4 DEF IndexerTypeOK, indexerVars
<1>6. CASE UNCHANGED vars
  BY <1>2, <1>3, <1>4, <1>5, <1>6 DEF vars, TypeOK
<1>7. CASE OfChain(ChainStep)
  BY <1>2, <1>5, <1>7, ChainType DEF OfChain, TypeOK
<1>8. CASE OfNetwork(Network)
  BY <1>2, <1>3, <1>4, <1>5, <1>8, NetworkType DEF OfNetwork, Network, TypeOK
<1>9. CASE OfCoordinator(CoordinatorStep)
  BY <1>2, <1>4, <1>5, <1>9, CoordinatorType DEF OfCoordinator, TypeOK
<1>10. CASE OfIndexer(IndexerStep)
  BY <1>2, <1>3, <1>10, IndexerType DEF OfIndexer, TypeOK
<1>11. ASSUME NEW w \in Worker, OfWorker(WorkerStep(w))
       PROVE  TypeOK'
  BY <1>2, <1>4, <1>5, <1>11, WorkerType DEF OfWorker, TypeOK
<1>12. CASE Crash
  <2>1. LinkTypeOK'
    <3>1. PICK d \in [Worker -> UNION {Prefixes(down[w]) : w \in Worker}] :
            /\ \A w \in Worker : d[w] \in Prefixes(down[w])
            /\ down' = d
      BY <1>12 DEF Crash
    <3>2. down \in [Worker -> Seq(GossipMessage)]
      BY Types
    <3>3. \A w \in Worker : d[w] \in Seq(GossipMessage)
      BY <3>1, <3>2, PrefixOfQueue
    <3>4. down' \in [Worker -> Seq(GossipMessage)]
      BY <3>1, <3>3
    <3>5. up' \in [Worker -> Seq(GossipMessage)]
      BY <1>12 DEF Crash
    <3> QED BY <1>1, <1>12, <3>4, <3>5 DEF Crash, LinkTypeOK
  <2>2. CoordinatorTypeOK'
    BY <1>1, <1>12, Constructors DEF Crash, CoordinatorTypeOK
  <2>3. IndexerTypeOK'
    BY <1>1, <1>4, <1>12 DEF Crash, IndexerTypeOK, Waiting, chainVars
  <2>4. (crashes \in 0..MaxCrashes)'
    BY <1>1, <1>12, CrashAssumption DEF Crash
  <2> QED BY <1>2, <1>3, <1>12, <2>1, <2>2, <2>3, <2>4 DEF Crash, TypeOK
<1>13. CASE Restart
  <2>1. CoordinatorTypeOK'
    BY <1>1, <1>13 DEF Restart, CoordinatorTypeOK
  <2>2. IndexerTypeOK'
    BY <1>1, <1>4, <1>13 DEF Restart, IndexerTypeOK, chainVars
  <2> QED BY <1>2, <1>3, <1>13, <2>1, <2>2 DEF Restart, TypeOK
<1> QED BY <1>6, <1>7, <1>8, <1>9, <1>10, <1>11, <1>12, <1>13 DEF Next

(* Every variable of the coordinator, its indexer, the workers, the links  *)
(* and the chain keeps its type, crashes and lost messages included.       *)
THEOREM TypeCorrect == Spec => []TypeOK
<1>1. Init => TypeOK
  BY InitType
<1>2. TypeOK /\ [Next]_vars => TypeOK'
  BY StepType
<1> QED BY <1>1, <1>2, PTL DEF Spec
=============================================================================
