-------------------------- MODULE JobRegistryProofs --------------------------
(***************************************************************************)
(* Theorems about JobRegistry, for every set of jobs, accounts, contracts, *)
(* payloads and rewards, every verifier, and calls nested to any depth.    *)
(***************************************************************************)
EXTENDS JobRegistry, FiniteSums, TLAPS, FiniteSetTheorems, SequenceTheorems

-----------------------------------------------------------------------------
(* Types                                                                   *)

(* A job record, an event and a call made of parts of the right types have *)
(* the right type.                                                         *)
LEMMA SnapshotType ==
  ASSUME TypeOK
  PROVE  /\ jobs \in [Job -> JobRecord]
         /\ completed \in [Job -> BOOLEAN]
         /\ balance \in Nat
         /\ wallet \in [Account -> Nat]
         /\ events \in Seq(EventRecord)
BY DEF TypeOK, Snapshot, Storage

(* The owner of a submitted job is an account and its reward a number.     *)
LEMMA SubmittedJobType ==
  ASSUME TypeOK, NEW j \in Job, jobs[j].exists
  PROVE  /\ jobs[j].owner \in Account
         /\ jobs[j].payload \in Payload
         /\ jobs[j].reward \in Nat
         /\ jobs[j].deadline \in Nat
<1>1. jobs[j] \in JobRecord
  BY SnapshotType
<1>2. jobs[j] # NullJob
  BY DEF NullJob
<1> QED BY <1>1, <1>2 DEF JobRecord

(* Settling a job keeps every variable in its type.                        *)
LEMMA SettleType ==
  ASSUME ConstantsAssumption, TypeOK, NEW j \in Job, jobs[j].exists,
         NEW to \in Account, NEW event \in EventRecord,
         Settle(to, j, event)
  PROVE  TypeOK'
<1>1. jobs[j].reward \in Nat
  BY SubmittedJobType
<1>2. completed' \in [Job -> BOOLEAN]
  BY SnapshotType DEF Settle, Marked
<1>3. balance' \in Nat
  BY <1>1, SnapshotType DEF Settle
<1>4. wallet' \in [Account -> Nat]
  BY <1>1, SnapshotType DEF Settle
<1>5. calls' \in Seq(CallRecord)
  <2>1. [event |-> event, to |-> to, entry |-> Snapshot] \in CallRecord
    BY DEF CallRecord, TypeOK
  <2> QED BY <2>1 DEF Settle, TypeOK
<1>6. Snapshot' \in Storage
  BY <1>2, <1>3, <1>4, SnapshotType DEF Snapshot, Storage, Settle
<1> QED BY <1>5, <1>6 DEF TypeOK, Settle

(* Removing the innermost call leaves the ones below it as they were.      *)
LEMMA PopCalls ==
  ASSUME TypeOK, calls # <<>>, calls' = SubSeq(calls, 1, Len(calls) - 1)
  PROVE  /\ calls' \in Seq(CallRecord)
         /\ Len(calls) \in Nat \ {0}
         /\ Len(calls') = Len(calls) - 1
         /\ \A k \in 1..Len(calls') : calls'[k] = calls[k]
         /\ Top \in CallRecord
<1>1. calls \in Seq(CallRecord) /\ Len(calls) \in Nat \ {0}
  BY DEF TypeOK
<1>2. \A i \in 1..Len(calls) : calls[i] \in CallRecord
  BY <1>1
<1>3. /\ calls' \in Seq(CallRecord)
      /\ Len(calls') = Len(calls) - 1
      /\ \A k \in 1..Len(calls') : calls'[k] = calls[k]
  <2> DEFINE n == Len(calls) - 1
             s == SubSeq(calls, 1, n)
  <2>1. n \in Nat
    BY <1>1
  <2>2. \A i \in 1..n : calls[i] \in CallRecord
    BY <1>1, <1>2
  <2> HIDE DEF n
  <2>3. /\ s \in Seq(CallRecord)
        /\ Len(s) = IF 1 <= n THEN n - 1 + 1 ELSE 0
        /\ \A k \in 1..(n - 1 + 1) : s[k] = calls[1 + k - 1]
    BY <2>1, <2>2, SubSeqProperties
  <2> HIDE DEF s
  <2>4. Len(s) = n /\ \A k \in 1..n : s[k] = calls[k]
    BY <2>1, <2>3
  <2> QED BY <2>3, <2>4 DEF n, s
<1> QED BY <1>1, <1>2, <1>3 DEF Top

(* Every variable keeps its type, whatever the recipients do.              *)
THEOREM TypeCorrect == Spec => []TypeOK
<1>1. Init => TypeOK
  BY ConstantsAssumption DEF Init, TypeOK, Snapshot, Storage, JobRecord
<1>2. ASSUME TypeOK, [Next]_vars
      PROVE  TypeOK'
  <2> USE ConstantsAssumption
  <2>1. CASE Tick
    BY <1>2, <2>1 DEF Tick, TypeOK, Snapshot, storage
  <2>2. ASSUME NEW j \in Job, NEW p \in Payload, GuestRuns(j, p)
        PROVE  TypeOK'
    BY <1>2, <2>2 DEF GuestRuns, TypeOK, Snapshot, storage
  <2>3. ASSUME NEW a \in Account, NEW j \in Job, NEW p \in Payload, NEW value \in Reward,
               NEW deadline \in 0..MaxClock, SubmitJob(a, j, p, value, deadline)
        PROVE  TypeOK'
    <3>1. value \in Nat \ {0} /\ wallet[a] >= value
      BY <2>3 DEF SubmitJob, Accepts
    <3>2. [owner |-> a, payload |-> p, reward |-> value, deadline |-> deadline,
           exists |-> TRUE] \in JobRecord
      BY <3>1 DEF JobRecord
    <3>3. [type |-> "JobSubmitted", job |-> j, who |-> a, result |-> NoResult] \in EventRecord
      BY DEF EventRecord
    <3>4. jobs' \in [Job -> JobRecord]
      BY <1>2, <2>3, <3>2, SnapshotType DEF SubmitJob
    <3>5. balance' \in Nat /\ wallet' \in [Account -> Nat]
      BY <1>2, <2>3, <3>1, SnapshotType DEF SubmitJob
    <3>6. events' \in Seq(EventRecord)
      BY <1>2, <2>3, <3>3, SnapshotType DEF SubmitJob
    <3>7. completed' \in [Job -> BOOLEAN]
      BY <1>2, <2>3, SnapshotType DEF SubmitJob
    <3> QED BY <1>2, <2>3, <3>4, <3>5, <3>6, <3>7 DEF SubmitJob, TypeOK, Snapshot, Storage
  <2>4. ASSUME NEW a \in Account, NEW j \in Job, NEW journal \in Journal,
               SubmitProof(a, j, journal)
        PROVE  TypeOK'
    <3>1. journal.result \in Result
      BY <2>4 DEF SubmitProof, JournalMatches, Journal
    <3>2. [type |-> "JobCompleted", job |-> j, who |-> a, result |-> journal.result]
            \in EventRecord
      BY <3>1 DEF EventRecord
    <3> QED BY <1>2, <2>4, <3>2, SettleType DEF SubmitProof, MaySettle
  <2>5. ASSUME NEW a \in Account, NEW j \in Job, ExpireJob(a, j)
        PROVE  TypeOK'
    <3>1. jobs[j].owner \in Account
      BY <1>2, <2>5, SubmittedJobType DEF ExpireJob, MaySettle
    <3>2. [type |-> "JobExpired", job |-> j, who |-> ZeroAddress, result |-> NoResult]
            \in EventRecord
      BY DEF EventRecord
    <3> QED BY <1>2, <2>5, <3>1, <3>2, SettleType DEF ExpireJob, MaySettle
  <2>6. CASE CallReturns
    <3>1. Top \in CallRecord /\ calls' \in Seq(CallRecord)
      BY <1>2, <2>6, PopCalls DEF CallReturns
    <3>2. events' \in Seq(EventRecord)
      BY <1>2, <2>6, <3>1, SnapshotType DEF CallReturns, CallRecord
    <3> QED BY <1>2, <2>6, <3>1, <3>2 DEF CallReturns, TypeOK, Snapshot, Storage
  <2>7. CASE CallFails
    <3>1. Top \in CallRecord /\ calls' \in Seq(CallRecord)
      BY <1>2, <2>7, PopCalls DEF CallFails
    <3>2. Top.entry \in Storage
      BY <3>1 DEF CallRecord
    <3>3. Snapshot' \in Storage
      BY <2>7, <3>2 DEF CallFails, Snapshot, Storage
    <3> QED BY <1>2, <2>7, <3>1, <3>3 DEF CallFails, TypeOK
  <2>8. CASE UNCHANGED vars
    BY <1>2, <2>8 DEF vars, TypeOK, Snapshot
  <2> QED BY <1>2, <2>1, <2>2, <2>3, <2>4, <2>5, <2>6, <2>7, <2>8 DEF Next
<1> QED BY <1>1, <1>2, PTL DEF Spec

-----------------------------------------------------------------------------
(* The inductive invariant.  Rolling back restores a storage found on      *)
(* entry, so what holds of the current storage has to hold of each saved   *)
(* one, counting only the calls that were under way when it was saved.     *)

(* The storage at level k: saved by call k, or the current one on top.     *)
StorageAt(stack, current, k) == IF k = Len(stack) + 1 THEN current ELSE stack[k].entry

Below(stack, k, j) == {i \in 1..k - 1 : IsSettlement(stack[i].event, j)}

(* SettledOnce, of the storage s of level k.                               *)
Balanced(s, stack, k) ==
  \A j \in Job : Cardinality(SettledIn(s.events, j)) + Cardinality(Below(stack, k, j))
                   = IF s.completed[j] THEN 1 ELSE 0

Backed(s, event, runs) ==
  event.type = "JobCompleted" /\ ~MockVerifier =>
    /\ s.jobs[event.job].exists
    /\ <<event.job, s.jobs[event.job].payload>> \in runs
    /\ event.result = GuestResult[s.jobs[event.job].payload]

(* PaidWorkWasProved, of the storage s of level k and the calls below it,  *)
(* when the guest executions `runs` have a receipt.                        *)
AllBacked(s, stack, k, runs) ==
  /\ \A i \in DOMAIN s.events : Backed(s, s.events[i], runs)
  /\ \A i \in 1..k - 1 : Backed(s, stack[i].event, runs)

Sound(s, stack, k, runs) == Balanced(s, stack, k) /\ AllBacked(s, stack, k, runs)

RegistryInv ==
  \A k \in 1..Len(calls) + 1 : Sound(StorageAt(calls, Snapshot, k), calls, k, proved)

(* Appending an event to a log adds one settlement of the job it settles.  *)
LEMMA CountAppend ==
  ASSUME NEW log \in Seq(EventRecord), NEW e \in EventRecord, NEW j \in Job
  PROVE  /\ Cardinality(SettledIn(log, j)) \in Nat
         /\ Cardinality(SettledIn(Append(log, e), j))
              = Cardinality(SettledIn(log, j)) + (IF IsSettlement(e, j) THEN 1 ELSE 0)
<1> DEFINE n == Len(log)
           A == SettledIn(log, j)
           B == SettledIn(Append(log, e), j)
<1>1. n \in Nat /\ DOMAIN log = 1..n
  OBVIOUS
<1>2. /\ DOMAIN Append(log, e) = 1..n + 1
      /\ \A i \in 1..n : Append(log, e)[i] = log[i]
      /\ Append(log, e)[n + 1] = e
  BY <1>1
<1>3. A \subseteq 1..n
  BY <1>1 DEF SettledIn
<1>4. IsFiniteSet(A) /\ Cardinality(A) \in Nat
  <2>1. IsFiniteSet(1..n)
    BY <1>1, FS_Interval
  <2> HIDE DEF A
  <2>2. IsFiniteSet(A)
    BY <1>3, <2>1, FS_Subset
  <2> QED BY <2>2, FS_CardinalityType
<1>5. n + 1 \notin A
  BY <1>1, <1>3
<1>6. CASE IsSettlement(e, j)
  <2>1. B = A \cup {n + 1}
    BY <1>1, <1>2, <1>6 DEF SettledIn
  <2>2. Cardinality(B) = Cardinality(A) + 1
    BY <1>4, <1>5, <2>1, FS_AddElement
  <2> QED BY <1>4, <1>6, <2>2
<1>7. CASE ~IsSettlement(e, j)
  <2>1. B = A
    BY <1>1, <1>2, <1>7 DEF SettledIn
  <2> QED BY <1>4, <1>7, <2>1
<1> QED BY <1>6, <1>7

(* One level higher there is one call more below.                          *)
LEMMA CountBelow ==
  ASSUME NEW stack, NEW k \in Nat \ {0}, NEW j \in Job
  PROVE  /\ Cardinality(Below(stack, k, j)) \in Nat
         /\ Cardinality(Below(stack, k + 1, j))
              = Cardinality(Below(stack, k, j))
                  + (IF IsSettlement(stack[k].event, j) THEN 1 ELSE 0)
<1> DEFINE A == Below(stack, k, j)
           B == Below(stack, k + 1, j)
<1>1. A \subseteq 1..k - 1 /\ k - 1 \in Int
  BY DEF Below
<1>2. IsFiniteSet(A) /\ Cardinality(A) \in Nat
  <2>1. IsFiniteSet(1..k - 1)
    BY <1>1, FS_Interval
  <2> HIDE DEF A
  <2>2. IsFiniteSet(A)
    BY <1>1, <2>1, FS_Subset
  <2> QED BY <2>2, FS_CardinalityType
<1>3. k \notin A
  BY <1>1
<1>4. CASE IsSettlement(stack[k].event, j)
  <2>1. B = A \cup {k}
    BY <1>4 DEF Below
  <2>2. Cardinality(B) = Cardinality(A) + 1
    BY <1>2, <1>3, <2>1, FS_AddElement
  <2> QED BY <1>2, <1>4, <2>2
<1>5. CASE ~IsSettlement(stack[k].event, j)
  <2>1. B = A
    BY <1>5 DEF Below
  <2> QED BY <1>2, <1>5, <2>1
<1> QED BY <1>4, <1>5

(* What is sound stays sound when only calls at or above its level change  *)
(* and more guest executions have a receipt.                               *)
LEMMA SoundBelow ==
  ASSUME NEW s, NEW stack, NEW stack2, NEW k \in Nat \ {0}, NEW runs, NEW runs2,
         runs \subseteq runs2,
         \A i \in 1..k - 1 : stack2[i] = stack[i],
         Sound(s, stack, k, runs)
  PROVE  Sound(s, stack2, k, runs2)
<1>1. \A j \in Job : Below(stack2, k, j) = Below(stack, k, j)
  BY DEF Below
<1>2. Balanced(s, stack2, k)
  BY <1>1 DEF Sound, Balanced
<1>3. AllBacked(s, stack2, k, runs2)
  BY DEF Sound, AllBacked, Backed
<1> QED BY <1>2, <1>3 DEF Sound

(* Entering the payment of an open job.                                    *)
LEMMA SettleSound ==
  ASSUME TypeOK, RegistryInv, NEW j \in Job, ~completed[j],
         NEW to, NEW event \in EventRecord, IsSettlement(event, j), Backed(Snapshot, event, proved),
         Settle(to, j, event)
  PROVE  RegistryInv'
<1> DEFINE n == Len(calls)
<1>1. /\ n \in Nat
      /\ Len(calls') = n + 1
      /\ \A i \in 1..n : calls'[i] = calls[i]
      /\ calls'[n + 1].entry = Snapshot
      /\ calls'[n + 1].event = event
  BY DEF TypeOK, Settle
<1>2. Sound(Snapshot, calls, n + 1, proved)
  BY <1>1 DEF RegistryInv, StorageAt
<1>3. ASSUME NEW k \in 1..n + 1
      PROVE  Sound(StorageAt(calls', Snapshot', k), calls', k, proved')
  <2>1. StorageAt(calls', Snapshot', k) = StorageAt(calls, Snapshot, k)
    BY <1>1 DEF StorageAt
  <2>2. Sound(StorageAt(calls, Snapshot, k), calls, k, proved)
    BY DEF RegistryInv
  <2>3. k \in Nat \ {0} /\ \A i \in 1..k - 1 : calls'[i] = calls[i]
    BY <1>1
  <2>4. proved' = proved
    BY DEF Settle
  <2> QED BY <2>1, <2>2, <2>3, <2>4, SoundBelow
<1>4. Sound(Snapshot', calls', n + 2, proved')
  <2>1. /\ Snapshot'.events = Snapshot.events
        /\ Snapshot'.jobs = Snapshot.jobs
        /\ Snapshot'.completed = [completed EXCEPT ![j] = TRUE]
        /\ Snapshot.completed = completed
        /\ completed \in [Job -> BOOLEAN]
        /\ proved' = proved
    BY SnapshotType DEF Settle, Marked, Snapshot
  <2>2. Balanced(Snapshot', calls', n + 2)
    <3> SUFFICES ASSUME NEW i \in Job
                 PROVE  Cardinality(SettledIn(Snapshot'.events, i))
                          + Cardinality(Below(calls', n + 2, i))
                        = IF Snapshot'.completed[i] THEN 1 ELSE 0
      BY DEF Balanced
    <3>1. Below(calls', n + 1, i) = Below(calls, n + 1, i)
      BY <1>1 DEF Below
    <3>2. Cardinality(Below(calls', n + 2, i))
            = Cardinality(Below(calls, n + 1, i)) + (IF i = j THEN 1 ELSE 0)
      <4>1. n + 1 \in Nat \ {0} /\ (n + 1) + 1 = n + 2
        BY <1>1
      <4>2. IsSettlement(calls'[n + 1].event, i) <=> i = j
        BY <1>1 DEF IsSettlement
      <4> QED BY <4>1, <4>2, <3>1, CountBelow
    <3>3. Cardinality(SettledIn(events, i)) + Cardinality(Below(calls, n + 1, i))
            = IF completed[i] THEN 1 ELSE 0
      BY <1>2, <2>1 DEF Sound, Balanced, Snapshot
    <3>4. /\ Cardinality(SettledIn(events, i)) \in Nat
          /\ Cardinality(Below(calls, n + 1, i)) \in Nat
      <4>1. events \in Seq(EventRecord) /\ n + 1 \in Nat \ {0}
        BY <1>1, SnapshotType
      <4>2. Cardinality(Below(calls, n + 1, i)) \in Nat
        BY <4>1, CountBelow
      <4>3. Cardinality(SettledIn(events, i)) \in Nat
        BY <4>1, CountAppend
      <4> QED BY <4>2, <4>3
    <3> QED BY <2>1, <3>2, <3>3, <3>4 DEF Snapshot
  <2>3. AllBacked(Snapshot', calls', n + 2, proved')
    <3>1. \A e : Backed(Snapshot', e, proved') <=> Backed(Snapshot, e, proved)
      BY <2>1 DEF Backed
    <3>2. AllBacked(Snapshot, calls, n + 1, proved)
      BY <1>2 DEF Sound
    <3>3. \A i \in DOMAIN Snapshot'.events : Backed(Snapshot', Snapshot'.events[i], proved')
      BY <2>1, <3>1, <3>2 DEF AllBacked
    <3>4. ASSUME NEW i \in 1..(n + 2) - 1
          PROVE  Backed(Snapshot', calls'[i].event, proved')
      <4>1. CASE i \in 1..n
        <5>1. i \in 1..(n + 1) - 1 /\ calls'[i] = calls[i]
          BY <1>1, <4>1
        <5> QED BY <3>1, <3>2, <5>1 DEF AllBacked
      <4>2. CASE i = n + 1
        BY <1>1, <3>1, <4>2
      <4> QED BY <1>1, <4>1, <4>2
    <3> QED BY <3>3, <3>4 DEF AllBacked
  <2> QED BY <2>2, <2>3 DEF Sound
<1>5. StorageAt(calls', Snapshot', n + 2) = Snapshot'
  BY <1>1 DEF StorageAt
<1>6. \A k \in 1..Len(calls') + 1 : k \in 1..n + 1 \/ k = n + 2
  BY <1>1
<1> QED BY <1>3, <1>4, <1>5, <1>6 DEF RegistryInv

(* The levels below the innermost call, when it is removed.                *)
LEMMA PopSound ==
  ASSUME TypeOK, RegistryInv, calls # <<>>, calls' = SubSeq(calls, 1, Len(calls) - 1),
         proved' = proved, Sound(Snapshot', calls', Len(calls), proved)
  PROVE  RegistryInv'
<1> DEFINE n == Len(calls)
<1>1. /\ n \in Nat \ {0}
      /\ Len(calls') = n - 1
      /\ \A i \in 1..n - 1 : calls'[i] = calls[i]
  BY PopCalls
<1>2. ASSUME NEW k \in 1..n - 1
      PROVE  Sound(StorageAt(calls', Snapshot', k), calls', k, proved')
  <2>1. StorageAt(calls', Snapshot', k) = StorageAt(calls, Snapshot, k)
    BY <1>1 DEF StorageAt
  <2>2. k \in 1..n + 1
    BY <1>1
  <2>3. Sound(StorageAt(calls, Snapshot, k), calls, k, proved)
    BY <2>2 DEF RegistryInv
  <2>4. k \in Nat \ {0} /\ \A i \in 1..k - 1 : calls'[i] = calls[i]
    BY <1>1
  <2> QED BY <2>1, <2>3, <2>4, SoundBelow
<1>3. StorageAt(calls', Snapshot', n) = Snapshot'
  BY <1>1 DEF StorageAt
<1>4. \A k \in 1..Len(calls') + 1 : k \in 1..n - 1 \/ k = n
  BY <1>1
<1> QED BY <1>2, <1>3, <1>4 DEF RegistryInv

(* A payment that returns: its settlement moves from the stack to the log. *)
LEMMA CallReturnsSound ==
  ASSUME TypeOK, RegistryInv, CallReturns
  PROVE  RegistryInv'
<1> DEFINE n == Len(calls)
           e == calls[n].event
<1>1. /\ n \in Nat \ {0}
      /\ calls # <<>>
      /\ calls' = SubSeq(calls, 1, n - 1)
      /\ \A i \in 1..n - 1 : calls'[i] = calls[i]
      /\ calls[n] \in CallRecord
      /\ proved' = proved
  BY PopCalls DEF CallReturns, Top
<1>2. /\ events \in Seq(EventRecord)
      /\ e \in EventRecord
      /\ Snapshot'.events = Append(events, e)
      /\ Snapshot'.jobs = Snapshot.jobs
      /\ Snapshot'.completed = Snapshot.completed
      /\ Snapshot.events = events
  BY <1>1, SnapshotType DEF CallReturns, Top, CallRecord, Snapshot
<1>3. Sound(Snapshot, calls, n + 1, proved)
  BY <1>1 DEF RegistryInv, StorageAt
<1>4. Balanced(Snapshot', calls', n)
  <2> SUFFICES ASSUME NEW j \in Job
               PROVE  Cardinality(SettledIn(Snapshot'.events, j))
                        + Cardinality(Below(calls', n, j))
                      = IF Snapshot'.completed[j] THEN 1 ELSE 0
    BY DEF Balanced
  <2>1. Below(calls', n, j) = Below(calls, n, j)
    BY <1>1 DEF Below
  <2>2. /\ Cardinality(Below(calls, n, j)) \in Nat
        /\ Cardinality(Below(calls, n + 1, j))
             = Cardinality(Below(calls, n, j)) + (IF IsSettlement(e, j) THEN 1 ELSE 0)
    BY <1>1, CountBelow
  <2>3. /\ Cardinality(SettledIn(events, j)) \in Nat
        /\ Cardinality(SettledIn(Append(events, e), j))
             = Cardinality(SettledIn(events, j)) + (IF IsSettlement(e, j) THEN 1 ELSE 0)
    BY <1>2, CountAppend
  <2>4. Cardinality(SettledIn(events, j)) + Cardinality(Below(calls, n + 1, j))
          = IF Snapshot.completed[j] THEN 1 ELSE 0
    BY <1>2, <1>3 DEF Sound, Balanced
  <2> HIDE DEF e
  <2> QED BY <1>2, <2>1, <2>2, <2>3, <2>4
<1>5. AllBacked(Snapshot', calls', n, proved)
  <2>1. \A x : Backed(Snapshot', x, proved) <=> Backed(Snapshot, x, proved)
    BY <1>2 DEF Backed
  <2>2. AllBacked(Snapshot, calls, n + 1, proved)
    BY <1>3 DEF Sound
  <2>3. Backed(Snapshot, e, proved)
    <3>1. n \in 1..(n + 1) - 1
      BY <1>1
    <3> QED BY <2>2, <3>1 DEF AllBacked
  <2>4. \A i \in 1..n - 1 : Backed(Snapshot', calls'[i].event, proved)
    <3>1. \A i \in 1..n - 1 : i \in 1..(n + 1) - 1
      BY <1>1
    <3> QED BY <1>1, <2>1, <2>2, <3>1 DEF AllBacked
  <2>5. ASSUME NEW i \in DOMAIN Snapshot'.events
        PROVE  Backed(Snapshot', Snapshot'.events[i], proved)
    <3> HIDE DEF e
    <3>1. \/ i \in DOMAIN events /\ Append(events, e)[i] = events[i]
          \/ Append(events, e)[i] = e
      BY <1>2
    <3> QED BY <1>2, <2>1, <2>2, <2>3, <3>1 DEF AllBacked
  <2> QED BY <2>4, <2>5 DEF AllBacked
<1>6. Sound(Snapshot', calls', n, proved)
  BY <1>4, <1>5 DEF Sound
<1> QED BY <1>1, <1>6, PopSound

(* A payment that fails: the storage found on entry was sound.             *)
LEMMA CallFailsSound ==
  ASSUME TypeOK, RegistryInv, CallFails
  PROVE  RegistryInv'
<1> DEFINE n == Len(calls)
<1>1. /\ n \in Nat \ {0}
      /\ calls # <<>>
      /\ calls' = SubSeq(calls, 1, n - 1)
      /\ \A i \in 1..n - 1 : calls'[i] = calls[i]
      /\ calls[n] \in CallRecord
      /\ proved' = proved
  BY PopCalls DEF CallFails, Top
<1>2. Snapshot' = calls[n].entry
  BY <1>1 DEF CallFails, Top, Snapshot, CallRecord, Storage
<1>3. Sound(calls[n].entry, calls, n, proved)
  <2>1. n \in 1..n + 1 /\ n # n + 1
    BY <1>1
  <2> QED BY <2>1 DEF RegistryInv, StorageAt
<1>4. Sound(Snapshot', calls', n, proved)
  BY <1>1, <1>2, <1>3, SoundBelow
<1> QED BY <1>1, <1>4, PopSound

(* Steps that leave the stack alone: the saved levels stay as they were.   *)
LEMMA SameCallsSound ==
  ASSUME TypeOK, RegistryInv, calls' = calls, proved \subseteq proved',
         Sound(Snapshot', calls, Len(calls) + 1, proved')
  PROVE  RegistryInv'
<1> DEFINE n == Len(calls)
<1>1. n \in Nat
  BY DEF TypeOK
<1>2. ASSUME NEW k \in 1..n
      PROVE  Sound(StorageAt(calls', Snapshot', k), calls', k, proved')
  <2>1. StorageAt(calls', Snapshot', k) = StorageAt(calls, Snapshot, k)
    BY <1>1 DEF StorageAt
  <2>2. k \in 1..n + 1 /\ k \in Nat \ {0}
    BY <1>1
  <2>3. Sound(StorageAt(calls, Snapshot, k), calls, k, proved)
    BY <2>2 DEF RegistryInv
  <2> QED BY <2>1, <2>2, <2>3, SoundBelow
<1>3. StorageAt(calls', Snapshot', n + 1) = Snapshot'
  BY DEF StorageAt
<1>4. \A k \in 1..n + 1 : k \in 1..n \/ k = n + 1
  BY <1>1
<1> QED BY <1>2, <1>3, <1>4 DEF RegistryInv

(* A submission settles nothing and overwrites only a job nobody submitted. *)
LEMMA SubmitJobSound ==
  ASSUME TypeOK, RegistryInv, NEW a \in Account, NEW j \in Job, NEW p \in Payload,
         NEW value \in Reward, NEW deadline \in 0..MaxClock,
         SubmitJob(a, j, p, value, deadline)
  PROVE  RegistryInv'
<1> DEFINE n == Len(calls)
           e == [type |-> "JobSubmitted", job |-> j, who |-> a, result |-> NoResult]
<1>1. /\ n \in Nat
      /\ events \in Seq(EventRecord)
      /\ jobs \in [Job -> JobRecord]
      /\ e \in EventRecord
  BY SnapshotType DEF TypeOK, EventRecord
<1>2. /\ Snapshot'.events = Append(events, e)
      /\ Snapshot'.completed = Snapshot.completed
      /\ Snapshot.events = events
      /\ Snapshot.jobs = jobs
      /\ \A i \in Job : i # j => Snapshot'.jobs[i] = jobs[i]
      /\ ~jobs[j].exists
      /\ calls' = calls
      /\ proved' = proved
  BY <1>1 DEF SubmitJob, Accepts, Snapshot
<1>3. Sound(Snapshot, calls, n + 1, proved)
  BY <1>1 DEF RegistryInv, StorageAt
<1>4. Balanced(Snapshot', calls, n + 1)
  <2> SUFFICES ASSUME NEW i \in Job
               PROVE  Cardinality(SettledIn(Snapshot'.events, i))
                        + Cardinality(Below(calls, n + 1, i))
                      = IF Snapshot'.completed[i] THEN 1 ELSE 0
    BY DEF Balanced
  <2>1. ~IsSettlement(e, i)
    BY DEF IsSettlement
  <2>2. /\ Cardinality(SettledIn(events, i)) \in Nat
        /\ Cardinality(SettledIn(Append(events, e), i)) = Cardinality(SettledIn(events, i)) + 0
    <3> HIDE DEF e
    <3> QED BY <1>1, <2>1, CountAppend
  <2>3. Cardinality(SettledIn(events, i)) + Cardinality(Below(calls, n + 1, i))
          = IF Snapshot.completed[i] THEN 1 ELSE 0
    BY <1>2, <1>3 DEF Sound, Balanced
  <2>4. Cardinality(SettledIn(Append(events, e), i)) = Cardinality(SettledIn(events, i))
    <3> HIDE DEF e
    <3> QED BY <2>2
  <2> QED BY <1>2, <2>3, <2>4
<1>5. AllBacked(Snapshot', calls, n + 1, proved)
  <2>1. ASSUME NEW x \in EventRecord, Backed(Snapshot, x, proved)
        PROVE  Backed(Snapshot', x, proved)
    <3>1. x.job \in Job
      BY DEF EventRecord
    <3>2. CASE x.job = j
      BY <1>2, <2>1, <3>2 DEF Backed
    <3>3. CASE x.job # j
      BY <1>2, <2>1, <3>1, <3>3 DEF Backed
    <3> QED BY <3>2, <3>3
  <2>2. AllBacked(Snapshot, calls, n + 1, proved)
    BY <1>3 DEF Sound
  <2>3. Backed(Snapshot', e, proved)
    BY DEF Backed
  <2>4. \A i \in 1..(n + 1) - 1 : Backed(Snapshot', calls[i].event, proved)
    <3>1. \A i \in 1..(n + 1) - 1 : calls[i].event \in EventRecord
      <4>1. \A i \in 1..(n + 1) - 1 : calls[i] \in CallRecord
        BY <1>1 DEF TypeOK
      <4> QED BY <4>1 DEF CallRecord
    <3> QED BY <2>1, <2>2, <3>1 DEF AllBacked
  <2>5. ASSUME NEW i \in DOMAIN Snapshot'.events
        PROVE  Backed(Snapshot', Snapshot'.events[i], proved)
    <3> HIDE DEF e
    <3>1. \/ i \in DOMAIN events /\ Append(events, e)[i] = events[i]
          \/ Append(events, e)[i] = e
      BY <1>1, <1>2
    <3>2. \A x \in DOMAIN events : events[x] \in EventRecord
      BY <1>1
    <3> QED BY <1>2, <2>1, <2>2, <2>3, <3>1, <3>2 DEF AllBacked
  <2> QED BY <2>4, <2>5 DEF AllBacked
<1>6. Sound(Snapshot', calls, n + 1, proved')
  BY <1>2, <1>4, <1>5 DEF Sound
<1> QED BY <1>2, <1>6, SameCallsSound

(* Time passing and guest executions touch no storage.                     *)
LEMMA SameStorageSound ==
  ASSUME TypeOK, RegistryInv, UNCHANGED <<storage, calls>>, proved \subseteq proved'
  PROVE  RegistryInv'
<1>1. Snapshot' = Snapshot /\ calls' = calls
  BY DEF storage, Snapshot
<1>2. Len(calls) + 1 \in Nat \ {0}
  BY DEF TypeOK
<1>3. Sound(Snapshot, calls, Len(calls) + 1, proved)
  BY <1>2 DEF RegistryInv, StorageAt
<1>4. Sound(Snapshot', calls, Len(calls) + 1, proved')
  BY <1>1, <1>2, <1>3, SoundBelow
<1> QED BY <1>1, <1>4, SameCallsSound

(* Every storage the contract can be in or fall back to is sound.          *)
THEOREM RegistrySafe == Spec => []RegistryInv
<1>1. Init => RegistryInv
  <2> SUFFICES ASSUME Init
               PROVE  RegistryInv
    OBVIOUS
  <2>1. Len(calls) + 1 = 1 /\ StorageAt(calls, Snapshot, 1) = Snapshot
    BY DEF Init, StorageAt
  <2>2. \A j \in Job : SettledIn(Snapshot.events, j) = {} /\ Below(calls, 1, j) = {}
    BY DEF Init, Snapshot, SettledIn, Below
  <2>3. Balanced(Snapshot, calls, 1)
    <3>1. \A j \in Job : ~Snapshot.completed[j]
      BY DEF Init, Snapshot
    <3>2. Cardinality({}) = 0
      BY FS_EmptySet
    <3> QED BY <2>2, <3>1, <3>2 DEF Balanced
  <2>4. AllBacked(Snapshot, calls, 1, proved)
    BY DEF Init, Snapshot, AllBacked
  <2> QED BY <2>1, <2>3, <2>4 DEF RegistryInv, Sound
<1>2. ASSUME TypeOK, RegistryInv, [Next]_vars
      PROVE  RegistryInv'
  <2>1. CASE Tick
    BY <1>2, <2>1, SameStorageSound DEF Tick
  <2>2. ASSUME NEW j \in Job, NEW p \in Payload, GuestRuns(j, p)
        PROVE  RegistryInv'
    BY <1>2, <2>2, SameStorageSound DEF GuestRuns
  <2>3. ASSUME NEW a \in Account, NEW j \in Job, NEW p \in Payload, NEW value \in Reward,
               NEW deadline \in 0..MaxClock, SubmitJob(a, j, p, value, deadline)
        PROVE  RegistryInv'
    BY <1>2, <2>3, SubmitJobSound
  <2>4. ASSUME NEW a \in Account, NEW j \in Job, NEW journal \in Journal,
               SubmitProof(a, j, journal)
        PROVE  RegistryInv'
    <3> DEFINE e == [type |-> "JobCompleted", job |-> j, who |-> a,
                     result |-> journal.result]
    <3>1. e \in EventRecord /\ IsSettlement(e, j)
      BY <2>4 DEF SubmitProof, JournalMatches, Journal, EventRecord, IsSettlement
    <3>2. Backed(Snapshot, e, proved)
      BY <2>4 DEF SubmitProof, MaySettle, JournalMatches, Verified, Backed, Snapshot
    <3>3. ~completed[j] /\ Settle(a, j, e)
      BY <2>4 DEF SubmitProof, MaySettle
    <3> HIDE DEF e
    <3> QED BY <1>2, <3>1, <3>2, <3>3, SettleSound
  <2>5. ASSUME NEW a \in Account, NEW j \in Job, ExpireJob(a, j)
        PROVE  RegistryInv'
    <3> DEFINE e == [type |-> "JobExpired", job |-> j, who |-> ZeroAddress,
                     result |-> NoResult]
    <3>1. e \in EventRecord /\ IsSettlement(e, j) /\ Backed(Snapshot, e, proved)
      BY DEF EventRecord, IsSettlement, Backed
    <3>2. ~completed[j] /\ Settle(jobs[j].owner, j, e)
      BY <2>5 DEF ExpireJob, MaySettle
    <3> HIDE DEF e
    <3> QED BY <1>2, <3>1, <3>2, SettleSound
  <2>6. CASE CallReturns
    BY <1>2, <2>6, CallReturnsSound
  <2>7. CASE CallFails
    BY <1>2, <2>7, CallFailsSound
  <2>8. CASE UNCHANGED vars
    BY <1>2, <2>8, SameStorageSound DEF vars, storage
  <2> QED BY <1>2, <2>1, <2>2, <2>3, <2>4, <2>5, <2>6, <2>7, <2>8 DEF Next
<1> QED BY <1>1, <1>2, TypeCorrect, PTL DEF Spec

(* However deep calls nest and whichever revert, a job is settled once if  *)
(* it is completed and never otherwise.                                    *)
THEOREM SettledExactlyOnce == Spec => []SettledOnce
<1>1. ASSUME TypeOK, RegistryInv
      PROVE  SettledOnce
  <2> DEFINE n == Len(calls)
  <2>1. n \in Nat /\ DOMAIN calls = 1..n
    BY <1>1 DEF TypeOK
  <2>2. Sound(Snapshot, calls, n + 1, proved)
    BY <1>1, <2>1 DEF RegistryInv, StorageAt
  <2>3. \A j \in Job : PendingIn(calls, j) = Below(calls, n + 1, j)
    BY <2>1 DEF PendingIn, Below
  <2> QED BY <2>2, <2>3 DEF Sound, Balanced, SettledOnce, Snapshot
<1> QED BY <1>1, TypeCorrect, RegistrySafe, PTL

(* With a verifier that accepts only receipts of guest executions, every   *)
(* JobCompleted event is for work that was run on the submitted payload.   *)
THEOREM OnlyProvedWorkIsPaid == Spec => []PaidWorkWasProved
<1>1. ASSUME TypeOK, RegistryInv
      PROVE  PaidWorkWasProved
  <2> DEFINE n == Len(calls)
  <2>1. n \in Nat
    BY <1>1 DEF TypeOK
  <2>2. AllBacked(Snapshot, calls, n + 1, proved)
    BY <1>1, <2>1 DEF RegistryInv, StorageAt, Sound
  <2> QED BY <2>2 DEF AllBacked, Backed, PaidWorkWasProved, Snapshot
<1> QED BY <1>1, TypeCorrect, RegistrySafe, PTL

-----------------------------------------------------------------------------
(* The ether is accounted for: the contract holds exactly the rewards of   *)
(* open jobs and every wallet what its account has put in and taken out,   *)
(* in the middle of a reentrant payment and after any of them reverts.     *)

(* The inductive invariant: the books of every storage the contract is in  *)
(* or can fall back to, with the payments that were under way in it.       *)

RewardsIn(s) == [j \in Job |-> s.jobs[j].reward]

OpenIn(s) == {j \in Job : s.jobs[j].exists /\ ~s.completed[j]}

RecipientIn(s, event) ==
  IF event.type = "JobCompleted" THEN event.who ELSE s.jobs[event.job].owner

Spent(s, a) == {j \in Job : s.jobs[j].owner = a}

Got(s, stack, k, a) ==
  {j \in Job : \/ \E i \in SettledIn(s.events, j) : RecipientIn(s, s.events[i]) = a
               \/ \E i \in Below(stack, k, j) : stack[i].to = a}

(* Only submitted jobs are marked, and only marked jobs are being settled. *)
Marks(s, stack, k) ==
  \A j \in Job :
    /\ s.completed[j] => s.jobs[j].exists
    /\ SettledIn(s.events, j) # {} \/ Below(stack, k, j) # {} => s.completed[j]

(* A payment settles a job, and goes to the account its event will name.   *)
Addressed(s, stack, k) ==
  \A i \in 1..k - 1 : /\ IsSettlement(stack[i].event, stack[i].event.job)
                      /\ stack[i].to = RecipientIn(s, stack[i].event)

SolventIn(s) == s.balance = SumFunctionOnSet(RewardsIn(s), OpenIn(s))

ExplainedIn(s, stack, k) ==
  \A a \in Account :
    s.wallet[a] = Funds[a] - SumFunctionOnSet(RewardsIn(s), Spent(s, a))
                           + SumFunctionOnSet(RewardsIn(s), Got(s, stack, k, a))

Accounted(s, stack, k) == /\ Marks(s, stack, k)
                          /\ Addressed(s, stack, k)
                          /\ SolventIn(s)
                          /\ ExplainedIn(s, stack, k)

BalanceInv ==
  \A k \in 1..Len(calls) + 1 : Accounted(StorageAt(calls, Snapshot, k), calls, k)

-----------------------------------------------------------------------------
(* Rewards                                                                 *)

(* Rewards are numbers, and so is what any set of jobs is worth.           *)
LEMMA RewardsType ==
  ASSUME ConstantsAssumption, NEW s, s.jobs \in [Job -> JobRecord], NEW T \in SUBSET Job
  PROVE  /\ \A j \in Job : RewardsIn(s)[j] \in Nat /\ RewardsIn(s)[j] = s.jobs[j].reward
         /\ IsFiniteSet(T)
         /\ SumFunctionOnSet(RewardsIn(s), T) \in Nat
<1>1. \A j \in Job : s.jobs[j].reward \in Nat
  <2>1. NullJob.reward \in Nat
    BY DEF NullJob
  <2>2. \A x \in JobRecord : x.reward \in Nat
    BY <2>1 DEF JobRecord
  <2> QED BY <2>2
<1>2. \A j \in Job : RewardsIn(s)[j] \in Nat /\ RewardsIn(s)[j] = s.jobs[j].reward
  BY <1>1 DEF RewardsIn
<1>3. IsFiniteSet(T)
  BY FS_Subset DEF ConstantsAssumption
<1> QED BY <1>2, <1>3, SumType

(* One job more or less in a set of jobs.                                  *)
LEMMA RewardsWith ==
  ASSUME ConstantsAssumption, NEW s, s.jobs \in [Job -> JobRecord], NEW T \in SUBSET Job,
         NEW j \in Job, j \notin T
  PROVE  SumFunctionOnSet(RewardsIn(s), T \cup {j})
           = s.jobs[j].reward + SumFunctionOnSet(RewardsIn(s), T)
<1>1. /\ \A i \in Job : RewardsIn(s)[i] \in Int
      /\ RewardsIn(s)[j] = s.jobs[j].reward
      /\ IsFiniteSet(T)
  BY RewardsType
<1>2. \A i \in T : RewardsIn(s)[i] \in Int
  BY <1>1
<1> QED BY <1>1, <1>2, SumWith

(* Taking a job out of a set of jobs takes out its reward.                 *)
LEMMA RewardsWithout ==
  ASSUME ConstantsAssumption, NEW s, s.jobs \in [Job -> JobRecord], NEW T \in SUBSET Job,
         NEW j \in T
  PROVE  SumFunctionOnSet(RewardsIn(s), T)
           = s.jobs[j].reward + SumFunctionOnSet(RewardsIn(s), T \ {j})
<1>1. /\ \A i \in Job : RewardsIn(s)[i] \in Int
      /\ RewardsIn(s)[j] = s.jobs[j].reward
      /\ IsFiniteSet(T)
  BY RewardsType
<1>2. \A i \in T : RewardsIn(s)[i] \in Int
  BY <1>1
<1> QED BY <1>1, <1>2, SumWithout

(* Sets of jobs are worth the same in storages that agree on their rewards. *)
LEMMA RewardsSame ==
  ASSUME ConstantsAssumption, NEW s, NEW t, NEW T \in SUBSET Job,
         \A j \in T : t.jobs[j].reward = s.jobs[j].reward
  PROVE  SumFunctionOnSet(RewardsIn(t), T) = SumFunctionOnSet(RewardsIn(s), T)
<1>1. \A j \in T : RewardsIn(t)[j] = RewardsIn(s)[j]
  BY DEF RewardsIn
<1>2. IsFiniteSet(T)
  BY FS_Subset DEF ConstantsAssumption
<1> QED BY <1>1, <1>2, SumSame

-----------------------------------------------------------------------------
(* Levels of the stack                                                     *)

(* Levels do not depend on the calls at or above them.                     *)
LEMMA AccountedBelow ==
  ASSUME NEW s, NEW stack, NEW stack2, NEW k \in Nat \ {0},
         \A i \in 1..k - 1 : stack2[i] = stack[i],
         Accounted(s, stack, k)
  PROVE  Accounted(s, stack2, k)
<1>1. \A j \in Job : Below(stack2, k, j) = Below(stack, k, j)
  BY DEF Below
<1>2. Marks(s, stack2, k) /\ Addressed(s, stack2, k)
  BY <1>1 DEF Accounted, Marks, Addressed
<1>3. \A a \in Account : Got(s, stack2, k, a) = Got(s, stack, k, a)
  <2>1. \A j \in Job : \A i \in Below(stack, k, j) : stack2[i] = stack[i]
    BY DEF Below
  <2> QED BY <1>1, <2>1 DEF Got
<1> QED BY <1>2, <1>3 DEF Accounted, ExplainedIn

(* Steps that leave the stack alone: the saved levels stay as they were.   *)
LEMMA SameCallsAccounted ==
  ASSUME TypeOK, BalanceInv, calls' = calls,
         Accounted(Snapshot', calls, Len(calls) + 1)
  PROVE  BalanceInv'
<1> DEFINE n == Len(calls)
<1>1. n \in Nat
  BY DEF TypeOK
<1>2. ASSUME NEW k \in 1..n
      PROVE  Accounted(StorageAt(calls', Snapshot', k), calls', k)
  <2>1. StorageAt(calls', Snapshot', k) = StorageAt(calls, Snapshot, k)
    BY <1>1 DEF StorageAt
  <2>2. k \in 1..n + 1
    BY <1>1
  <2> QED BY <2>1, <2>2 DEF BalanceInv
<1>3. StorageAt(calls', Snapshot', n + 1) = Snapshot'
  BY DEF StorageAt
<1>4. \A k \in 1..n + 1 : k \in 1..n \/ k = n + 1
  BY <1>1
<1> QED BY <1>2, <1>3, <1>4 DEF BalanceInv

(* The levels below the innermost call, when it is removed.                *)
LEMMA PopAccounted ==
  ASSUME TypeOK, BalanceInv, calls # <<>>, calls' = SubSeq(calls, 1, Len(calls) - 1),
         Accounted(Snapshot', calls', Len(calls))
  PROVE  BalanceInv'
<1> DEFINE n == Len(calls)
<1>1. /\ n \in Nat \ {0}
      /\ Len(calls') = n - 1
      /\ \A i \in 1..n - 1 : calls'[i] = calls[i]
  BY PopCalls
<1>2. ASSUME NEW k \in 1..n - 1
      PROVE  Accounted(StorageAt(calls', Snapshot', k), calls', k)
  <2>1. StorageAt(calls', Snapshot', k) = StorageAt(calls, Snapshot, k)
    BY <1>1 DEF StorageAt
  <2>2. k \in 1..n + 1
    BY <1>1
  <2>3. Accounted(StorageAt(calls, Snapshot, k), calls, k)
    BY <2>2 DEF BalanceInv
  <2>4. k \in Nat \ {0} /\ \A i \in 1..k - 1 : calls'[i] = calls[i]
    BY <1>1
  <2> QED BY <2>1, <2>3, <2>4, AccountedBelow
<1>3. StorageAt(calls', Snapshot', n) = Snapshot'
  BY <1>1 DEF StorageAt
<1>4. \A k \in 1..Len(calls') + 1 : k \in 1..n - 1 \/ k = n
  BY <1>1
<1> QED BY <1>2, <1>3, <1>4 DEF BalanceInv

-----------------------------------------------------------------------------
(* Steps                                                                   *)

(* Entering the payment of an open job: its reward leaves the contract for *)
(* the account the event will name.                                        *)
LEMMA SettleAccounted ==
  ASSUME ConstantsAssumption, TypeOK, BalanceInv, NEW j \in Job, jobs[j].exists, ~completed[j],
         NEW event \in EventRecord, IsSettlement(event, j),
         RecipientIn(Snapshot, event) \in Account,
         Settle(RecipientIn(Snapshot, event), j, event)
  PROVE  BalanceInv'
<1> DEFINE n == Len(calls)
           to == RecipientIn(Snapshot, event)
           s == Snapshot
           t == Snapshot'
           r == jobs[j].reward
<1>1. /\ n \in Nat
      /\ Len(calls') = n + 1
      /\ \A i \in 1..n : calls'[i] = calls[i]
      /\ calls'[n + 1].entry = s
      /\ calls'[n + 1].event = event
      /\ calls'[n + 1].to = to
  BY DEF TypeOK, Settle
<1>2. Accounted(s, calls, n + 1)
  BY <1>1 DEF BalanceInv, StorageAt
<1>3. ASSUME NEW k \in 1..n + 1
      PROVE  Accounted(StorageAt(calls', Snapshot', k), calls', k)
  <2>1. StorageAt(calls', Snapshot', k) = StorageAt(calls, Snapshot, k)
    BY <1>1 DEF StorageAt
  <2>2. Accounted(StorageAt(calls, Snapshot, k), calls, k)
    BY DEF BalanceInv
  <2>3. k \in Nat \ {0} /\ \A i \in 1..k - 1 : calls'[i] = calls[i]
    BY <1>1
  <2> QED BY <2>1, <2>2, <2>3, AccountedBelow
<1>4. Accounted(t, calls', n + 2)
  <2>1. /\ t.jobs = s.jobs
        /\ t.events = s.events
        /\ t.completed = [s.completed EXCEPT ![j] = TRUE]
        /\ t.balance = s.balance - r
        /\ t.wallet = [s.wallet EXCEPT ![to] = @ + r]
        /\ s.jobs = jobs /\ s.completed = completed
        /\ s.jobs \in [Job -> JobRecord]
        /\ s.completed \in [Job -> BOOLEAN]
        /\ s.wallet \in [Account -> Nat]
        /\ s.balance \in Nat
        /\ r \in Nat
    BY SnapshotType, SubmittedJobType DEF Settle, Marked, Snapshot
  <2>2. ASSUME NEW i \in Job
        PROVE  Below(calls', n + 2, i) = Below(calls, n + 1, i)
                                           \cup (IF i = j THEN {n + 1} ELSE {})
    <3>1. 1..(n + 2) - 1 = (1..(n + 1) - 1) \cup {n + 1} /\ 1..(n + 1) - 1 = 1..n
      BY <1>1
    <3>2. IsSettlement(event, i) <=> i = j
      BY DEF IsSettlement
    <3> QED BY <1>1, <3>1, <3>2 DEF Below
  <2>3. ASSUME NEW i \in Job
        PROVE  n + 1 \notin Below(calls, n + 1, i)
    BY <1>1 DEF Below
  <2> HIDE DEF s, t, r, to
  <2>4. Marks(t, calls', n + 2)
    BY <1>2, <2>1, <2>2 DEF Accounted, Marks, s
  <2>5. Addressed(t, calls', n + 2)
    <3>1. \A e : RecipientIn(t, e) = RecipientIn(s, e)
      BY <2>1 DEF RecipientIn
    <3>2. ASSUME NEW i \in 1..(n + 2) - 1
          PROVE  /\ IsSettlement(calls'[i].event, calls'[i].event.job)
                 /\ calls'[i].to = RecipientIn(t, calls'[i].event)
      <4>1. CASE i = n + 1
        BY <1>1, <3>1, <4>1 DEF to, s, IsSettlement
      <4>2. CASE i # n + 1
        <5>1. i \in 1..(n + 1) - 1 /\ calls'[i] = calls[i]
          BY <1>1, <4>2
        <5> QED BY <1>2, <3>1, <5>1 DEF Accounted, Addressed
      <4> QED BY <4>1, <4>2
    <3> QED BY <3>2 DEF Addressed
  <2>6. j \in OpenIn(s) /\ OpenIn(t) = OpenIn(s) \ {j}
    BY <2>1 DEF OpenIn
  <2>7. RewardsIn(t) = RewardsIn(s)
    BY <2>1 DEF RewardsIn
  <2>8. SolventIn(t)
    <3>1. SumFunctionOnSet(RewardsIn(s), OpenIn(s))
            = r + SumFunctionOnSet(RewardsIn(s), OpenIn(s) \ {j})
      <4>1. OpenIn(s) \in SUBSET Job
        BY DEF OpenIn
      <4>2. s.jobs[j].reward = r
        BY <2>1 DEF r
      <4> DEFINE O == OpenIn(s)
      <4> HIDE DEF O
      <4>3. O \in SUBSET Job /\ j \in O
        BY <2>6, <4>1 DEF O
      <4>4. SumFunctionOnSet(RewardsIn(s), O) = r + SumFunctionOnSet(RewardsIn(s), O \ {j})
        <5>1. s.jobs \in [Job -> JobRecord]
          BY <2>1
        <5> QED BY <4>2, <4>3, <5>1, RewardsWithout
      <4> QED BY <4>4 DEF O
    <3>2. SumFunctionOnSet(RewardsIn(s), OpenIn(s) \ {j}) \in Nat
      <4>1. OpenIn(s) \ {j} \in SUBSET Job
        BY DEF OpenIn
      <4> QED BY <2>1, <4>1, RewardsType
    <3>3. s.balance = SumFunctionOnSet(RewardsIn(s), OpenIn(s))
      BY <1>2 DEF Accounted, SolventIn
    <3> QED BY <2>1, <2>6, <2>7, <3>1, <3>2, <3>3 DEF SolventIn
  <2>9. ASSUME NEW a \in Account
        PROVE  /\ Spent(t, a) = Spent(s, a)
               /\ Got(t, calls', n + 2, a) = IF a = to THEN Got(s, calls, n + 1, a) \cup {j}
                                             ELSE Got(s, calls, n + 1, a)
               /\ j \notin Got(s, calls, n + 1, a)
    <3>1. Spent(t, a) = Spent(s, a)
      BY <2>1 DEF Spent
    <3>2. j \notin Got(s, calls, n + 1, a)
      BY <1>2, <2>1 DEF Accounted, Marks, Got, s
    <3>3. ASSUME NEW i \in Job
          PROVE  i \in Got(t, calls', n + 2, a) <=> \/ i \in Got(s, calls, n + 1, a)
                                                    \/ i = j /\ a = to
      <4>1. (\E x \in SettledIn(t.events, i) : RecipientIn(t, t.events[x]) = a)
              <=> (\E x \in SettledIn(s.events, i) : RecipientIn(s, s.events[x]) = a)
        BY <2>1 DEF RecipientIn
      <4>2. \A x \in Below(calls, n + 1, i) : calls'[x].to = calls[x].to
        BY <1>1 DEF Below
      <4>3. (\E x \in Below(calls', n + 2, i) : calls'[x].to = a)
              <=> \/ \E x \in Below(calls, n + 1, i) : calls[x].to = a
                  \/ i = j /\ a = to
        BY <1>1, <2>2, <4>2 DEF to, s
      <4>4. i \in Got(t, calls', n + 2, a)
              <=> \/ \E x \in SettledIn(t.events, i) : RecipientIn(t, t.events[x]) = a
                  \/ \E x \in Below(calls', n + 2, i) : calls'[x].to = a
        BY DEF Got
      <4>5. i \in Got(s, calls, n + 1, a)
              <=> \/ \E x \in SettledIn(s.events, i) : RecipientIn(s, s.events[x]) = a
                  \/ \E x \in Below(calls, n + 1, i) : calls[x].to = a
        BY DEF Got
      <4> QED BY <4>1, <4>3, <4>4, <4>5
    <3> DEFINE A == Got(t, calls', n + 2, a)
               B == Got(s, calls, n + 1, a)
    <3>4. A \subseteq Job /\ B \subseteq Job
      BY DEF Got
    <3>5. \A i \in Job : i \in A <=> i \in B \/ (i = j /\ a = to)
      BY <3>3
    <3> HIDE DEF A, B
    <3>6. A = IF a = to THEN B \cup {j} ELSE B
      BY <3>4, <3>5
    <3> QED BY <3>1, <3>2, <3>6 DEF A, B
  <2>10. ASSUME NEW a \in Account
         PROVE  t.wallet[a] = Funds[a] - SumFunctionOnSet(RewardsIn(t), Spent(t, a))
                                + SumFunctionOnSet(RewardsIn(t), Got(t, calls', n + 2, a))
    <3> DEFINE G == Got(s, calls, n + 1, a)
    <3>1. s.wallet[a] = Funds[a] - SumFunctionOnSet(RewardsIn(s), Spent(s, a))
                          + SumFunctionOnSet(RewardsIn(s), G)
      BY <1>2 DEF Accounted, ExplainedIn
    <3>2. /\ G \in SUBSET Job /\ Spent(s, a) \in SUBSET Job
          /\ Funds[a] \in Nat
      BY DEF Got, Spent, ConstantsAssumption
    <3>3. /\ SumFunctionOnSet(RewardsIn(s), G) \in Nat
          /\ SumFunctionOnSet(RewardsIn(s), Spent(s, a)) \in Nat
      <4> HIDE DEF G
      <4> QED BY <2>1, <3>2, RewardsType
    <3>4. CASE a = to
      <4>1. SumFunctionOnSet(RewardsIn(s), G \cup {j})
              = r + SumFunctionOnSet(RewardsIn(s), G)
        <5>1. s.jobs[j].reward = r /\ j \notin G
          BY <2>1, <2>9 DEF r
        <5>2. s.jobs \in [Job -> JobRecord]
          BY <2>1
        <5> HIDE DEF G
        <5> QED BY <3>2, <5>1, <5>2, RewardsWith
      <4>2. t.wallet[a] = s.wallet[a] + r
        BY <2>1, <3>4
      <4> HIDE DEF G
      <4>3. Spent(t, a) = Spent(s, a) /\ Got(t, calls', n + 2, a) = G \cup {j}
        BY <2>9, <3>4 DEF G
      <4> DEFINE spent == SumFunctionOnSet(RewardsIn(s), Spent(s, a))
                 got == SumFunctionOnSet(RewardsIn(s), G)
      <4>4. SumFunctionOnSet(RewardsIn(t), Got(t, calls', n + 2, a)) = r + got
        BY <2>7, <4>1, <4>3
      <4>5. SumFunctionOnSet(RewardsIn(t), Spent(t, a)) = spent
        BY <2>7, <4>3
      <4>6. /\ s.wallet[a] = Funds[a] - spent + got
            /\ spent \in Nat /\ got \in Nat /\ r \in Nat /\ Funds[a] \in Nat
        BY <2>1, <3>1, <3>2, <3>3
      <4> HIDE DEF spent, got
      <4>7. t.wallet[a] = Funds[a] - spent + (r + got)
        BY <4>2, <4>6
      <4> QED BY <4>4, <4>5, <4>7
    <3>5. CASE a # to
      <4>1. t.wallet[a] = s.wallet[a]
        BY <2>1, <3>5
      <4> QED BY <2>7, <2>9, <3>1, <3>5, <4>1
    <3> QED BY <3>4, <3>5
  <2> QED BY <2>4, <2>5, <2>8, <2>10 DEF Accounted, ExplainedIn
<1>5. StorageAt(calls', Snapshot', n + 2) = Snapshot'
  BY <1>1 DEF StorageAt
<1>6. \A k \in 1..Len(calls') + 1 : k \in 1..n + 1 \/ k = n + 2
  BY <1>1
<1> QED BY <1>3, <1>4, <1>5, <1>6 DEF BalanceInv

(* A payment that returns: what was being settled is settled.              *)
LEMMA CallReturnsAccounted ==
  ASSUME TypeOK, BalanceInv, CallReturns
  PROVE  BalanceInv'
<1> DEFINE n == Len(calls)
           e == calls[n].event
           s == Snapshot
           t == Snapshot'
<1>1. /\ n \in Nat \ {0}
      /\ calls # <<>>
      /\ calls' = SubSeq(calls, 1, n - 1)
      /\ \A i \in 1..n - 1 : calls'[i] = calls[i]
      /\ calls[n] \in CallRecord
  BY PopCalls DEF CallReturns, Top
<1>2. /\ events \in Seq(EventRecord)
      /\ e \in EventRecord
      /\ s.events = events
      /\ t.events = Append(events, e)
      /\ t.jobs = s.jobs
      /\ t.completed = s.completed
      /\ t.balance = s.balance
      /\ t.wallet = s.wallet
  BY <1>1, SnapshotType DEF CallReturns, Top, CallRecord, Snapshot
<1>3. Accounted(s, calls, n + 1)
  BY <1>1 DEF BalanceInv, StorageAt
<1>4. \A x : RecipientIn(t, x) = RecipientIn(s, x)
  BY <1>2 DEF RecipientIn
<1>5. calls[n].to = RecipientIn(s, e)
  <2>1. n \in 1..(n + 1) - 1
    BY <1>1
  <2> QED BY <1>3, <2>1 DEF Accounted, Addressed
<1> DEFINE l == Len(events) + 1
<1>6. /\ \A i \in 1..l - 1 : t.events[i] = s.events[i]
      /\ t.events[l] = e
      /\ DOMAIN s.events = 1..l - 1
      /\ DOMAIN t.events = (1..l - 1) \cup {l}
      /\ l \notin 1..l - 1
  <2> HIDE DEF e
  <2> QED BY <1>2
<1> HIDE DEF e, s, t, l
<1>7. ASSUME NEW j \in Job
      PROVE  /\ SettledIn(t.events, j) = SettledIn(s.events, j)
                                           \cup (IF IsSettlement(e, j) THEN {l} ELSE {})
             /\ \A i \in SettledIn(s.events, j) : t.events[i] = s.events[i]
             /\ Below(calls', n, j) = Below(calls, n, j)
             /\ Below(calls, n + 1, j) = Below(calls, n, j)
                                           \cup (IF IsSettlement(e, j) THEN {n} ELSE {})
             /\ \A i \in Below(calls, n, j) : calls'[i] = calls[i]
  <2>1. SettledIn(t.events, j) = SettledIn(s.events, j)
                                   \cup (IF IsSettlement(e, j) THEN {l} ELSE {})
    BY <1>6 DEF SettledIn
  <2>2. \A i \in SettledIn(s.events, j) : t.events[i] = s.events[i]
    BY <1>6 DEF SettledIn
  <2>3. Below(calls', n, j) = Below(calls, n, j)
    BY <1>1 DEF Below
  <2>4. Below(calls, n + 1, j) = Below(calls, n, j)
                                   \cup (IF IsSettlement(e, j) THEN {n} ELSE {})
    <3>1. 1..(n + 1) - 1 = (1..n - 1) \cup {n}
      BY <1>1
    <3> QED BY <3>1 DEF Below, e
  <2>5. \A i \in Below(calls, n, j) : calls'[i] = calls[i]
    BY <1>1 DEF Below
  <2> QED BY <2>1, <2>2, <2>3, <2>4, <2>5
<1>8. Marks(t, calls', n)
  BY <1>2, <1>3, <1>7 DEF Accounted, Marks
<1>9. Addressed(t, calls', n)
  <2>1. \A i \in 1..n - 1 : i \in 1..(n + 1) - 1 /\ calls'[i] = calls[i]
    BY <1>1
  <2> QED BY <1>3, <1>4, <2>1 DEF Accounted, Addressed
<1>10. RewardsIn(t) = RewardsIn(s) /\ OpenIn(t) = OpenIn(s)
  BY <1>2 DEF RewardsIn, OpenIn
<1>11. SolventIn(t)
  BY <1>2, <1>3, <1>10 DEF Accounted, SolventIn
<1>12. ASSUME NEW a \in Account
       PROVE  Spent(t, a) = Spent(s, a) /\ Got(t, calls', n, a) = Got(s, calls, n + 1, a)
  <2>1. Spent(t, a) = Spent(s, a)
    BY <1>2 DEF Spent
  <2>2. ASSUME NEW j \in Job
        PROVE  j \in Got(t, calls', n, a) <=> j \in Got(s, calls, n + 1, a)
    <3> DEFINE Last == IsSettlement(e, j) /\ RecipientIn(s, e) = a
               Logged == \E i \in SettledIn(s.events, j) : RecipientIn(s, s.events[i]) = a
               Pending == \E i \in Below(calls, n, j) : calls[i].to = a
    <3>1. (\E i \in SettledIn(t.events, j) : RecipientIn(t, t.events[i]) = a)
            <=> Logged \/ Last
      BY <1>4, <1>6, <1>7
    <3>2. (\E i \in Below(calls', n, j) : calls'[i].to = a) <=> Pending
      BY <1>7
    <3>3. (\E i \in Below(calls, n + 1, j) : calls[i].to = a) <=> Pending \/ Last
      BY <1>5, <1>7
    <3> HIDE DEF Last, Logged, Pending
    <3>4. j \in Got(t, calls', n, a) <=> Logged \/ Last \/ Pending
      BY <3>1, <3>2 DEF Got
    <3>5. j \in Got(s, calls, n + 1, a) <=> Logged \/ Pending \/ Last
      BY <3>3 DEF Got, Logged
    <3> QED BY <3>4, <3>5
  <2>3. Got(t, calls', n, a) \subseteq Job /\ Got(s, calls, n + 1, a) \subseteq Job
    BY DEF Got
  <2> QED BY <2>1, <2>2, <2>3
<1>13. ExplainedIn(t, calls', n)
  BY <1>2, <1>3, <1>10, <1>12 DEF Accounted, ExplainedIn
<1>14. Accounted(t, calls', n)
  BY <1>8, <1>9, <1>11, <1>13 DEF Accounted
<1> QED BY <1>1, <1>14, PopAccounted DEF t

(* A payment that fails: the books of the storage found on entry were kept. *)
LEMMA CallFailsAccounted ==
  ASSUME TypeOK, BalanceInv, CallFails
  PROVE  BalanceInv'
<1> DEFINE n == Len(calls)
<1>1. /\ n \in Nat \ {0}
      /\ calls # <<>>
      /\ calls' = SubSeq(calls, 1, n - 1)
      /\ \A i \in 1..n - 1 : calls'[i] = calls[i]
      /\ calls[n] \in CallRecord
  BY PopCalls DEF CallFails, Top
<1>2. Snapshot' = calls[n].entry
  BY <1>1 DEF CallFails, Top, Snapshot, CallRecord, Storage
<1>3. Accounted(calls[n].entry, calls, n)
  <2>1. n \in 1..n + 1 /\ n # n + 1
    BY <1>1
  <2> QED BY <2>1 DEF BalanceInv, StorageAt
<1>4. Accounted(Snapshot', calls', n)
  BY <1>1, <1>2, <1>3, AccountedBelow
<1> QED BY <1>1, <1>4, PopAccounted

(* A submission: its value goes from the wallet of the owner into the      *)
(* contract, for a job nobody had submitted.                               *)
LEMMA SubmitJobAccounted ==
  ASSUME ConstantsAssumption, TypeOK, TypeOK', BalanceInv, NEW a \in Account, NEW j \in Job,
         NEW p \in Payload, NEW value \in Reward, NEW deadline \in 0..MaxClock,
         SubmitJob(a, j, p, value, deadline)
  PROVE  BalanceInv'
<1> DEFINE n == Len(calls)
           e == [type |-> "JobSubmitted", job |-> j, who |-> a, result |-> NoResult]
           s == Snapshot
           t == Snapshot'
<1>1. /\ n \in Nat
      /\ events \in Seq(EventRecord)
      /\ e \in EventRecord
      /\ ~IsSettlement(e, j)
      /\ calls' = calls
  BY SnapshotType DEF TypeOK, EventRecord, IsSettlement, SubmitJob
<1>2. /\ s.events = events /\ t.events = Append(events, e)
      /\ t.completed = s.completed
      /\ s.jobs \in [Job -> JobRecord]
      /\ t.jobs \in [Job -> JobRecord]
      /\ \A i \in Job : i # j => t.jobs[i] = s.jobs[i]
      /\ s.jobs[j] = NullJob
      /\ t.jobs[j].owner = a /\ t.jobs[j].reward = value /\ t.jobs[j].exists
      /\ value \in Nat
      /\ s.balance \in Nat
      /\ t.balance = s.balance + value
      /\ s.wallet \in [Account -> Nat]
      /\ t.wallet = [s.wallet EXCEPT ![a] = @ - value]
  <2>1. jobs[j] = NullJob
    <3>1. jobs[j] \in JobRecord /\ ~jobs[j].exists
      BY SnapshotType DEF SubmitJob, Accepts
    <3> QED BY <3>1 DEF JobRecord
  <2>2. jobs' \in [Job -> JobRecord]
    BY DEF TypeOK, Snapshot, Storage
  <2> QED BY <2>1, <2>2, SnapshotType DEF SubmitJob, Snapshot, ConstantsAssumption
<1>3. Accounted(s, calls, n + 1)
  BY <1>1 DEF BalanceInv, StorageAt
<1>4. /\ \A i \in DOMAIN s.events : t.events[i] = s.events[i] /\ i \in DOMAIN t.events
      /\ DOMAIN t.events = DOMAIN s.events \cup {Len(events) + 1}
      /\ t.events[Len(events) + 1] = e
  <2> HIDE DEF e
  <2> QED BY <1>1, <1>2
<1>5. ~s.jobs[j].exists /\ s.jobs[j].owner = ZeroAddress /\ ZeroAddress \notin Account
  BY <1>2 DEF NullJob, ConstantsAssumption
<1> HIDE DEF s, t
<1>6. /\ ~s.completed[j]
      /\ SettledIn(s.events, j) = {}
      /\ Below(calls, n + 1, j) = {}
  BY <1>3, <1>5 DEF Accounted, Marks
<1>7. ASSUME NEW i \in Job
      PROVE  SettledIn(t.events, i) = SettledIn(s.events, i)
  <2>1. ~IsSettlement(e, i)
    BY DEF IsSettlement
  <2> HIDE DEF e
  <2> QED BY <1>4, <2>1 DEF SettledIn
<1>8. ASSUME NEW x, IsSettlement(x, x.job), x.job \in Job, x.job # j
      PROVE  RecipientIn(t, x) = RecipientIn(s, x)
  BY <1>2, <1>8 DEF RecipientIn
<1>9. Marks(t, calls, n + 1)
  BY <1>2, <1>3, <1>7 DEF Accounted, Marks
<1>10. Addressed(t, calls, n + 1)
  <2> SUFFICES ASSUME NEW i \in 1..(n + 1) - 1
               PROVE  /\ IsSettlement(calls[i].event, calls[i].event.job)
                      /\ calls[i].to = RecipientIn(t, calls[i].event)
    BY DEF Addressed
  <2> DEFINE x == calls[i].event
  <2>1. IsSettlement(x, x.job) /\ calls[i].to = RecipientIn(s, x)
    BY <1>3 DEF Accounted, Addressed
  <2>2. x.job \in Job
    <3>1. calls[i] \in CallRecord
      BY <1>1 DEF TypeOK
    <3> QED BY <3>1 DEF CallRecord, EventRecord
  <2>3. x.job # j
    <3>1. i \in Below(calls, n + 1, x.job)
      BY <2>1 DEF Below
    <3> QED BY <1>6, <3>1
  <2> QED BY <1>8, <2>1, <2>2, <2>3
<1>11. SolventIn(t)
  <2> DEFINE O == OpenIn(s)
  <2>1. OpenIn(t) = O \cup {j} /\ j \notin O /\ O \in SUBSET Job
    BY <1>2, <1>5, <1>6 DEF OpenIn
  <2> HIDE DEF O
  <2>2. SumFunctionOnSet(RewardsIn(t), O \cup {j})
          = t.jobs[j].reward + SumFunctionOnSet(RewardsIn(t), O)
    <3>1. t.jobs \in [Job -> JobRecord]
      BY <1>2
    <3> QED BY <2>1, <3>1, RewardsWith
  <2>3. SumFunctionOnSet(RewardsIn(t), O) = SumFunctionOnSet(RewardsIn(s), O)
    <3>1. \A i \in O : t.jobs[i].reward = s.jobs[i].reward
      BY <1>2, <2>1
    <3> QED BY <2>1, <3>1, RewardsSame
  <2>4. s.balance = SumFunctionOnSet(RewardsIn(s), O)
    BY <1>3 DEF Accounted, SolventIn, O
  <2>5. SumFunctionOnSet(RewardsIn(t), OpenIn(t)) = value + s.balance
    BY <1>2, <2>1, <2>2, <2>3, <2>4
  <2> QED BY <1>2, <2>5 DEF SolventIn
<1>12. ASSUME NEW b \in Account
       PROVE  t.wallet[b] = Funds[b] - SumFunctionOnSet(RewardsIn(t), Spent(t, b))
                                     + SumFunctionOnSet(RewardsIn(t), Got(t, calls, n + 1, b))
  <2> DEFINE G == Got(s, calls, n + 1, b)
             P == Spent(s, b)
             got == SumFunctionOnSet(RewardsIn(s), G)
             spent == SumFunctionOnSet(RewardsIn(s), P)
  <2>1. G \in SUBSET Job /\ P \in SUBSET Job /\ j \notin G /\ j \notin P
    BY <1>5, <1>6 DEF Got, Spent
  <2>2. Spent(t, b) = IF b = a THEN P \cup {j} ELSE P
    BY <1>2, <1>5 DEF Spent
  <2>3. Got(t, calls, n + 1, b) = G
    <3>1. ASSUME NEW i \in Job
          PROVE  (\E x \in SettledIn(t.events, i) : RecipientIn(t, t.events[x]) = b)
                   <=> (\E x \in SettledIn(s.events, i) : RecipientIn(s, s.events[x]) = b)
      <4>1. CASE i = j
        BY <1>6, <1>7, <4>1
      <4>2. CASE i # j
        <5>1. ASSUME NEW x \in SettledIn(s.events, i)
              PROVE  RecipientIn(t, t.events[x]) = RecipientIn(s, s.events[x])
          <6>1. t.events[x] = s.events[x] /\ IsSettlement(s.events[x], i)
            BY <1>4 DEF SettledIn
          <6>2. s.events[x].job = i
            BY <6>1 DEF IsSettlement
          <6> QED BY <1>8, <4>2, <6>1, <6>2
        <5> QED BY <1>7, <5>1
      <4> QED BY <4>1, <4>2
    <3> QED BY <3>1 DEF Got
  <2> HIDE DEF G, P
  <2>4. s.wallet[b] = Funds[b] - spent + got
    BY <1>3 DEF Accounted, ExplainedIn, G, P
  <2>5. spent \in Nat /\ got \in Nat /\ Funds[b] \in Nat
    <3>1. Funds[b] \in Nat
      BY DEF ConstantsAssumption
    <3> QED BY <1>2, <2>1, <3>1, RewardsType
  <2>6. ASSUME NEW T \in SUBSET Job, j \notin T
        PROVE  SumFunctionOnSet(RewardsIn(t), T) = SumFunctionOnSet(RewardsIn(s), T)
    <3>1. \A i \in T : t.jobs[i].reward = s.jobs[i].reward
      BY <1>2, <2>6
    <3> QED BY <3>1, RewardsSame
  <2>7. SumFunctionOnSet(RewardsIn(t), Got(t, calls, n + 1, b)) = got
    BY <2>1, <2>3, <2>6
  <2>8. SumFunctionOnSet(RewardsIn(t), P) = spent
    BY <2>1, <2>6
  <2>9. CASE b = a
    <3>1. SumFunctionOnSet(RewardsIn(t), P \cup {j})
            = t.jobs[j].reward + SumFunctionOnSet(RewardsIn(t), P)
      <4>1. t.jobs \in [Job -> JobRecord]
        BY <1>2
      <4> QED BY <2>1, <4>1, RewardsWith
    <3>2. SumFunctionOnSet(RewardsIn(t), Spent(t, b)) = value + spent
      BY <1>2, <2>2, <2>8, <2>9, <3>1
    <3>3. t.wallet[b] = s.wallet[b] - value
      BY <1>2, <2>9
    <3> HIDE DEF spent, got
    <3>4. t.wallet[b] = Funds[b] - (value + spent) + got
      BY <1>2, <2>4, <2>5, <3>3
    <3> QED BY <2>7, <3>2, <3>4
  <2>10. CASE b # a
    <3>1. t.wallet[b] = s.wallet[b]
      BY <1>2, <2>10
    <3> HIDE DEF spent, got
    <3> QED BY <2>2, <2>4, <2>7, <2>8, <2>10, <3>1
  <2> QED BY <2>9, <2>10
<1>13. Accounted(t, calls, n + 1)
  BY <1>9, <1>10, <1>11, <1>12 DEF Accounted, ExplainedIn
<1> QED BY <1>1, <1>13, SameCallsAccounted DEF t

(* Time passing and guest executions touch no storage.                     *)
LEMMA SameStorageAccounted ==
  ASSUME TypeOK, BalanceInv, UNCHANGED <<storage, calls>>
  PROVE  BalanceInv'
<1>1. Snapshot' = Snapshot /\ calls' = calls
  BY DEF storage, Snapshot
<1>2. Len(calls) + 1 \in Nat \ {0}
  BY DEF TypeOK
<1>3. Accounted(Snapshot, calls, Len(calls) + 1)
  BY <1>2 DEF BalanceInv, StorageAt
<1> QED BY <1>1, <1>3, SameCallsAccounted

-----------------------------------------------------------------------------
(* Theorems                                                                *)

(* The books of every storage the contract can be in or fall back to are   *)
(* kept.                                                                   *)
THEOREM BooksAreKept == Spec => []BalanceInv
<1>1. Init => BalanceInv
  <2> SUFFICES ASSUME Init
               PROVE  BalanceInv
    OBVIOUS
  <2> DEFINE s == Snapshot
  <2>1. Len(calls) + 1 = 1 /\ StorageAt(calls, Snapshot, 1) = s
    BY DEF Init, StorageAt
  <2>2. \A j \in Job : /\ SettledIn(s.events, j) = {} /\ Below(calls, 1, j) = {}
                       /\ ~s.completed[j] /\ ~s.jobs[j].exists
                       /\ s.jobs[j].owner = ZeroAddress
    BY DEF Init, Snapshot, SettledIn, Below, NullJob
  <2>3. s.balance = 0 /\ s.wallet = Funds
    BY DEF Init, Snapshot
  <2> HIDE DEF s
  <2>4. Marks(s, calls, 1) /\ Addressed(s, calls, 1)
    BY <2>2 DEF Marks, Addressed
  <2>5. SumFunctionOnSet(RewardsIn(s), {}) = 0
    BY FS_EmptySet, SumSteps
  <2>6. OpenIn(s) = {}
    BY <2>2 DEF OpenIn
  <2>7. ASSUME NEW a \in Account
        PROVE  Spent(s, a) = {} /\ Got(s, calls, 1, a) = {} /\ Funds[a] \in Nat
    BY <2>2, ConstantsAssumption DEF Spent, Got, ConstantsAssumption
  <2>8. SolventIn(s) /\ ExplainedIn(s, calls, 1)
    <3>1. SolventIn(s)
      BY <2>3, <2>5, <2>6 DEF SolventIn
    <3>2. ASSUME NEW a \in Account
          PROVE  s.wallet[a] = Funds[a] - SumFunctionOnSet(RewardsIn(s), Spent(s, a))
                                 + SumFunctionOnSet(RewardsIn(s), Got(s, calls, 1, a))
      <4>1. s.wallet[a] = Funds[a] - 0 + 0
        BY <2>3, <2>7
      <4> QED BY <2>5, <2>7, <4>1
    <3> QED BY <3>1, <3>2 DEF ExplainedIn
  <2> QED BY <2>1, <2>4, <2>8 DEF BalanceInv, Accounted
<1>2. ASSUME TypeOK, TypeOK', BalanceInv, [Next]_vars
      PROVE  BalanceInv'
  <2> USE ConstantsAssumption
  <2>1. CASE Tick
    BY <1>2, <2>1, SameStorageAccounted DEF Tick
  <2>2. ASSUME NEW j \in Job, NEW p \in Payload, GuestRuns(j, p)
        PROVE  BalanceInv'
    BY <1>2, <2>2, SameStorageAccounted DEF GuestRuns
  <2>3. ASSUME NEW a \in Account, NEW j \in Job, NEW p \in Payload, NEW value \in Reward,
               NEW deadline \in 0..MaxClock, SubmitJob(a, j, p, value, deadline)
        PROVE  BalanceInv'
    BY <1>2, <2>3, SubmitJobAccounted
  <2>4. ASSUME NEW a \in Account, NEW j \in Job, NEW journal \in Journal,
               SubmitProof(a, j, journal)
        PROVE  BalanceInv'
    <3> DEFINE e == [type |-> "JobCompleted", job |-> j, who |-> a,
                     result |-> journal.result]
    <3>1. e \in EventRecord /\ IsSettlement(e, j) /\ RecipientIn(Snapshot, e) = a
      BY <2>4 DEF SubmitProof, JournalMatches, Journal, EventRecord, IsSettlement, RecipientIn
    <3>2. jobs[j].exists /\ ~completed[j] /\ Settle(a, j, e)
      BY <2>4 DEF SubmitProof, MaySettle
    <3> HIDE DEF e
    <3> QED BY <1>2, <3>1, <3>2, SettleAccounted
  <2>5. ASSUME NEW a \in Account, NEW j \in Job, ExpireJob(a, j)
        PROVE  BalanceInv'
    <3> DEFINE e == [type |-> "JobExpired", job |-> j, who |-> ZeroAddress,
                     result |-> NoResult]
    <3>1. e \in EventRecord /\ IsSettlement(e, j)
      BY DEF EventRecord, IsSettlement
    <3>2. RecipientIn(Snapshot, e) = jobs[j].owner
      BY DEF RecipientIn, Snapshot
    <3>3. jobs[j].exists /\ ~completed[j] /\ Settle(jobs[j].owner, j, e)
      BY <2>5 DEF ExpireJob, MaySettle
    <3>4. jobs[j].owner \in Account
      BY <1>2, <3>3, SubmittedJobType
    <3> HIDE DEF e
    <3> QED BY <1>2, <3>1, <3>2, <3>3, <3>4, SettleAccounted
  <2>6. CASE CallReturns
    BY <1>2, <2>6, CallReturnsAccounted
  <2>7. CASE CallFails
    BY <1>2, <2>7, CallFailsAccounted
  <2>8. CASE UNCHANGED vars
    BY <1>2, <2>8, SameStorageAccounted DEF vars, storage
  <2> QED BY <1>2, <2>1, <2>2, <2>3, <2>4, <2>5, <2>6, <2>7, <2>8 DEF Next
<1> QED BY <1>1, <1>2, TypeCorrect, PTL DEF Spec

(* However deep calls nest and whichever revert, the contract holds the    *)
(* rewards of the open jobs and nothing else.                              *)
THEOREM AlwaysSolvent == Spec => []Solvent
<1>1. ASSUME TypeOK, BalanceInv
      PROVE  Solvent
  <2>1. Len(calls) + 1 \in 1..Len(calls) + 1
    BY <1>1 DEF TypeOK
  <2>2. SolventIn(Snapshot)
    BY <1>1, <2>1 DEF BalanceInv, StorageAt, Accounted
  <2>3. RewardsIn(Snapshot) = Rewards /\ OpenIn(Snapshot) = Open /\ Snapshot.balance = balance
    BY DEF RewardsIn, OpenIn, Rewards, Open, Snapshot
  <2> QED BY <2>2, <2>3 DEF SolventIn, Solvent
<1> QED BY <1>1, TypeCorrect, BooksAreKept, PTL

(* Every guard of the settling functions that the state of the contract    *)
(* decides: an open job can be paid out, and so can two of them one inside *)
(* the other.  What remains is the proof, the deadline and the recipient.  *)
Covered ==
  /\ \A j \in Open : jobs[j].reward <= balance
  /\ \A i, j \in Open : i # j => jobs[i].reward <= balance - jobs[j].reward

(* `to.call{value: reward}` of submitProof and expireJob never fails for   *)
(* lack of ether: no deposit can be locked by the payment of another one.  *)
THEOREM RefundsAreCovered == Spec => []Covered
<1>1. ASSUME TypeOK, Solvent
      PROVE  Covered
  <2>1. /\ \A j \in Job : Rewards[j] \in Nat /\ Rewards[j] = jobs[j].reward
        /\ IsFiniteSet(Open)
    BY <1>1, ConstantsAssumption, RewardsType, Snapshot.jobs = jobs
    DEF TypeOK, Storage, Snapshot, RewardsIn, Rewards, Open
  <2>2. /\ \A j \in Open : Rewards[j] <= balance
        /\ \A i, j \in Open : i # j => Rewards[i] + Rewards[j] <= balance
    BY <1>1, <2>1, SumAtLeast DEF Solvent, Open
  <2>3. balance \in Nat
    BY <1>1 DEF TypeOK, Storage, Snapshot
  <2> QED BY <2>1, <2>2, <2>3 DEF Covered, Open
<1> QED BY <1>1, TypeCorrect, AlwaysSolvent, PTL

(* Every wallet is what the log and the calls under way say its account    *)
(* has paid and was paid.                                                  *)
THEOREM AlwaysExplained == Spec => []Explained
<1>1. ASSUME TypeOK, BalanceInv
      PROVE  Explained
  <2> DEFINE n == Len(calls)
  <2>1. n \in Nat /\ DOMAIN calls = 1..n
    BY <1>1 DEF TypeOK
  <2>2. ExplainedIn(Snapshot, calls, n + 1)
    BY <1>1, <2>1 DEF BalanceInv, StorageAt, Accounted
  <2>3. \A j \in Job : PendingIn(calls, j) = Below(calls, n + 1, j)
    BY <2>1 DEF PendingIn, Below
  <2>4. RewardsIn(Snapshot) = Rewards
    BY DEF RewardsIn, Rewards, Snapshot
  <2>5. ASSUME NEW a \in Account
        PROVE  /\ Spent(Snapshot, a) = {j \in Job : jobs[j].owner = a}
               /\ Got(Snapshot, calls, n + 1, a)
                    = {j \in Job : \/ \E i \in SettledIn(events, j) : Recipient(events[i]) = a
                                   \/ \E i \in PendingIn(calls, j) : calls[i].to = a}
    BY <2>3 DEF Spent, Got, Snapshot, RecipientIn, Recipient
  <2>6. Snapshot.wallet = wallet
    BY DEF Snapshot
  <2> QED BY <2>2, <2>4, <2>5, <2>6 DEF ExplainedIn, Explained
<1> QED BY <1>1, TypeCorrect, BooksAreKept, PTL
=============================================================================
