---------------------------- MODULE EscrowProofs ----------------------------
(***************************************************************************)
(* JobRegistry implements Escrow: whatever the recipients of payments do,  *)
(* call back, return or revert, each transaction moves each reward as one  *)
(* step of the abstract escrow does, or leaves it where it is.             *)
(***************************************************************************)
EXTENDS JobRegistryProofs

-----------------------------------------------------------------------------
(* The abstract escrow, by the values a reward goes through                *)

Locked(o, d) == [state |-> "open", owner |-> o, deadline |-> d, payee |-> ZeroAddress]
Paid(o, d, p) == [state |-> "paid", owner |-> o, deadline |-> d, payee |-> p]
Refunded(o, d) == [state |-> "refunded", owner |-> o, deadline |-> d, payee |-> o]

(* What one transaction at time `now` may make of the reward e: it can be  *)
(* locked, paid or refunded, or locked and paid at once.                   *)
Moves(now, e, f) ==
  \/ f = e
  \/ /\ e = Promise!Nothing
     /\ \E o \in Account, d \in Nat :
          /\ d > now
          /\ f = Locked(o, d) \/ \E p \in Account : f = Paid(o, d, p)
  \/ \E o \in Account, d \in Nat :
       /\ e = Locked(o, d)
       /\ \/ d >= now /\ \E p \in Account : f = Paid(o, d, p)
          \/ d < now /\ f = Refunded(o, d)

(* An escrow entry, and one whose state and payee are changed.             *)
Entry(a, b, c, d) == [state |-> a, owner |-> b, deadline |-> c, payee |-> d]

Changed(e, x, y) == [e EXCEPT !.state = x, !.payee = y]

(* Changing two fields changes no other.                                   *)
LEMMA ChangeTwo ==
  ASSUME NEW a, NEW b, NEW c, NEW d, NEW x, NEW y
  PROVE  Changed(Entry(a, b, c, d), x, y) = Entry(x, b, c, y)
<1> DEFINE e == Entry(a, b, c, d)
           e1 == [e EXCEPT !.state = x]
<1>1. e1 = [state |-> x, owner |-> b, deadline |-> c, payee |-> d]
  BY DEF Entry
<1> HIDE DEF e1
<1>2. [e1 EXCEPT !.payee = y] = Entry(x, b, c, y)
  BY <1>1 DEF Entry
<1> QED BY <1>2 DEF e1, Changed

(* All that opening a reward changes.                                      *)
LEMMA ChangeThree ==
  ASSUME NEW o, NEW d
  PROVE  [Promise!Nothing EXCEPT !.state = "open", !.owner = o, !.deadline = d] = Locked(o, d)
<1> DEFINE e1 == [Promise!Nothing EXCEPT !.state = "open"]
           e2 == [e1 EXCEPT !.owner = o]
<1>1. e1 = [state |-> "open", owner |-> ZeroAddress, deadline |-> 0, payee |-> ZeroAddress]
  BY DEF Promise!Nothing
<1> HIDE DEF e1
<1>2. e2 = [state |-> "open", owner |-> o, deadline |-> 0, payee |-> ZeroAddress]
  BY <1>1
<1> HIDE DEF e2
<1>3. [e2 EXCEPT !.deadline = d] = Locked(o, d)
  BY <1>2 DEF Locked
<1> QED BY <1>3 DEF e1, e2

(* These are steps of Escrow.                                              *)
LEMMA MovesAreLegal ==
  ASSUME clock \in Nat, NEW e, NEW f, Moves(clock, e, f)
  PROVE  Promise!Legal(e, f)
<1>1. CASE f = e
  BY <1>1 DEF Promise!Legal
<1>2. ASSUME NEW o \in Account, NEW d \in Nat, d > clock, e = Promise!Nothing, f = Locked(o, d)
      PROVE  Promise!Legal(e, f)
  <2>1. f = [Promise!Nothing EXCEPT !.state = "open", !.owner = f.owner,
                                    !.deadline = f.deadline]
    BY <1>2, ChangeThree DEF Locked
  <2>2. f.owner = o /\ f.deadline = d
    BY <1>2 DEF Locked
  <2>3. Promise!Opens(e, f)
    BY <1>2, <2>1, <2>2 DEF Promise!Opens
  <2> QED BY <2>3 DEF Promise!Legal
<1>3. ASSUME NEW o \in Account, NEW d \in Nat, NEW p \in Account, d > clock,
             e = Promise!Nothing, f = Paid(o, d, p)
      PROVE  Promise!Legal(e, f)
  <2> DEFINE g == [f EXCEPT !.state = "open", !.payee = ZeroAddress]
  <2>1. g = Locked(o, d)
    <3>1. f = Entry("paid", o, d, p)
      BY <1>3 DEF Paid, Entry
    <3>2. Changed(f, "open", ZeroAddress) = Entry("open", o, d, ZeroAddress)
      BY <3>1, ChangeTwo
    <3> QED BY <3>2 DEF Locked, Entry, Changed
  <2> HIDE DEF g
  <2>2. g = [Promise!Nothing EXCEPT !.state = "open", !.owner = g.owner,
                                    !.deadline = g.deadline]
    BY <2>1, ChangeThree DEF Locked
  <2>3. g.owner = o /\ g.deadline = d
    BY <2>1 DEF Locked
  <2>4. Promise!Opens(e, g)
    BY <1>3, <2>2, <2>3 DEF Promise!Opens
  <2>5. f.state = "paid" /\ f.payee = p
    BY <1>3 DEF Paid
  <2>6. Promise!OpensAndPays(e, f)
    BY <1>3, <2>4, <2>5 DEF Promise!OpensAndPays, g
  <2> QED BY <2>6 DEF Promise!Legal
<1>4. ASSUME NEW o \in Account, NEW d \in Nat, NEW p \in Account, d >= clock,
             e = Locked(o, d), f = Paid(o, d, p)
      PROVE  Promise!Legal(e, f)
  <2>1. f.payee = p /\ e.state = "open" /\ e.deadline = d
    BY <1>4 DEF Paid, Locked
  <2>2. f = [e EXCEPT !.state = "paid", !.payee = p]
    <3>1. e = Entry("open", o, d, ZeroAddress)
      BY <1>4 DEF Locked, Entry
    <3>2. Changed(e, "paid", p) = Entry("paid", o, d, p)
      BY <3>1, ChangeTwo
    <3> QED BY <1>4, <3>2 DEF Paid, Entry, Changed
  <2>3. Promise!Pays(e, f)
    BY <1>4, <2>1, <2>2 DEF Promise!Pays
  <2> QED BY <2>3 DEF Promise!Legal
<1>5. ASSUME NEW o \in Account, NEW d \in Nat, d < clock, e = Locked(o, d), f = Refunded(o, d)
      PROVE  Promise!Legal(e, f)
  <2>1. e.owner = o /\ e.state = "open" /\ e.deadline = d
    BY <1>5 DEF Locked
  <2>2. f = [e EXCEPT !.state = "refunded", !.payee = o]
    <3>1. e = Entry("open", o, d, ZeroAddress)
      BY <1>5 DEF Locked, Entry
    <3>2. Changed(e, "refunded", o) = Entry("refunded", o, d, o)
      BY <3>1, ChangeTwo
    <3> QED BY <1>5, <3>2 DEF Refunded, Entry, Changed
  <2>3. Promise!Refunds(e, f)
    BY <1>5, <2>1, <2>2 DEF Promise!Refunds
  <2> QED BY <2>3 DEF Promise!Legal
<1> QED BY <1>1, <1>2, <1>3, <1>4, <1>5 DEF Moves

(* Within one transaction, steps add up to a step: what is settled stays   *)
(* as it is, and what was opened now is not yet due for a refund.          *)
LEMMA MovesAddUp ==
  ASSUME NEW now \in Nat, NEW e, NEW f, NEW g, Moves(now, e, f), Moves(now, f, g)
  PROVE  Moves(now, e, g)
<1>1. CASE f = e \/ g = f
  BY <1>1
<1>2. ASSUME NEW o \in Account, NEW d \in Nat, d > now, e = Promise!Nothing, f = Locked(o, d),
             g # f
      PROVE  Moves(now, e, g)
  <2>1. f # Promise!Nothing
    BY <1>2 DEF Locked, Promise!Nothing
  <2>2. PICK o2 \in Account, d2 \in Nat :
          /\ f = Locked(o2, d2)
          /\ \/ d2 >= now /\ \E p \in Account : g = Paid(o2, d2, p)
             \/ d2 < now /\ g = Refunded(o2, d2)
    BY <1>2, <2>1 DEF Moves
  <2>3. o2 = o /\ d2 = d
    BY <1>2, <2>2 DEF Locked
  <2>4. \E p \in Account : g = Paid(o, d, p)
    BY <1>2, <2>2, <2>3
  <2> QED BY <1>2, <2>4 DEF Moves
<1>3. ASSUME f.state \in {"paid", "refunded"}
      PROVE  g = f
  <2>1. f # Promise!Nothing
    BY <1>3 DEF Promise!Nothing
  <2>2. \A o, d : f # Locked(o, d)
    BY <1>3 DEF Locked
  <2> QED BY <2>1, <2>2 DEF Moves
<1>4. \/ f = e
      \/ f.state \in {"paid", "refunded"}
      \/ \E o \in Account, d \in Nat : d > now /\ e = Promise!Nothing /\ f = Locked(o, d)
  <2>1. \A o, d, p : Paid(o, d, p).state = "paid" /\ Refunded(o, d).state = "refunded"
    BY DEF Paid, Refunded
  <2> QED BY <2>1 DEF Moves
<1> QED BY <1>1, <1>2, <1>3, <1>4
-----------------------------------------------------------------------------
(* What the storage says of a reward                                       *)

(* A job nobody submitted.                                                 *)
LEMMA EscrowNone ==
  ASSUME NEW s, NEW j \in Job, s.jobs[j] = NullJob, SettledIn(s.events, j) = {}
  PROVE  EscrowOf(s, j) = Promise!Nothing
BY DEF EscrowOf, NullJob, Promise!Nothing

(* A job submitted and not settled.                                        *)
LEMMA EscrowLocked ==
  ASSUME NEW s, NEW j \in Job, s.jobs[j].exists, SettledIn(s.events, j) = {}
  PROVE  EscrowOf(s, j) = Locked(s.jobs[j].owner, s.jobs[j].deadline)
BY DEF EscrowOf, Locked

(* A job settled by the event at x.                                        *)
LEMMA EscrowSettled ==
  ASSUME NEW s, NEW j \in Job, s.jobs[j].exists, NEW x, SettledIn(s.events, j) = {x}
  PROVE  EscrowOf(s, j) =
           IF s.events[x].type = "JobCompleted"
           THEN Paid(s.jobs[j].owner, s.jobs[j].deadline, s.events[x].who)
           ELSE Refunded(s.jobs[j].owner, s.jobs[j].deadline)
<1>1. LastEvent(s.events, j) = s.events[x]
  BY DEF LastEvent
<1>2. SettledIn(s.events, j) # {}
  OBVIOUS
<1> QED BY <1>1, <1>2 DEF EscrowOf, Paid, Refunded

(* Two storages with the same record of a job and the same settlements of  *)
(* it say the same.                                                        *)
LEMMA EscrowSame ==
  ASSUME NEW s, NEW t, NEW j \in Job, t.jobs[j] = s.jobs[j],
         SettledIn(t.events, j) = SettledIn(s.events, j),
         \A i \in SettledIn(s.events, j) : t.events[i] = s.events[i]
  PROVE  EscrowOf(t, j) = EscrowOf(s, j)
<1>1. CASE SettledIn(s.events, j) = {}
  BY <1>1 DEF EscrowOf
<1>2. CASE SettledIn(s.events, j) # {}
  <2>1. LastEvent(t.events, j) = LastEvent(s.events, j)
    BY <1>2 DEF LastEvent
  <2> QED BY <2>1 DEF EscrowOf
<1> QED BY <1>1, <1>2

(* An event added to the log settles its own job and no other.             *)
LEMMA SettledAppend ==
  ASSUME NEW log \in Seq(EventRecord), NEW e \in EventRecord, NEW j \in Job
  PROVE  /\ ~IsSettlement(e, j) => SettledIn(Append(log, e), j) = SettledIn(log, j)
         /\ IsSettlement(e, j) =>
              SettledIn(Append(log, e), j) = SettledIn(log, j) \cup {Len(log) + 1}
         /\ \A i \in SettledIn(log, j) : Append(log, e)[i] = log[i]
         /\ Append(log, e)[Len(log) + 1] = e
<1>1. /\ DOMAIN Append(log, e) = 1 .. Len(log) + 1
      /\ \A i \in 1..Len(log) : Append(log, e)[i] = log[i]
      /\ Append(log, e)[Len(log) + 1] = e
  OBVIOUS
<1>2. DOMAIN log = 1..Len(log) /\ Len(log) \in Nat
  OBVIOUS
<1> QED BY <1>1, <1>2 DEF SettledIn

-----------------------------------------------------------------------------
(* The invariant: at each level of the stack the storage is one step away  *)
(* from the committed one, and every payment under way below it is due.    *)

Due(s, event, now) ==
  LET job == s.jobs[event.job] IN
    /\ job.exists
    /\ IsSettlement(event, event.job)
    /\ event.type = "JobCompleted" => event.who \in Account /\ now <= job.deadline
    /\ event.type = "JobExpired" => now > job.deadline

(* Only submitted jobs are settled, in the log and on the stack.           *)
Grounded(s, stack, k, now) ==
  /\ \A j \in Job : SettledIn(s.events, j) # {} => s.jobs[j].exists
  /\ \A i \in 1 .. k - 1 : Due(s, stack[i].event, now)

OneStep(now, s, t) == \A j \in Job : Moves(now, EscrowOf(s, j), EscrowOf(t, j))

EscrowInv ==
  \A k \in 1 .. Len(calls) + 1 :
    /\ Grounded(StorageAt(calls, Snapshot, k), calls, k, clock)
    /\ OneStep(clock, Committed, StorageAt(calls, Snapshot, k))

(* What is committed is the lowest level.                                  *)
LEMMA CommittedIsLowest ==
  ASSUME TypeOK
  PROVE  /\ Len(calls) \in Nat
         /\ calls = <<>> <=> Len(calls) = 0
         /\ Committed = IF Len(calls) = 0 THEN Snapshot ELSE calls[1].entry
<1>1. calls \in Seq(CallRecord)
  BY DEF TypeOK
<1>2. Len(calls) \in Nat /\ (calls = <<>> <=> Len(calls) = 0)
  BY <1>1
<1> QED BY <1>2 DEF Committed

(* Levels do not depend on the calls above them.                           *)
LEMMA GroundedBelow ==
  ASSUME NEW s, NEW stack, NEW stack2, NEW k \in Nat \ {0}, NEW now,
         \A i \in 1 .. k - 1 : stack2[i] = stack[i],
         Grounded(s, stack, k, now)
  PROVE  Grounded(s, stack2, k, now)
BY DEF Grounded

(* Entering the payment of an open job commits nothing.                    *)
LEMMA SettleEscrow ==
  ASSUME TypeOK, TypeOK', EscrowInv, NEW j, NEW to, NEW event,
         Due(Snapshot, event, clock), Settle(to, j, event)
  PROVE  EscrowInv' /\ Committed' = Committed
<1> DEFINE n == Len(calls)
<1>1. /\ n \in Nat
      /\ Len(calls') = n + 1
      /\ \A i \in 1..n : calls'[i] = calls[i]
      /\ calls'[n + 1].entry = Snapshot
      /\ calls'[n + 1].event = event
      /\ clock' = clock
  BY DEF TypeOK, Settle
<1>2. Committed' = Committed
  <2>1. Committed = IF n = 0 THEN Snapshot ELSE calls[1].entry
    BY CommittedIsLowest
  <2>2. calls' # <<>>
    BY <1>1
  <2>3. Committed' = calls'[1].entry
    BY <2>2 DEF Committed
  <2> QED BY <1>1, <2>1, <2>3
<1>3. /\ Snapshot'.jobs = Snapshot.jobs
      /\ Snapshot'.events = Snapshot.events
  BY DEF Settle, Snapshot
<1>4. ASSUME NEW k \in 1 .. n + 1
      PROVE  /\ Grounded(StorageAt(calls', Snapshot', k), calls', k, clock')
             /\ OneStep(clock', Committed', StorageAt(calls', Snapshot', k))
  <2>1. StorageAt(calls', Snapshot', k) = StorageAt(calls, Snapshot, k)
    BY <1>1 DEF StorageAt
  <2>2. /\ Grounded(StorageAt(calls, Snapshot, k), calls, k, clock)
        /\ OneStep(clock, Committed, StorageAt(calls, Snapshot, k))
    BY DEF EscrowInv
  <2>3. k \in Nat \ {0} /\ \A i \in 1 .. k - 1 : calls'[i] = calls[i]
    BY <1>1
  <2> QED BY <1>1, <1>2, <2>1, <2>2, <2>3, GroundedBelow
<1>5. /\ Grounded(Snapshot', calls', n + 2, clock')
      /\ OneStep(clock', Committed', Snapshot')
  <2>1. /\ Grounded(Snapshot, calls, n + 1, clock)
        /\ OneStep(clock, Committed, Snapshot)
    BY <1>1 DEF EscrowInv, StorageAt
  <2>2. \A e : Due(Snapshot', e, clock) <=> Due(Snapshot, e, clock)
    BY <1>3 DEF Due
  <2>3. ASSUME NEW i \in 1 .. (n + 2) - 1
        PROVE  Due(Snapshot', calls'[i].event, clock')
    <3>1. CASE i \in 1..n
      <4>1. i \in 1 .. (n + 1) - 1 /\ calls'[i] = calls[i]
        BY <1>1, <3>1
      <4> QED BY <1>1, <2>1, <2>2, <4>1 DEF Grounded
    <3>2. CASE i = n + 1
      BY <1>1, <2>2, <3>2
    <3> QED BY <1>1, <3>1, <3>2
  <2>4. Grounded(Snapshot', calls', n + 2, clock')
    BY <1>3, <2>1, <2>3 DEF Grounded
  <2>5. \A i \in Job : EscrowOf(Snapshot', i) = EscrowOf(Snapshot, i)
    BY <1>3, EscrowSame
  <2>6. OneStep(clock', Committed', Snapshot')
    BY <1>1, <1>2, <2>1, <2>5 DEF OneStep
  <2> QED BY <2>4, <2>6
<1>6. StorageAt(calls', Snapshot', n + 2) = Snapshot'
  BY <1>1 DEF StorageAt
<1>7. \A k \in 1 .. Len(calls') + 1 : k \in 1 .. n + 1 \/ k = n + 2
  BY <1>1
<1>8. EscrowInv'
  BY <1>4, <1>5, <1>6, <1>7 DEF EscrowInv
<1> QED BY <1>2, <1>8

(* A storage that moves by one step at the top of the stack is still one   *)
(* step away from what is committed.                                       *)
LEMMA SameCallsEscrow ==
  ASSUME TypeOK, TypeOK', EscrowInv, clock' = clock, calls' = calls,
         Grounded(Snapshot', calls, Len(calls) + 1, clock),
         OneStep(clock, Snapshot, Snapshot')
  PROVE  EscrowInv' /\ OneStep(clock, Committed, Committed')
<1> DEFINE n == Len(calls)
<1>1. /\ n \in Nat
      /\ Committed = IF n = 0 THEN Snapshot ELSE calls[1].entry
      /\ Committed' = IF n = 0 THEN Snapshot' ELSE calls[1].entry
  <2>1. n \in Nat /\ (calls = <<>> <=> n = 0)
    BY CommittedIsLowest
  <2> QED BY <2>1 DEF Committed
<1>2. clock \in Nat
  BY DEF TypeOK, ConstantsAssumption
<1>3. OneStep(clock, Committed, Snapshot)
  BY <1>1 DEF EscrowInv, StorageAt
<1>4. OneStep(clock, Committed, Snapshot')
  BY <1>2, <1>3, MovesAddUp DEF OneStep
<1>5. OneStep(clock, Committed, Committed') /\ OneStep(clock, Committed', Snapshot')
  <2>1. \A s : OneStep(clock, s, s)
    BY DEF OneStep, Moves
  <2> QED BY <1>1, <1>4, <2>1
<1>6. ASSUME NEW k \in 1..n
      PROVE  /\ Grounded(StorageAt(calls', Snapshot', k), calls', k, clock')
             /\ OneStep(clock', Committed', StorageAt(calls', Snapshot', k))
  <2>1. StorageAt(calls', Snapshot', k) = StorageAt(calls, Snapshot, k)
    BY <1>1 DEF StorageAt
  <2>2. k \in 1 .. n + 1 /\ Committed' = Committed
    BY <1>1
  <2> QED BY <2>1, <2>2 DEF EscrowInv
<1>7. StorageAt(calls', Snapshot', n + 1) = Snapshot'
  BY DEF StorageAt
<1>8. \A k \in 1 .. n + 1 : k \in 1..n \/ k = n + 1
  BY <1>1
<1>9. EscrowInv'
  BY <1>5, <1>6, <1>7, <1>8 DEF EscrowInv
<1> QED BY <1>5, <1>9

(* The innermost payment ends, and leaves a storage one step away from     *)
(* what is committed.                                                      *)
LEMMA PopEscrow ==
  ASSUME TypeOK, TypeOK', EscrowInv, clock' = clock,
         calls # <<>>, calls' = SubSeq(calls, 1, Len(calls) - 1),
         Grounded(Snapshot', calls, Len(calls), clock),
         OneStep(clock, Committed, Snapshot')
  PROVE  EscrowInv' /\ OneStep(clock, Committed, Committed')
<1> DEFINE n == Len(calls)
<1>1. /\ n \in Nat \ {0}
      /\ Len(calls') = n - 1
      /\ \A i \in 1 .. n - 1 : calls'[i] = calls[i]
      /\ calls' \in Seq(CallRecord)
  BY PopCalls
<1>2. /\ Committed = calls[1].entry
      /\ Committed' = IF n = 1 THEN Snapshot' ELSE calls[1].entry
  <2>1. calls' = <<>> <=> Len(calls') = 0
    BY <1>1, EmptySeq
  <2> QED BY <1>1, <2>1 DEF Committed
<1>3. OneStep(clock, Committed, Committed') /\ OneStep(clock, Committed', Snapshot')
  <2>1. \A s : OneStep(clock, s, s)
    BY DEF OneStep, Moves
  <2> QED BY <1>2, <2>1
<1>4. ASSUME NEW k \in 1 .. n - 1
      PROVE  /\ Grounded(StorageAt(calls', Snapshot', k), calls', k, clock')
             /\ OneStep(clock', Committed', StorageAt(calls', Snapshot', k))
  <2>1. StorageAt(calls', Snapshot', k) = StorageAt(calls, Snapshot, k)
    BY <1>1 DEF StorageAt
  <2>2. k \in 1 .. n + 1 /\ Committed' = Committed
    BY <1>1, <1>2
  <2>3. k \in Nat \ {0} /\ \A i \in 1 .. k - 1 : calls'[i] = calls[i]
    BY <1>1
  <2>4. /\ Grounded(StorageAt(calls, Snapshot, k), calls, k, clock)
        /\ OneStep(clock, Committed, StorageAt(calls, Snapshot, k))
    BY <2>2 DEF EscrowInv
  <2> QED BY <2>1, <2>2, <2>3, <2>4, GroundedBelow
<1>5. Grounded(Snapshot', calls', n, clock')
  BY <1>1, GroundedBelow
<1>6. StorageAt(calls', Snapshot', n) = Snapshot'
  BY <1>1 DEF StorageAt
<1>7. \A k \in 1 .. Len(calls') + 1 : k \in 1 .. n - 1 \/ k = n
  BY <1>1
<1>8. EscrowInv'
  BY <1>3, <1>4, <1>5, <1>6, <1>7 DEF EscrowInv
<1> QED BY <1>3, <1>8

(* A job whose payment is under way has not been settled in the log.       *)
LEMMA DueIsOpen ==
  ASSUME NEW s, s.events \in Seq(EventRecord), NEW stack, NEW k \in Nat \ {0},
         Balanced(s, stack, k), NEW i \in 1 .. k - 1, stack[i].event \in EventRecord,
         NEW j \in Job, IsSettlement(stack[i].event, j)
  PROVE  SettledIn(s.events, j) = {}
<1> DEFINE A == SettledIn(s.events, j)
           B == Below(stack, k, j)
<1>1. i \in B /\ B \subseteq 1 .. k - 1 /\ k - 1 \in Int
  BY DEF Below
<1>2. IsFiniteSet(B)
  <2>1. IsFiniteSet(1 .. k - 1)
    BY <1>1, FS_Interval
  <2> HIDE DEF B
  <2> QED BY <1>1, <2>1, FS_Subset
<1>3. Cardinality(B) \in Nat /\ Cardinality(B) # 0
  <2> HIDE DEF B
  <2> QED BY <1>1, <1>2, FS_CardinalityType, FS_EmptySet
<1>4. IsFiniteSet(A)
  <2> DEFINE m == Len(s.events)
  <2>1. m \in Nat /\ A \subseteq 1..m
    BY DEF SettledIn
  <2> HIDE DEF A, m
  <2>2. IsFiniteSet(1..m)
    BY <2>1, FS_Interval
  <2> QED BY <2>1, <2>2, FS_Subset
<1>5. Cardinality(A) + Cardinality(B) = IF s.completed[j] THEN 1 ELSE 0
  BY DEF Balanced
<1> HIDE DEF A, B
<1>6. Cardinality(A) \in Nat
  BY <1>4, FS_CardinalityType
<1>7. Cardinality(A) = 0
  BY <1>3, <1>5, <1>6
<1>8. A = {}
  BY <1>4, <1>7, FS_EmptySet
<1> QED BY <1>8 DEF A

(* A submission locks a reward nobody has heard of.                        *)
LEMMA SubmitJobEscrow ==
  ASSUME ConstantsAssumption, TypeOK, TypeOK', EscrowInv, NEW a \in Account, NEW j \in Job,
         NEW p \in Payload, NEW value \in Reward, NEW deadline \in 0..MaxClock,
         SubmitJob(a, j, p, value, deadline)
  PROVE  EscrowInv' /\ OneStep(clock, Committed, Committed')
<1> DEFINE n == Len(calls)
           e == [type |-> "JobSubmitted", job |-> j, who |-> a, result |-> NoResult]
           r == [owner |-> a, payload |-> p, reward |-> value, deadline |-> deadline,
                 exists |-> TRUE]
<1>1. /\ n \in Nat
      /\ events \in Seq(EventRecord)
      /\ jobs \in [Job -> JobRecord]
      /\ e \in EventRecord
  BY SnapshotType DEF TypeOK, EventRecord
<1>2. /\ jobs' = [jobs EXCEPT ![j] = r]
      /\ Snapshot'.events = Append(events, e)
      /\ Snapshot'.jobs = jobs'
      /\ Snapshot.events = events
      /\ Snapshot.jobs = jobs
      /\ ~jobs[j].exists
      /\ deadline > clock
      /\ calls' = calls
      /\ clock' = clock
  BY DEF SubmitJob, Accepts, Snapshot
<1>3. r.owner = a /\ r.deadline = deadline /\ r.exists
  OBVIOUS
<1>4. /\ jobs'[j] = r
      /\ \A i \in Job : i # j => jobs'[i] = jobs[i]
  BY <1>1, <1>2
<1>5. \A i \in Job : ~IsSettlement(e, i)
  BY DEF IsSettlement
<1> HIDE DEF e, r
<1>6. \A i \in Job : /\ SettledIn(Append(events, e), i) = SettledIn(events, i)
                     /\ \A x \in SettledIn(events, i) : Append(events, e)[x] = events[x]
  BY <1>1, <1>5, SettledAppend
<1>7. Grounded(Snapshot, calls, n + 1, clock)
  BY <1>1 DEF EscrowInv, StorageAt
<1>8. Grounded(Snapshot', calls, n + 1, clock)
  <2>1. \A i \in Job : SettledIn(Snapshot'.events, i) # {} => Snapshot'.jobs[i].exists
    BY <1>2, <1>3, <1>4, <1>6, <1>7 DEF Grounded
  <2>2. ASSUME NEW i \in 1 .. (n + 1) - 1
        PROVE  Due(Snapshot', calls[i].event, clock)
    <3>1. Due(Snapshot, calls[i].event, clock)
      BY <1>7 DEF Grounded
    <3>2. calls[i].event.job \in Job
      <4>1. calls[i] \in CallRecord
        BY <1>1 DEF TypeOK
      <4> QED BY <4>1 DEF CallRecord, EventRecord
    <3>3. jobs[calls[i].event.job].exists
      BY <1>2, <3>1 DEF Due
    <3>4. Snapshot'.jobs[calls[i].event.job] = Snapshot.jobs[calls[i].event.job]
      BY <1>2, <1>4, <3>2, <3>3
    <3> QED BY <3>1, <3>4 DEF Due
  <2> QED BY <2>1, <2>2 DEF Grounded
<1>9. OneStep(clock, Snapshot, Snapshot')
  <2> SUFFICES ASSUME NEW i \in Job
               PROVE  Moves(clock, EscrowOf(Snapshot, i), EscrowOf(Snapshot', i))
    BY DEF OneStep
  <2>1. CASE i # j
    <3>1. /\ Snapshot'.jobs[i] = Snapshot.jobs[i]
          /\ SettledIn(Snapshot'.events, i) = SettledIn(Snapshot.events, i)
          /\ \A x \in SettledIn(Snapshot.events, i) : Snapshot'.events[x] = Snapshot.events[x]
      BY <1>2, <1>4, <1>6, <2>1
    <3>2. EscrowOf(Snapshot', i) = EscrowOf(Snapshot, i)
      BY <3>1, EscrowSame
    <3> QED BY <3>2 DEF Moves
  <2>2. CASE i = j
    <3>1. jobs[j] = NullJob
      BY <1>1, <1>2 DEF JobRecord
    <3>2. SettledIn(events, j) = {}
      BY <1>2, <1>7 DEF Grounded
    <3>3. EscrowOf(Snapshot, i) = Promise!Nothing
      BY <1>2, <2>2, <3>1, <3>2, EscrowNone
    <3>4. EscrowOf(Snapshot', i) = Locked(a, deadline)
      <4>1. /\ Snapshot'.jobs[i].exists
            /\ SettledIn(Snapshot'.events, i) = {}
            /\ Snapshot'.jobs[i].owner = a
            /\ Snapshot'.jobs[i].deadline = deadline
        BY <1>2, <1>3, <1>4, <1>6, <2>2, <3>2
      <4> QED BY <4>1, EscrowLocked
    <3>5. deadline \in Nat
      BY DEF ConstantsAssumption
    <3> QED BY <1>2, <3>3, <3>4, <3>5 DEF Moves
  <2> QED BY <2>1, <2>2
<1> QED BY <1>2, <1>8, <1>9, SameCallsEscrow

(* A payment that returns settles the reward of a job that is open and due. *)
LEMMA CallReturnsEscrow ==
  ASSUME ConstantsAssumption, TypeOK, TypeOK', RegistryInv, EscrowInv, CallReturns
  PROVE  EscrowInv' /\ OneStep(clock, Committed, Committed')
<1> DEFINE n == Len(calls)
           e == calls[n].event
           j == e.job
           o == jobs[j].owner
           d == jobs[j].deadline
<1>1. /\ n \in Nat \ {0}
      /\ calls # <<>>
      /\ calls' = SubSeq(calls, 1, n - 1)
      /\ calls[n] \in CallRecord
      /\ clock' = clock
  BY PopCalls DEF CallReturns, Top
<1>2. /\ events \in Seq(EventRecord)
      /\ e \in EventRecord
      /\ j \in Job
      /\ Snapshot'.events = Append(events, e)
      /\ Snapshot'.jobs = Snapshot.jobs
      /\ Snapshot.events = events
      /\ Snapshot.jobs = jobs
  BY <1>1, SnapshotType DEF CallReturns, Top, CallRecord, EventRecord, Snapshot
<1>3. /\ Grounded(Snapshot, calls, n + 1, clock)
      /\ OneStep(clock, Committed, Snapshot)
  BY <1>1 DEF EscrowInv, StorageAt
<1>4. Due(Snapshot, e, clock)
  <2>1. n \in 1 .. (n + 1) - 1
    BY <1>1
  <2> QED BY <1>3, <2>1 DEF Grounded
<1>5. /\ jobs[j].exists
      /\ IsSettlement(e, j)
      /\ e.type = "JobCompleted" => e.who \in Account /\ clock <= d
      /\ e.type = "JobExpired" => clock > d
  BY <1>2, <1>4 DEF Due
<1>6. o \in Account /\ d \in Nat
  BY <1>2, <1>5, SubmittedJobType
<1>7. SettledIn(events, j) = {}
  <2>1. Balanced(Snapshot, calls, n + 1)
    BY <1>1 DEF RegistryInv, StorageAt, Sound
  <2>2. n + 1 \in Nat \ {0} /\ n \in 1 .. (n + 1) - 1
    BY <1>1
  <2> QED BY <1>2, <1>5, <2>1, <2>2, DueIsOpen
<1> HIDE DEF e, j, o, d
<1>8. Grounded(Snapshot', calls, n, clock)
  <2>1. ASSUME NEW i \in Job, SettledIn(Snapshot'.events, i) # {}
        PROVE  Snapshot'.jobs[i].exists
    <3>1. CASE i = j
      BY <1>2, <1>5, <3>1
    <3>2. CASE i # j
      <4>1. ~IsSettlement(e, i)
        BY <3>2 DEF IsSettlement, j
      <4>2. SettledIn(events, i) # {}
        BY <1>2, <2>1, <4>1, SettledAppend
      <4> QED BY <1>2, <1>3, <4>2 DEF Grounded
    <3> QED BY <3>1, <3>2
  <2>2. ASSUME NEW i \in 1 .. n - 1
        PROVE  Due(Snapshot', calls[i].event, clock)
    <3>1. i \in 1 .. (n + 1) - 1
      BY <1>1
    <3> QED BY <1>2, <1>3, <3>1 DEF Grounded, Due
  <2> QED BY <2>1, <2>2 DEF Grounded
<1>9. OneStep(clock, Snapshot, Snapshot')
  <2> SUFFICES ASSUME NEW i \in Job
               PROVE  Moves(clock, EscrowOf(Snapshot, i), EscrowOf(Snapshot', i))
    BY DEF OneStep
  <2>1. CASE i # j
    <3>1. ~IsSettlement(e, i)
      BY <2>1 DEF IsSettlement, j
    <3>2. /\ SettledIn(Append(events, e), i) = SettledIn(events, i)
          /\ \A x \in SettledIn(events, i) : Append(events, e)[x] = events[x]
      <4>1. events \in Seq(EventRecord) /\ e \in EventRecord
        BY <1>2
      <4> QED BY <3>1, <4>1, SettledAppend
    <3>3. /\ Snapshot'.jobs[i] = Snapshot.jobs[i]
          /\ SettledIn(Snapshot'.events, i) = SettledIn(Snapshot.events, i)
          /\ \A x \in SettledIn(Snapshot.events, i) : Snapshot'.events[x] = Snapshot.events[x]
      BY <1>2, <3>2
    <3>4. EscrowOf(Snapshot', i) = EscrowOf(Snapshot, i)
      BY <3>3, EscrowSame
    <3> QED BY <3>4 DEF Moves
  <2>2. CASE i = j
    <3> DEFINE x == Len(events) + 1
    <3>1. EscrowOf(Snapshot, i) = Locked(o, d)
      BY <1>2, <1>5, <1>7, <2>2, EscrowLocked DEF o, d
    <3>2. SettledIn(Append(events, e), j) = {x} /\ Append(events, e)[x] = e
      BY <1>2, <1>5, <1>7, SettledAppend
    <3> HIDE DEF x
    <3>3. EscrowOf(Snapshot', i) = IF e.type = "JobCompleted" THEN Paid(o, d, e.who)
                                   ELSE Refunded(o, d)
      <4>1. /\ Snapshot'.jobs[i].exists
            /\ SettledIn(Snapshot'.events, i) = {x}
            /\ Snapshot'.events[x] = e
            /\ Snapshot'.jobs[i].owner = o
            /\ Snapshot'.jobs[i].deadline = d
        BY <1>2, <1>5, <2>2, <3>2 DEF o, d
      <4> QED BY <4>1, EscrowSettled
    <3>4. CASE e.type = "JobCompleted"
      BY <1>5, <1>6, <3>1, <3>3, <3>4 DEF Moves
    <3>5. CASE e.type = "JobExpired"
      BY <1>5, <1>6, <3>1, <3>3, <3>5 DEF Moves
    <3> QED BY <1>5, <3>4, <3>5 DEF IsSettlement
  <2> QED BY <2>1, <2>2
<1>10. OneStep(clock, Committed, Snapshot')
  <2>1. clock \in Nat
    BY DEF TypeOK, ConstantsAssumption
  <2> QED BY <1>3, <1>9, <2>1, MovesAddUp DEF OneStep
<1> QED BY <1>1, <1>8, <1>10, PopEscrow

(* A payment that fails takes the contract back to where it was called.    *)
LEMMA CallFailsEscrow ==
  ASSUME TypeOK, TypeOK', EscrowInv, CallFails
  PROVE  EscrowInv' /\ OneStep(clock, Committed, Committed')
<1> DEFINE n == Len(calls)
<1>1. /\ n \in Nat \ {0}
      /\ calls # <<>>
      /\ calls' = SubSeq(calls, 1, n - 1)
      /\ calls[n] \in CallRecord
      /\ clock' = clock
  BY PopCalls DEF CallFails, Top
<1>2. Snapshot' = calls[n].entry
  BY <1>1 DEF CallFails, Top, Snapshot, CallRecord, Storage
<1>3. /\ Grounded(calls[n].entry, calls, n, clock)
      /\ OneStep(clock, Committed, calls[n].entry)
  <2>1. n \in 1 .. n + 1 /\ n # n + 1
    BY <1>1
  <2> QED BY <2>1 DEF EscrowInv, StorageAt
<1> QED BY <1>1, <1>2, <1>3, PopEscrow
-----------------------------------------------------------------------------
(* The refinement                                                          *)

(* Time passes only between transactions, when nothing is under way.       *)
LEMMA TickEscrow ==
  ASSUME TypeOK, TypeOK', EscrowInv, Tick
  PROVE  EscrowInv' /\ Committed' = Committed
<1>1. /\ calls = <<>> /\ calls' = <<>>
      /\ Snapshot' = Snapshot
      /\ Len(calls) = 0
  BY DEF Tick, storage, Snapshot
<1>2. Committed = Snapshot /\ Committed' = Snapshot
  BY <1>1 DEF Committed
<1>3. Grounded(Snapshot, calls, 1, clock)
  BY <1>1 DEF EscrowInv, StorageAt
<1>4. Grounded(Snapshot, calls', 1, clock')
  <2>1. 1 .. 1 - 1 = {}
    OBVIOUS
  <2> QED BY <1>3, <2>1 DEF Grounded
<1>5. OneStep(clock', Snapshot, Snapshot)
  BY DEF OneStep, Moves
<1>6. Len(calls') = 0 /\ StorageAt(calls', Snapshot', 1) = Snapshot
  BY <1>1 DEF StorageAt
<1>7. EscrowInv'
  BY <1>2, <1>4, <1>5, <1>6 DEF EscrowInv
<1> QED BY <1>2, <1>7

(* Every step keeps the invariant and is a move of the committed rewards,  *)
(* or the passing of time.                                                 *)
LEMMA EscrowStep ==
  ASSUME ConstantsAssumption, TypeOK, TypeOK', RegistryInv, EscrowInv, [Next]_vars
  PROVE  /\ EscrowInv'
         /\ \/ clock' = clock /\ OneStep(clock, Committed, Committed')
            \/ Tick /\ Committed' = Committed
<1>1. CASE Tick
  BY <1>1, TickEscrow
<1>2. \A s : OneStep(clock, s, s)
  BY DEF OneStep, Moves
<1>3. ASSUME UNCHANGED <<clock, storage, calls>>
      PROVE  EscrowInv' /\ OneStep(clock, Committed, Committed')
  <2>1. Snapshot' = Snapshot /\ calls' = calls /\ clock' = clock
    BY <1>3 DEF storage, Snapshot
  <2>2. Grounded(Snapshot, calls, Len(calls) + 1, clock)
    BY CommittedIsLowest DEF EscrowInv, StorageAt
  <2> QED BY <1>2, <2>1, <2>2, SameCallsEscrow
<1>4. ASSUME NEW j \in Job, NEW p \in Payload, GuestRuns(j, p)
      PROVE  clock' = clock /\ EscrowInv' /\ OneStep(clock, Committed, Committed')
  BY <1>3, <1>4 DEF GuestRuns
<1>5. ASSUME NEW a \in Account, NEW j \in Job, NEW p \in Payload, NEW value \in Reward,
             NEW deadline \in 0..MaxClock, SubmitJob(a, j, p, value, deadline)
      PROVE  clock' = clock /\ EscrowInv' /\ OneStep(clock, Committed, Committed')
  <2>1. clock' = clock
    BY <1>5 DEF SubmitJob
  <2> QED BY <1>5, <2>1, SubmitJobEscrow
<1>6. ASSUME NEW a \in Account, NEW j \in Job, NEW journal \in Journal, SubmitProof(a, j, journal)
      PROVE  clock' = clock /\ EscrowInv' /\ OneStep(clock, Committed, Committed')
  <2> DEFINE e == [type |-> "JobCompleted", job |-> j, who |-> a, result |-> journal.result]
  <2>1. Settle(a, j, e) /\ clock' = clock
    BY <1>6 DEF SubmitProof, Settle
  <2>2. jobs[j].exists /\ jobs[j].deadline \in Nat /\ clock \in Nat /\ clock <= jobs[j].deadline
    <3>1. jobs[j].exists /\ ~(clock > jobs[j].deadline)
      BY <1>6 DEF SubmitProof, MaySettle, PastDeadline
    <3>2. jobs[j].deadline \in Nat
      BY <3>1, SubmittedJobType
    <3>3. clock \in Nat
      BY DEF TypeOK, ConstantsAssumption
    <3> QED BY <3>1, <3>2, <3>3
  <2>3. Due(Snapshot, e, clock)
    BY <2>2 DEF Due, IsSettlement, Snapshot
  <2> HIDE DEF e
  <2> QED BY <1>2, <2>1, <2>3, SettleEscrow
<1>7. ASSUME NEW a \in Account, NEW j \in Job, ExpireJob(a, j)
      PROVE  clock' = clock /\ EscrowInv' /\ OneStep(clock, Committed, Committed')
  <2> DEFINE e == [type |-> "JobExpired", job |-> j, who |-> ZeroAddress, result |-> NoResult]
  <2>1. Settle(jobs[j].owner, j, e) /\ clock' = clock
    BY <1>7 DEF ExpireJob, Settle
  <2>2. Due(Snapshot, e, clock)
    BY <1>7 DEF ExpireJob, MaySettle, PastDeadline, Due, IsSettlement, Snapshot
  <2> HIDE DEF e
  <2> QED BY <1>2, <2>1, <2>2, SettleEscrow
<1>8. CASE CallReturns
  <2>1. clock' = clock
    BY <1>8 DEF CallReturns
  <2> QED BY <1>8, <2>1, CallReturnsEscrow
<1>9. CASE CallFails
  <2>1. clock' = clock
    BY <1>9 DEF CallFails
  <2> QED BY <1>9, <2>1, CallFailsEscrow
<1>10. CASE UNCHANGED vars
  BY <1>3, <1>10 DEF vars, storage
<1> QED BY <1>1, <1>4, <1>5, <1>6, <1>7, <1>8, <1>9, <1>10 DEF Next

(* The contract keeps what Escrow promises, for any jobs, accounts and     *)
(* rewards, and however deep recipients call back before they return or    *)
(* revert.                                                                 *)
THEOREM ContractKeepsEscrow == Spec => ImplementsEscrow
<1>1. Init => EscrowInv /\ Promise!Init
  <2> SUFFICES ASSUME Init
               PROVE  EscrowInv /\ Promise!Init
    OBVIOUS
  <2>1. Len(calls) = 0 /\ StorageAt(calls, Snapshot, 1) = Snapshot /\ Committed = Snapshot
    BY DEF Init, StorageAt, Committed
  <2>2. \A j \in Job : Snapshot.jobs[j] = NullJob /\ SettledIn(Snapshot.events, j) = {}
    BY DEF Init, Snapshot, SettledIn
  <2>3. Grounded(Snapshot, calls, 1, clock)
    BY <2>2 DEF Grounded
  <2>4. OneStep(clock, Snapshot, Snapshot)
    BY DEF OneStep, Moves
  <2>5. EscrowInv
    BY <2>1, <2>3, <2>4 DEF EscrowInv
  <2>6. \A j \in Job : EscrowOf(Committed, j) = Promise!Nothing
    BY <2>1, <2>2, EscrowNone
  <2> QED BY <2>5, <2>6 DEF Promise!Init, Init
<1>2. ASSUME TypeOK, TypeOK', RegistryInv, EscrowInv, [Next]_vars
      PROVE  EscrowInv' /\ [Promise!Next]_(Promise!vars)
  <2>1. EscrowInv'
    BY <1>2, ConstantsAssumption, EscrowStep
  <2>2. \/ clock' = clock /\ OneStep(clock, Committed, Committed')
        \/ Tick /\ Committed' = Committed
    BY <1>2, ConstantsAssumption, EscrowStep
  <2>3. clock \in Nat
    BY <1>2, ConstantsAssumption DEF TypeOK, ConstantsAssumption
  <2>4. CASE clock' = clock /\ OneStep(clock, Committed, Committed')
    <3>1. \A j \in Job : Promise!Legal(EscrowOf(Committed, j), EscrowOf(Committed', j))
      BY <2>3, <2>4, MovesAreLegal DEF OneStep
    <3>2. Promise!Transact
      BY <2>4, <3>1 DEF Promise!Transact
    <3> QED BY <2>1, <3>2 DEF Promise!Next
  <2>5. CASE Tick /\ Committed' = Committed
    <3>1. clock' = clock + 1
      BY <2>5 DEF Tick
    <3>2. Promise!Tick
      BY <2>3, <2>5, <3>1 DEF Promise!Tick
    <3> QED BY <2>1, <3>2 DEF Promise!Next
  <2> QED BY <2>1, <2>2, <2>4, <2>5
<1> QED BY <1>1, <1>2, TypeCorrect, RegistrySafe, PTL DEF Spec, ImplementsEscrow, Promise!Spec
=============================================================================
