---------------------------- MODULE GossipProofs ----------------------------
(***************************************************************************)
(* Theorems about Gossip, for every overlay, fanout, TTL, capacity of the  *)
(* cache, set of envelopes somebody may inject and number of calls.        *)
(***************************************************************************)
EXTENDS Gossip, FiniteSums

-----------------------------------------------------------------------------
(* Types                                                                   *)

(* Using an id gives a cache of ids that keeps to its capacity.            *)
LEMMA UsedType ==
  ASSUME OverlayAssumption, NEW cache \in Seq(MessageId), Len(cache) <= SeenCacheSize,
         NEW id \in MessageId
  PROVE  /\ Used(cache, id) \in Seq(MessageId)
         /\ Len(Used(cache, id)) <= SeenCacheSize
<1> DEFINE at == IF Has(cache, id) THEN CHOOSE i \in DOMAIN cache : cache[i] = id
                 ELSE Len(cache) + 1
           size == IF Has(cache, id) \/ Len(cache) = SeenCacheSize THEN Len(cache)
                   ELSE Len(cache) + 1
<1>1. /\ at \in Nat
      /\ Has(cache, id) => at \in DOMAIN cache
      /\ ~Has(cache, id) => at = Len(cache) + 1
  BY DEF Has
<1>2. size \in Nat /\ size <= SeenCacheSize /\ size <= Len(cache) + 1
  BY DEF OverlayAssumption
<1>3. size > Len(cache) => at = Len(cache) + 1
  BY <1>1
<1>4. Used(cache, id) = [k \in 1..size |-> IF k = 1 THEN id ELSE IF k <= at THEN cache[k - 1]
                                           ELSE cache[k]]
  BY DEF Used
<1> HIDE DEF at, size
<1>5. ASSUME NEW k \in 1..size
      PROVE  (IF k = 1 THEN id ELSE IF k <= at THEN cache[k - 1] ELSE cache[k]) \in MessageId
  BY <1>1, <1>2, <1>3
<1> QED BY <1>2, <1>4, <1>5

(* What a node notes keeps cache and history in their types.               *)
LEMMA NotesType ==
  ASSUME OverlayAssumption, TypeOK, NEW n \in Node, NEW e \in Envelope,
         NEW how \in {"own", "new", "old"}, Notes(n, e, how)
  PROVE  /\ seen' \in [Node -> Seq(MessageId)]
         /\ \A m \in Node : Len(seen'[m]) <= SeenCacheSize
         /\ heard' \in [Node -> Seq(Hearing)]
<1>1. e.id \in MessageId /\ e.ttl \in 0..MaxTtl
  BY DEF Envelope
<1>2. Used(seen[n], e.id) \in Seq(MessageId) /\ Len(Used(seen[n], e.id)) <= SeenCacheSize
  BY <1>1, UsedType DEF TypeOK
<1>3. [id |-> e.id, ttl |-> e.ttl, how |-> how] \in Hearing
  BY <1>1 DEF Hearing
<1>4. seen' = [seen EXCEPT ![n] = Used(seen[n], e.id)]
  BY DEF Notes
<1>5. heard' = [heard EXCEPT ![n] = Append(heard[n], [id |-> e.id, ttl |-> e.ttl, how |-> how])]
  BY DEF Notes
<1>6. heard' \in [Node -> Seq(Hearing)]
  BY <1>3, <1>5 DEF TypeOK
<1> QED BY <1>2, <1>4, <1>6 DEF TypeOK

(* The chosen connections are among the eligible ones.                     *)
LEMMA TargetsType ==
  ASSUME NEW eligible, NEW to \in Targets(eligible)
  PROVE  to \subseteq eligible
BY DEF Targets

(* Starting a loop over connections of the node keeps `sending` in type.   *)
LEMMA StartSendingType ==
  ASSUME TypeOK, NEW n \in Node, NEW task \in {"run", "caller"}, NEW e \in Envelope,
         NEW eligible \in SUBSET ConnectionsOf(n), StartSending(n, task, e, eligible)
  PROVE  /\ sending' \subseteq Sending
         /\ \A s \in sending' : \A c \in s.to : s.at \in Ends[c]
<1>1. PICK to \in Targets(eligible) :
        sending' = IF to = {} THEN sending
                   ELSE sending \cup {[at |-> n, task |-> task, envelope |-> e, to |-> to]}
  BY DEF StartSending
<1>2. to \subseteq eligible
  BY TargetsType
<1>3. [at |-> n, task |-> task, envelope |-> e, to |-> to] \in Sending
  BY <1>2 DEF Sending, ConnectionsOf
<1>4. \A c \in to : n \in Ends[c]
  BY <1>2 DEF ConnectionsOf
<1> QED BY <1>1, <1>3, <1>4 DEF TypeOK

(* The other end of a connection is a node next to this one.               *)
LEMMA OtherType ==
  ASSUME OverlayAssumption, NEW c \in Conn, NEW n \in Ends[c]
  PROVE  Other(c, n) \in Node /\ Adjacent(n, Other(c, n))
<1>1. PICK a, b \in Node : a # b /\ Ends[c] = {a, b}
  BY DEF OverlayAssumption
<1>2. CASE n = a
  <2>1. Other(c, n) = b
    BY <1>1, <1>2 DEF Other
  <2> QED BY <1>1, <1>2, <2>1 DEF Adjacent
<1>3. CASE n = b
  <2>1. Other(c, n) = a
    BY <1>1, <1>3 DEF Other
  <2>2. Ends[c] = {b, a}
    BY <1>1
  <2> QED BY <1>1, <1>3, <2>1, <2>2 DEF Adjacent
<1> QED BY <1>1, <1>2, <1>3

(* A signature changes nothing else.                                       *)
LEMMA SignType ==
  ASSUME NEW e \in Envelope
  PROVE  /\ Sign(e) \in Envelope
         /\ Sign(e).id = e.id /\ Sign(e).ttl = e.ttl /\ Sign(e).signed
<1>1. e.id \in MessageId /\ e.ttl \in 0..MaxTtl
  BY DEF Envelope
<1>2. [id |-> e.id, ttl |-> e.ttl, signed |-> TRUE] \in Envelope
  BY <1>1 DEF Envelope
<1> QED BY <1>2 DEF Sign

(* Each action keeps every variable in its type.                           *)
LEMMA BroadcastType ==
  ASSUME OverlayAssumption, TypeOK, NEW m \in MessageId, Broadcast(m)
  PROVE  TypeOK'
<1> DEFINE n == Author[m]
           e == Sign([id |-> m, ttl |-> MaxTtl, signed |-> FALSE])
<1>1. n \in Node
  BY DEF OverlayAssumption
<1>2. e \in Envelope
  <2> DEFINE u == [id |-> m, ttl |-> MaxTtl, signed |-> FALSE]
  <2>1. MaxTtl \in 0..MaxTtl
    BY DEF OverlayAssumption
  <2>2. u \in Envelope
    BY <2>1 DEF Envelope
  <2> HIDE DEF u
  <2>3. Sign(u) \in Envelope
    BY <2>2, SignType
  <2> QED BY <2>3 DEF u
<1>3. Called(n, e) /\ Notes(n, e, "own") /\ StartSending(n, "caller", e, ConnectionsOf(n))
      /\ UNCHANGED channel
  BY DEF Broadcast
<1> HIDE DEF n, e
<1>4. calls' \in Seq(Call)
  <2>1. [at |-> n, envelope |-> e] \in Call
    BY <1>1, <1>2 DEF Call
  <2> QED BY <1>3, <2>1 DEF Called, TypeOK
<1>5. /\ seen' \in [Node -> Seq(MessageId)]
      /\ \A x \in Node : Len(seen'[x]) <= SeenCacheSize
      /\ heard' \in [Node -> Seq(Hearing)]
  BY <1>1, <1>2, <1>3, NotesType
<1>6. sending' \subseteq Sending /\ \A s \in sending' : \A c \in s.to : s.at \in Ends[c]
  BY <1>1, <1>2, <1>3, StartSendingType
<1> QED BY <1>3, <1>4, <1>5, <1>6 DEF TypeOK

(* Handing an envelope to send().                                          *)
LEMMA SendType ==
  ASSUME OverlayAssumption, TypeOK, NEW n \in Node, NEW e \in Injected, Send(n, e)
  PROVE  TypeOK'
<1>1. e \in Envelope
  BY DEF OverlayAssumption
<1>2. calls' \in Seq(Call)
  <2>1. [at |-> n, envelope |-> e] \in Call
    BY <1>1 DEF Call
  <2> QED BY <2>1 DEF Send, Called, TypeOK
<1>3. sending' \subseteq Sending /\ \A s \in sending' : \A c \in s.to : s.at \in Ends[c]
  BY <1>1, StartSendingType DEF Send
<1> QED BY <1>2, <1>3 DEF TypeOK, Send

(* One turn of a sending loop.                                             *)
LEMMA SendNextType ==
  ASSUME OverlayAssumption, TypeOK, NEW s \in sending, NEW c \in s.to, SendNext(s, c)
  PROVE  TypeOK'
<1>1. s \in Sending /\ c \in Conn /\ s.at \in Ends[c]
  BY DEF TypeOK, Sending
<1> DEFINE m == Other(c, s.at)
<1>2. m \in Node
  BY <1>1, OtherType
<1>3. channel' = [channel EXCEPT ![m][c] = Append(@, s.envelope)]
  BY DEF SendNext
<1> HIDE DEF m
<1>4. channel' \in [Node -> [Conn -> Seq(Envelope)]]
  <2>1. s.envelope \in Envelope
    BY <1>1 DEF Sending
  <2> QED BY <1>1, <1>2, <1>3, <2>1 DEF TypeOK
<1> DEFINE rest == [s EXCEPT !.to = s.to \ {c}]
<1>5. rest \in Sending /\ rest.at = s.at /\ rest.to \subseteq s.to
  BY <1>1 DEF Sending
<1>6. sending' \subseteq sending \cup {rest}
  BY DEF SendNext
<1> HIDE DEF rest
<1>7. sending' \subseteq Sending /\ \A x \in sending' : \A d \in x.to : x.at \in Ends[d]
  BY <1>5, <1>6 DEF TypeOK
<1> QED BY <1>4, <1>7 DEF TypeOK, SendNext

(* One hop less, and still a proper envelope.                              *)
LEMMA HopType ==
  ASSUME OverlayAssumption, NEW e \in Envelope, e.ttl > 1
  PROVE  /\ Hop(e) \in Envelope
         /\ Hop(e).id = e.id /\ Hop(e).ttl = e.ttl - 1 /\ Hop(e).signed = e.signed
<1>1. Hop(e) = [id |-> e.id, ttl |-> e.ttl - 1, signed |-> e.signed]
  BY DEF Hop, Envelope
<1>2. e.ttl - 1 \in 0..MaxTtl
  BY DEF Envelope, OverlayAssumption
<1> QED BY <1>1, <1>2 DEF Envelope

(* What the run loop takes is an envelope, and the rest stays in order.    *)
LEMMA TakenType ==
  ASSUME TypeOK, NEW n \in Node, NEW c \in Conn, channel[n][c] # <<>>
  PROVE  /\ Head(channel[n][c]) \in Envelope
         /\ [channel EXCEPT ![n][c] = Tail(@)] \in [Node -> [Conn -> Seq(Envelope)]]
<1>1. channel[n][c] \in Seq(Envelope)
  BY DEF TypeOK
<1>2. Head(channel[n][c]) \in Envelope
  BY <1>1
<1>3. Tail(channel[n][c]) \in Seq(Envelope)
  BY <1>1
<1> QED BY <1>2, <1>3 DEF TypeOK

(* Taking a copy, whatever becomes of it.                                  *)
LEMMA ProcessIncomingType ==
  ASSUME OverlayAssumption, TypeOK, NEW n \in Node, NEW c \in Conn, ProcessIncoming(n, c)
  PROVE  TypeOK'
<1> DEFINE e == Head(channel[n][c])
<1>1. e \in Envelope /\ channel' \in [Node -> [Conn -> Seq(Envelope)]]
  BY TakenType DEF ProcessIncoming
<1>2. /\ UNCHANGED calls
      /\ \/ DropsForged(n, e)
         \/ DropsDuplicate(n, e)
         \/ TakesNew(n, c, e)
  BY DEF ProcessIncoming
<1> HIDE DEF e
<1>3. CASE DropsForged(n, e)
  BY <1>1, <1>2, <1>3 DEF DropsForged, TypeOK
<1>4. CASE DropsDuplicate(n, e)
  <2>1. /\ seen' \in [Node -> Seq(MessageId)]
        /\ \A x \in Node : Len(seen'[x]) <= SeenCacheSize
        /\ heard' \in [Node -> Seq(Hearing)]
    BY <1>1, <1>4, NotesType DEF DropsDuplicate
  <2> QED BY <1>1, <1>2, <1>4, <2>1 DEF DropsDuplicate, TypeOK
<1>5. CASE TakesNew(n, c, e)
  <2>1. /\ seen' \in [Node -> Seq(MessageId)]
        /\ \A x \in Node : Len(seen'[x]) <= SeenCacheSize
        /\ heard' \in [Node -> Seq(Hearing)]
    BY <1>1, <1>5, NotesType DEF TakesNew
  <2>2. sending' \subseteq Sending /\ \A s \in sending' : \A d \in s.to : s.at \in Ends[d]
    <3>1. CASE MayTravelOn(e)
      <4>1. Hop(e) \in Envelope
        BY <1>1, <3>1, HopType DEF MayTravelOn
      <4>2. ConnectionsOf(n) \ {c} \in SUBSET ConnectionsOf(n)
        OBVIOUS
      <4>3. StartSending(n, "run", Hop(e), ConnectionsOf(n) \ {c})
        BY <1>5, <3>1 DEF TakesNew
      <4> QED BY <4>1, <4>2, <4>3, StartSendingType
    <3>2. CASE ~MayTravelOn(e)
      BY <1>5, <3>2 DEF TakesNew, TypeOK
    <3> QED BY <3>1, <3>2
  <2> QED BY <1>1, <1>2, <2>1, <2>2 DEF TypeOK
<1> QED BY <1>2, <1>3, <1>4, <1>5

(* Every step keeps every variable in its type.                            *)
LEMMA TypeKept ==
  ASSUME OverlayAssumption, TypeOK, [Next]_vars
  PROVE  TypeOK'
<1>1. CASE \E m \in MessageId : Broadcast(m)
  BY <1>1, BroadcastType
<1>2. CASE \E n \in Node, e \in Injected : Send(n, e)
  BY <1>2, SendType
<1>3. CASE \E s \in sending : \E c \in s.to : SendNext(s, c)
  BY <1>3, SendNextType
<1>4. CASE \E n \in Node, c \in Conn : ProcessIncoming(n, c)
  BY <1>4, ProcessIncomingType
<1>5. CASE UNCHANGED vars
  BY <1>5 DEF vars, TypeOK
<1> QED BY <1>1, <1>2, <1>3, <1>4, <1>5 DEF Next

(* Every variable keeps its type and every cache its capacity.             *)
THEOREM TypeCorrect == Spec => []TypeOK
<1>1. Init => TypeOK
  BY OverlayAssumption DEF Init, TypeOK, OverlayAssumption
<1>2. TypeOK /\ [Next]_vars => TypeOK'
  BY TypeKept, OverlayAssumption
<1> QED BY <1>1, <1>2, PTL DEF Spec
-----------------------------------------------------------------------------
(* The cache of ids                                                        *)

(* What a node has heard of since the i-th entry of its history.           *)
Since(h, i) == {h[x].id : x \in i + 1 .. Len(h)}

Distinct(cache) == \A p, q \in DOMAIN cache : p # q => cache[p] # cache[q]

(* Ids in front of one in the cache, and all of them if it is not there,   *)
(* were heard of since the last time this one was.                         *)
Recent(cache, h) ==
  \A i \in DOMAIN h, p \in DOMAIN cache :
    (\A q \in 1..p : cache[q] # h[i].id) => cache[p] \in Since(h, i)

(* Nothing is forgotten before the cache is full.                          *)
Kept(cache, h) == \A i \in DOMAIN h : ~Has(cache, h[i].id) => Len(cache) = SeenCacheSize

NoRepeatIn(h) ==
  \A i, k \in DOMAIN h :
    i < k /\ h[i].id = h[k].id /\ h[k].how = "new" =>
      Cardinality({h[x].id : x \in i + 1 .. k - 1}) >= SeenCacheSize

CacheSound(cache, h) == /\ Distinct(cache)
                        /\ Recent(cache, h)
                        /\ Kept(cache, h)
                        /\ NoRepeatIn(h)

CacheInv == \A n \in Node : CacheSound(seen[n], heard[n])

(* u holds the cache after a use of id, position by position: the id comes *)
(* first, what was in front of it moves back by one, what was behind it    *)
(* stays, and a full cache forgets its last id for a new one.              *)
Placed(u, cache, id, at, size) ==
  /\ DOMAIN u = 1..size
  /\ \A k \in 1..size :
       u[k] = IF k = 1 THEN id ELSE IF k <= at THEN cache[k - 1] ELSE cache[k]
  /\ Has(cache, id) => at \in 1..Len(cache) /\ cache[at] = id /\ size = Len(cache)
  /\ ~Has(cache, id) =>
       /\ at = Len(cache) + 1
       /\ size = IF Len(cache) = SeenCacheSize THEN Len(cache) ELSE Len(cache) + 1

(* Used does just that.                                                    *)
LEMMA UsedPositions ==
  ASSUME OverlayAssumption, NEW cache \in Seq(MessageId), Len(cache) <= SeenCacheSize,
         NEW id \in MessageId
  PROVE  \E at \in Nat \ {0}, size \in Nat \ {0} :
           Placed(Used(cache, id), cache, id, at, size)
<1> DEFINE at == IF Has(cache, id) THEN CHOOSE i \in DOMAIN cache : cache[i] = id
                 ELSE Len(cache) + 1
           size == IF Has(cache, id) \/ Len(cache) = SeenCacheSize THEN Len(cache)
                   ELSE Len(cache) + 1
<1>1. Has(cache, id) => at \in 1..Len(cache) /\ cache[at] = id
  BY DEF Has
<1>2. ~Has(cache, id) => at = Len(cache) + 1
  OBVIOUS
<1>3. size = IF Has(cache, id) \/ Len(cache) = SeenCacheSize THEN Len(cache)
             ELSE Len(cache) + 1
  OBVIOUS
<1>4. Used(cache, id) = [k \in 1..size |-> IF k = 1 THEN id ELSE IF k <= at THEN cache[k - 1]
                                           ELSE cache[k]]
  BY DEF Used
<1> HIDE DEF at, size
<1>5. at \in Nat \ {0} /\ size \in Nat \ {0}
  BY <1>1, <1>2, <1>3 DEF OverlayAssumption
<1>6. Placed(Used(cache, id), cache, id, at, size)
  BY <1>1, <1>2, <1>3, <1>4, <1>5 DEF Placed
<1> QED BY <1>5, <1>6

(* One more entry in a history: what was heard of since grows by its id.   *)
LEMMA SinceAppend ==
  ASSUME NEW h \in Seq(Hearing), NEW r \in Hearing, NEW i \in 1..Len(h)
  PROVE  Since(Append(h, r), i) = Since(h, i) \cup {r.id}
<1>1. Len(Append(h, r)) = Len(h) + 1
  OBVIOUS
<1>2. \A x \in 1..Len(h) : Append(h, r)[x] = h[x]
  OBVIOUS
<1>3. Append(h, r)[Len(h) + 1] = r
  OBVIOUS
<1>4. i + 1 .. Len(h) + 1 = (i + 1 .. Len(h)) \cup {Len(h) + 1}
  OBVIOUS
<1>5. \A x \in i + 1 .. Len(h) : Append(h, r)[x].id = h[x].id
  BY <1>2
<1>6. Since(Append(h, r), i) = {Append(h, r)[x].id : x \in (i + 1 .. Len(h)) \cup {Len(h) + 1}}
  BY <1>1, <1>4 DEF Since
<1> QED BY <1>3, <1>5, <1>6 DEF Since

(* Using an id does not put anything into the cache twice.                 *)
LEMMA DistinctKept ==
  ASSUME OverlayAssumption, NEW cache \in Seq(MessageId), Len(cache) <= SeenCacheSize,
         NEW id \in MessageId, Distinct(cache)
  PROVE  Distinct(Used(cache, id))
<1> DEFINE u == Used(cache, id)
<1>1. PICK at \in Nat \ {0}, size \in Nat \ {0} : Placed(u, cache, id, at, size)
  BY UsedPositions
<1> HIDE DEF u
<1>2. \A p, q \in 1..Len(cache) : p # q => cache[p] # cache[q]
  BY DEF Distinct
<1>3. ASSUME NEW p \in 2..size
      PROVE  u[p] # id
  <2>1. CASE Has(cache, id)
    BY <1>1, <1>2, <2>1 DEF Placed
  <2>2. CASE ~Has(cache, id)
    <3>1. p - 1 \in 1..Len(cache) /\ u[p] = cache[p - 1]
      BY <1>1, <2>2 DEF Placed
    <3> QED BY <2>2, <3>1 DEF Has
  <2> QED BY <2>1, <2>2
<1>4. ASSUME NEW p \in 2..size, NEW q \in 2..size, p < q
      PROVE  u[p] # u[q]
  <2>1. CASE Has(cache, id)
    BY <1>1, <1>2, <1>4, <2>1 DEF Placed
  <2>2. CASE ~Has(cache, id)
    <3>1. /\ p - 1 \in 1..Len(cache) /\ u[p] = cache[p - 1]
          /\ q - 1 \in 1..Len(cache) /\ u[q] = cache[q - 1]
      BY <1>1, <2>2 DEF Placed
    <3> QED BY <1>2, <1>4, <3>1
  <2> QED BY <2>1, <2>2
<1>5. ASSUME NEW p \in 1..size, NEW q \in 1..size, p < q
      PROVE  u[p] # u[q]
  <2>1. CASE p = 1
    BY <1>1, <1>3, <1>5, <2>1 DEF Placed
  <2>2. CASE p # 1
    BY <1>4, <1>5, <2>2
  <2> QED BY <2>1, <2>2
<1>6. \A p, q \in 1..size : p # q => p < q \/ q < p
  OBVIOUS
<1>7. \A p, q \in 1..size : p # q => u[p] # u[q]
  BY <1>5, <1>6
<1> QED BY <1>1, <1>7 DEF Distinct, u, Placed

(* Using an id leaves the cache in the order of the last use.              *)
LEMMA RecentKept ==
  ASSUME OverlayAssumption, NEW cache \in Seq(MessageId), Len(cache) <= SeenCacheSize,
         NEW h \in Seq(Hearing), NEW r \in Hearing, Recent(cache, h)
  PROVE  Recent(Used(cache, r.id), Append(h, r))
<1> DEFINE id == r.id
           u == Used(cache, id)
           g == Append(h, r)
<1>1. id \in MessageId
  BY DEF Hearing
<1>2. PICK at \in Nat \ {0}, size \in Nat \ {0} : Placed(u, cache, id, at, size)
  BY <1>1, UsedPositions
<1>3. /\ DOMAIN g = 1 .. Len(h) + 1
      /\ \A i \in 1..Len(h) : g[i] = h[i] /\ Since(g, i) = Since(h, i) \cup {id}
      /\ g[Len(h) + 1] = r
  BY SinceAppend
<1> SUFFICES ASSUME NEW i \in 1 .. Len(h) + 1, NEW p \in 1..size,
                    \A q \in 1..p : u[q] # g[i].id
             PROVE  u[p] \in Since(g, i)
  BY <1>2, <1>3 DEF Recent, Placed
<1> HIDE DEF u, g
<1>4. u[1] = id
  BY <1>2 DEF Placed
<1>5. i \in 1..Len(h)
  BY <1>3, <1>4
<1>6. g[i] = h[i] /\ Since(g, i) = Since(h, i) \cup {id}
  BY <1>3, <1>5
<1>7. CASE p = 1
  BY <1>4, <1>6, <1>7
<1>8. CASE p > 1 /\ p <= at
  <2>1. p - 1 \in 1..Len(cache) /\ u[p] = cache[p - 1]
    BY <1>2, <1>8 DEF Placed
  <2>2. \A q \in 1 .. p - 1 : u[q + 1] = cache[q]
    BY <1>2, <1>8 DEF Placed
  <2>3. \A q \in 1 .. p - 1 : cache[q] # h[i].id
    BY <1>6, <2>2
  <2>4. cache[p - 1] \in Since(h, i)
    BY <1>5, <2>1, <2>3 DEF Recent
  <2> QED BY <1>6, <2>1, <2>4
<1>9. CASE p > at
  <2>1. /\ p \in 1..Len(cache) /\ u[p] = cache[p]
        /\ at \in 1..Len(cache) /\ cache[at] = id /\ size = Len(cache)
    BY <1>2, <1>9 DEF Placed
  <2>2. ASSUME NEW q \in 1..p
        PROVE  cache[q] # h[i].id
    <3>1. CASE q < at
      <4>1. u[q + 1] = cache[q] /\ q + 1 \in 1..p
        BY <1>2, <1>9, <2>1, <3>1 DEF Placed
      <4> QED BY <1>6, <4>1
    <3>2. CASE q = at
      BY <1>4, <1>6, <2>1, <3>2
    <3>3. CASE q > at
      <4>1. u[q] = cache[q]
        BY <1>2, <2>1, <3>3 DEF Placed
      <4> QED BY <1>6, <4>1
    <3> QED BY <3>1, <3>2, <3>3
  <2>3. i \in DOMAIN h /\ p \in DOMAIN cache
    BY <1>5, <2>1
  <2>4. cache[p] \in Since(h, i)
    BY <2>2, <2>3 DEF Recent
  <2> QED BY <1>6, <2>1, <2>4
<1> QED BY <1>7, <1>8, <1>9

(* Using an id makes room for it only in a full cache.                     *)
LEMMA KeptKept ==
  ASSUME OverlayAssumption, NEW cache \in Seq(MessageId), Len(cache) <= SeenCacheSize,
         NEW h \in Seq(Hearing), NEW r \in Hearing, Kept(cache, h)
  PROVE  Kept(Used(cache, r.id), Append(h, r))
<1> DEFINE id == r.id
           u == Used(cache, id)
           g == Append(h, r)
<1>1. id \in MessageId
  BY DEF Hearing
<1>2. PICK at \in Nat \ {0}, size \in Nat \ {0} : Placed(u, cache, id, at, size)
  BY <1>1, UsedPositions
<1>3. /\ DOMAIN g = 1 .. Len(h) + 1
      /\ \A i \in 1..Len(h) : g[i] = h[i]
      /\ g[Len(h) + 1] = r
  OBVIOUS
<1>4. Len(u) = size
  <2>1. u \in Seq(MessageId)
    BY <1>1, UsedType
  <2> QED BY <1>2, <2>1 DEF Placed
<1> SUFFICES ASSUME NEW i \in 1 .. Len(h) + 1, ~Has(u, g[i].id)
             PROVE  size = SeenCacheSize
  BY <1>3, <1>4 DEF Kept
<1> HIDE DEF u, g
<1>5. \A p \in 1..size : u[p] # g[i].id
  BY <1>2 DEF Has, Placed
<1>6. i \in 1..Len(h) /\ g[i] = h[i]
  BY <1>2, <1>3, <1>5 DEF Placed
<1>7. CASE Has(cache, h[i].id)
  <2>1. PICK p \in 1..Len(cache) : cache[p] = h[i].id
    BY <1>7 DEF Has
  <2>2. CASE Has(cache, id)
    <3>1. CASE p < at
      <4>1. p + 1 \in 1..size /\ u[p + 1] = cache[p]
        BY <1>2, <2>2, <3>1 DEF Placed
      <4> QED BY <1>5, <1>6, <2>1, <4>1
    <3>2. CASE p = at
      <4>1. 1 \in 1..size /\ u[1] = cache[p]
        BY <1>2, <2>2, <3>2 DEF Placed
      <4> QED BY <1>5, <1>6, <2>1, <4>1
    <3>3. CASE p > at
      <4>1. p \in 1..size /\ u[p] = cache[p]
        BY <1>2, <2>2, <3>3 DEF Placed
      <4> QED BY <1>5, <1>6, <2>1, <4>1
    <3> QED BY <3>1, <3>2, <3>3
  <2>3. CASE ~Has(cache, id)
    <3>1. CASE p + 1 <= size
      <4>1. p + 1 \in 1..size /\ u[p + 1] = cache[p]
        BY <1>2, <2>3, <3>1 DEF Placed
      <4> QED BY <1>5, <1>6, <2>1, <4>1
    <3>2. CASE p + 1 > size
      BY <1>2, <2>3, <3>2 DEF Placed
    <3> QED BY <3>1, <3>2
  <2> QED BY <2>2, <2>3
<1>8. CASE ~Has(cache, h[i].id)
  <2>1. Len(cache) = SeenCacheSize
    BY <1>6, <1>8 DEF Kept
  <2> QED BY <1>2, <2>1 DEF Placed
<1> QED BY <1>7, <1>8

(* A full cache that does not hold an id bears witness to SeenCacheSize    *)
(* others since the id was last met.                                       *)
LEMMA FullCacheCounts ==
  ASSUME OverlayAssumption, NEW cache \in Seq(MessageId), NEW h \in Seq(Hearing),
         Distinct(cache), Recent(cache, h), Kept(cache, h),
         NEW i \in 1..Len(h), ~Has(cache, h[i].id)
  PROVE  Cardinality(Since(h, i)) >= SeenCacheSize
<1> DEFINE T == Since(h, i)
           X == i + 1 .. Len(h)
           f == [x \in X |-> h[x].id]
<1>1. IsFiniteSet(X)
  BY FS_Interval
<1>2. f \in Surjection(X, T)
  BY DEF Surjection, Since
<1>3. IsFiniteSet(T)
  BY <1>1, <1>2, FS_Surjection
<1>4. Len(cache) = SeenCacheSize
  BY DEF Kept
<1>5. ASSUME NEW p \in 1..Len(cache)
      PROVE  cache[p] \in T
  <2>1. \A q \in 1..p : cache[q] # h[i].id
    BY DEF Has
  <2> QED BY <2>1 DEF Recent
<1>6. DOMAIN cache = 1..SeenCacheSize
  BY <1>4
<1>7. cache \in Injection(1..SeenCacheSize, T)
  <2> HIDE DEF T
  <2>1. cache \in [1..SeenCacheSize -> T]
    BY <1>4, <1>5, <1>6
  <2>2. \A p, q \in 1..SeenCacheSize : cache[p] = cache[q] => p = q
    BY <1>6 DEF Distinct
  <2> QED BY <2>1, <2>2 DEF Injection, IsInjective
<1>8. Cardinality(1..SeenCacheSize) = SeenCacheSize
  BY FS_Interval DEF OverlayAssumption
<1>9. Cardinality(1..SeenCacheSize) <= Cardinality(T)
  BY <1>3, <1>7, FS_Injection
<1> QED BY <1>8, <1>9 DEF OverlayAssumption

(* A history without early repeats gets none if what is taken as new is    *)
(* not in the cache.                                                       *)
LEMMA NoRepeatKept ==
  ASSUME OverlayAssumption, NEW cache \in Seq(MessageId), NEW h \in Seq(Hearing),
         NEW r \in Hearing, CacheSound(cache, h), r.how = "new" => ~Has(cache, r.id)
  PROVE  NoRepeatIn(Append(h, r))
<1> DEFINE g == Append(h, r)
<1>1. /\ DOMAIN g = 1 .. Len(h) + 1
      /\ \A x \in 1..Len(h) : g[x] = h[x]
      /\ g[Len(h) + 1] = r
  OBVIOUS
<1> HIDE DEF g
<1> SUFFICES ASSUME NEW i \in 1 .. Len(h) + 1, NEW k \in 1 .. Len(h) + 1,
                    i < k, g[i].id = g[k].id, g[k].how = "new"
             PROVE  Cardinality({g[x].id : x \in i + 1 .. k - 1}) >= SeenCacheSize
  BY <1>1 DEF NoRepeatIn, g
<1>2. i \in 1..Len(h) /\ g[i] = h[i]
  BY <1>1
<1>3. {g[x].id : x \in i + 1 .. k - 1} = {h[x].id : x \in i + 1 .. k - 1}
  <2>1. \A x \in i + 1 .. k - 1 : g[x].id = h[x].id
    BY <1>1
  <2> QED BY <2>1
<1>4. CASE k \in 1..Len(h)
  <2>1. h[i].id = h[k].id /\ h[k].how = "new"
    BY <1>1, <1>2, <1>4
  <2>2. Cardinality({h[x].id : x \in i + 1 .. k - 1}) >= SeenCacheSize
    <3>1. i \in DOMAIN h /\ k \in DOMAIN h /\ NoRepeatIn(h)
      BY <1>2, <1>4 DEF CacheSound
    <3> QED BY <2>1, <3>1 DEF NoRepeatIn
  <2> QED BY <1>3, <2>2
<1>5. CASE k = Len(h) + 1
  <2>1. h[i].id = r.id /\ r.how = "new"
    BY <1>1, <1>2, <1>5
  <2>2. ~Has(cache, h[i].id)
    BY <2>1
  <2>3. Cardinality(Since(h, i)) >= SeenCacheSize
    BY <1>2, <2>2, FullCacheCounts DEF CacheSound
  <2>4. Since(h, i) = {h[x].id : x \in i + 1 .. k - 1}
    BY <1>5 DEF Since
  <2> QED BY <1>3, <2>3, <2>4
<1>6. k \in 1..Len(h) \/ k = Len(h) + 1
  OBVIOUS
<1> QED BY <1>4, <1>5, <1>6

(* Cache and history stay consistent when a node notes an id.              *)
LEMMA CacheSoundKept ==
  ASSUME OverlayAssumption, NEW cache \in Seq(MessageId), Len(cache) <= SeenCacheSize,
         NEW h \in Seq(Hearing), NEW r \in Hearing, CacheSound(cache, h),
         r.how = "new" => ~Has(cache, r.id)
  PROVE  CacheSound(Used(cache, r.id), Append(h, r))
<1>1. r.id \in MessageId
  BY DEF Hearing
<1> QED BY <1>1, DistinctKept, RecentKept, KeptKept, NoRepeatKept DEF CacheSound

(* What a node notes keeps every cache consistent with its history.        *)
LEMMA NotesKeepsCache ==
  ASSUME OverlayAssumption, TypeOK, CacheInv, NEW n \in Node, NEW e \in Envelope,
         NEW how \in {"own", "new", "old"}, Notes(n, e, how),
         how = "new" => ~Has(seen[n], e.id)
  PROVE  CacheInv'
<1> DEFINE r == [id |-> e.id, ttl |-> e.ttl, how |-> how]
<1>1. r \in Hearing /\ r.id = e.id /\ r.how = how
  BY DEF Hearing, Envelope
<1>2. /\ seen' = [seen EXCEPT ![n] = Used(seen[n], e.id)]
      /\ heard' = [heard EXCEPT ![n] = Append(heard[n], r)]
  BY DEF Notes
<1> HIDE DEF r
<1>3. CacheSound(Used(seen[n], r.id), Append(heard[n], r))
  BY <1>1, CacheSoundKept DEF TypeOK, CacheInv
<1>4. seen'[n] = Used(seen[n], r.id) /\ heard'[n] = Append(heard[n], r)
  BY <1>1, <1>2 DEF TypeOK
<1>5. ASSUME NEW m \in Node
      PROVE  CacheSound(seen'[m], heard'[m])
  <2>1. CASE m = n
    BY <1>3, <1>4, <2>1
  <2>2. CASE m # n
    <3>1. seen'[m] = seen[m] /\ heard'[m] = heard[m]
      BY <1>2, <2>2 DEF TypeOK
    <3> QED BY <3>1 DEF CacheInv
  <2> QED BY <2>1, <2>2
<1> QED BY <1>5 DEF CacheInv

(* So does every step, as only noting touches cache and history.           *)
LEMMA CacheKept ==
  ASSUME OverlayAssumption, TypeOK, CacheInv, [Next]_vars
  PROVE  CacheInv'
<1>1. CASE \E m \in MessageId : Broadcast(m)
  <2>1. PICK m \in MessageId : Broadcast(m)
    BY <1>1
  <2> DEFINE n == Author[m]
             u == [id |-> m, ttl |-> MaxTtl, signed |-> FALSE]
  <2>2. n \in Node
    BY DEF OverlayAssumption
  <2>3. u \in Envelope
    <3>1. MaxTtl \in 0..MaxTtl
      BY DEF OverlayAssumption
    <3> QED BY <3>1 DEF Envelope
  <2>4. Notes(n, Sign(u), "own")
    BY <2>1 DEF Broadcast
  <2> HIDE DEF n, u
  <2>5. Sign(u) \in Envelope
    BY <2>3, SignType
  <2> QED BY <2>2, <2>4, <2>5, NotesKeepsCache
<1>2. CASE \E n \in Node, e \in Injected : Send(n, e)
  BY <1>2 DEF Send, CacheInv
<1>3. CASE \E s \in sending : \E c \in s.to : SendNext(s, c)
  BY <1>3 DEF SendNext, CacheInv
<1>4. CASE \E n \in Node, c \in Conn : ProcessIncoming(n, c)
  <2>1. PICK n \in Node, c \in Conn : ProcessIncoming(n, c)
    BY <1>4
  <2> DEFINE e == Head(channel[n][c])
  <2>2. e \in Envelope
    BY <2>1, TakenType DEF ProcessIncoming
  <2>3. DropsForged(n, e) \/ DropsDuplicate(n, e) \/ TakesNew(n, c, e)
    BY <2>1 DEF ProcessIncoming
  <2> HIDE DEF e
  <2>4. CASE DropsForged(n, e)
    BY <2>4 DEF DropsForged, CacheInv
  <2>5. CASE DropsDuplicate(n, e)
    BY <2>2, <2>5, NotesKeepsCache DEF DropsDuplicate
  <2>6. CASE TakesNew(n, c, e)
    BY <2>2, <2>6, NotesKeepsCache DEF TakesNew
  <2> QED BY <2>3, <2>4, <2>5, <2>6
<1>5. CASE UNCHANGED vars
  BY <1>5 DEF vars, CacheInv
<1> QED BY <1>1, <1>2, <1>3, <1>4, <1>5 DEF Next

(* A node takes a message as new once, and again only after it has met     *)
(* SeenCacheSize other ids: process_incoming's cache lookups and           *)
(* broadcast()'s insertion, for any capacity and traffic.                  *)
THEOREM NoRepeatWhileRemembered == Spec => []NoEarlyRepeat
<1>1. Init => CacheInv
  BY DEF Init, CacheInv, CacheSound, Distinct, Recent, Kept, NoRepeatIn
<1>2. TypeOK /\ CacheInv /\ [Next]_vars => CacheInv'
  BY CacheKept, OverlayAssumption
<1>3. CacheInv => NoEarlyRepeat
  BY DEF CacheInv, CacheSound, NoRepeatIn, NoEarlyRepeat
<1> QED BY <1>1, <1>2, <1>3, TypeCorrect, PTL DEF Spec
-----------------------------------------------------------------------------
(* Distance                                                                *)

(* A call whose message may be at n, its TTL counted down to ttl: as a     *)
(* copy that arrived there, and as one that is about to leave.             *)
ArrivesFrom(call, n, id, ttl) ==
  LET e == call.envelope
      hops == e.ttl - ttl + 1
  IN /\ e.id = id
     /\ e.signed
     /\ hops >= 1
     /\ hops = 1 \/ hops <= e.ttl
     /\ Walk(call.at, n, hops)

LeavesFrom(call, n, id, ttl) ==
  LET e == call.envelope
      hops == e.ttl - ttl
  IN /\ e.id = id
     /\ e.signed
     /\ hops >= 0
     /\ hops = 0 \/ hops < e.ttl
     /\ Walk(call.at, n, hops)

Arrives(cs, n, id, ttl) == \E i \in DOMAIN cs : ArrivesFrom(cs[i], n, id, ttl)

Leaves(cs, n, id, ttl) == \E i \in DOMAIN cs : LeavesFrom(cs[i], n, id, ttl)

CopiesArrive(ch, cs) ==
  \A n \in Node, c \in Conn : \A k \in DOMAIN ch[n][c] :
    ch[n][c][k].signed => Arrives(cs, n, ch[n][c][k].id, ch[n][c][k].ttl)

CopiesLeave(ss, cs) ==
  \A s \in ss : s.envelope.signed => Leaves(cs, s.at, s.envelope.id, s.envelope.ttl)

NewsArrived(hs, cs) ==
  \A n \in Node : \A k \in DOMAIN hs[n] :
    hs[n][k].how = "new" => Arrives(cs, n, hs[n][k].id, hs[n][k].ttl)

HopInv == /\ CopiesArrive(channel, calls)
          /\ CopiesLeave(sending, calls)
          /\ NewsArrived(heard, calls)

(* A walk of no hops.                                                      *)
LEMMA WalkStays ==
  ASSUME NEW a \in Node
  PROVE  Walk(a, a, 0)
<1> DEFINE p == [i \in 0..0 |-> a]
<1>1. p \in [0..0 -> Node] /\ p[0] = a
  OBVIOUS
<1>2. 1..0 = {}
  OBVIOUS
<1> HIDE DEF p
<1> QED BY <1>1, <1>2 DEF Walk

(* A walk goes on to a neighbour of its end.                               *)
LEMMA WalkGrows ==
  ASSUME NEW a, NEW b, NEW k \in Nat, Walk(a, b, k), NEW c \in Node, Adjacent(b, c)
  PROVE  Walk(a, c, k + 1)
<1>1. PICK p \in [0..k -> Node] :
        p[0] = a /\ p[k] = b /\ \A i \in 1..k : Adjacent(p[i - 1], p[i])
  BY DEF Walk
<1> DEFINE q == [i \in 0 .. k + 1 |-> IF i = k + 1 THEN c ELSE p[i]]
<1>2. q \in [0 .. k + 1 -> Node]
  BY <1>1
<1>3. q[k + 1] = c /\ \A i \in 0..k : q[i] = p[i]
  OBVIOUS
<1> HIDE DEF q
<1>4. ASSUME NEW i \in 1 .. k + 1
      PROVE  Adjacent(q[i - 1], q[i])
  <2>1. CASE i = k + 1
    <3>1. q[i - 1] = b /\ q[i] = c
      BY <1>1, <1>3, <2>1
    <3> QED BY <3>1
  <2>2. CASE i \in 1..k
    <3>1. q[i - 1] = p[i - 1] /\ q[i] = p[i]
      BY <1>3, <2>2
    <3> QED BY <1>1, <2>2, <3>1
  <2> QED BY <2>1, <2>2
<1>5. q[0] = a
  BY <1>1, <1>3
<1> QED BY <1>2, <1>3, <1>4, <1>5 DEF Walk

(* What leaves a node arrives at the next one.                             *)
LEMMA LeavesArrives ==
  ASSUME NEW cs \in Seq(Call), NEW n, NEW id, NEW ttl \in Nat, Leaves(cs, n, id, ttl),
         NEW m \in Node, Adjacent(n, m)
  PROVE  Arrives(cs, m, id, ttl)
<1>1. PICK i \in DOMAIN cs : LeavesFrom(cs[i], n, id, ttl)
  BY DEF Leaves
<1> DEFINE e == cs[i].envelope
           hops == e.ttl - ttl
<1>2. e.ttl \in Nat
  <2>1. cs[i] \in Call
    OBVIOUS
  <2> QED BY <2>1 DEF Call, Envelope
<1>3. /\ e.id = id
      /\ e.signed
      /\ hops >= 0
      /\ hops = 0 \/ hops < e.ttl
      /\ Walk(cs[i].at, n, hops)
  BY <1>1 DEF LeavesFrom
<1>4. hops \in Nat /\ hops + 1 >= 1 /\ (hops + 1 = 1 \/ hops + 1 <= e.ttl)
  BY <1>2, <1>3
<1> HIDE DEF hops
<1>5. Walk(cs[i].at, m, hops + 1)
  BY <1>3, <1>4, WalkGrows
<1>6. ArrivesFrom(cs[i], m, id, ttl)
  BY <1>3, <1>4, <1>5 DEF ArrivesFrom, hops
<1> QED BY <1>6 DEF Arrives

(* What arrives with hops left may leave with one less.                    *)
LEMMA ArrivesLeaves ==
  ASSUME NEW cs \in Seq(Call), NEW n, NEW id, NEW ttl \in Nat, ttl > 1, Arrives(cs, n, id, ttl)
  PROVE  Leaves(cs, n, id, ttl - 1)
<1>1. PICK i \in DOMAIN cs : ArrivesFrom(cs[i], n, id, ttl)
  BY DEF Arrives
<1> DEFINE e == cs[i].envelope
<1>2. e.ttl \in Nat
  <2>1. cs[i] \in Call
    OBVIOUS
  <2> QED BY <2>1 DEF Call, Envelope
<1>3. e.ttl - (ttl - 1) = e.ttl - ttl + 1
  BY <1>2
<1>4. /\ e.id = id
      /\ e.signed
      /\ e.ttl - ttl + 1 >= 1
      /\ Walk(cs[i].at, n, e.ttl - ttl + 1)
  BY <1>1 DEF ArrivesFrom
<1>5. e.ttl - (ttl - 1) >= 0 /\ e.ttl - (ttl - 1) < e.ttl
  BY <1>2, <1>4
<1>6. LeavesFrom(cs[i], n, id, ttl - 1)
  BY <1>3, <1>4, <1>5 DEF LeavesFrom
<1> QED BY <1>6 DEF Leaves

(* A further call explains what was explained before.                      *)
LEMMA CallsGrow ==
  ASSUME NEW cs \in Seq(Call), NEW x \in Call, NEW n, NEW id, NEW ttl
  PROVE  /\ Arrives(cs, n, id, ttl) => Arrives(Append(cs, x), n, id, ttl)
         /\ Leaves(cs, n, id, ttl) => Leaves(Append(cs, x), n, id, ttl)
<1>1. \A i \in DOMAIN cs : i \in DOMAIN Append(cs, x) /\ Append(cs, x)[i] = cs[i]
  OBVIOUS
<1> QED BY <1>1 DEF Arrives, Leaves

(* A signed envelope leaves the node it was handed to.                     *)
LEMMA CallLeaves ==
  ASSUME NEW cs \in Seq(Call), NEW n \in Node, NEW e \in Envelope, e.signed
  PROVE  Leaves(Append(cs, [at |-> n, envelope |-> e]), n, e.id, e.ttl)
<1> DEFINE x == [at |-> n, envelope |-> e]
           g == Append(cs, x)
<1>1. Len(cs) + 1 \in DOMAIN g /\ g[Len(cs) + 1] = x
  OBVIOUS
<1>2. e.ttl \in Nat /\ e.ttl - e.ttl = 0
  BY DEF Envelope, OverlayAssumption
<1>3. LeavesFrom(x, n, e.id, e.ttl)
  BY <1>2, WalkStays DEF LeavesFrom
<1> HIDE DEF g, x
<1>4. Leaves(g, n, e.id, e.ttl)
  BY <1>1, <1>3 DEF Leaves
<1> QED BY <1>4 DEF g, x

(* Whatever was explained by the calls so far stays so after a further     *)
(* call.                                                                   *)
LEMMA CallKeepsHops ==
  ASSUME TypeOK, HopInv, NEW x \in Call
  PROVE  /\ CopiesArrive(channel, Append(calls, x))
         /\ CopiesLeave(sending, Append(calls, x))
         /\ NewsArrived(heard, Append(calls, x))
<1>1. calls \in Seq(Call)
  BY DEF TypeOK
<1>2. \A n, id, ttl : /\ Arrives(calls, n, id, ttl) => Arrives(Append(calls, x), n, id, ttl)
                      /\ Leaves(calls, n, id, ttl) => Leaves(Append(calls, x), n, id, ttl)
  BY <1>1, CallsGrow
<1>3. CopiesArrive(channel, Append(calls, x))
  BY <1>2 DEF HopInv, CopiesArrive
<1>4. CopiesLeave(sending, Append(calls, x))
  BY <1>2 DEF HopInv, CopiesLeave
<1>5. NewsArrived(heard, Append(calls, x))
  BY <1>2 DEF HopInv, NewsArrived
<1> QED BY <1>3, <1>4, <1>5

(* A loop may start with an envelope that may leave its node.              *)
LEMMA StartSendingKeepsHops ==
  ASSUME NEW n, NEW task, NEW e, NEW eligible, NEW cs,
         StartSending(n, task, e, eligible), CopiesLeave(sending, cs),
         e.signed => Leaves(cs, n, e.id, e.ttl)
  PROVE  CopiesLeave(sending', cs)
<1>1. PICK to \in Targets(eligible) :
        sending' = IF to = {} THEN sending
                   ELSE sending \cup {[at |-> n, task |-> task, envelope |-> e, to |-> to]}
  BY DEF StartSending
<1> DEFINE new == [at |-> n, task |-> task, envelope |-> e, to |-> to]
<1>2. new.at = n /\ new.envelope = e
  OBVIOUS
<1>3. sending' \subseteq sending \cup {new}
  BY <1>1
<1> HIDE DEF new
<1>4. ASSUME NEW s \in sending', s.envelope.signed
      PROVE  Leaves(cs, s.at, s.envelope.id, s.envelope.ttl)
  <2>1. CASE s \in sending
    BY <1>4, <2>1 DEF CopiesLeave
  <2>2. CASE s = new
    BY <1>2, <1>4, <2>2
  <2> QED BY <1>3, <2>1, <2>2
<1> QED BY <1>4 DEF CopiesLeave

(* News may be noted where its envelope may arrive.                        *)
LEMMA NotesKeepsHops ==
  ASSUME TypeOK, NEW n \in Node, NEW e \in Envelope, NEW how \in {"own", "new", "old"},
         NEW cs, Notes(n, e, how), NewsArrived(heard, cs),
         how = "new" => Arrives(cs, n, e.id, e.ttl)
  PROVE  NewsArrived(heard', cs)
<1> DEFINE r == [id |-> e.id, ttl |-> e.ttl, how |-> how]
<1>1. r \in Hearing /\ r.id = e.id /\ r.ttl = e.ttl /\ r.how = how
  BY DEF Hearing, Envelope
<1>2. heard' = [heard EXCEPT ![n] = Append(heard[n], r)]
  BY DEF Notes
<1> HIDE DEF r
<1> SUFFICES ASSUME NEW m \in Node, NEW k \in DOMAIN heard'[m], heard'[m][k].how = "new"
             PROVE  Arrives(cs, m, heard'[m][k].id, heard'[m][k].ttl)
  BY DEF NewsArrived
<1>3. CASE m = n
  <2>1. heard[n] \in Seq(Hearing) /\ heard'[m] = Append(heard[n], r)
    BY <1>2, <1>3 DEF TypeOK
  <2>2. CASE k \in DOMAIN heard[n]
    <3>1. heard'[m][k] = heard[n][k]
      BY <1>1, <2>1, <2>2
    <3> QED BY <1>3, <2>2, <3>1 DEF NewsArrived
  <2>3. CASE k = Len(heard[n]) + 1
    <3>1. heard'[m][k] = r
      BY <1>1, <2>1, <2>3
    <3> QED BY <1>1, <1>3, <3>1
  <2>4. k \in DOMAIN heard[n] \/ k = Len(heard[n]) + 1
    BY <1>1, <2>1
  <2> QED BY <2>2, <2>3, <2>4
<1>4. CASE m # n
  <2>1. heard'[m] = heard[m]
    BY <1>2, <1>4 DEF TypeOK
  <2> QED BY <2>1 DEF NewsArrived
<1> QED BY <1>3, <1>4

(* A turn of a sending loop makes one copy arrive next door.               *)
LEMMA SendNextKeepsHops ==
  ASSUME OverlayAssumption, TypeOK, HopInv, NEW s \in sending, NEW c \in s.to, SendNext(s, c)
  PROVE  HopInv'
<1>1. s \in Sending /\ c \in Conn /\ s.at \in Ends[c]
  BY DEF TypeOK, Sending
<1> DEFINE m == Other(c, s.at)
           e == s.envelope
           rest == [s EXCEPT !.to = s.to \ {c}]
<1>2. m \in Node /\ Adjacent(s.at, m) /\ e \in Envelope
  BY <1>1, OtherType DEF Sending
<1>3. e.ttl \in Nat
  BY <1>2 DEF Envelope, OverlayAssumption
<1>4. channel' = [channel EXCEPT ![m][c] = Append(@, e)]
  BY DEF SendNext
<1>5. rest.at = s.at /\ rest.envelope = s.envelope
  BY <1>1 DEF Sending
<1>6. sending' \subseteq sending \cup {rest} /\ UNCHANGED <<calls, heard>>
  BY DEF SendNext
<1> HIDE DEF m, e, rest
<1>7. e.signed => Arrives(calls, m, e.id, e.ttl)
  <2>1. e.signed => Leaves(calls, s.at, e.id, e.ttl)
    BY DEF HopInv, CopiesLeave, e
  <2> QED BY <1>2, <1>3, <2>1, LeavesArrives DEF TypeOK
<1>8. CopiesArrive(channel', calls)
  <2> SUFFICES ASSUME NEW n \in Node, NEW d \in Conn, NEW k \in DOMAIN channel'[n][d],
                      channel'[n][d][k].signed
               PROVE  Arrives(calls, n, channel'[n][d][k].id, channel'[n][d][k].ttl)
    BY DEF CopiesArrive
  <2>1. CASE n = m /\ d = c
    <3>1. channel[m][c] \in Seq(Envelope) /\ channel'[n][d] = Append(channel[m][c], e)
      BY <1>1, <1>2, <1>4, <2>1 DEF TypeOK
    <3>2. CASE k \in DOMAIN channel[m][c]
      <4>1. channel'[n][d][k] = channel[m][c][k]
        BY <1>2, <3>1, <3>2
      <4> QED BY <1>1, <1>2, <2>1, <3>2, <4>1 DEF HopInv, CopiesArrive
    <3>3. CASE k = Len(channel[m][c]) + 1
      <4>1. channel'[n][d][k] = e
        BY <1>2, <3>1, <3>3
      <4> QED BY <1>7, <2>1, <4>1
    <3>4. k \in DOMAIN channel[m][c] \/ k = Len(channel[m][c]) + 1
      BY <1>2, <3>1
    <3> QED BY <3>2, <3>3, <3>4
  <2>2. CASE ~(n = m /\ d = c)
    <3>1. channel'[n][d] = channel[n][d]
      BY <1>1, <1>2, <1>4, <2>2 DEF TypeOK
    <3> QED BY <3>1 DEF HopInv, CopiesArrive
  <2> QED BY <2>1, <2>2
<1>9. CopiesLeave(sending', calls)
  <2>1. ASSUME NEW t \in sending', t.envelope.signed
        PROVE  Leaves(calls, t.at, t.envelope.id, t.envelope.ttl)
    <3>1. t \in sending \/ (t.at = s.at /\ t.envelope = s.envelope)
      BY <1>5, <1>6
    <3> QED BY <2>1, <3>1 DEF HopInv, CopiesLeave
  <2> QED BY <2>1 DEF CopiesLeave
<1> QED BY <1>6, <1>8, <1>9 DEF HopInv

(* A broadcast starts at its author with the whole TTL.                    *)
LEMMA BroadcastKeepsHops ==
  ASSUME OverlayAssumption, TypeOK, HopInv, NEW m \in MessageId, Broadcast(m)
  PROVE  HopInv'
<1> DEFINE n == Author[m]
           u == [id |-> m, ttl |-> MaxTtl, signed |-> FALSE]
           e == Sign(u)
           x == [at |-> n, envelope |-> e]
<1>1. n \in Node
  BY DEF OverlayAssumption
<1>2. u \in Envelope
  <2>1. MaxTtl \in 0..MaxTtl
    BY DEF OverlayAssumption
  <2> QED BY <2>1 DEF Envelope
<1>3. Called(n, e) /\ Notes(n, e, "own") /\ StartSending(n, "caller", e, ConnectionsOf(n))
      /\ UNCHANGED channel
  BY DEF Broadcast
<1> HIDE DEF n, u
<1>4. e \in Envelope /\ e.signed
  BY <1>2, SignType
<1> HIDE DEF e
<1>5. x \in Call /\ calls' = Append(calls, x)
  BY <1>1, <1>3, <1>4 DEF Call, Called
<1>6. Leaves(Append(calls, x), n, e.id, e.ttl)
  BY <1>1, <1>4, CallLeaves DEF TypeOK
<1> HIDE DEF x
<1>7. /\ CopiesArrive(channel, calls')
      /\ CopiesLeave(sending, calls')
      /\ NewsArrived(heard, calls')
  BY <1>5, CallKeepsHops
<1>8. CopiesLeave(sending', calls')
  BY <1>3, <1>5, <1>6, <1>7, StartSendingKeepsHops
<1>9. NewsArrived(heard', calls')
  BY <1>1, <1>3, <1>4, <1>7, NotesKeepsHops
<1> QED BY <1>3, <1>7, <1>8, <1>9 DEF HopInv

(* So does an envelope handed to send(), with the TTL it has.              *)
LEMMA SendKeepsHops ==
  ASSUME OverlayAssumption, TypeOK, HopInv, NEW n \in Node, NEW e \in Injected, Send(n, e)
  PROVE  HopInv'
<1> DEFINE x == [at |-> n, envelope |-> e]
<1>1. e \in Envelope
  BY DEF OverlayAssumption
<1>2. Called(n, e) /\ StartSending(n, "caller", e, ConnectionsOf(n))
      /\ UNCHANGED <<seen, channel, heard>>
  BY DEF Send
<1>3. x \in Call /\ calls' = Append(calls, x)
  BY <1>1, <1>2 DEF Call, Called
<1>4. e.signed => Leaves(Append(calls, x), n, e.id, e.ttl)
  BY <1>1, CallLeaves DEF TypeOK
<1> HIDE DEF x
<1>5. /\ CopiesArrive(channel, calls')
      /\ CopiesLeave(sending, calls')
      /\ NewsArrived(heard, calls')
  BY <1>3, CallKeepsHops
<1>6. CopiesLeave(sending', calls')
  BY <1>2, <1>3, <1>4, <1>5, StartSendingKeepsHops
<1> QED BY <1>2, <1>5, <1>6 DEF HopInv

(* What a node takes is at the distance its TTL says, and so is what it    *)
(* sends on.                                                               *)
LEMMA TakesNewKeepsHops ==
  ASSUME OverlayAssumption, TypeOK, HopInv, NEW n \in Node, NEW c \in Conn, NEW e \in Envelope,
         e.signed, Arrives(calls, n, e.id, e.ttl), TakesNew(n, c, e)
  PROVE  CopiesLeave(sending', calls) /\ NewsArrived(heard', calls)
<1>1. NewsArrived(heard', calls)
  BY NotesKeepsHops DEF TakesNew, HopInv
<1>2. CASE MayTravelOn(e)
  <2> DEFINE f == Hop(e)
  <2>1. f.id = e.id /\ f.ttl = e.ttl - 1 /\ e.ttl > 1 /\ e.ttl \in Nat
    BY <1>2, HopType DEF MayTravelOn, Envelope, OverlayAssumption
  <2>2. Leaves(calls, n, e.id, e.ttl - 1)
    BY <2>1, ArrivesLeaves DEF TypeOK
  <2>3. StartSending(n, "run", f, ConnectionsOf(n) \ {c})
    BY <1>2 DEF TakesNew
  <2> HIDE DEF f
  <2>4. Leaves(calls, n, f.id, f.ttl)
    BY <2>1, <2>2
  <2>5. CopiesLeave(sending', calls)
    BY <2>3, <2>4, StartSendingKeepsHops DEF HopInv
  <2> QED BY <1>1, <2>5
<1>3. CASE ~MayTravelOn(e)
  BY <1>1, <1>3 DEF TakesNew, HopInv
<1> QED BY <1>2, <1>3

(* Taking the first of a queue moves the others up by one.                 *)
LEMMA TailMoves ==
  ASSUME NEW S, NEW q \in Seq(S), q # <<>>, NEW k \in DOMAIN Tail(q)
  PROVE  k + 1 \in DOMAIN q /\ Tail(q)[k] = q[k + 1]
<1>1. Len(q) > 0
  OBVIOUS
<1>2. Tail(q) \in Seq(S) /\ Len(Tail(q)) = Len(q) - 1
  BY <1>1
<1>3. k \in 1 .. Len(q) - 1
  BY <1>2
<1>4. Tail(q)[k] = q[k + 1]
  BY <1>1, <1>3
<1> QED BY <1>3, <1>4

(* Taking a copy, whatever becomes of it.                                  *)
LEMMA ProcessIncomingKeepsHops ==
  ASSUME OverlayAssumption, TypeOK, HopInv, NEW n \in Node, NEW c \in Conn,
         ProcessIncoming(n, c)
  PROVE  HopInv'
<1> DEFINE e == Head(channel[n][c])
<1>1. /\ channel[n][c] # <<>>
      /\ channel' = [channel EXCEPT ![n][c] = Tail(@)]
      /\ UNCHANGED calls
  BY DEF ProcessIncoming
<1>2. e \in Envelope
  BY <1>1, TakenType
<1>3. \/ DropsForged(n, e)
      \/ DropsDuplicate(n, e)
      \/ e.signed /\ TakesNew(n, c, e)
  BY DEF ProcessIncoming, Verify
<1>4. e.signed => Arrives(calls, n, e.id, e.ttl)
  <2>1. channel[n][c] \in Seq(Envelope)
    BY DEF TypeOK
  <2>2. 1 \in DOMAIN channel[n][c] /\ e = channel[n][c][1]
    BY <1>1, <2>1
  <2> HIDE DEF e
  <2> QED BY <2>2 DEF HopInv, CopiesArrive
<1> HIDE DEF e
<1>5. CopiesArrive(channel', calls)
  <2> SUFFICES ASSUME NEW m \in Node, NEW d \in Conn, NEW k \in DOMAIN channel'[m][d],
                      channel'[m][d][k].signed
               PROVE  Arrives(calls, m, channel'[m][d][k].id, channel'[m][d][k].ttl)
    BY DEF CopiesArrive
  <2>1. CASE m = n /\ d = c
    <3>1. channel[n][c] \in Seq(Envelope) /\ channel'[m][d] = Tail(channel[n][c])
      BY <1>1, <2>1 DEF TypeOK
    <3>2. k + 1 \in DOMAIN channel[n][c] /\ channel'[m][d][k] = channel[n][c][k + 1]
      <4>1. k \in DOMAIN Tail(channel[n][c])
        BY <3>1
      <4>2. /\ k + 1 \in DOMAIN channel[n][c]
            /\ Tail(channel[n][c])[k] = channel[n][c][k + 1]
        BY <1>1, <3>1, <4>1, TailMoves
      <4> QED BY <3>1, <4>2
    <3> QED BY <2>1, <3>2 DEF HopInv, CopiesArrive
  <2>2. CASE ~(m = n /\ d = c)
    <3>1. channel'[m][d] = channel[m][d]
      BY <1>1, <2>2 DEF TypeOK
    <3> QED BY <3>1 DEF HopInv, CopiesArrive
  <2> QED BY <2>1, <2>2
<1>6. CASE DropsForged(n, e)
  BY <1>1, <1>5, <1>6 DEF DropsForged, HopInv
<1>7. CASE DropsDuplicate(n, e)
  <2>1. NewsArrived(heard', calls)
    BY <1>2, <1>7, NotesKeepsHops DEF DropsDuplicate, HopInv
  <2> QED BY <1>1, <1>5, <1>7, <2>1 DEF DropsDuplicate, HopInv
<1>8. CASE e.signed /\ TakesNew(n, c, e)
  BY <1>1, <1>2, <1>4, <1>5, <1>8, TakesNewKeepsHops DEF HopInv
<1> QED BY <1>3, <1>6, <1>7, <1>8

(* Every step keeps copies, sending loops and news within their distance.  *)
LEMMA HopsKept ==
  ASSUME OverlayAssumption, TypeOK, HopInv, [Next]_vars
  PROVE  HopInv'
<1>1. CASE \E m \in MessageId : Broadcast(m)
  BY <1>1, BroadcastKeepsHops
<1>2. CASE \E n \in Node, e \in Injected : Send(n, e)
  BY <1>2, SendKeepsHops
<1>3. CASE \E s \in sending : \E c \in s.to : SendNext(s, c)
  BY <1>3, SendNextKeepsHops
<1>4. CASE \E n \in Node, c \in Conn : ProcessIncoming(n, c)
  BY <1>4, ProcessIncomingKeepsHops
<1>5. CASE UNCHANGED vars
  BY <1>5 DEF vars, HopInv
<1> QED BY <1>1, <1>2, <1>3, <1>4, <1>5 DEF Next

(* Whatever is given to a subscriber was called for, signed, by a node no  *)
(* further away than the TTL allows: the TTL arithmetic of broadcast(),    *)
(* process_incoming and send_to_peers, along every walk of the overlay.    *)
THEOREM NoFurtherThanTtl == Spec => []HopBound
<1>1. Init => HopInv
  BY DEF Init, HopInv, CopiesArrive, CopiesLeave, NewsArrived
<1>2. TypeOK /\ HopInv /\ [Next]_vars => HopInv'
  BY HopsKept, OverlayAssumption
<1>3. HopInv => HopBound
  BY DEF HopInv, NewsArrived, Arrives, ArrivesFrom, HopBound
<1> QED BY <1>1, <1>2, <1>3, TypeCorrect, PTL DEF Spec

-----------------------------------------------------------------------------
(* What a call can cost                                                    *)

(* The copies that one copy can become, itself included.                   *)
Weight(m, e) == IF e.id = m THEN 1 + Cost[Hops(e.ttl) - 1] ELSE 0

Bill(m, e) == IF e.id = m THEN Cost[Hops(e.ttl)] ELSE 0

Load(m, q) == SumFunctionOnSet([k \in 1..Len(q) |-> Weight(m, q[k])], 1..Len(q))

Taken(m, h) == {k \in DOMAIN h : h[k].id = m /\ h[k].how # "own"}

(* The copies of m that have been taken, and what those in queues, those   *)
(* loops have still to send and all the calls amount to.                   *)
Met(m) == [n \in Node |-> Cardinality(Taken(m, heard[n]))]

Coming(m) == [p \in Node \X Conn |-> Load(m, channel[p[1]][p[2]])]

Planned(m) == [s \in Sending |-> Cardinality(s.to) * Weight(m, s.envelope)]

Billed(m) == [i \in 1..Len(calls) |-> Bill(m, calls[i].envelope)]

MetSum(m) == SumFunctionOnSet(Met(m), Node)
ComingSum(m) == SumFunctionOnSet(Coming(m), Node \X Conn)
PlannedSum(m) == SumFunctionOnSet(Planned(m), sending)
BilledSum(m) == SumFunctionOnSet(Billed(m), 1..Len(calls))

(* What has been taken and what is still to come is covered by the calls.  *)
CostInv == /\ IsFiniteSet(sending)
           /\ \A m \in MessageId : MetSum(m) + ComingSum(m) + PlannedSum(m) <= BilledSum(m)

(* g satisfies the recursive definition of Cost up to n hops.              *)
IsCost(g, n) == g = [h \in 0..n |-> IF h = 0 THEN 0 ELSE Fanout * (1 + g[h - 1])]

(* There is such a function, for every number of hops.                     *)
LEMMA CostExists ==
  ASSUME NEW n \in Nat
  PROVE  \E g : IsCost(g, n)
<1> DEFINE P == {k \in 0..n : \E g : IsCost(g, k)}
<1>1. 0 \in P
  <2> DEFINE g == [h \in 0..0 |-> 0]
  <2>1. IsCost(g, 0)
    BY DEF IsCost
  <2> QED BY <2>1
<1>2. ASSUME NEW k \in 1..n, k - 1 \in P
      PROVE  k \in P
  <2>1. PICK g : IsCost(g, k - 1)
    BY <1>2
  <2> DEFINE Val(f, h) == IF h = 0 THEN 0 ELSE Fanout * (1 + f[h - 1])
             e == [h \in 0..k |-> Val(g, h)]
  <2>2. ASSUME NEW h \in 0..(k - 1)
        PROVE  e[h] = g[h]
    <3>1. g[h] = Val(g, h)
      BY <2>1 DEF IsCost
    <3>2. e[h] = Val(g, h)
      OBVIOUS
    <3> HIDE DEF e, Val
    <3> QED BY <3>1, <3>2
  <2>3. ASSUME NEW h \in 0..k
        PROVE  Val(g, h) = Val(e, h)
    <3>1. CASE h = 0
      BY <3>1
    <3>2. CASE h # 0
      <4>1. e[h - 1] = g[h - 1]
        <5> HIDE DEF e
        <5> QED BY <2>2, <3>2
      <4> HIDE DEF e
      <4> QED BY <3>2, <4>1
    <3> QED BY <3>1, <3>2
  <2>4. e = [h \in 0..k |-> Val(e, h)]
    BY <2>3
  <2> HIDE DEF e
  <2>5. IsCost(e, k)
    BY <2>4 DEF IsCost
  <2> QED BY <2>5
<1>3. P = 0..n
  <2> HIDE DEF P
  <2>1. P \in SUBSET (0..n)
    BY DEF P
  <2> QED BY <1>1, <1>2, <2>1, UpToInduction
<1> QED BY <1>3

(* Cost obeys its recursive definition and is a number.                    *)
LEMMA CostSteps ==
  ASSUME OverlayAssumption
  PROVE  /\ Cost[0] = 0
         /\ \A h \in 1..MaxTtl : Cost[h] = Fanout * (1 + Cost[h - 1])
         /\ \A h \in 0..MaxTtl : Cost[h] \in Nat
<1>1. Cost = CHOOSE g : IsCost(g, MaxTtl)
  BY DEF Cost, IsCost
<1>2. MaxTtl \in Nat /\ Fanout \in Nat
  BY DEF OverlayAssumption
<1>3. IsCost(Cost, MaxTtl)
  BY <1>1, <1>2, CostExists
<1>4. \A h \in 0..MaxTtl : Cost[h] = IF h = 0 THEN 0 ELSE Fanout * (1 + Cost[h - 1])
  BY <1>3 DEF IsCost
<1>5. Cost[0] = 0 /\ \A h \in 1..MaxTtl : Cost[h] = Fanout * (1 + Cost[h - 1])
  BY <1>2, <1>4
<1> DEFINE P == {h \in 0..MaxTtl : Cost[h] \in Nat}
<1>6. 0 \in P
  BY <1>2, <1>5
<1>7. ASSUME NEW h \in 1..MaxTtl, h - 1 \in P
      PROVE  h \in P
  <2> DEFINE c == Cost[h - 1]
  <2>1. c \in Nat /\ Cost[h] = Fanout * (1 + c)
    BY <1>5, <1>7
  <2> HIDE DEF c
  <2>2. Cost[h] \in Nat
    BY <1>2, <2>1
  <2> QED BY <2>2
<1>8. P = 0..MaxTtl
  <2> HIDE DEF P
  <2>1. P \in SUBSET (0..MaxTtl)
    BY DEF P
  <2> QED BY <1>2, <1>6, <1>7, <2>1, UpToInduction
<1> QED BY <1>5, <1>8

(* A call makes at most Fanout copies of the envelope, each with the hops  *)
(* it has left; a copy that is taken makes a call with one hop less.       *)
LEMMA Weights ==
  ASSUME OverlayAssumption, NEW m, NEW e \in Envelope
  PROVE  /\ Weight(m, e) \in Nat /\ Bill(m, e) \in Nat
         /\ e.id = m => Weight(m, e) >= 1
         /\ e.id # m => Weight(m, e) = 0
         /\ Bill(m, e) = Fanout * Weight(m, e)
         /\ e.id = m /\ e.ttl > 1 => Bill(m, Hop(e)) = Weight(m, e) - 1
         /\ e.id # m /\ e.ttl > 1 => Bill(m, Hop(e)) = 0
<1> DEFINE h == Hops(e.ttl)
           c == Cost[h - 1]
<1>1. MaxTtl \in Nat \ {0} /\ Fanout \in Nat /\ e.ttl \in 0..MaxTtl
  BY DEF OverlayAssumption, Envelope
<1>2. h \in 1..MaxTtl /\ h - 1 \in 0..MaxTtl
  BY <1>1 DEF Hops
<1>3. c \in Nat /\ Cost[h] \in Nat /\ Cost[h] = Fanout * (1 + c)
  <2> HIDE DEF h
  <2> QED BY <1>1, <1>2, CostSteps
<1>4. /\ Weight(m, e) = IF e.id = m THEN 1 + c ELSE 0
      /\ Bill(m, e) = IF e.id = m THEN Cost[h] ELSE 0
  BY DEF Weight, Bill
<1>5. e.ttl > 1 => Hops(e.ttl - 1) = h - 1 /\ Hop(e).id = e.id /\ Hop(e).ttl = e.ttl - 1
  BY <1>1, HopType DEF Hops
<1>6. e.ttl > 1 => Bill(m, Hop(e)) = IF e.id = m THEN c ELSE 0
  BY <1>5 DEF Bill
<1>7. Fanout * 0 = 0
  BY <1>1
<1> HIDE DEF h, c
<1>8. Bill(m, e) = Fanout * Weight(m, e)
  BY <1>3, <1>4, <1>7
<1> DEFINE w == Weight(m, e)
           b == Cost[h]
<1>9. e.id = m => w = 1 + c
  BY <1>4
<1>10. w \in Nat /\ (e.id = m => w >= 1) /\ (e.id = m => w - 1 = c) /\ (e.id # m => w = 0)
  BY <1>3, <1>4
<1> HIDE DEF w, b
<1> QED BY <1>3, <1>4, <1>6, <1>8, <1>10 DEF w

(* Multiplication is monotone and distributes over one more.               *)
LEMMA Times ==
  ASSUME NEW a \in Nat, NEW b \in Nat, NEW w \in Nat
  PROVE  /\ a * w \in Nat /\ b * w \in Nat
         /\ a <= b => a * w <= b * w
         /\ a = b + 1 => a * w = b * w + w
         /\ a >= 1 => a * w >= w
         /\ a = 1 => a * w = w
<1>1. a * w \in Nat /\ b * w \in Nat
  OBVIOUS
<1>2. a <= b => a * w <= b * w
  OBVIOUS
<1>3. a = b + 1 => a * w = b * w + w
  OBVIOUS
<1>4. a >= 1 => a * w >= w
  OBVIOUS
<1>5. a = 1 => a * w = w
  OBVIOUS
<1> QED BY <1>1, <1>2, <1>3, <1>4, <1>5

(* A call is put on the bill.                                              *)
LEMMA CalledBill ==
  ASSUME OverlayAssumption, TypeOK, NEW m, NEW n \in Node, NEW e \in Envelope, Called(n, e)
  PROVE  /\ BilledSum(m) \in Nat /\ BilledSum(m)' \in Nat
         /\ BilledSum(m)' = BilledSum(m) + Bill(m, e)
<1> DEFINE l == Len(calls)
           f == Billed(m)
           g == Billed(m)'
           b == Bill(m, e)
<1>1. /\ l \in Nat /\ calls \in Seq(Call)
      /\ calls' = Append(calls, [at |-> n, envelope |-> e])
  BY DEF TypeOK, Called
<1>2. Len(calls') = l + 1 /\ calls'[l + 1].envelope = e /\ \A i \in 1..l : calls'[i] = calls[i]
  BY <1>1
<1>3. \A i \in 1..l : calls[i].envelope \in Envelope
  <2>1. \A i \in 1..l : calls[i] \in Call
    BY <1>1
  <2> QED BY <2>1 DEF Call
<1>4. b \in Nat /\ \A i \in 1..l : Bill(m, calls[i].envelope) \in Nat
  BY <1>3, Weights
<1>5. \A i \in 1..l : f[i] = Bill(m, calls[i].envelope)
  BY DEF Billed
<1>6. g = [i \in 1..l + 1 |-> Bill(m, calls'[i].envelope)]
  BY <1>2 DEF Billed, Bill
<1>7. /\ \A i \in 1..l : g[i] = f[i]
      /\ g[l + 1] = b
  BY <1>1, <1>2, <1>5, <1>6
<1>8. /\ BilledSum(m) = SumFunctionOnSet(f, 1..l)
      /\ BilledSum(m)' = SumFunctionOnSet(g, 1..l + 1)
  BY <1>2 DEF BilledSum
<1> HIDE DEF f, g, b, l
<1> DEFINE D == 1..l
<1>9. IsFiniteSet(D) /\ l + 1 \notin D /\ D \cup {l + 1} = 1..l + 1
  <2>1. IsFiniteSet(D)
    BY <1>1, FS_Interval
  <2> QED BY <1>1, <2>1
<1>10. \A i \in D : f[i] \in Nat /\ g[i] \in Nat /\ g[i] \in Int /\ g[i] = f[i]
  BY <1>4, <1>5, <1>7 DEF l
<1> HIDE DEF D
<1>11. SumFunctionOnSet(f, D) \in Nat /\ SumFunctionOnSet(f, D) = SumFunctionOnSet(g, D)
  BY <1>9, <1>10, SumType, SumSame
<1>12. SumFunctionOnSet(g, D \cup {l + 1}) = g[l + 1] + SumFunctionOnSet(g, D)
  BY <1>4, <1>7, <1>9, <1>10, SumWith
<1>13. /\ BilledSum(m) = SumFunctionOnSet(f, D)
       /\ BilledSum(m)' = b + SumFunctionOnSet(f, D)
  BY <1>7, <1>8, <1>9, <1>11, <1>12 DEF D
<1> QED BY <1>4, <1>11, <1>13 DEF b

(* A loop plans no more copies than a call is billed for.                  *)
LEMMA TargetsCount ==
  ASSUME OverlayAssumption, NEW eligible \in SUBSET Conn, NEW to \in Targets(eligible)
  PROVE  Cardinality(to) \in Nat /\ Cardinality(to) <= Fanout
<1>1. Fanout \in Nat /\ IsFiniteSet(eligible) /\ IsFiniteSet(to)
  BY TargetsType, FS_Subset DEF OverlayAssumption
<1>2. Cardinality(to) \in Nat /\ Cardinality(eligible) \in Nat
  BY <1>1, FS_CardinalityType
<1>3. CASE Cardinality(eligible) <= Fanout
  BY <1>2, <1>3 DEF Targets
<1>4. CASE ~(Cardinality(eligible) <= Fanout)
  BY <1>1, <1>4 DEF Targets
<1> QED BY <1>2, <1>3, <1>4

(* What a loop has still to send amounts to a number.                      *)
LEMMA PlannedType ==
  ASSUME OverlayAssumption, NEW m, NEW s \in Sending
  PROVE  /\ Planned(m)[s] \in Nat
         /\ Planned(m)[s] = Cardinality(s.to) * Weight(m, s.envelope)
         /\ Cardinality(s.to) \in Nat /\ IsFiniteSet(s.to)
         /\ Weight(m, s.envelope) \in Nat
<1>1. s.envelope \in Envelope /\ s.to \in SUBSET Conn
  BY DEF Sending
<1>2. IsFiniteSet(s.to)
  BY <1>1, FS_Subset DEF OverlayAssumption
<1>3. Cardinality(s.to) \in Nat /\ Weight(m, s.envelope) \in Nat
  BY <1>1, <1>2, FS_CardinalityType, Weights
<1>4. Planned(m)[s] = Cardinality(s.to) * Weight(m, s.envelope)
  BY DEF Planned
<1> QED BY <1>2, <1>3, <1>4, Times

(* Starting a loop, for a call or a copy that travels on, plans no more    *)
(* than is billed.                                                         *)
LEMMA StartSendingPlans ==
  ASSUME OverlayAssumption, TypeOK, IsFiniteSet(sending), NEW m, NEW n \in Node,
         NEW task \in {"run", "caller"}, NEW e \in Envelope,
         NEW eligible \in SUBSET Conn, StartSending(n, task, e, eligible)
  PROVE  /\ IsFiniteSet(sending')
         /\ PlannedSum(m) \in Nat /\ PlannedSum(m)' \in Nat
         /\ PlannedSum(m)' <= PlannedSum(m) + Bill(m, e)
<1>1. PICK to \in Targets(eligible) :
        sending' = IF to = {} THEN sending
                   ELSE sending \cup {[at |-> n, task |-> task, envelope |-> e, to |-> to]}
  BY DEF StartSending
<1> DEFINE s == [at |-> n, task |-> task, envelope |-> e, to |-> to]
           f == Planned(m)
           p == SumFunctionOnSet(f, sending)
           q == SumFunctionOnSet(f, sending')
           b == Bill(m, e)
<1>2. s \in Sending /\ s.to = to /\ s.envelope = e
  BY <1>1, TargetsType DEF Sending
<1>3. PlannedSum(m) = p /\ PlannedSum(m)' = q
  BY DEF PlannedSum, Planned, Weight
<1>4. b \in Nat /\ f[s] \in Nat /\ f[s] <= b
  <2> DEFINE w == Weight(m, e)
             k == Cardinality(to)
  <2>1. w \in Nat /\ b \in Nat /\ b = Fanout * w
    BY Weights
  <2>2. k \in Nat /\ k <= Fanout /\ Fanout \in Nat
    BY TargetsCount DEF OverlayAssumption
  <2>3. f[s] = k * w /\ f[s] \in Nat
    BY <1>2, PlannedType
  <2> HIDE DEF w, k, b, f, s
  <2>4. k * w <= Fanout * w
    BY <2>1, <2>2, Times
  <2> QED BY <2>1, <2>3, <2>4
<1>5. \A x \in sending : f[x] \in Nat /\ f[x] \in Int
  BY PlannedType DEF TypeOK
<1>6. p \in Nat
  <2> HIDE DEF f
  <2> QED BY <1>5, SumType
<1>7. CASE sending' = sending
  BY <1>3, <1>4, <1>6, <1>7
<1>8. CASE sending' = sending \cup {s} /\ s \notin sending
  <2> HIDE DEF f, s
  <2>1. q = f[s] + p
    BY <1>4, <1>5, <1>8, SumWith
  <2>2. IsFiniteSet(sending')
    BY <1>8, FS_AddElement
  <2> DEFINE x == f[s]
  <2>3. x \in Nat /\ x <= b /\ q = x + p /\ b \in Nat
    BY <1>4, <2>1
  <2> HIDE DEF x, p, q, b
  <2>4. q \in Nat /\ q <= p + b
    BY <1>6, <2>3
  <2> QED BY <1>3, <1>6, <2>2, <2>4 DEF b
<1> QED BY <1>1, <1>7, <1>8

(* One copy of those a loop has planned is sent.                           *)
LEMMA SendNextPlans ==
  ASSUME OverlayAssumption, TypeOK, IsFiniteSet(sending), NEW m,
         NEW s \in sending, NEW c \in s.to, SendNext(s, c)
  PROVE  /\ IsFiniteSet(sending')
         /\ PlannedSum(m) \in Nat /\ PlannedSum(m)' \in Nat
         /\ PlannedSum(m)' + Weight(m, s.envelope) <= PlannedSum(m)
<1> DEFINE r == [s EXCEPT !.to = s.to \ {c}]
           R == sending \ {s}
           f == Planned(m)
           p == SumFunctionOnSet(f, sending)
           q == SumFunctionOnSet(f, sending')
           w == Weight(m, s.envelope)
           k == Cardinality(s.to)
           j == Cardinality(s.to \ {c})
           u == SumFunctionOnSet(f, R)
<1>1. sending' = R \cup (IF s.to = {c} THEN {} ELSE {r})
  BY DEF SendNext
<1>2. s \in Sending /\ r \in Sending /\ r.to = s.to \ {c} /\ r.envelope = s.envelope
  <2>1. s \in Sending /\ s.to \ {c} \in SUBSET Conn
    BY DEF TypeOK, Sending
  <2> QED BY <2>1 DEF Sending
<1>3. PlannedSum(m) = p /\ PlannedSum(m)' = q
  BY DEF PlannedSum, Planned, Weight
<1>4. k \in Nat /\ j \in Nat /\ k = j + 1 /\ w \in Nat
  <2>1. IsFiniteSet(s.to) /\ k \in Nat /\ w \in Nat
    BY <1>2, PlannedType
  <2>2. IsFiniteSet(s.to \ {c}) /\ j = k - 1
    BY <2>1, FS_RemoveElement
  <2>3. j \in Nat
    BY <2>2, FS_CardinalityType
  <2> HIDE DEF j, k, w
  <2> QED BY <2>1, <2>2, <2>3
<1>5. f[s] = k * w /\ f[r] = j * w
  BY <1>2, PlannedType
<1>6. \A x \in sending : f[x] \in Nat /\ f[x] \in Int
  BY PlannedType DEF TypeOK
<1>7. IsFiniteSet(R) /\ r \in {r}
  BY FS_RemoveElement
<1> HIDE DEF f
<1>8. p = f[s] + u
  BY <1>6, SumWithout
<1>9. u \in Nat
  <2>1. \A x \in R : f[x] \in Nat
    BY <1>6
  <2> HIDE DEF R
  <2> QED BY <1>7, <2>1, SumType
<1>10. IsFiniteSet(sending') /\ (q = u \/ q = j * w + u)
  <2>1. CASE sending' = R
    BY <1>7, <2>1
  <2>2. CASE sending' = R \cup {r} /\ r \notin R
    <3>1. /\ \A x \in R : f[x] \in Int
          /\ f[r] \in Int
      BY <1>4, <1>5, <1>6, Times
    <3> HIDE DEF R, r
    <3>2. q = f[r] + u
      BY <1>7, <2>2, <3>1, SumWith
    <3>3. IsFiniteSet(sending')
      BY <1>7, <2>2, FS_AddElement
    <3> QED BY <1>5, <3>2, <3>3
  <2>3. sending' = R \/ (sending' = R \cup {r} /\ r \notin R)
    <3> HIDE DEF R, r
    <3> QED BY <1>1
  <2> QED BY <2>1, <2>2, <2>3
<1> HIDE DEF p, q, w, k, j, u, R, r
<1>11. k * w = j * w + w /\ j * w \in Nat /\ k * w \in Nat
  BY <1>4, Times
<1> DEFINE a == j * w
<1>12. a \in Nat /\ p = (a + w) + u /\ (q = u \/ q = a + u)
  BY <1>5, <1>8, <1>10, <1>11
<1> HIDE DEF a
<1>13. q \in Nat /\ p \in Nat /\ q + w <= p
  BY <1>4, <1>9, <1>12
<1> QED BY <1>3, <1>10, <1>13 DEF w

(* A node that meets a copy has taken it.                                  *)
LEMMA TakenAppend ==
  ASSUME NEW m, NEW h \in Seq(Hearing), NEW r \in Hearing
  PROVE  /\ Cardinality(Taken(m, h)) \in Nat
         /\ Cardinality(Taken(m, Append(h, r)))
              = Cardinality(Taken(m, h)) + (IF r.id = m /\ r.how # "own" THEN 1 ELSE 0)
<1> DEFINE g == Append(h, r)
           n == Len(h)
           T == Taken(m, h)
           U == Taken(m, g)
<1>1. /\ n \in Nat /\ DOMAIN h = 1..n /\ DOMAIN g = 1..n + 1
      /\ g[n + 1] = r /\ \A i \in 1..n : g[i] = h[i]
  OBVIOUS
<1>2. T \subseteq 1..n /\ n + 1 \notin T
  BY <1>1 DEF Taken
<1>3. IsFiniteSet(T) /\ Cardinality(T) \in Nat
  <2>1. IsFiniteSet(1..n)
    BY <1>1, FS_Interval
  <2> HIDE DEF T
  <2>2. IsFiniteSet(T)
    BY <1>2, <2>1, FS_Subset
  <2> QED BY <2>2, FS_CardinalityType
<1> HIDE DEF g
<1>4. CASE r.id = m /\ r.how # "own"
  <2>1. U = T \cup {n + 1}
    BY <1>1, <1>4 DEF Taken
  <2> HIDE DEF T, U, n
  <2>2. Cardinality(U) = Cardinality(T) + 1
    BY <1>2, <1>3, <2>1, FS_AddElement
  <2> QED BY <1>3, <1>4, <2>2 DEF T, U, g
<1>5. CASE ~(r.id = m /\ r.how # "own")
  <2>1. U = T
    BY <1>1, <1>5 DEF Taken
  <2> HIDE DEF T, U, n
  <2>2. Cardinality(U) = Cardinality(T) + 0
    BY <1>3, <2>1
  <2> QED BY <1>3, <1>5, <2>2 DEF T, U, g
<1> QED BY <1>4, <1>5

(* Noting a copy counts it, unless it is the own message of the node.      *)
LEMMA NotesCounts ==
  ASSUME OverlayAssumption, TypeOK, NEW m, NEW n \in Node, NEW e \in Envelope,
         NEW how \in {"own", "new", "old"}, Notes(n, e, how)
  PROVE  /\ MetSum(m) \in Nat /\ MetSum(m)' \in Nat
         /\ MetSum(m)' = MetSum(m) + (IF e.id = m /\ how # "own" THEN 1 ELSE 0)
<1> DEFINE r == [id |-> e.id, ttl |-> e.ttl, how |-> how]
           f == Met(m)
           g == Met(m)'
           d == IF e.id = m /\ how # "own" THEN 1 ELSE 0
<1>1. r \in Hearing /\ r.id = e.id /\ r.how = how
  BY DEF Envelope, Hearing
<1>2. heard \in [Node -> Seq(Hearing)] /\ heard' = [heard EXCEPT ![n] = Append(@, r)]
  BY DEF TypeOK, Notes
<1>3. /\ \A x \in Node : f[x] = Cardinality(Taken(m, heard[x]))
      /\ \A x \in Node : g[x] = Cardinality(Taken(m, heard'[x]))
  BY DEF Met, Taken
<1>4. MetSum(m) = SumFunctionOnSet(f, Node) /\ MetSum(m)' = SumFunctionOnSet(g, Node)
  BY DEF MetSum
<1> HIDE DEF f, g, r
<1>5. \A x \in Node : f[x] \in Nat
  BY <1>1, <1>2, <1>3, TakenAppend
<1>6. \A x \in Node \ {n} : g[x] = f[x]
  BY <1>2, <1>3
<1>7. g[n] = f[n] + d
  BY <1>1, <1>2, <1>3, TakenAppend
<1> DEFINE a == f[n]
           b == g[n]
           p == SumFunctionOnSet(f, Node)
           q == SumFunctionOnSet(g, Node)
<1>8. a \in Nat /\ b = a + d /\ d \in Nat /\ b \in Nat
  <2>1. a \in Nat /\ b = a + d /\ d \in Nat
    BY <1>5, <1>7
  <2> HIDE DEF a, b, d
  <2> QED BY <2>1
<1>9. \A x \in Node : g[x] \in Nat
  BY <1>5, <1>6, <1>8
<1>10. IsFiniteSet(Node)
  BY DEF OverlayAssumption
<1>11. q = p - a + b
  BY <1>5, <1>6, <1>9, <1>10, SumChange
<1>12. p \in Nat /\ q \in Nat
  BY <1>5, <1>9, <1>10, SumType
<1> HIDE DEF a, b, p, q
<1>13. q = p + d
  BY <1>8, <1>11, <1>12
<1> QED BY <1>4, <1>12, <1>13 DEF p, q

-----------------------------------------------------------------------------
(* What the copies in a queue amount to                                    *)

(* The weights of the copies in a queue, by position.                      *)
WeightsIn(m, q) == [k \in 1..Len(q) |-> Weight(m, q[k])]

(* What the copies in a queue amount to is a sum over its positions.       *)
LEMMA LoadIs ==
  ASSUME OverlayAssumption, NEW m, NEW q \in Seq(Envelope)
  PROVE  /\ Load(m, q) = SumFunctionOnSet(WeightsIn(m, q), 1..Len(q))
         /\ Load(m, q) \in Nat
         /\ Len(q) \in Nat /\ IsFiniteSet(1..Len(q))
         /\ \A k \in 1..Len(q) : /\ q[k] \in Envelope
                                  /\ WeightsIn(m, q)[k] = Weight(m, q[k])
                                  /\ Weight(m, q[k]) \in Nat
<1>1. Load(m, q) = SumFunctionOnSet(WeightsIn(m, q), 1..Len(q))
  BY DEF Load, WeightsIn
<1>2. Len(q) \in Nat /\ \A k \in 1..Len(q) : q[k] \in Envelope
  OBVIOUS
<1>3. IsFiniteSet(1..Len(q))
  BY <1>2, FS_Interval
<1>4. \A k \in 1..Len(q) : WeightsIn(m, q)[k] = Weight(m, q[k]) /\ Weight(m, q[k]) \in Nat
  BY <1>2, Weights DEF WeightsIn
<1>5. Load(m, q) \in Nat
  <2> DEFINE f == WeightsIn(m, q)
             S == 1..Len(q)
  <2>1. IsFiniteSet(S) /\ \A k \in S : f[k] \in Nat
    BY <1>3, <1>4
  <2> HIDE DEF f, S
  <2>2. SumFunctionOnSet(f, S) \in Nat
    BY <2>1, SumType
  <2> QED BY <1>1, <2>2 DEF f, S
<1> QED BY <1>1, <1>2, <1>3, <1>4, <1>5

(* A copy put behind the others adds its weight.                           *)
LEMMA LoadAppend ==
  ASSUME OverlayAssumption, NEW m, NEW q \in Seq(Envelope), NEW e \in Envelope
  PROVE  Append(q, e) \in Seq(Envelope) /\ Load(m, Append(q, e)) = Load(m, q) + Weight(m, e)
<1> DEFINE r == Append(q, e)
           n == Len(q)
           f == WeightsIn(m, q)
           g == WeightsIn(m, r)
           D == 1..n
           w == Weight(m, e)
<1>1. /\ r \in Seq(Envelope) /\ n \in Nat /\ Len(r) = n + 1
      /\ r[n + 1] = e /\ \A k \in 1..n : r[k] = q[k]
  OBVIOUS
<1> HIDE DEF r
<1>2. /\ Load(m, q) = SumFunctionOnSet(f, D) /\ Load(m, q) \in Nat /\ IsFiniteSet(D)
      /\ \A k \in D : f[k] = Weight(m, q[k]) /\ f[k] \in Nat
  BY LoadIs
<1>3. /\ Load(m, r) = SumFunctionOnSet(g, 1..n + 1)
      /\ \A k \in 1..n + 1 : g[k] = Weight(m, r[k]) /\ g[k] \in Nat
  BY <1>1, LoadIs
<1>4. D \cup {n + 1} = 1..n + 1 /\ n + 1 \notin D
  BY <1>1
<1>5. g[n + 1] = w /\ w \in Nat /\ \A k \in D : g[k] = f[k] /\ g[k] \in Int
  BY <1>1, <1>2, <1>3, <1>4
<1> HIDE DEF f, g, D, n, w
<1>6. SumFunctionOnSet(g, D \cup {n + 1}) = g[n + 1] + SumFunctionOnSet(g, D)
  BY <1>2, <1>4, <1>5, SumWith
<1>7. SumFunctionOnSet(g, D) = SumFunctionOnSet(f, D)
  BY <1>2, <1>5, SumSame
<1>8. Load(m, r) = w + Load(m, q)
  BY <1>2, <1>3, <1>4, <1>5, <1>6, <1>7
<1>9. Load(m, r) = Load(m, q) + w
  BY <1>2, <1>5, <1>8
<1> QED BY <1>1, <1>9 DEF r, w

(* Taking the first copy removes its weight.                               *)
LEMMA LoadTail ==
  ASSUME OverlayAssumption, NEW m, NEW q \in Seq(Envelope), q # <<>>
  PROVE  /\ Head(q) \in Envelope /\ Tail(q) \in Seq(Envelope)
         /\ Load(m, q) = Weight(m, Head(q)) + Load(m, Tail(q))
<1> DEFINE r == Tail(q)
           n == Len(r)
           f == WeightsIn(m, q)
           g == WeightsIn(m, r)
<1>1. /\ Head(q) \in Envelope /\ r \in Seq(Envelope) /\ n \in Nat /\ Len(q) = n + 1
      /\ q[1] = Head(q) /\ \A k \in 1..n : r[k] = q[k + 1]
  OBVIOUS
<1> HIDE DEF r
<1>2. /\ Load(m, q) = SumFunctionOnSet(f, 1..n + 1)
      /\ \A k \in 1..n + 1 : f[k] = Weight(m, q[k]) /\ f[k] \in Int
  BY <1>1, LoadIs
<1>3. /\ Load(m, r) = SumFunctionOnSet(g, 1..n)
      /\ \A k \in 1..n : g[k] = Weight(m, r[k])
  BY <1>1, LoadIs
<1>4. f[1] = Weight(m, Head(q))
  BY <1>1, <1>2
<1>5. \A k \in 1..n : g[k] = f[k + 1]
  BY <1>1, <1>2, <1>3
<1> HIDE DEF f, g, n
<1>6. SumFunctionOnSet(f, 1..n + 1) = f[1] + SumFunctionOnSet(g, 1..n)
  BY <1>1, <1>2, <1>5, SumShift
<1> QED BY <1>1, <1>2, <1>3, <1>4, <1>6 DEF r

(* A queue holds no more copies than they amount to.                       *)
LEMMA CountLoad ==
  ASSUME OverlayAssumption, NEW m, NEW q \in Seq(Envelope)
  PROVE  /\ Cardinality({k \in DOMAIN q : q[k].id = m}) <= Load(m, q)
         /\ Cardinality({k \in DOMAIN q : q[k].id = m}) \in Nat
<1> DEFINE S == 1..Len(q)
           f == WeightsIn(m, q)
           T == {k \in DOMAIN q : q[k].id = m}
<1>1. /\ Load(m, q) = SumFunctionOnSet(f, S) /\ IsFiniteSet(S) /\ DOMAIN q = S
      /\ \A k \in S : f[k] \in Nat
  BY LoadIs
<1>2. T \in SUBSET S
  BY <1>1
<1>3. \A k \in T : f[k] >= 1
  BY <1>2, LoadIs, Weights
<1> HIDE DEF S, f, T
<1>4. Cardinality(T) <= SumFunctionOnSet(f, S)
  BY <1>1, <1>2, <1>3, CountAtMost
<1>5. Cardinality(T) \in Nat
  BY <1>1, <1>2, FS_Subset, FS_CardinalityType
<1> QED BY <1>1, <1>4, <1>5 DEF T

(* Only one queue changes.                                                 *)
ChangesOnly(x, c) ==
  /\ channel \in [Node -> [Conn -> Seq(Envelope)]]
  /\ channel' \in [Node -> [Conn -> Seq(Envelope)]]
  /\ \A n \in Node, d \in Conn : ~(n = x /\ d = c) => channel'[n][d] = channel[n][d]

(* Then the sum over the queues changes by what that one changes.          *)
LEMMA ComingChange ==
  ASSUME OverlayAssumption, NEW m, NEW x \in Node, NEW c \in Conn, ChangesOnly(x, c)
  PROVE  /\ ComingSum(m) \in Nat /\ ComingSum(m)' \in Nat
         /\ ComingSum(m)' = ComingSum(m) - Load(m, channel[x][c]) + Load(m, channel'[x][c])
<1> DEFINE S == Node \X Conn
           f == Coming(m)
           g == Coming(m)'
           y == <<x, c>>
<1>1. /\ \A p \in S : f[p] = Load(m, channel[p[1]][p[2]])
      /\ \A p \in S : g[p] = Load(m, channel'[p[1]][p[2]])
  BY DEF Coming, Load, Weight
<1>2. ComingSum(m) = SumFunctionOnSet(f, S) /\ ComingSum(m)' = SumFunctionOnSet(g, S)
  BY DEF ComingSum
<1> HIDE DEF f, g
<1>3. IsFiniteSet(S) /\ y \in S
  BY FS_Product DEF OverlayAssumption
<1>4. ASSUME NEW p \in S
      PROVE  f[p] \in Nat /\ g[p] \in Nat
  <2> DEFINE q == channel[p[1]][p[2]]
             r == channel'[p[1]][p[2]]
  <2>1. q \in Seq(Envelope) /\ r \in Seq(Envelope)
    BY DEF ChangesOnly
  <2>2. f[p] = Load(m, q) /\ g[p] = Load(m, r)
    <3> HIDE DEF S
    <3> QED BY <1>1
  <2> HIDE DEF q, r
  <2> QED BY <2>1, <2>2, LoadIs
<1>5. ASSUME NEW p \in S \ {y}
      PROVE  f[p] = g[p]
  <2>1. channel[p[1]][p[2]] = channel'[p[1]][p[2]]
    BY DEF ChangesOnly
  <2>2. f[p] = Load(m, channel[p[1]][p[2]]) /\ g[p] = Load(m, channel'[p[1]][p[2]])
    <3> HIDE DEF S
    <3> QED BY <1>1
  <2> QED BY <2>1, <2>2
<1>6. f[y] = Load(m, channel[x][c]) /\ g[y] = Load(m, channel'[x][c])
  BY <1>1, <1>3
<1> HIDE DEF S, y
<1>7. SumFunctionOnSet(g, S) = SumFunctionOnSet(f, S) - f[y] + g[y]
  <2>1. \A p \in S : f[p] \in Int /\ g[p] \in Int
    BY <1>4
  <2>2. \A p \in S \ {y} : f[p] = g[p]
    BY <1>5
  <2> QED BY <1>3, <2>1, <2>2, SumChange
<1>8. SumFunctionOnSet(f, S) \in Nat /\ SumFunctionOnSet(g, S) \in Nat
  BY <1>3, <1>4, SumType
<1> QED BY <1>2, <1>6, <1>7, <1>8

-----------------------------------------------------------------------------
(* The balance of copies                                                   *)

(* All four sums are numbers.                                              *)
LEMMA SumTypes ==
  ASSUME OverlayAssumption, TypeOK, IsFiniteSet(sending), NEW m
  PROVE  /\ MetSum(m) \in Nat /\ ComingSum(m) \in Nat
         /\ PlannedSum(m) \in Nat /\ BilledSum(m) \in Nat
<1>1. MetSum(m) \in Nat
  <2> DEFINE f == Met(m)
  <2>1. \A n \in Node : f[n] \in Nat
    <3>1. ASSUME NEW n \in Node
          PROVE  Cardinality(Taken(m, heard[n])) \in Nat
      <4>1. heard[n] \in Seq(Hearing)
        BY DEF TypeOK
      <4> DEFINE h == heard[n]
                 S == 1..Len(h)
                 T == Taken(m, h)
      <4>2. Len(h) \in Nat /\ T \subseteq S
        BY <4>1 DEF Taken
      <4> HIDE DEF h, T
      <4>3. IsFiniteSet(T)
        <5>1. IsFiniteSet(S)
          BY <4>2, FS_Interval
        <5> HIDE DEF S
        <5> QED BY <4>2, <5>1, FS_Subset
      <4> QED BY <4>3, FS_CardinalityType DEF T, h
    <3> QED BY <3>1 DEF Met
  <2> HIDE DEF f
  <2>2. SumFunctionOnSet(f, Node) \in Nat
    BY <2>1, SumType DEF OverlayAssumption
  <2> QED BY <2>2 DEF MetSum, f
<1>2. ComingSum(m) \in Nat
  <2> DEFINE f == Coming(m)
             S == Node \X Conn
  <2>1. ASSUME NEW p \in S
        PROVE  f[p] \in Nat
    <3>1. channel[p[1]][p[2]] \in Seq(Envelope)
      BY DEF TypeOK
    <3>2. f[p] = Load(m, channel[p[1]][p[2]])
      BY DEF Coming
    <3> QED BY <3>1, <3>2, LoadIs
  <2>2. IsFiniteSet(S)
    BY FS_Product DEF OverlayAssumption
  <2> HIDE DEF f, S
  <2>3. SumFunctionOnSet(f, S) \in Nat
    BY <2>1, <2>2, SumType
  <2> QED BY <2>3 DEF ComingSum, f, S
<1>3. PlannedSum(m) \in Nat
  <2> DEFINE f == Planned(m)
  <2>1. \A s \in sending : f[s] \in Nat
    BY PlannedType DEF TypeOK
  <2> HIDE DEF f
  <2>2. SumFunctionOnSet(f, sending) \in Nat
    BY <2>1, SumType
  <2> QED BY <2>2 DEF PlannedSum, f
<1>4. BilledSum(m) \in Nat
  <2> DEFINE f == Billed(m)
             S == 1..Len(calls)
  <2>1. Len(calls) \in Nat /\ \A i \in S : calls[i] \in Call
    BY DEF TypeOK
  <2>2. \A i \in S : calls[i].envelope \in Envelope
    BY <2>1 DEF Call
  <2>3. \A i \in S : f[i] \in Nat
    BY <2>2, Weights DEF Billed
  <2>4. IsFiniteSet(S)
    BY <2>1, FS_Interval
  <2> HIDE DEF f, S
  <2>5. SumFunctionOnSet(f, S) \in Nat
    BY <2>3, <2>4, SumType
  <2> QED BY <2>5 DEF BilledSum, f, S
<1> QED BY <1>1, <1>2, <1>3, <1>4

(* Each depends on its own variable only.                                  *)
LEMMA SumsStay ==
  ASSUME NEW m
  PROVE  /\ UNCHANGED heard => MetSum(m)' = MetSum(m)
         /\ UNCHANGED channel => ComingSum(m)' = ComingSum(m)
         /\ UNCHANGED sending => PlannedSum(m)' = PlannedSum(m)
         /\ UNCHANGED calls => BilledSum(m)' = BilledSum(m)
<1>1. UNCHANGED heard => MetSum(m)' = MetSum(m)
  BY DEF MetSum, Met, Taken
<1>2. UNCHANGED channel => ComingSum(m)' = ComingSum(m)
  BY DEF ComingSum, Coming, Load, Weight
<1>3. UNCHANGED sending => PlannedSum(m)' = PlannedSum(m)
  BY DEF PlannedSum, Planned, Weight
<1>4. UNCHANGED calls => BilledSum(m)' = BilledSum(m)
  BY DEF BilledSum, Billed, Bill
<1> QED BY <1>1, <1>2, <1>3, <1>4

Covered(m) == MetSum(m) + ComingSum(m) + PlannedSum(m) <= BilledSum(m)

(* A call of broadcast() is billed for what it plans.                      *)
LEMMA BroadcastCost ==
  ASSUME OverlayAssumption, TypeOK, IsFiniteSet(sending), NEW x \in MessageId, Broadcast(x)
  PROVE  IsFiniteSet(sending') /\ \A m : Covered(m) => Covered(m)'
<1> DEFINE n == Author[x]
           u == [id |-> x, ttl |-> MaxTtl, signed |-> FALSE]
           e == Sign(u)
<1>1. n \in Node /\ e \in Envelope /\ ConnectionsOf(n) \in SUBSET Conn
  <2>1. MaxTtl \in 0..MaxTtl /\ n \in Node
    BY DEF OverlayAssumption
  <2>2. u \in Envelope
    BY <2>1 DEF Envelope
  <2> HIDE DEF u
  <2> QED BY <2>1, <2>2, SignType DEF ConnectionsOf
<1>2. Called(n, e) /\ Notes(n, e, "own") /\ StartSending(n, "caller", e, ConnectionsOf(n))
      /\ UNCHANGED channel
  BY DEF Broadcast
<1> HIDE DEF n, e
<1>3. IsFiniteSet(sending')
  BY <1>1, <1>2, StartSendingPlans
<1>4. ASSUME NEW m
      PROVE  Covered(m) => Covered(m)'
  <2> DEFINE b == Bill(m, e)
  <2>1. MetSum(m) \in Nat /\ ComingSum(m) \in Nat
    BY SumTypes
  <2>2. MetSum(m)' = MetSum(m) + 0
    BY <1>1, <1>2, NotesCounts
  <2>3. ComingSum(m)' = ComingSum(m)
    BY <1>2, SumsStay
  <2>4. PlannedSum(m) \in Nat /\ PlannedSum(m)' \in Nat /\ PlannedSum(m)' <= PlannedSum(m) + b
    BY <1>1, <1>2, StartSendingPlans
  <2>5. BilledSum(m) \in Nat /\ BilledSum(m)' = BilledSum(m) + b
    BY <1>1, <1>2, CalledBill
  <2>6. b \in Nat
    BY <1>1, Weights
  <2> HIDE DEF b
  <2> QED BY <2>1, <2>2, <2>3, <2>4, <2>5, <2>6 DEF Covered
<1> QED BY <1>3, <1>4

(* So is a call of send(), whatever the envelope.                          *)
LEMMA SendCost ==
  ASSUME OverlayAssumption, TypeOK, IsFiniteSet(sending),
         NEW n \in Node, NEW e \in Injected, Send(n, e)
  PROVE  IsFiniteSet(sending') /\ \A m : Covered(m) => Covered(m)'
<1>1. e \in Envelope /\ ConnectionsOf(n) \in SUBSET Conn
  BY DEF OverlayAssumption, ConnectionsOf
<1>2. Called(n, e) /\ StartSending(n, "caller", e, ConnectionsOf(n)) /\ UNCHANGED <<channel, heard>>
  BY DEF Send
<1>3. IsFiniteSet(sending')
  BY <1>1, <1>2, StartSendingPlans
<1>4. ASSUME NEW m
      PROVE  Covered(m) => Covered(m)'
  <2> DEFINE b == Bill(m, e)
  <2>1. MetSum(m) \in Nat /\ ComingSum(m) \in Nat
    BY SumTypes
  <2>2. MetSum(m)' = MetSum(m) /\ ComingSum(m)' = ComingSum(m)
    BY <1>2, SumsStay
  <2>3. PlannedSum(m) \in Nat /\ PlannedSum(m)' \in Nat /\ PlannedSum(m)' <= PlannedSum(m) + b
    BY <1>1, <1>2, StartSendingPlans
  <2>4. BilledSum(m) \in Nat /\ BilledSum(m)' = BilledSum(m) + b
    BY <1>1, <1>2, CalledBill
  <2>5. b \in Nat
    BY <1>1, Weights
  <2> HIDE DEF b
  <2> QED BY <2>1, <2>2, <2>3, <2>4, <2>5 DEF Covered
<1> QED BY <1>3, <1>4

(* A planned copy that is sent comes to weigh in a queue what it was       *)
(* planned for.                                                            *)
LEMMA SendNextCost ==
  ASSUME OverlayAssumption, TypeOK, TypeOK', IsFiniteSet(sending),
         NEW s \in sending, NEW c \in s.to, SendNext(s, c)
  PROVE  IsFiniteSet(sending') /\ \A m : Covered(m) => Covered(m)'
<1> DEFINE e == s.envelope
           x == Other(c, s.at)
           q == channel[x][c]
<1>1. e \in Envelope /\ c \in Conn /\ s.at \in Ends[c]
  BY DEF TypeOK, Sending
<1>2. x \in Node
  BY <1>1, OtherType
<1>3. channel' = [channel EXCEPT ![x][c] = Append(@, e)] /\ UNCHANGED <<calls, heard>>
  BY DEF SendNext
<1>4. /\ channel \in [Node -> [Conn -> Seq(Envelope)]]
      /\ channel' \in [Node -> [Conn -> Seq(Envelope)]]
  BY DEF TypeOK
<1> HIDE DEF e, x
<1>5. q \in Seq(Envelope) /\ channel'[x][c] = Append(q, e) /\ ChangesOnly(x, c)
      /\ q = channel[x][c]
  BY <1>1, <1>2, <1>3, <1>4 DEF ChangesOnly
<1> HIDE DEF q
<1>6. IsFiniteSet(sending')
  BY SendNextPlans
<1>7. ASSUME NEW m
      PROVE  Covered(m) => Covered(m)'
  <2> DEFINE w == Weight(m, e)
             l == Load(m, q)
  <2>1. MetSum(m) \in Nat /\ BilledSum(m) \in Nat
    BY SumTypes
  <2>2. MetSum(m)' = MetSum(m) /\ BilledSum(m)' = BilledSum(m)
    BY <1>3, SumsStay
  <2>3. PlannedSum(m) \in Nat /\ PlannedSum(m)' \in Nat /\ PlannedSum(m)' + w <= PlannedSum(m)
    BY SendNextPlans DEF e
  <2>4. w \in Nat /\ l \in Nat /\ Load(m, channel'[x][c]) = l + w
    BY <1>1, <1>5, Weights, LoadIs, LoadAppend
  <2>5. /\ ComingSum(m) \in Nat /\ ComingSum(m)' \in Nat
        /\ ComingSum(m)' = ComingSum(m) - l + Load(m, channel'[x][c])
    BY <1>1, <1>2, <1>5, ComingChange
  <2> HIDE DEF w, l
  <2>6. ComingSum(m)' = ComingSum(m) + w
    BY <2>4, <2>5
  <2> QED BY <2>1, <2>2, <2>3, <2>4, <2>5, <2>6 DEF Covered
<1> QED BY <1>6, <1>7

(* A copy that is taken pays, out of its weight, for itself and for the    *)
(* copies that travel on.                                                  *)
LEMMA ProcessIncomingCost ==
  ASSUME OverlayAssumption, TypeOK, TypeOK', IsFiniteSet(sending),
         NEW n \in Node, NEW c \in Conn, ProcessIncoming(n, c)
  PROVE  IsFiniteSet(sending') /\ \A m : Covered(m) => Covered(m)'
<1> DEFINE q == channel[n][c]
           e == Head(q)
<1>1. q \in Seq(Envelope) /\ q # <<>> /\ channel' = [channel EXCEPT ![n][c] = Tail(q)]
      /\ UNCHANGED calls
  BY DEF ProcessIncoming, TypeOK
<1>2. e \in Envelope
  BY <1>1, LoadTail
<1>3. DropsForged(n, e) \/ DropsDuplicate(n, e) \/ TakesNew(n, c, e)
  BY DEF ProcessIncoming
<1>4. /\ channel \in [Node -> [Conn -> Seq(Envelope)]]
      /\ channel' \in [Node -> [Conn -> Seq(Envelope)]]
  BY DEF TypeOK
<1>5. channel'[n][c] = Tail(q) /\ q = channel[n][c] /\ ChangesOnly(n, c)
  BY <1>1, <1>4 DEF ChangesOnly
<1> HIDE DEF q
<1>6. ASSUME NEW m
      PROVE  /\ ComingSum(m) \in Nat /\ ComingSum(m)' \in Nat
             /\ ComingSum(m)' + Weight(m, e) = ComingSum(m)
             /\ BilledSum(m) \in Nat /\ BilledSum(m)' = BilledSum(m)
             /\ Weight(m, e) \in Nat
  <2> DEFINE w == Weight(m, e)
             l == Load(m, q)
             t == Load(m, Tail(q))
  <2>1. w \in Nat /\ t \in Nat /\ l = w + t
    BY <1>1, <1>2, Weights, LoadIs, LoadTail
  <2>2. /\ ComingSum(m) \in Nat /\ ComingSum(m)' \in Nat
        /\ ComingSum(m)' = ComingSum(m) - l + t
    BY <1>5, ComingChange
  <2>3. BilledSum(m) \in Nat /\ BilledSum(m)' = BilledSum(m)
    BY <1>1, SumTypes, SumsStay
  <2> HIDE DEF w, l, t
  <2>4. ComingSum(m)' + w = ComingSum(m)
    BY <2>1, <2>2
  <2> QED BY <2>1, <2>2, <2>3, <2>4 DEF w
<1> HIDE DEF e
<1>7. CASE DropsForged(n, e)
  <2>1. UNCHANGED <<heard, sending>>
    BY <1>7 DEF DropsForged
  <2>2. ASSUME NEW m
        PROVE  Covered(m) => Covered(m)'
    <3> DEFINE w == Weight(m, e)
    <3>1. MetSum(m) \in Nat /\ PlannedSum(m) \in Nat
      BY SumTypes
    <3>2. MetSum(m)' = MetSum(m) /\ PlannedSum(m)' = PlannedSum(m)
      BY <2>1, SumsStay
    <3>3. /\ ComingSum(m) \in Nat /\ ComingSum(m)' \in Nat
          /\ ComingSum(m)' + w = ComingSum(m) /\ w \in Nat
          /\ BilledSum(m) \in Nat /\ BilledSum(m)' = BilledSum(m)
      BY <1>6
    <3> HIDE DEF w
    <3> QED BY <3>1, <3>2, <3>3 DEF Covered
  <2> QED BY <2>1, <2>2
<1>8. ASSUME NEW how \in {"old", "new"}, Notes(n, e, how), NEW m
      PROVE  /\ MetSum(m) \in Nat /\ MetSum(m)' \in Nat
             /\ MetSum(m)' = MetSum(m) + (IF e.id = m THEN 1 ELSE 0)
  BY <1>2, <1>8, NotesCounts
<1>9. CASE DropsDuplicate(n, e)
  <2>1. UNCHANGED sending /\ Notes(n, e, "old")
    BY <1>9 DEF DropsDuplicate
  <2>2. ASSUME NEW m
        PROVE  Covered(m) => Covered(m)'
    <3> DEFINE w == Weight(m, e)
               d == IF e.id = m THEN 1 ELSE 0
    <3>1. PlannedSum(m) \in Nat /\ PlannedSum(m)' = PlannedSum(m)
      BY <2>1, SumTypes, SumsStay
    <3>2. MetSum(m) \in Nat /\ MetSum(m)' \in Nat /\ MetSum(m)' = MetSum(m) + d
      BY <1>8, <2>1
    <3>3. /\ ComingSum(m) \in Nat /\ ComingSum(m)' \in Nat
          /\ ComingSum(m)' + w = ComingSum(m) /\ w \in Nat
          /\ BilledSum(m) \in Nat /\ BilledSum(m)' = BilledSum(m)
      BY <1>6
    <3>4. d \in Nat /\ d <= w
      BY <1>2, Weights
    <3> HIDE DEF w, d
    <3> QED BY <3>1, <3>2, <3>3, <3>4 DEF Covered
  <2> QED BY <2>1, <2>2
<1>10. CASE TakesNew(n, c, e)
  <2>1. Notes(n, e, "new")
    BY <1>10 DEF TakesNew
  <2>2. CASE e.ttl > 1
    <3>1. StartSending(n, "run", Hop(e), ConnectionsOf(n) \ {c})
      BY <1>10, <2>2 DEF TakesNew, MayTravelOn
    <3>2. Hop(e) \in Envelope /\ ConnectionsOf(n) \ {c} \in SUBSET Conn
      BY <1>2, <2>2, HopType DEF ConnectionsOf
    <3>3. IsFiniteSet(sending')
      BY <3>1, <3>2, StartSendingPlans
    <3>4. ASSUME NEW m
          PROVE  Covered(m) => Covered(m)'
      <4> DEFINE w == Weight(m, e)
                 d == IF e.id = m THEN 1 ELSE 0
                 b == Bill(m, Hop(e))
      <4>1. /\ PlannedSum(m) \in Nat /\ PlannedSum(m)' \in Nat
            /\ PlannedSum(m)' <= PlannedSum(m) + b
        BY <3>1, <3>2, StartSendingPlans
      <4>2. MetSum(m) \in Nat /\ MetSum(m)' \in Nat /\ MetSum(m)' = MetSum(m) + d
        BY <1>8, <2>1
      <4>3. /\ ComingSum(m) \in Nat /\ ComingSum(m)' \in Nat
            /\ ComingSum(m)' + w = ComingSum(m) /\ w \in Nat
            /\ BilledSum(m) \in Nat /\ BilledSum(m)' = BilledSum(m)
        BY <1>6
      <4>4. d \in Nat /\ b \in Nat /\ d + b = w
        <5>1. b \in Nat
          BY <3>2, Weights
        <5>2. e.id = m => b = w - 1
          BY <1>2, <2>2, Weights
        <5>3. e.id # m => b = 0 /\ w = 0
          BY <1>2, <2>2, Weights
        <5> HIDE DEF b, w
        <5> QED BY <4>3, <5>1, <5>2, <5>3
      <4> HIDE DEF w, d, b
      <4> QED BY <4>1, <4>2, <4>3, <4>4 DEF Covered
    <3> QED BY <3>3, <3>4
  <2>3. CASE ~(e.ttl > 1)
    <3>1. UNCHANGED sending
      BY <1>10, <2>3 DEF TakesNew, MayTravelOn
    <3>2. ASSUME NEW m
          PROVE  Covered(m) => Covered(m)'
      <4> DEFINE w == Weight(m, e)
                 d == IF e.id = m THEN 1 ELSE 0
      <4>1. PlannedSum(m) \in Nat /\ PlannedSum(m)' = PlannedSum(m)
        BY <3>1, SumTypes, SumsStay
      <4>2. MetSum(m) \in Nat /\ MetSum(m)' \in Nat /\ MetSum(m)' = MetSum(m) + d
        BY <1>8, <2>1
      <4>3. /\ ComingSum(m) \in Nat /\ ComingSum(m)' \in Nat
            /\ ComingSum(m)' + w = ComingSum(m) /\ w \in Nat
            /\ BilledSum(m) \in Nat /\ BilledSum(m)' = BilledSum(m)
        BY <1>6
      <4>4. d \in Nat /\ d <= w
        BY <1>2, Weights
      <4> HIDE DEF w, d
      <4> QED BY <4>1, <4>2, <4>3, <4>4 DEF Covered
    <3> QED BY <3>1, <3>2
  <2> QED BY <2>2, <2>3
<1> QED BY <1>3, <1>7, <1>9, <1>10

(* So every step keeps the copies covered.                                 *)
LEMMA CostKept ==
  ASSUME OverlayAssumption, TypeOK, CostInv, [Next]_vars
  PROVE  CostInv'
<1>1. TypeOK'
  BY TypeKept
<1>2. IsFiniteSet(sending) /\ \A m \in MessageId : Covered(m)
  BY DEF CostInv, Covered
<1>3. SUFFICES IsFiniteSet(sending') /\ \A m : Covered(m) => Covered(m)'
  BY <1>2 DEF CostInv, Covered
<1>4. ASSUME NEW m \in MessageId, Broadcast(m)
      PROVE  IsFiniteSet(sending') /\ \A x : Covered(x) => Covered(x)'
  BY <1>2, <1>4, BroadcastCost
<1>5. ASSUME NEW n \in Node, NEW e \in Injected, Send(n, e)
      PROVE  IsFiniteSet(sending') /\ \A x : Covered(x) => Covered(x)'
  BY <1>2, <1>5, SendCost
<1>6. ASSUME NEW s \in sending, NEW c \in s.to, SendNext(s, c)
      PROVE  IsFiniteSet(sending') /\ \A x : Covered(x) => Covered(x)'
  BY <1>1, <1>2, <1>6, SendNextCost
<1>7. ASSUME NEW n \in Node, NEW c \in Conn, ProcessIncoming(n, c)
      PROVE  IsFiniteSet(sending') /\ \A x : Covered(x) => Covered(x)'
  BY <1>1, <1>2, <1>7, ProcessIncomingCost
<1>8. CASE UNCHANGED vars
  <2>1. UNCHANGED <<heard, channel, sending, calls>>
    BY <1>8 DEF vars
  <2>2. ASSUME NEW m
        PROVE  Covered(m) => Covered(m)'
    BY <2>1, SumsStay DEF Covered
  <2> QED BY <1>2, <2>1, <2>2
<1> QED BY <1>4, <1>5, <1>6, <1>7, <1>8 DEF Next

(* Nothing is under way at first.                                          *)
LEMMA NoCostAtFirst ==
  ASSUME OverlayAssumption, Init
  PROVE  CostInv
<1>1. TypeOK
  BY DEF Init, TypeOK
<1>2. IsFiniteSet(sending)
  BY FS_EmptySet DEF Init
<1>3. ASSUME NEW m \in MessageId
      PROVE  MetSum(m) + ComingSum(m) + PlannedSum(m) <= BilledSum(m)
  <2>1. MetSum(m) \in Nat /\ ComingSum(m) \in Nat /\ PlannedSum(m) \in Nat /\ BilledSum(m) \in Nat
    BY <1>1, <1>2, SumTypes
  <2>2. PlannedSum(m) = 0
    BY FS_EmptySet, SumSteps DEF PlannedSum, Init
  <2>3. MetSum(m) <= 0
    <3> DEFINE f == Met(m)
    <3>1. \A n \in Node : f[n] = 0
      <4>1. \A n \in Node : heard[n] = <<>>
        BY DEF Init
      <4>2. Taken(m, <<>>) = {}
        BY DEF Taken
      <4> QED BY <4>1, <4>2, FS_EmptySet DEF Met
    <3> HIDE DEF f
    <3>2. SumFunctionOnSet(f, Node) = 0
      BY <3>1, SumZero DEF OverlayAssumption
    <3> QED BY <3>2 DEF MetSum, f
  <2>4. ComingSum(m) <= 0
    <3> DEFINE f == Coming(m)
               S == Node \X Conn
    <3>1. Load(m, <<>>) = 0
      <4>1. 1..Len(<<>>) = {}
        OBVIOUS
      <4> QED BY <4>1, FS_EmptySet, SumSteps DEF Load
    <3>2. \A p \in S : f[p] = 0
      <4>1. \A p \in S : channel[p[1]][p[2]] = <<>>
        BY DEF Init
      <4> QED BY <3>1, <4>1 DEF Coming
    <3>3. IsFiniteSet(S)
      BY FS_Product DEF OverlayAssumption
    <3> HIDE DEF f, S
    <3>4. SumFunctionOnSet(f, S) = 0
      BY <3>2, <3>3, SumZero
    <3> QED BY <3>4 DEF ComingSum, f, S
  <2> QED BY <2>1, <2>2, <2>3, <2>4
<1> QED BY <1>2, <1>3 DEF CostInv

(* The copies made so far are among those that are covered.                *)
LEMMA CostBounds ==
  ASSUME OverlayAssumption, TypeOK, CostInv
  PROVE  StormBound
<1> SUFFICES ASSUME NEW m \in MessageId
             PROVE  Copies(m) <= BilledSum(m)
  <2>1. DOMAIN calls = 1..Len(calls)
    BY DEF TypeOK
  <2> QED BY <2>1 DEF StormBound, BilledSum, Billed, Bill
<1> DEFINE S == Node \X Conn
           f == [p \in S |-> Cardinality({k \in DOMAIN channel[p[1]][p[2]] :
                                           channel[p[1]][p[2]][k].id = m})]
           g == Coming(m)
           a == SumFunctionOnSet(f, S)
<1>1. Copies(m) = MetSum(m) + a
  BY DEF Copies, MetSum, Met, Taken
<1>2. ASSUME NEW p \in S
      PROVE  f[p] \in Nat /\ g[p] \in Nat /\ f[p] <= g[p]
  <2> DEFINE q == channel[p[1]][p[2]]
  <2>1. q \in Seq(Envelope)
    BY DEF TypeOK
  <2>2. g[p] = Load(m, q) /\ f[p] = Cardinality({k \in DOMAIN q : q[k].id = m})
    BY DEF Coming
  <2> HIDE DEF q, f, g
  <2> QED BY <2>1, <2>2, CountLoad, LoadIs
<1>3. IsFiniteSet(S)
  BY FS_Product DEF OverlayAssumption
<1>4. ComingSum(m) = SumFunctionOnSet(g, S)
  BY DEF ComingSum
<1> HIDE DEF f, g, S
<1>5. a <= ComingSum(m) /\ a \in Nat
  <2>1. \A p \in S : f[p] \in Int /\ g[p] \in Int /\ f[p] <= g[p]
    BY <1>2
  <2>2. a <= SumFunctionOnSet(g, S)
    BY <1>3, <2>1, SumAtMost
  <2>3. a \in Nat
    BY <1>2, <1>3, SumType
  <2> QED BY <1>4, <2>2, <2>3
<1>6. /\ MetSum(m) \in Nat /\ ComingSum(m) \in Nat /\ PlannedSum(m) \in Nat /\ BilledSum(m) \in Nat
      /\ MetSum(m) + ComingSum(m) + PlannedSum(m) <= BilledSum(m)
  BY SumTypes DEF CostInv
<1> HIDE DEF a
<1> QED BY <1>1, <1>5, <1>6

(* A call costs no more copies than its TTL allows, whatever the overlay,  *)
(* the order of events and what the caches forget.                         *)
THEOREM StormsEnd == Spec => []StormBound
<1>1. Init => CostInv
  BY NoCostAtFirst, OverlayAssumption
<1>2. TypeOK /\ CostInv /\ [Next]_vars => CostInv'
  BY CostKept, OverlayAssumption
<1>3. TypeOK /\ CostInv => StormBound
  BY CostBounds, OverlayAssumption
<1> QED BY <1>1, <1>2, <1>3, TypeCorrect, PTL DEF Spec
-----------------------------------------------------------------------------
(* Spreading                                                               *)

(* What a node remembers, sends or has put on a connection, it knows.      *)
SpreadInv ==
  /\ \A n \in Node, m \in MessageId : Has(seen[n], m) => Knows(n, m)
  /\ \A c \in Conn, m \in MessageId : \A n \in Ends[c] :
       ToBeSent(n, c, m) \/ OnItsWay(Other(c, n), c, m) => Knows(n, m)
  /\ SpreadUnderWay

(* A connection has two ends, each the other's other end.                  *)
LEMMA OtherOfOther ==
  ASSUME OverlayAssumption, NEW c \in Conn, NEW n \in Ends[c]
  PROVE  /\ n \in Node /\ Other(c, n) \in Ends[c]
         /\ Other(c, n) \in Node
         /\ \A x \in Ends[c] : Other(c, x) = Other(c, n) => x = n
<1>1. PICK a, b \in Node : a # b /\ Ends[c] = {a, b}
  BY DEF OverlayAssumption
<1>2. Other(c, a) = b /\ Other(c, b) = a
  BY <1>1 DEF Other
<1> QED BY <1>1, <1>2

(* An LRU cache comes to hold no other id than the one it is used with.    *)
LEMMA UsedHolds ==
  ASSUME OverlayAssumption, NEW cache \in Seq(MessageId), Len(cache) <= SeenCacheSize,
         NEW id \in MessageId, NEW m, Has(Used(cache, id), m)
  PROVE  m = id \/ Has(cache, m)
<1>1. PICK at \in Nat \ {0}, size \in Nat \ {0} : Placed(Used(cache, id), cache, id, at, size)
  BY UsedPositions
<1>2. PICK k \in 1..size : Used(cache, id)[k] = m
  BY <1>1 DEF Placed, Has
<1>3. CASE k = 1
  BY <1>1, <1>2, <1>3 DEF Placed
<1>4. CASE k # 1 /\ k <= at
  <2>1. k - 1 \in DOMAIN cache
    BY <1>1, <1>4 DEF Placed
  <2> QED BY <1>1, <1>2, <1>4, <2>1 DEF Placed, Has
<1>5. CASE ~(k <= at)
  <2>1. k \in DOMAIN cache
    BY <1>1, <1>5 DEF Placed
  <2> QED BY <1>1, <1>2, <1>5, <2>1 DEF Placed, Has
<1> QED BY <1>3, <1>4, <1>5

(* What noting an envelope adds to a node's memory and history.            *)
LEMMA NotesAdd ==
  ASSUME OverlayAssumption, TypeOK, NEW n \in Node, NEW e \in Envelope,
         NEW how \in {"own", "new", "old"}, Notes(n, e, how), NEW x \in Node
  PROVE  /\ \A m \in MessageId : Has(seen'[x], m) => Has(seen[x], m) \/ (x = n /\ m = e.id)
         /\ \A k \in DOMAIN heard[x] : k \in DOMAIN heard'[x] /\ heard'[x][k] = heard[x][k]
         /\ how # "old" => \E k \in DOMAIN heard'[n] : /\ heard'[n][k].id = e.id
                                                      /\ heard'[n][k].how # "old"
         /\ \A m \in MessageId : Spreader(x, m)' =>
              \/ Spreader(x, m)
              \/ /\ x = n /\ m = e.id
                 /\ how = "own" \/ (how = "new" /\ e.ttl > 1)
<1> DEFINE r == [id |-> e.id, ttl |-> e.ttl, how |-> how]
<1>1. r \in Hearing /\ r.id = e.id /\ r.ttl = e.ttl /\ r.how = how /\ e.id \in MessageId
  BY DEF Hearing, Envelope
<1>2. /\ seen' = [seen EXCEPT ![n] = Used(seen[n], e.id)]
      /\ heard' = [heard EXCEPT ![n] = Append(heard[n], r)]
  BY DEF Notes
<1> HIDE DEF r
<1>3. /\ heard[n] \in Seq(Hearing)
      /\ heard'[n] = Append(heard[n], r)
      /\ \A y \in Node : y # n => heard'[y] = heard[y] /\ seen'[y] = seen[y]
  BY <1>2 DEF TypeOK
<1>4. /\ \A k \in DOMAIN heard[n] : k \in DOMAIN heard'[n] /\ heard'[n][k] = heard[n][k]
      /\ Len(heard[n]) + 1 \in DOMAIN heard'[n] /\ heard'[n][Len(heard[n]) + 1] = r
      /\ \A k \in DOMAIN heard'[n] : k \in DOMAIN heard[n] \/ heard'[n][k] = r
  BY <1>1, <1>3
<1>5. ASSUME NEW m \in MessageId, Has(seen'[x], m)
      PROVE  Has(seen[x], m) \/ (x = n /\ m = e.id)
  <2>1. CASE x = n
    <3>1. seen[n] \in Seq(MessageId) /\ Len(seen[n]) <= SeenCacheSize
      BY DEF TypeOK
    <3>2. seen'[n] = Used(seen[n], e.id)
      BY <1>2 DEF TypeOK
    <3> QED BY <1>1, <1>5, <2>1, <3>1, <3>2, UsedHolds
  <2> QED BY <1>3, <1>5, <2>1
<1>6. ASSUME NEW m \in MessageId, Spreader(x, m)'
      PROVE  \/ Spreader(x, m)
             \/ /\ x = n /\ m = e.id
                /\ how = "own" \/ (how = "new" /\ e.ttl > 1)
  <2>1. PICK k \in DOMAIN heard'[x] :
          /\ heard'[x][k].id = m
          /\ \/ heard'[x][k].how = "own"
             \/ heard'[x][k].how = "new" /\ heard'[x][k].ttl > 1
    BY <1>6 DEF Spreader
  <2>2. CASE k \in DOMAIN heard[x] /\ heard'[x][k] = heard[x][k]
    BY <2>1, <2>2 DEF Spreader
  <2>3. CASE x = n /\ heard'[x][k] = r
    BY <1>1, <2>1, <2>3
  <2> QED BY <1>3, <1>4, <2>1, <2>2, <2>3
<1> QED BY <1>1, <1>3, <1>4, <1>5, <1>6

(* A loop is started for every connection it is to visit, unless there are *)
(* more of them than the fanout, and no other loop is stopped.             *)
LEMMA StartSendingReaches ==
  ASSUME OverlayAssumption, NEW n, NEW task, NEW e, NEW eligible \in SUBSET Conn,
         StartSending(n, task, e, eligible)
  PROVE  /\ \A x, c, m : ToBeSent(x, c, m) => ToBeSent(x, c, m)'
         /\ \A x, c, m : ToBeSent(x, c, m)' => ToBeSent(x, c, m) \/ (x = n /\ Genuine(e, m))
         /\ Cardinality(eligible) <= Fanout =>
              \A c \in eligible : Verify(e) => ToBeSent(n, c, e.id)'
<1>1. PICK to \in Targets(eligible) :
        sending' = IF to = {} THEN sending
                   ELSE sending \cup {[at |-> n, task |-> task, envelope |-> e, to |-> to]}
  BY DEF StartSending
<1> DEFINE new == [at |-> n, task |-> task, envelope |-> e, to |-> to]
<1>2. new.at = n /\ new.envelope = e /\ new.to = to
  OBVIOUS
<1>3. /\ sending \subseteq sending' /\ sending' \subseteq sending \cup {new}
      /\ to # {} => new \in sending'
  BY <1>1
<1> HIDE DEF new
<1>4. \A x, c, m : ToBeSent(x, c, m) => ToBeSent(x, c, m)'
  BY <1>3 DEF ToBeSent, Genuine, Verify
<1>5. \A x, c, m : ToBeSent(x, c, m)' => ToBeSent(x, c, m) \/ (x = n /\ Genuine(e, m))
  BY <1>2, <1>3 DEF ToBeSent, Genuine, Verify
<1>6. ASSUME Cardinality(eligible) <= Fanout, NEW c \in eligible, Verify(e)
      PROVE  ToBeSent(n, c, e.id)'
  <2>1. to = eligible
    BY <1>6 DEF Targets
  <2> QED BY <1>2, <1>3, <1>6, <2>1 DEF ToBeSent, Genuine, Verify
<1> QED BY <1>4, <1>5, <1>6

(* What each step may do to the spreading of a message: a node remembers,  *)
(* sends and is owed only what it knows or learns in the step, and what is *)
(* to be sent or on its way moves on towards the neighbour's knowledge.    *)
SpreadStep ==
  /\ \A n \in Node, m \in MessageId :
       /\ Knows(n, m) => Knows(n, m)'
       /\ Has(seen'[n], m) => Has(seen[n], m) \/ Knows(n, m)'
  /\ \A c \in Conn, m \in MessageId : \A n \in Ends[c] :
       /\ ToBeSent(n, c, m)' => ToBeSent(n, c, m) \/ Knows(n, m)'
       /\ ToBeSent(n, c, m) => ToBeSent(n, c, m)' \/ OnItsWay(Other(c, n), c, m)'
       /\ OnItsWay(Other(c, n), c, m)' => OnItsWay(Other(c, n), c, m) \/ ToBeSent(n, c, m)
       /\ OnItsWay(Other(c, n), c, m) => \/ OnItsWay(Other(c, n), c, m)'
                                         \/ Knows(Other(c, n), m)'
       /\ n \in TellsAll(c) /\ Spreader(n, m)' =>
            Spreader(n, m) \/ ToBeSent(n, c, m)' \/ Knows(Other(c, n), m)

(* Histories and calls that keep what they had keep what a node knows.     *)
LEMMA KnowsStays ==
  ASSUME NEW n \in Node, NEW m \in MessageId, Knows(n, m),
         \A k \in DOMAIN heard[n] : k \in DOMAIN heard'[n] /\ heard'[n][k] = heard[n][k],
         \A i \in DOMAIN calls : i \in DOMAIN calls' /\ calls'[i] = calls[i]
  PROVE  Knows(n, m)'
BY DEF Knows

(* A call is remembered, with its envelope if that is signed.              *)
LEMMA CalledKnows ==
  ASSUME TypeOK, NEW n \in Node, NEW e \in Envelope, Called(n, e)
  PROVE  /\ \A i \in DOMAIN calls : i \in DOMAIN calls' /\ calls'[i] = calls[i]
         /\ \A m \in MessageId : Genuine(e, m) => Knows(n, m)'
<1> DEFINE x == [at |-> n, envelope |-> e]
<1>1. x \in Call /\ x.at = n /\ x.envelope = e
  BY DEF Call
<1>2. calls' = Append(calls, x) /\ calls \in Seq(Call)
  BY DEF Called, TypeOK
<1> HIDE DEF x
<1>3. /\ \A i \in DOMAIN calls : i \in DOMAIN calls' /\ calls'[i] = calls[i]
      /\ Len(calls) + 1 \in DOMAIN calls' /\ calls'[Len(calls) + 1] = x
  BY <1>1, <1>2
<1> QED BY <1>1, <1>3 DEF Knows, Genuine, Verify

(* A broadcast makes its author know and owe the message.                  *)
LEMMA BroadcastSpreads ==
  ASSUME OverlayAssumption, TypeOK, NEW b \in MessageId, Broadcast(b)
  PROVE  SpreadStep
<1> DEFINE a == Author[b]
           u == [id |-> b, ttl |-> MaxTtl, signed |-> FALSE]
           e == Sign(u)
<1>1. a \in Node
  BY DEF OverlayAssumption
<1>2. u \in Envelope
  <2>1. MaxTtl \in 0..MaxTtl
    BY DEF OverlayAssumption
  <2> QED BY <2>1 DEF Envelope
<1>3. Called(a, e) /\ Notes(a, e, "own") /\ StartSending(a, "caller", e, ConnectionsOf(a))
      /\ UNCHANGED channel
  BY DEF Broadcast
<1> HIDE DEF a, u
<1>4. e \in Envelope /\ Verify(e)
  BY <1>2, SignType DEF Verify
<1> HIDE DEF e
<1>5. /\ \A i \in DOMAIN calls : i \in DOMAIN calls' /\ calls'[i] = calls[i]
      /\ \A m \in MessageId : Genuine(e, m) => Knows(a, m)'
  BY <1>1, <1>3, <1>4, CalledKnows
<1>6. ASSUME NEW n \in Node, NEW m \in MessageId
      PROVE  /\ Knows(n, m) => Knows(n, m)'
             /\ Has(seen'[n], m) => Has(seen[n], m) \/ Knows(n, m)'
             /\ Spreader(n, m)' => Spreader(n, m) \/ (n = a /\ m = e.id)
  <2>1. /\ Has(seen'[n], m) => Has(seen[n], m) \/ (n = a /\ m = e.id)
        /\ \A k \in DOMAIN heard[n] : k \in DOMAIN heard'[n] /\ heard'[n][k] = heard[n][k]
        /\ Spreader(n, m)' => Spreader(n, m) \/ (n = a /\ m = e.id)
    BY <1>1, <1>3, <1>4, NotesAdd
  <2>2. Knows(n, m) => Knows(n, m)'
    BY <1>5, <2>1, KnowsStays
  <2> QED BY <1>4, <1>5, <2>1, <2>2 DEF Genuine
<1>7. ASSUME NEW c \in Conn, NEW m \in MessageId, NEW n \in Ends[c]
      PROVE  /\ ToBeSent(n, c, m)' => ToBeSent(n, c, m) \/ Knows(n, m)'
             /\ ToBeSent(n, c, m) => ToBeSent(n, c, m)'
             /\ n \in TellsAll(c) /\ Spreader(n, m)' => Spreader(n, m) \/ ToBeSent(n, c, m)'
  <2>1. n \in Node /\ ConnectionsOf(a) \in SUBSET Conn
    BY OtherOfOther DEF ConnectionsOf
  <2>2. /\ ToBeSent(n, c, m) => ToBeSent(n, c, m)'
        /\ ToBeSent(n, c, m)' => ToBeSent(n, c, m) \/ (n = a /\ Genuine(e, m))
        /\ Cardinality(ConnectionsOf(a)) <= Fanout =>
             \A d \in ConnectionsOf(a) : Verify(e) => ToBeSent(a, d, e.id)'
    BY <1>3, <2>1, StartSendingReaches
  <2>3. n \in TellsAll(c) /\ n = a => /\ Cardinality(ConnectionsOf(a)) <= Fanout
                                      /\ c \in ConnectionsOf(a)
    BY DEF TellsAll, ConnectionsOf
  <2> QED BY <1>4, <1>5, <1>6, <2>1, <2>2, <2>3
<1>8. \A n, c, m : OnItsWay(n, c, m)' <=> OnItsWay(n, c, m)
  BY <1>3 DEF OnItsWay, Genuine, Verify
<1> QED BY <1>6, <1>7, <1>8 DEF SpreadStep

(* So does an envelope that was signed before; a forged one does nothing.  *)
LEMMA SendSpreads ==
  ASSUME OverlayAssumption, TypeOK, NEW a \in Node, NEW e \in Injected, Send(a, e)
  PROVE  SpreadStep
<1>1. e \in Envelope
  BY DEF OverlayAssumption
<1>2. Called(a, e) /\ StartSending(a, "caller", e, ConnectionsOf(a))
      /\ UNCHANGED <<seen, channel, heard>>
  BY DEF Send
<1>3. /\ \A i \in DOMAIN calls : i \in DOMAIN calls' /\ calls'[i] = calls[i]
      /\ \A m \in MessageId : Genuine(e, m) => Knows(a, m)'
  BY <1>1, <1>2, CalledKnows
<1>4. ASSUME NEW n \in Node, NEW m \in MessageId
      PROVE  /\ Knows(n, m) => Knows(n, m)'
             /\ Spreader(n, m)' <=> Spreader(n, m)
  BY <1>2, <1>3, KnowsStays DEF Spreader
<1>5. ASSUME NEW c \in Conn, NEW m \in MessageId, NEW n \in Ends[c]
      PROVE  /\ ToBeSent(n, c, m)' => ToBeSent(n, c, m) \/ Knows(n, m)'
             /\ ToBeSent(n, c, m) => ToBeSent(n, c, m)'
  <2>1. ConnectionsOf(a) \in SUBSET Conn
    BY DEF ConnectionsOf
  <2>2. /\ ToBeSent(n, c, m) => ToBeSent(n, c, m)'
        /\ ToBeSent(n, c, m)' => ToBeSent(n, c, m) \/ (n = a /\ Genuine(e, m))
    BY <1>2, <2>1, StartSendingReaches
  <2> QED BY <1>3, <2>2
<1>6. \A n, c, m : OnItsWay(n, c, m)' <=> OnItsWay(n, c, m)
  BY <1>2 DEF OnItsWay, Genuine, Verify
<1>7. \A c \in Conn : Ends[c] \subseteq Node
  BY OtherOfOther
<1> QED BY <1>2, <1>4, <1>5, <1>6, <1>7 DEF SpreadStep

(* A turn of a loop puts one copy where it was to be sent.                 *)
LEMMA SendNextSpreads ==
  ASSUME OverlayAssumption, TypeOK, NEW s \in sending, NEW d \in s.to, SendNext(s, d)
  PROVE  SpreadStep
<1>1. s \in Sending /\ d \in Conn /\ s.at \in Ends[d]
  BY DEF TypeOK, Sending
<1> DEFINE o == Other(d, s.at)
           e == s.envelope
           rest == [s EXCEPT !.to = s.to \ {d}]
<1>2. /\ o \in Node /\ s.at \in Node /\ e \in Envelope
      /\ \A x \in Ends[d] : Other(d, x) = o => x = s.at
  BY <1>1, OtherOfOther DEF Sending
<1>3. /\ channel' = [channel EXCEPT ![o][d] = Append(@, e)]
      /\ sending' = (sending \ {s}) \cup (IF s.to = {d} THEN {} ELSE {rest})
      /\ UNCHANGED <<seen, calls, heard>>
  BY DEF SendNext
<1>4. rest.at = s.at /\ rest.envelope = e /\ rest.to = s.to \ {d}
  BY <1>1 DEF Sending
<1> HIDE DEF rest, o, e
<1>5. /\ channel[o][d] \in Seq(Envelope) /\ channel'[o][d] = Append(channel[o][d], e)
      /\ \A n \in Node, c \in Conn : n # o \/ c # d => channel'[n][c] = channel[n][c]
  <2>1. /\ channel \in [Node -> [Conn -> Seq(Envelope)]]
        /\ d \in Conn /\ o \in Node
        /\ channel' = [channel EXCEPT ![o][d] = Append(channel[o][d], e)]
    BY <1>1, <1>2, <1>3 DEF TypeOK
  <2> QED BY <2>1
<1>6. /\ \A k \in DOMAIN channel[o][d] : /\ k \in DOMAIN channel'[o][d]
                                        /\ channel'[o][d][k] = channel[o][d][k]
      /\ Len(channel[o][d]) + 1 \in DOMAIN channel'[o][d]
      /\ channel'[o][d][Len(channel[o][d]) + 1] = e
      /\ \A k \in DOMAIN channel'[o][d] : k \in DOMAIN channel[o][d] \/ channel'[o][d][k] = e
  BY <1>2, <1>5
<1>7. ASSUME NEW c \in Conn, NEW m \in MessageId, NEW n \in Node
      PROVE  /\ OnItsWay(n, c, m) => OnItsWay(n, c, m)'
             /\ OnItsWay(n, c, m)' => OnItsWay(n, c, m) \/ (n = o /\ c = d /\ Genuine(e, m))
             /\ Genuine(e, m) => OnItsWay(o, d, m)'
  <2>1. Genuine(e, m) => OnItsWay(o, d, m)'
    BY <1>6 DEF OnItsWay, Genuine, Verify
  <2>2. CASE n = o /\ c = d
    BY <1>6, <2>1, <2>2 DEF OnItsWay, Genuine, Verify
  <2>3. CASE n # o \/ c # d
    BY <1>5, <2>1, <2>3 DEF OnItsWay, Genuine, Verify
  <2> QED BY <2>2, <2>3
<1>8. ASSUME NEW c \in Conn, NEW m \in MessageId, NEW n \in Node
      PROVE  /\ ToBeSent(n, c, m)' => ToBeSent(n, c, m)
             /\ ToBeSent(n, c, m) => ToBeSent(n, c, m)' \/ (n = s.at /\ c = d /\ Genuine(e, m))
  <2>1. ASSUME ToBeSent(n, c, m)'
        PROVE  ToBeSent(n, c, m)
    <3>1. PICK t \in sending' : t.at = n /\ c \in t.to /\ Genuine(t.envelope, m)
      BY <2>1 DEF ToBeSent, Genuine, Verify
    <3>2. t \in sending \/ t = rest
      BY <1>3
    <3> QED BY <1>4, <3>1, <3>2 DEF ToBeSent, e
  <2>2. ASSUME ToBeSent(n, c, m)
        PROVE  ToBeSent(n, c, m)' \/ (n = s.at /\ c = d /\ Genuine(e, m))
    <3>1. PICK t \in sending : t.at = n /\ c \in t.to /\ Genuine(t.envelope, m)
      BY <2>2 DEF ToBeSent
    <3>2. CASE t # s
      BY <1>3, <3>1, <3>2 DEF ToBeSent, Genuine, Verify
    <3>3. CASE t = s /\ c # d
      <4>1. rest \in sending'
        BY <1>3, <3>1, <3>3
      <4> QED BY <1>4, <3>1, <3>3, <4>1 DEF ToBeSent, Genuine, Verify, e
    <3>4. CASE t = s /\ c = d
      BY <3>1, <3>4 DEF e
    <3> QED BY <3>2, <3>3, <3>4
  <2> QED BY <2>1, <2>2
<1>9. ASSUME NEW n \in Node, NEW m \in MessageId
      PROVE  /\ Knows(n, m) => Knows(n, m)'
             /\ Spreader(n, m)' <=> Spreader(n, m)
             /\ Has(seen'[n], m) => Has(seen[n], m)
  BY <1>3 DEF Knows, Spreader
<1>10. ASSUME NEW c \in Conn, NEW m \in MessageId, NEW n \in Ends[c]
       PROVE  /\ ToBeSent(n, c, m)' => ToBeSent(n, c, m)
              /\ ToBeSent(n, c, m) => ToBeSent(n, c, m)' \/ OnItsWay(Other(c, n), c, m)'
              /\ OnItsWay(Other(c, n), c, m)' => OnItsWay(Other(c, n), c, m) \/ ToBeSent(n, c, m)
              /\ OnItsWay(Other(c, n), c, m) => OnItsWay(Other(c, n), c, m)'
              /\ Spreader(n, m)' <=> Spreader(n, m)
  <2>1. n \in Node /\ Other(c, n) \in Node
    BY OtherOfOther
  <2>2. Genuine(e, m) => ToBeSent(s.at, d, m)
    BY DEF ToBeSent, e
  <2>3. /\ c = d /\ Other(c, n) = o => n = s.at
        /\ c = d /\ n = s.at => Other(c, n) = o
    BY <1>2 DEF o
  <2>4. /\ OnItsWay(Other(c, n), c, m) => OnItsWay(Other(c, n), c, m)'
        /\ OnItsWay(Other(c, n), c, m)' =>
             OnItsWay(Other(c, n), c, m) \/ (Other(c, n) = o /\ c = d /\ Genuine(e, m))
        /\ Genuine(e, m) => OnItsWay(o, d, m)'
    BY <1>7, <2>1
  <2>5. /\ ToBeSent(n, c, m)' => ToBeSent(n, c, m)
        /\ ToBeSent(n, c, m) => ToBeSent(n, c, m)' \/ (n = s.at /\ c = d /\ Genuine(e, m))
    BY <1>8, <2>1
  <2>6. Spreader(n, m)' <=> Spreader(n, m)
    BY <1>9, <2>1
  <2> QED BY <2>2, <2>3, <2>4, <2>5, <2>6
<1> QED BY <1>9, <1>10 DEF SpreadStep

(* A copy that is taken leaves its node knowing the message, and owing it  *)
(* to all neighbours but the one it came from; a forged one does nothing.  *)
LEMMA ProcessIncomingSpreads ==
  ASSUME OverlayAssumption, TypeOK, SpreadInv, NEW a \in Node, NEW d \in Conn,
         ProcessIncoming(a, d)
  PROVE  SpreadStep
<1>1. /\ channel[a][d] # <<>>
      /\ channel' = [channel EXCEPT ![a][d] = Tail(@)]
      /\ UNCHANGED calls
  BY DEF ProcessIncoming
<1>2. PICK e \in Envelope : e = Head(channel[a][d])
  BY <1>1, TakenType
<1>3. /\ channel[a][d] \in Seq(Envelope) /\ channel'[a][d] = Tail(channel[a][d])
      /\ \A n \in Node, c \in Conn : n # a \/ c # d => channel'[n][c] = channel[n][c]
  BY <1>1 DEF TypeOK
<1>4. 1 \in DOMAIN channel[a][d] /\ e = channel[a][d][1]
  BY <1>1, <1>2, <1>3
<1>5. \/ ~Verify(e) /\ DropsForged(a, e)
      \/ Verify(e) /\ DropsDuplicate(a, e)
      \/ Verify(e) /\ TakesNew(a, d, e)
  BY <1>2 DEF ProcessIncoming
<1>6. ASSUME NEW n \in Node, NEW c \in Conn, NEW m \in MessageId
      PROVE  /\ OnItsWay(n, c, m)' => OnItsWay(n, c, m)
             /\ OnItsWay(n, c, m) => OnItsWay(n, c, m)' \/ (n = a /\ Genuine(e, m))
  <2>1. CASE n = a /\ c = d
    <3> DEFINE q == channel[a][d]
    <3>1. \A k \in DOMAIN Tail(q) : k + 1 \in DOMAIN q /\ Tail(q)[k] = q[k + 1]
      BY <1>1, <1>3, TailMoves
    <3>2. \A k \in DOMAIN q : k # 1 => k - 1 \in DOMAIN Tail(q) /\ Tail(q)[k - 1] = q[k]
      <4>1. /\ q \in Seq(Envelope) /\ q # <<>>
            /\ Len(Tail(q)) = Len(q) - 1 /\ Tail(q) \in Seq(Envelope)
        BY <1>1, <1>3
      <4> HIDE DEF q
      <4> QED BY <4>1
    <3>3. channel[n][c] = q /\ channel'[n][c] = Tail(q) /\ e = q[1]
      BY <1>3, <1>4, <2>1
    <3> HIDE DEF q
    <3>4. OnItsWay(n, c, m)' => OnItsWay(n, c, m)
      BY <3>1, <3>3 DEF OnItsWay, Genuine, Verify
    <3>5. ASSUME OnItsWay(n, c, m)
          PROVE  OnItsWay(n, c, m)' \/ Genuine(e, m)
      <4>1. PICK k \in DOMAIN q : Genuine(q[k], m)
        BY <3>3, <3>5 DEF OnItsWay
      <4>2. CASE k = 1
        BY <3>3, <4>1, <4>2
      <4>3. CASE k # 1
        <5>1. k - 1 \in DOMAIN channel'[n][c] /\ Genuine(channel'[n][c][k - 1], m)
          BY <3>2, <3>3, <4>1, <4>3
        <5> QED BY <5>1 DEF OnItsWay, Genuine, Verify
      <4> QED BY <4>2, <4>3
    <3> QED BY <2>1, <3>4, <3>5
  <2>2. CASE n # a \/ c # d
    BY <1>3, <2>2 DEF OnItsWay, Genuine, Verify
  <2> QED BY <2>1, <2>2
<1> DEFINE Noted == \E how \in {"old", "new"} :
                      /\ Notes(a, e, how)
                      /\ how = "old" => Has(seen[a], e.id) /\ UNCHANGED sending
                      /\ how = "new" => TakesNew(a, d, e)
<1>7. CASE Verify(e) /\ Noted
  <2>1. PICK how \in {"old", "new"} :
          /\ Notes(a, e, how)
          /\ how = "old" => Has(seen[a], e.id) /\ UNCHANGED sending
          /\ how = "new" => TakesNew(a, d, e)
    BY <1>7
  <2>2. e.id \in MessageId /\ e.ttl \in Nat
    BY <1>2 DEF Envelope, OverlayAssumption
  <2>3. ASSUME NEW n \in Node
        PROVE  /\ \A m \in MessageId : Has(seen'[n], m) => Has(seen[n], m) \/ (n = a /\ m = e.id)
               /\ \A k \in DOMAIN heard[n] : k \in DOMAIN heard'[n] /\ heard'[n][k] = heard[n][k]
               /\ how # "old" => \E k \in DOMAIN heard'[a] : /\ heard'[a][k].id = e.id
                                                            /\ heard'[a][k].how # "old"
               /\ \A m \in MessageId : Spreader(n, m)' =>
                    \/ Spreader(n, m)
                    \/ n = a /\ m = e.id /\ how = "new" /\ e.ttl > 1
    BY <1>2, <2>1, NotesAdd
  <2>4. ASSUME NEW n \in Node, NEW m \in MessageId, Knows(n, m)
        PROVE  Knows(n, m)'
    BY <1>1, <2>3, <2>4, KnowsStays
  <2>5. Knows(a, e.id)'
    <3>1. CASE how = "old"
      BY <2>1, <2>2, <2>4, <3>1 DEF SpreadInv
    <3>2. CASE how = "new"
      BY <2>3, <3>2 DEF Knows
    <3> QED BY <3>1, <3>2
  <2>6. ASSUME NEW c \in Conn, NEW m \in MessageId, NEW n \in Ends[c]
        PROVE  /\ ToBeSent(n, c, m)' => ToBeSent(n, c, m) \/ Knows(n, m)'
               /\ ToBeSent(n, c, m) => ToBeSent(n, c, m)'
               /\ n \in TellsAll(c) /\ n = a /\ m = e.id /\ how = "new" /\ e.ttl > 1 =>
                    ToBeSent(n, c, m)' \/ Knows(Other(c, n), m)
    <3>1. n \in Node /\ Other(c, n) \in Ends[c]
      BY OtherOfOther
    <3>2. CASE how = "new" /\ MayTravelOn(e)
      <4> DEFINE f == Hop(e)
      <4>1. f.id = e.id /\ f.signed = e.signed
        BY <1>2, <3>2, HopType DEF MayTravelOn
      <4>2. StartSending(a, "run", f, ConnectionsOf(a) \ {d})
        BY <2>1, <3>2 DEF TakesNew
      <4>3. /\ ConnectionsOf(a) \in SUBSET Conn /\ ConnectionsOf(a) \ {d} \in SUBSET Conn
            /\ IsFiniteSet(ConnectionsOf(a))
        BY FS_Subset DEF ConnectionsOf, OverlayAssumption
      <4> HIDE DEF f
      <4>4. /\ ToBeSent(n, c, m) => ToBeSent(n, c, m)'
            /\ ToBeSent(n, c, m)' => ToBeSent(n, c, m) \/ (n = a /\ Genuine(f, m))
            /\ Cardinality(ConnectionsOf(a) \ {d}) <= Fanout =>
                 \A x \in ConnectionsOf(a) \ {d} : Verify(f) => ToBeSent(a, x, f.id)'
        BY <4>2, <4>3, StartSendingReaches
      <4>5. ToBeSent(n, c, m)' => ToBeSent(n, c, m) \/ Knows(n, m)'
        BY <2>5, <4>1, <4>4 DEF Genuine
      <4>6. ASSUME n \in TellsAll(c), n = a, m = e.id
            PROVE  ToBeSent(n, c, m)' \/ Knows(Other(c, n), m)
        <5>1. CASE c # d
          <6>1. /\ Cardinality(ConnectionsOf(a) \ {d}) \in Nat
                /\ Cardinality(ConnectionsOf(a)) \in Nat
                /\ Cardinality(ConnectionsOf(a) \ {d}) <= Cardinality(ConnectionsOf(a))
            BY <4>3, FS_Subset, FS_CardinalityType
          <6>2. Cardinality(ConnectionsOf(a)) <= Fanout /\ c \in ConnectionsOf(a)
            BY <4>6 DEF TellsAll, ConnectionsOf
          <6>3. Cardinality(ConnectionsOf(a) \ {d}) <= Fanout
            BY <6>1, <6>2 DEF OverlayAssumption
          <6> QED BY <1>7, <4>1, <4>4, <4>6, <5>1, <6>2, <6>3 DEF Verify
        <5>2. CASE c = d
          <6>1. Other(d, Other(d, a)) = a
            BY <4>6, <5>2, <3>1, OtherOfOther
          <6>2. OnItsWay(a, d, e.id)
            BY <1>4, <1>7 DEF OnItsWay, Genuine
          <6> QED BY <2>2, <3>1, <4>6, <5>2, <6>1, <6>2 DEF SpreadInv
        <5> QED BY <5>1, <5>2
      <4> QED BY <4>4, <4>5, <4>6
    <3>3. CASE ~(how = "new" /\ MayTravelOn(e))
      <4>1. UNCHANGED sending
        BY <2>1, <3>3 DEF TakesNew
      <4>2. ToBeSent(n, c, m)' <=> ToBeSent(n, c, m)
        BY <4>1 DEF ToBeSent, Genuine, Verify
      <4> QED BY <3>3, <4>2 DEF MayTravelOn
    <3> QED BY <3>2, <3>3
  <2>7. ASSUME NEW n \in Node, NEW m \in MessageId
        PROVE  /\ Knows(n, m) => Knows(n, m)'
               /\ Has(seen'[n], m) => Has(seen[n], m) \/ Knows(n, m)'
    BY <2>3, <2>4, <2>5
  <2>8. ASSUME NEW c \in Conn, NEW m \in MessageId, NEW n \in Ends[c]
        PROVE  /\ ToBeSent(n, c, m)' => ToBeSent(n, c, m) \/ Knows(n, m)'
               /\ ToBeSent(n, c, m) => ToBeSent(n, c, m)'
               /\ OnItsWay(Other(c, n), c, m)' => OnItsWay(Other(c, n), c, m)
               /\ OnItsWay(Other(c, n), c, m) => \/ OnItsWay(Other(c, n), c, m)'
                                                 \/ Knows(Other(c, n), m)'
               /\ n \in TellsAll(c) /\ Spreader(n, m)' =>
                    Spreader(n, m) \/ ToBeSent(n, c, m)' \/ Knows(Other(c, n), m)
    <3>1. n \in Node /\ Other(c, n) \in Node
      BY OtherOfOther
    <3>2. /\ OnItsWay(Other(c, n), c, m)' => OnItsWay(Other(c, n), c, m)
          /\ OnItsWay(Other(c, n), c, m) => \/ OnItsWay(Other(c, n), c, m)'
                                            \/ Knows(Other(c, n), m)'
      BY <1>6, <2>5, <3>1 DEF Genuine
    <3>3. Spreader(n, m)' => \/ Spreader(n, m)
                             \/ n = a /\ m = e.id /\ how = "new" /\ e.ttl > 1
      BY <2>3, <3>1
    <3> QED BY <2>6, <3>2, <3>3
  <2> QED BY <2>7, <2>8 DEF SpreadStep
<1>8. CASE ~Verify(e) /\ DropsForged(a, e)
  <2>1. UNCHANGED <<seen, heard, sending, calls>>
    BY <1>1, <1>8 DEF DropsForged
  <2>2. ASSUME NEW n \in Node, NEW m \in MessageId
        PROVE  /\ Knows(n, m)' <=> Knows(n, m)
               /\ Has(seen'[n], m) <=> Has(seen[n], m)
               /\ Spreader(n, m)' <=> Spreader(n, m)
    BY <2>1 DEF Knows, Spreader
  <2>3. ASSUME NEW c \in Conn, NEW m \in MessageId, NEW n \in Ends[c]
        PROVE  /\ ToBeSent(n, c, m)' <=> ToBeSent(n, c, m)
               /\ OnItsWay(Other(c, n), c, m)' <=> OnItsWay(Other(c, n), c, m)
               /\ Spreader(n, m)' <=> Spreader(n, m)
    <3>1. n \in Node /\ Other(c, n) \in Node
      BY OtherOfOther
    <3>2. OnItsWay(Other(c, n), c, m)' <=> OnItsWay(Other(c, n), c, m)
      BY <1>6, <1>8, <3>1 DEF Genuine
    <3>3. ToBeSent(n, c, m)' <=> ToBeSent(n, c, m)
      BY <2>1 DEF ToBeSent, Genuine, Verify
    <3> QED BY <2>2, <3>1, <3>2, <3>3
  <2> QED BY <2>2, <2>3 DEF SpreadStep
<1>9. DropsDuplicate(a, e) \/ TakesNew(a, d, e) => Noted
  BY DEF DropsDuplicate, TakesNew
<1> QED BY <1>5, <1>7, <1>8, <1>9

(* A step that moves a message on drops no duty.                           *)
LEMMA SpreadKept ==
  ASSUME OverlayAssumption, SpreadInv, SpreadStep
  PROVE  SpreadInv'
<1>1. ASSUME NEW n \in Node, NEW m \in MessageId, Has(seen'[n], m)
      PROVE  Knows(n, m)'
  BY <1>1 DEF SpreadInv, SpreadStep
<1>2. ASSUME NEW c \in Conn, NEW m \in MessageId, NEW n \in Ends[c],
             ToBeSent(n, c, m)' \/ OnItsWay(Other(c, n), c, m)'
      PROVE  Knows(n, m)'
  <2>1. n \in Node
    BY OtherOfOther
  <2> QED BY <1>2, <2>1 DEF SpreadInv, SpreadStep
<1>3. ASSUME NEW c \in Conn, NEW m \in MessageId, NEW n \in TellsAll(c), Spreader(n, m)'
      PROVE  Knows(Other(c, n), m)' \/ OnItsWay(Other(c, n), c, m)' \/ ToBeSent(n, c, m)'
  <2>1. n \in Ends[c] /\ Other(c, n) \in Node
    BY OtherOfOther DEF TellsAll
  <2>2. \/ ToBeSent(n, c, m)'
        \/ Knows(Other(c, n), m) \/ OnItsWay(Other(c, n), c, m) \/ ToBeSent(n, c, m)
    BY <1>3, <2>1 DEF SpreadInv, SpreadUnderWay, SpreadStep
  <2> QED BY <2>1, <2>2 DEF SpreadStep
<1> QED BY <1>1, <1>2, <1>3 DEF SpreadInv, SpreadUnderWay, TellsAll, ConnectionsOf

(* Nobody who has to pass a message on forgets a neighbour: the choice of  *)
(* connections in send_to_peers, the one left out because the copy came    *)
(* from there, forged copies dropped before the cache is asked, and ids    *)
(* that are in the cache only where the message is known.                  *)
THEOREM NoNeighbourForgotten == Spec => []SpreadUnderWay
<1>1. Init => SpreadInv
  BY OtherOfOther, OverlayAssumption
     DEF Init, SpreadInv, SpreadUnderWay, Spreader, TellsAll, ToBeSent, OnItsWay, Has
<1>2. TypeOK /\ SpreadInv /\ [Next]_vars => SpreadInv'
  <2> SUFFICES ASSUME TypeOK, SpreadInv, [Next]_vars
               PROVE  SpreadInv'
    OBVIOUS
  <2>1. CASE \E m \in MessageId : Broadcast(m)
    BY <2>1, BroadcastSpreads, SpreadKept, OverlayAssumption
  <2>2. CASE \E n \in Node, e \in Injected : Send(n, e)
    BY <2>2, SendSpreads, SpreadKept, OverlayAssumption
  <2>3. CASE \E s \in sending : \E c \in s.to : SendNext(s, c)
    BY <2>3, SendNextSpreads, SpreadKept, OverlayAssumption
  <2>4. CASE \E n \in Node, c \in Conn : ProcessIncoming(n, c)
    BY <2>4, ProcessIncomingSpreads, SpreadKept, OverlayAssumption
  <2>5. CASE UNCHANGED vars
    BY <2>5 DEF vars, SpreadInv, SpreadUnderWay, Spreader, TellsAll, Knows, ToBeSent, OnItsWay,
       Genuine, Verify
  <2> QED BY <2>1, <2>2, <2>3, <2>4, <2>5 DEF Next
<1>3. SpreadInv => SpreadUnderWay
  BY DEF SpreadInv
<1> QED BY <1>1, <1>2, <1>3, TypeCorrect, PTL DEF Spec
=============================================================================
