------------------------- MODULE GossipChannelsProofs -------------------------
(***************************************************************************)
(* Proofs about GossipChannels: types and capacities, and that the five    *)
(* places a message passes are one queue per direction (Delivery).         *)
(***************************************************************************)
EXTENDS GossipChannels, FiniteSums, SequenceTheorems

-----------------------------------------------------------------------------
(* What is waiting of one connection                                       *)

(* g satisfies the recursive definition in From, up to the n-th message.   *)
Collects(g, c, q, n) ==
  g = [i \in 0..n |-> IF i = 0 THEN <<>>
                      ELSE IF q[i].source = c THEN Append(g[i - 1], q[i].envelope)
                      ELSE g[i - 1]]

(* There is such a function, for every length.                             *)
LEMMA CollectsExists ==
  ASSUME NEW c, NEW q, NEW n \in Nat
  PROVE  \E g : Collects(g, c, q, n)
<1> DEFINE P == {k \in 0..n : \E g : Collects(g, c, q, k)}
<1>1. 0 \in P
  <2> DEFINE g == [i \in 0..0 |-> <<>>]
  <2>1. Collects(g, c, q, 0)
    BY DEF Collects
  <2> QED BY <2>1
<1>2. ASSUME NEW k \in 1..n, k - 1 \in P
      PROVE  k \in P
  <2>1. PICK g : Collects(g, c, q, k - 1)
    BY <1>2
  <2> DEFINE Val(f, i) == IF i = 0 THEN <<>>
                          ELSE IF q[i].source = c THEN Append(f[i - 1], q[i].envelope)
                          ELSE f[i - 1]
             h == [i \in 0..k |-> Val(g, i)]
  <2>2. ASSUME NEW i \in 0..(k - 1)
        PROVE  h[i] = g[i]
    <3>1. g[i] = Val(g, i)
      BY <2>1 DEF Collects
    <3>2. h[i] = Val(g, i)
      OBVIOUS
    <3> HIDE DEF h, Val
    <3> QED BY <3>1, <3>2
  <2>3. ASSUME NEW i \in 0..k
        PROVE  Val(g, i) = Val(h, i)
    <3>1. CASE i = 0
      BY <3>1
    <3>2. CASE i # 0
      <4>1. h[i - 1] = g[i - 1]
        <5> HIDE DEF h
        <5> QED BY <2>2, <3>2
      <4> HIDE DEF h
      <4> QED BY <3>2, <4>1
    <3> QED BY <3>1, <3>2
  <2>4. h = [i \in 0..k |-> Val(h, i)]
    BY <2>3
  <2> HIDE DEF h
  <2>5. Collects(h, c, q, k)
    BY <2>4 DEF Collects
  <2> QED BY <2>5
<1>3. P = 0..n
  <2> HIDE DEF P
  <2>1. P \in SUBSET (0..n)
    BY DEF P
  <2> QED BY <1>1, <1>2, <2>1, UpToInduction
<1> QED BY <1>3

(* It begins with nothing.                                                 *)
LEMMA CollectsNothing ==
  ASSUME NEW c, NEW q, NEW n \in Nat, NEW g, Collects(g, c, q, n)
  PROVE  g[0] = <<>>
<1>1. 0 \in 0..n
  OBVIOUS
<1> QED BY <1>1 DEF Collects

(* It goes on by one message at a time.                                    *)
LEMMA CollectsSteps ==
  ASSUME NEW c, NEW q, NEW n \in Nat, NEW g, Collects(g, c, q, n)
  PROVE  \A i \in 1..n : g[i] = IF q[i].source = c THEN Append(g[i - 1], q[i].envelope)
                                 ELSE g[i - 1]
<1>1. \A i \in 0..n : g[i] = IF i = 0 THEN <<>>
                             ELSE IF q[i].source = c THEN Append(g[i - 1], q[i].envelope)
                             ELSE g[i - 1]
  BY DEF Collects
<1> QED BY <1>1

(* From is the last value of such a function.                              *)
LEMMA FromIs ==
  ASSUME NEW c, NEW q \in Seq(Incoming)
  PROVE  \E g : Collects(g, c, q, Len(q)) /\ From(c, q) = g[Len(q)]
<1>1. From(c, q) = (CHOOSE g : Collects(g, c, q, Len(q)))[Len(q)]
  BY DEF From, Collects
<1>2. PICK g : g = CHOOSE h : Collects(h, c, q, Len(q))
  OBVIOUS
<1>3. Collects(g, c, q, Len(q))
  BY <1>2, CollectsExists, LenProperties
<1> QED BY <1>1, <1>2, <1>3

(* What is waiting is a sequence of envelopes.                             *)
LEMMA FromType ==
  ASSUME NEW c, NEW q \in Seq(Incoming)
  PROVE  From(c, q) \in Seq(Envelope)
<1>1. PICK g : Collects(g, c, q, Len(q)) /\ From(c, q) = g[Len(q)]
  BY FromIs
<1>2. Len(q) \in Nat /\ \A i \in 1..Len(q) : q[i] \in Incoming
  BY LenProperties, ElementOfSeq
<1> DEFINE P == {i \in 0..Len(q) : g[i] \in Seq(Envelope)}
<1>3. 0 \in P
  <2>1. g[0] = <<>>
    BY <1>1, <1>2, CollectsNothing
  <2>2. g[0] \in Seq(Envelope)
    BY <2>1
  <2>3. 0 \in 0..Len(q)
    BY <1>2
  <2> QED BY <2>2, <2>3
<1>4. ASSUME NEW i \in 1..Len(q), i - 1 \in P
      PROVE  i \in P
  <2>1. g[i] = IF q[i].source = c THEN Append(g[i - 1], q[i].envelope) ELSE g[i - 1]
    BY <1>1, <1>2, CollectsSteps
  <2>2. q[i].envelope \in Envelope
    BY <1>2 DEF Incoming
  <2>3. g[i] \in Seq(Envelope)
    BY <1>4, <2>1, <2>2
  <2> QED BY <2>3
<1>5. P = 0..Len(q)
  <2> HIDE DEF P
  <2>1. P \in SUBSET (0..Len(q))
    BY DEF P
  <2> QED BY <1>2, <1>3, <1>4, <2>1, UpToInduction
<1> QED BY <1>1, <1>2, <1>5

(* Nothing is waiting in an empty channel.                                 *)
LEMMA FromEmpty ==
  ASSUME NEW c
  PROVE  From(c, <<>>) = <<>>
<1>1. PICK g : Collects(g, c, <<>>, Len(<<>>)) /\ From(c, <<>>) = g[Len(<<>>)]
  BY FromIs, EmptySeq
<1>2. Len(<<>>) = 0
  OBVIOUS
<1>3. g[0] = <<>>
  <2>1. Collects(g, c, <<>>, 0)
    BY <1>1, <1>2
  <2> QED BY <2>1, CollectsNothing
<1> QED BY <1>1, <1>2, <1>3

(* What is put into the channel comes last, for its own connection only.   *)
LEMMA FromAppend ==
  ASSUME NEW c, NEW q \in Seq(Incoming), NEW in \in Incoming
  PROVE  From(c, Append(q, in)) = IF in.source = c THEN Append(From(c, q), in.envelope)
                                  ELSE From(c, q)
<1> DEFINE r == Append(q, in)
           n == Len(q)
<1>1. r \in Seq(Incoming) /\ n \in Nat /\ Len(r) = n + 1 /\ r[n + 1] = in
      /\ \A i \in 1..n : r[i] = q[i]
  BY AppendProperties, LenProperties
<1> HIDE DEF r, n
<1>2. PICK g : Collects(g, c, q, n) /\ From(c, q) = g[n]
  BY FromIs DEF n
<1>3. PICK h : Collects(h, c, r, n + 1) /\ From(c, r) = h[n + 1]
  BY <1>1, FromIs
<1> DEFINE P == {i \in 0..n : h[i] = g[i]}
<1>4. 0 \in P
  <2>1. g[0] = <<>>
    BY <1>1, <1>2, CollectsNothing
  <2>2. h[0] = <<>>
    <3> DEFINE m == n + 1
    <3>1. m \in Nat /\ Collects(h, c, r, m)
      BY <1>1, <1>3
    <3> HIDE DEF m
    <3> QED BY <3>1, CollectsNothing
  <2> QED BY <1>1, <2>1, <2>2
<1>5. ASSUME NEW i \in 1..n, i - 1 \in P
      PROVE  i \in P
  <2>1. g[i] = IF q[i].source = c THEN Append(g[i - 1], q[i].envelope) ELSE g[i - 1]
    BY <1>1, <1>2, CollectsSteps
  <2>2. h[i] = IF r[i].source = c THEN Append(h[i - 1], r[i].envelope) ELSE h[i - 1]
    BY <1>1, <1>3, CollectsSteps
  <2>3. h[i] = g[i]
    BY <1>1, <1>5, <2>1, <2>2
  <2> QED BY <1>1, <2>3
<1>6. P = 0..n
  <2> HIDE DEF P
  <2>1. P \in SUBSET (0..n)
    BY DEF P
  <2> QED BY <1>1, <1>4, <1>5, <2>1, UpToInduction
<1>7. h[n] = g[n]
  BY <1>1, <1>6
<1>8. h[n + 1] = IF r[n + 1].source = c THEN Append(h[n], r[n + 1].envelope) ELSE h[n]
  <2>1. n + 1 \in 1..(n + 1) /\ (n + 1) - 1 = n
    BY <1>1
  <2> QED BY <1>1, <1>3, <2>1, CollectsSteps
<1> QED BY <1>1, <1>2, <1>3, <1>7, <1>8 DEF r

(* What is taken from the channel was first, for its own connection only.  *)
LEMMA FromTail ==
  ASSUME NEW c, NEW q \in Seq(Incoming), q # <<>>
  PROVE  IF Head(q).source = c THEN From(c, q) # <<>> /\ From(c, Tail(q)) = Tail(From(c, q))
         ELSE From(c, Tail(q)) = From(c, q)
<1> DEFINE r == Tail(q)
           n == Len(r)
           mine == q[1].source = c
<1>1. r \in Seq(Incoming) /\ n \in Nat /\ Len(q) = n + 1 /\ q[1] = Head(q)
      /\ \A i \in 1..n : r[i] = q[i + 1]
  BY HeadTailProperties, LenProperties
<1>2. \A i \in 1..(n + 1) : q[i] \in Incoming
  BY <1>1, ElementOfSeq
<1> HIDE DEF r, n
<1>3. PICK g : Collects(g, c, q, n + 1) /\ From(c, q) = g[n + 1]
  BY <1>1, FromIs
<1>4. PICK h : Collects(h, c, r, n) /\ From(c, r) = h[n]
  BY <1>1, FromIs DEF n
<1> DEFINE P == {i \in 0..n :
                  /\ g[i + 1] \in Seq(Envelope)
                  /\ IF mine THEN g[i + 1] # <<>> /\ h[i] = Tail(g[i + 1])
                     ELSE h[i] = g[i + 1]}
<1>5. 0 \in P
  <2>1. g[1] = IF q[1].source = c THEN Append(g[0], q[1].envelope) ELSE g[0]
    <3>1. 1 \in 1..(n + 1) /\ 1 - 1 = 0 /\ n + 1 \in Nat
      BY <1>1
    <3> QED BY <1>3, <3>1, CollectsSteps
  <2>2. g[0] = <<>> /\ h[0] = <<>> /\ q[1].envelope \in Envelope
    BY <1>1, <1>2, <1>3, <1>4, CollectsNothing DEF Incoming
  <2>3. Append(<<>>, q[1].envelope) = <<q[1].envelope>>
    OBVIOUS
  <2>4. g[1] \in Seq(Envelope) /\ (mine => g[1] # <<>> /\ Tail(g[1]) = <<>>)
    BY <2>1, <2>2, <2>3, HeadTailAppend, AppendProperties, EmptySeq
  <2>5. IF mine THEN g[1] # <<>> /\ h[0] = Tail(g[1]) ELSE h[0] = g[1]
    BY <2>1, <2>2, <2>4
  <2> HIDE DEF mine
  <2>6. 0 + 1 = 1 /\ 0 \in 0..n
    BY <1>1
  <2> QED BY <2>4, <2>5, <2>6
<1>6. ASSUME NEW i \in 1..n, i - 1 \in P
      PROVE  i \in P
  <2>1. g[i + 1] = IF q[i + 1].source = c THEN Append(g[i], q[i + 1].envelope) ELSE g[i]
    <3>1. i + 1 \in 1..(n + 1) /\ (i + 1) - 1 = i
      BY <1>1
    <3> QED BY <1>1, <1>3, <3>1, CollectsSteps
  <2>2. h[i] = IF r[i].source = c THEN Append(h[i - 1], r[i].envelope) ELSE h[i - 1]
    <3>1. i \in 1..n /\ n \in Nat
      BY <1>1
    <3> QED BY <1>4, <3>1, CollectsSteps
  <2>3. r[i] = q[i + 1] /\ q[i + 1] \in Incoming /\ q[i + 1].envelope \in Envelope
    BY <1>1, <1>2 DEF Incoming
  <2>4. /\ g[i] \in Seq(Envelope)
        /\ IF mine THEN g[i] # <<>> /\ h[i - 1] = Tail(g[i]) ELSE h[i - 1] = g[i]
    <3>1. (i - 1) + 1 = i
      BY <1>1
    <3> QED BY <1>6, <3>1
  <2> HIDE DEF mine
  <2>5. CASE q[i + 1].source = c
    <3> DEFINE e == q[i + 1].envelope
    <3>1. g[i + 1] = Append(g[i], e) /\ h[i] = Append(h[i - 1], e)
      BY <2>1, <2>2, <2>3, <2>5
    <3>2. e \in Envelope
      BY <2>3
    <3> HIDE DEF e
    <3>3. g[i + 1] \in Seq(Envelope) /\ g[i + 1] # <<>>
      BY <2>4, <3>1, <3>2, AppendProperties
    <3>4. mine => Tail(g[i + 1]) = Append(Tail(g[i]), e)
      BY <2>4, <3>1, HeadTailAppend
    <3>5. IF mine THEN h[i] = Tail(g[i + 1]) ELSE h[i] = g[i + 1]
      BY <2>4, <3>1, <3>4
    <3>6. i \in 0..n
      BY <1>1
    <3> QED BY <3>3, <3>5, <3>6
  <2>6. CASE q[i + 1].source # c
    BY <1>1, <2>1, <2>2, <2>3, <2>4, <2>6
  <2> QED BY <2>5, <2>6
<1>7. P = 0..n
  <2> HIDE DEF P
  <2>1. P \in SUBSET (0..n)
    BY DEF P
  <2> QED BY <1>1, <1>5, <1>6, <2>1, UpToInduction
<1>8. n \in P
  <2> HIDE DEF P
  <2> QED BY <1>1, <1>7
<1> QED BY <1>1, <1>3, <1>4, <1>8 DEF r

-----------------------------------------------------------------------------
(* Types and capacities                                                    *)

(* A connection has two ends, each the other of the other.                 *)
LEMMA ConnectionEnds ==
  ASSUME NEW c \in Conn
  PROVE  /\ Dialer[c] \in Node /\ Listener[c] \in Node /\ Dialer[c] # Listener[c]
         /\ Ends(c) \subseteq Node
         /\ \A n \in Ends(c) : /\ Other(c, n) \in Ends(c)
                               /\ Other(c, n) # n
                               /\ Other(c, Other(c, n)) = n
                               /\ \A m \in Ends(c) : m = n \/ m = Other(c, n)
BY ChannelsAssumption DEF Ends, Other

Size(path, n, c) == Len(path[n][c])

(* Each place holds a sequence of envelopes.                               *)
LEMMA PlaceTypes ==
  ASSUME NEW path \in Paths, NEW n \in Node, NEW c \in Conn
  PROVE  path[n][c] \in Seq(Envelope) /\ Size(path, n, c) \in Nat
<1>1. path[n][c] \in Seq(Envelope)
  BY DEF Paths
<1> QED BY <1>1, LenProperties DEF Size

(* How long the places of a connection are.                                *)
LEMMA Sizes ==
  ASSUME TypeOK, NEW n \in Node, NEW c \in Conn
  PROVE  /\ Size(outgoing, n, c) \in Nat /\ Size(outgoing, n, c) <= OutgoingCapacity
         /\ Size(wire, n, c) \in Nat /\ Size(wire, n, c) <= SocketCapacity
         /\ Size(writing, n, c) \in Nat /\ Size(delivering, n, c) \in Nat
         /\ Size(writing, n, c) + Size(delivering, n, c) <= 1
<1>1. /\ Size(outgoing, n, c) \in Nat /\ Size(wire, n, c) \in Nat
      /\ Size(writing, n, c) \in Nat /\ Size(delivering, n, c) \in Nat
  BY PlaceTypes DEF TypeOK
<1>2. /\ Size(outgoing, n, c) <= OutgoingCapacity /\ Size(wire, n, c) <= SocketCapacity
      /\ Size(writing, n, c) + Size(delivering, n, c) <= 1
  BY DEF TypeOK, Size
<1> QED BY <1>1, <1>2

(* The capacities are numbers, and none is zero.                           *)
LEMMA Capacities ==
  /\ OutgoingCapacity \in Nat \ {0} /\ IncomingCapacity \in Nat \ {0}
  /\ SocketCapacity \in Nat \ {0} /\ MaxTtl \in Nat \ {0}
  /\ Len(<<>>) = 0
BY ChannelsAssumption, EmptySeq

(* A loop works off a list of connections.                                 *)
LEMMA StartSendingTypes ==
  ASSUME sending \subseteq Sending, NEW n \in Node, NEW who \in {"run", "caller"},
         NEW e \in Envelope, NEW eligible \in SUBSET Conn,
         StartSending(n, who, e, eligible)
  PROVE  sending' \subseteq Sending
<1>1. PICK chosen \in SUBSET eligible :
        \E to \in SetToSeqs(chosen) :
          sending' = IF to = <<>> THEN sending
                     ELSE sending \cup {[at |-> n, task |-> who, envelope |-> e, to |-> to]}
  BY DEF StartSending
<1>2. PICK to \in SetToSeqs(chosen) :
        sending' = IF to = <<>> THEN sending
                   ELSE sending \cup {[at |-> n, task |-> who, envelope |-> e, to |-> to]}
  BY <1>1
<1>3. Cardinality(chosen) \in Nat
  BY ChannelsAssumption, FS_Subset, FS_CardinalityType
<1>4. to \in [1..Cardinality(chosen) -> Conn]
  BY <1>2 DEF SetToSeqs
<1>5. to \in Seq(Conn)
  BY <1>3, <1>4, SeqDef
<1> QED BY <1>2, <1>5 DEF Sending

(* The types at the start.                                                 *)
LEMMA InitTypes == Init => TypeOK
<1> SUFFICES ASSUME Init PROVE TypeOK
  OBVIOUS
<1>1. Nothing \in Paths /\ \A n \in Node, c \in Conn : Len(Nothing[n][c]) = 0
  BY EmptySeq DEF Nothing, Paths
<1>2. incoming \in [Node -> Seq(Incoming)] /\ \A n \in Node : Len(incoming[n]) = 0
  BY EmptySeq DEF Init
<1>3. OutgoingCapacity \in Nat /\ SocketCapacity \in Nat /\ IncomingCapacity \in Nat
  BY ChannelsAssumption
<1>4. task \in [Node -> [Conn -> {"none", "running", "ended"}]]
  BY DEF Init
<1> QED BY <1>1, <1>2, <1>3, <1>4 DEF TypeOK, Init

(* Sending to a handle keeps the outgoing channel within its capacity.     *)
LEMMA SendNextTypes ==
  ASSUME TypeOK, NEW s \in sending, SendNext(s)
  PROVE  TypeOK'
<1> DEFINE c == Head(s.to)
<1>1. /\ s \in Sending /\ s.at \in Node /\ s.envelope \in Envelope
      /\ s.to \in Seq(Conn) /\ s.to # <<>> /\ c \in Conn
  BY HeadTailProperties DEF TypeOK, Sending
<1>2. sending' \subseteq Sending
  <2>1. sending' = (sending \ {s}) \cup
                   (IF Len(s.to) = 1 THEN {} ELSE {[s EXCEPT !.to = Tail(@)]})
    BY DEF SendNext
  <2>2. CASE Len(s.to) = 1
    BY <2>1, <2>2 DEF TypeOK
  <2>3. CASE Len(s.to) # 1
    <3>1. Tail(s.to) \in Seq(Conn) /\ Len(Tail(s.to)) = Len(s.to) - 1 /\ Len(s.to) \in Nat
      BY <1>1, HeadTailProperties, LenProperties
    <3>2. Tail(s.to) # <<>>
      <4>1. Len(Tail(s.to)) # 0
        BY <2>3, <3>1
      <4> QED BY <4>1, EmptySeq
    <3>3. [s EXCEPT !.to = Tail(@)] \in Sending
      BY <1>1, <3>1, <3>2 DEF Sending
    <3> QED BY <2>1, <2>3, <3>3 DEF TypeOK
  <2> QED BY <2>2, <2>3
<1>3. /\ outgoing' \in Paths
      /\ \A n \in Node, d \in Conn : Len(outgoing'[n][d]) <= OutgoingCapacity
  <2>1. CASE UNCHANGED outgoing
    BY <2>1 DEF TypeOK
  <2>2. CASE /\ HasRoom(outgoing[s.at][c], OutgoingCapacity)
             /\ outgoing' = [outgoing EXCEPT ![s.at][c] = Append(@, s.envelope)]
    <3> DEFINE q == outgoing[s.at][c]
    <3>1. q \in Seq(Envelope) /\ outgoing \in Paths /\ OutgoingCapacity \in Nat
      <4>1. outgoing[s.at] \in [Conn -> Seq(Envelope)]
        BY <1>1 DEF TypeOK, Paths
      <4>2. q \in Seq(Envelope)
        BY <1>1, <4>1
      <4> QED BY <4>2, ChannelsAssumption DEF TypeOK
    <3>2. Append(q, s.envelope) \in Seq(Envelope) /\ Len(Append(q, s.envelope)) <= OutgoingCapacity
      BY <1>1, <2>2, <3>1, AppendProperties, LenProperties DEF HasRoom
    <3>3. outgoing' = [outgoing EXCEPT ![s.at][c] = Append(q, s.envelope)]
      BY <2>2, <1>1, <3>1 DEF Paths
    <3>4. \A n \in Node, d \in Conn : Len(outgoing[n][d]) <= OutgoingCapacity
      BY DEF TypeOK
    <3> HIDE DEF q, c
    <3> QED BY <1>1, <3>1, <3>2, <3>3, <3>4 DEF Paths
  <2> QED BY <2>1, <2>2 DEF SendNext
<1> QED BY <1>2, <1>3 DEF TypeOK, SendNext, taskVars

(* The loop takes from its channel and forwards what it took.              *)
LEMMA ProcessIncomingTypes ==
  ASSUME TypeOK, NEW n \in Node, ProcessIncoming(n)
  PROVE  TypeOK'
<1> DEFINE q == incoming[n]
           in == Head(q)
<1>1. q \in Seq(Incoming) /\ q # <<>> /\ Len(q) <= IncomingCapacity
  BY DEF TypeOK, ProcessIncoming
<1>2. in \in Incoming /\ Tail(q) \in Seq(Incoming) /\ Len(Tail(q)) <= IncomingCapacity
  BY <1>1, HeadTailProperties, LenProperties, ChannelsAssumption
<1>3. incoming' = [incoming EXCEPT ![n] = Tail(q)]
  BY DEF ProcessIncoming, TypeOK
<1>4. sending' \subseteq Sending
  <2>1. CASE UNCHANGED sending
    BY <2>1 DEF TypeOK
  <2>2. CASE /\ in.envelope.ttl > 1
             /\ StartSending(n, "run", [in.envelope EXCEPT !.ttl = @ - 1],
                             Handles(n) \ {in.source})
    <3>1. [in.envelope EXCEPT !.ttl = @ - 1] \in Envelope
      <4> DEFINE e == in.envelope
      <4>1. e \in Envelope /\ e.ttl > 1 /\ MaxTtl \in Nat
        BY <1>2, <2>2, ChannelsAssumption DEF Incoming
      <4> HIDE DEF e
      <4>2. [e EXCEPT !.ttl = @ - 1] \in Envelope
        BY <4>1 DEF Envelope
      <4> QED BY <4>2 DEF e
    <3>2. Handles(n) \ {in.source} \subseteq Conn
      BY DEF Handles
    <3> QED BY <2>2, <3>1, <3>2, StartSendingTypes DEF TypeOK
  <2> QED BY <2>1, <2>2 DEF ProcessIncoming
<1>5. incoming' \in [Node -> Seq(Incoming)]
      /\ \A m \in Node : Len(incoming'[m]) <= IncomingCapacity
  <2> HIDE DEF q
  <2> QED BY <1>2, <1>3 DEF TypeOK
<1> QED BY <1>4, <1>5 DEF ProcessIncoming, taskVars, pathVars, TypeOK

(* A task that reads holds one message then.                               *)
LEMMA ReadsTypes ==
  ASSUME TypeOK, NEW n \in Node, NEW c \in Conn, Reads(n, c)
  PROVE  TypeOK'
<1> DEFINE q == wire[n][c]
<1>1. /\ q \in Seq(Envelope) /\ q # <<>> /\ Size(writing, n, c) = 0
      /\ wire \in Paths /\ delivering \in Paths
  BY PlaceTypes, Capacities DEF TypeOK, Reads, Selects, Size
<1>2. Head(q) \in Envelope /\ Tail(q) \in Seq(Envelope) /\ Len(Tail(q)) <= Size(wire, n, c)
  BY <1>1, HeadTailProperties, LenProperties DEF Size
<1>3. <<Head(q)>> \in Seq(Envelope) /\ Len(<<Head(q)>>) = 1
  BY <1>2
<1>4. /\ wire' = [wire EXCEPT ![n][c] = Tail(q)]
      /\ delivering' = [delivering EXCEPT ![n][c] = <<Head(q)>>]
  BY DEF TypeOK, Reads, Paths
<1> HIDE DEF q
<1>5. /\ wire' \in Paths
      /\ \A m \in Node, d \in Conn :
           Size(wire', m, d) = IF m = n /\ d = c THEN Len(Tail(q)) ELSE Size(wire, m, d)
  BY <1>1, <1>2, <1>4 DEF Paths, Size
<1>6. /\ delivering' \in Paths
      /\ \A m \in Node, d \in Conn :
           Size(delivering', m, d) = IF m = n /\ d = c THEN 1 ELSE Size(delivering, m, d)
  BY <1>1, <1>3, <1>4 DEF Paths, Size
<1>7. UNCHANGED <<task, broken, outgoing, writing, incoming, sending, called>>
  BY DEF Reads, taskVars
<1>8. ASSUME NEW m \in Node, NEW d \in Conn
      PROVE  /\ Size(wire', m, d) <= SocketCapacity
             /\ Size(writing', m, d) + Size(delivering', m, d) <= 1
  <2>1. writing' = writing
    BY <1>7
  <2>2. Size(wire', m, d) \in Nat /\ SocketCapacity \in Nat
    BY <1>5, PlaceTypes, Capacities
  <2>3. CASE m = n /\ d = c
    BY <1>1, <1>2, <1>5, <1>6, <2>1, <2>2, <2>3, Sizes
  <2>4. CASE ~(m = n /\ d = c)
    BY <1>5, <1>6, <2>1, <2>4, Sizes
  <2> QED BY <2>3, <2>4
<1> QED BY <1>5, <1>6, <1>7, <1>8 DEF TypeOK, Size

(* A task hands its message over when there is room.                       *)
LEMMA DeliversTypes ==
  ASSUME TypeOK, NEW n \in Node, NEW c \in Conn, Delivers(n, c)
  PROVE  TypeOK'
<1> DEFINE in == [envelope |-> delivering[n][c][1], source |-> c]
           q == incoming[n]
<1>1. /\ delivering[n][c] \in Seq(Envelope) /\ delivering[n][c] # <<>>
      /\ q \in Seq(Incoming) /\ Len(q) < IncomingCapacity
      /\ delivering \in Paths /\ incoming \in [Node -> Seq(Incoming)]
  BY PlaceTypes DEF TypeOK, Delivers, HasRoom
<1>2. in \in Incoming
  <2>1. Len(delivering[n][c]) \in Nat \ {0}
    BY <1>1, EmptySeq
  <2>2. delivering[n][c][1] \in Envelope
    BY <1>1, <2>1, ElementOfSeq
  <2> QED BY <2>2 DEF Incoming
<1> HIDE DEF in
<1>3. Append(q, in) \in Seq(Incoming) /\ Len(Append(q, in)) <= IncomingCapacity
  BY <1>1, <1>2, AppendProperties, LenProperties, ChannelsAssumption
<1>4. /\ incoming' = [incoming EXCEPT ![n] = Append(q, in)]
      /\ delivering' = [delivering EXCEPT ![n][c] = <<>>]
  BY DEF Delivers, in, TypeOK
<1> HIDE DEF q
<1>5. /\ incoming' \in [Node -> Seq(Incoming)]
      /\ \A m \in Node : Len(incoming'[m]) <= IncomingCapacity
  BY <1>1, <1>3, <1>4 DEF TypeOK
<1>6. /\ delivering' \in Paths
      /\ \A m \in Node, d \in Conn :
           Size(delivering', m, d) = IF m = n /\ d = c THEN 0 ELSE Size(delivering, m, d)
  BY <1>1, <1>4, EmptySeq DEF Paths, Size
<1>7. UNCHANGED <<task, broken, outgoing, writing, wire, sending, called>>
  BY DEF Delivers, taskVars
<1>8. ASSUME NEW m \in Node, NEW d \in Conn
      PROVE  Size(writing', m, d) + Size(delivering', m, d) <= 1
  <2>1. writing' = writing
    BY <1>7
  <2> QED BY <1>6, <2>1, Sizes
<1> QED BY <1>5, <1>6, <1>7, <1>8 DEF TypeOK, Size

(* A task that takes from its handle holds one message then.               *)
LEMMA TakesTypes ==
  ASSUME TypeOK, NEW n \in Node, NEW c \in Conn, Takes(n, c)
  PROVE  TypeOK'
<1> DEFINE q == outgoing[n][c]
<1>1. /\ q \in Seq(Envelope) /\ q # <<>> /\ Size(delivering, n, c) = 0
      /\ outgoing \in Paths /\ writing \in Paths
  BY PlaceTypes, Capacities DEF TypeOK, Takes, Selects, Size
<1>2. Head(q) \in Envelope /\ Tail(q) \in Seq(Envelope) /\ Len(Tail(q)) <= Size(outgoing, n, c)
  BY <1>1, HeadTailProperties, LenProperties DEF Size
<1>3. <<Head(q)>> \in Seq(Envelope) /\ Len(<<Head(q)>>) = 1
  BY <1>2
<1>4. /\ outgoing' = [outgoing EXCEPT ![n][c] = Tail(q)]
      /\ writing' = [writing EXCEPT ![n][c] = <<Head(q)>>]
  BY DEF TypeOK, Takes, Paths
<1> HIDE DEF q
<1>5. /\ outgoing' \in Paths
      /\ \A m \in Node, d \in Conn :
           Size(outgoing', m, d) = IF m = n /\ d = c THEN Len(Tail(q)) ELSE Size(outgoing, m, d)
  BY <1>1, <1>2, <1>4 DEF Paths, Size
<1>6. /\ writing' \in Paths
      /\ \A m \in Node, d \in Conn :
           Size(writing', m, d) = IF m = n /\ d = c THEN 1 ELSE Size(writing, m, d)
  BY <1>1, <1>3, <1>4 DEF Paths, Size
<1>7. UNCHANGED <<task, broken, wire, delivering, incoming, sending, called>>
  BY DEF Takes, taskVars
<1>8. ASSUME NEW m \in Node, NEW d \in Conn
      PROVE  /\ Size(outgoing', m, d) <= OutgoingCapacity
             /\ Size(writing', m, d) + Size(delivering', m, d) <= 1
  <2>1. delivering' = delivering
    BY <1>7
  <2>2. Size(outgoing', m, d) \in Nat /\ OutgoingCapacity \in Nat
    BY <1>5, PlaceTypes, Capacities
  <2>3. CASE m = n /\ d = c
    BY <1>1, <1>2, <1>5, <1>6, <2>1, <2>2, <2>3, Sizes
  <2>4. CASE ~(m = n /\ d = c)
    BY <1>5, <1>6, <2>1, <2>4, Sizes
  <2> QED BY <2>3, <2>4
<1> QED BY <1>5, <1>6, <1>7, <1>8 DEF TypeOK, Size

(* A task writes its message when there is room at the other end.          *)
LEMMA WritesTypes ==
  ASSUME TypeOK, NEW c \in Conn, NEW n \in Ends(c), Writes(n, c)
  PROVE  TypeOK'
<1> DEFINE o == Other(c, n)
           q == wire[o][c] \o writing[n][c]
<1>1. n \in Node /\ o \in Node /\ wire \in Paths /\ writing \in Paths
  BY ConnectionEnds DEF TypeOK
<1>2. Size(wire, o, c) < SocketCapacity
  BY DEF Writes, HasRoom, Size
<1>3. /\ wire' = [wire EXCEPT ![o][c] = q]
      /\ writing' = [writing EXCEPT ![n][c] = <<>>]
  BY <1>1 DEF Writes, Paths
<1> HIDE DEF o
<1>4. q \in Seq(Envelope) /\ Len(q) = Size(wire, o, c) + Size(writing, n, c)
  BY <1>1, PlaceTypes, ConcatProperties DEF Size
<1> HIDE DEF q
<1>5. Len(q) <= SocketCapacity
  <2>1. Size(writing, n, c) \in Nat /\ Size(writing, n, c) <= 1
    BY <1>1, Sizes
  <2>2. Size(wire, o, c) \in Nat /\ SocketCapacity \in Nat
    BY <1>1, Sizes, Capacities
  <2> QED BY <1>2, <1>4, <2>1, <2>2
<1>6. /\ wire' \in Paths
      /\ \A m \in Node, d \in Conn :
           Size(wire', m, d) = IF m = o /\ d = c THEN Len(q) ELSE Size(wire, m, d)
  BY <1>1, <1>3, <1>4 DEF Paths, Size
<1>7. /\ writing' \in Paths
      /\ \A m \in Node, d \in Conn :
           Size(writing', m, d) = IF m = n /\ d = c THEN 0 ELSE Size(writing, m, d)
  BY <1>1, <1>3, EmptySeq DEF Paths, Size
<1>8. UNCHANGED <<task, broken, outgoing, delivering, incoming, sending, called>>
  BY DEF Writes, taskVars
<1>9. ASSUME NEW m \in Node, NEW d \in Conn
      PROVE  /\ Size(wire', m, d) <= SocketCapacity
             /\ Size(writing', m, d) + Size(delivering', m, d) <= 1
  <2>1. delivering' = delivering
    BY <1>8
  <2> QED BY <1>5, <1>6, <1>7, <2>1, Sizes
<1> QED BY <1>6, <1>7, <1>8, <1>9 DEF TypeOK, Size

(* A prefix is a sequence that is not longer.                              *)
LEMMA PrefixTypes ==
  ASSUME NEW S, NEW s \in Seq(S), NEW p \in Prefixes(s)
  PROVE  p \in Seq(S) /\ Len(p) \in 0..Len(s) /\ p = SubSeq(s, 1, Len(p))
<1>1. PICK l \in 0..Len(s) : p = SubSeq(s, 1, l)
  BY DEF Prefixes
<1>2. l \in Int /\ 1 \in Int /\ Len(s) \in Nat /\ \A i \in 1..l : s[i] \in S
  BY LenProperties, ElementOfSeq
<1>3. p \in Seq(S) /\ Len(p) = IF 1 <= l THEN l - 1 + 1 ELSE 0
  BY <1>1, <1>2, SubSeqProperties
<1>4. Len(p) = l
  BY <1>2, <1>3
<1> QED BY <1>1, <1>3, <1>4

(* What is left on a connection that breaks is no longer than it was.      *)
LEMMA CutTypes ==
  ASSUME TypeOK, NEW c \in Conn, Cut(c)
  PROVE  TypeOK'
<1> DEFINE a == Dialer[c]
           b == Listener[c]
<1>1. a \in Node /\ b \in Node /\ a # b /\ wire \in Paths
  BY ConnectionEnds DEF TypeOK
<1>2. PICK d \in Prefixes(wire[a][c]), l \in Prefixes(wire[b][c]) :
        wire' = [wire EXCEPT ![a][c] = d, ![b][c] = l]
  BY DEF Cut
<1>3. wire[a][c] \in Seq(Envelope) /\ wire[b][c] \in Seq(Envelope)
  BY <1>1, PlaceTypes
<1>4. /\ d \in Seq(Envelope) /\ Len(d) \in Nat /\ Len(d) <= Size(wire, a, c)
      /\ l \in Seq(Envelope) /\ Len(l) \in Nat /\ Len(l) <= Size(wire, b, c)
  BY <1>3, PrefixTypes DEF Size
<1> HIDE DEF a, b
<1>5. /\ wire' \in Paths
      /\ \A m \in Node, e \in Conn :
           Size(wire', m, e) = IF m = a /\ e = c THEN Len(d)
                               ELSE IF m = b /\ e = c THEN Len(l) ELSE Size(wire, m, e)
  BY <1>1, <1>2, <1>4 DEF Paths, Size
<1>6. \A m \in Node, e \in Conn : Size(wire', m, e) <= SocketCapacity
  <2>1. /\ Size(wire, a, c) \in Nat /\ Size(wire, a, c) <= SocketCapacity
        /\ Size(wire, b, c) \in Nat /\ Size(wire, b, c) <= SocketCapacity
        /\ SocketCapacity \in Nat
    BY <1>1, Sizes, Capacities
  <2>2. Len(d) <= SocketCapacity /\ Len(l) <= SocketCapacity
    BY <1>4, <2>1
  <2> QED BY <1>5, <2>2, Sizes
<1> QED BY <1>5, <1>6 DEF TypeOK, Cut, Size

(* A task that ends leaves its places empty.                               *)
LEMMA TaskEndsTypes ==
  ASSUME TypeOK, NEW n \in Node, NEW c \in Conn, TaskEnds(n, c)
  PROVE  TypeOK'
<1>1. task' \in [Node -> [Conn -> {"none", "running", "ended"}]]
  BY DEF TypeOK, TaskEnds
<1>2. outgoing \in Paths /\ writing \in Paths /\ wire \in Paths
  BY DEF TypeOK
<1>3. /\ outgoing' \in Paths
      /\ \A m \in Node, d \in Conn :
           Size(outgoing', m, d) = IF m = n /\ d = c THEN 0 ELSE Size(outgoing, m, d)
  BY <1>2, EmptySeq DEF TaskEnds, Paths, Size
<1>4. /\ writing' \in Paths
      /\ \A m \in Node, d \in Conn :
           Size(writing', m, d) = IF m = n /\ d = c THEN 0 ELSE Size(writing, m, d)
  BY <1>2, EmptySeq DEF TaskEnds, Paths, Size
<1>5. /\ wire' \in Paths
      /\ \A m \in Node, d \in Conn :
           Size(wire', m, d) = IF m = n /\ d = c THEN 0 ELSE Size(wire, m, d)
  BY <1>2, EmptySeq DEF TaskEnds, Paths, Size
<1>6. UNCHANGED <<delivering, incoming, sending, broken, called>>
  BY DEF TaskEnds
<1>7. ASSUME NEW m \in Node, NEW d \in Conn
      PROVE  /\ Size(outgoing', m, d) <= OutgoingCapacity
             /\ Size(wire', m, d) <= SocketCapacity
             /\ Size(writing', m, d) + Size(delivering', m, d) <= 1
  <2>1. delivering' = delivering
    BY <1>6
  <2> QED BY <1>3, <1>4, <1>5, <2>1, Sizes, Capacities
<1> QED BY <1>1, <1>3, <1>4, <1>5, <1>6, <1>7 DEF TypeOK, Size

(* In any network every channel keeps to its capacity and every task holds *)
(* at most one message.                                                    *)
THEOREM TypeCorrect == Spec => []TypeOK
<1>1. TypeOK /\ [Next]_vars => TypeOK'
  <2> SUFFICES ASSUME TypeOK, [Next]_vars
               PROVE  TypeOK'
    OBVIOUS
  <2>1. ASSUME NEW s \in sending, SendNext(s)
        PROVE  TypeOK'
    BY <2>1, SendNextTypes
  <2>2. ASSUME NEW n \in Node, ProcessIncoming(n)
        PROVE  TypeOK'
    BY <2>2, ProcessIncomingTypes
  <2>3. ASSUME NEW c \in Conn, Accept(c)
        PROVE  TypeOK'
    BY <2>3, ConnectionEnds DEF TypeOK, Accept, pathVars
  <2>4. ASSUME NEW c \in Conn, NEW n \in Ends(c), Reads(n, c)
        PROVE  TypeOK'
    BY <2>4, ConnectionEnds, ReadsTypes
  <2>5. ASSUME NEW c \in Conn, NEW n \in Ends(c), Delivers(n, c)
        PROVE  TypeOK'
    BY <2>5, ConnectionEnds, DeliversTypes
  <2>6. ASSUME NEW c \in Conn, NEW n \in Ends(c), Takes(n, c)
        PROVE  TypeOK'
    BY <2>6, ConnectionEnds, TakesTypes
  <2>7. ASSUME NEW c \in Conn, NEW n \in Ends(c), Writes(n, c)
        PROVE  TypeOK'
    BY <2>7, WritesTypes
  <2>8. ASSUME NEW c \in Conn, NEW n \in Ends(c), TaskEnds(n, c)
        PROVE  TypeOK'
    BY <2>8, ConnectionEnds, TaskEndsTypes
  <2>9. ASSUME NEW m \in MessageId, Broadcast(m)
        PROVE  TypeOK'
    <3>1. [id |-> m, ttl |-> MaxTtl] \in Envelope /\ Author[m] \in Node
      BY ChannelsAssumption DEF Envelope
    <3>2. Handles(Author[m]) \subseteq Conn
      BY DEF Handles
    <3>3. sending' \subseteq Sending
      BY <2>9, <3>1, <3>2, StartSendingTypes DEF TypeOK, Broadcast
    <3> QED BY <2>9, <3>3 DEF TypeOK, Broadcast, taskVars, pathVars
  <2>10. ASSUME NEW c \in Conn, Connect(c)
         PROVE  TypeOK'
    BY <2>10, ConnectionEnds DEF TypeOK, Connect, pathVars
  <2>11. ASSUME NEW c \in Conn, Cut(c)
         PROVE  TypeOK'
    BY <2>11, CutTypes
  <2>12. CASE UNCHANGED vars
    BY <2>12 DEF TypeOK, vars
  <2> QED BY <2>1, <2>2, <2>3, <2>4, <2>5, <2>6, <2>7, <2>8, <2>9, <2>10, <2>11, <2>12
             DEF Next, Moves
<1> QED BY <1>1, InitTypes, PTL DEF Spec

-----------------------------------------------------------------------------
(* Sequences put together                                                  *)

Cat(s, t) == s \o t

(* Putting together: types, order, and nothing.                            *)
LEMMA CatTypes ==
  ASSUME NEW S, NEW s \in Seq(S), NEW t \in Seq(S)
  PROVE  Cat(s, t) \in Seq(S)
BY ConcatProperties DEF Cat

(* It does not matter what is put together first.                          *)
LEMMA CatAssociative ==
  ASSUME NEW S, NEW s \in Seq(S), NEW t \in Seq(S), NEW u \in Seq(S)
  PROVE  Cat(Cat(s, t), u) = Cat(s, Cat(t, u))
BY ConcatAssociative DEF Cat

(* Nothing adds nothing.                                                   *)
LEMMA CatEmpty ==
  ASSUME NEW S, NEW s \in Seq(S)
  PROVE  Cat(s, <<>>) = s /\ Cat(<<>>, s) = s
BY ConcatEmptySeq DEF Cat

(* The first element and the rest make the whole.                          *)
LEMMA HeadFirst ==
  ASSUME NEW S, NEW s \in Seq(S), s # <<>>
  PROVE  Cat(<<Head(s)>>, Tail(s)) = s
<1>1. /\ Head(s) \in S /\ Tail(s) \in Seq(S) /\ Len(Tail(s)) = Len(s) - 1
      /\ \A i \in 1..Len(Tail(s)) : Tail(s)[i] = s[i + 1]
      /\ Len(s) \in Nat /\ s[1] = Head(s)
  BY HeadTailProperties, LenProperties
<1> DEFINE h == <<Head(s)>>
           t == h \o Tail(s)
<1>2. h \in Seq(S) /\ Len(h) = 1 /\ h[1] = s[1]
  BY <1>1
<1> HIDE DEF h
<1>3. t \in Seq(S) /\ Len(t) = Len(s)
      /\ \A i \in 1..Len(s) : t[i] = IF i <= 1 THEN h[i] ELSE Tail(s)[i - 1]
  <2>1. t \in Seq(S) /\ Len(t) = Len(h) + Len(Tail(s))
        /\ \A i \in 1..Len(h) + Len(Tail(s)) :
             t[i] = IF i <= Len(h) THEN h[i] ELSE Tail(s)[i - Len(h)]
    BY <1>1, <1>2, ConcatProperties
  <2>2. Len(h) + Len(Tail(s)) = Len(s)
    BY <1>1, <1>2
  <2> HIDE DEF t
  <2> QED BY <1>2, <2>1, <2>2
<1>4. ASSUME NEW i \in 1..Len(s)
      PROVE  t[i] = s[i]
  <2>1. CASE i = 1
    BY <1>2, <1>3, <2>1
  <2>2. CASE i # 1
    <3>1. i - 1 \in 1..Len(Tail(s)) /\ ~(i <= 1) /\ (i - 1) + 1 = i
      BY <1>1, <2>2
    <3> QED BY <1>1, <1>3, <3>1
  <2> QED BY <2>1, <2>2
<1> HIDE DEF t
<1>5. t = s
  BY <1>3, <1>4, SeqEqual
<1> QED BY <1>5 DEF Cat, t, h

(* The four parts of a path.                                               *)
Four(f, d, w, x) == Cat(Cat(Cat(f, d), w), x)

(* Appending is putting a sequence of one behind.                          *)
LEMMA AppendIsCat ==
  ASSUME NEW S, NEW s \in Seq(S), NEW e \in S
  PROVE  Append(s, e) = Cat(s, <<e>>)
BY AppendIsConcat DEF Cat

(* The parts of a path make a sequence of envelopes.                       *)
LEMMA FourTypes ==
  ASSUME NEW S, NEW f \in Seq(S), NEW d \in Seq(S), NEW w \in Seq(S), NEW x \in Seq(S)
  PROVE  Four(f, d, w, x) \in Seq(S)
BY CatTypes DEF Four

(* The parts, put together from the back.                                  *)
LEMMA FrontLast ==
  ASSUME NEW S, NEW f \in Seq(S), NEW d \in Seq(S), NEW w \in Seq(S), NEW x \in Seq(S)
  PROVE  Four(f, d, w, x) = Cat(f, Cat(d, Cat(w, x)))
<1>1. Cat(f, d) \in Seq(S) /\ Cat(w, x) \in Seq(S)
  BY CatTypes
<1>2. Cat(Cat(Cat(f, d), w), x) = Cat(Cat(f, d), Cat(w, x))
  BY <1>1, CatAssociative
<1>3. Cat(Cat(f, d), Cat(w, x)) = Cat(f, Cat(d, Cat(w, x)))
  BY <1>1, CatAssociative
<1> QED BY <1>2, <1>3 DEF Four

(* The parts, the two in the middle put together first.                    *)
LEMMA MiddleFirst ==
  ASSUME NEW S, NEW f \in Seq(S), NEW d \in Seq(S), NEW w \in Seq(S), NEW x
  PROVE  Four(f, d, w, x) = Cat(Cat(f, Cat(d, w)), x)
<1>1. Cat(Cat(f, d), w) = Cat(f, Cat(d, w))
  BY CatAssociative
<1> QED BY <1>1 DEF Four

(* Moving a message from one part to the next leaves the whole as it is.   *)
LEMMA SameBehind ==
  ASSUME NEW S, NEW f \in Seq(S), NEW d \in Seq(S),
         NEW w \in Seq(S), NEW x \in Seq(S), NEW v \in Seq(S), NEW y \in Seq(S)
  PROVE  Cat(w, x) = Cat(v, y) => Four(f, d, w, x) = Four(f, d, v, y)
<1>1. Four(f, d, w, x) = Cat(f, Cat(d, Cat(w, x)))
  BY FrontLast
<1>2. Four(f, d, v, y) = Cat(f, Cat(d, Cat(v, y)))
  BY FrontLast
<1> QED BY <1>1, <1>2

(* The same for two parts further ahead.                                   *)
LEMMA SameAhead ==
  ASSUME NEW S, NEW f \in Seq(S), NEW x \in Seq(S),
         NEW d \in Seq(S), NEW w \in Seq(S), NEW e \in Seq(S), NEW v \in Seq(S)
  PROVE  Cat(d, w) = Cat(e, v) => Four(f, d, w, x) = Four(f, e, v, x)
<1>1. Four(f, d, w, x) = Cat(Cat(f, Cat(d, w)), x)
  BY MiddleFirst
<1>2. Four(f, e, v, x) = Cat(Cat(f, Cat(e, v)), x)
  BY MiddleFirst
<1> QED BY <1>1, <1>2

(* Taking the first of what comes first.                                   *)
LEMMA TailOfConcat ==
  ASSUME NEW S, NEW s \in Seq(S), NEW x \in Seq(S), s # <<>>
  PROVE  Cat(s, x) # <<>> /\ Tail(Cat(s, x)) = Cat(Tail(s), x)
<1>1. Tail(s) \in Seq(S) /\ Len(Tail(s)) = Len(s) - 1 /\ Len(s) \in Nat \ {0} /\ Len(x) \in Nat
      /\ \A i \in 1..Len(Tail(s)) : Tail(s)[i] = s[i + 1]
  BY HeadTailProperties, LenProperties, EmptySeq
<1> DEFINE l == s \o x
           r == Tail(s) \o x
<1>2. l \in Seq(S) /\ Len(l) = Len(s) + Len(x)
      /\ \A i \in 1..Len(s) + Len(x) : l[i] = IF i <= Len(s) THEN s[i] ELSE x[i - Len(s)]
  BY ConcatProperties
<1>3. r \in Seq(S) /\ Len(r) = Len(s) - 1 + Len(x)
      /\ \A i \in 1..Len(s) - 1 + Len(x) :
           r[i] = IF i <= Len(s) - 1 THEN Tail(s)[i] ELSE x[i - (Len(s) - 1)]
  BY <1>1, ConcatProperties
<1> HIDE DEF l, r
<1>4. l # <<>>
  BY <1>1, <1>2, EmptySeq
<1>5. Tail(l) \in Seq(S) /\ Len(Tail(l)) = Len(r)
      /\ \A i \in 1..Len(Tail(l)) : Tail(l)[i] = l[i + 1]
  BY <1>1, <1>2, <1>3, <1>4, HeadTailProperties
<1>6. ASSUME NEW i \in 1..Len(r)
      PROVE  Tail(l)[i] = r[i]
  <2>1. Tail(l)[i] = l[i + 1] /\ i + 1 \in 1..Len(s) + Len(x)
    BY <1>1, <1>3, <1>5
  <2>2. CASE i <= Len(s) - 1
    BY <1>1, <1>2, <1>3, <2>1, <2>2
  <2>3. CASE ~(i <= Len(s) - 1)
    <3>1. (i + 1) - Len(s) = i - (Len(s) - 1) /\ ~(i + 1 <= Len(s))
      BY <1>1, <2>3
    <3> QED BY <1>1, <1>2, <1>3, <2>1, <2>3, <3>1
  <2> QED BY <2>2, <2>3
<1>7. Tail(l) = r
  BY <1>3, <1>5, <1>6, SeqEqual
<1> QED BY <1>4, <1>7 DEF Cat, l, r

(* All but the last of what something was appended to.                     *)
LEMMA FrontOfAppend ==
  ASSUME NEW S, NEW s \in Seq(S), NEW e \in S
  PROVE  SubSeq(Append(s, e), 1, Len(Append(s, e)) - 1) = s
<1> DEFINE t == Append(s, e)
<1>1. t \in Seq(S) /\ Len(t) = Len(s) + 1 /\ Len(s) \in Nat /\ \A i \in 1..Len(s) : t[i] = s[i]
  BY AppendProperties, LenProperties
<1> HIDE DEF t
<1>2. Len(t) - 1 = Len(s)
  BY <1>1
<1>3. \A i \in 1..Len(s) : t[i] \in S
  BY <1>1, ElementOfSeq
<1> DEFINE f == SubSeq(t, 1, Len(s))
<1>4. f \in Seq(S) /\ Len(f) = Len(s) /\ \A i \in 1..Len(s) : f[i] = t[i]
  <2>1. /\ f \in Seq(S) /\ Len(f) = (IF 1 <= Len(s) THEN Len(s) - 1 + 1 ELSE 0)
        /\ \A i \in 1..Len(s) - 1 + 1 : f[i] = t[1 + i - 1]
    BY <1>1, <1>3, SubSeqProperties
  <2>2. Len(f) = Len(s) /\ Len(s) - 1 + 1 = Len(s)
    BY <1>1, <2>1
  <2> QED BY <1>1, <2>1, <2>2
<1> HIDE DEF f
<1>5. f = s
  BY <1>1, <1>4, SeqEqual
<1> QED BY <1>2, <1>5 DEF f, t

(* What comes first is a prefix of the whole.                              *)
LEMMA ConcatPrefix ==
  ASSUME NEW S, NEW s \in Seq(S), NEW x \in Seq(S)
  PROVE  IsPrefix(s, Cat(s, x))
<1> DEFINE t == s \o x
           n == Len(s)
<1>1. t \in Seq(S) /\ n \in Nat /\ Len(x) \in Nat /\ Len(t) = n + Len(x)
      /\ \A i \in 1..n : t[i] = s[i]
  BY ConcatProperties, LenProperties
<1> HIDE DEF t, n
<1>2. \A i \in 1..n : s[i] \in S /\ t[i] \in S
  BY <1>1, ElementOfSeq DEF n
<1> DEFINE p == SubSeq(t, 1, n)
           q == SubSeq(s, 1, n)
<1>3. /\ p \in Seq(S) /\ Len(p) = (IF 1 <= n THEN n - 1 + 1 ELSE 0)
      /\ \A i \in 1..n - 1 + 1 : p[i] = t[1 + i - 1]
  BY <1>1, <1>2, SubSeqProperties
<1>4. /\ q \in Seq(S) /\ Len(q) = (IF 1 <= n THEN n - 1 + 1 ELSE 0)
      /\ \A i \in 1..n - 1 + 1 : q[i] = s[1 + i - 1]
  BY <1>1, <1>2, SubSeqProperties
<1> HIDE DEF p, q
<1>5. Len(p) = n /\ Len(q) = n
  BY <1>1, <1>3, <1>4
<1>6. \A i \in 1..n : p[i] = q[i]
  BY <1>1, <1>3, <1>4
<1>7. p = q
  BY <1>3, <1>4, <1>5, <1>6, SeqEqual
<1>8. Len(s) <= Len(t)
  BY <1>1 DEF n
<1> QED BY <1>7, <1>8 DEF Cat, IsPrefix, p, q, n, t

(* A prefix and the rest make the whole.                                   *)
LEMMA PrefixAndRest ==
  ASSUME NEW S, NEW s \in Seq(S), NEW p \in Prefixes(s)
  PROVE  \E u \in Seq(S) : s = Cat(p, u)
<1>1. PICK l \in 0..Len(s) : p = SubSeq(s, 1, l)
  BY DEF Prefixes
<1>2. Len(s) \in Nat
  BY LenProperties
<1> DEFINE u == SubSeq(s, l + 1, Len(s))
<1>3. u \in Seq(S)
  <2>1. \A i \in (l + 1)..Len(s) : s[i] \in S
    BY <1>2, ElementOfSeq
  <2> QED BY <1>2, <2>1, SubSeqProperties
<1>4. p \o u = SubSeq(s, 1, Len(s))
  <2>1. 1 \in 1..Len(s) + 1 /\ l \in (1 - 1)..Len(s) /\ Len(s) \in l..Len(s)
    BY <1>2
  <2> QED BY <1>1, <2>1, ConcatAdjacentSubSeq
<1>5. p \o u = s
  BY <1>4, SubSeqFull
<1> QED BY <1>3, <1>5 DEF Cat

-----------------------------------------------------------------------------
(* A connection as one queue                                               *)

(* What the other end of the connection has yet to put on the wire.        *)
Behind(n, c) == IF c \in broken THEN <<>>
                ELSE Cat(writing[Other(c, n)][c], outgoing[Other(c, n)][c])

(* The path of a connection, part by part.                                 *)
LEMMA PathIs ==
  ASSUME NEW c \in Conn, NEW n \in Ends(c)
  PROVE  Path(n, c) = Four(From(c, incoming[n]), delivering[n][c], wire[n][c], Behind(n, c))
BY DEF Path, Behind, Four, Cat

(* The same after a step.                                                  *)
LEMMA PathWillBe ==
  ASSUME NEW c \in Conn, NEW n \in Ends(c)
  PROVE  Path(n, c)' = Four(From(c, incoming'[n]), delivering'[n][c], wire'[n][c],
                            IF c \in broken' THEN <<>>
                            ELSE Cat(writing'[Other(c, n)][c], outgoing'[Other(c, n)][c]))
BY DEF Path, From, Ends, Other, Four, Cat

(* Nothing comes to a node over the connections of others.                 *)
LEMMA NoPath ==
  ASSUME NEW c, NEW n, n \notin Ends(c)
  PROVE  Path(n, c) = <<>> /\ Path(n, c)' = <<>>
BY DEF Path, Ends

(* Every part of a path is a sequence of envelopes.                        *)
LEMMA PartTypes ==
  ASSUME TypeOK, NEW c \in Conn, NEW n \in Ends(c)
  PROVE  /\ From(c, incoming[n]) \in Seq(Envelope) /\ delivering[n][c] \in Seq(Envelope)
         /\ wire[n][c] \in Seq(Envelope) /\ Behind(n, c) \in Seq(Envelope)
         /\ Path(n, c) \in Seq(Envelope)
<1>1. n \in Node /\ Other(c, n) \in Node
  BY ConnectionEnds
<1>2. incoming[n] \in Seq(Incoming)
  BY <1>1 DEF TypeOK
<1>3. From(c, incoming[n]) \in Seq(Envelope)
  BY <1>2, FromType
<1>4. delivering[n][c] \in Seq(Envelope) /\ wire[n][c] \in Seq(Envelope)
  BY <1>1, PlaceTypes DEF TypeOK
<1>5. writing[Other(c, n)][c] \in Seq(Envelope) /\ outgoing[Other(c, n)][c] \in Seq(Envelope)
  BY <1>1, PlaceTypes DEF TypeOK
<1>6. Behind(n, c) \in Seq(Envelope)
  BY <1>5, CatTypes, EmptySeq DEF Behind
<1> DEFINE f == From(c, incoming[n])
           d == delivering[n][c]
           w == wire[n][c]
           x == Behind(n, c)
<1>7. f \in Seq(Envelope) /\ d \in Seq(Envelope) /\ w \in Seq(Envelope) /\ x \in Seq(Envelope)
  BY <1>3, <1>4, <1>6
<1>8. Path(n, c) = Four(f, d, w, x)
  BY PathIs
<1> HIDE DEF f, d, w, x
<1>9. Path(n, c) \in Seq(Envelope)
  BY <1>7, <1>8, FourTypes
<1> QED BY <1>3, <1>4, <1>6, <1>9

(* Sufficient conditions for a step of Delivery.                           *)
LEMMA CarryIsStep ==
  ASSUME NEW n \in Node, NEW c \in Conn, UNCHANGED broken,
         \/ Path(n, c) # <<>> /\ Path(n, c)' = Tail(Path(n, c))
         \/ /\ c \notin broken
            /\ Path(n, c)' # <<>>
            /\ SubSeq(Path(n, c)', 1, Len(Path(n, c)') - 1) = Path(n, c),
         \A m \in Node, d \in Conn : ~(m = n /\ d = c) => Path(m, d)' = Path(m, d)
  PROVE  Promise!Next
<1>1. Promise!Others(n, c)
  BY DEF Promise!Others
<1>2. Promise!Carry(n, c)
  BY <1>1 DEF Promise!Carry, Promise!Taken, Promise!Put, Promise!Front
<1> QED BY <1>2 DEF Promise!Next

(* Prefixes are left of the paths of a connection that breaks.             *)
LEMMA BreakIsStep ==
  ASSUME NEW c \in Conn, broken' = broken \cup {c},
         \A n \in Node : /\ IsPrefix(Path(n, c)', Path(n, c))
                         /\ \A d \in Conn \ {c} : Path(n, d)' = Path(n, d)
  PROVE  Promise!Next
<1>1. Promise!Break(c)
  BY DEF Promise!Break, Promise!IsPrefix, IsPrefix
<1> QED BY <1>1 DEF Promise!Next

(* A step that keeps all paths is none for Delivery.                       *)
LEMMA KeptIsStutter ==
  ASSUME UNCHANGED broken, \A n \in Node, c \in Conn : Path(n, c)' = Path(n, c)
  PROVE  UNCHANGED Promise!vars
BY DEF Promise!vars

(* A path changes only with its parts.                                     *)
LEMMA PathSame ==
  ASSUME NEW n \in Node, NEW c \in Conn, (c \in broken)' <=> (c \in broken),
         From(c, incoming'[n]) = From(c, incoming[n]),
         delivering'[n][c] = delivering[n][c], wire'[n][c] = wire[n][c],
         c \in broken \/ /\ writing'[Other(c, n)][c] = writing[Other(c, n)][c]
                         /\ outgoing'[Other(c, n)][c] = outgoing[Other(c, n)][c]
  PROVE  Path(n, c)' = Path(n, c)
BY DEF Path, From, Ends, Other

(* Reading moves a message from the wire to the task.                      *)
LEMMA ReadsKeeps ==
  ASSUME TypeOK, TypeOK', NEW c \in Conn, NEW n \in Ends(c), Reads(n, c)
  PROVE  UNCHANGED Promise!vars
<1> DEFINE w == wire[n][c]
<1>1. n \in Node /\ w \in Seq(Envelope) /\ w # <<>> /\ delivering[n][c] = <<>>
  BY ConnectionEnds, PlaceTypes DEF TypeOK, Reads, Selects
<1>2. /\ \A m \in Node, d \in Conn : wire'[m][d] = IF m = n /\ d = c THEN Tail(w) ELSE wire[m][d]
      /\ \A m \in Node, d \in Conn :
           delivering'[m][d] = IF m = n /\ d = c THEN <<Head(w)>> ELSE delivering[m][d]
  BY <1>1 DEF Reads, TypeOK, Paths
<1>3. UNCHANGED <<broken, outgoing, writing, incoming>>
  BY DEF Reads, taskVars
<1>4. ASSUME NEW m \in Node, NEW d \in Conn, ~(m = n /\ d = c)
      PROVE  Path(m, d)' = Path(m, d)
  BY <1>2, <1>3, <1>4, PathSame
<1>5. Path(n, c)' = Path(n, c)
  <2> DEFINE f == From(c, incoming[n])
             x == Behind(n, c)
             h == <<Head(w)>>
  <2>1. f \in Seq(Envelope) /\ x \in Seq(Envelope)
    BY PartTypes
  <2>2. Path(n, c) = Four(f, <<>>, w, x)
    BY <1>1, PathIs
  <2>3. Path(n, c)' = Four(f, h, Tail(w), x)
    BY <1>1, <1>2, <1>3, PathWillBe DEF Behind
  <2>4. h \in Seq(Envelope) /\ Tail(w) \in Seq(Envelope) /\ <<>> \in Seq(Envelope)
    BY <1>1, HeadTailProperties
  <2>5. Cat(h, Tail(w)) = Cat(<<>>, w)
    BY <1>1, HeadFirst, CatEmpty
  <2> DEFINE t == Tail(w)
             z == <<>>
  <2>6. h \in Seq(Envelope) /\ t \in Seq(Envelope) /\ z \in Seq(Envelope) /\ w \in Seq(Envelope)
    BY <1>1, <2>4
  <2> HIDE DEF f, x, h, w, t, z
  <2>7. Cat(h, t) = Cat(z, w) => Four(f, h, t, x) = Four(f, z, w, x)
    BY <2>1, <2>6, SameAhead
  <2> QED BY <2>2, <2>3, <2>5, <2>7 DEF t, z
<1> QED BY <1>3, <1>4, <1>5, KeptIsStutter

(* Delivering moves it from the task to the channel of the loop.           *)
LEMMA DeliversKeeps ==
  ASSUME TypeOK, TypeOK', NEW c \in Conn, NEW n \in Ends(c), Delivers(n, c)
  PROVE  UNCHANGED Promise!vars
<1> DEFINE q == incoming[n]
           e == delivering[n][c][1]
           in == [envelope |-> e, source |-> c]
<1>1. /\ n \in Node /\ q \in Seq(Incoming)
      /\ delivering[n][c] \in Seq(Envelope) /\ delivering[n][c] # <<>>
  BY ConnectionEnds, PlaceTypes DEF TypeOK, Delivers
<1>2. delivering[n][c] = <<e>> /\ e \in Envelope
  <2>1. Size(delivering, n, c) # 0 /\ Size(delivering, n, c) = Len(delivering[n][c])
    BY <1>1, EmptySeq DEF Size
  <2>2. Size(delivering, n, c) = 1
    <3>1. Size(delivering, n, c) # 0
      BY <2>1
    <3>2. Size(delivering, n, c) \in Nat /\ Size(writing, n, c) \in Nat
          /\ Size(writing, n, c) + Size(delivering, n, c) <= 1
      BY <1>1, Sizes
    <3> QED BY <3>1, <3>2
  <2>3. Len(delivering[n][c]) = 1
    BY <2>1, <2>2
  <2> DEFINE d == delivering[n][c]
             s == <<d[1]>>
  <2>4. d \in Seq(Envelope) /\ Len(d) = 1
    BY <1>1, <2>3
  <2> HIDE DEF d
  <2>5. d[1] \in Envelope
    BY <2>4, ElementOfSeq
  <2>6. s \in Seq(Envelope) /\ Len(s) = 1 /\ s[1] = d[1]
    BY <2>5
  <2> HIDE DEF s
  <2>7. d = s
    BY <2>4, <2>6, SeqEqual
  <2> QED BY <2>5, <2>7 DEF d, s
<1>3. in \in Incoming /\ in.source = c /\ in.envelope = e
  BY <1>2 DEF Incoming
<1>4. /\ \A m \in Node : incoming'[m] = IF m = n THEN Append(q, in) ELSE incoming[m]
      /\ \A m \in Node, d \in Conn :
           delivering'[m][d] = IF m = n /\ d = c THEN <<>> ELSE delivering[m][d]
  BY <1>1 DEF Delivers, TypeOK, Paths
<1>5. UNCHANGED <<broken, outgoing, writing, wire>>
  BY DEF Delivers, taskVars
<1> HIDE DEF q, e, in
<1>6. From(c, incoming'[n]) = Append(From(c, q), e)
  BY <1>1, <1>3, <1>4, FromAppend
<1>7. ASSUME NEW m \in Node, NEW d \in Conn, ~(m = n /\ d = c)
      PROVE  Path(m, d)' = Path(m, d)
  <2>1. From(d, incoming'[m]) = From(d, incoming[m])
    <3>1. CASE m # n
      BY <1>4, <3>1
    <3>2. CASE m = n
      BY <1>1, <1>3, <1>4, <1>7, <3>2, FromAppend DEF q
    <3> QED BY <3>1, <3>2
  <2> QED BY <1>4, <1>5, <1>7, <2>1, PathSame
<1>8. Path(n, c)' = Path(n, c)
  <2> DEFINE f == From(c, incoming[n])
             w == wire[n][c]
             x == Behind(n, c)
             h == <<e>>
             z == <<>>
  <2>1. f \in Seq(Envelope) /\ w \in Seq(Envelope) /\ x \in Seq(Envelope)
    BY PartTypes
  <2>2. h \in Seq(Envelope) /\ z \in Seq(Envelope)
    BY <1>2
  <2>3. Path(n, c) = Four(f, h, w, x)
    BY <1>2, PathIs
  <2>4. Path(n, c)' = Four(Append(f, e), z, w, x)
    BY <1>1, <1>4, <1>5, <1>6, PathWillBe DEF Behind, q
  <2> HIDE DEF f, w, x
  <2>5. Append(f, e) = Cat(f, h)
    BY <1>2, <2>1, AppendIsCat
  <2> HIDE DEF h, z
  <2>6. Cat(Cat(f, h), z) = Cat(f, h)
    BY <2>1, <2>2, CatTypes, CatEmpty DEF z
  <2> QED BY <2>3, <2>4, <2>5, <2>6 DEF Four
<1> QED BY <1>5, <1>7, <1>8, KeptIsStutter

(* Taking moves a message from the handle to the task.                     *)
LEMMA TakesKeeps ==
  ASSUME TypeOK, TypeOK', NEW c \in Conn, NEW n \in Ends(c), Takes(n, c)
  PROVE  UNCHANGED Promise!vars
<1> DEFINE q == outgoing[n][c]
           o == Other(c, n)
<1>1. /\ n \in Node /\ o \in Ends(c) /\ o \in Node /\ Other(c, o) = n
      /\ q \in Seq(Envelope) /\ q # <<>> /\ writing[n][c] = <<>>
  BY ConnectionEnds, PlaceTypes DEF TypeOK, Takes, Selects
<1>2. /\ \A m \in Node, d \in Conn :
           outgoing'[m][d] = IF m = n /\ d = c THEN Tail(q) ELSE outgoing[m][d]
      /\ \A m \in Node, d \in Conn :
           writing'[m][d] = IF m = n /\ d = c THEN <<Head(q)>> ELSE writing[m][d]
  BY <1>1 DEF Takes, TypeOK, Paths
<1>3. UNCHANGED <<broken, wire, delivering, incoming>>
  BY DEF Takes, taskVars
<1>4. Cat(<<Head(q)>>, Tail(q)) = Cat(<<>>, q)
  BY <1>1, HeadFirst, CatEmpty
<1> HIDE DEF o, q
<1>5. ASSUME NEW m \in Node, NEW d \in Conn
      PROVE  Path(m, d)' = Path(m, d)
  <2>1. CASE m = o /\ d = c
    <3>1. Path(o, c) = Four(From(c, incoming[o]), delivering[o][c], wire[o][c],
                            IF c \in broken THEN <<>> ELSE Cat(<<>>, q))
      BY <1>1, PathIs DEF Behind, q
    <3>2. Path(o, c)' = Four(From(c, incoming[o]), delivering[o][c], wire[o][c],
                             IF c \in broken THEN <<>> ELSE Cat(<<Head(q)>>, Tail(q)))
      BY <1>1, <1>2, <1>3, PathWillBe
    <3> QED BY <1>4, <2>1, <3>1, <3>2
  <2>2. CASE ~(m = o /\ d = c) /\ m \in Ends(d)
    <3>1. ~(Other(d, m) = n /\ d = c) /\ Other(d, m) \in Node
      BY <1>1, <2>2, ConnectionEnds DEF o
    <3> QED BY <1>2, <1>3, <3>1, PathSame
  <2>3. CASE m \notin Ends(d)
    BY <2>3, NoPath
  <2> QED BY <2>1, <2>2, <2>3
<1> QED BY <1>3, <1>5, KeptIsStutter

(* Writing moves it from the task to the wire.                             *)
LEMMA WritesKeeps ==
  ASSUME TypeOK, TypeOK', NEW c \in Conn, NEW n \in Ends(c), Writes(n, c)
  PROVE  UNCHANGED Promise!vars
<1> DEFINE o == Other(c, n)
           r == writing[n][c]
           w == wire[o][c]
           q == outgoing[n][c]
           z == <<>>
<1>1. /\ n \in Node /\ o \in Ends(c) /\ o \in Node /\ Other(c, o) = n
      /\ r \in Seq(Envelope) /\ w \in Seq(Envelope) /\ q \in Seq(Envelope) /\ z \in Seq(Envelope)
  BY ConnectionEnds, PlaceTypes, EmptySeq DEF TypeOK
<1>2. /\ \A m \in Node, d \in Conn :
           wire'[m][d] = IF m = o /\ d = c THEN Cat(w, r) ELSE wire[m][d]
      /\ \A m \in Node, d \in Conn :
           writing'[m][d] = IF m = n /\ d = c THEN z ELSE writing[m][d]
  BY <1>1 DEF Writes, TypeOK, Paths, Cat
<1>3. UNCHANGED <<broken, outgoing, delivering, incoming>> /\ c \notin broken
  BY DEF Writes, taskVars
<1> HIDE DEF o, r, w, q, z
<1>4. Cat(Cat(w, r), Cat(z, q)) = Cat(w, Cat(r, q))
  <2>1. Cat(z, q) = q
    BY <1>1, CatEmpty DEF z
  <2> QED BY <1>1, <2>1, CatAssociative
<1>5. ASSUME NEW m \in Node, NEW d \in Conn
      PROVE  Path(m, d)' = Path(m, d)
  <2>1. CASE m = o /\ d = c
    <3> DEFINE f == From(c, incoming[o])
               e == delivering[o][c]
    <3>1. f \in Seq(Envelope) /\ e \in Seq(Envelope)
      BY <1>1, PartTypes
    <3>2. Path(o, c) = Four(f, e, w, Cat(r, q))
      BY <1>1, <1>3, PathIs DEF Behind, q, r, w
    <3>3. Path(o, c)' = Four(f, e, Cat(w, r), Cat(z, q))
      BY <1>1, <1>2, <1>3, PathWillBe DEF q
    <3> HIDE DEF f, e
    <3>4. Cat(w, r) \in Seq(Envelope) /\ Cat(z, q) \in Seq(Envelope) /\ Cat(r, q) \in Seq(Envelope)
      BY <1>1, CatTypes
    <3> DEFINE v == Cat(w, r)
               x == Cat(z, q)
               y == Cat(r, q)
    <3>5. v \in Seq(Envelope) /\ x \in Seq(Envelope) /\ y \in Seq(Envelope)
      BY <3>4
    <3> HIDE DEF v, x, y
    <3>6. Cat(v, x) = Cat(w, y) => Four(f, e, v, x) = Four(f, e, w, y)
      <4>1. /\ f \in Seq(Envelope) /\ e \in Seq(Envelope) /\ w \in Seq(Envelope)
            /\ v \in Seq(Envelope) /\ x \in Seq(Envelope) /\ y \in Seq(Envelope)
        BY <1>1, <3>1, <3>5
      <4> QED BY <4>1, SameBehind
    <3> QED BY <1>4, <2>1, <3>2, <3>3, <3>6 DEF v, x, y
  <2>2. CASE ~(m = o /\ d = c) /\ m \in Ends(d)
    <3>1. ~(Other(d, m) = n /\ d = c) /\ Other(d, m) \in Node
      BY <1>1, <2>2, ConnectionEnds DEF o
    <3> QED BY <1>2, <1>3, <2>2, <3>1, PathSame
  <2>3. CASE m \notin Ends(d)
    BY <2>3, NoPath
  <2> QED BY <2>1, <2>2, <2>3
<1> QED BY <1>3, <1>5, KeptIsStutter

(* Sending to a handle puts a message behind all others, or nowhere.       *)
LEMMA SendNextSteps ==
  ASSUME TypeOK, TypeOK', NEW s \in sending, SendNext(s),
         \A n \in Node, c \in Conn : task[n][c] = "running" => n \in Ends(c)
  PROVE  Promise!Next \/ UNCHANGED Promise!vars
<1> DEFINE n == s.at
           e == s.envelope
           c == Head(s.to)
           q == outgoing[n][c]
<1>1. n \in Node /\ c \in Conn /\ e \in Envelope
  BY HeadTailProperties DEF TypeOK, Sending
<1>2. UNCHANGED <<broken, writing, wire, delivering, incoming>>
  BY DEF SendNext, taskVars
<1>3. CASE UNCHANGED outgoing
  <2>1. ASSUME NEW m \in Node, NEW d \in Conn
        PROVE  Path(m, d)' = Path(m, d)
    BY <1>2, <1>3, PathSame
  <2> QED BY <1>2, <2>1, KeptIsStutter
<1>4. CASE /\ task[n][c] = "running"
           /\ outgoing' = [outgoing EXCEPT ![n][c] = Append(@, e)]
  <2> DEFINE o == Other(c, n)
  <2>1. n \in Ends(c) /\ o \in Ends(c) /\ o \in Node /\ Other(c, o) = n /\ q \in Seq(Envelope)
    <3> HIDE DEF n, c
    <3>1. n \in Ends(c)
      BY <1>1, <1>4
    <3>2. outgoing \in Paths
      BY DEF TypeOK
    <3>3. q \in Seq(Envelope)
      BY <1>1, <3>2, PlaceTypes
    <3> QED BY <1>1, <3>1, <3>3, ConnectionEnds
  <2>2. \A m \in Node, d \in Conn :
          outgoing'[m][d] = IF m = n /\ d = c THEN Append(q, e) ELSE outgoing[m][d]
    <3>1. outgoing \in Paths
      BY DEF TypeOK
    <3> HIDE DEF n, c, e
    <3> QED BY <1>1, <1>4, <3>1 DEF Paths
  <2> HIDE DEF n, c, e, q, o
  <2>3. ASSUME NEW m \in Node, NEW d \in Conn, ~(m = o /\ d = c)
        PROVE  Path(m, d)' = Path(m, d)
    <3>1. CASE m \in Ends(d)
      <4>1. ~(Other(d, m) = n /\ d = c) /\ Other(d, m) \in Node
        BY <1>1, <2>1, <2>3, <3>1, ConnectionEnds DEF o
      <4> QED BY <1>2, <2>2, <4>1, PathSame
    <3>2. CASE m \notin Ends(d)
      BY <3>2, NoPath
    <3> QED BY <3>1, <3>2
  <2>4. CASE c \in broken
    <3>1. Path(o, c)' = Path(o, c)
      BY <1>1, <1>2, <2>1, <2>4, PathSame
    <3> QED BY <1>2, <2>3, <3>1, KeptIsStutter
  <2>5. CASE c \notin broken
    <3> DEFINE f == Cat(Cat(From(c, incoming[o]), delivering[o][c]), wire[o][c])
               r == writing[n][c]
               h == <<e>>
    <3>1. f \in Seq(Envelope) /\ r \in Seq(Envelope) /\ h \in Seq(Envelope)
      <4>1. /\ From(c, incoming[o]) \in Seq(Envelope) /\ delivering[o][c] \in Seq(Envelope)
            /\ wire[o][c] \in Seq(Envelope)
        BY <1>1, <2>1, PartTypes
      <4>2. r \in Seq(Envelope)
        BY <1>1, PlaceTypes DEF TypeOK
      <4> QED BY <1>1, <4>1, <4>2, CatTypes
    <3>2. Path(o, c) = Cat(f, Cat(r, q))
      BY <1>1, <2>1, <2>5, PathIs DEF Behind, Four, q
    <3>3. Path(o, c)' = Cat(f, Cat(r, Append(q, e)))
      BY <1>1, <1>2, <2>1, <2>2, <2>5, PathWillBe DEF Four
    <3> HIDE DEF f, r, h
    <3>4. Append(q, e) = Cat(q, h)
      BY <1>1, <2>1, AppendIsCat DEF h
    <3>5. Cat(r, Cat(q, h)) = Cat(Cat(r, q), h) /\ Cat(r, q) \in Seq(Envelope)
      BY <2>1, <3>1, CatAssociative, CatTypes
    <3>6. Cat(f, Cat(Cat(r, q), h)) = Cat(Cat(f, Cat(r, q)), h)
      BY <3>1, <3>5, CatAssociative
    <3> DEFINE p == Path(o, c)
    <3>7. p \in Seq(Envelope)
      BY <1>1, <2>1, PartTypes
    <3>8. Path(o, c)' = Append(p, e)
      <4>1. Path(o, c)' = Cat(p, h)
        BY <3>2, <3>3, <3>4, <3>5, <3>6
      <4> HIDE DEF p
      <4>2. Append(p, e) = Cat(p, h)
        BY <1>1, <3>7, AppendIsCat DEF h
      <4> QED BY <4>1, <4>2
    <3>9. Append(p, e) # <<>> /\ SubSeq(Append(p, e), 1, Len(Append(p, e)) - 1) = p
      <4> HIDE DEF p
      <4> QED BY <1>1, <3>7, AppendProperties, FrontOfAppend
    <3>10. Path(o, c)' # <<>> /\ SubSeq(Path(o, c)', 1, Len(Path(o, c)') - 1) = Path(o, c)
      BY <3>8, <3>9
    <3>11. Promise!Next
      BY <1>1, <1>2, <2>1, <2>3, <2>5, <3>10, CarryIsStep
    <3> QED BY <3>11
  <2> QED BY <2>4, <2>5
<1> QED BY <1>3, <1>4 DEF SendNext

(* The loop takes the first message of the connection it came over.        *)
LEMMA ProcessIncomingSteps ==
  ASSUME TypeOK, TypeOK', NEW n \in Node, ProcessIncoming(n)
  PROVE  Promise!Next \/ UNCHANGED Promise!vars
<1> DEFINE q == incoming[n]
<1>1. q \in Seq(Incoming) /\ q # <<>> /\ Head(q) \in Incoming /\ Head(q).source \in Conn
  <2>1. q \in Seq(Incoming) /\ q # <<>>
    BY DEF TypeOK, ProcessIncoming
  <2>2. Head(q) \in Incoming
    BY <2>1, HeadTailProperties
  <2> QED BY <2>1, <2>2 DEF Incoming
<1>2. UNCHANGED <<broken, outgoing, writing, wire, delivering>>
  BY DEF ProcessIncoming, taskVars, pathVars
<1>3. \A m \in Node : incoming'[m] = IF m = n THEN Tail(q) ELSE incoming[m]
  BY DEF ProcessIncoming, TypeOK
<1> HIDE DEF q
<1>0. PICK c \in Conn : c = Head(q).source
  BY <1>1
<1>4. ASSUME NEW m \in Node, NEW d \in Conn, ~(m = n /\ d = c)
      PROVE  Path(m, d)' = Path(m, d)
  <2>1. From(d, incoming'[m]) = From(d, incoming[m])
    <3>1. CASE m # n
      BY <1>3, <3>1
    <3>2. CASE m = n
      <4>1. Head(q).source # d
        BY <1>0, <1>4, <3>2
      <4>2. From(d, Tail(q)) = From(d, q)
        BY <1>1, <4>1, FromTail
      <4> QED BY <1>3, <3>2, <4>2 DEF q
    <3> QED BY <3>1, <3>2
  <2> QED BY <1>2, <2>1, PathSame
<1>5. CASE n \notin Ends(c)
  <2>1. Path(n, c)' = Path(n, c)
    BY <1>5, NoPath
  <2> QED BY <1>2, <1>4, <2>1, KeptIsStutter
<1>6. CASE n \in Ends(c)
  <2> DEFINE f == From(c, q)
             d == delivering[n][c]
             w == wire[n][c]
             x == Behind(n, c)
             y == Cat(d, Cat(w, x))
  <2>1. /\ f \in Seq(Envelope) /\ d \in Seq(Envelope) /\ w \in Seq(Envelope)
        /\ x \in Seq(Envelope)
    BY <1>1, <1>6, PartTypes DEF q
  <2>2. f # <<>> /\ From(c, Tail(q)) = Tail(f)
    BY <1>0, <1>1, FromTail
  <2>3. Path(n, c) = Four(f, d, w, x)
    BY <1>1, <1>6, PathIs DEF q
  <2>4. Path(n, c)' = Four(Tail(f), d, w, x)
    BY <1>1, <1>2, <1>3, <1>6, <2>2, PathWillBe DEF Behind
  <2> HIDE DEF f, d, w, x
  <2>5. y \in Seq(Envelope) /\ Tail(f) \in Seq(Envelope)
    BY <2>1, <2>2, CatTypes, HeadTailProperties
  <2>6. Four(f, d, w, x) = Cat(f, y)
    BY <2>1, FrontLast
  <2>7. Four(Tail(f), d, w, x) = Cat(Tail(f), y)
    <3> DEFINE t == Tail(f)
    <3>1. t \in Seq(Envelope)
      BY <2>5
    <3> HIDE DEF t
    <3>2. Four(t, d, w, x) = Cat(t, y)
      BY <2>1, <3>1, FrontLast
    <3> QED BY <3>2 DEF t
  <2> HIDE DEF y
  <2>8. Cat(f, y) # <<>> /\ Tail(Cat(f, y)) = Cat(Tail(f), y)
    BY <2>1, <2>2, <2>5, TailOfConcat
  <2>9. Path(n, c) # <<>> /\ Path(n, c)' = Tail(Path(n, c))
    BY <2>3, <2>4, <2>6, <2>7, <2>8
  <2>10. Promise!Next
    BY <1>1, <1>2, <1>4, <2>9, CarryIsStep
  <2> QED BY <2>10
<1> QED BY <1>5, <1>6

(* Nothing and the whole are prefixes.                                     *)
LEMMA PrefixEnds ==
  ASSUME NEW S, NEW s \in Seq(S)
  PROVE  <<>> \in Prefixes(s) /\ s \in Prefixes(s)
<1>1. Len(s) \in Nat
  BY LenProperties
<1>2. SubSeq(s, 1, Len(s)) = s
  BY SubSeqFull
<1>3. SubSeq(s, 1, 0) = <<>>
  BY <1>1, SubSeqEmpty
<1>4. 0 \in 0..Len(s) /\ Len(s) \in 0..Len(s)
  BY <1>1
<1> QED BY <1>2, <1>3, <1>4 DEF Prefixes

(* A connection that is broken, or breaks, loses nothing but a last part.  *)
LEMMA LosesTheLast ==
  ASSUME TypeOK, NEW c \in Conn, NEW n \in Ends(c), (c \in broken)',
         From(c, incoming'[n]) = From(c, incoming[n]),
         delivering'[n][c] = delivering[n][c],
         wire'[n][c] \in Prefixes(wire[n][c])
  PROVE  IsPrefix(Path(n, c)', Path(n, c))
<1> DEFINE f == From(c, incoming[n])
           d == delivering[n][c]
           w == wire[n][c]
           x == Behind(n, c)
<1>1. f \in Seq(Envelope) /\ d \in Seq(Envelope) /\ w \in Seq(Envelope) /\ x \in Seq(Envelope)
  BY PartTypes
<1>2. PICK p \in Prefixes(w) : p = wire'[n][c]
  OBVIOUS
<1>3. Path(n, c) = Four(f, d, w, x)
  BY PathIs
<1>4. Path(n, c)' = Four(f, d, p, <<>>)
  BY <1>2, PathWillBe
<1> HIDE DEF f, d, w, x
<1>5. p \in Seq(Envelope)
  BY <1>1, <1>2, PrefixTypes
<1>6. PICK u \in Seq(Envelope) : w = Cat(p, u)
  BY <1>1, <1>2, PrefixAndRest
<1> DEFINE g == Cat(f, d)
           a == Cat(g, p)
           b == Cat(u, x)
<1>7. g \in Seq(Envelope) /\ a \in Seq(Envelope) /\ b \in Seq(Envelope)
  <2>1. g \in Seq(Envelope)
    BY <1>1, CatTypes
  <2> HIDE DEF g
  <2> QED BY <1>1, <1>5, <1>6, <2>1, CatTypes
<1>8. Four(f, d, p, <<>>) = a
  <2> HIDE DEF a
  <2>1. Cat(a, <<>>) = a
    BY <1>7, CatEmpty
  <2> QED BY <2>1 DEF Four, a
<1>9. Four(f, d, w, x) = Cat(a, b)
  <2> HIDE DEF g
  <2>1. Cat(g, Cat(p, u)) = Cat(a, u)
    BY <1>5, <1>6, <1>7, CatAssociative
  <2> HIDE DEF a
  <2>2. Cat(Cat(a, u), x) = Cat(a, b)
    BY <1>1, <1>6, <1>7, CatAssociative
  <2> QED BY <1>6, <2>1, <2>2 DEF Four, g
<1> HIDE DEF a, b
<1>10. IsPrefix(a, Cat(a, b))
  BY <1>7, ConcatPrefix
<1> QED BY <1>3, <1>4, <1>8, <1>9, <1>10

(* Where nothing comes, nothing is lost.                                   *)
LEMMA NothingLost ==
  ASSUME NEW c, NEW n, n \notin Ends(c)
  PROVE  IsPrefix(Path(n, c)', Path(n, c))
<1>1. Path(n, c)' = <<>> /\ Path(n, c) = <<>>
  BY NoPath
<1>2. IsPrefix(<<>>, <<>>)
  BY EmptySeq DEF IsPrefix
<1> QED BY <1>1, <1>2

(* A cut leaves a prefix of each direction.                                *)
LEMMA CutSteps ==
  ASSUME TypeOK, NEW c \in Conn, Cut(c)
  PROVE  Promise!Next
<1> DEFINE a == Dialer[c]
           b == Listener[c]
<1>1. a \in Node /\ b \in Node /\ a # b /\ Ends(c) = {a, b}
  BY ConnectionEnds DEF Ends
<1> HIDE DEF a, b
<1>2. PICK d \in Prefixes(wire[a][c]), l \in Prefixes(wire[b][c]) :
        wire' = [wire EXCEPT ![a][c] = d, ![b][c] = l]
  BY DEF Cut, a, b
<1>3. \A m \in Node, e \in Conn : wire'[m][e] = IF m = a /\ e = c THEN d
                                                ELSE IF m = b /\ e = c THEN l ELSE wire[m][e]
  <2>1. wire \in [Node -> [Conn -> Seq(Envelope)]]
    BY DEF TypeOK, Paths
  <2> DEFINE S == Seq(Envelope)
  <2> HIDE DEF S
  <2>2. wire \in [Node -> [Conn -> S]]
    BY <2>1 DEF S
  <2> QED BY <1>1, <1>2, <2>2
<1>4. UNCHANGED <<outgoing, writing, delivering, incoming>> /\ broken' = broken \cup {c}
  BY DEF Cut
<1>5. ASSUME NEW n \in Node
      PROVE  IsPrefix(Path(n, c)', Path(n, c))
  <2>1. CASE n \in Ends(c)
    <3>1. wire'[n][c] \in Prefixes(wire[n][c])
      BY <1>1, <1>3, <2>1
    <3> QED BY <1>4, <2>1, <3>1, LosesTheLast
  <2>2. CASE n \notin Ends(c)
    BY <2>2, NothingLost
  <2> QED BY <2>1, <2>2
<1>6. ASSUME NEW n \in Node, NEW e \in Conn \ {c}
      PROVE  Path(n, e)' = Path(n, e)
  <2>1. wire'[n][e] = wire[n][e] /\ ((e \in broken)' <=> (e \in broken))
    BY <1>3, <1>4
  <2> QED BY <1>4, <2>1, PathSame
<1> QED BY <1>4, <1>5, <1>6, BreakIsStep

(* A task that ends takes along what its end had yet to read.              *)
LEMMA TaskEndsSteps ==
  ASSUME TypeOK, NEW c \in Conn, NEW n \in Ends(c), TaskEnds(n, c)
  PROVE  Promise!Next
<1> DEFINE o == Other(c, n)
<1>1. n \in Node /\ o \in Node /\ o # n /\ c \in broken
  BY ConnectionEnds DEF TaskEnds
<1>2. /\ \A m \in Node, e \in Conn :
           wire'[m][e] = IF m = n /\ e = c THEN <<>> ELSE wire[m][e]
      /\ \A m \in Node, e \in Conn :
           writing'[m][e] = IF m = n /\ e = c THEN <<>> ELSE writing[m][e]
      /\ \A m \in Node, e \in Conn :
           outgoing'[m][e] = IF m = n /\ e = c THEN <<>> ELSE outgoing[m][e]
  BY <1>1 DEF TaskEnds, TypeOK, Paths
<1>3. UNCHANGED <<broken, delivering, incoming>>
  BY DEF TaskEnds
<1> HIDE DEF o
<1>4. ASSUME NEW m \in Node
      PROVE  IsPrefix(Path(m, c)', Path(m, c))
  <2>1. CASE m \in Ends(c)
    <3>1. wire[m][c] \in Seq(Envelope)
      BY <2>1, PartTypes
    <3>2. wire'[m][c] \in Prefixes(wire[m][c])
      BY <1>2, <3>1, <1>4, PrefixEnds
    <3> QED BY <1>1, <1>3, <2>1, <3>2, LosesTheLast
  <2>2. CASE m \notin Ends(c)
    BY <2>2, NothingLost
  <2> QED BY <2>1, <2>2
<1>5. ASSUME NEW m \in Node, NEW e \in Conn \ {c}
      PROVE  Path(m, e)' = Path(m, e)
  <2>1. CASE m \in Ends(e)
    <3>1. Other(e, m) \in Node
      BY <2>1, ConnectionEnds
    <3> QED BY <1>2, <1>3, <3>1, PathSame
  <2>2. CASE m \notin Ends(e)
    BY <2>2, NoPath
  <2> QED BY <2>1, <2>2
<1>6. broken' = broken \cup {c}
  BY <1>1, <1>3
<1> QED BY <1>4, <1>5, <1>6, BreakIsStep

(* Only the two nodes of a connection run a task for it.                   *)
OwnTasks == \A n \in Node, c \in Conn : task[n][c] # "none" => n \in Ends(c)

(* Tasks are started for the two ends only.                                *)
LEMMA OwnTasksKept ==
  ASSUME TypeOK, OwnTasks, [Next]_vars
  PROVE  OwnTasks'
<1>1. CASE UNCHANGED task
  BY <1>1 DEF OwnTasks, Ends
<1>2. ASSUME NEW c \in Conn, Connect(c)
      PROVE  OwnTasks'
  BY <1>2, ConnectionEnds DEF OwnTasks, TypeOK, Connect, Ends
<1>3. ASSUME NEW c \in Conn, Accept(c)
      PROVE  OwnTasks'
  BY <1>3, ConnectionEnds DEF OwnTasks, TypeOK, Accept, Ends
<1>4. ASSUME NEW c \in Conn, NEW n \in Ends(c), TaskEnds(n, c)
      PROVE  OwnTasks'
  BY <1>4, ConnectionEnds DEF OwnTasks, TypeOK, TaskEnds, Ends
<1> QED BY <1>1, <1>2, <1>3, <1>4 DEF Next, Moves, vars, taskVars, SendNext, ProcessIncoming,
           Reads, Delivers, Takes, Writes, Broadcast, Cut

(* All paths are empty at first, and no task runs.                         *)
LEMMA StartsEmpty == Init => Promise!Init /\ OwnTasks
<1> SUFFICES ASSUME Init
             PROVE  Promise!Init /\ OwnTasks
  OBVIOUS
<1>1. ASSUME NEW n \in Node, NEW c \in Conn
      PROVE  Path(n, c) = <<>> /\ task[n][c] = "none"
  <2>1. CASE n \in Ends(c)
    <3> DEFINE o == Other(c, n)
    <3>1. o \in Node
      BY <2>1, ConnectionEnds
    <3> HIDE DEF o
    <3>2. /\ incoming[n] = <<>> /\ delivering[n][c] = <<>> /\ wire[n][c] = <<>>
          /\ writing[o][c] = <<>> /\ outgoing[o][c] = <<>>
      BY <3>1 DEF Init, Nothing
    <3>3. From(c, incoming[n]) = <<>>
      BY <3>2, FromEmpty
    <3> DEFINE z == <<>>
    <3>4. Cat(z, z) = z
      BY CatEmpty, EmptySeq
    <3>5. Behind(n, c) = z
      BY <3>2, <3>4 DEF Behind, o
    <3>6. Path(n, c) = Four(z, z, z, z)
      BY <2>1, <3>2, <3>3, <3>5, PathIs
    <3> HIDE DEF z
    <3>7. Path(n, c) = z
      BY <3>4, <3>6 DEF Four
    <3> QED BY <3>7 DEF Init, z
  <2>2. CASE n \notin Ends(c)
    BY <2>2, NoPath DEF Init
  <2> QED BY <2>1, <2>2
<1> QED BY <1>1 DEF Promise!Init, OwnTasks, Init

(* In any network, whatever its capacities, what goes into a handle at one *)
(* end of a connection reaches the loop at the other end once and in       *)
(* order, or is lost with everything behind it: the channels, tasks and    *)
(* sockets between implement one queue per direction.                      *)
THEOREM ChannelsKeepDelivery == Spec => ImplementsDelivery
<1>1. ASSUME TypeOK, TypeOK', OwnTasks, [Next]_vars
      PROVE  Promise!Next \/ UNCHANGED Promise!vars
  <2>1. ASSUME NEW s \in sending, SendNext(s)
        PROVE  Promise!Next \/ UNCHANGED Promise!vars
    <3>1. \A n \in Node, c \in Conn : task[n][c] = "running" => n \in Ends(c)
      BY <1>1 DEF OwnTasks
    <3> QED BY <1>1, <2>1, <3>1, SendNextSteps
  <2>2. ASSUME NEW n \in Node, ProcessIncoming(n)
        PROVE  Promise!Next \/ UNCHANGED Promise!vars
    BY <1>1, <2>2, ProcessIncomingSteps
  <2>3. CASE UNCHANGED <<pathVars, broken, incoming>>
    <3>1. ASSUME NEW n \in Node, NEW c \in Conn
          PROVE  Path(n, c)' = Path(n, c)
      BY <2>3, PathSame DEF pathVars
    <3> QED BY <2>3, <3>1, KeptIsStutter
  <2>4. ASSUME NEW c \in Conn, NEW n \in Ends(c),
               Reads(n, c) \/ Delivers(n, c) \/ Takes(n, c) \/ Writes(n, c)
        PROVE  UNCHANGED Promise!vars
    BY <1>1, <2>4, ReadsKeeps, DeliversKeeps, TakesKeeps, WritesKeeps
  <2>5. ASSUME NEW c \in Conn, NEW n \in Ends(c), TaskEnds(n, c)
        PROVE  Promise!Next
    BY <1>1, <2>5, TaskEndsSteps
  <2>6. ASSUME NEW c \in Conn, Cut(c)
        PROVE  Promise!Next
    BY <1>1, <2>6, CutSteps
  <2>8. ASSUME NEW c \in Conn, Accept(c) \/ Connect(c)
        PROVE  UNCHANGED <<pathVars, broken, incoming>>
    BY <2>8 DEF Accept, Connect
  <2>9. ASSUME NEW m \in MessageId, Broadcast(m)
        PROVE  UNCHANGED <<pathVars, broken, incoming>>
    BY <2>9 DEF Broadcast, taskVars
  <2>10. CASE UNCHANGED vars
    BY <2>3, <2>10 DEF vars, pathVars
  <2> QED BY <1>1, <2>1, <2>2, <2>3, <2>4, <2>5, <2>6, <2>8, <2>9, <2>10 DEF Next, Moves
<1>2. TypeOK /\ OwnTasks /\ [Next]_vars => OwnTasks'
  BY OwnTasksKept
<1>3. Spec => Promise!Init
  BY StartsEmpty DEF Spec
<1> QED BY <1>1, <1>2, <1>3, StartsEmpty, TypeCorrect, PTL
        DEF Spec, ImplementsDelivery, Promise!Spec


-----------------------------------------------------------------------------
(* Who waits for whom                                                      *)

(* A task that does not run holds nothing, one that ended has nothing to   *)
(* read, and nothing has been sent over a connection nobody dialled.       *)
RunsOrEmpty(n, c) == task[n][c] # "running" =>
                 outgoing[n][c] = <<>> /\ writing[n][c] = <<>> /\ delivering[n][c] = <<>>
Ended(n, c) == task[n][c] = "ended" => c \in broken /\ wire[n][c] = <<>>
Dialled(n, c) == wire[n][c] # <<>> \/ task[n][c] # "none" =>
                   n \in Ends(c) /\ task[Dialer[c]][c] # "none"
Tended == \A n \in Node, c \in Conn : RunsOrEmpty(n, c) /\ Ended(n, c) /\ Dialled(n, c)

(* A loop over senders has a handle of each connection on its list.        *)
Knows == /\ IsFiniteSet(sending)
         /\ \A s \in sending : \A i \in 1..Len(s.to) : task[s.at][s.to[i]] # "none"


(* What a place holds counts among what is in flight.                      *)
LEMMA HeldAtLeast ==
  ASSUME NEW path \in Paths
  PROVE  /\ Held(path) \in Nat
         /\ \A n \in Node, c \in Conn : Held(path) >= Size(path, n, c)
         /\ \A n, m \in Node, c, d \in Conn : n # m \/ c # d =>
              Held(path) >= Size(path, n, c) + Size(path, m, d)
         /\ Held(path) # 0 => \E n \in Node, c \in Conn : path[n][c] # <<>>
<1> DEFINE P == Node \X Conn
           f == [p \in P |-> Len(path[p[1]][p[2]])]
<1>1. IsFiniteSet(P)
  BY ChannelsAssumption, FS_Product
<1>2. ASSUME NEW n \in Node, NEW c \in Conn
      PROVE  <<n, c>> \in P /\ f[<<n, c>>] = Size(path, n, c) /\ Size(path, n, c) \in Nat
  BY PlaceTypes DEF Size
<1>3. Held(path) = SumFunctionOnSet(f, P)
  BY DEF Held
<1>4. \A p \in P : \E n \in Node, c \in Conn : p = <<n, c>>
  OBVIOUS
<1> HIDE DEF P, f
<1>5. \A p \in P : f[p] \in Nat
  BY <1>2, <1>4
<1>6. Held(path) \in Nat
  BY <1>1, <1>3, <1>5, SumAtLeast
<1>7. ASSUME NEW n \in Node, NEW c \in Conn
      PROVE  Held(path) >= Size(path, n, c)
  BY <1>1, <1>2, <1>3, <1>5, SumAtLeast
<1>8. ASSUME NEW n \in Node, NEW m \in Node, NEW c \in Conn, NEW d \in Conn, n # m \/ c # d
      PROVE  Held(path) >= Size(path, n, c) + Size(path, m, d)
  <2>1. <<n, c>> # <<m, d>>
    BY <1>8
  <2>2. SumFunctionOnSet(f, P) >= f[<<n, c>>] + f[<<m, d>>]
    BY <1>1, <1>2, <1>5, <2>1, SumAtLeast
  <2> QED BY <1>2, <1>3, <2>2
<1>9. ASSUME Held(path) # 0
      PROVE  \E n \in Node, c \in Conn : path[n][c] # <<>>
  <2>1. PICK p \in P : f[p] # 0
    BY <1>1, <1>3, <1>9, SumZero
  <2>2. PICK n \in Node, c \in Conn : p = <<n, c>>
    BY <1>4
  <2>3. Size(path, n, c) # 0
    BY <1>2, <2>1, <2>2
  <2>4. path[n][c] # <<>>
    BY <2>3, Capacities DEF Size
  <2> QED BY <2>4
<1> QED BY <1>6, <1>7, <1>8, <1>9

(* The same for the channels of the loops.                                 *)
Waiting == SumFunctionOnSet([n \in Node |-> Len(incoming[n])], Node)

LEMMA WaitingAtLeast ==
  ASSUME TypeOK
  PROVE  /\ Waiting \in Nat
         /\ \A n \in Node : Len(incoming[n]) \in Nat /\ Waiting >= Len(incoming[n])
         /\ Waiting # 0 => \E n \in Node : incoming[n] # <<>>
<1> DEFINE f == [n \in Node |-> Len(incoming[n])]
<1>1. IsFiniteSet(Node) /\ Waiting = SumFunctionOnSet(f, Node)
  BY ChannelsAssumption DEF Waiting
<1>2. ASSUME NEW n \in Node
      PROVE  f[n] = Len(incoming[n]) /\ f[n] \in Nat
  BY LenProperties DEF TypeOK
<1> HIDE DEF f
<1>3. Waiting \in Nat
  BY <1>1, <1>2, SumAtLeast
<1>4. ASSUME NEW n \in Node
      PROVE  Waiting >= Len(incoming[n])
  BY <1>1, <1>2, SumAtLeast
<1>5. ASSUME Waiting # 0
      PROVE  \E n \in Node : incoming[n] # <<>>
  <2>1. PICK n \in Node : f[n] # 0
    BY <1>1, <1>5, SumZero
  <2> QED BY <1>2, <2>1, Capacities
<1> QED BY <1>2, <1>3, <1>4, <1>5

(* The six places where a message can be.                                  *)
LEMMA InFlightIs ==
  InFlight = Held(outgoing) + Held(writing) + Held(wire) + Held(delivering)
             + Waiting + Cardinality(sending)
BY DEF InFlight, Waiting

(* What is not empty holds at least one.                                   *)
LEMMA NotEmpty ==
  ASSUME NEW path \in Paths, NEW n \in Node, NEW c \in Conn, path[n][c] # <<>>
  PROVE  Size(path, n, c) >= 1
<1>1. path[n][c] \in Seq(Envelope)
  BY PlaceTypes
<1>2. Len(path[n][c]) # 0 /\ Len(path[n][c]) \in Nat
  BY <1>1, EmptySeq, LenProperties
<1> DEFINE k == Len(path[n][c])
<1>3. k \in Nat /\ k # 0
  BY <1>2
<1> HIDE DEF k
<1>4. k >= 1
  BY <1>3
<1> QED BY <1>4 DEF k, Size


(* A task, once started, is never forgotten.                               *)
LEMMA TasksStay ==
  ASSUME TypeOK, [Next]_vars, NEW n \in Node, NEW c \in Conn, task[n][c] # "none"
  PROVE  task'[n][c] # "none"
<1>1. CASE UNCHANGED task
  BY <1>1
<1>2. ASSUME NEW d \in Conn, Connect(d) \/ Accept(d)
      PROVE  task'[n][c] # "none"
  <2>1. PICK m \in Node : task' = [task EXCEPT ![m][d] = "running"]
    BY <1>2, ConnectionEnds DEF Connect, Accept
  <2> QED BY <2>1 DEF TypeOK
<1>3. ASSUME NEW d \in Conn, NEW m \in Ends(d), TaskEnds(m, d)
      PROVE  task'[n][c] # "none"
  BY <1>3, ConnectionEnds DEF TypeOK, TaskEnds
<1> QED BY <1>1, <1>2, <1>3 DEF Next, Moves, vars, taskVars, SendNext, ProcessIncoming,
           Reads, Delivers, Takes, Writes, Broadcast, Cut

(* A loop starts with handles that are there.                              *)
LEMMA StartSendingKnows ==
  ASSUME TypeOK, Knows, UNCHANGED task, NEW n \in Node, NEW who, NEW e,
         NEW eligible \in SUBSET Handles(n), StartSending(n, who, e, eligible)
  PROVE  Knows'
<1>1. PICK chosen \in SUBSET eligible :
        \E to \in SetToSeqs(chosen) :
          sending' = IF to = <<>> THEN sending
                     ELSE sending \cup {[at |-> n, task |-> who, envelope |-> e, to |-> to]}
  BY DEF StartSending
<1>2. PICK to \in SetToSeqs(chosen) :
        sending' = IF to = <<>> THEN sending
                   ELSE sending \cup {[at |-> n, task |-> who, envelope |-> e, to |-> to]}
  BY <1>1
<1>3. IsFiniteSet(sending')
  BY <1>2, FS_AddElement DEF Knows
<1>4. chosen \in SUBSET Conn
  BY DEF Handles
<1>5. Cardinality(chosen) \in Nat
  BY <1>4, ChannelsAssumption, FS_Subset, FS_CardinalityType
<1>6. to \in [1..Cardinality(chosen) -> chosen]
  BY <1>2 DEF SetToSeqs
<1>7. to \in Seq(chosen)
  BY <1>5, <1>6, SeqDef
<1>8. \A i \in 1..Len(to) : task[n][to[i]] # "none"
  BY <1>7, ElementOfSeq DEF Handles
<1>9. ASSUME NEW s \in sending', NEW i \in 1..Len(s.to)
      PROVE  task[s.at][s.to[i]] # "none"
  <2>1. CASE s \in sending
    BY <2>1 DEF Knows
  <2>2. CASE s = [at |-> n, task |-> who, envelope |-> e, to |-> to]
    BY <1>8, <2>2
  <2> QED BY <1>2, <2>1, <2>2
<1> QED BY <1>3, <1>9 DEF Knows

(* The lists get shorter, and the handles on them stay.                    *)
LEMMA KnowsKept ==
  ASSUME TypeOK, Knows, [Next]_vars
  PROVE  Knows'
<1>1. CASE UNCHANGED sending
  <2>1. ASSUME NEW s \in sending, NEW i \in 1..Len(s.to)
        PROVE  task'[s.at][s.to[i]] # "none"
    <3>1. s.at \in Node /\ s.to \in Seq(Conn)
      BY DEF TypeOK, Sending
    <3>2. s.to[i] \in Conn
      BY <3>1, ElementOfSeq
    <3> QED BY <3>1, <3>2, TasksStay DEF Knows
  <2> QED BY <1>1, <2>1 DEF Knows
<1>2. ASSUME NEW s \in sending, SendNext(s)
      PROVE  Knows'
  <2> DEFINE t == [s EXCEPT !.to = Tail(@)]
  <2>1. s.to \in Seq(Conn) /\ s.to # <<>> /\ t.at = s.at /\ t.to = Tail(s.to)
    BY DEF TypeOK, Sending
  <2>2. sending' = (sending \ {s}) \cup (IF Len(s.to) = 1 THEN {} ELSE {t}) /\ UNCHANGED task
    BY <1>2 DEF SendNext, taskVars
  <2>3. IsFiniteSet(sending')
    <3>1. IsFiniteSet(sending \ {s})
      BY FS_RemoveElement DEF Knows
    <3>2. IsFiniteSet((sending \ {s}) \cup {t})
      BY <3>1, FS_AddElement
    <3>3. (sending \ {s}) \cup {} = sending \ {s}
      OBVIOUS
    <3> QED BY <2>2, <3>1, <3>2, <3>3
  <2>4. \A i \in 1..Len(Tail(s.to)) : Tail(s.to)[i] = s.to[i + 1] /\ i + 1 \in 1..Len(s.to)
    BY <2>1, HeadTailProperties, LenProperties
  <2> HIDE DEF t
  <2>5. ASSUME NEW r \in sending', NEW i \in 1..Len(r.to)
        PROVE  task[r.at][r.to[i]] # "none"
    <3>1. CASE r \in sending
      BY <3>1 DEF Knows
    <3>2. CASE r = t
      BY <2>1, <2>4, <3>2 DEF Knows
    <3> QED BY <2>2, <3>1, <3>2
  <2> QED BY <2>2, <2>3, <2>5 DEF Knows
<1>3. ASSUME NEW n \in Node, ProcessIncoming(n)
      PROVE  Knows'
  <2> DEFINE in == Head(incoming[n])
  <2>1. CASE UNCHANGED sending
    BY <1>1, <2>1
  <2>2. CASE StartSending(n, "run", [in.envelope EXCEPT !.ttl = @ - 1], Handles(n) \ {in.source})
    <3>1. UNCHANGED task /\ Handles(n) \ {in.source} \in SUBSET Handles(n)
      BY <1>3 DEF ProcessIncoming, taskVars
    <3> QED BY <2>2, <3>1, StartSendingKnows
  <2> QED BY <1>3, <2>1, <2>2 DEF ProcessIncoming
<1>4. ASSUME NEW m \in MessageId, Broadcast(m)
      PROVE  Knows'
  <2>1. /\ UNCHANGED task /\ Author[m] \in Node
        /\ StartSending(Author[m], "caller", [id |-> m, ttl |-> MaxTtl], Handles(Author[m]))
    BY <1>4, ChannelsAssumption DEF Broadcast, taskVars
  <2> QED BY <2>1, StartSendingKnows
<1> QED BY <1>1, <1>2, <1>3, <1>4 DEF Next, Moves, vars, Accept, Connect,
           Reads, Delivers, Takes, Writes, TaskEnds, Cut


(* Nothing has no other prefix than itself.                                *)
LEMMA PrefixOfNothing ==
  ASSUME NEW s, NEW p \in Prefixes(s), s = <<>>
  PROVE  p = <<>>
<1>1. s \in Seq({}) /\ Len(s) = 0
  BY EmptySeq
<1>2. p \in Seq({}) /\ Len(p) \in 0..0
  BY <1>1, PrefixTypes
<1>3. Len(p) = 0
  BY <1>2
<1> QED BY <1>2, <1>3, EmptySeq


(* No step leaves a message with a task that does not run.                 *)
LEMMA TendedKept ==
  ASSUME TypeOK, Tended, [Next]_vars
  PROVE  Tended'
<1> SUFFICES ASSUME NEW m \in Node, NEW d \in Conn
             PROVE  RunsOrEmpty(m, d)' /\ Ended(m, d)' /\ Dialled(m, d)'
  BY DEF Tended
<1>0. RunsOrEmpty(m, d) /\ Ended(m, d) /\ Dialled(m, d)
  BY DEF Tended
<1>1. CASE UNCHANGED <<taskVars, pathVars>>
  BY <1>0, <1>1 DEF taskVars, pathVars, RunsOrEmpty, Ended, Dialled, Ends
<1>2. ASSUME NEW s \in sending, SendNext(s)
      PROVE  RunsOrEmpty(m, d)' /\ Ended(m, d)' /\ Dialled(m, d)'
  <2> DEFINE c == Head(s.to)
  <2>1. s.at \in Node /\ c \in Conn
    BY HeadTailProperties DEF TypeOK, Sending
  <2>2. outgoing' = outgoing \/
        /\ task[s.at][c] = "running"
        /\ outgoing' = [outgoing EXCEPT ![s.at][c] = Append(@, s.envelope)]
    BY <1>2 DEF SendNext
  <2> HIDE DEF c
  <2>3. task[m][d] = "running" \/ outgoing'[m][d] = outgoing[m][d]
    <3> DEFINE S == Seq(Envelope)
               q == Append(outgoing[s.at][c], s.envelope)
    <3>1. outgoing \in [Node -> [Conn -> S]]
      BY DEF TypeOK, Paths
    <3>2. outgoing' = outgoing \/
          /\ task[s.at][c] = "running"
          /\ outgoing' = [outgoing EXCEPT ![s.at][c] = q]
      BY <2>1, <2>2, <3>1
    <3> HIDE DEF S, q
    <3> QED BY <2>1, <3>1, <3>2
  <2> QED BY <1>0, <1>2, <2>3 DEF SendNext, taskVars, RunsOrEmpty, Ended, Dialled, Ends
<1>3. ASSUME NEW c \in Conn, Connect(c) \/ Accept(c)
      PROVE  RunsOrEmpty(m, d)' /\ Ended(m, d)' /\ Dialled(m, d)'
  <2>1. PICK n \in Ends(c) : /\ task' = [task EXCEPT ![n][c] = "running"]
                             /\ n = Dialer[c] \/ task[Dialer[c]][c] # "none"
    BY <1>3 DEF Connect, Accept, Ends
  <2>2. n \in Node /\ Dialer[c] \in Node
    BY <2>1, ConnectionEnds
  <2>3. \A k \in Node, e \in Conn :
          task'[k][e] = IF k = n /\ e = c THEN "running" ELSE task[k][e]
    BY <2>1, <2>2 DEF TypeOK
  <2>4. UNCHANGED <<pathVars, broken>>
    BY <1>3 DEF Connect, Accept
  <2>5. Dialer[d] \in Node
    BY ConnectionEnds
  <2> QED BY <1>0, <2>1, <2>2, <2>3, <2>4, <2>5 DEF pathVars, RunsOrEmpty, Ended, Dialled, Ends
<1>4. ASSUME NEW c \in Conn, NEW n \in Ends(c), Reads(n, c)
      PROVE  RunsOrEmpty(m, d)' /\ Ended(m, d)' /\ Dialled(m, d)'
  <2>1. n \in Node /\ task[n][c] = "running" /\ UNCHANGED <<taskVars, outgoing, writing>>
    BY <1>4, ConnectionEnds DEF Reads, Selects
  <2>2. (m = n /\ d = c)
        \/ (delivering'[m][d] = delivering[m][d] /\ wire'[m][d] = wire[m][d])
    BY <1>4, <2>1 DEF Reads, TypeOK, Paths
  <2> QED BY <1>0, <2>1, <2>2 DEF taskVars, RunsOrEmpty, Ended, Dialled, Ends
<1>5. ASSUME NEW c \in Conn, NEW n \in Ends(c), Delivers(n, c)
      PROVE  RunsOrEmpty(m, d)' /\ Ended(m, d)' /\ Dialled(m, d)'
  <2>1. n \in Node /\ UNCHANGED <<taskVars, outgoing, writing, wire>>
    BY <1>5, ConnectionEnds DEF Delivers
  <2>2. delivering'[m][d] = <<>> \/ delivering'[m][d] = delivering[m][d]
    BY <1>5, <2>1 DEF Delivers, TypeOK, Paths
  <2> QED BY <1>0, <2>1, <2>2 DEF taskVars, RunsOrEmpty, Ended, Dialled, Ends
<1>6. ASSUME NEW c \in Conn, NEW n \in Ends(c), Takes(n, c)
      PROVE  RunsOrEmpty(m, d)' /\ Ended(m, d)' /\ Dialled(m, d)'
  <2>1. n \in Node /\ task[n][c] = "running" /\ UNCHANGED <<taskVars, wire, delivering>>
    BY <1>6, ConnectionEnds DEF Takes, Selects
  <2>2. (m = n /\ d = c)
        \/ (outgoing'[m][d] = outgoing[m][d] /\ writing'[m][d] = writing[m][d])
    BY <1>6, <2>1 DEF Takes, TypeOK, Paths
  <2> QED BY <1>0, <2>1, <2>2 DEF taskVars, RunsOrEmpty, Ended, Dialled, Ends
<1>7. ASSUME NEW c \in Conn, NEW n \in Ends(c), Writes(n, c)
      PROVE  RunsOrEmpty(m, d)' /\ Ended(m, d)' /\ Dialled(m, d)'
  <2> DEFINE o == Other(c, n)
  <2>1. n \in Node /\ o \in Ends(c) /\ o \in Node
    BY ConnectionEnds
  <2>2. c \notin broken /\ writing[n][c] # <<>> /\ UNCHANGED <<taskVars, outgoing, delivering>>
    BY <1>7 DEF Writes
  <2>3. task[Dialer[c]][c] # "none"
    BY <2>1, <2>2 DEF Tended, RunsOrEmpty, Dialled
  <2>4. task[o][c] # "ended"
    BY <2>1, <2>2 DEF Tended, Ended
  <2>5. writing'[m][d] = <<>> \/ writing'[m][d] = writing[m][d]
    BY <1>7, <2>1 DEF Writes, TypeOK, Paths
  <2>6. (m = o /\ d = c) \/ wire'[m][d] = wire[m][d]
    BY <1>7, <2>1 DEF Writes, TypeOK, Paths
  <2> HIDE DEF o
  <2> QED BY <1>0, <2>1, <2>2, <2>3, <2>4, <2>5, <2>6
             DEF taskVars, RunsOrEmpty, Ended, Dialled, Ends
<1>8. ASSUME NEW c \in Conn, Cut(c)
      PROVE  RunsOrEmpty(m, d)' /\ Ended(m, d)' /\ Dialled(m, d)'
  <2>1. wire[m][d] = <<>> => wire'[m][d] = <<>>
    <3> DEFINE a == Dialer[c]
               b == Listener[c]
    <3>1. a \in Node /\ b \in Node /\ a # b
      BY ConnectionEnds
    <3>2. PICK p \in Prefixes(wire[a][c]), l \in Prefixes(wire[b][c]) :
            wire' = [wire EXCEPT ![a][c] = p, ![b][c] = l]
      BY <1>8 DEF Cut
    <3>3. (wire[a][c] = <<>> => p = <<>>) /\ (wire[b][c] = <<>> => l = <<>>)
      BY PrefixOfNothing
    <3> HIDE DEF a, b
    <3>4. wire'[m][d] = IF m = a /\ d = c THEN p
                        ELSE IF m = b /\ d = c THEN l ELSE wire[m][d]
      <4> DEFINE S == Seq(Envelope)
      <4>1. wire \in [Node -> [Conn -> S]]
        BY DEF TypeOK, Paths
      <4> HIDE DEF S
      <4> QED BY <3>1, <3>2, <4>1
    <3> QED BY <3>3, <3>4
  <2>2. UNCHANGED <<task, outgoing, writing, delivering>> /\ broken' = broken \cup {c}
    BY <1>8 DEF Cut
  <2> QED BY <1>0, <2>1, <2>2 DEF RunsOrEmpty, Ended, Dialled, Ends
<1>9. ASSUME NEW c \in Conn, NEW n \in Ends(c), TaskEnds(n, c)
      PROVE  RunsOrEmpty(m, d)' /\ Ended(m, d)' /\ Dialled(m, d)'
  <2>1. /\ n \in Node /\ c \in broken /\ task[n][c] = "running" /\ delivering[n][c] = <<>>
        /\ UNCHANGED <<broken, delivering>>
    BY <1>9, ConnectionEnds DEF TaskEnds
  <2>2. /\ \A k \in Node, e \in Conn :
             task'[k][e] = IF k = n /\ e = c THEN "ended" ELSE task[k][e]
        /\ outgoing'[m][d] = IF m = n /\ d = c THEN <<>> ELSE outgoing[m][d]
        /\ writing'[m][d] = IF m = n /\ d = c THEN <<>> ELSE writing[m][d]
        /\ wire'[m][d] = IF m = n /\ d = c THEN <<>> ELSE wire[m][d]
    BY <1>9, <2>1 DEF TaskEnds, TypeOK, Paths
  <2>3. Dialer[d] \in Node
    BY ConnectionEnds
  <2> QED BY <1>0, <2>1, <2>2, <2>3 DEF RunsOrEmpty, Ended, Dialled, Ends
<1>10. CASE UNCHANGED vars
  BY <1>1, <1>10 DEF vars, taskVars, pathVars
<1> QED BY <1>1, <1>2, <1>3, <1>4, <1>5, <1>6, <1>7, <1>8, <1>9, <1>10
           DEF Next, Moves, ProcessIncoming, Broadcast


(* A state that can be reached and where nothing can move.                 *)
Stuck == TypeOK /\ Tended /\ Knows /\ ~CanMove

(* What a jam takes.                                                       *)
Load == Min({2 * SocketCapacity, OutgoingCapacity + IncomingCapacity})

LEMMA LoadIsLess ==
  /\ Load \in Nat
  /\ Load <= 2 * SocketCapacity
  /\ Load <= OutgoingCapacity + IncomingCapacity
<1> DEFINE a == 2 * SocketCapacity
           b == OutgoingCapacity + IncomingCapacity
<1>1. a \in Nat /\ b \in Nat
  BY Capacities
<1>2. Load = CHOOSE x \in {a, b} : \A y \in {a, b} : x <= y
  BY DEF Load, Min
<1> HIDE DEF a, b
<1>3. \E x \in {a, b} : \A y \in {a, b} : x <= y
  BY <1>1
<1>4. Load \in {a, b} /\ Load <= a /\ Load <= b
  BY <1>2, <1>3
<1> QED BY <1>1, <1>4 DEF a, b

(* The six parts of what is in flight are numbers.                         *)
LEMMA InFlightParts ==
  ASSUME TypeOK, Knows
  PROVE  /\ Held(outgoing) \in Nat /\ Held(writing) \in Nat /\ Held(wire) \in Nat
         /\ Held(delivering) \in Nat /\ Waiting \in Nat /\ Cardinality(sending) \in Nat
<1>1. Cardinality(sending) \in Nat
  BY FS_CardinalityType DEF Knows
<1> QED BY <1>1, HeldAtLeast, WaitingAtLeast DEF TypeOK

(* A loop over senders that waits, waits for a full channel, and the task  *)
(* behind it is busy.                                                      *)
LEMMA SendingWaits ==
  ASSUME Stuck, NEW s \in sending
  PROVE  \E c \in Conn : /\ task[s.at][c] = "running" /\ s.at \in Node
                         /\ Size(outgoing, s.at, c) >= OutgoingCapacity
                         /\ writing[s.at][c] # <<>> \/ delivering[s.at][c] # <<>>
<1> DEFINE c == Head(s.to)
           n == s.at
<1>1. n \in Node /\ c \in Conn /\ s.to \in Seq(Conn) /\ s.to # <<>>
  BY HeadTailProperties DEF Stuck, TypeOK, Sending
<1>2. task[n][c] # "none"
  <2>1. 1 \in 1..Len(s.to) /\ s.to[1] = c
    BY <1>1, HeadTailProperties, LenProperties, EmptySeq
  <2> QED BY <2>1 DEF Stuck, Knows
<1>3. task[n][c] # "ended" /\ ~(task[n][c] = "running" /\ HasRoom(outgoing[n][c], OutgoingCapacity))
  BY DEF Stuck, CanMove
<1> HIDE DEF c, n
<1>4. task[n][c] = "running"
  BY <1>1, <1>2, <1>3 DEF Stuck, TypeOK
<1>5. Size(outgoing, n, c) \in Nat /\ Size(outgoing, n, c) >= OutgoingCapacity
  BY <1>1, <1>3, <1>4, Sizes, Capacities DEF Stuck, HasRoom, Size
<1>6. outgoing[n][c] # <<>> /\ n \in Ends(c)
  BY <1>1, <1>4, <1>5, Capacities DEF Size, Stuck, Tended, Dialled
<1>7. ~Selects(n, c)
  BY <1>1, <1>6 DEF Stuck, CanMove
<1>8. writing[n][c] # <<>> \/ delivering[n][c] # <<>>
  BY <1>4, <1>7 DEF Selects
<1> QED BY <1>1, <1>4, <1>5, <1>8 DEF n

(* A loop that does not listen is at such a list.                          *)
LEMMA LoopWaits ==
  ASSUME Stuck, NEW n \in Node, ~Idle(n)
  PROVE  \E c \in Conn : /\ task[n][c] = "running"
                         /\ Size(outgoing, n, c) >= OutgoingCapacity
                         /\ writing[n][c] # <<>> \/ delivering[n][c] # <<>>
BY SendingWaits DEF Idle

(* A task that waits to deliver: its node's channel is full, and so is the *)
(* channel its node's loop sends to.                                       *)
LEMMA DeliveringWaits ==
  ASSUME Stuck, NEW n \in Node, NEW c \in Conn, delivering[n][c] # <<>>
  PROVE  InFlight >= 2 + Load
<1>1. TypeOK /\ n \in Ends(c)
  BY DEF Stuck, Tended, RunsOrEmpty, Dialled
<1>2. Len(incoming[n]) \in Nat /\ Len(incoming[n]) >= IncomingCapacity
  BY <1>1, WaitingAtLeast, Capacities DEF Stuck, CanMove, HasRoom
<1>3. incoming[n] # <<>>
  BY <1>2, Capacities
<1>4. ~Idle(n)
  BY <1>3 DEF Stuck, CanMove
<1>5. PICK d \in Conn : Size(outgoing, n, d) >= OutgoingCapacity
  BY <1>4, LoopWaits
<1>6. Held(outgoing) >= OutgoingCapacity
  <2>1. Held(outgoing) \in Nat /\ Held(outgoing) >= Size(outgoing, n, d)
    BY <1>1, HeldAtLeast DEF TypeOK
  <2>2. Size(outgoing, n, d) \in Nat
    BY <1>1, Sizes
  <2> QED BY <1>5, <2>1, <2>2, Capacities
<1>7. Held(delivering) >= 1
  <2>1. Held(delivering) \in Nat /\ Held(delivering) >= Size(delivering, n, c)
    BY <1>1, HeldAtLeast DEF TypeOK
  <2>2. Size(delivering, n, c) \in Nat /\ Size(delivering, n, c) >= 1
    BY <1>1, NotEmpty, Sizes DEF TypeOK
  <2> QED BY <2>1, <2>2
<1>8. Waiting >= IncomingCapacity
  BY <1>1, <1>2, WaitingAtLeast, Capacities
<1>9. Cardinality(sending) >= 1
  <2>1. sending # {} /\ IsFiniteSet(sending)
    BY <1>4 DEF Idle, Stuck, Knows
  <2>2. Cardinality(sending) # 0 /\ Cardinality(sending) \in Nat
    BY <2>1, FS_EmptySet, FS_CardinalityType
  <2> QED BY <2>2
<1>10. /\ Held(outgoing) \in Nat /\ Held(writing) \in Nat /\ Held(wire) \in Nat
       /\ Held(delivering) \in Nat /\ Waiting \in Nat /\ Cardinality(sending) \in Nat
  BY InFlightParts DEF Stuck
<1> QED BY <1>6, <1>7, <1>8, <1>9, <1>10, InFlightIs, LoadIsLess, Capacities

(* A task that waits to write: the socket to the other end is full.        *)
LEMMA WritingWaits ==
  ASSUME Stuck, NEW n \in Node, NEW c \in Conn, writing[n][c] # <<>>
  PROVE  /\ task[n][c] = "running" /\ n \in Ends(c) /\ c \notin broken
         /\ Other(c, n) \in Node /\ Size(wire, Other(c, n), c) >= SocketCapacity
<1>1. TypeOK /\ task[n][c] = "running" /\ n \in Ends(c)
  BY DEF Stuck, Tended, RunsOrEmpty, Dialled
<1> DEFINE o == Other(c, n)
<1>2. o \in Node
  BY <1>1, ConnectionEnds
<1>3. delivering[n][c] = <<>>
  <2>1. Size(writing, n, c) \in Nat /\ Size(delivering, n, c) \in Nat
        /\ Size(writing, n, c) + Size(delivering, n, c) <= 1
    BY <1>1, Sizes
  <2>2. Size(writing, n, c) >= 1
    BY <1>1, NotEmpty DEF TypeOK
  <2>3. ~(Size(delivering, n, c) >= 1)
    BY <2>1, <2>2
  <2> QED BY <1>1, <2>3, NotEmpty DEF TypeOK
<1>4. c \notin broken
  BY <1>1, <1>3 DEF Stuck, CanMove
<1>5. ~HasRoom(wire[o][c], SocketCapacity)
  BY <1>1, <1>4 DEF Stuck, CanMove
<1> HIDE DEF o
<1>6. Size(wire, o, c) >= SocketCapacity
  BY <1>1, <1>2, <1>5, Sizes, Capacities DEF HasRoom, Size
<1> QED BY <1>1, <1>2, <1>4, <1>6 DEF o

(* Two tasks that wait to write: two full sockets.                         *)
LEMMA TwoWritingWait ==
  ASSUME Stuck, NEW n \in Node, NEW c \in Conn, writing[n][c] # <<>>,
         NEW m \in Node, NEW d \in Conn, writing[m][d] # <<>>, n # m \/ c # d
  PROVE  InFlight >= 2 + Load
<1> DEFINE o == Other(c, n)
           p == Other(d, m)
<1>1. /\ TypeOK /\ o \in Node /\ p \in Node /\ n \in Ends(c) /\ m \in Ends(d)
      /\ Size(wire, o, c) >= SocketCapacity /\ Size(wire, p, d) >= SocketCapacity
  BY WritingWaits DEF Stuck
<1>2. o # p \/ c # d
  BY <1>1, ConnectionEnds
<1> HIDE DEF o, p
<1>3. Held(wire) >= 2 * SocketCapacity
  <2>1. Held(wire) \in Nat /\ Held(wire) >= Size(wire, o, c) + Size(wire, p, d)
    BY <1>1, <1>2, HeldAtLeast DEF TypeOK
  <2>2. Size(wire, o, c) \in Nat /\ Size(wire, p, d) \in Nat
    BY <1>1, Sizes
  <2> QED BY <1>1, <2>1, <2>2, Capacities
<1>4. Held(writing) >= 2
  <2>1. Held(writing) \in Nat /\ Held(writing) >= Size(writing, n, c) + Size(writing, m, d)
    BY <1>1, HeldAtLeast DEF TypeOK
  <2>2. /\ Size(writing, n, c) \in Nat /\ Size(writing, n, c) >= 1
        /\ Size(writing, m, d) \in Nat /\ Size(writing, m, d) >= 1
    BY <1>1, NotEmpty, Sizes DEF TypeOK
  <2> QED BY <2>1, <2>2
<1>5. /\ Held(outgoing) \in Nat /\ Held(writing) \in Nat /\ Held(wire) \in Nat
      /\ Held(delivering) \in Nat /\ Waiting \in Nat /\ Cardinality(sending) \in Nat
  BY InFlightParts DEF Stuck
<1> QED BY <1>3, <1>4, <1>5, InFlightIs, LoadIsLess, Capacities

(* One task that waits to write: the other end of its connection does not  *)
(* read, because it writes or delivers itself or because its loop, which   *)
(* has yet to accept the connection, is busy.                              *)
LEMMA WriterWaits ==
  ASSUME Stuck, NEW n \in Node, NEW c \in Conn, writing[n][c] # <<>>
  PROVE  InFlight >= 2 + Load
<1> DEFINE o == Other(c, n)
<1>1. /\ TypeOK /\ task[n][c] = "running" /\ n \in Ends(c) /\ c \notin broken
      /\ o \in Node /\ Size(wire, o, c) >= SocketCapacity
  BY WritingWaits DEF Stuck
<1>2. o \in Ends(c) /\ o # n
  BY <1>1, ConnectionEnds
<1>3. task[Dialer[c]][c] # "none"
  BY <1>1 DEF Stuck, Tended, Dialled
<1> HIDE DEF o
<1>4. wire[o][c] # <<>>
  BY <1>1, Sizes, Capacities DEF Size
<1>5. CASE task[o][c] = "running"
  <2>1. ~Selects(o, c)
    BY <1>2, <1>4 DEF Stuck, CanMove
  <2>2. writing[o][c] # <<>> \/ delivering[o][c] # <<>>
    BY <1>5, <2>1 DEF Selects
  <2> QED BY <1>1, <1>2, <2>2, TwoWritingWait, DeliveringWaits
<1>6. CASE task[o][c] = "none"
  <2>1. o = Listener[c]
    BY <1>2, <1>3, <1>6 DEF Ends
  <2>2. ~Idle(o)
    BY <1>3, <1>6, <2>1 DEF Stuck, CanMove
  <2>3. PICK d \in Conn : /\ task[o][d] = "running"
                          /\ writing[o][d] # <<>> \/ delivering[o][d] # <<>>
    BY <1>1, <2>2, LoopWaits
  <2> QED BY <1>1, <1>6, <2>3, TwoWritingWait, DeliveringWaits
<1>7. task[o][c] # "ended"
  BY <1>1 DEF Stuck, Tended, Ended
<1>8. task[o][c] \in {"none", "running", "ended"}
  BY <1>1 DEF TypeOK
<1> QED BY <1>5, <1>6, <1>7, <1>8

(* Wherever a message waits, the chain of waits ends at one of these.      *)
LEMMA WaitingNeedsLoad ==
  ASSUME Stuck, InFlight > 0
  PROVE  InFlight >= 2 + Load
<1>1. ASSUME NEW n \in Node, NEW c \in Conn, writing[n][c] # <<>> \/ delivering[n][c] # <<>>
      PROVE  InFlight >= 2 + Load
  BY <1>1, WriterWaits, DeliveringWaits
<1>2. ASSUME NEW n \in Node, ~Idle(n)
      PROVE  InFlight >= 2 + Load
  BY <1>1, <1>2, LoopWaits
<1>3. ASSUME NEW n \in Node, NEW c \in Conn, outgoing[n][c] # <<>>
      PROVE  InFlight >= 2 + Load
  <2>1. task[n][c] = "running" /\ n \in Ends(c)
    BY <1>3 DEF Stuck, Tended, RunsOrEmpty, Dialled
  <2>2. ~Selects(n, c)
    BY <1>3, <2>1 DEF Stuck, CanMove
  <2> QED BY <1>1, <2>1, <2>2 DEF Selects
<1>4. ASSUME NEW n \in Node, NEW c \in Conn, wire[n][c] # <<>>
      PROVE  InFlight >= 2 + Load
  <2>1. n \in Ends(c) /\ task[Dialer[c]][c] # "none" /\ task[n][c] # "ended"
    BY <1>4 DEF Stuck, Tended, Dialled, Ended
  <2>2. CASE task[n][c] = "running"
    <3>1. ~Selects(n, c)
      BY <1>4, <2>1 DEF Stuck, CanMove
    <3> QED BY <1>1, <2>2, <3>1 DEF Selects
  <2>3. CASE task[n][c] = "none"
    <3>1. n = Listener[c]
      BY <2>1, <2>3 DEF Ends
    <3>2. ~Idle(n)
      BY <2>1, <2>3, <3>1 DEF Stuck, CanMove
    <3> QED BY <1>2, <3>2
  <2>4. task[n][c] \in {"none", "running", "ended"}
    BY DEF Stuck, TypeOK
  <2> QED BY <2>1, <2>2, <2>3, <2>4
<1>5. ASSUME NEW n \in Node, incoming[n] # <<>>
      PROVE  InFlight >= 2 + Load
  <2>1. ~Idle(n)
    BY <1>5 DEF Stuck, CanMove
  <2> QED BY <1>2, <2>1
<1>6. ASSUME NEW s \in sending
      PROVE  InFlight >= 2 + Load
  BY <1>1, SendingWaits
<1>7. CASE Held(outgoing) # 0
  BY <1>3, <1>7, HeldAtLeast DEF Stuck, TypeOK
<1>8. CASE Held(writing) # 0 \/ Held(delivering) # 0
  BY <1>1, <1>8, HeldAtLeast DEF Stuck, TypeOK
<1>9. CASE Held(wire) # 0
  BY <1>4, <1>9, HeldAtLeast DEF Stuck, TypeOK
<1>10. CASE Waiting # 0
  BY <1>5, <1>10, WaitingAtLeast DEF Stuck
<1>11. CASE Cardinality(sending) # 0
  BY <1>6, <1>11, FS_EmptySet
<1>12. CASE /\ Held(outgoing) = 0 /\ Held(writing) = 0 /\ Held(wire) = 0
            /\ Held(delivering) = 0 /\ Waiting = 0 /\ Cardinality(sending) = 0
  BY <1>12, InFlightIs
<1> QED BY <1>7, <1>8, <1>9, <1>10, <1>11, <1>12

(* In any network and for any capacities: as long as the messages in all   *)
(* places are fewer than two full sockets and two, and than a full         *)
(* outgoing and a full incoming channel and two, something can move.       *)
THEOREM JamsTakeLoad == Spec => []JamNeedsLoad
<1>1. Init => Tended /\ Knows
  <2> SUFFICES ASSUME Init
               PROVE  Tended /\ Knows
    OBVIOUS
  <2>1. Knows
    BY FS_EmptySet DEF Init, Knows
  <2>2. ASSUME NEW n \in Node, NEW c \in Conn
        PROVE  RunsOrEmpty(n, c) /\ Ended(n, c) /\ Dialled(n, c)
    BY DEF Init, Nothing, RunsOrEmpty, Ended, Dialled
  <2> QED BY <2>1, <2>2 DEF Tended
<1>2. TypeOK /\ Tended /\ Knows /\ [Next]_vars => Tended' /\ Knows'
  BY TendedKept, KnowsKept
<1>3. TypeOK /\ Tended /\ Knows => JamNeedsLoad
  BY WaitingNeedsLoad DEF JamNeedsLoad, Stuck, Load
<1> QED BY <1>1, <1>2, <1>3, TypeCorrect, PTL DEF Spec
=============================================================================
