------------------------------- MODULE Gossip -------------------------------
(***************************************************************************)
(* crates/gossip over any overlay: epidemic broadcast with a TTL, a random *)
(* choice of connections and an LRU cache of the ids a node has seen.      *)
(* Connections are up and keep order (GossipChannels says how they are     *)
(* made of tasks and bounded channels).  A copy is handed to one           *)
(* connection at a time, so broadcasts and forwards interleave; a node     *)
(* handles nothing else it receives while it forwards.                     *)
(***************************************************************************)
EXTENDS Integers, SequencesExt

CONSTANTS Node,
          Conn,           \* TCP connections between nodes
          Ends,           \* the two nodes of each connection
          MessageId,      \* generate_message_id: never drawn twice
          Author,         \* the node that broadcasts each message
          Injected,       \* envelopes somebody may hand to send()
          Fanout,
          MaxTtl,
          SeenCacheSize,
          MaxCalls        \* bound on calls of broadcast() and send()

Envelope == [id : MessageId, ttl : 0..MaxTtl, signed : BOOLEAN]

ASSUME OverlayAssumption ==
  /\ IsFiniteSet(Node) /\ IsFiniteSet(Conn)
  /\ Ends \in [Conn -> SUBSET Node]
  /\ \A c \in Conn : \E a, b \in Node : a # b /\ Ends[c] = {a, b}
  /\ Author \in [MessageId -> Node]
  /\ Injected \subseteq Envelope
  /\ Fanout \in Nat
  /\ MaxTtl \in Nat \ {0}
  /\ SeenCacheSize \in Nat \ {0}
  /\ MaxCalls \in Nat

VARIABLES seen,      \* Inner.seen of each node, most recently used first
          channel,   \* what each node has yet to take from each connection
          sending,   \* send_to_peers loops under way
          calls,     \* the broadcast() and send() calls so far, in order
          heard      \* the ids each node has looked up or put, in order

vars == <<seen, channel, sending, calls, heard>>

(* A loop of the node's run() task, or of the task that called broadcast() *)
(* or send(), with the connections it has still to visit.                  *)
Sending == [at : Node, task : {"run", "caller"}, envelope : Envelope, to : SUBSET Conn]

Call == [at : Node, envelope : Envelope]

(* "own": broadcast by the node; "new": given to its subscribers and       *)
(* perhaps forwarded; "old": dropped as a duplicate.                       *)
Hearing == [id : MessageId, ttl : 0..MaxTtl, how : {"own", "new", "old"}]

Init == /\ seen = [n \in Node |-> <<>>]
        /\ channel = [n \in Node |-> [c \in Conn |-> <<>>]]
        /\ sending = {}
        /\ calls = <<>>
        /\ heard = [n \in Node |-> <<>>]

-----------------------------------------------------------------------------

Has(cache, id) == \E i \in DOMAIN cache : cache[i] = id

(* A capacity that is one too small, and none at all.                      *)
UsedShort(cache, id) == SubSeq(<<id>> \o cache, 1, SeenCacheSize - 1)

UsedForever(cache, id) == IF Has(cache, id) THEN cache ELSE <<id>> \o cache

(* LruCache::get of an id that is there, LruCache::put of one that is not: *)
(* the id becomes the most recent one, the oldest makes room.              *)
Used(cache, id) ==
  LET at == IF Has(cache, id) THEN CHOOSE i \in DOMAIN cache : cache[i] = id
            ELSE Len(cache) + 1
      size == IF Has(cache, id) \/ Len(cache) = SeenCacheSize THEN Len(cache)
              ELSE Len(cache) + 1
  IN [k \in 1..size |-> IF k = 1 THEN id ELSE IF k <= at THEN cache[k - 1] ELSE cache[k]]

Notes(n, e, how) ==
  /\ seen' = [seen EXCEPT ![n] = Used(@, e.id)]
  /\ heard' = [heard EXCEPT ![n] = Append(@, [id |-> e.id, ttl |-> e.ttl, how |-> how])]

(* The signature is over id, origin and payload; the TTL is not covered.   *)
Sign(e) == [id |-> e.id, ttl |-> e.ttl, signed |-> TRUE]

Verify(e) == e.signed

ConnectionsOf(n) == {c \in Conn : n \in Ends[c]}

AllTargets(eligible) == {eligible}

(* send_to_peers: all connections but the one the copy came by, or Fanout  *)
(* of them chosen at random.                                               *)
Targets(eligible) ==
  IF Cardinality(eligible) <= Fanout THEN {eligible}
  ELSE {S \in SUBSET eligible : Cardinality(S) = Fanout}

StartSending(n, task, e, eligible) ==
  \E to \in Targets(eligible) :
    sending' = IF to = {} THEN sending
               ELSE sending \cup {[at |-> n, task |-> task, envelope |-> e, to |-> to]}

Forwarding(n) == \E s \in sending : s.at = n /\ s.task = "run"

-----------------------------------------------------------------------------

Called(n, e) == /\ Len(calls) < MaxCalls
                /\ calls' = Append(calls, [at |-> n, envelope |-> e])

Broadcast(m) ==
  LET n == Author[m]
      e == Sign([id |-> m, ttl |-> MaxTtl, signed |-> FALSE])
  IN /\ \A i \in DOMAIN calls : calls[i] # [at |-> n, envelope |-> e]
     /\ Called(n, e)
     /\ Notes(n, e, "own")
     /\ StartSending(n, "caller", e, ConnectionsOf(n))
     /\ UNCHANGED channel

(* The envelope comes ready made, signed by its origin or by nobody, and   *)
(* is not marked as seen here.  A caller awaits one call before the next.  *)
Send(n, e) ==
  /\ \A s \in sending : s.at = n /\ s.task = "caller" => s.envelope # e
  /\ Called(n, e)
  /\ StartSending(n, "caller", e, ConnectionsOf(n))
  /\ UNCHANGED <<seen, channel, heard>>

Other(c, n) == CHOOSE m \in Ends[c] : m # n

(* One turn of the loop over the chosen connections.                       *)
SendNext(s, c) ==
  /\ channel' = [channel EXCEPT ![Other(c, s.at)][c] = Append(@, s.envelope)]
  /\ sending' = (sending \ {s}) \cup
                (IF s.to = {c} THEN {} ELSE {[s EXCEPT !.to = @ \ {c}]})
  /\ UNCHANGED <<seen, calls, heard>>

Hop(e) == [e EXCEPT !.ttl = @ - 1]

MayTravelOneMore(e) == e.ttl > 0

MayTravelOn(e) == e.ttl > 1

(* Looking the id up before the signature is verified.                     *)
NotesForged(n, e) == Notes(n, e, "old") /\ UNCHANGED sending

DropsForged(n, e) == UNCHANGED <<seen, heard, sending>>

DropsDuplicate(n, e) == /\ Has(seen[n], e.id)
                        /\ Notes(n, e, "old")
                        /\ UNCHANGED sending

TakesNew(n, c, e) ==
  /\ ~Has(seen[n], e.id)
  /\ Notes(n, e, "new")
  /\ IF MayTravelOn(e) THEN StartSending(n, "run", Hop(e), ConnectionsOf(n) \ {c})
     ELSE UNCHANGED sending

ProcessIncoming(n, c) ==
  /\ channel[n][c] # <<>>
  /\ ~Forwarding(n)
  /\ channel' = [channel EXCEPT ![n][c] = Tail(@)]
  /\ LET e == Head(channel[n][c]) IN
       \/ ~Verify(e) /\ DropsForged(n, e)
       \/ Verify(e) /\ (DropsDuplicate(n, e) \/ TakesNew(n, c, e))
  /\ UNCHANGED calls

Next == \/ \E m \in MessageId : Broadcast(m)
        \/ \E n \in Node, e \in Injected : Send(n, e)
        \/ \E s \in sending : \E c \in s.to : SendNext(s, c)
        \/ \E n \in Node, c \in Conn : ProcessIncoming(n, c)

Spec == Init /\ [][Next]_vars

(* Tokio runs every task that can run, and run() takes what its one        *)
(* incoming channel holds.                                                 *)
Fairness ==
  /\ WF_vars(\E s \in sending : \E c \in s.to : SendNext(s, c))
  /\ \A n \in Node : WF_vars(\E c \in Conn : ProcessIncoming(n, c))

FairSpec == Spec /\ Fairness

-----------------------------------------------------------------------------

(* Every variable stays in its type; the cache keeps to its capacity.      *)
TypeOK == /\ seen \in [Node -> Seq(MessageId)]
          /\ \A n \in Node : Len(seen[n]) <= SeenCacheSize
          /\ channel \in [Node -> [Conn -> Seq(Envelope)]]
          /\ sending \subseteq Sending
          /\ \A s \in sending : \A c \in s.to : s.at \in Ends[c]
          /\ calls \in Seq(Call)
          /\ heard \in [Node -> Seq(Hearing)]

(* LRU deduplication: a node takes an id as new again only after it has    *)
(* met SeenCacheSize other ids since it last met this one.  Its own        *)
(* messages are covered as well: broadcast() puts them into the cache.     *)
NoEarlyRepeat ==
  \A n \in Node : \A i, k \in DOMAIN heard[n] :
    i < k /\ heard[n][i].id = heard[n][k].id /\ heard[n][k].how = "new" =>
      Cardinality({heard[n][x].id : x \in i + 1 .. k - 1}) >= SeenCacheSize

Adjacent(a, b) == \E c \in Conn : Ends[c] = {a, b}

(* A walk of k hops from a to b.                                           *)
Walk(a, b, k) == \E p \in [0..k -> Node] :
  p[0] = a /\ p[k] = b /\ \A i \in 1..k : Adjacent(p[i - 1], p[i])

(* What a subscriber is given was broadcast or sent by somebody, with a    *)
(* valid signature, no further away than its TTL allows: a copy that has   *)
(* lost t of its hops has made t + 1 hops, and at most as many as the TTL  *)
(* it started with (one, for a TTL of zero).                               *)
HopBound ==
  \A n \in Node : \A k \in DOMAIN heard[n] : heard[n][k].how = "new" =>
    \E i \in DOMAIN calls :
      LET e == calls[i].envelope
          hops == e.ttl - heard[n][k].ttl + 1
      IN /\ e.id = heard[n][k].id
         /\ e.signed
         /\ hops >= 1
         /\ hops = 1 \/ hops <= e.ttl
         /\ Walk(calls[i].at, n, hops)

(* The copies of a message that were ever made and have arrived.           *)
Copies(m) ==
  LET met == [n \in Node |->
                Cardinality({k \in DOMAIN heard[n] : heard[n][k].id = m /\ heard[n][k].how # "own"})]
      waiting == [p \in Node \X Conn |->
                    Cardinality({k \in DOMAIN channel[p[1]][p[2]] : channel[p[1]][p[2]][k].id = m})]
  IN SumFunctionOnSet(met, Node) + SumFunctionOnSet(waiting, Node \X Conn)

(* Fanout + Fanout^2 + ..., as many terms as hops.                         *)
Cost[hops \in 0..MaxTtl] == IF hops = 0 THEN 0 ELSE Fanout * (1 + Cost[hops - 1])

(* A copy makes one hop whatever its TTL.                                  *)
Hops(ttl) == IF ttl = 0 THEN 1 ELSE ttl

(* One call costs at most Fanout + Fanout^2 + ... copies, as many terms as *)
(* its TTL, even when the cache forgets everything: the TTL alone ends a   *)
(* storm.                                                                  *)
StormBound ==
  \A m \in MessageId :
    LET cost == [i \in DOMAIN calls |-> IF calls[i].envelope.id = m
                                        THEN Cost[Hops(calls[i].envelope.ttl)] ELSE 0]
    IN Copies(m) <= SumFunctionOnSet(cost, DOMAIN calls)

Knows(n, m) == \/ \E k \in DOMAIN heard[n] : heard[n][k].id = m /\ heard[n][k].how # "old"
               \/ \E i \in DOMAIN calls : /\ calls[i].at = n
                                           /\ calls[i].envelope.id = m
                                           /\ calls[i].envelope.signed

(* The node broadcast the message, or took a copy of it with hops left.    *)
Spreader(n, m) == \E k \in DOMAIN heard[n] :
  /\ heard[n][k].id = m
  /\ \/ heard[n][k].how = "own"
     \/ heard[n][k].how = "new" /\ heard[n][k].ttl > 1

(* Nodes whose random choice takes in all their connections.               *)
TellsAll(c) == {n \in Ends[c] : Cardinality(ConnectionsOf(n)) <= Fanout}

(* A node with no more connections than the fanout, that broadcast a       *)
(* message or took a copy with hops left, makes every neighbour know it,   *)
(* whatever forged copies and evictions come between.                      *)
Spreads == \A c \in Conn, m \in MessageId : \A n \in TellsAll(c) :
             Spreader(n, m) ~> Knows(Other(c, n), m)

Genuine(e, m) == e.id = m /\ Verify(e)

OnItsWay(n, c, m) == \E k \in DOMAIN channel[n][c] : Genuine(channel[n][c][k], m)

ToBeSent(n, c, m) == \E s \in sending : s.at = n /\ c \in s.to /\ Genuine(s.envelope, m)

(* A spreader's duty to a neighbour is never dropped: until the neighbour  *)
(* knows the message, a genuine copy is on the connection between them, or *)
(* a loop has still to visit that connection.  In particular whoever sent  *)
(* the copy, and is left out when it is forwarded, knows the message.      *)
SpreadUnderWay ==
  \A c \in Conn, m \in MessageId : \A n \in TellsAll(c) :
    Spreader(n, m) =>
      Knows(Other(c, n), m) \/ OnItsWay(Other(c, n), c, m) \/ ToBeSent(n, c, m)
=============================================================================
