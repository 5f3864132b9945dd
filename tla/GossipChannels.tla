--------------------------- MODULE GossipChannels ---------------------------
(***************************************************************************)
(* The tasks and bounded channels inside crates/gossip.  A message passes  *)
(* the outgoing channel of a connection, the task of that connection, the  *)
(* socket, the task at the other end and the one incoming channel of the   *)
(* receiving node, which its run() loop drains.  Every send waits for      *)
(* room.  A task reads or writes, never both; the loop does nothing else   *)
(* while it forwards.  Whether a message is new is left open (see Gossip). *)
(***************************************************************************)
EXTENDS Integers, SequencesExt

CONSTANTS Node,
          Conn,
          MessageId,
          Author,               \* the node that broadcasts each message, once
          Dialer, Listener,     \* the two nodes of each connection
          OutgoingCapacity,     \* mpsc::channel(64) of a connection
          IncomingCapacity,     \* mpsc::channel(256) of a node
          SocketCapacity,       \* messages the kernels' buffers and Framed hold
          Fanout,
          MaxTtl,
          MaxCuts               \* bound on connections that break

ASSUME ChannelsAssumption ==
  /\ IsFiniteSet(Node) /\ IsFiniteSet(Conn)
  /\ Author \in [MessageId -> Node]
  /\ Dialer \in [Conn -> Node]
  /\ Listener \in [Conn -> Node]
  /\ \A c \in Conn : Dialer[c] # Listener[c]
  /\ {OutgoingCapacity, IncomingCapacity, SocketCapacity, MaxTtl} \subseteq Nat \ {0}
  /\ {Fanout, MaxCuts} \subseteq Nat

VARIABLES task,         \* the task each node runs for each connection
          outgoing,     \* Inner.connections: the channel behind each handle
          writing,      \* what the task is writing to the socket, if anything
          wire,         \* what each node has yet to read from each socket
          delivering,   \* what the task is sending to the node's run loop
          incoming,     \* the channel of each node's run loop
          sending,      \* send_to_peers loops under way
          broken,       \* connections cut by the network
          called        \* messages that were broadcast

taskVars == <<task, broken>>
pathVars == <<outgoing, writing, wire, delivering>>
vars == <<task, outgoing, writing, wire, delivering, incoming, sending, broken, called>>

Envelope == [id : MessageId, ttl : 1..MaxTtl]

Incoming == [envelope : Envelope, source : Conn]

Sending == [at : Node, task : {"run", "caller"}, envelope : Envelope, to : Seq(Conn) \ {<<>>}]

Paths == [Node -> [Conn -> Seq(Envelope)]]

Nothing == [n \in Node |-> [c \in Conn |-> <<>>]]

Init == /\ task = [n \in Node |-> [c \in Conn |-> "none"]]
        /\ outgoing = Nothing
        /\ writing = Nothing
        /\ wire = Nothing
        /\ delivering = Nothing
        /\ incoming = [n \in Node |-> <<>>]
        /\ sending = {}
        /\ broken = {}
        /\ called = {}

Ends(c) == {Dialer[c], Listener[c]}

Other(c, n) == IF n = Dialer[c] THEN Listener[c] ELSE Dialer[c]

HasRoomButOne(channel, capacity) == Len(channel) < capacity - 1

HasRoomForTwo(channel, capacity) == Len(channel) <= capacity

HasRoom(channel, capacity) == Len(channel) < capacity

-----------------------------------------------------------------------------

(* The run loop is in its select!: neither accepting nor forwarding.       *)
Idle(n) == \A s \in sending : ~(s.at = n /\ s.task = "run")

Handles(n) == {c \in Conn : task[n][c] # "none"}

(* send_to_peers: the handles are read once, in any order, and those of    *)
(* connections that ended are among them.                                  *)
StartSending(n, who, e, eligible) ==
  \E chosen \in SUBSET eligible :
    /\ Cardinality(chosen) = Min({Fanout, Cardinality(eligible)})
    /\ \E to \in SetToSeqs(chosen) :
         sending' = IF to = <<>> THEN sending
                    ELSE sending \cup {[at |-> n, task |-> who, envelope |-> e, to |-> to]}

Connect(c) == /\ task[Dialer[c]][c] = "none"
              /\ task' = [task EXCEPT ![Dialer[c]][c] = "running"]
              /\ UNCHANGED <<pathVars, incoming, sending, broken, called>>

(* The kernel has completed the handshake; the loop picks the stream up.   *)
Accept(c) == /\ task[Dialer[c]][c] # "none"
             /\ task[Listener[c]][c] = "none"
             /\ Idle(Listener[c])
             /\ task' = [task EXCEPT ![Listener[c]][c] = "running"]
             /\ UNCHANGED <<pathVars, incoming, sending, broken, called>>

Broadcast(m) ==
  /\ m \notin called
  /\ called' = called \cup {m}
  /\ StartSending(Author[m], "caller", [id |-> m, ttl |-> MaxTtl], Handles(Author[m]))
  /\ UNCHANGED <<taskVars, pathVars, incoming>>

(* One turn of the loop over the chosen senders: tx.send(..).await, which  *)
(* fails at once when the connection's task is gone.                       *)
SendNext(s) ==
  LET c == Head(s.to) IN
  /\ \/ /\ task[s.at][c] = "running"
        /\ HasRoom(outgoing[s.at][c], OutgoingCapacity)
        /\ outgoing' = [outgoing EXCEPT ![s.at][c] = Append(@, s.envelope)]
     \/ /\ task[s.at][c] = "ended"
        /\ UNCHANGED outgoing
  /\ sending' = (sending \ {s}) \cup
                (IF Len(s.to) = 1 THEN {} ELSE {[s EXCEPT !.to = Tail(@)]})
  /\ UNCHANGED <<taskVars, writing, wire, delivering, incoming, called>>

ProcessIncoming(n) ==
  /\ incoming[n] # <<>>
  /\ Idle(n)
  /\ incoming' = [incoming EXCEPT ![n] = Tail(@)]
  /\ LET in == Head(incoming[n]) IN
       \/ UNCHANGED sending
       \/ /\ in.envelope.ttl > 1
          /\ StartSending(n, "run", [in.envelope EXCEPT !.ttl = @ - 1],
                          Handles(n) \ {in.source})
  /\ UNCHANGED <<taskVars, pathVars, called>>

-----------------------------------------------------------------------------

(* The task of a connection is in its select!.                             *)
Selects(n, c) == /\ task[n][c] = "running"
                 /\ writing[n][c] = <<>>
                 /\ delivering[n][c] = <<>>

Reads(n, c) == /\ Selects(n, c)
               /\ wire[n][c] # <<>>
               /\ delivering' = [delivering EXCEPT ![n][c] = <<Head(wire[n][c])>>]
               /\ wire' = [wire EXCEPT ![n][c] = Tail(@)]
               /\ UNCHANGED <<taskVars, outgoing, writing, incoming, sending, called>>

(* try_send: a message that finds no room is dropped.                      *)
DeliversOrDrops(n, c) ==
  /\ delivering[n][c] # <<>>
  /\ incoming' = IF HasRoom(incoming[n], IncomingCapacity)
                 THEN [incoming EXCEPT ![n] = Append(@, [envelope |-> delivering[n][c][1],
                                                         source |-> c])]
                 ELSE incoming
  /\ delivering' = [delivering EXCEPT ![n][c] = <<>>]
  /\ UNCHANGED <<taskVars, outgoing, writing, wire, sending, called>>

Delivers(n, c) ==
  /\ delivering[n][c] # <<>>
  /\ HasRoom(incoming[n], IncomingCapacity)
  /\ incoming' = [incoming EXCEPT ![n] = Append(@, [envelope |-> delivering[n][c][1],
                                                    source |-> c])]
  /\ delivering' = [delivering EXCEPT ![n][c] = <<>>]
  /\ UNCHANGED <<taskVars, outgoing, writing, wire, sending, called>>

Takes(n, c) == /\ Selects(n, c)
               /\ outgoing[n][c] # <<>>
               /\ writing' = [writing EXCEPT ![n][c] = <<Head(outgoing[n][c])>>]
               /\ outgoing' = [outgoing EXCEPT ![n][c] = Tail(@)]
               /\ UNCHANGED <<taskVars, wire, delivering, incoming, sending, called>>

Writes(n, c) ==
  /\ writing[n][c] # <<>>
  /\ c \notin broken
  /\ HasRoom(wire[Other(c, n)][c], SocketCapacity)
  /\ wire' = [wire EXCEPT ![Other(c, n)][c] = @ \o writing[n][c]]
  /\ writing' = [writing EXCEPT ![n][c] = <<>>]
  /\ UNCHANGED <<taskVars, outgoing, delivering, incoming, sending, called>>

(* The network loses the connection with what was under way.               *)
Cut(c) == /\ c \notin broken
          /\ Cardinality(broken) < MaxCuts
          /\ task[Dialer[c]][c] # "none"
          /\ broken' = broken \cup {c}
          /\ \E d \in Prefixes(wire[Dialer[c]][c]), l \in Prefixes(wire[Listener[c]][c]) :
               wire' = [wire EXCEPT ![Dialer[c]][c] = d, ![Listener[c]][c] = l]
          /\ UNCHANGED <<task, outgoing, writing, delivering, incoming, sending, called>>

(* break: a write fails, or all has been read.  The handle stays behind.   *)
TaskEnds(n, c) ==
  /\ c \in broken
  /\ task[n][c] = "running"
  /\ delivering[n][c] = <<>>
  /\ writing[n][c] # <<>> \/ wire[n][c] = <<>>
  /\ task' = [task EXCEPT ![n][c] = "ended"]
  /\ outgoing' = [outgoing EXCEPT ![n][c] = <<>>]
  /\ writing' = [writing EXCEPT ![n][c] = <<>>]
  /\ wire' = [wire EXCEPT ![n][c] = <<>>]
  /\ UNCHANGED <<delivering, incoming, sending, broken, called>>

-----------------------------------------------------------------------------

(* What the program does by itself, without callers or the network.        *)
Moves == \/ \E s \in sending : SendNext(s)
         \/ \E n \in Node : ProcessIncoming(n)
         \/ \E c \in Conn : \/ Accept(c)
                            \/ \E n \in Ends(c) : \/ Reads(n, c)
                                                  \/ Delivers(n, c)
                                                  \/ Takes(n, c)
                                                  \/ Writes(n, c)
                                                  \/ TaskEnds(n, c)

Next == \/ Moves
        \/ \E m \in MessageId : Broadcast(m)
        \/ \E c \in Conn : Connect(c) \/ Cut(c)

Spec == Init /\ [][Next]_vars

-----------------------------------------------------------------------------

(* Every variable stays in its type, no channel holds more than its        *)
(* capacity, and a task holds one message at a time.                       *)
TypeOK ==
  /\ task \in [Node -> [Conn -> {"none", "running", "ended"}]]
  /\ outgoing \in Paths /\ writing \in Paths /\ wire \in Paths /\ delivering \in Paths
  /\ \A n \in Node, c \in Conn : /\ Len(outgoing[n][c]) <= OutgoingCapacity
                                 /\ Len(wire[n][c]) <= SocketCapacity
                                 /\ Len(writing[n][c]) + Len(delivering[n][c]) <= 1
  /\ incoming \in [Node -> Seq(Incoming)]
  /\ \A n \in Node : Len(incoming[n]) <= IncomingCapacity
  /\ sending \subseteq Sending
  /\ broken \subseteq Conn
  /\ called \subseteq MessageId

(* What has come over c and waits for the run loop, the connection aside.  *)
From(c, queue) ==
  LET upTo[i \in 0..Len(queue)] ==
        IF i = 0 THEN <<>>
        ELSE IF queue[i].source = c THEN Append(upTo[i - 1], queue[i].envelope)
        ELSE upTo[i - 1]
  IN upTo[Len(queue)]

(* All that is still to reach the run loop of n over c, oldest first.      *)
Path(n, c) ==
  IF n \notin Ends(c) THEN <<>>
  ELSE LET m == Other(c, n)
       IN From(c, incoming[n]) \o delivering[n][c] \o wire[n][c]
            \o (IF c \in broken THEN <<>> ELSE writing[m][c] \o outgoing[m][c])

Promise == INSTANCE Delivery WITH queue <- [n \in Node |-> [c \in Conn |-> Path(n, c)]]

(* Through five hands and two processes a connection is one queue: what    *)
(* send_to_peers puts into a handle reaches the other node's loop once and *)
(* in order, whatever waits on what, or is cut off with all that follows.  *)
(* Gossip and GossipLinks take this for granted.                           *)
ImplementsDelivery == Promise!Spec

Held(path) == SumFunctionOnSet([p \in Node \X Conn |-> Len(path[p[1]][p[2]])], Node \X Conn)

InFlight == Held(outgoing) + Held(writing) + Held(wire) + Held(delivering)
            + SumFunctionOnSet([n \in Node |-> Len(incoming[n])], Node) + Cardinality(sending)

(* Somebody need not wait: a sender for room in the handle's channel or    *)
(* for the end of its task, a loop for itself, a task for its peer, its    *)
(* loop or the end of its connection.                                      *)
CanMove ==
  \/ \E s \in sending : LET c == Head(s.to) IN
       \/ task[s.at][c] = "running" /\ HasRoom(outgoing[s.at][c], OutgoingCapacity)
       \/ task[s.at][c] = "ended"
  \/ \E n \in Node : incoming[n] # <<>> /\ Idle(n)
  \/ \E c \in Conn : /\ task[Dialer[c]][c] # "none"
                     /\ task[Listener[c]][c] = "none"
                     /\ Idle(Listener[c])
  \/ \E c \in Conn : \E n \in Ends(c) :
       \/ Selects(n, c) /\ (wire[n][c] # <<>> \/ outgoing[n][c] # <<>>)
       \/ delivering[n][c] # <<>> /\ HasRoom(incoming[n], IncomingCapacity)
       \/ writing[n][c] # <<>> /\ c \notin broken /\ HasRoom(wire[Other(c, n)][c], SocketCapacity)
       \/ /\ c \in broken /\ task[n][c] = "running" /\ delivering[n][c] = <<>>
          /\ writing[n][c] # <<>> \/ wire[n][c] = <<>>

(* Waits can close a ring: two tasks at the ends of one connection write   *)
(* to each other and read no more; a loop waits for an outgoing channel    *)
(* whose task waits for the loop.  This takes two full sockets, or a full  *)
(* outgoing and a full incoming channel, with a message in each hand: with *)
(* fewer messages in all, something can always move.                       *)
JamNeedsLoad ==
  InFlight > 0 /\ ~CanMove =>
    InFlight >= 2 + Min({2 * SocketCapacity, OutgoingCapacity + IncomingCapacity})
=============================================================================
