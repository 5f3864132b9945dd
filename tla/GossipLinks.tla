----------------------------- MODULE GossipLinks -----------------------------
(***************************************************************************)
(* crates/gossip as coordinator and workers use it: each worker dials the  *)
(* coordinator once, so the overlay is a star and a message reaches its    *)
(* readers in one hop.  A queue stands for the whole path of one direction *)
(* (channels of the sending node, socket, channels of the receiving node), *)
(* which keeps order.  What a worker ignores (the ClaimJob and             *)
(* JobCompleted of another one, relayed by the coordinator) is not queued. *)
(***************************************************************************)
EXTENDS ProofCore, SequencesExt

CONSTANTS Fanout,      \* how many connections one broadcast is sent to
          Faults       \* the failures that may happen

ASSUME GossipAssumption ==
  /\ Fanout \in Nat \ {0}
  /\ Faults \subseteq {"loss", "disconnect", "rpc", "prover", "abandon", "crash"}

VARIABLES link,     \* each worker's connection to the coordinator
          handles,  \* Inner.connections of the coordinator: never removed
          up,       \* messages on their way from a worker
          down      \* messages on their way to a worker

linkVars == <<link, handles, up, down>>

LinkTypeOK == /\ link \in [Worker -> {"none", "open", "closed"}]
              /\ handles \subseteq Worker
              /\ up \in [Worker -> Seq(GossipMessage)]
              /\ down \in [Worker -> Seq(GossipMessage)]

LinkInit == /\ link = [w \in Worker |-> "none"]
            /\ handles = {}
            /\ up = [w \in Worker |-> <<>>]
            /\ down = [w \in Worker |-> <<>>]

SendTo(targets, m) ==
  down' = [w \in Worker |-> IF w \in targets /\ link[w] = "open"
                            THEN Append(down[w], m) ELSE down[w]]

(* send_to_peers: every connection, or a random choice of Fanout of them.  *)
(* The handle of a connection that broke is still there and still chosen.  *)
FewerTargets == IF Cardinality(handles) < Fanout THEN {handles}
                ELSE {S \in SUBSET handles : Cardinality(S) = Fanout - 1}

Targets == IF Cardinality(handles) <= Fanout THEN {handles}
           ELSE {S \in SUBSET handles : Cardinality(S) = Fanout}

Broadcast(m) == \E targets \in Targets : SendTo(targets, m)

SendUp(w, m) == up' = IF link[w] = "open" THEN [up EXCEPT ![w] = Append(@, m)] ELSE up

-----------------------------------------------------------------------------

(* Worker::start, once in the life of the process.                         *)
Connect(w) == /\ link[w] = "none"
              /\ link' = [link EXCEPT ![w] = "open"]
              /\ handles' = handles \cup {w}
              /\ UNCHANGED <<up, down>>

(* RecvError::Lagged: the reader skips what the channel has overwritten.   *)
Lose(w) == /\ "loss" \in Faults
           /\ \/ up[w] # <<>> /\ up' = [up EXCEPT ![w] = Tail(@)] /\ UNCHANGED down
              \/ down[w] # <<>> /\ down' = [down EXCEPT ![w] = Tail(@)] /\ UNCHANGED up
           /\ UNCHANGED <<link, handles>>

(* The connection breaks with whatever had not been received yet.          *)
Disconnect(w) ==
  /\ "disconnect" \in Faults
  /\ link[w] = "open"
  /\ link' = [link EXCEPT ![w] = "closed"]
  /\ \E u \in Prefixes(up[w]), d \in Prefixes(down[w]) :
       /\ up' = [up EXCEPT ![w] = u]
       /\ down' = [down EXCEPT ![w] = d]
  /\ UNCHANGED handles
=============================================================================
