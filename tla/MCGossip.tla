------------------------------ MODULE MCGossip ------------------------------
(***************************************************************************)
(* Finite instances of Gossip for TLC.                                     *)
(***************************************************************************)
EXTENDS Gossip

CONSTANTS a, b, c, d,          \* nodes: a ring of three and one behind c
          ab, bc, ca, cd,      \* connections
          m1, m2               \* messages

RingWithTail == (ab :> {a, b}) @@ (bc :> {b, c}) @@ (ca :> {a, c}) @@ (cd :> {c, d})
Authors == (m1 :> a) @@ (m2 :> d)

(* A forged copy of the first message, and a genuine one that was kept and *)
(* is sent again: the signature does not cover the TTL.                    *)
Stray == {[id |-> m1, ttl |-> 1, signed |-> FALSE], [id |-> m1, ttl |-> 2, signed |-> TRUE]}
=============================================================================
