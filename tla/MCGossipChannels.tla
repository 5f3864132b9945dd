-------------------------- MODULE MCGossipChannels --------------------------
(***************************************************************************)
(* Finite instances of GossipChannels for TLC.                             *)
(***************************************************************************)
EXTENDS GossipChannels

CONSTANTS a, b,             \* two nodes that have dialled each other: what
          ab, ba,           \* comes by one connection is forwarded by the other
          m1, m2

Dialers == (ab :> a) @@ (ba :> b)
Listeners == (ab :> b) @@ (ba :> a)
Authors == (m1 :> a) @@ (m2 :> b)
=============================================================================
