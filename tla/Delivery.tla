------------------------------ MODULE Delivery ------------------------------
(***************************************************************************)
(* What a gossip connection promises, with no notion of tasks, sockets or  *)
(* capacities: each direction is one queue.  Nothing is lost, duplicated   *)
(* or overtaken while the connection stands; when it breaks, what had not  *)
(* arrived goes, the last sent first.                                      *)
(***************************************************************************)
EXTENDS SequencesExt

CONSTANTS Node, Conn

VARIABLES queue,     \* what is on its way to each node over each connection
          broken     \* connections that no longer carry anything

vars == <<queue, broken>>

Init == /\ queue = [n \in Node |-> [c \in Conn |-> <<>>]]
        /\ broken = {}

Others(n, c) == \A m \in Node, d \in Conn :
                  <<m, d>> # <<n, c>> => queue'[m][d] = queue[m][d]

Put(old, new) == new # <<>> /\ Front(new) = old

Taken(old, new) == old # <<>> /\ new = Tail(old)

(* One message is put behind the others, or the first one arrives.         *)
Carry(n, c) == /\ LET old == queue[n][c]
                      new == queue'[n][c]
                  IN Taken(old, new) \/ (c \notin broken /\ Put(old, new))
               /\ Others(n, c)
               /\ UNCHANGED broken

Break(c) == /\ broken' = broken \cup {c}
            /\ \A n \in Node : /\ IsPrefix(queue'[n][c], queue[n][c])
                               /\ \A d \in Conn \ {c} : queue'[n][d] = queue[n][d]

Next == /\ \/ \E n \in Node, c \in Conn : Carry(n, c)
           \/ \E c \in Conn : Break(c)
        /\ queue' = [n \in Node |-> [c \in Conn |-> queue'[n][c]]]

Spec == Init /\ [][Next]_vars
=============================================================================
