--------------------------- MODULE MCJobRegistry ---------------------------
(***************************************************************************)
(* Finite instances of JobRegistry for TLC, with the results the guest     *)
(* computes for their payloads.                                            *)
(***************************************************************************)
EXTENDS FibonacciJobs

CONSTANTS job1, job2,           \* two jobs: one can be settled inside the other
          owner, recipient \* recipient has code

(* The larger reward is within reach of the recipient once it was paid.    *)
UnequalFunds == [a \in Account |-> IF a = owner THEN 2 ELSE 1]
UnequalRewards == {0, 1, 2}

(* The empty input, and one longer than a word whose result wraps.         *)
EmptyInput == <<>>
TwoPayloads == {EmptyInput, <<3, 2, 1>>}
Computed == [p \in Payload |-> ProveSync(<<0>>, p).result]
Results == {Computed[p] : p \in Payload}

(* Inputs of every length up to one byte more than a word.                 *)
ShortInputs == UNION {[1..k -> Byte] : k \in 0 .. WordBytes + 1}
Digest(data) == <<Len(data) % Base>>
=============================================================================
