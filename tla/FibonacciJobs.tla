---------------------------- MODULE FibonacciJobs ----------------------------
(***************************************************************************)
(* The contract of JobRegistry with the guest program of Guest: results    *)
(* are the bytes the guest computes from the payload of the job.           *)
(***************************************************************************)
EXTENDS JobRegistry, Guest

ASSUME ResultsAssumption ==
  /\ Payload \subseteq Data
  /\ \A p \in Payload, id \in Field : GuestResult[p] = ProveSync(id, p).result

(* The work that is paid for is the work that was ordered: the guest and   *)
(* its readers agree with the reference on every input, and the event of a *)
(* paid job carries the Fibonacci number of the payload its owner sent.    *)
PaidForFibonacci ==
  /\ FibonacciModuloWidth
  /\ JournalsAreRead
  /\ ~MockVerifier =>
       \A i \in DOMAIN events : events[i].type = "JobCompleted" =>
         FromLittleEndian(events[i].result) = ResultOf(jobs[events[i].job].payload)
=============================================================================
