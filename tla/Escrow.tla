------------------------------- MODULE Escrow -------------------------------
(***************************************************************************)
(* What the JobRegistry contract promises to job owners and provers, with  *)
(* no notion of balances, journals, call frames or rollbacks: the reward   *)
(* of a job is locked when the job is opened, and leaves the escrow once,  *)
(* to a prover up to the deadline or back to the owner after it.           *)
(***************************************************************************)
EXTENDS Naturals

CONSTANTS Job,         \* job identifiers (bytes32)
          Account,     \* addresses
          NoAccount    \* the zero address: nobody has been paid

VARIABLES clock,       \* block.timestamp
          escrow       \* for each job, the state of its reward

vars == <<clock, escrow>>

Nothing == [state |-> "none", owner |-> NoAccount, deadline |-> 0, payee |-> NoAccount]

Init == /\ clock = 0
        /\ escrow = [j \in Job |-> Nothing]

Opens(e, f) == /\ e = Nothing
               /\ f.owner \in Account
               /\ f.deadline \in Nat
               /\ f.deadline > clock
               /\ f = [Nothing EXCEPT !.state = "open", !.owner = f.owner,
                                      !.deadline = f.deadline]

Pays(e, f) == /\ e.state = "open"
              /\ clock <= e.deadline
              /\ f.payee \in Account
              /\ f = [e EXCEPT !.state = "paid", !.payee = f.payee]

Refunds(e, f) == /\ e.state = "open"
                 /\ clock > e.deadline
                 /\ f = [e EXCEPT !.state = "refunded", !.payee = e.owner]

(* One transaction may open a job and prove it at once.                    *)
OpensAndPays(e, f) == /\ e = Nothing
                      /\ f.state = "paid"
                      /\ f.payee \in Account
                      /\ Opens(e, [f EXCEPT !.state = "open", !.payee = NoAccount])

Legal(e, f) == \/ f = e
               \/ Opens(e, f)
               \/ Pays(e, f)
               \/ Refunds(e, f)
               \/ OpensAndPays(e, f)

-----------------------------------------------------------------------------

Tick == /\ clock' \in Nat
        /\ clock' > clock
        /\ UNCHANGED escrow

(* A contract account can call back into the registry while it is being    *)
(* paid, so a single transaction can move the rewards of several jobs.     *)
Transact == /\ escrow' = [j \in Job |-> escrow'[j]]
            /\ \A j \in Job : Legal(escrow[j], escrow'[j])
            /\ UNCHANGED clock

Next == Tick \/ Transact

Spec == Init /\ [][Next]_vars
=============================================================================
