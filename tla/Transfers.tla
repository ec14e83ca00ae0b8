------------------------------ MODULE Transfers ------------------------------
(***************************************************************************)
(* What the bridge promises to the sender of a transfer to Ethereum: it is *)
(* pending until it is either paid out on Ethereum or refunded on Cosmos,  *)
(* one of the two and once.  A pending transfer never gets lost.           *)
(***************************************************************************)
EXTENDS Naturals

CONSTANTS Ids         \* the ids that transfers can have

VARIABLES pending,    \* the transfers that are neither paid nor refunded
          payments,   \* how often each transfer has been paid on Ethereum
          refunds     \* the transfers that were given back

transferVars == <<pending, payments, refunds>>

Init == /\ pending = {}
        /\ payments = [i \in Ids |-> 0]
        /\ refunds = {}

Request == \E i \in Ids \ (pending \cup refunds) :
               /\ payments[i] = 0
               /\ pending' = pending \cup {i}
               /\ UNCHANGED <<payments, refunds>>

\* A batch pays a set of transfers at once.
Pay == \E S \in (SUBSET pending) \ {{}} :
           /\ pending' = pending \ S
           /\ payments' = [i \in Ids |->
                               IF i \in S THEN payments[i] + 1 ELSE payments[i]]
           /\ UNCHANGED refunds

Refund == \E i \in pending :
              /\ pending' = pending \ {i}
              /\ refunds' = refunds \cup {i}
              /\ UNCHANGED payments

Next == Request \/ Pay \/ Refund

Spec == Init /\ [][Next]_transferVars
=============================================================================
