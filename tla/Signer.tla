------------------------------- MODULE Signer -------------------------------
(***************************************************************************)
(* The orchestrator's Ethereum signer against the chain of Slashing. Each  *)
(* round signs all unsigned validator sets in one transaction, then one    *)
(* batch, then one logic call. A transaction waits in the mempool, where   *)
(* the account has room for one: it is delivered, perhaps rounds later, or *)
(* lost. Every query and every broadcast may fail.                         *)
(***************************************************************************)
EXTENDS Slashing

CONSTANTS NoFees,   \* keys of the logic calls without transfers or without fees
          MaxQuery, \* bound of the answer of LastPendingValsetRequestByAddr
          None

VARIABLES pc, mempool

signerVars == <<pc, mempool>>
vars == <<chainVars, confirms, signerVars>>

Init == InitChain /\ pc = "start" /\ mempool = None

\* Wrong variant of LastPendingValsetRequestByAddr: confirmed or not.
LastValsets == {vs \in valsets : Cardinality({w \in valsets : w.key > vs.key}) < MaxQuery}

\* The queries answer from the validator's point of view: at most MaxQuery
\* validator sets, newest first; the last batch and the first call of the
\* store that it has not confirmed.
LastPendingValsetRequestByAddr ==
    LET open == valsets \ confirms
    IN  {vs \in open : Cardinality({w \in open : w.key > vs.key}) < MaxQuery}

LastPendingBatchRequestByAddr ==
    IF batches \subseteq confirms THEN None ELSE Highest(batches \ confirms)

LastPendingLogicCallByAddr ==
    IF calls \subseteq confirms THEN None ELSE Lowest(calls \ confirms)

get_oldest_unsigned_valsets == LastPendingValsetRequestByAddr

get_oldest_unsigned_transaction_batch ==
    LET b == LastPendingBatchRequestByAddr IN IF b = None THEN {} ELSE {b}

\* A call without transfers or fees is an error and not a call.
get_oldest_unsigned_logic_call ==
    LET c == LastPendingLogicCallByAddr
    IN  IF c = None THEN {} ELSE {c} \ {x \in calls : x.key \in NoFees}

-----------------------------------------------------------------------------
(* The signer                                                              *)

After == [valsets |-> "batch", batch |-> "call", call |-> "nodes"]

\* The gravity id is read once; a timeout ends the orchestrator.
get_gravity_id_with_retry ==
    /\ pc = "start"
    /\ pc' \in {"nodes", "stopped"}
    /\ UNCHANGED <<chainVars, confirms, mempool>>

\* Both nodes must answer and the chain must be moving, or the round is over.
CheckNodes ==
    /\ pc = "nodes"
    /\ pc' \in {"nodes", "valsets"}
    /\ UNCHANGED <<chainVars, confirms, mempool>>

\* One transaction with a confirmation of every item, if there are any.
Broadcast(stage, items) ==
    /\ pc = stage
    /\ mempool = None \/ items = {}
    /\ mempool' = IF items = {} THEN mempool ELSE items
    /\ pc' = After[stage]
    /\ UNCHANGED <<chainVars, confirms>>

send_valset_confirms == Broadcast("valsets", get_oldest_unsigned_valsets)
send_batch_confirm == Broadcast("batch", get_oldest_unsigned_transaction_batch)
send_logic_call_confirm == Broadcast("call", get_oldest_unsigned_logic_call)

\* A query, a broadcast or the wait for the transaction ends in an error:
\* it is logged, but a fee or a gas limit that is too low is fatal.
check_for_fee_error ==
    /\ pc \in DOMAIN After
    /\ pc' \in {After[pc], "stopped"}
    /\ UNCHANGED <<chainVars, confirms, mempool>>

Restart == pc = "stopped" /\ pc' = "start" /\ UNCHANGED <<chainVars, confirms, mempool>>

-----------------------------------------------------------------------------
(* The mempool                                                             *)

DeliverTx ==
    /\ mempool # None
    /\ ConfirmAll(mempool)
    /\ mempool' = None
    /\ UNCHANGED <<chainVars, pc>>

LoseTx == mempool # None /\ mempool' = None /\ UNCHANGED <<chainVars, confirms, pc>>

Chain == (StoreBatch \/ SetOutgoingLogicCall \/ EndBlocker) /\ UNCHANGED signerVars

Sign == send_valset_confirms \/ send_batch_confirm \/ send_logic_call_confirm

Next == Chain \/ Sign \/ get_gravity_id_with_retry \/ CheckNodes \/ check_for_fee_error
        \/ Restart \/ DeliverTx \/ LoseTx

Spec == Init /\ [][Next]_vars

\* The nodes answer again and again, the operator restarts the orchestrator
\* with a sufficient fee, and not every transaction is lost.
Fairness ==
    /\ WF_vars(Restart)
    /\ SF_vars(get_gravity_id_with_retry /\ pc' = "nodes")
    /\ SF_vars(CheckNodes /\ pc' = "valsets")
    /\ SF_vars(send_valset_confirms) /\ SF_vars(send_batch_confirm)
    /\ SF_vars(send_logic_call_confirm)
    /\ SF_vars(DeliverTx)

FairSpec == Spec /\ Fairness

-----------------------------------------------------------------------------
(* Properties                                                              *)

\* The query answers with the first call that is not confirmed; one without
\* transfers or fees is an error, and no call behind it is ever seen.
Blocked(x) == x \in calls /\ \E c \in calls : c.key \in NoFees /\ c.key <= x.key

\* Everything the chain wants signed is signed or leaves the store, whatever is
\* lost, delivered late or refused as a whole: again and again nothing is left
\* to sign but, of the logic calls, those that an unreadable one blocks
\* (eth_signer_main_loop). (What is issued is finite here, and a confirmation
\* stays.)
EverythingIsSigned ==
    []<>(\A x \in valsets \cup batches \cup calls : x \in confirms \/ Blocked(x))
=============================================================================
