---------------------------- MODULE CosmosClient -----------------------------
(***************************************************************************)
(* The withdrawal command of the command-line tool, cosmos_to_eth, and the *)
(* library functions it calls: send_to_eth, send_request_batch, and        *)
(* cancel_send_to_eth, with which the sender takes a transfer back.  The   *)
(* chain executes the account's transactions after the command has looked  *)
(* at its balances, or loses them; a run that gave up leaves a transaction *)
(* behind, which still may be executed while the user tries again.         *)
(*                                                                         *)
(* An account has one sequence number, so the chain holds at most one      *)
(* transaction of it: get_message_args reads the committed number, and a   *)
(* second transaction with it is refused.  The bridge fee the command      *)
(* offers, which is also the Cosmos fee of its batch request, is one unit. *)
(***************************************************************************)
EXTENDS Integers, FiniteSets

CONSTANTS Balances,   \* the account's possible coins in the beginning
          Denoms,     \* none of which is part of another's name
          Token,      \* the denom that is sent to Ethereum
          Amounts,    \* what users send
          Fees,       \* the Cosmos fees of the command: coins
          None,       \* model value
          MaxRuns,    \* bound: commands
          MaxCancels, \* bound: transfers taken back
          MaxFaults   \* bound: transactions lost, waits timed out

VARIABLES bal,        \* [Denoms -> Nat]
          represented,\* the chain knows an ERC20 of Token
          pool,       \* transfers in the pool: [id, amount]
          nextId,     \* the id of the next transfer
          tx,         \* the account's transaction in the mempool, or None
          receipt,    \* what became of the last one: None, "ok", "failed"
          cmd,        \* the command: its step, its arguments and, as history,
                      \* whether it was overtaken
          sent,       \* transfers whose id the command has shown
          used        \* how often each bound has been used

chain == <<bal, represented, pool, nextId, tx, receipt>>
vars == <<chain, cmd, sent, used>>

Coin(d, a) == [denom |-> d, amount |-> a]
BridgeFee == 1
Idle == [pc |-> "Idle"]

Init ==
    /\ bal \in Balances
    /\ represented \in BOOLEAN
    /\ pool = {} /\ nextId = 1
    /\ tx = None /\ receipt = None
    /\ cmd = Idle /\ sent = 0
    /\ used = [runs |-> 0, cancels |-> 0, faults |-> 0]

-----------------------------------------------------------------------------
(* The chain                                                               *)

\* The ante handler takes the fee, then the message is executed; a message
\* that fails costs the fee and changes nothing else.
AfterFee(t) == [bal EXCEPT ![t.fee.denom] = @ - t.fee.amount]
CanPay(t) == bal[t.fee.denom] >= t.fee.amount

\* AddToOutgoingPool takes amount and bridge fee from the sender.
SendToEth(t) ==
    LET b == AfterFee(t) IN
    IF represented /\ b[Token] >= t.amount + BridgeFee
    THEN /\ bal' = [b EXCEPT ![Token] = @ - (t.amount + BridgeFee)]
         /\ pool' = pool \cup {[id |-> nextId, amount |-> t.amount]}
         /\ nextId' = nextId + 1
         /\ receipt' = "ok"
    ELSE /\ bal' = b
         /\ receipt' = "failed"
         /\ UNCHANGED <<pool, nextId>>

\* BuildOutgoingTXBatch takes what is in the pool, and fails when nothing is:
\* the fees of a waiting batch read as zero and refuse no other.
RequestBatch(t) ==
    /\ bal' = AfterFee(t)
    /\ receipt' = IF represented /\ pool # {} THEN "ok" ELSE "failed"
    /\ pool' = IF represented THEN {} ELSE pool
    /\ UNCHANGED nextId

\* A transfer that is no longer in the pool is not given back.
CancelSendToEth(t) ==
    LET found == {p \in pool : p.id = t.id}
        back == IF found = {} THEN 0 ELSE BridgeFee + (CHOOSE p \in found : TRUE).amount
    IN /\ bal' = [AfterFee(t) EXCEPT ![Token] = @ + back]
       /\ pool' = pool \ found
       /\ receipt' = IF found = {} THEN "failed" ELSE "ok"
       /\ UNCHANGED nextId

\* A transaction that an earlier command has left overtakes the command that
\* has looked at the balance and not sent its own.
DeliverTx ==
    /\ tx # None
    /\ CanPay(tx)
    /\ CASE tx.kind = "send" -> SendToEth(tx)
         [] tx.kind = "batch" -> RequestBatch(tx)
         [] tx.kind = "cancel" -> CancelSendToEth(tx)
    /\ tx' = None
    /\ cmd' = IF cmd.pc \in {"Send", "Broadcast"} THEN [cmd EXCEPT !.overtaken = TRUE] ELSE cmd
    /\ UNCHANGED <<represented, sent, used>>

LoseTx ==
    /\ tx # None
    /\ used.faults < MaxFaults
    /\ tx' = None
    /\ used' = [used EXCEPT !.faults = @ + 1]
    /\ UNCHANGED <<bal, represented, pool, nextId, receipt, cmd, sent>>

\* send_transaction: CheckTx refuses a fee that cannot be paid and a sequence
\* number that is in use.
Accepted(t) == tx = None /\ CanPay(t)
Broadcast(t) ==
    /\ tx' = t
    /\ receipt' = None
    /\ UNCHANGED <<bal, represented, pool, nextId>>

-----------------------------------------------------------------------------
(* The command                                                             *)

Goto(s) == cmd' = [cmd EXCEPT !.pc = s]
Exit == cmd' = Idle

Start ==
    /\ cmd.pc = "Idle"
    /\ used.runs < MaxRuns
    /\ \E a \in Amounts, f \in Fees, nb \in BOOLEAN :
         cmd' = [pc |-> "Lookup", amount |-> a, fee |-> f, no_batch |-> nb,
                 overtaken |-> FALSE]
    /\ used' = [used EXCEPT !.runs = @ + 1]
    /\ UNCHANGED <<chain, sent>>

denom_to_erc20 ==
    /\ cmd.pc = "Lookup"
    /\ IF represented THEN Goto("Fees") ELSE Exit
    /\ UNCHANGED <<chain, sent, used>>

\* The account lists no coin it has nothing of.
check_for_fee(coin) == bal[coin.denom] > 0 /\ bal[coin.denom] >= coin.amount

CheckFees ==
    /\ cmd.pc = "Fees"
    /\ IF check_for_fee(Coin(Token, cmd.amount)) /\ check_for_fee(cmd.fee)
       THEN Goto("Balance") ELSE Exit
    /\ UNCHANGED <<chain, sent, used>>

CheckBalance ==
    /\ cmd.pc = "Balance"
    /\ IF cmd.amount >= bal[Token] THEN Exit ELSE Goto("Send")
    /\ UNCHANGED <<chain, sent, used>>

\* Wrong variant of TotalAmount: the fee of one transaction.
TotalAmountOneFee == cmd.amount + cmd.fee.amount

\* What send_to_eth wants to find: twice the fee, in the token's denom.
TotalAmount == cmd.amount + 2 * cmd.fee.amount

\* A failed transfer is only logged: the batch is requested all the same.
AfterSend == IF cmd.no_batch THEN Exit ELSE Goto("Batch")

SendTx == [kind |-> "send", amount |-> cmd.amount, fee |-> cmd.fee]

CheckTotal ==
    /\ cmd.pc = "Send"
    /\ IF bal[Token] < TotalAmount THEN AfterSend ELSE Goto("Broadcast")
    /\ UNCHANGED <<chain, sent, used>>

send_to_eth ==
    /\ cmd.pc = "Broadcast"
    /\ \/ Accepted(SendTx) /\ Goto("WaitSend") /\ Broadcast(SendTx)
       \/ ~Accepted(SendTx) /\ AfterSend /\ UNCHANGED chain
    /\ UNCHANGED <<sent, used>>

\* Either the transaction is found in a block and its id is shown, or TIMEOUT
\* passes, with the transaction lost or still waiting.
wait_for_tx ==
    /\ cmd.pc = "WaitSend"
    /\ \/ /\ receipt # None
          /\ AfterSend
          /\ sent' = sent + 1
          /\ UNCHANGED used
       \/ /\ receipt = None /\ tx = None
          /\ AfterSend
          /\ UNCHANGED <<sent, used>>
       \/ /\ tx # None /\ used.faults < MaxFaults
          /\ AfterSend
          /\ used' = [used EXCEPT !.faults = @ + 1]
          /\ UNCHANGED sent
    /\ UNCHANGED chain

BatchTx == [kind |-> "batch", fee |-> Coin(Token, BridgeFee)]

\* expect: the command panics when its request is refused.
send_request_batch ==
    /\ cmd.pc = "Batch"
    /\ \/ Accepted(BatchTx) /\ Goto("WaitBatch") /\ Broadcast(BatchTx)
       \/ ~Accepted(BatchTx) /\ Exit /\ UNCHANGED chain
    /\ UNCHANGED <<sent, used>>

wait_for_batch ==
    /\ cmd.pc = "WaitBatch"
    /\ Exit
    /\ \/ tx = None /\ UNCHANGED used
       \/ /\ tx # None /\ used.faults < MaxFaults
          /\ used' = [used EXCEPT !.faults = @ + 1]
    /\ UNCHANGED <<chain, sent>>

\* The sender takes a transfer back while no command runs.
cancel_send_to_eth ==
    /\ cmd.pc = "Idle"
    /\ used.cancels < MaxCancels
    /\ \E id \in 1 .. nextId - 1, f \in Fees :
         LET t == [kind |-> "cancel", id |-> id, fee |-> f] IN
         Accepted(t) /\ Broadcast(t)
    /\ used' = [used EXCEPT !.cancels = @ + 1]
    /\ UNCHANGED <<cmd, sent>>

Next ==
    \/ DeliverTx \/ LoseTx
    \/ Start \/ denom_to_erc20 \/ CheckFees \/ CheckBalance \/ CheckTotal
    \/ send_to_eth
    \/ wait_for_tx \/ send_request_batch \/ wait_for_batch
    \/ cancel_send_to_eth

Spec == Init /\ [][Next]_vars

-----------------------------------------------------------------------------
(* A transfer whose id the command has shown is in the bridge, though      *)
(* wait_for_tx only says that the transaction is in a block: the checks of *)
(* cosmos_to_eth and send_to_eth cover amount, bridge fee and Cosmos fee.  *)
(* Commands may be repeated at once, so a transaction of an earlier one    *)
(* may still wait; the id is shown in vain only if that one is executed    *)
(* between the checks and the broadcast (before, the checks see it; as     *)
(* long as it waits, the broadcast is refused).                            *)
ShownMeansLocked == [][sent' > sent => receipt = "ok" \/ cmd.overtaken]_vars
=============================================================================
