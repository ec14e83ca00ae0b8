------------------------------- MODULE Bridge -------------------------------
(***************************************************************************)
(* The bridge: Gravity.sol on Ethereum and x/nab on Cosmos, joined by      *)
(*  - the oracle, which gives every event of the contract to the           *)
(*    EndBlocker, in order and once (EventOracle, implemented by module    *)
(*    Attestations), after any delay;                                      *)
(*  - the relayers, any of whom may submit any batch that was ever built,  *)
(*    at any time: the signatures of a batch stay valid after the batch is *)
(*    deleted on Cosmos.                                                   *)
(***************************************************************************)
EXTENDS NabKeeper, GravityContract

CONSTANTS Amounts,   \* amounts of transfers and deposits
          Fees,      \* bridge fees of transfers
          Rewards    \* rewards for relaying a validator set

ASSUME BridgeAssumption ==
    /\ Amounts \subseteq Nat \ {0}
    /\ Fees \subseteq Nat
    /\ Rewards \subseteq Nat \ {0}

vars == <<keeperVars, contractVars>>

TypeOK == KeeperTypeOK /\ ContractTypeOK

Init == KeeperInit /\ ContractInit

Cosmos ==
    /\ \/ \E a \in Accounts, d \in Denoms, x \in Amounts, f \in Fees :
              SendToEth(a, d, x, f)
       \/ \E a \in Accounts, tx \in pool : CancelSendToEth(a, tx)
       \/ \E t \in Tokens, txs \in SUBSET pool : RequestBatch(t, txs)
       \/ BeginEndBlock
       \/ FinishEndBlock
    /\ UNCHANGED contractVars

Oracle ==
    /\ \E n \in DOMAIN events : ObserveEvent(n, events[n])
    /\ UNCHANGED contractVars

\* A validator set can have a reward in a Cosmos token whose ERC20 Cosmos
\* knows, or none. InitGenesis refuses any other; RewardToERC20Lookup takes
\* vouchers too, so it is assumed that governance sets none: the first such
\* reward that is observed makes Handle panic.
Ethereum ==
    /\ \/ NewEthereumBlock
       \/ \E b \in checkpoints : submitBatch(b)
       \/ \E t \in Tokens, x \in Amounts, r \in Accounts \cup {BadAddress} :
              sendToCosmos(t, x, r)
       \/ \E t \in CosmosTokens \cup {NoToken} : deployERC20(t)
       \/ updateValset(NoToken, 0)
       \/ \E t \in cosmosOriginated, x \in Rewards : updateValset(t, x)
    /\ UNCHANGED keeperVars

Next == Cosmos \/ Oracle \/ Ethereum

Spec == Init /\ [][Next]_vars

\* Consensus goes on producing blocks, and the oracle delivers every event in
\* the end (EveryEventIsApplied of module Attestations).  An event is observed
\* in the tally only, which ends: hence strong fairness.
FairSpec == /\ Spec
            /\ WF_vars(BeginEndBlock /\ UNCHANGED contractVars)
            /\ WF_vars(FinishEndBlock /\ UNCHANGED contractVars)
            /\ SF_vars(Oracle)

\* The bridge with restarts of the Cosmos chain from an exported genesis.
RestartSpec ==
    Init /\ [][Next \/ (RestartFromGenesis /\ UNCHANGED contractVars)]_vars

-----------------------------------------------------------------------------
\* Event i of the contract is the execution of batch b.
Executes(i, b) == /\ events[i].kind = "batch"
                  /\ events[i].token = b.token
                  /\ events[i].nonce = b.nonce

\* The transfers that event i has paid.
PaidBy(i) == UNION {b.txs : b \in {c \in checkpoints : Executes(i, c)}}

\* A transfer is paid on Ethereum at most once, and never when it was refunded
\* on Cosmos: whatever batch times out, is superseded, built again, or
\* submitted late (submitBatch, OutgoingTxBatchExecuted,
\* cleanupTimedOutBatches, RemoveFromOutgoingPoolAndRefund).
NoDoubleSpend ==
    \A i \in DOMAIN events : \A x \in PaidBy(i) :
        /\ x.id \notin refunded
        /\ \A j \in DOMAIN events : \A y \in PaidBy(j) : x.id = y.id => i = j

\* No panic in the EndBlocker: a batch that Ethereum executes is still known
\* on Cosmos, and no transfer returns to the pool twice
\* (OutgoingTxBatchExecuted, CancelOutgoingTXBatch, Handle).
NeverHalts == phase # "halted"

-----------------------------------------------------------------------------
Unobserved == {i \in DOMAIN events : i > lastObservedEventNonce}

\* Transfers whose coins have left the sender and that Ethereum has not paid.
InFlight(t) ==
    {x \in pool \cup UNION {b.txs : b \in batches} :
        x.token = t /\ \A i \in DOMAIN events : x \notin PaidBy(i)}

\* What the given events of a log are worth.
Worth(log, S) == MapThenSumSet(LAMBDA i : log[i].amount, S)

\* Tokens that users gave to the contract and that Cosmos has not credited:
\* the event is not observed yet, or crediting it failed.
Uncredited(t) ==
    Worth(events, {i \in Unobserved \cup failed :
                       events[i].kind = "deposit" /\ events[i].token = t})

UnobservedRewards(t) ==
    Worth(events, {i \in Unobserved : events[i].kind = "valset" /\ events[i].token = t})

Held(b, d) == MapThenSumSet(LAMBDA h : b[<<h, d>>], Accounts \cup {Module})
Supply(d) == Held(bank, d)

\* Every voucher is backed by a token in the contract, and every ERC20 of a
\* Cosmos denom outside of the contract by a locked coin; what is neither on
\* one side nor on the other is in flight.
FullyBacked ==
    /\ \A t \in EthereumTokens \ PermanentSwap :
           escrow[t] = Supply(Voucher(t)) + Total(InFlight(t)) + Uncredited(t)
    /\ \A t \in CosmosTokens :
           bank[<<Module, Native(t)>>] + UnobservedRewards(t) =
               ethUsers[t] + Total(InFlight(t)) + Uncredited(t)

\* Crediting a deposit to an existing account never fails: the module account
\* always holds the coins that the deposit unlocks (HandleSendToCosmos).
DepositsAreCredited ==
    \A n \in failed : \/ events[n].receiver \notin Accounts
                      \/ events[n].kind # "deposit"

-----------------------------------------------------------------------------
TransferIds == 1..MaxTransfers

Pending == {x.id : x \in UNION {InFlight(t) : t \in Tokens}}
Payments == [id \in TransferIds |->
                Cardinality({i \in DOMAIN events : \E x \in PaidBy(i) : x.id = id})]

Promise == INSTANCE Transfers WITH
    Ids <- TransferIds, pending <- Pending, payments <- Payments, refunds <- refunded

\* The bridge implements the promise of module Transfers: a transfer that was
\* accepted is in the pool or in a batch of x/nab until it is paid or refunded.
SettlesTransfers == Promise!Spec

\* A batch that was executed on Ethereum is taken out of x/nab in the end, and
\* the earlier batches of its token with it: again and again Cosmos holds
\* only batches that the contract can still accept. (There are finitely many
\* nonces, and a batch that is gone does not come back.)
ExecutedBatchIsRemoved ==
    []<>(\A b \in batches : b.nonce > lastBatchNonces[b.token])

-----------------------------------------------------------------------------
\* "if so confirm the new batch would have a higher total fees": the batches
\* of a token that wait at the same time are ordered by their fees
\* (BuildOutgoingTXBatch).
WaitingBatchesHaveIncreasingFees ==
    \A b, c \in batches :
        b.token = c.token /\ b.nonce < c.nonce =>
            TotalFees(b.txs) <= TotalFees(c.txs)

\* "If it is a cosmos-originated the coins are in the module (see
\* AddToOutgoingPool) so we can just take them out": a transfer in the pool
\* can be refunded (RemoveFromOutgoingPoolAndRefund).
RefundsAreInTheModule ==
    \A tx \in pool : tx.token \in cosmosOriginated =>
        bank[<<Module, RefundDenom(tx)>>] >= RefundTotal(tx)
=============================================================================
