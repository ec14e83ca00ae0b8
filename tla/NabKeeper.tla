------------------------------ MODULE NabKeeper ------------------------------
(***************************************************************************)
(* The Cosmos side of the bridge: the pool of transfers to Ethereum, the   *)
(* batches built from it, the denoms, and what the EndBlocker does with an *)
(* event of Gravity.sol that the oracle has observed.  How events get      *)
(* observed is module Attestations; here they arrive in the order of their *)
(* nonces, once each (EventOracle).                                        *)
(*                                                                         *)
(* A message is executed in phase "deliverTx", and has no effect when it   *)
(* fails or panics.  The EndBlocker is phase "tally"; a panic in it stops  *)
(* the chain: "halted".                                                    *)
(***************************************************************************)
EXTENDS BridgeData

CONSTANTS
    OutgoingTxBatchSize,       \* 50
    AverageBlockTime,          \* params, in milliseconds
    AverageEthereumBlockTime,
    TargetBatchTimeout,
    InitialCoins,              \* native coins of an account at genesis
    MaxTransfers,              \* bound: calls of SendToEth
    MaxBatches,                \* bound: batches built
    MaxBlockHeight             \* bound: the block height stops counting here

ASSUME KeeperAssumption ==
    /\ OutgoingTxBatchSize \in Nat \ {0}
    /\ AverageBlockTime \in Nat
    /\ AverageEthereumBlockTime \in Nat \ {0}
    /\ TargetBatchTimeout \in Nat
    /\ InitialCoins \in Nat
    /\ MaxTransfers \in Nat /\ MaxBatches \in Nat
    /\ MaxBlockHeight \in Nat \ {0}

VARIABLES
    bank,                   \* coins by holder and denom (bank module)
    pool,                   \* OutgoingTXPoolKey: the unbatched transfers
    batches,                \* OutgoingTXBatchKey: the batches
    checkpoints,            \* PastEthSignatureCheckpointKey: the batches ever
                            \* built, which validators may have signed
    nextTXID,               \* KeyLastTXPoolID
    nextBatchID,            \* KeyLastOutgoingBatchID
    cosmosOriginated,       \* ERC20ToDenomKey: tokens with a known contract
    lastObservedEventNonce, \* LastObservedEventNonceKey
    observedHeights,        \* LastObservedEthereumBlockHeightKey
    blockHeight,
    phase,
    refunded,               \* ids of the transfers that were cancelled
    failed                  \* nonces of the events whose attestation failed

poolVars == <<pool, batches, checkpoints, nextTXID, nextBatchID, refunded>>
chainVars == <<cosmosOriginated, lastObservedEventNonce, observedHeights,
               blockHeight, phase, failed>>
keeperVars == <<bank, poolVars, chainVars>>

KeeperTypeOK ==
    /\ pool \subseteq OutgoingTransferTx
    /\ batches \subseteq OutgoingTxBatch
    /\ checkpoints \subseteq OutgoingTxBatch
    /\ nextTXID \in Nat \ {0}
    /\ nextBatchID \in Nat \ {0}
    /\ cosmosOriginated \subseteq CosmosTokens
    /\ lastObservedEventNonce \in Nat
    /\ observedHeights \in [cosmos : Nat, ethereum : Nat]
    /\ blockHeight \in 1..MaxBlockHeight
    /\ phase \in {"deliverTx", "tally", "halted"}
    /\ refunded \subseteq Nat
    /\ failed \subseteq Nat

KeeperInit ==
    /\ bank = [hd \in (Accounts \cup {Module}) \X Denoms |->
                   IF hd[1] \in Accounts /\ hd[2] \in {Native(t) : t \in CosmosTokens}
                   THEN InitialCoins ELSE 0]
    /\ pool = {} /\ batches = {} /\ checkpoints = {}
    /\ nextTXID = 1 /\ nextBatchID = 1
    /\ cosmosOriginated = {}
    /\ lastObservedEventNonce = 0
    /\ observedHeights = [cosmos |-> 0, ethereum |-> 0]
    /\ blockHeight = 1
    /\ phase = "deliverTx"
    /\ refunded = {} /\ failed = {}

-----------------------------------------------------------------------------
(* The bank module. *)
Mint(b, h, d, a) == [b EXCEPT ![<<h, d>>] = @ + a]
Burn(b, h, d, a) == [b EXCEPT ![<<h, d>>] = @ - a]
Send(b, from, to, d, a) == Mint(Burn(b, from, d, a), to, d, a)

-----------------------------------------------------------------------------
(* The pool. *)

\* The denoms for which DenomToERC20Lookup finds a contract: vouchers, and
\* the denoms that an ERC20 was deployed for.
HasERC20(d) == d[1] = "voucher" \/ d[2] \in cosmosOriginated

\* The index of the pool: GetOutgoingTxPoolKey.
PoolKey(tx) == <<tx.token, tx.fee, tx.id>>

\* The error of addUnbatchedTX is not looked at by AddToOutgoingPool.
AddUnbatchedTX(tx) ==
    IF \E u \in pool : PoolKey(u) = PoolKey(tx) THEN pool ELSE pool \cup {tx}

\* Vouchers are burnt, native coins are locked in the module account.
AddToOutgoingPool(sender, d, amount, fee) ==
    /\ HasERC20(d)
    /\ bank[<<sender, d>>] >= amount + fee
    /\ bank' = IF d[1] = "voucher" THEN Burn(bank, sender, d, amount + fee)
               ELSE Send(bank, sender, Module, d, amount + fee)
    /\ pool' = AddUnbatchedTX([id |-> nextTXID, sender |-> sender,
                               token |-> d[2], amount |-> amount, fee |-> fee])
    /\ nextTXID' = nextTXID + 1

SendToEth(sender, d, amount, fee) ==
    /\ phase = "deliverTx"
    /\ nextTXID <= MaxTransfers
    /\ AddToOutgoingPool(sender, d, amount, fee)
    /\ UNCHANGED <<batches, checkpoints, nextBatchID, refunded, chainVars>>

\* GravityCoin: the refund is in vouchers, whatever the token is.
RefundDenom(tx) == Voucher(tx.token)

\* Wrong variant of RefundTotal: the fee is kept.
RefundWithoutFee(tx) == tx.amount

RefundTotal(tx) == tx.amount + tx.fee

RemoveFromOutgoingPoolAndRefund(tx, sender) ==
    LET d == RefundDenom(tx)
        total == RefundTotal(tx)
    IN  /\ tx.sender = sender
        /\ pool' = pool \ {tx}
        /\ tx.token \in cosmosOriginated => bank[<<Module, d>>] >= total
        /\ bank' = IF tx.token \in cosmosOriginated
                   THEN Send(bank, Module, sender, d, total)
                   ELSE Mint(bank, sender, d, total)
        /\ refunded' = refunded \cup {tx.id}

CancelSendToEth(sender, tx) ==
    /\ phase = "deliverTx"
    /\ RemoveFromOutgoingPoolAndRefund(tx, sender)
    /\ UNCHANGED <<batches, checkpoints, nextTXID, nextBatchID, chainVars>>

-----------------------------------------------------------------------------
(* The batches. *)

PoolOf(t) == {tx \in pool : tx.token = t}

\* The order in which the pool is iterated: fee, then id, both descending.
Precedes(x, y) == x.fee > y.fee \/ (x.fee = y.fee /\ x.id > y.id)

\* Wrong variant of IsFirstOfPool: the token of a transfer is not looked at.
IsFirstOfWholePool(t, txs) ==
    /\ \A x \in txs, y \in pool \ txs : Precedes(x, y)
    /\ Cardinality(txs) <= OutgoingTxBatchSize
    /\ txs = pool \/ Cardinality(txs) = OutgoingTxBatchSize

\* pickUnbatchedTX: the first OutgoingTxBatchSize transfers of the pool.
IsFirstOfPool(t, txs) ==
    /\ txs \subseteq PoolOf(t)
    /\ \A x \in txs, y \in PoolOf(t) \ txs : Precedes(x, y)
    /\ Cardinality(txs) <= OutgoingTxBatchSize
    /\ txs = PoolOf(t) \/ Cardinality(txs) = OutgoingTxBatchSize

\* GetFees throws the sum of the fees away.
GetFees(b) == 0

GetBatchFeeByTokenType(txs) == TotalFees(txs)

\* The batch of t with the highest nonce, if there is one, must not have had
\* more fees than the new one would have.
IsMoreProfitable(t, txs) ==
    \A b \in batches :
        b.token = t /\ (\A c \in batches : c.token = t => c.nonce <= b.nonce)
            => ~(GetFees(b) > GetBatchFeeByTokenType(txs))

\* The time since the last event was observed.
ProjectedMillis ==
    (blockHeight - observedHeights.cosmos) * AverageBlockTime

getBatchTimeoutHeight ==
    IF observedHeights.cosmos = 0 \/ observedHeights.ethereum = 0 THEN 0
    ELSE (ProjectedMillis \div AverageEthereumBlockTime)
             + observedHeights.ethereum
             + (TargetBatchTimeout \div AverageEthereumBlockTime)

\* A batch is stored under its token and nonce.
StoreBatch(b) ==
    batches' = {c \in batches : ~(c.token = b.token /\ c.nonce = b.nonce)}
                   \cup {b}

BuildOutgoingTXBatch(t, txs) ==
    LET b == [nonce |-> nextBatchID, token |-> t, txs |-> txs,
              timeout |-> getBatchTimeoutHeight]
    IN  /\ IsFirstOfPool(t, txs)
        /\ IsMoreProfitable(t, txs)
        /\ txs # {}
        /\ pool' = pool \ txs
        /\ nextBatchID' = nextBatchID + 1
        /\ StoreBatch(b)
        /\ checkpoints' = checkpoints \cup {b}

RequestBatch(t, txs) ==
    /\ phase = "deliverTx"
    /\ nextBatchID <= MaxBatches
    /\ t \in CosmosTokens => t \in cosmosOriginated
    /\ BuildOutgoingTXBatch(t, txs)
    /\ UNCHANGED <<bank, nextTXID, refunded, chainVars>>

\* CancelOutgoingTXBatch panics when a transfer is already in the pool.
CanReturnToPool(cancelled) ==
    /\ \A b \in cancelled, u \in pool : \A x \in b.txs : PoolKey(x) # PoolKey(u)
    /\ \A b, c \in cancelled : b # c =>
           \A x \in b.txs, y \in c.txs : PoolKey(x) # PoolKey(y)

\* Wrong variant of RemoveBatches: the transfers are deleted with the batches.
RemoveBatchesAndTransfers(cancelled, done, nextPhase) ==
    /\ pool' = pool
    /\ batches' = batches \ (cancelled \cup done)
    /\ phase' = nextPhase

\* The batches in cancelled give their transfers back to the pool; they and
\* the ones in done are deleted.
RemoveBatches(cancelled, done, nextPhase) ==
    IF CanReturnToPool(cancelled)
    THEN /\ pool' = pool \cup UNION {b.txs : b \in cancelled}
         /\ batches' = batches \ (cancelled \cup done)
         /\ phase' = nextPhase
    ELSE /\ phase' = "halted"
         /\ UNCHANGED <<pool, batches>>

-----------------------------------------------------------------------------
(* AttestationHandler.Handle, and the EndBlocker around it. *)

\* ERC20ToDenomLookup, and the permanent swap: the coins of a Cosmos token
\* are unlocked, all others are minted.
IsUnlocked(t) == t \in cosmosOriginated

\* Wrong variant of DepositDenom: every deposit is in vouchers.
AlwaysVoucher(t) == Voucher(t)

DepositDenom(t) ==
    IF t \in cosmosOriginated \cup PermanentSwap THEN Native(t) ELSE Voucher(t)

\* processAttestation drops what a failed Handle has written.
HandleSendToCosmos(n, e) ==
    LET d == DepositDenom(e.token)
        unlock == IsUnlocked(e.token)
        ok == /\ e.receiver \in Accounts
              /\ unlock => bank[<<Module, d>>] >= e.amount
    IN  /\ bank' = IF ~ok THEN bank
                   ELSE IF unlock THEN Send(bank, Module, e.receiver, d, e.amount)
                   ELSE Mint(bank, e.receiver, d, e.amount)
        /\ failed' = IF ok THEN failed ELSE failed \cup {n}
        /\ UNCHANGED <<pool, batches, cosmosOriginated, phase>>

\* Wrong variants of EarlierBatches: batches of all tokens, and none.
EarlierBatchesOfAllTokens(e) == {b \in batches : b.nonce < e.nonce}
NoEarlierBatches(e) == {}

EarlierBatches(e) == {b \in batches : b.token = e.token /\ b.nonce < e.nonce}

\* OutgoingTxBatchExecuted.  An unknown batch is a panic; the earlier batches
\* of the token can no longer be executed and are cancelled.
HandleBatchSendToEth(n, e) ==
    LET executed == {b \in batches : b.token = e.token /\ b.nonce = e.nonce}
    IN  /\ IF executed # {}
           THEN RemoveBatches(EarlierBatches(e), executed, phase)
           ELSE phase' = "halted" /\ UNCHANGED <<pool, batches>>
        /\ UNCHANGED <<bank, cosmosOriginated, failed>>

\* Wrong variant of HandleERC20Deployed: the metadata is not looked at.
HandleAnyERC20Deployed(n, e) ==
    LET ok == e.token \notin cosmosOriginated
    IN  /\ cosmosOriginated' = IF ok THEN cosmosOriginated \cup {e.token}
                               ELSE cosmosOriginated
        /\ failed' = IF ok THEN failed ELSE failed \cup {n}
        /\ UNCHANGED <<bank, pool, batches, phase>>

\* The first ERC20 of a denom whose metadata match is adopted.
HandleERC20Deployed(n, e) ==
    LET ok == e.token \in CosmosTokens \ cosmosOriginated
    IN  /\ cosmosOriginated' = IF ok THEN cosmosOriginated \cup {e.token}
                               ELSE cosmosOriginated
        /\ failed' = IF ok THEN failed ELSE failed \cup {n}
        /\ UNCHANGED <<bank, pool, batches, phase>>

\* Wrong variant of HandleValsetUpdated: the reward is not minted.
HandleValsetUpdatedWithoutMint(n, e) ==
    UNCHANGED <<bank, pool, batches, cosmosOriginated, failed, phase>>

\* The reward that left the contract is minted into the module account, from
\* where a later deposit of it is unlocked.  Other tokens cannot be rewards.
HandleValsetUpdated(n, e) ==
    /\ bank' = IF e.amount > 0 /\ e.token \in cosmosOriginated
               THEN Mint(bank, Module, Native(e.token), e.amount) ELSE bank
    /\ phase' = IF e.amount > 0 /\ e.token # NoToken
                                /\ e.token \notin cosmosOriginated
                THEN "halted" ELSE phase
    /\ UNCHANGED <<pool, batches, cosmosOriginated, failed>>

\* Nothing in x/nab makes a logic call, so the default case is left out.
Handle(n, e) ==
    \/ e.kind = "deposit" /\ HandleSendToCosmos(n, e)
    \/ e.kind = "batch" /\ HandleBatchSendToEth(n, e)
    \/ e.kind = "erc20" /\ HandleERC20Deployed(n, e)
    \/ e.kind = "valset" /\ HandleValsetUpdated(n, e)

BeginEndBlock ==
    /\ phase = "deliverTx"
    /\ phase' = "tally"
    /\ UNCHANGED <<bank, poolVars, cosmosOriginated, lastObservedEventNonce,
                   observedHeights, blockHeight, failed>>

\* TryAttestation, for an attestation that has the votes.
ObserveEvent(n, e) ==
    /\ phase = "tally"
    /\ n = lastObservedEventNonce + 1
    /\ lastObservedEventNonce' = n
    /\ observedHeights' = [cosmos |-> blockHeight, ethereum |-> e.height]
    /\ Handle(n, e)
    /\ UNCHANGED <<checkpoints, nextTXID, nextBatchID, refunded, blockHeight>>

\* Wrong variant of IsTimedOut: the height is projected to the present.
IsTimedOutByProjection(b) ==
    b.timeout < observedHeights.ethereum
                    + ProjectedMillis \div AverageEthereumBlockTime

IsTimedOut(b) == b.timeout < observedHeights.ethereum

\* cleanupTimedOutBatches, then the next block begins.
FinishEndBlock ==
    LET timedOut == {b \in batches : IsTimedOut(b)}
    IN  /\ phase = "tally"
        /\ RemoveBatches(timedOut, {}, "deliverTx")
        /\ blockHeight' = IF blockHeight < MaxBlockHeight THEN blockHeight + 1
                          ELSE blockHeight
        /\ UNCHANGED <<bank, checkpoints, nextTXID, nextBatchID, refunded,
                       cosmosOriginated, lastObservedEventNonce,
                       observedHeights, failed>>

-----------------------------------------------------------------------------
\* ExportGenesis and InitGenesis between two blocks.  The counters of
\* transfers and batches and the observed heights are not exported.
RestartFromGenesis ==
    /\ phase = "deliverTx"
    /\ nextTXID' = 1
    /\ nextBatchID' = 1
    /\ observedHeights' = [cosmos |-> 0, ethereum |-> 0]
    /\ UNCHANGED <<bank, pool, batches, checkpoints, refunded, cosmosOriginated,
                   lastObservedEventNonce, blockHeight, phase, failed>>
=============================================================================
