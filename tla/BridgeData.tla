----------------------------- MODULE BridgeData -----------------------------
(***************************************************************************)
(* What the two sides of the bridge exchange: tokens, transfers to         *)
(* Ethereum, batches of them, and the events of the contract.              *)
(*                                                                         *)
(* An ERC20 contract and the Cosmos denom that it stands for are one       *)
(* token.  Its coins on Cosmos are either vouchers (GravityDenom of the    *)
(* contract) or coins of a native denom.                                   *)
(***************************************************************************)
EXTENDS Integers, FiniteSets, FiniteSetsExt

CONSTANTS
    EthereumTokens,  \* ERC20 contracts that exist on Ethereum
    CosmosTokens,    \* Cosmos denoms that Gravity.sol can deploy an ERC20 for
    PermanentSwap,   \* wNOM: the Ethereum token that is swapped for a native
                     \* denom (Erc20ToDenomPermanentSwap, wNomAddress)
    NoToken,         \* not a token
    Accounts,        \* the users of Cosmos
    Module,          \* the module account of x/nab
    BadAddress       \* a destination that is no Cosmos address

ASSUME BridgeDataAssumption ==
    /\ EthereumTokens \cap CosmosTokens = {}
    /\ PermanentSwap \subseteq EthereumTokens
    /\ NoToken \notin EthereumTokens \cup CosmosTokens
    /\ IsFiniteSet(Accounts)
    /\ Module \notin Accounts
    /\ BadAddress \notin Accounts

Tokens == EthereumTokens \cup CosmosTokens

Voucher(t) == <<"voucher", t>>
Native(t) == <<"native", t>>
Denoms == {Voucher(t) : t \in Tokens} \cup {Native(t) : t \in Tokens}

\* A transfer to Ethereum.
OutgoingTransferTx == [id : Nat, sender : Accounts, token : Tokens,
                       amount : Nat, fee : Nat]

\* A batch.  Nothing depends on the order of its transactions.
OutgoingTxBatch == [nonce : Nat, token : Tokens,
                    txs : SUBSET OutgoingTransferTx, timeout : Nat]

\* An event of Gravity.sol and the claim that orchestrators make of it.
Events == [kind : {"deposit", "batch", "erc20", "valset"},
           height : Nat, token : Tokens \cup {NoToken}, nonce : Nat,
           amount : Nat, receiver : Accounts \cup {BadAddress}]

\* What the transfers of a set take from their senders, and the part of it
\* that is for the relayer.
Total(txs) == MapThenSumSet(LAMBDA x : x.amount + x.fee, txs)
TotalFees(txs) == MapThenSumSet(LAMBDA x : x.fee, txs)
=============================================================================
