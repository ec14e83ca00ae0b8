--------------------------- MODULE GravityContract ---------------------------
(***************************************************************************)
(* Gravity.sol on Ethereum.  The signatures of validators are abstract:    *)
(* what the caller passes in carries enough of them.  The holders of       *)
(* tokens on Ethereum are one account.                                     *)
(***************************************************************************)
EXTENDS BridgeData, Sequences

CONSTANTS MaxUint,         \* supply of a CosmosERC20 (2^256 - 1)
          EthereumSupply,  \* supply of an Ethereum token in users' hands
          MaxEvents,       \* bound: events the contract emits
          MaxEthHeight     \* bound: Ethereum blocks

ASSUME ContractAssumption ==
    /\ MaxUint \in Nat /\ EthereumSupply \in Nat
    /\ MaxEvents \in Nat \ {0} /\ MaxEthHeight \in Nat \ {0}

VARIABLES
    ethHeight,         \* block.number
    lastBatchNonces,   \* state_lastBatchNonces
    events,            \* the logs; the index is _eventNonce
    escrow,            \* ERC20 balance of the contract
    ethUsers           \* ERC20 balance of everybody else

contractVars == <<ethHeight, lastBatchNonces, events, escrow, ethUsers>>

ContractTypeOK ==
    /\ ethHeight \in 1..MaxEthHeight
    /\ lastBatchNonces \in [Tokens -> Nat]
    /\ events \in Seq(Events)

Log(kind, token, nonce, amount, receiver) ==
    [kind |-> kind, height |-> ethHeight, token |-> token, nonce |-> nonce,
     amount |-> amount, receiver |-> receiver]

\* The constructor emits the first ValsetUpdatedEvent, with event nonce 1.
ContractInit ==
    /\ ethHeight = 1
    /\ lastBatchNonces = [t \in Tokens |-> 0]
    /\ events = <<[kind |-> "valset", height |-> 1, token |-> NoToken,
                   nonce |-> 0, amount |-> 0, receiver |-> BadAddress]>>
    /\ escrow = [t \in Tokens |-> 0]
    /\ ethUsers = [t \in Tokens |->
                       IF t \in EthereumTokens THEN EthereumSupply ELSE 0]

NewEthereumBlock ==
    /\ ethHeight < MaxEthHeight
    /\ ethHeight' = ethHeight + 1
    /\ UNCHANGED <<lastBatchNonces, events, escrow, ethUsers>>

\* Wrong variant of BatchIsAcceptable: the timeout is not looked at.
BatchNonceIsHigher(b) == lastBatchNonces[b.token] < b.nonce

\* The require()s of submitBatch that do not concern signatures.
BatchIsAcceptable(b) ==
    /\ lastBatchNonces[b.token] < b.nonce
    /\ ethHeight < b.timeout

\* Everything is paid or nothing: a transfer that fails reverts the call.
\* The fees go to the caller.
submitBatch(b) ==
    /\ Len(events) < MaxEvents
    /\ BatchIsAcceptable(b)
    /\ escrow[b.token] >= Total(b.txs)
    /\ lastBatchNonces' = [lastBatchNonces EXCEPT ![b.token] = b.nonce]
    /\ escrow' = [escrow EXCEPT ![b.token] = @ - Total(b.txs)]
    /\ ethUsers' = [ethUsers EXCEPT ![b.token] = @ + Total(b.txs)]
    /\ events' = Append(events, Log("batch", b.token, b.nonce, 0, BadAddress))
    /\ UNCHANGED ethHeight

\* A deposit.  wNOM is burnt, every other token stays in the contract.
sendToCosmos(t, amount, destination) ==
    /\ Len(events) < MaxEvents
    /\ ethUsers[t] >= amount
    /\ ethUsers' = [ethUsers EXCEPT ![t] = @ - amount]
    /\ escrow' = IF t \in PermanentSwap THEN escrow
                 ELSE [escrow EXCEPT ![t] = @ + amount]
    /\ events' = Append(events, Log("deposit", t, 0, amount, destination))
    /\ UNCHANGED <<ethHeight, lastBatchNonces>>

IsDeployed(t) == \E i \in DOMAIN events : /\ events[i].kind = "erc20"
                                          /\ events[i].token = t

\* Anyone may deploy an ERC20 for a denom, any number of times and with any
\* metadata: NoToken stands for metadata that Cosmos does not accept.  The
\* first acceptable one is the contract that is called t, later ones only
\* leave an event.
deployERC20(t) ==
    /\ Len(events) < MaxEvents
    /\ events' = Append(events, Log("erc20", t, 0, 0, BadAddress))
    /\ escrow' = IF t = NoToken \/ IsDeployed(t) THEN escrow
                 ELSE [escrow EXCEPT ![t] = MaxUint]
    /\ UNCHANGED <<ethHeight, lastBatchNonces, ethUsers>>

\* A valset update, which pays a reward to its relayer when it says so.
updateValset(t, reward) ==
    /\ Len(events) < MaxEvents
    /\ IF t = NoToken
       THEN UNCHANGED <<escrow, ethUsers>>
       ELSE /\ escrow[t] >= reward
            /\ escrow' = [escrow EXCEPT ![t] = @ - reward]
            /\ ethUsers' = [ethUsers EXCEPT ![t] = @ + reward]
    /\ events' = Append(events, Log("valset", t, 0, reward, BadAddress))
    /\ UNCHANGED <<ethHeight, lastBatchNonces>>
=============================================================================
