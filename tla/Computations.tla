---------------------------- MODULE Computations ---------------------------
(***************************************************************************)
(* The parts of the bridge that compute and keep no state of their own:    *)
(* what is signed (Checkpoints), how logs are read (EventDecoding) and     *)
(* what is worth its gas (RelayMarket), beside the parts of Nabt. A        *)
(* behaviour is one of one part; the variables of the others are None.     *)
(***************************************************************************)
EXTENDS GravityPower, Nabt, Sequences, FiniteSets

CONSTANTS EthAddress, GravityId, ContractValsets, Subjects,            \* of Checkpoints
          WordSize, PrefixSize, U64MAX, U32MAX, U8MAX, ValidBytes, OtherBytes, Inputs, Panic,
                                                                       \* of EventDecoding
          Weth, OtherTokens, Offers, GasCosts, Prices,                 \* of RelayMarket
          Err

VARIABLES current, subject, confirms, evidence, outcome,
          event, log, claim,
          item, enabled, price, cost, total, verdict
          \* part, and todo of RelayMarket, are variables of Nabt

signing == <<current, subject, confirms, evidence, outcome>>
decoding == <<event, log, claim>>
market == <<item, enabled, price, cost, total, verdict>>
computations == <<signing, decoding, market>>

Signing == INSTANCE Checkpoints

Decoding == INSTANCE EventDecoding

Market == INSTANCE RelayMarket WITH Others <- OtherTokens, Amounts <- Offers, Costs <- GasCosts

\* What x/nab may issue. The registered Ethereum addresses are valid, a reward
\* without a token has the zero address, all transfers of a batch are of its
\* token, and the id of a call has the length of a bytes32.
Erc20Tokens == [amount : Nat, contract : EthAddress]
BridgeValidators == [power : Nat, ethereum_address : EthAddress]
BatchTransfers == [dest_address : EthAddress, erc20_token : Erc20Tokens, erc20_fee : Erc20Tokens]

IssuedValsets ==
    [nonce : Nat, members : Seq(BridgeValidators), reward_amount : Nat,
     reward_token : EthAddress \cup {Signing!ZERO_ADDRESS}]

IssuedBatches ==
    {b \in [batch_nonce : Nat, batch_timeout : Nat, token_contract : EthAddress,
            transactions : Seq(BatchTransfers)] :
        \A i \in DOMAIN b.transactions :
            /\ b.transactions[i].erc20_token.contract = b.token_contract
            /\ b.transactions[i].erc20_fee.contract = b.token_contract}

IssuedCalls ==
    [transfers : Seq(Erc20Tokens), fees : Seq(Erc20Tokens),
     logic_contract_address : EthAddress, payload : Seq(Nat), timeout : Nat,
     invalidation_id : [1..WordSize -> Nat], invalidation_nonce : Nat]

\* What Gravity.sol may emit (the token of a reward is an address, or None
\* once it is parsed; the destination of a deposit is a word, and less of it
\* once it is parsed), and what is decoded from the data of a valset. Bytes,
\* addresses and numbers are naturals.
Heights == Nat \cup {None}
EmittedValsets(token) ==
    [kind : {"valset"}, valset_nonce : Nat, event_nonce : Nat, block_height : Heights,
     reward_amount : Nat, reward_token : token, members : Seq([eth_address : Nat, power : Nat])]
EmittedBatches ==
    [kind : {"batch"}, batch_nonce : Nat, erc20 : Nat, event_nonce : Nat, block_height : Heights]
EmittedDeposits(destination) ==
    [kind : {"deposit"}, erc20 : Nat, sender : Nat, destination : destination,
     amount : Nat, event_nonce : Nat, block_height : Heights]
EmittedErc20s ==
    [kind : {"erc20"}, erc20 : Nat, cosmos_denom : Seq(Nat), name : Seq(Nat),
     symbol : Seq(Nat), decimals : Nat, event_nonce : Nat, block_height : Heights]

DecodedData ==
    [event_nonce : Nat, reward_amount : Nat, reward_token : Nat \cup {None},
     members : Seq([eth_address : Nat, power : Nat])]

ASSUME AddressAssumption == EthAddress \subseteq Nat \ {Signing!ZERO_ADDRESS}

ASSUME ContractAssumption ==
    /\ ContractValsets \subseteq
          [validators : Seq(EthAddress), powers : Seq(Nat), valsetNonce : Nat,
           rewardAmount : Nat, rewardToken : EthAddress \cup {Signing!ZERO_ADDRESS}]
    /\ \A v \in ContractValsets : Len(v.validators) = Len(v.powers)

ASSUME SubjectAssumption ==
    Subjects \subseteq [kind : {"valset"}, body : IssuedValsets]
                  \cup [kind : {"batch"}, body : IssuedBatches]
                  \cup [kind : {"call"}, body : IssuedCalls]

\* A signature is not the all-zero one; None is not an outcome.
ASSUME SignatureAssumption ==
    /\ \A a \in EthAddress, s \in Subjects : Signing!Sign(a, Signing!GetCheckpoint(s)) # None
    /\ None \notin {"not relayed", "refused", "panic", "malformed", "other checkpoint",
                     "signature does not match"}

\* Err is none of the results of the parser.
ASSUME DecodingAssumption ==
    /\ WordSize \in Nat \ {0} /\ PrefixSize \in 0 .. WordSize - 1
    /\ U64MAX \in Nat /\ U32MAX \in Nat /\ U8MAX \in Nat
    /\ Inputs \subseteq EmittedValsets(Nat) \cup EmittedBatches
                       \cup EmittedDeposits([1..WordSize -> Nat]) \cup EmittedErc20s
    /\ Err \notin EmittedValsets(Nat \cup {None}) \cup EmittedBatches
                    \cup EmittedDeposits(Seq(Nat)) \cup EmittedErc20s \cup DecodedData \cup Seq(Nat)

ASSUME MarketAssumption ==
    /\ Offers \subseteq Nat /\ GasCosts \subseteq Nat /\ Prices \subseteq Nat
    /\ IsFiniteSet(OtherTokens)
    /\ None \notin BOOLEAN

-----------------------------------------------------------------------------
NoSigning ==
    current = None /\ subject = None /\ confirms = None /\ evidence = None /\ outcome = None
NoDecoding == event = None /\ log = None /\ claim = None
NoMarket ==
    /\ item = None /\ enabled = None /\ price = None /\ cost = None
    /\ total = None /\ verdict = None

NoComputation == NoSigning /\ NoDecoding /\ NoMarket

InitComputation ==
    \/ part = "signing" /\ Signing!Init /\ NoDecoding /\ NoMarket /\ todo = None
    \/ part = "decoding" /\ Decoding!Init /\ NoSigning /\ NoMarket /\ todo = None
    \/ part = "market" /\ Market!Init /\ NoSigning /\ NoDecoding

NextComputation ==
    \/ part = "signing" /\ Signing!Next /\ UNCHANGED <<part, decoding, market, todo>>
    \/ part = "decoding" /\ Decoding!Next /\ UNCHANGED <<part, signing, market, todo>>
    \/ part = "market" /\ Market!Next /\ UNCHANGED <<part, signing, decoding>>

NoCommand ==
    /\ NoStartup /\ NoKeys /\ NoDeposit /\ NoWithdrawal /\ NoDeployment
    /\ command = None /\ pool = None /\ cmd = None /\ used = None

allVars == <<computations, vars>>

AllInit == \/ InitComputation /\ NoCommand
           \/ NoComputation /\ Init

AllNext == \/ NextComputation /\ UNCHANGED <<startup, keys, deposit, withdrawal, deployment, shared>>
           \/ Next /\ UNCHANGED computations

AllSpec == AllInit /\ [][AllNext]_allVars

-----------------------------------------------------------------------------
\* Checkpoints: Cosmos, the orchestrator and the contract sign, check and
\* count the same bytes.
EveryoneSignsTheSame == part = "signing" => Signing!EveryoneSignsTheSame

\* Checkpoints: what the relayer's order_sigs finds too weak, the contract's
\* checkValidatorSignatures would refuse.
NothingIsHeldBack == part = "signing" => Signing!NothingIsHeldBack

\* Checkpoints: evidence that was parsed and written again slashes for what
\* was not issued, and for nothing else.
EvidenceIsJudgedRight == part = "signing" => Signing!EvidenceIsJudgedRight

\* EventDecoding: a claim has the fields of the event, or the log is refused.
ClaimsSayWhatHappened == part = "decoding" => Decoding!ClaimsSayWhatHappened

\* RelayMarket: a relayer with a market never pays more than it earns, and
\* relays the batches and calls that are worth their gas.
RelaysWhatPays == part = "market" => Market!RelaysWhatPays
=============================================================================
