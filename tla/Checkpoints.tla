---------------------------- MODULE Checkpoints ----------------------------
(***************************************************************************)
(* What the validators sign. Cosmos issues a validator set, a batch or a   *)
(* logic call; an orchestrator parses it, encodes it and signs; Cosmos     *)
(* checks the signature against its own encoding; a relayer parses it      *)
(* again, puts the signatures in the order of the contract's validator set *)
(* and builds a transaction; the contract encodes what it was sent once    *)
(* more and counts the power behind the signatures. Four encodings of the  *)
(* same thing, in three languages, must agree field by field.              *)
(*                                                                         *)
(* A hash is modelled by what is hashed. A signature is the pair of its    *)
(* signer and the hash. Numbers that only travel are small integers.       *)
(***************************************************************************)
EXTENDS GravityPower, Sequences, FiniteSets, SequencesExt, FiniteSetsExt

CONSTANTS EthAddress,      \* addresses, positive integers
          GravityId,       \* gravityId of the contract and of the params
          ContractValsets, \* validator sets the contract may hold
          Subjects,        \* what Cosmos may issue
          WordSize,        \* bytes of a bytes32
          None,            \* Option::None; also an all-zero signature
          Err              \* a GravityError

VARIABLES current,   \* the validator set of the contract, as ValsetArgs
          subject,   \* what Cosmos has issued
          confirms,  \* the confirmations Cosmos has stored
          evidence,  \* the subject of the last evidence, None after another step
          outcome    \* how the last confirmation, transaction or evidence ended

vars == <<current, subject, confirms, evidence, outcome>>

ZERO_ADDRESS == 0

Sign(a, hash) == [signer |-> a, hash |-> hash]

\* Every field of the records of a sequence, in order.
Field(records, Get(_)) == [i \in DOMAIN records |-> Get(records[i])]
SumSeq(numbers) == FoldFunction(+, 0, numbers)
Amounts(tokens) == Field(tokens, LAMBDA t : t.amount)
Contracts(tokens) == Field(tokens, LAMBDA t : t.contract)

-----------------------------------------------------------------------------
(* Cosmos                                                                  *)

ValsetGetCheckpoint(v) ==
    <<GravityId, "checkpoint", v.nonce, Field(v.members, LAMBDA m : m.ethereum_address),
      Field(v.members, LAMBDA m : m.power), v.reward_amount, v.reward_token>>

BatchGetCheckpoint(b) ==
    <<GravityId, "transactionBatch", Field(b.transactions, LAMBDA t : t.erc20_token.amount),
      Field(b.transactions, LAMBDA t : t.dest_address),
      Field(b.transactions, LAMBDA t : t.erc20_fee.amount),
      b.batch_nonce, b.token_contract, b.batch_timeout>>

\* copy into a [32]byte: cut off behind its end, zeros where there is nothing.
Bytes32(bytes) == [i \in 1..WordSize |-> IF i \in DOMAIN bytes THEN bytes[i] ELSE 0]

LogicCallGetCheckpoint(c) ==
    <<GravityId, "logicCall", Amounts(c.transfers), Contracts(c.transfers),
      Amounts(c.fees), Contracts(c.fees), c.logic_contract_address, c.payload,
      c.timeout, Bytes32(c.invalidation_id), c.invalidation_nonce>>

GetCheckpoint(s) ==
    CASE s.kind = "valset" -> ValsetGetCheckpoint(s.body)
      [] s.kind = "batch" -> BatchGetCheckpoint(s.body)
      [] s.kind = "call" -> LogicCallGetCheckpoint(s.body)

\* A confirmation is stored if it is the first of its signer and if the
\* signature is over what Cosmos itself would have signed.
confirmHandlerCommon(confirm) ==
    /\ confirm.signature.hash = GetCheckpoint(subject)
    /\ confirm.signature.signer = confirm.eth_address

\* Evidence of a bad signature is refused for anything Cosmos has issued.
checkBadSignatureEvidenceInternal(s, signature) ==
    IF GetCheckpoint(s) = GetCheckpoint(subject) THEN "checkpoint exists"
    ELSE IF signature.hash = GetCheckpoint(s) THEN "slashed"
    ELSE "unknown signer"

-----------------------------------------------------------------------------
(* The orchestrator's types: From, TryFrom and Into the protobuf types     *)

ValsetFrom(v) ==
    [nonce |-> v.nonce,
     members |-> Field(v.members, LAMBDA m :
         [power |-> m.power,
          eth_address |-> IF m.ethereum_address \in EthAddress
                          THEN m.ethereum_address ELSE None]),
     reward_amount |-> v.reward_amount,
     reward_token |-> IF v.reward_token = ZERO_ADDRESS THEN None ELSE v.reward_token]

ValsetInto(v) ==
    [nonce |-> v.nonce,
     members |-> Field(v.members, LAMBDA m :
         [power |-> m.power, ethereum_address |-> m.eth_address]),
     reward_amount |-> v.reward_amount,
     reward_token |-> IF v.reward_token = None THEN ZERO_ADDRESS ELSE v.reward_token]

BatchTransactionFrom(tx) ==
    [destination |-> tx.dest_address, erc20_token |-> tx.erc20_token,
     erc20_fee |-> tx.erc20_fee]

\* The token contract is that of the first transaction's fee.
TransactionBatchFrom(b) ==
    IF b.transactions = <<>> THEN Err
    ELSE [nonce |-> b.batch_nonce,
          batch_timeout |-> b.batch_timeout,
          transactions |-> Field(b.transactions, BatchTransactionFrom),
          total_fee |-> SumSeq(Field(b.transactions, LAMBDA t : t.erc20_fee.amount)),
          token_contract |-> b.transactions[1].erc20_fee.contract]

\* Wrong variant of TransactionBatchInto: a dummy timeout next to the dummy block.
BatchIntoNoTimeout(b) ==
    [batch_nonce |-> b.nonce, batch_timeout |-> 0,
     transactions |-> Field(b.transactions, LAMBDA t :
         [dest_address |-> t.destination, erc20_token |-> t.erc20_token,
          erc20_fee |-> t.erc20_fee]),
     token_contract |-> b.token_contract]

\* The block of the batch is not signed and not kept.
TransactionBatchInto(b) ==
    [batch_nonce |-> b.nonce, batch_timeout |-> b.batch_timeout,
     transactions |-> Field(b.transactions, LAMBDA t :
         [dest_address |-> t.destination, erc20_token |-> t.erc20_token,
          erc20_fee |-> t.erc20_fee]),
     token_contract |-> b.token_contract]

LogicCallFrom(c) == IF c.transfers = <<>> \/ c.fees = <<>> THEN Err ELSE c

LogicCallInto(c) == c

Parse(s) ==
    CASE s.kind = "valset" -> ValsetFrom(s.body)
      [] s.kind = "batch" -> TransactionBatchFrom(s.body)
      [] s.kind = "call" -> LogicCallFrom(s.body)

\* What the orchestrator sends back to Cosmos as evidence.
Unparse(s) ==
    [kind |-> s.kind,
     body |-> CASE s.kind = "valset" -> ValsetInto(Parse(s))
                [] s.kind = "batch" -> TransactionBatchInto(Parse(s))
                [] s.kind = "call" -> LogicCallInto(Parse(s))]

-----------------------------------------------------------------------------
(* What the orchestrator signs                                             *)

filter_empty_addresses(v) ==
    [addresses |-> Field(v.members, LAMBDA m :
         IF m.eth_address = None THEN ZERO_ADDRESS ELSE m.eth_address),
     powers |-> Field(v.members, LAMBDA m : m.power)]

\* Wrong variant of get_checkpoint_values: fees where the amounts belong.
checkpoint_values_swapped(b) ==
    [amounts |-> Field(b.transactions, LAMBDA t : t.erc20_fee.amount),
     destinations |-> Field(b.transactions, LAMBDA t : t.destination),
     fees |-> Field(b.transactions, LAMBDA t : t.erc20_token.amount)]

get_checkpoint_values(b) ==
    [amounts |-> Field(b.transactions, LAMBDA t : t.erc20_token.amount),
     destinations |-> Field(b.transactions, LAMBDA t : t.destination),
     fees |-> Field(b.transactions, LAMBDA t : t.erc20_fee.amount)]

encode_valset_confirm_hashed(v) ==
    LET f == filter_empty_addresses(v)
    IN  <<GravityId, "checkpoint", v.nonce, f.addresses, f.powers, v.reward_amount,
          IF v.reward_token = None THEN ZERO_ADDRESS ELSE v.reward_token>>

encode_tx_batch_confirm_hashed(b) ==
    LET values == get_checkpoint_values(b)
    IN  <<GravityId, "transactionBatch", values.amounts, values.destinations,
          values.fees, b.nonce, b.token_contract, b.batch_timeout>>

encode_logic_call_confirm_hashed(c) ==
    <<GravityId, "logicCall", Amounts(c.transfers), Contracts(c.transfers),
      Amounts(c.fees), Contracts(c.fees), c.logic_contract_address, c.payload,
      c.timeout, c.invalidation_id, c.invalidation_nonce>>

Hash(kind, body) ==
    CASE kind = "valset" -> encode_valset_confirm_hashed(body)
      [] kind = "batch" -> encode_tx_batch_confirm_hashed(body)
      [] kind = "call" -> encode_logic_call_confirm_hashed(body)

-----------------------------------------------------------------------------
(* The relayer's transaction                                               *)

\* The last confirmation of an address wins; there is only one of each.
get_hashmap(signatures) ==
    [a \in {c.eth_address : c \in signatures} |->
        CHOOSE c \in signatures : c.eth_address = a]

recover(signature, hash) == IF signature.hash = hash THEN signature.signer ELSE None

\* One entry for each member, in the order of the members; a panic if a
\* confirmation does not recover to its address.
get_signature_status(v, hash, signatures) ==
    LET map == get_hashmap(signatures)
        Entry(m) ==
            [power |-> m.power,
             eth_address |-> IF m.eth_address = None THEN ZERO_ADDRESS ELSE m.eth_address,
             sig |-> IF m.eth_address \in DOMAIN map THEN map[m.eth_address].signature
                     ELSE None]
        ordered == Field(v.members, Entry)
    IN  [ordered_signatures |-> ordered,
         power_of_good_sigs |-> SumSeq(Field(ordered, LAMBDA e :
                                    IF e.sig = None THEN 0 ELSE e.power)),
         panics |-> \E i \in DOMAIN ordered :
                        /\ ordered[i].sig # None
                        /\ recover(ordered[i].sig, hash) # ordered[i].eth_address]

order_sigs(v, hash, signatures) ==
    LET status == get_signature_status(v, hash, signatures)
    IN  [sigs |-> status.ordered_signatures,
         result |-> IF signatures = {} THEN "error"
                    ELSE IF status.panics THEN "panic"
                    ELSE IF EnoughPercent(status.power_of_good_sigs) THEN "ok" ELSE "error"]

to_arrays(sigs) == Field(sigs, LAMBDA e : e.sig)

encode_valset_struct(v) ==
    LET f == filter_empty_addresses(v)
    IN  [validators |-> f.addresses, powers |-> f.powers, valsetNonce |-> v.nonce,
         rewardAmount |-> v.reward_amount,
         rewardToken |-> IF v.reward_token = None THEN ZERO_ADDRESS ELSE v.reward_token]

BatchArgs(b) ==
    LET values == get_checkpoint_values(b)
    IN  [amounts |-> values.amounts, destinations |-> values.destinations,
         fees |-> values.fees, batchNonce |-> b.nonce, tokenContract |-> b.token_contract,
         batchTimeout |-> b.batch_timeout]

LogicCallArgs(c) ==
    [transferAmounts |-> Amounts(c.transfers), transferTokenContracts |-> Contracts(c.transfers),
     feeAmounts |-> Amounts(c.fees), feeTokenContracts |-> Contracts(c.fees),
     logicContractAddress |-> c.logic_contract_address, payload |-> c.payload,
     timeOut |-> c.timeout, invalidationId |-> c.invalidation_id,
     invalidationNonce |-> c.invalidation_nonce]

Payload(v, kind, body, sigs) ==
    [currentValset |-> encode_valset_struct(v), sigs |-> to_arrays(sigs), kind |-> kind,
     args |-> CASE kind = "valset" -> encode_valset_struct(body)
                [] kind = "batch" -> BatchArgs(body)
                [] kind = "call" -> LogicCallArgs(body)]

\* The relayer learns the contract's validator set from its last event.
EventValset(args) ==
    [nonce |-> args.valsetNonce,
     members |-> [i \in DOMAIN args.validators |->
         [power |-> args.powers[i], eth_address |-> args.validators[i]]],
     reward_amount |-> args.rewardAmount,
     reward_token |-> IF args.rewardToken = ZERO_ADDRESS THEN None ELSE args.rewardToken]

-----------------------------------------------------------------------------
(* The contract                                                            *)

makeCheckpoint(args) ==
    <<GravityId, "checkpoint", args.valsetNonce, args.validators, args.powers,
      args.rewardAmount, args.rewardToken>>

batchHash(a) ==
    <<GravityId, "transactionBatch", a.amounts, a.destinations, a.fees, a.batchNonce,
      a.tokenContract, a.batchTimeout>>

logicCallHash(a) ==
    <<GravityId, "logicCall", a.transferAmounts, a.transferTokenContracts, a.feeAmounts,
      a.feeTokenContracts, a.logicContractAddress, a.payload, a.timeOut,
      a.invalidationId, a.invalidationNonce>>

theHash(tx) ==
    CASE tx.kind = "valset" -> makeCheckpoint(tx.args)
      [] tx.kind = "batch" -> batchHash(tx.args)
      [] tx.kind = "call" -> logicCallHash(tx.args)

\* Signatures are checked in order until they have more than the threshold.
checkValidatorSignatures(valset, sigs, hash) ==
    LET signed == {i \in DOMAIN sigs : sigs[i] # None}
        power(S) == MapThenSumSet(LAMBDA i : valset.powers[i], S)
        checked == {i \in signed : ~ ExceedsThreshold(power({j \in signed : j < i}))}
    IN  IF \E i \in checked : sigs[i] # Sign(valset.validators[i], hash)
        THEN "signature does not match"
        ELSE IF ExceedsThreshold(power(signed)) THEN "accepted" ELSE "not enough power"

Execute(tx) ==
    IF Len(tx.sigs) # Len(tx.currentValset.validators) THEN "malformed"
    ELSE IF makeCheckpoint(tx.currentValset) # makeCheckpoint(current) THEN "other checkpoint"
    ELSE checkValidatorSignatures(tx.currentValset, tx.sigs, theHash(tx))

-----------------------------------------------------------------------------
Init == /\ current \in ContractValsets
        /\ subject \in Subjects
        /\ confirms = {}
        /\ evidence = None
        /\ outcome = None

\* An orchestrator parses, signs and confirms; it cannot sign what it cannot
\* parse.
Confirm(a) ==
    /\ Parse(subject) # Err
    /\ \A c \in confirms : c.eth_address # a
    /\ LET confirm == [eth_address |-> a,
                       signature |-> Sign(a, Hash(subject.kind, Parse(subject)))]
       IN  IF confirmHandlerCommon(confirm)
           THEN confirms' = confirms \cup {confirm} /\ outcome' = "confirmed"
           ELSE confirms' = confirms /\ outcome' = "refused"
    /\ evidence' = None
    /\ UNCHANGED <<current, subject>>

\* A relayer builds and sends the transaction.
Relay ==
    /\ Parse(subject) # Err
    /\ LET v == EventValset(current)
           body == Parse(subject)
           ordered == order_sigs(v, Hash(subject.kind, body), confirms)
       IN  outcome' = CASE ordered.result = "error" -> "not relayed"
                        [] ordered.result = "panic" -> "panic"
                        [] ordered.result = "ok" ->
                             Execute(Payload(v, subject.kind, body, ordered.sigs))
    /\ evidence' = None
    /\ UNCHANGED <<current, subject, confirms>>

\* Someone submits a validator's signature over s as evidence: it is parsed,
\* sent back to Cosmos and hashed there.
submit_bad_signature_evidence(a, s) ==
    /\ Parse(s) # Err
    /\ evidence' = s
    /\ outcome' = checkBadSignatureEvidenceInternal(Unparse(s), Sign(a, GetCheckpoint(s)))
    /\ UNCHANGED <<current, subject, confirms>>

Next == \/ \E a \in EthAddress : Confirm(a)
        \/ Relay
        \/ \E a \in EthAddress, s \in Subjects : submit_bad_signature_evidence(a, s)

Spec == Init /\ [][Next]_vars

-----------------------------------------------------------------------------
SignedPower ==
    MapThenSumSet(LAMBDA i : current.powers[i],
                  {i \in DOMAIN current.validators :
                      \E c \in confirms : c.eth_address = current.validators[i]})

\* What an orchestrator signs is what Cosmos checks and what the contract
\* checks: Cosmos refuses no confirmation of an orchestrator (message_signatures.rs
\* against GetCheckpoint), order_sigs never panics, and the contract never
\* finds a transaction malformed or a signature that does not match.
EveryoneSignsTheSame ==
    outcome \notin {"refused", "panic", "malformed", "other checkpoint",
                    "signature does not match"}

\* The relayer holds nothing back: if it finds too little power in order_sigs
\* then so does the contract in checkValidatorSignatures.
NothingIsHeldBack == outcome = "not relayed" => SignedPower <= PowerThreshold

\* A signature is judged by what was signed: a validator is slashed for
\* signing something Cosmos has not issued, and only then, although the
\* evidence has been parsed and written again on its way (batches.rs,
\* logic_call.rs, valsets.rs against evidence.go).
EvidenceIsJudgedRight ==
    evidence # None => (outcome = "slashed" <=> evidence # subject)
=============================================================================
