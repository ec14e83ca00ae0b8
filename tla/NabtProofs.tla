----------------------------- MODULE NabtProofs -----------------------------
(***************************************************************************)
(* What is computed, for everything Cosmos may issue, every validator set  *)
(* of the contract, every event and every offer: Checkpoints (Signing),    *)
(* EventDecoding (Decoding) and RelayMarket (Market); and the commands of  *)
(* nabt, for every number of users, validators, keys, runs and balances:   *)
(* DelegateKeys (K), EthClient (D), CosmosClient (W) and Erc20Deploy (E).  *)
(* Each has an invariant of its own, which a step keeps because it is one  *)
(* of that part or leaves its variables alone.                             *)
(***************************************************************************)
EXTENDS Computations, DataLemmas, SequenceTheorems

\* A behaviour starts as one of the part that it is of.
LEMMA PartInits ==
    ASSUME AllInit
    PROVE  /\ part = "signing" => Signing!Init
           /\ part = "decoding" => Decoding!Init
           /\ part = "market" => Market!Init
           /\ part = "keys" => K!Init
           /\ part = "deposit" => D!Init
           /\ part = "withdrawal" => W!Init
           /\ part # "withdrawal" => sent = 0
           /\ part = "deployment" => E!Init
  <1>1. CASE InitComputation /\ NoCommand
    BY <1>1 DEF InitComputation, NoCommand, NoWithdrawal
  <1>2. CASE Init
    BY <1>2 DEF Init, NoWithdrawal
  <1> QED
    BY <1>1, <1>2 DEF AllInit

\* A step is one of the part that the behaviour is of.
LEMMA PartSteps ==
    ASSUME [AllNext]_allVars
    PROVE  /\ part' = part
           /\ part = "signing" => [Signing!Next]_Signing!vars
           /\ part = "decoding" => [Decoding!Next]_Decoding!vars
           /\ part = "market" => [Market!Next]_Market!vars
           /\ part = "keys" => [K!Next]_K!vars
           /\ part = "deposit" => [D!Next]_D!vars
           /\ part = "withdrawal" => [W!Next]_W!vars
           /\ part # "withdrawal" => sent' = sent
           /\ part = "deployment" => [E!Next]_E!vars
  <1>1. CASE UNCHANGED allVars
    BY <1>1 DEF allVars, computations, signing, decoding, market, vars, startup, keys, deposit,
        withdrawal, deployment, shared, Signing!vars, Decoding!vars, Market!vars,
        K!vars, K!chainVars, D!vars, D!node, W!vars, W!chain, E!vars
  <1>2. CASE NextComputation /\ UNCHANGED <<startup, keys, deposit, withdrawal, deployment, shared>>
    <2>1. part' = part /\ sent' = sent /\ part \in {"signing", "decoding", "market"}
      BY <1>2 DEF NextComputation, withdrawal
    <2> QED
      BY <1>2, <2>1 DEF NextComputation
  <1>3. CASE Next
    <2>1. part' = part /\ (part # "withdrawal" => sent' = sent)
          /\ part \in {"startup", "keys", "deposit", "withdrawal", "deployment"}
      BY <1>3 DEF Next, InStartup, InKeys, InDeposit, InWithdrawal, InDeployment, withdrawal
    <2> QED
      BY <1>3, <2>1 DEF Next, InStartup, InKeys, InDeposit, InWithdrawal, InDeployment
  <1> QED
    BY <1>1, <1>2, <1>3 DEF AllNext

-----------------------------------------------------------------------------
(* Checkpoints: the encodings                                             *)

\* An element of a sequence is of its set.
LEMMA SeqElement ==
    ASSUME NEW X, NEW m \in Seq(X), NEW i \in DOMAIN m
    PROVE  m[i] \in X
  OBVIOUS

\* A registered address is neither the zero address nor None.
LEMMA AddressesAreSome == 0 \notin EthAddress /\ None \notin EthAddress /\ None # 0
  <1>1. None \notin Nat
    BY NabtAssumption
  <1>2. \A a \in EthAddress : a \in Nat /\ a # 0
    BY AddressAssumption, Zenon DEF Signing!ZERO_ADDRESS
  <1>3. None # 0
    BY <1>1
  <1> QED
    BY <1>1, <1>2, <1>3, Zenon

\* What is signed is a valset, a batch or a logic call that x/nab issued.
LEMMA SubjectKinds ==
    ASSUME NEW s \in Subjects
    PROVE  /\ s = [kind |-> s.kind, body |-> s.body]
           /\ \/ s.kind = "valset" /\ s.body \in IssuedValsets
              \/ s.kind = "batch" /\ s.body \in IssuedBatches
              \/ s.kind = "call" /\ s.body \in IssuedCalls
  <1>1. \/ s \in [kind : {"valset"}, body : IssuedValsets]
        \/ s \in [kind : {"batch"}, body : IssuedBatches]
        \/ s \in [kind : {"call"}, body : IssuedCalls]
    BY SubjectAssumption
  <1> QED
    BY <1>1

\* The members of an issued valset.
LEMMA ValsetMembers ==
    ASSUME NEW v \in IssuedValsets
    PROVE  /\ v.members \in Seq(BridgeValidators)
           /\ \A i \in DOMAIN v.members : /\ v.members[i].ethereum_address \in EthAddress
                                          /\ v.members[i] = [power |-> v.members[i].power,
                                                            ethereum_address |-> v.members[i].ethereum_address]
  <1> DEFINE m == v.members
  <1>1. m \in Seq(BridgeValidators)
    BY DEF IssuedValsets
  <1>2. \A x \in BridgeValidators : x.ethereum_address \in EthAddress
          /\ x = [power |-> x.power, ethereum_address |-> x.ethereum_address]
    BY DEF BridgeValidators
  <1> HIDE DEF m
  <1>3. \A i \in DOMAIN m : m[i] \in BridgeValidators
    BY <1>1, SeqElement, Zenon
  <1>4. \A i \in DOMAIN m : m[i].ethereum_address \in EthAddress
          /\ m[i] = [power |-> m[i].power, ethereum_address |-> m[i].ethereum_address]
    BY <1>2, <1>3, Zenon
  <1> QED
    BY <1>1, <1>4, Zenon DEF m

\* The orchestrator encodes a parsed valset as GetCheckpoint does the stored one.
LEMMA ValsetEncoding ==
    ASSUME NEW v \in IssuedValsets
    PROVE  Signing!encode_valset_confirm_hashed(Signing!ValsetFrom(v))
             = Signing!ValsetGetCheckpoint(v)
  <1> DEFINE m == v.members
             f == Signing!filter_empty_addresses(Signing!ValsetFrom(v))
  <1>0. /\ \A i \in DOMAIN m : m[i].ethereum_address \in EthAddress
    BY ValsetMembers, Zenon
  <1>1. f.addresses = Signing!Field(m, LAMBDA x : x.ethereum_address)
    BY <1>0, AddressesAreSome DEF Signing!filter_empty_addresses, Signing!ValsetFrom, Signing!Field
  <1>2. f.powers = Signing!Field(m, LAMBDA x : x.power)
    BY <1>0, AddressesAreSome DEF Signing!filter_empty_addresses, Signing!ValsetFrom, Signing!Field
  <1> QED
    BY <1>1, <1>2, AddressesAreSome
    DEF IssuedValsets, Signing!encode_valset_confirm_hashed, Signing!ValsetFrom,
        Signing!ValsetGetCheckpoint, Signing!ZERO_ADDRESS, Signing!Field

\* A valset that is parsed and written again is the one that was issued.
LEMMA ValsetRoundTrip ==
    ASSUME NEW v \in IssuedValsets
    PROVE  Signing!ValsetInto(Signing!ValsetFrom(v)) = v
  <1> DEFINE m == v.members
             w == Signing!ValsetInto(Signing!ValsetFrom(v))
  <1>0. /\ m \in Seq(BridgeValidators)
        /\ \A i \in DOMAIN m : /\ m[i].ethereum_address \in EthAddress
                               /\ m[i] = [power |-> m[i].power, ethereum_address |-> m[i].ethereum_address]
    BY ValsetMembers, Zenon
  <1>1. w.members = [i \in DOMAIN m |-> [power |-> m[i].power, ethereum_address |-> m[i].ethereum_address]]
    BY <1>0, AddressesAreSome DEF Signing!ValsetInto, Signing!ValsetFrom, Signing!Field
  <1>2. w.members = m
    <2> HIDE DEF m, w
    <2>1. w.members = [i \in DOMAIN m |-> m[i]]
      BY <1>0, <1>1, Zenon
    <2>2. ASSUME NEW X, NEW y \in Seq(X) PROVE [i \in DOMAIN y |-> y[i]] = y
      OBVIOUS
    <2> QED
      BY <1>0, <2>1, <2>2, Zenon
  <1>3. w = [nonce |-> v.nonce, members |-> w.members, reward_amount |-> v.reward_amount,
             reward_token |-> v.reward_token]
    BY AddressesAreSome
    DEF Signing!ValsetInto, Signing!ValsetFrom, Signing!ZERO_ADDRESS, IssuedValsets
  <1>4. v = [nonce |-> v.nonce, members |-> v.members, reward_amount |-> v.reward_amount,
             reward_token |-> v.reward_token]
    BY DEF IssuedValsets
  <1> QED
    <2> HIDE DEF w
    <2>1. w = v
      BY <1>2, <1>3, <1>4, Zenon DEF m
    <2> QED
      BY <2>1 DEF w

\* A transaction of a batch, from what is signed of it.
Signed(x, c) == [dest_address |-> x.dest_address,
                 erc20_token |-> [amount |-> x.erc20_token.amount, contract |-> c],
                 erc20_fee |-> [amount |-> x.erc20_fee.amount, contract |-> c]]

\* The transfers of an issued batch are all of its token.
LEMMA BatchTransactions ==
    ASSUME NEW b \in IssuedBatches
    PROVE  /\ b = [batch_nonce |-> b.batch_nonce, batch_timeout |-> b.batch_timeout,
                   transactions |-> b.transactions, token_contract |-> b.token_contract]
           /\ b.transactions \in Seq(BatchTransfers)
           /\ \A i \in DOMAIN b.transactions :
                /\ b.transactions[i] = [dest_address |-> b.transactions[i].dest_address,
                                        erc20_token |-> b.transactions[i].erc20_token,
                                        erc20_fee |-> b.transactions[i].erc20_fee]
                /\ b.transactions[i] = Signed(b.transactions[i], b.token_contract)
           /\ b.transactions # <<>> => b.transactions[1].erc20_fee.contract = b.token_contract
  <1> DEFINE m == b.transactions
             c == b.token_contract
  <1>1. m \in Seq(BatchTransfers)
    BY DEF IssuedBatches
  <1>2. \A x \in BatchTransfers :
            /\ x = [dest_address |-> x.dest_address, erc20_token |-> x.erc20_token,
                    erc20_fee |-> x.erc20_fee]
            /\ x.erc20_token \in Erc20Tokens /\ x.erc20_fee \in Erc20Tokens
    BY DEF BatchTransfers
  <1>3. \A x \in Erc20Tokens : x = [amount |-> x.amount, contract |-> x.contract]
    BY DEF Erc20Tokens
  <1>4. \A i \in DOMAIN m : m[i].erc20_token.contract = c /\ m[i].erc20_fee.contract = c
    BY DEF IssuedBatches
  <1>5. b = [batch_nonce |-> b.batch_nonce, batch_timeout |-> b.batch_timeout,
                   transactions |-> b.transactions, token_contract |-> b.token_contract]
    BY DEF IssuedBatches
  <1>6. m # <<>> => m[1].erc20_fee.contract = c
    <2>1. ASSUME m # <<>> PROVE 1 \in DOMAIN m
      BY <1>1, <2>1
    <2> HIDE DEF m, c
    <2> QED
      BY <1>4, <2>1, Zenon
  <1> HIDE DEF m, c
  <1>7. \A i \in DOMAIN m : m[i] \in BatchTransfers
    BY <1>1, SeqElement, Zenon
  <1>8. \A i \in DOMAIN m : /\ m[i] = [dest_address |-> m[i].dest_address, erc20_token |-> m[i].erc20_token,
                                        erc20_fee |-> m[i].erc20_fee]
                            /\ m[i].erc20_token = [amount |-> m[i].erc20_token.amount, contract |-> c]
                            /\ m[i].erc20_fee = [amount |-> m[i].erc20_fee.amount, contract |-> c]
    BY <1>2, <1>3, <1>4, <1>7, Zenon
  <1>9. \A i \in DOMAIN m : m[i] = Signed(m[i], c)
    BY <1>8, Zenon DEF Signed
  <1> QED
    BY <1>1, <1>5, <1>6, <1>8, <1>9, Zenon DEF m, c

\* The orchestrator encodes a parsed batch as GetCheckpoint does the stored one.
LEMMA BatchEncoding ==
    ASSUME NEW b \in IssuedBatches, b.transactions # <<>>
    PROVE  Signing!encode_tx_batch_confirm_hashed(Signing!TransactionBatchFrom(b))
             = Signing!BatchGetCheckpoint(b)
  <1> DEFINE m == b.transactions
             from == Signing!TransactionBatchFrom(b)
             f == Signing!get_checkpoint_values(from)
  <1>1. f.amounts = Signing!Field(m, LAMBDA x : x.erc20_token.amount)
    BY
    DEF Signing!get_checkpoint_values, Signing!TransactionBatchFrom, Signing!Field,
        Signing!BatchTransactionFrom
  <1>2. f.destinations = Signing!Field(m, LAMBDA x : x.dest_address)
    BY
    DEF Signing!get_checkpoint_values, Signing!TransactionBatchFrom, Signing!Field,
        Signing!BatchTransactionFrom
  <1>3. f.fees = Signing!Field(m, LAMBDA x : x.erc20_fee.amount)
    BY
    DEF Signing!get_checkpoint_values, Signing!TransactionBatchFrom, Signing!Field,
        Signing!BatchTransactionFrom
  <1>4. from.nonce = b.batch_nonce /\ from.batch_timeout = b.batch_timeout
        /\ from.token_contract = b.transactions[1].erc20_fee.contract
    BY DEF Signing!TransactionBatchFrom
  <1>5. from.token_contract = b.token_contract
    BY <1>4, BatchTransactions, Zenon
  <1> HIDE DEF from, f
  <1>6. Signing!encode_tx_batch_confirm_hashed(from) = Signing!BatchGetCheckpoint(b)
    BY <1>1, <1>2, <1>3, <1>4, <1>5, Zenon
    DEF Signing!encode_tx_batch_confirm_hashed, Signing!BatchGetCheckpoint, m, f
  <1> QED
    BY <1>6 DEF from

\* A batch that is parsed and written again is the one that was issued.
LEMMA BatchRoundTrip ==
    ASSUME NEW b \in IssuedBatches, b.transactions # <<>>
    PROVE  Signing!TransactionBatchInto(Signing!TransactionBatchFrom(b)) = b
  <1> DEFINE m == b.transactions
             from == Signing!TransactionBatchFrom(b)
             w == Signing!TransactionBatchInto(from)
  <1>0. /\ b = [batch_nonce |-> b.batch_nonce, batch_timeout |-> b.batch_timeout,
                   transactions |-> b.transactions, token_contract |-> b.token_contract]
        /\ m \in Seq(BatchTransfers)
        /\ \A i \in DOMAIN m : m[i] = [dest_address |-> m[i].dest_address,
                                       erc20_token |-> m[i].erc20_token,
                                        erc20_fee |-> m[i].erc20_fee]
        /\ b.transactions[1].erc20_fee.contract = b.token_contract
    BY BatchTransactions, Zenon
  <1>1. w.transactions = [i \in DOMAIN m |-> [dest_address |-> m[i].dest_address,
                                              erc20_token |-> m[i].erc20_token,
                                        erc20_fee |-> m[i].erc20_fee]]
    BY
    DEF Signing!TransactionBatchInto, Signing!TransactionBatchFrom, Signing!Field,
        Signing!BatchTransactionFrom
  <1>2. w.transactions = m
    <2> HIDE DEF m, w
    <2>1. w.transactions = [i \in DOMAIN m |-> m[i]]
      BY <1>0, <1>1, Zenon
    <2>2. ASSUME NEW X, NEW y \in Seq(X) PROVE [i \in DOMAIN y |-> y[i]] = y
      OBVIOUS
    <2> QED
      BY <1>0, <2>1, <2>2, Zenon
  <1>3. w = [batch_nonce |-> b.batch_nonce, batch_timeout |-> b.batch_timeout,
             transactions |-> w.transactions, token_contract |-> b.transactions[1].erc20_fee.contract]
    BY DEF Signing!TransactionBatchInto, Signing!TransactionBatchFrom
  <1> HIDE DEF w
  <1>4. w = b
    BY <1>0, <1>2, <1>3, Zenon DEF m
  <1> QED
    BY <1>4 DEF w, from

\* The id of a call is hashed as it is.
LEMMA CallId ==
    ASSUME NEW c \in IssuedCalls
    PROVE  Signing!Bytes32(c.invalidation_id) = c.invalidation_id
  <1>1. c.invalidation_id \in [1..WordSize -> Nat]
    BY DEF IssuedCalls
  <1> QED
    BY <1>1 DEF Signing!Bytes32

\* What an orchestrator signs is what Cosmos checks.
LEMMA HashIsCheckpoint ==
    ASSUME NEW s \in Subjects, Signing!Parse(s) # Err
    PROVE  Signing!Hash(s.kind, Signing!Parse(s)) = Signing!GetCheckpoint(s)
  <1>1. CASE s.kind = "valset" /\ s.body \in IssuedValsets
    BY <1>1, ValsetEncoding DEF Signing!Hash, Signing!Parse, Signing!GetCheckpoint
  <1>2. CASE s.kind = "batch" /\ s.body \in IssuedBatches
    <2>1. s.body.transactions # <<>>
      BY <1>2 DEF Signing!Parse, Signing!TransactionBatchFrom
    <2> QED
      BY <1>2, <2>1, BatchEncoding DEF Signing!Hash, Signing!Parse, Signing!GetCheckpoint
  <1>3. CASE s.kind = "call" /\ s.body \in IssuedCalls
    <2>1. Signing!Parse(s) = s.body
      BY <1>3 DEF Signing!Parse, Signing!LogicCallFrom
    <2> QED
      BY <1>3, <2>1, CallId
      DEF Signing!Hash, Signing!GetCheckpoint, Signing!encode_logic_call_confirm_hashed,
          Signing!LogicCallGetCheckpoint
  <1> QED
    BY <1>1, <1>2, <1>3, SubjectKinds, Zenon

\* Evidence arrives as it was signed.
LEMMA RoundTrip ==
    ASSUME NEW s \in Subjects, Signing!Parse(s) # Err
    PROVE  Signing!Unparse(s) = s
  <1>1. Signing!Unparse(s).kind = s.kind /\ Signing!Unparse(s).body = s.body
    <2>1. CASE s.kind = "valset" /\ s.body \in IssuedValsets
      BY <2>1, ValsetRoundTrip DEF Signing!Unparse, Signing!Parse
    <2>2. CASE s.kind = "batch" /\ s.body \in IssuedBatches
      <3>1. s.body.transactions # <<>>
        BY <2>2 DEF Signing!Parse, Signing!TransactionBatchFrom
      <3> QED
        BY <2>2, <3>1, BatchRoundTrip DEF Signing!Unparse, Signing!Parse
    <2>3. CASE s.kind = "call" /\ s.body \in IssuedCalls
      BY <2>3 DEF Signing!Unparse, Signing!Parse, Signing!LogicCallFrom, Signing!LogicCallInto
    <2> QED
      BY <2>1, <2>2, <2>3, SubjectKinds, Zenon
  <1>2. PICK x : Signing!Unparse(s) = [kind |-> s.kind, body |-> x]
    BY Zenon DEF Signing!Unparse
  <1>3. x = s.body
    BY <1>1, <1>2
  <1> QED
    BY <1>2, <1>3, SubjectKinds, Zenon

\* A field of records is all there is to know of them, if it is the field of two
\* sequences of the same records.
LEMMA SameSequences ==
    ASSUME NEW X, NEW m \in Seq(X), NEW n \in Seq(X),
           DOMAIN m = DOMAIN n, \A i \in DOMAIN m : m[i] = n[i]
    PROVE  m = n
  OBVIOUS

\* Valsets with the same checkpoint are the same.
LEMMA ValsetsDiffer ==
    ASSUME NEW v \in IssuedValsets, NEW w \in IssuedValsets,
           Signing!ValsetGetCheckpoint(v) = Signing!ValsetGetCheckpoint(w)
    PROVE  v = w
  <1> DEFINE m == v.members
             n == w.members
  <1>1. /\ v.nonce = w.nonce /\ v.reward_amount = w.reward_amount
        /\ v.reward_token = w.reward_token
        /\ [i \in DOMAIN m |-> m[i].ethereum_address] = [i \in DOMAIN n |-> n[i].ethereum_address]
        /\ [i \in DOMAIN m |-> m[i].power] = [i \in DOMAIN n |-> n[i].power]
    BY DEF Signing!ValsetGetCheckpoint, Signing!Field
  <1>2. /\ m \in Seq(BridgeValidators) /\ n \in Seq(BridgeValidators)
        /\ \A i \in DOMAIN m : m[i] = [power |-> m[i].power, ethereum_address |-> m[i].ethereum_address]
        /\ \A i \in DOMAIN n : n[i] = [power |-> n[i].power, ethereum_address |-> n[i].ethereum_address]
    BY ValsetMembers, Zenon
  <1>3. m = n
    <2> HIDE DEF m, n
    <2>1. DOMAIN m = DOMAIN n
      BY <1>1
    <2>2. ASSUME NEW i \in DOMAIN m
          PROVE  m[i].power = n[i].power /\ m[i].ethereum_address = n[i].ethereum_address
      BY <1>1, <2>1
    <2>3. \A i \in DOMAIN m : m[i] = n[i]
      BY <1>2, <2>1, <2>2, Zenon
    <2> QED
      BY <1>2, <2>1, <2>3, SameSequences, Zenon
  <1>4. \A x \in IssuedValsets :
          x = [nonce |-> x.nonce, members |-> x.members, reward_amount |-> x.reward_amount,
               reward_token |-> x.reward_token]
    BY DEF IssuedValsets
  <1> QED
    BY <1>1, <1>3, <1>4, Zenon DEF m, n

\* Batches with the same checkpoint are the same.
LEMMA BatchesDiffer ==
    ASSUME NEW v \in IssuedBatches, NEW w \in IssuedBatches,
           Signing!BatchGetCheckpoint(v) = Signing!BatchGetCheckpoint(w)
    PROVE  v = w
  <1> DEFINE m == v.transactions
             n == w.transactions
  <1>1. /\ v.batch_nonce = w.batch_nonce /\ v.token_contract = w.token_contract
        /\ v.batch_timeout = w.batch_timeout
        /\ [i \in DOMAIN m |-> m[i].erc20_token.amount] = [i \in DOMAIN n |-> n[i].erc20_token.amount]
        /\ [i \in DOMAIN m |-> m[i].dest_address] = [i \in DOMAIN n |-> n[i].dest_address]
        /\ [i \in DOMAIN m |-> m[i].erc20_fee.amount] = [i \in DOMAIN n |-> n[i].erc20_fee.amount]
    BY DEF Signing!BatchGetCheckpoint, Signing!Field
  <1>2. /\ m \in Seq(BatchTransfers) /\ n \in Seq(BatchTransfers)
        /\ \A i \in DOMAIN m : m[i] = Signed(m[i], v.token_contract)
        /\ \A i \in DOMAIN n : n[i] = Signed(n[i], w.token_contract)
    BY BatchTransactions, Zenon
  <1>3. m = n
    <2> HIDE DEF m, n
    <2>1. DOMAIN m = DOMAIN n
      BY <1>1
    <2>2. ASSUME NEW i \in DOMAIN m
          PROVE  /\ m[i].dest_address = n[i].dest_address
                 /\ m[i].erc20_token.amount = n[i].erc20_token.amount
                 /\ m[i].erc20_fee.amount = n[i].erc20_fee.amount
      BY <1>1, <2>1
    <2>3. ASSUME NEW i \in DOMAIN m
          PROVE  Signed(m[i], v.token_contract) = Signed(n[i], w.token_contract)
      BY <1>1, <2>2 DEF Signed
    <2>4. \A i \in DOMAIN m : m[i] = n[i]
      BY <1>2, <2>1, <2>3, Zenon
    <2> QED
      BY <1>2, <2>1, <2>4, SameSequences, Zenon
  <1>4. /\ v = [batch_nonce |-> v.batch_nonce, batch_timeout |-> v.batch_timeout,
                transactions |-> m, token_contract |-> v.token_contract]
        /\ w = [batch_nonce |-> w.batch_nonce, batch_timeout |-> w.batch_timeout,
                transactions |-> n, token_contract |-> w.token_contract]
    BY BatchTransactions, Zenon
  <1> HIDE DEF m, n
  <1> QED
    BY ONLY <1>1, <1>3, <1>4, Zenon

\* Token lists with the same amounts and the same contracts are the same.
LEMMA TokensDiffer ==
    ASSUME NEW m \in Seq(Erc20Tokens), NEW n \in Seq(Erc20Tokens),
           Signing!Amounts(m) = Signing!Amounts(n), Signing!Contracts(m) = Signing!Contracts(n)
    PROVE  m = n
  <1>1. /\ [i \in DOMAIN m |-> m[i].amount] = [i \in DOMAIN n |-> n[i].amount]
        /\ [i \in DOMAIN m |-> m[i].contract] = [i \in DOMAIN n |-> n[i].contract]
    BY DEF Signing!Amounts, Signing!Contracts, Signing!Field
  <1>2. \A x \in Erc20Tokens : x = [amount |-> x.amount, contract |-> x.contract]
    BY DEF Erc20Tokens
  <1>3. DOMAIN m = DOMAIN n
    BY <1>1
  <1>4. ASSUME NEW i \in DOMAIN m
        PROVE  m[i].amount = n[i].amount /\ m[i].contract = n[i].contract
    BY <1>1, <1>3
  <1>5. \A i \in DOMAIN m : m[i] \in Erc20Tokens /\ n[i] \in Erc20Tokens
    BY <1>3, SeqElement, Zenon
  <1>6. \A i \in DOMAIN m : m[i] = n[i]
    BY <1>2, <1>4, <1>5, Zenon
  <1> QED
    BY <1>3, <1>6, SameSequences, Zenon

\* Logic calls with the same checkpoint are the same.
LEMMA CallsDiffer ==
    ASSUME NEW v \in IssuedCalls, NEW w \in IssuedCalls,
           Signing!LogicCallGetCheckpoint(v) = Signing!LogicCallGetCheckpoint(w)
    PROVE  v = w
  <1>1. /\ Signing!Amounts(v.transfers) = Signing!Amounts(w.transfers)
        /\ Signing!Contracts(v.transfers) = Signing!Contracts(w.transfers)
        /\ Signing!Amounts(v.fees) = Signing!Amounts(w.fees)
        /\ Signing!Contracts(v.fees) = Signing!Contracts(w.fees)
        /\ v.logic_contract_address = w.logic_contract_address /\ v.payload = w.payload
        /\ v.timeout = w.timeout /\ v.invalidation_id = w.invalidation_id
        /\ v.invalidation_nonce = w.invalidation_nonce
    BY CallId DEF Signing!LogicCallGetCheckpoint
  <1>2. \A x \in IssuedCalls :
          /\ x.transfers \in Seq(Erc20Tokens) /\ x.fees \in Seq(Erc20Tokens)
          /\ x = [transfers |-> x.transfers, fees |-> x.fees,
                  logic_contract_address |-> x.logic_contract_address, payload |-> x.payload,
                  timeout |-> x.timeout, invalidation_id |-> x.invalidation_id,
                  invalidation_nonce |-> x.invalidation_nonce]
    BY DEF IssuedCalls
  <1>3. v.transfers = w.transfers /\ v.fees = w.fees
    BY <1>1, <1>2, TokensDiffer, Zenon
  <1> QED
    BY <1>1, <1>2, <1>3, Zenon

\* Two things that Cosmos may issue never have the same checkpoint.
LEMMA CheckpointsDiffer ==
    ASSUME NEW s \in Subjects, NEW t \in Subjects,
           Signing!GetCheckpoint(s) = Signing!GetCheckpoint(t)
    PROVE  s = t
  <1> DEFINE Tag(x) == Signing!GetCheckpoint(x)[2]
  <1>1. \A x \in Subjects : /\ x.kind = "valset" => Tag(x) = "checkpoint"
                            /\ x.kind = "batch" => Tag(x) = "transactionBatch"
                            /\ x.kind = "call" => Tag(x) = "logicCall"
    BY DEF Signing!GetCheckpoint, Signing!ValsetGetCheckpoint, Signing!BatchGetCheckpoint,
           Signing!LogicCallGetCheckpoint
  <1>2. s.kind \in {"valset", "batch", "call"} /\ t.kind \in {"valset", "batch", "call"}
    BY SubjectKinds, Zenon
  <1>3. Tag(s) = Tag(t)
    OBVIOUS
  <1>4. s.kind = t.kind
    <2> HIDE DEF Tag
    <2> QED
      BY <1>1, <1>2, <1>3
  <1>5. s.body = t.body
    <2>1. CASE s.kind = "valset"
      BY <1>4, <2>1, SubjectKinds, ValsetsDiffer DEF Signing!GetCheckpoint
    <2>2. CASE s.kind = "batch"
      BY <1>4, <2>2, SubjectKinds, BatchesDiffer DEF Signing!GetCheckpoint
    <2>3. CASE s.kind = "call"
      BY <1>4, <2>3, SubjectKinds, CallsDiffer DEF Signing!GetCheckpoint
    <2> QED
      BY <1>2, <2>1, <2>2, <2>3, Zenon
  <1> QED
    BY <1>4, <1>5, SubjectKinds, Zenon

-----------------------------------------------------------------------------
\* Cosmos stores only confirmations of what it has issued, one of each signer.
SigInv ==
    /\ current \in ContractValsets
    /\ subject \in Subjects
    /\ \A c \in confirms : /\ c.eth_address \in EthAddress
                           /\ c.signature = Signing!Sign(c.eth_address, Signing!GetCheckpoint(subject))

\* A step judges evidence by what was signed.
LEMMA EvidenceStep ==
    ASSUME SigInv, Signing!EvidenceIsJudgedRight, Signing!Next
    PROVE  Signing!EvidenceIsJudgedRight'
  <1>1. ASSUME NEW a \in EthAddress, NEW s \in Subjects,
               Signing!submit_bad_signature_evidence(a, s)
        PROVE  Signing!EvidenceIsJudgedRight'
    <2>1. /\ evidence' = s /\ subject' = subject /\ Signing!Parse(s) # Err
          /\ outcome' = Signing!checkBadSignatureEvidenceInternal(
                Signing!Unparse(s), Signing!Sign(a, Signing!GetCheckpoint(s)))
      BY <1>1 DEF Signing!submit_bad_signature_evidence
    <2>2. Signing!Unparse(s) = s
      BY <2>1, RoundTrip, Zenon
    <2>3. outcome' = Signing!checkBadSignatureEvidenceInternal(
                s, Signing!Sign(a, Signing!GetCheckpoint(s)))
      BY <2>1, <2>2, Zenon
    <2>4. Signing!Sign(a, Signing!GetCheckpoint(s)).hash = Signing!GetCheckpoint(s)
      BY DEF Signing!Sign
    <2>5. Signing!GetCheckpoint(s) = Signing!GetCheckpoint(subject) <=> s = subject
      BY CheckpointsDiffer, Zenon DEF SigInv
    <2>6. outcome' = IF s = subject THEN "checkpoint exists" ELSE "slashed"
      BY <2>3, <2>4, <2>5, Zenon DEF Signing!checkBadSignatureEvidenceInternal
    <2> QED
      BY <2>1, <2>6 DEF Signing!EvidenceIsJudgedRight
  <1>2. CASE evidence' = None
    BY <1>2 DEF Signing!EvidenceIsJudgedRight
  <1>3. ASSUME NEW a \in EthAddress, Signing!Confirm(a) PROVE evidence' = None
    BY <1>3 DEF Signing!Confirm
  <1>4. Signing!Relay => evidence' = None
    BY DEF Signing!Relay
  <1> QED
    BY <1>1, <1>2, <1>3, <1>4, Zenon DEF Signing!Next

\* How a confirmation and how evidence ends.
Judged == {"confirmed", "checkpoint exists", "slashed", "unknown signer"}

\* A step keeps the invariant; only Relay has an outcome of the contract.
LEMMA SigInvStep ==
    ASSUME SigInv, Signing!Next
    PROVE  SigInv' /\ (Signing!Relay \/ outcome' \in Judged)
  <1>1. current' = current /\ subject' = subject
    BY DEF Signing!Next, Signing!Confirm, Signing!Relay, Signing!submit_bad_signature_evidence
  <1>2. ASSUME NEW a \in EthAddress, Signing!Confirm(a)
        PROVE  /\ outcome' = "confirmed"
               /\ confirms' = confirms \cup
                   {[eth_address |-> a, signature |-> Signing!Sign(a, Signing!GetCheckpoint(subject))]}
    <2>1. Signing!Hash(subject.kind, Signing!Parse(subject)) = Signing!GetCheckpoint(subject)
      BY <1>2, HashIsCheckpoint, Zenon DEF SigInv, Signing!Confirm
    <2> DEFINE confirm == [eth_address |-> a,
                           signature |-> Signing!Sign(a, Signing!GetCheckpoint(subject))]
    <2>2. Signing!confirmHandlerCommon(confirm)
      BY DEF Signing!confirmHandlerCommon, Signing!Sign
    <2> QED
      BY <1>2, <2>1, <2>2, Zenon DEF Signing!Confirm
  <1>3. ASSUME NEW a \in EthAddress, Signing!Confirm(a)
        PROVE  \A c \in confirms' : 
                  /\ c.eth_address \in EthAddress
                  /\ c.signature = Signing!Sign(c.eth_address, Signing!GetCheckpoint(subject))
    <2> DEFINE confirm == [eth_address |-> a,
                           signature |-> Signing!Sign(a, Signing!GetCheckpoint(subject))]
    <2>1. confirm.eth_address = a /\ confirm.signature = Signing!Sign(a, Signing!GetCheckpoint(subject))
      OBVIOUS
    <2>2. confirms' = confirms \cup {confirm}
      BY <1>2, <1>3, Zenon
    <2> HIDE DEF confirm
    <2> QED
      BY <2>1, <2>2, Zenon DEF SigInv
  <1>4. \/ \E a \in EthAddress : Signing!Confirm(a)
        \/ confirms' = confirms /\ (Signing!Relay \/ outcome' \in Judged)
    <2>1. ASSUME NEW a \in EthAddress, NEW s \in Subjects,
                 Signing!submit_bad_signature_evidence(a, s)
          PROVE  confirms' = confirms /\ outcome' \in Judged
      BY <2>1
      DEF Judged, Signing!submit_bad_signature_evidence, Signing!checkBadSignatureEvidenceInternal
    <2>2. Signing!Relay => confirms' = confirms
      BY DEF Signing!Relay
    <2> QED
      BY <2>1, <2>2, Zenon DEF Signing!Next
  <1>5. CASE \E a \in EthAddress : Signing!Confirm(a)
    BY <1>1, <1>2, <1>3, <1>5 DEF SigInv, Judged
  <1>6. CASE confirms' = confirms /\ (Signing!Relay \/ outcome' \in Judged)
    BY <1>1, <1>6, Zenon DEF SigInv
  <1> QED
    BY <1>4, <1>5, <1>6

\* A validator of the contract whose orchestrator has confirmed.
Confirmed(a) == \E c \in confirms : c.eth_address = a
TheirSig(a) == IF Confirmed(a) THEN Signing!Sign(a, Signing!GetCheckpoint(subject)) ELSE None

\* The validator set of the contract, taken apart.
LEMMA ContractFacts ==
    ASSUME SigInv
    PROVE  /\ current = [validators |-> current.validators, powers |-> current.powers,
                         valsetNonce |-> current.valsetNonce,
                         rewardAmount |-> current.rewardAmount,
                         rewardToken |-> current.rewardToken]
           /\ current.validators \in Seq(EthAddress) /\ current.powers \in Seq(Nat)
           /\ DOMAIN current.validators = DOMAIN current.powers
           /\ current.rewardToken \in EthAddress \cup {0}
           /\ \A i \in DOMAIN current.validators : /\ current.validators[i] \in EthAddress
                                                  /\ current.powers[i] \in Nat
  <1> DEFINE T == [validators : Seq(EthAddress), powers : Seq(Nat), valsetNonce : Nat,
                   rewardAmount : Nat, rewardToken : EthAddress \cup {0}]
  <1>1. current \in T /\ Len(current.validators) = Len(current.powers)
    BY ContractAssumption DEF SigInv, Signing!ZERO_ADDRESS
  <1>2. \A x \in T : /\ x = [validators |-> x.validators, powers |-> x.powers,
                            valsetNonce |-> x.valsetNonce, rewardAmount |-> x.rewardAmount,
                            rewardToken |-> x.rewardToken]
                    /\ x.validators \in Seq(EthAddress) /\ x.powers \in Seq(Nat)
                    /\ x.rewardToken \in EthAddress \cup {0}
    OBVIOUS
  <1> HIDE DEF T
  <1>3. current.validators \in Seq(EthAddress) /\ current.powers \in Seq(Nat)
    BY <1>1, <1>2, Zenon
  <1>4. \A x \in Seq(EthAddress), y \in Seq(Nat) : Len(x) = Len(y) => DOMAIN x = DOMAIN y
    OBVIOUS
  <1>5. DOMAIN current.validators = DOMAIN current.powers
    BY <1>1, <1>3, <1>4, Zenon
  <1>6. \A i \in DOMAIN current.validators : current.validators[i] \in EthAddress
    BY <1>3, SeqElement, Zenon
  <1>7. \A i \in DOMAIN current.powers : current.powers[i] \in Nat
    BY <1>3, SeqElement, Zenon
  <1> QED
    BY <1>1, <1>2, <1>3, <1>5, <1>6, <1>7, Zenon

\* get_hashmap finds the signature of everyone who confirmed, and of no one else.
LEMMA TheirSigs ==
    ASSUME SigInv, NEW a \in EthAddress
    PROVE  /\ a \in DOMAIN Signing!get_hashmap(confirms) <=> Confirmed(a)
           /\ Confirmed(a) => Signing!get_hashmap(confirms)[a].signature = TheirSig(a)
           /\ Confirmed(a) => TheirSig(a) # None
  <1> DEFINE map == Signing!get_hashmap(confirms)
  <1>1. a \in DOMAIN map <=> Confirmed(a)
    BY DEF Signing!get_hashmap, Confirmed
  <1>2. ASSUME Confirmed(a) PROVE map[a].signature = TheirSig(a)
    <2>1. PICK d : d = CHOOSE c \in confirms : c.eth_address = a
      BY Zenon
    <2>2. d \in confirms /\ d.eth_address = a
      BY <1>2, <2>1, Zenon DEF Confirmed
    <2>3. map[a] = d
      BY <1>2, <2>1 DEF Signing!get_hashmap, Confirmed
    <2> HIDE DEF map
    <2> QED
      BY <1>2, <2>2, <2>3, Zenon DEF SigInv, TheirSig
  <1>3. Confirmed(a) => TheirSig(a) # None
    BY SignatureAssumption, Zenon DEF SigInv, TheirSig
  <1> QED
    BY <1>1, <1>2, <1>3

\* The signatures in the order of the contract's validators.
LEMMA OrderedSigs ==
    ASSUME SigInv, NEW hash
    PROVE  LET found == Signing!get_signature_status(Signing!EventValset(current), hash, confirms)
           IN  found.ordered_signatures =
                 [i \in DOMAIN current.validators |->
                    [power |-> current.powers[i], eth_address |-> current.validators[i],
                     sig |-> TheirSig(current.validators[i])]]
  <1> DEFINE v == Signing!EventValset(current)
             map == Signing!get_hashmap(confirms)
             Entry(m) ==
               [power |-> m.power,
                eth_address |-> IF m.eth_address = None THEN 0 ELSE m.eth_address,
                sig |-> IF m.eth_address \in DOMAIN map THEN map[m.eth_address].signature
                     ELSE None]
  <1>1. v.members = [i \in DOMAIN current.validators |->
                      [power |-> current.powers[i], eth_address |-> current.validators[i]]]
    BY DEF Signing!EventValset
  <1>2. Signing!get_signature_status(v, hash, confirms).ordered_signatures
          = [i \in DOMAIN v.members |-> Entry(v.members[i])]
    BY Zenon DEF Signing!get_signature_status, Signing!Field, Signing!ZERO_ADDRESS
  <1>3. ASSUME NEW i \in DOMAIN current.validators
        PROVE  Entry(v.members[i]) = [power |-> current.powers[i],
                                      eth_address |-> current.validators[i],
                                      sig |-> TheirSig(current.validators[i])]
    <2> DEFINE a == current.validators[i]
               m == [power |-> current.powers[i], eth_address |-> a]
    <2>1. v.members[i] = m
      BY <1>1, Zenon
    <2>2. a \in EthAddress /\ a # None
      BY ContractFacts, AddressesAreSome, Zenon
    <2>3. (IF a \in DOMAIN map THEN map[a].signature ELSE None) = TheirSig(a)
      BY <2>2, TheirSigs, Zenon DEF TheirSig
    <2>4. m.power = current.powers[i] /\ m.eth_address = a
      OBVIOUS
    <2> HIDE DEF m, a, v, map
    <2>5. Entry(m) = [power |-> current.powers[i], eth_address |-> a, sig |-> TheirSig(a)]
      BY <2>2, <2>3, <2>4, Zenon
    <2> QED
      BY <2>1, <2>5, Zenon DEF a
  <1>4. DOMAIN v.members = DOMAIN current.validators
    BY <1>1
  <1> HIDE DEF v, map, Entry
  <1> QED
    BY <1>2, <1>3, <1>4, Zenon DEF v

\* The relayer's encoding of the contract's validator set is the contract's.
LEMMA ValsetOfTheContract ==
    ASSUME SigInv
    PROVE  Signing!encode_valset_struct(Signing!EventValset(current)) = current
  <1> DEFINE v == Signing!EventValset(current)
             f == Signing!filter_empty_addresses(v)
             s == current.validators
             p == current.powers
  <1>0. /\ current = [validators |-> s, powers |-> p,
                      valsetNonce |-> current.valsetNonce,
                      rewardAmount |-> current.rewardAmount,
                      rewardToken |-> current.rewardToken]
        /\ s \in Seq(EthAddress) /\ p \in Seq(Nat) /\ DOMAIN s = DOMAIN p
        /\ current.rewardToken # None
        /\ \A i \in DOMAIN s : s[i] # None
    BY ContractFacts, AddressesAreSome, Zenon
  <1>1. f.addresses = [i \in DOMAIN s |-> s[i]]
    BY <1>0 DEF Signing!filter_empty_addresses, Signing!EventValset, Signing!Field
  <1>2. f.powers = [i \in DOMAIN s |-> p[i]]
    BY DEF Signing!filter_empty_addresses, Signing!EventValset, Signing!Field
  <1>3. \A X, T : \A x \in Seq(X), y \in Seq(T) :
          DOMAIN x = DOMAIN y =>
            [i \in DOMAIN x |-> x[i]] = x /\ [i \in DOMAIN x |-> y[i]] = y
    OBVIOUS
  <1>4. f.addresses = s /\ f.powers = p
    <2> HIDE DEF f, s, p
    <2>1. [i \in DOMAIN s |-> s[i]] = s /\ [i \in DOMAIN s |-> p[i]] = p
      BY <1>0, <1>3, Zenon
    <2> QED
      BY <1>1, <1>2, <2>1, Zenon
  <1>5. Signing!encode_valset_struct(v) =
          [validators |-> f.addresses, powers |-> f.powers,
           valsetNonce |-> current.valsetNonce, rewardAmount |-> current.rewardAmount,
           rewardToken |-> current.rewardToken]
    BY <1>0 DEF Signing!encode_valset_struct, Signing!EventValset, Signing!ZERO_ADDRESS
  <1> HIDE DEF f, v, s, p
  <1> QED
    BY <1>0, <1>4, <1>5, Zenon DEF v

\* The contract hashes what the orchestrators have signed.
LEMMA ContractHash ==
    ASSUME NEW s \in Subjects, Signing!Parse(s) # Err, NEW v, NEW sigs
    PROVE  Signing!theHash(Signing!Payload(v, s.kind, Signing!Parse(s), sigs))
             = Signing!GetCheckpoint(s)
  <1> DEFINE body == Signing!Parse(s)
             sending == Signing!Payload(v, s.kind, body, sigs)
  <1> HIDE DEF body
  <1>1. Signing!theHash(sending) = Signing!Hash(s.kind, body)
    <2>1. CASE s.kind = "valset"
      BY <2>1 DEF Signing!theHash, Signing!Payload, Signing!Hash, Signing!makeCheckpoint,
        Signing!encode_valset_struct, Signing!encode_valset_confirm_hashed
    <2>2. CASE s.kind = "batch"
      BY <2>2 DEF Signing!theHash, Signing!Payload, Signing!Hash, Signing!batchHash,
        Signing!BatchArgs, Signing!encode_tx_batch_confirm_hashed
    <2>3. CASE s.kind = "call"
      BY <2>3 DEF Signing!theHash, Signing!Payload, Signing!Hash, Signing!logicCallHash,
        Signing!LogicCallArgs, Signing!encode_logic_call_confirm_hashed
    <2> QED
      BY <2>1, <2>2, <2>3, SubjectKinds, Zenon
  <1> QED
    BY <1>1, HashIsCheckpoint, Zenon DEF body

\* What the relayer sends, the contract accepts or finds too weak.
LEMMA RelayedIsChecked ==
    ASSUME SigInv, Signing!Parse(subject) # Err,
           NEW found,
           found = Signing!get_signature_status(Signing!EventValset(current),
                      Signing!Hash(subject.kind, Signing!Parse(subject)), confirms)
    PROVE  /\ ~ found.panics
           /\ Signing!Execute(Signing!Payload(Signing!EventValset(current), subject.kind,
                  Signing!Parse(subject), found.ordered_signatures))
                \in {"accepted", "not enough power"}
  <1> DEFINE ordered == found.ordered_signatures
             hash == Signing!GetCheckpoint(subject)
             s == current.validators
             sending == Signing!Payload(Signing!EventValset(current), subject.kind,
                                   Signing!Parse(subject), ordered)
  <1>1. Signing!Hash(subject.kind, Signing!Parse(subject)) = hash
    BY HashIsCheckpoint, Zenon DEF SigInv
  <1>2. ordered = [i \in DOMAIN s |->
                    [power |-> current.powers[i], eth_address |-> s[i], sig |-> TheirSig(s[i])]]
    BY OrderedSigs, Zenon
  <1>3. ~ found.panics
    <2>1. found.panics <=> \E i \in DOMAIN ordered :
                              /\ ordered[i].sig # None
                              /\ Signing!recover(ordered[i].sig, hash) # ordered[i].eth_address
      BY <1>1, Zenon DEF Signing!get_signature_status
    <2>2. ASSUME NEW i \in DOMAIN ordered, ordered[i].sig # None
          PROVE  Signing!recover(ordered[i].sig, hash) = ordered[i].eth_address
      <3>1. ordered[i].sig = TheirSig(s[i]) /\ ordered[i].eth_address = s[i]
        BY <1>2, <2>2
      <3>2. ordered[i].sig = Signing!Sign(s[i], hash)
        BY <2>2, <3>1, Zenon DEF TheirSig
      <3>3. Signing!recover(Signing!Sign(s[i], hash), hash) = s[i]
        BY DEF Signing!recover, Signing!Sign
      <3> QED
        BY <3>1, <3>2, <3>3, Zenon
    <2> QED
      BY <2>1, <2>2, Zenon
  <1>4. /\ sending.sigs = [i \in DOMAIN s |-> TheirSig(s[i])]
        /\ sending.currentValset = Signing!encode_valset_struct(Signing!EventValset(current))
    <2> HIDE DEF ordered
    <2>1. sending.sigs = [i \in DOMAIN ordered |-> ordered[i].sig]
      BY DEF Signing!Payload, Signing!to_arrays, Signing!Field
    <2> QED
      BY <1>2, <2>1 DEF Signing!Payload
  <1>5. sending.currentValset = current
    BY <1>4, ValsetOfTheContract, Zenon
  <1>6. Signing!theHash(sending) = hash
    BY ContractHash, Zenon DEF SigInv
  <1>7. Len(sending.sigs) = Len(s)
    <2>1. ASSUME NEW X, NEW x \in Seq(X), NEW y, DOMAIN y = DOMAIN x PROVE Len(y) = Len(x)
      <3>1. Len(x) \in Nat /\ DOMAIN y = 1..Len(x)
        BY <2>1
      <3> QED
        BY <3>1
    <2>2. DOMAIN sending.sigs = DOMAIN s
      BY <1>4
    <2>3. s \in Seq(EthAddress)
      BY ContractFacts, Zenon
    <2> HIDE DEF sending, s
    <2> QED
      BY <2>1, <2>2, <2>3, Zenon
  <1>8. Signing!checkValidatorSignatures(current, sending.sigs, hash) \in {"accepted", "not enough power"}
    <2>1. ASSUME NEW i \in DOMAIN sending.sigs, sending.sigs[i] # None
          PROVE  sending.sigs[i] = Signing!Sign(current.validators[i], hash)
      <3> HIDE DEF sending, hash
      <3>1. sending.sigs[i] = TheirSig(s[i])
        BY <1>4
      <3> QED
        BY <2>1, <3>1, Zenon DEF TheirSig, hash
    <2> HIDE DEF sending, hash
    <2> QED
      BY <2>1, Zenon DEF Signing!checkValidatorSignatures
  <1> HIDE DEF sending, hash, ordered
  <1>9. Signing!Execute(sending) \in {"accepted", "not enough power"}
    BY <1>5, <1>6, <1>7, <1>8, Zenon DEF Signing!Execute
  <1> QED
    BY <1>3, <1>9, Zenon DEF sending, ordered

\* Counting the powers with those of the others as zero, or only the powers of
\* the signers, is the same.
LEMMA SumOfSome ==
    ASSUME NEW f, NEW g, NEW I, NEW T \in SUBSET I, IsFiniteSet(I),
           \A i \in I : f[i] \in Nat,
           \A i \in T : g[i] = f[i], \A i \in I \ T : g[i] = 0
    PROVE  SumOf(g, I) = SumOf(f, T) /\ SumOf(f, T) \in Nat
  <1> DEFINE U == I \ T
  <1>1. IsFiniteSet(T) /\ IsFiniteSet(U) /\ T \cap U = {} /\ T \cup U = I
    BY FS_Subset
  <1>2. \A i \in I : g[i] \in Int
    BY <1>1
  <1>3. \A i \in T : f[i] \in Nat
    OBVIOUS
  <1> HIDE DEF U
  <1>4. SumOf(g, I) = SumOf(g, T) + SumOf(g, U)
    BY <1>1, <1>2, SumUnion, Zenon
  <1>5. SumOf(g, U) = 0
    BY <1>1, SumZero, Zenon DEF U
  <1>6. SumOf(g, T) = SumOf(f, T)
    BY <1>1, SumCong, Zenon
  <1>7. SumOf(f, T) \in Nat
    BY <1>1, <1>3, SumNat, Zenon
  <1> QED
    BY ONLY <1>4, <1>5, <1>6, <1>7

\* SignedPower as a sum over the positions of those who confirmed.
LEMMA SignedPowerIsSum ==
    Signing!SignedPower = SumOf(current.powers,
                              {i \in DOMAIN current.validators : Confirmed(current.validators[i])})
  <1>1. \A X : Signing!MapThenSumSet(LAMBDA i : current.powers[i], X) = SumOf(current.powers, X)
    BY ONLY TRUE
    DEF Signing!MapThenSumSet, Signing!MapThenFoldSet, SumOf, MapThenSumSet, MapThenFoldSet
  <1> QED
    BY <1>1, Zenon DEF Signing!SignedPower, Confirmed

\* SignedPower depends on the validator set and the confirmations alone.
LEMMA SamePower ==
    ASSUME current' = current, confirms' = confirms
    PROVE  Signing!SignedPower' = Signing!SignedPower
  <1>1. (Signing!SignedPower = SumOf(current.powers,
                              {i \in DOMAIN current.validators : Confirmed(current.validators[i])}))'
    BY SignedPowerIsSum, PTL
  <1> QED
    BY <1>1, SignedPowerIsSum, Zenon DEF Confirmed

\* order_sigs adds up the power of those who confirmed.
LEMMA GoodPower ==
    ASSUME SigInv, NEW hash
    PROVE  LET found == Signing!get_signature_status(Signing!EventValset(current), hash, confirms)
           IN  /\ found.power_of_good_sigs = Signing!SignedPower
               /\ Signing!SignedPower \in Nat
  <1> DEFINE found == Signing!get_signature_status(Signing!EventValset(current), hash, confirms)
             s == current.validators
             p == current.powers
             T == {i \in DOMAIN s : Confirmed(s[i])}
             g == [i \in DOMAIN s |-> IF TheirSig(s[i]) = None THEN 0 ELSE p[i]]
             ordered == found.ordered_signatures
  <1>1. ordered = [i \in DOMAIN s |->
                    [power |-> p[i], eth_address |-> s[i], sig |-> TheirSig(s[i])]]
    BY OrderedSigs, Zenon
  <1>2. found.power_of_good_sigs
          = Signing!SumSeq([i \in DOMAIN ordered |-> IF ordered[i].sig = None THEN 0 ELSE ordered[i].power])
    BY Zenon DEF Signing!get_signature_status, Signing!Field
  <1>3. [i \in DOMAIN ordered |-> IF ordered[i].sig = None THEN 0 ELSE ordered[i].power] = g
    <2> HIDE DEF ordered
    <2> QED
      BY <1>1
  <1>4. found.power_of_good_sigs = Signing!SumSeq(g)
    BY <1>2, <1>3, Zenon
  <1>5. ASSUME NEW y PROVE Signing!SumSeq(y) = SumOf(y, DOMAIN y)
    BY ONLY TRUE DEF Signing!SumSeq, Signing!FoldFunction, Signing!FoldFunctionOnSet,
      Signing!MapThenFoldSet, SumOf, MapThenSumSet, MapThenFoldSet
  <1>6. DOMAIN g = DOMAIN s
    OBVIOUS
  <1>7. Signing!SignedPower = SumOf(p, T)
    BY SignedPowerIsSum, Zenon
  <1>8. IsFiniteSet(DOMAIN s)
    <2>1. s \in Seq(EthAddress)
      BY ContractFacts, Zenon
    <2>2. DOMAIN s = 1..Len(s) /\ Len(s) \in Nat
      BY <2>1
    <2> QED
      BY ONLY <2>2, FS_Interval
  <1>9. /\ \A i \in DOMAIN s : p[i] \in Nat
        /\ \A i \in T : g[i] = p[i]
        /\ \A i \in (DOMAIN s) \ T : g[i] = 0
    <2>1. \A i \in DOMAIN s : s[i] \in EthAddress /\ p[i] \in Nat
      BY ContractFacts, Zenon
    <2>2. \A i \in T : TheirSig(s[i]) # None
      BY <2>1, TheirSigs, Zenon
    <2>3. \A i \in (DOMAIN s) \ T : TheirSig(s[i]) = None
      BY Zenon DEF TheirSig
    <2> QED
      BY <2>1, <2>2, <2>3
  <1>10. SumOf(g, DOMAIN s) = SumOf(p, T) /\ SumOf(p, T) \in Nat
    <2> DEFINE I == DOMAIN s
    <2>1. T \in SUBSET I
      OBVIOUS
    <2>2. /\ IsFiniteSet(I) /\ \A i \in I : p[i] \in Nat
          /\ \A i \in T : g[i] = p[i]
          /\ \A i \in I \ T : g[i] = 0
      BY <1>8, <1>9, Zenon
    <2> HIDE DEF g, p, T, I
    <2>3. SumOf(g, I) = SumOf(p, T) /\ SumOf(p, T) \in Nat
      BY ONLY <2>1, <2>2, SumOfSome
    <2> QED
      BY <2>3 DEF I
  <1> HIDE DEF g, found, T
  <1> QED
    BY <1>4, <1>5, <1>6, <1>7, <1>10, Zenon DEF found

\* Whom the relayer finds too weak, the contract does: 66 percent of the power
\* are at most the threshold.
LEMMA RelayStep ==
    ASSUME SigInv, Signing!Relay
    PROVE  /\ outcome' \in {"not relayed", "accepted", "not enough power"}
           /\ outcome' = "not relayed" => Signing!SignedPower <= PowerThreshold
           /\ UNCHANGED <<current, confirms>>
  <1> DEFINE v == Signing!EventValset(current)
             body == Signing!Parse(subject)
             hash == Signing!Hash(subject.kind, body)
             found == Signing!get_signature_status(v, hash, confirms)
             ordered == Signing!order_sigs(v, hash, confirms)
             sending == Signing!Payload(v, subject.kind, body, found.ordered_signatures)
  <1>1. /\ body # Err
        /\ outcome' = CASE ordered.result = "error" -> "not relayed"
                        [] ordered.result = "panic" -> "panic"
                        [] ordered.result = "ok" ->
                             Signing!Execute(Signing!Payload(v, subject.kind, body, ordered.sigs))
        /\ UNCHANGED <<current, confirms>>
    BY Zenon DEF Signing!Relay
  <1>2. /\ ordered.sigs = found.ordered_signatures
        /\ ordered.result = IF confirms = {} THEN "error"
                    ELSE IF found.panics THEN "panic"
                    ELSE IF Signing!EnoughPercent(found.power_of_good_sigs) THEN "ok" ELSE "error"
    BY Zenon DEF Signing!order_sigs
  <1>3. ~ found.panics /\ Signing!Execute(sending) \in {"accepted", "not enough power"}
    BY <1>1, RelayedIsChecked, Zenon
  <1>4. found.power_of_good_sigs = Signing!SignedPower /\ Signing!SignedPower \in Nat
    BY GoodPower, Zenon
  <1> HIDE DEF v, body, hash, found, ordered, sending
  <1>5. ordered.result = "ok" \/ (ordered.result = "error"
                              /\ (confirms = {} \/ ~Signing!EnoughPercent(Signing!SignedPower)))
    BY <1>2, <1>3, <1>4, Zenon
  <1>6. CASE ordered.result = "ok"
    <2>1. outcome' = Signing!Execute(sending)
      BY <1>1, <1>2, <1>6 DEF sending
    <2> QED
      BY <1>1, <1>3, <2>1
  <1>7. CASE ordered.result = "error" /\ confirms = {}
    <2>1. outcome' = "not relayed"
      BY <1>1, <1>7
    <2>2. Signing!SignedPower = 0
      <3>1. {i \in DOMAIN current.validators : Confirmed(current.validators[i])} = {}
        BY <1>7 DEF Confirmed
      <3>2. Signing!SignedPower = SumOf(current.powers, {})
        BY <3>1, SignedPowerIsSum, Zenon
      <3> QED
        BY <3>2, SumEmpty, Zenon
    <2>3. 0 <= PowerThreshold
      BY PowerAssumption
    <2> QED
      BY <1>1, <2>1, <2>2, <2>3
  <1>8. CASE ordered.result = "error" /\ ~Signing!EnoughPercent(Signing!SignedPower)
    <2>1. outcome' = "not relayed"
      BY <1>1, <1>8
    <2>2. Signing!SignedPower <= PowerThreshold
      <3>1. PICK n \in Nat : n = Signing!SignedPower
        BY <1>4, Zenon
      <3>2. ~ ((n + FloatSlack) * 100 >= 66 * TotalPower)
        BY <1>8, <3>1, Zenon DEF Signing!EnoughPercent
      <3>3. n <= PowerThreshold
        BY ONLY <3>2, PowerAssumption, n \in Nat
      <3> QED
        BY <3>1, <3>3
    <2> QED
      BY <1>1, <2>1, <2>2
  <1> QED
    BY <1>5, <1>6, <1>7, <1>8, Zenon

\* The invariant holds at first.
LEMMA SigInvInit ==
    ASSUME AllInit, part = "signing"
    PROVE  SigInv /\ outcome = None /\ evidence = None
  <1>1. Signing!Init
    BY PartInits, Zenon
  <1> QED
    BY <1>1 DEF Signing!Init, SigInv

\* The invariant holds always.
LEMMA SigInvAlways == AllSpec => [](part = "signing" => SigInv)
  <1>1. AllInit => (part = "signing" => SigInv)
    BY SigInvInit
  <1>2. ASSUME SigInv, UNCHANGED Signing!vars PROVE SigInv'
    BY <1>2 DEF SigInv, Signing!vars
  <1>3. (part = "signing" => SigInv) /\ [AllNext]_allVars => (part = "signing" => SigInv)'
    BY <1>2, PartSteps, SigInvStep, Zenon
  <1> QED
    BY <1>1, <1>3, PTL DEF AllSpec

\* Checkpoints: for everything Cosmos may issue, submitted evidence slashes
\* (CheckBadSignatureEvidence) exactly when what was signed is not what Cosmos
\* issued, although it has been parsed by the orchestrator and written again.
THEOREM EvidenceIsJudged == AllSpec => []EvidenceIsJudgedRight
  <1>1. AllInit => EvidenceIsJudgedRight
    BY SigInvInit DEF EvidenceIsJudgedRight, Signing!EvidenceIsJudgedRight
  <1>2. ASSUME Signing!EvidenceIsJudgedRight, UNCHANGED Signing!vars
        PROVE  Signing!EvidenceIsJudgedRight'
    BY <1>2 DEF Signing!EvidenceIsJudgedRight, Signing!vars
  <1>3. (part = "signing" => SigInv) /\ EvidenceIsJudgedRight /\ [AllNext]_allVars
          => EvidenceIsJudgedRight'
    BY <1>2, PartSteps, EvidenceStep, Zenon DEF EvidenceIsJudgedRight
  <1> QED
    BY <1>1, <1>3, SigInvAlways, PTL DEF AllSpec

\* Checkpoints: Cosmos refuses no confirmation of an orchestrator, order_sigs
\* never panics, and the contract never finds a transaction malformed or a
\* signature that does not match, for every validator set and everything issued.
THEOREM EncodingsAgree == AllSpec => []EveryoneSignsTheSame
  <1>1. AllInit => EveryoneSignsTheSame
    BY SigInvInit, SignatureAssumption DEF EveryoneSignsTheSame, Signing!EveryoneSignsTheSame
  <1>2. ASSUME Signing!EveryoneSignsTheSame, UNCHANGED Signing!vars
        PROVE  Signing!EveryoneSignsTheSame'
    BY <1>2 DEF Signing!EveryoneSignsTheSame, Signing!vars
  <1>3. ASSUME SigInv, Signing!Next PROVE Signing!EveryoneSignsTheSame'
    <2>1. outcome' \in Judged \/ outcome' \in {"not relayed", "accepted", "not enough power"}
      BY <1>3, SigInvStep, RelayStep, Zenon
    <2> QED
      BY <2>1 DEF Judged, Signing!EveryoneSignsTheSame
  <1>4. (part = "signing" => SigInv) /\ EveryoneSignsTheSame /\ [AllNext]_allVars
          => EveryoneSignsTheSame'
    BY <1>2, <1>3, PartSteps, Zenon DEF EveryoneSignsTheSame
  <1> QED
    BY <1>1, <1>4, SigInvAlways, PTL DEF AllSpec

\* Checkpoints: what order_sigs finds too weak to relay, the contract would
\* refuse in checkValidatorSignatures, for every validator set, every set of
\* confirmations and every threshold of at least 66 percent of the power.
THEOREM RelayerHoldsNothingBack == AllSpec => []NothingIsHeldBack
  <1>1. AllInit => NothingIsHeldBack
    BY SigInvInit, SignatureAssumption DEF NothingIsHeldBack, Signing!NothingIsHeldBack
  <1>2. ASSUME Signing!NothingIsHeldBack, UNCHANGED Signing!vars
        PROVE  Signing!NothingIsHeldBack'
    BY <1>2, SamePower, Zenon DEF Signing!NothingIsHeldBack, Signing!vars
  <1>3. ASSUME SigInv, Signing!Next PROVE Signing!NothingIsHeldBack'
    <2>1. CASE outcome' \in Judged
      BY <2>1 DEF Judged, Signing!NothingIsHeldBack
    <2>2. CASE Signing!Relay
      <3>1. /\ outcome' = "not relayed" => Signing!SignedPower <= PowerThreshold
            /\ current' = current /\ confirms' = confirms
        BY <1>3, <2>2, RelayStep, Zenon
      <3>2. Signing!SignedPower' = Signing!SignedPower
        BY <3>1, SamePower, Zenon
      <3> QED
        BY <3>1, <3>2, Zenon DEF Signing!NothingIsHeldBack
    <2> QED
      BY <1>3, <2>1, <2>2, SigInvStep, Zenon
  <1>4. (part = "signing" => SigInv) /\ NothingIsHeldBack /\ [AllNext]_allVars
          => NothingIsHeldBack'
    BY <1>2, <1>3, PartSteps, Zenon DEF NothingIsHeldBack
  <1> QED
    BY <1>1, <1>4, SigInvAlways, PTL DEF AllSpec

-----------------------------------------------------------------------------
(* EventDecoding                                                           *)

\* The bytes of a number at the end of n bytes.
Digits(m, n) == [i \in 1..m |-> IF i = m THEN n ELSE 0]

\* The left fold over the bytes, as it is defined on the sets of their indices.
Partial(g, b, s) ==
    IF s = {} THEN 0 ELSE 256 * g[s \ {Max(s)}] + b[Max(s)]

\* The parser reads a number back.
LEMMA DigitsAreRead ==
    ASSUME NEW m \in Nat \ {0}, NEW n \in Nat
    PROVE  Decoding!from_bytes_be(Digits(m, n)) = n
  <1> DEFINE b == Digits(m, n)
             it == CHOOSE g : g = [s \in SUBSET (1..m) |-> Partial(g, b, s)]
             wit == [s \in SUBSET (1..m) |-> IF m \in s THEN n ELSE 0]
  <1>1. DOMAIN b = 1..m /\ b[m] = n /\ \A i \in 1..m : i # m => b[i] = 0
    BY DEF Digits
  <1>2. ASSUME NEW s \in SUBSET (1..m), s # {}
        PROVE  Max(s) \in s /\ \A y \in s : y <= Max(s)
    <2>1. s \subseteq Nat /\ \A y \in s : y <= m
      OBVIOUS
    <2> QED
      BY <1>2, <2>1, MaxOfBounded
  <1>3. ASSUME NEW s \in SUBSET (1..m) PROVE wit[s] = Partial(wit, b, s)
    <2>1. CASE s = {}
      BY <2>1 DEF Partial
    <2>2. CASE s # {}
      <3> DEFINE x == Max(s)
      <3>1. x \in s /\ x \in 1..m /\ (m \in s => x = m) /\ s \ {x} \in SUBSET (1..m)
        <4>1. x \in s /\ \A y \in s : y <= x
          BY <1>2, <2>2
        <4> HIDE DEF x
        <4> QED
          BY <4>1
      <3>2. Partial(wit, b, s) = 256 * wit[s \ {x}] + b[x]
        BY <2>2 DEF Partial
      <3>3. wit[s \ {x}] = 0
        BY <3>1
      <3>4. wit[s] = b[x]
        <4> HIDE DEF b, x
        <4> QED
          BY <1>1, <3>1
      <3>5. b[x] \in Nat
        <4> HIDE DEF b, x
        <4> QED
          BY <1>1, <3>1
      <3> HIDE DEF b, x, wit
      <3> QED
        BY <3>2, <3>3, <3>4, <3>5
    <2> QED
      BY <2>1, <2>2
  <1>4. \E g : g = [s \in SUBSET (1..m) |-> Partial(g, b, s)]
    <2>1. wit = [s \in SUBSET (1..m) |-> Partial(wit, b, s)]
      <3> HIDE DEF b
      <3> QED
        BY <1>3
    <2> HIDE DEF wit, b
    <2> QED
      BY <2>1, Zenon
  <1>5. it = [s \in SUBSET (1..m) |-> Partial(it, b, s)]
    <2> HIDE DEF b
    <2> QED
      BY <1>4, Zenon
  <1>6. Decoding!from_bytes_be(b) = it[1..m]
    <2> HIDE DEF b
    <2> QED
      BY <1>1, Zenon
      DEF Decoding!from_bytes_be, Decoding!FoldLeft, Decoding!MapThenFoldSet, Decoding!Max, Max,
          Partial
  <1>7. ASSUME NEW k \in 1..m
        PROVE  it[1..k] = 256 * it[1..(k - 1)] + b[k]
    <2>1. 1..k \in SUBSET (1..m) /\ 1..k # {} /\ k \in 1..k
      OBVIOUS
    <2>2. Max(1..k) = k
      <3>1. Max(1..k) \in 1..k /\ k <= Max(1..k)
        BY <1>2, <2>1
      <3> QED
        BY ONLY <3>1, m \in Nat, k \in 1..m
    <2>3. (1..k) \ {k} = 1..(k - 1)
      OBVIOUS
    <2>4. it[1..k] = Partial(it, b, 1..k)
      <3> HIDE DEF it, b
      <3> QED
        BY <1>5, <2>1, Zenon
    <2> HIDE DEF it, b
    <2> QED
      BY <2>1, <2>2, <2>3, <2>4, Zenon DEF Partial
  <1>8. it[1..0] = 0
    <2>1. 1..0 = {}
      OBVIOUS
    <2> HIDE DEF it, b
    <2> QED
      BY <1>5, <2>1, Zenon DEF Partial
  <1>9. \A k \in 0..(m - 1) : it[1..k] = 0
    <2> DEFINE Bad == {k \in 0..(m - 1) : it[1..k] # 0}
    <2> SUFFICES ASSUME Bad # {} PROVE FALSE
      OBVIOUS
    <2>0. Bad \subseteq Nat
      OBVIOUS
    <2>1. PICK k \in Bad : \A y \in Bad : k <= y
      <3> HIDE DEF Bad
      <3> QED
        BY <2>0, LeastNat
    <2>2. k # 0
      BY <1>8
    <2>3. k - 1 \in 0..(m - 1) /\ k \in 1..m /\ k # m
      BY <2>2
    <2>4. it[1..(k - 1)] = 0
      <3> HIDE DEF it
      <3> QED
        BY <2>1, <2>3
    <2>5. it[1..k] = 256 * 0 + b[k]
      BY <1>7, <2>3, <2>4, Zenon
    <2>6. b[k] = 0
      BY <1>1, <2>3
    <2>7. it[1..k] = 0
      <3> HIDE DEF it, b
      <3> QED
        BY <2>5, <2>6
    <2> QED
      BY <2>7
  <1>10. it[1..m] = 256 * it[1..(m - 1)] + b[m] /\ it[1..(m - 1)] = 0
    <2>1. m \in 1..m /\ m - 1 \in 0..(m - 1)
      OBVIOUS
    <2> HIDE DEF it, b
    <2> QED
      BY <1>7, <1>9, <2>1, Zenon
  <1> HIDE DEF it, b
  <1>11. it[1..m] = n
    BY <1>1, <1>10
  <1> QED
    BY <1>6, <1>11 DEF b

-----------------------------------------------------------------------------
\* The bytes s are in the data at an offset.
Holds(data, off, s) ==
    off + Len(s) <= Len(data) /\ \A i \in 1..Len(s) : data[off + i] = s[i]

\* Bytes stay where they are when others are put behind them.
LEMMA HeldBefore ==
    ASSUME NEW a \in Seq(Nat), NEW b \in Seq(Nat), NEW s \in Seq(Nat), NEW off \in Nat,
           Holds(a, off, s)
    PROVE  Holds(a \o b, off, s)
  <1>1. a \o b \in Seq(Nat) /\ Len(a \o b) = Len(a) + Len(b) /\ Len(a) \in Nat /\ Len(b) \in Nat
        /\ Len(s) \in Nat /\ \A i \in 1..Len(a) : (a \o b)[i] = a[i]
    BY ConcatProperties
  <1> QED
    BY <1>1 DEF Holds

\* Bytes that are put behind others move by the length of those.
LEMMA HeldBehind ==
    ASSUME NEW a \in Seq(Nat), NEW b \in Seq(Nat), NEW s \in Seq(Nat), NEW off \in Nat,
           Holds(b, off, s)
    PROVE  Holds(a \o b, Len(a) + off, s)
  <1>1. a \o b \in Seq(Nat) /\ Len(a \o b) = Len(a) + Len(b) /\ Len(a) \in Nat /\ Len(b) \in Nat
        /\ Len(s) \in Nat /\ \A i \in 1..Len(b) : (a \o b)[Len(a) + i] = b[i]
    BY ConcatProperties
  <1> QED
    BY <1>1 DEF Holds

\* A slice is what is held.
LEMMA SliceIsHeld ==
    ASSUME NEW data \in Seq(Nat), NEW s \in Seq(Nat), NEW off \in Nat, Holds(data, off, s)
    PROVE  Decoding!Slice(data, off, off + Len(s)) = s
  <1> DEFINE t == SubSeq(data, off + 1, off + Len(s))
  <1>1. Len(s) \in Nat /\ \A i \in (off + 1) .. (off + Len(s)) : data[i] \in Nat
    BY DEF Holds
  <1>2. t \in Seq(Nat) /\ Len(t) = Len(s) /\ \A i \in 1..Len(s) : t[i] = data[off + i]
    BY <1>1, SubSeqProperties
  <1> HIDE DEF t
  <1>3. t = s
    <2>1. \A i \in 1..Len(s) : t[i] = s[i]
      BY <1>2 DEF Holds
    <2> QED
      BY <1>2, <2>1, SeqEqual
  <1> QED
    BY <1>3 DEF t, Decoding!Slice

\* A word is a number at the end of WordSize bytes.
LEMMA WordBytes ==
    ASSUME NEW n \in Nat
    PROVE  Decoding!Word(n) = Digits(WordSize, n) /\ Decoding!Word(n) \in Seq(Nat)
           /\ Len(Decoding!Word(n)) = WordSize
  BY DecodingAssumption DEF Decoding!Word, Digits

\* The parser reads the words of the data back, as numbers and as addresses.
LEMMA WordIsRead ==
    ASSUME NEW data \in Seq(Nat), NEW off \in Nat, NEW n \in Nat,
           Holds(data, off, Decoding!Word(n))
    PROVE  Decoding!WordAt(data, off) = n /\ Decoding!AddressAt(data, off) = n
  <1>1. Decoding!WordAt(data, off) = n
    <2>1. Decoding!Slice(data, off, off + WordSize) = Digits(WordSize, n)
      BY WordBytes, SliceIsHeld
    <2> QED
      BY <2>1, DigitsAreRead, DecodingAssumption DEF Decoding!WordAt
  <1>2. Decoding!AddressAt(data, off) = n
    <2> DEFINE m == WordSize - PrefixSize
               d == Digits(m, n)
    <2>1. m \in Nat \ {0} /\ PrefixSize \in Nat /\ WordSize \in Nat
      BY DecodingAssumption
    <2>2. d \in Seq(Nat) /\ Len(d) = m
      BY <2>1 DEF Digits
    <2>3. Holds(data, off + PrefixSize, d)
      <3>1. /\ off + WordSize <= Len(data)
            /\ \A i \in 1..WordSize : data[off + i] = Digits(WordSize, n)[i]
        BY WordBytes DEF Holds
      <3>2. off + PrefixSize + m <= Len(data)
        BY <2>1, <3>1
      <3>3. ASSUME NEW i \in 1..m PROVE data[(off + PrefixSize) + i] = d[i]
        <4>1. PrefixSize + i \in 1..WordSize /\ (off + PrefixSize) + i = off + (PrefixSize + i)
              /\ (PrefixSize + i = WordSize <=> i = m)
          BY <2>1
        <4>2. data[off + (PrefixSize + i)] = Digits(WordSize, n)[PrefixSize + i]
          BY <3>1, <4>1
        <4>3. Digits(WordSize, n)[PrefixSize + i] = d[i]
          BY <4>1 DEF Digits
        <4> QED
          BY <4>1, <4>2, <4>3, Zenon
      <3> HIDE DEF d
      <3> QED
        BY <2>1, <2>2, <3>2, <3>3 DEF Holds
    <2>4. Decoding!Slice(data, off + PrefixSize, off + PrefixSize + m) = d
      <3> HIDE DEF d, m
      <3>1. off + PrefixSize \in Nat
        BY <2>1
      <3> QED
        BY <2>2, <2>3, <3>1, SliceIsHeld
    <2>5. off + PrefixSize + m = off + WordSize
      BY <2>1
    <2> QED
      BY <2>1, <2>4, <2>5, DigitsAreRead DEF Decoding!AddressAt
  <1> QED
    BY <1>1, <1>2

-----------------------------------------------------------------------------
\* What FlattenSeq has put together after i sequences.
Flattened(g, seqs, i) == IF i = 1 THEN seqs[i] ELSE g[i - 1] \o seqs[i]

\* The recursive function of FlattenSeq exists.
LEMMA FlattenExists ==
    ASSUME NEW seqs, NEW len \in Nat
    PROVE  \E g : g = [i \in 1..len |-> Flattened(g, seqs, i)]
  <1> DEFINE Upto(g, n) == \A i \in 1..len : i <= n => g[i] = Flattened(g, seqs, i)
             Bad == {n \in Nat : ~ \E g : Upto(g, n)}
  <1>1. Bad = {}
    <2> SUFFICES ASSUME Bad # {} PROVE FALSE
      OBVIOUS
    <2>1. PICK n \in Bad : \A y \in Bad : n <= y
      <3>1. Bad \subseteq Nat
        OBVIOUS
      <3> HIDE DEF Bad
      <3> QED
        BY <3>1, LeastNat
    <2>2. n # 0
      OBVIOUS
    <2>3. n - 1 \in Nat /\ n - 1 \notin Bad
      <3> HIDE DEF Bad
      <3>1. n \in Nat
        BY DEF Bad
      <3> QED
        BY <2>1, <2>2, <3>1
    <2>4. PICK g : Upto(g, n - 1)
      <3> HIDE DEF Upto
      <3> QED
        BY <2>3
    <2> DEFINE h == [i \in 1..len |-> IF i = n THEN Flattened(g, seqs, i) ELSE g[i]]
    <2>5. ASSUME NEW i \in 1..len, i <= n PROVE h[i] = Flattened(h, seqs, i)
      <3>1. CASE i = 1
        BY <2>4, <2>5, <3>1 DEF Flattened
      <3>2. CASE i # 1
        <4>1. i - 1 \in 1..len /\ i - 1 # n
          BY <2>5, <3>2
        <4>2. h[i - 1] = g[i - 1]
          BY <4>1
        <4>3. h[i] = Flattened(g, seqs, i)
          BY <2>4, <2>5
        <4> HIDE DEF h
        <4> QED
          BY <3>2, <4>2, <4>3, Zenon DEF Flattened
      <3> QED
        BY <3>1, <3>2
    <2>6. Upto(h, n)
      <3> HIDE DEF h
      <3> QED
        BY <2>5
    <2> HIDE DEF h, Upto
    <2> QED
      BY <2>6
  <1>2. PICK g : Upto(g, len)
    <2> HIDE DEF Upto
    <2> QED
      BY <1>1
  <1> DEFINE f == [i \in 1..len |-> g[i]]
  <1>3. ASSUME NEW i \in 1..len PROVE f[i] = Flattened(f, seqs, i)
    <2>1. g[i] = Flattened(g, seqs, i) /\ f[i] = g[i]
      BY <1>2
    <2>2. i # 1 => f[i - 1] = g[i - 1]
      OBVIOUS
    <2> HIDE DEF f
    <2> QED
      BY <2>1, <2>2, Zenon DEF Flattened
  <1>4. f = [i \in 1..len |-> Flattened(f, seqs, i)]
    BY <1>3
  <1> HIDE DEF f
  <1> QED
    BY <1>4, Zenon

\* Word k of the words of numbers is number k.
LEMMA WordsHold ==
    ASSUME NEW numbers \in Seq(Nat), Len(numbers) > 0
    PROVE  /\ Decoding!Words(numbers) \in Seq(Nat)
           /\ Len(Decoding!Words(numbers)) = Len(numbers) * WordSize
           /\ \A k \in 1..Len(numbers) :
                Holds(Decoding!Words(numbers), (k - 1) * WordSize, Decoding!Word(numbers[k]))
  <1> DEFINE len == Len(numbers)
             seqs == [i \in DOMAIN numbers |-> Decoding!Word(numbers[i])]
             it == CHOOSE g : g = [i \in 1..len |-> Flattened(g, seqs, i)]
             Good(i) == /\ it[i] \in Seq(Nat) /\ Len(it[i]) = i * WordSize
                        /\ \A k \in 1..i : Holds(it[i], (k - 1) * WordSize, Decoding!Word(numbers[k]))
  <1>1. len \in Nat /\ len > 0 /\ DOMAIN numbers = 1..len /\ Len(seqs) = len
        /\ \A i \in 1..len : numbers[i] \in Nat /\ seqs[i] = Decoding!Word(numbers[i])
    OBVIOUS
  <1>2. WordSize \in Nat
    BY DecodingAssumption
  <1>3. it = [i \in 1..len |-> Flattened(it, seqs, i)]
    <2> HIDE DEF seqs, len
    <2> QED
      BY <1>1, FlattenExists, Zenon
  <1>4. Decoding!Words(numbers) = it[len]
    <2>1. Decoding!Words(numbers) = Decoding!FlattenSeq(seqs)
      BY DEF Decoding!Words
    <2> HIDE DEF seqs, len
    <2>2. Len(seqs) # 0
      BY <1>1
    <2> QED
      BY <1>1, <2>1, <2>2, Zenon DEF Decoding!FlattenSeq, Flattened
  <1>5. ASSUME NEW i \in 1..len
        PROVE  it[i] = IF i = 1 THEN Decoding!Word(numbers[1])
                       ELSE it[i - 1] \o Decoding!Word(numbers[i])
    <2> HIDE DEF seqs, len, it
    <2> QED
      BY <1>1, <1>3, Zenon DEF Flattened
  <1>6. ASSUME NEW n \in Nat
        PROVE  Holds(Decoding!Word(n), 0, Decoding!Word(n))
    BY <1>2, WordBytes DEF Holds
  <1> HIDE DEF it, seqs
  <1>7. Good(1)
    <2>1. it[1] = Decoding!Word(numbers[1]) /\ numbers[1] \in Nat
      BY <1>1, <1>5
    <2>2. 1 * WordSize = WordSize /\ \A k \in 1..1 : k = 1 /\ (k - 1) * WordSize = 0
      BY <1>2
    <2> QED
      BY <1>6, <2>1, <2>2, WordBytes, Zenon
  <1>8. ASSUME NEW i \in 2..len, Good(i - 1) PROVE Good(i)
    <2> DEFINE w == Decoding!Word(numbers[i])
               a == it[i - 1]
    <2>1. i \in 1..len /\ i # 1 /\ i - 1 \in Nat
      OBVIOUS
    <2>2. numbers[i] \in Nat /\ it[i] = a \o w
      BY <1>1, <1>5, <2>1
    <2>3. w \in Seq(Nat) /\ Len(w) = WordSize /\ Holds(w, 0, w)
      BY <1>6, <2>2, WordBytes
    <2>4. a \in Seq(Nat) /\ Len(a) = (i - 1) * WordSize
          /\ \A k \in 1..(i - 1) : Holds(a, (k - 1) * WordSize, Decoding!Word(numbers[k]))
      BY <1>8
    <2> HIDE DEF w, a
    <2>5. (i - 1) * WordSize + WordSize = i * WordSize /\ (i - 1) * WordSize \in Nat
      BY <1>2, <2>1
    <2>6. it[i] \in Seq(Nat) /\ Len(it[i]) = i * WordSize
      BY <2>2, <2>3, <2>4, <2>5, ConcatProperties
    <2>7. ASSUME NEW k \in 1..i
          PROVE  Holds(it[i], (k - 1) * WordSize, Decoding!Word(numbers[k]))
      <3>1. CASE k = i
        <4>1. Holds(a \o w, Len(a) + 0, w)
          BY <2>3, <2>4, HeldBehind
        <4>2. Len(a) + 0 = (i - 1) * WordSize
          BY <2>4, <2>5
        <4> QED
          BY <3>1, <4>1, <4>2, <2>2, Zenon DEF w
      <3>2. CASE k # i
        <4>1. k \in 1..(i - 1) /\ k \in 1..len /\ (k - 1) * WordSize \in Nat
          BY <1>2, <3>2
        <4>2. Decoding!Word(numbers[k]) \in Seq(Nat)
          BY <1>1, <4>1, WordBytes
        <4>3. Holds(a, (k - 1) * WordSize, Decoding!Word(numbers[k]))
          BY <2>4, <4>1
        <4> QED
          BY <2>2, <2>3, <2>4, <4>1, <4>2, <4>3, HeldBefore, Zenon
      <3> QED
        BY <3>1, <3>2
    <2> QED
      BY <2>6, <2>7
  <1>9. Good(len)
    <2> DEFINE Bad == {i \in 1..len : ~Good(i)}
    <2> HIDE DEF Good
    <2>1. Bad = {}
      <3> SUFFICES ASSUME Bad # {} PROVE FALSE
        OBVIOUS
      <3>1. Bad \subseteq Nat
        OBVIOUS
      <3>2. PICK i \in Bad : \A y \in Bad : i <= y
        <4> HIDE DEF Bad
        <4> QED
          BY <3>1, LeastNat
      <3>3. i # 1
        BY <1>7
      <3>4. i \in 2..len /\ i - 1 \in 1..len /\ i - 1 \notin Bad
        BY <3>2, <3>3
      <3> QED
        BY <1>8, <3>2, <3>4
    <2> QED
      BY <1>1, <2>1
  <1> QED
    BY <1>4, <1>9

-----------------------------------------------------------------------------
\* A topic, which is one word, is read back.
LEMMA TopicIsRead ==
    ASSUME NEW n \in Nat
    PROVE  /\ Decoding!WordAt(Decoding!Word(n), 0) = n
           /\ Decoding!AddressAt(Decoding!Word(n), 0) = n
           /\ Decoding!from_bytes_be(Decoding!Word(n)) = n
  <1>1. Holds(Decoding!Word(n), 0, Decoding!Word(n))
    BY WordBytes, DecodingAssumption DEF Holds
  <1> QED
    BY <1>1, WordBytes, WordIsRead, DigitsAreRead, DecodingAssumption

\* What ClaimsSayWhatHappened wants of the claim c for the event e.
RightClaim(e, c) ==
    IF Decoding!Representable(e) THEN c = Decoding!Told(e) ELSE c \in {Err, Panic}

\* What a parser returns is claimed rightly if the parser refuses what is not
\* representable but for the height, which send_ethereum_claims unwraps.
LEMMA ParsedIsClaimed ==
    ASSUME NEW e, NEW bad \in BOOLEAN, NEW parsed, NEW res, res = (IF bad THEN Err ELSE parsed),
           ~bad => /\ parsed # Err /\ parsed.block_height = e.block_height
                   /\ e.block_height \in Nat
                   /\ Decoding!WithRewardToken(parsed) = Decoding!Told(e),
           Decoding!Representable(e) <=> ~bad /\ e.block_height < U64MAX
    PROVE  RightClaim(e, Decoding!ClaimOf(res))
  <1>1. CASE bad
    BY <1>1, Zenon DEF RightClaim, Decoding!ClaimOf
  <1>2. CASE ~bad
    <2>1. Decoding!downcast_uint256(e.block_height) = None <=> ~(e.block_height < U64MAX)
      BY <1>2, DecodingAssumption, NabtAssumption DEF Decoding!downcast_uint256
    <2>2. Decoding!ClaimOf(res) = IF e.block_height < U64MAX THEN Decoding!Told(e) ELSE Panic
      BY <1>2, <2>1, Zenon DEF Decoding!ClaimOf
    <2> QED
      BY <1>2, <2>2, Zenon DEF RightClaim
  <1> QED
    BY <1>1, <1>2

\* The claim for an executed batch.
LEMMA BatchClaim ==
    ASSUME NEW e \in EmittedBatches
    PROVE  RightClaim(e, Decoding!ClaimOf(Decoding!batch_from_log(Decoding!LogOf(e))))
  <1> DEFINE l == Decoding!LogOf(e)
             bad == e.event_nonce > U64MAX \/ e.batch_nonce > U64MAX
                    \/ e.block_height = None \/ e.block_height > U64MAX
  <1>1. /\ e.kind = "batch" /\ e.batch_nonce \in Nat /\ e.erc20 \in Nat /\ e.event_nonce \in Nat
        /\ e.block_height \in Nat \cup {None}
    BY DEF EmittedBatches, Heights
  <1>2. l = [block_number |-> e.block_height,
             topics |-> <<Decoding!Word(e.batch_nonce), Decoding!Word(e.erc20)>>,
             data |-> Decoding!Word(e.event_nonce)]
    BY <1>1 DEF Decoding!LogOf
  <1> HIDE DEF l
  <1>3. /\ l.topics[1] = Decoding!Word(e.batch_nonce) /\ l.topics[2] = Decoding!Word(e.erc20)
        /\ l.data = Decoding!Word(e.event_nonce) /\ l.block_number = e.block_height
    BY <1>2
  <1>4. /\ Decoding!WordAt(l.topics[1], 0) = e.batch_nonce
        /\ Decoding!AddressAt(l.topics[2], 0) = e.erc20
        /\ Decoding!from_bytes_be(l.data) = e.event_nonce
    BY <1>1, <1>3, TopicIsRead
  <1>5. e = [kind |-> "batch", batch_nonce |-> e.batch_nonce, block_height |-> e.block_height,
             erc20 |-> e.erc20, event_nonce |-> e.event_nonce]
    BY DEF EmittedBatches
  <1>6. Decoding!Representable(e) <=> ~bad /\ e.block_height < U64MAX
    BY <1>1, DecodingAssumption, NabtAssumption DEF Decoding!Representable
  <1>7. Decoding!batch_from_log(l) = IF bad THEN Err ELSE e
    BY <1>3, <1>4, <1>5, Zenon DEF Decoding!batch_from_log, Decoding!HeightOverflows
  <1>8. Decoding!WithRewardToken(e) = Decoding!Told(e)
    BY <1>1 DEF Decoding!WithRewardToken, Decoding!Told
  <1>9. e # Err
    BY DecodingAssumption
  <1>10. ~bad => e.block_height \in Nat
    BY <1>1
  <1>11. bad \in BOOLEAN
    OBVIOUS
  <1> HIDE DEF bad
  <1> QED
    BY <1>6, <1>7, <1>8, <1>9, <1>10, <1>11, ParsedIsClaimed, Zenon DEF l

\* The claim for a deposit.
LEMMA DepositClaim ==
    ASSUME NEW e \in EmittedDeposits([1..WordSize -> Nat])
    PROVE  RightClaim(e, Decoding!ClaimOf(Decoding!deposit_from_log(Decoding!LogOf(e))))
  <1> DEFINE l == Decoding!LogOf(e)
             numbers == <<e.amount, e.event_nonce>>
             data == Decoding!Words(numbers)
             bad == e.event_nonce > U64MAX \/ e.block_height = None \/ e.block_height > U64MAX
             part20 == SubSeq(e.destination, PrefixSize + 1, WordSize)
             parsed == [kind |-> "deposit", erc20 |-> e.erc20, sender |-> e.sender,
                        destination |-> part20, block_height |-> e.block_height,
                        amount |-> e.amount, event_nonce |-> e.event_nonce]
  <1>1. /\ e.kind = "deposit" /\ e.erc20 \in Nat /\ e.sender \in Nat
        /\ e.destination \in [1..WordSize -> Nat]
        /\ e.amount \in Nat /\ e.event_nonce \in Nat /\ e.block_height \in Nat \cup {None}
    BY DEF EmittedDeposits, Heights
  <1>2. l = [block_number |-> e.block_height,
             topics |-> <<Decoding!Word(e.erc20), Decoding!Word(e.sender), e.destination>>,
             data |-> data]
    BY <1>1 DEF Decoding!LogOf
  <1>3. numbers \in Seq(Nat) /\ Len(numbers) = 2 /\ numbers[1] = e.amount
        /\ numbers[2] = e.event_nonce
    BY <1>1
  <1> HIDE DEF numbers, l
  <1>4. WordSize \in Nat /\ (1 - 1) * WordSize = 0 /\ (2 - 1) * WordSize = WordSize
        /\ 2 * WordSize = WordSize + WordSize
    BY DecodingAssumption
  <1>5. /\ data \in Seq(Nat) /\ Len(data) = WordSize + WordSize
        /\ Holds(data, 0, Decoding!Word(e.amount))
        /\ Holds(data, WordSize, Decoding!Word(e.event_nonce))
    <2>1. /\ data \in Seq(Nat) /\ Len(data) = 2 * WordSize
          /\ \A k \in 1..2 : Holds(data, (k - 1) * WordSize, Decoding!Word(numbers[k]))
      <3>1. Len(numbers) > 0
        BY <1>3
      <3> QED
        BY <1>3, <3>1, WordsHold, Zenon
    <2>2. 1 \in 1..2 /\ 2 \in 1..2
      OBVIOUS
    <2> HIDE DEF data
    <2> QED
      BY <1>3, <1>4, <2>1, <2>2, Zenon
  <1> HIDE DEF data
  <1>6. Decoding!from_bytes_be(Decoding!Slice(data, WordSize, Len(data))) = e.event_nonce
    <2>1. Decoding!Slice(data, WordSize, WordSize + WordSize) = Decoding!Word(e.event_nonce)
      <3>1. Decoding!Word(e.event_nonce) \in Seq(Nat)
            /\ Len(Decoding!Word(e.event_nonce)) = WordSize
        BY <1>1, WordBytes
      <3>2. Decoding!Slice(data, WordSize, WordSize + Len(Decoding!Word(e.event_nonce)))
              = Decoding!Word(e.event_nonce)
        BY <1>4, <1>5, <3>1, SliceIsHeld, Zenon
      <3> QED
        BY <3>1, <3>2, Zenon
    <2> QED
      BY <1>1, <1>5, <2>1, TopicIsRead, Zenon
  <1>7. Decoding!WordAt(data, 0) = e.amount
    BY <1>1, <1>5, WordIsRead
  <1>8. /\ l.topics[1] = Decoding!Word(e.erc20) /\ l.topics[2] = Decoding!Word(e.sender)
        /\ l.topics[3] = e.destination /\ l.data = data /\ l.block_number = e.block_height
    BY <1>2
  <1>9. /\ Decoding!AddressAt(l.topics[1], 0) = e.erc20
        /\ Decoding!AddressAt(l.topics[2], 0) = e.sender
        /\ Decoding!Slice(l.topics[3], PrefixSize, WordSize) = part20
    BY <1>1, <1>8, TopicIsRead DEF Decoding!Slice
  <1>10. Decoding!Representable(e) <=> ~bad /\ e.block_height < U64MAX
    BY <1>1, DecodingAssumption, NabtAssumption DEF Decoding!Representable
  <1>11. Decoding!deposit_from_log(l) = IF bad THEN Err ELSE parsed
    BY <1>6, <1>7, <1>8, <1>9, Zenon DEF Decoding!deposit_from_log, Decoding!HeightOverflows
  <1>12. part20 \in Seq(Nat)
    BY <1>1, DecodingAssumption
  <1> HIDE DEF part20
  <1>13. parsed # Err
    <2>1. parsed \in EmittedDeposits(Seq(Nat))
      BY <1>1, <1>12 DEF EmittedDeposits, Heights
    <2> HIDE DEF parsed
    <2> QED
      BY <2>1, DecodingAssumption
  <1>14. Decoding!WithRewardToken(parsed) = parsed
    BY Zenon DEF Decoding!WithRewardToken
  <1>15. Decoding!Told(e) = parsed
    <2>1. Decoding!Told(e) = [e EXCEPT !.destination = part20]
      BY <1>1 DEF Decoding!Told, part20
    <2>2. [e EXCEPT !.destination = part20] = parsed
      BY DEF EmittedDeposits
    <2> QED
      BY <2>1, <2>2
  <1>16. parsed.block_height = e.block_height /\ (~bad => e.block_height \in Nat) /\ bad \in BOOLEAN
    BY <1>1
  <1> HIDE DEF bad, parsed
  <1> QED
    BY <1>10, <1>11, <1>13, <1>14, <1>15, <1>16, ParsedIsClaimed, Zenon DEF l

\* A word of the words of numbers is read back.
LEMMA NumberIsRead ==
    ASSUME NEW numbers \in Seq(Nat), NEW k \in 1..Len(numbers), NEW off, off = (k - 1) * WordSize
    PROVE  /\ Decoding!WordAt(Decoding!Words(numbers), off) = numbers[k]
           /\ Decoding!AddressAt(Decoding!Words(numbers), off) = numbers[k]
  <1>1. Len(numbers) > 0 /\ numbers[k] \in Nat
    OBVIOUS
  <1>2. off \in Nat
    BY DecodingAssumption
  <1>3. /\ Decoding!Words(numbers) \in Seq(Nat)
        /\ Holds(Decoding!Words(numbers), off, Decoding!Word(numbers[k]))
    BY <1>1, WordsHold, Zenon
  <1> QED
    BY <1>1, <1>2, <1>3, WordIsRead, Zenon

\* Where the parts of a concatenation are.
LEMMA PartsAt ==
    ASSUME NEW a \in Seq(Nat), NEW b \in Seq(Nat)
    PROVE  /\ a \o b \in Seq(Nat) /\ Len(a \o b) = Len(a) + Len(b)
           /\ Len(a) \in Nat /\ Len(b) \in Nat
           /\ \A k \in 1..Len(a) : (a \o b)[k] = a[k]
           /\ \A i \in 1..Len(b) : (a \o b)[Len(a) + i] = b[i]
  BY ConcatProperties

\* The offsets that the parser computes are those of words.
LEMMA ArrayOffsets ==
    ASSUME NEW w \in Nat, NEW n \in Nat, NEW i \in Nat
    PROVE  /\ 6 * w + (i - 1) * w = ((6 + i) - 1) * w
           /\ ((6 + n) * w + w) + (i - 1) * w = ((7 + n + i) - 1) * w
  OBVIOUS

\* The numbers of a log with two arrays of n numbers.
ArraysIn(numbers, a, addrs, n, powers) ==
    /\ numbers \in Seq(Nat) /\ Len(numbers) = 7 + n + n
    /\ \A k \in 1..6 : numbers[k] = a[k]
    /\ \A i \in 1..n : numbers[6 + i] = addrs[i] /\ numbers[7 + n + i] = powers[i]

\* The numbers of the log of a valset have its arrays where ArraysIn says.
LEMMA ArrayNumbers ==
    ASSUME NEW a \in Seq(Nat), Len(a) = 6, NEW n \in Nat,
           NEW addrs \in Seq(Nat), Len(addrs) = n, NEW powers \in Seq(Nat), Len(powers) = n
    PROVE  ArraysIn(a \o addrs \o <<n>> \o powers, a, addrs, n, powers)
  <1> DEFINE numbers == a \o addrs \o <<n>> \o powers
             s1 == a \o addrs
             s2 == s1 \o <<n>>
  <1>1. /\ s1 \in Seq(Nat) /\ Len(s1) = 6 + n
        /\ \A k \in 1..6 : s1[k] = a[k]
        /\ \A i \in 1..n : s1[6 + i] = addrs[i]
    <2>1. /\ s1 \in Seq(Nat) /\ Len(s1) = Len(a) + Len(addrs)
          /\ \A k \in 1..Len(a) : s1[k] = a[k]
          /\ \A i \in 1..Len(addrs) : s1[Len(a) + i] = addrs[i]
      BY PartsAt, Zenon
    <2> HIDE DEF s1
    <2> QED
      BY <2>1, Zenon
  <1> HIDE DEF s1
  <1>2. <<n>> \in Seq(Nat) /\ Len(<<n>>) = 1
    OBVIOUS
  <1>3. s2 \in Seq(Nat) /\ Len(s2) = 7 + n /\ \A k \in 1..(6 + n) : s2[k] = s1[k]
    <2>1. /\ s2 \in Seq(Nat) /\ Len(s2) = Len(s1) + Len(<<n>>)
          /\ \A k \in 1..Len(s1) : s2[k] = s1[k]
      BY <1>1, <1>2, PartsAt, Zenon
    <2>2. (6 + n) + 1 = 7 + n
      OBVIOUS
    <2> HIDE DEF s2
    <2> QED
      BY <1>1, <1>2, <2>1, <2>2, Zenon
  <1>4. numbers = s2 \o powers
    BY DEF s1
  <1> HIDE DEF s2, numbers
  <1>5. /\ numbers \in Seq(Nat) /\ Len(numbers) = 7 + n + n
        /\ \A k \in 1..(7 + n) : numbers[k] = s2[k]
        /\ \A i \in 1..n : numbers[7 + n + i] = powers[i]
    <2>1. /\ numbers \in Seq(Nat) /\ Len(numbers) = Len(s2) + Len(powers)
          /\ \A k \in 1..Len(s2) : numbers[k] = s2[k]
          /\ \A i \in 1..Len(powers) : numbers[Len(s2) + i] = powers[i]
      <3>1. LET c == s2 \o powers
            IN  /\ c \in Seq(Nat) /\ Len(c) = Len(s2) + Len(powers)
                /\ \A k \in 1..Len(s2) : c[k] = s2[k]
                /\ \A i \in 1..Len(powers) : c[Len(s2) + i] = powers[i]
        BY ONLY powers \in Seq(Nat), <1>3, PartsAt, Zenon
      <3> QED
        BY ONLY <1>4, <3>1, Zenon
    <2> QED
      BY <1>3, <2>1, Zenon
  <1>6. ASSUME NEW k \in 1..6 PROVE numbers[k] = a[k]
    <2>1. k \in 1..(6 + n) /\ k \in 1..(7 + n)
      OBVIOUS
    <2> QED
      BY <1>1, <1>3, <1>5, <2>1, Zenon
  <1>7. ASSUME NEW i \in 1..n PROVE numbers[6 + i] = addrs[i]
    <2>1. 6 + i \in 1..(6 + n) /\ 6 + i \in 1..(7 + n)
      OBVIOUS
    <2> QED
      BY <1>1, <1>3, <1>5, <2>1, ZenonT(60)
  <1>8. ArraysIn(numbers, a, addrs, n, powers)
    BY <1>5, <1>6, <1>7, Zenon DEF ArraysIn
  <1> QED
    BY <1>8 DEF numbers

\* The parser finds the arrays of a valset at the offsets that it computes.
LEMMA ArraysAreRead ==
    ASSUME NEW e \in EmittedValsets(Nat)
    PROVE  LET data == Decoding!LogOf(e).data
           IN  Decoding!decode_data_bytes(data)
                 = IF e.event_nonce > U64MAX
                      \/ \E i \in 1..Len(e.members) : e.members[i].power > U64MAX
                   THEN Err
                   ELSE [event_nonce |-> e.event_nonce, reward_amount |-> e.reward_amount,
                         reward_token |-> IF e.reward_token = 0 THEN None ELSE e.reward_token,
                         members |-> e.members]
  <1> DEFINE n == Len(e.members)
             a == <<e.event_nonce, e.reward_amount, e.reward_token, 5 * WordSize,
                    (6 + n) * WordSize, n>>
             addrs == [i \in 1..n |-> e.members[i].eth_address]
             powers == [i \in 1..n |-> e.members[i].power]
             numbers == a \o addrs \o <<n>> \o powers
             data == Decoding!LogOf(e).data
  <1>1. /\ e.kind = "valset" /\ e.event_nonce \in Nat /\ e.reward_amount \in Nat
        /\ e.reward_token \in Nat /\ e.members \in Seq([eth_address : Nat, power : Nat])
    BY DEF EmittedValsets
  <1>2. n \in Nat /\ \A i \in 1..n : e.members[i] \in [eth_address : Nat, power : Nat]
    <2>1. n \in Nat /\ DOMAIN e.members = 1..n
      BY <1>1
    <2> QED
      BY <1>1, <2>1, SeqElement, Zenon
  <1>3. WordSize \in Nat
    BY DecodingAssumption
  <1>4. data = Decoding!Words(numbers)
    BY <1>1 DEF Decoding!LogOf
  <1>5. /\ a \in Seq(Nat) /\ Len(a) = 6 /\ a[1] = e.event_nonce /\ a[2] = e.reward_amount
        /\ a[3] = e.reward_token /\ a[6] = n
    <2>1. 5 * WordSize \in Nat /\ (6 + n) * WordSize \in Nat
      BY <1>2, <1>3
    <2> QED
      BY <1>1, <1>2, <2>1
  <1>6. addrs \in Seq(Nat) /\ Len(addrs) = n /\ powers \in Seq(Nat) /\ Len(powers) = n
    BY <1>2
  <1> HIDE DEF a, addrs, powers, n, data
  <1>7. /\ numbers \in Seq(Nat) /\ Len(numbers) = 7 + n + n
        /\ \A k \in 1..6 : numbers[k] = a[k]
        /\ \A i \in 1..n : numbers[6 + i] = addrs[i] /\ numbers[7 + n + i] = powers[i]
    <2>1. ArraysIn(a \o addrs \o <<n>> \o powers, a, addrs, n, powers)
      BY <1>2, <1>5, <1>6, ArrayNumbers, Zenon
    <2> QED
      BY <2>1, Zenon DEF ArraysIn
  <1> HIDE DEF numbers
  <1>8. ASSUME NEW k \in 1..6, NEW off, off = (k - 1) * WordSize
        PROVE  Decoding!WordAt(data, off) = a[k] /\ Decoding!AddressAt(data, off) = a[k]
    <2>1. k \in 1..Len(numbers)
      BY <1>2, <1>7
    <2> QED
      BY <1>4, <1>7, <1>8, <2>1, NumberIsRead, Zenon
  <1>9. /\ Decoding!WordAt(data, 0) = e.event_nonce
        /\ Decoding!WordAt(data, WordSize) = e.reward_amount
        /\ Decoding!AddressAt(data, 2 * WordSize) = e.reward_token
        /\ Decoding!WordAt(data, 5 * WordSize) = n
    <2>1. /\ 0 = (1 - 1) * WordSize /\ WordSize = (2 - 1) * WordSize
          /\ 2 * WordSize = (3 - 1) * WordSize /\ 5 * WordSize = (6 - 1) * WordSize
          /\ 1 \in 1..6 /\ 2 \in 1..6 /\ 3 \in 1..6 /\ 6 \in 1..6
      BY <1>3
    <2> QED
      BY <1>5, <1>8, <2>1, Zenon
  <1>10. ASSUME NEW i \in 1..n
         PROVE  /\ Decoding!AddressAt(data, 6 * WordSize + (i - 1) * WordSize)
                     = e.members[i].eth_address
                /\ Decoding!WordAt(data, Decoding!PowersOffset(n) + (i - 1) * WordSize)
                     = e.members[i].power
    <2>1. /\ 6 + i \in 1..Len(numbers) /\ 7 + n + i \in 1..Len(numbers)
          /\ 6 * WordSize + (i - 1) * WordSize = ((6 + i) - 1) * WordSize
          /\ ((6 + n) * WordSize + WordSize) + (i - 1) * WordSize = ((7 + n + i) - 1) * WordSize
      <3>1. n \in Nat /\ Len(numbers) = 7 + n + n /\ i \in 1..n /\ i \in Nat
        BY <1>2, <1>7
      <3>2. 6 + i \in 1..Len(numbers) /\ 7 + n + i \in 1..Len(numbers)
        BY ONLY <3>1
      <3> QED
        BY <1>3, <3>1, <3>2, ArrayOffsets, Zenon
    <2>2. Decoding!AddressAt(data, 6 * WordSize + (i - 1) * WordSize) = addrs[i]
      BY <1>4, <1>7, <2>1, NumberIsRead, Zenon
    <2>3. Decoding!WordAt(data, Decoding!PowersOffset(n) + (i - 1) * WordSize) = powers[i]
      BY <1>4, <1>7, <2>1, NumberIsRead, Zenon DEF Decoding!PowersOffset
    <2> QED
      BY <2>2, <2>3 DEF addrs, powers
  <1> DEFINE members == [i \in 1..n |->
                 [eth_address |-> Decoding!AddressAt(data, 6 * WordSize + (i - 1) * WordSize),
                  power |-> Decoding!WordAt(data, Decoding!PowersOffset(n) + (i - 1) * WordSize)]]
  <1>11. ASSUME NEW i \in 1..n PROVE members[i] = e.members[i]
    <2>1. members[i] = [eth_address |-> e.members[i].eth_address, power |-> e.members[i].power]
      BY <1>10, Zenon
    <2> HIDE DEF members
    <2> QED
      BY <1>2, <2>1
  <1>12. members = e.members
    <2>1. e.members = [i \in 1..n |-> e.members[i]]
      BY <1>1 DEF n
    <2>2. members = [i \in 1..n |-> members[i]]
      OBVIOUS
    <2> HIDE DEF members
    <2> QED
      BY <1>11, <2>1, <2>2, Zenon
  <1>13. Decoding!decode_data_bytes(data)
          = IF e.event_nonce > U64MAX \/ \E i \in 1..n : members[i].power > U64MAX
            THEN Err
            ELSE [event_nonce |-> e.event_nonce, reward_amount |-> e.reward_amount,
                  reward_token |-> IF e.reward_token = 0 THEN None ELSE e.reward_token,
                  members |-> members]
    BY <1>9, Zenon DEF Decoding!decode_data_bytes, Decoding!ZERO_ADDRESS
  <1> HIDE DEF members
  <1> QED
    BY <1>12, <1>13, Zenon DEF n, data

\* The claim for a validator set.
LEMMA ValsetClaim ==
    ASSUME NEW e \in EmittedValsets(Nat)
    PROVE  RightClaim(e, Decoding!ClaimOf(Decoding!valset_from_log(Decoding!LogOf(e))))
  <1> DEFINE l == Decoding!LogOf(e)
             bad == e.event_nonce > U64MAX
                    \/ \E i \in 1..Len(e.members) : e.members[i].power > U64MAX
             token == IF e.reward_token = 0 THEN None ELSE e.reward_token
             decoded == [event_nonce |-> e.event_nonce, reward_amount |-> e.reward_amount,
                         reward_token |-> token, members |-> e.members]
             refused == e.valset_nonce > U64MAX \/ e.block_height = None \/ bad
             parsed == [kind |-> "valset", valset_nonce |-> e.valset_nonce,
                        block_height |-> e.block_height, event_nonce |-> e.event_nonce, reward_amount |-> e.reward_amount,
                        reward_token |-> token, members |-> e.members]
  <1>1. /\ e.kind = "valset" /\ e.event_nonce \in Nat /\ e.reward_amount \in Nat
        /\ e.reward_token \in Nat /\ e.members \in Seq([eth_address : Nat, power : Nat])
        /\ e.valset_nonce \in Nat /\ e.block_height \in Nat \cup {None}
    BY DEF EmittedValsets, Heights
  <1>2. Decoding!WordAt(l.topics[1], 0) = e.valset_nonce /\ l.block_number = e.block_height
    <2>1. l.topics[1] = Decoding!Word(e.valset_nonce) /\ l.block_number = e.block_height
      BY <1>1 DEF Decoding!LogOf
    <2> HIDE DEF l
    <2> QED
      BY <1>1, <2>1, TopicIsRead
  <1>3. Decoding!decode_data_bytes(l.data) = IF bad THEN Err ELSE decoded
    BY ArraysAreRead
  <1>4. token \in Nat \cup {None} /\ (token = None <=> e.reward_token = 0)
        /\ (token # None => token = e.reward_token)
    BY <1>1, NabtAssumption
  <1>5. decoded # Err /\ parsed # Err
    <2> HIDE DEF token
    <2>1. decoded \in DecodedData
      BY <1>1, <1>4 DEF DecodedData
    <2>2. parsed \in EmittedValsets(Nat \cup {None})
      BY <1>1, <1>4 DEF EmittedValsets, Heights
    <2> HIDE DEF decoded, parsed
    <2> QED
      BY <2>1, <2>2, DecodingAssumption
  <1>6. Decoding!Representable(e) <=> ~refused /\ e.block_height < U64MAX
    <2>1. DOMAIN e.members = 1..Len(e.members) /\ \A i \in 1..Len(e.members) : e.members[i].power \in Nat
      <3>1. DOMAIN e.members = 1..Len(e.members)
        BY <1>1
      <3>2. \A i \in DOMAIN e.members : e.members[i] \in [eth_address : Nat, power : Nat]
        BY <1>1, SeqElement, Zenon
      <3> QED
        BY <3>1, <3>2
    <2>2. /\ e.event_nonce <= U64MAX <=> ~(e.event_nonce > U64MAX)
          /\ e.valset_nonce <= U64MAX <=> ~(e.valset_nonce > U64MAX)
          /\ \A i \in 1..Len(e.members) :
               e.members[i].power <= U64MAX <=> ~(e.members[i].power > U64MAX)
      <3>1. \A x \in Nat : x <= U64MAX <=> ~(x > U64MAX)
        BY DecodingAssumption
      <3> QED
        BY <1>1, <2>1, <3>1, Zenon
    <2>3. e.kind # "batch" /\ e.kind # "erc20"
      BY <1>1
    <2> QED
      BY <1>1, <2>1, <2>2, <2>3, Zenon DEF Decoding!Representable
  <1>7. Decoding!valset_from_log(l)
          = IF refused THEN Err ELSE parsed
    <2>1. /\ decoded.event_nonce = e.event_nonce /\ decoded.reward_amount = e.reward_amount
          /\ decoded.reward_token = token /\ decoded.members = e.members
      BY Zenon
    <2> HIDE DEF decoded, bad, token, l
    <2> QED
      BY <1>2, <1>3, <1>5, <2>1, Zenon DEF Decoding!valset_from_log
  <1>8. Decoding!Told(e) = e
    BY <1>1 DEF Decoding!Told
  <1>9. Decoding!WithRewardToken(parsed) = e
    <2>1. parsed.kind = "valset" /\ parsed.reward_token = token
      BY Zenon
    <2>2. CASE token = None
      <3>1. Decoding!WithRewardToken(parsed) = [parsed EXCEPT !.reward_token = 0]
        <4> HIDE DEF parsed, token
        <4> QED
          BY <2>1, <2>2, Zenon DEF Decoding!WithRewardToken, Decoding!ZERO_ADDRESS
      <3>2. [parsed EXCEPT !.reward_token = 0]
              = [kind |-> "valset", valset_nonce |-> e.valset_nonce,
                 block_height |-> e.block_height, event_nonce |-> e.event_nonce, reward_amount |-> e.reward_amount,
                 reward_token |-> 0, members |-> e.members]
        <4> HIDE DEF token
        <4> QED
          OBVIOUS
      <3>3. e.reward_token = 0
        BY <1>4, <2>2
      <3>4. e = [kind |-> "valset", valset_nonce |-> e.valset_nonce,
                 block_height |-> e.block_height, event_nonce |-> e.event_nonce, reward_amount |-> e.reward_amount,
                 reward_token |-> e.reward_token, members |-> e.members]
        BY DEF EmittedValsets
      <3> HIDE DEF parsed, token
      <3> QED
        BY <3>1, <3>2, <3>3, <3>4, Zenon
    <2>3. CASE token # None
      <3>1. Decoding!WithRewardToken(parsed) = parsed
        <4> HIDE DEF parsed, token
        <4> QED
          BY <2>1, <2>3, Zenon DEF Decoding!WithRewardToken
      <3>2. token = e.reward_token
        BY <1>4, <2>3
      <3>3. e = [kind |-> "valset", valset_nonce |-> e.valset_nonce,
                 block_height |-> e.block_height, event_nonce |-> e.event_nonce, reward_amount |-> e.reward_amount,
                 reward_token |-> e.reward_token, members |-> e.members]
        BY DEF EmittedValsets
      <3> HIDE DEF token
      <3> QED
        BY <3>1, <3>2, <3>3, Zenon
    <2> QED
      BY <2>2, <2>3
  <1>10. /\ parsed.block_height = e.block_height /\ (~refused => e.block_height \in Nat)
         /\ refused \in BOOLEAN
    <2> HIDE DEF bad
    <2> QED
      BY <1>1
  <1> HIDE DEF parsed, refused, l
  <1> QED
    BY <1>5, <1>6, <1>7, <1>8, <1>9, <1>10, ParsedIsClaimed, Zenon DEF l

-----------------------------------------------------------------------------
\* A number of bytes, filled up to whole words.
RoundUp(x) == ((x + WordSize - 1) \div WordSize) * WordSize

\* Division by the size of a word.
LEMMA DivideWords ==
    ASSUME NEW w \in Nat \ {0}, NEW x \in Nat
    PROVE  /\ (x \div w) \in Nat
           /\ (x \div w) * w <= x /\ x < (x \div w) * w + w
  OBVIOUS

\* Less than one word more is no word more.
LEMMA WordsBetween ==
    ASSUME NEW w \in Nat \ {0}, NEW a \in Nat, NEW b \in Nat, a * w < b * w + w
    PROVE  a <= b
  <1> SUFFICES ASSUME a > b PROVE FALSE
    OBVIOUS
  <1>1. (a - b - 1) * w \in Nat
    OBVIOUS
  <1>2. a * w = (a - b - 1) * w + b * w + w
    OBVIOUS
  <1> QED
    BY <1>1, <1>2

\* Rounding up gives the least number of words that is enough.
LEMMA RoundedUp ==
    ASSUME NEW x \in Nat
    PROVE  \E q \in Nat : /\ RoundUp(x) = q * WordSize
                          /\ x <= q * WordSize /\ q * WordSize < x + WordSize
  <1> DEFINE q == (x + WordSize - 1) \div WordSize
  <1>1. WordSize \in Nat \ {0} /\ x + WordSize - 1 \in Nat
    BY DecodingAssumption
  <1>2. q \in Nat /\ q * WordSize <= x + WordSize - 1 /\ x + WordSize - 1 < q * WordSize + WordSize
    BY <1>1, DivideWords
  <1> HIDE DEF q
  <1>3. q * WordSize \in Nat
    BY <1>1, <1>2
  <1>4. x <= q * WordSize /\ q * WordSize < x + WordSize
    BY <1>1, <1>2, <1>3
  <1> QED
    BY <1>2, <1>4 DEF RoundUp, q

\* "This trick computes the next word": whole words before do not matter.
LEMMA RoundUpShift ==
    ASSUME NEW k \in Nat, NEW x \in Nat
    PROVE  RoundUp(k * WordSize + x) = k * WordSize + RoundUp(x)
  <1>1. WordSize \in Nat \ {0} /\ k * WordSize \in Nat /\ k * WordSize + x \in Nat
    BY DecodingAssumption
  <1>2. PICK q \in Nat : /\ RoundUp(x) = q * WordSize
                         /\ x <= q * WordSize /\ q * WordSize < x + WordSize
    BY RoundedUp
  <1>3. PICK r \in Nat : /\ RoundUp(k * WordSize + x) = r * WordSize
                         /\ k * WordSize + x <= r * WordSize
                         /\ r * WordSize < k * WordSize + x + WordSize
    BY <1>1, RoundedUp
  <1>4. /\ (k + q) * WordSize = k * WordSize + q * WordSize
        /\ q * WordSize \in Nat /\ r * WordSize \in Nat /\ k + q \in Nat
    BY <1>1
  <1>5. r * WordSize < (k + q) * WordSize + WordSize /\ (k + q) * WordSize < r * WordSize + WordSize
    BY <1>1, <1>2, <1>3, <1>4
  <1>6. r <= k + q /\ k + q <= r
    BY <1>1, <1>4, <1>5, WordsBetween
  <1>7. r = k + q
    BY <1>6, <1>4
  <1> QED
    BY <1>2, <1>3, <1>4, <1>7, Zenon

\* What is held in what is held.
LEMMA HeldWithin ==
    ASSUME NEW data \in Seq(Nat), NEW t \in Seq(Nat), NEW s \in Seq(Nat),
           NEW off \in Nat, NEW at \in Nat, Holds(data, off, t), Holds(t, at, s)
    PROVE  Holds(data, off + at, s)
  <1>1. Len(data) \in Nat /\ Len(t) \in Nat /\ Len(s) \in Nat
    OBVIOUS
  <1>2. off + at + Len(s) <= Len(data)
    BY <1>1 DEF Holds
  <1>3. ASSUME NEW i \in 1..Len(s) PROVE data[off + at + i] = s[i]
    <2>1. at + i \in 1..Len(t) /\ off + (at + i) = off + at + i
      BY <1>1 DEF Holds
    <2>2. data[off + (at + i)] = t[at + i] /\ t[at + i] = s[i]
      BY <2>1 DEF Holds
    <2> QED
      BY <2>1, <2>2, Zenon
  <1> QED
    BY <1>2, <1>3 DEF Holds

\* A string is its length, its bytes and zeros up to the end of a word.
LEMMA StringBytes ==
    ASSUME NEW s \in Seq(Nat)
    PROVE  /\ Decoding!StringData(s) \in Seq(Nat)
           /\ Len(Decoding!StringData(s)) = WordSize + RoundUp(Len(s))
           /\ \E q \in Nat : Len(Decoding!StringData(s)) = q * WordSize
           /\ Holds(Decoding!StringData(s), 0, Decoding!Word(Len(s)))
           /\ Holds(Decoding!StringData(s), WordSize, s)
  <1> DEFINE w == Decoding!Word(Len(s))
             size == RoundUp(Len(s))
             b == [i \in 1..size |-> IF i \in DOMAIN s THEN s[i] ELSE 0]
  <1>1. WordSize \in Nat /\ Len(s) \in Nat /\ DOMAIN s = 1..Len(s)
    BY DecodingAssumption
  <1>2. PICK q \in Nat : size = q * WordSize /\ Len(s) <= q * WordSize
    BY <1>1, RoundedUp
  <1>3. q * WordSize \in Nat /\ WordSize + q * WordSize = (q + 1) * WordSize /\ q + 1 \in Nat
    BY <1>1
  <1>4. w \in Seq(Nat) /\ Len(w) = WordSize /\ Holds(w, 0, w)
    <2>1. w \in Seq(Nat) /\ Len(w) = WordSize
      BY <1>1, WordBytes
    <2> HIDE DEF w
    <2> QED
      BY <1>1, <2>1 DEF Holds
  <1>5. size \in Nat /\ Len(s) <= size
    BY <1>2, <1>3, Zenon
  <1>6. Decoding!StringData(s) = w \o b
    BY DEF Decoding!StringData, RoundUp
  <1> HIDE DEF w, size
  <1>7. b \in Seq(Nat) /\ Len(b) = size /\ Holds(b, 0, s)
    <2>1. \A i \in 1..size : b[i] \in Nat
      BY <1>1
    <2>2. b \in Seq(Nat) /\ Len(b) = size
      BY <1>5, <2>1
    <2>3. \A i \in 1..Len(s) : i \in 1..size /\ b[i] = s[i]
      BY <1>1, <1>5
    <2> HIDE DEF b
    <2> QED
      BY <1>1, <1>5, <2>2, <2>3 DEF Holds
  <1> HIDE DEF b
  <1>8. w \o b \in Seq(Nat) /\ Len(w \o b) = WordSize + size
    BY <1>4, <1>7, PartsAt, Zenon
  <1>9. Holds(w \o b, 0, w)
    BY <1>4, <1>7, HeldBefore
  <1>10. Holds(w \o b, Len(w) + 0, s)
    BY <1>4, <1>7, HeldBehind
  <1>11. Len(w) + 0 = WordSize
    BY <1>1, <1>4
  <1>12. \E r \in Nat : WordSize + size = r * WordSize
    BY <1>2, <1>3, Zenon
  <1> QED
    BY <1>6, <1>8, <1>9, <1>10, <1>11, <1>12, Zenon DEF w, size

\* What the parser makes of the string s.
TextOf(s) == IF Len(s) > U32MAX THEN Err ELSE Decoding!from_utf8(s)

\* A string that starts at a word is read back, and the next word after it is
\* found.
LEMMA StringIsRead ==
    ASSUME NEW data \in Seq(Nat), NEW s \in Seq(Nat), NEW k \in Nat,
           Holds(data, k * WordSize, Decoding!StringData(s))
    PROVE  /\ Decoding!StringAt(data, k * WordSize).text = TextOf(s)
           /\ Decoding!StringAt(data, k * WordSize).next
                = k * WordSize + Len(Decoding!StringData(s))
  <1> DEFINE start == k * WordSize
             t == Decoding!StringData(s)
  <1>1. WordSize \in Nat /\ start \in Nat /\ Len(s) \in Nat /\ start + WordSize \in Nat
        /\ start + 0 = start
    BY DecodingAssumption
  <1>2. /\ t \in Seq(Nat) /\ Len(t) = WordSize + RoundUp(Len(s))
        /\ Holds(t, 0, Decoding!Word(Len(s))) /\ Holds(t, WordSize, s)
    BY StringBytes, Zenon
  <1>3. Holds(data, start, t)
    OBVIOUS
  <1>4. (k * WordSize + WordSize) + Len(s) = (k + 1) * WordSize + Len(s) /\ k + 1 \in Nat
    BY <1>1
  <1>5. RoundUp(start + WordSize + Len(s)) = start + Len(t)
    <2>1. RoundUp(start + WordSize + Len(s)) = (k + 1) * WordSize + RoundUp(Len(s))
      BY <1>1, <1>4, RoundUpShift, Zenon
    <2>2. RoundUp(Len(s)) \in Nat
      <3>1. PICK q \in Nat : RoundUp(Len(s)) = q * WordSize
        BY <1>1, RoundedUp
      <3>2. q * WordSize \in Nat
        BY <1>1
      <3> QED
        BY <3>1, <3>2, Zenon
    <2>3. (k + 1) * WordSize + RoundUp(Len(s)) = k * WordSize + (WordSize + RoundUp(Len(s)))
      BY <1>1, <2>2
    <2> QED
      BY <1>2, <2>1, <2>3, Zenon
  <1> HIDE DEF start, t
  <1>6. Decoding!Word(Len(s)) \in Seq(Nat)
    BY <1>1, WordBytes
  <1>7. Holds(data, start + 0, Decoding!Word(Len(s))) /\ Holds(data, start + WordSize, s)
    BY <1>1, <1>2, <1>3, <1>6, HeldWithin
  <1>8. Decoding!WordAt(data, start) = Len(s)
    BY <1>1, <1>7, WordIsRead, Zenon
  <1>9. Decoding!Slice(data, start + WordSize, start + WordSize + Len(s)) = s
    BY <1>1, <1>7, SliceIsHeld
  <1>10. Decoding!StringAt(data, start)
          = [text |-> TextOf(s), next |-> RoundUp(start + WordSize + Len(s))]
    BY <1>8, <1>9, Zenon DEF Decoding!StringAt, Decoding!NextWord, RoundUp, TextOf
  <1>11. /\ Decoding!StringAt(data, start).text = TextOf(s)
         /\ Decoding!StringAt(data, start).next = start + Len(t)
    BY ONLY <1>5, <1>10
  <1> QED
    BY <1>11 DEF start, t

\* The three strings d, n and s and two numbers are read from the data.
StringsIn(data, numbers, d, n, s) ==
    LET denom == Decoding!StringAt(data, 5 * WordSize)
        name == Decoding!StringAt(data, denom.next)
        symbol == Decoding!StringAt(data, name.next)
    IN  /\ denom.text = TextOf(d) /\ name.text = TextOf(n)
        /\ symbol.text = TextOf(s)
        /\ Decoding!WordAt(data, 3 * WordSize) = numbers[4]
        /\ Decoding!WordAt(data, 4 * WordSize) = numbers[5]

\* The three strings behind the five words of the log of a new ERC20 are read.
LEMMA StringsAreRead ==
    ASSUME NEW numbers \in Seq(Nat), Len(numbers) = 5,
           NEW d \in Seq(Nat), NEW n \in Seq(Nat), NEW s \in Seq(Nat)
    PROVE  StringsIn(Decoding!Words(numbers) \o Decoding!StringData(d) \o Decoding!StringData(n)
                       \o Decoding!StringData(s), numbers, d, n, s)
  <1> DEFINE data == Decoding!Words(numbers) \o Decoding!StringData(d)
                       \o Decoding!StringData(n) \o Decoding!StringData(s)
             h == Decoding!Words(numbers)
             sd == Decoding!StringData(d)
             sn == Decoding!StringData(n)
             ss == Decoding!StringData(s)
             h1 == h \o sd
             h2 == h1 \o sn
  <1>1. WordSize \in Nat
    BY DecodingAssumption
  <1>2. /\ h \in Seq(Nat) /\ Len(h) = 5 * WordSize
        /\ \A k \in 1..5 : Holds(h, (k - 1) * WordSize, Decoding!Word(numbers[k]))
    <2>1. Len(numbers) > 0
      OBVIOUS
    <2> QED
      BY <2>1, WordsHold, Zenon
  <1>3. sd \in Seq(Nat) /\ sn \in Seq(Nat) /\ ss \in Seq(Nat)
    BY StringBytes
  <1>4. PICK qd \in Nat : Len(sd) = qd * WordSize
    BY StringBytes
  <1>5. PICK qn \in Nat : Len(sn) = qn * WordSize
    BY StringBytes
  <1> HIDE DEF h, sd, sn, ss
  <1>6. /\ h1 \in Seq(Nat) /\ Len(h1) = Len(h) + Len(sd)
    BY <1>2, <1>3, PartsAt, Zenon
  <1>7. ASSUME NEW t \in Seq(Nat) PROVE Holds(t, 0, t)
    BY DEF Holds
  <1>8. Holds(h1, Len(h) + 0, sd)
    BY <1>2, <1>3, <1>7, HeldBehind
  <1> HIDE DEF h1
  <1>9. /\ h2 \in Seq(Nat) /\ Len(h2) = Len(h1) + Len(sn)
    BY <1>3, <1>6, PartsAt, Zenon
  <1>10. Holds(h2, Len(h1) + 0, sn)
    BY <1>3, <1>6, <1>7, HeldBehind
  <1>11. data = h2 \o ss
    BY DEF h, h1, sd, sn, ss
  <1> HIDE DEF h2, data
  <1>12. data \in Seq(Nat)
    BY <1>3, <1>9, <1>11, PartsAt, Zenon
  <1>13. Holds(data, Len(h2) + 0, ss)
    BY <1>3, <1>7, <1>9, <1>11, HeldBehind, Zenon
  <1>14. /\ Len(h) + 0 = 5 * WordSize /\ Len(h1) + 0 = (5 + qd) * WordSize
         /\ Len(h2) + 0 = (5 + qd + qn) * WordSize
         /\ 5 \in Nat /\ 5 + qd \in Nat /\ 5 + qd + qn \in Nat
         /\ 5 * WordSize \in Nat /\ (5 + qd) * WordSize \in Nat
         /\ 5 * WordSize + Len(sd) = (5 + qd) * WordSize
         /\ (5 + qd) * WordSize + Len(sn) = (5 + qd + qn) * WordSize
    BY <1>1, <1>2, <1>4, <1>5, <1>6, <1>9
  <1>15. Holds(data, 5 * WordSize, sd) /\ Holds(data, (5 + qd) * WordSize, sn)
    <2>1. Holds(h1, 5 * WordSize, sd) /\ Holds(h2, (5 + qd) * WordSize, sn)
      BY <1>8, <1>10, <1>14, Zenon
    <2>2. Holds(h2, 5 * WordSize, sd)
      BY <1>3, <1>6, <1>14, <2>1, HeldBefore DEF h2
    <2> QED
      BY <1>3, <1>9, <1>11, <1>14, <2>1, <2>2, HeldBefore
  <1>16. ASSUME NEW k \in 1..5, NEW off, off = (k - 1) * WordSize
         PROVE  Decoding!WordAt(data, off) = numbers[k]
    <2>1. off \in Nat /\ numbers[k] \in Nat
      <3>1. k - 1 \in Nat /\ k \in DOMAIN numbers
        OBVIOUS
      <3>2. (k - 1) * WordSize \in Nat
        BY <1>1, <3>1
      <3> QED
        BY <1>16, <3>1, <3>2, SeqElement, Zenon
    <2>2. Decoding!Word(numbers[k]) \in Seq(Nat) /\ Holds(h, off, Decoding!Word(numbers[k]))
      BY <1>2, <1>16, <2>1, WordBytes
    <2>3. Holds(h1, off, Decoding!Word(numbers[k]))
      BY <1>2, <1>3, <2>1, <2>2, HeldBefore DEF h1
    <2>4. Holds(h2, off, Decoding!Word(numbers[k]))
      BY <1>3, <1>6, <2>1, <2>2, <2>3, HeldBefore DEF h2
    <2>5. Holds(data, off, Decoding!Word(numbers[k]))
      BY <1>3, <1>9, <1>11, <2>1, <2>2, <2>4, HeldBefore
    <2> QED
      BY <1>12, <2>1, <2>5, WordIsRead
  <1>17. Decoding!WordAt(data, 3 * WordSize) = numbers[4]
         /\ Decoding!WordAt(data, 4 * WordSize) = numbers[5]
    <2>1. 3 * WordSize = (4 - 1) * WordSize /\ 4 * WordSize = (5 - 1) * WordSize
          /\ 4 \in 1..5 /\ 5 \in 1..5
      BY <1>1
    <2> QED
      BY <1>16, <2>1, Zenon
  <1> DEFINE denom == Decoding!StringAt(data, 5 * WordSize)
             name == Decoding!StringAt(data, denom.next)
             symbol == Decoding!StringAt(data, name.next)
  <1>18. denom.text = TextOf(d) /\ denom.next = (5 + qd) * WordSize
    BY <1>12, <1>14, <1>15, StringIsRead, Zenon DEF sd
  <1> HIDE DEF denom
  <1>19. name.text = TextOf(n) /\ name.next = (5 + qd + qn) * WordSize
    <2>1. name = Decoding!StringAt(data, (5 + qd) * WordSize)
      BY <1>18, Zenon
    <2> HIDE DEF name
    <2> QED
      BY <1>12, <1>14, <1>15, <2>1, StringIsRead, Zenon DEF sn
  <1> HIDE DEF name
  <1>20. symbol.text = TextOf(s)
    <2>1. symbol = Decoding!StringAt(data, (5 + qd + qn) * WordSize)
      BY <1>19, Zenon
    <2>2. Holds(data, (5 + qd + qn) * WordSize, ss)
      BY <1>13, <1>14, Zenon
    <2> HIDE DEF symbol
    <2> QED
      BY <1>12, <1>14, <2>1, <2>2, StringIsRead, Zenon DEF ss
  <1>21. StringsIn(data, numbers, d, n, s)
    BY <1>17, <1>18, <1>19, <1>20, Zenon DEF denom, name, StringsIn
  <1> QED
    BY <1>21 DEF data

\* The claim for a new ERC20.
LEMMA Erc20Claim ==
    ASSUME NEW e \in EmittedErc20s
    PROVE  RightClaim(e, Decoding!ClaimOf(Decoding!erc20_from_log(Decoding!LogOf(e))))
  <1> DEFINE l == Decoding!LogOf(e)
             sd == Decoding!StringData(e.cosmos_denom)
             sn == Decoding!StringData(e.name)
             numbers == <<5 * WordSize, 5 * WordSize + Len(sd),
                          5 * WordSize + Len(sd) + Len(sn), e.decimals, e.event_nonce>>
             data == Decoding!Words(numbers) \o sd \o sn \o Decoding!StringData(e.symbol)
             denom == Decoding!StringAt(data, 5 * WordSize)
             name == Decoding!StringAt(data, denom.next)
             symbol == Decoding!StringAt(data, name.next)
             parsed == [kind |-> "erc20", erc20 |-> e.erc20, cosmos_denom |-> denom.text,
                        name |-> name.text, symbol |-> symbol.text, decimals |-> e.decimals,
                        block_height |-> e.block_height, event_nonce |-> e.event_nonce]
             fine(t) == ~(Len(t) > U32MAX) /\ Decoding!ToSet(t) \subseteq ValidBytes
             valid == fine(e.cosmos_denom) /\ fine(e.name) /\ fine(e.symbol)
             bad == e.decimals > U8MAX \/ e.event_nonce > U64MAX \/ ~valid \/ e.block_height = None
  <1>1. /\ e.kind = "erc20" /\ e.erc20 \in Nat /\ e.cosmos_denom \in Seq(Nat)
        /\ e.name \in Seq(Nat) /\ e.symbol \in Seq(Nat) /\ e.decimals \in Nat
        /\ e.event_nonce \in Nat /\ e.block_height \in Nat \cup {None}
    BY DEF EmittedErc20s, Heights
  <1>2. l = [block_number |-> e.block_height, topics |-> <<Decoding!Word(e.erc20)>>, data |-> data]
    BY <1>1 DEF Decoding!LogOf
  <1>3. numbers \in Seq(Nat) /\ Len(numbers) = 5 /\ numbers[4] = e.decimals
        /\ numbers[5] = e.event_nonce
    <2>1. sd \in Seq(Nat) /\ sn \in Seq(Nat)
      BY <1>1, StringBytes
    <2> HIDE DEF sd, sn
    <2>2. 5 * WordSize \in Nat /\ Len(sd) \in Nat /\ Len(sn) \in Nat
      BY <2>1, DecodingAssumption
    <2> QED
      BY <1>1, <2>2
  <1> HIDE DEF numbers
  <1>4. /\ denom.text = TextOf(e.cosmos_denom)
        /\ name.text = TextOf(e.name) /\ symbol.text = TextOf(e.symbol)
        /\ Decoding!WordAt(data, 3 * WordSize) = e.decimals
        /\ Decoding!WordAt(data, 4 * WordSize) = e.event_nonce
    <2>1. StringsIn(data, numbers, e.cosmos_denom, e.name, e.symbol)
      BY <1>1, <1>3, StringsAreRead, Zenon
    <2> HIDE DEF data
    <2> QED
      BY <1>3, <2>1, Zenon DEF StringsIn
  <1> HIDE DEF data
  <1>5. l.data = data /\ Decoding!AddressAt(l.topics[1], 0) = e.erc20
        /\ l.block_number = e.block_height
    <2> HIDE DEF l
    <2>1. l.data = data /\ l.topics[1] = Decoding!Word(e.erc20) /\ l.block_number = e.block_height
      BY <1>2
    <2> QED
      BY <1>1, <2>1, TopicIsRead
  <1> HIDE DEF l
  <1>6. Decoding!erc20_from_log(l)
          = IF e.decimals > U8MAX \/ e.event_nonce > U64MAX
               \/ Err \in {denom.text, name.text, symbol.text} \/ e.block_height = None
            THEN Err ELSE parsed
    BY <1>4, <1>5, Zenon DEF Decoding!erc20_from_log
  <1> HIDE DEF denom, name, symbol
  <1>7. e.cosmos_denom # Err /\ e.name # Err /\ e.symbol # Err
    BY <1>1, DecodingAssumption
  <1>8. Err \in {denom.text, name.text, symbol.text} <=> ~valid
    BY <1>4, <1>7, Zenon DEF Decoding!from_utf8, TextOf
  <1>9. valid => parsed = e
    <2>1. SUFFICES ASSUME valid PROVE parsed = e
      OBVIOUS
    <2>2. denom.text = e.cosmos_denom /\ name.text = e.name /\ symbol.text = e.symbol
      BY <1>4, <2>1, Zenon DEF Decoding!from_utf8, TextOf
    <2>3. e = [kind |-> "erc20", erc20 |-> e.erc20, cosmos_denom |-> e.cosmos_denom,
               name |-> e.name, symbol |-> e.symbol, decimals |-> e.decimals,
               block_height |-> e.block_height, event_nonce |-> e.event_nonce]
      BY DEF EmittedErc20s
    <2> QED
      BY <2>2, <2>3, Zenon
  <1>10. valid <=> \A t \in {e.cosmos_denom, e.name, e.symbol} :
                     Len(t) <= U32MAX /\ Decoding!ToSet(t) \subseteq ValidBytes
    <2>1. \A t \in Seq(Nat) : Len(t) <= U32MAX <=> ~(Len(t) > U32MAX)
      BY DecodingAssumption
    <2> QED
      BY <1>1, <2>1, Zenon
  <1> HIDE DEF valid
  <1>11. Decoding!Representable(e) <=> ~bad /\ e.block_height < U64MAX
    <2>1. /\ e.event_nonce <= U64MAX <=> ~(e.event_nonce > U64MAX)
          /\ e.decimals <= U8MAX <=> ~(e.decimals > U8MAX)
      BY <1>1, DecodingAssumption
    <2>2. e.kind # "batch" /\ e.kind # "valset"
      BY <1>1
    <2> QED
      BY <1>1, <1>10, <2>1, <2>2, Zenon DEF Decoding!Representable
  <1>12. Decoding!erc20_from_log(l) = IF bad THEN Err ELSE e
    <2> HIDE DEF parsed
    <2> QED
      BY <1>6, <1>8, <1>9, Zenon
  <1>13. Decoding!WithRewardToken(e) = Decoding!Told(e)
    BY <1>1 DEF Decoding!WithRewardToken, Decoding!Told
  <1>14. e # Err /\ (~bad => e.block_height \in Nat) /\ bad \in BOOLEAN
    BY <1>1, DecodingAssumption
  <1> HIDE DEF bad
  <1> QED
    BY <1>11, <1>12, <1>13, <1>14, ParsedIsClaimed, Zenon DEF l

-----------------------------------------------------------------------------
\* The log is that of the event; a claim is that of the log.
DecodingInv ==
    event \in Inputs /\ log = Decoding!LogOf(event) /\ Decoding!ClaimsSayWhatHappened

\* A step decodes the log into the claim that the event calls for.
LEMMA DecodingStep ==
    ASSUME DecodingInv, [Decoding!Next]_Decoding!vars
    PROVE  DecodingInv'
  <1>1. CASE UNCHANGED Decoding!vars
    BY <1>1 DEF Decoding!vars, DecodingInv, Decoding!ClaimsSayWhatHappened
  <1>2. CASE Decoding!Next
    <2>1. event' = event /\ log' = log
      BY <1>2 DEF Decoding!Next, Decoding!Decode
    <2>2. event \in EmittedValsets(Nat) \cup EmittedBatches \cup EmittedDeposits([1..WordSize -> Nat])
            \cup EmittedErc20s
      BY DecodingAssumption DEF DecodingInv
    <2>3. RightClaim(event, claim')
      <3>1. CASE Decoding!Decode("valset", Decoding!valset_from_log)
        <4>1. event \in EmittedValsets(Nat)
          BY <2>2, <3>1 DEF Decoding!Decode, EmittedBatches, EmittedDeposits, EmittedErc20s
        <4> QED
          BY <3>1, <4>1, ValsetClaim, Zenon DEF Decoding!Decode, DecodingInv
      <3>2. CASE Decoding!Decode("batch", Decoding!batch_from_log)
        <4>1. event \in EmittedBatches
          BY <2>2, <3>2 DEF Decoding!Decode, EmittedValsets, EmittedDeposits, EmittedErc20s
        <4> QED
          BY <3>2, <4>1, BatchClaim, Zenon DEF Decoding!Decode, DecodingInv
      <3>3. CASE Decoding!Decode("deposit", Decoding!deposit_from_log)
        <4>1. event \in EmittedDeposits([1..WordSize -> Nat])
          BY <2>2, <3>3 DEF Decoding!Decode, EmittedValsets, EmittedBatches, EmittedErc20s
        <4> QED
          BY <3>3, <4>1, DepositClaim, Zenon DEF Decoding!Decode, DecodingInv
      <3>4. CASE Decoding!Decode("erc20", Decoding!erc20_from_log)
        <4>1. event \in EmittedErc20s
          BY <2>2, <3>4 DEF Decoding!Decode, EmittedValsets, EmittedBatches, EmittedDeposits
        <4> QED
          BY <3>4, <4>1, Erc20Claim, Zenon DEF Decoding!Decode, DecodingInv
      <3> QED
        BY <1>2, <3>1, <3>2, <3>3, <3>4 DEF Decoding!Next
    <2> QED
      BY <2>1, <2>3 DEF DecodingInv, Decoding!ClaimsSayWhatHappened, RightClaim
  <1> QED
    BY <1>1, <1>2

\* EventDecoding: for words of every size, strings and arrays of every length,
\* numbers of every size and destinations of any bytes, what the orchestrator
\* parses out of a log and claims on Cosmos (send_ethereum_claims) is what
\* Gravity.sol emitted, field by field but for the bytes of a destination before
\* an address, which are dropped; a log with a number, a height or a string out
\* of range is not claimed.
THEOREM ClaimsAreRight == AllSpec => []ClaimsSayWhatHappened
  <1>1. AllInit => (part = "decoding" => DecodingInv)
    BY PartInits DEF Decoding!Init, DecodingInv, Decoding!ClaimsSayWhatHappened
  <1>2. (part = "decoding" => DecodingInv) /\ [AllNext]_allVars
          => (part = "decoding" => DecodingInv)'
    BY PartSteps, DecodingStep
  <1>3. (part = "decoding" => DecodingInv) => ClaimsSayWhatHappened
    BY DEF DecodingInv, ClaimsSayWhatHappened
  <1> QED
    BY <1>1, <1>2, <1>3, PTL DEF AllSpec

-----------------------------------------------------------------------------
(* RelayMarket                                                             *)

\* What the tokens on offer are worth.
Worth == [t \in DOMAIN item.rewards |-> Market!Value(t)]

MarketTypes ==
    /\ item.kind \in {"valset", "batch", "call"}
    /\ item.kind = "batch" => \E t : DOMAIN item.rewards = {t}
    /\ IsFiniteSet(DOMAIN item.rewards)
    /\ \A t \in DOMAIN item.rewards :
         /\ t \in OtherTokens \cup {Weth}
         /\ item.rewards[t] \in Nat
    /\ \A t \in OtherTokens : price[t] \in Nat \cup {None}
    /\ cost \in Nat

\* The loop over the fees of a call has added up those it is through with.
MarketInv ==
    /\ MarketTypes
    /\ todo \subseteq DOMAIN item.rewards
    /\ total = SumOf(Worth, DOMAIN item.rewards \ todo)
    /\ enabled /\ item.kind = "call" /\ verdict = None => total <= cost

\* What a token on offer is worth is a number.
LEMMA WorthIsNat ==
    ASSUME MarketTypes
    PROVE  \A t \in DOMAIN item.rewards : Worth[t] \in Nat /\ Worth[t] = Market!Value(t)
  <1>1. ASSUME NEW t \in DOMAIN item.rewards PROVE Market!Value(t) \in Nat
    BY <1>1 DEF MarketTypes, Market!Value
  <1> QED
    BY <1>1 DEF Worth

\* An item pays if its tokens are together worth more than the gas.
LEMMA ProfitableIsSum ==
    Market!Profitable <=> SumOf(Worth, DOMAIN item.rewards) > cost
  <1>1. ASSUME NEW X, NEW f, NEW p
        PROVE  Market!MapThenSumSet(LAMBDA t : IF t = Weth THEN f[t]
                 ELSE IF p[t] = None THEN 0 ELSE p[t] * f[t], X)
                 = SumOf([t \in X |-> IF t = Weth THEN f[t]
                                ELSE IF p[t] = None THEN 0 ELSE p[t] * f[t]], X)
    BY ONLY ZenonT(60) DEF Market!MapThenSumSet, Market!MapThenFoldSet, SumOf, MapThenSumSet,
                           MapThenFoldSet
  <1> QED
    BY <1>1, Zenon DEF Market!Profitable, Worth, Market!Value

\* The items that can be relayed, and what they offer.
LEMMA ItemTypes ==
    ASSUME NEW x \in Market!Items
    PROVE  /\ x.kind \in {"valset", "batch", "call"}
           /\ x.kind = "batch" => \E t : DOMAIN x.rewards = {t}
           /\ \E T \in SUBSET (OtherTokens \cup {Weth}) : x.rewards \in [T -> Offers]
  <1> DEFINE Tokens == OtherTokens \cup {Weth}
             Small == UNION {[T -> Offers] : T \in {X \in SUBSET Tokens : Market!Cardinality(X) <= 1}}
             One == UNION {[{t} -> Offers] : t \in Tokens}
             Any == UNION {[T -> Offers] : T \in SUBSET Tokens}
  <1>1. /\ \A r \in Small : \E T \in SUBSET Tokens : r \in [T -> Offers]
        /\ \A r \in Any : \E T \in SUBSET Tokens : r \in [T -> Offers]
    BY Zenon
  <1>2. \A r \in One : \E t \in Tokens : r \in [{t} -> Offers]
    BY Zenon
  <1>3. \A r \in One : \E T \in SUBSET Tokens : r \in [T -> Offers]
    BY <1>2, Zenon
  <1>4. \A r \in One : \E t : DOMAIN r = {t}
    BY <1>2
  <1>5. x \in [kind : {"valset"}, rewards : Small]
          \cup [kind : {"batch"}, rewards : One] \cup [kind : {"call"}, rewards : Any]
    BY Zenon DEF Market!Items, Market!Tokens
  <1> HIDE DEF Small, One, Any
  <1>6. \/ x.kind = "valset" /\ x.rewards \in Small
        \/ x.kind = "batch" /\ x.rewards \in One
        \/ x.kind = "call" /\ x.rewards \in Any
    BY <1>5
  <1> HIDE DEF Tokens
  <1>7. /\ x.kind \in {"valset", "batch", "call"}
        /\ x.kind = "batch" => x.rewards \in One
        /\ \E T \in SUBSET Tokens : x.rewards \in [T -> Offers]
    BY <1>1, <1>3, <1>6
  <1> QED
    BY <1>4, <1>7, Zenon DEF Tokens

\* The invariant holds at first.
LEMMA MarketInit ==
    ASSUME Market!Init
    PROVE  MarketInv /\ verdict = None
  <1>1. item \in Market!Items /\ verdict = None /\ total = 0 /\ todo = DOMAIN item.rewards
    BY DEF Market!Init
  <1>2. cost \in Nat /\ \A t \in OtherTokens : price[t] \in Nat \cup {None}
    BY MarketAssumption DEF Market!Init
  <1>3. PICK T \in SUBSET (OtherTokens \cup {Weth}) : item.rewards \in [T -> Offers]
    BY <1>1, ItemTypes, Zenon
  <1>4. DOMAIN item.rewards = T /\ \A t \in T : item.rewards[t] \in Nat
    BY <1>3, MarketAssumption
  <1>5. IsFiniteSet(T)
    BY FS_AddElement, FS_Subset, MarketAssumption
  <1>6. MarketTypes
    <2>1. item.kind \in {"valset", "batch", "call"}
          /\ (item.kind = "batch" => \E t : DOMAIN item.rewards = {t})
      BY <1>1, ItemTypes, Zenon
    <2>2. \A t \in DOMAIN item.rewards : t \in OtherTokens \cup {Weth} /\ item.rewards[t] \in Nat
      BY <1>4, Zenon
    <2> QED
      BY <1>2, <1>4, <1>5, <2>1, <2>2, Zenon DEF MarketTypes
  <1>7. SumOf(Worth, {}) = 0
    BY SumEmpty, Zenon
  <1>8. total = SumOf(Worth, DOMAIN item.rewards \ todo)
    BY <1>1, <1>7
  <1>9. total <= cost
    BY <1>1, <1>2
  <1> QED
    BY <1>1, <1>6, <1>8, <1>9, Zenon DEF MarketInv

\* What is left alone.
SameOffer == UNCHANGED <<item, enabled, price, cost>>

\* The worth of an offer depends on the offer and the prices alone.
LEMMA SameWorth ==
    ASSUME MarketTypes, SameOffer
    PROVE  Worth' = Worth /\ MarketTypes'
  <1>1. Worth' = Worth
    BY Zenon DEF SameOffer, Worth, Market!Value
  <1>2. MarketTypes'
    BY Zenon DEF SameOffer, MarketTypes
  <1> QED
    BY <1>1, <1>2

\* Whether an item pays depends on the offer, the prices and the gas alone.
LEMMA SameProfit ==
    ASSUME MarketTypes, SameOffer
    PROVE  Market!Profitable' <=> Market!Profitable
  <1>1. (Market!Profitable <=> SumOf(Worth, DOMAIN item.rewards) > cost)'
    BY ProfitableIsSum, PTL
  <1>2. SumOf(Worth', DOMAIN item'.rewards) > cost' <=> SumOf(Worth, DOMAIN item.rewards) > cost
    BY SameWorth, Zenon DEF SameOffer
  <1> QED
    BY <1>1, <1>2, ProfitableIsSum, Zenon

\* One token that pays is enough.
LEMMA OnePays ==
    ASSUME MarketTypes, NEW t \in DOMAIN item.rewards, Market!Value(t) > cost
    PROVE  Market!Profitable
  <1> DEFINE X == DOMAIN item.rewards
  <1>1. IsFiniteSet(X) /\ cost \in Nat
    BY DEF MarketTypes
  <1>2. \A x \in X : Worth[x] \in Nat
    BY WorthIsNat, Zenon
  <1>3. Worth[t] \in Nat /\ Worth[t] > cost
    BY WorthIsNat
  <1>4. t \in X
    OBVIOUS
  <1> HIDE DEF X
  <1>5. \A x \in X : Worth[x] \in Int
    BY <1>2
  <1>6. SumOf(Worth, X) = Worth[t] + SumOf(Worth, X \ {t})
    BY ONLY <1>1, <1>4, <1>5, SumRemove
  <1>7. SumOf(Worth, X \ {t}) \in Nat
    <2> DEFINE U == X \ {t}
    <2>1. IsFiniteSet(U) /\ \A x \in U : Worth[x] \in Nat
      BY <1>1, <1>2, FS_Subset
    <2> HIDE DEF U
    <2>2. SumOf(Worth, U) \in Nat
      BY <2>1, SumNat, Zenon
    <2> QED
      BY <2>2 DEF U
  <1>8. SumOf(Worth, X) > cost
    BY ONLY <1>1, <1>3, <1>6, <1>7
  <1> QED
    BY <1>8, ProfitableIsSum, Zenon DEF X

\* A batch has fees in one token.
LEMMA OnlyOne ==
    ASSUME MarketTypes, item.kind = "batch", NEW t \in DOMAIN item.rewards
    PROVE  Market!Profitable <=> Market!Value(t) > cost
  <1>1. DOMAIN item.rewards = {t}
    BY DEF MarketTypes
  <1>2. Worth[t] = Market!Value(t) /\ Worth[t] \in Nat
    BY WorthIsNat, Zenon
  <1>3. SumOf(Worth, {} \cup {t}) = Worth[t] + SumOf(Worth, {})
    <2>1. Worth[t] \in Int /\ IsFiniteSet({})
      BY <1>2, FS_EmptySet
    <2> QED
      BY <2>1, SumAdd, Zenon
  <1>4. SumOf(Worth, {t}) = Worth[t]
    <2>1. {} \cup {t} = {t}
      OBVIOUS
    <2>2. SumOf(Worth, {t}) = Worth[t] + 0
      BY <1>3, <2>1, SumEmpty, Zenon
    <2> QED
      BY ONLY <1>2, <2>2
  <1> QED
    BY <1>1, <1>2, <1>4, ProfitableIsSum, Zenon

\* What the exchange says of a token it has a price for.
LEMMA Quotes ==
    ASSUME MarketTypes, NEW t \in DOMAIN item.rewards, t # Weth
    PROVE  /\ Market!get_uniswap_price(t) = None => Market!Value(t) = 0
           /\ Market!get_uniswap_price(t) # None => Market!Value(t) = Market!get_uniswap_price(t)
  <1>1. CASE price[t] = None
    BY <1>1 DEF Market!get_uniswap_price, Market!Value
  <1>2. CASE price[t] # None
    <2>1. price[t] \in Nat /\ item.rewards[t] \in Nat
      BY <1>2 DEF MarketTypes
    <2>2. price[t] * item.rewards[t] \in Nat /\ None \notin Nat
      BY <2>1, NabtAssumption
    <2>3. Market!get_uniswap_price(t) = price[t] * item.rewards[t]
      BY <1>2, Zenon DEF Market!get_uniswap_price
    <2>4. Market!Value(t) = price[t] * item.rewards[t]
      BY <1>2, Zenon DEF Market!Value
    <2> QED
      BY <2>2, <2>3, <2>4, Zenon
  <1> QED
    BY <1>1, <1>2

\* should_relay_batch says what pays.
LEMMA BatchStep ==
    ASSUME MarketInv, Market!should_relay_batch
    PROVE  /\ SameOffer /\ UNCHANGED <<todo, total>>
           /\ verdict' = TRUE => Market!Profitable
           /\ verdict' = FALSE => ~ Market!Profitable
  <1> DEFINE Pays(t) == IF t = Weth THEN item.rewards[t] > cost
                        ELSE /\ Market!get_uniswap_price(t) # None
                             /\ Market!get_uniswap_price(t) > cost
  <1>1. PICK t \in DOMAIN item.rewards : Market!Say(Pays(t))
    BY Zenon DEF Market!should_relay_batch
  <1>2. verdict' = Pays(t) /\ SameOffer /\ UNCHANGED <<todo, total>>
    BY <1>1, Zenon DEF Market!Say, SameOffer
  <1>3. MarketTypes /\ cost \in Nat
    BY DEF MarketInv, MarketTypes
  <1>4. Market!Profitable <=> Market!Value(t) > cost
    BY <1>3, OnlyOne, Zenon DEF Market!should_relay_batch
  <1>5. Pays(t) <=> Market!Value(t) > cost
    <2>1. CASE t = Weth
      BY <2>1 DEF Market!Value
    <2>2. CASE t # Weth /\ Market!get_uniswap_price(t) # None
      BY <1>3, <2>2, Quotes, Zenon
    <2>3. CASE t # Weth /\ Market!get_uniswap_price(t) = None
      <3>1. Market!Value(t) = 0
        BY <1>3, <2>3, Quotes, Zenon
      <3>2. ~ (0 > cost)
        BY <1>3
      <3> QED
        BY <2>3, <3>1, <3>2, Zenon
    <2> QED
      BY <2>1, <2>2, <2>3, Zenon
  <1> HIDE DEF Pays
  <1>6. ASSUME verdict' = TRUE PROVE Market!Profitable
    <2>1. Pays(t)
      BY <1>2, <1>6
    <2> QED
      BY <1>4, <1>5, <2>1, Zenon
  <1>7. ASSUME verdict' = FALSE PROVE ~ Market!Profitable
    <2>1. ~ Pays(t)
      BY <1>2, <1>7
    <2> QED
      BY <1>4, <1>5, <2>1, Zenon
  <1> QED
    BY <1>2, <1>6, <1>7

\* should_relay_valset relays only what pays.
LEMMA ValsetStep ==
    ASSUME MarketInv, Market!should_relay_valset
    PROVE  /\ SameOffer /\ UNCHANGED <<todo, total>>
           /\ verdict' = TRUE => Market!Profitable
  <1> DEFINE Pays == \E t \in DOMAIN item.rewards :
             /\ t = Weth
             /\ \/ item.rewards[t] > cost
                \/ Market!get_uniswap_price(t) # None /\ Market!get_uniswap_price(t) > cost
  <1>1. verdict' = Pays /\ SameOffer /\ UNCHANGED <<todo, total>>
    BY Zenon DEF Market!should_relay_valset, Market!Say, SameOffer
  <1>2. ASSUME Pays PROVE Market!Profitable
    <2>1. PICK t \in DOMAIN item.rewards :
             /\ t = Weth
             /\ \/ item.rewards[t] > cost
                \/ Market!get_uniswap_price(t) # None /\ Market!get_uniswap_price(t) > cost
      BY <1>2, Zenon
    <2>2. Market!Value(t) = item.rewards[t] /\ Market!get_uniswap_price(t) = None
      BY <2>1, Zenon DEF Market!Value, Market!get_uniswap_price
    <2>3. Market!Value(t) > cost
      BY <2>1, <2>2, Zenon
    <2> QED
      BY <2>3, OnePays, Zenon DEF MarketInv
  <1> HIDE DEF Pays
  <1>3. CASE Pays
    BY <1>1, <1>2, <1>3
  <1>4. CASE ~Pays
    <2>1. verdict' = FALSE
      BY <1>1, <1>4
    <2> QED
      BY <1>1, <2>1
  <1> QED
    BY <1>3, <1>4

\* should_relay_logic_call says what pays, whichever token it stops at.
LEMMA CallStep ==
    ASSUME MarketInv, Market!should_relay_logic_call
    PROVE  /\ SameOffer /\ enabled /\ item.kind = "call" /\ todo' \subseteq DOMAIN item.rewards
           /\ total' = SumOf(Worth, DOMAIN item.rewards \ todo')
           /\ verdict' = None => total' <= cost
           /\ verdict' = TRUE => Market!Profitable
           /\ verdict' = FALSE => ~ Market!Profitable
  <1> DEFINE X == DOMAIN item.rewards
  <1>0. /\ MarketTypes /\ todo \subseteq X /\ total = SumOf(Worth, X \ todo) /\ cost \in Nat
        /\ enabled /\ item.kind = "call" /\ verdict = None /\ total <= cost
        /\ IsFiniteSet(X)
    BY DEF MarketInv, MarketTypes, Market!should_relay_logic_call
  <1>00. \A x \in X : Worth[x] \in Nat
    BY <1>0, WorthIsNat, Zenon
  <1>1. CASE todo = {}
    <2>1. verdict' = FALSE /\ SameOffer /\ UNCHANGED <<todo, total>>
      BY <1>1, Zenon DEF Market!should_relay_logic_call, Market!Say, SameOffer
    <2>2. X \ todo = X
      BY <1>1
    <2>3. total = SumOf(Worth, X)
      BY <1>0, <2>2, Zenon
    <2>4. SumOf(Worth, X) \in Nat
      <3> HIDE DEF X
      <3> QED
        BY <1>0, <1>00, SumNat, Zenon
    <2>5. ~ (SumOf(Worth, X) > cost)
      <3>1. PICK n \in Nat : n = SumOf(Worth, X)
        BY <2>4, Zenon
      <3>2. n <= cost
        BY <1>0, <2>3, <3>1, Zenon
      <3>3. ~ (n > cost)
        BY <1>0, <3>2
      <3> QED
        BY <3>1, <3>3, Zenon
    <2>6. ~ Market!Profitable
      BY <2>5, ProfitableIsSum, Zenon
    <2>7. FALSE # None /\ FALSE # TRUE
      BY MarketAssumption, Zenon
    <2> QED
      BY <1>0, <2>1, <2>6, <2>7, Zenon
  <1>2. CASE todo # {}
    <2>1. PICK t \in todo :
            LET value == IF t = Weth THEN item.rewards[t] ELSE Market!get_uniswap_price(t) IN
              /\ todo' = todo \ {t}
              /\ total' = total + (IF value = None THEN 0 ELSE value)
              /\ verdict' = IF value # None /\ total' > cost THEN TRUE ELSE None
              /\ SameOffer
      BY <1>2, Zenon DEF Market!should_relay_logic_call, SameOffer
    <2> DEFINE value == IF t = Weth THEN item.rewards[t] ELSE Market!get_uniswap_price(t)
    <2>2. t \in X /\ t \notin X \ todo
      BY <1>0
    <2>3. /\ value = None => Worth[t] = 0
          /\ value # None => Worth[t] = value
      <3>1. Worth[t] = Market!Value(t)
        BY <1>0, <2>2, WorthIsNat, Zenon
      <3>2. CASE t = Weth
        <4>1. value = item.rewards[t] /\ Market!Value(t) = item.rewards[t]
          BY <3>2, Zenon DEF Market!Value
        <4>2. item.rewards[t] \in Nat
          BY <1>0, <2>2, Zenon DEF MarketTypes
        <4>3. None \notin Nat
          BY NabtAssumption
        <4> QED
          BY <3>1, <4>1, <4>2, <4>3, Zenon
      <3>3. CASE t # Weth
        BY <1>0, <2>2, <3>1, <3>3, Quotes, Zenon
      <3> QED
        BY <3>2, <3>3
    <2> HIDE DEF value
    <2>4. /\ todo' = todo \ {t}
          /\ total' = total + (IF value = None THEN 0 ELSE value)
          /\ verdict' = IF value # None /\ total' > cost THEN TRUE ELSE None
          /\ SameOffer
      BY <2>1, Zenon DEF value
    <2>5. total' = total + Worth[t]
      BY <2>3, <2>4, Zenon
    <2> DEFINE U == X \ todo
               V == X \ todo'
    <2>6. V = U \cup {t} /\ t \notin U /\ V \subseteq X /\ IsFiniteSet(U) /\ IsFiniteSet(V)
          /\ todo' \subseteq X
      BY <1>0, <2>2, <2>4, FS_Subset
    <2>7. \A x \in U \cup {t} : Worth[x] \in Nat
      BY <1>00, <2>2
    <2> HIDE DEF X, U, V
    <2>8. SumOf(Worth, V) = Worth[t] + SumOf(Worth, U)
      <3>1. Worth[t] \in Int /\ \A x \in U : Worth[x] \in Int
        BY <2>7
      <3> QED
        BY <2>6, <3>1, SumAdd, Zenon
    <2>9. SumOf(Worth, U) \in Nat /\ Worth[t] \in Nat /\ total = SumOf(Worth, U)
      <3>1. \A x \in U : Worth[x] \in Nat
        BY <2>7, Zenon
      <3>2. SumOf(Worth, U) \in Nat
        BY <2>6, <3>1, SumNat, Zenon
      <3> QED
        BY <1>0, <2>7, <3>2, Zenon DEF U
    <2>10. total' = SumOf(Worth, V) /\ total' \in Nat
      BY ONLY <2>5, <2>8, <2>9
    <2>11. CASE value = None
      <3>1. verdict' = None
        BY <2>4, <2>11, Zenon
      <3>2. total' <= cost
        BY ONLY <1>0, <2>3, <2>5, <2>9, <2>11
      <3>3. None # TRUE /\ None # FALSE
        BY MarketAssumption, Zenon
      <3> QED
        BY <1>0, <2>4, <2>6, <2>10, <3>1, <3>2, <3>3, Zenon DEF X, V
    <2>12. CASE value # None /\ total' > cost
      <3>1. verdict' = TRUE
        BY <2>4, <2>12, Zenon
      <3>2. SumOf(Worth, V) <= SumOf(Worth, X)
        <4>1. V \in SUBSET X
          BY <2>6, Zenon
        <4> QED
          BY <1>0, <1>00, <4>1, SumSubset, Zenon
      <3>3. SumOf(Worth, X) \in Nat
        BY <1>0, <1>00, SumNat, Zenon
      <3>4. SumOf(Worth, X) > cost
        <4>1. PICK n \in Nat : n = SumOf(Worth, X)
          BY <3>3, Zenon
        <4>2. total' <= n
          BY <2>10, <3>2, <4>1, Zenon
        <4>3. n > cost
          BY ONLY <1>0, <2>10, <2>12, <4>2, n \in Nat
        <4> QED
          BY <4>1, <4>3, Zenon
      <3>5. Market!Profitable
        BY <3>4, ProfitableIsSum, Zenon DEF X
      <3>6. TRUE # None /\ TRUE # FALSE
        BY MarketAssumption, Zenon
      <3> QED
        BY <1>0, <2>4, <2>6, <2>10, <3>1, <3>5, <3>6, Zenon DEF X, V
    <2>13. CASE value # None /\ ~ (total' > cost)
      <3>1. verdict' = None
        BY <2>4, <2>13, Zenon
      <3>2. total' <= cost
        BY ONLY <1>0, <2>10, <2>13
      <3>3. None # TRUE /\ None # FALSE
        BY MarketAssumption, Zenon
      <3> QED
        BY <1>0, <2>4, <2>6, <2>10, <3>1, <3>2, <3>3, Zenon DEF X, V
    <2> QED
      BY <2>11, <2>12, <2>13, Zenon
  <1> QED
    BY <1>1, <1>2

\* A step keeps the invariant, and its verdict is right.
LEMMA MarketStep ==
    ASSUME MarketInv, Market!Next
    PROVE  MarketInv' /\ Market!RelaysWhatPays'
  <1>1. ASSUME SameOffer
        PROVE  /\ MarketTypes' /\ Worth' = Worth /\ item' = item /\ cost' = cost /\ enabled' = enabled
               /\ Market!Profitable' <=> Market!Profitable
    BY <1>1, SameWorth, SameProfit, Zenon DEF MarketInv, SameOffer
  <1>2. ASSUME SameOffer, UNCHANGED <<todo, total>>, ~ (enabled /\ item.kind = "call")
        PROVE  MarketInv'
    <2>1. todo' = todo /\ total' = total
      BY <1>2
    <2>2. todo' \subseteq DOMAIN item'.rewards
      BY <1>1, <1>2, <2>1, Zenon DEF MarketInv
    <2>3. total' = SumOf(Worth', DOMAIN item'.rewards \ todo')
      BY <1>1, <1>2, <2>1, Zenon DEF MarketInv
    <2>4. ~ (enabled' /\ item'.kind = "call")
      BY <1>1, <1>2
    <2> QED
      BY <1>1, <1>2, <2>2, <2>3, <2>4, Zenon DEF MarketInv
  <1>3. CASE Market!NoMarket
    <2>1. SameOffer /\ UNCHANGED <<todo, total>> /\ ~enabled
      BY <1>3, Zenon DEF Market!NoMarket, Market!Say, SameOffer
    <2>2. ~ enabled'
      BY <1>1, <2>1
    <2> QED
      BY <1>1, <1>2, <2>1, <2>2, Zenon DEF Market!RelaysWhatPays
  <1>4. CASE Market!should_relay_batch
    <2>1. item.kind # "call"
      BY <1>4 DEF Market!should_relay_batch
    <2> QED
      BY <1>1, <1>2, <1>4, <2>1, BatchStep, Zenon DEF Market!RelaysWhatPays
  <1>5. CASE Market!should_relay_valset
    <2>1. item.kind # "call" /\ item.kind = "valset"
      BY <1>5 DEF Market!should_relay_valset
    <2> QED
      BY <1>1, <1>2, <1>5, <2>1, ValsetStep, Zenon DEF Market!RelaysWhatPays
  <1>6. CASE Market!should_relay_logic_call
    BY <1>1, <1>6, CallStep, Zenon DEF MarketInv, Market!RelaysWhatPays
  <1> QED
    BY <1>3, <1>4, <1>5, <1>6 DEF Market!Next

\* A relayer with a market loses nothing, and leaves no batch and no call that
\* pays, whatever the exchange has no price for and whichever fee comes first.
THEOREM MarketPays == AllSpec => []RelaysWhatPays
  <1> DEFINE Inv == part = "market" => MarketInv /\ Market!RelaysWhatPays
  <1>1. AllInit => Inv
    <2>1. ASSUME verdict = None PROVE verdict # TRUE /\ verdict # FALSE
      BY <2>1, MarketAssumption, Zenon
    <2> QED
      BY <2>1, PartInits, MarketInit, Zenon DEF Market!RelaysWhatPays
  <1>2. ASSUME MarketInv, Market!RelaysWhatPays, UNCHANGED Market!vars
        PROVE  MarketInv' /\ Market!RelaysWhatPays'
    <2>1. /\ SameOffer /\ todo' = todo /\ total' = total /\ verdict' = verdict
          /\ item' = item /\ cost' = cost /\ enabled' = enabled
      BY <1>2 DEF Market!vars, SameOffer
    <2>2. Worth' = Worth /\ MarketTypes' /\ (Market!Profitable' <=> Market!Profitable)
      BY <1>2, <2>1, SameWorth, SameProfit, Zenon DEF MarketInv
    <2> QED
      BY <1>2, <2>1, <2>2, Zenon DEF MarketInv, Market!RelaysWhatPays
  <1>3. Inv /\ [AllNext]_allVars => Inv'
    BY <1>2, PartSteps, MarketStep, Zenon
  <1>4. Inv => RelaysWhatPays
    BY DEF RelaysWhatPays
  <1> QED
    BY <1>1, <1>3, <1>4, PTL DEF AllSpec

-----------------------------------------------------------------------------
(* The commands of nabt                                                    *)

USE NabtAssumption

-----------------------------------------------------------------------------
(* DelegateKeys                                                            *)

\* A registration adds to both indexes what was in neither.
LEMMA IndexesGrow ==
    ASSUME NEW t, K!SetOrchestratorAddress(t)
    PROVE  /\ DOMAIN KeyOrchestratorAddress \subseteq DOMAIN KeyOrchestratorAddress'
           /\ DOMAIN EthAddressByValidator \subseteq DOMAIN EthAddressByValidator'
           /\ \A o \in DOMAIN KeyOrchestratorAddress :
                KeyOrchestratorAddress'[o] = KeyOrchestratorAddress[o]
           /\ \A w \in DOMAIN EthAddressByValidator :
                EthAddressByValidator'[w] = EthAddressByValidator[w]
  BY DEF K!SetOrchestratorAddress, K!MayRegister, K!Set, K!chainVars

\* The orchestrator checks its keys once, when it starts: a registration is for
\* good, so that they stay the delegate keys of a validator.
THEOREM KeysStayRegistered == AllSpec => []RunsOnDelegateKeys
  <1> DEFINE Inv == K!RunsOnDelegateKeys
  <1>1. K!Init => Inv
    BY DEF K!Init, K!RunsOnDelegateKeys
  <1>2. ASSUME Inv, [K!Next]_K!vars
        PROVE  Inv'
    <2>1. CASE UNCHANGED <<KeyOrchestratorAddress, EthAddressByValidator, running>>
      BY <1>2, <2>1 DEF K!RunsOnDelegateKeys
    <2>2. ASSUME NEW v \in Validators, NEW o, NEW e, K!orchestrator(v, o, e)
          PROVE  Inv'
      <3> DEFINE orch == K!FindKey(v, o, "orch")
                 eth == K!FindKey(v, e, "eth")
      <3>1. /\ K!check_delegate_addresses(orch, eth)
            /\ running' = [orch |-> orch, eth |-> eth]
            /\ UNCHANGED <<KeyOrchestratorAddress, EthAddressByValidator>>
        BY <2>2 DEF K!orchestrator, K!chainVars
      <3> HIDE DEF orch, eth
      <3>2. PICK k \in K!GetDelegateKeys : k.eth = eth /\ k.orch = orch
        BY <3>1 DEF K!check_delegate_addresses, K!GetDelegateKeyByEth
      <3>3. /\ orch \in DOMAIN KeyOrchestratorAddress
            /\ KeyOrchestratorAddress[orch] \in DOMAIN EthAddressByValidator
            /\ EthAddressByValidator[KeyOrchestratorAddress[orch]] = eth
        BY <3>2 DEF K!GetDelegateKeys
      <3>4. running'.orch = orch /\ running'.eth = eth
        BY <3>1
      <3> QED
        BY <3>1, <3>3, <3>4 DEF K!RunsOnDelegateKeys
    <2>3. ASSUME NEW t, K!SetOrchestratorAddress(t)
          PROVE  Inv'
      <3>1. running' = running
        BY <2>3 DEF K!SetOrchestratorAddress
      <3> QED
        BY <1>2, <2>3, <3>1, IndexesGrow DEF K!RunsOnDelegateKeys
    <2>4. CASE K!Next
      BY <2>1, <2>2, <2>3, <2>4
      DEF K!Next, K!Operator, K!init_config, K!set_eth_key, K!set_orchestrator_key,
          K!set_gravity_delegate_addresses, K!register_orchestrator_address,
          K!RegistrationFails, K!LoseTx, K!chainVars
    <2> QED
      BY <1>2, <2>1, <2>4 DEF K!vars, K!chainVars
  <1> HIDE DEF Inv
  <1>3. AllInit => (part = "keys" => Inv)
    BY <1>1, PartInits
  <1>4. (part = "keys" => Inv) /\ [AllNext]_allVars => (part = "keys" => Inv)'
    BY <1>2, PartSteps
  <1> QED
    BY <1>3, <1>4, PTL DEF AllSpec, RunsOnDelegateKeys, Inv
-----------------------------------------------------------------------------
(* Erc20Deploy                                                             *)

\* Every report is of the ERC20 that is adopted, and an adoption is for good.
ReportsAreOfTheAdopted == \A r \in reported : adopted # None /\ r = adopted

\* Whatever runs overlap and however late their events are, all users who are
\* told of an ERC20 for the denom are told of the same.
THEOREM ReportsAgree == AllSpec => []OneRepresentation
  <1>1. E!Init => ReportsAreOfTheAdopted
    BY DEF E!Init, ReportsAreOfTheAdopted
  <1>2. ASSUME ReportsAreOfTheAdopted, [E!Next]_E!vars
        PROVE  ReportsAreOfTheAdopted'
    <2>1. CASE UNCHANGED <<adopted, reported>>
      BY <1>2, <2>1 DEF ReportsAreOfTheAdopted
    <2>2. ASSUME NEW u \in Users, E!keep_querying_for_erc20(u)
          PROVE  ReportsAreOfTheAdopted'
      BY <1>2, <2>2 DEF E!keep_querying_for_erc20, ReportsAreOfTheAdopted
    <2>3. CASE E!HandleErc20Deployed
      <3>1. CASE adopted = None
        BY <1>2, <2>3, <3>1 DEF E!HandleErc20Deployed, ReportsAreOfTheAdopted
      <3>2. CASE adopted # None
        BY <1>2, <2>3, <3>2 DEF E!HandleErc20Deployed, ReportsAreOfTheAdopted
      <3> QED
        BY <3>1, <3>2
    <2>4. CASE E!Next
      BY <2>1, <2>2, <2>3, <2>4
      DEF E!Next, E!Start, E!Command, E!denom_to_erc20, E!deploy_erc20,
          E!wait_for_transaction, E!deployERC20
    <2> QED
      BY <1>2, <2>1, <2>4 DEF E!vars
  <1> DEFINE Inv == part = "deployment" => ReportsAreOfTheAdopted
  <1>3. Inv => OneRepresentation
    BY DEF ReportsAreOfTheAdopted, OneRepresentation, E!OneRepresentation
  <1>4. AllInit => Inv
    BY <1>1, PartInits
  <1>5. Inv /\ [AllNext]_allVars => Inv'
    BY <1>2, PartSteps
  <1> QED
    BY <1>3, <1>4, <1>5, PTL DEF AllSpec

-----------------------------------------------------------------------------
(* EthClient                                                               *)

\* The transactions of the account.
Transactions ==
    {D!Approve, D!Other} \cup {[kind |-> "deposit", amount |-> a] : a \in Nat}

\* What the deposit command's proof needs to know of its variables.
DepositTypes ==
    /\ mode \in Modes
    /\ nonce \in Nat
    /\ approved \in BOOLEAN
    /\ mempool \in [0 .. D!MaxNonce -> Transactions \cup {None}]
    /\ cmd \in [pc : {"Idle", "Balance", "Approved", "Nonce", "Approve",
                      "WaitApproval", "Deposit", "WaitDeposit"},
                amount : Nat, approve_nonce : Nat \cup {None}]
    /\ cmd.pc = "Approve" => cmd.approve_nonce \in Nat

\* Before the approval is mined only a caller that does not wait has a deposit
\* at the node, and no such deposit is next in the order of the nonces; the
\* other transactions of the key, which could take the approval's place, are
\* there only if callers wait.
DepositsBehindApproval ==
    ~approved =>
        /\ \A n \in DOMAIN mempool :
             /\ mempool[n] # None /\ mempool[n].kind = "deposit" =>
                    ~mode.wait /\ n > nonce
             /\ mempool[n] # None /\ mempool[n].kind = "other" => mode.wait
        /\ cmd.pc = "Deposit" =>
               /\ ~mode.wait
               /\ cmd.approve_nonce \in Nat
               /\ cmd.approve_nonce >= nonce

DepositInv == DepositTypes /\ DepositsBehindApproval /\ reverted = 0

\* How the command is used: callers that share their key wait.
SharersWait == \A m \in Modes : m.shared => m.wait

\* The kinds of transactions at the node.
LEMMA KindsOfTransactions ==
    /\ \A t \in Transactions : t = D!Approve \/ t.kind \in {"deposit", "other"}
    /\ D!Approve.kind = "approve" /\ D!Other.kind = "other"
    /\ D!Approve \in Transactions /\ D!Other \in Transactions
    /\ \A a \in Nat : D!Deposit(a) \in Transactions /\ D!Deposit(a).kind = "deposit"
  <1>1. D!Approve.kind = "approve" /\ D!Other.kind = "other"
    BY DEF D!Approve, D!Other
  <1>2. \A a \in Nat : D!Deposit(a) \in Transactions /\ D!Deposit(a).kind = "deposit"
    BY DEF Transactions, D!Deposit
  <1>3. D!Approve \in Transactions /\ D!Other \in Transactions
    BY DEF Transactions
  <1>4. \A t \in Transactions : t = D!Approve \/ t.kind \in {"deposit", "other"}
    <2>1. TAKE t \in Transactions
    <2>2. t = D!Approve \/ t = D!Other \/ \E a \in Nat : t = D!Deposit(a)
      BY DEF Transactions, D!Deposit
    <2>3. CASE t = D!Other
      BY <2>3, <1>1
    <2>4. ASSUME NEW a \in Nat, t = D!Deposit(a)
          PROVE  t.kind = "deposit"
      BY <2>4, <1>2
    <2> QED
      BY <2>2, <2>3, <2>4
  <1> QED
    BY <1>1, <1>2, <1>3, <1>4

\* The invariant of the deposits holds at first.
LEMMA DepositInit ==
    ASSUME D!Init
    PROVE  DepositInv
  <1>1. DepositTypes /\ reverted = 0
    BY DEF D!Init, D!Idle, DepositTypes
  <1>2. cmd.pc = "Idle" /\ \A n \in DOMAIN mempool : mempool[n] = None
    BY DEF D!Init, D!Idle
  <1>3. DepositsBehindApproval
    BY <1>2 DEF DepositsBehindApproval
  <1> QED
    BY <1>1, <1>3 DEF DepositInv

\* A step keeps the invariant of the deposits.
LEMMA DepositStep ==
    ASSUME SharersWait, DepositInv, [D!Next]_D!vars
    PROVE  DepositInv'
  <1> USE DEF DepositInv, DepositTypes
  <1>0. /\ mode.wait \in BOOLEAN /\ mode.shared \in BOOLEAN
        /\ mode.shared => mode.wait
    BY DEF SharersWait
  <1>1. CASE D!Mine
    <2>1. /\ mempool[nonce] \in Transactions /\ mempool[nonce] # None
          /\ nonce \in DOMAIN mempool
      BY <1>1 DEF D!Mine
    <2>a. /\ mode' = mode /\ cmd' = cmd /\ nonce' = nonce + 1
          /\ mempool' = [mempool EXCEPT ![nonce] = None]
          /\ reverted' = reverted + IF mempool[nonce].kind = "deposit" /\ ~approved
                                    THEN 1 ELSE 0
      BY <1>1 DEF D!Mine
    <2>b. approved' = (approved \/ mempool[nonce] = D!Approve)
      BY <1>1 DEF D!Mine
    <2>c. approved' \in BOOLEAN
      BY <2>b, Zenon
    <2>d. DepositTypes'
      BY <2>1, <2>a, <2>c
    <2>2. CASE approved
      <3>1. approved'
        BY <2>2, <2>b, Zenon
      <3>2. reverted' = 0
        BY <2>2, <2>a
      <3> QED
        BY <3>1, <3>2, <2>d DEF DepositsBehindApproval
    <2>3. CASE ~approved /\ mempool[nonce] = D!Approve
      <3>1. mempool[nonce].kind # "deposit"
        BY <2>3, KindsOfTransactions
      <3>2. approved'
        BY <2>3, <2>b, Zenon
      <3>3. reverted' = 0
        BY <2>a, <3>1
      <3> QED
        BY <3>2, <3>3, <2>d DEF DepositsBehindApproval
    <2>4. CASE ~approved /\ mempool[nonce] # D!Approve
      <3>1. mempool[nonce].kind # "deposit"
        BY <2>1, <2>4 DEF DepositsBehindApproval
      <3>2. mode.wait
        BY <2>1, <2>4, <3>1, KindsOfTransactions DEF DepositsBehindApproval
      <3>3. reverted' = 0
        BY <2>a, <3>1
      <3>4. DepositsBehindApproval'
        BY <2>1, <2>a, <2>4, <3>2 DEF DepositsBehindApproval
      <3> QED
        BY <2>d, <3>3, <3>4
    <2> QED
      BY <2>2, <2>3, <2>4
  <1>2. CASE D!DropTransaction
    BY <1>2 DEF D!DropTransaction, DepositsBehindApproval
  <1>3. CASE D!OtherProgram
    <2>1. mode.wait /\ UNCHANGED <<mode, nonce, approved, reverted, cmd>>
      BY <1>0, <1>3 DEF D!OtherProgram
    <2>2. CASE UNCHANGED mempool
      BY <2>1, <2>2 DEF DepositsBehindApproval
    <2>3. CASE mempool' = [mempool EXCEPT ![nonce] = D!Other]
      <3>1. DepositTypes'
        BY <2>1, <2>3, KindsOfTransactions
      <3>2. \A n \in DOMAIN mempool :
              mempool'[n] = mempool[n] \/ mempool'[n] = D!Other
        BY <2>3
      <3>3. DepositsBehindApproval'
        BY <2>1, <2>3, <3>2, KindsOfTransactions DEF DepositsBehindApproval
      <3> QED
        BY <2>1, <3>1, <3>3
    <2> QED
      BY <1>3, <2>2, <2>3 DEF D!OtherProgram, D!Accepted, D!Refused
  <1>4. CASE D!StartDeposit
    BY <1>4 DEF D!StartDeposit, D!node, DepositsBehindApproval
  <1>5. CASE D!eth_to_cosmos
    BY <1>5 DEF D!eth_to_cosmos, D!Goto, D!Idle, D!node, DepositsBehindApproval
  <1>6. CASE D!check_erc20_approved
    BY <1>6 DEF D!check_erc20_approved, D!Goto, D!node, DepositsBehindApproval
  <1>7. CASE D!eth_get_transaction_count
    BY <1>7 DEF D!eth_get_transaction_count, D!node, DepositsBehindApproval
  <1>8. CASE D!approve_erc20_transfers
    <2>1. /\ cmd.pc = "Approve" /\ cmd.approve_nonce \in Nat
          /\ UNCHANGED <<mode, nonce, approved, reverted>>
      BY <1>8 DEF D!approve_erc20_transfers
    <2>2. CASE /\ D!Accepted(cmd.approve_nonce, D!Approve)
               /\ D!Goto(IF mode.wait THEN "WaitApproval" ELSE "Deposit")
      <3>1. /\ cmd' = [cmd EXCEPT !.pc = cmd'.pc]
            /\ cmd'.pc = IF mode.wait THEN "WaitApproval" ELSE "Deposit"
            /\ cmd.approve_nonce >= nonce
            /\ mempool' = [mempool EXCEPT ![cmd.approve_nonce] = D!Approve]
        BY <2>2 DEF D!Accepted, D!Goto
      <3>2. DepositTypes'
        BY <2>1, <3>1, KindsOfTransactions
      <3>3. DepositsBehindApproval'
        BY <1>0, <2>1, <3>1, KindsOfTransactions DEF DepositsBehindApproval
      <3> QED
        BY <2>1, <3>2, <3>3
    <2>3. CASE D!Refused(cmd.approve_nonce) /\ cmd' = D!Idle
      BY <2>1, <2>3 DEF D!Refused, D!Idle, DepositsBehindApproval
    <2> QED
      BY <1>8, <2>2, <2>3 DEF D!approve_erc20_transfers
  <1>9. CASE D!wait_for_approval
    BY <1>9 DEF D!wait_for_approval, D!Goto, D!Idle, D!node, DepositsBehindApproval
  <1>10. CASE D!send_to_cosmos
    <2>1. /\ cmd.pc = "Deposit"
          /\ UNCHANGED <<mode, nonce, approved, reverted>>
      BY <1>10 DEF D!send_to_cosmos
    <2>2. CASE /\ D!Accepted(D!DepositNonce, D!Deposit(cmd.amount))
               /\ IF mode.wait THEN D!Goto("WaitDeposit") ELSE cmd' = D!Idle
      <3>1. /\ mempool' = [mempool EXCEPT ![D!DepositNonce] = D!Deposit(cmd.amount)]
            /\ cmd'.pc \in {"WaitDeposit", "Idle"}
            /\ cmd'.amount \in Nat /\ cmd'.approve_nonce \in Nat \cup {None}
            /\ cmd' = [pc |-> cmd'.pc, amount |-> cmd'.amount,
                       approve_nonce |-> cmd'.approve_nonce]
        BY <2>2 DEF D!Accepted, D!Goto, D!Idle
      <3>2. D!Deposit(cmd.amount) \in Transactions /\ D!Deposit(cmd.amount).kind = "deposit"
        BY KindsOfTransactions
      <3>3. DepositTypes'
        BY <2>1, <3>1, <3>2
      <3>4. ~approved => ~mode.wait /\ D!DepositNonce > nonce /\ D!DepositNonce \in Nat
        BY <2>1 DEF D!DepositNonce, DepositsBehindApproval
      <3>5. DepositsBehindApproval'
        BY <2>1, <3>1, <3>2, <3>4 DEF DepositsBehindApproval
      <3> QED
        BY <2>1, <3>3, <3>5
    <2>3. CASE D!Refused(D!DepositNonce) /\ cmd' = D!Idle
      BY <2>1, <2>3 DEF D!Refused, D!Idle, DepositsBehindApproval
    <2> QED
      BY <1>10, <2>2, <2>3 DEF D!send_to_cosmos
  <1>11. CASE D!wait_for_deposit
    BY <1>11 DEF D!wait_for_deposit, D!Idle, D!node, DepositsBehindApproval
  <1>12. CASE UNCHANGED D!vars
    BY <1>12 DEF D!vars, D!node, DepositsBehindApproval
  <1> QED
    BY <1>1, <1>2, <1>3, <1>4, <1>5, <1>6, <1>7, <1>8, <1>9, <1>10, <1>11, <1>12
    DEF D!Next, D!Command

\* No deposit is mined before the approval it needs, with any number of runs,
\* drops and replacements: the nonces keep the order when the caller does not
\* wait, and the wait keeps it when another program shares the key.
THEOREM DepositsFollowApproval ==
    ASSUME SharersWait
    PROVE  AllSpec => []DepositsAreApproved
  <1> DEFINE Inv == part = "deposit" => DepositInv
  <1>1. Inv => DepositsAreApproved
    BY DEF DepositInv, DepositsAreApproved, D!DepositsAreApproved
  <1>2. AllInit => Inv
    BY DepositInit, PartInits
  <1>3. Inv /\ [AllNext]_allVars => Inv'
    BY PartSteps, DepositStep
  <1> QED
    BY <1>1, <1>2, <1>3, PTL DEF AllSpec

-----------------------------------------------------------------------------
(* CosmosClient                                                            *)

Coins == [denom : Denoms, amount : Nat]
Txs == [kind : {"send"}, amount : Nat, fee : Coins]
       \cup [kind : {"batch"}, fee : Coins]
       \cup [kind : {"cancel"}, id : Nat, fee : Coins]
Commands ==
    [pc : {"Lookup", "Fees", "Balance", "Send", "Broadcast", "WaitSend", "Batch",
           "WaitBatch"},
     amount : Nat, fee : Coins, no_batch : BOOLEAN, overtaken : BOOLEAN]

\* What the withdrawal command's proof needs to know of its variables.
WithdrawalTypes ==
    /\ bal \in [Denoms -> Int]
    /\ pool \subseteq [id : Nat, amount : Nat]
    /\ nextId \in Nat
    /\ sent \in Nat
    /\ tx \in Txs \cup {None}
    /\ cmd = W!Idle \/ cmd \in Commands

\* What the checks of the command have found, one after the other.
Checked ==
    /\ represented
    /\ cmd.amount < bal[Token]
    /\ bal[Token] >= W!TotalAmount

\* Unless a transaction of the account has come between the checks of a command
\* and its own transaction, what they found is still so when that is executed.
ChecksAreFresh ==
    /\ cmd.pc \in {"Fees", "Balance", "Send"} => represented
    /\ cmd.pc = "Send" => cmd.overtaken \/ cmd.amount < bal[Token]
    /\ cmd.pc = "Broadcast" => cmd.overtaken \/ Checked
    /\ cmd.pc = "WaitSend" =>
         \/ cmd.overtaken
         \/ tx = W!SendTx /\ receipt = None /\ Checked
         \/ tx = None /\ receipt \in {None, "ok"}

WithdrawalInv == WithdrawalTypes /\ ChecksAreFresh

\* A transfer that has passed the checks is executed.
LEMMA CheckedIsExecuted ==
    ASSUME bal \in [Denoms -> Int], cmd \in Commands,
           Checked, W!SendToEth(W!SendTx)
    PROVE  receipt' = "ok"
  <1> DEFINE b == W!AfterFee(W!SendTx)
  <1>1. /\ cmd.amount \in Nat /\ cmd.fee.amount \in Nat /\ cmd.fee.denom \in Denoms
        /\ W!SendTx.amount = cmd.amount /\ W!SendTx.fee = cmd.fee
    BY DEF Commands, Coins, W!SendTx
  <1>2. b[Token] >= cmd.amount + 1
    BY <1>1 DEF Checked, W!TotalAmount, W!AfterFee
  <1> QED
    BY <1>1, <1>2 DEF W!SendToEth, W!BridgeFee, Checked

\* The chain keeps its types whatever transaction it executes.
LEMMA ExecutionIsTyped ==
    ASSUME WithdrawalTypes, tx # None, W!DeliverTx
    PROVE  WithdrawalTypes'
  <1> USE DEF WithdrawalTypes
  <1>1. tx \in Txs /\ tx.fee \in Coins
    BY DEF Txs
  <1>2. W!AfterFee(tx) \in [Denoms -> Int]
    BY <1>1 DEF W!AfterFee, Coins
  <1>3. (cmd' = W!Idle \/ cmd' \in Commands) /\ sent' = sent /\ tx' = None
    <2>1. CASE cmd = W!Idle
      BY <2>1 DEF W!DeliverTx, W!Idle
    <2>2. CASE cmd \in Commands
      BY <2>2 DEF W!DeliverTx, Commands
    <2> QED
      BY <2>1, <2>2 DEF W!DeliverTx
  <1>4. CASE tx.kind = "send" /\ W!SendToEth(tx)
    <2>1. tx.amount \in Nat
      BY <1>1, <1>4 DEF Txs
    <2> QED
      BY <1>2, <1>3, <1>4, <2>1 DEF W!SendToEth, W!BridgeFee
  <1>5. CASE tx.kind = "batch" /\ W!RequestBatch(tx)
    BY <1>2, <1>3, <1>5 DEF W!RequestBatch
  <1>6. CASE tx.kind = "cancel" /\ W!CancelSendToEth(tx)
    <2> DEFINE found == {p \in pool : p.id = tx.id}
               back == IF found = {} THEN 0
                       ELSE W!BridgeFee + (CHOOSE p \in found : TRUE).amount
    <2>1. back \in Int
      <3>1. CASE found = {}
        BY <3>1
      <3>2. CASE found # {}
        <4>1. (CHOOSE p \in found : TRUE) \in pool
          BY <3>2
        <4> QED
          BY <3>2, <4>1 DEF W!BridgeFee
      <3> QED
        BY <3>1, <3>2
    <2>2. /\ bal' = [W!AfterFee(tx) EXCEPT ![Token] = @ + back]
          /\ pool' = pool \ found /\ nextId' = nextId
      BY <1>6 DEF W!CancelSendToEth
    <2> HIDE DEF back
    <2> QED
      BY <1>2, <1>3, <2>1, <2>2
  <1> QED
    BY <1>1, <1>4, <1>5, <1>6 DEF W!DeliverTx, Txs

\* The invariant of the withdrawals holds at first.
LEMMA WithdrawalInit ==
    ASSUME W!Init
    PROVE  WithdrawalInv
  <1>1. WithdrawalTypes
    BY DEF W!Init, WithdrawalTypes
  <1>2. cmd.pc = "Idle"
    BY DEF W!Init, W!Idle
  <1> QED
    BY <1>1, <1>2 DEF WithdrawalInv, ChecksAreFresh

\* After its transfer the command ends or asks for a batch.
LEMMA AfterTransfer ==
    ASSUME cmd \in Commands, W!AfterSend
    PROVE  /\ cmd' = W!Idle \/ cmd' \in Commands
           /\ cmd'.pc \in {"Idle", "Batch"}
  BY DEF W!AfterSend, W!Exit, W!Goto, W!Idle, Commands

\* A step keeps the invariant of the withdrawals.
LEMMA WithdrawalStep ==
    ASSUME WithdrawalInv, [W!Next]_W!vars
    PROVE  WithdrawalInv'
  <1> USE DEF WithdrawalInv
  <1>0. cmd.pc # "Idle" => cmd \in Commands
    BY DEF WithdrawalTypes, W!Idle
  <1>1. CASE W!DeliverTx
    <2>1. WithdrawalTypes'
      BY <1>1, ExecutionIsTyped DEF W!DeliverTx
    <2>2. tx' = None /\ tx # None /\ represented' = represented
      BY <1>1 DEF W!DeliverTx
    <2>3. CASE cmd.pc \in {"Send", "Broadcast"}
      <3>1. cmd' = [cmd EXCEPT !.overtaken = TRUE] /\ cmd \in Commands
        BY <1>0, <1>1, <2>3 DEF W!DeliverTx
      <3>2. cmd'.pc = cmd.pc /\ cmd'.overtaken
        BY <3>1 DEF Commands
      <3> QED
        BY <2>1, <2>2, <2>3, <3>2 DEF ChecksAreFresh
    <2>4. CASE cmd.pc = "WaitSend" /\ ~cmd.overtaken
      <3>1. tx = W!SendTx /\ Checked /\ cmd' = cmd
        BY <1>1, <2>2, <2>4 DEF ChecksAreFresh, W!DeliverTx
      <3>2. W!SendToEth(W!SendTx)
        BY <1>1, <3>1 DEF W!DeliverTx, W!SendTx
      <3>3. receipt' = "ok"
        BY <1>0, <2>4, <3>1, <3>2, CheckedIsExecuted DEF WithdrawalTypes
      <3> QED
        BY <2>1, <2>2, <2>4, <3>1, <3>3 DEF ChecksAreFresh
    <2>5. CASE cmd.pc \notin {"Send", "Broadcast"} /\ (cmd.pc = "WaitSend" => cmd.overtaken)
      <3>1. cmd' = cmd
        BY <1>1, <2>5 DEF W!DeliverTx
      <3> QED
        BY <2>1, <2>2, <2>5, <3>1 DEF ChecksAreFresh
    <2> QED
      BY <2>3, <2>4, <2>5
  <1>2. CASE W!LoseTx
    <2>1. tx' = None /\ UNCHANGED <<bal, represented, pool, nextId, receipt, cmd, sent>>
      BY <1>2 DEF W!LoseTx
    <2>2. WithdrawalTypes'
      BY <2>1 DEF WithdrawalTypes, W!Idle
    <2>3. ChecksAreFresh'
      BY <2>1 DEF ChecksAreFresh, Checked, W!TotalAmount
    <2> QED
      BY <2>2, <2>3
  <1>3. CASE W!Start
    <2>1. PICK a \in Withdrawals, f \in Fees, nb \in BOOLEAN :
            cmd' = [pc |-> "Lookup", amount |-> a, fee |-> f, no_batch |-> nb,
                    overtaken |-> FALSE]
      BY <1>3 DEF W!Start
    <2>2. cmd' \in Commands /\ cmd'.pc = "Lookup"
      BY <2>1 DEF Commands, Coins
    <2>3. UNCHANGED <<bal, represented, pool, nextId, tx, receipt, sent>>
      BY <1>3 DEF W!Start, W!chain
    <2> QED
      BY <2>2, <2>3 DEF WithdrawalTypes, ChecksAreFresh
  <1>4. ASSUME NEW from, NEW to, cmd.pc = from, from # "Idle",
               \/ cmd' = W!Idle
               \/ /\ cmd' = [cmd EXCEPT !.pc = to]
                  /\ \/ from = "Lookup" /\ to = "Fees"
                     \/ from = "Fees" /\ to = "Balance"
                     \/ from = "Balance" /\ to = "Send"
                     \/ from = "Send" /\ to \in {"Broadcast", "Batch"}
                  /\ from = "Lookup" => represented
                  /\ from = "Balance" => cmd.amount < bal[Token]
                  /\ to = "Broadcast" => bal[Token] >= W!TotalAmount,
               UNCHANGED <<bal, represented, pool, nextId, tx, receipt, sent>>
        PROVE  WithdrawalInv'
    <2>1. CASE cmd' = W!Idle
      BY <1>4, <2>1 DEF WithdrawalTypes, ChecksAreFresh, W!Idle
    <2>2. CASE cmd' # W!Idle
      <3>1. /\ cmd' \in Commands /\ cmd'.pc = to
            /\ cmd'.amount = cmd.amount /\ cmd'.fee = cmd.fee /\ cmd'.overtaken = cmd.overtaken
        BY <1>0, <1>4, <2>2 DEF Commands
      <3>2. W!TotalAmount' = W!TotalAmount
        BY <3>1 DEF W!TotalAmount
      <3>3. WithdrawalTypes'
        BY <1>4, <3>1 DEF WithdrawalTypes
      <3>4. ChecksAreFresh'
        BY <1>4, <2>2, <3>1, <3>2 DEF ChecksAreFresh, Checked
      <3> QED
        BY <3>3, <3>4
    <2> QED
      BY <2>1, <2>2
  <1>5. CASE W!denom_to_erc20
    BY <1>4, <1>5 DEF W!denom_to_erc20, W!Goto, W!Exit, W!chain
  <1>6. CASE W!CheckFees
    BY <1>4, <1>6 DEF W!CheckFees, W!Goto, W!Exit, W!chain
  <1>7. CASE W!CheckBalance
    <2>1. cmd.amount \in Nat /\ bal[Token] \in Int
      BY <1>0, <1>7 DEF W!CheckBalance, Commands, WithdrawalTypes
    <2> QED
      BY <1>4, <1>7, <2>1 DEF W!CheckBalance, W!Goto, W!Exit, W!chain
  <1>8. CASE W!CheckTotal
    <2>1. W!TotalAmount \in Nat /\ bal[Token] \in Int
      BY <1>0, <1>8
      DEF W!CheckTotal, W!TotalAmount, Commands, Coins, WithdrawalTypes
    <2> QED
      BY <1>4, <1>8, <2>1 DEF W!CheckTotal, W!AfterSend, W!Goto, W!Exit, W!chain
  <1>9. CASE W!send_to_eth
    <2>1. cmd.pc = "Broadcast" /\ cmd \in Commands /\ (cmd.overtaken \/ Checked) /\ sent' = sent
      BY <1>0, <1>9 DEF W!send_to_eth, ChecksAreFresh
    <2>2. CASE W!Goto("WaitSend") /\ W!Broadcast(W!SendTx)
      <3>1. /\ cmd' \in Commands /\ cmd'.pc = "WaitSend"
            /\ cmd'.amount = cmd.amount /\ cmd'.fee = cmd.fee /\ cmd'.overtaken = cmd.overtaken
        BY <2>1, <2>2 DEF W!Goto, Commands
      <3>2. /\ tx' = W!SendTx /\ receipt' = None
            /\ UNCHANGED <<bal, represented, pool, nextId>>
        BY <2>2 DEF W!Broadcast
      <3>3. W!SendTx' = W!SendTx /\ (cmd'.overtaken \/ Checked')
        BY <2>1, <3>1, <3>2 DEF W!SendTx, Checked, W!TotalAmount
      <3>4. W!SendTx \in Txs
        BY <2>1 DEF W!SendTx, Txs, Commands
      <3>5. WithdrawalTypes'
        BY <2>1, <3>1, <3>2, <3>4 DEF WithdrawalTypes
      <3>6. ChecksAreFresh'
        BY <3>1, <3>2, <3>3 DEF ChecksAreFresh
      <3> QED
        BY <3>5, <3>6
    <2>3. CASE W!AfterSend /\ UNCHANGED W!chain
      BY <2>1, <2>3, AfterTransfer DEF W!chain, WithdrawalTypes, ChecksAreFresh
    <2> QED
      BY <1>9, <2>2, <2>3 DEF W!send_to_eth
  <1>10. CASE W!wait_for_tx
    <2>1. /\ cmd.pc = "WaitSend" /\ cmd \in Commands /\ W!AfterSend
          /\ sent' \in {sent, sent + 1} /\ UNCHANGED W!chain
      BY <1>0, <1>10 DEF W!wait_for_tx
    <2> QED
      BY <2>1, AfterTransfer DEF W!chain, WithdrawalTypes, ChecksAreFresh
  <1>11. CASE W!send_request_batch
    <2>1. cmd.pc = "Batch" /\ cmd \in Commands /\ sent' = sent
      BY <1>0, <1>11 DEF W!send_request_batch
    <2>2. CASE W!Goto("WaitBatch") /\ W!Broadcast(W!BatchTx)
      <3>1. cmd' \in Commands /\ cmd'.pc = "WaitBatch"
        BY <2>1, <2>2 DEF W!Goto, Commands
      <3>2. W!BatchTx \in Txs
        BY DEF W!BatchTx, W!Coin, W!BridgeFee, Txs, Coins
      <3> QED
        BY <2>1, <2>2, <3>1, <3>2 DEF W!Broadcast, WithdrawalTypes, ChecksAreFresh
    <2>3. CASE W!Exit /\ UNCHANGED W!chain
      BY <2>1, <2>3 DEF W!Exit, W!Idle, W!chain, WithdrawalTypes, ChecksAreFresh
    <2> QED
      BY <1>11, <2>2, <2>3 DEF W!send_request_batch
  <1>12. CASE W!wait_for_batch
    BY <1>12 DEF W!wait_for_batch, W!Exit, W!Idle, W!chain, WithdrawalTypes, ChecksAreFresh
  <1>13. CASE W!cancel_send_to_eth
    <2>1. PICK id \in 1 .. nextId - 1, f \in Fees :
            W!Broadcast([kind |-> "cancel", id |-> id, fee |-> f])
      BY <1>13 DEF W!cancel_send_to_eth
    <2>2. [kind |-> "cancel", id |-> id, fee |-> f] \in Txs
      BY DEF Txs, Coins, WithdrawalTypes
    <2>3. cmd.pc = "Idle" /\ UNCHANGED <<cmd, sent>>
      BY <1>13 DEF W!cancel_send_to_eth
    <2> QED
      BY <2>1, <2>2, <2>3 DEF W!Broadcast, W!Idle, WithdrawalTypes, ChecksAreFresh
  <1>14. CASE UNCHANGED W!vars
    <2>1. UNCHANGED <<bal, represented, pool, nextId, tx, receipt, cmd, sent>>
      BY <1>14 DEF W!vars, W!chain
    <2> QED
      BY <2>1 DEF WithdrawalTypes, ChecksAreFresh, Checked, W!TotalAmount, W!SendTx, W!Idle
  <1> QED
    BY <1>1, <1>2, <1>3, <1>5, <1>6, <1>7, <1>8, <1>9, <1>10, <1>11, <1>12, <1>13, <1>14
    DEF W!Next

\* A transfer whose id the command shows is in the bridge, for every balance,
\* amount and fee, and however soon commands are repeated: what the command
\* checks covers what the chain takes, unless a transaction that an earlier
\* command left behind is executed between the checks and the broadcast.
THEOREM ShownTransfersAreLocked == AllSpec => ShownMeansLocked
  <1>1. ASSUME WithdrawalInv, [W!Next]_W!vars
        PROVE  [sent' > sent => receipt = "ok" \/ cmd.overtaken]_W!vars
    <2>1. CASE W!wait_for_tx
      BY <1>1, <2>1
      DEF W!wait_for_tx, WithdrawalInv, WithdrawalTypes, ChecksAreFresh
    <2>2. CASE sent' = sent
      BY <1>1, <2>2 DEF WithdrawalInv, WithdrawalTypes
    <2> QED
      BY <1>1, <2>1, <2>2
      DEF W!Next, W!vars, W!DeliverTx, W!LoseTx, W!Start, W!denom_to_erc20, W!CheckFees,
          W!CheckBalance, W!CheckTotal, W!send_to_eth, W!send_request_batch,
          W!wait_for_batch, W!cancel_send_to_eth
  <1> DEFINE Inv == /\ part = "withdrawal" => WithdrawalInv
                    /\ part # "withdrawal" => sent = 0
  <1>2. AllInit => Inv
    BY WithdrawalInit, PartInits
  <1>3. Inv /\ [AllNext]_allVars => Inv'
    BY PartSteps, WithdrawalStep
  <1>4. Inv /\ [AllNext]_allVars => [sent' > sent => receipt = "ok" \/ cmd.overtaken]_W!vars
    BY <1>1, PartSteps
  <1> QED
    BY <1>2, <1>3, <1>4, PTL DEF AllSpec, ShownMeansLocked, W!ShownMeansLocked
=============================================================================
