------------------------------- MODULE MCNabt -------------------------------
(* The commands of nabt and the computations, in one run.                  *)
EXTENDS Computations, TLC, SequencesExt

CONSTANTS val1, val2, o1, o2, e1, e2, u1, u2, weth, t1, t2

-----------------------------------------------------------------------------
(* The validator sets and the subjects of Checkpoints. Powers add up to    *)
(* TotalPower or, as after integer division, to a little less.             *)

MCEthAddress == 1..3

Splits == {<<300>>, <<150, 150>>, <<100, 100, 100>>, <<60, 41, 198>>, <<1, 198, 100>>,
           <<2, 197, 0>>}

\* Orders other than by power occur: the first set comes from the deployer.
Orders(n) == {f \in [1..n -> MCEthAddress] : \A i, j \in 1..n : f[i] = f[j] => i = j}

MCContractValsets ==
    {[validators |-> a, powers |-> p, valsetNonce |-> 1, rewardAmount |-> r[1],
      rewardToken |-> r[2]] :
        <<p, r, a>> \in {<<p, r, a>> \in Splits \X {<<0, 0>>, <<5, 3>>}
                            \X UNION {Orders(n) : n \in 1..3} : Len(a) = Len(p)}}

Erc20Token(n, c) == [amount |-> n, contract |-> c]
Tx(d, n, f) == [dest_address |-> d, erc20_token |-> Erc20Token(n, 2), erc20_fee |-> Erc20Token(f, 2)]
Batch(txs) == [kind |-> "batch",
               body |-> [batch_nonce |-> 7, batch_timeout |-> 9, transactions |-> txs,
                         token_contract |-> 2]]
Call(ts, fs) == [kind |-> "call",
                 body |-> [transfers |-> ts, fees |-> fs, logic_contract_address |-> 3,
                           payload |-> <<1, 2>>, timeout |-> 9, invalidation_id |-> <<4, 0, 6>>,
                           invalidation_nonce |-> 6]]
Valset(token, amount) ==
    [kind |-> "valset",
     body |-> [nonce |-> 2, reward_amount |-> amount, reward_token |-> token,
               members |-> <<[power |-> 200, ethereum_address |-> 3],
                             [power |-> 99, ethereum_address |-> 1]>>]]

MCSubjects ==
    {Batch(<<Tx(1, 3, 1)>>), Batch(<<Tx(1, 3, 1), Tx(3, 2, 5)>>),
     Call(<<Erc20Token(1, 2), Erc20Token(2, 3)>>, <<Erc20Token(5, 2)>>), Call(<<Erc20Token(1, 2)>>, <<>>),
     Valset(0, 0), Valset(3, 8)}

-----------------------------------------------------------------------------
(* The events of EventDecoding. Words of three bytes; numbers around the   *)
(* greatest u64; strings that end before, at and behind the end of a word, *)
(* and one too long; destinations of an address and of more.               *)

Numbers == {1, U64MAX, U64MAX + 1}
BlockHeights == {5, U64MAX - 1, U64MAX, U64MAX + 1, None}
Addresses == {0, 7}
Destinations == {<<0, 0, 9>>, <<0, 5, 9>>, <<4, 5, 9>>}
Strings == {<<>>, <<65>>, <<66, 65>>, <<65, 66, 66>>, <<66, 65, 65, 66>>, <<65, 65, 65, 65, 65>>}
           \cup {<<b>> : b \in OtherBytes}
Members == SeqOf([eth_address : {7, 8}, power : {1, U64MAX + 1}], 2)

MCInputs ==
    [kind : {"valset"}, valset_nonce : Numbers, event_nonce : {1, U64MAX + 1},
     block_height : BlockHeights, reward_amount : {9}, reward_token : Addresses, members : Members]
    \cup
    [kind : {"batch"}, batch_nonce : Numbers, erc20 : {7}, event_nonce : Numbers,
     block_height : BlockHeights]
    \cup
    [kind : {"deposit"}, erc20 : {7}, sender : {8}, destination : Destinations,
     amount : {0, U64MAX + 1}, event_nonce : Numbers, block_height : BlockHeights]
    \cup
    [kind : {"erc20"}, erc20 : {7}, cosmos_denom : Strings, name : Strings,
     symbol : Strings, decimals : {6, U8MAX + 1}, event_nonce : {1, U64MAX + 1},
     block_height : {5, U64MAX}]

\* RelayMarket: two tokens beside WETH.
MCOtherTokens == {t1, t2}

-----------------------------------------------------------------------------
\* Startup: the fee is paid in "nab". One account has exactly the fee, one has
\* also too little of a coin whose name contains "nab", one has nothing.
Http == [scheme |-> "http", localhost |-> FALSE, port |-> TRUE]
Https == [scheme |-> "https", localhost |-> FALSE, port |-> TRUE]
Local == [scheme |-> "http", localhost |-> TRUE, port |-> TRUE]
MCUrls == {[grpc |-> Http, eth |-> Local], [grpc |-> Local, eth |-> Http],
           [grpc |-> Https, eth |-> Https]}
MCFee == [denom |-> "nab", amount |-> 2]
MCPartOf == {<<"nab", "nab">>, <<"gnab", "nab">>}
Eur == [denom |-> "eur", amount |-> 9]
Nab == [denom |-> "nab", amount |-> 2]
MCAccounts ==
    {[balances |-> <<Eur, Nab>>, ether |-> 1, address |-> "set"],
     [balances |-> <<[denom |-> "gnab", amount |-> 1], Nab>>, ether |-> 1, address |-> "set"],
     [balances |-> <<Eur>>, ether |-> 0, address |-> None]}

\* DelegateKeys: two operators with the same keys from elsewhere; one more key
\* of each kind can be generated.
MCValidators == {val1, val2}
MCOwnOrch == (val1 :> {o1}) @@ (val2 :> {o1})
MCOwnEth == (val1 :> {e1}) @@ (val2 :> {e1})

\* EthClient: every way to run the command but one, unattended with a key in use.
MCModes == {m \in [wait : BOOLEAN, shared : BOOLEAN] : m.shared => m.wait}

\* CosmosClient: an account with some of the token and some of the staking coin.
MCBalances == {("token" :> t) @@ ("stake" :> s) : t \in {2, 4, 5, 7}, s \in {1, 3}}
MCFees == {[denom |-> "token", amount |-> 1], [denom |-> "stake", amount |-> 1]}

-----------------------------------------------------------------------------
\* The fairness of Startup and of EthClient.
FairSpec ==
    /\ AllSpec
    /\ WF_allVars(InStartup /\ S!Run /\ UNCHANGED computations)
    /\ WF_allVars(InDeposit /\ D!Mine /\ UNCHANGED computations)
    /\ WF_allVars(InDeposit /\ D!Command /\ UNCHANGED computations)
=============================================================================
