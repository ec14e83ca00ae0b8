---------------------------- MODULE BridgeProofs ----------------------------
(***************************************************************************)
(* No transfer is paid twice, none is paid and refunded, and the chain     *)
(* never halts: for every number of tokens, accounts, transfers, batches,  *)
(* events and blocks, every batch size and all the parameters that the     *)
(* timeout of a batch is computed from.                                    *)
(*                                                                         *)
(* The argument.  The event log is ordered by height and, for the batches  *)
(* of one token, by nonce.  A batch leaves the store only because an event *)
(* above its timeout was observed, or because the execution of it or of a  *)
(* later batch of its token was.  Either event comes before anything that  *)
(* is still unobserved, so an execution that Cosmos has yet to observe is  *)
(* one of a batch that is still in the store.  The transfers of that batch *)
(* are in no other batch of the store, not in the pool and not refunded.   *)
(***************************************************************************)
EXTENDS Bridge, TLAPS

\* Cosmos knows a prefix of the log, and the height of its last event.
ObservedPrefix ==
    /\ lastObservedEventNonce \in 0..Len(events)
    /\ observedHeights.ethereum =
           IF lastObservedEventNonce = 0 THEN 0
           ELSE events[lastObservedEventNonce].height
    /\ observedHeights.cosmos <= blockHeight

\* The log is ordered by height.
HeightsIncrease ==
    \A i \in DOMAIN events :
        /\ events[i].height <= ethHeight
        /\ \A j \in DOMAIN events : j <= i => events[j].height <= events[i].height

\* Ids and nonces are used once, and a batch of the store has been built.
IdsAreUsedOnce ==
    /\ batches \subseteq checkpoints
    /\ \A b \in checkpoints : b.nonce < nextBatchID
    /\ \A b, c \in checkpoints : b.nonce = c.nonce => b = c
    /\ \A b \in checkpoints : \A x \in b.txs : x.id < nextTXID
    /\ \A x \in pool : x.id < nextTXID
    /\ \A id \in refunded : id < nextTXID

\* What submitBatch has executed: batches that were built, before their
\* timeouts, in the order of their nonces.
ExecutedInOrder ==
    \A i \in DOMAIN events : events[i].kind = "batch" =>
        /\ events[i].token \in Tokens
        /\ events[i].nonce <= lastBatchNonces[events[i].token]
        /\ \A j \in DOMAIN events :
               /\ events[j].kind = "batch"
               /\ events[j].token = events[i].token
               /\ j < i
               => events[j].nonce < events[i].nonce
        /\ \E b \in checkpoints : Executes(i, b)
        /\ \A b \in checkpoints : Executes(i, b) => events[i].height < b.timeout

\* A batch is out of the store only when Ethereum cannot execute it any more.
RemovedForAReason ==
    \A b \in checkpoints \ batches :
        \/ b.timeout < observedHeights.ethereum
        \/ \E i \in 1..lastObservedEventNonce :
               /\ events[i].kind = "batch"
               /\ events[i].token = b.token
               /\ b.nonce <= events[i].nonce

\* A transfer is in the pool, or in one batch of the store, or refunded.
InOnePlace ==
    /\ \A x, y \in pool : x.id = y.id => x = y
    /\ \A x \in pool : x.id \notin refunded
    /\ \A b \in batches : \A x \in b.txs :
           /\ x.id \notin refunded
           /\ \A y \in pool : x.id # y.id
    /\ \A b, c \in batches : \A x \in b.txs, y \in c.txs :
           x.id = y.id => b = c /\ x = y

\* A transfer whose payment was observed is in none of these places, and only
\* one event has paid it.
SettledIsSettled ==
    \A i \in 1..lastObservedEventNonce : \A b \in checkpoints :
        Executes(i, b) =>
            \A x \in b.txs :
                /\ x.id \notin refunded
                /\ \A y \in pool : x.id # y.id
                /\ \A c \in batches : \A y \in c.txs : x.id # y.id
                /\ \A j \in 1..lastObservedEventNonce : \A c \in checkpoints :
                       Executes(j, c) =>
                           \A y \in c.txs : x.id = y.id => i = j

\* Rewards are in tokens that Cosmos knows.
RewardsAreKnown ==
    \A i \in DOMAIN events : events[i].kind = "valset" =>
        \/ events[i].amount = 0
        \/ events[i].token \in cosmosOriginated

IInv == /\ TypeOK
        /\ ObservedPrefix
        /\ HeightsIncrease
        /\ IdsAreUsedOnce
        /\ ExecutedInOrder
        /\ RemovedForAReason
        /\ InOnePlace
        /\ SettledIsSettled
        /\ RewardsAreKnown
        /\ NeverHalts

-----------------------------------------------------------------------------
\* What Append does to the log.
LEMMA AppendFacts ==
    ASSUME NEW S, NEW s \in Seq(S), NEW e \in S
    PROVE  /\ Append(s, e) \in Seq(S)
           /\ Len(s) \in Nat /\ DOMAIN s = 1..Len(s)
           /\ Len(Append(s, e)) = Len(s) + 1
           /\ DOMAIN Append(s, e) = 1..(Len(s) + 1)
           /\ \A i \in 1..Len(s) : Append(s, e)[i] = s[i]
           /\ Append(s, e)[Len(s) + 1] = e
  OBVIOUS

\* The fields of a record of Events that the proofs use.
LEMMA EventFields ==
    ASSUME NEW e \in Events
    PROVE  e.height \in Nat /\ e.nonce \in Nat /\ e.amount \in Nat
  BY DEF Events

\* The log is a sequence of such records.
LEMMA LogFacts ==
    ASSUME TypeOK
    PROVE  /\ events \in Seq(Events)
           /\ DOMAIN events = 1..Len(events) /\ Len(events) \in Nat
           /\ \A j \in DOMAIN events : /\ events[j] \in Events
                                      /\ events[j].height \in Nat
                                      /\ events[j].nonce \in Nat
  <1>1. events \in Seq(Events)
    BY DEF TypeOK, ContractTypeOK
  <1>2. \A j \in DOMAIN events : events[j] \in Events
    BY <1>1
  <1> QED
    BY <1>1, <1>2, EventFields

\* An execution that Cosmos has not observed yet is one of a batch that is
\* still in the store.
LEMMA UnobservedIsStored ==
    ASSUME IInv, NEW i \in DOMAIN events, i > lastObservedEventNonce,
           NEW b \in checkpoints, Executes(i, b)
    PROVE  b \in batches
  <1> SUFFICES ASSUME b \notin batches PROVE FALSE
    OBVIOUS
  <1>1. /\ events \in Seq(Events)
        /\ DOMAIN events = 1..Len(events) /\ Len(events) \in Nat
        /\ lastObservedEventNonce \in 0..Len(events)
        /\ b.timeout \in Nat /\ b.nonce \in Nat
    BY DEF IInv, TypeOK, KeeperTypeOK, ContractTypeOK, ObservedPrefix,
        OutgoingTxBatch
  <1>2. /\ events[i].kind = "batch" /\ events[i].token = b.token
        /\ events[i].nonce = b.nonce
    BY DEF Executes
  <1>3. \A j \in DOMAIN events : /\ events[j].height \in Nat
                                 /\ events[j].nonce \in Nat
    BY LogFacts DEF IInv
  <1>4. CASE b.timeout < observedHeights.ethereum
    <2>1. events[i].height < b.timeout
      BY <1>2 DEF IInv, ExecutedInOrder
    <2>2. lastObservedEventNonce # 0
      BY <1>1, <1>4 DEF IInv, ObservedPrefix
    <2>3. /\ lastObservedEventNonce \in DOMAIN events
          /\ observedHeights.ethereum = events[lastObservedEventNonce].height
      BY <1>1, <2>2 DEF IInv, ObservedPrefix
    <2>4. events[lastObservedEventNonce].height <= events[i].height
      BY <1>1, <2>3 DEF IInv, HeightsIncrease
    <2> QED
      BY <1>1, <1>3, <1>4, <2>1, <2>3, <2>4
  <1>5. ASSUME NEW j \in 1..lastObservedEventNonce,
               events[j].kind = "batch", events[j].token = b.token,
               b.nonce <= events[j].nonce
        PROVE  FALSE
    <2>1. j \in DOMAIN events /\ j < i
      BY <1>1
    <2>2. events[j].nonce < events[i].nonce
      BY <1>2, <1>5, <2>1 DEF IInv, ExecutedInOrder
    <2> QED
      BY <1>1, <1>2, <1>3, <1>5, <2>1, <2>2
  <1> QED
    BY <1>4, <1>5 DEF IInv, RemovedForAReason

\* The property follows from the invariant.
LEMMA IInvImpliesNoDoubleSpend == IInv => NoDoubleSpend
  <1> SUFFICES ASSUME IInv, NEW i \in DOMAIN events, NEW x \in PaidBy(i)
               PROVE  /\ x.id \notin refunded
                      /\ \A j \in DOMAIN events : \A y \in PaidBy(j) :
                             x.id = y.id => i = j
    BY DEF NoDoubleSpend
  <1>1. /\ DOMAIN events = 1..Len(events) /\ Len(events) \in Nat
        /\ lastObservedEventNonce \in 0..Len(events)
    BY DEF IInv, TypeOK, ContractTypeOK, ObservedPrefix
  <1>2. PICK b \in checkpoints : Executes(i, b) /\ x \in b.txs
    BY DEF PaidBy
  <1>3. \/ i \in 1..lastObservedEventNonce
        \/ i > lastObservedEventNonce /\ b \in batches
    BY <1>1, <1>2, UnobservedIsStored
  <1>4. x.id \notin refunded
    BY <1>2, <1>3 DEF IInv, SettledIsSettled, InOnePlace
  <1>5. ASSUME NEW j \in DOMAIN events, NEW y \in PaidBy(j), x.id = y.id
        PROVE  i = j
    <2>1. PICK c \in checkpoints : Executes(j, c) /\ y \in c.txs
      BY DEF PaidBy
    <2>2. \/ j \in 1..lastObservedEventNonce
          \/ j > lastObservedEventNonce /\ c \in batches
      BY <1>1, <2>1, UnobservedIsStored
    <2>3. CASE i \in 1..lastObservedEventNonce /\ j \in 1..lastObservedEventNonce
      BY <1>2, <1>5, <2>1, <2>3 DEF IInv, SettledIsSettled
    <2>4. CASE i \in 1..lastObservedEventNonce /\ c \in batches
      BY <1>2, <1>5, <2>1, <2>4 DEF IInv, SettledIsSettled
    <2>5. CASE b \in batches /\ j \in 1..lastObservedEventNonce
      BY <1>2, <1>5, <2>1, <2>5 DEF IInv, SettledIsSettled
    <2>6. CASE b \in batches /\ c \in batches
      <3>1. b = c
        BY <1>2, <1>5, <2>1, <2>6 DEF IInv, InOnePlace
      <3>2. /\ events[i].kind = "batch" /\ events[j].kind = "batch"
            /\ events[i].token = events[j].token
            /\ events[i].nonce = events[j].nonce
        BY <1>2, <2>1, <3>1 DEF Executes
      <3>3. events[i].nonce \in Nat
        BY LogFacts DEF IInv
      <3>4. ~(i < j) /\ ~(j < i)
        BY <3>2, <3>3 DEF IInv, ExecutedInOrder
      <3> QED
        BY <1>1, <3>4
    <2> QED
      BY <1>3, <2>2, <2>3, <2>4, <2>5, <2>6
  <1> QED
    BY <1>4, <1>5

-----------------------------------------------------------------------------
\* At the start there is the event of the constructor, and nothing else.
LEMMA InitIInv == Init => IInv
  <1> SUFFICES ASSUME Init PROVE IInv
    OBVIOUS
  <1> USE DEF Init, KeeperInit, ContractInit
  <1> DEFINE e == [kind |-> "valset", height |-> 1, token |-> NoToken,
                   nonce |-> 0, amount |-> 0, receiver |-> BadAddress]
  <1>1. e \in Events
    BY DEF Events
  <1>2. /\ events \in Seq(Events) /\ Len(events) = 1
        /\ DOMAIN events = 1..1 /\ events[1] = e
    BY <1>1
  <1>3. TypeOK
    <2>1. KeeperTypeOK
      BY KeeperAssumption DEF KeeperTypeOK
    <2>2. ContractTypeOK
      BY <1>2, ContractAssumption DEF ContractTypeOK
    <2> QED
      BY <2>1, <2>2 DEF TypeOK
  <1>4. \A i \in DOMAIN events : /\ events[i].height = 1
                                 /\ events[i].kind = "valset"
                                 /\ events[i].amount = 0
    BY <1>2
  <1>5. ObservedPrefix /\ HeightsIncrease
    BY <1>2, <1>4 DEF ObservedPrefix, HeightsIncrease
  <1>6. ExecutedInOrder /\ RewardsAreKnown
    BY <1>4 DEF ExecutedInOrder, RewardsAreKnown
  <1>7. IdsAreUsedOnce /\ RemovedForAReason /\ InOnePlace /\ SettledIsSettled
    BY DEF IdsAreUsedOnce, RemovedForAReason, InOnePlace, SettledIsSettled
  <1> QED
    BY <1>3, <1>5, <1>6, <1>7 DEF IInv, NeverHalts

-----------------------------------------------------------------------------
\* What a step keeps when it leaves the log and what was observed of it alone.
LEMMA LogUnchanged ==
    ASSUME IInv, events' = events, ethHeight' = ethHeight,
           lastObservedEventNonce' = lastObservedEventNonce,
           observedHeights' = observedHeights, blockHeight' = blockHeight
    PROVE  ObservedPrefix' /\ HeightsIncrease'
  <1>1. ObservedPrefix'
    BY DEF IInv, ObservedPrefix
  <1>2. HeightsIncrease'
    BY DEF IInv, HeightsIncrease
  <1> QED
    BY <1>1, <1>2

\* What a step keeps when it leaves the log and the set of batches alone.
LEMMA BatchesUnchanged ==
    ASSUME IInv, events' = events, lastBatchNonces' = lastBatchNonces,
           lastObservedEventNonce' = lastObservedEventNonce,
           observedHeights' = observedHeights, checkpoints' = checkpoints,
           batches' = batches
    PROVE  ExecutedInOrder' /\ RemovedForAReason'
  <1>1. ExecutedInOrder'
    BY DEF IInv, ExecutedInOrder, Executes
  <1>2. RemovedForAReason'
    BY DEF IInv, RemovedForAReason
  <1> QED
    BY <1>1, <1>2

\* What a step keeps when it leaves the pool and the batches alone.
LEMMA PoolUnchanged ==
    ASSUME IInv, pool' = pool, batches' = batches, checkpoints' = checkpoints,
           refunded' = refunded, nextTXID' = nextTXID,
           nextBatchID' = nextBatchID
    PROVE  IdsAreUsedOnce' /\ InOnePlace'
  <1>1. IdsAreUsedOnce'
    BY DEF IInv, IdsAreUsedOnce
  <1>2. InOnePlace'
    BY DEF IInv, InOnePlace
  <1> QED
    BY <1>1, <1>2

\* SendToEth adds a transfer with an id that was not used before.
LEMMA SendToEthIInv ==
    ASSUME IInv, NEW a \in Accounts, NEW d \in Denoms, NEW amount \in Amounts,
           NEW fee \in Fees, SendToEth(a, d, amount, fee),
           UNCHANGED contractVars
    PROVE  IInv'
  <1> DEFINE tx == [id |-> nextTXID, sender |-> a, token |-> d[2],
                    amount |-> amount, fee |-> fee]
  <1>1. /\ events' = events /\ ethHeight' = ethHeight
        /\ lastBatchNonces' = lastBatchNonces
        /\ batches' = batches /\ checkpoints' = checkpoints
        /\ nextBatchID' = nextBatchID /\ refunded' = refunded
        /\ cosmosOriginated' = cosmosOriginated /\ failed' = failed
        /\ lastObservedEventNonce' = lastObservedEventNonce
        /\ observedHeights' = observedHeights /\ blockHeight' = blockHeight
        /\ phase' = phase /\ nextTXID' = nextTXID + 1
    BY DEF SendToEth, AddToOutgoingPool, chainVars, contractVars
  <1>2. pool' \subseteq pool \cup {tx}
    BY DEF SendToEth, AddToOutgoingPool, AddUnbatchedTX
  <1>3. KeeperTypeOK /\ ContractTypeOK
    BY DEF IInv, TypeOK
  <1>4. nextTXID \in Nat \ {0}
    BY <1>3 DEF KeeperTypeOK
  <1>5. tx \in OutgoingTransferTx
    <2>1. d[2] \in Tokens
      BY DEF Denoms, Voucher, Native
    <2> QED
      BY <1>4, <2>1, BridgeAssumption DEF OutgoingTransferTx
  <1>6. TypeOK'
    <2>1. KeeperTypeOK'
      BY <1>1, <1>2, <1>3, <1>5 DEF KeeperTypeOK
    <2>2. ContractTypeOK'
      BY <1>1, <1>3 DEF ContractTypeOK
    <2> QED
      BY <2>1, <2>2 DEF TypeOK
  <1>7. \A x \in pool : x.id \in Nat
    BY <1>3 DEF KeeperTypeOK, OutgoingTransferTx
  <1>8. \A b \in checkpoints : \A x \in b.txs : x.id \in Nat
    BY <1>3 DEF KeeperTypeOK, OutgoingTxBatch, OutgoingTransferTx
  <1>9. refunded \subseteq Nat
    BY <1>3 DEF KeeperTypeOK
  <1>10. tx.id = nextTXID
    OBVIOUS
  <1> HIDE DEF tx
  <1>11. IdsAreUsedOnce'
    BY <1>1, <1>2, <1>4, <1>7, <1>8, <1>9, <1>10 DEF IInv, IdsAreUsedOnce
  <1>12. /\ \A x \in pool : x.id # tx.id
         /\ \A b \in checkpoints : \A x \in b.txs : x.id # tx.id
         /\ tx.id \notin refunded
         /\ batches \subseteq checkpoints
    BY <1>4, <1>7, <1>8, <1>9, <1>10 DEF IInv, IdsAreUsedOnce
  <1>13. InOnePlace'
    BY <1>1, <1>2, <1>12 DEF IInv, InOnePlace
  <1>14. SettledIsSettled'
    BY <1>1, <1>2, <1>12 DEF IInv, SettledIsSettled, Executes
  <1>15. RewardsAreKnown' /\ NeverHalts'
    BY <1>1 DEF IInv, RewardsAreKnown, NeverHalts
  <1> QED
    BY <1>1, <1>6, <1>11, <1>13, <1>14, <1>15, LogUnchanged, BatchesUnchanged
        DEF IInv

\* CancelSendToEth moves a transfer from the pool to the refunded ones.
LEMMA CancelSendToEthIInv ==
    ASSUME IInv, NEW a \in Accounts, NEW tx \in pool, CancelSendToEth(a, tx),
           UNCHANGED contractVars
    PROVE  IInv'
  <1>1. /\ events' = events /\ ethHeight' = ethHeight
        /\ lastBatchNonces' = lastBatchNonces
        /\ batches' = batches /\ checkpoints' = checkpoints
        /\ nextBatchID' = nextBatchID /\ nextTXID' = nextTXID
        /\ cosmosOriginated' = cosmosOriginated /\ failed' = failed
        /\ lastObservedEventNonce' = lastObservedEventNonce
        /\ observedHeights' = observedHeights /\ blockHeight' = blockHeight
        /\ phase' = phase
    BY DEF CancelSendToEth, chainVars, contractVars
  <1>2. pool' = pool \ {tx} /\ refunded' = refunded \cup {tx.id}
    BY DEF CancelSendToEth, RemoveFromOutgoingPoolAndRefund
  <1>3. KeeperTypeOK /\ ContractTypeOK
    BY DEF IInv, TypeOK
  <1>4. tx.id \in Nat
    BY <1>3 DEF KeeperTypeOK, OutgoingTransferTx
  <1>5. TypeOK'
    <2>1. KeeperTypeOK'
      BY <1>1, <1>2, <1>3, <1>4 DEF KeeperTypeOK
    <2>2. ContractTypeOK'
      BY <1>1, <1>3 DEF ContractTypeOK
    <2> QED
      BY <2>1, <2>2 DEF TypeOK
  <1>6. IdsAreUsedOnce'
    BY <1>1, <1>2 DEF IInv, IdsAreUsedOnce
  <1>7. InOnePlace'
    BY <1>1, <1>2 DEF IInv, InOnePlace
  <1>8. SettledIsSettled'
    BY <1>1, <1>2 DEF IInv, SettledIsSettled, Executes
  <1>9. RewardsAreKnown' /\ NeverHalts'
    BY <1>1 DEF IInv, RewardsAreKnown, NeverHalts
  <1> QED
    BY <1>1, <1>5, <1>6, <1>7, <1>8, <1>9, LogUnchanged, BatchesUnchanged
        DEF IInv

\* The timeout of a batch is a height: the subtraction in it cannot underflow.
LEMMA TimeoutIsHeight ==
    ASSUME IInv
    PROVE  getBatchTimeoutHeight \in Nat
  <1>1. /\ blockHeight \in Nat /\ observedHeights.cosmos \in Nat
        /\ observedHeights.ethereum \in Nat
        /\ observedHeights.cosmos <= blockHeight
    BY KeeperAssumption DEF IInv, TypeOK, KeeperTypeOK, ObservedPrefix
  <1>2. \A m \in Nat : m \div AverageEthereumBlockTime \in Nat
    BY KeeperAssumption
  <1>3. \A m, n \in Nat : m * n \in Nat
    OBVIOUS
  <1>4. blockHeight - observedHeights.cosmos \in Nat
    BY <1>1
  <1>5. ProjectedMillis \in Nat
    BY <1>3, <1>4, KeeperAssumption DEF ProjectedMillis
  <1> QED
    BY <1>1, <1>2, <1>5, KeeperAssumption DEF getBatchTimeoutHeight

\* RequestBatch moves transfers from the pool to a batch with a new nonce.
LEMMA RequestBatchIInv ==
    ASSUME IInv, NEW t \in Tokens, NEW txs \in SUBSET pool,
           RequestBatch(t, txs), UNCHANGED contractVars
    PROVE  IInv'
  <1> DEFINE b == [nonce |-> nextBatchID, token |-> t, txs |-> txs,
                   timeout |-> getBatchTimeoutHeight]
  <1>1. /\ events' = events /\ ethHeight' = ethHeight
        /\ lastBatchNonces' = lastBatchNonces
        /\ refunded' = refunded /\ nextTXID' = nextTXID
        /\ cosmosOriginated' = cosmosOriginated /\ failed' = failed
        /\ lastObservedEventNonce' = lastObservedEventNonce
        /\ observedHeights' = observedHeights /\ blockHeight' = blockHeight
        /\ phase' = phase
    BY DEF RequestBatch, chainVars, contractVars
  <1>2. /\ pool' = pool \ txs
        /\ nextBatchID' = nextBatchID + 1
        /\ checkpoints' = checkpoints \cup {b}
        /\ batches' =
               {c \in batches : ~(c.token = b.token /\ c.nonce = b.nonce)}
                   \cup {b}
    BY DEF RequestBatch, BuildOutgoingTXBatch, StoreBatch
  <1>3. KeeperTypeOK /\ ContractTypeOK
    BY DEF IInv, TypeOK
  <1>4. nextBatchID \in Nat \ {0}
    BY <1>3 DEF KeeperTypeOK
  <1>5. b \in OutgoingTxBatch
    <2>1. txs \in SUBSET OutgoingTransferTx
      BY <1>3 DEF KeeperTypeOK
    <2> QED
      BY <1>4, <2>1, TimeoutIsHeight DEF OutgoingTxBatch
  <1>6. b.nonce = nextBatchID /\ b.txs = txs /\ b.token = t
    OBVIOUS
  <1> HIDE DEF b
  <1>7. \A c \in checkpoints : c.nonce \in Nat
    BY <1>3 DEF KeeperTypeOK, OutgoingTxBatch
  <1>8. \A c \in checkpoints : c.nonce < b.nonce
    BY <1>6 DEF IInv, IdsAreUsedOnce
  <1>9. batches' = batches \cup {b}
    BY <1>2, <1>4, <1>6, <1>7, <1>8 DEF IInv, IdsAreUsedOnce
  <1>10. TypeOK'
    <2>1. KeeperTypeOK'
      BY <1>1, <1>2, <1>3, <1>5, <1>9 DEF KeeperTypeOK
    <2>2. ContractTypeOK'
      BY <1>1, <1>3 DEF ContractTypeOK
    <2> QED
      BY <2>1, <2>2 DEF TypeOK
  <1>11. IdsAreUsedOnce'
    BY <1>1, <1>2, <1>4, <1>6, <1>7, <1>8, <1>9 DEF IInv, IdsAreUsedOnce
  <1>12. \A i \in DOMAIN events : ~Executes(i, b)
    <2> SUFFICES ASSUME NEW i \in DOMAIN events, Executes(i, b) PROVE FALSE
      OBVIOUS
    <2>1. PICK c \in checkpoints : Executes(i, c)
      BY DEF IInv, ExecutedInOrder, Executes
    <2> QED
      BY <1>4, <1>6, <1>7, <1>8, <2>1 DEF Executes
  <1>13. ExecutedInOrder'
    <2>1. \A i \in DOMAIN events : \A c \in checkpoints' :
              Executes(i, c) => c \in checkpoints
      BY <1>2, <1>12
    <2>2. checkpoints \subseteq checkpoints'
      BY <1>2
    <2> QED
      BY <1>1, <2>1, <2>2 DEF IInv, ExecutedInOrder, Executes
  <1>14. RemovedForAReason'
    BY <1>1, <1>2, <1>9 DEF IInv, RemovedForAReason
  <1>15. InOnePlace'
    BY <1>1, <1>2, <1>6, <1>9 DEF IInv, InOnePlace
  <1>16. SettledIsSettled'
    <2>1. 1..lastObservedEventNonce \subseteq DOMAIN events
      BY <1>3, LogFacts DEF IInv, ObservedPrefix
    <2>2. \A i \in 1..lastObservedEventNonce : \A c \in checkpoints' :
              Executes(i, c) => c \in checkpoints
      BY <1>2, <1>12, <2>1
    <2> QED
      BY <1>1, <1>2, <1>6, <1>9, <2>2 DEF IInv, SettledIsSettled, Executes
  <1>17. RewardsAreKnown' /\ NeverHalts'
    BY <1>1 DEF IInv, RewardsAreKnown, NeverHalts
  <1> QED
    BY <1>1, <1>10, <1>11, <1>13, <1>14, <1>15, <1>16, <1>17, LogUnchanged
        DEF IInv

\* BeginEndBlock only changes the phase.
LEMMA BeginEndBlockIInv ==
    ASSUME IInv, BeginEndBlock, UNCHANGED contractVars
    PROVE  IInv'
  <1>1. /\ events' = events /\ ethHeight' = ethHeight
        /\ lastBatchNonces' = lastBatchNonces
        /\ pool' = pool /\ batches' = batches /\ checkpoints' = checkpoints
        /\ nextBatchID' = nextBatchID /\ nextTXID' = nextTXID
        /\ refunded' = refunded
        /\ cosmosOriginated' = cosmosOriginated /\ failed' = failed
        /\ lastObservedEventNonce' = lastObservedEventNonce
        /\ observedHeights' = observedHeights /\ blockHeight' = blockHeight
        /\ phase' = "tally"
    BY DEF BeginEndBlock, poolVars, contractVars
  <1>2. TypeOK'
    BY <1>1 DEF IInv, TypeOK, KeeperTypeOK, ContractTypeOK
  <1>3. SettledIsSettled'
    BY <1>1 DEF IInv, SettledIsSettled, Executes
  <1>4. RewardsAreKnown' /\ NeverHalts'
    BY <1>1 DEF IInv, RewardsAreKnown, NeverHalts
  <1> QED
    BY <1>1, <1>2, <1>3, <1>4, LogUnchanged, BatchesUnchanged, PoolUnchanged
        DEF IInv

\* The transfers of batches that are removed from the store can return to the
\* pool, which does not hold them: CancelOutgoingTXBatch does not panic.
LEMMA TransfersCanReturn ==
    ASSUME IInv, NEW cancelled \in SUBSET batches
    PROVE  CanReturnToPool(cancelled)
  <1>1. \A b \in cancelled, u \in pool : \A x \in b.txs :
            PoolKey(x) # PoolKey(u)
    BY DEF IInv, InOnePlace, PoolKey
  <1>2. \A b, c \in cancelled : b # c =>
            \A x \in b.txs, y \in c.txs : PoolKey(x) # PoolKey(y)
    BY DEF IInv, InOnePlace, PoolKey
  <1> QED
    BY <1>1, <1>2 DEF CanReturnToPool

\* They are then in the pool and in no batch, so still in one place.
LEMMA RemoveBatchesInOnePlace ==
    ASSUME IInv, NEW cancelled \in SUBSET batches, NEW done \in SUBSET batches,
           pool' = pool \cup UNION {b.txs : b \in cancelled},
           batches' = batches \ (cancelled \cup done),
           checkpoints' = checkpoints, refunded' = refunded,
           nextTXID' = nextTXID, nextBatchID' = nextBatchID
    PROVE  /\ IdsAreUsedOnce' /\ InOnePlace'
           /\ pool' \subseteq OutgoingTransferTx
           /\ batches' \subseteq OutgoingTxBatch
  <1>1. \A x \in pool' : x \in pool \/ \E b \in cancelled : x \in b.txs
    OBVIOUS
  <1>2. batches' \subseteq batches
    OBVIOUS
  <1>3. IdsAreUsedOnce'
    BY <1>1, <1>2 DEF IInv, IdsAreUsedOnce
  <1>4. InOnePlace'
    <2>1. \A x, y \in pool' : x.id = y.id => x = y
      BY <1>1 DEF IInv, InOnePlace
    <2>2. \A x \in pool' : x.id \notin refunded'
      BY <1>1 DEF IInv, InOnePlace
    <2>3. \A b \in batches' : \A x \in b.txs :
              x.id \notin refunded' /\ \A y \in pool' : x.id # y.id
      BY <1>1 DEF IInv, InOnePlace
    <2>4. \A b, c \in batches' : \A x \in b.txs, y \in c.txs :
              x.id = y.id => b = c /\ x = y
      BY <1>2 DEF IInv, InOnePlace
    <2> QED
      BY <2>1, <2>2, <2>3, <2>4 DEF InOnePlace
  <1>5. pool' \subseteq OutgoingTransferTx /\ batches' \subseteq OutgoingTxBatch
    BY <1>1, <1>2 DEF IInv, TypeOK, KeeperTypeOK, OutgoingTxBatch
  <1> QED
    BY <1>3, <1>4, <1>5

\* FinishEndBlock removes batches that have timed out.
LEMMA FinishEndBlockIInv ==
    ASSUME IInv, FinishEndBlock, UNCHANGED contractVars
    PROVE  IInv'
  <1> DEFINE timedOut == {b \in batches : IsTimedOut(b)}
  <1>1. /\ events' = events /\ ethHeight' = ethHeight
        /\ lastBatchNonces' = lastBatchNonces
        /\ checkpoints' = checkpoints
        /\ nextBatchID' = nextBatchID /\ nextTXID' = nextTXID
        /\ refunded' = refunded
        /\ cosmosOriginated' = cosmosOriginated /\ failed' = failed
        /\ lastObservedEventNonce' = lastObservedEventNonce
        /\ observedHeights' = observedHeights
        /\ blockHeight' = IF blockHeight < MaxBlockHeight THEN blockHeight + 1
                          ELSE blockHeight
    BY DEF FinishEndBlock, contractVars
  <1>2. timedOut \in SUBSET batches
    OBVIOUS
  <1>3. /\ pool' = pool \cup UNION {b.txs : b \in timedOut}
        /\ batches' = batches \ (timedOut \cup {})
        /\ phase' = "deliverTx"
    BY <1>2, TransfersCanReturn DEF FinishEndBlock, RemoveBatches
  <1>4. \A b \in timedOut : b.timeout < observedHeights.ethereum
    BY DEF IsTimedOut
  <1> HIDE DEF timedOut
  <1>5. /\ IdsAreUsedOnce' /\ InOnePlace'
        /\ pool' \subseteq OutgoingTransferTx
        /\ batches' \subseteq OutgoingTxBatch
    BY <1>1, <1>2, <1>3, RemoveBatchesInOnePlace
  <1>6. KeeperTypeOK /\ ContractTypeOK
    BY DEF IInv, TypeOK
  <1>7. blockHeight \in 1..MaxBlockHeight /\ observedHeights.cosmos \in Nat
    BY <1>6 DEF KeeperTypeOK
  <1>8. blockHeight' \in 1..MaxBlockHeight /\ blockHeight <= blockHeight'
    BY <1>1, <1>7, KeeperAssumption
  <1>9. TypeOK'
    <2>1. KeeperTypeOK'
      BY <1>1, <1>3, <1>5, <1>6, <1>8 DEF KeeperTypeOK
    <2>2. ContractTypeOK'
      BY <1>1, <1>6 DEF ContractTypeOK
    <2> QED
      BY <2>1, <2>2 DEF TypeOK
  <1>10. ObservedPrefix'
    <2>1. observedHeights.cosmos <= blockHeight'
      BY <1>7, <1>8, KeeperAssumption DEF IInv, ObservedPrefix
    <2> QED
      BY <1>1, <2>1 DEF IInv, ObservedPrefix
  <1>11. HeightsIncrease' /\ ExecutedInOrder'
    BY <1>1 DEF IInv, HeightsIncrease, ExecutedInOrder, Executes
  <1>12. RemovedForAReason'
    BY <1>1, <1>3, <1>4 DEF IInv, RemovedForAReason
  <1>13. SettledIsSettled'
    <2>1. \A x \in pool' : x \in pool \/ \E b \in batches : x \in b.txs
      BY <1>2, <1>3
    <2>2. batches' \subseteq batches
      BY <1>3
    <2> QED
      BY <1>1, <2>1, <2>2 DEF IInv, SettledIsSettled, Executes
  <1>14. RewardsAreKnown' /\ NeverHalts'
    BY <1>1, <1>3 DEF IInv, RewardsAreKnown, NeverHalts
  <1> QED
    BY <1>5, <1>9, <1>10, <1>11, <1>12, <1>13, <1>14 DEF IInv

-----------------------------------------------------------------------------
\* An event that is not the execution of a batch leaves pool and batches alone.
LEMMA HandleOtherEvent ==
    ASSUME IInv, NEW n \in DOMAIN events, events[n].kind # "batch",
           Handle(n, events[n])
    PROVE  /\ pool' = pool /\ batches' = batches
           /\ cosmosOriginated \subseteq cosmosOriginated'
           /\ cosmosOriginated' \subseteq CosmosTokens
           /\ failed' \subseteq failed \cup {n}
           /\ phase' = phase
  <1>1. cosmosOriginated \subseteq CosmosTokens
    BY DEF IInv, TypeOK, KeeperTypeOK
  <1>2. CASE HandleSendToCosmos(n, events[n])
    BY <1>1, <1>2 DEF HandleSendToCosmos
  <1>3. CASE HandleERC20Deployed(n, events[n])
    BY <1>1, <1>3 DEF HandleERC20Deployed
  <1>4. CASE events[n].kind = "valset" /\ HandleValsetUpdated(n, events[n])
    <2>1. ~(events[n].amount > 0 /\ events[n].token # NoToken
                                 /\ events[n].token \notin cosmosOriginated)
      BY <1>4 DEF IInv, RewardsAreKnown
    <2> QED
      BY <1>1, <1>4, <2>1 DEF HandleValsetUpdated
  <1> QED
    BY <1>2, <1>3, <1>4 DEF Handle

\* The execution of a batch is one of a batch in the store, so that
\* OutgoingTxBatchExecuted does not panic.
LEMMA HandleBatchEvent ==
    ASSUME IInv, NEW n \in DOMAIN events, events[n].kind = "batch",
           n > lastObservedEventNonce, Handle(n, events[n]),
           NEW b \in checkpoints, Executes(n, b)
    PROVE  /\ b \in batches
           /\ pool' = pool \cup UNION {c.txs : c \in EarlierBatches(events[n])}
           /\ batches' = batches \ (EarlierBatches(events[n]) \cup {b})
           /\ cosmosOriginated' = cosmosOriginated /\ failed' = failed
           /\ phase' = phase
  <1> DEFINE executed == {c \in batches : /\ c.token = events[n].token
                                          /\ c.nonce = events[n].nonce}
  <1>1. b \in batches
    BY UnobservedIsStored
  <1>2. executed = {b}
    BY <1>1 DEF IInv, IdsAreUsedOnce, Executes
  <1>3. EarlierBatches(events[n]) \in SUBSET batches
    BY DEF EarlierBatches
  <1>4. HandleBatchSendToEth(n, events[n])
    BY DEF Handle
  <1>5. CanReturnToPool(EarlierBatches(events[n]))
    BY <1>3, TransfersCanReturn
  <1>6. /\ RemoveBatches(EarlierBatches(events[n]), executed, phase)
        /\ cosmosOriginated' = cosmosOriginated /\ failed' = failed
    BY <1>2, <1>4 DEF HandleBatchSendToEth
  <1> QED
    BY <1>1, <1>2, <1>5, <1>6 DEF RemoveBatches

\* What is the same for all events: Cosmos gets to know one more of the log.
LEMMA ObserveAdvances ==
    ASSUME IInv, NEW n \in DOMAIN events, ObserveEvent(n, events[n]),
           UNCHANGED contractVars
    PROVE  /\ n = lastObservedEventNonce + 1 /\ n > lastObservedEventNonce
           /\ lastObservedEventNonce' = n
           /\ 1..n = 1..lastObservedEventNonce \cup {n}
           /\ 1..n \subseteq DOMAIN events
           /\ events' = events /\ ethHeight' = ethHeight
           /\ lastBatchNonces' = lastBatchNonces
           /\ checkpoints' = checkpoints
           /\ nextBatchID' = nextBatchID /\ nextTXID' = nextTXID
           /\ refunded' = refunded /\ blockHeight' = blockHeight
           /\ observedHeights' = [cosmos |-> blockHeight,
                                  ethereum |-> events[n].height]
           /\ observedHeights.ethereum <= observedHeights'.ethereum
           /\ Handle(n, events[n])
           /\ ObservedPrefix' /\ HeightsIncrease' /\ ExecutedInOrder'
  <1>1. /\ n = lastObservedEventNonce + 1
        /\ lastObservedEventNonce' = n
        /\ checkpoints' = checkpoints
        /\ nextBatchID' = nextBatchID /\ nextTXID' = nextTXID
        /\ refunded' = refunded /\ blockHeight' = blockHeight
        /\ observedHeights' = [cosmos |-> blockHeight,
                               ethereum |-> events[n].height]
        /\ Handle(n, events[n])
    BY DEF ObserveEvent
  <1>2. /\ events' = events /\ ethHeight' = ethHeight
        /\ lastBatchNonces' = lastBatchNonces
    BY DEF contractVars
  <1>3. /\ DOMAIN events = 1..Len(events) /\ Len(events) \in Nat
        /\ \A j \in DOMAIN events : events[j].height \in Nat
        /\ lastObservedEventNonce \in 0..Len(events)
    BY LogFacts DEF IInv, ObservedPrefix
  <1>4. /\ n > lastObservedEventNonce
        /\ 1..n = 1..lastObservedEventNonce \cup {n}
        /\ 1..n \subseteq DOMAIN events
    BY <1>1, <1>3
  <1>5. observedHeights'.ethereum = events[n].height
    BY <1>1
  <1>6. observedHeights.ethereum <= events[n].height
    <2>1. CASE lastObservedEventNonce = 0
      BY <1>3, <2>1 DEF IInv, ObservedPrefix
    <2>2. CASE lastObservedEventNonce # 0
      <3>1. lastObservedEventNonce \in DOMAIN events
        BY <1>3, <2>2
      <3> QED
        BY <1>1, <1>3, <2>2, <3>1 DEF IInv, ObservedPrefix, HeightsIncrease
    <2> QED
      BY <2>1, <2>2
  <1>7. ObservedPrefix'
    <2>1. blockHeight \in Nat
      BY KeeperAssumption DEF IInv, TypeOK, KeeperTypeOK
    <2>2. observedHeights'.cosmos = blockHeight
      BY <1>1
    <2>3. lastObservedEventNonce' # 0 /\ lastObservedEventNonce' \in 0..Len(events)
      BY <1>1, <1>3
    <2> QED
      BY <1>1, <1>2, <1>5, <2>1, <2>2, <2>3 DEF ObservedPrefix
  <1>8. HeightsIncrease'
    BY <1>2 DEF IInv, HeightsIncrease
  <1>9. ExecutedInOrder'
    BY <1>1, <1>2 DEF IInv, ExecutedInOrder, Executes
  <1> QED
    BY <1>1, <1>2, <1>4, <1>5, <1>6, <1>7, <1>8, <1>9

\* The types after an event was observed.
LEMMA ObserveTypeOK ==
    ASSUME IInv, NEW n \in DOMAIN events, ObserveEvent(n, events[n]),
           UNCHANGED contractVars,
           pool' \subseteq OutgoingTransferTx, batches' \subseteq OutgoingTxBatch,
           cosmosOriginated' \subseteq CosmosTokens,
           failed' \subseteq failed \cup {n}, phase' = phase
    PROVE  TypeOK'
  <1>1. KeeperTypeOK /\ ContractTypeOK
    BY DEF IInv, TypeOK
  <1>2. n \in Nat /\ events[n].height \in Nat
    BY LogFacts DEF IInv
  <1>3. observedHeights' \in [cosmos : Nat, ethereum : Nat]
    <2>1. blockHeight \in Nat
      BY <1>1, KeeperAssumption DEF KeeperTypeOK
    <2> QED
      BY <1>2, <2>1, ObserveAdvances
  <1>4. KeeperTypeOK'
    BY <1>1, <1>2, <1>3, ObserveAdvances DEF KeeperTypeOK
  <1>5. ContractTypeOK'
    BY <1>1, ObserveAdvances DEF ContractTypeOK
  <1> QED
    BY <1>4, <1>5 DEF TypeOK

\* A deposit, a deployment or a validator set is observed.
LEMMA ObserveOtherIInv ==
    ASSUME IInv, NEW n \in DOMAIN events, ObserveEvent(n, events[n]),
           UNCHANGED contractVars, events[n].kind # "batch"
    PROVE  IInv'
  <1>1. /\ n = lastObservedEventNonce + 1
        /\ lastObservedEventNonce' = n
        /\ 1..n = 1..lastObservedEventNonce \cup {n}
        /\ events' = events /\ checkpoints' = checkpoints
        /\ nextBatchID' = nextBatchID /\ nextTXID' = nextTXID
        /\ refunded' = refunded
        /\ observedHeights.ethereum <= observedHeights'.ethereum
        /\ ObservedPrefix' /\ HeightsIncrease' /\ ExecutedInOrder'
    BY ObserveAdvances
  <1>2. /\ pool' = pool /\ batches' = batches
        /\ cosmosOriginated \subseteq cosmosOriginated'
        /\ cosmosOriginated' \subseteq CosmosTokens
        /\ failed' \subseteq failed \cup {n}
        /\ phase' = phase
    BY ObserveAdvances, HandleOtherEvent
  <1>3. TypeOK'
    <2>1. pool' \subseteq OutgoingTransferTx /\ batches' \subseteq OutgoingTxBatch
      BY <1>2 DEF IInv, TypeOK, KeeperTypeOK
    <2> QED
      BY <1>2, <2>1, ObserveTypeOK
  <1>4. RemovedForAReason'
    <2>1. /\ \A b \in checkpoints : b.timeout \in Nat
          /\ observedHeights.ethereum \in Nat
          /\ observedHeights'.ethereum \in Nat
      BY <1>3 DEF IInv, TypeOK, KeeperTypeOK, OutgoingTxBatch
    <2>2. \A b \in checkpoints : b.timeout < observedHeights.ethereum
                                    => b.timeout < observedHeights'.ethereum
      BY <1>1, <2>1
    <2> QED
      BY <1>1, <1>2, <2>2 DEF IInv, RemovedForAReason
  <1>5. SettledIsSettled'
    <2>1. \A b : ~Executes(n, b)
      BY DEF Executes
    <2> QED
      BY <1>1, <1>2, <2>1 DEF IInv, SettledIsSettled, Executes
  <1>6. RewardsAreKnown' /\ NeverHalts'
    BY <1>1, <1>2 DEF IInv, RewardsAreKnown, NeverHalts
  <1> QED
    BY <1>1, <1>2, <1>3, <1>4, <1>5, <1>6, PoolUnchanged DEF IInv

\* The execution of a batch is observed: it leaves the store, and the earlier
\* batches of its token with it.
LEMMA ObserveBatchIInv ==
    ASSUME IInv, NEW n \in DOMAIN events, ObserveEvent(n, events[n]),
           UNCHANGED contractVars, events[n].kind = "batch"
    PROVE  IInv'
  <1> DEFINE earlier == EarlierBatches(events[n])
  <1>1. /\ n = lastObservedEventNonce + 1 /\ n > lastObservedEventNonce
        /\ lastObservedEventNonce' = n
        /\ 1..n = 1..lastObservedEventNonce \cup {n}
        /\ events' = events /\ checkpoints' = checkpoints
        /\ nextBatchID' = nextBatchID /\ nextTXID' = nextTXID
        /\ refunded' = refunded
        /\ observedHeights.ethereum <= observedHeights'.ethereum
        /\ Handle(n, events[n])
        /\ ObservedPrefix' /\ HeightsIncrease' /\ ExecutedInOrder'
    BY ObserveAdvances
  <1>2. PICK b \in checkpoints : Executes(n, b)
    BY DEF IInv, ExecutedInOrder
  <1>3. /\ b \in batches
        /\ pool' = pool \cup UNION {c.txs : c \in earlier}
        /\ batches' = batches \ (earlier \cup {b})
        /\ cosmosOriginated' = cosmosOriginated /\ failed' = failed
        /\ phase' = phase
    BY <1>1, <1>2, HandleBatchEvent
  <1>4. /\ earlier \in SUBSET batches
        /\ \A c \in earlier : c.token = b.token /\ c.nonce < b.nonce
    BY <1>2 DEF EarlierBatches, Executes
  <1>5. b.nonce \in Nat
    BY DEF IInv, TypeOK, KeeperTypeOK, OutgoingTxBatch
  <1>6. b \notin earlier
    BY <1>4, <1>5
  <1> HIDE DEF earlier
  <1>7. /\ IdsAreUsedOnce' /\ InOnePlace'
        /\ pool' \subseteq OutgoingTransferTx
        /\ batches' \subseteq OutgoingTxBatch
    <2>1. {b} \in SUBSET batches
      BY <1>3
    <2> QED
      BY <1>1, <1>3, <1>4, <2>1, RemoveBatchesInOnePlace
  <1>8. TypeOK'
    <2>1. cosmosOriginated' \subseteq CosmosTokens
      BY <1>3 DEF IInv, TypeOK, KeeperTypeOK
    <2> QED
      BY <1>3, <1>7, <2>1, ObserveTypeOK
  <1>9. RemovedForAReason'
    <2> SUFFICES ASSUME NEW c \in checkpoints, c \notin batches'
                 PROVE  \/ c.timeout < observedHeights'.ethereum
                        \/ \E i \in 1..n : /\ events[i].kind = "batch"
                                            /\ events[i].token = c.token
                                            /\ c.nonce <= events[i].nonce
      BY <1>1 DEF RemovedForAReason
    <2>1. CASE c = b \/ c \in earlier
      <3>1. c.token = b.token /\ c.nonce <= b.nonce
        BY <1>4, <1>5, <2>1 DEF IInv, TypeOK, KeeperTypeOK, OutgoingTxBatch
      <3> QED
        BY <1>1, <1>2, <3>1 DEF Executes
    <2>2. CASE c \notin batches
      <3>1. /\ c.timeout \in Nat /\ observedHeights.ethereum \in Nat
            /\ observedHeights'.ethereum \in Nat
        BY <1>8 DEF IInv, TypeOK, KeeperTypeOK, OutgoingTxBatch
      <3>2. \/ c.timeout < observedHeights.ethereum
            \/ \E i \in 1..lastObservedEventNonce :
                   /\ events[i].kind = "batch"
                   /\ events[i].token = c.token
                   /\ c.nonce <= events[i].nonce
        BY <2>2 DEF IInv, RemovedForAReason
      <3> QED
        BY <1>1, <3>1, <3>2
    <2> QED
      BY <1>3, <2>1, <2>2
  <1>10. SettledIsSettled'
    <2>1. \A c \in checkpoints : Executes(n, c) => c = b
      BY <1>2 DEF IInv, IdsAreUsedOnce, Executes
    <2>2. \A x \in pool' : x \in pool \/ \E c \in earlier : x \in c.txs
      BY <1>3
    \* the payments that were observed before
    <2>3. ASSUME NEW i \in 1..lastObservedEventNonce, NEW c \in checkpoints,
                 Executes(i, c), NEW x \in c.txs
          PROVE  /\ x.id \notin refunded
                 /\ \A y \in pool' : x.id # y.id
                 /\ \A d \in batches : \A y \in d.txs : x.id # y.id
                 /\ \A j \in 1..lastObservedEventNonce : \A d \in checkpoints :
                        Executes(j, d) => \A y \in d.txs : x.id = y.id => i = j
      <3>1. /\ x.id \notin refunded
            /\ \A y \in pool : x.id # y.id
            /\ \A d \in batches : \A y \in d.txs : x.id # y.id
            /\ \A j \in 1..lastObservedEventNonce : \A d \in checkpoints :
                   Executes(j, d) => \A y \in d.txs : x.id = y.id => i = j
        BY <2>3 DEF IInv, SettledIsSettled
      <3> QED
        BY <1>4, <2>2, <3>1
    \* the payments that this event tells of
    <2>4. ASSUME NEW x \in b.txs
          PROVE  /\ x.id \notin refunded
                 /\ \A y \in pool' : x.id # y.id
                 /\ \A d \in batches' : \A y \in d.txs : x.id # y.id
      <3>1. x.id \notin refunded /\ \A y \in pool : x.id # y.id
        BY <1>3 DEF IInv, InOnePlace
      <3>2. \A d \in batches : d # b => \A y \in d.txs : x.id # y.id
        BY <1>3 DEF IInv, InOnePlace
      <3> QED
        BY <1>3, <1>4, <1>6, <2>2, <3>1, <3>2
    <2> SUFFICES ASSUME NEW i \in 1..n, NEW c \in checkpoints,
                        Executes(i, c), NEW x \in c.txs
                 PROVE  /\ x.id \notin refunded
                        /\ \A y \in pool' : x.id # y.id
                        /\ \A d \in batches' : \A y \in d.txs : x.id # y.id
                        /\ \A j \in 1..n : \A d \in checkpoints :
                               Executes(j, d) =>
                                   \A y \in d.txs : x.id = y.id => i = j
      BY <1>1 DEF SettledIsSettled, Executes
    <2>5. CASE i \in 1..lastObservedEventNonce
      BY <1>1, <1>3, <2>1, <2>3, <2>5
    <2>6. CASE i = n
      BY <1>1, <1>3, <2>1, <2>3, <2>4, <2>6
    <2> QED
      BY <1>1, <2>5, <2>6
  <1>11. RewardsAreKnown' /\ NeverHalts'
    BY <1>1, <1>3 DEF IInv, RewardsAreKnown, NeverHalts
  <1> QED
    BY <1>1, <1>7, <1>8, <1>9, <1>10, <1>11 DEF IInv

-----------------------------------------------------------------------------
\* The contract emits an event, at the present height.  Only the execution of
\* a batch says something that the invariant has to be checked for.
LEMMA EmitIInv ==
    ASSUME IInv, NEW e \in Events, e.height = ethHeight,
           events' = Append(events, e), ethHeight' = ethHeight,
           UNCHANGED keeperVars,
           lastBatchNonces' \in [Tokens -> Nat],
           \A t \in Tokens : lastBatchNonces[t] <= lastBatchNonces'[t],
           e.kind = "batch" =>
               /\ e.token \in Tokens
               /\ lastBatchNonces[e.token] < e.nonce
               /\ lastBatchNonces'[e.token] = e.nonce
               /\ \E b \in checkpoints : /\ b.token = e.token
                                         /\ b.nonce = e.nonce
                                         /\ ethHeight < b.timeout,
           e.kind = "valset" => e.amount = 0 \/ e.token \in cosmosOriginated
    PROVE  IInv'
  <1> DEFINE new == Len(events) + 1
  <1>1. /\ pool' = pool /\ batches' = batches /\ checkpoints' = checkpoints
        /\ nextBatchID' = nextBatchID /\ nextTXID' = nextTXID
        /\ refunded' = refunded
        /\ cosmosOriginated' = cosmosOriginated /\ failed' = failed
        /\ lastObservedEventNonce' = lastObservedEventNonce
        /\ observedHeights' = observedHeights /\ blockHeight' = blockHeight
        /\ phase' = phase
    BY DEF keeperVars, poolVars, chainVars
  <1>2. TypeOK
    BY DEF IInv
  <1>3. events \in Seq(Events)
    BY <1>2 DEF TypeOK, ContractTypeOK
  <1>4. /\ events' \in Seq(Events)
        /\ Len(events) \in Nat /\ DOMAIN events = 1..Len(events)
        /\ Len(events') = new
        /\ DOMAIN events' = 1..new
        /\ \A i \in 1..Len(events) : events'[i] = events[i]
        /\ events'[new] = e
    BY <1>3, AppendFacts
  <1>5. DOMAIN events' = DOMAIN events \cup {new} /\ new \notin DOMAIN events
    BY <1>4
  <1>6. \A i \in DOMAIN events : i < new /\ ~(new < i) /\ ~(new <= i)
    BY <1>4
  <1>7. \A i \in DOMAIN events : /\ events'[i] = events[i]
                                 /\ events[i].height \in Nat
                                 /\ events[i].nonce \in Nat
    BY <1>2, <1>4, LogFacts
  <1>8. e.height \in Nat /\ e.nonce \in Nat /\ ethHeight \in Nat
    BY EventFields
  <1>9. /\ 1..lastObservedEventNonce \subseteq DOMAIN events
        /\ lastObservedEventNonce \in 0..Len(events)
    BY <1>4 DEF IInv, ObservedPrefix
  <1>10. TypeOK'
    <2>1. KeeperTypeOK'
      BY <1>1, <1>2 DEF TypeOK, KeeperTypeOK
    <2>2. ContractTypeOK'
      BY <1>2, <1>4 DEF TypeOK, ContractTypeOK
    <2> QED
      BY <2>1, <2>2 DEF TypeOK
  <1>11. ObservedPrefix'
    <2>1. lastObservedEventNonce \in 0..Len(events')
      BY <1>4, <1>9
    <2>2. lastObservedEventNonce # 0 =>
              events'[lastObservedEventNonce] = events[lastObservedEventNonce]
      BY <1>4, <1>9
    <2> QED
      BY <1>1, <2>1, <2>2 DEF IInv, ObservedPrefix
  <1>12. HeightsIncrease'
    <2> SUFFICES ASSUME NEW i \in DOMAIN events'
                 PROVE  /\ events'[i].height <= ethHeight
                        /\ \A j \in DOMAIN events' :
                               j <= i => events'[j].height <= events'[i].height
      BY DEF HeightsIncrease
    <2>1. \A j \in DOMAIN events : events[j].height <= ethHeight
      BY DEF IInv, HeightsIncrease
    <2>2. CASE i = new
      BY <1>4, <1>5, <1>7, <1>8, <2>1, <2>2
    <2>3. CASE i \in DOMAIN events
      BY <1>5, <1>6, <1>7, <2>3 DEF IInv, HeightsIncrease
    <2> QED
      BY <1>5, <2>2, <2>3
  <1>13. ExecutedInOrder'
    <2> SUFFICES ASSUME NEW i \in DOMAIN events', events'[i].kind = "batch"
                 PROVE  /\ events'[i].token \in Tokens
                        /\ events'[i].nonce <= lastBatchNonces'[events'[i].token]
                        /\ \A j \in DOMAIN events' :
                               /\ events'[j].kind = "batch"
                               /\ events'[j].token = events'[i].token
                               /\ j < i
                               => events'[j].nonce < events'[i].nonce
                        /\ \E b \in checkpoints : Executes(i, b)'
                        /\ \A b \in checkpoints :
                               Executes(i, b)' => events'[i].height < b.timeout
      BY <1>1 DEF ExecutedInOrder
    <2>1. lastBatchNonces \in [Tokens -> Nat]
      BY <1>2 DEF TypeOK, ContractTypeOK
    <2>2. CASE i \in DOMAIN events
      <3>1. /\ events[i].token \in Tokens
            /\ events[i].nonce <= lastBatchNonces[events[i].token]
            /\ \A j \in DOMAIN events :
                   /\ events[j].kind = "batch"
                   /\ events[j].token = events[i].token
                   /\ j < i
                   => events[j].nonce < events[i].nonce
            /\ \E b \in checkpoints : Executes(i, b)
            /\ \A b \in checkpoints : Executes(i, b) => events[i].height < b.timeout
        BY <1>7, <2>2 DEF IInv, ExecutedInOrder
      <3>2. \A b : Executes(i, b)' <=> Executes(i, b)
        BY <1>7, <2>2 DEF Executes
      <3>3. events'[i].nonce <= lastBatchNonces'[events'[i].token]
        BY <1>7, <2>1, <2>2, <3>1
      <3>4. \A j \in DOMAIN events' : j < i => j \in DOMAIN events
        BY <1>5, <1>6, <2>2
      <3> QED
        BY <1>7, <2>2, <3>1, <3>2, <3>3, <3>4
    <2>3. CASE i = new
      <3>1. e.kind = "batch"
        BY <1>4, <2>3
      <3>2. \A j \in DOMAIN events :
                events[j].kind = "batch" /\ events[j].token = e.token
                => events[j].nonce < e.nonce
        BY <1>7, <1>8, <2>1, <3>1 DEF IInv, ExecutedInOrder
      <3>3. PICK b \in checkpoints : /\ b.token = e.token
                                     /\ b.nonce = e.nonce
                                     /\ ethHeight < b.timeout
        BY <3>1
      <3>4. \A c \in checkpoints : Executes(i, c)' <=> c = b
        BY <1>4, <2>3, <3>1, <3>3 DEF Executes, IInv, IdsAreUsedOnce
      <3>5. \A j \in DOMAIN events' : j < i => j \in DOMAIN events
        BY <1>4, <1>5, <2>3
      <3> QED
        BY <1>4, <1>7, <1>8, <2>3, <3>1, <3>2, <3>3, <3>4, <3>5
    <2> QED
      BY <1>5, <2>2, <2>3
  <1>14. RemovedForAReason'
    BY <1>1, <1>7, <1>9 DEF IInv, RemovedForAReason
  <1>15. SettledIsSettled'
    <2>1. \A i \in 1..lastObservedEventNonce : \A b :
              Executes(i, b)' <=> Executes(i, b)
      BY <1>7, <1>9 DEF Executes
    <2> SUFFICES ASSUME NEW i \in 1..lastObservedEventNonce, NEW b \in checkpoints,
                        Executes(i, b), NEW x \in b.txs
                 PROVE  /\ x.id \notin refunded
                        /\ \A y \in pool : x.id # y.id
                        /\ \A c \in batches : \A y \in c.txs : x.id # y.id
                        /\ \A j \in 1..lastObservedEventNonce :
                               \A c \in checkpoints : Executes(j, c) =>
                                   \A y \in c.txs : x.id = y.id => i = j
      BY <1>1, <2>1 DEF SettledIsSettled
    <2> QED
      BY DEF IInv, SettledIsSettled
  <1>16. RewardsAreKnown'
    BY <1>1, <1>4, <1>5, <1>7 DEF IInv, RewardsAreKnown
  <1>17. NeverHalts'
    BY <1>1 DEF IInv, NeverHalts
  <1> QED
    BY <1>1, <1>10, <1>11, <1>12, <1>13, <1>14, <1>15, <1>16, <1>17,
       PoolUnchanged DEF IInv

\* A block of Ethereum only makes the height grow.
LEMMA NewEthereumBlockIInv ==
    ASSUME IInv, NewEthereumBlock, UNCHANGED keeperVars
    PROVE  IInv'
  <1>1. /\ pool' = pool /\ batches' = batches /\ checkpoints' = checkpoints
        /\ nextBatchID' = nextBatchID /\ nextTXID' = nextTXID
        /\ refunded' = refunded
        /\ cosmosOriginated' = cosmosOriginated /\ failed' = failed
        /\ lastObservedEventNonce' = lastObservedEventNonce
        /\ observedHeights' = observedHeights /\ blockHeight' = blockHeight
        /\ phase' = phase
    BY DEF keeperVars, poolVars, chainVars
  <1>2. /\ events' = events /\ lastBatchNonces' = lastBatchNonces
        /\ ethHeight < MaxEthHeight /\ ethHeight' = ethHeight + 1
    BY DEF NewEthereumBlock
  <1>3. ethHeight \in 1..MaxEthHeight /\ MaxEthHeight \in Nat
    BY ContractAssumption DEF IInv, TypeOK, ContractTypeOK
  <1>4. TypeOK'
    <2>1. KeeperTypeOK'
      BY <1>1 DEF IInv, TypeOK, KeeperTypeOK
    <2>2. ethHeight' \in 1..MaxEthHeight
      BY <1>2, <1>3
    <2>3. ContractTypeOK'
      BY <1>2, <2>2 DEF IInv, TypeOK, ContractTypeOK
    <2> QED
      BY <2>1, <2>3 DEF TypeOK
  <1>5. ObservedPrefix'
    BY <1>1, <1>2 DEF IInv, ObservedPrefix
  <1>6. HeightsIncrease'
    <2>1. \A i \in DOMAIN events : events[i].height \in Nat
      BY LogFacts DEF IInv
    <2>2. \A i \in DOMAIN events : events[i].height <= ethHeight'
      BY <1>2, <1>3, <2>1 DEF IInv, HeightsIncrease
    <2> QED
      BY <1>2, <2>2 DEF IInv, HeightsIncrease
  <1>7. SettledIsSettled'
    BY <1>1, <1>2 DEF IInv, SettledIsSettled, Executes
  <1>8. RewardsAreKnown' /\ NeverHalts'
    BY <1>1, <1>2 DEF IInv, RewardsAreKnown, NeverHalts
  <1> QED
    BY <1>1, <1>2, <1>4, <1>5, <1>6, <1>7, <1>8, BatchesUnchanged,
       PoolUnchanged DEF IInv

\* submitBatch executes a batch that was built, before its timeout and with a
\* nonce above those of the batches that were executed before.
LEMMA submitBatchIInv ==
    ASSUME IInv, NEW b \in checkpoints, submitBatch(b), UNCHANGED keeperVars
    PROVE  IInv'
  <1> DEFINE e == Log("batch", b.token, b.nonce, 0, BadAddress)
  <1>1. /\ b.token \in Tokens /\ b.nonce \in Nat
        /\ lastBatchNonces \in [Tokens -> Nat] /\ ethHeight \in Nat
    BY ContractAssumption
        DEF IInv, TypeOK, KeeperTypeOK, ContractTypeOK, OutgoingTxBatch
  <1>2. /\ e \in Events /\ e.height = ethHeight /\ e.kind = "batch"
        /\ e.token = b.token /\ e.nonce = b.nonce
    BY <1>1 DEF Log, Events
  <1>3. /\ lastBatchNonces[b.token] < b.nonce /\ ethHeight < b.timeout
        /\ lastBatchNonces' = [lastBatchNonces EXCEPT ![b.token] = b.nonce]
        /\ events' = Append(events, e) /\ ethHeight' = ethHeight
    BY DEF submitBatch, BatchIsAcceptable
  <1>4. /\ lastBatchNonces' \in [Tokens -> Nat]
        /\ lastBatchNonces'[b.token] = b.nonce
        /\ \A t \in Tokens : lastBatchNonces[t] <= lastBatchNonces'[t]
    BY <1>1, <1>3
  <1> HIDE DEF e
  <1> QED
    BY <1>1, <1>2, <1>3, <1>4, EmitIInv

\* The events that are not the execution of a batch.
LEMMA EmitOtherIInv ==
    ASSUME IInv, UNCHANGED keeperVars,
           NEW kind \in {"deposit", "erc20", "valset"},
           NEW t \in Tokens \cup {NoToken}, NEW amount \in Nat,
           NEW r \in Accounts \cup {BadAddress},
           events' = Append(events, Log(kind, t, 0, amount, r)),
           ethHeight' = ethHeight, lastBatchNonces' = lastBatchNonces,
           kind = "valset" => amount = 0 \/ t \in cosmosOriginated
    PROVE  IInv'
  <1> DEFINE e == Log(kind, t, 0, amount, r)
  <1>1. lastBatchNonces \in [Tokens -> Nat] /\ ethHeight \in Nat
    BY ContractAssumption DEF IInv, TypeOK, ContractTypeOK
  <1>2. /\ e \in Events /\ e.height = ethHeight /\ e.kind = kind
        /\ e.token = t /\ e.amount = amount
    BY <1>1 DEF Log, Events
  <1>3. \A u \in Tokens : lastBatchNonces[u] <= lastBatchNonces'[u]
    BY <1>1
  <1>4. events' = Append(events, e)
    OBVIOUS
  <1> HIDE DEF e
  <1> QED
    BY <1>1, <1>2, <1>3, <1>4, EmitIInv

\* Every step of Cosmos keeps the invariant.
LEMMA CosmosIInv == ASSUME IInv, Cosmos PROVE IInv'
  <1>1. CASE \E a \in Accounts, d \in Denoms, x \in Amounts, f \in Fees :
                 SendToEth(a, d, x, f)
    BY <1>1, SendToEthIInv, BridgeAssumption DEF Cosmos
  <1>2. CASE \E a \in Accounts, tx \in pool : CancelSendToEth(a, tx)
    BY <1>2, CancelSendToEthIInv DEF Cosmos
  <1>3. CASE \E t \in Tokens, txs \in SUBSET pool : RequestBatch(t, txs)
    BY <1>3, RequestBatchIInv DEF Cosmos
  <1>4. CASE BeginEndBlock
    BY <1>4, BeginEndBlockIInv DEF Cosmos
  <1>5. CASE FinishEndBlock
    BY <1>5, FinishEndBlockIInv DEF Cosmos
  <1> QED
    BY <1>1, <1>2, <1>3, <1>4, <1>5 DEF Cosmos

\* Every step of the oracle keeps the invariant.
LEMMA OracleIInv == ASSUME IInv, Oracle PROVE IInv'
  <1>1. PICK n \in DOMAIN events : ObserveEvent(n, events[n])
    BY DEF Oracle
  <1>2. UNCHANGED contractVars
    BY DEF Oracle
  <1>3. CASE events[n].kind = "batch"
    BY <1>1, <1>2, <1>3, ObserveBatchIInv
  <1>4. CASE events[n].kind # "batch"
    BY <1>1, <1>2, <1>4, ObserveOtherIInv
  <1> QED
    BY <1>3, <1>4

\* Every step of Ethereum keeps the invariant.
LEMMA EthereumIInv == ASSUME IInv, Ethereum PROVE IInv'
  <1>1. UNCHANGED keeperVars
    BY DEF Ethereum
  <1>2. CASE NewEthereumBlock
    BY <1>1, <1>2, NewEthereumBlockIInv
  <1>3. CASE \E b \in checkpoints : submitBatch(b)
    BY <1>1, <1>3, submitBatchIInv
  <1>4. CASE \E t \in Tokens, x \in Amounts, r \in Accounts \cup {BadAddress} :
                 sendToCosmos(t, x, r)
    <2>1. PICK t \in Tokens, x \in Amounts, r \in Accounts \cup {BadAddress} :
                   sendToCosmos(t, x, r)
      BY <1>4
    <2>2. /\ events' = Append(events, Log("deposit", t, 0, x, r))
          /\ ethHeight' = ethHeight /\ lastBatchNonces' = lastBatchNonces
      BY <2>1 DEF sendToCosmos
    <2>3. x \in Nat
      BY BridgeAssumption
    <2> QED
      BY <1>1, <2>2, <2>3, EmitOtherIInv
  <1>5. CASE \E t \in CosmosTokens \cup {NoToken} : deployERC20(t)
    <2>1. PICK t \in CosmosTokens \cup {NoToken} : deployERC20(t)
      BY <1>5
    <2>2. /\ events' = Append(events, Log("erc20", t, 0, 0, BadAddress))
          /\ ethHeight' = ethHeight /\ lastBatchNonces' = lastBatchNonces
          /\ t \in Tokens \cup {NoToken}
      BY <2>1 DEF deployERC20, Tokens
    <2> QED
      BY <1>1, <2>2, EmitOtherIInv
  <1>6. ASSUME NEW t \in cosmosOriginated \cup {NoToken}, NEW x \in Nat,
               x = 0 \/ t \in cosmosOriginated, updateValset(t, x)
        PROVE  IInv'
    <2>1. /\ events' = Append(events, Log("valset", t, 0, x, BadAddress))
          /\ ethHeight' = ethHeight /\ lastBatchNonces' = lastBatchNonces
      BY <1>6 DEF updateValset
    <2>2. t \in Tokens \cup {NoToken}
      BY DEF IInv, TypeOK, KeeperTypeOK, Tokens
    <2> QED
      BY <1>1, <1>6, <2>1, <2>2, EmitOtherIInv
  <1>7. CASE updateValset(NoToken, 0)
    BY <1>6, <1>7
  <1>8. CASE \E t \in cosmosOriginated, x \in Rewards : updateValset(t, x)
    BY <1>6, <1>8, BridgeAssumption
  <1> QED
    BY <1>2, <1>3, <1>4, <1>5, <1>7, <1>8 DEF Ethereum

\* Every step of the bridge keeps the invariant.
LEMMA NextIInv == IInv /\ [Next]_vars => IInv'
  <1> SUFFICES ASSUME IInv, [Next]_vars PROVE IInv'
    OBVIOUS
  <1>1. CASE Cosmos
    BY <1>1, CosmosIInv
  <1>2. CASE Oracle
    BY <1>2, OracleIInv
  <1>3. CASE Ethereum
    BY <1>3, EthereumIInv
  <1>4. CASE UNCHANGED vars
    <2>1. /\ pool' = pool /\ batches' = batches /\ checkpoints' = checkpoints
          /\ nextBatchID' = nextBatchID /\ nextTXID' = nextTXID
          /\ refunded' = refunded
          /\ cosmosOriginated' = cosmosOriginated /\ failed' = failed
          /\ lastObservedEventNonce' = lastObservedEventNonce
          /\ observedHeights' = observedHeights /\ blockHeight' = blockHeight
          /\ phase' = phase
          /\ events' = events /\ ethHeight' = ethHeight
          /\ lastBatchNonces' = lastBatchNonces
      BY <1>4 DEF vars, keeperVars, poolVars, chainVars, contractVars
    <2>2. TypeOK'
      BY <2>1 DEF IInv, TypeOK, KeeperTypeOK, ContractTypeOK
    <2>3. SettledIsSettled'
      BY <2>1 DEF IInv, SettledIsSettled, Executes
    <2>4. RewardsAreKnown' /\ NeverHalts'
      BY <2>1 DEF IInv, RewardsAreKnown, NeverHalts
    <2> QED
      BY <2>1, <2>2, <2>3, <2>4, LogUnchanged, BatchesUnchanged, PoolUnchanged
          DEF IInv
  <1> QED
    BY <1>1, <1>2, <1>3, <1>4 DEF Next

-----------------------------------------------------------------------------
\* The inductive invariant holds in every reachable state.
THEOREM BridgeInvariant == Spec => []IInv
  BY InitIInv, NextIInv, PTL DEF Spec

\* The variables keep their types: the stores of x/nab (pool, batches,
\* counters, observed heights) and the nonces and logs of Gravity.sol.
THEOREM BridgeTypeCorrect == Spec => []TypeOK
  <1>1. IInv => TypeOK
    BY DEF IInv
  <1> QED
    BY <1>1, BridgeInvariant, PTL

\* No transfer is paid twice on Ethereum, and none is paid and refunded
\* (submitBatch, OutgoingTxBatchExecuted, cleanupTimedOutBatches,
\* RemoveFromOutgoingPoolAndRefund).
THEOREM TransfersArePaidOnce == Spec => []NoDoubleSpend
  BY IInvImpliesNoDoubleSpend, BridgeInvariant, PTL

\* None of the panics of the EndBlocker is reached: not the one for an unknown
\* batch in OutgoingTxBatchExecuted, nor the one of CancelOutgoingTXBatch for a
\* transfer that is in the pool already, nor the ones for a reward in Handle.
THEOREM BridgeNeverHalts == Spec => []NeverHalts
  <1>1. IInv => NeverHalts
    BY DEF IInv
  <1> QED
    BY <1>1, BridgeInvariant, PTL
=============================================================================
