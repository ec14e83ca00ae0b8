-------------------------- MODULE SettlementProofs --------------------------
(***************************************************************************)
(* What the bridge does with the money: a transfer that was accepted stays *)
(* open until it is paid or refunded, every voucher is backed, and no      *)
(* deposit fails for want of coins.  For every number of tokens, accounts, *)
(* transfers, batches and events.                                          *)
(*                                                                         *)
(* Everything is said of the open transfers: those in the pool or in a     *)
(* batch of the store that no event of Ethereum has paid.  There is one of *)
(* each id, and four kinds of steps change them:                           *)
(*  - SendToEth opens a transfer with a new id;                            *)
(*  - CancelSendToEth closes one of the pool;                              *)
(*  - submitBatch closes the transfers of the batch, all of which are open *)
(*    because the batch is still in the store (UnobservedIsStored);        *)
(*  - all else that x/nab does with pool and batches moves open transfers  *)
(*    from one to the other, or forgets paid ones.                         *)
(***************************************************************************)
EXTENDS BridgeProofs, DataLemmas

InTransit == pool \cup UNION {b.txs : b \in batches}

Paid == UNION {PaidBy(i) : i \in DOMAIN events}

Open == InTransit \ Paid

\* The transfers that the property and the refinement mapping speak of.
LEMMA InFlightIsOpen ==
    ASSUME NEW t
    PROVE  InFlight(t) = {x \in Open : x.token = t}
  BY DEF InFlight, Open, InTransit, Paid

PendingIsOpen == Pending = {x.id : x \in Open}

LEMMA IInvImpliesPendingIsOpen == IInv => PendingIsOpen
  <1> SUFFICES ASSUME IInv PROVE PendingIsOpen
    OBVIOUS
  <1>1. \A x \in Open : x.token \in Tokens
    BY DEF Open, InTransit, IInv, TypeOK, KeeperTypeOK, OutgoingTransferTx, OutgoingTxBatch
  <1>2. UNION {InFlight(t) : t \in Tokens} = Open
    BY <1>1, InFlightIsOpen
  <1> QED
    BY <1>2 DEF Pending, PendingIsOpen

LEMMA PendingBeforeAndAfter ==
    ASSUME IInv, IInv'
    PROVE  /\ Pending = {x.id : x \in Open}
           /\ Pending' = {x.id : x \in Open'}
  <1>1. IInv' => PendingIsOpen'
    BY IInvImpliesPendingIsOpen, PTL
  <1> QED
    BY <1>1, IInvImpliesPendingIsOpen DEF PendingIsOpen

\* Transfers in transit have ids of their own, are not refunded, and the open
\* ones are none of the paid ones.
LEMMA TransitFacts ==
    ASSUME IInv
    PROVE  /\ InTransit \subseteq OutgoingTransferTx
           /\ \A x \in InTransit : x.id \in Nat /\ x.id < nextTXID
           /\ \A x \in InTransit : x.id \notin refunded
           /\ \A x, y \in InTransit : x.id = y.id => x = y
           /\ \A x \in Open, y \in Paid : x.id # y.id
           /\ \A x \in Paid : x.id \in Nat /\ x.id < nextTXID
           /\ pool \subseteq Open
           /\ nextTXID \in Nat \ {0}
  <1>1. InTransit \subseteq OutgoingTransferTx
    BY DEF InTransit, IInv, TypeOK, KeeperTypeOK, OutgoingTxBatch
  <1>2. nextTXID \in Nat \ {0}
    BY DEF IInv, TypeOK, KeeperTypeOK
  <1>3. \A x \in InTransit : x.id \in Nat /\ x.id < nextTXID
    <2>1. \A x \in InTransit : x.id \in Nat
      BY <1>1 DEF OutgoingTransferTx
    <2>2. \A x \in InTransit : x.id < nextTXID
      BY DEF InTransit, IInv, IdsAreUsedOnce
    <2> QED
      BY <2>1, <2>2
  <1>4. \A x \in InTransit : x.id \notin refunded
    BY DEF InTransit, IInv, InOnePlace
  <1>5. \A x, y \in InTransit : x.id = y.id => x = y
    BY DEF InTransit, IInv, InOnePlace
  <1>6. ASSUME NEW y \in Paid
        PROVE  /\ y.id \in Nat /\ y.id < nextTXID
               /\ y \in InTransit \/ \A x \in InTransit : x.id # y.id
               /\ \A x \in pool : x.id # y.id
    <2>1. PICK i \in DOMAIN events : y \in PaidBy(i)
      BY DEF Paid
    <2>2. PICK b \in checkpoints : Executes(i, b) /\ y \in b.txs
      BY <2>1 DEF PaidBy
    <2>3. y.id \in Nat /\ y.id < nextTXID
      <3>1. y \in OutgoingTransferTx
        BY <2>2 DEF IInv, TypeOK, KeeperTypeOK, OutgoingTxBatch
      <3> QED
        BY <2>2, <3>1 DEF OutgoingTransferTx, IInv, IdsAreUsedOnce
    <2>4. /\ DOMAIN events = 1..Len(events) /\ Len(events) \in Nat
          /\ lastObservedEventNonce \in 0..Len(events)
      BY DEF IInv, TypeOK, ContractTypeOK, ObservedPrefix
    <2>5. CASE i \in 1..lastObservedEventNonce
      <3>1. /\ \A x \in pool : y.id # x.id
            /\ \A c \in batches : \A x \in c.txs : y.id # x.id
        BY <2>2, <2>5 DEF IInv, SettledIsSettled
      <3> QED
        BY <2>3, <3>1 DEF InTransit
    <2>6. CASE i > lastObservedEventNonce
      <3>1. b \in batches
        BY <2>2, <2>6, UnobservedIsStored
      <3> QED
        BY <2>2, <2>3, <3>1 DEF InTransit, IInv, InOnePlace
    <2> QED
      BY <2>4, <2>5, <2>6
  <1>7. \A x \in Open, y \in Paid : x.id # y.id
    BY <1>5, <1>6 DEF Open
  <1>8. pool \subseteq Open
    BY <1>6 DEF Open, InTransit
  <1> QED
    BY <1>1, <1>2, <1>3, <1>4, <1>5, <1>6, <1>7, <1>8

-----------------------------------------------------------------------------
\* A step after which the log has paid what it had paid before.
PaysNothing ==
    /\ DOMAIN events \subseteq DOMAIN events'
    /\ \A i \in DOMAIN events : PaidBy(i)' = PaidBy(i)
    /\ \A i \in DOMAIN events' : i \notin DOMAIN events => PaidBy(i)' = {}

LEMMA PaidIsKept ==
    ASSUME PaysNothing
    PROVE  Paid' = Paid /\ Payments' = Payments
  <1>1. Paid' = Paid
    BY DEF PaysNothing, Paid
  <1>2. ASSUME NEW id
        PROVE  {i \in DOMAIN events' : \E x \in PaidBy(i)' : x.id = id} =
               {i \in DOMAIN events : \E x \in PaidBy(i) : x.id = id}
    BY DEF PaysNothing
  <1> QED
    BY <1>1, <1>2 DEF Payments

LEMMA NoNewEventsPayNothing ==
    ASSUME events' = events, checkpoints' = checkpoints
    PROVE  PaysNothing
  BY DEF PaysNothing, PaidBy, Executes

\* Only a BatchExecutedEvent pays.
LEMMA OtherEventsPayNothing ==
    ASSUME IInv, checkpoints' = checkpoints,
           NEW e \in Events, e.kind # "batch", events' = Append(events, e)
    PROVE  PaysNothing
  <1>1. /\ DOMAIN events = 1..Len(events) /\ Len(events) \in Nat
        /\ DOMAIN events' = 1..(Len(events) + 1)
        /\ \A i \in DOMAIN events : events'[i] = events[i]
        /\ events'[Len(events) + 1] = e
    BY AppendFacts, LogFacts DEF IInv
  <1>2. \A i \in DOMAIN events : PaidBy(i)' = PaidBy(i)
    BY <1>1 DEF PaidBy, Executes
  <1>3. ASSUME NEW i \in DOMAIN events', i \notin DOMAIN events
        PROVE  PaidBy(i)' = {}
    <2>1. events'[i].kind # "batch"
      BY <1>1, <1>3
    <2> QED
      BY <2>1 DEF PaidBy, Executes
  <1> QED
    BY <1>1, <1>2, <1>3 DEF PaysNothing

\* SendToEth opens a transfer.
LEMMA SendToEthOpens ==
    ASSUME IInv, NEW a \in Accounts, NEW d \in Denoms, NEW amount \in Amounts,
           NEW fee \in Fees, SendToEth(a, d, amount, fee),
           UNCHANGED contractVars,
           NEW tx, tx = [id |-> nextTXID, sender |-> a, token |-> d[2],
                         amount |-> amount, fee |-> fee]
    PROVE  /\ PaysNothing
           /\ tx.id = nextTXID /\ tx \notin InTransit
           /\ tx.id \in TransferIds /\ tx.id \notin refunded
           /\ \A y \in Open \cup Paid : y.id # tx.id
           /\ InTransit' = InTransit \cup {tx}
           /\ Open' = Open \cup {tx}
           /\ refunded' = refunded
  <1>1. /\ events' = events /\ batches' = batches /\ checkpoints' = checkpoints
        /\ refunded' = refunded /\ nextTXID <= MaxTransfers
    BY DEF SendToEth, contractVars
  <1>2. tx.id = nextTXID
    OBVIOUS
  <1>3. PaysNothing
    BY <1>1, NoNewEventsPayNothing
  <1>4. \A x \in InTransit \cup Paid : x.id # tx.id
    BY <1>2, TransitFacts
  <1>5. \A u \in pool : PoolKey(u) # PoolKey(tx)
    BY <1>4 DEF PoolKey, InTransit
  <1>6. pool' = pool \cup {tx}
    BY <1>5 DEF SendToEth, AddToOutgoingPool, AddUnbatchedTX
  <1>7. InTransit' = InTransit \cup {tx}
    BY <1>1, <1>6 DEF InTransit
  <1>8. Open' = Open \cup {tx}
    BY <1>3, <1>4, <1>7, PaidIsKept DEF Open
  <1>9. tx.id \in TransferIds
    BY <1>1, <1>2, TransitFacts, KeeperAssumption DEF TransferIds
  <1>10. tx.id \notin refunded
    <2>1. refunded \subseteq Nat
      BY DEF IInv, TypeOK, KeeperTypeOK
    <2> QED
      BY <1>2, <2>1, TransitFacts DEF IInv, IdsAreUsedOnce
  <1> QED
    BY <1>1, <1>2, <1>3, <1>4, <1>7, <1>8, <1>9, <1>10 DEF Open

\* CancelSendToEth closes an open transfer.
LEMMA CancelSendToEthCloses ==
    ASSUME IInv, NEW a \in Accounts, NEW tx \in pool, CancelSendToEth(a, tx),
           UNCHANGED contractVars
    PROVE  /\ PaysNothing
           /\ tx \in Open
           /\ InTransit' = InTransit \ {tx}
           /\ Open' = Open \ {tx}
           /\ refunded' = refunded \cup {tx.id}
  <1>1. /\ events' = events /\ batches' = batches /\ checkpoints' = checkpoints
        /\ refunded' = refunded \cup {tx.id} /\ pool' = pool \ {tx}
    BY DEF CancelSendToEth, RemoveFromOutgoingPoolAndRefund, contractVars
  <1>2. PaysNothing
    BY <1>1, NoNewEventsPayNothing
  <1>3. tx \in Open
    BY TransitFacts
  <1>4. \A b \in batches : tx \notin b.txs
    BY DEF IInv, InOnePlace
  <1>5. InTransit' = InTransit \ {tx}
    BY <1>1, <1>4 DEF InTransit
  <1> QED
    BY <1>1, <1>2, <1>3, <1>5, PaidIsKept DEF Open

\* RequestBatch moves transfers from the pool to a batch that no event has
\* executed: its nonce is new.
LEMMA RequestBatchMoves ==
    ASSUME IInv, NEW t \in Tokens, NEW txs \in SUBSET pool, RequestBatch(t, txs),
           UNCHANGED contractVars
    PROVE  /\ PaysNothing
           /\ InTransit' = InTransit /\ Open' = Open /\ refunded' = refunded
  <1> DEFINE b == [nonce |-> nextBatchID, token |-> t, txs |-> txs,
                   timeout |-> getBatchTimeoutHeight]
  <1>1. /\ events' = events /\ checkpoints' = checkpoints \cup {b}
        /\ refunded' = refunded /\ pool' = pool \ txs
        /\ batches' = {c \in batches : ~(c.token = b.token /\ c.nonce = b.nonce)}
                          \cup {b}
    BY DEF RequestBatch, BuildOutgoingTXBatch, StoreBatch, contractVars
  <1>2. b.nonce = nextBatchID /\ b.txs = txs
    OBVIOUS
  <1> HIDE DEF b
  <1>3. \A c \in checkpoints : c.nonce # b.nonce
    <2>1. nextBatchID \in Nat /\ \A c \in checkpoints : c.nonce \in Nat
      BY DEF IInv, TypeOK, KeeperTypeOK, OutgoingTxBatch
    <2> QED
      BY <1>2, <2>1 DEF IInv, IdsAreUsedOnce
  <1>4. batches' = batches \cup {b}
    BY <1>1, <1>3 DEF IInv, IdsAreUsedOnce
  <1>5. InTransit' = InTransit
    BY <1>1, <1>2, <1>4 DEF InTransit
  <1>6. \A i \in DOMAIN events : ~Executes(i, b)
    BY <1>3 DEF IInv, ExecutedInOrder, Executes
  <1>7. ASSUME NEW i \in DOMAIN events
        PROVE  PaidBy(i)' = PaidBy(i)
    <2>1. {c \in checkpoints' : Executes(i, c)'} = {c \in checkpoints : Executes(i, c)}
      BY <1>1, <1>6 DEF Executes
    <2> QED
      BY <2>1 DEF PaidBy
  <1>8. PaysNothing
    BY <1>1, <1>7 DEF PaysNothing
  <1> QED
    BY <1>1, <1>5, <1>8, PaidIsKept DEF Open

\* The end of a block returns the transfers of timed out batches to the pool.
LEMMA FinishEndBlockMoves ==
    ASSUME IInv, FinishEndBlock, UNCHANGED contractVars
    PROVE  /\ PaysNothing
           /\ InTransit' = InTransit /\ Open' = Open /\ refunded' = refunded
  <1> DEFINE timedOut == {b \in batches : IsTimedOut(b)}
  <1>1. /\ events' = events /\ checkpoints' = checkpoints /\ refunded' = refunded
        /\ RemoveBatches(timedOut, {}, "deliverTx")
    BY DEF FinishEndBlock, contractVars
  <1>2. timedOut \subseteq batches
    OBVIOUS
  <1> HIDE DEF timedOut
  <1>3. InTransit' = InTransit
    BY <1>1, <1>2 DEF RemoveBatches, InTransit
  <1>4. PaysNothing
    BY <1>1, NoNewEventsPayNothing
  <1> QED
    BY <1>1, <1>3, <1>4, PaidIsKept DEF Open

\* The oracle: x/nab forgets the transfers of the batch that was executed,
\* which are paid, and keeps all the others.
LEMMA ObserveEventMoves ==
    ASSUME IInv, NEW n \in DOMAIN events, ObserveEvent(n, events[n]),
           UNCHANGED contractVars
    PROVE  /\ PaysNothing
           /\ InTransit' \subseteq InTransit /\ Open' = Open
           /\ refunded' = refunded
  <1>1. /\ events' = events /\ checkpoints' = checkpoints /\ refunded' = refunded
        /\ Handle(n, events[n]) /\ n > lastObservedEventNonce
    BY ObserveAdvances DEF ObserveEvent, contractVars
  <1>2. PaysNothing
    BY <1>1, NoNewEventsPayNothing
  <1>3. CASE events[n].kind # "batch"
    <2>1. pool' = pool /\ batches' = batches
      BY <1>1, <1>3, HandleOtherEvent
    <2> QED
      BY <1>1, <1>2, <2>1, PaidIsKept DEF Open, InTransit
  <1>4. CASE events[n].kind = "batch"
    <2>1. PICK b \in checkpoints : Executes(n, b)
      BY <1>4 DEF IInv, ExecutedInOrder
    <2>2. /\ b \in batches
          /\ pool' = pool \cup UNION {c.txs : c \in EarlierBatches(events[n])}
          /\ batches' = batches \ (EarlierBatches(events[n]) \cup {b})
      BY <1>1, <1>4, <2>1, HandleBatchEvent
    <2>3. EarlierBatches(events[n]) \subseteq batches
      BY DEF EarlierBatches
    <2>4. b.txs \subseteq Paid
      BY <2>1 DEF Paid, PaidBy
    <2>5. InTransit' \subseteq InTransit /\ InTransit \subseteq InTransit' \cup b.txs
      BY <2>2, <2>3 DEF InTransit
    <2> QED
      BY <1>1, <1>2, <2>4, <2>5, PaidIsKept DEF Open
  <1> QED
    BY <1>3, <1>4

\* UnobservedIsStored as a state predicate, to be used of the state after a step.
ExecutionsAreStored ==
    \A i \in DOMAIN events, b \in checkpoints :
        i > lastObservedEventNonce /\ Executes(i, b) => b \in batches

LEMMA IInvImpliesStored == IInv => ExecutionsAreStored
  BY UnobservedIsStored DEF ExecutionsAreStored

\* submitBatch pays transfers that are all open.
LEMMA submitBatchPays ==
    ASSUME IInv, IInv', NEW b \in checkpoints, submitBatch(b), UNCHANGED keeperVars
    PROVE  /\ b \in batches /\ b.txs \subseteq Open
           /\ InTransit' = InTransit /\ Open' = Open \ b.txs
           /\ refunded' = refunded
           /\ \A i \in DOMAIN events : PaidBy(i)' = PaidBy(i)
           /\ \E k : /\ k \notin DOMAIN events
                     /\ DOMAIN events' = DOMAIN events \cup {k}
                     /\ PaidBy(k)' = b.txs
  <1> DEFINE e == Log("batch", b.token, b.nonce, 0, BadAddress)
             new == Len(events) + 1
  <1>1. /\ pool' = pool /\ batches' = batches /\ checkpoints' = checkpoints
        /\ refunded' = refunded
        /\ lastObservedEventNonce' = lastObservedEventNonce
    BY DEF keeperVars, poolVars, chainVars
  <1>2. /\ e \in Events /\ e.kind = "batch"
        /\ e.token = b.token /\ e.nonce = b.nonce
    <2>1. /\ b.token \in Tokens /\ b.nonce \in Nat /\ ethHeight \in Nat
      BY ContractAssumption
          DEF IInv, TypeOK, KeeperTypeOK, ContractTypeOK, OutgoingTxBatch
    <2> QED
      BY <2>1 DEF Log, Events
  <1>3. events' = Append(events, e)
    BY DEF submitBatch
  <1> HIDE DEF e
  <1>4. /\ DOMAIN events = 1..Len(events) /\ Len(events) \in Nat
        /\ DOMAIN events' = 1..(Len(events) + 1)
        /\ \A i \in DOMAIN events : events'[i] = events[i]
        /\ events'[new] = e
    BY <1>2, <1>3, AppendFacts, LogFacts DEF IInv
  <1>5. DOMAIN events' = DOMAIN events \cup {new} /\ new \notin DOMAIN events
    BY <1>4
  <1>6. \A i \in DOMAIN events : PaidBy(i)' = PaidBy(i)
    BY <1>1, <1>4 DEF PaidBy, Executes
  <1>7. PICK k : k = new
    OBVIOUS
  <1>8. \A c \in checkpoints : Executes(k, c)' <=> c = b
    BY <1>2, <1>4, <1>7 DEF Executes, IInv, IdsAreUsedOnce
  <1>9. PaidBy(k)' = b.txs
    BY <1>1, <1>8 DEF PaidBy
  <1>10. b \in batches
    <2>1. lastObservedEventNonce \in 0..Len(events)
      BY DEF IInv, ObservedPrefix
    <2>2. k > lastObservedEventNonce' /\ k \in DOMAIN events'
      BY <1>1, <1>4, <1>7, <2>1
    <2>3. b \in checkpoints' /\ Executes(k, b)'
      BY <1>1, <1>8
    <2>4. ExecutionsAreStored'
      <3>1. IInv' => ExecutionsAreStored'
        BY IInvImpliesStored, PTL
      <3> QED
        BY <3>1
    <2>5. b \in batches'
      BY <2>2, <2>3, <2>4 DEF ExecutionsAreStored
    <2> QED
      BY <1>1, <2>5
  <1>11. ASSUME NEW x \in b.txs
         PROVE  x \notin Paid
    <2>1. NoDoubleSpend'
      <3>1. IInv' => NoDoubleSpend'
        BY IInvImpliesNoDoubleSpend, PTL
      <3> QED
        BY <3>1
    <2>2. \A i \in DOMAIN events' : \A y \in PaidBy(i)' : x.id = y.id => k = i
      BY <1>5, <1>7, <1>9, <2>1 DEF NoDoubleSpend
    <2>3. \A i \in DOMAIN events : x \notin PaidBy(i)
      BY <1>5, <1>6, <1>7, <2>2
    <2> QED
      BY <2>3 DEF Paid
  <1>12. b.txs \subseteq Open
    BY <1>10, <1>11 DEF Open, InTransit
  <1>13. InTransit' = InTransit
    BY <1>1 DEF InTransit
  <1>14. Paid' = Paid \cup b.txs
    BY <1>5, <1>6, <1>7, <1>9 DEF Paid
  <1> QED
    BY <1>1, <1>5, <1>6, <1>7, <1>9, <1>10, <1>12, <1>13, <1>14 DEF Open

-----------------------------------------------------------------------------
(* The refinement. *)

\* How often a transfer was paid is the number of events that paid it.
PayersOf(id) == {i \in DOMAIN events : \E x \in PaidBy(i) : x.id = id}

LEMMA PayersAreFinite ==
    ASSUME IInv, NEW id
    PROVE  IsFiniteSet(PayersOf(id)) /\ Cardinality(PayersOf(id)) \in Nat
  <1>1. DOMAIN events = 1..Len(events) /\ Len(events) \in Nat
    BY LogFacts DEF IInv
  <1>2. IsFiniteSet(DOMAIN events)
    BY <1>1, FS_Interval
  <1>3. PayersOf(id) \subseteq DOMAIN events
    BY DEF PayersOf
  <1> QED
    BY <1>2, <1>3, FS_Subset, FS_CardinalityType

\* The steps that leave the open transfers alone are stuttering steps.
LEMMA MovesAreStuttering ==
    ASSUME IInv, IInv', PaysNothing, Open' = Open, refunded' = refunded
    PROVE  UNCHANGED Promise!transferVars
  <1>1. Pending = {x.id : x \in Open}
    BY PendingBeforeAndAfter
  <1>2. Pending' = {x.id : x \in Open'}
    BY PendingBeforeAndAfter
  <1> QED
    BY <1>1, <1>2, PaidIsKept DEF Promise!transferVars

\* SendToEth requests.
LEMMA SendToEthRequests ==
    ASSUME IInv, IInv', NEW a \in Accounts, NEW d \in Denoms,
           NEW amount \in Amounts, NEW fee \in Fees,
           SendToEth(a, d, amount, fee), UNCHANGED contractVars
    PROVE  Promise!Request
  <1>1. PICK tx : tx = [id |-> nextTXID, sender |-> a, token |-> d[2],
                        amount |-> amount, fee |-> fee]
    OBVIOUS
  <1>2. /\ PaysNothing
        /\ tx.id \in TransferIds /\ tx.id \notin refunded
        /\ \A y \in Open \cup Paid : y.id # tx.id
        /\ Open' = Open \cup {tx}
        /\ refunded' = refunded
    BY <1>1, SendToEthOpens
  <1>3. Pending = {x.id : x \in Open}
    BY PendingBeforeAndAfter
  <1>4. Pending' = {x.id : x \in Open'}
    BY PendingBeforeAndAfter
  <1>5. Pending' = Pending \cup {tx.id} /\ tx.id \notin Pending
    BY <1>2, <1>3, <1>4
  <1>6. Payments[tx.id] = 0
    <2>1. PayersOf(tx.id) = {}
      BY <1>2 DEF PayersOf, Paid
    <2>2. Payments[tx.id] = Cardinality(PayersOf(tx.id))
      BY <1>2 DEF Payments, PayersOf
    <2> QED
      BY <2>1, <2>2, FS_EmptySet
  <1> QED
    BY <1>2, <1>5, <1>6, PaidIsKept DEF Promise!Request

\* CancelSendToEth refunds.
LEMMA CancelSendToEthRefunds ==
    ASSUME IInv, IInv', NEW a \in Accounts, NEW tx \in pool,
           CancelSendToEth(a, tx), UNCHANGED contractVars
    PROVE  Promise!Refund
  <1>1. /\ PaysNothing /\ tx \in Open
        /\ Open' = Open \ {tx}
        /\ refunded' = refunded \cup {tx.id}
    BY CancelSendToEthCloses
  <1>2. Pending = {x.id : x \in Open}
    BY PendingBeforeAndAfter
  <1>3. Pending' = {x.id : x \in Open'}
    BY PendingBeforeAndAfter
  <1>4. \A x \in Open : x.id = tx.id => x = tx
    BY <1>1, TransitFacts DEF Open
  <1>5. tx.id \in Pending /\ Pending' = Pending \ {tx.id}
    BY <1>1, <1>2, <1>3, <1>4
  <1> QED
    BY <1>1, <1>5, PaidIsKept DEF Promise!Refund

\* submitBatch pays the transfers of a batch, or does nothing if it has none.
LEMMA submitBatchIsPay ==
    ASSUME IInv, IInv', NEW b \in checkpoints, submitBatch(b), UNCHANGED keeperVars
    PROVE  Promise!Pay \/ UNCHANGED Promise!transferVars
  <1>1. /\ b.txs \subseteq Open /\ Open' = Open \ b.txs
        /\ refunded' = refunded
        /\ \A i \in DOMAIN events : PaidBy(i)' = PaidBy(i)
    BY submitBatchPays
  <1>2. PICK k : /\ k \notin DOMAIN events
                 /\ DOMAIN events' = DOMAIN events \cup {k}
                 /\ PaidBy(k)' = b.txs
    BY submitBatchPays
  <1>3. Pending = {x.id : x \in Open}
    BY PendingBeforeAndAfter
  <1>4. Pending' = {x.id : x \in Open'}
    BY PendingBeforeAndAfter
  <1> DEFINE S == {x.id : x \in b.txs}
  <1>5. \A x, y \in Open : x.id = y.id => x = y
    BY TransitFacts DEF Open
  <1>6. Pending' = Pending \ S /\ S \subseteq Pending
    BY <1>1, <1>3, <1>4, <1>5
  <1>7. ASSUME NEW id \in TransferIds
        PROVE  Payments'[id] = IF id \in S THEN Payments[id] + 1 ELSE Payments[id]
    <2>1. /\ Payments[id] = Cardinality(PayersOf(id))
          /\ Payments'[id] = Cardinality(PayersOf(id)')
      BY DEF Payments, PayersOf
    <2>2. CASE id \in S
      <3>1. PayersOf(id)' = PayersOf(id) \cup {k} /\ k \notin PayersOf(id)
        BY <1>1, <1>2, <2>2 DEF PayersOf
      <3>2. Cardinality(PayersOf(id) \cup {k}) = Cardinality(PayersOf(id)) + 1
        BY <3>1, PayersAreFinite, FS_AddElement
      <3> QED
        BY <2>1, <2>2, <3>1, <3>2
    <2>3. CASE id \notin S
      <3>1. PayersOf(id)' = PayersOf(id)
        BY <1>1, <1>2, <2>3 DEF PayersOf
      <3> QED
        BY <2>1, <2>3, <3>1
    <2> QED
      BY <2>2, <2>3
  <1>8. Payments' = [id \in TransferIds |->
                        IF id \in S THEN Payments[id] + 1 ELSE Payments[id]]
    <2>1. Payments' = [id \in TransferIds |-> Payments'[id]]
      BY DEF Payments
    <2> HIDE DEF S
    <2> QED
      BY <1>7, <2>1
  <1>9. CASE S = {}
    <2>1. Pending' = Pending
      BY <1>6, <1>9
    <2>2. Payments' = Payments
      <3>1. Payments = [id \in TransferIds |-> Payments[id]]
        BY DEF Payments
      <3> HIDE DEF S
      <3> QED
        BY <1>8, <1>9, <3>1
    <2> QED
      BY <1>1, <2>1, <2>2 DEF Promise!transferVars
  <1>10. CASE S # {}
    <2> HIDE DEF S
    <2>1. S \in (SUBSET Pending) \ {{}}
      BY <1>6, <1>10
    <2> QED
      BY <1>1, <1>6, <1>8, <2>1 DEF Promise!Pay
  <1> QED
    BY <1>9, <1>10

\* A step of Ethereum that is no execution of a batch.
LEMMA OtherEthereumStepsMove ==
    ASSUME IInv, Ethereum, ~ \E b \in checkpoints : submitBatch(b)
    PROVE  /\ PaysNothing
           /\ InTransit' = InTransit /\ Open' = Open /\ refunded' = refunded
  <1>1. /\ pool' = pool /\ batches' = batches /\ checkpoints' = checkpoints
        /\ refunded' = refunded
    BY DEF Ethereum, keeperVars, poolVars
  <1>2. ASSUME NEW kind \in {"deposit", "erc20", "valset"},
               NEW t \in Tokens \cup {NoToken}, NEW amount \in Nat,
               NEW r \in Accounts \cup {BadAddress},
               events' = Append(events, Log(kind, t, 0, amount, r))
        PROVE  PaysNothing
    <2>1. ethHeight \in Nat
      BY ContractAssumption DEF IInv, TypeOK, ContractTypeOK
    <2>2. Log(kind, t, 0, amount, r) \in Events /\ Log(kind, t, 0, amount, r).kind # "batch"
      BY <2>1 DEF Log, Events
    <2> QED
      BY <1>1, <1>2, <2>2, OtherEventsPayNothing
  <1>3. PaysNothing
    <2>1. CASE NewEthereumBlock
      BY <1>1, <2>1, NoNewEventsPayNothing DEF NewEthereumBlock
    <2>2. CASE \E t \in Tokens, x \in Amounts, r \in Accounts \cup {BadAddress} :
                   sendToCosmos(t, x, r)
      BY <1>2, <2>2, BridgeAssumption DEF sendToCosmos
    <2>3. CASE \E t \in CosmosTokens \cup {NoToken} : deployERC20(t)
      BY <1>2, <2>3 DEF deployERC20, Tokens
    <2>4. CASE updateValset(NoToken, 0)
      BY <1>2, <2>4 DEF updateValset
    <2>5. CASE \E t \in cosmosOriginated, x \in Rewards : updateValset(t, x)
      <3>1. cosmosOriginated \subseteq Tokens
        BY DEF IInv, TypeOK, KeeperTypeOK, Tokens
      <3> QED
        BY <1>2, <2>5, <3>1, BridgeAssumption DEF updateValset
    <2> QED
      BY <2>1, <2>2, <2>3, <2>4, <2>5 DEF Ethereum
  <1> QED
    BY <1>1, <1>3, PaidIsKept DEF Open, InTransit

LEMMA InitSettles == Init => Promise!Init
  <1> SUFFICES ASSUME Init PROVE Promise!Init
    OBVIOUS
  <1>1. Pending = {} /\ refunded = {}
    BY DEF Init, KeeperInit, Pending, InFlight
  <1>2. \A id : PayersOf(id) = {}
    BY DEF Init, KeeperInit, PayersOf, PaidBy
  <1>3. Payments = [id \in TransferIds |-> Cardinality(PayersOf(id))]
    BY DEF Payments, PayersOf
  <1>4. Payments = [id \in TransferIds |-> 0]
    BY <1>2, <1>3, FS_EmptySet
  <1> QED
    BY <1>1, <1>4 DEF Promise!Init

LEMMA NextSettles ==
    ASSUME IInv, IInv', [Next]_vars
    PROVE  [Promise!Next]_(Promise!transferVars)
  <1>1. CASE Cosmos
    <2>1. UNCHANGED contractVars
      BY <1>1 DEF Cosmos
    <2>2. CASE \E a \in Accounts, d \in Denoms, x \in Amounts, f \in Fees :
                   SendToEth(a, d, x, f)
      BY <2>1, <2>2, SendToEthRequests DEF Promise!Next
    <2>3. CASE \E a \in Accounts, tx \in pool : CancelSendToEth(a, tx)
      BY <2>1, <2>3, CancelSendToEthRefunds DEF Promise!Next
    <2>4. CASE \E t \in Tokens, txs \in SUBSET pool : RequestBatch(t, txs)
      BY <2>1, <2>4, RequestBatchMoves, MovesAreStuttering
    <2>5. CASE BeginEndBlock
      <3>1. /\ pool' = pool /\ batches' = batches /\ checkpoints' = checkpoints
            /\ refunded' = refunded /\ events' = events
        BY <2>1, <2>5 DEF BeginEndBlock, poolVars, contractVars
      <3>2. PaysNothing
        BY <3>1, NoNewEventsPayNothing
      <3>3. Open' = Open
        BY <3>1, <3>2, PaidIsKept DEF Open, InTransit
      <3> QED
        BY <3>1, <3>2, <3>3, MovesAreStuttering
    <2>6. CASE FinishEndBlock
      BY <2>1, <2>6, FinishEndBlockMoves, MovesAreStuttering
    <2> QED
      BY <1>1, <2>2, <2>3, <2>4, <2>5, <2>6 DEF Cosmos
  <1>2. CASE Oracle
    BY <1>2, ObserveEventMoves, MovesAreStuttering DEF Oracle
  <1>3. CASE Ethereum
    <2>1. CASE \E b \in checkpoints : submitBatch(b)
      BY <1>3, <2>1, submitBatchIsPay DEF Ethereum, Promise!Next
    <2>2. CASE ~ \E b \in checkpoints : submitBatch(b)
      BY <1>3, <2>2, OtherEthereumStepsMove, MovesAreStuttering
    <2> QED
      BY <2>1, <2>2
  <1>4. CASE UNCHANGED vars
    <2>1. /\ pool' = pool /\ batches' = batches /\ checkpoints' = checkpoints
          /\ refunded' = refunded /\ events' = events
      BY <1>4 DEF vars, keeperVars, poolVars, contractVars
    <2>2. PaysNothing
      BY <2>1, NoNewEventsPayNothing
    <2>3. Open' = Open
      BY <2>1, <2>2, PaidIsKept DEF Open, InTransit
    <2> QED
      BY <2>1, <2>2, <2>3, MovesAreStuttering
  <1> QED
    BY <1>1, <1>2, <1>3, <1>4 DEF Next

\* The bridge implements module Transfers: a transfer that SendToEth accepted is
\* in the pool or in a batch of x/nab until it is paid on Ethereum or refunded
\* on Cosmos, whatever batches are built, time out, are executed or forgotten.
THEOREM TransfersAreSettled == Spec => SettlesTransfers
  <1>1. IInv /\ IInv' /\ [Next]_vars => [Promise!Next]_(Promise!transferVars)
    BY NextSettles
  <1> QED
    BY <1>1, InitSettles, BridgeInvariant, PTL DEF Spec, SettlesTransfers, Promise!Spec

-----------------------------------------------------------------------------
(* The money. *)

Holders == Accounts \cup {Module}

MoneyTypeOK ==
    /\ bank \in [Holders \X Denoms -> Nat]
    /\ escrow \in [Tokens -> Nat]
    /\ ethUsers \in [Tokens -> Nat]

\* Only finitely many transfers are in transit, so that their sum is one.
TransitIsFinite == IsFiniteSet(InTransit)

\* A batch is of one token, and a Cosmos token gets nowhere before Cosmos has
\* adopted its ERC20.
TokensAreKnown ==
    /\ \A x \in InTransit :
           x.amount > 0 /\ (x.token \in CosmosTokens => x.token \in cosmosOriginated)
    /\ \A b \in checkpoints :
           /\ \A x \in b.txs : x.token = b.token
           /\ b.token \in CosmosTokens => b.token \in cosmosOriginated
    /\ \A t \in CosmosTokens : ethUsers[t] > 0 => t \in cosmosOriginated
    /\ \A i \in DOMAIN events : events[i].kind = "deposit" =>
           /\ events[i].token \in Tokens
           /\ events[i].token \in CosmosTokens => events[i].token \in cosmosOriginated

\* There are no vouchers of Cosmos tokens.
NoVouchersOfCosmosTokens ==
    \A h \in Holders, t \in CosmosTokens : bank[<<h, Voucher(t)>>] = 0

FailedWereObserved == failed \subseteq 1..lastObservedEventNonce

\* What the events of a kind and a token are worth.
SumOver(log, S, kind, t) ==
    Worth(log, {i \in S : log[i].kind = kind /\ log[i].token = t})

\* The events that Cosmos observes next, up to the k-th.
Coming(k) == (lastObservedEventNonce + 1)..k

\* At every point of the log that is still to be observed, the locked coins
\* and the rewards until then are enough for the deposits until then.
Solvent ==
    \A t \in CosmosTokens : \A k \in lastObservedEventNonce..Len(events) :
        SumOver(events, Coming(k), "deposit", t) <=
            bank[<<Module, Native(t)>>] + SumOver(events, Coming(k), "valset", t)

BInv == /\ IInv
        /\ MoneyTypeOK
        /\ TransitIsFinite
        /\ TokensAreKnown
        /\ NoVouchersOfCosmosTokens
        /\ FailedWereObserved
        /\ FullyBacked
        /\ Solvent
        /\ DepositsAreCredited

-----------------------------------------------------------------------------
(* Sums. *)

CostOf == [x \in OutgoingTransferTx |-> x.amount + x.fee]

LEMMA TotalIsSum ==
    ASSUME NEW S \in SUBSET OutgoingTransferTx, IsFiniteSet(S)
    PROVE  /\ Total(S) = SumOf(CostOf, S)
           /\ \A x \in S : CostOf[x] = x.amount + x.fee /\ CostOf[x] \in Nat
  <1> DEFINE f == [x \in S |-> x.amount + x.fee]
  <1>1. Total(S) = SumOf(f, S)
    BY DEF SumOf, MapThenSumSet, MapThenFoldSet, Total
  <1>2. \A x \in S : CostOf[x] = x.amount + x.fee /\ CostOf[x] \in Nat
    BY DEF CostOf, OutgoingTransferTx
  <1>3. \A x \in S : f[x] = CostOf[x]
    BY <1>2
  <1> HIDE DEF f
  <1>4. SumOf(f, S) = SumOf(CostOf, S)
    BY <1>3, SumCong
  <1> QED
    BY <1>1, <1>2, <1>4

LEMMA TotalWithout ==
    ASSUME NEW S \in SUBSET OutgoingTransferTx, IsFiniteSet(S), NEW T \in SUBSET S
    PROVE  /\ Total(S) \in Nat /\ Total(T) \in Nat /\ Total(S \ T) \in Nat
           /\ Total(S) = Total(S \ T) + Total(T)
  <1>1. IsFiniteSet(T) /\ IsFiniteSet(S \ T)
    BY FS_Subset
  <1>2. /\ Total(S) = SumOf(CostOf, S) /\ Total(T) = SumOf(CostOf, T)
        /\ Total(S \ T) = SumOf(CostOf, S \ T)
        /\ \A x \in S : CostOf[x] \in Nat
    <2>1. T \in SUBSET OutgoingTransferTx /\ S \ T \in SUBSET OutgoingTransferTx
      OBVIOUS
    <2> QED
      BY <1>1, <2>1, TotalIsSum
  <1>3. SumOf(CostOf, S) \in Nat /\ SumOf(CostOf, T) \in Nat
        /\ SumOf(CostOf, S \ T) \in Nat
    BY <1>1, <1>2, SumNat
  <1>4. PICK U : U = S \ T
    OBVIOUS
  <1>5. U \cup T = S /\ U \cap T = {} /\ IsFiniteSet(U)
    BY <1>1, <1>4
  <1>6. \A x \in U \cup T : CostOf[x] \in Int
    BY <1>2, <1>5
  <1>7. SumOf(CostOf, U \cup T) = SumOf(CostOf, U) + SumOf(CostOf, T)
    BY <1>1, <1>5, <1>6, SumUnion
  <1>8. SumOf(CostOf, S) = SumOf(CostOf, S \ T) + SumOf(CostOf, T)
    BY <1>4, <1>5, <1>7
  <1> QED
    BY <1>2, <1>3, <1>8

LEMMA TotalWith ==
    ASSUME NEW S \in SUBSET OutgoingTransferTx, IsFiniteSet(S),
           NEW x \in OutgoingTransferTx, x \notin S
    PROVE  Total(S \cup {x}) = Total(S) + (x.amount + x.fee)
  <1>1. IsFiniteSet(S \cup {x}) /\ S \cup {x} \in SUBSET OutgoingTransferTx
    BY FS_AddElement
  <1>2. /\ Total(S) = SumOf(CostOf, S)
        /\ Total(S \cup {x}) = SumOf(CostOf, S \cup {x})
        /\ \A y \in S \cup {x} : CostOf[y] = y.amount + y.fee /\ CostOf[y] \in Nat
    BY <1>1, TotalIsSum
  <1>3. \A y \in S : CostOf[y] \in Int
    BY <1>2
  <1>4. CostOf[x] \in Int
    BY <1>2
  <1>5. SumOf(CostOf, S \cup {x}) = CostOf[x] + SumOf(CostOf, S)
    BY <1>3, <1>4, SumAdd
  <1>6. SumOf(CostOf, S) \in Int
    BY <1>3, SumType
  <1> QED
    BY <1>2, <1>4, <1>5, <1>6

LEMMA TotalOfOne ==
    ASSUME NEW x \in OutgoingTransferTx
    PROVE  Total({x}) = x.amount + x.fee /\ Total({x}) \in Nat
  <1>1. {x} \in SUBSET OutgoingTransferTx /\ IsFiniteSet({x}) /\ IsFiniteSet({})
    BY FS_Singleton, FS_EmptySet
  <1>2. {} \cup {x} = {x} /\ {} \in SUBSET OutgoingTransferTx
    OBVIOUS
  <1>3. Total({}) = 0
    BY <1>1, <1>2, TotalIsSum, SumEmpty
  <1>4. Total({} \cup {x}) = Total({}) + (x.amount + x.fee)
    BY <1>1, <1>2, TotalWith
  <1>5. x.amount \in Nat /\ x.fee \in Nat
    BY DEF OutgoingTransferTx
  <1> QED
    BY <1>2, <1>3, <1>4, <1>5

LEMMA WorthIsSum ==
    ASSUME NEW log, NEW S
    PROVE  Worth(log, S) = SumOf([i \in S |-> log[i].amount], S)
  BY DEF SumOf, MapThenSumSet, MapThenFoldSet, Worth

\* The amounts of a log of natural numbers.
Amounting(log, S) == IsFiniteSet(S) /\ \A i \in S : log[i].amount \in Nat

LEMMA WorthOfNone == ASSUME NEW log PROVE Worth(log, {}) = 0
  <1> DEFINE f == [i \in {} |-> log[i].amount]
  <1>1. Worth(log, {}) = SumOf(f, {})
    BY WorthIsSum
  <1> HIDE DEF f
  <1> QED
    BY <1>1, SumEmpty

LEMMA WorthSubset ==
    ASSUME NEW log, NEW S, Amounting(log, S), NEW T \in SUBSET S
    PROVE  /\ Worth(log, S) \in Nat /\ Worth(log, T) \in Nat
           /\ Worth(log, T) <= Worth(log, S)
  <1> DEFINE f == [i \in S |-> log[i].amount]
             g == [i \in T |-> log[i].amount]
  <1>1. Worth(log, S) = SumOf(f, S) /\ Worth(log, T) = SumOf(g, T)
    BY WorthIsSum
  <1>2. /\ \A i \in S : f[i] \in Nat
        /\ \A i \in T : g[i] = f[i]
        /\ IsFiniteSet(S)
    BY DEF Amounting
  <1> HIDE DEF f, g
  <1>3. IsFiniteSet(T)
    BY <1>2, FS_Subset
  <1>4. SumOf(g, T) = SumOf(f, T)
    BY <1>2, <1>3, SumCong
  <1>5. \A i \in T : f[i] \in Nat
    BY <1>2
  <1>6. SumOf(f, S) \in Nat
    BY <1>2, SumNat
  <1>7. SumOf(f, T) \in Nat
    BY <1>3, <1>5, SumNat
  <1>8. SumOf(f, T) <= SumOf(f, S)
    BY <1>2, SumSubset
  <1> QED
    BY <1>1, <1>4, <1>6, <1>7, <1>8

LEMMA WorthWith ==
    ASSUME NEW log, NEW S, Amounting(log, S), NEW k, k \notin S, log[k].amount \in Nat
    PROVE  Worth(log, S \cup {k}) = Worth(log, S) + log[k].amount
  <1> DEFINE U == S \cup {k}
             f == [i \in U |-> log[i].amount]
             g == [i \in S |-> log[i].amount]
  <1>1. Worth(log, U) = SumOf(f, U) /\ Worth(log, S) = SumOf(g, S)
    BY WorthIsSum
  <1>2. /\ \A i \in S : f[i] \in Int
        /\ \A i \in S : g[i] = f[i]
        /\ f[k] = log[k].amount
        /\ IsFiniteSet(S)
    BY DEF Amounting
  <1> HIDE DEF f, g
  <1>3. SumOf(f, S \cup {k}) = f[k] + SumOf(f, S)
    <2>1. f[k] \in Int
      BY <1>2
    <2> QED
      BY <1>2, <2>1, SumAdd
  <1>4. SumOf(g, S) = SumOf(f, S)
    BY <1>2, SumCong
  <1>5. SumOf(f, S) \in Int
    BY <1>2, SumType
  <1> QED
    BY <1>1, <1>2, <1>3, <1>4, <1>5

LEMMA WorthOfSameLog ==
    ASSUME NEW log, NEW log2, NEW S, IsFiniteSet(S), \A i \in S : log[i] = log2[i]
    PROVE  Worth(log, S) = Worth(log2, S)
  <1> DEFINE f == [i \in S |-> log[i].amount]
             g == [i \in S |-> log2[i].amount]
  <1>1. Worth(log, S) = SumOf(f, S) /\ Worth(log2, S) = SumOf(g, S)
    BY WorthIsSum
  <1>2. \A i \in S : f[i] = g[i]
    OBVIOUS
  <1> HIDE DEF f, g
  <1>3. SumOf(f, S) = SumOf(g, S)
    BY <1>2, SumCong
  <1> QED
    BY <1>1, <1>3

LEMMA HeldIsSum ==
    ASSUME NEW b, NEW d
    PROVE  Held(b, d) = SumOf([h \in Holders |-> b[<<h, d>>]], Holders)
  BY DEF SumOf, MapThenSumSet, MapThenFoldSet, Held, Holders

-----------------------------------------------------------------------------
(* The bank. *)

Banks == [Holders \X Denoms -> Nat]

\* From b to c, the coins of denom d that h has change by a, and nothing else does.
Changes(b, c, h, d, a) ==
    /\ b \in Banks /\ c \in Banks
    /\ h \in Holders /\ d \in Denoms /\ a \in Int
    /\ c[<<h, d>>] = b[<<h, d>>] + a
    /\ \A g \in Holders, e \in Denoms : g # h \/ e # d => c[<<g, e>>] = b[<<g, e>>]

LEMMA MintChanges ==
    ASSUME NEW b \in Banks, NEW h \in Holders, NEW d \in Denoms, NEW a \in Nat
    PROVE  Changes(b, Mint(b, h, d, a), h, d, a)
  <1>1. <<h, d>> \in Holders \X Denoms
    OBVIOUS
  <1>2. b[<<h, d>>] + a \in Nat
    BY <1>1 DEF Banks
  <1>3. Mint(b, h, d, a) \in Banks
    BY <1>1, <1>2 DEF Banks, Mint
  <1>4. Mint(b, h, d, a)[<<h, d>>] = b[<<h, d>>] + a
    BY <1>1 DEF Banks, Mint
  <1>5. ASSUME NEW g \in Holders, NEW e \in Denoms, g # h \/ e # d
        PROVE  Mint(b, h, d, a)[<<g, e>>] = b[<<g, e>>]
    <2>1. <<g, e>> \in Holders \X Denoms /\ <<g, e>> # <<h, d>>
      BY <1>5
    <2> QED
      BY <1>1, <2>1 DEF Banks, Mint
  <1> QED
    BY <1>3, <1>4, <1>5 DEF Changes

LEMMA BurnChanges ==
    ASSUME NEW b \in Banks, NEW h \in Holders, NEW d \in Denoms, NEW a \in Nat,
           b[<<h, d>>] >= a
    PROVE  Changes(b, Burn(b, h, d, a), h, d, -a)
  <1>1. <<h, d>> \in Holders \X Denoms
    OBVIOUS
  <1>2. b[<<h, d>>] - a \in Nat /\ b[<<h, d>>] \in Nat
    BY <1>1 DEF Banks
  <1>3. Burn(b, h, d, a) \in Banks
    BY <1>1, <1>2 DEF Banks, Burn
  <1>4. Burn(b, h, d, a)[<<h, d>>] = b[<<h, d>>] + (-a)
    BY <1>1, <1>2 DEF Banks, Burn
  <1>5. ASSUME NEW g \in Holders, NEW e \in Denoms, g # h \/ e # d
        PROVE  Burn(b, h, d, a)[<<g, e>>] = b[<<g, e>>]
    <2>1. <<g, e>> \in Holders \X Denoms /\ <<g, e>> # <<h, d>>
      BY <1>5
    <2> QED
      BY <1>1, <2>1 DEF Banks, Burn
  <1> QED
    BY <1>3, <1>4, <1>5 DEF Changes

LEMMA HeldChanges ==
    ASSUME NEW b, NEW c, NEW h, NEW d, NEW a, Changes(b, c, h, d, a)
    PROVE  /\ Held(c, d) = Held(b, d) + a
           /\ \A e \in Denoms : e # d => Held(c, e) = Held(b, e)
           /\ \A e \in Denoms : Held(b, e) \in Nat /\ Held(c, e) \in Nat
  <1>1. IsFiniteSet(Holders)
    BY BridgeDataAssumption, FS_AddElement DEF Holders
  <1>2. ASSUME NEW e \in Denoms
        PROVE  /\ Held(b, e) \in Nat /\ Held(c, e) \in Nat
               /\ e # d => Held(c, e) = Held(b, e)
               /\ e = d => Held(c, e) = Held(b, e) + a
    <2> DEFINE f == [g \in Holders |-> b[<<g, e>>]]
               k == [g \in Holders |-> c[<<g, e>>]]
    <2>1. Held(b, e) = SumOf(f, Holders) /\ Held(c, e) = SumOf(k, Holders)
      BY HeldIsSum
    <2>2. \A g \in Holders : f[g] = b[<<g, e>>] /\ k[g] = c[<<g, e>>]
      OBVIOUS
    <2>3. \A g \in Holders : f[g] \in Nat /\ k[g] \in Nat
      <3>1. \A g \in Holders : <<g, e>> \in Holders \X Denoms
        OBVIOUS
      <3> QED
        BY <2>2, <3>1 DEF Changes, Banks
    <2> HIDE DEF f, k
    <2>4. SumOf(f, Holders) \in Nat /\ SumOf(k, Holders) \in Nat
      BY <1>1, <2>3, SumNat
    <2>5. CASE e # d
      <3>1. \A g \in Holders : f[g] = k[g]
        BY <2>2, <2>5 DEF Changes
      <3>2. SumOf(f, Holders) = SumOf(k, Holders)
        BY <1>1, <3>1, SumCong
      <3> QED
        BY <2>1, <2>4, <2>5, <3>2
    <2>6. CASE e = d
      <3>1. /\ \A g \in Holders \ {h} : f[g] = k[g]
            /\ h \in Holders /\ k[h] = f[h] + a /\ a \in Int
        BY <2>2, <2>6 DEF Changes
      <3>2. \A g \in Holders : f[g] \in Int /\ k[g] \in Int
        BY <2>3
      <3>3. SumOf(k, Holders) = SumOf(f, Holders) + (k[h] - f[h])
        BY <1>1, <3>1, <3>2, SumUpdate
      <3>4. k[h] - f[h] = a
        BY <3>1, <3>2
      <3> QED
        BY <2>1, <2>4, <2>6, <3>3, <3>4
    <2> QED
      BY <2>5, <2>6
  <1>3. d \in Denoms
    BY DEF Changes
  <1> QED
    BY <1>2, <1>3

\* Coins that move from one holder to another.
LEMMA SendChanges ==
    ASSUME NEW b \in Banks, NEW from \in Holders, NEW to \in Holders, from # to,
           NEW d \in Denoms, NEW a \in Nat, b[<<from, d>>] >= a
    PROVE  /\ Send(b, from, to, d, a) \in Banks
           /\ Send(b, from, to, d, a)[<<from, d>>] = b[<<from, d>>] - a
           /\ Send(b, from, to, d, a)[<<to, d>>] = b[<<to, d>>] + a
           /\ \A g \in Holders, e \in Denoms : e # d =>
                  Send(b, from, to, d, a)[<<g, e>>] = b[<<g, e>>]
           /\ \A e \in Denoms : Held(Send(b, from, to, d, a), e) = Held(b, e)
  <1>1. PICK c : c = Burn(b, from, d, a)
    OBVIOUS
  <1>2. PICK z : z = Send(b, from, to, d, a)
    OBVIOUS
  <1>3. Changes(b, c, from, d, -a)
    BY <1>1, BurnChanges
  <1>4. c \in Banks
    BY <1>3 DEF Changes
  <1>5. Changes(c, z, to, d, a)
    BY <1>1, <1>2, <1>4, MintChanges DEF Send
  <1>6. z \in Banks
    BY <1>5 DEF Changes
  <1>7. b[<<from, d>>] \in Nat /\ b[<<to, d>>] \in Nat
    <2>1. <<from, d>> \in Holders \X Denoms /\ <<to, d>> \in Holders \X Denoms
      OBVIOUS
    <2> QED
      BY <2>1 DEF Banks
  <1>8. z[<<from, d>>] = b[<<from, d>>] - a /\ z[<<to, d>>] = b[<<to, d>>] + a
    BY <1>3, <1>5, <1>7 DEF Changes
  <1>9. \A g \in Holders, e \in Denoms : e # d => z[<<g, e>>] = b[<<g, e>>]
    BY <1>3, <1>5 DEF Changes
  <1>10. \A e \in Denoms : Held(z, e) = Held(b, e)
    <2>1. /\ Held(c, d) = Held(b, d) + (-a)
          /\ \A e \in Denoms : e # d => Held(c, e) = Held(b, e)
          /\ \A e \in Denoms : Held(b, e) \in Nat /\ Held(c, e) \in Nat
      BY <1>3, HeldChanges
    <2>2. /\ Held(z, d) = Held(c, d) + a
          /\ \A e \in Denoms : e # d => Held(z, e) = Held(c, e)
      BY <1>5, HeldChanges
    <2>3. Held(z, d) = Held(b, d)
      BY <2>1, <2>2
    <2> QED
      BY <2>1, <2>2, <2>3
  <1> QED
    BY <1>2, <1>6, <1>8, <1>9, <1>10

\* The same, of the holder that the coins leave.
Covers(b, h, d, a) == b[<<h, d>>] >= a

Leaves(b, c, h, d, a) ==
    /\ c \in Banks
    /\ c[<<h, d>>] = b[<<h, d>>] - a
    /\ \A g \in Holders, e \in Denoms : e # d => c[<<g, e>>] = b[<<g, e>>]
    /\ \A e \in Denoms : Held(c, e) = Held(b, e)

LEMMA SendLeaves ==
    ASSUME NEW b \in Banks, NEW from \in Holders, NEW to \in Holders, from # to,
           NEW d \in Denoms, NEW a \in Nat, Covers(b, from, d, a)
    PROVE  Leaves(b, Send(b, from, to, d, a), from, d, a)
  <1>1. PICK c : c = Burn(b, from, d, a)
    OBVIOUS
  <1>2. PICK z : z = Send(b, from, to, d, a)
    OBVIOUS
  <1>3. b[<<from, d>>] >= a
    BY DEF Covers
  <1>4. Changes(b, c, from, d, -a)
    BY <1>1, <1>3, BurnChanges
  <1>5. c \in Banks /\ b[<<from, d>>] \in Nat
    <2>1. <<from, d>> \in Holders \X Denoms
      OBVIOUS
    <2> QED
      BY <1>4, <2>1 DEF Changes, Banks
  <1>6. Changes(c, z, to, d, a)
    BY <1>1, <1>2, <1>5, MintChanges DEF Send
  <1>7. z[<<from, d>>] = b[<<from, d>>] - a
    BY <1>4, <1>5, <1>6 DEF Changes
  <1>8. /\ z \in Banks
        /\ \A g \in Holders, e \in Denoms : e # d => z[<<g, e>>] = b[<<g, e>>]
    BY <1>4, <1>6 DEF Changes
  <1>9. \A e \in Denoms : Held(z, e) = Held(b, e)
    <2>1. \A e \in Denoms : Held(Send(b, from, to, d, a), e) = Held(b, e)
      BY <1>3, SendChanges, ZenonT(60)
    <2> QED
      BY ONLY <1>2, <2>1
  <1> QED
    BY <1>2, <1>7, <1>8, <1>9 DEF Leaves

-----------------------------------------------------------------------------
(* The sums of the invariant, and what happens to them. *)

\* A sum over finitely many events of a log.
LEMMA SumOverFacts ==
    ASSUME NEW log, NEW S, Amounting(log, S), NEW kind, NEW t
    PROVE  /\ SumOver(log, S, kind, t) \in Nat
           /\ \A T \in SUBSET S : SumOver(log, T, kind, t) <= SumOver(log, S, kind, t)
  <1> DEFINE Of(T) == {i \in T : log[i].kind = kind /\ log[i].token = t}
  <1>1. Amounting(log, Of(S))
    <2>1. IsFiniteSet(Of(S))
      <3>1. Of(S) \subseteq S
        OBVIOUS
      <3> QED
        BY <3>1, FS_Subset DEF Amounting
    <2> QED
      BY <2>1 DEF Amounting
  <1>2. ASSUME NEW T \in SUBSET S
        PROVE  SumOver(log, T, kind, t) \in Nat
               /\ SumOver(log, S, kind, t) \in Nat
               /\ SumOver(log, T, kind, t) <= SumOver(log, S, kind, t)
    <2>1. Of(T) \in SUBSET Of(S)
      OBVIOUS
    <2>2. SumOver(log, T, kind, t) = Worth(log, Of(T))
          /\ SumOver(log, S, kind, t) = Worth(log, Of(S))
      BY DEF SumOver
    <2> HIDE DEF Of
    <2> QED
      BY <1>1, <2>1, <2>2, WorthSubset
  <1> QED
    BY <1>2

\* What one event adds to the sum over the events of a kind and a token.
Adds(e, kind, t) == IF e.kind = kind /\ e.token = t THEN e.amount ELSE 0

LEMMA SumOverWith ==
    ASSUME NEW log, NEW S, Amounting(log, S), NEW k, k \notin S,
           log[k].amount \in Nat, NEW kind, NEW t
    PROVE  SumOver(log, S \cup {k}, kind, t) =
               SumOver(log, S, kind, t) + Adds(log[k], kind, t)
  <1> DEFINE Of(T) == {i \in T : log[i].kind = kind /\ log[i].token = t}
  <1>1. Amounting(log, Of(S)) /\ k \notin Of(S)
    <2>1. IsFiniteSet(Of(S))
      <3>1. Of(S) \subseteq S
        OBVIOUS
      <3> QED
        BY <3>1, FS_Subset DEF Amounting
    <2> QED
      BY <2>1 DEF Amounting
  <1>2. SumOver(log, S, kind, t) = Worth(log, Of(S))
        /\ SumOver(log, S \cup {k}, kind, t) = Worth(log, Of(S \cup {k}))
    BY DEF SumOver
  <1>3. CASE log[k].kind = kind /\ log[k].token = t
    <2>1. Of(S \cup {k}) = Of(S) \cup {k}
      BY <1>3
    <2> HIDE DEF Of
    <2>2. Worth(log, Of(S) \cup {k}) = Worth(log, Of(S)) + log[k].amount
      BY <1>1, WorthWith
    <2> QED
      BY <1>2, <1>3, <2>1, <2>2 DEF Adds
  <1>4. CASE ~(log[k].kind = kind /\ log[k].token = t)
    <2>1. Of(S \cup {k}) = Of(S)
      BY <1>4
    <2> HIDE DEF Of
    <2>2. Worth(log, Of(S)) \in Nat
      BY <1>1, WorthSubset
    <2> QED
      BY <1>2, <1>4, <2>1, <2>2 DEF Adds
  <1> QED
    BY <1>3, <1>4

LEMMA SumOverSameLog ==
    ASSUME NEW log, NEW log2, NEW S, IsFiniteSet(S), \A i \in S : log[i] = log2[i],
           NEW kind, NEW t
    PROVE  SumOver(log, S, kind, t) = SumOver(log2, S, kind, t)
  <1> DEFINE Of == {i \in S : log[i].kind = kind /\ log[i].token = t}
             Of2 == {i \in S : log2[i].kind = kind /\ log2[i].token = t}
  <1>1. Of = Of2 /\ Of \subseteq S
    OBVIOUS
  <1>2. SumOver(log, S, kind, t) = Worth(log, Of)
        /\ SumOver(log2, S, kind, t) = Worth(log2, Of2)
    BY DEF SumOver
  <1> HIDE DEF Of, Of2
  <1>3. IsFiniteSet(Of) /\ \A i \in Of : log[i] = log2[i]
    BY <1>1, FS_Subset
  <1>4. Worth(log, Of) = Worth(log2, Of)
    BY <1>3, WorthOfSameLog
  <1> QED
    BY <1>1, <1>2, <1>4

\* The sums of the invariant are sums over the log.
LEMMA LedgerFacts ==
    ASSUME BInv
    PROVE  /\ \A t : Uncredited(t) = SumOver(events, Unobserved \cup failed, "deposit", t)
           /\ \A t : UnobservedRewards(t) = SumOver(events, Unobserved, "valset", t)
           /\ \A t : Uncredited(t) \in Nat /\ UnobservedRewards(t) \in Nat
           /\ Amounting(events, DOMAIN events)
           /\ DOMAIN events = 1..Len(events) /\ Len(events) \in Nat
           /\ lastObservedEventNonce \in 0..Len(events)
           /\ Unobserved \subseteq DOMAIN events /\ failed \subseteq DOMAIN events
           /\ Unobserved = Coming(Len(events))
           /\ \A k \in lastObservedEventNonce..Len(events) : Coming(k) \subseteq Unobserved
           /\ Unobserved \cap failed = {}
           /\ \A S \in SUBSET DOMAIN events : Amounting(events, S)
  <1>1. /\ DOMAIN events = 1..Len(events) /\ Len(events) \in Nat
        /\ \A i \in DOMAIN events : events[i] \in Events
    BY LogFacts DEF BInv, IInv
  <1>2. lastObservedEventNonce \in 0..Len(events)
    BY DEF BInv, IInv, ObservedPrefix
  <1>3. Amounting(events, DOMAIN events)
    BY <1>1, FS_Interval, EventFields DEF Amounting
  <1>4. /\ Unobserved \subseteq DOMAIN events /\ failed \subseteq DOMAIN events
        /\ Unobserved = Coming(Len(events))
        /\ \A k \in lastObservedEventNonce..Len(events) : Coming(k) \subseteq Unobserved
        /\ Unobserved \cap failed = {}
    BY <1>1, <1>2 DEF Unobserved, Coming, BInv, FailedWereObserved
  <1>5. \A S \in SUBSET DOMAIN events : Amounting(events, S)
    BY <1>3, FS_Subset DEF Amounting
  <1>6. /\ \A t : Uncredited(t) = SumOver(events, Unobserved \cup failed, "deposit", t)
        /\ \A t : UnobservedRewards(t) = SumOver(events, Unobserved, "valset", t)
    BY DEF Uncredited, UnobservedRewards, SumOver
  <1>7. Unobserved \cup failed \in SUBSET DOMAIN events /\ Unobserved \in SUBSET DOMAIN events
    BY <1>4
  <1>8. \A t : Uncredited(t) \in Nat /\ UnobservedRewards(t) \in Nat
    BY <1>5, <1>6, <1>7, SumOverFacts
  <1> QED
    BY <1>1, <1>2, <1>3, <1>4, <1>5, <1>6, <1>8

\* The sum of the open transfers of a token.
LEMMA OpenFacts ==
    ASSUME BInv, NEW t
    PROVE  /\ InFlight(t) \in SUBSET OutgoingTransferTx /\ IsFiniteSet(InFlight(t))
           /\ Total(InFlight(t)) \in Nat
  <1>1. InTransit \subseteq OutgoingTransferTx /\ IsFiniteSet(InTransit)
    BY TransitFacts DEF BInv, TransitIsFinite
  <1>2. InFlight(t) \subseteq InTransit
    BY InFlightIsOpen DEF Open
  <1>3. InFlight(t) \in SUBSET OutgoingTransferTx /\ IsFiniteSet(InFlight(t))
    BY <1>1, <1>2, FS_Subset
  <1> QED
    BY <1>3, TotalWithout

LEMMA OpenedTransfer ==
    ASSUME BInv, NEW tx \in OutgoingTransferTx, tx \notin Open, Open' = Open \cup {tx},
           NEW t
    PROVE  Total(InFlight(t))' = Total(InFlight(t))
               + (IF tx.token = t THEN tx.amount + tx.fee ELSE 0)
  <1>1. InFlight(t) = {x \in Open : x.token = t} /\ InFlight(t)' = {x \in Open' : x.token = t}
    BY InFlightIsOpen DEF InFlight, Open, InTransit, Paid
  <1>2. CASE tx.token = t
    <2>1. InFlight(t)' = InFlight(t) \cup {tx} /\ tx \notin InFlight(t)
      BY <1>1, <1>2
    <2>2. Total(InFlight(t) \cup {tx}) = Total(InFlight(t)) + (tx.amount + tx.fee)
      BY <2>1, OpenFacts, TotalWith
    <2> QED
      BY <1>2, <2>1, <2>2
  <1>3. CASE tx.token # t
    <2>1. InFlight(t)' = InFlight(t)
      BY <1>1, <1>3
    <2> QED
      BY <1>3, <2>1, OpenFacts
  <1> QED
    BY <1>2, <1>3

LEMMA ClosedTransfers ==
    ASSUME BInv, NEW T \in SUBSET Open, Open' = Open \ T,
           NEW u, \A x \in T : x.token = u, NEW t
    PROVE  /\ Total(T) \in Nat
           /\ Total(InFlight(t)) = Total(InFlight(t))' + (IF t = u THEN Total(T) ELSE 0)
           /\ Total(InFlight(t))' \in Nat
  <1>1. InFlight(t) = {x \in Open : x.token = t} /\ InFlight(t)' = {x \in Open' : x.token = t}
    BY InFlightIsOpen DEF InFlight, Open, InTransit, Paid
  <1>2. CASE t = u
    <2>1. InFlight(t)' = InFlight(t) \ T /\ T \in SUBSET InFlight(t)
      BY <1>1, <1>2
    <2>2. /\ Total(InFlight(t)) = Total(InFlight(t) \ T) + Total(T)
          /\ Total(T) \in Nat /\ Total(InFlight(t) \ T) \in Nat
      BY <2>1, OpenFacts, TotalWithout
    <2> QED
      BY <1>2, <2>1, <2>2
  <1>3. CASE t # u
    <2>1. InFlight(t)' = InFlight(t)
      BY <1>1, <1>3
    <2>2. T \in SUBSET InFlight(u)
      <3>1. InFlight(u) = {x \in Open : x.token = u}
        BY InFlightIsOpen
      <3> QED
        BY <3>1
    <2>3. Total(T) \in Nat
      BY <2>2, OpenFacts, TotalWithout
    <2> QED
      BY <1>3, <2>1, <2>3, OpenFacts
  <1> QED
    BY <1>2, <1>3

-----------------------------------------------------------------------------
(* Every step keeps the invariant. *)

LEMMA DenomFacts ==
    /\ \A t \in Tokens : Voucher(t) \in Denoms /\ Native(t) \in Denoms
    /\ \A t, u : Voucher(t) # Native(u)
    /\ \A t, u : Voucher(t) = Voucher(u) => t = u
    /\ \A t, u : Native(t) = Native(u) => t = u
    /\ \A d \in Denoms :
           /\ d[2] \in Tokens
           /\ \/ d[1] = "voucher" /\ d = Voucher(d[2])
              \/ d[1] # "voucher" /\ d = Native(d[2])
  BY DEF Denoms, Voucher, Native

\* A step that leaves the log alone, and what Cosmos has observed of it.
LEMMA LogKept ==
    ASSUME BInv, events' = events, failed' = failed,
           lastObservedEventNonce' = lastObservedEventNonce
    PROVE  /\ \A t : Uncredited(t)' = Uncredited(t)
           /\ \A t : UnobservedRewards(t)' = UnobservedRewards(t)
           /\ \A k : Coming(k)' = Coming(k)
           /\ FailedWereObserved' /\ DepositsAreCredited'
  <1>1. /\ \A t : Uncredited(t)' = Uncredited(t)
        /\ \A t : UnobservedRewards(t)' = UnobservedRewards(t)
    BY DEF Uncredited, UnobservedRewards, Unobserved
  <1>2. \A k : Coming(k)' = Coming(k)
    BY DEF Coming
  <1>3. FailedWereObserved' /\ DepositsAreCredited'
    BY DEF BInv, FailedWereObserved, DepositsAreCredited
  <1> QED
    BY <1>1, <1>2, <1>3

\* A step that moves no money.
LEMMA NoMoneyMoves ==
    ASSUME BInv, IInv', bank' = bank, escrow' = escrow, ethUsers' = ethUsers,
           events' = events, failed' = failed, cosmosOriginated' = cosmosOriginated,
           lastObservedEventNonce' = lastObservedEventNonce,
           InTransit' = InTransit, Open' = Open,
           \A b \in checkpoints' :
               /\ \A x \in b.txs : x.token = b.token
               /\ b.token \in CosmosTokens => b.token \in cosmosOriginated
    PROVE  BInv'
  <1>1. MoneyTypeOK' /\ TransitIsFinite' /\ NoVouchersOfCosmosTokens'
    BY DEF BInv, MoneyTypeOK, TransitIsFinite, NoVouchersOfCosmosTokens
  <1>2. TokensAreKnown'
    BY DEF BInv, TokensAreKnown
  <1>3. \A t : InFlight(t)' = InFlight(t)
    <2>1. \A t : InFlight(t) = {x \in Open : x.token = t}
      BY InFlightIsOpen
    <2>2. \A t : InFlight(t)' = {x \in Open' : x.token = t}
      BY DEF InFlight, Open, InTransit, Paid
    <2> QED
      BY <2>1, <2>2
  <1>4. FullyBacked'
    BY <1>3, LogKept DEF BInv, FullyBacked, Supply
  <1>5. Solvent'
    BY LogKept DEF BInv, Solvent
  <1> QED
    BY <1>1, <1>2, <1>4, <1>5, LogKept DEF BInv

LEMMA SendToEthBInv ==
    ASSUME BInv, IInv', NEW a \in Accounts, NEW d \in Denoms, NEW amount \in Amounts,
           NEW fee \in Fees, SendToEth(a, d, amount, fee), UNCHANGED contractVars
    PROVE  BInv'
  <1> DEFINE c == amount + fee
  <1>1. PICK tx : tx = [id |-> nextTXID, sender |-> a, token |-> d[2],
                        amount |-> amount, fee |-> fee]
    OBVIOUS
  <1>2. IInv
    BY DEF BInv
  <1>3. /\ tx \notin InTransit /\ InTransit' = InTransit \cup {tx}
        /\ Open' = Open \cup {tx}
    BY <1>1, <1>2, SendToEthOpens
  <1>4. /\ amount \in Nat /\ amount > 0 /\ fee \in Nat /\ c \in Nat /\ c > 0
    BY BridgeAssumption
  <1>5. /\ tx \in OutgoingTransferTx /\ tx \notin Open
        /\ tx.token = d[2] /\ tx.amount = amount /\ tx.fee = fee
    <2>1. d[2] \in Tokens /\ nextTXID \in Nat
      BY <1>2, DenomFacts, TransitFacts
    <2> QED
      BY <1>1, <1>3, <1>4, <2>1 DEF OutgoingTransferTx, Open
  <1>6. /\ events' = events /\ failed' = failed /\ escrow' = escrow
        /\ ethUsers' = ethUsers /\ cosmosOriginated' = cosmosOriginated
        /\ lastObservedEventNonce' = lastObservedEventNonce
        /\ checkpoints' = checkpoints
        /\ HasERC20(d) /\ bank[<<a, d>>] >= c
        /\ bank' = IF d[1] = "voucher" THEN Burn(bank, a, d, c)
                   ELSE Send(bank, a, Module, d, c)
    BY DEF SendToEth, AddToOutgoingPool, chainVars, contractVars
  <1>7. /\ bank \in Banks /\ a \in Holders /\ Module \in Holders /\ a # Module
        /\ cosmosOriginated \subseteq CosmosTokens
    BY <1>2, BridgeDataAssumption
        DEF BInv, MoneyTypeOK, Banks, Holders, IInv, TypeOK, KeeperTypeOK
  <1>8. \A t : Total(InFlight(t))' = Total(InFlight(t)) + (IF d[2] = t THEN c ELSE 0)
    BY <1>3, <1>5, OpenedTransfer
  <1>9. \A t \in Tokens : /\ Total(InFlight(t)) \in Nat
                          /\ Uncredited(t) \in Nat /\ UnobservedRewards(t) \in Nat
                          /\ escrow[t] \in Nat /\ ethUsers[t] \in Nat
                          /\ bank[<<Module, Native(t)>>] \in Nat
    BY <1>7, OpenFacts, LedgerFacts, DenomFacts DEF BInv, MoneyTypeOK, Banks
  <1>10. /\ \A t : Uncredited(t)' = Uncredited(t)
         /\ \A t : UnobservedRewards(t)' = UnobservedRewards(t)
         /\ \A k : Coming(k)' = Coming(k)
         /\ FailedWereObserved' /\ DepositsAreCredited'
    BY <1>6, LogKept
  <1>11. TransitIsFinite'
    BY <1>3, FS_AddElement DEF BInv, TransitIsFinite
  <1> HIDE DEF c
  <1>12. CASE d[1] = "voucher"
    <2>1. d = Voucher(d[2])
      BY <1>12, DenomFacts
    <2>2. Changes(bank, bank', a, d, -c)
      BY <1>4, <1>6, <1>7, <1>12, BurnChanges
    <2>3. d[2] \notin CosmosTokens
      <3>1. d[2] \in CosmosTokens => bank[<<a, d>>] = 0
        BY <1>7, <2>1 DEF BInv, NoVouchersOfCosmosTokens
      <3> QED
        BY <1>4, <1>6, <3>1
    <2>4. MoneyTypeOK'
      BY <1>6, <2>2 DEF Changes, Banks, BInv, MoneyTypeOK
    <2>5. TokensAreKnown'
      BY <1>3, <1>4, <1>5, <1>6, <2>3 DEF BInv, TokensAreKnown
    <2>6. \A h \in Holders, t \in CosmosTokens :
              /\ bank'[<<h, Voucher(t)>>] = bank[<<h, Voucher(t)>>]
              /\ bank'[<<h, Native(t)>>] = bank[<<h, Native(t)>>]
      <3>1. ASSUME NEW h \in Holders, NEW t \in CosmosTokens
            PROVE  Voucher(t) \in Denoms /\ Native(t) \in Denoms
                   /\ Voucher(t) # d /\ Native(t) # d
        BY <2>1, <2>3, DenomFacts DEF Tokens
      <3> QED
        BY <2>2, <3>1 DEF Changes
    <2>7. NoVouchersOfCosmosTokens'
      BY <2>6 DEF BInv, NoVouchersOfCosmosTokens
    <2>8. Solvent'
      BY <1>6, <1>7, <1>10, <2>6 DEF BInv, Solvent
    <2>9. ASSUME NEW t \in EthereumTokens \ PermanentSwap
          PROVE  escrow[t] = Held(bank', Voucher(t)) + Total(InFlight(t))' + Uncredited(t)
      <3>1. escrow[t] = Held(bank, Voucher(t)) + Total(InFlight(t)) + Uncredited(t)
        BY DEF BInv, FullyBacked, Supply
      <3>2. /\ Voucher(t) \in Denoms /\ t \in Tokens
            /\ t # d[2] => Voucher(t) # d
            /\ t = d[2] => Voucher(t) = d
        BY <2>1, DenomFacts DEF Tokens
      <3>3. /\ Held(bank', d) = Held(bank, d) + (-c)
            /\ Voucher(t) # d => Held(bank', Voucher(t)) = Held(bank, Voucher(t))
            /\ Held(bank, Voucher(t)) \in Nat
        BY <2>2, <3>2, HeldChanges
      <3>4. Held(bank', Voucher(t)) = Held(bank, Voucher(t)) - (IF d[2] = t THEN c ELSE 0)
        <4>1. CASE d[2] = t
          BY <1>4, <3>2, <3>3, <4>1
        <4>2. CASE d[2] # t
          BY <1>4, <3>2, <3>3, <4>2
        <4> QED
          BY <4>1, <4>2
      <3>5. Total(InFlight(t))' = Total(InFlight(t)) + (IF d[2] = t THEN c ELSE 0)
        BY <1>8
      <3>6. Total(InFlight(t)) \in Nat /\ Uncredited(t) \in Nat
        BY <1>9, <3>2
      <3> QED
        BY <1>4, <3>1, <3>3, <3>4, <3>5, <3>6
    <2>10. ASSUME NEW t \in CosmosTokens
           PROVE  bank'[<<Module, Native(t)>>] + UnobservedRewards(t) =
                      ethUsers[t] + Total(InFlight(t))' + Uncredited(t)
      <3>1. bank[<<Module, Native(t)>>] + UnobservedRewards(t) =
                ethUsers[t] + Total(InFlight(t)) + Uncredited(t)
        BY DEF BInv, FullyBacked
      <3>2. t # d[2] /\ t \in Tokens
        BY <2>3 DEF Tokens
      <3>3. Total(InFlight(t))' = Total(InFlight(t)) + (IF d[2] = t THEN c ELSE 0)
        BY <1>8
      <3>4. Total(InFlight(t)) \in Nat
        BY <1>9, <3>2
      <3>5. Total(InFlight(t))' = Total(InFlight(t))
        BY <3>2, <3>3, <3>4
      <3> QED
        BY <1>4, <1>7, <1>9, <2>6, <3>1, <3>2, <3>4, <3>5
    <2>11. FullyBacked'
      BY <1>6, <1>10, <2>9, <2>10 DEF FullyBacked, Supply
    <2> QED
      BY <1>10, <1>11, <2>4, <2>5, <2>7, <2>8, <2>11 DEF BInv
  <1>13. CASE d[1] # "voucher"
    <2>1. d = Native(d[2]) /\ d[2] \in cosmosOriginated
      BY <1>6, <1>13, DenomFacts DEF HasERC20
    <2>2. /\ bank' \in Banks
          /\ bank'[<<Module, d>>] = bank[<<Module, d>>] + c
          /\ \A g \in Holders, e \in Denoms : e # d => bank'[<<g, e>>] = bank[<<g, e>>]
          /\ \A e \in Denoms : Held(bank', e) = Held(bank, e)
      <3>1. bank' = Send(bank, a, Module, d, c)
        BY <1>6, <1>13
      <3> QED
        BY <1>4, <1>6, <1>7, <3>1, SendChanges
    <2>3. d[2] \in CosmosTokens /\ d[2] \notin EthereumTokens
      BY <1>7, <2>1, BridgeDataAssumption
    <2>4. MoneyTypeOK'
      BY <1>6, <2>2 DEF Banks, BInv, MoneyTypeOK
    <2>5. TokensAreKnown'
      BY <1>3, <1>4, <1>5, <1>6, <2>1 DEF BInv, TokensAreKnown
    <2>6. ASSUME NEW t \in CosmosTokens
          PROVE  /\ \A h \in Holders : bank'[<<h, Voucher(t)>>] = bank[<<h, Voucher(t)>>]
                 /\ bank'[<<Module, Native(t)>>] =
                        bank[<<Module, Native(t)>>] + (IF d[2] = t THEN c ELSE 0)
      <3>1. /\ Voucher(t) \in Denoms /\ Native(t) \in Denoms /\ t \in Tokens
            /\ Voucher(t) # d
            /\ t # d[2] => Native(t) # d
            /\ t = d[2] => Native(t) = d
        BY <2>1, DenomFacts DEF Tokens
      <3> QED
        BY <1>7, <1>9, <2>2, <3>1
    <2>7. NoVouchersOfCosmosTokens'
      BY <2>6 DEF BInv, NoVouchersOfCosmosTokens
    <2>8. Solvent'
      <3> SUFFICES ASSUME NEW t \in CosmosTokens,
                          NEW k \in lastObservedEventNonce..Len(events)
                   PROVE  SumOver(events, Coming(k), "deposit", t) <=
                              bank'[<<Module, Native(t)>>]
                                  + SumOver(events, Coming(k), "valset", t)
        BY <1>6, <1>10 DEF Solvent
      <3>1. SumOver(events, Coming(k), "deposit", t) <=
                bank[<<Module, Native(t)>>] + SumOver(events, Coming(k), "valset", t)
        BY DEF BInv, Solvent
      <3>2. Amounting(events, Coming(k))
        <4>1. Coming(k) \in SUBSET DOMAIN events
          BY LedgerFacts
        <4> QED
          BY <4>1, LedgerFacts
      <3>3. /\ SumOver(events, Coming(k), "deposit", t) \in Nat
            /\ SumOver(events, Coming(k), "valset", t) \in Nat
        BY <3>2, SumOverFacts
      <3>4. bank[<<Module, Native(t)>>] \in Nat
        BY <1>9 DEF Tokens
      <3> QED
        BY <1>4, <2>6, <3>1, <3>3, <3>4
    <2>9. ASSUME NEW t \in EthereumTokens \ PermanentSwap
          PROVE  escrow[t] = Held(bank', Voucher(t)) + Total(InFlight(t))' + Uncredited(t)
      <3>1. escrow[t] = Held(bank, Voucher(t)) + Total(InFlight(t)) + Uncredited(t)
        BY DEF BInv, FullyBacked, Supply
      <3>2. Voucher(t) \in Denoms /\ t \in Tokens /\ t # d[2]
        BY <2>3, DenomFacts DEF Tokens
      <3>3. Total(InFlight(t))' = Total(InFlight(t)) + (IF d[2] = t THEN c ELSE 0)
        BY <1>8
      <3>4. Total(InFlight(t)) \in Nat
        BY <1>9, <3>2
      <3>5. Total(InFlight(t))' = Total(InFlight(t))
        BY <3>2, <3>3, <3>4
      <3> QED
        BY <1>4, <1>9, <2>2, <3>1, <3>2, <3>4, <3>5
    <2>10. ASSUME NEW t \in CosmosTokens
           PROVE  bank'[<<Module, Native(t)>>] + UnobservedRewards(t) =
                      ethUsers[t] + Total(InFlight(t))' + Uncredited(t)
      <3>1. bank[<<Module, Native(t)>>] + UnobservedRewards(t) =
                ethUsers[t] + Total(InFlight(t)) + Uncredited(t)
        BY DEF BInv, FullyBacked
      <3>2. t \in Tokens
        BY DEF Tokens
      <3> QED
        BY <1>4, <1>8, <1>9, <2>6, <3>1, <3>2
    <2>11. FullyBacked'
      BY <1>6, <1>10, <2>9, <2>10 DEF FullyBacked, Supply
    <2> QED
      BY <1>10, <1>11, <2>4, <2>5, <2>7, <2>8, <2>11 DEF BInv
  <1> QED
    BY <1>12, <1>13

\* CancelSendToEth refunds vouchers of Ethereum tokens only: the module account
\* has no vouchers of Cosmos tokens to refund.
LEMMA CancelSendToEthBInv ==
    ASSUME BInv, IInv', NEW a \in Accounts, NEW tx \in pool, CancelSendToEth(a, tx),
           UNCHANGED contractVars
    PROVE  BInv'
  <1> DEFINE c == tx.amount + tx.fee
             d == Voucher(tx.token)
  <1>1. IInv
    BY DEF BInv
  <1>2. /\ tx \in Open /\ InTransit' = InTransit \ {tx} /\ Open' = Open \ {tx}
    BY <1>1, CancelSendToEthCloses
  <1>3. /\ tx \in OutgoingTransferTx /\ tx.amount \in Nat /\ tx.fee \in Nat
        /\ tx.token \in Tokens /\ tx.amount > 0 /\ c \in Nat /\ c > 0
        /\ tx.token \in CosmosTokens => tx.token \in cosmosOriginated
    <2>1. tx \in InTransit
      BY <1>2 DEF Open
    <2>2. /\ tx \in OutgoingTransferTx /\ tx.amount > 0
          /\ tx.token \in CosmosTokens => tx.token \in cosmosOriginated
      BY <1>1, <2>1, TransitFacts DEF BInv, TokensAreKnown
    <2> QED
      BY <2>2 DEF OutgoingTransferTx
  <1>4. /\ events' = events /\ failed' = failed /\ escrow' = escrow
        /\ ethUsers' = ethUsers /\ cosmosOriginated' = cosmosOriginated
        /\ lastObservedEventNonce' = lastObservedEventNonce
        /\ checkpoints' = checkpoints
        /\ tx.token \in cosmosOriginated => bank[<<Module, d>>] >= c
        /\ bank' = IF tx.token \in cosmosOriginated
                   THEN Send(bank, Module, a, d, c) ELSE Mint(bank, a, d, c)
    BY DEF CancelSendToEth, RemoveFromOutgoingPoolAndRefund, RefundDenom, RefundTotal,
           chainVars, contractVars
  <1>5. /\ bank \in Banks /\ a \in Holders /\ Module \in Holders
        /\ cosmosOriginated \subseteq CosmosTokens
    BY <1>1 DEF BInv, MoneyTypeOK, Banks, Holders, IInv, TypeOK, KeeperTypeOK
  <1>6. tx.token \notin CosmosTokens /\ tx.token \notin cosmosOriginated
    <2>1. tx.token \in CosmosTokens => bank[<<Module, d>>] = 0
      BY <1>5 DEF BInv, NoVouchersOfCosmosTokens
    <2> QED
      BY <1>3, <1>4, <1>5, <2>1
  <1>7. Changes(bank, bank', a, d, c)
    BY <1>3, <1>4, <1>5, <1>6, MintChanges, DenomFacts
  <1>8. \A t : /\ Total(InFlight(t)) = Total(InFlight(t))' + (IF t = tx.token THEN c ELSE 0)
               /\ Total(InFlight(t))' \in Nat
    <2>1. {tx} \in SUBSET Open /\ \A x \in {tx} : x.token = tx.token
      BY <1>2
    <2>2. Total({tx}) = c
      BY <1>3, TotalOfOne
    <2> QED
      BY <1>2, <2>1, <2>2, ClosedTransfers
  <1> HIDE DEF c, d
  <1>9. \A t \in Tokens : /\ Uncredited(t) \in Nat /\ UnobservedRewards(t) \in Nat
                          /\ Total(InFlight(t)) \in Nat
    BY LedgerFacts, OpenFacts
  <1>10. /\ \A t : Uncredited(t)' = Uncredited(t)
         /\ \A t : UnobservedRewards(t)' = UnobservedRewards(t)
         /\ \A k : Coming(k)' = Coming(k)
         /\ FailedWereObserved' /\ DepositsAreCredited'
    BY <1>4, LogKept
  <1>11. TransitIsFinite'
    BY <1>2, FS_Subset DEF BInv, TransitIsFinite
  <1>12. MoneyTypeOK'
    BY <1>4, <1>7 DEF Changes, Banks, BInv, MoneyTypeOK
  <1>13. TokensAreKnown'
    BY <1>2, <1>4 DEF BInv, TokensAreKnown
  <1>14. \A h \in Holders, t \in CosmosTokens :
             /\ bank'[<<h, Voucher(t)>>] = bank[<<h, Voucher(t)>>]
             /\ bank'[<<h, Native(t)>>] = bank[<<h, Native(t)>>]
    <2>1. ASSUME NEW h \in Holders, NEW t \in CosmosTokens
          PROVE  Voucher(t) \in Denoms /\ Native(t) \in Denoms
                 /\ Voucher(t) # d /\ Native(t) # d
      BY <1>6, DenomFacts DEF Tokens, d
    <2> QED
      BY <1>7, <2>1 DEF Changes
  <1>15. NoVouchersOfCosmosTokens'
    BY <1>14 DEF BInv, NoVouchersOfCosmosTokens
  <1>16. Solvent'
    BY <1>4, <1>5, <1>10, <1>14 DEF BInv, Solvent
  <1>17. ASSUME NEW t \in EthereumTokens \ PermanentSwap
         PROVE  escrow[t] = Held(bank', Voucher(t)) + Total(InFlight(t))' + Uncredited(t)
    <2>1. escrow[t] = Held(bank, Voucher(t)) + Total(InFlight(t)) + Uncredited(t)
      BY DEF BInv, FullyBacked, Supply
    <2>2. /\ Voucher(t) \in Denoms /\ t \in Tokens
          /\ t # tx.token => Voucher(t) # d
          /\ t = tx.token => Voucher(t) = d
      BY DenomFacts DEF Tokens, d
    <2>3. /\ Held(bank', d) = Held(bank, d) + c
          /\ Voucher(t) # d => Held(bank', Voucher(t)) = Held(bank, Voucher(t))
          /\ Held(bank, Voucher(t)) \in Nat
      BY <1>7, <2>2, HeldChanges
    <2>4. Held(bank', Voucher(t)) = Held(bank, Voucher(t)) + (IF t = tx.token THEN c ELSE 0)
      <3>1. CASE t = tx.token
        BY <1>3, <2>2, <2>3, <3>1
      <3>2. CASE t # tx.token
        BY <1>3, <2>2, <2>3, <3>2
      <3> QED
        BY <3>1, <3>2
    <2>5. /\ Total(InFlight(t)) = Total(InFlight(t))' + (IF t = tx.token THEN c ELSE 0)
          /\ Total(InFlight(t))' \in Nat /\ Uncredited(t) \in Nat
      BY <1>8, <1>9, <2>2
    <2> QED
      BY <1>3, <2>1, <2>3, <2>4, <2>5
  <1>18. ASSUME NEW t \in CosmosTokens
         PROVE  bank'[<<Module, Native(t)>>] + UnobservedRewards(t) =
                    ethUsers[t] + Total(InFlight(t))' + Uncredited(t)
    <2>1. bank[<<Module, Native(t)>>] + UnobservedRewards(t) =
              ethUsers[t] + Total(InFlight(t)) + Uncredited(t)
      BY DEF BInv, FullyBacked
    <2>2. t # tx.token
      BY <1>6
    <2>3. Total(InFlight(t))' = Total(InFlight(t))
      BY <1>8, <2>2
    <2> QED
      BY <1>5, <1>14, <2>1, <2>3
  <1>19. FullyBacked'
    BY <1>4, <1>10, <1>17, <1>18 DEF FullyBacked, Supply
  <1> QED
    BY <1>10, <1>11, <1>12, <1>13, <1>15, <1>16, <1>19 DEF BInv

\* The other steps of Cosmos move no money.
LEMMA CosmosBInv ==
    ASSUME BInv, IInv', Cosmos
    PROVE  BInv'
  <1>1. IInv /\ UNCHANGED contractVars
    BY DEF BInv, Cosmos
  <1>2. /\ events' = events /\ escrow' = escrow /\ ethUsers' = ethUsers
    BY <1>1 DEF contractVars
  <1>3. CASE \E a \in Accounts, d \in Denoms, x \in Amounts, f \in Fees :
                 SendToEth(a, d, x, f)
    BY <1>1, <1>3, SendToEthBInv
  <1>4. CASE \E a \in Accounts, tx \in pool : CancelSendToEth(a, tx)
    BY <1>1, <1>4, CancelSendToEthBInv
  <1>5. ASSUME NEW t \in Tokens, NEW txs \in SUBSET pool, RequestBatch(t, txs)
        PROVE  BInv'
    <2> DEFINE b == [nonce |-> nextBatchID, token |-> t, txs |-> txs,
                     timeout |-> getBatchTimeoutHeight]
    <2>1. /\ bank' = bank /\ failed' = failed /\ cosmosOriginated' = cosmosOriginated
          /\ lastObservedEventNonce' = lastObservedEventNonce
          /\ checkpoints' = checkpoints \cup {b}
          /\ \A x \in txs : x.token = t
          /\ t \in CosmosTokens => t \in cosmosOriginated
      BY <1>5 DEF RequestBatch, BuildOutgoingTXBatch, IsFirstOfPool, PoolOf, chainVars
    <2>2. InTransit' = InTransit /\ Open' = Open
      BY <1>1, <1>5, RequestBatchMoves
    <2>3. b.token = t /\ b.txs = txs
      OBVIOUS
    <2> HIDE DEF b
    <2>4. \A c \in checkpoints' :
              /\ \A x \in c.txs : x.token = c.token
              /\ c.token \in CosmosTokens => c.token \in cosmosOriginated
      BY <2>1, <2>3 DEF BInv, TokensAreKnown
    <2> QED
      BY <1>2, <2>1, <2>2, <2>4, NoMoneyMoves
  <1>6. CASE BeginEndBlock
    <2>1. /\ bank' = bank /\ failed' = failed /\ cosmosOriginated' = cosmosOriginated
          /\ lastObservedEventNonce' = lastObservedEventNonce
          /\ checkpoints' = checkpoints /\ pool' = pool /\ batches' = batches
      BY <1>6 DEF BeginEndBlock, poolVars
    <2>2. InTransit' = InTransit /\ Open' = Open
      BY <1>2, <2>1 DEF InTransit, Open, Paid, PaidBy, Executes
    <2>3. \A c \in checkpoints' :
              /\ \A x \in c.txs : x.token = c.token
              /\ c.token \in CosmosTokens => c.token \in cosmosOriginated
      BY <2>1 DEF BInv, TokensAreKnown
    <2> QED
      BY <1>2, <2>1, <2>2, <2>3, NoMoneyMoves
  <1>7. CASE FinishEndBlock
    <2>1. /\ bank' = bank /\ failed' = failed /\ cosmosOriginated' = cosmosOriginated
          /\ lastObservedEventNonce' = lastObservedEventNonce
          /\ checkpoints' = checkpoints
      BY <1>7 DEF FinishEndBlock
    <2>2. InTransit' = InTransit /\ Open' = Open
      BY <1>1, <1>7, FinishEndBlockMoves
    <2>3. \A c \in checkpoints' :
              /\ \A x \in c.txs : x.token = c.token
              /\ c.token \in CosmosTokens => c.token \in cosmosOriginated
      BY <2>1 DEF BInv, TokensAreKnown
    <2> QED
      BY <1>2, <2>1, <2>2, <2>3, NoMoneyMoves
  <1> QED
    BY <1>3, <1>4, <1>5, <1>6, <1>7 DEF Cosmos

\* An event that the contract emits is added to the sums of what Cosmos has
\* yet to observe.
LEMMA EmittedSums ==
    ASSUME BInv, NEW e \in Events, events' = Append(events, e), failed' = failed,
           lastObservedEventNonce' = lastObservedEventNonce
    PROVE  /\ \A t : Uncredited(t)' = Uncredited(t) + Adds(e, "deposit", t)
           /\ \A t : UnobservedRewards(t)' = UnobservedRewards(t) + Adds(e, "valset", t)
           /\ \A k : Coming(k)' = Coming(k)
           /\ Len(events') = Len(events) + 1
           /\ \A kind, t : \A k \in lastObservedEventNonce..Len(events) :
                  SumOver(events', Coming(k), kind, t) = SumOver(events, Coming(k), kind, t)
           /\ \A kind, t :
                  SumOver(events', Coming(Len(events) + 1), kind, t) =
                      SumOver(events, Coming(Len(events)), kind, t) + Adds(e, kind, t)
           /\ FailedWereObserved' /\ DepositsAreCredited'
  <1> DEFINE new == Len(events) + 1
  <1>1. events \in Seq(Events)
    BY LogFacts DEF BInv, IInv
  <1>2. /\ Len(events) \in Nat /\ DOMAIN events = 1..Len(events)
        /\ Len(events') = new /\ DOMAIN events' = 1..new
        /\ \A i \in DOMAIN events : events'[i] = events[i]
        /\ events'[new] = e
    BY <1>1, AppendFacts
  <1>3. DOMAIN events' = DOMAIN events \cup {new} /\ new \notin DOMAIN events
    BY <1>2
  <1>4. ASSUME NEW S \in SUBSET DOMAIN events, NEW kind, NEW t
        PROVE  /\ SumOver(events', S, kind, t) = SumOver(events, S, kind, t)
               /\ SumOver(events', S \cup {new}, kind, t) =
                      SumOver(events, S, kind, t) + Adds(e, kind, t)
    <2>1. Amounting(events, S)
      BY LedgerFacts
    <2>2. Amounting(events', S)
      BY <1>2, <2>1 DEF Amounting
    <2>3. SumOver(events', S, kind, t) = SumOver(events, S, kind, t)
      <3>1. PICK log : log = events'
        OBVIOUS
      <3>2. \A i \in S : log[i] = events[i]
        BY <1>2, <3>1
      <3>3. IsFiniteSet(S)
        BY <2>1 DEF Amounting
      <3>4. SumOver(log, S, kind, t) = SumOver(events, S, kind, t)
        BY <3>2, <3>3, SumOverSameLog
      <3> QED
        BY <3>1, <3>4
    <2>4. e.amount \in Nat
      BY EventFields
    <2> HIDE DEF new
    <2>5. new \notin S
      BY <1>3
    <2>6. events'[new].amount \in Nat
      BY <1>2, <2>4
    <2>7. SumOver(events', S \cup {new}, kind, t) =
              SumOver(events', S, kind, t) + Adds(e, kind, t)
      <3>1. PICK log : log = events'
        OBVIOUS
      <3>2. Amounting(log, S) /\ log[new].amount \in Nat
        BY <2>2, <2>6, <3>1
      <3>3. SumOver(log, S \cup {new}, kind, t) =
                SumOver(log, S, kind, t) + Adds(log[new], kind, t)
        BY <2>5, <3>2, SumOverWith
      <3> QED
        BY <1>2, <3>1, <3>3
    <2> QED
      BY <2>3, <2>7
  <1>5. /\ lastObservedEventNonce \in 0..Len(events)
        /\ Unobserved \subseteq DOMAIN events /\ failed \subseteq DOMAIN events
        /\ \A k \in lastObservedEventNonce..Len(events) : Coming(k) \subseteq Unobserved
    BY LedgerFacts
  <1>6. Unobserved' = Unobserved \cup {new}
    BY <1>2, <1>3, <1>5 DEF Unobserved
  <1>7. ASSUME NEW t
        PROVE  Uncredited(t)' = Uncredited(t) + Adds(e, "deposit", t)
    <2>1. Uncredited(t)' = SumOver(events', Unobserved' \cup failed, "deposit", t)
      BY DEF Uncredited, SumOver
    <2>2. Uncredited(t) = SumOver(events, Unobserved \cup failed, "deposit", t)
      BY LedgerFacts
    <2> HIDE DEF new
    <2>3. Unobserved' \cup failed = (Unobserved \cup failed) \cup {new}
      BY <1>6
    <2>4. Unobserved \cup failed \in SUBSET DOMAIN events
      BY <1>5
    <2>5. SumOver(events', (Unobserved \cup failed) \cup {new}, "deposit", t) =
              SumOver(events, Unobserved \cup failed, "deposit", t) + Adds(e, "deposit", t)
      BY <1>4, <2>4
    <2> QED
      BY <2>1, <2>2, <2>3, <2>5
  <1>8. ASSUME NEW t
        PROVE  UnobservedRewards(t)' = UnobservedRewards(t) + Adds(e, "valset", t)
    <2>1. UnobservedRewards(t)' = SumOver(events', Unobserved', "valset", t)
      BY DEF UnobservedRewards, SumOver
    <2>2. UnobservedRewards(t) = SumOver(events, Unobserved, "valset", t)
      BY LedgerFacts
    <2> HIDE DEF new
    <2>3. SumOver(events', Unobserved \cup {new}, "valset", t) =
              SumOver(events, Unobserved, "valset", t) + Adds(e, "valset", t)
      BY <1>4, <1>5
    <2> QED
      BY <1>6, <2>1, <2>2, <2>3
  <1>9. \A k : Coming(k)' = Coming(k)
    BY DEF Coming
  <1>10. ASSUME NEW kind, NEW t, NEW k \in lastObservedEventNonce..Len(events)
         PROVE  SumOver(events', Coming(k), kind, t) = SumOver(events, Coming(k), kind, t)
    <2>1. Coming(k) \in SUBSET DOMAIN events
      BY <1>5
    <2> QED
      BY <1>4, <2>1, ZenonT(60)
  <1>11. ASSUME NEW kind, NEW t
         PROVE  SumOver(events', Coming(new), kind, t) =
                    SumOver(events, Coming(Len(events)), kind, t) + Adds(e, kind, t)
    <2>1. Coming(new) = Coming(Len(events)) \cup {new}
      BY <1>2, <1>5 DEF Coming
    <2>2. Coming(Len(events)) \in SUBSET DOMAIN events
      BY <1>2, <1>5
    <2> HIDE DEF new
    <2> QED
      BY <1>4, <2>1, <2>2
  <1>12. FailedWereObserved' /\ DepositsAreCredited'
    BY <1>2, <1>5 DEF BInv, FailedWereObserved, DepositsAreCredited
  <1> QED
    BY <1>2, <1>7, <1>8, <1>9, <1>10, <1>11, <1>12

\* The coins suffice for one more deposit, because whoever makes it has the
\* tokens, and all the tokens of users are backed.
LEMMA EmittedSolvent ==
    ASSUME BInv, NEW e \in Events, events' = Append(events, e), failed' = failed,
           lastObservedEventNonce' = lastObservedEventNonce, bank' = bank,
           e.kind = "deposit" /\ e.token \in Tokens => e.amount <= ethUsers[e.token]
    PROVE  Solvent'
  <1>1. /\ \A k : Coming(k)' = Coming(k)
        /\ Len(events') = Len(events) + 1
        /\ \A kind, t : \A k \in lastObservedEventNonce..Len(events) :
               SumOver(events', Coming(k), kind, t) = SumOver(events, Coming(k), kind, t)
        /\ \A kind, t :
               SumOver(events', Coming(Len(events) + 1), kind, t) =
                   SumOver(events, Coming(Len(events)), kind, t) + Adds(e, kind, t)
    BY EmittedSums
  <1>2. lastObservedEventNonce \in 0..Len(events) /\ Len(events) \in Nat
    BY LedgerFacts
  <1> SUFFICES ASSUME NEW t \in CosmosTokens,
                      NEW k \in lastObservedEventNonce..(Len(events) + 1)
               PROVE  SumOver(events', Coming(k), "deposit", t) <=
                          bank[<<Module, Native(t)>>] + SumOver(events', Coming(k), "valset", t)
    BY <1>1 DEF Solvent
  <1>3. CASE k \in lastObservedEventNonce..Len(events)
    BY <1>1, <1>3 DEF BInv, Solvent
  <1>4. CASE k = Len(events) + 1
    <2> DEFINE D == SumOver(events, Coming(Len(events)), "deposit", t)
               R == SumOver(events, Coming(Len(events)), "valset", t)
               B == bank[<<Module, Native(t)>>]
    <2>1. /\ SumOver(events', Coming(k), "deposit", t) = D + Adds(e, "deposit", t)
          /\ SumOver(events', Coming(k), "valset", t) = R + Adds(e, "valset", t)
      BY <1>1, <1>4
    <2>2. D <= B + R
      BY <1>2 DEF BInv, Solvent
    <2>3. t \in Tokens
      BY DEF Tokens
    <2>4. /\ e.amount \in Nat /\ B \in Nat /\ ethUsers[t] \in Nat
          /\ Total(InFlight(t)) \in Nat /\ Uncredited(t) \in Nat
      BY <2>3, EventFields, OpenFacts, LedgerFacts, DenomFacts
          DEF BInv, MoneyTypeOK, Holders
    <2>5. Coming(Len(events)) = Unobserved
      BY LedgerFacts
    <2>6. R = UnobservedRewards(t)
      BY <2>5, LedgerFacts
    <2>7. D <= Uncredited(t) /\ D \in Nat /\ R \in Nat
      <3>1. Unobserved \cup failed \in SUBSET DOMAIN events
        BY LedgerFacts
      <3>2. Amounting(events, Unobserved \cup failed) /\ Amounting(events, Unobserved)
        BY <3>1, LedgerFacts
      <3>3. Unobserved \in SUBSET (Unobserved \cup failed)
        OBVIOUS
      <3>4. SumOver(events, Unobserved, "deposit", t) <=
                SumOver(events, Unobserved \cup failed, "deposit", t)
        BY <3>2, <3>3, SumOverFacts
      <3>5. D \in Nat /\ R \in Nat
        BY <2>5, <3>2, SumOverFacts
      <3>6. Uncredited(t) = SumOver(events, Unobserved \cup failed, "deposit", t)
        BY LedgerFacts
      <3> QED
        BY <2>5, <3>4, <3>5, <3>6
    <2>8. B + UnobservedRewards(t) = ethUsers[t] + Total(InFlight(t)) + Uncredited(t)
      BY DEF BInv, FullyBacked
    <2> HIDE DEF D, R, B
    <2>9. CASE e.kind = "deposit" /\ e.token = t
      <3>1. Adds(e, "deposit", t) = e.amount /\ Adds(e, "valset", t) = 0
        BY <2>9 DEF Adds
      <3>2. e.amount <= ethUsers[t]
        BY <2>3, <2>9
      <3>3. D + e.amount <= B + R
        BY <2>4, <2>6, <2>7, <2>8, <3>2
      <3> QED
        BY <2>1, <2>4, <2>7, <3>1, <3>3 DEF B
    <2>10. CASE ~(e.kind = "deposit" /\ e.token = t)
      <3>1. Adds(e, "deposit", t) = 0 /\ Adds(e, "valset", t) \in Nat
        BY <2>4, <2>10 DEF Adds
      <3>2. D + 0 <= B + (R + Adds(e, "valset", t))
        BY <2>2, <2>4, <2>7, <3>1
      <3> QED
        BY <2>1, <3>1, <3>2 DEF B
    <2> QED
      BY <2>9, <2>10
  <1> QED
    BY <1>2, <1>3, <1>4

\* A step of Ethereum that emits an event: what leaves the users of a Cosmos
\* token is deposited, what reaches them is paid or a reward, and likewise for
\* the contract and an Ethereum token.
LEMMA EmitBInv ==
    ASSUME BInv, IInv', UNCHANGED keeperVars,
           NEW e \in Events, events' = Append(events, e),
           InTransit' = InTransit,
           escrow' \in [Tokens -> Nat], ethUsers' \in [Tokens -> Nat],
           \A t \in Tokens : Total(InFlight(t))' \in Nat,
           \A t \in EthereumTokens \ PermanentSwap :
               escrow'[t] + Total(InFlight(t)) =
                   escrow[t] + Total(InFlight(t))' + Adds(e, "deposit", t),
           \A t \in CosmosTokens :
               /\ ethUsers'[t] + Total(InFlight(t))' + Adds(e, "deposit", t) =
                      ethUsers[t] + Total(InFlight(t)) + Adds(e, "valset", t)
               /\ ethUsers'[t] > 0 => t \in cosmosOriginated,
           e.kind = "deposit" =>
               /\ e.token \in Tokens /\ e.amount <= ethUsers[e.token]
               /\ e.token \in CosmosTokens => e.token \in cosmosOriginated
    PROVE  BInv'
  <1>1. /\ bank' = bank /\ checkpoints' = checkpoints /\ failed' = failed
        /\ cosmosOriginated' = cosmosOriginated
        /\ lastObservedEventNonce' = lastObservedEventNonce
    BY DEF keeperVars, poolVars, chainVars
  <1>2. /\ \A t : Uncredited(t)' = Uncredited(t) + Adds(e, "deposit", t)
        /\ \A t : UnobservedRewards(t)' = UnobservedRewards(t) + Adds(e, "valset", t)
        /\ FailedWereObserved' /\ DepositsAreCredited'
    BY <1>1, EmittedSums
  <1>3. Solvent'
    BY <1>1, EmittedSolvent
  <1>4. MoneyTypeOK' /\ TransitIsFinite' /\ NoVouchersOfCosmosTokens'
    BY <1>1 DEF BInv, MoneyTypeOK, TransitIsFinite, NoVouchersOfCosmosTokens
  <1>5. TokensAreKnown'
    <2>1. /\ DOMAIN events' = DOMAIN events \cup {Len(events) + 1}
          /\ \A i \in DOMAIN events : events'[i] = events[i]
          /\ events'[Len(events) + 1] = e
      <3>1. events \in Seq(Events)
        BY LogFacts DEF BInv, IInv
      <3>2. /\ DOMAIN events = 1..Len(events) /\ Len(events) \in Nat
            /\ DOMAIN events' = 1..(Len(events) + 1)
            /\ \A i \in DOMAIN events : events'[i] = events[i]
            /\ events'[Len(events) + 1] = e
        BY <3>1, AppendFacts
      <3> QED
        BY <3>2
    <2>2. \A i \in DOMAIN events' : events'[i].kind = "deposit" =>
              /\ events'[i].token \in Tokens
              /\ events'[i].token \in CosmosTokens => events'[i].token \in cosmosOriginated
      BY <2>1 DEF BInv, TokensAreKnown
    <2> QED
      BY <1>1, <2>2 DEF BInv, TokensAreKnown
  <1>6. e.amount \in Nat /\ \A kind, t : Adds(e, kind, t) \in Nat
    BY EventFields DEF Adds
  <1>7. ASSUME NEW t \in EthereumTokens \ PermanentSwap
        PROVE  escrow'[t] = Held(bank, Voucher(t)) + Total(InFlight(t))' + Uncredited(t)'
    <2>1. t \in Tokens /\ Voucher(t) \in Denoms
      BY DenomFacts DEF Tokens
    <2>2. escrow[t] = Held(bank, Voucher(t)) + Total(InFlight(t)) + Uncredited(t)
      BY DEF BInv, FullyBacked, Supply
    <2>3. /\ Total(InFlight(t)) \in Nat /\ Total(InFlight(t))' \in Nat
          /\ Uncredited(t) \in Nat /\ Adds(e, "deposit", t) \in Nat
          /\ escrow[t] \in Nat /\ escrow'[t] \in Nat
      BY <1>6, <2>1, OpenFacts, LedgerFacts DEF BInv, MoneyTypeOK
    <2>4. Held(bank, Voucher(t)) \in Nat
      <3>1. Module \in Holders /\ bank \in Banks /\ 0 \in Nat
        BY DEF BInv, MoneyTypeOK, Banks, Holders
      <3>2. Changes(bank, Mint(bank, Module, Voucher(t), 0), Module, Voucher(t), 0)
        BY <2>1, <3>1, MintChanges
      <3> QED
        BY <2>1, <3>2, HeldChanges
    <2>5. Uncredited(t)' = Uncredited(t) + Adds(e, "deposit", t)
      BY <1>2
    <2>6. escrow'[t] + Total(InFlight(t)) =
              escrow[t] + Total(InFlight(t))' + Adds(e, "deposit", t)
      OBVIOUS
    <2>7. Uncredited(t)' \in Nat
      BY <2>3, <2>5
    <2> QED
      BY ONLY <2>2, <2>3, <2>4, <2>5, <2>6, <2>7
  <1>8. ASSUME NEW t \in CosmosTokens
        PROVE  bank[<<Module, Native(t)>>] + UnobservedRewards(t)' =
                   ethUsers'[t] + Total(InFlight(t))' + Uncredited(t)'
    <2>1. t \in Tokens /\ Native(t) \in Denoms
      BY DenomFacts DEF Tokens
    <2>2. bank[<<Module, Native(t)>>] + UnobservedRewards(t) =
              ethUsers[t] + Total(InFlight(t)) + Uncredited(t)
      BY DEF BInv, FullyBacked
    <2>3. /\ Total(InFlight(t)) \in Nat /\ Total(InFlight(t))' \in Nat
          /\ Uncredited(t) \in Nat /\ UnobservedRewards(t) \in Nat
          /\ Adds(e, "deposit", t) \in Nat /\ Adds(e, "valset", t) \in Nat
          /\ ethUsers[t] \in Nat /\ ethUsers'[t] \in Nat
          /\ bank[<<Module, Native(t)>>] \in Nat
      BY <1>6, <2>1, OpenFacts, LedgerFacts DEF BInv, MoneyTypeOK, Holders
    <2>4. /\ Uncredited(t)' = Uncredited(t) + Adds(e, "deposit", t)
          /\ UnobservedRewards(t)' = UnobservedRewards(t) + Adds(e, "valset", t)
      BY <1>2
    <2>5. ethUsers'[t] + Total(InFlight(t))' + Adds(e, "deposit", t) =
              ethUsers[t] + Total(InFlight(t)) + Adds(e, "valset", t)
      OBVIOUS
    <2>6. Uncredited(t)' \in Nat /\ UnobservedRewards(t)' \in Nat
      BY <2>3, <2>4, SMTT(30)
    <2> QED
      BY ONLY <2>2, <2>3, <2>4, <2>5, <2>6
  <1>9. FullyBacked'
    BY <1>1, <1>7, <1>8 DEF FullyBacked, Supply
  <1> QED
    BY <1>2, <1>3, <1>4, <1>5, <1>9 DEF BInv

\* What the steps of Ethereum say of one token.
LEMMA TokenFacts ==
    ASSUME BInv
    PROVE  /\ escrow \in [Tokens -> Nat] /\ ethUsers \in [Tokens -> Nat]
           /\ ethHeight \in Nat
           /\ \A t \in Tokens : Total(InFlight(t)) \in Nat
           /\ \A t \in CosmosTokens : ethUsers[t] > 0 => t \in cosmosOriginated
           /\ cosmosOriginated \subseteq CosmosTokens
           /\ CosmosTokens \subseteq Tokens /\ EthereumTokens \subseteq Tokens
           /\ EthereumTokens \cap CosmosTokens = {} /\ NoToken \notin Tokens
  BY OpenFacts, ContractAssumption, BridgeDataAssumption
      DEF BInv, MoneyTypeOK, TokensAreKnown, IInv, TypeOK, ContractTypeOK, KeeperTypeOK, Tokens

LEMMA submitBatchBInv ==
    ASSUME BInv, IInv', NEW b \in checkpoints, submitBatch(b), UNCHANGED keeperVars
    PROVE  BInv'
  <1> DEFINE e == Log("batch", b.token, b.nonce, 0, BadAddress)
             P == Total(b.txs)
  <1>1. IInv
    BY DEF BInv
  <1>2. /\ b.txs \in SUBSET Open /\ InTransit' = InTransit /\ Open' = Open \ b.txs
    BY <1>1, submitBatchPays
  <1>3. /\ b.token \in Tokens /\ b.nonce \in Nat
        /\ \A x \in b.txs : x.token = b.token
        /\ b.token \in CosmosTokens => b.token \in cosmosOriginated
    BY <1>1 DEF BInv, TokensAreKnown, IInv, TypeOK, KeeperTypeOK, OutgoingTxBatch
  <1>4. \A t : /\ P \in Nat
               /\ Total(InFlight(t)) = Total(InFlight(t))' + (IF t = b.token THEN P ELSE 0)
               /\ Total(InFlight(t))' \in Nat
    BY <1>2, <1>3, ClosedTransfers
  <1>5. e \in Events /\ \A kind \in {"deposit", "valset"} : \A t : Adds(e, kind, t) = 0
    BY <1>3, TokenFacts DEF Log, Events, Adds
  <1>6. e.kind # "deposit"
    BY DEF Log
  <1>7. /\ events' = Append(events, e) /\ escrow[b.token] >= P
        /\ escrow' = [escrow EXCEPT ![b.token] = @ - P]
        /\ ethUsers' = [ethUsers EXCEPT ![b.token] = @ + P]
    BY DEF submitBatch
  <1> HIDE DEF e, P
  <1>8. escrow' \in [Tokens -> Nat] /\ ethUsers' \in [Tokens -> Nat]
    <2>1. P \in Nat /\ escrow[b.token] \in Nat /\ ethUsers[b.token] \in Nat
      BY <1>3, <1>4, TokenFacts
    <2>2. escrow[b.token] - P \in Nat /\ ethUsers[b.token] + P \in Nat
      BY <1>7, <2>1
    <2> QED
      BY <1>3, <1>7, <2>2, TokenFacts
  <1>9. ASSUME NEW t \in Tokens
        PROVE  /\ escrow'[t] + Total(InFlight(t)) = escrow[t] + Total(InFlight(t))' + 0
               /\ ethUsers'[t] + Total(InFlight(t))' + 0 = ethUsers[t] + Total(InFlight(t)) + 0
               /\ t \in CosmosTokens /\ ethUsers'[t] > 0 => t \in cosmosOriginated
    <2>1. /\ P \in Nat /\ escrow[t] \in Nat /\ ethUsers[t] \in Nat
          /\ Total(InFlight(t))' \in Nat
          /\ Total(InFlight(t)) = Total(InFlight(t))' + (IF t = b.token THEN P ELSE 0)
      BY <1>4, TokenFacts
    <2>2. CASE t = b.token
      <3>1. escrow'[t] = escrow[t] - P /\ ethUsers'[t] = ethUsers[t] + P
        BY <1>3, <1>7, <2>2, TokenFacts
      <3>2. Total(InFlight(t)) = Total(InFlight(t))' + P
        BY <2>1, <2>2
      <3> QED
        BY <1>3, <2>1, <2>2, <3>1, <3>2
    <2>3. CASE t # b.token
      <3>1. escrow'[t] = escrow[t] /\ ethUsers'[t] = ethUsers[t]
        BY <1>7, <2>3, TokenFacts
      <3>2. Total(InFlight(t)) = Total(InFlight(t))'
        BY <2>1, <2>3
      <3> QED
        BY <2>1, <3>1, <3>2, TokenFacts
    <2> QED
      BY <2>2, <2>3
  <1>10. /\ \A t \in Tokens : Total(InFlight(t))' \in Nat
         /\ \A t \in EthereumTokens \ PermanentSwap :
                escrow'[t] + Total(InFlight(t)) =
                    escrow[t] + Total(InFlight(t))' + Adds(e, "deposit", t)
         /\ \A t \in CosmosTokens :
                /\ ethUsers'[t] + Total(InFlight(t))' + Adds(e, "deposit", t) =
                       ethUsers[t] + Total(InFlight(t)) + Adds(e, "valset", t)
                /\ ethUsers'[t] > 0 => t \in cosmosOriginated
    BY <1>4, <1>5, <1>9, TokenFacts
  <1> QED
    BY <1>2, <1>5, <1>6, <1>7, <1>8, <1>10, EmitBInv

\* The events that are not the execution of a batch.
LEMMA EmitOtherBInv ==
    ASSUME BInv, IInv', UNCHANGED keeperVars,
           NEW e \in Events, e.kind # "batch", events' = Append(events, e),
           escrow' \in [Tokens -> Nat], ethUsers' \in [Tokens -> Nat],
           \A u \in EthereumTokens \ PermanentSwap :
               escrow'[u] = escrow[u] + Adds(e, "deposit", u),
           \A u \in CosmosTokens :
               /\ ethUsers'[u] + Adds(e, "deposit", u) = ethUsers[u] + Adds(e, "valset", u)
               /\ ethUsers'[u] > 0 => u \in cosmosOriginated,
           e.kind = "deposit" =>
               /\ e.token \in Tokens /\ e.amount <= ethUsers[e.token]
               /\ e.token \in CosmosTokens => e.token \in cosmosOriginated
    PROVE  BInv'
  <1>1. e.amount \in Nat
    BY EventFields
  <1>2. /\ pool' = pool /\ batches' = batches /\ checkpoints' = checkpoints
    BY DEF keeperVars, poolVars
  <1>3. InTransit' = InTransit /\ Open' = Open
    <2>1. PaysNothing
      BY <1>2, OtherEventsPayNothing DEF BInv
    <2> QED
      BY <1>2, <2>1, PaidIsKept DEF InTransit, Open
  <1>4. ASSUME NEW u \in Tokens
        PROVE  Total(InFlight(u))' = Total(InFlight(u)) /\ Total(InFlight(u)) \in Nat
    <2>1. InFlight(u) = {x \in Open : x.token = u} /\ InFlight(u)' = {x \in Open' : x.token = u}
      BY InFlightIsOpen DEF InFlight, Open, InTransit, Paid
    <2>2. InFlight(u)' = InFlight(u)
      BY <1>3, <2>1
    <2> QED
      BY <2>2, TokenFacts
  <1>5. \A k, u : Adds(e, k, u) \in Nat
    BY <1>1 DEF Adds
  <1>6. \A u \in EthereumTokens \ PermanentSwap :
            escrow'[u] + Total(InFlight(u)) =
                escrow[u] + Total(InFlight(u))' + Adds(e, "deposit", u)
    <2> SUFFICES ASSUME NEW u \in EthereumTokens \ PermanentSwap
                 PROVE  escrow'[u] + Total(InFlight(u)) =
                            escrow[u] + Total(InFlight(u))' + Adds(e, "deposit", u)
      OBVIOUS
    <2>1. /\ escrow'[u] = escrow[u] + Adds(e, "deposit", u)
          /\ escrow[u] \in Nat /\ escrow'[u] \in Nat /\ Adds(e, "deposit", u) \in Nat
          /\ Total(InFlight(u))' = Total(InFlight(u)) /\ Total(InFlight(u)) \in Nat
      BY <1>4, <1>5, TokenFacts
    <2> QED
      BY ONLY <2>1
  <1>7. \A u \in CosmosTokens :
            /\ ethUsers'[u] + Total(InFlight(u))' + Adds(e, "deposit", u) =
                   ethUsers[u] + Total(InFlight(u)) + Adds(e, "valset", u)
            /\ ethUsers'[u] > 0 => u \in cosmosOriginated
    <2> SUFFICES ASSUME NEW u \in CosmosTokens
                 PROVE  ethUsers'[u] + Total(InFlight(u))' + Adds(e, "deposit", u) =
                            ethUsers[u] + Total(InFlight(u)) + Adds(e, "valset", u)
      OBVIOUS
    <2>1. /\ ethUsers'[u] + Adds(e, "deposit", u) = ethUsers[u] + Adds(e, "valset", u)
          /\ ethUsers[u] \in Nat /\ ethUsers'[u] \in Nat
          /\ Adds(e, "deposit", u) \in Nat /\ Adds(e, "valset", u) \in Nat
          /\ Total(InFlight(u))' = Total(InFlight(u)) /\ Total(InFlight(u)) \in Nat
      BY <1>4, <1>5, TokenFacts
    <2> QED
      BY ONLY <2>1
  <1>8. \A u \in Tokens : Total(InFlight(u))' \in Nat
    BY <1>4
  <1> QED
    BY <1>3, <1>6, <1>7, <1>8, EmitBInv

\* Every step of Ethereum keeps the invariant.
LEMMA EthereumBInv ==
    ASSUME BInv, IInv', Ethereum
    PROVE  BInv'
  <1>1. UNCHANGED keeperVars
    BY DEF Ethereum
  <1>2. CASE NewEthereumBlock
    <2>1. /\ bank' = bank /\ failed' = failed /\ cosmosOriginated' = cosmosOriginated
          /\ lastObservedEventNonce' = lastObservedEventNonce
          /\ checkpoints' = checkpoints /\ pool' = pool /\ batches' = batches
      BY <1>1 DEF keeperVars, poolVars, chainVars
    <2>2. events' = events /\ escrow' = escrow /\ ethUsers' = ethUsers
      BY <1>2 DEF NewEthereumBlock
    <2>3. InTransit' = InTransit /\ Open' = Open
      BY <2>1, <2>2 DEF InTransit, Open, Paid, PaidBy, Executes
    <2>4. \A c \in checkpoints' :
              /\ \A x \in c.txs : x.token = c.token
              /\ c.token \in CosmosTokens => c.token \in cosmosOriginated
      BY <2>1 DEF BInv, TokensAreKnown
    <2> QED
      BY <2>1, <2>2, <2>3, <2>4, NoMoneyMoves
  <1>3. CASE \E b \in checkpoints : submitBatch(b)
    BY <1>1, <1>3, submitBatchBInv
  <1>4. ASSUME NEW t \in Tokens, NEW x \in Amounts, NEW r \in Accounts \cup {BadAddress},
               sendToCosmos(t, x, r)
        PROVE  BInv'
    <2>1. x \in Nat /\ x > 0
      BY BridgeAssumption
    <2>2. PICK e : e = Log("deposit", t, 0, x, r)
      OBVIOUS
    <2>3. /\ ethUsers[t] >= x /\ events' = Append(events, e)
          /\ ethUsers' = [ethUsers EXCEPT ![t] = @ - x]
          /\ escrow' = IF t \in PermanentSwap THEN escrow
                       ELSE [escrow EXCEPT ![t] = @ + x]
      BY <1>4, <2>2 DEF sendToCosmos
    <2>4. e.kind = "deposit" /\ e.token = t /\ e.amount = x /\ e \in Events
      BY <2>1, <2>2, TokenFacts DEF Log, Events
    <2>5. escrow[t] \in Nat /\ ethUsers[t] \in Nat
      BY TokenFacts
    <2>6. escrow' \in [Tokens -> Nat] /\ ethUsers' \in [Tokens -> Nat]
      <3>1. escrow[t] + x \in Nat /\ ethUsers[t] - x \in Nat
        BY <2>1, <2>3, <2>5
      <3> QED
        BY <2>3, <3>1, TokenFacts
    <2>7. ASSUME NEW u \in Tokens
          PROVE  /\ Adds(e, "valset", u) = 0
                 /\ u = t => /\ Adds(e, "deposit", u) = x
                             /\ ethUsers'[u] = ethUsers[u] - x
                             /\ u \notin PermanentSwap => escrow'[u] = escrow[u] + x
                 /\ u # t => /\ Adds(e, "deposit", u) = 0
                             /\ ethUsers'[u] = ethUsers[u]
                             /\ escrow'[u] = escrow[u]
                 /\ ethUsers[u] \in Nat /\ escrow[u] \in Nat
      <3>1. /\ Adds(e, "valset", u) = 0
            /\ u = t => Adds(e, "deposit", u) = x
            /\ u # t => Adds(e, "deposit", u) = 0
        BY <2>4 DEF Adds
      <3>2. /\ u = t => /\ ethUsers'[u] = ethUsers[u] - x
                        /\ u \notin PermanentSwap => escrow'[u] = escrow[u] + x
            /\ u # t => ethUsers'[u] = ethUsers[u] /\ escrow'[u] = escrow[u]
        BY <2>3, TokenFacts
      <3> QED
        BY <3>1, <3>2, TokenFacts
    <2>8. \A u \in EthereumTokens \ PermanentSwap :
              escrow'[u] = escrow[u] + Adds(e, "deposit", u)
      BY <2>1, <2>7, TokenFacts
    <2>9. \A u \in CosmosTokens :
              ethUsers'[u] + Adds(e, "deposit", u) = ethUsers[u] + Adds(e, "valset", u)
      BY <2>1, <2>7, TokenFacts
    <2>10. \A u \in CosmosTokens : ethUsers'[u] > 0 => u \in cosmosOriginated
      BY <2>1, <2>7, TokenFacts
    <2>11. t \in CosmosTokens => t \in cosmosOriginated
      BY <2>1, <2>3, <2>5, TokenFacts
    <2> QED
      BY <1>1, <2>3, <2>4, <2>5, <2>6, <2>8, <2>9, <2>10, <2>11, EmitOtherBInv
  <1>5. ASSUME NEW t \in CosmosTokens \cup {NoToken}, deployERC20(t)
        PROVE  BInv'
    <2>1. PICK e : e = Log("erc20", t, 0, 0, BadAddress)
      OBVIOUS
    <2>2. /\ events' = Append(events, e) /\ ethUsers' = ethUsers
          /\ escrow' = IF t = NoToken \/ IsDeployed(t) THEN escrow
                       ELSE [escrow EXCEPT ![t] = MaxUint]
      BY <1>5, <2>1 DEF deployERC20
    <2>3. \A kind \in {"deposit", "valset"} : \A u : Adds(e, kind, u) = 0
      BY <2>1 DEF Log, Adds
    <2>4. /\ escrow' \in [Tokens -> Nat]
          /\ \A u \in EthereumTokens : escrow'[u] = escrow[u] /\ escrow[u] \in Nat
      BY <2>2, ContractAssumption, TokenFacts
    <2>5. \A u \in EthereumTokens \ PermanentSwap :
              escrow'[u] = escrow[u] + Adds(e, "deposit", u)
      BY <2>3, <2>4
    <2>6. \A u \in CosmosTokens :
              /\ ethUsers'[u] + Adds(e, "deposit", u) = ethUsers[u] + Adds(e, "valset", u)
              /\ ethUsers'[u] > 0 => u \in cosmosOriginated
      BY <2>2, <2>3, TokenFacts
    <2>7. t \in Tokens \cup {NoToken} /\ ethUsers' \in [Tokens -> Nat]
      BY <2>2, TokenFacts
    <2>8. events' = Append(events, e) /\ escrow' \in [Tokens -> Nat]
      BY <2>2, <2>4
    <2>9. e.kind = "erc20" /\ e \in Events
      BY <2>1, <2>7, TokenFacts DEF Log, Events
    <2> QED
      BY <1>1, <2>5, <2>6, <2>7, <2>8, <2>9, EmitOtherBInv
  <1>6. CASE updateValset(NoToken, 0)
    <2>1. PICK e : e = Log("valset", NoToken, 0, 0, BadAddress)
      OBVIOUS
    <2>2. events' = Append(events, e) /\ ethUsers' = ethUsers /\ escrow' = escrow
      BY <1>6, <2>1 DEF updateValset
    <2>3. \A kind \in {"deposit", "valset"} : \A u : Adds(e, kind, u) = 0
      BY <2>1 DEF Log, Adds
    <2>4. \A u \in EthereumTokens \ PermanentSwap :
              escrow'[u] = escrow[u] + Adds(e, "deposit", u)
      BY <2>2, <2>3, TokenFacts
    <2>5. \A u \in CosmosTokens :
              /\ ethUsers'[u] + Adds(e, "deposit", u) = ethUsers[u] + Adds(e, "valset", u)
              /\ ethUsers'[u] > 0 => u \in cosmosOriginated
      BY <2>2, <2>3, TokenFacts
    <2>6. escrow' \in [Tokens -> Nat] /\ ethUsers' \in [Tokens -> Nat]
      BY <2>2, TokenFacts
    <2>7. e.kind = "valset" /\ e \in Events
      BY <2>1, TokenFacts DEF Log, Events
    <2> QED
      BY <1>1, <2>2, <2>4, <2>5, <2>6, <2>7, EmitOtherBInv
  <1>7. ASSUME NEW t \in cosmosOriginated, NEW x \in Rewards, updateValset(t, x)
        PROVE  BInv'
    <2>1. x \in Nat
      BY BridgeAssumption
    <2>2. PICK e : e = Log("valset", t, 0, x, BadAddress)
      OBVIOUS
    <2>3. t \in CosmosTokens /\ t \in Tokens /\ t # NoToken /\ t \notin EthereumTokens
      BY TokenFacts
    <2>4. /\ escrow[t] >= x /\ events' = Append(events, e)
          /\ ethUsers' = [ethUsers EXCEPT ![t] = @ + x]
          /\ escrow' = [escrow EXCEPT ![t] = @ - x]
      BY <1>7, <2>2, <2>3 DEF updateValset
    <2>5. e.kind = "valset" /\ e.token = t /\ e.amount = x /\ e \in Events
      BY <2>1, <2>2, <2>3, TokenFacts DEF Log, Events
    <2>6. escrow' \in [Tokens -> Nat] /\ ethUsers' \in [Tokens -> Nat]
      <3>1. escrow[t] \in Nat /\ ethUsers[t] \in Nat
        BY <2>3, TokenFacts
      <3>2. escrow[t] - x \in Nat /\ ethUsers[t] + x \in Nat
        BY <2>1, <2>4, <3>1
      <3> QED
        BY <2>3, <2>4, <3>2, TokenFacts
    <2>7. ASSUME NEW u \in Tokens
          PROVE  /\ Adds(e, "deposit", u) = 0
                 /\ u = t => /\ Adds(e, "valset", u) = x
                             /\ ethUsers'[u] = ethUsers[u] + x
                 /\ u # t => /\ Adds(e, "valset", u) = 0
                             /\ ethUsers'[u] = ethUsers[u]
                             /\ escrow'[u] = escrow[u]
                 /\ ethUsers[u] \in Nat /\ escrow[u] \in Nat
      <3>1. /\ Adds(e, "deposit", u) = 0
            /\ u = t => Adds(e, "valset", u) = x
            /\ u # t => Adds(e, "valset", u) = 0
        BY <2>5 DEF Adds
      <3>2. /\ u = t => ethUsers'[u] = ethUsers[u] + x
            /\ u # t => ethUsers'[u] = ethUsers[u] /\ escrow'[u] = escrow[u]
        BY <2>4, TokenFacts
      <3> QED
        BY <3>1, <3>2, TokenFacts
    <2>8. \A u \in EthereumTokens \ PermanentSwap :
              escrow'[u] = escrow[u] + Adds(e, "deposit", u)
      BY <2>3, <2>7, TokenFacts
    <2>9. \A u \in CosmosTokens :
              ethUsers'[u] + Adds(e, "deposit", u) = ethUsers[u] + Adds(e, "valset", u)
      BY <2>1, <2>7, TokenFacts
    <2>10. \A u \in CosmosTokens : ethUsers'[u] > 0 => u \in cosmosOriginated
      BY <2>7, TokenFacts
    <2> QED
      BY <1>1, <2>4, <2>5, <2>6, <2>8, <2>9, <2>10, EmitOtherBInv
  <1> QED
    BY <1>2, <1>3, <1>4, <1>5, <1>6, <1>7 DEF Ethereum

\* An event that Cosmos observes leaves the sums of what is still to come.
LEMMA ObservedSums ==
    ASSUME BInv, NEW n \in DOMAIN events, n = lastObservedEventNonce + 1,
           lastObservedEventNonce' = n, events' = events
    PROVE  /\ \A t : /\ UnobservedRewards(t)' \in Nat
                     /\ UnobservedRewards(t) =
                            UnobservedRewards(t)' + Adds(events[n], "valset", t)
           /\ failed' = failed => \A t :
                  /\ Uncredited(t)' \in Nat
                  /\ Uncredited(t) = Uncredited(t)' + Adds(events[n], "deposit", t)
           /\ failed' = failed \cup {n} => \A t : Uncredited(t)' = Uncredited(t)
           /\ \A kind, t : \A k \in n..Len(events) :
                  /\ SumOver(events, Coming(k)', kind, t) \in Nat
                  /\ SumOver(events, Coming(k), kind, t) =
                         SumOver(events, Coming(k)', kind, t) + Adds(events[n], kind, t)
           /\ Coming(n)' = {}
           /\ \A kind, t : Adds(events[n], kind, t) \in Nat
  <1>1. /\ DOMAIN events = 1..Len(events) /\ Len(events) \in Nat
        /\ lastObservedEventNonce \in 0..Len(events)
        /\ Unobserved \subseteq DOMAIN events /\ failed \subseteq DOMAIN events
        /\ Unobserved \cap failed = {}
        /\ \A k \in lastObservedEventNonce..Len(events) : Coming(k) \subseteq Unobserved
    BY LedgerFacts
  <1>2. /\ Unobserved = Unobserved' \cup {n} /\ n \notin Unobserved'
        /\ Unobserved' \subseteq DOMAIN events /\ n \notin failed
    BY <1>1 DEF Unobserved
  <1>3. events[n].amount \in Nat
    BY EventFields, LogFacts DEF BInv, IInv
  <1>4. ASSUME NEW S \in SUBSET DOMAIN events, n \notin S, NEW kind, NEW t
        PROVE  /\ SumOver(events, S, kind, t) \in Nat
               /\ SumOver(events, S \cup {n}, kind, t) =
                      SumOver(events, S, kind, t) + Adds(events[n], kind, t)
    <2>1. Amounting(events, S)
      BY LedgerFacts
    <2> QED
      BY <1>3, <1>4, <2>1, SumOverFacts, SumOverWith
  <1>5. ASSUME NEW t
        PROVE  /\ UnobservedRewards(t)' \in Nat
               /\ UnobservedRewards(t) =
                      UnobservedRewards(t)' + Adds(events[n], "valset", t)
    <2>1. UnobservedRewards(t)' = SumOver(events, Unobserved', "valset", t)
      BY DEF UnobservedRewards, SumOver
    <2>2. UnobservedRewards(t) = SumOver(events, Unobserved, "valset", t)
      BY LedgerFacts
    <2>3. Unobserved' \in SUBSET DOMAIN events
      BY <1>2
    <2>4. /\ SumOver(events, Unobserved', "valset", t) \in Nat
          /\ SumOver(events, Unobserved' \cup {n}, "valset", t) =
                 SumOver(events, Unobserved', "valset", t) + Adds(events[n], "valset", t)
      BY <1>2, <1>4, <2>3
    <2> QED
      BY <1>2, <2>1, <2>2, <2>4
  <1>6. ASSUME failed' = failed, NEW t
        PROVE  /\ Uncredited(t)' \in Nat
               /\ Uncredited(t) = Uncredited(t)' + Adds(events[n], "deposit", t)
    <2>1. Uncredited(t)' = SumOver(events, Unobserved' \cup failed, "deposit", t)
      BY <1>6 DEF Uncredited, SumOver
    <2>2. Uncredited(t) = SumOver(events, Unobserved \cup failed, "deposit", t)
      BY LedgerFacts
    <2>3. /\ Unobserved' \cup failed \in SUBSET DOMAIN events
          /\ n \notin Unobserved' \cup failed
          /\ (Unobserved' \cup failed) \cup {n} = Unobserved \cup failed
      BY <1>1, <1>2
    <2>4. /\ SumOver(events, Unobserved' \cup failed, "deposit", t) \in Nat
          /\ SumOver(events, (Unobserved' \cup failed) \cup {n}, "deposit", t) =
                 SumOver(events, Unobserved' \cup failed, "deposit", t)
                     + Adds(events[n], "deposit", t)
      BY <1>4, <2>3
    <2> QED
      BY <2>1, <2>2, <2>3, <2>4
  <1>7. ASSUME failed' = failed \cup {n}, NEW t
        PROVE  Uncredited(t)' = Uncredited(t)
    <2>1. Unobserved' \cup failed' = Unobserved \cup failed
      BY <1>2, <1>7
    <2>2. Uncredited(t)' = SumOver(events, Unobserved' \cup failed', "deposit", t)
      BY DEF Uncredited, SumOver
    <2> QED
      BY <2>1, <2>2, LedgerFacts
  <1>8. ASSUME NEW kind, NEW t, NEW k \in n..Len(events)
        PROVE  /\ SumOver(events, Coming(k)', kind, t) \in Nat
               /\ SumOver(events, Coming(k), kind, t) =
                      SumOver(events, Coming(k)', kind, t) + Adds(events[n], kind, t)
    <2>1. /\ Coming(k) = Coming(k)' \cup {n} /\ n \notin Coming(k)'
          /\ Coming(k)' \in SUBSET DOMAIN events
      BY <1>1 DEF Coming
    <2> QED
      BY <1>4, <2>1, ZenonT(60)
  <1>9. Coming(n)' = {}
    BY <1>1 DEF Coming
  <1>10. \A kind, t : Adds(events[n], kind, t) \in Nat
    BY <1>3 DEF Adds
  <1> QED
    BY <1>5, <1>6, <1>7, <1>8, <1>9, <1>10

\* A step of the oracle that credits what it takes from the sums.
LEMMA ObserveBInv ==
    ASSUME BInv, IInv', NEW n \in DOMAIN events, n = lastObservedEventNonce + 1,
           lastObservedEventNonce' = n, UNCHANGED contractVars,
           checkpoints' = checkpoints, InTransit' \subseteq InTransit, Open' = Open,
           cosmosOriginated \subseteq cosmosOriginated',
           failed' = failed \/ failed' = failed \cup {n},
           n \in failed' => \/ events[n].receiver \notin Accounts
                           \/ events[n].kind # "deposit",
           bank' \in Banks,
           \A h \in Holders, t \in CosmosTokens : bank'[<<h, Voucher(t)>>] = 0,
           \A t \in EthereumTokens \ PermanentSwap :
               Held(bank', Voucher(t)) + Uncredited(t)' = Held(bank, Voucher(t)) + Uncredited(t),
           \A t \in CosmosTokens :
               /\ bank'[<<Module, Native(t)>>] + UnobservedRewards(t)' + Uncredited(t) =
                      bank[<<Module, Native(t)>>] + UnobservedRewards(t) + Uncredited(t)'
               /\ bank[<<Module, Native(t)>>] + Adds(events[n], "valset", t) <=
                      bank'[<<Module, Native(t)>>] + Adds(events[n], "deposit", t)
    PROVE  BInv'
  <1>1. events' = events /\ escrow' = escrow /\ ethUsers' = ethUsers
    BY DEF contractVars
  <1>2. /\ \A t : UnobservedRewards(t)' \in Nat /\ Uncredited(t)' \in Nat
        /\ \A kind, t : \A k \in n..Len(events) :
               /\ SumOver(events, Coming(k)', kind, t) \in Nat
               /\ SumOver(events, Coming(k), kind, t) =
                      SumOver(events, Coming(k)', kind, t) + Adds(events[n], kind, t)
        /\ \A kind, t : Adds(events[n], kind, t) \in Nat
    BY <1>1, ObservedSums, LedgerFacts
  <1>3. MoneyTypeOK'
    BY <1>1 DEF BInv, MoneyTypeOK, Banks
  <1>4. TransitIsFinite'
    BY FS_Subset DEF BInv, TransitIsFinite
  <1>5. TokensAreKnown'
    BY <1>1 DEF BInv, TokensAreKnown
  <1>6. NoVouchersOfCosmosTokens'
    BY DEF NoVouchersOfCosmosTokens
  <1>7. /\ DOMAIN events = 1..Len(events) /\ Len(events) \in Nat
        /\ lastObservedEventNonce \in 0..Len(events)
    BY LedgerFacts
  <1>8. FailedWereObserved'
    <2>1. failed \subseteq 1..lastObservedEventNonce
      BY DEF BInv, FailedWereObserved
    <2>2. failed' \subseteq failed \cup {n}
      OBVIOUS
    <2>3. 1..lastObservedEventNonce \cup {n} \subseteq 1..n
      BY <1>7
    <2>4. failed' \subseteq 1..n
      BY <2>1, <2>2, <2>3
    <2> QED
      BY <2>4 DEF FailedWereObserved
  <1>9. DepositsAreCredited'
    BY <1>1 DEF BInv, DepositsAreCredited
  <1>10. ASSUME NEW t \in Tokens
         PROVE  /\ Total(InFlight(t))' = Total(InFlight(t)) /\ Total(InFlight(t)) \in Nat
                /\ escrow[t] \in Nat /\ ethUsers[t] \in Nat
                /\ Uncredited(t) \in Nat /\ UnobservedRewards(t) \in Nat
                /\ bank[<<Module, Native(t)>>] \in Nat /\ bank'[<<Module, Native(t)>>] \in Nat
    <2>1. InFlight(t) = {x \in Open : x.token = t} /\ InFlight(t)' = {x \in Open' : x.token = t}
      BY InFlightIsOpen DEF InFlight, Open, InTransit, Paid
    <2>2. InFlight(t)' = InFlight(t)
      BY <2>1
    <2>3. bank[<<Module, Native(t)>>] \in Nat /\ bank'[<<Module, Native(t)>>] \in Nat
      <3>1. <<Module, Native(t)>> \in Holders \X Denoms
        BY DenomFacts DEF Holders
      <3> QED
        BY <3>1 DEF BInv, MoneyTypeOK, Banks
    <2> QED
      BY <2>2, <2>3, TokenFacts, LedgerFacts
  <1>11. ASSUME NEW t \in EthereumTokens \ PermanentSwap
         PROVE  escrow[t] = Held(bank', Voucher(t)) + Total(InFlight(t))' + Uncredited(t)'
    <2>1. t \in Tokens /\ Voucher(t) \in Denoms
      BY DenomFacts DEF Tokens
    <2>2. escrow[t] = Held(bank, Voucher(t)) + Total(InFlight(t)) + Uncredited(t)
      BY DEF BInv, FullyBacked, Supply
    <2>3. Held(bank, Voucher(t)) \in Nat /\ Held(bank', Voucher(t)) \in Nat
      <3>1. Module \in Holders /\ bank \in Banks /\ 0 \in Nat
        BY DEF BInv, MoneyTypeOK, Banks, Holders
      <3>2. /\ Changes(bank, Mint(bank, Module, Voucher(t), 0), Module, Voucher(t), 0)
            /\ Changes(bank', Mint(bank', Module, Voucher(t), 0), Module, Voucher(t), 0)
        BY <2>1, <3>1, MintChanges
      <3> QED
        BY <2>1, <3>2, HeldChanges
    <2>4. Held(bank', Voucher(t)) + Uncredited(t)' = Held(bank, Voucher(t)) + Uncredited(t)
      OBVIOUS
    <2>5. /\ Total(InFlight(t))' = Total(InFlight(t)) /\ Total(InFlight(t)) \in Nat
          /\ escrow[t] \in Nat /\ Uncredited(t) \in Nat /\ Uncredited(t)' \in Nat
      BY <1>2, <1>10, <2>1
    <2> QED
      BY ONLY <2>2, <2>3, <2>4, <2>5
  <1>12. ASSUME NEW t \in CosmosTokens
         PROVE  bank'[<<Module, Native(t)>>] + UnobservedRewards(t)' =
                    ethUsers[t] + Total(InFlight(t))' + Uncredited(t)'
    <2>1. t \in Tokens
      BY DEF Tokens
    <2>2. bank[<<Module, Native(t)>>] + UnobservedRewards(t) =
              ethUsers[t] + Total(InFlight(t)) + Uncredited(t)
      BY DEF BInv, FullyBacked
    <2>3. bank'[<<Module, Native(t)>>] + UnobservedRewards(t)' + Uncredited(t) =
              bank[<<Module, Native(t)>>] + UnobservedRewards(t) + Uncredited(t)'
      OBVIOUS
    <2>4. /\ Total(InFlight(t))' = Total(InFlight(t)) /\ Total(InFlight(t)) \in Nat
          /\ ethUsers[t] \in Nat /\ Uncredited(t) \in Nat /\ UnobservedRewards(t) \in Nat
          /\ UnobservedRewards(t)' \in Nat /\ Uncredited(t)' \in Nat
          /\ bank[<<Module, Native(t)>>] \in Nat /\ bank'[<<Module, Native(t)>>] \in Nat
      BY <1>2, <1>10, <2>1
    <2> QED
      BY ONLY <2>2, <2>3, <2>4
  <1>13. FullyBacked'
    BY <1>1, <1>11, <1>12 DEF FullyBacked, Supply
  <1>14. ASSUME NEW t \in CosmosTokens, NEW k \in n..Len(events)
         PROVE  SumOver(events, Coming(k)', "deposit", t) <=
                    bank'[<<Module, Native(t)>>] + SumOver(events, Coming(k)', "valset", t)
    <2>1. t \in Tokens /\ k \in lastObservedEventNonce..Len(events)
      BY <1>7 DEF Tokens
    <2>2. SumOver(events, Coming(k), "deposit", t) <=
              bank[<<Module, Native(t)>>] + SumOver(events, Coming(k), "valset", t)
      BY <2>1 DEF BInv, Solvent
    <2>3. /\ SumOver(events, Coming(k)', "deposit", t) \in Nat
          /\ SumOver(events, Coming(k)', "valset", t) \in Nat
          /\ SumOver(events, Coming(k), "deposit", t) =
                 SumOver(events, Coming(k)', "deposit", t) + Adds(events[n], "deposit", t)
          /\ SumOver(events, Coming(k), "valset", t) =
                 SumOver(events, Coming(k)', "valset", t) + Adds(events[n], "valset", t)
          /\ Adds(events[n], "deposit", t) \in Nat /\ Adds(events[n], "valset", t) \in Nat
      BY <1>2
    <2>4. bank[<<Module, Native(t)>>] \in Nat /\ bank'[<<Module, Native(t)>>] \in Nat
      BY <1>10, <2>1
    <2>5. bank[<<Module, Native(t)>>] + Adds(events[n], "valset", t) <=
              bank'[<<Module, Native(t)>>] + Adds(events[n], "deposit", t)
      OBVIOUS
    <2> QED
      BY ONLY <2>2, <2>3, <2>4, <2>5, SMTT(30)
  <1>15. Solvent'
    BY <1>1, <1>14 DEF Solvent
  <1> QED
    BY <1>3, <1>4, <1>5, <1>6, <1>8, <1>9, <1>13, <1>15 DEF BInv

\* The sums of a kind that an event does not have.
LEMMA AddsOfOtherKinds ==
    ASSUME NEW e, NEW kind, NEW t, e.kind # kind \/ e.token # t
    PROVE  Adds(e, kind, t) = 0
  BY DEF Adds

\* Events that move no coins of the bank: executed batches, deployed ERC20s,
\* and validator sets without a reward.
LEMMA ObserveWithoutCoins ==
    ASSUME BInv, IInv', NEW n \in DOMAIN events, n = lastObservedEventNonce + 1,
           lastObservedEventNonce' = n, UNCHANGED contractVars,
           checkpoints' = checkpoints, InTransit' \subseteq InTransit, Open' = Open,
           cosmosOriginated \subseteq cosmosOriginated',
           failed' = failed \/ failed' = failed \cup {n}, bank' = bank,
           events[n].kind # "deposit",
           \A t : Adds(events[n], "valset", t) = 0
    PROVE  BInv'
  <1>1. events' = events
    BY DEF contractVars
  <1>2. \A t : Adds(events[n], "deposit", t) = 0
    BY AddsOfOtherKinds
  <1>3. \A t : Uncredited(t)' = Uncredited(t) /\ Uncredited(t) \in Nat
    BY <1>1, <1>2, ObservedSums, LedgerFacts
  <1>4. \A t : UnobservedRewards(t)' = UnobservedRewards(t)
    <2>1. \A t : /\ UnobservedRewards(t)' \in Nat
                 /\ UnobservedRewards(t) = UnobservedRewards(t)' + Adds(events[n], "valset", t)
      BY <1>1, ObservedSums
    <2> QED
      BY <2>1
  <1>5. bank' \in Banks /\ \A h \in Holders, t \in CosmosTokens : bank'[<<h, Voucher(t)>>] = 0
    BY DEF BInv, MoneyTypeOK, Banks, NoVouchersOfCosmosTokens
  <1>6. \A t \in EthereumTokens \ PermanentSwap :
            Held(bank', Voucher(t)) + Uncredited(t)' = Held(bank, Voucher(t)) + Uncredited(t)
    BY <1>3
  <1>7. \A t \in CosmosTokens :
            bank'[<<Module, Native(t)>>] + UnobservedRewards(t)' + Uncredited(t) =
                bank[<<Module, Native(t)>>] + UnobservedRewards(t) + Uncredited(t)'
    BY <1>3, <1>4
  <1>8. \A t \in CosmosTokens :
            bank[<<Module, Native(t)>>] + Adds(events[n], "valset", t) <=
                bank'[<<Module, Native(t)>>] + Adds(events[n], "deposit", t)
    <2> SUFFICES ASSUME NEW t \in CosmosTokens
                 PROVE  bank[<<Module, Native(t)>>] + 0 <= bank[<<Module, Native(t)>>] + 0
      BY <1>2
    <2>1. bank[<<Module, Native(t)>>] \in Nat
      <3>1. <<Module, Native(t)>> \in Holders \X Denoms
        BY DenomFacts DEF Holders, Tokens
      <3> QED
        BY <3>1 DEF BInv, MoneyTypeOK
    <2> QED
      BY <2>1
  <1> QED
    BY <1>5, <1>6, <1>7, <1>8, ObserveBInv

\* A reward is minted into the module account when it leaves the sum of the
\* rewards that are still to be observed.
LEMMA ObserveReward ==
    ASSUME BInv, IInv', NEW n \in DOMAIN events, n = lastObservedEventNonce + 1,
           lastObservedEventNonce' = n, UNCHANGED contractVars,
           checkpoints' = checkpoints, InTransit' \subseteq InTransit, Open' = Open,
           cosmosOriginated' = cosmosOriginated, failed' = failed,
           events[n].kind = "valset", events[n].token \in cosmosOriginated,
           bank' = Mint(bank, Module, Native(events[n].token), events[n].amount)
    PROVE  BInv'
  <1> DEFINE u == events[n].token
             a == events[n].amount
             d == Native(u)
  <1>1. events' = events
    BY DEF contractVars
  <1>2. u \in CosmosTokens /\ u \in Tokens /\ d \in Denoms
    BY TokenFacts, DenomFacts
  <1>3. a \in Nat
    BY EventFields, LogFacts DEF BInv, IInv
  <1>4. bank \in Banks /\ Module \in Holders
    BY DEF BInv, MoneyTypeOK, Banks, Holders
  <1>5. Changes(bank, bank', Module, d, a)
    BY <1>2, <1>3, <1>4, MintChanges
  <1>6. /\ \A t : Adds(events[n], "deposit", t) = 0
        /\ \A t : t # u => Adds(events[n], "valset", t) = 0
        /\ Adds(events[n], "valset", u) = a
    BY DEF Adds
  <1>7. /\ \A t : Uncredited(t)' = Uncredited(t) /\ Uncredited(t) \in Nat
        /\ \A t : /\ UnobservedRewards(t)' \in Nat
                  /\ UnobservedRewards(t) = UnobservedRewards(t)' + Adds(events[n], "valset", t)
    <2>1. \A t : /\ Uncredited(t)' \in Nat
                 /\ Uncredited(t) = Uncredited(t)' + Adds(events[n], "deposit", t)
      BY <1>1, ObservedSums
    <2>2. \A t : Uncredited(t)' = Uncredited(t)
      BY <1>6, <2>1
    <2> QED
      BY <1>1, <2>1, <2>2, ObservedSums
  <1> HIDE DEF u, a, d
  <1>8. bank' \in Banks
    BY <1>5 DEF Changes
  <1>9. \A h \in Holders, t \in CosmosTokens : bank'[<<h, Voucher(t)>>] = 0
    <2> SUFFICES ASSUME NEW h \in Holders, NEW t \in CosmosTokens
                 PROVE  bank'[<<h, Voucher(t)>>] = 0
      OBVIOUS
    <2>1. Voucher(t) \in Denoms /\ Voucher(t) # d
      BY DenomFacts DEF Tokens, d
    <2> QED
      BY <1>5, <2>1 DEF Changes, BInv, NoVouchersOfCosmosTokens
  <1>10. \A t \in EthereumTokens \ PermanentSwap :
             Held(bank', Voucher(t)) + Uncredited(t)' = Held(bank, Voucher(t)) + Uncredited(t)
    <2> SUFFICES ASSUME NEW t \in EthereumTokens \ PermanentSwap
                 PROVE  Held(bank', Voucher(t)) = Held(bank, Voucher(t))
      BY <1>7
    <2>1. Voucher(t) \in Denoms /\ Voucher(t) # d
      BY DenomFacts DEF Tokens, d
    <2> QED
      BY <1>5, <2>1, HeldChanges
  <1>11. ASSUME NEW t \in CosmosTokens
         PROVE  /\ bank'[<<Module, Native(t)>>] =
                       bank[<<Module, Native(t)>>] + Adds(events[n], "valset", t)
                /\ bank[<<Module, Native(t)>>] \in Nat /\ bank'[<<Module, Native(t)>>] \in Nat
                /\ Adds(events[n], "valset", t) \in Nat
    <2>1. Native(t) \in Denoms /\ t \in Tokens /\ (t # u => Native(t) # d)
          /\ (t = u => Native(t) = d)
      BY DenomFacts DEF Tokens, d
    <2>2. bank[<<Module, Native(t)>>] \in Nat
      <3>1. <<Module, Native(t)>> \in Holders \X Denoms
        BY <1>4, <2>1
      <3> QED
        BY <1>4, <3>1 DEF Banks
    <2>3. CASE t = u
      BY <1>3, <1>5, <1>6, <2>1, <2>2, <2>3 DEF Changes
    <2>4. CASE t # u
      BY <1>4, <1>5, <1>6, <2>1, <2>2, <2>4 DEF Changes
    <2> QED
      BY <2>3, <2>4
  <1>12. \A t \in CosmosTokens :
             /\ bank'[<<Module, Native(t)>>] + UnobservedRewards(t)' + Uncredited(t) =
                    bank[<<Module, Native(t)>>] + UnobservedRewards(t) + Uncredited(t)'
             /\ bank[<<Module, Native(t)>>] + Adds(events[n], "valset", t) <=
                    bank'[<<Module, Native(t)>>] + Adds(events[n], "deposit", t)
    <2> SUFFICES ASSUME NEW t \in CosmosTokens
                 PROVE  /\ bank'[<<Module, Native(t)>>] + UnobservedRewards(t)' + Uncredited(t) =
                               bank[<<Module, Native(t)>>] + UnobservedRewards(t) + Uncredited(t)'
                        /\ bank[<<Module, Native(t)>>] + Adds(events[n], "valset", t) <=
                               bank'[<<Module, Native(t)>>] + Adds(events[n], "deposit", t)
      OBVIOUS
    <2>1. /\ Uncredited(t)' = Uncredited(t) /\ Uncredited(t) \in Nat
          /\ UnobservedRewards(t)' \in Nat
          /\ UnobservedRewards(t) = UnobservedRewards(t)' + Adds(events[n], "valset", t)
          /\ Adds(events[n], "deposit", t) = 0
      BY <1>6, <1>7
    <2>2. /\ bank'[<<Module, Native(t)>>] =
                 bank[<<Module, Native(t)>>] + Adds(events[n], "valset", t)
          /\ bank[<<Module, Native(t)>>] \in Nat /\ bank'[<<Module, Native(t)>>] \in Nat
          /\ Adds(events[n], "valset", t) \in Nat
      BY <1>11
    <2> QED
      BY ONLY <2>1, <2>2
  <1>13. n \in failed' => \/ events[n].receiver \notin Accounts
                         \/ events[n].kind # "deposit"
    OBVIOUS
  <1> QED
    BY <1>8, <1>9, <1>10, <1>12, <1>13, ObserveBInv

\* What a deposit takes from the sums when it is credited.
LEMMA DepositSums ==
    ASSUME BInv, NEW n \in DOMAIN events, n = lastObservedEventNonce + 1,
           lastObservedEventNonce' = n, events' = events, failed' = failed,
           events[n].kind = "deposit"
    PROVE  /\ \A t : UnobservedRewards(t)' = UnobservedRewards(t)
           /\ \A t : UnobservedRewards(t) \in Nat
           /\ \A t : /\ Uncredited(t)' \in Nat
                     /\ Uncredited(t) = Uncredited(t)' + Adds(events[n], "deposit", t)
           /\ \A t : Adds(events[n], "valset", t) = 0
           /\ \A t : t # events[n].token => Adds(events[n], "deposit", t) = 0
           /\ Adds(events[n], "deposit", events[n].token) = events[n].amount
           /\ events[n].amount \in Nat
           /\ n \notin failed
  <1>1. \A t : Adds(events[n], "valset", t) = 0
    BY AddsOfOtherKinds
  <1>2. /\ \A t : t # events[n].token => Adds(events[n], "deposit", t) = 0
        /\ Adds(events[n], "deposit", events[n].token) = events[n].amount
    BY DEF Adds
  <1>3. \A t : UnobservedRewards(t)' = UnobservedRewards(t) /\ UnobservedRewards(t) \in Nat
    <2>1. \A t : /\ UnobservedRewards(t)' \in Nat
                 /\ UnobservedRewards(t) = UnobservedRewards(t)' + Adds(events[n], "valset", t)
      BY ObservedSums
    <2> QED
      BY <1>1, <2>1
  <1>4. \A t : /\ Uncredited(t)' \in Nat
               /\ Uncredited(t) = Uncredited(t)' + Adds(events[n], "deposit", t)
    BY ObservedSums
  <1>5. events[n].amount \in Nat
    BY EventFields, LogFacts DEF BInv, IInv
  <1>6. n \notin failed
    BY LedgerFacts DEF Unobserved
  <1> QED
    BY <1>1, <1>2, <1>3, <1>4, <1>5, <1>6

\* A deposit to an address that is none stays uncredited for ever.
LEMMA ObserveDepositFailed ==
    ASSUME BInv, IInv', NEW n \in DOMAIN events, n = lastObservedEventNonce + 1,
           lastObservedEventNonce' = n, UNCHANGED contractVars,
           checkpoints' = checkpoints, InTransit' \subseteq InTransit, Open' = Open,
           cosmosOriginated' = cosmosOriginated, failed' = failed \cup {n},
           events[n].kind = "deposit", events[n].receiver \notin Accounts, bank' = bank
    PROVE  BInv'
  <1>1. events' = events
    BY DEF contractVars
  <1>2. \A t : Adds(events[n], "valset", t) = 0
    BY AddsOfOtherKinds
  <1>3. \A t : Uncredited(t)' = Uncredited(t) /\ Uncredited(t) \in Nat
    BY <1>1, ObservedSums, LedgerFacts
  <1>4. \A t : UnobservedRewards(t)' = UnobservedRewards(t)
    <2>1. \A t : /\ UnobservedRewards(t)' \in Nat
                 /\ UnobservedRewards(t) = UnobservedRewards(t)' + Adds(events[n], "valset", t)
      BY <1>1, ObservedSums
    <2> QED
      BY <1>2, <2>1
  <1>5. bank' \in Banks /\ \A h \in Holders, t \in CosmosTokens : bank'[<<h, Voucher(t)>>] = 0
    BY DEF BInv, MoneyTypeOK, Banks, NoVouchersOfCosmosTokens
  <1>6. \A t \in EthereumTokens \ PermanentSwap :
            Held(bank', Voucher(t)) + Uncredited(t)' = Held(bank, Voucher(t)) + Uncredited(t)
    BY <1>3
  <1>7. \A t \in CosmosTokens :
            bank'[<<Module, Native(t)>>] + UnobservedRewards(t)' + Uncredited(t) =
                bank[<<Module, Native(t)>>] + UnobservedRewards(t) + Uncredited(t)'
    BY <1>3, <1>4
  <1>8. \A t \in CosmosTokens :
            bank[<<Module, Native(t)>>] + Adds(events[n], "valset", t) <=
                bank'[<<Module, Native(t)>>] + Adds(events[n], "deposit", t)
    <2> SUFFICES ASSUME NEW t \in CosmosTokens
                 PROVE  bank[<<Module, Native(t)>>] + 0 <=
                            bank[<<Module, Native(t)>>] + Adds(events[n], "deposit", t)
      BY <1>2
    <2>1. bank[<<Module, Native(t)>>] \in Nat
      <3>1. <<Module, Native(t)>> \in Holders \X Denoms
        BY DenomFacts DEF Holders, Tokens
      <3> QED
        BY <3>1 DEF BInv, MoneyTypeOK
    <2>2. Adds(events[n], "deposit", t) \in Nat
      BY <1>1, ObservedSums
    <2> QED
      BY <2>1, <2>2
  <1> QED
    BY <1>5, <1>6, <1>7, <1>8, ObserveBInv

\* A deposit of an Ethereum token is minted.
LEMMA ObserveDepositMinted ==
    ASSUME BInv, IInv', NEW n \in DOMAIN events, n = lastObservedEventNonce + 1,
           lastObservedEventNonce' = n, UNCHANGED contractVars,
           checkpoints' = checkpoints, InTransit' \subseteq InTransit, Open' = Open,
           cosmosOriginated' = cosmosOriginated, failed' = failed,
           events[n].kind = "deposit", events[n].receiver \in Accounts,
           events[n].token \in EthereumTokens,
           NEW d, d = IF events[n].token \in PermanentSwap THEN Native(events[n].token)
                      ELSE Voucher(events[n].token),
           bank' = Mint(bank, events[n].receiver, d, events[n].amount)
    PROVE  BInv'
  <1> DEFINE u == events[n].token
             a == events[n].amount
             r == events[n].receiver
  <1>1. events' = events
    BY DEF contractVars
  <1>2. u \in Tokens /\ u \notin CosmosTokens /\ d \in Denoms
    BY TokenFacts, DenomFacts
  <1>3. bank \in Banks /\ r \in Holders
    BY DEF BInv, MoneyTypeOK, Banks, Holders
  <1>4. /\ \A t : UnobservedRewards(t)' = UnobservedRewards(t)
        /\ \A t : /\ Uncredited(t)' \in Nat
                  /\ Uncredited(t) = Uncredited(t)' + Adds(events[n], "deposit", t)
        /\ \A t : Adds(events[n], "valset", t) = 0
        /\ \A t : t # u => Adds(events[n], "deposit", t) = 0
        /\ Adds(events[n], "deposit", u) = a
        /\ a \in Nat /\ n \notin failed
    BY <1>1, DepositSums
  <1>5. Changes(bank, bank', r, d, a)
    BY <1>2, <1>3, <1>4, MintChanges
  <1>6. /\ u \in PermanentSwap => d = Native(u)
        /\ u \notin PermanentSwap => d = Voucher(u)
    OBVIOUS
  <1> HIDE DEF u, a, r
  <1>7. bank' \in Banks
    BY <1>5 DEF Changes
  <1>8. \A t \in CosmosTokens :
            /\ Voucher(t) \in Denoms /\ Voucher(t) # d
            /\ Native(t) \in Denoms /\ Native(t) # d
    BY <1>2, <1>6, DenomFacts DEF Tokens
  <1>9. \A h \in Holders, t \in CosmosTokens : bank'[<<h, Voucher(t)>>] = 0
    BY <1>5, <1>8 DEF Changes, BInv, NoVouchersOfCosmosTokens
  <1>10. ASSUME NEW t \in EthereumTokens \ PermanentSwap
         PROVE  Held(bank', Voucher(t)) + Uncredited(t)' = Held(bank, Voucher(t)) + Uncredited(t)
    <2>1. Voucher(t) \in Denoms
      BY DenomFacts DEF Tokens
    <2>2. Held(bank, Voucher(t)) \in Nat /\ Held(bank', Voucher(t)) \in Nat
      BY <1>5, <2>1, HeldChanges
    <2>3. Uncredited(t)' \in Nat /\ Uncredited(t) = Uncredited(t)' + Adds(events[n], "deposit", t)
      BY <1>4
    <2>4. CASE t = u
      <3>1. Voucher(t) = d
        BY <1>6, <2>4
      <3>2. Held(bank', Voucher(t)) = Held(bank, Voucher(t)) + a
        BY <1>5, <3>1, HeldChanges
      <3>3. Adds(events[n], "deposit", t) = a /\ a \in Nat
        BY <1>4, <2>4
      <3> QED
        BY ONLY <2>2, <2>3, <3>2, <3>3
    <2>5. CASE t # u
      <3>1. Voucher(t) # d
        BY <1>6, <2>5, DenomFacts
      <3>2. Held(bank', Voucher(t)) = Held(bank, Voucher(t))
        BY <1>5, <2>1, <3>1, HeldChanges
      <3>3. Adds(events[n], "deposit", t) = 0
        BY <1>4, <2>5
      <3> QED
        BY ONLY <2>2, <2>3, <3>2, <3>3
    <2> QED
      BY <2>4, <2>5
  <1>11. ASSUME NEW t \in CosmosTokens
         PROVE  /\ bank'[<<Module, Native(t)>>] + UnobservedRewards(t)' + Uncredited(t) =
                       bank[<<Module, Native(t)>>] + UnobservedRewards(t) + Uncredited(t)'
                /\ bank[<<Module, Native(t)>>] + Adds(events[n], "valset", t) <=
                       bank'[<<Module, Native(t)>>] + Adds(events[n], "deposit", t)
    <2>1. Module \in Holders
      BY DEF Holders
    <2>2. bank'[<<Module, Native(t)>>] = bank[<<Module, Native(t)>>]
      BY <1>5, <1>8, <2>1 DEF Changes
    <2>3. bank[<<Module, Native(t)>>] \in Nat
      <3>1. <<Module, Native(t)>> \in Holders \X Denoms
        BY <1>8, <2>1
      <3> QED
        BY <1>3, <3>1 DEF Banks
    <2>4. Adds(events[n], "deposit", t) = 0 /\ Adds(events[n], "valset", t) = 0
      BY <1>2, <1>4
    <2>5. /\ UnobservedRewards(t)' = UnobservedRewards(t)
          /\ Uncredited(t)' \in Nat
          /\ Uncredited(t) = Uncredited(t)' + Adds(events[n], "deposit", t)
      BY <1>4
    <2>6. Uncredited(t) = Uncredited(t)'
      BY ONLY <2>4, <2>5
    <2>7. bank[<<Module, Native(t)>>] + 0 <= bank[<<Module, Native(t)>>] + 0
      BY ONLY <2>3
    <2> QED
      BY ONLY <2>2, <2>4, <2>5, <2>6, <2>7
  <1>12. n \notin failed'
    BY <1>4
  <1> QED
    BY <1>7, <1>9, <1>10, <1>11, <1>12, ObserveBInv

\* The module account can pay the deposit that is observed next: of all that
\* Solvent says, the point right after it.
LEMMA DepositIsCovered ==
    ASSUME BInv, NEW n \in DOMAIN events, n = lastObservedEventNonce + 1,
           lastObservedEventNonce' = n, events' = events,
           events[n].kind = "deposit", events[n].token \in CosmosTokens
    PROVE  bank[<<Module, Native(events[n].token)>>] >= events[n].amount
  <1>1. PICK u : u = events[n].token
    OBVIOUS
  <1>2. n \in lastObservedEventNonce..Len(events) /\ n \in n..Len(events)
    BY LedgerFacts
  <1>3. SumOver(events, Coming(n), "deposit", u) <=
            bank[<<Module, Native(u)>>] + SumOver(events, Coming(n), "valset", u)
    BY <1>1, <1>2 DEF BInv, Solvent
  <1>4. /\ SumOver(events, Coming(n), "deposit", u) =
               SumOver(events, Coming(n)', "deposit", u) + Adds(events[n], "deposit", u)
        /\ SumOver(events, Coming(n), "valset", u) =
               SumOver(events, Coming(n)', "valset", u) + Adds(events[n], "valset", u)
        /\ Coming(n)' = {}
    BY <1>2, ObservedSums
  <1>5. \A kind : SumOver(events, {}, kind, u) = 0
    <2> SUFFICES ASSUME NEW kind PROVE SumOver(events, {}, kind, u) = 0
      OBVIOUS
    <2>1. {i \in {} : events[i].kind = kind /\ events[i].token = u} = {}
      OBVIOUS
    <2> QED
      BY <2>1, WorthOfNone DEF SumOver
  <1>6. Adds(events[n], "valset", u) = 0 /\ Adds(events[n], "deposit", u) = events[n].amount
    BY <1>1 DEF Adds
  <1>7. events[n].amount \in Nat
    BY EventFields, LogFacts DEF BInv, IInv
  <1>8. bank[<<Module, Native(u)>>] \in Nat
    <2>1. <<Module, Native(u)>> \in Holders \X Denoms
      BY <1>1, DenomFacts DEF Holders, Tokens
    <2> QED
      BY <2>1 DEF BInv, MoneyTypeOK
  <1>9. SumOver(events, Coming(n), "deposit", u) = events[n].amount
        /\ SumOver(events, Coming(n), "valset", u) = 0
    BY <1>4, <1>5, <1>6, <1>7
  <1>10. bank[<<Module, Native(u)>>] >= events[n].amount
    BY ONLY <1>3, <1>7, <1>8, <1>9
  <1> QED
    BY <1>1, <1>10

\* A deposit of a Cosmos token is unlocked from the module account.
LEMMA ObserveDepositUnlocked ==
    ASSUME BInv, IInv', NEW n \in DOMAIN events, n = lastObservedEventNonce + 1,
           lastObservedEventNonce' = n, UNCHANGED contractVars,
           checkpoints' = checkpoints, InTransit' \subseteq InTransit, Open' = Open,
           cosmosOriginated' = cosmosOriginated, failed' = failed,
           events[n].kind = "deposit", events[n].receiver \in Accounts,
           events[n].token \in CosmosTokens,
           bank' = Send(bank, Module, events[n].receiver, Native(events[n].token),
                        events[n].amount)
    PROVE  BInv'
  <1> DEFINE u == events[n].token
             a == events[n].amount
             r == events[n].receiver
             d == Native(u)
  <1>1. events' = events
    BY DEF contractVars
  <1>2. u \in Tokens /\ d \in Denoms
    BY TokenFacts, DenomFacts
  <1>3. bank \in Banks /\ r \in Holders /\ Module \in Holders /\ Module # r
    BY BridgeDataAssumption DEF BInv, MoneyTypeOK, Banks, Holders
  <1>4. /\ \A t : UnobservedRewards(t)' = UnobservedRewards(t)
        /\ \A t : UnobservedRewards(t) \in Nat
        /\ \A t : /\ Uncredited(t)' \in Nat
                  /\ Uncredited(t) = Uncredited(t)' + Adds(events[n], "deposit", t)
        /\ \A t : Adds(events[n], "valset", t) = 0
        /\ \A t : t # u => Adds(events[n], "deposit", t) = 0
        /\ Adds(events[n], "deposit", u) = a
        /\ a \in Nat /\ n \notin failed
    BY <1>1, DepositSums
  <1>5. bank[<<Module, d>>] >= a
    BY <1>1, DepositIsCovered
  <1>6. /\ bank' \in Banks
        /\ bank'[<<Module, d>>] = bank[<<Module, d>>] - a
        /\ \A g \in Holders, e \in Denoms : e # d => bank'[<<g, e>>] = bank[<<g, e>>]
        /\ \A e \in Denoms : Held(bank', e) = Held(bank, e)
    <2>1. bank' = Send(bank, Module, r, d, a) /\ a \in Nat
      BY <1>4
    <2>2. Covers(bank, Module, d, a)
      BY <1>5 DEF Covers
    <2> HIDE DEF r, d, a, u
    <2>3. Leaves(bank, bank', Module, d, a)
      BY <1>2, <1>3, <2>1, <2>2, SendLeaves
    <2> QED
      BY <2>3 DEF Leaves
  <1> HIDE DEF a, r
  <1>7. \A h \in Holders, t \in CosmosTokens : bank'[<<h, Voucher(t)>>] = 0
    <2> SUFFICES ASSUME NEW h \in Holders, NEW t \in CosmosTokens
                 PROVE  bank'[<<h, Voucher(t)>>] = 0
      OBVIOUS
    <2>1. Voucher(t) \in Denoms /\ Voucher(t) # d
      BY DenomFacts DEF Tokens
    <2> QED
      BY <1>6, <2>1 DEF BInv, NoVouchersOfCosmosTokens
  <1>8. \A t \in EthereumTokens \ PermanentSwap :
            Held(bank', Voucher(t)) + Uncredited(t)' = Held(bank, Voucher(t)) + Uncredited(t)
    <2> SUFFICES ASSUME NEW t \in EthereumTokens \ PermanentSwap
                 PROVE  /\ Held(bank', Voucher(t)) = Held(bank, Voucher(t))
                        /\ Uncredited(t)' = Uncredited(t)
      OBVIOUS
    <2>1. Voucher(t) \in Denoms /\ t # u
      BY DenomFacts, TokenFacts DEF Tokens
    <2>2. Uncredited(t)' \in Nat /\ Uncredited(t) = Uncredited(t)' + 0
      BY <1>4, <2>1
    <2> QED
      BY <1>6, <2>1, <2>2
  <1>9. ASSUME NEW t \in CosmosTokens
        PROVE  /\ bank'[<<Module, Native(t)>>] + UnobservedRewards(t)' + Uncredited(t) =
                      bank[<<Module, Native(t)>>] + UnobservedRewards(t) + Uncredited(t)'
               /\ bank[<<Module, Native(t)>>] + Adds(events[n], "valset", t) <=
                      bank'[<<Module, Native(t)>>] + Adds(events[n], "deposit", t)
    <2>1. Native(t) \in Denoms /\ (t # u => Native(t) # d) /\ (t = u => Native(t) = d)
      BY DenomFacts DEF Tokens
    <2> HIDE DEF d, u
    <2>2. bank[<<Module, Native(t)>>] \in Nat /\ bank'[<<Module, Native(t)>>] \in Nat
      <3>1. <<Module, Native(t)>> \in Holders \X Denoms
        BY <1>3, <2>1
      <3> QED
        BY <1>3, <1>6, <3>1 DEF Banks
    <2>3. /\ UnobservedRewards(t)' = UnobservedRewards(t) /\ UnobservedRewards(t) \in Nat
          /\ Uncredited(t)' \in Nat
          /\ Uncredited(t) = Uncredited(t)' + Adds(events[n], "deposit", t)
          /\ Adds(events[n], "valset", t) = 0
      BY <1>4
    <2>4. /\ bank'[<<Module, Native(t)>>] =
                 bank[<<Module, Native(t)>>] - Adds(events[n], "deposit", t)
          /\ Adds(events[n], "deposit", t) \in Nat
      <3>1. CASE t = u
        BY <1>4, <1>6, <2>1, <3>1
      <3>2. CASE t # u
        <4>1. bank'[<<Module, Native(t)>>] = bank[<<Module, Native(t)>>]
          BY <1>3, <1>6, <2>1, <3>2
        <4>2. Adds(events[n], "deposit", t) = 0
          BY <1>4, <3>2
        <4> QED
          BY <2>2, <4>1, <4>2
      <3> QED
        BY <3>1, <3>2
    <2> QED
      BY ONLY <2>2, <2>3, <2>4
  <1>10. n \notin failed'
    BY <1>4
  <1> QED
    BY <1>6, <1>7, <1>8, <1>9, <1>10, ObserveBInv

\* Every step of the oracle keeps the invariant.
LEMMA OracleBInv ==
    ASSUME BInv, IInv', Oracle
    PROVE  BInv'
  <1>1. PICK n \in DOMAIN events : ObserveEvent(n, events[n])
    BY DEF Oracle
  <1>2. UNCHANGED contractVars
    BY DEF Oracle
  <1>3. IInv
    BY DEF BInv
  <1>4. /\ n = lastObservedEventNonce + 1 /\ n > lastObservedEventNonce
        /\ lastObservedEventNonce' = n /\ events' = events
        /\ checkpoints' = checkpoints
        /\ Handle(n, events[n])
    BY <1>1, <1>2, <1>3, ObserveAdvances
  <1>5. InTransit' \subseteq InTransit /\ Open' = Open
    BY <1>1, <1>2, <1>3, ObserveEventMoves
  <1>6. CASE events[n].kind = "batch"
    <2>1. HandleBatchSendToEth(n, events[n])
      BY <1>4, <1>6 DEF Handle
    <2>2. bank' = bank /\ cosmosOriginated' = cosmosOriginated /\ failed' = failed
      BY <2>1 DEF HandleBatchSendToEth
    <2>3. \A t : Adds(events[n], "valset", t) = 0
      BY <1>6, AddsOfOtherKinds
    <2> QED
      BY <1>2, <1>4, <1>5, <1>6, <2>2, <2>3, ObserveWithoutCoins
  <1>7. CASE events[n].kind = "erc20"
    <2>1. HandleERC20Deployed(n, events[n])
      BY <1>4, <1>7 DEF Handle
    <2>2. /\ bank' = bank /\ cosmosOriginated \subseteq cosmosOriginated'
          /\ failed' = failed \/ failed' = failed \cup {n}
      BY <2>1 DEF HandleERC20Deployed
    <2>3. \A t : Adds(events[n], "valset", t) = 0
      BY <1>7, AddsOfOtherKinds
    <2> QED
      BY <1>2, <1>4, <1>5, <1>7, <2>2, <2>3, ObserveWithoutCoins
  <1>8. CASE events[n].kind = "valset"
    <2>1. HandleValsetUpdated(n, events[n])
      BY <1>4, <1>8 DEF Handle
    <2>2. cosmosOriginated' = cosmosOriginated /\ failed' = failed
      BY <2>1 DEF HandleValsetUpdated
    <2>3. events[n].amount \in Nat
      BY <1>3, EventFields, LogFacts DEF IInv
    <2>4. CASE events[n].amount = 0
      <3>1. bank' = bank
        BY <2>1, <2>4 DEF HandleValsetUpdated
      <3>2. \A t : Adds(events[n], "valset", t) = 0
        BY <2>4 DEF Adds
      <3> QED
        BY <1>2, <1>4, <1>5, <1>8, <2>2, <3>1, <3>2, ObserveWithoutCoins
    <2>5. CASE events[n].amount # 0
      <3>1. events[n].token \in cosmosOriginated
        BY <1>3, <1>8, <2>5 DEF IInv, RewardsAreKnown
      <3>2. bank' = Mint(bank, Module, Native(events[n].token), events[n].amount)
        BY <2>1, <2>3, <2>5, <3>1 DEF HandleValsetUpdated
      <3> QED
        BY <1>2, <1>4, <1>5, <1>8, <2>2, <3>1, <3>2, ObserveReward
    <2> QED
      BY <2>4, <2>5
  <1>9. CASE events[n].kind = "deposit"
    <2>1. HandleSendToCosmos(n, events[n])
      BY <1>4, <1>9 DEF Handle
    <2>2. cosmosOriginated' = cosmosOriginated
      BY <2>1 DEF HandleSendToCosmos
    <2>3. /\ events[n].token \in Tokens
          /\ events[n].token \in CosmosTokens => events[n].token \in cosmosOriginated
      BY <1>9 DEF BInv, TokensAreKnown
    <2>4. CASE events[n].receiver \notin Accounts
      <3>1. bank' = bank /\ failed' = failed \cup {n}
        BY <2>1, <2>4 DEF HandleSendToCosmos
      <3> QED
        BY <1>2, <1>4, <1>5, <1>9, <2>2, <2>4, <3>1, ObserveDepositFailed
    <2>5. CASE events[n].receiver \in Accounts /\ events[n].token \in CosmosTokens
      <3>1. IsUnlocked(events[n].token) /\ DepositDenom(events[n].token) = Native(events[n].token)
        BY <2>3, <2>5 DEF IsUnlocked, DepositDenom
      <3>2. bank[<<Module, Native(events[n].token)>>] >= events[n].amount
        BY <1>4, <1>9, <2>5, DepositIsCovered
      <3>3. /\ failed' = failed
            /\ bank' = Send(bank, Module, events[n].receiver, Native(events[n].token),
                            events[n].amount)
        BY <2>1, <2>5, <3>1, <3>2 DEF HandleSendToCosmos
      <3> QED
        BY <1>2, <1>4, <1>5, <1>9, <2>2, <2>5, <3>3, ObserveDepositUnlocked
    <2>6. CASE events[n].receiver \in Accounts /\ events[n].token \in EthereumTokens
      <3>1. events[n].token \notin cosmosOriginated
        BY <2>6, TokenFacts
      <3>2. PICK d : d = IF events[n].token \in PermanentSwap THEN Native(events[n].token)
                         ELSE Voucher(events[n].token)
        OBVIOUS
      <3>3. ~IsUnlocked(events[n].token) /\ DepositDenom(events[n].token) = d
        BY <3>1, <3>2 DEF IsUnlocked, DepositDenom
      <3>4. failed' = failed /\ bank' = Mint(bank, events[n].receiver, d, events[n].amount)
        BY <2>1, <2>6, <3>3 DEF HandleSendToCosmos
      <3> QED
        BY <1>2, <1>4, <1>5, <1>9, <2>2, <2>6, <3>2, <3>4, ObserveDepositMinted
    <2> QED
      BY <2>3, <2>4, <2>5, <2>6 DEF Tokens
  <1> QED
    BY <1>4, <1>6, <1>7, <1>8, <1>9 DEF Handle

\* At the start nothing has moved.
LEMMA InitBInv == Init => BInv
  <1> SUFFICES ASSUME Init PROVE BInv
    OBVIOUS
  <1>1. IInv
    BY InitIInv
  <1>2. /\ Len(events) = 1 /\ DOMAIN events = 1..1
        /\ events[1].kind = "valset" /\ events[1].token = NoToken /\ events[1].amount = 0
    BY DEF Init, ContractInit
  <1>3. /\ pool = {} /\ batches = {} /\ checkpoints = {} /\ cosmosOriginated = {}
        /\ lastObservedEventNonce = 0 /\ failed = {}
        /\ escrow = [t \in Tokens |-> 0]
        /\ ethUsers = [t \in Tokens |-> IF t \in EthereumTokens THEN EthereumSupply ELSE 0]
    BY DEF Init, KeeperInit, ContractInit
  <1>4. bank = [hd \in Holders \X Denoms |->
                   IF hd[1] \in Accounts /\ hd[2] \in {Native(t) : t \in CosmosTokens}
                   THEN InitialCoins ELSE 0]
    BY DEF Init, KeeperInit, Holders
  <1>5. CosmosTokens \subseteq Tokens /\ EthereumTokens \subseteq Tokens
        /\ EthereumTokens \cap CosmosTokens = {} /\ NoToken \notin Tokens
    BY BridgeDataAssumption DEF Tokens
  <1>6. bank \in Banks
    BY <1>4, KeeperAssumption DEF Banks
  <1>7. MoneyTypeOK
    BY <1>3, <1>6, ContractAssumption DEF MoneyTypeOK, Banks
  <1>8. \A h \in Holders, t \in Tokens : bank[<<h, Voucher(t)>>] = 0
    <2> SUFFICES ASSUME NEW h \in Holders, NEW t \in Tokens
                 PROVE  bank[<<h, Voucher(t)>>] = 0
      OBVIOUS
    <2>1. <<h, Voucher(t)>> \in Holders \X Denoms /\ Voucher(t) \notin {Native(u) : u \in CosmosTokens}
      BY DenomFacts
    <2> QED
      BY <1>4, <2>1
  <1>9. \A t \in CosmosTokens : bank[<<Module, Native(t)>>] = 0
    <2> SUFFICES ASSUME NEW t \in CosmosTokens
                 PROVE  bank[<<Module, Native(t)>>] = 0
      OBVIOUS
    <2>1. <<Module, Native(t)>> \in Holders \X Denoms /\ Module \notin Accounts
      BY <1>5, DenomFacts, BridgeDataAssumption DEF Holders
    <2> QED
      BY <1>4, <2>1
  <1>10. InTransit = {} /\ \A t : InFlight(t) = {}
    BY <1>3 DEF InTransit, InFlight
  <1>11. TransitIsFinite /\ FailedWereObserved /\ DepositsAreCredited
    BY <1>3, <1>10, FS_EmptySet DEF TransitIsFinite, FailedWereObserved, DepositsAreCredited
  <1>12. TokensAreKnown
    BY <1>2, <1>3, <1>5, <1>10 DEF TokensAreKnown
  <1>13. NoVouchersOfCosmosTokens
    BY <1>5, <1>8 DEF NoVouchersOfCosmosTokens
  <1>14. ASSUME NEW S \in SUBSET DOMAIN events, NEW kind, NEW t \in Tokens
         PROVE  SumOver(events, S, kind, t) = 0
    <2>1. {i \in S : events[i].kind = kind /\ events[i].token = t} = {}
      BY <1>2, <1>5
    <2> QED
      BY <2>1, WorthOfNone DEF SumOver
  <1>15. ASSUME NEW t \in Tokens PROVE Uncredited(t) = 0 /\ UnobservedRewards(t) = 0
    <2>1. Unobserved \cup failed \in SUBSET DOMAIN events /\ Unobserved \in SUBSET DOMAIN events
      BY <1>3 DEF Unobserved
    <2>2. /\ Uncredited(t) = SumOver(events, Unobserved \cup failed, "deposit", t)
          /\ UnobservedRewards(t) = SumOver(events, Unobserved, "valset", t)
      BY DEF Uncredited, UnobservedRewards, SumOver
    <2> QED
      BY <1>14, <2>1, <2>2
  <1>16. Total({}) = 0
    <2>1. {} \in SUBSET OutgoingTransferTx /\ IsFiniteSet({})
      BY FS_EmptySet
    <2> QED
      BY <2>1, TotalIsSum, SumEmpty
  <1>17. ASSUME NEW t \in Tokens PROVE Supply(Voucher(t)) = 0
    <2>1. PICK f : f = [h \in Holders |-> bank[<<h, Voucher(t)>>]]
      OBVIOUS
    <2>2. \A h \in Holders : f[h] = 0
      BY <1>8, <2>1
    <2>3. IsFiniteSet(Holders)
      BY BridgeDataAssumption, FS_AddElement DEF Holders
    <2>4. SumOf(f, Holders) = 0
      BY <2>2, <2>3, SumZero
    <2> QED
      BY <2>1, <2>4, HeldIsSum DEF Supply
  <1>18. FullyBacked
    BY <1>3, <1>5, <1>9, <1>10, <1>15, <1>16, <1>17 DEF FullyBacked
  <1>19. Solvent
    <2> SUFFICES ASSUME NEW t \in CosmosTokens,
                        NEW k \in lastObservedEventNonce..Len(events)
                 PROVE  SumOver(events, Coming(k), "deposit", t) <=
                            bank[<<Module, Native(t)>>] + SumOver(events, Coming(k), "valset", t)
      BY DEF Solvent
    <2>1. Coming(k) \in SUBSET DOMAIN events
      BY <1>2, <1>3 DEF Coming
    <2> QED
      BY <1>5, <1>9, <1>14, <2>1
  <1> QED
    BY <1>1, <1>7, <1>11, <1>12, <1>13, <1>18, <1>19 DEF BInv

LEMMA NextBInv == BInv /\ [Next]_vars => BInv'
  <1> SUFFICES ASSUME BInv, [Next]_vars PROVE BInv'
    OBVIOUS
  <1>1. IInv'
    BY NextIInv DEF BInv
  <1>2. CASE Cosmos
    BY <1>1, <1>2, CosmosBInv
  <1>3. CASE Oracle
    BY <1>1, <1>3, OracleBInv
  <1>4. CASE Ethereum
    BY <1>1, <1>4, EthereumBInv
  <1>5. CASE UNCHANGED vars
    <2>1. /\ bank' = bank /\ pool' = pool /\ batches' = batches /\ checkpoints' = checkpoints
          /\ cosmosOriginated' = cosmosOriginated /\ failed' = failed
          /\ lastObservedEventNonce' = lastObservedEventNonce
          /\ events' = events /\ escrow' = escrow /\ ethUsers' = ethUsers
      BY <1>5 DEF vars, keeperVars, poolVars, chainVars, contractVars
    <2>2. InTransit' = InTransit /\ Open' = Open
      BY <2>1 DEF InTransit, Open, Paid, PaidBy, Executes
    <2>3. \A b \in checkpoints' :
              /\ \A x \in b.txs : x.token = b.token
              /\ b.token \in CosmosTokens => b.token \in cosmosOriginated
      BY <2>1 DEF BInv, TokensAreKnown
    <2> QED
      BY <1>1, <2>1, <2>2, <2>3, NoMoneyMoves
  <1> QED
    BY <1>2, <1>3, <1>4, <1>5 DEF Next

-----------------------------------------------------------------------------
\* The invariant of the money holds in every reachable state.
THEOREM SettlementInvariant == Spec => []BInv
  BY InitBInv, NextBInv, PTL DEF Spec

\* Every voucher is backed by a token that Gravity.sol holds, and every ERC20 of
\* a Cosmos denom by a coin that x/nab holds, to the last unit: whatever is
\* deposited, sent, cancelled, batched, executed, timed out, rewarded or left
\* unobserved (sendToCosmos, submitBatch, updateValset, AddToOutgoingPool,
\* RemoveFromOutgoingPoolAndRefund, Handle).
THEOREM BridgeIsBacked == Spec => []FullyBacked
  <1>1. BInv => FullyBacked
    BY DEF BInv
  <1> QED
    BY <1>1, SettlementInvariant, PTL

\* The coins that a deposit unlocks are there when HandleSendToCosmos sends
\* them: no deposit to an account fails, in whatever order events arrive.
THEOREM DepositsNeverFail == Spec => []DepositsAreCredited
  <1>1. BInv => DepositsAreCredited
    BY DEF BInv
  <1> QED
    BY <1>1, SettlementInvariant, PTL

=============================================================================
