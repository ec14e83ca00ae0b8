--------------------------- MODULE RelayerProofs ----------------------------
(***************************************************************************)
(* The relayer's promises for any plan of Cosmos, any number of tokens,    *)
(* batches, calls and validators, and any powers.                          *)
(***************************************************************************)
EXTENDS Relayer, DataLemmas

USE PlanAssumption

\* What the plan holds, and what the relayer makes of it.
Plannable == {s \in Subject : s.n \in DOMAIN Planned(s.kind)}
Estimates == {None} \cup (Nat \X Nat)
Txs == [subject : Plannable, current : Nat, sigs : SUBSET Validators, est : Estimates]
Loops == [todo : Seq(Txs), at : {"start", "pick", "send", "wait"}, est : Estimates]
Contract == [height : Nat, valset : Nat, batch : [Tokens -> Nat], call : [Ids -> Nat]]

TypeOK ==
    /\ plan \in Plans
    /\ held \subseteq Plannable /\ gone \subseteq Plannable
    /\ signers \in [Subject -> SUBSET Validators]
    /\ eth \in Contract
    /\ pool \in {None} \cup Txs
    /\ stage \in {"find", "found", "valset", "batches", "call"}
    /\ current \in Nat
    /\ seen \in [height : Nat, nonce : [Workers -> Nat]]
    /\ work \in [Workers -> Loops]

\* Against the contract that it was estimated with the transaction fails for no
\* other reason than its timeout.
Estimated(tx) ==
    /\ tx.current = tx.est[1]
    /\ Nonce(tx.subject) > tx.est[2]
    /\ ExceedsThreshold(Power(tx.sigs, tx.current))

\* The same, for a given plan.
EstimatedIn(p, tx) ==
    /\ tx.current = tx.est[1]
    /\ (IF tx.subject.kind = "call" THEN p.calls[tx.subject.n].nonce ELSE tx.subject.n) > tx.est[2]
    /\ ExceedsThreshold(PowerIn(p.valsets[tx.current], tx.sigs))

PoolIsEstimated == pool # None => Estimated(pool)

OnlyEstimatedIsSent ==
    \A w \in Workers : Busy(w, "send") => Estimated([First(w) EXCEPT !.est = work[w].est])

Sorted(items) ==
    \A i, j \in DOMAIN items : i < j => items[i].subject.n < items[j].subject.n

BatchesAreSorted == \A t \in Tokens : Sorted(work[t].todo)

\* A round begins with nothing left of the last one.
RoundStartsIdle == stage \in {"find", "found"} => \A w \in Workers : work[w] = Idle

\* The inductive invariant.
IInv == /\ TypeOK
        /\ PoolIsEstimated
        /\ OnlyEstimatedIsSent
        /\ BatchesAreSorted
        /\ RoundStartsIdle
        /\ RevertsAreExplained

-----------------------------------------------------------------------------
(* The plan                                                                *)

\* What the plan says of a subject that it holds.
LEMMA PlanTypes ==
    ASSUME TypeOK, NEW s \in Plannable
    PROVE  /\ s \in Subject /\ s.kind \in {"valset", "batch", "call"} /\ s.n \in Nat
           /\ s.kind = "valset" => s.n \in 1..Len(Valsets)
           /\ s.kind = "batch" => s.n \in 1..Len(Batches) /\ Batches[s.n].token \in Tokens
           /\ s.kind = "call" => Calls[s.n].id \in Ids
           /\ Nonce(s) \in Nat /\ Timeout(s) \in Nat
  <1>1. plan \in Plans
    BY DEF TypeOK
  <1>2. /\ Valsets \in Seq([Validators -> 0..TotalPower])
        /\ Batches \in Seq([token : Tokens, timeout : Nat])
        /\ Calls \in Seq([id : Ids, nonce : Nat, timeout : Nat])
        /\ MaxHeight \in Nat
    BY <1>1 DEF Valsets, Batches, Calls, MaxHeight
  <1>3. s \in Subject /\ s.kind \in {"valset", "batch", "call"} /\ s.n \in DOMAIN Planned(s.kind)
    BY DEF Plannable, Subject
  <1>4. CASE s.kind = "valset"
    BY <1>2, <1>3, <1>4 DEF Planned, Nonce, Timeout
  <1>5. CASE s.kind = "batch"
    <2> DEFINE B == [token : Tokens, timeout : Nat]
    <2>1. s.n \in 1..Len(Batches) /\ Batches[s.n] \in B
      <3>1. s.n \in DOMAIN Batches /\ Batches \in Seq(B)
        BY <1>2, <1>3, <1>5 DEF Planned
      <3> HIDE DEF B
      <3> QED
        BY <3>1
    <2> QED
      BY <1>3, <1>5, <2>1 DEF Nonce, Timeout
  <1>6. CASE s.kind = "call"
    <2> DEFINE C == [id : Ids, nonce : Nat, timeout : Nat]
    <2>1. s.n \in 1..Len(Calls) /\ Calls[s.n] \in C
      <3>1. s.n \in DOMAIN Calls /\ Calls \in Seq(C)
        BY <1>2, <1>3, <1>6 DEF Planned
      <3> HIDE DEF C
      <3> QED
        BY <3>1
    <2> QED
      BY <1>3, <1>6, <2>1 DEF Nonce, Timeout
  <1> QED
    BY <1>3, <1>4, <1>5, <1>6

\* The contract's nonce and the next height are numbers.
LEMMA ContractTypes ==
    ASSUME TypeOK
    PROVE  /\ NextHeight \in Nat
           /\ \A s \in Plannable : EthNonce(s) \in Nat /\ Executed(s) \in Contract
  <1>1. eth \in Contract /\ plan \in Plans
    BY DEF TypeOK
  <1>2. NextHeight \in Nat
    BY <1>1 DEF NextHeight, MaxHeight, Contract
  <1>3. [eth EXCEPT !.height = NextHeight] \in Contract
    BY <1>1, <1>2 DEF Contract
  <1>4. ASSUME NEW s \in Plannable
        PROVE  EthNonce(s) \in Nat /\ Executed(s) \in Contract
    <2>1. /\ s.kind \in {"valset", "batch", "call"} /\ s.n \in Nat /\ Nonce(s) \in Nat
          /\ s.kind = "batch" => Batches[s.n].token \in Tokens
          /\ s.kind = "call" => Calls[s.n].id \in Ids
      BY PlanTypes
    <2>2. EthNonce(s) \in Nat
      BY <1>1, <2>1 DEF EthNonce, get_valset_nonce, get_tx_batch_nonce, get_logic_call_nonce,
                        Contract
    <2> DEFINE e == [eth EXCEPT !.height = NextHeight]
    <2>3. e \in Contract
      BY <1>3
    <2> HIDE DEF e
    <2>4. CASE s.kind = "valset"
      <3>1. Executed(s) = [e EXCEPT !.valset = s.n]
        BY <2>4 DEF Executed, e
      <3> QED
        BY <2>1, <2>2, <2>3, <3>1 DEF Contract
    <2>5. CASE s.kind = "batch"
      <3>1. Executed(s) = [e EXCEPT !.batch[Batches[s.n].token] = s.n]
        BY <2>5 DEF Executed, e
      <3>2. [e.batch EXCEPT ![Batches[s.n].token] = s.n] \in [Tokens -> Nat]
        BY <2>1, <2>3, <2>5 DEF Contract
      <3>3. Executed(s) = [e EXCEPT !.batch = [e.batch EXCEPT ![Batches[s.n].token] = s.n]]
        BY <2>3, <3>1
      <3> QED
        BY <2>2, <2>3, <3>2, <3>3 DEF Contract
    <2>6. CASE s.kind = "call"
      <3>1. Executed(s) = [e EXCEPT !.call[Calls[s.n].id] = Nonce(s)]
        BY <2>6 DEF Executed, e
      <3>2. [e.call EXCEPT ![Calls[s.n].id] = Nonce(s)] \in [Ids -> Nat]
        BY <2>1, <2>3, <2>6 DEF Contract
      <3>3. Executed(s) = [e EXCEPT !.call = [e.call EXCEPT ![Calls[s.n].id] = Nonce(s)]]
        BY <2>3, <3>1
      <3> QED
        BY <2>2, <2>3, <3>2, <3>3 DEF Contract
    <2> QED
      BY <2>1, <2>4, <2>5, <2>6
  <1> QED
    BY <1>2, <1>4

\* The plan never changes, so neither does what is said of a transaction.
LEMMA SamePlan ==
    ASSUME plan' = plan
    PROVE  /\ Plannable' = Plannable /\ Txs' = Txs /\ Loops' = Loops
           /\ \A tx : Estimated(tx)' <=> Estimated(tx)
  <1>1. Plannable' = Plannable
    BY DEF Plannable, Planned, Valsets, Batches, Calls
  <1>2. Txs' = Txs
    BY <1>1 DEF Txs
  <1>3. Loops' = Loops
    BY <1>2 DEF Loops
  <1>4. ASSUME NEW tx
        PROVE  Estimated(tx)' <=> Estimated(tx)
    BY DEF Estimated, Nonce, Calls, Power, Valsets
  <1> QED
    BY <1>1, <1>2, <1>3, <1>4

-----------------------------------------------------------------------------
(* Every step keeps the invariant                                          *)

LEMMA InitIInv == Init => IInv
  <1> SUFFICES ASSUME Init PROVE IInv
    OBVIOUS
  <1>1. \A w \in Workers : work[w] = Idle /\ work[w].todo = <<>>
    BY DEF Init, Idle
  <1>2. TypeOK
    <2>1. plan \in Plans /\ Valsets \in Seq([Validators -> 0..TotalPower]) /\ Len(Valsets) > 0
      BY DEF Init, Valsets
    <2>2. 1 \in DOMAIN Planned("valset") /\ 1 \in Numbers
      BY <2>1 DEF Planned, Numbers, Valsets
    <2>3. held \subseteq Plannable /\ gone \subseteq Plannable
      BY <2>2 DEF Init, Plannable, Subject
    <2>4. eth \in Contract
      BY DEF Init, Contract
    <2>5. seen \in [height : Nat, nonce : [Workers -> Nat]]
      BY DEF Init, Unseen
    <2>6. work \in [Workers -> Loops]
      BY DEF Init, Idle, Loops, Estimates
    <2>7. /\ signers \in [Subject -> SUBSET Validators] /\ pool \in {None} \cup Txs
          /\ stage \in {"find", "found", "valset", "batches", "call"} /\ current \in Nat
      BY DEF Init
    <2> QED
      BY <2>1, <2>3, <2>4, <2>5, <2>6, <2>7 DEF TypeOK
  <1>3. PoolIsEstimated /\ RevertsAreExplained
    BY DEF Init, PoolIsEstimated, RevertsAreExplained
  <1>4. OnlyEstimatedIsSent
    BY <1>1 DEF OnlyEstimatedIsSent, Busy
  <1>5. BatchesAreSorted
    <2>1. \A t \in Tokens : work[t].todo = <<>>
      BY <1>1 DEF Workers
    <2>2. \A t \in Tokens : DOMAIN work[t].todo = {}
      <3> TAKE t \in Tokens
      <3> DEFINE q == work[t].todo
      <3>1. q = <<>>
        BY <2>1
      <3> HIDE DEF q
      <3>2. DOMAIN q = {}
        BY <3>1
      <3> QED
        BY <3>2 DEF q
    <2> QED
      BY <2>2 DEF BatchesAreSorted, Sorted
  <1>6. RoundStartsIdle
    BY <1>1 DEF RoundStartsIdle
  <1> QED
    BY <1>2, <1>3, <1>4, <1>5, <1>6 DEF IInv

\* The estimate of what a worker is about to send does not depend on more than
\* the plan and its work.
LEMMA EstimateStays ==
    ASSUME NEW w, plan' = plan, work' = work,
           Estimated([First(w) EXCEPT !.est = work[w].est])
    PROVE  Estimated([First(w) EXCEPT !.est = work[w].est])'
  <1>1. Estimated([First(w) EXCEPT !.est = work[w].est])
          <=> EstimatedIn(plan, [First(w) EXCEPT !.est = work[w].est])
    BY ONLY TRUE DEF Estimated, EstimatedIn, Nonce, Calls, Power, Valsets
  <1>2. Estimated([First(w) EXCEPT !.est = work[w].est])'
          <=> EstimatedIn(plan', [First(w)' EXCEPT !.est = work'[w].est])
    BY ONLY TRUE DEF Estimated, EstimatedIn, Nonce, Calls, Power, Valsets
  <1>3. First(w)' = First(w)
    BY DEF First
  <1> QED
    BY <1>1, <1>2, <1>3, Zenon

LEMMA NothingElseIsSent ==
    ASSUME OnlyEstimatedIsSent, plan' = plan, work' = work
    PROVE  OnlyEstimatedIsSent'
  <1> SUFFICES ASSUME NEW w \in Workers, Busy(w, "send")'
               PROVE  Estimated([First(w) EXCEPT !.est = work[w].est])'
    BY DEF OnlyEstimatedIsSent
  <1>1. Busy(w, "send")
    BY DEF Busy
  <1>2. Estimated([First(w) EXCEPT !.est = work[w].est])
    BY <1>1, Zenon DEF OnlyEstimatedIsSent
  <1> QED
    BY ONLY <1>2, plan' = plan, work' = work, EstimateStays

\* Steps of Cosmos, of the miners and of other relayers: they leave what the
\* relayer has in hand alone.
LEMMA OutsideIInv ==
    ASSUME IInv, UNCHANGED <<plan, relayerVars>>,
           held' \subseteq Plannable, gone' \subseteq Plannable,
           signers' \in [Subject -> SUBSET Validators], eth' \in Contract
    PROVE  IInv'
  <1>1. TypeOK'
    BY SamePlan DEF IInv, TypeOK, relayerVars
  <1>2. PoolIsEstimated'
    <2>1. \A tx : Estimated(tx)' <=> Estimated(tx)
      BY SamePlan
    <2>2. pool' = pool
      BY DEF relayerVars
    <2>3. Estimated(pool)' <=> Estimated(pool)
      BY <2>2 DEF Estimated, Nonce, Calls, Power, Valsets
    <2> QED
      BY <2>2, <2>3 DEF IInv, PoolIsEstimated
  <1>3. OnlyEstimatedIsSent'
    BY NothingElseIsSent DEF IInv, relayerVars
  <1>4. BatchesAreSorted' /\ RoundStartsIdle' /\ RevertsAreExplained'
    BY DEF IInv, BatchesAreSorted, RoundStartsIdle, RevertsAreExplained, relayerVars
  <1> QED
    BY <1>1, <1>2, <1>3, <1>4 DEF IInv

LEMMA OthersIInv ==
    ASSUME IInv,
           \/ \E s \in Subject : Issue(s) \/ Forget(s) \/ AnyoneSubmits(s)
           \/ \E s \in Subject, v \in Validators : SignSubject(s, v)
           \/ MineEmptyBlock
    PROVE  IInv'
  <1>1. /\ held \subseteq Plannable /\ gone \subseteq Plannable
        /\ signers \in [Subject -> SUBSET Validators] /\ eth \in Contract /\ TypeOK
    BY DEF IInv, TypeOK
  <1>2. ASSUME NEW s \in Subject, Issue(s)
        PROVE  IInv'
    BY <1>1, <1>2, OutsideIInv DEF Issue, Plannable
  <1>3. ASSUME NEW s \in Subject, Forget(s)
        PROVE  IInv'
    BY <1>1, <1>3, OutsideIInv DEF Forget
  <1>4. ASSUME NEW s \in Subject, AnyoneSubmits(s)
        PROVE  IInv'
    <2>1. eth' \in Contract
      BY <1>1, <1>4, ContractTypes DEF AnyoneSubmits
    <2> QED
      BY <1>1, <1>4, <2>1, OutsideIInv DEF AnyoneSubmits
  <1>5. ASSUME NEW s \in Subject, NEW v \in Validators, SignSubject(s, v)
        PROVE  IInv'
    <2>1. signers' \in [Subject -> SUBSET Validators]
      BY <1>1, <1>5 DEF SignSubject
    <2> QED
      BY <1>1, <1>5, <2>1, OutsideIInv DEF SignSubject
  <1>6. CASE MineEmptyBlock
    <2>1. eth' \in Contract
      BY <1>1, <1>6, ContractTypes DEF MineEmptyBlock, Contract
    <2> QED
      BY <1>1, <1>6, <2>1, OutsideIInv DEF MineEmptyBlock
  <1> QED
    BY <1>2, <1>3, <1>4, <1>5, <1>6

\* The transaction is executed, or reverts: if nothing has changed since its
\* estimate then the block is too late.
LEMMA MineTransactionIInv ==
    ASSUME IInv, MineTransaction
    PROVE  IInv'
  <1>1. /\ TypeOK /\ pool \in Txs /\ pool' = None /\ plan' = plan /\ work' = work
        /\ held' = held /\ gone' = gone /\ signers' = signers
        /\ stage' = stage /\ current' = current /\ seen' = seen
    BY DEF IInv, TypeOK, MineTransaction
  <1>2. pool.subject \in Plannable
    BY <1>1 DEF Txs
  <1>3. eth' \in Contract
    <2>1. eth \in Contract /\ NextHeight \in Nat /\ Executed(pool.subject) \in Contract
      BY <1>1, <1>2, ContractTypes DEF TypeOK
    <2>2. [eth EXCEPT !.height = NextHeight] \in Contract
      BY <2>1 DEF Contract
    <2> QED
      BY <2>1, <2>2 DEF MineTransaction
  <1>4. TypeOK'
    BY <1>1, <1>3, SamePlan DEF TypeOK
  <1>5. OnlyEstimatedIsSent'
    BY <1>1, NothingElseIsSent DEF IInv
  <1>6. BatchesAreSorted' /\ RoundStartsIdle' /\ PoolIsEstimated'
    BY <1>1 DEF IInv, BatchesAreSorted, RoundStartsIdle, PoolIsEstimated
  <1>7. RevertsAreExplained'
    <2>1. CASE Accepts(pool, NextHeight)
      BY <2>1 DEF IInv, RevertsAreExplained, MineTransaction
    <2>2. CASE ~Accepts(pool, NextHeight)
      <3>1. reverted' = Explanation(pool)
        BY <2>2 DEF MineTransaction
      <3>2. Estimated(pool)
        BY DEF IInv, PoolIsEstimated, MineTransaction
      <3>3. ASSUME <<eth.valset, EthNonce(pool.subject)>> = pool.est
            PROVE  NextHeight >= Timeout(pool.subject)
        <4>1. pool.current = eth.valset /\ Nonce(pool.subject) > EthNonce(pool.subject)
          BY <3>2, <3>3 DEF Estimated
        <4>2. ~(NextHeight < Timeout(pool.subject))
          BY <2>2, <3>2, <4>1 DEF Accepts, Estimated
        <4>3. NextHeight \in Nat /\ Timeout(pool.subject) \in Nat
          BY <1>1, <1>2, ContractTypes, PlanTypes
        <4> QED
          BY <4>2, <4>3
      <3>4. Explanation(pool) # "unexplained"
        BY <3>3 DEF Explanation
      <3> QED
        BY <3>1, <3>4 DEF RevertsAreExplained
    <2> QED
      BY <2>1, <2>2
  <1> QED
    BY <1>4, <1>5, <1>6, <1>7 DEF IInv

-----------------------------------------------------------------------------
(* The relayer                                                             *)

\* What a list of things to do must satisfy for each loop.
GoodLoop(w, l) ==
    /\ l \in Loops
    /\ l.todo # <<>> /\ l.at = "send" => Estimated([l.todo[1] EXCEPT !.est = l.est])
    /\ w \in Tokens => Sorted(l.todo)

\* A step of the relayer that leaves every loop good and sends nothing that was
\* not estimated.
LEMMA RelayerIInv ==
    ASSUME IInv, UNCHANGED <<plan, held, gone, signers, eth, reverted>>,
           DOMAIN work' = Workers, work' = [w \in Workers |-> work'[w]],
           \A w \in Workers : GoodLoop(w, work'[w]),
           pool' \in {None} \cup Txs, pool' # None => \E tx : tx = pool' /\ Estimated(tx),
           stage' \in {"find", "found", "valset", "batches", "call"}, current' \in Nat,
           stage' \in {"find", "found"} => \A w \in Workers : work'[w] = Idle,
           seen' \in [height : Nat, nonce : [Workers -> Nat]]
    PROVE  IInv'
  <1>1. /\ Plannable' = Plannable /\ Txs' = Txs /\ Loops' = Loops
        /\ \A tx : Estimated(tx)' <=> Estimated(tx)
    BY SamePlan
  <1>2. work' \in [Workers -> Loops]
    BY DEF GoodLoop
  <1>3. TypeOK'
    BY <1>1, <1>2 DEF IInv, TypeOK
  <1>4. PoolIsEstimated'
    <2>1. SUFFICES ASSUME NEW tx, tx = pool', Estimated(tx)
                   PROVE  Estimated(pool)'
      BY DEF PoolIsEstimated
    <2> QED
      BY <2>1 DEF Estimated, Nonce, Calls, Power, Valsets
  <1>5. OnlyEstimatedIsSent'
    <2> SUFFICES ASSUME NEW w \in Workers, Busy(w, "send")'
                 PROVE  Estimated([First(w) EXCEPT !.est = work[w].est])'
      BY DEF OnlyEstimatedIsSent
    <2>1. Estimated([work'[w].todo[1] EXCEPT !.est = work'[w].est])
      BY DEF Busy, GoodLoop
    <2>2. Estimated([First(w) EXCEPT !.est = work[w].est])'
            <=> EstimatedIn(plan', [work'[w].todo[1] EXCEPT !.est = work'[w].est])
      BY ONLY TRUE DEF First, Estimated, EstimatedIn, Nonce, Calls, Power, Valsets
    <2>3. Estimated([work'[w].todo[1] EXCEPT !.est = work'[w].est])
            <=> EstimatedIn(plan, [work'[w].todo[1] EXCEPT !.est = work'[w].est])
      BY ONLY TRUE DEF Estimated, EstimatedIn, Nonce, Calls, Power, Valsets
    <2>4. plan' = plan
      OBVIOUS
    <2> QED
      BY <2>1, <2>2, <2>3, <2>4, Zenon
  <1>6. BatchesAreSorted' /\ RevertsAreExplained'
    BY DEF IInv, BatchesAreSorted, RevertsAreExplained, GoodLoop, Workers, Sorted
  <1>7. RoundStartsIdle'
    BY DEF RoundStartsIdle, Idle
  <1> QED
    BY <1>3, <1>4, <1>5, <1>6, <1>7 DEF IInv

\* Every loop is good to begin with.
LEMMA LoopsAreGood ==
    ASSUME IInv
    PROVE  \A w \in Workers : GoodLoop(w, work[w])
  BY DEF IInv, TypeOK, GoodLoop, OnlyEstimatedIsSent, BatchesAreSorted, Busy, First

\* Going on to the next item keeps the order of the list.
LEMMA TailIsGood ==
    ASSUME NEW w \in Workers, NEW l \in Loops, GoodLoop(w, l), l.todo # <<>>
    PROVE  GoodLoop(w, [Idle EXCEPT !.todo = Tail(l.todo), !.at = "pick"])
  <1> DEFINE q == l.todo
             m == [Idle EXCEPT !.todo = Tail(q), !.at = "pick"]
  <1>1. q \in Seq(Txs) /\ q # <<>>
    BY DEF Loops
  <1>2. m.todo = Tail(q) /\ m.at = "pick" /\ m.est = None
    BY DEF Idle
  <1> HIDE DEF q
  <1>3. /\ Tail(q) \in Seq(Txs) /\ Len(Tail(q)) = Len(q) - 1 /\ Len(q) \in Nat
        /\ DOMAIN q = 1..Len(q) /\ DOMAIN Tail(q) = 1..(Len(q) - 1)
        /\ \A i \in 1..(Len(q) - 1) : Tail(q)[i] = q[i + 1]
    BY <1>1
  <1>4. m \in Loops
    BY <1>3 DEF Idle, Loops, Estimates
  <1>5. Sorted(q) => Sorted(Tail(q))
    <2> SUFFICES ASSUME Sorted(q), NEW i \in 1..(Len(q) - 1), NEW j \in 1..(Len(q) - 1), i < j
                 PROVE  Tail(q)[i].subject.n < Tail(q)[j].subject.n
      BY <1>3 DEF Sorted
    <2>1. i + 1 \in DOMAIN q /\ j + 1 \in DOMAIN q /\ i + 1 < j + 1
      BY <1>3
    <2>2. q[i + 1].subject.n < q[j + 1].subject.n
      BY <2>1 DEF Sorted
    <2> QED
      BY <1>3, <2>2
  <1>6. w \in Tokens => Sorted(q)
    BY DEF GoodLoop, q
  <1> HIDE DEF m
  <1>7. GoodLoop(w, m)
    BY <1>2, <1>4, <1>5, <1>6 DEF GoodLoop
  <1> QED
    BY <1>7 DEF m, q

\* A loop takes one step; the other loops stay as they are.
LEMMA LoopStepIInv ==
    ASSUME IInv, NEW w \in Workers, work[w].todo # <<>>, NEW l, work' = [work EXCEPT ![w] = l], GoodLoop(w, l),
           UNCHANGED <<plan, held, gone, signers, eth, stage, current, reverted>>,
           pool' \in {None} \cup Txs, pool' # None => \E tx : tx = pool' /\ Estimated(tx),
           seen' \in [height : Nat, nonce : [Workers -> Nat]]
    PROVE  IInv'
  <1>1. work \in [Workers -> Loops]
    BY DEF IInv, TypeOK
  <1>2. /\ DOMAIN work' = Workers /\ work' = [u \in Workers |-> work'[u]]
        /\ work'[w] = l /\ \A u \in Workers \ {w} : work'[u] = work[u]
    BY <1>1
  <1>3. \A u \in Workers : GoodLoop(u, work'[u])
    BY <1>2, LoopsAreGood
  <1>4. stage' \in {"find", "found", "valset", "batches", "call"} /\ current' \in Nat
    BY DEF IInv, TypeOK
  <1>5. stage' \notin {"find", "found"}
    BY DEF IInv, RoundStartsIdle, Idle
  <1> QED
    BY <1>2, <1>3, <1>4, <1>5, RelayerIInv

LEMMA LoopIInv ==
    ASSUME IInv, NEW w \in Workers, Loop(w)
    PROVE  IInv'
  <1> DEFINE l == work[w]
  <1>1. /\ TypeOK /\ l \in Loops /\ GoodLoop(w, l)
        /\ work \in [Workers -> Loops] /\ eth \in Contract
        /\ seen \in [height : Nat, nonce : [Workers -> Nat]]
        /\ pool \in {None} \cup Txs /\ (pool # None => Estimated(pool))
        /\ current \in Nat
    BY LoopsAreGood DEF IInv, TypeOK, PoolIsEstimated
  <1>2. l.todo # <<>> => First(w) \in Txs /\ First(w).subject \in Plannable
    <2> DEFINE q == l.todo
    <2>1. q \in Seq(Txs)
      BY <1>1 DEF Loops
    <2>2. q # <<>> => q[1] \in Txs
      <3> HIDE DEF q
      <3> QED
        BY <2>1
    <2> QED
      BY <2>2 DEF First, Txs
  <1>3. ASSUME l.todo # <<>>, NextItem(w), UNCHANGED <<plan, held, gone, signers, eth, pool, stage,
                                                      current, seen, reverted>>
        PROVE  IInv'
    <2> DEFINE m == [Idle EXCEPT !.todo = Tail(l.todo), !.at = "pick"]
    <2>1. GoodLoop(w, m) /\ work' = [work EXCEPT ![w] = m]
      BY <1>1, <1>3, TailIsGood DEF NextItem
    <2> HIDE DEF m
    <2> QED
      BY <1>1, <1>3, <2>1, LoopStepIInv
  <1>4. CASE get_nonce(w)
    <2> DEFINE m == [l EXCEPT !.at = "pick"]
    <2>1. work' = [work EXCEPT ![w] = m]
      BY <1>1, <1>4 DEF get_nonce
    <2>2. GoodLoop(w, m)
      BY <1>1 DEF GoodLoop, Loops
    <2>3. (IF w = "valset" THEN current ELSE EthNonce(First(w).subject)) \in Nat
      BY <1>1, <1>2, <1>4, ContractTypes DEF get_nonce, Busy
    <2>4. seen' \in [height : Nat, nonce : [Workers -> Nat]]
      BY <1>1, <1>4, <2>3 DEF get_nonce
    <2>5. work[w].todo # <<>>
      BY <1>4 DEF get_nonce, Busy
    <2> HIDE DEF m, l
    <2> QED
      BY <1>1, <1>4, <2>1, <2>2, <2>4, <2>5, LoopStepIInv DEF get_nonce
  \* The simulation succeeds: the estimate records why.
  <1>5. CASE Estimate(w)
    <2> DEFINE e == <<eth.valset, EthNonce(First(w).subject)>>
               m == [l EXCEPT !.at = "send", !.est = e]
    <2>1. work' = [work EXCEPT ![w] = m]
      BY <1>1, <1>5 DEF Estimate, Loops
    <2>2. l.todo # <<>> /\ eth_estimate_gas(First(w))
      BY <1>5 DEF Estimate, Busy
    <2>3. e \in Nat \X Nat
      BY <1>1, <1>2, <2>2, ContractTypes DEF Contract
    <2>4. m \in Loops /\ m.todo = l.todo /\ m.est = e
      BY <1>1, <2>3 DEF Loops, Estimates
    <2>5. Estimated([First(w) EXCEPT !.est = e])
      <3> DEFINE tx == [First(w) EXCEPT !.est = e]
      <3>1. /\ tx.subject = First(w).subject /\ tx.current = First(w).current
            /\ tx.sigs = First(w).sigs /\ tx.est = e
        BY <1>2, <2>2 DEF Txs
      <3>2. /\ First(w).current = eth.valset
            /\ Nonce(First(w).subject) > EthNonce(First(w).subject)
            /\ ExceedsThreshold(Power(First(w).sigs, First(w).current))
        BY <2>2 DEF eth_estimate_gas, Accepts
      <3>3. e[1] = eth.valset /\ e[2] = EthNonce(First(w).subject)
        OBVIOUS
      <3> HIDE DEF tx, e
      <3>4. Estimated(tx)
        BY <3>1, <3>2, <3>3 DEF Estimated
      <3> QED
        BY <3>4 DEF tx
    <2>6. GoodLoop(w, m)
      <3> HIDE DEF m, e
      <3> QED
        BY <1>1, <2>4, <2>5 DEF GoodLoop, First
    <2> HIDE DEF m, e
    <2> QED
      BY <1>1, <1>5, <2>1, <2>2, <2>6, LoopStepIInv DEF Estimate
  <1>6. CASE PassOver(w)
    BY <1>3, <1>6 DEF PassOver, Busy
  <1>7. CASE Send(w)
    <2> DEFINE tx == [First(w) EXCEPT !.est = l.est]
    <2>1. l.todo # <<>> /\ l.at = "send"
      BY <1>7 DEF Send, Busy
    <2>2. tx \in Txs /\ Estimated(tx)
      BY <1>1, <1>2, <2>1 DEF Txs, Loops, GoodLoop, First
    <2>3. CASE pool' = tx /\ work' = [work EXCEPT ![w].at = "wait"]
      <3> DEFINE m == [l EXCEPT !.at = "wait"]
      <3>1. work' = [work EXCEPT ![w] = m]
        BY <1>1, <2>3
      <3>2. GoodLoop(w, m)
        BY <1>1 DEF GoodLoop, Loops
      <3> HIDE DEF m, tx
      <3>3. UNCHANGED <<plan, held, gone, signers, eth, stage, current, seen, reverted>>
        BY <1>7 DEF Send
      <3> QED
        BY <1>1, <2>1, <2>2, <2>3, <3>1, <3>2, <3>3, LoopStepIInv
    <2>4. CASE NextItem(w) /\ UNCHANGED pool
      BY <1>3, <1>7, <2>1, <2>4 DEF Send
    <2> QED
      BY <1>7, <2>3, <2>4 DEF Send
  <1>8. CASE WaitForTransaction(w)
    BY <1>3, <1>8 DEF WaitForTransaction, Busy
  <1> QED
    BY <1>4, <1>5, <1>6, <1>7, <1>8 DEF Loop, relay_valid_valset, submit_batches, submit_logic_call

\* An item of a list: what Cosmos holds, with the signatures it has now.
LEMMA ItemTypes ==
    ASSUME TypeOK, NEW s \in held
    PROVE  Item(s) \in Txs /\ Item(s).subject = s
  <1>1. s \in Plannable /\ s \in Subject
    BY DEF TypeOK, Plannable
  <1>2. signers[s] \in SUBSET Validators /\ current \in Nat
    BY <1>1 DEF TypeOK
  <1> QED
    BY <1>1, <1>2 DEF Item, Txs, Estimates

\* At most one item: nothing to sort.
LEMMA OneItemIsGood ==
    ASSUME NEW w \in Workers, NEW tx \in Txs
    PROVE  /\ GoodLoop(w, [Idle EXCEPT !.todo = <<tx>>])
           /\ GoodLoop(w, Idle)
           /\ [Idle EXCEPT !.todo = <<>>] = Idle
  <1>1. <<tx>> \in Seq(Txs) /\ DOMAIN <<tx>> = {1}
    OBVIOUS
  <1>2. Sorted(<<tx>>) /\ Sorted(<<>>)
    BY <1>1 DEF Sorted
  <1> DEFINE m == [Idle EXCEPT !.todo = <<tx>>]
  <1>3. m \in Loops /\ m.todo = <<tx>> /\ m.at = "start"
    BY <1>1 DEF Idle, Loops, Estimates
  <1>4. GoodLoop(w, m)
    <2> HIDE DEF m
    <2> QED
      BY <1>2, <1>3 DEF GoodLoop
  <1>5. GoodLoop(w, Idle)
    BY <1>2 DEF GoodLoop, Idle, Loops, Estimates
  <1> QED
    BY <1>4, <1>5 DEF Idle

\* get_batches_and_signatures turns the list of Cosmos round: oldest first.
LEMMA BatchListIsGood ==
    ASSUME TypeOK, NEW t \in Tokens
    PROVE  GoodLoop(t, [Idle EXCEPT !.todo = get_batches_and_signatures(t)])
  <1> DEFINE batches == {s \in get_latest_transaction_batches :
                           Batches[s.n].token = t /\ order_sigs_ok(s)}
             N == {s.n : s \in batches}
             asc == Ascending(N)
             listed == Reverse(asc)
             items == [i \in DOMAIN listed |-> Item([kind |-> "batch", n |-> listed[i]])]
             q == get_batches_and_signatures(t)
             c == Cardinality(N)
  <1>1. plan \in Plans /\ Len(Batches) \in Nat
    BY DEF TypeOK, Batches
  <1>2. \A s \in batches : s \in held /\ s.kind = "batch" /\ s \in Plannable
    BY DEF get_latest_transaction_batches, TypeOK
  <1>3. \A n \in N : n \in 1..Len(Batches) /\ [kind |-> "batch", n |-> n] \in held
    <2> SUFFICES ASSUME NEW s \in batches
                 PROVE  s.n \in 1..Len(Batches) /\ [kind |-> "batch", n |-> s.n] \in held
      OBVIOUS
    <2>1. s \in held /\ s.kind = "batch" /\ s \in Plannable
      BY <1>2
    <2>2. s = [kind |-> "batch", n |-> s.n]
      BY <2>1 DEF Plannable, Subject
    <2>3. s.n \in 1..Len(Batches)
      BY <2>1, PlanTypes
    <2> QED
      BY <2>1, <2>2, <2>3
  <1>4. N \subseteq Nat /\ IsFiniteSet(N)
    <2> DEFINE L == Len(Batches)
    <2> HIDE DEF N
    <2>1. L \in Nat /\ \A n \in N : n \in 1..L
      BY <1>1, <1>3
    <2> HIDE DEF L
    <2>2. N \in SUBSET Nat /\ \A n \in N : n <= L
      BY <2>1
    <2> QED
      BY <2>1, <2>2, FS_BoundedSetOfNaturals
  <1> HIDE DEF N, c
  <1>5. /\ asc \in Seq(N) /\ Len(asc) = c /\ c \in Nat
        /\ \A i, j \in 1..c : i < j => asc[i] < asc[j]
    BY <1>4, AscendingIsSorted DEF c
  <1> HIDE DEF asc
  <1>6. \A i \in 1..c : asc[i] \in N
    BY <1>5
  <1>7. /\ DOMAIN listed = 1..c /\ \A i \in 1..c : listed[i] = asc[(c - i) + 1]
        /\ Len(listed) = c
    BY <1>5 DEF Reverse
  <1>8. /\ DOMAIN items = 1..c /\ Len(items) = c
        /\ \A i \in 1..c : items[i] = Item([kind |-> "batch", n |-> asc[(c - i) + 1]])
    <2>1. items = [i \in 1..c |-> Item([kind |-> "batch", n |-> listed[i]])]
      BY <1>7
    <2> HIDE DEF listed
    <2> QED
      BY <1>5, <1>7, <2>1
  <1>9. q = Reverse(items)
    BY DEF get_batches_and_signatures, ReverseList, N, asc
  <1> HIDE DEF items, q
  <1>10. /\ DOMAIN q = 1..c /\ \A i \in 1..c : q[i] = items[(c - i) + 1]
         /\ q = [i \in 1..c |-> items[(c - i) + 1]]
    BY <1>5, <1>8, <1>9 DEF Reverse
  <1>11. \A i \in 1..c : q[i] \in Txs /\ q[i].subject.n = asc[i]
    <2> SUFFICES ASSUME NEW i \in 1..c
                 PROVE  q[i] \in Txs /\ q[i].subject.n = asc[i]
      OBVIOUS
    <2>1. (c - i) + 1 \in 1..c /\ (c - ((c - i) + 1)) + 1 = i
      BY <1>5
    <2>2. q[i] = Item([kind |-> "batch", n |-> asc[i]])
      BY <1>8, <1>10, <2>1
    <2>3. [kind |-> "batch", n |-> asc[i]] \in held
      BY <1>3, <1>6
    <2>4. q[i] \in Txs /\ q[i].subject = [kind |-> "batch", n |-> asc[i]]
      BY <2>2, <2>3, ItemTypes
    <2> QED
      BY <2>4
  <1>12. q \in Seq(Txs)
    <2>1. q \in [1..c -> Txs]
      BY <1>10, <1>11
    <2> QED
      BY <1>5, <2>1
  <1>13. Sorted(q)
    BY <1>5, <1>10, <1>11 DEF Sorted
  <1> DEFINE m == [Idle EXCEPT !.todo = q]
  <1>14. m \in Loops /\ m.todo = q /\ m.at = "start"
    BY <1>12 DEF Idle, Loops, Estimates
  <1>15. GoodLoop(t, m)
    <2> HIDE DEF m
    <2> QED
      BY <1>13, <1>14 DEF GoodLoop
  <1> QED
    BY <1>15 DEF q

\* The steps of a round fill the lists of the next loops.
LEMMA RoundIInv ==
    ASSUME IInv, Round
    PROVE  IInv'
  <1>1. /\ TypeOK /\ work \in [Workers -> Loops] /\ eth \in Contract
        /\ seen \in [height : Nat, nonce : [Workers -> Nat]]
        /\ pool \in {None} \cup Txs /\ (pool # None => Estimated(pool))
        /\ current \in Nat
        /\ stage \in {"find", "found", "valset", "batches", "call"}
        /\ \A w \in Workers : GoodLoop(w, work[w])
    BY LoopsAreGood DEF IInv, TypeOK, PoolIsEstimated
  <1>2. /\ work = [w \in Workers |-> work[w]] /\ DOMAIN work = Workers
        /\ eth.valset \in Nat /\ eth.height \in Nat
    BY <1>1 DEF Contract
  <1>3. \A w \in Workers : GoodLoop(w, Idle)
    BY DEF GoodLoop, Idle, Loops, Estimates, Sorted
  <1>4. CASE find_latest_valset
    <2>1. /\ stage = "find" /\ stage' = "found" /\ current' = eth.valset /\ work' = work
          /\ pool' = pool /\ seen' = seen
          /\ UNCHANGED <<plan, held, gone, signers, eth, reverted>>
      BY <1>4 DEF find_latest_valset
    <2>2. \A w \in Workers : work'[w] = Idle
      BY <2>1 DEF IInv, RoundStartsIdle
    <2> QED
      BY <1>1, <1>2, <2>1, <2>2, RelayerIInv
  <1>5. CASE relay_valsets
    <2> DEFINE n == find_latest_valid_valset
               s == [kind |-> "valset", n |-> n]
               valid == {v.n : v \in {u \in get_latest_valsets : order_sigs_ok(u)}}
               m == [Idle EXCEPT !.todo = IF n > current THEN <<Item(s)>> ELSE <<>>]
    <2>1. work' = [work EXCEPT !["valset"].todo = IF n > current THEN <<Item(s)>> ELSE <<>>]
      BY <1>5 DEF relay_valsets
    <2>2. "valset" \in Workers /\ \A w \in Workers : work[w] = Idle
      BY <1>5 DEF IInv, RoundStartsIdle, relay_valsets, Workers
    <2>3. /\ DOMAIN work' = Workers /\ work' = [w \in Workers |-> work'[w]]
          /\ work'["valset"] = m /\ \A w \in Workers \ {"valset"} : work'[w] = Idle
      BY <1>1, <2>1, <2>2
    <2>4. n > current => s \in held
      <3>0. n = IF valid = {} THEN 0 ELSE Max(valid)
        BY DEF find_latest_valid_valset
      <3>1. SUFFICES ASSUME valid # {}
                     PROVE  [kind |-> "valset", n |-> Max(valid)] \in held
        <4> HIDE DEF n, valid
        <4>1. n > current => valid # {}
          BY <1>1, <3>0
        <4> QED
          BY <3>0, <4>1
      <3> DEFINE L == Len(Valsets)
      <3>2. L \in Nat
        BY <1>1 DEF TypeOK, Valsets
      <3>3. ASSUME NEW x \in valid
            PROVE  x \in Nat /\ x <= L /\ [kind |-> "valset", n |-> x] \in held
        <4>1. PICK u \in held : u.kind = "valset" /\ x = u.n
          BY <3>3 DEF get_latest_valsets
        <4>2. u \in Plannable /\ u = [kind |-> "valset", n |-> x]
          BY <1>1, <4>1 DEF TypeOK, Plannable, Subject
        <4>3. x \in 1..L
          BY <1>1, <4>1, <4>2, PlanTypes
        <4> QED
          BY <3>2, <4>1, <4>2, <4>3
      <3> HIDE DEF valid, L
      <3>4. Max(valid) \in valid
        BY <3>1, <3>2, <3>3, MaxOfBounded
      <3> QED
        BY <3>3, <3>4
    <2>5. GoodLoop("valset", m)
      <3>1. CASE n > current
        <4>1. Item(s) \in Txs
          BY <1>1, <2>4, <3>1, ItemTypes
        <4>2. m = [Idle EXCEPT !.todo = <<Item(s)>>]
          BY <3>1
        <4> HIDE DEF m, s
        <4> QED
          BY <2>2, <4>1, <4>2, OneItemIsGood
      <3>2. CASE ~(n > current)
        <4>1. m = Idle
          BY <3>2 DEF Idle
        <4> QED
          BY <1>3, <2>2, <4>1
      <3> QED
        BY <3>1, <3>2
    <2>6. \A w \in Workers : GoodLoop(w, work'[w])
      <3> HIDE DEF m
      <3> QED
        BY <1>3, <2>3, <2>5
    <2>7. /\ stage' = "valset" /\ current' = current /\ pool' = pool /\ seen' = seen
          /\ UNCHANGED <<plan, held, gone, signers, eth, reverted>>
      BY <1>5 DEF relay_valsets
    <2> HIDE DEF m
    <2> QED
      BY <1>1, <2>3, <2>6, <2>7, RelayerIInv
  <1>6. CASE relay_batches
    <2>1. /\ stage' = "batches" /\ current' = current /\ pool' = pool
          /\ seen' = [seen EXCEPT !.height = eth.height]
          /\ UNCHANGED <<plan, held, gone, signers, eth, reverted>>
      BY <1>6 DEF relay_batches
    <2>2. seen' \in [height : Nat, nonce : [Workers -> Nat]]
      BY <1>1, <1>2, <2>1
    <2>3. work' = [w \in Workers |-> IF w \in Tokens
                     THEN [Idle EXCEPT !.todo = get_batches_and_signatures(w)] ELSE Idle]
      BY <1>6 DEF relay_batches
    <2>4. /\ DOMAIN work' = Workers /\ work' = [w \in Workers |-> work'[w]]
          /\ \A w \in Workers : work'[w] = IF w \in Tokens
                THEN [Idle EXCEPT !.todo = get_batches_and_signatures(w)] ELSE Idle
      BY <2>3
    <2>5. \A w \in Workers : GoodLoop(w, work'[w])
      BY <1>1, <1>3, <2>4, BatchListIsGood
    <2> QED
      BY <1>1, <2>1, <2>2, <2>4, <2>5, RelayerIInv
  <1>7. CASE relay_logic_calls
    <2> DEFINE signed == {s \in get_latest_logic_calls : order_sigs_ok(s)}
               last == CHOOSE s \in signed : \A u \in signed : u.n <= s.n
    <2>1. /\ stage' = "call" /\ current' = current /\ pool' = pool /\ seen' = seen
          /\ UNCHANGED <<plan, held, gone, signers, eth, reverted>>
      BY <1>7 DEF relay_logic_calls
    <2>2. work' = [w \in Workers |-> IF w = "call"
                     THEN [Idle EXCEPT !.todo = LastSignedCall] ELSE Idle]
      BY <1>7 DEF relay_logic_calls
    <2>3. /\ DOMAIN work' = Workers /\ work' = [w \in Workers |-> work'[w]]
          /\ \A w \in Workers : work'[w] = IF w = "call"
                THEN [Idle EXCEPT !.todo = LastSignedCall] ELSE Idle
      BY <2>2
    <2>4. signed # {} => last \in held
      <3> SUFFICES ASSUME signed # {} PROVE last \in held
        OBVIOUS
      <3> DEFINE K == {s.n : s \in signed}
                 L == Len(Calls)
      <3>1. L \in Nat
        BY <1>1 DEF TypeOK, Calls
      <3>2. \A s \in signed : s \in held /\ s.n \in Nat /\ s.n <= L
        <4> TAKE s \in signed
        <4>1. s \in held /\ s.kind = "call" /\ s \in Plannable
          BY <1>1 DEF get_latest_logic_calls, TypeOK
        <4>2. s.n \in DOMAIN Calls
          BY <4>1 DEF Plannable, Planned
        <4>3. Calls \in Seq([id : Ids, nonce : Nat, timeout : Nat])
          BY <1>1 DEF TypeOK, Calls
        <4>4. DOMAIN Calls = 1..L
          BY <4>3
        <4> QED
          BY <3>1, <4>1, <4>2, <4>4
      <3>3. K \subseteq Nat /\ K # {} /\ \A k \in K : k <= L
        BY <3>2
      <3>4. PICK k \in K : \A j \in K : k >= j
        <4> HIDE DEF K, L
        <4> QED
          BY <3>1, <3>3, GreatestNat
      <3>5. \E s \in signed : \A u \in signed : u.n <= s.n
        BY <3>2, <3>4
      <3>6. last \in signed
        <4> HIDE DEF signed
        <4> QED
          BY <3>5
      <3> QED
        BY <3>2, <3>6
    <2>5. "call" \in Workers
      BY DEF Workers
    <2>6. GoodLoop("call", [Idle EXCEPT !.todo = LastSignedCall])
      <3>1. CASE signed = {}
        <4>1. [Idle EXCEPT !.todo = LastSignedCall] = Idle
          BY <3>1 DEF LastSignedCall, Idle
        <4> QED
          BY <1>3, <2>5, <4>1
      <3>2. CASE signed # {}
        <4>1. LastSignedCall = <<Item(last)>>
          BY <3>2 DEF LastSignedCall
        <4>2. Item(last) \in Txs
          BY <1>1, <2>4, <3>2, ItemTypes
        <4> HIDE DEF last
        <4> QED
          BY <2>5, <4>1, <4>2, OneItemIsGood
      <3> QED
        BY <3>1, <3>2
    <2>7. \A w \in Workers : GoodLoop(w, work'[w])
      BY <1>3, <2>3, <2>6
    <2> QED
      BY <1>1, <2>1, <2>3, <2>7, RelayerIInv
  <1>8. CASE relayer_main_loop
    <2>1. /\ stage' = "find" /\ current' = current /\ pool' = pool /\ seen' = Unseen
          /\ work' = [w \in Workers |-> Idle]
          /\ UNCHANGED <<plan, held, gone, signers, eth, reverted>>
      BY <1>8 DEF relayer_main_loop
    <2>2. /\ DOMAIN work' = Workers /\ work' = [w \in Workers |-> work'[w]]
          /\ \A w \in Workers : work'[w] = Idle
      BY <2>1
    <2>3. seen' \in [height : Nat, nonce : [Workers -> Nat]]
      BY <2>1 DEF Unseen
    <2>4. \A w \in Workers : GoodLoop(w, work'[w])
      BY <1>3, <2>2
    <2> QED
      BY <1>1, <2>1, <2>2, <2>3, <2>4, RelayerIInv
  <1> QED
    BY <1>4, <1>5, <1>6, <1>7, <1>8 DEF Round

LEMMA StepIInv == IInv /\ [Next]_vars => IInv'
  <1> SUFFICES ASSUME IInv, [Next]_vars
               PROVE  IInv'
    OBVIOUS
  <1>1. CASE MineTransaction
    BY <1>1, MineTransactionIInv
  <1>2. CASE Round
    BY <1>2, RoundIInv
  <1>3. ASSUME NEW w \in Workers, Loop(w)
        PROVE  IInv'
    BY <1>3, LoopIInv
  <1>4. CASE \/ \E s \in Subject : Issue(s) \/ Forget(s) \/ AnyoneSubmits(s)
             \/ \E s \in Subject, v \in Validators : SignSubject(s, v)
             \/ MineEmptyBlock
    BY <1>4, OthersIInv
  <1>5. CASE UNCHANGED vars
    BY <1>5, OutsideIInv DEF vars, relayerVars, IInv, TypeOK
  <1> QED
    BY <1>1, <1>2, <1>3, <1>4, <1>5 DEF Next

-----------------------------------------------------------------------------
(* The theorems                                                            *)

LEMMA AlwaysIInv == Spec => []IInv
  <1>1. Init => IInv
    BY InitIInv
  <1>2. IInv /\ [Next]_vars => IInv'
    BY StepIInv
  <1> QED
    BY <1>1, <1>2, PTL DEF Spec

\* A transaction that the relayer sends after eth_estimate_gas reverts only if
\* another one was faster or its timeout has been reached.
THEOREM RevertsExplained == Spec => []RevertsAreExplained
  <1>1. IInv => RevertsAreExplained
    BY DEF IInv
  <1> QED
    BY <1>1, AlwaysIInv, PTL

\* submit_batches goes through the batches of a token from the oldest on.
THEOREM BatchesOldestFirst == Spec => []OldestFirst
  <1>1. IInv => OldestFirst
    <2> SUFFICES ASSUME IInv, NEW t \in Tokens, NEW i \in 2..Len(work[t].todo)
                 PROVE  First(t).subject.n < work[t].todo[i].subject.n
      BY DEF OldestFirst
    <2> DEFINE q == work[t].todo
    <2>1. q \in Seq(Txs) /\ Sorted(q)
      BY DEF IInv, TypeOK, BatchesAreSorted, Loops, Workers
    <2>2. 1 \in DOMAIN q /\ i \in DOMAIN q /\ 1 < i
      <3>1. i \in 2..Len(q)
        OBVIOUS
      <3> HIDE DEF q
      <3> QED
        BY <2>1, <3>1
    <2> QED
      BY <2>1, <2>2 DEF Sorted, First
  <1> QED
    BY <1>1, AlwaysIInv, PTL
=============================================================================
