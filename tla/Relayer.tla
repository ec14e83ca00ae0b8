------------------------------ MODULE Relayer ------------------------------
(***************************************************************************)
(* The relayer against both chains. In a round it reads the contract's     *)
(* validator set from its last event and then, with that one set, offers   *)
(* first a newer validator set, then the batches of every token (two       *)
(* tokens at a time) and last a logic call. Every item is estimated, which *)
(* simulates it, is judged by the relay market, sent and waited for.       *)
(* Meanwhile Cosmos issues, validators sign, blocks are mined and other    *)
(* relayers submit whatever the contract accepts.                          *)
(***************************************************************************)
EXTENDS GravityPower, SortedSets, Sequences, SequencesExt, FiniteSetsExt

CONSTANTS Validators,
          Plans,      \* what Cosmos may be going to issue:
                      \*   valsets[n][v]: power of v in the set with nonce n
                      \*   batches[n]: token and timeout of the batch with nonce n
                      \*   calls[i]: id, nonce and timeout, in the order of the store
                      \*   height: the Ethereum height after which heights are
                      \*           not told apart
          None

Tokens == UNION {{p.batches[n].token : n \in DOMAIN p.batches} : p \in Plans}
Ids == UNION {{p.calls[i].id : i \in DOMAIN p.calls} : p \in Plans}

ASSUME PlanAssumption ==
    \A p \in Plans :
        /\ p.valsets \in Seq([Validators -> 0..TotalPower]) /\ Len(p.valsets) > 0
        /\ p.batches \in Seq([token : Tokens, timeout : Nat])
        /\ p.calls \in Seq([id : Ids, nonce : Nat, timeout : Nat])
        /\ p.height \in Nat \ {0}

\* A validator set, a batch or a call, by its place in the plan.
Numbers == UNION {DOMAIN p.valsets \cup DOMAIN p.batches \cup DOMAIN p.calls : p \in Plans}
Subject == [kind : {"valset", "batch", "call"}, n : Numbers]

\* The relayer's loops: one per token while it submits batches.
Workers == {"valset", "call"} \cup Tokens

VARIABLES plan,     \* what Cosmos is going to issue
          held,     \* what Cosmos holds
          gone,     \* what it has held
          signers,  \* who has confirmed what
          eth,      \* the contract: valset, nonces, what was executed; the height
          pool,     \* the transaction of the relayer's account that is not yet mined
          stage,    \* the part of the round the relayer is in
          current,  \* the validator set it has read
          seen,     \* the height and the nonces it has read
          work,     \* what each loop still has to do and how far it is
          reverted  \* how the relayer's last reverted transaction is explained

vars == <<plan, held, gone, signers, eth, pool, stage, current, seen, work, reverted>>
relayerVars == <<pool, stage, current, seen, work, reverted>>

Valsets == plan.valsets
Batches == plan.batches
Calls == plan.calls
MaxHeight == plan.height

Planned(kind) == CASE kind = "valset" -> Valsets
                   [] kind = "batch" -> Batches
                   [] kind = "call" -> Calls

Unseen == [height |-> 0, nonce |-> [w \in Workers |-> 0]]
Idle == [todo |-> <<>>, at |-> "start", est |-> None]

-----------------------------------------------------------------------------
(* The contract                                                            *)

Nonce(s) == IF s.kind = "call" THEN Calls[s.n].nonce ELSE s.n

Timeout(s) == CASE s.kind = "batch" -> Batches[s.n].timeout
                [] s.kind = "call" -> Calls[s.n].timeout
                [] OTHER -> MaxHeight + 2

\* state_lastValsetNonce, lastBatchNonce, lastLogicCallNonce
get_valset_nonce == eth.valset
get_tx_batch_nonce(token) == eth.batch[token]
get_logic_call_nonce(id) == eth.call[id]

EthNonce(s) == CASE s.kind = "valset" -> get_valset_nonce
                 [] s.kind = "batch" -> get_tx_batch_nonce(Batches[s.n].token)
                 [] s.kind = "call" -> get_logic_call_nonce(Calls[s.n].id)

PowerIn(valset, S) == MapThenSumSet(LAMBDA v : valset[v], S)
Power(S, n) == PowerIn(Valsets[n], S)

\* A transaction that is executed in the given block.
Accepts(tx, block) ==
    /\ tx.current = eth.valset
    /\ Nonce(tx.subject) > EthNonce(tx.subject)
    /\ block < Timeout(tx.subject)
    /\ ExceedsThreshold(Power(tx.sigs, tx.current))

NextHeight == IF eth.height = MaxHeight THEN MaxHeight ELSE eth.height + 1

\* The contract after it has accepted s in the next block.
Executed(s) ==
    LET e == [eth EXCEPT !.height = NextHeight]
    IN  CASE s.kind = "valset" -> [e EXCEPT !.valset = s.n]
          [] s.kind = "batch" -> [e EXCEPT !.batch[Batches[s.n].token] = s.n]
          [] s.kind = "call" -> [e EXCEPT !.call[Calls[s.n].id] = Nonce(s)]

-----------------------------------------------------------------------------
(* Cosmos, the other relayers and the miners                               *)

\* Nonces of sets and batches count up; calls may come in any order.
Issue(s) ==
    /\ s \notin held \cup gone
    /\ s.n \in DOMAIN Planned(s.kind)
    /\ s.kind # "call" =>
          \A old \in Subject : old.kind = s.kind /\ old.n < s.n => old \in held \cup gone
    /\ held' = held \cup {s}
    /\ UNCHANGED <<plan, gone, signers, eth, relayerVars>>

SignSubject(s, v) ==
    /\ s \in held /\ s # [kind |-> "valset", n |-> 1]
    /\ v \notin signers[s]
    /\ \E n \in DOMAIN Valsets : Valsets[n][v] > 0
    /\ signers' = [signers EXCEPT ![s] = @ \cup {v}]
    /\ UNCHANGED <<plan, held, gone, eth, relayerVars>>

\* Batches and calls leave the store when they are executed, superseded or
\* timed out; validator sets stay while they may still be needed.
Forget(s) ==
    /\ s \in held /\ s.kind # "valset"
    /\ EthNonce(s) >= Nonce(s) \/ eth.height >= Timeout(s)
    /\ held' = held \ {s} /\ gone' = gone \cup {s}
    /\ UNCHANGED <<plan, signers, eth, relayerVars>>

MineEmptyBlock ==
    /\ eth' = [eth EXCEPT !.height = NextHeight]
    /\ UNCHANGED <<plan, held, gone, signers, relayerVars>>

Explanation(tx) ==
    IF <<eth.valset, EthNonce(tx.subject)>> # tx.est THEN "raced"
    ELSE IF NextHeight >= Timeout(tx.subject) THEN "late" ELSE "unexplained"

MineTransaction ==
    /\ pool # None
    /\ pool' = None
    /\ IF Accepts(pool, NextHeight)
       THEN eth' = Executed(pool.subject) /\ UNCHANGED reverted
       ELSE /\ eth' = [eth EXCEPT !.height = NextHeight]
            /\ reverted' = Explanation(pool)
    /\ UNCHANGED <<plan, held, gone, signers, stage, current, seen, work>>

AnyoneSubmits(s) ==
    /\ s \in held
    /\ Accepts([subject |-> s, current |-> eth.valset, sigs |-> signers[s]], NextHeight)
    /\ eth' = Executed(s)
    /\ UNCHANGED <<plan, held, gone, signers, relayerVars>>

-----------------------------------------------------------------------------
(* A round of the relayer                                                  *)

Item(s) == [subject |-> s, current |-> current, sigs |-> signers[s], est |-> None]

\* Whether the signatures can be submitted under the validator set it has read.
order_sigs_ok(s) == signers[s] # {} /\ EnoughPercent(Power(signers[s], current))

AllDone(workers) == \A w \in workers : work[w].todo = <<>>

find_latest_valset ==
    /\ stage = "find"
    /\ current' = eth.valset
    /\ stage' = "found"
    /\ UNCHANGED <<plan, held, gone, signers, eth, pool, seen, work, reverted>>

\* What the Cosmos node lists. (The query stops after 100 batches or calls; it
\* is assumed that no more are waiting.)
get_latest_valsets == {s \in held : s.kind = "valset"}
get_latest_transaction_batches == {s \in held : s.kind = "batch"}
get_latest_logic_calls == {s \in held : s.kind = "call"}

\* Wrong variant of find_latest_valid_valset: the newest set, signed or not.
FindLatestValset == Max({s.n : s \in get_latest_valsets})

\* The newest set whose signatures can be submitted, from the newest down.
find_latest_valid_valset ==
    LET valid == {s.n : s \in {v \in get_latest_valsets : order_sigs_ok(v)}}
    IN  IF valid = {} THEN 0 ELSE Max(valid)

relay_valsets ==
    /\ stage = "found"
    /\ LET n == find_latest_valid_valset
       IN  work' = [work EXCEPT !["valset"].todo =
                       IF n > current THEN <<Item([kind |-> "valset", n |-> n])>> ELSE <<>>]
    /\ stage' = "valset"
    /\ UNCHANGED <<plan, held, gone, signers, eth, pool, current, seen, reverted>>

\* Wrong variant of ReverseList: the list stays newest first.
KeepList(items) == items

\* Cosmos lists batches newest first.
ReverseList(items) == Reverse(items)

get_batches_and_signatures(t) ==
    LET batches == {s \in get_latest_transaction_batches : Batches[s.n].token = t /\ order_sigs_ok(s)}
        listed == Reverse(Ascending({s.n : s \in batches}))
    IN  ReverseList([i \in DOMAIN listed |-> Item([kind |-> "batch", n |-> listed[i]])])

relay_batches ==
    /\ stage = "valset" /\ AllDone({"valset"})
    /\ work' = [w \in Workers |->
                  IF w \in Tokens THEN [Idle EXCEPT !.todo = get_batches_and_signatures(w)] ELSE Idle]
    /\ seen' = [seen EXCEPT !.height = eth.height]
    /\ stage' = "batches"
    /\ UNCHANGED <<plan, held, gone, signers, eth, pool, current, reverted>>

\* Of all calls that are listed and signed the last one is kept.
LastSignedCall ==
    LET signed == {s \in get_latest_logic_calls : order_sigs_ok(s)}
    IN  IF signed = {} THEN <<>> ELSE <<Item(CHOOSE s \in signed : \A t \in signed : t.n <= s.n)>>

relay_logic_calls ==
    /\ stage = "batches" /\ AllDone(Tokens)
    /\ work' = [w \in Workers |->
                  IF w = "call" THEN [Idle EXCEPT !.todo = LastSignedCall] ELSE Idle]
    /\ stage' = "call"
    /\ UNCHANGED <<plan, held, gone, signers, eth, pool, current, seen, reverted>>

relayer_main_loop ==
    /\ stage = "call" /\ AllDone({"call"})
    /\ work' = [w \in Workers |-> Idle]
    /\ seen' = Unseen
    /\ stage' = "find"
    /\ UNCHANGED <<plan, held, gone, signers, eth, pool, current, reverted>>

-----------------------------------------------------------------------------
(* One loop of the relayer, over the items it has to do                    *)

Busy(w, at) == work[w].todo # <<>> /\ work[w].at = at
First(w) == work[w].todo[1]

\* On to the next item of the list, whatever became of this one.
NextItem(w) == work' = [work EXCEPT ![w] = [Idle EXCEPT !.todo = Tail(work[w].todo), !.at = "pick"]]

\* The nonce is read once, before the list is gone through.
get_nonce(w) ==
    /\ Busy(w, "start")
    /\ seen' = [seen EXCEPT !.nonce[w] = IF w = "valset" THEN current ELSE EthNonce(First(w).subject)]
    /\ work' = [work EXCEPT ![w].at = "pick"]
    /\ UNCHANGED <<plan, held, gone, signers, eth, pool, stage, current, reverted>>

\* Wrong variant of Skips: the next nonce counts as submitted.
SkipsTheNext(w) == Nonce(First(w).subject) <= seen.nonce[w] + 1

\* What is not newer than the nonce read, and a batch that has timed out.
Skips(w) ==
    \/ First(w).subject.kind = "batch" /\ Timeout(First(w).subject) < seen.height
    \/ Nonce(First(w).subject) <= seen.nonce[w]

\* Wrong variant of eth_estimate_gas: an estimate that does not execute.
BlindEstimate(tx) == TRUE

\* A node simulates on its last block or on the next one.
eth_estimate_gas(tx) == \E block \in {eth.height, NextHeight} : Accepts(tx, block)

\* The item is simulated with success and the market takes it (RelayMarket).
Estimate(w) ==
    /\ Busy(w, "pick")
    /\ ~ Skips(w)
    /\ eth_estimate_gas(First(w))
    /\ work' = [work EXCEPT ![w].at = "send", ![w].est = <<eth.valset, EthNonce(First(w).subject)>>]
    /\ UNCHANGED <<plan, held, gone, signers, eth, pool, stage, current, seen, reverted>>

relay_valid_valset(w) == w = "valset" /\ Estimate(w)
submit_batches(w) == w \in Tokens /\ Estimate(w)
submit_logic_call(w) == w = "call" /\ Estimate(w)

\* It is skipped, its simulation or the node fails, or the market says no.
PassOver(w) ==
    /\ Busy(w, "pick")
    /\ NextItem(w)
    /\ UNCHANGED <<plan, held, gone, signers, eth, pool, stage, current, seen, reverted>>

\* The nonce and the height are read once more before a transaction is sent.
send_eth_valset_update(s) == eth.valset = current
send_eth_transaction_batch(s) == EthNonce(s) < Nonce(s) /\ eth.height <= Timeout(s)
send_eth_logic_call(s) == EthNonce(s) < Nonce(s) /\ eth.height <= Timeout(s)

ExitsEarly(s) == CASE s.kind = "valset" -> ~ send_eth_valset_update(s)
                   [] s.kind = "batch" -> ~ send_eth_transaction_batch(s)
                   [] s.kind = "call" -> ~ send_eth_logic_call(s)

\* A transaction that is sent while another one of this account is pending
\* has the same account nonce: it is refused, or it takes the other's place.
Send(w) ==
    /\ Busy(w, "send")
    /\ LET tx == [First(w) EXCEPT !.est = work[w].est]
       IN  \/ /\ ~ ExitsEarly(tx.subject)
              /\ pool' = tx
              /\ work' = [work EXCEPT ![w].at = "wait"]
           \/ /\ ExitsEarly(tx.subject) \/ pool # None
              /\ NextItem(w)
              /\ UNCHANGED pool
    /\ UNCHANGED <<plan, held, gone, signers, eth, stage, current, seen, reverted>>

\* The transaction is mined or replaced, or the wait times out.
WaitForTransaction(w) ==
    /\ Busy(w, "wait")
    /\ NextItem(w)
    /\ UNCHANGED <<plan, held, gone, signers, eth, pool, stage, current, seen, reverted>>

-----------------------------------------------------------------------------
Init ==
    /\ plan \in Plans
    /\ held = {[kind |-> "valset", n |-> 1]} /\ gone = {} /\ signers = [s \in Subject |-> {}]
    /\ eth = [height |-> 1, valset |-> 1, batch |-> [t \in Tokens |-> 0],
              call |-> [i \in Ids |-> 0]]
    /\ pool = None /\ reverted = "no"
    /\ stage = "find" /\ current = 1
    /\ seen = Unseen
    /\ work = [w \in Workers |-> Idle]

Round == find_latest_valset \/ relay_valsets \/ relay_batches \/ relay_logic_calls \/ relayer_main_loop

Loop(w) ==
    \/ get_nonce(w)
    \/ relay_valid_valset(w) \/ submit_batches(w) \/ submit_logic_call(w)
    \/ PassOver(w) \/ Send(w) \/ WaitForTransaction(w)

Next == \/ \E s \in Subject : Issue(s) \/ Forget(s) \/ AnyoneSubmits(s)
        \/ \E s \in Subject, v \in Validators : SignSubject(s, v)
        \/ MineEmptyBlock \/ MineTransaction
        \/ Round
        \/ \E w \in Workers : Loop(w)

Spec == Init /\ [][Next]_vars

\* The relayer keeps running, its pending transaction is mined in the end, and
\* neither the node nor the market (which may be off) refuses every estimate.
FairSpec == /\ Spec
            /\ WF_vars(Round)
            /\ WF_vars(MineTransaction)
            /\ \A w \in Workers : WF_vars(Loop(w)) /\ SF_vars(Estimate(w))

-----------------------------------------------------------------------------
\* The estimate is good for something: a transaction of the relayer reverts
\* only if the contract has changed since its estimate or the timeout has
\* been reached, never because it could not have succeeded in the first
\* place (submit_batches, relay_valid_valset, relay_logic_calls).
RevertsAreExplained == reverted # "unexplained"

\* Batches are tried in the order of their creation, oldest first, however
\* they were listed and signed (submit_batches).
OldestFirst ==
    \A t \in Tokens : \A i \in 2..Len(work[t].todo) : First(t).subject.n < work[t].todo[i].subject.n

\* The contract would accept s in its present state.
Ready(s) ==
    /\ s \in held
    /\ Accepts([subject |-> s, current |-> eth.valset, sigs |-> signers[s]], NextHeight)

\* A validator set whose signatures order_sigs accepts (66%, as a float) and the
\* contract refuses (more than its threshold).
InTheGap(s) ==
    LET power == Power(signers[s], eth.valset)
    IN  /\ s \in get_latest_valsets /\ signers[s] # {}
        /\ EnoughPercent(power) /\ ~ ExceedsThreshold(power)

\* A validator set that can be submitted is submitted or overtaken, again and
\* again, "so if we have sets A-Z and it's possible to submit only A, L, and Q
\* before reaching Z this code will do so" (find_latest_valid_valset): it waits
\* only behind a newer set whose signatures are in the gap between the two tests
\* of their power, at which the search stops.
ValsetsAreRelayed ==
    []<>(\A s \in Subject : s.kind = "valset" /\ Ready(s) =>
            \E t \in get_latest_valsets : t.n > s.n /\ InTheGap(t))

\* A batch, or the last of the calls, that can be submitted is executed,
\* superseded or, because of a new validator set or the timeout, can no longer
\* be submitted (relay_batches, relay_logic_calls). What is issued is finite,
\* so that again and again nothing waits.
ItemsAreRelayed ==
    []<>(\A s \in Subject :
            Ready(s) =>
              \/ s.kind = "valset"
              \/ s.kind = "call" /\ \E t \in get_latest_logic_calls : t.n > s.n)
=============================================================================
