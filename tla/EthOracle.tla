----------------------------- MODULE EthOracle -----------------------------
(***************************************************************************)
(* The oracle loop of an orchestrator: it searches the Ethereum history    *)
(* for the event it claimed last (get_last_checked_block), then polls for  *)
(* newer events and claims them on Cosmos (check_for_events), all claims   *)
(* of a round in one transaction.  Every await of the loop is a step of    *)
(* its own, so that blocks, reorganisations, late transactions and a crash *)
(* of the process can happen between any two of them.                      *)
(*                                                                         *)
(* Ethereum is a sequence of blocks, each a set of events: the order of    *)
(* the logs is the order of their nonces.  Cosmos keeps the events this    *)
(* validator claimed and at most one pending transaction of its account (a *)
(* second one would carry the same sequence number and be refused by the   *)
(* mempool).                                                               *)
(***************************************************************************)
EXTENDS Integers, Sequences, FiniteSets, FiniteSetsExt, SortedSets

CONSTANTS Kinds,             \* kinds of events that the contract emits
          NetVersion,        \* what kind of chain net_version names
          Delays,            \* the table of get_block_delay
          BLOCKS_TO_SEARCH,  \* blocks searched at a time (5000)
          Height0,           \* blocks when the contract has been deployed
          MaxReorg,          \* bound: depth of a reorganisation
          MaxHeight,         \* bound: blocks
          MaxEvents,         \* bound: events
          MaxBlockEvents,    \* bound: events of one block
          MaxFaults          \* bound: failed calls, timeouts, lost
                             \* transactions, reorganisations and crashes

\* The comment of get_block_delay: the delay must cover a reorganisation.
ASSUME OracleAssumption ==
    /\ Kinds \subseteq {"valset", "transfer", "logic", "garbled"}
    /\ "valset" \in Kinds
    /\ NetVersion \in DOMAIN Delays
    /\ \A net \in DOMAIN Delays : Delays[net] \in Nat
    /\ BLOCKS_TO_SEARCH \in Nat \ {0}
    /\ MaxReorg \in 0..Delays[NetVersion]
    /\ Height0 \in Nat /\ Height0 > Delays[NetVersion]
    /\ MaxHeight \in Nat /\ MaxHeight >= Height0
    /\ MaxEvents \in Nat \ {0} /\ MaxBlockEvents \in Nat /\ MaxFaults \in Nat

VARIABLES
    chain,    \* the blocks of Ethereum, each a set of events
    fork,     \* the number of reorganisations so far
    claimed,  \* on Cosmos: the events this validator claimed
    nonce,    \* on Cosmos: what LastEventNonceByAddr answers
    pending,  \* the claims of its transaction in the mempool, <<>> if none
    receipt,  \* what became of the transaction the loop waits for
    pc,       \* the next await of the loop
    loop,     \* its local variables
    faults

vars == <<chain, fork, claimed, nonce, pending, receipt, pc, loop, faults>>
cosmos == <<claimed, nonce, pending>>
ethereum == <<chain, fork>>

-----------------------------------------------------------------------------
(* Ethereum                                                                *)

Event(n, kind) == [nonce |-> n, kind |-> kind, fork |-> fork]

\* web3.check_for_events for all of the contract's events: the logs of the
\* blocks from..to.
Logs(from, to) == UNION {chain[b] : b \in DOMAIN chain \cap from..to}

EventsOf(blocks) == UNION {blocks[b] : b \in DOMAIN blocks}

\* state_lastEventNonce of the contract.
lastEventNonce == Max({0} \cup {e.nonce : e \in EventsOf(chain)})

BlockOf(e) == CHOOSE b \in DOMAIN chain : e \in chain[b]

\* Wrong variant of get_block_delay: events are read up to the tip.
NoDelay == 0

get_block_delay == Delays[NetVersion]

MineBlock ==
    /\ Len(chain) < MaxHeight
    /\ \E k \in 0..MaxBlockEvents : \E kinds \in [1..k -> Kinds] :
          /\ lastEventNonce + k <= MaxEvents
          /\ chain' = Append(chain, {Event(lastEventNonce + i, kinds[i]) : i \in 1..k})
    /\ UNCHANGED <<fork, cosmos, receipt, pc, loop, faults>>

\* A longer fork replaces the last blocks and, for the time being, holds none
\* of their transactions; the deployment of the contract is final.
Reorganise ==
    /\ faults < MaxFaults
    /\ Len(chain) < MaxHeight
    /\ \E depth \in 1..MaxReorg :
          /\ Len(chain) - depth >= Height0
          /\ chain' = [b \in 1..(Len(chain) + 1) |->
                         IF b <= Len(chain) - depth THEN chain[b] ELSE {}]
    /\ fork' = fork + 1
    /\ faults' = faults + 1
    /\ UNCHANGED <<cosmos, receipt, pc, loop>>

-----------------------------------------------------------------------------
(* Cosmos                                                                  *)

\* The claims of a transaction are executed in order; one that is not for
\* the next nonce fails the whole transaction.
InOrder(claims) == \A i \in DOMAIN claims : claims[i].nonce = nonce + i

DeliverTx ==
    /\ pending # <<>>
    /\ pending' = <<>>
    /\ IF InOrder(pending)
       THEN /\ claimed' = claimed \cup {pending[i] : i \in DOMAIN pending}
            /\ nonce' = nonce + Len(pending)
       ELSE UNCHANGED <<claimed, nonce>>
    /\ receipt' = IF pc # "WaitForTx" THEN receipt
                  ELSE IF InOrder(pending) THEN "executed" ELSE "failed"
    /\ UNCHANGED <<ethereum, pc, loop, faults>>

DropTx ==
    /\ pending # <<>>
    /\ faults < MaxFaults
    /\ pending' = <<>>
    /\ faults' = faults + 1
    /\ UNCHANGED <<ethereum, claimed, nonce, receipt, pc, loop>>

\* While this validator has claimed nothing its nonce is one less than the
\* last event that the others had observed, an event they saw as final.
OthersObserve ==
    /\ claimed = {}
    /\ \E e \in Logs(1, Len(chain) - get_block_delay) :
          /\ e.nonce - 1 > nonce
          /\ nonce' = e.nonce - 1
    /\ UNCHANGED <<ethereum, claimed, pending, receipt, pc, loop, faults>>

-----------------------------------------------------------------------------
(* Resync: get_last_checked_block                                          *)

Goto(step) == pc' = step /\ UNCHANGED <<ethereum, cosmos, receipt>>

\* get_block_number_with_retry repeats a failed call until it is answered.
ReadTip ==
    /\ pc = "ReadTip"
    /\ loop' = [loop EXCEPT !.current = Len(chain)]
    /\ Goto("ReadLastNonce")
    /\ UNCHANGED faults

\* Before the first claim the search is for event 1.
SearchedNonce(n) == IF n = 0 THEN 1 ELSE n

get_last_event_nonce_with_retry ==
    /\ pc = "ReadLastNonce"
    /\ loop' = [loop EXCEPT !.nonce = SearchedNonce(nonce)]
    /\ Goto("Search")
    /\ UNCHANGED faults

\* Wrong variant of NewestFirst: the order of the logs is kept.
OldestFirst(logs) == CHOOSE e \in logs : \A d \in logs : e.nonce <= d.nonce

\* The one of some logs at which a search from the newest on arrives first.
NewestFirst(logs) == CHOOSE e \in logs : \A d \in logs : d.nonce <= e.nonce

\* The constructor of the contract emits event 1, valset 0.
IsDeployment(e) == e.nonce = 1

\* The valset events that end the search.
ValsetHits(logs, n) ==
    {e \in logs : e.kind = "valset" /\ (e.nonce = n \/ IsDeployment(e))}

\* What one window of the search tells: where to go and, when the event was
\* found, its block.  Logs that cannot be parsed are passed over, but the
\* parser of logic calls is not implemented and panics.
SearchWindow(logs, n) ==
    LET others == {e \in logs : e.kind = "transfer" /\ e.nonce = n}
        valsets == ValsetHits(logs, n)
        found(e) == <<"Poll", BlockOf(e)>>
        panicked == <<"Panicked", 0>>
    IN  IF others # {} THEN found(CHOOSE e \in others : TRUE)
        ELSE IF \E e \in logs : e.kind = "logic" THEN panicked
        ELSE IF valsets = {} THEN <<"Search", 0>>
        ELSE IF NewestFirst(valsets).nonce = n THEN found(NewestFirst(valsets))
        ELSE panicked

WindowEnd(current) == Max({0, current - BLOCKS_TO_SEARCH})

\* A failed call repeats the window; the next window starts with the last
\* block of this one.
get_last_checked_block ==
    /\ pc = "Search"
    /\ IF loop.current = 0
       THEN Goto("Panicked") /\ UNCHANGED loop
       ELSE LET end == WindowEnd(loop.current)
                found == SearchWindow(Logs(end, loop.current), loop.nonce)
            IN  /\ Goto(found[1])
                /\ loop' = IF found[1] = "Poll"
                           THEN [loop EXCEPT !.checked = found[2]]
                           ELSE [loop EXCEPT !.current = end]
    /\ UNCHANGED faults

-----------------------------------------------------------------------------
(* One round of the loop: check_for_events                                 *)

\* The status of both nodes, then the height up to which events are final.
ReadHeight ==
    /\ pc = "Poll"
    /\ loop' = [loop EXCEPT !.latest = Len(chain) - get_block_delay]
    /\ Goto("ReadLogs")
    /\ UNCHANGED faults

\* from_logs fails for the whole range when one log cannot be parsed.
ReadLogs ==
    /\ pc = "ReadLogs"
    /\ LET logs == Logs(loop.checked, loop.latest)
           kinds == {e.kind : e \in logs}
       IN  /\ Goto(IF "garbled" \in kinds THEN "Poll"
                   ELSE IF "logic" \in kinds THEN "Panicked" ELSE "ReadNonce")
           /\ loop' = [loop EXCEPT !.events = logs]
    /\ UNCHANGED faults

filter_by_event_nonce(n, logs) == {e \in logs : e.nonce > n}

\* The events that were not claimed yet; without any, the range is done.
ReadNonce ==
    /\ pc = "ReadNonce"
    /\ LET new == filter_by_event_nonce(nonce, loop.events)
       IN  IF new = {}
           THEN /\ Goto("Poll")
                /\ loop' = [loop EXCEPT !.checked = loop.latest, !.events = {}]
           ELSE /\ Goto("SendClaims")
                /\ loop' = [loop EXCEPT !.nonce = nonce, !.events = new]
    /\ UNCHANGED faults

\* Events by their nonces.
ByNonce(events) ==
    LET nonces == Ascending({e.nonce : e \in events})
    IN  [i \in DOMAIN nonces |-> CHOOSE e \in events : e.nonce = nonces[i]]

\* Wrong variant of OrderedMsgs: the claims stay grouped by kind.
GroupedMsgs(events) == ByNonce({e \in events : e.kind = "transfer"})
                           \o ByNonce({e \in events : e.kind = "valset"})

\* The claims by event nonce, in one transaction.
OrderedMsgs(events) == ByNonce(events)

send_ethereum_claims ==
    /\ pc = "SendClaims"
    /\ loop' = [loop EXCEPT !.events = {}]
    /\ IF pending = <<>>
       THEN /\ pending' = OrderedMsgs(loop.events)
            /\ receipt' = "none"
            /\ pc' = "WaitForTx"
       ELSE /\ pc' = "Poll"
            /\ UNCHANGED <<pending, receipt>>
    /\ UNCHANGED <<ethereum, claimed, nonce, faults>>

\* Wrong variant of wait_for_tx: its result is ignored.
wait_without_result ==
    /\ pc = "WaitForTx"
    /\ pending = <<>>
    /\ Goto("CheckNonce")
    /\ UNCHANGED <<loop, faults>>

\* The transaction is found in a block, or it was lost and the wait times out.
\* The answer does not tell reliably whether a transaction in a block failed.
wait_for_tx ==
    /\ pc = "WaitForTx"
    /\ pending = <<>>
    /\ \/ receipt = "none" /\ Goto("Poll")
       \/ receipt = "executed" /\ Goto("CheckNonce")
       \/ receipt = "failed" /\ \E step \in {"Poll", "CheckNonce"} : Goto(step)
    /\ UNCHANGED <<loop, faults>>

\* Without progress of the nonce the same range is tried again.
CheckNonce ==
    /\ pc = "CheckNonce"
    /\ Goto("Poll")
    /\ loop' = IF nonce = loop.nonce THEN loop
               ELSE [loop EXCEPT !.checked = loop.latest]
    /\ UNCHANGED faults

\* A call that fails: the round ends and the same range is tried again.  The
\* search and the reads before it are repeated until they succeed, which is
\* the same as their happening later.
CallFails ==
    /\ pc \in {"ReadLogs", "ReadNonce", "SendClaims", "WaitForTx", "CheckNonce"}
    /\ faults < MaxFaults
    /\ faults' = faults + 1
    /\ loop' = [loop EXCEPT !.events = {}]
    /\ Goto("Poll")

\* The process is killed and started again.
Crash ==
    /\ faults < MaxFaults
    /\ faults' = faults + 1
    /\ loop' = [loop EXCEPT !.events = {}]
    /\ Goto("ReadTip")

\* A process that panicked is started again.
Restart ==
    /\ pc = "Panicked"
    /\ loop' = [loop EXCEPT !.events = {}]
    /\ Goto("ReadTip")
    /\ UNCHANGED faults

-----------------------------------------------------------------------------
Init ==
    /\ fork = 0
    /\ chain = [b \in 1..Height0 |->
                   IF b = 1 THEN {Event(1, "valset")} ELSE {}]
    /\ claimed = {} /\ nonce = 0
    /\ pending = <<>> /\ receipt = "none"
    /\ pc = "ReadTip"
    /\ loop = [checked |-> 0, latest |-> 0, current |-> 0, nonce |-> 0,
               events |-> {}]
    /\ faults = 0

Oracle ==
    \/ ReadTip \/ get_last_event_nonce_with_retry \/ get_last_checked_block
    \/ ReadHeight \/ ReadLogs \/ ReadNonce
    \/ send_ethereum_claims \/ wait_for_tx \/ CheckNonce

Next ==
    \/ Oracle \/ CallFails \/ Crash \/ Restart
    \/ MineBlock \/ Reorganise \/ DeliverTx \/ DropTx \/ OthersObserve

Spec == Init /\ [][Next]_vars

\* The loop keeps polling and is started again after a panic, validators
\* execute what is in their mempools; failures are bounded by MaxFaults.
FairSpec == Spec /\ WF_vars(Oracle \/ Restart) /\ WF_vars(DeliverTx)

-----------------------------------------------------------------------------
(* Properties                                                              *)

Events == [nonce : 1..MaxEvents, kind : Kinds, fork : Nat]

\* The type invariant.
TypeOK ==
    /\ chain \in Seq(SUBSET Events)
    /\ Len(chain) \in Height0..MaxHeight
    /\ fork \in Nat
    /\ claimed \subseteq Events
    /\ nonce \in 0..MaxEvents
    /\ pending \in Seq(Events)
    /\ receipt \in {"none", "executed", "failed"}
    /\ pc \in {"ReadTip", "ReadLastNonce", "Search", "Poll", "ReadLogs",
               "ReadNonce", "SendClaims", "WaitForTx", "CheckNonce", "Panicked"}
    /\ loop \in [checked : 0..MaxHeight, latest : 0..MaxHeight,
                 current : 0..MaxHeight, nonce : 0..MaxEvents, events : SUBSET Events]
    /\ faults \in 0..MaxFaults

\* Cosmos knows the events of the blocks from..to.
KnownIn(from, to) == \A e \in Logs(from, to) : e.nonce <= nonce

\* The loop never moves past an event that was not claimed, whatever calls
\* failed, timed out or took effect late, but for one case: its own transaction
\* failed in a block and it takes a nonce that something else moved for success
\* (last_checked_block of eth_oracle_main_loop).
NoEventSkipped ==
    [][/\ pc = "Search" /\ pc' = "Poll" => KnownIn(1, loop'.checked - 1)
       /\ pc \in {"ReadNonce", "CheckNonce"} /\ loop'.checked # loop.checked =>
             \/ KnownIn(loop.checked, loop'.checked)
             \/ pc = "CheckNonce" /\ receipt = "failed"]_vars

\* The loop polls behind an event that Cosmos does not know: it neither claims
\* it nor, as claims must be consecutive, any later one until it is restarted.
HasSkipped ==
    /\ pc \in {"Poll", "ReadLogs", "ReadNonce", "SendClaims", "WaitForTx",
               "CheckNonce"}
    /\ ~KnownIn(1, loop.checked - 1)

\* What the check of the nonce after a transaction is for (check_for_events: "we
\* can't actually trust that the above txresponse is correct"): a round whose
\* claims were not processed is repeated.
UnprocessedClaimsAreRepeated == ~HasSkipped

\* Nothing is claimed that a reorganisation takes back: every claim is an
\* event of the chain as it is now, though it may have been read many blocks
\* ago and on another fork (the block delay of check_for_events).
ClaimsAreFinal == claimed \subseteq EventsOf(chain)

HasKind(kinds) == \E e \in EventsOf(chain) : e.kind \in kinds

\* A restarted oracle finds the event it claimed last: except for the parser of
\* logic calls it panics only when it has claimed nothing, for the nonce it then
\* searches can be newer than the block it started the search from.
ResyncFindsTheLastEvent ==
    [][pc # "Panicked" /\ pc' = "Panicked" =>
           claimed = {} \/ HasKind({"logic"})]_vars

\* While the logs can be parsed and the loop has skipped none the loop catches
\* up, again and again: every event that is deep enough is claimed, by this
\* validator or, while it has claimed nothing, by the others
\* (eth_oracle_main_loop: events are "ferried over to Cosmos").
EventsAreFerried ==
    []<>(\/ HasKind({"logic", "garbled"})
         \/ HasSkipped
         \/ \A e \in Logs(1, Len(chain) - get_block_delay) :
               e.nonce <= nonce)
=============================================================================
