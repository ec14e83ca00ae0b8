--------------------------- MODULE EthOracleProofs ---------------------------
(***************************************************************************)
(* The oracle loop, for every number of blocks, events and faults, every   *)
(* delay that covers the reorganisations and every size of the search's    *)
(* windows: it passes no event by, it claims what stays on the chain, and  *)
(* after a restart it finds its way back.                                  *)
(***************************************************************************)
EXTENDS EthOracle, DataLemmas, TLAPS

-----------------------------------------------------------------------------
(* The inductive invariant                                                 *)

\* Later blocks have later events.
NoncesGrow ==
    \A a, b \in DOMAIN chain : a < b =>
        \A d \in chain[a], e \in chain[b] : d.nonce < e.nonce

\* The blocks the loop remembers exist, and the newest it reads is deep enough.
BlocksExist ==
    /\ loop.checked <= Len(chain)
    /\ loop.latest + get_block_delay <= Len(chain)

\* What is deeper than the delay.
Final == Logs(1, Len(chain) - get_block_delay)

\* What was read, is being claimed and is claimed is final.
ReadIsFinal ==
    /\ loop.events \subseteq Final
    /\ \A i \in DOMAIN pending : pending[i] \in Final
    /\ claimed \subseteq Final

\* The search looks for an event whose predecessors Cosmos knows.
SearchIsForKnown == pc = "Search" => loop.nonce <= nonce + 1

\* The events of the range that the round is about are known to Cosmos.
RangeIsKnown ==
    \A b \in DOMAIN chain : loop.checked <= b /\ b <= loop.latest =>
        \A e \in chain[b] : e.nonce <= nonce

\* Only a transaction that was found in a block leads to the check of the nonce.
FoundInBlock == pc = "CheckNonce" => receipt # "none"

\* At every step of a round, every event of its range is known or is one of those
\* that the round is about to claim; all are known once its transaction was
\* executed.
RoundIsComplete ==
    /\ pc = "ReadNonce" =>
         \A b \in DOMAIN chain : loop.checked <= b /\ b <= loop.latest =>
             chain[b] \subseteq loop.events
    /\ pc = "SendClaims" =>
         \A b \in DOMAIN chain : loop.checked <= b /\ b <= loop.latest =>
             \A e \in chain[b] : e.nonce <= nonce \/ e \in loop.events
    /\ pc = "WaitForTx" /\ pending # <<>> =>
         \A b \in DOMAIN chain : loop.checked <= b /\ b <= loop.latest =>
             \A e \in chain[b] :
                 e.nonce <= nonce \/ \E i \in DOMAIN pending : pending[i].nonce = e.nonce
    /\ pc \in {"WaitForTx", "CheckNonce"} /\ receipt = "executed" => RangeIsKnown

IInv ==
    /\ TypeOK
    /\ NoncesGrow
    /\ BlocksExist
    /\ ReadIsFinal
    /\ SearchIsForKnown
    /\ RoundIsComplete
    /\ FoundInBlock

-----------------------------------------------------------------------------
(* Ethereum                                                                *)

LEMMA DelayType ==
    get_block_delay \in Nat /\ MaxReorg <= get_block_delay /\ get_block_delay < Height0
  BY OracleAssumption DEF get_block_delay

\* The contract's nonce is the greatest of its events.
LEMMA LastNonceIsGreatest ==
    ASSUME TypeOK
    PROVE  /\ lastEventNonce \in Nat
           /\ \A b \in DOMAIN chain : \A e \in chain[b] : e.nonce <= lastEventNonce
  <1> DEFINE S == {0} \cup {e.nonce : e \in EventsOf(chain)}
  <1>1. \A e \in EventsOf(chain) : e \in Events
    BY DEF TypeOK, EventsOf
  <1>2. MaxEvents \in Nat
    BY OracleAssumption
  <1>3. S \subseteq Nat /\ S # {} /\ \A x \in S : x <= MaxEvents
    BY <1>1, <1>2 DEF Events
  <1>4. Max(S) \in S /\ \A y \in S : y <= Max(S)
    <2> HIDE DEF S
    <2> QED
      BY <1>2, <1>3, MaxOfBounded
  <1>5. ASSUME NEW b \in DOMAIN chain, NEW e \in chain[b]
        PROVE  e.nonce \in S
    BY DEF EventsOf
  <1>6. lastEventNonce = Max(S)
    BY DEF lastEventNonce
  <1> HIDE DEF S
  <1> QED
    BY <1>3, <1>4, <1>5, <1>6

\* A step of Ethereum takes no block away, adds events only in new blocks, with
\* new nonces, and leaves alone what is deeper than the delay.
LEMMA EthereumGrows ==
    ASSUME TypeOK, NoncesGrow, MineBlock \/ Reorganise
    PROVE  /\ chain' \in Seq(SUBSET Events)
           /\ Len(chain') = Len(chain) + 1 /\ Len(chain') <= MaxHeight
           /\ fork' \in Nat
           /\ \A b \in 1..Len(chain) : chain'[b] \subseteq chain[b]
           /\ \A b \in 1..(Len(chain) - get_block_delay) : chain'[b] = chain[b]
           /\ NoncesGrow'
  <1> DEFINE L == Len(chain)
  <1>1. /\ chain \in Seq(SUBSET Events) /\ L \in Nat /\ DOMAIN chain = 1..L
        /\ L >= Height0 /\ Height0 \in Nat /\ MaxHeight \in Nat /\ fork \in Nat
    BY OracleAssumption DEF TypeOK
  <1>2. CASE MineBlock
    <2>1. PICK k \in 0..MaxBlockEvents : \E kinds \in [1..k -> Kinds] :
             /\ lastEventNonce + k <= MaxEvents
             /\ chain' = Append(chain, {Event(lastEventNonce + i, kinds[i]) : i \in 1..k})
      BY <1>2 DEF MineBlock
    <2>2. PICK kinds \in [1..k -> Kinds] :
             /\ lastEventNonce + k <= MaxEvents
             /\ chain' = Append(chain, {Event(lastEventNonce + i, kinds[i]) : i \in 1..k})
      BY <2>1
    <2> DEFINE B == {Event(lastEventNonce + i, kinds[i]) : i \in 1..k}
    <2>3. lastEventNonce \in Nat /\ MaxEvents \in Nat /\ k \in Nat
      BY LastNonceIsGreatest, OracleAssumption
    <2>4. \A e \in B : e \in Events /\ e.nonce > lastEventNonce
      BY <1>1, <2>2, <2>3 DEF Event, Events
    <2>5. chain' = Append(chain, B) /\ B \in SUBSET Events
      BY <2>2, <2>4
    <2> HIDE DEF B
    <2>6. /\ chain' \in Seq(SUBSET Events) /\ Len(chain') = L + 1
          /\ DOMAIN chain' = 1..(L + 1)
          /\ chain'[L + 1] = B
          /\ \A b \in 1..L : chain'[b] = chain[b]
      BY <1>1, <2>5
    <2>7. NoncesGrow'
      <3> SUFFICES ASSUME NEW a \in 1..(L + 1), NEW b \in 1..(L + 1), a < b,
                          NEW d \in chain'[a], NEW e \in chain'[b]
                   PROVE  d.nonce < e.nonce
        BY <2>6 DEF NoncesGrow
      <3>1. a \in 1..L
        BY <1>1
      <3>2. d \in chain[a] /\ d \in Events
        BY <1>1, <2>6, <3>1
      <3>3. CASE b = L + 1
        <4>1. e \in Events /\ e.nonce > lastEventNonce /\ d.nonce <= lastEventNonce
          BY <1>1, <2>4, <2>6, <3>1, <3>2, <3>3, LastNonceIsGreatest
        <4>2. e.nonce \in Nat /\ d.nonce \in Nat
          BY <3>2, <4>1 DEF Events
        <4> QED
          BY <2>3, <4>1, <4>2
      <3>4. CASE b # L + 1
        <4>1. b \in 1..L /\ e \in chain[b]
          BY <1>1, <2>6, <3>4
        <4> QED
          BY <1>1, <3>1, <3>2, <4>1 DEF NoncesGrow
      <3> QED
        BY <3>3, <3>4
    <2>8. Len(chain) < MaxHeight /\ fork' = fork
      BY <1>2 DEF MineBlock
    <2>9. \A b \in 1..(L - get_block_delay) : b \in 1..L
      BY <1>1, DelayType
    <2> QED
      BY <1>1, <2>6, <2>7, <2>8, <2>9
  <1>3. CASE Reorganise
    <2>1. PICK depth \in 1..MaxReorg :
             /\ L - depth >= Height0
             /\ chain' = [b \in 1..(L + 1) |-> IF b <= L - depth THEN chain[b] ELSE {}]
      BY <1>3 DEF Reorganise
    <2>2. depth \in Nat /\ depth <= get_block_delay /\ get_block_delay \in Nat
      BY DelayType, OracleAssumption
    <2>3. \A b \in 1..(L + 1) : b <= L - depth => b \in 1..L
      BY <1>1, <2>2
    <2>4. \A b \in 1..(L + 1) : chain'[b] \in SUBSET Events
      BY <1>1, <2>1, <2>3
    <2>5. chain' \in Seq(SUBSET Events) /\ Len(chain') = L + 1 /\ DOMAIN chain' = 1..(L + 1)
      <3>1. chain' \in [1..(L + 1) -> SUBSET Events] /\ L + 1 \in Nat
        BY <1>1, <2>1, <2>4
      <3> QED
        BY <3>1
    <2>6. \A b \in 1..(L - get_block_delay) : b \in 1..(L + 1) /\ b <= L - depth
      BY <1>1, <2>2
    <2>7. \A b \in 1..(L - get_block_delay) : chain'[b] = chain[b]
      BY <2>1, <2>6
    <2>8. \A b \in 1..L : chain'[b] \subseteq chain[b]
      BY <1>1, <2>1
    <2>9. NoncesGrow'
      BY <1>1, <2>1, <2>3, <2>5 DEF NoncesGrow
    <2>10. fork' = fork + 1 /\ L < MaxHeight
      BY <1>3 DEF Reorganise
    <2> QED
      BY <1>1, <2>5, <2>7, <2>8, <2>9, <2>10
  <1> QED
    BY <1>2, <1>3

\* A failure is counted, up to the bound.
LEMMA FaultsAreCounted ==
    ASSUME TypeOK, \/ faults' = faults
                   \/ faults < MaxFaults /\ faults' = faults + 1
    PROVE  faults' \in 0..MaxFaults
  <1>1. faults \in 0..MaxFaults /\ MaxFaults \in Nat
    BY OracleAssumption DEF TypeOK
  <1> QED
    BY <1>1

LEMMA EthereumStep ==
    ASSUME IInv, MineBlock \/ Reorganise
    PROVE  IInv'
  <1> DEFINE L == Len(chain)
  <1>1. /\ chain' \in Seq(SUBSET Events)
        /\ Len(chain') = L + 1 /\ Len(chain') <= MaxHeight
        /\ fork' \in Nat
        /\ \A b \in 1..L : chain'[b] \subseteq chain[b]
        /\ \A b \in 1..(L - get_block_delay) : chain'[b] = chain[b]
        /\ NoncesGrow'
    BY EthereumGrows DEF IInv
  <1>2. /\ UNCHANGED <<claimed, nonce, pending, receipt, pc, loop>>
        /\ faults' \in 0..MaxFaults
    BY FaultsAreCounted DEF IInv, MineBlock, Reorganise, cosmos
  <1>3. /\ L \in Nat /\ DOMAIN chain = 1..L /\ DOMAIN chain' = 1..(L + 1)
        /\ L >= Height0 /\ Height0 \in Nat
        /\ loop.checked \in Nat /\ loop.latest \in Nat
        /\ loop.checked <= L /\ loop.latest <= L
    BY <1>1, DelayType, OracleAssumption DEF IInv, TypeOK, BlocksExist
  <1>4. \A b \in DOMAIN chain' : b <= L => b \in DOMAIN chain /\ chain'[b] \subseteq chain[b]
    BY <1>1, <1>3
  <1>5. TypeOK'
    <2>1. Len(chain') \in Height0..MaxHeight
      BY <1>1, <1>3, OracleAssumption
    <2> QED
      BY <1>1, <1>2, <2>1 DEF IInv, TypeOK
  <1>6. BlocksExist'
    BY <1>1, <1>2, <1>3, DelayType DEF IInv, BlocksExist, get_block_delay
  <1>7. Final \subseteq Final'
    <2> SUFFICES ASSUME NEW e \in Final
                 PROVE  e \in Final'
      OBVIOUS
    <2>1. PICK b \in 1..L \cap 1..(L - get_block_delay) : e \in chain[b]
      BY <1>3 DEF Final, Logs
    <2>2. b \in DOMAIN chain' /\ b \in 1..(Len(chain') - get_block_delay) /\ e \in chain'[b]
      BY <1>1, <1>3, <2>1, DelayType
    <2>3. (\E c \in DOMAIN chain' : c \in 1..(Len(chain') - get_block_delay) /\ e \in chain'[c])
            => e \in Final'
      BY DEF Final, Logs, get_block_delay
    <2> QED
      BY <2>2, <2>3
  <1>8. ReadIsFinal'
    BY <1>2, <1>7 DEF IInv, ReadIsFinal
  <1>9. RoundIsComplete'
    BY <1>2, <1>3, <1>4 DEF IInv, RoundIsComplete, RangeIsKnown
  <1>11. SearchIsForKnown'
    BY <1>2 DEF IInv, SearchIsForKnown
  <1>12. FoundInBlock'
    BY <1>2 DEF IInv, FoundInBlock
  <1> QED
    BY <1>1, <1>5, <1>6, <1>8, <1>9, <1>11, <1>12 DEF IInv

-----------------------------------------------------------------------------
(* Cosmos                                                                  *)

\* A transaction's claims are consecutive, and Cosmos knows them afterwards.
LEMMA CosmosStep ==
    ASSUME IInv, DeliverTx \/ DropTx \/ OthersObserve
    PROVE  IInv'
  <1>a. UNCHANGED <<chain, fork, pc, loop>> /\ faults' \in 0..MaxFaults
    BY FaultsAreCounted DEF IInv, DeliverTx, DropTx, OthersObserve, ethereum
  <1>0. /\ UNCHANGED <<chain, fork, pc, loop>> /\ faults' \in 0..MaxFaults
        /\ Final' = Final
    BY <1>a DEF Final, Logs, get_block_delay
  <1>1. /\ nonce' \in 0..MaxEvents /\ nonce \in 0..MaxEvents /\ nonce' >= nonce
        /\ claimed' \subseteq Events /\ claimed' \subseteq Final
        /\ pending' = <<>> \/ pending' = pending
        /\ receipt' \in {"none", "executed", "failed"}
        /\ pc = "WaitForTx" /\ receipt' = "executed" =>
             \/ receipt = "executed"
             \/ /\ pending # <<>>
                /\ \A i \in DOMAIN pending : pending[i].nonce <= nonce'
    <2>0. /\ nonce \in Nat /\ MaxEvents \in Nat /\ nonce <= MaxEvents
          /\ pending \in Seq(Events) /\ claimed \subseteq Events /\ claimed \subseteq Final
          /\ \A i \in DOMAIN pending : pending[i] \in Final /\ pending[i] \in Events
      BY OracleAssumption DEF IInv, TypeOK, ReadIsFinal
    <2>1. CASE DeliverTx /\ InOrder(pending)
      <3>1. /\ pending # <<>> /\ pending' = <<>>
            /\ claimed' = claimed \cup {pending[i] : i \in DOMAIN pending}
            /\ nonce' = nonce + Len(pending)
            /\ receipt' \in {receipt, "executed"}
        BY <2>1 DEF DeliverTx
      <3>2. Len(pending) \in Nat /\ DOMAIN pending = 1..Len(pending) /\ Len(pending) > 0
        BY <2>0, <3>1
      <3>3. \A i \in DOMAIN pending : pending[i].nonce = nonce + i
        BY <2>1 DEF InOrder
      <3>4. Len(pending) \in DOMAIN pending
        BY <3>2
      <3>5. pending[Len(pending)].nonce \in 1..MaxEvents
        BY <2>0, <3>4 DEF Events
      <3>6. nonce' \in 0..MaxEvents /\ nonce' >= nonce
        BY <2>0, <3>1, <3>2, <3>3, <3>4, <3>5
      <3>7. \A i \in DOMAIN pending : pending[i].nonce <= nonce'
        BY <2>0, <3>1, <3>2, <3>3
      <3> QED
        BY <2>0, <3>1, <3>6, <3>7 DEF IInv, TypeOK
    <2>2. CASE DeliverTx /\ ~InOrder(pending)
      BY <2>0, <2>2 DEF DeliverTx, IInv, TypeOK
    <2>3. CASE DropTx
      BY <2>0, <2>3 DEF DropTx, IInv, TypeOK
    <2>4. CASE OthersObserve
      <3>1. PICK e \in Logs(1, Len(chain) - get_block_delay) :
               e.nonce - 1 > nonce /\ nonce' = e.nonce - 1
        BY <2>4 DEF OthersObserve
      <3>2. e.nonce \in 1..MaxEvents
        <4>1. e \in Events
          BY <3>1 DEF Logs, IInv, TypeOK
        <4> QED
          BY <4>1 DEF Events
      <3> QED
        BY <2>0, <2>4, <3>1, <3>2 DEF OthersObserve, IInv, TypeOK
    <2> QED
      BY <2>1, <2>2, <2>3, <2>4
  <1>2. \A b \in DOMAIN chain : \A e \in chain[b] : e.nonce \in Nat
    BY DEF IInv, TypeOK, Events
  <1>3. \A b \in DOMAIN chain : \A e \in chain[b] : e.nonce <= nonce => e.nonce <= nonce'
    BY <1>1, <1>2, OracleAssumption
  <1>4. TypeOK'
    <2>1. pending \in Seq(Events) /\ <<>> \in Seq(Events)
      BY DEF IInv, TypeOK
    <2>2. pending' \in Seq(Events)
      BY <1>1, <2>1
    <2> QED
      BY <1>0, <1>1, <2>2 DEF IInv, TypeOK
  <1>5. ReadIsFinal'
    BY <1>0, <1>1 DEF IInv, ReadIsFinal
  <1>6. NoncesGrow' /\ BlocksExist'
    BY <1>0 DEF IInv, NoncesGrow, BlocksExist, get_block_delay
  <1>7. SearchIsForKnown'
    BY <1>0, <1>1, OracleAssumption DEF IInv, TypeOK, SearchIsForKnown
  <1>8. pc # "WaitForTx" => receipt' = receipt
    BY DEF DeliverTx, DropTx, OthersObserve
  <1>9. RoundIsComplete'
    <2>1. ASSUME pc = "WaitForTx", pending' # <<>>,
                 NEW b \in DOMAIN chain, loop.checked <= b, b <= loop.latest, NEW e \in chain[b]
          PROVE  e.nonce <= nonce' \/ \E i \in DOMAIN pending' : pending'[i].nonce = e.nonce
      BY <1>1, <1>3, <2>1 DEF IInv, RoundIsComplete
    <2>2. ASSUME pc = "WaitForTx", receipt' = "executed",
                 NEW b \in DOMAIN chain, loop.checked <= b, b <= loop.latest, NEW e \in chain[b]
          PROVE  e.nonce <= nonce'
      <3>1. CASE receipt = "executed"
        BY <1>3, <2>2, <3>1 DEF IInv, RoundIsComplete, RangeIsKnown
      <3>2. CASE pending # <<>> /\ \A i \in DOMAIN pending : pending[i].nonce <= nonce'
        <4>1. e.nonce <= nonce \/ \E i \in DOMAIN pending : pending[i].nonce = e.nonce
          BY <2>2, <3>2 DEF IInv, RoundIsComplete
        <4> QED
          BY <1>3, <3>2, <4>1
      <3> QED
        BY <1>1, <2>2, <3>1, <3>2
    <2>3. pc = "ReadNonce" =>
            \A b \in DOMAIN chain : loop.checked <= b /\ b <= loop.latest =>
                chain[b] \subseteq loop.events
      BY DEF IInv, RoundIsComplete
    <2>4. pc = "SendClaims" =>
            \A b \in DOMAIN chain : loop.checked <= b /\ b <= loop.latest =>
                \A e \in chain[b] : e.nonce <= nonce' \/ e \in loop.events
      BY <1>3 DEF IInv, RoundIsComplete
    <2>5. pc = "CheckNonce" /\ receipt' = "executed" =>
            \A b \in DOMAIN chain : loop.checked <= b /\ b <= loop.latest =>
                \A e \in chain[b] : e.nonce <= nonce'
      BY <1>3, <1>8 DEF IInv, RoundIsComplete, RangeIsKnown
    <2> QED
      BY <1>0, <2>1, <2>2, <2>3, <2>4, <2>5 DEF RoundIsComplete, RangeIsKnown
  <1>10. FoundInBlock'
    BY <1>0, <1>8 DEF IInv, FoundInBlock
  <1> QED
    BY <1>4, <1>5, <1>6, <1>7, <1>9, <1>10 DEF IInv

-----------------------------------------------------------------------------
(* The loop                                                                *)

\* The loop leaves both chains alone until it sends its claims, and its variables
\* keep their types.
LEMMA LoopTypes ==
    ASSUME TypeOK, UNCHANGED <<ethereum, cosmos, receipt>>,
           pc' \in {"ReadTip", "ReadLastNonce", "Search", "Poll", "ReadLogs",
                    "ReadNonce", "SendClaims", "WaitForTx", "CheckNonce", "Panicked"},
           \/ faults' = faults
           \/ faults < MaxFaults /\ faults' = faults + 1,
           \/ loop' = loop
           \/ \E h \in 0..MaxHeight : loop' = [loop EXCEPT !.checked = h]
           \/ \E h \in 0..MaxHeight : loop' = [loop EXCEPT !.latest = h]
           \/ \E h \in 0..MaxHeight : loop' = [loop EXCEPT !.current = h]
           \/ \E n \in 0..MaxEvents : loop' = [loop EXCEPT !.nonce = n]
           \/ \E es \in SUBSET Events : loop' = [loop EXCEPT !.events = es]
           \/ \E h \in 0..MaxHeight, es \in SUBSET Events :
                 loop' = [loop EXCEPT !.checked = h, !.events = es]
           \/ \E n \in 0..MaxEvents, es \in SUBSET Events :
                 loop' = [loop EXCEPT !.nonce = n, !.events = es]
    PROVE  TypeOK'
  <1>1. faults' \in 0..MaxFaults
    BY FaultsAreCounted
  <1>2. loop' \in [checked : 0..MaxHeight, latest : 0..MaxHeight,
                  current : 0..MaxHeight, nonce : 0..MaxEvents, events : SUBSET Events]
    BY DEF TypeOK
  <1> QED
    BY <1>1, <1>2 DEF TypeOK, ethereum, cosmos

\* A step of the loop that changes nothing but its own variables, after which it
\* waits, is restarted or begins a round.
LEMMA RestStep ==
    ASSUME IInv, TypeOK', pc' \in {"ReadTip", "ReadLastNonce", "Poll", "Panicked"},
           UNCHANGED chain, UNCHANGED claimed, UNCHANGED nonce, UNCHANGED pending,
           UNCHANGED receipt,
           loop'.events \subseteq Final,
           loop'.latest = loop.latest,
           loop'.checked = loop.checked \/ loop'.checked = loop.latest
    PROVE  IInv'
  <1>1. Final' = Final
    BY DEF Final, Logs, get_block_delay
  <1>2. NoncesGrow' /\ SearchIsForKnown' /\ RoundIsComplete' /\ FoundInBlock'
    BY DEF IInv, NoncesGrow, SearchIsForKnown, RoundIsComplete, FoundInBlock
  <1>3. ReadIsFinal'
    BY <1>1 DEF IInv, ReadIsFinal
  <1>4. BlocksExist'
    <2>1. loop.latest <= Len(chain)
      BY DelayType DEF IInv, TypeOK, BlocksExist
    <2> QED
      BY <2>1 DEF IInv, BlocksExist, get_block_delay
  <1> QED
    BY <1>2, <1>3, <1>4 DEF IInv

\* The search ends at an event with the nonce it looks for.
LEMMA SearchEndsAtTheEvent ==
    ASSUME NEW logs, logs \subseteq Events, NEW n, SearchWindow(logs, n)[1] = "Poll"
    PROVE  \E e \in logs : e.nonce = n /\ SearchWindow(logs, n)[2] = BlockOf(e)
  <1> DEFINE others == {e \in logs : e.kind = "transfer" /\ e.nonce = n}
             valsets == ValsetHits(logs, n)
  <1>1. CASE others # {}
    <2> DEFINE e == CHOOSE x \in others : TRUE
    <2>1. e \in others
      BY <1>1
    <2>2. SearchWindow(logs, n) = <<"Poll", BlockOf(e)>>
      BY <1>1 DEF SearchWindow
    <2> HIDE DEF e
    <2> QED
      BY <2>1, <2>2
  <1>2. CASE others = {}
    <2> DEFINE e == NewestFirst(valsets)
    <2>1. SearchWindow(logs, n) =
            IF \E x \in logs : x.kind = "logic" THEN <<"Panicked", 0>>
            ELSE IF valsets = {} THEN <<"Search", 0>>
            ELSE IF e.nonce = n THEN <<"Poll", BlockOf(e)>> ELSE <<"Panicked", 0>>
      BY <1>2 DEF SearchWindow
    <2> HIDE DEF e
    <2>2. e.nonce = n /\ SearchWindow(logs, n) = <<"Poll", BlockOf(e)>> /\ valsets # {}
      BY <2>1
    <2>3. e \in logs
      <3> DEFINE S == {x.nonce : x \in valsets}
      <3>1. MaxEvents \in Nat
        BY OracleAssumption
      <3>2. valsets \subseteq logs
        BY DEF ValsetHits
      <3>3. S \subseteq Nat /\ S # {} /\ \A m \in S : m <= MaxEvents
        BY <2>2, <3>1, <3>2 DEF Events
      <3>4. PICK m \in S : \A k \in S : m >= k
        <4> HIDE DEF S
        <4> QED
          BY <3>1, <3>3, GreatestNat
      <3>5. \E x \in valsets : \A d \in valsets : d.nonce <= x.nonce
        BY <3>3, <3>4
      <3> QED
        BY <3>2, <3>5 DEF e, NewestFirst
    <2> QED
      BY <2>2, <2>3
  <1> QED
    BY <1>1, <1>2

\* What the type invariant says of the heights and of the nonce.
LEMMA BasicTypes ==
    ASSUME IInv
    PROVE  /\ Len(chain) \in Nat /\ DOMAIN chain = 1..Len(chain) /\ Len(chain) <= MaxHeight
           /\ MaxHeight \in Nat /\ get_block_delay \in Nat /\ nonce \in Nat
           /\ loop.checked \in Nat /\ loop.latest \in Nat
           /\ loop.latest + get_block_delay <= Len(chain)
  <1>1. /\ chain \in Seq(SUBSET Events) /\ Len(chain) \in Height0..MaxHeight
        /\ nonce \in 0..MaxEvents
        /\ loop \in [checked : 0..MaxHeight, latest : 0..MaxHeight,
                     current : 0..MaxHeight, nonce : 0..MaxEvents, events : SUBSET Events]
        /\ BlocksExist
    BY Zenon DEF IInv, TypeOK
  <1>2. Height0 \in Nat /\ MaxHeight \in Nat /\ MaxEvents \in Nat
    BY OracleAssumption
  <1>3. Len(chain) \in Nat /\ DOMAIN chain = 1..Len(chain)
    BY <1>1
  <1>4. Len(chain) <= MaxHeight /\ nonce \in Nat
    BY ONLY <1>1, <1>2, <1>3
  <1>5. loop.checked \in 0..MaxHeight /\ loop.latest \in 0..MaxHeight
    BY ONLY <1>1
  <1>6. loop.checked \in Nat /\ loop.latest \in Nat
    BY ONLY <1>2, <1>5
  <1> QED
    BY <1>1, <1>2, <1>3, <1>4, <1>6, DelayType, Zenon DEF BlocksExist

LEMMA EventTypes ==
    ASSUME IInv
    PROVE  /\ \A b \in DOMAIN chain : \A e \in chain[b] :
                e.nonce \in Nat /\ e.kind \in {"valset", "transfer", "logic", "garbled"}
           /\ \A i \in DOMAIN pending : pending[i].nonce \in Nat
           /\ \A e \in loop.events : e.nonce \in Nat
  <1>0. Kinds \subseteq {"valset", "transfer", "logic", "garbled"} /\ MaxEvents \in Nat
    BY OracleAssumption
  <1>1. \A e \in Events :
           e.nonce \in Nat /\ e.kind \in {"valset", "transfer", "logic", "garbled"}
    <2> SUFFICES ASSUME NEW e \in Events
                 PROVE  e.nonce \in Nat /\ e.kind \in {"valset", "transfer", "logic", "garbled"}
      OBVIOUS
    <2>1. e.nonce \in 1..MaxEvents /\ e.kind \in Kinds
      BY DEF Events
    <2>2. e.nonce \in Nat
      BY ONLY <1>0, <2>1
    <2>3. e.kind \in {"valset", "transfer", "logic", "garbled"}
      BY <1>0, <2>1, Zenon
    <2> QED
      BY <2>2, <2>3
  <1>2. /\ \A b \in DOMAIN chain : \A e \in chain[b] : e \in Events
        /\ \A i \in DOMAIN pending : pending[i] \in Events
        /\ \A e \in loop.events : e \in Events
    BY DEF IInv, TypeOK
  <1> QED
    BY <1>1, <1>2

LEMMA SearchStep ==
    ASSUME IInv, ReadTip \/ get_last_event_nonce_with_retry \/ get_last_checked_block
    PROVE  IInv'
  <1>0. /\ TypeOK /\ UNCHANGED <<ethereum, cosmos, receipt, faults>>
        /\ UNCHANGED <<chain, claimed, nonce, pending, receipt>>
        /\ loop.events \subseteq Final
        /\ Len(chain) \in 0..MaxHeight /\ nonce \in 0..MaxEvents
        /\ 1 \in 0..MaxEvents /\ MaxEvents \in Nat
    <2>1. /\ UNCHANGED <<ethereum, cosmos, receipt, faults>>
          /\ UNCHANGED <<chain, claimed, nonce, pending, receipt>>
      BY DEF ReadTip, get_last_event_nonce_with_retry, get_last_checked_block, Goto,
             ethereum, cosmos
    <2>2. MaxEvents \in Nat /\ 1 \in 0..MaxEvents
      BY OracleAssumption
    <2>3. TypeOK /\ loop.events \subseteq Final /\ nonce \in 0..MaxEvents
      BY Zenon DEF IInv, ReadIsFinal, TypeOK
    <2>4. Len(chain) \in 0..MaxHeight
      BY BasicTypes
    <2> QED
      BY <2>1, <2>2, <2>3, <2>4, Zenon
  <1>1. CASE ReadTip
    <2>1. TypeOK'
      BY <1>0, <1>1, LoopTypes DEF ReadTip, Goto
    <2>2. pc' = "ReadLastNonce" /\ loop' = [loop EXCEPT !.current = Len(chain)]
      BY <1>1 DEF ReadTip, Goto
    <2>3. loop'.events = loop.events /\ loop'.latest = loop.latest /\ loop'.checked = loop.checked
      BY <1>0, <2>2 DEF TypeOK
    <2> QED
      BY <1>0, <2>1, <2>2, <2>3, RestStep
  <1>2. ASSUME TypeOK', loop'.events = loop.events, loop'.latest = loop.latest,
               loop'.checked = loop.checked, pc' = "Search", loop'.nonce <= nonce + 1
        PROVE  IInv'
    <2>1. UNCHANGED <<claimed, nonce, pending>> /\ Final' = Final
      BY <1>0 DEF cosmos, Final, Logs, get_block_delay
    <2> QED
      BY <1>0, <1>2, <2>1
      DEF IInv, NoncesGrow, BlocksExist, ReadIsFinal, SearchIsForKnown, RoundIsComplete,
          FoundInBlock, get_block_delay
  <1>3. CASE get_last_event_nonce_with_retry
    <2>1. /\ pc' = "Search" /\ loop' = [loop EXCEPT !.nonce = SearchedNonce(nonce)]
          /\ SearchedNonce(nonce) \in 0..MaxEvents /\ SearchedNonce(nonce) <= nonce + 1
      BY <1>0, <1>3 DEF get_last_event_nonce_with_retry, Goto, SearchedNonce
    <2>2. TypeOK'
      BY <1>0, <2>1, LoopTypes
    <2>3. /\ loop'.events = loop.events /\ loop'.latest = loop.latest
          /\ loop'.checked = loop.checked /\ loop'.nonce = SearchedNonce(nonce)
      BY <1>0, <2>1 DEF TypeOK
    <2> QED
      BY <1>2, <2>1, <2>2, <2>3
  <1>4. CASE get_last_checked_block
    <2> DEFINE end == WindowEnd(loop.current)
               logs == Logs(end, loop.current)
               found == SearchWindow(logs, loop.nonce)
    <2>0. pc = "Search" /\ loop.nonce <= nonce + 1 /\ loop.nonce \in Nat /\ nonce \in Nat
      BY <1>4 DEF get_last_checked_block, IInv, SearchIsForKnown, TypeOK
    <2>1. end \in 0..MaxHeight
      <3>1. loop.current \in Nat /\ loop.current <= MaxHeight /\ BLOCKS_TO_SEARCH \in Nat
            /\ MaxHeight \in Nat
        BY OracleAssumption DEF IInv, TypeOK
      <3>2. loop.current - BLOCKS_TO_SEARCH \in Int
        BY <3>1
      <3>3. \A m \in Int : Max({0, m}) = IF m > 0 THEN m ELSE 0
        <4> SUFFICES ASSUME NEW m \in Int
                     PROVE  Max({0, m}) = IF m > 0 THEN m ELSE 0
          OBVIOUS
        <4>1. \E x \in {0, m} : \A y \in {0, m} : x >= y
          BY m > 0 \/ ~(m > 0)
        <4>2. Max({0, m}) \in {0, m} /\ \A y \in {0, m} : Max({0, m}) >= y
          BY <4>1 DEF Max
        <4> QED
          BY <4>2
      <3> QED
        BY <3>1, <3>2, <3>3 DEF WindowEnd
    <2>2. logs \subseteq Events /\ \A e \in logs : \E b \in DOMAIN chain : e \in chain[b]
      BY <1>0 DEF Logs, TypeOK
    <2> HIDE DEF end, logs
    <2>3. \/ pc' = "Panicked" /\ loop' = loop
          \/ /\ pc' = found[1]
             /\ loop' = IF found[1] = "Poll" THEN [loop EXCEPT !.checked = found[2]]
                        ELSE [loop EXCEPT !.current = end]
      BY <1>4 DEF get_last_checked_block, Goto, end, logs
    <2>4. found[1] \in {"Poll", "Panicked", "Search"}
      BY DEF SearchWindow
    <2>5. CASE pc' = "Panicked" \/ pc' = "Search"
      <3>1. TypeOK' /\ loop'.events = loop.events /\ loop'.latest = loop.latest
              /\ loop'.checked = loop.checked /\ loop'.nonce = loop.nonce
        <4>1. loop' = loop \/ loop' = [loop EXCEPT !.current = end]
          BY <2>3, <2>5
        <4>2. TypeOK'
          BY <1>0, <2>1, <2>5, <4>1, LoopTypes
        <4> QED
          BY <1>0, <4>1, <4>2 DEF TypeOK
      <3> QED
        BY <1>0, <1>2, <2>0, <2>5, <3>1, RestStep
    <2>6. CASE pc' = "Poll"
      <3>1. found[1] = "Poll" /\ loop' = [loop EXCEPT !.checked = found[2]]
        BY <2>3, <2>6
      <3>2. PICK e \in logs : e.nonce = loop.nonce /\ found[2] = BlockOf(e)
        BY <2>2, <3>1, SearchEndsAtTheEvent
      <3>3. found[2] \in DOMAIN chain /\ e \in chain[found[2]]
        BY <2>2, <3>2 DEF BlockOf
      <3> HIDE DEF found
      <3>4. found[2] \in 0..MaxHeight /\ found[2] <= Len(chain)
        BY <1>0, <3>3, OracleAssumption DEF TypeOK
      <3>5. TypeOK'
        BY <1>0, <2>6, <3>1, <3>4, LoopTypes
      <3>6. /\ loop'.events = loop.events /\ loop'.latest = loop.latest
            /\ loop'.checked = found[2]
        BY <1>0, <3>1 DEF TypeOK
      <3>7. UNCHANGED <<claimed, nonce, pending>> /\ Final' = Final
        BY <1>0 DEF cosmos, Final, Logs, get_block_delay
      <3> QED
        BY <1>0, <2>6, <3>4, <3>5, <3>6, <3>7
        DEF IInv, NoncesGrow, BlocksExist, ReadIsFinal, SearchIsForKnown, RoundIsComplete,
            FoundInBlock, get_block_delay
    <2> QED
      BY <2>3, <2>4, <2>5, <2>6
  <1> QED
    BY <1>1, <1>3, <1>4

\* The claims of a round carry the nonces of all the events it has read.
LEMMA ByNonceLists ==
    ASSUME NEW S, S \subseteq Events
    PROVE  /\ ByNonce(S) \in Seq(Events)
           /\ \A i \in DOMAIN ByNonce(S) : ByNonce(S)[i] \in S
           /\ \A e \in S : \E i \in DOMAIN ByNonce(S) : ByNonce(S)[i].nonce = e.nonce
  <1> DEFINE N == {e.nonce : e \in S}
             A == Ascending(N)
             k == Cardinality(N)
  <1>1. N \in SUBSET (1..MaxEvents) /\ N \subseteq Nat
    BY OracleAssumption DEF Events
  <1>2. IsFiniteSet(N)
    <2>1. IsFiniteSet(1..MaxEvents)
      BY OracleAssumption, FS_Interval
    <2> HIDE DEF N
    <2> QED
      BY <1>1, <2>1, FS_Subset
  <1>3. /\ A \in Seq(N) /\ Len(A) = k /\ k \in Nat
        /\ \A x \in N : \E i \in 1..k : A[i] = x
    <2> HIDE DEF N
    <2> QED
      BY <1>1, <1>2, AscendingIsSorted
  <1> HIDE DEF A, k
  <1>4. DOMAIN A = 1..k /\ \A i \in 1..k : A[i] \in N
    <2> HIDE DEF N
    <2> QED
      BY <1>3
  <1> DEFINE pick(n) == CHOOSE e \in S : e.nonce = n
  <1>5. \A n \in N : pick(n) \in S /\ pick(n).nonce = n
    <2> SUFFICES ASSUME NEW n \in N
                 PROVE  pick(n) \in S /\ pick(n).nonce = n
      OBVIOUS
    <2>1. \E e \in S : e.nonce = n
      OBVIOUS
    <2> QED
      BY <2>1
  <1>6. ByNonce(S) = [i \in 1..k |-> pick(A[i])]
    BY <1>4 DEF ByNonce, A
  <1>7. \A x \in S : x.nonce \in N
    OBVIOUS
  <1> HIDE DEF pick, N
  <1>8. ByNonce(S) \in [1..k -> Events] /\ DOMAIN ByNonce(S) = 1..k
    BY <1>4, <1>5, <1>6
  <1>9. ByNonce(S) \in Seq(Events)
    BY <1>3, <1>8
  <1>10. \A i \in 1..k : ByNonce(S)[i] \in S /\ ByNonce(S)[i].nonce = A[i]
    BY <1>4, <1>5, <1>6
  <1> QED
    BY <1>3, <1>7, <1>8, <1>9, <1>10

LEMMA ReadHeightStep ==
    ASSUME IInv, ReadHeight
    PROVE  IInv'
  <1> DEFINE h == Len(chain) - get_block_delay
  <1>1. /\ pc = "Poll" /\ pc' = "ReadLogs" /\ loop' = [loop EXCEPT !.latest = h]
        /\ UNCHANGED <<ethereum, cosmos, receipt, faults>>
        /\ UNCHANGED <<chain, claimed, nonce, pending, receipt>>
    BY DEF ReadHeight, Goto, ethereum, cosmos
  <1>2. h \in 0..MaxHeight /\ h + get_block_delay <= Len(chain)
    BY DelayType, OracleAssumption DEF IInv, TypeOK
  <1> HIDE DEF h
  <1>3. TypeOK'
    BY <1>1, <1>2, LoopTypes DEF IInv
  <1>4. /\ loop'.events = loop.events /\ loop'.latest = h
        /\ loop'.checked = loop.checked
    BY <1>1 DEF IInv, TypeOK
  <1>5. Final' = Final
    BY <1>1 DEF Final, Logs, get_block_delay
  <1>6. BlocksExist'
    BY <1>1, <1>2, <1>4 DEF IInv, BlocksExist, get_block_delay
  <1> QED
    BY <1>1, <1>3, <1>4, <1>5, <1>6
    DEF IInv, NoncesGrow, ReadIsFinal, SearchIsForKnown, RoundIsComplete, FoundInBlock

LEMMA ReadLogsStep ==
    ASSUME IInv, ReadLogs
    PROVE  IInv'
  <1> DEFINE logs == Logs(loop.checked, loop.latest)
  <1>1. /\ pc = "ReadLogs" /\ pc' \in {"Poll", "Panicked", "ReadNonce"}
        /\ loop' = [loop EXCEPT !.events = logs]
        /\ UNCHANGED <<ethereum, cosmos, receipt, faults>>
        /\ UNCHANGED <<chain, claimed, nonce, pending, receipt>>
    BY DEF ReadLogs, Goto, ethereum, cosmos
  <1>2. logs \in SUBSET Events
    BY DEF Logs, IInv, TypeOK
  <1>3. logs \subseteq Final
    <2> SUFFICES ASSUME NEW b \in DOMAIN chain, b <= loop.latest
                 PROVE  b \in 1..(Len(chain) - get_block_delay)
      BY DEF Logs, Final
    <2> QED
      BY DelayType DEF IInv, TypeOK, BlocksExist
  <1>4. \A b \in DOMAIN chain : loop.checked <= b /\ b <= loop.latest => chain[b] \subseteq logs
    BY DEF Logs, IInv, TypeOK
  <1> HIDE DEF logs
  <1>5. TypeOK'
    BY <1>1, <1>2, LoopTypes DEF IInv
  <1>6. /\ loop'.events = logs /\ loop'.latest = loop.latest
        /\ loop'.checked = loop.checked
    BY <1>1 DEF IInv, TypeOK
  <1>7. CASE pc' # "ReadNonce"
    BY <1>1, <1>3, <1>5, <1>6, <1>7, RestStep
  <1>8. CASE pc' = "ReadNonce"
    <2>1. Final' = Final
      BY <1>1 DEF Final, Logs, get_block_delay
    <2> QED
      BY <1>1, <1>3, <1>4, <1>5, <1>6, <1>8, <2>1
      DEF IInv, NoncesGrow, BlocksExist, ReadIsFinal, SearchIsForKnown, RoundIsComplete,
          FoundInBlock, get_block_delay
  <1> QED
    BY <1>7, <1>8

LEMMA ReadNonceStep ==
    ASSUME IInv, ReadNonce
    PROVE  IInv'
  <1> DEFINE new == filter_by_event_nonce(nonce, loop.events)
  <1>1. /\ pc = "ReadNonce"
        /\ UNCHANGED <<ethereum, cosmos, receipt, faults>>
        /\ UNCHANGED <<chain, claimed, nonce, pending, receipt>>
    BY DEF ReadNonce, Goto, ethereum, cosmos
  <1>2. new \in SUBSET Events /\ new \subseteq Final /\ {} \in SUBSET Events /\ {} \subseteq Final
    BY DEF filter_by_event_nonce, IInv, TypeOK, ReadIsFinal
  <1>3. \A b \in DOMAIN chain : loop.checked <= b /\ b <= loop.latest =>
          \A e \in chain[b] : e.nonce <= nonce \/ e \in new
    <2> SUFFICES ASSUME NEW b \in DOMAIN chain, loop.checked <= b, b <= loop.latest,
                        NEW e \in chain[b]
                 PROVE  e.nonce <= nonce \/ e \in new
      OBVIOUS
    <2>1. e.nonce \in Nat /\ nonce \in Nat
      BY OracleAssumption DEF IInv, TypeOK, Events
    <2>2. e \in loop.events
      BY <1>1 DEF IInv, RoundIsComplete
    <2> QED
      BY <2>1, <2>2 DEF filter_by_event_nonce
  <1>4. \/ /\ new = {} /\ pc' = "Poll"
           /\ loop' = [loop EXCEPT !.checked = loop.latest, !.events = {}]
        \/ pc' = "SendClaims" /\ loop' = [loop EXCEPT !.nonce = nonce, !.events = new]
    BY DEF ReadNonce, Goto
  <1>5. loop.latest \in 0..MaxHeight /\ nonce \in 0..MaxEvents
    BY DEF IInv, TypeOK
  <1> HIDE DEF new
  <1>6. TypeOK'
    BY <1>1, <1>2, <1>4, <1>5, LoopTypes DEF IInv
  <1>7. CASE pc' = "Poll"
    <2>1. loop' = [loop EXCEPT !.checked = loop.latest, !.events = {}] /\ new = {}
      BY <1>4, <1>7
    <2>2. loop'.events = {} /\ loop'.latest = loop.latest /\ loop'.checked = loop.latest
      BY <2>1 DEF IInv, TypeOK
    <2> QED
      BY <1>1, <1>2, <1>6, <1>7, <2>2, RestStep
  <1>8. CASE pc' = "SendClaims"
    <2>1. loop' = [loop EXCEPT !.nonce = nonce, !.events = new]
      BY <1>4, <1>8
    <2>2. loop'.events = new /\ loop'.latest = loop.latest /\ loop'.checked = loop.checked
      BY <2>1 DEF IInv, TypeOK
    <2>3. Final' = Final
      BY <1>1 DEF Final, Logs, get_block_delay
    <2> QED
      BY <1>1, <1>2, <1>3, <1>6, <1>8, <2>2, <2>3
      DEF IInv, NoncesGrow, BlocksExist, ReadIsFinal, SearchIsForKnown, RoundIsComplete,
          FoundInBlock, get_block_delay
  <1> QED
    BY <1>4, <1>7, <1>8

LEMMA SendClaimsStep ==
    ASSUME IInv, send_ethereum_claims
    PROVE  IInv'
  <1>1. /\ pc = "SendClaims" /\ loop' = [loop EXCEPT !.events = {}]
        /\ UNCHANGED <<chain, fork, claimed, nonce, faults>>
    BY DEF send_ethereum_claims, ethereum
  <1>2. /\ loop'.events = {} /\ loop'.latest = loop.latest /\ loop'.checked = loop.checked
        /\ loop' \in [checked : 0..MaxHeight, latest : 0..MaxHeight,
                      current : 0..MaxHeight, nonce : 0..MaxEvents, events : SUBSET Events]
        /\ loop.events \subseteq Events
    BY <1>1 DEF IInv, TypeOK
  <1>3. Final' = Final
    BY <1>1 DEF Final, Logs, get_block_delay
  <1>4. CASE pending = <<>>
    <2>1. pending' = ByNonce(loop.events) /\ receipt' = "none" /\ pc' = "WaitForTx"
      BY <1>4 DEF send_ethereum_claims, OrderedMsgs
    <2>2. /\ pending' \in Seq(Events)
          /\ \A i \in DOMAIN pending' : pending'[i] \in loop.events
          /\ \A e \in loop.events : \E i \in DOMAIN pending' : pending'[i].nonce = e.nonce
      BY <1>2, <2>1, ByNonceLists
    <2>3. TypeOK'
      BY <1>1, <1>2, <2>1, <2>2 DEF IInv, TypeOK
    <2>4. ReadIsFinal'
      BY <1>1, <1>2, <1>3, <2>2 DEF IInv, ReadIsFinal
    <2>5. RoundIsComplete'
      <3>1. \A b \in DOMAIN chain : loop.checked <= b /\ b <= loop.latest =>
              \A e \in chain[b] :
                e.nonce <= nonce \/ \E i \in DOMAIN pending' : pending'[i].nonce = e.nonce
        BY <1>1, <2>2 DEF IInv, RoundIsComplete
      <3> QED
        BY <1>1, <1>2, <2>1, <3>1 DEF RoundIsComplete
    <2> QED
      BY <1>1, <1>2, <2>1, <2>3, <2>4, <2>5
      DEF IInv, NoncesGrow, BlocksExist, SearchIsForKnown, FoundInBlock, get_block_delay
  <1>5. CASE pending # <<>>
    <2>1. pc' = "Poll" /\ UNCHANGED <<pending, receipt>>
      BY <1>5 DEF send_ethereum_claims
    <2>2. TypeOK'
      BY <1>1, <1>2, <2>1 DEF IInv, TypeOK
    <2>3. loop'.events \subseteq Final
      BY <1>2
    <2> QED
      BY <1>1, <1>2, <2>1, <2>2, <2>3, RestStep
  <1> QED
    BY <1>4, <1>5

\* Only a transaction that was found in a block takes the round on.
LEMMA WaitStep ==
    ASSUME IInv, wait_for_tx
    PROVE  IInv'
  <1>1. /\ pc = "WaitForTx" /\ pending = <<>> /\ loop' = loop
        /\ UNCHANGED <<ethereum, cosmos, receipt, faults>>
        /\ UNCHANGED <<chain, claimed, nonce, pending, receipt>>
        /\ pc' = "Poll" \/ (pc' = "CheckNonce" /\ receipt # "none")
    BY DEF wait_for_tx, Goto, ethereum, cosmos, IInv, TypeOK
  <1>2. TypeOK'
    BY <1>1, LoopTypes DEF IInv
  <1>3. Final' = Final /\ loop.events \subseteq Final
    BY <1>1 DEF Final, Logs, get_block_delay, IInv, ReadIsFinal
  <1>4. CASE pc' = "Poll"
    BY <1>1, <1>2, <1>3, <1>4, RestStep
  <1>5. CASE pc' = "CheckNonce"
    BY <1>1, <1>2, <1>3, <1>5
    DEF IInv, NoncesGrow, BlocksExist, ReadIsFinal, SearchIsForKnown, RoundIsComplete,
        RangeIsKnown, FoundInBlock, get_block_delay
  <1> QED
    BY <1>1, <1>4, <1>5

LEMMA CheckNonceStep ==
    ASSUME IInv, CheckNonce
    PROVE  IInv'
  <1>1. /\ pc = "CheckNonce" /\ pc' = "Poll"
        /\ loop' = loop \/ loop' = [loop EXCEPT !.checked = loop.latest]
        /\ UNCHANGED <<ethereum, cosmos, receipt, faults>>
        /\ UNCHANGED <<chain, claimed, nonce, pending, receipt>>
    BY DEF CheckNonce, Goto, ethereum, cosmos
  <1>2. loop.latest \in 0..MaxHeight
    BY DEF IInv, TypeOK
  <1>3. TypeOK'
    BY <1>1, <1>2, LoopTypes DEF IInv
  <1>4. /\ loop'.events \subseteq Final /\ loop'.latest = loop.latest
        /\ loop'.checked = loop.checked \/ loop'.checked = loop.latest
    BY <1>1 DEF IInv, TypeOK, ReadIsFinal
  <1> QED
    BY <1>1, <1>3, <1>4, RestStep

LEMMA FailureStep ==
    ASSUME IInv, CallFails \/ Crash \/ Restart
    PROVE  IInv'
  <1>1. /\ pc' \in {"ReadTip", "Poll"}
        /\ loop' = [loop EXCEPT !.events = {}]
        /\ faults' = faults \/ (faults < MaxFaults /\ faults' = faults + 1)
        /\ UNCHANGED <<ethereum, cosmos, receipt>>
        /\ UNCHANGED <<chain, claimed, nonce, pending, receipt>>
    BY DEF CallFails, Crash, Restart, Goto, ethereum, cosmos
  <1>2. TypeOK'
    BY <1>1, LoopTypes DEF IInv
  <1>3. loop'.events \subseteq Final /\ loop'.latest = loop.latest /\ loop'.checked = loop.checked
    BY <1>1 DEF IInv, TypeOK
  <1> QED
    BY <1>1, <1>2, <1>3, RestStep

-----------------------------------------------------------------------------
(* The theorems                                                            *)

LEMMA InitEstablishes ==
    ASSUME Init
    PROVE  IInv
  <1>1. /\ Height0 \in Nat /\ Height0 > 0 /\ MaxHeight >= Height0 /\ MaxHeight \in Nat
        /\ MaxEvents \in Nat /\ MaxEvents >= 1 /\ MaxFaults \in Nat
    BY DelayType, OracleAssumption
  <1>2. Event(1, "valset") \in Events
    BY <1>1, OracleAssumption DEF Init, Event, Events
  <1>3. /\ chain \in [1..Height0 -> SUBSET Events] /\ DOMAIN chain = 1..Height0
        /\ \A b \in 1..Height0 : b # 1 => chain[b] = {}
    BY <1>1, <1>2 DEF Init
  <1>4. chain \in Seq(SUBSET Events) /\ Len(chain) = Height0
    BY <1>1, <1>3
  <1>5. /\ claimed = {} /\ nonce = 0 /\ pending = <<>> /\ receipt = "none" /\ pc = "ReadTip"
        /\ fork = 0 /\ faults = 0
        /\ loop = [checked |-> 0, latest |-> 0, current |-> 0, nonce |-> 0, events |-> {}]
    BY DEF Init
  <1>6. pending \in Seq(Events)
    BY <1>5
  <1>7. loop \in [checked : 0..MaxHeight, latest : 0..MaxHeight, current : 0..MaxHeight,
                  nonce : 0..MaxEvents, events : SUBSET Events]
    BY <1>1, <1>5
  <1>8. TypeOK
    BY <1>1, <1>4, <1>5, <1>6, <1>7 DEF TypeOK
  <1>9. NoncesGrow
    BY <1>1, <1>3 DEF NoncesGrow
  <1>10. BlocksExist
    BY <1>1, <1>4, <1>5, DelayType DEF BlocksExist
  <1>11. ReadIsFinal
    BY <1>5 DEF ReadIsFinal
  <1> QED
    BY <1>5, <1>8, <1>9, <1>10, <1>11
    DEF IInv, SearchIsForKnown, RoundIsComplete, FoundInBlock

LEMMA NextPreserves ==
    ASSUME IInv, [Next]_vars
    PROVE  IInv'
  <1>1. CASE UNCHANGED vars
    <2>1. UNCHANGED <<chain, fork, claimed, nonce, pending, receipt, pc, loop, faults>>
      BY <1>1 DEF vars
    <2>2. Final' = Final
      BY <2>1 DEF Final, Logs, get_block_delay
    <2>3. TypeOK' /\ NoncesGrow' /\ BlocksExist'
      BY <2>1 DEF IInv, TypeOK, NoncesGrow, BlocksExist, get_block_delay
    <2>4. ReadIsFinal' /\ SearchIsForKnown' /\ RoundIsComplete' /\ FoundInBlock'
      BY <2>1, <2>2
      DEF IInv, ReadIsFinal, SearchIsForKnown, RoundIsComplete, RangeIsKnown, FoundInBlock
    <2> QED
      BY <2>3, <2>4 DEF IInv
  <1>2. CASE Next
    BY <1>2, EthereumStep, CosmosStep, SearchStep, ReadHeightStep, ReadLogsStep,
       ReadNonceStep, SendClaimsStep, WaitStep, CheckNonceStep, FailureStep
    DEF Next, Oracle
  <1> QED
    BY <1>1, <1>2

\* The search ends at an event whose predecessors are known.
LEMMA SearchPassesKnown ==
    ASSUME IInv, get_last_checked_block, pc' = "Poll"
    PROVE  KnownIn(1, loop'.checked - 1)
  <1> DEFINE logs == Logs(WindowEnd(loop.current), loop.current)
             found == SearchWindow(logs, loop.nonce)
  <1>1. pc = "Search" /\ pc' = found[1] /\ loop' = [loop EXCEPT !.checked = found[2]]
    BY DEF get_last_checked_block, Goto
  <1>2. /\ loop.nonce <= nonce + 1 /\ loop.nonce \in Nat /\ nonce \in Nat
        /\ loop'.checked = found[2]
    BY <1>1, OracleAssumption DEF IInv, SearchIsForKnown, TypeOK
  <1>3. logs \subseteq Events /\ \A e \in logs : \E b \in DOMAIN chain : e \in chain[b]
    BY DEF IInv, Logs, TypeOK
  <1> HIDE DEF logs
  <1>4. PICK e \in logs : e.nonce = loop.nonce /\ found[2] = BlockOf(e)
    BY <1>1, <1>3, SearchEndsAtTheEvent
  <1>5. found[2] \in DOMAIN chain /\ e \in chain[found[2]]
    BY <1>3, <1>4 DEF BlockOf
  <1> HIDE DEF found
  <1> SUFFICES ASSUME NEW b \in DOMAIN chain, b \in 1..(found[2] - 1), NEW d \in chain[b]
               PROVE  d.nonce <= nonce
    BY <1>2 DEF KnownIn, Logs
  <1>6. DOMAIN chain \subseteq Int
    BY BasicTypes
  <1>7. b < found[2]
    BY <1>5, <1>6
  <1>8. d.nonce < e.nonce /\ d.nonce \in Nat
    BY <1>5, <1>7, EventTypes DEF IInv, NoncesGrow
  <1> QED
    BY <1>2, <1>4, <1>8

\* A round that moves on leaves behind events that are known, unless its
\* transaction failed.
LEMMA RoundPassesKnown ==
    ASSUME IInv, ReadNonce \/ CheckNonce, loop'.checked # loop.checked,
           pc = "CheckNonce" => receipt # "failed"
    PROVE  KnownIn(loop.checked, loop'.checked)
  <1>1. loop'.checked = loop.latest
    BY DEF ReadNonce, CheckNonce, Goto, IInv, TypeOK
  <1> SUFFICES RangeIsKnown
    <2>1. \A b \in loop.checked..loop.latest : loop.checked <= b /\ b <= loop.latest
      BY BasicTypes
    <2> QED
      BY <1>1, <2>1 DEF KnownIn, Logs, RangeIsKnown
  <1>2. CASE ReadNonce
    <2>1. pc = "ReadNonce" /\ filter_by_event_nonce(nonce, loop.events) = {}
      BY <1>2 DEF ReadNonce, IInv, TypeOK
    <2> SUFFICES ASSUME NEW b \in DOMAIN chain, loop.checked <= b, b <= loop.latest,
                        NEW e \in chain[b]
                 PROVE  e.nonce <= nonce
      BY DEF RangeIsKnown
    <2>2. e \in loop.events
      BY <2>1 DEF IInv, RoundIsComplete
    <2>3. ~(e.nonce > nonce)
      BY <2>1, <2>2 DEF filter_by_event_nonce
    <2>4. e.nonce \in Nat /\ nonce \in Nat
      BY BasicTypes, EventTypes
    <2> QED
      BY <2>3, <2>4
  <1>3. CASE CheckNonce
    <2>1. pc = "CheckNonce" /\ receipt # "failed"
      BY <1>3 DEF CheckNonce
    <2>2. receipt # "none"
      BY <2>1 DEF IInv, FoundInBlock
    <2>3. receipt = "executed"
      BY <2>1, <2>2 DEF IInv, TypeOK
    <2> QED
      BY <2>1, <2>3 DEF IInv, RoundIsComplete
  <1> QED
    BY <1>2, <1>3

\* The loop's last checked block never passes an event that Cosmos has not been
\* told of, whichever calls fail, time out or take effect late, wherever the
\* process is killed and whatever is reorganised: but for the round whose own
\* transaction failed in a block while something else moved the nonce.
THEOREM OracleSkipsNothing == Spec => NoEventSkipped
  <1>1. ASSUME IInv, [Next]_vars
        PROVE  [/\ pc = "Search" /\ pc' = "Poll" => KnownIn(1, loop'.checked - 1)
                /\ pc \in {"ReadNonce", "CheckNonce"} /\ loop'.checked # loop.checked =>
                      \/ KnownIn(loop.checked, loop'.checked)
                      \/ pc = "CheckNonce" /\ receipt = "failed"]_vars
    <2>1. ASSUME pc = "Search", pc' = "Poll"
          PROVE  get_last_checked_block
      BY <1>1, <2>1
      DEF Next, Oracle, ReadTip, get_last_event_nonce_with_retry, ReadHeight, ReadLogs,
          ReadNonce, send_ethereum_claims, wait_for_tx, CheckNonce, CallFails, Crash,
          Restart, MineBlock, Reorganise, DeliverTx, DropTx, OthersObserve, Goto, vars
    <2>2. ASSUME pc \in {"ReadNonce", "CheckNonce"}, loop'.checked # loop.checked
          PROVE  ReadNonce \/ CheckNonce
      <3>1. \A E : [loop EXCEPT !.events = E].checked = loop.checked
        BY <1>1 DEF IInv, TypeOK
      <3> QED
        BY <1>1, <2>2, <3>1
        DEF Next, Oracle, ReadTip, get_last_event_nonce_with_retry, ReadHeight, ReadLogs,
            get_last_checked_block, send_ethereum_claims, wait_for_tx, CallFails, Crash,
            Restart, MineBlock, Reorganise, DeliverTx, DropTx, OthersObserve, Goto, vars
    <2> QED
      BY <1>1, <2>1, <2>2, SearchPassesKnown, RoundPassesKnown
  <1>2. Spec => []IInv
    BY InitEstablishes, NextPreserves, PTL DEF Spec
  <1> QED
    BY <1>1, <1>2, PTL DEF Spec, NoEventSkipped

\* Every claim is an event of the chain as it is now: the delay keeps the loop
\* behind every reorganisation, also between reading and claiming.
THEOREM OracleClaimsFinalEvents == Spec => []ClaimsAreFinal
  <1>1. IInv => ClaimsAreFinal
    BY DEF IInv, ReadIsFinal, ClaimsAreFinal, Final, Logs, EventsOf
  <1> QED
    BY <1>1, InitEstablishes, NextPreserves, PTL DEF Spec

-----------------------------------------------------------------------------
(* The search after a restart                                              *)

EventIn(b, n) == \E e \in chain[b] : e.nonce = n

\* The contract numbers its events without gaps, from its deployment on.
Contiguous ==
    /\ \A b \in DOMAIN chain : \A e \in chain[b] : \A n \in Nat :
           1 <= n /\ n <= e.nonce => \E c \in DOMAIN chain : c <= b /\ EventIn(c, n)
    /\ EventIn(1, 1)

IsDeep(b) == b + get_block_delay <= Len(chain)

FinalNonce(n) == \E b \in DOMAIN chain : IsDeep(b) /\ EventIn(b, n)

\* What a search would be for is final.
LastIsFinal ==
    /\ FinalNonce(SearchedNonce(nonce))
    /\ pc = "Search" => FinalNonce(loop.nonce) /\ loop.nonce <= SearchedNonce(nonce)

Parsed(e) == e.kind \in {"valset", "transfer"}

AllParsed(a, h) == \A b \in DOMAIN chain : a <= b /\ b <= h => \A e \in chain[b] : Parsed(e)

\* A search from block h down finds the event.
Readable(n, h) ==
    \E b \in DOMAIN chain :
        b <= h /\ IsDeep(b) /\ \E e \in chain[b] : e.nonce = n /\ Parsed(e)

\* The nonces that a search could be for, now or when the pending transaction has
\* been executed.
Searchable ==
    {n \in Nat : \/ claimed # {} /\ n = SearchedNonce(nonce)
                 \/ \E i \in DOMAIN pending : SearchedNonce(nonce) <= n /\ n <= pending[i].nonce}

\* Those that the claims of this round will add.
ToBeClaimed ==
    {n \in Nat : \E e \in loop.events : SearchedNonce(nonce) <= n /\ n <= e.nonce}

InRound == pc \in {"Poll", "ReadLogs", "ReadNonce", "SendClaims", "WaitForTx", "CheckNonce"}

\* The loop has read everything from block a to the last checked one.
StartedFrom(a) ==
    /\ a <= loop.checked
    /\ \E e \in chain[a] : e.nonce <= SearchedNonce(nonce)
    /\ AllParsed(a, loop.checked - 1)

\* The blocks that the loop has read could all be parsed, from one that holds
\* an event which a search could be for.
RangeIsParsed ==
    /\ InRound => IsDeep(loop.checked) /\ \E a \in DOMAIN chain : StartedFrom(a)
    /\ InRound /\ pc # "Poll" => loop.checked <= loop.latest
    /\ pc \in {"ReadNonce", "SendClaims", "WaitForTx", "CheckNonce"} =>
           AllParsed(loop.checked, loop.latest)
    /\ pc = "ReadNonce" =>
           \A e \in loop.events : \E b \in DOMAIN chain : b <= loop.latest /\ e \in chain[b]

\* A search for what is claimed, or may be at any time from now on, succeeds.
ClaimsAreReadable ==
    /\ \A n \in Searchable : Readable(n, MaxHeight)
    /\ pc = "SendClaims" => \A n \in ToBeClaimed : Readable(n, MaxHeight)

\* So does the one that is under way.
SearchIsAbove ==
    /\ pc = "ReadLastNonce" => \A n \in Searchable : Readable(n, loop.current)
    /\ pc = "Search" /\ Searchable # {} => Readable(loop.nonce, loop.current)

RInv ==
    /\ IInv
    /\ Contiguous
    /\ LastIsFinal
    /\ RangeIsParsed
    /\ ClaimsAreReadable
    /\ SearchIsAbove

\* Cosmos never forgets a nonce, and no step changes a block that is deep enough.
LEMMA NonceGrows ==
    ASSUME IInv, [Next]_vars
    PROVE  nonce \in Nat /\ nonce' \in Nat /\ nonce <= nonce'
           /\ SearchedNonce(nonce) \in Nat /\ SearchedNonce(nonce') \in Nat
           /\ SearchedNonce(nonce) <= SearchedNonce(nonce') /\ SearchedNonce(nonce) >= 1
  <1>1. nonce \in Nat
    BY OracleAssumption DEF IInv, TypeOK
  <1>2. nonce' \in Nat /\ nonce <= nonce'
    <2>1. CASE DeliverTx
      <3>1. nonce' = nonce \/ nonce' = nonce + Len(pending)
        BY <2>1 DEF DeliverTx
      <3>2. Len(pending) \in Nat
        BY DEF IInv, TypeOK
      <3> QED
        BY <1>1, <3>1, <3>2
    <2>2. CASE OthersObserve
      <3>1. PICK e \in Logs(1, Len(chain) - get_block_delay) :
               e.nonce - 1 > nonce /\ nonce' = e.nonce - 1
        BY <2>2 DEF OthersObserve
      <3>2. e.nonce \in Nat
        BY <3>1, OracleAssumption DEF Logs, IInv, TypeOK, Events
      <3> QED
        BY <1>1, <3>1, <3>2
    <2>3. CASE ~DeliverTx /\ ~OthersObserve
      <3>1. nonce' = nonce
        BY <2>3 DEF Next, Oracle, ReadTip, get_last_event_nonce_with_retry,
           get_last_checked_block, ReadHeight, ReadLogs, ReadNonce, send_ethereum_claims,
           wait_for_tx, CheckNonce, CallFails, Crash, Restart, MineBlock, Reorganise,
           DropTx, Goto, cosmos, vars
      <3> QED
        BY <1>1, <3>1
    <2> QED
      BY <2>1, <2>2, <2>3
  <1> QED
    BY <1>1, <1>2 DEF SearchedNonce

LEMMA DeepStays ==
    ASSUME IInv, [Next]_vars
    PROVE  \A b \in DOMAIN chain : IsDeep(b) =>
              b \in DOMAIN chain' /\ chain'[b] = chain[b] /\ IsDeep(b)'
  <1> SUFFICES ASSUME NEW b \in DOMAIN chain, IsDeep(b)
               PROVE  b \in DOMAIN chain' /\ chain'[b] = chain[b] /\ IsDeep(b)'
    OBVIOUS
  <1>0. b \in Nat /\ b >= 1 /\ Len(chain) \in Nat /\ get_block_delay \in Nat
        /\ b + get_block_delay <= Len(chain)
    BY DelayType DEF IInv, TypeOK, IsDeep
  <1>1. CASE MineBlock \/ Reorganise
    <2>1. /\ chain' \in Seq(SUBSET Events) /\ Len(chain') = Len(chain) + 1
          /\ \A c \in 1..(Len(chain) - get_block_delay) : chain'[c] = chain[c]
      BY <1>1, EthereumGrows DEF IInv
    <2>2. DOMAIN chain' = 1..Len(chain')
      BY <2>1
    <2>3. b \in 1..(Len(chain) - get_block_delay)
      BY <1>0
    <2>4. b \in 1..Len(chain') /\ b + get_block_delay <= Len(chain')
      BY <1>0, <2>1
    <2>5. chain'[b] = chain[b]
      BY <2>1, <2>3
    <2> QED
      BY <2>2, <2>4, <2>5 DEF IsDeep, get_block_delay
  <1>2. CASE ~(MineBlock \/ Reorganise)
    <2>1. chain' = chain
      BY <1>2 DEF Next, Oracle, ReadTip, get_last_event_nonce_with_retry,
         get_last_checked_block, ReadHeight, ReadLogs, ReadNonce, send_ethereum_claims,
         wait_for_tx, CheckNonce, CallFails, Crash, Restart, DeliverTx,
         DropTx, OthersObserve, Goto, ethereum, vars
    <2> QED
      BY <1>0, <2>1 DEF IsDeep, get_block_delay
  <1> QED
    BY <1>1, <1>2

\* What is deep and what could be read stays so.
LEMMA ReadableStays ==
    ASSUME IInv, IInv', [Next]_vars
    PROVE  /\ \A n : FinalNonce(n) => FinalNonce(n)'
           /\ \A n, h : Readable(n, h) => Readable(n, h)'
  <1>1. ASSUME NEW n, FinalNonce(n)
        PROVE  FinalNonce(n)'
    <2>1. PICK b \in DOMAIN chain : IsDeep(b) /\ EventIn(b, n)
      BY <1>1 DEF FinalNonce
    <2>2. b \in DOMAIN chain' /\ chain'[b] = chain[b] /\ IsDeep(b)'
      BY <2>1, DeepStays
    <2> QED
      BY <2>1, <2>2 DEF FinalNonce, EventIn
  <1>2. ASSUME NEW n, NEW h, Readable(n, h)
        PROVE  Readable(n, h)'
    <2>1. PICK b \in DOMAIN chain :
             b <= h /\ IsDeep(b) /\ \E e \in chain[b] : e.nonce = n /\ Parsed(e)
      BY <1>2 DEF Readable
    <2>2. b \in DOMAIN chain' /\ chain'[b] = chain[b] /\ IsDeep(b)'
      BY <2>1, DeepStays
    <2> QED
      BY <2>1, <2>2 DEF Readable, Parsed
  <1> QED
    BY <1>1, <1>2

LEMMA ParsedStays ==
    ASSUME IInv, IInv', [Next]_vars, NEW a, NEW h \in Int, h + get_block_delay <= Len(chain),
           AllParsed(a, h)
    PROVE  AllParsed(a, h)'
  <1> SUFFICES ASSUME NEW b \in DOMAIN chain', a <= b, b <= h
               PROVE  \A e \in chain'[b] : Parsed(e)
    BY DEF AllParsed, Parsed
  <1>1. b \in Nat /\ b >= 1 /\ Len(chain) \in Nat /\ get_block_delay \in Nat /\ DOMAIN chain = 1..Len(chain)
    <2>1. Len(chain)' \in Nat /\ DOMAIN chain' = 1..Len(chain)'
      BY DEF IInv, TypeOK
    <2>2. b \in Nat /\ b >= 1
      BY ONLY <2>1, b \in DOMAIN chain'
    <2> QED
      BY <2>2, BasicTypes, Zenon
  <1>2. b \in DOMAIN chain /\ IsDeep(b)
    BY <1>1 DEF IsDeep
  <1>3. chain'[b] = chain[b]
    BY <1>2, DeepStays
  <1> QED
    BY <1>2, <1>3 DEF AllParsed

\* The contract's nonce is that of an event, once there is one.
LEMMA LastNonceIsAnEvent ==
    ASSUME TypeOK, lastEventNonce # 0
    PROVE  \E b \in DOMAIN chain : EventIn(b, lastEventNonce)
  <1> DEFINE S == {0} \cup {e.nonce : e \in EventsOf(chain)}
  <1>1. \A e \in EventsOf(chain) : e \in Events
    BY DEF TypeOK, EventsOf
  <1>2. MaxEvents \in Nat
    BY OracleAssumption
  <1>3. S \subseteq Nat /\ S # {} /\ \A x \in S : x <= MaxEvents
    BY <1>1, <1>2 DEF Events
  <1>4. Max(S) \in S
    <2> HIDE DEF S
    <2> QED
      BY <1>2, <1>3, MaxOfBounded
  <1>5. lastEventNonce = Max(S)
    BY DEF lastEventNonce
  <1>6. lastEventNonce \in S
    BY <1>4, <1>5
  <1>7. PICK e \in EventsOf(chain) : e.nonce = lastEventNonce
    BY <1>6
  <1> QED
    BY <1>7 DEF EventsOf, EventIn

\* New events take the next nonces; a reorganisation takes the last ones away.
LEMMA ContiguousStays ==
    ASSUME IInv, Contiguous, MineBlock \/ Reorganise
    PROVE  Contiguous'
  <1> DEFINE L == Len(chain)
  <1>0. /\ chain \in Seq(SUBSET Events) /\ L \in Nat /\ DOMAIN chain = 1..L
        /\ L >= 1 /\ L >= Height0 /\ Height0 \in Nat /\ Height0 >= 1 /\ TypeOK
    BY DelayType, OracleAssumption DEF IInv, TypeOK
  <1>1. CASE MineBlock
    <2>1. PICK k \in 0..MaxBlockEvents : \E kinds \in [1..k -> Kinds] :
             chain' = Append(chain, {Event(lastEventNonce + i, kinds[i]) : i \in 1..k})
      BY <1>1 DEF MineBlock
    <2>2. PICK kinds \in [1..k -> Kinds] :
             chain' = Append(chain, {Event(lastEventNonce + i, kinds[i]) : i \in 1..k})
      BY <2>1
    <2> DEFINE B == {Event(lastEventNonce + i, kinds[i]) : i \in 1..k}
    <2>3. lastEventNonce \in Nat /\ k \in Nat
      BY <1>0, LastNonceIsGreatest, OracleAssumption
    <2>4. chain' = Append(chain, B)
      BY <2>2
    <2>5. \A e \in B : \E i \in 1..k : e.nonce = lastEventNonce + i
      BY DEF Event
    <2>6. \A i \in 1..k : \E e \in B : e.nonce = lastEventNonce + i
      <3> SUFFICES ASSUME NEW i \in 1..k
                   PROVE  \E e \in B : e.nonce = lastEventNonce + i
        OBVIOUS
      <3>1. Event(lastEventNonce + i, kinds[i]) \in B
        OBVIOUS
      <3>2. Event(lastEventNonce + i, kinds[i]).nonce = lastEventNonce + i
        BY DEF Event
      <3> QED
        BY <3>1, <3>2
    <2> HIDE DEF B
    <2>7. /\ DOMAIN chain' = 1..(L + 1) /\ chain'[L + 1] = B
          /\ \A b \in 1..L : chain'[b] = chain[b]
      BY <1>0, <2>4
    <2>8. ASSUME NEW b \in 1..(L + 1), NEW e \in chain'[b], NEW n \in Nat, 1 <= n, n <= e.nonce
          PROVE  \E c \in 1..(L + 1) : c <= b /\ \E d \in chain'[c] : d.nonce = n
      <3>1. ASSUME NEW x \in 1..L, x <= b, NEW d \in chain[x], n <= d.nonce
            PROVE  \E c \in 1..(L + 1) : c <= b /\ \E y \in chain'[c] : y.nonce = n
        <4>1. PICK c \in 1..L : c <= x /\ EventIn(c, n)
          BY <1>0, <2>8, <3>1 DEF Contiguous
        <4>2. c \in 1..(L + 1) /\ c <= b
          BY <1>0, <3>1, <4>1
        <4> QED
          BY <2>7, <4>1, <4>2 DEF EventIn
      <3>2. CASE b # L + 1
        <4>1. b \in 1..L /\ e \in chain[b]
          BY <1>0, <2>7, <3>2
        <4> QED
          BY <2>8, <3>1, <4>1
      <3>3. CASE b = L + 1
        <4>1. PICK i \in 1..k : e.nonce = lastEventNonce + i
          BY <2>5, <2>7, <3>3
        <4>2. CASE n > lastEventNonce
          <5>1. n - lastEventNonce \in 1..k /\ lastEventNonce + (n - lastEventNonce) = n
            BY <2>3, <2>8, <4>1, <4>2
          <5>2. PICK d \in B : d.nonce = n
            BY <2>6, <5>1
          <5>3. L + 1 \in 1..(L + 1) /\ L + 1 <= b
            BY <1>0, <3>3
          <5> QED
            BY <2>7, <5>2, <5>3
        <4>3. CASE n <= lastEventNonce
          <5>1. lastEventNonce # 0
            BY <2>3, <2>8, <4>3
          <5>2. PICK x \in 1..L : EventIn(x, lastEventNonce)
            BY <1>0, <5>1, LastNonceIsAnEvent
          <5>3. PICK d \in chain[x] : d.nonce = lastEventNonce
            BY <5>2 DEF EventIn
          <5>4. x <= b
            BY <1>0, <3>3
          <5> QED
            BY <3>1, <4>3, <5>3, <5>4
        <4> QED
          BY <2>3, <4>2, <4>3
      <3> QED
        BY <3>2, <3>3
    <2>9. chain'[1] = chain[1]
      BY <1>0, <2>7
    <2>10. \E e \in chain'[1] : e.nonce = 1
      BY <2>9 DEF Contiguous, EventIn
    <2> QED
      BY ONLY <2>7, <2>8, <2>10 DEF Contiguous, EventIn
  <1>2. CASE Reorganise
    <2>1. PICK depth \in 1..MaxReorg :
             /\ L - depth >= Height0
             /\ chain' = [b \in 1..(L + 1) |-> IF b <= L - depth THEN chain[b] ELSE {}]
      BY <1>2 DEF Reorganise
    <2>2. depth \in Nat
      BY OracleAssumption
    <2>3. /\ DOMAIN chain' = 1..(L + 1)
          /\ \A b \in 1..(L + 1) : b <= L - depth => chain'[b] = chain[b] /\ b \in 1..L
          /\ \A b \in 1..(L + 1) : ~(b <= L - depth) => chain'[b] = {}
      BY <1>0, <2>1, <2>2
    <2>4. ASSUME NEW b \in 1..(L + 1), NEW e \in chain'[b], NEW n \in Nat, 1 <= n, n <= e.nonce
          PROVE  \E c \in 1..(L + 1) : c <= b /\ \E d \in chain'[c] : d.nonce = n
      <3>1. b <= L - depth /\ b \in 1..L /\ e \in chain[b]
        BY <2>3
      <3>2. PICK c \in 1..L : c <= b /\ EventIn(c, n)
        BY <1>0, <2>4, <3>1 DEF Contiguous
      <3>3. c \in 1..(L + 1) /\ c <= L - depth
        BY <1>0, <2>2, <3>1, <3>2
      <3>4. chain'[c] = chain[c]
        BY <2>3, <3>3
      <3> QED
        BY <3>2, <3>3, <3>4 DEF EventIn
    <2>5. 1 \in 1..(L + 1) /\ 1 <= L - depth
      BY <1>0, <2>1, <2>2
    <2>6. chain'[1] = chain[1]
      BY <2>3, <2>5
    <2>7. \E e \in chain'[1] : e.nonce = 1
      BY <2>6 DEF Contiguous, EventIn
    <2>8. DOMAIN chain' = 1..(L + 1)
      BY <2>3
    <2> QED
      BY ONLY <2>4, <2>7, <2>8 DEF Contiguous, EventIn
  <1> QED
    BY <1>1, <1>2

\* Only what the loop sends adds to what may be searched.
LEMMA SearchableShrinks ==
    ASSUME IInv, [Next]_vars, ~send_ethereum_claims
    PROVE  Searchable' \subseteq Searchable
  <1>0. /\ nonce \in Nat /\ nonce' \in Nat /\ nonce <= nonce'
        /\ SearchedNonce(nonce) \in Nat /\ SearchedNonce(nonce') \in Nat
        /\ SearchedNonce(nonce) <= SearchedNonce(nonce')
    BY NonceGrows
  <1>2. CASE DeliverTx /\ InOrder(pending)
    <2>1. pending # <<>> /\ pending' = <<>> /\ nonce' = nonce + Len(pending)
      BY <1>2 DEF DeliverTx
    <2>2. Len(pending) \in Nat \ {0} /\ DOMAIN pending = 1..Len(pending)
      BY <2>1 DEF IInv, TypeOK
    <2>3. Len(pending) \in DOMAIN pending
      BY <2>2
    <2>4. pending[Len(pending)].nonce = nonce'
      BY <1>2, <2>1, <2>3 DEF InOrder
    <2>5. SearchedNonce(nonce') = nonce'
      BY <1>0, <2>1, <2>2 DEF SearchedNonce
    <2>6. nonce' \in Searchable
      BY <1>0, <2>3, <2>4, <2>5 DEF Searchable
    <2>7. \A n \in Searchable' : n = nonce'
      BY <2>1, <2>5 DEF Searchable, SearchedNonce
    <2> QED
      BY <2>6, <2>7
  <1>3. CASE ~(DeliverTx /\ InOrder(pending))
    <2>1. (pending' = pending \/ pending' = <<>>) /\ claimed' = claimed
          /\ (claimed = {} \/ nonce' = nonce)
      BY <1>3 DEF Next, Oracle, ReadTip, get_last_event_nonce_with_retry,
         get_last_checked_block, ReadHeight, ReadLogs, ReadNonce,
         wait_for_tx, CheckNonce, CallFails, Crash, Restart, MineBlock, Reorganise, DeliverTx,
         DropTx, OthersObserve, Goto, cosmos, vars
    <2> SUFFICES ASSUME NEW n \in Searchable'
                 PROVE  n \in Searchable
      OBVIOUS
    <2>2. n \in Nat
      BY DEF Searchable
    <2>3. CASE claimed' # {} /\ n = SearchedNonce(nonce')
      BY <1>0, <2>1, <2>2, <2>3 DEF Searchable
    <2>4. CASE \E i \in DOMAIN pending' : SearchedNonce(nonce') <= n /\ n <= pending'[i].nonce
      <3>1. PICK i \in DOMAIN pending' : SearchedNonce(nonce') <= n /\ n <= pending'[i].nonce
        BY <2>4
      <3>2. i \in DOMAIN pending /\ pending'[i] = pending[i]
        BY <2>1, <3>1
      <3>3. SearchedNonce(nonce) <= n
        BY <1>0, <2>2, <3>1
      <3> QED
        BY <2>2, <3>1, <3>2, <3>3 DEF Searchable
    <2> QED
      BY <2>3, <2>4 DEF Searchable, SearchedNonce
  <1> QED
    BY <1>2, <1>3

\* The chains go on while the loop waits.
LEMMA OutsideStep ==
    ASSUME RInv, IInv', Contiguous', [Next]_vars, UNCHANGED pc, UNCHANGED loop,
           Searchable' \subseteq Searchable,
           NEW s, s = SearchedNonce(nonce'), FinalNonce(s)'
    PROVE  RInv'
  <1>0. /\ nonce \in Nat /\ nonce' \in Nat /\ nonce <= nonce'
        /\ SearchedNonce(nonce) \in Nat /\ s \in Nat /\ SearchedNonce(nonce) <= s
    BY NonceGrows DEF RInv
  <1>1. /\ loop.checked \in Nat /\ loop.latest \in Nat /\ loop.nonce \in Nat /\ loop.current \in Nat
        /\ Len(chain) \in Nat /\ DOMAIN chain = 1..Len(chain) /\ get_block_delay \in Nat
        /\ loop.latest + get_block_delay <= Len(chain)
    BY DelayType, OracleAssumption DEF RInv, IInv, TypeOK, BlocksExist
  <1>2. LastIsFinal'
    <2>1. pc = "Search" => FinalNonce(loop.nonce) /\ loop.nonce <= SearchedNonce(nonce)
      BY DEF RInv, LastIsFinal
    <2>2. PICK l : l = loop.nonce
      OBVIOUS
    <2>3. FinalNonce(l) => FinalNonce(l)'
      BY ReadableStays DEF RInv
    <2>4. pc = "Search" => FinalNonce(l)' /\ l <= s
      BY <1>0, <1>1, <2>1, <2>2, <2>3
    <2>5. FinalNonce(SearchedNonce(nonce))'
      BY DEF SearchedNonce
    <2> QED
      BY <2>2, <2>4, <2>5 DEF LastIsFinal, SearchedNonce
  <1>3. RangeIsParsed'
    <2>0. RangeIsParsed /\ IInv
      BY DEF RInv
    <2> PICK ch : ch = loop.checked
      OBVIOUS
    <2> PICK la : la = loop.latest
      OBVIOUS
    <2>1. ASSUME InRound
          PROVE  IsDeep(ch)' /\ \E a \in DOMAIN chain' :
                     a <= ch /\ (\E e \in chain'[a] : e.nonce <= s) /\ AllParsed(a, ch - 1)'
      <3>1. PICK a \in DOMAIN chain : StartedFrom(a)
        BY <2>0, <2>1 DEF RangeIsParsed
      <3>2. /\ a \in Nat /\ a >= 1 /\ a <= ch /\ ch + get_block_delay <= Len(chain)
            /\ AllParsed(a, ch - 1)
        BY <1>1, <2>0, <2>1, <3>1 DEF RangeIsParsed, StartedFrom, IsDeep
      <3>3. /\ IsDeep(a) /\ ch \in DOMAIN chain /\ IsDeep(ch) /\ ch - 1 \in Int
            /\ ch - 1 + get_block_delay <= Len(chain)
        <4>1. /\ ch \in Nat /\ a \in Nat /\ a >= 1 /\ a <= ch /\ Len(chain) \in Nat
              /\ get_block_delay \in Nat /\ ch + get_block_delay <= Len(chain)
          BY <1>1, <3>2
        <4>2. a + get_block_delay <= Len(chain) /\ ch \in 1..Len(chain) /\ ch - 1 \in Int
              /\ ch - 1 + get_block_delay <= Len(chain)
          BY ONLY <4>1
        <4> QED
          BY <1>1, <3>2, <4>2 DEF IsDeep
      <3>4. a \in DOMAIN chain' /\ chain'[a] = chain[a] /\ IsDeep(ch)'
        BY <2>0, <3>3, DeepStays
      <3>5. AllParsed(a, ch - 1)'
        BY <2>0, <3>2, <3>3, ParsedStays
      <3>6. PICK e \in chain[a] : e.nonce <= SearchedNonce(nonce)
        BY <3>1 DEF StartedFrom
      <3>7. e.nonce \in Nat
        BY <2>0, <3>6, EventTypes
      <3>8. e.nonce <= s
        BY <1>0, <3>6, <3>7
      <3> QED
        BY <3>2, <3>4, <3>5, <3>6, <3>8
    <2>2. ASSUME pc \in {"ReadNonce", "SendClaims", "WaitForTx", "CheckNonce"}
          PROVE  AllParsed(ch, la)'
      <3>1. AllParsed(ch, la)
        BY <2>0, <2>2 DEF RangeIsParsed
      <3> QED
        BY <1>1, <2>0, <3>1, ParsedStays
    <2>3. ASSUME pc = "ReadNonce", NEW e \in loop.events
          PROVE  \E b \in DOMAIN chain' : b <= la /\ e \in chain'[b]
      <3>1. PICK b \in DOMAIN chain : b <= la /\ e \in chain[b]
        BY <2>0, <2>3 DEF RangeIsParsed
      <3>2. IsDeep(b)
        BY <1>1, <3>1 DEF IsDeep
      <3>3. b \in DOMAIN chain' /\ chain'[b] = chain[b]
        BY <2>0, <3>2, DeepStays
      <3> QED
        BY <3>1, <3>3
    <2>4. InRound /\ pc # "Poll" => ch <= la
      BY <2>0 DEF RangeIsParsed
    <2>5. InRound' = InRound
      BY DEF InRound
    <2> QED
      BY <2>1, <2>2, <2>3, <2>4, <2>5 DEF RangeIsParsed, StartedFrom
  <1>4. ClaimsAreReadable'
    <2>1. \A n : Readable(n, MaxHeight) => Readable(n, MaxHeight)'
      BY ReadableStays DEF RInv
    <2>2. ToBeClaimed' \subseteq ToBeClaimed
      <3>1. \A e \in loop.events : e.nonce \in Nat
        BY EventTypes DEF RInv
      <3>2. \A n \in Nat : s <= n => SearchedNonce(nonce) <= n
        BY <1>0
      <3> QED
        BY <3>1, <3>2 DEF ToBeClaimed
    <2> QED
      BY <2>1, <2>2 DEF RInv, ClaimsAreReadable
  <1>5. SearchIsAbove'
    <2>1. \A n, h : Readable(n, h) => Readable(n, h)'
      BY ReadableStays DEF RInv
    <2> QED
      BY <2>1 DEF RInv, SearchIsAbove
  <1> QED
    BY <1>2, <1>3, <1>4, <1>5 DEF RInv

LEMMA OutsideKeeps ==
    ASSUME RInv, IInv',
           \/ UNCHANGED vars
           \/ MineBlock \/ Reorganise \/ DeliverTx \/ DropTx \/ OthersObserve
    PROVE  RInv'
  <1>0. /\ [Next]_vars /\ UNCHANGED pc /\ UNCHANGED loop /\ IInv /\ ~send_ethereum_claims
        /\ Searchable' \subseteq Searchable
    <2>1. [Next]_vars /\ UNCHANGED pc /\ UNCHANGED loop /\ IInv
      BY DEF RInv, Next, MineBlock, Reorganise, DeliverTx, DropTx, OthersObserve, vars
    <2>2. ~send_ethereum_claims
      BY <2>1 DEF send_ethereum_claims
    <2> QED
      BY <2>1, <2>2, SearchableShrinks
  <1> PICK s : s = SearchedNonce(nonce')
    OBVIOUS
  <1>1. Contiguous'
    <2>1. CASE MineBlock \/ Reorganise
      BY <2>1, ContiguousStays DEF RInv
    <2>2. CASE ~(MineBlock \/ Reorganise)
      <3>1. chain' = chain
        BY <2>2 DEF DeliverTx, DropTx, OthersObserve, ethereum, vars
      <3> QED
        BY <3>1 DEF RInv, Contiguous, EventIn
    <2> QED
      BY <2>1, <2>2
  <1>2. FinalNonce(s)'
    <2>0. /\ DOMAIN chain = 1..Len(chain) /\ Len(chain) \in Nat /\ get_block_delay \in Nat
          /\ nonce \in Nat /\ nonce' \in Nat
          /\ \A b \in DOMAIN chain : \A e \in chain[b] : e.nonce \in Nat
      BY <1>0, BasicTypes, EventTypes, NonceGrows
    <2>a. FinalNonce(s) => FinalNonce(s)'
      BY <1>0, ReadableStays
    <2>1. CASE nonce' = nonce
      BY <2>1, <2>a DEF RInv, LastIsFinal
    <2>2. CASE nonce' # nonce /\ DeliverTx
      <3>1. InOrder(pending) /\ nonce' = nonce + Len(pending) /\ pending # <<>>
        BY <2>2 DEF DeliverTx
      <3>2. Len(pending) \in Nat /\ DOMAIN pending = 1..Len(pending) /\ Len(pending) # 0
        BY <1>0, <3>1 DEF IInv, TypeOK
      <3>3. Len(pending) \in DOMAIN pending
        BY <3>2
      <3>4. pending[Len(pending)].nonce = nonce' /\ pending[Len(pending)] \in Final
        BY <1>0, <3>1, <3>3 DEF InOrder, IInv, ReadIsFinal
      <3>5. PICK b \in DOMAIN chain \cap 1..(Len(chain) - get_block_delay) :
               pending[Len(pending)] \in chain[b]
        BY <3>4 DEF Final, Logs
      <3>6. IsDeep(b)
        BY <2>0, <3>5 DEF IsDeep
      <3>7. s = nonce'
        BY <2>0, <3>1, <3>2 DEF SearchedNonce
      <3>8. FinalNonce(s)
        BY <3>4, <3>5, <3>6, <3>7 DEF FinalNonce, EventIn
      <3> QED
        BY <2>a, <3>8
    <2>3. CASE OthersObserve
      <3>1. PICK e \in Logs(1, Len(chain) - get_block_delay) :
               e.nonce - 1 > nonce /\ nonce' = e.nonce - 1
        BY <2>3 DEF OthersObserve
      <3>2. PICK b \in DOMAIN chain \cap 1..(Len(chain) - get_block_delay) : e \in chain[b]
        BY <3>1 DEF Logs
      <3>3. e.nonce \in Nat
        BY <2>0, <3>2
      <3>4. s = nonce' /\ 1 <= s /\ s <= e.nonce /\ s \in Nat
        BY <2>0, <3>1, <3>3 DEF SearchedNonce
      <3>5. PICK c \in DOMAIN chain : c <= b /\ EventIn(c, s)
        BY <3>2, <3>4 DEF RInv, Contiguous
      <3>6. IsDeep(c)
        BY <2>0, <3>2, <3>5 DEF IsDeep
      <3> QED
        BY <2>a, <3>5, <3>6 DEF FinalNonce
    <2>4. nonce' = nonce \/ DeliverTx \/ OthersObserve
      BY DEF MineBlock, Reorganise, DropTx, cosmos, vars
    <2> QED
      BY <2>1, <2>2, <2>3, <2>4
  <1> QED
    BY <1>0, <1>1, <1>2, OutsideStep

\* A step of the loop leaves the chain and Cosmos alone.
LEMMA LoopLeaves ==
    ASSUME RInv, UNCHANGED chain, UNCHANGED claimed, UNCHANGED nonce
    PROVE  /\ Contiguous'
           /\ \A n : FinalNonce(n)' <=> FinalNonce(n)
           /\ \A n, h : Readable(n, h)' <=> Readable(n, h)
           /\ \A a, h : AllParsed(a, h)' <=> AllParsed(a, h)
           /\ \A b : IsDeep(b)' <=> IsDeep(b)
           /\ pending' = pending => Searchable' = Searchable
  <1>1. Contiguous'
    BY DEF RInv, Contiguous, EventIn
  <1>2. \A b : IsDeep(b)' <=> IsDeep(b)
    BY DEF IsDeep, get_block_delay
  <1>3. \A n : FinalNonce(n)' <=> FinalNonce(n)
    BY <1>2 DEF FinalNonce, EventIn
  <1>4. \A n, h : Readable(n, h)' <=> Readable(n, h)
    BY <1>2 DEF Readable, Parsed
  <1>5. \A a, h : AllParsed(a, h)' <=> AllParsed(a, h)
    BY DEF AllParsed, Parsed
  <1>6. pending' = pending => Searchable' = Searchable
    BY DEF Searchable, SearchedNonce
  <1> QED
    BY <1>1, <1>2, <1>3, <1>4, <1>5, <1>6

\* Outside the search it need not be found to be final, nor readable.
LEMMA NoSearchStep ==
    ASSUME RInv, IInv', UNCHANGED chain, UNCHANGED claimed, UNCHANGED nonce,
           UNCHANGED pending, pc' \notin {"ReadLastNonce", "Search", "SendClaims"},
           RangeIsParsed'
    PROVE  RInv'
  <1>1. /\ Contiguous' /\ Searchable' = Searchable
        /\ \A n : FinalNonce(n)' <=> FinalNonce(n)
        /\ \A n, h : Readable(n, h)' <=> Readable(n, h)
    BY LoopLeaves
  <1>2. LastIsFinal'
    <2> PICK s : s = SearchedNonce(nonce)
      OBVIOUS
    <2>1. FinalNonce(s)'
      BY <1>1 DEF RInv, LastIsFinal
    <2>2. FinalNonce(SearchedNonce(nonce))'
      BY <2>1 DEF SearchedNonce
    <2> QED
      BY <2>2 DEF LastIsFinal
  <1>3. ClaimsAreReadable' /\ SearchIsAbove'
    BY <1>1 DEF RInv, ClaimsAreReadable, SearchIsAbove
  <1> QED
    BY <1>1, <1>2, <1>3 DEF RInv

\* The round is over: the loop waits for the next one, where it was or at the
\* end of the range it has read.
LEMMA EndOfRound ==
    ASSUME RInv, IInv', UNCHANGED chain, UNCHANGED claimed, UNCHANGED nonce,
           UNCHANGED pending, InRound, pc # "Poll", pc' = "Poll",
           \/ loop'.checked = loop.checked
           \/ loop'.checked = loop.latest /\ pc \in {"ReadNonce", "CheckNonce"}
    PROVE  RInv'
  <1>0. /\ loop.checked \in Nat /\ loop.latest \in Nat
        /\ Len(chain) \in Nat /\ DOMAIN chain = 1..Len(chain) /\ get_block_delay \in Nat
        /\ loop.latest + get_block_delay <= Len(chain)
        /\ loop.checked <= loop.latest
    BY BasicTypes DEF RInv, RangeIsParsed
  <1> PICK ch : ch = loop'.checked
    OBVIOUS
  <1>1. PICK a \in DOMAIN chain : StartedFrom(a)
    BY DEF RInv, RangeIsParsed
  <1>2. /\ a <= loop.checked /\ AllParsed(a, loop.checked - 1)
        /\ \E e \in chain[a] : e.nonce <= SearchedNonce(nonce)
    BY <1>1 DEF StartedFrom
  <1>3. IsDeep(ch) /\ a <= ch /\ AllParsed(a, ch - 1)
    <2>1. CASE ch = loop.checked
      BY <1>2, <2>1 DEF RInv, RangeIsParsed
    <2>2. CASE ch = loop.latest /\ pc \in {"ReadNonce", "CheckNonce"}
      <3>1. AllParsed(loop.checked, loop.latest)
        BY <2>2 DEF RInv, RangeIsParsed
      <3>2. IsDeep(ch) /\ a <= ch /\ a \in Nat
        BY <1>0, <1>2, <2>2 DEF IsDeep
      <3>3. ASSUME NEW b \in DOMAIN chain, a <= b, b <= ch - 1
            PROVE  \A e \in chain[b] : Parsed(e)
        <4>1. b \in Nat
          BY <1>0
        <4>2. b <= loop.checked - 1 \/ (loop.checked <= b /\ b <= loop.latest)
          BY <1>0, <2>2, <3>3, <4>1
        <4> QED
          BY <1>2, <3>1, <3>3, <4>2 DEF AllParsed
      <3> QED
        BY <3>2, <3>3 DEF AllParsed
    <2> QED
      BY <2>1, <2>2
  <1>4. IsDeep(ch)' /\ AllParsed(a, ch - 1)'
    BY <1>3, LoopLeaves
  <1>5. RangeIsParsed'
    BY <1>2, <1>3, <1>4 DEF RangeIsParsed, StartedFrom, InRound, SearchedNonce
  <1> QED
    BY <1>5, NoSearchStep

\* The search goes on below a window only if what it is for is there, and it
\* panics for nothing but the log of a logic call.
LEMMA SearchFinds ==
    ASSUME RInv, NEW h \in Nat, NEW end \in Nat, NEW n \in Nat, n >= 1, Readable(n, h)
    PROVE  /\ SearchWindow(Logs(end, h), n)[1] = "Search" => Readable(n, end)
           /\ SearchWindow(Logs(end, h), n)[1] = "Panicked" =>
                \E e \in Logs(end, h) : e.kind = "logic"
  <1> DEFINE logs == Logs(end, h)
             others == {e \in logs : e.kind = "transfer" /\ e.nonce = n}
             valsets == ValsetHits(logs, n)
             newest == NewestFirst(valsets)
  <1>1. PICK b \in DOMAIN chain :
           b <= h /\ IsDeep(b) /\ \E x \in chain[b] : x.nonce = n /\ Parsed(x)
    BY DEF Readable
  <1>2. PICK e \in chain[b] : e.nonce = n /\ Parsed(e)
    BY <1>1
  <1>3. /\ b \in Nat /\ DOMAIN chain \subseteq Nat
        /\ \A c \in DOMAIN chain : \A x \in chain[c] : x.nonce \in Nat
    BY BasicTypes, EventTypes DEF RInv
  <1>4. others = {} =>
          SearchWindow(logs, n) =
            IF \E x \in logs : x.kind = "logic" THEN <<"Panicked", 0>>
            ELSE IF valsets = {} THEN <<"Search", 0>>
            ELSE IF newest.nonce = n THEN <<"Poll", BlockOf(newest)>> ELSE <<"Panicked", 0>>
    BY DEF SearchWindow
  <1>5. others # {} => SearchWindow(logs, n)[1] = "Poll"
    BY DEF SearchWindow
  <1>6. CASE b < end
    <2>1. b <= end
      BY <1>3, <1>6
    <2>2. Readable(n, end)
      BY <1>1, <2>1 DEF Readable
    <2>3. valsets = {}
      <3> SUFFICES ASSUME NEW v \in valsets
                   PROVE  FALSE
        OBVIOUS
      <3>1. v.nonce = n \/ v.nonce = 1
        BY DEF ValsetHits, IsDeployment
      <3>2. PICK c \in DOMAIN chain \cap end..h : v \in chain[c]
        BY DEF ValsetHits, Logs
      <3>3. b < c
        BY <1>3, <1>6, <3>2
      <3>4. e.nonce < v.nonce
        BY <1>2, <3>2, <3>3 DEF RInv, IInv, NoncesGrow
      <3> QED
        BY <1>2, <3>1, <3>4
    <2> HIDE DEF newest, valsets, others
    <2> QED
      BY <1>4, <1>5, <2>2, <2>3
  <1>7. CASE end <= b
    <2>1. e \in logs
      BY <1>1, <1>2, <1>3, <1>7 DEF Logs
    <2>2. CASE e.kind = "transfer"
      <3>1. others # {}
        BY <1>2, <2>1, <2>2
      <3> HIDE DEF newest, valsets, others
      <3> QED
        BY <1>5, <3>1
    <2>3. CASE e.kind = "valset"
      <3>1. e \in valsets
        BY <1>2, <2>1, <2>3 DEF ValsetHits
      <3>2. \A v \in valsets : v.nonce = n \/ v.nonce = 1
        BY DEF ValsetHits, IsDeployment
      <3>3. \A v \in valsets : v.nonce <= e.nonce
        BY <1>2, <3>2
      <3>4. newest \in valsets /\ \A v \in valsets : v.nonce <= newest.nonce
        BY <3>1, <3>3 DEF NewestFirst
      <3>5. newest.nonce = n
        <4>1. n <= newest.nonce /\ (newest.nonce = n \/ newest.nonce = 1)
          BY <1>2, <3>1, <3>2, <3>4
        <4> QED
          BY <4>1
      <3> HIDE DEF newest, valsets, others
      <3> QED
        BY <1>4, <1>5, <3>1, <3>5
    <2> QED
      BY <1>2, <2>2, <2>3 DEF Parsed
  <1> QED
    BY <1>3, <1>6, <1>7

LEMMA WindowEndType ==
    ASSUME IInv
    PROVE  WindowEnd(loop.current) \in Nat
  <1> DEFINE m == loop.current - BLOCKS_TO_SEARCH
  <1>1. m \in Int
    BY OracleAssumption DEF IInv, TypeOK
  <1> HIDE DEF m
  <1>2. \E x \in {0, m} : \A y \in {0, m} : x >= y
    BY <1>1, m > 0 \/ ~(m > 0)
  <1>3. Max({0, m}) \in {0, m} /\ \A y \in {0, m} : Max({0, m}) >= y
    BY <1>2 DEF Max
  <1>4. Max({0, m}) \in Nat
    BY <1>1, <1>3
  <1> QED
    BY <1>4 DEF WindowEnd, m

\* What a search that is under way is for.
LEMMA SearchedIsReadable ==
    ASSUME RInv, pc = "Search", Searchable # {}
    PROVE  /\ loop.nonce \in Nat /\ loop.nonce >= 1
           /\ loop.current \in Nat /\ loop.current # 0
           /\ Readable(loop.nonce, loop.current)
  <1>1. loop.nonce \in Nat /\ loop.current \in Nat /\ DOMAIN chain \subseteq Nat \ {0}
        /\ \A b \in DOMAIN chain : \A e \in chain[b] : e.nonce \in Nat \ {0}
    BY OracleAssumption DEF RInv, IInv, TypeOK, Events
  <1>2. Readable(loop.nonce, loop.current)
    BY DEF RInv, SearchIsAbove
  <1>3. PICK b \in DOMAIN chain :
           b <= loop.current /\ \E e \in chain[b] : e.nonce = loop.nonce
    BY <1>2 DEF Readable
  <1> QED
    BY <1>1, <1>2, <1>3

\* A nonce that was claimed may be searched.
LEMMA ClaimedIsSearchable ==
    ASSUME IInv
    PROVE  /\ claimed # {} => Searchable # {}
           /\ Searchable # {} => SearchedNonce(nonce) \in Searchable
  <1>0. SearchedNonce(nonce) \in Nat
    BY OracleAssumption DEF IInv, TypeOK, SearchedNonce
  <1>1. claimed # {} => SearchedNonce(nonce) \in Searchable
    BY <1>0 DEF Searchable
  <1>2. ASSUME NEW n \in Searchable
        PROVE  SearchedNonce(nonce) \in Searchable
    <2>1. CASE \E i \in DOMAIN pending : SearchedNonce(nonce) <= n /\ n <= pending[i].nonce
      <3>1. PICK i \in DOMAIN pending : SearchedNonce(nonce) <= n /\ n <= pending[i].nonce
        BY <2>1
      <3>2. pending[i].nonce \in Nat /\ n \in Nat
        BY EventTypes DEF Searchable
      <3>3. SearchedNonce(nonce) <= SearchedNonce(nonce) /\ SearchedNonce(nonce) <= pending[i].nonce
        BY <1>0, <3>1, <3>2
      <3> QED
        BY <1>0, <3>3 DEF Searchable
    <2> QED
      BY <1>1, <2>1 DEF Searchable
  <1> QED
    BY <1>1, <1>2

LEMMA SearchKeeps ==
    ASSUME RInv, IInv', ReadTip \/ get_last_event_nonce_with_retry \/ get_last_checked_block
    PROVE  RInv'
  <1>0. /\ UNCHANGED <<chain, claimed, nonce, pending>> /\ IInv
        /\ DOMAIN chain = 1..Len(chain) /\ Len(chain) \in Nat
    <2>1. UNCHANGED <<chain, claimed, nonce, pending>>
      BY DEF ReadTip, get_last_event_nonce_with_retry, get_last_checked_block, Goto, ethereum, cosmos
    <2> QED
      BY <2>1, OracleAssumption DEF RInv, IInv, TypeOK
  <1>1. /\ Contiguous' /\ Searchable' = Searchable
        /\ \A n : FinalNonce(n)' <=> FinalNonce(n)
        /\ \A n, h : Readable(n, h)' <=> Readable(n, h)
        /\ \A a, h : AllParsed(a, h)' <=> AllParsed(a, h)
        /\ \A b : IsDeep(b)' <=> IsDeep(b)
    BY <1>0, LoopLeaves
  <1> PICK s : s = SearchedNonce(nonce)
    OBVIOUS
  <1>2. FinalNonce(s)' /\ s \in Nat /\ s = SearchedNonce(nonce)'
    BY <1>0, <1>1, OracleAssumption DEF RInv, LastIsFinal, IInv, TypeOK, SearchedNonce
  <1>3. FinalNonce(SearchedNonce(nonce))'
    BY <1>2
  <1>4. CASE ReadTip
    <2>1. pc' = "ReadLastNonce" /\ loop' = [loop EXCEPT !.current = Len(chain)]
      BY <1>4 DEF ReadTip, Goto
    <2>2. loop'.current = Len(chain)
      BY <1>0, <2>1 DEF IInv, TypeOK
    <2>3. \A n \in Searchable : Readable(n, MaxHeight) /\ Readable(n, Len(chain))
      <3>1. \A b \in DOMAIN chain : b <= Len(chain)
        BY <1>0
      <3>2. \A n : Readable(n, MaxHeight) => Readable(n, Len(chain))
        BY <3>1 DEF Readable
      <3> QED
        BY <3>2 DEF RInv, ClaimsAreReadable
    <2> PICK h : h = Len(chain)
      OBVIOUS
    <2>4. \A n \in Searchable' : Readable(n, MaxHeight)' /\ Readable(n, h)'
      BY <1>1, <2>3
    <2>5. ClaimsAreReadable' /\ SearchIsAbove'
      BY <2>1, <2>2, <2>4 DEF ClaimsAreReadable, SearchIsAbove
    <2> QED
      BY <1>0, <1>1, <1>3, <2>1, <2>5 DEF RInv, LastIsFinal, RangeIsParsed, InRound
  <1>5. CASE get_last_event_nonce_with_retry
    <2>1. pc = "ReadLastNonce" /\ pc' = "Search" /\ loop' = [loop EXCEPT !.nonce = s]
      BY <1>5 DEF get_last_event_nonce_with_retry, Goto
    <2>2. loop'.current = loop.current /\ loop'.nonce = s
      BY <1>0, <2>1 DEF IInv, TypeOK
    <2> PICK h : h = loop.current
      OBVIOUS
    <2>3. Searchable # {} => Readable(s, h)
      BY <1>0, <2>1, ClaimedIsSearchable DEF RInv, SearchIsAbove
    <2>4. Searchable' # {} => Readable(s, h)'
      BY <1>1, <2>3
    <2>5. SearchIsAbove'
      BY <2>1, <2>2, <2>4 DEF SearchIsAbove
    <2>6. ClaimsAreReadable'
      BY <1>1, <2>1 DEF RInv, ClaimsAreReadable
    <2>7. LastIsFinal'
      BY <1>2, <2>2 DEF LastIsFinal
    <2> QED
      BY <1>0, <1>1, <2>1, <2>5, <2>6, <2>7 DEF RInv, RangeIsParsed, InRound
  <1>6. CASE get_last_checked_block
    <2> DEFINE end == WindowEnd(loop.current)
               logs == Logs(end, loop.current)
               found == SearchWindow(logs, loop.nonce)
    <2>1. pc = "Search"
      BY <1>6 DEF get_last_checked_block
    <2>2. \/ pc' = "Panicked"
          \/ /\ pc' = found[1]
             /\ loop' = IF found[1] = "Poll" THEN [loop EXCEPT !.checked = found[2]]
                        ELSE [loop EXCEPT !.current = end]
      BY <1>6 DEF get_last_checked_block, Goto
    <2>3. found[1] \in {"Poll", "Panicked", "Search"}
      BY DEF SearchWindow
    <2>4. end \in Nat
      BY <1>0, WindowEndType
    <2>5. logs \subseteq Events /\ \A e \in logs : \E b \in DOMAIN chain : e \in chain[b]
      BY <1>0 DEF Logs, IInv, TypeOK
    <2>6. CASE pc' = "Panicked"
      BY <1>0, <2>6, NoSearchStep DEF RangeIsParsed, InRound
    <2>7. CASE pc' = "Search"
      <3>1. found[1] = "Search"
        BY <2>2, <2>7
      <3>2. Searchable # {} => Readable(loop.nonce, end)
        <4> HIDE DEF end
        <4> QED
          BY <2>1, <2>4, <3>1, SearchedIsReadable, SearchFinds
      <3> HIDE DEF end, logs, found
      <3>3. loop' = [loop EXCEPT !.current = end]
        BY <2>2, <2>7, <3>1
      <3>4. loop'.current = end /\ loop'.nonce = loop.nonce
        BY <1>0, <3>3 DEF IInv, TypeOK
      <3> PICK n : n = loop.nonce
        OBVIOUS
      <3> PICK h : h = end
        OBVIOUS
      <3>5. /\ Searchable' # {} => Readable(n, h)'
            /\ FinalNonce(n)' /\ n <= s
        BY <1>1, <2>1, <3>2 DEF RInv, LastIsFinal
      <3>6. SearchIsAbove' /\ LastIsFinal'
        BY <1>2, <1>3, <2>7, <3>4, <3>5 DEF SearchIsAbove, LastIsFinal
      <3>7. ClaimsAreReadable'
        BY <1>1, <2>7 DEF RInv, ClaimsAreReadable
      <3> QED
        BY <1>0, <1>1, <2>7, <3>6, <3>7 DEF RInv, RangeIsParsed, InRound
    <2>8. CASE pc' = "Poll"
      <3>1. found[1] = "Poll" /\ loop' = [loop EXCEPT !.checked = found[2]]
        BY <2>2, <2>8
      <3>2. PICK e \in logs : e.nonce = loop.nonce /\ found[2] = BlockOf(e)
        BY <2>5, <3>1, SearchEndsAtTheEvent
      <3>3. found[2] \in DOMAIN chain /\ e \in chain[found[2]]
        BY <2>5, <3>2 DEF BlockOf
      <3> PICK ch : ch = found[2]
        OBVIOUS
      <3> HIDE DEF found, logs, end
      <3>4. ch \in DOMAIN chain /\ e \in chain[ch] /\ loop'.checked = ch
        BY <1>0, <3>1, <3>3 DEF IInv, TypeOK
      <3>5. FinalNonce(loop.nonce) /\ loop.nonce <= s
        BY <2>1 DEF RInv, LastIsFinal
      <3>6. PICK c \in DOMAIN chain : IsDeep(c) /\ EventIn(c, loop.nonce)
        BY <3>5 DEF FinalNonce
      <3>7. PICK d \in chain[c] : d.nonce = loop.nonce
        BY <3>6 DEF EventIn
      <3>8. c = ch
        <4>1. c \in Nat /\ ch \in Nat
          BY <1>0, <3>4, <3>6
        <4>2. ~(c < ch) /\ ~(ch < c)
          <5>1. d.nonce \in Nat /\ e.nonce \in Nat /\ d.nonce = e.nonce
            BY <1>0, <3>2, <3>4, <3>7, EventTypes
          <5> QED
            BY <1>0, <3>4, <3>7, <5>1 DEF IInv, NoncesGrow
        <4> QED
          BY <4>1, <4>2
      <3>9. IsDeep(ch)' /\ AllParsed(ch, ch - 1)'
        <4>1. AllParsed(ch, ch - 1)
          BY <1>0, <3>4 DEF AllParsed
        <4> QED
          BY <1>1, <3>6, <3>8, <4>1
      <3>10. ch \in DOMAIN chain' /\ ch <= ch /\ (\E x \in chain'[ch] : x.nonce <= s)
        BY <1>0, <3>2, <3>4, <3>5
      <3>11. RangeIsParsed'
        BY <1>2, <2>8, <3>4, <3>9, <3>10 DEF RangeIsParsed, StartedFrom, InRound
      <3> QED
        BY <1>0, <2>8, <3>11, NoSearchStep
    <2> QED
      BY <2>2, <2>3, <2>6, <2>7, <2>8
  <1> QED
    BY <1>4, <1>5, <1>6

\* All nonces between an event of a parsed range and the one that a search would be
\* for are of events that the loop has read.
LEMMA RangeIsReadable ==
    ASSUME RInv, pc = "ReadNonce", NEW e \in loop.events, NEW n \in Nat,
           SearchedNonce(nonce) <= n, n <= e.nonce
    PROVE  Readable(n, MaxHeight)
  <1>0. /\ loop.checked \in Nat /\ loop.latest \in Nat /\ nonce \in Nat
        /\ Len(chain) \in Nat /\ DOMAIN chain = 1..Len(chain) /\ get_block_delay \in Nat
        /\ loop.latest + get_block_delay <= Len(chain)
        /\ Len(chain) <= MaxHeight /\ MaxHeight \in Nat
        /\ \A b \in DOMAIN chain : \A x \in chain[b] : x.nonce \in Nat
    BY BasicTypes, EventTypes DEF RInv
  <1>1. PICK a \in DOMAIN chain : StartedFrom(a)
    BY DEF RInv, RangeIsParsed, InRound
  <1>2. PICK d \in chain[a] : d.nonce <= SearchedNonce(nonce)
    BY <1>1 DEF StartedFrom
  <1>3. PICK b \in DOMAIN chain : b <= loop.latest /\ e \in chain[b]
    BY DEF RInv, RangeIsParsed
  <1>4. SearchedNonce(nonce) \in Nat /\ SearchedNonce(nonce) >= 1
    BY <1>0 DEF SearchedNonce
  <1>5. 1 <= n
    BY <1>4
  <1>6. PICK c \in DOMAIN chain : c <= b /\ EventIn(c, n)
    BY <1>3, <1>5 DEF RInv, Contiguous
  <1>7. PICK x \in chain[c] : x.nonce = n
    BY <1>6 DEF EventIn
  <1>8. a <= c
    <2>1. d.nonce <= n /\ d.nonce \in Nat
      BY <1>0, <1>2, <1>4
    <2>2. ~(c < a)
      BY <1>7, <2>1 DEF RInv, IInv, NoncesGrow
    <2>3. a \in Nat /\ c \in Nat
      BY <1>0
    <2> QED
      BY <2>2, <2>3
  <1>9. Parsed(x)
    <2>1. AllParsed(a, loop.checked - 1) /\ AllParsed(loop.checked, loop.latest)
      BY <1>1 DEF StartedFrom, RInv, RangeIsParsed
    <2>2. c <= loop.checked - 1 \/ (loop.checked <= c /\ c <= loop.latest)
      BY <1>0, <1>3, <1>6
    <2> QED
      BY <1>8, <2>1, <2>2 DEF AllParsed
  <1>10. c <= MaxHeight /\ IsDeep(c)
    BY <1>0, <1>3, <1>6 DEF IsDeep
  <1> QED
    BY <1>7, <1>9, <1>10 DEF Readable

LEMMA ReadHeightKeeps ==
    ASSUME RInv, IInv', ReadHeight
    PROVE  RInv'
  <1>1. /\ pc = "Poll" /\ pc' = "ReadLogs"
        /\ loop' = [loop EXCEPT !.latest = Len(chain) - get_block_delay]
        /\ UNCHANGED <<chain, claimed, nonce, pending>>
    BY DEF ReadHeight, Goto, ethereum, cosmos
  <1>2. loop'.checked = loop.checked /\ loop'.latest = Len(chain) - get_block_delay
    BY <1>1 DEF RInv, IInv, TypeOK
  <1> PICK ch : ch = loop.checked
    OBVIOUS
  <1>3. PICK a \in DOMAIN chain : StartedFrom(a)
    BY <1>1 DEF RInv, RangeIsParsed, InRound
  <1>4. IsDeep(ch) /\ ch \in Nat /\ Len(chain) \in Nat /\ get_block_delay \in Nat
    BY <1>1, DelayType, OracleAssumption DEF RInv, IInv, TypeOK, RangeIsParsed, InRound
  <1>5. ch <= loop'.latest
    BY <1>2, <1>4 DEF IsDeep
  <1>6. AllParsed(a, ch - 1)' /\ IsDeep(ch)'
    BY <1>1, <1>3, <1>4, LoopLeaves DEF StartedFrom
  <1>7. RangeIsParsed'
    BY <1>1, <1>2, <1>3, <1>5, <1>6 DEF RangeIsParsed, StartedFrom, InRound, SearchedNonce
  <1> QED
    BY <1>1, <1>7, NoSearchStep

LEMMA ReadLogsKeeps ==
    ASSUME RInv, IInv', ReadLogs
    PROVE  RInv'
  <1> DEFINE logs == Logs(loop.checked, loop.latest)
  <1>1. /\ pc = "ReadLogs" /\ pc' \in {"Poll", "Panicked", "ReadNonce"}
        /\ loop' = [loop EXCEPT !.events = logs]
        /\ UNCHANGED <<chain, claimed, nonce, pending>>
    BY DEF ReadLogs, Goto, ethereum, cosmos
  <1>2. loop'.checked = loop.checked /\ loop'.latest = loop.latest /\ loop'.events = logs
    BY <1>1 DEF RInv, IInv, TypeOK
  <1>3. CASE pc' = "Panicked"
    BY <1>1, <1>3, NoSearchStep DEF RangeIsParsed, InRound
  <1>4. CASE pc' = "Poll"
    BY <1>1, <1>2, <1>4, EndOfRound DEF InRound
  <1>5. CASE pc' = "ReadNonce"
    <2>1. \A e \in logs : e.kind # "garbled" /\ e.kind # "logic"
      BY <1>5 DEF ReadLogs, Goto
    <2>2. \A b \in DOMAIN chain : \A e \in chain[b] :
             e.kind \in {"valset", "transfer", "logic", "garbled"}
      BY EventTypes DEF RInv
    <2>3. /\ DOMAIN chain \subseteq Int /\ loop.checked \in Nat /\ loop.latest \in Nat
      BY BasicTypes DEF RInv
    <2> PICK ch : ch = loop.checked
      OBVIOUS
    <2> PICK la : la = loop.latest
      OBVIOUS
    <2>4. AllParsed(ch, la)
      <3> SUFFICES ASSUME NEW b \in DOMAIN chain, ch <= b, b <= la, NEW e \in chain[b]
                   PROVE  Parsed(e)
        BY DEF AllParsed
      <3>1. e \in logs
        BY <2>3 DEF Logs
      <3> QED
        BY <2>1, <2>2, <3>1 DEF Parsed
    <2>5. \A e \in logs : \E b \in DOMAIN chain : b <= la /\ e \in chain[b]
      BY <2>3 DEF Logs
    <2> HIDE DEF logs
    <2>6. PICK a \in DOMAIN chain : StartedFrom(a)
      BY <1>1 DEF RInv, RangeIsParsed, InRound
    <2>7. IsDeep(ch) /\ ch <= la
      BY <1>1 DEF RInv, RangeIsParsed, InRound
    <2>8. AllParsed(a, ch - 1)' /\ IsDeep(ch)' /\ AllParsed(ch, la)'
      BY <1>1, <2>4, <2>6, <2>7, LoopLeaves DEF StartedFrom
    <2>9. RangeIsParsed'
      BY <1>1, <1>2, <1>5, <2>5, <2>6, <2>7, <2>8
      DEF RangeIsParsed, StartedFrom, InRound, SearchedNonce
    <2> QED
      BY <1>1, <1>5, <2>9, NoSearchStep
  <1> QED
    BY <1>1, <1>3, <1>4, <1>5

\* A step within the round that leaves its range alone.
LEMMA SameRange ==
    ASSUME RInv, UNCHANGED chain, UNCHANGED claimed, UNCHANGED nonce,
           pc \in {"ReadNonce", "SendClaims", "WaitForTx", "CheckNonce"},
           pc' \in {"SendClaims", "WaitForTx", "CheckNonce"},
           loop'.checked = loop.checked, loop'.latest = loop.latest
    PROVE  RangeIsParsed'
  <1> PICK ch : ch = loop.checked
    OBVIOUS
  <1> PICK la : la = loop.latest
    OBVIOUS
  <1>1. PICK a \in DOMAIN chain : StartedFrom(a)
    BY DEF RInv, RangeIsParsed, InRound
  <1>2. IsDeep(ch) /\ ch <= la /\ AllParsed(ch, la)
    BY DEF RInv, RangeIsParsed, InRound
  <1>3. AllParsed(a, ch - 1)' /\ IsDeep(ch)' /\ AllParsed(ch, la)'
    BY <1>1, <1>2, LoopLeaves DEF StartedFrom
  <1> QED
    BY <1>1, <1>2, <1>3 DEF RangeIsParsed, StartedFrom, InRound, SearchedNonce

LEMMA ReadNonceKeeps ==
    ASSUME RInv, IInv', ReadNonce
    PROVE  RInv'
  <1> DEFINE new == filter_by_event_nonce(nonce, loop.events)
  <1>1. /\ pc = "ReadNonce" /\ UNCHANGED <<chain, claimed, nonce, pending>>
        /\ \/ pc' = "Poll" /\ loop' = [loop EXCEPT !.checked = loop.latest, !.events = {}]
           \/ pc' = "SendClaims" /\ loop' = [loop EXCEPT !.nonce = nonce, !.events = new]
    BY DEF ReadNonce, Goto, ethereum, cosmos
  <1>2. CASE pc' = "Poll"
    <2>1. loop'.checked = loop.latest
      BY <1>1, <1>2 DEF RInv, IInv, TypeOK
    <2> QED
      BY <1>1, <1>2, <2>1, EndOfRound DEF InRound
  <1>3. CASE pc' = "SendClaims"
    <2>1. /\ loop'.checked = loop.checked /\ loop'.latest = loop.latest /\ loop'.events = new
      BY <1>1, <1>3 DEF RInv, IInv, TypeOK
    <2>2. RangeIsParsed'
      BY <1>1, <1>3, <2>1, SameRange
    <2>3. /\ Contiguous' /\ Searchable' = Searchable
          /\ \A n : FinalNonce(n)' <=> FinalNonce(n)
          /\ \A n, h : Readable(n, h)' <=> Readable(n, h)
      BY <1>1, LoopLeaves
    <2>4. \A n \in ToBeClaimed' : Readable(n, MaxHeight)
      <3> SUFFICES ASSUME NEW n \in ToBeClaimed'
                   PROVE  Readable(n, MaxHeight)
        OBVIOUS
      <3>1. n \in Nat /\ \E e \in loop.events : SearchedNonce(nonce) <= n /\ n <= e.nonce
        BY <1>1, <2>1 DEF ToBeClaimed, filter_by_event_nonce, SearchedNonce
      <3> QED
        BY <1>1, <3>1, RangeIsReadable
    <2>5. ClaimsAreReadable'
      BY <2>3, <2>4 DEF RInv, ClaimsAreReadable
    <2>6. LastIsFinal'
      <3> PICK s : s = SearchedNonce(nonce)
        OBVIOUS
      <3>1. FinalNonce(s)' /\ s = SearchedNonce(nonce)'
        BY <1>1, <2>3 DEF RInv, LastIsFinal, SearchedNonce
      <3> QED
        BY <1>3, <3>1 DEF LastIsFinal
    <2> QED
      BY <1>3, <2>2, <2>3, <2>5, <2>6 DEF RInv, SearchIsAbove
  <1> QED
    BY <1>1, <1>2, <1>3

LEMMA SendClaimsKeeps ==
    ASSUME RInv, IInv', send_ethereum_claims
    PROVE  RInv'
  <1>1. /\ pc = "SendClaims" /\ loop' = [loop EXCEPT !.events = {}]
        /\ UNCHANGED <<chain, claimed, nonce>>
    BY DEF send_ethereum_claims, ethereum
  <1>2. /\ loop'.latest = loop.latest /\ loop'.checked = loop.checked
        /\ loop.events \subseteq Events
    BY <1>1 DEF RInv, IInv, TypeOK
  <1>3. CASE pending = <<>>
    <2>1. pending' = ByNonce(loop.events) /\ pc' = "WaitForTx"
      BY <1>3 DEF send_ethereum_claims, OrderedMsgs
    <2>2. \A i \in DOMAIN pending' : pending'[i] \in loop.events
      BY <1>2, <2>1, ByNonceLists
    <2>3. RangeIsParsed'
      BY <1>1, <1>2, <2>1, SameRange
    <2>4. /\ Contiguous'
          /\ \A n : FinalNonce(n)' <=> FinalNonce(n)
          /\ \A n, h : Readable(n, h)' <=> Readable(n, h)
      BY <1>1, LoopLeaves
    <2>5. Searchable' \subseteq Searchable \cup ToBeClaimed
      BY <1>1, <2>2 DEF Searchable, ToBeClaimed, SearchedNonce
    <2>6. ClaimsAreReadable'
      BY <1>1, <2>1, <2>4, <2>5 DEF RInv, ClaimsAreReadable
    <2>7. LastIsFinal'
      <3> PICK s : s = SearchedNonce(nonce)
        OBVIOUS
      <3>1. FinalNonce(s)' /\ s = SearchedNonce(nonce)'
        BY <1>1, <2>4 DEF RInv, LastIsFinal, SearchedNonce
      <3> QED
        BY <2>1, <3>1 DEF LastIsFinal
    <2> QED
      BY <2>1, <2>3, <2>4, <2>6, <2>7 DEF RInv, SearchIsAbove
  <1>4. CASE pending # <<>>
    <2>1. pc' = "Poll" /\ pending' = pending
      BY <1>4 DEF send_ethereum_claims
    <2> QED
      BY <1>1, <1>2, <2>1, EndOfRound DEF InRound
  <1> QED
    BY <1>3, <1>4

LEMMA WaitKeeps ==
    ASSUME RInv, IInv', wait_for_tx \/ CheckNonce
    PROVE  RInv'
  <1>1. /\ UNCHANGED <<chain, claimed, nonce, pending>>
        /\ \/ pc = "WaitForTx" /\ pc' \in {"Poll", "CheckNonce"} /\ loop' = loop
           \/ /\ pc = "CheckNonce" /\ pc' = "Poll"
              /\ loop' = loop \/ loop' = [loop EXCEPT !.checked = loop.latest]
    BY DEF wait_for_tx, CheckNonce, Goto, ethereum, cosmos
  <1>2. /\ loop'.checked = loop.checked \/ (loop'.checked = loop.latest /\ pc = "CheckNonce")
        /\ pc' = "CheckNonce" => loop' = loop
    BY <1>1 DEF RInv, IInv, TypeOK
  <1>3. CASE pc' = "Poll"
    BY <1>1, <1>2, <1>3, EndOfRound DEF InRound
  <1>4. CASE pc' = "CheckNonce"
    <2>1. RangeIsParsed'
      BY <1>1, <1>2, <1>4, SameRange
    <2> QED
      BY <1>1, <1>4, <2>1, NoSearchStep
  <1> QED
    BY <1>1, <1>3, <1>4

LEMMA FailureKeeps ==
    ASSUME RInv, IInv', CallFails \/ Crash \/ Restart
    PROVE  RInv'
  <1>1. /\ UNCHANGED <<chain, claimed, nonce, pending>>
        /\ loop' = [loop EXCEPT !.events = {}]
        /\ \/ pc' = "ReadTip"
           \/ /\ pc' = "Poll"
              /\ pc \in {"ReadLogs", "ReadNonce", "SendClaims", "WaitForTx", "CheckNonce"}
    BY DEF CallFails, Crash, Restart, Goto, ethereum, cosmos
  <1>2. loop'.checked = loop.checked
    BY <1>1 DEF RInv, IInv, TypeOK
  <1>3. CASE pc' = "Poll"
    BY <1>1, <1>2, <1>3, EndOfRound DEF InRound
  <1>4. CASE pc' = "ReadTip"
    BY <1>1, <1>4, NoSearchStep DEF RangeIsParsed, InRound
  <1> QED
    BY <1>1, <1>3, <1>4

LEMMA InitReadable ==
    ASSUME Init
    PROVE  RInv
  <1>1. IInv
    BY InitEstablishes
  <1>2. /\ chain = [b \in 1..Height0 |-> IF b = 1 THEN {Event(1, "valset")} ELSE {}]
        /\ claimed = {} /\ nonce = 0 /\ pending = <<>> /\ pc = "ReadTip"
    BY DEF Init
  <1>3. Height0 \in Nat /\ Height0 >= 1 /\ get_block_delay \in Nat /\ get_block_delay < Height0
    BY DelayType, OracleAssumption
  <1>4. /\ DOMAIN chain = 1..Height0 /\ Len(chain) = Height0 /\ 1 \in DOMAIN chain
        /\ chain[1] = {Event(1, "valset")}
        /\ \A b \in DOMAIN chain : b # 1 => chain[b] = {}
    BY <1>1, <1>2, <1>3 DEF IInv, TypeOK
  <1>5. EventIn(1, 1)
    BY <1>4 DEF EventIn, Event
  <1>6. Contiguous
    <2> SUFFICES ASSUME NEW b \in DOMAIN chain, NEW e \in chain[b], NEW n \in Nat, 1 <= n, n <= e.nonce
                 PROVE  \E c \in DOMAIN chain : c <= b /\ EventIn(c, n)
      BY <1>5 DEF Contiguous
    <2>1. b = 1 /\ e.nonce = 1
      BY <1>4 DEF Event
    <2>2. n = 1
      BY <2>1
    <2> QED
      BY <1>4, <1>5, <2>1, <2>2
  <1>7. LastIsFinal
    <2>1. IsDeep(1)
      BY <1>3, <1>4 DEF IsDeep
    <2>2. FinalNonce(1)
      BY <1>4, <1>5, <2>1 DEF FinalNonce
    <2> QED
      BY <1>2, <2>2 DEF LastIsFinal, SearchedNonce
  <1>8. Searchable = {}
    BY <1>2 DEF Searchable
  <1> QED
    BY <1>1, <1>2, <1>6, <1>7, <1>8
    DEF RInv, RangeIsParsed, InRound, ClaimsAreReadable, SearchIsAbove

LEMMA NextReadable ==
    ASSUME RInv, [Next]_vars
    PROVE  RInv'
  <1>1. IInv'
    BY NextPreserves DEF RInv
  <1> QED
    BY <1>1, OutsideKeeps, SearchKeeps, ReadHeightKeeps, ReadLogsKeeps, ReadNonceKeeps,
       SendClaimsKeeps, WaitKeeps, FailureKeeps
    DEF Next, Oracle

\* A loop that panics has claimed nothing yet, or there is the log of a logic call.
LEMMA PanicsAreExplained ==
    ASSUME RInv, [Next]_vars, pc # "Panicked", pc' = "Panicked", claimed # {}
    PROVE  HasKind({"logic"})
  <1>0. \A from, to : \A e \in Logs(from, to) : e.kind = "logic" => HasKind({"logic"})
    BY DEF Logs, HasKind, EventsOf
  <1>1. ReadLogs \/ get_last_checked_block
    BY DEF Next, Oracle, ReadTip, get_last_event_nonce_with_retry,
       ReadHeight, ReadNonce, send_ethereum_claims, wait_for_tx, CheckNonce, CallFails, Crash,
       Restart, MineBlock, Reorganise, DeliverTx, DropTx, OthersObserve, Goto, vars
  <1>2. CASE ReadLogs
    <2>1. \E e \in Logs(loop.checked, loop.latest) : e.kind = "logic"
      BY <1>2 DEF ReadLogs, Goto
    <2> QED
      BY <1>0, <2>1
  <1>3. CASE get_last_checked_block
    <2> DEFINE end == WindowEnd(loop.current)
    <2>1. pc = "Search"
      BY <1>3 DEF get_last_checked_block
    <2>2. /\ loop.nonce \in Nat /\ loop.nonce >= 1
          /\ loop.current \in Nat /\ loop.current # 0
          /\ Readable(loop.nonce, loop.current)
      BY <2>1, ClaimedIsSearchable, SearchedIsReadable DEF RInv
    <2>3. end \in Nat
      BY WindowEndType DEF RInv
    <2>4. SearchWindow(Logs(end, loop.current), loop.nonce)[1] = "Panicked"
      BY <1>3, <2>2 DEF get_last_checked_block, Goto
    <2> HIDE DEF end
    <2>5. \E e \in Logs(end, loop.current) : e.kind = "logic"
      BY <2>2, <2>3, <2>4, SearchFinds
    <2> QED
      BY <1>0, <2>5
  <1> QED
    BY <1>1, <1>2, <1>3

\* A restarted loop finds the block of its last claim and panics at nothing but the
\* log of a logic call: whatever is reorganised, delivered late or observed by others
\* while it searches.  Only a
\* validator without a claim may search for an event above the tip it has read.
THEOREM ResyncSucceeds == Spec => ResyncFindsTheLastEvent
  <1>1. Spec => []RInv
    BY InitReadable, NextReadable, PTL DEF Spec
  <1>2. RInv /\ [Next]_vars =>
          [pc # "Panicked" /\ pc' = "Panicked" => claimed = {} \/ HasKind({"logic"})]_vars
    BY PanicsAreExplained
  <1> QED
    BY <1>1, <1>2, PTL DEF Spec, ResyncFindsTheLastEvent
=============================================================================
