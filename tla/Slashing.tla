------------------------------ MODULE Slashing ------------------------------
(***************************************************************************)
(* What x/nab asks one validator to sign, and what it does when the        *)
(* signature is missing: the validator sets, batches and logic calls in    *)
(* the store, the confirmations of them, and the EndBlocker that judges    *)
(* the unsigned ones, creates validator sets and prunes them. Judging a    *)
(* validator uses nothing of the others, so one validator stands for all.  *)
(***************************************************************************)
EXTENDS Integers, FiniteSetsExt, Functions

CONSTANTS SignedValsetsWindow, SignedBatchesWindow, SignedLogicCallsWindow,
          UnbondSlashingValsetsWindow,
          BatchKeys,        \* token and nonce of a batch, in the order of the store
          CallKeys,         \* invalidation id and nonce of a logic call, likewise
          MaxIssue,         \* bound: the last block with a new batch or call
          MaxHeight         \* bound: the last block

ASSUME WindowAssumption ==
    /\ {SignedValsetsWindow, SignedBatchesWindow, SignedLogicCallsWindow} \subseteq Nat
    /\ UnbondSlashingValsetsWindow \in Nat \ {0}
    /\ BatchKeys \cup CallKeys \subseteq Nat \ {0}

VARIABLES height,      \* the block that is being executed
          valsets, batches, calls,  \* what is stored
          batchIndex,  \* the batch stored under each block
          latest,      \* LatestValsetNonce
          observed,    \* nonce of the last observed validator set, 0 if none
          confirms,    \* what the validator has confirmed
          cursor,      \* LastSlashedValsetNonce, -BatchBlock and -LogicCallBlock
          validator,   \* its bond, its jail, when it joined and when it began to leave
          unbonding,   \* LastUnBondingBlockHeight
          built,       \* keys that have been used, each once, for a batch or a call
          shared,      \* history: blocks with several batches
          judged,      \* history: what the EndBlocker has judged
          punished     \* history: what the validator was slashed for and when

stakeVars == <<validator, unbonding>>
historyVars == <<shared, judged, punished>>
chainVars == <<height, valsets, batches, calls, batchIndex, latest, observed, cursor,
               stakeVars, built, historyVars>>

Item(k, key) == [kind |-> k, key |-> key, block |-> height]
Lowest(S) == CHOOSE i \in S : \A j \in S : i.key <= j.key
Highest(S) == CHOOSE i \in S : \A j \in S : i.key >= j.key

InitChain ==
    /\ height = 1
    /\ valsets = {} /\ batches = {} /\ calls = {} /\ batchIndex = <<>>
    /\ latest = 0 /\ observed = 0
    /\ confirms = {}
    /\ cursor = [valset |-> 0, batch |-> 0, call |-> 0]
    /\ validator \in {[state |-> s, jailed |-> FALSE, start |-> 0, since |-> 0] :
                        s \in {"bonded", "out"}}
    /\ unbonding = 0
    /\ built = {}
    /\ shared = {} /\ judged = {} /\ punished = {}

-----------------------------------------------------------------------------
(* Messages of a block                                                     *)

StoreBatch ==
    /\ height <= MaxIssue
    /\ \E k \in BatchKeys \ built :
         LET b == Item("batch", k)
         IN  /\ batches' = batches \cup {b}
             /\ batchIndex' = [x \in DOMAIN batchIndex \cup {height} |->
                                IF x = height THEN b ELSE batchIndex[x]]
             /\ built' = built \cup {k}
             /\ shared' = IF height \in DOMAIN batchIndex THEN shared \cup {height} ELSE shared
    /\ UNCHANGED <<height, valsets, calls, latest, observed, confirms, cursor, stakeVars,
                   judged, punished>>

\* The block of a call is what its caller, another module, has put there: the
\* current one, or none.
SetOutgoingLogicCall ==
    /\ height <= MaxIssue
    /\ \E k \in CallKeys \ built, block \in {0, height} :
         /\ calls' = calls \cup {[kind |-> "call", key |-> k, block |-> block]}
         /\ built' = built \cup {k}
    /\ UNCHANGED <<height, valsets, batches, batchIndex, latest, observed, confirms, cursor,
                   stakeVars, historyVars>>

\* All messages of a transaction take effect or none: an item that is gone
\* or confirmed already fails it.
ConfirmAll(items) ==
    confirms' = IF items \subseteq (valsets \cup batches \cup calls) \ confirms
                THEN confirms \cup items ELSE confirms

-----------------------------------------------------------------------------
(* The EndBlocker                                                          *)

\* The staking module's turn comes first: the validator joins, leaves or
\* returns. Whoever was jailed must leave.
StakingEndBlock ==
    (IF validator.state = "bonded" /\ validator.jailed THEN {} ELSE {validator}) \cup
    CASE validator.state = "out" ->
           {[validator EXCEPT !.state = "bonded", !.start = height]}
      [] validator.state = "bonded" ->
           {[validator EXCEPT !.state = "unbonding", !.since = height]}
      [] validator.state = "unbonding" ->
           {[validator EXCEPT !.state = "bonded", !.jailed = FALSE]}

BeganUnbonding(v) == v.state = "unbonding" /\ v.since = height

\* Slash and Jail; the second reports the block only when it jails.
Punish(r, items) ==
    IF items = {} THEN r
    ELSE [v |-> [r.v EXCEPT !.jailed = TRUE],
          unbonding |-> IF r.v.jailed THEN r.unbonding ELSE height,
          punished |-> r.punished \cup {[item |-> i, at |-> height] : i \in items}]

\* A bonded validator is jailed, and out of the bonded set, at the first miss.
FirstMiss(r, missed) ==
    IF r.v.state = "bonded" /\ ~r.v.jailed /\ missed # {} THEN {Lowest(missed)} ELSE {}

\* Wrong variant of GetUnSlashedValsets: the window ends a block early.
UnSlashedValsetsEarly ==
    {vs \in valsets : vs.key > cursor.valset /\ height + 1 >= vs.block + SignedValsetsWindow}

GetUnSlashedValsets ==
    {vs \in valsets : vs.key > cursor.valset /\ height >= vs.block + SignedValsetsWindow}

DueValsets == IF height <= SignedValsetsWindow THEN {} ELSE GetUnSlashedValsets

ValsetSlashing(r) ==
    LET missed == {vs \in DueValsets \ confirms : r.v.start < vs.block}
        leaving == {vs \in missed : /\ r.v.state = "unbonding"
                                    /\ vs.block < r.v.since + UnbondSlashingValsetsWindow}
    IN  Punish(r, FirstMiss(r, missed) \cup leaving)

\* Wrong variant of GetUnSlashedBatches: a block is skipped.
UnSlashedBatchesSkip ==
    {batchIndex[b] : b \in {x \in DOMAIN batchIndex :
                              x > cursor.batch + 1 /\ x < height - SignedBatchesWindow}}

GetUnSlashedBatches ==
    {batchIndex[b] : b \in {x \in DOMAIN batchIndex :
                              x > cursor.batch /\ x < height - SignedBatchesWindow}}

DueBatches == IF height <= SignedBatchesWindow THEN {} ELSE GetUnSlashedBatches

BatchSlashing(r) ==
    LET missed == {b \in DueBatches \ confirms : r.v.start <= b.block}
        oldest == {b \in missed : \A c \in missed : b.block <= c.block}
    IN  Punish(r, FirstMiss(r, oldest))

GetUnSlashedLogicCalls == {c \in calls : c.block > cursor.call}

DueCalls == IF height <= SignedLogicCallsWindow THEN {} ELSE GetUnSlashedLogicCalls

LogicCallSlashing(r) ==
    Punish(r, FirstMiss(r, {c \in DueCalls \ confirms : r.v.start <= c.block}))

slashing(r) == LogicCallSlashing(BatchSlashing(ValsetSlashing(r)))

NextCursor ==
    [valset |-> IF DueValsets = {} THEN cursor.valset ELSE Highest(DueValsets).key,
     batch |-> IF DueBatches = {} THEN cursor.batch ELSE Max({b.block : b \in DueBatches}),
     call |-> IF DueCalls = {} THEN cursor.call ELSE Highest(DueCalls).block]

\* Batches and calls that were executed or have timed out are deleted; the
\* index entry of their block goes with them.
DeleteBatches(gone) ==
    /\ batches' = batches \ gone
    /\ batchIndex' = Restrict(batchIndex, DOMAIN batchIndex \ {b.block : b \in gone})

\* Wrong variant of createValsets: an unbonding does not ask for a new set.
CreateOnPowerChange(r, powerDiff) == latest = 0 \/ powerDiff

createValsets(r, powerDiff) == latest = 0 \/ r.unbonding = height \/ powerDiff

\* Wrong variant of pruneValsets: the signing window is not waited for.
PruneObserved(S, o) == {vs \in S : vs.key <= o}

pruneValsets(S, o) ==
    IF height < SignedValsetsWindow THEN {}
    ELSE {vs \in S : vs.key < o /\ vs.block < height - SignedValsetsWindow}

EndBlocker ==
    /\ height < MaxHeight
    /\ \E v \in StakingEndBlock :
         LET r == slashing([v |-> v, punished |-> punished,
                            unbonding |-> IF BeganUnbonding(v) THEN height ELSE unbonding])
         IN  /\ validator' = r.v /\ unbonding' = r.unbonding /\ punished' = r.punished
             /\ \E powerDiff \in BOOLEAN, o \in observed..latest :
                  LET creates == createValsets(r, powerDiff)
                      all == valsets \cup (IF creates THEN {Item("valset", latest + 1)} ELSE {})
                  IN  /\ latest' = IF creates THEN latest + 1 ELSE latest
                      /\ observed' = o
                      /\ valsets' = all \ pruneValsets(all, o)
    /\ judged' = judged \cup DueValsets \cup DueBatches \cup DueCalls
    /\ cursor' = NextCursor
    /\ \E gone \in SUBSET batches : DeleteBatches(gone)
    /\ calls' \in SUBSET calls
    /\ height' = height + 1
    /\ UNCHANGED <<confirms, built, shared>>

\* Left to itself the chain receives confirmations one by one, or never.
ReceiveConfirm ==
    /\ height < MaxHeight
    /\ \E i \in valsets \cup batches \cup calls : i \notin confirms /\ ConfirmAll({i})
    /\ UNCHANGED chainVars

ChainNext == StoreBatch \/ SetOutgoingLogicCall \/ EndBlocker \/ ReceiveConfirm

ChainSpec == InitChain /\ [][ChainNext]_<<chainVars, confirms>>

-----------------------------------------------------------------------------
(* Properties                                                              *)

\* No validator set leaves the store before it was judged, however early it
\* is observed on Ethereum (pruneValsets: "so that slashing can occur the
\* block before we remove them").
EveryValsetIsJudged ==
    \A n \in 1..latest : \E vs \in valsets \cup judged : vs.kind = "valset" /\ vs.key = n

\* Nobody is slashed for a validator set or a batch before the whole window
\* for signing it has passed, jailed and back again or not.
WindowIsGranted ==
    \A p \in punished :
      /\ p.item.kind = "valset" => p.at >= p.item.block + SignedValsetsWindow
      /\ p.item.kind = "batch" => p.at > p.item.block + SignedBatchesWindow

\* A batch that stays in the store is judged once its window has passed,
\* unless it shares its block, and so its entry in the index, with another.
EveryBatchIsJudged ==
    \A b \in batches :
        /\ height > b.block + SignedBatchesWindow + 1
        /\ b.block \notin shared
        => b \in judged

\* Whoever begins to unbond signs the validator set of that block, which
\* leaves it out, or is slashed for it (createValsets, condition 2) once the
\* window has passed, and no sooner than in the next block.
LeaversSignTheirRemoval ==
    /\ validator.state = "unbonding"
    /\ height > validator.since + 1 /\ height > validator.since + SignedValsetsWindow
    => \E vs \in judged :
         /\ vs.kind = "valset" /\ vs.block = validator.since
         /\ vs \in confirms \/ vs \in {p.item : p \in punished} \/ validator.start >= vs.block
=============================================================================
