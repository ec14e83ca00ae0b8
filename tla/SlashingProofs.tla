--------------------------- MODULE SlashingProofs ---------------------------
(***************************************************************************)
(* The judgements of the EndBlocker, for all windows, all keys and any     *)
(* number of blocks.                                                       *)
(***************************************************************************)
EXTENDS Slashing, DataLemmas

USE WindowAssumption

ValsetItems == [kind : {"valset"}, key : Nat, block : Nat]
BatchItems == [kind : {"batch"}, key : Nat, block : Nat]
CallItems == [kind : {"call"}, key : Nat, block : Nat]
Items == ValsetItems \cup BatchItems \cup CallItems

ValidatorStates == [state : {"bonded", "unbonding", "out"}, jailed : BOOLEAN,
                    start : Nat, since : Nat]

TypeOK ==
    /\ height \in Nat \ {0}
    /\ latest \in Nat /\ observed \in 0..latest
    /\ valsets \subseteq ValsetItems
    /\ \A vs \in valsets : vs.key \in 1..latest /\ vs.block \in 1..(height - 1)
    /\ batches \subseteq BatchItems /\ \A b \in batches : b.block \in 1..height
    /\ calls \subseteq CallItems /\ \A c \in calls : c.block \in 0..height
    /\ DOMAIN batchIndex \subseteq 1..height
    /\ \A x \in DOMAIN batchIndex : batchIndex[x] \in BatchItems /\ batchIndex[x].block = x
    /\ cursor.valset \in 0..latest /\ cursor.batch \in 0..(height - 1)
    /\ validator \in ValidatorStates /\ validator.since < height
    /\ unbonding \in Nat

\* A later validator set has a later block.
ValsetsInOrder == \A vs, ws \in valsets : vs.key <= ws.key => vs.block <= ws.block

\* The cursors pass over nothing that is still in the store.
JudgedUpToCursor ==
    /\ \A vs \in valsets : vs.key <= cursor.valset => vs \in judged
    /\ \A x \in DOMAIN batchIndex : x <= cursor.batch => batchIndex[x] \in judged

\* The index leads to a batch unless another one has taken its entry.
IndexFindsBatches ==
    \A b \in batches :
      b.block \notin shared => b.block \in DOMAIN batchIndex /\ batchIndex[b.block] = b

IndexIsJudged ==
    \A x \in DOMAIN batchIndex :
      height > x + SignedBatchesWindow + 1 => batchIndex[x] \in judged

\* What a leaver owes: the set is still to be judged, or it has been and the
\* leaver signed it, was slashed for it or was not yet asked to sign it.
StillOpen(vs) ==
    /\ vs \in valsets /\ vs.key > cursor.valset
    /\ height <= vs.block + 1 \/ height <= vs.block + SignedValsetsWindow

Settled(vs) ==
    /\ vs \in judged
    /\ vs \in confirms \/ vs \in {p.item : p \in punished} \/ validator.start >= vs.block

LeaverIsAsked ==
    validator.state = "unbonding"
      => \E vs \in ValsetItems : vs.block = validator.since /\ (StillOpen(vs) \/ Settled(vs))

\* The inductive invariant.
IInv == /\ TypeOK
        /\ ValsetsInOrder
        /\ JudgedUpToCursor
        /\ IndexFindsBatches
        /\ IndexIsJudged
        /\ LeaverIsAsked
        /\ EveryValsetIsJudged
        /\ WindowIsGranted

-----------------------------------------------------------------------------
(* The helpers                                                             *)

\* The first item of the store is one of them.
LEMMA LowestIsIn ==
    ASSUME NEW S, S # {}, \A i \in S : i.key \in Nat
    PROVE  Lowest(S) \in S
  <1> DEFINE K == {i.key : i \in S}
  <1>1. K \subseteq Nat /\ K # {}
    OBVIOUS
  <1>2. PICK k \in K : \A l \in K : k <= l
    <2> HIDE DEF K
    <2> QED
      BY <1>1, LeastNat
  <1>3. \E i \in S : \A j \in S : i.key <= j.key
    BY <1>2
  <1> QED
    BY <1>3 DEF Lowest

\* The last item of the store, which the cursor of the validator sets moves to.
LEMMA HighestIsLast ==
    ASSUME NEW S, S # {}, NEW n \in Nat, \A i \in S : i.key \in Nat /\ i.key <= n
    PROVE  Highest(S) \in S /\ \A j \in S : j.key <= Highest(S).key
  <1> DEFINE K == {i.key : i \in S}
  <1>1. K \subseteq Nat /\ K # {} /\ \A k \in K : k <= n
    OBVIOUS
  <1>2. PICK k \in K : \A l \in K : k >= l
    <2> HIDE DEF K
    <2> QED
      BY <1>1, GreatestNat
  <1>3. \E i \in S : \A j \in S : i.key >= j.key
    BY <1>2
  <1>4. Highest(S) \in S /\ \A j \in S : Highest(S).key >= j.key
    BY <1>3 DEF Highest
  <1> QED
    BY <1>4

\* What judging comes to: the validator may be jailed, and the block reported
\* as one with an unbonding; the items are entered as punished now.
Outcome(r, q, items) ==
    /\ q.v \in ValidatorStates
    /\ q.v.state = r.v.state /\ q.v.start = r.v.start /\ q.v.since = r.v.since
    /\ q.unbonding = r.unbonding \/ q.unbonding = height
    /\ q.punished = r.punished \cup {[item |-> i, at |-> height] : i \in items}

LEMMA PunishOutcome ==
    ASSUME NEW r, r.v \in ValidatorStates, NEW items
    PROVE  Outcome(r, Punish(r, items), items)
  <1>1. CASE items = {}
    BY <1>1 DEF Punish, Outcome
  <1>2. CASE items # {}
    BY <1>2 DEF Punish, Outcome, ValidatorStates
  <1> QED
    BY <1>1, <1>2

\* Only what is due is punished, and a leaver for every validator set that it
\* missed up to the unbonding window.
LEMMA SlashingOutcome ==
    ASSUME TypeOK, NEW r, r.v \in ValidatorStates
    PROVE  \E items \in SUBSET (DueValsets \cup DueBatches \cup DueCalls) :
             /\ Outcome(r, slashing(r), items)
             /\ \A vs \in DueValsets \ confirms :
                   /\ r.v.state = "unbonding" /\ r.v.start < vs.block
                   /\ vs.block < r.v.since + UnbondSlashingValsetsWindow
                   => vs \in items
  <1>1. /\ \A i \in DueValsets : i.key \in Nat
        /\ \A i \in DueBatches : i.key \in Nat
        /\ \A i \in DueCalls : i.key \in Nat
    BY DEF TypeOK, DueValsets, GetUnSlashedValsets, DueBatches, GetUnSlashedBatches,
           DueCalls, GetUnSlashedLogicCalls, ValsetItems, BatchItems, CallItems
  <1>2. ASSUME NEW t, NEW S, \A i \in S : i.key \in Nat
        PROVE  FirstMiss(t, S) \subseteq S
    BY <1>2, LowestIsIn DEF FirstMiss
  <1> DEFINE missedV == {vs \in DueValsets \ confirms : r.v.start < vs.block}
             leaving == {vs \in missedV : /\ r.v.state = "unbonding"
                                          /\ vs.block < r.v.since + UnbondSlashingValsetsWindow}
             itemsV == FirstMiss(r, missedV) \cup leaving
             r1 == ValsetSlashing(r)
             missedB == {b \in DueBatches \ confirms : r1.v.start <= b.block}
             oldest == {b \in missedB : \A c \in missedB : b.block <= c.block}
             itemsB == FirstMiss(r1, oldest)
             r2 == BatchSlashing(r1)
             missedC == {c \in DueCalls \ confirms : r2.v.start <= c.block}
             itemsC == FirstMiss(r2, missedC)
             r3 == LogicCallSlashing(r2)
  <1>3. itemsV \subseteq DueValsets
    <2>1. FirstMiss(r, missedV) \subseteq missedV
      BY <1>1, <1>2
    <2> QED
      BY <2>1
  <1>4. Outcome(r, r1, itemsV)
    BY PunishOutcome DEF ValsetSlashing
  <1>5. itemsB \subseteq DueBatches
    <2>1. itemsB \subseteq oldest
      <3> HIDE DEF r1
      <3> QED
        BY <1>1, <1>2
    <2> QED
      BY <2>1
  <1>6. Outcome(r1, r2, itemsB)
    <2>1. r1.v \in ValidatorStates
      BY <1>4 DEF Outcome
    <2> HIDE DEF r1
    <2> QED
      BY <2>1, PunishOutcome DEF BatchSlashing
  <1>7. itemsC \subseteq DueCalls
    <2>1. itemsC \subseteq missedC
      <3> HIDE DEF r2
      <3> QED
        BY <1>1, <1>2
    <2> QED
      BY <2>1
  <1>8. Outcome(r2, r3, itemsC)
    <2>1. r2.v \in ValidatorStates
      BY <1>6 DEF Outcome
    <2> HIDE DEF r2
    <2> QED
      BY <2>1, PunishOutcome DEF LogicCallSlashing
  <1> DEFINE items == itemsV \cup itemsB \cup itemsC
  <1>9. Outcome(r, r3, items)
    <2> HIDE DEF itemsV, itemsB, itemsC, r1, r2, r3
    <2> QED
      BY <1>4, <1>6, <1>8 DEF Outcome
  <1>10. slashing(r) = r3
    BY DEF slashing
  <1>11. \A vs \in DueValsets \ confirms :
            /\ r.v.state = "unbonding" /\ r.v.start < vs.block
            /\ vs.block < r.v.since + UnbondSlashingValsetsWindow
            => vs \in items
    OBVIOUS
  <1> HIDE DEF itemsV, itemsB, itemsC, r3
  <1> QED
    BY <1>3, <1>5, <1>7, <1>9, <1>10, <1>11

-----------------------------------------------------------------------------
(* Every step keeps the invariant                                          *)

LEMMA InitIInv == InitChain => IInv
  <1> SUFFICES ASSUME InitChain PROVE IInv
    OBVIOUS
  <1>1. TypeOK
    <2>1. DOMAIN batchIndex = {}
      BY DEF InitChain
    <2>2. validator \in ValidatorStates /\ validator.since = 0
      <3>1. PICK s \in {"bonded", "out"} :
              validator = [state |-> s, jailed |-> FALSE, start |-> 0, since |-> 0]
        BY DEF InitChain
      <3>2. s \in {"bonded", "unbonding", "out"}
        OBVIOUS
      <3> QED
        BY <3>1, <3>2 DEF ValidatorStates
    <2> QED
      BY <2>1, <2>2 DEF InitChain, TypeOK
  <1>2. ValsetsInOrder /\ JudgedUpToCursor /\ IndexFindsBatches /\ IndexIsJudged
    BY DEF InitChain, ValsetsInOrder, JudgedUpToCursor, IndexFindsBatches, IndexIsJudged
  <1>3. LeaverIsAsked /\ EveryValsetIsJudged /\ WindowIsGranted
    BY DEF InitChain, LeaverIsAsked, EveryValsetIsJudged, WindowIsGranted
  <1> QED
    BY <1>1, <1>2, <1>3 DEF IInv

\* A confirmation only ever adds to what is confirmed.
LEMMA ConfirmIInv ==
    ASSUME IInv, confirms \subseteq confirms', UNCHANGED chainVars
    PROVE  IInv'
  <1>1. TypeOK' /\ ValsetsInOrder' /\ JudgedUpToCursor' /\ IndexFindsBatches'
    BY DEF IInv, TypeOK, ValsetsInOrder, JudgedUpToCursor, IndexFindsBatches, chainVars,
           stakeVars, historyVars
  <1>2. IndexIsJudged' /\ EveryValsetIsJudged' /\ WindowIsGranted'
    BY DEF IInv, IndexIsJudged, EveryValsetIsJudged, WindowIsGranted, chainVars,
           stakeVars, historyVars
  <1>3. LeaverIsAsked'
    BY DEF IInv, LeaverIsAsked, StillOpen, Settled, chainVars, stakeVars, historyVars
  <1> QED
    BY <1>1, <1>2, <1>3 DEF IInv

\* A new batch takes the entry of its block, which is then shared if it was taken.
LEMMA StoreBatchIInv ==
    ASSUME IInv, StoreBatch
    PROVE  IInv'
  <1>1. PICK k \in BatchKeys :
          /\ batches' = batches \cup {Item("batch", k)}
          /\ batchIndex' = [x \in DOMAIN batchIndex \cup {height} |->
                             IF x = height THEN Item("batch", k) ELSE batchIndex[x]]
          /\ shared' = IF height \in DOMAIN batchIndex THEN shared \cup {height} ELSE shared
    BY DEF StoreBatch
  <1> DEFINE b == Item("batch", k)
  <1>2. /\ DOMAIN batchIndex' = DOMAIN batchIndex \cup {height}
        /\ batchIndex'[height] = b
        /\ \A x \in DOMAIN batchIndex : x # height => batchIndex'[x] = batchIndex[x]
    BY <1>1
  <1>3. b \in BatchItems /\ b.block = height
    BY DEF Item, BatchItems, IInv, TypeOK
  <1>4. UNCHANGED <<height, valsets, calls, latest, observed, confirms, cursor,
                    validator, unbonding, judged, punished>>
    BY DEF StoreBatch, stakeVars
  <1> HIDE DEF b
  <1>5. TypeOK'
    BY <1>1, <1>2, <1>3, <1>4 DEF IInv, TypeOK, b
  <1>6. ValsetsInOrder' /\ EveryValsetIsJudged' /\ WindowIsGranted'
    BY <1>4 DEF IInv, ValsetsInOrder, EveryValsetIsJudged, WindowIsGranted
  <1>7. JudgedUpToCursor'
    BY <1>2, <1>4 DEF IInv, TypeOK, JudgedUpToCursor
  <1>8. IndexFindsBatches'
    <2> SUFFICES ASSUME NEW c \in batches', c.block \notin shared'
                 PROVE  c.block \in DOMAIN batchIndex' /\ batchIndex'[c.block] = c
      BY DEF IndexFindsBatches
    <2>1. CASE c = b
      BY <1>2, <1>3, <2>1
    <2>2. CASE c # b
      <3>1. c \in batches /\ c.block \notin shared
        BY <1>1, <2>2 DEF b
      <3>2. c.block \in DOMAIN batchIndex /\ batchIndex[c.block] = c
        BY <3>1 DEF IInv, IndexFindsBatches
      <3>3. c.block # height
        BY <1>1, <3>2
      <3> QED
        BY <1>2, <3>2, <3>3
    <2> QED
      BY <2>1, <2>2
  <1>9. IndexIsJudged'
    BY <1>2, <1>4 DEF IInv, TypeOK, IndexIsJudged
  <1>10. LeaverIsAsked'
    BY <1>4 DEF IInv, LeaverIsAsked, StillOpen, Settled
  <1> QED
    BY <1>5, <1>6, <1>7, <1>8, <1>9, <1>10 DEF IInv

LEMMA SetOutgoingLogicCallIInv ==
    ASSUME IInv, SetOutgoingLogicCall
    PROVE  IInv'
  <1>1. PICK k \in CallKeys, block \in {0, height} :
           calls' = calls \cup {[kind |-> "call", key |-> k, block |-> block]}
    BY DEF SetOutgoingLogicCall
  <1>2. UNCHANGED <<height, valsets, batches, batchIndex, latest, observed, confirms, cursor,
                    validator, unbonding, shared, judged, punished>>
    BY DEF SetOutgoingLogicCall, stakeVars, historyVars
  <1>3. [kind |-> "call", key |-> k, block |-> block] \in CallItems /\ block \in 0..height
    BY WindowAssumption DEF CallItems, IInv, TypeOK
  <1>4. TypeOK'
    BY <1>1, <1>2, <1>3 DEF IInv, TypeOK
  <1>5. ValsetsInOrder' /\ JudgedUpToCursor' /\ IndexFindsBatches' /\ IndexIsJudged'
    BY <1>2 DEF IInv, ValsetsInOrder, JudgedUpToCursor, IndexFindsBatches, IndexIsJudged
  <1>6. LeaverIsAsked' /\ EveryValsetIsJudged' /\ WindowIsGranted'
    BY <1>2 DEF IInv, LeaverIsAsked, StillOpen, Settled, EveryValsetIsJudged, WindowIsGranted
  <1> QED
    BY <1>4, <1>5, <1>6 DEF IInv

\* The staking module leaves the validator as it is, bonds it, or has it begin
\* to leave in this block.
LEMMA StakingOutcome ==
    ASSUME TypeOK, NEW v \in StakingEndBlock
    PROVE  /\ v \in ValidatorStates /\ v.since <= height
           /\ v.state = "unbonding" => v = validator \/ v.since = height
  <1>1. /\ validator \in ValidatorStates /\ height \in Nat
        /\ validator.since \in Nat /\ validator.since <= height
    BY DEF TypeOK, ValidatorStates
  <1>2. \/ v = validator
        \/ v = [validator EXCEPT !.state = "bonded", !.start = height]
        \/ v = [validator EXCEPT !.state = "unbonding", !.since = height]
        \/ v = [validator EXCEPT !.state = "bonded", !.jailed = FALSE]
    <2>1. validator.state \in {"bonded", "unbonding", "out"}
      BY <1>1 DEF ValidatorStates
    <2> QED
      BY <2>1 DEF StakingEndBlock
  <1>3. CASE v = validator
    BY <1>1, <1>3
  <1>4. CASE v = [validator EXCEPT !.state = "bonded", !.start = height]
    <2>1. v \in ValidatorStates
      BY <1>1, <1>4 DEF ValidatorStates
    <2>2. v.state = "bonded" /\ v.since = validator.since
      BY <1>1, <1>4 DEF ValidatorStates
    <2> QED
      BY <1>1, <2>1, <2>2
  <1>5. CASE v = [validator EXCEPT !.state = "unbonding", !.since = height]
    <2>1. v \in ValidatorStates
      BY <1>1, <1>5 DEF ValidatorStates
    <2>2. v.state = "unbonding" /\ v.since = height
      BY <1>1, <1>5 DEF ValidatorStates
    <2> QED
      BY <1>1, <2>1, <2>2
  <1>6. CASE v = [validator EXCEPT !.state = "bonded", !.jailed = FALSE]
    <2>1. v \in ValidatorStates
      BY <1>1, <1>6 DEF ValidatorStates
    <2>2. v.state = "bonded" /\ v.since = validator.since
      BY <1>1, <1>6 DEF ValidatorStates
    <2> QED
      BY <1>1, <2>1, <2>2
  <1> QED
    BY <1>2, <1>3, <1>4, <1>5, <1>6

\* What is due: every item in the store beyond the cursor whose window has
\* passed, and nothing else.
LEMMA Due ==
    ASSUME TypeOK
    PROVE  /\ DueValsets \subseteq valsets
           /\ \A vs \in valsets : vs \in DueValsets <=> /\ vs.key > cursor.valset
                                                        /\ height >= vs.block + SignedValsetsWindow
           /\ DueBatches \subseteq BatchItems
           /\ \A b \in DueBatches : /\ b.block \in DOMAIN batchIndex /\ batchIndex[b.block] = b
                                     /\ height > b.block + SignedBatchesWindow
                                     /\ b.block > cursor.batch
           /\ \A x \in DOMAIN batchIndex :
                 x > cursor.batch /\ height > x + SignedBatchesWindow
                   => batchIndex[x] \in DueBatches
           /\ DueCalls \subseteq calls
  <1>1. /\ DueValsets \subseteq valsets
        /\ \A vs \in valsets : vs \in DueValsets <=> /\ vs.key > cursor.valset
                                                     /\ height >= vs.block + SignedValsetsWindow
    BY DEF TypeOK, DueValsets, GetUnSlashedValsets, ValsetItems
  <1>2. /\ DueBatches \subseteq BatchItems
        /\ \A b \in DueBatches : /\ b.block \in DOMAIN batchIndex /\ batchIndex[b.block] = b
                                  /\ height > b.block + SignedBatchesWindow
                                  /\ b.block > cursor.batch
    BY DEF TypeOK, DueBatches, GetUnSlashedBatches
  <1>3. \A x \in DOMAIN batchIndex :
          x > cursor.batch /\ height > x + SignedBatchesWindow => batchIndex[x] \in DueBatches
    BY DEF TypeOK, DueBatches, GetUnSlashedBatches
  <1>4. DueCalls \subseteq calls
    BY DEF DueCalls, GetUnSlashedLogicCalls
  <1> QED
    BY <1>1, <1>2, <1>3, <1>4

\* The cursor of the validator sets moves to the last one that is due, and
\* since blocks and nonces are in the same order it passes over none that is not.
LEMMA ValsetCursor ==
    ASSUME TypeOK, ValsetsInOrder
    PROVE  /\ NextCursor.valset \in 0..latest
           /\ \A vs \in valsets :
                 vs.key <= NextCursor.valset <=> vs.key <= cursor.valset \/ vs \in DueValsets
  <1>1. CASE DueValsets = {}
    BY <1>1, Due DEF NextCursor, TypeOK
  <1>2. CASE DueValsets # {}
    <2> DEFINE h == Highest(DueValsets)
    <2>1. NextCursor.valset = h.key
      BY <1>2 DEF NextCursor
    <2>2. latest \in Nat /\ \A i \in DueValsets : i.key \in Nat /\ i.key <= latest
      BY Due DEF TypeOK
    <2>3. h \in DueValsets /\ \A vs \in DueValsets : vs.key <= h.key
      BY <1>2, <2>2, HighestIsLast
    <2>4. h \in valsets /\ h.key > cursor.valset /\ height >= h.block + SignedValsetsWindow
      BY <2>3, Due
    <2> HIDE DEF h
    <2>5. ASSUME NEW vs \in valsets, vs.key <= h.key, vs.key > cursor.valset
          PROVE  vs \in DueValsets
      <3>1. vs.block <= h.block
        BY <2>4, <2>5 DEF ValsetsInOrder
      <3>2. vs.block \in Nat /\ h.block \in Nat /\ height \in Nat
        BY <2>4 DEF TypeOK
      <3>3. height >= vs.block + SignedValsetsWindow
        BY <2>4, <3>1, <3>2
      <3> QED
        BY <2>5, <3>3, Due
    <2>6. /\ \A vs \in valsets : vs.key \in Nat
          /\ h.key \in 0..latest /\ cursor.valset \in Nat
      BY <2>4 DEF TypeOK
    <2>7. ASSUME NEW vs \in valsets
          PROVE  vs.key <= h.key <=> vs.key <= cursor.valset \/ vs \in DueValsets
      <3>1. ~(vs.key <= cursor.valset) => vs.key > cursor.valset
        BY <2>6
      <3>2. vs.key <= cursor.valset => vs.key <= h.key
        BY <2>4, <2>6
      <3> QED
        BY <2>3, <2>5, <3>1, <3>2
    <2> QED
      BY <2>1, <2>6, <2>7
  <1> QED
    BY <1>1, <1>2

\* The cursor of the batches moves to the last block that is due.
LEMMA BatchCursor ==
    ASSUME TypeOK
    PROVE  /\ NextCursor.batch \in 0..(height - 1)
           /\ \A x \in DOMAIN batchIndex :
                 x <= NextCursor.batch => x <= cursor.batch \/ batchIndex[x] \in DueBatches
  <1>1. CASE DueBatches = {}
    BY <1>1 DEF NextCursor, TypeOK
  <1>2. CASE DueBatches # {}
    <2> DEFINE B == {b.block : b \in DueBatches}
    <2>1. B \subseteq Nat /\ B # {} /\ height \in Nat /\ \A x \in B : x <= height
      BY <1>2, Due DEF TypeOK, BatchItems
    <2>2. NextCursor.batch = Max(B)
      BY <1>2 DEF NextCursor
    <2>3. Max(B) \in B
      <3> HIDE DEF B
      <3> QED
        BY <2>1, MaxOfBounded
    <2>4. PICK b \in DueBatches : Max(B) = b.block
      BY <2>3
    <2>5. height > Max(B) + SignedBatchesWindow /\ Max(B) \in Nat
      BY <2>1, <2>3, <2>4, Due
    <2> HIDE DEF B
    <2>6. ASSUME NEW x \in DOMAIN batchIndex, x <= Max(B)
          PROVE  x <= cursor.batch \/ batchIndex[x] \in DueBatches
      <3>1. x \in Nat /\ cursor.batch \in Nat
        BY DEF TypeOK
      <3>2. height > x + SignedBatchesWindow
        BY <2>1, <2>5, <2>6, <3>1
      <3> QED
        BY <3>1, <3>2, Due
    <2> QED
      BY <2>1, <2>2, <2>5, <2>6
  <1> QED
    BY <1>1, <1>2

\* The EndBlocker: staking first, then the judgement, the new validator set
\* and the pruning.
LEMMA EndBlockerIInv ==
    ASSUME IInv, EndBlocker
    PROVE  IInv'
  <1> DEFINE r0(v) == [v |-> v, punished |-> punished,
                       unbonding |-> IF BeganUnbonding(v) THEN height ELSE unbonding]
             all(creates) == valsets \cup (IF creates THEN {Item("valset", latest + 1)} ELSE {})
  <1>1. PICK v \in StakingEndBlock, powerDiff \in BOOLEAN, o \in observed..latest,
             goneBatches \in SUBSET batches :
          LET r == slashing(r0(v))
              creates == createValsets(r, powerDiff)
          IN  /\ height < MaxHeight
              /\ validator' = r.v /\ unbonding' = r.unbonding /\ punished' = r.punished
              /\ judged' = judged \cup DueValsets \cup DueBatches \cup DueCalls
              /\ cursor' = NextCursor
              /\ observed' = o
              /\ DeleteBatches(goneBatches) /\ calls' \in SUBSET calls
              /\ latest' = IF creates THEN latest + 1 ELSE latest
              /\ valsets' = all(creates) \ pruneValsets(all(creates), o)
              /\ height' = height + 1
              /\ UNCHANGED <<confirms, built, shared>>
    BY DEF EndBlocker
  <1> DEFINE r == slashing(r0(v))
             creates == createValsets(r, powerDiff)
  <1>2. /\ TypeOK /\ height \in Nat \ {0} /\ latest \in Nat
        /\ \A vs \in valsets : /\ vs \in ValsetItems /\ vs.key \in 1..latest
                               /\ vs.block \in 1..(height - 1)
    BY DEF IInv, TypeOK
  <1>3. /\ v \in ValidatorStates /\ v.since <= height
        /\ v.state = "unbonding" => v = validator \/ v.since = height
    BY <1>2, StakingOutcome
  <1>4. PICK items \in SUBSET (DueValsets \cup DueBatches \cup DueCalls) :
          /\ Outcome(r0(v), r, items)
          /\ \A vs \in DueValsets \ confirms :
                /\ v.state = "unbonding" /\ v.start < vs.block
                /\ vs.block < v.since + UnbondSlashingValsetsWindow
                => vs \in items
    <2> DEFINE q == r0(v)
    <2>1. q.v = v
      OBVIOUS
    <2> HIDE DEF q
    <2>2. \E items \in SUBSET (DueValsets \cup DueBatches \cup DueCalls) :
             /\ Outcome(q, slashing(q), items)
             /\ \A vs \in DueValsets \ confirms :
                   /\ q.v.state = "unbonding" /\ q.v.start < vs.block
                   /\ vs.block < q.v.since + UnbondSlashingValsetsWindow
                   => vs \in items
      BY <1>2, <1>3, <2>1, SlashingOutcome
    <2> QED
      BY <2>1, <2>2 DEF q
  <1>5. /\ validator' \in ValidatorStates
        /\ validator'.state = v.state /\ validator'.start = v.start
        /\ validator'.since = v.since
        /\ unbonding' = r0(v).unbonding \/ unbonding' = height
        /\ punished' = punished \cup {[item |-> i, at |-> height] : i \in items}
    <2> HIDE DEF r
    <2> QED
      BY <1>1, <1>4 DEF Outcome, r
  <1>6. BeganUnbonding(v) => creates
    <2>1. BeganUnbonding(v) => unbonding' = height
      BY <1>5
    <2> QED
      BY <1>1, <2>1 DEF createValsets
  <1> HIDE DEF r, creates
  <1>7. /\ height' = height + 1 /\ observed' = o /\ cursor' = NextCursor
        /\ judged' = judged \cup DueValsets \cup DueBatches \cup DueCalls
        /\ latest' = IF creates THEN latest + 1 ELSE latest
        /\ valsets' = all(creates) \ pruneValsets(all(creates), o)
        /\ confirms' = confirms /\ shared' = shared
        /\ calls' \subseteq calls
    BY <1>1 DEF r, creates
  <1>8. /\ batches' = batches \ goneBatches
        /\ DOMAIN batchIndex' = DOMAIN batchIndex \ {b.block : b \in goneBatches}
        /\ \A x \in DOMAIN batchIndex' : batchIndex'[x] = batchIndex[x]
    BY <1>1 DEF DeleteBatches, Restrict
  <1>9. PICK new \in ValsetItems : /\ new = Item("valset", latest + 1)
                                   /\ new.key = latest + 1 /\ new.block = height
                                   /\ new.kind = "valset"
    <2> DEFINE n == Item("valset", latest + 1)
    <2>1. n \in ValsetItems /\ n.key = latest + 1 /\ n.block = height /\ n.kind = "valset"
      BY <1>2 DEF Item, ValsetItems
    <2> HIDE DEF n
    <2> QED
      BY <2>1 DEF n
  \* A validator set that is pruned has been judged, and the new one stays.
  <1>10. \A vs \in valsets' : vs \in valsets \/ (creates /\ vs = new)
    BY <1>7, <1>9
  <1>11. creates => new \in valsets'
    <2>1. new \notin pruneValsets(all(creates), o)
      BY <1>2, <1>9 DEF pruneValsets
    <2> QED
      BY <1>7, <1>9, <2>1
  <1>12. ASSUME NEW vs \in valsets, vs \notin valsets'
         PROVE  vs \in judged' /\ height >= vs.block + SignedValsetsWindow
    <2>1. vs \in pruneValsets(all(creates), o)
      BY <1>7, <1>12
    <2>2. vs.block < height - SignedValsetsWindow
      BY <2>1 DEF pruneValsets
    <2>3. height >= vs.block + SignedValsetsWindow
      BY <1>2, <2>2
    <2>4. vs.key <= cursor.valset \/ vs \in DueValsets
      BY <1>2, <2>3, Due DEF TypeOK
    <2>5. vs.key <= cursor.valset => vs \in judged
      BY DEF IInv, JudgedUpToCursor
    <2> QED
      BY <1>7, <2>3, <2>4, <2>5
  <1>13. /\ cursor'.valset \in 0..latest
         /\ \A vs \in valsets :
               vs.key <= cursor'.valset <=> vs.key <= cursor.valset \/ vs \in DueValsets
    BY <1>7, ValsetCursor DEF IInv
  <1>14. /\ cursor'.batch \in 0..(height - 1)
         /\ \A x \in DOMAIN batchIndex :
               x <= cursor'.batch => x <= cursor.batch \/ batchIndex[x] \in DueBatches
    BY <1>7, BatchCursor DEF IInv
  <1>15. TypeOK'
    <2>1. /\ height' \in Nat \ {0} /\ latest' \in Nat /\ observed' \in 0..latest'
          /\ cursor'.valset \in 0..latest' /\ cursor'.batch \in 0..(height' - 1)
      BY <1>2, <1>7, <1>13, <1>14 DEF TypeOK
    <2>2. /\ valsets' \subseteq ValsetItems
          /\ \A vs \in valsets' : vs.key \in 1..latest' /\ vs.block \in 1..(height' - 1)
      BY <1>2, <1>7, <1>9, <1>10
    <2>3. /\ batches' \subseteq BatchItems /\ \A b \in batches' : b.block \in 1..height'
          /\ calls' \subseteq CallItems /\ \A c \in calls' : c.block \in 0..height'
      BY <1>2, <1>7, <1>8 DEF TypeOK
    <2>4. /\ DOMAIN batchIndex' \subseteq 1..height'
          /\ \A x \in DOMAIN batchIndex' : batchIndex'[x] \in BatchItems /\ batchIndex'[x].block = x
      BY <1>2, <1>7, <1>8 DEF TypeOK
    <2>5. validator' \in ValidatorStates /\ validator'.since < height'
      BY <1>2, <1>3, <1>5, <1>7 DEF ValidatorStates
    <2>6. unbonding' \in Nat
      BY <1>2, <1>5 DEF TypeOK
    <2> QED
      BY <2>1, <2>2, <2>3, <2>4, <2>5, <2>6 DEF TypeOK
  <1>16. ValsetsInOrder'
    <2> SUFFICES ASSUME NEW vs \in valsets', NEW ws \in valsets', vs.key <= ws.key
                 PROVE  vs.block <= ws.block
      BY DEF ValsetsInOrder
    <2>1. CASE vs \in valsets /\ ws \in valsets
      BY <2>1 DEF IInv, ValsetsInOrder
    <2>2. CASE vs \in valsets /\ ws = new
      BY <1>2, <1>9, <2>2
    <2>3. CASE vs = new
      BY <1>2, <1>9, <1>10, <2>3
    <2> QED
      BY <1>10, <2>1, <2>2, <2>3
  <1>17. JudgedUpToCursor'
    <2>1. ASSUME NEW vs \in valsets', vs.key <= cursor'.valset
          PROVE  vs \in judged'
      <3>1. vs \in valsets
        BY <1>2, <1>9, <1>10, <1>13, <2>1
      <3>2. vs.key <= cursor.valset \/ vs \in DueValsets
        BY <1>13, <2>1, <3>1
      <3> QED
        BY <1>7, <3>1, <3>2 DEF IInv, JudgedUpToCursor
    <2>2. ASSUME NEW x \in DOMAIN batchIndex', x <= cursor'.batch
          PROVE  batchIndex'[x] \in judged'
      <3>1. x \in DOMAIN batchIndex /\ batchIndex'[x] = batchIndex[x]
        BY <1>8
      <3>2. x <= cursor.batch \/ batchIndex[x] \in DueBatches
        BY <1>14, <2>2, <3>1
      <3> QED
        BY <1>7, <3>1, <3>2 DEF IInv, JudgedUpToCursor
    <2> QED
      BY <2>1, <2>2 DEF JudgedUpToCursor
  <1>18. IndexFindsBatches'
    <2> SUFFICES ASSUME NEW b \in batches', b.block \notin shared'
                 PROVE  b.block \in DOMAIN batchIndex' /\ batchIndex'[b.block] = b
      BY DEF IndexFindsBatches
    <2>1. b \in batches /\ b.block \in DOMAIN batchIndex /\ batchIndex[b.block] = b
      BY <1>7, <1>8 DEF IInv, IndexFindsBatches
    <2>2. ASSUME NEW c \in goneBatches, c.block = b.block
          PROVE  FALSE
      <3>1. c \in batches /\ batchIndex[c.block] = c
        BY <1>7, <2>2 DEF IInv, IndexFindsBatches
      <3> QED
        BY <1>8, <2>1, <2>2, <3>1
    <2> QED
      BY <1>8, <2>1, <2>2
  <1>19. IndexIsJudged'
    <2> SUFFICES ASSUME NEW x \in DOMAIN batchIndex', height' > x + SignedBatchesWindow + 1
                 PROVE  batchIndex'[x] \in judged'
      BY DEF IndexIsJudged
    <2>1. x \in DOMAIN batchIndex /\ batchIndex'[x] = batchIndex[x]
      BY <1>8
    <2>2. x \in Nat /\ cursor.batch \in Nat
      BY <1>2, <2>1 DEF TypeOK
    <2>3. height > x + SignedBatchesWindow
      BY <1>2, <1>7, <2>2
    <2>4. x <= cursor.batch \/ batchIndex[x] \in DueBatches
      BY <1>2, <2>1, <2>2, <2>3, Due
    <2> QED
      BY <1>7, <2>1, <2>4 DEF IInv, JudgedUpToCursor
  <1>20. EveryValsetIsJudged'
    <2> SUFFICES ASSUME NEW n \in 1..latest'
                 PROVE  \E vs \in valsets' \cup judged' : vs.kind = "valset" /\ vs.key = n
      BY DEF EveryValsetIsJudged
    <2>1. CASE n \in 1..latest
      <3>1. PICK vs \in valsets \cup judged : vs.kind = "valset" /\ vs.key = n
        BY <2>1 DEF IInv, EveryValsetIsJudged
      <3>2. vs \in valsets' \cup judged'
        BY <1>7, <1>12
      <3> QED
        BY <3>1, <3>2
    <2>2. CASE n \notin 1..latest
      <3>1. creates /\ n = latest + 1
        BY <1>2, <1>7, <2>2
      <3> QED
        BY <1>9, <1>11, <3>1
    <2> QED
      BY <2>1, <2>2
  <1>21. WindowIsGranted'
    <2> SUFFICES ASSUME NEW p \in punished'
                 PROVE  /\ p.item.kind = "valset" => p.at >= p.item.block + SignedValsetsWindow
                        /\ p.item.kind = "batch" => p.at > p.item.block + SignedBatchesWindow
      BY DEF WindowIsGranted
    <2>1. CASE p \in punished
      BY <2>1 DEF IInv, WindowIsGranted
    <2>2. CASE p \notin punished
      <3>1. PICK i \in items : p = [item |-> i, at |-> height]
        BY <1>5, <2>2
      <3>2. p.item = i /\ p.at = height
        BY <3>1
      <3>3. CASE i \in DueValsets
        <4>1. i.kind = "valset" /\ height >= i.block + SignedValsetsWindow
          BY <1>2, <3>3, Due DEF ValsetItems
        <4> QED
          BY <3>2, <4>1
      <3>4. CASE i \in DueBatches
        <4>1. i.kind = "batch" /\ height > i.block + SignedBatchesWindow
          BY <1>2, <3>4, Due DEF BatchItems
        <4> QED
          BY <3>2, <4>1
      <3>5. CASE i \in DueCalls
        <4>1. i.kind = "call"
          BY <1>2, <3>5, Due DEF TypeOK, CallItems
        <4> QED
          BY <3>2, <4>1
      <3> QED
        BY <3>3, <3>4, <3>5
    <2> QED
      BY <2>1, <2>2
  <1>22. LeaverIsAsked'
    <2> SUFFICES ASSUME v.state = "unbonding"
                 PROVE  \E vs \in ValsetItems : vs.block = v.since /\ (StillOpen(vs)' \/ Settled(vs)')
      BY <1>5 DEF LeaverIsAsked
    \* It begins to leave: its set is the one that is created now.
    <2>1. CASE v.since = height
      <3>1. creates /\ new \in valsets'
        BY <1>6, <1>11, <2>1 DEF BeganUnbonding
      <3>2. new.key > cursor'.valset
        BY <1>2, <1>9, <1>13
      <3>3. StillOpen(new)'
        BY <1>2, <1>7, <1>9, <3>1, <3>2 DEF StillOpen
      <3> QED
        BY <1>9, <2>1, <3>3
    <2>2. CASE v.since # height
      <3>1. v = validator
        BY <1>3, <2>2
      <3>2. PICK vs \in ValsetItems : vs.block = v.since /\ (StillOpen(vs) \/ Settled(vs))
        BY <3>1 DEF IInv, LeaverIsAsked
      <3>3. CASE Settled(vs)
        <4>1. Settled(vs)'
          BY <1>5, <1>7, <3>1, <3>3 DEF Settled
        <4> QED
          BY <3>2, <4>1
      \* The window has not passed: the set is neither pruned nor passed over.
      <3>4. CASE StillOpen(vs) /\ vs \notin DueValsets
        <4>1. vs \in valsets /\ vs.key > cursor.valset
          BY <3>4 DEF StillOpen
        <4>2. ~(height >= vs.block + SignedValsetsWindow)
          BY <1>2, <3>4, <4>1, Due
        <4>3. vs \in valsets'
          BY <1>12, <4>1, <4>2
        <4>4. vs.key > cursor'.valset
          <5>1. ~(vs.key <= cursor'.valset)
            BY <1>2, <1>13, <3>4, <4>1 DEF TypeOK
          <5> QED
            BY <1>2, <1>13, <4>1, <5>1
        <4>5. height' <= vs.block + SignedValsetsWindow
          BY <1>2, <1>7, <4>1, <4>2
        <4> QED
          BY <3>2, <4>3, <4>4, <4>5 DEF StillOpen
      \* The window has passed: it is judged now.
      <3>5. CASE vs \in DueValsets
        <4>1. vs \in judged'
          BY <1>7, <3>5
        <4>2. vs.block < v.since + UnbondSlashingValsetsWindow
          BY <3>2 DEF ValsetItems
        <4>3. v.start >= vs.block \/ v.start < vs.block
          BY <1>3 DEF ValsetItems, ValidatorStates
        <4>4. vs \in confirms \/ vs \in items \/ v.start >= vs.block
          BY <1>4, <3>5, <4>2, <4>3
        <4>5. vs \in items => vs \in {p.item : p \in punished'}
          <5>1. vs \in items => [item |-> vs, at |-> height] \in punished'
            BY <1>5
          <5> QED
            BY <5>1
        <4>6. Settled(vs)'
          BY <1>5, <1>7, <4>1, <4>4, <4>5 DEF Settled
        <4> QED
          BY <3>2, <4>6
      <3> QED
        BY <3>2, <3>3, <3>4, <3>5
    <2> QED
      BY <2>1, <2>2
  <1> QED
    BY <1>15, <1>16, <1>17, <1>18, <1>19, <1>20, <1>21, <1>22 DEF IInv

LEMMA ChainStepIInv == IInv /\ [ChainNext]_<<chainVars, confirms>> => IInv'
  <1> SUFFICES ASSUME IInv, [ChainNext]_<<chainVars, confirms>>
               PROVE  IInv'
    OBVIOUS
  <1>1. CASE StoreBatch
    BY <1>1, StoreBatchIInv
  <1>2. CASE SetOutgoingLogicCall
    BY <1>2, SetOutgoingLogicCallIInv
  <1>3. CASE EndBlocker
    BY <1>3, EndBlockerIInv
  <1>4. CASE ReceiveConfirm
    BY <1>4, ConfirmIInv DEF ReceiveConfirm, ConfirmAll
  <1>5. CASE UNCHANGED <<chainVars, confirms>>
    BY <1>5, ConfirmIInv
  <1> QED
    BY <1>1, <1>2, <1>3, <1>4, <1>5 DEF ChainNext

-----------------------------------------------------------------------------
(* The theorems                                                            *)

LEMMA ChainIInv == ChainSpec => []IInv
  <1>1. InitChain => IInv
    BY InitIInv
  <1>2. IInv /\ [ChainNext]_<<chainVars, confirms>> => IInv'
    BY ChainStepIInv
  <1> QED
    BY <1>1, <1>2, PTL DEF ChainSpec

\* No validator set is pruned before ValsetSlashing has judged it, whatever the
\* windows are and whenever it is observed on Ethereum.
THEOREM ValsetsAreJudged == ChainSpec => []EveryValsetIsJudged
  <1>1. IInv => EveryValsetIsJudged
    BY DEF IInv
  <1> QED
    BY <1>1, ChainIInv, PTL

\* ValsetSlashing and BatchSlashing slash nobody before the window for signing
\* has passed.
THEOREM WindowsAreGranted == ChainSpec => []WindowIsGranted
  <1>1. IInv => WindowIsGranted
    BY DEF IInv
  <1> QED
    BY <1>1, ChainIInv, PTL

\* BatchSlashing reaches every batch that has the entry of its block in the
\* index to itself.
THEOREM BatchesAreJudged == ChainSpec => []EveryBatchIsJudged
  <1>1. IInv => EveryBatchIsJudged
    <2> SUFFICES ASSUME IInv, NEW b \in batches, b.block \notin shared,
                        height > b.block + SignedBatchesWindow + 1
                 PROVE  b \in judged
      BY DEF EveryBatchIsJudged
    <2>1. b.block \in DOMAIN batchIndex /\ batchIndex[b.block] = b
      BY DEF IInv, IndexFindsBatches
    <2> QED
      BY <2>1 DEF IInv, IndexIsJudged
  <1> QED
    BY <1>1, ChainIInv, PTL

\* A validator that leaves is held to the validator set without it: the set
\* that createValsets makes in the block of the unbonding.
THEOREM LeaversAreHeld == ChainSpec => []LeaversSignTheirRemoval
  <1>1. IInv => LeaversSignTheirRemoval
    <2> SUFFICES ASSUME IInv, validator.state = "unbonding",
                        height > validator.since + 1,
                        height > validator.since + SignedValsetsWindow
                 PROVE  \E vs \in judged :
                          /\ vs.kind = "valset" /\ vs.block = validator.since
                          /\ \/ vs \in confirms
                             \/ vs \in {p.item : p \in punished}
                             \/ validator.start >= vs.block
      BY DEF LeaversSignTheirRemoval
    <2>1. PICK vs \in ValsetItems :
            vs.block = validator.since /\ (StillOpen(vs) \/ Settled(vs))
      BY DEF IInv, LeaverIsAsked
    <2>2. ~StillOpen(vs)
      <3>1. height \in Nat /\ vs.block \in Nat
        BY DEF IInv, TypeOK, ValsetItems
      <3> QED
        BY <2>1, <3>1 DEF StillOpen
    <2>3. vs.kind = "valset"
      BY DEF ValsetItems
    <2> QED
      BY <2>1, <2>2, <2>3 DEF Settled
  <1> QED
    BY <1>1, ChainIInv, PTL
=============================================================================
