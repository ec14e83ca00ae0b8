---------------------------- MODULE Attestations ----------------------------
(***************************************************************************)
(* The Ethereum oracle of the Cosmos module x/nab: the orchestrator of     *)
(* every validator submits the events of Gravity.sol as claims, the votes  *)
(* are collected in attestations, and the EndBlocker applies an event once *)
(* validators with 66% of the power have claimed it.                       *)
(*                                                                         *)
(* Cosmos executes one block at a time: the messages of a block            *)
(* ("deliverTx") and then its EndBlocker ("tally"), in which no message is *)
(* executed; a restart happens "betweenBlocks".  The loop of               *)
(* attestationTally is one step per attestation that it observes.  A panic *)
(* in the EndBlocker stops the chain for good: "halted".                   *)
(***************************************************************************)
EXTENDS Integers, Sequences, FiniteSets, FiniteSetsExt

CONSTANTS Validators,   \* the validators that registered delegate keys
          Faulty,       \* the ones whose orchestrators may claim anything
          Claims,       \* the contents of an event, its block height included
          NoClaim,      \* not a claim
          Hashes,       \* what ClaimHash returns
          ClaimHash,    \* ClaimHash of each claim; not injective: that of a
                        \* BatchSendToEth claim leaves the block height out
          PowerMaps,    \* the power distributions that staking can produce
          MaxEvents,    \* bound: events the contract emits in a behaviour
          EventsToKeep  \* eventsToKeep of pruneAttestations (1000)

ASSUME ConstantsAssumption ==
    /\ IsFiniteSet(Validators)
    /\ Faulty \subseteq Validators
    /\ NoClaim \notin Claims
    /\ ClaimHash \in [Claims -> Hashes]
    /\ PowerMaps # {} /\ PowerMaps \subseteq [Validators -> Nat]
    /\ MaxEvents \in Nat
    /\ EventsToKeep \in Nat

Nonces == 1..MaxEvents
AttestationKeys == Nonces \X Hashes

VARIABLES
    ethLog,                    \* the events emitted so far, by event nonce
    votes,                     \* Votes of the attestation of a nonce and hash
    claim,                     \* its Claim, the one its first vote came with
    observed,                  \* the attestations with Observed = true
    lastObservedEventNonce,    \* LastObservedEventNonceKey, 0 when unset
    lastEventNonceByValidator, \* LastEventNonceByValidatorKey, 0 when unset
    power,                     \* GetLastValidatorPower, 0 when not bonded
    phase,                     \* part of the block being executed
    applied                    \* the claims given to processAttestation

vars == <<ethLog, votes, claim, observed, lastObservedEventNonce,
          lastEventNonceByValidator, power, phase, applied>>

attestations == <<votes, claim, observed>>

TypeOK ==
    /\ ethLog \in Seq(Claims) /\ Len(ethLog) <= MaxEvents
    /\ votes \in [AttestationKeys -> Seq(Validators)]
    /\ claim \in [AttestationKeys -> Claims \cup {NoClaim}]
    /\ observed \in SUBSET AttestationKeys
    /\ lastObservedEventNonce \in 0..MaxEvents
    /\ lastEventNonceByValidator \in [Validators -> 0..MaxEvents]
    /\ power \in PowerMaps
    /\ phase \in {"betweenBlocks", "deliverTx", "tally", "halted"}
    /\ applied \in Seq(Claims)

Init ==
    /\ ethLog = <<>>
    /\ votes = [k \in AttestationKeys |-> <<>>]
    /\ claim = [k \in AttestationKeys |-> NoClaim]
    /\ observed = {}
    /\ lastObservedEventNonce = 0
    /\ lastEventNonceByValidator = [v \in Validators |-> 0]
    /\ power \in PowerMaps
    /\ phase = "betweenBlocks"
    /\ applied = <<>>

-----------------------------------------------------------------------------
\* Ethereum: the contract emits its next event (event nonces are contiguous).
EmitEvent(c) ==
    /\ Len(ethLog) < MaxEvents
    /\ ethLog' = Append(ethLog, c)
    /\ UNCHANGED <<attestations, lastObservedEventNonce,
                   lastEventNonceByValidator, power, phase, applied>>

\* What a validator without a stored nonce starts from.
DefaultEventNonce ==
    IF lastObservedEventNonce >= 1 THEN lastObservedEventNonce - 1 ELSE 0

GetLastEventNonceByValidator(v) ==
    IF lastEventNonceByValidator[v] = 0 THEN DefaultEventNonce
                                        ELSE lastEventNonceByValidator[v]

\* Wrong variant of IsNextNonce: an earlier nonce is accepted again.
IsNotAhead(v, n) == n <= GetLastEventNonceByValidator(v) + 1

\* The nonce test of Attest.
IsNextNonce(v, n) == n = GetLastEventNonceByValidator(v) + 1

\* checkOrchestratorValidatorInSet
IsBonded(v) == power[v] > 0

\* What the orchestrator of v reports: an honest one only what happened.
MayClaim(v, n, c) ==
    v \in Faulty \/ (n <= Len(ethLog) /\ c = ethLog[n])

\* An attestation exists once it has a vote.  A new one stores the claim of
\* the vote, later votes leave it.
Attest(v, n, c) ==
    LET k == <<n, ClaimHash[c]>> IN
    /\ IsNextNonce(v, n)
    /\ votes' = [votes EXCEPT ![k] = Append(@, v)]
    /\ claim' = [claim EXCEPT ![k] = IF @ = NoClaim THEN c ELSE @]
    /\ lastEventNonceByValidator' =
           [lastEventNonceByValidator EXCEPT ![v] = n]
    /\ UNCHANGED observed

\* One of the claim messages: SendToCosmosClaim, BatchSendToEthClaim,
\* ERC20DeployedClaim, ValsetUpdateClaim, LogicCallExecutedClaim.
SubmitClaim(v, n, c) ==
    /\ phase \in {"betweenBlocks", "deliverTx"}
    /\ MayClaim(v, n, c)
    /\ IsBonded(v)
    /\ Attest(v, n, c)
    /\ phase' = "deliverTx"
    /\ UNCHANGED <<ethLog, lastObservedEventNonce, power, applied>>

-----------------------------------------------------------------------------
\* The EndBlocker.  The staking module's runs first and fixes the powers that
\* the tally of this block uses.
BeginEndBlock(p) ==
    /\ phase \in {"betweenBlocks", "deliverTx"}
    /\ power' = p
    /\ phase' = "tally"
    /\ UNCHANGED <<ethLog, attestations, lastObservedEventNonce,
                   lastEventNonceByValidator, applied>>

\* Wrong variant of RequiredPower: everybody.
RequiredAll(p) == MapThenSumSet(LAMBDA v : p[v], Validators)

RequiredPower(p) == (66 * MapThenSumSet(LAMBDA v : p[v], Validators)) \div 100

\* The votes are added up as they are listed: a validator that is listed twice
\* counts twice.
AttestationPower(p, voters) ==
    MapThenSumSet(LAMBDA i : p[voters[i]], DOMAIN voters)

\* Wrong variant of HasEnoughVotes: a third of the power is enough.
HasAThird(p, voters) ==
    voters # <<>> /\ 2 * AttestationPower(p, voters) >= RequiredPower(p)

HasEnoughVotes(p, voters) ==
    voters # <<>> /\ AttestationPower(p, voters) >= RequiredPower(p)

\* The attestations that the loop of attestationTally still has to act on:
\* next in line, and observed (a panic) or with enough votes.
Pending(n, h) ==
    /\ n = lastObservedEventNonce + 1
    /\ <<n, h>> \in observed \/ HasEnoughVotes(power, votes[<<n, h>>])

\* "attempting to process observed attestation"
TryAttestationPanics ==
    /\ phase' = "halted"
    /\ UNCHANGED <<attestations, lastObservedEventNonce, applied>>

\* Wrong variant of Observe: the observed nonce is not advanced.
ObserveWithoutNonce(n, h) ==
    /\ observed' = observed \cup {<<n, h>>}
    /\ applied' = Append(applied, claim[<<n, h>>])
    /\ UNCHANGED <<votes, claim, phase, lastObservedEventNonce>>

Observe(n, h) ==
    /\ lastObservedEventNonce' = n
    /\ observed' = observed \cup {<<n, h>>}
    /\ applied' = Append(applied, claim[<<n, h>>])
    /\ UNCHANGED <<votes, claim, phase>>

TryAttestation(n, h) ==
    /\ phase = "tally"
    /\ Pending(n, h)
    /\ IF <<n, h>> \in observed THEN TryAttestationPanics ELSE Observe(n, h)
    /\ UNCHANGED <<ethLog, lastEventNonceByValidator, power>>

\* Wrong variant of IsPruned: the last event of the window goes too.
IsPrunedTooFar(n) ==
    /\ lastObservedEventNonce > EventsToKeep
    /\ n <= lastObservedEventNonce - EventsToKeep

\* Nothing else passes: the loop ends, and what is older than the window of
\* recent events is deleted.
IsPruned(n) ==
    /\ lastObservedEventNonce > EventsToKeep
    /\ n < lastObservedEventNonce - EventsToKeep

FinishEndBlock ==
    /\ phase = "tally"
    /\ \A n \in Nonces, h \in Hashes : ~Pending(n, h)
    /\ votes' = [k \in AttestationKeys |->
                     IF IsPruned(k[1]) THEN <<>> ELSE votes[k]]
    /\ claim' = [k \in AttestationKeys |->
                     IF IsPruned(k[1]) THEN NoClaim ELSE claim[k]]
    /\ observed' = {k \in observed : ~IsPruned(k[1])}
    /\ phase' = "betweenBlocks"
    /\ UNCHANGED <<ethLog, lastObservedEventNonce, lastEventNonceByValidator,
                   power, applied>>

-----------------------------------------------------------------------------
\* The nonces v has voted at in the attestations of the store.
VotedNonces(v) ==
    {n \in Nonces : \E h \in Hashes :
        \E i \in DOMAIN votes[<<n, h>>] : votes[<<n, h>>][i] = v}

\* Wrong variant of ReconstructedNonce: the nonce that is voted on next.
ReconstructedNextNonce(v) ==
    LET above == {n \in VotedNonces(v) : n > DefaultEventNonce}
    IN  IF above = {} THEN 0 ELSE Max(above) + 1

\* InitGenesis keeps a nonce for a validator only when one of its votes is
\* above what a new validator would start from.
ReconstructedNonce(v) ==
    LET above == {n \in VotedNonces(v) : n > DefaultEventNonce}
    IN  IF above = {} THEN 0 ELSE Max(above)

\* The chain is exported between two blocks and restarted from the export:
\* attestations and the observed nonce survive, the nonces of the validators
\* are rebuilt from the votes.
RestartFromGenesis ==
    /\ phase = "betweenBlocks"
    /\ lastEventNonceByValidator' =
           [v \in Validators |-> ReconstructedNonce(v)]
    /\ UNCHANGED <<ethLog, attestations, lastObservedEventNonce, power, phase,
                   applied>>

Next ==
    \/ \E c \in Claims : EmitEvent(c)
    \/ \E v \in Validators, n \in Nonces, c \in Claims : SubmitClaim(v, n, c)
    \/ \E p \in PowerMaps : BeginEndBlock(p)
    \/ \E n \in Nonces, h \in Hashes : TryAttestation(n, h)
    \/ FinishEndBlock
    \/ RestartFromGenesis

Spec == Init /\ [][Next]_vars

\* The orchestrators of honest validators poll Ethereum and submit what they
\* have not claimed yet; consensus goes on producing blocks.  A claim can be
\* executed in the message part of a block only: that an orchestrator which
\* keeps retrying gets into one of the blocks is strong fairness.
FairSpec ==
    /\ Spec
    /\ \A v \in Validators \ Faulty :
           SF_vars(\E n \in Nonces, c \in Claims : SubmitClaim(v, n, c))
    /\ WF_vars(\E p \in PowerMaps : BeginEndBlock(p))
    /\ WF_vars(\E n \in Nonces, h \in Hashes : TryAttestation(n, h))
    /\ WF_vars(FinishEndBlock)

-----------------------------------------------------------------------------
\* No validator is counted twice at one event nonce: neither in the votes of
\* one attestation nor in two attestations of that nonce (Attest, and what
\* InitGenesis rebuilds after a restart).
NoDoubleVote ==
    \A n \in Nonces : \A h1, h2 \in Hashes :
        \A i \in DOMAIN votes[<<n, h1>>], j \in DOMAIN votes[<<n, h2>>] :
            votes[<<n, h1>>][i] = votes[<<n, h2>>][j] => h1 = h2 /\ i = j

\* The observed attestations of the store are the events that were applied:
\* one for every nonce of the window that pruneAttestations keeps, none for a
\* nonce that was not applied, never two at a nonce (TryAttestation).
ObservedIsApplied ==
    /\ Len(applied) = lastObservedEventNonce
    /\ \A k \in observed :
           /\ k[1] <= lastObservedEventNonce
           /\ k[2] = ClaimHash[applied[k[1]]]
           /\ claim[k] = applied[k[1]]
    /\ \A n \in 1..lastObservedEventNonce :
           n + EventsToKeep >= lastObservedEventNonce =>
               \E h \in Hashes : <<n, h>> \in observed

\* The stored nonces are at least what a validator has voted for, so that the
\* test of Attest can refuse a second vote (GetLastEventNonceByValidator).
VotesAreRemembered ==
    \A n \in Nonces, h \in Hashes :
        \A i \in DOMAIN votes[<<n, h>>] :
            n <= GetLastEventNonceByValidator(votes[<<n, h>>][i])

\* An attestation holds a claim, one of its own hash, from its first vote to
\* its deletion (Attest, DeleteAttestation).
ClaimIsStored ==
    \A k \in AttestationKeys :
        IF votes[k] = <<>> THEN claim[k] = NoClaim
                           ELSE claim[k] \in Claims /\ ClaimHash[claim[k]] = k[2]

\* The chain never halts in the tally: the EndBlocker is never given an
\* attestation that was observed before (the panic of TryAttestation).
NeverHalts == phase # "halted"

\* The faulty validators alone never have the power that the tally asks for.
FaultyAreFew ==
    \A p \in PowerMaps : MapThenSumSet(LAMBDA v : p[v], Faulty) < RequiredPower(p)

\* With the events seen through ClaimHash, the oracle is an in-order,
\* exactly-once delivery of what the contract emitted, whatever a few faulty
\* validators claim (Attest, attestationTally, TryAttestation).
HashesOf(claims) == [i \in DOMAIN claims |-> ClaimHash[claims[i]]]

Oracle == INSTANCE EventOracle WITH Claims <- Hashes,
                                    emitted <- HashesOf(ethLog),
                                    delivered <- HashesOf(applied)

DeliversEthereumEvents == Oracle!Spec

\* Every event the contract emits is applied in the end if the honest
\* validators stay bonded from some time on, although the faulty ones may claim
\* something else or nothing (attestationTally).
EveryEventIsApplied ==
    <>[](\A v \in Validators \ Faulty : IsBonded(v)) =>
        \A n \in Nonces : Len(ethLog) >= n ~> lastObservedEventNonce >= n
=============================================================================
