------------------------- MODULE AttestationsProofs -------------------------
(***************************************************************************)
(* The safety of the oracle for every set of validators, every power       *)
(* distribution and every number of events.  The proof of the invariant    *)
(* does not look into HasEnoughVotes: it holds whatever quorum the tally   *)
(* asks for.  That the oracle delivers what Gravity.sol emitted is another *)
(* matter: for it the faulty validators must have less power than that.    *)
(***************************************************************************)
EXTENDS Attestations, DataLemmas, TLAPS

\* The inductive invariant: the properties, and the two facts about the store
\* that they rest on.
IInv == /\ TypeOK
        /\ VotesAreRemembered
        /\ ClaimIsStored
        /\ NoDoubleVote
        /\ ObservedIsApplied
        /\ NeverHalts

USE ConstantsAssumption DEF Nonces, AttestationKeys

\* Init: there is no attestation, no nonce and no observed event yet.
LEMMA InitIInv == Init => IInv
  <1> SUFFICES ASSUME Init PROVE IInv
    OBVIOUS
  <1>1. TypeOK
    BY DEF Init, TypeOK
  <1>2. VotesAreRemembered /\ NoDoubleVote /\ ClaimIsStored
    BY DEF Init, VotesAreRemembered, NoDoubleVote, ClaimIsStored
  <1>3. ObservedIsApplied /\ NeverHalts
    BY DEF Init, ObservedIsApplied, NeverHalts
  <1> QED
    BY <1>1, <1>2, <1>3 DEF IInv

\* A step that leaves the store and the nonces alone keeps the invariant.
LEMMA StoreUnchangedIInv ==
    ASSUME IInv, TypeOK', NeverHalts',
           votes' = votes, claim' = claim, observed' = observed,
           lastObservedEventNonce' = lastObservedEventNonce,
           lastEventNonceByValidator' = lastEventNonceByValidator,
           applied' = applied
    PROVE  IInv'
  <1>1. VotesAreRemembered'
    BY DEF IInv, VotesAreRemembered, GetLastEventNonceByValidator,
        DefaultEventNonce
  <1>2. ClaimIsStored' /\ NoDoubleVote'
    BY DEF IInv, ClaimIsStored, NoDoubleVote
  <1>3. ObservedIsApplied'
    BY DEF IInv, ObservedIsApplied
  <1> QED
    BY <1>1, <1>2, <1>3 DEF IInv

\* EmitEvent changes nothing on Cosmos.
LEMMA EmitEventIInv ==
    ASSUME NEW c \in Claims, IInv, EmitEvent(c)
    PROVE  IInv'
  <1>1. TypeOK' /\ NeverHalts'
    BY DEF IInv, TypeOK, NeverHalts, EmitEvent, attestations
  <1> QED
    BY <1>1, StoreUnchangedIInv DEF EmitEvent, attestations

\* BeginEndBlock only changes the powers.
LEMMA BeginEndBlockIInv ==
    ASSUME NEW p \in PowerMaps, IInv, BeginEndBlock(p)
    PROVE  IInv'
  <1>1. TypeOK' /\ NeverHalts'
    BY DEF IInv, TypeOK, NeverHalts, BeginEndBlock, attestations
  <1> QED
    BY <1>1, StoreUnchangedIInv DEF BeginEndBlock, attestations

\* A claim message adds one vote at one key, for a nonce that its validator
\* has not voted at.
LEMMA SubmitClaimIInv ==
    ASSUME NEW v \in Validators, NEW n \in Nonces, NEW c \in Claims,
           IInv, SubmitClaim(v, n, c)
    PROVE  IInv'
  <1> DEFINE k == <<n, ClaimHash[c]>>
             last(w) == GetLastEventNonceByValidator(w)
  <1>1. k \in AttestationKeys
    OBVIOUS
  <1>2. TypeOK
    BY DEF IInv
  <1>3. n = last(v) + 1
    BY DEF SubmitClaim, Attest, IsNextNonce
  <1>4. /\ votes' = [votes EXCEPT ![k] = Append(@, v)]
        /\ claim' = [claim EXCEPT ![k] = IF @ = NoClaim THEN c ELSE @]
        /\ UNCHANGED <<observed, lastObservedEventNonce, applied>>
    BY DEF SubmitClaim, Attest
  <1>5. TypeOK'
    BY <1>1, <1>2, <1>4 DEF TypeOK, SubmitClaim, Attest
  <1>6. /\ last(v)' = n
        /\ \A w \in Validators \ {v} : last(w)' = last(w)
        /\ \A w \in Validators : last(w) \in Nat
    BY <1>2 DEF TypeOK, SubmitClaim, Attest, GetLastEventNonceByValidator,
        DefaultEventNonce
  <1>7. \A l \in AttestationKeys : l # k => /\ votes'[l] = votes[l]
                                           /\ claim'[l] = claim[l]
    BY <1>1, <1>2, <1>4 DEF TypeOK
  <1>8. /\ votes'[k] = Append(votes[k], v)
        /\ claim'[k] = IF claim[k] = NoClaim THEN c ELSE claim[k]
    BY <1>1, <1>2, <1>4 DEF TypeOK
  <1>9. \A l \in AttestationKeys : votes[l] \in Seq(Validators)
    BY <1>2 DEF TypeOK
  \* Every vote was there before, or is the new one.
  <1>10. ASSUME NEW m \in Nonces, NEW h \in Hashes,
                NEW i \in DOMAIN votes'[<<m, h>>]
         PROVE  \/ /\ i \in DOMAIN votes[<<m, h>>]
                   /\ votes'[<<m, h>>][i] = votes[<<m, h>>][i]
                \/ /\ <<m, h>> = k
                   /\ votes'[<<m, h>>][i] = v
                   /\ i = Len(votes[k]) + 1
    <2>1. CASE <<m, h>> = k
      <3>1. /\ DOMAIN votes[k] = 1..Len(votes[k])
            /\ Len(votes[k]) \in Nat
            /\ DOMAIN votes'[k] = 1..(Len(votes[k]) + 1)
        BY <1>1, <1>8, <1>9
      <3>2. /\ \A j \in 1..Len(votes[k]) : votes'[k][j] = votes[k][j]
            /\ votes'[k][Len(votes[k]) + 1] = v
        BY <1>1, <1>8, <1>9
      <3>3. votes[<<m, h>>] = votes[k] /\ votes'[<<m, h>>] = votes'[k]
        BY <2>1
      <3>4. i \in 1..Len(votes[k]) \/ i = Len(votes[k]) + 1
        BY <3>1, <3>3
      <3> QED
        BY <2>1, <3>1, <3>2, <3>3, <3>4
    <2>2. CASE <<m, h>> # k
      BY <1>7, <2>2
    <2> QED
      BY <2>1, <2>2
  <1>11. VotesAreRemembered'
    <2> SUFFICES ASSUME NEW m \in Nonces, NEW h \in Hashes,
                        NEW i \in DOMAIN votes'[<<m, h>>]
                 PROVE  m <= last(votes[<<m, h>>][i])'
      BY DEF VotesAreRemembered
    <2>1. CASE /\ i \in DOMAIN votes[<<m, h>>]
               /\ votes'[<<m, h>>][i] = votes[<<m, h>>][i]
      <3> DEFINE w == votes[<<m, h>>][i]
      <3>1. w \in Validators /\ m <= last(w)
        BY <1>9, <2>1 DEF IInv, VotesAreRemembered
      <3>2. CASE w = v
        BY <1>3, <1>6, <2>1, <3>1, <3>2 DEF GetLastEventNonceByValidator
      <3>3. CASE w # v
        BY <1>6, <2>1, <3>1, <3>3 DEF GetLastEventNonceByValidator
      <3> QED
        BY <3>2, <3>3
    <2>2. CASE <<m, h>> = k /\ votes'[<<m, h>>][i] = v
      BY <1>6, <2>2 DEF GetLastEventNonceByValidator
    <2> QED
      BY <1>10, <2>1, <2>2
  <1>12. ClaimIsStored'
    <2> SUFFICES ASSUME NEW l \in AttestationKeys
                 PROVE  IF votes'[l] = <<>>
                        THEN claim'[l] = NoClaim
                        ELSE claim'[l] \in Claims /\ ClaimHash[claim'[l]] = l[2]
      BY DEF ClaimIsStored
    <2>1. CASE l = k
      <3>1. votes'[k] # <<>>
        <4>1. Len(votes'[k]) = Len(votes[k]) + 1 /\ Len(votes[k]) \in Nat
          BY <1>1, <1>8, <1>9
        <4> QED
          BY <4>1
      <3> QED
        BY <1>1, <1>8, <2>1, <3>1 DEF IInv, ClaimIsStored
    <2>2. CASE l # k
      BY <1>7, <2>2 DEF IInv, ClaimIsStored
    <2> QED
      BY <2>1, <2>2
  <1>13. NoDoubleVote'
    <2> SUFFICES ASSUME NEW m \in Nonces, NEW h1 \in Hashes, NEW h2 \in Hashes,
                        NEW i \in DOMAIN votes'[<<m, h1>>],
                        NEW j \in DOMAIN votes'[<<m, h2>>],
                        votes'[<<m, h1>>][i] = votes'[<<m, h2>>][j]
                 PROVE  h1 = h2 /\ i = j
      BY DEF NoDoubleVote
    <2>1. \A h \in Hashes : \A o \in DOMAIN votes[<<n, h>>] :
              votes[<<n, h>>][o] # v
      BY <1>3, <1>6 DEF IInv, VotesAreRemembered
    <2> QED
      BY <1>10, <2>1 DEF IInv, NoDoubleVote
  <1>14. ObservedIsApplied'
    <2>1. ASSUME NEW l \in observed
          PROVE  claim'[l] = claim[l]
      <3>1. l \in AttestationKeys /\ claim[l] = applied[l[1]]
        BY <1>2 DEF IInv, ObservedIsApplied, TypeOK
      <3>2. claim[l] # NoClaim
        BY <1>2, <3>1 DEF IInv, ObservedIsApplied, TypeOK
      <3> QED
        BY <1>7, <1>8, <3>1, <3>2
    <2> QED
      BY <1>4, <2>1 DEF IInv, ObservedIsApplied
  <1> QED
    BY <1>5, <1>11, <1>12, <1>13, <1>14 DEF IInv, NeverHalts, SubmitClaim

\* The tally observes the next event in line: it cannot have been observed
\* before, so the panic is not reached.
LEMMA TryAttestationIInv ==
    ASSUME NEW n \in Nonces, NEW h \in Hashes, IInv, TryAttestation(n, h)
    PROVE  IInv'
  <1> DEFINE k == <<n, h>>
             last(w) == GetLastEventNonceByValidator(w)
  <1>1. TypeOK
    BY DEF IInv
  <1>2. n = lastObservedEventNonce + 1
    BY DEF TryAttestation, Pending
  <1>3. k \notin observed
    BY <1>1, <1>2 DEF IInv, ObservedIsApplied, TypeOK
  <1>4. votes[k] # <<>>
    BY <1>3 DEF TryAttestation, Pending, HasEnoughVotes
  <1>5. claim[k] \in Claims /\ ClaimHash[claim[k]] = h
    BY <1>4 DEF IInv, ClaimIsStored
  <1>6. /\ lastObservedEventNonce' = n
        /\ observed' = observed \cup {k}
        /\ applied' = Append(applied, claim[k])
        /\ UNCHANGED <<votes, claim, lastEventNonceByValidator, phase>>
    BY <1>3 DEF TryAttestation, Observe
  <1>7. TypeOK' /\ NeverHalts'
    BY <1>1, <1>5, <1>6 DEF IInv, TypeOK, NeverHalts, TryAttestation
  <1>8. VotesAreRemembered'
    <2>1. /\ votes' = votes
          /\ lastEventNonceByValidator' = lastEventNonceByValidator
      BY <1>6
    <2>2. /\ lastObservedEventNonce \in Nat
          /\ \A w \in Validators : lastEventNonceByValidator[w] \in Nat
          /\ \A l \in AttestationKeys : votes[l] \in Seq(Validators)
      BY <1>1 DEF TypeOK
    <2> SUFFICES ASSUME NEW m \in Nonces, NEW g \in Hashes,
                        NEW i \in DOMAIN votes'[<<m, g>>]
                 PROVE  m <= GetLastEventNonceByValidator(votes[<<m, g>>][i])'
      BY DEF VotesAreRemembered
    <2> DEFINE w == votes[<<m, g>>][i]
    <2>3. i \in DOMAIN votes[<<m, g>>] /\ w \in Validators
      BY <2>1, <2>2
    <2>4. m <= GetLastEventNonceByValidator(w)
      BY <2>3 DEF IInv, VotesAreRemembered
    <2>5. CASE lastEventNonceByValidator[w] = 0
      <3>1. m <= DefaultEventNonce
        BY <2>4, <2>5 DEF GetLastEventNonceByValidator
      <3>2. m <= DefaultEventNonce'
        BY <1>2, <1>6, <2>2, <3>1 DEF DefaultEventNonce
      <3> QED
        BY <2>1, <2>5, <3>2 DEF GetLastEventNonceByValidator
    <2>6. CASE lastEventNonceByValidator[w] # 0
      BY <2>1, <2>4, <2>6 DEF GetLastEventNonceByValidator
    <2> QED
      BY <2>5, <2>6
  <1>9. ClaimIsStored' /\ NoDoubleVote'
    <2>1. votes' = votes /\ claim' = claim
      BY <1>6
    <2>2. ClaimIsStored'
      BY <2>1 DEF IInv, ClaimIsStored
    <2>3. NoDoubleVote'
      BY <2>1 DEF IInv, NoDoubleVote
    <2> QED
      BY <2>2, <2>3
  <1>10. ObservedIsApplied'
    <2>1. /\ Len(applied) = lastObservedEventNonce
          /\ applied \in Seq(Claims)
      BY <1>1 DEF IInv, ObservedIsApplied, TypeOK
    <2>2. /\ Len(applied') = n
          /\ applied'[n] = claim[k]
          /\ \A m \in 1..lastObservedEventNonce : applied'[m] = applied[m]
      BY <1>2, <1>5, <1>6, <2>1
    <2>3. ASSUME NEW l \in observed'
          PROVE  /\ l[1] <= n
                 /\ l[2] = ClaimHash[applied'[l[1]]]
                 /\ claim'[l] = applied'[l[1]]
      <3>1. CASE l = k
        BY <1>5, <1>6, <2>2, <3>1
      <3>2. CASE l \in observed
        <4>1. /\ l[1] \in 1..lastObservedEventNonce
              /\ l[2] = ClaimHash[applied[l[1]]]
              /\ claim[l] = applied[l[1]]
          BY <1>1, <3>2 DEF IInv, ObservedIsApplied, TypeOK
        <4> QED
          BY <1>1, <1>2, <1>6, <2>2, <4>1 DEF TypeOK
      <3> QED
        BY <1>6, <3>1, <3>2
    <2>4. ASSUME NEW m \in 1..n, m + EventsToKeep >= n
          PROVE  \E g \in Hashes : <<m, g>> \in observed'
      <3>1. CASE m = n
        BY <1>6, <3>1
      <3>2. CASE m # n
        <4>1. /\ m \in 1..lastObservedEventNonce
              /\ m + EventsToKeep >= lastObservedEventNonce
          BY <1>1, <1>2, <2>4, <3>2 DEF TypeOK
        <4> QED
          BY <1>6, <4>1 DEF IInv, ObservedIsApplied
      <3> QED
        BY <3>1, <3>2
    <2> QED
      BY <1>6, <2>2, <2>3, <2>4 DEF ObservedIsApplied
  <1> QED
    BY <1>7, <1>8, <1>9, <1>10 DEF IInv

\* Pruning deletes whole attestations, and none of the window it keeps.
LEMMA FinishEndBlockIInv ==
    ASSUME IInv, FinishEndBlock
    PROVE  IInv'
  <1>1. TypeOK
    BY DEF IInv
  <1>2. /\ votes' = [k \in AttestationKeys |->
                        IF IsPruned(k[1]) THEN <<>> ELSE votes[k]]
        /\ claim' = [k \in AttestationKeys |->
                        IF IsPruned(k[1]) THEN NoClaim ELSE claim[k]]
        /\ observed' = {k \in observed : ~IsPruned(k[1])}
        /\ UNCHANGED <<lastObservedEventNonce, lastEventNonceByValidator,
                       applied>>
    BY DEF FinishEndBlock
  <1>3. TypeOK' /\ NeverHalts'
    BY <1>1, <1>2 DEF TypeOK, NeverHalts, FinishEndBlock
  <1>4. \A k \in AttestationKeys :
            \/ votes'[k] = <<>> /\ claim'[k] = NoClaim
            \/ votes'[k] = votes[k] /\ claim'[k] = claim[k]
    BY <1>2
  <1>5. \A k \in AttestationKeys : \A i \in DOMAIN votes'[k] :
            votes'[k] = votes[k]
    BY <1>4
  <1>6. VotesAreRemembered'
    <2> SUFFICES ASSUME NEW m \in Nonces, NEW h \in Hashes,
                        NEW i \in DOMAIN votes'[<<m, h>>]
                 PROVE  m <= GetLastEventNonceByValidator(votes[<<m, h>>][i])'
      BY DEF VotesAreRemembered
    <2>1. votes'[<<m, h>>] = votes[<<m, h>>]
      BY <1>5
    <2> QED
      BY <1>2, <2>1 DEF IInv, VotesAreRemembered,
          GetLastEventNonceByValidator, DefaultEventNonce
  <1>7. ClaimIsStored'
    BY <1>4 DEF IInv, ClaimIsStored
  <1>8. NoDoubleVote'
    BY <1>5 DEF IInv, NoDoubleVote
  <1>9. ObservedIsApplied'
    <2>1. \A k \in observed' : k \in observed /\ claim'[k] = claim[k]
      BY <1>1, <1>2 DEF TypeOK
    <2>2. \A n \in 1..lastObservedEventNonce :
              n + EventsToKeep >= lastObservedEventNonce => ~IsPruned(n)
      BY <1>1 DEF IsPruned, TypeOK
    <2> QED
      BY <1>2, <2>1, <2>2 DEF IInv, ObservedIsApplied
  <1> QED
    BY <1>3, <1>6, <1>7, <1>8, <1>9 DEF IInv

\* The largest of some nonces is one of them and at least each of them.
LEMMA MaxOfNonces ==
    ASSUME NEW S, S \subseteq Nonces, S # {}
    PROVE  Max(S) \in S /\ \A x \in S : x <= Max(S)
  <1>1. S \subseteq Nat /\ MaxEvents \in Nat /\ \A x \in S : x <= MaxEvents
    OBVIOUS
  <1> QED
    BY ONLY <1>1, S # {}, MaxOfBounded

\* A restart rebuilds the nonces from the votes that are still stored, and
\* those votes are all that the invariant speaks about.
LEMMA RestartFromGenesisIInv ==
    ASSUME IInv, RestartFromGenesis
    PROVE  IInv'
  <1>1. TypeOK
    BY DEF IInv
  <1>2. /\ votes' = votes /\ claim' = claim /\ observed' = observed
        /\ lastObservedEventNonce' = lastObservedEventNonce
        /\ applied' = applied /\ ethLog' = ethLog
        /\ power' = power /\ phase' = phase
        /\ lastEventNonceByValidator' =
               [v \in Validators |-> ReconstructedNonce(v)]
    BY DEF RestartFromGenesis, attestations
  <1>3. DefaultEventNonce \in Nat /\ DefaultEventNonce' = DefaultEventNonce
    BY <1>1, <1>2 DEF TypeOK, DefaultEventNonce
  <1>4. ASSUME NEW v \in Validators
        PROVE  /\ ReconstructedNonce(v) \in 0..MaxEvents
               /\ \A n \in VotedNonces(v) :
                      \/ n <= DefaultEventNonce
                      \/ n <= ReconstructedNonce(v)
               /\ \/ ReconstructedNonce(v) = 0
                  \/ ReconstructedNonce(v) > DefaultEventNonce
    <2> DEFINE above == {n \in VotedNonces(v) : n > DefaultEventNonce}
    <2>1. above \subseteq Nonces /\ VotedNonces(v) \subseteq Nonces
      BY DEF VotedNonces
    <2>2. ReconstructedNonce(v) = IF above = {} THEN 0 ELSE Max(above)
      BY DEF ReconstructedNonce
    <2>3. CASE above = {}
      BY <1>3, <2>1, <2>2, <2>3
    <2>4. CASE above # {}
      <3>1. Max(above) \in above /\ \A x \in above : x <= Max(above)
        <4> HIDE DEF above
        <4> QED
          BY <2>1, <2>4, MaxOfNonces
      <3> QED
        BY <1>3, <2>1, <2>2, <2>4, <3>1
    <2> QED
      BY <2>3, <2>4
  <1>5. TypeOK'
    <2>1. lastEventNonceByValidator' \in [Validators -> 0..MaxEvents]
      BY <1>2, <1>4
    <2> QED
      BY <1>1, <1>2, <2>1 DEF TypeOK
  <1>6. VotesAreRemembered'
    <2> SUFFICES ASSUME NEW m \in Nonces, NEW g \in Hashes,
                        NEW i \in DOMAIN votes'[<<m, g>>]
                 PROVE  m <= GetLastEventNonceByValidator(votes[<<m, g>>][i])'
      BY DEF VotesAreRemembered
    <2> DEFINE w == votes[<<m, g>>][i]
    <2>1. i \in DOMAIN votes[<<m, g>>] /\ w \in Validators
      BY <1>1, <1>2 DEF TypeOK
    <2>2. m \in VotedNonces(w)
      BY <2>1 DEF VotedNonces
    <2>3. lastEventNonceByValidator'[w] = ReconstructedNonce(w)
      BY <1>2, <2>1
    <2>4. CASE ReconstructedNonce(w) = 0
      <3>1. m <= DefaultEventNonce
        BY <1>3, <1>4, <2>1, <2>2, <2>4
      <3> QED
        BY <1>2, <1>3, <2>3, <2>4, <3>1 DEF GetLastEventNonceByValidator
    <2>5. CASE ReconstructedNonce(w) # 0
      <3>1. m <= ReconstructedNonce(w)
        BY <1>3, <1>4, <2>1, <2>2, <2>5
      <3> QED
        BY <1>2, <2>3, <2>5, <3>1 DEF GetLastEventNonceByValidator
    <2> QED
      BY <2>4, <2>5
  <1>7. ClaimIsStored' /\ NoDoubleVote'
    BY <1>2 DEF IInv, ClaimIsStored, NoDoubleVote
  <1>8. ObservedIsApplied' /\ NeverHalts'
    BY <1>2 DEF IInv, ObservedIsApplied, NeverHalts
  <1> QED
    BY <1>5, <1>6, <1>7, <1>8 DEF IInv

\* Every step of the oracle keeps the invariant.
LEMMA NextIInv == IInv /\ [Next]_vars => IInv'
  <1> SUFFICES ASSUME IInv, [Next]_vars PROVE IInv'
    OBVIOUS
  <1>1. CASE \E c \in Claims : EmitEvent(c)
    BY <1>1, EmitEventIInv
  <1>2. CASE \E v \in Validators, n \in Nonces, c \in Claims :
                 SubmitClaim(v, n, c)
    BY <1>2, SubmitClaimIInv
  <1>3. CASE \E p \in PowerMaps : BeginEndBlock(p)
    BY <1>3, BeginEndBlockIInv
  <1>4. CASE \E n \in Nonces, h \in Hashes : TryAttestation(n, h)
    BY <1>4, TryAttestationIInv
  <1>5. CASE FinishEndBlock
    BY <1>5, FinishEndBlockIInv
  <1>6. CASE RestartFromGenesis
    BY <1>6, RestartFromGenesisIInv
  <1>7. CASE UNCHANGED vars
    <2>1. TypeOK' /\ NeverHalts'
      BY <1>7 DEF IInv, TypeOK, NeverHalts, vars
    <2> QED
      BY <1>7, <2>1, StoreUnchangedIInv DEF vars
  <1> QED
    BY <1>1, <1>2, <1>3, <1>4, <1>5, <1>6, <1>7 DEF Next

\* The inductive invariant holds in every reachable state.
THEOREM InvariantHolds == Spec => []IInv
  BY InitIInv, NextIInv, PTL DEF Spec

\* The variables keep their types (the state that x/nab stores).
THEOREM TypeCorrect == Spec => []TypeOK
  <1>1. IInv => TypeOK
    BY DEF IInv
  <1> QED
    BY <1>1, InvariantHolds, PTL

\* No validator is ever counted twice at one event nonce, restarts from an
\* exported genesis included (Attest, InitGenesis).
THEOREM NobodyVotesTwice == Spec => []NoDoubleVote
  <1>1. IInv => NoDoubleVote
    BY DEF IInv
  <1> QED
    BY <1>1, InvariantHolds, PTL

\* The observed attestations are exactly the applied events of the window
\* that pruning keeps (TryAttestation, pruneAttestations).
THEOREM AppliedOnceInOrder == Spec => []ObservedIsApplied
  <1>1. IInv => ObservedIsApplied
    BY DEF IInv
  <1> QED
    BY <1>1, InvariantHolds, PTL

\* The panic of TryAttestation is never reached.
THEOREM ChainNeverHalts == Spec => []NeverHalts
  <1>1. IInv => NeverHalts
    BY DEF IInv
  <1> QED
    BY <1>1, InvariantHolds, PTL

-----------------------------------------------------------------------------
(* The oracle implements EventOracle. *)

\* The vote of an honest validator is for the event that the contract emitted.
HonestVotesAreTrue ==
    \A n \in Nonces, h \in Hashes : \A i \in DOMAIN votes[<<n, h>>] :
        \/ votes[<<n, h>>][i] \in Faulty
        \/ n <= Len(ethLog) /\ ClaimHash[ethLog[n]] = h

\* A vote is never for an event to come, so that a longer log keeps this.
LEMMA EmitEventKeepsVotes ==
    ASSUME NEW c \in Claims, IInv, HonestVotesAreTrue, EmitEvent(c)
    PROVE  HonestVotesAreTrue'
  <1>1. ethLog \in Seq(Claims) /\ ethLog' = Append(ethLog, c) /\ votes' = votes
    BY DEF IInv, TypeOK, EmitEvent, attestations
  <1>2. \A n \in Nonces : n <= Len(ethLog) => n <= Len(ethLog') /\ ethLog'[n] = ethLog[n]
    BY <1>1
  <1> SUFFICES ASSUME NEW n \in Nonces, NEW h \in Hashes, NEW i \in DOMAIN votes[<<n, h>>]
               PROVE  \/ votes[<<n, h>>][i] \in Faulty
                      \/ n <= Len(ethLog') /\ ClaimHash[ethLog'[n]] = h
    BY <1>1 DEF HonestVotesAreTrue
  <1>3. \/ votes[<<n, h>>][i] \in Faulty
        \/ n <= Len(ethLog) /\ ClaimHash[ethLog[n]] = h
    BY DEF HonestVotesAreTrue
  <1> QED
    BY <1>2, <1>3

\* The new vote of SubmitClaim is one that MayClaim allows.
LEMMA SubmitClaimKeepsVotes ==
    ASSUME NEW v \in Validators, NEW n \in Nonces, NEW c \in Claims,
           IInv, HonestVotesAreTrue, SubmitClaim(v, n, c)
    PROVE  HonestVotesAreTrue'
  <1> DEFINE k == <<n, ClaimHash[c]>>
  <1>1. /\ k \in AttestationKeys /\ ethLog' = ethLog
        /\ votes \in [AttestationKeys -> Seq(Validators)]
        /\ votes' = [votes EXCEPT ![k] = Append(@, v)]
        /\ v \in Faulty \/ (n <= Len(ethLog) /\ c = ethLog[n])
    BY DEF IInv, TypeOK, SubmitClaim, Attest, MayClaim
  <1> SUFFICES ASSUME NEW m \in Nonces, NEW h \in Hashes, NEW i \in DOMAIN votes'[<<m, h>>]
               PROVE  \/ votes'[<<m, h>>][i] \in Faulty
                      \/ m <= Len(ethLog) /\ ClaimHash[ethLog[m]] = h
    BY <1>1 DEF HonestVotesAreTrue
  <1>2. <<m, h>> \in AttestationKeys
    OBVIOUS
  <1>3. CASE <<m, h>> # k
    <2>1. votes'[<<m, h>>] = votes[<<m, h>>]
      BY <1>1, <1>2, <1>3
    <2> QED
      BY <2>1 DEF HonestVotesAreTrue
  <1>4. CASE <<m, h>> = k
    <2>1. votes[<<m, h>>] \in Seq(Validators) /\ votes'[<<m, h>>] = Append(votes[<<m, h>>], v)
          /\ m = n /\ h = ClaimHash[c]
      BY <1>1, <1>2, <1>4
    <2>2. \/ i \in DOMAIN votes[<<m, h>>] /\ votes'[<<m, h>>][i] = votes[<<m, h>>][i]
          \/ votes'[<<m, h>>][i] = v
      BY <2>1
    <2>3. CASE i \in DOMAIN votes[<<m, h>>] /\ votes'[<<m, h>>][i] = votes[<<m, h>>][i]
      BY <2>3 DEF HonestVotesAreTrue
    <2>4. CASE votes'[<<m, h>>][i] = v
      BY <1>1, <2>1, <2>4
    <2> QED
      BY <2>2, <2>3, <2>4
  <1> QED
    BY <1>3, <1>4

LEMMA NextKeepsVotes == IInv /\ HonestVotesAreTrue /\ [Next]_vars => HonestVotesAreTrue'
  <1> SUFFICES ASSUME IInv, HonestVotesAreTrue, [Next]_vars PROVE HonestVotesAreTrue'
    OBVIOUS
  <1>1. CASE \E c \in Claims : EmitEvent(c)
    BY <1>1, EmitEventKeepsVotes
  <1>2. CASE \E v \in Validators, n \in Nonces, c \in Claims : SubmitClaim(v, n, c)
    BY <1>2, SubmitClaimKeepsVotes
  <1>3. CASE votes' = votes /\ ethLog' = ethLog
    BY <1>3 DEF HonestVotesAreTrue
  <1>4. CASE FinishEndBlock
    <2>1. /\ ethLog' = ethLog
          /\ votes' = [k \in AttestationKeys |-> IF IsPruned(k[1]) THEN <<>> ELSE votes[k]]
      BY <1>4 DEF FinishEndBlock
    <2>2. ASSUME NEW m \in Nonces, NEW h \in Hashes
          PROVE  votes'[<<m, h>>] = <<>> \/ votes'[<<m, h>>] = votes[<<m, h>>]
      BY <2>1
    <2>3. DOMAIN <<>> = {}
      OBVIOUS
    <2> QED
      BY <2>1, <2>2, <2>3 DEF HonestVotesAreTrue
  <1>5. CASE \E p \in PowerMaps : BeginEndBlock(p)
    BY <1>3, <1>5 DEF BeginEndBlock, attestations
  <1>6. CASE \E n \in Nonces, h \in Hashes : TryAttestation(n, h)
    BY <1>3, <1>6 DEF TryAttestation, TryAttestationPanics, Observe, attestations
  <1>7. CASE RestartFromGenesis
    BY <1>3, <1>7 DEF RestartFromGenesis, attestations
  <1>8. CASE UNCHANGED vars
    BY <1>3, <1>8 DEF vars
  <1> QED
    BY <1>1, <1>2, <1>4, <1>5, <1>6, <1>7, <1>8 DEF Next

\* The votes of an attestation are of different validators, so that their power
\* is a sum over validators.
LEMMA AttestationPowerIsSum ==
    ASSUME NEW p, NEW voters, NEW S, S = DOMAIN voters
    PROVE  AttestationPower(p, voters) = SumOf([i \in S |-> p[voters[i]]], S)
  <1>1. AttestationPower(p, voters) = MapThenSumSet(LAMBDA i : p[voters[i]], S)
    BY ONLY S = DOMAIN voters DEF AttestationPower
  <1>2. MapThenSumSet(LAMBDA i : p[voters[i]], S) = SumOf([i \in S |-> p[voters[i]]], S)
    BY ONLY TRUE DEF SumOf, MapThenSumSet, MapThenFoldSet
  <1> QED
    BY ONLY <1>1, <1>2

LEMMA RequiredPowerIsNat ==
    ASSUME NEW p \in [Validators -> Nat]
    PROVE  RequiredPower(p) \in Nat
  <1>1. RequiredPower(p) = (66 * SumOf(p, Validators)) \div 100
    BY DEF RequiredPower, SumOf
  <1>2. SumOf(p, Validators) \in Nat
    BY SumNat
  <1> QED
    BY <1>1, <1>2

\* An attestation that has the votes has an honest one.
LEMMA QuorumHasAnHonestVote ==
    ASSUME FaultyAreFew, NEW p \in PowerMaps, NEW voters \in Seq(Validators),
           \A i, j \in DOMAIN voters : voters[i] = voters[j] => i = j,
           HasEnoughVotes(p, voters)
    PROVE  \E i \in DOMAIN voters : voters[i] \notin Faulty
  <1> SUFFICES ASSUME \A i \in DOMAIN voters : voters[i] \in Faulty PROVE FALSE
    OBVIOUS
  <1>1. PICK h : h = [i \in DOMAIN voters |-> p[voters[i]]]
    OBVIOUS
  <1>2. PICK S : S = DOMAIN voters
    OBVIOUS
  <1>3. PICK T : T = {voters[i] : i \in S}
    OBVIOUS
  <1>4. IsFiniteSet(S)
    <2>1. DOMAIN voters = 1..Len(voters) /\ Len(voters) \in Nat
      OBVIOUS
    <2> QED
      BY <1>2, <2>1, FS_Interval
  <1>5. IsFiniteSet(Faulty) /\ p \in [Validators -> Nat] /\ Faulty \subseteq Validators
    BY FS_Subset
  <1>6. /\ \A x \in S : voters[x] \in Faulty /\ h[x] = p[voters[x]]
        /\ \A x, y \in S : voters[x] = voters[y] => x = y
        /\ \A z \in Faulty : p[z] \in Nat
        /\ \A z \in Faulty : p[z] \in Int
    BY <1>1, <1>2, <1>5
  <1>7. SumOf(h, S) = SumOf(p, {voters[x] : x \in S})
    BY ONLY <1>4, <1>5, <1>6, SumImage
  <1>8. T \in SUBSET Faulty
    BY <1>3, <1>6
  <1>9. SumOf(p, T) <= SumOf(p, Faulty)
    BY ONLY <1>5, <1>6, <1>8, SumSubset
  <1>10. SumOf(p, T) \in Nat /\ SumOf(p, Faulty) \in Nat
    <2>1. IsFiniteSet(T) /\ \A z \in T : p[z] \in Nat
      BY <1>5, <1>6, <1>8, FS_Subset
    <2> QED
      BY <1>5, <1>6, <2>1, SumNat
  <1>11. AttestationPower(p, voters) = SumOf(p, T)
    <2>1. AttestationPower(p, voters) = SumOf([i \in S |-> p[voters[i]]], S)
      BY ONLY <1>2, AttestationPowerIsSum
    <2> QED
      BY <1>1, <1>2, <1>3, <1>7, <2>1
  <1>12. AttestationPower(p, voters) >= RequiredPower(p)
    BY DEF HasEnoughVotes
  <1>13. SumOf(p, Faulty) < RequiredPower(p)
    BY DEF FaultyAreFew, SumOf
  <1>14. RequiredPower(p) \in Nat
    BY <1>5, RequiredPowerIsNat
  <1> QED
    BY ONLY <1>9, <1>10, <1>11, <1>12, <1>13, <1>14

\* A step of the tally delivers the next event of the contract.
LEMMA TryAttestationDelivers ==
    ASSUME FaultyAreFew, IInv, HonestVotesAreTrue, NEW n \in Nonces, NEW h \in Hashes,
           TryAttestation(n, h)
    PROVE  Oracle!Deliver
  <1> DEFINE k == <<n, h>>
  <1>1. TypeOK
    BY DEF IInv
  <1>2. n = lastObservedEventNonce + 1
    BY DEF TryAttestation, Pending
  <1>3. k \notin observed
    BY <1>1, <1>2 DEF IInv, ObservedIsApplied, TypeOK
  <1>4. HasEnoughVotes(power, votes[k])
    BY <1>3 DEF TryAttestation, Pending
  <1>5. votes[k] \in Seq(Validators) /\ power \in PowerMaps
    BY <1>1 DEF TypeOK
  <1>6. \A i, j \in DOMAIN votes[k] : votes[k][i] = votes[k][j] => i = j
    BY DEF IInv, NoDoubleVote
  <1>7. PICK i \in DOMAIN votes[k] : votes[k][i] \notin Faulty
    <2>1. PICK p, voters : p = power /\ voters = votes[k]
      OBVIOUS
    <2> QED
      BY <1>4, <1>5, <1>6, <2>1, QuorumHasAnHonestVote
  <1>8. n <= Len(ethLog) /\ ClaimHash[ethLog[n]] = h
    BY <1>7 DEF HonestVotesAreTrue
  <1>9. claim[k] \in Claims /\ ClaimHash[claim[k]] = h
    <2>1. votes[k] # <<>>
      BY <1>4 DEF HasEnoughVotes
    <2> QED
      BY <2>1 DEF IInv, ClaimIsStored
  <1>10. ethLog' = ethLog /\ applied' = Append(applied, claim[k])
    BY <1>3 DEF TryAttestation, Observe
  <1>11. /\ ethLog \in Seq(Claims) /\ applied \in Seq(Claims)
         /\ Len(applied) + 1 = n
    BY <1>1, <1>2 DEF TypeOK, IInv, ObservedIsApplied
  <1>12. /\ Len(HashesOf(applied)) = Len(applied) /\ Len(HashesOf(ethLog)) = Len(ethLog)
         /\ HashesOf(applied)' = Append(HashesOf(applied), h)
         /\ HashesOf(ethLog)[n] = h /\ HashesOf(ethLog)' = HashesOf(ethLog)
    BY <1>8, <1>9, <1>10, <1>11 DEF HashesOf
  <1> QED
    BY <1>8, <1>11, <1>12 DEF Oracle!Deliver

LEMMA NextDelivers ==
    ASSUME FaultyAreFew
    PROVE  IInv /\ HonestVotesAreTrue /\ [Next]_vars =>
               [Oracle!Next]_(Oracle!oracleVars)
  <1> SUFFICES ASSUME IInv, HonestVotesAreTrue, [Next]_vars
               PROVE  [Oracle!Next]_(Oracle!oracleVars)
    OBVIOUS
  <1>1. ASSUME NEW c \in Claims, EmitEvent(c) PROVE Oracle!Emit
    <2>1. ethLog \in Seq(Claims) /\ ethLog' = Append(ethLog, c) /\ applied' = applied
      BY <1>1 DEF IInv, TypeOK, EmitEvent
    <2>2. ClaimHash[c] \in Hashes
      OBVIOUS
    <2>3. HashesOf(ethLog)' = Append(HashesOf(ethLog), ClaimHash[c])
      BY <2>1 DEF HashesOf
    <2>4. HashesOf(applied)' = HashesOf(applied)
      BY <2>1 DEF HashesOf
    <2> QED
      BY <2>2, <2>3, <2>4 DEF Oracle!Emit
  <1>2. CASE \E n \in Nonces, h \in Hashes : TryAttestation(n, h)
    BY <1>2, TryAttestationDelivers DEF Oracle!Next
  <1>3. CASE ethLog' = ethLog /\ applied' = applied
    BY <1>3 DEF HashesOf, Oracle!oracleVars
  <1>4. CASE \E v \in Validators, n \in Nonces, c \in Claims : SubmitClaim(v, n, c)
    BY <1>3, <1>4 DEF SubmitClaim
  <1>5. CASE \E p \in PowerMaps : BeginEndBlock(p)
    BY <1>3, <1>5 DEF BeginEndBlock
  <1>6. CASE FinishEndBlock \/ RestartFromGenesis
    BY <1>3, <1>6 DEF FinishEndBlock, RestartFromGenesis
  <1>7. CASE UNCHANGED vars
    BY <1>3, <1>7 DEF vars
  <1> QED
    BY <1>1, <1>2, <1>4, <1>5, <1>6, <1>7 DEF Next, Oracle!Next

\* The oracle implements EventOracle as long as the faulty validators stay below
\* the threshold of the tally: what attestationTally applies are the events of
\* Gravity.sol, in their order, each of them once, whatever the others claim.
THEOREM OracleDelivers == FaultyAreFew => (Spec => DeliversEthereumEvents)
  <1> SUFFICES ASSUME FaultyAreFew PROVE Spec => DeliversEthereumEvents
    OBVIOUS
  <1>1. Init => Oracle!Init
    <2> SUFFICES ASSUME Init PROVE Oracle!Init
      OBVIOUS
    <2>1. ethLog = <<>> /\ applied = <<>>
      BY DEF Init
    <2>2. HashesOf(ethLog) = <<>> /\ HashesOf(applied) = <<>>
      BY <2>1 DEF HashesOf
    <2> QED
      BY <2>2 DEF Oracle!Init
  <1>2. Init => HonestVotesAreTrue
    BY DEF Init, HonestVotesAreTrue
  <1>3. IInv /\ HonestVotesAreTrue /\ [Next]_vars => [Oracle!Next]_(Oracle!oracleVars)
    BY NextDelivers
  <1> QED
    BY <1>1, <1>2, <1>3, InvariantHolds, NextKeepsVotes, PTL
        DEF Spec, DeliversEthereumEvents, Oracle!Spec
=============================================================================
