--------------------------- MODULE MCAttestations ---------------------------
(* Three validators, one of them faulty, over an event log that holds one  *)
(* deposit and one batch whose two claims differ in their block height     *)
(* only.                                                                   *)
EXTENDS Attestations

CONSTANTS v1, v2, v3, deposit, batchAtOne, batchAtTwo, depositHash, batchHash

MCValidators == {v1, v2, v3}
MCFaulty == {v3}
MCClaims == {deposit, batchAtOne, batchAtTwo}
MCHashes == {depositHash, batchHash}
MCClaimHash == [c \in MCClaims |->
                   IF c = deposit THEN depositHash ELSE batchHash]

EqualPower == [v \in MCValidators |-> 10]
\* A validator leaves the bonded set; the other two must agree then.
WithoutFirst == [EqualPower EXCEPT ![v1] = 0]
WithoutFaulty == [EqualPower EXCEPT ![v3] = 0]

MCPowerMaps == {EqualPower, WithoutFirst, WithoutFaulty}

ASSUME FewAreFaulty == FaultyAreFew
=============================================================================
