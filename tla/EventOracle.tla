----------------------------- MODULE EventOracle -----------------------------
(***************************************************************************)
(* What the oracle of the bridge promises: the events that Gravity.sol     *)
(* emits are applied to the Cosmos state exactly once each, in the order   *)
(* of their event nonces, and no other event is ever applied.              *)
(*                                                                         *)
(* The votes, the powers and the blocks of module Attestations implement   *)
(* this; module Bridge is written against it.                              *)
(***************************************************************************)
EXTENDS Naturals, Sequences

CONSTANTS Claims    \* what an event can say

VARIABLES emitted,  \* the events of the contract; its index is the nonce
          delivered \* the claims applied to the Cosmos state, in order

oracleVars == <<emitted, delivered>>

Init == /\ emitted = <<>>
        /\ delivered = <<>>

Emit == \E c \in Claims : /\ emitted' = Append(emitted, c)
                          /\ UNCHANGED delivered

Deliver == /\ Len(delivered) < Len(emitted)
           /\ delivered' = Append(delivered, emitted[Len(delivered) + 1])
           /\ UNCHANGED emitted

Next == Emit \/ Deliver

Spec == Init /\ [][Next]_oracleVars

FairSpec == Spec /\ WF_oracleVars(Deliver)
=============================================================================
