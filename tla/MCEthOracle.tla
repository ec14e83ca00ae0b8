---------------------------- MODULE MCEthOracle ----------------------------
(* The table of get_block_delay with delays that fit a chain of a few       *)
(* blocks: six blocks become one, ten become two.                           *)
EXTENDS EthOracle

MCDelays == [pow |-> 1, dev |-> 0, poa |-> 2, unknown |-> 1]
=============================================================================
