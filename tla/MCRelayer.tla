----------------------------- MODULE MCRelayer -----------------------------
(* Two validators. With equal powers both must sign; in the first plan one *)
(* is alone, so that only the order of events matters. Of Just66 the first *)
(* has the power that the relayer takes for enough and the contract does   *)
(* not. A timeout of Never is not reached.                                 *)
EXTENDS Relayer

CONSTANTS v1, v2, tokenA, tokenB

Solo == (v1 :> 300) @@ (v2 :> 0)
Even == (v1 :> 150) @@ (v2 :> 150)
Most == (v1 :> 250) @@ (v2 :> 50)
Just66 == (v1 :> 197) @@ (v2 :> 103)

Never == 9

Batch(token, timeout) == [token |-> token, timeout |-> timeout]
Call(id, nonce, timeout) == [id |-> id, nonce |-> nonce, timeout |-> timeout]

MCPlans ==
    { \* Batches of one token that overtake each other and time out.
      [valsets |-> <<Solo, Solo>>,
       batches |-> <<Batch(tokenA, 3), Batch(tokenA, Never)>>,
       calls   |-> <<>>, height |-> 3],
      \* Validator sets with changing powers.
      [valsets |-> <<Most, Even, Most>>, batches |-> <<>>, calls |-> <<>>, height |-> 1],
      \* A set with enough signatures for the relayer alone hides an older one.
      [valsets |-> <<Just66, Even, Even>>, batches |-> <<>>, calls |-> <<>>, height |-> 1],
      \* Two tokens and a call share the relayer's account.
      [valsets |-> <<Even>>,
       batches |-> <<Batch(tokenA, Never), Batch(tokenB, Never)>>,
       calls   |-> <<Call(1, 1, Never)>>, height |-> 1],
      \* Two calls, one that times out.
      [valsets |-> <<Even>>, batches |-> <<>>,
       calls   |-> <<Call(1, 1, Never), Call(2, 1, 2)>>, height |-> 2] }
=============================================================================
