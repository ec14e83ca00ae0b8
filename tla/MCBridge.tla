------------------------------ MODULE MCBridge ------------------------------
(* One account; the tokens that a run needs: Ethereum tokens, a Cosmos     *)
(* token, and wNOM.                                                        *)
EXTENDS Bridge

CONSTANTS alice, erc20, atom, wnom

OneAccount == {alice}
None == {}
JustErc20 == {erc20}
ErcAndNom == {erc20, wnom}
JustAtom == {atom}
JustWNom == {wnom}
One == {1}
Zero == {0}
ZeroOrOne == {0, 1}
=============================================================================
