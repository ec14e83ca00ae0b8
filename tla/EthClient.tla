------------------------------ MODULE EthClient ------------------------------
(***************************************************************************)
(* The deposit command of the command-line tool, eth_to_cosmos, and the    *)
(* library function it shares with the test runner, send_to_cosmos: it     *)
(* sends an approval and a deposit from one account, in that order, by     *)
(* choosing their nonces.                                                  *)
(*                                                                         *)
(* The Ethereum node keeps one transaction per nonce and mines them in the *)
(* order of their nonces; it may drop one, and it may take a second one    *)
(* with the same nonce as a replacement or refuse it.  A command that gave *)
(* up leaves its transactions behind, and the user runs it again.          *)
(***************************************************************************)
EXTENDS Integers

CONSTANTS Modes,      \* what a run allows: whether the caller gives a
                      \* wait_timeout, whether another program uses the key
          Tokens0,    \* the account's tokens in the beginning
          None,       \* model value
          MaxRuns,    \* bound: commands
          MaxOthers,  \* bound: transactions of the other program
          MaxDrops    \* bound: transactions the node drops

VARIABLES mode,       \* the member of Modes of this behaviour
          nonce,      \* eth_get_transaction_count of the account
          mempool,    \* [0 .. MaxNonce -> transactions or None]
          approved,   \* the contract may take the account's tokens
          tokens,     \* the account's tokens
          reverted,   \* deposits that were mined without an approval
          cmd,        \* the command: its step, amount and approve_nonce
          used        \* how often each bound has been used

node == <<mempool, nonce, approved, tokens, reverted>>
vars == <<mode, node, cmd, used>>

MaxNonce == 2 * MaxRuns + MaxOthers
Approve == [kind |-> "approve"]
Deposit(a) == [kind |-> "deposit", amount |-> a]
Other == [kind |-> "other"]

Idle == [pc |-> "Idle", amount |-> 0, approve_nonce |-> None]

Init ==
    /\ mode \in Modes
    /\ nonce = 0
    /\ mempool = [n \in 0 .. MaxNonce |-> None]
    /\ approved \in BOOLEAN
    /\ tokens = Tokens0
    /\ reverted = 0
    /\ cmd = Idle
    /\ used = [runs |-> 0, others |-> 0, drops |-> 0]

Goto(s) == cmd' = [cmd EXCEPT !.pc = s]

-----------------------------------------------------------------------------
(* The Ethereum node                                                       *)

\* A transaction is mined when its nonce is next.  A deposit reverts without
\* an approval, or when the account has not enough tokens left.
Mine ==
    /\ nonce \in DOMAIN mempool
    /\ mempool[nonce] # None
    /\ LET tx == mempool[nonce]
           isDeposit == tx.kind = "deposit"
       IN /\ approved' = (approved \/ tx = Approve)
          /\ tokens' = IF isDeposit /\ approved /\ tx.amount <= tokens
                       THEN tokens - tx.amount ELSE tokens
          /\ reverted' = reverted + (IF isDeposit /\ ~approved THEN 1 ELSE 0)
    /\ mempool' = [mempool EXCEPT ![nonce] = None]
    /\ nonce' = nonce + 1
    /\ UNCHANGED <<mode, cmd, used>>

DropTransaction ==
    /\ used.drops < MaxDrops
    /\ \E n \in DOMAIN mempool :
         /\ mempool[n] # None
         /\ mempool' = [mempool EXCEPT ![n] = None]
    /\ used' = [used EXCEPT !.drops = @ + 1]
    /\ UNCHANGED <<mode, nonce, approved, tokens, reverted, cmd>>

\* eth_sendRawTransaction: refused with a used nonce; with the nonce of a
\* waiting transaction it replaces that one or is refused, as gas prices say.
Accepted(n, tx) ==
    /\ n >= nonce
    /\ mempool' = [mempool EXCEPT ![n] = tx]
Refused(n) ==
    /\ n < nonce \/ mempool[n] # None
    /\ UNCHANGED mempool

\* Another program that holds the key, as a relayer does, sends something.
OtherProgram ==
    /\ mode.shared
    /\ used.others < MaxOthers
    /\ Accepted(nonce, Other) \/ Refused(nonce)
    /\ used' = [used EXCEPT !.others = @ + 1]
    /\ UNCHANGED <<mode, nonce, approved, tokens, reverted, cmd>>

-----------------------------------------------------------------------------
(* The command                                                             *)

\* The user runs the command; the bridge and the ether of the account are
\* checked first, and a failure there ends it.
StartDeposit ==
    /\ cmd.pc = "Idle"
    /\ used.runs < MaxRuns
    /\ \E a \in 1 .. Tokens0 :
         cmd' = [pc |-> "Balance", amount |-> a, approve_nonce |-> None]
    /\ used' = [used EXCEPT !.runs = @ + 1]
    /\ UNCHANGED <<mode, node>>

eth_to_cosmos ==
    /\ cmd.pc = "Balance"
    /\ IF cmd.amount > tokens THEN cmd' = Idle ELSE Goto("Approved")
    /\ UNCHANGED <<mode, node, used>>

\* The check is repeated while it fails, within the wait_timeout.
check_erc20_approved ==
    /\ cmd.pc = "Approved"
    /\ Goto(IF approved THEN "Deposit" ELSE "Nonce")
    /\ UNCHANGED <<mode, node, used>>

eth_get_transaction_count ==
    /\ cmd.pc = "Nonce"
    /\ cmd' = [cmd EXCEPT !.pc = "Approve", !.approve_nonce = nonce]
    /\ UNCHANGED <<mode, node, used>>

approve_erc20_transfers ==
    /\ cmd.pc = "Approve"
    /\ \/ /\ Accepted(cmd.approve_nonce, Approve)
          /\ Goto(IF mode.wait THEN "WaitApproval" ELSE "Deposit")
       \/ /\ Refused(cmd.approve_nonce)
          /\ cmd' = Idle
    /\ UNCHANGED <<mode, nonce, approved, tokens, reverted, used>>

\* wait_for_transaction finds that very transaction in a block: one that was
\* replaced never is.
wait_for_approval ==
    /\ cmd.pc = "WaitApproval"
    /\ \/ nonce > cmd.approve_nonce /\ approved /\ Goto("Deposit")
       \/ cmd' = Idle
    /\ UNCHANGED <<mode, node, used>>

\* Wrong variant of DepositNonce: the approval's own nonce.
DepositNonceOfApproval ==
    IF cmd.approve_nonce = None THEN nonce ELSE cmd.approve_nonce

\* Wrong variant of DepositNonce: one behind the next.
DepositNonceWithGap ==
    IF cmd.approve_nonce = None THEN nonce ELSE cmd.approve_nonce + 2

\* The nonce right behind the approval, else the node's count.
DepositNonce ==
    IF cmd.approve_nonce = None THEN nonce ELSE cmd.approve_nonce + 1

send_to_cosmos ==
    /\ cmd.pc = "Deposit"
    /\ \/ /\ Accepted(DepositNonce, Deposit(cmd.amount))
          /\ IF mode.wait THEN Goto("WaitDeposit") ELSE cmd' = Idle
       \/ /\ Refused(DepositNonce)
          /\ cmd' = Idle
    /\ UNCHANGED <<mode, nonce, approved, tokens, reverted, used>>

\* Mined, reverted or timed out: the command ends, and says Ok.
wait_for_deposit ==
    /\ cmd.pc = "WaitDeposit"
    /\ cmd' = Idle
    /\ UNCHANGED <<mode, node, used>>

Command ==
    \/ eth_to_cosmos \/ check_erc20_approved \/ eth_get_transaction_count
    \/ approve_erc20_transfers \/ wait_for_approval \/ send_to_cosmos
    \/ wait_for_deposit

Next ==
    \/ Mine \/ DropTransaction \/ OtherProgram
    \/ StartDeposit \/ Command

Spec == Init /\ [][Next]_vars

\* The node mines what can be mined; the command goes on, each of its waits
\* being bounded by TIMEOUT.
FairSpec == Spec /\ WF_vars(Mine) /\ WF_vars(Command)

-----------------------------------------------------------------------------
(* A deposit is never mined before the approval it needs: not when the     *)
(* command does not wait (only the nonces keep the order then), not when a *)
(* second run finds the transactions of the first still waiting, and not   *)
(* when another program uses the key, as long as the command waits.        *)
DepositsAreApproved == reverted = 0

\* No deposit waits behind a nonce that nobody uses, unless the node dropped a
\* transaction.
NoDepositIsStuck ==
    used.drops = 0 =>
        \A n \in 0 .. MaxNonce : mempool[n] # None => mempool[n].kind # "deposit"

(* send_to_cosmos.rs:81-82, "so that we can be sure our actual tx can go   *)
(* in immediately behind": what was sent is mined in the end.              *)
DepositsAreMined == []<>NoDepositIsStuck
=============================================================================
