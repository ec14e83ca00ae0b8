-------------------------------- MODULE Nabt --------------------------------
(***************************************************************************)
(* The commands of nabt: how a command comes up (Startup), the keys of a   *)
(* validator (DelegateKeys), a deposit (EthClient), a withdrawal           *)
(* (CosmosClient) and an ERC20 for a Cosmos denom (Erc20Deploy).  They     *)
(* share no state: a behaviour is one of one part, and the variables that  *)
(* it has not are None.                                                    *)
(***************************************************************************)
EXTENDS Integers

CONSTANTS Urls, Fee, PartOf, Accounts, MaxChanges,                    \* of Startup
          Validators, OwnOrch, OwnEth, NewOrch, NewEth,               \* of DelegateKeys
          Modes, Tokens0, MaxOthers, MaxDrops,                        \* of EthClient
          Balances, Denoms, Token, Withdrawals, Fees, MaxCancels, MaxFaults,
                                                                      \* of CosmosClient
          Users, MaxDeployments, MaxEvents,                           \* of Erc20Deploy
          MaxRuns,  \* bound: commands
          None      \* model value

ASSUME NabtAssumption ==
    /\ Modes \subseteq [wait : BOOLEAN, shared : BOOLEAN]
    /\ Tokens0 \in Nat
    /\ Token \in Denoms
    /\ Balances \subseteq [Denoms -> Nat]
    /\ Withdrawals \subseteq Nat
    /\ Fees \subseteq [denom : Denoms, amount : Nat]
    /\ None \notin Nat

VARIABLES part,
          up, chain, balances, ether, address, changes,
          url, todo, probed, conn, status,
          KeyOrchestratorAddress, EthAddressByValidator, disk, fresh, running,
          mode, nonce, mempool, approved, tokens, reverted,
          bal, represented, nextId, tx, receipt, sent,
          pc, good, runs, pending, events, observed, adopted, reported,
          command,  \* of Startup and DelegateKeys
          pool,     \* of DelegateKeys and CosmosClient
          cmd, used \* of EthClient and CosmosClient

startup == <<up, chain, balances, ether, address, changes, url, probed, conn, status>>
keys == <<KeyOrchestratorAddress, EthAddressByValidator, disk, fresh, running>>
deposit == <<mode, nonce, mempool, approved, tokens, reverted>>
withdrawal == <<bal, represented, nextId, tx, receipt, sent>>
deployment == <<pc, good, runs, pending, events, observed, adopted, reported>>

shared == <<command, pool, cmd, used>>
vars == <<part, todo, startup, keys, deposit, withdrawal, deployment, shared>>

S == INSTANCE Startup
K == INSTANCE DelegateKeys
D == INSTANCE EthClient
W == INSTANCE CosmosClient WITH Amounts <- Withdrawals
E == INSTANCE Erc20Deploy WITH MaxRuns <- MaxDeployments

NoStartup ==
    /\ up = None /\ chain = None /\ balances = None
    /\ ether = None /\ address = None /\ changes = None /\ url = None
    /\ probed = None /\ conn = None /\ status = None
NoKeys ==
    /\ KeyOrchestratorAddress = None /\ EthAddressByValidator = None
    /\ disk = None /\ fresh = None /\ running = None
NoDeposit ==
    /\ mode = None /\ nonce = None /\ mempool = None /\ approved = None
    /\ tokens = None /\ reverted = None
NoWithdrawal ==
    /\ bal = None /\ represented = None /\ nextId = None
    /\ tx = None /\ receipt = None /\ sent = 0
NoDeployment ==
    /\ pc = None /\ good = None /\ runs = None /\ pending = None
    /\ events = None /\ observed = None /\ adopted = None /\ reported = None

-----------------------------------------------------------------------------
Init ==
    \/ /\ part = "startup" /\ S!Init
       /\ NoKeys /\ NoDeposit /\ NoWithdrawal /\ NoDeployment
       /\ pool = None /\ cmd = None /\ used = None
    \/ /\ part = "keys" /\ K!Init
       /\ NoStartup /\ NoDeposit /\ NoWithdrawal /\ NoDeployment
       /\ todo = None /\ cmd = None /\ used = None
    \/ /\ part = "deposit" /\ D!Init
       /\ NoStartup /\ NoKeys /\ NoWithdrawal /\ NoDeployment
       /\ todo = None /\ command = None /\ pool = None
    \/ /\ part = "withdrawal" /\ W!Init
       /\ NoStartup /\ NoKeys /\ NoDeposit /\ NoDeployment
       /\ todo = None /\ command = None
    \/ /\ part = "deployment" /\ E!Init
       /\ NoStartup /\ NoKeys /\ NoDeposit /\ NoWithdrawal
       /\ todo = None /\ command = None /\ pool = None /\ cmd = None /\ used = None

InStartup ==
    /\ part = "startup"
    /\ UNCHANGED <<part, keys, deposit, withdrawal, deployment, pool, cmd, used>>
InKeys ==
    /\ part = "keys"
    /\ UNCHANGED <<part, todo, startup, deposit, withdrawal, deployment, cmd, used>>
InDeposit ==
    /\ part = "deposit"
    /\ UNCHANGED <<part, todo, startup, keys, withdrawal, deployment, command, pool>>
InWithdrawal ==
    /\ part = "withdrawal"
    /\ UNCHANGED <<part, todo, startup, keys, deposit, deployment, command>>
InDeployment ==
    /\ part = "deployment"
    /\ UNCHANGED <<part, todo, startup, keys, deposit, withdrawal, shared>>

Next ==
    \/ InStartup /\ S!Next
    \/ InKeys /\ K!Next
    \/ InDeposit /\ D!Next
    \/ InWithdrawal /\ W!Next
    \/ InDeployment /\ E!Next

Spec == Init /\ [][Next]_vars

-----------------------------------------------------------------------------
\* Startup: a command that has what it needs comes up by itself.
ComesUp == part = "startup" => S!ComesUp

\* DelegateKeys: an orchestrator that passed its check runs with two keys that
\* one validator has registered together.
RunsOnDelegateKeys == part = "keys" => K!RunsOnDelegateKeys

\* EthClient: a deposit is never mined before the approval it needs.
DepositsAreApproved == part = "deposit" => D!DepositsAreApproved

\* EthClient: what was sent is mined in the end.
DepositsAreMined == []<>(part = "deposit" => D!NoDepositIsStuck)

\* CosmosClient: a transfer whose id was shown is in the bridge, or was
\* overtaken by an earlier transaction after the last check.
ShownMeansLocked == W!ShownMeansLocked

\* Erc20Deploy: whoever is told of an ERC20 for the denom is told of the same.
OneRepresentation == part = "deployment" => E!OneRepresentation
=============================================================================
