----------------------------- MODULE Erc20Deploy -----------------------------
(***************************************************************************)
(* The command deploy_erc20_representation: users have Gravity.sol deploy  *)
(* an ERC20 for a Cosmos denom and wait for the chain to adopt it.  Several *)
(* users, and one user again, run it for the same denom while the oracle   *)
(* carries the events of earlier runs.                                     *)
(***************************************************************************)
EXTENDS Integers, Sequences

CONSTANTS Users,
          None,      \* model value
          MaxRuns,   \* bound: commands of each user
          MaxEvents  \* bound: contracts

VARIABLES pc,        \* [Users -> step of the command]
          good,      \* [Users -> whether name, symbol and decimals match]
          runs,      \* [Users -> 0 .. MaxRuns]
          pending,   \* [Users -> the metadata of the transaction that waits at
                     \* the Ethereum node, or None]
          events,    \* ERC20DeployedEvents: whether each one's metadata match
          observed,  \* events the chain has handled
          adopted,   \* the denom's ERC20: the position of its event, or None
          reported   \* the ERC20s commands have reported as accepted

vars == <<pc, good, runs, pending, events, observed, adopted, reported>>

Init ==
    /\ pc = [u \in Users |-> "Idle"]
    /\ good \in [Users -> BOOLEAN]
    /\ runs = [u \in Users |-> 0]
    /\ pending = [u \in Users |-> None]
    /\ events = <<>>
    /\ observed = 0
    /\ adopted = None
    /\ reported = {}

Goto(u, s) == pc' = [pc EXCEPT ![u] = s]

\* The user runs the command, with metadata it may have corrected.
Start(u) ==
    /\ pc[u] = "Idle"
    /\ runs[u] < MaxRuns
    /\ Goto(u, "Lookup")
    /\ runs' = [runs EXCEPT ![u] = @ + 1]
    /\ \E g \in BOOLEAN : good' = [good EXCEPT ![u] = g]
    /\ UNCHANGED <<pending, events, observed, adopted, reported>>

\* "Asset already has ERC20 representation", or go on.
denom_to_erc20(u) ==
    /\ pc[u] = "Lookup"
    /\ Goto(u, IF adopted # None THEN "Idle" ELSE "Deploy")
    /\ UNCHANGED <<good, runs, pending, events, observed, adopted, reported>>

\* A transaction with the nonce of one that waits replaces it or is refused.
deploy_erc20(u) ==
    /\ pc[u] = "Deploy"
    /\ \/ /\ pending' = [pending EXCEPT ![u] = good[u]]
          /\ Goto(u, "WaitTransaction")
       \/ /\ pending[u] # None
          /\ Goto(u, "Idle")
          /\ UNCHANGED pending
    /\ UNCHANGED <<good, runs, events, observed, adopted, reported>>

\* The transaction is mined, or TIMEOUT passes and the command panics.
wait_for_transaction(u) ==
    /\ pc[u] = "WaitTransaction"
    /\ Goto(u, IF pending[u] = None THEN "Poll" ELSE "Idle")
    /\ UNCHANGED <<good, runs, pending, events, observed, adopted, reported>>

\* keep_querying_for_erc20: any ERC20 of the denom will do; after 100 seconds
\* the contract "was not adopted".
keep_querying_for_erc20(u) ==
    /\ pc[u] = "Poll"
    /\ Goto(u, "Idle")
    /\ reported' = IF adopted # None THEN reported \cup {adopted} ELSE reported
    /\ UNCHANGED <<good, runs, pending, events, observed, adopted>>

\* Gravity.sol deploys whatever it is asked to.
deployERC20(u) ==
    /\ pending[u] # None
    /\ Len(events) < MaxEvents
    /\ events' = Append(events, pending[u])
    /\ pending' = [pending EXCEPT ![u] = None]
    /\ UNCHANGED <<pc, good, runs, observed, adopted, reported>>

\* Wrong variant of HandleErc20Deployed: the last ERC20 is adopted.
HandleAndReplace ==
    /\ observed < Len(events)
    /\ observed' = observed + 1
    /\ adopted' = IF events[observed'] THEN observed' ELSE adopted
    /\ UNCHANGED <<pc, good, runs, pending, events, reported>>

\* The handler refuses a second ERC20 and metadata that do not match.
HandleErc20Deployed ==
    /\ observed < Len(events)
    /\ observed' = observed + 1
    /\ adopted' = IF adopted = None /\ events[observed'] THEN observed' ELSE adopted
    /\ UNCHANGED <<pc, good, runs, pending, events, reported>>

Command(u) ==
    \/ denom_to_erc20(u) \/ deploy_erc20(u) \/ wait_for_transaction(u)
    \/ keep_querying_for_erc20(u)

Next ==
    \/ \E u \in Users : Start(u) \/ Command(u) \/ deployERC20(u)
    \/ HandleErc20Deployed

Spec == Init /\ [][Next]_vars

-----------------------------------------------------------------------------
(* Whoever is told that an ERC20 represents the denom is told the same:    *)
(* the commands do not compare what the chain adopted with what they have  *)
(* deployed, and late events of other runs change nothing.                 *)
OneRepresentation == \A r, s \in reported : r = s
=============================================================================
