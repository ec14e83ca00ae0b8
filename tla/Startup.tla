------------------------------ MODULE Startup ------------------------------
(***************************************************************************)
(* How a command of nabt comes up: it probes the connections it was given, *)
(* with fallbacks when the first attempt fails, waits for the Cosmos node, *)
(* checks balances and finds the contract. Nodes come up and go down and   *)
(* accounts are funded and spent, also between two probes; a command that  *)
(* gave up may be started again. The delegate keys a command starts with   *)
(* are in DelegateKeys.                                                    *)
(***************************************************************************)
EXTENDS Naturals, Sequences

CONSTANTS Urls,        \* the urls that the services can be given, one for each
          Fee,         \* denom and amount
          PartOf,      \* pairs of denoms, the second a part of the first
          Accounts,    \* balances, ether and contract parameter, as they can be
          MaxChanges,  \* bound: times a node, the chain or an account changes
          None

VARIABLES up,       \* endpoints that answer
          chain,    \* what the Cosmos node says of the chain
          balances, ether, address,  \* the accounts and the contract parameter
          changes,
          command, url, todo, probed, conn, status

worldVars == <<up, chain, balances, ether, address, changes>>
commandVars == <<command, url, todo, probed, conn, status>>
vars == <<worldVars, commandVars>>

\* What a command does before it runs. `orchestrator` also checks its keys
\* after it has waited. Without a query for the contract when its address is
\* given on the command line.
orchestrator == <<"grpc", "eth", "ready", "fee", "ether", "contract">>
relayer == <<"grpc", "eth", "ready", "ether", "contract">>
register_orchestrator_address == <<"grpc", "ready", "fee">>
GivenContract(steps) == SelectSeq(steps, LAMBDA step : step # "contract")

Steps == [orchestrator |-> orchestrator, relayer |-> relayer,
          orchestrator_at |-> GivenContract(orchestrator), relayer_at |-> GivenContract(relayer),
          register |-> register_orchestrator_address]

Services == {"grpc", "eth"}
Endpoints == Services \X {"base", "ipv4", "ipv6", "https80", "https443"}

Init ==
    /\ up \in SUBSET {<<s, "base">> : s \in Services}
    /\ chain \in {"Syncing", "Moving"}
    /\ \E a \in Accounts : balances = a.balances /\ ether = a.ether /\ address = a.address
    /\ changes = 0
    /\ command \in DOMAIN Steps /\ url \in Urls
    /\ todo = Steps[command] /\ probed = <<>> /\ conn = [s \in Services |-> None]
    /\ status = "busy"

-----------------------------------------------------------------------------
(* The world                                                               *)

\* An endpoint comes up or goes down, the chain starts, stops or syncs, or the
\* accounts or the parameter change.
Change ==
    /\ changes < MaxChanges
    /\ changes' = changes + 1
    /\ \/ /\ \E e \in Endpoints : up' = (up \ {e}) \cup ({e} \ up)
          /\ UNCHANGED <<chain, balances, ether, address>>
       \/ /\ chain' \in {"Syncing", "WaitingToStart", "Moving"} \ {chain}
          /\ UNCHANGED <<up, balances, ether, address>>
       \/ /\ \E a \in Accounts : balances' = a.balances /\ ether' = a.ether /\ address' = a.address
          /\ UNCHANGED <<up, chain>>
    /\ UNCHANGED commandVars

-----------------------------------------------------------------------------
(* The command                                                             *)

At(step) == status = "busy" /\ todo # <<>> /\ Head(todo) = step

Advance == /\ todo' = Tail(todo)
           /\ status' = IF Len(todo) = 1 THEN "running" ELSE "busy"

GiveUp(how) == status' = how /\ UNCHANGED todo

Connected(s, e) == conn' = [conn EXCEPT ![s] = e] /\ probed' = <<>> /\ Advance

\* The two urls that are tried when the given one does not answer.
Fallbacks(s) ==
    CASE url[s].localhost -> <<"ipv6", "ipv4">>
      [] ~url[s].localhost /\ (~url[s].port \/ url[s].scheme = "http") -> <<"https80", "https443">>
      [] OTHER -> <<>>

\* One probe: of the given url, then of each fallback, whose answers decide.
create_rpc_connection(s) ==
    LET fallbacks == Fallbacks(s)
        n == Len(probed)
        answer == <<s, IF n = 0 THEN "base" ELSE fallbacks[n]>> \in up
    IN  /\ At(s)
        /\ CASE n = 0 /\ answer -> Connected(s, "base")
             [] n = 0 /\ ~answer /\ fallbacks = <<>> ->
                  GiveUp("panic") /\ UNCHANGED <<probed, conn>>
             [] (n = 0 /\ ~answer /\ fallbacks # <<>>) \/ n = 1 ->
                  /\ probed' = Append(probed, answer)
                  /\ UNCHANGED <<todo, status, conn>>
             [] n = 2 /\ answer # probed[2] ->
                  Connected(s, IF answer THEN fallbacks[2] ELSE fallbacks[1])
             [] n = 2 /\ answer = probed[2] ->
                  GiveUp("panic") /\ UNCHANGED <<probed, conn>>
        /\ UNCHANGED <<worldVars, command, url>>

create_grpc_connection == create_rpc_connection("grpc")
create_web3_connection == create_rpc_connection("eth")

\* A node that does not answer is asked again, like one that is not ready.
wait_for_cosmos_node_ready ==
    /\ At("ready") /\ <<"grpc", conn["grpc"]>> \in up /\ chain = "Moving"
    /\ Advance
    /\ UNCHANGED <<worldVars, command, url, probed, conn>>

\* Wrong variant of FeeCheck: the balance must exceed the fee.
FeeCheckStrict(b) ==
    LET found == {i \in DOMAIN b : <<b[i].denom, Fee.denom>> \in PartOf}
        first == CHOOSE i \in found : \A j \in found : i <= j
    IN  IF found = {} THEN "exit 1" ELSE IF b[first].amount <= Fee.amount THEN "exit 0" ELSE "ok"

\* The first balance whose denom contains the fee's decides. main exits with
\* an error code for an unrecoverable error only.
FeeCheck(b) ==
    LET found == {i \in DOMAIN b : <<b[i].denom, Fee.denom>> \in PartOf}
        first == CHOOSE i \in found : \A j \in found : i <= j
    IN  IF found = {} THEN "exit 1" ELSE IF b[first].amount < Fee.amount THEN "exit 0" ELSE "ok"

check_for_fee ==
    /\ At("fee") /\ <<"grpc", conn["grpc"]>> \in up
    /\ IF FeeCheck(balances) = "ok" THEN Advance ELSE GiveUp(FeeCheck(balances))
    /\ UNCHANGED <<worldVars, command, url, probed, conn>>

check_for_eth ==
    /\ At("ether") /\ <<"eth", conn["eth"]>> \in up
    /\ IF ether > 0 THEN Advance ELSE GiveUp("exit 0")
    /\ UNCHANGED <<worldVars, command, url, probed, conn>>

\* The contract of the parameters; the query is tried once.
get_gravity_params ==
    /\ At("contract")
    /\ CASE <<"grpc", conn["grpc"]>> \notin up -> GiveUp("panic")
         [] <<"grpc", conn["grpc"]>> \in up /\ address = None -> GiveUp("exit 1")
         [] <<"grpc", conn["grpc"]>> \in up /\ address # None -> Advance
    /\ UNCHANGED <<worldVars, command, url, probed, conn>>

Run == create_grpc_connection \/ create_web3_connection \/ wait_for_cosmos_node_ready
       \/ check_for_fee \/ check_for_eth \/ get_gravity_params

Ended == status \notin {"busy", "running"}

StartAgain ==
    /\ Ended
    /\ todo' = Steps[command] /\ probed' = <<>> /\ conn' = [s \in Services |-> None]
    /\ status' = "busy"
    /\ UNCHANGED <<worldVars, command, url>>

Next == Run \/ StartAgain \/ Change

Spec == Init /\ [][Next]_vars

\* A command goes on by itself; nobody has to start it again.
FairSpec == Spec /\ WF_vars(Run)

-----------------------------------------------------------------------------
(* Properties                                                              *)

Needs(step) == \E i \in DOMAIN todo : todo[i] = step

\* The account holds the fee, and no other coin whose name contains its denom.
HoldsTheFee ==
    /\ \E i \in DOMAIN balances : balances[i].denom = Fee.denom /\ balances[i].amount >= Fee.amount
    /\ \A i \in DOMAIN balances :
          <<balances[i].denom, Fee.denom>> \in PartOf => balances[i].denom = Fee.denom

\* Service s answers: the connection that was made of it or, before, the given
\* url or else just one of the fallbacks.
Answers(s, way) ==
    LET fallbacks == {i \in DOMAIN Fallbacks(s) : <<s, Fallbacks(s)[i]>> \in up}
    IN  CASE conn[s] # None -> <<s, conn[s]>> \in up
          [] conn[s] = None /\ way = "base" -> <<s, "base">> \in up
          [] conn[s] = None /\ way = "fallback" ->
               <<s, "base">> \notin up /\ \E i \in fallbacks : fallbacks = {i}

\* What is left to do can be done.
Healthy(way) ==
    /\ chain = "Moving"
    /\ \A s \in Services : conn[s] # None \/ Needs(s) => Answers(s, way[s])
    /\ Needs("fee") => HoldsTheFee
    /\ Needs("ether") => ether > 0
    /\ Needs("contract") => address # None

\* A command that is between two probes comes up, at the first attempt, if
\* from now on each service answers at its url or at one of its fallbacks, the
\* chain moves and the accounts have what it checks for; whatever was wrong
\* before. The fallbacks are there for this, but not for a service that answers
\* at both of them: the command panics.
ComesUp ==
    \A way \in [Services -> {"base", "fallback"}] :
        [](status = "busy" /\ probed = <<>> /\ []Healthy(way) => <>(status = "running"))
=============================================================================
