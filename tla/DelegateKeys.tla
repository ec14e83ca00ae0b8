---------------------------- MODULE DelegateKeys ----------------------------
(***************************************************************************)
(* The delegate keys of a validator: `nabt init` and `nabt keys ...` on    *)
(* the operator's machine, the registration with x/nab, which is possible  *)
(* once, and the check of an orchestrator that starts with the keys it     *)
(* finds. Every validator has an operator with a machine of its own. A     *)
(* registration may be lost, or be delivered after the wait has timed out. *)
(***************************************************************************)
EXTENDS FiniteSetsExt, Functions

CONSTANTS Validators,
          OwnOrch, OwnEth,  \* keys each operator has from elsewhere
          NewOrch, NewEth,  \* keys to generate
          None

VARIABLES KeyOrchestratorAddress,  \* orchestrator address -> validator
          EthAddressByValidator,   \* validator -> Ethereum address
          pool,     \* registrations that are on their way
          disk,     \* keys.json of each operator, None before `nabt init`
          command,  \* the registration an operator is waiting for
          fresh,    \* keys that can still be generated
          running   \* the keys of the orchestrator that was started last

chainVars == <<KeyOrchestratorAddress, EthAddressByValidator>>
vars == <<chainVars, pool, disk, command, fresh, running>>

Init ==
    /\ KeyOrchestratorAddress = <<>> /\ EthAddressByValidator = <<>>
    /\ pool = {}
    /\ disk = [v \in Validators |-> None]
    /\ command = [v \in Validators |-> None]
    /\ fresh = NewOrch \cup NewEth
    /\ running = None

-----------------------------------------------------------------------------
(* The chain                                                               *)

MayRegister(tx) == /\ tx.orch \notin DOMAIN KeyOrchestratorAddress
                   /\ tx.val \notin DOMAIN EthAddressByValidator

\* A store with the value v under the key k.
Set(store, k, v) == [x \in DOMAIN store \cup {k} |-> IF x = k THEN v ELSE store[x]]

SetOrchestratorAddress(tx) ==
    /\ pool' = pool \ {tx}
    /\ IF MayRegister(tx)
       THEN /\ KeyOrchestratorAddress' = Set(KeyOrchestratorAddress, tx.orch, tx.val)
            /\ EthAddressByValidator' = Set(EthAddressByValidator, tx.val, tx.eth)
       ELSE UNCHANGED chainVars
    /\ UNCHANGED <<disk, command, fresh, running>>

LoseTx(tx) == pool' = pool \ {tx}
              /\ UNCHANGED <<chainVars, disk, command, fresh, running>>

\* One entry per validator that is in both indexes.
GetDelegateKeys ==
    {[val |-> KeyOrchestratorAddress[o], orch |-> o,
      eth |-> EthAddressByValidator[KeyOrchestratorAddress[o]]] :
       o \in {x \in DOMAIN KeyOrchestratorAddress :
               KeyOrchestratorAddress[x] \in DOMAIN EthAddressByValidator}}

\* Entries are sorted by Ethereum address alone: among equals any comes first.
GetDelegateKeyByEth(e) == {k \in GetDelegateKeys : k.eth = e}
GetDelegateKeyByOrchestrator(o) == {k \in GetDelegateKeys : k.orch = o}

-----------------------------------------------------------------------------
(* The operator's commands                                                 *)

config_exists(v) == disk[v] # None

init_config(v) ==
    /\ ~config_exists(v)
    /\ disk' = [disk EXCEPT ![v] = [orch |-> None, eth |-> None]]
    /\ UNCHANGED <<chainVars, pool, command, fresh, running>>

set_eth_key(v, k) ==
    /\ config_exists(v)
    /\ disk' = [disk EXCEPT ![v].eth = k]
    /\ UNCHANGED <<chainVars, pool, command, fresh, running>>

set_orchestrator_key(v, k) ==
    /\ config_exists(v)
    /\ disk' = [disk EXCEPT ![v].orch = k]
    /\ UNCHANGED <<chainVars, pool, command, fresh, running>>

\* The argument, else the stored key; None if there is neither.
FindKey(v, arg, field) ==
    IF arg # None THEN arg ELSE IF config_exists(v) THEN disk[v][field] ELSE None

\* The keys of a registration; one that is not found is generated.
KeyFor(v, arg, field, new) ==
    LET k == FindKey(v, arg, field) IN IF k = None THEN fresh \cap new ELSE {k}

\* An account has room for one transaction: a second one is refused.
set_gravity_delegate_addresses(v, orchArg, ethArg, noSave) ==
    /\ command[v] = None
    /\ \A tx \in pool : tx.val # v
    /\ noSave \/ config_exists(v)
    /\ \E o \in KeyFor(v, orchArg, "orch", NewOrch), e \in KeyFor(v, ethArg, "eth", NewEth) :
         LET tx == [val |-> v, orch |-> o, eth |-> e]
         IN  /\ pool' = pool \cup {tx}
             /\ command' = [command EXCEPT ![v] =
                     [tx |-> tx, save |-> IF noSave THEN "nothing"
                                          ELSE IF o = FindKey(v, None, "orch") /\ orchArg = None
                                          THEN "stored" ELSE "registered"]]
             /\ fresh' = fresh \ {o, e}
    /\ UNCHANGED <<chainVars, disk, running>>

\* The transaction was found in a block: the keys are shown and saved. An
\* orchestrator key that was found in the file is read from it once more.
register_orchestrator_address(v) ==
    /\ command[v] # None
    /\ LET tx == command[v].tx
           orch == IF command[v].save = "stored" THEN disk[v].orch ELSE tx.orch
       IN  /\ tx \notin pool
           /\ disk' = IF command[v].save # "nothing"
                      THEN [disk EXCEPT ![v] = [orch |-> orch, eth |-> tx.eth]] ELSE disk
    /\ command' = [command EXCEPT ![v] = None]
    /\ UNCHANGED <<chainVars, pool, fresh, running>>

\* It was not found in time, or has failed.
RegistrationFails(v) ==
    /\ command[v] # None
    /\ command' = [command EXCEPT ![v] = None]
    /\ UNCHANGED <<chainVars, pool, disk, fresh, running>>

\* Wrong variant of check_delegate_addresses: both keys are registered.
BothRegistered(orch, eth) ==
    GetDelegateKeyByEth(eth) # {} /\ GetDelegateKeyByOrchestrator(orch) # {}

\* Both addresses lead to each other and to one validator.
check_delegate_addresses(orch, eth) ==
    \E e \in GetDelegateKeyByEth(eth), o \in GetDelegateKeyByOrchestrator(orch) :
      o.eth = eth /\ e.orch = orch /\ e.val = o.val

orchestrator(v, orchArg, ethArg) ==
    LET o == FindKey(v, orchArg, "orch")
        e == FindKey(v, ethArg, "eth")
    IN  /\ o # None /\ e # None
        /\ check_delegate_addresses(o, e)
        /\ running' = [orch |-> o, eth |-> e]
        /\ UNCHANGED <<chainVars, pool, disk, command, fresh>>

Operator(v) ==
    \/ init_config(v)
    \/ \E k \in OwnEth[v] : set_eth_key(v, k)
    \/ \E k \in OwnOrch[v] : set_orchestrator_key(v, k)
    \/ \E o \in OwnOrch[v] \cup {None}, e \in OwnEth[v] \cup {None} :
         orchestrator(v, o, e) \/ \E s \in BOOLEAN : set_gravity_delegate_addresses(v, o, e, s)
    \/ register_orchestrator_address(v) \/ RegistrationFails(v)

Next == (\E v \in Validators : Operator(v))
        \/ \E tx \in pool : SetOrchestratorAddress(tx) \/ LoseTx(tx)

Spec == Init /\ [][Next]_vars

-----------------------------------------------------------------------------
(* Properties                                                              *)

\* An orchestrator that passed its check signs and claims with two keys that
\* one validator has registered together, so that confirmHandlerCommon finds
\* the Ethereum address that signed. Other operators may have registered the
\* same Ethereum key, and commands may have overwritten the keys file.
RunsOnDelegateKeys ==
    running # None =>
      \E w \in DOMAIN EthAddressByValidator :
        /\ EthAddressByValidator[w] = running.eth
        /\ running.orch \in DOMAIN KeyOrchestratorAddress
        /\ KeyOrchestratorAddress[running.orch] = w
=============================================================================
