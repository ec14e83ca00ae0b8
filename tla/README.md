# TLA+ models of the NAB bridge

The Near-Aurora bridge (NAB) moves tokens between Ethereum and a Cosmos chain. It
is a fork of the Gravity bridge and consists of a Solidity contract, a Cosmos SDK
module and a Rust program that every validator runs. This directory holds TLA+
models of its core, TLC configurations that check them on small instances, and
TLAPS proofs of the properties that matter most for instances of every size.

All paths below are relative to the repository; `x/nab` is `module/x/nab`.

## 1. Inventory

### 1.1 Components, their state and operations

| Component | Code | State | Operations |
|---|---|---|---|
| Oracle | `keeper/attestation.go`, `abci.go`, claim handlers of `msg_server.go` | attestations by (event nonce, claim hash) with votes; last observed nonce and heights; last nonce per validator | claim messages, `attestationTally`, `TryAttestation`, `pruneAttestations` |
| Outgoing pool | `keeper/pool.go` | unbatched transfers by (token, fee, id); id counter | `SendToEth`, `CancelSendToEth` |
| Batches | `keeper/batch.go`, `abci.go` | batches by (token, nonce), index by block; nonce counter; past checkpoints | `RequestBatch`, `OutgoingTxBatchExecuted`, `cleanupTimedOutBatches` |
| Attestation handler | `keeper/attestation_handler.go` | bank balances, denom mapping, last observed valset | one case per event |
| Denoms | `keeper/cosmos-originated.go`, `types/ethereum.go` | denom <-> ERC20 mapping, permanent swap | lookups, `setCosmosOriginatedDenomToERC20` |
| Validator sets | `keeper/keeper_valset.go`, `hooks.go` | valset requests, latest nonce, last unbonding height | `createValsets`, `pruneValsets` |
| Confirmations, slashing | `keeper/keeper_batch.go`, `keeper_logic_call.go`, `abci.go` | confirmations; last slashed nonce and blocks | `ValsetConfirm`, `ConfirmBatch`, `ConfirmLogicCall`, the slashing passes |
| Evidence | `keeper/evidence.go` | past checkpoints | `SubmitBadSignatureEvidence` |
| Logic calls | `keeper/keeper_logic_call.go` | calls by invalidation id and nonce | timeout, execution |
| Delegate keys | `keeper/keeper_delegate_key.go` | validator, orchestrator and Ethereum keys | `SetOrchestratorAddress` |
| Genesis | `keeper/genesis.go` | - | `ExportGenesis`, `InitGenesis` |
| Contract | `solidity/contracts/Gravity.sol`, `CosmosToken.sol` | valset checkpoint, last nonces per token and invalidation id, event nonce, ERC20 balances | `updateValset`, `submitBatch`, `submitLogicCall`, `sendToCosmos`, `deployERC20` |
| Oracle loop | `orchestrator/orchestrator`: `main_loop.rs`, `ethereum_event_watcher.rs`, `oracle_resync.rs`; `gravity_utils/types/ethereum_events.rs` | last checked block | search for the last claimed event, polling, decoding, claims of a round in one transaction |
| Signer loop | `orchestrator/main_loop.rs`, `cosmos_gravity/query.rs`, `send.rs` | none between rounds | sign validator sets, the oldest batch, the oldest logic call |
| Relayer | `orchestrator/relayer`, `ethereum_gravity` | none between rounds | relay a validator set, the batches of each token, a logic call; estimate, market, send, wait |
| Signing | `gravity_utils/types/*.rs`, `ethereum_gravity/message_signatures.rs`, `types/*.go`, `Gravity.sol` | - | checkpoints of sets, batches and calls in three languages, `order_sigs`, `checkValidatorSignatures` |
| Command line | `nabt`, `gravity_utils/connection_prep.rs` | `keys.json`, connections | coming up, keys, registration, deposit, withdrawal, ERC20 deployment |
| Queries, generated code, chain application, test runner | `grpc_query.go`, `*.pb.go`, `app/`, `test_runner/` | none of the protocol | - |

### 1.2 How they interact

A user locks or burns coins with `SendToEth`; the transfer waits in the pool until
somebody requests a batch for its token. Validators sign the batch, a relayer submits
it to `Gravity.sol`, the contract pays and emits an event with the next *event nonce*.
Every orchestrator reads the logs and submits each event as a claim; when validators with 66%
of the power have claimed it, the EndBlocker hands it to the attestation handler,
which deletes the batch. Deposits travel the same way, without a batch. The two
chains share nothing else: Cosmos knows a prefix of the event log, Ethereum knows
the batches whose signatures someone shows to it.

### 1.3 What is hard

* **Staleness.** Cosmos acts on the Ethereum height of the last event it observed. A
  batch is cancelled by timeout only when the *contract* can no longer execute it.
* **Late and old messages.** The signatures of a batch stay valid after Cosmos deleted
  it; only the timeout and the order of nonces protect its transfers, which may be
  back in the pool, in another batch, or refunded.
* **Panics.** A panic in the EndBlocker stops the chain. Unknown batches,
  transfers that return to the pool twice, and attestations that are observed twice
  all panic.
* **Votes.** Validators retry, lag, disagree and lose power between vote and tally.
* **Restarts.** Genesis export leaves out some counters and rebuilds others.
* **Sums.** Vouchers, locked coins and what is under way must add up at all times.
* **Awaits.** The loops of the orchestrator read a nonce, a height or a validator set,
  wait, and use it: blocks, reorganisations, competitors, their own late transactions and
  crashes come in between.
* **All or nothing.** Claims of a round, and confirmations of all unsigned validator
  sets, are one transaction that one bad message fails as a whole, every time.
* **Four encodings.** What is signed is encoded in Go, twice in Rust and in Solidity;
  logs are decoded by hand at computed offsets.
* **Windows.** Slashing works with cursors and windows in blocks, while sets are
  created and pruned and validators join, leave and return in the same EndBlocker.

The list of hazards, each at its line and with the properties that would catch it
going wrong, is in `PROJECT.json`.

### 1.4 What makes each component correct

* Oracle: every event is applied exactly once and in order, and only real events are;
  every event is applied in the end.
* Pool, batches, contract: a transfer is paid once or refunded once and never both;
  none gets lost; the EndBlocker never panics.
* Denoms and bank: every voucher is backed by a token in the contract, every ERC20 of a
  Cosmos denom by a locked coin.
* Validator sets: the contract's set follows the chain's and never goes back.
* Slashing: nobody is slashed before the window is over; everything is judged once.
* Oracle loop: no event is skipped, nothing is claimed that a reorganisation takes back,
  and every event is claimed in the end.
* Signer loop: everything the chain wants signed is signed in the end.
* Relayer: what the contract would accept does not wait forever; no gas is spent on
  what was bound to revert.
* Signing: all encodings agree; evidence punishes only what was never issued.
* Command line: a command that stopped can be run again without doing harm.
* Genesis: a restart changes none of the above.

## 2. Modules

```
EventOracle        what the oracle promises
  ^ refines
Attestations       votes, tally, pruning, restart          MCAttestations
  ^ extends
AttestationsProofs

BridgeData         tokens, transfers, batches, events
  ^                ^
NabKeeper          GravityContract
  ^                ^
  +---- Bridge ----+   composition, properties             MCBridge
        |   ^ extends
        |   BridgeProofs       batches, payments, panics
        |   ^ extends
        |   SettlementProofs   the refinement, the money
        v refines
        Transfers  what the sender of a transfer is promised

EthOracle          the loop that carries events to Cosmos  MCEthOracle
  ^ extends
EthOracleProofs
Slashing           validator sets, confirmations, slashing
  ^ extends  ^ extends
Signer       SlashingProofs                      (Signer: the loop that signs)
GravityPower       how much power is enough
  ^ extends        ^ extends
Relayer            Checkpoints                             MCRelayer
  ^ extends
RelayerProofs
Startup   DelegateKeys   EthClient   CosmosClient   Erc20Deploy
  Nabt             their composition
  ^ extends
Computations       with Checkpoints, EventDecoding, RelayMarket
  ^ extends                                                MCNabt
NabtProofs

SortedSets         a set of numbers as an ascending sequence
DataLemmas         greatest elements, sorting, sums over finite sets
                   (extended by all proof modules but BridgeProofs)
```

**Attestations.** One variable per store of `x/nab`. `votes` and `claim` are the
attestation under a nonce and a claim hash; an attestation exists when it has a vote.
A block is the phases `deliverTx` (claims), `tally` (the EndBlocker, no message can
come in between) and `betweenBlocks`; `BeginEndBlock` takes the powers that
the staking module fixes before the tally. The loop of `attestationTally` is one step
`TryAttestation` for every attestation it observes, and `FinishEndBlock` is possible
only when nothing is left to observe; it prunes. Orchestrators of honest validators
claim what the log says; faulty ones claim anything, in the order that
`Attest` forces on them. `RestartFromGenesis` is `ExportGenesis` followed by
`InitGenesis`: the nonces of validators are rebuilt from the votes.

**GravityContract, NabKeeper, Bridge.** The contract's log is the sequence `events`
and its index is the event nonce. The holders of tokens on Ethereum are one
balance. `NabKeeper` has one action per message and per part of the EndBlocker;
`Handle` has one operator per event. `ObserveEvent` is `TryAttestation` with enough
votes: by `DeliversEthereumEvents` the oracle delivers the events in order
and once, so `Bridge` lets the EndBlocker take the next event of the log
whenever it likes. `checkpoints` are the batches ever built: a relayer may submit any of
them at any time. `refunded` and `failed` are history variables.

A message that fails, and one that panics in `DeliverTx`, has no effect and is not a
step. A panic in the EndBlocker is `phase = "halted"`.

**EthOracle.** One step per await of `eth_oracle_main_loop`: from the
search of `get_last_checked_block` to the steps of `check_for_events` (`ReadHeight`, `ReadLogs`,
`ReadNonce`, `send_ethereum_claims`, `wait_for_tx`, `CheckNonce`). A block is a set of
events, whose order is that of their nonces. `loop` has the local variables that
live across awaits. Ethereum (`MineBlock`, `Reorganise`) and Cosmos (`DeliverTx`, `OthersObserve`) take steps in between; a call fails, a transaction is lost or the process
crashes at most `MaxFaults` times. The answer to a transaction that failed in a block may say so
or not, since the code says that it cannot trust it.

**Slashing, Signer.** `Slashing` is the chain as one validator sees it: the three
stores of things to sign, the index of batches by block, the cursors, and an `EndBlocker`
that takes the staking module's turn, judges, creates and prunes in the code's order.
`Signer` adds the loop `eth_signer_main_loop` and a mempool with room for one transaction
of the account.

**Relayer.** `Round` is an iteration of `relayer_main_loop`, with one worker per part
(validator set, two tokens at a time, logic call). A worker chooses (`find_latest_valid_valset`,
`get_batches_and_signatures`, `relay_logic_calls`), estimates, may be held back by the market, sends
and waits. A plan says what Cosmos issues and when it times out; signatures
arrive in any order, and competitors submit what the contract accepts.

**Checkpoints, EventDecoding, RelayMarket.** What is computed. A hash is what is
hashed, so that two hashes agree exactly when the encodings do; `Checkpoints` goes the
way from the store over `from_proto`, signing, `order_sigs` and the transaction to
`checkValidatorSignatures`, and back with evidence. `EventDecoding` writes a log word by
word, with a destination of any bytes and a height of any size, reads it at the offsets of
`ethereum_events.rs` and builds the claim as `send_ethereum_claims` does.

**Startup, DelegateKeys, EthClient, CosmosClient, Erc20Deploy.** The commands of `nabt`
against nodes, chains and mempools that fail, delay and replace, and users who run a
command again.

**Nabt, Computations, MCNabt.** `Nabt` puts the five modules of the commands side by side,
`Computations` adds the three of what is computed: `part` says of which one a behaviour is, and
the variables of the others are `None`. `Computations` also says what Cosmos may issue and the contract
may emit (`IssuedValsets`, `EmittedErc20s`, ...): sequences of any length, any numbers. `MCNabt` chooses
finitely many of them for TLC.

### Abstractions

* Signatures and validator sets on Ethereum are abstract: a batch that was built is
  one that enough validators have signed. Without bad validators no
  other batch has signatures.
* Amounts are positive; `ValidateBasic` refuses others.
* The observed height is that of the event. (The claim hash of an executed batch
  leaves the height out, so strictly it is the height that the first voter
  claimed.)
* A token's contract and its denom are one model value. The denom that wNOM is swapped
  for is a native denom without an ERC20 of its own.
* Rewards of validator sets are in Cosmos tokens whose ERC20 Cosmos knows. `InitGenesis` insists on it;
  `RewardToERC20Lookup` does not, it takes vouchers too. So it is assumed that governance never sets
  the parameter to a voucher: `Handle` panics at the first such reward that it observes
  (`attestation_handler.go:165`). Under this assumption the panic, which is in the model, is
  shown unreachable.
* The queries of batches and calls stop after 100 (`grpc_query.go:171,183`); it is assumed that no more are
  waiting. In the relayer `get_latest_logic_calls` fails as a whole when one call has no transfers or fees
  (`logic_call.rs:69`); there all calls have both.
* `Bytes32` copies an invalidation id into 32 bytes, cutting or padding it as `batch.go:108-109` does; the
  ids that Cosmos issues are assumed to be of that size, as the contract's are.
* `GravityPower` counts powers exactly and lets `FloatSlack` stand for the rounding of `f32` at the
  boundary of 66%, which is in favour of the signatures.
* The caller of `SetOutgoingLogicCall` chooses the block of a call, and sets it to the height or leaves it zero.
* `checkpoints` survives `RestartFromGenesis`: it stands for the signatures, which
  validators and relayers have seen.
* The order of the transfers in a batch is left out; `pickUnbatchedTX` is
  specified by what it picks (the first of the pool by fee, then id).
* `blockHeight` stops at its bound instead of ending the behaviour, so that
  blocks go on and the liveness runs are not cut off.
* Logic calls are left out of `Bridge`: no operation of `x/nab` creates one. In
  `Slashing`, `Signer` and `Relayer` they appear by themselves.
* In `Slashing` one validator stands for all, since judging one reads nothing of
  the others; its powers are a choice of every block (`powerDiff`), as is the set observed
  on Ethereum.
* Delegate keys are fixed once registered (`SetOrchestratorAddress` refuses a second
  registration), so `Slashing` identifies a validator with its Ethereum key.
* In `EthOracle` six blocks of delay become one and a search window has three blocks.
  A reorganisation is never deeper than the delay, which is what the delay is chosen for.
* The mempools of both chains hold one transaction per account and nonce. In
  `EthClient` the command is not run unattended with a key that another program uses at
  the same time: then nothing keeps the nonces apart, and the code does not claim to.
* `EventDecoding` has words of three bytes; `U64MAX`, `U32MAX` and `U8MAX` are small. An array longer than
  `usize::MAX`, which the parser refuses, is longer than the data can be and is left out. The offsets
  are the code's, in words.

## 3. Runs

| Run | Instance | Shows |
|---|---|---|
| `oracle` | 3 validators (1 faulty), 2 events, 3 power distributions, window 0 | types, `NoDoubleVote`, `ObservedIsApplied`, `NeverHalts`, refinement of `EventOracle`, `EveryEventIsApplied` |
| `bridge_safety` | 1 Ethereum token (2 of it exist), 2 transfers with fee 0 or 1, 3 batches of size 1, 5 events, 3 heights | types, `NoDoubleSpend`, `NeverHalts`, `FullyBacked`, refinement of `Transfers` |
| `bridge_tokens` | an Ethereum token, wNOM and a Cosmos token with rewards, 2 transfers, 2 batches, 5 events | `NoDoubleSpend`, `FullyBacked`, `DepositsAreCredited`, `ExecutedBatchIsRemoved` |
| `eth_oracle` | 5 blocks, 3 events of 4 kinds, at most 2 in a block, 1 block reorganised at a time, 2 faults | `NoEventSkipped`, `ClaimsAreFinal`, `ResyncFindsTheLastEvent`, `EventsAreFerried` |
| `relayer` | 5 plans: overtaking batches that time out; 3 validator sets with changing powers; 3 of which one can have 66% and miss the threshold; 2 tokens and a call; 2 calls | `RevertsAreExplained`, `OldestFirst`, `ValsetsAreRelayed`, `ItemsAreRelayed` |
| `slashing` | 5 blocks, 2 batches or a batch and a call (they share the key 2) in the first 2, windows of 1 and 2 blocks | `EveryValsetIsJudged`, `WindowIsGranted`, `EveryBatchIsJudged`, `LeaversSignTheirRemoval` |
| `signer` | 3 blocks, a validator set per block, in the first two things with the keys 1 and 2, each a batch or a call; a call with key 1 cannot be parsed | `EverythingIsSigned` |
| `nabt` | see `MCNabt` | `EveryoneSignsTheSame`, `NothingIsHeldBack`, `EvidenceIsJudgedRight`; `ClaimsSayWhatHappened`; `RelaysWhatPays`; `ComesUp`; `RunsOnDelegateKeys`; `DepositsAreApproved`, `DepositsAreMined`; `ShownMeansLocked`; `OneRepresentation` |
| `late_claims` | as `eth_oracle`, with logs that can be parsed | violated: see below |
| `batch_fees` | as `bridge_safety` | violated: see below |
| `cosmos_token_refund` | as `bridge_tokens`, without the Ethereum token | violated: see below |
| `genesis_restart` | as `bridge_safety`, with restarts | violated: see below |

What the properties of the newer modules say:

* `NoEventSkipped`: the last checked block never passes an event that Cosmos has no claim
  of, except in the step in which the loop takes a failed transaction for a successful one (`late_claims` shows
  that it does). `ClaimsAreFinal`: whatever was claimed is on the chain as it is now.
  `ResyncFindsTheLastEvent`: the search of a restarted loop panics only where the
  validator has never claimed anything, or at the log of a logic call. `EventsAreFerried`:
  while the logs can be parsed and the loop has not skipped one (`HasSkipped`), it catches up again and again.
* `RevertsAreExplained`: a transaction of the relayer reverts only if the contract
  or the height has changed since its estimate. `OldestFirst`: the batches of
  a token are tried in the order of their creation. `ValsetsAreRelayed`, `ItemsAreRelayed`: again and
  again there is no validator set, and no batch or call, that the contract would accept and that was not relayed. A
  set may wait behind a newer one that is in the gap between the two tests of power (`InTheGap`), a call behind a later call.
* `ExecutedBatchIsRemoved` and `EverythingIsSigned` have the same form: again and again the store holds no batch
  that was executed or overtaken, and nothing is unsigned but logic calls from one on that the loop cannot parse (`Blocked`).
* `EveryValsetIsJudged`: no set is pruned before it was judged. `EveryBatchIsJudged`: a batch
  that is alone in its block is judged when its window is over.
  `LeaversSignTheirRemoval`: once the window of it is over, whoever unbonds has signed the set
  that was made without it, or was slashed for it.
* `EveryoneSignsTheSame`: Cosmos accepts the signature that the orchestrator makes, and
  the contract accepts the same one. `NothingIsHeldBack`: what `order_sigs` refuses the
  contract would refuse. `EvidenceIsJudgedRight`: evidence slashes exactly for what
  was never issued.
* `RunsOnDelegateKeys`: an orchestrator that passed its check has two keys that one
  validator has registered together. `DepositsAreApproved`: no deposit is mined before
  the approval it needs. `ShownMeansLocked`: a transfer whose id the user is shown is in the
  bridge, unless an earlier transaction of the account was executed between the check of the balance and the broadcast
  (history field `overtaken`). `OneRepresentation`: all users are told of the same ERC20.
* `ClaimsSayWhatHappened`: a claim has the fields of its event, but only the last 20 of the 32 bytes of a destination (`Told`); what
  does not fit is an error or a panic.
* `ComesUp`: a command between two probes comes up at the first attempt if from then on every service answers at its url, or else at
  just one fallback, the chain moves and the accounts hold what is checked for, without other coins whose name contains the fee's denom.

**Bounds.** A batch holds one transfer, so that two transfers overfill it and two
batches can wait at once. Three batches let one transfer be batched, cancelled and
batched again while another waits. Three Ethereum heights give every order of a
timeout and an execution; block times and the target timeout are chosen so that
timeouts fall on both sides of the heights that occur, and the divisions round. Five events are the constructor's, two deposits and two executions or
timeouts. In the oracle, two of three equal powers pass and one does not; the window of
pruning is zero instead of 1000, so that pruning happens at once, and two of the
claims have one hash. In `eth_oracle` two faults let a crash follow a lost transaction;
in `relayer` equal powers need both signatures, those of the second plan change so
that a set can be submitted from one predecessor and not from another, and in the third 197 of 300 is enough for
the relayer and not for the contract, whose threshold is 198; in `signer` the two keys give every pair of a batch and a call,
so that a call can be behind one that cannot be parsed; in `slashing` five
blocks hold the creation, the window, the judgement and the pruning of a set, and a
validator that leaves, is jailed and returns; both batches may be of one block (they are issued in the
first two blocks, `MaxIssue`: a later one would not be judged by the fifth). In
`nabt`, validator sets have one to three members in every order, with powers
that reach, miss and exceed the threshold by one; strings end before, at and
behind the end of a word, destinations use the bytes of an address or more, heights lie around `U64MAX`; three runs of a command let one find the remains of two. The proofs show that nothing depends on these sizes for the
properties they cover.

**Deadlock.** TLC's deadlock check is on where something always goes on: blocks, polling
and rounds. It is off in `slashing`, which ends with its last block, and in `nabt`, where commands
end.

**Fairness.** `Attestations!FairSpec` assumes that consensus goes on (weak fairness
of the steps of the EndBlocker) and that an honest orchestrator, which polls
and retries every few seconds, gets its next claim into some block (strong
fairness: claims are possible in the message part of a block only). Nothing is
assumed of faulty validators. `Bridge!FairSpec` assumes blocks, and that the
oracle observes events in the end, which `EveryEventIsApplied` shows. No fairness
is assumed of users, relayers or Ethereum there.

`EthOracle!FairSpec`: the process keeps polling and is started again by its supervisor
(weak fairness of the loop and of `Restart` together), and a pending transaction is
delivered. Failures are bounded by `MaxFaults`, so they end. `Relayer!FairSpec`: rounds
are repeated, a transaction that was sent is mined, workers go on; the estimate of an item that can be made again and again
is made (strong fairness, since competitors and later rounds disable it). `Signer!FairSpec`:
the process is restarted; a query, a broadcast or a delivery that is tried again and again does not fail
forever (strong fairness). `Startup!FairSpec`: a command goes on by itself, and nothing more: no operator
who repairs or restarts, and no node that answers; what the world must grant is in the statement of `ComesUp`. `EthClient!FairSpec`: blocks are mined and the command does not stop
between two of its steps.

### Disagreements between code and comments

Shown by a run:

* `batch_fees`: `BuildOutgoingTXBatch` is documented to build a batch only when it
  has higher fees than the one that waits. `OutgoingTxBatch.GetFees` drops the sum it
  computes and returns zero, so the test never refuses.
* `cosmos_token_refund`: the refund of a cancelled transfer is in vouchers, also for
  a Cosmos token, whose native coins are the ones that are locked. The module
  account does not hold such vouchers and the cancellation fails.
* `genesis_restart`: `ExportGenesis` says that it exports all the state that is needed to
  restart the chain; the counters of transfers and batches and the observed heights
  are missing. A transfer with a reused id and the same fee is refused by
  `addUnbatchedTX` after its coins were taken, and the error is ignored.
* `late_claims`: `ethereum_event_watcher.rs:184-186` compares the nonce before and after the claims, "since we
  can't actually trust" the answer, and takes any difference for success. A late
  transaction of an earlier round, or the votes of others while the validator has none, hides a failed one: the last checked block
  moves past an unclaimed event, and the loop claims nothing more until it is restarted.

Met while modelling. The models follow the code, and the runs reach these cases unless it says otherwise; the
properties that would be violated excuse them in their statement, as said in brackets:

* `ethereum_events.rs:538`: the event of an executed logic call is `unimplemented!()`: every
  orchestrator panics at it after each restart [excused by `EventsAreFerried`]. Its claim would
  fall into the panic of `Handle` (`attestation_handler.go:170`).
* `valsets.rs:208-211`: `order_sigs` promises to "error early" when the votes do not suffice; it
  is satisfied with exactly 66% of the power, the contract wants more than its threshold [`NothingIsHeldBack` is
  the other direction]. So `find_latest_valid_valset` may settle for a set that the contract refuses
  while an older one would pass, against `valset_relaying.rs:37-40` [excused by `ValsetsAreRelayed`, `InTheGap`].
* `logic_call_relaying.rs:94` looks at the last signed call of the list only, also when it has been executed,
  and `:147` never relays a call with invalidation nonce zero, which
  `docs/design/arbitrary-logic.md:45` recommends [excused by `ItemsAreRelayed`: the last of the calls only;
  nonces in `MCRelayer` are positive].
* `submit_batch.rs:48` lets a batch through at the height of its timeout, where the contract
  refuses it; the estimate catches it.
* `keeper.go:224`: `GetUnSlashedLogicCalls` ignores the window, so calls are judged at once, against
  `genesis.proto:44-48` [`WindowIsGranted` is about sets and batches].
* `key.go:237`: batches are indexed by block alone; of two batches of a block one is never judged,
  against `spec/slashing-spec.md:21` [excused by `EveryBatchIsJudged`].
* `abci.go:222`: an unbonding validator is judged by every set of the window;
  `spec/slashing-spec.md:37` says that one signature is enough.
* `logic_call.rs:69`: a call without transfers or fees is an error for the signer and stays the first
  of its query, so that no later call is signed [excused by `EverythingIsSigned`, `Blocked`].
* `ethereum_events.rs:315-316`: of the 32 bytes of a deposit's destination the last 20 are claimed and the others dropped without
  a word, whatever they are [excused by `ClaimsSayWhatHappened`, `Told`]. `send_to_cosmos.rs:91` puts the zeros in front, so
  deposits of this client are not cut.
* `send.rs:264-318` unwraps `downcast_uint256` of a height, which refuses the greatest u64 that two of the parsers let through, and
  the other two do not look at the height at all: a panic [`ClaimsSayWhatHappened` allows it; no chain has such heights].
* `register_orchestrator_address.rs:128-134` loads the phrase that it saves from the disk after the wait, where `set-orchestrator-key`
  may have put another one; `check_delegate_addresses` then refuses to start.
* `register_orchestrator_address.rs:95-98`: when the wait times out, generated keys are neither shown nor saved,
  and the late registration cannot be replaced, although the message says "try again".
* `connection_prep.rs:78` panics when a node comes up between two probes or answers at both fallbacks, in a function that is
  documented as error resilient; `:335` takes any denom that contains the fee's for the fee [both excused by `ComesUp`].
* `send.rs:371` checks the balance and then broadcasts; a transaction of a command that timed out and was repeated may be executed
  in between, and an id is shown for a transfer that failed [excused by `ShownMeansLocked`, `overtaken`].
* `cosmos_to_eth.rs:106-114` pays for the batch request with coins that no check has covered; `send.rs:375`
  adds the Cosmos fee to the amount whatever its denom.
* `deploy_erc20.rs:15-16` says that a second deployment does nothing; it deploys another
  contract, whose event the chain refuses.
* `valset_relaying.rs:142` relays no reward in another token than WETH, whatever it is worth
  [`RelaysWhatPays` asks it of batches and calls only].

`IsMoreProfitable`, `RefundDenom` and `RestartFromGenesis` model the code as it is.
The other runs show that safety does not depend on the first two; they and the proofs
of modules BridgeProofs and SettlementProofs are about chains that are not restarted from a genesis export.

## 4. Proofs

All proof modules are built alike: an inductive invariant (`IInv`, in `SettlementProofs` also
`BInv`, in `NabtProofs` one per command and per computation), one lemma per action, and the theorems as
corollaries. They hold for every value of the constants that satisfies the named assumptions
(`ConstantsAssumption`, `BridgeDataAssumption`, `ContractAssumption`, `KeeperAssumption`,
`BridgeAssumption`, `OracleAssumption`, `WindowAssumption`, `PowerAssumption`, `PlanAssumption`,
`NabtAssumption`, `AddressAssumption`, `SubjectAssumption`, `SignatureAssumption`, `DecodingAssumption`,
`MarketAssumption`), which TLC evaluates in the runs. The bounds of the runs are constants too, so
a theorem is about every size. Two theorems need more, and say so in their statement:

| Hypothesis | of | because |
|---|---|---|
| `FaultyAreFew` | `OracleDelivers` | no quorum of faulty validators alone: what the bridge trusts |
| callers that share a key wait between approval and deposit | `DepositsFollowApproval` | as the library's callers do; nothing else orders the two |

The instances of the runs satisfy both.

**AttestationsProofs**: `TypeCorrect`, `NobodyVotesTwice`, `AppliedOnceInOrder`,
`ChainNeverHalts`, and the refinement `OracleDelivers`. `NoDoubleVote` is not inductive: it needs that the stored nonce of
a validator is at least what it has voted for (`VotesAreRemembered`), also
after a restart, where a nonce is rebuilt from the votes only if it is above the
default; and that an attestation holds a claim of its own hash (`ClaimIsStored`). The
refinement is the quorum argument: the power of an attestation is the sum over its votes, which
are of different validators (`NoDoubleVote`); if none of them is honest it is at most that of
the faulty ones, so what passes the tally has an honest vote, and honest votes are
for what the contract's log says under that nonce (`HonestVotesAreTrue`).

**BridgeProofs**: `BridgeTypeCorrect`, `TransfersArePaidOnce`, `BridgeNeverHalts`. The
argument: the log is ordered by height (`HeightsIncrease`) and, for one token, by
batch nonce (`ExecutedInOrder`). A batch leaves the store for one of two reasons only
(`RemovedForAReason`): an event above its timeout was observed, or the execution
of it or of a later batch of its token was. Both events precede everything that Cosmos
has not observed (`ObservedPrefix`), so an unobserved execution is one of a batch
that is still in the store (lemma `UnobservedIsStored`). Its transfers are in
no other place (`InOnePlace`), and a payment that was observed is over
(`SettledIsSettled`). Hence `NoDoubleSpend`, and `OutgoingTxBatchExecuted` always
finds the batch. The proof uses `block.number < _batchTimeout` of the contract
against `BatchTimeout < ethereumHeight` of the EndBlocker, and nothing of
how the timeout is computed.

**SettlementProofs**: `TransfersAreSettled` (the bridge implements `Transfers`),
`BridgeIsBacked`, `DepositsNeverFail`. A transfer is *open* while it is in the pool or a stored batch and
no event has paid it. `SendToEth` opens one, `CancelSendToEth` closes one, `submitBatch` closes those of
a batch, and all the rest of `x/nab` only moves open transfers about; that the batch which
Ethereum executes is still stored is `UnobservedIsStored` again. The three steps are those of
`Transfers`, the rest stutters. The money is the same argument with sums: `FullyBacked` equates balances with what
is open and what is deposited and not yet observed, and each of the four kinds of steps changes both sides
alike. `BInv` adds to `IInv` what that takes: balances are natural numbers (`MoneyTypeOK`; that the
contract and the module account can always pay is part of it), sums are over
finite sets (`TransitIsFinite`), a Cosmos token is bridged only after Cosmos has adopted its ERC20
(`TokensAreKnown`), no vouchers of such tokens exist (`NoVouchersOfCosmosTokens`), and
`Solvent`: at every later point of the log the coins locked and the rewards until there cover the deposits
until there. `FullyBacked` alone does not give `DepositsAreCredited`: it speaks of the whole log at
once, while the deposits are paid out one event at a time, before the rewards behind them.

**SlashingProofs**: `ValsetsAreJudged`, `WindowsAreGranted`, `BatchesAreJudged`, `LeaversAreHeld`. Sets are
stored in the order of their blocks (`ValsetsInOrder`) and nothing behind a cursor is
unjudged (`JudgedUpToCursor`): so a set that is old enough to be pruned was judged in the same or in an
earlier EndBlocker. The index by block finds every batch that did not share its block
(`IndexFindsBatches`, `IndexIsJudged`). A leaver owes the set of the block in which it began to unbond, which is still in
the store before the cursor or has been judged against it (`LeaverIsAsked`); it is kept by
joining, leaving and jailing in any order because the EndBlocker makes a set in the very block of the unbonding.

**RelayerProofs**: `RevertsExplained`, `BatchesOldestFirst`. What was estimated is sent with the
signatures and the set of that estimate (`OnlyEstimatedIsSent`, `PoolIsEstimated`), so that a revert
needs a change of the contract or of the height; the work list of a token stays sorted
(`BatchesAreSorted`), and a round starts with empty lists (`RoundStartsIdle`).

**EthOracleProofs**: `OracleSkipsNothing`, `OracleClaimsFinalEvents`, `ResyncSucceeds`. The nonces of later blocks are later
(`NoncesGrow`); what was read, sent or claimed is deeper than any reorganisation (`ReadIsFinal`, `BlocksExist`). At
each await of a round every event up to the block it will move to is known to Cosmos or among what is being claimed
(`RoundIsComplete`), and all are known once its transaction was executed; only one that is in a block leads to the check of the nonce
(`FoundInBlock`); the search of a restart is for a nonce whose predecessors are known
(`SearchIsForKnown`), so that starting again from its block skips nothing.
The third theorem is an action property, of every restart. Its invariant `RInv` adds
that events are numbered without gaps (`Contiguous`), that the loop could parse all blocks from one that holds a nonce
at or below the searched one (`RangeIsParsed`), and so that whatever Cosmos may be asked for, now or once the pending transaction
is executed (`Searchable`), is an event a search finds (`ClaimsAreReadable`) below the block where it stands
(`SearchIsAbove`). A transaction of the old process may be executed while the new one searches: so
it is not enough to speak of what is claimed.

**NabtProofs**, the commands: `KeysStayRegistered`, `ReportsAgree`, `DepositsFollowApproval`,
`ShownTransfersAreLocked`. A step is one of the part that the behaviour is of (lemma `PartSteps`). Reported contracts
are the adopted one (`ReportsAreOfTheAdopted`); a deposit waits behind an approval in the mempool or in the state of the
token (`DepositsBehindApproval`); what a command checked is still so when its transaction is executed,
unless it was overtaken (`ChecksAreFresh`).

**NabtProofs**, what is computed, for inputs of every size:

* `EncodingsAgree`, `RelayerHoldsNothingBack`, `EvidenceIsJudged` (module `Checkpoints`). `SigInv`: the stored confirmations
  are signatures of registered addresses over the checkpoint of what was issued. The encodings are compared kind by kind
  (`ValsetEncoding`, `BatchEncoding`, `HashIsCheckpoint`). What is parsed and written again is what was issued
  (`RoundTrip`), and different subjects have different checkpoints (`CheckpointsDiffer`), so that
  evidence is judged by what was signed. `get_hashmap` and the order of the contract's validators lose no
  signature (`TheirSigs`, `OrderedSigs`), the validator set that the relayer rebuilds from the log is the one whose
  checkpoint the contract keeps (`ValsetOfTheContract`, `ContractHash`), and the power that `order_sigs` adds up is the power of
  those who confirmed (`GoodPower`). Then `66 * TotalPower <= 100 * PowerThreshold` (`PowerAssumption`, the
  deployer's threshold) gives that what misses 66% misses the threshold.
* `ClaimsAreRight` (module `EventDecoding`). `Holds` says which bytes are at an offset of the data. The words of a list of numbers are at
  the multiples of `WordSize` (`WordsHold`), a fold over the bytes of a word reads its number back (`DigitsAreRead`,
  `WordIsRead`), the second array of a validator set starts where `PowersOffset` says (`ArraysAreRead`), and rounding
  the end of a string up to a word finds the next string, because every string starts at a word
  (`RoundUpShift`, `StringIsRead`). So each claim has the fields of its event, with the end of its destination, or is an
  error or a panic exactly if a number, a height or a string is out of range (`RightClaim`).
* `MarketPays` (module `RelayMarket`). The loop over the fees of a call has added up what it is through with and is not yet above the
  cost (`MarketInv`); it stops at the first sum above it, and the rest can only add to that (`SumSubset`).

Assumed of the constants there: addresses are not zero, the transfers of a batch are of its token, all-zero bytes are not a
signature, `Err` and `None` are none of the values they stand beside, and `PrefixSize < WordSize`.

**DataLemmas**: the facts about numbers, sorting and sums that the others cite. The prover cannot use the induction
theorems of its library. `LeastNat` (every nonempty set of natural numbers has a least element) replaces
them: a counterexample to a claim about finite sets would have a least cardinality, and one about a recursive function a
least argument. So sums over
finite sets are shown not to depend on the order of summation, and to be additive.

**Model-checked only.**

* Liveness: `EveryEventIsApplied`, `ExecutedBatchIsRemoved`, `EventsAreFerried`, `ValsetsAreRelayed`,
  `ItemsAreRelayed`, `EverythingIsSigned`, `ComesUp`, `DepositsAreMined`. The prover has no rules for fairness.
* The four disagreements of section 3, which are counterexamples.

## 5. State and plan

Done: the oracle, the pool and batches against the contract, deposits, denoms, rewards,
restarts, the oracle loop, the signer loop, the relayer, slashing,
signing, decoding and the commands of `nabt`, model-checked; every invariant, every action property and both refinements
that a run checks are proved. Left, in this order:

1. **Validator sets after a restart**: `ExportGenesis` lists them in descending order and
   `StoreValsetUnsafe` sets the latest nonce at each.
2. **Heights of claims**: the claim hash of an executed batch leaves the height out, so that a faulty
   first voter chooses the observed height.
3. **Timeouts of logic calls** on Cosmos, once a module of the chain creates them.

## 6. Not modelled

Cryptography, gas and the fees of the two chains; the arithmetic of a validator set's powers
(`GetCurrentValset`, `PowerDiff`); the cancellation of logic calls, which nothing in
the repository creates; reorganisations of Ethereum below the block
delay of the orchestrator; queries that no loop waits for, the command line of the chain, the wiring
of the application, parsing of arguments and files, generated code (the protocol buffers in Go and
in `gravity_proto`), the test runner and deployment scripts: they keep no state of the protocol. The
status of every part is in `PROJECT.json`.
