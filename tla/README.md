# A TLA+ model of the Namada ledger

This directory holds a verification development of the ledger in `src/crates`
(version 0.35.1): TLA+ modules translated from the Rust code, TLC
configurations that check them on small instances, and proofs that the TLAPS
proof system checks for every instance. `PROJECT.json` maps each definition to
the lines it models.

- [The system](#the-system)
- [Modules](#modules)
- [Runs](#runs)
- [Proofs](#proofs)
- [Where code and documentation disagree](#where-code-and-documentation-disagree)
- [What is not modelled](#what-is-not-modelled)
- [What could come next](#what-could-come-next)

## The system

A Namada node is a replicated state machine under CometBFT. CometBFT decides
blocks of transactions and calls the node's *shell*; all nodes must compute the
same state from the same blocks, and a node that stops must recover to a state
from which replaying the uncommitted part gives the same result.

| Part | Where | State | Operations that change it |
| --- | --- | --- | --- |
| Write log | `state/src/write_log.rs` | modifications of the current transaction (temporary, current, precommitted), of the block, replay hashes, events, address generator | writes and deletes by transactions and by the protocol, account creation, precommit, commit, drop |
| Storage state | `state/src/wl_state.rs`, `state/src/lib.rs` | write log, in-memory block state, database | block commit, epoch update, load at start |
| Shell | `apps/src/lib/node/ledger/shell` | the storage state, the temporary log of a validation | ProcessProposal, FinalizeBlock, Commit |
| Transaction protocol | `namada/src/ledger/protocol/mod.rs` | none of its own | wrapper fee and unshielding, inner transaction, validity predicates |
| Epochs | `state/src/wl_state.rs`, `core/src/storage.rs` | epoch, countdown, thresholds, first heights | `update_epoch` at the start of each block |
| Proof of stake | `proof_of_stake/src` | per epoch: consensus and below-capacity sets, positions, states, keys, stakes; queued slashes | staking transactions, evidence, absence, slash processing, the copy into a new epoch |
| Epoched data | `proof_of_stake/src/epoched.rs` | a map from epochs, its last update, its oldest epoch | writes at an offset, which also trim |
| Liveness tracking | `proof_of_stake/src/lib.rs` | missed heights and their count per validator | the votes of each block, jailing, pruning at an epoch's start |
| Block space | `shell/block_alloc.rs` and its states, `prepare_proposal.rs`, `process_proposal.rs` | bins for bytes and gas | PrepareProposal, ProcessProposal, CheckTx |
| Database | `storage/rocksdb.rs` | column families, diffs, tree stores | the batch of a block, rollback |
| Ethereum bridge | `ethereum_bridge/src`, oracle, vote extensions | vote tallies, event queue, bridge pool, signed roots, nonce | protocol transactions, block commits, the relayer on Ethereum |
| Governance | `shell/governance.rs`, `governance/src` | proposals, votes, escrowed funds | proposal and vote transactions, execution at an epoch's start |
| Compilation cache | `vm/wasm/compilation_cache` | modules in memory and in files, a progress map | calls by block execution and dry runs, background compilation |
| Rewards, IBC, shielded pool, gas, client | other crates | see `components` in `PROJECT.json` | |

How they interact. A wrapper transaction is validated in ProcessProposal on a
temporary write log over the last committed state. When its block is decided,
FinalizeBlock first updates the epoch, lets proof of stake process evidence and
slashes, then executes each wrapper: it writes the wrapper's hash, charges the
fee (which commits to the block's log), runs the inner transaction, and
commits or drops what that wrote. Validator set changes are returned to CometBFT
in the block that starts the countdown to an epoch, and CometBFT uses them two
blocks later. Commit writes the block's log, the replay hashes and the in-memory
block state in one database batch.

What is hard about it, and therefore what the properties are about:

- the same transaction can arrive under several wrappers, in one block or in
  several; validation looks at another state than execution;
- a transaction can end in eight ways, each of which has to settle its writes
  and its hashes;
- a node may stop anywhere between two steps and replay;
- the ledger's epoch and CometBFT's validator set change with a delay of two
  blocks and must change together;
- validator sets of several epochs are changed at once by operations whose
  effect starts at different epochs;
- a parameter can change between the moment data is written and the moment it
  is read: the window of missed votes, the epochs that are kept, the funds of a
  proposal;
- what the bridge votes on happens on another chain, whose contract may be ahead
  of the ledger, while transfers are refunded and tallies expire;
- rollback puts the previous block together again, family by family;
- threads share a cache in memory and on disk, with waits under locks.

The individual hazards are in `PROJECT.json`, each at its line, with the
property that covers it or the reason why none does.

## Modules

Values first, then a state machine over them, then an instance:

```
WriteLog ── WlState ── MCWlState          WlStateProofs
   │           └ refines TxStore
   └────── Shell ── MCShell               ShellProofs
Epochs ── EpochSwitch ── MCEpochSwitch    EpochSwitchProofs
   └── ValidatorSets ── Staking ── PosChain ── MCPosChain

PosLiveness ┐                             PosLivenessProofs
EthBridge   │                             EthBridgeProofs
RocksDb     ├── MCParts
BlockAlloc  │
Governance  │
EpochedData ┘
MCShell, CompilationCache ── MCLiveness   CompilationCacheProofs
```

**WriteLog** has the write log as a record and its methods as operators, so that
`WlState` and `Shell` use the same definitions. A layer is a total function with
`NoMod` for an absent entry. Gas and size differences are left out.

**WlState** is the storage state machine: one action per host function that
changes storage, per method that ends a transaction, per protocol write, and
`CommitBlock` and `Restart`. The address generator is a position; `vp_key`
gives the account of each position. `CommitTx` has a guard from the validity
predicates: the VP of a touched account is looked up, and a transaction that
touches an account without one is rejected.

**TxStore** is the abstract specification: four views (durable, prior state,
savepoint, current) and the operations on them. `WlState!ImplementsStore`
is the refinement, through the views that readers of the storage have.

**Shell** has a set of nodes, the chain of decided blocks, a proposal under
validation, and per node what it holds in memory and on disk. `ProposeTx` is one
step of ProcessProposal, `FinalizeTx` one transaction of FinalizeBlock, `Commit`
the batch, `Crash` a stop and restart at any point. A wrapper has a payer, a
fee, an unshielding amount, an inner transfer, and a way in which the inner
transaction ends under it. History counters (`applied`, `charged`, `drained`,
`events`) are stored with the node's state and influence nothing.

**Epochs** and **EpochSwitch**: the countdown, thresholds and first heights as
operators, and a node that follows a chain with arbitrary header times and
changes of the duration parameter, crashes, and replays. A validator set is
named by its epoch: `valset[h]` is the epoch of the validators that CometBFT
uses at height `h`.

**ValidatorSets** has the sets of all epochs as a record and the operations of
`validator_set_update.rs` as operators. **Staking** has the transactions, jailing
and slashing on top of it and the updates for CometBFT. **PosChain** runs them on
a chain: `BeginBlock` is everything FinalizeBlock does before transactions (copy
of the sets, evidence, slashes, absences, in this order), then transactions, then
`EndBlock`, which sends the updates. The countdown is that of `Epochs`.

What is abstracted in the staking modules: delegators and the composition of
bonds, so the amount of a slash is an input bounded by the stake and by what was
redelegated, and the check against chained redelegations, which is per delegator,
is absent; which validators have been absent for too long is an input
(`PosLiveness` decides it); old epochs are never trimmed (`EpochedData` has the
trimming); evidence is of this epoch or the last, so the case of outdated
evidence does not occur; commission, metadata, rewards and withdrawals are left
out.

**PosLiveness** is the other side of that input. `FinalizeVotes` is the proof-of-stake
part of FinalizeBlock: the copy of the sets, evidence, the record of missed
votes, jailing, and pruning in the first block of an epoch. Of the sets it keeps
the states of a validator in the last epoch, this one and the two to come; what
slashes and staking transactions do to them is a choice bounded by what
`Staking` allows. The parameter `liveness_window_check` may change in the first
block of an epoch, when governance runs. `voted` is history.

**RocksDb** has the column families as a record: the key space, the diffs, the
values that change with every block and their predecessors, the two buckets of
hashes, and the stores of the Merkle tree. `CommitDbBlock` is the batch with the
diffs of its keys and the pruning in the first block of an epoch;
`load_last_state` starts the node and rebuilds the tree from the last stored one
and the diffs; `Rollback` is the command. A tree stands for the values it
commits to. Since a batch is atomic, a crash is `StopNode`.

**EthBridge**. `ApplyEthEvents` is a protocol transaction with one validator's
events: votes are added up, and an event that reaches its quorum is acted on,
for a transfer to Namada through the queue that puts nonces in order, for a
batch to Ethereum by removing the transfers, refunding those that have waited
too long, and incrementing the nonce. A failure drops the writes of the
transaction, not the queue, which is in memory. `CommitBridgeBlock` ends a block,
`CompleteRoot` stores a pool root with its quorum, `AddToPool` is the user's
transaction. `TransferToNamada` and `RelayBatch` are the contract on Ethereum
(external), which accepts a batch of a signed root under the nonce it expects.
Transfers to Namada that give back escrowed NAM are left out, and so is the error
they can end in, which drops the transaction like the one of a batch.

**BlockAlloc** has the bins as records, the three batches of PrepareProposal, the
checks of ProcessProposal that depend on the order of transactions or on time,
and the mempool with the re-check of CometBFT (external) after a commit.
A protocol transaction goes stale when its event is seen through another.

**Governance**. `InitProposals` is a transaction that the validity predicate
accepts: a deposit of at least the minimal fund, and any number of proposals, of
each of which the funds are the whole deposit. `init_proposal`, which wallets
use, makes one proposal for the minimal fund. Transactions that write keys of a
stored proposal are left out. `NewGovEpoch` tallies and executes what is due,
proposal by proposal: the code of a proposal writes to the transaction log,
which is committed or dropped; payments, refunds and burns follow. A refund that
the account cannot pay is an error of FinalizeBlock, after which the model
stops. `ChangeBond` and `JailValidator` change stakes and states meanwhile; the
total active stake is a sum of deltas of its own, to which bonds with a
validator that is jailed at the pipeline epoch do not count. The decimals of `mul_ceil` with two thirds
are an exact ceiling, with which they agree for amounts below their precision.

**EpochedData** has the two kinds of epoched data, `EpochedDelta` and `Epoched`,
with their look-ups, writes and trimming, while the number of past epochs
changes. History keeps every write untrimmed.

**CompilationCache** has threads. A caller goes through `fetch_or_compile` in
steps between two lock operations; for transactions there is one caller at a
time, validity predicates run in parallel; handles are read-write in block
execution and read-only in dry runs. `InitChain` starts the background
compilations. A write of a file has two steps, so that a crash can cut it
short; a background thread may panic.

**MCParts** puts the six components without common state side by side: a
behaviour is a behaviour of one of them. **MCLiveness** does the same for the
shell and the compilation cache, which have liveness properties.

## Runs

Run from this directory, for example `tlc -workers 2 -config Shell.cfg MCShell`.
For each property of a passing run `PROJECT.json` names a mutant: a plausible
fault of the code under which TLC finds that property violated.

| Run | Config | Question |
| --- | --- | --- |
| `wl_state` | `WlState.cfg` | Does the layered log implement the transactional store? |
| `shell` | `Shell.cfg` | Are transactions applied and charged at most once, and do nodes agree? |
| `liveness` | `Liveness.cfg` | Does every node commit every decided block, and does every call of the compilation cache return, with a module? |
| `epoch_switch` | `EpochSwitch.cfg` | Do ledger and CometBFT change validators in the same block? |
| `pos_sets` | `PosSets.cfg` | Do staking transactions and absences keep sets, states and CometBFT consistent? |
| `pos_slash` | `PosSlash.cfg` | Do evidence, slashes and redelegations? |
| `parts` | `Parts.cfg` | Six components, each with its own questions |
| `shell_drain`, `pos_same_block`, `db_rollback`, `bridge_nonce`, `epoched_shrink` | | [disagreements](#where-code-and-documentation-disagree) |

**wl_state** (60 thousand states). One data key, one account to be created, one
value, one hash, one event. `FreshAddress`: the generator's next account has no
VP yet. `VpNeverDeleted`: no step removes a VP from the database.
`ImplementsStore` and `OperationsMatch`: every method acts on the views as an
operation of the store, and as its own. One account and one value suffice
because layers never compare values, and because the theorems below cover the
rest. Deadlock is checked: a block can always be committed.

**shell** (100 thousand states). Two nodes (symmetric), three blocks of at most
two transactions, seven wrappers over three inner transactions: one inner
transaction under three wrappers and two payers, one paid by the proposer's own
account, one that empties the shielded pool before another wrapper needs it;
wrappers that end unauthorized, out of gas, rejected, or without the funds.
`NoPanic`: no `expect()` on replay protection fails. `AppliedOnce`,
`ChargedOnce`: at most once in the life of the chain. `SupplyConserved`: balances
add up at every moment, through the log and in the database. `ReplicasAgree`:
nodes at the same height hold the same state, whatever crashed; its hypothesis
that no wrapper failed to pay its fee is needed, as `shell_drain` shows. Three
blocks are enough for a hash to go from the log to the current bucket, to the
general one, and to be looked up there. Two transactions are enough for one to
change what the next one of its block finds in the log; with `MaxBlockTxs = 3`
TLC finds no error either (507 thousand states).

**liveness** (41 thousand states). The shell with two blocks of at most two
transactions, and the cache with two callers, two codes of which one does not
compile, one place in memory and one crash: enough for a module to be evicted
and loaded again, for a caller to wait for another or for a background thread,
and for a file to be cut short.

- `CatchUp`: once nodes stop crashing, all of them commit the whole chain. The
  fairness is that of CometBFT, which delivers a decided block, again after a
  restart, until the node has committed it: a node that can take the next step
  of a decided block eventually takes one. Nothing is assumed of proposals or of
  crashes.
- `CacheConsistent`: no two threads compile a code for the files at a time, what
  is in memory was compiled, a code that is marked `Done` has a file that loads,
  and a code that compiles never makes a call return without a module. The
  exception is a file that a crash cut short, which an InitChain that is run
  again takes for a compiled module.
- `CallsReturnUnlessBlocked`: every call returns. The fairness is weak fairness
  of each thread that can take a step, which the operating system's scheduler
  gives; new calls, panics and crashes are up to the environment. Two waits can
  last for ever, and the property names them: a background thread
  that panics leaves its code marked, and a read-only `compile_or_fetch` waits
  under its read guard of the progress map (`common.rs:326`) for a thread that
  needs the write lock to report that it is done.

**epoch_switch**. Eight blocks, header times one or three apart, two durations
between which governance changes at any block. `ValidatorsMatchEpoch`: each
height is voted on by the validators of its own epoch. `UpdateEpochIsFirstUnsent`:
jailing starts in the first epoch whose set CometBFT has not been sent.
`PredEpochsAgree`: the look-ups of the epoch of a height return the epoch the
height was finalized in. `ValsetUpdWithinEpoch`: the second block of an epoch, in
which the bridge's validator set update is voted on, is in that epoch.
`ReplayRepeats`: a replayed block repeats its epoch and its validators.
`DurationFixedInEpoch`: a change of the parameter does not move the end of the
running epoch. Deadlock is checked, a crash being always possible.

**pos_sets** (189 thousand states). Four validators, two slots, one validator
below capacity and one that is not yet a validator; a pipeline of two epochs;
three transactions (all but redelegations) or absences in the first three epochs.
`NoPanic`: no `expect()` of the set operations fails. `StatesMatchSets`: in each
epoch of the pipeline a validator is in a set exactly when its state says so,
once, with its stake and position. `LargestStakes`: the pipeline epoch's consensus set holds the largest
stakes. `CometInStep`: CometBFT's set, with keys and powers, is the consensus set
of the running epoch. `UpdatesAccepted`: no key is sent twice and none is removed
that CometBFT does not have. Three operations are enough for two to interfere in
an epoch in which a third is already pending.

**pos_slash** (202 thousand states). Four validators, two of them below capacity,
six epochs; absences, evidence after the first block of an epoch, redelegations
and unjailing in the first and the sixth epoch, in which the slashes of the first
are processed. `SetsConsistent`: the set properties as above, `NoPanic` apart.
`FrozenOut`: a validator whose slash
is pending is jailed from the first epoch that can still change to the pipeline
epoch. The instance is the one of `pos_same_block` without evidence in the first
block of an epoch.

**parts** (912 thousand states). Each component has the bounds its cases need.

- `PosLiveness`: two validators, one of which always signs as a commit needs
  signatures; windows of two and three votes; ten heights of the shortest
  possible epochs, three switches, so that a validator leaves the set, is pruned
  and returns. `WindowExact`: the count of missed votes is the number of heights
  on record, and these are the misses of the current stay in the consensus set
  that fall into the window; after a change of the window, at least those of the
  shortest and nothing that was not missed. `InactiveIsJailed`: a validator over
  the threshold is jailed in every epoch from the jail epoch to the pipeline
  epoch.
- `RocksDb`: one key with persisted diffs and one without, two values, three
  heights, one rollback, and stops anywhere. `RollbackRestores`: what rollback
  puts together is what the previous block left, but for the Ethereum height and
  event queue. `HistoryExact`: reads at past heights return what the block of
  that height left, unless it was executed a second time with another outcome:
  rollback deletes diffs under a prefix with the height in decimal, while keys
  have it in base32hex, so the old diffs stay. `StartsAgain`: a node can start
  from its disk with the tree of its state, with two exceptions, that rollback
  and the one of `db_rollback`.
- `EthBridge`: two validators whose stakes cross the quorum from one epoch to the
  next, two events on Ethereum, two transfers of which one moves NAM, expiry of
  tallies and transfers as early as possible. `MintedInOrder`: transfers to
  Namada are minted once, in order, without gaps, and nothing is pushed a second
  time; all but the order needs that no transaction was dropped after it changed
  the queue, since the queue is not put back and the next vote can then
  reach `unreachable!`. `RelayedStillPending`: what was relayed on Ethereum is in
  the pool until its event is acted on, so that it is not refunded as well.
- `BlockAlloc`: protocol transactions of three sizes and three wrappers, two of
  them of one inner transaction and one that expires, for four bytes of space of
  which half goes to the first batch, and two blocks. `AcceptedUnlessLarge`: a
  proposal of a correct validator is accepted, unless a transaction was larger
  than its bin. Such a transaction stays in the proposal, although the log of
  `prepare_proposal.rs:152` says that it is dropped, and TLC finds the proposal
  rejected.
- `Governance`: two validators, a delegator with more stake than their own
  validator, four steps in four epochs, a step being a deposit or each proposal
  of one, a vote or a stake change; deposits up to one above the minimal fund,
  up to two proposals of a transaction, with code that succeeds or fails, with a
  payment from public goods funding, and for a steward; a minimal fund that
  changes. `TallyExact`: a result counts each bond of an active validator once,
  for the side of its owner or else of the validator, as things stood when the
  vote ended. `OnlyAcceptedCodeStays`: storage has the writes of exactly the
  proposals that passed and whose code succeeded, whatever failed before or after
  them in the same block, and nothing is left in the transaction log. `EscrowExactUnlessShared`: the governance account holds
  exactly the funds of the proposals that are not executed and the deposits
  made for none, every refund can be paid, and nothing is made or lost. The first
  two need that no two proposals share a deposit: each is compared with all of
  it, and TLC finds a refund that the account cannot pay.
- `EpochedData`: three writes or parameter changes in five epochs.
  `KeptEpochsExact`: every epoch that the parameters asked to keep since it was
  written reads as if nothing had been trimmed.

The staking runs do not check for deadlock: with every consensus validator jailed
CometBFT's set is empty and the chain stops. Neither do the runs whose chains
have a last block. `UpdatesAccepted` holds for a stake threshold worth at
least one vote. With `validator_stake_threshold = 0` a validator that unbonds
everything and is promoted can be sent with power zero, as the removal of a key
that CometBFT does not have.

## Proofs

The theorems hold for every value of the constants that satisfies the `ASSUME`s
of the modules.

**WlStateProofs.** Assumed: `NoVal` is not a value, VP keys are keys, and the
generator gives distinct accounts for distinct positions (collision freedom of
the hash it chains).

- `TypeCorrect`: `Spec => []TypeOK`.
- `AddressesAreFresh`: `Spec => []FreshAddress`. `FreshAddress` speaks of the
  database and the block's log only, so it is not inductive: a transaction in
  progress may hold an entry for an account that does not exist yet. The
  invariant adds the order of the generators (`GenOrder`), and which kinds of
  entries each layer may have for positions still to come (`FreshInDb`,
  `FreshInLog`); the guard of `CommitTx` keeps a plain write out of the block.
- `VpsStay`: `Spec => VpNeverDeleted`, from `NoVpDeletion`: no layer has a
  deletion of a VP.
- `WriteLogImplementsStore`, `OperationsCorrespond`: the refinement of `TxStore`,
  action by action, from lemmas on what inserting an entry in a layer does to
  the views.

**ShellProofs.** Assumed: `WrapperAssumption`, `AccountAssumption`,
`BoundAssumption`: the hashes of wrappers and of inner transactions are
disjoint, and amounts are natural numbers.

- `ExpectsHold`, `InnerAppliedOnce`, `WrapperChargedOnce`: `NoPanic`,
  `AppliedOnce` and `ChargedOnce` for any number of nodes, wrappers and blocks.
  The invariant (`ReplayInv`) says that whatever was applied or charged is
  remembered by a hash: in the database, or, for the block under way, in the
  write log, the wrapper's hash being in the temporary log of the same block's
  validation too. It holds of the memory and, for the sake of crashes, of the
  state that would be loaded from disk. Most of the proof shows that fees,
  unshielding and execution leave the hashes alone.

**EpochSwitchProofs.** Assumed: durations and header time steps are natural
numbers.

- `ValidatorsInForce`, `JailingInTime`, `ReplaysRepeat`: `ValidatorsMatchEpoch`,
  `UpdateEpochIsFirstUnsent` and `ReplayRepeats` for any length of chain and any
  durations. The invariant ties CometBFT's next two validator sets to the
  countdown of the committed state (`Pending`), says that what is in memory is
  the committed state or the result of finalizing the next block on it
  (`InMemory`), and that a height finalized but not committed has the epoch that
  finalizing it again would give (`Finalizations`).

**EthBridgeProofs.** Assumed: `BridgeAssumption`, that stakes and expiries are natural
numbers.

- `RelayedStillPendingAlways`: `RelayedStillPending` for every set of validators,
  stakes and transfers. The invariant (`RelayInv`) compares every root that is
  or may become signed with the present: its nonce is not ahead, and while the
  nonce is the same nothing has left the pool, since transfers leave it only in
  a transaction that increments the nonce. What a quorum is plays no part.
- `MintedInOrderAlways`: `MintedInOrder`. The invariant (`QueueInv`) adds that the
  queue holds only nonces that were sent, so that `push_and_iter` stops, and that
  whatever was minted is behind the next nonce.

**PosLivenessProofs.** Assumed: `LivenessAssumption`, that windows are positive and
thresholds natural numbers.

- `WindowExactAlways`, `InactiveIsJailedAlways`: for every set of validators, windows,
  thresholds and any length of chain. The invariant (`LivenessInv`) adds that
  those who have a record are in the consensus set and were asked for the last
  vote (`RecordsOfConsensus`), so that no record survives a gap in a stay, and
  that whoever is jailed next epoch and not now is jailed in the epoch after
  (`JailedThrough`), so that no transaction can have unjailed them.

**CompilationCacheProofs.** Assumed: `CacheAssumption`, that the empty name is not a
code and bounds are natural numbers.

- `CacheConsistentAlways`: `CacheConsistent` for every number of codes, callers,
  background threads and crashes and every capacity. The invariant
  (`CacheInv`) says what a caller knows of its code's mark and file at each point
  of its call (`Knows`), what a background thread knows (`Jobs`), and what two
  callers of a code exclude (`Exclusion`): whoever compiles has marked the code,
  nobody else begins while it is marked, and a caller that opened a file meets no
  compilation of the same code.

Only model-checked: `CatchUp` and `CallsReturnUnlessBlocked` (liveness under
fairness is outside what the prover does), `SupplyConserved` (a sum over a
function, which needs induction over data), `ReplicasAgree`, the look-ups of
`PredEpochsAgree`, the staking modules, whose operations fold over sets and
sequences, and for the same reason `BlockAlloc`, `Governance` and `EpochedData`;
and `RocksDb`, whose reads and rebuilds walk over heights.

## Where code and documentation disagree

Each is a run in which TLC finds the stated property violated.

- `shell_drain`, `DrainIsCommitted`: a wrapper that cannot pay its fee in
  FinalizeBlock has its payer's remaining balance moved in the transaction log
  only. Nothing commits or drops that log, so a restart loses the move and nodes
  differ, although the error says that the funds have been moved.
- `pos_same_block`, `StatesMatchSets`: evidence in the first block of an epoch
  that also slashes a redelegation can leave a validator in the consensus set
  with the state `BelowCapacity`.
- `db_rollback`, `TreeRestored`: the first block of an epoch prunes tree stores of
  the epoch before. After a rollback of that block they are missing and the node
  panics at start with "Merkle tree should be restored".
- `bridge_nonce`, `NonceAlwaysIncremented`: the comment in
  `act_on_transfers_to_eth` says that the nonce is always incremented. A refund
  that fails later in the same transaction drops the increment too; that of an
  expired NAM transfer does fail, being taken from the pool's account while the
  escrow is with the bridge's.
- `epoched_shrink`, `CurrentSumExact`: `get_sum` is "the sum of the delta values up
  through the given epoch". After the parameters are changed to fewer past
  epochs it leaves out what the next write would move forward.

Seen while modelling, without a run of their own:

- `epochs.md` has the block that finds the epoch finished begin the next one; the
  code does so two blocks later (`EpochSwitch` has the code's behaviour);
- the fee payment's event is cleared by the commit in `charge_fee`
  (`protocol/mod.rs:376`) before it is collected;
- deactivation, jailing and their reverses do not change the total active stake
  (`proof_of_stake/src/lib.rs:2370`);
- after the window of missed votes was made shorter, heights that the longer one
  would have pruned stay in the record until the validator leaves the set;
- the exceptions in the properties of `parts` and `liveness` above.

## What is not modelled

Every component is listed in `PROJECT.json` with its status and, where a part of it
is left out, what and why. In short:

- signatures, encodings, hashing and zero-knowledge proofs are abstracted to
  identities and verdicts: a small instance says nothing about them;
- slash amounts, rewards and inflation are decimal arithmetic over 256-bit
  integers and the whole composition of bonds: what they compute is out of
  TLC's reach, and what TLC could check of a scaled-down version would not be
  what the code computes;
- the validity predicates are pure functions of two storage views, of which the
  models take the verdict or, for accounts and governance, the conditions;
- IBC is the `ibc-rs` library behind an adapter; wasm execution is `wasmer`;
- the Ethereum oracle and the node process are tasks around I/O. `EthBridge` lets
  validators vote at any time and again, which covers what the oracle sends;
- lazy collections, parameters, tokens and queries are straight-line storage
  accessors;
- the client, SDK, wallet and tests are outside the replicated state machine.

In `Shell`, a wrapper that runs out of gas after its fee has been committed
is not distinguished from one whose inner transaction does. The components of
`MCParts` are not composed with the shell: they meet it in the block, whose order
of steps each of them has in its own action.

## What could come next

1. Slash amounts over bonds, unbonds and redelegations of a few epochs with
   integral rates, against a reference that slashes each token once.
2. The oracle's restart point with the channel to the shell, composed with
   `EthBridge`.
3. Proofs of `StatesMatchSets` for the set operations and of the bounds of
   `BlockAlloc`.
