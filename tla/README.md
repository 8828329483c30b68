# A TLA+ model of the RIGO node

RIGO is a proof-of-stake chain on Tendermint. The node is an ABCI application: the
consensus engine hands it blocks, and it keeps accounts, stakes, governance and an EVM
in versioned stores. These modules model the parts that hold state over blocks and
crashes, the way a transaction takes from a wallet into a block, the threads that meet in
the node, and how a validator gets at its key. TLC checks them on small instances, and
TLAPS proves the core.

## 1. The system

| Part | Source | What it does |
|---|---|---|
| Application | `node/app.go` | the ABCI handlers; drives the controllers; saves the block context |
| Executor | `node/trx_executor.go`, `ctrlers/types/trx_ctx.go` | common checks, dispatch, fees, nonce |
| Ledger | `ledger/` | an iavl tree with in-memory items for CheckTx and for the block |
| Accounts | `ctrlers/account` | balances, nonces, the proposer's fees |
| Stake | `ctrlers/stake` | delegatees, rewards, refunds, slashing, validator updates, limiter |
| Governance | `ctrlers/gov` | proposals, votes, parameters |
| EVM | `ctrlers/vm/evm` | go-ethereum over its own trie, with balances borrowed from the accounts |
| Transactions | `ctrlers/types/trx*.go`, `libs/web3` | made and signed by wallets, in RLP to sign and protocol buffers to send |
| ABCI clients | `node/client.go`, `cmd/commands/run_node.go` | one mutex around all calls; the signal handler |
| Signer | `types/crypto/sfile_pv.go` | the validator's key and its last sign state, in two files |
| Keys | `types/crypto/wallet_key.go`, `sfeeder`, `cmd/commands` | the key file under a passphrase, the feeder that keeps the passphrase, the commands that write the file |
| Around | `rpc`, `genesis`, `libs`, `types` | queries, genesis data, client code |

A block is BeginBlock, DeliverTx for each transaction, EndBlock, Commit. A mutex makes
each handler one step; CheckTx, for the mempool, comes between any two of them. So the
hard parts are what CheckTx shares with the block, what a read in one block means two or
four blocks on, and what a crash between two writes leaves. `PROJECT.json` lists every
component with its status, and the hazards with the properties aimed at them.

## 2. Modules

`LedgerOps` holds the operations of an overlay on a tree. `Ledger` is the abstract
ledger built from them, and `FinalityLedger` the real one with its caches; the
controllers' modules use `LedgerOps` directly, which `FinalityLedger` implementing
`Ledger` justifies. `Folding` has the sums and folds of the modules that are proved, over
`MapThenFoldSet` of the module `Folds`.

| Module | Models | State and actions |
|---|---|---|
| `SFilePV` | the signer | memory (`key`, `lss`), the two files, what was released; one action per file write, `Crash` between any two |
| `FinalityLedger` | the ledger | `tree`, `cachedItems` (CheckTx), `finalityItems` (block); one action per method |
| `RigoApp` | Commit and restart | each store as the blocks it holds; one action per store write; `Crash`, `Info` |
| `AtomicApp` | what `RigoApp` promises | all stores move in one step |
| `Delegatee` | delegatee, stakes, missed blocks | operators only |
| `StakeCtrler` | stake controller and the engine's validator set | three ledgers, four old versions, `lastValidators`, `engine`; the three transactions, BeginBlock, EndBlock, Commit, Restart |
| `StakeLimiter` | the limiter with DeliverTx and CheckTx | `powerObjs`, the powers of block and mempool |
| `GovCtrler` | governance | proposals, frozen proposals, parameters on disk and in force; an EndBlock that cannot parse an agreed change panics (`EndBlockFails`) |
| `Trx` | transactions, their two encodings, signatures | operators only |
| `TrxExecutor` | CheckTx and DeliverTx over accounts | messages of clients, two overlays, mempool, fees, replay after a crash; a transaction that fails leaves what its handler did before the failure |
| `StateDBWrapper` | the state contracts run on | operators on a record: state objects, access list, snapshots, accessed addresses |
| `EVMCtrler` | contract transactions between ordinary ones | accounts, the wrapper, the frames of the EVM, gas pool, what is committed at each height, what was burned |
| `LocalClient` | the threads of a node | the call each thread is in and the locks it has; stores, heights, what is closed; one action per lock, handler, store saved or closed |
| `WalletKey` | a private key under a passphrase | operators only |
| `SecretFeeder` | key file, commands, feeder, starts of the node | files, session key, each process with its memory, the first key saved (`owner`); one action per file write or message, `Kill` between any two |

Amounts are counted in units of power, addresses and hashes are small numbers, and items
of a generic ledger are model values. The mempool, the choice of absent or misbehaving
validators, and Tendermint's validator set are external: they may do anything the engine
allows (a block is signed by more than two thirds; updates take effect two blocks later).
So are the contracts: the EVM may call, return, revert and destroy itself, in favour of
any address and of itself too, in any order.
A payload is the sequence of its fields, an amount the sequence of its digits in `Base`,
and a signature the pair of key and signed bytes. A ciphertext is the pair of key and
plaintext; another key decrypts it to an error or, when its padding happens to fit, to
`Garbage`. A generated key is one that neither the key file nor a process has. The modules that model one handler as one step may do so because of the
mutexes that `LocalClient` models.

Definitions marked "a bug" or "Mutant" are not part of a specification. Each is a
plausible slip in the definition that follows it; `PROJECT.json` says which property
catches it.

## 3. Runs

| Run | Configuration | Shows |
|---|---|---|
| `signer` | `MCSFilePV.cfg` | no double signing over crashes; a repeated request gets the old signature with the old time; the sign state on disk moves forward |
| `ledger` | `MCFinalityLedger.cfg` | kept items are never stale; the ledger implements `Ledger` |
| `app` | `MCRigoApp.cfg` | every saved block context has all its blocks in every store, once; `Info` never runs ahead; Commit implements `AtomicApp` |
| `stake_money` | `MCStakeMoney.cfg` | money is conserved, counters equal the sums of stakes, refunds are paid at their height, with restarts |
| `stake_engine` | `MCStakeEngine.cfg` | the engine's next set is the best candidates; votes meet the powers they stand for; absent validators are stopped |
| `gov` | `MCGovCtrler.cfg` | tallies stay right under changed votes and punishments; majorities only; applied in one block; no change lost |
| `exec` | `MCTrxExecutor.cfg` | what is carried out is what was signed for this chain, field by field; no signature is lost on the wire; supply kept although sums wrap around; no transaction twice; no block of the own mempool brings the node down |
| `evm` | `MCEVMCtrler.cfg` | contracts and ordinary transfers only move money, apart from what a contract burns; what is written back to the accounts is what the EVM has on its access list; a failed contract leaves nothing; nonces never go back; a query sees the height it asks for |
| `node` | `MCLocalClient.cfg` | a stop never falls between two saves of a Commit; only a stop ends the consensus goroutine; every call returns, whatever panics |
| `keys` | `MCSecretFeeder.cfg` | each generation draws another key, and crashes, races and commands never put another than the first saved one in the key file, the genesis file or a running node; a start lacks a session key only if something else touched its session |

Two runs end in a counterexample, each of what a line of the repository says:

| Run | The line | What happens |
|---|---|---|
| `stake_restart` | `stake/ctrler.go:81` "set `lastValidators`" | `lastValidators` is empty after a restart; a validator that leaves is not reported |
| `limiter_checktx` | `stake/limiter.go:131` "is not equal to delegatee's power" | CheckTx changes the limiter that the block's transactions are compared with |

The passing runs state what holds beside these, and beside six facts about the code
that the models show when the exception is taken away:

- A crash between two stores of Commit leaves them at different heights. The replayed
  block is saved once more in the stores that were ahead, so the comparison at
  `node/app.go:573` fails ("Not same versions") and the node panics at every replay.
  `AppliedOnce` and `InfoCovered` say that it never goes on from there.
- A delegatee deleted and created in one block is not found there again
  (`ledger/finality_ledger.go:81`): a second new stake overwrites the first. `Conserved`
  sets such blocks aside (`restaked`).
- The stakes of genesis validators share one hash (`node/app.go:210`), which keys the
  frozen ledger: frozen together, one overwrites the other. The money run has one genesis
  validator.
- A wrong passphrase, or a wrong session key, whose padding happens to fit passes for the
  right one, and `Unlock` does not compare the key with the address. A start of the node
  would save the key file with it. `KeyKept` sets this accident aside (`lucky`).
- A contract that destroys itself in favour of its own address burns what it has, as in
  go-ethereum. `MoneyKept` counts this (`burned`); a revert takes it back.
- `applyProposals` returns an error for an agreed option that is not the JSON of
  parameters (`gov/ctrler.go:421`), and EndBlock panics with it (`node/app.go:513`).
  Proposals are frozen in the block, but nothing is committed, and every replay of the
  block ends the same way. `GovCtrler` stops there (phase `panicked`).

`EngineFollows` passes
without restarts, with transactions from block 2 on: a genesis validator that leaves in
block 1 is never reported, for the same reason as after a restart. `VotesMatchLater`
leaves out block 4, for which the code reads version 0, the latest. `FrozenAsVoted`
leaves out a punishment in the freezing block, and `EachChangeKept` two changes in one.
`AgreedByMajority` starts at a total power of 5, below which two thirds rounded down may
be no more than a half.

### Bounds

- `signer`: two keys, heights, rounds, blocks and times, at most two released messages:
  enough for every order of two requests, with any number of crashes.
- `ledger`: two keys, two items, any number of calls, commits and restarts.
- `app`: three blocks, five versions of a store (`MCBound`), so a block is replayed
  up to twice after a crash in Commit.
- `stake_money`: two accounts, three transactions, one punishment, five blocks; stakes
  are refunded after two blocks, so the whole way of a stake fits.
- `stake_engine`: three accounts, two validators, six blocks: an update takes effect
  after three and is read for rewards after four.
- `gov`: two voters, two proposals out of three ballots, one of which cannot be parsed, two votes, two punishments, which may fall into one
  block, six blocks.
- `exec`: one holder, one account that a first transfer creates, a proposer that
  begins with nothing and may be paid in its own block, three checked transactions, four
  blocks. Amounts have two digits of base 4, so that 15 and the fee wrap around; integers
  have four values, two of them negative; a payload of each kind of codec: signed fields,
  an amount, all fields empty. Clients sign for two chains.
- `evm`: two senders, one of which proposes, one contract; three transactions in two
  blocks, three operations of the EVM and three frames: a call back into the caller, or a
  call and a self-destruction below a frame that reverts. Gas 1 is below the intrinsic
  gas, and two transactions of gas 3 exceed the block's. The holders have 7 and 2, so that a
  second contract transaction can be paid.
- `node`: two callers, two clients to stop, two blocks of one transaction. A third caller
  would only repeat what the second does, since callers change nothing but `last`.
- `keys`: two starts of one node, at most three commands, changes of the secret or
  restarts of the feeder, two passphrases on each side: an init, a secret set and one more
  operation fit, with both starts at any point of them. Two keys are enough: only commands
  generate one, one at a time, so at most one is in memory and not in the file.

`CHECK_DEADLOCK FALSE` is set where a bound ends the run, and for the signer, which a torn
key file or a missing state file stops for good. Symmetry is used for keys, blocks and
items, and in `keys` for starts and passphrases, which the modules only compare for
equality.

### Fairness

`LocalClient` states the only liveness property, `CallsReturn`. It assumes that a handler
that runs goes on (weak fairness of each thread's handlers), since none of them waits for
anything but a lock; and that a thread whose lock is free again and again gets it (strong
fairness of `Acquire`), since Go's mutexes hand over to a waiter after one millisecond in
the order of arrival. Nobody is obliged to make a call or to send a signal. The other
modules assume no fairness: a node makes no progress by itself, and "at the right time" is
stated as safety (`NoneOverdue`, `RefundedWhenDue`, `AppliedOnTime`, `AbsentAreStopped`).

## 4. Proofs

The proofs hold for every value of the constants that the named `ASSUME`s of the modules
allow; TLC evaluates these in the runs. Each component has one inductive invariant. It is
true at first, no action breaks it (one lemma per action), and the listed theorems follow.

| Module | About | Theorems |
|---|---|---|
| `CrashProofs` | `SFilePV`, `FinalityLedger`, `RigoApp` | `SignerTypeCorrect`, `SignerSafe`, `SignerMatches`, `SignerNeverHalfSigned`, `SignerAdvances`; `LedgerTypeCorrect`, `LedgerCoherent`, `LedgerImplements`; `AppTypeCorrect`, `AppAppliesOnce`, `AppInfoCovered`, `AppImplements` |
| `LocalClientProofs` | `LocalClient` | `NodeStopsBetweenBlocks`, `NodeOnlyStopHalts` |
| `TrxTheorems`, `TrxExecutorProofs` | `Trx`, `TrxExecutor` | `TrxInductive`, `TrxSupplyKept`, `TrxNoReplay`, `TrxNeverPanics`, `TrxCarriedOutAsSigned`, `TrxSignaturesSurvive` |
| `StateDBWrapperProofs`, `EVMCtrlerProofs` | `StateDBWrapper`, `EVMCtrler` | `EVMInductive`, `EVMMoneyKept`, `EVMAccessedAreListed`, `EVMCallSeesCommitted`, `EVMFailedLeavesNothing`, `EVMNoncesGrow` |
| `GovCtrlerProofs` | `GovCtrler` | `GovInvariant`, `GovTallyMatches`, `GovAgreedByMajority`, `GovParamsInForce`, `GovEachChangeKept`, `GovFrozenAsVoted`, `GovAppliedOnTime` |
| `FoldTheorems` | `Folding` | lemmas only: sums over sets, folds over sequences |

Why each invariant is what it is:

- **Signer.** `NoDoubleSign` speaks of released messages only. `SignerInv` adds how key
  file, state file and memory agree at each point of the process (`FilesAgree`,
  `MemoryAgrees`), and that the state file is at or past every released message
  (`ReleasedCovered`): that is what makes a crash harmless.
- **Threads.** `ClientInv` ties the engine's call to its place in the block and to the
  heights (`EngineFollowsBlock`), says which stores Commit has saved and that it saves on
  open stores only (`CommitProgress`), and that Stop and the engine never have the
  application's mutex together (`StopProgress`). So Commit sees all stores open or all
  closed, a closed store is at the height of the metaDB, and Info puts back the height
  that `lastBlockCtx` has anyway.
- **Ledger.** `CacheCoherent` with types is inductive. The refinement forgets the items
  read; each method maps to one step of `Ledger`, because coherence makes a kept item
  equal to what the tree would answer.
- **Application.** `AppInv` says that beyond the block context a store holds only the
  next block, once for each replay (`StoresHold`), and the EVM's store at most once
  (`VmHolds`): BeginBlock refuses to replay into it. So when the versions agree
  (`Compared`), every store holds the block exactly once.
- **Executor.** `Money` bounds what CheckTx's accounts hold by the supply, since the fees
  of checked transactions are gone from them for good. With `SupplyAssumption` (the supply
  and one fee fit into a word) no sum that decides anything wraps, except the one the code
  is meant to refuse. `Carried` counts the transactions of each sender against its nonce
  in the block and in the tree. `SendersKnown` is what keeps DeliverTx from a missing
  sender: a sender that is not committed got its money in CheckTx from a message further
  ahead in the pool, and a delivered message makes its receiver's account even when it
  fails. A transfer that is carried out leaves its sender at least the fee, so the fee is
  never refused after it. `Restartable` says that a crash goes back to what was there between blocks. The
  codecs are inverse for the field types of the Go structs (`PayloadAssumption`), so
  verifying what was decoded is verifying what was signed.
- **EVM.** A contract may be reverted to any snapshot that one of its frames holds, so
  `Restores` says of every snapshot what `Sound` says of the present: listed addresses
  have their money in the state objects, the others in the ledger, and with gas, fees and
  what was burned this is the supply. Snapshots remember the burned amount too, and so
  does what is committed, which a restart and a query open (`OpenedIs`). `Ordered` makes the numbers of snapshots grow, so that a revert
  forgets exactly the addresses listed since; `FramesOK` says that the snapshot of each
  frame is still there; `Outermost` that a failure brings back the state before the
  transaction. The contract made by a creation is at an address nobody used
  (`CreateAssumption`: no two creations have one address, and no sender has the address
  of a contract).
- **Governance.** `TallyMatches` is not inductive by itself. `Open` adds that a choice is
  one of the options, and that the majority belongs to the total; `OpenOnes` and
  `FrozenOnes` that a proposal is never open and frozen, and where the height stands
  between its deadlines; `Committed` that the copy EndBlock reads from the tree differs
  from the block's only by punishments once the voting is over; `ParamsKept` which of
  the parameters in the ledger, in force and in waiting agree in which phase. A vote and
  a punishment change one term of a sum over all validators (`Counted`, `DoPunishIs`).
  `BallotAssumption` is what ValidateTrx checks of a proposal.

The provers cannot instantiate an induction over an operator. `FoldTheorems` states
induction over numbers and over finite sets for a *set* of those that are good
(`NatInductionFor` and the lemmas after it), which they can, and derives what the others
need of `SumOf` and of the folds. No module declares a recursive operator.

Only model-checked:

- The stake controller and its limiter (`Conserved`, `PowersAddUp`, `NoneOverdue`,
  `EngineFollows`, `VotesMatchLater`, `AbsentAreStopped`). They need
  sums over the sequences of stakes of all delegatees, cut and filtered by slashing, in
  three ledgers at once; the lemmas for that are not there yet.
- The key files (`KeyKept`, `FailsOnlyIfDisturbed`): an invariant over the place of every
  process, its memory and the files is needed, and not written down here.
- `CallsReturn`, which is a liveness property and needs `ENABLED`.

## 5. Not modelled

- Loss of unsynced writes in a power failure: only processes crash here.
- Gas limits and prices outside `EVMCtrler`, where the price is 1; storage, logs and
  precompiled contracts of the EVM; creations by contracts. CheckTx runs no contract
  (`evm/ctrler.go:158`).
- The formats of queries and RPC answers; genesis data; wallets that synchronise their
  nonce; subscriptions; the CLI.
- Commands that only show something, the start with a typed passphrase, and the genesis
  files of the public networks (`SaveGenesis` models the local one); wallet keys without a
  passphrase; `NewSecret` and `UpdateSecret` of the feeder, which nobody calls, and the
  older copy of the feeder under `libs/sfeeder`.
- The asynchronous executor (`deliverTxAsync`), marked unfinished in the source and
  without a caller; the in-memory ledger, which is not used; generated code.

`PROJECT.json` gives the reason for each component.

## 6. Open ends

1. Stake and governance composed: validators that change while proposals are open,
   and parameters that change while stakes are frozen.
2. The limiter with slashing and delegators; its bound on the power moved in a block.
3. Proofs: the money and the powers of `StakeCtrler`.
