# TLA+ models of the Sommelier scheduled-cork lifecycle, IBC transfer stack and app wiring

This directory holds TLA+ models of the Sommelier chain, checked with TLC.
Most of the repository is wiring: `app/app.go` builds the keepers, orders
the begin/end blockers and registers routes. The part with real invariants is
the **scheduled cork** protocol of the `cork` module. Validators vote for a
contract call ("cork") to run at a future block height. At that height the
votes are tallied against a stake-weighted threshold. Each winning call goes
to the gravity bridge exactly once, with a fresh invalidation nonce.

## 1. Inventory

### Components, their state and operations

| Component | Source | State | Operations |
|---|---|---|---|
| cork MsgServer | `x/cork/keeper/msg_server.go` | none of its own | `ScheduleCork`: resolve the signer to a validator (gravity's orchestrator mapping), check the cellar is managed, check `BlockHeight > ctx.BlockHeight()`, then `SetScheduledCork` and `IncrementValidatorCorkCount` |
| cork vote store and tally (keeper.go, **not in the sources**) | modelled from `spec.md` §3–4 | votes keyed by (height, validator); a lifetime cork count per validator; the invalidation nonce; `VoteThreshold` | `SetScheduledCork` (overwrites the earlier vote), `GetApprovedScheduledCorks` (group votes by cork, sum the last power, compare with the threshold, delete the height's votes), `IncrementInvalidationNonce` |
| cork EndBlocker | `x/cork/keeper/abci.go` | none of its own | each block: tally the current height, then `submitContractCall` for each winner in order (take a nonce, then `CreateContractCallTx`) |
| staking power provider | `x/cork/keeper/test_common.go` (`StakingKeeperMock`) | last power per validator | `GetLastTotalPower` (sum of the powers), `GetLastValidatorPower` (panics on an unknown address) |
| gravity bridge | external | outgoing contract-call queue | `CreateContractCallTx(nonce, scope, address, payload, …)` |
| application | `app/app.go` | keepers (structs held by value or by pointer), routers, module manager | `NewSommelierApp` builds the keepers in a fixed order, sets staking and gravity hooks, builds the IBC transfer stack; `InitChainer`, `BeginBlocker`/`EndBlocker` run the modules in the `SetOrder…` lists |
| module accounts | `app/app.go:204-223, 789-817` | permission table, allowed-receiving list | `ModuleAccountAddrs`, `BlockedAddrs` (given to the bank keeper, which refuses transfers to a blocked address) |
| axelarcork IBC middleware | `x/axelarcork/ibc_middleware.go` | a copy of the axelarcork keeper, the wrapped transfer module | `SendPacket` runs `ValidateAxelarPacket`; a denied packet returns sequence 0 and the error. Every other callback is passed through to the transfer module. |
| IBC core and ICS-20 transfer (ibc-go, external) | wired in `app/app.go:402-437, 515-521` | channel ends, sequences, commitments, receipts, escrow, vouchers | the handshake, send, receive, ack and timeout handlers that call the middleware |
| cellarfees | `x/cellarfees/keeper/keeper_test.go` | fee accrual counters, last reward supply peak | only the tests are present |
| integration tests | `integration_tests/setup_test.go` | docker containers | genesis setup (cork `VoteThreshold` 0.67) |

### How they interact

The chain runs one block at a time: BeginBlock, then the transactions,
then EndBlock, then Commit. `ScheduleCork` runs as a transaction. It reads
gravity's orchestrator mapping and the managed cellar set, and writes the
vote store. At EndBlock, the staking module first sets the last validator
powers. The cork EndBlocker then reads those powers and the votes for the
current height. It deletes those votes and calls the gravity keeper once per
winner. No code runs concurrently. The concurrency that matters is between
blocks and between *nodes*: every validating node replays the same blocks
and must reach the same state.

### What is hard here

- **Ordering across a block.** A vote cast in block H for height H would be
  tallied by H's own EndBlock. A vote for a past height would never be
  tallied. Only the `<=` check at `msg_server.go:32` prevents both.
- **Determinism across nodes.** The order of the winners fixes which call
  gets which nonce. Iterating a Go map would make the nodes diverge. That
  order is decided in `keeper.go`, which is not in the sources, so no run
  checks it (see section 3).
- **Partial failure.** The nonce is taken (`abci.go:21`) before the bridge
  call (`abci.go:23`). If the bridge drops the call, that nonce is lost.
- **Numeric edges.** The threshold comparison is inclusive, and the ratio
  is undefined when the total power is zero.
- **Stale checks.** The cellar and the validator are checked when the vote
  is cast. The cellar may be delisted, or the validator may lose its power,
  before the target height.

### Properties that make it correct

- Vote lifetime: a vote lives from its casting block (strictly before the
  target) to the EndBlock of its target height, and no longer.
- Every vote is eventually resolved.
- Exactly once: a cork reaches the bridge at most once per height.
- Nonces: the queued calls carry 1, 2, … with no gap and no reuse.
- No conflicting calls: with a threshold above one half, two different calls
  to the same cellar are never both approved at one height.

## 2. Modules

### `CorkScheduler.tla` (the core)

It models the cork MsgServer, the vote store and tally, the EndBlocker and
the block lifecycle.

| Code | Model |
|---|---|
| `ctx.BlockHeight()`, BeginBlock/DeliverTx vs EndBlock | `height`, `phase` |
| scheduled-cork store | `scheduledCorks[h][v]` (a cork or `NoCork`) |
| `IncrementValidatorCorkCount` | `corkCount` |
| invalidation nonce | `invalidationNonce` |
| gravity's outgoing contract calls | `outgoing` |
| response of the last `MsgScheduleCork` | `response` |
| (history) votes written in the current block | `castThisBlock` |

The actions:

- `ScheduleCork(signer, cork, h)` is the whole handler, as four
  disjuncts: one per rejection, then the accepted path.
- `EndBlocker` does the following in one step:
  1. chooses the powers the staking EndBlocker leaves;
  2. tallies the current height (`GetApprovedScheduledCorks`);
  3. deletes that height's votes;
  4. appends each winner's `CreateContractCallTx` with its nonce.
- `NextBlock` is Commit plus the next BeginBlock. The cork BeginBlocker is
  empty.
- `Halted` is the end of the explored prefix, at `MaxHeight`.

The tally and store come from `spec.md`, because `keeper.go` is not in the
sources. These definitions are marked `spec_modelled` in `PROJECT.json`:

- one vote per (height, validator);
- one group per cork;
- an inclusive threshold, with nothing approved at zero total power;
- winners sorted by group key.

Data is abstracted. Cellar addresses and calls are small integers, ordered so
that the group-key sort can be written. The invalidation scope (a hash of
address and call) is the pair it hashes.

### Runs

| Run | Config | Checks | Result |
|---|---|---|---|
| `cork_lifecycle` | `MCCorkScheduler.cfg` | `TypeOK`, `VoteLifetime`, `NoConflictingCalls`, `EveryVoteResolved` | pass (34,880 states) |
| `cork_emission_order` | `MCCorkSchedulerOrder.cfg` | `NoncesGapless`, `NoDoubleSubmission` | pass (38,944 states) |
| `cork_nonce_gap` | `MCCorkSchedulerNonceGap.cfg` | `NoncesGapless` | violation (a finding, see below) |
| `cork_refinement` | `MCCorkSchedulerRefinement.cfg` | `ImplementsCorkVoting` | pass (34,880 states), see `CorkVoting` below |

**Bounds.** Every run uses the same base instance:

- 3 validators;
- 4 signing keys: 3 orchestrators and 1 key that is nobody's delegate;
- 1 managed cellar and 1 unmanaged address;
- 2 calls;
- 3 blocks;
- at most 4 accepted `MsgScheduleCork` over the run.

Three blocks are enough for every interesting case. Block 1 can vote for
blocks 2 and 3, block 2 can vote for 3, and blocks 2 and 3 can receive votes
for past heights. Two calls to the one cellar give conflicting votes at the
same height. Four accepted messages allow two competing votes plus an
overwrite.

**Power profiles.** `cork_lifecycle` lets the staking module leave one of
three profiles at each EndBlock, with threshold 2/3:

- (2,1,0): v1 alone sits exactly on the threshold, which exercises the
  inclusive comparison;
- (1,1,1): all three validators are needed;
- (0,0,0): nothing is bonded, the zero-power case.

**Why there are two passing runs.** With a threshold above 1/2 and one vote
per validator per height, at most one cork can win at a height. The order of
winners and the per-cork nonces only matter when several corks win. So
`cork_emission_order` uses threshold 1/3 with equal stake.

**Fairness.** `EndBlocker` and `NextBlock` are weakly fair, because
consensus keeps producing blocks. `ScheduleCork` has no fairness, because no
validator is obliged to vote.

**Mutants.** Every property of a passing run is broken by one plausible bug
in the definition it is about (listed in `PROJECT.json`):

- a height's votes cleared by overwriting the height's slot itself (`TypeOK`);
- `<` instead of `<=` in the past check;
- no zero-power short cut;
- tallied votes never deleted;
- one nonce per block;
- the range variable captured in the submit loop.

### Finding

**`cork_nonce_gap`.** `submitContractCall` takes the nonce before calling the
bridge. `spec.md` §4.3 lets the bridge drop a malformed call, and §5 demands
gapless nonces. TLC finds a block whose only winner is dropped. The counter
reaches 1, but no queued call carries nonce 1.

### `CorkVoting.tla` (what the cork protocol promises) and the refinement

`CorkVoting` states the protocol without its data structures: a set of
ballots (height, validator, cork), at most one per validator and height,
cast only for a managed cellar and a strictly later height; `Close` appends
the current height's winners to the bridge in one step, in any order, with
consecutive nonces, and discards the height's ballots; `Advance` moves to
the next height. Its specification carries weak fairness on `Close` and
`Advance`.

`CorkScheduler` defines `Voting == INSTANCE CorkVoting WITH ...`, mapping
the vote store to the set of its non-empty slots and the bridge to the
queue, and the run `cork_refinement` (`MCCorkSchedulerRefinement.cfg`,
the `cork_lifecycle` instance) checks `ImplementsCorkVoting ==
Voting!ASpec` as a PROPERTY: every step of the detailed lifecycle
(`ScheduleCork` with its three rejections, the EndBlocker's tally, deletion,
sort and nonce arithmetic, `NextBlock`) is a step of the abstract protocol
or a stutter, and the liveness of the abstract spec follows from the
detailed fairness. It passes (34,880 states). The mutant that drops the
zero-power short cut breaks it. `CorkVoting` is a specification, not a
translation of code, so its definitions are not in the map. The bridge
here accepts every call; with a rejecting bridge the refinement fails
exactly as `cork_nonce_gap` does.

### `AxelarCorkMiddleware.tla` (the IBC transfer stack)

It composes the axelarcork middleware with the part of ibc-go that calls it:
channel ends (`channel[ch]`: state, order, version), `nextSeqSend`, packet
`commitments`, `receipts` with their acknowledgements, the transfer
module's `escrow` and minted `vouchers`, and `resolved` (a history of how
each sent packet ended). Each middleware callback is an operator with the
callback's name (`OnChanOpenAck`, `OnRecvPacket`, `OnTimeoutPacket`,
`SendPacket`, …) whose body is the callback's body: a call to the wrapped
transfer callback, or for `SendPacket` the validation followed by the
forward. The environment actions (`ChanOpenInit`, `ChanOpenTry`,
`ChanOpenAck`, `ChanOpenConfirm`, `ChanCloseConfirm`, `Transfer`,
`RecvPacket`, `AcknowledgePacket`, `TimeoutPacket`) are IBC core's handlers,
modelled from ibc-go v6's behaviour and not mapped. The relayer is
unreliable: it may deliver any committed packet to the other end at any
time, twice, out of order, or never, and submit an ack and a timeout for the
same packet in either order; core deletes the commitment before the callback,
so only the first takes effect.

Two constants describe the wiring of `app.go`: `TransferIcs4Wrapper`
(`"channel"`: the transfer keeper sends through the channel keeper, as
line 417 does; `"middleware"`: through the middleware) and
`MiddlewareKeeper` (`"zero"`: the middleware holds the keeper copied before
line 455 assigns it; `"built"`). `ValidateAxelarPacket`, in the keeper
outside the sources, is the constant set `ValidSends` of accepted
(channel, payload) pairs. `OnChanCloseInit` (the transfer module always
refuses it), `WriteAcknowledgement` (no asynchronous acks in ICS-20) and
`GetAppVersion` (a query) change nothing and are not actions. Every run uses the wiring
`app.go` has (`"channel"`, `"zero"`); no run checks the middleware in a
wiring the app does not build.

### `AppWiring.tla` (keeper construction and module order)

`NewSommelierApp` is a sequence of steps, one per keeper construction or
`SetHooks` call, in source order (`StakingSteps`, `IBCSteps`, `BridgeSteps`,
`RouterSteps`, `ModuleManagerSteps`). Each step records which keepers it
takes by value (`copy`) and which by pointer (`ref`). `Construct` executes
one step: a `New` step records, in `holds`, whether each dependency was
already built and which modifications (hooks) it had when captured; a
`Modify` step (SetHooks, router sealing) records a modification. A value copy
sees the keeper as it was; a pointer sees its final state. Then
`InitChainer`, `BeginBlocker` and `EndBlocker` run `RunModule` over
`OrderInitGenesis`, `OrderBeginBlockers` and `OrderEndBlockers` (the 26
module names of `app.go:578-673`), one module per step, recording in `ran`
which have run in the current phase, for `MaxBlocks` blocks.

Two further construction steps bring the stores in. `UpgradeLoaderStep`
(`app.go:530`) runs `SetupUpgradeStoreLoaders` (`app.go:947-987`) on the
`upgrade-info.json` a restart finds (`upgradeInfo`, any of `UpgradeInfos`:
no pending upgrade, one of `v4`..`v7`, or `v8`, a later upgrade this
binary does not know, each at a skip height or not) and keeps
the `StoreUpgrades` it installs in `storeLoader`; `MountStep`
(`app.go:711-713`) mounts the 23 `StoreKeys` of `app.go:312-336` into
`mounted`. `KeeperStore` and `KeeperSubspace` name the store key and the
param subspace each keeper is given (`app.go:351-527`); `GetSubspace`
(`app.go:864-867`) discards the found flag, so a name missing from
`ParamSubspaces` (`app.go:922-944`) yields the zero subspace `"zero"`.
`KeepersBackedByStores` checks that every keeper's store is mounted and
every subspace registered once construction ends; `UpgradeStoresMounted`
checks that the loader adds only mounted stores and deletes none.

The rest of `NewSommelierApp` is three more holders of keeper copies and the
start. `UpgradeHandlerSteps` (`setupUpgradeHandlers`, `app.go:680`,
`989-1031`) registers the `v4`..`v7` handlers, each closure holding the
module manager by pointer and its keepers by value, and fills
`upgradeHandlers`; `SimManagerStep` (`app.go:686-708`) and `AnteStep`
(`app.go:721-734`) take their keepers by value. `LoadLatestVersion`
(`app.go:737-741`) starts a fresh chain (no `upgrade-info.json`) with
`InitChainer`, and a node restarted at an upgrade height with the block of
that height. There the upgrade module's BeginBlocker (cosmos-sdk, the
environment: `UpgradeBeginBlocker`) runs first: it clears the plan at a
skip height, applies it when a handler is registered, and otherwise halts
the node (`panicked`), as it must for an upgrade this binary does not
know. `UpgradeHandlerForLoadedStores` checks that the node only halts there
when its store loader left the stores alone: the loader table and the
handler table, kept by hand under the same names, agree.

### `ModuleAccounts.tla` (module account permissions)

`MaccPerms` (`app.go:204-220`) lists the module accounts and their
permissions, `AllowedReceivingModAcc` (`app.go:222-223`) the module accounts
allowed to receive funds (none), `ModuleAccountAddrs` (`app.go:789-796`)
their addresses and `BlockedAddrs` (`app.go:810-817`) the bank's blocked
list, built by negating `AllowedReceivingModAcc`. `AxelarCorkMiddleware`
extends it: the receiving transfer module returns an error ack when the
payload's `Receiver` is blocked (ibc-go's `OnRecvPacket` check), so the
receive path is decided by the app's table instead of a chosen set. In the
MC module `d1` pays a user account and `d2` the `cellarfees` module account.
`NoVouchersToModuleAccounts` checks that no successful receive credits a
module account.

### Runs of the new modules

| Run | Config | Checks | Result |
|---|---|---|---|
| `transfer_stack_app` | `MCAxelarCorkMiddleware.cfg` | `TypeOK`, `EscrowBalanced`, `VouchersBalanced`, `OpenChannelsAreIcs20`, `NoVouchersToModuleAccounts` | pass (1,841,449 states) |
| `transfer_send_unfiltered` | `MCAxelarCorkMiddlewareUnfiltered.cfg` | `OnlyValidatedPacketsSent` | violation (finding) |
| `app_wiring_order` | `MCAppWiring.cfg` | `TypeOK`, `StakingHooksSeen`, `ModuleOrderRespected`, `KeepersBackedByStores`, `UpgradeStoresMounted`, `UpgradeHandlerForLoadedStores` | pass (1,665 states) |
| `wiring_zero_keeper` | `MCAppWiringZeroKeeper.cfg` | `NoZeroValueKeeperCaptured` | violation (finding) |
| `crisis_genesis_order` | `MCAppWiringCrisis.cfg` | `CrisisInitGenesisLast` | violation (finding) |

**Bounds.** The middleware runs use 2 channels (`axelar`, `other`), 2
payloads (`d1` to a user, `d2` to the `cellarfees` module account, so `d2`
is refused by the receiving transfer module, and by `ValidateAxelarPacket` on
`axelar`), both channel orders, three versions
(`""`, `"ics20-1"`, `"ics20-2"`) and at most 2 sends per channel. With two
sends per channel, a relayer can deliver them in reverse order, deliver one
twice, and race an ack against a timeout for one while the other is pending.
Both channels can open by either handshake path. `AppWiring` is
deterministic except for the `upgrade-info.json` found at start (all 12
`UpgradeInfos`: none, every upgrade name the loader knows and an unknown
one, skipped or not);
`MaxBlocks = 2` runs every order list twice (Begin/End), which is enough
because the lists do not change between blocks.

**Deadlock.** The middleware runs set `CHECK_DEADLOCK FALSE`: once both
channels are closed and every packet is resolved, the transfer port really
has nothing left to do. `AppWiring` ends in `Halted`, a stutter after the last
block or after the upgrade halt, so deadlock is checked.

**Fairness.** None: the new runs check safety only. No relayer is obliged
to deliver a packet.

**Mutants.** A receive callback returning a nil ack (`TypeOK`) or always
acknowledging success (`VouchersBalanced`); a timeout callback that does not
refund (`EscrowBalanced`); an `OnChanOpenAck` that skips the version check
(`OpenChannelsAreIcs20`); the begin-blocker list naming the ICA host by
its keeper name (`TypeOK`); mint taking the staking keeper by value
(`StakingHooksSeen`); gov and staking swapped in the end-blocker list
(`ModuleOrderRespected`); the v6 subspace list without `axelarcork`
(`KeepersBackedByStores`); the v6 loader adding the ICA store by its module
name `interchainaccounts` (`UpgradeStoresMounted`); the blocked list built
from the allowed list without the negation (`NoVouchersToModuleAccounts`);
`setupUpgradeHandlers` without the `v6` handler, which takes no keeper
(`UpgradeHandlerForLoadedStores`).

### Findings of the new modules

- **`transfer_send_unfiltered`** (`app.go:417`). The transfer keeper's
  ICS4 wrapper is `app.IBCKeeper.ChannelKeeper`, so ICS-20 sends never pass
  through the middleware's `SendPacket`. TLC commits, on the Axelar channel,
  a packet that `ValidateAxelarPacket` refuses.
- **`wiring_zero_keeper`** (`app.go:424`). `NewIBCMiddleware` is passed
  `app.AxelarCorkKeeper` by value 31 lines before that keeper is assigned
  (`app.go:455`). The middleware's keeper is the zero `Keeper`. Today this is
  masked by the finding above, because nothing calls the middleware's
  `SendPacket`.
- **`crisis_genesis_order`** (`app.go:642`). The comment says crisis was
  moved to the end of `SetOrderInitGenesis` so that its invariant check sees
  every module's genesis state; the list puts it ninth.

## 3. Not modelled (yet) and the plan

Plan for the next sittings, most important first:

1. **Validator set changes**: validators leaving the set between vote and
   tally. The power profiles already give a voter zero power; the staking
   mock's panic on an unknown address (`test_common.go:486`) is test-only.
2. **Cellar governance**: the add/remove managed-cellar proposal handlers
   are neither in the sources nor described in `spec.md`, which only asks
   for the check at submission time. The stale `HasCellarID` hazard
   (`msg_server.go:28`) therefore stays without a property.
3. What each upgrade handler migrates (`app/upgrades/…`, outside the
   sources): the store loaders and the handler registrations are checked
   against this binary's store keys and against each other, but not the
   handlers' bodies.

Left out on purpose:

- the bodies of the upgrade handlers (`app/upgrades/…`, outside the
  sources), and the store keys of earlier binaries, so a loader is checked
  against this binary only;
- codec registration, ante handler, API and gRPC routes,
  the simulation manager (configuration with no state a property tells
  apart);
- gravity's use of its hooks, so the value copies of the gravity keeper
  taken before `SetHooks` (`app.go:449-480`) are tracked by `AppWiring` but
  no property can say whether they matter;
- the integration test harness (docker I/O);
- cellarfees (only its tests are in the sources);
- gravity's own batching, signing and relaying;
- events and the hex cork id returned by `ScheduleCork` (formatting only).
