------------------------------ MODULE AppWiring ------------------------------
(***************************************************************************)
(* NewSommelierApp (app/app.go) and the first blocks of the chain it       *)
(* builds.  Construction runs one statement at a time: every keeper is a   *)
(* Go struct, and a keeper handed to another constructor is either copied  *)
(* (by value: the copy never sees a later assignment or SetHooks) or       *)
(* shared (by pointer).  A copy taken before the keeper is assigned is its *)
(* zero value.  The module manager then runs InitGenesis once and the      *)
(* begin and end blockers of every block, each in the order app.go sets.   *)
(*                                                                         *)
(* Keeper data lives in the stores and is shared by every copy; what a     *)
(* copy can miss is the struct itself: its fields (store key, wrappers,    *)
(* hooks).  That is all this module tracks.                                *)
(***************************************************************************)
EXTENDS Integers, FiniteSets, Sequences, SequencesExt

CONSTANTS
  MaxBlocks   \* blocks run after InitChain (modelling bound)

ASSUME MaxBlocks \in Nat \ {0}

\* One statement of NewSommelierApp: keeper k is assigned ("new") or gets its
\* hooks or router ("modify"); copy and ref are the keepers it takes by value
\* and by pointer.
New(k, copy, ref) == [op |-> "new", k |-> k, copy |-> copy, ref |-> ref]
Modify(k, copy) == [op |-> "modify", k |-> k, copy |-> copy, ref |-> {}]

\* Mutant: the mint keeper is handed the staking keeper by value.
StakingStepsMintByValue == <<
  New("params", {}, {}), New("capability", {}, {}), New("account", {"params"}, {}),
  New("bank", {"params", "account"}, {}),
  New("staking", {"params", "account", "bank"}, {}),
  New("mint", {"params", "account", "bank", "staking"}, {}),
  New("distr", {"params", "account", "bank"}, {"staking"}),
  New("slashing", {"params"}, {"staking"}), New("crisis", {"params", "bank"}, {}),
  New("feegrant", {"account"}, {}), New("upgrade", {}, {}),
  Modify("staking", {"distr", "slashing"}) >>

\* NewSommelierApp up to the staking hooks: the keepers that take the staking
\* keeper before SetHooks take the local stakingKeeper by pointer.
StakingSteps == <<
  New("params", {}, {}),
  New("capability", {}, {}),
  New("account", {"params"}, {}),
  New("bank", {"params", "account"}, {}),
  New("staking", {"params", "account", "bank"}, {}),
  New("mint", {"params", "account", "bank"}, {"staking"}),
  New("distr", {"params", "account", "bank"}, {"staking"}),
  New("slashing", {"params"}, {"staking"}),
  New("crisis", {"params", "bank"}, {}),
  New("feegrant", {"account"}, {}),
  New("upgrade", {}, {}),
  Modify("staking", {"distr", "slashing"}) >>

\* The IBC keeper, the transfer keeper and its IBC stack: the axelarcork
\* middleware takes app.AxelarCorkKeeper by value, and the ICA host.
IBCSteps == <<
  New("authz", {"account"}, {}),
  New("ibc", {"params", "staking", "upgrade"}, {}),
  New("transfer", {"params", "ibc", "account", "bank"}, {"ibc"}),
  New("transferStack", {"transfer", "axelarcork"}, {}),
  New("icahost", {"params", "ibc", "account"}, {"ibc"}) >>

\* The bridge and the Sommelier modules, then the gravity hooks.
BridgeSteps == <<
  New("gravity", {"params", "account", "staking", "bank", "slashing", "distr"}, {}),
  New("pubsub", {"params", "staking", "gravity"}, {}),
  New("axelarcork", {"params", "account", "bank", "staking", "transfer",
                     "distr", "ibc", "gravity", "pubsub"}, {}),
  New("cork", {"params", "staking", "gravity", "pubsub"}, {}),
  New("auction", {"bank", "account"}, {}),
  New("cellarfees", {"params", "account", "bank", "mint", "cork", "gravity",
                     "auction"}, {}),
  New("incentives", {"params", "distr", "bank", "mint"}, {}),
  New("incentives", {"params", "distr", "bank", "mint"}, {}),
  Modify("gravity", {"cork", "cellarfees"}) >>

\* The governance router and keeper, the IBC router and the evidence keeper.
RouterSteps == <<
  New("gov", {"params", "distr", "upgrade", "ibc", "cork", "axelarcork",
              "gravity", "auction", "pubsub", "account", "bank"}, {"staking"}),
  Modify("ibc", {"transferStack", "icahost"}),
  New("evidence", {"slashing"}, {"staking"}) >>

\* module.NewManager: every app module takes its keepers after construction.
ModuleManagerSteps == <<
  New("mm", {"account", "staking", "bank", "capability", "gov", "feegrant",
             "mint", "slashing", "distr", "upgrade", "evidence", "params",
             "transfer", "axelarcork", "gravity", "authz", "cork", "incentives",
             "cellarfees", "auction", "pubsub"}, {"crisis", "icahost", "ibc"}) >>

\* app.setupUpgradeStoreLoaders(), after the routers; MountKVStores,
\* MountTransientStores and MountMemoryStores, after the module manager.
UpgradeLoaderStep == [op |-> "loader", k |-> "upgrade", copy |-> {}, ref |-> {}]
MountStep == [op |-> "mount", k |-> "params", copy |-> {}, ref |-> {}]

\* SetUpgradeHandler(name, CreateUpgradeHandler(app.mm, ..., keepers)): the
\* handler closure holds the module manager by pointer and its keepers by
\* value; the upgrade keeper's handler map is shared by all its copies.
SetUpgradeHandler(name, copy) ==
  [op |-> "handler", k |-> "upgrade", name |-> name, copy |-> copy, ref |-> {"mm"}]

\* Mutant: the v6 handler, which takes no keeper, left out.
UpgradeHandlerStepsNoV6 == <<
  SetUpgradeHandler("v4", {"account", "bank"}),
  SetUpgradeHandler("v5", {"incentives"}),
  SetUpgradeHandler("v7", {"auction", "axelarcork", "cellarfees", "cork",
                           "icahost", "pubsub"}) >>

\* app.setupUpgradeHandlers(), after RegisterServices.
UpgradeHandlerSteps == <<
  SetUpgradeHandler("v4", {"account", "bank"}),
  SetUpgradeHandler("v5", {"incentives"}),
  SetUpgradeHandler("v6", {}),
  SetUpgradeHandler("v7", {"auction", "axelarcork", "cellarfees", "cork",
                           "icahost", "pubsub"}) >>

\* module.NewSimulationManager: app modules over keeper copies (the
\* capability keeper dereferenced), the IBC keeper by pointer.
SimManagerStep ==
  New("sm", {"account", "bank", "capability", "gov", "feegrant", "mint",
             "staking", "distr", "slashing", "params", "evidence", "authz",
             "cork", "axelarcork", "incentives", "cellarfees", "gravity",
             "auction", "pubsub"}, {"ibc"})

\* ante.NewAnteHandler(HandlerOptions{...}).
AnteStep == New("ante", {"account", "bank", "feegrant"}, {})

Construction == StakingSteps \o IBCSteps \o BridgeSteps \o RouterSteps
                \o <<UpgradeLoaderStep>> \o ModuleManagerSteps
                \o UpgradeHandlerSteps \o <<SimManagerStep, MountStep, AnteStep>>

\* Mutant: the v7 module's store key never added to NewKVStoreKeys.
StoreKeysV6 == {"acc", "bank", "staking", "mint", "distribution", "slashing",
  "gov", "params", "ibc", "upgrade", "evidence", "transfer", "icahost",
  "capability", "gravity", "feegrant", "authz", "cork", "incentives",
  "cellarfees"}

\* sdk.NewKVStoreKeys(...): the KV store of every module that has one, by
\* its StoreKey value.
StoreKeys == {"acc", "bank", "staking", "mint", "distribution", "slashing",
  "gov", "params", "ibc", "upgrade", "evidence", "transfer", "icahost",
  "capability", "gravity", "feegrant", "authz", "cork", "axelarcork",
  "incentives", "auction", "cellarfees", "pubsub"}

\* Mutant: the subspace of the module added last never registered.
ParamSubspacesV6 == {"auth", "bank", "staking", "mint", "distribution",
  "slashing", "gov", "crisis", "transfer", "ibc", "icahost", "gravity", "cork",
  "cellarfees", "incentives", "auction", "pubsub"}

\* initParamsKeeper: the subspaces the params keeper creates.
ParamSubspaces == {"auth", "bank", "staking", "mint", "distribution",
  "slashing", "gov", "crisis", "transfer", "ibc", "icahost", "gravity", "cork",
  "axelarcork", "cellarfees", "incentives", "auction", "pubsub"}

\* GetSubspace discards the found flag: an unregistered name yields the
\* zero Subspace, which panics at its first parameter access.
GetSubspace(name) == IF name \in ParamSubspaces THEN name ELSE "zero"

\* The keys[...] and GetSubspace(...) arguments of each keeper constructor.
KeeperStore ==
  [k \in {"params", "capability", "bank", "staking", "mint", "slashing", "gov",
          "upgrade", "evidence", "transfer", "icahost", "gravity", "feegrant",
          "authz", "cork", "axelarcork", "incentives", "auction", "cellarfees",
          "pubsub", "ibc"} |-> k]
  @@ ("account" :> "acc" @@ "distr" :> "distribution")
KeeperSubspace ==
  [k \in {"bank", "staking", "mint", "slashing", "crisis", "gov", "transfer",
          "icahost", "gravity", "cork", "axelarcork", "incentives", "auction",
          "cellarfees", "pubsub", "ibc"} |-> GetSubspace(k)]
  @@ ("account" :> GetSubspace("auth") @@ "distr" :> GetSubspace("distribution"))

NoStoreUpgrades == [added |-> {}, deleted |-> {}]

\* Mutant: the v6 loader adds the ICA controller/host module name's store
\* (icatypes.ModuleName) instead of the host submodule's.
StoreUpgradesIcaModuleName(name) ==
  CASE name = "v4" -> [added |-> {"cork", "cellarfees"}, deleted |-> {"allocation"}]
    [] name = "v5" -> [added |-> {"incentives"}, deleted |-> {}]
    [] name = "v6" -> [added |-> {"interchainaccounts"}, deleted |-> {}]
    [] name = "v7" -> [added |-> {"auction", "axelarcork", "pubsub"}, deleted |-> {}]
    [] OTHER -> NoStoreUpgrades

\* The StoreUpgrades setupUpgradeStoreLoaders picks for the upgrade named
\* in upgrade-info.json.
StoreUpgrades(name) ==
  CASE name = "v4" -> [added |-> {"cork", "cellarfees"}, deleted |-> {"allocation"}]
    [] name = "v5" -> [added |-> {"incentives"}, deleted |-> {}]
    [] name = "v6" -> [added |-> {"icahost"}, deleted |-> {}]
    [] name = "v7" -> [added |-> {"auction", "axelarcork", "pubsub"}, deleted |-> {}]
    [] OTHER -> NoStoreUpgrades

\* setupUpgradeStoreLoaders: nothing at a skipped upgrade height or for an
\* unknown name, else an UpgradeStoreLoader with that upgrade's stores.
SetupUpgradeStoreLoaders(info) ==
  IF info.skip THEN NoStoreUpgrades ELSE StoreUpgrades(info.name)

\* upgrade-info.json as a restarting node may find it.
\* "v8" stands for an upgrade of a later binary this one does not know.
UpgradeNames == {"v4", "v5", "v6", "v7", "v8"}
UpgradeInfos == [name : {""} \cup UpgradeNames, skip : BOOLEAN]

\* SetOrderBeginBlockers, SetOrderEndBlockers, SetOrderInitGenesis.
\* Mutant: the ICA host's submodule name used for the ICA module.
OrderBeginBlockersHostName == <<
  "upgrade", "capability", "mint", "distr", "slashing", "evidence", "staking",
  "auth", "bank", "gov", "crisis", "ibc", "transfer", "icahost", "genutil",
  "authz", "feegrant", "params", "vesting", "incentives", "gravity", "cork",
  "axelarcork", "cellarfees", "auction", "pubsub" >>

OrderBeginBlockers == <<
  "upgrade", "capability", "mint", "distr", "slashing", "evidence", "staking",
  "auth", "bank", "gov", "crisis", "ibc", "transfer", "ica", "genutil",
  "authz", "feegrant", "params", "vesting", "incentives", "gravity", "cork",
  "axelarcork", "cellarfees", "auction", "pubsub" >>

\* Mutant: the staking EndBlocker listed before the governance one.
OrderEndBlockersStakingFirst == <<
  "crisis", "staking", "gov", "ibc", "transfer", "ica", "capability", "auth",
  "bank", "distr", "slashing", "mint", "genutil", "evidence", "authz",
  "feegrant", "params", "upgrade", "vesting", "incentives", "gravity", "cork",
  "axelarcork", "cellarfees", "auction", "pubsub" >>

OrderEndBlockers == <<
  "crisis", "gov", "staking", "ibc", "transfer", "ica", "capability", "auth",
  "bank", "distr", "slashing", "mint", "genutil", "evidence", "authz",
  "feegrant", "params", "upgrade", "vesting", "incentives", "gravity", "cork",
  "axelarcork", "cellarfees", "auction", "pubsub" >>

OrderInitGenesis == <<
  "capability", "auth", "bank", "distr", "gov", "staking", "slashing", "mint",
  "crisis", "genutil", "ibc", "transfer", "ica", "evidence", "authz",
  "feegrant", "params", "upgrade", "vesting", "gravity", "incentives", "cork",
  "axelarcork", "cellarfees", "auction", "pubsub" >>

VARIABLES
  phase,      \* "construct", "initchain", "begin", "end", "halted"
  pc,         \* index of the next statement or module within the phase
  block,      \* blocks begun after InitChain
  built,      \* keepers assigned so far
  modified,   \* keepers whose hooks or router were set so far
  holds,      \* what each constructed value holds of other keepers
  ran,        \* modules whose handler ran in the current phase (InitGenesis or block half)
  upgradeInfo,   \* upgrade-info.json read from disk at start
  storeLoader,   \* the StoreUpgrades of the store loader set on BaseApp
  mounted,       \* KV stores mounted on the multistore
  upgradeHandlers, \* names with a handler in the upgrade keeper
  upgradePlan    \* the name of the scheduled upgrade plan in the store, or ""

vars == <<phase, pc, block, built, modified, holds, ran, upgradeInfo,
          storeLoader, mounted, upgradeHandlers, upgradePlan>>

Keepers == UNION {{s.k} \cup s.copy \cup s.ref : s \in ToSet(Construction)}

\* A held keeper: by pointer it is the live struct, by value a snapshot.
Holds == [holder : Keepers, dep : Keepers, ref : BOOLEAN,
          built : BOOLEAN, modified : BOOLEAN]

Init ==
  /\ phase = "construct"
  /\ pc = 1
  /\ block = 0
  /\ built = {}
  /\ modified = {}
  /\ holds = {}
  /\ ran = {}
  /\ upgradeInfo \in UpgradeInfos
  /\ storeLoader = NoStoreUpgrades
  /\ mounted = {}
  /\ upgradeHandlers = {}
  /\ upgradePlan = upgradeInfo.name

-----------------------------------------------------------------------------
(***************************************************************************)
(* Actions.                                                                *)
(***************************************************************************)

\* "if loadLatest { app.LoadLatestVersion() }", the last statement: a fresh
\* chain then waits for InitChain, a node restarted at an upgrade height
\* resumes with that height's block.
LoadLatestVersion(info) ==
  IF info.name = "" THEN [phase |-> "initchain", block |-> 0]
  ELSE [phase |-> "begin", block |-> 1]

\* The hold entries statement s gives its keeper.
Captures(s) ==
  {[holder |-> s.k, dep |-> d, ref |-> FALSE, built |-> d \in built,
    modified |-> d \in modified] : d \in s.copy}
  \cup {[holder |-> s.k, dep |-> d, ref |-> TRUE, built |-> FALSE,
         modified |-> FALSE] : d \in s.ref}

\* One statement of NewSommelierApp.  An assignment replaces the keeper's
\* struct, and with it everything the old struct held; SetHooks and
\* SetRouter add what they are handed.
Construct ==
  LET s == Construction[pc] IN
  /\ phase = "construct"
  /\ built' = IF s.op = "new" THEN built \cup {s.k} ELSE built
  /\ modified' = IF s.op = "modify" THEN modified \cup {s.k} ELSE modified
  /\ holds' = IF s.op = "new"
              THEN {e \in holds : e.holder /= s.k} \cup Captures(s)
              ELSE holds \cup Captures(s)
  /\ storeLoader' = IF s.op = "loader" THEN SetupUpgradeStoreLoaders(upgradeInfo)
                    ELSE storeLoader
  /\ mounted' = IF s.op = "mount" THEN StoreKeys ELSE mounted
  /\ upgradeHandlers' = IF s.op = "handler" THEN upgradeHandlers \cup {s.name}
                        ELSE upgradeHandlers
  /\ IF pc < Len(Construction)
     THEN phase' = phase /\ pc' = pc + 1 /\ block' = block
     ELSE /\ phase' = LoadLatestVersion(upgradeInfo).phase
          /\ block' = LoadLatestVersion(upgradeInfo).block
          /\ pc' = 1
  /\ UNCHANGED <<ran, upgradeInfo, upgradePlan>>

\* Run the next module of a phase's order; after the last one move on.
\* ran keeps the finished phase's modules until the next phase starts.
RunModule(order, nextPhase, nextBlock) ==
  /\ ran' = IF pc = 1 THEN {order[1]} ELSE ran \cup {order[pc]}
  /\ IF pc = Len(order)
     THEN phase' = nextPhase /\ pc' = 1 /\ block' = nextBlock
     ELSE phase' = phase /\ pc' = pc + 1 /\ block' = block
  /\ UNCHANGED <<built, modified, holds, upgradeInfo, storeLoader, mounted,
                 upgradeHandlers, upgradePlan>>

\* InitChainer: mm.InitGenesis in SetOrderInitGenesis order.
InitChainer ==
  /\ phase = "initchain"
  /\ RunModule(OrderInitGenesis, "begin", 1)

\* BeginBlocker / EndBlocker: mm.BeginBlock and mm.EndBlock in their orders.
BeginBlocker ==
  /\ phase = "begin"
  /\ ~(OrderBeginBlockers[pc] = "upgrade" /\ upgradePlan /= "")
  /\ RunModule(OrderBeginBlockers, "end", block)

\* The upgrade module's BeginBlocker (cosmos-sdk x/upgrade) at the height of
\* the scheduled plan: a skip height clears the plan; a plan with a
\* registered handler is applied and cleared; any other halts the node
\* ("UPGRADE NEEDED") until a binary with the handler is started.
UpgradeBeginBlocker ==
  /\ phase = "begin"
  /\ OrderBeginBlockers[pc] = "upgrade"
  /\ upgradePlan /= ""
  /\ IF upgradeInfo.skip \/ upgradePlan \in upgradeHandlers
     THEN /\ upgradePlan' = ""
          /\ ran' = IF pc = 1 THEN {"upgrade"} ELSE ran \cup {"upgrade"}
          /\ pc' = pc + 1
          /\ UNCHANGED phase
     ELSE /\ phase' = "panicked"
          /\ UNCHANGED <<upgradePlan, ran, pc>>
  /\ UNCHANGED <<block, built, modified, holds, upgradeInfo, storeLoader,
                 mounted, upgradeHandlers>>

EndBlocker ==
  /\ phase = "end"
  /\ RunModule(OrderEndBlockers, IF block < MaxBlocks THEN "begin" ELSE "halted",
               IF block < MaxBlocks THEN block + 1 ELSE block)

\* The end of the explored prefix.
Halted == phase \in {"halted", "panicked"} /\ UNCHANGED vars

Next == Construct \/ InitChainer \/ BeginBlocker \/ UpgradeBeginBlocker
        \/ EndBlocker \/ Halted

Spec == Init /\ [][Next]_vars

-----------------------------------------------------------------------------
Phases == {"construct", "initchain", "begin", "end", "halted", "panicked"}
Modules == ToSet(OrderInitGenesis)

TypeOK ==
  /\ phase \in Phases
  /\ pc \in 1..Len(Construction)
  /\ block \in 0..MaxBlocks
  /\ built \subseteq Keepers /\ modified \subseteq Keepers
  /\ holds \subseteq Holds
  /\ ran \subseteq Modules
  /\ upgradeInfo \in UpgradeInfos
  /\ storeLoader \in [added : SUBSET STRING, deleted : SUBSET STRING]
  /\ mounted \subseteq StoreKeys
  /\ upgradeHandlers \subseteq UpgradeNames
  /\ upgradePlan \in {""} \cup UpgradeNames

\* What a holder sees of a held keeper: the live struct through a pointer,
\* the snapshot through a copy.
SeesBuilt(e) == IF e.ref THEN e.dep \in built ELSE e.built
SeesModified(e) == IF e.ref THEN e.dep \in modified ELSE e.modified

\* No keeper, wrapper or module is handed the zero value of a keeper: every
\* copy is taken after the keeper was assigned (a pointer may be taken
\* earlier, it sees the later assignment).  The middleware's SendPacket
\* dereferences its keeper's ICS4 wrapper and store.
NoZeroValueKeeperCaptured ==
  \A e \in holds : e.ref \/ e.built

\* "stakingKeeper above is passed by reference, so that it will contain these
\* hooks" (app.go:394): once the app is built, every keeper holding the
\* staking keeper sees the distribution and slashing hooks.
StakingHooksSeen ==
  phase /= "construct" =>
    \A e \in holds : e.dep = "staking" => SeesModified(e)

\* The ordering NOTEs of app.go, and the order the cork tally relies on:
\* capability's BeginBlocker before the modules using capabilities; gov's
\* EndBlocker before staking's; staking's EndBlocker (the block's validator
\* power updates) before cork's tally; at InitGenesis capability first and
\* genutil after staking.  Whenever the later module has run in a phase,
\* the earlier one has too.
OrderConstraints ==
  {[phase |-> "begin", before |-> "capability", after |-> m] : m \in {"ibc", "transfer", "ica", "axelarcork"}}
  \cup {[phase |-> "end", before |-> "gov", after |-> "staking"],
        [phase |-> "end", before |-> "staking", after |-> "cork"],
        [phase |-> "initchain", before |-> "staking", after |-> "genutil"]}
  \cup {[phase |-> "initchain", before |-> "capability", after |-> m] : m \in Modules \ {"capability"}}

ModuleOrderRespected ==
  \A c \in OrderConstraints :
    (phase = c.phase /\ c.after \in ran) => c.before \in ran

\* Every keeper built by NewSommelierApp reads a KV store that is mounted
\* before the multistore is loaded, and a parameter subspace that
\* initParamsKeeper created: keys[...] of a missing key is a nil key and
\* GetSubspace of a missing name the zero Subspace, both of which only
\* panic when the module first touches its state.
KeepersBackedByStores ==
  phase /= "construct" =>
    \A k \in built :
      /\ k \in DOMAIN KeeperStore => KeeperStore[k] \in mounted
      /\ k \in DOMAIN KeeperSubspace => KeeperSubspace[k] /= "zero"

\* The store loader of a restart at an upgrade height only adds stores this
\* binary mounts and only deletes stores it no longer mounts: otherwise a
\* mounted store has no committed version, or the added one is never
\* opened.
UpgradeStoresMounted ==
  phase /= "construct" =>
    /\ storeLoader.added \subseteq mounted
    /\ storeLoader.deleted \cap mounted = {}

\* setupUpgradeStoreLoaders and setupUpgradeHandlers are two tables keyed
\* by the same upgrade names: a node restarted at an upgrade height never
\* halts for want of a handler after the binary's store loader has already
\* added or deleted that upgrade's stores, and a binary that halts there
\* has left the stores as they were, so the next binary can load them.
UpgradeHandlerForLoadedStores ==
  phase = "panicked" => storeLoader = NoStoreUpgrades

\* "moved crisis to end of order" (app.go:642-645): crisis's InitGenesis,
\* which asserts every registered invariant, runs after every other
\* module's InitGenesis.
CrisisInitGenesisLast ==
  (phase = "initchain" /\ "crisis" \in ran) => ran = Modules

====
