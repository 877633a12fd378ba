---------------------------- MODULE ModuleAccounts ----------------------------
(***************************************************************************)
(* The module accounts of the Sommelier app (app/app.go): their            *)
(* permissions, the addresses derived from their names, and the table of   *)
(* addresses the bank keeper refuses to credit from outside.  The bank     *)
(* keeper is constructed with BlockedAddrs(); the transfer module asks it  *)
(* BlockedAddr(receiver) before minting or unescrowing for a received      *)
(* packet.                                                                  *)
(***************************************************************************)
EXTENDS TLC

\* authtypes.NewModuleAddress(name): a hash of the module name; a
\* collision-free hash is modelled as the name it is computed from.
ModuleAddress(name) == <<"module", name>>

\* maccPerms: module account name -> permissions.
MaccPerms ==
  "fee_collector" :> {} @@ "distribution" :> {} @@ "mint" :> {"minter"}
  @@ "bonded_tokens_pool" :> {"burner", "staking"}
  @@ "not_bonded_tokens_pool" :> {"burner", "staking"}
  @@ "gov" :> {"burner"} @@ "transfer" :> {"minter", "burner"}
  @@ "interchainaccounts" :> {} @@ "gravity" :> {"minter", "burner"}
  @@ "cellarfees" :> {} @@ "incentives" :> {} @@ "axelarcork" :> {}
  @@ "auction" :> {} @@ "pubsub" :> {}

\* allowedReceivingModAcc: the names mapped to true (none).
AllowedReceivingModAcc == {}

\* ModuleAccountAddrs: the address of every module account.
ModuleAccountAddrs == {ModuleAddress(acc) : acc \in DOMAIN MaccPerms}

\* Mutant: the negation dropped, so only allowed accounts are blocked.
BlockedAddrsAllowedOnly ==
  [a \in ModuleAccountAddrs |-> a[2] \in AllowedReceivingModAcc]

\* BlockedAddrs: module account address -> !allowedReceivingModAcc[name].
BlockedAddrs ==
  [a \in ModuleAccountAddrs |-> a[2] \notin AllowedReceivingModAcc]

\* The bank keeper's BlockedAddr: a lookup in the table it was built with,
\* false for an address the table does not hold.
BlockedAddr(addr) == addr \in DOMAIN BlockedAddrs /\ BlockedAddrs[addr]
==============================================================================
