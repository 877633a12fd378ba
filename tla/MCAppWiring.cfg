\* Run app_wiring_order: NewSommelierApp (every upgrade-info.json a restart
\* may find), InitChain and two blocks.
CONSTANTS
  MaxBlocks = 2
SPECIFICATION Spec
INVARIANTS
  TypeOK
  StakingHooksSeen
  ModuleOrderRespected
  KeepersBackedByStores
  UpgradeStoresMounted
  UpgradeHandlerForLoadedStores
