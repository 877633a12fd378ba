\* Run crisis_genesis_order: InitChain with the InitGenesis order of app.go.
CONSTANTS
  MaxBlocks = 2
SPECIFICATION Spec
INVARIANT
  CrisisInitGenesisLast
