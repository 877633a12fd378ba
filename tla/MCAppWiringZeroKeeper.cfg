\* Run wiring_zero_keeper: NewSommelierApp as written.
CONSTANTS
  MaxBlocks = 2
SPECIFICATION Spec
INVARIANT
  NoZeroValueKeeperCaptured
