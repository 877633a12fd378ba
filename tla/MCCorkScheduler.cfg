\* VoteThreshold 2/3 (the integration tests use 0.67): vote lifetime,
\* exactly-once submission, conflict freedom and eventual resolution.
CONSTANTS
  v1 = v1
  v2 = v2
  v3 = v3
  s1 = s1
  s2 = s2
  s3 = s3
  s4 = s4
  NoValidator = NoValidator
  NoCork = NoCork
  Validators <- MCValidators
  Signers <- MCSigners
  Orchestrator <- MCOrchestrator
  PowerProfiles <- MCPowerProfiles
  Targets = {1, 2}
  CellarIDs = {1}
  Calls = {1, 2}
  Malformed = {}
  ThresholdNum = 2
  ThresholdDen = 3
  MaxHeight = 3
  MaxCorks = 4

SPECIFICATION Spec

INVARIANTS
  TypeOK
  VoteLifetime
  NoConflictingCalls

PROPERTIES
  EveryVoteResolved
