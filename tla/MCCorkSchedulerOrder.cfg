\* VoteThreshold 1/3 with equal stake: several corks win in one block, so
\* the emitted order and the nonces it assigns are exercised.
CONSTANTS
  v1 = v1
  v2 = v2
  v3 = v3
  s1 = s1
  s2 = s2
  s3 = s3
  s4 = s4
  NoValidator = NoValidator
  NoCork = NoCork
  Validators <- MCValidators
  Signers <- MCSigners
  Orchestrator <- MCOrchestrator
  PowerProfiles <- MCEqualPower
  Targets = {1, 2}
  CellarIDs = {1}
  Calls = {1, 2}
  Malformed = {}
  ThresholdNum = 1
  ThresholdDen = 3
  MaxHeight = 3
  MaxCorks = 4

SPECIFICATION Spec

INVARIANTS
  NoncesGapless
  NoDoubleSubmission
