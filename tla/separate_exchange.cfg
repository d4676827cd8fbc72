SPECIFICATION FairSpec
CONSTANTS
  NumEngines = 2
  WorkersPerEngine = 2
  TrainWorldSize = 2
  MaxStep = 3
  ValidationSteps = 2
  ValidateEvery = 1
  MaxLostReplies = 1
INVARIANT TypeOK
INVARIANT UpdateIsGlobal
INVARIANT LoadsCurrentCheckpoint
INVARIANT AllEnginesLoaded
PROPERTY ServesUndisturbed
PROPERTY ImplementsExchange
PROPERTY Completes
CHECK_DEADLOCK FALSE
