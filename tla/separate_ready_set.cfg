SPECIFICATION Spec
CONSTANTS
  NumEngines = 2
  WorkersPerEngine = 1
  TrainWorldSize = 2
  MaxStep = 1
  ValidationSteps = 2
  ValidateEvery = 1
  MaxLostReplies = 0
INVARIANT NoReaderCrash
CHECK_DEADLOCK FALSE
