SPECIFICATION Spec
CONSTANTS
  WorldSize = 3
  MaxOps = 2
  Plans <- AllPlans
  LocalSteps <- FewSteps
INVARIANT EveryPairMoved
