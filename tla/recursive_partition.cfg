SPECIFICATION FairSpec
CONSTANTS
  WorldSize = 8
  MaxOps = 3
  Plans <- EightPlans
  LocalSteps <- FewSteps
INVARIANTS NeverStuck EveryPairMoved MovedOnce
PROPERTY Terminates
