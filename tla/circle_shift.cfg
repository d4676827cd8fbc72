SPECIFICATION FairSpec
CONSTANTS
  WorldSize = 4
  Plans <- AllPlans
INVARIANT StageClosed
PROPERTY Terminates
