SPECIFICATION FairSpec
CONSTANTS
  InferWorldSize = 2
  WorldSize = 4
  MaxOps = 3
INVARIANTS NeverStuck BarrierIsLast
PROPERTY Terminates
