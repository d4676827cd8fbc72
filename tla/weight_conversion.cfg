SPECIFICATION Spec
CONSTANTS
  Layouts <- MCLayouts
  MaxTensorSize = 5
INVARIANT TypeOK
INVARIANT NeverStuck
INVARIANT MetaTruthful
INVARIANT CanonicalTensors
INVARIANT CacheDrained
