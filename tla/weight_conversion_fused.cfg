SPECIFICATION Spec
CONSTANTS
  Layouts <- MCFusedLayouts
  MaxTensorSize = 5
INVARIANT CanonicalTensors
