SPECIFICATION Spec
CONSTANTS
  NumLayers = 4
  Length = 12
  NumEngines = 2
  TrainLayouts <- MCTrainLayouts
  InferLayouts <- MCInferLayouts
INVARIANT TypeOK
INVARIANT PairsAgree
INVARIANT ReceivedRight
INVARIANT EveryElementReceived
INVARIANT WrittenOnce
