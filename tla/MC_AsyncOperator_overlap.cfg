\* The source ends with an error while generators still deliver.
CONSTANTS
  N = 2
  MaxLen = 1
  None = None
  SourceEnds <- MCError
  FnRaiseChoices <- MCNoFaults
  GenErrChoices <- MCNoFaults
  LoopRunningChoices <- MCNoFaults
  LoopOnSourceChoices <- MCNoFaults
SPECIFICATION Spec
INVARIANT SinkCallsSerialized
