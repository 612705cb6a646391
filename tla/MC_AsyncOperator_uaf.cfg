\* An externally running loop; the source ends with an error.
CONSTANTS
  N = 2
  MaxLen = 1
  None = None
  SourceEnds <- MCError
  FnRaiseChoices <- MCNoFaults
  GenErrChoices <- MCNoFaults
  LoopRunningChoices <- MCTrue
  LoopOnSourceChoices <- MCNoFaults
SPECIFICATION Spec
INVARIANT NoCallbackAfterDestroy
