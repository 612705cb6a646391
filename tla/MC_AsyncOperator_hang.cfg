\* The source completes; a generator may raise.
CONSTANTS
  N = 2
  MaxLen = 1
  None = None
  SourceEnds <- MCCompleted
  FnRaiseChoices <- MCNoFaults
  GenErrChoices <- MCFaults
  LoopRunningChoices <- MCNoFaults
  LoopOnSourceChoices <- MCNoFaults
SPECIFICATION Spec
PROPERTY Terminates
