\* Source completes, nothing raises; own loop thread or an external loop.
CONSTANTS
  N = 2
  MaxLen = 2
  None = None
  SourceEnds <- MCCompleted
  FnRaiseChoices <- MCNoFaults
  GenErrChoices <- MCNoFaults
  LoopRunningChoices <- MCFaults
  LoopOnSourceChoices <- MCNoFaults
SPECIFICATION Spec
INVARIANTS TypeOK CompletedAfterAllItems
PROPERTIES Terminates
