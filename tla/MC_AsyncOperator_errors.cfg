\* Every failure: flatmap_fn or a generator raising, the source erroring; own loop thread.
CONSTANTS
  N = 2
  MaxLen = 1
  None = None
  SourceEnds <- MCAnyEnd
  FnRaiseChoices <- MCFaults
  GenErrChoices <- MCFaults
  LoopRunningChoices <- MCNoFaults
  LoopOnSourceChoices <- MCNoFaults
SPECIFICATION Spec
INVARIANT NoCallbackAfterDestroy
