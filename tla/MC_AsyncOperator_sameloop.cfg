\* The running loop is S's own thread: the pipeline is subscribed from inside
\* the event loop.  S stops stepping once it spins in wait_completed; the
\* liveness property, not TLC's deadlock check, reports it.
CONSTANTS
  N = 1
  MaxLen = 1
  None = None
  SourceEnds <- MCCompleted
  FnRaiseChoices <- MCNoFaults
  GenErrChoices <- MCNoFaults
  LoopRunningChoices <- MCTrue
  LoopOnSourceChoices <- MCTrue
SPECIFICATION Spec
PROPERTY Terminates
CHECK_DEADLOCK FALSE
