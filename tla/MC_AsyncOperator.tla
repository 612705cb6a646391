--------------------------- MODULE MC_AsyncOperator ---------------------------
(* Model-checking instances of AsyncOperator: the environments each run    *)
(* explores.                                                               *)
EXTENDS AsyncOperator

\* flatmap_fn and the generators never raise.
MCNoFaults == {FALSE}
MCFaults   == {FALSE, TRUE}
MCTrue     == {TRUE}

MCCompleted == {"completed"}
MCAnyEnd    == {"completed", "error"}
MCError     == {"error"}
=============================================================================
