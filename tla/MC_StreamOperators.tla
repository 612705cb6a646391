------------------------- MODULE MC_StreamOperators -------------------------
(* Model-checking instances of StreamOperators: every operator alone, and *)
(* the two-stage chains whose stages can end the stream or drop calls     *)
(* early (a later stage that raises behind flatten or on_completed, build  *)
(* raising behind or ahead of another stage), among the chains that are   *)
(* well-typed for the model's Python objects.                             *)
EXTENDS StreamOperators

MCOps == {"build", "filter", "map", "flatten", "on_completed", "pairwise", "to_list"}

MCChains ==
  {<< o >> : o \in MCOps} \cup
  { << "on_completed", "filter" >>, << "on_completed", "to_list" >>,
    << "flatten", "map" >>, << "pairwise", "flatten" >>, << "to_list", "flatten" >>,
    << "filter", "on_completed" >>, << "build", "pairwise" >>, << "map", "build" >> }
=============================================================================
