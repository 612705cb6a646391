-------------------------- MODULE MC_TaggedService --------------------------
(* Two instances, two registry objects, a 2-bit counter.                   *)
EXTENDS TaggedService

=============================================================================
