------------------------- MODULE MC_SystemResources -------------------------
(* Two threads, one or two host partitions with up to two devices each:    *)
(* device-less, one-device, multi-device and mixed hosts, both placements.  *)
EXTENDS SystemResources

MCTopologies ==
  {<<0>>, <<1>>, <<2>>, <<0, 0>>, <<1, 1>>, <<2, 1>>, <<0, 1>>, <<1, 0>>}

\* A device-less host partition ahead of one with a device.
MCMixedTopologies == {<<0, 1>>}

=============================================================================
