\* A device-less host partition ahead of a host partition with a device.
CONSTANTS
  Threads = {t1}
  None = None
  Foreign = Foreign
  Topologies <- MCMixedTopologies

SPECIFICATION Spec

PROPERTY ConstructionCompletes
