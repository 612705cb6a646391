CONSTANTS
  Threads = {t1, t2}
  None = None
  Foreign = Foreign
  Topologies <- MCTopologies

SPECIFICATION Spec

INVARIANT TypeOK
INVARIANT PartitionsAligned
INVARIANT RegistrationCachePerHost
INVARIANT ThreadBindingSound
PROPERTY RuntimeThreadsBound
