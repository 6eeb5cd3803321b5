\* Three connections for one host, so that a tunnel is replaced, and its
\* replacement replaced, while the cleanup of each is still to come.
SPECIFICATION Spec
CONSTANTS
  Conns = {c1, c2, c3}
  Hosts = {h1}
  Visitors = {}
  None = None
  MissLimit = 3
SYMMETRY Symm
INVARIANTS
  RegistrySound
  DisplacedIsClosing
  EndedRowNotServing
PROPERTIES
  OnlyOwnCleanupUnroutes
  ImplementsRouting
CHECK_DEADLOCK FALSE
