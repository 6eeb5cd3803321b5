\* Two connections and a visitor whose two lookups may find different tunnels;
\* no symmetry, because liveness is checked.
SPECIFICATION FairSpec
CONSTANTS
  Conns = {c1, c2}
  Hosts = {h1}
  Visitors = {v1}
  None = None
  MissLimit = 3
INVARIANTS
  RequestOnOwnHost
PROPERTIES
  BrokenTunnelEnds
  VisitorAnswered
CHECK_DEADLOCK FALSE
