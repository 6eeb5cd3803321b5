\* One row and two ports, so that it is bound again to another one; two sidecars at once,
\* so that one outlives its stop while another is started; two IPC calls at a time; four
\* clicks of the user, for a bind, an unbind and a change of tab between them or a sleep;
\* and one change from elsewhere or one crash that arms a restart.
SPECIFICATION Spec
CONSTANTS
  NumRows = 1
  Ports = {p1, p2}
  BadPort = BadPort
  Calls = {c1, c2}
  Procs = {s1, s2}
  None = None
  MaxActs = 4
  MaxOthers = 1
INVARIANTS
  TypeOK
  TunnelIsBound
  
PROPERTY
  NoUnseenTakeover
SYMMETRY Symmetry
CHECK_DEADLOCK FALSE
