\* Three concurrent API calls over one host and two devices, and no agent; two domains of
\* two or three labels, so that one may lie under the other, with a guide's records and
\* one more.
SPECIFICATION MCSpec
CONSTANTS
  Devices = {d1, d2}
  Hosts = {h1}
  Calls = {c1, c2, c3}
  Agents = {}
  None = None
  NoRow = NoRow
  Labels = {a, b}
  Osm = Osm
  Star = Star
  Cname = Cname
  MaxLabels = 3
  MaxNames = 2
  MaxRecords = 4
SYMMETRY MCSymmetry
INVARIANTS
  TypeOK
  LiveKeyIsLastBind
  RowsClashIfNested
  SplitFindsTwoLabels
  GuideLeadsHere
CHECK_DEADLOCK FALSE
