\* Two devices that register for one host while a call rebinds, revokes or deletes.
SPECIFICATION FairSpec
CONSTANTS
  Devices = {d1, d2}
  Hosts = {h1}
  Calls = {c1}
  Agents = {d1, d2}
  None = None
  NoRow = NoRow
INVARIANTS
  RouteWasEntitled
PROPERTIES
  BoundDeviceServes
CHECK_DEADLOCK FALSE
