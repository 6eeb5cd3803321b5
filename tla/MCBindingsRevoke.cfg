\* A Bind that has read the device before it is revoked.
SPECIFICATION Spec
CONSTANTS
  Devices = {d1}
  Hosts = {h1}
  Calls = {c1, c2}
  Agents = {}
  None = None
  NoRow = NoRow
PROPERTY
  RevokeNukesBindings
CHECK_DEADLOCK FALSE
