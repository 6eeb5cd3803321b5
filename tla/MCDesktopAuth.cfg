\* Two users and two operations at a time; three started in all, restarts included,
\* so that a third one meets what two have left.
SPECIFICATION AuthSpec
CONSTANTS
  Users = {u1, u2}
  Ops = {o1, o2}
  NoUser = NoUser
  MaxFlows = 2
  MaxStarts = 3
SYMMETRY Symm
INVARIANTS
  AuthTypeOK
  FileIsWhole
  SessionIsWhole
PROPERTIES
  ReplayRefused
CHECK_DEADLOCK FALSE
