\* One device, bound and unbound here or elsewhere, and two changes of the rows, one to
\* be seen and one to be missed. Three sockets, so that an early one ends while the last
\* connects; a channel of one event, so that it is full. Two administrators and one save,
\* which the other has not fetched yet.
SPECIFICATION MCSpec
CONSTANTS
  Devices = {d1}
  None = None
  Unknown = Unknown
  MaxChanges = 2
  MaxSockets = 3
  MaxEvents = 2
  Capacity = 1
  Admins = {a1, a2}
  Limits = {1, 2}
  Rupees = {0, 5}
  MaxSaves = 1
INVARIANTS
  MCTypeOK
  
  EventsInOrder
  ReconnectArmed
  UntouchedIsShown
SYMMETRY Symmetry
CHECK_DEADLOCK FALSE
