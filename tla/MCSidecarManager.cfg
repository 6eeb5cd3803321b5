\* Two bindings and two process ids: both may run, one may restart while the other
\* is being stopped, or one binding may have a process nobody tracks any more
\* beside its entry.  The second crash of a binding trips the limit.
SPECIFICATION FairSpec
CONSTANTS
  Procs = {p1, p2}
  Domains = {d1, d2}
  None = None
  CrashLimit = 2
INVARIANTS
  EntryIsUnreaped
PROPERTIES
  WatchdogKillsHung
  QuitCompletes
CHECK_DEADLOCK FALSE
