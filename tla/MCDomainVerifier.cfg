\* Two domains and sweeps that take one, so that one waits while the other is verified;
\* two attempts until sweeps pass a domain by, and one restart or failed statement.
SPECIFICATION FairSpec
CONSTANTS
  Domains = {d1, d2}
  None = None
  MaxAttempts = 2
  Limit = 1
  Askers = {d1}
  MaxQueue = 1
  MaxLapses = 1
INVARIANTS
  NoLostWakeup
PROPERTIES
  VerifiedStays
  PublishedIsVerified
  AskedIsVerified
CHECK_DEADLOCK FALSE
