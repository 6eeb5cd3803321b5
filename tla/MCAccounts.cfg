\* Two concurrent calls: a sign-up code and a reset code, and tokens enough for two
\* log-ins or a forked chain and one more exchange.
SPECIFICATION Spec
CONSTANTS
  Calls = {x1, x2}
  MaxCodes = 2
  MaxTokens = 4
  AttemptLimit = 2
  None = None
SYMMETRY Symm
INVARIANTS
  TypeOK
  CodeRedeemedOnce
  ExchangesOverlap
CHECK_DEADLOCK FALSE
