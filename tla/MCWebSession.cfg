\* Two tabs of one browser and two accounts; three tokens, so that each tab can
\* fetch one and one of them another; four loads, links, submits and clicks of the user,
\* so that a tab signs in while the other is loaded or signs out; one refusal or expiry.
SPECIFICATION Spec
CONSTANTS
  Tabs = {t1, t2}
  Users = {a, b}
  None = None
  MaxTokens = 3
  MaxActs = 4
  MaxLapses = 1
  Entries = {"login", "app"}
INVARIANTS
  TokenIsLastFetch
  SignedOutIsClean
SYMMETRY Symmetry
CHECK_DEADLOCK FALSE
