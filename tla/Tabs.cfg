SPECIFICATION Spec
CONSTANTS
  Tokens = {t1, t2, t3}
  Tabs = {x, y}
  None = None
  MaxMints = 3
  MaxLost = 1
  MaxInbox = 1
INVARIANT OneSession
INVARIANT HonestTabsAreSpared
PROPERTY SessionsMoveOn
CHECK_DEADLOCK FALSE
SYMMETRY AnyTabToken
