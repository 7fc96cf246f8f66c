SPECIFICATION TabsSpec
CONSTANTS
  Browsers = {b1}
  Users = {u1}
  Tokens = {t1, t2, t3}
  Requests = {q1, q2}
  SessionIds = {1, 2}
  NoUser = NoUser
  NoToken = NoToken
  Lifetime = 1
  MaxTime = 1
  Tabs = {p1, p2}
  NoRequest = NoRequest
SYMMETRY Symmetry
INVARIANTS
  TabsKeepTheSession
PROPERTIES
  StoppedStaysStopped
CHECK_DEADLOCK FALSE
