SPECIFICATION Spec
CONSTANTS
  Users = {u1, u2, u3}
  NoUser = NoUser
  Requests = {r1, r2}
  FixedCounts = {1}
  Lifetime = 1
  MaxTime = 0
  MaxLobbies = 1
  MaxMemberships = 4
  MaxEntries = 4
  MaxRevision = 9
SYMMETRY Symmetry
PROPERTIES
  ImplementsSharedQueue
  ConsumedNeverReturns
CHECK_DEADLOCK FALSE
