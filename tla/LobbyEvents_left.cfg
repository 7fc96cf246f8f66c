SPECIFICATION EventsSpec
CONSTANTS
  Users = {u1, u2}
  NoUser = NoUser
  Lifetime = 1
  MaxTime = 0
  MaxLobbies = 1
  MaxMemberships = 3
  MaxRevision = 4
  Conns = {c1}
  Capacity = 2
  MaxPending = 2
  MaxLost = 1
SYMMETRY Symmetry
INVARIANT DepartedHearLeft
CHECK_DEADLOCK FALSE
