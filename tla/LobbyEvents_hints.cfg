SPECIFICATION EventsSpec
CONSTANTS
  Users = {u1, u2, u3}
  NoUser = NoUser
  Lifetime = 1
  MaxTime = 0
  MaxLobbies = 2
  MaxMemberships = 4
  MaxRevision = 3
  Conns = {c1}
  Capacity = 1
  MaxPending = 2
  MaxLost = 1
SYMMETRY Symmetry
INVARIANTS
  HintsWakeReaders
  NothingSeenAfterLeaving
CHECK_DEADLOCK FALSE
