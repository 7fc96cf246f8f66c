SPECIFICATION FairEventsSpec
CONSTANTS
  Users = {u1, u2}
  NoUser = NoUser
  Lifetime = 2
  MaxTime = 2
  MaxLobbies = 1
  MaxMemberships = 2
  MaxRevision = 4
  Conns = {c1}
  Capacity = 1
  MaxPending = 1
  MaxLost = 1
INVARIANTS
  ReasonsAreTrue
PROPERTIES
  ChangesAreReported
  AccessEnds
CHECK_DEADLOCK FALSE
