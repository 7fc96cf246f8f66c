SPECIFICATION Spec
CONSTANTS
  Users = {u1, u2, u3, u4}
  NoUser = NoUser
  Requests = {r1}
  FixedCounts = {2}
  Lifetime = 1
  MaxTime = 1
  MaxLobbies = 2
  MaxMemberships = 6
  MaxEntries = 1
  MaxRevision = 7
SYMMETRY Symmetry
INVARIANTS
  TypeOK
  OneMembershipPerUser
  NoOrphanRows
  HostIsPresent
  NoQualifyingEntry
PROPERTIES
  RevisionCountsChanges
  ImplementsLobbyLife
CHECK_DEADLOCK FALSE
