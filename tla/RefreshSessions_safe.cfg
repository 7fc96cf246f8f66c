SPECIFICATION Spec
CONSTANTS
  Browsers = {b1}
  Users = {u1, u2}
  Tokens = {t1, t2, t3}
  Requests = {q1, q2, q3, q4}
  SessionIds = {1, 2}
  NoUser = NoUser
  NoToken = NoToken
  Lifetime = 2
  MaxTime = 2
SYMMETRY Symmetry
INVARIANTS
  TypeOK
  OneCurrentToken
  CredentialSpentOnce
  RefusedMeansOver
  CredentialKeepsUser
  RevokedForCause
  DeadlineNeverMoves
PROPERTIES
  EndedLoginGrantsNothing
CHECK_DEADLOCK FALSE
