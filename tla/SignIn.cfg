SPECIFICATION Spec
CONSTANTS
  Browsers = {b1, b2}
  Slots = {s1, s2}
  Keys = {k1, k2}
  MaxAttempts = 3
  Capacity = 1
  LoginSeconds = 1
  TokenSeconds = 1
  MaxTtl = 2
  Gap = 1
  MaxTime = 2
SYMMETRY Symmetry
PROPERTIES
  AttemptsServeTheirBrowser
  NeverLockedOut
  VerdictsAreTrue
CHECK_DEADLOCK FALSE
