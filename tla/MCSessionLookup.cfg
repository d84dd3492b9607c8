SPECIFICATION LookupSpec
CONSTANTS
  b1 = b1
  b2 = b2
  r1 = r1
  r2 = r2
  r3 = r3
  k1 = k1
  k2 = k2
  k3 = k3
  foreign = foreign
  Browser <- MCBrowser
  Request <- MCRequest
  Key <- MCKey
  IntKey = {i1, i2, i3}
  Foreign = foreign
  NoKey = NoKey
  NoBrowser = NoBrowser
  Ttl = 1
  MaxTime = 2
  MaxMade = 3
INVARIANTS
  TypeOK
  IndexesAgree
  LookupTypeOK
  NoSessionIsShared
  LoginSticks
PROPERTIES
  ImplementsStore
  SessionsAreFound
SYMMETRY MCSymmetry
CHECK_DEADLOCK FALSE
