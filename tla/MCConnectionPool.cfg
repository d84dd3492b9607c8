SPECIFICATION FairSpec
CONSTANTS
  r1 = r1
  r2 = r2
  r3 = r3
  r4 = r4
  Request <- MCRequest
  NumConn = 2
  Nobody = Nobody
INVARIANTS
  TypeOK
  ConnectionsPartitioned
  NeverPopsEmpty
  CounterMatchesQueue
PROPERTY
  ImplementsPool
