SPECIFICATION Spec
CONSTANTS
  w1 = w1
  w2 = w2
  Worker <- MCWorker
  u1 = u1
  u2 = u2
  User <- MCUser
  Founder <- MCFounder
  s1 = s1
  s2 = s2
  Session <- MCSession
  Roal <- MCRoal
  Nobody = Nobody
INVARIANTS
  TypeOK
  LastAnswerStands
PROPERTIES
  RoalsAreGiven
SYMMETRY MCSymmetry
