SPECIFICATION Spec
CONSTANTS
  w1 = w1
  w2 = w2
  Worker <- MCWorker
  u1 = u1
  u2 = u2
  User <- MCUser
  Manager <- MCManager
  m1 = m1
  m2 = m2
  Movie <- MCMovie
  NoMovie = NoMovie
  Table <- MCTable
  Rating = {0, 3, 7}
  MaxComments = 2
PROPERTIES
  IndexInRange
SYMMETRY MCSymmetry
