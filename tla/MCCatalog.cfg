SPECIFICATION Spec
CONSTANTS
  w1 = w1
  w2 = w2
  a = a
  b = b
  Worker <- MCWorker
  Table <- MCTable
  Name <- MCName
  Capacity <- MCCapacity
  Rooms <- MCRooms
  Movies <- MCMovies
  MaxRows = 4
  MaxPages = 12
INVARIANTS
  TypeOK
  ScreeningsAreWhole
  DuplicatesHaveRaced
SYMMETRY MCSymmetry
