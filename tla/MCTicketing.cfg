SPECIFICATION FairSpec
CONSTANTS
  w1 = w1
  w2 = w2
  Worker <- MCWorker
  u1 = u1
  u2 = u2
  s1 = s1
  scr = scr
  mov = mov
  NoUser = NoUser
  User <- MCUser
  Seat <- MCSeat
  Screening <- MCScreening
  Movie <- MCMovie
  ScreeningOf <- MCScreeningOf
  MovieOf <- MCMovieOf
  Table <- MCTable
  Price = {1, 2}
  Fund = {2}
  MaxTickets = 2
  MaxFunds = 2
INVARIANTS
  TypeOK
  SeatBackedByTicket
  UserLedger
  MovieLedger
PROPERTIES
  ImplementsLedger
  RequestsFinish
