SPECIFICATION FairSpec
CONSTANTS
  p1 = p1
  p2 = p2
  Peer <- MCPeer
  NumThreads = 2
  db1 = db1
  DbConnection <- MCDbConnection
  NoConnection = NoConnection
  MaxRequests <- MCMaxRequests
INVARIANTS
  TypeOK
  OneThingAtATime
  LostAnswersAreExplained
  ThreadsWaitInTurn
PROPERTIES
  ImplementsDialogue
  SessionsEnd
CHECK_DEADLOCK FALSE
