SPECIFICATION RouterSpec
CONSTANTS
  Letter <- MCLetter
  JsonKeys <- MCJsonKeys
  Number = {"7"}
  Odd = {"a b"}
  Requests <- MCRequests
INVARIANTS
  RouterTypeOK
  ParamsAsDeclared
  OneRouteMatches
  UrlParamsExist
  SessionBeforeBody
  LinksLandButDeadOnes
  QueryIsMeant
CHECK_DEADLOCK FALSE
