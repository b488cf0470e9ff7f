CONSTANTS
  d1 = d1
  d2 = d2
  r1 = r1
  r2 = r2
  r3 = r3
  p1 = p1
  s1 = s1
  None = None
  Dests = {d1, d2}
  TlsDests = {d2}
  Requests = {r1, r2, r3}
  ReqDest <- MCReqDest
  DestEndPoint <- MCDestEndPoint
  ReqMethod <- MCReqMethod
  Responses = {p1}
  RespServerId <- MCRespServerId
  RespDest <- MCRespDest
  ServerIds = {s1}
  SslHandlerConfigs = {TRUE}
  MaxHolds = 1
  MaxCertErrors = 1
  HandlerErrors = FALSE
  MayShutdown = TRUE
  MaxResends = 0
  DelegateReenters = TRUE

SPECIFICATION Spec

VIEW StateWithoutHistory

\* The owner may destroy the layer, after which nothing runs on it.
CHECK_DEADLOCK FALSE

INVARIANTS
  TypeOK
  TransactionsBoundToChannels
  RefsCountUsers
  IdleTimerOnlyWhenUnused
  InitialOnlyBeforeConnected
  ResponseReturnsToSource
  ShutdownReleasesAll
