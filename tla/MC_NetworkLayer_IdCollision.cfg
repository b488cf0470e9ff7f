\* A TU that sends the same INVITE again after Send failed on a connected
\* channel: the request keeps the Via the layer stamped on the first Send.
CONSTANTS
  d1 = d1
  d2 = d2
  r1 = r1
  r2 = r2
  r3 = r3
  p1 = p1
  s1 = s1
  None = None
  Dests = {d1, d2}
  TlsDests = {d2}
  Requests = {r1}
  ReqDest <- MCReqDest
  DestEndPoint <- MCDestEndPoint
  ReqMethod <- MCReqMethod
  Responses = {p1}
  RespServerId <- MCRespServerId
  RespDest <- MCRespDest
  ServerIds = {s1}
  SslHandlerConfigs = {TRUE}
  MaxHolds = 0
  MaxCertErrors = 0
  HandlerErrors = FALSE
  MayShutdown = FALSE
  MaxResends = 1
  DelegateReenters = FALSE

SPECIFICATION Spec

INVARIANT
  RefsCountUsers
