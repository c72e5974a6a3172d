CONSTANTS
  Data <- MCData
  Number <- MCNumber
  Payloads <- MCPayloads
  ReqFramings <- MCReqFramings
  ResFramings <- MCResFramings
  ChunkSize = 2
  MaxExchanges = 2
  FollowMisread = FALSE
SPECIFICATION Spec
INVARIANTS
  BodyExact AlwaysParsed
CHECK_DEADLOCK FALSE
