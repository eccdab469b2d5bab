SPECIFICATION SynchSpec
CONSTANTS
  CheckAscii = TRUE
  Ops <- AllOps
  BackendCodes <- SomeCodes
  MaxRequests = 2
INVARIANTS
  SynchTypeOK
  BackendCallAuthorized
  CallCarriesTheRequest
  SuccessFromBackend
  ReplyComplete
  StructsReleased
  ToldAndCounted
  DiesOnly
CHECK_DEADLOCK FALSE
