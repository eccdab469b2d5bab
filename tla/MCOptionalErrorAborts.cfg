SPECIFICATION SynchSpec
CONSTANTS
  CheckAscii = TRUE
  Ops <- LsOnly
  BackendCodes <- SomeCodes
  MaxRequests = 1
INVARIANT OptionalErrorAborts
CHECK_DEADLOCK FALSE
