CONSTANTS
  MaxRequests = 2
  NSurls = 2
  Protocols = {1, 2}
  Supported = {1}
  MaxCrashes = 1
  MaxDrops = 2
SPECIFICATION Spec
INVARIANTS
  AsyncTypeOK
  AtomicVisibility
  RepliesMatchStore
  NoTokenNoFiles
  TransactionsClosed
PROPERTY
  StoreSafety
