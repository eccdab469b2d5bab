SPECIFICATION StatusSpec
CONSTANTS
  s1 = s1
  s2 = s2
  NFiles = 1
  Surls <- MCSurls
  AskedLists <- MCAtMostTwo
  MaxRequests = 1
INVARIANT StatusForEachSurl
