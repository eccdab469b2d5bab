SPECIFICATION SummarySpec
CONSTANTS
  s1 = s1
  s2 = s2
  NFiles = 1
  Surls <- MCOneSurl
  AskedLists <- MCNone
  MaxRequests = 3
PROPERTY RecallIsAvailable
