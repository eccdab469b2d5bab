SPECIFICATION SummarySpec
CONSTANTS
  s1 = s1
  s2 = s2
  NFiles = 2
  Surls <- MCOneSurl
  AskedLists <- MCNone
  MaxRequests = 2
INVARIANTS SummaryTypeOK SummaryOfOneMoment StoredIsFound
