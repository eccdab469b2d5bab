SPECIFICATION StatusSpec
CONSTANTS
  s1 = s1
  s2 = s2
  NFiles = 2
  Surls <- MCSurls
  AskedLists <- MCAtMostTwo
  MaxRequests = 2
INVARIANTS StatusTypeOK AnswersAreCurrent SuccessMeansDone
