SPECIFICATION Spec
CONSTANTS
  Deployed = 1
  Histories = {TRUE}
  ToBlock = 0
  Behinds = {0}
  GetTransactions = FALSE
  RpcFails = FALSE
  MaxLag = 0
  FirstHead = 3
  LastHead = 7
CHECK_DEADLOCK FALSE
INVARIANTS
  NoGapAfterHistory
