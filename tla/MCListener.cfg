SPECIFICATION FairSpec
CONSTANTS
  Deployed = 1
  Histories = {TRUE, FALSE}
  ToBlock = 3
  Behinds = {0, 2, 5}
  GetTransactions = TRUE
  RpcFails = TRUE
  MaxLag = 1
  FirstHead = 3
  LastHead = 9
CHECK_DEADLOCK FALSE
INVARIANTS
  TypeOK
  NoBlockTwice
  NoBlockUnnoticed
  HistoryIsReplayed
PROPERTIES
  EveryBlockIsPassed
