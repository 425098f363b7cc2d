SPECIFICATION Spec
CONSTANTS
  Deployed = 1
  Histories = {FALSE}
  ToBlock = 0
  Behinds = {1}
  GetTransactions = FALSE
  RpcFails = FALSE
  MaxLag = 0
  FirstHead = 3
  LastHead = 7
CHECK_DEADLOCK FALSE
INVARIANTS
  NoBlockSkipped
