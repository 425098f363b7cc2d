SPECIFICATION FairSpec
CONSTANTS
  A = A
  B = B
  AllChains = {A, B}
  Chains = {A, B}
  Legacy = {}
  Me = 1
  Validators = {1, 2}
  is_leader = TRUE
  MaxAttempts = 5
  exceptions <- NoExceptions
  Histories = {{A, B}}
  RpcFails = FALSE
  MaxAgain = 0
  MaxLost = 0
  MaxNonce = 1
  MaxRestarts = 0
CHECK_DEADLOCK FALSE
PROPERTIES
  RelayedIsDispatched
