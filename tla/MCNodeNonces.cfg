SPECIFICATION Spec
CONSTANTS
  A = A
  B = B
  AllChains = {A, B, C}
  Chains = {A, B}
  Legacy = {}
  Me = 1
  Validators = {1}
  is_leader = TRUE
  MaxAttempts = 5
  exceptions <- NoExceptions
  Histories = {{A, B}}
  RpcFails = FALSE
  MaxAgain = 1
  MaxLost = 0
  MaxNonce = 1
  MaxRestarts = 1
CHECK_DEADLOCK FALSE
INVARIANTS
  NoRelayLost
