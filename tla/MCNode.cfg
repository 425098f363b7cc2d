SPECIFICATION FairSpec
CONSTANTS
  A = A
  B = B
  AllChains = {A, B}
  Chains = {A, B}
  Legacy = {}
  Me = 1
  Validators = {1}
  is_leader = TRUE
  MaxAttempts = 2
  exceptions <- OneException
  Histories = {{A}}
  RpcFails = TRUE
  MaxAgain = 1
  MaxLost = 1
  MaxNonce = 1
  MaxRestarts = 1
CHECK_DEADLOCK FALSE
INVARIANTS
  TypeOK
  NoRelayLost
  AnsweredOnce
  NothingSentAgain
  SignsOnlyIssued
PROPERTIES
  DeliversAsPromised
  RelayedIsDispatched
