SPECIFICATION ToastSpec
CONSTANTS
  Home = "home"
  Remotes = {"r1", "r2"}
  Decimals <- MCDecimals
  Base = 2
  MaxUint = 3
  Supply = 2
  Deployments = {{}, {"r1"}}
  Manager = Manager
  Other = Other
  ForeignAmounts = {1}
  NoRoute = NoRoute
  NoToast = NoToast
  NoNonce = NoNonce
  MaxMessages = 3
  MaxUnpayable = 1
  MaxForeign = 1
  MaxOwner = 2
INVARIANTS
  ToastTypeOK
  SupplyIsBacked
  NoTransferLost
  NoDispatchMissed
PROPERTY KeepsLedger
CHECK_DEADLOCK FALSE
