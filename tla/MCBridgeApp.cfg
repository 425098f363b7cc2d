SPECIFICATION Spec
CONSTANTS
  Networks = {"zq", "ethereum", "bsc"}
  Names = {"ZIL", "USDT"}
  homeNetwork = "zq"
  firstNetwork = "ethereum"
  defaultNetworks <- MCDefaults
  tokens <- MCTokens
  firstToken <- MCFirstToken
  nameRank <- MCRank
  Elsewhere = "elsewhere"
  NoWallet = "none"
  NoTxn = NoTxn
INVARIANTS
  TypeOK
  HomeOnOneSide
  PageFollowsWallet
  TokenFitsRoute
  ChosenRouteIsShown
  ThereIsAWayBack
  OncePerEntry
  SentOnARealRoute
PROPERTIES
  ReceiptIsNoticed
