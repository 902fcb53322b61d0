SPECIFICATION FairSpec
CONSTANTS
  ReserveMin = 2
  ReservePercent = 1
  ServiceFeePercent = 5
  ServiceFeeMax = 0
  IgnoreInternal = TRUE
  FeeWallet = none
  NoWallet = none
  Wallets = {"alice", "bob"}
  Payers = {p1}
  Checkers = {c1}
  Pagers = {}
  DailyLimit = 0
  MaxBalance = 0
  NodeFees = {0}
  MaxCrashes = 1
  Free = free
  Hashes <- MCHashes
  Opening <- MCOpening
  Amount <- MCAmount
  Issuer <- MCIssuer
PROPERTIES
  CallsEnd
  OutcomeReachesLedger
  ReceiptReachesLedger
