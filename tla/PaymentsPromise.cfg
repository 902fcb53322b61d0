SPECIFICATION Spec
CONSTANTS
  ReserveMin = 2
  ReservePercent = 1
  ServiceFeePercent = 5
  ServiceFeeMax = 4
  IgnoreInternal = FALSE
  FeeWallet = "carol"
  NoWallet = none
  Wallets = {"alice", "bob", "carol"}
  Payers = {p1}
  Checkers = {c1}
  Pagers = {}
  DailyLimit = 0
  MaxBalance = 0
  NodeFees = {0, 2}
  MaxCrashes = 1
  Free = free
  Hashes <- MCHashes
  Opening <- MCOpening
  Amount <- MCAmount
  Issuer <- MCIssuer
INVARIANTS
  LedgerInv
PROPERTIES
  PromiseKept
\* both payments may be over, and nothing left to do
CHECK_DEADLOCK FALSE
