SPECIFICATION Spec
CONSTANTS
  ReserveMin = 2
  ReservePercent = 1
  ServiceFeePercent = 5
  ServiceFeeMax = 4
  IgnoreInternal = FALSE
  FeeWallet = "carol"
  NoWallet = none
  Wallets = {"alice", "bob", "carol"}
  Payers = {p1}
  Checkers = {c1}
  Pagers = {g1}
  DailyLimit = 150
  MaxBalance = 250
  NodeFees = {0, 2}
  MaxCrashes = 1
  Free = free
  Hashes <- MCHashes
  Opening <- MCOpening
  Amount <- MCAmount
  Issuer <- MCIssuer
INVARIANTS
  IInv
  Solvent
PROPERTIES
  FinalIsFinal
