\* Two corporations, decimals in halves.
SPECIFICATION FairSpec
CONSTANTS
  PREC = 2
  N = 2
  Amounts = {1}
  ShareValues = {2}
  YieldRates = {0, 3}
  BlocksPerYear = 1
  InitialBalance = 1
  InitialPool = 3
  MaxDeposit = 2
  MaxReclaimed = 1
  MaxForgotten = 1
  MaxAccrued = 3
INVARIANTS
  TypeOK
  LedgerEquation
  YieldWithinRate
PROPERTIES
  UnrepaidSlashFreezes
  YieldPoolDrains
CHECK_DEADLOCK FALSE
