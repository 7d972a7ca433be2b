\* An account slashed again after a full repay.
SPECIFICATION Spec
CONSTANTS
  PREC = 2
  N = 2
  Amounts = {1, 2}
  ShareValues = {2}
  YieldRates = {1}
  BlocksPerYear = 1
  InitialBalance = 3
  InitialPool = 2
  MaxDeposit = 3
  MaxReclaimed = 2
  MaxForgotten = 1
  MaxAccrued = 2
PROPERTY OutstandingSlashFreezes
CHECK_DEADLOCK FALSE
