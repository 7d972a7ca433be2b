\* A renewal that is cancelled.
SPECIFICATION ParticipantSpec
CONSTANTS
  Corporations = {c1, c2}
  Controller = c1
  Operator = a
  Operators = {a}
  NoOperator = none
  Participants = {1, 2, 3}
  MsgTypeSets = {}
  RecordMsgTypes = {{"MsgCreateOrUpdateParticipantSession"}, {"MsgSetParticipantOPToValidated"}}
  Limits = {}
  Periods = {0}
  Spends = {}
  Expirations = {}
  RecordExpirations = {}
  MaxTime = 2
  MaxId = 2
  PREC = 1
  ControllerOf <- OneController
  SchemaForms = {}
  PeriodChoices <- PeriodsOfOne
  MaximaChoices = {}
  ArchiveChoices = {}
  DefaultMaxDays = 1
  MaxSchemas = 1
  Geneses <- OnlyFees
  Terms <- Free
  DiscountScale = 1
  Prices = {1}
  TrustDepositRate = 1
  Dids = {c1, c2}
  DidsOf <- OwnDids
  Amounts = {}
  Froms = {}
  Untils = {0}
  Requests <- Both
  GenesisBalance <- OthersPay
  MaxParticipants = 3
  MaxDeposit = 2
  MaxSlashed = 1
  MaxCancelled = 1
  GovernanceSlashes = {}
  MaxGovernanceSlashed = 0
  MaxReclaimed = 0
  MaxWithTdMessages = 0
  MaxExpiration = 4
INVARIANT DepositsBacked
CHECK_DEADLOCK FALSE
