\* A root with issuers who pay, or with grantors and their issuers; verifiers
\* beside them.
SPECIFICATION ParticipantSpec
CONSTANTS
  Corporations = {c1, c2}
  Controller = c1
  Operator = a
  Operators = {a}
  NoOperator = none
  Participants = {1, 2, 3}
  MsgTypeSets = {}
  RecordMsgTypes = {{"MsgCreateOrUpdateParticipantSession"}}
  Limits = {}
  Periods = {0}
  Spends = {}
  Expirations = {}
  RecordExpirations = {}
  MaxTime = 2
  MaxId = 2
  PREC = 1
  ControllerOf <- OneController
  SchemaForms = {}
  PeriodChoices <- PeriodsOfOne
  MaximaChoices = {}
  ArchiveChoices = {}
  DefaultMaxDays = 1
  MaxSchemas = 1
  Geneses <- FeesAndChains
  Terms <- Free
  DiscountScale = 1
  Prices = {1}
  TrustDepositRate = 1
  Dids = {c1, c2}
  DidsOf <- OwnDids
  Amounts = {1}
  Froms = {0, 2}
  Untils = {0, 3}
  Requests <- NoneOrSession
  GenesisBalance <- OthersPay
  MaxParticipants = 3
  MaxDeposit = 2
  MaxSlashed = 1
  MaxCancelled = 2
  GovernanceSlashes = {1}
  MaxGovernanceSlashed = 1
  MaxReclaimed = 1
  MaxWithTdMessages = 2
  MaxExpiration = 3
INVARIANTS
  ParticipantTypeOK
  EscrowBalanced
  DepositsAccounted
  RecordsFollowParticipants
  FeeGrantsServeParticipants
  OneParticipantAtATime
  WindowWithinValidation
PROPERTIES
  UnrepaidParticipantFrozen
  FeesAreContracts
CHECK_DEADLOCK FALSE
