\* Two roots of one controller, whoever joins below them, and their sessions between slashes
\* and revokes.
SPECIFICATION SessionSpec
CONSTANTS
  Corporations = {c1, c2, c3}
  Controller = c1
  Operator = a
  Operators = {a}
  NoOperator = none
  Participants = {1, 2, 3, 4}
  MsgTypeSets = {}
  RecordMsgTypes = {{"MsgCreateOrUpdateParticipantSession"}}
  Limits = {}
  Periods = {0}
  Spends = {}
  Expirations = {}
  RecordExpirations = {}
  MaxTime = 2
  MaxId = 2
  PREC = 2
  ControllerOf <- OneController
  SchemaForms = {}
  PeriodChoices <- NoPeriods
  MaximaChoices = {}
  ArchiveChoices = {}
  DefaultMaxDays = 2
  MaxSchemas = 2
  Geneses <- ClosedAndOpen
  Terms <- PricedTerms
  DiscountScale = 2
  Prices = {}
  TrustDepositRate = 1
  Dids = {c1, c2, c3}
  DidsOf <- OthersDids
  Amounts = {1}
  Froms = {2}
  Untils = {3}
  Requests <- ForSessions
  GenesisBalance <- OthersPay
  MaxParticipants = 4
  MaxDeposit = 3
  MaxSlashed = 1
  MaxCancelled = 1
  GovernanceSlashes = {}
  MaxGovernanceSlashed = 0
  MaxReclaimed = 0
  MaxWithTdMessages = 0
  MaxExpiration = 3
  UserAgentRewardRate = 1
  WalletUserAgentRewardRate = 1
  SessionIds = {s1}
  Digests = {g1, g2}
  NoDigest = nodigest
  Agents = {3}
  WalletAgents = {3, 4}
  MaxRecords = 2
SYMMETRY Symmetry
INVARIANTS
  SessionTypeOK
  CoinsConserved
  DepositsAccounted
  QuoteCoversCharge
  PaysWhomTheQueryFinds
  SessionsOfOneOperator
  RecordsFollowParticipants
  FeeGrantsServeParticipants
PROPERTIES
  OutOfForceEarnNothing
CHECK_DEADLOCK FALSE
