\* Two corporations that want the same two accounts, for two participants; limits that
\* take two messages to spend and come back with every block time.
SPECIFICATION Spec
CONSTANTS
  Corporations = {c1, c2}
  Operators = {a, b}
  NoOperator = none
  Participants = {p1, p2}
  MsgTypeSets = {{"MsgGrantOperatorAuthorization", "MsgRevokeOperatorAuthorization"}}
  RecordMsgTypes = {{"MsgCreateOrUpdateParticipantSession"}}
  Limits = {2}
  Periods = {1}
  Spends = {1, 2}
  Expirations = {3}
  RecordExpirations = {0, 3}
  MaxTime = 3
  MaxId = 2
SYMMETRY Symmetry
INVARIANTS
  TypeOK
  StoresAgree
  OneKindOfAuthorization
  FeeGrantsBacked
PROPERTIES
  SpendRoomReturnsWithThePeriod
  StoresAreMandates
CHECK_DEADLOCK FALSE
