\* Two ecosystems, two schemas and three policies in all.
SPECIFICATION Spec
CONSTANTS
  ControllerOf <- Controllers
  SchemaForms <- Forms
  PeriodChoices <- Periods
  MaximaChoices <- Maxima
  ArchiveChoices = {TRUE, FALSE}
  DefaultMaxDays = 2
  MaxSchemas = 2
  MaxPolicies = 3
INVARIANTS
  TypeOK
  PoliciesInOrder
PROPERTIES
  SchemaTermsKept
CHECK_DEADLOCK FALSE
