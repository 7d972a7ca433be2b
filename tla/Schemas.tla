------------------------------ MODULE Schemas ------------------------------
(***************************************************************************)
(* The credential schemas of x/cs.  A schema belongs to an ecosystem, says *)
(* how issuers and verifiers are onboarded and for how many days each role *)
(* is validated, and is changed by the corporation that controls the       *)
(* ecosystem.  x/pp reads the schema of a participant in every message.    *)
(*                                                                         *)
(* Ecosystems are there from the start: Registry creates them, and none of *)
(* them ever changes its corporation.  The mode of holders, the JSON       *)
(* document, the pricing asset and the digest algorithm are left out: no   *)
(* handler reads them.                                                     *)
(***************************************************************************)
EXTENDS Stores

CONSTANTS
  ControllerOf,    \* the corporation that controls each ecosystem
  SchemaForms,     \* modes and periods a message may create a schema with
  PeriodChoices,   \* by ecosystem, periods a message may change its schemas to
  MaximaChoices,   \* maxima of the periods that governance may set
  ArchiveChoices,  \* what an archive message may ask for
  DefaultMaxDays,  \* the maximum of every period at genesis
  MaxSchemas       \* bound on the schemas

Modes == {"OPEN", "ECOSYSTEM", "GRANTOR"}

ValidatedRoles == {"ISSUER", "VERIFIER", "ISSUER_GRANTOR", "VERIFIER_GRANTOR", "HOLDER"}

\* Days a validation lasts in each role, 0 for ever.
ValidityPeriods == [ValidatedRoles -> Nat]

Ecosystems == DOMAIN ControllerOf

CredentialSchemas ==
  [ecosystem : Ecosystems, issuerMode : Modes, verifierMode : Modes,
   period : ValidityPeriods, archived : BOOLEAN]

ASSUME SchemaAssumption ==
  /\ SchemaForms \subseteq
       [issuerMode : Modes, verifierMode : Modes, period : ValidityPeriods]
  /\ PeriodChoices \in [Ecosystems -> SUBSET ValidityPeriods]
  /\ MaximaChoices \subseteq [ValidatedRoles -> Nat \ {0}]
  /\ ArchiveChoices \subseteq BOOLEAN
  /\ DefaultMaxDays \in Nat \ {0}
  /\ MaxSchemas \in Nat

VARIABLES
  schemas,         \* CredentialSchema, by id
  schemaCounter,   \* Counter "cs", the last id
  maxPeriod        \* the parameters: the longest period of each role

schemaVars == <<schemas, schemaCounter, maxPeriod>>

SchemaInit(atGenesis) ==
  /\ schemas = atGenesis
  /\ schemaCounter = LastId(schemas)
  /\ maxPeriod = [role \in ValidatedRoles |-> DefaultMaxDays]

-----------------------------------------------------------------------------
\* checkSchemaOwnership.
Controls(corp, s) == Has(schemas, s) /\ ControllerOf[schemas[s].ecosystem] = corp

WithinMaximaOfAgents(period) ==     \* mutant: the periods of grantors are not looked at
  \A role \in {"ISSUER", "VERIFIER", "HOLDER"} : period[role] <= maxPeriod[role]

WithinMaxima(period) == \A role \in ValidatedRoles : period[role] <= maxPeriod[role]

NewSchema(ecosystem, form) ==
  [ecosystem |-> ecosystem, issuerMode |-> form.issuerMode,
   verifierMode |-> form.verifierMode, period |-> form.period, archived |-> FALSE]

\* The ecosystem may be archived.
CreateCredentialSchema(corp, ecosystem, form) ==
  LET id == schemaCounter + 1
  IN  /\ ControllerOf[ecosystem] = corp
      /\ WithinMaxima(form.period)
      /\ id <= MaxSchemas
      /\ schemas' = Put(schemas, id, NewSchema(ecosystem, form))
      /\ schemaCounter' = id
      /\ UNCHANGED maxPeriod

UpdateCredentialSchema(corp, s, period) ==
  /\ Controls(corp, s)
  /\ ~schemas[s].archived
  /\ WithinMaxima(period)
  /\ schemas' = [schemas EXCEPT ![s].period = period]
  /\ UNCHANGED <<schemaCounter, maxPeriod>>

\* Archived or back.
ArchiveCredentialSchema(corp, s, archive) ==
  /\ Controls(corp, s)
  /\ schemas[s].archived # archive
  /\ schemas' = [schemas EXCEPT ![s].archived = archive]
  /\ UNCHANGED <<schemaCounter, maxPeriod>>

\* By governance; the schemas that are there keep their periods.
UpdateSchemaParams(maxima) ==
  /\ maxPeriod' = maxima
  /\ UNCHANGED <<schemas, schemaCounter>>

\* Genesis has the parameters and the schemas, and counts them again.
SchemasFromGenesis ==
  /\ schemaCounter' = LastId(schemas)
  /\ UNCHANGED <<schemas, maxPeriod>>

SchemaMessages ==
  \/ \E e \in Ecosystems :
       LET corp == ControllerOf[e]
       IN  \/ \E form \in SchemaForms : CreateCredentialSchema(corp, e, form)
           \/ \E s \in DOMAIN schemas :
                \/ \E period \in PeriodChoices[e] : UpdateCredentialSchema(corp, s, period)
                \/ \E archive \in ArchiveChoices : ArchiveCredentialSchema(corp, s, archive)
  \/ \E maxima \in MaximaChoices : UpdateSchemaParams(maxima)

-----------------------------------------------------------------------------
(* Properties.                                                             *)

\* Every store has its type, and the ids are those the counter gave.
SchemaTypeOK ==
  /\ schemaCounter \in Nat
  /\ schemas \in [1 .. schemaCounter -> CredentialSchemas]
  /\ maxPeriod \in [ValidatedRoles -> Nat \ {0}]

(***************************************************************************)
(* What participants were onboarded under holds: a schema never changes    *)
(* its ecosystem or its modes; its periods change only while it is not     *)
(* archived, and then all of them come within the maxima of that moment,   *)
(* also those that were longer since before governance lowered a maximum.  *)
(***************************************************************************)
SchemaTermsKept ==
  [][\A s \in DOMAIN schemas :
       LET old == schemas[s]
           new == schemas'[s]
           changes == \E role \in ValidatedRoles : new.period[role] # old.period[role]
       IN  /\ <<new.ecosystem, new.issuerMode, new.verifierMode>>
                = <<old.ecosystem, old.issuerMode, old.verifierMode>>
           /\ changes => /\ ~old.archived
                         /\ \A role \in ValidatedRoles :
                              new.period[role] <= maxPeriod'[role]]_schemaVars
=============================================================================
