---------------------------- MODULE SchemaLemmas ----------------------------
(***************************************************************************)
(* What the messages of x/cs and a restart do to the schemas, whatever     *)
(* else is in the state: for the proofs about the modules that extend      *)
(* Schemas.                                                                *)
(***************************************************************************)
EXTENDS Schemas, LedgerLemmas

\* A new schema comes under the next id.
LEMMA CreateSchemaTyped ==
  ASSUME SchemaTypeOK, NEW corp, NEW ecosystem \in Ecosystems, NEW form \in SchemaForms,
         CreateCredentialSchema(corp, ecosystem, form)
  PROVE  /\ SchemaTypeOK'
         /\ DOMAIN schemas \subseteq DOMAIN schemas'
         /\ \A s \in DOMAIN schemas : schemas'[s] = schemas[s]
<1> DEFINE id == schemaCounter + 1
           x == NewSchema(ecosystem, form)
<1>1. /\ schemas' = Put(schemas, id, x)
      /\ schemaCounter' = id
      /\ UNCHANGED maxPeriod
  BY DEF CreateCredentialSchema
<1>2. x \in CredentialSchemas
  BY SchemaAssumption DEF NewSchema, CredentialSchemas
<1> HIDE DEF x
<1>3. /\ schemaCounter \in Nat
      /\ schemas \in [1 .. schemaCounter -> CredentialSchemas]
      /\ maxPeriod \in [ValidatedRoles -> Nat \ {0}]
  BY DEF SchemaTypeOK
<1>4. 1 .. id = (1 .. schemaCounter) \cup {id} /\ id \notin 1 .. schemaCounter
  BY <1>3
<1>5. schemas' \in [1 .. id -> CredentialSchemas]
  BY <1>1, <1>2, <1>3, <1>4 DEF Put
<1>6. id \in Nat
  BY <1>3
<1>7. SchemaTypeOK'
  BY <1>1, <1>3, <1>5, <1>6 DEF SchemaTypeOK
<1>8. /\ DOMAIN schemas \subseteq DOMAIN schemas'
      /\ \A s \in DOMAIN schemas : schemas'[s] = schemas[s]
  BY <1>1, <1>3, <1>4 DEF Put
<1> QED BY <1>7, <1>8

\* A message that changes one field of one schema.
LEMMA ChangeSchemaTyped ==
  ASSUME SchemaTypeOK, NEW s \in DOMAIN schemas, NEW x \in CredentialSchemas,
         schemas' = [schemas EXCEPT ![s] = x],
         UNCHANGED <<schemaCounter, maxPeriod>>
  PROVE  SchemaTypeOK' /\ DOMAIN schemas' = DOMAIN schemas
BY DEF SchemaTypeOK, CredentialSchemas

\* What a step does to schemas that are there.
TermsKept ==
  \A s \in DOMAIN schemas :
    LET old == schemas[s]
        new == schemas'[s]
        changes == \E role \in ValidatedRoles : new.period[role] # old.period[role]
    IN  /\ <<new.ecosystem, new.issuerMode, new.verifierMode>>
             = <<old.ecosystem, old.issuerMode, old.verifierMode>>
        /\ changes => /\ ~old.archived
                      /\ \A role \in ValidatedRoles :
                           new.period[role] <= maxPeriod'[role]

\* Each message of x/cs about schemas keeps their types, their ids and their terms.
LEMMA SchemaStep ==
  ASSUME SchemaTypeOK, SchemaMessages
  PROVE  SchemaTypeOK' /\ DOMAIN schemas \subseteq DOMAIN schemas' /\ TermsKept
<1>1. CASE \E e \in Ecosystems, form \in SchemaForms :
             CreateCredentialSchema(ControllerOf[e], e, form)
  BY <1>1, CreateSchemaTyped DEF TermsKept
<1>2. ASSUME NEW e \in Ecosystems, NEW s \in DOMAIN schemas,
             NEW period \in PeriodChoices[e],
             UpdateCredentialSchema(ControllerOf[e], s, period)
      PROVE  SchemaTypeOK' /\ DOMAIN schemas \subseteq DOMAIN schemas' /\ TermsKept
  <2>1. period \in ValidityPeriods
    BY <1>2, SchemaAssumption
  <2>2. schemas[s] \in CredentialSchemas
    BY DEF SchemaTypeOK
  <2> DEFINE x == [schemas[s] EXCEPT !.period = period]
  <2>3. x \in CredentialSchemas
    BY <2>1, <2>2 DEF CredentialSchemas
  <2>4. /\ schemas' = [schemas EXCEPT ![s] = x]
        /\ UNCHANGED <<schemaCounter, maxPeriod>>
        /\ ~schemas[s].archived /\ WithinMaxima(period)
    BY <1>2 DEF UpdateCredentialSchema
  <2>5. /\ x.ecosystem = schemas[s].ecosystem
        /\ x.issuerMode = schemas[s].issuerMode
        /\ x.verifierMode = schemas[s].verifierMode
        /\ x.period = period
    BY <2>2 DEF CredentialSchemas
  <2> HIDE DEF x
  <2>6. SchemaTypeOK' /\ DOMAIN schemas' = DOMAIN schemas
    BY <2>3, <2>4, ChangeSchemaTyped
  <2>7. schemas'[s] = x /\ \A t \in DOMAIN schemas \ {s} : schemas'[t] = schemas[t]
    BY <2>4
  <2>8. TermsKept
    BY <2>4, <2>5, <2>7 DEF TermsKept, WithinMaxima
  <2> QED BY <2>6, <2>8
<1>3. ASSUME NEW e \in Ecosystems, NEW s \in DOMAIN schemas,
             NEW archive \in ArchiveChoices,
             ArchiveCredentialSchema(ControllerOf[e], s, archive)
      PROVE  SchemaTypeOK' /\ DOMAIN schemas \subseteq DOMAIN schemas' /\ TermsKept
  <2>1. archive \in BOOLEAN
    BY <1>3, SchemaAssumption
  <2>2. schemas[s] \in CredentialSchemas
    BY DEF SchemaTypeOK
  <2> DEFINE x == [schemas[s] EXCEPT !.archived = archive]
  <2>3. x \in CredentialSchemas
    BY <2>1, <2>2 DEF CredentialSchemas
  <2>4. /\ schemas' = [schemas EXCEPT ![s] = x]
        /\ UNCHANGED <<schemaCounter, maxPeriod>>
    BY <1>3 DEF ArchiveCredentialSchema
  <2>5. /\ x.ecosystem = schemas[s].ecosystem
        /\ x.issuerMode = schemas[s].issuerMode
        /\ x.verifierMode = schemas[s].verifierMode
        /\ x.period = schemas[s].period
    BY <2>2 DEF CredentialSchemas
  <2> HIDE DEF x
  <2>6. SchemaTypeOK' /\ DOMAIN schemas' = DOMAIN schemas
    BY <2>3, <2>4, ChangeSchemaTyped
  <2>7. schemas'[s] = x /\ \A t \in DOMAIN schemas \ {s} : schemas'[t] = schemas[t]
    BY <2>4
  <2>8. TermsKept
    BY <2>5, <2>7 DEF TermsKept
  <2> QED BY <2>6, <2>8
<1>4. CASE \E maxima \in MaximaChoices : UpdateSchemaParams(maxima)
  BY <1>4, SchemaAssumption DEF UpdateSchemaParams, SchemaTypeOK, TermsKept, CredentialSchemas
<1> QED BY <1>1, <1>2, <1>3, <1>4 DEF SchemaMessages

\* A restart changes nothing: the counter is the last id again.
LEMMA SchemaRestart ==
  ASSUME SchemaTypeOK, SchemasFromGenesis
  PROVE  UNCHANGED schemaVars
<1>1. LastId(schemas) = schemaCounter
  BY LastIdOfInterval DEF SchemaTypeOK
<1> QED BY <1>1 DEF SchemasFromGenesis, schemaVars
=============================================================================
