---------------------------- MODULE SchemaProofs ----------------------------
(***************************************************************************)
(* Theorems about the schemas of x/cs and their authorization policies,    *)
(* for any ecosystems, forms, periods, maxima and bounds.                  *)
(*                                                                         *)
(* The inductive invariant is the type with the order of the versions: a   *)
(* new version is one more than the number of those there are, which is    *)
(* more than each of them because they are 1..n; and what comes before the *)
(* oldest pending version is active, because only an active one is         *)
(* revoked.                                                                *)
(***************************************************************************)
EXTENDS SchemaPolicies, SchemaLemmas, FiniteSetTheorems

Inv == TypeOK /\ PoliciesInOrder

-----------------------------------------------------------------------------
(* Policies.                                                               *)

\* The policies for a schema and a role are finitely many, so that NextVersion counts.
LEMMA PoliciesFinite ==
  ASSUME TypeOK, NEW s, NEW role
  PROVE  /\ PoliciesFor(s, role) \subseteq 1 .. policyCounter
         /\ IsFiniteSet(PoliciesFor(s, role))
         /\ Cardinality(PoliciesFor(s, role)) \in Nat
<1>1. DOMAIN policies = 1 .. policyCounter /\ policyCounter \in Nat
  BY DEF TypeOK
<1>2. PoliciesFor(s, role) \subseteq 1 .. policyCounter
  BY <1>1 DEF PoliciesFor
<1>3. IsFiniteSet(1 .. policyCounter)
  BY <1>1, FS_Interval
<1>4. IsFiniteSet(PoliciesFor(s, role))
  BY <1>2, <1>3, FS_Subset
<1> QED BY <1>2, <1>4, FS_CardinalityType

\* Policies refer to schemas that are there; more schemas do no harm.
LEMMA PoliciesOfMoreSchemas ==
  ASSUME TypeOK, SchemaTypeOK', DOMAIN schemas \subseteq DOMAIN schemas',
         UNCHANGED policyVars
  PROVE  TypeOK'
<1>1. Policies \subseteq Policies'
  BY DEF Policies
<1> QED BY <1>1 DEF TypeOK, policyVars

\* A schema that was not there has no policies, and its order is trivial.
LEMMA OrderOfMoreSchemas ==
  ASSUME Inv, SchemaTypeOK', DOMAIN schemas \subseteq DOMAIN schemas',
         UNCHANGED policyVars
  PROVE  PoliciesInOrder'
<1> SUFFICES ASSUME NEW s \in DOMAIN schemas', NEW role \in PolicyRoles
             PROVE  VersionsInOrder(s, role)'
  BY DEF PoliciesInOrder
<1>1. policies' = policies
  BY DEF policyVars
<1>2. CASE s \in DOMAIN schemas
  BY <1>1, <1>2 DEF Inv, PoliciesInOrder, VersionsInOrder, PoliciesFor
<1>3. CASE s \notin DOMAIN schemas
  <2>1. PoliciesFor(s, role)' = {}
    BY <1>1, <1>3 DEF Inv, TypeOK, Policies, PoliciesFor
  <2>2. 1 .. Cardinality(PoliciesFor(s, role)') = {}
    BY <2>1, FS_EmptySet
  <2> QED BY <2>1, <2>2 DEF VersionsInOrder
<1> QED BY <1>2, <1>3

\* A new policy has the largest id and the largest version for its schema and role.
LEMMA CreateKeepsInv ==
  ASSUME Inv, NEW corp, NEW s \in DOMAIN schemas, NEW role \in PolicyRoles,
         CreateSchemaAuthorizationPolicy(corp, s, role)
  PROVE  Inv'
<1> DEFINE id == policyCounter + 1
           n == Cardinality(PoliciesFor(s, role))
           x == [schema |-> s, role |-> role, version |-> n + 1,
                 active |-> FALSE, revoked |-> FALSE]
<1>1. /\ policies' = Put(policies, id, x)
      /\ policyCounter' = id
      /\ UNCHANGED schemaVars
  BY DEF CreateSchemaAuthorizationPolicy, NextVersion
<1>2. /\ policyCounter \in Nat
      /\ policies \in [1 .. policyCounter -> Policies]
      /\ SchemaTypeOK
  BY DEF Inv, TypeOK
<1>3. /\ PoliciesFor(s, role) \subseteq 1 .. policyCounter
      /\ IsFiniteSet(PoliciesFor(s, role))
      /\ n \in Nat
  BY PoliciesFinite DEF Inv
<1> HIDE DEF n
<1>4. x \in Policies
  BY <1>3 DEF Policies
<1>5. /\ x.schema = s /\ x.role = role /\ x.version = n + 1
      /\ ~x.active /\ ~x.revoked
  OBVIOUS
<1> HIDE DEF x
<1>6. 1 .. id = (1 .. policyCounter) \cup {id} /\ id \notin 1 .. policyCounter
  BY <1>2
<1>7. /\ DOMAIN policies' = DOMAIN policies \cup {id}
      /\ id \notin DOMAIN policies
      /\ policies'[id] = x
      /\ \A p \in DOMAIN policies : policies'[p] = policies[p]
  BY <1>1, <1>2, <1>6 DEF Put
<1>8. TypeOK'
  <2>1. policies' \in [1 .. id -> Policies]
    BY <1>1, <1>2, <1>4, <1>6 DEF Put
  <2>2. Policies' = Policies
    BY <1>1 DEF Policies, schemaVars
  <2>3. SchemaTypeOK'
    BY <1>1, <1>2 DEF SchemaTypeOK, schemaVars, CredentialSchemas
  <2> QED BY <1>1, <1>2, <2>1, <2>2, <2>3 DEF TypeOK
<1>9. ASSUME NEW t \in DOMAIN schemas, NEW r \in PolicyRoles
      PROVE  VersionsInOrder(t, r)'
  <2>0. VersionsInOrder(t, r)
    BY DEF Inv, PoliciesInOrder
  <2>1. CASE t # s \/ r # role
    <3>1. PoliciesFor(t, r)' = PoliciesFor(t, r)
      BY <1>5, <1>7, <2>1 DEF PoliciesFor
    <3>2. PoliciesFor(t, r) \subseteq DOMAIN policies
      BY DEF PoliciesFor
    <3> QED BY <1>7, <2>0, <3>1, <3>2 DEF VersionsInOrder
  <2>2. CASE t = s /\ r = role
    <3> DEFINE mine == PoliciesFor(s, role)
    <3>1. PoliciesFor(t, r)' = mine \cup {id}
      BY <1>5, <1>7, <2>2 DEF PoliciesFor
    <3>2. Cardinality(mine \cup {id}) = n + 1
      BY <1>3, <1>6, FS_AddElement DEF n
    <3>3. /\ \A p \in mine : p \in DOMAIN policies /\ policies'[p] = policies[p] /\ p < id
          /\ \A p \in mine : policies[p].version \in 1 .. n
      <4>1. {policies[p].version : p \in mine} = 1 .. n
        BY <2>0, <2>2 DEF VersionsInOrder, n
      <4> QED BY <1>2, <1>3, <1>7, <4>1
    <3>4. {policies'[p].version : p \in mine \cup {id}} = 1 .. n + 1
      <4>1. {policies[p].version : p \in mine} = 1 .. n
        BY <2>0, <2>2 DEF VersionsInOrder, n
      <4>2. {policies'[p].version : p \in mine \cup {id}} = (1 .. n) \cup {n + 1}
        BY <1>5, <1>7, <3>3, <4>1
      <4> QED BY <1>3, <4>2
    <3>5. ASSUME NEW p \in mine \cup {id}, NEW q \in mine \cup {id}
          PROVE  /\ p < q => policies'[p].version < policies'[q].version
                 /\ policies'[p].version < policies'[q].version /\ policies'[q].active
                    => policies'[p].active
      <4>1. CASE p \in mine /\ q \in mine
        BY <2>0, <2>2, <3>3, <4>1 DEF VersionsInOrder
      <4>2. CASE q = id
        BY <1>2, <1>3, <1>5, <1>7, <3>3, <4>2
      <4>3. CASE p = id /\ q \in mine
        BY <1>2, <1>3, <1>5, <1>7, <3>3, <4>3
      <4> QED BY <4>1, <4>2, <4>3
    <3>6. \A p \in mine \cup {id} : policies'[p].revoked => policies'[p].active
      BY <1>5, <1>7, <2>0, <2>2, <3>3 DEF VersionsInOrder
    <3> HIDE DEF mine
    <3> QED BY <3>1, <3>2, <3>4, <3>5, <3>6 DEF VersionsInOrder
  <2> QED BY <2>1, <2>2
<1>10. PoliciesInOrder'
  BY <1>1, <1>9 DEF PoliciesInOrder, schemaVars
<1> QED BY <1>8, <1>10 DEF Inv

\* A change of the flags of one policy keeps the types, and who the policies are for.
LEMMA FlagTyped ==
  ASSUME TypeOK, NEW id \in DOMAIN policies, NEW x \in Policies,
         x.schema = policies[id].schema, x.role = policies[id].role,
         policies' = [policies EXCEPT ![id] = x],
         UNCHANGED <<schemaVars, policyCounter>>
  PROVE  /\ TypeOK'
         /\ \A s, role : PoliciesFor(s, role)' = PoliciesFor(s, role)
<1>1. Policies' = Policies /\ SchemaTypeOK'
  BY DEF TypeOK, Policies, schemaVars, SchemaTypeOK, CredentialSchemas
<1>2. /\ policyCounter \in Nat
      /\ policies \in [1 .. policyCounter -> Policies]
  BY DEF TypeOK
<1>3. policies' \in [1 .. policyCounter -> Policies]
  BY <1>2
<1>4. TypeOK'
  BY <1>1, <1>2, <1>3 DEF TypeOK
<1>5. ASSUME NEW s, NEW role
      PROVE  PoliciesFor(s, role)' = PoliciesFor(s, role)
  BY <1>2 DEF PoliciesFor
<1> QED BY <1>4, <1>5

\* What comes before the oldest pending version is active: only an active one is revoked.
LEMMA ActivateKeepsInv ==
  ASSUME Inv, NEW corp, NEW s \in DOMAIN schemas, NEW role \in PolicyRoles,
         IncreaseActiveSchemaAuthorizationPolicyVersion(corp, s, role)
  PROVE  Inv'
<1>1. PICK id \in OldestPending(s, role) :
        policies' = [policies EXCEPT ![id].active = TRUE]
  BY DEF IncreaseActiveSchemaAuthorizationPolicyVersion
<1>2. UNCHANGED <<schemaVars, policyCounter>>
  BY DEF IncreaseActiveSchemaAuthorizationPolicyVersion
<1>3. /\ id \in PoliciesFor(s, role) /\ id \in DOMAIN policies
      /\ ~policies[id].active /\ ~policies[id].revoked
      /\ \A p \in Pending(s, role) : policies[id].version <= policies[p].version
  BY DEF OldestPending, Pending, PoliciesFor
<1>4. \A p \in DOMAIN policies : policies[p] \in Policies
  BY DEF Inv, TypeOK
<1> DEFINE x == [policies[id] EXCEPT !.active = TRUE]
<1>5. policies' = [policies EXCEPT ![id] = x]
  BY <1>1
<1>6. /\ x \in Policies
      /\ x.schema = policies[id].schema /\ x.role = policies[id].role
      /\ x.version = policies[id].version /\ x.revoked = policies[id].revoked
      /\ x.active
  BY <1>3, <1>4 DEF Policies
<1> HIDE DEF x
<1>7. /\ TypeOK'
      /\ \A t, r : PoliciesFor(t, r)' = PoliciesFor(t, r)
  BY <1>2, <1>3, <1>5, <1>6, FlagTyped DEF Inv
<1>8. policies'[id] = x /\ \A p \in DOMAIN policies \ {id} : policies'[p] = policies[p]
  BY <1>3, <1>5
<1>9. ASSUME NEW t \in DOMAIN schemas, NEW r \in PolicyRoles
      PROVE  VersionsInOrder(t, r)'
  <2> DEFINE mine == PoliciesFor(t, r)
  <2>0. VersionsInOrder(t, r)
    BY DEF Inv, PoliciesInOrder
  <2>1. \A p \in mine : p \in DOMAIN policies /\ policies[p] \in Policies
    BY <1>4 DEF PoliciesFor
  <2>2. /\ \A p \in mine : policies'[p].version = policies[p].version
        /\ \A p \in mine : policies'[p].revoked = policies[p].revoked
        /\ \A p \in mine : policies[p].active => policies'[p].active
        /\ \A p \in mine : policies'[p].active => policies[p].active \/ p = id
    BY <1>6, <1>8, <2>1
  <2>3. ASSUME id \in mine, NEW p \in mine, policies[p].version < policies[id].version
        PROVE  policies[p].active
    <3>1. t = s /\ r = role
      BY <1>3, <2>3 DEF PoliciesFor
    <3>2. p \notin Pending(s, role)
      BY <1>3, <1>4, <2>1, <2>3 DEF Policies
    <3> QED BY <2>0, <2>1, <3>1, <3>2 DEF Pending, VersionsInOrder, Policies
  <2>4. ASSUME NEW p \in mine, NEW q \in mine
        PROVE  /\ p < q => policies'[p].version < policies'[q].version
               /\ policies'[p].version < policies'[q].version /\ policies'[q].active
                  => policies'[p].active
    BY <2>0, <2>2, <2>3 DEF VersionsInOrder
  <2>5. {policies'[p].version : p \in mine} = 1 .. Cardinality(mine)
    BY <2>0, <2>2 DEF VersionsInOrder
  <2>6. \A p \in mine : policies'[p].revoked => policies'[p].active
    BY <2>0, <2>2 DEF VersionsInOrder
  <2>7. PoliciesFor(t, r)' = mine
    BY <1>7
  <2> HIDE DEF mine
  <2> QED BY <2>4, <2>5, <2>6, <2>7 DEF VersionsInOrder
<1>10. PoliciesInOrder'
  BY <1>2, <1>9 DEF PoliciesInOrder, schemaVars
<1> QED BY <1>7, <1>10 DEF Inv

\* A revoke leaves the policy active and in its place.
LEMMA RevokeKeepsInv ==
  ASSUME Inv, NEW corp, NEW s \in DOMAIN schemas, NEW role \in PolicyRoles,
         NEW version, RevokeSchemaAuthorizationPolicy(corp, s, role, version)
  PROVE  Inv'
<1>1. PICK id \in PoliciesFor(s, role) :
        /\ policies[id].active
        /\ policies' = [policies EXCEPT ![id].revoked = TRUE]
  BY DEF RevokeSchemaAuthorizationPolicy
<1>2. UNCHANGED <<schemaVars, policyCounter>>
  BY DEF RevokeSchemaAuthorizationPolicy
<1>3. id \in DOMAIN policies
  BY DEF PoliciesFor
<1>4. \A p \in DOMAIN policies : policies[p] \in Policies
  BY DEF Inv, TypeOK
<1> DEFINE x == [policies[id] EXCEPT !.revoked = TRUE]
<1>5. policies' = [policies EXCEPT ![id] = x]
  BY <1>1
<1>6. /\ x \in Policies
      /\ x.schema = policies[id].schema /\ x.role = policies[id].role
      /\ x.version = policies[id].version /\ x.active = policies[id].active
  BY <1>3, <1>4 DEF Policies
<1> HIDE DEF x
<1>7. /\ TypeOK'
      /\ \A t, r : PoliciesFor(t, r)' = PoliciesFor(t, r)
  BY <1>2, <1>3, <1>5, <1>6, FlagTyped DEF Inv
<1>8. policies'[id] = x /\ \A p \in DOMAIN policies \ {id} : policies'[p] = policies[p]
  BY <1>3, <1>5
<1>9. ASSUME NEW t \in DOMAIN schemas, NEW r \in PolicyRoles
      PROVE  VersionsInOrder(t, r)'
  <2> DEFINE mine == PoliciesFor(t, r)
  <2>0. VersionsInOrder(t, r)
    BY DEF Inv, PoliciesInOrder
  <2>1. \A p \in mine : p \in DOMAIN policies
    BY DEF PoliciesFor
  <2>2. /\ \A p \in mine : policies'[p].version = policies[p].version
        /\ \A p \in mine : policies'[p].active = policies[p].active
        /\ \A p \in mine : policies'[p].revoked => policies[p].revoked \/ p = id
    BY <1>6, <1>8, <2>1
  <2>3. \A p \in mine : policies'[p].revoked => policies'[p].active
    BY <1>1, <2>0, <2>2 DEF VersionsInOrder
  <2>4. \A p, q \in mine :
          /\ p < q => policies'[p].version < policies'[q].version
          /\ policies'[p].version < policies'[q].version /\ policies'[q].active
             => policies'[p].active
    BY <2>0, <2>2 DEF VersionsInOrder
  <2>5. {policies'[p].version : p \in mine} = 1 .. Cardinality(mine)
    BY <2>0, <2>2 DEF VersionsInOrder
  <2>6. PoliciesFor(t, r)' = mine
    BY <1>7
  <2> HIDE DEF mine
  <2> QED BY <2>3, <2>4, <2>5, <2>6 DEF VersionsInOrder
<1>10. PoliciesInOrder'
  BY <1>2, <1>9 DEF PoliciesInOrder, schemaVars
<1> QED BY <1>7, <1>10 DEF Inv

\* Where there are no policies they are in order.
LEMMA NoPoliciesInOrder ==
  ASSUME policies = EmptyMap
  PROVE  PoliciesInOrder
<1> SUFFICES ASSUME NEW s \in DOMAIN schemas, NEW role \in PolicyRoles
             PROVE  VersionsInOrder(s, role)
  BY DEF PoliciesInOrder
<1>1. PoliciesFor(s, role) = {}
  BY DEF PoliciesFor, EmptyMap
<1>2. 1 .. Cardinality(PoliciesFor(s, role)) = {}
  BY <1>1, FS_EmptySet
<1> QED BY <1>1, <1>2 DEF VersionsInOrder

\* The policies and their counter are gone together, so that the ids start over.
LEMMA RestartKeepsInv ==
  ASSUME Inv, RestartFromGenesis
  PROVE  Inv' /\ UNCHANGED schemaVars
<1>1. UNCHANGED schemaVars
  BY SchemaRestart DEF Inv, TypeOK, RestartFromGenesis
<1>2. SchemaTypeOK'
  BY <1>1 DEF Inv, TypeOK, SchemaTypeOK, schemaVars, CredentialSchemas
<1>3. policies' = EmptyMap /\ policyCounter' = 0
  BY DEF RestartFromGenesis
<1>4. EmptyMap \in [1 .. 0 -> Policies']
  BY DEF EmptyMap
<1>5. TypeOK'
  BY <1>2, <1>3, <1>4 DEF TypeOK
<1>6. PoliciesInOrder'
  <2> SUFFICES ASSUME NEW s \in DOMAIN schemas', NEW role \in PolicyRoles
               PROVE  VersionsInOrder(s, role)'
    BY DEF PoliciesInOrder
  <2>1. PoliciesFor(s, role)' = {}
    BY <1>3 DEF PoliciesFor, EmptyMap
  <2>2. 1 .. Cardinality(PoliciesFor(s, role)') = {}
    BY <2>1, FS_EmptySet
  <2> QED BY <2>1, <2>2 DEF VersionsInOrder
<1> QED BY <1>1, <1>5, <1>6 DEF Inv

-----------------------------------------------------------------------------
(* Theorems.                                                               *)

LEMMA SchemasBegin == Init => Inv
<1> SUFFICES ASSUME Init PROVE Inv
  OBVIOUS
<1>1. schemas = EmptyMap /\ policies = EmptyMap /\ policyCounter = 0
  BY DEF Init, SchemaInit
<1>2. LastId(schemas) = 0
  BY <1>1 DEF LastId
<1>3. schemas \in [1 .. 0 -> CredentialSchemas] /\ policies \in [1 .. 0 -> Policies]
  BY <1>1 DEF EmptyMap
<1>4. schemaCounter = 0 /\ maxPeriod \in [ValidatedRoles -> Nat \ {0}]
  BY <1>2, SchemaAssumption DEF Init, SchemaInit
<1>5. TypeOK
  BY <1>1, <1>3, <1>4 DEF TypeOK, SchemaTypeOK
<1> QED BY <1>1, <1>5, NoPoliciesInOrder DEF Inv

LEMMA NextKeepsInv == Inv /\ [Next]_vars => Inv'
<1> SUFFICES ASSUME Inv, [Next]_vars PROVE Inv'
  OBVIOUS
<1>1. CASE SchemaMessages /\ UNCHANGED policyVars
  <2>1. SchemaTypeOK' /\ DOMAIN schemas \subseteq DOMAIN schemas'
    BY <1>1, SchemaStep DEF Inv, TypeOK
  <2> QED BY <1>1, <2>1, PoliciesOfMoreSchemas, OrderOfMoreSchemas DEF Inv
<1>2. CASE PolicyMessages
  BY <1>2, CreateKeepsInv, ActivateKeepsInv, RevokeKeepsInv DEF PolicyMessages
<1>3. CASE RestartFromGenesis
  BY <1>3, RestartKeepsInv
<1>4. CASE UNCHANGED vars
  <2>1. UNCHANGED policyVars /\ UNCHANGED schemaVars
    BY <1>4 DEF vars
  <2>2. SchemaTypeOK' /\ DOMAIN schemas \subseteq DOMAIN schemas'
    BY <2>1 DEF Inv, TypeOK, SchemaTypeOK, schemaVars, CredentialSchemas
  <2> QED BY <2>1, <2>2, PoliciesOfMoreSchemas, OrderOfMoreSchemas DEF Inv
<1> QED BY <1>1, <1>2, <1>3, <1>4 DEF Next

LEMMA SchemasInvariant == Spec => []Inv
<1> QED BY SchemasBegin, NextKeepsInv, PTL DEF Spec

(***************************************************************************)
(* The stores of x/cs have their types: ids are those the counters gave    *)
(* and a policy is always for a schema that is there, although a restart   *)
(* drops policies and counts schemas again.                                *)
(***************************************************************************)
THEOREM SchemasTypeCorrect == Spec => []TypeOK
<1>1. Inv => TypeOK
  BY DEF Inv
<1> QED BY <1>1, SchemasInvariant, PTL

(***************************************************************************)
(* The versions of the policies for a schema and a role are 1..n in the    *)
(* order they were created, and are activated in that order.               *)
(***************************************************************************)
THEOREM VersionsStayInOrder == Spec => []PoliciesInOrder
<1>1. Inv => PoliciesInOrder
  BY DEF Inv
<1> QED BY <1>1, SchemasInvariant, PTL

\* Steps that leave the schemas alone keep their terms.
LEMMA SameSchemasKeepTerms ==
  ASSUME UNCHANGED schemaVars
  PROVE  TermsKept
BY DEF schemaVars, TermsKept

LEMMA StepKeepsTerms == Inv /\ [Next]_vars => [TermsKept]_schemaVars
<1> SUFFICES ASSUME Inv, [Next]_vars PROVE TermsKept
  OBVIOUS
<1>1. CASE SchemaMessages
  BY <1>1, SchemaStep DEF Inv, TypeOK
<1>2. CASE PolicyMessages
  <2>1. UNCHANGED schemaVars
    BY <1>2 DEF PolicyMessages, CreateSchemaAuthorizationPolicy,
                IncreaseActiveSchemaAuthorizationPolicyVersion,
                RevokeSchemaAuthorizationPolicy
  <2> QED BY <2>1, SameSchemasKeepTerms
<1>3. CASE RestartFromGenesis
  BY <1>3, RestartKeepsInv, SameSchemasKeepTerms
<1>4. CASE UNCHANGED vars
  <2>1. UNCHANGED schemaVars
    BY <1>4 DEF vars
  <2> QED BY <2>1, SameSchemasKeepTerms
<1> QED BY <1>1, <1>2, <1>3, <1>4 DEF Next

(***************************************************************************)
(* A schema keeps its ecosystem and its modes, and its periods while it is *)
(* archived; a change brings every period within the maxima of its moment. *)
(***************************************************************************)
THEOREM TermsStay == Spec => SchemaTermsKept
<1>1. Spec => [][TermsKept]_schemaVars
  BY SchemasInvariant, StepKeepsTerms, PTL DEF Spec
<1> QED BY <1>1, PTL DEF SchemaTermsKept, TermsKept
=============================================================================
