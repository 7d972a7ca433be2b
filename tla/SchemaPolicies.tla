--------------------------- MODULE SchemaPolicies ---------------------------
(***************************************************************************)
(* The authorization policies of x/cs: documents, in versions, that say    *)
(* who may be an issuer or a verifier of a schema.  A version is created   *)
(* inactive, activated in the order of the versions, and may be revoked    *)
(* once it is active.  No handler reads them.                              *)
(*                                                                         *)
(* A policy's effective_from is only ever set to the time of the block, so *)
(* that it is never in the future; here it is a flag.  effective_until is  *)
(* set by nothing.  Url and digest are left out.                           *)
(***************************************************************************)
EXTENDS Schemas, FiniteSets

CONSTANT MaxPolicies   \* bound on the policies

ASSUME PolicyAssumption == MaxPolicies \in Nat

VARIABLES
  policies,        \* SchemaAuthorizationPolicies, by id
  policyCounter    \* Counter "schema_authorization_policy", the last id

policyVars == <<policies, policyCounter>>
vars == <<schemaVars, policyVars>>

PolicyRoles == {"ISSUER", "VERIFIER"}

Init == SchemaInit(EmptyMap) /\ policies = EmptyMap /\ policyCounter = 0

-----------------------------------------------------------------------------
\* getSchemaAuthPoliciesForRole: their ids.
PoliciesFor(s, role) ==
  {id \in DOMAIN policies : policies[id].schema = s /\ policies[id].role = role}

NextVersion(s, role) == Cardinality(PoliciesFor(s, role)) + 1

CreateSchemaAuthorizationPolicy(corp, s, role) ==
  LET id == policyCounter + 1
  IN  /\ Controls(corp, s)
      /\ id <= MaxPolicies
      /\ policies' = Put(policies, id,
                         [schema |-> s, role |-> role, version |-> NextVersion(s, role),
                          active |-> FALSE, revoked |-> FALSE])
      /\ policyCounter' = id
      /\ UNCHANGED schemaVars

Pending(s, role) ==
  {id \in PoliciesFor(s, role) : ~policies[id].active /\ ~policies[id].revoked}

NewestPending(s, role) ==      \* mutant: from the newest on
  {id \in Pending(s, role) :
     \A p \in Pending(s, role) : policies[p].version <= policies[id].version}

OldestPending(s, role) ==
  {id \in Pending(s, role) :
     \A p \in Pending(s, role) : policies[id].version <= policies[p].version}

\* The versions activated before stay active.
IncreaseActiveSchemaAuthorizationPolicyVersion(corp, s, role) ==
  /\ Controls(corp, s)
  /\ \E id \in OldestPending(s, role) :
       policies' = [policies EXCEPT ![id].active = TRUE]
  /\ UNCHANGED <<schemaVars, policyCounter>>

RevokeSchemaAuthorizationPolicy(corp, s, role, version) ==
  /\ Controls(corp, s)
  /\ \E id \in PoliciesFor(s, role) :
       /\ policies[id].version = version
       /\ policies[id].active /\ ~policies[id].revoked
       /\ policies' = [policies EXCEPT ![id].revoked = TRUE]
  /\ UNCHANGED <<schemaVars, policyCounter>>

\* The genesis of x/cs has no policies and not their counter.
RestartFromGenesis ==
  /\ SchemasFromGenesis
  /\ policies' = EmptyMap
  /\ policyCounter' = 0

PolicyMessages ==
  \E s \in DOMAIN schemas, role \in PolicyRoles :
    LET corp == ControllerOf[schemas[s].ecosystem]
    IN  \/ CreateSchemaAuthorizationPolicy(corp, s, role)
        \/ IncreaseActiveSchemaAuthorizationPolicyVersion(corp, s, role)
        \/ \E version \in 1 .. MaxPolicies :
             RevokeSchemaAuthorizationPolicy(corp, s, role, version)

Next ==
  \/ SchemaMessages /\ UNCHANGED policyVars
  \/ PolicyMessages
  \/ RestartFromGenesis

Spec == Init /\ [][Next]_vars

-----------------------------------------------------------------------------
(* Properties.                                                             *)

Policies ==
  [schema : DOMAIN schemas, role : PolicyRoles, version : Nat \ {0},
   active : BOOLEAN, revoked : BOOLEAN]

\* Every store has its type, and the ids are those the counter gave.
TypeOK ==
  /\ SchemaTypeOK
  /\ policyCounter \in Nat
  /\ policies \in [1 .. policyCounter -> Policies]

(***************************************************************************)
(* The versions for a schema and a role are 1..n, each once, in the order  *)
(* of their ids; the active ones come before the others, so that every     *)
(* activation brings in a newer version than any before; and only an       *)
(* active one is revoked.  Versions are counted from the rows, ids from a  *)
(* counter, and a restart drops both.                                      *)
(***************************************************************************)
VersionsInOrder(s, role) ==
  LET mine == PoliciesFor(s, role)
  IN  /\ \A p, q \in mine :
           /\ p < q => policies[p].version < policies[q].version
           /\ policies[p].version < policies[q].version /\ policies[q].active
              => policies[p].active
      /\ {policies[p].version : p \in mine} = 1 .. Cardinality(mine)
      /\ \A p \in mine : policies[p].revoked => policies[p].active

PoliciesInOrder ==
  \A s \in DOMAIN schemas, role \in PolicyRoles : VersionsInOrder(s, role)
=============================================================================
