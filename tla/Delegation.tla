----------------------------- MODULE Delegation -----------------------------
(***************************************************************************)
(* The x/de module: what a corporation lets others do in its name.         *)
(*                                                                         *)
(*   - an operator authorization lets an operator sign some message types, *)
(*     until it expires and within a spend limit;                          *)
(*   - a VS operator authorization collects one record per participant the *)
(*     operator runs a verifiable service for;                             *)
(*   - a fee grant, at most one per (corporation, grantee), lets the       *)
(*     grantee pay fees from the corporation's account.  Both kinds of     *)
(*     authorization write it.                                             *)
(*                                                                         *)
(* Grant and Revoke are messages; the four VSOperatorAuthorization         *)
(* functions are called by x/pp within its own messages.  A handler that   *)
(* fails leaves no trace.                                                  *)
(***************************************************************************)
EXTENDS Stores

CONSTANTS
  Corporations,   \* the registered corporations
  Operators,      \* accounts an authorization can name
  NoOperator,     \* a message the corporation's group proposal sends itself
  Participants,   \* participant ids
  MsgTypeSets,    \* the sets of message types an authorization may list
  RecordMsgTypes, \* the same for the record of a participant
  Limits,         \* spend limits a grant may set, 0 for none
  Periods,        \* reset periods, 0 for none
  Spends,         \* amounts a metered message spends
  Expirations,    \* expirations a grant may name, NoTime for none
  RecordExpirations, \* the same for the record of a participant
  MaxTime,        \* bound on the clock
  MaxId           \* bound on the two id sequences

GrantMsg == "MsgGrantOperatorAuthorization"
RevokeMsg == "MsgRevokeOperatorAuthorization"
SessionMsg == "MsgCreateOrUpdateParticipantSession"

ASSUME DelegationAssumption ==
  /\ NoOperator \notin Operators
  /\ \A T \in MsgTypeSets : T # {} /\ SessionMsg \notin T
  /\ \A T \in RecordMsgTypes : T # {}
  /\ Limits \subseteq Nat /\ Periods \subseteq Nat /\ Spends \subseteq Nat
  /\ Expirations \subseteq Nat /\ RecordExpirations \subseteq Nat
  /\ MaxTime \in Nat \ {0}
  /\ MaxId \in Nat

VARIABLES
  now,                 \* the block time
  oas,                 \* OperatorAuthorizations, by id
  oaByCorpOp,          \* OperatorAuthorizationByCorpOp
  oaSeq,               \* OperatorAuthorizationSeq
  usage,               \* OperatorAuthorizationUsage, by id
  feeGrants,           \* FeeGrants, by (corporation, grantee)
  vsoas,               \* VSOperatorAuthorizations, by id
  vsoaByCorpOp,        \* VSOAByCorpOp
  vsoaByParticipant,   \* VSOAByParticipant
  vsoaSeq              \* VSOASeq

oaVars == <<oas, oaByCorpOp, oaSeq, usage>>
vsoaVars == <<vsoas, vsoaByCorpOp, vsoaByParticipant, vsoaSeq>>
deVars == <<oaVars, feeGrants, vsoaVars>>
vars == <<now, deVars>>

DelegationInit ==
  /\ oas = EmptyMap /\ oaByCorpOp = EmptyMap /\ oaSeq = 0 /\ usage = EmptyMap
  /\ feeGrants = EmptyMap
  /\ vsoas = EmptyMap /\ vsoaByCorpOp = EmptyMap /\ vsoaByParticipant = EmptyMap
  /\ vsoaSeq = 0

Init == now = 1 /\ DelegationInit

-----------------------------------------------------------------------------
(* Operator authorizations.                                                *)

\* checkOperatorAuthorizationCore, for an operator.
HoldsAuthorization(corp, operator, msgType) ==
  /\ Has(oaByCorpOp, <<corp, operator>>)
  /\ LET oa == oas[oaByCorpOp[<<corp, operator>>]]
     IN  NotExpired(oa.expiration, now) /\ msgType \in oa.msgTypes

\* CheckOperatorAuthorization: a corporation acting alone needs none.
Authorized(corp, operator, msgType) ==
  operator = NoOperator \/ HoldsAuthorization(corp, operator, msgType)

FeeGrant(msgTypes, expiration) == [msgTypes |-> msgTypes, expiration |-> expiration]

IdForZeroBased(index, key, seq) ==   \* mutant: the sequence starts at 0
  IF Has(index, key) THEN index[key] ELSE seq

\* The id an authorization has in the index, or a fresh one, from 1 on.
IdFor(index, key, seq) == IF Has(index, key) THEN index[key] ELSE seq + 1

UsageKept(id) == usage           \* mutant: the ledger outlives the authorization

UsageCleared(id) == Remove(usage, id)

GrantWithoutMutex(corp, operator, grantee) ==   \* mutant: VSOAs are not looked at
  /\ Authorized(corp, operator, GrantMsg)
  /\ operator # NoOperator => grantee # operator

MayGrant(corp, operator, grantee) ==
  /\ Authorized(corp, operator, GrantMsg)
  /\ operator # NoOperator => grantee # operator
  /\ ~Has(vsoaByCorpOp, <<corp, grantee>>)

GrantOperatorAuthorization(operator, oa, withFeegrant) ==
  LET key == <<oa.corporation, oa.operator>>
      id == IdFor(oaByCorpOp, key, oaSeq)
  IN  /\ MayGrant(oa.corporation, operator, oa.operator)
      /\ NotExpired(oa.expiration, now)
      /\ id <= MaxId
      /\ oas' = Put(oas, id, oa)
      /\ oaByCorpOp' = Put(oaByCorpOp, key, id)
      /\ oaSeq' = IF id > oaSeq THEN id ELSE oaSeq
      /\ usage' = UsageCleared(id)
      /\ feeGrants' = IF withFeegrant
                      THEN Put(feeGrants, key, FeeGrant(oa.msgTypes, oa.expiration))
                      ELSE Remove(feeGrants, key)
      /\ UNCHANGED <<now, vsoaVars>>

FeeGrantKept(key) == feeGrants   \* mutant: the fee grant outlives the authorization

FeeGrantRevoked(key) == Remove(feeGrants, key)

RevokeOperatorAuthorization(corp, operator, grantee) ==
  LET key == <<corp, grantee>>
  IN  /\ Authorized(corp, operator, RevokeMsg)
      /\ Has(oaByCorpOp, key)
      /\ oas' = Remove(oas, oaByCorpOp[key])
      /\ usage' = UsageCleared(oaByCorpOp[key])
      /\ oaByCorpOp' = Remove(oaByCorpOp, key)
      /\ feeGrants' = FeeGrantRevoked(key)
      /\ UNCHANGED <<now, oaSeq, vsoaVars>>

\* What is left to spend, before the period is looked at.
UsageOf(id) ==
  IF Has(usage, id) THEN usage[id]
  ELSE [remaining |-> oas[id].limit, lastReset |-> now]

RefilledAlways(id) ==        \* mutant: the elapsed time is not looked at
  IF oas[id].period > 0
  THEN [remaining |-> oas[id].limit, lastReset |-> now]
  ELSE UsageOf(id)

Refilled(id) ==
  IF oas[id].period > 0 /\ now - UsageOf(id).lastReset >= oas[id].period
  THEN [remaining |-> oas[id].limit, lastReset |-> now]
  ELSE UsageOf(id)

\* CheckOperatorAuthorizationWithSpend, where there is something to meter.
SpendWithAuthorization(corp, operator, msgType, spend) ==
  /\ HoldsAuthorization(corp, operator, msgType)
  /\ LET id == oaByCorpOp[<<corp, operator>>]
     IN  /\ oas[id].limit > 0 /\ spend > 0
         /\ Refilled(id).remaining >= spend
         /\ usage' = Put(usage, id, [Refilled(id) EXCEPT !.remaining = @ - spend])
  /\ UNCHANGED <<now, oas, oaByCorpOp, oaSeq, feeGrants, vsoaVars>>

-----------------------------------------------------------------------------
(* VS operator authorizations.                                             *)

FeegrantRecords(records) ==
  {p \in DOMAIN records :
     records[p].withFeegrant /\ InFuture(records[p].expiration, now)}

\* recomputeFeeAllowance: one fee grant for all the records that have one.
RecomputeFeeAllowance(key, records) ==
  LET live == FeegrantRecords(records)
  IN  feeGrants' =
        IF live = {} THEN Remove(feeGrants, key)
        ELSE Put(feeGrants, key,
               FeeGrant(UNION {records[p].msgTypes : p \in live},
                        Largest({records[p].expiration : p \in live})))

MayRecord(corp, operator, participant) ==
  /\ ~Has(vsoaByParticipant, participant)
  /\ ~Has(oaByCorpOp, <<corp, operator>>)
  /\ \A id \in DOMAIN vsoas :
       vsoas[id].operator = operator => vsoas[id].corporation = corp

GrantVSOperatorAuthorization(corp, operator, participant, record) ==
  LET key == <<corp, operator>>
      id == IdFor(vsoaByCorpOp, key, vsoaSeq)
      records == Put(IF Has(vsoaByCorpOp, key) THEN vsoas[id].records ELSE EmptyMap,
                     participant, record)
  IN  /\ MayRecord(corp, operator, participant)
      /\ id <= MaxId
      /\ vsoas' = Put(vsoas, id, [corporation |-> corp, operator |-> operator,
                                  records |-> records])
      /\ vsoaByCorpOp' = Put(vsoaByCorpOp, key, id)
      /\ vsoaByParticipant' = Put(vsoaByParticipant, participant, id)
      /\ vsoaSeq' = IF id > vsoaSeq THEN id ELSE vsoaSeq
      /\ RecomputeFeeAllowance(key, records)
      /\ UNCHANGED <<now, oaVars>>

VSOAIndexKept(id, records) == vsoaByCorpOp   \* mutant: the index is forgotten

\* The last record takes the authorization and its index entry with it.
VSOAIndexAfter(id, records) ==
  IF records = EmptyMap
  THEN Remove(vsoaByCorpOp, <<vsoas[id].corporation, vsoas[id].operator>>)
  ELSE vsoaByCorpOp

RevokeVSOperatorAuthorization(participant) ==
  \/ /\ Has(vsoaByParticipant, participant)
     /\ LET id == vsoaByParticipant[participant]
            vsoa == vsoas[id]
            records == Remove(vsoa.records, participant)
        IN  /\ vsoas' = IF records = EmptyMap THEN Remove(vsoas, id)
                        ELSE Put(vsoas, id, [vsoa EXCEPT !.records = records])
            /\ vsoaByCorpOp' = VSOAIndexAfter(id, records)
            /\ RecomputeFeeAllowance(<<vsoa.corporation, vsoa.operator>>, records)
     /\ vsoaByParticipant' = Remove(vsoaByParticipant, participant)
     /\ UNCHANGED <<now, oaVars, vsoaSeq>>
  \/ /\ ~Has(vsoaByParticipant, participant)
     /\ UNCHANGED vars

UpdateVSOperatorAuthorizationExpiration(participant, expiration) ==
  \/ /\ Has(vsoaByParticipant, participant)
     /\ LET id == vsoaByParticipant[participant]
            vsoa == vsoas[id]
            records == [vsoa.records EXCEPT ![participant].expiration = expiration]
        IN  /\ vsoas' = Put(vsoas, id, [vsoa EXCEPT !.records = records])
            /\ RecomputeFeeAllowance(<<vsoa.corporation, vsoa.operator>>, records)
     /\ UNCHANGED <<now, oaVars, vsoaByCorpOp, vsoaByParticipant, vsoaSeq>>
  \/ /\ ~Has(vsoaByParticipant, participant)
     /\ UNCHANGED vars

\* CheckVSOperatorAuthorizationOnParticipant: a record with a period whose
\* expiration has come starts another period.
CheckVSOperatorAuthorizationOnParticipant(corp, operator, participant, msgType) ==
  /\ Has(vsoaByParticipant, participant)
  /\ LET id == vsoaByParticipant[participant]
         record == vsoas[id].records[participant]
     IN  /\ vsoas[id].corporation = corp /\ vsoas[id].operator = operator
         /\ msgType \in record.msgTypes
         /\ \/ /\ InFuture(record.expiration, now)
               /\ UNCHANGED vsoas
            \/ /\ record.period > 0 /\ record.expiration # NoTime
               /\ ~InFuture(record.expiration, now)
               /\ vsoas' = [vsoas EXCEPT ![id].records[participant].expiration =
                                             now + record.period]
  /\ UNCHANGED <<now, oaVars, feeGrants, vsoaByCorpOp, vsoaByParticipant, vsoaSeq>>

-----------------------------------------------------------------------------
(* Genesis: the indexes are rebuilt and a sequence restarts after the      *)
(* largest id that is still there.                                         *)

KeyOf(authorization) == <<authorization.corporation, authorization.operator>>

CorpOpIndex(m) ==
  [key \in {KeyOf(m[id]) : id \in DOMAIN m} |->
     Largest({id \in DOMAIN m : KeyOf(m[id]) = key})]

ParticipantIndex ==
  [p \in UNION {DOMAIN vsoas[id].records : id \in DOMAIN vsoas} |->
     Largest({id \in DOMAIN vsoas : p \in DOMAIN vsoas[id].records})]

UsageForgotten == EmptyMap       \* mutant: genesis leaves the ledgers out

UsageExported == usage

RestartFromGenesis ==
  /\ oaByCorpOp' = CorpOpIndex(oas)
  /\ oaSeq' = LastId(oas)
  /\ usage' = UsageExported
  /\ vsoaByCorpOp' = CorpOpIndex(vsoas)
  /\ vsoaByParticipant' = ParticipantIndex
  /\ vsoaSeq' = LastId(vsoas)
  /\ UNCHANGED <<now, oas, feeGrants, vsoas>>

Tick == now < MaxTime /\ now' = now + 1 /\ UNCHANGED deVars

-----------------------------------------------------------------------------
(* The module with x/pp as its environment: any call x/pp could make, in   *)
(* any order.                                                              *)

Records ==
  [msgTypes : RecordMsgTypes, withFeegrant : BOOLEAN,
   expiration : RecordExpirations, period : Periods]

Grants ==
  \E operator \in Operators \cup {NoOperator}, withFeegrant \in BOOLEAN,
     oa \in [corporation : Corporations, operator : Operators, msgTypes : MsgTypeSets,
             limit : Limits, period : Periods, expiration : Expirations] :
    GrantOperatorAuthorization(operator, oa, withFeegrant)

Revokes ==
  \E corp \in Corporations, operator \in Operators \cup {NoOperator},
     grantee \in Operators :
    RevokeOperatorAuthorization(corp, operator, grantee)

MeteredMessages ==
  \E corp \in Corporations, operator \in Operators, T \in MsgTypeSets :
    \E msgType \in T, spend \in Spends :
      SpendWithAuthorization(corp, operator, msgType, spend)

ParticipantCalls ==
  \E participant \in Participants :
    \/ \E corp \in Corporations, operator \in Operators :
         \/ \E record \in Records :
              GrantVSOperatorAuthorization(corp, operator, participant, record)
         \/ CheckVSOperatorAuthorizationOnParticipant(corp, operator, participant,
                                                      SessionMsg)
    \/ RevokeVSOperatorAuthorization(participant)
    \/ \E expiration \in RecordExpirations \ {NoTime} :
         UpdateVSOperatorAuthorizationExpiration(participant, expiration)

Next ==
  Grants \/ Revokes \/ MeteredMessages \/ ParticipantCalls \/ RestartFromGenesis \/ Tick

Spec == Init /\ [][Next]_vars

-----------------------------------------------------------------------------
(* Properties.                                                             *)

OperatorAuthorizations ==
  [corporation : Corporations, operator : Operators, msgTypes : MsgTypeSets,
   limit : Nat, period : Nat, expiration : Nat]

ParticipantRecords ==
  [msgTypes : RecordMsgTypes, withFeegrant : BOOLEAN, expiration : Nat, period : Nat]

IsMap(m, Keys, Values(_)) ==
  /\ DOMAIN m \subseteq Keys
  /\ m = [k \in DOMAIN m |-> m[k]]
  /\ \A k \in DOMAIN m : Values(m[k])

\* Every store holds what its codec can encode.
TypeOK ==
  LET IsAuthorization(oa) == oa \in OperatorAuthorizations
      IsUsage(u) == u \in [remaining : Nat, lastReset : Nat]
      IsGrant(g) == g.expiration \in Nat /\ g.msgTypes # {}
      IsRecord(r) == r \in ParticipantRecords
      IsVSOA(v) == /\ v.corporation \in Corporations /\ v.operator \in Operators
                   /\ IsMap(v.records, Participants, IsRecord)
      IsId(id) == id \in Nat \ {0}
  IN  /\ now \in Nat \ {0} /\ oaSeq \in Nat /\ vsoaSeq \in Nat
      /\ IsMap(oas, Nat \ {0}, IsAuthorization)
      /\ IsMap(oaByCorpOp, Corporations \X Operators, IsId)
      /\ IsMap(usage, Nat \ {0}, IsUsage)
      /\ IsMap(feeGrants, Corporations \X Operators, IsGrant)
      /\ IsMap(vsoas, Nat \ {0}, IsVSOA)
      /\ IsMap(vsoaByCorpOp, Corporations \X Operators, IsId)
      /\ IsMap(vsoaByParticipant, Participants, IsId)

(***************************************************************************)
(* The stores agree: each index leads to the one authorization that has    *)
(* the key and each authorization is found by it, across grants, revokes   *)
(* and restarts that hand out the ids of deleted ones again.               *)
(***************************************************************************)
OAIndexAgrees ==
  /\ \A key \in DOMAIN oaByCorpOp :
       oaByCorpOp[key] \in DOMAIN oas /\ KeyOf(oas[oaByCorpOp[key]]) = key
  /\ \A id \in DOMAIN oas :
       KeyOf(oas[id]) \in DOMAIN oaByCorpOp /\ oaByCorpOp[KeyOf(oas[id])] = id
  /\ \A id \in DOMAIN oas : id <= oaSeq
  /\ DOMAIN usage \subseteq DOMAIN oas

VSOAIndexAgrees ==
  /\ \A key \in DOMAIN vsoaByCorpOp :
       vsoaByCorpOp[key] \in DOMAIN vsoas /\ KeyOf(vsoas[vsoaByCorpOp[key]]) = key
  /\ \A id \in DOMAIN vsoas :
       KeyOf(vsoas[id]) \in DOMAIN vsoaByCorpOp /\ vsoaByCorpOp[KeyOf(vsoas[id])] = id
  /\ \A id \in DOMAIN vsoas : id <= vsoaSeq

\* A participant has one record, in the authorization its index names, and an
\* authorization has at least one.
RecordsAgree ==
  /\ \A p \in DOMAIN vsoaByParticipant :
       /\ vsoaByParticipant[p] \in DOMAIN vsoas
       /\ p \in DOMAIN vsoas[vsoaByParticipant[p]].records
  /\ \A id \in DOMAIN vsoas :
       /\ vsoas[id].records # EmptyMap
       /\ \A p \in DOMAIN vsoas[id].records :
            p \in DOMAIN vsoaByParticipant /\ vsoaByParticipant[p] = id

StoresAgree == OAIndexAgrees /\ VSOAIndexAgrees /\ RecordsAgree

(***************************************************************************)
(* An account is never both an operator and a VS operator of a             *)
(* corporation (they would share the fee grant), and a VS operator serves  *)
(* one corporation.                                                        *)
(***************************************************************************)
OneKindOfAuthorization ==
  /\ DOMAIN oaByCorpOp \cap DOMAIN vsoaByCorpOp = {}
  /\ \A key1, key2 \in DOMAIN vsoaByCorpOp : key1[2] = key2[2] => key1 = key2

(***************************************************************************)
(* A fee grant never outlives what it was given for: it belongs to an      *)
(* operator authorization and expires with it, or to a VS operator         *)
(* authorization with a record that pays fees and lasts as long.           *)
(***************************************************************************)
BackedByOA(key) ==
  /\ Has(oaByCorpOp, key)
  /\ LET oa == oas[oaByCorpOp[key]]
     IN  feeGrants[key] = FeeGrant(oa.msgTypes, oa.expiration)

BackedByVSOA(key) ==
  /\ Has(vsoaByCorpOp, key)
  /\ LET records == vsoas[vsoaByCorpOp[key]].records
     IN  \E p \in DOMAIN records :
           /\ records[p].withFeegrant
           /\ InFuture(records[p].expiration, feeGrants[key].expiration - 1)

FeeGrantsBacked ==
  \A key \in DOMAIN feeGrants : BackedByOA(key) \/ BackedByVSOA(key)

(***************************************************************************)
(* An authorization that nobody grants again gets room to spend back only  *)
(* when its period has elapsed since the last reset, whatever the other    *)
(* operators do and however often the chain restarts.                      *)
(***************************************************************************)
SpendRoomReturnsWithThePeriod ==
  [][~Grants =>
       \A id \in DOMAIN usage \cap DOMAIN oas' :
         \/ /\ id \in DOMAIN usage'
            /\ usage'[id].remaining <= usage[id].remaining
            /\ usage'[id].lastReset = usage[id].lastReset
         \/ /\ oas[id].period > 0
            /\ now >= usage[id].lastReset + oas[id].period]_vars

(***************************************************************************)
(* The stores and their genesis implement Mandates.  Read by pair and by   *)
(* participant, every step grants, withdraws, draws, engages, dismisses,   *)
(* reschedules or renews one mandate, or changes none: ids handed out      *)
(* again, a row shared by several participants and a restart, with indexes *)
(* built anew, are not to be seen in who may do what.                      *)
(***************************************************************************)
TermsByPair == [key \in DOMAIN oaByCorpOp |-> oas[oaByCorpOp[key]]]

DrawnByPair ==
  [key \in {k \in DOMAIN oaByCorpOp : Has(usage, oaByCorpOp[k])} |-> usage[oaByCorpOp[key]]]

RecordByParticipant ==
  [p \in DOMAIN vsoaByParticipant |->
     LET vsoa == vsoas[vsoaByParticipant[p]]
     IN  [pair |-> KeyOf(vsoa), record |-> vsoa.records[p]]]

Mandates ==
  INSTANCE Mandates WITH
    Dates <- RecordExpirations \ {NoTime},
    authorized <- TermsByPair,
    drawn <- DrawnByPair,
    engaged <- RecordByParticipant

StoresAreMandates == Mandates!MandateSpec
=============================================================================
