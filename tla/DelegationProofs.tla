-------------------------- MODULE DelegationProofs --------------------------
(***************************************************************************)
(* Theorems about the authorizations of x/de, for any corporations,        *)
(* operators, participants, message types, limits, times and bounds.       *)
(*                                                                         *)
(* Both kinds of authorization are a map by id, an index by (corporation,  *)
(* operator) and a sequence, so the argument is made once, for any such    *)
(* three: what a grant, a revoke and a restart do to them.  The two kinds  *)
(* exclude each other because each grant looks at the index of the other   *)
(* kind, which is right as long as indexes and rows agree; so that both    *)
(* properties are inductive together.                                      *)
(***************************************************************************)
EXTENDS Delegation, LedgerLemmas

IsMapping(m) == m = [k \in DOMAIN m |-> m[k]]

-----------------------------------------------------------------------------
(* A map of authorizations, its index and its sequence.                    *)

IndexAgrees(m, index, seq) ==
  /\ \A key \in DOMAIN index : index[key] \in DOMAIN m /\ KeyOf(m[index[key]]) = key
  /\ \A id \in DOMAIN m : KeyOf(m[id]) \in DOMAIN index /\ index[KeyOf(m[id])] = id
  /\ \A id \in DOMAIN m : id <= seq

\* A grant: the id that the index has for the key, or the next one.
LEMMA IndexAfterGrant ==
  ASSUME NEW m, NEW index, NEW seq \in Nat, NEW v,
         DOMAIN m \subseteq Nat, IndexAgrees(m, index, seq)
  PROVE  LET id == IdFor(index, KeyOf(v), seq)
             next == IF id > seq THEN id ELSE seq
         IN  /\ id \in Nat /\ next \in Nat
             /\ DOMAIN Put(m, id, v) \subseteq Nat
             /\ IndexAgrees(Put(m, id, v), Put(index, KeyOf(v), id), next)
             /\ Has(index, KeyOf(v)) => id \in DOMAIN m /\ KeyOf(m[id]) = KeyOf(v)
             /\ ~Has(index, KeyOf(v)) => id \notin DOMAIN m
<1> DEFINE key == KeyOf(v)
           id == IdFor(index, key, seq)
           next == IF id > seq THEN id ELSE seq
           after == Put(m, id, v)
           indexed == Put(index, key, id)
<1>1. /\ \A k \in DOMAIN index : index[k] \in DOMAIN m /\ KeyOf(m[index[k]]) = k
      /\ \A i \in DOMAIN m : KeyOf(m[i]) \in DOMAIN index /\ index[KeyOf(m[i])] = i
      /\ \A i \in DOMAIN m : i <= seq /\ i \in Nat
  BY DEF IndexAgrees
<1>2. CASE Has(index, key)
  <2>1. id = index[key] /\ id \in DOMAIN m /\ KeyOf(m[id]) = key
    BY <1>1, <1>2 DEF IdFor, Has
  <2>2. next = seq /\ id \in Nat
    BY <1>1, <2>1
  <2>3. /\ DOMAIN after = DOMAIN m
        /\ \A i \in DOMAIN m : KeyOf(after[i]) = KeyOf(m[i])
        /\ DOMAIN indexed = DOMAIN index
        /\ \A k \in DOMAIN index : indexed[k] = index[k]
    BY <1>2, <2>1 DEF Put, Has
  <2> HIDE DEF key, id, next, after, indexed
  <2>4. IndexAgrees(after, indexed, next)
    BY <1>1, <2>2, <2>3 DEF IndexAgrees
  <2> QED BY <1>2, <2>1, <2>2, <2>3, <2>4 DEF key, id, next, after, indexed
<1>3. CASE ~Has(index, key)
  <2>1. id = seq + 1
    BY <1>3 DEF IdFor
  <2>2. next = id /\ id \in Nat /\ id \notin DOMAIN m
    BY <1>1, <2>1
  <2>3. /\ DOMAIN after = DOMAIN m \cup {id}
        /\ after[id] = v
        /\ \A i \in DOMAIN m : after[i] = m[i]
        /\ DOMAIN indexed = DOMAIN index \cup {key}
        /\ indexed[key] = id
        /\ \A k \in DOMAIN index : indexed[k] = index[k]
    BY <1>3, <2>2 DEF Put, Has
  <2>4. KeyOf(v) = key /\ key \notin DOMAIN index
    BY <1>3 DEF Has
  <2> HIDE DEF key, id, next, after, indexed
  <2>5. \A k \in DOMAIN indexed : indexed[k] \in DOMAIN after /\ KeyOf(after[indexed[k]]) = k
    BY <1>1, <2>3, <2>4
  <2>6. \A i \in DOMAIN after :
          KeyOf(after[i]) \in DOMAIN indexed /\ indexed[KeyOf(after[i])] = i
    BY <1>1, <2>3, <2>4
  <2>7. \A i \in DOMAIN after : i <= next /\ i \in Nat
    BY <1>1, <2>1, <2>2, <2>3
  <2>8. IndexAgrees(after, indexed, next)
    BY <2>5, <2>6, <2>7 DEF IndexAgrees
  <2>9. DOMAIN after \subseteq Nat
    BY <2>7
  <2> QED BY <1>3, <2>2, <2>8, <2>9 DEF key, id, next, after, indexed
<1> QED BY <1>2, <1>3

\* A revoke: the row and its entry go together.
LEMMA IndexAfterRevoke ==
  ASSUME NEW m, NEW index, NEW seq, NEW key \in DOMAIN index, IndexAgrees(m, index, seq)
  PROVE  IndexAgrees(Remove(m, index[key]), Remove(index, key), seq)
<1> DEFINE after == Remove(m, index[key])
           indexed == Remove(index, key)
<1>1. /\ DOMAIN after = DOMAIN m \ {index[key]}
      /\ \A i \in DOMAIN after : after[i] = m[i]
      /\ DOMAIN indexed = DOMAIN index \ {key}
      /\ \A k \in DOMAIN indexed : indexed[k] = index[k]
  BY DEF Remove
<1> HIDE DEF after, indexed
<1>2. IndexAgrees(after, indexed, seq)
  BY <1>1 DEF IndexAgrees
<1> QED BY <1>2 DEF after, indexed

\* A row that changes and keeps its key.
LEMMA IndexAfterChange ==
  ASSUME NEW m, NEW index, NEW seq, NEW id \in DOMAIN m, NEW v,
         KeyOf(v) = KeyOf(m[id]), IndexAgrees(m, index, seq)
  PROVE  IndexAgrees(Put(m, id, v), index, seq) /\ DOMAIN Put(m, id, v) = DOMAIN m
<1> DEFINE after == Put(m, id, v)
<1>1. DOMAIN after = DOMAIN m /\ \A i \in DOMAIN m : KeyOf(after[i]) = KeyOf(m[i])
  BY DEF Put
<1> HIDE DEF after
<1>2. IndexAgrees(after, index, seq)
  BY <1>1 DEF IndexAgrees
<1> QED BY <1>1, <1>2 DEF after

\* A restart: the index is built from the rows, the sequence from the last of them.
LEMMA IndexAfterRestart ==
  ASSUME NEW m, NEW index, NEW seq \in Nat, IsMapping(m),
         DOMAIN m \subseteq Nat, IndexAgrees(m, index, seq)
  PROVE  /\ IndexAgrees(m, CorpOpIndex(m), LastId(m))
         /\ LastId(m) \in Nat
         /\ DOMAIN CorpOpIndex(m) = DOMAIN index
<1> DEFINE built == CorpOpIndex(m)
<1>1. /\ \A k \in DOMAIN index : index[k] \in DOMAIN m /\ KeyOf(m[index[k]]) = k
      /\ \A i \in DOMAIN m : KeyOf(m[i]) \in DOMAIN index /\ index[KeyOf(m[i])] = i
      /\ \A i \in DOMAIN m : i <= seq
  BY DEF IndexAgrees
<1>2. DOMAIN built = {KeyOf(m[i]) : i \in DOMAIN m}
  BY DEF CorpOpIndex
<1>3. ASSUME NEW i \in DOMAIN m
      PROVE  built[KeyOf(m[i])] = i
  <2>1. {j \in DOMAIN m : KeyOf(m[j]) = KeyOf(m[i])} = {i}
    BY <1>1
  <2>2. Largest({i}) = i
    <3>1. i \in Nat
      OBVIOUS
    <3> QED BY <3>1 DEF Largest
  <2>3. built[KeyOf(m[i])] = Largest({j \in DOMAIN m : KeyOf(m[j]) = KeyOf(m[i])})
    BY DEF CorpOpIndex
  <2> QED BY <2>1, <2>2, <2>3
<1>4. LastId(m) \in Nat /\ \A i \in DOMAIN m : i <= LastId(m)
  <2>1. CASE m = EmptyMap
    BY <2>1 DEF LastId, EmptyMap
  <2>2. CASE m # EmptyMap /\ DOMAIN m # {}
    <3>1. Largest(DOMAIN m) \in DOMAIN m /\ \A i \in DOMAIN m : i <= Largest(DOMAIN m)
      BY <1>1, <2>2, LargestExists
    <3> QED BY <2>2, <3>1 DEF LastId
  <2>3. CASE DOMAIN m = {}
    <3>1. m = EmptyMap
      BY <2>3 DEF IsMapping, EmptyMap
    <3> QED BY <2>1, <3>1
  <2> QED BY <2>1, <2>2, <2>3
<1> HIDE DEF built
<1>5. DOMAIN built = DOMAIN index
  BY <1>1, <1>2
<1>6. IndexAgrees(m, built, LastId(m))
  BY <1>1, <1>2, <1>3, <1>4 DEF IndexAgrees
<1> QED BY <1>4, <1>5, <1>6 DEF built

-----------------------------------------------------------------------------
(* The inductive invariant.                                                *)

IsUsage(u) == u \in [remaining : Nat, lastReset : Nat]

OAInv ==
  /\ now \in Nat /\ oaSeq \in Nat
  /\ IsMapping(oas) /\ DOMAIN oas \subseteq Nat
  /\ \A id \in DOMAIN oas : oas[id] \in OperatorAuthorizations
  /\ IndexAgrees(oas, oaByCorpOp, oaSeq)
  /\ DOMAIN usage \subseteq DOMAIN oas
  /\ \A id \in DOMAIN usage : IsUsage(usage[id])

IsVSOA(v) ==
  /\ v = [corporation |-> v.corporation, operator |-> v.operator, records |-> v.records]
  /\ IsMapping(v.records)

VSOAInv ==
  /\ vsoaSeq \in Nat
  /\ IsMapping(vsoas) /\ DOMAIN vsoas \subseteq Nat
  /\ \A id \in DOMAIN vsoas : IsVSOA(vsoas[id])
  /\ IndexAgrees(vsoas, vsoaByCorpOp, vsoaSeq)
  /\ RecordsAgree

Inv == OAInv /\ VSOAInv /\ OneKindOfAuthorization

LEMMA InvAgrees == Inv => StoresAgree
BY DEF Inv, OAInv, VSOAInv, IndexAgrees, StoresAgree, OAIndexAgrees, VSOAIndexAgrees

\* Steps that touch neither kind, or one of them only.
LEMMA OAUntouched ==
  ASSUME OAInv, UNCHANGED <<now, oaVars>>
  PROVE  OAInv'
BY DEF OAInv, oaVars, IsMapping, IndexAgrees, IsUsage, OperatorAuthorizations, KeyOf

LEMMA VSOAUntouched ==
  ASSUME VSOAInv, UNCHANGED vsoaVars
  PROVE  VSOAInv'
BY DEF VSOAInv, vsoaVars, IsMapping, IndexAgrees, IsVSOA, RecordsAgree, KeyOf

\* Fewer keys cannot be in two indexes.
LEMMA FewerKeysOfOneKind ==
  ASSUME OneKindOfAuthorization,
         DOMAIN oaByCorpOp' \subseteq DOMAIN oaByCorpOp,
         DOMAIN vsoaByCorpOp' \subseteq DOMAIN vsoaByCorpOp
  PROVE  OneKindOfAuthorization'
BY DEF OneKindOfAuthorization

-----------------------------------------------------------------------------
(* Operator authorizations.                                                *)

GrantedAuthorizations ==
  [corporation : Corporations, operator : Operators, msgTypes : MsgTypeSets,
   limit : Limits, period : Periods, expiration : Expirations]

LEMMA GrantKeepsInv ==
  ASSUME Inv, NEW operator, NEW oa \in GrantedAuthorizations, NEW withFeegrant,
         GrantOperatorAuthorization(operator, oa, withFeegrant)
  PROVE  Inv'
<1> DEFINE key == KeyOf(oa)
           id == IdFor(oaByCorpOp, key, oaSeq)
           next == IF id > oaSeq THEN id ELSE oaSeq
<1>1. /\ oas' = Put(oas, id, oa)
      /\ oaByCorpOp' = Put(oaByCorpOp, key, id)
      /\ oaSeq' = next
      /\ usage' = Remove(usage, id)
      /\ ~Has(vsoaByCorpOp, key)
      /\ UNCHANGED <<now, vsoaVars>>
  BY DEF GrantOperatorAuthorization, MayGrant, UsageCleared, KeyOf
<1>2. /\ id \in Nat /\ next \in Nat
      /\ DOMAIN Put(oas, id, oa) \subseteq Nat
      /\ IndexAgrees(Put(oas, id, oa), Put(oaByCorpOp, key, id), next)
  BY IndexAfterGrant DEF Inv, OAInv
<1>3. oa \in OperatorAuthorizations
  BY DelegationAssumption DEF GrantedAuthorizations, OperatorAuthorizations
<1> HIDE DEF id, next, key
<1>4. /\ DOMAIN oas' = DOMAIN oas \cup {id} /\ oas'[id] = oa
      /\ \A i \in DOMAIN oas \ {id} : oas'[i] = oas[i]
      /\ IsMapping(oas')
      /\ DOMAIN usage' = DOMAIN usage \ {id}
      /\ \A i \in DOMAIN usage' : usage'[i] = usage[i]
  BY <1>1 DEF Put, Remove, IsMapping
<1>5. OAInv'
  <2>1. \A i \in DOMAIN oas' : oas'[i] \in OperatorAuthorizations
    BY <1>3, <1>4 DEF Inv, OAInv
  <2>2. DOMAIN usage' \subseteq DOMAIN oas' /\ \A i \in DOMAIN usage' : IsUsage(usage'[i])
    BY <1>4 DEF Inv, OAInv
  <2> QED BY <1>1, <1>2, <1>4, <2>1, <2>2
      DEF Inv, OAInv, IsMapping, IndexAgrees, IsUsage, OperatorAuthorizations, KeyOf
<1>6. VSOAInv'
  BY <1>1, VSOAUntouched DEF Inv
<1>7. OneKindOfAuthorization'
  <2>1. DOMAIN oaByCorpOp' = DOMAIN oaByCorpOp \cup {key}
    BY <1>1 DEF Put
  <2>2. vsoaByCorpOp' = vsoaByCorpOp /\ key \notin DOMAIN vsoaByCorpOp
    BY <1>1 DEF vsoaVars, Has
  <2> QED BY <2>1, <2>2 DEF Inv, OneKindOfAuthorization
<1> QED BY <1>5, <1>6, <1>7 DEF Inv

LEMMA RevokeKeepsInv ==
  ASSUME Inv, NEW corp, NEW operator, NEW grantee,
         RevokeOperatorAuthorization(corp, operator, grantee)
  PROVE  Inv'
<1> DEFINE key == <<corp, grantee>>
<1>1. /\ key \in DOMAIN oaByCorpOp
      /\ oas' = Remove(oas, oaByCorpOp[key])
      /\ oaByCorpOp' = Remove(oaByCorpOp, key)
      /\ usage' = Remove(usage, oaByCorpOp[key])
      /\ UNCHANGED <<now, oaSeq, vsoaVars>>
  BY DEF RevokeOperatorAuthorization, UsageCleared, Has
<1> HIDE DEF key
<1>2. IndexAgrees(oas', oaByCorpOp', oaSeq')
  <2>1. IndexAgrees(Remove(oas, oaByCorpOp[key]), Remove(oaByCorpOp, key), oaSeq)
    BY <1>1, IndexAfterRevoke DEF Inv, OAInv
  <2> QED BY <1>1, <2>1
<1>3. /\ DOMAIN oas' = DOMAIN oas \ {oaByCorpOp[key]}
      /\ \A i \in DOMAIN oas' : oas'[i] = oas[i]
      /\ IsMapping(oas')
      /\ DOMAIN usage' = DOMAIN usage \ {oaByCorpOp[key]}
      /\ \A i \in DOMAIN usage' : usage'[i] = usage[i]
      /\ DOMAIN oaByCorpOp' \subseteq DOMAIN oaByCorpOp
  BY <1>1 DEF Remove, IsMapping
<1>4. OAInv'
  BY <1>1, <1>2, <1>3 DEF Inv, OAInv, IsUsage, OperatorAuthorizations
<1>5. VSOAInv'
  BY <1>1, VSOAUntouched DEF Inv
<1>6. OneKindOfAuthorization'
  BY <1>1, <1>3, FewerKeysOfOneKind DEF Inv, vsoaVars
<1> QED BY <1>4, <1>5, <1>6 DEF Inv

\* What is left after a metered message: not less than nothing.
LEMMA RefilledTyped ==
  ASSUME OAInv, NEW id \in DOMAIN oas
  PROVE  /\ IsUsage(Refilled(id))
         /\ id \in DOMAIN usage =>
              \/ Refilled(id) = usage[id]
              \/ oas[id].period > 0 /\ now >= usage[id].lastReset + oas[id].period
<1>1. /\ oas[id].limit \in Nat /\ oas[id].period \in Nat /\ now \in Nat
      /\ id \in DOMAIN usage => IsUsage(usage[id])
  BY DEF OAInv, OperatorAuthorizations
<1>2. IsUsage([remaining |-> oas[id].limit, lastReset |-> now])
  BY <1>1 DEF IsUsage
<1>3. IsUsage(UsageOf(id)) /\ (id \in DOMAIN usage => UsageOf(id) = usage[id])
  BY <1>1, <1>2 DEF UsageOf, Has
<1>4. UsageOf(id).lastReset \in Nat
  BY <1>3 DEF IsUsage
<1> QED BY <1>1, <1>2, <1>3, <1>4 DEF Refilled

LEMMA SpendStep ==
  ASSUME Inv, NEW corp, NEW operator, NEW msgType, NEW spend \in Spends,
         SpendWithAuthorization(corp, operator, msgType, spend)
  PROVE  /\ UNCHANGED <<now, oas, oaByCorpOp, oaSeq, vsoaVars>>
         /\ \E id \in DOMAIN oas :
              /\ DOMAIN usage' = DOMAIN usage \cup {id}
              /\ \A i \in DOMAIN usage \ {id} : usage'[i] = usage[i]
              /\ IsUsage(usage'[id])
              /\ usage'[id].remaining <= Refilled(id).remaining
              /\ usage'[id].lastReset = Refilled(id).lastReset
<1> DEFINE id == oaByCorpOp[<<corp, operator>>]
           left == [Refilled(id) EXCEPT !.remaining = @ - spend]
<1>1. id \in DOMAIN oas
  BY DEF SpendWithAuthorization, HoldsAuthorization, Has, Inv, OAInv, IndexAgrees
<1>2. /\ Refilled(id).remaining >= spend
      /\ usage' = Put(usage, id, left)
      /\ UNCHANGED <<now, oas, oaByCorpOp, oaSeq, vsoaVars>>
  BY DEF SpendWithAuthorization
<1>3. IsUsage(Refilled(id))
  BY <1>1, RefilledTyped DEF Inv
<1>4. spend \in Nat
  BY DelegationAssumption
<1>5. /\ left.remaining = Refilled(id).remaining - spend
      /\ left.lastReset = Refilled(id).lastReset
      /\ IsUsage(left)
  BY <1>2, <1>3, <1>4 DEF IsUsage
<1>6. left.remaining <= Refilled(id).remaining
  BY <1>3, <1>4, <1>5 DEF IsUsage
<1> HIDE DEF left, id
<1>7. /\ DOMAIN usage' = DOMAIN usage \cup {id} /\ usage'[id] = left
      /\ \A i \in DOMAIN usage \ {id} : usage'[i] = usage[i]
  BY <1>2 DEF Put
<1> QED BY <1>1, <1>2, <1>5, <1>6, <1>7

LEMMA SpendKeepsInv ==
  ASSUME Inv, NEW corp, NEW operator, NEW msgType, NEW spend \in Spends,
         SpendWithAuthorization(corp, operator, msgType, spend)
  PROVE  Inv'
<1>1. UNCHANGED <<now, oas, oaByCorpOp, oaSeq, vsoaVars>>
  BY SpendStep
<1>2. DOMAIN usage' \subseteq DOMAIN oas /\ \A i \in DOMAIN usage' : IsUsage(usage'[i])
  BY SpendStep DEF Inv, OAInv
<1>3. OAInv'
  BY <1>1, <1>2 DEF Inv, OAInv, IsMapping, IndexAgrees, OperatorAuthorizations, KeyOf, IsUsage
<1>4. VSOAInv'
  BY <1>1, VSOAUntouched DEF Inv
<1>5. OneKindOfAuthorization'
  BY <1>1, FewerKeysOfOneKind DEF Inv, vsoaVars
<1> QED BY <1>3, <1>4, <1>5 DEF Inv

-----------------------------------------------------------------------------
(* VS operator authorizations.                                             *)

\* A record is added to the authorization of the key, or to a new one.
LEMMA GrantRecordKeepsInv ==
  ASSUME Inv, NEW corp, NEW operator, NEW participant, NEW record,
         GrantVSOperatorAuthorization(corp, operator, participant, record)
  PROVE  Inv'
<1> DEFINE key == <<corp, operator>>
           id == IdFor(vsoaByCorpOp, key, vsoaSeq)
           next == IF id > vsoaSeq THEN id ELSE vsoaSeq
           had == IF Has(vsoaByCorpOp, key) THEN vsoas[id].records ELSE EmptyMap
           records == Put(had, participant, record)
           vsoa == [corporation |-> corp, operator |-> operator, records |-> records]
<1>1. /\ vsoas' = Put(vsoas, id, vsoa)
      /\ vsoaByCorpOp' = Put(vsoaByCorpOp, key, id)
      /\ vsoaByParticipant' = Put(vsoaByParticipant, participant, id)
      /\ vsoaSeq' = next
      /\ MayRecord(corp, operator, participant)
      /\ UNCHANGED <<now, oaVars>>
  BY DEF GrantVSOperatorAuthorization
<1>2. KeyOf(vsoa) = key
  BY DEF KeyOf
<1>3. vsoa.records = records /\ IsVSOA(vsoa)
  BY DEF IsVSOA, IsMapping, Put
<1>4. /\ participant \in DOMAIN records
      /\ DOMAIN records = DOMAIN had \cup {participant}
  BY DEF Put
<1> HIDE DEF vsoa
<1>5. /\ id \in Nat /\ next \in Nat
      /\ DOMAIN Put(vsoas, id, vsoa) \subseteq Nat
      /\ IndexAgrees(Put(vsoas, id, vsoa), Put(vsoaByCorpOp, key, id), next)
      /\ Has(vsoaByCorpOp, key) => id \in DOMAIN vsoas
      /\ ~Has(vsoaByCorpOp, key) => id \notin DOMAIN vsoas
  BY <1>2, IndexAfterGrant DEF Inv, VSOAInv
<1>6. /\ participant \notin DOMAIN vsoaByParticipant
      /\ key \notin DOMAIN oaByCorpOp
      /\ \A i \in DOMAIN vsoas : vsoas[i].operator = operator => vsoas[i].corporation = corp
  BY <1>1 DEF MayRecord, Has
<1>7. /\ id \in DOMAIN vsoas => had = vsoas[id].records
      /\ id \notin DOMAIN vsoas => DOMAIN had = {}
  BY <1>5 DEF EmptyMap
<1> HIDE DEF records, had, id, next
<1>8. /\ DOMAIN vsoas' = DOMAIN vsoas \cup {id} /\ vsoas'[id] = vsoa
      /\ \A i \in DOMAIN vsoas \ {id} : vsoas'[i] = vsoas[i]
      /\ IsMapping(vsoas')
      /\ DOMAIN vsoaByCorpOp' = DOMAIN vsoaByCorpOp \cup {key}
      /\ DOMAIN vsoaByParticipant' = DOMAIN vsoaByParticipant \cup {participant}
      /\ vsoaByParticipant'[participant] = id
      /\ \A p \in DOMAIN vsoaByParticipant : vsoaByParticipant'[p] = vsoaByParticipant[p]
  BY <1>1, <1>6 DEF Put, IsMapping
<1>9. RecordsAgree'
  <2>0. RecordsAgree
    BY DEF Inv, VSOAInv
  <2>1. ASSUME NEW p \in DOMAIN vsoaByParticipant'
        PROVE  /\ vsoaByParticipant'[p] \in DOMAIN vsoas'
               /\ p \in DOMAIN vsoas'[vsoaByParticipant'[p]].records
    <3>1. CASE p = participant
      BY <1>3, <1>4, <1>8, <3>1
    <3>2. CASE p # participant
      <4>1. /\ p \in DOMAIN vsoaByParticipant
            /\ vsoaByParticipant'[p] = vsoaByParticipant[p]
            /\ vsoaByParticipant[p] \in DOMAIN vsoas
            /\ p \in DOMAIN vsoas[vsoaByParticipant[p]].records
        BY <1>8, <2>0, <3>2 DEF RecordsAgree
      <4>2. CASE vsoaByParticipant[p] = id
        BY <1>3, <1>4, <1>7, <1>8, <4>1, <4>2
      <4>3. CASE vsoaByParticipant[p] # id
        BY <1>8, <4>1, <4>3
      <4> QED BY <4>2, <4>3
    <3> QED BY <3>1, <3>2
  <2>2. ASSUME NEW i \in DOMAIN vsoas'
        PROVE  /\ vsoas'[i].records # EmptyMap
               /\ \A p \in DOMAIN vsoas'[i].records :
                    p \in DOMAIN vsoaByParticipant' /\ vsoaByParticipant'[p] = i
    <3>1. CASE i = id
      <4>1. vsoas'[i].records = records
        BY <1>3, <1>8, <3>1
      <4>2. records # EmptyMap
        BY <1>4 DEF EmptyMap
      <4>3. ASSUME NEW p \in DOMAIN records
            PROVE  p \in DOMAIN vsoaByParticipant' /\ vsoaByParticipant'[p] = i
        BY <1>4, <1>7, <1>8, <2>0, <3>1 DEF RecordsAgree
      <4> QED BY <4>1, <4>2, <4>3
    <3>2. CASE i # id
      BY <1>8, <2>0, <3>2 DEF RecordsAgree
    <3> QED BY <3>1, <3>2
  <2> QED BY <2>1, <2>2 DEF RecordsAgree
<1>10. VSOAInv'
  <2>1. \A i \in DOMAIN vsoas' : IsVSOA(vsoas'[i])
    BY <1>3, <1>8 DEF Inv, VSOAInv
  <2>2. IndexAgrees(vsoas', vsoaByCorpOp', vsoaSeq') /\ DOMAIN vsoas' \subseteq Nat
    BY <1>1, <1>5
  <2> QED BY <1>1, <1>5, <1>8, <1>9, <2>1, <2>2 DEF VSOAInv
<1>11. OAInv'
  BY <1>1, OAUntouched DEF Inv
<1>12. OneKindOfAuthorization'
  <2>1. DOMAIN oaByCorpOp' = DOMAIN oaByCorpOp
    BY <1>1 DEF oaVars
  <2>2. ASSUME NEW k \in DOMAIN vsoaByCorpOp, k[2] = operator
        PROVE  k = key
    <3>1. /\ vsoaByCorpOp[k] \in DOMAIN vsoas
          /\ KeyOf(vsoas[vsoaByCorpOp[k]]) = k
      BY DEF Inv, VSOAInv, IndexAgrees
    <3> QED BY <1>6, <2>2, <3>1 DEF KeyOf
  <2>3. key[2] = operator
    OBVIOUS
  <2> HIDE DEF key
  <2>4. DOMAIN oaByCorpOp' \cap DOMAIN vsoaByCorpOp' = {}
    BY <1>6, <1>8, <2>1 DEF Inv, OneKindOfAuthorization
  <2>5. \A k1, k2 \in DOMAIN vsoaByCorpOp' : k1[2] = k2[2] => k1 = k2
    BY <1>8, <2>2, <2>3 DEF Inv, OneKindOfAuthorization
  <2> QED BY <2>4, <2>5 DEF OneKindOfAuthorization
<1> QED BY <1>10, <1>11, <1>12 DEF Inv

\* An authorization keeps its other records, or goes with its last one.
LEMMA RevokeRecordKeepsInv ==
  ASSUME Inv, NEW participant, RevokeVSOperatorAuthorization(participant)
  PROVE  Inv'
<1>1. CASE participant \notin DOMAIN vsoaByParticipant
  <2>1. UNCHANGED vars
    BY <1>1 DEF RevokeVSOperatorAuthorization, Has
  <2>2. UNCHANGED <<now, oaVars>> /\ UNCHANGED vsoaVars
    BY <2>1 DEF vars, deVars
  <2>3. OneKindOfAuthorization'
    BY <2>2, FewerKeysOfOneKind DEF Inv, oaVars, vsoaVars
  <2> QED BY <2>2, <2>3, OAUntouched, VSOAUntouched DEF Inv
<1>2. CASE participant \in DOMAIN vsoaByParticipant
  <2> DEFINE id == vsoaByParticipant[participant]
             vsoa == vsoas[id]
             records == Remove(vsoa.records, participant)
             key == KeyOf(vsoa)
             left == [vsoa EXCEPT !.records = records]
  <2>1. /\ vsoas' = IF records = EmptyMap THEN Remove(vsoas, id) ELSE Put(vsoas, id, left)
        /\ vsoaByCorpOp' = IF records = EmptyMap THEN Remove(vsoaByCorpOp, key)
                           ELSE vsoaByCorpOp
        /\ vsoaByParticipant' = Remove(vsoaByParticipant, participant)
        /\ UNCHANGED <<now, oaVars, vsoaSeq>>
    BY <1>2 DEF RevokeVSOperatorAuthorization, VSOAIndexAfter, Has, KeyOf
  <2>2. /\ id \in DOMAIN vsoas /\ participant \in DOMAIN vsoa.records
        /\ IsVSOA(vsoa)
        /\ key \in DOMAIN vsoaByCorpOp /\ vsoaByCorpOp[key] = id
    BY <1>2 DEF Inv, VSOAInv, RecordsAgree, IndexAgrees
  <2>3. KeyOf(left) = key /\ left.records = records /\ IsVSOA(left)
    <3>1. vsoa = [corporation |-> vsoa.corporation, operator |-> vsoa.operator,
                  records |-> vsoa.records]
      BY <2>2 DEF IsVSOA
    <3>2. left = [corporation |-> vsoa.corporation, operator |-> vsoa.operator,
                  records |-> records]
      BY <3>1
    <3>3. IsMapping(records)
      BY DEF IsMapping, Remove
    <3> HIDE DEF left, records
    <3> QED BY <3>2, <3>3 DEF IsVSOA, KeyOf
  <2>4. /\ DOMAIN records = DOMAIN vsoa.records \ {participant}
        /\ DOMAIN vsoaByParticipant' = DOMAIN vsoaByParticipant \ {participant}
        /\ \A p \in DOMAIN vsoaByParticipant' : vsoaByParticipant'[p] = vsoaByParticipant[p]
    BY <2>1 DEF Remove
  <2>5. RecordsAgree
    BY DEF Inv, VSOAInv
  <2> HIDE DEF left, records, key
  <2>6. VSOAInv'
    <3>1. CASE records = EmptyMap
      <4>1. /\ DOMAIN vsoas' = DOMAIN vsoas \ {id}
            /\ \A i \in DOMAIN vsoas' : vsoas'[i] = vsoas[i]
            /\ IsMapping(vsoas')
        BY <2>1, <3>1 DEF Remove, IsMapping
      <4>2. IndexAgrees(vsoas', vsoaByCorpOp', vsoaSeq')
        <5>1. IndexAgrees(Remove(vsoas, vsoaByCorpOp[key]), Remove(vsoaByCorpOp, key), vsoaSeq)
          BY <2>2, IndexAfterRevoke DEF Inv, VSOAInv
        <5> QED BY <2>1, <2>2, <3>1, <5>1
      <4>3. DOMAIN records = {}
        BY <3>1 DEF EmptyMap
      <4>4. \A p \in DOMAIN vsoaByParticipant' : vsoaByParticipant[p] # id
        BY <2>4, <2>5, <4>3 DEF RecordsAgree
      <4>5. RecordsAgree'
        BY <2>4, <2>5, <4>1, <4>4 DEF RecordsAgree
      <4>6. \A i \in DOMAIN vsoas' : IsVSOA(vsoas'[i])
        BY <4>1 DEF Inv, VSOAInv
      <4> QED BY <2>1, <4>1, <4>2, <4>5, <4>6 DEF Inv, VSOAInv
    <3>2. CASE records # EmptyMap
      <4>1. /\ DOMAIN vsoas' = DOMAIN vsoas
            /\ vsoas'[id] = left
            /\ \A i \in DOMAIN vsoas \ {id} : vsoas'[i] = vsoas[i]
            /\ IsMapping(vsoas')
        BY <2>1, <2>2, <3>2 DEF Put, IsMapping
      <4>2. IndexAgrees(vsoas', vsoaByCorpOp', vsoaSeq')
        <5>1. KeyOf(left) = KeyOf(vsoas[id])
          BY <2>3 DEF key
        <5>2. IndexAgrees(Put(vsoas, id, left), vsoaByCorpOp, vsoaSeq)
          BY <2>2, <5>1, IndexAfterChange DEF Inv, VSOAInv
        <5> QED BY <2>1, <3>2, <5>2
      <4>3. RecordsAgree'
        <5>1. \A p \in DOMAIN vsoaByParticipant' :
                /\ vsoaByParticipant'[p] \in DOMAIN vsoas'
                /\ p \in DOMAIN vsoas'[vsoaByParticipant'[p]].records
          BY <2>3, <2>4, <2>5, <4>1 DEF RecordsAgree
        <5>2. \A i \in DOMAIN vsoas' :
                /\ vsoas'[i].records # EmptyMap
                /\ \A p \in DOMAIN vsoas'[i].records :
                     p \in DOMAIN vsoaByParticipant' /\ vsoaByParticipant'[p] = i
          BY <2>2, <2>3, <2>4, <2>5, <3>2, <4>1 DEF RecordsAgree
        <5> QED BY <5>1, <5>2 DEF RecordsAgree
      <4>4. \A i \in DOMAIN vsoas' : IsVSOA(vsoas'[i])
        BY <2>3, <4>1 DEF Inv, VSOAInv
      <4> QED BY <2>1, <4>1, <4>2, <4>3, <4>4 DEF Inv, VSOAInv
    <3> QED BY <3>1, <3>2
  <2>7. OAInv'
    BY <2>1, OAUntouched DEF Inv
  <2>8. OneKindOfAuthorization'
    <3>1. DOMAIN vsoaByCorpOp' \subseteq DOMAIN vsoaByCorpOp
      BY <2>1 DEF Remove
    <3> QED BY <2>1, <3>1, FewerKeysOfOneKind DEF Inv, oaVars
  <2> QED BY <2>6, <2>7, <2>8 DEF Inv
<1> QED BY <1>1, <1>2

\* A change of an authorization that keeps whose it is and whom it has records of.
LEMMA SameRecordsKeepInv ==
  ASSUME Inv, NEW id \in DOMAIN vsoas, NEW x, IsVSOA(x),
         KeyOf(x) = KeyOf(vsoas[id]), DOMAIN x.records = DOMAIN vsoas[id].records,
         vsoas' = Put(vsoas, id, x),
         UNCHANGED <<now, oaVars, vsoaByCorpOp, vsoaByParticipant, vsoaSeq>>
  PROVE  Inv'
<1>1. /\ DOMAIN vsoas' = DOMAIN vsoas
      /\ vsoas'[id] = x
      /\ \A i \in DOMAIN vsoas \ {id} : vsoas'[i] = vsoas[i]
      /\ IsMapping(vsoas')
  BY DEF Put, IsMapping
<1>2. IndexAgrees(vsoas', vsoaByCorpOp', vsoaSeq')
  <2>1. IndexAgrees(Put(vsoas, id, x), vsoaByCorpOp, vsoaSeq)
    BY IndexAfterChange DEF Inv, VSOAInv
  <2> QED BY <2>1
<1>3. RecordsAgree'
  <2>1. RecordsAgree
    BY DEF Inv, VSOAInv
  <2>2. x.records # EmptyMap
    <3>1. PICK p : p \in DOMAIN vsoas[id].records
      <4>1. vsoas[id].records # EmptyMap /\ IsMapping(vsoas[id].records)
        BY <2>1 DEF Inv, VSOAInv, IsVSOA, RecordsAgree
      <4>2. DOMAIN vsoas[id].records # {}
        BY <4>1 DEF IsMapping, EmptyMap
      <4> QED BY <4>2
    <3> QED BY <3>1 DEF EmptyMap
  <2> QED BY <1>1, <2>1, <2>2 DEF RecordsAgree
<1>4. \A i \in DOMAIN vsoas' : IsVSOA(vsoas'[i])
  BY <1>1 DEF Inv, VSOAInv
<1>5. VSOAInv'
  BY <1>1, <1>2, <1>3, <1>4 DEF Inv, VSOAInv
<1>6. OneKindOfAuthorization'
  BY FewerKeysOfOneKind DEF Inv, oaVars
<1> QED BY <1>5, <1>6, OAUntouched DEF Inv

LEMMA UpdateRecordKeepsInv ==
  ASSUME Inv, NEW participant, NEW expiration,
         UpdateVSOperatorAuthorizationExpiration(participant, expiration)
  PROVE  Inv'
<1>1. CASE participant \notin DOMAIN vsoaByParticipant
  <2>1. UNCHANGED vars
    BY <1>1 DEF UpdateVSOperatorAuthorizationExpiration, Has
  <2>2. UNCHANGED <<now, oaVars>> /\ UNCHANGED vsoaVars
    BY <2>1 DEF vars, deVars
  <2>3. OneKindOfAuthorization'
    BY <2>2, FewerKeysOfOneKind DEF Inv, oaVars, vsoaVars
  <2> QED BY <2>2, <2>3, OAUntouched, VSOAUntouched DEF Inv
<1>2. CASE participant \in DOMAIN vsoaByParticipant
  <2> DEFINE id == vsoaByParticipant[participant]
             vsoa == vsoas[id]
             records == [vsoa.records EXCEPT ![participant].expiration = expiration]
             x == [vsoa EXCEPT !.records = records]
  <2>1. /\ vsoas' = Put(vsoas, id, x)
        /\ UNCHANGED <<now, oaVars, vsoaByCorpOp, vsoaByParticipant, vsoaSeq>>
    BY <1>2 DEF UpdateVSOperatorAuthorizationExpiration, Has
  <2>2. id \in DOMAIN vsoas /\ IsVSOA(vsoa)
    BY <1>2 DEF Inv, VSOAInv, RecordsAgree
  <2>3. IsMapping(records) /\ DOMAIN records = DOMAIN vsoa.records
    BY DEF IsMapping
  <2> HIDE DEF records
  <2>4. x = [corporation |-> vsoa.corporation, operator |-> vsoa.operator,
             records |-> records]
    <3>1. vsoa = [corporation |-> vsoa.corporation, operator |-> vsoa.operator,
                  records |-> vsoa.records]
      BY <2>2 DEF IsVSOA
    <3> QED BY <3>1
  <2> HIDE DEF x
  <2>5. IsVSOA(x) /\ KeyOf(x) = KeyOf(vsoa) /\ DOMAIN x.records = DOMAIN vsoa.records
    BY <2>3, <2>4 DEF IsVSOA, KeyOf
  <2> QED BY <2>1, <2>2, <2>5, SameRecordsKeepInv
<1> QED BY <1>1, <1>2

\* The check may start another period of the record.
LEMMA CheckKeepsInv ==
  ASSUME Inv, NEW corp, NEW operator, NEW participant, NEW msgType,
         CheckVSOperatorAuthorizationOnParticipant(corp, operator, participant, msgType)
  PROVE  Inv'
<1> DEFINE id == vsoaByParticipant[participant]
           vsoa == vsoas[id]
           record == vsoa.records[participant]
           records == [vsoa.records EXCEPT ![participant].expiration = now + record.period]
           x == [vsoa EXCEPT !.records = records]
<1>1. /\ participant \in DOMAIN vsoaByParticipant
      /\ UNCHANGED <<now, oaVars, vsoaByCorpOp, vsoaByParticipant, vsoaSeq>>
      /\ \/ UNCHANGED vsoas
         \/ vsoas' = [vsoas EXCEPT ![id].records[participant].expiration =
                                     now + record.period]
  BY DEF CheckVSOperatorAuthorizationOnParticipant, Has
<1>2. CASE UNCHANGED vsoas
  <2>1. UNCHANGED <<now, oaVars>> /\ UNCHANGED vsoaVars
    BY <1>1, <1>2 DEF vsoaVars
  <2>2. OneKindOfAuthorization'
    BY <2>1, FewerKeysOfOneKind DEF Inv, oaVars, vsoaVars
  <2> QED BY <2>1, <2>2, OAUntouched, VSOAUntouched DEF Inv
<1>3. CASE vsoas' = [vsoas EXCEPT ![id].records[participant].expiration =
                                    now + record.period]
  <2>1. id \in DOMAIN vsoas /\ IsVSOA(vsoa) /\ IsMapping(vsoas)
    BY <1>1 DEF Inv, VSOAInv, RecordsAgree
  <2>2. IsMapping(records) /\ DOMAIN records = DOMAIN vsoa.records
    BY DEF IsMapping
  <2>3. vsoas' = [vsoas EXCEPT ![id] = x]
    BY <1>3
  <2> HIDE DEF records
  <2>4. x = [corporation |-> vsoa.corporation, operator |-> vsoa.operator,
             records |-> records]
    <3>1. vsoa = [corporation |-> vsoa.corporation, operator |-> vsoa.operator,
                  records |-> vsoa.records]
      BY <2>1 DEF IsVSOA
    <3> QED BY <3>1
  <2> HIDE DEF x
  <2>5. IsVSOA(x) /\ KeyOf(x) = KeyOf(vsoa) /\ DOMAIN x.records = DOMAIN vsoa.records
    BY <2>2, <2>4 DEF IsVSOA, KeyOf
  <2>6. vsoas' = Put(vsoas, id, x)
    BY <2>1, <2>3 DEF Put, IsMapping
  <2> QED BY <1>1, <2>1, <2>5, <2>6, SameRecordsKeepInv
<1> QED BY <1>1, <1>2, <1>3

-----------------------------------------------------------------------------
(* Restarts, time, and every step.                                         *)

\* The index of the participants is built from the records: each is in one
\* authorization, so nothing is lost.
LEMMA RestartKeepsInv ==
  ASSUME Inv, RestartFromGenesis
  PROVE  Inv'
<1>1. /\ oaByCorpOp' = CorpOpIndex(oas) /\ oaSeq' = LastId(oas)
      /\ vsoaByCorpOp' = CorpOpIndex(vsoas) /\ vsoaSeq' = LastId(vsoas)
      /\ vsoaByParticipant' = ParticipantIndex
      /\ UNCHANGED <<now, oas, usage, vsoas>>
  BY DEF RestartFromGenesis, UsageExported
<1>2. /\ IndexAgrees(oas, CorpOpIndex(oas), LastId(oas))
      /\ LastId(oas) \in Nat
      /\ DOMAIN CorpOpIndex(oas) = DOMAIN oaByCorpOp
  BY IndexAfterRestart DEF Inv, OAInv
<1>3. /\ IndexAgrees(vsoas, CorpOpIndex(vsoas), LastId(vsoas))
      /\ LastId(vsoas) \in Nat
      /\ DOMAIN CorpOpIndex(vsoas) = DOMAIN vsoaByCorpOp
  BY IndexAfterRestart DEF Inv, VSOAInv
<1>4. OAInv'
  BY <1>1, <1>2 DEF Inv, OAInv
<1>5. RecordsAgree'
  <2>1. RecordsAgree /\ DOMAIN vsoas \subseteq Nat
    BY DEF Inv, VSOAInv
  <2>2. DOMAIN ParticipantIndex = UNION {DOMAIN vsoas[id].records : id \in DOMAIN vsoas}
    BY DEF ParticipantIndex
  <2>3. ASSUME NEW id \in DOMAIN vsoas, NEW p \in DOMAIN vsoas[id].records
        PROVE  p \in DOMAIN ParticipantIndex /\ ParticipantIndex[p] = id
    <3>1. {i \in DOMAIN vsoas : p \in DOMAIN vsoas[i].records} = {id}
      BY <2>1 DEF RecordsAgree
    <3>2. Largest({id}) = id
      <4>1. id \in Nat
        BY <2>1
      <4> QED BY <4>1 DEF Largest
    <3>3. p \in DOMAIN ParticipantIndex
      BY <2>2
    <3>4. ParticipantIndex[p]
            = Largest({i \in DOMAIN vsoas : p \in DOMAIN vsoas[i].records})
      BY <2>2, <3>3 DEF ParticipantIndex
    <3> QED BY <3>1, <3>2, <3>3, <3>4
  <2>4. ASSUME NEW p \in DOMAIN ParticipantIndex
        PROVE  /\ ParticipantIndex[p] \in DOMAIN vsoas
               /\ p \in DOMAIN vsoas[ParticipantIndex[p]].records
    <3>1. PICK id \in DOMAIN vsoas : p \in DOMAIN vsoas[id].records
      BY <2>2
    <3> QED BY <2>3, <3>1
  <2> QED BY <1>1, <2>1, <2>3, <2>4 DEF RecordsAgree
<1>6. VSOAInv'
  BY <1>1, <1>3, <1>5 DEF Inv, VSOAInv
<1>7. OneKindOfAuthorization'
  BY <1>1, <1>2, <1>3, FewerKeysOfOneKind DEF Inv
<1> QED BY <1>4, <1>6, <1>7 DEF Inv

LEMMA TickKeepsInv ==
  ASSUME Inv, Tick
  PROVE  Inv'
<1>1. now' = now + 1 /\ UNCHANGED oaVars /\ UNCHANGED vsoaVars
  BY DEF Tick, deVars
<1>2. OAInv'
  BY <1>1 DEF Inv, OAInv, oaVars, IsMapping, IndexAgrees, IsUsage,
              OperatorAuthorizations, KeyOf
<1>3. OneKindOfAuthorization'
  BY <1>1, FewerKeysOfOneKind DEF Inv, oaVars, vsoaVars
<1> QED BY <1>1, <1>2, <1>3, VSOAUntouched DEF Inv

LEMMA DelegationBegins == Init => Inv
<1> SUFFICES ASSUME Init PROVE Inv
  OBVIOUS
<1>1. DOMAIN EmptyMap = {} /\ IsMapping(EmptyMap)
  BY DEF EmptyMap, IsMapping
<1>2. OAInv
  BY <1>1 DEF Init, DelegationInit, OAInv, IndexAgrees
<1>3. VSOAInv
  BY <1>1 DEF Init, DelegationInit, VSOAInv, IndexAgrees, RecordsAgree
<1>4. OneKindOfAuthorization
  BY <1>1 DEF Init, DelegationInit, OneKindOfAuthorization
<1> QED BY <1>2, <1>3, <1>4 DEF Inv

LEMMA NextKeepsInv ==
  ASSUME Inv, [Next]_vars
  PROVE  Inv'
<1>1. CASE Grants
  <2>1. PICK operator \in Operators \cup {NoOperator}, withFeegrant \in BOOLEAN,
             oa \in GrantedAuthorizations :
               GrantOperatorAuthorization(operator, oa, withFeegrant)
    BY <1>1 DEF Grants, GrantedAuthorizations
  <2> QED BY <2>1, GrantKeepsInv
<1>2. CASE Revokes
  BY <1>2, RevokeKeepsInv DEF Revokes
<1>3. CASE MeteredMessages
  BY <1>3, SpendKeepsInv DEF MeteredMessages
<1>4. CASE ParticipantCalls
  BY <1>4, GrantRecordKeepsInv, CheckKeepsInv, RevokeRecordKeepsInv, UpdateRecordKeepsInv
     DEF ParticipantCalls
<1>5. CASE RestartFromGenesis
  BY <1>5, RestartKeepsInv
<1>6. CASE Tick
  BY <1>6, TickKeepsInv
<1>7. CASE UNCHANGED vars
  <2>1. UNCHANGED <<now, oaVars>> /\ UNCHANGED vsoaVars
    BY <1>7 DEF vars, deVars
  <2>2. OneKindOfAuthorization'
    BY <2>1, FewerKeysOfOneKind DEF Inv, oaVars, vsoaVars
  <2> QED BY <2>1, <2>2, OAUntouched, VSOAUntouched DEF Inv
<1> QED BY <1>1, <1>2, <1>3, <1>4, <1>5, <1>6, <1>7 DEF Next

LEMMA DelegationInvariant == Spec => []Inv
<1>1. Init => Inv
  BY DelegationBegins
<1>2. Inv /\ [Next]_vars => Inv'
  BY NextKeepsInv
<1> QED BY <1>1, <1>2, PTL DEF Spec

-----------------------------------------------------------------------------
(***************************************************************************)
(* The indexes, the rows and the records of x/de agree in every reachable  *)
(* state, whatever is granted, revoked and recorded in whatever order, and *)
(* however often the chain restarts from a genesis that leaves the indexes *)
(* out and hands out the ids of deleted authorizations again.              *)
(***************************************************************************)
THEOREM StoresStayInAgreement == Spec => []StoresAgree
<1>1. Inv => StoresAgree
  BY InvAgrees
<1> QED BY <1>1, DelegationInvariant, PTL

(***************************************************************************)
(* No account is ever both an operator and a VS operator of a corporation, *)
(* and none is a VS operator of two.  Each grant looks at the index of the *)
(* other kind only, and a restart builds both indexes anew.                *)
(***************************************************************************)
THEOREM KindsExclude == Spec => []OneKindOfAuthorization
<1>1. Inv => OneKindOfAuthorization
  BY DEF Inv
<1> QED BY <1>1, DelegationInvariant, PTL

\* Metered messages take from the room to spend, a revoke takes it away, and no
\* other handler but a grant touches it.
LEMMA SpendRoomStep ==
  ASSUME Inv, [Next]_vars, ~Grants, NEW id \in DOMAIN usage \cap DOMAIN oas'
  PROVE  \/ /\ id \in DOMAIN usage'
            /\ usage'[id].remaining <= usage[id].remaining
            /\ usage'[id].lastReset = usage[id].lastReset
         \/ /\ oas[id].period > 0
            /\ now >= usage[id].lastReset + oas[id].period
<1>1. IsUsage(usage[id]) /\ id \in DOMAIN oas
  BY DEF Inv, OAInv
<1>2. usage[id].remaining \in Nat
  BY <1>1 DEF IsUsage
<1>3. CASE UNCHANGED usage
  BY <1>2, <1>3
<1>4. CASE Revokes
  <2>1. PICK corp \in Corporations, operator \in Operators \cup {NoOperator},
             grantee \in Operators : RevokeOperatorAuthorization(corp, operator, grantee)
    BY <1>4 DEF Revokes
  <2>2. /\ oas' = Remove(oas, oaByCorpOp[<<corp, grantee>>])
        /\ usage' = Remove(usage, oaByCorpOp[<<corp, grantee>>])
    BY <2>1 DEF RevokeOperatorAuthorization, UsageCleared
  <2>3. id \in DOMAIN usage' /\ usage'[id] = usage[id]
    BY <2>2 DEF Remove
  <2> QED BY <1>2, <2>3
<1>5. CASE MeteredMessages
  <2>1. PICK spend \in Spends :
          \E corp, operator, msgType : SpendWithAuthorization(corp, operator, msgType, spend)
    BY <1>5 DEF MeteredMessages
  <2>2. PICK spent \in DOMAIN oas :
          /\ DOMAIN usage' = DOMAIN usage \cup {spent}
          /\ \A i \in DOMAIN usage \ {spent} : usage'[i] = usage[i]
          /\ usage'[spent].remaining <= Refilled(spent).remaining
          /\ usage'[spent].lastReset = Refilled(spent).lastReset
    BY <2>1, SpendStep
  <2>3. CASE id # spent
    BY <1>2, <2>2, <2>3
  <2>4. CASE id = spent
    BY <1>1, <2>2, <2>4, RefilledTyped DEF Inv
  <2> QED BY <2>3, <2>4
<1>6. CASE ParticipantCalls
  <2>1. \A corp, operator, participant, record :
          GrantVSOperatorAuthorization(corp, operator, participant, record) => UNCHANGED usage
    BY DEF GrantVSOperatorAuthorization, oaVars
  <2>2. \A corp, operator, participant, msgType :
          CheckVSOperatorAuthorizationOnParticipant(corp, operator, participant, msgType)
            => UNCHANGED oaVars
    BY Zenon DEF CheckVSOperatorAuthorizationOnParticipant
  <2>3. \A participant : RevokeVSOperatorAuthorization(participant) => UNCHANGED usage
    BY DEF RevokeVSOperatorAuthorization, oaVars, vars, deVars
  <2>4. \A participant, expiration :
          UpdateVSOperatorAuthorizationExpiration(participant, expiration)
            => UNCHANGED usage
    BY DEF UpdateVSOperatorAuthorizationExpiration, oaVars, vars, deVars
  <2>5. UNCHANGED oaVars => UNCHANGED usage
    BY DEF oaVars
  <2>6. UNCHANGED usage
    BY <1>6, <2>1, <2>2, <2>3, <2>4, <2>5 DEF ParticipantCalls
  <2> QED BY <1>3, <2>6
<1>7. CASE RestartFromGenesis
  BY <1>3, <1>7 DEF RestartFromGenesis, UsageExported
<1>8. CASE Tick \/ UNCHANGED vars
  <2>1. UNCHANGED usage
    BY <1>8 DEF Tick, vars, deVars, oaVars
  <2> QED BY <1>3, <2>1
<1> QED BY <1>4, <1>5, <1>6, <1>7, <1>8 DEF Next

(***************************************************************************)
(* The room to spend of an authorization that nobody grants again comes    *)
(* back only when its period has elapsed since the last reset, whatever    *)
(* messages of x/de and calls of x/pp come between, and across restarts.   *)
(***************************************************************************)
THEOREM SpendRoomHolds == Spec => SpendRoomReturnsWithThePeriod
<1>1. Inv /\ [Next]_vars =>
        [~Grants =>
           \A id \in DOMAIN usage \cap DOMAIN oas' :
             \/ /\ id \in DOMAIN usage'
                /\ usage'[id].remaining <= usage[id].remaining
                /\ usage'[id].lastReset = usage[id].lastReset
             \/ /\ oas[id].period > 0
                /\ now >= usage[id].lastReset + oas[id].period]_vars
  BY SpendRoomStep
<1> QED BY <1>1, DelegationInvariant, PTL DEF Spec, SpendRoomReturnsWithThePeriod

-----------------------------------------------------------------------------
(* Fee grants.                                                             *)

\* The records of an authorization; since their number is not bounded here, that
\* some time is after all of them is part of what has to be kept.
RecordsTyped(records) ==
  /\ DOMAIN records \subseteq Participants
  /\ \A p \in DOMAIN records : records[p] \in ParticipantRecords
  /\ \E latest \in Nat : \A p \in DOMAIN records : records[p].expiration <= latest

StoresTyped ==
  /\ now # 0 /\ 0 \notin DOMAIN oas /\ 0 \notin DOMAIN vsoas
  /\ IsMapping(oaByCorpOp) /\ IsMapping(usage) /\ IsMapping(feeGrants)
  /\ IsMapping(vsoaByCorpOp) /\ IsMapping(vsoaByParticipant)
  /\ \A id \in DOMAIN vsoas :
       /\ vsoas[id].corporation \in Corporations /\ vsoas[id].operator \in Operators
       /\ RecordsTyped(vsoas[id].records)
  /\ \A key \in DOMAIN feeGrants :
       feeGrants[key].expiration \in Nat /\ feeGrants[key].msgTypes # {}

GrantsInv == Inv /\ StoresTyped /\ FeeGrantsBacked

\* A grant that these records pay for.
Backs(records, grant) ==
  \E p \in DOMAIN records :
    records[p].withFeegrant /\ InFuture(records[p].expiration, grant.expiration - 1)

\* The grant of the records that pay fees is as good as the longest of them.
LEMMA RecomputeBacks ==
  ASSUME now \in Nat, NEW key, NEW records, RecordsTyped(records),
         IsMapping(feeGrants), RecomputeFeeAllowance(key, records)
  PROVE  /\ IsMapping(feeGrants')
         /\ DOMAIN feeGrants' \subseteq DOMAIN feeGrants \cup {key}
         /\ \A k \in DOMAIN feeGrants' \ {key} : feeGrants'[k] = feeGrants[k]
         /\ key \in DOMAIN feeGrants' =>
              /\ feeGrants'[key].expiration \in Nat /\ feeGrants'[key].msgTypes # {}
              /\ Backs(records, feeGrants'[key])
         /\ records = EmptyMap => key \notin DOMAIN feeGrants'
<1> DEFINE live == FeegrantRecords(records)
           ends == {records[p].expiration : p \in live}
           grant == FeeGrant(UNION {records[p].msgTypes : p \in live}, Largest(ends))
<1>1. feeGrants' = IF live = {} THEN Remove(feeGrants, key) ELSE Put(feeGrants, key, grant)
  BY DEF RecomputeFeeAllowance
<1>2. \A p \in live : /\ p \in DOMAIN records /\ records[p].withFeegrant
                      /\ InFuture(records[p].expiration, now)
  BY DEF FeegrantRecords
<1>3. records = EmptyMap => live = {}
  BY <1>2 DEF EmptyMap
<1>4. CASE live = {}
  <2>1. feeGrants' = Remove(feeGrants, key)
    BY <1>1, <1>4
  <2> QED BY <2>1 DEF Remove, IsMapping
<1>5. CASE live # {}
  <2>1. feeGrants' = Put(feeGrants, key, grant)
    BY <1>1, <1>5
  <2>2. Largest(ends) \in ends
    <3>1. PICK latest \in Nat : \A p \in DOMAIN records : records[p].expiration <= latest
      BY DEF RecordsTyped
    <3>2. \A p \in DOMAIN records : records[p].expiration \in Nat
      BY DEF RecordsTyped, ParticipantRecords
    <3>3. ends \subseteq Nat /\ ends # {} /\ \A x \in ends : x <= latest
      BY <1>2, <1>5, <3>1, <3>2
    <3> HIDE DEF ends
    <3> QED BY <3>1, <3>3, LargestExists
  <2>3. PICK p \in live : Largest(ends) = records[p].expiration
    BY <2>2
  <2>4. records[p] \in ParticipantRecords /\ p \in DOMAIN records
    BY <1>2 DEF RecordsTyped
  <2>5. records[p].expiration \in Nat /\ records[p].msgTypes # {}
    BY <2>4, DelegationAssumption DEF ParticipantRecords
  <2>6. UNION {records[q].msgTypes : q \in live} # {}
    BY <2>5
  <2>7. /\ grant.expiration = records[p].expiration
        /\ grant.msgTypes = UNION {records[q].msgTypes : q \in live}
    BY <2>3 DEF FeeGrant
  <2> HIDE DEF grant, ends, live
  <2>8. Backs(records, grant)
    BY <1>2, <2>4, <2>5, <2>7 DEF Backs, InFuture
  <2> QED BY <1>3, <1>5, <2>1, <2>5, <2>6, <2>7, <2>8 DEF Put, IsMapping
<1> QED BY <1>4, <1>5

\* What a step of one key leaves of the other keys.
LEMMA BackedStays ==
  ASSUME NEW key, key \in DOMAIN feeGrants, BackedByOA(key) \/ BackedByVSOA(key),
         feeGrants'[key] = feeGrants[key],
         key \in DOMAIN oaByCorpOp =>
           /\ key \in DOMAIN oaByCorpOp'
           /\ oas'[oaByCorpOp'[key]] = oas[oaByCorpOp[key]],
         key \in DOMAIN vsoaByCorpOp =>
           /\ key \in DOMAIN vsoaByCorpOp'
           /\ vsoas'[vsoaByCorpOp'[key]].records = vsoas[vsoaByCorpOp[key]].records
  PROVE  BackedByOA(key)' \/ BackedByVSOA(key)'
BY DEF BackedByOA, BackedByVSOA, Has

\* A change of the records of one VS operator, after which its grant is recomputed.
LEMMA RecordsChange ==
  ASSUME GrantsInv, NEW key, NEW records, RecordsTyped(records),
         UNCHANGED <<now, oaVars>>,
         RecomputeFeeAllowance(key, records),
         IsMapping(vsoaByCorpOp'), IsMapping(vsoaByParticipant'), 0 \notin DOMAIN vsoas',
         \A k \in DOMAIN vsoaByCorpOp \ {key} :
           /\ k \in DOMAIN vsoaByCorpOp'
           /\ vsoas'[vsoaByCorpOp'[k]] = vsoas[vsoaByCorpOp[k]],
         records # EmptyMap =>
           /\ key \in DOMAIN vsoaByCorpOp'
           /\ vsoas'[vsoaByCorpOp'[key]].records = records,
         \A id \in DOMAIN vsoas' :
           \/ id \in DOMAIN vsoas /\ vsoas'[id] = vsoas[id]
           \/ /\ vsoas'[id].corporation \in Corporations
              /\ vsoas'[id].operator \in Operators
              /\ vsoas'[id].records = records,
         Inv'
  PROVE  GrantsInv'
<1>1. now \in Nat /\ IsMapping(feeGrants)
  BY DEF GrantsInv, Inv, OAInv, StoresTyped
<1>2. /\ IsMapping(feeGrants')
      /\ DOMAIN feeGrants' \subseteq DOMAIN feeGrants \cup {key}
      /\ \A k \in DOMAIN feeGrants' \ {key} : feeGrants'[k] = feeGrants[k]
      /\ key \in DOMAIN feeGrants' =>
           /\ feeGrants'[key].expiration \in Nat /\ feeGrants'[key].msgTypes # {}
           /\ Backs(records, feeGrants'[key])
      /\ records = EmptyMap => key \notin DOMAIN feeGrants'
  BY <1>1, RecomputeBacks
<1>3. UNCHANGED <<now, oas, oaByCorpOp, usage>>
  BY DEF oaVars
<1>4. StoresTyped'
  <2>1. \A id \in DOMAIN vsoas' :
          /\ vsoas'[id].corporation \in Corporations /\ vsoas'[id].operator \in Operators
          /\ RecordsTyped(vsoas'[id].records)
    BY DEF GrantsInv, StoresTyped
  <2>2. \A k \in DOMAIN feeGrants' :
          feeGrants'[k].expiration \in Nat /\ feeGrants'[k].msgTypes # {}
    BY <1>2 DEF GrantsInv, StoresTyped
  <2>3. /\ now # 0 /\ 0 \notin DOMAIN oas
        /\ IsMapping(oaByCorpOp) /\ IsMapping(usage)
    BY DEF GrantsInv, StoresTyped
  <2> QED BY <1>2, <1>3, <2>1, <2>2, <2>3 DEF StoresTyped, IsMapping, RecordsTyped
<1>5. FeeGrantsBacked'
  <2>1. ASSUME NEW k \in DOMAIN feeGrants'
        PROVE  BackedByOA(k)' \/ BackedByVSOA(k)'
    <3>1. CASE k = key
      <4>1. Backs(records, feeGrants'[key]) /\ records # EmptyMap
        BY <1>2, <3>1
      <4>2. /\ key \in DOMAIN vsoaByCorpOp'
            /\ vsoas'[vsoaByCorpOp'[key]].records = records
        BY <4>1
      <4> QED BY <3>1, <4>1, <4>2 DEF BackedByVSOA, Backs, Has
    <3>2. CASE k # key
      <4>1. k \in DOMAIN feeGrants /\ feeGrants'[k] = feeGrants[k]
        BY <1>2, <3>2
      <4>2. BackedByOA(k) \/ BackedByVSOA(k)
        BY <4>1 DEF GrantsInv, FeeGrantsBacked
      <4> QED BY <1>3, <3>2, <4>1, <4>2, BackedStays
    <3> QED BY <3>1, <3>2
  <2> QED BY <2>1 DEF FeeGrantsBacked
<1> QED BY <1>4, <1>5 DEF GrantsInv

\* Keys and their authorizations: the index is one to one.
LEMMA OtherKeys ==
  ASSUME Inv
  PROVE  /\ \A k \in DOMAIN vsoaByCorpOp :
              /\ vsoaByCorpOp[k] \in DOMAIN vsoas
              /\ KeyOf(vsoas[vsoaByCorpOp[k]]) = k
         /\ \A k1, k2 \in DOMAIN vsoaByCorpOp :
              vsoaByCorpOp[k1] = vsoaByCorpOp[k2] => k1 = k2
         /\ \A id \in DOMAIN vsoas :
              KeyOf(vsoas[id]) \in DOMAIN vsoaByCorpOp /\ vsoaByCorpOp[KeyOf(vsoas[id])] = id
         /\ \A k \in DOMAIN oaByCorpOp :
              oaByCorpOp[k] \in DOMAIN oas /\ KeyOf(oas[oaByCorpOp[k]]) = k
         /\ \A k1, k2 \in DOMAIN oaByCorpOp :
              oaByCorpOp[k1] = oaByCorpOp[k2] => k1 = k2
<1>1. /\ \A k \in DOMAIN vsoaByCorpOp :
           /\ vsoaByCorpOp[k] \in DOMAIN vsoas
           /\ KeyOf(vsoas[vsoaByCorpOp[k]]) = k
      /\ \A id \in DOMAIN vsoas :
           KeyOf(vsoas[id]) \in DOMAIN vsoaByCorpOp /\ vsoaByCorpOp[KeyOf(vsoas[id])] = id
  BY DEF Inv, VSOAInv, IndexAgrees
<1>2. \A k \in DOMAIN oaByCorpOp :
        oaByCorpOp[k] \in DOMAIN oas /\ KeyOf(oas[oaByCorpOp[k]]) = k
  BY DEF Inv, OAInv, IndexAgrees
<1>3. \A k1, k2 \in DOMAIN vsoaByCorpOp :
        vsoaByCorpOp[k1] = vsoaByCorpOp[k2] => k1 = k2
  BY <1>1
<1>4. \A k1, k2 \in DOMAIN oaByCorpOp : oaByCorpOp[k1] = oaByCorpOp[k2] => k1 = k2
  BY <1>2
<1> QED BY <1>1, <1>2, <1>3, <1>4

LEMMA GrantRecordKeepsGrants ==
  ASSUME GrantsInv, NEW corp \in Corporations, NEW operator \in Operators,
         NEW participant \in Participants, NEW record \in ParticipantRecords,
         GrantVSOperatorAuthorization(corp, operator, participant, record)
  PROVE  GrantsInv'
<1> DEFINE key == <<corp, operator>>
           id == IdFor(vsoaByCorpOp, key, vsoaSeq)
           had == IF Has(vsoaByCorpOp, key) THEN vsoas[id].records ELSE EmptyMap
           records == Put(had, participant, record)
           vsoa == [corporation |-> corp, operator |-> operator, records |-> records]
<1>1. /\ vsoas' = Put(vsoas, id, vsoa)
      /\ vsoaByCorpOp' = Put(vsoaByCorpOp, key, id)
      /\ vsoaByParticipant' = Put(vsoaByParticipant, participant, id)
      /\ RecomputeFeeAllowance(key, records)
      /\ UNCHANGED <<now, oaVars>>
  BY DEF GrantVSOperatorAuthorization
<1>2. Inv' /\ Inv
  BY GrantRecordKeepsInv DEF GrantsInv
<1>3. /\ id # 0
      /\ Has(vsoaByCorpOp, key) => id = vsoaByCorpOp[key] /\ id \in DOMAIN vsoas
      /\ ~Has(vsoaByCorpOp, key) => id \notin DOMAIN vsoas
  <2>1. /\ vsoaSeq \in Nat /\ \A i \in DOMAIN vsoas : i <= vsoaSeq /\ i \in Nat
        /\ 0 \notin DOMAIN vsoas
    BY DEF GrantsInv, StoresTyped, Inv, VSOAInv, IndexAgrees
  <2>2. CASE Has(vsoaByCorpOp, key)
    BY <1>2, <2>1, <2>2, OtherKeys DEF IdFor, Has
  <2>3. CASE ~Has(vsoaByCorpOp, key)
    <3>1. id = vsoaSeq + 1
      BY <2>3 DEF IdFor
    <3> QED BY <2>1, <2>3, <3>1
  <2> QED BY <2>2, <2>3
<1>4. RecordsTyped(records) /\ records # EmptyMap
  <2>1. record \in ParticipantRecords /\ record.expiration \in Nat
    BY DEF ParticipantRecords
  <2>2. RecordsTyped(had)
    <3>1. CASE Has(vsoaByCorpOp, key)
      BY <1>3, <3>1 DEF GrantsInv, StoresTyped
    <3>2. CASE ~Has(vsoaByCorpOp, key)
      <4>1. DOMAIN had = {}
        BY <3>2 DEF EmptyMap
      <4> QED BY <4>1 DEF RecordsTyped
    <3> QED BY <3>1, <3>2
  <2> HIDE DEF had
  <2>3. /\ DOMAIN records = DOMAIN had \cup {participant}
        /\ records[participant] = record
        /\ \A p \in DOMAIN had : p # participant => records[p] = had[p]
    BY DEF Put
  <2> HIDE DEF records
  <2>4. PICK latest \in Nat : \A p \in DOMAIN had : had[p].expiration <= latest
    BY <2>2 DEF RecordsTyped
  <2>5. PICK last \in Nat : last >= latest /\ last >= record.expiration
    <3>1. CASE latest >= record.expiration
      BY <2>1, <3>1
    <3>2. CASE latest < record.expiration
      BY <2>1, <3>2
    <3> QED BY <2>1, <3>1, <3>2
  <2>6. ASSUME NEW p \in DOMAIN records
        PROVE  records[p] \in ParticipantRecords /\ records[p].expiration <= last
    <3>1. CASE p = participant
      BY <2>1, <2>3, <2>5, <3>1
    <3>2. CASE p # participant
      <4>1. p \in DOMAIN had /\ records[p] = had[p]
        BY <2>3, <3>2
      <4>2. had[p] \in ParticipantRecords /\ had[p].expiration <= latest
        BY <2>2, <2>4, <4>1 DEF RecordsTyped
      <4>3. had[p].expiration \in Nat
        BY <4>2 DEF ParticipantRecords
      <4> QED BY <2>5, <4>1, <4>2, <4>3
    <3> QED BY <3>1, <3>2
  <2>7. RecordsTyped(records)
    BY <2>2, <2>3, <2>6 DEF RecordsTyped
  <2> QED BY <2>3, <2>7 DEF EmptyMap
<1>5. vsoa.corporation = corp /\ vsoa.operator = operator /\ vsoa.records = records
  OBVIOUS
<1> HIDE DEF vsoa, records, had, id
<1>6. /\ DOMAIN vsoas' = DOMAIN vsoas \cup {id} /\ vsoas'[id] = vsoa
      /\ \A i \in DOMAIN vsoas \ {id} : vsoas'[i] = vsoas[i]
      /\ DOMAIN vsoaByCorpOp' = DOMAIN vsoaByCorpOp \cup {key}
      /\ vsoaByCorpOp'[key] = id
      /\ \A k \in DOMAIN vsoaByCorpOp \ {key} : vsoaByCorpOp'[k] = vsoaByCorpOp[k]
      /\ IsMapping(vsoaByCorpOp') /\ IsMapping(vsoaByParticipant')
  BY <1>1 DEF Put, IsMapping
<1> HIDE DEF key
<1>7. \A k \in DOMAIN vsoaByCorpOp \ {key} :
        /\ k \in DOMAIN vsoaByCorpOp'
        /\ vsoas'[vsoaByCorpOp'[k]] = vsoas[vsoaByCorpOp[k]]
  BY <1>2, <1>3, <1>6, OtherKeys DEF Has
<1>8. 0 \notin DOMAIN vsoas'
  BY <1>3, <1>6 DEF GrantsInv, StoresTyped
<1>9. \A i \in DOMAIN vsoas' :
        \/ i \in DOMAIN vsoas /\ vsoas'[i] = vsoas[i]
        \/ /\ vsoas'[i].corporation \in Corporations
           /\ vsoas'[i].operator \in Operators
           /\ vsoas'[i].records = records
  BY <1>5, <1>6
<1>10. key \in DOMAIN vsoaByCorpOp' /\ vsoas'[vsoaByCorpOp'[key]].records = records
  BY <1>5, <1>6
<1> QED BY <1>1, <1>2, <1>4, <1>6, <1>7, <1>8, <1>9, <1>10, RecordsChange

\* Nothing is done where the participant has no record.
LEMMA NothingKeepsGrants ==
  ASSUME GrantsInv, UNCHANGED vars
  PROVE  GrantsInv'
<1>1. UNCHANGED <<now, oas, oaByCorpOp, oaSeq, usage, feeGrants, vsoas, vsoaByCorpOp,
                  vsoaByParticipant, vsoaSeq>>
  BY DEF vars, deVars, oaVars, vsoaVars
<1>2. Inv'
  BY NextKeepsInv DEF GrantsInv
<1>3. StoresTyped'
  BY <1>1 DEF GrantsInv, StoresTyped, IsMapping, RecordsTyped
<1>4. FeeGrantsBacked'
  BY <1>1 DEF GrantsInv, FeeGrantsBacked, BackedByOA, BackedByVSOA, Has
<1> QED BY <1>2, <1>3, <1>4 DEF GrantsInv

LEMMA RevokeRecordKeepsGrants ==
  ASSUME GrantsInv, NEW participant, RevokeVSOperatorAuthorization(participant)
  PROVE  GrantsInv'
<1>1. CASE participant \notin DOMAIN vsoaByParticipant
  <2>1. UNCHANGED vars
    BY <1>1 DEF RevokeVSOperatorAuthorization, Has
  <2> QED BY <2>1, NothingKeepsGrants
<1>2. CASE participant \in DOMAIN vsoaByParticipant
  <2> DEFINE id == vsoaByParticipant[participant]
             vsoa == vsoas[id]
             records == Remove(vsoa.records, participant)
             key == KeyOf(vsoa)
             left == [vsoa EXCEPT !.records = records]
  <2>1. /\ vsoas' = IF records = EmptyMap THEN Remove(vsoas, id) ELSE Put(vsoas, id, left)
        /\ vsoaByCorpOp' = IF records = EmptyMap THEN Remove(vsoaByCorpOp, key)
                           ELSE vsoaByCorpOp
        /\ vsoaByParticipant' = Remove(vsoaByParticipant, participant)
        /\ RecomputeFeeAllowance(key, records)
        /\ UNCHANGED <<now, oaVars, vsoaSeq>>
    BY <1>2 DEF RevokeVSOperatorAuthorization, VSOAIndexAfter, Has, KeyOf
  <2>2. Inv /\ Inv'
    BY RevokeRecordKeepsInv DEF GrantsInv
  <2>3. /\ id \in DOMAIN vsoas
        /\ IsVSOA(vsoa)
        /\ key \in DOMAIN vsoaByCorpOp /\ vsoaByCorpOp[key] = id
    BY <1>2, <2>2 DEF Inv, VSOAInv, RecordsAgree, IndexAgrees
  <2>4. /\ vsoa.corporation \in Corporations /\ vsoa.operator \in Operators
        /\ RecordsTyped(vsoa.records)
    BY <2>3 DEF GrantsInv, StoresTyped
  <2>5. RecordsTyped(records)
    BY <2>4 DEF RecordsTyped, Remove
  <2>6. /\ left.corporation = vsoa.corporation /\ left.operator = vsoa.operator
        /\ left.records = records
    <3>1. vsoa = [corporation |-> vsoa.corporation, operator |-> vsoa.operator,
                  records |-> vsoa.records]
      BY <2>3 DEF IsVSOA
    <3>2. left = [corporation |-> vsoa.corporation, operator |-> vsoa.operator,
                  records |-> records]
      BY <3>1
    <3> HIDE DEF left
    <3> QED BY <3>2
  <2> HIDE DEF left, records, key
  <2>7. /\ DOMAIN vsoas' \subseteq DOMAIN vsoas
        /\ \A i \in DOMAIN vsoas' : i # id => vsoas'[i] = vsoas[i]
        /\ \A i \in DOMAIN vsoas : i # id => i \in DOMAIN vsoas'
        /\ records = EmptyMap => id \notin DOMAIN vsoas'
        /\ records # EmptyMap => id \in DOMAIN vsoas' /\ vsoas'[id] = left
    BY <2>1, <2>3 DEF Remove, Put
  <2>8. /\ DOMAIN vsoaByCorpOp' \subseteq DOMAIN vsoaByCorpOp
        /\ \A k \in DOMAIN vsoaByCorpOp : k # key => k \in DOMAIN vsoaByCorpOp'
        /\ \A k \in DOMAIN vsoaByCorpOp' : vsoaByCorpOp'[k] = vsoaByCorpOp[k]
        /\ records # EmptyMap => key \in DOMAIN vsoaByCorpOp'
        /\ IsMapping(vsoaByCorpOp')
    BY <2>1, <2>3 DEF Remove, IsMapping, GrantsInv, StoresTyped
  <2>9. IsMapping(vsoaByParticipant')
    BY <2>1 DEF Remove, IsMapping
  <2>10. \A k \in DOMAIN vsoaByCorpOp \ {key} :
           /\ k \in DOMAIN vsoaByCorpOp'
           /\ vsoas'[vsoaByCorpOp'[k]] = vsoas[vsoaByCorpOp[k]]
    <3>1. \A k \in DOMAIN vsoaByCorpOp \ {key} :
            vsoaByCorpOp[k] # id /\ vsoaByCorpOp[k] \in DOMAIN vsoas
      BY <2>2, <2>3, OtherKeys
    <3> QED BY <2>7, <2>8, <3>1
  <2>11. records # EmptyMap =>
           /\ key \in DOMAIN vsoaByCorpOp'
           /\ vsoas'[vsoaByCorpOp'[key]].records = records
    BY <2>3, <2>6, <2>7, <2>8
  <2>12. \A i \in DOMAIN vsoas' :
           \/ i \in DOMAIN vsoas /\ vsoas'[i] = vsoas[i]
           \/ /\ vsoas'[i].corporation \in Corporations
              /\ vsoas'[i].operator \in Operators
              /\ vsoas'[i].records = records
    BY <2>4, <2>6, <2>7
  <2>13. 0 \notin DOMAIN vsoas'
    BY <2>7 DEF GrantsInv, StoresTyped
  <2> QED BY <2>1, <2>2, <2>5, <2>8, <2>9, <2>10, <2>11, <2>12, <2>13, RecordsChange
<1> QED BY <1>1, <1>2

\* Another expiration of one record is still before some time.
LEMMA RecordsTypedAfter ==
  ASSUME NEW records, RecordsTyped(records), NEW participant \in DOMAIN records,
         NEW expiration \in Nat, NEW after, DOMAIN after = DOMAIN records,
         after[participant] \in ParticipantRecords,
         after[participant].expiration = expiration,
         \A p \in DOMAIN records : p # participant => after[p] = records[p]
  PROVE  RecordsTyped(after)
<1>1. PICK latest \in Nat : \A p \in DOMAIN records : records[p].expiration <= latest
  BY DEF RecordsTyped
<1>2. PICK last \in Nat : last >= latest /\ last >= expiration
  <2>1. CASE latest >= expiration
    BY <2>1
  <2>2. CASE latest < expiration
    BY <2>2
  <2> QED BY <2>1, <2>2
<1>3. ASSUME NEW p \in DOMAIN after
      PROVE  after[p] \in ParticipantRecords /\ after[p].expiration <= last
  <2>1. CASE p = participant
    BY <1>2, <2>1
  <2>2. CASE p # participant
    <3>1. after[p] = records[p] /\ records[p] \in ParticipantRecords
      BY <2>2 DEF RecordsTyped
    <3>2. records[p].expiration \in Nat /\ records[p].expiration <= latest
      BY <1>1, <3>1 DEF ParticipantRecords
    <3> QED BY <1>2, <3>1, <3>2
  <2> QED BY <2>1, <2>2
<1> QED BY <1>3 DEF RecordsTyped

LEMMA UpdateRecordKeepsGrants ==
  ASSUME GrantsInv, NEW participant, NEW expiration \in Nat,
         UpdateVSOperatorAuthorizationExpiration(participant, expiration)
  PROVE  GrantsInv'
<1>1. CASE participant \notin DOMAIN vsoaByParticipant
  <2>1. UNCHANGED vars
    BY <1>1 DEF UpdateVSOperatorAuthorizationExpiration, Has
  <2> QED BY <2>1, NothingKeepsGrants
<1>2. CASE participant \in DOMAIN vsoaByParticipant
  <2> DEFINE id == vsoaByParticipant[participant]
             vsoa == vsoas[id]
             row == [vsoa.records[participant] EXCEPT !.expiration = expiration]
             records == [vsoa.records EXCEPT ![participant] = row]
             key == KeyOf(vsoa)
             x == [vsoa EXCEPT !.records = records]
  <2>1. /\ vsoas' = Put(vsoas, id, x)
        /\ RecomputeFeeAllowance(key, records)
        /\ UNCHANGED <<now, oaVars, vsoaByCorpOp, vsoaByParticipant, vsoaSeq>>
    BY <1>2 DEF UpdateVSOperatorAuthorizationExpiration, Has, KeyOf
  <2>2. Inv /\ Inv'
    BY UpdateRecordKeepsInv DEF GrantsInv
  <2>3. /\ id \in DOMAIN vsoas /\ participant \in DOMAIN vsoa.records
        /\ IsVSOA(vsoa)
        /\ key \in DOMAIN vsoaByCorpOp /\ vsoaByCorpOp[key] = id
    BY <1>2, <2>2 DEF Inv, VSOAInv, RecordsAgree, IndexAgrees
  <2>4. /\ vsoa.corporation \in Corporations /\ vsoa.operator \in Operators
        /\ RecordsTyped(vsoa.records)
    BY <2>3 DEF GrantsInv, StoresTyped
  <2>5. row \in ParticipantRecords /\ row.expiration = expiration
    <3>1. vsoa.records[participant] \in ParticipantRecords
      BY <2>3, <2>4 DEF RecordsTyped
    <3> QED BY <3>1 DEF ParticipantRecords
  <2> HIDE DEF row
  <2>6. /\ DOMAIN records = DOMAIN vsoa.records
        /\ records[participant] = row
        /\ \A p \in DOMAIN vsoa.records : p # participant => records[p] = vsoa.records[p]
    BY <2>3
  <2>7. x.records = records /\ x.corporation = vsoa.corporation /\ x.operator = vsoa.operator
    <3>1. vsoa = [corporation |-> vsoa.corporation, operator |-> vsoa.operator,
                  records |-> vsoa.records]
      BY <2>3 DEF IsVSOA
    <3> HIDE DEF records
    <3>2. x = [corporation |-> vsoa.corporation, operator |-> vsoa.operator,
               records |-> records]
      BY <3>1
    <3> HIDE DEF x
    <3> QED BY <3>2
  <2> HIDE DEF x, records, key
  <2>8. RecordsTyped(records)
    BY <2>3, <2>4, <2>5, <2>6, RecordsTypedAfter
  <2>9. /\ DOMAIN vsoas' = DOMAIN vsoas /\ vsoas'[id] = x
        /\ \A i \in DOMAIN vsoas : i # id => vsoas'[i] = vsoas[i]
    BY <2>1, <2>3 DEF Put
  <2>10. \A k \in DOMAIN vsoaByCorpOp \ {key} :
           /\ k \in DOMAIN vsoaByCorpOp'
           /\ vsoas'[vsoaByCorpOp'[k]] = vsoas[vsoaByCorpOp[k]]
    <3>1. \A k \in DOMAIN vsoaByCorpOp \ {key} :
            vsoaByCorpOp[k] # id /\ vsoaByCorpOp[k] \in DOMAIN vsoas
      BY <2>2, <2>3, OtherKeys
    <3> QED BY <2>1, <2>9, <3>1
  <2>11. key \in DOMAIN vsoaByCorpOp' /\ vsoas'[vsoaByCorpOp'[key]].records = records
    BY <2>1, <2>3, <2>7, <2>9
  <2>12. \A i \in DOMAIN vsoas' :
           \/ i \in DOMAIN vsoas /\ vsoas'[i] = vsoas[i]
           \/ /\ vsoas'[i].corporation \in Corporations
              /\ vsoas'[i].operator \in Operators
              /\ vsoas'[i].records = records
    BY <2>4, <2>7, <2>9
  <2>13. 0 \notin DOMAIN vsoas' /\ IsMapping(vsoaByCorpOp') /\ IsMapping(vsoaByParticipant')
    BY <2>1, <2>9 DEF GrantsInv, StoresTyped, IsMapping
  <2> QED BY <2>1, <2>2, <2>8, <2>10, <2>11, <2>12, <2>13, RecordsChange
<1> QED BY <1>1, <1>2

\* A record that starts another period lasts longer than it did, and so backs what it
\* backed.
LEMMA CheckKeepsGrants ==
  ASSUME GrantsInv, NEW corp, NEW operator, NEW participant, NEW msgType,
         CheckVSOperatorAuthorizationOnParticipant(corp, operator, participant, msgType)
  PROVE  GrantsInv'
<1> DEFINE id == vsoaByParticipant[participant]
           vsoa == vsoas[id]
           record == vsoa.records[participant]
           row == [record EXCEPT !.expiration = now + record.period]
           records == [vsoa.records EXCEPT ![participant] = row]
           x == [vsoa EXCEPT !.records = records]
<1>1. /\ participant \in DOMAIN vsoaByParticipant
      /\ UNCHANGED <<now, oaVars, feeGrants, vsoaByCorpOp, vsoaByParticipant, vsoaSeq>>
      /\ \/ UNCHANGED vsoas
         \/ /\ record.expiration # NoTime /\ ~InFuture(record.expiration, now)
            /\ vsoas' = [vsoas EXCEPT ![id].records[participant].expiration =
                                        now + record.period]
  BY DEF CheckVSOperatorAuthorizationOnParticipant, Has
<1>2. Inv /\ Inv'
  BY CheckKeepsInv DEF GrantsInv
<1>3. CASE UNCHANGED vsoas
  <2>1. UNCHANGED vars
    BY <1>1, <1>3 DEF vars, deVars, vsoaVars
  <2> QED BY <2>1, NothingKeepsGrants
<1>4. CASE /\ record.expiration # NoTime /\ ~InFuture(record.expiration, now)
           /\ vsoas' = [vsoas EXCEPT ![id].records[participant].expiration =
                                       now + record.period]
  <2>1. vsoas' = [vsoas EXCEPT ![id] = x]
    BY <1>4
  <2>2. /\ id \in DOMAIN vsoas /\ participant \in DOMAIN vsoa.records
        /\ IsVSOA(vsoa) /\ now \in Nat
    BY <1>1, <1>2 DEF Inv, OAInv, VSOAInv, RecordsAgree
  <2>3. /\ vsoa.corporation \in Corporations /\ vsoa.operator \in Operators
        /\ RecordsTyped(vsoa.records)
    BY <2>2 DEF GrantsInv, StoresTyped
  <2>4. record \in ParticipantRecords
    BY <2>2, <2>3 DEF RecordsTyped
  <2>5. /\ record.expiration \in Nat /\ record.period \in Nat
        /\ record.expiration # 0 /\ record.expiration <= now
    BY <1>4, <2>2, <2>4 DEF ParticipantRecords, InFuture, NoTime
  <2>6. /\ row \in ParticipantRecords
        /\ row.expiration = now + record.period
        /\ row.withFeegrant = record.withFeegrant
        /\ row.expiration \in Nat /\ row.expiration # 0
        /\ row.expiration >= record.expiration
    BY <2>2, <2>4, <2>5 DEF ParticipantRecords
  <2> HIDE DEF row
  <2>7. /\ DOMAIN records = DOMAIN vsoa.records
        /\ records[participant] = row
        /\ \A p \in DOMAIN vsoa.records : p # participant => records[p] = vsoa.records[p]
    BY <2>2
  <2>8. x.records = records /\ x.corporation = vsoa.corporation /\ x.operator = vsoa.operator
    <3>1. vsoa = [corporation |-> vsoa.corporation, operator |-> vsoa.operator,
                  records |-> vsoa.records]
      BY <2>2 DEF IsVSOA
    <3> HIDE DEF records
    <3>2. x = [corporation |-> vsoa.corporation, operator |-> vsoa.operator,
               records |-> records]
      BY <3>1
    <3> HIDE DEF x
    <3> QED BY <3>2
  <2> HIDE DEF x, records
  <2>9. RecordsTyped(records)
    BY <2>2, <2>3, <2>6, <2>7, RecordsTypedAfter
  <2>10. /\ DOMAIN vsoas' = DOMAIN vsoas /\ vsoas'[id] = x
         /\ \A i \in DOMAIN vsoas : i # id => vsoas'[i] = vsoas[i]
    BY <2>1, <2>2
  <2>11. UNCHANGED <<now, oas, oaByCorpOp, usage, feeGrants, vsoaByCorpOp, vsoaByParticipant>>
    BY <1>1 DEF oaVars
  <2>12. StoresTyped'
    <3>1. \A i \in DOMAIN vsoas' :
            /\ vsoas'[i].corporation \in Corporations /\ vsoas'[i].operator \in Operators
            /\ RecordsTyped(vsoas'[i].records)
      BY <2>3, <2>8, <2>9, <2>10 DEF GrantsInv, StoresTyped
    <3> QED BY <2>10, <2>11, <3>1 DEF GrantsInv, StoresTyped, IsMapping, RecordsTyped
  <2>13. ASSUME NEW k \in DOMAIN feeGrants
         PROVE  BackedByOA(k)' \/ BackedByVSOA(k)'
    <3>1. BackedByOA(k) \/ BackedByVSOA(k)
      BY DEF GrantsInv, FeeGrantsBacked
    <3>2. CASE BackedByOA(k)
      BY <2>11, <3>2 DEF BackedByOA, Has
    <3>3. CASE BackedByVSOA(k)
      <4>1. k \in DOMAIN vsoaByCorpOp /\ vsoaByCorpOp[k] \in DOMAIN vsoas
        BY <1>2, <3>3, OtherKeys DEF BackedByVSOA, Has
      <4>2. PICK p \in DOMAIN vsoas[vsoaByCorpOp[k]].records :
              /\ vsoas[vsoaByCorpOp[k]].records[p].withFeegrant
              /\ InFuture(vsoas[vsoaByCorpOp[k]].records[p].expiration,
                          feeGrants[k].expiration - 1)
        BY <3>3 DEF BackedByVSOA
      <4>3. CASE vsoaByCorpOp[k] # id
        BY <2>10, <2>11, <4>1, <4>2, <4>3 DEF BackedByVSOA, Has
      <4>4. CASE vsoaByCorpOp[k] = id
        <5>1. vsoas'[vsoaByCorpOp'[k]].records = records
          BY <2>8, <2>10, <2>11, <4>4
        <5>2. feeGrants[k].expiration \in Nat
          BY DEF GrantsInv, StoresTyped
        <5>3. CASE p # participant
          BY <2>7, <2>11, <4>1, <4>2, <4>4, <5>1, <5>3 DEF BackedByVSOA, Has
        <5>4. CASE p = participant
          <6>1. /\ record.withFeegrant
                /\ record.expiration > feeGrants[k].expiration - 1
            BY <4>2, <4>4, <5>4 DEF InFuture
          <6>2. row.withFeegrant /\ InFuture(row.expiration, feeGrants[k].expiration - 1)
            BY <2>5, <2>6, <5>2, <6>1 DEF InFuture, NoTime
          <6>3. participant \in DOMAIN records /\ records[participant] = row
            BY <2>2, <2>7
          <6> QED BY <2>11, <4>1, <5>1, <6>2, <6>3 DEF BackedByVSOA, Has
        <5> QED BY <5>3, <5>4
      <4> QED BY <4>3, <4>4
    <3> QED BY <3>1, <3>2, <3>3
  <2>14. FeeGrantsBacked'
    BY <2>11, <2>13 DEF FeeGrantsBacked
  <2> QED BY <1>2, <2>12, <2>14 DEF GrantsInv
<1> QED BY <1>1, <1>3, <1>4

\* A step of one key of the operator authorizations, which leaves the other kind alone.
LEMMA AuthorizationsChange ==
  ASSUME GrantsInv, Inv', NEW key, UNCHANGED <<now, vsoaVars>>,
         IsMapping(oaByCorpOp'), IsMapping(usage'), IsMapping(feeGrants'),
         0 \notin DOMAIN oas',
         \A k \in DOMAIN oaByCorpOp \ {key} :
           /\ k \in DOMAIN oaByCorpOp'
           /\ oas'[oaByCorpOp'[k]] = oas[oaByCorpOp[k]],
         \A k \in DOMAIN feeGrants' \ {key} :
           k \in DOMAIN feeGrants /\ feeGrants'[k] = feeGrants[k],
         key \in DOMAIN feeGrants' =>
           /\ feeGrants'[key].expiration \in Nat /\ feeGrants'[key].msgTypes # {}
           /\ BackedByOA(key)'
  PROVE  GrantsInv'
<1>1. UNCHANGED <<now, vsoas, vsoaByCorpOp, vsoaByParticipant>>
  BY DEF vsoaVars
<1>2. StoresTyped'
  <2>1. \A k \in DOMAIN feeGrants' :
          feeGrants'[k].expiration \in Nat /\ feeGrants'[k].msgTypes # {}
    BY DEF GrantsInv, StoresTyped
  <2>2. \A id \in DOMAIN vsoas' :
          /\ vsoas'[id].corporation \in Corporations /\ vsoas'[id].operator \in Operators
          /\ RecordsTyped(vsoas'[id].records)
    BY <1>1 DEF GrantsInv, StoresTyped
  <2>3. /\ now # 0 /\ 0 \notin DOMAIN vsoas
        /\ IsMapping(vsoaByCorpOp) /\ IsMapping(vsoaByParticipant)
    BY DEF GrantsInv, StoresTyped
  <2> QED BY <1>1, <2>1, <2>2, <2>3 DEF StoresTyped, IsMapping, RecordsTyped
<1>3. ASSUME NEW k \in DOMAIN feeGrants'
      PROVE  BackedByOA(k)' \/ BackedByVSOA(k)'
  <2>1. CASE k = key
    BY <2>1
  <2>2. CASE k # key
    <3>1. k \in DOMAIN feeGrants /\ feeGrants'[k] = feeGrants[k]
      BY <2>2
    <3>2. BackedByOA(k) \/ BackedByVSOA(k)
      BY <3>1 DEF GrantsInv, FeeGrantsBacked
    <3> QED BY <1>1, <2>2, <3>1, <3>2, BackedStays
  <2> QED BY <2>1, <2>2
<1>4. FeeGrantsBacked'
  BY <1>3 DEF FeeGrantsBacked
<1> QED BY <1>2, <1>4 DEF GrantsInv

LEMMA GrantKeepsGrants ==
  ASSUME GrantsInv, NEW operator, NEW oa \in GrantedAuthorizations, NEW withFeegrant,
         GrantOperatorAuthorization(operator, oa, withFeegrant)
  PROVE  GrantsInv'
<1> DEFINE key == KeyOf(oa)
           id == IdFor(oaByCorpOp, key, oaSeq)
           grant == FeeGrant(oa.msgTypes, oa.expiration)
<1>1. /\ oas' = Put(oas, id, oa)
      /\ oaByCorpOp' = Put(oaByCorpOp, key, id)
      /\ usage' = Remove(usage, id)
      /\ feeGrants' = IF withFeegrant THEN Put(feeGrants, key, grant)
                      ELSE Remove(feeGrants, key)
      /\ UNCHANGED <<now, vsoaVars>>
  BY DEF GrantOperatorAuthorization, UsageCleared, KeyOf
<1>2. Inv /\ Inv'
  BY GrantKeepsInv DEF GrantsInv
<1>3. /\ id # 0
      /\ Has(oaByCorpOp, key) => id = oaByCorpOp[key]
      /\ ~Has(oaByCorpOp, key) => id \notin DOMAIN oas
  <2>1. /\ oaSeq \in Nat /\ \A i \in DOMAIN oas : i <= oaSeq /\ i \in Nat
        /\ 0 \notin DOMAIN oas
    BY DEF GrantsInv, StoresTyped, Inv, OAInv, IndexAgrees
  <2>2. CASE Has(oaByCorpOp, key)
    BY <1>2, <2>1, <2>2, OtherKeys DEF IdFor, Has
  <2>3. CASE ~Has(oaByCorpOp, key)
    <3>1. id = oaSeq + 1
      BY <2>3 DEF IdFor
    <3> QED BY <2>1, <2>3, <3>1
  <2> QED BY <2>2, <2>3
<1>4. /\ grant.msgTypes = oa.msgTypes /\ grant.expiration = oa.expiration
      /\ oa.msgTypes # {} /\ oa.expiration \in Nat
  BY DelegationAssumption DEF FeeGrant, GrantedAuthorizations
<1> HIDE DEF id, key
<1>5. /\ DOMAIN oas' = DOMAIN oas \cup {id} /\ oas'[id] = oa
      /\ \A i \in DOMAIN oas \ {id} : oas'[i] = oas[i]
      /\ DOMAIN oaByCorpOp' = DOMAIN oaByCorpOp \cup {key} /\ oaByCorpOp'[key] = id
      /\ \A k \in DOMAIN oaByCorpOp \ {key} : oaByCorpOp'[k] = oaByCorpOp[k]
      /\ IsMapping(oaByCorpOp') /\ IsMapping(usage')
  BY <1>1 DEF Put, Remove, IsMapping
<1>6. /\ IsMapping(feeGrants')
      /\ \A k \in DOMAIN feeGrants' \ {key} :
           k \in DOMAIN feeGrants /\ feeGrants'[k] = feeGrants[k]
      /\ key \in DOMAIN feeGrants' => feeGrants'[key] = grant
  <2> HIDE DEF grant
  <2>1. CASE withFeegrant
    BY <1>1, <2>1 DEF Put, IsMapping
  <2>2. CASE ~withFeegrant
    BY <1>1, <2>2 DEF Remove, IsMapping
  <2> QED BY <2>1, <2>2
<1>7. \A k \in DOMAIN oaByCorpOp \ {key} :
        k \in DOMAIN oaByCorpOp' /\ oas'[oaByCorpOp'[k]] = oas[oaByCorpOp[k]]
  <2>1. ASSUME NEW k \in DOMAIN oaByCorpOp \ {key}
        PROVE  oaByCorpOp[k] \in DOMAIN oas \ {id}
    <3>1. oaByCorpOp[k] \in DOMAIN oas
      BY <1>2, OtherKeys
    <3>2. oaByCorpOp[k] # id
      BY <1>2, <1>3, <3>1, OtherKeys DEF Has
    <3> QED BY <3>1, <3>2
  <2> QED BY <1>5, <2>1
<1>8. key \in DOMAIN feeGrants' => BackedByOA(key)'
  BY <1>5, <1>6 DEF BackedByOA, Has
<1>9. 0 \notin DOMAIN oas'
  BY <1>3, <1>5 DEF GrantsInv, StoresTyped
<1> HIDE DEF grant
<1> QED BY <1>1, <1>2, <1>4, <1>5, <1>6, <1>7, <1>8, <1>9, AuthorizationsChange

LEMMA RevokeKeepsGrants ==
  ASSUME GrantsInv, NEW corp, NEW operator, NEW grantee,
         RevokeOperatorAuthorization(corp, operator, grantee)
  PROVE  GrantsInv'
<1> DEFINE key == <<corp, grantee>>
<1>1. /\ key \in DOMAIN oaByCorpOp
      /\ oas' = Remove(oas, oaByCorpOp[key])
      /\ oaByCorpOp' = Remove(oaByCorpOp, key)
      /\ usage' = Remove(usage, oaByCorpOp[key])
      /\ feeGrants' = Remove(feeGrants, key)
      /\ UNCHANGED <<now, vsoaVars>>
  BY DEF RevokeOperatorAuthorization, UsageCleared, FeeGrantRevoked, Has
<1>2. Inv /\ Inv'
  BY RevokeKeepsInv DEF GrantsInv
<1> HIDE DEF key
<1>3. /\ DOMAIN oas' = DOMAIN oas \ {oaByCorpOp[key]}
      /\ \A i \in DOMAIN oas' : oas'[i] = oas[i]
      /\ DOMAIN oaByCorpOp' = DOMAIN oaByCorpOp \ {key}
      /\ \A k \in DOMAIN oaByCorpOp' : oaByCorpOp'[k] = oaByCorpOp[k]
      /\ DOMAIN feeGrants' = DOMAIN feeGrants \ {key}
      /\ \A k \in DOMAIN feeGrants' : feeGrants'[k] = feeGrants[k]
      /\ IsMapping(oaByCorpOp') /\ IsMapping(usage') /\ IsMapping(feeGrants')
  BY <1>1 DEF Remove, IsMapping
<1>4. \A k \in DOMAIN oaByCorpOp \ {key} :
        k \in DOMAIN oaByCorpOp' /\ oas'[oaByCorpOp'[k]] = oas[oaByCorpOp[k]]
  <2>1. ASSUME NEW k \in DOMAIN oaByCorpOp \ {key}
        PROVE  oaByCorpOp[k] \in DOMAIN oas \ {oaByCorpOp[key]}
    BY <1>1, <1>2, OtherKeys
  <2> QED BY <1>3, <2>1
<1>5. 0 \notin DOMAIN oas'
  BY <1>3 DEF GrantsInv, StoresTyped
<1> QED BY <1>1, <1>2, <1>3, <1>4, <1>5, AuthorizationsChange

\* A metered message changes what may be spent, and no grant of fees.
LEMMA SpendKeepsGrants ==
  ASSUME GrantsInv, NEW corp, NEW operator, NEW msgType, NEW spend \in Spends,
         SpendWithAuthorization(corp, operator, msgType, spend)
  PROVE  GrantsInv'
<1>1. Inv /\ Inv'
  BY SpendKeepsInv DEF GrantsInv
<1>2. UNCHANGED <<now, oas, oaByCorpOp, oaSeq, feeGrants, vsoaVars>>
  BY DEF SpendWithAuthorization
<1>3. IsMapping(usage')
  <2>1. PICK id, left : usage' = Put(usage, id, left)
    BY DEF SpendWithAuthorization
  <2> QED BY <2>1 DEF Put, IsMapping
<1>4. UNCHANGED <<now, oas, oaByCorpOp, feeGrants, vsoas, vsoaByCorpOp, vsoaByParticipant>>
  BY <1>2 DEF vsoaVars
<1>5. StoresTyped'
  BY <1>3, <1>4 DEF GrantsInv, StoresTyped, IsMapping, RecordsTyped
<1>6. FeeGrantsBacked'
  BY <1>4 DEF GrantsInv, FeeGrantsBacked, BackedByOA, BackedByVSOA, Has
<1> QED BY <1>1, <1>5, <1>6 DEF GrantsInv

\* Indexes that agree with the same rows are the same.
LEMMA OneIndex ==
  ASSUME NEW m, NEW index1, NEW index2, NEW seq1, NEW seq2,
         IsMapping(index1), IsMapping(index2),
         IndexAgrees(m, index1, seq1), IndexAgrees(m, index2, seq2)
  PROVE  index1 = index2
<1>1. DOMAIN index1 = DOMAIN index2
  BY DEF IndexAgrees
<1>2. \A k \in DOMAIN index1 : index1[k] = index2[k]
  BY <1>1 DEF IndexAgrees
<1> QED BY <1>1, <1>2 DEF IsMapping

LEMMA RestartKeepsGrants ==
  ASSUME GrantsInv, RestartFromGenesis
  PROVE  GrantsInv'
<1>1. /\ oaByCorpOp' = CorpOpIndex(oas) /\ vsoaByCorpOp' = CorpOpIndex(vsoas)
      /\ vsoaByParticipant' = ParticipantIndex
      /\ UNCHANGED <<now, oas, usage, feeGrants, vsoas>>
  BY DEF RestartFromGenesis, UsageExported
<1>2. Inv /\ Inv'
  BY RestartKeepsInv DEF GrantsInv
<1>3. IsMapping(oaByCorpOp') /\ IsMapping(vsoaByCorpOp') /\ IsMapping(vsoaByParticipant')
  BY <1>1 DEF IsMapping, CorpOpIndex, ParticipantIndex
<1>4. oaByCorpOp' = oaByCorpOp /\ vsoaByCorpOp' = vsoaByCorpOp
  <2>1. /\ IndexAgrees(oas, oaByCorpOp, oaSeq) /\ IndexAgrees(oas, oaByCorpOp', oaSeq')
        /\ IndexAgrees(vsoas, vsoaByCorpOp, vsoaSeq)
        /\ IndexAgrees(vsoas, vsoaByCorpOp', vsoaSeq')
    BY <1>1, <1>2 DEF Inv, OAInv, VSOAInv
  <2>2. IsMapping(oaByCorpOp) /\ IsMapping(vsoaByCorpOp)
    BY DEF GrantsInv, StoresTyped
  <2>3. oaByCorpOp = oaByCorpOp'
    BY <1>3, <2>1, <2>2, OneIndex
  <2>4. vsoaByCorpOp = vsoaByCorpOp'
    BY <1>3, <2>1, <2>2, OneIndex
  <2> QED BY <2>3, <2>4
<1> HIDE DEF RestartFromGenesis
<1>5. StoresTyped'
  <2>1. IsMapping(vsoaByParticipant')
    BY <1>3
  <2>2. UNCHANGED <<now, oas, oaByCorpOp, usage, feeGrants, vsoas, vsoaByCorpOp>>
    BY <1>1, <1>4
  <2> QED BY <2>1, <2>2 DEF GrantsInv, StoresTyped, IsMapping, RecordsTyped
<1>6. FeeGrantsBacked'
  <2>1. UNCHANGED <<oas, oaByCorpOp, feeGrants, vsoas, vsoaByCorpOp>>
    BY <1>1, <1>4
  <2> QED BY <2>1 DEF GrantsInv, FeeGrantsBacked, BackedByOA, BackedByVSOA, Has
<1> QED BY <1>2, <1>5, <1>6 DEF GrantsInv

LEMMA TickKeepsGrants ==
  ASSUME GrantsInv, Tick
  PROVE  GrantsInv'
<1>1. Inv /\ Inv'
  BY TickKeepsInv DEF GrantsInv
<1>2. now' = now + 1 /\ now \in Nat
  BY DEF Tick, GrantsInv, Inv, OAInv
<1>3. UNCHANGED <<oas, oaByCorpOp, usage, feeGrants, vsoas, vsoaByCorpOp, vsoaByParticipant>>
  BY DEF Tick, deVars, oaVars, vsoaVars
<1>4. StoresTyped'
  BY <1>2, <1>3 DEF GrantsInv, StoresTyped, IsMapping, RecordsTyped
<1>5. FeeGrantsBacked'
  BY <1>3 DEF GrantsInv, FeeGrantsBacked, BackedByOA, BackedByVSOA, Has
<1> QED BY <1>1, <1>4, <1>5 DEF GrantsInv

LEMMA GrantsBegin == Init => GrantsInv
<1> SUFFICES ASSUME Init PROVE GrantsInv
  OBVIOUS
<1>1. DOMAIN EmptyMap = {} /\ IsMapping(EmptyMap)
  BY DEF EmptyMap, IsMapping
<1>2. Inv
  BY DelegationBegins
<1>3. StoresTyped
  BY <1>1 DEF Init, DelegationInit, StoresTyped
<1>4. FeeGrantsBacked
  BY <1>1 DEF Init, DelegationInit, FeeGrantsBacked
<1> QED BY <1>2, <1>3, <1>4 DEF GrantsInv

LEMMA NextKeepsGrants ==
  ASSUME GrantsInv, [Next]_vars
  PROVE  GrantsInv'
<1>1. CASE Grants
  <2>1. PICK operator \in Operators \cup {NoOperator}, withFeegrant \in BOOLEAN,
             oa \in GrantedAuthorizations :
               GrantOperatorAuthorization(operator, oa, withFeegrant)
    BY <1>1 DEF Grants, GrantedAuthorizations
  <2> QED BY <2>1, GrantKeepsGrants
<1>2. CASE Revokes
  BY <1>2, RevokeKeepsGrants DEF Revokes
<1>3. CASE MeteredMessages
  BY <1>3, SpendKeepsGrants DEF MeteredMessages
<1>4. CASE ParticipantCalls
  <2>1. /\ \A expiration \in RecordExpirations \ {NoTime} : expiration \in Nat
        /\ \A record \in Records : record \in ParticipantRecords
    BY DelegationAssumption DEF Records, ParticipantRecords
  <2> QED BY <1>4, <2>1, GrantRecordKeepsGrants, CheckKeepsGrants, RevokeRecordKeepsGrants,
             UpdateRecordKeepsGrants DEF ParticipantCalls
<1>5. CASE RestartFromGenesis
  BY <1>5, RestartKeepsGrants
<1>6. CASE Tick
  BY <1>6, TickKeepsGrants
<1>7. CASE UNCHANGED vars
  BY <1>7, NothingKeepsGrants
<1> QED BY <1>1, <1>2, <1>3, <1>4, <1>5, <1>6, <1>7 DEF Next

LEMMA GrantsInvariant == Spec => []GrantsInv
<1>1. Init => GrantsInv
  BY GrantsBegin
<1>2. GrantsInv /\ [Next]_vars => GrantsInv'
  BY NextKeepsGrants
<1> QED BY <1>1, <1>2, PTL DEF Spec

LEMMA GrantsInvTyped == GrantsInv => TypeOK
<1> SUFFICES ASSUME GrantsInv PROVE TypeOK
  OBVIOUS
<1>1. Inv /\ StoresTyped /\ FeeGrantsBacked
  BY DEF GrantsInv
<1>2. /\ now \in Nat \ {0} /\ oaSeq \in Nat /\ vsoaSeq \in Nat
      /\ DOMAIN oas \subseteq Nat \ {0} /\ DOMAIN vsoas \subseteq Nat \ {0}
  BY <1>1 DEF Inv, OAInv, VSOAInv, StoresTyped
<1>3. \A id \in DOMAIN oas : oas[id] \in OperatorAuthorizations
  BY <1>1 DEF Inv, OAInv
<1>4. ASSUME NEW k \in DOMAIN oaByCorpOp
      PROVE  k \in Corporations \X Operators /\ oaByCorpOp[k] \in Nat \ {0}
  <2>1. oaByCorpOp[k] \in DOMAIN oas /\ KeyOf(oas[oaByCorpOp[k]]) = k
    BY <1>1, OtherKeys
  <2> QED BY <1>2, <1>3, <2>1 DEF KeyOf, OperatorAuthorizations
<1>5. ASSUME NEW k \in DOMAIN vsoaByCorpOp
      PROVE  k \in Corporations \X Operators /\ vsoaByCorpOp[k] \in Nat \ {0}
  <2>1. vsoaByCorpOp[k] \in DOMAIN vsoas /\ KeyOf(vsoas[vsoaByCorpOp[k]]) = k
    BY <1>1, OtherKeys
  <2> QED BY <1>1, <1>2, <2>1 DEF KeyOf, StoresTyped
<1>6. ASSUME NEW id \in DOMAIN usage
      PROVE  id \in Nat \ {0} /\ usage[id] \in [remaining : Nat, lastReset : Nat]
  BY <1>1, <1>2 DEF Inv, OAInv, IsUsage
<1>7. ASSUME NEW k \in DOMAIN feeGrants
      PROVE  /\ k \in Corporations \X Operators
             /\ feeGrants[k].expiration \in Nat /\ feeGrants[k].msgTypes # {}
  <2>1. k \in DOMAIN oaByCorpOp \/ k \in DOMAIN vsoaByCorpOp
    BY <1>1 DEF FeeGrantsBacked, BackedByOA, BackedByVSOA, Has
  <2> QED BY <1>1, <1>4, <1>5, <2>1 DEF StoresTyped
<1>8. ASSUME NEW id \in DOMAIN vsoas
      PROVE  /\ vsoas[id].corporation \in Corporations /\ vsoas[id].operator \in Operators
             /\ DOMAIN vsoas[id].records \subseteq Participants
             /\ vsoas[id].records
                  = [p \in DOMAIN vsoas[id].records |-> vsoas[id].records[p]]
             /\ \A p \in DOMAIN vsoas[id].records :
                  vsoas[id].records[p] \in ParticipantRecords
  <2>1. IsVSOA(vsoas[id])
    BY <1>1 DEF Inv, VSOAInv
  <2> QED BY <1>1, <2>1 DEF StoresTyped, RecordsTyped, IsVSOA, IsMapping
<1>9. ASSUME NEW p \in DOMAIN vsoaByParticipant
      PROVE  p \in Participants /\ vsoaByParticipant[p] \in Nat \ {0}
  <2>1. /\ vsoaByParticipant[p] \in DOMAIN vsoas
        /\ p \in DOMAIN vsoas[vsoaByParticipant[p]].records
    BY <1>1 DEF Inv, VSOAInv, RecordsAgree
  <2> QED BY <1>2, <1>8, <2>1
<1>10. /\ oas = [k \in DOMAIN oas |-> oas[k]]
       /\ oaByCorpOp = [k \in DOMAIN oaByCorpOp |-> oaByCorpOp[k]]
       /\ usage = [k \in DOMAIN usage |-> usage[k]]
       /\ feeGrants = [k \in DOMAIN feeGrants |-> feeGrants[k]]
       /\ vsoas = [k \in DOMAIN vsoas |-> vsoas[k]]
       /\ vsoaByCorpOp = [k \in DOMAIN vsoaByCorpOp |-> vsoaByCorpOp[k]]
       /\ vsoaByParticipant = [k \in DOMAIN vsoaByParticipant |-> vsoaByParticipant[k]]
  BY <1>1 DEF Inv, OAInv, VSOAInv, StoresTyped, IsMapping
<1>11. /\ \A k \in DOMAIN oaByCorpOp :
            k \in Corporations \X Operators /\ oaByCorpOp[k] \in Nat \ {0}
       /\ \A k \in DOMAIN vsoaByCorpOp :
            k \in Corporations \X Operators /\ vsoaByCorpOp[k] \in Nat \ {0}
       /\ \A id \in DOMAIN usage :
            id \in Nat \ {0} /\ usage[id] \in [remaining : Nat, lastReset : Nat]
       /\ \A k \in DOMAIN feeGrants :
            /\ k \in Corporations \X Operators
            /\ feeGrants[k].expiration \in Nat /\ feeGrants[k].msgTypes # {}
       /\ \A id \in DOMAIN vsoas :
            /\ vsoas[id].corporation \in Corporations /\ vsoas[id].operator \in Operators
            /\ DOMAIN vsoas[id].records \subseteq Participants
            /\ vsoas[id].records
                 = [p \in DOMAIN vsoas[id].records |-> vsoas[id].records[p]]
            /\ \A p \in DOMAIN vsoas[id].records :
                 vsoas[id].records[p] \in ParticipantRecords
       /\ \A p \in DOMAIN vsoaByParticipant :
            p \in Participants /\ vsoaByParticipant[p] \in Nat \ {0}
  BY <1>4, <1>5, <1>6, <1>7, <1>8, <1>9
<1> QED BY <1>2, <1>3, <1>10, <1>11, Zenon DEF TypeOK, IsMap

-----------------------------------------------------------------------------
(* What x/pp and the chain may do to the module while nobody grants an     *)
(* operator authorization, whatever the times.                             *)

Calls ==
  \/ UNCHANGED vars
  \/ \E participant \in Participants :
       \/ \E corp \in Corporations, operator \in Operators, record \in ParticipantRecords :
            GrantVSOperatorAuthorization(corp, operator, participant, record)
       \/ RevokeVSOperatorAuthorization(participant)
       \/ \E expiration \in Nat :
            UpdateVSOperatorAuthorizationExpiration(participant, expiration)
  \/ RestartFromGenesis
  \/ Tick

LEMMA CallsKeepGrants ==
  ASSUME GrantsInv, Calls
  PROVE  GrantsInv'
BY GrantRecordKeepsGrants, RevokeRecordKeepsGrants, UpdateRecordKeepsGrants,
   RestartKeepsGrants, TickKeepsGrants, NothingKeepsGrants DEF Calls

LEMMA CallsKeepOperators ==
  ASSUME Calls
  PROVE  UNCHANGED oas
<1>1. ASSUME NEW participant, NEW corp, NEW operator, NEW record,
             GrantVSOperatorAuthorization(corp, operator, participant, record)
      PROVE  UNCHANGED oas
  BY <1>1 DEF GrantVSOperatorAuthorization, oaVars
<1>2. ASSUME NEW participant, RevokeVSOperatorAuthorization(participant)
      PROVE  UNCHANGED oas
  BY <1>2 DEF RevokeVSOperatorAuthorization, vars, deVars, oaVars
<1>3. ASSUME NEW participant, NEW expiration,
             UpdateVSOperatorAuthorizationExpiration(participant, expiration)
      PROVE  UNCHANGED oas
  BY <1>3 DEF UpdateVSOperatorAuthorizationExpiration, vars, deVars, oaVars
<1>4. ASSUME RestartFromGenesis \/ Tick \/ UNCHANGED vars
      PROVE  UNCHANGED oas
  BY <1>4 DEF RestartFromGenesis, Tick, vars, deVars, oaVars
<1> QED BY <1>1, <1>2, <1>3, <1>4 DEF Calls

-----------------------------------------------------------------------------
(***************************************************************************)
(* The stores of x/de hold what their codecs can encode: ids that genesis  *)
(* accepts, keys of registered corporations and operators, room to spend   *)
(* that is never below nothing, and fee grants that allow some message.    *)
(***************************************************************************)
THEOREM StoresKeepTypes == Spec => []TypeOK
<1>1. GrantsInv => TypeOK
  BY GrantsInvTyped
<1> QED BY <1>1, GrantsInvariant, PTL

(***************************************************************************)
(* A fee grant never outlives what it was given for.  The one grant of a   *)
(* key is written by both kinds of authorization, recomputed from all the  *)
(* records of a VS operator at each of their changes and left alone when a *)
(* record starts another period or the chain restarts.                     *)
(***************************************************************************)
THEOREM FeeGrantsStayBacked == Spec => []FeeGrantsBacked
<1>1. GrantsInv => FeeGrantsBacked
  BY DEF GrantsInv
<1> QED BY <1>1, GrantsInvariant, PTL

-----------------------------------------------------------------------------
(* The stores implement Mandates: first what the mapping reads, and when   *)
(* the steps of Mandates are taken, in terms of the mapping.               *)

LEMMA TermsRead ==
  /\ DOMAIN TermsByPair = DOMAIN oaByCorpOp
  /\ \A k \in DOMAIN oaByCorpOp : TermsByPair[k] = oas[oaByCorpOp[k]]
BY DEF TermsByPair

LEMMA DrawnRead ==
  /\ \A k : k \in DOMAIN DrawnByPair <=> k \in DOMAIN oaByCorpOp /\ oaByCorpOp[k] \in DOMAIN usage
  /\ \A k \in DOMAIN DrawnByPair : DrawnByPair[k] = usage[oaByCorpOp[k]]
BY DEF DrawnByPair, Has

LEMMA RecordRead ==
  /\ DOMAIN RecordByParticipant = DOMAIN vsoaByParticipant
  /\ \A p \in DOMAIN vsoaByParticipant :
       RecordByParticipant[p] = [pair |-> KeyOf(vsoas[vsoaByParticipant[p]]),
                                 record |-> vsoas[vsoaByParticipant[p]].records[p]]
BY DEF RecordByParticipant

LEMMA MandatesUnchanged ==
  ASSUME UNCHANGED <<now, TermsByPair, DrawnByPair, RecordByParticipant>>
  PROVE  UNCHANGED Mandates!mandateVars
BY Zenon DEF Mandates!mandateVars, TermsByPair, DrawnByPair, RecordByParticipant

\* What a signer needs.
SignerMay(corp, signer, msgType) ==
  \/ signer = NoOperator
  \/ /\ <<corp, signer>> \in DOMAIN TermsByPair
     /\ NotExpired(TermsByPair[<<corp, signer>>].expiration, now)
     /\ msgType \in TermsByPair[<<corp, signer>>].msgTypes

LEMMA SignerMapped ==
  ASSUME NEW corp, NEW signer, NEW msgType, Authorized(corp, signer, msgType)
  PROVE  SignerMay(corp, signer, msgType)
BY TermsRead DEF Authorized, HoldsAuthorization, SignerMay, Has

LEMMA MayMapped ==
  ASSUME NEW corp, NEW signer, NEW msgType, SignerMay(corp, signer, msgType)
  PROVE  Mandates!May(corp, signer, msgType)
BY Zenon DEF SignerMay, Mandates!May, Mandates!Valid, Mandates!Has, Mandates!NotExpired,
             NotExpired, Mandates!NoTime, NoTime

LEMMA AuthorizeMapped ==
  ASSUME NEW pair \in Corporations \X Operators, NEW signer \in Operators \cup {NoOperator},
         NEW terms,
         SignerMay(pair[1], signer, GrantMsg), signer # pair[2],
         \A p \in DOMAIN RecordByParticipant : RecordByParticipant[p].pair # pair,
         TermsByPair' = Put(TermsByPair, pair, terms),
         NotExpired(terms.expiration, now),
         DrawnByPair' = Remove(DrawnByPair, pair),
         UNCHANGED <<now, RecordByParticipant>>
  PROVE  Mandates!Proceed
<1>1. Mandates!May(pair[1], signer, GrantMsg)
  BY MayMapped
<1>2. pair \in DOMAIN TermsByPair' /\ TermsByPair'[pair] = terms
  BY DEF Put
<1>3. TermsByPair' = Put(TermsByPair, pair, TermsByPair'[pair])
  BY <1>2
<1>4. NotExpired(TermsByPair'[pair].expiration, now)
  BY <1>2
<1>5. Mandates!Authorize(pair, signer)
  BY <1>1, <1>2, <1>3, <1>4, Zenon
     DEF Mandates!Authorize, Mandates!Has, Mandates!Put, Put, Mandates!Remove, Remove,
         Mandates!NotExpired, NotExpired, Mandates!NoTime, NoTime,
         TermsByPair, DrawnByPair, RecordByParticipant
<1> QED BY <1>5, Zenon DEF Mandates!Proceed, Mandates!Pairs

LEMMA WithdrawMapped ==
  ASSUME NEW pair \in Corporations \X Operators, NEW signer \in Operators \cup {NoOperator},
         SignerMay(pair[1], signer, RevokeMsg), pair \in DOMAIN TermsByPair,
         TermsByPair' = Remove(TermsByPair, pair),
         DrawnByPair' = Remove(DrawnByPair, pair),
         UNCHANGED <<now, RecordByParticipant>>
  PROVE  Mandates!Proceed
<1>1. Mandates!May(pair[1], signer, RevokeMsg)
  BY MayMapped
<1>2. Mandates!Withdraw(pair, signer)
  BY <1>1, Zenon
     DEF Mandates!Withdraw, Mandates!Has, Mandates!Remove, Remove,
         TermsByPair, DrawnByPair, RecordByParticipant
<1> QED BY <1>2, Zenon DEF Mandates!Proceed, Mandates!Pairs

LEMMA EngageMapped ==
  ASSUME NEW pair \in Corporations \X Operators, NEW p \in Participants, NEW record,
         p \notin DOMAIN RecordByParticipant, pair \notin DOMAIN TermsByPair,
         \A q \in DOMAIN RecordByParticipant :
           RecordByParticipant[q].pair[2] = pair[2] => RecordByParticipant[q].pair = pair,
         RecordByParticipant' =
           Put(RecordByParticipant, p, [pair |-> pair, record |-> record]),
         UNCHANGED <<now, TermsByPair, DrawnByPair>>
  PROVE  Mandates!Proceed
<1>1. p \in DOMAIN RecordByParticipant' /\ RecordByParticipant'[p].record = record
  BY DEF Put
<1>2. RecordByParticipant' =
        Put(RecordByParticipant, p, [pair |-> pair, record |-> RecordByParticipant'[p].record])
  BY <1>1
<1>3. Mandates!Engage(p, pair)
  BY <1>1, <1>2, Zenon
     DEF Mandates!Engage, Mandates!Has, Mandates!Put, Put,
         TermsByPair, DrawnByPair, RecordByParticipant
<1> QED BY <1>3, Zenon DEF Mandates!Proceed, Mandates!Pairs

LEMMA DismissMapped ==
  ASSUME NEW p \in DOMAIN RecordByParticipant,
         RecordByParticipant' = Remove(RecordByParticipant, p),
         UNCHANGED <<now, TermsByPair, DrawnByPair>>
  PROVE  Mandates!Proceed
<1>1. Mandates!Dismiss(p)
  BY Zenon DEF Mandates!Dismiss, Mandates!Remove, Remove,
               TermsByPair, DrawnByPair, RecordByParticipant
<1> QED BY <1>1, Zenon DEF Mandates!Proceed, RecordByParticipant

\* The record of p ends at another date.
NewEnd(p, date) ==
  /\ RecordByParticipant' = [RecordByParticipant EXCEPT ![p].record.expiration = date]
  /\ UNCHANGED <<now, TermsByPair, DrawnByPair>>

LEMMA NewEndMapped ==
  ASSUME NEW p, NEW date, NewEnd(p, date)
  PROVE  Mandates!Reschedule(p, date)
BY Zenon DEF NewEnd, Mandates!Reschedule, TermsByPair, DrawnByPair, RecordByParticipant

LEMMA RescheduleMapped ==
  ASSUME NEW p \in DOMAIN RecordByParticipant, NEW date \in RecordExpirations \ {NoTime},
         NewEnd(p, date)
  PROVE  Mandates!Proceed
BY NewEndMapped, Zenon DEF Mandates!Proceed, RecordByParticipant

LEMMA RenewMapped ==
  ASSUME NEW p \in DOMAIN RecordByParticipant,
         RecordByParticipant[p].record.period > 0,
         RecordByParticipant[p].record.expiration # NoTime,
         ~InFuture(RecordByParticipant[p].record.expiration, now),
         NewEnd(p, now + RecordByParticipant[p].record.period)
  PROVE  Mandates!Proceed
<1>1. Mandates!Reschedule(p, now + RecordByParticipant[p].record.period)
  BY NewEndMapped
<1>2. Mandates!Renew(p)
  BY <1>1, Zenon DEF Mandates!Renew, Mandates!InFuture, InFuture, Mandates!NoTime, NoTime,
                     RecordByParticipant
<1> QED BY <1>2, Zenon DEF Mandates!Proceed, RecordByParticipant

LEMMA ElapseMapped ==
  ASSUME now' = now + 1, UNCHANGED <<TermsByPair, DrawnByPair, RecordByParticipant>>
  PROVE  Mandates!Proceed
<1>1. Mandates!Elapse
  BY Zenon DEF Mandates!Elapse, TermsByPair, DrawnByPair, RecordByParticipant
<1> QED BY <1>1, Zenon DEF Mandates!Proceed

\* What Mandates has left for a pair is what the ledger has, refilled.
FullRoom(k) == [remaining |-> TermsByPair[k].limit, lastReset |-> now]

RoomLeft(k) ==
  IF k \in DOMAIN DrawnByPair /\ ~(/\ TermsByPair[k].period > 0
                                   /\ now - DrawnByPair[k].lastReset >= TermsByPair[k].period)
  THEN DrawnByPair[k]
  ELSE FullRoom(k)

LEMMA RoomMapped ==
  ASSUME NEW k
  PROVE  Mandates!Room(k) = RoomLeft(k)
BY Zenon DEF Mandates!Room, Mandates!PeriodOver, Mandates!Has, RoomLeft, FullRoom,
             TermsByPair, DrawnByPair

LEMMA RoomRefilled ==
  ASSUME NEW k \in DOMAIN oaByCorpOp
  PROVE  RoomLeft(k) = Refilled(oaByCorpOp[k])
<1>1. TermsByPair[k] = oas[oaByCorpOp[k]]
  BY TermsRead
<1>2. CASE oaByCorpOp[k] \in DOMAIN usage
  <2>1. k \in DOMAIN DrawnByPair /\ DrawnByPair[k] = usage[oaByCorpOp[k]]
    BY <1>2, DrawnRead
  <2>2. UsageOf(oaByCorpOp[k]) = usage[oaByCorpOp[k]]
    BY <1>2 DEF UsageOf, Has
  <2> QED BY <1>1, <2>1, <2>2 DEF RoomLeft, FullRoom, Refilled
<1>3. CASE oaByCorpOp[k] \notin DOMAIN usage
  <2>1. k \notin DOMAIN DrawnByPair
    BY <1>3, DrawnRead
  <2>2. UsageOf(oaByCorpOp[k]) = FullRoom(k)
    BY <1>1, <1>3 DEF UsageOf, Has, FullRoom
  <2> QED BY <1>1, <2>1, <2>2 DEF RoomLeft, FullRoom, Refilled
<1> QED BY <1>2, <1>3

LEMMA DrawMapped ==
  ASSUME NEW pair \in Corporations \X Operators, NEW amount \in Spends,
         pair \in DOMAIN TermsByPair, NotExpired(TermsByPair[pair].expiration, now),
         amount > 0, amount <= RoomLeft(pair).remaining,
         DrawnByPair' =
           Put(DrawnByPair, pair, [RoomLeft(pair) EXCEPT !.remaining = @ - amount]),
         UNCHANGED <<now, TermsByPair, RecordByParticipant>>
  PROVE  Mandates!Proceed
<1>1. Mandates!Valid(pair)
  BY Zenon DEF Mandates!Valid, Mandates!Has, Mandates!NotExpired, NotExpired,
               Mandates!NoTime, NoTime, TermsByPair
<1>2. Mandates!Room(pair) = RoomLeft(pair)
  BY RoomMapped
<1>3. Mandates!Draw(pair, amount)
  BY <1>1, <1>2, Zenon
     DEF Mandates!Draw, Mandates!Put, Put, TermsByPair, DrawnByPair, RecordByParticipant
<1> QED BY <1>3, Zenon DEF Mandates!Proceed, Mandates!Pairs

-----------------------------------------------------------------------------
(* The steps of operator authorizations.                                   *)

LEMMA TermsStay ==
  ASSUME UNCHANGED <<oas, oaByCorpOp>>
  PROVE  UNCHANGED TermsByPair
BY DEF TermsByPair

LEMMA DrawnStay ==
  ASSUME UNCHANGED <<oaByCorpOp, usage>>
  PROVE  UNCHANGED DrawnByPair
BY DEF DrawnByPair, Has

LEMMA RecordMapStays ==
  ASSUME UNCHANGED <<vsoas, vsoaByParticipant>>
  PROVE  UNCHANGED RecordByParticipant
BY DEF RecordByParticipant, KeyOf

LEMMA GrantIsMandate ==
  ASSUME Inv, NEW operator \in Operators \cup {NoOperator}, NEW oa \in GrantedAuthorizations,
         NEW withFeegrant, GrantOperatorAuthorization(operator, oa, withFeegrant)
  PROVE  Mandates!Proceed
<1> DEFINE key == KeyOf(oa)
           id == IdFor(oaByCorpOp, key, oaSeq)
<1>1. /\ oas' = Put(oas, id, oa)
      /\ oaByCorpOp' = Put(oaByCorpOp, key, id)
      /\ usage' = Remove(usage, id)
      /\ Authorized(oa.corporation, operator, GrantMsg)
      /\ operator # NoOperator => oa.operator # operator
      /\ key \notin DOMAIN vsoaByCorpOp
      /\ NotExpired(oa.expiration, now)
      /\ UNCHANGED <<now, vsoaVars>>
  BY DEF GrantOperatorAuthorization, MayGrant, UsageCleared, KeyOf, Has
<1>2. /\ Has(oaByCorpOp, key) => id \in DOMAIN oas /\ KeyOf(oas[id]) = key
      /\ ~Has(oaByCorpOp, key) => id \notin DOMAIN oas
  BY IndexAfterGrant DEF Inv, OAInv
<1>3. /\ key \in Corporations \X Operators
      /\ key[1] = oa.corporation /\ key[2] = oa.operator
  BY DEF KeyOf, GrantedAuthorizations
<1> HIDE DEF key, id
<1>4. /\ DOMAIN oaByCorpOp' = DOMAIN oaByCorpOp \cup {key}
      /\ oaByCorpOp'[key] = id /\ oas'[id] = oa
      /\ DOMAIN usage' = DOMAIN usage \ {id}
      /\ \A i \in DOMAIN usage' : usage'[i] = usage[i]
  BY <1>1 DEF Put, Remove
\* The other pairs have other ids.
<1>5. ASSUME NEW k \in DOMAIN oaByCorpOp, k # key
      PROVE  /\ oaByCorpOp'[k] = oaByCorpOp[k] /\ oaByCorpOp[k] # id
             /\ oas'[oaByCorpOp[k]] = oas[oaByCorpOp[k]]
  <2>1. oaByCorpOp'[k] = oaByCorpOp[k]
    BY <1>1, <1>5 DEF Put
  <2>2. oaByCorpOp[k] \in DOMAIN oas /\ KeyOf(oas[oaByCorpOp[k]]) = k
    BY DEF Inv, OAInv, IndexAgrees
  <2>3. oaByCorpOp[k] # id
    BY <1>2, <1>5, <2>2
  <2> QED BY <1>1, <2>1, <2>2, <2>3 DEF Put
<1>6. TermsByPair' = Put(TermsByPair, key, oa)
  <2>1. ASSUME NEW k \in DOMAIN oaByCorpOp'
        PROVE  oas'[oaByCorpOp'[k]] = IF k = key THEN oa ELSE TermsByPair[k]
    BY <1>4, <1>5, TermsRead
  <2>2. DOMAIN oaByCorpOp' = DOMAIN TermsByPair \cup {key}
    BY <1>4, TermsRead
  <2> QED BY <2>1, <2>2 DEF TermsByPair, Put
<1>7. DrawnByPair' = Remove(DrawnByPair, key)
  <2>1. ASSUME NEW k \in DOMAIN oaByCorpOp'
        PROVE  Has(usage', oaByCorpOp'[k]) <=> k \in DOMAIN DrawnByPair \ {key}
    BY <1>4, <1>5, DrawnRead DEF Has
  <2>2. DOMAIN DrawnByPair \ {key} \subseteq DOMAIN oaByCorpOp'
    BY <1>4, DrawnRead
  <2>3. {k \in DOMAIN oaByCorpOp' : Has(usage', oaByCorpOp'[k])} = DOMAIN DrawnByPair \ {key}
    BY <2>1, <2>2
  <2>4. ASSUME NEW k \in DOMAIN DrawnByPair \ {key}
        PROVE  usage'[oaByCorpOp'[k]] = DrawnByPair[k]
    BY <1>4, <1>5, DrawnRead
  <2> QED BY <2>3, <2>4 DEF DrawnByPair, Remove
<1>8. \A p \in DOMAIN RecordByParticipant : RecordByParticipant[p].pair # key
  <2>1. SUFFICES ASSUME NEW p \in DOMAIN vsoaByParticipant
                 PROVE  KeyOf(vsoas[vsoaByParticipant[p]]) # key
    BY RecordRead
  <2>2. KeyOf(vsoas[vsoaByParticipant[p]]) \in DOMAIN vsoaByCorpOp
    BY DEF Inv, VSOAInv, RecordsAgree, IndexAgrees
  <2> QED BY <1>1, <2>2
<1>9. UNCHANGED <<now, RecordByParticipant>>
  BY <1>1, RecordMapStays DEF vsoaVars
<1>10. SignerMay(key[1], operator, GrantMsg) /\ operator # key[2]
  BY <1>1, <1>3, SignerMapped, DelegationAssumption
<1> QED BY <1>1, <1>3, <1>6, <1>7, <1>8, <1>9, <1>10, AuthorizeMapped

LEMMA RevokeIsMandate ==
  ASSUME Inv, NEW corp \in Corporations, NEW operator \in Operators \cup {NoOperator},
         NEW grantee \in Operators, RevokeOperatorAuthorization(corp, operator, grantee)
  PROVE  Mandates!Proceed
<1> DEFINE key == <<corp, grantee>>
           id == oaByCorpOp[key]
<1>1. /\ key \in DOMAIN oaByCorpOp
      /\ Authorized(corp, operator, RevokeMsg)
      /\ oas' = Remove(oas, id)
      /\ oaByCorpOp' = Remove(oaByCorpOp, key)
      /\ usage' = Remove(usage, id)
      /\ UNCHANGED <<now, oaSeq, vsoaVars>>
  BY DEF RevokeOperatorAuthorization, UsageCleared, Has
<1>2. key \in Corporations \X Operators /\ key[1] = corp
  OBVIOUS
<1> HIDE DEF key
<1>3. /\ DOMAIN oaByCorpOp' = DOMAIN oaByCorpOp \ {key}
      /\ \A k \in DOMAIN oaByCorpOp' : oaByCorpOp'[k] = oaByCorpOp[k]
  BY <1>1 DEF Remove
<1>4. ASSUME NEW k \in DOMAIN oaByCorpOp'
      PROVE  oaByCorpOp[k] # id /\ oaByCorpOp[k] \in DOMAIN oas
  BY <1>1, <1>3 DEF Inv, OAInv, IndexAgrees
<1> HIDE DEF id
<1>5. TermsByPair' = Remove(TermsByPair, key)
  <2>1. ASSUME NEW k \in DOMAIN oaByCorpOp'
        PROVE  oas'[oaByCorpOp'[k]] = TermsByPair[k]
    BY <1>1, <1>3, <1>4, TermsRead DEF Remove
  <2> QED BY <1>3, <2>1, TermsRead DEF TermsByPair, Remove
<1>6. DrawnByPair' = Remove(DrawnByPair, key)
  <2>1. /\ DOMAIN usage' = DOMAIN usage \ {id}
        /\ \A i \in DOMAIN usage' : usage'[i] = usage[i]
    BY <1>1 DEF Remove
  <2>2. {k \in DOMAIN oaByCorpOp' : Has(usage', oaByCorpOp'[k])} = DOMAIN DrawnByPair \ {key}
    BY <1>3, <1>4, <2>1, DrawnRead DEF Has
  <2>3. ASSUME NEW k \in DOMAIN DrawnByPair \ {key}
        PROVE  usage'[oaByCorpOp'[k]] = DrawnByPair[k]
    <3>1. k \in DOMAIN oaByCorpOp' /\ oaByCorpOp[k] \in DOMAIN usage
      BY <1>3, DrawnRead
    <3> QED BY <1>3, <1>4, <2>1, <3>1, DrawnRead
  <2> QED BY <2>2, <2>3 DEF DrawnByPair, Remove
<1>7. UNCHANGED <<now, RecordByParticipant>>
  BY <1>1, RecordMapStays DEF vsoaVars
<1>8. SignerMay(key[1], operator, RevokeMsg) /\ key \in DOMAIN TermsByPair
  BY <1>1, <1>2, SignerMapped, TermsRead
<1> QED BY <1>2, <1>5, <1>6, <1>7, <1>8, WithdrawMapped

LEMMA SpendIsMandate ==
  ASSUME Inv, NEW corp \in Corporations, NEW operator \in Operators, NEW msgType,
         NEW spend \in Spends, SpendWithAuthorization(corp, operator, msgType, spend)
  PROVE  Mandates!Proceed
<1> DEFINE key == <<corp, operator>>
           id == oaByCorpOp[key]
           left == [Refilled(id) EXCEPT !.remaining = @ - spend]
<1>1. /\ key \in DOMAIN oaByCorpOp
      /\ NotExpired(oas[id].expiration, now)
      /\ spend > 0 /\ Refilled(id).remaining >= spend
      /\ usage' = Put(usage, id, left)
      /\ UNCHANGED <<now, oas, oaByCorpOp, oaSeq, vsoaVars>>
  BY DEF SpendWithAuthorization, HoldsAuthorization, Has
<1>2. key \in Corporations \X Operators
  OBVIOUS
<1>3. TermsByPair[key] = oas[id] /\ key \in DOMAIN TermsByPair /\ RoomLeft(key) = Refilled(id)
  BY <1>1, TermsRead, RoomRefilled
<1>4. spend <= RoomLeft(key).remaining
  <2>1. Refilled(id).remaining \in Nat
    BY <1>1, RefilledTyped DEF Inv, OAInv, IndexAgrees, IsUsage
  <2>2. spend \in Nat
    BY DelegationAssumption
  <2> QED BY <1>1, <1>3, <2>1, <2>2
<1>5. left = [RoomLeft(key) EXCEPT !.remaining = @ - spend]
  BY <1>3
<1> HIDE DEF key, left
\* The other pairs have other ids.
<1>6. ASSUME NEW k \in DOMAIN oaByCorpOp, k # key
      PROVE  oaByCorpOp[k] # id
  BY <1>1, <1>6 DEF Inv, OAInv, IndexAgrees
<1> HIDE DEF id
<1>7. /\ DOMAIN usage' = DOMAIN usage \cup {id} /\ usage'[id] = left
      /\ \A i \in DOMAIN usage \ {id} : usage'[i] = usage[i]
  BY <1>1 DEF Put
<1>8. DrawnByPair' = Put(DrawnByPair, key, left)
  <2>1. oaByCorpOp' = oaByCorpOp /\ oaByCorpOp[key] = id
    BY <1>1 DEF id
  <2>2. {k \in DOMAIN oaByCorpOp' : Has(usage', oaByCorpOp'[k])} = DOMAIN DrawnByPair \cup {key}
    BY <1>1, <1>6, <1>7, <2>1, DrawnRead DEF Has
  <2>3. ASSUME NEW k \in DOMAIN DrawnByPair \cup {key}
        PROVE  usage'[oaByCorpOp'[k]] = IF k = key THEN left ELSE DrawnByPair[k]
    BY <1>1, <1>6, <1>7, <2>1, DrawnRead
  <2> QED BY <2>2, <2>3 DEF DrawnByPair, Put
<1>9. UNCHANGED <<now, TermsByPair, RecordByParticipant>>
  BY <1>1, TermsStay, RecordMapStays DEF vsoaVars
<1> QED BY <1>1, <1>2, <1>3, <1>4, <1>5, <1>8, <1>9, DrawMapped

-----------------------------------------------------------------------------
(* The calls of x/pp.                                                      *)

LEMMA GrantRecordIsMandate ==
  ASSUME Inv, NEW corp \in Corporations, NEW operator \in Operators,
         NEW participant \in Participants, NEW record,
         GrantVSOperatorAuthorization(corp, operator, participant, record)
  PROVE  Mandates!Proceed
<1> DEFINE key == <<corp, operator>>
           id == IdFor(vsoaByCorpOp, key, vsoaSeq)
           had == IF Has(vsoaByCorpOp, key) THEN vsoas[id].records ELSE EmptyMap
           records == Put(had, participant, record)
           vsoa == [corporation |-> corp, operator |-> operator, records |-> records]
           R == RecordByParticipant
           engaged == [pair |-> key, record |-> record]
<1>1. /\ vsoas' = Put(vsoas, id, vsoa)
      /\ vsoaByParticipant' = Put(vsoaByParticipant, participant, id)
      /\ participant \notin DOMAIN vsoaByParticipant
      /\ key \notin DOMAIN oaByCorpOp
      /\ \A i \in DOMAIN vsoas : vsoas[i].operator = operator => vsoas[i].corporation = corp
      /\ UNCHANGED <<now, oaVars>>
  BY DEF GrantVSOperatorAuthorization, MayRecord, Has
<1>2. KeyOf(vsoa) = key /\ vsoa.records = records /\ key \in Corporations \X Operators
  BY DEF KeyOf
<1> HIDE DEF vsoa
<1>3. /\ Has(vsoaByCorpOp, key) => id \in DOMAIN vsoas /\ KeyOf(vsoas[id]) = key
      /\ ~Has(vsoaByCorpOp, key) => id \notin DOMAIN vsoas
  BY <1>2, IndexAfterGrant DEF Inv, VSOAInv
<1>4. /\ records[participant] = record
      /\ \A p : p # participant /\ p \in DOMAIN had => records[p] = had[p]
      /\ id \in DOMAIN vsoas => KeyOf(vsoas[id]) = key /\ had = vsoas[id].records
  BY <1>3 DEF Put
<1> HIDE DEF id, had, records
<1>5. /\ vsoas'[id] = vsoa
      /\ \A i \in DOMAIN vsoas \ {id} : vsoas'[i] = vsoas[i]
      /\ DOMAIN vsoaByParticipant' = DOMAIN vsoaByParticipant \cup {participant}
      /\ vsoaByParticipant'[participant] = id
      /\ \A p \in DOMAIN vsoaByParticipant : vsoaByParticipant'[p] = vsoaByParticipant[p]
  BY <1>1 DEF Put
<1>6. R'[participant] = engaged
  BY <1>2, <1>4, <1>5, RecordRead DEF RecordByParticipant, KeyOf
\* The others keep their records, those of the same authorization too.
<1>7. ASSUME NEW p \in DOMAIN vsoaByParticipant
      PROVE  R'[p] = R[p]
  <2> DEFINE i == vsoaByParticipant[p]
  <2>1. i \in DOMAIN vsoas /\ p \in DOMAIN vsoas[i].records /\ p # participant
    BY <1>1 DEF Inv, VSOAInv, RecordsAgree
  <2>2. vsoaByParticipant'[p] = i
    BY <1>5
  <2> HIDE DEF i
  <2>3. KeyOf(vsoas'[i]) = KeyOf(vsoas[i]) /\ vsoas'[i].records[p] = vsoas[i].records[p]
    <3>1. CASE i = id
      BY <1>2, <1>4, <1>5, <2>1, <3>1
    <3>2. CASE i # id
      BY <1>5, <2>1, <3>2
    <3> QED BY <3>1, <3>2
  <2>4. R'[p] = [pair |-> KeyOf(vsoas'[i]), record |-> vsoas'[i].records[p]]
    BY <1>5, <2>2 DEF RecordByParticipant, KeyOf
  <2>5. R[p] = [pair |-> KeyOf(vsoas[i]), record |-> vsoas[i].records[p]]
    BY RecordRead DEF i
  <2> QED BY <2>3, <2>4, <2>5
<1>8. DOMAIN R = DOMAIN vsoaByParticipant
  BY RecordRead
<1>9. R' = Put(R, participant, engaged)
  <2>1. DOMAIN R' = DOMAIN R \cup {participant}
    BY <1>5, <1>8 DEF RecordByParticipant
  <2>2. R' = [p \in DOMAIN R' |-> R'[p]]
    BY DEF RecordByParticipant
  <2>3. \A p \in DOMAIN R' : R'[p] = IF p = participant THEN engaged ELSE R[p]
    BY <1>1, <1>6, <1>7, <1>8, <2>1
  <2> HIDE DEF R, engaged
  <2> QED BY <2>1, <2>2, <2>3 DEF Put
<1>10. ASSUME NEW q \in DOMAIN R, R[q].pair[2] = key[2]
       PROVE  R[q].pair = key
  <2>1. vsoaByParticipant[q] \in DOMAIN vsoas
    BY <1>8 DEF Inv, VSOAInv, RecordsAgree
  <2>2. R[q].pair = KeyOf(vsoas[vsoaByParticipant[q]])
    BY <1>8, RecordRead
  <2> QED BY <1>1, <1>10, <2>1, <2>2 DEF KeyOf
<1>11. UNCHANGED <<now, TermsByPair, DrawnByPair>>
  BY <1>1, TermsStay, DrawnStay DEF oaVars
<1>12. participant \notin DOMAIN R /\ key \notin DOMAIN TermsByPair
  BY <1>1, <1>8, TermsRead
<1> HIDE DEF key
<1> QED BY <1>2, <1>9, <1>10, <1>11, <1>12, EngageMapped

LEMMA NothingIsMandate ==
  ASSUME UNCHANGED vars
  PROVE  UNCHANGED Mandates!mandateVars
<1>1. UNCHANGED <<now, oas, oaByCorpOp, usage, vsoas, vsoaByParticipant>>
  BY DEF vars, deVars, oaVars, vsoaVars
<1> QED BY <1>1, TermsStay, DrawnStay, RecordMapStays, MandatesUnchanged

LEMMA RevokeRecordIsMandate ==
  ASSUME Inv, NEW participant, RevokeVSOperatorAuthorization(participant)
  PROVE  Mandates!Proceed \/ UNCHANGED Mandates!mandateVars
<1>1. CASE participant \notin DOMAIN vsoaByParticipant
  <2>1. UNCHANGED vars
    BY <1>1 DEF RevokeVSOperatorAuthorization, Has
  <2> QED BY <2>1, NothingIsMandate
<1>2. CASE participant \in DOMAIN vsoaByParticipant
  <2> DEFINE id == vsoaByParticipant[participant]
             vsoa == vsoas[id]
             records == Remove(vsoa.records, participant)
             left == [vsoa EXCEPT !.records = records]
             R == RecordByParticipant
  <2>1. /\ vsoas' = IF records = EmptyMap THEN Remove(vsoas, id) ELSE Put(vsoas, id, left)
        /\ vsoaByParticipant' = Remove(vsoaByParticipant, participant)
        /\ UNCHANGED <<now, oaVars>>
    BY <1>2 DEF RevokeVSOperatorAuthorization, Has
  <2>2. id \in DOMAIN vsoas /\ IsVSOA(vsoa)
    BY <1>2 DEF Inv, VSOAInv, RecordsAgree
  <2>3. KeyOf(left) = KeyOf(vsoa) /\ left.records = records
    BY <2>2 DEF IsVSOA, KeyOf
  <2>4. /\ DOMAIN vsoaByParticipant' = DOMAIN vsoaByParticipant \ {participant}
        /\ \A p \in DOMAIN vsoaByParticipant' : vsoaByParticipant'[p] = vsoaByParticipant[p]
    BY <2>1 DEF Remove
  <2>5. ASSUME NEW p \in DOMAIN vsoaByParticipant'
        PROVE  R'[p] = R[p]
    <3> DEFINE i == vsoaByParticipant[p]
    <3>1. /\ p \in DOMAIN vsoaByParticipant /\ p # participant
          /\ i \in DOMAIN vsoas /\ p \in DOMAIN vsoas[i].records
      BY <2>4 DEF Inv, VSOAInv, RecordsAgree
    <3>2. vsoaByParticipant'[p] = i
      BY <2>4
    <3> HIDE DEF i
    <3>3. KeyOf(vsoas'[i]) = KeyOf(vsoas[i]) /\ vsoas'[i].records[p] = vsoas[i].records[p]
      <4>1. CASE i = id
        <5>1. p \in DOMAIN records /\ records[p] = vsoas[i].records[p]
          BY <3>1, <4>1 DEF Remove
        <5>2. records # EmptyMap
          BY <5>1 DEF EmptyMap
        <5>3. vsoas'[i] = left
          BY <2>1, <4>1, <5>2 DEF Put
        <5> QED BY <2>3, <4>1, <5>1, <5>3
      <4>2. CASE i # id
        <5> HIDE DEF id, left, records
        <5>1. vsoas'[i] = vsoas[i]
          BY <2>1, <3>1, <4>2 DEF Put, Remove
        <5> QED BY <5>1
      <4> QED BY <4>1, <4>2
    <3>4. R'[p] = [pair |-> KeyOf(vsoas'[i]), record |-> vsoas'[i].records[p]]
      BY <3>2 DEF RecordByParticipant, KeyOf
    <3>5. R[p] = [pair |-> KeyOf(vsoas[i]), record |-> vsoas[i].records[p]]
      BY <3>1, RecordRead DEF i
    <3> QED BY <3>3, <3>4, <3>5
  <2>6. DOMAIN R = DOMAIN vsoaByParticipant /\ DOMAIN R' = DOMAIN R \ {participant}
    BY <2>4, RecordRead DEF RecordByParticipant
  <2>7. R' = [p \in DOMAIN R' |-> R'[p]]
    BY DEF RecordByParticipant
  <2>8. UNCHANGED <<now, TermsByPair, DrawnByPair>>
    BY <2>1, TermsStay, DrawnStay DEF oaVars
  <2> HIDE DEF R
  <2>9. R' = Remove(R, participant)
    BY <2>4, <2>5, <2>6, <2>7 DEF Remove
  <2> QED BY <1>2, <2>6, <2>8, <2>9, DismissMapped DEF R
<1> QED BY <1>1, <1>2

\* Nobody else's record takes the new end, in the same authorization or another.
LEMMA EndChanges ==
  ASSUME Inv, NEW participant \in DOMAIN vsoaByParticipant, NEW date, NEW x,
         KeyOf(x) = KeyOf(vsoas[vsoaByParticipant[participant]]),
         x.records = [vsoas[vsoaByParticipant[participant]].records
                        EXCEPT ![participant].expiration = date],
         vsoas' = Put(vsoas, vsoaByParticipant[participant], x),
         UNCHANGED <<now, oaVars, vsoaByParticipant>>
  PROVE  NewEnd(participant, date)
<1> DEFINE id == vsoaByParticipant[participant]
           R == RecordByParticipant
           record == vsoas[id].records[participant]
           later == [record EXCEPT !.expiration = date]
<1>1. id \in DOMAIN vsoas /\ participant \in DOMAIN vsoas[id].records
  BY DEF Inv, VSOAInv, RecordsAgree
<1>2. /\ x.records[participant] = later
      /\ \A p \in DOMAIN vsoas[id].records : p # participant =>
           x.records[p] = vsoas[id].records[p]
  BY <1>1
<1>3. vsoas'[id] = x /\ \A i \in DOMAIN vsoas \ {id} : vsoas'[i] = vsoas[i]
  BY DEF Put
<1>4. R[participant] = [pair |-> KeyOf(vsoas[id]), record |-> record]
  BY RecordRead
<1>5. R'[participant] = [pair |-> KeyOf(vsoas[id]), record |-> later]
  BY <1>2, <1>3 DEF RecordByParticipant, KeyOf
<1>6. ASSUME NEW p \in DOMAIN vsoaByParticipant, p # participant
      PROVE  R'[p] = R[p]
  <2> DEFINE i == vsoaByParticipant[p]
  <2>1. i \in DOMAIN vsoas /\ p \in DOMAIN vsoas[i].records
    BY DEF Inv, VSOAInv, RecordsAgree
  <2>2. KeyOf(vsoas'[i]) = KeyOf(vsoas[i]) /\ vsoas'[i].records[p] = vsoas[i].records[p]
    BY <1>2, <1>3, <1>6, <2>1
  <2>3. R'[p] = [pair |-> KeyOf(vsoas'[i]), record |-> vsoas'[i].records[p]]
    BY DEF RecordByParticipant, KeyOf
  <2>4. R[p] = [pair |-> KeyOf(vsoas[i]), record |-> vsoas[i].records[p]]
    BY RecordRead
  <2> QED BY <2>2, <2>3, <2>4
<1>7. R' = [R EXCEPT ![participant] = [pair |-> KeyOf(vsoas[id]), record |-> later]]
  <2>1. /\ DOMAIN R = DOMAIN vsoaByParticipant /\ DOMAIN R' = DOMAIN R
        /\ R = [p \in DOMAIN R |-> R[p]] /\ R' = [p \in DOMAIN R' |-> R'[p]]
    BY DEF RecordByParticipant
  <2> HIDE DEF R, later, record
  <2> QED BY <1>5, <1>6, <2>1
<1>8. [pair |-> KeyOf(vsoas[id]), record |-> later]
        = [R[participant] EXCEPT !.record.expiration = date]
  BY <1>4
<1>9. R' = [R EXCEPT ![participant].record.expiration = date]
  <2> HIDE DEF R, later, record
  <2> QED BY <1>7, <1>8
<1>10. UNCHANGED <<TermsByPair, DrawnByPair>>
  BY TermsStay, DrawnStay DEF oaVars
<1> QED BY <1>9, <1>10 DEF NewEnd

LEMMA UpdateRecordIsMandate ==
  ASSUME Inv, NEW participant, NEW expiration \in RecordExpirations \ {NoTime},
         UpdateVSOperatorAuthorizationExpiration(participant, expiration)
  PROVE  Mandates!Proceed \/ UNCHANGED Mandates!mandateVars
<1>1. CASE participant \notin DOMAIN vsoaByParticipant
  <2>1. UNCHANGED vars
    BY <1>1 DEF UpdateVSOperatorAuthorizationExpiration, Has
  <2> QED BY <2>1, NothingIsMandate
<1>2. CASE participant \in DOMAIN vsoaByParticipant
  <2> DEFINE id == vsoaByParticipant[participant]
             vsoa == vsoas[id]
             records == [vsoa.records EXCEPT ![participant].expiration = expiration]
             x == [vsoa EXCEPT !.records = records]
  <2>1. /\ vsoas' = Put(vsoas, id, x)
        /\ UNCHANGED <<now, oaVars, vsoaByParticipant>>
    BY <1>2 DEF UpdateVSOperatorAuthorizationExpiration, Has
  <2>2. id \in DOMAIN vsoas /\ IsVSOA(vsoa)
    BY <1>2 DEF Inv, VSOAInv, RecordsAgree
  <2> HIDE DEF records
  <2>3. KeyOf(x) = KeyOf(vsoa) /\ x.records = records
    BY <2>2 DEF IsVSOA, KeyOf
  <2>4. NewEnd(participant, expiration)
    <3> HIDE DEF x
    <3> QED BY <1>2, <2>1, <2>3, EndChanges DEF records
  <2>5. participant \in DOMAIN RecordByParticipant
    BY <1>2, RecordRead
  <2> QED BY <2>4, <2>5, RescheduleMapped
<1> QED BY <1>1, <1>2

LEMMA CheckIsMandate ==
  ASSUME Inv, NEW corp, NEW operator, NEW participant, NEW msgType,
         CheckVSOperatorAuthorizationOnParticipant(corp, operator, participant, msgType)
  PROVE  Mandates!Proceed \/ UNCHANGED Mandates!mandateVars
<1> DEFINE id == vsoaByParticipant[participant]
           vsoa == vsoas[id]
           record == vsoa.records[participant]
           date == now + record.period
           records == [vsoa.records EXCEPT ![participant].expiration = date]
           x == [vsoa EXCEPT !.records = records]
<1>1. /\ participant \in DOMAIN vsoaByParticipant
      /\ UNCHANGED <<now, oaVars, vsoaByParticipant>>
      /\ \/ UNCHANGED vsoas
         \/ /\ record.period > 0 /\ record.expiration # NoTime
            /\ ~InFuture(record.expiration, now)
            /\ vsoas' = [vsoas EXCEPT ![id].records[participant].expiration = date]
  BY DEF CheckVSOperatorAuthorizationOnParticipant, Has
<1>2. CASE UNCHANGED vsoas
  BY <1>1, <1>2, TermsStay, DrawnStay, RecordMapStays, MandatesUnchanged DEF oaVars
<1>3. CASE /\ record.period > 0 /\ record.expiration # NoTime
           /\ ~InFuture(record.expiration, now)
           /\ vsoas' = [vsoas EXCEPT ![id].records[participant].expiration = date]
  <2>1. id \in DOMAIN vsoas /\ IsVSOA(vsoa) /\ IsMapping(vsoas)
    BY <1>1 DEF Inv, VSOAInv, RecordsAgree
  <2>2. vsoas' = [vsoas EXCEPT ![id] = x]
    BY <1>3
  <2> HIDE DEF records, date
  <2>3. KeyOf(x) = KeyOf(vsoa) /\ x.records = records
    BY <2>1 DEF IsVSOA, KeyOf
  <2> HIDE DEF x
  <2>4. vsoas' = Put(vsoas, id, x)
    BY <2>1, <2>2 DEF Put, IsMapping
  <2>5. NewEnd(participant, date)
    BY <1>1, <2>3, <2>4, EndChanges DEF records
  <2>6. /\ participant \in DOMAIN RecordByParticipant
        /\ RecordByParticipant[participant].record = record
    BY <1>1, RecordRead
  <2>7. NewEnd(participant, now + RecordByParticipant[participant].record.period)
    BY <2>5, <2>6 DEF date
  <2> QED BY <1>3, <2>6, <2>7, RenewMapped
<1> QED BY <1>1, <1>2, <1>3

-----------------------------------------------------------------------------
(* Restarts, time, and every step.                                         *)

\* The rows leave one index to be built: the one there was.
LEMMA RestartIsNoMandate ==
  ASSUME Inv, RestartFromGenesis
  PROVE  UNCHANGED Mandates!mandateVars
<1>1. UNCHANGED <<now, oas, usage, vsoas>>
  BY DEF RestartFromGenesis, UsageExported
<1>2. Inv'
  BY RestartKeepsInv
<1>3. /\ DOMAIN oaByCorpOp' = DOMAIN oaByCorpOp
      /\ \A k \in DOMAIN oaByCorpOp : oaByCorpOp'[k] = oaByCorpOp[k]
  <2>1. /\ \A k \in DOMAIN oaByCorpOp : oaByCorpOp[k] \in DOMAIN oas /\ KeyOf(oas[oaByCorpOp[k]]) = k
        /\ \A i \in DOMAIN oas : KeyOf(oas[i]) \in DOMAIN oaByCorpOp /\ oaByCorpOp[KeyOf(oas[i])] = i
    BY DEF Inv, OAInv, IndexAgrees
  <2>2. /\ \A k \in DOMAIN oaByCorpOp' :
             oaByCorpOp'[k] \in DOMAIN oas /\ KeyOf(oas[oaByCorpOp'[k]]) = k
        /\ \A i \in DOMAIN oas :
             KeyOf(oas[i]) \in DOMAIN oaByCorpOp' /\ oaByCorpOp'[KeyOf(oas[i])] = i
    BY <1>1, <1>2 DEF Inv, OAInv, IndexAgrees, KeyOf
  <2> QED BY <2>1, <2>2
<1>4. /\ DOMAIN vsoaByParticipant' = DOMAIN vsoaByParticipant
      /\ \A p \in DOMAIN vsoaByParticipant : vsoaByParticipant'[p] = vsoaByParticipant[p]
  BY <1>1, <1>2 DEF Inv, VSOAInv, RecordsAgree
<1>5. UNCHANGED TermsByPair
  BY <1>1, <1>3 DEF TermsByPair
<1>6. UNCHANGED DrawnByPair
  <2>1. {k \in DOMAIN oaByCorpOp' : Has(usage', oaByCorpOp'[k])}
          = {k \in DOMAIN oaByCorpOp : Has(usage, oaByCorpOp[k])}
    BY <1>1, <1>3 DEF Has
  <2>2. \A k \in DOMAIN oaByCorpOp : usage'[oaByCorpOp'[k]] = usage[oaByCorpOp[k]]
    BY <1>1, <1>3
  <2> QED BY <2>1, <2>2 DEF DrawnByPair
<1>7. UNCHANGED RecordByParticipant
  BY <1>1, <1>4 DEF RecordByParticipant, KeyOf
<1> QED BY <1>1, <1>5, <1>6, <1>7, MandatesUnchanged

LEMMA TickIsMandate ==
  ASSUME Tick
  PROVE  Mandates!Proceed
<1>1. /\ now' = now + 1
      /\ UNCHANGED <<oas, oaByCorpOp, usage, vsoas, vsoaByParticipant>>
  BY DEF Tick, deVars, oaVars, vsoaVars
<1> QED BY <1>1, TermsStay, DrawnStay, RecordMapStays, ElapseMapped

LEMMA StepIsMandate ==
  ASSUME Inv, [Next]_vars
  PROVE  Mandates!Proceed \/ UNCHANGED Mandates!mandateVars
<1>1. CASE Grants
  <2>1. PICK operator \in Operators \cup {NoOperator}, withFeegrant \in BOOLEAN,
             oa \in GrantedAuthorizations :
               GrantOperatorAuthorization(operator, oa, withFeegrant)
    BY <1>1 DEF Grants, GrantedAuthorizations
  <2> QED BY <2>1, GrantIsMandate
<1>2. CASE Revokes
  BY <1>2, RevokeIsMandate DEF Revokes
<1>3. CASE MeteredMessages
  BY <1>3, SpendIsMandate DEF MeteredMessages
<1>4. CASE ParticipantCalls
  BY <1>4, GrantRecordIsMandate, CheckIsMandate, RevokeRecordIsMandate, UpdateRecordIsMandate
     DEF ParticipantCalls
<1>5. CASE RestartFromGenesis
  BY <1>5, RestartIsNoMandate
<1>6. CASE Tick
  BY <1>6, TickIsMandate
<1>7. CASE UNCHANGED vars
  BY <1>7, NothingIsMandate
<1> QED BY <1>1, <1>2, <1>3, <1>4, <1>5, <1>6, <1>7 DEF Next

LEMMA MandatesBegin == Init => Mandates!Begin
<1> SUFFICES ASSUME Init PROVE Mandates!Begin
  OBVIOUS
<1>1. /\ now = 1
      /\ oaByCorpOp = EmptyMap /\ usage = EmptyMap /\ vsoaByParticipant = EmptyMap
  BY DEF Init, DelegationInit
<1>2. DOMAIN EmptyMap = {}
  BY DEF EmptyMap
<1>3. TermsByPair = EmptyMap /\ DrawnByPair = EmptyMap /\ RecordByParticipant = EmptyMap
  BY <1>1, <1>2 DEF TermsByPair, DrawnByPair, RecordByParticipant, EmptyMap
<1> QED BY <1>1, <1>3, Zenon
        DEF Mandates!Begin, Mandates!EmptyMap, EmptyMap,
            TermsByPair, DrawnByPair, RecordByParticipant

(***************************************************************************)
(* The stores of x/de and their genesis implement Mandates: every message, *)
(* every call of x/pp and every restart changes at most one mandate, in    *)
(* one of the ways Mandates has, for any number of corporations, operators *)
(* and participants.                                                       *)
(***************************************************************************)
THEOREM StoresImplementMandates == Spec => StoresAreMandates
<1>1. Inv /\ [Next]_vars => [Mandates!Proceed]_Mandates!mandateVars
  BY StepIsMandate
<1> QED
  BY <1>1, MandatesBegin, DelegationInvariant, PTL
     DEF Spec, StoresAreMandates, Mandates!MandateSpec
=============================================================================
