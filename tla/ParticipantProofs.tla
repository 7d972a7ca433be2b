------------------------- MODULE ParticipantProofs -------------------------
(***************************************************************************)
(* Theorems about the participants of x/pp and their sessions, for any     *)
(* corporations, ecosystems, schemas, fees, rates and prices, and for any  *)
(* number of participants.                                                 *)
(***************************************************************************)
EXTENDS Sessions, SchemaLemmas, DelegationProofs

-----------------------------------------------------------------------------
(* The accounts.                                                           *)

AccountsTyped ==
  /\ td \in [Corporations -> TrustDepositEntries]
  /\ balance \in [Corporations -> Nat]
  /\ escrow \in Nat
  /\ history \in [Corporations -> Histories]

\* What DepositsAccounted finds in the trust deposit of a corporation.
Booked(c) ==
  td[c].deposit - td[c].claimable - history[c].reclaimed + history[c].cancelled
    + td[c].slashed + history[c].forgotten

\* What FeeContracts calls so.
Wealth(c) == balance[c] + td[c].deposit - history[c].reclaimed

\* What governance slashed, and what it burned when that was repaid.
Sunk(c) == td[c].slashed + history[c].forgotten + history[c].repaid

At(c, corp, n) == IF c = corp THEN n ELSE 0

NothingSinks == \A c \in Corporations : Sunk(c)' = Sunk(c)

LEMMA AccountNumbers ==
  ASSUME AccountsTyped, NEW c \in Corporations
  PROVE  /\ td[c] \in TrustDepositEntries /\ balance[c] \in Nat
         /\ td[c].deposit \in Nat /\ td[c].claimable \in Nat /\ td[c].slashed \in Nat
         /\ history[c] \in Histories
         /\ history[c].reclaimed \in Nat /\ history[c].cancelled \in Nat
         /\ history[c].forgotten \in Nat /\ history[c].repaid \in Nat
         /\ Booked(c) \in Int /\ Wealth(c) \in Int /\ Sunk(c) \in Int
<1>1. td[c] \in TrustDepositEntries /\ balance[c] \in Nat /\ history[c] \in Histories
  BY DEF AccountsTyped
<1>2. /\ td[c].deposit \in Nat /\ td[c].claimable \in Nat /\ td[c].slashed \in Nat
      /\ history[c].reclaimed \in Nat /\ history[c].cancelled \in Nat
      /\ history[c].forgotten \in Nat /\ history[c].repaid \in Nat
  BY <1>1 DEF TrustDepositEntries, Histories
<1> QED BY <1>1, <1>2 DEF Booked, Wealth, Sunk

\* One entry of the trust deposits is replaced.
LEMMA EntryReplaced ==
  ASSUME AccountsTyped, NEW corp \in Corporations, NEW x \in TrustDepositEntries,
         td' = [td EXCEPT ![corp] = x]
  PROVE  /\ td' \in [Corporations -> TrustDepositEntries]
         /\ td'[corp] = x
         /\ \A c \in Corporations \ {corp} : td'[c] = td[c]
BY DEF AccountsTyped

\* AdjustTrustDeposit upwards, and fees to the escrow.
LEMMA PayStep ==
  ASSUME AccountsTyped, NEW corp \in Corporations, NEW deposit \in Nat, NEW fees \in Nat,
         PayDepositAndFees(corp, deposit, fees), UNCHANGED history
  PROVE  /\ AccountsTyped'
         /\ escrow' = escrow + fees /\ NothingSinks
         /\ \A c \in Corporations :
              /\ Booked(c)' = Booked(c) + At(c, corp, deposit)
              /\ Wealth(c)' = Wealth(c) - At(c, corp, fees)
<1> DEFINE e == td[corp]
           missing == Missing(e, deposit)
           x == Increased(e, deposit, PREC)
<1>1. e \in TrustDepositEntries /\ balance[corp] \in Nat
  BY AccountNumbers
<1>2. /\ missing \in Nat /\ x \in TrustDepositEntries
      /\ x.deposit = e.deposit + missing /\ x.slashed = e.slashed
      /\ x.claimable = e.claimable - (deposit - missing)
  BY <1>1, IncreaseEntry, PrecisionAssumption
<1>3. /\ balance[corp] >= missing + fees
      /\ td' = [td EXCEPT ![corp] = x]
      /\ balance' = [balance EXCEPT ![corp] = @ - (missing + fees)]
      /\ escrow' = escrow + fees
  BY DEF PayDepositAndFees
<1> HIDE DEF missing, x
<1>4. /\ td' \in [Corporations -> TrustDepositEntries]
      /\ td'[corp] = x
      /\ \A c \in Corporations \ {corp} : td'[c] = td[c]
  BY <1>2, <1>3, EntryReplaced
<1>5. /\ balance' \in [Corporations -> Nat]
      /\ balance'[corp] = balance[corp] - (missing + fees)
      /\ \A c \in Corporations \ {corp} : balance'[c] = balance[c]
  BY <1>1, <1>2, <1>3 DEF AccountsTyped
<1>6. AccountsTyped'
  BY <1>3, <1>4, <1>5 DEF AccountsTyped
<1>7. ASSUME NEW c \in Corporations
      PROVE  /\ Booked(c)' = Booked(c) + At(c, corp, deposit)
             /\ Wealth(c)' = Wealth(c) - At(c, corp, fees)
  <2>1. CASE c = corp
    BY <1>2, <1>4, <1>5, <2>1, AccountNumbers DEF Booked, Wealth, At
  <2>2. CASE c # corp
    BY <1>4, <1>5, <2>2, AccountNumbers DEF Booked, Wealth, At
  <2> QED BY <2>1, <2>2
<1>8. NothingSinks
  BY <1>2, <1>4 DEF NothingSinks, Sunk
<1> QED BY <1>3, <1>6, <1>7, <1>8

\* AdjustTrustDeposit downwards.
LEMMA ReleaseStep ==
  ASSUME AccountsTyped, NEW corp \in Corporations, NEW deposit \in Nat,
         ReleaseDeposit(corp, deposit)
  PROVE  /\ td' \in [Corporations -> TrustDepositEntries]
         /\ \A c \in Corporations :
              /\ td'[c].deposit = td[c].deposit /\ td'[c].slashed = td[c].slashed
              /\ td'[c].claimable = td[c].claimable + At(c, corp, deposit)
<1> DEFINE x == Decreased(td[corp], deposit)
<1>1. /\ x \in TrustDepositEntries
      /\ x.deposit = td[corp].deposit /\ x.slashed = td[corp].slashed
      /\ x.claimable = td[corp].claimable + deposit
  BY AccountNumbers, DecreaseEntry
<1>2. td' = [td EXCEPT ![corp] = x]
  BY DEF ReleaseDeposit
<1> HIDE DEF x
<1>3. /\ td' \in [Corporations -> TrustDepositEntries]
      /\ td'[corp] = x
      /\ \A c \in Corporations \ {corp} : td'[c] = td[c]
  BY <1>1, <1>2, EntryReplaced
<1> QED BY <1>1, <1>3, AccountNumbers DEF At

-----------------------------------------------------------------------------
(* Participants.                                                           *)

\* A root has no validator, and no one else is without; only an onboarding process
\* has a state, and only a pending one is due something.
Coherent(e) ==
  /\ e.validator = 0 <=> e.role = "ECOSYSTEM"
  /\ e.opState # "NONE" => e.validator # 0
  /\ e.opState # "PENDING" => e.opCurrentFees = 0 /\ e.opCurrentDeposit = 0

\* A session pays those above its verifier, and never the verifier itself.
VerifiersValidateNoOne ==
  \A id \in DOMAIN participants :
    LET v == participants[id].validator IN v # 0 => participants[v].role # "VERIFIER"

PInv ==
  /\ now \in Nat \ {0}
  /\ ParticipantTypeOK
  /\ \A id \in DOMAIN participants : Coherent(participants[id])
  /\ VerifiersValidateNoOne

LEMMA ParticipantNumbers ==
  ASSUME PInv
  PROVE  /\ AccountsTyped /\ now \in Nat \ {0} /\ trustUnitPrice \in Nat \ {0}
         /\ participantCounter \in 0 .. MaxParticipants
         /\ DOMAIN participants = 1 .. participantCounter
         /\ MaxParticipants \in Nat
BY ParticipantAssumption DEF PInv, ParticipantTypeOK, AccountsTyped

LEMMA EntryNumbers ==
  ASSUME PInv, NEW id \in DOMAIN participants
  PROVE  LET e == participants[id]
         IN  /\ e \in ParticipantEntries /\ Coherent(e)
             /\ id \in 1 .. MaxParticipants
             /\ e.corporation \in Corporations /\ e.role \in Roles /\ e.terms \in FeeTerms
             /\ e.validator \in Nat /\ e.validator < id
             /\ e.validator # 0 => e.validator \in DOMAIN participants
             /\ Has(schemas, e.schema) /\ SchemaOf(e) \in CredentialSchemas
             /\ e.deposit \in Nat /\ e.opValidatorDeposit \in Nat
             /\ e.from \in Nat /\ e.until \in Nat /\ e.opExp \in Nat /\ e.revoked \in Nat
             /\ e.opCurrentFees \in Nat /\ e.opCurrentDeposit \in Nat
             /\ e.slashedDeposit \in Nat /\ e.repaidDeposit \in Nat
             /\ e.slashed \in BOOLEAN /\ e.repaid \in BOOLEAN
<1> DEFINE e == participants[id]
<1>1. /\ e \in ParticipantEntries /\ Coherent(e)
      /\ id \in 1 .. participantCounter /\ DOMAIN participants = 1 .. participantCounter
      /\ participantCounter \in 0 .. MaxParticipants
      /\ e.validator < id /\ Has(schemas, e.schema)
  BY DEF PInv, ParticipantTypeOK
<1>2. SchemaOf(e) \in CredentialSchemas
  BY <1>1 DEF PInv, ParticipantTypeOK, SchemaTypeOK, SchemaOf, Has
<1> HIDE DEF e
<1>3. /\ e.corporation \in Corporations /\ e.role \in Roles /\ e.terms \in FeeTerms
      /\ e.validator \in Nat
      /\ e.deposit \in Nat /\ e.opValidatorDeposit \in Nat
      /\ e.from \in Nat /\ e.until \in Nat /\ e.opExp \in Nat /\ e.revoked \in Nat
      /\ e.opCurrentFees \in Nat /\ e.opCurrentDeposit \in Nat
      /\ e.slashedDeposit \in Nat /\ e.repaidDeposit \in Nat
      /\ e.slashed \in BOOLEAN /\ e.repaid \in BOOLEAN
  BY <1>1 DEF ParticipantEntries
<1>4. e.validator # 0 => e.validator \in DOMAIN participants
  <2>1. participantCounter \in Nat /\ id \in Nat /\ id <= participantCounter
    BY <1>1, ParticipantNumbers
  <2>2. e.validator # 0 => e.validator \in 1 .. participantCounter
    <3>1. e.validator \in Nat /\ e.validator < id
      BY <1>1, <1>3
    <3> QED BY <2>1, <3>1
  <2> QED BY <1>1, <2>2
<1>5. id \in 1 .. MaxParticipants
  BY <1>1, ParticipantNumbers
<1> QED BY <1>1, <1>2, <1>3, <1>4, <1>5 DEF e

SameIdentity(e, f) ==
  /\ f.schema = e.schema /\ f.role = e.role /\ f.corporation = e.corporation
  /\ f.validator = e.validator /\ f.vsOperator = e.vsOperator

\* A step that stores one participant, a new one or one that was there.
Writes(id) ==
  LET f == participants'[id]
  IN  /\ id \in 1 .. MaxParticipants
      /\ participants' = Put(participants, id, f)
      /\ \/ id \in DOMAIN participants /\ UNCHANGED participantCounter
         \/ id = NewId /\ participantCounter' = id
      /\ f \in ParticipantEntries /\ Coherent(f)
      /\ f.validator < id /\ Has(schemas, f.schema)
      /\ f.validator # 0 => participants[f.validator].role # "VERIFIER"
      /\ id \in DOMAIN participants => SameIdentity(participants[id], f)

LEMMA UpdateWrites ==
  ASSUME PInv, NEW id \in DOMAIN participants, NEW f \in ParticipantEntries,
         Coherent(f), SameIdentity(participants[id], f),
         Update(id, f), UNCHANGED participantCounter
  PROVE  Writes(id) /\ participants'[id] = f
<1>1. participants' = Put(participants, id, f) /\ participants'[id] = f
  BY DEF Update, Put
<1>2. f.validator # 0 => participants[f.validator].role # "VERIFIER"
  BY DEF PInv, VerifiersValidateNoOne, SameIdentity
<1> QED BY <1>1, <1>2, EntryNumbers DEF Writes, SameIdentity

LEMMA CreateWrites ==
  ASSUME PInv, NEW id, id = NewId, NEW f \in ParticipantEntries, Coherent(f), Create(f),
         NewId <= MaxParticipants, f.validator < id, Has(schemas, f.schema),
         f.validator # 0 => participants[f.validator].role # "VERIFIER"
  PROVE  Writes(id) /\ participants'[id] = f /\ id \notin DOMAIN participants
<1>1. /\ participants' = Put(participants, id, f) /\ participants'[id] = f
      /\ participantCounter' = id
  BY DEF Create, Update, Put
<1>2. id \in 1 .. MaxParticipants /\ id \notin DOMAIN participants
  BY ParticipantNumbers DEF NewId
<1> QED BY <1>1, <1>2 DEF Writes

LEMMA WritesRows ==
  ASSUME PInv, NEW id, Writes(id)
  PROVE  /\ DOMAIN participants' = DOMAIN participants \cup {id}
         /\ DOMAIN participants' = 1 .. participantCounter'
         /\ \A q \in DOMAIN participants \ {id} : participants'[q] = participants[q]
         /\ participantCounter' \in 0 .. MaxParticipants
<1>1. /\ DOMAIN participants' = DOMAIN participants \cup {id}
      /\ \A q \in DOMAIN participants \ {id} : participants'[q] = participants[q]
  BY Zenon DEF Writes, Put
<1>2. CASE id \in DOMAIN participants /\ UNCHANGED participantCounter
  BY <1>1, <1>2, ParticipantNumbers
<1>3. CASE id = NewId /\ participantCounter' = id
  BY <1>1, <1>3, ParticipantNumbers DEF NewId, Writes
<1> QED BY <1>1, <1>2, <1>3 DEF Writes

\* A step that stores one participant and has the accounts in order.
LEMMA WritesKeepsPInv ==
  ASSUME PInv, NEW id, Writes(id), AccountsTyped', UNCHANGED <<now, schemaVars, trustUnitPrice>>
  PROVE  PInv'
<1> DEFINE f == participants'[id]
<1>1. /\ DOMAIN participants' = DOMAIN participants \cup {id}
      /\ DOMAIN participants' = 1 .. participantCounter'
      /\ \A q \in DOMAIN participants \ {id} : participants'[q] = participants[q]
      /\ participantCounter' \in 0 .. MaxParticipants
  BY WritesRows
<1>2. /\ f \in ParticipantEntries /\ Coherent(f)
      /\ f.validator < id /\ Has(schemas, f.schema)
  BY DEF Writes
<1>3. ASSUME NEW q \in DOMAIN participants'
      PROVE  /\ participants'[q] \in ParticipantEntries /\ Coherent(participants'[q])
             /\ participants'[q].validator < q /\ Has(schemas, participants'[q].schema)
  <2>1. CASE q = id
    BY <1>2, <2>1
  <2>2. CASE q # id
    <3>1. q \in DOMAIN participants /\ participants'[q] = participants[q]
      BY <1>1, <2>2
    <3> QED BY <3>1, EntryNumbers
  <2> QED BY <2>1, <2>2
<1>4. participants' \in [1 .. participantCounter' -> ParticipantEntries]
  <2>1. participants' = [q \in DOMAIN participants' |-> participants'[q]]
    BY DEF Writes, Put
  <2> QED BY <1>1, <1>3, <2>1
<1>5. UNCHANGED <<schemas, schemaCounter, maxPeriod>>
  BY DEF schemaVars
<1>6. SchemaTypeOK' /\ trustUnitPrice' \in Nat \ {0} /\ now' \in Nat \ {0}
  BY <1>5 DEF PInv, ParticipantTypeOK, SchemaTypeOK
<1>7. ParticipantTypeOK'
  BY <1>1, <1>3, <1>4, <1>5, <1>6 DEF ParticipantTypeOK, AccountsTyped, Has
<1>8. ASSUME NEW q \in DOMAIN participants', participants'[q].validator # 0
      PROVE  participants'[participants'[q].validator].role # "VERIFIER"
  <2> DEFINE v == participants'[q].validator
  <2>1. v \in DOMAIN participants /\ participants[v].role # "VERIFIER"
    <3>1. CASE q = id
      <4>1. participants[v].role # "VERIFIER" /\ v \in Nat /\ v < id
        BY <1>8, <3>1 DEF Writes, ParticipantEntries
      <4>2. id \in DOMAIN participants \/ id = NewId
        BY DEF Writes
      <4> HIDE DEF v
      <4> QED BY <1>8, <4>1, <4>2, ParticipantNumbers DEF NewId, v
    <3>2. CASE q # id
      <4>1. q \in DOMAIN participants /\ participants'[q] = participants[q]
        BY <1>1, <1>8, <3>2
      <4> QED BY <1>8, <4>1, EntryNumbers DEF PInv, VerifiersValidateNoOne
    <3> QED BY <3>1, <3>2
  <2>2. participants'[v].role = participants[v].role
    BY <1>1, <2>1 DEF Writes, SameIdentity
  <2> QED BY <2>1, <2>2
<1> QED BY <1>3, <1>6, <1>7, <1>8 DEF PInv, VerifiersValidateNoOne

-----------------------------------------------------------------------------
(* What a message about one participant does, as far as the properties can *)
(* tell.                                                                   *)

\* The participant's part of each of the totals.
DueOf(id) == IF Has(participants, id) THEN participants[id].opCurrentFees ELSE 0

OwnOf(id, corp) ==
  IF Has(participants, id)
  THEN IF participants[id].corporation = corp THEN participants[id].deposit ELSE 0
  ELSE 0

AsValidatorOf(id, corp) ==
  IF Has(participants, id)
  THEN IF /\ participants[id].validator # 0
          /\ participants[participants[id].validator].corporation = corp
       THEN participants[id].opValidatorDeposit ELSE 0
  ELSE 0

BurntOf(id) == IF Has(participants, id) THEN participants[id].slashedDeposit ELSE 0

Pending(id) == Has(participants, id) /\ participants[id].opState = "PENDING"

\* A contract is opened or settled, or there is at most a loss.
OpensContract(id) ==
  LET f == participants'[id]
  IN  /\ ~Pending(id) /\ Pending(id)' /\ f.validator # 0
      /\ \A c \in Corporations :
           Wealth(c)' = Wealth(c) - At(c, f.corporation, f.opCurrentFees)

SettlesContract(id) ==
  LET e == participants[id]
  IN  /\ Pending(id) /\ ~Pending(id)'
      /\ \E party \in {e.corporation, participants[e.validator].corporation} :
           \A c \in Corporations : Wealth(c)' = Wealth(c) + At(c, party, e.opCurrentFees)

KeepsContract(id) ==
  /\ Pending(id)' <=> Pending(id)
  /\ DueOf(id)' = DueOf(id)
  /\ \E party \in Corporations, loss \in Nat :
       \A c \in Corporations : Wealth(c)' = Wealth(c) - At(c, party, loss)

\* A window is set where there is room for it, or stays and is in force no longer
\* than before.
MovesWindow(id) ==
  LET f == participants'[id]
  IN  \/ f.from = NoTime
      \/ RoomFor(id, f.schema, f.role, f.validator, f.corporation, f.from, f.until)
      \/ /\ id \in DOMAIN participants
         /\ f.from = participants[id].from /\ f.until = participants[id].until
         /\ InForce(f) => InForce(participants[id])

KeepsWithinValidation(id) ==
  LET f == participants'[id]
  IN  \/ f.validator = 0 \/ participants[f.validator].role = "ECOSYSTEM"
      \/ EndsWithin(f)
      \/ id \in DOMAIN participants /\ (EndsWithin(participants[id]) => EndsWithin(f))

KeepsFrozen(id) ==
  LET e == participants[id]
      f == participants'[id]
  IN  id \in DOMAIN participants /\ e.slashed /\ ~e.repaid =>
        /\ f.opState = e.opState /\ f.opCurrentFees = e.opCurrentFees
        /\ f.from = e.from /\ f.until = e.until /\ f.opExp = e.opExp

KeepsOutOfForce(id) ==
  LET e == participants[id]
      f == participants'[id]
  IN  id \in DOMAIN participants /\ OutOfForce(e) =>
        f.deposit - e.deposit <= f.repaidDeposit - e.repaidDeposit

\* The escrow and the trust deposits move as the participant's parts do.
MovesBooks(id) ==
  /\ escrow' = escrow + DueOf(id)' - DueOf(id)
  /\ \A c \in Corporations :
       Booked(c)' = Booked(c) + OwnOf(id, c)' - OwnOf(id, c)
                      + AsValidatorOf(id, c)' - AsValidatorOf(id, c)

\* What a corporation loses the escrow gains, or is slashed of the participant.
MovesCoins(id) ==
  /\ NothingSinks
  /\ \E party \in Corporations, loss \in Int :
       /\ \A c \in Corporations : Wealth(c)' = Wealth(c) - At(c, party, loss)
       /\ loss = escrow' - escrow + BurntOf(id)' - BurntOf(id)

Effect(id) ==
  /\ Writes(id) /\ AccountsTyped' /\ MovesBooks(id) /\ MovesCoins(id)
  /\ OpensContract(id) \/ SettlesContract(id) \/ KeepsContract(id)
  /\ MovesWindow(id) /\ KeepsWithinValidation(id)
  /\ KeepsFrozen(id) /\ KeepsOutOfForce(id)

\* The parts of a participant that is there before the step, or after it.
LEMMA PartsBefore ==
  ASSUME PInv, NEW id \in DOMAIN participants
  PROVE  LET e == participants[id]
         IN  /\ DueOf(id) = e.opCurrentFees /\ BurntOf(id) = e.slashedDeposit
             /\ Pending(id) <=> e.opState = "PENDING"
             /\ \A c \in Corporations :
                  /\ OwnOf(id, c) = At(c, e.corporation, e.deposit)
                  /\ AsValidatorOf(id, c)
                       = IF e.validator = 0 THEN 0
                         ELSE At(c, participants[e.validator].corporation,
                                 e.opValidatorDeposit)
BY DEF DueOf, BurntOf, Pending, OwnOf, AsValidatorOf, At, Has

LEMMA PartsOfNone ==
  ASSUME NEW id, id \notin DOMAIN participants
  PROVE  /\ DueOf(id) = 0 /\ BurntOf(id) = 0 /\ ~Pending(id)
         /\ \A c \in Corporations : OwnOf(id, c) = 0 /\ AsValidatorOf(id, c) = 0
BY DEF DueOf, BurntOf, Pending, OwnOf, AsValidatorOf, Has

LEMMA PartsAfter ==
  ASSUME PInv, NEW id, Writes(id)
  PROVE  LET f == participants'[id]
         IN  /\ DueOf(id)' = f.opCurrentFees /\ BurntOf(id)' = f.slashedDeposit
             /\ Pending(id)' <=> f.opState = "PENDING"
             /\ \A c \in Corporations :
                  /\ OwnOf(id, c)' = At(c, f.corporation, f.deposit)
                  /\ AsValidatorOf(id, c)'
                       = IF f.validator = 0 THEN 0
                         ELSE At(c, participants[f.validator].corporation,
                                 f.opValidatorDeposit)
<1> DEFINE f == participants'[id]
<1>1. /\ DOMAIN participants' = DOMAIN participants \cup {id}
      /\ \A q \in DOMAIN participants \ {id} : participants'[q] = participants[q]
  BY WritesRows
<1>2. f.validator # 0 => f.validator \in DOMAIN participants \ {id}
  <2>1. f.validator \in Nat /\ f.validator < id
    BY DEF Writes, ParticipantEntries
  <2>2. id \in DOMAIN participants \/ id = participantCounter + 1
    BY DEF Writes, NewId
  <2> HIDE DEF f
  <2> QED BY <2>1, <2>2, ParticipantNumbers
<1>3. f.validator # 0 =>
        participants'[f.validator].corporation = participants[f.validator].corporation
  BY <1>1, <1>2
<1> QED BY <1>1, <1>3 DEF DueOf, BurntOf, Pending, OwnOf, AsValidatorOf, At, Has

\* The same in the fields that a message changes.
LEMMA ValidateMovesBooks ==
  ASSUME PInv, NEW id \in DOMAIN participants, Writes(id),
         NEW own \in Int, NEW val \in Int, NEW due \in Int,
         participants'[id].deposit = participants[id].deposit + own,
         participants'[id].opValidatorDeposit = participants[id].opValidatorDeposit + val,
         participants'[id].opCurrentFees = participants[id].opCurrentFees + due,
         escrow' = escrow + due,
         \A c \in Corporations :
           Booked(c)' =
             Booked(c) + At(c, participants[id].corporation, own)
               + (IF participants[id].validator = 0 THEN 0
                  ELSE At(c, participants[participants[id].validator].corporation, val))
  PROVE  MovesBooks(id)
<1> DEFINE e == participants[id]
           f == participants'[id]
<1>1. /\ e.deposit \in Nat /\ e.opValidatorDeposit \in Nat /\ e.opCurrentFees \in Nat
      /\ escrow \in Nat
      /\ f.corporation = e.corporation /\ f.validator = e.validator
  BY EntryNumbers, ParticipantNumbers DEF Writes, SameIdentity, AccountsTyped
<1>2. DueOf(id) = e.opCurrentFees /\ DueOf(id)' = f.opCurrentFees
  BY PartsBefore, PartsAfter
<1>3. ASSUME NEW c \in Corporations
      PROVE  Booked(c)' = Booked(c) + OwnOf(id, c)' - OwnOf(id, c)
                            + AsValidatorOf(id, c)' - AsValidatorOf(id, c)
  <2> DEFINE v == participants[e.validator].corporation
             part(n) == IF e.validator = 0 THEN 0 ELSE At(c, v, n)
  <2>1. /\ OwnOf(id, c) = At(c, e.corporation, e.deposit)
        /\ OwnOf(id, c)' = At(c, e.corporation, f.deposit)
        /\ AsValidatorOf(id, c) = part(e.opValidatorDeposit)
        /\ AsValidatorOf(id, c)' = part(f.opValidatorDeposit)
    BY <1>1, PartsBefore, PartsAfter
  <2>2. Booked(c)' = Booked(c) + At(c, e.corporation, own) + part(val)
    OBVIOUS
  <2>3. Booked(c) \in Int
    BY AccountNumbers, ParticipantNumbers
  <2>4. /\ f.deposit = e.deposit + own
        /\ f.opValidatorDeposit = e.opValidatorDeposit + val
    OBVIOUS
  <2> HIDE DEF e, f, v
  <2> QED BY <1>1, <2>1, <2>2, <2>3, <2>4 DEF At
<1>4. escrow' = escrow + DueOf(id)' - DueOf(id)
  BY <1>1, <1>2
<1> QED BY <1>3, <1>4 DEF MovesBooks

LEMMA UpdateMovesBooks ==
  ASSUME PInv, NEW id \in DOMAIN participants, Writes(id),
         NEW own \in Int, NEW due \in Int,
         participants'[id].deposit = participants[id].deposit + own,
         participants'[id].opValidatorDeposit = participants[id].opValidatorDeposit,
         participants'[id].opCurrentFees = participants[id].opCurrentFees + due,
         escrow' = escrow + due,
         \A c \in Corporations :
           Booked(c)' = Booked(c) + At(c, participants[id].corporation, own)
  PROVE  MovesBooks(id)
<1> DEFINE e == participants[id]
<1>1. participants'[id].opValidatorDeposit = e.opValidatorDeposit + 0
  BY EntryNumbers
<1>2. ASSUME NEW c \in Corporations
      PROVE  Booked(c)' = Booked(c) + At(c, e.corporation, own)
                            + (IF e.validator = 0 THEN 0
                               ELSE At(c, participants[e.validator].corporation, 0))
  BY AccountNumbers, ParticipantNumbers DEF At
<1> QED BY <1>1, <1>2, ValidateMovesBooks

LEMMA CreateMovesBooks ==
  ASSUME PInv, NEW id, id \notin DOMAIN participants, Writes(id),
         participants'[id].opValidatorDeposit = 0,
         escrow' = escrow + participants'[id].opCurrentFees,
         \A c \in Corporations :
           Booked(c)' = Booked(c) + At(c, participants'[id].corporation,
                                       participants'[id].deposit)
  PROVE  MovesBooks(id)
<1> DEFINE f == participants'[id]
<1>1. f.deposit \in Nat /\ escrow \in Nat /\ f.opCurrentFees \in Nat
  BY ParticipantNumbers DEF Writes, ParticipantEntries, AccountsTyped
<1>2. DueOf(id) = 0 /\ DueOf(id)' = f.opCurrentFees
  BY PartsOfNone, PartsAfter
<1>3. ASSUME NEW c \in Corporations
      PROVE  Booked(c)' = Booked(c) + OwnOf(id, c)' - OwnOf(id, c)
                            + AsValidatorOf(id, c)' - AsValidatorOf(id, c)
  <2>1. /\ OwnOf(id, c) = 0 /\ AsValidatorOf(id, c) = 0
        /\ OwnOf(id, c)' = At(c, f.corporation, f.deposit)
        /\ AsValidatorOf(id, c)' = 0
    BY PartsOfNone, PartsAfter DEF At
  <2>2. Booked(c) \in Int /\ Booked(c)' = Booked(c) + At(c, f.corporation, f.deposit)
    BY AccountNumbers, ParticipantNumbers
  <2> HIDE DEF f
  <2> QED BY <1>1, <2>1, <2>2 DEF At
<1> QED BY <1>1, <1>2, <1>3 DEF MovesBooks

LEMMA UpdateMovesCoins ==
  ASSUME PInv, NEW id \in DOMAIN participants, Writes(id), NothingSinks,
         NEW party \in Corporations, NEW loss \in Int, NEW fees \in Int, NEW burnt \in Int,
         \A c \in Corporations : Wealth(c)' = Wealth(c) - At(c, party, loss),
         participants'[id].slashedDeposit = participants[id].slashedDeposit + burnt,
         escrow' = escrow + fees, loss = fees + burnt
  PROVE  MovesCoins(id)
<1>1. participants[id].slashedDeposit \in Nat /\ escrow \in Nat
  BY EntryNumbers, ParticipantNumbers DEF AccountsTyped
<1>2. /\ BurntOf(id) = participants[id].slashedDeposit
      /\ BurntOf(id)' = participants'[id].slashedDeposit
  BY PartsBefore, PartsAfter
<1>3. loss = escrow' - escrow + BurntOf(id)' - BurntOf(id)
  BY <1>1, <1>2
<1> QED BY <1>3, Zenon DEF MovesCoins

LEMMA CreateMovesCoins ==
  ASSUME PInv, NEW id, id \notin DOMAIN participants, Writes(id), NothingSinks,
         NEW party \in Corporations, NEW fees \in Int,
         \A c \in Corporations : Wealth(c)' = Wealth(c) - At(c, party, fees),
         participants'[id].slashedDeposit = 0,
         escrow' = escrow + fees
  PROVE  MovesCoins(id)
<1>1. escrow \in Nat /\ BurntOf(id) = 0 /\ BurntOf(id)' = 0
  BY PartsOfNone, PartsAfter, ParticipantNumbers DEF AccountsTyped
<1>2. fees = escrow' - escrow + BurntOf(id)' - BurntOf(id)
  BY <1>1
<1> QED BY <1>2, Zenon DEF MovesCoins

-----------------------------------------------------------------------------
(* The onboarding process.                                                 *)

LEMMA FeesTyped ==
  ASSUME PInv, NEW id \in DOMAIN participants
  PROVE  /\ ValidationFeesOf(participants[id]) \in Nat
         /\ TrustDepositOf(ValidationFeesOf(participants[id])) \in Nat
<1> DEFINE fees == ValidationFeesOf(participants[id])
<1>1. participants[id].terms.validationFees \in Nat /\ trustUnitPrice \in Nat
  BY EntryNumbers, ParticipantNumbers DEF FeeTerms
<1>2. fees \in Nat
  BY <1>1, Products DEF ValidationFeesOf
<1> HIDE DEF fees
<1>3. fees * TrustDepositRate \in Nat /\ PREC \in Nat \ {0}
  BY <1>2, ParticipantAssumption, PrecisionAssumption, Products
<1>4. TrustDepositOf(fees) \in Nat
  BY <1>3, Division DEF TrustDepositOf
<1> QED BY <1>2, <1>4 DEF fees

LEMMA RenewEffect ==
  ASSUME PInv, NEW corp \in Corporations, NEW id \in DOMAIN participants,
         RenewParticipantOP(corp, id)
  PROVE  Effect(id)
<1> DEFINE e == participants[id]
           fees == ValidationFeesOf(participants[e.validator])
           deposit == TrustDepositOf(fees)
           more == e.deposit + deposit
           f == [e EXCEPT !.opState = "PENDING", !.deposit = more,
                          !.opCurrentFees = fees, !.opCurrentDeposit = deposit]
<1>1. /\ e.corporation = corp /\ e.opState = "VALIDATED" /\ IsValid(e)
      /\ PayDepositAndFees(corp, deposit, fees)
      /\ Update(id, f)
      /\ UNCHANGED <<participantCounter, history>>
  BY DEF RenewParticipantOP, MayRenew
<1>2. /\ e \in ParticipantEntries /\ Coherent(e) /\ e.deposit \in Nat
      /\ e.opValidatorDeposit \in Nat /\ e.corporation \in Corporations
      /\ e.validator # 0 /\ e.validator \in DOMAIN participants
      /\ e.opCurrentFees = 0
  BY <1>1, EntryNumbers DEF Coherent
<1>3. fees \in Nat /\ deposit \in Nat /\ more \in Nat
  BY <1>2, FeesTyped
<1>4. more - e.deposit = deposit
  BY <1>2, <1>3
<1> HIDE DEF fees, deposit, more, e
<1>5. /\ f \in ParticipantEntries /\ SameIdentity(e, f)
      /\ f.opState = "PENDING" /\ f.deposit = more
      /\ f.opCurrentFees = fees /\ f.opCurrentDeposit = deposit
      /\ f.from = e.from /\ f.until = e.until /\ f.opExp = e.opExp
      /\ f.opValidatorDeposit = e.opValidatorDeposit
      /\ f.revoked = e.revoked /\ f.slashed = e.slashed /\ f.repaid = e.repaid
      /\ f.slashedDeposit = e.slashedDeposit /\ e.slashedDeposit \in Nat
  BY <1>2, <1>3 DEF ParticipantEntries, SameIdentity
<1> HIDE DEF f
<1>6. Coherent(f) /\ f.validator = e.validator /\ f.corporation = corp
  BY <1>1, <1>2, <1>5 DEF Coherent, SameIdentity
<1>7. Writes(id) /\ participants'[id] = f /\ participants[id] = e
  BY <1>1, <1>5, <1>6, UpdateWrites DEF e
<1>8. /\ AccountsTyped' /\ escrow' = escrow + fees /\ NothingSinks
      /\ \A c \in Corporations :
           /\ Booked(c)' = Booked(c) + At(c, corp, deposit)
           /\ Wealth(c)' = Wealth(c) - At(c, corp, fees)
  BY <1>1, <1>3, ParticipantNumbers, PayStep
<1>9. MovesBooks(id)
  <2>1. f.deposit = e.deposit + deposit /\ f.opCurrentFees = e.opCurrentFees + fees
    BY <1>2, <1>3, <1>4, <1>5
  <2> QED BY <1>1, <1>3, <1>5, <1>7, <1>8, <2>1, UpdateMovesBooks
<1>10. OpensContract(id)
  BY <1>1, <1>2, <1>5, <1>6, <1>7, <1>8, PartsBefore, PartsAfter DEF OpensContract
<1>11. MovesWindow(id) /\ KeepsWithinValidation(id) /\ KeepsFrozen(id)
  BY <1>1, <1>2, <1>5, <1>7
     DEF MovesWindow, KeepsWithinValidation, KeepsFrozen, InForce, EndsWithin, IsValid
<1>12. KeepsOutOfForce(id)
  BY <1>1, <1>2, <1>7, EntryNumbers, ParticipantNumbers
     DEF KeepsOutOfForce, OutOfForce, IsValid
<1>13. MovesCoins(id)
  <2>1. f.slashedDeposit = e.slashedDeposit + 0 /\ fees = fees + 0 /\ fees \in Int
    BY <1>3, <1>5
  <2> QED BY <1>7, <1>8, <2>1, UpdateMovesCoins
<1> QED BY <1>7, <1>8, <1>9, <1>10, <1>11, <1>12, <1>13 DEF Effect

LEMMA NewParticipantTyped ==
  ASSUME NEW s \in Nat, NEW role \in Roles, NEW did \in Dids, NEW corp \in Corporations,
         NEW validator \in Nat, NEW operator \in Operators
  PROVE  LET e == NewParticipant(s, role, did, corp, validator, operator)
         IN  /\ e \in ParticipantEntries
             /\ e.schema = s /\ e.role = role /\ e.corporation = corp
             /\ e.validator = validator /\ e.did = did
             /\ e.deposit = 0 /\ e.opValidatorDeposit = 0
             /\ e.opState = "NONE" /\ e.opCurrentFees = 0 /\ e.opCurrentDeposit = 0
             /\ e.from = NoTime /\ e.opExp = NoTime /\ e.revoked = NoTime
             /\ ~e.slashed /\ ~e.repaid /\ e.slashedDeposit = 0
<1>1. NoTerms \in FeeTerms
  BY ParticipantAssumption DEF NoTerms, FeeTerms
<1> HIDE DEF FeeTerms, NoTerms
<1> QED BY <1>1 DEF NewParticipant, ParticipantEntries, NoTime

LEMMA RolesAbove ==
  ASSUME NEW cs \in CredentialSchemas, NEW role, NEW above,
         <<role, above>> \in RoleCombinations(cs)
  PROVE  above # "VERIFIER"
<1>1. cs.issuerMode \in Modes /\ cs.verifierMode \in Modes
  BY DEF CredentialSchemas
<1>2. ASSUME NEW mode \in Modes, NEW grantor, grantor # "VERIFIER", NEW of,
             <<role, above>> \in OnboardingPairs(mode, of, grantor)
      PROVE  above # "VERIFIER"
  BY <1>2 DEF Modes, OnboardingPairs
<1>3. CASE <<role, above>> \in OnboardingPairs(cs.issuerMode, "ISSUER", "ISSUER_GRANTOR")
  BY <1>1, <1>2, <1>3
<1>4. CASE <<role, above>> \in OnboardingPairs(cs.verifierMode, "VERIFIER", "VERIFIER_GRANTOR")
  BY <1>1, <1>2, <1>4
<1>5. CASE <<role, above>> = <<"HOLDER", "ISSUER">>
  BY <1>5
<1> QED BY <1>3, <1>4, <1>5 DEF RoleCombinations

LEMMA StartEffect ==
  ASSUME PInv, NEW corp \in Corporations, NEW validator \in DOMAIN participants,
         NEW role \in ValidatedRoles, NEW did \in Dids, NEW operator \in Operators,
         NEW request, NEW id, id = NewId, NewId <= MaxParticipants,
         StartParticipantOP(corp, validator, role, did, operator, request)
  PROVE  Effect(id) /\ id \notin DOMAIN participants
<1> DEFINE v == participants[validator]
           fees == ValidationFeesOf(v)
           deposit == TrustDepositOf(fees)
           e == NewParticipant(v.schema, role, did, corp, validator, operator)
           f == [e EXCEPT !.deposit = deposit, !.opState = "PENDING",
                          !.opCurrentFees = fees, !.opCurrentDeposit = deposit]
<1>1. /\ PayDepositAndFees(corp, deposit, fees)
      /\ Create(f)
      /\ UNCHANGED history
      /\ <<role, v.role>> \in RoleCombinations(SchemaOf(v))
  BY DEF StartParticipantOP
<1>2. /\ v.schema \in Nat /\ Has(schemas, v.schema)
      /\ validator \in Nat \ {0} /\ validator < id
  BY EntryNumbers, ParticipantNumbers DEF PInv, ParticipantTypeOK, ParticipantEntries, NewId
<1>3. fees \in Nat /\ deposit \in Nat
  BY FeesTyped
<1> HIDE DEF fees, deposit
<1>4. /\ e \in ParticipantEntries
      /\ e.schema = v.schema /\ e.role = role /\ e.corporation = corp
      /\ e.validator = validator /\ e.opValidatorDeposit = 0
      /\ e.from = NoTime /\ e.opExp = NoTime /\ e.slashedDeposit = 0
  BY <1>2, NewParticipantTyped DEF Roles
<1> HIDE DEF e
<1>5. /\ f \in ParticipantEntries
      /\ f.schema = v.schema /\ f.role = role /\ f.corporation = corp
      /\ f.validator = validator /\ f.opValidatorDeposit = 0
      /\ f.from = NoTime /\ f.opExp = NoTime /\ f.slashedDeposit = 0
      /\ f.opState = "PENDING" /\ f.deposit = deposit
      /\ f.opCurrentFees = fees
  BY <1>3, <1>4 DEF ParticipantEntries
<1> HIDE DEF f, v
<1>6. Coherent(f) /\ participants[f.validator].role # "VERIFIER"
  <2>1. v.role # "VERIFIER"
    <3>1. SchemaOf(v) \in CredentialSchemas
      BY EntryNumbers DEF v
    <3> QED BY <1>1, <3>1, RolesAbove
  <2> QED BY <1>2, <1>5, <2>1 DEF Coherent, ValidatedRoles, v
<1>7. /\ Writes(id) /\ participants'[id] = f
      /\ id \notin DOMAIN participants
  BY <1>1, <1>2, <1>5, <1>6, CreateWrites
<1>8. /\ AccountsTyped' /\ escrow' = escrow + fees /\ NothingSinks
      /\ \A c \in Corporations :
           /\ Booked(c)' = Booked(c) + At(c, corp, deposit)
           /\ Wealth(c)' = Wealth(c) - At(c, corp, fees)
  BY <1>1, <1>3, ParticipantNumbers, PayStep
<1>9. MovesBooks(id)
  BY <1>5, <1>7, <1>8, CreateMovesBooks
<1>10. OpensContract(id)
  BY <1>2, <1>5, <1>7, <1>8, PartsOfNone, PartsAfter DEF OpensContract
<1>11. /\ MovesWindow(id) /\ KeepsWithinValidation(id)
       /\ KeepsFrozen(id) /\ KeepsOutOfForce(id)
  BY <1>5, <1>7
     DEF MovesWindow, KeepsWithinValidation, KeepsFrozen, KeepsOutOfForce, EndsWithin
<1>12. MovesCoins(id)
  BY <1>3, <1>5, <1>7, <1>8, CreateMovesCoins
<1> QED BY <1>7, <1>8, <1>9, <1>10, <1>11, <1>12 DEF Effect

LEMMA ExpirationTyped ==
  ASSUME PInv, NEW id \in DOMAIN participants, participants[id].validator # 0
  PROVE  ExpirationOf(participants[id]) \in Nat
<1> DEFINE e == participants[id]
<1>1. /\ SchemaOf(e) \in CredentialSchemas /\ e.role \in ValidatedRoles
      /\ e.opExp \in Nat /\ now \in Nat
  BY EntryNumbers, ParticipantNumbers DEF Coherent, Roles
<1>2. SchemaOf(e).period[e.role] \in Nat
  BY <1>1 DEF CredentialSchemas, ValidityPeriods
<1> HIDE DEF e
<1>3. ExpirationOf(e) \in Nat
  BY <1>1, <1>2 DEF ExpirationOf, NoTime
<1> QED BY <1>3 DEF e

LEMMA ValidateEffect ==
  ASSUME PInv, NEW corp \in Corporations, NEW id \in DOMAIN participants,
         NEW until \in Nat, NEW terms \in FeeTerms,
         SetParticipantOPToValidated(corp, id, until, terms)
  PROVE  Effect(id)
<1> DEFINE e == participants[id]
           v == participants[e.validator]
           opExp == ExpirationOf(e)
           end == IF until = NoTime THEN opExp ELSE until
           from == IF e.from = NoTime THEN now ELSE e.from
           deposit == e.opCurrentDeposit
           due == Missing(td[corp], deposit)
           more == e.opValidatorDeposit + deposit
           f == [e EXCEPT !.opState = "VALIDATED", !.opExp = opExp, !.until = end,
                          !.from = from, !.terms = terms, !.opValidatorDeposit = more,
                          !.opCurrentFees = 0, !.opCurrentDeposit = 0]
           x == Increased(td[corp], deposit, PREC)
<1>1. /\ e.opState = "PENDING" /\ MayEndAt(e, until, opExp)
      /\ v.corporation = corp
      /\ RoomFor(id, e.schema, e.role, e.validator, e.corporation, from, end)
      /\ e.slashed => e.repaid
      /\ Update(id, f)
      /\ UNCHANGED <<participantCounter, history>>
  BY DEF SetParticipantOPToValidated
<1>2. /\ balance[corp] + e.opCurrentFees >= due
      /\ escrow >= e.opCurrentFees
      /\ escrow' = escrow - e.opCurrentFees
      /\ balance' = [balance EXCEPT ![corp] = @ + e.opCurrentFees - due]
      /\ td' = [td EXCEPT ![corp] = x]
      /\ UNCHANGED history
  BY DEF SetParticipantOPToValidated, FeesInEscrow
<1>3. /\ e \in ParticipantEntries /\ Coherent(e) /\ e.deposit \in Nat
      /\ e.opValidatorDeposit \in Nat /\ e.corporation \in Corporations
      /\ e.validator # 0 /\ e.validator \in DOMAIN participants
      /\ e.opCurrentFees \in Nat /\ deposit \in Nat
      /\ e.from \in Nat
  BY <1>1, EntryNumbers DEF Coherent
<1>4. opExp \in Nat /\ from \in Nat \ {0} /\ end \in Nat /\ more \in Nat
  <2>1. opExp \in Nat
    BY <1>3, ExpirationTyped
  <2>2. now \in Nat \ {0}
    BY ParticipantNumbers
  <2> QED BY <1>3, <2>1, <2>2 DEF NoTime
<1>5. opExp # NoTime => end # NoTime /\ end <= opExp
  BY <1>1, <1>4 DEF MayEndAt, NotExpired, NoTime
<1> HIDE DEF e, v, opExp, end, from, deposit, more
<1>6. /\ f \in ParticipantEntries /\ SameIdentity(e, f)
      /\ f.opState = "VALIDATED" /\ f.opExp = opExp /\ f.until = end /\ f.from = from
      /\ f.opValidatorDeposit = more
      /\ f.opCurrentFees = 0 /\ f.opCurrentDeposit = 0 /\ f.deposit = e.deposit
      /\ f.repaidDeposit = e.repaidDeposit
      /\ f.slashedDeposit = e.slashedDeposit /\ e.slashedDeposit \in Nat
  BY <1>3, <1>4 DEF ParticipantEntries, SameIdentity
<1> HIDE DEF f
<1>7. /\ Coherent(f) /\ f.validator = e.validator /\ f.corporation = e.corporation
      /\ f.schema = e.schema /\ f.role = e.role
  BY <1>3, <1>6 DEF Coherent, SameIdentity
<1>8. Writes(id) /\ participants'[id] = f /\ participants[id] = e
  BY <1>1, <1>6, <1>7, UpdateWrites DEF e
<1>9. AccountsTyped /\ td[corp] \in TrustDepositEntries /\ balance[corp] \in Nat /\ escrow \in Nat
  BY AccountNumbers, ParticipantNumbers DEF AccountsTyped
<1>10. /\ due \in Nat /\ x \in TrustDepositEntries
       /\ x.deposit = td[corp].deposit + due /\ x.slashed = td[corp].slashed
       /\ x.claimable = td[corp].claimable - (deposit - due)
  <2>1. PREC \in Nat \ {0} /\ deposit \in Nat /\ td[corp] \in TrustDepositEntries
    BY <1>3, <1>9, PrecisionAssumption
  <2> QED BY <2>1, IncreaseEntry
<1> HIDE DEF due, x
<1>11. /\ td' \in [Corporations -> TrustDepositEntries]
       /\ td'[corp] = x
       /\ \A c \in Corporations \ {corp} : td'[c] = td[c]
  BY <1>2, <1>10, <1>9, EntryReplaced
<1>12. /\ balance' \in [Corporations -> Nat]
       /\ balance'[corp] = balance[corp] + e.opCurrentFees - due
       /\ \A c \in Corporations \ {corp} : balance'[c] = balance[c]
  BY <1>3, <1>2, <1>10, <1>9 DEF AccountsTyped
<1>13. AccountsTyped'
  BY <1>3, <1>2, <1>11, <1>12, <1>9 DEF AccountsTyped
<1>14. ASSUME NEW c \in Corporations
       PROVE  /\ Booked(c)' = Booked(c) + At(c, corp, deposit)
              /\ Wealth(c)' = Wealth(c) + At(c, corp, e.opCurrentFees)
  <2>1. CASE c = corp
    BY <1>3, <1>2, <1>10, <1>11, <1>12, <1>9, <2>1, AccountNumbers DEF Booked, Wealth, At
  <2>2. CASE c # corp
    BY <1>2, <1>11, <1>12, <1>9, <2>2, AccountNumbers DEF Booked, Wealth, At
  <2> QED BY <2>1, <2>2
<1>15. MovesBooks(id)
  <2>1. /\ f.deposit = e.deposit + 0 /\ f.opValidatorDeposit = e.opValidatorDeposit + deposit
        /\ f.opCurrentFees = e.opCurrentFees + (0 - e.opCurrentFees)
        /\ escrow' = escrow + (0 - e.opCurrentFees)
        /\ 0 - e.opCurrentFees \in Int
    BY <1>3, <1>2, <1>6, <1>9 DEF more
  <2>2. ASSUME NEW c \in Corporations
        PROVE  Booked(c)' = Booked(c) + At(c, e.corporation, 0)
                              + (IF e.validator = 0 THEN 0
                                 ELSE At(c, participants[e.validator].corporation, deposit))
    <3>1. Booked(c) \in Int /\ participants[e.validator].corporation = corp
      BY <1>1, <1>9, AccountNumbers DEF v
    <3>2. Booked(c)' = Booked(c) + At(c, corp, deposit)
      BY <1>14
    <3> QED BY <1>3, <3>1, <3>2 DEF At
  <2> QED BY <1>3, <1>8, <2>1, <2>2, ValidateMovesBooks
<1>16. SettlesContract(id)
  BY <1>1, <1>6, <1>8, <1>14, PartsBefore, PartsAfter DEF SettlesContract, v
<1>17. MovesWindow(id) /\ KeepsWithinValidation(id) /\ KeepsFrozen(id)
  BY <1>1, <1>5, <1>6, <1>7, <1>8
     DEF MovesWindow, KeepsWithinValidation, KeepsFrozen, EndsWithin
<1>18. KeepsOutOfForce(id)
  BY <1>3, <1>6, <1>8, EntryNumbers DEF KeepsOutOfForce
<1>19. MovesCoins(id)
  <2> DEFINE fees == 0 - e.opCurrentFees
  <2>1. /\ f.slashedDeposit = e.slashedDeposit + 0 /\ fees = fees + 0 /\ fees \in Int
        /\ escrow' = escrow + fees
    BY <1>3, <1>2, <1>6, <1>9
  <2>2. NothingSinks
    BY <1>2, <1>10, <1>11 DEF NothingSinks, Sunk
  <2>3. \A c \in Corporations : Wealth(c)' = Wealth(c) - At(c, corp, fees)
    BY <1>3, <1>14, <1>9, AccountNumbers DEF At
  <2> HIDE DEF fees
  <2> QED BY <1>8, <2>1, <2>2, <2>3, UpdateMovesCoins
<1> QED BY <1>8, <1>13, <1>15, <1>16, <1>17, <1>18, <1>19 DEF Effect

LEMMA CancelEffect ==
  ASSUME PInv, NEW corp \in Corporations, NEW id \in DOMAIN participants,
         CancelParticipantOPLastRequest(corp, id)
  PROVE  Effect(id)
<1> DEFINE e == participants[id]
           deposit == e.opCurrentDeposit
           fees == e.opCurrentFees
           state == IF e.opExp = NoTime THEN "TERMINATED" ELSE "VALIDATED"
           f == [e EXCEPT !.opState = state, !.opCurrentFees = 0, !.opCurrentDeposit = 0]
<1>1. /\ e.corporation = corp /\ e.opState = "PENDING"
      /\ e.slashed => e.repaid
      /\ Update(id, f)
      /\ UNCHANGED participantCounter
  BY DEF CancelParticipantOPLastRequest, MayCancel, Cancelled
<1>2. /\ escrow >= fees
      /\ escrow' = escrow - fees
      /\ balance' = [balance EXCEPT ![corp] = @ + fees]
      /\ ReleaseDeposit(corp, deposit)
      /\ history' = [history EXCEPT ![corp].cancelled = @ + deposit]
  BY DEF CancelParticipantOPLastRequest, FeesInEscrow
<1>3. /\ e \in ParticipantEntries /\ Coherent(e) /\ e.deposit \in Nat
      /\ e.opValidatorDeposit \in Nat /\ e.corporation \in Corporations
      /\ e.validator # 0
      /\ fees \in Nat /\ deposit \in Nat
  BY <1>1, EntryNumbers DEF Coherent
<1>4. state \in {"TERMINATED", "VALIDATED"}
  OBVIOUS
<1> HIDE DEF e, deposit, fees, state
<1>5. /\ f \in ParticipantEntries /\ SameIdentity(e, f)
      /\ f.opState = state /\ f.opCurrentFees = 0 /\ f.opCurrentDeposit = 0
      /\ f.deposit = e.deposit /\ f.opValidatorDeposit = e.opValidatorDeposit
      /\ f.from = e.from /\ f.until = e.until /\ f.opExp = e.opExp
      /\ f.revoked = e.revoked /\ f.slashed = e.slashed /\ f.repaid = e.repaid
      /\ f.repaidDeposit = e.repaidDeposit
      /\ f.slashedDeposit = e.slashedDeposit /\ e.slashedDeposit \in Nat
  BY <1>3, <1>4 DEF ParticipantEntries, SameIdentity
<1> HIDE DEF f
<1>6. Coherent(f) /\ f.validator = e.validator
  BY <1>3, <1>5 DEF Coherent, SameIdentity
<1>7. Writes(id) /\ participants'[id] = f /\ participants[id] = e
  BY <1>1, <1>5, <1>6, UpdateWrites DEF e
<1>8. AccountsTyped /\ history[corp] \in Histories
  BY ParticipantNumbers, AccountNumbers DEF AccountsTyped
<1>9. /\ td' \in [Corporations -> TrustDepositEntries]
      /\ \A c \in Corporations :
           /\ td'[c].deposit = td[c].deposit /\ td'[c].slashed = td[c].slashed
           /\ td'[c].claimable = td[c].claimable + At(c, corp, deposit)
  BY <1>2, <1>3, <1>8, ReleaseStep
<1> DEFINE h == [history[corp] EXCEPT !.cancelled = history[corp].cancelled + deposit]
<1>10. /\ h \in Histories /\ h.cancelled = history[corp].cancelled + deposit
       /\ h.reclaimed = history[corp].reclaimed /\ h.forgotten = history[corp].forgotten
       /\ h.repaid = history[corp].repaid
       /\ history' = [history EXCEPT ![corp] = h]
  BY <1>2, <1>3, <1>8 DEF Histories
<1> HIDE DEF h
<1>11. /\ history' \in [Corporations -> Histories] /\ history'[corp] = h
       /\ \A c \in Corporations \ {corp} : history'[c] = history[c]
       /\ balance' \in [Corporations -> Nat] /\ balance'[corp] = balance[corp] + fees
       /\ \A c \in Corporations \ {corp} : balance'[c] = balance[c]
  BY <1>2, <1>3, <1>8, <1>10 DEF AccountsTyped
<1>12. AccountsTyped'
  BY <1>2, <1>3, <1>8, <1>9, <1>11 DEF AccountsTyped
<1>13. ASSUME NEW c \in Corporations
       PROVE  Booked(c)' = Booked(c) /\ Wealth(c)' = Wealth(c) + At(c, corp, fees)
  <2>1. CASE c = corp
    BY <1>3, <1>8, <1>9, <1>10, <1>11, <2>1, AccountNumbers DEF Booked, Wealth, At
  <2>2. CASE c # corp
    BY <1>8, <1>9, <1>11, <2>2, AccountNumbers DEF Booked, Wealth, At
  <2> QED BY <2>1, <2>2
<1>14. MovesBooks(id)
  <2>1. /\ f.deposit = e.deposit + 0 /\ f.opCurrentFees = e.opCurrentFees + (0 - fees)
        /\ escrow' = escrow + (0 - fees) /\ 0 - fees \in Int
    BY <1>2, <1>3, <1>5, <1>8 DEF AccountsTyped, fees
  <2>2. \A c \in Corporations : Booked(c)' = Booked(c) + At(c, e.corporation, 0)
    BY <1>8, <1>13, AccountNumbers DEF At
  <2> QED BY <1>5, <1>7, <2>1, <2>2, UpdateMovesBooks
<1>15. SettlesContract(id)
  BY <1>1, <1>4, <1>5, <1>7, <1>13, PartsBefore, PartsAfter DEF SettlesContract, fees
<1>16. MovesWindow(id) /\ KeepsWithinValidation(id) /\ KeepsFrozen(id)
  BY <1>1, <1>5, <1>7
     DEF MovesWindow, KeepsWithinValidation, KeepsFrozen, EndsWithin, InForce
<1>17. KeepsOutOfForce(id)
  BY <1>5, <1>7, EntryNumbers DEF KeepsOutOfForce
<1>18. MovesCoins(id)
  <2> DEFINE less == 0 - fees
  <2>1. /\ f.slashedDeposit = e.slashedDeposit + 0 /\ less = less + 0 /\ less \in Int
        /\ escrow' = escrow + less
    BY <1>2, <1>3, <1>5, <1>8 DEF AccountsTyped
  <2>2. NothingSinks
    BY <1>9, <1>10, <1>11 DEF NothingSinks, Sunk
  <2>3. \A c \in Corporations : Wealth(c)' = Wealth(c) - At(c, corp, less)
    BY <1>3, <1>8, <1>13, AccountNumbers DEF At
  <2> HIDE DEF less
  <2> QED BY <1>7, <2>1, <2>2, <2>3, UpdateMovesCoins
<1> QED BY <1>7, <1>12, <1>14, <1>15, <1>16, <1>17, <1>18 DEF Effect

-----------------------------------------------------------------------------
(* Participants without an onboarding process.                             *)

LEMMA SameAccounts ==
  ASSUME AccountsTyped, UNCHANGED <<td, balance, escrow, history>>
  PROVE  /\ AccountsTyped' /\ NothingSinks
         /\ \A c \in Corporations : Booked(c)' = Booked(c) /\ Wealth(c)' = Wealth(c)
BY DEF AccountsTyped, Booked, Wealth, NothingSinks, Sunk

LEMMA SameAccountsMoveNothing ==
  ASSUME PInv, UNCHANGED <<td, balance, escrow, history>>, NEW corp
  PROVE  /\ AccountsTyped /\ AccountsTyped' /\ escrow' = escrow + 0 /\ NothingSinks
         /\ \A c \in Corporations :
              /\ Booked(c)' = Booked(c) + At(c, corp, 0)
              /\ Wealth(c)' = Wealth(c) - At(c, corp, 0)
<1>1. AccountsTyped
  BY ParticipantNumbers
<1>2. AccountsTyped' /\ NothingSinks
  BY <1>1, SameAccounts
<1>3. escrow' = escrow + 0
  BY <1>1 DEF AccountsTyped
<1>4. ASSUME NEW c \in Corporations
      PROVE  /\ Booked(c)' = Booked(c) + At(c, corp, 0)
             /\ Wealth(c)' = Wealth(c) - At(c, corp, 0)
  <2>1. Booked(c)' = Booked(c) /\ Wealth(c)' = Wealth(c)
    BY <1>1, SameAccounts
  <2>2. Booked(c) \in Int /\ Wealth(c) \in Int
    BY <1>1, AccountNumbers
  <2>3. At(c, corp, 0) = 0
    BY DEF At
  <2> QED BY <2>1, <2>2, <2>3
<1> QED BY <1>1, <1>2, <1>3, <1>4

\* A participant is created and nothing is paid.
LEMMA FreeCreationEffect ==
  ASSUME PInv, NEW id, id = NewId, NewId <= MaxParticipants,
         NEW f \in ParticipantEntries, Coherent(f), Create(f),
         f.validator < id, Has(schemas, f.schema),
         f.validator # 0 => participants[f.validator].role # "VERIFIER",
         f.deposit = 0, f.opValidatorDeposit = 0, f.opState = "NONE", f.opExp = NoTime,
         f.slashedDeposit = 0,
         RoomFor(id, f.schema, f.role, f.validator, f.corporation, f.from, f.until),
         UNCHANGED <<td, balance, escrow, history>>
  PROVE  Effect(id) /\ id \notin DOMAIN participants
<1>1. Writes(id) /\ participants'[id] = f /\ id \notin DOMAIN participants
  BY CreateWrites
<1>2. /\ AccountsTyped' /\ NothingSinks
      /\ \A c \in Corporations : Booked(c)' = Booked(c) /\ Wealth(c)' = Wealth(c)
  BY ParticipantNumbers, SameAccounts
<1>3. f.corporation \in Corporations /\ f.opCurrentFees = 0
  BY DEF ParticipantEntries, Coherent
<1>4. MovesBooks(id)
  <2>1. escrow' = escrow + f.opCurrentFees
    BY <1>3, ParticipantNumbers DEF AccountsTyped
  <2>2. \A c \in Corporations : Booked(c)' = Booked(c) + At(c, f.corporation, f.deposit)
    BY <1>2, AccountNumbers, ParticipantNumbers DEF At
  <2> QED BY <1>1, <2>1, <2>2, CreateMovesBooks
<1>5. KeepsContract(id)
  <2>1. \A c \in Corporations : Wealth(c)' = Wealth(c) - At(c, f.corporation, 0)
    BY <1>2, AccountNumbers, ParticipantNumbers DEF At
  <2>2. 0 \in Nat
    OBVIOUS
  <2>3. ~Pending(id) /\ ~Pending(id)' /\ DueOf(id) = 0 /\ DueOf(id)' = 0
    BY <1>1, <1>3, PartsOfNone, PartsAfter
  <2> QED BY <1>3, <2>1, <2>2, <2>3 DEF KeepsContract
<1>6. /\ MovesWindow(id) /\ KeepsWithinValidation(id)
      /\ KeepsFrozen(id) /\ KeepsOutOfForce(id)
  BY <1>1 DEF MovesWindow, KeepsWithinValidation, KeepsFrozen, KeepsOutOfForce, EndsWithin
<1>7. MovesCoins(id)
  <2>1. \A c \in Corporations : Wealth(c)' = Wealth(c) - At(c, f.corporation, 0)
    BY <1>2, AccountNumbers, ParticipantNumbers DEF At
  <2>2. escrow' = escrow + 0
    BY ParticipantNumbers DEF AccountsTyped
  <2> QED BY <1>1, <1>2, <1>3, <2>1, <2>2, CreateMovesCoins
<1> QED BY <1>1, <1>2, <1>4, <1>5, <1>6, <1>7 DEF Effect

RootArguments(corp, s, did, operator, from, until, terms) ==
  /\ corp \in Corporations /\ s \in Nat /\ did \in Dids /\ operator \in Operators
  /\ from \in Nat /\ until \in Nat /\ terms \in FeeTerms

LEMMA RootTyped ==
  ASSUME NEW corp, NEW s, NEW did, NEW operator, NEW from, NEW until, NEW terms,
         RootArguments(corp, s, did, operator, from, until, terms)
  PROVE  LET f == Root(corp, s, did, operator, from, until, terms)
         IN  /\ f \in ParticipantEntries /\ Coherent(f)
             /\ f.schema = s /\ f.role = "ECOSYSTEM" /\ f.corporation = corp
             /\ f.validator = 0 /\ f.from = from /\ f.until = until /\ f.opExp = NoTime
             /\ f.deposit = 0 /\ f.opValidatorDeposit = 0 /\ f.slashedDeposit = 0
             /\ f.opState = "NONE" /\ f.opCurrentFees = 0
<1> DEFINE e == NewParticipant(s, "ECOSYSTEM", did, corp, 0, operator)
           f == [e EXCEPT !.from = from, !.until = until, !.terms = terms]
<1>1. /\ e \in ParticipantEntries
      /\ e.schema = s /\ e.role = "ECOSYSTEM" /\ e.corporation = corp
      /\ e.validator = 0
      /\ e.deposit = 0 /\ e.opValidatorDeposit = 0
      /\ e.opState = "NONE" /\ e.opCurrentFees = 0 /\ e.opCurrentDeposit = 0
      /\ e.opExp = NoTime /\ e.slashedDeposit = 0
  BY NewParticipantTyped DEF Roles, RootArguments
<1> HIDE DEF e
<1>2. /\ f \in ParticipantEntries
      /\ f.schema = s /\ f.role = "ECOSYSTEM" /\ f.corporation = corp
      /\ f.validator = 0 /\ f.from = from /\ f.until = until /\ f.opExp = NoTime
      /\ f.deposit = 0 /\ f.opValidatorDeposit = 0 /\ f.slashedDeposit = 0
      /\ f.opState = "NONE" /\ f.opCurrentFees = 0 /\ f.opCurrentDeposit = 0
  BY <1>1 DEF ParticipantEntries, RootArguments
<1>3. f = Root(corp, s, did, operator, from, until, terms)
  BY Zenon DEF Root, e
<1> HIDE DEF f
<1>4. Coherent(f)
  BY <1>2 DEF Coherent
<1> QED BY <1>2, <1>3, <1>4

LEMMA CreateRootEffect ==
  ASSUME PInv, NEW corp \in Corporations, NEW s \in DOMAIN schemas, NEW did \in Dids,
         NEW operator \in Operators, NEW from \in Nat, NEW until \in Nat,
         NEW terms \in FeeTerms, NEW request,
         NEW id, id = NewId, NewId <= MaxParticipants,
         CreateRootParticipant(corp, s, did, from, until, terms, operator, request)
  PROVE  Effect(id) /\ id \notin DOMAIN participants
<1> DEFINE f == Root(corp, s, did, operator, from, until, terms)
<1>1. /\ RoomFor(id, s, "ECOSYSTEM", 0, corp, from, until) /\ Create(f)
      /\ UNCHANGED <<td, balance, escrow, history>>
  BY DEF CreateRootParticipant
<1>2. s \in Nat /\ Has(schemas, s) /\ 0 < id
  BY ParticipantNumbers DEF PInv, ParticipantTypeOK, SchemaTypeOK, Has, NewId
<1>3. /\ f \in ParticipantEntries /\ Coherent(f)
      /\ f.schema = s /\ f.role = "ECOSYSTEM" /\ f.corporation = corp
      /\ f.validator = 0 /\ f.from = from /\ f.until = until /\ f.opExp = NoTime
      /\ f.deposit = 0 /\ f.opValidatorDeposit = 0 /\ f.opState = "NONE"
      /\ f.slashedDeposit = 0
  <2>1. RootArguments(corp, s, did, operator, from, until, terms)
    BY <1>2 DEF RootArguments
  <2> QED BY <2>1, RootTyped
<1> HIDE DEF f
<1> QED BY <1>1, <1>2, <1>3, FreeCreationEffect

LEMMA SelfCreateEffect ==
  ASSUME PInv, NEW corp \in Corporations, NEW validator \in DOMAIN participants,
         NEW role \in ValidatedRoles, NEW did \in Dids, NEW from \in Nat, NEW until \in Nat,
         NEW terms \in FeeTerms, NEW op \in Operators, NEW request,
         NEW id, id = NewId, NewId <= MaxParticipants,
         SelfCreateParticipant(corp, validator, role, did, from, until, terms, op, request)
  PROVE  Effect(id) /\ id \notin DOMAIN participants
<1> DEFINE v == participants[validator]
           start == IF from = NoTime THEN now ELSE from
           e == NewParticipant(v.schema, role, did, corp, validator, op)
           f == [e EXCEPT !.from = start, !.until = until, !.terms = terms]
<1>1. /\ RoomFor(id, v.schema, role, validator, corp, start, until) /\ Create(f)
      /\ v.role = "ECOSYSTEM"
      /\ UNCHANGED <<td, balance, escrow, history>>
  BY DEF SelfCreateParticipant
<1>2. /\ v.schema \in Nat /\ Has(schemas, v.schema)
      /\ validator \in Nat \ {0} /\ validator < id /\ start \in Nat
  BY EntryNumbers, ParticipantNumbers DEF PInv, ParticipantTypeOK, ParticipantEntries, NewId
<1>3. /\ e \in ParticipantEntries
      /\ e.schema = v.schema /\ e.role = role /\ e.corporation = corp
      /\ e.validator = validator /\ e.deposit = 0 /\ e.opValidatorDeposit = 0
      /\ e.opState = "NONE" /\ e.opCurrentFees = 0 /\ e.opCurrentDeposit = 0
      /\ e.opExp = NoTime /\ e.slashedDeposit = 0
  BY <1>2, NewParticipantTyped DEF Roles
<1> HIDE DEF e, v, start
<1>4. /\ f \in ParticipantEntries
      /\ f.schema = v.schema /\ f.role = role /\ f.corporation = corp
      /\ f.validator = validator /\ f.deposit = 0 /\ f.opValidatorDeposit = 0
      /\ f.opState = "NONE" /\ f.opCurrentFees = 0 /\ f.opCurrentDeposit = 0
      /\ f.slashedDeposit = 0 /\ f.opExp = NoTime /\ f.from = start /\ f.until = until
  BY <1>2, <1>3 DEF ParticipantEntries
<1> HIDE DEF f
<1>5. Coherent(f) /\ participants[f.validator].role # "VERIFIER"
  BY <1>1, <1>2, <1>4 DEF Coherent, ValidatedRoles, v
<1> QED BY <1>1, <1>2, <1>4, <1>5, FreeCreationEffect

-----------------------------------------------------------------------------
(* Changes to a participant.                                               *)

LEMMA MoveEndEffect ==
  ASSUME PInv, NEW corp \in Corporations, NEW id \in DOMAIN participants, NEW until \in Nat,
         SetParticipantEffectiveUntil(corp, id, until)
  PROVE  Effect(id)
<1> DEFINE e == participants[id]
           f == [e EXCEPT !.until = until]
<1>1. /\ IsValid(e) /\ until > now /\ MayMoveEnd(corp, e, until)
      /\ RoomFor(id, e.schema, e.role, e.validator, e.corporation, e.from, until)
      /\ Update(id, f)
      /\ UNCHANGED <<participantCounter, td, balance, escrow, history>>
  BY DEF SetParticipantEffectiveUntil
<1>2. /\ e \in ParticipantEntries /\ Coherent(e) /\ e.deposit \in Nat
      /\ e.corporation \in Corporations /\ e.opCurrentFees \in Nat
      /\ e.opExp \in Nat /\ now \in Nat \ {0}
  BY EntryNumbers, ParticipantNumbers
<1>3. e.validator = 0 \/ participants[e.validator].role = "ECOSYSTEM" \/ NotExpired(e.opExp, until - 1)
  BY <1>1, <1>2 DEF MayMoveEnd, Coherent
<1> HIDE DEF e
<1>4. /\ f \in ParticipantEntries /\ SameIdentity(e, f)
      /\ f.opState = e.opState /\ f.opCurrentFees = e.opCurrentFees
      /\ f.opCurrentDeposit = e.opCurrentDeposit
      /\ f.deposit = e.deposit /\ f.opValidatorDeposit = e.opValidatorDeposit
      /\ f.from = e.from /\ f.until = until /\ f.opExp = e.opExp
      /\ f.repaidDeposit = e.repaidDeposit
      /\ f.slashedDeposit = e.slashedDeposit /\ e.slashedDeposit \in Nat
  BY <1>2 DEF ParticipantEntries, SameIdentity
<1> HIDE DEF f
<1>5. /\ Coherent(f) /\ f.validator = e.validator /\ f.corporation = e.corporation
      /\ f.schema = e.schema /\ f.role = e.role
  BY <1>2, <1>4 DEF Coherent, SameIdentity
<1>6. Writes(id) /\ participants'[id] = f /\ participants[id] = e
  BY <1>1, <1>4, <1>5, UpdateWrites DEF e
<1>7. /\ AccountsTyped /\ AccountsTyped' /\ escrow' = escrow + 0 /\ NothingSinks
      /\ \A c \in Corporations :
           /\ Booked(c)' = Booked(c) + At(c, e.corporation, 0)
           /\ Wealth(c)' = Wealth(c) - At(c, e.corporation, 0)
  BY <1>1, SameAccountsMoveNothing
<1>8. MovesBooks(id)
  <2>1. f.deposit = e.deposit + 0 /\ f.opCurrentFees = e.opCurrentFees + 0
    BY <1>2, <1>4
  <2> QED BY <1>4, <1>6, <1>7, <2>1, UpdateMovesBooks
<1>9. KeepsContract(id)
  <2>1. 0 \in Nat
    OBVIOUS
  <2>2. (Pending(id)' <=> Pending(id)) /\ DueOf(id)' = DueOf(id)
    BY <1>4, <1>6, PartsBefore, PartsAfter
  <2> QED BY <1>2, <1>7, <2>1, <2>2 DEF KeepsContract
<1>10. MovesWindow(id)
  BY <1>1, <1>4, <1>5, <1>6 DEF MovesWindow
<1>11. KeepsWithinValidation(id)
  <2>1. CASE e.validator = 0 \/ participants[e.validator].role = "ECOSYSTEM"
    BY <1>5, <1>6, <2>1 DEF KeepsWithinValidation
  <2>2. CASE NotExpired(e.opExp, until - 1)
    BY <1>1, <1>2, <1>4, <1>6, <2>2 DEF KeepsWithinValidation, NotExpired, EndsWithin, NoTime
  <2> QED BY <1>3, <2>1, <2>2
<1>12. KeepsFrozen(id)
  BY <1>1, <1>6 DEF KeepsFrozen, IsValid
<1>13. KeepsOutOfForce(id)
  BY <1>2, <1>4, <1>6, EntryNumbers DEF KeepsOutOfForce
<1>14. MovesCoins(id)
  <2>1. f.slashedDeposit = e.slashedDeposit + 0 /\ 0 = 0 + 0
    BY <1>4
  <2> QED BY <1>2, <1>6, <1>7, <2>1, UpdateMovesCoins
<1> QED BY <1>6, <1>7, <1>8, <1>9, <1>10, <1>11, <1>12, <1>13, <1>14 DEF Effect

LEMMA RevokeEffect ==
  ASSUME PInv, NEW corp \in Corporations, NEW id \in DOMAIN participants,
         RevokeParticipant(corp, id)
  PROVE  Effect(id)
<1> DEFINE e == participants[id]
           f == [e EXCEPT !.deposit = 0, !.revoked = now]
<1>1. /\ ReleaseDeposit(e.corporation, e.deposit)
      /\ Update(id, f)
      /\ UNCHANGED <<participantCounter, balance, escrow, history>>
      /\ IsValid(e)
  BY DEF RevokeParticipant
<1>2. /\ e \in ParticipantEntries /\ Coherent(e) /\ e.deposit \in Nat
      /\ e.corporation \in Corporations /\ e.opCurrentFees \in Nat
      /\ now \in Nat \ {0} /\ e.revoked \in Nat
      /\ AccountsTyped
  BY EntryNumbers, ParticipantNumbers
<1> HIDE DEF e
<1>3. /\ f \in ParticipantEntries /\ SameIdentity(e, f)
      /\ f.opState = e.opState /\ f.opCurrentFees = e.opCurrentFees
      /\ f.opCurrentDeposit = e.opCurrentDeposit
      /\ f.deposit = 0 /\ f.opValidatorDeposit = e.opValidatorDeposit
      /\ f.from = e.from /\ f.until = e.until /\ f.opExp = e.opExp
      /\ f.revoked = now
      /\ f.slashedDeposit = e.slashedDeposit /\ e.slashedDeposit \in Nat
  BY <1>2 DEF ParticipantEntries, SameIdentity
<1> HIDE DEF f
<1>4. Coherent(f) /\ f.validator = e.validator
  BY <1>2, <1>3 DEF Coherent, SameIdentity
<1>5. Writes(id) /\ participants'[id] = f /\ participants[id] = e
  BY <1>1, <1>3, <1>4, UpdateWrites DEF e
<1>6. /\ td' \in [Corporations -> TrustDepositEntries]
      /\ \A c \in Corporations :
           /\ td'[c].deposit = td[c].deposit /\ td'[c].slashed = td[c].slashed
           /\ td'[c].claimable = td[c].claimable + At(c, e.corporation, e.deposit)
  BY <1>1, <1>2, ReleaseStep
<1>7. AccountsTyped' /\ escrow' = escrow + 0
  BY <1>1, <1>2, <1>6 DEF AccountsTyped
<1>8. ASSUME NEW c \in Corporations
      PROVE  /\ Booked(c)' = Booked(c) + At(c, e.corporation, 0 - e.deposit)
             /\ Wealth(c)' = Wealth(c) - At(c, e.corporation, 0)
  BY <1>1, <1>2, <1>6, AccountNumbers DEF Booked, Wealth, At
<1>9. MovesBooks(id)
  <2>1. /\ f.deposit = e.deposit + (0 - e.deposit) /\ 0 - e.deposit \in Int
        /\ f.opCurrentFees = e.opCurrentFees + 0
    BY <1>2, <1>3
  <2> QED BY <1>3, <1>5, <1>7, <1>8, <2>1, UpdateMovesBooks
<1>10. KeepsContract(id)
  <2>1. 0 \in Nat
    OBVIOUS
  <2>2. (Pending(id)' <=> Pending(id)) /\ DueOf(id)' = DueOf(id)
    BY <1>3, <1>5, PartsBefore, PartsAfter
  <2> QED BY <1>2, <1>8, <2>1, <2>2 DEF KeepsContract
<1>11. MovesWindow(id) /\ KeepsWithinValidation(id) /\ KeepsFrozen(id)
  BY <1>1, <1>2, <1>3, <1>5
     DEF MovesWindow, KeepsWithinValidation, KeepsFrozen, EndsWithin, InForce, IsValid, NoTime
<1>12. KeepsOutOfForce(id)
  BY <1>1, <1>2, <1>5 DEF KeepsOutOfForce, OutOfForce, IsValid
<1>13. MovesCoins(id)
  <2>1. f.slashedDeposit = e.slashedDeposit + 0 /\ 0 = 0 + 0
    BY <1>3
  <2>2. NothingSinks
    BY <1>1, <1>6 DEF NothingSinks, Sunk
  <2> QED BY <1>2, <1>5, <1>7, <1>8, <2>1, <2>2, UpdateMovesCoins
<1> QED BY <1>5, <1>7, <1>9, <1>10, <1>11, <1>12, <1>13 DEF Effect

LEMMA SlashParticipantEffect ==
  ASSUME PInv, NEW corp \in Corporations, NEW id \in DOMAIN participants,
         NEW amount \in Nat,
         SlashParticipantTrustDeposit(corp, id, amount)
  PROVE  Effect(id)
<1> DEFINE e == participants[id]
           owner == e.corporation
           less == e.deposit - amount
           more == e.slashedDeposit + amount
           f == [e EXCEPT !.slashed = TRUE, !.slashedDeposit = more, !.deposit = less]
           x == Burned(td[owner], amount, PREC)
<1>1. /\ amount <= e.deposit /\ CanBurn(td[owner], amount)
      /\ td' = [td EXCEPT ![owner] = x]
      /\ Update(id, f)
      /\ UNCHANGED <<participantCounter, balance, escrow, history>>
  BY DEF SlashParticipantTrustDeposit, MaySlash
<1>2. /\ e \in ParticipantEntries /\ Coherent(e) /\ e.deposit \in Nat
      /\ owner \in Corporations /\ e.opCurrentFees \in Nat
      /\ e.slashedDeposit \in Nat /\ e.repaidDeposit \in Nat
      /\ AccountsTyped /\ td[owner] \in TrustDepositEntries
  BY EntryNumbers, ParticipantNumbers, AccountNumbers
<1>3. less \in Nat /\ more \in Nat /\ less = e.deposit + (0 - amount) /\ less - e.deposit <= 0
  BY <1>1, <1>2
<1>4. /\ x \in TrustDepositEntries
      /\ x.deposit = td[owner].deposit - amount /\ x.slashed = td[owner].slashed
      /\ x.claimable = td[owner].claimable
  BY <1>1, <1>2, BurnEntry, PrecisionAssumption
<1> HIDE DEF e, less, more, x
<1>5. /\ f \in ParticipantEntries /\ SameIdentity(e, f)
      /\ f.opState = e.opState /\ f.opCurrentFees = e.opCurrentFees
      /\ f.opCurrentDeposit = e.opCurrentDeposit
      /\ f.deposit = less /\ f.opValidatorDeposit = e.opValidatorDeposit
      /\ f.from = e.from /\ f.until = e.until /\ f.opExp = e.opExp
      /\ f.slashed /\ f.repaidDeposit = e.repaidDeposit /\ f.slashedDeposit = more
  BY <1>2, <1>3 DEF ParticipantEntries, SameIdentity
<1> HIDE DEF f
<1>6. Coherent(f) /\ f.validator = e.validator
  BY <1>2, <1>5 DEF Coherent, SameIdentity
<1>7. Writes(id) /\ participants'[id] = f /\ participants[id] = e
  BY <1>1, <1>5, <1>6, UpdateWrites DEF e
<1>8. /\ td' \in [Corporations -> TrustDepositEntries]
      /\ td'[owner] = x
      /\ \A c \in Corporations \ {owner} : td'[c] = td[c]
  BY <1>1, <1>2, <1>4, EntryReplaced
<1>9. AccountsTyped' /\ escrow' = escrow + 0
  BY <1>1, <1>2, <1>8 DEF AccountsTyped
<1>10. ASSUME NEW c \in Corporations
       PROVE  /\ Booked(c)' = Booked(c) + At(c, owner, 0 - amount)
              /\ Wealth(c)' = Wealth(c) - At(c, owner, amount)
  <2>1. UNCHANGED <<balance, history>>
    BY <1>1
  <2>2. CASE c = owner
    <3>1. /\ td'[c].deposit = td[c].deposit - amount
          /\ td'[c].slashed = td[c].slashed /\ td'[c].claimable = td[c].claimable
      BY <1>4, <1>8, <2>2
    <3> HIDE DEF owner
    <3> QED BY <1>2, <2>1, <2>2, <3>1, AccountNumbers DEF Booked, Wealth, At
  <2>3. CASE c # owner
    BY <1>2, <1>8, <2>1, <2>3, AccountNumbers DEF Booked, Wealth, At
  <2> QED BY <2>2, <2>3
<1>11. MovesBooks(id)
  <2>1. /\ f.deposit = e.deposit + (0 - amount) /\ 0 - amount \in Int
        /\ f.opCurrentFees = e.opCurrentFees + 0
    BY <1>2, <1>3, <1>5
  <2> QED BY <1>5, <1>7, <1>9, <1>10, <2>1, UpdateMovesBooks
<1>12. KeepsContract(id)
  <2>1. (Pending(id)' <=> Pending(id)) /\ DueOf(id)' = DueOf(id)
    BY <1>5, <1>7, PartsBefore, PartsAfter
  <2> QED BY <1>2, <1>10, <2>1 DEF KeepsContract
<1>13. MovesWindow(id) /\ KeepsWithinValidation(id) /\ KeepsFrozen(id)
  BY <1>5, <1>7 DEF MovesWindow, KeepsWithinValidation, KeepsFrozen, EndsWithin, InForce
<1>14. KeepsOutOfForce(id)
  BY <1>2, <1>3, <1>5, <1>7 DEF KeepsOutOfForce
<1>15. MovesCoins(id)
  <2>1. f.slashedDeposit = e.slashedDeposit + amount /\ amount = 0 + amount
    BY <1>2, <1>5 DEF more
  <2>2. NothingSinks
    BY <1>1, <1>4, <1>8 DEF NothingSinks, Sunk
  <2> QED BY <1>2, <1>7, <1>9, <1>10, <2>1, <2>2, UpdateMovesCoins
<1> QED BY <1>7, <1>9, <1>11, <1>12, <1>13, <1>14, <1>15 DEF Effect

LEMMA RepayParticipantEffect ==
  ASSUME PInv, NEW corp \in Corporations, NEW id \in DOMAIN participants,
         NEW amount \in Nat,
         RepayParticipantSlashedTrustDeposit(corp, id, amount)
  PROVE  Effect(id)
<1> DEFINE e == participants[id]
           repaid == e.repaidDeposit + amount
           more == e.deposit + amount
           full == e.repaid \/ repaid >= e.slashedDeposit
           f == [e EXCEPT !.repaidDeposit = repaid, !.deposit = more, !.repaid = full]
<1>1. /\ e.corporation = corp /\ e.slashed
      /\ PayDepositAndFees(corp, amount, 0)
      /\ Update(id, f)
      /\ UNCHANGED <<participantCounter, history>>
  BY DEF RepayParticipantSlashedTrustDeposit, RepaidParticipant
<1>2. /\ e \in ParticipantEntries /\ Coherent(e) /\ e.deposit \in Nat
      /\ corp \in Corporations /\ e.opCurrentFees \in Nat
      /\ e.slashedDeposit \in Nat /\ e.repaidDeposit \in Nat /\ e.repaid \in BOOLEAN
      /\ AccountsTyped
  BY EntryNumbers, ParticipantNumbers
<1>3. /\ repaid \in Nat /\ more \in Nat /\ more = e.deposit + amount
      /\ more - e.deposit <= repaid - e.repaidDeposit
  BY <1>2
<1>4. full \in BOOLEAN /\ (e.repaid => full)
  BY <1>2
<1> HIDE DEF e, repaid, more, full
<1>5. /\ f \in ParticipantEntries /\ SameIdentity(e, f)
      /\ f.opState = e.opState /\ f.opCurrentFees = e.opCurrentFees
      /\ f.opCurrentDeposit = e.opCurrentDeposit
      /\ f.deposit = more /\ f.opValidatorDeposit = e.opValidatorDeposit
      /\ f.from = e.from /\ f.until = e.until /\ f.opExp = e.opExp
      /\ f.slashed = e.slashed /\ f.repaidDeposit = repaid
      /\ f.slashedDeposit = e.slashedDeposit
  BY <1>2, <1>3, <1>4 DEF ParticipantEntries, SameIdentity
<1> HIDE DEF f
<1>6. Coherent(f) /\ f.validator = e.validator
  BY <1>2, <1>5 DEF Coherent, SameIdentity
<1>7. Writes(id) /\ participants'[id] = f /\ participants[id] = e
  BY <1>1, <1>5, <1>6, UpdateWrites DEF e
<1>8. /\ AccountsTyped' /\ escrow' = escrow + 0 /\ NothingSinks
      /\ \A c \in Corporations :
           /\ Booked(c)' = Booked(c) + At(c, corp, amount)
           /\ Wealth(c)' = Wealth(c) - At(c, corp, 0)
  BY <1>1, <1>2, PayStep
<1>9. MovesBooks(id)
  <2>1. f.deposit = e.deposit + amount /\ f.opCurrentFees = e.opCurrentFees + 0
    BY <1>2, <1>3, <1>5
  <2> QED BY <1>1, <1>5, <1>7, <1>8, <2>1, UpdateMovesBooks
<1>10. KeepsContract(id)
  <2>1. 0 \in Nat
    OBVIOUS
  <2>2. (Pending(id)' <=> Pending(id)) /\ DueOf(id)' = DueOf(id)
    BY <1>5, <1>7, PartsBefore, PartsAfter
  <2> QED BY <1>2, <1>8, <2>1, <2>2 DEF KeepsContract
<1>11. MovesWindow(id) /\ KeepsWithinValidation(id) /\ KeepsFrozen(id)
  BY <1>1, <1>5, <1>7 DEF MovesWindow, KeepsWithinValidation, KeepsFrozen, EndsWithin, InForce
<1>12. KeepsOutOfForce(id)
  BY <1>3, <1>5, <1>7 DEF KeepsOutOfForce
<1>13. MovesCoins(id)
  <2>1. f.slashedDeposit = e.slashedDeposit + 0 /\ 0 = 0 + 0
    BY <1>2, <1>5
  <2> QED BY <1>2, <1>7, <1>8, <2>1, UpdateMovesCoins
<1> QED BY <1>7, <1>8, <1>9, <1>10, <1>11, <1>12, <1>13 DEF Effect

-----------------------------------------------------------------------------
(* The messages of x/td, and restarts.                                     *)

\* A step that stores no participant: the books stay, and what a
\* corporation loses is slashed by governance.
Quiet ==
  /\ UNCHANGED <<participants, participantCounter, escrow>>
  /\ AccountsTyped'
  /\ \A c \in Corporations :
       Booked(c)' = Booked(c) /\ Wealth(c)' + Sunk(c)' = Wealth(c) + Sunk(c)
  /\ \/ \A c \in Corporations : Wealth(c)' = Wealth(c)
     \/ \E party \in Corporations, loss \in Nat :
          \A c \in Corporations : Wealth(c)' = Wealth(c) - At(c, party, loss)

LEMMA HistoryReplaced ==
  ASSUME AccountsTyped, NEW corp \in Corporations, NEW h \in Histories,
         history' = [history EXCEPT ![corp] = h]
  PROVE  /\ history' \in [Corporations -> Histories]
         /\ history'[corp] = h
         /\ \A c \in Corporations \ {corp} : history'[c] = history[c]
BY DEF AccountsTyped

LEMMA BalanceReplaced ==
  ASSUME AccountsTyped, NEW corp \in Corporations, NEW n \in Nat,
         balance' = [balance EXCEPT ![corp] = n]
  PROVE  /\ balance' \in [Corporations -> Nat]
         /\ balance'[corp] = n
         /\ \A c \in Corporations \ {corp} : balance'[c] = balance[c]
BY DEF AccountsTyped

LEMMA ReclaimIsQuiet ==
  ASSUME AccountsTyped, NEW corp \in Corporations, ReclaimTrustDepositYield(corp)
  PROVE  Quiet
<1> DEFINE e == td[corp]
           x == Reclaimed(e, PREC)
           coins == balance[corp] + e.claimable
           reclaimed == history[corp].reclaimed + e.claimable
           h == [history[corp] EXCEPT !.reclaimed = reclaimed]
<1>1. /\ td' = [td EXCEPT ![corp] = x]
      /\ balance' = [balance EXCEPT ![corp] = coins]
      /\ history' = [history EXCEPT ![corp] = h]
      /\ UNCHANGED <<participants, participantCounter, escrow>>
  BY DEF ReclaimTrustDepositYield
<1>2. /\ e \in TrustDepositEntries /\ e.claimable \in Nat /\ balance[corp] \in Nat
      /\ history[corp] \in Histories /\ history[corp].reclaimed \in Nat
  BY AccountNumbers
<1>3. /\ x \in TrustDepositEntries /\ x.deposit = e.deposit
      /\ x.slashed = e.slashed /\ x.claimable = 0
  BY <1>2, ReclaimEntry, PrecisionAssumption
<1>4. coins \in Nat /\ reclaimed \in Nat
  BY <1>2
<1>5. coins = balance[corp] + e.claimable /\ reclaimed = history[corp].reclaimed + e.claimable
  OBVIOUS
<1> HIDE DEF x, coins, reclaimed
<1>6. /\ h \in Histories /\ h.reclaimed = reclaimed
      /\ h.cancelled = history[corp].cancelled /\ h.forgotten = history[corp].forgotten
      /\ h.repaid = history[corp].repaid
  BY <1>2, <1>4 DEF Histories
<1> HIDE DEF h
<1>7. /\ td' \in [Corporations -> TrustDepositEntries] /\ td'[corp] = x
      /\ \A c \in Corporations \ {corp} : td'[c] = td[c]
  BY <1>1, <1>3, EntryReplaced
<1>8. /\ balance' \in [Corporations -> Nat] /\ balance'[corp] = coins
      /\ \A c \in Corporations \ {corp} : balance'[c] = balance[c]
  BY <1>1, <1>4, BalanceReplaced
<1>9. /\ history' \in [Corporations -> Histories] /\ history'[corp] = h
      /\ \A c \in Corporations \ {corp} : history'[c] = history[c]
  BY <1>1, <1>6, HistoryReplaced
<1>10. ASSUME NEW c \in Corporations
       PROVE  Booked(c)' = Booked(c) /\ Wealth(c)' = Wealth(c) /\ Sunk(c)' = Sunk(c)
  <2>1. CASE c = corp
    <3>1. /\ td'[c].deposit = td[c].deposit /\ td'[c].slashed = td[c].slashed
          /\ td'[c].claimable = 0
      BY <1>3, <1>7, <2>1
    <3>2. /\ history'[c].reclaimed = history[c].reclaimed + td[c].claimable
          /\ history'[c].cancelled = history[c].cancelled
          /\ history'[c].forgotten = history[c].forgotten
          /\ history'[c].repaid = history[c].repaid
      BY <1>5, <1>6, <1>9, <2>1
    <3>3. balance'[c] = balance[c] + td[c].claimable
      BY <1>5, <1>8, <2>1
    <3> QED BY <3>1, <3>2, <3>3, AccountNumbers DEF Booked, Wealth, Sunk
  <2>2. CASE c # corp
    BY <1>7, <1>8, <1>9, <2>2 DEF Booked, Wealth, Sunk
  <2> QED BY <2>1, <2>2
<1>11. AccountsTyped'
  BY <1>1, <1>7, <1>8, <1>9 DEF AccountsTyped
<1> QED BY <1>1, <1>10, <1>11 DEF Quiet

LEMMA GovernanceSlashIsQuiet ==
  ASSUME AccountsTyped, NEW corp \in Corporations, NEW amount \in Nat,
         SlashTrustDeposit(corp, amount)
  PROVE  Quiet
<1> DEFINE e == td[corp]
           x == Slashed(e, amount, PREC)
<1>1. /\ td' = [td EXCEPT ![corp] = x] /\ CanSlash(e, amount)
      /\ UNCHANGED <<participants, participantCounter, escrow, balance, history>>
  BY DEF SlashTrustDeposit
<1>2. e \in TrustDepositEntries
  BY AccountNumbers
<1>3. /\ x \in TrustDepositEntries /\ x.deposit = e.deposit - amount
      /\ x.slashed = e.slashed + amount /\ x.claimable = e.claimable
  BY <1>1, <1>2, SlashEntry, PrecisionAssumption
<1> HIDE DEF x
<1>4. /\ td' \in [Corporations -> TrustDepositEntries] /\ td'[corp] = x
      /\ \A c \in Corporations \ {corp} : td'[c] = td[c]
  BY <1>1, <1>3, EntryReplaced
<1>5. ASSUME NEW c \in Corporations
      PROVE  /\ Booked(c)' = Booked(c) /\ Wealth(c)' = Wealth(c) - At(c, corp, amount)
             /\ Wealth(c)' + Sunk(c)' = Wealth(c) + Sunk(c)
  <2>1. UNCHANGED <<balance, history>>
    BY <1>1
  <2>2. CASE c = corp
    <3>1. /\ td'[c].deposit = td[c].deposit - amount
          /\ td'[c].slashed = td[c].slashed + amount /\ td'[c].claimable = td[c].claimable
      BY <1>3, <1>4, <2>2
    <3> QED BY <2>1, <2>2, <3>1, AccountNumbers DEF Booked, Wealth, Sunk, At
  <2>3. CASE c # corp
    BY <1>4, <2>1, <2>3, AccountNumbers DEF Booked, Wealth, Sunk, At
  <2> QED BY <2>2, <2>3
<1>6. AccountsTyped'
  BY <1>1, <1>4 DEF AccountsTyped
<1> QED BY <1>1, <1>5, <1>6 DEF Quiet

LEMMA RepayIsQuiet ==
  ASSUME AccountsTyped, NEW corp \in Corporations, RepaySlashedTrustDeposit(corp)
  PROVE  Quiet
<1> DEFINE e == td[corp]
           x == Repaid(e, PREC)
           coins == balance[corp] - e.slashed
           repaid == history[corp].repaid + e.slashed
           h == [history[corp] EXCEPT !.repaid = repaid]
<1>1. /\ td' = [td EXCEPT ![corp] = x]
      /\ balance[corp] >= e.slashed
      /\ balance' = [balance EXCEPT ![corp] = coins]
      /\ history' = [history EXCEPT ![corp] = h]
      /\ UNCHANGED <<participants, participantCounter, escrow>>
  BY DEF RepaySlashedTrustDeposit
<1>2. /\ e \in TrustDepositEntries /\ e.slashed \in Nat /\ balance[corp] \in Nat
      /\ history[corp] \in Histories /\ history[corp].repaid \in Nat
  BY AccountNumbers
<1>3. /\ x \in TrustDepositEntries /\ x.deposit = e.deposit + e.slashed
      /\ x.slashed = 0 /\ x.claimable = e.claimable
  BY <1>2, RepayEntry, PrecisionAssumption
<1>4. coins \in Nat /\ repaid \in Nat /\ coins = balance[corp] - e.slashed
  BY <1>1, <1>2
<1>5. repaid = history[corp].repaid + e.slashed
  OBVIOUS
<1> HIDE DEF x, coins, repaid
<1>6. /\ h \in Histories /\ h.reclaimed = history[corp].reclaimed
      /\ h.cancelled = history[corp].cancelled /\ h.forgotten = history[corp].forgotten
      /\ h.repaid = repaid
  BY <1>2, <1>4 DEF Histories
<1> HIDE DEF h
<1>7. /\ td' \in [Corporations -> TrustDepositEntries] /\ td'[corp] = x
      /\ \A c \in Corporations \ {corp} : td'[c] = td[c]
  BY <1>1, <1>3, EntryReplaced
<1>8. /\ balance' \in [Corporations -> Nat] /\ balance'[corp] = coins
      /\ \A c \in Corporations \ {corp} : balance'[c] = balance[c]
  BY <1>1, <1>4, BalanceReplaced
<1>9. /\ history' \in [Corporations -> Histories] /\ history'[corp] = h
      /\ \A c \in Corporations \ {corp} : history'[c] = history[c]
  BY <1>1, <1>6, HistoryReplaced
<1>10. ASSUME NEW c \in Corporations
       PROVE  Booked(c)' = Booked(c) /\ Wealth(c)' = Wealth(c) /\ Sunk(c)' = Sunk(c)
  <2>1. CASE c = corp
    <3>1. /\ td'[c].deposit = td[c].deposit + td[c].slashed /\ td'[c].slashed = 0
          /\ td'[c].claimable = td[c].claimable
      BY <1>3, <1>7, <2>1
    <3>2. /\ history'[c].reclaimed = history[c].reclaimed
          /\ history'[c].cancelled = history[c].cancelled
          /\ history'[c].forgotten = history[c].forgotten
          /\ history'[c].repaid = history[c].repaid + td[c].slashed
      BY <1>5, <1>6, <1>9, <2>1
    <3>3. balance'[c] = balance[c] - td[c].slashed
      BY <1>4, <1>8, <2>1
    <3> QED BY <3>1, <3>2, <3>3, AccountNumbers DEF Booked, Wealth, Sunk
  <2>2. CASE c # corp
    BY <1>7, <1>8, <1>9, <2>2 DEF Booked, Wealth, Sunk
  <2> QED BY <2>1, <2>2
<1>11. AccountsTyped'
  BY <1>1, <1>7, <1>8, <1>9 DEF AccountsTyped
<1> QED BY <1>1, <1>10, <1>11 DEF Quiet

LEMMA RestartIsQuiet ==
  ASSUME PInv, RestartChain
  PROVE  Quiet /\ UNCHANGED <<now, schemaVars, trustUnitPrice>>
<1>1. AccountsTyped
  BY ParticipantNumbers
<1>2. ASSUME NEW c \in Corporations
      PROVE  /\ td'[c] \in TrustDepositEntries /\ td'[c].deposit = td[c].deposit
             /\ td'[c].claimable = td[c].claimable /\ td'[c].slashed = 0
             /\ history'[c] \in Histories
             /\ history'[c].reclaimed = history[c].reclaimed
             /\ history'[c].cancelled = history[c].cancelled
             /\ history'[c].forgotten = history[c].forgotten + td[c].slashed
             /\ history'[c].repaid = history[c].repaid
  <2>1. td[c] \in TrustDepositEntries /\ history[c] \in Histories
    BY <1>1, AccountNumbers
  <2>2. td'[c] = Exported(td[c])
    BY DEF RestartChain
  <2> DEFINE forgotten == history[c].forgotten + td[c].slashed
  <2>3. history'[c] = [history[c] EXCEPT !.forgotten = forgotten]
    BY DEF RestartChain
  <2>4. forgotten \in Nat /\ forgotten = history[c].forgotten + td[c].slashed
    BY <1>1, AccountNumbers
  <2> HIDE DEF forgotten
  <2>5. /\ history'[c] \in Histories
        /\ history'[c].reclaimed = history[c].reclaimed
        /\ history'[c].cancelled = history[c].cancelled
        /\ history'[c].forgotten = forgotten
        /\ history'[c].repaid = history[c].repaid
    BY <2>1, <2>3, <2>4 DEF Histories
  <2>6. /\ td'[c] \in TrustDepositEntries /\ td'[c].deposit = td[c].deposit
        /\ td'[c].claimable = td[c].claimable /\ td'[c].slashed = 0
    BY <2>1, <2>2, ExportEntry
  <2> QED BY <2>4, <2>5, <2>6
<1>3. /\ td' = [c \in Corporations |-> td'[c]] /\ history' = [c \in Corporations |-> history'[c]]
      /\ UNCHANGED <<now, participants, participantCounter, balance, escrow, trustUnitPrice>>
  BY DEF RestartChain, RestartFromGenesis
<1>4. td' \in [Corporations -> TrustDepositEntries] /\ history' \in [Corporations -> Histories]
  BY <1>2, <1>3
<1>5. AccountsTyped'
  BY <1>1, <1>3, <1>4 DEF AccountsTyped
<1>6. ASSUME NEW c \in Corporations
      PROVE  Booked(c)' = Booked(c) /\ Wealth(c)' = Wealth(c) /\ Sunk(c)' = Sunk(c)
  <2>1. balance'[c] = balance[c]
    BY <1>3
  <2> QED BY <1>1, <1>2, <2>1, AccountNumbers DEF Booked, Wealth, Sunk
<1>7. UNCHANGED schemaVars
  BY SchemaRestart DEF RestartChain, PInv, ParticipantTypeOK
<1> QED BY <1>3, <1>5, <1>6, <1>7 DEF Quiet

-----------------------------------------------------------------------------
(* Every step.                                                             *)

\* Nothing is created once the ids are used up.
LEMMA IdsLeft ==
  ASSUME PInv, NEW corp \in Corporations, Creations(corp)
  PROVE  NewId <= MaxParticipants
<1>1. NewId <= MaxParticipants \/ NewId <= MaxWithTdMessages
  BY DEF Creations
<1>2. MaxWithTdMessages \in 0 .. MaxParticipants
  BY ParticipantAssumption
<1>3. NewId \in Nat /\ MaxParticipants \in Nat
  BY ParticipantNumbers DEF NewId
<1> QED BY <1>1, <1>2, <1>3

\* A message creates a participant, or changes one that is there.
LEMMA CreationsEffect ==
  ASSUME PInv, NEW corp \in Corporations, Creations(corp)
  PROVE  (\E id : Effect(id) /\ id \notin DOMAIN participants) /\ UNCHANGED now
<1>1. NewId <= MaxParticipants
  BY IdsLeft
<1>2. PICK did \in DidsOf[corp], operator \in Operators, request \in Requests :
       \/ \E s \in DOMAIN schemas, from \in Froms, until \in Untils, terms \in Terms :
            CreateRootParticipant(corp, s, did, from, until, terms, operator, request)
       \/ \E id \in DOMAIN participants, role \in ValidatedRoles :
            \/ StartParticipantOP(corp, id, role, did, operator, request)
            \/ \E from \in Froms, until \in Untils, terms \in Terms \cup {NoTerms} :
                 SelfCreateParticipant(corp, id, role, did, from, until, terms, operator,
                                       request)
  BY Zenon DEF Creations
<1>3. PICK new : new = NewId
  OBVIOUS
<1>4. did \in Dids
  BY ParticipantAssumption
<1>5. NoTerms \in FeeTerms
  BY ParticipantAssumption DEF NoTerms, FeeTerms
<1>6. ASSUME NEW s \in DOMAIN schemas, NEW from \in Froms, NEW until \in Untils,
             NEW terms \in Terms,
             CreateRootParticipant(corp, s, did, from, until, terms, operator, request)
      PROVE  Effect(new) /\ new \notin DOMAIN participants /\ UNCHANGED now
  <2>1. from \in Nat /\ until \in Nat /\ terms \in FeeTerms
    BY ParticipantAssumption
  <2>2. Effect(new) /\ new \notin DOMAIN participants
    BY <1>1, <1>3, <1>4, <1>6, <2>1, CreateRootEffect
  <2>3. UNCHANGED now
    BY <1>6, Zenon DEF CreateRootParticipant, GrantRecord, GrantVSOperatorAuthorization, vars
  <2> QED BY <2>2, <2>3
<1>7. ASSUME NEW id \in DOMAIN participants, NEW role \in ValidatedRoles,
             StartParticipantOP(corp, id, role, did, operator, request)
      PROVE  Effect(new) /\ new \notin DOMAIN participants /\ UNCHANGED now
  <2>1. Effect(new) /\ new \notin DOMAIN participants
    BY <1>1, <1>3, <1>4, <1>7, StartEffect
  <2>2. UNCHANGED now
    BY <1>7, Zenon DEF StartParticipantOP, GrantRecord, GrantVSOperatorAuthorization, vars
  <2> QED BY <2>1, <2>2
<1>8. ASSUME NEW id \in DOMAIN participants, NEW role \in ValidatedRoles,
             NEW from \in Froms, NEW until \in Untils, NEW terms \in Terms \cup {NoTerms},
             SelfCreateParticipant(corp, id, role, did, from, until, terms, operator, request)
      PROVE  Effect(new) /\ new \notin DOMAIN participants /\ UNCHANGED now
  <2>1. from \in Nat /\ until \in Nat /\ terms \in FeeTerms
    BY <1>5, ParticipantAssumption
  <2>2. Effect(new) /\ new \notin DOMAIN participants
    BY <1>1, <1>3, <1>4, <1>8, <2>1, SelfCreateEffect
  <2>3. UNCHANGED now
    BY <1>8, Zenon DEF SelfCreateParticipant, GrantRecord, GrantVSOperatorAuthorization, vars
  <2> QED BY <2>2, <2>3
<1> QED BY <1>2, <1>6, <1>7, <1>8

LEMMA MessagesEffect ==
  ASSUME PInv, NEW corp \in Corporations, NEW id \in DOMAIN participants,
         Messages(corp, id)
  PROVE  Effect(id) /\ UNCHANGED now
<1>1. CASE RenewParticipantOP(corp, id)
  <2>1. UNCHANGED now
    BY <1>1 DEF RenewParticipantOP, vars
  <2> QED BY <1>1, <2>1, RenewEffect
<1>2. ASSUME NEW until \in Untils, NEW terms \in Terms,
             SetParticipantOPToValidated(corp, id, until, terms)
      PROVE  Effect(id) /\ UNCHANGED now
  <2>1. until \in Nat /\ terms \in FeeTerms
    BY ParticipantAssumption
  <2>2. UNCHANGED now
    BY <1>2, Zenon DEF SetParticipantOPToValidated, SyncRecord,
                       UpdateVSOperatorAuthorizationExpiration, vars
  <2> QED BY <1>2, <2>1, <2>2, ValidateEffect
<1>3. CASE CancelParticipantOPLastRequest(corp, id)
  <2>1. UNCHANGED now
    BY <1>3, Zenon DEF CancelParticipantOPLastRequest, RevokeVSOperatorAuthorization, vars
  <2> QED BY <1>3, <2>1, CancelEffect
<1>4. ASSUME NEW until \in Untils, SetParticipantEffectiveUntil(corp, id, until)
      PROVE  Effect(id) /\ UNCHANGED now
  <2>1. until \in Nat
    BY ParticipantAssumption
  <2>2. UNCHANGED now
    BY <1>4, Zenon DEF SetParticipantEffectiveUntil, SyncRecord,
                       UpdateVSOperatorAuthorizationExpiration, vars
  <2> QED BY <1>4, <2>1, <2>2, MoveEndEffect
<1>5. CASE RevokeParticipant(corp, id)
  <2>1. UNCHANGED now
    BY <1>5, Zenon DEF RevokeParticipant, RevokeRecord, RevokeVSOperatorAuthorization, vars
  <2> QED BY <1>5, <2>1, RevokeEffect
<1>6. ASSUME NEW amount \in Amounts, SlashParticipantTrustDeposit(corp, id, amount)
      PROVE  Effect(id) /\ UNCHANGED now
  <2>1. amount \in Nat
    BY ParticipantAssumption
  <2>2. UNCHANGED now
    BY <1>6, Zenon DEF SlashParticipantTrustDeposit, RevokeRecord,
                       RevokeVSOperatorAuthorization, vars
  <2> QED BY <1>6, <2>1, <2>2, SlashParticipantEffect
<1>7. ASSUME NEW amount \in Amounts, RepayParticipantSlashedTrustDeposit(corp, id, amount)
      PROVE  Effect(id) /\ UNCHANGED now
  <2>1. amount \in Nat
    BY ParticipantAssumption
  <2>2. UNCHANGED now
    BY <1>7 DEF RepayParticipantSlashedTrustDeposit, vars
  <2> QED BY <1>7, <2>1, <2>2, RepayParticipantEffect
<1> QED BY <1>1, <1>2, <1>3, <1>4, <1>5, <1>6, <1>7 DEF Messages

\* What any step does: to a participant, or to none.
OneParticipantMoves ==
  /\ \E id : Effect(id)
  /\ UNCHANGED <<now, schemaVars, trustUnitPrice>>

NoneMoves ==
  /\ Quiet
  /\ now' \in Nat \ {0} /\ now' >= now /\ trustUnitPrice' \in Nat \ {0}
  /\ SchemaTypeOK' /\ DOMAIN schemas \subseteq DOMAIN schemas'

LEMMA SameIsQuiet ==
  ASSUME AccountsTyped, UNCHANGED ppVars
  PROVE  Quiet
<1>1. UNCHANGED <<participants, participantCounter, td, balance, escrow, history>>
  BY DEF ppVars
<1> QED BY <1>1, SameAccounts DEF Quiet, NothingSinks

LEMMA DepositMessagesAreQuiet ==
  ASSUME AccountsTyped, DepositMessages
  PROVE  Quiet
<1>1. PICK corp \in Corporations :
        \/ ReclaimTrustDepositYield(corp)
        \/ \E amount \in GovernanceSlashes : SlashTrustDeposit(corp, amount)
        \/ RepaySlashedTrustDeposit(corp)
  BY DEF DepositMessages
<1>2. ASSUME NEW amount \in GovernanceSlashes, SlashTrustDeposit(corp, amount)
      PROVE  Quiet
  BY <1>2, GovernanceSlashIsQuiet, ParticipantAssumption
<1> QED BY <1>1, <1>2, ReclaimIsQuiet, RepayIsQuiet

LEMMA ParticipantStep ==
  ASSUME PInv, [ParticipantNext]_allVars
  PROVE  OneParticipantMoves \/ NoneMoves
<1>1. /\ AccountsTyped /\ now \in Nat \ {0} /\ trustUnitPrice \in Nat \ {0}
      /\ SchemaTypeOK
  BY ParticipantNumbers DEF PInv, ParticipantTypeOK
<1>2. ASSUME UNCHANGED <<now, schemaVars, trustUnitPrice>>
      PROVE  /\ now' \in Nat \ {0} /\ now' >= now /\ trustUnitPrice' \in Nat \ {0}
             /\ SchemaTypeOK' /\ DOMAIN schemas \subseteq DOMAIN schemas'
  BY <1>1, <1>2 DEF SchemaTypeOK, schemaVars
<1>3. ASSUME NEW corp \in Corporations, Creations(corp),
             UNCHANGED <<schemaVars, trustUnitPrice>>
      PROVE  OneParticipantMoves
  BY <1>3, CreationsEffect DEF OneParticipantMoves
<1>4. ASSUME NEW corp \in Corporations, NEW id \in DOMAIN participants, Messages(corp, id),
             UNCHANGED <<schemaVars, trustUnitPrice>>
      PROVE  OneParticipantMoves
  BY <1>4, MessagesEffect DEF OneParticipantMoves
<1>5. CASE DepositMessages /\ UNCHANGED <<vars, schemaVars, trustUnitPrice>>
  <2>1. UNCHANGED <<now, schemaVars, trustUnitPrice>>
    BY <1>5 DEF vars
  <2> QED BY <1>1, <1>2, <1>5, <2>1, DepositMessagesAreQuiet DEF NoneMoves
<1>6. CASE SchemaMessages /\ UNCHANGED <<vars, ppVars, trustUnitPrice>>
  <2>1. UNCHANGED <<now, trustUnitPrice>> /\ Quiet
    BY <1>1, <1>6, SameIsQuiet DEF vars
  <2>2. SchemaTypeOK' /\ DOMAIN schemas \subseteq DOMAIN schemas'
    BY <1>1, <1>6, SchemaStep
  <2> QED BY <1>1, <2>1, <2>2 DEF NoneMoves
<1>7. ASSUME NEW price \in Prices, UpdateTrustUnitPrice(price)
      PROVE  NoneMoves
  <2>1. /\ UNCHANGED <<now, schemaVars, ppVars>> /\ trustUnitPrice' \in Nat \ {0}
    BY <1>7, ParticipantAssumption DEF UpdateTrustUnitPrice, vars
  <2>2. Quiet
    BY <1>1, <2>1, SameIsQuiet
  <2>3. SchemaTypeOK' /\ DOMAIN schemas \subseteq DOMAIN schemas'
    BY <1>1, <2>1 DEF SchemaTypeOK, schemaVars
  <2> QED BY <1>1, <2>1, <2>2, <2>3 DEF NoneMoves
<1>8. CASE RestartChain
  BY <1>2, <1>8, RestartIsQuiet DEF NoneMoves
<1>9. CASE TickParticipants
  <2>1. UNCHANGED <<schemaVars, ppVars, trustUnitPrice>> /\ now' = now + 1
    BY <1>9 DEF TickParticipants, Tick
  <2>2. Quiet
    BY <1>1, <2>1, SameIsQuiet
  <2>3. SchemaTypeOK' /\ DOMAIN schemas \subseteq DOMAIN schemas'
    BY <1>1, <2>1 DEF SchemaTypeOK, schemaVars
  <2> QED BY <1>1, <2>1, <2>2, <2>3 DEF NoneMoves
<1>10. CASE UNCHANGED allVars
  <2>1. UNCHANGED <<now, schemaVars, trustUnitPrice, ppVars>>
    BY <1>10 DEF allVars, vars
  <2> QED BY <1>1, <1>2, <2>1, SameIsQuiet DEF NoneMoves
<1> QED
  BY <1>3, <1>4, <1>5, <1>6, <1>7, <1>8, <1>9, <1>10
     DEF ParticipantNext, ParticipantMessages

LEMMA QuietKeepsPInv ==
  ASSUME PInv, NoneMoves
  PROVE  PInv'
<1>1. /\ UNCHANGED <<participants, participantCounter>> /\ AccountsTyped'
      /\ now' \in Nat \ {0} /\ trustUnitPrice' \in Nat \ {0}
      /\ SchemaTypeOK' /\ DOMAIN schemas \subseteq DOMAIN schemas'
  BY DEF NoneMoves, Quiet
<1>2. ParticipantTypeOK'
  BY <1>1 DEF PInv, ParticipantTypeOK, AccountsTyped, Has
<1>3. /\ \A id \in DOMAIN participants' : Coherent(participants'[id])
      /\ VerifiersValidateNoOne'
  BY <1>1 DEF PInv, VerifiersValidateNoOne
<1> QED BY <1>1, <1>2, <1>3 DEF PInv

LEMMA StepKeepsPInv ==
  ASSUME PInv, [ParticipantNext]_allVars
  PROVE  PInv'
<1>1. ASSUME NEW id, Effect(id), UNCHANGED <<now, schemaVars, trustUnitPrice>>
      PROVE  PInv'
  BY <1>1, WritesKeepsPInv DEF Effect
<1> QED BY <1>1, ParticipantStep, QuietKeepsPInv DEF OneParticipantMoves

-----------------------------------------------------------------------------
(* Genesis.                                                                *)

\* The participants of a genesis are roots, and nothing was paid.
AllRoots ==
  /\ \A id \in DOMAIN participants :
       LET e == participants[id]
       IN  /\ e.role = "ECOSYSTEM" /\ e.validator = 0 /\ e.opState = "NONE"
           /\ e.deposit = 0 /\ e.opValidatorDeposit = 0 /\ e.opCurrentFees = 0
           /\ e.slashedDeposit = 0
  /\ escrow = 0
  /\ \A c \in Corporations : Booked(c) = 0 /\ Wealth(c) \in Nat

LEMMA GenesesKnown == \A g \in Geneses : IsGenesis(g)
BY ParticipantAssumption

LEMMA GenesisTyped ==
  ASSUME NEW g \in Geneses
  PROVE  /\ \E n \in 0 .. MaxSchemas : g.schemas \in [1 .. n -> CredentialSchemas]
         /\ \E n \in 0 .. MaxParticipants : DOMAIN g.roots = 1 .. n
         /\ \A id \in DOMAIN g.roots : g.roots[id] \in RootForms(g.schemas)
         /\ g.price \in Nat \ {0}
<1>1. IsGenesis(g)
  BY GenesesKnown
<1>2. \E n \in 0 .. MaxParticipants : g.roots \in [1 .. n -> RootForms(g.schemas)]
  BY <1>1, Zenon DEF IsGenesis
<1>3. /\ \E n \in 0 .. MaxSchemas : g.schemas \in [1 .. n -> CredentialSchemas]
      /\ g.price \in Nat \ {0}
  BY <1>1, Zenon DEF IsGenesis
<1> HIDE DEF RootForms
<1> QED BY <1>2, <1>3

\* A root of a genesis is a participant that a message could have created.
IsRoot(f, schema, from, until) ==
  /\ f \in ParticipantEntries /\ Coherent(f)
  /\ f.schema = schema /\ f.role = "ECOSYSTEM" /\ f.validator = 0
  /\ f.from = from /\ f.until = until /\ f.opExp = NoTime
  /\ f.deposit = 0 /\ f.opValidatorDeposit = 0
  /\ f.opState = "NONE" /\ f.opCurrentFees = 0 /\ f.slashedDeposit = 0

LEMMA RootOfTyped ==
  ASSUME NEW g \in Geneses, NEW id \in DOMAIN g.roots
  PROVE  /\ IsRoot(RootOf(g.roots[id], g.schemas[g.roots[id].schema]),
                   g.roots[id].schema, g.roots[id].from, g.roots[id].until)
         /\ g.roots[id].schema \in DOMAIN g.schemas
<1> DEFINE r == g.roots[id]
           corp == ControllerOf[g.schemas[r.schema].ecosystem]
<1>1. r \in RootForms(g.schemas)
  BY GenesisTyped
<1> HIDE DEF r
<1>2. /\ r.schema \in DOMAIN g.schemas /\ r.did \in Dids /\ r.operator \in Operators
      /\ r.from \in Nat /\ r.until \in Nat /\ r.terms \in FeeTerms
  BY <1>1 DEF RootForms
<1>3. PICK n \in 0 .. MaxSchemas : g.schemas \in [1 .. n -> CredentialSchemas]
  BY GenesisTyped
<1>4. g.schemas[r.schema] \in CredentialSchemas /\ r.schema \in Nat
  BY <1>2, <1>3
<1>5. corp \in Corporations
  BY <1>4, ParticipantAssumption DEF CredentialSchemas
<1> HIDE DEF corp
<1>6. RootOf(r, g.schemas[r.schema])
        = Root(corp, r.schema, r.did, r.operator, r.from, r.until, r.terms)
  BY Zenon DEF RootOf, corp
<1> DEFINE f == Root(corp, r.schema, r.did, r.operator, r.from, r.until, r.terms)
<1>7. IsRoot(f, r.schema, r.from, r.until)
  <2>1. RootArguments(corp, r.schema, r.did, r.operator, r.from, r.until, r.terms)
    BY <1>2, <1>4, <1>5 DEF RootArguments
  <2> QED BY <2>1, RootTyped DEF IsRoot
<1> HIDE DEF f
<1>8. RootOf(r, g.schemas[r.schema]) = f
  BY <1>6, Zenon DEF f
<1> QED BY <1>2, <1>7, <1>8, Zenon DEF r

\* The participants that a genesis makes of its roots.
RootsOf(g) ==
  [id \in DOMAIN g.roots |-> RootOf(g.roots[id], g.schemas[g.roots[id].schema])]

LEMMA RootsRead ==
  ASSUME NEW g
  PROVE  /\ DOMAIN RootsOf(g) = DOMAIN g.roots
         /\ RootsOf(g) = [id \in DOMAIN g.roots |-> RootsOf(g)[id]]
         /\ \A id \in DOMAIN g.roots :
              RootsOf(g)[id] = RootOf(g.roots[id], g.schemas[g.roots[id].schema])
BY DEF RootsOf

LEMMA ParticipantsBegin ==
  ASSUME ParticipantInit
  PROVE  PInv /\ AllRoots
<1>1. PICK g \in Geneses :
        /\ SchemaInit(g.schemas)
        /\ participants = RootsOf(g)
        /\ trustUnitPrice = g.price
  BY Zenon DEF ParticipantInit, RootsOf
<1>2. PICK n \in 0 .. MaxParticipants : DOMAIN g.roots = 1 .. n
  BY GenesisTyped
<1>3. PICK m \in 0 .. MaxSchemas : g.schemas \in [1 .. m -> CredentialSchemas]
  BY GenesisTyped
<1>4. /\ schemas = g.schemas
      /\ schemaCounter = LastId(schemas)
      /\ maxPeriod = [role \in ValidatedRoles |-> DefaultMaxDays]
  BY <1>1 DEF SchemaInit
<1>5. n \in Nat /\ m \in Nat /\ n <= MaxParticipants
  BY <1>2, <1>3, ParticipantAssumption, SchemaAssumption
<1>6. SchemaTypeOK
  <2>1. schemaCounter = m
    <3>1. schemas \in [1 .. m -> CredentialSchemas]
      BY <1>3, <1>4
    <3>2. LastId(schemas) = m
      BY <1>5, <3>1, LastIdOfInterval, Zenon
    <3> QED BY <1>4, <3>2
  <2> QED BY <1>3, <1>4, <1>5, <2>1, SchemaAssumption DEF SchemaTypeOK
<1>7. ASSUME NEW id \in 1 .. n
      PROVE  LET f == participants[id]
             IN  /\ f \in ParticipantEntries /\ Coherent(f) /\ Has(schemas, f.schema)
                 /\ f.role = "ECOSYSTEM" /\ f.validator = 0 /\ f.opState = "NONE"
                 /\ f.deposit = 0 /\ f.opValidatorDeposit = 0 /\ f.opCurrentFees = 0
                 /\ f.slashedDeposit = 0
  <2>2. id \in DOMAIN g.roots
    BY <1>2, Zenon
  <2> DEFINE f == RootOf(g.roots[id], g.schemas[g.roots[id].schema])
  <2>1. participants[id] = f
    BY <1>1, <2>2, RootsRead
  <2>3. /\ IsRoot(f, g.roots[id].schema, g.roots[id].from, g.roots[id].until)
        /\ g.roots[id].schema \in DOMAIN g.schemas
    BY <2>2, RootOfTyped
  <2> HIDE DEF f
  <2> QED BY <1>4, <2>1, <2>3 DEF Has, IsRoot
<1>8. participants \in [1 .. n -> ParticipantEntries] /\ DOMAIN participants = 1 .. n
  <2>1. DOMAIN participants = 1 .. n /\ participants = [id \in 1 .. n |-> participants[id]]
    BY <1>1, <1>2, RootsRead
  <2> QED BY <1>7, <2>1
<1>9. participantCounter = n
  BY <1>5, <1>8, LastIdOfInterval DEF ParticipantInit
<1>10. trustUnitPrice \in Nat \ {0} /\ now = 1
  BY <1>1, GenesisTyped DEF ParticipantInit, Init
<1>11. /\ td = [c \in Corporations |-> NoEntry] /\ balance = GenesisBalance /\ escrow = 0
       /\ history = [c \in Corporations |->
                       [cancelled |-> 0, reclaimed |-> 0, repaid |-> 0, forgotten |-> 0]]
  BY DEF ParticipantInit
<1>12. AccountsTyped
  BY <1>11, NoEntryType, ParticipantAssumption DEF AccountsTyped, Histories
<1>13. ParticipantTypeOK
  BY <1>5, <1>6, <1>7, <1>8, <1>9, <1>10, <1>12 DEF ParticipantTypeOK, AccountsTyped
<1>14. PInv
  BY <1>7, <1>8, <1>10, <1>13 DEF PInv, VerifiersValidateNoOne
<1>15. ASSUME NEW c \in Corporations
       PROVE  Booked(c) = 0 /\ Wealth(c) \in Nat
  <2>1. /\ td[c] = NoEntry
        /\ history[c] = [cancelled |-> 0, reclaimed |-> 0, repaid |-> 0, forgotten |-> 0]
        /\ balance[c] \in Nat
    BY <1>11, <1>12 DEF AccountsTyped
  <2> QED BY <2>1 DEF Booked, Wealth, NoEntry
<1>16. AllRoots
  BY <1>7, <1>8, <1>11, <1>15 DEF AllRoots
<1> QED BY <1>14, <1>16

-----------------------------------------------------------------------------
LEMMA ParticipantInvariant == ParticipantSpec => []PInv
<1>1. ParticipantInit => PInv
  BY ParticipantsBegin
<1>2. PInv /\ [ParticipantNext]_allVars => PInv'
  BY StepKeepsPInv
<1> QED BY <1>1, <1>2, PTL DEF ParticipantSpec

(***************************************************************************)
(* The stores of x/pp hold in every reachable state what their codecs can  *)
(* encode: no handler leaves a deposit, an account or the escrow below     *)
(* zero, and a participant's validator and schema are there.               *)
(***************************************************************************)
THEOREM ParticipantsStayTyped == ParticipantSpec => []ParticipantTypeOK
<1>1. PInv => ParticipantTypeOK
  BY DEF PInv
<1> QED BY <1>1, ParticipantInvariant, PTL

-----------------------------------------------------------------------------
(* The books: the escrow and the trust deposits against the participants.  *)

DueCells == [id \in 1 .. MaxParticipants |-> DueOf(id)]
OwnCells(corp) == [id \in 1 .. MaxParticipants |-> OwnOf(id, corp)]
AsValidatorCells(corp) == [id \in 1 .. MaxParticipants |-> AsValidatorOf(id, corp)]

LEMMA TotalsAreSums ==
  /\ EscrowBalanced <=> escrow = Sum(DueCells, MaxParticipants)
  /\ \A corp : HeldFor(corp) = Sum(OwnCells(corp), MaxParticipants)
                                 + Sum(AsValidatorCells(corp), MaxParticipants)
<1>1. EscrowBalanced <=> escrow = Sum(DueCells, MaxParticipants)
  BY Zenon DEF EscrowBalanced, Total, DueCells, DueOf
<1>2. ASSUME NEW corp
      PROVE  HeldFor(corp) = Sum(OwnCells(corp), MaxParticipants)
                               + Sum(AsValidatorCells(corp), MaxParticipants)
  BY Zenon DEF HeldFor, Total, OwnCells, OwnOf, AsValidatorCells, AsValidatorOf
<1> QED BY <1>1, <1>2

CellsAreNumbers ==
  \A id : /\ DueOf(id) \in Nat
          /\ \A c : OwnOf(id, c) \in Nat /\ AsValidatorOf(id, c) \in Nat

LEMMA CellsTyped == PInv => CellsAreNumbers
<1> SUFFICES ASSUME PInv, NEW id
             PROVE  /\ DueOf(id) \in Nat
                    /\ \A c : OwnOf(id, c) \in Nat /\ AsValidatorOf(id, c) \in Nat
  BY DEF CellsAreNumbers
<1>1. CASE id \in DOMAIN participants
  BY <1>1, EntryNumbers DEF DueOf, OwnOf, AsValidatorOf
<1>2. CASE id \notin DOMAIN participants
  BY <1>2 DEF DueOf, OwnOf, AsValidatorOf, Has
<1> QED BY <1>1, <1>2

LEMMA CellsTypedAfter == PInv' => CellsAreNumbers'
BY CellsTyped, PTL

\* Storing a participant moves no part of another's.
LEMMA OthersPartsStay ==
  ASSUME PInv, NEW id, Writes(id), NEW q, q # id
  PROVE  /\ DueOf(q)' = DueOf(q)
         /\ Pending(q)' <=> Pending(q)
         /\ \A c : OwnOf(q, c)' = OwnOf(q, c) /\ AsValidatorOf(q, c)' = AsValidatorOf(q, c)
<1>1. /\ DOMAIN participants' = DOMAIN participants \cup {id}
      /\ \A p \in DOMAIN participants \ {id} : participants'[p] = participants[p]
  BY WritesRows
<1>2. CASE q \in DOMAIN participants
  <2> DEFINE e == participants[q]
  <2>1. q \in DOMAIN participants' /\ participants'[q] = e
    BY <1>1, <1>2
  <2>2. e.validator # 0 => e.validator \in DOMAIN participants
    BY <1>2, EntryNumbers
  <2>3. \A p \in DOMAIN participants :
          participants'[p].corporation = participants[p].corporation
    BY <1>1 DEF Writes, SameIdentity
  <2> QED BY <1>2, <2>1, <2>2, <2>3 DEF DueOf, Pending, OwnOf, AsValidatorOf, Has
<1>3. CASE q \notin DOMAIN participants
  BY <1>1, <1>3 DEF DueOf, Pending, OwnOf, AsValidatorOf, Has
<1> QED BY <1>2, <1>3

Books ==
  /\ escrow = Sum(DueCells, MaxParticipants)
  /\ \A c \in Corporations :
       Booked(c) = Sum(OwnCells(c), MaxParticipants)
                     + Sum(AsValidatorCells(c), MaxParticipants)

LEMMA EffectKeepsBooks ==
  ASSUME PInv, PInv', Books, NEW id, Effect(id)
  PROVE  Books'
<1> DEFINE n == MaxParticipants
<1>1. n \in Nat /\ id \in 1 .. n /\ MovesBooks(id) /\ Writes(id)
  BY ParticipantNumbers DEF Effect, Writes
<1>2. /\ \A q : DueOf(q) \in Nat /\ DueOf(q)' \in Nat
      /\ \A q, c : OwnOf(q, c) \in Nat /\ AsValidatorOf(q, c) \in Nat
      /\ \A q, c : OwnOf(q, c)' \in Nat /\ AsValidatorOf(q, c)' \in Nat
  BY CellsTyped, CellsTypedAfter DEF CellsAreNumbers
<1>3. \A q : q # id =>
        /\ DueOf(q)' = DueOf(q)
        /\ \A c : OwnOf(q, c)' = OwnOf(q, c) /\ AsValidatorOf(q, c)' = AsValidatorOf(q, c)
  BY <1>1, OthersPartsStay
<1>4. escrow' = Sum(DueCells, n)'
  <2> DEFINE f == DueCells
             g == [q \in 1 .. n |-> DueOf(q)']
  <2>1. f \in [1 .. n -> Int] /\ g \in [1 .. n -> Int]
    BY <1>2 DEF DueCells
  <2>2. /\ \A i \in (1 .. n) \ {id} : g[i] = f[i]
        /\ f[id] = DueOf(id) /\ g[id] = DueOf(id)'
    BY <1>1, <1>3 DEF DueCells
  <2>3. Sum(DueCells, n)' = Sum(g, n)
    BY DEF DueCells
  <2> HIDE DEF f, g, n
  <2>4. Sum(g, n) = Sum(f, n) + g[id] - f[id]
    <3>1. MovesCell(f, g, id, n)
      BY <1>1, <2>1, <2>2 DEF MovesCell, n
    <3> QED BY <3>1, SumMoves
  <2> QED BY <1>1, <2>2, <2>3, <2>4 DEF MovesBooks, Books, f, n
<1>5. ASSUME NEW c \in Corporations
      PROVE  Booked(c)' = Sum(OwnCells(c), n)' + Sum(AsValidatorCells(c), n)'
  <2> DEFINE f == OwnCells(c)
             g == [q \in 1 .. n |-> OwnOf(q, c)']
             h == AsValidatorCells(c)
             k == [q \in 1 .. n |-> AsValidatorOf(q, c)']
  <2>1. /\ f \in [1 .. n -> Int] /\ g \in [1 .. n -> Int]
        /\ h \in [1 .. n -> Int] /\ k \in [1 .. n -> Int]
    BY <1>2 DEF OwnCells, AsValidatorCells
  <2>2. /\ \A i \in (1 .. n) \ {id} : g[i] = f[i] /\ k[i] = h[i]
        /\ f[id] = OwnOf(id, c) /\ g[id] = OwnOf(id, c)'
        /\ h[id] = AsValidatorOf(id, c) /\ k[id] = AsValidatorOf(id, c)'
    BY <1>1, <1>3 DEF OwnCells, AsValidatorCells
  <2>3. Sum(OwnCells(c), n)' = Sum(g, n) /\ Sum(AsValidatorCells(c), n)' = Sum(k, n)
    BY DEF OwnCells, AsValidatorCells
  <2>4. Booked(c) = Sum(f, n) + Sum(h, n)
    BY DEF Books
  <2>5. Booked(c)' = Booked(c) + OwnOf(id, c)' - OwnOf(id, c)
                       + AsValidatorOf(id, c)' - AsValidatorOf(id, c)
    BY <1>1 DEF MovesBooks
  <2> HIDE DEF f, g, h, k, n
  <2>6. /\ Sum(g, n) = Sum(f, n) + g[id] - f[id] /\ Sum(f, n) \in Int
        /\ Sum(k, n) = Sum(h, n) + k[id] - h[id] /\ Sum(h, n) \in Int
    <3>1. n \in Nat /\ id \in 1 .. n
      BY <1>1 DEF n
    <3>2. MovesCell(f, g, id, n)
      BY <2>1, <2>2, <3>1 DEF MovesCell
    <3>3. MovesCell(h, k, id, n)
      BY <2>1, <2>2, <3>1 DEF MovesCell
    <3> QED BY <3>2, <3>3, SumMoves
  <2>7. f[id] \in Int /\ g[id] \in Int /\ h[id] \in Int /\ k[id] \in Int
    BY <1>1, <2>1
  <2>8. Booked(c)' = Booked(c) + g[id] - f[id] + k[id] - h[id]
    BY <2>2, <2>5
  <2>9. Booked(c)' = Sum(g, n) + Sum(k, n)
    BY <2>4, <2>6, <2>7, <2>8
  <2> QED BY <2>3, <2>9
<1> QED BY <1>4, <1>5 DEF Books

LEMMA QuietKeepsBooks ==
  ASSUME Books, Quiet
  PROVE  Books'
<1>1. UNCHANGED <<participants, escrow>> /\ \A c \in Corporations : Booked(c)' = Booked(c)
  BY DEF Quiet
<1>2. /\ DueCells' = DueCells
      /\ \A c : OwnCells(c)' = OwnCells(c) /\ AsValidatorCells(c)' = AsValidatorCells(c)
  BY <1>1 DEF DueCells, OwnCells, AsValidatorCells, DueOf, OwnOf, AsValidatorOf, Has
<1>3. /\ Sum(DueCells, MaxParticipants)' = Sum(DueCells, MaxParticipants)
      /\ \A c : /\ Sum(OwnCells(c), MaxParticipants)' = Sum(OwnCells(c), MaxParticipants)
                /\ Sum(AsValidatorCells(c), MaxParticipants)'
                     = Sum(AsValidatorCells(c), MaxParticipants)
  BY <1>2
<1> QED BY <1>1, <1>3 DEF Books

LEMMA BooksBegin ==
  ASSUME PInv, AllRoots
  PROVE  Books
<1> DEFINE n == MaxParticipants
           zeros == [i \in 1 .. n |-> 0]
<1>1. n \in Nat /\ Sum(zeros, n) = 0
  BY ParticipantNumbers, SumZero
<1>2. ASSUME NEW q
      PROVE  /\ DueOf(q) = 0
             /\ \A c : OwnOf(q, c) = 0 /\ AsValidatorOf(q, c) = 0
  BY DEF AllRoots, DueOf, OwnOf, AsValidatorOf, Has
<1>3. /\ DueCells = zeros
      /\ \A c : OwnCells(c) = zeros /\ AsValidatorCells(c) = zeros
  BY <1>2 DEF DueCells, OwnCells, AsValidatorCells
<1> HIDE DEF zeros, n
<1>4. /\ Sum(DueCells, n) = 0
      /\ \A c : Sum(OwnCells(c), n) = 0 /\ Sum(AsValidatorCells(c), n) = 0
  BY <1>1, <1>3
<1>5. escrow = 0 /\ \A c \in Corporations : Booked(c) = 0
  BY DEF AllRoots
<1> QED BY <1>4, <1>5 DEF Books, n

LEMMA StepKeepsBooks ==
  ASSUME PInv, PInv', Books, [ParticipantNext]_allVars
  PROVE  Books'
<1>1. ASSUME NEW id, Effect(id) PROVE Books'
  BY <1>1, EffectKeepsBooks
<1> QED BY <1>1, ParticipantStep, QuietKeepsBooks DEF OneParticipantMoves, NoneMoves

LEMMA BooksInvariant == ParticipantSpec => []Books
<1>1. ParticipantInit => Books
  BY ParticipantsBegin, BooksBegin
<1>2. PInv /\ PInv' /\ Books /\ [ParticipantNext]_allVars => Books'
  BY StepKeepsBooks
<1> QED BY <1>1, <1>2, ParticipantInvariant, PTL DEF ParticipantSpec

(***************************************************************************)
(* The escrow of x/pp holds in every reachable state the fees of the       *)
(* requests that are pending, and nothing else: renewals, changes of the   *)
(* price and slashes in between lose no fee and pay none out twice.        *)
(***************************************************************************)
THEOREM EscrowStaysBalanced == ParticipantSpec => []EscrowBalanced
<1>1. Books => EscrowBalanced
  BY TotalsAreSums DEF Books
<1> QED BY <1>1, BooksInvariant, PTL

(***************************************************************************)
(* What x/td has on its books for a corporation is, coin for coin, what    *)
(* x/pp recorded with the participants that the corporation is or          *)
(* validated, after any onboarding, revocation, slash, repay, reclaim,     *)
(* slash by governance and restart; only cancels let the two drift apart,  *)
(* by what they released.                                                  *)
(***************************************************************************)
THEOREM DepositsStayAccounted == ParticipantSpec => []DepositsAccounted
<1>1. ASSUME Books PROVE DepositsAccounted
  <2>1. ASSUME NEW c \in Corporations
        PROVE  Booked(c) = HeldFor(c)
    BY <1>1, TotalsAreSums DEF Books
  <2> QED BY <2>1 DEF DepositsAccounted, Booked
<1>2. Books => DepositsAccounted
  BY <1>1
<1> QED BY <1>2, BooksInvariant, PTL

-----------------------------------------------------------------------------
(* Windows.                                                                *)

\* What OneParticipantAtATime asks of two participants.
Apart(e, f) ==
  /\ SameContext(f, e.schema, e.role, e.validator, e.corporation)
  /\ InForce(e) /\ InForce(f)
  /\ e.from # NoTime /\ f.from # NoTime
  => ~(StartsBeforeTheEndOf(e, f) /\ StartsBeforeTheEndOf(f, e))

LEMMA OnePerTime ==
  OneParticipantAtATime <=>
    \A p, q \in DOMAIN participants : p # q => Apart(participants[p], participants[q])
BY DEF OneParticipantAtATime, Apart

LEMMA ApartSymmetric ==
  ASSUME NEW e, NEW f, Apart(e, f)
  PROVE  Apart(f, e)
BY DEF Apart, SameContext

\* The overlap checks of the handlers keep a window apart from those that are there.
LEMMA RoomKeepsApart ==
  ASSUME PInv, NEW id, NEW f \in ParticipantEntries, NEW q \in DOMAIN participants \ {id},
         RoomFor(id, f.schema, f.role, f.validator, f.corporation, f.from, f.until)
  PROVE  Apart(participants[q], f)
<1> DEFINE e == participants[q]
<1>1. /\ e.from \in Nat /\ e.until \in Nat /\ f.from \in Nat /\ f.until \in Nat
  BY EntryNumbers DEF ParticipantEntries
<1>2. SameContext(e, f.schema, f.role, f.validator, f.corporation) /\ InForce(e)
        /\ e.from # NoTime => ~Overlaps(e, f.from, f.until)
  BY DEF RoomFor
<1> HIDE DEF e
<1>3. ~Overlaps(e, f.from, f.until) => ~StartsBeforeTheEndOf(f, e)
  BY <1>1 DEF Overlaps, StartsBeforeTheEndOf
<1>4. SameContext(f, e.schema, e.role, e.validator, e.corporation)
        => SameContext(e, f.schema, f.role, f.validator, f.corporation)
  BY DEF SameContext
<1> QED BY <1>2, <1>3, <1>4 DEF Apart, e

LEMMA EffectKeepsApart ==
  ASSUME PInv, OneParticipantAtATime, NEW id, Effect(id)
  PROVE  OneParticipantAtATime'
<1> DEFINE f == participants'[id]
<1>1. Writes(id) /\ MovesWindow(id)
  BY DEF Effect
<1>2. /\ DOMAIN participants' = DOMAIN participants \cup {id}
      /\ \A q \in DOMAIN participants \ {id} : participants'[q] = participants[q]
      /\ f \in ParticipantEntries
  BY <1>1, WritesRows DEF Writes
<1>3. ASSUME NEW q \in DOMAIN participants \ {id}
      PROVE  Apart(participants[q], f)
  <2>1. CASE f.from = NoTime
    BY <2>1 DEF Apart
  <2>2. CASE RoomFor(id, f.schema, f.role, f.validator, f.corporation, f.from, f.until)
    BY <1>2, <2>2, RoomKeepsApart
  <2>3. CASE /\ id \in DOMAIN participants
             /\ f.from = participants[id].from /\ f.until = participants[id].until
             /\ InForce(f) => InForce(participants[id])
    <3>1. Apart(participants[q], participants[id])
      BY <2>3, OnePerTime
    <3>2. SameIdentity(participants[id], f)
      BY <1>1, <2>3 DEF Writes
    <3> QED BY <2>3, <3>1, <3>2
            DEF Apart, SameIdentity, SameContext, StartsBeforeTheEndOf
  <2> QED BY <1>1, <2>1, <2>2, <2>3 DEF MovesWindow
<1>4. ASSUME NEW p \in DOMAIN participants', NEW q \in DOMAIN participants', p # q
      PROVE  Apart(participants'[p], participants'[q])
  <2>1. CASE p = id
    <3>1. q \in DOMAIN participants \ {id} /\ participants'[q] = participants[q]
      BY <1>2, <1>4, <2>1
    <3>2. Apart(participants[q], f)
      BY <1>3, <3>1
    <3> QED BY <2>1, <3>1, <3>2, ApartSymmetric
  <2>2. CASE q = id
    <3>1. p \in DOMAIN participants \ {id} /\ participants'[p] = participants[p]
      BY <1>2, <1>4, <2>2
    <3> QED BY <1>3, <2>2, <3>1
  <2>3. CASE p # id /\ q # id
    <3>1. /\ p \in DOMAIN participants /\ participants'[p] = participants[p]
          /\ q \in DOMAIN participants /\ participants'[q] = participants[q]
      BY <1>2, <2>3
    <3> QED BY <1>4, <3>1, OnePerTime
  <2> QED BY <2>1, <2>2, <2>3
<1> QED BY <1>4 DEF OneParticipantAtATime, Apart

LEMMA GenesisApart ==
  ASSUME NEW g \in Geneses
  PROVE  \A p, q \in DOMAIN g.roots :
           p # q /\ g.roots[p].schema = g.roots[q].schema =>
             ~(/\ StartsBeforeTheEndOf(g.roots[p], g.roots[q])
               /\ StartsBeforeTheEndOf(g.roots[q], g.roots[p]))
BY GenesesKnown DEF IsGenesis

LEMMA RootsBeginApart ==
  ASSUME ParticipantInit
  PROVE  OneParticipantAtATime
<1>1. PICK g \in Geneses : participants = RootsOf(g)
  BY Zenon DEF ParticipantInit, RootsOf
<1>2. \A p, q \in DOMAIN g.roots :
        p # q /\ g.roots[p].schema = g.roots[q].schema =>
          ~(/\ StartsBeforeTheEndOf(g.roots[p], g.roots[q])
            /\ StartsBeforeTheEndOf(g.roots[q], g.roots[p]))
  BY GenesisApart
<1>3. ASSUME NEW id \in DOMAIN participants
      PROVE  /\ id \in DOMAIN g.roots
             /\ participants[id].schema = g.roots[id].schema
             /\ participants[id].from = g.roots[id].from
             /\ participants[id].until = g.roots[id].until
  <2>1. /\ id \in DOMAIN g.roots
        /\ participants[id] = RootOf(g.roots[id], g.schemas[g.roots[id].schema])
    BY <1>1, RootsRead
  <2>2. id \in DOMAIN g.roots
    BY <2>1
  <2>3. IsRoot(participants[id], g.roots[id].schema, g.roots[id].from, g.roots[id].until)
    BY <2>1, RootOfTyped
  <2> QED BY <2>2, <2>3, Zenon DEF IsRoot
<1>4. ASSUME NEW p \in DOMAIN participants, NEW q \in DOMAIN participants, p # q
      PROVE  Apart(participants[p], participants[q])
  <2>1. participants[p].schema = participants[q].schema =>
          ~(/\ StartsBeforeTheEndOf(participants[p], participants[q])
            /\ StartsBeforeTheEndOf(participants[q], participants[p]))
    BY <1>2, <1>3, <1>4 DEF StartsBeforeTheEndOf
  <2> QED BY <2>1 DEF Apart, SameContext
<1> QED BY <1>4, OnePerTime

(***************************************************************************)
(* Whatever windows the onboarding, the creating messages and the changes  *)
(* of an end set, in advance and in any order, none of them makes a        *)
(* corporation two participants of one context at a time that are both in  *)
(* force.                                                                  *)
(***************************************************************************)
THEOREM WindowsStayApart == ParticipantSpec => []OneParticipantAtATime
<1>1. ParticipantInit => OneParticipantAtATime
  BY RootsBeginApart
<1>2. ASSUME PInv, OneParticipantAtATime, [ParticipantNext]_allVars
      PROVE  OneParticipantAtATime'
  <2>1. ASSUME NEW id, Effect(id) PROVE OneParticipantAtATime'
    BY <1>2, <2>1, EffectKeepsApart
  <2>2. ASSUME Quiet PROVE OneParticipantAtATime'
    BY <1>2, <2>2 DEF Quiet, OneParticipantAtATime
  <2> QED BY <1>2, <2>1, <2>2, ParticipantStep DEF OneParticipantMoves, NoneMoves
<1>3. PInv /\ OneParticipantAtATime /\ [ParticipantNext]_allVars => OneParticipantAtATime'
  BY <1>2
<1> QED BY <1>1, <1>3, ParticipantInvariant, PTL DEF ParticipantSpec

LEMMA EffectKeepsWithin ==
  ASSUME PInv, WindowWithinValidation, NEW id, Effect(id)
  PROVE  WindowWithinValidation'
<1> DEFINE f == participants'[id]
<1>1. Writes(id) /\ KeepsWithinValidation(id)
  BY DEF Effect
<1>2. /\ DOMAIN participants' = DOMAIN participants \cup {id}
      /\ \A q \in DOMAIN participants \ {id} : participants'[q] = participants[q]
  BY <1>1, WritesRows
<1>3. \A q \in DOMAIN participants : participants'[q].role = participants[q].role
  BY <1>1, <1>2 DEF Writes, SameIdentity
<1>4. ASSUME NEW q \in DOMAIN participants', participants'[q].validator # 0,
             participants'[participants'[q].validator].role # "ECOSYSTEM"
      PROVE  EndsWithin(participants'[q])
  <2>1. CASE q # id
    <3>1. q \in DOMAIN participants /\ participants'[q] = participants[q]
      BY <1>2, <2>1
    <3>2. participants[q].validator \in DOMAIN participants
      BY <1>4, <3>1, EntryNumbers
    <3> QED BY <1>3, <1>4, <3>1, <3>2 DEF WindowWithinValidation
  <2>2. CASE q = id
    <3>1. f.validator \in DOMAIN participants
      <4>1. f.validator \in Nat /\ f.validator < id /\ f.validator # 0
        BY <1>1, <1>4, <2>2 DEF Writes, ParticipantEntries
      <4>2. id \in DOMAIN participants \/ id = participantCounter + 1
        BY <1>1 DEF Writes, NewId
      <4> HIDE DEF f
      <4> QED BY <4>1, <4>2, ParticipantNumbers
    <3>2. participants[f.validator].role # "ECOSYSTEM"
      BY <1>3, <1>4, <2>2, <3>1
    <3>3. CASE EndsWithin(f)
      BY <2>2, <3>3
    <3>4. CASE id \in DOMAIN participants /\ (EndsWithin(participants[id]) => EndsWithin(f))
      <4>1. f.validator = participants[id].validator
        BY <1>1, <3>4 DEF Writes, SameIdentity
      <4> QED BY <1>4, <2>2, <3>2, <3>4, <4>1 DEF WindowWithinValidation
    <3> QED BY <1>1, <1>4, <2>2, <3>2, <3>3, <3>4 DEF KeepsWithinValidation
  <2> QED BY <2>1, <2>2
<1> QED BY <1>4 DEF WindowWithinValidation

(***************************************************************************)
(* A participant below another participant than a root ends with its       *)
(* validation at the latest, after any number of renewals and changes of   *)
(* its end, also while the periods of its schema change.                   *)
(***************************************************************************)
THEOREM WindowsStayWithinValidation == ParticipantSpec => []WindowWithinValidation
<1>1. ParticipantInit => WindowWithinValidation
  BY ParticipantsBegin DEF AllRoots, WindowWithinValidation
<1>2. ASSUME PInv, WindowWithinValidation, [ParticipantNext]_allVars
      PROVE  WindowWithinValidation'
  <2>1. ASSUME NEW id, Effect(id) PROVE WindowWithinValidation'
    BY <1>2, <2>1, EffectKeepsWithin
  <2>2. ASSUME Quiet PROVE WindowWithinValidation'
    BY <1>2, <2>2 DEF Quiet, WindowWithinValidation
  <2> QED BY <1>2, <2>1, <2>2, ParticipantStep DEF OneParticipantMoves, NoneMoves
<1>3. PInv /\ WindowWithinValidation /\ [ParticipantNext]_allVars => WindowWithinValidation'
  BY <1>2
<1> QED BY <1>1, <1>3, ParticipantInvariant, PTL DEF ParticipantSpec

LEMMA FrozenStep ==
  ASSUME PInv, [ParticipantNext]_allVars
  PROVE  \A id \in DOMAIN participants :
           LET e == participants[id]
               f == participants'[id]
           IN  e.slashed /\ ~e.repaid =>
                 /\ f.opState = e.opState /\ f.opCurrentFees = e.opCurrentFees
                 /\ f.from = e.from /\ f.until = e.until /\ f.opExp = e.opExp
<1>1. ASSUME NEW id, Effect(id), NEW q \in DOMAIN participants,
             participants[q].slashed /\ ~participants[q].repaid
      PROVE  LET e == participants[q]
                 f == participants'[q]
             IN  /\ f.opState = e.opState /\ f.opCurrentFees = e.opCurrentFees
                 /\ f.from = e.from /\ f.until = e.until /\ f.opExp = e.opExp
  <2>1. CASE q = id
    BY <1>1, <2>1 DEF Effect, KeepsFrozen
  <2>2. CASE q # id
    BY <1>1, <2>2, WritesRows DEF Effect
  <2> QED BY <2>1, <2>2
<1>2. ASSUME Quiet PROVE UNCHANGED participants
  BY <1>2 DEF Quiet
<1> QED BY <1>1, <1>2, ParticipantStep DEF OneParticipantMoves, NoneMoves

(***************************************************************************)
(* No message of anyone moves the onboarding process, the window or the    *)
(* escrowed fees of a participant that was slashed and has not once repaid *)
(* in full.                                                                *)
(***************************************************************************)
THEOREM SlashedStayFrozen == ParticipantSpec => UnrepaidParticipantFrozen
<1>1. PInv /\ [ParticipantNext]_allVars =>
        [\A id \in DOMAIN participants :
           LET e == participants[id]
               f == participants'[id]
           IN  e.slashed /\ ~e.repaid =>
                 /\ f.opState = e.opState /\ f.opCurrentFees = e.opCurrentFees
                 /\ f.from = e.from /\ f.until = e.until /\ f.opExp = e.opExp]_allVars
  BY FrozenStep
<1> QED BY <1>1, ParticipantInvariant, PTL DEF ParticipantSpec, UnrepaidParticipantFrozen

-----------------------------------------------------------------------------
(* The onboarding process implements FeeContracts.                         *)

ContractOf(id) ==
  [payer |-> participants[id].corporation,
   payee |-> participants[participants[id].validator].corporation,
   fee |-> participants[id].opCurrentFees]

OpenContracts == [id \in Requested |-> ContractOf(id)]

WealthOfAll == [c \in Corporations |-> Wealth(c)]

LEMMA RequestedArePending == \A id : id \in Requested <=> Pending(id)
BY DEF Requested, Pending, Has

\* A contract names corporations, and its fee is what the participant is due.
LEMMA ContractTyped ==
  ASSUME PInv, NEW id, Pending(id)
  PROVE  /\ id \in DOMAIN participants /\ id \in 1 .. MaxParticipants
         /\ participants[id].validator \in DOMAIN participants
         /\ ContractOf(id).payer \in Corporations /\ ContractOf(id).payee \in Corporations
         /\ ContractOf(id).fee = DueOf(id) /\ DueOf(id) \in Nat
<1>1. id \in DOMAIN participants /\ participants[id].opState = "PENDING"
  BY DEF Pending, Has
<1>2. participants[id].validator \in DOMAIN participants
  BY <1>1, EntryNumbers DEF Coherent
<1>3. /\ participants[id].corporation \in Corporations
      /\ participants[participants[id].validator].corporation \in Corporations
      /\ id \in 1 .. MaxParticipants
  BY <1>1, <1>2, EntryNumbers
<1>4. DueOf(id) = participants[id].opCurrentFees /\ DueOf(id) \in Nat
  BY <1>1, EntryNumbers DEF DueOf, Has
<1> QED BY <1>1, <1>2, <1>3, <1>4 DEF ContractOf

\* Who pays whom stays, and the fee is as before if the participant is due as much.
LEMMA ContractStays ==
  ASSUME PInv, NEW id, Writes(id), NEW q, Pending(q), Pending(q)', DueOf(q)' = DueOf(q)
  PROVE  ContractOf(q)' = ContractOf(q)
<1>1. /\ DOMAIN participants' = DOMAIN participants \cup {id}
      /\ \A p \in DOMAIN participants \ {id} : participants'[p] = participants[p]
  BY WritesRows
<1>2. /\ q \in DOMAIN participants
      /\ participants[q].validator \in DOMAIN participants
  BY ContractTyped
<1>3. \A p \in DOMAIN participants :
        /\ p \in DOMAIN participants'
        /\ participants'[p].corporation = participants[p].corporation
        /\ participants'[p].validator = participants[p].validator
  BY <1>1 DEF Writes, SameIdentity
<1>4. participants'[q].opCurrentFees = participants[q].opCurrentFees
  BY <1>2, <1>3 DEF DueOf, Has
<1> QED BY <1>2, <1>3, <1>4 DEF ContractOf

\* A change of one corporation's wealth, as one of the function of all.
LEMMA WealthReplaced ==
  ASSUME NEW party \in Corporations, NEW v, Wealth(party)' = v,
         \A c \in Corporations \ {party} : Wealth(c)' = Wealth(c)
  PROVE  WealthOfAll' = [WealthOfAll EXCEPT ![party] = v]
<1> DEFINE after == [c \in Corporations |-> Wealth(c)']
<1>1. \A c \in Corporations : after[c] = IF c = party THEN v ELSE Wealth(c)
  OBVIOUS
<1>2. WealthOfAll' = after
  BY DEF WealthOfAll
<1>3. after = [c \in Corporations |-> after[c]]
  OBVIOUS
<1> HIDE DEF after
<1> QED BY <1>1, <1>2, <1>3 DEF WealthOfAll

LEMMA WealthFalls ==
  ASSUME NEW party \in Corporations, NEW loss \in Nat,
         \A c \in Corporations : Wealth(c) \in Int,
         \A c \in Corporations : Wealth(c)' = Wealth(c) - At(c, party, loss)
  PROVE  /\ WealthOfAll' = [WealthOfAll EXCEPT ![party] = WealthOfAll[party] - loss]
         /\ WealthOfAll[party] - WealthOfAll'[party] = loss
<1>1. WealthOfAll[party] = Wealth(party) /\ WealthOfAll'[party] = Wealth(party)'
  BY DEF WealthOfAll
<1>2. Wealth(party)' = WealthOfAll[party] - loss /\ Wealth(party) \in Int
  BY <1>1 DEF At
<1>3. \A c \in Corporations \ {party} : Wealth(c)' = Wealth(c)
  BY DEF At
<1>4. WealthOfAll' = [WealthOfAll EXCEPT ![party] = WealthOfAll[party] - loss]
  BY <1>2, <1>3, WealthReplaced
<1>5. WealthOfAll[party] - WealthOfAll'[party] = loss
  BY <1>1, <1>2
<1> QED BY <1>4, <1>5

LEMMA WealthRises ==
  ASSUME NEW party \in Corporations, NEW gain \in Nat,
         \A c \in Corporations : Wealth(c) \in Int,
         \A c \in Corporations : Wealth(c)' = Wealth(c) + At(c, party, gain)
  PROVE  WealthOfAll' = [WealthOfAll EXCEPT ![party] = WealthOfAll[party] + gain]
<1>1. WealthOfAll[party] = Wealth(party)
  BY DEF WealthOfAll
<1>2. Wealth(party)' = WealthOfAll[party] + gain
  BY <1>1 DEF At
<1>3. \A c \in Corporations \ {party} : Wealth(c)' = Wealth(c)
  BY DEF At
<1> QED BY <1>2, <1>3, WealthReplaced

LEMMA ContractsMapped ==
  /\ UNCHANGED Contracts!contractVars <=> UNCHANGED <<OpenContracts, WealthOfAll>>
  /\ Contracts!Begin <=> OpenContracts = EmptyMap /\ WealthOfAll \in [Corporations -> Nat]
BY Zenon DEF Contracts!contractVars, Contracts!Begin, Contracts!EmptyMap, EmptyMap,
             OpenContracts, ContractOf, WealthOfAll, Wealth

LEMMA OpenMapped ==
  ASSUME NEW id \in (1 .. MaxParticipants) \ Requested,
         NEW payer \in Corporations, NEW payee \in Corporations, NEW fee \in Nat,
         WealthOfAll[payer] - WealthOfAll'[payer] = fee,
         WealthOfAll' = [WealthOfAll EXCEPT ![payer] = WealthOfAll[payer] - fee],
         OpenContracts' =
           Put(OpenContracts, id, [payer |-> payer, payee |-> payee, fee |-> fee]),
         id \in DOMAIN OpenContracts'
  PROVE  Contracts!Proceed
<1>1. DOMAIN OpenContracts = Requested
  BY DEF OpenContracts
<1>2. Contracts!Open(id, payer, payee)
  <2>1. WealthOfAll[payer] - WealthOfAll'[payer] \in Nat
    OBVIOUS
  <2>2. WealthOfAll' =
          [WealthOfAll EXCEPT ![payer] = @ - (WealthOfAll[payer] - WealthOfAll'[payer])]
    OBVIOUS
  <2>3. OpenContracts' =
          Put(OpenContracts, id,
              [payer |-> payer, payee |-> payee,
               fee |-> WealthOfAll[payer] - WealthOfAll'[payer]])
    OBVIOUS
  <2> QED
    BY <2>1, <2>2, <2>3, Zenon
       DEF Contracts!Open, Contracts!Put, Put, OpenContracts, ContractOf, WealthOfAll, Wealth
<1>3. ~UNCHANGED Contracts!contractVars
  BY <1>1, ContractsMapped
<1>4. id \in (1 .. MaxParticipants) \ DOMAIN OpenContracts
  BY <1>1
<1> QED
  BY <1>2, <1>3, <1>4, Zenon DEF Contracts!Proceed, OpenContracts, ContractOf

LEMMA SettleMapped ==
  ASSUME NEW id \in Requested,
         NEW party \in {ContractOf(id).payer, ContractOf(id).payee},
         WealthOfAll' =
           [WealthOfAll EXCEPT ![party] = WealthOfAll[party] + ContractOf(id).fee],
         OpenContracts' = Remove(OpenContracts, id)
  PROVE  Contracts!Proceed
<1>1. DOMAIN OpenContracts = Requested /\ OpenContracts[id] = ContractOf(id)
  BY DEF OpenContracts
<1>2. Contracts!Settle(id, party)
  <2>1. WealthOfAll' = [WealthOfAll EXCEPT ![party] = @ + OpenContracts[id].fee]
    BY <1>1
  <2> QED
    BY <2>1, Zenon
       DEF Contracts!Settle, Contracts!Remove, Remove, OpenContracts, ContractOf,
           WealthOfAll, Wealth
<1>3. ~UNCHANGED Contracts!contractVars
  <2>1. id \notin DOMAIN OpenContracts'
    BY DEF Remove
  <2> QED BY <1>1, <2>1, ContractsMapped
<1>4. id \in DOMAIN OpenContracts
      /\ party \in {OpenContracts[id].payer, OpenContracts[id].payee}
  BY <1>1
<1> QED
  BY <1>2, <1>3, <1>4, Zenon DEF Contracts!Proceed, OpenContracts, ContractOf

LEMMA LossMapped ==
  ASSUME NEW party \in Corporations, NEW loss \in Nat,
         WealthOfAll[party] - WealthOfAll'[party] = loss,
         WealthOfAll' = [WealthOfAll EXCEPT ![party] = WealthOfAll[party] - loss],
         UNCHANGED OpenContracts
  PROVE  Contracts!Proceed \/ UNCHANGED Contracts!contractVars
<1>1. Contracts!Lose(party)
  <2>1. WealthOfAll[party] - WealthOfAll'[party] \in Nat
    OBVIOUS
  <2>2. WealthOfAll' =
          [WealthOfAll EXCEPT ![party] = @ - (WealthOfAll[party] - WealthOfAll'[party])]
    OBVIOUS
  <2> QED
    BY <2>1, <2>2, Zenon
       DEF Contracts!Lose, OpenContracts, ContractOf, WealthOfAll, Wealth
<1> QED BY <1>1, Zenon DEF Contracts!Proceed

\* The contracts of the others stay.
LEMMA OtherContractsStay ==
  ASSUME PInv, NEW id, Writes(id), NEW q, q # id
  PROVE  /\ q \in Requested' <=> q \in Requested
         /\ q \in Requested => ContractOf(q)' = ContractOf(q)
<1>1. (Pending(q)' <=> Pending(q)) /\ DueOf(q)' = DueOf(q)
  BY OthersPartsStay
<1>2. \A p : p \in Requested' <=> Pending(p)'
  BY DEF Requested, Pending, Has
<1> QED BY <1>1, <1>2, RequestedArePending, ContractStays

LEMMA OpensMapped ==
  ASSUME PInv, PInv', NEW id, Effect(id), OpensContract(id)
  PROVE  Contracts!Proceed
<1> DEFINE f == participants'[id]
<1>1. PICK payer, payee, fee :
        /\ payer = f.corporation /\ payee = participants'[f.validator].corporation
        /\ fee = f.opCurrentFees
  OBVIOUS
<1> DEFINE c == [payer |-> payer, payee |-> payee, fee |-> fee]
<1>2. /\ Writes(id) /\ ~Pending(id) /\ Pending(id)' /\ f.validator # 0
      /\ \A k \in Corporations : Wealth(k)' = Wealth(k) - At(k, payer, fee)
      /\ id \in 1 .. MaxParticipants
  BY <1>1 DEF Effect, OpensContract, Writes
<1>3. id \notin Requested /\ id \in Requested'
  <2>1. \A p : p \in Requested' <=> Pending(p)'
    BY DEF Requested, Pending, Has
  <2> QED BY <1>2, <2>1, RequestedArePending
<1>4. f \in ParticipantEntries /\ f.validator < id
  BY <1>2 DEF Writes
<1>5. payer \in Corporations /\ fee \in Nat /\ f.validator \in Nat
  BY <1>1, <1>4 DEF ParticipantEntries
<1>6. payee \in Corporations
  <2>1. f.validator \in DOMAIN participants'
    <3>1. DOMAIN participants' = 1 .. participantCounter' /\ id \in DOMAIN participants'
          /\ participantCounter' \in 0 .. MaxParticipants
      BY <1>2, WritesRows
    <3> HIDE DEF f
    <3> QED BY <1>2, <1>4, <1>5, <3>1
  <2>2. participants'[f.validator] \in ParticipantEntries
    BY <2>1 DEF PInv, ParticipantTypeOK
  <2> QED BY <1>1, <2>2 DEF ParticipantEntries
<1>7. ContractOf(id)' = c
  BY <1>1 DEF ContractOf
<1>8. \A k \in Corporations : Wealth(k) \in Int
  BY AccountNumbers, ParticipantNumbers
<1>9. /\ WealthOfAll' = [WealthOfAll EXCEPT ![payer] = WealthOfAll[payer] - fee]
      /\ WealthOfAll[payer] - WealthOfAll'[payer] = fee
  BY <1>2, <1>5, <1>8, WealthFalls
<1> HIDE DEF c
<1>10. OpenContracts' = Put(OpenContracts, id, c)
  <2>1. DOMAIN OpenContracts' = Requested \cup {id}
    BY <1>2, <1>3, OtherContractsStay DEF OpenContracts
  <2>2. \A q \in Requested \cup {id} :
          OpenContracts'[q] = IF q = id THEN c ELSE OpenContracts[q]
    <3>1. \A q \in Requested' : OpenContracts'[q] = ContractOf(q)'
      BY DEF OpenContracts
    <3>2. \A q \in Requested : OpenContracts[q] = ContractOf(q)
      BY DEF OpenContracts
    <3> QED BY <1>2, <1>3, <1>7, <3>1, <3>2, OtherContractsStay
  <2>3. OpenContracts' = [q \in DOMAIN OpenContracts' |-> OpenContracts'[q]]
    BY DEF OpenContracts
  <2>4. DOMAIN OpenContracts = Requested
    BY DEF OpenContracts
  <2> HIDE DEF f
  <2> QED BY <2>1, <2>2, <2>3, <2>4, Zenon DEF Put
<1>11. id \in DOMAIN OpenContracts'
  BY <1>3 DEF OpenContracts
<1> QED
  BY <1>2, <1>3, <1>5, <1>6, <1>9, <1>10, <1>11, OpenMapped DEF c

LEMMA SettlesMapped ==
  ASSUME PInv, NEW id, Effect(id), SettlesContract(id)
  PROVE  Contracts!Proceed
<1> DEFINE e == participants[id]
           c == ContractOf(id)
<1>1. /\ Writes(id) /\ Pending(id) /\ ~Pending(id)'
  BY DEF Effect, SettlesContract
<1>2. PICK party \in {e.corporation, participants[e.validator].corporation} :
        \A k \in Corporations : Wealth(k)' = Wealth(k) + At(k, party, e.opCurrentFees)
  BY DEF SettlesContract
<1>3. party \in {c.payer, c.payee} /\ c.fee = e.opCurrentFees
  BY <1>2 DEF ContractOf
<1>4. id \in Requested /\ id \notin Requested'
  <2>1. \A p : p \in Requested' <=> Pending(p)'
    BY DEF Requested, Pending, Has
  <2> QED BY <1>1, <2>1, RequestedArePending
<1>5. c.payer \in Corporations /\ c.payee \in Corporations /\ c.fee \in Nat
  BY <1>1, ContractTyped
<1> HIDE DEF c
<1>6. party \in Corporations
  BY <1>3, <1>5
<1>7. WealthOfAll' = [WealthOfAll EXCEPT ![party] = WealthOfAll[party] + c.fee]
  <2>1. \A k \in Corporations : Wealth(k) \in Int
    BY AccountNumbers, ParticipantNumbers
  <2> QED BY <1>2, <1>3, <1>5, <1>6, <2>1, WealthRises
<1>8. OpenContracts' = Remove(OpenContracts, id)
  <2>1. DOMAIN OpenContracts' = Requested \ {id}
    BY <1>1, <1>4, OtherContractsStay DEF OpenContracts
  <2>2. \A q \in Requested \ {id} : OpenContracts'[q] = OpenContracts[q]
    <3>1. \A q \in Requested' : OpenContracts'[q] = ContractOf(q)'
      BY DEF OpenContracts
    <3>2. \A q \in Requested : OpenContracts[q] = ContractOf(q)
      BY DEF OpenContracts
    <3> QED BY <1>1, <3>1, <3>2, OtherContractsStay
  <2>3. OpenContracts' = [q \in DOMAIN OpenContracts' |-> OpenContracts'[q]]
    BY DEF OpenContracts
  <2>4. DOMAIN OpenContracts = Requested
    BY DEF OpenContracts
  <2> QED BY <2>1, <2>2, <2>3, <2>4, Zenon DEF Remove
<1> QED BY <1>3, <1>4, <1>7, <1>8, SettleMapped DEF c

LEMMA KeepsMapped ==
  ASSUME PInv, NEW id, Effect(id), KeepsContract(id)
  PROVE  Contracts!Proceed \/ UNCHANGED Contracts!contractVars
<1>1. Writes(id) /\ (Pending(id)' <=> Pending(id)) /\ DueOf(id)' = DueOf(id)
  BY DEF Effect, KeepsContract
<1>2. PICK party \in Corporations, loss \in Nat :
        \A c \in Corporations : Wealth(c)' = Wealth(c) - At(c, party, loss)
  BY DEF KeepsContract
<1>3. UNCHANGED OpenContracts
  <2>1. \A p : p \in Requested' <=> Pending(p)'
    BY DEF Requested, Pending, Has
  <2>2. \A q : /\ q \in Requested' <=> q \in Requested
               /\ q \in Requested => ContractOf(q)' = ContractOf(q)
    BY <1>1, <2>1, OtherContractsStay, RequestedArePending, ContractStays
  <2>3. Requested' = Requested
    BY <2>2
  <2>4. OpenContracts' = [q \in Requested' |-> ContractOf(q)']
    BY DEF OpenContracts
  <2> QED BY <2>2, <2>3, <2>4 DEF OpenContracts
<1>4. /\ WealthOfAll' = [WealthOfAll EXCEPT ![party] = WealthOfAll[party] - loss]
      /\ WealthOfAll[party] - WealthOfAll'[party] = loss
  <2>1. \A k \in Corporations : Wealth(k) \in Int
    BY AccountNumbers, ParticipantNumbers
  <2> QED BY <1>2, <2>1, WealthFalls
<1> QED BY <1>3, <1>4, LossMapped

LEMMA QuietMapped ==
  ASSUME PInv, Quiet
  PROVE  Contracts!Proceed \/ UNCHANGED Contracts!contractVars
<1>1. UNCHANGED OpenContracts
  BY DEF Quiet, OpenContracts, Requested, ContractOf
<1>2. CASE \A c \in Corporations : Wealth(c)' = Wealth(c)
  <2>1. UNCHANGED WealthOfAll
    BY <1>2 DEF WealthOfAll
  <2> QED BY <1>1, <2>1, ContractsMapped
<1>3. ASSUME NEW party \in Corporations, NEW loss \in Nat,
             \A c \in Corporations : Wealth(c)' = Wealth(c) - At(c, party, loss)
      PROVE  Contracts!Proceed \/ UNCHANGED Contracts!contractVars
  <2>1. \A k \in Corporations : Wealth(k) \in Int
    BY AccountNumbers, ParticipantNumbers
  <2>2. /\ WealthOfAll' = [WealthOfAll EXCEPT ![party] = WealthOfAll[party] - loss]
        /\ WealthOfAll[party] - WealthOfAll'[party] = loss
    BY <1>3, <2>1, WealthFalls
  <2> QED BY <1>1, <2>2, LossMapped
<1> QED BY <1>2, <1>3 DEF Quiet

(***************************************************************************)
(* The onboarding of participants keeps the promise of FeeContracts: each  *)
(* fee that a candidate hands over ends once, in full, with its validator  *)
(* or back with it, through every renewal, slash, repay, reclaim, change   *)
(* of the price and restart in between.                                    *)
(***************************************************************************)
THEOREM OnboardingKeepsContracts == ParticipantSpec => FeesAreContracts
<1>1. ParticipantInit => Contracts!Begin
  <2> SUFFICES ASSUME ParticipantInit PROVE Contracts!Begin
    OBVIOUS
  <2>1. AllRoots
    BY ParticipantsBegin
  <2>2. Requested = {}
    BY <2>1 DEF Requested, AllRoots
  <2>3. OpenContracts = EmptyMap
    BY <2>2 DEF OpenContracts, EmptyMap
  <2>4. WealthOfAll \in [Corporations -> Nat]
    BY <2>1 DEF AllRoots, WealthOfAll
  <2> QED BY <2>3, <2>4, ContractsMapped
<1>2. ASSUME PInv, PInv', [ParticipantNext]_allVars
      PROVE  [Contracts!Proceed]_Contracts!contractVars
  <2>1. ASSUME NEW id, Effect(id)
        PROVE  Contracts!Proceed \/ UNCHANGED Contracts!contractVars
    <3>1. OpensContract(id) \/ SettlesContract(id) \/ KeepsContract(id)
      BY <2>1 DEF Effect
    <3> QED BY <1>2, <2>1, <3>1, OpensMapped, SettlesMapped, KeepsMapped
  <2> QED BY <1>2, <2>1, ParticipantStep, QuietMapped DEF OneParticipantMoves, NoneMoves
<1>3. PInv /\ PInv' /\ [ParticipantNext]_allVars =>
        [Contracts!Proceed]_Contracts!contractVars
  BY <1>2
<1> QED
  BY <1>1, <1>3, ParticipantInvariant, PTL
     DEF ParticipantSpec, FeesAreContracts, Contracts!ContractSpec

-----------------------------------------------------------------------------
(* The records of the VS operators.                                        *)

RecordKey(p) == KeyOf(vsoas[vsoaByParticipant[p]])
RecordEnd(p) == vsoas[vsoaByParticipant[p]].records[p].expiration

\* The records of the participants in S stay as they are.
RecordsStay(S) ==
  \A p \in S :
    /\ p \in DOMAIN vsoaByParticipant /\ p \in DOMAIN vsoaByParticipant'
    /\ RecordKey(p)' = RecordKey(p)
    /\ RecordEnd(p)' = RecordEnd(p)

LEMMA RecordFound ==
  ASSUME Inv, NEW p \in DOMAIN vsoaByParticipant
  PROVE  LET id == vsoaByParticipant[p]
         IN  /\ id \in DOMAIN vsoas /\ id \in Nat /\ id <= vsoaSeq
             /\ p \in DOMAIN vsoas[id].records
             /\ IsVSOA(vsoas[id])
             /\ KeyOf(vsoas[id]) \in DOMAIN vsoaByCorpOp
             /\ vsoaByCorpOp[KeyOf(vsoas[id])] = id
BY DEF Inv, VSOAInv, RecordsAgree, IndexAgrees

\* A participant without a record has one of the key, to the end.
RecordAdded(p, key, end) ==
  /\ p \notin DOMAIN vsoaByParticipant
  /\ DOMAIN vsoaByParticipant' = DOMAIN vsoaByParticipant \cup {p}
  /\ RecordKey(p)' = key /\ RecordEnd(p)' = end
  /\ RecordsStay(DOMAIN vsoaByParticipant)

LEMMA GrantedRecords ==
  ASSUME Inv, NEW corp, NEW operator, NEW participant, NEW record,
         GrantVSOperatorAuthorization(corp, operator, participant, record)
  PROVE  RecordAdded(participant, <<corp, operator>>, record.expiration)
<1> DEFINE key == <<corp, operator>>
           id == IdFor(vsoaByCorpOp, key, vsoaSeq)
           had == IF Has(vsoaByCorpOp, key) THEN vsoas[id].records ELSE EmptyMap
           records == Put(had, participant, record)
           vsoa == [corporation |-> corp, operator |-> operator, records |-> records]
<1>1. /\ vsoas' = Put(vsoas, id, vsoa)
      /\ vsoaByParticipant' = Put(vsoaByParticipant, participant, id)
      /\ participant \notin DOMAIN vsoaByParticipant
  BY DEF GrantVSOperatorAuthorization, MayRecord, Has
<1>2. /\ KeyOf(vsoa) = key /\ vsoa.records = records
      /\ vsoa.corporation = corp /\ vsoa.operator = operator
  BY DEF KeyOf
<1> HIDE DEF vsoa
<1>3. /\ records[participant] = record
      /\ \A q \in DOMAIN had \ {participant} : records[q] = had[q]
  BY DEF Put
<1> HIDE DEF records
<1>4. /\ DOMAIN vsoaByParticipant' = DOMAIN vsoaByParticipant \cup {participant}
      /\ vsoaByParticipant'[participant] = id
      /\ \A q \in DOMAIN vsoaByParticipant : vsoaByParticipant'[q] = vsoaByParticipant[q]
      /\ vsoas'[id] = vsoa
      /\ \A i \in DOMAIN vsoas \ {id} : vsoas'[i] = vsoas[i]
  BY <1>1, Zenon DEF Put
<1>5. /\ RecordKey(participant)' = key
      /\ RecordEnd(participant)' = record.expiration
  BY <1>2, <1>3, <1>4, Zenon DEF RecordKey, RecordEnd, KeyOf
<1>6. ASSUME NEW q \in DOMAIN vsoaByParticipant
      PROVE  /\ RecordKey(q)' = RecordKey(q)
             /\ RecordEnd(q)' = RecordEnd(q)
  <2>1. /\ vsoaByParticipant[q] \in DOMAIN vsoas
        /\ vsoaByParticipant[q] \in Nat /\ vsoaByParticipant[q] <= vsoaSeq
        /\ q \in DOMAIN vsoas[vsoaByParticipant[q]].records
    BY RecordFound
  <2>2. vsoaByParticipant'[q] = vsoaByParticipant[q] /\ q # participant
    BY <1>1, <1>4
  <2>3. CASE vsoaByParticipant[q] # id
    BY <1>4, <2>1, <2>2, <2>3 DEF RecordKey, RecordEnd, KeyOf
  <2>4. CASE vsoaByParticipant[q] = id
    <3>1. Has(vsoaByCorpOp, key)
      BY <2>1, <2>4 DEF IdFor, Inv, VSOAInv
    <3>2. KeyOf(vsoas[id]) = key
      BY <3>1 DEF IdFor, Has, Inv, VSOAInv, IndexAgrees
    <3>3. vsoas[id].corporation = corp /\ vsoas[id].operator = operator
      BY <3>2 DEF KeyOf
    <3>4. had = vsoas[id].records
      BY <3>1
    <3> HIDE DEF had, id
    <3>5. records[q] = vsoas[id].records[q]
      BY <1>3, <2>1, <2>2, <2>4, <3>4
    <3> QED BY <1>2, <1>4, <2>2, <2>4, <3>3, <3>5 DEF RecordKey, RecordEnd, KeyOf
  <2> QED BY <2>3, <2>4
<1>7. RecordsStay(DOMAIN vsoaByParticipant)
  BY <1>4, <1>6 DEF RecordsStay
<1> QED BY <1>1, <1>4, <1>5, <1>7 DEF RecordAdded

LEMMA RevokedRecords ==
  ASSUME Inv, NEW participant, RevokeVSOperatorAuthorization(participant)
  PROVE  /\ DOMAIN vsoaByParticipant' = DOMAIN vsoaByParticipant \ {participant}
         /\ RecordsStay(DOMAIN vsoaByParticipant \ {participant})
<1>1. CASE participant \notin DOMAIN vsoaByParticipant
  <2>1. UNCHANGED <<vsoas, vsoaByParticipant>>
    BY <1>1 DEF RevokeVSOperatorAuthorization, Has, vars, deVars, vsoaVars
  <2> QED BY <1>1, <2>1 DEF RecordsStay, RecordKey, RecordEnd, KeyOf
<1>2. CASE participant \in DOMAIN vsoaByParticipant
  <2> DEFINE id == vsoaByParticipant[participant]
             vsoa == vsoas[id]
             records == Remove(vsoa.records, participant)
             left == [vsoa EXCEPT !.records = records]
  <2>1. /\ vsoas' = IF records = EmptyMap THEN Remove(vsoas, id) ELSE Put(vsoas, id, left)
        /\ vsoaByParticipant' = Remove(vsoaByParticipant, participant)
    BY <1>2 DEF RevokeVSOperatorAuthorization, Has
  <2>2. /\ DOMAIN vsoaByParticipant' = DOMAIN vsoaByParticipant \ {participant}
        /\ \A q \in DOMAIN vsoaByParticipant \ {participant} :
             vsoaByParticipant'[q] = vsoaByParticipant[q]
    BY <2>1, Zenon DEF Remove
  <2>3. IsVSOA(vsoa) /\ id \in DOMAIN vsoas
    BY <1>2, RecordFound
  <2>4. /\ left.corporation = vsoa.corporation /\ left.operator = vsoa.operator
        /\ left.records = records
    <3>1. vsoa = [corporation |-> vsoa.corporation, operator |-> vsoa.operator,
                  records |-> vsoa.records]
      BY <2>3 DEF IsVSOA
    <3>2. left = [corporation |-> vsoa.corporation, operator |-> vsoa.operator,
                  records |-> records]
      BY <3>1
    <3> QED BY <3>2
  <2> HIDE DEF left
  <2>5. /\ DOMAIN records = DOMAIN vsoa.records \ {participant}
        /\ \A q \in DOMAIN records : records[q] = vsoa.records[q]
    BY DEF Remove
  <2> HIDE DEF records
  <2>6. ASSUME NEW q \in DOMAIN vsoaByParticipant \ {participant}
        PROVE  /\ RecordKey(q)' = RecordKey(q)
               /\ RecordEnd(q)' = RecordEnd(q)
    <3>1. /\ vsoaByParticipant[q] \in DOMAIN vsoas
          /\ q \in DOMAIN vsoas[vsoaByParticipant[q]].records
      BY RecordFound
    <3>2. vsoaByParticipant'[q] = vsoaByParticipant[q]
      BY <2>2
    <3>3. CASE vsoaByParticipant[q] # id
      <4>1. vsoas'[vsoaByParticipant[q]] = vsoas[vsoaByParticipant[q]]
        <5> HIDE DEF id
        <5> QED BY <2>1, <3>1, <3>3 DEF Put, Remove
      <4> QED BY <3>2, <4>1 DEF RecordKey, RecordEnd, KeyOf
    <3>4. CASE vsoaByParticipant[q] = id
      <4>1. q \in DOMAIN records /\ records[q] = vsoa.records[q]
        BY <2>5, <3>1, <3>4
      <4>2. records # EmptyMap
        BY <4>1 DEF EmptyMap
      <4>3. vsoas'[id] = left
        BY <2>1, <2>3, <4>2 DEF Put
      <4> QED BY <2>4, <3>2, <3>4, <4>1, <4>3 DEF RecordKey, RecordEnd, KeyOf
    <3> QED BY <3>3, <3>4
  <2> QED BY <2>2, <2>6 DEF RecordsStay
<1> QED BY <1>1, <1>2

LEMMA UpdatedRecords ==
  ASSUME Inv, NEW participant, NEW expiration,
         UpdateVSOperatorAuthorizationExpiration(participant, expiration)
  PROVE  /\ DOMAIN vsoaByParticipant' = DOMAIN vsoaByParticipant
         /\ \A p \in DOMAIN vsoaByParticipant : RecordKey(p)' = RecordKey(p)
         /\ RecordsStay(DOMAIN vsoaByParticipant \ {participant})
<1>1. CASE participant \notin DOMAIN vsoaByParticipant
  <2>1. UNCHANGED <<vsoas, vsoaByParticipant>>
    BY <1>1 DEF UpdateVSOperatorAuthorizationExpiration, Has, vars, deVars, vsoaVars
  <2> QED BY <1>1, <2>1 DEF RecordsStay, RecordKey, RecordEnd, KeyOf
<1>2. CASE participant \in DOMAIN vsoaByParticipant
  <2> DEFINE id == vsoaByParticipant[participant]
             vsoa == vsoas[id]
             records == [vsoa.records EXCEPT ![participant].expiration = expiration]
             x == [vsoa EXCEPT !.records = records]
  <2>1. vsoas' = Put(vsoas, id, x) /\ UNCHANGED vsoaByParticipant
    BY <1>2 DEF UpdateVSOperatorAuthorizationExpiration, Has
  <2>2. IsVSOA(vsoa) /\ id \in DOMAIN vsoas
    BY <1>2, RecordFound
  <2>3. \A q \in DOMAIN vsoa.records \ {participant} : records[q] = vsoa.records[q]
    OBVIOUS
  <2> HIDE DEF records
  <2>4. x.corporation = vsoa.corporation /\ x.operator = vsoa.operator /\ x.records = records
    <3>1. vsoa = [corporation |-> vsoa.corporation, operator |-> vsoa.operator,
                  records |-> vsoa.records]
      BY <2>2 DEF IsVSOA
    <3>2. x = [corporation |-> vsoa.corporation, operator |-> vsoa.operator,
               records |-> records]
      BY <3>1
    <3> QED BY <3>2
  <2> HIDE DEF x
  <2>5. vsoas'[id] = x /\ \A i \in DOMAIN vsoas \ {id} : vsoas'[i] = vsoas[i]
    BY <2>1 DEF Put
  <2>6. ASSUME NEW q \in DOMAIN vsoaByParticipant
        PROVE  /\ RecordKey(q)' = RecordKey(q)
               /\ q # participant => RecordEnd(q)' = RecordEnd(q)
    <3>1. /\ vsoaByParticipant[q] \in DOMAIN vsoas
          /\ q \in DOMAIN vsoas[vsoaByParticipant[q]].records
          /\ vsoaByParticipant'[q] = vsoaByParticipant[q]
      BY <2>1, RecordFound
    <3>2. CASE vsoaByParticipant[q] # id
      BY <2>5, <3>1, <3>2 DEF RecordKey, RecordEnd, KeyOf
    <3>3. CASE vsoaByParticipant[q] = id
      BY <2>3, <2>4, <2>5, <3>1, <3>3 DEF RecordKey, RecordEnd, KeyOf
    <3> QED BY <3>2, <3>3
  <2> QED BY <2>1, <2>6 DEF RecordsStay
<1> QED BY <1>1, <1>2

\* A check starts another period of the one record it looks at, or of none.
LEMMA CheckedRecords ==
  ASSUME Inv, NEW corp, NEW operator, NEW participant, NEW msgType,
         CheckVSOperatorAuthorizationOnParticipant(corp, operator, participant, msgType)
  PROVE  /\ DOMAIN vsoaByParticipant' = DOMAIN vsoaByParticipant
         /\ \A p \in DOMAIN vsoaByParticipant : RecordKey(p)' = RecordKey(p)
         /\ RecordsStay(DOMAIN vsoaByParticipant \ {participant})
<1> DEFINE id == vsoaByParticipant[participant]
           vsoa == vsoas[id]
           end == now + vsoa.records[participant].period
           records == [vsoa.records EXCEPT ![participant].expiration = end]
           x == [vsoa EXCEPT !.records = records]
<1>1. /\ participant \in DOMAIN vsoaByParticipant /\ UNCHANGED vsoaByParticipant
      /\ \/ UNCHANGED vsoas
         \/ vsoas' = [vsoas EXCEPT ![id].records[participant].expiration = end]
  BY DEF CheckVSOperatorAuthorizationOnParticipant, Has
<1>2. CASE UNCHANGED vsoas
  BY <1>1, <1>2 DEF RecordsStay, RecordKey, RecordEnd, KeyOf
<1>3. CASE vsoas' = [vsoas EXCEPT ![id].records[participant].expiration = end]
  <2>1. IsVSOA(vsoa) /\ id \in DOMAIN vsoas
    BY <1>1, RecordFound
  <2>2. vsoas' = [vsoas EXCEPT ![id] = x]
    BY <1>3
  <2>3. \A q \in DOMAIN vsoa.records \ {participant} : records[q] = vsoa.records[q]
    OBVIOUS
  <2> HIDE DEF records
  <2>4. x.corporation = vsoa.corporation /\ x.operator = vsoa.operator /\ x.records = records
    <3>1. vsoa = [corporation |-> vsoa.corporation, operator |-> vsoa.operator,
                  records |-> vsoa.records]
      BY <2>1 DEF IsVSOA
    <3>2. x = [corporation |-> vsoa.corporation, operator |-> vsoa.operator,
               records |-> records]
      BY <3>1
    <3> QED BY <3>2
  <2> HIDE DEF x
  <2>5. vsoas'[id] = x /\ \A i \in DOMAIN vsoas \ {id} : vsoas'[i] = vsoas[i]
    BY <2>1, <2>2
  <2>6. ASSUME NEW q \in DOMAIN vsoaByParticipant
        PROVE  /\ RecordKey(q)' = RecordKey(q)
               /\ q # participant => RecordEnd(q)' = RecordEnd(q)
    <3>1. /\ vsoaByParticipant[q] \in DOMAIN vsoas
          /\ q \in DOMAIN vsoas[vsoaByParticipant[q]].records
          /\ vsoaByParticipant'[q] = vsoaByParticipant[q]
      BY <1>1, RecordFound
    <3>2. CASE vsoaByParticipant[q] # id
      BY <2>5, <3>1, <3>2 DEF RecordKey, RecordEnd, KeyOf
    <3>3. CASE vsoaByParticipant[q] = id
      BY <2>3, <2>4, <2>5, <3>1, <3>3 DEF RecordKey, RecordEnd, KeyOf
    <3> QED BY <3>2, <3>3
  <2> QED BY <1>1, <2>6 DEF RecordsStay
<1> QED BY <1>1, <1>2, <1>3

\* Genesis leaves the index out; rebuilding it finds each record again.
LEMMA RestartedRecords ==
  ASSUME Inv, Inv', RestartFromGenesis
  PROVE  /\ DOMAIN vsoaByParticipant' \subseteq DOMAIN vsoaByParticipant
         /\ RecordsStay(DOMAIN vsoaByParticipant')
<1>1. UNCHANGED vsoas
  BY DEF RestartFromGenesis
<1>2. ASSUME NEW p \in DOMAIN vsoaByParticipant'
      PROVE  p \in DOMAIN vsoaByParticipant /\ vsoaByParticipant[p] = vsoaByParticipant'[p]
  <2>1. /\ vsoaByParticipant'[p] \in DOMAIN vsoas
        /\ p \in DOMAIN vsoas[vsoaByParticipant'[p]].records
    BY <1>1 DEF Inv, VSOAInv, RecordsAgree
  <2> QED BY <2>1 DEF Inv, VSOAInv, RecordsAgree
<1> QED BY <1>1, <1>2 DEF RecordsStay, RecordKey, RecordEnd, KeyOf

\* What RecordsFollowParticipants asks of a participant with a record.  The record of a
\* candidate that was never validated was given the time of its request, which is past.
RecordFollows(p) ==
  LET e == participants[p]
  IN  /\ p \in DOMAIN participants
      /\ <<e.corporation, e.vsOperator>> = RecordKey(p)
      /\ e.opState # "TERMINATED"
      /\ e.role \in {"ISSUER", "VERIFIER"} => InForce(e)
      /\ e.from = NoTime => RecordEnd(p) \in 0 .. now

RInv == Inv /\ \A p \in DOMAIN vsoaByParticipant : RecordFollows(p)

LEMMA RInvFollows == PInv /\ RInv => RecordsFollowParticipants
<1> SUFFICES ASSUME PInv, RInv, NEW p \in DOMAIN vsoaByParticipant
             PROVE  LET vsoa == vsoas[vsoaByParticipant[p]]
                        e == participants[p]
                    IN  /\ Has(participants, p)
                        /\ e.corporation = vsoa.corporation
                        /\ e.opState # "TERMINATED"
                        /\ e.role \in {"ISSUER", "VERIFIER"} => InForce(e)
                        /\ e.from = NoTime => ~InFuture(vsoa.records[p].expiration, now)
  BY DEF RecordsFollowParticipants
<1>1. RecordFollows(p) /\ now \in Nat
  BY ParticipantNumbers DEF RInv
<1>2. RecordEnd(p) \in 0 .. now => ~InFuture(RecordEnd(p), now)
  BY <1>1 DEF InFuture
<1> QED BY <1>1, <1>2 DEF RecordFollows, RecordEnd, RecordKey, KeyOf, Has

\* The participants and the records of the others stay.
LEMMA OthersStillFollow ==
  ASSUME PInv, RInv, NEW id, Writes(id), UNCHANGED now, Inv',
         RecordsStay(DOMAIN vsoaByParticipant' \ {id}),
         id \in DOMAIN vsoaByParticipant' => RecordFollows(id)'
  PROVE  RInv'
<1>1. ASSUME NEW p \in DOMAIN vsoaByParticipant', p # id
      PROVE  RecordFollows(p)'
  <2>1. /\ p \in DOMAIN vsoaByParticipant /\ RecordFollows(p)
        /\ RecordKey(p)' = RecordKey(p) /\ RecordEnd(p)' = RecordEnd(p)
    BY <1>1 DEF RecordsStay, RInv
  <2>2. p \in DOMAIN participants' /\ participants'[p] = participants[p]
    BY <1>1, <2>1, WritesRows DEF RecordFollows
  <2> QED BY <2>1, <2>2 DEF RecordFollows, InForce
<1>2. \A p \in DOMAIN vsoaByParticipant' : RecordFollows(p)'
  BY <1>1
<1> QED BY <1>2 DEF RInv

LEMMA DelegationUntouched ==
  ASSUME Inv, UNCHANGED vars
  PROVE  Inv' /\ UNCHANGED now
         /\ DOMAIN vsoaByParticipant' = DOMAIN vsoaByParticipant
         /\ RecordsStay(DOMAIN vsoaByParticipant)
<1>1. UNCHANGED <<now, oaVars>> /\ UNCHANGED vsoaVars
  BY DEF vars, deVars
<1>2. OneKindOfAuthorization'
  BY <1>1, FewerKeysOfOneKind DEF Inv, oaVars, vsoaVars
<1>3. Inv'
  BY <1>1, <1>2, OAUntouched, VSOAUntouched DEF Inv
<1>4. UNCHANGED <<vsoas, vsoaByParticipant>>
  BY <1>1 DEF vsoaVars
<1> QED BY <1>1, <1>3, <1>4 DEF RecordsStay, RecordKey, RecordEnd, KeyOf

\* A change that a participant's record may outlive.
KeepsRecord(e, f) ==
  /\ e.opState # "TERMINATED" => f.opState # "TERMINATED"
  /\ e.role \in {"ISSUER", "VERIFIER"} /\ InForce(e) => InForce(f)
  /\ f.from = NoTime => e.from = NoTime

LEMMA RecordKeeps ==
  ASSUME PInv, RInv, NEW id \in DOMAIN participants, Writes(id), UNCHANGED vars,
         KeepsRecord(participants[id], participants'[id])
  PROVE  RInv'
<1>1. /\ Inv' /\ UNCHANGED now
      /\ DOMAIN vsoaByParticipant' = DOMAIN vsoaByParticipant
      /\ RecordsStay(DOMAIN vsoaByParticipant)
  BY DelegationUntouched DEF RInv
<1>2. ASSUME id \in DOMAIN vsoaByParticipant'
      PROVE  RecordFollows(id)'
  <2>1. /\ RecordFollows(id)
        /\ RecordKey(id)' = RecordKey(id) /\ RecordEnd(id)' = RecordEnd(id)
    BY <1>1, <1>2 DEF RInv, RecordsStay
  <2>2. id \in DOMAIN participants' /\ SameIdentity(participants[id], participants'[id])
    BY WritesRows DEF Writes
  <2> QED BY <1>1, <2>1, <2>2 DEF RecordFollows, KeepsRecord, SameIdentity
<1>3. RecordsStay(DOMAIN vsoaByParticipant' \ {id})
  BY <1>1 DEF RecordsStay
<1> QED BY <1>1, <1>2, <1>3, OthersStillFollow

LEMMA RecordSynced ==
  ASSUME PInv, RInv, NEW id \in DOMAIN participants, NEW until, Writes(id),
         SyncRecord(id, until), KeepsRecord(participants[id], participants'[id]),
         participants'[id].from # NoTime
  PROVE  RInv'
<1>1. CASE until = NoTime
  BY <1>1, RecordKeeps DEF SyncRecord
<1>2. CASE until # NoTime
  <2>1. UpdateVSOperatorAuthorizationExpiration(id, until) /\ Inv
    BY <1>2 DEF SyncRecord, RInv
  <2>2. Inv'
    BY <2>1, UpdateRecordKeepsInv
  <2>3. UNCHANGED now
    BY <2>1, Zenon DEF UpdateVSOperatorAuthorizationExpiration, vars
  <2>4. /\ DOMAIN vsoaByParticipant' = DOMAIN vsoaByParticipant
        /\ \A p \in DOMAIN vsoaByParticipant : RecordKey(p)' = RecordKey(p)
        /\ RecordsStay(DOMAIN vsoaByParticipant \ {id})
    BY <2>1, UpdatedRecords
  <2>5. ASSUME id \in DOMAIN vsoaByParticipant'
        PROVE  RecordFollows(id)'
    <3>1. RecordFollows(id) /\ RecordKey(id)' = RecordKey(id)
      BY <2>4, <2>5 DEF RInv
    <3>2. id \in DOMAIN participants' /\ SameIdentity(participants[id], participants'[id])
      BY WritesRows DEF Writes
    <3> QED BY <3>1, <3>2 DEF RecordFollows, KeepsRecord, SameIdentity
  <2> QED BY <2>2, <2>3, <2>4, <2>5, OthersStillFollow
<1> QED BY <1>1, <1>2

LEMMA RecordRevoked ==
  ASSUME PInv, RInv, NEW id, Writes(id), RevokeVSOperatorAuthorization(id)
  PROVE  RInv'
<1>1. Inv'
  BY RevokeRecordKeepsInv DEF RInv
<1>2. UNCHANGED now
  BY Zenon DEF RevokeVSOperatorAuthorization, vars
<1>3. /\ DOMAIN vsoaByParticipant' = DOMAIN vsoaByParticipant \ {id}
      /\ RecordsStay(DOMAIN vsoaByParticipant \ {id})
  BY RevokedRecords DEF RInv
<1>4. id \notin DOMAIN vsoaByParticipant'
      /\ DOMAIN vsoaByParticipant' \ {id} = DOMAIN vsoaByParticipant \ {id}
  BY <1>3
<1> QED BY <1>1, <1>2, <1>3, <1>4, OthersStillFollow

LEMMA RecordGranted ==
  ASSUME PInv, RInv, NEW id, id = NewId, id \notin DOMAIN participants, Writes(id),
         NEW corp, NEW role, NEW operator, NEW request, NEW expiration,
         GrantRecord(corp, role, operator, request, expiration),
         participants'[id].corporation = corp, participants'[id].vsOperator = operator,
         participants'[id].opState # "TERMINATED", InForce(participants'[id]),
         participants'[id].from = NoTime => expiration = now
  PROVE  RInv'
<1>1. CASE UNCHANGED vars
  <2>1. /\ Inv' /\ UNCHANGED now
        /\ DOMAIN vsoaByParticipant' = DOMAIN vsoaByParticipant
        /\ RecordsStay(DOMAIN vsoaByParticipant)
    BY <1>1, DelegationUntouched DEF RInv
  <2>2. id \notin DOMAIN vsoaByParticipant'
    BY <2>1 DEF RInv, RecordFollows
  <2>3. RecordsStay(DOMAIN vsoaByParticipant' \ {id})
    BY <2>1 DEF RecordsStay
  <2> QED BY <2>1, <2>2, <2>3, OthersStillFollow
<1>2. CASE request.msgTypes # {}
  <2> DEFINE record == [msgTypes |-> request.msgTypes, withFeegrant |-> request.withFeegrant,
                        expiration |-> expiration, period |-> request.period]
  <2>1. GrantVSOperatorAuthorization(corp, operator, id, record) /\ Inv
    BY <1>2 DEF GrantRecord, RInv
  <2>2. record.expiration = expiration
    OBVIOUS
  <2> HIDE DEF record
  <2>3. Inv'
    BY <2>1, GrantRecordKeepsInv
  <2>4. UNCHANGED now
    BY <2>1 DEF GrantVSOperatorAuthorization
  <2>5. /\ DOMAIN vsoaByParticipant' = DOMAIN vsoaByParticipant \cup {id}
        /\ id \notin DOMAIN vsoaByParticipant
        /\ RecordKey(id)' = <<corp, operator>> /\ RecordEnd(id)' = expiration
        /\ RecordsStay(DOMAIN vsoaByParticipant)
    <3>1. RecordAdded(id, <<corp, operator>>, record.expiration)
      BY <2>1, GrantedRecords
    <3> QED BY <2>2, <3>1 DEF RecordAdded
  <2>6. RecordsStay(DOMAIN vsoaByParticipant' \ {id})
    BY <2>5 DEF RecordsStay
  <2>7. RecordFollows(id)'
    <3>1. id \in DOMAIN participants' /\ now \in Nat /\ now' = now
      <4>1. id \in DOMAIN participants'
        BY WritesRows
      <4> QED BY <2>4, <4>1, ParticipantNumbers
    <3>2. participants'[id].from = NoTime => expiration \in 0 .. now'
      BY <3>1
    <3>3. participants'[id].from = NoTime => RecordEnd(id)' \in 0 .. now'
      BY <2>5, <3>2, Zenon
    <3>4. <<participants'[id].corporation, participants'[id].vsOperator>> = RecordKey(id)'
      BY <2>5
    <3> QED BY <3>1, <3>3, <3>4 DEF RecordFollows
  <2> QED BY <2>3, <2>4, <2>6, <2>7, OthersStillFollow
<1> QED BY <1>1, <1>2 DEF GrantRecord

LEMMA RowStored ==
  ASSUME NEW id, NEW f, Update(id, f)
  PROVE  participants'[id] = f
BY DEF Update, Put

LEMMA RenewFollows ==
  ASSUME PInv, RInv, NEW corp \in Corporations, NEW id \in DOMAIN participants,
         RenewParticipantOP(corp, id)
  PROVE  RInv'
<1> DEFINE e == participants[id]
           deposit == TrustDepositOf(ValidationFeesOf(participants[e.validator]))
           more == e.deposit + deposit
           fees == ValidationFeesOf(participants[e.validator])
           f == [e EXCEPT !.opState = "PENDING", !.deposit = more,
                          !.opCurrentFees = fees, !.opCurrentDeposit = deposit]
<1>1. Update(id, f) /\ UNCHANGED vars
  BY DEF RenewParticipantOP
<1>2. e \in ParticipantEntries
  BY EntryNumbers
<1> HIDE DEF e, more, fees, deposit
<1>3. KeepsRecord(e, f)
  BY <1>2 DEF KeepsRecord, InForce, ParticipantEntries
<1> HIDE DEF f
<1>4. KeepsRecord(participants[id], participants'[id])
  BY <1>1, <1>3, RowStored DEF e
<1> QED BY <1>1, <1>4, RenewEffect, RecordKeeps DEF Effect

LEMMA ValidateFollows ==
  ASSUME PInv, RInv, NEW corp \in Corporations, NEW id \in DOMAIN participants,
         NEW until \in Nat, NEW terms \in FeeTerms,
         SetParticipantOPToValidated(corp, id, until, terms)
  PROVE  RInv'
<1> DEFINE e == participants[id]
           opExp == ExpirationOf(e)
           end == IF until = NoTime THEN opExp ELSE until
           from == IF e.from = NoTime THEN now ELSE e.from
           more == e.opValidatorDeposit + e.opCurrentDeposit
           f == [e EXCEPT !.opState = "VALIDATED", !.opExp = opExp, !.until = end,
                          !.from = from, !.terms = terms, !.opValidatorDeposit = more,
                          !.opCurrentFees = 0, !.opCurrentDeposit = 0]
<1>1. Update(id, f) /\ SyncRecord(id, end)
  BY DEF SetParticipantOPToValidated
<1>2. e \in ParticipantEntries /\ from # NoTime
  BY EntryNumbers, ParticipantNumbers DEF NoTime
<1> HIDE DEF e, opExp, end, from, more
<1>3. KeepsRecord(e, f) /\ f.from # NoTime
  BY <1>2 DEF KeepsRecord, InForce, ParticipantEntries
<1> HIDE DEF f
<1>4. KeepsRecord(participants[id], participants'[id]) /\ participants'[id].from # NoTime
  BY <1>1, <1>3, RowStored DEF e
<1> QED BY <1>1, <1>4, ValidateEffect, RecordSynced DEF Effect

LEMMA CancelFollows ==
  ASSUME PInv, RInv, NEW corp \in Corporations, NEW id \in DOMAIN participants,
         CancelParticipantOPLastRequest(corp, id)
  PROVE  RInv'
<1> DEFINE e == participants[id]
           state == IF e.opExp = NoTime THEN "TERMINATED" ELSE "VALIDATED"
           f == [e EXCEPT !.opState = state, !.opCurrentFees = 0, !.opCurrentDeposit = 0]
<1>1. /\ Update(id, f)
      /\ e.opExp = NoTime => RevokeVSOperatorAuthorization(id)
      /\ e.opExp # NoTime => UNCHANGED vars
  BY DEF CancelParticipantOPLastRequest, Cancelled
<1>2. e \in ParticipantEntries /\ (e.opExp # NoTime => state # "TERMINATED")
  BY EntryNumbers
<1>3. Writes(id)
  BY CancelEffect DEF Effect
<1> HIDE DEF e, state
<1>4. e.opExp # NoTime => KeepsRecord(e, f)
  BY <1>2 DEF KeepsRecord, InForce, ParticipantEntries
<1> HIDE DEF f
<1>5. CASE e.opExp = NoTime
  BY <1>1, <1>3, <1>5, RecordRevoked
<1>6. CASE e.opExp # NoTime
  <2>1. KeepsRecord(participants[id], participants'[id])
    BY <1>1, <1>4, <1>6, RowStored DEF e
  <2> QED BY <1>1, <1>3, <1>6, <2>1, RecordKeeps
<1> QED BY <1>5, <1>6

LEMMA MoveEndFollows ==
  ASSUME PInv, RInv, NEW corp \in Corporations, NEW id \in DOMAIN participants,
         NEW until \in Nat, SetParticipantEffectiveUntil(corp, id, until)
  PROVE  RInv'
<1> DEFINE e == participants[id]
           f == [e EXCEPT !.until = until]
           before == e.until
<1>1. Update(id, f) /\ SyncRecord(id, before) /\ IsValid(e)
  BY DEF SetParticipantEffectiveUntil
<1>2. e \in ParticipantEntries /\ e.from # NoTime
  BY <1>1, EntryNumbers DEF IsValid
<1> HIDE DEF e, before
<1>3. KeepsRecord(e, f) /\ f.from # NoTime
  BY <1>2 DEF KeepsRecord, InForce, ParticipantEntries
<1> HIDE DEF f
<1>4. KeepsRecord(participants[id], participants'[id]) /\ participants'[id].from # NoTime
  BY <1>1, <1>3, RowStored DEF e
<1> QED BY <1>1, <1>4, MoveEndEffect, RecordSynced DEF Effect

\* Revoke and slash: the record of an issuer or a verifier goes, another's stays.
LEMMA RecordGoesOrStays ==
  ASSUME PInv, RInv, NEW id \in DOMAIN participants, Writes(id),
         RevokeRecord(id, participants[id]),
         participants'[id].opState = participants[id].opState,
         participants'[id].from = participants[id].from
  PROVE  RInv'
<1>1. CASE participants[id].role \in {"ISSUER", "VERIFIER"}
  <2>1. RevokeVSOperatorAuthorization(id)
    BY <1>1 DEF RevokeRecord
  <2> QED BY <2>1, RecordRevoked
<1>2. CASE participants[id].role \notin {"ISSUER", "VERIFIER"}
  <2>1. UNCHANGED vars /\ KeepsRecord(participants[id], participants'[id])
    BY <1>2 DEF RevokeRecord, KeepsRecord
  <2> QED BY <2>1, RecordKeeps
<1> QED BY <1>1, <1>2

LEMMA RevokeFollows ==
  ASSUME PInv, RInv, NEW corp \in Corporations, NEW id \in DOMAIN participants,
         RevokeParticipant(corp, id)
  PROVE  RInv'
<1> DEFINE e == participants[id]
           f == [e EXCEPT !.deposit = 0, !.revoked = now]
<1>1. Update(id, f) /\ RevokeRecord(id, e) /\ e \in ParticipantEntries
  BY EntryNumbers DEF RevokeParticipant
<1> HIDE DEF e
<1>2. f.opState = e.opState /\ f.from = e.from
  BY <1>1 DEF ParticipantEntries
<1> HIDE DEF f
<1>3. participants'[id] = f
  BY <1>1, RowStored
<1> QED BY <1>1, <1>2, <1>3, RevokeEffect, RecordGoesOrStays DEF Effect, e

LEMMA SlashFollows ==
  ASSUME PInv, RInv, NEW corp \in Corporations, NEW id \in DOMAIN participants,
         NEW amount \in Nat, SlashParticipantTrustDeposit(corp, id, amount)
  PROVE  RInv'
<1> DEFINE e == participants[id]
           more == e.slashedDeposit + amount
           less == e.deposit - amount
           f == [e EXCEPT !.slashed = TRUE, !.slashedDeposit = more, !.deposit = less]
<1>1. Update(id, f) /\ RevokeRecord(id, e) /\ e \in ParticipantEntries
  BY EntryNumbers DEF SlashParticipantTrustDeposit
<1> HIDE DEF e, more, less
<1>2. f.opState = e.opState /\ f.from = e.from
  BY <1>1 DEF ParticipantEntries
<1> HIDE DEF f
<1>3. participants'[id] = f
  BY <1>1, RowStored
<1> QED BY <1>1, <1>2, <1>3, SlashParticipantEffect, RecordGoesOrStays DEF Effect, e

LEMMA RepayFollows ==
  ASSUME PInv, RInv, NEW corp \in Corporations, NEW id \in DOMAIN participants,
         NEW amount \in Nat, RepayParticipantSlashedTrustDeposit(corp, id, amount)
  PROVE  RInv'
<1> DEFINE e == participants[id]
           more == e.repaidDeposit + amount
           held == e.deposit + amount
           done == e.repaid \/ more >= e.slashedDeposit
           f == [e EXCEPT !.repaidDeposit = more, !.deposit = held, !.repaid = done]
<1>1. Update(id, f) /\ UNCHANGED vars /\ e \in ParticipantEntries /\ e.slashed
  BY EntryNumbers DEF RepayParticipantSlashedTrustDeposit, RepaidParticipant
<1> HIDE DEF e, more, held, done
<1>2. f.opState = e.opState /\ f.from = e.from
  BY <1>1 DEF ParticipantEntries
<1> HIDE DEF f
<1>3. KeepsRecord(e, f)
  BY <1>1, <1>2 DEF KeepsRecord, InForce
<1>4. KeepsRecord(participants[id], participants'[id])
  BY <1>1, <1>3, RowStored DEF e
<1> QED BY <1>1, <1>4, RepayParticipantEffect, RecordKeeps DEF Effect

LEMMA StartFollows ==
  ASSUME PInv, RInv, NEW corp \in Corporations, NEW validator \in DOMAIN participants,
         NEW role \in ValidatedRoles, NEW did \in Dids, NEW operator \in Operators,
         NEW request, NEW id, id = NewId, NewId <= MaxParticipants,
         StartParticipantOP(corp, validator, role, did, operator, request)
  PROVE  RInv'
<1> DEFINE v == participants[validator]
           fees == ValidationFeesOf(v)
           deposit == TrustDepositOf(fees)
           e == NewParticipant(v.schema, role, did, corp, validator, operator)
           f == [e EXCEPT !.deposit = deposit, !.opState = "PENDING",
                          !.opCurrentFees = fees, !.opCurrentDeposit = deposit]
<1>1. Create(f) /\ GrantRecord(corp, role, operator, request, now)
  BY DEF StartParticipantOP
<1> HIDE DEF fees, deposit
<1>2. /\ f.corporation = corp /\ f.vsOperator = operator
      /\ f.opState # "TERMINATED" /\ InForce(f)
  BY DEF NewParticipant, InForce
<1> HIDE DEF f
<1>3. participants'[id] = f
  BY <1>1, RowStored DEF Create
<1>4. Writes(id) /\ id \notin DOMAIN participants
  BY StartEffect DEF Effect
<1> QED BY <1>1, <1>2, <1>3, <1>4, RecordGranted

LEMMA CreateRootFollows ==
  ASSUME PInv, RInv, NEW corp \in Corporations, NEW s \in DOMAIN schemas, NEW did \in Dids,
         NEW operator \in Operators, NEW from \in Nat, NEW until \in Nat,
         NEW terms \in FeeTerms, NEW request,
         NEW id, id = NewId, NewId <= MaxParticipants,
         CreateRootParticipant(corp, s, did, from, until, terms, operator, request)
  PROVE  RInv'
<1> DEFINE f == Root(corp, s, did, operator, from, until, terms)
<1>1. Create(f) /\ GrantRecord(corp, "ECOSYSTEM", operator, request, until) /\ from > now
  BY DEF CreateRootParticipant
<1>2. /\ f.corporation = corp /\ f.vsOperator = operator
      /\ f.opState # "TERMINATED" /\ InForce(f) /\ f.from # NoTime
  BY <1>1, ParticipantNumbers DEF Root, NewParticipant, InForce, NoTime
<1> HIDE DEF f
<1>3. participants'[id] = f
  BY <1>1, RowStored DEF Create
<1>4. Writes(id) /\ id \notin DOMAIN participants
  BY CreateRootEffect DEF Effect
<1> QED BY <1>1, <1>2, <1>3, <1>4, RecordGranted

LEMMA SelfCreateFollows ==
  ASSUME PInv, RInv, NEW corp \in Corporations, NEW validator \in DOMAIN participants,
         NEW role \in ValidatedRoles, NEW did \in Dids, NEW from \in Nat, NEW until \in Nat,
         NEW terms \in FeeTerms, NEW op \in Operators, NEW request,
         NEW id, id = NewId, NewId <= MaxParticipants,
         SelfCreateParticipant(corp, validator, role, did, from, until, terms, op, request)
  PROVE  RInv'
<1> DEFINE v == participants[validator]
           start == IF from = NoTime THEN now ELSE from
           e == NewParticipant(v.schema, role, did, corp, validator, op)
           f == [e EXCEPT !.from = start, !.until = until, !.terms = terms]
<1>1. Create(f) /\ GrantRecord(corp, role, op, request, until)
  BY DEF SelfCreateParticipant
<1>2. start # NoTime
  BY ParticipantNumbers DEF NoTime
<1> HIDE DEF start
<1>3. /\ f.corporation = corp /\ f.vsOperator = op
      /\ f.opState # "TERMINATED" /\ InForce(f) /\ f.from # NoTime
  BY <1>2 DEF NewParticipant, InForce
<1> HIDE DEF f
<1>4. participants'[id] = f
  BY <1>1, RowStored DEF Create
<1>5. Writes(id) /\ id \notin DOMAIN participants
  BY SelfCreateEffect DEF Effect
<1> QED BY <1>1, <1>3, <1>4, <1>5, RecordGranted

LEMMA CreationsFollow ==
  ASSUME PInv, RInv, NEW corp \in Corporations, Creations(corp)
  PROVE  RInv'
<1>1. NewId <= MaxParticipants
  BY IdsLeft
<1>2. PICK did \in DidsOf[corp], operator \in Operators, request \in Requests :
       \/ \E s \in DOMAIN schemas, from \in Froms, until \in Untils, terms \in Terms :
            CreateRootParticipant(corp, s, did, from, until, terms, operator, request)
       \/ \E id \in DOMAIN participants, role \in ValidatedRoles :
            \/ StartParticipantOP(corp, id, role, did, operator, request)
            \/ \E from \in Froms, until \in Untils, terms \in Terms \cup {NoTerms} :
                 SelfCreateParticipant(corp, id, role, did, from, until, terms, operator,
                                       request)
  BY Zenon DEF Creations
<1>3. PICK new : new = NewId
  OBVIOUS
<1>4. did \in Dids /\ NoTerms \in FeeTerms
  BY ParticipantAssumption DEF NoTerms, FeeTerms
<1>5. ASSUME NEW s \in DOMAIN schemas, NEW from \in Froms, NEW until \in Untils,
             NEW terms \in Terms,
             CreateRootParticipant(corp, s, did, from, until, terms, operator, request)
      PROVE  RInv'
  <2>1. from \in Nat /\ until \in Nat /\ terms \in FeeTerms
    BY ParticipantAssumption
  <2> QED BY <1>1, <1>3, <1>4, <1>5, <2>1, CreateRootFollows
<1>6. ASSUME NEW id \in DOMAIN participants, NEW role \in ValidatedRoles,
             StartParticipantOP(corp, id, role, did, operator, request)
      PROVE  RInv'
  BY <1>1, <1>3, <1>4, <1>6, StartFollows
<1>7. ASSUME NEW id \in DOMAIN participants, NEW role \in ValidatedRoles,
             NEW from \in Froms, NEW until \in Untils, NEW terms \in Terms \cup {NoTerms},
             SelfCreateParticipant(corp, id, role, did, from, until, terms, operator, request)
      PROVE  RInv'
  <2>1. from \in Nat /\ until \in Nat /\ terms \in FeeTerms
    BY <1>4, ParticipantAssumption
  <2> QED BY <1>1, <1>3, <1>4, <1>7, <2>1, SelfCreateFollows
<1> QED BY <1>2, <1>5, <1>6, <1>7

LEMMA MessagesFollow ==
  ASSUME PInv, RInv, NEW corp \in Corporations, NEW id \in DOMAIN participants,
         Messages(corp, id)
  PROVE  RInv'
<1>1. /\ \A until \in Untils : until \in Nat
      /\ \A terms \in Terms : terms \in FeeTerms
      /\ \A amount \in Amounts : amount \in Nat
  BY ParticipantAssumption
<1>2. ASSUME NEW until \in Untils, NEW terms \in Terms,
             SetParticipantOPToValidated(corp, id, until, terms)
      PROVE  RInv'
  BY <1>1, <1>2, ValidateFollows
<1>3. ASSUME NEW until \in Untils, SetParticipantEffectiveUntil(corp, id, until)
      PROVE  RInv'
  BY <1>1, <1>3, MoveEndFollows
<1>4. ASSUME NEW amount \in Amounts,
             \/ SlashParticipantTrustDeposit(corp, id, amount)
             \/ RepayParticipantSlashedTrustDeposit(corp, id, amount)
      PROVE  RInv'
  BY <1>1, <1>4, SlashFollows, RepayFollows
<1> QED BY <1>2, <1>3, <1>4, RenewFollows, CancelFollows, RevokeFollows DEF Messages

\* Whatever leaves the participants and the records they have alone.
LEMMA NothingHappensFollows ==
  ASSUME PInv, RInv, Inv', UNCHANGED participants, now' \in Nat, now' >= now,
         DOMAIN vsoaByParticipant' \subseteq DOMAIN vsoaByParticipant,
         RecordsStay(DOMAIN vsoaByParticipant')
  PROVE  RInv'
<1>1. ASSUME NEW p \in DOMAIN vsoaByParticipant'
      PROVE  RecordFollows(p)'
  <2>1. /\ RecordFollows(p) /\ now \in Nat
        /\ RecordKey(p)' = RecordKey(p) /\ RecordEnd(p)' = RecordEnd(p)
    BY <1>1, ParticipantNumbers DEF RInv, RecordsStay
  <2>2. RecordEnd(p) \in 0 .. now => RecordEnd(p) \in 0 .. now'
    BY <2>1
  <2> QED BY <2>1, <2>2 DEF RecordFollows, InForce
<1> QED BY <1>1 DEF RInv

LEMMA RecordsStep ==
  ASSUME PInv, RInv, [ParticipantNext]_allVars
  PROVE  RInv'
<1>1. now \in Nat
  BY ParticipantNumbers
<1>2. ASSUME UNCHANGED vars, UNCHANGED participants
      PROVE  RInv'
  <2>1. /\ Inv' /\ UNCHANGED now
        /\ DOMAIN vsoaByParticipant' = DOMAIN vsoaByParticipant
        /\ RecordsStay(DOMAIN vsoaByParticipant)
    BY <1>2, DelegationUntouched DEF RInv
  <2>2. RecordsStay(DOMAIN vsoaByParticipant')
    BY <2>1 DEF RecordsStay
  <2> QED BY <1>1, <1>2, <2>1, <2>2, NothingHappensFollows
<1>3. CASE ParticipantMessages
  BY <1>3, CreationsFollow, MessagesFollow DEF ParticipantMessages
<1>4. CASE DepositMessages /\ UNCHANGED <<vars, schemaVars, trustUnitPrice>>
  <2>1. UNCHANGED participants
    BY <1>4, ParticipantNumbers, DepositMessagesAreQuiet DEF Quiet
  <2> QED BY <1>2, <1>4, <2>1
<1>5. CASE SchemaMessages /\ UNCHANGED <<vars, ppVars, trustUnitPrice>>
  BY <1>2, <1>5 DEF ppVars
<1>6. ASSUME NEW price \in Prices, UpdateTrustUnitPrice(price)
      PROVE  RInv'
  BY <1>2, <1>6 DEF UpdateTrustUnitPrice, ppVars
<1>7. CASE RestartChain
  <2>1. RestartFromGenesis /\ UNCHANGED participants /\ Inv
    BY <1>7 DEF RestartChain, RInv
  <2>2. UNCHANGED now
    BY <2>1 DEF RestartFromGenesis
  <2>3. Inv'
    BY <2>1, RestartKeepsInv
  <2> QED BY <1>1, <2>1, <2>2, <2>3, RestartedRecords, NothingHappensFollows
<1>8. CASE TickParticipants
  <2>1. Tick /\ UNCHANGED participants /\ now' = now + 1 /\ Inv
    BY <1>8 DEF TickParticipants, Tick, ppVars, RInv
  <2>2. UNCHANGED <<vsoas, vsoaByParticipant>>
    BY <2>1 DEF Tick, deVars, vsoaVars
  <2>3. Inv'
    BY <2>1, TickKeepsInv
  <2>4. RecordsStay(DOMAIN vsoaByParticipant')
    BY <2>2 DEF RecordsStay, RecordKey, RecordEnd, KeyOf
  <2> QED BY <1>1, <2>1, <2>2, <2>3, <2>4, NothingHappensFollows
<1>9. CASE UNCHANGED allVars
  BY <1>2, <1>9 DEF allVars, ppVars
<1> QED
  BY <1>3, <1>4, <1>5, <1>6, <1>7, <1>8, <1>9 DEF ParticipantNext

LEMMA RecordsBegin == ParticipantInit => RInv
<1> SUFFICES ASSUME ParticipantInit PROVE RInv
  OBVIOUS
<1>1. Inv
  BY DelegationBegins DEF ParticipantInit
<1>2. DOMAIN vsoaByParticipant = {}
  BY DEF ParticipantInit, Init, DelegationInit, EmptyMap
<1> QED BY <1>1, <1>2 DEF RInv

LEMMA RecordsInvariant == ParticipantSpec => []RInv
<1>1. ParticipantInit => RInv
  BY RecordsBegin
<1>2. PInv /\ RInv /\ [ParticipantNext]_allVars => RInv'
  BY RecordsStep
<1> QED BY <1>1, <1>2, ParticipantInvariant, PTL DEF ParticipantSpec

(***************************************************************************)
(* A VS operator's record never outlives what it is for: in every state,   *)
(* through grants, renewals, changes of the end, cancels, revocations,     *)
(* slashes, restarts of the chain, each record is one of a participant of  *)
(* the same corporation that was not terminated, nor revoked or slashed if *)
(* it is an issuer or a verifier; and a candidate's stays disabled.        *)
(***************************************************************************)
THEOREM RecordsKeepFollowing == ParticipantSpec => []RecordsFollowParticipants
BY ParticipantInvariant, RecordsInvariant, RInvFollows, PTL

-----------------------------------------------------------------------------
(* Fee grants and participants: what the messages of x/pp are to x/de.     *)

LEMMA GrantIsACall ==
  ASSUME PInv, NEW corp \in Corporations, NEW role, NEW operator \in Operators,
         NEW request \in Requests, NEW end \in Nat, NewId <= MaxParticipants,
         GrantRecord(corp, role, operator, request, end)
  PROVE  Calls
<1> DEFINE record == [msgTypes |-> request.msgTypes, withFeegrant |-> request.withFeegrant,
                      expiration |-> end, period |-> request.period]
<1>1. CASE request.msgTypes = {}
  BY <1>1 DEF GrantRecord, Calls
<1>2. CASE request.msgTypes # {}
  <2>1. GrantVSOperatorAuthorization(corp, operator, NewId, record)
    BY <1>2 DEF GrantRecord
  <2>2. record \in ParticipantRecords
    BY <1>2, RequestAssumption DEF ParticipantRecords
  <2>3. NewId \in Participants
    <3>1. NewId \in 1 .. MaxParticipants
      BY ParticipantNumbers DEF NewId
    <3> QED BY <3>1, ParticipantAssumption
  <2> HIDE DEF record
  <2> QED BY <2>1, <2>2, <2>3 DEF Calls
<1> QED BY <1>1, <1>2

LEMMA SyncIsACall ==
  ASSUME PInv, NEW id \in DOMAIN participants, NEW end \in Nat, SyncRecord(id, end)
  PROVE  Calls
<1>1. id \in Participants
  BY EntryNumbers, ParticipantAssumption
<1> QED BY <1>1 DEF SyncRecord, Calls

LEMMA RevokeIsACall ==
  ASSUME PInv, NEW id \in DOMAIN participants,
         RevokeVSOperatorAuthorization(id) \/ UNCHANGED vars
  PROVE  Calls
<1>1. id \in Participants
  BY EntryNumbers, ParticipantAssumption
<1> QED BY <1>1 DEF Calls

LEMMA CreationsCall ==
  ASSUME PInv, NEW corp \in Corporations, Creations(corp)
  PROVE  Calls
<1>1. NewId <= MaxParticipants /\ now \in Nat
  BY IdsLeft, ParticipantNumbers
<1>2. PICK did \in DidsOf[corp], operator \in Operators, request \in Requests :
       \/ \E s \in DOMAIN schemas, from \in Froms, until \in Untils, terms \in Terms :
            CreateRootParticipant(corp, s, did, from, until, terms, operator, request)
       \/ \E id \in DOMAIN participants, role \in ValidatedRoles :
            \/ StartParticipantOP(corp, id, role, did, operator, request)
            \/ \E from \in Froms, until \in Untils, terms \in Terms \cup {NoTerms} :
                 SelfCreateParticipant(corp, id, role, did, from, until, terms, operator,
                                       request)
  BY Zenon DEF Creations
<1>3. PICK role : \E end \in Nat : GrantRecord(corp, role, operator, request, end)
  <2>1. \A until \in Untils : until \in Nat
    BY ParticipantAssumption
  <2>2. ASSUME NEW s, NEW from, NEW until \in Untils, NEW terms,
               CreateRootParticipant(corp, s, did, from, until, terms, operator, request)
        PROVE  \E q : \E end \in Nat : GrantRecord(corp, q, operator, request, end)
    <3>1. GrantRecord(corp, "ECOSYSTEM", operator, request, until)
      BY <2>2 DEF CreateRootParticipant
    <3> QED BY <2>1, <3>1, Zenon
  <2>3. ASSUME NEW id, NEW r, StartParticipantOP(corp, id, r, did, operator, request)
        PROVE  \E q : \E end \in Nat : GrantRecord(corp, q, operator, request, end)
    <3>1. GrantRecord(corp, r, operator, request, now)
      BY <2>3 DEF StartParticipantOP
    <3> QED BY <1>1, <3>1, Zenon
  <2>4. ASSUME NEW id, NEW r, NEW from, NEW until \in Untils, NEW terms,
               SelfCreateParticipant(corp, id, r, did, from, until, terms, operator, request)
        PROVE  \E q : \E end \in Nat : GrantRecord(corp, q, operator, request, end)
    <3>1. GrantRecord(corp, r, operator, request, until)
      BY <2>4 DEF SelfCreateParticipant
    <3> QED BY <2>1, <3>1, Zenon
  <2> QED BY <1>2, <2>2, <2>3, <2>4, Zenon
<1> QED BY <1>1, <1>3, GrantIsACall

LEMMA MessagesCall ==
  ASSUME PInv, NEW corp \in Corporations, NEW id \in DOMAIN participants,
         Messages(corp, id)
  PROVE  Calls
<1>1. \A until \in Untils : until \in Nat
  BY ParticipantAssumption
<1>2. ASSUME NEW until \in Untils, NEW terms,
             SetParticipantOPToValidated(corp, id, until, terms)
      PROVE  Calls
  <2> DEFINE opExp == ExpirationOf(participants[id])
             end == IF until = NoTime THEN opExp ELSE until
  <2>1. opExp \in Nat
    <3>1. participants[id].opState = "PENDING"
      BY <1>2, Zenon DEF SetParticipantOPToValidated
    <3> QED BY <3>1, EntryNumbers, ExpirationTyped DEF Coherent
  <2> HIDE DEF opExp
  <2>2. end \in Nat
    BY <1>1, <2>1
  <2>3. SyncRecord(id, end)
    BY <1>2, Zenon DEF SetParticipantOPToValidated, opExp
  <2> QED BY <2>2, <2>3, SyncIsACall
<1>3. ASSUME NEW until, SetParticipantEffectiveUntil(corp, id, until)
      PROVE  Calls
  <2>1. SyncRecord(id, participants[id].until) /\ participants[id].until \in Nat
    BY <1>3, EntryNumbers DEF SetParticipantEffectiveUntil
  <2> QED BY <2>1, SyncIsACall
<1>4. ASSUME \/ RenewParticipantOP(corp, id)
             \/ CancelParticipantOPLastRequest(corp, id)
             \/ RevokeParticipant(corp, id)
             \/ \E amount : \/ SlashParticipantTrustDeposit(corp, id, amount)
                            \/ RepayParticipantSlashedTrustDeposit(corp, id, amount)
      PROVE  Calls
  <2>1. RevokeVSOperatorAuthorization(id) \/ UNCHANGED vars
    BY <1>4, Zenon DEF RenewParticipantOP, CancelParticipantOPLastRequest, RevokeParticipant,
         SlashParticipantTrustDeposit, RepayParticipantSlashedTrustDeposit, RevokeRecord
  <2> QED BY <2>1, RevokeIsACall
<1> QED BY <1>2, <1>3, <1>4 DEF Messages

LEMMA StepsCall ==
  ASSUME PInv, [ParticipantNext]_allVars
  PROVE  Calls
<1>1. CASE ParticipantMessages
  BY <1>1, CreationsCall, MessagesCall DEF ParticipantMessages
<1>2. CASE RestartChain
  BY <1>2 DEF RestartChain, Calls
<1>3. CASE TickParticipants
  BY <1>3 DEF TickParticipants, Calls
<1>4. ASSUME UNCHANGED vars PROVE Calls
  BY <1>4 DEF Calls
<1>5. ASSUME NEW price \in Prices, UpdateTrustUnitPrice(price) PROVE Calls
  BY <1>4, <1>5 DEF UpdateTrustUnitPrice
<1>6. CASE UNCHANGED allVars
  BY <1>4, <1>6 DEF allVars
<1> QED BY <1>1, <1>2, <1>3, <1>4, <1>5, <1>6 DEF ParticipantNext

\* Without operator authorizations, a fee grant is one of records.
LEMMA GrantsServe ==
  ASSUME PInv, RInv, GrantsInv, DOMAIN oas = {}
  PROVE  FeeGrantsServeParticipants
<1> SUFFICES ASSUME NEW key \in DOMAIN feeGrants,
                    InFuture(feeGrants[key].expiration, now)
             PROVE  \E id \in DOMAIN participants :
                      LET e == participants[id]
                      IN  /\ <<e.corporation, e.vsOperator>> = key
                          /\ e.from # NoTime /\ e.opState # "TERMINATED"
                          /\ e.role \in {"ISSUER", "VERIFIER"} => InForce(e)
  BY DEF FeeGrantsServeParticipants
<1> DEFINE last == feeGrants[key].expiration
           records == vsoas[vsoaByCorpOp[key]].records
<1>1. last \in Nat /\ now \in Nat
  BY ParticipantNumbers DEF GrantsInv, StoresTyped
<1>2. BackedByVSOA(key)
  <2>1. ~Has(oaByCorpOp, key)
    BY DEF GrantsInv, Inv, OAInv, IndexAgrees, Has
  <2> QED BY <2>1 DEF GrantsInv, FeeGrantsBacked, BackedByOA
<1>3. PICK p \in DOMAIN records : InFuture(records[p].expiration, last - 1)
  BY <1>2 DEF BackedByVSOA
<1>4. /\ vsoaByCorpOp[key] \in DOMAIN vsoas
      /\ KeyOf(vsoas[vsoaByCorpOp[key]]) = key
  BY <1>2 DEF BackedByVSOA, Has, GrantsInv, Inv, VSOAInv, IndexAgrees
<1>5. p \in DOMAIN vsoaByParticipant /\ vsoaByParticipant[p] = vsoaByCorpOp[key]
  BY <1>3, <1>4 DEF GrantsInv, Inv, VSOAInv, RecordsAgree
<1>6. records[p].expiration \in Nat
  <2>1. RecordsTyped(records)
    BY <1>4 DEF GrantsInv, StoresTyped
  <2> QED BY <1>3, <2>1 DEF RecordsTyped, ParticipantRecords
<1>7. RecordKey(p) = key /\ RecordEnd(p) = records[p].expiration
  BY <1>4, <1>5 DEF RecordKey, RecordEnd
<1> HIDE DEF last, records
<1>8. RecordEnd(p) \notin 0 .. now
  <2>1. last > now
    BY DEF last, InFuture
  <2>2. RecordEnd(p) > last - 1 /\ RecordEnd(p) \in Nat
    BY <1>3, <1>6, <1>7 DEF InFuture
  <2> QED BY <1>1, <2>1, <2>2
<1>9. RecordFollows(p)
  BY <1>5 DEF RInv
<1> QED BY <1>7, <1>8, <1>9 DEF RecordFollows

LEMMA FeeGrantsBegin == ParticipantInit => GrantsInv /\ DOMAIN oas = {}
<1> SUFFICES ASSUME ParticipantInit PROVE GrantsInv /\ DOMAIN oas = {}
  OBVIOUS
<1>1. GrantsInv
  BY GrantsBegin DEF ParticipantInit
<1>2. DOMAIN oas = {}
  BY DEF ParticipantInit, Init, DelegationInit, EmptyMap
<1> QED BY <1>1, <1>2

(***************************************************************************)
(* The fee grants that x/pp has x/de keep serve participants: nobody pays  *)
(* fees from a corporation's account for a participant that was never      *)
(* validated, was terminated, or is an issuer or a verifier revoked or     *)
(* slashed, unless the same operator serves another one.                   *)
(***************************************************************************)
THEOREM FeeGrantsKeepServing == ParticipantSpec => []FeeGrantsServeParticipants
<1> DEFINE Without == GrantsInv /\ DOMAIN oas = {}
<1>1. ParticipantInit => Without
  BY FeeGrantsBegin
<1>2. PInv /\ Without /\ [ParticipantNext]_allVars => Without'
  BY StepsCall, CallsKeepGrants, CallsKeepOperators
<1>3. PInv /\ RInv /\ Without => FeeGrantsServeParticipants
  BY GrantsServe
<1> HIDE DEF Without
<1> QED
  BY <1>1, <1>2, <1>3, ParticipantInvariant, RecordsInvariant, PTL DEF ParticipantSpec

-----------------------------------------------------------------------------
(* What a session costs.                                                   *)

\* A record of a session that somebody pays for.
NamesPayer(r) ==
  /\ r.issuer \in {0} \cup Issuers /\ r.verifier \in {0} \cup Verifiers
  /\ Payer(r) # 0

\* Beneficiaries exist, so what they are due is a number.
LEMMA FeesType ==
  ASSUME ParticipantTypeOK, NEW r, NamesPayer(r)
  PROVE  /\ Fees(r) \in [1 .. MaxParticipants -> Nat]
         /\ Payer(r) \in DOMAIN participants
<1>1. \A q \in DOMAIN participants : participants[q].terms \in FeeTerms
  <2>1. \A q \in DOMAIN participants : participants[q] \in ParticipantEntries
    BY DEF ParticipantTypeOK
  <2>2. \A e \in ParticipantEntries : e.terms \in FeeTerms
    BY DEF ParticipantEntries
  <2>3. QED
    BY <2>1, <2>2
<1>2. Beneficiaries(r) \subseteq DOMAIN participants
  BY Zenon DEF Beneficiaries, PayableRoots
<1>3. /\ Payer(r) \in DOMAIN participants
      /\ r.verifier # 0 => r.verifier \in DOMAIN participants
      /\ r.verifier = 0 => r.issuer \in DOMAIN participants
  BY DEF NamesPayer, Payer, Issuers, Verifiers
<1>4. Discount(r) \in 0 .. DiscountScale
  BY <1>1, <1>3 DEF Discount, FeeTerms
<1>5. \A q \in Beneficiaries(r) : ListedFees(r, q) \in Nat
  BY <1>1, <1>2 DEF ListedFees, FeeTerms
<1> DEFINE due(q) == (ListedFees(r, q) * (DiscountScale - Discount(r))) \div DiscountScale
<1>6. \A q \in Beneficiaries(r) : due(q) \in Nat
  <2>1. DiscountScale \in Nat \ {0} /\ DiscountScale - Discount(r) \in Nat
    BY <1>4, ParticipantAssumption
  <2>2. \A q \in Beneficiaries(r) :
          ListedFees(r, q) * (DiscountScale - Discount(r)) \in Nat
    BY <1>5, <2>1, Products
  <2>3. QED
    BY <2>1, <2>2, Division
<1>7. Fees(r) = [q \in 1 .. MaxParticipants |->
                   IF q \in Beneficiaries(r) THEN due(q) ELSE 0]
  BY Zenon DEF Fees
<1>8. QED
  <2> HIDE DEF due
  <2>1. QED
    BY <1>3, <1>6, <1>7

\* The walk of Ancestors, one level of validators at a time.
IsWalk(up, e, m) ==
  up = [n \in 0 .. m |->
          IF n = 0 THEN {e.validator} \ {0}
          ELSE LET below == up[n - 1]
               IN  below \cup ({participants[q].validator : q \in below} \ {0})]

LEMMA WalkExists ==
  ASSUME NEW m \in Nat, NEW e
  PROVE  \E up : IsWalk(up, e, m)
<1> DEFINE T == {n \in Nat : ~\E up : IsWalk(up, e, n)}
           next(below) == below \cup ({participants[q].validator : q \in below} \ {0})
<1>1. SUFFICES ASSUME T # {} PROVE FALSE
  OBVIOUS
<1>2. PICK n \in T : \A k \in T : n <= k
  BY <1>1, LeastNatural
<1>3. CASE n = 0
  <2>1. IsWalk([k \in 0 .. 0 |-> {e.validator} \ {0}], e, 0)
    BY DEF IsWalk
  <2> QED BY <1>3, <2>1
<1>4. CASE n # 0
  <2>1. n - 1 \in Nat /\ n - 1 \notin T
    BY <1>2, <1>4
  <2>2. PICK up : IsWalk(up, e, n - 1)
    BY <2>1
  <2> DEFINE longer == [k \in 0 .. n |-> IF k = n THEN next(up[n - 1]) ELSE up[k]]
  <2>3. \A k \in 0 .. n - 1 : up[k] = IF k = 0 THEN {e.validator} \ {0} ELSE next(up[k - 1])
    BY <2>2 DEF IsWalk
  <2> HIDE DEF next
  <2>4. \A k \in 0 .. n :
          longer[k] = IF k = 0 THEN {e.validator} \ {0} ELSE next(longer[k - 1])
    <3> SUFFICES ASSUME NEW k \in 0 .. n
                 PROVE  longer[k] = IF k = 0 THEN {e.validator} \ {0}
                                    ELSE next(longer[k - 1])
      OBVIOUS
    <3>1. k = 0 \/ k \in 1 .. n
      OBVIOUS
    <3>2. k # 0 => longer[k - 1] = up[k - 1]
      BY <1>4
    <3>3. k # n => k \in 0 .. n - 1 /\ longer[k] = up[k]
      BY <1>4
    <3>4. k = n => longer[k] = next(up[n - 1])
      BY <1>4
    <3> HIDE DEF longer
    <3> QED BY <1>4, <2>3, <3>1, <3>2, <3>3, <3>4
  <2>5. IsWalk(longer, e, n)
    BY <2>4 DEF IsWalk, next
  <2> QED BY <2>5
<1> QED BY <1>3, <1>4

\* The validators above e are in every set that has e's own and, of each that it has,
\* the validator.
LEMMA AncestorsWithin ==
  ASSUME NEW e, NEW S, e.validator \in S \cup {0},
         \A q \in S : participants[q].validator \in S \cup {0}
  PROVE  Ancestors(e) \subseteq S
<1> DEFINE up == CHOOSE w : IsWalk(w, e, MaxParticipants)
<1>1. MaxParticipants \in Nat
  BY ParticipantAssumption
<1>2. Ancestors(e) = up[MaxParticipants]
  BY Zenon DEF Ancestors, IsWalk
<1>3. IsWalk(up, e, MaxParticipants)
  <2>1. \E w : IsWalk(w, e, MaxParticipants)
    BY <1>1, WalkExists
  <2> QED BY <2>1, Zenon
<1> HIDE DEF up
<1>4. /\ up[0] = {e.validator} \ {0}
      /\ \A n \in 1 .. MaxParticipants :
           up[n] = up[n - 1] \cup ({participants[q].validator : q \in up[n - 1]} \ {0})
  <2> DEFINE next(below) == below \cup ({participants[q].validator : q \in below} \ {0})
  <2>1. up = [n \in 0 .. MaxParticipants |->
                IF n = 0 THEN {e.validator} \ {0} ELSE next(up[n - 1])]
    BY <1>3, Zenon DEF IsWalk
  <2> HIDE DEF next
  <2>2. \A n \in 0 .. MaxParticipants :
          up[n] = IF n = 0 THEN {e.validator} \ {0} ELSE next(up[n - 1])
    BY <2>1, Zenon
  <2>3. /\ up[0] = {e.validator} \ {0}
        /\ \A n \in 1 .. MaxParticipants : up[n] = next(up[n - 1])
    BY <1>1, <2>2
  <2> QED BY <2>3 DEF next
<1> DEFINE T == {n \in 0 .. MaxParticipants : up[n] \subseteq S}
<1>5. 0 \in T
  BY <1>1, <1>4
<1>6. \A n \in 1 .. MaxParticipants : n - 1 \in T => n \in T
  BY <1>1, <1>4
<1> HIDE DEF T
<1>7. MaxParticipants \in T
  BY <1>1, <1>5, <1>6, IndexInduction
<1> QED BY <1>2, <1>7 DEF T

(***************************************************************************)
(* Who pays for a session is not paid: the payer is no root, it verifies   *)
(* and so is above nobody, or it issues for nobody but those above it, who *)
(* were there before it.                                                   *)
(***************************************************************************)
LEMMA PayerIsNoBeneficiary ==
  ASSUME PInv, NEW r, NamesPayer(r)
  PROVE  Payer(r) \notin Beneficiaries(r)
<1> DEFINE verifies == r.verifier # 0
<1>1. /\ Payer(r) \in DOMAIN participants
      /\ verifies => Payer(r) = r.verifier /\ participants[Payer(r)].role = "VERIFIER"
      /\ ~verifies => Payer(r) = r.issuer /\ participants[Payer(r)].role = "ISSUER"
      /\ r.issuer # 0 => r.issuer \in DOMAIN participants
                          /\ participants[r.issuer].role = "ISSUER"
  BY DEF NamesPayer, Payer, Issuers, Verifiers
<1>2. Payer(r) \notin PayableRoots(SchemaOfRecord(r))
  BY <1>1 DEF PayableRoots
<1>3. ~IssuerEarns(r, Payer(r))
  BY <1>1 DEF IssuerEarns
<1>4. Payer(r) \notin Above(r.issuer) \cup Above(r.verifier)
  <2>1. CASE verifies
    <3> DEFINE S == {q \in DOMAIN participants : participants[q].role # "VERIFIER"}
    <3>1. \A q \in DOMAIN participants : participants[q].validator \in S \cup {0}
      BY EntryNumbers DEF PInv, VerifiersValidateNoOne
    <3>2. \A q \in DOMAIN participants : Ancestors(participants[q]) \subseteq S
      <4> SUFFICES ASSUME NEW q \in DOMAIN participants
                   PROVE  Ancestors(participants[q]) \subseteq S
        OBVIOUS
      <4>1. \A p \in S : participants[p].validator \in S \cup {0}
        BY <3>1
      <4> HIDE DEF S
      <4> QED BY <3>1, <4>1, AncestorsWithin
    <3>3. Payer(r) \notin S
      BY <1>1, <2>1
    <3> QED BY <1>1, <2>1, <3>2, <3>3 DEF Above
  <2>2. CASE ~verifies
    <3> DEFINE S == {q \in DOMAIN participants : q < Payer(r)}
    <3>1. participants[Payer(r)].validator \in S \cup {0}
      BY <1>1, EntryNumbers
    <3>2. \A q \in S : participants[q].validator \in S \cup {0}
      <4> SUFFICES ASSUME NEW q \in S, participants[q].validator # 0
                   PROVE  participants[q].validator \in S
        OBVIOUS
      <4>1. /\ participants[q].validator \in DOMAIN participants
            /\ participants[q].validator \in Nat /\ participants[q].validator < q
            /\ q \in Nat /\ Payer(r) \in Nat /\ q < Payer(r)
        BY <1>1, EntryNumbers
      <4> QED BY <4>1
    <3>3. Payer(r) \notin S
      BY <1>1, EntryNumbers
    <3> HIDE DEF S
    <3>4. Ancestors(participants[Payer(r)]) \subseteq S
      BY <3>1, <3>2, AncestorsWithin
    <3> QED BY <1>1, <2>2, <3>3, <3>4 DEF Above
  <2> QED BY <2>1, <2>2
<1> QED BY <1>2, <1>3, <1>4, Zenon DEF Beneficiaries

\* Each part of the charge is at most its share of the quote, all rounded down.
LEMMA PartsOfQuote ==
  ASSUME trustUnitPrice \in Nat, NEW B \in Nat, NEW F \in Nat, F = B * trustUnitPrice,
         NEW D \in Nat, D * PREC <= F * TrustDepositRate,
         NEW m \in Nat, m <= D
  PROVE  F + (F * UserAgentRewardRate) \div PREC
           + (F * WalletUserAgentRewardRate) \div PREC + m
           <= (B * (PREC + UserAgentRewardRate + WalletUserAgentRewardRate
                      + TrustDepositRate) * trustUnitPrice) \div PREC
<1> DEFINE u == UserAgentRewardRate
<1> DEFINE w == WalletUserAgentRewardRate
<1> DEFINE X == PREC + u + w + TrustDepositRate
<1> DEFINE a == (F * u) \div PREC
<1> DEFINE b == (F * w) \div PREC
<1>1. /\ PREC \in Nat \ {0} /\ trustUnitPrice \in Nat /\ TrustDepositRate \in Nat
      /\ u \in Nat /\ w \in Nat /\ X \in Nat
  BY PrecisionAssumption, ParticipantAssumption, SessionAssumption
<1>2. /\ a \in Nat /\ b \in Nat
      /\ a * PREC <= F * u /\ b * PREC <= F * w
      /\ F * u \in Nat /\ F * w \in Nat
  <2> HIDE DEF u, w
  <2>1. F * u \in Nat /\ F * w \in Nat
    BY <1>1, Products
  <2>2. QED
    BY <1>1, <2>1, Division
<1>3. F * X = F * PREC + F * u + F * w + F * TrustDepositRate
  <2> HIDE DEF u, w
  <2>1. QED
    BY <1>1
<1>4. B * X * trustUnitPrice = F * X /\ F * X \in Nat
  <2> HIDE DEF X
  <2>1. QED
    BY <1>1
<1> HIDE DEF u, w, X, a, b
<1>5. m * PREC <= F * TrustDepositRate
  BY <1>1
<1>6. (F + a + b + m) * PREC = F * PREC + a * PREC + b * PREC + m * PREC
  BY <1>1, <1>2
<1>7. /\ F * PREC \in Nat /\ a * PREC \in Nat /\ b * PREC \in Nat
      /\ m * PREC \in Nat /\ F * TrustDepositRate \in Nat
  BY <1>1, <1>2, Products
<1>8. (F + a + b + m) * PREC <= F * X
  BY <1>2, <1>3, <1>5, <1>6, <1>7
<1>9. F + a + b + m \in Nat
  BY <1>2
<1>10. F + a + b + m <= (F * X) \div PREC
  <2>1. (F * X) \div PREC >= F + a + b + m
    BY <1>1, <1>4, <1>8, <1>9, QuotientBound
  <2>2. (F * X) \div PREC \in Nat
    BY <1>1, <1>4, Division
  <2>3. QED
    BY <1>9, <2>1, <2>2
<1>11. QED
  BY <1>4, <1>10 DEF u, w, X, a, b

\* With n beneficiaries there are n + 2 roundings.
LEMMA QuoteCovers ==
  ASSUME ParticipantTypeOK, NEW r, NamesPayer(r)
  PROVE  Charge(Payments(r), participants[Payer(r)].corporation) <= TrustFees(Fees(r))
<1> DEFINE n == MaxParticipants
<1> DEFINE fees == Fees(r)
<1> DEFINE coins == Coins(fees)
<1> DEFINE deposits == PayeeDeposits(coins)
<1> DEFINE corp == participants[Payer(r)].corporation
<1> DEFINE B == Sum(fees, n)
<1> DEFINE F == Sum(coins, n)
<1> DEFINE D == Sum(deposits, n)
<1> DEFINE m == Missing(td[corp], D)
<1>1. /\ ParticipantTypeOK
      /\ n \in Nat /\ PREC \in Nat \ {0}
      /\ trustUnitPrice \in Nat /\ TrustDepositRate \in Nat
  BY PrecisionAssumption, ParticipantAssumption DEF ParticipantTypeOK
<1>2. fees \in [1 .. n -> Nat] /\ Payer(r) \in DOMAIN participants
  BY <1>1, FeesType
<1>3. corp \in Corporations
  <2>1. participants[Payer(r)] \in ParticipantEntries
    BY <1>1, <1>2 DEF ParticipantTypeOK
  <2>2. \A e \in ParticipantEntries : e.corporation \in Corporations
    BY DEF ParticipantEntries
  <2>3. QED
    BY <2>1, <2>2
<1>4. td[corp] \in TrustDepositEntries
  BY <1>1, <1>3 DEF ParticipantTypeOK
<1> HIDE DEF fees
<1>5. coins \in [1 .. n -> Nat]
  BY <1>1, <1>2, Products DEF Coins
<1>6. B \in Nat /\ F = B * trustUnitPrice /\ F \in Nat
  <2>1. B \in Nat
    BY <1>1, <1>2, SumNatural
  <2>2. F = B * trustUnitPrice
    BY <1>1, <1>2, SumScaled DEF Coins
  <2>3. QED
    BY <1>1, <2>1, <2>2, Products
<1> HIDE DEF coins
<1>7. D \in Nat /\ D * PREC <= F * TrustDepositRate
  <2>1. deposits = [q \in 1 .. n |-> (coins[q] * TrustDepositRate) \div PREC]
    BY DEF PayeeDeposits, TrustDepositOf
  <2>2. /\ [q \in 1 .. n |-> (coins[q] * TrustDepositRate) \div PREC] \in [1 .. n -> Nat]
        /\ Sum([q \in 1 .. n |-> (coins[q] * TrustDepositRate) \div PREC], n) * PREC
             <= Sum(coins, n) * TrustDepositRate
    <3> HIDE DEF n
    <3>1. QED
      BY <1>1, <1>5, SumOfQuotients, Zenon
  <2>3. deposits \in [1 .. n -> Nat] /\ D * PREC <= F * TrustDepositRate
    BY <2>1, <2>2, Zenon
  <2>4. QED
    BY <1>1, <2>3, SumNatural
<1> HIDE DEF B, F, deposits, D
<1>8. m \in Nat /\ m <= D
  <2>1. td[corp].claimable \in Nat
    BY <1>4 DEF TrustDepositEntries
  <2>2. QED
    BY <1>7, <2>1 DEF Missing, Smaller
<1>9. Charge(Payments(r), corp)
        = F + (F * UserAgentRewardRate) \div PREC
            + (F * WalletUserAgentRewardRate) \div PREC + m
  BY Zenon DEF Charge, Payments, Reward, Summed, F, D, deposits, coins, fees
<1>10. TrustFees(fees)
         = (B * (PREC + UserAgentRewardRate + WalletUserAgentRewardRate
                   + TrustDepositRate) * trustUnitPrice) \div PREC
  BY Zenon DEF TrustFees, Summed, B
<1> HIDE DEF m
<1>11. QED
  BY <1>1, <1>6, <1>7, <1>8, <1>9, <1>10, PartsOfQuote DEF fees

-----------------------------------------------------------------------------
(* What a session pays out, and to whom.                                   *)

\* A part of an amount is no more than the amount.
LEMMA DepositIsPart ==
  ASSUME NEW fees \in Nat
  PROVE  TrustDepositOf(fees) \in Nat /\ TrustDepositOf(fees) <= fees
<1>1. /\ TrustDepositRate \in Nat /\ TrustDepositRate <= PREC /\ PREC \in Nat \ {0}
  BY PrecisionAssumption, ParticipantAssumption
<1>2. fees * TrustDepositRate \in Nat /\ fees * TrustDepositRate <= fees * PREC
  BY <1>1
<1> QED BY <1>1, <1>2, Division, QuotientAtMost DEF TrustDepositOf

LEMMA RewardIsSplit ==
  ASSUME NEW coins \in [1 .. MaxParticipants -> Nat], NEW rate \in Nat
  PROVE  LET reward == Reward(coins, rate)
         IN  reward.coins \in Nat /\ reward.deposit \in Nat /\ reward.deposit <= reward.coins
<1> DEFINE x == Summed(coins) * rate
           y == DecMul(x, TrustDepositRate)
<1>1. /\ TrustDepositRate \in Nat /\ TrustDepositRate <= PREC /\ PREC \in Nat \ {0}
      /\ MaxParticipants \in Nat
  BY PrecisionAssumption, ParticipantAssumption
<1>2. x \in Nat
  BY <1>1, SumNatural, Products DEF Summed
<1>3. Reward(coins, rate) = [coins |-> x \div PREC, deposit |-> y \div PREC]
  BY DEF Reward
<1> HIDE DEF x
<1>4. y \in Nat /\ y <= x
  <2>1. x * TrustDepositRate \in Nat /\ x * TrustDepositRate <= x * PREC
    BY <1>1, <1>2
  <2> QED BY <1>1, <1>2, <2>1, ProductType, RoundingAtMost DEF DecMul
<1> HIDE DEF y
<1>5. x \div PREC \in Nat /\ y \div PREC \in Nat /\ y \div PREC <= x \div PREC
  BY <1>1, <1>2, <1>4, QuotientMonotone
<1> QED BY <1>3, <1>5

LEMMA PartsOfPayments ==
  ASSUME ParticipantTypeOK, NEW r, NamesPayer(r)
  PROVE  LET p == Payments(r)
         IN  /\ p.payerDeposit \in Nat /\ p.payerDeposit = Summed(p.deposits)
             /\ p.coins \in [1 .. MaxParticipants -> Nat]
             /\ p.deposits \in [1 .. MaxParticipants -> Nat]
             /\ p.agent.coins \in Nat /\ p.agent.deposit \in Nat
             /\ p.walletAgent.coins \in Nat /\ p.walletAgent.deposit \in Nat
             /\ \A q \in 1 .. MaxParticipants :
                  /\ p.coins[q] \in Nat
                  /\ p.deposits[q] = TrustDepositOf(p.coins[q])
                  /\ DepositForPayee(r, p, q) \in Nat
                  /\ CoinsForPayee(r, p, q) \in Nat
                  /\ DepositAdded(r, p, q) \in Nat
<1> DEFINE n == MaxParticipants
           p == Payments(r)
           coins == Coins(Fees(r))
           deposits == PayeeDeposits(coins)
<1>1. /\ n \in Nat /\ trustUnitPrice \in Nat
      /\ UserAgentRewardRate \in Nat /\ WalletUserAgentRewardRate \in Nat
  BY ParticipantAssumption, SessionAssumption DEF ParticipantTypeOK
<1>2. Fees(r) \in [1 .. n -> Nat]
  BY FeesType
<1>3. coins \in [1 .. n -> Nat]
  BY <1>1, <1>2, Products DEF Coins
<1>4. /\ p.coins = coins /\ p.deposits = deposits /\ p.payerDeposit = Summed(deposits)
      /\ p.agent = Reward(coins, UserAgentRewardRate)
      /\ p.walletAgent = Reward(coins, WalletUserAgentRewardRate)
  BY DEF Payments
<1> HIDE DEF p, coins
<1>5. /\ deposits \in [1 .. n -> Nat]
      /\ \A q \in 1 .. n : deposits[q] = TrustDepositOf(coins[q]) /\ deposits[q] <= coins[q]
  BY <1>3, DepositIsPart DEF PayeeDeposits
<1> HIDE DEF deposits
<1>6. p.payerDeposit \in Nat
  BY <1>1, <1>4, <1>5, SumNatural DEF Summed
<1>7. /\ p.agent.coins \in Nat /\ p.agent.deposit \in Nat
      /\ p.agent.deposit <= p.agent.coins
      /\ p.walletAgent.coins \in Nat /\ p.walletAgent.deposit \in Nat
      /\ p.walletAgent.deposit <= p.walletAgent.coins
  BY <1>1, <1>3, <1>4, RewardIsSplit
<1>8. ASSUME NEW q \in 1 .. n
      PROVE  /\ DepositForPayee(r, p, q) \in Nat
             /\ CoinsForPayee(r, p, q) \in Nat
             /\ DepositAdded(r, p, q) \in Nat
  <2>1. p.coins[q] \in Nat /\ p.deposits[q] \in Nat /\ p.deposits[q] <= p.coins[q]
    BY <1>3, <1>4, <1>5, <1>8
  <2>2. /\ DepositForAgent(r, p, q) \in Nat
        /\ DepositForAgent(r, p, q)
             <= (IF q = r.agent THEN p.agent.coins ELSE 0)
                  + (IF q = r.walletAgent THEN p.walletAgent.coins ELSE 0)
    BY <1>7 DEF DepositForAgent
  <2>3. DepositForPayee(r, p, q) \in Nat /\ CoinsForPayee(r, p, q) \in Nat
    BY <1>7, <2>1, <2>2 DEF DepositForPayee, CoinsForPayee
  <2> QED BY <1>6, <2>1, <2>2, <2>3 DEF DepositAdded
<1>9. \A q \in 1 .. n : p.coins[q] \in Nat /\ p.deposits[q] = TrustDepositOf(p.coins[q])
  BY <1>3, <1>4, <1>5
<1>10. p.coins \in [1 .. n -> Nat] /\ p.deposits \in [1 .. n -> Nat]
  BY <1>3, <1>4, <1>5
<1> QED BY <1>4, <1>6, <1>7, <1>8, <1>9, <1>10 DEF p

LEMMA ChargeTyped ==
  ASSUME ParticipantTypeOK, NEW r, NamesPayer(r), NEW corp \in Corporations
  PROVE  /\ Charge(Payments(r), corp) \in Nat /\ TrustFees(Fees(r)) \in Nat
         /\ Missing(td[corp], Payments(r).payerDeposit) \in Nat
<1> DEFINE n == MaxParticipants
           p == Payments(r)
           rates == PREC + UserAgentRewardRate + WalletUserAgentRewardRate + TrustDepositRate
           B == Summed(Fees(r))
<1>1. /\ n \in Nat /\ trustUnitPrice \in Nat /\ PREC \in Nat \ {0}
      /\ td[corp] \in TrustDepositEntries
      /\ UserAgentRewardRate \in Nat /\ WalletUserAgentRewardRate \in Nat
      /\ TrustDepositRate \in Nat
  BY PrecisionAssumption, ParticipantAssumption, SessionAssumption DEF ParticipantTypeOK
<1>2. /\ p.payerDeposit \in Nat /\ p.coins \in [1 .. n -> Nat]
      /\ p.agent.coins \in Nat /\ p.walletAgent.coins \in Nat
  BY PartsOfPayments
<1> HIDE DEF p
<1>3. Missing(td[corp], p.payerDeposit) \in Nat
  BY <1>1, <1>2, IncreaseEntry
<1>4. Summed(p.coins) \in Nat
  BY <1>1, <1>2, SumNatural DEF Summed
<1>5. Charge(p, corp) \in Nat
  <2>1. Charge(p, corp) = Summed(p.coins) + p.agent.coins + p.walletAgent.coins
                            + Missing(td[corp], p.payerDeposit)
    BY Zenon DEF Charge
  <2>2. p.agent.coins \in Nat /\ p.walletAgent.coins \in Nat
    BY <1>2
  <2> QED BY <1>3, <1>4, <2>1, <2>2
<1>6. B \in Nat /\ rates \in Nat
  BY <1>1, FeesType, SumNatural DEF Summed
<1>7. TrustFees(Fees(r)) = (B * rates * trustUnitPrice) \div PREC
  BY Zenon DEF TrustFees
<1> HIDE DEF B, rates
<1>8. B * rates * trustUnitPrice \in Nat
  BY <1>1, <1>6, Products
<1>9. TrustFees(Fees(r)) \in Nat
  BY <1>1, <1>7, <1>8, Division
<1> QED BY <1>3, <1>5, <1>9 DEF p

\* What a total over the participants of one corporation adds up.
DepositCells(r, p, corp) ==
  [q \in 1 .. MaxParticipants |->
     IF Has(participants, q)
     THEN IF participants[q].corporation = corp THEN DepositForPayee(r, p, q) ELSE 0
     ELSE 0]

PaidCells(r, p, corp) ==
  [q \in 1 .. MaxParticipants |->
     IF Has(participants, q)
     THEN IF participants[q].corporation = corp THEN CoinsForPayee(r, p, q) ELSE 0
     ELSE 0]

LEMMA PartsOfCorporation ==
  ASSUME ParticipantTypeOK, NEW r, NamesPayer(r), NEW corp
  PROVE  LET p == Payments(r)
         IN  /\ DepositedFor(r, p, corp) = Sum(DepositCells(r, p, corp), MaxParticipants)
             /\ PaidTo(r, p, corp) = Sum(PaidCells(r, p, corp), MaxParticipants)
             /\ DepositCells(r, p, corp) \in [1 .. MaxParticipants -> Nat]
             /\ PaidCells(r, p, corp) \in [1 .. MaxParticipants -> Nat]
             /\ DepositedFor(r, p, corp) \in Nat /\ PaidTo(r, p, corp) \in Nat
<1>1. PICK p : p = Payments(r)
  OBVIOUS
<1>2. /\ DepositedFor(r, p, corp) = Sum(DepositCells(r, p, corp), MaxParticipants)
      /\ PaidTo(r, p, corp) = Sum(PaidCells(r, p, corp), MaxParticipants)
  BY Zenon DEF DepositedFor, PaidTo, OfCorporation, Total, DepositCells, PaidCells
<1>3. /\ DepositCells(r, p, corp) \in [1 .. MaxParticipants -> Nat]
      /\ PaidCells(r, p, corp) \in [1 .. MaxParticipants -> Nat]
  BY <1>1, PartsOfPayments DEF DepositCells, PaidCells
<1>4. MaxParticipants \in Nat
  BY ParticipantAssumption
<1> QED BY <1>1, <1>2, <1>3, <1>4, SumNatural

-----------------------------------------------------------------------------
(* The coins of all accounts.                                              *)

BurntCells == [id \in 1 .. MaxParticipants |-> BurntOf(id)]

\* The coins of a corporation: its account, what it has in that of x/td, and what
\* governance took of it.
AssetsOf(c) == Wealth(c) + Sunk(c)
AssetsOfAll == [c \in Corporations |-> AssetsOf(c)]

\* What CoinsConserved says, summed once over the corporations.
CoinsAddUp ==
  OverCorporations(AssetsOfAll) + escrow + Sum(BurntCells, MaxParticipants)
    = OverCorporations(GenesisBalance)

LEMMA CorporationsListed ==
  /\ Cardinality(Corporations) \in Nat
  /\ Lists(CorporationList, Cardinality(Corporations), Corporations)
BY ListingLists, ParticipantAssumption DEF CorporationList

LEMMA OverType ==
  ASSUME NEW f \in [Corporations -> Int]
  PROVE  OverCorporations(f) \in Int
BY CorporationsListed, AlongType DEF OverCorporations

LEMMA OverPlus ==
  ASSUME NEW f \in [Corporations -> Int], NEW g \in [Corporations -> Int],
         NEW h \in [Corporations -> Int], \A c \in Corporations : h[c] = f[c] + g[c]
  PROVE  OverCorporations(h) = OverCorporations(f) + OverCorporations(g)
BY CorporationsListed, AlongPlus DEF OverCorporations

LEMMA OverMoves ==
  ASSUME NEW f \in [Corporations -> Int], NEW g \in [Corporations -> Int],
         NEW corp \in Corporations, NEW d \in Int,
         \A c \in Corporations : g[c] = f[c] + (IF c = corp THEN d ELSE 0)
  PROVE  OverCorporations(g) = OverCorporations(f) + d
<1>1. GainsAt(f, g, Corporations, corp, d)
  BY DEF GainsAt
<1> QED BY <1>1, CorporationsListed, AlongMoves DEF OverCorporations

AssetsAreNumbers == AssetsOfAll \in [Corporations -> Int]
BurntAreNumbers == \A id : BurntOf(id) \in Nat

LEMMA AssetsTyped == AccountsTyped => AssetsAreNumbers
BY AccountNumbers DEF AssetsAreNumbers, AssetsOfAll, AssetsOf

LEMMA AssetsTypedAfter == AccountsTyped' => AssetsAreNumbers'
BY AssetsTyped, PTL

LEMMA BurntTyped == PInv => BurntAreNumbers
BY EntryNumbers DEF BurntAreNumbers, BurntOf, Has

LEMMA BurntTypedAfter == PInv' => BurntAreNumbers'
BY BurntTyped, PTL

LEMMA CoinsAreConserved ==
  ASSUME PInv, CoinsAddUp
  PROVE  CoinsConserved
<1> DEFINE deposits == [c \in Corporations |->
             td[c].deposit + td[c].slashed + history[c].forgotten - history[c].reclaimed]
           repaid == [c \in Corporations |-> history[c].repaid]
           both == [c \in Corporations |-> balance[c] + deposits[c]]
<1>1. AccountsTyped
  BY ParticipantNumbers
<1>2. \A c \in Corporations :
        /\ balance[c] \in Int /\ deposits[c] \in Int /\ repaid[c] \in Int
        /\ AssetsOfAll[c] = balance[c] + deposits[c] + repaid[c]
  BY <1>1, AccountNumbers DEF AssetsOfAll, AssetsOf, Wealth, Sunk
<1>3. /\ balance \in [Corporations -> Int] /\ deposits \in [Corporations -> Int]
      /\ repaid \in [Corporations -> Int] /\ AssetsOfAll \in [Corporations -> Int]
  BY <1>1, <1>2, AssetsTyped DEF AccountsTyped, AssetsAreNumbers
<1>4. DepositAccount = OverCorporations(deposits)
  BY DEF DepositAccount
<1> HIDE DEF deposits, repaid
<1>5. /\ both \in [Corporations -> Int]
      /\ \A c \in Corporations : both[c] = balance[c] + deposits[c]
      /\ \A c \in Corporations : AssetsOfAll[c] = both[c] + repaid[c]
  BY <1>2, <1>3
<1> HIDE DEF both
<1>6. /\ OverCorporations(both) = OverCorporations(balance) + OverCorporations(deposits)
      /\ OverCorporations(AssetsOfAll) = OverCorporations(both) + OverCorporations(repaid)
  BY <1>3, <1>5, OverPlus
<1>7. /\ OverCorporations(balance) \in Int /\ OverCorporations(deposits) \in Int
      /\ OverCorporations(repaid) \in Int /\ escrow \in Int
      /\ Sum(BurntCells, MaxParticipants) \in Int
  <2>1. BurntCells \in [1 .. MaxParticipants -> Int] /\ MaxParticipants \in Nat
    BY BurntTyped, ParticipantNumbers DEF BurntCells, BurntAreNumbers
  <2> QED BY <1>1, <1>3, <2>1, OverType, SumType DEF AccountsTyped
<1>8. OverCorporations(balance) + escrow + OverCorporations(deposits)
        + Sum(BurntCells, MaxParticipants) + OverCorporations(repaid)
        = OverCorporations(GenesisBalance)
  BY <1>6, <1>7 DEF CoinsAddUp
<1>9. CoinsConserved <=>
        OverCorporations(balance) + escrow + DepositAccount
          + Sum(BurntCells, MaxParticipants) + OverCorporations(repaid)
          = OverCorporations(GenesisBalance)
  BY Zenon DEF CoinsConserved, Total, BurntCells, BurntOf, repaid
<1> QED BY <1>4, <1>8, <1>9

\* A corporation's coins move by d, and all that is burnt by b.
LEMMA CoinsStep ==
  ASSUME AccountsTyped, AccountsTyped', PInv, CoinsAddUp,
         NEW corp \in Corporations, NEW d \in Int, NEW b \in Int,
         \A c \in Corporations : AssetsOf(c)' = AssetsOf(c) - At(c, corp, d),
         Sum(BurntCells, MaxParticipants)' = Sum(BurntCells, MaxParticipants) + b,
         d = escrow' - escrow + b
  PROVE  CoinsAddUp'
<1> DEFINE f == AssetsOfAll
           less == 0 - d
<1>1. PICK g : g = AssetsOfAll'
  OBVIOUS
<1>2. f \in [Corporations -> Int] /\ g \in [Corporations -> Int] /\ less \in Int
  BY <1>1, AssetsTyped, AssetsTypedAfter DEF AssetsAreNumbers
<1>3. \A c \in Corporations : g[c] = f[c] + (IF c = corp THEN less ELSE 0)
  <2> SUFFICES ASSUME NEW c \in Corporations
               PROVE  g[c] = f[c] + (IF c = corp THEN less ELSE 0)
    OBVIOUS
  <2>1. g[c] = AssetsOf(c)' /\ f[c] = AssetsOf(c) /\ f[c] \in Int
    BY <1>1, <1>2 DEF AssetsOfAll
  <2>2. g[c] = f[c] - At(c, corp, d)
    BY <2>1
  <2> HIDE DEF f
  <2> QED BY <2>1, <2>2 DEF At
<1> HIDE DEF f, less
<1>4. OverCorporations(g) = OverCorporations(f) + less /\ OverCorporations(f) \in Int
  BY <1>2, <1>3, OverMoves, OverType
<1>5. OverCorporations(AssetsOfAll)' = OverCorporations(g)
  BY <1>1 DEF OverCorporations
<1>6. escrow \in Int /\ escrow' \in Int /\ Sum(BurntCells, MaxParticipants) \in Int
  <2>1. BurntCells \in [1 .. MaxParticipants -> Int] /\ MaxParticipants \in Nat
    BY BurntTyped, ParticipantNumbers DEF BurntCells, BurntAreNumbers
  <2> QED BY <2>1, SumType DEF AccountsTyped
<1>7. OverCorporations(g) + escrow' + Sum(BurntCells, MaxParticipants)'
        = OverCorporations(f) + escrow + Sum(BurntCells, MaxParticipants)
  <2>1. OverCorporations(g) = OverCorporations(f) - d
    BY <1>4 DEF less
  <2> QED BY <1>4, <1>6, <2>1
<1>8. OverCorporations(GenesisBalance)' = OverCorporations(GenesisBalance)
  BY DEF OverCorporations
<1> QED BY <1>5, <1>7, <1>8 DEF CoinsAddUp, f

LEMMA EffectKeepsCoins ==
  ASSUME PInv, PInv', CoinsAddUp, NEW id, Effect(id)
  PROVE  CoinsAddUp'
<1> DEFINE n == MaxParticipants
           f == BurntCells
           g == [q \in 1 .. n |-> BurntOf(q)']
           b == BurntOf(id)' - BurntOf(id)
<1>1. /\ AccountsTyped /\ AccountsTyped' /\ n \in Nat
      /\ id \in 1 .. n /\ Writes(id) /\ MovesCoins(id)
  BY ParticipantNumbers DEF Effect, Writes
<1>2. \A q : BurntOf(q) \in Nat /\ BurntOf(q)' \in Nat
  BY BurntTyped, BurntTypedAfter DEF BurntAreNumbers
<1>3. \A q : q # id => BurntOf(q)' = BurntOf(q)
  <2> SUFFICES ASSUME NEW q, q # id PROVE BurntOf(q)' = BurntOf(q)
    OBVIOUS
  <2>1. /\ DOMAIN participants' = DOMAIN participants \cup {id}
        /\ \A p \in DOMAIN participants \ {id} : participants'[p] = participants[p]
    BY <1>1, WritesRows
  <2> QED BY <2>1 DEF BurntOf, Has
<1>4. /\ f \in [1 .. n -> Int] /\ g \in [1 .. n -> Int]
      /\ \A i \in (1 .. n) \ {id} : g[i] = f[i]
      /\ g[id] - f[id] = b /\ f[id] \in Int /\ g[id] \in Int
  BY <1>1, <1>2, <1>3 DEF BurntCells
<1>5. Sum(BurntCells, n)' = Sum(g, n) /\ b \in Int
  BY <1>2 DEF BurntCells
<1> HIDE DEF f, g
<1>6. Sum(g, n) = Sum(f, n) + g[id] - f[id] /\ Sum(f, n) \in Int
  <2>1. MovesCell(f, g, id, n)
    BY <1>1, <1>4 DEF MovesCell
  <2> QED BY <2>1, SumMoves
<1>7. Sum(BurntCells, n)' = Sum(BurntCells, n) + b
  <2> HIDE DEF b
  <2> QED BY <1>4, <1>5, <1>6 DEF f
<1>8. PICK party \in Corporations, loss \in Int :
        /\ \A c \in Corporations : Wealth(c)' = Wealth(c) - At(c, party, loss)
        /\ loss = escrow' - escrow + BurntOf(id)' - BurntOf(id)
  BY <1>1 DEF MovesCoins
<1>9. \A c \in Corporations : AssetsOf(c)' = AssetsOf(c) - At(c, party, loss)
  <2> SUFFICES ASSUME NEW c \in Corporations
               PROVE  AssetsOf(c)' = AssetsOf(c) - At(c, party, loss)
    OBVIOUS
  <2>1. Wealth(c) \in Int /\ Sunk(c) \in Int /\ At(c, party, loss) \in Int
    BY <1>1, AccountNumbers DEF At
  <2>2. Wealth(c)' = Wealth(c) - At(c, party, loss) /\ Sunk(c)' = Sunk(c)
    BY <1>1, <1>8 DEF MovesCoins, NothingSinks
  <2> QED BY <2>1, <2>2 DEF AssetsOf
<1>10. loss = escrow' - escrow + b
  <2>1. escrow \in Int /\ escrow' \in Int
    BY <1>1 DEF AccountsTyped
  <2> QED BY <1>2, <1>8, <2>1
<1> HIDE DEF b
<1> QED BY <1>1, <1>5, <1>7, <1>9, <1>10, CoinsStep

LEMMA QuietKeepsCoins ==
  ASSUME CoinsAddUp, Quiet
  PROVE  CoinsAddUp'
<1>1. /\ UNCHANGED <<participants, escrow>>
      /\ \A c \in Corporations : AssetsOf(c)' = AssetsOf(c)
  BY DEF Quiet, AssetsOf
<1>2. AssetsOfAll' = AssetsOfAll
  BY <1>1 DEF AssetsOfAll
<1>3. BurntCells' = BurntCells
  BY <1>1 DEF BurntCells, BurntOf, Has
<1>4. /\ OverCorporations(AssetsOfAll)' = OverCorporations(AssetsOfAll)
      /\ OverCorporations(GenesisBalance)' = OverCorporations(GenesisBalance)
      /\ Sum(BurntCells, MaxParticipants)' = Sum(BurntCells, MaxParticipants)
  BY <1>2, <1>3 DEF OverCorporations
<1> QED BY <1>1, <1>4 DEF CoinsAddUp

LEMMA StepKeepsCoins ==
  ASSUME PInv, PInv', CoinsAddUp, [ParticipantNext]_allVars
  PROVE  CoinsAddUp'
<1>1. ASSUME NEW id, Effect(id) PROVE CoinsAddUp'
  BY <1>1, EffectKeepsCoins
<1> QED BY <1>1, ParticipantStep, QuietKeepsCoins DEF OneParticipantMoves, NoneMoves

LEMMA CoinsBegin ==
  ASSUME ParticipantInit
  PROVE  CoinsAddUp
<1> DEFINE n == MaxParticipants
           zeros == [i \in 1 .. n |-> 0]
<1>1. PInv /\ AllRoots /\ n \in Nat /\ Sum(zeros, n) = 0
  BY ParticipantsBegin, ParticipantNumbers, SumZero
<1>2. BurntCells = zeros
  BY <1>1 DEF AllRoots, BurntCells, BurntOf, Has
<1> HIDE DEF zeros, n
<1>3. \A c \in Corporations : AssetsOf(c) = GenesisBalance[c] + 0
  <2> SUFFICES ASSUME NEW c \in Corporations PROVE AssetsOf(c) = GenesisBalance[c] + 0
    OBVIOUS
  <2>1. /\ td[c] = NoEntry /\ balance[c] = GenesisBalance[c]
        /\ history[c] = [cancelled |-> 0, reclaimed |-> 0, repaid |-> 0, forgotten |-> 0]
        /\ GenesisBalance[c] \in Nat
    BY ParticipantAssumption DEF ParticipantInit
  <2> QED BY <2>1 DEF AssetsOf, Wealth, Sunk, NoEntry
<1>4. AssetsOfAll = GenesisBalance
  BY <1>3, ParticipantAssumption DEF AssetsOfAll
<1>5. OverCorporations(AssetsOfAll) \in Int
  BY <1>1, ParticipantNumbers, AssetsTyped, OverType DEF AssetsAreNumbers
<1>6. escrow = 0 /\ Sum(BurntCells, MaxParticipants) = 0
  BY <1>1, <1>2 DEF AllRoots, n
<1> QED BY <1>4, <1>5, <1>6 DEF CoinsAddUp

-----------------------------------------------------------------------------
(* What a session does.                                                    *)

SessionForms ==
  [issuer : {0} \cup Issuers, verifier : {0} \cup Verifiers,
   agent : Issuers \cap Agents, walletAgent : Issuers \cap WalletAgents]

LEMMA FormNames ==
  ASSUME NEW r \in SessionForms, r.issuer # 0 \/ r.verifier # 0
  PROVE  /\ NamesPayer(r) /\ Payer(r) \in {r.issuer, r.verifier} \ {0}
         /\ r.issuer # 0 => r.issuer \in DOMAIN participants
         /\ r.verifier # 0 => r.verifier \in DOMAIN participants
         /\ r.agent \in DOMAIN participants /\ r.walletAgent \in DOMAIN participants
BY DEF SessionForms, NamesPayer, Payer, Issuers, Verifiers

\* The deposit of a participant rises, and nothing else of it changes.
Raised(e, f, amount) ==
  /\ f \in ParticipantEntries
  /\ f.deposit = e.deposit + amount
  /\ SameIdentity(e, f) /\ f.did = e.did /\ f.terms = e.terms
  /\ f.from = e.from /\ f.until = e.until
  /\ f.opState = e.opState /\ f.opExp = e.opExp
  /\ f.opCurrentFees = e.opCurrentFees /\ f.opCurrentDeposit = e.opCurrentDeposit
  /\ f.opValidatorDeposit = e.opValidatorDeposit
  /\ f.revoked = e.revoked /\ f.slashed = e.slashed /\ f.repaid = e.repaid
  /\ f.slashedDeposit = e.slashedDeposit /\ f.repaidDeposit = e.repaidDeposit

LEMMA RaisedEntry ==
  ASSUME NEW e \in ParticipantEntries, NEW amount \in Nat
  PROVE  Raised(e, [e EXCEPT !.deposit = @ + amount], amount)
<1> DEFINE more == e.deposit + amount
           f == [e EXCEPT !.deposit = more]
<1>1. more \in Nat
  BY DEF ParticipantEntries
<1>2. more = e.deposit + amount
  OBVIOUS
<1> HIDE DEF more
<1>3. Raised(e, f, amount)
  BY <1>1, <1>2 DEF Raised, SameIdentity, ParticipantEntries
<1> QED BY <1>3 DEF more

\* The accounts after a session of r that corp pays.
LEMMA SessionAccounts ==
  ASSUME PInv, NEW corp \in Corporations, NEW r, NamesPayer(r), PaySession(r, corp),
         participants[Payer(r)].corporation = corp, UNCHANGED <<escrow, history>>
  PROVE  LET p == Payments(r)
         IN  /\ AccountsTyped'
             /\ \A c \in Corporations :
                  /\ Booked(c)' = Booked(c) + DepositedFor(r, p, c)
                                    + At(c, corp, p.payerDeposit)
                  /\ Wealth(c)' = Wealth(c) + PaidTo(r, p, c) + DepositedFor(r, p, c)
                                    - At(c, corp, Charge(p, corp)
                                                    - Missing(td[corp], p.payerDeposit))
                  /\ td'[c].slashed = td[c].slashed
<1> DEFINE p == Payments(r)
<1>1. ParticipantTypeOK /\ AccountsTyped /\ PREC \in Nat \ {0}
  BY PrecisionAssumption, ParticipantNumbers DEF PInv
<1>2. p.payerDeposit \in Nat
  BY <1>1, PartsOfPayments
<1>3. Charge(p, corp) <= TrustFees(Fees(r)) /\ balance[corp] >= TrustFees(Fees(r))
  BY <1>1, QuoteCovers DEF PaySession
<1>4. \A c \in Corporations : DepositedFor(r, p, c) \in Nat /\ PaidTo(r, p, c) \in Nat
  BY <1>1, PartsOfCorporation
<1>5. /\ td' = [c \in Corporations |-> TrustDepositAfter(r, p, c)]
      /\ balance' =
           [c \in Corporations |->
              balance[c] + PaidTo(r, p, c) - (IF c = corp THEN Charge(p, corp) ELSE 0)]
  BY DEF PaySession
<1> DEFINE missing == Missing(td[corp], p.payerDeposit)
<1>6. Charge(p, corp) \in Nat /\ TrustFees(Fees(r)) \in Nat /\ missing \in Nat
  BY <1>1, ChargeTyped
<1> HIDE DEF p, missing
<1>7. ASSUME NEW c \in Corporations
      PROVE  /\ td'[c] \in TrustDepositEntries /\ td'[c].slashed = td[c].slashed
             /\ td'[c].deposit = td[c].deposit + DepositedFor(r, p, c) + At(c, corp, missing)
             /\ td'[c].deposit - td'[c].claimable
                  = td[c].deposit - td[c].claimable + DepositedFor(r, p, c)
                      + At(c, corp, p.payerDeposit)
  <2> DEFINE d == DepositedFor(r, p, c)
             x == IncreasedOnBehalf(td[c], d, PREC)
             y == Increased(x, p.payerDeposit, PREC)
  <2>1. td[c] \in TrustDepositEntries /\ d \in Nat
    BY <1>1, <1>4 DEF AccountsTyped
  <2>2. /\ td[c].deposit \in Nat /\ td[c].claimable \in Nat
    BY <2>1 DEF TrustDepositEntries
  <2>3. td'[c] = IF c = corp THEN y ELSE x
    BY <1>5, <1>7 DEF TrustDepositAfter
  <2> HIDE DEF d
  <2>4. /\ x \in TrustDepositEntries /\ x.deposit = td[c].deposit + d
        /\ x.slashed = td[c].slashed /\ x.claimable = td[c].claimable
    BY <1>1, <2>1, OnBehalfEntry
  <2> HIDE DEF x
  <2>5. /\ Missing(x, p.payerDeposit) \in Nat /\ y \in TrustDepositEntries
        /\ y.deposit = x.deposit + Missing(x, p.payerDeposit)
        /\ y.slashed = x.slashed
        /\ y.claimable = x.claimable - (p.payerDeposit - Missing(x, p.payerDeposit))
    BY <1>1, <1>2, <2>4, IncreaseEntry
  <2> HIDE DEF y
  <2>6. CASE c = corp
    <3>1. Missing(x, p.payerDeposit) = missing
      BY <2>4, <2>6 DEF Missing, missing
    <3>2. td'[c] = y /\ At(c, corp, missing) = missing
          /\ At(c, corp, p.payerDeposit) = p.payerDeposit
      BY <2>3, <2>6 DEF At
    <3>3. td'[c].deposit = td[c].deposit + d + missing
      BY <2>4, <2>5, <3>1, <3>2
    <3>4. td'[c].claimable = td[c].claimable - (p.payerDeposit - missing)
      BY <2>4, <2>5, <3>1, <3>2
    <3>5. td'[c].deposit - td'[c].claimable
            = td[c].deposit - td[c].claimable + d + p.payerDeposit
      BY <1>2, <1>6, <2>1, <2>2, <3>3, <3>4
    <3> QED BY <2>4, <2>5, <3>2, <3>3, <3>5 DEF d
  <2>7. CASE c # corp
    <3>1. td'[c] = x /\ At(c, corp, missing) = 0 /\ At(c, corp, p.payerDeposit) = 0
      BY <2>3, <2>7 DEF At
    <3>2. /\ td'[c].deposit = td[c].deposit + d + 0
          /\ td'[c].deposit - td'[c].claimable
               = td[c].deposit - td[c].claimable + d + 0
      BY <2>1, <2>2, <2>4, <3>1
    <3> QED BY <2>4, <3>1, <3>2 DEF d
  <2> QED BY <2>6, <2>7
<1>8. ASSUME NEW c \in Corporations
      PROVE  /\ balance'[c] \in Nat
             /\ balance'[c] = balance[c] + PaidTo(r, p, c) - At(c, corp, Charge(p, corp))
  <2>1. balance[c] \in Nat /\ PaidTo(r, p, c) \in Nat
    BY <1>1, <1>4 DEF AccountsTyped
  <2>2. balance'[c] = balance[c] + PaidTo(r, p, c) - At(c, corp, Charge(p, corp))
    BY <1>5, <1>8 DEF At
  <2>3. c = corp => balance[c] >= Charge(p, corp)
    BY <1>3, <1>6, <2>1
  <2> QED BY <1>6, <2>1, <2>2, <2>3 DEF At
<1>9. AccountsTyped'
  <2>1. td' \in [Corporations -> TrustDepositEntries]
    BY <1>5, <1>7
  <2>2. balance' \in [Corporations -> Nat]
    BY <1>5, <1>8
  <2> QED BY <1>1, <2>1, <2>2 DEF AccountsTyped
<1>10. ASSUME NEW c \in Corporations
       PROVE  /\ Booked(c)' = Booked(c) + DepositedFor(r, p, c) + At(c, corp, p.payerDeposit)
              /\ Wealth(c)' = Wealth(c) + PaidTo(r, p, c) + DepositedFor(r, p, c)
                                - At(c, corp, Charge(p, corp) - missing)
  <2> DEFINE d == DepositedFor(r, p, c)
             paid == PaidTo(r, p, c)
             h == history[c]
  <2>1. d \in Nat /\ paid \in Nat
    BY <1>4
  <2>2. /\ td[c].deposit \in Nat /\ td[c].claimable \in Nat /\ td[c].slashed \in Nat
        /\ balance[c] \in Nat
        /\ h.reclaimed \in Nat /\ h.cancelled \in Nat /\ h.forgotten \in Nat
    BY <1>1, AccountNumbers
  <2>3. /\ td'[c].deposit \in Nat /\ td'[c].claimable \in Nat
    BY <1>7 DEF TrustDepositEntries
  <2> HIDE DEF d, paid, h
  <2>4. Booked(c) = td[c].deposit - td[c].claimable - h.reclaimed + h.cancelled
                      + td[c].slashed + h.forgotten
    BY DEF Booked, h
  <2>5. Booked(c)' = td'[c].deposit - td'[c].claimable - h.reclaimed + h.cancelled
                       + td[c].slashed + h.forgotten
    BY <1>7 DEF Booked, h
  <2>6. td'[c].deposit - td'[c].claimable
          = td[c].deposit - td[c].claimable + d + At(c, corp, p.payerDeposit)
    BY <1>7 DEF d
  <2>7. /\ Wealth(c) = balance[c] + td[c].deposit - h.reclaimed
        /\ Wealth(c)' = balance'[c] + td'[c].deposit - h.reclaimed
    BY DEF Wealth, h
  <2>8. /\ td'[c].deposit = td[c].deposit + d + At(c, corp, missing)
        /\ balance'[c] = balance[c] + paid - At(c, corp, Charge(p, corp))
    BY <1>7, <1>8 DEF d, paid
  <2>9. Booked(c)' = Booked(c) + d + At(c, corp, p.payerDeposit)
    BY <1>2, <2>1, <2>2, <2>3, <2>4, <2>5, <2>6 DEF At
  <2>10. Wealth(c)' = Wealth(c) + paid + d - At(c, corp, Charge(p, corp) - missing)
    <3> HIDE DEF Charge
    <3> QED BY <1>6, <2>1, <2>2, <2>3, <2>7, <2>8 DEF At
  <2> QED BY <2>9, <2>10 DEF d, paid
<1> QED BY <1>7, <1>9, <1>10 DEF p, missing

LEMMA SessionRows ==
  ASSUME PInv, NEW corp, NEW r, NamesPayer(r), PaySession(r, corp)
  PROVE  /\ DOMAIN participants' = DOMAIN participants
         /\ participants' = [q \in DOMAIN participants |-> participants'[q]]
         /\ \A q \in DOMAIN participants :
              Raised(participants[q], participants'[q], DepositAdded(r, Payments(r), q))
<1>1. participants' =
        [q \in DOMAIN participants |->
           [participants[q] EXCEPT !.deposit = @ + DepositAdded(r, Payments(r), q)]]
  BY DEF PaySession
<1>2. ASSUME NEW q \in DOMAIN participants
      PROVE  Raised(participants[q], participants'[q], DepositAdded(r, Payments(r), q))
  <2>1. participants[q] \in ParticipantEntries /\ q \in 1 .. MaxParticipants
    BY EntryNumbers
  <2>2. DepositAdded(r, Payments(r), q) \in Nat
    BY <2>1, PartsOfPayments DEF PInv
  <2>3. participants'[q] =
          [participants[q] EXCEPT !.deposit = @ + DepositAdded(r, Payments(r), q)]
    BY <1>1
  <2> QED BY <2>1, <2>2, <2>3, RaisedEntry
<1> QED BY <1>1, <1>2

LEMMA OthersAreNotPaid ==
  ASSUME PInv, NEW r, NamesPayer(r), NEW q \in 1 .. MaxParticipants, q \notin Beneficiaries(r)
  PROVE  Payments(r).deposits[q] = 0
<1> DEFINE p == Payments(r)
<1>1. p.coins[q] = 0
  <2>1. p.coins[q] = Fees(r)[q] * trustUnitPrice
    BY DEF Payments, Coins
  <2>2. Fees(r)[q] = 0
    BY DEF Fees
  <2> QED BY <2>1, <2>2, ParticipantNumbers
<1>2. p.deposits[q] = TrustDepositOf(p.coins[q])
  BY PartsOfPayments DEF PInv
<1>3. TrustDepositOf(0) \in Nat /\ TrustDepositOf(0) <= 0
  BY DepositIsPart
<1> QED BY <1>1, <1>2, <1>3

\* The copy of the payer overwrites nothing, since it is paid nothing itself.
LEMMA PayerAddsToPayees ==
  ASSUME PInv, NEW r, NamesPayer(r), NEW q \in 1 .. MaxParticipants
  PROVE  LET p == Payments(r)
         IN  DepositAdded(r, p, q)
               = DepositForPayee(r, p, q) + (IF q = Payer(r) THEN p.payerDeposit ELSE 0)
<1> DEFINE p == Payments(r)
<1>1. /\ p.deposits[q] \in Nat /\ p.payerDeposit \in Nat
      /\ p.agent.deposit \in Nat /\ p.walletAgent.deposit \in Nat
  BY PartsOfPayments DEF PInv
<1>2. DepositForAgent(r, p, q) \in Nat
  BY <1>1 DEF DepositForAgent
<1>3. q = Payer(r) => p.deposits[q] = 0
  BY PayerIsNoBeneficiary, OthersAreNotPaid
<1> HIDE DEF p
<1> QED BY <1>1, <1>2, <1>3 DEF DepositAdded, DepositForPayee, p

\* Whom a session pays and who pays it is in force.
LEMMA OutOfForceGetNothing ==
  ASSUME PInv, NEW r, NamesPayer(r), NEW q \in DOMAIN participants,
         OutOfForce(participants[q]),
         r.issuer # 0 => IsValid(participants[r.issuer]),
         r.verifier # 0 => IsValid(participants[r.verifier]),
         IsValid(participants[r.agent]), IsValid(participants[r.walletAgent])
  PROVE  DepositAdded(r, Payments(r), q) = 0
<1> DEFINE p == Payments(r)
<1>1. /\ now \in Nat /\ q \in 1 .. MaxParticipants
      /\ participants[q].revoked \in Nat
      /\ trustUnitPrice \in Nat
  BY ParticipantNumbers, EntryNumbers
<1>2. ~IsValid(participants[q])
  BY <1>1 DEF OutOfForce, IsValid
<1>3. q # r.agent /\ q # r.walletAgent /\ q # Payer(r)
  BY <1>2 DEF Payer, NamesPayer
<1>4. q \notin Beneficiaries(r)
  <2>1. ~Payable(participants[q])
    BY <1>1 DEF OutOfForce, Payable
  <2>2. ~IssuerEarns(r, q)
    BY <1>1, <1>2 DEF IssuerEarns
  <2> QED BY <2>1, <2>2, Zenon DEF Beneficiaries, PayableRoots
<1>5. p.deposits[q] = 0
  BY <1>1, <1>4, OthersAreNotPaid
<1> QED BY <1>3, <1>5 DEF DepositAdded, DepositForAgent

LEMMA SessionKeepsPInv ==
  ASSUME PInv, NEW corp, NEW r, NamesPayer(r), PaySession(r, corp), AccountsTyped',
         UNCHANGED <<now, schemaVars, trustUnitPrice, participantCounter>>
  PROVE  PInv'
<1>1. /\ DOMAIN participants' = DOMAIN participants
      /\ participants' = [q \in DOMAIN participants |-> participants'[q]]
      /\ \A q \in DOMAIN participants :
           Raised(participants[q], participants'[q], DepositAdded(r, Payments(r), q))
  BY SessionRows
<1>2. UNCHANGED <<schemas, schemaCounter, maxPeriod>>
  BY DEF schemaVars
<1>3. ASSUME NEW q \in DOMAIN participants'
      PROVE  /\ participants'[q] \in ParticipantEntries /\ Coherent(participants'[q])
             /\ participants'[q].validator < q /\ Has(schemas, participants'[q].schema)
  <2>1. q \in DOMAIN participants
    BY <1>1, <1>3
  <2>2. Raised(participants[q], participants'[q], DepositAdded(r, Payments(r), q))
    BY <1>1, <2>1
  <2>3. /\ Coherent(participants[q])
        /\ participants[q].validator < q /\ Has(schemas, participants[q].schema)
    BY <2>1, EntryNumbers
  <2> QED BY <2>2, <2>3 DEF Raised, SameIdentity, Coherent
<1>4. /\ SchemaTypeOK' /\ trustUnitPrice' \in Nat \ {0} /\ now' \in Nat \ {0}
      /\ participantCounter' \in 0 .. MaxParticipants
      /\ DOMAIN participants' = 1 .. participantCounter'
  BY <1>1, <1>2, ParticipantNumbers DEF PInv, ParticipantTypeOK, SchemaTypeOK
<1>5. participants' \in [1 .. participantCounter' -> ParticipantEntries]
  BY <1>1, <1>3, <1>4
<1>6. ParticipantTypeOK'
  BY <1>2, <1>3, <1>4, <1>5 DEF ParticipantTypeOK, AccountsTyped, Has
<1>7. VerifiersValidateNoOne'
  BY <1>1, EntryNumbers DEF PInv, VerifiersValidateNoOne, Raised, SameIdentity
<1> QED BY <1>3, <1>4, <1>6, <1>7 DEF PInv

LEMMA SessionKeepsBooks ==
  ASSUME PInv, PInv', Books, NEW corp \in Corporations, NEW r, NamesPayer(r),
         PaySession(r, corp), participants[Payer(r)].corporation = corp,
         UNCHANGED <<escrow, history>>
  PROVE  Books'
<1> DEFINE n == MaxParticipants
           p == Payments(r)
<1>1. /\ n \in Nat /\ Payer(r) \in DOMAIN participants /\ Payer(r) \in 1 .. n
      /\ ParticipantTypeOK
  <2>1. Payer(r) \in DOMAIN participants /\ ParticipantTypeOK
    BY FeesType DEF PInv
  <2> QED BY <2>1, ParticipantNumbers, EntryNumbers
<1>2. /\ DOMAIN participants' = DOMAIN participants
      /\ \A q \in DOMAIN participants :
           Raised(participants[q], participants'[q], DepositAdded(r, p, q))
  BY SessionRows
<1>3. \A q \in DOMAIN participants :
        participants'[q].corporation = participants[q].corporation
  BY <1>2 DEF Raised, SameIdentity
<1>4. ASSUME NEW q
      PROVE  /\ DueOf(q)' = DueOf(q)
             /\ \A c : AsValidatorOf(q, c)' = AsValidatorOf(q, c)
  <2>1. CASE q \in DOMAIN participants
    <3>1. /\ participants'[q].opCurrentFees = participants[q].opCurrentFees
          /\ participants'[q].opValidatorDeposit = participants[q].opValidatorDeposit
          /\ participants'[q].validator = participants[q].validator
      BY <1>2, <2>1 DEF Raised, SameIdentity
    <3>2. participants[q].validator # 0 => participants[q].validator \in DOMAIN participants
      BY <2>1, EntryNumbers
    <3> QED BY <1>2, <1>3, <2>1, <3>1, <3>2 DEF DueOf, AsValidatorOf, Has
  <2>2. CASE q \notin DOMAIN participants
    BY <1>2, <2>2 DEF DueOf, AsValidatorOf, Has
  <2> QED BY <2>1, <2>2
<1>5. escrow' = Sum(DueCells, n)'
  <2>1. DueCells' = DueCells
    BY <1>4 DEF DueCells
  <2> QED BY <2>1 DEF Books
<1>6. ASSUME NEW c \in Corporations
      PROVE  Booked(c)' = Sum(OwnCells(c), n)' + Sum(AsValidatorCells(c), n)'
  <2> DEFINE own == OwnCells(c)
             cells == DepositCells(r, p, c)
             both == [q \in 1 .. n |-> own[q] + cells[q]]
             after == [q \in 1 .. n |-> OwnOf(q, c)']
             payers == At(c, corp, p.payerDeposit)
  <2>1. AsValidatorCells(c)' = AsValidatorCells(c)
    BY <1>4 DEF AsValidatorCells
  <2>2. /\ own \in [1 .. n -> Int] /\ after \in [1 .. n -> Int]
        /\ AsValidatorCells(c) \in [1 .. n -> Int]
    BY CellsTyped, CellsTypedAfter DEF OwnCells, AsValidatorCells, CellsAreNumbers
  <2>3. /\ cells \in [1 .. n -> Int] /\ DepositedFor(r, p, c) = Sum(cells, n)
        /\ payers \in Int
    BY <1>1, PartsOfCorporation, PartsOfPayments DEF At
  <2>4. Booked(c)' = Booked(c) + DepositedFor(r, p, c) + payers
    BY SessionAccounts
  <2>5. Booked(c) = Sum(own, n) + Sum(AsValidatorCells(c), n)
    BY DEF Books
  <2>6. Sum(OwnCells(c), n)' = Sum(after, n)
    BY DEF OwnCells
  <2>7. ASSUME NEW q \in 1 .. n
        PROVE  after[q] = both[q] + (IF q = Payer(r) THEN payers ELSE 0)
    <3>1. CASE q \in DOMAIN participants
      <4>1. participants'[q].deposit = participants[q].deposit + DepositAdded(r, p, q)
        BY <1>2, <3>1 DEF Raised
      <4>2. /\ participants[q].deposit \in Nat /\ DepositForPayee(r, p, q) \in Nat
            /\ p.payerDeposit \in Nat
        BY <1>1, <3>1, EntryNumbers, PartsOfPayments
      <4>3. DepositAdded(r, p, q) =
              DepositForPayee(r, p, q) + (IF q = Payer(r) THEN p.payerDeposit ELSE 0)
        BY <2>7, PayerAddsToPayees
      <4>4. after[q] = IF participants[q].corporation = c
                       THEN participants'[q].deposit ELSE 0
        BY <1>2, <1>3, <2>7, <3>1 DEF OwnOf, Has
      <4>5. own[q] = IF participants[q].corporation = c
                     THEN participants[q].deposit ELSE 0
        BY <2>7, <3>1 DEF OwnCells, OwnOf, Has
      <4>6. cells[q] = IF participants[q].corporation = c
                       THEN DepositForPayee(r, p, q) ELSE 0
        BY <2>7, <3>1 DEF DepositCells, Has
      <4> HIDE DEF p, own, cells, after
      <4> QED BY <2>7, <4>1, <4>2, <4>3, <4>4, <4>5, <4>6 DEF At
    <3>2. CASE q \notin DOMAIN participants
      BY <1>1, <1>2, <2>7, <3>2 DEF OwnCells, OwnOf, DepositCells, Has
    <3> QED BY <3>1, <3>2
  <2> HIDE DEF own, cells, after, payers, n
  <2>8. both \in [1 .. n -> Int] /\ \A q \in 1 .. n : both[q] = own[q] + cells[q]
    BY <2>2, <2>3
  <2>9. Sum(both, n) = Sum(own, n) + Sum(cells, n)
    <3>1. AddsCells(own, cells, both, n)
      BY <1>1, <2>2, <2>3, <2>8 DEF AddsCells, n
    <3> QED BY <3>1, SumPlus
  <2> HIDE DEF both
  <2>10. /\ Sum(after, n) = Sum(both, n) + after[Payer(r)] - both[Payer(r)]
         /\ Sum(both, n) \in Int
    <3>1. \A q \in (1 .. n) \ {Payer(r)} : after[q] = both[q]
      BY <2>3, <2>7, <2>8
    <3>2. MovesCell(both, after, Payer(r), n)
      BY <1>1, <2>2, <2>8, <3>1 DEF MovesCell, n
    <3> QED BY <3>2, SumMoves
  <2>11. Sum(own, n) \in Int /\ Sum(cells, n) \in Int
         /\ Sum(AsValidatorCells(c), n) \in Int
    BY <1>1, <2>2, <2>3, SumType
  <2>12. after[Payer(r)] = both[Payer(r)] + payers /\ both[Payer(r)] \in Int
    BY <1>1, <2>7, <2>8
  <2>13. Sum(after, n) = Sum(own, n) + Sum(cells, n) + payers
    BY <2>3, <2>9, <2>10, <2>11, <2>12
  <2>14. Booked(c)' = Sum(after, n) + Sum(AsValidatorCells(c), n)
    BY <2>3, <2>4, <2>5, <2>11, <2>13
  <2> QED BY <2>1, <2>6, <2>14 DEF n
<1> QED BY <1>5, <1>6 DEF Books

\* All that participant q is paid in a session: coins, and trust deposit.
DueTo(r, p, q) ==
  p.coins[q] + (IF q = r.agent THEN p.agent.coins ELSE 0)
    + (IF q = r.walletAgent THEN p.walletAgent.coins ELSE 0)

DueToAll(r, p) == [q \in 1 .. MaxParticipants |-> DueTo(r, p, q)]

\* An amount that goes to one participant.
AloneAt(id, amount) == [q \in 1 .. MaxParticipants |-> IF q = id THEN amount ELSE 0]

LEMMA AloneSum ==
  ASSUME NEW id \in 1 .. MaxParticipants, NEW amount \in Nat
  PROVE  /\ AloneAt(id, amount) \in [1 .. MaxParticipants -> Int]
         /\ Sum(AloneAt(id, amount), MaxParticipants) = amount
<1> DEFINE n == MaxParticipants
           f == [q \in 1 .. n |-> 0]
           g == AloneAt(id, amount)
<1>1. n \in Nat /\ Sum(f, n) = 0
  BY ParticipantAssumption, SumZero
<1>2. /\ f \in [1 .. n -> Int] /\ g \in [1 .. n -> Int]
      /\ \A i \in (1 .. n) \ {id} : g[i] = f[i]
      /\ g[id] = amount /\ f[id] = 0
  BY DEF AloneAt
<1> HIDE DEF f, g, n
<1>3. Sum(g, n) = Sum(f, n) + g[id] - f[id]
  <2>1. MovesCell(f, g, id, n)
    BY <1>1, <1>2 DEF MovesCell, n
  <2> QED BY <2>1, SumMoves
<1> QED BY <1>1, <1>2, <1>3 DEF g, n

\* The payments are the coins of the beneficiaries and the rewards of the agents.
LEMMA PaymentsSum ==
  ASSUME ParticipantTypeOK, NEW r, NamesPayer(r),
         r.agent \in 1 .. MaxParticipants, r.walletAgent \in 1 .. MaxParticipants
  PROVE  LET p == Payments(r)
         IN  /\ DueToAll(r, p) \in [1 .. MaxParticipants -> Int]
             /\ Sum(DueToAll(r, p), MaxParticipants)
                  = Summed(p.coins) + p.agent.coins + p.walletAgent.coins
<1> DEFINE n == MaxParticipants
           m == DueToAll(r, Payments(r))
           p == Payments(r)
           coins == p.coins
           a == AloneAt(r.agent, p.agent.coins)
           w == AloneAt(r.walletAgent, p.walletAgent.coins)
<1>1. /\ n \in Nat /\ coins \in [1 .. n -> Nat]
      /\ p.agent.coins \in Nat /\ p.walletAgent.coins \in Nat
  BY PartsOfPayments, ParticipantAssumption
<1>2. /\ a \in [1 .. n -> Int] /\ Sum(a, n) = p.agent.coins
      /\ w \in [1 .. n -> Int] /\ Sum(w, n) = p.walletAgent.coins
  BY <1>1, AloneSum
<1>3. \A q \in 1 .. n : m[q] = coins[q] + a[q] + w[q]
  BY DEF DueToAll, DueTo, AloneAt
<1>4. m = [q \in 1 .. n |-> m[q]]
  BY DEF DueToAll
<1> HIDE DEF a, w, m, n, p, coins
<1>5. coins \in [1 .. n -> Int] /\ a \in [1 .. n -> Int] /\ w \in [1 .. n -> Int]
  BY <1>1, <1>2
<1>6. m \in [1 .. n -> Int]
  <2>1. ASSUME NEW q \in 1 .. n PROVE m[q] \in Int
    <3>1. coins[q] \in Int /\ a[q] \in Int /\ w[q] \in Int
      BY <1>5
    <3> QED BY <1>3, <3>1
  <2> QED BY <1>4, <2>1
<1>7. Sum(m, n) = Sum(coins, n) + Sum(a, n) + Sum(w, n)
  <2> DEFINE first == [q \in 1 .. n |-> coins[q] + a[q]]
  <2>1. AddsCells(coins, a, first, n)
    BY <1>1, <1>5 DEF AddsCells
  <2>2. AddsCells(first, w, m, n)
    BY <1>1, <1>3, <1>5, <1>6 DEF AddsCells
  <2>3. Sum(first, n) = Sum(coins, n) + Sum(a, n)
    BY <2>1, SumPlus
  <2>4. Sum(m, n) = Sum(first, n) + Sum(w, n)
    BY <2>2, SumPlus
  <2> QED BY <2>3, <2>4
<1> QED BY <1>2, <1>6, <1>7 DEF Summed, m, n, p, coins

\* What corporations are paid adds up to what participants are due: each has one.
LEMMA PaymentsAddUp ==
  ASSUME PInv, NEW r, NamesPayer(r),
         r.agent \in DOMAIN participants, r.walletAgent \in DOMAIN participants
  PROVE  LET p == Payments(r)
         IN  OverCorporations([c \in Corporations |-> PaidTo(r, p, c) + DepositedFor(r, p, c)])
               = Summed(p.coins) + p.agent.coins + p.walletAgent.coins
<1> DEFINE n == MaxParticipants
           m == DueToAll(r, Payments(r))
           owner == [q \in 1 .. n |-> participants[q].corporation]
<1>1. PICK p : p = Payments(r)
  OBVIOUS
<1>2. /\ n \in Nat /\ ParticipantTypeOK /\ trustUnitPrice \in Nat
      /\ DOMAIN participants \subseteq 1 .. n
  BY ParticipantNumbers, EntryNumbers DEF PInv
<1>3. /\ m \in [1 .. n -> Int]
      /\ Sum(m, n) = Summed(p.coins) + p.agent.coins + p.walletAgent.coins
  BY <1>1, <1>2, PaymentsSum
<1>4. \A q \in 1 .. n :
        /\ m[q] = DepositForPayee(r, p, q) + CoinsForPayee(r, p, q)
        /\ DepositForPayee(r, p, q) \in Nat /\ CoinsForPayee(r, p, q) \in Nat
  <2> SUFFICES ASSUME NEW q \in 1 .. n
               PROVE  /\ m[q] = DepositForPayee(r, p, q) + CoinsForPayee(r, p, q)
                      /\ DepositForPayee(r, p, q) \in Nat
                      /\ CoinsForPayee(r, p, q) \in Nat
    OBVIOUS
  <2>1. DepositForPayee(r, p, q) \in Nat /\ CoinsForPayee(r, p, q) \in Nat
    BY <1>1, <1>2, PartsOfPayments
  <2>2. m[q] = DueTo(r, p, q) /\ m[q] \in Int
    BY <1>1, <1>3 DEF DueToAll
  <2>3. p.coins[q] \in Nat /\ p.agent.coins \in Nat /\ p.walletAgent.coins \in Nat
    BY <1>1, <1>2, PartsOfPayments
  <2>4. CoinsForPayee(r, p, q) = DueTo(r, p, q) - DepositForPayee(r, p, q)
    BY <2>1, <2>3 DEF CoinsForPayee, DueTo
  <2> HIDE DEF m
  <2> QED BY <2>1, <2>2, <2>4
<1>5. ASSUME NEW q \in (1 .. n) \ DOMAIN participants
      PROVE  m[q] = 0
  <2>1. q \notin Beneficiaries(r)
    BY <1>5, Zenon DEF Beneficiaries, PayableRoots
  <2>2. Fees(r)[q] = 0
    BY <1>5, <2>1 DEF Fees
  <2>3. p.coins[q] = Fees(r)[q] * trustUnitPrice
    BY <1>1, <1>5 DEF Payments, Coins
  <2>4. p.coins[q] = 0
    BY <1>2, <2>2, <2>3
  <2> QED BY <1>1, <1>5, <2>4 DEF DueToAll, DueTo
<1>6. \A q \in 1 .. n : owner[q] \in Corporations \/ m[q] = 0
  <2>1. \A q \in DOMAIN participants : participants[q].corporation \in Corporations
    BY EntryNumbers DEF ParticipantEntries
  <2> HIDE DEF m
  <2> QED BY <1>5, <2>1
<1>7. ASSUME NEW c \in Corporations
      PROVE  PaidTo(r, p, c) + DepositedFor(r, p, c) = Sum(PartsOwnedBy(c, owner, m, n), n)
  <2> DEFINE paid == PaidCells(r, p, c)
             kept == DepositCells(r, p, c)
             all == PartsOwnedBy(c, owner, m, n)
  <2>1. /\ paid \in [1 .. n -> Int] /\ kept \in [1 .. n -> Int]
        /\ PaidTo(r, p, c) = Sum(paid, n) /\ DepositedFor(r, p, c) = Sum(kept, n)
    BY <1>1, <1>2, PartsOfCorporation
  <2>2. ASSUME NEW q \in 1 .. n
        PROVE  all[q] = paid[q] + kept[q]
    <3>1. all[q] = IF participants[q].corporation = c THEN m[q] ELSE 0
      BY DEF PartsOwnedBy
    <3>2. CASE q \in DOMAIN participants
      <4>1. /\ paid[q] = IF participants[q].corporation = c THEN CoinsForPayee(r, p, q) ELSE 0
            /\ kept[q] = IF participants[q].corporation = c THEN DepositForPayee(r, p, q) ELSE 0
        BY <3>2 DEF PaidCells, DepositCells, Has
      <4> HIDE DEF m, paid, kept, all
      <4> QED BY <1>4, <3>1, <4>1
    <3>3. CASE q \notin DOMAIN participants
      <4>1. paid[q] = 0 /\ kept[q] = 0
        BY <3>3 DEF PaidCells, DepositCells, Has
      <4>2. m[q] = 0
        BY <1>5, <3>3
      <4> HIDE DEF m, paid, kept, all
      <4> QED BY <3>1, <4>1, <4>2
    <3> QED BY <3>2, <3>3
  <2>3. all \in [1 .. n -> Int]
    BY <1>3 DEF PartsOwnedBy
  <2> HIDE DEF paid, kept, all, n
  <2>4. Sum(all, n) = Sum(paid, n) + Sum(kept, n)
    <3>1. AddsCells(paid, kept, all, n)
      BY <1>2, <2>1, <2>2, <2>3 DEF AddsCells, n
    <3> QED BY <3>1, SumPlus
  <2>5. Sum(paid, n) \in Int /\ Sum(kept, n) \in Int
    BY <1>2, <2>1, SumType
  <2> QED BY <2>1, <2>4, <2>5 DEF all
<1> HIDE DEF m, owner, n
<1>8. [c \in Corporations |-> PaidTo(r, p, c) + DepositedFor(r, p, c)]
        = SumsOwned(Corporations, owner, m, n)
  BY <1>7 DEF SumsOwned
<1>9. OverCorporations(SumsOwned(Corporations, owner, m, n)) = Sum(m, n)
  BY <1>2, <1>3, <1>6, CorporationsListed, AlongExchange DEF OverCorporations
<1> QED BY <1>1, <1>3, <1>8, <1>9

\* A session moves coins from the payer to the payees, of whichever corporations.
LEMMA SessionKeepsCoins ==
  ASSUME PInv, CoinsAddUp, NEW corp \in Corporations, NEW r, NamesPayer(r),
         PaySession(r, corp), participants[Payer(r)].corporation = corp,
         r.agent \in DOMAIN participants, r.walletAgent \in DOMAIN participants,
         UNCHANGED <<escrow, history>>
  PROVE  CoinsAddUp'
<1> DEFINE n == MaxParticipants
           f == AssetsOfAll
           paid == [c \in Corporations |->
                      PaidTo(r, Payments(r), c) + DepositedFor(r, Payments(r), c)]
           between == [c \in Corporations |-> f[c] + paid[c]]
<1>1. PICK p, missing, taken, g :
        /\ p = Payments(r) /\ missing = Missing(td[corp], p.payerDeposit)
        /\ taken = Charge(p, corp) - missing /\ g = AssetsOfAll'
  OBVIOUS
<1>2. ParticipantTypeOK /\ AccountsTyped /\ AccountsTyped'
  BY ParticipantNumbers, SessionAccounts DEF PInv
<1>3. /\ Charge(p, corp) \in Nat /\ missing \in Nat /\ taken \in Int
      /\ \A c \in Corporations : PaidTo(r, p, c) \in Nat /\ DepositedFor(r, p, c) \in Nat
  BY <1>1, <1>2, ChargeTyped, PartsOfCorporation
<1>4. OverCorporations(paid) = taken
  <2>1. OverCorporations(paid) = Summed(p.coins) + p.agent.coins + p.walletAgent.coins
    BY <1>1, PaymentsAddUp
  <2>2. Summed(p.coins) \in Nat /\ p.agent.coins \in Nat /\ p.walletAgent.coins \in Nat
    BY <1>1, <1>2, PartsOfPayments, SumNatural, ParticipantAssumption DEF Summed
  <2>3. Charge(p, corp)
          = Summed(p.coins) + p.agent.coins + p.walletAgent.coins + missing
    BY <1>1 DEF Charge
  <2> HIDE DEF paid
  <2> QED BY <1>1, <1>3, <2>1, <2>2, <2>3
<1>5. f \in [Corporations -> Int] /\ g \in [Corporations -> Int]
  BY <1>1, <1>2, AssetsTyped, AssetsTypedAfter DEF AssetsAreNumbers
<1>6. paid \in [Corporations -> Int]
  BY <1>1, <1>3
<1>7. ASSUME NEW c \in Corporations
      PROVE  g[c] = f[c] + paid[c] - At(c, corp, taken)
  <2>1. /\ Wealth(c)' = Wealth(c) + PaidTo(r, p, c) + DepositedFor(r, p, c)
                          - At(c, corp, taken)
        /\ td'[c].slashed = td[c].slashed
    BY <1>1, SessionAccounts
  <2>2. Sunk(c)' = Sunk(c)
    BY <2>1 DEF Sunk
  <2>3. Wealth(c) \in Int /\ Sunk(c) \in Int /\ At(c, corp, taken) \in Int
    BY <1>2, <1>3, AccountNumbers DEF At
  <2>4. /\ f[c] = Wealth(c) + Sunk(c) /\ g[c] = Wealth(c)' + Sunk(c)'
        /\ paid[c] = PaidTo(r, p, c) + DepositedFor(r, p, c)
    BY <1>1 DEF AssetsOfAll, AssetsOf
  <2> HIDE DEF f, paid
  <2> QED BY <1>3, <2>1, <2>2, <2>3, <2>4
<1> HIDE DEF f, paid
<1>8. /\ between \in [Corporations -> Int]
      /\ \A c \in Corporations : between[c] = f[c] + paid[c]
      /\ \A c \in Corporations : g[c] = between[c] + (IF c = corp THEN 0 - taken ELSE 0)
  BY <1>3, <1>5, <1>6, <1>7 DEF At
<1> HIDE DEF between
<1>9. /\ OverCorporations(between) = OverCorporations(f) + OverCorporations(paid)
      /\ OverCorporations(f) \in Int
  BY <1>5, <1>6, <1>8, OverPlus, OverType
<1>10. OverCorporations(g) = OverCorporations(between) + (0 - taken)
  <2>1. 0 - taken \in Int
    BY <1>3
  <2> QED BY <1>5, <1>8, <2>1, OverMoves
<1>11. OverCorporations(g) = OverCorporations(f)
  BY <1>3, <1>4, <1>9, <1>10
<1>12. BurntCells' = BurntCells
  BY SessionRows DEF BurntCells, BurntOf, Has, Raised
<1>13. /\ OverCorporations(AssetsOfAll)' = OverCorporations(AssetsOfAll)
       /\ OverCorporations(GenesisBalance)' = OverCorporations(GenesisBalance)
       /\ Sum(BurntCells, n)' = Sum(BurntCells, n)
  BY <1>1, <1>11, <1>12 DEF OverCorporations, f
<1> QED BY <1>13 DEF CoinsAddUp

-----------------------------------------------------------------------------
(* Steps of the participants and their sessions.                           *)

SessionsTyped ==
  /\ sessions = [s \in DOMAIN sessions |-> sessions[s]]
  /\ DOMAIN sessions \subseteq SessionIds
  /\ \A s \in DOMAIN sessions :
       /\ sessions[s].corporation \in Corporations /\ sessions[s].operator \in Operators
       /\ sessions[s].records \in Seq(SessionRecords) /\ sessions[s].records # <<>>
  /\ digests \subseteq Digests \ {NoDigest}

\* The participant exists, is of the corporation and is served by the operator.
ServedBy(id, corp, operator) ==
  /\ id \in DOMAIN participants
  /\ participants[id].corporation = corp /\ participants[id].vsOperator = operator

SessionsServed ==
  \A s \in DOMAIN sessions :
    \A i \in DOMAIN sessions[s].records :
      \A id \in {sessions[s].records[i].issuer, sessions[s].records[i].verifier} \ {0} :
        ServedBy(id, sessions[s].corporation, sessions[s].operator)

SInv == PInv /\ Books /\ SessionsTyped /\ SessionsServed

\* An announcement, and what the participants of a session are.
Announces(s, corp, operator, r, digest) ==
  /\ corp \in Corporations /\ operator \in Operators /\ s \in SessionIds
  /\ digest \in Digests /\ r \in SessionForms
  /\ CreateOrUpdateParticipantSession(s, corp, operator, r, digest)
  /\ UNCHANGED <<schemaVars, trustUnitPrice>>

LEMMA AnnouncedParties ==
  ASSUME PInv, NEW s, NEW corp, NEW operator, NEW r, NEW digest,
         Announces(s, corp, operator, r, digest)
  PROVE  /\ NamesPayer(r) /\ PaySession(r, corp)
         /\ participants[Payer(r)].corporation = corp
         /\ \A id \in {r.issuer, r.verifier} \ {0} :
              ServedBy(id, corp, operator) /\ IsValid(participants[id])
         /\ IsValid(participants[r.agent]) /\ IsValid(participants[r.walletAgent])
         /\ UNCHANGED <<now, participantCounter, escrow, history>>
<1>1. /\ r \in SessionForms /\ (r.issuer # 0 \/ r.verifier # 0)
      /\ r.issuer # 0 => MayExecute(r.issuer, "ISSUER", corp, operator)
      /\ r.verifier # 0 => MayExecute(r.verifier, "VERIFIER", corp, operator)
      /\ MayBeAgent(r.agent) /\ MayBeAgent(r.walletAgent)
      /\ PaySession(r, corp)
      /\ UNCHANGED <<participantCounter, escrow, history>>
  BY DEF Announces, CreateOrUpdateParticipantSession
<1>2. /\ NamesPayer(r) /\ Payer(r) \in {r.issuer, r.verifier} \ {0}
      /\ r.issuer # 0 => r.issuer \in DOMAIN participants
      /\ r.verifier # 0 => r.verifier \in DOMAIN participants
  BY <1>1, FormNames
<1>3. \A id \in {r.issuer, r.verifier} \ {0} :
        ServedBy(id, corp, operator) /\ IsValid(participants[id])
  BY <1>1, <1>2 DEF MayExecute, ServedBy
<1>4. participants[Payer(r)].corporation = corp
  BY <1>2, <1>3 DEF ServedBy
<1>5. UNCHANGED now
  BY Zenon DEF Announces, CreateOrUpdateParticipantSession,
               CheckVSOperatorAuthorizationOnParticipant
<1> QED BY <1>1, <1>2, <1>3, <1>4, <1>5 DEF MayBeAgent

LEMMA SessionStep ==
  ASSUME [SessionNext]_systemVars
  PROVE  \/ [ParticipantNext]_allVars /\ UNCHANGED sessionVars
         \/ \E s, corp, operator, r, digest : Announces(s, corp, operator, r, digest)
<1>1. CASE ParticipantNext /\ UNCHANGED sessionVars
  BY <1>1
<1>2. CASE Announcements /\ UNCHANGED <<schemaVars, trustUnitPrice>>
  BY <1>2 DEF Announcements, Announces, SessionForms
<1>3. CASE UNCHANGED systemVars
  BY <1>3 DEF systemVars
<1> QED BY <1>1, <1>2, <1>3 DEF SessionNext

LEMMA AnnouncementKeepsBooks ==
  ASSUME PInv, Books, NEW s, NEW corp, NEW operator, NEW r, NEW digest,
         Announces(s, corp, operator, r, digest)
  PROVE  PInv' /\ Books'
<1>1. /\ NamesPayer(r) /\ PaySession(r, corp)
      /\ participants[Payer(r)].corporation = corp
      /\ UNCHANGED <<now, participantCounter, escrow, history>>
      /\ corp \in Corporations /\ UNCHANGED <<schemaVars, trustUnitPrice>>
  BY AnnouncedParties DEF Announces
<1>2. AccountsTyped'
  BY <1>1, SessionAccounts
<1>3. PInv'
  BY <1>1, <1>2, SessionKeepsPInv
<1> QED BY <1>1, <1>3, SessionKeepsBooks

\* Participants keep their identity, whatever happens.
IdentitiesStay ==
  /\ DOMAIN participants \subseteq DOMAIN participants'
  /\ \A q \in DOMAIN participants : SameIdentity(participants[q], participants'[q])

LEMMA StepKeepsIdentities ==
  ASSUME PInv, [ParticipantNext]_allVars
  PROVE  IdentitiesStay
<1>1. ASSUME NEW id, Effect(id)
      PROVE  IdentitiesStay
  <2>1. Writes(id)
    BY <1>1 DEF Effect
  <2>2. /\ DOMAIN participants' = DOMAIN participants \cup {id}
        /\ \A q \in DOMAIN participants \ {id} : participants'[q] = participants[q]
    BY <2>1, WritesRows
  <2>3. id \in DOMAIN participants => SameIdentity(participants[id], participants'[id])
    BY <2>1 DEF Writes
  <2>4. ASSUME NEW q \in DOMAIN participants, q # id
        PROVE  SameIdentity(participants[q], participants'[q])
    BY <2>2, <2>4 DEF SameIdentity
  <2> QED BY <2>2, <2>3, <2>4 DEF IdentitiesStay
<1>2. CASE NoneMoves
  BY <1>2 DEF NoneMoves, Quiet, IdentitiesStay, SameIdentity
<1> QED BY <1>1, <1>2, ParticipantStep DEF OneParticipantMoves

LEMMA ServedStay ==
  ASSUME IdentitiesStay, NEW id, NEW corp, NEW operator, ServedBy(id, corp, operator)
  PROVE  ServedBy(id, corp, operator)'
BY DEF IdentitiesStay, ServedBy, SameIdentity

LEMMA AnnouncementKeepsSessions ==
  ASSUME PInv, SessionsTyped, SessionsServed,
         NEW s, NEW corp, NEW operator, NEW r, NEW digest,
         Announces(s, corp, operator, r, digest)
  PROVE  SessionsTyped' /\ SessionsServed'
<1> DEFINE before == IF Has(sessions, s) THEN sessions[s].records ELSE <<>>
           records == Append(before, r)
           session == [corporation |-> corp, operator |-> operator, records |-> records]
<1>1. /\ corp \in Corporations /\ operator \in Operators /\ s \in SessionIds
      /\ r \in SessionForms
      /\ MayAddTo(s, corp, operator) /\ RecordSession(s, corp, operator, r)
  BY DEF Announces, CreateOrUpdateParticipantSession
<1>2. r \in SessionRecords
  <2>1. DOMAIN participants \subseteq Nat
    BY ParticipantNumbers
  <2> QED BY <1>1, <2>1 DEF SessionForms, SessionRecords, Issuers, Verifiers
<1>3. before \in Seq(SessionRecords) /\ Len(before) \in Nat
  <2>1. before \in Seq(SessionRecords)
    BY DEF SessionsTyped, Has
  <2> HIDE DEF before
  <2> QED BY <2>1
<1>4. sessions' = Put(sessions, s, session)
  <2>1. Append(<<>>, r) = <<r>>
    BY <1>2
  <2>2. records = IF Has(sessions, s) THEN Append(sessions[s].records, r) ELSE <<r>>
    BY <2>1, Zenon
  <2> QED BY <1>1, <2>2 DEF RecordSession
<1>5. /\ records \in Seq(SessionRecords) /\ records # <<>>
      /\ DOMAIN records = DOMAIN before \cup {Len(before) + 1}
      /\ records[Len(before) + 1] = r
      /\ \A i \in DOMAIN before : records[i] = before[i]
  <2> HIDE DEF before
  <2>1. /\ records \in Seq(SessionRecords) /\ Len(records) = Len(before) + 1
        /\ records[Len(before) + 1] = r
        /\ DOMAIN before = 1 .. Len(before) /\ DOMAIN records = 1 .. Len(records)
    BY <1>2, <1>3
  <2>2. \A i \in 1 .. Len(before) : records[i] = before[i]
    BY <1>2, <1>3
  <2>3. records # <<>>
    <3>1. Len(<<>>) = 0
      OBVIOUS
    <3> HIDE DEF records
    <3> QED BY <1>3, <2>1, <3>1
  <2>4. 1 .. Len(before) + 1 = (1 .. Len(before)) \cup {Len(before) + 1}
    BY <1>3
  <2> QED BY <2>1, <2>2, <2>3, <2>4
<1> HIDE DEF records
<1>6. /\ session.corporation = corp /\ session.operator = operator
      /\ session.records = records
  OBVIOUS
<1> HIDE DEF session
<1>7. /\ DOMAIN sessions' = DOMAIN sessions \cup {s}
      /\ sessions'[s] = session
      /\ \A t \in DOMAIN sessions \ {s} : sessions'[t] = sessions[t]
      /\ sessions' = [t \in DOMAIN sessions' |-> sessions'[t]]
  BY <1>4, Zenon DEF Put
<1>8. digests' \subseteq Digests \ {NoDigest}
  BY DEF Announces, CreateOrUpdateParticipantSession, KeepDigest, SessionsTyped
<1>9. SessionsTyped'
  BY <1>1, <1>5, <1>6, <1>7, <1>8 DEF SessionsTyped
<1>10. IdentitiesStay
  <2>1. NamesPayer(r) /\ PaySession(r, corp)
    BY AnnouncedParties
  <2> QED BY <2>1, SessionRows DEF IdentitiesStay, Raised
<1>11. ASSUME NEW t \in DOMAIN sessions', NEW i \in DOMAIN sessions'[t].records,
              NEW id \in {sessions'[t].records[i].issuer,
                          sessions'[t].records[i].verifier} \ {0}
       PROVE  ServedBy(id, sessions'[t].corporation, sessions'[t].operator)
  <2>1. CASE t # s
    <3>1. t \in DOMAIN sessions /\ sessions'[t] = sessions[t]
      BY <1>7, <2>1
    <3> QED BY <1>11, <3>1 DEF SessionsServed
  <2>2. CASE t = s /\ i \in DOMAIN before
    <3>1. Has(sessions, s)
      BY <2>2
    <3>2. /\ before = sessions[s].records /\ s \in DOMAIN sessions
          /\ sessions[s].corporation = corp /\ sessions[s].operator = operator
      BY <1>1, <3>1 DEF MayAddTo, Has
    <3>3. sessions'[t].records[i] = sessions[s].records[i] /\ i \in DOMAIN sessions[s].records
      BY <1>5, <1>6, <1>7, <2>2, <3>2
    <3> QED BY <1>6, <1>7, <1>11, <2>2, <3>2, <3>3 DEF SessionsServed
  <2>3. CASE t = s /\ i \notin DOMAIN before
    <3>1. sessions'[t].records[i] = r
      BY <1>5, <1>6, <1>7, <1>11, <2>3
    <3> QED BY <1>6, <1>7, <1>11, <2>3, <3>1, AnnouncedParties
  <2> QED BY <2>1, <2>2, <2>3
<1>12. SessionsServed'
  BY <1>10, <1>11, ServedStay DEF SessionsServed
<1> QED BY <1>9, <1>12

LEMMA SessionsUntouched ==
  ASSUME SessionsTyped, SessionsServed, IdentitiesStay, UNCHANGED sessionVars
  PROVE  SessionsTyped' /\ SessionsServed'
<1>1. UNCHANGED <<sessions, digests>>
  BY DEF sessionVars
<1>2. SessionsTyped'
  BY <1>1 DEF SessionsTyped
<1>3. SessionsServed'
  BY <1>1, ServedStay DEF SessionsServed
<1> QED BY <1>2, <1>3

LEMMA SessionInvariant == SessionSpec => []SInv
<1>1. SessionInit => SInv
  <2> SUFFICES ASSUME SessionInit PROVE SInv
    OBVIOUS
  <2>1. PInv /\ Books
    BY ParticipantsBegin, BooksBegin DEF SessionInit
  <2>2. sessions = EmptyMap /\ digests = {} /\ DOMAIN EmptyMap = {}
    BY DEF SessionInit, EmptyMap
  <2>3. sessions = [s \in DOMAIN sessions |-> sessions[s]]
    BY <2>2 DEF EmptyMap
  <2> QED BY <2>1, <2>2, <2>3 DEF SInv, SessionsTyped, SessionsServed
<1>2. SInv /\ [SessionNext]_systemVars => SInv'
  <2> SUFFICES ASSUME SInv, [SessionNext]_systemVars PROVE SInv'
    OBVIOUS
  <2>1. PInv /\ Books /\ SessionsTyped /\ SessionsServed
    BY DEF SInv
  <2>2. CASE [ParticipantNext]_allVars /\ UNCHANGED sessionVars
    <3>1. PInv' /\ IdentitiesStay
      BY <2>1, <2>2, StepKeepsPInv, StepKeepsIdentities
    <3>2. Books'
      BY <2>1, <2>2, <3>1, StepKeepsBooks
    <3> QED BY <2>1, <2>2, <3>1, <3>2, SessionsUntouched DEF SInv
  <2>3. ASSUME NEW s, NEW corp, NEW operator, NEW r, NEW digest,
               Announces(s, corp, operator, r, digest)
        PROVE  SInv'
    BY <2>1, <2>3, AnnouncementKeepsBooks, AnnouncementKeepsSessions DEF SInv
  <2> QED BY <2>2, <2>3, SessionStep
<1> QED BY <1>1, <1>2, PTL DEF SessionSpec

\* The payer of a session is in force, so its record may start another period; of the
\* others only deposits rise.
LEMMA AnnouncementFollows ==
  ASSUME PInv, RInv, NEW s, NEW corp, NEW operator, NEW r, NEW digest,
         Announces(s, corp, operator, r, digest)
  PROVE  RInv'
<1> DEFINE payer == Payer(r)
<1>1. CheckVSOperatorAuthorizationOnParticipant(corp, operator, payer, SessionMsg)
  BY DEF Announces, CreateOrUpdateParticipantSession
<1>2. /\ NamesPayer(r) /\ PaySession(r, corp) /\ UNCHANGED now
      /\ IsValid(participants[payer])
  <2>1. payer \in {r.issuer, r.verifier} \ {0}
    BY FormNames DEF Announces, CreateOrUpdateParticipantSession
  <2> QED BY <2>1, AnnouncedParties
<1>3. Inv' /\ Inv
  BY <1>1, CheckKeepsInv DEF RInv
<1>4. /\ DOMAIN vsoaByParticipant' = DOMAIN vsoaByParticipant
      /\ \A p \in DOMAIN vsoaByParticipant : RecordKey(p)' = RecordKey(p)
      /\ RecordsStay(DOMAIN vsoaByParticipant \ {payer})
  BY <1>1, <1>3, CheckedRecords
<1>5. /\ DOMAIN participants' = DOMAIN participants
      /\ \A q \in DOMAIN participants :
           Raised(participants[q], participants'[q], DepositAdded(r, Payments(r), q))
  BY <1>2, SessionRows
<1> HIDE DEF payer
<1>6. ASSUME NEW p \in DOMAIN vsoaByParticipant'
      PROVE  RecordFollows(p)'
  <2>1. p \in DOMAIN vsoaByParticipant /\ RecordFollows(p) /\ RecordKey(p)' = RecordKey(p)
    BY <1>4, <1>6 DEF RInv
  <2>2. p \in DOMAIN participants
    BY <2>1 DEF RecordFollows
  <2>3. Raised(participants[p], participants'[p], DepositAdded(r, Payments(r), p))
    BY <1>5, <2>2
  <2>4. p = payer => participants[p].from # NoTime
    BY <1>2 DEF IsValid
  <2>5. p # payer => RecordEnd(p)' = RecordEnd(p)
    BY <1>4, <2>1 DEF RecordsStay
  <2>6. participants'[p].from = NoTime => RecordEnd(p)' \in 0 .. now'
    BY <1>2, <2>1, <2>3, <2>4, <2>5 DEF RecordFollows, Raised
  <2>7. InForce(participants[p]) => InForce(participants'[p])
    BY <2>3 DEF InForce, Raised
  <2> QED BY <1>5, <2>1, <2>2, <2>3, <2>6, <2>7 DEF RecordFollows, Raised, SameIdentity
<1> QED BY <1>3, <1>6 DEF RInv

LEMMA SessionsKeepRecords == SessionSpec => []RInv
<1>1. SessionInit => RInv
  BY RecordsBegin DEF SessionInit
<1>2. SInv /\ RInv /\ [SessionNext]_systemVars => RInv'
  <2> SUFFICES ASSUME SInv, RInv, [SessionNext]_systemVars PROVE RInv'
    OBVIOUS
  <2>1. PInv
    BY DEF SInv
  <2> QED BY <2>1, RecordsStep, AnnouncementFollows, SessionStep
<1> QED BY <1>1, <1>2, SessionInvariant, PTL DEF SessionSpec

(***************************************************************************)
(* The record of a VS operator stays one of a participant that may have    *)
(* one, also while sessions start periods of records that are over: what a *)
(* slash or a revocation took away no session brings back, and a candidate *)
(* announces none.                                                         *)
(***************************************************************************)
THEOREM SessionsKeepRecordsFollowing == SessionSpec => []RecordsFollowParticipants
<1>1. SInv => PInv
  BY DEF SInv
<1> QED BY <1>1, SessionInvariant, SessionsKeepRecords, RInvFollows, PTL

(***************************************************************************)
(* A session lengthens a record and leaves the fee grant of its operator   *)
(* as it was.  In every state a grant that lasts still serves a validated  *)
(* participant that has the operator, with the sessions of all             *)
(* corporations, the messages of all participants, time and restarts.      *)
(***************************************************************************)
THEOREM SessionsKeepFeeGrantsServing == SessionSpec => []FeeGrantsServeParticipants
<1> DEFINE G == GrantsInv /\ DOMAIN oas = {}
<1>1. SessionInit => G
  BY FeeGrantsBegin DEF SessionInit
<1>2. SInv /\ G /\ [SessionNext]_systemVars => G'
  <2> SUFFICES ASSUME SInv, G, [SessionNext]_systemVars PROVE G'
    OBVIOUS
  <2>1. CASE [ParticipantNext]_allVars
    BY <2>1, StepsCall, CallsKeepGrants, CallsKeepOperators DEF SInv
  <2>2. ASSUME NEW s, NEW corp, NEW operator, NEW r, NEW digest,
               Announces(s, corp, operator, r, digest)
        PROVE  G'
    <3>1. CheckVSOperatorAuthorizationOnParticipant(corp, operator, Payer(r), SessionMsg)
      BY <2>2 DEF Announces, CreateOrUpdateParticipantSession
    <3>2. UNCHANGED oas
      BY <3>1 DEF CheckVSOperatorAuthorizationOnParticipant, oaVars
    <3> QED BY <3>1, <3>2, CheckKeepsGrants
  <2> QED BY <2>1, <2>2, SessionStep
<1>3. SInv /\ RInv /\ G => FeeGrantsServeParticipants
  BY GrantsServe DEF SInv
<1> HIDE DEF G
<1> QED
  BY <1>1, <1>2, <1>3, SessionInvariant, SessionsKeepRecords, PTL DEF SessionSpec

(***************************************************************************)
(* The stores of x/pp and x/di have their types in every state, also once  *)
(* sessions pay: no account goes below zero in a session's transfers.      *)
(***************************************************************************)
THEOREM SessionsStayTyped == SessionSpec => []SessionTypeOK
<1>1. SInv => SessionTypeOK
  BY DEF SInv, PInv, SessionsTyped, SessionTypeOK, IsMap
<1> QED BY <1>1, SessionInvariant, PTL

(***************************************************************************)
(* In every state the balance that is asked for covers all that a session  *)
(* takes, whatever the prices, the rates, the discounts and the chain of   *)
(* validators: no transfer of csps.go fails for want of coins.             *)
(***************************************************************************)
THEOREM QuotesStayHigh == SessionSpec => []QuoteCoversCharge
<1>1. SInv => QuoteCoversCharge
  <2> SUFFICES ASSUME SInv,
                      NEW r \in [issuer : {0} \cup Issuers, verifier : {0} \cup Verifiers],
                      Payer(r) # 0
               PROVE  Charge(Payments(r), participants[Payer(r)].corporation)
                        <= TrustFees(Fees(r))
    BY DEF QuoteCoversCharge
  <2> QED BY QuoteCovers DEF SInv, PInv, NamesPayer
<1> QED BY <1>1, SessionInvariant, PTL

(***************************************************************************)
(* The trust deposits stay accounted for, coin for coin, when sessions add *)
(* to them for payees, agents and payers all over the tree: whatever a     *)
(* session put in, revoke, slash and repay find again.                     *)
(***************************************************************************)
THEOREM SessionsKeepDepositsAccounted == SessionSpec => []DepositsAccounted
<1>1. SInv => DepositsAccounted
  BY TotalsAreSums DEF SInv, Books, DepositsAccounted, Booked
<1> QED BY <1>1, SessionInvariant, PTL

LEMMA CoinsInvariant == SessionSpec => []CoinsAddUp
<1>1. SessionInit => CoinsAddUp
  BY CoinsBegin DEF SessionInit
<1>2. SInv /\ SInv' /\ CoinsAddUp /\ [SessionNext]_systemVars => CoinsAddUp'
  <2> SUFFICES ASSUME SInv, SInv', CoinsAddUp, [SessionNext]_systemVars PROVE CoinsAddUp'
    OBVIOUS
  <2>1. PInv /\ PInv'
    BY DEF SInv
  <2>2. CASE [ParticipantNext]_allVars
    BY <2>1, <2>2, StepKeepsCoins
  <2>3. ASSUME NEW s, NEW corp, NEW operator, NEW r, NEW digest,
               Announces(s, corp, operator, r, digest)
        PROVE  CoinsAddUp'
    <3>1. /\ NamesPayer(r) /\ PaySession(r, corp)
          /\ participants[Payer(r)].corporation = corp
          /\ UNCHANGED <<escrow, history>>
          /\ corp \in Corporations
      BY <2>1, <2>3, AnnouncedParties DEF Announces
    <3>2. r.agent \in DOMAIN participants /\ r.walletAgent \in DOMAIN participants
      BY <2>3 DEF Announces, SessionForms, Issuers
    <3> QED BY <2>1, <3>1, <3>2, SessionKeepsCoins
  <2> QED BY <2>2, <2>3, SessionStep
<1> QED BY <1>1, <1>2, SessionInvariant, PTL DEF SessionSpec

(***************************************************************************)
(* No coin is lost and none appears, over any number of onboardings,       *)
(* renewals, cancellations, slashes, repays, reclaims, restarts and        *)
(* sessions, and of corporations: the accounts of corporations, the escrow *)
(* and the account of x/td hold what there was at genesis, less what was   *)
(* slashed and burned.                                                     *)
(***************************************************************************)
THEOREM CoinsStayConserved == SessionSpec => []CoinsConserved
<1>1. PInv /\ CoinsAddUp => CoinsConserved
  BY CoinsAreConserved
<1>2. SInv => PInv
  BY DEF SInv
<1> QED BY <1>1, <1>2, SessionInvariant, CoinsInvariant, PTL

(***************************************************************************)
(* A session is one operator's, for good: all its records are of           *)
(* participants of its corporation that this operator serves.              *)
(***************************************************************************)
THEOREM SessionsStayOfOneOperator == SessionSpec => []SessionsOfOneOperator
<1>1. SInv => SessionsOfOneOperator
  BY DEF SInv, SessionsServed, SessionsOfOneOperator, ServedBy
<1> QED BY <1>1, SessionInvariant, PTL

(***************************************************************************)
(* The handler and the query agree on whom a session pays, for any tree of *)
(* participants, unless the issuer's schema has an open role.              *)
(***************************************************************************)
THEOREM HandlerPaysWhomTheQueryFinds == SessionSpec => []PaysWhomTheQueryFinds
<1>1. SInv => PaysWhomTheQueryFinds
  <2> SUFFICES ASSUME SInv,
                      NEW r \in [issuer : {0} \cup Issuers, verifier : {0} \cup Verifiers],
                      \A id \in {r.issuer, r.verifier} \ {0} : IsValid(participants[id]),
                      ~PaysRootOnly(r, schemas[SchemaOfRecord(r)])
               PROVE  Beneficiaries(r) = FoundByQuery(r)
    BY DEF PaysWhomTheQueryFinds
  <2>1. ASSUME NEW q \in DOMAIN participants
        PROVE  IssuerEarns(r, q)
                 <=> q = r.issuer /\ r.verifier # 0 /\ Payable(participants[q])
    <3>1. q = r.issuer => q # 0 /\ IsValid(participants[q])
      BY <2>1, EntryNumbers DEF SInv
    <3> QED BY <3>1 DEF IssuerEarns, Payable, IsValid
  <2> QED BY <2>1, Zenon DEF Beneficiaries, FoundByQuery
<1> QED BY <1>1, SessionInvariant, PTL

(***************************************************************************)
(* A participant that is slashed, or was revoked in an earlier block, has  *)
(* its deposit raised by nothing but its own repay, whatever step is       *)
(* taken: it is left out of every session below it or that names it.       *)
(***************************************************************************)
THEOREM OutOfForceStayWithout == SessionSpec => OutOfForceEarnNothing
<1> DEFINE EarnsNothing ==
             \A id \in DOMAIN participants :
               LET e == participants[id]
                   f == participants'[id]
               IN  OutOfForce(e) =>
                     f.deposit - e.deposit <= f.repaidDeposit - e.repaidDeposit
<1>1. ASSUME SInv, [SessionNext]_systemVars
      PROVE  EarnsNothing
  <2>1. PInv
    BY <1>1 DEF SInv
  <2>2. ASSUME NEW id, NEW q \in DOMAIN participants, Effect(id),
               OutOfForce(participants[q])
        PROVE  participants'[q].deposit - participants[q].deposit
                 <= participants'[q].repaidDeposit - participants[q].repaidDeposit
    <3>1. CASE q = id
      BY <2>2, <3>1 DEF Effect, KeepsOutOfForce
    <3>2. CASE q # id
      <4>1. participants'[q] = participants[q]
        BY <2>1, <2>2, <3>2, WritesRows DEF Effect
      <4>2. participants[q].deposit \in Nat /\ participants[q].repaidDeposit \in Nat
        BY <2>1, EntryNumbers
      <4> QED BY <4>1, <4>2
    <3> QED BY <3>1, <3>2
  <2>3. CASE NoneMoves
    BY <2>1, <2>3, EntryNumbers DEF NoneMoves, Quiet
  <2>4. ASSUME NEW s, NEW corp, NEW operator, NEW r, NEW digest,
               Announces(s, corp, operator, r, digest),
               NEW q \in DOMAIN participants, OutOfForce(participants[q])
        PROVE  participants'[q].deposit - participants[q].deposit
                 <= participants'[q].repaidDeposit - participants[q].repaidDeposit
    <3>1. DepositAdded(r, Payments(r), q) = 0
      BY <2>1, <2>4, AnnouncedParties, OutOfForceGetNothing
    <3>2. Raised(participants[q], participants'[q], 0)
      BY <2>1, <2>4, <3>1, AnnouncedParties, SessionRows
    <3> QED BY <2>1, <3>2, EntryNumbers DEF Raised
  <2> QED BY <1>1, <2>1, <2>2, <2>3, <2>4, SessionStep, ParticipantStep
         DEF OneParticipantMoves
<1>2. SInv /\ [SessionNext]_systemVars => [EarnsNothing]_systemVars
  BY <1>1
<1> QED BY <1>2, SessionInvariant, PTL DEF SessionSpec, OutOfForceEarnNothing
=============================================================================
