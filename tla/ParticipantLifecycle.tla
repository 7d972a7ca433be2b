------------------------ MODULE ParticipantLifecycle ------------------------
(***************************************************************************)
(* The x/pp module: the participants of the credential schemas, from the   *)
(* onboarding process a candidate runs with its validator (start, renew,   *)
(* validate, cancel) through the changes of its window, to its revocation, *)
(* slash and repay.                                                        *)
(*                                                                         *)
(* Its handlers move coins between the corporations and the escrow (the    *)
(* account of x/pp), adjust the trust deposits of x/td with the operators  *)
(* of TrustLedger at a share value of one, and keep the records of VS      *)
(* operators with the actions of Delegation.  All of it happens in one     *)
(* transaction.  Every message is signed by its corporation: which         *)
(* operators may sign it instead is decided in Delegation.                 *)
(*                                                                         *)
(* In between, the controllers of the ecosystems change their schemas      *)
(* (Schemas), governance the price of a trust unit, and the messages of    *)
(* x/td the trust deposits: governance slashes one, its corporation repays *)
(* or reclaims what is claimable, and x/pp is told of none of it.          *)
(*                                                                         *)
(* The fields no condition reads (digest, created, modified, adjusted) are *)
(* left out; slashed and repaid are read only for being set.  The fees and *)
(* the discounts of a participant are its terms.                           *)
(***************************************************************************)
EXTENDS Delegation, TrustLedger, Sums, Schemas

CONSTANTS
  Geneses,           \* what a chain may start with: schemas, roots, a price
  Terms,             \* terms a message may name
  DiscountScale,     \* a discount of the whole fee, 10000 in the code
  Prices,            \* prices of a trust unit that governance may set
  TrustDepositRate,  \* parameter of x/td: part of the fees for trust deposits, a decimal
  Dids,              \* DIDs
  DidsOf,            \* by corporation, those its creating messages may name
  Amounts,           \* amounts of a slash or a repay
  Froms, Untils,     \* times a message may name, NoTime for none
  Requests,          \* VS operator authorizations a message may ask for
  GenesisBalance,    \* coins of each corporation at genesis
  MaxParticipants,   \* bound on the participants
  MaxDeposit,        \* bound on a participant's deposit
  MaxSlashed,        \* bound on what is slashed of a participant in all
  MaxCancelled,      \* bound on what cancels release to a corporation in all
  GovernanceSlashes, \* amounts of a slash by governance
  MaxGovernanceSlashed, \* bound on what governance slashes of a corporation in all
  MaxReclaimed,      \* bound on what a corporation reclaims in all
  MaxWithTdMessages, \* bound on the participants once there are messages of x/td
  MaxExpiration      \* bound on the expirations of onboarding processes

ValidateMsg == "MsgSetParticipantOPToValidated"
TriggerMsg == "MsgTriggerResolver"

Roles == ValidatedRoles \cup {"ECOSYSTEM"}

FeeTerms ==
  [validationFees : Nat, issuanceFees : Nat, verificationFees : Nat,
   issuanceDiscount : 0 .. DiscountScale, verificationDiscount : 0 .. DiscountScale]

\* A root of the schemas, as a genesis names it.
RootForms(given) ==
  [schema : DOMAIN given, did : Dids, operator : Operators,
   from : Nat \ {0}, until : Nat, terms : FeeTerms]

StartsBeforeTheEndOf(e, f) == f.until = NoTime \/ e.from < f.until

\* A genesis of which the messages could have made each part: no two roots of a
\* schema are there at one time.
IsGenesis(g) ==
  /\ \E n \in 0 .. MaxSchemas : g.schemas \in [1 .. n -> CredentialSchemas]
  /\ \E n \in 0 .. MaxParticipants : g.roots \in [1 .. n -> RootForms(g.schemas)]
  /\ \A p, q \in DOMAIN g.roots :
       p # q /\ g.roots[p].schema = g.roots[q].schema =>
         ~(/\ StartsBeforeTheEndOf(g.roots[p], g.roots[q])
           /\ StartsBeforeTheEndOf(g.roots[q], g.roots[p]))
  /\ g.price \in Nat \ {0}

ASSUME ParticipantAssumption ==
  /\ IsFiniteSet(Corporations)
  /\ \A g \in Geneses : IsGenesis(g)
  /\ \A e \in Ecosystems : ControllerOf[e] \in Corporations
  /\ DiscountScale \in Nat \ {0}
  /\ Prices \subseteq Nat \ {0}
  /\ DidsOf \in [Corporations -> SUBSET Dids]
  /\ TrustDepositRate \in 0 .. PREC
  /\ Terms \subseteq FeeTerms
  /\ Amounts \subseteq Nat
  /\ Froms \subseteq Nat /\ Untils \subseteq Nat
  /\ GenesisBalance \in [Corporations -> Nat]
  /\ MaxParticipants \in Nat /\ Participants = 1 .. MaxParticipants
  /\ GovernanceSlashes \subseteq Nat
  /\ MaxWithTdMessages \in 0 .. MaxParticipants
  /\ {MaxDeposit, MaxSlashed, MaxCancelled, MaxGovernanceSlashed, MaxReclaimed,
      MaxExpiration} \subseteq Nat

ASSUME RequestAssumption ==
  Requests \subseteq
    [msgTypes : RecordMsgTypes \cup {{}}, withFeegrant : BOOLEAN, period : Nat]

VARIABLES
  participants,        \* Participant, by id
  participantCounter,  \* ParticipantCounter, the last id
  td,                  \* TrustDeposit, by corporation
  balance,             \* coins of each corporation
  escrow,              \* coins of the x/pp account
  trustUnitPrice,      \* parameter of x/ec
  history              \* by corporation, what happened to its trust deposit

ppVars == <<participants, participantCounter, td, balance, escrow, history>>
allVars == <<vars, schemaVars, ppVars, trustUnitPrice>>

(***************************************************************************)
(* Kept to state the properties: what cancels released, what the           *)
(* corporation reclaimed, what it repaid of a slash by governance (and was *)
(* burned), and the outstanding slash that restarts forgot.                *)
(***************************************************************************)
Histories == [cancelled : Nat, reclaimed : Nat, repaid : Nat, forgotten : Nat]

-----------------------------------------------------------------------------
(* What the handlers ask of participants.                                  *)

\* The pairs <<role, role of its validator>> a mode has for a role and its grantor.
OnboardingPairs(mode, role, grantor) ==
  CASE mode = "OPEN" -> {}
    [] mode = "ECOSYSTEM" -> {<<role, "ECOSYSTEM">>}
    [] mode = "GRANTOR" -> {<<role, grantor>>, <<grantor, "ECOSYSTEM">>}

\* validateParticipantRoleCombination.
RoleCombinations(cs) ==
  OnboardingPairs(cs.issuerMode, "ISSUER", "ISSUER_GRANTOR")
    \cup OnboardingPairs(cs.verifierMode, "VERIFIER", "VERIFIER_GRANTOR")
    \cup {<<"HOLDER", "ISSUER">> : m \in {cs.verifierMode} \ {"OPEN"}}

SchemaOf(e) == schemas[e.schema]

\* Neither revoked nor slashed nor repaid; the window is not looked at.
InForce(e) == e.revoked = NoTime /\ ~e.slashed /\ ~e.repaid

\* IsValidParticipant: a revoked participant is valid to the end of the block.
IsValid(e) ==
  /\ ~e.repaid /\ ~e.slashed
  /\ e.revoked # NoTime => now <= e.revoked
  /\ NotExpired(e.until, now)
  /\ e.from # NoTime /\ e.from <= now

SameContext(e, s, role, validator, corp) ==
  /\ e.schema = s /\ e.role = role
  /\ e.validator = validator /\ e.corporation = corp

OverlapsUnlessLater(e, from, until) ==   \* mutant: a window without end has an end
  e.until > from \/ (until # NoTime /\ e.from < until)

\* The four overlap checks: what a participant e leaves no room for.  Not all of
\* them pass over an e without a start, but where they differ it has one.
Overlaps(e, from, until) ==
  e.until = NoTime \/ e.until > from \/ (until # NoTime /\ e.from < until)

RoomFor(id, s, role, validator, corp, from, until) ==
  \A q \in DOMAIN participants \ {id} :
    LET e == participants[q]
    IN  SameContext(e, s, role, validator, corp) /\ InForce(e) /\ e.from # NoTime
          => ~Overlaps(e, from, until)

\* assertDIDCorporationConsistent: a DID belongs to one corporation.
DidConsistent(did, corp) ==
  \A q \in DOMAIN participants :
    participants[q].did = did => participants[q].corporation = corp

\* checkValidatorAncestorOption: the validators of e, up to the root.
Ancestors(e) ==
  LET up[n \in 0 .. MaxParticipants] ==
        IF n = 0 THEN {e.validator} \ {0}
        ELSE LET below == up[n - 1]
             IN  below \cup ({participants[q].validator : q \in below} \ {0})
  IN  up[MaxParticipants]

ByValidatorAncestor(corp, e) ==
  \E q \in Ancestors(e) :
    IsValid(participants[q]) /\ participants[q].corporation = corp

\* checkEcosystemControllerOption.
ByEcosystemController(corp, e) == Controls(corp, e.schema)

-----------------------------------------------------------------------------
(* What the handlers do to the stores and the accounts.                    *)

Update(id, e) == participants' = Put(participants, id, e)

NewId == participantCounter + 1

Create(e) ==
  /\ Update(NewId, e)
  /\ participantCounter' = NewId

NoTerms ==
  [validationFees |-> 0, issuanceFees |-> 0, verificationFees |-> 0,
   issuanceDiscount |-> 0, verificationDiscount |-> 0]

NewParticipant(s, role, did, corp, validator, operator) ==
  [schema |-> s, role |-> role, did |-> did, corporation |-> corp, validator |-> validator,
   vsOperator |-> operator,
   from |-> NoTime, until |-> NoTime, terms |-> NoTerms, deposit |-> 0,
   opState |-> "NONE", opExp |-> NoTime, opCurrentFees |-> 0, opCurrentDeposit |-> 0,
   opValidatorDeposit |-> 0, revoked |-> NoTime, slashed |-> FALSE, repaid |-> FALSE,
   slashedDeposit |-> 0, repaidDeposit |-> 0]

\* A root, with the window and the fees it names.
Root(corp, s, did, operator, from, until, terms) ==
  [NewParticipant(s, "ECOSYSTEM", did, corp, 0, operator) EXCEPT
     !.from = from, !.until = until, !.terms = terms]

RootOf(g, schema) ==
  Root(ControllerOf[schema.ecosystem], g.schema, g.did, g.operator, g.from, g.until,
       g.terms)

ParticipantInit ==
  /\ Init
  /\ \E g \in Geneses :
       /\ SchemaInit(g.schemas)
       /\ participants =
            [id \in DOMAIN g.roots |-> RootOf(g.roots[id], g.schemas[g.roots[id].schema])]
       /\ trustUnitPrice = g.price
  /\ participantCounter = LastId(participants)
  /\ td = [c \in Corporations |-> NoEntry]
  /\ balance = GenesisBalance
  /\ escrow = 0
  /\ history = [c \in Corporations |->
                  [cancelled |-> 0, reclaimed |-> 0, repaid |-> 0, forgotten |-> 0]]

\* vsoaPermittedMsgTypes; for a root, the check of its own message.
PermittedMsgTypes(role) ==
  CASE role = "HOLDER" -> {TriggerMsg}
    [] role = "VERIFIER" -> {SessionMsg}
    [] role = "ISSUER" -> {SessionMsg, ValidateMsg}
    [] role \in {"ISSUER_GRANTOR", "VERIFIER_GRANTOR", "ECOSYSTEM"} -> {ValidateMsg}

\* The record a creating message asks for, unless it lists no message types.
GrantRecord(corp, role, operator, request, expiration) ==
  IF request.msgTypes = {} THEN UNCHANGED vars
  ELSE /\ request.msgTypes \subseteq PermittedMsgTypes(role)
       /\ expiration # NoTime
       /\ GrantVSOperatorAuthorization(corp, operator, NewId,
            [msgTypes |-> request.msgTypes, withFeegrant |-> request.withFeegrant,
             expiration |-> expiration, period |-> request.period])

SyncRecord(id, until) ==
  IF until = NoTime THEN UNCHANGED vars
  ELSE UpdateVSOperatorAuthorizationExpiration(id, until)

RecordKept(id, e) == UNCHANGED vars      \* mutant: the record outlives the participant

\* Revoke and slash take the record of an issuer or a verifier only.
RevokeRecord(id, e) ==
  IF e.role \in {"ISSUER", "VERIFIER"} THEN RevokeVSOperatorAuthorization(id)
  ELSE UNCHANGED vars

\* AdjustTrustDeposit(+deposit), which is not called for 0, and fees to the escrow.
PayDepositAndFees(corp, deposit, fees) ==
  LET due == Missing(td[corp], deposit) + fees
  IN  /\ deposit > 0 => CanIncrease(td[corp], deposit, PREC)
      /\ balance[corp] >= due
      /\ td' = [td EXCEPT ![corp] = Increased(@, deposit, PREC)]
      /\ balance' = [balance EXCEPT ![corp] = @ - due]
      /\ escrow' = escrow + fees

\* AdjustTrustDeposit(-deposit), which is not called for 0.
ReleaseDeposit(corp, deposit) ==
  /\ deposit > 0 => CanDecrease(td[corp], deposit)
  /\ td' = [td EXCEPT ![corp] = Decreased(@, deposit)]

CorporationList == Listing(Corporations)

OverCorporations(f) == SumAlong(f, CorporationList, Cardinality(Corporations))

\* The coins of the x/td account; that they are is LedgerEquation of TrustDeposit.
DepositAccount ==
  OverCorporations([c \in Corporations |->
    td[c].deposit + td[c].slashed + history[c].forgotten - history[c].reclaimed])

\* validationTrustDepositInDenomAmount.
TrustDepositOf(fees) == (fees * TrustDepositRate) \div PREC

\* What a validator asks of a candidate, in coins.
ValidationFeesOf(v) == v.terms.validationFees * trustUnitPrice

-----------------------------------------------------------------------------
(* The onboarding process.                                                 *)

StartParticipantOP(corp, validator, role, did, operator, request) ==
  LET v == participants[validator]
      fees == ValidationFeesOf(v)
      deposit == TrustDepositOf(fees)
  IN  /\ IsValid(v)
      /\ <<role, v.role>> \in RoleCombinations(SchemaOf(v))
      /\ \A q \in DOMAIN participants :
           SameContext(participants[q], v.schema, role, validator, corp) =>
             participants[q].opState \notin {"PENDING", "VALIDATED"}
      /\ DidConsistent(did, corp)
      /\ PayDepositAndFees(corp, deposit, fees)
      /\ Create([NewParticipant(v.schema, role, did, corp, validator, operator) EXCEPT
                   !.deposit = deposit, !.opState = "PENDING",
                   !.opCurrentFees = fees, !.opCurrentDeposit = deposit])
      /\ GrantRecord(corp, role, operator, request, now)
      /\ UNCHANGED history

MayRenew(corp, e) == e.corporation = corp /\ e.opState = "VALIDATED"

RenewParticipantOP(corp, id) ==
  LET e == participants[id]
      v == participants[e.validator]
      fees == ValidationFeesOf(v)
      deposit == TrustDepositOf(fees)
  IN  /\ MayRenew(corp, e)
      /\ IsValid(e) /\ IsValid(v)
      /\ e.deposit + deposit <= MaxDeposit
      /\ PayDepositAndFees(corp, deposit, fees)
      /\ Update(id, [e EXCEPT !.opState = "PENDING", !.deposit = @ + deposit,
                              !.opCurrentFees = fees, !.opCurrentDeposit = deposit])
      /\ UNCHANGED <<participantCounter, history, vars>>

FeesAtThePriceOfNow(e) ==             \* mutant: what the fees would be now
  ValidationFeesOf(participants[e.validator])

\* What the escrow holds for a process: the fees of the day it was asked for.
FeesInEscrow(e) == e.opCurrentFees

\* calculateVPExp: a renewal counts from the expiration, not from now.
ExpirationOf(e) ==
  LET period == SchemaOf(e).period[e.role]
  IN  IF period = 0 THEN NoTime
      ELSE IF e.opExp = NoTime THEN now + period ELSE e.opExp + period

UntilAfterNow(e, until, opExp) ==     \* mutant: the new expiration is not looked at
  until = NoTime \/ until > (IF e.until = NoTime THEN now ELSE e.until)

MayEndAt(e, until, opExp) ==
  \/ until = NoTime
  \/ /\ until > (IF e.until = NoTime THEN now ELSE e.until)
     /\ NotExpired(opExp, until - 1)

\* The discounts a first validation may give: those on issuance to issuers and
\* their grantors, those on verification to verifiers and theirs, in a schema that
\* has a process for them; below a grantor with a discount, up to the grantor's.
DiscountAllowed(e, mode, role, grantor, discount, validatorDiscount) ==
  discount > 0 =>
    \/ mode = "GRANTOR" /\ e.role = grantor
    \/ /\ mode = "GRANTOR" /\ e.role = role
       /\ validatorDiscount > 0 => discount <= validatorDiscount
    \/ mode = "ECOSYSTEM" /\ e.role = role

TermsAllowed(e, v, terms) ==
  IF e.from # NoTime THEN terms = e.terms
  ELSE /\ DiscountAllowed(e, SchemaOf(e).issuerMode, "ISSUER", "ISSUER_GRANTOR",
                          terms.issuanceDiscount, v.terms.issuanceDiscount)
       /\ DiscountAllowed(e, SchemaOf(e).verifierMode, "VERIFIER", "VERIFIER_GRANTOR",
                          terms.verificationDiscount, v.terms.verificationDiscount)

SetParticipantOPToValidated(corp, id, until, terms) ==
  LET e == participants[id]
      v == participants[e.validator]
      opExp == ExpirationOf(e)
      end == IF until = NoTime THEN opExp ELSE until
      from == IF e.from = NoTime THEN now ELSE e.from
      due == Missing(td[corp], e.opCurrentDeposit)
  IN  /\ e.opState = "PENDING"
      /\ TermsAllowed(e, v, terms)
      /\ opExp <= MaxExpiration
      /\ MayEndAt(e, until, opExp)
      /\ IsValid(v) /\ v.corporation = corp
      /\ RoomFor(id, e.schema, e.role, e.validator, e.corporation, from, end)
      /\ e.slashed => e.repaid
      /\ e.opCurrentDeposit > 0 => CanIncrease(td[corp], e.opCurrentDeposit, PREC)
      /\ balance[corp] + FeesInEscrow(e) >= due
      /\ escrow >= FeesInEscrow(e)
      /\ escrow' = escrow - FeesInEscrow(e)
      /\ balance' = [balance EXCEPT ![corp] = @ + FeesInEscrow(e) - due]
      /\ td' = [td EXCEPT ![corp] = Increased(@, e.opCurrentDeposit, PREC)]
      /\ Update(id, [e EXCEPT !.opState = "VALIDATED", !.opExp = opExp, !.until = end,
                              !.from = from, !.terms = terms,
                              !.opValidatorDeposit = @ + e.opCurrentDeposit,
                              !.opCurrentFees = 0, !.opCurrentDeposit = 0])
      /\ SyncRecord(id, end)
      /\ UNCHANGED <<participantCounter, history>>

CancelAnyPending(corp, e) ==          \* mutant: the slash is not looked at
  e.corporation = corp /\ e.opState = "PENDING"

MayCancel(corp, e) ==
  /\ e.corporation = corp
  /\ e.opState = "PENDING"
  /\ e.slashed => e.repaid

CancelledKeepingFees(e) ==            \* mutant: the fees stay due
  [e EXCEPT !.opState = IF e.opExp = NoTime THEN "TERMINATED" ELSE "VALIDATED",
            !.opCurrentDeposit = 0]

\* The deposit of the participant is not lowered.
Cancelled(e) ==
  [e EXCEPT !.opState = IF e.opExp = NoTime THEN "TERMINATED" ELSE "VALIDATED",
            !.opCurrentFees = 0, !.opCurrentDeposit = 0]

CancelParticipantOPLastRequest(corp, id) ==
  LET e == participants[id]
  IN  /\ MayCancel(corp, e)
      /\ escrow >= FeesInEscrow(e)
      /\ escrow' = escrow - FeesInEscrow(e)
      /\ balance' = [balance EXCEPT ![corp] = @ + FeesInEscrow(e)]
      /\ history[corp].cancelled + e.opCurrentDeposit <= MaxCancelled
      /\ ReleaseDeposit(corp, e.opCurrentDeposit)
      /\ Update(id, Cancelled(e))
      /\ IF e.opExp = NoTime THEN RevokeVSOperatorAuthorization(id) ELSE UNCHANGED vars
      /\ history' = [history EXCEPT ![corp].cancelled = @ + e.opCurrentDeposit]
      /\ UNCHANGED participantCounter

-----------------------------------------------------------------------------
(* Participants without an onboarding process.                             *)

CreateRootParticipant(corp, s, did, from, until, terms, operator, request) ==
  /\ Controls(corp, s)
  /\ DidConsistent(did, corp)
  /\ terms.issuanceDiscount = 0 /\ terms.verificationDiscount = 0
  /\ from > now
  /\ NotExpired(until, from)
  /\ RoomFor(NewId, s, "ECOSYSTEM", 0, corp, from, until)
  /\ Create(Root(corp, s, did, operator, from, until, terms))
  /\ GrantRecord(corp, "ECOSYSTEM", operator, request, until)
  /\ UNCHANGED <<td, balance, escrow, history>>

\* An ISSUER or a VERIFIER under a root that is or will be in effect.
SelfCreateParticipant(corp, validator, role, did, from, until, terms, op, request) ==
  LET v == participants[validator]
      start == IF from = NoTime THEN now ELSE from
  IN  /\ v.role = "ECOSYSTEM" /\ InForce(v) /\ NotExpired(v.until, now)
      /\ from # NoTime => from > now /\ from >= v.from /\ NotExpired(v.until, from)
      /\ until = NoTime => v.until = NoTime
      /\ until # NoTime => until > start /\ NotExpired(v.until, until - 1)
      /\ \/ /\ role = "ISSUER" /\ SchemaOf(v).issuerMode = "OPEN"
            /\ terms = [NoTerms EXCEPT !.validationFees = terms.validationFees,
                                       !.verificationFees = terms.verificationFees]
         \/ role = "VERIFIER" /\ SchemaOf(v).verifierMode = "OPEN" /\ terms = NoTerms
      /\ DidConsistent(did, corp)
      /\ RoomFor(NewId, v.schema, role, validator, corp, start, until)
      /\ Create([NewParticipant(v.schema, role, did, corp, validator, op) EXCEPT
                   !.from = start, !.until = until, !.terms = terms])
      /\ GrantRecord(corp, role, op, request, until)
      /\ UNCHANGED <<td, balance, escrow, history>>

-----------------------------------------------------------------------------
(* Changes to a participant.                                               *)

\* Under a root the participant moves its own end, without regard to opExp.
MayMoveEnd(corp, e, until) ==
  \/ e.role = "ECOSYSTEM" /\ e.corporation = corp
  \/ /\ e.role # "ECOSYSTEM"
     /\ IsValid(participants[e.validator])
     /\ \/ participants[e.validator].role = "ECOSYSTEM" /\ e.corporation = corp
        \/ /\ participants[e.validator].role # "ECOSYSTEM"
           /\ NotExpired(e.opExp, until - 1)
           /\ participants[e.validator].corporation = corp

\* The record is given the end the participant had before.
SetParticipantEffectiveUntil(corp, id, until) ==
  LET e == participants[id]
  IN  /\ IsValid(e)
      /\ until > now
      /\ MayMoveEnd(corp, e, until)
      /\ RoomFor(id, e.schema, e.role, e.validator, e.corporation, e.from, until)
      /\ Update(id, [e EXCEPT !.until = until])
      /\ SyncRecord(id, e.until)
      /\ UNCHANGED <<participantCounter, td, balance, escrow, history>>

RevokeParticipant(corp, id) ==
  LET e == participants[id]
  IN  /\ IsValid(e)
      /\ \/ ByValidatorAncestor(corp, e)
         \/ ByEcosystemController(corp, e)
         \/ corp = e.corporation
      /\ ReleaseDeposit(e.corporation, e.deposit)
      /\ Update(id, [e EXCEPT !.deposit = 0, !.revoked = now])
      /\ RevokeRecord(id, e)
      /\ UNCHANGED <<participantCounter, balance, escrow, history>>

SlashAnyAmount(corp, e, amount) ==    \* mutant: the deposit is not looked at
  ByValidatorAncestor(corp, e) \/ ByEcosystemController(corp, e)

MaySlash(corp, e, amount) ==
  /\ amount <= e.deposit
  /\ ByValidatorAncestor(corp, e) \/ ByEcosystemController(corp, e)

SlashParticipantTrustDeposit(corp, id, amount) ==
  LET e == participants[id]
  IN  /\ MaySlash(corp, e, amount)
      /\ e.slashedDeposit + amount <= MaxSlashed
      /\ CanBurn(td[e.corporation], amount)
      /\ DepositAccount >= amount
      /\ td' = [td EXCEPT ![e.corporation] = Burned(@, amount, PREC)]
      /\ Update(id, [e EXCEPT !.slashed = TRUE, !.slashedDeposit = @ + amount,
                              !.deposit = @ - amount])
      /\ RevokeRecord(id, e)
      /\ UNCHANGED <<participantCounter, balance, escrow, history>>

RepaidWithoutDeposit(e, amount) ==    \* mutant: the deposit is not restored
  [e EXCEPT !.repaidDeposit = @ + amount,
            !.repaid = @ \/ e.repaidDeposit + amount >= e.slashedDeposit]

RepaidParticipant(e, amount) ==
  [e EXCEPT !.repaidDeposit = @ + amount, !.deposit = @ + amount,
            !.repaid = @ \/ e.repaidDeposit + amount >= e.slashedDeposit]

RepayParticipantSlashedTrustDeposit(corp, id, amount) ==
  LET e == participants[id]
  IN  /\ e.corporation = corp
      /\ e.slashed
      /\ amount > 0 /\ amount <= e.slashedDeposit - e.repaidDeposit
      /\ balance[corp] >= amount
      /\ PayDepositAndFees(corp, amount, 0)
      /\ Update(id, RepaidParticipant(e, amount))
      /\ UNCHANGED <<participantCounter, history, vars>>

-----------------------------------------------------------------------------
(* The messages of x/td.                                                   *)

ReclaimTrustDepositYield(corp) ==
  LET claimed == td[corp].claimable
  IN  /\ CanReclaim(td[corp])
      /\ DepositAccount >= claimed
      /\ history[corp].reclaimed + claimed <= MaxReclaimed
      /\ td' = [td EXCEPT ![corp] = Reclaimed(@, PREC)]
      /\ balance' = [balance EXCEPT ![corp] = @ + claimed]
      /\ history' = [history EXCEPT ![corp].reclaimed = @ + claimed]
      /\ UNCHANGED <<participants, participantCounter, escrow>>

SlashedByGovernance(corp) ==
  td[corp].slashed + history[corp].repaid + history[corp].forgotten

SlashTrustDeposit(corp, amount) ==
  /\ CanSlash(td[corp], amount)
  /\ SlashedByGovernance(corp) + amount <= MaxGovernanceSlashed
  /\ td' = [td EXCEPT ![corp] = Slashed(@, amount, PREC)]
  /\ UNCHANGED <<participants, participantCounter, balance, escrow, history>>

RepaySlashedTrustDeposit(corp) ==
  LET amount == td[corp].slashed
  IN  /\ CanRepay(td[corp])
      /\ balance[corp] >= amount
      /\ td' = [td EXCEPT ![corp] = Repaid(@, PREC)]
      /\ balance' = [balance EXCEPT ![corp] = @ - amount]
      /\ history' = [history EXCEPT ![corp].repaid = @ + amount]
      /\ UNCHANGED <<participants, participantCounter, escrow>>

-----------------------------------------------------------------------------
(* Governance, blocks, restarts.                                           *)

UpdateTrustUnitPrice(price) ==
  /\ trustUnitPrice' = price
  /\ UNCHANGED <<vars, schemaVars, ppVars>>

TickParticipants == Tick /\ UNCHANGED <<schemaVars, ppVars, trustUnitPrice>>

\* The genesis of x/pp and x/ec has all that is modelled of them here; that of
\* x/td leaves out what was slashed and repaid.
RestartChain ==
  /\ RestartFromGenesis /\ SchemasFromGenesis
  /\ td' = [c \in Corporations |-> Exported(td[c])]
  /\ history' = [c \in Corporations |->
                   [history[c] EXCEPT !.forgotten = @ + td[c].slashed]]
  /\ UNCHANGED <<participants, participantCounter, balance, escrow, trustUnitPrice>>

NoTdMessages ==
  \A corp \in Corporations :
    history[corp].reclaimed = 0 /\ SlashedByGovernance(corp) = 0

Creations(corp) ==
  /\ NewId <= (IF NoTdMessages THEN MaxParticipants ELSE MaxWithTdMessages)
  /\ \E did \in DidsOf[corp], operator \in Operators, request \in Requests :
       \/ \E s \in DOMAIN schemas, from \in Froms, until \in Untils, terms \in Terms :
            CreateRootParticipant(corp, s, did, from, until, terms, operator, request)
       \/ \E id \in DOMAIN participants, role \in ValidatedRoles :
            \/ StartParticipantOP(corp, id, role, did, operator, request)
            \/ \E from \in Froms, until \in Untils, terms \in Terms \cup {NoTerms} :
                 SelfCreateParticipant(corp, id, role, did, from, until, terms, operator,
                                       request)

Messages(corp, id) ==
  \/ RenewParticipantOP(corp, id)
  \/ \E until \in Untils, terms \in Terms :
       SetParticipantOPToValidated(corp, id, until, terms)
  \/ CancelParticipantOPLastRequest(corp, id)
  \/ \E until \in Untils : SetParticipantEffectiveUntil(corp, id, until)
  \/ RevokeParticipant(corp, id)
  \/ \E amount \in Amounts :
       \/ SlashParticipantTrustDeposit(corp, id, amount)
       \/ RepayParticipantSlashedTrustDeposit(corp, id, amount)

ParticipantMessages ==
  \E corp \in Corporations :
    \/ Creations(corp)
    \/ \E id \in DOMAIN participants : Messages(corp, id)

DepositMessages ==
  /\ participantCounter <= MaxWithTdMessages
  /\ \E corp \in Corporations :
       \/ ReclaimTrustDepositYield(corp)
       \/ \E amount \in GovernanceSlashes : SlashTrustDeposit(corp, amount)
       \/ RepaySlashedTrustDeposit(corp)

ParticipantNext ==
  \/ ParticipantMessages /\ UNCHANGED <<schemaVars, trustUnitPrice>>
  \/ DepositMessages /\ UNCHANGED <<vars, schemaVars, trustUnitPrice>>
  \/ SchemaMessages /\ UNCHANGED <<vars, ppVars, trustUnitPrice>>
  \/ \E price \in Prices : UpdateTrustUnitPrice(price)
  \/ RestartChain
  \/ TickParticipants

ParticipantSpec == ParticipantInit /\ [][ParticipantNext]_allVars

-----------------------------------------------------------------------------
(* Properties.                                                             *)

ParticipantEntries ==
  [schema : Nat, role : Roles, did : Dids, corporation : Corporations, validator : Nat,
   vsOperator : Operators, from : Nat, until : Nat, terms : FeeTerms, deposit : Nat,
   opState : {"NONE", "PENDING", "VALIDATED", "TERMINATED"}, opExp : Nat,
   opCurrentFees : Nat, opCurrentDeposit : Nat, opValidatorDeposit : Nat,
   revoked : Nat, slashed : BOOLEAN, repaid : BOOLEAN,
   slashedDeposit : Nat, repaidDeposit : Nat]

\* Every store has its type, the ids are those the counter gave, a participant's
\* validator is an earlier one and its schema is there.
ParticipantTypeOK ==
  /\ SchemaTypeOK
  /\ trustUnitPrice \in Nat \ {0}
  /\ participantCounter \in 0 .. MaxParticipants
  /\ participants \in [1 .. participantCounter -> ParticipantEntries]
  /\ \A id \in DOMAIN participants :
       participants[id].validator < id /\ Has(schemas, participants[id].schema)
  /\ td \in [Corporations -> TrustDepositEntries]
  /\ balance \in [Corporations -> Nat]
  /\ escrow \in Nat
  /\ history \in [Corporations -> Histories]

Total(Amount(_)) ==
  Sum([id \in 1 .. MaxParticipants |-> IF Has(participants, id) THEN Amount(id) ELSE 0],
      MaxParticipants)

(***************************************************************************)
(* The escrow holds the fees of the requests that are pending and nothing  *)
(* else, also when the price changed since they were paid in: each is paid *)
(* out once, to the validator or back to the candidate.                    *)
(***************************************************************************)
EscrowBalanced ==
  LET Due(id) == participants[id].opCurrentFees IN escrow = Total(Due)

(***************************************************************************)
(* The onboarding process keeps the promise of FeeContracts: its requests  *)
(* are the contracts, and a corporation's wealth is its account and its    *)
(* trust deposit.  Renewals, price changes, revocations and slashes of     *)
(* either side in between change nothing of an open request.               *)
(***************************************************************************)
Requested == {id \in DOMAIN participants : participants[id].opState = "PENDING"}

Contracts ==
  INSTANCE FeeContracts WITH
    Ids <- 1 .. MaxParticipants,
    Parties <- Corporations,
    contracts <-
      [id \in Requested |->
         [payer |-> participants[id].corporation,
          payee |-> participants[participants[id].validator].corporation,
          fee |-> participants[id].opCurrentFees]],
    wealth <- [c \in Corporations |->
                 balance[c] + td[c].deposit - history[c].reclaimed]

FeesAreContracts == Contracts!ContractSpec

(***************************************************************************)
(* The trust deposit of a corporation, coin for coin, as x/td and x/pp     *)
(* keep it apart from each other: what is there and not claimable, was     *)
(* slashed by governance or was reclaimed, is the deposits of its own      *)
(* participants and what it put in for the participants it validated, less *)
(* what cancels have released.                                             *)
(***************************************************************************)
HeldFor(corp) ==
  LET Own(id) ==
        IF participants[id].corporation = corp THEN participants[id].deposit ELSE 0
      Validator(id) == participants[participants[id].validator]
      AsValidator(id) ==
        IF participants[id].validator # 0 /\ Validator(id).corporation = corp
        THEN participants[id].opValidatorDeposit ELSE 0
  IN  Total(Own) + Total(AsValidator)

DepositsAccounted ==
  \A corp \in Corporations :
    LET h == history[corp]
    IN  td[corp].deposit - td[corp].claimable - h.reclaimed + h.cancelled
          + td[corp].slashed + h.forgotten
          = HeldFor(corp)

(***************************************************************************)
(* No corporation is two participants in the same role under the same      *)
(* validator at one time: windows that overlap belong to participants that *)
(* were revoked or slashed.  Windows are set by four handlers, in advance. *)
(***************************************************************************)
OneParticipantAtATime ==
  \A p, q \in DOMAIN participants :
    LET e == participants[p]
        f == participants[q]
    IN  /\ p # q
        /\ SameContext(f, e.schema, e.role, e.validator, e.corporation)
        /\ InForce(e) /\ InForce(f)
        /\ e.from # NoTime /\ f.from # NoTime
        => ~(StartsBeforeTheEndOf(e, f) /\ StartsBeforeTheEndOf(f, e))

(***************************************************************************)
(* A VS operator has a record for a participant of its corporation only,   *)
(* not for one whose onboarding was terminated, not for an issuer or a     *)
(* verifier that was revoked or slashed; and the record of a candidate     *)
(* that was never validated stays disabled.                                *)
(***************************************************************************)
RecordsFollowParticipants ==
  \A id \in DOMAIN vsoaByParticipant :
    LET vsoa == vsoas[vsoaByParticipant[id]]
        e == participants[id]
    IN  /\ Has(participants, id)
        /\ e.corporation = vsoa.corporation
        /\ e.opState # "TERMINATED"
        /\ e.role \in {"ISSUER", "VERIFIER"} => InForce(e)
        /\ e.from = NoTime => ~InFuture(vsoa.records[id].expiration, now)

(***************************************************************************)
(* A fee grant that is not over pays for the VS operator of a participant  *)
(* in service: one that was validated or needed no validation, was not     *)
(* terminated and, if it is an issuer or a verifier, not revoked or        *)
(* slashed.  The grant is x/de's, one for all the participants an operator *)
(* serves; what ends a participant is x/pp's.                              *)
(***************************************************************************)
FeeGrantsServeParticipants ==
  \A key \in DOMAIN feeGrants :
    InFuture(feeGrants[key].expiration, now) =>
      \E id \in DOMAIN participants :
        LET e == participants[id]
        IN  /\ <<e.corporation, e.vsOperator>> = key
            /\ e.from # NoTime /\ e.opState # "TERMINATED"
            /\ e.role \in {"ISSUER", "VERIFIER"} => InForce(e)

(***************************************************************************)
(* A participant does not outlast its validation: through renewals and     *)
(* changes of its end, it ends with its onboarding process at the latest.  *)
(***************************************************************************)
EndsWithin(e) == e.opExp # NoTime => e.until # NoTime /\ e.until <= e.opExp

WindowWithinValidation ==
  \A id \in DOMAIN participants :
    LET e == participants[id]
    IN  e.validator # 0 /\ participants[e.validator].role # "ECOSYSTEM" => EndsWithin(e)

(***************************************************************************)
(* Until a slashed participant has once repaid in full, it can be slashed  *)
(* again, but its onboarding process does not move, nor do its window and  *)
(* the fees it has in escrow.                                              *)
(***************************************************************************)
UnrepaidParticipantFrozen ==
  [][\A id \in DOMAIN participants :
       LET e == participants[id]
           f == participants'[id]
       IN  e.slashed /\ ~e.repaid =>
             /\ f.opState = e.opState /\ f.opCurrentFees = e.opCurrentFees
             /\ f.from = e.from /\ f.until = e.until /\ f.opExp = e.opExp]_allVars

-----------------------------------------------------------------------------
(* What comments of the code say and the code does not do.                 *)

(***************************************************************************)
(* Revoke must "Free associated trust deposit": the deposits of the        *)
(* participants that can be revoked are there to be freed, once.           *)
(***************************************************************************)
DepositsBacked ==
  \A corp \in Corporations :
    LET Revocable(e) == e.corporation = corp /\ InForce(e) /\ e.from # NoTime
        Own(id) ==
          IF Revocable(participants[id]) THEN participants[id].deposit ELSE 0
    IN  Total(Own) <= td[corp].deposit - td[corp].claimable

(***************************************************************************)
(* "if op_exp is null (validation never completed), set op_state to        *)
(* TERMINATED": a cancel ends only a process that was never validated.      *)
(***************************************************************************)
TerminatedNeverValidated ==
  \A id \in DOMAIN participants :
    participants[id].opState = "TERMINATED" => participants[id].from = NoTime

(***************************************************************************)
(* "Sync any VSOA record expiration to the new effective_until".           *)
(***************************************************************************)
RecordTakesNewEnd ==
  [][\A id \in DOMAIN participants :
       /\ participants'[id].until # participants[id].until
       /\ participants[id].opState # "PENDING"
       /\ id \in DOMAIN vsoaByParticipant'
       => vsoas'[vsoaByParticipant'[id]].records[id].expiration
            = participants'[id].until]_allVars
=============================================================================
