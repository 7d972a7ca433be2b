------------------------------ MODULE Sessions ------------------------------
(***************************************************************************)
(* The sessions of x/pp: a VS operator announces that its issuer issues a  *)
(* credential, or that its verifier asks for one, and its corporation pays *)
(* for it in the same transaction.  Fees go to the participants above, and *)
(* a part of them to the two agents; of every payment a part becomes trust *)
(* deposit of the payee, and the payer puts in as much of its own.         *)
(*                                                                         *)
(* A session adds to the deposits that revoke, slash and repay of          *)
(* ParticipantLifecycle take away again, so the module extends it: its     *)
(* actions are those of ParticipantLifecycle and the session message, with *)
(* the call of x/di that stores the digest of a credential.                *)
(*                                                                         *)
(* Nothing asks that the issuer and the verifier of a session are of one   *)
(* schema: the issuer's decides whom they pay.                             *)
(***************************************************************************)
EXTENDS ParticipantLifecycle, Sequences

CONSTANTS
  UserAgentRewardRate,       \* parameters of x/td, decimals
  WalletUserAgentRewardRate,
  SessionIds,                \* the UUIDs a message may name
  Digests,                   \* digests a message may carry
  NoDigest,                  \* stands for none
  Agents, WalletAgents,      \* ids that messages name as those
  MaxRecords                 \* bound on the records of a session

ASSUME SessionAssumption ==
  /\ UserAgentRewardRate \in Nat /\ WalletUserAgentRewardRate \in Nat
  /\ MaxRecords \in Nat

VARIABLES
  sessions,            \* ParticipantSession, by id
  digests              \* Digests of x/di

sessionVars == <<sessions, digests>>
systemVars == <<allVars, sessionVars>>

SessionInit == ParticipantInit /\ sessions = EmptyMap /\ digests = {}

-----------------------------------------------------------------------------
(* Whom a session pays, and how much.  A record r of a session names its   *)
(* issuer, its verifier (0 for none) and its two agents.                   *)

PayableUnlessRevoked(e) == e.revoked = NoTime     \* mutant: the slash is not looked at

\* The window of a beneficiary is not looked at.
Payable(e) == e.revoked = NoTime /\ ~e.slashed

AboveAndItself(id) ==                 \* mutant: the chain starts with the participant itself
  IF id = 0 THEN {} ELSE {id} \cup Ancestors(participants[id])

Above(id) == IF id = 0 THEN {} ELSE Ancestors(participants[id])

\* The schema whose modes count: the issuer's, if the record names one.
SchemaOfRecord(r) == participants[IF r.issuer # 0 THEN r.issuer ELSE r.verifier].schema

PaysRootOnly(r, cs) ==
  \/ r.issuer # 0 /\ cs.issuerMode = "OPEN"
  \/ r.verifier # 0 /\ cs.verifierMode = "OPEN"

PayableRoots(s) ==
  {q \in DOMAIN participants :
     LET e == participants[q]
     IN  e.schema = s /\ e.role = "ECOSYSTEM" /\ Payable(e)}

IssuerEarnsAlways(r, q) == q = r.issuer           \* mutant: also when it issues

IssuerEarns(r, q) ==
  q = r.issuer /\ r.verifier # 0 /\ participants[q].revoked = NoTime

\* findBeneficiaries: of several roots, the first.
Beneficiaries(r) ==
  IF PaysRootOnly(r, schemas[SchemaOfRecord(r)])
  THEN LET roots == PayableRoots(SchemaOfRecord(r))
       IN  {q \in roots : \A p \in roots : q <= p}
  ELSE {q \in DOMAIN participants :
          \/ q \in Above(r.issuer) \cup Above(r.verifier) /\ Payable(participants[q])
          \/ IssuerEarns(r, q)}

\* The query FindBeneficiaries, which knows no modes.
FoundByQuery(r) ==
  {q \in DOMAIN participants :
     /\ Payable(participants[q])
     /\ \/ q \in Above(r.issuer) \cup Above(r.verifier)
        \/ q = r.issuer /\ r.verifier # 0}

\* The executor of the session.
Payer(r) == IF r.verifier # 0 THEN r.verifier ELSE r.issuer

Discount(r) ==
  IF r.verifier # 0 THEN participants[r.verifier].terms.verificationDiscount
  ELSE participants[r.issuer].terms.issuanceDiscount

ListedFees(r, q) ==
  IF r.verifier # 0 THEN participants[q].terms.verificationFees
  ELSE participants[q].terms.issuanceFees

\* What each participant is due, in trust units.
Fees(r) ==
  LET beneficiaries == Beneficiaries(r)
  IN  [q \in 1 .. MaxParticipants |->
         IF q \in beneficiaries
         THEN (ListedFees(r, q) * (DiscountScale - Discount(r))) \div DiscountScale
         ELSE 0]

Summed(f) == Sum(f, MaxParticipants)

QuoteWithoutDeposit(fees) ==          \* mutant: the payer's deposit is not quoted
  (Summed(fees) * (PREC + UserAgentRewardRate + WalletUserAgentRewardRate)
     * trustUnitPrice) \div PREC

\* trust_fees, which the account of the payer must hold.
TrustFees(fees) ==
  (Summed(fees)
     * (PREC + UserAgentRewardRate + WalletUserAgentRewardRate + TrustDepositRate)
     * trustUnitPrice) \div PREC

\* The same in coins, and the part of them that is trust deposit of the payee.
Coins(fees) == [q \in 1 .. MaxParticipants |-> fees[q] * trustUnitPrice]

PayeeDeposits(coins) == [q \in 1 .. MaxParticipants |-> TrustDepositOf(coins[q])]

\* An agent's reward is a decimal, of which whole coins are paid.
Reward(coins, rate) ==
  LET reward == Summed(coins) * rate
  IN  [coins |-> reward \div PREC,
       deposit |-> DecMul(reward, TrustDepositRate) \div PREC]

\* All the payments of a session.
Payments(r) ==
  LET coins == Coins(Fees(r))
      deposits == PayeeDeposits(coins)
  IN  [coins |-> coins, deposits |-> deposits, payerDeposit |-> Summed(deposits),
       agent |-> Reward(coins, UserAgentRewardRate),
       walletAgent |-> Reward(coins, WalletUserAgentRewardRate)]

-----------------------------------------------------------------------------
(* The message.                                                            *)

MayExecuteUnvalidated(id, role, corp, operator) ==   \* mutant: validity is not looked at
  LET e == participants[id]
  IN  e.role = role /\ e.vsOperator = operator /\ e.corporation = corp

\* An issuer or a verifier of the corporation that the operator serves.
MayExecute(id, role, corp, operator) ==
  LET e == participants[id]
  IN  /\ e.role = role /\ IsValid(e)
      /\ e.vsOperator = operator /\ e.corporation = corp

MayBeAgent(id) == participants[id].role = "ISSUER" /\ IsValid(participants[id])

AnySession(s, corp, operator) == TRUE     \* mutant: whose session it is is not looked at

\* validateSessionAccess.
MayAddTo(s, corp, operator) ==
  Has(sessions, s) => sessions[s].corporation = corp /\ sessions[s].operator = operator

\* Of the payments p of session r: trust deposit that participant q is given as agent.
DepositForAgent(r, p, q) ==
  (IF q = r.agent THEN p.agent.deposit ELSE 0)
    + (IF q = r.walletAgent THEN p.walletAgent.deposit ELSE 0)

\* In all.
DepositForPayee(r, p, q) == p.deposits[q] + DepositForAgent(r, p, q)

\* By how much the deposit of q changes.  The handler writes copies of participants that
\* it read beforehand: for each beneficiary that one's, then the payer's, which lasts if
\* they are the same.  The agents, who may be among them, it reads again afterwards.  The
\* deposit of the payer rises with those of the payees, not with the agents'.
DepositAdded(r, p, q) ==
  (IF q = Payer(r) THEN p.payerDeposit ELSE p.deposits[q]) + DepositForAgent(r, p, q)

CoinsTwice(r, p, q) ==                \* mutant: the deposit is paid out as well
  p.coins[q] + (IF q = r.agent THEN p.agent.coins ELSE 0)
    + (IF q = r.walletAgent THEN p.walletAgent.coins ELSE 0)

\* Coins that go to the account of q's corporation.
CoinsForPayee(r, p, q) ==
  p.coins[q] + (IF q = r.agent THEN p.agent.coins ELSE 0)
    + (IF q = r.walletAgent THEN p.walletAgent.coins ELSE 0)
    - DepositForPayee(r, p, q)

OfCorporation(corp, Part(_)) ==
  LET Own(q) == IF participants[q].corporation = corp THEN Part(q) ELSE 0
  IN  Total(Own)

DepositedFor(r, p, corp) ==
  LET Part(q) == DepositForPayee(r, p, q) IN OfCorporation(corp, Part)

PaidTo(r, p, corp) ==
  LET Part(q) == CoinsForPayee(r, p, q) IN OfCorporation(corp, Part)

\* All that leaves the account of the payer.
Charge(p, corp) ==
  Summed(p.coins) + p.agent.coins + p.walletAgent.coins
    + Missing(td[corp], p.payerDeposit)

\* AdjustTrustDepositOnBehalf for the payees, AdjustTrustDeposit for the payer; the
\* calls for one corporation add up, whatever their order.
TrustDepositAfter(r, p, corp) ==
  LET onBehalf == IncreasedOnBehalf(td[corp], DepositedFor(r, p, corp), PREC)
  IN  IF corp = participants[Payer(r)].corporation
      THEN Increased(onBehalf, p.payerDeposit, PREC)
      ELSE onBehalf

\* The balance is asked for the quote, once; the transfers follow.
PaySession(r, corp) ==
  LET p == Payments(r)
  IN  /\ balance[corp] >= TrustFees(Fees(r))
      /\ p.payerDeposit > 0 => CanIncrease(td[corp], p.payerDeposit, PREC)
      /\ \A c \in Corporations :
           DepositedFor(r, p, c) > 0 => CanIncreaseOnBehalf(td[c], DepositedFor(r, p, c))
      /\ \A q \in DOMAIN participants :
           participants[q].deposit + DepositAdded(r, p, q) <= MaxDeposit
      /\ td' = [c \in Corporations |-> TrustDepositAfter(r, p, c)]
      /\ balance' =
           [c \in Corporations |->
              balance[c] + PaidTo(r, p, c) - (IF c = corp THEN Charge(p, corp) ELSE 0)]
      /\ participants' =
           [q \in DOMAIN participants |->
              [participants[q] EXCEPT !.deposit = @ + DepositAdded(r, p, q)]]

\* createOrUpdateSession.
RecordSession(s, corp, operator, r) ==
  sessions' = Put(sessions, s,
    [corporation |-> corp, operator |-> operator,
     records |-> IF Has(sessions, s) THEN Append(sessions[s].records, r) ELSE <<r>>])

\* StoreDigestModuleCall: a digest is stored once.
KeepDigest(digest) ==
  /\ digest \notin digests
  /\ digests' = digests \cup {digest}

CreateOrUpdateParticipantSession(s, corp, operator, r, digest) ==
  /\ r.issuer # 0 \/ r.verifier # 0
  /\ MayAddTo(s, corp, operator)
  /\ r.issuer # 0 => MayExecute(r.issuer, "ISSUER", corp, operator)
  /\ r.verifier # 0 => MayExecute(r.verifier, "VERIFIER", corp, operator)
  /\ CheckVSOperatorAuthorizationOnParticipant(corp, operator, Payer(r), SessionMsg)
  /\ MayBeAgent(r.agent) /\ MayBeAgent(r.walletAgent)
  /\ PaySession(r, corp)
  /\ RecordSession(s, corp, operator, r)
  /\ IF digest # NoDigest /\ r.issuer # 0 THEN KeepDigest(digest) ELSE UNCHANGED digests
  /\ UNCHANGED <<participantCounter, escrow, history>>

-----------------------------------------------------------------------------
\* A message that names participants in other roles is refused.
Issuers == {id \in DOMAIN participants : participants[id].role = "ISSUER"}
Verifiers == {id \in DOMAIN participants : participants[id].role = "VERIFIER"}

Announcements ==
  \E s \in SessionIds, corp \in Corporations, operator \in Operators,
     digest \in Digests,
     r \in [issuer : {0} \cup Issuers, verifier : {0} \cup Verifiers,
            agent : Issuers \cap Agents, walletAgent : Issuers \cap WalletAgents] :
    /\ Has(sessions, s) => Len(sessions[s].records) < MaxRecords
    /\ CreateOrUpdateParticipantSession(s, corp, operator, r, digest)

SessionNext ==
  \/ ParticipantNext /\ UNCHANGED sessionVars
  \/ Announcements /\ UNCHANGED <<schemaVars, trustUnitPrice>>

SessionSpec == SessionInit /\ [][SessionNext]_systemVars

-----------------------------------------------------------------------------
(* Properties.                                                             *)

SessionRecords == [issuer : Nat, verifier : Nat, agent : Nat, walletAgent : Nat]

\* With those of ParticipantLifecycle, every store has its type.
SessionTypeOK ==
  LET IsSession(s) ==
        /\ s.corporation \in Corporations /\ s.operator \in Operators
        /\ s.records \in Seq(SessionRecords) /\ s.records # <<>>
  IN  /\ ParticipantTypeOK
      /\ IsMap(sessions, SessionIds, IsSession)
      /\ digests \subseteq Digests \ {NoDigest}

(***************************************************************************)
(* No coin is lost and none appears: the accounts of the corporations, the *)
(* escrow and the account of x/td hold what there was at genesis, less     *)
(* what was slashed and burned.  A session splits each fee in four, and    *)
(* rounds each part by itself.                                             *)
(***************************************************************************)
CoinsConserved ==
  LET Burnt(id) == participants[id].slashedDeposit
  IN  OverCorporations(balance) + escrow + DepositAccount + Total(Burnt)
        + OverCorporations([c \in Corporations |-> history[c].repaid])
        = OverCorporations(GenesisBalance)

(***************************************************************************)
(* The quote covers the charge: whoever passes the one check of its        *)
(* balance can pay each transfer of the session, so that none fails        *)
(* half-way through the beneficiaries and none overdraws the account.      *)
(***************************************************************************)
QuoteCoversCharge ==
  \A r \in [issuer : {0} \cup Issuers, verifier : {0} \cup Verifiers] :
    Payer(r) # 0 =>
      Charge(Payments(r), participants[Payer(r)].corporation) <= TrustFees(Fees(r))

(***************************************************************************)
(* The handler and the query that clients ask beforehand each have a       *)
(* traversal of their own.  Where the issuer's schema has no open role     *)
(* they agree on whom a session pays, whichever schema its verifier is of, *)
(* whatever was revoked or slashed above.                                  *)
(***************************************************************************)
PaysWhomTheQueryFinds ==
  \A r \in [issuer : {0} \cup Issuers, verifier : {0} \cup Verifiers] :
    /\ Payer(r) # 0
    /\ \A id \in {r.issuer, r.verifier} \ {0} : IsValid(participants[id])
    /\ ~PaysRootOnly(r, schemas[SchemaOfRecord(r)])
    => Beneficiaries(r) = FoundByQuery(r)

(***************************************************************************)
(* A participant that is out of force earns nothing: the deposit of one    *)
(* that is slashed, or was revoked in an earlier block, rises only by what *)
(* it repays, whatever sessions are announced below it or name it.         *)
(***************************************************************************)
OutOfForce(e) == e.slashed \/ (e.revoked # NoTime /\ e.revoked < now)

OutOfForceEarnNothing ==
  [][\A id \in DOMAIN participants :
       LET e == participants[id]
           f == participants'[id]
       IN  OutOfForce(e) =>
             f.deposit - e.deposit <= f.repaidDeposit - e.repaidDeposit]_systemVars

(***************************************************************************)
(* A session is one operator's: all its records, whoever added them, are   *)
(* of participants of its corporation that this operator serves.           *)
(***************************************************************************)
SessionsOfOneOperator ==
  \A s \in DOMAIN sessions :
    \A i \in DOMAIN sessions[s].records :
      LET r == sessions[s].records[i]
      IN  \A id \in {r.issuer, r.verifier} \ {0} :
            /\ participants[id].corporation = sessions[s].corporation
            /\ participants[id].vsOperator = sessions[s].operator
=============================================================================
