---------------------------- MODULE MCSessions ----------------------------
(* Sessions on a small instance.                                           *)
EXTENDS Sessions, TLC

CONSTANTS Controller, Operator

\* Two ecosystems of one corporation.
OneController == [e \in 1 .. 2 |-> Controller]

\* The others have a DID of their own and join.
OthersDids == [c \in Corporations |-> {c} \ {Controller}]

\* Every participant has a VS operator authorization for sessions, which starts another
\* day when it is over.  Here a record lasts as long as its participant, so that only
\* those of candidates, which are over from the first, could start one.
ForSessions == {[msgTypes |-> {SessionMsg}, withFeegrant |-> TRUE, period |-> 1]}

\* Two trust units for a verification, one for an issuance; or nothing, and a discount
\* of a half on verification, which only a verifier may have.
Priced == [NoTerms EXCEPT !.verificationFees = 2, !.issuanceFees = 1]
PricedTerms == {Priced, [NoTerms EXCEPT !.verificationDiscount = 1]}

\* Issuers and verifiers are validated for two days.
TwoDays == [role \in ValidatedRoles |-> IF role \in {"ISSUER", "VERIFIER"} THEN 2 ELSE 0]

NoPeriods == [e \in 1 .. 2 |-> {}]

SchemaWithModes(ecosystem, issuerMode, verifierMode) ==
  [ecosystem |-> ecosystem, issuerMode |-> issuerMode, verifierMode |-> verifierMode,
   period |-> TwoDays, archived |-> FALSE]

RootUnder(s) ==
  [schema |-> s, did |-> Controller, operator |-> Operator,
   from |-> 1, until |-> NoTime,
   terms |-> Priced]

\* A schema whose root validates issuers and verifiers, and one whose verifiers need no
\* validation (its issuers need a grantor, and there is none).
ClosedAndOpen ==
  {[schemas |-> <<SchemaWithModes(1, "ECOSYSTEM", "ECOSYSTEM"),
                  SchemaWithModes(2, "GRANTOR", "OPEN")>>,
    roots |-> <<RootUnder(1), RootUnder(2)>>,
    price |-> 1]}

\* The controller has nothing to pay with; the others have what a verification costs at
\* the full price with two beneficiaries, or two verifications with one.
OthersPay == [c \in Corporations |-> IF c = Controller THEN 0 ELSE 10]

Symmetry == Permutations(Corporations \ {Controller}) \cup Permutations(Digests)
=============================================================================
