----------------------- MODULE MCParticipantLifecycle -----------------------
(* ParticipantLifecycle on small instances.                                *)
EXTENDS ParticipantLifecycle

CONSTANTS Controller, Operator

\* Two ecosystems of one corporation.
OneController == [e \in 1 .. 2 |-> Controller]

\* Every corporation has a DID of its own.
OwnDids == [c \in Corporations |-> {c}]

\* Grantors and issuers are validated for a day, or for ever.
Days(ofIssuers) ==
  [role \in ValidatedRoles |->
     IF role \in {"ISSUER", "ISSUER_GRANTOR"} THEN ofIssuers ELSE 0]

\* The first ecosystem keeps its periods.
PeriodsOfOne == [e \in 1 .. 2 |-> IF e = 1 THEN {} ELSE {Days(0), Days(1)}]

\* Nothing is asked for, or a trust unit of every candidate.
Free == {NoTerms}

\* A schema and its root, under which anyone may be a verifier.
Genesis(ecosystem, issuerMode, days, until, fees, price) ==
  [schemas |-> <<[ecosystem |-> ecosystem, issuerMode |-> issuerMode,
                  verifierMode |-> "OPEN", period |-> Days(days), archived |-> FALSE]>>,
   roots |-> <<[schema |-> 1, did |-> Controller,
                operator |-> Operator,
                from |-> 1, until |-> until,
                terms |-> [NoTerms EXCEPT !.validationFees = fees]]>>,
   price |-> price]

\* Issuers who pay, under a root that ends, while the price changes.
Fees == Genesis(1, "ECOSYSTEM", 1, 3, 1, 2)
FeesForEver == Genesis(1, "ECOSYSTEM", 0, NoTime, 1, 1)

\* Grantors and their issuers, who do not, while the periods change.
Chains == Genesis(2, "GRANTOR", 1, NoTime, 0, 1)

FeesAndChains == {Fees, Chains}
OnlyFees == {Fees}
OnlyFeesForEver == {FeesForEver}

Request(msgTypes) == [msgTypes |-> msgTypes, withFeegrant |-> TRUE, period |-> 0]

\* No VS operator authorization, or one with a fee grant for a message.
NoneOrSession ==
  {[msgTypes |-> {}, withFeegrant |-> FALSE, period |-> 0], Request({SessionMsg})}

Both == NoneOrSession \cup {Request({ValidateMsg})}

\* The controller has nothing to pay with.
OthersPay == [c \in Corporations |-> IF c = Controller THEN 0 ELSE 4]
=============================================================================
