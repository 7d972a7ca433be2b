-------------------------- MODULE MCSchemaPolicies --------------------------
(* SchemaPolicies on a small instance.                                     *)
EXTENDS SchemaPolicies

\* Two ecosystems, of two corporations.
Controllers == [e \in {1, 2} |-> IF e = 1 THEN "acme" ELSE "bolt"]

Days(ofGrantors, ofOthers) ==
  [role \in ValidatedRoles |->
     IF role \in {"ISSUER_GRANTOR", "VERIFIER_GRANTOR"} THEN ofGrantors ELSE ofOthers]

\* Within the maxima at genesis and beyond them.
Periods == [e \in {1, 2} |-> {Days(1, 1), Days(3, 1)}]

Maxima == {Days(1, 1), Days(3, 2)}

Forms == {[issuerMode |-> "GRANTOR", verifierMode |-> "OPEN", period |-> Days(2, 1)]}
=============================================================================
