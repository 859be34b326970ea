---------------------------- MODULE MCTotpCustody ----------------------------
(* TotpCustody on small sets.  olga owns the resources; one account belongs  *)
(* to ann, in the run about unlinking a second one to bob.                   *)
EXTENDS TotpCustody, TLC

CONSTANTS a1, olga, ann, bob

OwnerDef == [r \in Resource |-> olga]
CustodianDef == [a \in Account |-> IF a = a1 THEN ann ELSE bob]
HandlerAndConsentSymmetry == Permutations(Call) \cup Permutations(Consent)
===============================================================================
