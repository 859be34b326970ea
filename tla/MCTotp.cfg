SPECIFICATION Spec
SYMMETRY HandlerAndConsentSymmetry
CONSTANTS
    a1 = a1
    olga = olga
    ann = ann
    bob = bob
    Resource = {r1, r2}
    Account = {a1, a2}
    User = {olga, ann, bob}
    Owner <- OwnerDef
    Custodian <- CustodianDef
    Consent = {c1, c2}
    Call = {k1, k2}
    None = None
    MaxVersion = 2
INVARIANT LinkRestsOnConsent
INVARIANT RevealedWasConsented
INVARIANT DelegationsWerePermitted
PROPERTY ConsentLinksOnce
