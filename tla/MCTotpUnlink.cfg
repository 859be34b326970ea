SPECIFICATION Spec
CONSTANTS
    a1 = a1
    olga = olga
    ann = ann
    bob = bob
    Resource = {r1}
    Account = {a1, a2}
    User = {olga, ann, bob}
    Owner <- OwnerDef
    Custodian <- CustodianDef
    Consent = {c1, c2}
    Call = {k1, k2}
    None = None
    MaxVersion = 1
PROPERTY UnlinkedByParty
