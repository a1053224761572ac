SPECIFICATION Spec
CONSTANTS
    Sessions = {s1, s2}
    MaxIdps = 2
    MaxRequests = 3
    Groups = {g1}
    Roles = {r1}
    Secrets = {k1, k2}
    None = None
SYMMETRY Symmetry
INVARIANTS
    TypeOK
    FormTakesEffect
    OthersKept
    SecretSurvives
    DeletionNotBlocked
