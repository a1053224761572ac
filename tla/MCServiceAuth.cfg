SPECIFICATION Spec
CONSTANTS
    Callers = {c1, c2}
    Lifetime = 4
    Skew = 3
    Leeway = 0
    ConfigTTL = 1
    JwksTTL = 1
    Latency = 1
    MaxClock = 4
    MaxMints = 2
    MaxVersions = 2
    MaxRotations = 1
SYMMETRY Symmetry
INVARIANTS
    TypeOK
    TokensAliveOnArrival
    RetryIsFresh
    WithdrawnKeysBounded
    ConfigNotStale
