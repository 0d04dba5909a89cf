SPECIFICATION AgentSpec
CONSTANTS
    Codes = {c1, c2}
    Origins = {o1, o2}
    Creators = {h1, h2}
    Checks = {k1, k2}
    MaxActive = 1
    Ttl = 1
    Day = 2
    Window = 2
    MaxFailures = 2
    MaxBuckets = 1
    Horizon = 4
    NoEntry = NoEntry
INVARIANTS ActiveBounded RefusalExpires FailuresBounded
SYMMETRY Interchangeable
