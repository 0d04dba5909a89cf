SPECIFICATION Spec
CONSTANTS
    Processes = {p1, p2}
    Scripts = {s1, s2}
    MaxFaults = 1
    NoOne = NoOne
    Gone = Gone
    NoTable = NoTable
    Catalogs <- SomeCatalogs
SYMMETRY Interchangeable
INVARIANTS ServingIsMigrated OriginalKept
PROPERTIES MigratesQuiesced 
