SPECIFICATION FairSpec
CONSTANTS
    MaxFaults = 2
    Handlers = {h1}
    MaxVersion = 2
    Contents = {c1}
    Policy = "disabled"
    Rebuilds = TRUE
    NoVersion = NoVersion
    NoContent = NoContent
INVARIANTS RebuildRepairs
PROPERTIES LifecycleRefined PublishedBecomesSearchable
