SPECIFICATION Spec
CONSTANTS
    Handlers = {h1}
    MaxVersion = 2
    Contents = {c1, c2}
    Policy = "disabled"
    Rebuilds = FALSE
    MaxFaults = 0
    NoVersion = NoVersion
    NoContent = NoContent
PROPERTY VersionsImmutable
