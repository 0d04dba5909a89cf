SPECIFICATION ReadingSpec
CONSTANTS
    Handlers = {h1}
    MaxVersion = 2
    Contents = {{"a"}, {"a", "b"}}
    Policy = "disabled"
    Rebuilds = TRUE
    MaxFaults = 0
    NoVersion = NoVersion
    NoContent = NoContent
    Readers = {r1}
    Paths = {"a", "b"}
INVARIANTS ShownWasPublished PackageIsOneVersion
PROPERTY RefusedForCause
