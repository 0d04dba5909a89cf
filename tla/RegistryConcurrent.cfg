SPECIFICATION Spec
CONSTANTS
    Handlers = {h1, h2}
    MaxVersion = 1
    Contents = {c1}
    Policy = "required"
    Rebuilds = TRUE
    MaxFaults = 0
    NoVersion = NoVersion
    NoContent = NoContent
SYMMETRY Interchangeable
INVARIANTS AuditExplainsStatus IndexExplained GateRespected
