SPECIFICATION Spec
CONSTANTS
    Handlers = {h1}
    Proposals = {p1, p2}
    Paths = {f1}
    MaxFiles = 1
    Verdicts = {"green", "red"}
    MaxVersion = 2
    AutoPublish = TRUE
    MaxFaults = 1
    NoProposal = NoProposal
    NoPath = NoPath
SYMMETRY Interchangeable
INVARIANTS QuiescentAgreement AuditExplainsStatus ConversionHasVersion
PROPERTIES LifecycleRefined DecisionIsFinal ReleaseJustified
