SPECIFICATION FairSpec
CONSTANTS
    Runs = {r1, r2}
    Paths = {p1}
    Contents = {c1, c2}
    Identities = {"noop", "m1"}
    Replies <- SomeReplies
    MaxConcurrent = 1
    MaxFaults = 1
    MaxJudgements = 1
    MaxChanges = 1
    None = None
INVARIANTS SlotsExact VerdictsFit
PROPERTY RunsEnd
