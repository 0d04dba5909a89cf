SPECIFICATION FairSpec
CONSTANTS
    Routes = {skill, proposal}
    MaxOperations = 2
    MaxFaults = 1
    NoKey = NoKey
INVARIANTS ShownIsSaved ScopeKept
PROPERTY StayingShowsTheEnd
