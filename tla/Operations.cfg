SPECIFICATION FairSpec
CONSTANTS
    Workers = {w1,w2}
    Requests = {r1,r2}
    Keys = {k1}
    MaxOperations = 2
    Phases = 1
    MaxConcurrent = 1
    MaxFaults = 1
    NoKey = NoKey
    Nobody = Nobody
    NoBeat = NoBeat
INVARIANTS CompletionIsEarned OneActivePerKey SchedulerConsistent
PROPERTIES LifecycleRefined EveryOperationEnds
