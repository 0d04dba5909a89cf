SPECIFICATION FairSpec
CONSTANTS
    Tasks = {t1, t2}
    Contents = {c1, c2}
    Published = c1
    Workloads <- SomeWorkloads
    PoolSize = 2
    Absent = Absent
    None = None
INVARIANTS ProjectionWhole
PROPERTIES UnitsAreAtomic EveryCallReturns
