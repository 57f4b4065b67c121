SPECIFICATION FairSpec
CONSTANTS
    lower = lower
    upper = upper
    other = other
    Procs = {p1, p2}
    Free = Free
    Spellings = {lower, upper, other}
    Identity <- SameFile
    Timeouts <- SomeTimeouts
    MaxTime = 3
INVARIANT TypeOK
INVARIANT ExclusivePerResource
INVARIANT IdleOwnsNothing
PROPERTY WaitingEnds
PROPERTY ImplementsMutex
