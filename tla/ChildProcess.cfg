SPECIFICATION FairSpec
CONSTANTS
    Cap <- SmallCaps
    MaxOutput <- SmallOutputs
    Chunk = 2
    PipeSize = 2
    MaxEdits = 1
INVARIANT TypeOK
INVARIANT OutputBounded
INVARIANT ChildDrained
INVARIANT VerdictTrue
INVARIANT PinnedUnlessLate
 
