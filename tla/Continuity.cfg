SPECIFICATION Spec
CONSTANTS
    Procs = {p1, p2}
    Free = Free
    Handoffs = {h1, h2}
    Absent = Absent
    Decisions = {d1, d2}
    MaxRevision = 3
    MaxEdits = 1
SYMMETRY Interchangeable
INVARIANT TypeOK
INVARIANT OneWinnerPerRevision
INVARIANT RevisionsAccounted
PROPERTY RevisionAdvances
PROPERTY RecordNamed
