SPECIFICATION HSpec
CONSTANTS
    p1 = p1
    p2 = p2
    a = a
    b = b
    c = c
    Absent = Absent
    Free = Free
    Projects = {pr}
    Paths = {f}
    Contents = {a, b, c}
    Procs = {p1}
    Ops = {"write", "rollback"}
    FailPoints <- TwoCrashes
    MaxReceipts = 5
    MaxEdits = 0
    MaxTampers = 0
SYMMETRY Interchangeable
INVARIANT NewestWriteUndone
