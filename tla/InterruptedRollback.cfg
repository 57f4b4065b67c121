SPECIFICATION Spec
CONSTANTS
    p1 = p1
    p2 = p2
    a = a
    b = b
    c = c
    Absent = Absent
    Free = Free
    Projects = {pr}
    Paths = {f}
    Contents = {a, b}
    Procs = {p1}
    Ops = {"write", "rollback", "recover"}
    FailPoints <- AllSteps
    MaxReceipts = 2
    MaxEdits = 0
    MaxTampers = 0
SYMMETRY Interchangeable
INVARIANT InterruptedRollbackCompletes
