SPECIFICATION RestartingSpec
CONSTANTS
    p1 = p1
    p2 = p2
    a = a
    b = b
    c = c
    Absent = Absent
    Free = Free
    Projects = {pr}
    Paths = {f}
    Contents = {a, b}
    Procs = {p1, p2}
    Ops = {"write", "rollback", "recover", "prune"}
    FailPoints <- CrashWhileOpen
    MaxReceipts = 2
    MaxEdits = 0
    MaxTampers = 0
PROPERTY OperationsEnd
PROPERTY InterruptedSettled
