SPECIFICATION Spec
CONSTANTS
    p1 = p1
    p2 = p2
    a = a
    b = b
    c = c
    Absent = Absent
    Free = Free
    Projects = {pr}
    Paths = {f}
    Contents = {a, b}
    Procs = {p1, p2}
    Ops = {"write", "rollback", "recover", "prune"}
    FailPoints <- AllSteps
    MaxReceipts = 2
    MaxEdits = 1
    MaxTampers = 1
SYMMETRY Interchangeable
INVARIANT TypeOK
INVARIANT NoLostUpdate
INVARIANT WriteAhead
INVARIANT OneOpenTransaction
INVARIANT BackupBehindReceipt
INVARIANT RollbackExact
INVARIANT BlockedNotWritten
 
