SPECIFICATION Spec
CONSTANTS
    Procs = {p1}
    Contents = {a, b}
    Absent = Absent
    NoFile = NoFile
    Torn = Torn
    Unbound = Unbound
    MaxEdits = 3
SYMMETRY Interchangeable
INVARIANT TypeOK
INVARIANT ReceiptIntended
PROPERTY LifecycleForward
