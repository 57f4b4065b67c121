SPECIFICATION Spec
CONSTANTS
    Procs = {p1, p2}
    Free = Free
    Files = {f, h, g}
    Protected = {g}
    Contents = {a}
    Absent = Absent
    Branches = {main, dev}
    Initial = main
    MaxEdits = 3
    MaxOutside = 1
    MaxCommits = 2
SYMMETRY Interchangeable
INVARIANT TypeOK
 
 
