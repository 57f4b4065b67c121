SPECIFICATION Spec
CONSTANTS
    Procs = {p1, p2}
    Subjects = {s1, s2}
    None = None
    MaxProposals = 2
    Ttl = 1
    MaxTime = 2
    MaxPowerLoss = 1
    MaxKeys = 2
    DirectorySync = TRUE
SYMMETRY Interchangeable
INVARIANT TypeOK
INVARIANT SingleUse
INVARIANT RecordedBeforeAction
 
PROPERTY KeyStands
