\* A stalled holder and the process that stole its lock both commit.
SPECIFICATION LockedSpec
CONSTANTS
    Procs = {p1, p2}
    Inodes = {i1, i2}
    None = None
    MaxCrashes = 0
    Sources = {s1, s2}
    MaxRev = 1
    MaxDamage = 0
    StartKinds = {"absent"}
    Verbs = {"add"}
    StateIsLink = FALSE
SYMMETRY Symmetry
VIEW View
PROPERTY NoUpdateLost
