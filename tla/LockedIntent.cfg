\* The store code inside the file lock: two processes, one crash, one source,
\* a linked file that is damaged once.
SPECIFICATION LockedSpec
CONSTANTS
    Procs = {p1, p2}
    Inodes = {i1, i2}
    None = None
    MaxCrashes = 1
    Sources = {s1}
    MaxRev = 1
    MaxDamage = 1
    StartKinds = {"current", "older"}
    Verbs = {"add"}
    StateIsLink = TRUE
SYMMETRY Symmetry
VIEW View
PROPERTY Composes
