\* Two processes with any commands, one damaged file, every version of it.
SPECIFICATION StoreSpec
CONSTANTS
    Procs = {p1, p2}
    Sources = {s1, s2}
    MaxRev = 1
    MaxDamage = 1
    StartKinds = {"absent", "current", "older", "ancient"}
    Verbs = {"add", "remove", "sync", "newer"}
    StateIsLink = FALSE
SYMMETRY Symmetry
INVARIANTS StoreTypeOK OnlyCorruptSetAside
PROPERTIES AtomicIntent NewerKept
