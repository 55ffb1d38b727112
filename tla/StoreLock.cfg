\* Three processes, one of which may die with the lock and come back: a holder, a
\* thief that grabbed it by mistake, and one that creates the lock meanwhile.  No
\* symmetry, for the liveness property.
SPECIFICATION FairSpec
CONSTANTS
    Procs = {p1, p2, p3}
    Inodes = {i1, i2}
    None = None
    MaxCrashes = 1
INVARIANTS TypeOK MutualExclusion
PROPERTIES Implements OnlySilentRobbed LockObtainable
