SPECIFICATION Spec
CONSTANTS
    a = a
    b = b
    Machines = {a, b}
    s = s
    t = t
    Sources = {s, t}
    n = n
    o = o
    Names = {n, o}
    whole = whole
    part = part
    Intents = {whole, part}
    Provides <- MCProvides
    NoIntent = NoIntent
    Idle = Idle
    MaxVerbs = 3
    MaxJobs = 2
    MaxBusy = 1
INVARIANT Projection
INVARIANT Replayed
PROPERTY TeamKept
PROPERTY NoNewClash
SYMMETRY MCSymmetry
CHECK_DEADLOCK FALSE
