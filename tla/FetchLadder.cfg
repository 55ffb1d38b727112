SPECIFICATION Spec
CONSTANTS
    f = f
    g = g
    h = h
    Files = {f, g, h}
    FilesOf <- MCFilesOf
    Folder = {f, g}
    MaxHead = 3
    None = None
INVARIANT TreeWhole
INVARIANT NothingLeft
INVARIANT BestFailure
PROPERTY EveryFetchEnds
CHECK_DEADLOCK FALSE
