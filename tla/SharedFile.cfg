SPECIFICATION SharedSpec
CONSTANTS
    Keys = {1, 2}
    MaxRev = 1
    Budget = 9
    FirstFiles <- MCFiles
    Pasted <- MCPasted
    MaxSaves = 1
INVARIANTS SpliceLaws Converged
PROPERTIES KeepsUserLines LastGoodKept
