\* Two sources that ship each other's names; names switched off and on again.
SPECIFICATION SyncSpec
CONSTANTS
    Sources = {1, 2}
    Names = {1, 2}
    Versions = {1}
    Revisions <- Clashing
    Returns = TRUE
    Cap = 2
    Switched = {1, 2}
    Verbs = {"add", "disable"}
    MaxMishaps = 0
INVARIANT OwnBodies
