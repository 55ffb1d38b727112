\* An add of an installed source, killed once.
SPECIFICATION FairSync
CONSTANTS
    Sources = {1}
    Names = {1, 2}
    Versions = {1, 2}
    Revisions <- Moving
    Returns = FALSE
    Cap = 2
    Switched = {}
    Verbs = {"add"}
    MaxMishaps = 1
PROPERTY Recovers
CHECK_DEADLOCK FALSE
