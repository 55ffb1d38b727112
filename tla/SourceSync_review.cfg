\* A source with reviews, holds and a cap that moves on, with one crash, lost
\* copy or edited hold; syncs that miss the network, and hooks.
SPECIFICATION FairSync
CONSTANTS
    Sources = {1}
    Names = {1, 2, 3}
    Versions = {1, 2}
    Revisions <- Changing
    Returns = FALSE
    Cap = 2
    Switched = {2}
    Verbs = {"add", "remove", "review", "unreview", "accept", "disable", "update", "hook", "offline"}
    MaxMishaps = 1
INVARIANTS ReadsBack Agreement Idempotent LinesLinked
PROPERTIES ReviewGate HookKeeps Rederived CatchesUp
