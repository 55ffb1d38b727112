\* Two harnesses, the user scope and two projects, one file that cannot be edited for a while.
SPECIFICATION HookSpec
CONSTANTS
    Events = {"start", "stop"}
    Handlers = {"codex", "devin"}
    WrapperKeys = {}
    Order <- MCOrder
    Files = {"settings", "patch"}
    OwnFiles = {"bridge.json", "plugin"}
    Worlds <- MCWorlds
    Unhooked <- MCUnhooked
    Roots = {"home", "repo"}
    Filters = {{"devin"}}
    MaxLocks = 1
INVARIANT OneRunSettles
PROPERTY HookDefers
PROPERTY UserKept
PROPERTY WantedStays
PROPERTY RowBacked
CHECK_DEADLOCK FALSE
