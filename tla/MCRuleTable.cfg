SPECIFICATION Spec
CONSTANTS
    h1 = h1
    h2 = h2
    a = a
    b = b
    Handlers = {h1, h2}
    Bodies = {a, b}
    Seed <- MCSeed
    Presets <- MCPresets
    Orders <- MCOrders
    Edits <- MCEdits
    Priorities <- MCPriorities
    MaxRequests = 3
    MaxRules = 5
    MaxFaults = 1
    MaxRestarts = 1
SYMMETRY MCSymmetry
INVARIANTS
    RuleTypeOK
    PrioritiesDense
    LastWordCounts
PROPERTIES
    PresetReplacesAll
CHECK_DEADLOCK FALSE
