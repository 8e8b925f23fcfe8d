SPECIFICATION AuthSpec
CONSTANTS
    c1 = c1
    c2 = c2
    Calls = {c1, c2}
    AccessTTL = 1
    RefreshTTL = 1
    Day = 2
    MaxIssued = 2
    MaxTime = 3
    MaxFaults = 1
SYMMETRY MCSymmetry
INVARIANTS
    AuthTypeOK
    OneTokenPerSession
    AllSessionsEnded
PROPERTIES
    RefreshWindow
    KeepsPromise
