SPECIFICATION FairPanelSpec
CONSTANTS
    t1 = t1
    t2 = t2
    a1 = a1
    a2 = a2
    b1 = b1
    Tabs = {t1}
    Calls = {a1, a2}
    Tab <- MCTab
    AccessTTL = 1
    RefreshTTL = 9
    Day = 1
    MaxIssued = 9
    MaxLogins = 1
    MaxTime = 1
    MaxFaults = 0
INVARIANTS
    PanelTypeOK
    RefreshIsLed
PROPERTIES
    SessionKept
    RequestsSettle
