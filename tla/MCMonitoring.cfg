SPECIFICATION Spec
CONSTANTS
    c1 = c1
    c2 = c2
    Clients = {c1, c2}
    MemoryCap = 2
    RetainAlerts = 1
    RetainLogs = 2
    Columns = {3, 4}
    Budget <- MCBudget
SYMMETRY MCSymmetry
INVARIANTS
    MonitoringTypeOK
    DeletedStayDeleted
    AlertsExpire
    TunnelAccounted
    NewestTunnelAlert
    PagesAgree
PROPERTIES
    SimulatorHasCause
CHECK_DEADLOCK FALSE
