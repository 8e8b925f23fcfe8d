SPECIFICATION Spec
CONSTANTS
    p1 = p1
    p2 = p2
    c1 = c1
    c2 = c2
    c3 = c3
    c4 = c4
    home = home
    Peers = {p1, p2}
    Managed = {p1}
    Nobody = Nobody
    Sources = {home}
    Conns = {c1, c2, c3, c4}
    User <- MCUser
    Source <- MCSource
    Vless = {c1, c2, c3}
    MaxBytes = 1
    MaxOpen = 2
    MaxUserless = 1
    MaxFaults = 0
    MaxCrashes = 0
    MaxTroubles = 0
INVARIANTS
    TypeOK
    AccountedOnce
    AccountsAgree
    OpenSessionsAreHeld
