SPECIFICATION Spec
CONSTANTS
    Handlers = {h1, h2}
    Main = main
    Peers = {p1}
    Rules = {r1}
    SeedPeers = {}
    SeedRules = {}
    Orders = {o1}
    FirstOrder = o1
    Upstreams = {d1, d2}
    Unfit = d2
    Refused <- MCRefused
    DefaultUpstream = d1
    PresetSizes = {1}
    Empty = Empty
    Corrupt = Corrupt
    NoConfig = NoConfig
    MaxRequests = 2
    MaxCrashes = 1
INVARIANTS
    TypeOK
    CleanPublishIsLive
    OwnChangeInSnapshot
    DriftHasCause
PROPERTIES
    ChangeReachesSingBox
