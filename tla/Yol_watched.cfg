SPECIFICATION YolSpec
CONSTANTS
    app = app
    address = address
    appHost = appHost
    App = {d1, d2}
    Router = router
    Foreign = {theirs}
    Host = {address, appHost}
    Address = address
    Service = {app}
    ServiceOf <- OneService
    HostOf <- OneHostname
    Takeover = TRUE
    Specs <- AllSpecs
    NoSpec = NoSpec
    None = None
    Timer = timer
    Reader = {r1, r2}
    Request = {}
    Done = Done
    ServerMode = "watch"
    MaxOverlaps = 1
    MaxFaults = 2
    MaxChanges = 0
SYMMETRY AnyVersion
INVARIANTS WatchedIsUntouched
CHECK_DEADLOCK FALSE
