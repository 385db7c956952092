SPECIFICATION YolSpec
CONSTANTS
    app = app
    address = address
    appHost = appHost
    App = {d1, d2}
    Router = router
    Foreign = {}
    Host = {address}
    Address = address
    Service = {app}
    ServiceOf <- OneService
    HostOf <- NoHostname
    Takeover = TRUE
    Specs <- AllSpecs
    NoSpec = NoSpec
    None = None
    Timer = timer
    Reader = {r1, r2}
    Request = {}
    Done = Done
    ServerMode = "managed"
    MaxOverlaps = 0
    MaxFaults = 1
    MaxChanges = 1
SYMMETRY AnyOfBoth
INVARIANTS YolTypeOK LiveHasAnswered NothingUnbuiltRuns
PROPERTIES KeepsPromise
CHECK_DEADLOCK FALSE
