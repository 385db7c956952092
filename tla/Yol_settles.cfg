SPECIFICATION FairYolSpec
CONSTANTS
    app = app
    address = address
    appHost = appHost
    App = {d1, d2}
    Router = router
    Foreign = {}
    Host = {address, appHost}
    Address = address
    Service = {app}
    ServiceOf <- OneService
    HostOf <- OneHostname
    Takeover = FALSE
    Specs <- AllSpecs
    NoSpec = NoSpec
    None = None
    Timer = timer
    Reader = {r1}
    Request = {}
    Done = Done
    ServerMode = "managed"
    MaxOverlaps = 0
    MaxFaults = 0
    MaxChanges = 1
INVARIANTS NothingGoesUnheard VersionsAreAsked NeverDark
PROPERTIES Settles
CHECK_DEADLOCK FALSE
