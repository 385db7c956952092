SPECIFICATION Spec
CONSTANTS
    old = old
    new = new
    host = host
    App = {old, new}
    Router = router
    Foreign = {theirs}
    Host = {host}
    Specs <- DeploySpecs
    NoSpec = NoSpec
    None = None
    Timer = timer
    Reader = {r1}
    Request = {}
    Done = Done
    ServerMode = "managed"
    MaxOverlaps = 0
    MaxFaults = 1
INVARIANTS NothingRemovedOnFailure
CHECK_DEADLOCK FALSE
