SPECIFICATION FairSpec
CONSTANTS
    old = old
    new = new
    host = host
    App = {old, new}
    Router = router
    Foreign = {theirs}
    Host = {host}
    Specs <- DeploySpecs
    NoSpec = NoSpec
    None = None
    Timer = timer
    Reader = {r1}
    Request = {q1}
    Done = Done
    ServerMode = "managed"
    MaxOverlaps = 0
    MaxFaults = 2
PROPERTIES Converges GivenUpStaysDown
CHECK_DEADLOCK FALSE
