SPECIFICATION FairSpec
CONSTANTS
    old = old
    new = new
    host = host
    App = {old, new}
    Router = router
    Foreign = {theirs}
    Host = {host}
    Specs <- DeploySpecs
    NoSpec = NoSpec
    None = None
    Timer = timer
    Reader = {r1, r2}
    Request = {}
    Done = Done
    ServerMode = "managed"
    MaxOverlaps = 1
    MaxFaults = 1
INVARIANTS AgentTypeOK RetiringComesLast ForeignUntouched
PROPERTIES Converges
CHECK_DEADLOCK FALSE
