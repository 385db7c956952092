SPECIFICATION DeploySpec
CONSTANTS
    app = app
    api = api
    a1 = a1
    a2 = a2
    b1 = b1
    b2 = b2
    appHost = appHost
    apiHost = apiHost
    App = {a1, a2, b1, b2}
    Router = router
    Foreign = {}
    address = address
    Host = {address, appHost, apiHost}
    Address = address
    Service = {app, api}
    ServiceOf <- TwoServices
    HostOf <- TheirHosts
    Takeover = TRUE
    None = None
    ServerMode = "managed"
INVARIANTS DeployTypeOK OneLive RoutesAreServed NamedTrafficIsLive
CHECK_DEADLOCK FALSE
