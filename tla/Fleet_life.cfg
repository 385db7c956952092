SPECIFICATION FairFleetSpec
CONSTANTS
    MaxServers = 2
    MaxSetups = 1
    MaxTokens = 2
    MaxAttempts = 2
    MaxConns = 2
    MaxFaults = 1
    Kinds = {"key"}
CHECK_DEADLOCK FALSE
INVARIANTS FleetTypeOK CredentialAuthenticates StatusIsAttended
PROPERTIES SetupEnds ShownOnline ShownOffline
