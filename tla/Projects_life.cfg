SPECIFICATION ProjectsSpec
CONSTANTS
    Server = {s1, s2}
    Environment = {e1}
    Hostname = {h1}
    Request = {r1, r2}
    MaxVersions = 2
    MaxDomains = 2
    MaxMade = 3
    MaxUpsets = 1
    None = None
SYMMETRY Alike
CHECK_DEADLOCK FALSE
INVARIANTS ProjectsTypeOK NamesAreProven ToldWhatChanged ImageIsThere BuildingIsAsked AccessIsKnown
