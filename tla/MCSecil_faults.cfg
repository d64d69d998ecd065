SPECIFICATION Spec
CONSTANTS
    v1 = v1
    v2 = v2
    d1 = d1
    d2 = d2
    NoVersion = NoVersion
    Version <- OneVersion
    Data <- OneString
    Roles <- AnyRoles
    Probes <- BothProbe
    Cap = 1
    Observed <- AllCodes
    AppTraffic = TRUE
    Eager = TRUE
    Restartup = TRUE
    Storm = TRUE
INVARIANTS
    TypeOK
    OnConnectTruthful
VIEW WithoutRet
PROPERTIES
    SessionSpec
