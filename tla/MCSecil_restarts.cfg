SPECIFICATION Spec
CONSTANTS
    v1 = v1
    v2 = v2
    d1 = d1
    d2 = d2
    NoVersion = NoVersion
    Version <- TwoVersions
    Data <- NoStrings
    Roles <- FixedRoles
    Probes <- NoProbes
    Cap = 3
    Observed <- AllCodes
    AppTraffic = FALSE
    Eager = FALSE
    Restartup = FALSE
    Storm = TRUE
INVARIANTS
    VersionsKnown
    RestartsAnnounced
    RequestsAnswered
VIEW WithoutOffers
CONSTRAINT StillIntact
