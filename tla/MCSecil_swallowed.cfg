SPECIFICATION Spec
CONSTANTS
    v1 = v1
    v2 = v2
    d1 = d1
    d2 = d2
    NoVersion = NoVersion
    Version <- TwoVersions
    Data <- OneString
    Roles <- FixedRoles
    Probes <- OneProber
    Cap = 3
    Observed <- AllCodes
    AppTraffic = FALSE
    Eager = FALSE
    Restartup = FALSE
    Storm = TRUE
INVARIANTS
    RestartsAnnounced
VIEW WithoutOffers
CONSTRAINT StillIntact
