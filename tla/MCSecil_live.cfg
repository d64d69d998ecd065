SPECIFICATION FairSpec
CONSTANTS
    v1 = v1
    v2 = v2
    d1 = d1
    d2 = d2
    NoVersion = NoVersion
    Version <- OneVersion
    Data <- NoStrings
    Roles <- FixedRoles
    Probes <- NoProbes
    Cap = 2
    Observed <- NoCodes
    AppTraffic = FALSE
    Eager = FALSE
    Restartup = FALSE
    Storm = TRUE
PROPERTIES
    Convergence
    Quiescence
