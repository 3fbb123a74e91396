SPECIFICATION Spec
CONSTANTS
    Settings <- MCSettings
    AppCfgs <- MCAppCfgs
    Cycle = 2
    SendOutcomes = {"sent", "refused", "no_buffer"}
    ScanOutcomes = {TRUE}
    OfflineOutcomes = {TRUE}
    WakeupRefused = FALSE
    NoSlot = {}
    LateScans = FALSE
    Usage = {}
    MAX_INTERNAL_EVENTS = 16
    MaxPosted = 2
    MaxInFlight = 1
    NULL = NULL
INVARIANTS
    NextUpdateOwed
    UpdateWithinPeriod
    ScanEndComes
