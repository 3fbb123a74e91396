CONSTANTS
    Client = {m1, m2}
    Id = {1, 5}
    MAX_TRACKED_PACKET = 3
    NO_TRACKING_ID = 9
    NULL_CB = NULL_CB
    Refill = TRUE
SPECIFICATION TxSpec
INVARIANTS SlotsInFlight NoSharedId ModuleIdGivenBack
