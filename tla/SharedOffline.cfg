CONSTANTS
    N = 2
    Delays = {1, 2, 4}
    DelayWrap = 3
    TIME_TO_SLEEP = 3
    INF = INF
    NULL = NULL
    Usage = {}
SPECIFICATION Spec
INVARIANTS OfflineOnlyIfAllReady OnlineRequestKept DeadlineKept
PROPERTY GoesOffline
