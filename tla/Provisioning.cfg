CONSTANTS
    NULL = NULL
    p1 = p1  o1 = o1
    Proxies = {p1}
    Others = {o1}
    nb_retry = 1
    Scans <- MCScans
    Rooms = {TRUE}
    Confs <- MCConfs
    IdWrap = 3
    timeout_s = 1
    TimeoutWrap = 8
    MaxSessions = 2
    MaxPackets = 2
    MaxStops = 1
    AckAccepted = {TRUE}
    StartInCallback = {FALSE}
    ProxyConfs <- MCProxyConfs
    StopOutcomes = {TRUE}
    Reconfigure <- MCReconfigure
SPECIFICATION Spec
INVARIANTS AppliedWasVerified ResultIsOfThisSession EndedIsReleased LocalOrForwarded
PROPERTIES JoinsWhatWasHeard ImplementsSession SessionEnds
