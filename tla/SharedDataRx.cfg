CONSTANTS
    a = a  b = b  c = c
    NULL = NULL  ANY = ANY
    Item <- MCItem
    FilterOf <- MCFilterOf
    Packet <- MCPacket
    Usage = {}
SPECIFICATION RxSpec
INVARIANTS PauseHasOwner BusyNotCalled PacketReachesAll
PROPERTY RemovedNotCalled
