SPECIFICATION Spec
CONSTANTS
    Items = 4
    Reserved = 1
    ThresholdPercent = 50
    FrameIds = 2
    TxRoom = 2
    Requests = {"poll", "config"}
    AddTaskOutcomes = {TRUE}
    HostAhead = 2
    MaxPackets = 2
    LatestKinds = {"config"}
    Nil = Nil
INVARIANTS
    ItemsConserved
    RequestNotStranded
    PauseHasReason
    DeliveredInOrder
    IrqTellsPending
