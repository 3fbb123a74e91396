SPECIFICATION Spec
CONSTANTS
    MaxFilter = 3
    one = one
    all = all
    raw = raw
    two = two
    Filters <- MCFilters
    Type <- MCType
    CallAlways <- MCCallAlways
    Configs <- MCConfigs
    Usage = {}
    MaxDepth = 2
    NULL = NULL
INVARIANTS
    InformedOfCurrent
