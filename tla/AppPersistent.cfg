CONSTANTS
    Values = {v1, v2}
    Lens = {1, 2, 4, 5, 6}
    MagicSize = 1
    SectorSize = 3
    AreaSize = 6
    Accepted = {TRUE, FALSE}
    ErasesAll = TRUE
    NoContent = NoContent
    MaxWrites = 3
SPECIFICATION Spec
INVARIANT
    ToldIsStored
PROPERTY ImplementsRegister
