CONSTANTS
    r1 = r1  r2 = r2
    NULL = NULL
    Router = {r1, r2}
    NborTables <- MCNborTables
    Slots = {0, 1}
    Id = {0, 7}
    TTL = 2
    Late = TRUE
    FullScheduler = FALSE
    SendInCallback = FALSE
SPECIFICATION Spec
INVARIANTS ToldOnce FailureIsFinal
PROPERTY UserIsAnswered
