\* Precise delays only; three requests, then the tasks on their own.
CONSTANTS
    f1 = f1  f2 = f2
    Func = {f1, f2}
    NULL = NULL
    NTasks = 2
    SchedExec = 1
    MaxExec = 4
    HpWrap = 10
    CoarseTick = 1
    CoarseWrap = 10
    MaxTime = 3
    ExecTimes = {2}
    Delays = {0, 2}
    MaxLate = 1
    MaxAge = 2
    Budget = 3
SPECIFICATION LiveSpec
INVARIANT ReservedTime
PROPERTIES PendingTaskRuns CancelledTaskReleased
CHECK_DEADLOCK FALSE
