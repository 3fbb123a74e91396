\* Two tasks with precise and coarse delays.
CONSTANTS
    f1 = f1  f2 = f2
    Func = {f1, f2}
    NULL = NULL
    NTasks = 2
    SchedExec = 1
    MaxExec = 4
    HpWrap = 12
    CoarseTick = 2
    CoarseWrap = 12
    MaxTime = 4
    ExecTimes = {2}
    Delays = {0, 2, 5}
    MaxLate = 1
    MaxAge = 3
SYMMETRY TaskSymmetry
VIEW ClockView
SPECIFICATION Spec
INVARIANTS OneSlotPerTask NoLostWakeup WakeupInTime NeverEarly
PROPERTY ImplementsService
CHECK_DEADLOCK FALSE
