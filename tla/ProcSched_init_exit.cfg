\* Init's program may exit while it still has children.  proc_cleanup then
\* spins in sched_switch with init off every queue; the kernel stops
\* running init, so deadlock is not what this run is about.
CONSTANTS
    PROC_MAX_COUNT <- MC_PROC_MAX_COUNT_SMALL
    Mutexes <- MC_Mutexes
    ExitStatus <- MC_ExitStatus
    Cancellation = FALSE
    InitWaitsAll = FALSE
SPECIFICATION Spec
PROPERTY IdleReapsInit
CHECK_DEADLOCK FALSE
