\* A cancelled thread dispatched by sched_switch exits before the old
\* thread's context is saved.
CONSTANTS
    PROC_MAX_COUNT <- MC_PROC_MAX_COUNT_SMALL
    Mutexes <- MC_Mutexes
    ExitStatus <- MC_ExitStatus
    Cancellation = TRUE
    InitWaitsAll = TRUE
SPECIFICATION Spec
INVARIANT ContextIntact
CHECK_DEADLOCK FALSE
