\* Five pids and no mutex: init, a child, a grandchild and a great-grandchild.
\* A dead process reparented by proc_cleanup lands on a sleeping init.
CONSTANTS
    PROC_MAX_COUNT <- MC_PROC_MAX_COUNT_LARGE
    Mutexes <- MC_NoMutexes
    ExitStatus <- MC_ExitStatus
    Cancellation = FALSE
    InitWaitsAll = TRUE
SPECIFICATION Spec
INVARIANT NoLostWakeup
CHECK_DEADLOCK FALSE
