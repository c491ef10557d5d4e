\* sys_halt's proc_kill_all may be called by any kernel code but idle's.
\* Threads it marks exited stay on their queues; the kernel may stop
\* afterwards, so deadlock is not what this run is about.
CONSTANTS
    PROC_MAX_COUNT <- MC_PROC_MAX_COUNT
    Mutexes <- MC_Mutexes
    ExitStatus <- MC_ExitStatus
    Cancellation = FALSE
    InitWaitsAll = TRUE
SPECIFICATION HaltSpec
INVARIANT OnlyLiveRun
CHECK_DEADLOCK FALSE
