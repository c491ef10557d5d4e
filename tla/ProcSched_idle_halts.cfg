\* Progress of idleproc_run once init exits.  The safe run checks deadlock;
\* here deadlock checking is off so that a state where the kernel stops short
\* of idle's halt counts as stuttering forever, which the leads-to rejects.
CONSTANTS
    PROC_MAX_COUNT <- MC_PROC_MAX_COUNT
    Mutexes <- MC_Mutexes
    ExitStatus <- MC_ExitStatus
    Cancellation = FALSE
    InitWaitsAll = TRUE
SPECIFICATION Spec
PROPERTY IdleReapsInit
CHECK_DEADLOCK FALSE
