\* proc_kill of other processes enabled.  A cancelled thread exits inside
\* sched_switch and strands the continuation of the thread that switched
\* away, after which the CPU runs nothing: the kernel really stops, so
\* deadlock is not checked here.
CONSTANTS
    PROC_MAX_COUNT <- MC_PROC_MAX_COUNT_SMALL
    Mutexes <- MC_Mutexes
    ExitStatus <- MC_ExitStatus
    Cancellation = TRUE
    InitWaitsAll = TRUE
SPECIFICATION Spec
PROPERTIES
    ProcLifeSpec
INVARIANTS
    QueueDiscipline
    ProcTree
CHECK_DEADLOCK FALSE
