CONSTANTS
    PROC_MAX_COUNT <- MC_PROC_MAX_COUNT
    Mutexes <- MC_Mutexes
    ExitStatus <- MC_ExitStatus
    Cancellation = FALSE
    InitWaitsAll = TRUE
SPECIFICATION Spec
PROPERTIES
    KMutexSpec
    ProcLifeSpec
INVARIANTS
    TypeOK
    QueueDiscipline
    MutexOwnership
    ProcTree
    ContextIntact
    OnlyLiveRun
    ShutdownRefsBalanced
