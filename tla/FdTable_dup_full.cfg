\* do_dup on a full descriptor table.
CONSTANTS
    NFILES = 1
    FileIds <- MC_FileIdsOne
    Vnodes <- MC_VnodesReg
    DirVnodes <- MC_DirVnodesNone
    BASE_REFS = 1
    MAX_LEN = 1
    MAX_REFS = 2
    DIR_ENTRIES = 1
    OFlags <- MC_OFlagsRead
    FdArgs <- MC_FdArgsZero
    Calls <- MC_CallsOpenDup
    OpenCanFail = FALSE
SPECIFICATION Spec
INVARIANT NoOutOfBounds
CHECK_DEADLOCK FALSE
