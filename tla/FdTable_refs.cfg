\* Descriptor and vnode reference counting over every call.
CONSTANTS
    NFILES = 2
    FileIds <- MC_FileIds
    Vnodes <- MC_Vnodes
    DirVnodes <- MC_DirVnodes
    BASE_REFS = 1
    MAX_LEN = 1
    MAX_REFS = 2
    DIR_ENTRIES = 1
    OFlags <- MC_OFlags
    FdArgs <- MC_FdArgs
    Calls <- MC_Calls
    OpenCanFail = FALSE
SPECIFICATION Spec
INVARIANT TypeOK
INVARIANT NoDanglingFd
INVARIANT VnodeRefsExact
