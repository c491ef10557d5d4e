\* do_open of a directory for writing leaves the file referenced.
CONSTANTS
    NFILES = 2
    FileIds <- MC_FileIds
    Vnodes <- MC_VnodesDir
    DirVnodes <- MC_DirVnodes
    BASE_REFS = 1
    MAX_LEN = 1
    MAX_REFS = 2
    DIR_ENTRIES = 1
    OFlags <- MC_OFlagsWrite
    FdArgs <- MC_FdArgs
    Calls <- MC_CallsOpenClose
    OpenCanFail = FALSE
SPECIFICATION Spec
INVARIANT FileRefsExact
CHECK_DEADLOCK FALSE
