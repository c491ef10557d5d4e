\* The name space calls over every path of up to two components, with open
\* and close.
CONSTANTS
    Root = "r"
    NoIno = "null"
    Inodes <- MC_Inodes
    Names <- MC_Names
    Paths <- MC_Paths
    LinkPaths <- MC_LinkPaths
    Calls <- MC_Calls
    MAX_VREF = 3
    FDs <- MC_FDs
    OpenPaths <- MC_OpenPaths
    OpenFlags <- MC_OpenFlags
SPECIFICATION Spec
INVARIANT TypeOK
INVARIANT ResolveAgrees
INVARIANT VnodeHeld
INVARIANT MkdirRmdirIdentity
\* A kernel fault (link through a NULL operation) stops every call.
CHECK_DEADLOCK FALSE
